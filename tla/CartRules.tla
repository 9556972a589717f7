------------------------------- MODULE CartRules -------------------------------
(***************************************************************************)
(* What carts are filled with, what an edit does to the items and what a   *)
(* campaign takes off an item: the rules of backend/commerce/cart and      *)
(* backend/commerce/order that need no state, for CartCheckout and for     *)
(* what it promises (ShopPromise).                                         *)
(***************************************************************************)
EXTENDS Integers, FiniteSets, SequencesExt

CONSTANTS
  Carts, Variants, Products, Campaigns,   \* row ids
  Price,        \* of a variant
  ProductOf,    \* of a variant
  Offer,        \* per campaign: its product, discount percent and budget cap
  Stock,        \* availability of a variant before any checkout
  Filled,       \* what a cart may hold at the start
  None

Item == [v : Variants, qty : Nat \ {0}]
Edit == [kind : {"add", "set", "remove"}, c : Carts, v : Variants, qty : Nat \ {0}]

\* UNIQUE (cart_id, variant_id) of cart_items.
OneLineEach(items) == \A i, j \in DOMAIN items : items[i].v = items[j].v => i = j

ASSUME RulesAssumption ==
  /\ Price \in [Variants -> Nat] /\ ProductOf \in [Variants -> Products]
  /\ Offer \in [Campaigns -> [product : Products, percent : 0 .. 100, cap : Nat]]
  /\ Stock \in [Variants -> Nat]
  /\ Filled \in [Carts -> Seq(Item)] /\ \A c \in Carts : OneLineEach(Filled[c])
  /\ Carts \cap Variants = {} /\ Carts \cap Products = {} /\ Carts \cap Campaigns = {}
  /\ Variants \cap Products = {} /\ Variants \cap Campaigns = {}
  /\ Products \cap Campaigns = {}
  /\ None \notin Carts \cup Variants \cup Products \cup Campaigns

Total(items) == SumFunction([i \in DOMAIN items |-> Price[items[i].v] * items[i].qty])
Quantity(items, v) ==
  SumFunction([i \in DOMAIN items |-> IF items[i].v = v THEN items[i].qty ELSE 0])

Positions(items, v) == {i \in DOMAIN items : items[i].v = v}

\* Without the line of a variant, of which there is one.
Without(items, v) == RemoveAt(items, CHOOSE i \in Positions(items, v) : TRUE)

\* Mutant: removing an item takes one off its quantity.
Applied_RemovesOne(edit, items) ==
  LET at == Positions(items, edit.v)
      more == CASE edit.kind = "add" -> edit.qty [] edit.kind = "remove" -> 0 - 1 [] OTHER -> 0
  IN  IF at = {} THEN Append(items, [v |-> edit.v, qty |-> edit.qty])
      ELSE [i \in DOMAIN items |->
              IF i \in at THEN [v |-> edit.v, qty |-> items[i].qty + more] ELSE items[i]]

\* The items after an edit; recomputeTotal is Total.
Applied(edit, items) ==
  LET at == Positions(items, edit.v)
  IN  CASE edit.kind = "remove" -> Without(items, edit.v)
        [] edit.kind = "set" -> [i \in DOMAIN items |->
             IF i \in at THEN [v |-> edit.v, qty |-> edit.qty] ELSE items[i]]
        [] edit.kind = "add" /\ at # {} -> [i \in DOMAIN items |->
             IF i \in at THEN [v |-> edit.v, qty |-> items[i].qty + edit.qty] ELSE items[i]]
        [] edit.kind = "add" /\ at = {} ->
             Append(items, [v |-> edit.v, qty |-> edit.qty])

\* What a campaign takes off an item.
CandidateDiscount(item, k) == (Price[item.v] * item.qty * Offer[k].percent) \div 100

\* The discount is none, or the campaign's on one of the items.
Discounts(items, k, d) ==
  \/ k = None /\ d = 0
  \/ /\ k \in Campaigns
     /\ \E i \in DOMAIN items :
          Offer[k].product = ProductOf[items[i].v] /\ d = CandidateDiscount(items[i], k)

\* Items and what one edit, of any quantity that can be told from them, makes of them.
Edited(before, after) ==
  \E kind \in {"add", "set", "remove"}, v \in Variants :
    /\ kind # "add" => Positions(before, v) # {}
    /\ \E qty \in 1 .. Quantity(after, v) + 1 :
         after = Applied([kind |-> kind, v |-> v, qty |-> qty], before)
================================================================================
