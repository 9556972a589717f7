----------------------------- MODULE ShopPromise -----------------------------
(***************************************************************************)
(* What a shop promises, with no lock, version, retry or transaction in    *)
(* sight: a cart changes by one edit at a time, and an open cart turns     *)
(* into an order at once.  The order takes the cart's items as they are at *)
(* that moment, all of them from stock that is there, with at most one     *)
(* campaign's discount, which its budget covers; and it never changes.     *)
(***************************************************************************)
EXTENDS Integers

CONSTANTS
  Carts, Variants, Campaigns, None,
  Stock,                \* of a variant at the start
  Filled,               \* what a cart may hold at the start
  Offer,                \* a campaign's budget cap, among others
  Quantity(_, _),       \* of a variant among items
  Total(_),             \* what items cost
  Edited(_, _),         \* items and what one edit makes of them
  Discounts(_, _, _)    \* items, a campaign or None, and what it takes off them

VARIABLES stock, spent, cart, order

vars == <<stock, spent, cart, order>>

Init ==
  /\ stock = Stock
  /\ spent = [k \in Campaigns |-> 0]
  /\ \E S \in SUBSET Carts :
       cart = [c \in Carts |-> IF c \in S THEN [status |-> "active", items |-> Filled[c]] ELSE None]
  /\ order = [c \in Carts |-> None]

Open(c) ==
  /\ cart[c] = None
  /\ cart' = [cart EXCEPT ![c] = [status |-> "active", items |-> <<>>]]
  /\ UNCHANGED <<stock, spent, order>>

\* The items of a cart that was sold may change, the order's do not.
Change(c) ==
  /\ cart[c] # None /\ cart'[c] # None /\ cart'[c] # cart[c]
  /\ Edited(cart[c].items, cart'[c].items)
  /\ cart' = [cart EXCEPT ![c].items = cart'[c].items]
  /\ UNCHANGED <<stock, spent, order>>

Sell(c) ==
  LET items == cart[c].items
  IN  /\ order[c] = None /\ order'[c] # None /\ cart[c] # None /\ cart[c].status = "active"
      /\ items # <<>>
      /\ \A v \in Variants : Quantity(items, v) <= stock[v]
      /\ \E k \in Campaigns \cup {None}, d \in 0 .. Total(items) :
           /\ Discounts(items, k, d)
           /\ k # None => spent[k] + d <= Offer[k].cap
           /\ order' = [order EXCEPT ![c] =
                [lines |-> items, subtotal |-> Total(items) - d, discount |-> d, campaign |-> k]]
           /\ spent' = [j \in Campaigns |-> IF j = k THEN spent[j] + d ELSE spent[j]]
      /\ stock' = [v \in Variants |-> stock[v] - Quantity(items, v)]
      /\ cart' = [cart EXCEPT ![c].status = "checked_out"]

Next == \E c \in Carts : Open(c) \/ Change(c) \/ Sell(c)

Spec == Init /\ [][Next]_vars
==============================================================================
