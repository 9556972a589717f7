----------------------------- MODULE CartCheckout -----------------------------
(***************************************************************************)
(* Carts and their checkout.  An edit (backend/commerce/cart/service.go)   *)
(* reads the cart and saves it back under an optimistic version; a         *)
(* checkout (backend/commerce/order/postgres_repository.go CheckoutCart)   *)
(* is one long transaction that locks rows one after another.  Both run    *)
(* against each other and against themselves.  A recovery of an order that *)
(* was refused (commerce/payment/handler.go, agents/rejection_recovery.go) *)
(* fills a new cart from its lines, to be checked out in its turn.         *)
(*                                                                         *)
(* A transaction is modelled by the rows it holds: what it writes becomes  *)
(* visible, all of it, when it commits.  Postgres aborts one member of any *)
(* circle of waiting transactions.                                         *)
(***************************************************************************)
EXTENDS CartRules

CONSTANTS
  Checkouts, Editors, Recoveries,   \* requests, each made once
  Edits,        \* what editors ask for
  Substitutes,  \* default variants of products a recovery may swap in
  MaxRetries,   \* maxCartMutateRetries
  MayFail       \* whether a statement may fail and end its transaction

ASSUME CartAssumption ==
  /\ Edits \subseteq Edit /\ Substitutes \subseteq Variants
  /\ MaxRetries \in Nat \ {0} /\ MayFail \in BOOLEAN

VARIABLES
  stock,    \* product_variants.availability
  spent,    \* campaigns.spent
  cart,     \* carts and their cart_items
  order,    \* orders and their order_items, by cart: the id is "order_" + cart
  tx,       \* each checkout's transaction
  editor,   \* each edit
  recovery  \* each recovery: its new cart and the items still to be added

vars == <<stock, spent, cart, order, tx, editor, recovery>>

Rows == Carts \cup Variants \cup Products \cup Campaigns

CartRow ==
  [status : {"active", "checked_out"}, version : Nat, items : Seq(Item), subtotal : Nat]
OrderRow ==
  [lines : Seq(Item), subtotal : Nat, discount : Nat, campaign : Campaigns \cup {None}]

CheckoutSteps == {"items", "discount", "guard", "reserve", "product", "place"}
Transaction ==
  [pc : CheckoutSteps \cup {"idle", "placed", "failed"}, cart : Carts \cup {None},
   subtotal : Nat, items : Seq(Item), next : Nat, campaign : Campaigns \cup {None},
   discount : Nat, held : SUBSET Rows]

ASSUME NoneIsNoRow ==
  /\ None \notin CartRow \cup OrderRow
  /\ None \notin [status : {"active", "checked_out"}, items : Seq(Item)]

EditSteps == {"variant", "row", "items", "save"}
Editing ==
  [pc : EditSteps \cup {"idle", "saved", "failed"}, edit : Edits \cup {None}, seen : Int,
   version : Nat, items : Seq(Item), tries : Nat]

NewRecovery(how, c, todo) == [pc |-> how, cart |-> c, todo |-> todo]

TypeInvariant ==
  /\ stock \in [Variants -> Int]
  /\ spent \in [Campaigns -> Nat]
  /\ cart \in [Carts -> CartRow \cup {None}]
  /\ order \in [Carts -> OrderRow \cup {None}]
  /\ tx \in [Checkouts -> Transaction]
  /\ editor \in [Editors -> Editing]
  /\ recovery \in [Recoveries ->
       [pc : {"idle", "fill", "checkout", "failed"}, cart : Carts \cup {None}, todo : Seq(Item)]]

NewCart(items) ==
  [status |-> "active", version |-> 0, items |-> items, subtotal |-> Total(items)]
TxEnd(how) ==
  [pc |-> how, cart |-> None, subtotal |-> 0, items |-> <<>>, next |-> 1,
   campaign |-> None, discount |-> 0, held |-> {}]
EditEnd(how) ==
  [pc |-> how, edit |-> None, seen |-> 0, version |-> 0, items |-> <<>>, tries |-> 0]

Init ==
  /\ stock = Stock
  /\ spent = [k \in Campaigns |-> 0]
  /\ \E S \in SUBSET Carts :
       cart = [c \in Carts |-> IF c \in S THEN NewCart(Filled[c]) ELSE None]
  /\ order = [c \in Carts |-> None]
  /\ tx = [t \in Checkouts |-> TxEnd("idle")]
  /\ editor = [e \in Editors |-> EditEnd("idle")]
  /\ recovery = [r \in Recoveries |-> NewRecovery("idle", None, <<>>)]

CreateCart(c) ==
  /\ cart[c] = None
  /\ cart' = [cart EXCEPT ![c] = NewCart(<<>>)]
  /\ UNCHANGED <<stock, spent, order, tx, editor, recovery>>

------------------------------------------------------------------------------
\* Edits: AddItem, UpdateItemQuantity and RemoveItem through mutateCart.

EditAt(e, pc) == editor[e].pc = pc
EndEdit(e, how) == editor' = [editor EXCEPT ![e] = EditEnd(how)]

\* Locked by a checkout, which a SaveCart then waits for.
Locked(row) == \E t \in Checkouts : row \in tx[t].held

\* What makes the closure mutate refuse: nothing to change, or more than was
\* available when the variant was read, before the first attempt.
Refused(edit, items, seen) ==
  \/ edit.kind # "add" /\ Positions(items, edit.v) = {}
  \/ edit.kind = "add" /\ Quantity(items, edit.v) + edit.qty > seen

BeginEdit(e, edit) ==
  /\ EditAt(e, "idle")
  /\ editor' = [editor EXCEPT ![e] =
       [EditEnd(IF edit.kind = "remove" THEN "row" ELSE "variant") EXCEPT !.edit = edit]]
  /\ UNCHANGED <<stock, spent, cart, order, tx, recovery>>

\* GetVariant, once; UpdateItemQuantity compares with it at once.
ReadVariant(e) ==
  /\ EditAt(e, "variant")
  /\ LET edit == editor[e].edit
     IN  IF edit.kind = "set" /\ edit.qty > stock[edit.v]
         THEN EndEdit(e, "failed")
         ELSE editor' = [editor EXCEPT ![e].pc = "row", ![e].seen = stock[edit.v]]
  /\ UNCHANGED <<stock, spent, cart, order, tx, recovery>>

\* GetCart is two statements: the row with its version, then the items.
\* Mutant: the items are read first.
ReadCartRow_ItemsFirst(e) ==
  /\ EditAt(e, "row")
  /\ IF cart[editor[e].edit.c] = None
     THEN EndEdit(e, "failed")
     ELSE editor' = [editor EXCEPT ![e].pc = "items",
                                   ![e].items = cart[editor[e].edit.c].items]
  /\ UNCHANGED <<stock, spent, cart, order, tx, recovery>>

ReadCartRow(e) ==
  /\ EditAt(e, "row")
  /\ IF cart[editor[e].edit.c] = None
     THEN EndEdit(e, "failed")
     ELSE editor' = [editor EXCEPT ![e].pc = "items",
                                   ![e].version = cart[editor[e].edit.c].version]
  /\ UNCHANGED <<stock, spent, cart, order, tx, recovery>>

\* GetCart's items, and mutate on them.
ReadCartItems(e) ==
  /\ EditAt(e, "items")
  /\ LET w == editor[e]
         items == cart[w.edit.c].items
     IN  IF Refused(w.edit, items, w.seen)
         THEN EndEdit(e, "failed")
         ELSE editor' = [editor EXCEPT ![e].pc = "save",
                                       ![e].items = Applied(w.edit, items)]
  /\ UNCHANGED <<stock, spent, cart, order, tx, recovery>>

Save(e) ==
  LET w == editor[e]
  IN  /\ cart' = [cart EXCEPT ![w.edit.c].items = w.items,
                              ![w.edit.c].subtotal = Total(w.items),
                              ![w.edit.c].version = @ + 1]
      /\ EndEdit(e, "saved")

\* Mutant: the version is not compared.
SaveCart_AnyVersion(e) ==
  /\ EditAt(e, "save") /\ ~Locked(editor[e].edit.c)
  /\ Save(e)
  /\ UNCHANGED <<stock, spent, order, tx, recovery>>

\* SaveCart: one transaction that starts with the guarded update of the row.
\* The cart's status is not looked at, and a checkout does not move the version.
SaveCart(e) ==
  /\ EditAt(e, "save") /\ ~Locked(editor[e].edit.c)
  /\ LET w == editor[e]
     IN  \/ cart[w.edit.c].version = w.version /\ Save(e)
         \/ /\ cart[w.edit.c].version # w.version
            /\ IF w.tries + 1 = MaxRetries
               THEN EndEdit(e, "failed")
               ELSE editor' = [editor EXCEPT ![e].pc = "row", ![e].tries = @ + 1]
            /\ UNCHANGED cart
  /\ UNCHANGED <<stock, spent, order, tx, recovery>>

BreakEdit(e) ==
  /\ MayFail /\ editor[e].pc \in EditSteps
  /\ EndEdit(e, "failed")
  /\ UNCHANGED <<stock, spent, cart, order, tx, recovery>>

EditStep(e) == ReadVariant(e) \/ ReadCartRow(e) \/ ReadCartItems(e) \/ SaveCart(e)

------------------------------------------------------------------------------
\* Checkout.

TxAt(t, pc) == tx[t].pc = pc
Current(t) == tx[t].items[tx[t].next]

\* The row is the transaction's own or nobody's.
Free(row, t) == \A u \in Checkouts \ {t} : row \notin tx[u].held

\* Mutant: a failed checkout keeps what it has locked.
Abort_KeepsLocks(t) == tx' = [tx EXCEPT ![t].pc = "failed"]

\* Rollback: the rows are let go as they were.
Abort(t) == tx' = [tx EXCEPT ![t] = TxEnd("failed")]

\* Mutant: a plain SELECT.
LockCart_Unlocked(t, c) ==
  /\ TxAt(t, "idle") /\ Free(c, t)
  /\ cart[c] # None
  /\ IF cart[c].status = "checked_out"
     THEN Abort(t)
     ELSE \/ Abort(t)
          \/ tx' = [tx EXCEPT ![t] =
               [TxEnd("items") EXCEPT !.cart = c, !.subtotal = cart[c].subtotal]]
  /\ UNCHANGED <<stock, spent, cart, order, editor, recovery>>

\* SELECT ... FOR UPDATE; refused if checked out, and at any time if expired.
LockCart(t, c) ==
  /\ TxAt(t, "idle") /\ Free(c, t)
  /\ cart[c] # None
  /\ IF cart[c].status = "checked_out"
     THEN Abort(t)
     ELSE \/ Abort(t)
          \/ tx' = [tx EXCEPT ![t] =
               [TxEnd("items") EXCEPT !.cart = c, !.subtotal = cart[c].subtotal,
                                      !.held = {c}]]
  /\ UNCHANGED <<stock, spent, cart, order, editor, recovery>>

LoadItems(t) ==
  /\ TxAt(t, "items")
  /\ LET items == cart[tx[t].cart].items
     IN  IF items = <<>>
         THEN Abort(t)
         ELSE tx' = [tx EXCEPT ![t].pc = "discount", ![t].items = items]
  /\ UNCHANGED <<stock, spent, cart, order, editor, recovery>>

\* The next item, or the reservations once all items have been tried.
SkipItem(t) ==
  LET w == tx[t]
  IN  tx' = [tx EXCEPT ![t] =
        IF w.next = Len(w.items)
        THEN [w EXCEPT !.pc = "reserve", !.next = 1, !.campaign = None]
        ELSE [w EXCEPT !.pc = "discount", !.next = w.next + 1, !.campaign = None]]

\* Mutant: the guard forgets the discount it is about to add.
WithinCap_SpentOnly(k, d) == spent[k] <= Offer[k].cap

WithinCap(k, d) == spent[k] + d <= Offer[k].cap

\* The product's campaign, if it has one that is ACTIVE at the moment.
FindCampaign(t) ==
  /\ TxAt(t, "discount")
  /\ \/ SkipItem(t)
     \/ \E k \in Campaigns :
          /\ Offer[k].product = ProductOf[Current(t).v]
          /\ tx' = [tx EXCEPT ![t].pc = "guard", ![t].campaign = k]
  /\ UNCHANGED <<stock, spent, cart, order, editor, recovery>>

\* The guarded update of its spend.  A row that fails the guard is passed over
\* without waiting, and the checkout goes on at full price.
SpendBudget(t) ==
  LET w == tx[t]
      k == w.campaign
      d == CandidateDiscount(Current(t), k)
  IN  /\ TxAt(t, "guard")
      /\ \/ ~WithinCap(k, d) /\ SkipItem(t)
         \/ /\ WithinCap(k, d) /\ Free(k, t)
            /\ tx' = [tx EXCEPT ![t] =
                 [w EXCEPT !.pc = "reserve", !.next = 1, !.discount = d,
                           !.held = w.held \cup {k}]]
      /\ UNCHANGED <<stock, spent, cart, order, editor, recovery>>

\* Mutant: the variant is read without FOR UPDATE.
ReserveVariant_Unlocked(t) ==
  /\ TxAt(t, "reserve")
  /\ IF stock[Current(t).v] < Current(t).qty
     THEN Abort(t)
     ELSE tx' = [tx EXCEPT ![t].pc = "product"]
  /\ UNCHANGED <<stock, spent, cart, order, editor, recovery>>

\* One item's variant is locked, in cart order, and its stock taken.
ReserveVariant(t) ==
  /\ TxAt(t, "reserve") /\ Free(Current(t).v, t)
  /\ IF stock[Current(t).v] < Current(t).qty
     THEN Abort(t)
     ELSE tx' = [tx EXCEPT ![t].pc = "product", ![t].held = @ \cup {Current(t).v}]
  /\ UNCHANGED <<stock, spent, cart, order, editor, recovery>>

\* The product's display availability: what matters of it is its lock.
TouchProduct(t) ==
  LET w == tx[t]
      p == ProductOf[Current(t).v]
  IN  /\ TxAt(t, "product") /\ Free(p, t)
      /\ tx' = [tx EXCEPT ![t] =
           IF w.next = Len(w.items)
           THEN [w EXCEPT !.pc = "place", !.held = w.held \cup {p}]
           ELSE [w EXCEPT !.pc = "reserve", !.next = w.next + 1, !.held = w.held \cup {p}]]
      /\ UNCHANGED <<stock, spent, cart, order, editor, recovery>>

\* Order, redemption and lines inserted, cart marked, commit.
PlaceOrder(t) ==
  LET w == tx[t]
  IN  /\ TxAt(t, "place")
      /\ order' = [order EXCEPT ![w.cart] =
           [lines |-> w.items, subtotal |-> w.subtotal - w.discount,
            discount |-> w.discount, campaign |-> w.campaign]]
      /\ stock' = [v \in Variants |-> stock[v] - Quantity(w.items, v)]
      /\ spent' = [k \in Campaigns |->
           IF k = w.campaign THEN spent[k] + w.discount ELSE spent[k]]
      /\ cart' = [cart EXCEPT ![w.cart].status = "checked_out"]
      /\ tx' = [tx EXCEPT ![t] = TxEnd("placed")]
      /\ UNCHANGED <<editor, recovery>>

BreakCheckout(t) ==
  /\ MayFail /\ tx[t].pc \in CheckoutSteps
  /\ Abort(t)
  /\ UNCHANGED <<stock, spent, cart, order, editor, recovery>>

\* The rows the transaction's next statement may have to wait for.
Wants(t) ==
  CASE TxAt(t, "guard") ->
         {k \in {tx[t].campaign} : WithinCap(k, CandidateDiscount(Current(t), k))}
    [] TxAt(t, "reserve") -> {Current(t).v}
    [] TxAt(t, "product") -> {ProductOf[Current(t).v]}
    [] OTHER -> {}

WaitsFor(t, u) == t # u /\ Wants(t) \cap tx[u].held # {}

\* Everyone in S waits for another of S: Postgres ends one of them.
DeadlockVictim(t) ==
  /\ \E S \in SUBSET Checkouts :
       t \in S /\ \A u \in S : \E w \in S : WaitsFor(u, w)
  /\ Abort(t)
  /\ UNCHANGED <<stock, spent, cart, order, editor, recovery>>

CheckoutStep(t) ==
  \/ LoadItems(t) \/ FindCampaign(t) \/ SpendBudget(t)
  \/ ReserveVariant(t) \/ TouchProduct(t)
  \/ PlaceOrder(t) \/ DeadlockVictim(t)

------------------------------------------------------------------------------
\* Recovery.

\* A refused order's lines without one, and perhaps one of a substitute, are put
\* into a new cart.  RemoveItemAndRecheckout keeps at least one line;
\* ReplaceItemAndRecheckout does not mind.  What the payment's state must be for
\* it is in the payment modules; the old order keeps what it reserved.
BeginRecovery(r, old, v, c) ==
  /\ recovery[r].pc = "idle"
  /\ order[old] # None /\ Positions(order[old].lines, v) # {}
  /\ cart[c] = None
  /\ LET remaining == Without(order[old].lines, v)
     IN  \E more \in {<<>>} \cup {<<[v |-> w, qty |-> 1]>> : w \in Substitutes} :
           /\ more = <<>> => Len(order[old].lines) > 1
           /\ recovery' = [recovery EXCEPT ![r] = NewRecovery("fill", c, remaining \o more)]
  /\ cart' = [cart EXCEPT ![c] = NewCart(<<>>)]
  /\ UNCHANGED <<stock, spent, order, tx, editor>>

\* AddItem for each: nobody else knows the cart yet, but the stock is what it is.
RefillCart(r) ==
  LET w == recovery[r]
      add == [kind |-> "add", c |-> w.cart, v |-> Head(w.todo).v, qty |-> Head(w.todo).qty]
      items == cart[w.cart].items
  IN  /\ w.pc = "fill"
      /\ IF Refused(add, items, stock[add.v])
         THEN recovery' = [recovery EXCEPT ![r].pc = "failed"] /\ UNCHANGED cart
         ELSE /\ recovery' = [recovery EXCEPT ![r] =
                   NewRecovery(IF Len(w.todo) = 1 THEN "checkout" ELSE "fill", w.cart, Tail(w.todo))]
              /\ cart' = [cart EXCEPT ![w.cart] =
                   [NewCart(Applied(add, items)) EXCEPT !.version = cart[w.cart].version + 1]]
      /\ UNCHANGED <<stock, spent, order, tx, editor>>

\* What was filled so far stays.
BreakRecovery(r) ==
  /\ MayFail /\ recovery[r].pc = "fill"
  /\ recovery' = [recovery EXCEPT ![r].pc = "failed"]
  /\ UNCHANGED <<stock, spent, cart, order, tx, editor>>

\* New carts whose id only the recovery knows.
Hidden == {recovery[r].cart : r \in {x \in Recoveries : recovery[x].pc \in {"fill", "failed"}}}

Ended ==
  /\ \A t \in Checkouts : tx[t].pc \in {"idle", "placed", "failed"}
  /\ \A e \in Editors : editor[e].pc \in {"idle", "saved", "failed"}
  /\ \A r \in Recoveries : recovery[r].pc # "fill"

Next ==
  \/ \E c \in Carts : CreateCart(c)
  \/ \E e \in Editors :
       (\E edit \in Edits : edit.c \notin Hidden /\ BeginEdit(e, edit)) \/ EditStep(e) \/ BreakEdit(e)
  \/ \E t \in Checkouts :
       (\E c \in Carts \ Hidden : LockCart(t, c)) \/ CheckoutStep(t) \/ BreakCheckout(t)
  \/ \E r \in Recoveries :
       \/ RefillCart(r) \/ BreakRecovery(r)
       \/ \E old, c \in Carts, v \in Variants : BeginRecovery(r, old, v, c)
  \/ Ended /\ UNCHANGED vars   \* no request left

Spec == Init /\ [][Next]_vars

\* While some handler's statement can run, one runs; Postgres looks for deadlocks.
\* (Each request is a bounded number of steps, so nobody can be passed over for
\* ever and this much fairness is enough.)
FairSpec ==
  /\ Spec
  /\ WF_vars(\/ \E e \in Editors : EditStep(e)
             \/ \E t \in Checkouts : CheckoutStep(t)
             \/ \E r \in Recoveries : RefillCart(r))

------------------------------------------------------------------------------
\* Properties.

Orders == {c \in Carts : order[c] # None}

\* Not a unit of stock is sold twice or made up: what a variant has left and what
\* the orders took are what it had, and it never falls below zero.
StockIsKept ==
  \A v \in Variants :
    /\ stock[v] >= 0
    /\ stock[v] + SumFunction([c \in Orders |-> Quantity(order[c].lines, v)]) = Stock[v]

\* No campaign spends more than its cap, however many checkouts draw on it at once.
CapIsKept == \A k \in Campaigns : spent[k] <= Offer[k].cap

\* And it has spent exactly the discounts of its orders.
BudgetIsKept ==
  /\ CapIsKept
  /\ \A k \in Campaigns :
       spent[k] = SumFunction([c \in Orders |->
                    IF order[c].campaign = k THEN order[c].discount ELSE 0])

\* What the buyer is asked to pay is what the lines of the order add up to, less
\* the discount: no edit slips between the subtotal and the items.
OrdersAddUp ==
  \A c \in Orders : order[c].subtotal = Total(order[c].lines) - order[c].discount

\* No edit is lost: one that is saved changes the cart as it is at that moment,
\* not as it was when the edit began, and that cart would not have refused it.
NoEditIsLost ==
  [][\A e \in Editors :
       EditAt(e, "save") /\ editor'[e].pc = "saved" =>
         LET edit == editor[e].edit
         IN  /\ ~Refused(edit, cart[edit.c].items, editor[e].seen)
             /\ cart'[edit.c].items = Applied(edit, cart[edit.c].items)]_vars

\* A checkout is many statements, an edit several and some of them tried again; to
\* everyone else a cart turns into an order at once, as it is at that moment and from
\* stock and budget that are there, and changes by whole edits.
Shown ==
  [c \in Carts |-> IF cart[c] = None THEN None
                   ELSE [status |-> cart[c].status, items |-> cart[c].items]]

Shop == INSTANCE ShopPromise WITH cart <- Shown
SoldAtOnce == Shop!Spec

\* A checkout or an edit that began is answered, though checkouts lock the same
\* rows in different orders and edits chase each other: each request is made
\* once, so that none is stuck if all have ended again and again.
RequestsEnd == []<>Ended

\* The inductive invariant of the cap and of the orders' sums.  Rows are held by one
\* transaction each; a cart that is being checked out is held from the first statement
\* on, and a campaign from the moment its guard was passed until its spend is written,
\* so that what was read of them still stands at the end.
DrawsOn(t, k) == tx[t].pc \in {"reserve", "product", "place"} /\ tx[t].campaign = k

RowShapes ==
  /\ DOMAIN tx = Checkouts /\ \A t \in Checkouts : DOMAIN tx[t] = DOMAIN TxEnd("idle")
  /\ DOMAIN editor = Editors /\ \A e \in Editors : DOMAIN editor[e] = DOMAIN EditEnd("idle")
  /\ DOMAIN cart = Carts /\ \A c \in Carts : cart[c] # None => DOMAIN cart[c] = DOMAIN NewCart(<<>>)
  /\ DOMAIN recovery = Recoveries
  /\ \A r \in Recoveries : DOMAIN recovery[r] = DOMAIN NewRecovery("idle", None, <<>>)
  /\ DOMAIN order = Carts

CartsAddUp == \A c \in Carts : cart[c] # None => cart[c].subtotal = Total(cart[c].items)

EditsHaveCarts ==
  \A e \in Editors : editor[e].pc \in EditSteps =>
    /\ editor[e].edit \in Edits
    /\ editor[e].pc \in {"items", "save"} =>
         DOMAIN cart[editor[e].edit.c] = DOMAIN NewCart(<<>>)

OneHolder == \A t, u \in Checkouts : t # u => tx[t].held \cap tx[u].held = {}

CheckedOut(t) ==
  tx[t].pc \in CheckoutSteps =>
    /\ tx[t].cart \in Carts \cap tx[t].held
    /\ cart[tx[t].cart] # None
    /\ \A r \in Recoveries : recovery[r].pc = "fill" => recovery[r].cart # tx[t].cart
    /\ tx[t].pc = "items" => tx[t].subtotal = cart[tx[t].cart].subtotal
    /\ tx[t].pc # "items" => tx[t].subtotal = Total(tx[t].items)

Budgeted(t) ==
  /\ tx[t].pc = "guard" => tx[t].campaign \in Campaigns
  /\ \A k \in Campaigns : DrawsOn(t, k) =>
       k \in tx[t].held /\ spent[k] + tx[t].discount <= Offer[k].cap

CheckoutInv ==
  /\ RowShapes /\ CartsAddUp /\ EditsHaveCarts /\ OneHolder
  /\ \A t \in Checkouts : CheckedOut(t) /\ Budgeted(t)
  /\ CapIsKept /\ OrdersAddUp

\* The inductive invariant of everything else, on top of the first.  What a checkout
\* has read of its cart, and of the variants it reserved, stands while it holds them;
\* an edit whose version is still the cart's was worked out from the cart's items; and
\* a cart has an order only once it is checked out.
Reserved(t) ==
  LET w == tx[t]
  IN  CASE w.pc = "reserve" -> 1 .. w.next - 1
        [] w.pc = "product" -> 1 .. w.next
        [] w.pc = "place" -> DOMAIN w.items
        [] OTHER -> {}

ReadsStand(t) ==
  LET w == tx[t]
  IN  w.pc \in CheckoutSteps =>
        /\ cart[w.cart].status = "active"
        /\ IF w.pc = "items" THEN w.next = 1
           ELSE w.items = cart[w.cart].items /\ w.next \in DOMAIN w.items
        /\ \A i \in Reserved(t) :
             w.items[i].v \in w.held /\ w.items[i].qty <= stock[w.items[i].v]

Discounted(t) ==
  LET w == tx[t]
  IN  /\ w.pc \in {"items", "discount", "guard"} => w.discount = 0
      /\ w.pc = "guard" => Offer[w.campaign].product = ProductOf[Current(t).v]
      /\ w.pc \in {"reserve", "product", "place"} => Discounts(w.items, w.campaign, w.discount)

CartsFit ==
  \A c \in Carts :
    /\ cart[c] # None => OneLineEach(cart[c].items)
    /\ order[c] # None => cart[c] # None /\ cart[c].status = "checked_out"

\* What an edit would save, and what it is worth at its version.
EditStands(e) ==
  LET w == editor[e]
  IN  /\ w.pc \in EditSteps => w.edit \in Edits
      /\ w.pc \in {"items", "save"} => cart[w.edit.c] # None /\ w.version <= cart[w.edit.c].version
      /\ w.pc = "save" =>
           /\ OneLineEach(w.items)
           /\ w.version = cart[w.edit.c].version =>
                ~Refused(w.edit, cart[w.edit.c].items, w.seen) /\ w.items = Applied(w.edit, cart[w.edit.c].items)

Refilling(r) ==
  LET w == recovery[r]
  IN  w.pc = "fill" =>
        /\ w.cart \in Carts /\ cart[w.cart] # None /\ cart[w.cart].status = "active"
        /\ w.todo # <<>>

ShopInv ==
  /\ TypeInvariant /\ CartsFit
  /\ \A t \in Checkouts : ReadsStand(t) /\ Discounted(t)
  /\ \A e \in Editors : EditStands(e)
  /\ \A r \in Recoveries : Refilling(r)
  /\ IsFiniteSet(Orders) /\ StockIsKept /\ BudgetIsKept
==============================================================================
