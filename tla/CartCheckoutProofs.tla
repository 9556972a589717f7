-------------------------- MODULE CartCheckoutProofs --------------------------
(***************************************************************************)
(* No campaign passes its cap and every order adds up: for any number of   *)
(* carts, campaigns, checkouts, edits and recoveries at once.              *)
(***************************************************************************)
EXTENDS CartCheckout, CartRulesProofs

TxFields == {"pc", "cart", "subtotal", "items", "next", "campaign", "discount", "held"}
EditFields == {"pc", "edit", "seen", "version", "items", "tries"}
CartFields == {"status", "version", "items", "subtotal"}
RecoveryFields == {"pc", "cart", "todo"}

\* The fields of the rows and of the requests' locals.
LEMMA Fields ==
  /\ \A how : DOMAIN TxEnd(how) = TxFields
  /\ \A how : DOMAIN EditEnd(how) = EditFields
  /\ \A items : DOMAIN NewCart(items) = CartFields
  /\ \A how, c, todo : DOMAIN NewRecovery(how, c, todo) = RecoveryFields
BY DEF TxEnd, EditEnd, NewCart, NewRecovery, TxFields, EditFields, CartFields, RecoveryFields

LEMMA CheckoutInitInv == Init => CheckoutInv
<1> SUFFICES ASSUME Init PROVE CheckoutInv
  OBVIOUS
<1>1. RowShapes
  BY Fields DEF Init, RowShapes
<1>2. CartsAddUp
  BY DEF Init, CartsAddUp, NewCart
<1>3. EditsHaveCarts
  BY DEF Init, EditsHaveCarts, EditSteps, EditEnd
<1>4. OneHolder /\ \A t \in Checkouts : CheckedOut(t) /\ Budgeted(t)
  BY DEF Init, OneHolder, TxEnd, CheckedOut, CheckoutSteps, Budgeted, DrawsOn
<1>5. CapIsKept /\ OrdersAddUp
  BY RulesAssumption DEF Init, CapIsKept, OrdersAddUp, Orders
<1> QED
  BY <1>1, <1>2, <1>3, <1>4, <1>5 DEF CheckoutInv

------------------------------------------------------------------------------
\* Checkouts.

\* A step of one transaction that writes nothing yet: what matters is what it holds
\* and what it has read.
LEMMA TransactionStep ==
  ASSUME CheckoutInv, NEW t \in Checkouts, NEW w,
         tx' = [tx EXCEPT ![t] = w], DOMAIN w = TxFields,
         UNCHANGED <<spent, cart, order, editor, recovery>>,
         \A u \in Checkouts \ {t} : w.held \cap tx[u].held = {},
         CheckedOut(t)', Budgeted(t)'
  PROVE  CheckoutInv'
<1>1. /\ DOMAIN tx' = Checkouts /\ tx'[t] = w
      /\ \A u \in Checkouts \ {t} : tx'[u] = tx[u]
  BY DEF CheckoutInv, RowShapes
<1>2. RowShapes'
  BY <1>1, Fields DEF CheckoutInv, RowShapes
<1>3. CartsAddUp' /\ EditsHaveCarts' /\ CapIsKept' /\ OrdersAddUp'
  BY DEF CheckoutInv, CartsAddUp, EditsHaveCarts, CapIsKept, OrdersAddUp, Orders
<1>4. OneHolder'
  BY <1>1 DEF CheckoutInv, OneHolder
<1>5. \A u \in Checkouts : CheckedOut(u)' /\ Budgeted(u)'
  BY <1>1 DEF CheckoutInv, CheckedOut, Budgeted, DrawsOn
<1> QED
  BY <1>2, <1>3, <1>4, <1>5 DEF CheckoutInv

\* A transaction that ends without writing lets go of everything.
LEMMA AbortKeeps ==
  ASSUME CheckoutInv, NEW t \in Checkouts, Abort(t),
         UNCHANGED <<spent, cart, order, editor, recovery>>
  PROVE  CheckoutInv'
<1>1. tx'[t] = TxEnd("failed")
  BY DEF Abort, CheckoutInv, RowShapes
<1>2. CheckedOut(t)' /\ Budgeted(t)'
  BY <1>1 DEF TxEnd, CheckedOut, CheckoutSteps, Budgeted, DrawsOn
<1>3. TxEnd("failed").held = {}
  BY DEF TxEnd
<1> QED
  BY <1>2, <1>3, Fields, TransactionStep DEF Abort

LEMMA LockCartKeeps ==
  ASSUME CheckoutInv, NEW t \in Checkouts, NEW c \in Carts \ Hidden, LockCart(t, c)
  PROVE  CheckoutInv'
<1> DEFINE w == [TxEnd("items") EXCEPT !.cart = c, !.subtotal = cart[c].subtotal, !.held = {c}]
<1>1. UNCHANGED <<spent, cart, order, editor, recovery>> /\ Free(c, t) /\ cart[c] # None
  BY DEF LockCart
<1>2. CASE tx' = [tx EXCEPT ![t] = w]
  <2>1. /\ w.pc = "items" /\ w.cart = c /\ w.subtotal = cart[c].subtotal /\ w.held = {c}
        /\ w.campaign = None /\ DOMAIN w = TxFields
    BY DEF TxEnd, TxFields
  <2>2. tx'[t] = w
    BY <1>2 DEF CheckoutInv, RowShapes
  <2> HIDE DEF w
  <2>3. \A r \in Recoveries : recovery[r].pc = "fill" => recovery[r].cart # c
    BY DEF Hidden
  <2>4. CheckedOut(t)' /\ Budgeted(t)'
    BY <1>1, <2>1, <2>2, <2>3 DEF CheckedOut, Budgeted, DrawsOn
  <2>5. \A u \in Checkouts \ {t} : w.held \cap tx[u].held = {}
    BY <1>1, <2>1 DEF Free
  <2> QED
    BY <1>1, <1>2, <2>1, <2>4, <2>5, TransactionStep
<1>3. CASE Abort(t)
  BY <1>1, <1>3, AbortKeeps
<1> QED
  BY <1>2, <1>3 DEF LockCart

\* A step after which the transaction holds, and has read, what it did before.
LEMMA SameHoldings ==
  ASSUME CheckoutInv, NEW t \in Checkouts, NEW w,
         tx' = [tx EXCEPT ![t] = w], DOMAIN w = TxFields,
         UNCHANGED <<spent, cart, order, editor, recovery>>,
         tx[t].pc \in CheckoutSteps, w.pc \in CheckoutSteps \ {"items"},
         w.cart = tx[t].cart, w.held = tx[t].held, w.subtotal = tx[t].subtotal,
         w.items = tx[t].items, tx[t].pc # "items",
         Budgeted(t)'
  PROVE  CheckoutInv'
<1>1. tx'[t] = w
  BY DEF CheckoutInv, RowShapes
<1>2. CheckedOut(t)'
  BY <1>1 DEF CheckoutInv, CheckedOut
<1>3. \A u \in Checkouts \ {t} : w.held \cap tx[u].held = {}
  BY DEF CheckoutInv, OneHolder
<1> QED
  BY <1>2, <1>3, TransactionStep

\* The items are those of the row whose subtotal was read: it is held.
LEMMA LoadItemsKeeps ==
  ASSUME CheckoutInv, NEW t \in Checkouts, LoadItems(t)
  PROVE  CheckoutInv'
<1> DEFINE items == cart[tx[t].cart].items
           w == [tx[t] EXCEPT !.pc = "discount", !.items = items]
<1>1. UNCHANGED <<spent, cart, order, editor, recovery>> /\ tx[t].pc = "items"
  BY DEF LoadItems, TxAt
<1>2. CASE tx' = [tx EXCEPT ![t] = w]
  <2>1. DOMAIN tx[t] = TxFields
    BY Fields DEF CheckoutInv, RowShapes
  <2>2. /\ w.pc = "discount" /\ w.cart = tx[t].cart /\ w.subtotal = tx[t].subtotal
        /\ w.held = tx[t].held /\ w.items = items /\ DOMAIN w = TxFields
    BY <2>1 DEF TxFields
  <2>3. tx'[t] = w
    BY <1>2 DEF CheckoutInv, RowShapes
  <2>4. tx[t].subtotal = Total(items)
    BY <1>1 DEF CheckoutInv, CheckedOut, CheckoutSteps, CartsAddUp
  <2> HIDE DEF w, items
  <2>5. CheckedOut(t)'
    BY <1>1, <2>2, <2>3, <2>4 DEF CheckoutInv, CheckedOut, CheckoutSteps
  <2>6. Budgeted(t)'
    BY <2>2, <2>3 DEF Budgeted, DrawsOn
  <2>7. \A u \in Checkouts \ {t} : w.held \cap tx[u].held = {}
    BY <2>2 DEF CheckoutInv, OneHolder
  <2> QED
    BY <1>1, <1>2, <2>2, <2>5, <2>6, <2>7, TransactionStep
<1>3. CASE Abort(t)
  BY <1>1, <1>3, AbortKeeps
<1>4. tx' = [tx EXCEPT ![t] = w] \/ Abort(t)
  BY DEF LoadItems
<1> QED
  BY <1>2, <1>3, <1>4

\* The item goes without a discount; so far no campaign is drawn on.
LEMMA SkipItemKeeps ==
  ASSUME CheckoutInv, NEW t \in Checkouts, SkipItem(t), tx[t].pc \in {"discount", "guard"},
         UNCHANGED <<spent, cart, order, editor, recovery>>
  PROVE  CheckoutInv'
<1> DEFINE w == IF tx[t].next = Len(tx[t].items)
               THEN [tx[t] EXCEPT !.pc = "reserve", !.next = 1, !.campaign = None]
               ELSE [tx[t] EXCEPT !.pc = "discount", !.next = tx[t].next + 1, !.campaign = None]
<1>1. tx' = [tx EXCEPT ![t] = w]
  BY DEF SkipItem
<1>2. DOMAIN tx[t] = TxFields
  BY Fields DEF CheckoutInv, RowShapes
<1>3. /\ w.pc \in {"reserve", "discount"} /\ w.cart = tx[t].cart
      /\ w.subtotal = tx[t].subtotal /\ w.held = tx[t].held /\ w.items = tx[t].items
      /\ w.campaign = None /\ DOMAIN w = TxFields
  BY <1>2 DEF TxFields
<1>4. tx'[t] = w
  BY <1>1 DEF CheckoutInv, RowShapes
<1> HIDE DEF w
<1>5. Budgeted(t)'
  BY <1>3, <1>4, RulesAssumption DEF Budgeted, DrawsOn
<1> QED
  BY <1>1, <1>3, <1>5, SameHoldings DEF CheckoutSteps

LEMMA FindCampaignKeeps ==
  ASSUME CheckoutInv, NEW t \in Checkouts, FindCampaign(t)
  PROVE  CheckoutInv'
<1>1. UNCHANGED <<spent, cart, order, editor, recovery>> /\ tx[t].pc = "discount"
  BY DEF FindCampaign, TxAt
<1>2. CASE SkipItem(t)
  BY <1>1, <1>2, SkipItemKeeps
<1>3. ASSUME NEW k \in Campaigns, tx' = [tx EXCEPT ![t].pc = "guard", ![t].campaign = k]
      PROVE  CheckoutInv'
  <2> DEFINE w == [tx[t] EXCEPT !.pc = "guard", !.campaign = k]
  <2>1. tx' = [tx EXCEPT ![t] = w]
    BY <1>3
  <2>2. DOMAIN tx[t] = TxFields
    BY Fields DEF CheckoutInv, RowShapes
  <2>3. /\ w.pc = "guard" /\ w.cart = tx[t].cart
        /\ w.subtotal = tx[t].subtotal /\ w.held = tx[t].held /\ w.items = tx[t].items
        /\ w.campaign = k /\ DOMAIN w = TxFields
    BY <2>2 DEF TxFields
  <2>4. tx'[t] = w
    BY <2>1 DEF CheckoutInv, RowShapes
  <2> HIDE DEF w
  <2>5. Budgeted(t)'
    BY <2>3, <2>4 DEF Budgeted, DrawsOn
  <2> QED
    BY <1>1, <2>1, <2>3, <2>5, SameHoldings DEF CheckoutSteps
<1> QED
  BY <1>2, <1>3 DEF FindCampaign

\* The guard is passed on a row nobody else holds, and the row is held from then on.
LEMMA SpendBudgetKeeps ==
  ASSUME CheckoutInv, NEW t \in Checkouts, SpendBudget(t)
  PROVE  CheckoutInv'
<1>1. UNCHANGED <<spent, cart, order, editor, recovery>> /\ tx[t].pc = "guard"
  BY DEF SpendBudget, TxAt
<1>2. PICK k \in Campaigns : k = tx[t].campaign
  BY <1>1 DEF CheckoutInv, Budgeted
<1>3. PICK d : d = CandidateDiscount(Current(t), k)
  OBVIOUS
<1>4. CASE SkipItem(t)
  BY <1>1, <1>4, SkipItemKeeps
<1>5. CASE /\ WithinCap(k, d) /\ Free(k, t)
           /\ tx' = [tx EXCEPT ![t] = [tx[t] EXCEPT !.pc = "reserve", !.next = 1, !.discount = d,
                                                   !.held = tx[t].held \cup {k}]]
  <2> DEFINE w == [tx[t] EXCEPT !.pc = "reserve", !.next = 1, !.discount = d,
                                !.held = tx[t].held \cup {k}]
  <2>1. DOMAIN tx[t] = TxFields
    BY Fields DEF CheckoutInv, RowShapes
  <2>2. /\ w.pc = "reserve" /\ w.cart = tx[t].cart
        /\ w.subtotal = tx[t].subtotal /\ w.held = tx[t].held \cup {k} /\ w.items = tx[t].items
        /\ w.campaign = k /\ w.discount = d /\ DOMAIN w = TxFields
    BY <2>1, <1>2 DEF TxFields
  <2>3. tx'[t] = w
    BY <1>5 DEF CheckoutInv, RowShapes
  <2> HIDE DEF w
  <2>4. Budgeted(t)'
    BY <1>1, <1>5, <2>2, <2>3 DEF Budgeted, DrawsOn, WithinCap
  <2>5. CheckedOut(t)'
    BY <1>1, <2>2, <2>3 DEF CheckoutInv, CheckedOut, CheckoutSteps
  <2>6. \A u \in Checkouts \ {t} : w.held \cap tx[u].held = {}
    BY <1>5, <2>2 DEF CheckoutInv, OneHolder, Free
  <2>7. tx' = [tx EXCEPT ![t] = w]
    BY <1>5 DEF w
  <2> QED
    BY <1>1, <2>2, <2>4, <2>5, <2>6, <2>7, TransactionStep
<1> QED
  BY <1>2, <1>3, <1>4, <1>5 DEF SpendBudget

\* One more row is held, a variant's or a product's.
LEMMA MoreHeld ==
  ASSUME CheckoutInv, NEW t \in Checkouts, NEW w, NEW row,
         tx' = [tx EXCEPT ![t] = w], DOMAIN w = TxFields,
         UNCHANGED <<spent, cart, order, editor, recovery>>,
         tx[t].pc \in {"reserve", "product"}, w.pc \in {"reserve", "product", "place"},
         w.cart = tx[t].cart, w.held = tx[t].held \cup {row}, Free(row, t),
         w.subtotal = tx[t].subtotal, w.items = tx[t].items,
         w.campaign = tx[t].campaign, w.discount = tx[t].discount
  PROVE  CheckoutInv'
<1>1. tx'[t] = w
  BY DEF CheckoutInv, RowShapes
<1>2. CheckedOut(t)'
  BY <1>1 DEF CheckoutInv, CheckedOut, CheckoutSteps
<1>3. Budgeted(t)'
  BY <1>1 DEF CheckoutInv, Budgeted, DrawsOn
<1>4. \A u \in Checkouts \ {t} : w.held \cap tx[u].held = {}
  BY DEF CheckoutInv, OneHolder, Free
<1> QED
  BY <1>2, <1>3, <1>4, TransactionStep

LEMMA ReserveVariantKeeps ==
  ASSUME CheckoutInv, NEW t \in Checkouts, ReserveVariant(t)
  PROVE  CheckoutInv'
<1>1. /\ UNCHANGED <<spent, cart, order, editor, recovery>> /\ tx[t].pc = "reserve"
      /\ Free(Current(t).v, t)
  BY DEF ReserveVariant, TxAt
<1>2. CASE Abort(t)
  BY <1>1, <1>2, AbortKeeps
<1>3. PICK row : row = Current(t).v
  OBVIOUS
<1>4. CASE tx' = [tx EXCEPT ![t] = [tx[t] EXCEPT !.pc = "product", !.held = tx[t].held \cup {row}]]
  <2> DEFINE w == [tx[t] EXCEPT !.pc = "product", !.held = tx[t].held \cup {row}]
  <2>1. DOMAIN tx[t] = TxFields
    BY Fields DEF CheckoutInv, RowShapes
  <2>2. /\ w.pc = "product" /\ w.cart = tx[t].cart
        /\ w.subtotal = tx[t].subtotal /\ w.held = tx[t].held \cup {row} /\ w.items = tx[t].items
        /\ w.campaign = tx[t].campaign /\ w.discount = tx[t].discount /\ DOMAIN w = TxFields
    BY <2>1 DEF TxFields
  <2>3. tx' = [tx EXCEPT ![t] = w]
    BY <1>4
  <2> HIDE DEF w
  <2> QED
    BY <1>1, <1>3, <2>2, <2>3, MoreHeld
<1> QED
  BY <1>2, <1>3, <1>4 DEF ReserveVariant

LEMMA TouchProductKeeps ==
  ASSUME CheckoutInv, NEW t \in Checkouts, TouchProduct(t)
  PROVE  CheckoutInv'
<1>1. PICK p : p = ProductOf[Current(t).v]
  OBVIOUS
<1>2. /\ UNCHANGED <<spent, cart, order, editor, recovery>> /\ tx[t].pc = "product"
      /\ Free(p, t)
  BY <1>1 DEF TouchProduct, TxAt
<1> DEFINE w == IF tx[t].next = Len(tx[t].items)
               THEN [tx[t] EXCEPT !.pc = "place", !.held = tx[t].held \cup {p}]
               ELSE [tx[t] EXCEPT !.pc = "reserve", !.next = tx[t].next + 1,
                                  !.held = tx[t].held \cup {p}]
<1>3. tx' = [tx EXCEPT ![t] = w]
  BY <1>1 DEF TouchProduct
<1>4. DOMAIN tx[t] = TxFields
  BY Fields DEF CheckoutInv, RowShapes
<1>5. /\ w.pc \in {"place", "reserve"} /\ w.cart = tx[t].cart
      /\ w.subtotal = tx[t].subtotal /\ w.held = tx[t].held \cup {p} /\ w.items = tx[t].items
      /\ w.campaign = tx[t].campaign /\ w.discount = tx[t].discount /\ DOMAIN w = TxFields
  BY <1>4 DEF TxFields
<1> HIDE DEF w
<1> QED
  BY <1>2, <1>3, <1>5, MoreHeld

\* The commit: the campaign drawn on has room for the discount, and no other
\* transaction has read of it or of the cart what is written now.
LEMMA PlaceOrderKeeps ==
  ASSUME CheckoutInv, NEW t \in Checkouts, PlaceOrder(t)
  PROVE  CheckoutInv'
<1> DEFINE w == tx[t]
<1>1. /\ w.pc = "place" /\ w.cart \in Carts \cap w.held /\ cart[w.cart] # None
      /\ w.subtotal = Total(w.items)
  BY DEF PlaceOrder, TxAt, CheckoutInv, CheckedOut, CheckoutSteps
<1>2. /\ order' = [order EXCEPT ![w.cart] =
            [lines |-> w.items, subtotal |-> w.subtotal - w.discount,
             discount |-> w.discount, campaign |-> w.campaign]]
      /\ spent' = [k \in Campaigns |->
            IF k = w.campaign THEN spent[k] + w.discount ELSE spent[k]]
      /\ cart' = [cart EXCEPT ![w.cart] = [cart[w.cart] EXCEPT !.status = "checked_out"]]
      /\ tx' = [tx EXCEPT ![t] = TxEnd("placed")]
      /\ UNCHANGED <<editor, recovery>>
  BY DEF PlaceOrder
<1>3. /\ tx'[t] = TxEnd("placed") /\ \A u \in Checkouts \ {t} : tx'[u] = tx[u]
      /\ DOMAIN tx' = Checkouts
  BY <1>2 DEF CheckoutInv, RowShapes
<1>4. /\ DOMAIN cart[w.cart] = CartFields /\ DOMAIN cart' = Carts
      /\ DOMAIN cart'[w.cart] = CartFields
      /\ cart'[w.cart].items = cart[w.cart].items
      /\ cart'[w.cart].subtotal = cart[w.cart].subtotal
      /\ \A c \in Carts \ {w.cart} : cart'[c] = cart[c]
  BY <1>1, <1>2, Fields DEF CheckoutInv, RowShapes, CartFields
<1>5. RowShapes'
  BY <1>2, <1>3, <1>4, Fields DEF CheckoutInv, RowShapes
<1>6. CartsAddUp'
  BY <1>1, <1>4 DEF CheckoutInv, CartsAddUp
<1>7. EditsHaveCarts'
  <2>1. \A c \in Carts : DOMAIN cart[c] = CartFields => DOMAIN cart'[c] = CartFields
    BY <1>4
  <2>2. \A edit \in Edits : edit.c \in Carts
    BY CartAssumption DEF Edit
  <2> QED
    BY <1>2, <2>1, <2>2, Fields DEF CheckoutInv, EditsHaveCarts
<1>8. OneHolder'
  BY <1>3 DEF CheckoutInv, OneHolder, TxEnd
<1>9. \A k \in Campaigns : k \notin w.held => spent'[k] = spent[k]
  BY <1>1, <1>2 DEF CheckoutInv, Budgeted, DrawsOn
<1>10. CapIsKept'
  BY <1>1, <1>2 DEF CheckoutInv, CapIsKept, Budgeted, DrawsOn
<1>11. ASSUME NEW u \in Checkouts PROVE CheckedOut(u)' /\ Budgeted(u)'
  <2>1. CASE u = t
    BY <1>3, <2>1 DEF TxEnd, CheckedOut, CheckoutSteps, Budgeted, DrawsOn
  <2>2. CASE u # t
    <3>1. tx'[u] = tx[u] /\ w.held \cap tx[u].held = {}
      BY <1>3, <2>2 DEF CheckoutInv, OneHolder
    <3>2. CheckedOut(u)'
      BY <1>1, <1>2, <1>4, <3>1 DEF CheckoutInv, CheckedOut
    <3>3. Budgeted(u)'
      BY <1>9, <3>1 DEF CheckoutInv, Budgeted, DrawsOn
    <3> QED
      BY <3>2, <3>3
  <2> QED
    BY <2>1, <2>2
<1>12. OrdersAddUp'
  <2> SUFFICES ASSUME NEW c \in Carts, order'[c] # None
               PROVE  order'[c].subtotal = Total(order'[c].lines) - order'[c].discount
    BY DEF OrdersAddUp, Orders
  <2>1. CASE c = w.cart
    <3>1. order'[c] = [lines |-> w.items, subtotal |-> w.subtotal - w.discount,
                       discount |-> w.discount, campaign |-> w.campaign]
      BY <1>2, <2>1 DEF CheckoutInv, RowShapes
    <3> QED
      BY <1>1, <3>1
  <2>2. CASE c # w.cart
    BY <1>2, <2>2 DEF CheckoutInv, RowShapes, OrdersAddUp, Orders
  <2> QED
    BY <2>1, <2>2
<1> QED
  BY <1>5, <1>6, <1>7, <1>8, <1>10, <1>11, <1>12 DEF CheckoutInv

LEMMA CheckoutStepKeeps ==
  ASSUME CheckoutInv, NEW t \in Checkouts, CheckoutStep(t) \/ BreakCheckout(t)
  PROVE  CheckoutInv'
BY AbortKeeps, LoadItemsKeeps, FindCampaignKeeps, SpendBudgetKeeps, ReserveVariantKeeps,
   TouchProductKeeps, PlaceOrderKeeps
   DEF CheckoutStep, DeadlockVictim, BreakCheckout

------------------------------------------------------------------------------
\* Carts, edits and recoveries.

\* A step that writes at most one cart, which no checkout holds, keeps what the
\* checkouts have read.
LEMMA FreeCartStep ==
  ASSUME CheckoutInv, NEW c,
         UNCHANGED <<spent, order, tx>>,
         \A a \in Carts \ {c} : cart'[a] = cart[a],
         \A t \in Checkouts : tx[t].pc \in CheckoutSteps => tx[t].cart # c,
         \A r \in Recoveries : recovery'[r].pc = "fill" =>
           recovery'[r].cart = c \/ (recovery[r].pc = "fill" /\ recovery'[r].cart = recovery[r].cart),
         RowShapes', CartsAddUp', EditsHaveCarts'
  PROVE  CheckoutInv'
<1>1. OneHolder' /\ CapIsKept' /\ OrdersAddUp'
  BY DEF CheckoutInv, OneHolder, CapIsKept, OrdersAddUp, Orders
<1>2. ASSUME NEW t \in Checkouts PROVE CheckedOut(t)' /\ Budgeted(t)'
  <2>1. Budgeted(t)'
    BY DEF CheckoutInv, Budgeted, DrawsOn
  <2>2. tx[t].pc \in CheckoutSteps => tx[t].cart # c /\ cart'[tx[t].cart] = cart[tx[t].cart]
    BY DEF CheckoutInv, CheckedOut
  <2>3. CheckedOut(t)'
    BY <2>2 DEF CheckoutInv, CheckedOut
  <2> QED
    BY <2>1, <2>3
<1> QED
  BY <1>1, <1>2 DEF CheckoutInv

LEMMA CreateCartKeeps ==
  ASSUME CheckoutInv, NEW c \in Carts, CreateCart(c)
  PROVE  CheckoutInv'
<1>1. /\ cart' = [cart EXCEPT ![c] = NewCart(<<>>)] /\ cart[c] = None
      /\ UNCHANGED <<spent, order, tx, editor, recovery>>
  BY DEF CreateCart
<1>2. cart'[c] = NewCart(<<>>) /\ DOMAIN cart' = Carts /\ \A a \in Carts \ {c} : cart'[a] = cart[a]
  BY <1>1 DEF CheckoutInv, RowShapes
<1>3. RowShapes'
  BY <1>1, <1>2, Fields DEF CheckoutInv, RowShapes
<1>4. CartsAddUp'
  BY <1>2 DEF CheckoutInv, CartsAddUp, NewCart
<1>5. EditsHaveCarts'
  <2>1. \A edit \in Edits : edit.c \in Carts
    BY CartAssumption DEF Edit
  <2> QED
    BY <1>1, <1>2, <2>1, Fields DEF CheckoutInv, EditsHaveCarts
<1>6. \A t \in Checkouts : tx[t].pc \in CheckoutSteps => tx[t].cart # c
  BY <1>1 DEF CheckoutInv, CheckedOut
<1> QED
  BY <1>1, <1>2, <1>3, <1>4, <1>5, <1>6, FreeCartStep

\* A step of an edit that writes nothing.
LEMMA EditorStep ==
  ASSUME CheckoutInv, NEW e \in Editors, NEW w,
         editor' = [editor EXCEPT ![e] = w], DOMAIN w = EditFields,
         UNCHANGED <<spent, cart, order, tx, recovery>>,
         w.pc \in EditSteps => w.edit \in Edits,
         w.pc \in {"items", "save"} => DOMAIN cart[w.edit.c] = CartFields
  PROVE  CheckoutInv'
<1>1. /\ DOMAIN editor' = Editors /\ editor'[e] = w
      /\ \A a \in Editors \ {e} : editor'[a] = editor[a]
  BY DEF CheckoutInv, RowShapes
<1>2. RowShapes'
  BY <1>1, Fields DEF CheckoutInv, RowShapes
<1>3. CartsAddUp' /\ OneHolder' /\ CapIsKept' /\ OrdersAddUp'
  BY DEF CheckoutInv, CartsAddUp, OneHolder, CapIsKept, OrdersAddUp, Orders
<1>4. EditsHaveCarts'
  BY <1>1, Fields DEF CheckoutInv, EditsHaveCarts
<1>5. \A t \in Checkouts : CheckedOut(t)' /\ Budgeted(t)'
  BY DEF CheckoutInv, CheckedOut, Budgeted, DrawsOn
<1> QED
  BY <1>2, <1>3, <1>4, <1>5 DEF CheckoutInv

LEMMA EndEditKeeps ==
  ASSUME CheckoutInv, NEW e \in Editors, EndEdit(e, "failed"),
         UNCHANGED <<spent, cart, order, tx, recovery>>
  PROVE  CheckoutInv'
<1>1. EditEnd("failed").pc = "failed"
  BY DEF EditEnd
<1> QED
  BY <1>1, Fields, EditorStep DEF EndEdit, EditSteps

LEMMA BeginEditKeeps ==
  ASSUME CheckoutInv, NEW e \in Editors, NEW edit \in Edits, BeginEdit(e, edit)
  PROVE  CheckoutInv'
<1> DEFINE w == [EditEnd(IF edit.kind = "remove" THEN "row" ELSE "variant") EXCEPT !.edit = edit]
<1>1. editor' = [editor EXCEPT ![e] = w] /\ UNCHANGED <<spent, cart, order, tx, recovery>>
  BY DEF BeginEdit
<1>2. DOMAIN w = EditFields /\ w.edit = edit /\ w.pc \in {"row", "variant"}
  BY DEF EditEnd, EditFields
<1> HIDE DEF w
<1> QED
  BY <1>1, <1>2, EditorStep

LEMMA ReadVariantKeeps ==
  ASSUME CheckoutInv, NEW e \in Editors, ReadVariant(e)
  PROVE  CheckoutInv'
<1>1. UNCHANGED <<spent, cart, order, tx, recovery>> /\ editor[e].pc = "variant"
  BY DEF ReadVariant, EditAt
<1>2. CASE EndEdit(e, "failed")
  BY <1>1, <1>2, EndEditKeeps
<1>3. PICK seen : seen = stock[editor[e].edit.v]
  OBVIOUS
<1>4. CASE editor' = [editor EXCEPT ![e].pc = "row", ![e].seen = seen]
  <2> DEFINE w == [editor[e] EXCEPT !.pc = "row", !.seen = seen]
  <2>1. editor' = [editor EXCEPT ![e] = w]
    BY <1>4
  <2>2. DOMAIN editor[e] = EditFields
    BY Fields DEF CheckoutInv, RowShapes
  <2>3. w.pc = "row" /\ w.edit = editor[e].edit /\ DOMAIN w = EditFields
    BY <2>2 DEF EditFields
  <2>4. editor[e].edit \in Edits
    BY <1>1 DEF CheckoutInv, EditsHaveCarts, EditSteps
  <2> HIDE DEF w
  <2> QED
    BY <1>1, <2>1, <2>3, <2>4, EditorStep
<1> QED
  BY <1>2, <1>3, <1>4 DEF ReadVariant

LEMMA ReadCartRowKeeps ==
  ASSUME CheckoutInv, NEW e \in Editors, ReadCartRow(e)
  PROVE  CheckoutInv'
<1>1. UNCHANGED <<spent, cart, order, tx, recovery>> /\ editor[e].pc = "row"
  BY DEF ReadCartRow, EditAt
<1>2. CASE EndEdit(e, "failed")
  BY <1>1, <1>2, EndEditKeeps
<1>3. PICK version : version = cart[editor[e].edit.c].version
  OBVIOUS
<1>4. CASE /\ cart[editor[e].edit.c] # None
           /\ editor' = [editor EXCEPT ![e].pc = "items", ![e].version = version]
  <2> DEFINE w == [editor[e] EXCEPT !.pc = "items", !.version = version]
  <2>1. editor' = [editor EXCEPT ![e] = w]
    BY <1>4
  <2>2. DOMAIN editor[e] = EditFields
    BY Fields DEF CheckoutInv, RowShapes
  <2>3. w.pc = "items" /\ w.edit = editor[e].edit /\ DOMAIN w = EditFields
    BY <2>2 DEF EditFields
  <2>4. editor[e].edit \in Edits /\ editor[e].edit.c \in Carts
    BY <1>1, CartAssumption DEF CheckoutInv, EditsHaveCarts, EditSteps, Edit
  <2>5. DOMAIN cart[editor[e].edit.c] = CartFields
    BY <1>4, <2>4, Fields DEF CheckoutInv, RowShapes
  <2> HIDE DEF w
  <2> QED
    BY <1>1, <2>1, <2>3, <2>4, <2>5, EditorStep
<1> QED
  BY <1>2, <1>3, <1>4 DEF ReadCartRow

LEMMA ReadCartItemsKeeps ==
  ASSUME CheckoutInv, NEW e \in Editors, ReadCartItems(e)
  PROVE  CheckoutInv'
<1>1. UNCHANGED <<spent, cart, order, tx, recovery>> /\ editor[e].pc = "items"
  BY DEF ReadCartItems, EditAt
<1>2. CASE EndEdit(e, "failed")
  BY <1>1, <1>2, EndEditKeeps
<1>3. PICK items : items = Applied(editor[e].edit, cart[editor[e].edit.c].items)
  OBVIOUS
<1>4. CASE editor' = [editor EXCEPT ![e].pc = "save", ![e].items = items]
  <2> DEFINE w == [editor[e] EXCEPT !.pc = "save", !.items = items]
  <2>1. editor' = [editor EXCEPT ![e] = w]
    BY <1>4
  <2>2. DOMAIN editor[e] = EditFields
    BY Fields DEF CheckoutInv, RowShapes
  <2>3. w.pc = "save" /\ w.edit = editor[e].edit /\ DOMAIN w = EditFields
    BY <2>2 DEF EditFields
  <2>4. editor[e].edit \in Edits /\ DOMAIN cart[editor[e].edit.c] = CartFields
    BY <1>1, Fields DEF CheckoutInv, EditsHaveCarts, EditSteps
  <2> HIDE DEF w
  <2> QED
    BY <1>1, <2>1, <2>3, <2>4, EditorStep
<1> QED
  BY <1>2, <1>3, <1>4 DEF ReadCartItems

\* SaveCart waits for the row, so that no checkout has read of it what it writes.
LEMMA SaveCartKeeps ==
  ASSUME CheckoutInv, NEW e \in Editors, SaveCart(e)
  PROVE  CheckoutInv'
<1>1. /\ UNCHANGED <<spent, order, tx, recovery>> /\ editor[e].pc = "save"
      /\ ~Locked(editor[e].edit.c)
  BY DEF SaveCart, EditAt
<1>2. /\ editor[e].edit \in Edits /\ editor[e].edit.c \in Carts
      /\ DOMAIN cart[editor[e].edit.c] = CartFields
      /\ DOMAIN editor[e] = EditFields
  BY <1>1, CartAssumption, Fields
     DEF CheckoutInv, RowShapes, EditsHaveCarts, EditSteps, Edit
<1>3. PICK c \in Carts : c = editor[e].edit.c
  BY <1>2
<1>4. CASE EndEdit(e, "failed") /\ UNCHANGED cart
  BY <1>1, <1>4, EndEditKeeps
<1>5. CASE /\ editor' = [editor EXCEPT ![e].pc = "row", ![e].tries = @ + 1]
           /\ UNCHANGED cart
  <2> DEFINE w == [editor[e] EXCEPT !.pc = "row", !.tries = @ + 1]
  <2>1. editor' = [editor EXCEPT ![e] = w]
    BY <1>5
  <2>2. w.pc = "row" /\ w.edit = editor[e].edit /\ DOMAIN w = EditFields
    BY <1>2 DEF EditFields
  <2> HIDE DEF w
  <2> QED
    BY <1>1, <1>2, <1>5, <2>1, <2>2, EditorStep
<1>6. CASE Save(e)
  <2> DEFINE row == [cart[c] EXCEPT !.items = editor[e].items,
                                   !.subtotal = Total(editor[e].items), !.version = @ + 1]
  <2>1. cart' = [cart EXCEPT ![c] = row] /\ editor' = [editor EXCEPT ![e] = EditEnd("saved")]
    BY <1>3, <1>6 DEF Save, EndEdit
  <2>2. row.subtotal = Total(row.items) /\ DOMAIN row = CartFields
    BY <1>2, <1>3 DEF CartFields
  <2> HIDE DEF row
  <2>3. /\ cart'[c] = row /\ DOMAIN cart' = Carts /\ \A a \in Carts \ {c} : cart'[a] = cart[a]
        /\ editor'[e] = EditEnd("saved") /\ DOMAIN editor' = Editors
        /\ \A a \in Editors \ {e} : editor'[a] = editor[a]
    BY <2>1 DEF CheckoutInv, RowShapes
  <2>4. RowShapes'
    BY <1>1, <2>2, <2>3, Fields DEF CheckoutInv, RowShapes
  <2>5. CartsAddUp'
    BY <2>2, <2>3 DEF CheckoutInv, CartsAddUp
  <2>6. EditsHaveCarts'
    <3>1. \A edit \in Edits : edit.c \in Carts
      BY CartAssumption DEF Edit
    <3>2. EditEnd("saved").pc = "saved"
      BY DEF EditEnd
    <3> QED
      BY <2>2, <2>3, <3>1, <3>2, Fields DEF CheckoutInv, EditsHaveCarts, EditSteps
  <2>7. \A t \in Checkouts : tx[t].pc \in CheckoutSteps => tx[t].cart # c
    BY <1>1, <1>3 DEF CheckoutInv, CheckedOut, Locked
  <2> QED
    BY <1>1, <2>3, <2>4, <2>5, <2>6, <2>7, FreeCartStep
<1> QED
  BY <1>4, <1>5, <1>6 DEF SaveCart

LEMMA EditStepKeeps ==
  ASSUME CheckoutInv, NEW e \in Editors, EditStep(e) \/ BreakEdit(e)
  PROVE  CheckoutInv'
BY EndEditKeeps, ReadVariantKeeps, ReadCartRowKeeps, ReadCartItemsKeeps, SaveCartKeeps
   DEF EditStep, BreakEdit

\* A recovery's cart is new when it begins.
LEMMA BeginRecoveryKeeps ==
  ASSUME CheckoutInv, NEW r \in Recoveries, NEW old \in Carts, NEW v \in Variants, NEW c \in Carts,
         BeginRecovery(r, old, v, c)
  PROVE  CheckoutInv'
<1>1. /\ cart' = [cart EXCEPT ![c] = NewCart(<<>>)] /\ cart[c] = None
      /\ UNCHANGED <<spent, order, tx, editor>>
  BY DEF BeginRecovery
<1>2. PICK todo : recovery' = [recovery EXCEPT ![r] = NewRecovery("fill", c, todo)]
  BY DEF BeginRecovery
<1>3. cart'[c] = NewCart(<<>>) /\ DOMAIN cart' = Carts /\ \A a \in Carts \ {c} : cart'[a] = cart[a]
  BY <1>1 DEF CheckoutInv, RowShapes
<1>4. /\ recovery'[r] = NewRecovery("fill", c, todo) /\ DOMAIN recovery' = Recoveries
      /\ \A a \in Recoveries \ {r} : recovery'[a] = recovery[a]
  BY <1>2 DEF CheckoutInv, RowShapes
<1>5. RowShapes'
  BY <1>1, <1>3, <1>4, Fields DEF CheckoutInv, RowShapes
<1>6. CartsAddUp'
  BY <1>3 DEF CheckoutInv, CartsAddUp, NewCart
<1>7. EditsHaveCarts'
  <2>1. \A edit \in Edits : edit.c \in Carts
    BY CartAssumption DEF Edit
  <2> QED
    BY <1>1, <1>3, <2>1, Fields DEF CheckoutInv, EditsHaveCarts
<1>8. \A t \in Checkouts : tx[t].pc \in CheckoutSteps => tx[t].cart # c
  BY <1>1 DEF CheckoutInv, CheckedOut
<1>9. NewRecovery("fill", c, todo).cart = c
  BY DEF NewRecovery
<1> QED
  BY <1>1, <1>3, <1>4, <1>5, <1>6, <1>7, <1>8, <1>9, FreeCartStep

\* While it is filled, nobody checks the cart out.
LEMMA RefillCartKeeps ==
  ASSUME CheckoutInv, NEW r \in Recoveries, RefillCart(r)
  PROVE  CheckoutInv'
<1>1. UNCHANGED <<spent, order, tx, editor>> /\ recovery[r].pc = "fill"
  BY DEF RefillCart
<1>2. DOMAIN recovery[r] = RecoveryFields
  BY Fields DEF CheckoutInv, RowShapes
<1>3. PICK c : c = recovery[r].cart
  OBVIOUS
<1>4. \A t \in Checkouts : tx[t].pc \in CheckoutSteps => tx[t].cart # c
  BY <1>1, <1>3 DEF CheckoutInv, CheckedOut
<1>5. CASE recovery' = [recovery EXCEPT ![r].pc = "failed"] /\ UNCHANGED cart
  <2>1. /\ recovery'[r].pc = "failed" /\ DOMAIN recovery'[r] = RecoveryFields
        /\ DOMAIN recovery' = Recoveries /\ \A a \in Recoveries \ {r} : recovery'[a] = recovery[a]
    BY <1>2, <1>5 DEF CheckoutInv, RowShapes, RecoveryFields
  <2>2. RowShapes'
    BY <1>1, <1>5, <2>1, Fields DEF CheckoutInv, RowShapes
  <2>3. CartsAddUp' /\ EditsHaveCarts'
    BY <1>1, <1>5 DEF CheckoutInv, CartsAddUp, EditsHaveCarts
  <2> QED
    BY <1>1, <1>4, <1>5, <2>1, <2>2, <2>3, FreeCartStep
<1>6. ASSUME NEW how, NEW todo, NEW items, NEW version,
             recovery' = [recovery EXCEPT ![r] = NewRecovery(how, c, todo)],
             cart' = [cart EXCEPT ![c] = [NewCart(items) EXCEPT !.version = version]]
      PROVE  CheckoutInv'
  <2> DEFINE row == [NewCart(items) EXCEPT !.version = version]
  <2>1. row.subtotal = Total(row.items) /\ DOMAIN row = CartFields
    BY DEF NewCart, CartFields
  <2>2. cart' = [cart EXCEPT ![c] = row]
    BY <1>6
  <2> HIDE DEF row
  <2>3. /\ c \in Carts => cart'[c] = row
        /\ DOMAIN cart' = Carts /\ \A a \in Carts \ {c} : cart'[a] = cart[a]
    BY <2>2 DEF CheckoutInv, RowShapes
  <2>4. /\ recovery'[r] = NewRecovery(how, c, todo) /\ DOMAIN recovery' = Recoveries
        /\ \A a \in Recoveries \ {r} : recovery'[a] = recovery[a]
    BY <1>6 DEF CheckoutInv, RowShapes
  <2>5. RowShapes'
    BY <1>1, <2>1, <2>3, <2>4, Fields DEF CheckoutInv, RowShapes
  <2>6. CartsAddUp'
    BY <2>1, <2>3 DEF CheckoutInv, CartsAddUp
  <2>7. EditsHaveCarts'
    <3>1. \A edit \in Edits : edit.c \in Carts
      BY CartAssumption DEF Edit
    <3> QED
      BY <1>1, <2>1, <2>3, <3>1, Fields DEF CheckoutInv, EditsHaveCarts
  <2>8. NewRecovery(how, c, todo).cart = c
    BY DEF NewRecovery
  <2> QED
    BY <1>1, <1>4, <2>3, <2>4, <2>5, <2>6, <2>7, <2>8, FreeCartStep
<1>7. \/ recovery' = [recovery EXCEPT ![r].pc = "failed"] /\ UNCHANGED cart
      \/ \E how, todo, items, version :
           /\ recovery' = [recovery EXCEPT ![r] = NewRecovery(how, c, todo)]
           /\ cart' = [cart EXCEPT ![c] = [NewCart(items) EXCEPT !.version = version]]
  <2> DEFINE add == [kind |-> "add", c |-> c,
                     v |-> Head(recovery[r].todo).v, qty |-> Head(recovery[r].todo).qty]
             refused == Refused(add, cart[c].items, stock[add.v])
  <2>1. CASE refused
    BY <1>3, <2>1 DEF RefillCart
  <2>2. CASE ~refused
    <3> DEFINE how == IF Len(recovery[r].todo) = 1 THEN "checkout" ELSE "fill"
               todo == Tail(recovery[r].todo)
               items == Applied(add, cart[c].items)
               version == cart[c].version + 1
    <3>1. /\ recovery' = [recovery EXCEPT ![r] = NewRecovery(how, c, todo)]
          /\ cart' = [cart EXCEPT ![c] = [NewCart(items) EXCEPT !.version = version]]
      BY <1>3, <2>2 DEF RefillCart
    <3> HIDE DEF how, todo, items, version
    <3> QED
      BY <3>1
  <2> QED
    BY <2>1, <2>2
<1> QED
  BY <1>5, <1>6, <1>7

LEMMA BreakRecoveryKeeps ==
  ASSUME CheckoutInv, NEW r \in Recoveries, BreakRecovery(r)
  PROVE  CheckoutInv'
<1>1. /\ UNCHANGED <<spent, order, tx, editor, cart>> /\ recovery[r].pc = "fill"
      /\ recovery' = [recovery EXCEPT ![r].pc = "failed"]
  BY DEF BreakRecovery
<1>2. DOMAIN recovery[r] = RecoveryFields
  BY Fields DEF CheckoutInv, RowShapes
<1>3. /\ recovery'[r].pc = "failed" /\ DOMAIN recovery'[r] = RecoveryFields
      /\ DOMAIN recovery' = Recoveries /\ \A a \in Recoveries \ {r} : recovery'[a] = recovery[a]
  BY <1>1, <1>2 DEF CheckoutInv, RowShapes, RecoveryFields
<1>4. RowShapes'
  BY <1>1, <1>3, Fields DEF CheckoutInv, RowShapes
<1>5. CartsAddUp' /\ EditsHaveCarts'
  BY <1>1 DEF CheckoutInv, CartsAddUp, EditsHaveCarts
<1>6. \A t \in Checkouts : tx[t].pc \in CheckoutSteps => tx[t].cart # recovery[r].cart
  BY <1>1 DEF CheckoutInv, CheckedOut
<1> QED
  BY <1>1, <1>3, <1>4, <1>5, <1>6, FreeCartStep

------------------------------------------------------------------------------
\* CheckoutInv holds in every state.
THEOREM CheckoutInvariant == Spec => []CheckoutInv
<1>1. Init => CheckoutInv
  BY CheckoutInitInv
<1>2. CheckoutInv /\ [Next]_vars => CheckoutInv'
  <2> SUFFICES ASSUME CheckoutInv, [Next]_vars PROVE CheckoutInv'
    OBVIOUS
  <2>1. ASSUME NEW e \in Editors,
               (\E edit \in Edits : BeginEdit(e, edit)) \/ EditStep(e) \/ BreakEdit(e)
        PROVE  CheckoutInv'
    BY <2>1, BeginEditKeeps, EditStepKeeps
  <2>2. ASSUME NEW t \in Checkouts,
               (\E c \in Carts \ Hidden : LockCart(t, c)) \/ CheckoutStep(t) \/ BreakCheckout(t)
        PROVE  CheckoutInv'
    BY <2>2, LockCartKeeps, CheckoutStepKeeps
  <2>3. ASSUME NEW r \in Recoveries,
               \/ RefillCart(r) \/ BreakRecovery(r)
               \/ \E old, c \in Carts, v \in Variants : BeginRecovery(r, old, v, c)
        PROVE  CheckoutInv'
    BY <2>3, RefillCartKeeps, BreakRecoveryKeeps, BeginRecoveryKeeps
  <2>4. CASE UNCHANGED vars
    BY <2>4 DEF vars, CheckoutInv, RowShapes, CartsAddUp, EditsHaveCarts, OneHolder, CheckedOut,
                Budgeted, DrawsOn, CapIsKept, OrdersAddUp, Orders
  <2> QED
    BY <2>1, <2>2, <2>3, <2>4, CreateCartKeeps DEF Next
<1> QED
  BY <1>1, <1>2, PTL DEF Spec

\* CheckoutCart's guarded update: no campaign spends more than its cap, however many
\* checkouts draw on it at once.
THEOREM CapAlwaysKept == Spec => []CapIsKept
<1>1. CheckoutInv => CapIsKept
  BY DEF CheckoutInv
<1> QED
  BY <1>1, CheckoutInvariant, PTL

\* CheckoutCart's lock of the cart: an order's subtotal is the total of its lines less
\* its discount, whatever edits were under way.
THEOREM OrdersAlwaysAddUp == Spec => []OrdersAddUp
<1>1. CheckoutInv => OrdersAddUp
  BY DEF CheckoutInv
<1> QED
  BY <1>1, CheckoutInvariant, PTL
==============================================================================
