----------------------------- MODULE ShopProofs -----------------------------
(***************************************************************************)
(* What the checkouts and edits of any number of carts come to.  Stock and *)
(* campaign budgets are exactly what the orders leave of them, no edit is  *)
(* lost, and the whole of it is a shop in which a cart turns into an order *)
(* at once.  The invariant of CartCheckoutProofs says who holds which row; *)
(* the one proved here says that what was read of a held row still stands. *)
(***************************************************************************)
EXTENDS CartCheckoutProofs

\* Rows and locals as they begin and end.
LEMMA NewCartFits ==
  ASSUME NEW items \in Seq(Item)
  PROVE  /\ NewCart(items) \in CartRow /\ NewCart(items) # None
         /\ NewCart(items).items = items /\ NewCart(items).status = "active"
         /\ NewCart(items).version = 0
<1>1. Total(items) \in Nat
  BY TotalCovers
<1> QED
  BY <1>1, NoneIsNoRow DEF NewCart, CartRow

LEMMA EndsFit ==
  /\ \A how \in {"idle", "placed", "failed"} : TxEnd(how) \in Transaction
  /\ \A how \in {"idle", "saved", "failed"} : EditEnd(how) \in Editing
BY DEF TxEnd, Transaction, EditEnd, Editing

LEMMA ShopInitInv == Init => ShopInv
<1> SUFFICES ASSUME Init PROVE ShopInv
  OBVIOUS
<1>1. \A c \in Carts : Filled[c] \in Seq(Item) /\ OneLineEach(Filled[c])
  BY RulesAssumption
<1>2. TypeInvariant
  <2>1. cart \in [Carts -> CartRow \cup {None}]
    BY <1>1, NewCartFits DEF Init
  <2>2. spent \in [Campaigns -> Nat] /\ order \in [Carts -> OrderRow \cup {None}]
    BY DEF Init
  <2>3. stock \in [Variants -> Int]
    BY RulesAssumption DEF Init
  <2>4. tx \in [Checkouts -> Transaction] /\ editor \in [Editors -> Editing]
    BY EndsFit DEF Init
  <2>5. NewRecovery("idle", None, <<>>) \in
          [pc : {"idle", "fill", "checkout", "failed"}, cart : Carts \cup {None}, todo : Seq(Item)]
    BY DEF NewRecovery
  <2> QED
    BY <2>1, <2>2, <2>3, <2>4, <2>5 DEF Init, TypeInvariant
<1>3. CartsFit
  BY <1>1, NewCartFits DEF Init, CartsFit
<1>4. \A t \in Checkouts : ReadsStand(t) /\ Discounted(t)
  BY DEF Init, TxEnd, ReadsStand, Discounted, CheckoutSteps
<1>5. (\A e \in Editors : EditStands(e)) /\ \A r \in Recoveries : Refilling(r)
  BY DEF Init, EditEnd, EditSteps, EditStands, NewRecovery, Refilling
<1>6. Orders = {} /\ IsFiniteSet(Orders)
  BY FS_EmptySet DEF Init, Orders
<1>7. StockIsKept
  <2>1. ASSUME NEW v \in Variants PROVE stock[v] >= 0 /\ stock[v] + 0 = Stock[v]
    BY RulesAssumption DEF Init
  <2>2. ASSUME NEW v \in Variants PROVE SumFunction([c \in Orders |-> Quantity(order[c].lines, v)]) = 0
    BY <1>6, SumOfNone DEF SumFunction
  <2> QED
    BY <2>1, <2>2 DEF StockIsKept
<1>8. BudgetIsKept
  <2>1. ASSUME NEW k \in Campaigns
        PROVE  SumFunction([c \in Orders |-> IF order[c].campaign = k THEN order[c].discount ELSE 0]) = 0
    BY <1>6, SumOfNone DEF SumFunction
  <2> QED
    BY <2>1, CheckoutInitInv DEF BudgetIsKept, CheckoutInv, Init
<1> QED
  BY <1>2, <1>3, <1>4, <1>5, <1>6, <1>7, <1>8 DEF ShopInv

------------------------------------------------------------------------------
\* Checkouts.

\* What a checkout has locked but not written concerns nobody else.
LEMMA NothingWritten ==
  ASSUME ShopInv, UNCHANGED <<stock, spent, cart, order, editor, recovery>>
  PROVE  /\ CartsFit' /\ (\A e \in Editors : EditStands(e)') /\ (\A r \in Recoveries : Refilling(r)')
         /\ IsFiniteSet(Orders)' /\ StockIsKept' /\ BudgetIsKept'
<1>1. CartsFit'
  BY DEF ShopInv, CartsFit
<1>2. \A e \in Editors : EditStands(e)'
  BY DEF ShopInv, EditStands
<1>3. \A r \in Recoveries : Refilling(r)'
  BY DEF ShopInv, Refilling
<1>4. Orders' = Orders
  BY DEF Orders
<1>5. IsFiniteSet(Orders)'
  BY <1>4 DEF ShopInv
<1>6. StockIsKept' /\ BudgetIsKept'
  BY <1>4 DEF ShopInv, StockIsKept, BudgetIsKept, CapIsKept
<1> QED
  BY <1>1, <1>2, <1>3, <1>5, <1>6

\* What one transaction has read stands whatever another locks.
LEMMA TxKeepsShop ==
  ASSUME ShopInv, NEW t \in Checkouts, NEW w \in Transaction,
         tx' = [tx EXCEPT ![t] = w], UNCHANGED <<stock, spent, cart, order, editor, recovery>>,
         ReadsStand(t)', Discounted(t)'
  PROVE  ShopInv'
<1>1. TypeInvariant'
  BY DEF ShopInv, TypeInvariant
<1>2. \A u \in Checkouts \ {t} : tx'[u] = tx[u]
  BY DEF ShopInv, TypeInvariant
<1>3. ASSUME NEW u \in Checkouts PROVE ReadsStand(u)' /\ Discounted(u)'
  <2>1. CASE u = t
    BY <2>1
  <2>2. CASE u # t
    <3>1. tx'[u] = tx[u]
      BY <1>2, <2>2
    <3>2. ReadsStand(u) /\ Discounted(u)
      BY DEF ShopInv
    <3> QED
      BY <3>1, <3>2 DEF ReadsStand, Reserved, Discounted, Current
  <2> QED
    BY <2>1, <2>2
<1> QED
  BY <1>1, <1>3, NothingWritten DEF ShopInv

LEMMA AbortKeepsShop ==
  ASSUME ShopInv, NEW t \in Checkouts, Abort(t),
         UNCHANGED <<stock, spent, cart, order, editor, recovery>>
  PROVE  ShopInv'
<1>1. tx' = [tx EXCEPT ![t] = TxEnd("failed")] /\ tx'[t] = TxEnd("failed")
  BY DEF Abort, ShopInv, TypeInvariant
<1>2. TxEnd("failed").pc = "failed"
  BY DEF TxEnd
<1>3. ReadsStand(t)' /\ Discounted(t)'
  BY <1>1, <1>2 DEF ReadsStand, Discounted, CheckoutSteps
<1> QED
  BY <1>1, <1>3, EndsFit, TxKeepsShop

LEMMA LockCartKeepsShop ==
  ASSUME ShopInv, NEW t \in Checkouts, NEW c \in Carts, LockCart(t, c)
  PROVE  ShopInv'
<1> DEFINE w == [TxEnd("items") EXCEPT !.cart = c, !.subtotal = cart[c].subtotal, !.held = {c}]
<1>1. UNCHANGED <<stock, spent, cart, order, editor, recovery>> /\ cart[c] # None
  BY DEF LockCart
<1>2. CASE tx' = [tx EXCEPT ![t] = w] /\ cart[c].status # "checked_out"
  <2>1. cart[c] \in CartRow /\ cart[c].status = "active"
    BY <1>1, <1>2 DEF ShopInv, TypeInvariant, CartRow
  <2>2. TxEnd("items") \in Transaction
    BY DEF TxEnd, Transaction, CheckoutSteps
  <2>3. cart[c].subtotal \in Nat /\ {c} \in SUBSET Rows
    BY <2>1 DEF CartRow, Rows
  <2>4. w \in Transaction /\ w.pc = "items" /\ w.cart = c /\ w.next = 1 /\ w.discount = 0
    <3>1. w \in Transaction
      BY <2>2, <2>3 DEF Transaction
    <3>2. w.pc = "items" /\ w.cart = c /\ w.next = 1 /\ w.discount = 0
      BY DEF TxEnd
    <3> QED
      BY <3>1, <3>2
  <2> HIDE DEF w
  <2>5. tx'[t] = w
    BY <1>2 DEF ShopInv, TypeInvariant
  <2>6. ReadsStand(t)' /\ Discounted(t)'
    BY <1>1, <2>1, <2>4, <2>5 DEF ReadsStand, Reserved, Discounted
  <2>7. tx' = [tx EXCEPT ![t] = w]
    BY <1>2 DEF w
  <2> QED
    BY <1>1, <2>4, <2>6, <2>7, TxKeepsShop
<1>3. CASE Abort(t)
  BY <1>1, <1>3, AbortKeepsShop
<1> QED
  BY <1>2, <1>3 DEF LockCart

LEMMA LoadItemsKeepsShop ==
  ASSUME CheckoutInv, ShopInv, NEW t \in Checkouts, LoadItems(t)
  PROVE  ShopInv'
<1> DEFINE items == cart[tx[t].cart].items
           w == [tx[t] EXCEPT !.pc = "discount", !.items = items]
<1>1. UNCHANGED <<stock, spent, cart, order, editor, recovery>> /\ tx[t].pc = "items"
  BY DEF LoadItems, TxAt
<1>2. CASE tx' = [tx EXCEPT ![t] = w] /\ items # <<>>
  <2>1. tx[t].cart \in Carts /\ cart[tx[t].cart] # None /\ cart[tx[t].cart] \in CartRow
    BY <1>1 DEF CheckoutInv, CheckedOut, CheckoutSteps, ShopInv, TypeInvariant
  <2>2. items \in Seq(Item) /\ 1 \in DOMAIN items
    BY <1>2, <2>1 DEF CartRow
  <2>3. tx[t] \in Transaction /\ tx'[t] = w /\ ReadsStand(t) /\ Discounted(t)
    BY <1>2 DEF ShopInv, TypeInvariant
  <2>4. tx[t].next = 1 /\ tx[t].discount = 0 /\ cart[tx[t].cart].status = "active"
    BY <1>1, <2>3 DEF ReadsStand, Discounted, CheckoutSteps
  <2>5. /\ w.pc = "discount" /\ w.cart = tx[t].cart /\ w.next = 1 /\ w.discount = 0
        /\ w.items = items /\ w \in Transaction
    BY <2>2, <2>3, <2>4 DEF Transaction, CheckoutSteps
  <2> HIDE DEF w
  <2>6. ReadsStand(t)' /\ Discounted(t)'
    BY <1>1, <2>2, <2>3, <2>4, <2>5 DEF ReadsStand, Reserved, Discounted
  <2> QED
    BY <1>1, <1>2, <2>5, <2>6, TxKeepsShop
<1>3. CASE Abort(t)
  BY <1>1, <1>3, AbortKeepsShop
<1> QED
  BY <1>2, <1>3 DEF LoadItems

\* What the other steps of a checkout start from.
LEMMA UnderWay ==
  ASSUME CheckoutInv, ShopInv, NEW t \in Checkouts, tx[t].pc \in CheckoutSteps \ {"items"}
  PROVE  /\ tx[t] \in Transaction /\ tx[t].cart \in Carts /\ cart[tx[t].cart] \in CartRow
         /\ tx[t].items \in Seq(Item) /\ tx[t].items = cart[tx[t].cart].items
         /\ DOMAIN tx[t].items = 1 .. Len(tx[t].items) /\ Len(tx[t].items) \in Nat
         /\ tx[t].next \in DOMAIN tx[t].items /\ Current(t) \in Item
         /\ cart[tx[t].cart].status = "active"
<1>1. tx[t] \in Transaction /\ ReadsStand(t)
  BY DEF ShopInv, TypeInvariant
<1>2. tx[t].cart \in Carts /\ cart[tx[t].cart] \in CartRow
  BY DEF CheckoutInv, CheckedOut, ShopInv, TypeInvariant
<1>3. /\ tx[t].items = cart[tx[t].cart].items /\ tx[t].next \in DOMAIN tx[t].items
      /\ cart[tx[t].cart].status = "active"
  BY <1>1 DEF ReadsStand
<1>4. tx[t].items \in Seq(Item)
  BY <1>1 DEF Transaction
<1>5. \A items \in Seq(Item) : \A i \in DOMAIN items : items[i] \in Item
  BY LinesAreFinite
<1>6. DOMAIN tx[t].items = 1 .. Len(tx[t].items) /\ Len(tx[t].items) \in Nat
  BY <1>4
<1> QED
  BY <1>1, <1>2, <1>3, <1>4, <1>5, <1>6 DEF Current

LEMMA SkipItemKeepsShop ==
  ASSUME CheckoutInv, ShopInv, NEW t \in Checkouts, SkipItem(t), tx[t].pc \in {"discount", "guard"},
         UNCHANGED <<stock, spent, cart, order, editor, recovery>>
  PROVE  ShopInv'
<1> DEFINE w == IF tx[t].next = Len(tx[t].items)
               THEN [tx[t] EXCEPT !.pc = "reserve", !.next = 1, !.campaign = None]
               ELSE [tx[t] EXCEPT !.pc = "discount", !.next = tx[t].next + 1, !.campaign = None]
           n == Len(tx[t].items)
<1>1. tx' = [tx EXCEPT ![t] = w]
  BY DEF SkipItem
<1>2. /\ tx[t] \in Transaction /\ tx[t].items = cart[tx[t].cart].items
      /\ DOMAIN tx[t].items = 1 .. n /\ n \in Nat /\ tx[t].next \in 1 .. n
      /\ cart[tx[t].cart].status = "active"
  BY UnderWay DEF CheckoutSteps
<1>3. tx[t].discount = 0
  BY DEF ShopInv, Discounted
<1>4. /\ w \in Transaction /\ w.cart = tx[t].cart /\ w.items = tx[t].items
      /\ w.campaign = None /\ w.discount = 0 /\ w.next \in 1 .. n
      /\ w.pc = "discount" \/ (w.pc = "reserve" /\ w.next = 1)
  <2> DEFINE u(pc, next) == [tx[t] EXCEPT !.pc = pc, !.next = next, !.campaign = None]
  <2>1. ASSUME NEW pc \in CheckoutSteps, NEW next \in 1 .. n
        PROVE  /\ u(pc, next) \in Transaction /\ u(pc, next).cart = tx[t].cart
               /\ u(pc, next).items = tx[t].items /\ u(pc, next).campaign = None
               /\ u(pc, next).discount = 0 /\ u(pc, next).next = next /\ u(pc, next).pc = pc
    <3>1. next \in Nat
      BY <1>2
    <3> QED
      BY <1>2, <1>3, <3>1 DEF Transaction
  <2>2. "discount" \in CheckoutSteps /\ "reserve" \in CheckoutSteps
    BY DEF CheckoutSteps
  <2>3. 1 \in 1 .. n /\ (tx[t].next # n => tx[t].next + 1 \in 1 .. n)
    BY <1>2
  <2>4. w = IF tx[t].next = n THEN u("reserve", 1) ELSE u("discount", tx[t].next + 1)
    OBVIOUS
  <2> HIDE DEF u, w
  <2>5. CASE tx[t].next = n
    BY <2>1, <2>2, <2>3, <2>4, <2>5
  <2>6. CASE tx[t].next # n
    BY <2>1, <2>2, <2>3, <2>4, <2>6
  <2> QED
    BY <2>5, <2>6
<1>5. tx'[t] = w
  BY <1>1 DEF ShopInv, TypeInvariant
<1> HIDE DEF w, n
<1>6. Reserved(t)' = {}
  <2>1. 1 .. 1 - 1 = {}
    OBVIOUS
  <2> QED
    BY <1>4, <1>5, <2>1 DEF Reserved
<1>7. ReadsStand(t)'
  BY <1>2, <1>4, <1>5, <1>6 DEF ReadsStand
<1>8. Discounted(t)'
  BY <1>4, <1>5 DEF Discounted, Discounts
<1> QED
  BY <1>1, <1>4, <1>7, <1>8, TxKeepsShop

LEMMA FindCampaignKeepsShop ==
  ASSUME CheckoutInv, ShopInv, NEW t \in Checkouts, FindCampaign(t)
  PROVE  ShopInv'
<1>1. UNCHANGED <<stock, spent, cart, order, editor, recovery>> /\ tx[t].pc = "discount"
  BY DEF FindCampaign, TxAt
<1>2. CASE SkipItem(t)
  BY <1>1, <1>2, SkipItemKeepsShop
<1>3. ASSUME NEW k \in Campaigns, Offer[k].product = ProductOf[Current(t).v],
             tx' = [tx EXCEPT ![t].pc = "guard", ![t].campaign = k]
      PROVE  ShopInv'
  <2> DEFINE w == [tx[t] EXCEPT !.pc = "guard", !.campaign = k]
  <2>1. tx' = [tx EXCEPT ![t] = w]
    BY <1>3
  <2>2. /\ tx[t] \in Transaction /\ tx[t].items = cart[tx[t].cart].items
        /\ tx[t].next \in DOMAIN tx[t].items /\ cart[tx[t].cart].status = "active"
    BY <1>1, UnderWay DEF CheckoutSteps
  <2>3. tx[t].discount = 0
    BY <1>1 DEF ShopInv, Discounted
  <2>4. /\ w \in Transaction /\ w.pc = "guard" /\ w.cart = tx[t].cart /\ w.next = tx[t].next
        /\ w.items = tx[t].items /\ w.campaign = k /\ w.discount = 0
    BY <2>2, <2>3 DEF Transaction, CheckoutSteps
  <2>5. tx'[t] = w
    BY <2>1 DEF ShopInv, TypeInvariant
  <2> HIDE DEF w
  <2>6. ReadsStand(t)'
    BY <1>1, <2>2, <2>4, <2>5 DEF ReadsStand, Reserved
  <2>7. Discounted(t)'
    BY <1>3, <2>4, <2>5 DEF Discounted, Current
  <2> QED
    BY <1>1, <2>1, <2>4, <2>6, <2>7, TxKeepsShop
<1> QED
  BY <1>2, <1>3 DEF FindCampaign

LEMMA SpendBudgetKeepsShop ==
  ASSUME CheckoutInv, ShopInv, NEW t \in Checkouts, SpendBudget(t)
  PROVE  ShopInv'
<1> DEFINE k == tx[t].campaign
           d == CandidateDiscount(Current(t), k)
           w == [tx[t] EXCEPT !.pc = "reserve", !.next = 1, !.discount = d, !.held = tx[t].held \cup {k}]
<1>1. UNCHANGED <<stock, spent, cart, order, editor, recovery>> /\ tx[t].pc = "guard"
  BY DEF SpendBudget, TxAt
<1>2. CASE SkipItem(t)
  BY <1>1, <1>2, SkipItemKeepsShop
<1>3. CASE tx' = [tx EXCEPT ![t] = w]
  <2>1. /\ tx[t] \in Transaction /\ tx[t].items = cart[tx[t].cart].items /\ tx[t].items \in Seq(Item)
        /\ tx[t].next \in DOMAIN tx[t].items /\ cart[tx[t].cart].status = "active"
        /\ DOMAIN tx[t].items = 1 .. Len(tx[t].items) /\ Len(tx[t].items) \in Nat
    BY <1>1, UnderWay DEF CheckoutSteps
  <2>2. k \in Campaigns /\ Offer[k].product = ProductOf[Current(t).v]
    BY <1>1 DEF CheckoutInv, Budgeted, ShopInv, Discounted
  <2>3. d \in Nat
    BY <2>1, <2>2, DiscountFits DEF Current
  <2>4. Discounts(tx[t].items, k, d)
    BY <2>1, <2>2 DEF Discounts, Current
  <2>5. k \in Rows /\ 1 \in DOMAIN tx[t].items
    BY <2>1, <2>2 DEF Rows
  <2> HIDE DEF k, d
  <2>6. /\ w \in Transaction /\ w.pc = "reserve" /\ w.cart = tx[t].cart /\ w.next = 1
        /\ w.items = tx[t].items /\ w.campaign = tx[t].campaign /\ w.discount = d
    BY <2>1, <2>3, <2>5 DEF Transaction, CheckoutSteps
  <2>7. tx'[t] = w
    BY <1>3 DEF ShopInv, TypeInvariant
  <2> HIDE DEF w
  <2>8. Reserved(t)' = {}
    <3>1. 1 .. 1 - 1 = {}
      OBVIOUS
    <3> QED
      BY <2>6, <2>7, <3>1 DEF Reserved
  <2>9. ReadsStand(t)'
    BY <1>1, <2>1, <2>5, <2>6, <2>7, <2>8 DEF ReadsStand
  <2>10. Discounted(t)'
    BY <2>4, <2>6, <2>7 DEF Discounted, k
  <2> QED
    BY <1>1, <1>3, <2>6, <2>9, <2>10, TxKeepsShop
<1> QED
  BY <1>2, <1>3 DEF SpendBudget

\* One more item's stock is set aside, or its product is touched: the items reserved
\* so far stay reserved.
LEMMA MoreReserved ==
  ASSUME CheckoutInv, ShopInv, NEW t \in Checkouts, NEW row \in Rows,
         NEW pc \in {"reserve", "product", "place"}, NEW next \in DOMAIN tx[t].items,
         tx[t].pc \in {"reserve", "product"},
         tx' = [tx EXCEPT ![t] = [tx[t] EXCEPT !.pc = pc, !.next = next, !.held = tx[t].held \cup {row}]],
         \A i \in Reserved(t)' :
           i \in Reserved(t) \/ (tx[t].items[i].v = row /\ tx[t].items[i].qty <= stock[row]),
         UNCHANGED <<stock, spent, cart, order, editor, recovery>>
  PROVE  ShopInv'
<1> DEFINE w == [tx[t] EXCEPT !.pc = pc, !.next = next, !.held = tx[t].held \cup {row}]
<1>1. /\ tx[t] \in Transaction /\ tx[t].items = cart[tx[t].cart].items
      /\ DOMAIN tx[t].items = 1 .. Len(tx[t].items) /\ Len(tx[t].items) \in Nat
      /\ cart[tx[t].cart].status = "active"
  BY UnderWay DEF CheckoutSteps
<1>2. next \in Nat /\ pc \in CheckoutSteps
  BY <1>1 DEF CheckoutSteps
<1>3. /\ w \in Transaction /\ w.pc = pc /\ w.next = next /\ w.cart = tx[t].cart
      /\ w.items = tx[t].items /\ w.campaign = tx[t].campaign /\ w.discount = tx[t].discount
      /\ w.held = tx[t].held \cup {row}
  BY <1>1, <1>2 DEF Transaction
<1>4. tx'[t] = w
  BY DEF ShopInv, TypeInvariant
<1> HIDE DEF w
<1>5. ReadsStand(t) /\ Discounted(t)
  BY DEF ShopInv
<1>6. \A i \in Reserved(t)' : w.items[i].v \in w.held /\ w.items[i].qty <= stock[w.items[i].v]
  BY <1>3, <1>5 DEF ReadsStand, CheckoutSteps
<1>7. ReadsStand(t)'
  BY <1>1, <1>2, <1>3, <1>4, <1>6 DEF ReadsStand
<1>8. Discounted(t)'
  BY <1>3, <1>4, <1>5 DEF Discounted
<1>9. tx' = [tx EXCEPT ![t] = w]
  BY DEF w
<1> QED
  BY <1>3, <1>7, <1>8, <1>9, TxKeepsShop

LEMMA ReserveVariantKeepsShop ==
  ASSUME CheckoutInv, ShopInv, NEW t \in Checkouts, ReserveVariant(t)
  PROVE  ShopInv'
<1> DEFINE w == [tx[t] EXCEPT !.pc = "product", !.held = tx[t].held \cup {Current(t).v}]
<1>1. UNCHANGED <<stock, spent, cart, order, editor, recovery>> /\ tx[t].pc = "reserve"
  BY DEF ReserveVariant, TxAt
<1>2. CASE Abort(t)
  BY <1>1, <1>2, AbortKeepsShop
<1>3. CASE tx' = [tx EXCEPT ![t] = w] /\ ~(stock[Current(t).v] < Current(t).qty)
  <2>1. /\ tx[t] \in Transaction /\ tx[t].next \in DOMAIN tx[t].items /\ Current(t) \in Item
        /\ DOMAIN tx[t].items = 1 .. Len(tx[t].items) /\ Len(tx[t].items) \in Nat
    BY <1>1, UnderWay DEF CheckoutSteps
  <2>2. Current(t).v \in Variants /\ Current(t).qty \in Nat
    BY <2>1 DEF Item
  <2>3. stock[Current(t).v] \in Int
    BY <2>2 DEF ShopInv, TypeInvariant
  <2>4. Current(t).qty <= stock[Current(t).v] /\ Current(t).v \in Rows
    BY <1>3, <2>2, <2>3 DEF Rows
  <2>5. /\ w.pc = "product" /\ w.next = tx[t].next
        /\ w = [tx[t] EXCEPT !.pc = "product", !.next = tx[t].next, !.held = tx[t].held \cup {Current(t).v}]
        /\ w.items = tx[t].items
    BY <2>1 DEF Transaction
  <2>6. tx'[t] = w
    BY <1>3 DEF ShopInv, TypeInvariant
  <2> HIDE DEF w
  <2>7. Reserved(t)' = 1 .. tx[t].next /\ Reserved(t) = 1 .. tx[t].next - 1
    BY <1>1, <2>5, <2>6 DEF Reserved
  <2>8. ASSUME NEW i \in Reserved(t)', i \notin Reserved(t) PROVE i = tx[t].next
    BY <2>1, <2>7, <2>8
  <2>9. \A i \in Reserved(t)' : i \in Reserved(t)
          \/ (tx[t].items[i].v = Current(t).v /\ tx[t].items[i].qty <= stock[Current(t).v])
    BY <2>4, <2>8 DEF Current
  <2> QED
    BY <1>1, <1>3, <2>1, <2>4, <2>5, <2>9, MoreReserved
<1> QED
  BY <1>2, <1>3 DEF ReserveVariant

LEMMA TouchProductKeepsShop ==
  ASSUME CheckoutInv, ShopInv, NEW t \in Checkouts, TouchProduct(t)
  PROVE  ShopInv'
<1> DEFINE p == ProductOf[Current(t).v]
           n == Len(tx[t].items)
           w == IF tx[t].next = n
                THEN [tx[t] EXCEPT !.pc = "place", !.held = tx[t].held \cup {p}]
                ELSE [tx[t] EXCEPT !.pc = "reserve", !.next = tx[t].next + 1, !.held = tx[t].held \cup {p}]
<1>1. UNCHANGED <<stock, spent, cart, order, editor, recovery>> /\ tx[t].pc = "product"
  BY DEF TouchProduct, TxAt
<1>2. tx' = [tx EXCEPT ![t] = w]
  BY DEF TouchProduct
<1>3. /\ tx[t] \in Transaction /\ tx[t].next \in 1 .. n /\ Current(t) \in Item
      /\ DOMAIN tx[t].items = 1 .. n /\ n \in Nat
  BY <1>1, UnderWay DEF CheckoutSteps
<1>4. p \in Rows
  BY <1>3, RulesAssumption DEF Item, Rows
<1>5. tx'[t] = w
  BY <1>2 DEF ShopInv, TypeInvariant
<1> HIDE DEF p
<1> DEFINE pc == IF tx[t].next = n THEN "place" ELSE "reserve"
           next == IF tx[t].next = n THEN tx[t].next ELSE tx[t].next + 1
<1>6. /\ w.pc = pc /\ w.next = next
      /\ w = [tx[t] EXCEPT !.pc = pc, !.next = next, !.held = tx[t].held \cup {p}]
      /\ w.items = tx[t].items
  BY <1>3 DEF Transaction
<1> HIDE DEF w, n
<1>7. next \in 1 .. n /\ pc \in {"reserve", "product", "place"}
  BY <1>3
<1>8. Reserved(t)' = 1 .. tx[t].next /\ Reserved(t) = 1 .. tx[t].next
  <2>1. Reserved(t) = 1 .. tx[t].next
    BY <1>1 DEF Reserved
  <2>2. CASE tx[t].next = n
    BY <1>3, <1>5, <1>6, <2>1, <2>2 DEF Reserved
  <2>3. CASE tx[t].next # n
    <3>1. tx'[t].pc = "reserve" /\ tx'[t].next = tx[t].next + 1
      BY <1>5, <1>6, <2>3
    <3>2. Reserved(t)' = 1 .. tx'[t].next - 1
      BY <3>1 DEF Reserved
    <3>3. tx'[t].next - 1 = tx[t].next
      BY <1>3, <3>1
    <3> QED
      BY <2>1, <3>2, <3>3
  <2> QED
    BY <2>2, <2>3
<1>9. tx' = [tx EXCEPT ![t] = [tx[t] EXCEPT !.pc = pc, !.next = next, !.held = tx[t].held \cup {p}]]
  BY <1>2, <1>6
<1> HIDE DEF pc, next
<1> QED
  BY <1>1, <1>3, <1>4, <1>7, <1>8, <1>9, MoreReserved

\* A sum with one order more.
LEMMA OneOrderMore ==
  ASSUME NEW f, NEW g, NEW a, IsFiniteSet(DOMAIN f), a \notin DOMAIN f,
         DOMAIN g = DOMAIN f \cup {a}, g[a] \in Nat,
         \A x \in DOMAIN f : f[x] = g[x] /\ f[x] \in Nat
  PROVE  SumFunction(g) = g[a] + SumFunction(f) /\ SumFunction(f) \in Nat
BY SumWithNew, SumIsNat DEF SumFunction

\* What is reserved of every variant covers what the order takes of it.
LEMMA OrderIsCovered ==
  ASSUME CheckoutInv, ShopInv, NEW t \in Checkouts, tx[t].pc = "place", NEW v \in Variants
  PROVE  /\ Quantity(tx[t].items, v) \in Nat /\ Quantity(tx[t].items, v) <= stock[v]
         /\ v \notin tx[t].held => Quantity(tx[t].items, v) = 0
<1> DEFINE items == tx[t].items
<1>1. items \in Seq(Item) /\ items = cart[tx[t].cart].items /\ tx[t].cart \in Carts
      /\ cart[tx[t].cart] # None
  BY UnderWay DEF CheckoutSteps, CheckoutInv, CheckedOut
<1>2. OneLineEach(items)
  BY <1>1 DEF ShopInv, CartsFit
<1>3. \A i \in DOMAIN items : items[i].v \in tx[t].held /\ items[i].qty <= stock[items[i].v]
  <2>1. ReadsStand(t) /\ Reserved(t) = DOMAIN items
    BY DEF ShopInv, Reserved
  <2> QED
    BY <2>1 DEF ReadsStand, CheckoutSteps
<1>4. stock[v] \in Int /\ stock[v] >= 0
  BY DEF ShopInv, TypeInvariant, StockIsKept
<1> HIDE DEF items
<1>5. Quantity(items, v) \in Nat
  BY <1>1, QuantityCounts
<1>6. CASE \E i \in DOMAIN items : items[i].v = v
  BY <1>1, <1>2, <1>3, <1>5, <1>6, QuantityCounts DEF items
<1>7. CASE \A i \in DOMAIN items : items[i].v # v
  <2>1. Quantity(items, v) = 0
    BY <1>1, <1>7, QuantityCounts
  <2> QED
    BY <1>4, <2>1 DEF items
<1> QED
  BY <1>6, <1>7

\* The discount is at most the price of one item.
LEMMA OrderIsPayable ==
  ASSUME CheckoutInv, ShopInv, NEW t \in Checkouts, tx[t].pc = "place"
  PROVE  tx[t].subtotal - tx[t].discount \in Nat
<1>1. tx[t].items \in Seq(Item)
  BY UnderWay DEF CheckoutSteps
<1>2. tx[t].subtotal = Total(tx[t].items)
  BY DEF CheckoutInv, CheckedOut, CheckoutSteps
<1>3. Discounts(tx[t].items, tx[t].campaign, tx[t].discount)
  BY DEF ShopInv, Discounted
<1>4. tx[t].discount \in Nat /\ tx[t].discount <= Total(tx[t].items)
  BY <1>1, <1>3, TotalCovers, DiscountFits DEF Discounts
<1>5. Total(tx[t].items) \in Nat
  BY <1>1, TotalCovers
<1> QED
  BY <1>2, <1>4, <1>5

LEMMA PlaceOrderKeepsShop ==
  ASSUME CheckoutInv, CheckoutInv', ShopInv, NEW t \in Checkouts, PlaceOrder(t)
  PROVE  ShopInv'
<1> DEFINE w == tx[t]
           c == tx[t].cart
           placed == [lines |-> w.items, subtotal |-> w.subtotal - w.discount,
                      discount |-> w.discount, campaign |-> w.campaign]
<1>1. /\ w.pc = "place" /\ c \in Carts /\ c \in w.held /\ cart[c] # None
      /\ \A r \in Recoveries : recovery[r].pc = "fill" => recovery[r].cart # c
  BY DEF PlaceOrder, TxAt, CheckoutInv, CheckedOut, CheckoutSteps
<1>2. /\ w \in Transaction /\ cart[c] \in CartRow /\ w.items \in Seq(Item)
      /\ w.items = cart[c].items /\ cart[c].status = "active"
  BY <1>1, UnderWay DEF CheckoutSteps
<1>3. /\ order' = [order EXCEPT ![c] = placed]
      /\ stock' = [v \in Variants |-> stock[v] - Quantity(w.items, v)]
      /\ spent' = [k \in Campaigns |-> IF k = w.campaign THEN spent[k] + w.discount ELSE spent[k]]
      /\ cart' = [cart EXCEPT ![c] = [cart[c] EXCEPT !.status = "checked_out"]]
      /\ tx' = [tx EXCEPT ![t] = TxEnd("placed")]
      /\ UNCHANGED <<editor, recovery>>
  BY DEF PlaceOrder
<1>4. ASSUME NEW v \in Variants
      PROVE  /\ Quantity(w.items, v) \in Nat /\ Quantity(w.items, v) <= stock[v]
             /\ stock[v] \in Int /\ (v \notin w.held => stock'[v] = stock[v])
  <2>1. stock[v] \in Int
    BY DEF ShopInv, TypeInvariant
  <2>2. /\ Quantity(w.items, v) \in Nat /\ Quantity(w.items, v) <= stock[v]
        /\ v \notin w.held => Quantity(w.items, v) = 0
    BY <1>1, OrderIsCovered
  <2>3. stock'[v] = stock[v] - Quantity(w.items, v)
    BY <1>3
  <2> QED
    BY <2>1, <2>2, <2>3
<1>5. w.discount \in Nat /\ w.campaign \in Campaigns \cup {None}
  BY <1>2 DEF Transaction
<1>6. placed \in OrderRow /\ placed # None
  <2>1. placed \in OrderRow
    BY <1>1, <1>2, <1>5, OrderIsPayable DEF OrderRow
  <2> QED
    BY <2>1, NoneIsNoRow
<1>7. order[c] = None
  BY <1>1, <1>2 DEF ShopInv, CartsFit
<1> DEFINE row == [cart[c] EXCEPT !.status = "checked_out"]
<1>8. /\ row \in CartRow /\ row # None /\ row.status = "checked_out"
      /\ row.items = cart[c].items /\ row.version = cart[c].version
  BY <1>2, NoneIsNoRow DEF CartRow
<1>9. /\ tx'[t] = TxEnd("placed") /\ \A u \in Checkouts \ {t} : tx'[u] = tx[u]
      /\ cart'[c] = row /\ \A a \in Carts \ {c} : cart'[a] = cart[a]
      /\ order'[c] = placed /\ \A a \in Carts \ {c} : order'[a] = order[a]
  BY <1>1, <1>3 DEF ShopInv, TypeInvariant
<1>10. Orders' = Orders \cup {c} /\ c \notin Orders /\ IsFiniteSet(Orders)
  BY <1>1, <1>6, <1>7, <1>9 DEF Orders, ShopInv
<1>11. placed.lines = w.items /\ placed.discount = w.discount /\ placed.campaign = w.campaign
  OBVIOUS
<1>12. \A a \in Orders : order'[a] = order[a] /\ order[a] \in OrderRow
  BY <1>9, <1>10 DEF Orders, ShopInv, TypeInvariant
<1> HIDE DEF row, placed
<1>13. TypeInvariant'
  <2>1. stock' \in [Variants -> Int]
    BY <1>3, <1>4
  <2>2. spent' \in [Campaigns -> Nat]
    <3>1. \A k \in Campaigns : spent[k] \in Nat
      BY DEF ShopInv, TypeInvariant
    <3> QED
      BY <1>3, <1>5, <3>1
  <2>3. cart' \in [Carts -> CartRow \cup {None}] /\ order' \in [Carts -> OrderRow \cup {None}]
    <3>1. cart' = [cart EXCEPT ![c] = row] /\ order' = [order EXCEPT ![c] = placed]
      BY <1>3 DEF row
    <3> QED
      BY <1>6, <1>8, <3>1 DEF ShopInv, TypeInvariant
  <2>4. tx' \in [Checkouts -> Transaction]
    BY <1>3, EndsFit DEF ShopInv, TypeInvariant
  <2> QED
    BY <1>3, <2>1, <2>2, <2>3, <2>4 DEF ShopInv, TypeInvariant
<1>14. CartsFit'
  BY <1>1, <1>8, <1>9 DEF ShopInv, CartsFit
<1>15. ASSUME NEW u \in Checkouts PROVE ReadsStand(u)' /\ Discounted(u)'
  <2>1. CASE u = t
    <3>1. TxEnd("placed").pc = "placed"
      BY DEF TxEnd
    <3> QED
      BY <1>9, <2>1, <3>1 DEF ReadsStand, Discounted, CheckoutSteps
  <2>2. CASE u # t
    <3>1. tx'[u] = tx[u] /\ w.held \cap tx[u].held = {} /\ Reserved(u)' = Reserved(u)
      BY <1>9, <2>2 DEF CheckoutInv, OneHolder, Reserved
    <3>2. ReadsStand(u) /\ Discounted(u)
      BY DEF ShopInv
    <3>3. Discounted(u)'
      BY <3>1, <3>2 DEF Discounted, Current
    <3>4. CASE tx[u].pc \in CheckoutSteps
      <4>1. tx[u].cart \in Carts /\ tx[u].cart # c
        BY <1>1, <3>1, <3>4 DEF CheckoutInv, CheckedOut
      <4>2. cart'[tx[u].cart] = cart[tx[u].cart]
        BY <1>9, <4>1
      <4>3. ASSUME NEW i \in Reserved(u)
            PROVE  stock'[tx[u].items[i].v] = stock[tx[u].items[i].v]
        <5>1. tx[u].items[i].v \in tx[u].held /\ i \in DOMAIN tx[u].items /\ tx[u].pc # "items"
          <6>1. tx[u].pc # "items"
            BY <4>3 DEF Reserved
          <6>2. /\ DOMAIN tx[u].items = 1 .. Len(tx[u].items) /\ Len(tx[u].items) \in Nat
                /\ tx[u].next \in DOMAIN tx[u].items
            BY <3>4, <6>1, UnderWay
          <6>3. i \in DOMAIN tx[u].items
            BY <4>3, <6>2 DEF Reserved
          <6> QED
            BY <3>2, <3>4, <4>3, <6>1, <6>3 DEF ReadsStand
        <5>2. tx[u].items[i].v \in Variants
          <6>1. tx[u].items \in Seq(Item)
            BY <3>4, <5>1, UnderWay
          <6>2. tx[u].items[i] \in Item
            BY <5>1, <6>1, LinesAreFinite
          <6> QED
            BY <6>2 DEF Item
        <5> QED
          BY <1>4, <3>1, <5>1, <5>2
      <4> QED
        BY <3>1, <3>2, <3>3, <3>4, <4>2, <4>3 DEF ReadsStand
    <3>5. CASE tx[u].pc \notin CheckoutSteps
      BY <3>1, <3>3, <3>5 DEF ReadsStand
    <3> QED
      BY <3>4, <3>5
  <2> QED
    BY <2>1, <2>2
<1>16. ASSUME NEW e \in Editors PROVE EditStands(e)'
  <2>1. \A a \in Carts : cart[a] # None =>
          cart'[a] # None /\ cart'[a].items = cart[a].items /\ cart'[a].version = cart[a].version
    BY <1>8, <1>9
  <2>2. \A edit \in Edits : edit.c \in Carts
    BY CartAssumption DEF Edit
  <2>3. editor'[e] = editor[e] /\ EditStands(e)
    BY <1>3 DEF ShopInv
  <2> QED
    BY <2>1, <2>2, <2>3 DEF EditStands, EditSteps
<1>17. ASSUME NEW r \in Recoveries PROVE Refilling(r)'
  BY <1>1, <1>3, <1>9 DEF ShopInv, Refilling
<1>18. IsFiniteSet(Orders)'
  BY <1>10, FS_AddElement
<1>19. StockIsKept'
  <2> SUFFICES ASSUME NEW v \in Variants
               PROVE  /\ stock'[v] >= 0
                      /\ stock'[v] + SumFunction([a \in Orders' |-> Quantity(order'[a].lines, v)]) = Stock[v]
    BY DEF StockIsKept
  <2> DEFINE f == [a \in Orders |-> Quantity(order[a].lines, v)]
             g == [a \in Orders' |-> Quantity(order'[a].lines, v)]
             q == Quantity(w.items, v)
  <2>1. stock[v] \in Int /\ stock[v] + SumFunction(f) = Stock[v] /\ Stock[v] \in Nat
    BY RulesAssumption DEF ShopInv, TypeInvariant, StockIsKept
  <2>2. q \in Nat /\ q <= stock[v] /\ stock'[v] = stock[v] - q
    BY <1>3, <1>4
  <2>3. g[c] = q /\ DOMAIN g = DOMAIN f \cup {c} /\ DOMAIN f = Orders
    BY <1>9, <1>10, <1>11
  <2>4. \A a \in DOMAIN f : f[a] = g[a] /\ f[a] \in Nat
    <3>1. ASSUME NEW a \in Orders PROVE Quantity(order[a].lines, v) \in Nat
      BY <1>12, QuantityCounts DEF OrderRow
    <3> QED
      BY <1>10, <1>12, <3>1
  <2> HIDE DEF f, g, q
  <2>5. SumFunction(g) = q + SumFunction(f) /\ SumFunction(f) \in Nat
    BY <1>10, <2>2, <2>3, <2>4, OneOrderMore
  <2>6. stock'[v] >= 0 /\ stock'[v] + SumFunction(g) = Stock[v]
    BY <2>1, <2>2, <2>5
  <2> QED
    BY <2>6 DEF g
<1>20. BudgetIsKept'
  <2>1. CapIsKept'
    BY DEF CheckoutInv
  <2> SUFFICES ASSUME NEW k \in Campaigns
               PROVE  spent'[k] = SumFunction([a \in Orders' |->
                        IF order'[a].campaign = k THEN order'[a].discount ELSE 0])
    BY <2>1 DEF BudgetIsKept
  <2> DEFINE f == [a \in Orders |-> IF order[a].campaign = k THEN order[a].discount ELSE 0]
             g == [a \in Orders' |-> IF order'[a].campaign = k THEN order'[a].discount ELSE 0]
             d == IF w.campaign = k THEN w.discount ELSE 0
  <2>2. spent[k] \in Nat /\ spent[k] = SumFunction(f)
    BY DEF ShopInv, TypeInvariant, BudgetIsKept
  <2>3. d \in Nat /\ spent'[k] = spent[k] + d
    BY <1>3, <1>5, <2>2
  <2>4. g[c] = d /\ DOMAIN g = DOMAIN f \cup {c} /\ DOMAIN f = Orders
    BY <1>9, <1>10, <1>11
  <2>5. \A a \in DOMAIN f : f[a] = g[a] /\ f[a] \in Nat
    <3>1. ASSUME NEW a \in Orders PROVE order[a].discount \in Nat
      BY <1>12 DEF OrderRow
    <3> QED
      BY <1>10, <1>12, <3>1
  <2> HIDE DEF f, g, d
  <2>6. SumFunction(g) = d + SumFunction(f) /\ SumFunction(f) \in Nat
    BY <1>10, <2>3, <2>4, <2>5, OneOrderMore
  <2>7. spent'[k] = SumFunction(g)
    BY <2>2, <2>3, <2>6
  <2> QED
    BY <2>7 DEF g
<1> QED
  BY <1>13, <1>14, <1>15, <1>16, <1>17, <1>18, <1>19, <1>20 DEF ShopInv

------------------------------------------------------------------------------
\* Carts, edits and recoveries.

\* A step of an edit that writes nothing.
LEMMA EditorKeepsShop ==
  ASSUME ShopInv, NEW e \in Editors, NEW w \in Editing,
         editor' = [editor EXCEPT ![e] = w], UNCHANGED <<stock, spent, cart, order, tx, recovery>>,
         EditStands(e)'
  PROVE  ShopInv'
<1>1. TypeInvariant'
  BY DEF ShopInv, TypeInvariant
<1>2. \A a \in Editors \ {e} : editor'[a] = editor[a]
  BY DEF ShopInv, TypeInvariant
<1>3. ASSUME NEW a \in Editors PROVE EditStands(a)'
  <2>1. CASE a = e
    BY <2>1
  <2>2. CASE a # e
    BY <1>2, <2>2 DEF ShopInv, EditStands
  <2> QED
    BY <2>1, <2>2
<1>4. CartsFit'
  BY DEF ShopInv, CartsFit
<1>5. \A t \in Checkouts : ReadsStand(t)' /\ Discounted(t)'
  BY DEF ShopInv, ReadsStand, Reserved, Discounted, Current
<1>6. \A r \in Recoveries : Refilling(r)'
  BY DEF ShopInv, Refilling
<1>7. Orders' = Orders
  BY DEF Orders
<1>8. IsFiniteSet(Orders)' /\ StockIsKept' /\ BudgetIsKept'
  BY <1>7 DEF ShopInv, StockIsKept, BudgetIsKept, CapIsKept
<1> QED
  BY <1>1, <1>3, <1>4, <1>5, <1>6, <1>8 DEF ShopInv

LEMMA EndEditKeepsShop ==
  ASSUME ShopInv, NEW e \in Editors, EndEdit(e, "failed"),
         UNCHANGED <<stock, spent, cart, order, tx, recovery>>
  PROVE  ShopInv'
<1>1. editor' = [editor EXCEPT ![e] = EditEnd("failed")] /\ editor'[e] = EditEnd("failed")
  BY DEF EndEdit, ShopInv, TypeInvariant
<1>2. EditEnd("failed").pc = "failed"
  BY DEF EditEnd
<1>3. EditStands(e)'
  BY <1>1, <1>2 DEF EditStands, EditSteps
<1> QED
  BY <1>1, <1>3, EndsFit, EditorKeepsShop

LEMMA BeginEditKeepsShop ==
  ASSUME ShopInv, NEW e \in Editors, NEW edit \in Edits, BeginEdit(e, edit)
  PROVE  ShopInv'
<1> DEFINE w == [EditEnd(IF edit.kind = "remove" THEN "row" ELSE "variant") EXCEPT !.edit = edit]
<1>1. editor' = [editor EXCEPT ![e] = w] /\ UNCHANGED <<stock, spent, cart, order, tx, recovery>>
  BY DEF BeginEdit
<1>2. \A pc \in EditSteps : EditEnd(pc) \in Editing
  BY DEF EditEnd, Editing
<1>3. w \in Editing
  <2>1. \A u \in Editing : [u EXCEPT !.edit = edit] \in Editing
    BY DEF Editing
  <2> QED
    BY <1>2, <2>1 DEF EditSteps
<1>4. w.edit = edit /\ w.pc \in {"row", "variant"}
  BY DEF EditEnd
<1>5. editor'[e] = w
  BY <1>1 DEF ShopInv, TypeInvariant
<1> HIDE DEF w
<1>6. EditStands(e)'
  BY <1>4, <1>5 DEF EditStands
<1> QED
  BY <1>1, <1>3, <1>6, EditorKeepsShop

LEMMA ReadVariantKeepsShop ==
  ASSUME ShopInv, NEW e \in Editors, ReadVariant(e)
  PROVE  ShopInv'
<1> DEFINE w == [editor[e] EXCEPT !.pc = "row", !.seen = stock[editor[e].edit.v]]
<1>1. UNCHANGED <<stock, spent, cart, order, tx, recovery>> /\ editor[e].pc = "variant"
  BY DEF ReadVariant, EditAt
<1>2. CASE EndEdit(e, "failed")
  BY <1>1, <1>2, EndEditKeepsShop
<1>3. CASE editor' = [editor EXCEPT ![e] = w]
  <2>1. editor[e] \in Editing /\ editor[e].edit \in Edits
    BY <1>1 DEF ShopInv, TypeInvariant, EditStands, EditSteps
  <2>2. stock[editor[e].edit.v] \in Int
    BY <2>1, CartAssumption DEF Edit, ShopInv, TypeInvariant
  <2>3. w \in Editing /\ w.pc = "row" /\ w.edit = editor[e].edit
    BY <2>1, <2>2 DEF Editing, EditSteps
  <2>4. editor'[e] = w
    BY <1>3 DEF ShopInv, TypeInvariant
  <2> HIDE DEF w
  <2>5. EditStands(e)'
    BY <2>1, <2>3, <2>4 DEF EditStands
  <2> QED
    BY <1>1, <1>3, <2>3, <2>5, EditorKeepsShop
<1> QED
  BY <1>2, <1>3 DEF ReadVariant

LEMMA ReadCartRowKeepsShop ==
  ASSUME ShopInv, NEW e \in Editors, ReadCartRow(e)
  PROVE  ShopInv'
<1> DEFINE c == editor[e].edit.c
           w == [editor[e] EXCEPT !.pc = "items", !.version = cart[c].version]
<1>1. UNCHANGED <<stock, spent, cart, order, tx, recovery>> /\ editor[e].pc = "row"
  BY DEF ReadCartRow, EditAt
<1>2. CASE EndEdit(e, "failed")
  BY <1>1, <1>2, EndEditKeepsShop
<1>3. CASE cart[c] # None /\ editor' = [editor EXCEPT ![e] = w]
  <2>1. editor[e] \in Editing /\ editor[e].edit \in Edits
    BY <1>1 DEF ShopInv, TypeInvariant, EditStands, EditSteps
  <2>2. c \in Carts /\ cart[c].version \in Nat
    <3>1. c \in Carts
      BY <2>1, CartAssumption DEF Edit
    <3>2. cart[c] \in CartRow
      BY <1>3, <3>1 DEF ShopInv, TypeInvariant
    <3> QED
      BY <3>1, <3>2 DEF CartRow
  <2>3. w \in Editing /\ w.pc = "items" /\ w.edit = editor[e].edit /\ w.version = cart[c].version
    BY <2>1, <2>2 DEF Editing, EditSteps
  <2>4. editor'[e] = w
    BY <1>3 DEF ShopInv, TypeInvariant
  <2> HIDE DEF w
  <2>5. EditStands(e)'
    BY <1>1, <1>3, <2>1, <2>2, <2>3, <2>4 DEF EditStands
  <2> QED
    BY <1>1, <1>3, <2>3, <2>5, EditorKeepsShop
<1> QED
  BY <1>2, <1>3 DEF ReadCartRow

\* The items are read after the version: at that version or a later one.
LEMMA ReadCartItemsKeepsShop ==
  ASSUME ShopInv, NEW e \in Editors, ReadCartItems(e)
  PROVE  ShopInv'
<1> DEFINE edit == editor[e].edit
           items == cart[edit.c].items
           w == [editor[e] EXCEPT !.pc = "save", !.items = Applied(edit, items)]
<1>1. UNCHANGED <<stock, spent, cart, order, tx, recovery>> /\ editor[e].pc = "items"
  BY DEF ReadCartItems, EditAt
<1>2. CASE EndEdit(e, "failed")
  BY <1>1, <1>2, EndEditKeepsShop
<1>3. CASE ~Refused(edit, items, editor[e].seen) /\ editor' = [editor EXCEPT ![e] = w]
  <2>1. /\ editor[e] \in Editing /\ edit \in Edits /\ edit \in Edit /\ edit.c \in Carts
        /\ cart[edit.c] # None /\ editor[e].version <= cart[edit.c].version
    <3>1. EditStands(e) /\ editor[e] \in Editing
      BY DEF ShopInv, TypeInvariant
    <3> QED
      BY <1>1, <3>1, CartAssumption DEF EditStands, EditSteps, Edit
  <2>2. items \in Seq(Item) /\ OneLineEach(items)
    <3>1. cart[edit.c] \in CartRow
      BY <2>1 DEF ShopInv, TypeInvariant
    <3> QED
      BY <2>1, <3>1 DEF CartRow, ShopInv, CartsFit
  <2>3. edit.kind # "add" => Positions(items, edit.v) # {}
    BY <1>3 DEF Refused
  <2>4. Applied(edit, items) \in Seq(Item) /\ OneLineEach(Applied(edit, items))
    BY <2>1, <2>2, <2>3, AppliedFits
  <2>5. /\ w \in Editing /\ w.pc = "save" /\ w.edit = edit /\ w.version = editor[e].version
        /\ w.items = Applied(edit, items) /\ w.seen = editor[e].seen
    BY <2>1, <2>4 DEF Editing, EditSteps
  <2>6. editor'[e] = w
    BY <1>3 DEF ShopInv, TypeInvariant
  <2> HIDE DEF w
  <2>7. EditStands(e)'
    BY <1>1, <1>3, <2>1, <2>4, <2>5, <2>6 DEF EditStands
  <2> QED
    BY <1>1, <1>3, <2>5, <2>7, EditorKeepsShop
<1> QED
  BY <1>2, <1>3 DEF ReadCartItems

\* A step that writes one cart, which nobody checks out, keeps what the checkouts
\* have read; the cart keeps its status and its version grows.
LEMMA CartKeepsShop ==
  ASSUME CheckoutInv, ShopInv, TypeInvariant', NEW c \in Carts, NEW row \in CartRow,
         cart' = [cart EXCEPT ![c] = row], OneLineEach(row.items),
         cart[c] # None => row.status = cart[c].status,
         \A t \in Checkouts : tx[t].pc \in CheckoutSteps => tx[t].cart # c,
         \A e \in Editors : EditStands(e)', \A r \in Recoveries : Refilling(r)',
         UNCHANGED <<stock, spent, order, tx>>
  PROVE  ShopInv'
<1>1. cart'[c] = row /\ row # None /\ \A a \in Carts \ {c} : cart'[a] = cart[a]
  BY NoneIsNoRow DEF ShopInv, TypeInvariant
<1>2. CartsFit'
  BY <1>1 DEF ShopInv, CartsFit
<1>3. ASSUME NEW t \in Checkouts PROVE ReadsStand(t)' /\ Discounted(t)'
  <2>1. tx'[t] = tx[t] /\ Reserved(t)' = Reserved(t) /\ ReadsStand(t) /\ Discounted(t)
    BY DEF ShopInv, Reserved
  <2>2. tx[t].pc \in CheckoutSteps => cart'[tx[t].cart] = cart[tx[t].cart]
    BY <1>1 DEF CheckoutInv, CheckedOut
  <2> QED
    BY <2>1, <2>2 DEF ReadsStand, Discounted, Current
<1>4. Orders' = Orders
  BY DEF Orders
<1>5. IsFiniteSet(Orders)' /\ StockIsKept' /\ BudgetIsKept'
  BY <1>4 DEF ShopInv, StockIsKept, BudgetIsKept, CapIsKept
<1> QED
  BY <1>2, <1>3, <1>5 DEF ShopInv

\* An edit worked out from an older version is not saved at a newer one.
LEMMA OtherEditsStand ==
  ASSUME ShopInv, NEW e \in Editors, NEW c \in Carts, NEW row \in CartRow,
         cart' = [cart EXCEPT ![c] = row], cart[c] # None => row.version > cart[c].version,
         editor'[e] = editor[e]
  PROVE  EditStands(e)'
<1>1. cart'[c] = row /\ row # None /\ \A a \in Carts \ {c} : cart'[a] = cart[a]
  BY NoneIsNoRow DEF ShopInv, TypeInvariant
<1>2. EditStands(e) /\ editor[e] \in Editing
  BY DEF ShopInv, TypeInvariant
<1>3. editor[e].pc \in EditSteps => editor[e].edit.c \in Carts
  BY <1>2, CartAssumption DEF EditStands, Edit
<1>4. CASE editor[e].edit.c = c /\ editor[e].pc \in {"items", "save"}
  <2>1. cart[c] # None /\ cart[c] \in CartRow /\ editor[e].version <= cart[c].version
    BY <1>2, <1>4 DEF EditStands, ShopInv, TypeInvariant
  <2>2. cart[c].version \in Nat /\ row.version \in Nat /\ editor[e].version \in Nat
    BY <1>2, <2>1 DEF CartRow, Editing
  <2>3. editor[e].version <= row.version /\ editor[e].version # row.version
    BY <2>1, <2>2
  <2> QED
    BY <1>1, <1>2, <1>4, <2>3 DEF EditStands
<1>5. CASE editor[e].edit.c # c \/ editor[e].pc \notin {"items", "save"}
  BY <1>1, <1>2, <1>3, <1>5 DEF EditStands, EditSteps
<1> QED
  BY <1>4, <1>5

LEMMA CreateCartKeepsShop ==
  ASSUME CheckoutInv, ShopInv, NEW c \in Carts, CreateCart(c)
  PROVE  ShopInv'
<1>1. /\ cart' = [cart EXCEPT ![c] = NewCart(<<>>)] /\ cart[c] = None
      /\ UNCHANGED <<stock, spent, order, tx, editor, recovery>>
  BY DEF CreateCart
<1>2. NewCart(<<>>) \in CartRow /\ OneLineEach(NewCart(<<>>).items)
  <2>1. <<>> \in Seq(Item) /\ OneLineEach(<<>>)
    BY DEF OneLineEach
  <2> QED
    BY <2>1, NewCartFits
<1>3. TypeInvariant'
  BY <1>1, <1>2 DEF ShopInv, TypeInvariant
<1>4. \A t \in Checkouts : tx[t].pc \in CheckoutSteps => tx[t].cart # c
  BY <1>1 DEF CheckoutInv, CheckedOut
<1>5. \A e \in Editors : EditStands(e)'
  BY <1>1, <1>2, OtherEditsStand
<1>6. \A a \in Carts \ {c} : cart'[a] = cart[a]
  BY <1>1 DEF ShopInv, TypeInvariant
<1>7. \A r \in Recoveries : Refilling(r)'
  BY <1>1, <1>6 DEF ShopInv, Refilling
<1> HIDE DEF NewCart
<1> QED
  BY <1>1, <1>2, <1>3, <1>4, <1>5, <1>7, CartKeepsShop

\* The saved items are the edit applied to the cart's, for the version is the cart's.
LEMMA SaveCartKeepsShop ==
  ASSUME CheckoutInv, ShopInv, NEW e \in Editors, SaveCart(e)
  PROVE  ShopInv'
<1> DEFINE w == editor[e]
           c == editor[e].edit.c
<1>1. UNCHANGED <<stock, spent, order, tx, recovery>> /\ w.pc = "save" /\ ~Locked(c)
  BY DEF SaveCart, EditAt
<1>2. /\ w \in Editing /\ w.edit \in Edits /\ c \in Carts /\ cart[c] # None /\ cart[c] \in CartRow
      /\ OneLineEach(w.items)
  <2>1. EditStands(e) /\ w \in Editing
    BY DEF ShopInv, TypeInvariant
  <2>2. w.edit \in Edits /\ c \in Carts /\ cart[c] # None /\ OneLineEach(w.items)
    BY <1>1, <2>1, CartAssumption DEF EditStands, EditSteps, Edit
  <2> QED
    BY <2>1, <2>2 DEF ShopInv, TypeInvariant
<1>3. CASE EndEdit(e, "failed") /\ UNCHANGED cart
  BY <1>1, <1>3, EndEditKeepsShop
<1>4. CASE editor' = [editor EXCEPT ![e].pc = "row", ![e].tries = @ + 1] /\ UNCHANGED cart
  <2> DEFINE tries == w.tries + 1
             u == [w EXCEPT !.pc = "row", !.tries = tries]
  <2>1. editor' = [editor EXCEPT ![e] = u]
    BY <1>4
  <2>2. u \in Editing /\ u.pc = "row" /\ u.edit = w.edit
    <3>1. tries \in Nat
      BY <1>2 DEF Editing
    <3> HIDE DEF tries
    <3> QED
      BY <1>2, <3>1 DEF Editing, EditSteps
  <2>3. editor'[e] = u
    BY <2>1 DEF ShopInv, TypeInvariant
  <2> HIDE DEF u
  <2>4. EditStands(e)'
    BY <1>2, <2>2, <2>3 DEF EditStands
  <2> QED
    BY <1>1, <1>4, <2>1, <2>2, <2>4, EditorKeepsShop
<1>5. CASE Save(e)
  <2> DEFINE version == cart[c].version + 1
             row == [cart[c] EXCEPT !.items = w.items, !.subtotal = Total(w.items), !.version = version]
  <2>1. cart' = [cart EXCEPT ![c] = row] /\ editor' = [editor EXCEPT ![e] = EditEnd("saved")]
    BY <1>5 DEF Save, EndEdit
  <2>2. w.items \in Seq(Item) /\ Total(w.items) \in Nat
    BY <1>2, TotalCovers DEF Editing
  <2>3. /\ row \in CartRow /\ OneLineEach(row.items) /\ row.status = cart[c].status
        /\ row.version > cart[c].version
    <3>1. version \in Nat /\ version > cart[c].version
      BY <1>2 DEF CartRow
    <3> HIDE DEF version
    <3> QED
      BY <1>2, <2>2, <3>1 DEF CartRow
  <2> HIDE DEF row
  <2>4. TypeInvariant'
    BY <1>1, <2>1, <2>3, EndsFit DEF ShopInv, TypeInvariant
  <2>5. \A t \in Checkouts : tx[t].pc \in CheckoutSteps => tx[t].cart # c
    BY <1>1 DEF CheckoutInv, CheckedOut, Locked
  <2>6. ASSUME NEW a \in Editors PROVE EditStands(a)'
    <3>1. CASE a = e
      <4>1. editor'[e].pc = "saved"
        BY <2>1 DEF ShopInv, TypeInvariant, EditEnd
      <4> QED
        BY <3>1, <4>1 DEF EditStands, EditSteps
    <3>2. CASE a # e
      <4>1. editor'[a] = editor[a]
        BY <2>1, <3>2 DEF ShopInv, TypeInvariant
      <4> QED
        BY <1>2, <2>1, <2>3, <4>1, OtherEditsStand
    <3> QED
      BY <3>1, <3>2
  <2>7. \A r \in Recoveries : Refilling(r)'
    <3>1. cart'[c] = row /\ row # None /\ \A a \in Carts \ {c} : cart'[a] = cart[a]
      BY <1>2, <2>1, <2>3, NoneIsNoRow DEF ShopInv, TypeInvariant
    <3> QED
      BY <1>1, <1>2, <2>3, <3>1 DEF ShopInv, Refilling
  <2> QED
    BY <1>1, <1>2, <2>1, <2>3, <2>4, <2>5, <2>6, <2>7, CartKeepsShop
<1> QED
  BY <1>3, <1>4, <1>5 DEF SaveCart

Todos == [pc : {"idle", "fill", "checkout", "failed"}, cart : Carts \cup {None}, todo : Seq(Item)]

LEMMA BeginRecoveryKeepsShop ==
  ASSUME CheckoutInv, ShopInv, NEW r \in Recoveries, NEW old \in Carts, NEW v \in Variants,
         NEW c \in Carts, BeginRecovery(r, old, v, c)
  PROVE  ShopInv'
<1> DEFINE lines == order[old].lines
           remaining == Without(lines, v)
<1>1. /\ cart' = [cart EXCEPT ![c] = NewCart(<<>>)] /\ cart[c] = None
      /\ order[old] # None /\ Positions(lines, v) # {}
      /\ UNCHANGED <<stock, spent, order, tx, editor>>
  BY DEF BeginRecovery
<1>2. lines \in Seq(Item)
  <2>1. order[old] \in OrderRow
    BY <1>1 DEF ShopInv, TypeInvariant
  <2> QED
    BY <2>1 DEF OrderRow
<1>3. remaining \in Seq(Item) /\ Len(remaining) = Len(lines) - 1
  BY <1>1, <1>2, WithoutFits
<1>4. PICK more \in {<<>>} \cup {<<[v |-> w, qty |-> 1]>> : w \in Substitutes} :
        /\ more = <<>> => Len(lines) > 1
        /\ recovery' = [recovery EXCEPT ![r] = NewRecovery("fill", c, remaining \o more)]
  BY DEF BeginRecovery
<1> HIDE DEF remaining
<1> DEFINE todo == remaining \o more
<1>5. todo \in Seq(Item) /\ todo # <<>>
  <2>1. CASE more = <<>>
    <3>1. todo = remaining
      BY <1>3, <2>1, ConcatEmptySeq
    <3>2. Len(remaining) > 0
      BY <1>2, <1>3, <1>4, <2>1
    <3> QED
      BY <1>3, <3>1, <3>2
  <2>2. ASSUME NEW w \in Substitutes, more = <<[v |-> w, qty |-> 1]>> PROVE todo \in Seq(Item) /\ todo # <<>>
    <3>1. [v |-> w, qty |-> 1] \in Item
      BY CartAssumption DEF Item
    <3>2. more \in Seq(Item) /\ Len(more) = 1
      BY <2>2, <3>1
    <3>3. todo \in Seq(Item) /\ Len(todo) = Len(remaining) + Len(more)
      BY <1>3, <3>2, ConcatProperties
    <3>4. Len(todo) > 0
      BY <1>3, <3>2, <3>3
    <3> QED
      BY <3>3, <3>4
  <2> QED
    BY <2>1, <2>2
<1> HIDE DEF todo
<1>6. /\ NewRecovery("fill", c, todo) \in Todos /\ NewRecovery("fill", c, todo).pc = "fill"
      /\ NewRecovery("fill", c, todo).cart = c /\ NewRecovery("fill", c, todo).todo = todo
  BY <1>5 DEF NewRecovery, Todos
<1>7. /\ NewCart(<<>>) \in CartRow /\ OneLineEach(NewCart(<<>>).items)
      /\ NewCart(<<>>).status = "active" /\ NewCart(<<>>) # None
  <2>1. <<>> \in Seq(Item) /\ OneLineEach(<<>>)
    BY DEF OneLineEach
  <2> QED
    BY <2>1, NewCartFits
<1>8. recovery' = [recovery EXCEPT ![r] = NewRecovery("fill", c, todo)]
  BY <1>4 DEF todo
<1> HIDE DEF NewRecovery, NewCart
<1>9. TypeInvariant'
  BY <1>1, <1>6, <1>7, <1>8 DEF ShopInv, TypeInvariant, Todos
<1>10. \A t \in Checkouts : tx[t].pc \in CheckoutSteps => tx[t].cart # c
  BY <1>1 DEF CheckoutInv, CheckedOut
<1>11. \A e \in Editors : EditStands(e)'
  BY <1>1, <1>7, OtherEditsStand
<1>12. ASSUME NEW a \in Recoveries PROVE Refilling(a)'
  <2>1. /\ cart'[c] = NewCart(<<>>) /\ \A x \in Carts \ {c} : cart'[x] = cart[x]
        /\ recovery'[r] = NewRecovery("fill", c, todo)
        /\ \A x \in Recoveries \ {r} : recovery'[x] = recovery[x]
    BY <1>1, <1>8 DEF ShopInv, TypeInvariant
  <2> QED
    BY <1>1, <1>5, <1>6, <1>7, <2>1 DEF ShopInv, Refilling
<1> QED
  BY <1>1, <1>7, <1>9, <1>10, <1>11, <1>12, CartKeepsShop

\* A step of a recovery that writes nothing.
LEMMA RecoveryKeepsShop ==
  ASSUME ShopInv, TypeInvariant', \A r \in Recoveries : Refilling(r)',
         UNCHANGED <<stock, spent, cart, order, tx, editor>>
  PROVE  ShopInv'
<1>1. CartsFit'
  BY DEF ShopInv, CartsFit
<1>2. \A e \in Editors : EditStands(e)'
  BY DEF ShopInv, EditStands
<1>3. \A t \in Checkouts : ReadsStand(t)' /\ Discounted(t)'
  BY DEF ShopInv, ReadsStand, Reserved, Discounted, Current
<1>4. Orders' = Orders
  BY DEF Orders
<1>5. IsFiniteSet(Orders)' /\ StockIsKept' /\ BudgetIsKept'
  BY <1>4 DEF ShopInv, StockIsKept, BudgetIsKept, CapIsKept
<1> QED
  BY <1>1, <1>2, <1>3, <1>5 DEF ShopInv

LEMMA RefillCartKeepsShop ==
  ASSUME CheckoutInv, ShopInv, NEW r \in Recoveries, RefillCart(r)
  PROVE  ShopInv'
<1> DEFINE w == recovery[r]
           c == w.cart
           add == [kind |-> "add", c |-> c, v |-> Head(w.todo).v, qty |-> Head(w.todo).qty]
           items == cart[c].items
           how == IF Len(w.todo) = 1 THEN "checkout" ELSE "fill"
           new == NewRecovery(how, c, Tail(w.todo))
           row == [NewCart(Applied(add, items)) EXCEPT !.version = cart[c].version + 1]
<1>1. UNCHANGED <<stock, spent, order, tx, editor>> /\ w.pc = "fill"
  BY DEF RefillCart
<1>2. /\ w \in Todos /\ c \in Carts /\ cart[c] # None /\ cart[c] \in CartRow
      /\ cart[c].status = "active" /\ w.todo # <<>> /\ w.todo \in Seq(Item)
  <2>1. w \in Todos /\ Refilling(r)
    BY DEF ShopInv, TypeInvariant, Todos
  <2> QED
    BY <1>1, <2>1 DEF Refilling, Todos, ShopInv, TypeInvariant
<1>3. \A t \in Checkouts : tx[t].pc \in CheckoutSteps => tx[t].cart # c
  BY <1>1 DEF CheckoutInv, CheckedOut
<1>4. CASE recovery' = [recovery EXCEPT ![r].pc = "failed"] /\ UNCHANGED cart
  <2>1. /\ [w EXCEPT !.pc = "failed"] \in Todos
        /\ recovery' = [recovery EXCEPT ![r] = [w EXCEPT !.pc = "failed"]]
    BY <1>2, <1>4 DEF Todos
  <2>2. TypeInvariant'
    BY <1>1, <1>4, <2>1 DEF ShopInv, TypeInvariant, Todos
  <2>3. \A a \in Recoveries : Refilling(a)'
    BY <1>2, <1>4 DEF ShopInv, TypeInvariant, Refilling, Todos
  <2> QED
    BY <1>1, <1>4, <2>2, <2>3, RecoveryKeepsShop
<1>5. CASE recovery' = [recovery EXCEPT ![r] = new] /\ cart' = [cart EXCEPT ![c] = row]
  <2>1. add \in Edit /\ add.kind = "add"
    <3>1. Head(w.todo) \in Item
      BY <1>2
    <3> QED
      BY <1>2, <3>1 DEF Edit, Item
  <2>2. items \in Seq(Item) /\ OneLineEach(items)
    BY <1>2 DEF CartRow, ShopInv, CartsFit
  <2> HIDE DEF add
  <2>3. Applied(add, items) \in Seq(Item) /\ OneLineEach(Applied(add, items))
    BY <2>1, <2>2, AppliedFits
  <2> HIDE DEF items
  <2>4. /\ row \in CartRow /\ OneLineEach(row.items) /\ row.status = "active"
        /\ row.version > cart[c].version
    <3>1. /\ NewCart(Applied(add, items)) \in CartRow
          /\ NewCart(Applied(add, items)).items = Applied(add, items)
          /\ NewCart(Applied(add, items)).status = "active"
      BY <2>3, NewCartFits
    <3>2. cart[c].version \in Nat
      BY <1>2 DEF CartRow
    <3> HIDE DEF NewCart
    <3> QED
      BY <2>3, <3>1, <3>2 DEF CartRow
  <2>5. new \in Todos /\ new.cart = c /\ (new.pc = "fill" => new.todo # <<>>)
    <3>1. Tail(w.todo) \in Seq(Item) /\ Len(Tail(w.todo)) = Len(w.todo) - 1 /\ Len(w.todo) \in Nat
      BY <1>2
    <3>2. how = "fill" => Len(Tail(w.todo)) # 0
      BY <1>2, <3>1
    <3>3. how = "fill" => Tail(w.todo) # <<>>
      BY <3>2
    <3>4. how \in {"checkout", "fill"}
      OBVIOUS
    <3> DEFINE tail == Tail(w.todo)
    <3> HIDE DEF how, tail
    <3>5. NewRecovery(how, c, tail) \in Todos
      BY <1>2, <3>1, <3>4 DEF NewRecovery, Todos, tail
    <3>6. new.cart = c /\ new.pc = how /\ new.todo = tail
      BY DEF NewRecovery, tail
    <3> QED
      BY <3>3, <3>5, <3>6 DEF tail
  <2> HIDE DEF row, new
  <2>6. TypeInvariant'
    BY <1>1, <1>5, <2>4, <2>5 DEF ShopInv, TypeInvariant, Todos
  <2>7. \A e \in Editors : EditStands(e)'
    BY <1>1, <1>2, <1>5, <2>4, OtherEditsStand
  <2>8. ASSUME NEW a \in Recoveries PROVE Refilling(a)'
    <3>1. /\ cart'[c] = row /\ row # None /\ \A x \in Carts \ {c} : cart'[x] = cart[x]
          /\ recovery'[r] = new /\ \A x \in Recoveries \ {r} : recovery'[x] = recovery[x]
      BY <1>2, <1>5, <2>4, NoneIsNoRow DEF ShopInv, TypeInvariant
    <3> QED
      BY <1>2, <2>4, <2>5, <3>1 DEF ShopInv, Refilling
  <2> QED
    BY <1>1, <1>2, <1>3, <1>5, <2>4, <2>6, <2>7, <2>8, CartKeepsShop
<1> QED
  BY <1>4, <1>5 DEF RefillCart

------------------------------------------------------------------------------
\* Every state and every step.

LEMMA ShopStepKeeps ==
  ASSUME CheckoutInv, CheckoutInv', ShopInv, [Next]_vars
  PROVE  ShopInv'
<1>1. ASSUME NEW c \in Carts, CreateCart(c) PROVE ShopInv'
  BY <1>1, CreateCartKeepsShop
<1>2. ASSUME NEW e \in Editors,
             (\E edit \in Edits : BeginEdit(e, edit)) \/ EditStep(e) \/ BreakEdit(e)
      PROVE  ShopInv'
  <2>1. CASE \E edit \in Edits : BeginEdit(e, edit)
    BY <2>1, BeginEditKeepsShop
  <2>2. CASE EditStep(e)
    BY <2>2, ReadVariantKeepsShop, ReadCartRowKeepsShop, ReadCartItemsKeepsShop, SaveCartKeepsShop
       DEF EditStep
  <2>3. CASE BreakEdit(e)
    BY <2>3, EndEditKeepsShop DEF BreakEdit
  <2> QED
    BY <1>2, <2>1, <2>2, <2>3
<1>3. ASSUME NEW t \in Checkouts,
             (\E c \in Carts \ Hidden : LockCart(t, c)) \/ CheckoutStep(t) \/ BreakCheckout(t)
      PROVE  ShopInv'
  <2>1. CASE \E c \in Carts \ Hidden : LockCart(t, c)
    BY <2>1, LockCartKeepsShop
  <2>2. CASE LoadItems(t) \/ FindCampaign(t) \/ SpendBudget(t)
    BY <2>2, LoadItemsKeepsShop, FindCampaignKeepsShop, SpendBudgetKeepsShop
  <2>3. CASE ReserveVariant(t) \/ TouchProduct(t) \/ PlaceOrder(t)
    BY <2>3, ReserveVariantKeepsShop, TouchProductKeepsShop, PlaceOrderKeepsShop
  <2>4. CASE DeadlockVictim(t) \/ BreakCheckout(t)
    BY <2>4, AbortKeepsShop DEF DeadlockVictim, BreakCheckout
  <2> QED
    BY <1>3, <2>1, <2>2, <2>3, <2>4 DEF CheckoutStep
<1>4. ASSUME NEW r \in Recoveries,
             \/ RefillCart(r) \/ BreakRecovery(r)
             \/ \E old, c \in Carts, v \in Variants : BeginRecovery(r, old, v, c)
      PROVE  ShopInv'
  <2>1. CASE BreakRecovery(r)
    <3>1. /\ UNCHANGED <<stock, spent, cart, order, tx, editor>>
          /\ recovery' = [recovery EXCEPT ![r] = [recovery[r] EXCEPT !.pc = "failed"]]
      BY <2>1 DEF BreakRecovery
    <3>2. recovery[r] \in Todos
      BY DEF ShopInv, TypeInvariant, Todos
    <3>3. [recovery[r] EXCEPT !.pc = "failed"] \in Todos
      BY <3>2 DEF Todos
    <3>4. TypeInvariant'
      BY <3>1, <3>3 DEF ShopInv, TypeInvariant, Todos
    <3>5. ASSUME NEW a \in Recoveries PROVE Refilling(a)'
      <4>1. a # r => recovery'[a] = recovery[a]
        BY <3>1 DEF ShopInv, TypeInvariant
      <4>2. a = r => recovery'[a].pc = "failed"
        BY <3>1, <3>2 DEF ShopInv, TypeInvariant, Todos
      <4> QED
        BY <3>1, <4>1, <4>2 DEF ShopInv, Refilling
    <3> QED
      BY <3>1, <3>4, <3>5, RecoveryKeepsShop
  <2>2. CASE RefillCart(r)
    BY <2>2, RefillCartKeepsShop
  <2>3. CASE \E old, c \in Carts, v \in Variants : BeginRecovery(r, old, v, c)
    BY <2>3, BeginRecoveryKeepsShop
  <2> QED
    BY <1>4, <2>1, <2>2, <2>3
<1>5. CASE UNCHANGED vars
  <2>1. UNCHANGED <<stock, spent, cart, order, tx, editor, recovery>>
    BY <1>5 DEF vars
  <2>2. TypeInvariant' /\ \A r \in Recoveries : Refilling(r)'
    BY <2>1 DEF ShopInv, TypeInvariant, Refilling
  <2> QED
    BY <2>1, <2>2, RecoveryKeepsShop
<1> QED
  BY <1>1, <1>2, <1>3, <1>4, <1>5 DEF Next

\* ShopInv holds in every state.
THEOREM ShopInvariant == Spec => []ShopInv
<1>1. Init => ShopInv
  BY ShopInitInv
<1>2. CheckoutInv /\ CheckoutInv' /\ ShopInv /\ [Next]_vars => ShopInv'
  BY ShopStepKeeps
<1> QED
  BY <1>1, <1>2, CheckoutInvariant, PTL DEF Spec

\* Rows and requests have the values their columns and structures allow; an order's
\* subtotal, above all, is never negative.
THEOREM CheckoutTypes == Spec => []TypeInvariant
<1>1. ShopInv => TypeInvariant
  BY DEF ShopInv
<1> QED
  BY <1>1, ShopInvariant, PTL

\* CheckoutCart's lock of each variant: not a unit of stock is sold twice or made up,
\* for any number of carts, variants and checkouts.
THEOREM StockAlwaysKept == Spec => []StockIsKept
<1>1. ShopInv => StockIsKept
  BY DEF ShopInv
<1> QED
  BY <1>1, ShopInvariant, PTL

\* CheckoutCart's guarded update: each campaign has spent exactly the discounts of its
\* orders, and never more than its cap.
THEOREM BudgetAlwaysKept == Spec => []BudgetIsKept
<1>1. ShopInv => BudgetIsKept
  BY DEF ShopInv
<1> QED
  BY <1>1, ShopInvariant, PTL

\* SaveCart's version: an edit that is saved changes the cart as it is at that moment,
\* and that cart would not have refused it, however many edits and checkouts were under way since it read it.
THEOREM NoEditEverLost == Spec => NoEditIsLost
<1>1. ShopInv /\ [Next]_vars =>
        [\A e \in Editors : EditAt(e, "save") /\ editor'[e].pc = "saved" =>
           LET edit == editor[e].edit
           IN  /\ ~Refused(edit, cart[edit.c].items, editor[e].seen)
               /\ cart'[edit.c].items = Applied(edit, cart[edit.c].items)]_vars
  <2> SUFFICES ASSUME ShopInv, Next, NEW e \in Editors,
                      EditAt(e, "save"), editor'[e].pc = "saved"
               PROVE  LET edit == editor[e].edit
                      IN  /\ ~Refused(edit, cart[edit.c].items, editor[e].seen)
                          /\ cart'[edit.c].items = Applied(edit, cart[edit.c].items)
    OBVIOUS
  <2>1. editor[e].pc = "save" /\ editor' # editor
    BY DEF EditAt
  <2>2. PICK a \in Editors : (\E edit \in Edits : BeginEdit(a, edit)) \/ EditStep(a) \/ BreakEdit(a)
    <3>1. \A c \in Carts : ~CreateCart(c)
      BY <2>1 DEF CreateCart
    <3>2. \A t \in Checkouts, c \in Carts : ~LockCart(t, c)
      BY <2>1 DEF LockCart
    <3>3. \A t \in Checkouts : ~CheckoutStep(t) /\ ~BreakCheckout(t)
      BY <2>1 DEF CheckoutStep, LoadItems, FindCampaign, SpendBudget, ReserveVariant,
                  TouchProduct, PlaceOrder, DeadlockVictim, BreakCheckout
    <3>4. \A r \in Recoveries : ~RefillCart(r) /\ ~BreakRecovery(r)
      BY <2>1 DEF RefillCart, BreakRecovery
    <3>5. \A r \in Recoveries, old, c \in Carts, v \in Variants : ~BeginRecovery(r, old, v, c)
      BY <2>1 DEF BeginRecovery
    <3>6. ~UNCHANGED vars
      BY <2>1 DEF vars
    <3> QED
      BY <3>1, <3>2, <3>3, <3>4, <3>5, <3>6 DEF Next
  <2>3. editor \in [Editors -> Editing]
    BY DEF ShopInv, TypeInvariant
  <2>4. a = e
    <3> SUFFICES ASSUME a # e PROVE editor'[e] = editor[e]
      BY <2>1
    <3> QED
      BY <2>2, <2>3 DEF BeginEdit, EditStep, BreakEdit, ReadVariant, ReadCartRow, ReadCartItems,
                        SaveCart, Save, EndEdit
  <2>5. ~EndEdit(e, "failed")
    <3> SUFFICES ASSUME editor' = [editor EXCEPT ![e] = EditEnd("failed")] PROVE FALSE
      BY DEF EndEdit
    <3>1. editor'[e] = EditEnd("failed") /\ EditEnd("failed").pc = "failed"
      BY <2>3 DEF EditEnd
    <3> QED
      BY <3>1
  <2>6. ~BreakEdit(e)
    BY <2>5 DEF BreakEdit
  <2>7. SaveCart(e)
    BY <2>1, <2>2, <2>4, <2>6 DEF EditStep, BeginEdit, ReadVariant, ReadCartRow, ReadCartItems, EditAt
  <2>8. cart[editor[e].edit.c].version = editor[e].version /\ Save(e)
    <3>1. editor' # [editor EXCEPT ![e].pc = "row", ![e].tries = @ + 1]
      BY <2>3 DEF Editing
    <3> QED
      BY <2>5, <2>7, <3>1 DEF SaveCart
  <2>9. /\ editor[e].edit.c \in Carts /\ cart[editor[e].edit.c] \in CartRow
        /\ ~Refused(editor[e].edit, cart[editor[e].edit.c].items, editor[e].seen)
        /\ editor[e].items = Applied(editor[e].edit, cart[editor[e].edit.c].items)
    <3>1. EditStands(e)
      BY DEF ShopInv
    <3>2. editor[e].edit \in Edit
      BY <2>1, <3>1, CartAssumption DEF EditStands, EditSteps
    <3> QED
      BY <2>1, <2>8, <3>1, <3>2 DEF EditStands, Edit, ShopInv, TypeInvariant
  <2> DEFINE c == editor[e].edit.c
             row == [cart[c] EXCEPT !.items = editor[e].items, !.subtotal = Total(editor[e].items),
                                    !.version = @ + 1]
  <2>10. cart' = [cart EXCEPT ![c] = row]
    BY <2>8 DEF Save
  <2>11. row.items = editor[e].items
    BY <2>9 DEF CartRow
  <2> QED
    BY <2>9, <2>10, <2>11 DEF ShopInv, TypeInvariant
<1> QED
  BY <1>1, ShopInvariant, PTL DEF Spec, NoEditIsLost

------------------------------------------------------------------------------
\* Every statement of every request is one step of ShopPromise, or none.

\* What the promise sees of one cart that was written.
LEMMA ShownAfter ==
  ASSUME ShopInv, NEW c \in Carts, NEW row \in CartRow, cart' = [cart EXCEPT ![c] = row]
  PROVE  Shown' = [Shown EXCEPT ![c] = [status |-> row.status, items |-> row.items]]
<1>1. row # None
  BY NoneIsNoRow
<1>2. \A a \in Carts : cart'[a] = IF a = c THEN row ELSE cart[a]
  BY DEF ShopInv, TypeInvariant
<1> QED
  BY <1>1, <1>2 DEF Shown

LEMMA ShownCart ==
  ASSUME ShopInv, NEW c \in Carts
  PROVE  /\ cart[c] = None => Shown[c] = None
         /\ cart[c] # None =>
              /\ Shown[c] = [status |-> cart[c].status, items |-> cart[c].items]
              /\ Shown[c] # None
<1>1. cart[c] # None => cart[c] \in CartRow
  BY DEF ShopInv, TypeInvariant
<1>2. cart[c] # None =>
        [status |-> cart[c].status, items |-> cart[c].items]
          \in [status : {"active", "checked_out"}, items : Seq(Item)]
  BY <1>1 DEF CartRow
<1> QED
  BY <1>2, NoneIsNoRow DEF Shown

LEMMA NewCartIsOpen ==
  ASSUME ShopInv, NEW c \in Carts, cart[c] = None, cart' = [cart EXCEPT ![c] = NewCart(<<>>)],
         UNCHANGED <<stock, spent, order>>
  PROVE  Shop!Next
<1>1. NewCart(<<>>) \in CartRow /\ NewCart(<<>>).status = "active" /\ NewCart(<<>>).items = <<>>
  <2>1. <<>> \in Seq(Item)
    OBVIOUS
  <2> QED
    BY <2>1, NewCartFits
<1> HIDE DEF NewCart
<1>2. Shown' = [Shown EXCEPT ![c] = [status |-> "active", items |-> <<>>]]
  BY <1>1, ShownAfter
<1>3. Shop!Open(c)
  BY <1>2, ShownCart DEF Shop!Open
<1> QED
  BY <1>3 DEF Shop!Next

\* A cart saved with an edit applied.
LEMMA EditIsChange ==
  ASSUME ShopInv, NEW c \in Carts, cart[c] # None, NEW row \in CartRow,
         cart' = [cart EXCEPT ![c] = row], row.status = cart[c].status,
         NEW edit \in Edit, edit.kind # "add" => Positions(cart[c].items, edit.v) # {},
         row.items = Applied(edit, cart[c].items), UNCHANGED <<stock, spent, order>>
  PROVE  Shop!Next \/ UNCHANGED Shop!vars
<1> DEFINE new == [status |-> row.status, items |-> row.items]
<1>1. Shown' = [Shown EXCEPT ![c] = new]
  BY ShownAfter
<1>2. Shown[c] = [status |-> cart[c].status, items |-> cart[c].items] /\ Shown[c] # None
  BY ShownCart
<1>3. Shown'[c] = new /\ new # None
  <2>1. new \in [status : {"active", "checked_out"}, items : Seq(Item)]
    BY DEF CartRow
  <2>2. DOMAIN Shown = Carts
    BY DEF Shown
  <2> QED
    BY <1>1, <2>1, <2>2, NoneIsNoRow
<1>4. cart[c].items \in Seq(Item) /\ OneLineEach(cart[c].items)
  <2>1. cart[c] \in CartRow
    BY DEF ShopInv, TypeInvariant
  <2> QED
    BY <2>1 DEF CartRow, ShopInv, CartsFit
<1>5. Edited(Shown[c].items, Shown'[c].items)
  BY <1>2, <1>3, <1>4, AppliedIsEdited
<1>6. Shown' = [Shown EXCEPT ![c].items = Shown'[c].items]
  <2>1. [Shown[c] EXCEPT !.items = row.items] = new
    BY <1>2
  <2> QED
    BY <1>1, <1>3, <2>1
<1>7. CASE Shown'[c] = Shown[c]
  <2>1. \A a \in Carts : Shown'[a] = Shown[a]
    BY <1>1, <1>3, <1>7
  <2> QED
    BY <2>1 DEF Shop!vars, Shown
<1>8. CASE Shown'[c] # Shown[c]
  <2>1. Shop!Change(c)
    BY <1>2, <1>3, <1>5, <1>6, <1>8 DEF Shop!Change
  <2> QED
    BY <2>1 DEF Shop!Next
<1> QED
  BY <1>7, <1>8

LEMMA SaveIsChange ==
  ASSUME ShopInv, NEW e \in Editors, SaveCart(e)
  PROVE  Shop!Next \/ UNCHANGED Shop!vars
<1> DEFINE w == editor[e]
           c == editor[e].edit.c
<1>1. UNCHANGED <<stock, spent, order>> /\ w.pc = "save"
  BY DEF SaveCart, EditAt
<1>2. CASE cart[c].version = w.version /\ Save(e)
  <2>1. EditStands(e) /\ w \in Editing
    BY DEF ShopInv, TypeInvariant
  <2>2. /\ w.edit \in Edit /\ c \in Carts /\ cart[c] # None /\ cart[c] \in CartRow
        /\ ~Refused(w.edit, cart[c].items, w.seen) /\ w.items = Applied(w.edit, cart[c].items)
    <3>1. w.edit \in Edit /\ c \in Carts /\ cart[c] # None
      BY <1>1, <2>1, CartAssumption DEF EditStands, EditSteps, Edit
    <3>2. ~Refused(w.edit, cart[c].items, w.seen) /\ w.items = Applied(w.edit, cart[c].items)
      BY <1>1, <1>2, <2>1 DEF EditStands
    <3> QED
      BY <3>1, <3>2 DEF ShopInv, TypeInvariant
  <2> DEFINE version == cart[c].version + 1
             row == [cart[c] EXCEPT !.items = w.items, !.subtotal = Total(w.items), !.version = version]
  <2>3. cart' = [cart EXCEPT ![c] = row]
    BY <1>2 DEF Save
  <2>4. row \in CartRow /\ row.items = w.items /\ row.status = cart[c].status
    <3>1. w.items \in Seq(Item) /\ Total(w.items) \in Nat
      BY <2>1, TotalCovers DEF Editing
    <3>2. version \in Nat
      BY <2>2 DEF CartRow
    <3> HIDE DEF version
    <3> QED
      BY <2>2, <3>1, <3>2 DEF CartRow
  <2> HIDE DEF row
  <2>5. w.edit.kind # "add" => Positions(cart[c].items, w.edit.v) # {}
    BY <2>2 DEF Refused
  <2> QED
    BY <1>1, <2>2, <2>3, <2>4, <2>5, EditIsChange
<1>3. CASE UNCHANGED cart
  BY <1>1, <1>3 DEF Shop!vars, Shown
<1> QED
  BY <1>1, <1>2, <1>3 DEF SaveCart

LEMMA RefillIsChange ==
  ASSUME ShopInv, NEW r \in Recoveries, RefillCart(r)
  PROVE  Shop!Next \/ UNCHANGED Shop!vars
<1> DEFINE w == recovery[r]
           c == w.cart
           add == [kind |-> "add", c |-> c, v |-> Head(w.todo).v, qty |-> Head(w.todo).qty]
           items == cart[c].items
           row == [NewCart(Applied(add, items)) EXCEPT !.version = cart[c].version + 1]
<1>1. UNCHANGED <<stock, spent, order>> /\ w.pc = "fill"
  BY DEF RefillCart
<1>2. CASE cart' = [cart EXCEPT ![c] = row]
  <2>1. /\ c \in Carts /\ cart[c] # None /\ cart[c] \in CartRow
        /\ cart[c].status = "active" /\ w.todo # <<>> /\ w.todo \in Seq(Item)
    <3>1. w \in Todos /\ Refilling(r)
      BY DEF ShopInv, TypeInvariant, Todos
    <3> QED
      BY <1>1, <3>1 DEF Refilling, Todos, ShopInv, TypeInvariant
  <2>2. add \in Edit /\ add.kind = "add"
    <3>1. Head(w.todo) \in Item
      BY <2>1
    <3> QED
      BY <2>1, <3>1 DEF Edit, Item
  <2>3. items \in Seq(Item) /\ OneLineEach(items)
    BY <2>1 DEF CartRow, ShopInv, CartsFit
  <2> HIDE DEF add
  <2>4. Applied(add, items) \in Seq(Item)
    BY <2>2, <2>3, AppliedFits
  <2>5. row \in CartRow /\ row.items = Applied(add, items) /\ row.status = "active"
    <3>1. /\ NewCart(Applied(add, items)) \in CartRow
          /\ NewCart(Applied(add, items)).items = Applied(add, items)
          /\ NewCart(Applied(add, items)).status = "active"
      BY <2>4, NewCartFits
    <3>2. cart[c].version \in Nat
      BY <2>1 DEF CartRow
    <3> HIDE DEF NewCart, items
    <3> QED
      BY <3>1, <3>2 DEF CartRow
  <2> HIDE DEF row
  <2> QED
    BY <1>1, <1>2, <2>1, <2>2, <2>5, EditIsChange
<1>3. CASE UNCHANGED cart
  BY <1>1, <1>3 DEF Shop!vars, Shown
<1> QED
  BY <1>1, <1>2, <1>3 DEF RefillCart

LEMMA PlaceIsSell ==
  ASSUME CheckoutInv, ShopInv, NEW t \in Checkouts, PlaceOrder(t)
  PROVE  Shop!Next
<1> DEFINE w == tx[t]
           c == tx[t].cart
           items == tx[t].items
           k == tx[t].campaign
           d == tx[t].discount
<1>1. w.pc = "place" /\ c \in Carts /\ cart[c] # None /\ w.subtotal = Total(items)
  BY DEF PlaceOrder, TxAt, CheckoutInv, CheckedOut, CheckoutSteps
<1>2. /\ w \in Transaction /\ cart[c] \in CartRow /\ items \in Seq(Item)
      /\ items = cart[c].items /\ cart[c].status = "active" /\ w.next \in DOMAIN items
  BY <1>1, UnderWay DEF CheckoutSteps
<1>3. /\ order' = [order EXCEPT ![c] =
            [lines |-> items, subtotal |-> w.subtotal - d, discount |-> d, campaign |-> k]]
      /\ stock' = [v \in Variants |-> stock[v] - Quantity(items, v)]
      /\ spent' = [j \in Campaigns |-> IF j = k THEN spent[j] + d ELSE spent[j]]
      /\ cart' = [cart EXCEPT ![c] = [cart[c] EXCEPT !.status = "checked_out"]]
  BY DEF PlaceOrder
<1>4. Shown[c] = [status |-> "active", items |-> items] /\ Shown[c] # None
  BY <1>1, <1>2, ShownCart
<1>5. order[c] = None
  BY <1>1, <1>2 DEF ShopInv, CartsFit
<1>6. items # <<>>
  BY <1>2
<1>7. \A v \in Variants : Quantity(items, v) <= stock[v]
  BY <1>1, OrderIsCovered
<1>8. Discounts(items, k, d) /\ k \in Campaigns \cup {None} /\ d \in Nat
  <2>1. Discounts(items, k, d)
    BY <1>1 DEF ShopInv, Discounted
  <2> QED
    BY <1>2, <2>1 DEF Transaction
<1>9. d \in 0 .. Total(items)
  <2>1. Total(items) \in Nat
    BY <1>2, TotalCovers
  <2>2. CASE k = None /\ d = 0
    BY <2>1, <2>2
  <2>3. ASSUME k \in Campaigns, NEW i \in DOMAIN items, d = CandidateDiscount(items[i], k)
        PROVE  d <= Total(items)
    BY <1>2, <2>3, DiscountFits
  <2>4. d <= Total(items)
    BY <1>8, <2>1, <2>2, <2>3 DEF Discounts
  <2> QED
    BY <1>8, <2>1, <2>4
<1>10. k # None => spent[k] + d <= Offer[k].cap
  <2>1. k \in Campaigns => DrawsOn(t, k)
    BY <1>1 DEF DrawsOn
  <2> QED
    BY <1>8, <2>1 DEF CheckoutInv, Budgeted
<1>11. Shown' = [Shown EXCEPT ![c].status = "checked_out"]
  <2> DEFINE row == [cart[c] EXCEPT !.status = "checked_out"]
  <2>1. row \in CartRow /\ row.status = "checked_out" /\ row.items = items
    BY <1>2 DEF CartRow
  <2>2. cart' = [cart EXCEPT ![c] = row]
    BY <1>3
  <2> HIDE DEF row
  <2>3. Shown' = [Shown EXCEPT ![c] = [status |-> "checked_out", items |-> items]]
    BY <1>1, <2>1, <2>2, ShownAfter
  <2>4. [Shown[c] EXCEPT !.status = "checked_out"] = [status |-> "checked_out", items |-> items]
    BY <1>4
  <2> QED
    BY <2>3, <2>4
<1>12. Shown[c].items = items /\ Shown[c].status = "active" /\ order'[c] # None
  <2> DEFINE price == w.subtotal - d
  <2>1. [lines |-> items, subtotal |-> price, discount |-> d, campaign |-> k] \in OrderRow
    <3>1. price \in Nat
      BY <1>1, OrderIsPayable
    <3> HIDE DEF price
    <3> QED
      BY <1>2, <1>8, <3>1 DEF OrderRow
  <2> QED
    BY <1>1, <1>3, <1>4, <2>1, NoneIsNoRow DEF ShopInv, TypeInvariant
<1> HIDE DEF items, k, d
<1>13. Shop!Sell(c)
  BY <1>1, <1>3, <1>4, <1>5, <1>6, <1>7, <1>8, <1>9, <1>10, <1>11, <1>12 DEF Shop!Sell
<1> QED
  BY <1>1, <1>13 DEF Shop!Next

\* Locks, transactions, versions and retries only ever show as whole edits and whole
\* orders: carts and checkouts implement ShopPromise.
THEOREM ShopIsImplemented == Spec => SoldAtOnce
<1>1. Init => Shop!Init
  <2> SUFFICES ASSUME Init PROVE Shop!Init
    OBVIOUS
  <2>1. PICK S \in SUBSET Carts : cart = [c \in Carts |-> IF c \in S THEN NewCart(Filled[c]) ELSE None]
    BY DEF Init
  <2>2. \A c \in Carts : NewCart(Filled[c]) # None /\ NewCart(Filled[c]).items = Filled[c]
                         /\ NewCart(Filled[c]).status = "active"
    BY RulesAssumption, NewCartFits
  <2>3. Shown = [c \in Carts |-> IF c \in S THEN [status |-> "active", items |-> Filled[c]] ELSE None]
    BY <2>1, <2>2 DEF Shown
  <2> QED
    BY <2>3 DEF Init, Shop!Init
<1>2. CheckoutInv /\ ShopInv /\ [Next]_vars => [Shop!Next]_(Shop!vars)
  <2> SUFFICES ASSUME CheckoutInv, ShopInv, [Next]_vars
               PROVE  Shop!Next \/ UNCHANGED Shop!vars
    OBVIOUS
  <2>1. UNCHANGED <<stock, spent, cart, order>> => UNCHANGED Shop!vars
    BY DEF Shop!vars, Shown
  <2>2. ASSUME NEW c \in Carts, CreateCart(c) PROVE Shop!Next
    BY <2>2, NewCartIsOpen DEF CreateCart
  <2>3. ASSUME NEW e \in Editors,
               (\E edit \in Edits : BeginEdit(e, edit)) \/ EditStep(e) \/ BreakEdit(e)
        PROVE  Shop!Next \/ UNCHANGED Shop!vars
    <3>1. SaveCart(e) => Shop!Next \/ UNCHANGED Shop!vars
      BY SaveIsChange
    <3> QED
      BY <2>1, <2>3, <3>1 DEF BeginEdit, EditStep, BreakEdit, ReadVariant, ReadCartRow, ReadCartItems
  <2>4. ASSUME NEW t \in Checkouts,
               (\E c \in Carts \ Hidden : LockCart(t, c)) \/ CheckoutStep(t) \/ BreakCheckout(t)
        PROVE  Shop!Next \/ UNCHANGED Shop!vars
    <3>1. PlaceOrder(t) => Shop!Next
      BY PlaceIsSell
    <3> QED
      BY <2>1, <2>4, <3>1 DEF LockCart, CheckoutStep, LoadItems, FindCampaign, SpendBudget, ReserveVariant,
                        TouchProduct, DeadlockVictim, BreakCheckout
  <2>5. ASSUME NEW r \in Recoveries,
               \/ RefillCart(r) \/ BreakRecovery(r)
               \/ \E old, c \in Carts, v \in Variants : BeginRecovery(r, old, v, c)
        PROVE  Shop!Next \/ UNCHANGED Shop!vars
    <3>1. RefillCart(r) => Shop!Next \/ UNCHANGED Shop!vars
      BY RefillIsChange
    <3>2. \A old, c \in Carts, v \in Variants : BeginRecovery(r, old, v, c) => Shop!Next
      BY NewCartIsOpen DEF BeginRecovery
    <3> QED
      BY <2>1, <2>5, <3>1, <3>2 DEF BreakRecovery
  <2>6. UNCHANGED vars => UNCHANGED <<stock, spent, cart, order>>
    BY DEF vars
  <2> QED
    BY <2>1, <2>2, <2>3, <2>4, <2>5, <2>6 DEF Next
<1> QED
  BY <1>1, <1>2, CheckoutInvariant, ShopInvariant, PTL DEF Spec, SoldAtOnce, Shop!Spec
==============================================================================
