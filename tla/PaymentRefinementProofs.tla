----------------------- MODULE PaymentRefinementProofs -----------------------
(***************************************************************************)
(* Proof that the payment flow implements PaymentPromise: every statement  *)
(* of every handler is one step of the promise, or none.                   *)
(***************************************************************************)
EXTENDS PaymentFlowProofs

\* A step that spends nothing and leaves orders, rows and Razorpay's books alone.
LEMMA QuietIsStutter ==
  ASSUME UNCHANGED <<order, payment, rzp>>, Spent' = Spent
  PROVE  UNCHANGED Promise!vars
BY DEF Promise!vars, Funding, Charged, Stage, HasPayment, Funder, Captured

\* Consuming an authorization spends it.
LEMMA ConsumeIsSpend ==
  ASSUME IInv, NEW c \in Creators, ConsumeAuthorization(c)
  PROVE  Promise!Next
<1>1. call[c].a \in Auths
  BY DEF ConsumeAuthorization, At, IInv, CallInv, CreationSteps
<1> PICK a \in Auths : a = call[c].a
  BY <1>1
<1>2. MarkAuthorizationUsed(a) /\ UNCHANGED <<order, payment, rzp>>
  BY DEF ConsumeAuthorization
<1>3. /\ auth[a] # None /\ auth[a].status = "ACTIVE"
      /\ auth'[a] # None /\ auth'[a].status = "USED"
      /\ \A b \in Auths \ {a} : auth'[b] = auth[b]
  BY ONLY IInv, <1>2, a \in Auths, MarkUsedFacts DEF IInv, TypeInvariant
<1>4. a \notin Spent /\ Spent' = Spent \cup {a}
  BY <1>3 DEF Spent
<1>5. Funding' = Funding /\ Charged' = Charged /\ Stage' = Stage
  BY <1>2 DEF Funding, Charged, Stage, HasPayment, Funder, Captured
<1> QED
  BY <1>4, <1>5 DEF Promise!Next, Promise!Spend

\* Minting an authorization, or its expiry, spends nothing.
LEMMA AuthorizationChangeIsStutter ==
  ASSUME IInv, NEW a \in Auths,
         \/ ExpireAuthorization(a)
         \/ \E cart \in Orders \cup {None}, m \in Amounts, t \in Terms :
              IssueAuthorization(a, cart, m, t)
  PROVE  UNCHANGED Promise!vars
<1>1. UNCHANGED <<order, payment, rzp>>
  BY DEF ExpireAuthorization, IssueAuthorization
<1>2. /\ auth' \in [Auths -> Authorization \cup {None}]
      /\ \A b \in Auths : auth[b] # None => auth'[b] # None /\ auth'[b].status = auth[b].status
      /\ \A b \in Auths : auth[b] = None /\ auth'[b] # None => auth'[b].status = "ACTIVE"
  <2>1. CASE ExpireAuthorization(a)
    <3> DEFINE new == [auth[a] EXCEPT !.live = FALSE]
    <3>1. auth[a] \in Authorization
      BY <2>1 DEF ExpireAuthorization, IInv, TypeInvariant, StoreTypeOK
    <3>2. new \in Authorization /\ new.status = auth[a].status /\ new # None
      <4>1. new \in Authorization /\ new.status = auth[a].status
        BY <3>1 DEF Authorization
      <4> HIDE DEF new
      <4> QED
        BY <4>1, StoreAssumption
    <3>3. auth' = [auth EXCEPT ![a] = new]
      BY <2>1 DEF ExpireAuthorization
    <3> HIDE DEF new
    <3> QED
      BY <3>2, <3>3, <2>1 DEF ExpireAuthorization, IInv, TypeInvariant, StoreTypeOK
  <2>2. ASSUME NEW cart \in Orders \cup {None}, NEW m \in Amounts, NEW t \in Terms,
               IssueAuthorization(a, cart, m, t)
        PROVE  /\ auth' \in [Auths -> Authorization \cup {None}]
               /\ \A b \in Auths : auth[b] # None =>
                    auth'[b] # None /\ auth'[b].status = auth[b].status
               /\ \A b \in Auths : auth[b] = None /\ auth'[b] # None =>
                    auth'[b].status = "ACTIVE"
    <3> DEFINE new == [status |-> "ACTIVE", live |-> TRUE, cart |-> cart, amount |-> m, terms |-> t]
    <3>1. new \in Authorization /\ new.status = "ACTIVE"
      BY DEF Authorization
    <3>2. auth' = [auth EXCEPT ![a] = new] /\ auth[a] = None
      BY <2>2 DEF IssueAuthorization
    <3> HIDE DEF new
    <3> QED
      BY <3>1, <3>2 DEF IInv, TypeInvariant, StoreTypeOK
  <2> QED
    BY <2>1, <2>2
<1>3. Spent' = Spent
  BY <1>2 DEF Spent
<1> QED
  BY <1>1, <1>3, QuietIsStutter

\* A Razorpay order nobody paid on yet changes nothing that is promised.
LEMMA ProviderCallIsStutter ==
  ASSUME IInv, NEW c \in Creators, CallProvider(c)
  PROVE  UNCHANGED Promise!vars
<1>0. call[c].o \in Orders /\ call[c].a \in Auths
  BY DEF CallProvider, At, IInv, CallInv, CreationSteps
<1> PICK r \in RzpOrders :
      /\ rzp[r] = None
      /\ rzp' = [rzp EXCEPT ![r] =
           [receipt |-> call[c].o, by |-> call[c].a, declined |-> FALSE, captured |-> FALSE]]
  BY DEF CallProvider
<1>1. UNCHANGED <<auth, order, payment>>
  BY DEF CallProvider
<1>2. ~rzp'[r].captured /\ \A s \in RzpOrders \ {r} : rzp'[s] = rzp[s]
  BY DEF IInv, TypeInvariant, StoreTypeOK
<1>3. \A o \in Orders : HasPayment(o) => payment[o].r \in RzpOrders \ {r}
  BY DEF IInv, TypeInvariant, StoreTypeOK, PaymentRow, HasPayment, StoreInv, RowInv
<1>4. Spent' = Spent /\ Stage' = Stage
  BY <1>1 DEF Spent, Stage, HasPayment, Captured
<1>5. Charged' = Charged
  BY <1>2 DEF Charged
<1>6. Funding' = Funding
  BY <1>1, <1>2, <1>3 DEF Funding, HasPayment, Funder
<1> QED
  BY <1>4, <1>5, <1>6 DEF Promise!vars

\* The INSERT that wins funds the order.
LEMMA InsertIsFund ==
  ASSUME IInv, NEW c \in Creators, InsertRow(c)
  PROVE  Promise!Next
<1>1. /\ call[c].o \in Orders /\ call[c].r \in RzpOrders /\ call[c].a \in Auths
      /\ call[c].k \in Keys
      /\ rzp[call[c].r] # None /\ rzp[call[c].r].receipt = call[c].o
      /\ rzp[call[c].r].by = call[c].a
      /\ InsertPayment(call[c].o, call[c].r, call[c].k)
      /\ UNCHANGED <<auth, order, rzp>>
  BY CreationAssumption DEF InsertRow, At, IInv, CallInv, CreationSteps
<1> PICK o \in Orders, r \in RzpOrders, k \in Keys, a \in Auths :
      o = call[c].o /\ r = call[c].r /\ k = call[c].k /\ a = call[c].a
  BY <1>1
<1>2. /\ payment[o] = None /\ payment'[o] # None
      /\ payment'[o].status = "pending" /\ payment'[o].r = r
      /\ \A p \in Orders \ {o} : payment'[p] = payment[p]
  <2>1. InsertPayment(o, r, k) /\ StoreTypeOK
    BY <1>1 DEF IInv, TypeInvariant
  <2> QED
    BY ONLY <2>1, o \in Orders, r \in RzpOrders, k \in Keys, InsertPaymentFacts
<1>3. rzp[r] # None /\ rzp[r].receipt = o /\ rzp[r].by = a
  BY <1>1
<1>4. Funding[o] = None /\ Funding' = [Funding EXCEPT ![o] = a]
  BY <1>1, <1>2, <1>3 DEF Funding, HasPayment, Funder
<1>5. a \in Spent
  BY <1>3 DEF Spent, IInv, StoreInv, RzpInv
<1>6. \A p \in Orders : Funding[p] # a
  <2> SUFFICES ASSUME NEW p \in Orders, HasPayment(p), rzp[payment[p].r].by = a
               PROVE  FALSE
    BY StoreAssumption DEF Funding, Funder
  <2>1. payment[p].r \in RzpOrders /\ rzp[payment[p].r] # None /\ rzp[payment[p].r].receipt = p
    BY DEF IInv, TypeInvariant, StoreTypeOK, PaymentRow, HasPayment, StoreInv, RowInv
  <2>2. payment[p].r = r
    BY <1>3, <2>1 DEF IInv, StoreInv, OneAuthorizationOneRzpOrder
  <2> QED
    BY <1>2, <1>3, <2>1, <2>2 DEF HasPayment
<1>7. Spent' = Spent /\ Charged' = Charged
  BY <1>1 DEF Spent, Charged
<1>8. Stage' = Stage
  BY <1>1, <1>2 DEF Stage, HasPayment, Captured
<1> QED
  BY <1>4, <1>5, <1>6, <1>7, <1>8 DEF Promise!Next, Promise!Fund

\* A captured payment charges the order; a declined one charges nobody.
LEMMA PaymentIsCharge ==
  ASSUME IInv, NEW r \in RzpOrders,
         PayDeclined(r) \/ \E exact \in Reports : PayCaptured(r, exact)
  PROVE  Promise!Next \/ UNCHANGED Promise!vars
<1>1. /\ rzp[r] # None /\ ~rzp[r].captured /\ rzp[r] \in RzpRecord
      /\ UNCHANGED <<auth, order, payment>>
  BY DEF PayDeclined, PayCaptured, IInv, TypeInvariant, StoreTypeOK
<1>2. HasPayment(rzp[r].receipt) /\ payment[rzp[r].receipt].r = r
  <2>1. PICK o \in Orders : <<o, r>> \in disclosed
    BY DEF PayDeclined, PayCaptured
  <2>2. HasPayment(o) /\ payment[o].r = r
    BY <2>1 DEF IInv, StoreInv, BrowserPaysTrackedOrder
  <2> QED
    BY <2>2 DEF IInv, StoreInv, RowInv
<1>3. rzp[r].receipt \in Orders
  BY <1>1 DEF RzpRecord
<1>4. ASSUME NEW new, rzp' = [rzp EXCEPT ![r] = new], new # None, new.by = rzp[r].by
      PROVE  Spent' = Spent /\ Funding' = Funding /\ Stage' = Stage
  <2>1. \A s \in RzpOrders : rzp[s] # None => rzp'[s].by = rzp[s].by
    BY <1>4 DEF IInv, TypeInvariant, StoreTypeOK
  <2>2. \A o \in Orders : HasPayment(o) => rzp[payment[o].r] # None /\ payment[o].r \in RzpOrders
    BY DEF IInv, TypeInvariant, StoreTypeOK, PaymentRow, HasPayment, StoreInv, RowInv
  <2>3. Funding' = Funding
    BY <1>1, <2>1, <2>2 DEF Funding, HasPayment, Funder
  <2> QED
    BY <1>1, <2>3 DEF Spent, Stage, HasPayment, Captured
<1>5. CASE PayDeclined(r)
  <2> DEFINE new == [rzp[r] EXCEPT !.declined = TRUE]
  <2>1. new \in RzpRecord /\ new.by = rzp[r].by /\ new.receipt = rzp[r].receipt /\ ~new.captured
    BY <1>1 DEF RzpRecord
  <2>2. rzp' = [rzp EXCEPT ![r] = new]
    BY <1>5 DEF PayDeclined
  <2> HIDE DEF new
  <2>3. new # None
    BY <2>1, StoreAssumption
  <2>4. Charged' = Charged
    BY <1>1, <2>1, <2>2 DEF Charged, IInv, TypeInvariant, StoreTypeOK
  <2> QED
    BY <1>4, <2>1, <2>2, <2>3, <2>4 DEF Promise!vars
<1>6. CASE \E exact \in Reports : PayCaptured(r, exact)
  <2> DEFINE new == [rzp[r] EXCEPT !.captured = TRUE]
  <2>1. new \in RzpRecord /\ new.by = rzp[r].by /\ new.receipt = rzp[r].receipt /\ new.captured
    BY <1>1 DEF RzpRecord
  <2>2. rzp' = [rzp EXCEPT ![r] = new]
    BY <1>6 DEF PayCaptured
  <2> HIDE DEF new
  <2>3. new # None
    BY <2>1, StoreAssumption
  <2> PICK o \in Orders : o = rzp[r].receipt
    BY <1>3
  <2>4. rzp'[r] = new /\ \A s \in RzpOrders \ {r} : rzp'[s] = rzp[s]
    BY <2>2 DEF IInv, TypeInvariant, StoreTypeOK
  <2>5. o \notin Charged
    BY <1>1, <1>2 DEF Charged, IInv, StoreInv, MoneyIsTracked
  <2>6. Charged' = Charged \cup {o}
    BY <1>1, <2>1, <2>3, <2>4 DEF Charged
  <2>7. Funding[o] # None
    <3>1. payment[o].r = r /\ HasPayment(o) /\ rzp[r].by \in Auths
      BY <1>1, <1>2 DEF RzpRecord
    <3> QED
      BY <3>1, StoreAssumption DEF Funding, Funder
  <2>8. Spent' = Spent /\ Funding' = Funding /\ Stage' = Stage
    BY <1>4, <2>1, <2>2, <2>3
  <2> QED
    BY <2>5, <2>6, <2>7, <2>8 DEF Promise!Next, Promise!Charge
<1> QED
  BY <1>5, <1>6

\* A guarded transition of a row captures or fails the order's payment, or
\* -- to "authorized" -- leaves the promise where it was.
LEMMA MoveIsCaptureOrFail ==
  ASSUME IInv, NEW o \in Orders, NEW to \in {"authorized", "captured", "failed"},
         NEW payId \in {"declined", "captured"}, MovePayment(o, to, payId),
         to # "failed" => rzp[payment[o].r].captured,
         UNCHANGED <<auth, order, rzp>>
  PROVE  Promise!Next \/ UNCHANGED Promise!vars
<1>1. /\ payment[o] # None /\ payment'[o] # None
      /\ <<payment[o].status, to>> \in PaymentTransitionTable
      /\ payment'[o].status = to /\ payment'[o].r = payment[o].r
      /\ \A p \in Orders \ {o} : payment'[p] = payment[p]
  <2>1. StoreTypeOK /\ to \in PaymentStatuses
    BY DEF IInv, TypeInvariant, PaymentStatuses
  <2> QED
    BY ONLY <2>1, MovePayment(o, to, payId), o \in Orders, payId \in {"declined", "captured"},
            MovePaymentFacts
<1>2. payment[o].r \in RzpOrders /\ rzp[payment[o].r] # None /\ rzp[payment[o].r].receipt = o
  BY <1>1 DEF IInv, TypeInvariant, StoreTypeOK, PaymentRow, HasPayment, StoreInv, RowInv
<1>3. rzp[payment[o].r].by \in Auths
  BY <1>2 DEF IInv, TypeInvariant, StoreTypeOK, RzpRecord
<1>4. payment[o].status \notin {"captured", "completed", "failed"}
  BY <1>1 DEF PaymentTransitionTable
<1>5. order[o] # "paid"
  BY <1>4 DEF IInv, StoreInv, PaidMeansCaptured, Captured
<1>6. Stage[o] = "open"
  BY <1>4, <1>5 DEF Stage, Captured
<1>7. Spent' = Spent /\ Charged' = Charged
  BY DEF Spent, Charged
<1>8. Funding' = Funding
  BY <1>1 DEF Funding, HasPayment, Funder
<1>9. \A p \in Orders \ {o} : Stage'[p] = Stage[p]
  BY <1>1 DEF Stage, Captured, HasPayment
<1>10. CASE to = "authorized"
  <2>1. Stage'[o] = "open"
    BY <1>1, <1>5, <1>10 DEF Stage, Captured, HasPayment
  <2>2. Stage' = Stage
    BY <1>6, <1>9, <2>1 DEF Stage
  <2> QED
    BY <1>7, <1>8, <2>2 DEF Promise!vars
<1>11. CASE to = "captured"
  <2>1. Stage'[o] = "captured"
    BY <1>1, <1>5, <1>11 DEF Stage, Captured, HasPayment
  <2>2. Stage' = [Stage EXCEPT ![o] = "captured"]
    BY <1>9, <2>1 DEF Stage
  <2>3. o \in Charged
    BY <1>2, <1>11 DEF Charged
  <2> QED
    BY <1>6, <1>7, <1>8, <2>2, <2>3 DEF Promise!Next, Promise!Capture
<1>12. CASE to = "failed"
  <2>1. Stage'[o] = "failed"
    BY <1>1, <1>5, <1>12 DEF Stage, Captured, HasPayment
  <2>2. Stage' = [Stage EXCEPT ![o] = "failed"]
    BY <1>9, <2>1 DEF Stage
  <2>3. Funding[o] # None
    BY <1>1, <1>3, StoreAssumption DEF Funding, Funder, HasPayment
  <2> QED
    BY <1>6, <1>7, <1>8, <2>2, <2>3 DEF Promise!Next, Promise!Fail
<1> QED
  BY <1>10, <1>11, <1>12

\* The order's own transition pays it.
LEMMA MoveOrderIsPay ==
  ASSUME IInv, NEW o \in Orders, Captured(o), MoveOrder(o, "paid"),
         UNCHANGED <<auth, payment, rzp>>
  PROVE  Promise!Next
<1>1. order[o] # "paid" /\ order' = [order EXCEPT ![o] = "paid"]
  BY DEF MoveOrder, CanMoveOrder, CanTransition, OrderTransitionTable
<1>2. order'[o] = "paid" /\ \A p \in Orders \ {o} : order'[p] = order[p]
  BY <1>1 DEF IInv, TypeInvariant, StoreTypeOK
<1>3. Stage[o] = "captured"
  BY <1>1 DEF Stage
<1>4. \A p \in Orders : Captured(p)' = Captured(p) /\ HasPayment(p)' = HasPayment(p)
  BY DEF Captured, HasPayment
<1>5. Stage' = [Stage EXCEPT ![o] = "paid"]
  BY <1>2, <1>4 DEF Stage
<1>6. Spent' = Spent /\ Charged' = Charged /\ Funding' = Funding
  BY DEF Spent, Charged, Funding, HasPayment, Funder
<1> QED
  BY <1>3, <1>5, <1>6 DEF Promise!Next, Promise!Pay

------------------------------------------------------------------------------
\* Every step, by the part of the system that takes it.

LEMMA CreationRefines ==
  ASSUME IInv, CreationNext
  PROVE  Promise!Next \/ UNCHANGED Promise!vars
<1>1. CASE \E a \in Auths :
             \/ ExpireAuthorization(a)
             \/ \E cart \in Orders \cup {None}, m \in Amounts, t \in Terms :
                  IssueAuthorization(a, cart, m, t)
  BY <1>1, AuthorizationChangeIsStutter
<1>2. ASSUME NEW c \in Creators, ConsumeAuthorization(c) \/ InsertRow(c)
      PROVE  Promise!Next
  BY <1>2, ConsumeIsSpend, InsertIsFund
<1>3. ASSUME NEW c \in Creators, CallProvider(c)
      PROVE  UNCHANGED Promise!vars
  BY <1>3, ProviderCallIsStutter
<1>4. ASSUME NEW c \in Creators,
             \/ VerifyAuthorization(c) \/ RefuseAuthorization(c) \/ LoseAuthorization(c)
             \/ RefuseZeroAmount(c) \/ RefuseRow(c) \/ BreakCreation(c)
             \/ LookupByKey(c) \/ LookupByOrder(c) \/ TagRun(c) \/ RecordAttempt(c)
             \/ \E o \in Orders, k \in Keys, a \in Auths : BeginCreation(c, o, k, a)
      PROVE  UNCHANGED Promise!vars
  <2>1. UNCHANGED <<auth, order, payment, rzp>>
    BY <1>4 DEF VerifyAuthorization, RefuseAuthorization, LoseAuthorization,
                RefuseZeroAmount, RefuseRow, BreakCreation, LookupByKey, LookupByOrder,
                TagRun, RecordAttempt, BeginCreation, storeVars
  <2>2. Spent' = Spent
    BY <2>1 DEF Spent
  <2> QED
    BY <2>1, <2>2, QuietIsStutter
<1> QED
  BY <1>1, <1>2, <1>3, <1>4 DEF CreationNext, CreationStep

LEMMA ConfirmationRefines ==
  ASSUME IInv, ConfirmationNext
  PROVE  Promise!Next \/ UNCHANGED Promise!vars
<1>1. ASSUME UNCHANGED <<auth, order, payment, rzp>>
      PROVE  UNCHANGED Promise!vars
  <2>1. Spent' = Spent
    BY <1>1 DEF Spent
  <2> QED
    BY <1>1, <2>1, QuietIsStutter
<1>2. CASE \E r \in RzpOrders :
             PayDeclined(r) \/ \E exact \in Reports : PayCaptured(r, exact)
  BY <1>2, PaymentIsCharge
<1>3. ASSUME NEW w \in Hooks,
             \/ BreakHook(w) \/ LookupCaptured(w) \/ LookupDeclined(w)
             \/ HookMarkPaid(w) \/ HookMarkFailed(w) \/ HookAudit(w) \/ HookPublish(w)
             \/ \E e \in sent : StoreEvent(w, e) \/ IgnoreDuplicate(w, e)
      PROVE  UNCHANGED Promise!vars
  <2>1. UNCHANGED <<auth, order, payment, rzp>>
    BY <1>3 DEF BreakHook, LookupCaptured, LookupDeclined, HookMarkPaid, HookMarkFailed,
                HookMarkAttempt, HookAudit, HookPublish, StoreEvent, IgnoreDuplicate, storeVars
  <2> QED
    BY <1>1, <2>1
<1>4. ASSUME NEW w \in Hooks, HookAuthorize(w) \/ HookCapture(w) \/ HookFail(w)
      PROVE  Promise!Next \/ UNCHANGED Promise!vars
  <2>1. PICK pc \in {"authorize", "capture", "fail"},
             to \in {"authorized", "captured", "failed"},
             next \in {"capture", "payOrder", "markFailed"} :
          HookMovePayment(w, pc, to, next) /\ (to = "failed" <=> pc = "fail")
    BY <1>4 DEF HookAuthorize, HookCapture, HookFail
  <2>2. UNCHANGED <<auth, order, rzp>>
    BY <2>1 DEF HookMovePayment
  <2>3. /\ hook[w].o \in Orders /\ hook[w].e.topic \in {"declined", "captured"}
        /\ to # "failed" => rzp[payment[hook[w].o].r].captured
    BY <2>1 DEF HookMovePayment, HookAt, IInv, HookInv, HookKnows, HookSteps
  <2>4. CASE UNCHANGED payment
    BY <1>1, <2>2, <2>4
  <2>5. CASE MovePayment(hook[w].o, to, hook[w].e.topic)
    <3> PICK o \in Orders, payId \in {"declined", "captured"} :
          o = hook[w].o /\ payId = hook[w].e.topic
      BY <2>3
    <3>1. MovePayment(o, to, payId) /\ (to # "failed" => rzp[payment[o].r].captured)
      BY <2>3, <2>5
    <3> QED
      BY <2>2, <3>1, MoveIsCaptureOrFail
  <2> QED
    BY <2>1, <2>4, <2>5 DEF HookMovePayment
<1>5. ASSUME NEW w \in Hooks, HookPayOrder(w)
      PROVE  Promise!Next \/ UNCHANGED Promise!vars
  <2>1. UNCHANGED <<auth, payment, rzp>>
    BY <1>5 DEF HookPayOrder
  <2>2. hook[w].o \in Orders /\ Captured(hook[w].o)
    BY <1>5 DEF HookPayOrder, HookAt, IInv, HookInv, HookKnows, HookSteps
  <2>3. MoveOrder(hook[w].o, "paid") \/ UNCHANGED order
    BY <1>5 DEF HookPayOrder
  <2> QED
    BY <1>1, <2>1, <2>2, <2>3, MoveOrderIsPay
<1>6. ASSUME NEW v \in Verifiers,
             \/ BreakVerify(v) \/ VerifyMarkPaid(v)
             \/ \E o \in Orders : BeginVerify(v, o)
      PROVE  UNCHANGED Promise!vars
  <2>1. UNCHANGED <<auth, order, payment, rzp>>
    BY <1>6 DEF BreakVerify, VerifyMarkPaid, BeginVerify, storeVars
  <2> QED
    BY <1>1, <2>1
<1>7. ASSUME NEW v \in Verifiers, VerifyAuthorize(v) \/ VerifyCapture(v)
      PROVE  Promise!Next \/ UNCHANGED Promise!vars
  <2>1. PICK pc \in {"authorize", "capture"}, to \in {"authorized", "captured", "failed"},
             next \in {"capture", "payOrder"} : VerifyMovePayment(v, pc, to, next)
    BY <1>7 DEF VerifyAuthorize, VerifyCapture
  <2>2. UNCHANGED <<auth, order, rzp>>
    BY <2>1 DEF VerifyMovePayment
  <2>3. verify[v].o \in Orders /\ rzp[payment[verify[v].o].r].captured
    BY <2>1 DEF VerifyMovePayment, VerifyAt, IInv, VerifyInv, VerifyKnows, VerifySteps
  <2>4. CASE UNCHANGED payment
    BY <1>1, <2>2, <2>4
  <2>5. CASE MovePayment(verify[v].o, to, "captured")
    <3> PICK o \in Orders, payId \in {"declined", "captured"} :
          o = verify[v].o /\ payId = "captured"
      BY <2>3
    <3>1. MovePayment(o, to, payId) /\ (to # "failed" => rzp[payment[o].r].captured)
      BY <2>3, <2>5
    <3> QED
      BY <2>2, <3>1, MoveIsCaptureOrFail
  <2> QED
    BY <2>1, <2>4, <2>5 DEF VerifyMovePayment
<1>8. ASSUME NEW v \in Verifiers, VerifyPayOrder(v)
      PROVE  Promise!Next \/ UNCHANGED Promise!vars
  <2>1. UNCHANGED <<auth, payment, rzp>>
    BY <1>8 DEF VerifyPayOrder
  <2>2. verify[v].o \in Orders /\ Captured(verify[v].o)
    BY <1>8 DEF VerifyPayOrder, VerifyAt, IInv, VerifyInv, VerifyKnows, VerifySteps
  <2>3. MoveOrder(verify[v].o, "paid") \/ UNCHANGED order
    BY <1>8 DEF VerifyPayOrder
  <2> QED
    BY <1>1, <2>1, <2>2, <2>3, MoveOrderIsPay
<1> QED
  BY <1>2, <1>3, <1>4, <1>5, <1>6, <1>7, <1>8 DEF ConfirmationNext, HookStep, VerifyStep

\* The initial state promises nothing yet.
LEMMA InitRefines == Init => Promise!Init
BY DEF Init, CreationInit, StoreInit, Promise!Init, Spent, Funding, Charged, Stage,
       HasPayment, Captured

LEMMA StepRefines == IInv /\ [Next]_vars => [Promise!Next]_(Promise!vars)
<1> SUFFICES ASSUME IInv, [Next]_vars PROVE Promise!Next \/ UNCHANGED Promise!vars
  OBVIOUS
<1>1. CASE Next
  BY <1>1, CreationRefines, ConfirmationRefines DEF Next
<1>2. CASE UNCHANGED vars
  <2>1. UNCHANGED <<auth, order, payment, rzp>>
    BY <1>2 DEF vars, storeVars
  <2>2. Spent' = Spent
    BY <2>1 DEF Spent
  <2> QED
    BY <2>1, <2>2, QuietIsStutter
<1> QED
  BY <1>1, <1>2

\* However many handlers run over however many orders, from outside the flow
\* spends, funds, charges, captures and pays, each once and in that order.
THEOREM FlowKeepsPromise == Spec => PromiseKept
<1>1. Init => Promise!Init
  BY InitRefines
<1>2. IInv /\ [Next]_vars => [Promise!Next]_(Promise!vars)
  BY StepRefines
<1> QED
  BY <1>1, <1>2, InductiveInvariant, PTL DEF Spec, PromiseKept, Promise!Spec
==============================================================================
