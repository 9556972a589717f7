-------------------------- MODULE PaymentFlowProofs --------------------------
(***************************************************************************)
(* Proofs that the payment flow keeps its safety invariants, whatever the  *)
(* numbers of orders, authorizations and concurrent handlers are, and      *)
(* wherever statements and handlers break off.                             *)
(***************************************************************************)
EXTENDS PaymentFlow, TLAPS

USE StoreAssumption, CreationAssumption, ConfirmationAssumption

------------------------------------------------------------------------------
\* What the writing operators do, as facts about fields.

\* Goto moves the handler's pc and keeps everything else it holds.
LEMMA GotoFacts ==
  ASSUME CreationTypeOK, NEW c \in Creators,
         NEW pc \in CreationSteps \cup CreationEnds, Goto(c, pc)
  PROVE  /\ CreationTypeOK'
         /\ call'[c].pc = pc /\ call'[c].o = call[c].o /\ call'[c].k = call[c].k
         /\ call'[c].a = call[c].a /\ call'[c].r = call[c].r
         /\ \A d \in Creators \ {c} : call'[d] = call[d]
<1>1. call[c] \in Call
  BY DEF CreationTypeOK
<1>2. call' = [call EXCEPT ![c] = [call[c] EXCEPT !.pc = pc]]
  BY DEF Goto
<1>3. [call[c] EXCEPT !.pc = pc]
        = [pc |-> pc, o |-> call[c].o, k |-> call[c].k, a |-> call[c].a, r |-> call[c].r]
  BY <1>1 DEF Call
<1>4. [call[c] EXCEPT !.pc = pc] \in Call
  BY <1>1, <1>3 DEF Call
<1>5. call'[c] = [pc |-> pc, o |-> call[c].o, k |-> call[c].k,
                  a |-> call[c].a, r |-> call[c].r]
  BY <1>2, <1>3 DEF CreationTypeOK
<1> QED
  BY <1>2, <1>4, <1>5 DEF CreationTypeOK

\* End forgets the handler's arguments.
LEMMA EndFacts ==
  ASSUME CreationTypeOK, NEW c \in Creators, NEW how \in CreationEnds, End(c, how)
  PROVE  /\ CreationTypeOK'
         /\ call'[c].pc = how
         /\ \A d \in Creators \ {c} : call'[d] = call[d]
<1>1. Ended(how) \in Call
  BY DEF Ended, Call
<1>2. Ended(how).pc = how
  BY DEF Ended
<1> QED
  BY <1>1, <1>2 DEF CreationTypeOK, End

\* The guarded transition changes the row of one order, from a status the table
\* has an edge from, to the status asked for, under the id it was given.
LEMMA MovePaymentFacts ==
  ASSUME StoreTypeOK, NEW o \in Orders, NEW to \in PaymentStatuses,
         NEW payId \in {"declined", "captured"}, MovePayment(o, to, payId)
  PROVE  /\ payment' \in [Orders -> PaymentRow \cup {None}]
         /\ payment[o] # None
         /\ <<payment[o].status, to>> \in PaymentTransitionTable
         /\ payment'[o] # None
         /\ payment'[o].status = to /\ payment'[o].payId = payId
         /\ payment'[o].r = payment[o].r /\ payment'[o].key = payment[o].key
         /\ \A p \in Orders \ {o} : payment'[p] = payment[p]
<1>1. payment[o] # None /\ CanTransition(PaymentTransitionTable, payment[o].status, to)
  BY DEF MovePayment, CanMovePayment, HasPayment
<1>2. payment[o] \in PaymentRow
  BY <1>1 DEF StoreTypeOK
<1> DEFINE row == [status |-> to, r |-> payment[o].r, key |-> payment[o].key, payId |-> payId]
<1>3. row \in PaymentRow
  BY <1>2 DEF PaymentRow
<1>4. row # None
  BY <1>3, StoreAssumption
<1>5. payment' = [payment EXCEPT ![o] = row]
  BY DEF MovePayment
<1> QED
  BY <1>1, <1>3, <1>4, <1>5 DEF CanTransition, StoreTypeOK

\* The consuming UPDATE turns one active authorization into a used one.
LEMMA MarkUsedFacts ==
  ASSUME StoreTypeOK, NEW a \in Auths, MarkAuthorizationUsed(a)
  PROVE  /\ auth' \in [Auths -> Authorization \cup {None}]
         /\ auth[a] # None /\ auth[a].status = "ACTIVE"
         /\ auth'[a] # None /\ auth'[a].status = "USED"
         /\ \A o \in Orders : BoundTo(a, o) => BoundTo(a, o)'
         /\ \A b \in Auths \ {a} : auth'[b] = auth[b]
<1>1. auth[a] \in Authorization
  BY DEF StoreTypeOK, MarkAuthorizationUsed
<1>2. auth' = [auth EXCEPT ![a] = [auth[a] EXCEPT !.status = "USED"]]
  BY DEF MarkAuthorizationUsed
<1> DEFINE used == [auth[a] EXCEPT !.status = "USED"]
<1>3. /\ used \in Authorization
      /\ used.status = "USED" /\ used.cart = auth[a].cart
      /\ used.amount = auth[a].amount /\ used.terms = auth[a].terms
  BY <1>1 DEF Authorization
<1>4. used # None
  BY <1>3, StoreAssumption
<1>5. auth'[a] = used
  BY <1>2 DEF StoreTypeOK
<1> HIDE DEF used
<1> QED
  BY <1>2, <1>3, <1>4, <1>5 DEF StoreTypeOK, MarkAuthorizationUsed, BoundTo, used

\* The INSERT adds the row of an order that had none.
LEMMA InsertPaymentFacts ==
  ASSUME StoreTypeOK, NEW o \in Orders, NEW r \in RzpOrders, NEW k \in Keys,
         InsertPayment(o, r, k)
  PROVE  /\ payment' \in [Orders -> PaymentRow \cup {None}]
         /\ payment[o] = None
         /\ payment'[o] # None
         /\ payment'[o].status = "pending" /\ payment'[o].r = r /\ payment'[o].key = k
         /\ \A p \in Orders \ {o} : payment'[p] = payment[p]
<1> DEFINE row == [status |-> "pending", r |-> r, key |-> k, payId |-> None]
<1>1. row \in PaymentRow
  BY DEF PaymentRow, PaymentStatuses
<1>2. row # None
  BY <1>1, StoreAssumption
<1> QED
  BY <1>1, <1>2 DEF InsertPayment, CanInsertPayment, HasPayment, StoreTypeOK

\* The attempt of one order moves, if at all, from "attempted" to the status
\* asked for.
LEMMA MarkAttemptFacts ==
  ASSUME StoreTypeOK, NEW o \in Orders, NEW to \in AttemptStatuses, MarkAttempt(o, to)
  PROVE  attempt' \in [Orders -> AttemptStatuses]
BY DEF StoreTypeOK, MarkAttempt

\* A delivery moves its pc and keeps its event and order.
LEMMA HookGotoFacts ==
  ASSUME hook \in [Hooks -> Hook], NEW w \in Hooks, NEW pc \in HookSteps \cup {"idle"},
         HookGoto(w, pc)
  PROVE  /\ hook' \in [Hooks -> Hook]
         /\ hook'[w].pc = pc /\ hook'[w].e = hook[w].e /\ hook'[w].o = hook[w].o
         /\ \A x \in Hooks \ {w} : hook'[x] = hook[x]
<1>1. hook[w] \in Hook
  OBVIOUS
<1>2. hook' = [hook EXCEPT ![w] = [hook[w] EXCEPT !.pc = pc]]
  BY DEF HookGoto
<1>3. [hook[w] EXCEPT !.pc = pc] = [pc |-> pc, e |-> hook[w].e, o |-> hook[w].o]
  BY <1>1 DEF Hook
<1>4. [hook[w] EXCEPT !.pc = pc] \in Hook
  BY <1>1, <1>3 DEF Hook
<1> QED
  BY <1>2, <1>3, <1>4

\* A delivery that ends is idle.
LEMMA HookIdleFacts ==
  ASSUME hook \in [Hooks -> Hook], NEW w \in Hooks, hook' = [hook EXCEPT ![w] = HookIdle]
  PROVE  /\ hook' \in [Hooks -> Hook]
         /\ hook'[w].pc = "idle"
         /\ \A x \in Hooks \ {w} : hook'[x] = hook[x]
<1>1. HookIdle \in Hook /\ HookIdle.pc = "idle"
  BY DEF HookIdle, Hook
<1> QED
  BY <1>1

\* A confirmation moves its pc and keeps its order.
LEMMA VerifyGotoFacts ==
  ASSUME verify \in [Verifiers -> Verification], NEW v \in Verifiers,
         NEW pc \in VerifySteps \cup VerifyEnds, VerifyGoto(v, pc)
  PROVE  /\ verify' \in [Verifiers -> Verification]
         /\ verify'[v].pc = pc /\ verify'[v].o = verify[v].o
         /\ \A x \in Verifiers \ {v} : verify'[x] = verify[x]
<1>1. verify[v] \in Verification
  OBVIOUS
<1>2. verify' = [verify EXCEPT ![v] = [verify[v] EXCEPT !.pc = pc]]
  BY DEF VerifyGoto
<1>3. [verify[v] EXCEPT !.pc = pc] = [pc |-> pc, o |-> verify[v].o]
  BY <1>1 DEF Verification
<1>4. [verify[v] EXCEPT !.pc = pc] \in Verification
  BY <1>1, <1>3 DEF Verification
<1> QED
  BY <1>2, <1>3, <1>4

\* Counting one more announcement keeps the counters' type.
LEMMA CountFacts ==
  ASSUME NEW f \in [Orders -> [Topics -> Nat]], NEW o \in Orders, NEW t \in Topics
  PROVE  [f EXCEPT ![o][t] = @ + 1] \in [Orders -> [Topics -> Nat]]
<1> DEFINE row == [f[o] EXCEPT ![t] = @ + 1]
<1>1. row \in [Topics -> Nat]
  OBVIOUS
<1>2. [f EXCEPT ![o][t] = @ + 1] = [f EXCEPT ![o] = row]
  OBVIOUS
<1> HIDE DEF row
<1> QED
  BY <1>1, <1>2

------------------------------------------------------------------------------
\* Which variables each part of the invariant reads.

LEMMA StoreFrame ==
  ASSUME StoreTypeOK, StoreInv, UNCHANGED storeVars
  PROVE  StoreTypeOK' /\ StoreInv'
BY DEF storeVars, StoreTypeOK, StoreInv, RzpInv, RowInv, OrderInv, HasPayment, BoundTo,
       OneAuthorizationOneRzpOrder, BrowserPaysTrackedOrder, RunNamesFundingAuthorization,
       Funder, MoneyIsTracked, PaidMeansCaptured, Captured

LEMMA CallFrame ==
  ASSUME CreationTypeOK, CallInv, ExclusiveInv, UNCHANGED <<auth, payment, rzp, call>>
  PROVE  CreationTypeOK' /\ CallInv' /\ ExclusiveInv'
BY DEF CreationTypeOK, CallInv, ExclusiveInv, BoundTo, HasPayment

LEMMA HookFrame ==
  ASSUME HookInv, UNCHANGED <<payment, rzp, sent, hook>>
  PROVE  HookInv'
BY DEF HookInv, HookKnows, HasPayment, Captured

LEMMA VerifyFrame ==
  ASSUME VerifyInv, UNCHANGED <<payment, rzp, verify>>
  PROVE  VerifyInv'
BY DEF VerifyInv, VerifyKnows, HasPayment, Captured

LEMMA ConfirmationTypeFrame ==
  ASSUME ConfirmationTypeOK, UNCHANGED confirmationVars
  PROVE  ConfirmationTypeOK'
BY DEF ConfirmationTypeOK, confirmationVars

\* A guarded transition to "authorized", "captured" or "failed" that is justified
\* by a capture keeps the store's invariant; it never undoes a capture or a
\* failure, and never takes a row away.
LEMMA MovePaymentPreserves ==
  ASSUME StoreTypeOK, StoreInv,
         NEW o \in Orders, NEW to \in {"authorized", "captured", "failed"},
         NEW payId \in {"declined", "captured"}, MovePayment(o, to, payId),
         to # "failed" => payId = "captured" /\ rzp[payment[o].r].captured,
         UNCHANGED <<auth, order, run, attempt, rzp, disclosed>>
  PROVE  /\ StoreTypeOK' /\ StoreInv'
         /\ payment'[o].status = to /\ HasPayment(o)'
         /\ \A p \in Orders :
              /\ HasPayment(p) => HasPayment(p)' /\ payment'[p].r = payment[p].r
              /\ Captured(p) => Captured(p)'
              /\ HasPayment(p) /\ payment[p].status = "failed" => payment'[p].status = "failed"
<1> to \in PaymentStatuses
  BY DEF PaymentStatuses
<1>1. /\ payment' \in [Orders -> PaymentRow \cup {None}]
      /\ payment[o] # None /\ payment'[o] # None
      /\ <<payment[o].status, to>> \in PaymentTransitionTable
      /\ payment'[o].status = to /\ payment'[o].payId = payId
      /\ payment'[o].r = payment[o].r /\ payment'[o].key = payment[o].key
      /\ \A p \in Orders \ {o} : payment'[p] = payment[p]
  BY ONLY StoreTypeOK, MovePayment(o, to, payId), to \in PaymentStatuses, MovePaymentFacts
<1>2. ~Captured(o) /\ payment[o].status # "failed"
  BY <1>1 DEF PaymentTransitionTable, Captured
<1>3. StoreTypeOK'
  BY <1>1 DEF StoreTypeOK
<1>4. \A p \in Orders :
        /\ HasPayment(p) => HasPayment(p)' /\ payment'[p].r = payment[p].r
        /\ Captured(p) => Captured(p)'
        /\ HasPayment(p) /\ payment[p].status = "failed" => payment'[p].status = "failed"
  BY <1>1, <1>2 DEF HasPayment, Captured
<1>5. RzpInv' /\ OrderInv' /\ OneAuthorizationOneRzpOrder'
  BY DEF StoreInv, RzpInv, OrderInv, OneAuthorizationOneRzpOrder, BoundTo
<1>6. RowInv'
  BY <1>1 DEF StoreInv, RowInv, HasPayment
<1>7. BrowserPaysTrackedOrder' /\ RunNamesFundingAuthorization' /\ MoneyIsTracked'
  BY <1>4 DEF StoreInv, StoreTypeOK, RzpRecord, HasPayment, Funder,
              BrowserPaysTrackedOrder, RunNamesFundingAuthorization, MoneyIsTracked
<1>8. PaidMeansCaptured'
  BY <1>1, <1>2, <1>4 DEF StoreInv, PaidMeansCaptured, Captured, HasPayment
<1> QED
  BY <1>1, <1>3, <1>4, <1>5, <1>6, <1>7, <1>8 DEF StoreInv, HasPayment

------------------------------------------------------------------------------
\* Creation: one lemma per kind of statement.

\* The confirmation side does not notice a creation step that leaves the rows
\* and Razorpay's books alone.
LEMMA ConfirmationFrame ==
  ASSUME IInv, UNCHANGED confirmationVars, UNCHANGED <<payment, rzp>>
  PROVE  ConfirmationTypeOK' /\ HookInv' /\ VerifyInv'
<1>1. UNCHANGED <<sent, hook, verify>>
  BY DEF confirmationVars
<1> QED
  BY <1>1, HookFrame, VerifyFrame, ConfirmationTypeFrame DEF IInv, TypeInvariant

\* A statement that only reads: the handler moves on.
LEMMA CreationReads ==
  ASSUME IInv, NEW c \in Creators, UNCHANGED storeVars, UNCHANGED confirmationVars,
         \/ VerifyAuthorization(c) \/ RefuseAuthorization(c) \/ LoseAuthorization(c)
         \/ RefuseZeroAmount(c) \/ RefuseRow(c) \/ BreakCreation(c)
         \/ \E o \in Orders, k \in Keys, a \in Auths : BeginCreation(c, o, k, a)
  PROVE  IInv'
<1> USE DEF TypeInvariant
<1>1. StoreTypeOK' /\ StoreInv'
  BY StoreFrame DEF IInv
<1>2. ConfirmationTypeOK' /\ HookInv' /\ VerifyInv'
  BY ConfirmationFrame DEF storeVars, IInv
<1>3. CreationTypeOK' /\ CallInv' /\ ExclusiveInv'
  <2> USE DEF storeVars, CallInv, ExclusiveInv, BoundTo, HasPayment, At
  <2>1. CASE VerifyAuthorization(c)
    <3>1. \E pc \in {"byKey", "byOrder"} :
            Goto(c, pc) /\ (pc = "byKey" => call[c].k # EmptyKey)
      BY <2>1 DEF VerifyAuthorization
    <3>2. auth[call[c].a] # None /\ BoundTo(call[c].a, call[c].o)
      BY <2>1 DEF VerifyAuthorization, Verifies
    <3>3. call[c].pc = "verify"
      BY <2>1 DEF VerifyAuthorization
    <3>4. PICK pc \in {"byKey", "byOrder"} :
            Goto(c, pc) /\ (pc = "byKey" => call[c].k # EmptyKey)
      BY <3>1
    <3>5. pc \in CreationSteps \cup CreationEnds
      BY DEF CreationSteps
    <3>6. /\ CreationTypeOK'
          /\ call'[c].pc = pc /\ call'[c].o = call[c].o /\ call'[c].k = call[c].k
          /\ call'[c].a = call[c].a /\ call'[c].r = call[c].r
          /\ \A d \in Creators \ {c} : call'[d] = call[d]
      BY ONLY IInv, <3>4, <3>5, c \in Creators, GotoFacts DEF IInv, TypeInvariant
    <3> QED
      BY <3>2, <3>3, <3>4, <3>6 DEF IInv, CreationSteps
  <2>2. ASSUME NEW how \in CreationEnds, End(c, how)
        PROVE  CreationTypeOK' /\ CallInv' /\ ExclusiveInv'
    <3>1. /\ CreationTypeOK' /\ call'[c].pc = how
          /\ \A d \in Creators \ {c} : call'[d] = call[d]
      BY ONLY IInv, <2>2, c \in Creators, EndFacts DEF IInv, TypeInvariant
    <3> QED
      BY <3>1 DEF IInv, CreationEnds, CreationSteps
  <2>3. CASE \/ RefuseAuthorization(c) \/ LoseAuthorization(c) \/ RefuseZeroAmount(c)
             \/ RefuseRow(c) \/ BreakCreation(c)
    BY <2>2, <2>3 DEF RefuseAuthorization, LoseAuthorization, RefuseZeroAmount, RefuseRow,
                     BreakCreation, CreationEnds
  <2>4. ASSUME NEW o \in Orders, NEW k \in Keys, NEW a \in Auths, BeginCreation(c, o, k, a)
        PROVE  CreationTypeOK' /\ CallInv' /\ ExclusiveInv'
    <3> DEFINE new == [pc |-> "verify", o |-> o, k |-> k, a |-> a, r |-> None]
    <3>1. new \in Call /\ new.pc = "verify" /\ new.o = o /\ new.k = k /\ new.a = a
      BY DEF Call, CreationSteps
    <3>2. call' = [call EXCEPT ![c] = new] /\ k \in KeysOf[o]
      BY <2>4 DEF BeginCreation
    <3> HIDE DEF new
    <3>3. /\ CreationTypeOK' /\ call'[c] = new
          /\ \A d \in Creators \ {c} : call'[d] = call[d]
      BY <3>1, <3>2 DEF CreationTypeOK, IInv
    <3> QED
      BY <3>1, <3>2, <3>3 DEF IInv, CreationSteps
  <2> QED
    BY <2>1, <2>3, <2>4
<1> QED
  BY <1>1, <1>2, <1>3 DEF IInv

\* The handler answers with the Razorpay order of the row of its order.
LEMMA AnswerPreserves ==
  ASSUME IInv, NEW c \in Creators, NEW r \in RzpOrders, Answer(c, r),
         call[c].pc \in CreationSteps,
         HasPayment(call[c].o), payment[call[c].o].r = r,
         attempt' \in [Orders -> AttemptStatuses],
         UNCHANGED <<auth, order, run, payment, rzp>>, UNCHANGED confirmationVars
  PROVE  IInv'
<1>1. call[c].o \in Orders
  BY DEF IInv, CallInv
<1>2. StoreTypeOK'
  BY <1>1 DEF Answer, StoreTypeOK, IInv, TypeInvariant
<1>3. StoreInv'
  <2>1. BrowserPaysTrackedOrder'
    BY <1>1 DEF Answer, BrowserPaysTrackedOrder, IInv, StoreInv, HasPayment
  <2>2. RzpInv' /\ RowInv' /\ OrderInv' /\ OneAuthorizationOneRzpOrder'
        /\ RunNamesFundingAuthorization' /\ MoneyIsTracked' /\ PaidMeansCaptured'
    BY DEF IInv, StoreInv, RzpInv, RowInv, OrderInv, OneAuthorizationOneRzpOrder,
           RunNamesFundingAuthorization, MoneyIsTracked, PaidMeansCaptured, BoundTo,
           HasPayment, Funder, Captured
  <2> QED
    BY <2>1, <2>2 DEF StoreInv
<1>4. ConfirmationTypeOK' /\ HookInv' /\ VerifyInv'
  BY ConfirmationFrame
<1>5. /\ CreationTypeOK' /\ call'[c].pc = "idle"
      /\ \A d \in Creators \ {c} : call'[d] = call[d]
  <2>1. End(c, "idle") /\ "idle" \in CreationEnds
    BY DEF Answer, CreationEnds
  <2> QED
    BY ONLY <2>1, IInv, c \in Creators, EndFacts DEF IInv, TypeInvariant
<1>6. CallInv' /\ ExclusiveInv'
  BY <1>5 DEF IInv, CallInv, ExclusiveInv, BoundTo, HasPayment, CreationSteps
<1> QED
  BY <1>2, <1>3, <1>4, <1>5, <1>6 DEF IInv, TypeInvariant

\* The handler moves on and the rows it knows of stay as they are.
LEMMA CreationMoves ==
  ASSUME IInv, NEW c \in Creators, NEW pc \in CreationSteps, Goto(c, pc),
         UNCHANGED <<auth, payment, rzp>>,
         call[c].pc # "verify", call[c].pc \in CreationSteps,
         pc \notin {"verify", "byKey", "provider"},
         pc \in {"insert", "tag", "attempt"} => call[c].pc \in {"tag", "attempt"}
  PROVE  CreationTypeOK' /\ CallInv' /\ ExclusiveInv'
<1>1. pc \in CreationSteps \cup CreationEnds
  OBVIOUS
<1>2. /\ CreationTypeOK'
      /\ call'[c].pc = pc /\ call'[c].o = call[c].o /\ call'[c].k = call[c].k
      /\ call'[c].a = call[c].a /\ call'[c].r = call[c].r
      /\ \A d \in Creators \ {c} : call'[d] = call[d]
  BY ONLY IInv, <1>1, Goto(c, pc), c \in Creators, GotoFacts DEF IInv, TypeInvariant
<1>3. CallInv'
  BY <1>2 DEF IInv, CallInv, BoundTo, HasPayment, CreationSteps
<1>4. ExclusiveInv'
  BY <1>2 DEF IInv, ExclusiveInv
<1> QED
  BY <1>2, <1>3, <1>4

\* The two lookups: a row by the request's key is the row of its order, since
\* no other order's clients send that key.
LEMMA CreationLooksUp ==
  ASSUME IInv, NEW c \in Creators, UNCHANGED confirmationVars,
         LookupByKey(c) \/ LookupByOrder(c)
  PROVE  IInv'
<1>1. call[c].o \in Orders /\ call[c].k \in KeysOf[call[c].o] /\ call[c].pc \in {"byKey", "byOrder"}
  BY DEF LookupByKey, LookupByOrder, At, IInv, CallInv, CreationSteps
<1>2. UNCHANGED <<auth, order, run, payment, attempt, rzp>>
  BY DEF LookupByKey, LookupByOrder
<1>3. attempt' \in [Orders -> AttemptStatuses]
  BY <1>2 DEF IInv, TypeInvariant, StoreTypeOK
<1>4. CASE \E o \in Orders : HasPayment(o) /\ o = call[c].o /\ Answer(c, payment[o].r)
  <2>1. payment[call[c].o].r \in RzpOrders
    BY <1>1, <1>4 DEF IInv, TypeInvariant, StoreTypeOK, PaymentRow, HasPayment
  <2> QED
    BY <1>1, <1>2, <1>3, <1>4, <2>1, AnswerPreserves DEF CreationSteps
<1>5. CASE \E pc \in {"byOrder", "consume"} : Goto(c, pc) /\ UNCHANGED disclosed
  <2>1. UNCHANGED storeVars
    BY <1>2, <1>5 DEF storeVars
  <2>2. StoreTypeOK' /\ StoreInv'
    BY <2>1, StoreFrame DEF IInv, TypeInvariant
  <2>3. ConfirmationTypeOK' /\ HookInv' /\ VerifyInv'
    BY <1>2, ConfirmationFrame
  <2>4. CreationTypeOK' /\ CallInv' /\ ExclusiveInv'
    BY <1>1, <1>2, <1>5, CreationMoves DEF CreationSteps
  <2> QED
    BY <2>2, <2>3, <2>4 DEF IInv, TypeInvariant
<1>6. ASSUME LookupByKey(c), NEW o \in RowsWithKey(call[c].k), Answer(c, payment[o].r)
      PROVE  o = call[c].o /\ HasPayment(o) /\ o \in Orders
  <2>1. o \in Orders /\ HasPayment(o) /\ payment[o].key = call[c].k
    BY <1>6 DEF RowsWithKey
  <2>2. payment[o].key \in KeysOf[o]
    BY <2>1 DEF IInv, StoreInv, RowInv
  <2>3. call[c].k # EmptyKey
    BY <1>6 DEF LookupByKey, At, IInv, CallInv
  <2> QED
    BY <1>1, <2>1, <2>2, <2>3, CreationAssumption
<1> QED
  BY <1>4, <1>5, <1>6, <1>1 DEF LookupByKey, LookupByOrder

\* What other handlers know of an authorization survives its consumption, its
\* issue and its expiry: no cart, amount or terms ever change, and a used
\* authorization stays used.
LEMMA AuthChangePreserves ==
  ASSUME IInv, StoreTypeOK',
         UNCHANGED <<order, run, payment, attempt, rzp, disclosed>>,
         \A a \in Auths : auth[a] # None =>
           /\ auth'[a] # None
           /\ auth[a].status = "USED" => auth'[a].status = "USED"
           /\ \A o \in Orders : BoundTo(a, o) => BoundTo(a, o)'
  PROVE  StoreInv'
<1>1. RzpInv'
  BY DEF IInv, StoreInv, RzpInv, TypeInvariant, StoreTypeOK, RzpRecord
<1>2. RowInv' /\ OrderInv' /\ OneAuthorizationOneRzpOrder'
      /\ BrowserPaysTrackedOrder' /\ RunNamesFundingAuthorization'
      /\ MoneyIsTracked' /\ PaidMeansCaptured'
  BY DEF IInv, StoreInv, RowInv, OrderInv, OneAuthorizationOneRzpOrder,
         BrowserPaysTrackedOrder, RunNamesFundingAuthorization, MoneyIsTracked,
         PaidMeansCaptured, HasPayment, Funder, Captured
<1> QED
  BY <1>1, <1>2 DEF StoreInv

\* Consuming an authorization: no Razorpay order was made under it, and no other
\* handler is on its way to the provider with it.
LEMMA CreationConsumes ==
  ASSUME IInv, NEW c \in Creators, UNCHANGED confirmationVars, ConsumeAuthorization(c)
  PROVE  IInv'
<1>0. call[c].pc = "consume" /\ call[c].a \in Auths
  BY DEF ConsumeAuthorization, At, IInv, CallInv, CreationSteps
<1> PICK a \in Auths : a = call[c].a
  BY <1>0
<1>1. /\ call[c].pc = "consume" /\ a \in Auths /\ MarkAuthorizationUsed(a)
      /\ Goto(c, "provider") /\ UNCHANGED <<order, run, payment, attempt, rzp, disclosed>>
  BY <1>0 DEF ConsumeAuthorization
<1>2. /\ auth' \in [Auths -> Authorization \cup {None}]
      /\ auth[a] # None /\ auth[a].status = "ACTIVE"
      /\ auth'[a] # None /\ auth'[a].status = "USED"
      /\ \A o \in Orders : BoundTo(a, o) => BoundTo(a, o)'
      /\ \A b \in Auths \ {a} : auth'[b] = auth[b]
  BY ONLY <1>1, IInv, MarkUsedFacts DEF IInv, TypeInvariant
<1>3. \A b \in Auths : auth[b] # None =>
        /\ auth'[b] # None
        /\ auth[b].status = "USED" => auth'[b].status = "USED"
        /\ \A o \in Orders : BoundTo(b, o) => BoundTo(b, o)'
  BY <1>2 DEF BoundTo
<1>4. StoreTypeOK'
  BY <1>1, <1>2 DEF IInv, TypeInvariant, StoreTypeOK
<1>5. StoreInv'
  BY <1>1, <1>3, <1>4, AuthChangePreserves
<1>6. ConfirmationTypeOK' /\ HookInv' /\ VerifyInv'
  BY <1>1, ConfirmationFrame
<1>7. /\ CreationTypeOK'
      /\ call'[c].pc = "provider" /\ call'[c].o = call[c].o /\ call'[c].k = call[c].k
      /\ call'[c].a = call[c].a /\ call'[c].r = call[c].r
      /\ \A d \in Creators \ {c} : call'[d] = call[d]
  <2>1. "provider" \in CreationSteps \cup CreationEnds
    BY DEF CreationSteps
  <2> QED
    BY ONLY <1>1, <2>1, IInv, c \in Creators, GotoFacts DEF IInv, TypeInvariant
<1>8. \A r \in RzpOrders : rzp[r] # None => rzp[r].by # a
  BY <1>2 DEF IInv, StoreInv, RzpInv
<1>9. \A d \in Creators : call[d].pc = "provider" => call[d].a # a
  BY <1>2 DEF IInv, CallInv
<1>10. CallInv'
  <2> SUFFICES ASSUME NEW d \in Creators
               PROVE  CallInv!(d)'
    BY DEF CallInv
  <2>1. call[d].pc \in CreationSteps => call[d].a \in Auths /\ call[d].o \in Orders
    BY DEF IInv, CallInv
  <2> QED
    BY <1>1, <1>2, <1>3, <1>7, <1>8, <2>1 DEF IInv, CallInv, HasPayment, CreationSteps
<1>11. ExclusiveInv'
  BY <1>7, <1>9 DEF IInv, ExclusiveInv
<1> QED
  BY <1>4, <1>5, <1>6, <1>7, <1>10, <1>11 DEF IInv, TypeInvariant

\* Issuing an authorization, and its expiry.
LEMMA AuthorizationsChange ==
  ASSUME IInv, UNCHANGED confirmationVars, NEW a \in Auths,
         \/ ExpireAuthorization(a)
         \/ \E cart \in Orders \cup {None}, m \in Amounts, t \in Terms :
              IssueAuthorization(a, cart, m, t)
  PROVE  IInv'
<1>1. UNCHANGED <<order, run, payment, attempt, rzp, disclosed, call>>
  BY DEF ExpireAuthorization, IssueAuthorization
<1>2. /\ auth' \in [Auths -> Authorization \cup {None}]
      /\ \A b \in Auths : auth[b] # None =>
           /\ auth'[b] # None /\ auth'[b].status = auth[b].status
           /\ auth'[b].cart = auth[b].cart /\ auth'[b].amount = auth[b].amount
           /\ auth'[b].terms = auth[b].terms
  <2>1. CASE ExpireAuthorization(a)
    <3>1. auth[a] \in Authorization
      BY <2>1 DEF ExpireAuthorization, IInv, TypeInvariant, StoreTypeOK
    <3> DEFINE gone == [auth[a] EXCEPT !.live = FALSE]
    <3>2. /\ gone \in Authorization /\ gone.status = auth[a].status
          /\ gone.cart = auth[a].cart /\ gone.amount = auth[a].amount
          /\ gone.terms = auth[a].terms
      BY <3>1 DEF Authorization
    <3>3. auth' = [auth EXCEPT ![a] = gone]
      BY <2>1 DEF ExpireAuthorization
    <3> HIDE DEF gone
    <3> QED
      BY <3>2, <3>3, StoreAssumption DEF IInv, TypeInvariant, StoreTypeOK
  <2>2. CASE \E cart \in Orders \cup {None}, m \in Amounts, t \in Terms :
               IssueAuthorization(a, cart, m, t)
    <3>1. PICK cart \in Orders \cup {None}, m \in Amounts, t \in Terms :
                 IssueAuthorization(a, cart, m, t)
      BY <2>2
    <3> DEFINE new == [status |-> "ACTIVE", live |-> TRUE, cart |-> cart,
                       amount |-> m, terms |-> t]
    <3>2. new \in Authorization
      BY DEF Authorization
    <3>3. auth[a] = None /\ auth' = [auth EXCEPT ![a] = new]
      BY <3>1 DEF IssueAuthorization
    <3> HIDE DEF new
    <3> QED
      BY <3>2, <3>3 DEF IInv, TypeInvariant, StoreTypeOK
  <2> QED
    BY <2>1, <2>2
<1>3. \A b \in Auths : auth[b] # None => \A o \in Orders : BoundTo(b, o) => BoundTo(b, o)'
  BY <1>2 DEF BoundTo
<1>4. StoreTypeOK'
  BY <1>1, <1>2 DEF IInv, TypeInvariant, StoreTypeOK
<1>5. StoreInv'
  BY <1>1, <1>2, <1>3, <1>4, AuthChangePreserves
<1>6. ConfirmationTypeOK' /\ HookInv' /\ VerifyInv'
  BY <1>1, ConfirmationFrame
<1>7. CreationTypeOK' /\ ExclusiveInv'
  BY <1>1 DEF IInv, TypeInvariant, CreationTypeOK, ExclusiveInv
<1>8. CallInv'
  BY <1>1, <1>2, <1>3 DEF IInv, CallInv, HasPayment, CreationSteps
<1> QED
  BY <1>4, <1>5, <1>6, <1>7, <1>8 DEF IInv, TypeInvariant

\* Calling the provider: the new Razorpay order is the first under the handler's
\* authorization, and no row and no browser knows of it.
LEMMA CreationCallsProvider ==
  ASSUME IInv, NEW c \in Creators, UNCHANGED confirmationVars, CallProvider(c)
  PROVE  IInv'
<1>1. /\ call[c].pc = "provider" /\ call[c].o \in Orders /\ call[c].a \in Auths
      /\ call[c].k \in KeysOf[call[c].o] /\ call[c].k \in Keys
      /\ auth[call[c].a] # None /\ auth[call[c].a].status = "USED"
      /\ BoundTo(call[c].a, call[c].o)
      /\ \A s \in RzpOrders : rzp[s] # None => rzp[s].by # call[c].a
      /\ UNCHANGED <<auth, order, run, payment, attempt, disclosed>>
  BY DEF CallProvider, At, IInv, CallInv, CreationSteps, CreationAssumption
<1> PICK r \in RzpOrders :
      /\ rzp[r] = None
      /\ rzp' = [rzp EXCEPT ![r] = [receipt |-> call[c].o, by |-> call[c].a,
                                    declined |-> FALSE, captured |-> FALSE]]
      /\ \/ call' = [call EXCEPT ![c] =
                [pc |-> "insert", o |-> @.o, k |-> @.k, a |-> @.a, r |-> r]]
         \/ End(c, "idle")
  BY DEF CallProvider
<1> DEFINE new == [receipt |-> call[c].o, by |-> call[c].a,
                   declined |-> FALSE, captured |-> FALSE]
<1>2. /\ new \in RzpRecord /\ new # None
      /\ new.receipt = call[c].o /\ new.by = call[c].a /\ ~new.captured
  <2>1. new \in RzpRecord
    BY <1>1 DEF RzpRecord
  <2>2. new.receipt = call[c].o /\ new.by = call[c].a /\ ~new.captured
    OBVIOUS
  <2> HIDE DEF new
  <2> QED
    BY <2>1, <2>2, StoreAssumption
<1>3. /\ rzp' \in [RzpOrders -> RzpRecord \cup {None}]
      /\ rzp'[r] = new
      /\ \A s \in RzpOrders \ {r} : rzp'[s] = rzp[s]
  BY <1>2 DEF IInv, TypeInvariant, StoreTypeOK
<1> HIDE DEF new
<1>4. \A o \in Orders : HasPayment(o) => payment[o].r \in RzpOrders /\ payment[o].r # r
  BY DEF IInv, StoreInv, RowInv, TypeInvariant, StoreTypeOK, PaymentRow, HasPayment
<1>5. StoreTypeOK'
  BY <1>1, <1>3 DEF IInv, TypeInvariant, StoreTypeOK
<1>6. StoreInv'
  <2>1. RzpInv'
    BY <1>1, <1>2, <1>3 DEF IInv, StoreInv, RzpInv, BoundTo
  <2>2. RowInv' /\ OrderInv' /\ RunNamesFundingAuthorization' /\ PaidMeansCaptured'
    BY <1>1, <1>3, <1>4 DEF IInv, StoreInv, RowInv, OrderInv, RunNamesFundingAuthorization,
                            PaidMeansCaptured, HasPayment, Funder, Captured
  <2>3. OneAuthorizationOneRzpOrder'
    BY <1>1, <1>2, <1>3 DEF IInv, StoreInv, OneAuthorizationOneRzpOrder
  <2>4. BrowserPaysTrackedOrder' /\ MoneyIsTracked'
    BY <1>1, <1>2, <1>3 DEF IInv, StoreInv, BrowserPaysTrackedOrder, MoneyIsTracked, HasPayment
  <2> QED
    BY <2>1, <2>2, <2>3, <2>4 DEF StoreInv
<1>7. ConfirmationTypeOK' /\ HookInv' /\ VerifyInv'
  <2>1. ConfirmationTypeOK' /\ UNCHANGED <<sent, hook, verify>>
    BY ConfirmationTypeFrame DEF IInv, TypeInvariant, confirmationVars
  <2>2. \A e \in sent : e.r \in RzpOrders
    BY DEF IInv, TypeInvariant, ConfirmationTypeOK, Event
  <2>3. HookInv'
    BY <1>1, <1>3, <2>1, <2>2 DEF IInv, HookInv, HookKnows, HasPayment, Captured
  <2>4. VerifyInv'
    BY <1>1, <1>3, <1>4, <2>1 DEF IInv, VerifyInv, VerifyKnows, HasPayment, Captured
  <2> QED
    BY <2>1, <2>3, <2>4
<1>8. \A d \in Creators \ {c} : call[d].pc = "provider" => call[d].a # call[c].a
  BY <1>1 DEF IInv, ExclusiveInv
<1>9. CASE call' = [call EXCEPT ![c] =
                [pc |-> "insert", o |-> @.o, k |-> @.k, a |-> @.a, r |-> r]]
  <2> DEFINE next == [pc |-> "insert", o |-> call[c].o, k |-> call[c].k, a |-> call[c].a, r |-> r]
  <2>1. /\ next \in Call /\ next.pc = "insert" /\ next.o = call[c].o /\ next.k = call[c].k
        /\ next.a = call[c].a /\ next.r = r
    BY <1>1 DEF Call, CreationSteps
  <2>2. call' = [call EXCEPT ![c] = next]
    BY <1>9
  <2> HIDE DEF next
  <2>3. /\ CreationTypeOK' /\ call'[c] = next
        /\ \A d \in Creators \ {c} : call'[d] = call[d]
    BY <2>1, <2>2 DEF CreationTypeOK, IInv, TypeInvariant
  <2>4. CallInv'
    <3> SUFFICES ASSUME NEW d \in Creators
                 PROVE  CallInv!(d)'
      BY DEF CallInv
    <3>1. CASE d = c
      BY <3>1, <1>1, <1>2, <1>3, <2>1, <2>3 DEF BoundTo, CreationSteps
    <3>2. CASE d # c
      BY <3>2, <1>1, <1>2, <1>3, <1>8, <2>3 DEF IInv, CallInv, BoundTo, HasPayment, CreationSteps
    <3> QED
      BY <3>1, <3>2
  <2>5. ExclusiveInv'
    BY <2>1, <2>3 DEF IInv, ExclusiveInv
  <2> QED
    BY <1>5, <1>6, <1>7, <2>3, <2>4, <2>5 DEF IInv, TypeInvariant
<1>10. CASE End(c, "idle")
  <2>1. "idle" \in CreationEnds
    BY DEF CreationEnds
  <2>2. /\ CreationTypeOK' /\ call'[c].pc = "idle"
        /\ \A d \in Creators \ {c} : call'[d] = call[d]
    BY ONLY <1>10, <2>1, IInv, c \in Creators, EndFacts DEF IInv, TypeInvariant
  <2>3. CallInv'
    BY <1>1, <1>2, <1>3, <1>8, <2>2 DEF IInv, CallInv, BoundTo, HasPayment, CreationSteps
  <2>4. ExclusiveInv'
    BY <2>2 DEF IInv, ExclusiveInv
  <2> QED
    BY <1>5, <1>6, <1>7, <2>2, <2>3, <2>4 DEF IInv, TypeInvariant
<1> QED
  BY <1>9, <1>10

\* Inserting the row: the order had none, so no browser was told anything for
\* it, nothing was captured for it, and it is not paid.
LEMMA CreationInserts ==
  ASSUME IInv, NEW c \in Creators, UNCHANGED confirmationVars, InsertRow(c)
  PROVE  IInv'
<1>1. /\ call[c].pc = "insert" /\ call[c].o \in Orders /\ call[c].r \in RzpOrders
      /\ call[c].k \in KeysOf[call[c].o] /\ call[c].k \in Keys
      /\ rzp[call[c].r] # None /\ rzp[call[c].r].receipt = call[c].o
      /\ rzp[call[c].r].by = call[c].a
      /\ InsertPayment(call[c].o, call[c].r, call[c].k) /\ Goto(c, "tag")
      /\ UNCHANGED <<auth, order, run, attempt, rzp, disclosed>>
  BY CreationAssumption DEF InsertRow, At, IInv, CallInv, CreationSteps
<1> PICK o \in Orders, r \in RzpOrders, k \in Keys : o = call[c].o /\ r = call[c].r /\ k = call[c].k
  BY <1>1
<1>2. /\ payment' \in [Orders -> PaymentRow \cup {None}]
      /\ payment[o] = None /\ payment'[o] # None
      /\ payment'[o].status = "pending" /\ payment'[o].r = r /\ payment'[o].key = k
      /\ \A p \in Orders \ {o} : payment'[p] = payment[p]
  <2>1. InsertPayment(o, r, k)
    BY <1>1
  <2> QED
    BY ONLY <2>1, IInv, InsertPaymentFacts DEF IInv, TypeInvariant
<1>3. StoreTypeOK'
  BY <1>1, <1>2 DEF IInv, TypeInvariant, StoreTypeOK
<1>4. order[o] # "paid" /\ run[o] = None
  BY <1>2 DEF IInv, StoreInv, PaidMeansCaptured, RunNamesFundingAuthorization, Captured, HasPayment
<1>5. StoreInv'
  <2>1. RzpInv' /\ OrderInv' /\ OneAuthorizationOneRzpOrder'
    BY <1>1 DEF IInv, StoreInv, RzpInv, OrderInv, OneAuthorizationOneRzpOrder, BoundTo
  <2>2. RowInv'
    BY <1>1, <1>2 DEF IInv, StoreInv, RowInv, HasPayment
  <2>3. RunNamesFundingAuthorization' /\ PaidMeansCaptured'
    BY <1>1, <1>2, <1>4 DEF IInv, StoreInv, RunNamesFundingAuthorization,
                            PaidMeansCaptured, HasPayment, Funder, Captured
  <2>4. BrowserPaysTrackedOrder' /\ MoneyIsTracked'
    BY <1>1, <1>2 DEF IInv, StoreInv, BrowserPaysTrackedOrder, MoneyIsTracked, HasPayment,
                      TypeInvariant, StoreTypeOK, RzpRecord
  <2> QED
    BY <2>1, <2>2, <2>3, <2>4 DEF StoreInv
<1>6. ConfirmationTypeOK' /\ HookInv' /\ VerifyInv'
  <2>1. ConfirmationTypeOK' /\ UNCHANGED <<sent, hook, verify>>
    BY ConfirmationTypeFrame DEF IInv, TypeInvariant, confirmationVars
  <2>2. HookInv'
    BY <1>1, <1>2, <2>1 DEF IInv, HookInv, HookKnows, HasPayment, Captured, HookSteps
  <2>3. VerifyInv'
    BY <1>1, <1>2, <2>1 DEF IInv, VerifyInv, VerifyKnows, HasPayment, Captured, VerifySteps
  <2> QED
    BY <2>1, <2>2, <2>3
<1>7. /\ CreationTypeOK'
      /\ call'[c].pc = "tag" /\ call'[c].o = o /\ call'[c].k = k
      /\ call'[c].a = call[c].a /\ call'[c].r = r
      /\ \A d \in Creators \ {c} : call'[d] = call[d]
  <2>1. "tag" \in CreationSteps \cup CreationEnds /\ Goto(c, "tag")
    BY <1>1 DEF CreationSteps
  <2>2. /\ CreationTypeOK'
        /\ call'[c].pc = "tag" /\ call'[c].o = call[c].o /\ call'[c].k = call[c].k
        /\ call'[c].a = call[c].a /\ call'[c].r = call[c].r
        /\ \A d \in Creators \ {c} : call'[d] = call[d]
    BY ONLY <2>1, IInv, c \in Creators, GotoFacts DEF IInv, TypeInvariant
  <2> QED
    BY <2>2
<1>8. CallInv'
  <2>1. \A d \in Creators \ {c} : call[d].pc \in {"tag", "attempt"} => call[d].o # o
    BY <1>2 DEF IInv, CallInv, HasPayment
  <2> QED
    BY <1>1, <1>2, <1>7, <2>1 DEF IInv, CallInv, BoundTo, HasPayment, CreationSteps
<1>9. ExclusiveInv'
  BY <1>7 DEF IInv, ExclusiveInv
<1> QED
  BY <1>3, <1>5, <1>6, <1>7, <1>8, <1>9 DEF IInv, TypeInvariant

\* Tagging the order's run and recording its attempt.
LEMMA CreationFinishes ==
  ASSUME IInv, NEW c \in Creators, UNCHANGED confirmationVars, TagRun(c) \/ RecordAttempt(c)
  PROVE  IInv'
<1>1. /\ call[c].pc \in {"tag", "attempt"} /\ call[c].pc \in CreationSteps
      /\ call[c].o \in Orders /\ call[c].a \in Auths
      /\ call[c].r \in RzpOrders /\ rzp[call[c].r].by = call[c].a
      /\ HasPayment(call[c].o) /\ payment[call[c].o].r = call[c].r
  BY DEF TagRun, RecordAttempt, At, IInv, CallInv, CreationSteps
<1>2. CASE TagRun(c)
  <2>1. /\ Goto(c, "attempt") /\ UNCHANGED <<auth, order, payment, attempt, rzp, disclosed>>
        /\ run' \in [Orders -> Auths \cup {None}]
        /\ \A o \in Orders : run'[o] # run[o] => o = call[c].o /\ run'[o] = call[c].a
    BY <1>1, <1>2 DEF TagRun, IInv, TypeInvariant, StoreTypeOK
  <2>2. StoreTypeOK'
    BY <2>1 DEF IInv, TypeInvariant, StoreTypeOK
  <2>3. StoreInv'
    <3>1. RunNamesFundingAuthorization'
      BY <1>1, <2>1 DEF IInv, StoreInv, RunNamesFundingAuthorization, Funder, HasPayment
    <3>2. RzpInv' /\ RowInv' /\ OrderInv' /\ OneAuthorizationOneRzpOrder'
          /\ BrowserPaysTrackedOrder' /\ MoneyIsTracked' /\ PaidMeansCaptured'
      BY <2>1 DEF IInv, StoreInv, RzpInv, RowInv, OrderInv, OneAuthorizationOneRzpOrder,
                  BrowserPaysTrackedOrder, MoneyIsTracked, PaidMeansCaptured, BoundTo,
                  HasPayment, Captured
    <3> QED
      BY <3>1, <3>2 DEF StoreInv
  <2>4. ConfirmationTypeOK' /\ HookInv' /\ VerifyInv'
    BY <2>1, ConfirmationFrame
  <2>5. CreationTypeOK' /\ CallInv' /\ ExclusiveInv'
    BY <1>1, <2>1, CreationMoves DEF CreationSteps
  <2> QED
    BY <2>2, <2>3, <2>4, <2>5 DEF IInv, TypeInvariant
<1>3. CASE RecordAttempt(c)
  <2>1. attempt' \in [Orders -> AttemptStatuses]
    BY <1>1, <1>3 DEF RecordAttempt, AttemptStatuses, IInv, TypeInvariant, StoreTypeOK
  <2> QED
    BY <1>1, <1>3, <2>1, AnswerPreserves DEF RecordAttempt
<1> QED
  BY <1>2, <1>3

------------------------------------------------------------------------------
\* Confirmation.

\* A creation handler does not notice a change of a row's status, nor a payment
\* on a Razorpay order.
LEMMA CreationUndisturbed ==
  ASSUME IInv, UNCHANGED <<call, auth>>,
         \A o \in Orders : HasPayment(o) => HasPayment(o)' /\ payment'[o].r = payment[o].r,
         \A r \in RzpOrders :
           /\ rzp'[r] = None <=> rzp[r] = None
           /\ rzp[r] # None => rzp'[r].receipt = rzp[r].receipt /\ rzp'[r].by = rzp[r].by
  PROVE  CreationTypeOK' /\ CallInv' /\ ExclusiveInv'
<1>1. CreationTypeOK' /\ ExclusiveInv'
  BY DEF IInv, TypeInvariant, CreationTypeOK, ExclusiveInv
<1>2. CallInv'
  BY DEF IInv, CallInv, BoundTo, CreationSteps, HasPayment
<1> QED
  BY <1>1, <1>2

\* A buyer pays, or tries to: only a Razorpay order that a browser was told of,
\* hence one that its order's row tracks.
LEMMA BuyerPays ==
  ASSUME IInv, UNCHANGED call, NEW r \in RzpOrders,
         PayDeclined(r) \/ \E exact \in Reports : PayCaptured(r, exact)
  PROVE  IInv'
<1>1. /\ rzp[r] # None /\ rzp[r] \in RzpRecord
      /\ UNCHANGED <<auth, order, run, payment, attempt, disclosed,
                     acked, stored, audited, published, hook, verify>>
  BY DEF PayDeclined, PayCaptured, IInv, TypeInvariant, StoreTypeOK
<1>2. payment[rzp[r].receipt].r = r /\ HasPayment(rzp[r].receipt)
  <2>1. PICK o \in Orders : <<o, r>> \in disclosed
    BY DEF PayDeclined, PayCaptured
  <2>2. HasPayment(o) /\ payment[o].r = r
    BY <2>1 DEF IInv, StoreInv, BrowserPaysTrackedOrder
  <2> QED
    BY <2>2 DEF IInv, StoreInv, RowInv
<1>3. PICK new, e :
        /\ rzp' = [rzp EXCEPT ![r] = new] /\ sent' = sent \cup {e}
        /\ new \in RzpRecord /\ new.receipt = rzp[r].receipt /\ new.by = rzp[r].by
        /\ rzp[r].captured => new.captured
        /\ e \in Event /\ e.r = r /\ (e.topic = "captured" => new.captured)
  <2>1. CASE PayDeclined(r)
    <3> DEFINE new == [rzp[r] EXCEPT !.declined = TRUE]
    <3> DEFINE e == [topic |-> "declined", r |-> r, exact |-> TRUE]
    <3>1. rzp' = [rzp EXCEPT ![r] = new] /\ sent' = sent \cup {e}
      BY <2>1 DEF PayDeclined
    <3>2. /\ new \in RzpRecord /\ new.receipt = rzp[r].receipt /\ new.by = rzp[r].by
          /\ rzp[r].captured => new.captured
      BY <1>1 DEF RzpRecord
    <3>3. e \in Event /\ e.r = r /\ e.topic = "declined"
      BY DEF Event, Topics
    <3> HIDE DEF new, e
    <3> QED
      BY <3>1, <3>2, <3>3
  <2>2. CASE \E exact \in Reports : PayCaptured(r, exact)
    <3> PICK exact \in Reports : PayCaptured(r, exact)
      BY <2>2
    <3> DEFINE new == [rzp[r] EXCEPT !.captured = TRUE]
    <3> DEFINE e == [topic |-> "captured", r |-> r, exact |-> exact]
    <3>1. rzp' = [rzp EXCEPT ![r] = new] /\ sent' = sent \cup {e}
      BY DEF PayCaptured
    <3>2. /\ new \in RzpRecord /\ new.receipt = rzp[r].receipt /\ new.by = rzp[r].by
          /\ new.captured
      BY <1>1 DEF RzpRecord
    <3>3. e \in Event /\ e.r = r
      BY ConfirmationAssumption DEF Event, Topics
    <3> HIDE DEF new, e
    <3> QED
      BY <3>1, <3>2, <3>3
  <2> QED
    BY <2>1, <2>2
<1>4. /\ rzp' \in [RzpOrders -> RzpRecord \cup {None}]
      /\ rzp'[r] = new /\ new # None
      /\ \A s \in RzpOrders \ {r} : rzp'[s] = rzp[s]
  BY <1>3, StoreAssumption DEF IInv, TypeInvariant, StoreTypeOK
<1>5. \A s \in RzpOrders :
        /\ rzp'[s] = None <=> rzp[s] = None
        /\ rzp[s] # None => /\ rzp'[s].receipt = rzp[s].receipt /\ rzp'[s].by = rzp[s].by
                            /\ rzp[s].captured => rzp'[s].captured
  BY <1>1, <1>3, <1>4
<1>6. \A o \in Orders : HasPayment(o) => payment[o].r \in RzpOrders
  BY DEF IInv, TypeInvariant, StoreTypeOK, PaymentRow, HasPayment
<1>7. StoreTypeOK' /\ ConfirmationTypeOK'
  BY <1>1, <1>3, <1>4 DEF IInv, TypeInvariant, StoreTypeOK, ConfirmationTypeOK
<1>8. StoreInv'
  <2>1. RzpInv'
    BY <1>1, <1>5 DEF IInv, StoreInv, RzpInv, BoundTo, TypeInvariant, StoreTypeOK, RzpRecord
  <2>2. RowInv' /\ OrderInv' /\ RunNamesFundingAuthorization'
    BY <1>1, <1>5, <1>6 DEF IInv, StoreInv, RowInv, OrderInv,
                            RunNamesFundingAuthorization, HasPayment, Funder
  <2>3. OneAuthorizationOneRzpOrder' /\ BrowserPaysTrackedOrder'
    BY <1>1, <1>5 DEF IInv, StoreInv, OneAuthorizationOneRzpOrder, BrowserPaysTrackedOrder, HasPayment
  <2>4. MoneyIsTracked'
    BY <1>1, <1>2, <1>3, <1>4 DEF IInv, StoreInv, MoneyIsTracked, HasPayment
  <2>5. PaidMeansCaptured'
    BY <1>1, <1>5, <1>6 DEF IInv, StoreInv, PaidMeansCaptured, Captured, HasPayment
  <2> QED
    BY <2>1, <2>2, <2>3, <2>4, <2>5 DEF StoreInv
<1>9. CreationTypeOK' /\ CallInv' /\ ExclusiveInv'
  BY <1>1, <1>5, CreationUndisturbed DEF HasPayment
<1>10. HookInv'
  <2>1. \A f \in sent : f.r \in RzpOrders
    BY DEF IInv, TypeInvariant, ConfirmationTypeOK, Event
  <2> QED
    BY <1>1, <1>3, <1>4, <1>5, <2>1 DEF IInv, HookInv, HookKnows, HasPayment, Captured
<1>11. VerifyInv'
  BY <1>1, <1>5, <1>6 DEF IInv, VerifyInv, VerifyKnows, HasPayment, Captured
<1> QED
  BY <1>7, <1>8, <1>9, <1>10, <1>11 DEF IInv, TypeInvariant

\* A delivery's step that leaves rows and books alone.
LEMMA HookQuietStep ==
  ASSUME IInv, NEW w \in Hooks,
         UNCHANGED <<auth, order, run, payment, rzp, disclosed, call, sent, verify>>,
         attempt' \in [Orders -> AttemptStatuses],
         acked' \subseteq sent, stored' \subseteq sent,
         audited' \in [Orders -> [Topics -> Nat]],
         published' \in [Orders -> [Topics -> Nat]],
         hook' \in [Hooks -> Hook],
         \A x \in Hooks \ {w} : hook'[x] = hook[x],
         HookKnows(w)'
  PROVE  IInv'
<1>1. StoreTypeOK' /\ ConfirmationTypeOK'
  BY DEF IInv, TypeInvariant, StoreTypeOK, ConfirmationTypeOK
<1>2. StoreInv'
  BY DEF IInv, StoreInv, RzpInv, RowInv, OrderInv, OneAuthorizationOneRzpOrder,
         BrowserPaysTrackedOrder, RunNamesFundingAuthorization, MoneyIsTracked,
         PaidMeansCaptured, BoundTo, HasPayment, Funder, Captured
<1>3. CreationTypeOK' /\ CallInv' /\ ExclusiveInv'
  BY CallFrame DEF IInv, TypeInvariant
<1>4. VerifyInv'
  BY VerifyFrame DEF IInv
<1>5. HookInv'
  BY DEF IInv, HookInv, HookKnows, HasPayment, Captured
<1> QED
  BY <1>1, <1>2, <1>3, <1>4, <1>5 DEF IInv, TypeInvariant

\* Storing the event, taking it for a duplicate, or breaking off.
LEMMA HookReceives ==
  ASSUME IInv, UNCHANGED call, NEW w \in Hooks,
         BreakHook(w) \/ \E e \in sent : StoreEvent(w, e) \/ IgnoreDuplicate(w, e)
  PROVE  IInv'
<1>1. /\ UNCHANGED <<auth, order, run, payment, rzp, disclosed, attempt, sent, verify,
                     audited, published>>
      /\ attempt \in [Orders -> AttemptStatuses] /\ hook \in [Hooks -> Hook]
      /\ acked \subseteq sent /\ stored \subseteq sent
      /\ audited \in [Orders -> [Topics -> Nat]] /\ published \in [Orders -> [Topics -> Nat]]
  BY DEF BreakHook, StoreEvent, IgnoreDuplicate, storeVars, IInv, TypeInvariant,
         StoreTypeOK, ConfirmationTypeOK
<1>2. CASE BreakHook(w)
  <2>1. hook' = [hook EXCEPT ![w] = HookIdle] /\ UNCHANGED <<acked, stored>>
    BY <1>2 DEF BreakHook, Reject
  <2>2. /\ hook' \in [Hooks -> Hook] /\ hook'[w].pc = "idle"
        /\ \A x \in Hooks \ {w} : hook'[x] = hook[x]
    BY ONLY <1>1, <2>1, w \in Hooks, HookIdleFacts
  <2>3. HookKnows(w)'
    BY <2>2 DEF HookKnows, HookSteps
  <2> QED
    BY <1>1, <2>1, <2>2, <2>3, HookQuietStep
<1>3. ASSUME NEW e \in sent, StoreEvent(w, e) PROVE IInv'
  <2> DEFINE new == [pc |-> "lookup", e |-> e, o |-> None]
  <2>1. new \in Hook /\ new.pc = "lookup" /\ new.e = e
    BY DEF Hook, HookSteps, IInv, TypeInvariant, ConfirmationTypeOK
  <2>2. /\ hook' = [hook EXCEPT ![w] = new] /\ stored' = stored \cup {e} /\ UNCHANGED acked
    BY <1>3 DEF StoreEvent
  <2> HIDE DEF new
  <2>3. /\ hook' \in [Hooks -> Hook] /\ hook'[w] = new
        /\ \A x \in Hooks \ {w} : hook'[x] = hook[x]
    BY <1>1, <2>1, <2>2
  <2>4. HookKnows(w)'
    BY <1>1, <2>1, <2>3 DEF HookKnows, HookSteps
  <2> QED
    BY <1>1, <2>2, <2>3, <2>4, HookQuietStep
<1>4. ASSUME NEW e \in sent, IgnoreDuplicate(w, e) PROVE IInv'
  <2>1. acked' = acked \cup {e} /\ UNCHANGED <<stored, hook>>
    BY <1>4 DEF IgnoreDuplicate
  <2>2. HookKnows(w)'
    BY <1>1, <2>1 DEF IInv, HookInv, HookKnows, HasPayment, Captured
  <2> QED
    BY <1>1, <2>1, <2>2, HookQuietStep
<1> QED
  BY <1>2, <1>3, <1>4

\* The lookup: the row found tracks the event's Razorpay order.
LEMMA HookLooksUp ==
  ASSUME IInv, UNCHANGED call, NEW w \in Hooks, LookupCaptured(w) \/ LookupDeclined(w)
  PROVE  IInv'
<1>1. /\ UNCHANGED <<auth, order, run, payment, rzp, disclosed, attempt, sent, verify,
                     stored, audited, published>>
      /\ attempt \in [Orders -> AttemptStatuses] /\ hook \in [Hooks -> Hook]
      /\ acked \subseteq sent /\ stored \subseteq sent
      /\ audited \in [Orders -> [Topics -> Nat]] /\ published \in [Orders -> [Topics -> Nat]]
  BY DEF LookupCaptured, LookupDeclined, storeVars, IInv, TypeInvariant,
         StoreTypeOK, ConfirmationTypeOK
<1>2. hook[w].pc = "lookup" /\ hook[w].e \in sent /\ hook[w].e \in Event
  BY DEF LookupCaptured, LookupDeclined, HookAt, IInv, HookInv, HookKnows,
         TypeInvariant, ConfirmationTypeOK
<1>3. CASE hook' = [hook EXCEPT ![w] = HookIdle] /\ acked' \subseteq sent
  <2>1. /\ hook' \in [Hooks -> Hook] /\ hook'[w].pc = "idle"
        /\ \A x \in Hooks \ {w} : hook'[x] = hook[x]
    BY ONLY <1>1, <1>3, w \in Hooks, HookIdleFacts
  <2>2. HookKnows(w)'
    BY <2>1 DEF HookKnows, HookSteps
  <2> QED
    BY <1>1, <1>3, <2>1, <2>2, HookQuietStep
<1>4. ASSUME NEW o \in RowsWithRzp(hook[w].e.r), NEW pc \in {"authorize", "fail"},
             hook' = [hook EXCEPT ![w] = [pc |-> pc, e |-> @.e, o |-> o]],
             UNCHANGED acked,
             pc = "authorize" => hook[w].e.topic = "captured",
             pc = "fail" => hook[w].e.topic = "declined"
      PROVE  IInv'
  <2> DEFINE new == [pc |-> pc, e |-> hook[w].e, o |-> o]
  <2>1. o \in Orders /\ HasPayment(o) /\ payment[o].r = hook[w].e.r
    BY <1>4 DEF RowsWithRzp
  <2>2. new \in Hook /\ new.pc = pc /\ new.e = hook[w].e /\ new.o = o
    BY <1>2, <2>1 DEF Hook, HookSteps
  <2>3. hook' = [hook EXCEPT ![w] = new]
    BY <1>4
  <2> HIDE DEF new
  <2>4. /\ hook' \in [Hooks -> Hook] /\ hook'[w] = new
        /\ \A x \in Hooks \ {w} : hook'[x] = hook[x]
    BY <1>1, <2>2, <2>3
  <2>5. HookKnows(w)'
    BY <1>1, <1>2, <1>4, <2>1, <2>2, <2>4 DEF HookKnows, HookSteps, HasPayment
  <2> QED
    BY <1>1, <1>4, <2>4, <2>5, HookQuietStep
<1>5. CASE LookupCaptured(w)
  BY <1>1, <1>2, <1>3, <1>4, <1>5 DEF LookupCaptured, Acknowledge, Reject
<1>6. CASE LookupDeclined(w)
  BY <1>1, <1>2, <1>3, <1>4, <1>6 DEF LookupDeclined, Acknowledge, Reject
<1> QED
  BY <1>5, <1>6

\* A transition of a row made by a delivery or a confirmation leaves every
\* other handler's knowledge intact.
LEMMA MovePaymentStep ==
  ASSUME IInv, UNCHANGED <<call, auth, order, run, attempt, rzp, disclosed, sent>>,
         NEW o \in Orders, NEW to \in {"authorized", "captured", "failed"},
         NEW payId \in {"declined", "captured"}, MovePayment(o, to, payId),
         to # "failed" => payId = "captured" /\ rzp[payment[o].r].captured
  PROVE  /\ StoreTypeOK' /\ StoreInv' /\ CreationTypeOK' /\ CallInv' /\ ExclusiveInv'
         /\ payment'[o].status = to /\ HasPayment(o)' /\ payment'[o].r = payment[o].r
         /\ \A w \in Hooks : hook'[w] = hook[w] => HookKnows(w)'
         /\ \A v \in Verifiers : verify'[v] = verify[v] => VerifyKnows(v)'
<1>1. /\ StoreTypeOK' /\ StoreInv'
      /\ payment'[o].status = to /\ HasPayment(o)'
      /\ \A p \in Orders :
           /\ HasPayment(p) => HasPayment(p)' /\ payment'[p].r = payment[p].r
           /\ Captured(p) => Captured(p)'
           /\ HasPayment(p) /\ payment[p].status = "failed" => payment'[p].status = "failed"
  BY MovePaymentPreserves DEF IInv, TypeInvariant
<1>2. CreationTypeOK' /\ CallInv' /\ ExclusiveInv'
  BY <1>1, CreationUndisturbed
<1>3. HasPayment(o)
  BY DEF MovePayment, CanMovePayment
<1>4. \A w \in Hooks : hook'[w] = hook[w] => HookKnows(w)'
  <2> SUFFICES ASSUME NEW w \in Hooks, hook'[w] = hook[w]
               PROVE  HookKnows(w)'
    OBVIOUS
  <2>1. HookKnows(w) /\ (hook[w].pc = "markFailed" => HasPayment(hook[w].o) /\ hook[w].o \in Orders)
    BY DEF IInv, HookInv, HookKnows, HookSteps
  <2>2. hook[w].pc \in {"payOrder", "markPaid"} => hook[w].o \in Orders
    BY <2>1 DEF HookKnows, HookSteps
  <2> QED
    BY <1>1, <2>1, <2>2 DEF HookKnows, HookSteps
<1>5. \A v \in Verifiers : verify'[v] = verify[v] => VerifyKnows(v)'
  <2> SUFFICES ASSUME NEW v \in Verifiers, verify'[v] = verify[v]
               PROVE  VerifyKnows(v)'
    OBVIOUS
  <2>1. VerifyKnows(v)
    BY DEF IInv, VerifyInv
  <2> QED
    BY <1>1, <2>1 DEF VerifyKnows, VerifySteps
<1> QED
  BY <1>1, <1>2, <1>3, <1>4, <1>5

\* A guarded transition by a delivery: taken, or refused.
LEMMA HookMoves ==
  ASSUME IInv, UNCHANGED call, NEW w \in Hooks,
         HookAuthorize(w) \/ HookCapture(w) \/ HookFail(w)
  PROVE  IInv'
<1>1. PICK pc \in {"authorize", "capture", "fail"},
           to \in {"authorized", "captured", "failed"},
           next \in {"capture", "payOrder", "markFailed"} :
        /\ HookMovePayment(w, pc, to, next)
        /\ to = "failed" <=> pc = "fail"
        /\ next = "markFailed" <=> pc = "fail"
        /\ next = "payOrder" <=> to = "captured"
  BY DEF HookAuthorize, HookCapture, HookFail
<1>2. /\ hook[w].pc = pc /\ hook[w].o \in Orders /\ hook[w].e \in sent
      /\ hook[w].e.topic \in {"declined", "captured"}
      /\ pc # "fail" => hook[w].e.topic = "captured"
      /\ pc = "fail" => hook[w].e.topic = "declined"
      /\ HasPayment(hook[w].o) /\ payment[hook[w].o].r = hook[w].e.r
      /\ hook[w].e.topic = "captured" => rzp[hook[w].e.r].captured
  BY <1>1 DEF HookMovePayment, HookAt, IInv, HookInv, HookKnows, HookSteps
<1>3. /\ UNCHANGED <<auth, order, run, attempt, rzp, disclosed, sent, stored, audited,
                     published, verify>>
      /\ attempt \in [Orders -> AttemptStatuses] /\ hook \in [Hooks -> Hook]
      /\ acked \subseteq sent /\ stored \subseteq sent
      /\ audited \in [Orders -> [Topics -> Nat]] /\ published \in [Orders -> [Topics -> Nat]]
  BY <1>1 DEF HookMovePayment, IInv, TypeInvariant, StoreTypeOK, ConfirmationTypeOK
<1>4. CASE /\ MovePayment(hook[w].o, to, hook[w].e.topic) /\ HookGoto(w, next)
           /\ UNCHANGED acked
  <2> PICK o \in Orders, payId \in {"declined", "captured"} : o = hook[w].o /\ payId = hook[w].e.topic
    BY <1>2
  <2>1. to # "failed" => payId = "captured" /\ rzp[payment[o].r].captured
    BY <1>1, <1>2
  <2>2. MovePayment(o, to, payId)
    BY <1>4
  <2>3. /\ StoreTypeOK' /\ StoreInv' /\ CreationTypeOK' /\ CallInv' /\ ExclusiveInv'
        /\ payment'[o].status = to /\ HasPayment(o)' /\ payment'[o].r = payment[o].r
        /\ \A x \in Hooks : hook'[x] = hook[x] => HookKnows(x)'
        /\ \A v \in Verifiers : verify'[v] = verify[v] => VerifyKnows(v)'
    BY <1>3, <2>1, <2>2, MovePaymentStep
  <2>4. next \in HookSteps \cup {"idle"}
    BY DEF HookSteps
  <2>5. /\ hook' \in [Hooks -> Hook]
        /\ hook'[w].pc = next /\ hook'[w].e = hook[w].e /\ hook'[w].o = hook[w].o
        /\ \A x \in Hooks \ {w} : hook'[x] = hook[x]
    BY ONLY <1>3, <1>4, <2>4, w \in Hooks, HookGotoFacts
  <2>6. HookKnows(w)'
    BY <1>1, <1>2, <1>3, <2>3, <2>5 DEF HookKnows, HookSteps, Captured
  <2>7. HookInv'
    BY <1>3, <2>3, <2>5, <2>6 DEF IInv, HookInv
  <2>8. VerifyInv'
    BY <1>3, <2>3 DEF VerifyInv
  <2>9. ConfirmationTypeOK'
    BY <1>3, <1>4, <2>5 DEF IInv, TypeInvariant, ConfirmationTypeOK
  <2> QED
    BY <2>3, <2>7, <2>8, <2>9 DEF IInv, TypeInvariant
<1>5. CASE Reject(w) /\ UNCHANGED payment
  <2>1. hook' = [hook EXCEPT ![w] = HookIdle] /\ UNCHANGED acked
    BY <1>5 DEF Reject
  <2>2. /\ hook' \in [Hooks -> Hook] /\ hook'[w].pc = "idle"
        /\ \A x \in Hooks \ {w} : hook'[x] = hook[x]
    BY ONLY <1>3, <2>1, w \in Hooks, HookIdleFacts
  <2>3. HookKnows(w)'
    BY <2>2 DEF HookKnows, HookSteps
  <2> QED
    BY <1>3, <1>5, <2>1, <2>2, <2>3, HookQuietStep
<1> QED
  BY <1>1, <1>4, <1>5 DEF HookMovePayment

\* Paying an order whose payment is captured keeps the store's invariant.
LEMMA MoveOrderPreserves ==
  ASSUME StoreTypeOK, StoreInv, NEW o \in Orders, Captured(o), MoveOrder(o, "paid"),
         UNCHANGED <<auth, run, payment, attempt, rzp, disclosed>>
  PROVE  StoreTypeOK' /\ StoreInv'
<1>1. order' = [order EXCEPT ![o] = "paid"] /\ "paid" \in OrderStatuses
  BY DEF MoveOrder, OrderStatuses
<1>2. StoreTypeOK'
  BY <1>1 DEF StoreTypeOK
<1>3. PaidMeansCaptured' /\ OrderInv'
  BY <1>1 DEF StoreInv, PaidMeansCaptured, OrderInv, RowInv, Captured, HasPayment, StoreTypeOK
<1>4. RzpInv' /\ RowInv' /\ OneAuthorizationOneRzpOrder' /\ BrowserPaysTrackedOrder'
      /\ RunNamesFundingAuthorization' /\ MoneyIsTracked'
  BY DEF StoreInv, RzpInv, RowInv, OneAuthorizationOneRzpOrder, BrowserPaysTrackedOrder,
         RunNamesFundingAuthorization, MoneyIsTracked, BoundTo, HasPayment, Funder
<1> QED
  BY <1>2, <1>3, <1>4 DEF StoreInv

\* A delivery pays the order, marks the attempt, audits and publishes.
LEMMA HookFinishes ==
  ASSUME IInv, UNCHANGED call, NEW w \in Hooks,
         \/ HookPayOrder(w) \/ HookMarkPaid(w) \/ HookMarkFailed(w)
         \/ HookAudit(w) \/ HookPublish(w)
  PROVE  IInv'
<1>1. /\ UNCHANGED <<auth, run, payment, rzp, disclosed, sent, verify, stored>>
      /\ attempt \in [Orders -> AttemptStatuses] /\ hook \in [Hooks -> Hook]
      /\ acked \subseteq sent /\ stored \subseteq sent
      /\ audited \in [Orders -> [Topics -> Nat]] /\ published \in [Orders -> [Topics -> Nat]]
  BY DEF HookPayOrder, HookMarkPaid, HookMarkFailed, HookMarkAttempt, HookAudit, HookPublish,
         storeVars, IInv, TypeInvariant, StoreTypeOK, ConfirmationTypeOK
<1>2. /\ HookKnows(w) /\ hook[w].o \in Orders /\ hook[w].e \in sent
      /\ hook[w].e.topic \in Topics
      /\ hook[w].pc = "payOrder" => Captured(hook[w].o)
  BY DEF HookPayOrder, HookMarkPaid, HookMarkFailed, HookMarkAttempt, HookAudit, HookPublish,
         HookAt, IInv, HookInv, HookKnows, HookSteps, TypeInvariant, ConfirmationTypeOK, Event
<1>3. ASSUME hook' = [hook EXCEPT ![w] = HookIdle], acked' \subseteq sent, UNCHANGED order,
             attempt' \in [Orders -> AttemptStatuses], UNCHANGED audited,
             published' \in [Orders -> [Topics -> Nat]]
      PROVE  IInv'
  <2>1. /\ hook' \in [Hooks -> Hook] /\ hook'[w].pc = "idle"
        /\ \A x \in Hooks \ {w} : hook'[x] = hook[x]
    BY ONLY <1>1, <1>3, w \in Hooks, HookIdleFacts
  <2>2. HookKnows(w)'
    BY <2>1 DEF HookKnows, HookSteps
  <2> QED
    BY <1>1, <1>3, <2>1, <2>2, HookQuietStep
<1>4. ASSUME NEW next \in {"audit", "publish"}, HookGoto(w, next), UNCHANGED <<order, acked>>,
             hook[w].pc \in HookSteps \ {"lookup"},
             attempt' \in [Orders -> AttemptStatuses],
             audited' \in [Orders -> [Topics -> Nat]], UNCHANGED published
      PROVE  IInv'
  <2>1. next \in HookSteps \cup {"idle"}
    BY DEF HookSteps
  <2>2. /\ hook' \in [Hooks -> Hook]
        /\ hook'[w].pc = next /\ hook'[w].e = hook[w].e /\ hook'[w].o = hook[w].o
        /\ \A x \in Hooks \ {w} : hook'[x] = hook[x]
    BY ONLY <1>1, <1>4, <2>1, w \in Hooks, HookGotoFacts
  <2>3. HookKnows(w)'
    BY <1>1, <1>2, <1>4, <2>2 DEF HookKnows, HookSteps, HasPayment
  <2> QED
    BY <1>1, <1>4, <2>2, <2>3, HookQuietStep
<1>5. CASE HookPayOrder(w)
  <2>1. hook[w].pc = "payOrder" /\ UNCHANGED <<attempt, audited, published>>
    BY <1>5 DEF HookPayOrder, HookAt
  <2>2. CASE MoveOrder(hook[w].o, "paid") /\ HookGoto(w, "markPaid") /\ UNCHANGED acked
    <3>1. StoreTypeOK' /\ StoreInv'
      <4> PICK o \in Orders : o = hook[w].o
        BY <1>2
      <4>1. Captured(o) /\ MoveOrder(o, "paid")
        BY <1>2, <2>1, <2>2
      <4> QED
        BY <4>1, <1>1, <2>1, MoveOrderPreserves DEF IInv, TypeInvariant
    <3>2. CreationTypeOK' /\ CallInv' /\ ExclusiveInv'
      BY <1>1, CallFrame DEF IInv, TypeInvariant
    <3>3. "markPaid" \in HookSteps \cup {"idle"}
      BY DEF HookSteps
    <3>4. /\ hook' \in [Hooks -> Hook]
          /\ hook'[w].pc = "markPaid" /\ hook'[w].e = hook[w].e /\ hook'[w].o = hook[w].o
          /\ \A x \in Hooks \ {w} : hook'[x] = hook[x]
      BY ONLY <1>1, <2>2, <3>3, w \in Hooks, HookGotoFacts
    <3>5. HookInv'
      BY <1>1, <2>1, <3>4 DEF IInv, HookInv, HookKnows, HookSteps, HasPayment, Captured
    <3>6. VerifyInv'
      BY <1>1, VerifyFrame DEF IInv
    <3>7. ConfirmationTypeOK'
      BY <1>1, <2>1, <2>2, <3>4 DEF IInv, TypeInvariant, ConfirmationTypeOK
    <3> QED
      BY <3>1, <3>2, <3>5, <3>6, <3>7, <3>4 DEF IInv, TypeInvariant
  <2>3. CASE Reject(w) /\ UNCHANGED order
    BY <1>1, <1>3, <2>1, <2>3 DEF Reject
  <2> QED
    BY <1>5, <2>2, <2>3 DEF HookPayOrder
<1>6. CASE HookMarkPaid(w) \/ HookMarkFailed(w)
  <2>1. /\ HookGoto(w, "audit") /\ UNCHANGED <<order, acked, audited, published>>
        /\ hook[w].pc \in {"markPaid", "markFailed"}
        /\ \E to \in {"paid", "failed"} : MarkAttempt(hook[w].o, to) \/ UNCHANGED attempt
    BY <1>6 DEF HookMarkPaid, HookMarkFailed, HookMarkAttempt, HookAt
  <2>2. attempt' \in [Orders -> AttemptStatuses]
    BY <1>1, <1>2, <2>1 DEF MarkAttempt, AttemptStatuses
  <2> QED
    BY <1>1, <1>4, <2>1, <2>2 DEF HookSteps
<1>7. CASE HookAudit(w)
  <2>1. /\ HookGoto(w, "publish") /\ UNCHANGED <<order, attempt, acked, published>>
        /\ hook[w].pc = "audit"
    BY <1>7 DEF HookAudit, HookAt, storeVars
  <2>2. audited' \in [Orders -> [Topics -> Nat]]
    <3>1. PICK o \in Orders, t \in Topics : o = hook[w].o /\ t = hook[w].e.topic
      BY <1>2
    <3>2. [audited EXCEPT ![o][t] = @ + 1] \in [Orders -> [Topics -> Nat]]
      BY ONLY <1>1, o \in Orders, t \in Topics, CountFacts
    <3>3. audited' = [audited EXCEPT ![o][t] = @ + 1] \/ audited' = audited
      BY <1>7, <3>1 DEF HookAudit
    <3> QED
      BY ONLY <1>1, <3>2, <3>3
  <2> QED
    BY <1>1, <1>4, <2>1, <2>2 DEF HookSteps
<1>8. CASE HookPublish(w)
  <2>1. /\ hook' = [hook EXCEPT ![w] = HookIdle] /\ acked' = acked \cup {hook[w].e}
        /\ UNCHANGED <<order, attempt, audited>>
    BY <1>8 DEF HookPublish, Acknowledge, storeVars
  <2>2. published' \in [Orders -> [Topics -> Nat]]
    <3>1. PICK o \in Orders, t \in Topics : o = hook[w].o /\ t = hook[w].e.topic
      BY <1>2
    <3>2. [published EXCEPT ![o][t] = @ + 1] \in [Orders -> [Topics -> Nat]]
      BY ONLY <1>1, o \in Orders, t \in Topics, CountFacts
    <3>3. published' = [published EXCEPT ![o][t] = @ + 1] \/ published' = published
      BY <1>8, <3>1 DEF HookPublish
    <3> QED
      BY ONLY <1>1, <3>2, <3>3
  <2> QED
    BY <1>1, <1>2, <1>3, <2>1, <2>2
<1> QED
  BY <1>5, <1>6, <1>7, <1>8

------------------------------------------------------------------------------
\* The browser's confirmation.

\* A confirmation's step that leaves rows and books alone.
LEMMA VerifyQuietStep ==
  ASSUME IInv, NEW v \in Verifiers,
         UNCHANGED <<auth, order, run, payment, rzp, disclosed, call,
                     sent, acked, stored, audited, published, hook>>,
         attempt' \in [Orders -> AttemptStatuses],
         verify' \in [Verifiers -> Verification],
         \A x \in Verifiers \ {v} : verify'[x] = verify[x],
         VerifyKnows(v)'
  PROVE  IInv'
<1>1. StoreTypeOK' /\ ConfirmationTypeOK'
  BY DEF IInv, TypeInvariant, StoreTypeOK, ConfirmationTypeOK
<1>2. StoreInv'
  BY DEF IInv, StoreInv, RzpInv, RowInv, OrderInv, OneAuthorizationOneRzpOrder,
         BrowserPaysTrackedOrder, RunNamesFundingAuthorization, MoneyIsTracked,
         PaidMeansCaptured, BoundTo, HasPayment, Funder, Captured
<1>3. CreationTypeOK' /\ CallInv' /\ ExclusiveInv'
  BY CallFrame DEF IInv, TypeInvariant
<1>4. HookInv'
  BY HookFrame DEF IInv
<1>5. VerifyInv'
  BY DEF IInv, VerifyInv, VerifyKnows, HasPayment, Captured
<1> QED
  BY <1>1, <1>2, <1>3, <1>4, <1>5 DEF IInv, TypeInvariant

\* A confirmation begins once the signature shows a capture, or breaks off.
LEMMA VerifyBegins ==
  ASSUME IInv, UNCHANGED call, NEW v \in Verifiers,
         BreakVerify(v) \/ \E o \in Orders : BeginVerify(v, o)
  PROVE  IInv'
<1>1. /\ UNCHANGED <<auth, order, run, payment, rzp, disclosed, attempt, sent, acked, stored,
                     audited, published, hook>>
      /\ attempt \in [Orders -> AttemptStatuses] /\ verify \in [Verifiers -> Verification]
  BY DEF BreakVerify, BeginVerify, storeVars, IInv, TypeInvariant, StoreTypeOK,
         ConfirmationTypeOK
<1>2. CASE BreakVerify(v)
  <2>1. VerifyGoto(v, "idle") /\ "idle" \in VerifySteps \cup VerifyEnds
    BY <1>2 DEF BreakVerify, VerifyEnds
  <2>2. /\ verify' \in [Verifiers -> Verification] /\ verify'[v].pc = "idle"
        /\ \A x \in Verifiers \ {v} : verify'[x] = verify[x]
    BY ONLY <1>1, <2>1, v \in Verifiers, VerifyGotoFacts
  <2>3. VerifyKnows(v)'
    BY <2>2 DEF VerifyKnows, VerifySteps
  <2> QED
    BY <1>1, <2>2, <2>3, VerifyQuietStep
<1>3. ASSUME NEW o \in Orders, BeginVerify(v, o) PROVE IInv'
  <2> DEFINE new == [pc |-> "authorize", o |-> o]
  <2>1. new \in Verification /\ new.pc = "authorize" /\ new.o = o
    BY DEF Verification, VerifySteps
  <2>2. /\ verify' = [verify EXCEPT ![v] = new]
        /\ HasPayment(o) /\ rzp[payment[o].r].captured
    BY <1>3 DEF BeginVerify
  <2> HIDE DEF new
  <2>3. /\ verify' \in [Verifiers -> Verification] /\ verify'[v] = new
        /\ \A x \in Verifiers \ {v} : verify'[x] = verify[x]
    BY <1>1, <2>1, <2>2
  <2>4. VerifyKnows(v)'
    BY <1>1, <2>1, <2>2, <2>3 DEF VerifyKnows, HasPayment
  <2> QED
    BY <1>1, <2>3, <2>4, VerifyQuietStep
<1> QED
  BY <1>2, <1>3

\* A guarded transition by a confirmation: taken, or answered as done before.
LEMMA VerifyMoves ==
  ASSUME IInv, UNCHANGED call, NEW v \in Verifiers, VerifyAuthorize(v) \/ VerifyCapture(v)
  PROVE  IInv'
<1>1. PICK pc \in {"authorize", "capture"}, to \in {"authorized", "captured"},
           next \in {"capture", "payOrder"} :
        /\ VerifyMovePayment(v, pc, to, next)
        /\ next = "payOrder" <=> to = "captured"
  BY DEF VerifyAuthorize, VerifyCapture
<1>2. /\ verify[v].pc = pc /\ verify[v].o \in Orders
      /\ HasPayment(verify[v].o) /\ rzp[payment[verify[v].o].r].captured
  BY <1>1 DEF VerifyMovePayment, VerifyAt, IInv, VerifyInv, VerifyKnows, VerifySteps
<1>3. /\ UNCHANGED <<auth, order, run, attempt, rzp, disclosed, sent, acked, stored, audited,
                     published, hook>>
      /\ attempt \in [Orders -> AttemptStatuses] /\ verify \in [Verifiers -> Verification]
  BY <1>1 DEF VerifyMovePayment, IInv, TypeInvariant, StoreTypeOK, ConfirmationTypeOK
<1>4. CASE MovePayment(verify[v].o, to, "captured") /\ VerifyGoto(v, next)
  <2> PICK o \in Orders : o = verify[v].o
    BY <1>2
  <2> PICK toThree \in {"authorized", "captured", "failed"} : toThree = to
    OBVIOUS
  <2> PICK payId \in {"declined", "captured"} : payId = "captured"
    OBVIOUS
  <2>1. MovePayment(o, toThree, payId) /\ rzp[payment[o].r].captured
    BY <1>2, <1>4
  <2>2. /\ StoreTypeOK' /\ StoreInv' /\ CreationTypeOK' /\ CallInv' /\ ExclusiveInv'
        /\ payment'[o].status = to /\ HasPayment(o)' /\ payment'[o].r = payment[o].r
        /\ \A x \in Hooks : hook'[x] = hook[x] => HookKnows(x)'
        /\ \A x \in Verifiers : verify'[x] = verify[x] => VerifyKnows(x)'
    BY <1>3, <2>1, MovePaymentStep
  <2>3. next \in VerifySteps \cup VerifyEnds
    BY DEF VerifySteps
  <2>4. /\ verify' \in [Verifiers -> Verification]
        /\ verify'[v].pc = next /\ verify'[v].o = verify[v].o
        /\ \A x \in Verifiers \ {v} : verify'[x] = verify[x]
    BY ONLY <1>3, <1>4, <2>3, v \in Verifiers, VerifyGotoFacts
  <2>5. VerifyKnows(v)'
    BY <1>1, <1>3, <2>1, <2>2, <2>4 DEF VerifyKnows, Captured
  <2>6. VerifyInv'
    BY <2>2, <2>4, <2>5 DEF VerifyInv
  <2>7. HookInv'
    BY <1>3, <2>2 DEF IInv, HookInv
  <2>8. ConfirmationTypeOK'
    BY <1>3, <2>4 DEF IInv, TypeInvariant, ConfirmationTypeOK
  <2> QED
    BY <2>2, <2>6, <2>7, <2>8 DEF IInv, TypeInvariant
<1>5. CASE VerifyGoto(v, "confirmed") /\ UNCHANGED payment
  <2>1. "confirmed" \in VerifySteps \cup VerifyEnds
    BY DEF VerifyEnds
  <2>2. /\ verify' \in [Verifiers -> Verification] /\ verify'[v].pc = "confirmed"
        /\ \A x \in Verifiers \ {v} : verify'[x] = verify[x]
    BY ONLY <1>3, <1>5, <2>1, v \in Verifiers, VerifyGotoFacts
  <2>3. VerifyKnows(v)'
    BY <2>2 DEF VerifyKnows, VerifySteps
  <2> QED
    BY <1>3, <1>5, <2>2, <2>3, VerifyQuietStep
<1> QED
  BY <1>1, <1>4, <1>5 DEF VerifyMovePayment

\* A confirmation pays the order, unless that is done, and marks the attempt.
LEMMA VerifyFinishes ==
  ASSUME IInv, UNCHANGED call, NEW v \in Verifiers, VerifyPayOrder(v) \/ VerifyMarkPaid(v)
  PROVE  IInv'
<1>1. /\ UNCHANGED <<auth, run, payment, rzp, disclosed, sent, acked, stored, audited,
                     published, hook>>
      /\ attempt \in [Orders -> AttemptStatuses] /\ verify \in [Verifiers -> Verification]
  BY DEF VerifyPayOrder, VerifyMarkPaid, IInv, TypeInvariant, StoreTypeOK, ConfirmationTypeOK
<1>2. PICK next \in {"markPaid", "confirmed"} :
        /\ VerifyGoto(v, next)
        /\ next = "markPaid" <=> VerifyPayOrder(v)
  BY DEF VerifyPayOrder, VerifyMarkPaid, VerifyAt
<1>3. /\ verify[v].o \in Orders /\ HasPayment(verify[v].o)
      /\ rzp[payment[verify[v].o].r].captured /\ Captured(verify[v].o)
  BY DEF VerifyPayOrder, VerifyMarkPaid, VerifyAt, IInv, VerifyInv, VerifyKnows, VerifySteps
<1>4. next \in VerifySteps \cup VerifyEnds
  BY DEF VerifySteps, VerifyEnds
<1>5. /\ verify' \in [Verifiers -> Verification]
      /\ verify'[v].pc = next /\ verify'[v].o = verify[v].o
      /\ \A x \in Verifiers \ {v} : verify'[x] = verify[x]
  BY ONLY <1>1, <1>2, <1>4, v \in Verifiers, VerifyGotoFacts
<1>6. VerifyKnows(v)'
  BY <1>1, <1>3, <1>5 DEF VerifyKnows, HasPayment, Captured
<1>7. CASE UNCHANGED order /\ attempt' \in [Orders -> AttemptStatuses]
  BY <1>1, <1>5, <1>6, <1>7, VerifyQuietStep
<1>8. CASE VerifyPayOrder(v) /\ MoveOrder(verify[v].o, "paid")
  <2>1. UNCHANGED attempt
    BY <1>8 DEF VerifyPayOrder
  <2>2. StoreTypeOK' /\ StoreInv'
    <3> PICK o \in Orders : o = verify[v].o
      BY <1>3
    <3>1. Captured(o) /\ MoveOrder(o, "paid")
      BY <1>3, <1>8
    <3> QED
      BY <1>1, <2>1, <3>1, MoveOrderPreserves DEF IInv, TypeInvariant
  <2>3. CreationTypeOK' /\ CallInv' /\ ExclusiveInv'
    BY <1>1, CallFrame DEF IInv, TypeInvariant
  <2>4. HookInv'
    BY <1>1, HookFrame DEF IInv
  <2>5. VerifyInv'
    BY <1>1, <1>5, <1>6 DEF IInv, VerifyInv, VerifyKnows, HasPayment, Captured
  <2>6. ConfirmationTypeOK'
    BY <1>1, <1>5 DEF IInv, TypeInvariant, ConfirmationTypeOK
  <2> QED
    BY <2>2, <2>3, <2>4, <2>5, <2>6 DEF IInv, TypeInvariant
<1>9. CASE VerifyPayOrder(v) /\ UNCHANGED order
  BY <1>1, <1>7, <1>9 DEF VerifyPayOrder
<1>10. CASE VerifyMarkPaid(v)
  <2>1. UNCHANGED order /\ (MarkAttempt(verify[v].o, "paid") \/ UNCHANGED attempt)
    BY <1>10 DEF VerifyMarkPaid
  <2>2. attempt' \in [Orders -> AttemptStatuses]
    BY <1>1, <1>3, <2>1 DEF MarkAttempt, AttemptStatuses
  <2> QED
    BY <1>7, <2>1, <2>2
<1> QED
  BY <1>8, <1>9, <1>10 DEF VerifyPayOrder

------------------------------------------------------------------------------
\* The invariant is inductive.

LEMMA InitHolds == Init => IInv
<1> SUFFICES ASSUME Init PROVE IInv
  OBVIOUS
<1> USE DEF Init, CreationInit, StoreInit, ConfirmationInit, Ended
<1>1. StoreTypeOK
  BY DEF StoreTypeOK, OrderStatuses, AttemptStatuses
<1>2. CreationTypeOK
  BY DEF CreationTypeOK, Call, CreationEnds
<1>3. ConfirmationTypeOK
  BY DEF ConfirmationTypeOK, Hook, Verification, VerifyEnds
<1>4. StoreInv
  BY DEF StoreInv, RzpInv, RowInv, OrderInv, OneAuthorizationOneRzpOrder,
         BrowserPaysTrackedOrder, RunNamesFundingAuthorization, MoneyIsTracked,
         PaidMeansCaptured, HasPayment
<1>5. CallInv /\ ExclusiveInv
  BY DEF CallInv, ExclusiveInv, CreationSteps
<1>6. HookInv
  BY DEF HookInv, HookKnows, HookSteps
<1>7. VerifyInv
  BY DEF VerifyInv, VerifyKnows, VerifySteps
<1> QED
  BY <1>1, <1>2, <1>3, <1>4, <1>5, <1>6, <1>7 DEF IInv, TypeInvariant

LEMMA CreationStepHolds ==
  ASSUME IInv, CreationNext, UNCHANGED confirmationVars
  PROVE  IInv'
<1>1. CASE \E a \in Auths :
             \/ ExpireAuthorization(a)
             \/ \E cart \in Orders \cup {None}, m \in Amounts, t \in Terms :
                  IssueAuthorization(a, cart, m, t)
  BY <1>1, AuthorizationsChange
<1>2. ASSUME NEW c \in Creators,
             \/ VerifyAuthorization(c) \/ RefuseAuthorization(c) \/ LoseAuthorization(c)
             \/ RefuseZeroAmount(c) \/ RefuseRow(c) \/ BreakCreation(c)
             \/ \E o \in Orders, k \in Keys, a \in Auths : BeginCreation(c, o, k, a)
      PROVE  IInv'
  <2>1. UNCHANGED storeVars
    BY <1>2 DEF VerifyAuthorization, RefuseAuthorization, LoseAuthorization,
                RefuseZeroAmount, RefuseRow, BreakCreation, BeginCreation
  <2> QED
    BY <1>2, <2>1, CreationReads
<1>3. ASSUME NEW c \in Creators,
             \/ LookupByKey(c) \/ LookupByOrder(c) \/ ConsumeAuthorization(c)
             \/ CallProvider(c) \/ InsertRow(c) \/ TagRun(c) \/ RecordAttempt(c)
      PROVE  IInv'
  BY <1>3, CreationLooksUp, CreationConsumes, CreationCallsProvider, CreationInserts,
     CreationFinishes
<1> QED
  BY <1>1, <1>2, <1>3 DEF CreationNext, CreationStep

LEMMA ConfirmationStepHolds ==
  ASSUME IInv, ConfirmationNext, UNCHANGED call
  PROVE  IInv'
<1>1. CASE \E r \in RzpOrders :
             PayDeclined(r) \/ \E exact \in Reports : PayCaptured(r, exact)
  BY <1>1, BuyerPays
<1>2. CASE \E w \in Hooks :
             \/ \E e \in sent : StoreEvent(w, e) \/ IgnoreDuplicate(w, e)
             \/ HookStep(w)
             \/ BreakHook(w)
  BY <1>2, HookReceives, HookLooksUp, HookMoves, HookFinishes DEF HookStep
<1>3. CASE \E v \in Verifiers :
             \/ \E o \in Orders : BeginVerify(v, o)
             \/ VerifyStep(v)
             \/ BreakVerify(v)
  BY <1>3, VerifyBegins, VerifyMoves, VerifyFinishes DEF VerifyStep
<1> QED
  BY <1>1, <1>2, <1>3 DEF ConfirmationNext

LEMMA StepHolds == IInv /\ [Next]_vars => IInv'
<1> SUFFICES ASSUME IInv, [Next]_vars PROVE IInv'
  OBVIOUS
<1>1. CASE CreationNext /\ UNCHANGED confirmationVars
  BY <1>1, CreationStepHolds
<1>2. CASE ConfirmationNext /\ UNCHANGED call
  BY <1>2, ConfirmationStepHolds
<1>3. CASE UNCHANGED vars
  <2>1. UNCHANGED storeVars /\ UNCHANGED call /\ UNCHANGED confirmationVars
    BY <1>3 DEF vars
  <2>2. StoreTypeOK' /\ StoreInv'
    BY <2>1, StoreFrame DEF IInv, TypeInvariant
  <2>3. UNCHANGED <<auth, payment, rzp, call>>
    BY <2>1 DEF storeVars
  <2>4. CreationTypeOK' /\ CallInv' /\ ExclusiveInv'
    BY <2>3, CallFrame DEF IInv, TypeInvariant
  <2>5. ConfirmationTypeOK' /\ HookInv' /\ VerifyInv'
    BY <2>1, <2>3, ConfirmationFrame
  <2> QED
    BY <2>2, <2>4, <2>5 DEF IInv, TypeInvariant
<1> QED
  BY <1>1, <1>2, <1>3 DEF Next

\* Every reachable state satisfies the inductive invariant.
THEOREM InductiveInvariant == Spec => []IInv
BY InitHolds, StepHolds, PTL DEF Spec

------------------------------------------------------------------------------
\* What follows from it.

\* Every variable keeps its type: no handler writes a status into a row of
\* another kind, and nothing half-done leaves a row half-written.
THEOREM TypeCorrect == Spec => []TypeInvariant
<1>1. IInv => TypeInvariant
  BY DEF IInv
<1> QED
  BY <1>1, InductiveInvariant, PTL

\* An order is paid only after Razorpay captured the payment its row tracks,
\* however webhook deliveries and browser confirmations interleave and wherever
\* they break off.
THEOREM PaidOrdersAreCaptured == Spec => []PaidMeansCaptured
<1>1. IInv => PaidMeansCaptured
  BY DEF IInv, StoreInv
<1> QED
  BY <1>1, InductiveInvariant, PTL

\* No captured money is outside the books, although a Razorpay order that lost
\* the race for its row stays behind.
THEOREM CapturedMoneyIsTracked == Spec => []MoneyIsTracked
<1>1. IInv => MoneyIsTracked
  BY DEF IInv, StoreInv
<1> QED
  BY <1>1, InductiveInvariant, PTL

\* No order is charged twice.
THEOREM NoDoubleCharge == Spec => []NeverDoubleCharged
<1>1. IInv => NeverDoubleCharged
  BY DEF IInv, StoreInv, MoneyIsTracked, NeverDoubleCharged
<1> QED
  BY <1>1, InductiveInvariant, PTL

\* One consumed authorization stands behind at most one Razorpay order, however
\* many handlers verified it while it was active.
THEOREM AuthorizationSpentOnce == Spec => []OneAuthorizationOneRzpOrder
<1>1. IInv => OneAuthorizationOneRzpOrder
  BY DEF IInv, StoreInv
<1> QED
  BY <1>1, InductiveInvariant, PTL

\* A browser is only ever sent to the Razorpay order of its own order's row.
THEOREM BrowserIsSentRight == Spec => []BrowserPaysTrackedOrder
<1>1. IInv => BrowserPaysTrackedOrder
  BY DEF IInv, StoreInv
<1> QED
  BY <1>1, InductiveInvariant, PTL

\* Every payments row was funded by a spent authorization bound to its order.
THEOREM PaymentsAreAuthorized == Spec => []FundedAsAuthorized
<1>1. IInv => FundedAsAuthorized
  <2> SUFFICES ASSUME IInv, NEW o \in Orders, HasPayment(o)
               PROVE  /\ auth[Funder(o)] # None /\ auth[Funder(o)].status = "USED"
                      /\ BoundTo(Funder(o), o)
    BY DEF FundedAsAuthorized
  <2>1. payment[o].r \in RzpOrders
    BY DEF IInv, TypeInvariant, StoreTypeOK, PaymentRow, HasPayment
  <2>2. rzp[payment[o].r] # None /\ rzp[payment[o].r].receipt = o
    BY DEF IInv, StoreInv, RowInv
  <2> QED
    BY <2>1, <2>2 DEF IInv, StoreInv, RzpInv, Funder
<1> QED
  BY <1>1, InductiveInvariant, PTL

\* The run an order names is the one that paid for it.
THEOREM RunsNameTheirFunder == Spec => []RunNamesFundingAuthorization
<1>1. IInv => RunNamesFundingAuthorization
  BY DEF IInv, StoreInv
<1> QED
  BY <1>1, InductiveInvariant, PTL

------------------------------------------------------------------------------
\* Attempts and announcements.

\* No step takes a payments row away, or undoes a capture, a failure or the
\* payment of an order.
RowsGrow ==
  \A o \in Orders :
    /\ HasPayment(o) => HasPayment(o)'
    /\ \A t \in Topics : Decided(o, t) => Decided(o, t)'
    /\ order[o] = "paid" => order'[o] = "paid"

LEMMA MoveKeepsDecisions ==
  ASSUME IInv, NEW o \in Orders, NEW to \in {"authorized", "captured", "failed"},
         NEW payId \in {"declined", "captured"}, MovePayment(o, to, payId), UNCHANGED order
  PROVE  /\ RowsGrow
         /\ \A t \in Topics : ~Decided(o, t)
         /\ HasPayment(o)' /\ payment'[o].status = to
<1>1. to \in PaymentStatuses
  BY DEF PaymentStatuses
<1>2. /\ payment[o] # None /\ payment'[o] # None
      /\ <<payment[o].status, to>> \in PaymentTransitionTable
      /\ payment'[o].status = to
      /\ \A p \in Orders \ {o} : payment'[p] = payment[p]
  BY ONLY IInv, MovePayment(o, to, payId), <1>1, MovePaymentFacts DEF IInv, TypeInvariant
<1>3. payment[o].status \notin {"failed", "captured"} \/ to \notin {"authorized", "captured", "failed"}
  BY <1>2 DEF PaymentTransitionTable
<1>4. payment[o].status # "completed"
  BY <1>2 DEF PaymentTransitionTable
<1>5. \A t \in Topics : ~Decided(o, t)
  BY <1>3, <1>4 DEF Decided, Captured
<1> QED
  BY <1>2, <1>5 DEF RowsGrow, Decided, Captured, HasPayment

LEMMA CreationKeepsRows ==
  ASSUME IInv, CreationNext
  PROVE  RowsGrow
<1>1. ASSUME UNCHANGED <<payment, order>>
      PROVE  RowsGrow
  BY <1>1 DEF RowsGrow, Decided, Captured, HasPayment
<1>2. ASSUME NEW c \in Creators, InsertRow(c)
      PROVE  RowsGrow
  <2>1. /\ call[c].o \in Orders /\ call[c].r \in RzpOrders /\ call[c].k \in Keys
        /\ InsertPayment(call[c].o, call[c].r, call[c].k) /\ UNCHANGED order
    BY <1>2, CreationAssumption DEF InsertRow, At, IInv, CallInv, CreationSteps
  <2> PICK o \in Orders, r \in RzpOrders, k \in Keys :
        o = call[c].o /\ r = call[c].r /\ k = call[c].k
    BY <2>1
  <2>2. InsertPayment(o, r, k)
    BY <2>1
  <2>3. payment[o] = None /\ \A p \in Orders \ {o} : payment'[p] = payment[p]
    BY ONLY <2>2, IInv, InsertPaymentFacts DEF IInv, TypeInvariant
  <2> QED
    BY <2>1, <2>3 DEF RowsGrow, Decided, Captured, HasPayment
<1>3. ASSUME NEW c \in Creators, CreationStep(c), ~InsertRow(c)
      PROVE  RowsGrow
  BY <1>1, <1>3 DEF CreationStep, VerifyAuthorization, RefuseAuthorization, LookupByKey,
     LookupByOrder, ConsumeAuthorization, LoseAuthorization, CallProvider, RefuseZeroAmount,
     RefuseRow, TagRun, RecordAttempt, storeVars
<1>4. ASSUME NEW c \in Creators,
             BreakCreation(c) \/ \E o \in Orders, k \in Keys, a \in Auths : BeginCreation(c, o, k, a)
      PROVE  RowsGrow
  BY <1>1, <1>4 DEF BreakCreation, BeginCreation, storeVars
<1>5. ASSUME NEW a \in Auths,
             \/ ExpireAuthorization(a)
             \/ \E cart \in Orders \cup {None}, m \in Amounts, t \in Terms :
                  IssueAuthorization(a, cart, m, t)
      PROVE  RowsGrow
  BY <1>1, <1>5 DEF ExpireAuthorization, IssueAuthorization
<1> QED
  BY <1>2, <1>3, <1>4, <1>5 DEF CreationNext

\* The statements of the two handlers that move a row, as a transition.
LEMMA MovingSteps ==
  ASSUME IInv,
         \/ \E w \in Hooks : HookAuthorize(w) \/ HookCapture(w) \/ HookFail(w)
         \/ \E v \in Verifiers : VerifyAuthorize(v) \/ VerifyCapture(v)
  PROVE  RowsGrow
<1>1. UNCHANGED order
  BY DEF HookAuthorize, HookCapture, HookFail, HookMovePayment,
         VerifyAuthorize, VerifyCapture, VerifyMovePayment
<1>2. CASE UNCHANGED payment
  BY <1>1, <1>2 DEF RowsGrow, Decided, Captured, HasPayment
<1>3. ASSUME NEW w \in Hooks, HookAuthorize(w) \/ HookCapture(w) \/ HookFail(w)
      PROVE  RowsGrow
  <2>1. PICK to \in {"authorized", "captured", "failed"} :
          /\ MovePayment(hook[w].o, to, hook[w].e.topic) \/ UNCHANGED payment
          /\ hook[w].pc \in HookSteps \ {"lookup"}
    BY <1>3 DEF HookAuthorize, HookCapture, HookFail, HookMovePayment, HookAt, HookSteps
  <2>2. hook[w].o \in Orders /\ hook[w].e \in sent
    BY <2>1 DEF IInv, HookInv, HookKnows, HookSteps
  <2>3. hook[w].e.topic \in {"declined", "captured"}
    BY <2>2 DEF IInv, TypeInvariant, ConfirmationTypeOK, Event, Topics
  <2> PICK o \in Orders, payId \in {"declined", "captured"} : o = hook[w].o /\ payId = hook[w].e.topic
    BY <2>2, <2>3
  <2>4. CASE MovePayment(o, to, payId)
    BY <1>1, <2>4, MoveKeepsDecisions
  <2> QED
    BY <1>2, <2>1, <2>4
<1>4. ASSUME NEW v \in Verifiers, VerifyAuthorize(v) \/ VerifyCapture(v)
      PROVE  RowsGrow
  <2>1. PICK to \in {"authorized", "captured", "failed"} :
          /\ MovePayment(verify[v].o, to, "captured") \/ UNCHANGED payment
          /\ verify[v].pc \in VerifySteps
    BY <1>4 DEF VerifyAuthorize, VerifyCapture, VerifyMovePayment, VerifyAt, VerifySteps
  <2> PICK o \in Orders, payId \in {"declined", "captured"} : o = verify[v].o /\ payId = "captured"
    BY <2>1 DEF IInv, VerifyInv, VerifyKnows
  <2>2. CASE MovePayment(o, to, payId)
    BY <1>1, <2>2, MoveKeepsDecisions
  <2> QED
    BY <1>2, <2>1, <2>2
<1> QED
  BY <1>3, <1>4

LEMMA ConfirmationKeepsRows ==
  ASSUME IInv, ConfirmationNext
  PROVE  RowsGrow
<1>1. ASSUME UNCHANGED payment, order' = order \/ \E o \in Orders : MoveOrder(o, "paid")
      PROVE  RowsGrow
  <2>1. \A o \in Orders : order[o] = "paid" => order'[o] = "paid"
    BY <1>1 DEF MoveOrder, IInv, TypeInvariant, StoreTypeOK
  <2> QED
    BY <1>1, <2>1 DEF RowsGrow, Decided, Captured, HasPayment
<1>2. CASE \E r \in RzpOrders : PayDeclined(r) \/ \E exact \in Reports : PayCaptured(r, exact)
  BY <1>1, <1>2 DEF PayDeclined, PayCaptured
<1>3. ASSUME NEW w \in Hooks,
             \/ \E e \in sent : StoreEvent(w, e) \/ IgnoreDuplicate(w, e)
             \/ BreakHook(w) \/ LookupCaptured(w) \/ LookupDeclined(w)
             \/ HookMarkPaid(w) \/ HookMarkFailed(w) \/ HookAudit(w) \/ HookPublish(w)
      PROVE  RowsGrow
  BY <1>1, <1>3 DEF StoreEvent, IgnoreDuplicate, BreakHook, LookupCaptured, LookupDeclined,
     HookMarkPaid, HookMarkFailed, HookMarkAttempt, HookAudit, HookPublish, storeVars
<1>4. ASSUME NEW w \in Hooks, HookPayOrder(w)
      PROVE  RowsGrow
  <2>1. hook[w].o \in Orders
    BY <1>4 DEF HookPayOrder, HookAt, IInv, HookInv, HookKnows, HookSteps
  <2> QED
    BY <1>1, <1>4, <2>1 DEF HookPayOrder
<1>5. ASSUME NEW v \in Verifiers,
             (\E o \in Orders : BeginVerify(v, o)) \/ BreakVerify(v) \/ VerifyMarkPaid(v)
      PROVE  RowsGrow
  BY <1>1, <1>5 DEF BeginVerify, BreakVerify, VerifyMarkPaid, storeVars
<1>6. ASSUME NEW v \in Verifiers, VerifyPayOrder(v)
      PROVE  RowsGrow
  <2>1. verify[v].o \in Orders
    BY <1>6 DEF VerifyPayOrder, VerifyAt, IInv, VerifyInv, VerifyKnows, VerifySteps
  <2> QED
    BY <1>1, <1>6, <2>1 DEF VerifyPayOrder
<1> QED
  BY <1>2, <1>3, <1>4, <1>5, <1>6, MovingSteps DEF ConfirmationNext, HookStep, VerifyStep

LEMMA StepKeepsRows == IInv /\ [Next]_vars => RowsGrow
<1>1. UNCHANGED vars => RowsGrow
  BY DEF vars, storeVars, RowsGrow, Decided, Captured, HasPayment
<1> QED
  BY <1>1, CreationKeepsRows, ConfirmationKeepsRows DEF Next

\* The attempt is written by a creation handler, which starts it, and by the statements
\* that follow a capture, or a failure, of the row.
LEMMA AttemptMoves ==
  ASSUME IInv, Next, NEW o \in Orders, attempt'[o] # attempt[o]
  PROVE  \/ attempt'[o] = "attempted"
         \/ attempt'[o] = "paid" /\ Decided(o, "captured")
         \/ attempt'[o] = "failed" /\ Decided(o, "declined")
<1>1. CASE CreationNext
  <2>1. PICK c \in Creators : RecordAttempt(c)
    BY <1>1 DEF CreationNext, CreationStep, VerifyAuthorization, RefuseAuthorization,
       LookupByKey, LookupByOrder, ConsumeAuthorization, LoseAuthorization, CallProvider,
       RefuseZeroAmount, InsertRow, RefuseRow, TagRun, BreakCreation, BeginCreation,
       ExpireAuthorization, IssueAuthorization, storeVars
  <2> QED
    BY <2>1 DEF RecordAttempt, IInv, TypeInvariant, StoreTypeOK
<1>2. CASE ConfirmationNext
  <2>1. \/ \E w \in Hooks : HookMarkPaid(w) \/ HookMarkFailed(w)
        \/ \E v \in Verifiers : VerifyMarkPaid(v)
    BY <1>2 DEF ConfirmationNext, HookStep, VerifyStep, PayDeclined, PayCaptured, StoreEvent,
       IgnoreDuplicate, BreakHook, LookupCaptured, LookupDeclined, HookAuthorize, HookCapture,
       HookFail, HookMovePayment, HookPayOrder, HookAudit, HookPublish, BeginVerify, BreakVerify,
       VerifyAuthorize, VerifyCapture, VerifyMovePayment, VerifyPayOrder, storeVars
  <2>2. ASSUME NEW p, NEW to, MarkAttempt(p, to)
        PROVE  p = o /\ attempt'[o] = to
    BY <2>2 DEF MarkAttempt, IInv, TypeInvariant, StoreTypeOK
  <2>3. ASSUME NEW w \in Hooks, HookMarkPaid(w)
        PROVE  attempt'[o] = "paid" /\ Decided(o, "captured")
    BY <2>2, <2>3 DEF HookMarkPaid, HookMarkAttempt, HookAt, IInv, HookInv, HookKnows, Decided
  <2>4. ASSUME NEW w \in Hooks, HookMarkFailed(w)
        PROVE  attempt'[o] = "failed" /\ Decided(o, "declined")
    BY <2>2, <2>4 DEF HookMarkFailed, HookMarkAttempt, HookAt, IInv, HookInv, HookKnows,
                      HookSteps, Decided
  <2>5. ASSUME NEW v \in Verifiers, VerifyMarkPaid(v)
        PROVE  attempt'[o] = "paid" /\ Decided(o, "captured")
    BY <2>2, <2>5 DEF VerifyMarkPaid, VerifyAt, IInv, VerifyInv, VerifyKnows, Decided
  <2> QED
    BY <2>1, <2>3, <2>4, <2>5
<1> QED
  BY <1>1, <1>2 DEF Next

LEMMA AttemptStep == IInv /\ AttemptAgrees /\ [Next]_vars => AttemptAgrees'
<1> SUFFICES ASSUME IInv, AttemptAgrees, [Next]_vars, NEW o \in Orders
             PROVE  /\ attempt'[o] = "paid" => Captured(o)'
                    /\ attempt'[o] = "failed" => HasPayment(o)' /\ payment'[o].status = "failed"
  BY DEF AttemptAgrees
<1>1. RowsGrow
  BY StepKeepsRows
<1>2. \/ attempt'[o] = attempt[o]
      \/ attempt'[o] = "attempted"
      \/ attempt'[o] = "paid" /\ Decided(o, "captured")
      \/ attempt'[o] = "failed" /\ Decided(o, "declined")
  BY AttemptMoves DEF vars, storeVars
<1>3. /\ attempt'[o] = "paid" => Decided(o, "captured")
      /\ attempt'[o] = "failed" => Decided(o, "declined")
  BY <1>2 DEF AttemptAgrees, Decided
<1>4. \A t \in Topics : Decided(o, t) => Decided(o, t)'
  BY <1>1 DEF RowsGrow
<1> QED
  BY <1>3, <1>4 DEF Topics, Decided

\* What a delivery past its decision names.
LEMMA PastNames ==
  ASSUME IInv, NEW w \in Hooks, PastDeciding(w)
  PROVE  hook[w].o \in Orders /\ hook[w].e \in Event /\ hook[w].e.topic \in Topics
BY DEF PastDeciding, IInv, HookInv, HookKnows, HookSteps, TypeInvariant, ConfirmationTypeOK, Event

\* A step that announces nothing and takes no delivery past its decision.
LEMMA AnnounceQuiet ==
  ASSUME IInv, AnnounceInv, RowsGrow, UNCHANGED <<audited, published>>,
         \A w \in Hooks : hook'[w] = hook[w] \/ ~PastDeciding(w)'
  PROVE  AnnounceInv'
<1>1. \A w \in Hooks : PastDeciding(w)' =>
        /\ hook'[w] = hook[w] /\ PastDeciding(w)
        /\ hook[w].o \in Orders /\ hook[w].e.topic \in Topics
  BY PastNames DEF PastDeciding
<1>2. ASSUME NEW w \in Hooks PROVE AnnounceKnows(w)'
  BY <1>1 DEF AnnounceInv, AnnounceKnows, RowsGrow
<1>3. OneDecider'
  BY <1>1 DEF AnnounceInv, OneDecider
<1>4. \A o \in Orders, t \in Topics : Announced(o, t)' => Decided(o, t)'
  BY DEF AnnounceInv, Announced, RowsGrow
<1>5. AnnouncedOnce'
  BY DEF AnnounceInv, AnnouncedOnce
<1>6. AnnouncementsAreTrue'
  <2>1. \A o \in Orders : Decided(o, "declined") => Decided(o, "declined")'
    BY DEF RowsGrow, Topics
  <2> QED
    BY <2>1 DEF AnnounceInv, AnnouncementsAreTrue, RowsGrow, Decided
<1> QED
  BY <1>2, <1>3, <1>4, <1>5, <1>6 DEF AnnounceInv

\* A delivery decides a payment: no other has, and nothing was announced.
LEMMA AnnounceDecides ==
  ASSUME IInv, IInv', AnnounceInv, RowsGrow, UNCHANGED <<audited, published>>,
         NEW w \in Hooks, NEW o \in Orders, hook'[w].o = o, hook'[w].e.topic \in Topics,
         \/ hook'[w].pc = "payOrder" /\ hook'[w].e.topic = "captured"
         \/ hook'[w].pc = "markFailed" /\ hook'[w].e.topic = "declined",
         \A t \in Topics : ~Decided(o, t),
         \A x \in Hooks \ {w} : hook'[x] = hook[x]
  PROVE  AnnounceInv'
<1>1. \A t \in Topics : audited[o][t] = 0 /\ published[o][t] = 0
  <2> SUFFICES ASSUME NEW t \in Topics PROVE audited[o][t] = 0 /\ published[o][t] = 0
    OBVIOUS
  <2>1. audited[o][t] \in Nat /\ published[o][t] \in Nat
    BY DEF IInv, TypeInvariant, ConfirmationTypeOK
  <2>2. ~(audited[o][t] + published[o][t] > 0)
    BY DEF AnnounceInv, Announced
  <2> QED
    BY <2>1, <2>2
<1>2. \A x \in Hooks \ {w} : PastDeciding(x)' =>
        PastDeciding(x) /\ hook[x].o \in Orders /\ hook[x].o # o /\ hook[x].e.topic \in Topics
  <2> SUFFICES ASSUME NEW x \in Hooks \ {w}, PastDeciding(x)'
               PROVE  /\ PastDeciding(x) /\ hook[x].o \in Orders /\ hook[x].o # o
                      /\ hook[x].e.topic \in Topics
    OBVIOUS
  <2>1. PastDeciding(x)
    BY DEF PastDeciding
  <2>2. hook[x].o \in Orders /\ hook[x].e.topic \in Topics
    BY <2>1, PastNames
  <2>3. Decided(hook[x].o, hook[x].e.topic)
    BY <2>1 DEF AnnounceInv, AnnounceKnows
  <2> QED
    BY <2>1, <2>2, <2>3
<1>3. ASSUME NEW x \in Hooks PROVE AnnounceKnows(x)'
  <2>1. CASE x # w
    BY <1>2, <2>1 DEF AnnounceInv, AnnounceKnows, RowsGrow
  <2>2. CASE x = w
    <3>1. HookKnows(w)'
      BY DEF IInv, HookInv
    <3>2. CASE hook'[w].pc = "payOrder" /\ hook'[w].e.topic = "captured"
      <4>1. Captured(o)'
        BY <3>1, <3>2 DEF HookKnows
      <4> QED
        BY <1>1, <2>2, <3>2, <4>1 DEF AnnounceKnows, Decided
    <3>3. CASE hook'[w].pc = "markFailed" /\ hook'[w].e.topic = "declined"
      <4>1. HasPayment(o)' /\ payment'[o].status = "failed"
        BY <3>1, <3>3 DEF HookKnows, HookSteps
      <4> QED
        BY <1>1, <2>2, <3>3, <4>1 DEF AnnounceKnows, Decided
    <3> QED
      BY <3>2, <3>3
  <2> QED
    BY <2>1, <2>2
<1>4. OneDecider'
  BY <1>2 DEF AnnounceInv, OneDecider
<1>5. \A p \in Orders, t \in Topics : Announced(p, t)' => Decided(p, t)'
  BY DEF AnnounceInv, Announced, RowsGrow
<1>6. AnnouncedOnce'
  BY DEF AnnounceInv, AnnouncedOnce
<1>7. AnnouncementsAreTrue'
  <2>1. \A p \in Orders : Decided(p, "declined") => Decided(p, "declined")'
    BY DEF RowsGrow, Topics
  <2> QED
    BY <2>1 DEF AnnounceInv, AnnouncementsAreTrue, RowsGrow, Decided
<1> QED
  BY <1>3, <1>4, <1>5, <1>6, <1>7 DEF AnnounceInv

\* What counting one announcement does to the counters.
LEMMA CountValues ==
  ASSUME NEW f \in [Orders -> [Topics -> Nat]], NEW g, NEW o \in Orders, NEW t \in Topics,
         g = [f EXCEPT ![o][t] = @ + 1]
  PROVE  /\ g[o][t] = f[o][t] + 1
         /\ \A s \in Topics \ {t} : g[o][s] = f[o][s]
         /\ \A p \in Orders \ {o} : g[p] = f[p]
<1> DEFINE row == [f[o] EXCEPT ![t] = @ + 1]
<1>1. g = [f EXCEPT ![o] = row]
  OBVIOUS
<1>2. row[t] = f[o][t] + 1 /\ \A s \in Topics \ {t} : row[s] = f[o][s]
  OBVIOUS
<1> HIDE DEF row
<1> QED
  BY <1>1, <1>2

\* A delivery that has decided goes on, and perhaps announces.
LEMMA AnnounceGoesOn ==
  ASSUME IInv, IInv', AnnounceInv, RowsGrow, NEW w \in Hooks, NEW o \in Orders, NEW t \in Topics,
         PastDeciding(w), hook[w].o = o, hook[w].e.topic = t,
         \A x \in Hooks \ {w} : hook'[x] = hook[x],
         PastDeciding(w)' =>
           /\ hook'[w].o = o /\ hook'[w].e = hook[w].e
           /\ hook'[w].pc \in {"markPaid", "audit", "publish"} /\ t = "captured" => order'[o] = "paid"
           /\ UNCHANGED published
           /\ hook'[w].pc # "publish" => hook[w].pc # "publish" /\ UNCHANGED audited,
         \/ published' = published
         \/ hook[w].pc = "publish" /\ published' = [published EXCEPT ![o][t] = @ + 1],
         \/ audited' = audited
         \/ hook[w].pc = "audit" /\ audited' = [audited EXCEPT ![o][t] = @ + 1]
  PROVE  AnnounceInv'
<1>1. /\ audited \in [Orders -> [Topics -> Nat]] /\ published \in [Orders -> [Topics -> Nat]]
  BY DEF IInv, TypeInvariant, ConfirmationTypeOK
<1>2. AnnounceKnows(w) /\ Decided(o, t) /\ Decided(o, t)'
  BY DEF AnnounceInv, AnnounceKnows, RowsGrow
<1>3. \A x \in Hooks \ {w} : PastDeciding(x)' =>
        PastDeciding(x) /\ hook[x].o \in Orders /\ hook[x].o # o /\ hook[x].e.topic \in Topics
  BY PastNames DEF PastDeciding, AnnounceInv, OneDecider
<1>4. /\ \A p \in Orders \ {o} : audited'[p] = audited[p] /\ published'[p] = published[p]
      /\ \A s \in Topics \ {t} : audited'[o][s] = audited[o][s] /\ published'[o][s] = published[o][s]
      /\ \/ audited'[o][t] = audited[o][t]
         \/ hook[w].pc = "audit" /\ audited'[o][t] = audited[o][t] + 1
      /\ \/ published'[o][t] = published[o][t]
         \/ hook[w].pc = "publish" /\ published'[o][t] = published[o][t] + 1
  <2>1. CASE audited' = [audited EXCEPT ![o][t] = @ + 1]
    <3>1. /\ audited'[o][t] = audited[o][t] + 1
          /\ \A s \in Topics \ {t} : audited'[o][s] = audited[o][s]
          /\ \A p \in Orders \ {o} : audited'[p] = audited[p]
      BY ONLY <1>1, <2>1, o \in Orders, t \in Topics, CountValues
    <3> SUFFICES /\ \A p \in Orders \ {o} : published'[p] = published[p]
                 /\ \A s \in Topics \ {t} : published'[o][s] = published[o][s]
                 /\ \/ published'[o][t] = published[o][t]
                    \/ hook[w].pc = "publish" /\ published'[o][t] = published[o][t] + 1
                 /\ audited' = audited \/ hook[w].pc = "audit"
      BY <3>1
    <3> QED
      BY <1>1, CountValues
  <2>2. CASE published' = [published EXCEPT ![o][t] = @ + 1]
    <3>1. /\ published'[o][t] = published[o][t] + 1
          /\ \A s \in Topics \ {t} : published'[o][s] = published[o][s]
          /\ \A p \in Orders \ {o} : published'[p] = published[p]
      BY ONLY <1>1, <2>2, o \in Orders, t \in Topics, CountValues
    <3> QED
      BY <2>1, <2>2, <3>1
  <2> QED
    BY <2>1, <2>2
<1>5. ASSUME NEW x \in Hooks PROVE AnnounceKnows(x)'
  <2>1. CASE x # w
    BY <1>3, <1>4, <2>1 DEF AnnounceInv, AnnounceKnows, RowsGrow
  <2>2. CASE x = w
    BY <1>2, <2>2 DEF AnnounceKnows
  <2> QED
    BY <2>1, <2>2
<1>6. OneDecider'
  BY <1>3 DEF AnnounceInv, OneDecider
<1>7. ASSUME NEW p \in Orders, NEW s \in Topics, Announced(p, s)'
      PROVE  Decided(p, s)'
  <2>1. CASE p = o /\ s = t
    BY <1>2, <2>1
  <2>2. CASE p # o \/ s # t
    BY <1>4, <1>7, <2>2 DEF AnnounceInv, Announced, RowsGrow
  <2> QED
    BY <2>1, <2>2
<1>8. AnnouncedOnce'
  <2>1. \A s \in Topics : published[o][s] = 0
    BY <1>2 DEF AnnounceKnows
  <2>2. hook[w].pc = "audit" => \A s \in Topics : audited[o][s] = 0
    BY <1>2 DEF AnnounceKnows
  <2>3. /\ audited[o]["declined"] + audited[o]["captured"] <= 1
        /\ \A p \in Orders \ {o} :
             /\ published[p]["declined"] + published[p]["captured"] <= 1
             /\ audited[p]["declined"] + audited[p]["captured"] <= 1
    BY DEF AnnounceInv, AnnouncedOnce
  <2>4. published'[o]["declined"] + published'[o]["captured"] <= 1
    BY <1>4, <2>1 DEF Topics
  <2>5. audited'[o]["declined"] + audited'[o]["captured"] <= 1
    BY <1>4, <2>2, <2>3 DEF Topics
  <2> QED
    BY <1>4, <2>3, <2>4, <2>5 DEF AnnouncedOnce
<1>9. AnnouncementsAreTrue'
  <2> SUFFICES ASSUME NEW p \in Orders
               PROVE  /\ published'[p]["captured"] > 0 => order'[p] = "paid"
                      /\ published'[p]["declined"] > 0 => Decided(p, "declined")'
    BY DEF AnnouncementsAreTrue, Decided
  <2>1. ASSUME NEW s \in Topics, published'[p][s] # published[p][s]
        PROVE  p = o /\ s = t /\ hook[w].pc = "publish"
    BY <1>4, <2>1
  <2>2. /\ published[p]["captured"] > 0 => order'[p] = "paid"
        /\ published[p]["declined"] > 0 => Decided(p, "declined")'
    BY DEF AnnounceInv, AnnouncementsAreTrue, RowsGrow, Decided, Topics
  <2>3. hook[w].pc = "publish" /\ t = "captured" => order'[o] = "paid"
    BY <1>2 DEF AnnounceKnows, RowsGrow
  <2> QED
    BY <1>2, <2>1, <2>2, <2>3 DEF Topics
<1> QED
  BY <1>5, <1>6, <1>7, <1>8, <1>9 DEF AnnounceInv

\* A transition by a delivery: it goes on to the capture, decides, or is refused.
LEMMA AnnounceHookMoves ==
  ASSUME IInv, IInv', AnnounceInv, RowsGrow, NEW w \in Hooks,
         HookAuthorize(w) \/ HookCapture(w) \/ HookFail(w)
  PROVE  AnnounceInv'
<1>1. PICK to \in {"authorized", "captured", "failed"},
           next \in {"capture", "payOrder", "markFailed"} :
        /\ \/ MovePayment(hook[w].o, to, hook[w].e.topic) /\ HookGoto(w, next)
           \/ hook' = [hook EXCEPT ![w] = HookIdle]
        /\ hook[w].pc \in HookSteps \ {"lookup"}
        /\ next = "payOrder" => hook[w].e.topic = "captured"
        /\ next = "markFailed" => hook[w].e.topic = "declined"
  BY DEF HookAuthorize, HookCapture, HookFail, HookMovePayment, HookAt, HookSteps, Reject,
         IInv, HookInv, HookKnows
<1>2. UNCHANGED <<audited, published, order>> /\ hook \in [Hooks -> Hook]
  BY DEF HookAuthorize, HookCapture, HookFail, HookMovePayment, IInv, TypeInvariant, ConfirmationTypeOK
<1>3. hook[w].o \in Orders /\ hook[w].e.topic \in Topics
  <2>1. hook[w].o \in Orders /\ hook[w].e \in sent
    BY <1>1 DEF IInv, HookInv, HookKnows, HookSteps
  <2> QED
    BY <2>1 DEF IInv, TypeInvariant, ConfirmationTypeOK, Event
<1>4. CASE hook' = [hook EXCEPT ![w] = HookIdle]
  <2>1. hook'[w].pc = "idle" /\ \A x \in Hooks \ {w} : hook'[x] = hook[x]
    BY ONLY <1>2, <1>4, w \in Hooks, HookIdleFacts
  <2> QED
    BY <1>2, <2>1, AnnounceQuiet DEF PastDeciding
<1>5. CASE MovePayment(hook[w].o, to, hook[w].e.topic) /\ HookGoto(w, next)
  <2> PICK o \in Orders, payId \in {"declined", "captured"} : o = hook[w].o /\ payId = hook[w].e.topic
    BY <1>3 DEF Topics
  <2>1. next \in HookSteps \cup {"idle"}
    BY DEF HookSteps
  <2>2. /\ hook'[w].pc = next /\ hook'[w].e = hook[w].e /\ hook'[w].o = hook[w].o
        /\ \A x \in Hooks \ {w} : hook'[x] = hook[x]
    BY ONLY <1>2, <1>5, <2>1, w \in Hooks, HookGotoFacts
  <2>3. MovePayment(o, to, payId)
    BY <1>5
  <2>4. \A t \in Topics : ~Decided(o, t)
    BY <1>2, <2>3, MoveKeepsDecisions
  <2>5. CASE next = "capture"
    BY <1>2, <2>2, <2>5, AnnounceQuiet DEF PastDeciding
  <2>6. CASE next \in {"payOrder", "markFailed"}
    BY <1>1, <1>2, <1>3, <2>2, <2>4, <2>6, AnnounceDecides
  <2> QED
    BY <2>5, <2>6
<1> QED
  BY <1>1, <1>4, <1>5

\* The statements after the decision.
LEMMA AnnounceHookFinishes ==
  ASSUME IInv, IInv', AnnounceInv, RowsGrow, NEW w \in Hooks,
         \/ HookPayOrder(w) \/ HookMarkPaid(w) \/ HookMarkFailed(w)
         \/ HookAudit(w) \/ HookPublish(w)
  PROVE  AnnounceInv'
<1>1. PastDeciding(w) /\ hook \in [Hooks -> Hook] /\ AnnounceKnows(w)
  BY DEF HookPayOrder, HookMarkPaid, HookMarkFailed, HookMarkAttempt, HookAudit, HookPublish,
         HookAt, PastDeciding, AnnounceInv, IInv, TypeInvariant, ConfirmationTypeOK
<1>2. hook[w].o \in Orders /\ hook[w].e.topic \in Topics
  BY <1>1, PastNames
<1> PICK o \in Orders, t \in Topics : o = hook[w].o /\ t = hook[w].e.topic
  BY <1>2
<1>3. ASSUME hook' = [hook EXCEPT ![w] = HookIdle], UNCHANGED audited,
             \/ published' = published
             \/ hook[w].pc = "publish" /\ published' = [published EXCEPT ![o][t] = @ + 1]
      PROVE  AnnounceInv'
  <2>1. hook'[w].pc = "idle" /\ \A x \in Hooks \ {w} : hook'[x] = hook[x]
    BY ONLY <1>1, <1>3, w \in Hooks, HookIdleFacts
  <2>2. ~PastDeciding(w)'
    BY <2>1 DEF PastDeciding
  <2> QED
    BY <1>1, <1>3, <2>1, <2>2, AnnounceGoesOn
<1>4. ASSUME NEW next \in {"markPaid", "audit", "publish"}, HookGoto(w, next), UNCHANGED published,
             t = "captured" => order'[o] = "paid",
             hook[w].pc # "publish",
             \/ UNCHANGED audited
             \/ /\ hook[w].pc = "audit" /\ next = "publish"
                /\ audited' = [audited EXCEPT ![o][t] = @ + 1]
      PROVE  AnnounceInv'
  <2>1. next \in HookSteps \cup {"idle"}
    BY DEF HookSteps
  <2>2. /\ hook'[w].pc = next /\ hook'[w].e = hook[w].e /\ hook'[w].o = hook[w].o
        /\ \A x \in Hooks \ {w} : hook'[x] = hook[x]
    BY ONLY <1>1, <1>4, <2>1, w \in Hooks, HookGotoFacts
  <2> QED
    BY <1>1, <1>4, <2>2, AnnounceGoesOn
<1>5. CASE HookPayOrder(w)
  <2>1. CASE MoveOrder(hook[w].o, "paid") /\ HookGoto(w, "markPaid")
    <3>1. order'[o] = "paid"
      BY <2>1 DEF MoveOrder, IInv, TypeInvariant, StoreTypeOK
    <3> QED
      BY <1>4, <1>5, <2>1, <3>1 DEF HookPayOrder, HookAt
  <2>2. CASE Reject(w)
    BY <1>3, <1>5, <2>2 DEF HookPayOrder, Reject
  <2> QED
    BY <1>5, <2>1, <2>2 DEF HookPayOrder
<1>6. CASE HookMarkPaid(w) \/ HookMarkFailed(w)
  <2>1. /\ HookGoto(w, "audit") /\ UNCHANGED <<order, audited, published>>
        /\ \/ hook[w].pc = "markPaid"
           \/ hook[w].pc = "markFailed" /\ hook[w].e.topic = "declined"
    BY <1>6 DEF HookMarkPaid, HookMarkFailed, HookMarkAttempt, HookAt, IInv, HookInv, HookKnows
  <2>2. t = "captured" => order'[o] = "paid"
    BY <1>1, <2>1 DEF AnnounceKnows
  <2> QED
    BY <1>4, <2>1, <2>2
<1>7. CASE HookAudit(w)
  <2>1. t = "captured" => order'[o] = "paid"
    BY <1>1, <1>7 DEF AnnounceKnows, HookAudit, HookAt, storeVars
  <2> QED
    BY <1>4, <1>7, <2>1 DEF HookAudit, HookAt
<1>8. CASE HookPublish(w)
  BY <1>3, <1>8 DEF HookPublish, Acknowledge, HookAt
<1> QED
  BY <1>5, <1>6, <1>7, <1>8

\* The deliveries' other statements.
LEMMA AnnounceHookLooks ==
  ASSUME IInv, AnnounceInv, RowsGrow, NEW w \in Hooks,
         \/ \E e \in sent : StoreEvent(w, e) \/ IgnoreDuplicate(w, e)
         \/ LookupCaptured(w) \/ LookupDeclined(w) \/ BreakHook(w)
  PROVE  AnnounceInv'
<1>1. UNCHANGED <<audited, published>> /\ hook \in [Hooks -> Hook]
  BY DEF StoreEvent, IgnoreDuplicate, LookupCaptured, LookupDeclined, BreakHook,
         IInv, TypeInvariant, ConfirmationTypeOK
<1>2. \/ hook' = hook
      \/ hook' = [hook EXCEPT ![w] = HookIdle]
      \/ \E pc \in {"lookup", "authorize", "fail"} : \E e, o :
           hook' = [hook EXCEPT ![w] = [pc |-> pc, e |-> e, o |-> o]]
  BY DEF StoreEvent, IgnoreDuplicate, LookupCaptured, LookupDeclined, BreakHook,
         Acknowledge, Reject
<1>3. hook' = hook \/ ( /\ hook'[w].pc \in {"idle", "lookup", "authorize", "fail"}
                        /\ \A x \in Hooks \ {w} : hook'[x] = hook[x] )
  BY <1>1, <1>2 DEF HookIdle
<1> QED
  BY <1>1, <1>3, AnnounceQuiet DEF PastDeciding

LEMMA AnnounceStep == IInv /\ IInv' /\ AnnounceInv /\ [Next]_vars => AnnounceInv'
<1> SUFFICES ASSUME IInv, IInv', AnnounceInv, [Next]_vars PROVE AnnounceInv'
  OBVIOUS
<1>1. RowsGrow
  BY StepKeepsRows
<1>2. ASSUME UNCHANGED <<audited, published, hook>>
      PROVE  AnnounceInv'
  BY <1>1, <1>2, AnnounceQuiet
<1>3. CASE CreationNext /\ UNCHANGED confirmationVars
  BY <1>2, <1>3 DEF confirmationVars
<1>4. CASE UNCHANGED vars
  BY <1>2, <1>4 DEF vars, confirmationVars
<1>5. CASE ConfirmationNext
  <2>1. CASE \E r \in RzpOrders : PayDeclined(r) \/ \E exact \in Reports : PayCaptured(r, exact)
    BY <1>2, <2>1 DEF PayDeclined, PayCaptured
  <2>2. ASSUME NEW w \in Hooks,
               \/ \E e \in sent : StoreEvent(w, e) \/ IgnoreDuplicate(w, e)
               \/ HookStep(w)
               \/ BreakHook(w)
        PROVE  AnnounceInv'
    BY <1>1, <2>2, AnnounceHookLooks, AnnounceHookMoves, AnnounceHookFinishes DEF HookStep
  <2>3. CASE \E v \in Verifiers :
               (\E o \in Orders : BeginVerify(v, o)) \/ VerifyStep(v) \/ BreakVerify(v)
    BY <1>2, <2>3 DEF BeginVerify, VerifyStep, VerifyAuthorize, VerifyCapture, VerifyMovePayment,
       VerifyPayOrder, VerifyMarkPaid, BreakVerify
  <2> QED
    BY <1>5, <2>1, <2>2, <2>3 DEF ConfirmationNext
<1> QED
  BY <1>3, <1>4, <1>5 DEF Next

LEMMA InitAnnounces == Init => AttemptAgrees /\ AnnounceInv
<1> SUFFICES ASSUME Init PROVE AttemptAgrees /\ AnnounceInv
  OBVIOUS
<1> USE DEF Init, CreationInit, StoreInit, ConfirmationInit
<1>1. AttemptAgrees
  BY DEF AttemptAgrees
<1>2. \A o \in Orders, t \in Topics : audited[o][t] = 0 /\ published[o][t] = 0
  OBVIOUS
<1>3. AnnouncedOnce /\ AnnouncementsAreTrue
  BY <1>2 DEF AnnouncedOnce, AnnouncementsAreTrue, Topics
<1>4. \A w \in Hooks : ~PastDeciding(w)
  BY DEF PastDeciding
<1> QED
  BY <1>1, <1>2, <1>3, <1>4 DEF AnnounceInv, AnnounceKnows, OneDecider, Announced

\* The attempt follows the payment whoever writes it: the creation handler that starts it
\* late, a delivery or a browser's confirmation.
THEOREM AttemptsAlwaysAgree == Spec => []AttemptAgrees
BY InitAnnounces, AttemptStep, InductiveInvariant, PTL DEF Spec

\* What announcements rest on: one delivery decides an order's payment, and it alone
\* audits and publishes what it decided.
THEOREM AnnounceInvariant == Spec => []AnnounceInv
BY InitAnnounces, AnnounceStep, InductiveInvariant, PTL DEF Spec

\* However often events are delivered, and together with whichever confirmations, an
\* order's payment is audited and published once.
THEOREM AlwaysAnnouncedOnce == Spec => []AnnouncedOnce
<1>1. AnnounceInv => AnnouncedOnce
  BY DEF AnnounceInv
<1> QED
  BY <1>1, AnnounceInvariant, PTL

\* What was published of an order's payment is so, and stays so.
THEOREM AnnouncementsAlwaysTrue == Spec => []AnnouncementsAreTrue
<1>1. AnnounceInv => AnnouncementsAreTrue
  BY DEF AnnounceInv
<1> QED
  BY <1>1, AnnounceInvariant, PTL
==============================================================================
