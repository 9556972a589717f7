------------------------- MODULE PaymentConfirmation -------------------------
(***************************************************************************)
(* How a captured or declined Razorpay payment reaches the store: the      *)
(* browser's POST /orders/{id}/payment/verify (payment.Service             *)
(* .VerifyPayment) and Razorpay's webhook (WebhookProcessor.Process and    *)
(* WebhookApplierImpl).  Both walk the same rows one transaction at a time *)
(* and may run together.  Razorpay delivers an event again until it is     *)
(* acknowledged, and sometimes after.                                      *)
(***************************************************************************)
EXTENDS PaymentStore

CONSTANTS
  Verifiers,   \* browser confirmations that may run at the same time
  Hooks,       \* webhook deliveries that may run at the same time
  MayDecline,  \* whether a buyer's bank may decline a payment
  Reports      \* whether a captured event may disagree with the row's amount
               \* and currency: {TRUE} never does, BOOLEAN may

ASSUME ConfirmationAssumption ==
  /\ MayDecline \in BOOLEAN
  /\ Reports \subseteq BOOLEAN

VARIABLES
  sent,        \* webhook events Razorpay has to deliver
  acked,       \* events answered with 200
  stored,      \* webhook_events, by event id
  audited,     \* audit entries written per order and topic
  published,   \* outbox rows written per order and topic
  hook,        \* each webhook delivery: where it stands, event, order
  verify       \* each browser confirmation: where it stands, order

confirmationVars == <<sent, acked, stored, audited, published, hook, verify>>

Topics == {"declined", "captured"}

\* One event per payment: Razorpay tells of at most one declined payment per
\* Razorpay order here, a second one would change nothing.  The record is the
\* event's id; exact says that amount and currency agree with our row.
Event == [topic : Topics, r : RzpOrders, exact : BOOLEAN]

HookSteps ==
  {"lookup", "authorize", "capture", "payOrder", "markPaid",
   "fail", "markFailed", "audit", "publish"}
VerifySteps == {"authorize", "capture", "payOrder", "markPaid"}
VerifyEnds == {"idle", "confirmed"}

Hook == [pc : HookSteps \cup {"idle"}, e : Event \cup {None}, o : Orders \cup {None}]
Verification == [pc : VerifySteps \cup VerifyEnds, o : Orders \cup {None}]

ConfirmationTypeOK ==
  /\ sent \subseteq Event
  /\ acked \subseteq sent
  /\ stored \subseteq sent
  /\ audited \in [Orders -> [Topics -> Nat]]
  /\ published \in [Orders -> [Topics -> Nat]]
  /\ hook \in [Hooks -> Hook]
  /\ verify \in [Verifiers -> Verification]

ConfirmationInit ==
  /\ sent = {} /\ acked = {} /\ stored = {}
  /\ audited = [o \in Orders |-> [t \in Topics |-> 0]]
  /\ published = [o \in Orders |-> [t \in Topics |-> 0]]
  /\ hook = [w \in Hooks |-> [pc |-> "idle", e |-> None, o |-> None]]
  /\ verify = [v \in Verifiers |-> [pc |-> "idle", o |-> None]]

------------------------------------------------------------------------------
\* Razorpay and the buyer: a browser that was told a Razorpay order pays on it.
\* A declined payment leaves the Razorpay order open for another try; a
\* captured one closes it.

PayDeclined(r) ==
  /\ MayDecline
  /\ rzp[r] # None /\ ~rzp[r].declined /\ ~rzp[r].captured
  /\ \E o \in Orders : <<o, r>> \in disclosed
  /\ rzp' = [rzp EXCEPT ![r].declined = TRUE]
  /\ sent' = sent \cup {[topic |-> "declined", r |-> r, exact |-> TRUE]}
  /\ UNCHANGED <<auth, order, run, payment, attempt, disclosed,
                 acked, stored, audited, published, hook, verify>>

PayCaptured(r, exact) ==
  /\ rzp[r] # None /\ ~rzp[r].captured
  /\ \E o \in Orders : <<o, r>> \in disclosed
  /\ rzp' = [rzp EXCEPT ![r].captured = TRUE]
  /\ sent' = sent \cup {[topic |-> "captured", r |-> r, exact |-> exact]}
  /\ UNCHANGED <<auth, order, run, payment, attempt, disclosed,
                 acked, stored, audited, published, hook, verify>>

------------------------------------------------------------------------------
\* The webhook.

HookAt(w, pc) == hook[w].pc = pc
HookGoto(w, pc) == hook' = [hook EXCEPT ![w].pc = pc]
HookIdle == [pc |-> "idle", e |-> None, o |-> None]

\* 200: Razorpay need not deliver the event again.
Acknowledge(w) ==
  /\ acked' = acked \cup {hook[w].e}
  /\ hook' = [hook EXCEPT ![w] = HookIdle]

\* 400: Razorpay will deliver it again.
Reject(w) ==
  /\ hook' = [hook EXCEPT ![w] = HookIdle]
  /\ UNCHANGED acked

\* The processor stores the event id before it applies the event ...
StoreEvent(w, e) ==
  /\ HookAt(w, "idle")
  /\ e \in sent /\ e \notin stored
  /\ stored' = stored \cup {e}
  /\ hook' = [hook EXCEPT ![w] = [pc |-> "lookup", e |-> e, o |-> None]]
  /\ UNCHANGED <<storeVars, sent, acked, audited, published, verify>>

\* ... and acknowledges an id it has seen without looking at the event again.
IgnoreDuplicate(w, e) ==
  /\ HookAt(w, "idle")
  /\ e \in sent /\ e \in stored
  /\ acked' = acked \cup {e}
  /\ UNCHANGED <<storeVars, sent, stored, audited, published, hook, verify>>

\* ApplyCaptured's read: no row is not an error, a wrong amount is, and a row
\* already captured needs nothing.
LookupCaptured(w) ==
  /\ HookAt(w, "lookup") /\ hook[w].e.topic = "captured"
  /\ LET found == RowsWithRzp(hook[w].e.r)
     IN  \/ found = {} /\ Acknowledge(w)
         \/ \E o \in found :
              \/ ~hook[w].e.exact /\ Reject(w)
              \/ /\ hook[w].e.exact
                 /\ payment[o].status \in {"captured", "completed"}
                 /\ Acknowledge(w)
              \/ /\ hook[w].e.exact
                 /\ payment[o].status \notin {"captured", "completed"}
                 /\ hook' = [hook EXCEPT ![w] = [pc |-> "authorize", e |-> @.e, o |-> o]]
                 /\ UNCHANGED acked
  /\ UNCHANGED <<storeVars, sent, stored, audited, published, verify>>

\* ApplyFailed's read: here no row is an error.
LookupDeclined(w) ==
  /\ HookAt(w, "lookup") /\ hook[w].e.topic = "declined"
  /\ LET found == RowsWithRzp(hook[w].e.r)
     IN  \/ found = {} /\ Reject(w)
         \/ \E o \in found :
              \/ payment[o].status = "failed" /\ Acknowledge(w)
              \/ /\ payment[o].status # "failed"
                 /\ hook' = [hook EXCEPT ![w] = [pc |-> "fail", e |-> @.e, o |-> o]]
                 /\ UNCHANGED acked
  /\ UNCHANGED <<storeVars, sent, stored, audited, published, verify>>

\* The guarded transitions of the applier: an illegal one is an error.
HookMovePayment(w, pc, to, next) ==
  /\ HookAt(w, pc)
  /\ \/ /\ MovePayment(hook[w].o, to, hook[w].e.topic)
        /\ HookGoto(w, next)
        /\ UNCHANGED acked
     \/ /\ ~CanMovePayment(hook[w].o, to)
        /\ Reject(w)
        /\ UNCHANGED payment
  /\ UNCHANGED <<auth, order, run, attempt, rzp, disclosed,
                 sent, stored, audited, published, verify>>

\* Mutant: the order is paid on authorization.
HookAuthorize_SkipsCapture(w) ==
  HookMovePayment(w, "authorize", "authorized", "payOrder")

\* Mutant: the order's transition is left out.
HookCapture_SkipsOrder(w) == HookMovePayment(w, "capture", "captured", "markPaid")

HookAuthorize(w) == HookMovePayment(w, "authorize", "authorized", "capture")
HookCapture(w) == HookMovePayment(w, "capture", "captured", "payOrder")
HookFail(w) == HookMovePayment(w, "fail", "failed", "markFailed")

HookPayOrder(w) ==
  /\ HookAt(w, "payOrder")
  /\ \/ /\ MoveOrder(hook[w].o, "paid")
        /\ HookGoto(w, "markPaid")
        /\ UNCHANGED acked
     \/ /\ ~CanMoveOrder(hook[w].o, "paid")
        /\ Reject(w)
        /\ UNCHANGED order
  /\ UNCHANGED <<auth, run, payment, attempt, rzp, disclosed,
                 sent, stored, audited, published, verify>>

\* MarkPaid and MarkFailed: their errors are dropped.
HookMarkAttempt(w, pc, to) ==
  /\ HookAt(w, pc)
  /\ MarkAttempt(hook[w].o, to) \/ (MayFail /\ UNCHANGED attempt)
  /\ HookGoto(w, "audit")
  /\ UNCHANGED <<auth, order, run, payment, rzp, disclosed,
                 sent, acked, stored, audited, published, verify>>

\* Mutant: a payment's status written to the attempt.
HookMarkPaid_Captured(w) == HookMarkAttempt(w, "markPaid", "captured")

HookMarkPaid(w) == HookMarkAttempt(w, "markPaid", "paid")
HookMarkFailed(w) == HookMarkAttempt(w, "markFailed", "failed")

HookAudit(w) ==
  /\ HookAt(w, "audit")
  /\ \/ audited' = [audited EXCEPT ![hook[w].o][hook[w].e.topic] = @ + 1]
     \/ MayFail /\ UNCHANGED audited
  /\ HookGoto(w, "publish")
  /\ UNCHANGED <<storeVars, sent, acked, stored, published, verify>>

HookPublish(w) ==
  /\ HookAt(w, "publish")
  /\ \/ published' = [published EXCEPT ![hook[w].o][hook[w].e.topic] = @ + 1]
     \/ MayFail /\ UNCHANGED published
  /\ Acknowledge(w)
  /\ UNCHANGED <<storeVars, sent, stored, audited, verify>>

\* A statement fails, or the process dies: the delivery is not acknowledged.
BreakHook(w) ==
  /\ MayFail
  /\ hook[w].pc \in HookSteps
  /\ Reject(w)
  /\ UNCHANGED <<storeVars, sent, stored, audited, published, verify>>

HookStep(w) ==
  \/ LookupCaptured(w) \/ LookupDeclined(w)
  \/ HookAuthorize(w) \/ HookCapture(w) \/ HookPayOrder(w)
  \/ HookFail(w) \/ HookMarkPaid(w) \/ HookMarkFailed(w)
  \/ HookAudit(w) \/ HookPublish(w)
------------------------------------------------------------------------------
\* The browser's confirmation.

VerifyAt(v, pc) == verify[v].pc = pc
VerifyGoto(v, pc) == verify' = [verify EXCEPT ![v].pc = pc]

\* Mutant: the signature is not checked.
BeginVerify_Unsigned(v, o) ==
  /\ verify[v].pc \in VerifyEnds
  /\ HasPayment(o)
  /\ verify' = [verify EXCEPT ![v] = [pc |-> "authorize", o |-> o]]
  /\ UNCHANGED <<storeVars, sent, acked, stored, audited, published, hook>>

\* GetByOrderID, the Razorpay order of the request against the row's, and the
\* signature, which Razorpay hands out only for a captured payment.  A request
\* that fails one of the checks changes nothing.
BeginVerify(v, o) ==
  /\ verify[v].pc \in VerifyEnds
  /\ HasPayment(o)
  /\ rzp[payment[o].r] # None /\ rzp[payment[o].r].captured
  /\ verify' = [verify EXCEPT ![v] = [pc |-> "authorize", o |-> o]]
  /\ UNCHANGED <<storeVars, sent, acked, stored, audited, published, hook>>

\* An illegal transition is taken for "already captured": the handler answers
\* with the row it read at the start, as a success.
VerifyMovePayment(v, pc, to, next) ==
  /\ VerifyAt(v, pc)
  /\ \/ /\ MovePayment(verify[v].o, to, "captured")
        /\ VerifyGoto(v, next)
     \/ /\ ~CanMovePayment(verify[v].o, to)
        /\ VerifyGoto(v, "confirmed")
        /\ UNCHANGED payment
  /\ UNCHANGED <<auth, order, run, attempt, rzp, disclosed,
                 sent, acked, stored, audited, published, hook>>

VerifyAuthorize(v) == VerifyMovePayment(v, "authorize", "authorized", "capture")

\* Mutant: the order's transition is left out.
VerifyCapture_SkipsOrder(v) == VerifyMovePayment(v, "capture", "captured", "markPaid")
VerifyCapture(v) == VerifyMovePayment(v, "capture", "captured", "payOrder")

\* An order that is already paid is fine here.
VerifyPayOrder(v) ==
  /\ VerifyAt(v, "payOrder")
  /\ \/ MoveOrder(verify[v].o, "paid")
     \/ ~CanMoveOrder(verify[v].o, "paid") /\ UNCHANGED order
  /\ VerifyGoto(v, "markPaid")
  /\ UNCHANGED <<auth, run, payment, attempt, rzp, disclosed,
                 sent, acked, stored, audited, published, hook>>

VerifyMarkPaid(v) ==
  /\ VerifyAt(v, "markPaid")
  /\ MarkAttempt(verify[v].o, "paid") \/ (MayFail /\ UNCHANGED attempt)
  /\ VerifyGoto(v, "confirmed")
  /\ UNCHANGED <<auth, order, run, payment, rzp, disclosed,
                 sent, acked, stored, audited, published, hook>>

BreakVerify(v) ==
  /\ MayFail
  /\ verify[v].pc \in VerifySteps
  /\ VerifyGoto(v, "idle")
  /\ UNCHANGED <<storeVars, sent, acked, stored, audited, published, hook>>

VerifyStep(v) ==
  \/ VerifyAuthorize(v) \/ VerifyCapture(v) \/ VerifyPayOrder(v) \/ VerifyMarkPaid(v)

ConfirmationNext ==
  \/ \E r \in RzpOrders :
       \/ PayDeclined(r)
       \/ \E exact \in Reports : PayCaptured(r, exact)
  \/ \E w \in Hooks :
       \/ \E e \in sent : StoreEvent(w, e) \/ IgnoreDuplicate(w, e)
       \/ HookStep(w)
       \/ BreakHook(w)
  \/ \E v \in Verifiers :
       \/ \E o \in Orders : BeginVerify(v, o)
       \/ VerifyStep(v)
       \/ BreakVerify(v)
==============================================================================
