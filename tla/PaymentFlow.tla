----------------------------- MODULE PaymentFlow -----------------------------
(***************************************************************************)
(* The whole way of an order from its authorization to being paid: payment *)
(* creation and payment confirmation running together over the same rows.  *)
(***************************************************************************)
EXTENDS PaymentCreation, PaymentConfirmation

vars == <<storeVars, call, confirmationVars>>

TypeInvariant == StoreTypeOK /\ CreationTypeOK /\ ConfirmationTypeOK

Init == CreationInit /\ ConfirmationInit

Next ==
  \/ CreationNext /\ UNCHANGED confirmationVars
  \/ ConfirmationNext /\ UNCHANGED call

Spec == Init /\ [][Next]_vars

\* Handlers that have started run on, and Razorpay delivers an event until it
\* is acknowledged.  Nothing makes a client send a request or a buyer pay.
Fairness ==
  /\ \A c \in Creators : WF_vars(CreationStep(c) /\ UNCHANGED confirmationVars)
  /\ \A v \in Verifiers : WF_vars(VerifyStep(v) /\ UNCHANGED call)
  /\ \A w \in Hooks : WF_vars(HookStep(w) /\ UNCHANGED call)
  /\ WF_vars(\E w \in Hooks, e \in sent \ acked :
               (StoreEvent(w, e) \/ IgnoreDuplicate(w, e)) /\ UNCHANGED call)

FairSpec == Spec /\ Fairness

------------------------------------------------------------------------------
\* Safety.

Captured(o) == HasPayment(o) /\ payment[o].status \in {"captured", "completed"}

\* An order is paid only once its payments row is captured, under the id of the
\* payment Razorpay captured, on the Razorpay order the row tracks -- whichever
\* of webhook and browser got there, and with a declined payment in between.
PaidMeansCaptured ==
  \A o \in Orders : order[o] = "paid" =>
    /\ Captured(o)
    /\ payment[o].payId = "captured"
    /\ rzp[payment[o].r] # None /\ rzp[payment[o].r].captured

\* Money Razorpay took is always tracked by a payments row of the very order
\* the buyer was paying for.
MoneyIsTracked ==
  \A r \in RzpOrders : rzp[r] # None /\ rzp[r].captured =>
    HasPayment(rzp[r].receipt) /\ payment[rzp[r].receipt].r = r

\* A buyer is never charged twice for one order, whatever is retried
\* ("a failed payment never double-charges").
NeverDoubleCharged ==
  \A r1, r2 \in RzpOrders :
    /\ rzp[r1] # None /\ rzp[r1].captured
    /\ rzp[r2] # None /\ rzp[r2].captured
    /\ rzp[r1].receipt = rzp[r2].receipt
    => r1 = r2

\* The attempt never contradicts the payment it belongs to.
AttemptAgrees ==
  \A o \in Orders :
    /\ attempt[o] = "paid" => Captured(o)
    /\ attempt[o] = "failed" => HasPayment(o) /\ payment[o].status = "failed"

\* However often an event is delivered, it is published and audited once, and
\* an order is never announced both as captured and as failed.
AnnouncedOnce ==
  \A o \in Orders :
    /\ published[o]["declined"] + published[o]["captured"] <= 1
    /\ audited[o]["declined"] + audited[o]["captured"] <= 1

\* What is announced downstream has happened: a published capture belongs to a
\* paid order, a published failure to a failed payment.
AnnouncementsAreTrue ==
  \A o \in Orders :
    /\ published[o]["captured"] > 0 => order[o] = "paid"
    /\ published[o]["declined"] > 0 => HasPayment(o) /\ payment[o].status = "failed"

------------------------------------------------------------------------------
\* Refinement: what the rows and Razorpay's books say, in the promise's terms.

Spent == {a \in Auths : auth[a] # None /\ auth[a].status = "USED"}

Funding == [o \in Orders |-> IF HasPayment(o) THEN Funder(o) ELSE None]

Charged ==
  {o \in Orders : \E r \in RzpOrders :
     rzp[r] # None /\ rzp[r].receipt = o /\ rzp[r].captured}

Stage ==
  [o \in Orders |->
     IF order[o] = "paid" THEN "paid"
     ELSE IF Captured(o) THEN "captured"
     ELSE IF HasPayment(o) /\ payment[o].status = "failed" THEN "failed"
     ELSE "open"]

Promise == INSTANCE PaymentPromise
  WITH spent <- Spent, funding <- Funding, charged <- Charged, stage <- Stage

\* Every interleaving of the handlers, with whatever breaks half-way, looks
\* from outside like the promise: spend, fund, charge, capture, pay, each once.
PromiseKept == Promise!Spec

------------------------------------------------------------------------------
\* The inductive invariant: what the safety properties above rest on.

\* What a creation handler knows between its statements.  The authorization it
\* verified stays bound to its order; from the consuming UPDATE on nobody else
\* holds it; the Razorpay order it brings back is its own order's.
CallInv ==
  \A c \in Creators :
    /\ call[c].pc \in CreationSteps =>
         /\ call[c].o \in Orders /\ call[c].a \in Auths
         /\ call[c].k \in KeysOf[call[c].o]
    /\ call[c].pc = "byKey" => call[c].k # EmptyKey
    /\ call[c].pc \in CreationSteps \ {"verify"} =>
         auth[call[c].a] # None /\ BoundTo(call[c].a, call[c].o)
    /\ call[c].pc = "provider" =>
         /\ auth[call[c].a].status = "USED"
         /\ \A r \in RzpOrders : rzp[r] # None => rzp[r].by # call[c].a
    /\ call[c].pc \in {"insert", "tag", "attempt"} =>
         /\ call[c].r \in RzpOrders /\ rzp[call[c].r] # None
         /\ rzp[call[c].r].receipt = call[c].o
         /\ rzp[call[c].r].by = call[c].a
    /\ call[c].pc \in {"tag", "attempt"} =>
         HasPayment(call[c].o) /\ payment[call[c].o].r = call[c].r

ExclusiveInv ==
  \A c1, c2 \in Creators :
    call[c1].pc = "provider" /\ call[c2].pc = "provider" /\ call[c1].a = call[c2].a
      => c1 = c2

\* A Razorpay order was created for an order under an authorization bound to
\* it, which is spent.
RzpInv ==
  \A r \in RzpOrders : rzp[r] # None =>
    /\ auth[rzp[r].by] # None
    /\ auth[rzp[r].by].status = "USED"
    /\ BoundTo(rzp[r].by, rzp[r].receipt)

\* A payments row points at a Razorpay order created for its order, and has
\* left "pending" for "authorized" or beyond only if Razorpay captured there.
RowInv ==
  \A o \in Orders : HasPayment(o) =>
    /\ rzp[payment[o].r] # None
    /\ rzp[payment[o].r].receipt = o
    /\ payment[o].key \in KeysOf[o]
    /\ payment[o].status \in {"authorized", "captured", "completed"} =>
         payment[o].payId = "captured" /\ rzp[payment[o].r].captured

OrderInv == \A o \in Orders : order[o] \in {"payment_pending", "paid"}

\* What a webhook delivery knows between its statements: the order it found is
\* the one whose row tracks the event's Razorpay order.
HookKnows(w) ==
  /\ hook[w].pc # "idle" => hook[w].e \in sent
  /\ hook[w].pc \in HookSteps \ {"lookup"} =>
       /\ hook[w].o \in Orders /\ HasPayment(hook[w].o)
       /\ payment[hook[w].o].r = hook[w].e.r
  /\ hook[w].pc \in {"authorize", "capture", "payOrder", "markPaid"} =>
       hook[w].e.topic = "captured"
  /\ hook[w].pc \in {"fail", "markFailed"} => hook[w].e.topic = "declined"
  /\ hook[w].pc \in {"payOrder", "markPaid"} => Captured(hook[w].o)
  /\ hook[w].pc = "markFailed" => payment[hook[w].o].status = "failed"

\* A capture event tells the truth.
HookInv ==
  /\ \A e \in sent : e.topic = "captured" => rzp[e.r] # None /\ rzp[e.r].captured
  /\ \A w \in Hooks : HookKnows(w)

\* What a browser confirmation knows between its statements.
VerifyKnows(v) ==
  /\ verify[v].pc \in VerifySteps =>
       /\ verify[v].o \in Orders /\ HasPayment(verify[v].o)
       /\ rzp[payment[verify[v].o].r].captured
  /\ verify[v].pc \in {"payOrder", "markPaid"} => Captured(verify[v].o)

VerifyInv == \A v \in Verifiers : VerifyKnows(v)

\* Everything that speaks of the stored rows and Razorpay's books alone.
StoreInv ==
  /\ RzpInv /\ RowInv /\ OrderInv
  /\ OneAuthorizationOneRzpOrder
  /\ BrowserPaysTrackedOrder
  /\ RunNamesFundingAuthorization
  /\ MoneyIsTracked
  /\ PaidMeansCaptured

IInv ==
  /\ TypeInvariant
  /\ StoreInv
  /\ CallInv /\ ExclusiveInv
  /\ HookInv
  /\ VerifyInv

\* What the announcements rest on, beyond IInv.  The delivery that decided a payment
\* is the only one past that point for its order, its row agrees with its event from
\* then on, and it announces nothing before its time.
PastDeciding(w) == hook[w].pc \in {"payOrder", "markPaid", "markFailed", "audit", "publish"}

Decided(o, topic) ==
  IF topic = "captured" THEN Captured(o) ELSE HasPayment(o) /\ payment[o].status = "failed"

AnnounceKnows(w) ==
  PastDeciding(w) =>
    /\ Decided(hook[w].o, hook[w].e.topic)
    /\ hook[w].pc \in {"audit", "publish", "markPaid"} /\ hook[w].e.topic = "captured" =>
         order[hook[w].o] = "paid"
    /\ \A t \in Topics : published[hook[w].o][t] = 0
    /\ hook[w].pc # "publish" => \A t \in Topics : audited[hook[w].o][t] = 0

OneDecider ==
  \A w, x \in Hooks :
    PastDeciding(w) /\ PastDeciding(x) /\ hook[w].o = hook[x].o => w = x

Announced(o, t) == audited[o][t] + published[o][t] > 0

AnnounceInv ==
  /\ \A w \in Hooks : AnnounceKnows(w)
  /\ OneDecider
  /\ \A o \in Orders, t \in Topics : Announced(o, t) => Decided(o, t)
  /\ AnnouncedOnce
  /\ AnnouncementsAreTrue

------------------------------------------------------------------------------
\* What the code or its documents claim and the code does not do.

\* An event is acknowledged only when its processing did not fail ("processing
\* errors are not acknowledged as success -- Razorpay will retry"): once no
\* delivery is running, an acknowledged capture has reached the payments row.
AcknowledgedMeansApplied ==
  \A e \in acked :
    /\ e.topic = "captured" /\ e.exact
    /\ \A w \in Hooks : HookAt(w, "idle")
    => \A o \in RowsWithRzp(e.r) : Captured(o)

------------------------------------------------------------------------------
\* Liveness.

\* Without failures and declined payments, an order whose payment Razorpay
\* captured is eventually paid, through the webhook alone if need be.
CapturedOrderIsPaid ==
  \A r \in RzpOrders :
    (rzp[r] # None /\ rzp[r].captured)
      ~> (rzp[r] # None /\ order[rzp[r].receipt] = "paid")
==============================================================================
