--------------------------- MODULE PaymentCreation ---------------------------
(***************************************************************************)
(* POST /orders/{id}/payment: concurrent handlers that turn an order, an   *)
(* Idempotency-Key and an Authorization-Id into a Razorpay order and a     *)
(* payments row (payment.Service.CreatePaymentOrder).  Each handler reads  *)
(* and writes the store one statement at a time.                           *)
(***************************************************************************)
EXTENDS PaymentStore

CONSTANTS
  Creators,    \* handlers that may run at the same time
  KeysOf       \* [Orders -> SUBSET Keys]: keys clients send for an order

\* The clients build the key from the order's id, so two orders never share
\* one; the lookup by key relies on it.
ASSUME CreationAssumption ==
  /\ KeysOf \in [Orders -> SUBSET Keys]
  /\ \A o1, o2 \in Orders : o1 # o2 => KeysOf[o1] \cap KeysOf[o2] \subseteq {EmptyKey}

VARIABLE call  \* each creation handler: where it stands and its arguments

creationVars == <<storeVars, call>>

\* The statement a handler is about to run; between requests, "refused" when
\* the last one was turned away by a check rather than answered or broken off.
CreationSteps ==
  {"verify", "byKey", "byOrder", "consume", "provider", "insert", "tag", "attempt"}
CreationEnds == {"idle", "refused"}

Call ==
  [pc : CreationSteps \cup CreationEnds, o : Orders \cup {None},
   k : Keys \cup {None}, a : Auths \cup {None}, r : RzpOrders \cup {None}]

Ended(how) == [pc |-> how, o |-> None, k |-> None, a |-> None, r |-> None]

CreationTypeOK == call \in [Creators -> Call]

CreationInit ==
  /\ StoreInit
  /\ call = [c \in Creators |-> Ended("idle")]

At(c, pc) == call[c].pc = pc
Goto(c, pc) == call' = [call EXCEPT ![c].pc = pc]
End(c, how) == call' = [call EXCEPT ![c] = Ended(how)]

\* The handler answers with a payment; the browser opens Razorpay's checkout
\* with the Razorpay order named in it.
Answer(c, r) ==
  /\ disclosed' = disclosed \cup {<<call[c].o, r>>}
  /\ End(c, "idle")

------------------------------------------------------------------------------
\* The policy engine mints an authorization; its expiry passes.

IssueAuthorization(a, cart, amount, terms) ==
  /\ auth[a] = None
  /\ auth' = [auth EXCEPT ![a] = [status |-> "ACTIVE", live |-> TRUE,
                cart |-> cart, amount |-> amount, terms |-> terms]]
  /\ UNCHANGED <<order, run, payment, attempt, rzp, disclosed, call>>

ExpireAuthorization(a) ==
  /\ auth[a] # None /\ auth[a].live
  /\ auth' = [auth EXCEPT ![a].live = FALSE]
  /\ UNCHANGED <<order, run, payment, attempt, rzp, disclosed, call>>

------------------------------------------------------------------------------
\* The handler.

\* A request arrives and GetOrder finds the order; its status is not checked.
BeginCreation(c, o, k, a) ==
  /\ call[c].pc \in CreationEnds
  /\ k \in KeysOf[o]
  /\ call' = [call EXCEPT ![c] = [pc |-> "verify", o |-> o, k |-> k, a |-> a, r |-> None]]
  /\ UNCHANGED storeVars

\* Mutant: the authorization is not compared with the order.
VerifyAuthorization_AnyTerms(c) ==
  /\ At(c, "verify")
  /\ Verifies(call[c].a)
  /\ Goto(c, IF call[c].k = EmptyKey THEN "byOrder" ELSE "byKey")
  /\ UNCHANGED storeVars

VerifyAuthorization(c) ==
  /\ At(c, "verify")
  /\ Verifies(call[c].a) /\ BoundTo(call[c].a, call[c].o)
  /\ Goto(c, IF call[c].k = EmptyKey THEN "byOrder" ELSE "byKey")
  /\ UNCHANGED storeVars

RefuseAuthorization(c) ==
  /\ At(c, "verify")
  /\ ~(Verifies(call[c].a) /\ BoundTo(call[c].a, call[c].o))
  /\ End(c, "refused")
  /\ UNCHANGED storeVars

\* The lookup by key is not narrowed to the order of the request.
LookupByKey(c) ==
  /\ At(c, "byKey")
  /\ \/ \E o \in RowsWithKey(call[c].k) : Answer(c, payment[o].r)
     \/ RowsWithKey(call[c].k) = {} /\ Goto(c, "byOrder") /\ UNCHANGED disclosed
  /\ UNCHANGED <<auth, order, run, payment, attempt, rzp>>

LookupByOrder(c) ==
  /\ At(c, "byOrder")
  /\ \/ HasPayment(call[c].o) /\ Answer(c, payment[call[c].o].r)
     \/ ~HasPayment(call[c].o) /\ Goto(c, "consume") /\ UNCHANGED disclosed
  /\ UNCHANGED <<auth, order, run, payment, attempt, rzp>>

\* Mutant: the order is tagged with the run as soon as its authorization is
\* consumed, before the payments row decides which handler won.
ConsumeAuthorization_TagsRun(c) ==
  /\ At(c, "consume")
  /\ MarkAuthorizationUsed(call[c].a)
  /\ run' = [run EXCEPT ![call[c].o] = call[c].a]
  /\ Goto(c, "provider")
  /\ UNCHANGED <<order, payment, attempt, rzp, disclosed>>

ConsumeAuthorization(c) ==
  /\ At(c, "consume")
  /\ MarkAuthorizationUsed(call[c].a)
  /\ Goto(c, "provider")
  /\ UNCHANGED <<order, run, payment, attempt, rzp, disclosed>>

LoseAuthorization(c) ==
  /\ At(c, "consume")
  /\ ~(auth[call[c].a] # None /\ auth[call[c].a].status = "ACTIVE")
  /\ End(c, "refused")
  /\ UNCHANGED storeVars

\* Razorpay creates a new order on every call.  The call may also fail after
\* Razorpay has created it: the answer is lost and the handler gives up.
CallProvider(c) ==
  /\ At(c, "provider")
  /\ Subtotal[call[c].o] > 0
  /\ \E r \in RzpOrders :
       /\ rzp[r] = None
       /\ rzp' = [rzp EXCEPT ![r] =
            [receipt |-> call[c].o, by |-> call[c].a, declined |-> FALSE, captured |-> FALSE]]
       /\ \/ call' = [call EXCEPT ![c] =
               [pc |-> "insert", o |-> @.o, k |-> @.k, a |-> @.a, r |-> r]]
          \/ MayFail /\ End(c, "idle")
  /\ UNCHANGED <<auth, order, run, payment, attempt, disclosed>>

\* CreatePayment turns a zero amount away -- with the authorization consumed.
RefuseZeroAmount(c) ==
  /\ At(c, "provider")
  /\ Subtotal[call[c].o] = 0
  /\ End(c, "refused")
  /\ UNCHANGED storeVars

\* Mutant: INSERT ... ON CONFLICT DO NOTHING, and the handler goes on.
InsertRow_IgnoresConflict(c) ==
  /\ At(c, "insert")
  /\ \/ InsertPayment(call[c].o, call[c].r, call[c].k)
     \/ ~CanInsertPayment(call[c].o, call[c].k) /\ UNCHANGED payment
  /\ Goto(c, "tag")
  /\ UNCHANGED <<auth, order, run, attempt, rzp, disclosed>>

InsertRow(c) ==
  /\ At(c, "insert")
  /\ InsertPayment(call[c].o, call[c].r, call[c].k)
  /\ Goto(c, "tag")
  /\ UNCHANGED <<auth, order, run, attempt, rzp, disclosed>>

\* A unique index refuses the row: another handler was faster, or the key is
\* taken.  The Razorpay order just created stays behind.
RefuseRow(c) ==
  /\ At(c, "insert")
  /\ ~CanInsertPayment(call[c].o, call[c].k)
  /\ End(c, "refused")
  /\ UNCHANGED storeVars

\* SetRunID is best-effort.
TagRun(c) ==
  /\ At(c, "tag")
  /\ \/ run' = [run EXCEPT ![call[c].o] = call[c].a]
     \/ MayFail /\ UNCHANGED run
  /\ Goto(c, "attempt")
  /\ UNCHANGED <<auth, order, payment, attempt, rzp, disclosed>>

RecordAttempt(c) ==
  /\ At(c, "attempt")
  /\ attempt' = [attempt EXCEPT ![call[c].o] = "attempted"]
  /\ Answer(c, call[c].r)
  /\ UNCHANGED <<auth, order, run, payment, rzp>>

\* A statement fails or the process dies: nothing more of this request runs.
BreakCreation(c) ==
  /\ MayFail
  /\ call[c].pc \in CreationSteps
  /\ End(c, "idle")
  /\ UNCHANGED storeVars

CreationStep(c) ==
  \/ VerifyAuthorization(c) \/ RefuseAuthorization(c)
  \/ LookupByKey(c) \/ LookupByOrder(c)
  \/ ConsumeAuthorization(c) \/ LoseAuthorization(c)
  \/ CallProvider(c) \/ RefuseZeroAmount(c)
  \/ InsertRow(c) \/ RefuseRow(c)
  \/ TagRun(c) \/ RecordAttempt(c)

CreationNext ==
  \/ \E a \in Auths :
       \/ \E cart \in Orders \cup {None}, m \in Amounts, t \in Terms :
            IssueAuthorization(a, cart, m, t)
       \/ ExpireAuthorization(a)
  \/ \E c \in Creators :
       \/ \E o \in Orders, k \in Keys, a \in Auths : BeginCreation(c, o, k, a)
       \/ CreationStep(c)
       \/ BreakCreation(c)

CreationSpec == CreationInit /\ [][CreationNext]_creationVars

------------------------------------------------------------------------------
\* Properties.

\* One authorization never reaches the provider twice, however many handlers
\* race with it: of two that verified it while it was active, only the one
\* whose UPDATE won may call Razorpay.
OneAuthorizationOneRzpOrder ==
  \A r1, r2 \in RzpOrders :
    rzp[r1] # None /\ rzp[r2] # None /\ rzp[r1].by = rzp[r2].by => r1 = r2

\* A payment exists only under an authorization that was bound to that order,
\* covered its price, and is spent for good.
FundedAsAuthorized ==
  \A o \in Orders : HasPayment(o) =>
    LET a == Funder(o)
    IN  auth[a] # None /\ auth[a].status = "USED" /\ BoundTo(a, o)

\* A browser paying for an order is only ever sent to the Razorpay order on
\* that order's own payments row, never to one that lost the race for the row
\* -- so a buyer's money cannot end up on a Razorpay order nothing tracks.
BrowserPaysTrackedOrder ==
  \A d \in disclosed : HasPayment(d[1]) /\ payment[d[1]].r = d[2]

\* The audit-trail link of an order names the authorization that paid for it.
RunNamesFundingAuthorization ==
  \A o \in Orders : run[o] # None => HasPayment(o) /\ run[o] = Funder(o)

\* A request that repeats a key whose payment exists gets that payment, also
\* with the authorization that payment consumed.
RepeatReturnsExisting ==
  [][\A c \in Creators :
       (/\ At(c, "verify")
        /\ call[c].k # EmptyKey
        /\ \E o \in RowsWithKey(call[c].k) :
             o = call[c].o /\ Funder(o) = call[c].a)
       => call'[c].pc # "refused"]_creationVars
==============================================================================
