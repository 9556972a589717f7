----------------------------- MODULE PaymentStore -----------------------------
(***************************************************************************)
(* The state the payment handlers share: the Postgres rows of one order's  *)
(* payment (authorizations, orders, payments, payment_attempts), and what  *)
(* Razorpay and the buyer's browser know.  One operator stands for one SQL *)
(* statement or one short transaction; a handler is a sequence of them and *)
(* anything may happen in between.                                         *)
(*                                                                         *)
(* An order is named by its cart ("order_" + cart ID), so an authorization *)
(* bound to a cart is modelled as bound to that cart's order.              *)
(***************************************************************************)
EXTENDS StateMachines, Integers

CONSTANTS
  Orders,      \* orders checked out and waiting for payment
  Auths,       \* authorization ids
  Keys,        \* Idempotency-Key header values, EmptyKey among them
  EmptyKey,    \* the header left out
  RzpOrders,   \* order ids Razorpay hands out
  Terms,       \* merchant and currency, as one value
  Amounts,     \* amounts an authorization may cover
  OrderTerms,  \* [Orders -> Terms]
  Subtotal,    \* [Orders -> Nat]: the net price charged for the order
  MayFail,     \* whether statements, calls and handlers may fail half-way
  None

VARIABLES
  auth,        \* authorizations: issued by the policy engine
  order,       \* orders.status
  run,         \* orders.run_id, as the authorization whose action it names
  payment,     \* payments: None, or the row of the order (order_id is UNIQUE)
  attempt,     \* payment_attempts.status of the order's attempt
  rzp,         \* Razorpay's own orders
  disclosed    \* <<o, r>>: a browser paying for o was told Razorpay order r

storeVars == <<auth, order, run, payment, attempt, rzp, disclosed>>

\* An authorization has a cart, an amount and terms from the day it is issued.
\* "live" is the clock's verdict on expires_at; "cart" is None when the
\* proposal named no cart.
Authorization ==
  [status : {"ACTIVE", "USED"}, live : BOOLEAN, cart : Orders \cup {None},
   amount : Amounts, terms : Terms]

\* A payments row.  payId is provider_payment_id: None, or which of Razorpay's
\* payments on that Razorpay order it names, the declined or the captured one.
PaymentRow ==
  [status : PaymentStatuses, r : RzpOrders, key : Keys,
   payId : {None, "declined", "captured"}]

AttemptStatuses == {"none", "attempted", "paid", "failed"}

\* Razorpay's record of an order it created: the receipt we sent, and whether
\* it has seen a declined and a captured payment on it.  "by" is no field of
\* Razorpay's: it remembers the authorization consumed for the call, which the
\* properties speak about.
RzpRecord ==
  [receipt : Orders, by : Auths, declined : BOOLEAN, captured : BOOLEAN]

\* None is none of the values it stands beside.
ASSUME StoreAssumption ==
  /\ EmptyKey \in Keys
  /\ Amounts \subseteq Nat
  /\ OrderTerms \in [Orders -> Terms]
  /\ Subtotal \in [Orders -> Nat]
  /\ MayFail \in BOOLEAN
  /\ None \notin Orders \cup Auths \cup Keys \cup RzpOrders \cup Terms
  /\ None \notin Authorization /\ None \notin PaymentRow /\ None \notin RzpRecord

StoreTypeOK ==
  /\ auth \in [Auths -> Authorization \cup {None}]
  /\ order \in [Orders -> OrderStatuses]
  /\ run \in [Orders -> Auths \cup {None}]
  /\ payment \in [Orders -> PaymentRow \cup {None}]
  /\ attempt \in [Orders -> AttemptStatuses]
  /\ rzp \in [RzpOrders -> RzpRecord \cup {None}]
  /\ disclosed \subseteq Orders \X RzpOrders

StoreInit ==
  /\ auth = [a \in Auths |-> None]
  /\ order = [o \in Orders |-> "payment_pending"]
  /\ run = [o \in Orders |-> None]
  /\ payment = [o \in Orders |-> None]
  /\ attempt = [o \in Orders |-> "none"]
  /\ rzp = [r \in RzpOrders |-> None]
  /\ disclosed = {}

------------------------------------------------------------------------------
\* Reads.

HasPayment(o) == payment[o] # None

\* The authorization that funds the order's payment.
Funder(o) == rzp[payment[o].r].by

\* GetByIdempotencyKey and GetByProviderOrderID: both columns have at most one
\* row, the first by its unique index, the second because Razorpay never hands
\* out an order id twice.
RowsWithKey(k) == {o \in Orders : HasPayment(o) /\ payment[o].key = k}

RowsWithRzp(r) == {o \in Orders : HasPayment(o) /\ payment[o].r = r}

\* VerifyAuthorization followed by the four mismatch checks.
Verifies(a) == auth[a] # None /\ auth[a].status = "ACTIVE" /\ auth[a].live

BoundTo(a, o) ==
  /\ auth[a].terms = OrderTerms[o]
  /\ auth[a].amount >= Subtotal[o]
  /\ auth[a].cart = o

------------------------------------------------------------------------------
\* Writes: each is one statement or transaction.

\* Mutant: the UPDATE without its status guard.
MarkAuthorizationUsed_Unguarded(a) ==
  /\ auth[a] # None
  /\ auth' = [auth EXCEPT ![a].status = "USED"]

\* UPDATE authorizations SET status = 'USED' WHERE status = 'ACTIVE'.  Expiry
\* is not looked at again.
MarkAuthorizationUsed(a) ==
  /\ auth[a] # None /\ auth[a].status = "ACTIVE"
  /\ auth' = [auth EXCEPT ![a].status = "USED"]

\* Mutant: order_id has no unique constraint.
CanInsertPayment_NoOrderIndex(o, k) == RowsWithKey(k) \subseteq {o}

\* The INSERT INTO payments passes its unique indexes: one row per order, one
\* per idempotency key -- the empty key included, it is stored as ''.
CanInsertPayment(o, k) == ~HasPayment(o) /\ RowsWithKey(k) = {}

InsertPayment(o, r, k) ==
  /\ CanInsertPayment(o, k)
  /\ payment' = [payment EXCEPT ![o] =
       [status |-> "pending", r |-> r, key |-> k, payId |-> None]]

\* payment.Repository.TransitionStatus: SELECT ... FOR UPDATE, the table,
\* UPDATE status and provider_payment_id.
CanMovePayment(o, to) ==
  HasPayment(o) /\ CanTransition(PaymentTransitionTable, payment[o].status, to)

MovePayment(o, to, payId) ==
  /\ CanMovePayment(o, to)
  /\ payment' = [payment EXCEPT ![o] =
       [status |-> to, r |-> @.r, key |-> @.key, payId |-> payId]]

\* order.Repository.TransitionStatus.
CanMoveOrder(o, to) == CanTransition(OrderTransitionTable, order[o], to)

MoveOrder(o, to) ==
  /\ CanMoveOrder(o, to)
  /\ order' = [order EXCEPT ![o] = to]

\* MarkPaid and MarkFailed touch only an 'attempted' row; with no such row
\* they change nothing, and neither caller treats that as an error.
MarkAttempt(o, to) ==
  attempt' = [attempt EXCEPT ![o] = IF @ = "attempted" THEN to ELSE @]
==============================================================================
