---------------------------- MODULE PaymentPromise ----------------------------
(***************************************************************************)
(* What payment promises, with no handler, row or webhook in sight: every  *)
(* authorization is spent at most once and funds at most one order, every  *)
(* order is funded at most once, charged at most once and only when it is  *)
(* funded, captured only when it was charged, and paid only when captured. *)
(***************************************************************************)
CONSTANTS Orders, Auths, None

VARIABLES
  spent,     \* authorizations that are used up
  funding,   \* [Orders -> Auths \cup {None}]: what funds the order's payment
  charged,   \* orders whose buyer's money was taken
  stage      \* [Orders -> {"open", "captured", "failed", "paid"}]

vars == <<spent, funding, charged, stage>>

Init ==
  /\ spent = {}
  /\ funding = [o \in Orders |-> None]
  /\ charged = {}
  /\ stage = [o \in Orders |-> "open"]

Spend(a) ==
  /\ a \notin spent
  /\ spent' = spent \cup {a}
  /\ UNCHANGED <<funding, charged, stage>>

Fund(o, a) ==
  /\ funding[o] = None
  /\ a \in spent
  /\ \A p \in Orders : funding[p] # a
  /\ funding' = [funding EXCEPT ![o] = a]
  /\ UNCHANGED <<spent, charged, stage>>

Charge(o) ==
  /\ funding[o] # None
  /\ o \notin charged
  /\ charged' = charged \cup {o}
  /\ UNCHANGED <<spent, funding, stage>>

Capture(o) ==
  /\ o \in charged
  /\ stage[o] = "open"
  /\ stage' = [stage EXCEPT ![o] = "captured"]
  /\ UNCHANGED <<spent, funding, charged>>

Fail(o) ==
  /\ funding[o] # None
  /\ stage[o] = "open"
  /\ stage' = [stage EXCEPT ![o] = "failed"]
  /\ UNCHANGED <<spent, funding, charged>>

Pay(o) ==
  /\ stage[o] = "captured"
  /\ stage' = [stage EXCEPT ![o] = "paid"]
  /\ UNCHANGED <<spent, funding, charged>>

Next ==
  \/ \E a \in Auths : Spend(a)
  \/ \E o \in Orders :
       \/ \E a \in Auths : Fund(o, a)
       \/ Charge(o) \/ Capture(o) \/ Fail(o) \/ Pay(o)

Spec == Init /\ [][Next]_vars
==============================================================================
