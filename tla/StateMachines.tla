---------------------------- MODULE StateMachines ----------------------------
(***************************************************************************)
(* The explicit transition tables of backend/statemachine: the statuses a  *)
(* payments row and an orders row may hold, and the edges between them.    *)
(* Every status change in the system goes through Transition, so the other *)
(* modules decide legality with these tables and nowhere else.             *)
(***************************************************************************)

PaymentStatuses ==
  {"created", "pending", "authorized", "captured", "completed", "failed"}

\* Mutant: a table with an edge too many.
PaymentTransitionTable_FailsLate ==
  { <<"created", "pending">>, <<"pending", "authorized">>,
    <<"authorized", "captured">>, <<"captured", "completed">>,
    <<"pending", "failed">>, <<"captured", "failed">> }

PaymentTransitionTable ==
  { <<"created", "pending">>,
    <<"pending", "authorized">>,
    <<"authorized", "captured">>,
    <<"captured", "completed">>,
    <<"pending", "failed">> }

OrderStatuses ==
  {"draft", "authorized", "payment_pending", "paid", "fulfillment_pending",
   "completed", "failed", "cancelled"}

OrderTransitionTable ==
  { <<"draft", "authorized">>,
    <<"draft", "payment_pending">>,
    <<"authorized", "payment_pending">>,
    <<"payment_pending", "paid">>,
    <<"paid", "fulfillment_pending">>,
    <<"fulfillment_pending", "completed">>,
    <<"payment_pending", "failed">>,
    <<"draft", "cancelled">> }

\* Transition(from, to) succeeds exactly on the edges; otherwise the caller
\* gets ErrIllegalTransition and nothing changes.
CanTransition(table, from, to) == <<from, to>> \in table
==============================================================================
