------------------------------ MODULE CostGuard ------------------------------
(***************************************************************************)
(* The calls to the paid model and the daily budget over them              *)
(* (backend/agents): every call asks the guard first and reports its cost  *)
(* afterwards; a prompt's call runs in a goroutine of its own, raced       *)
(* against a timer, and goes on after the prompt was answered without it.  *)
(***************************************************************************)
EXTENDS Faults, Integers, FiniteSets

CONSTANTS
  Prompts,        \* requests that wait for a model's answer
  Calls,          \* goroutines that call the model
  DailyBudget,    \* in units of cost
  MaxCost,        \* what one call may cost at most
  Days            \* bound: days that pass

ASSUME GuardAssumption ==
  /\ DailyBudget \in Nat \ {0} /\ MaxCost \in Nat \ {0} /\ Days \in Nat
  /\ IsFiniteSet(Calls) /\ None \notin Calls

VARIABLES
  today,    \* the UTC day
  guard,    \* CostGuard: its day and what was spent on it
  call,     \* each goroutine: idle, checking or calling
  prompt    \* each request: idle, the call it races with, or "fallback"

guardVars == <<today, guard, call, prompt>>

GuardTypeOK ==
  /\ today \in 0 .. Days
  /\ guard \in [day : 0 .. Days, spent : Nat]
  /\ call \in [Calls -> {"idle", "check", "calling"}]
  /\ prompt \in [Prompts -> Calls \cup {"idle", "fallback"}]

GuardInit ==
  /\ today = 0
  /\ guard = [day |-> 0, spent |-> 0]
  /\ call = [c \in Calls |-> "idle"]
  /\ prompt = [p \in Prompts |-> "idle"]

\* rolloverLocked: the first look on a new day finds nothing spent.
SpentToday == IF guard.day = today THEN guard.spent ELSE 0

\* Who waits for a call gets its answer, or falls back when it failed.
Resolve(c, outcome) ==
  prompt' = [p \in Prompts |-> IF prompt[p] = c THEN outcome ELSE prompt[p]]

------------------------------------------------------------------------------
\* RacingExtractor.Extract, and the narrator and the summarizer alike.
BeginRace(p, c) ==
  /\ prompt[p] = "idle" /\ call[c] = "idle"
  /\ prompt' = [prompt EXCEPT ![p] = c]
  /\ call' = [call EXCEPT ![c] = "check"]
  /\ UNCHANGED <<today, guard>>

\* ToolCallingAgent.chat: no race, no fallback.
BeginChat(c) ==
  /\ call[c] = "idle"
  /\ call' = [call EXCEPT ![c] = "check"]
  /\ UNCHANGED <<today, guard, prompt>>

\* Mutant: the guard lets one call through after the budget is used up.
CheckBudget_Late(c) ==
  /\ call[c] = "check"
  /\ guard' = [day |-> today, spent |-> SpentToday]
  /\ IF SpentToday >= DailyBudget + MaxCost
     THEN call' = [call EXCEPT ![c] = "idle"] /\ Resolve(c, "fallback")
     ELSE call' = [call EXCEPT ![c] = "calling"] /\ UNCHANGED prompt
  /\ UNCHANGED today

\* CostGuard.Check; that it refused is audited, best effort.
CheckBudget(c) ==
  /\ call[c] = "check"
  /\ guard' = [day |-> today, spent |-> SpentToday]
  /\ IF SpentToday >= DailyBudget
     THEN call' = [call EXCEPT ![c] = "idle"] /\ Resolve(c, "fallback")
     ELSE call' = [call EXCEPT ![c] = "calling"] /\ UNCHANGED prompt
  /\ UNCHANGED today

\* The model answered: CostGuard.Record, whether or not the answer makes sense.
ModelAnswers(c, cost) ==
  /\ call[c] = "calling"
  /\ guard' = [day |-> today, spent |-> SpentToday + cost]
  /\ call' = [call EXCEPT ![c] = "idle"]
  /\ Resolve(c, "idle") \/ Resolve(c, "fallback")
  /\ UNCHANGED today

\* No answer, or one that is not 200, or the request is gone and its context
\* cancelled: nothing is recorded.
ModelFails(c) ==
  /\ call[c] = "calling"
  /\ call' = [call EXCEPT ![c] = "idle"]
  /\ Resolve(c, "fallback")
  /\ UNCHANGED <<today, guard>>

\* raceWindow has passed: the call's answer will be dropped.
WindowEnds(p) ==
  /\ prompt[p] \in Calls
  /\ prompt' = [prompt EXCEPT ![p] = "fallback"]
  /\ UNCHANGED <<today, guard, call>>

\* The fallback needs no model.
FallBack(p) ==
  /\ prompt[p] = "fallback"
  /\ prompt' = [prompt EXCEPT ![p] = "idle"]
  /\ UNCHANGED <<today, guard, call>>

Midnight ==
  /\ today < Days
  /\ today' = today + 1
  /\ UNCHANGED <<guard, call, prompt>>

CallStep(c) ==
  CheckBudget(c) \/ ModelFails(c) \/ \E cost \in 0 .. MaxCost : ModelAnswers(c, cost)

GuardNext ==
  \/ \E c \in Calls : BeginChat(c) \/ CallStep(c)
  \/ \E p \in Prompts : (\E c \in Calls : BeginRace(p, c)) \/ WindowEnds(p) \/ FallBack(p)
  \/ Midnight

GuardSpec == GuardInit /\ [][GuardNext]_guardVars

------------------------------------------------------------------------------
\* A day's spending passes the budget by no more than what the calls that ran at
\* once may cost, though they are checked before and charged after, and though a
\* call of yesterday may be charged today.
SpendIsBounded ==
  guard.spent <= DailyBudget - 1 + Cardinality(Calls) * MaxCost

\* The inductive invariant: what the calls on their way may still cost is in it.
InFlight == {c \in Calls : call[c] = "calling"}

GuardInv ==
  /\ GuardTypeOK
  /\ guard.spent + Cardinality(InFlight) * MaxCost
       <= DailyBudget - 1 + Cardinality(Calls) * MaxCost
==============================================================================
