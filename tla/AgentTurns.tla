------------------------------ MODULE AgentTurns ------------------------------
(***************************************************************************)
(* One buyer's conversation with the shopping agent (backend/agents).      *)
(* Every prompt is understood on its own, merged over the last snapshot    *)
(* the conversation stored, and the result stored as the next snapshot.    *)
(* Reading and storing are two statements, with a catalog search between,  *)
(* and two prompts for the same cart may be answered at once.              *)
(***************************************************************************)
EXTENDS Faults, Integers

CONSTANTS
  Turns,                        \* requests that may run at once
  Budgets, Categories, Others,  \* what a prompt may name; Others: priority, recipient
  Words,                        \* what it may exclude ("not the strap")
  MaxSnapshots                  \* bound: snapshots stored in one conversation

ASSUME TurnAssumption ==
  /\ None \notin Budgets \cup Categories \cup Others
  /\ MaxSnapshots \in Nat

VARIABLES
  latest,    \* the Intent of the conversation's last turn that has one
  stored,    \* how many turns have one
  turn       \* each request

turnVars == <<latest, stored, turn>>

Intent == [budget : Budgets \cup {None}, category : Categories \cup {None},
           other : Others \cup {None}, exclude : SUBSET Words]
NothingSaid == [budget |-> None, category |-> None, other |-> None, exclude |-> {}]
NoTurn == [pc |-> "idle", intent |-> NothingSaid, save |-> FALSE, seen |-> 0]

TurnTypeOK ==
  /\ latest \in Intent \cup {None}
  /\ stored \in 0 .. MaxSnapshots
  /\ turn \in [Turns -> [pc : {"idle", "recall", "search", "record"}, intent : Intent,
                         save : BOOLEAN, seen : 0 .. MaxSnapshots]]

TurnInit ==
  /\ latest = None
  /\ stored = 0
  /\ turn = [t \in Turns |-> NoTurn]

TurnGoto(t, state) == turn' = [turn EXCEPT ![t] = state]
EndTurn(t) == TurnGoto(t, NoTurn)

Newer(next, prev) == IF next = None THEN prev ELSE next

hasSignal(i) == i # NothingSaid

\* Mutant: the newer turn's exclusions win like its other fields.
mergeIntent_NextWins(prev, next) ==
  [budget |-> Newer(next.budget, prev.budget), category |-> Newer(next.category, prev.category),
   other |-> Newer(next.other, prev.other), exclude |-> next.exclude]

\* Exclusions add up; of the rest the newer turn's wins where it says something.
mergeIntent(prev, next) ==
  [budget |-> Newer(next.budget, prev.budget), category |-> Newer(next.category, prev.category),
   other |-> Newer(next.other, prev.other), exclude |-> prev.exclude \cup next.exclude]

\* ValidateIntent.
IsComplete(i) == i.budget # None /\ i.category # None

------------------------------------------------------------------------------
\* PlanCheckoutInConversation.  The extractor answers, if only that it understood
\* nothing; its other errors end the request before it begins.
Extract(t) ==
  /\ turn[t].pc = "idle"
  /\ \E i \in Intent : TurnGoto(t, [NoTurn EXCEPT !.pc = "recall", !.intent = i])
  /\ UNCHANGED <<latest, stored>>

\* LastKnownIntent, the merge, and where it leads: an intent that is still
\* incomplete is stored if the prompt said anything, a complete one is searched
\* for first.
LastKnownIntent(t) ==
  /\ turn[t].pc = "recall"
  /\ LET new == turn[t].intent
         merged == IF latest # None /\ hasSignal(new) THEN mergeIntent(latest, new) ELSE new
     IN  TurnGoto(t, [pc |-> IF IsComplete(merged) THEN "search" ELSE "record", intent |-> merged,
                      save |-> IsComplete(merged) \/ hasSignal(new), seen |-> stored])
  /\ UNCHANGED <<latest, stored>>

\* History cannot be read: PlanCheckout answers without it and stores nothing.
ForgetConversation(t) ==
  /\ MayFail /\ turn[t].pc = "recall"
  /\ EndTurn(t)
  /\ UNCHANGED <<latest, stored>>

\* planFromIntent; that it found nothing, or failed, is stored all the same.
SearchCatalog(t) ==
  /\ turn[t].pc = "search"
  /\ TurnGoto(t, [turn[t] EXCEPT !.pc = "record"])
  /\ UNCHANGED <<latest, stored>>

\* recordTurn, best effort; the assistant's turn that follows has no snapshot.
RecordTurn(t) ==
  /\ turn[t].pc = "record"
  /\ \/ /\ turn[t].save /\ stored < MaxSnapshots
        /\ latest' = turn[t].intent
        /\ stored' = stored + 1
     \/ /\ ~turn[t].save \/ MayFail
        /\ UNCHANGED <<latest, stored>>
  /\ EndTurn(t)

TurnNext ==
  \E t \in Turns :
    Extract(t) \/ LastKnownIntent(t) \/ ForgetConversation(t) \/ SearchCatalog(t) \/ RecordTurn(t)

TurnSpec == TurnInit /\ [][TurnNext]_turnVars

------------------------------------------------------------------------------
\* A buyer who said "not the strap" need not say it again: no turn, complete or
\* not, understood or not, drops an exclusion from the conversation, except one
\* that read the conversation before the exclusion was stored.
ExclusionsStay ==
  [][latest # None /\ latest' # latest =>
       \/ latest.exclude \subseteq latest'.exclude
       \/ \E t \in Turns : turn[t].pc = "record" /\ turn[t].seen < stored /\ latest' = turn[t].intent]_turnVars

\* The inductive invariant: what a turn is about to store has the exclusions of the
\* snapshot it read, if that is still the last one.
KeepsExclusions(t) ==
  turn[t].pc \in {"search", "record"} =>
    /\ turn[t].seen <= stored
    /\ turn[t].save /\ turn[t].seen = stored /\ latest # None =>
         latest.exclude \subseteq turn[t].intent.exclude

TurnInv == TurnTypeOK /\ \A t \in Turns : KeepsExclusions(t)
==============================================================================
