----------------------------- MODULE LoginLockout -----------------------------
(***************************************************************************)
(* The login lockout of backend/auth/service.go: an in-memory counter per  *)
(* address.  It is read under its mutex before the password is checked and *)
(* written under it afterwards, with statements of the database between.   *)
(***************************************************************************)
EXTENDS Faults, Integers, FiniteSets

CONSTANTS
  Emails,            \* addresses somebody tries
  Logins,            \* requests that may run at once
  MaxLoginAttempts   \* 5 in the code

ASSUME LockoutAssumption ==
  MaxLoginAttempts \in Nat \ {0} /\ IsFiniteSet(Logins) /\ None \notin Emails

VARIABLES
  attempts,   \* per address: failures counted, and whether lockedUntil is ahead
  login       \* each request

lockoutVars == <<attempts, login>>

\* An address without an entry in the map reads like one without failures.
NoAttempts == [failures |-> 0, lock |-> "none"]
NoLogin == [pc |-> "idle", email |-> None]

LockoutTypeOK ==
  /\ attempts \in [Emails -> [failures : Nat, lock : {"none", "on", "over"}]]
  /\ login \in [Logins ->
       [pc : {"idle", "password", "failed", "session", "clear"}, email : Emails \cup {None}]]

LockoutInit ==
  /\ attempts = [e \in Emails |-> NoAttempts]
  /\ login = [l \in Logins |-> NoLogin]

LoginGoto(l, pc) == login' = [login EXCEPT ![l] = [pc |-> pc, email |-> login[l].email]]
EndLogin(l) == login' = [login EXCEPT ![l] = NoLogin]

------------------------------------------------------------------------------
\* isLockedOut: a lock that is over takes its entry with it.
BeginLogin(l, e) ==
  /\ login[l].pc = "idle" /\ attempts[e].lock # "on"
  /\ attempts' = IF attempts[e].lock = "over" THEN [attempts EXCEPT ![e] = NoAttempts] ELSE attempts
  /\ login' = [login EXCEPT ![l] = [pc |-> "password", email |-> e]]

\* GetOperatorByEmail and VerifyPassword; an error of the repository counts as a
\* wrong password.
CheckPassword(l) ==
  /\ login[l].pc = "password"
  /\ LoginGoto(l, "session") \/ LoginGoto(l, "failed")
  /\ UNCHANGED attempts

CountFailure(l, limit) ==
  /\ login[l].pc = "failed"
  /\ attempts' = [attempts EXCEPT ![login[l].email] =
       [failures |-> @.failures + 1,
        lock |-> IF @.failures + 1 >= limit THEN "on" ELSE @.lock]]
  /\ EndLogin(l)

\* Mutant: the lock comes one failure late.
RecordFailedAttempt_Late(l) == CountFailure(l, MaxLoginAttempts + 1)

RecordFailedAttempt(l) == CountFailure(l, MaxLoginAttempts)

\* CreateSession may fail, which leaves the counter as it is.
OpenSession(l) ==
  /\ login[l].pc = "session"
  /\ \/ LoginGoto(l, "clear")
     \/ MayFail /\ EndLogin(l)
  /\ UNCHANGED attempts

ClearAttempts(l) ==
  /\ login[l].pc = "clear"
  /\ attempts' = [attempts EXCEPT ![login[l].email] = NoAttempts]
  /\ EndLogin(l)

\* lockoutDuration passes.
LockEnds(e) ==
  /\ attempts[e].lock = "on"
  /\ attempts' = [attempts EXCEPT ![e] = [failures |-> @.failures, lock |-> "over"]]
  /\ UNCHANGED login

LoginStep(l) ==
  CheckPassword(l) \/ RecordFailedAttempt(l) \/ OpenSession(l) \/ ClearAttempts(l)

LockoutNext ==
  \/ \E l \in Logins : (\E e \in Emails : BeginLogin(l, e)) \/ LoginStep(l)
  \/ \E e \in Emails : LockEnds(e)

LockoutSpec == LockoutInit /\ [][LockoutNext]_lockoutVars

------------------------------------------------------------------------------
\* Between two resets of its counter an address takes at most one wrong guess for
\* every request that runs at once beyond MaxLoginAttempts - 1: requests that had
\* passed the check when the lock came are let finish, nobody else.
GuessesAreBounded ==
  \A e \in Emails : attempts[e].failures <= MaxLoginAttempts - 1 + Cardinality(Logins)

\* The inductive invariant: without a lock the limit is not reached; with one, only
\* the requests already past the check can still add to the counter.
Guessing(e) == {l \in Logins : login[l].pc \in {"password", "failed"} /\ login[l].email = e}

WithinLimit(e) ==
  IF attempts[e].lock = "none"
  THEN attempts[e].failures <= MaxLoginAttempts - 1
  ELSE attempts[e].failures + Cardinality(Guessing(e))
         <= MaxLoginAttempts - 1 + Cardinality(Logins)

LockoutInv ==
  /\ LockoutTypeOK
  /\ \A l \in Logins : login[l].pc # "idle" => login[l].email \in Emails
  /\ \A e \in Emails : WithinLimit(e)
==============================================================================
