--------------------------- MODULE OperatorAccounts ---------------------------
(***************************************************************************)
(* The operators of one merchant (backend/auth): logging in and out,       *)
(* inviting, accepting, revoking and removing.  Handlers run at once, each *)
(* a sequence of single statements; the tables' keys are part of the       *)
(* statements they guard.  (The lockout is in module LoginLockout.)        *)
(***************************************************************************)
EXTENDS Faults, Integers, FiniteSets

CONSTANTS
  Operators, Founder,  \* operator ids; the seeded operator's
  Addresses, Home,     \* addresses; the founder's
  Invites,             \* invite ids
  Callers              \* requests that may run at once

ASSUME AccountAssumption ==
  /\ Founder \in Operators /\ Home \in Addresses
  /\ None \notin Operators \cup Addresses \cup Invites

VARIABLES
  account,    \* operators: the address of each row
  issued,     \* ids ever given out: random, so never again
  invite,     \* operator_invites
  sessions,   \* operators with a live operator_sessions row
  caller      \* each handler

accountVars == <<account, issued, invite, sessions, caller>>

Invite == [email : Addresses, by : Operators, accepted : BOOLEAN, live : BOOLEAN]

CallerSteps ==
  {"login", "operator", "invite", "remove", "create", "mark", "welcome"}
Waiting == [pc |-> "idle", op |-> None, email |-> None, i |-> None]

AccountTypeOK ==
  /\ account \in [Operators -> Addresses \cup {None}]
  /\ issued \subseteq Operators
  /\ invite \in [Invites -> Invite \cup {None}]
  /\ sessions \subseteq Operators
  /\ caller \in [Callers ->
       [pc : CallerSteps \cup {"idle"}, op : Operators \cup {None},
        email : Addresses \cup {None}, i : Invites \cup {None}]]

AccountInit ==
  /\ account = [p \in Operators |-> IF p = Founder THEN Home ELSE None]
  /\ issued = {Founder}
  /\ invite = [i \in Invites |-> None]
  /\ sessions = {}
  /\ caller = [c \in Callers |-> Waiting]

Team == {p \in Operators : account[p] # None}
AtStep(c, pc) == caller[c].pc = pc
Continue(c, pc, op, email, i) ==
  caller' = [caller EXCEPT ![c] = [pc |-> pc, op |-> op, email |-> email, i |-> i]]
Return(c) == caller' = [caller EXCEPT ![c] = Waiting]

------------------------------------------------------------------------------
\* Sessions.

\* The password was right.
LogIn(c, p) ==
  /\ AtStep(c, "idle") /\ p \in Team
  /\ Continue(c, "login", p, None, None)
  /\ UNCHANGED <<account, issued, invite, sessions>>

\* Mutant: the row does not need its operator.
CreateSession_Unchecked(c) ==
  /\ caller[c].pc \in {"login", "welcome"}
  /\ sessions' = sessions \cup {caller[c].op}
  /\ Return(c)
  /\ UNCHANGED <<account, issued, invite>>

\* The session of a login, or of an accepted invite.  Its operator may be gone by
\* now: the foreign key refuses it, and nothing more happens.
CreateSession(c) ==
  /\ caller[c].pc \in {"login", "welcome"}
  /\ sessions' = sessions \cup ({caller[c].op} \cap Team)
  /\ Return(c)
  /\ UNCHANGED <<account, issued, invite>>

\* Logging out, or the session's time being up.
EndSession(p) ==
  /\ p \in sessions
  /\ sessions' = sessions \ {p}
  /\ UNCHANGED <<account, issued, invite, caller>>

------------------------------------------------------------------------------
\* The team.

\* RequireOperator resolves the token once, before the handler runs.
RequireOperator(c, p) ==
  /\ AtStep(c, "idle") /\ p \in sessions
  /\ Continue(c, "operator", p, None, None)
  /\ UNCHANGED <<account, issued, invite, sessions>>

BeginInvite(c, e) ==
  /\ AtStep(c, "operator")
  /\ \A p \in Team : account[p] # e
  /\ Continue(c, "invite", caller[c].op, e, None)
  /\ UNCHANGED <<account, issued, invite, sessions>>

\* invited_by must still be an operator.
CreateInvite(c) ==
  /\ AtStep(c, "invite")
  /\ IF caller[c].op \in Team
     THEN \E i \in Invites :
            /\ invite[i] = None
            /\ invite' = [invite EXCEPT ![i] =
                 [email |-> caller[c].email, by |-> caller[c].op, accepted |-> FALSE, live |-> TRUE]]
     ELSE UNCHANGED invite
  /\ Return(c)
  /\ UNCHANGED <<account, issued, sessions>>

ExpireInvite(i) ==
  /\ invite[i] # None /\ invite[i].live
  /\ invite' = [invite EXCEPT ![i].live = FALSE]
  /\ UNCHANGED <<account, issued, sessions, caller>>

\* Whether it was accepted is not looked at.
RevokeInvite(c, i) ==
  /\ AtStep(c, "operator") /\ invite[i] # None
  /\ invite' = [invite EXCEPT ![i] = None]
  /\ Return(c)
  /\ UNCHANGED <<account, issued, sessions>>

\* Not oneself, and not the last one.
BeginRemove(c, p) ==
  /\ AtStep(c, "operator") /\ p # caller[c].op
  /\ Cardinality(Team) > 1
  /\ Continue(c, "remove", p, None, None)
  /\ UNCHANGED <<account, issued, invite, sessions>>

\* The sessions go with the operator; an invite that names it as inviter forbids
\* the deletion.
DeleteOperator(c) ==
  /\ AtStep(c, "remove")
  /\ IF \E i \in Invites : invite[i] # None /\ invite[i].by = caller[c].op
     THEN UNCHANGED <<account, sessions>>
     ELSE /\ account' = [account EXCEPT ![caller[c].op] = None]
          /\ sessions' = sessions \ {caller[c].op}
  /\ Return(c)
  /\ UNCHANGED <<issued, invite>>

ReadInvite(c, i) ==
  /\ AtStep(c, "idle") /\ invite[i] # None
  /\ ~invite[i].accepted /\ invite[i].live
  /\ Continue(c, "create", None, invite[i].email, i)
  /\ UNCHANGED <<account, issued, invite, sessions>>

\* Mutant: that the address was free when the invite was made is relied on.
CreateOperator_Unchecked(c) ==
  /\ AtStep(c, "create")
  /\ \E p \in Operators \ issued :
       /\ account' = [account EXCEPT ![p] = caller[c].email]
       /\ issued' = issued \cup {p}
       /\ Continue(c, "mark", p, caller[c].email, caller[c].i)
  /\ UNCHANGED <<invite, sessions>>

\* The address is unique.
CreateOperator(c) ==
  /\ AtStep(c, "create")
  /\ IF \E p \in Team : account[p] = caller[c].email
     THEN UNCHANGED <<account, issued>> /\ Return(c)
     ELSE \E p \in Operators \ issued :
            /\ account' = [account EXCEPT ![p] = caller[c].email]
            /\ issued' = issued \cup {p}
            /\ Continue(c, "mark", p, caller[c].email, caller[c].i)
  /\ UNCHANGED <<invite, sessions>>

\* The invite may be gone; that marking failed is only logged.
MarkInviteAccepted(c) ==
  /\ AtStep(c, "mark")
  /\ \/ invite' = [invite EXCEPT ![caller[c].i] = IF @ = None THEN None ELSE [@ EXCEPT !.accepted = TRUE]]
     \/ MayFail /\ UNCHANGED invite
  /\ Continue(c, "welcome", caller[c].op, None, None)
  /\ UNCHANGED <<account, issued, sessions>>

\* An error, or a request nobody is there to answer any more.
BreakCaller(c) ==
  /\ MayFail /\ caller[c].pc \in CallerSteps
  /\ Return(c)
  /\ UNCHANGED <<account, issued, invite, sessions>>

TeamStep(c) ==
  \/ CreateSession(c) \/ CreateInvite(c) \/ DeleteOperator(c) \/ CreateOperator(c) \/ MarkInviteAccepted(c)
  \/ \E e \in Addresses : BeginInvite(c, e)
  \/ \E i \in Invites : RevokeInvite(c, i) \/ ReadInvite(c, i)
  \/ \E p \in Operators : LogIn(c, p) \/ RequireOperator(c, p) \/ BeginRemove(c, p)

AccountNext ==
  \/ \E c \in Callers : TeamStep(c) \/ BreakCaller(c)
  \/ \E i \in Invites : ExpireInvite(i)
  \/ \E p \in Operators : EndSession(p)

AccountSpec == AccountInit /\ [][AccountNext]_accountVars

------------------------------------------------------------------------------
\* Properties.

\* Whatever invites for one address are accepted at once, an address has one
\* account, and a session always has its operator, however logins and acceptances
\* race with removals: a token means one person, or nobody.
TokensMeanOneOperator ==
  /\ \A p, q \in Team : account[p] = account[q] => p = q
  /\ sessions \subseteq Team

\* The inductive invariant: ids are never given out twice, and who creates an operator
\* has its address.
AccountInv ==
  /\ AccountTypeOK
  /\ Team \subseteq issued
  /\ \A c \in Callers :
       caller[c].pc \in {"invite", "create"} => caller[c].email \in Addresses
  /\ TokensMeanOneOperator
==============================================================================
