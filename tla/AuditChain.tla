------------------------------ MODULE AuditChain ------------------------------
(***************************************************************************)
(* The hash chain over audit_events (backend/audit).  Every writer runs    *)
(* one transaction: take the advisory lock, insert the row, read the hash  *)
(* of the last hashed row below it, store its own hash, commit.  Statements *)
(* may fail and connections break anywhere, which rolls back and lets the  *)
(* lock go; the ids such a transaction drew are never given out again.     *)
(***************************************************************************)
EXTENDS Faults, Integers

CONSTANTS
  Writers,     \* concurrent calls of Write
  Entries,     \* what they write: actor, action, entity and detail
  Legacy,      \* rows older than the chain, with ids 1 .. Legacy and no hash
  AuditIds     \* bound: ids the sequence may hand out

ASSUME AuditAssumption ==
  Legacy \in Nat /\ AuditIds \subseteq Nat /\ None \notin Writers

VARIABLES
  auditRows,   \* committed rows, by id
  nextAudit,   \* the sequence behind audit_events.id
  chainLock,   \* who holds the advisory lock
  writer       \* each call of Write

auditVars == <<auditRows, nextAudit, chainLock, writer>>

LockedSteps == {"insert", "link", "commit"}
Writing(pc, entry, id, prev) == [pc |-> pc, entry |-> entry, id |-> id, prev |-> prev]
AtRest == Writing("idle", None, 0, None)
WriterGoto(w, state) == writer' = [writer EXCEPT ![w] = state]

\* SHA256 over the content and the hash before: nothing but equal arguments gives
\* equal hashes.
Hash(entry, prev) == <<entry, prev>>

AuditInit ==
  /\ auditRows = [i \in 1 .. Legacy |->
                   [entry |-> None, hashed |-> FALSE, hash |-> None, prev |-> None]]
  /\ nextAudit = Legacy + 1
  /\ chainLock = None
  /\ writer = [w \in Writers |-> AtRest]

\* The hashed rows with a smaller id.
HashedBefore(i) == {j \in DOMAIN auditRows : j < i /\ auditRows[j].hashed}

\* The hash that belongs into the row with id i: of the last hashed row before.
IsLink(prev, i) ==
  \/ HashedBefore(i) = {} /\ prev = None
  \/ \E j \in HashedBefore(i) :
       (\A k \in HashedBefore(i) : k <= j) /\ prev = auditRows[j].hash

AuditTypeOK ==
  /\ nextAudit \in Nat \ {0}
  /\ DOMAIN auditRows \subseteq 1 .. nextAudit - 1
  /\ chainLock \in Writers \cup {None}
  /\ DOMAIN writer = Writers
  /\ \A w \in Writers : writer[w].pc \in LockedSteps \cup {"idle", "lock"}

------------------------------------------------------------------------------
BeginWrite(w, e) ==
  /\ writer[w].pc = "idle"
  /\ WriterGoto(w, Writing("lock", e, 0, None))
  /\ UNCHANGED <<auditRows, nextAudit, chainLock>>

\* Mutant: nobody waits for the lock.
TakeChainLock_Free(w) ==
  /\ writer[w].pc = "lock"
  /\ chainLock' = w
  /\ WriterGoto(w, Writing("insert", writer[w].entry, 0, None))
  /\ UNCHANGED <<auditRows, nextAudit>>

TakeChainLock(w) ==
  /\ writer[w].pc = "lock"
  /\ chainLock = None
  /\ chainLock' = w
  /\ WriterGoto(w, Writing("insert", writer[w].entry, 0, None))
  /\ UNCHANGED <<auditRows, nextAudit>>

InsertEvent(w) ==
  /\ writer[w].pc = "insert" /\ nextAudit \in AuditIds
  /\ nextAudit' = nextAudit + 1
  /\ WriterGoto(w, Writing("link", writer[w].entry, nextAudit, None))
  /\ UNCHANGED <<auditRows, chainLock>>

\* Read committed: what this SELECT sees is committed by now.
ReadLink(w) ==
  /\ writer[w].pc = "link"
  /\ \/ /\ HashedBefore(writer[w].id) = {}
        /\ WriterGoto(w, Writing("commit", writer[w].entry, writer[w].id, None))
     \/ \E j \in HashedBefore(writer[w].id) :
          /\ \A k \in HashedBefore(writer[w].id) : k <= j
          /\ WriterGoto(w, Writing("commit", writer[w].entry, writer[w].id, auditRows[j].hash))
  /\ UNCHANGED <<auditRows, nextAudit, chainLock>>

\* The row's own hash is stored, the transaction commits and the lock is free.
CommitEvent(w) ==
  /\ writer[w].pc = "commit"
  /\ auditRows' =
       [i \in DOMAIN auditRows \cup {writer[w].id} |->
          IF i = writer[w].id
          THEN [entry |-> writer[w].entry, hashed |-> TRUE,
                hash |-> Hash(writer[w].entry, writer[w].prev), prev |-> writer[w].prev]
          ELSE auditRows[i]]
  /\ chainLock' = None
  /\ WriterGoto(w, AtRest)
  /\ UNCHANGED nextAudit

BreakWrite(w) ==
  /\ MayFail
  /\ writer[w].pc # "idle"
  /\ chainLock' = IF chainLock = w THEN None ELSE chainLock
  /\ WriterGoto(w, AtRest)
  /\ UNCHANGED <<auditRows, nextAudit>>

WriteStep(w) ==
  TakeChainLock(w) \/ InsertEvent(w) \/ ReadLink(w) \/ CommitEvent(w) \/ BreakWrite(w)

AuditNext ==
  \E w \in Writers : (\E e \in Entries : BeginWrite(w, e)) \/ WriteStep(w)

AuditSpec == AuditInit /\ [][AuditNext]_auditVars

------------------------------------------------------------------------------
\* Verifier.Verify walks the rows by id: a row without a hash may only stand
\* before the first one with a hash; every other row names the hash of the one
\* before it and has the hash its own content gives.
VerifiedRow(i) ==
  IF auditRows[i].hashed
  THEN /\ IsLink(auditRows[i].prev, i)
       /\ auditRows[i].hash = Hash(auditRows[i].entry, auditRows[i].prev)
  ELSE HashedBefore(i) = {}

\* No order of writers, and no transaction that broke off, ever makes
\* GET /trust/summary report a broken chain nobody tampered with.
ChainVerifies == \A i \in DOMAIN auditRows : VerifiedRow(i)

\* The inductive invariant: who is past the lock holds it, what such a writer
\* inserted lies above everything committed, and what it read is the link that
\* belongs into its row.
AuditInv ==
  /\ AuditTypeOK
  /\ \A w \in Writers :
       /\ writer[w].pc \in LockedSteps <=> chainLock = w
       /\ writer[w].pc \in {"link", "commit"} =>
            /\ writer[w].id \in 1 .. nextAudit - 1
            /\ \A i \in DOMAIN auditRows : i < writer[w].id
       /\ writer[w].pc = "commit" => IsLink(writer[w].prev, writer[w].id)
  /\ ChainVerifies
==============================================================================
