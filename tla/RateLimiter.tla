----------------------------- MODULE RateLimiter -----------------------------
(***************************************************************************)
(* The token buckets of backend/ratelimit in front of the routes that call *)
(* a paid model.  Buckets live in memory behind one mutex; a goroutine     *)
(* sweeps the ones nobody used for a while.  Tokens are counted in units,  *)
(* so that one time step refills a whole number of them.                   *)
(***************************************************************************)
EXTENDS Faults, Integers, Sequences

CONSTANTS
  Peers,       \* addresses of connections
  Forwarded,        \* what X-Forwarded-For may name
  TrustForwarded,   \* TRUST_PROXY_HEADERS, FALSE unless set
  Burst,            \* tokens of a full bucket (10 in the code)
  Unit,             \* units of one token
  Rate,             \* units refilled per time step
  IdleFor,          \* what is idle for longer is swept (30 minutes)
  MaxTime           \* bound: time steps

ASSUME LimiterAssumption ==
  /\ Burst \in Nat /\ Unit \in Nat \ {0} /\ Rate \in Nat /\ MaxTime \in Nat
  /\ TrustForwarded \in BOOLEAN
  /\ IdleFor \in Nat /\ IdleFor * Rate >= Burst * Unit

VARIABLES
  now,        \* the clock
  buckets,    \* per key: None or its bucket
  admitted    \* per address: when its requests were let through

limiterVars == <<now, buckets, admitted>>

LimiterKeys == Peers \cup Forwarded
Capacity == Burst * Unit
Bucket == [tokens : 0 .. Capacity, last : 0 .. MaxTime]

ASSUME NoneIsNoBucket == None \notin Bucket

LimiterTypeOK ==
  /\ now \in 0 .. MaxTime
  /\ buckets \in [LimiterKeys -> Bucket \cup {None}]
  /\ admitted \in [Peers -> Seq(0 .. MaxTime)]

LimiterInit ==
  /\ now = 0
  /\ buckets = [k \in LimiterKeys |-> None]
  /\ admitted = [a \in Peers |-> <<>>]

\* ClientIP: the header's first entry counts only where it is trusted.
ClientKey(addr, fwd) == IF TrustForwarded /\ fwd # None THEN fwd ELSE addr

\* A bucket's level at this moment; a key without one starts full.
Refilled(b) ==
  IF b = None THEN Capacity
  ELSE LET filled == b.tokens + (now - b.last) * Rate
       IN  IF filled > Capacity THEN Capacity ELSE filled

\* Allow: lastRefill and lastSeen move also when the request is refused.  (A
\* limiter that holds less than one token makes no bucket at all.)
Allow(addr, fwd) ==
  LET key == ClientKey(addr, fwd)
      level == Refilled(buckets[key])
  IN  IF level < Unit
      THEN /\ buckets' = IF buckets[key] = None THEN buckets
                         ELSE [buckets EXCEPT ![key] = [tokens |-> level, last |-> now]]
           /\ UNCHANGED <<now, admitted>>
      ELSE /\ buckets' = [buckets EXCEPT ![key] = [tokens |-> level - Unit, last |-> now]]
           /\ admitted' = [admitted EXCEPT ![addr] = Append(@, now)]
           /\ UNCHANGED now

\* Mutant: the sweep takes buckets still in use.
Sweep_Early ==
  /\ buckets' = [k \in LimiterKeys |->
       IF buckets[k] # None /\ buckets[k].last < now THEN None ELSE buckets[k]]
  /\ UNCHANGED <<now, admitted>>

Sweep ==
  /\ buckets' = [k \in LimiterKeys |->
       IF buckets[k] # None /\ buckets[k].last < now - IdleFor THEN None ELSE buckets[k]]
  /\ UNCHANGED <<now, admitted>>

TimePasses ==
  /\ now < MaxTime
  /\ now' = now + 1
  /\ UNCHANGED <<buckets, admitted>>

LimiterNext ==
  \/ \E a \in Peers, f \in Forwarded \cup {None} : Allow(a, f)
  \/ Sweep
  \/ TimePasses

LimiterSpec == LimiterInit /\ [][LimiterNext]_limiterVars

------------------------------------------------------------------------------
\* In every stretch of time an address gets at most one burst and what was
\* refilled meanwhile, whatever it is refused in between, whatever header it
\* sends, and whenever the sweep forgets it.
AdmittedWithinRate ==
  \A a \in Peers : \A i, j \in DOMAIN admitted[a] :
    i <= j => (j - i + 1) * Unit <= Capacity + (admitted[a][j] - admitted[a][i]) * Rate

\* The inductive invariant: what an address was let through since any of its
\* requests, and what it could still take at once, is no more than a full bucket
\* and the refill since.  A bucket the sweep forgets has filled up by then.
WithinRate(a) ==
  \A i \in DOMAIN admitted[a] :
    /\ admitted[a][i] <= now
    /\ (Len(admitted[a]) - i + 1) * Unit + Refilled(buckets[a])
         <= Capacity + (now - admitted[a][i]) * Rate

LimiterInv ==
  /\ LimiterTypeOK
  /\ \A k \in LimiterKeys : buckets[k] # None => buckets[k].last <= now
  /\ ~TrustForwarded => \A a \in Peers : WithinRate(a)
  /\ ~TrustForwarded => AdmittedWithinRate
==============================================================================
