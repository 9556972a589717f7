--------------------------- MODULE DeliveryPromise ---------------------------
(***************************************************************************)
(* What the outbox and the log promise, with no worker, batch, consumer or *)
(* crash in sight.  A row that is written is told on the stream, perhaps   *)
(* several times; it is settled once it was told, and then never told      *)
(* again.  A cart event is told any number of times or never, until it is  *)
(* announced, and then never again.  The group is handed what was told     *)
(* since it began, in order and without gaps, and what it was handed stays *)
(* open until it is in the log, which nothing leaves.                      *)
(***************************************************************************)
EXTENDS Integers, Sequences

CONSTANTS Rows, CartEvents

VARIABLES outbox, announced, stream, next, pending, eventLog

vars == <<outbox, announced, stream, next, pending, eventLog>>

Told(x) == \E i \in 1 .. Len(stream) : stream[i] = x

Init ==
  /\ outbox = [r \in Rows |-> "absent"]
  /\ announced = {} /\ stream = <<>> /\ next = 0
  /\ pending = {} /\ eventLog = {}

Write(r) ==
  /\ outbox[r] = "absent"
  /\ outbox' = [outbox EXCEPT ![r] = "unpublished"]
  /\ UNCHANGED <<announced, stream, next, pending, eventLog>>

Tell(r) ==
  /\ outbox[r] = "unpublished"
  /\ stream' = Append(stream, r)
  /\ UNCHANGED <<outbox, announced, next, pending, eventLog>>

Announce(c) ==
  /\ c \notin announced
  /\ stream' = Append(stream, c)
  /\ announced' \in {announced, announced \cup {c}}
  /\ UNCHANGED <<outbox, next, pending, eventLog>>

\* Told or not.
GiveUp(S) ==
  /\ announced' = announced \cup S
  /\ UNCHANGED <<outbox, stream, next, pending, eventLog>>

Settle(S) ==
  /\ \A r \in S : outbox[r] = "unpublished" /\ Told(r)
  /\ outbox' = [r \in Rows |-> IF r \in S THEN "published" ELSE outbox[r]]
  /\ UNCHANGED <<announced, stream, next, pending, eventLog>>

Begin ==
  /\ next = 0
  /\ next' = Len(stream) + 1
  /\ UNCHANGED <<outbox, announced, stream, pending, eventLog>>

Hand(last) ==
  /\ next # 0 /\ next <= last
  /\ next' = last + 1
  /\ pending' = pending \cup next .. last
  /\ UNCHANGED <<outbox, announced, stream, eventLog>>

Log(m) ==
  /\ m \in pending
  /\ eventLog' = eventLog \cup {m}
  /\ UNCHANGED <<outbox, announced, stream, next, pending>>

Close(m) ==
  /\ m \in pending /\ m \in eventLog
  /\ pending' = pending \ {m}
  /\ UNCHANGED <<outbox, announced, stream, next, eventLog>>

Next ==
  \/ \E r \in Rows : Write(r) \/ Tell(r)
  \/ \E S \in SUBSET Rows : Settle(S)
  \/ \E c \in CartEvents : Announce(c)
  \/ \E S \in SUBSET CartEvents : GiveUp(S)
  \/ Begin
  \/ \E i \in 1 .. Len(stream) : Hand(i) \/ Log(i) \/ Close(i)

Spec == Init /\ [][Next]_vars
==============================================================================
