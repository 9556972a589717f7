---------------------------- MODULE EventDelivery ----------------------------
(***************************************************************************)
(* From the outbox to the event log (backend/events): one worker polls     *)
(* outbox_events, publishes to a Redis stream and marks what it published; *)
(* the consumer of a group of its own stores every message it is handed in *)
(* event_log.  The cart handler publishes straight to the stream.  All of  *)
(* them are goroutines of one process, which may die between any two       *)
(* steps.  (The second group's consumer is in module Suggestions.)         *)
(***************************************************************************)
EXTENDS Faults, Integers, FiniteSets, Sequences

CONSTANTS
  Rows,          \* ids of outbox_events, oldest first
  CartEvents,    \* cart.item_added events
  Batch,         \* rows per poll, messages per read (10 in the code)
  MaxFaults      \* bound: failures and crashes in one behaviour

ASSUME EventAssumption ==
  /\ Rows \subseteq Nat /\ Batch \in Nat \ {0} /\ MaxFaults \in Nat

VARIABLES
  outbox,     \* outbox_events: absent, unpublished or published
  announced,  \* cart events whose publication has ended
  stream,     \* the Redis stream; a message's id is its position
  worker,     \* OutboxWorker: the rows of its batch still to publish, and those published
  next,       \* the position the group reads next, 0 before it is created
  pending,    \* messages handed to the group and not acknowledged
  consumer,   \* StreamConsumer: what it is doing with which messages
  eventLog,   \* event_log: positions of the messages stored
  faults      \* bound: how often something failed

eventVars ==
  <<outbox, announced, stream, worker, next, pending, consumer, eventLog, faults>>

Positions == 1 .. Len(stream)
IdleWorker == [pc |-> "idle", todo |-> {}, done |-> {}]
Stopped == [pc |-> "start", batch |-> {}]

EventTypeOK ==
  /\ outbox \in [Rows -> {"absent", "unpublished", "published"}]
  /\ announced \subseteq CartEvents
  /\ stream \in Seq(Rows \cup CartEvents)
  /\ worker \in [pc : {"idle", "publish", "mark"}, todo : SUBSET Rows, done : SUBSET Rows]
  /\ next \in 0 .. Len(stream) + 1
  /\ pending \subseteq Positions
  /\ consumer \in [pc : {"start", "poll", "store", "ack"}, batch : SUBSET Positions]
  /\ eventLog \subseteq Positions
  /\ faults \in 0 .. MaxFaults

EventInit ==
  /\ outbox = [r \in Rows |-> "absent"]
  /\ announced = {}
  /\ stream = <<>>
  /\ worker = IdleWorker
  /\ next = 0
  /\ pending = {}
  /\ consumer = Stopped
  /\ eventLog = {}
  /\ faults = 0

\* Batches are worked off in the order of their ids.
IsFirst(x, set) == x \in set /\ \A y \in set : x <= y

Fault == MayFail /\ faults < MaxFaults /\ faults' = faults + 1
NoFault == UNCHANGED faults

------------------------------------------------------------------------------
\* Publishers.

\* The webhook's INSERT; a later id may be committed before an earlier one.
InsertOutbox(r) ==
  /\ outbox[r] = "absent"
  /\ outbox' = [outbox EXCEPT ![r] = "unpublished"]
  /\ UNCHANGED <<announced, stream, worker, next, pending, consumer, eventLog, faults>>

\* Best effort.  An XADD that fails, or whose answer is lost, is sent again by the
\* client library; when that gives up, the handler logs it and forgets it.
PublishCartEvent(c) ==
  /\ c \notin announced
  /\ \/ /\ stream' = Append(stream, c)
        /\ announced' = announced \cup {c}
        /\ NoFault
     \/ /\ stream' \in {stream, Append(stream, c)}
        /\ announced' \in {announced, announced \cup {c}}
        /\ Fault
  /\ UNCHANGED <<outbox, worker, next, pending, consumer, eventLog>>

Unpublished == {r \in Rows : outbox[r] = "unpublished"}

Poll(rows) ==
  /\ worker.pc = "idle" /\ rows # {}
  /\ worker' = [pc |-> "publish", done |-> {},
                 todo |-> {r \in rows : Cardinality({q \in rows : q < r}) < Batch}]
  /\ UNCHANGED <<outbox, announced, stream, next, pending, consumer, eventLog, faults>>

\* Mutant: only rows with a larger id than any published one are looked for.
PollUnpublished_Cursor ==
  Poll({r \in Unpublished : \A q \in Rows : outbox[q] = "published" => q < r})

PollUnpublished == Poll(Unpublished)

Publish(r) ==
  /\ worker.pc = "publish" /\ IsFirst(r, worker.todo)
  /\ stream' = Append(stream, r)
  /\ worker' = [pc |-> IF worker.todo = {r} THEN "mark" ELSE "publish",
                todo |-> worker.todo \ {r}, done |-> worker.done \cup {r}]
  /\ UNCHANGED <<outbox, announced, next, pending, consumer, eventLog, faults>>

\* Mutant: a failed publication is skipped and marked with the rest.
PublishFails_Counts(r) ==
  /\ worker.pc = "publish" /\ IsFirst(r, worker.todo) /\ Fault
  /\ worker' = [pc |-> "mark", todo |-> {}, done |-> worker.done \cup {r}]
  /\ UNCHANGED <<outbox, announced, stream, next, pending, consumer, eventLog>>

\* XADD fails, or only its answer is lost: the client library sends it again, or
\* gives up.  Then the batch stops, and what was published before is marked.
PublishFails(r) ==
  /\ worker.pc = "publish" /\ IsFirst(r, worker.todo) /\ Fault
  /\ stream' \in {stream, Append(stream, r)}
  /\ \/ UNCHANGED worker
     \/ worker' = IF worker.done = {} THEN IdleWorker
                  ELSE [pc |-> "mark", todo |-> {}, done |-> worker.done]
  /\ UNCHANGED <<outbox, announced, next, pending, consumer, eventLog>>

MarkPublished ==
  /\ worker.pc = "mark"
  /\ \/ outbox' = [r \in Rows |-> IF r \in worker.done THEN "published" ELSE outbox[r]] /\ NoFault
     \/ UNCHANGED outbox /\ Fault
  /\ worker' = IdleWorker
  /\ UNCHANGED <<announced, stream, next, pending, consumer, eventLog>>

------------------------------------------------------------------------------
\* The consumer.

ConsumerGoto(pc, batch) == consumer' = [pc |-> pc, batch |-> batch]

\* The group starts behind the last message.  That it exists already, or that
\* Redis does not answer, is ignored alike.
CreateGroup ==
  /\ consumer.pc = "start"
  /\ \/ next' = (IF next = 0 THEN Len(stream) + 1 ELSE next) /\ NoFault
     \/ UNCHANGED next /\ Fault
  /\ ConsumerGoto("poll", {})
  /\ UNCHANGED <<outbox, announced, stream, worker, pending, eventLog>>

\* XREADGROUP ">" hands out what no consumer of the group was handed before; its
\* answer may be lost on the way.
ReadGroup ==
  /\ consumer.pc = "poll"
  /\ next \in Positions
  /\ LET last == IF next + Batch - 1 < Len(stream) THEN next + Batch - 1 ELSE Len(stream)
     IN  /\ next' = last + 1
         /\ pending' = pending \cup next .. last
         /\ \/ ConsumerGoto("store", next .. last) /\ NoFault
            \/ UNCHANGED consumer /\ Fault
  /\ UNCHANGED <<outbox, announced, stream, worker, eventLog>>

\* On to the next message of the batch, or to the next poll.
NextMessage(m) ==
  ConsumerGoto(IF consumer.batch = {m} THEN "poll" ELSE "store", consumer.batch \ {m})

AtMessage(m, pc) == consumer.pc = pc /\ IsFirst(m, consumer.batch)

\* INSERT ... ON CONFLICT (stream, stream_message_id) DO NOTHING.
StoreMessage(m) ==
  /\ AtMessage(m, "store")
  /\ eventLog' = eventLog \cup {m}
  /\ ConsumerGoto("ack", consumer.batch)
  /\ UNCHANGED <<outbox, announced, stream, worker, next, pending, faults>>

\* Mutant: a message that could not be stored is acknowledged all the same.
StoreMessageFails_Acks(m) ==
  /\ AtMessage(m, "store") /\ Fault
  /\ ConsumerGoto("ack", consumer.batch)
  /\ UNCHANGED <<outbox, announced, stream, worker, next, pending, eventLog>>

\* A message that could not be stored stays pending.
StoreMessageFails(m) ==
  /\ AtMessage(m, "store") /\ Fault
  /\ NextMessage(m)
  /\ UNCHANGED <<outbox, announced, stream, worker, next, pending, eventLog>>

\* XACK's own error is ignored.
AckMessage(m) ==
  /\ AtMessage(m, "ack")
  /\ \/ pending' = pending \ {m} /\ NoFault
     \/ UNCHANGED pending /\ Fault
  /\ NextMessage(m)
  /\ UNCHANGED <<outbox, announced, stream, worker, next, eventLog>>

\* The process dies and starts again; Postgres and Redis keep what they have.  A cart
\* event already on the stream is not sent again by anyone.
CrashEvents ==
  /\ Fault
  /\ announced' = announced \cup {c \in CartEvents : \E i \in Positions : stream[i] = c}
  /\ worker' = IdleWorker
  /\ consumer' = Stopped
  /\ UNCHANGED <<outbox, stream, next, pending, eventLog>>

ConsumerStep ==
  \/ CreateGroup \/ ReadGroup
  \/ \E m \in Positions : StoreMessage(m) \/ StoreMessageFails(m) \/ AckMessage(m)

WorkerStep ==
  PollUnpublished \/ MarkPublished \/ \E r \in Rows : Publish(r) \/ PublishFails(r)

EventNext ==
  \/ \E r \in Rows : InsertOutbox(r)
  \/ \E c \in CartEvents : PublishCartEvent(c)
  \/ WorkerStep
  \/ ConsumerStep
  \/ CrashEvents

\* The worker and the consumer loop for as long as the process lives.
EventSpec ==
  EventInit /\ [][EventNext]_eventVars /\ WF_eventVars(WorkerStep) /\ WF_eventVars(ConsumerStep)

------------------------------------------------------------------------------
\* Properties.

OnStream(r) == \E i \in Positions : stream[i] = r

\* What the worker marked is on the stream: no row is given up that nobody was
\* told of, wherever publishing, marking or the process broke off.
PublishedIsOnStream == \A r \in Rows : outbox[r] = "published" => OnStream(r)

\* The log group gets rid of a message only by storing it: from its creation on, what
\* is pending or in event_log is what was before and what it is newly handed, and no
\* failure, crash or acknowledgement takes anything out of the two together.
LoggedOrPending ==
  [][next # 0 => pending' \cup eventLog' = pending \cup eventLog \cup (next .. next' - 1)]_eventVars

\* Every row written to the outbox is published in the end, also over crashes and
\* failures, as long as these stop.
EveryRowIsPublished ==
  \A r \in Rows : (outbox[r] = "unpublished") ~> (outbox[r] = "published")

\* Batches, lost answers and crashes do not show: rows and messages move as
\* DeliveryPromise has them, one step at a time.
Delivery == INSTANCE DeliveryPromise
DeliveredAsPromised == Delivery!Spec

\* The inductive invariant: what the worker published of its batch is on the stream,
\* and what the consumer works on was handed to it and, about to be acknowledged, stored.
EventInv ==
  /\ EventTypeOK
  /\ \A r \in worker.done : OnStream(r)
  /\ PublishedIsOnStream
  /\ consumer.batch \subseteq pending \cup eventLog
  /\ \A m \in consumer.batch : AtMessage(m, "ack") => m \in eventLog

\* And what the promise rests on besides: what the worker is busy with is marked by
\* nobody else, and the consumer's messages are pending.
DeliveryInv ==
  /\ \A r \in worker.todo \cup worker.done : outbox[r] = "unpublished"
  /\ consumer.batch \subseteq pending
==============================================================================
