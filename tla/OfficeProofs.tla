----------------------------- MODULE OfficeProofs -----------------------------
(***************************************************************************)
(* The services beside payment and checkout.  Events: nothing is marked    *)
(* that is not on the stream, nothing acknowledged that is not in the log, *)
(* and what shows of them is DeliveryPromise.  The audit log: the chain    *)
(* verifies from the first row to the last.  And five in which something   *)
(* is read first and acted on later: reviews of paid orders, the accounts  *)
(* of a team, the approval of a campaign, a conversation's snapshots, the  *)
(* cached catalog.  What was read still holds, or a key, a lock or a mark  *)
(* of the race looks again: for any rows and any number of requests at     *)
(* once.  The end is about all of them, the limits with them: what values  *)
(* their variables may have.                                               *)
(***************************************************************************)
EXTENDS MCBackOffice, LimitProofs

------------------------------------------------------------------------------
\* EventDelivery.

\* A stream only grows, at its end.
LEMMA StreamGrows ==
  ASSUME EventTypeOK, NEW x \in Rows \cup CartEvents,
         stream' = stream \/ stream' = Append(stream, x)
  PROVE  /\ stream' \in Seq(Rows \cup CartEvents)
         /\ Positions \subseteq Positions'
         /\ Len(stream) \in Nat /\ Len(stream) <= Len(stream')
         /\ \A r : OnStream(r) => OnStream(r)'
<1>1. stream \in Seq(Rows \cup CartEvents) /\ Len(stream) \in Nat
  BY DEF EventTypeOK
<1>2. CASE stream' = stream
  BY <1>1, <1>2 DEF Positions, OnStream
<1>3. CASE stream' = Append(stream, x)
  <2>1. /\ stream' \in Seq(Rows \cup CartEvents)
        /\ Len(stream') = Len(stream) + 1
        /\ \A i \in 1 .. Len(stream) : stream'[i] = stream[i]
    BY <1>1, <1>3
  <2> QED
    BY <1>1, <2>1 DEF Positions, OnStream
<1> QED
  BY <1>2, <1>3

\* What is appended is on the stream.
LEMMA AppendedIsOnStream ==
  ASSUME EventTypeOK, NEW x \in Rows \cup CartEvents, stream' = Append(stream, x)
  PROVE  OnStream(x)'
<1>1. /\ Len(stream) + 1 \in 1 .. Len(stream') /\ stream'[Len(stream) + 1] = x
  BY DEF EventTypeOK
<1> QED
  BY <1>1 DEF OnStream, Positions

\* The parts of the invariant that speak of the consumer are kept where neither it
\* nor what it works on changes.
LEMMA ConsumerRests ==
  ASSUME EventInv, UNCHANGED <<next, pending, consumer, eventLog>>
  PROVE  /\ consumer'.batch \subseteq pending' \cup eventLog'
         /\ \A m \in consumer'.batch : AtMessage(m, "ack")' => m \in eventLog'
BY DEF EventInv, AtMessage, IsFirst

\* The parts that speak of the worker are kept where it rests, and the stream and the
\* table with it.
LEMMA WorkerRests ==
  ASSUME EventInv, UNCHANGED <<outbox, stream, worker>>
  PROVE  /\ \A r \in worker'.done : OnStream(r)'
         /\ PublishedIsOnStream'
BY DEF EventInv, PublishedIsOnStream, OnStream, Positions

LEMMA FaultsAreBounded ==
  ASSUME EventTypeOK, Fault \/ NoFault
  PROVE  faults' \in 0 .. MaxFaults
BY EventAssumption DEF EventTypeOK, Fault, NoFault

LEMMA EventInitInv == EventInit => EventInv
<1> SUFFICES ASSUME EventInit PROVE EventInv
  OBVIOUS
<1>1. EventTypeOK
  BY EventAssumption DEF EventInit, EventTypeOK, IdleWorker, Stopped, Positions
<1> QED
  BY <1>1 DEF EventInit, EventInv, IdleWorker, Stopped, PublishedIsOnStream

\* Publishers touch neither the worker's batch nor the consumer.
LEMMA InsertOutboxKeeps ==
  ASSUME EventInv, NEW r \in Rows, InsertOutbox(r)
  PROVE  EventInv'
<1>1. EventTypeOK'
  BY DEF EventInv, EventTypeOK, InsertOutbox, Positions
<1>2. \A q \in worker'.done : OnStream(q)'
  BY DEF EventInv, InsertOutbox, OnStream, Positions
<1>3. PublishedIsOnStream'
  BY DEF EventInv, EventTypeOK, InsertOutbox, PublishedIsOnStream, OnStream, Positions
<1> QED
  BY <1>1, <1>2, <1>3, ConsumerRests DEF EventInv, InsertOutbox

LEMMA PublishCartEventKeeps ==
  ASSUME EventInv, NEW c \in CartEvents, PublishCartEvent(c)
  PROVE  EventInv'
<1>1. EventTypeOK /\ (stream' = stream \/ stream' = Append(stream, c)) /\ (Fault \/ NoFault)
  BY DEF EventInv, PublishCartEvent
<1>2. EventTypeOK'
  <2>1. /\ stream' \in Seq(Rows \cup CartEvents) /\ Positions \subseteq Positions'
        /\ Len(stream) \in Nat /\ Len(stream) <= Len(stream') /\ Len(stream') \in Nat
    BY <1>1, StreamGrows
  <2>2. faults' \in 0 .. MaxFaults
    BY <1>1, FaultsAreBounded
  <2>3. /\ announced' \subseteq CartEvents
        /\ UNCHANGED <<outbox, worker, next, pending, consumer, eventLog>>
    BY <1>1 DEF EventTypeOK, PublishCartEvent
  <2> QED
    BY <1>1, <2>1, <2>2, <2>3 DEF EventTypeOK
<1>3. (\A q \in worker'.done : OnStream(q)') /\ PublishedIsOnStream'
  BY <1>1, StreamGrows DEF EventInv, PublishCartEvent, PublishedIsOnStream
<1> QED
  BY <1>2, <1>3, ConsumerRests DEF EventInv, PublishCartEvent

\* A batch begins with nothing published of it.
LEMMA PollKeeps ==
  ASSUME EventInv, PollUnpublished
  PROVE  EventInv'
<1>1. /\ worker' \in [pc : {"idle", "publish", "mark"}, todo : SUBSET Rows, done : SUBSET Rows]
      /\ worker'.done = {}
  BY DEF PollUnpublished, Poll, Unpublished
<1>2. EventTypeOK'
  BY <1>1 DEF EventInv, EventTypeOK, PollUnpublished, Poll, Positions
<1>3. PublishedIsOnStream'
  BY DEF EventInv, PollUnpublished, Poll, PublishedIsOnStream, OnStream, Positions
<1> QED
  BY <1>1, <1>2, <1>3, ConsumerRests DEF EventInv, PollUnpublished, Poll

LEMMA PublishKeeps ==
  ASSUME EventInv, NEW r \in Rows, Publish(r)
  PROVE  EventInv'
<1>1. EventTypeOK /\ stream' = Append(stream, r)
  BY DEF EventInv, Publish
<1>2. /\ worker' \in [pc : {"idle", "publish", "mark"}, todo : SUBSET Rows, done : SUBSET Rows]
      /\ worker'.done = worker.done \cup {r}
  BY <1>1 DEF EventTypeOK, Publish
<1>3. EventTypeOK'
  <2>1. /\ stream' \in Seq(Rows \cup CartEvents) /\ Positions \subseteq Positions'
        /\ Len(stream) \in Nat /\ Len(stream) <= Len(stream') /\ Len(stream') \in Nat
    BY <1>1, StreamGrows
  <2>2. UNCHANGED <<outbox, announced, next, pending, consumer, eventLog, faults>>
    BY DEF Publish
  <2> QED
    BY <1>1, <1>2, <2>1, <2>2 DEF EventTypeOK
<1>4. \A q \in worker'.done : OnStream(q)'
  BY <1>1, <1>2, StreamGrows, AppendedIsOnStream DEF EventInv
<1>5. PublishedIsOnStream'
  BY <1>1, StreamGrows DEF EventInv, Publish, PublishedIsOnStream
<1> QED
  BY <1>3, <1>4, <1>5, ConsumerRests DEF EventInv, Publish

\* A failed publication is in no case counted.
LEMMA PublishFailsKeeps ==
  ASSUME EventInv, NEW r \in Rows, PublishFails(r)
  PROVE  EventInv'
<1>1. EventTypeOK /\ (stream' = stream \/ stream' = Append(stream, r)) /\ (Fault \/ NoFault)
  BY DEF EventInv, PublishFails
<1>2. /\ worker' \in [pc : {"idle", "publish", "mark"}, todo : SUBSET Rows, done : SUBSET Rows]
      /\ worker'.done = worker.done
  <2>1. worker \in [pc : {"idle", "publish", "mark"}, todo : SUBSET Rows, done : SUBSET Rows]
    BY <1>1 DEF EventTypeOK
  <2>2. CASE worker' = worker
    BY <2>1, <2>2
  <2>3. CASE worker' = IF worker.done = {} THEN IdleWorker
                       ELSE [pc |-> "mark", todo |-> {}, done |-> worker.done]
    BY <2>1, <2>3 DEF IdleWorker
  <2> QED
    BY <2>2, <2>3 DEF PublishFails
<1>3. EventTypeOK'
  <2>1. /\ stream' \in Seq(Rows \cup CartEvents) /\ Positions \subseteq Positions'
        /\ Len(stream) \in Nat /\ Len(stream) <= Len(stream') /\ Len(stream') \in Nat
    BY <1>1, StreamGrows
  <2>2. faults' \in 0 .. MaxFaults
    BY <1>1, FaultsAreBounded
  <2>3. UNCHANGED <<outbox, announced, next, pending, consumer, eventLog>>
    BY DEF PublishFails
  <2> QED
    BY <1>1, <1>2, <2>1, <2>2, <2>3 DEF EventTypeOK
<1>4. (\A q \in worker'.done : OnStream(q)') /\ PublishedIsOnStream'
  BY <1>1, <1>2, StreamGrows DEF EventInv, PublishFails, PublishedIsOnStream
<1> QED
  BY <1>3, <1>4, ConsumerRests DEF EventInv, PublishFails

\* Only what was published is marked.
LEMMA MarkPublishedKeeps ==
  ASSUME EventInv, MarkPublished
  PROVE  EventInv'
<1>1. EventTypeOK /\ (Fault \/ NoFault)
  BY DEF EventInv, MarkPublished
<1>2. outbox' \in [Rows -> {"absent", "unpublished", "published"}]
  BY <1>1 DEF EventTypeOK, MarkPublished
<1>3. EventTypeOK'
  <2>1. worker' \in [pc : {"idle", "publish", "mark"}, todo : SUBSET Rows, done : SUBSET Rows]
    BY DEF MarkPublished, IdleWorker
  <2>2. faults' \in 0 .. MaxFaults
    BY <1>1, FaultsAreBounded
  <2> QED
    BY <1>1, <1>2, <2>1, <2>2 DEF EventTypeOK, MarkPublished, Positions
<1>4. \A r : OnStream(r)' <=> OnStream(r)
  BY DEF MarkPublished, OnStream, Positions
<1>5. PublishedIsOnStream'
  <2> SUFFICES ASSUME NEW r \in Rows, outbox'[r] = "published" PROVE OnStream(r)'
    BY DEF PublishedIsOnStream
  <2>1. r \in worker.done \/ outbox[r] = "published"
    BY <1>1 DEF MarkPublished
  <2> QED
    BY <2>1, <1>4 DEF EventInv, PublishedIsOnStream
<1>6. worker'.done = {}
  BY DEF MarkPublished, IdleWorker
<1> QED
  BY <1>3, <1>5, <1>6, ConsumerRests DEF EventInv, MarkPublished

\* The group begins behind the last message.
LEMMA CreateGroupKeeps ==
  ASSUME EventInv, CreateGroup
  PROVE  EventInv'
<1>1. EventTypeOK /\ Len(stream) \in Nat /\ (Fault \/ NoFault)
  BY DEF EventInv, EventTypeOK, CreateGroup
<1>2. next' = next \/ next' = Len(stream) + 1
  BY DEF CreateGroup
<1>3. consumer' = [pc |-> "poll", batch |-> {}]
  BY DEF CreateGroup, ConsumerGoto
<1>4. EventTypeOK'
  BY <1>1, <1>2, <1>3, FaultsAreBounded DEF EventTypeOK, CreateGroup, Positions
<1>5. (\A r \in worker'.done : OnStream(r)') /\ PublishedIsOnStream'
  BY WorkerRests DEF CreateGroup
<1> QED
  BY <1>3, <1>4, <1>5 DEF EventInv

LEMMA RangeBelow ==
  ASSUME NEW n \in Nat, NEW i \in 1 .. n, NEW j \in 1 .. n + 1
  PROVE  i .. j - 1 \subseteq 1 .. n
OBVIOUS

LEMMA LastBelow ==
  ASSUME NEW n \in Nat, NEW i \in 1 .. n, NEW j \in 1 .. n + 1, i < j
  PROVE  j - 1 \in 1 .. n /\ j = (j - 1) + 1 /\ i <= j - 1
OBVIOUS

\* What is read is what was next, and all of it is pending from now on.
LEMMA ReadIsPending ==
  ASSUME EventTypeOK, ReadGroup
  PROVE  /\ Len(stream) \in Nat /\ next \in 1 .. Len(stream)
         /\ next' \in 1 .. Len(stream) + 1
         /\ pending' = pending \cup (next .. next' - 1)
         /\ \/ consumer' = [pc |-> "store", batch |-> next .. next' - 1]
            \/ consumer' = consumer
<1> DEFINE last == IF next + Batch - 1 < Len(stream) THEN next + Batch - 1 ELSE Len(stream)
<1>1. Len(stream) \in Nat /\ next \in 1 .. Len(stream)
  BY DEF EventTypeOK, ReadGroup, Positions
<1>2. last \in Int /\ next <= last /\ last <= Len(stream)
  BY <1>1, EventAssumption
<1>3. /\ next' = last + 1
      /\ pending' = pending \cup next .. last
      /\ \/ consumer' = [pc |-> "store", batch |-> next .. last]
         \/ consumer' = consumer
  BY DEF ReadGroup, ConsumerGoto
<1> HIDE DEF last
<1>4. next' - 1 = last
  BY <1>2, <1>3
<1> QED
  BY <1>1, <1>2, <1>3, <1>4

LEMMA ReadGroupKeeps ==
  ASSUME EventInv, ReadGroup
  PROVE  EventInv'
<1>1. EventTypeOK /\ (Fault \/ NoFault)
  BY DEF EventInv, ReadGroup
<1>2. /\ Len(stream) \in Nat /\ next \in 1 .. Len(stream)
      /\ next' \in 1 .. Len(stream) + 1
      /\ pending' = pending \cup (next .. next' - 1)
      /\ \/ consumer' = [pc |-> "store", batch |-> next .. next' - 1]
         \/ consumer' = consumer
  BY <1>1, ReadIsPending
<1>3. eventLog' = eventLog /\ stream' = stream
  BY DEF ReadGroup
<1>4. EventTypeOK'
  <2>1. faults' \in 0 .. MaxFaults
    BY <1>1, FaultsAreBounded
  <2>2. next .. next' - 1 \subseteq Positions
    <3>1. Len(stream) \in Nat /\ next \in 1 .. Len(stream) /\ next' \in 1 .. Len(stream) + 1
      BY <1>2
    <3> QED
      BY <3>1, RangeBelow DEF Positions
  <2>3. consumer' \in [pc : {"start", "poll", "store", "ack"}, batch : SUBSET Positions]
    <3>1. CASE consumer' = [pc |-> "store", batch |-> next .. next' - 1]
      BY <2>2, <3>1
    <3>2. CASE consumer' = consumer
      BY <1>1, <3>2 DEF EventTypeOK
    <3> QED
      BY <1>2, <3>1, <3>2
  <2>4. pending' \subseteq Positions
    BY <1>1, <1>2, <2>2 DEF EventTypeOK
  <2>5. next' \in 0 .. Len(stream) + 1
    BY <1>2
  <2> QED
    BY <1>1, <2>1, <2>3, <2>4, <2>5 DEF EventTypeOK, ReadGroup, Positions
<1>5. consumer'.batch \subseteq pending' \cup eventLog'
  <2>1. CASE consumer' = [pc |-> "store", batch |-> next .. next' - 1]
    BY <1>2, <2>1
  <2>2. CASE consumer' = consumer
    BY <1>2, <1>3, <2>2 DEF EventInv
  <2> QED
    BY <1>2, <2>1, <2>2
<1>6. \A m \in consumer'.batch : AtMessage(m, "ack")' => m \in eventLog'
  BY <1>2, <1>3 DEF ReadGroup, EventInv, AtMessage
<1>7. (\A r \in worker'.done : OnStream(r)') /\ PublishedIsOnStream'
  BY WorkerRests DEF ReadGroup
<1> QED
  BY <1>4, <1>5, <1>6, <1>7 DEF EventInv

\* A batch has one first message.
LEMMA OneFirst ==
  ASSUME EventTypeOK, NEW m, NEW k, IsFirst(m, consumer.batch), IsFirst(k, consumer.batch)
  PROVE  m = k
BY DEF EventTypeOK, IsFirst, Positions

LEMMA StoreMessageKeeps ==
  ASSUME EventInv, NEW m \in Positions, StoreMessage(m)
  PROVE  EventInv'
<1>1. EventTypeOK /\ m \in consumer.batch
  BY DEF EventInv, StoreMessage, AtMessage, IsFirst
<1>2. consumer' = [pc |-> "ack", batch |-> consumer.batch]
  BY DEF StoreMessage, ConsumerGoto
<1>3. pending' = pending /\ eventLog' = eventLog \cup {m} /\ stream' = stream
  BY DEF StoreMessage
<1>4. EventTypeOK'
  BY <1>1, <1>2, <1>3 DEF EventTypeOK, StoreMessage, Positions
<1>5. \A k \in consumer'.batch : AtMessage(k, "ack")' => k \in eventLog'
  <2> SUFFICES ASSUME NEW k \in consumer'.batch, AtMessage(k, "ack")' PROVE k \in eventLog'
    OBVIOUS
  <2>1. IsFirst(k, consumer.batch) /\ IsFirst(m, consumer.batch)
    BY <1>2 DEF AtMessage, IsFirst, StoreMessage
  <2> QED
    BY <1>1, <1>3, <2>1, OneFirst
<1>6. consumer'.batch \subseteq pending' \cup eventLog'
  BY <1>2, <1>3 DEF EventInv
<1>7. (\A r \in worker'.done : OnStream(r)') /\ PublishedIsOnStream'
  BY WorkerRests DEF StoreMessage
<1> QED
  BY <1>4, <1>5, <1>6, <1>7 DEF EventInv

\* A message that failed is left where it is; one that is acknowledged is in the log.
LEMMA OnlyLoggedIsAcknowledged ==
  ASSUME EventInv, NEW m \in Positions, StoreMessageFails(m) \/ AckMessage(m)
  PROVE  /\ pending' \subseteq pending
         /\ pending' \cup eventLog' = pending \cup eventLog
         /\ UNCHANGED <<next, eventLog>>
<1>1. UNCHANGED <<next, eventLog>>
  BY DEF StoreMessageFails, AckMessage
<1>2. pending' = pending \/ (pending' = pending \ {m} /\ m \in eventLog)
  BY DEF EventInv, StoreMessageFails, AckMessage, AtMessage, IsFirst
<1> QED
  BY <1>1, <1>2

LEMMA NextMessageKeeps ==
  ASSUME EventInv, NEW m \in Positions, StoreMessageFails(m) \/ AckMessage(m)
  PROVE  EventInv'
<1>1. EventTypeOK /\ (Fault \/ NoFault)
  BY DEF EventInv, StoreMessageFails, AckMessage
<1>2. /\ consumer'.pc \in {"poll", "store"} /\ consumer'.batch = consumer.batch \ {m}
      /\ consumer' \in [pc : {"start", "poll", "store", "ack"}, batch : SUBSET Positions]
  BY <1>1 DEF StoreMessageFails, AckMessage, NextMessage, ConsumerGoto, EventTypeOK
<1>3. /\ pending' \subseteq pending /\ pending' \cup eventLog' = pending \cup eventLog
      /\ UNCHANGED <<next, eventLog>>
  BY OnlyLoggedIsAcknowledged
<1>4. EventTypeOK'
  BY <1>1, <1>2, <1>3, FaultsAreBounded
     DEF EventTypeOK, StoreMessageFails, AckMessage, Positions
<1>5. (\A r \in worker'.done : OnStream(r)') /\ PublishedIsOnStream'
  BY WorkerRests DEF StoreMessageFails, AckMessage
<1> QED
  BY <1>2, <1>3, <1>4, <1>5 DEF EventInv, AtMessage

LEMMA CrashKeeps ==
  ASSUME EventInv, CrashEvents
  PROVE  EventInv'
<1>1. EventTypeOK'
  BY FaultsAreBounded DEF EventInv, EventTypeOK, CrashEvents, IdleWorker, Stopped, Positions
<1>2. /\ worker'.done = {} /\ consumer'.batch = {}
  BY DEF CrashEvents, IdleWorker, Stopped
<1>3. PublishedIsOnStream'
  BY DEF EventInv, CrashEvents, PublishedIsOnStream, OnStream, Positions
<1> QED
  BY <1>1, <1>2, <1>3 DEF EventInv, CrashEvents

\* EventInv holds in every state, over any failures and crashes.
THEOREM EventInvariant == EventInit /\ [][EventNext]_eventVars => []EventInv
<1>1. EventInit => EventInv
  BY EventInitInv
<1>2. EventInv /\ [EventNext]_eventVars => EventInv'
  <2> SUFFICES ASSUME EventInv, [EventNext]_eventVars PROVE EventInv'
    OBVIOUS
  <2>1. ASSUME WorkerStep PROVE EventInv'
    BY <2>1, PollKeeps, PublishKeeps, PublishFailsKeeps, MarkPublishedKeeps DEF WorkerStep
  <2>2. ASSUME ConsumerStep PROVE EventInv'
    BY <2>2, CreateGroupKeeps, ReadGroupKeeps, StoreMessageKeeps, NextMessageKeeps
       DEF ConsumerStep
  <2>3. CASE UNCHANGED eventVars
    BY <2>3 DEF eventVars, EventInv, EventTypeOK, PublishedIsOnStream, OnStream, Positions,
                AtMessage, IsFirst
  <2> QED
    BY <2>1, <2>2, <2>3, InsertOutboxKeeps, PublishCartEventKeeps, CrashKeeps DEF EventNext
<1> QED
  BY <1>1, <1>2, PTL

\* OutboxWorker.processBatch: whatever breaks off where, a row is marked published
\* only when it is on the stream.
THEOREM PublishedAlwaysOnStream == EventSpec => []PublishedIsOnStream
<1>1. EventInv => PublishedIsOnStream
  BY DEF EventInv
<1> QED
  BY <1>1, EventInvariant, PTL DEF EventSpec

\* One step of the consumer adds to the two what it hands out, and takes nothing away.
LEMMA ConsumerKeepsMessages ==
  ASSUME EventInv, ConsumerStep, next # 0
  PROVE  pending' \cup eventLog' = pending \cup eventLog \cup (next .. next' - 1)
<1>1. EventTypeOK /\ next \in Nat
  BY DEF EventInv, EventTypeOK
<1>2. CASE ReadGroup
  <2>1. pending' = pending \cup (next .. next' - 1) /\ eventLog' = eventLog
    BY <1>1, <1>2, ReadIsPending DEF ReadGroup
  <2> QED
    BY <2>1
<1>3. CASE CreateGroup
  <2>1. next' = next /\ pending' = pending /\ eventLog' = eventLog
    BY <1>3 DEF CreateGroup
  <2> QED
    BY <1>1, <2>1
<1>4. ASSUME NEW m \in Positions, StoreMessage(m)
      PROVE  pending' \cup eventLog' = pending \cup eventLog \cup (next .. next' - 1)
  <2>1. m \in pending \cup eventLog
    BY <1>4 DEF EventInv, StoreMessage, AtMessage, IsFirst
  <2>2. next' = next /\ pending' = pending /\ eventLog' = eventLog \cup {m}
    BY <1>4 DEF StoreMessage
  <2> QED
    BY <1>1, <2>1, <2>2
<1>5. ASSUME NEW m \in Positions, StoreMessageFails(m) \/ AckMessage(m)
      PROVE  pending' \cup eventLog' = pending \cup eventLog \cup (next .. next' - 1)
  <2>1. next' = next /\ pending' \cup eventLog' = pending \cup eventLog
    BY <1>5, OnlyLoggedIsAcknowledged
  <2> QED
    BY <1>1, <2>1
<1> QED
  BY <1>2, <1>3, <1>4, <1>5 DEF ConsumerStep

\* StreamConsumer: whatever the group was handed is stored or still pending, over any
\* failures, lost answers and crashes.
THEOREM AlwaysLoggedOrPending == EventSpec => LoggedOrPending
<1>1. ASSUME EventInv, [EventNext]_eventVars, next # 0
      PROVE  pending' \cup eventLog' = pending \cup eventLog \cup (next .. next' - 1)
  <2>1. next \in Nat
    BY <1>1 DEF EventInv, EventTypeOK
  <2>2. CASE ConsumerStep
    BY <1>1, <2>2, ConsumerKeepsMessages
  <2>3. CASE UNCHANGED <<next, pending, eventLog>>
    BY <2>1, <2>3
  <2>4. ConsumerStep \/ UNCHANGED <<next, pending, eventLog>>
    BY <1>1 DEF EventNext, WorkerStep, InsertOutbox, PublishCartEvent, PollUnpublished, Poll,
                Publish, PublishFails, MarkPublished, CrashEvents, eventVars
  <2> QED
    BY <2>2, <2>3, <2>4
<1>2. EventInv /\ [EventNext]_eventVars =>
        [next # 0 => pending' \cup eventLog' = pending \cup eventLog \cup (next .. next' - 1)]_eventVars
  BY <1>1
<1> QED
  BY <1>2, EventInvariant, PTL DEF EventSpec, LoggedOrPending

\* A marked row is no longer of a batch, a batch's rows nobody else marks, and messages
\* a consumer works on were handed to it.
LEMMA DeliveryKeeps ==
  ASSUME EventInv, DeliveryInv, [EventNext]_eventVars
  PROVE  DeliveryInv'
<1>1. EventTypeOK
  BY DEF EventInv
<1>2. ASSUME UNCHANGED <<outbox, worker>>
      PROVE  (\A r \in worker.todo \cup worker.done : outbox[r] = "unpublished")'
  BY <1>2 DEF DeliveryInv
<1>3. ASSUME UNCHANGED <<consumer, pending>>
      PROVE  (consumer.batch \subseteq pending)'
  BY <1>3 DEF DeliveryInv
<1>4. ASSUME NEW r \in Rows, InsertOutbox(r) PROVE DeliveryInv'
  <2>1. (\A q \in worker.todo \cup worker.done : outbox[q] = "unpublished")'
    BY <1>1, <1>4 DEF InsertOutbox, DeliveryInv, EventTypeOK
  <2> QED
    BY <1>3, <1>4, <2>1 DEF InsertOutbox, DeliveryInv
<1>5. ASSUME NEW c \in CartEvents, PublishCartEvent(c) PROVE DeliveryInv'
  BY <1>2, <1>3, <1>5 DEF PublishCartEvent, DeliveryInv
<1>6. CASE PollUnpublished
  <2>1. (\A r \in worker.todo \cup worker.done : outbox[r] = "unpublished")'
    BY <1>6 DEF PollUnpublished, Poll, Unpublished
  <2> QED
    BY <1>3, <1>6, <2>1 DEF PollUnpublished, Poll, DeliveryInv
<1>7. ASSUME NEW r \in Rows, Publish(r) PROVE DeliveryInv'
  <2>1. (\A q \in worker.todo \cup worker.done : outbox[q] = "unpublished")'
    BY <1>7 DEF Publish, DeliveryInv, IsFirst
  <2> QED
    BY <1>3, <1>7, <2>1 DEF Publish, DeliveryInv
<1>8. ASSUME NEW r \in Rows, PublishFails(r) PROVE DeliveryInv'
  <2>1. (\A q \in worker.todo \cup worker.done : outbox[q] = "unpublished")'
    BY <1>8 DEF PublishFails, DeliveryInv, IdleWorker
  <2> QED
    BY <1>3, <1>8, <2>1 DEF PublishFails, DeliveryInv
<1>9. CASE MarkPublished
  <2>1. (\A r \in worker.todo \cup worker.done : outbox[r] = "unpublished")'
    BY <1>9 DEF MarkPublished, IdleWorker
  <2> QED
    BY <1>3, <1>9, <2>1 DEF MarkPublished, DeliveryInv
<1>10. CASE CreateGroup
  <2>1. (consumer.batch \subseteq pending)'
    BY <1>10 DEF CreateGroup, ConsumerGoto
  <2> QED
    BY <1>2, <1>10, <2>1 DEF CreateGroup, DeliveryInv
<1>11. CASE ReadGroup
  <2>1. (consumer.batch \subseteq pending)'
    BY <1>1, <1>11, ReadIsPending DEF DeliveryInv
  <2> QED
    BY <1>2, <1>11, <2>1 DEF ReadGroup, DeliveryInv
<1>12. ASSUME NEW m \in Positions, StoreMessage(m) PROVE DeliveryInv'
  <2>1. (consumer.batch \subseteq pending)'
    BY <1>12 DEF StoreMessage, ConsumerGoto, DeliveryInv
  <2> QED
    BY <1>2, <1>12, <2>1 DEF StoreMessage, DeliveryInv
<1>13. ASSUME NEW m \in Positions, StoreMessageFails(m) \/ AckMessage(m) PROVE DeliveryInv'
  <2>1. (consumer.batch \subseteq pending)'
    BY <1>13 DEF StoreMessageFails, AckMessage, NextMessage, ConsumerGoto, DeliveryInv
  <2> QED
    BY <1>2, <1>13, <2>1 DEF StoreMessageFails, AckMessage, DeliveryInv
<1>14. CASE CrashEvents
  <2>1. /\ (\A r \in worker.todo \cup worker.done : outbox[r] = "unpublished")'
        /\ (consumer.batch \subseteq pending)'
    BY <1>14 DEF CrashEvents, IdleWorker, Stopped
  <2> QED
    BY <1>14, <2>1 DEF CrashEvents, DeliveryInv
<1>15. CASE UNCHANGED eventVars
  BY <1>2, <1>3, <1>15 DEF eventVars, DeliveryInv
<1> QED
  BY <1>4, <1>5, <1>6, <1>7, <1>8, <1>9, <1>10, <1>11, <1>12, <1>13, <1>14, <1>15
     DEF EventNext, WorkerStep, ConsumerStep

\* What the worker does shows as rows told and rows settled.
LEMMA WorkerIsPromised ==
  ASSUME EventInv, DeliveryInv, WorkerStep
  PROVE  Delivery!Next \/ UNCHANGED Delivery!vars
<1>1. UNCHANGED <<announced, next, pending, eventLog>>
  BY DEF WorkerStep, PollUnpublished, Poll, MarkPublished, Publish, PublishFails
<1>2. CASE PollUnpublished
  BY <1>1, <1>2 DEF PollUnpublished, Poll, Delivery!vars
<1>3. ASSUME NEW r \in Rows, Publish(r) \/ PublishFails(r)
      PROVE  Delivery!Next \/ UNCHANGED Delivery!vars
  <2>1. outbox[r] = "unpublished" /\ outbox' = outbox
    BY <1>3 DEF Publish, PublishFails, IsFirst, DeliveryInv
  <2>2. stream' = stream \/ Delivery!Tell(r)
    BY <1>1, <1>3, <2>1 DEF Publish, PublishFails, Delivery!Tell
  <2> QED
    BY <1>1, <2>1, <2>2 DEF Delivery!Next, Delivery!vars
<1>4. CASE MarkPublished
  <2>1. worker.done \in SUBSET Rows
    BY DEF EventInv, EventTypeOK
  <2>2. \A r \in worker.done : outbox[r] = "unpublished" /\ Delivery!Told(r)
    BY DEF EventInv, DeliveryInv, OnStream, Positions, Delivery!Told
  <2>3. Delivery!Settle(worker.done) \/ UNCHANGED outbox
    BY <1>1, <1>4, <2>2 DEF MarkPublished, Delivery!Settle
  <2>4. UNCHANGED stream
    BY <1>4 DEF MarkPublished
  <2> QED
    BY <1>1, <2>1, <2>3, <2>4 DEF Delivery!Next, Delivery!vars
<1> QED
  BY <1>2, <1>3, <1>4 DEF WorkerStep

\* What the consumer does shows as messages handed over, logged and closed.
LEMMA ConsumerIsPromised ==
  ASSUME EventInv, DeliveryInv, ConsumerStep
  PROVE  Delivery!Next \/ UNCHANGED Delivery!vars
<1>1. UNCHANGED <<outbox, announced, stream>> /\ EventTypeOK
  BY DEF EventInv, ConsumerStep, CreateGroup, ReadGroup, StoreMessage, StoreMessageFails, AckMessage
<1>2. CASE CreateGroup
  <2>1. Delivery!Begin \/ UNCHANGED next
    BY <1>1, <1>2 DEF CreateGroup, Delivery!Begin
  <2> QED
    BY <1>1, <1>2, <2>1 DEF CreateGroup, Delivery!Next, Delivery!vars
<1>3. CASE ReadGroup
  <2> DEFINE last == next' - 1
  <2>1. next \in 1 .. Len(stream) /\ Len(stream) \in Nat /\ next' \in 1 .. Len(stream) + 1
    BY <1>1, <1>3, ReadIsPending
  <2>2. pending' = pending \cup next .. last
    BY <1>1, <1>3, ReadIsPending
  <2>3. next < next'
    <3> DEFINE end == IF next + Batch - 1 < Len(stream) THEN next + Batch - 1 ELSE Len(stream)
    <3>1. next' = end + 1
      BY <1>3 DEF ReadGroup
    <3> QED
      BY <2>1, <3>1, EventAssumption
  <2>4. last \in 1 .. Len(stream) /\ next' = last + 1 /\ next <= last
    BY <2>1, <2>3, LastBelow
  <2> HIDE DEF last
  <2>5. Delivery!Hand(last)
    BY <1>1, <1>3, <2>1, <2>2, <2>4 DEF ReadGroup, Delivery!Hand
  <2> QED
    BY <2>4, <2>5 DEF Delivery!Next
<1>4. ASSUME NEW m \in Positions, StoreMessage(m) PROVE Delivery!Next
  <2>1. Delivery!Log(m)
    BY <1>4 DEF StoreMessage, AtMessage, IsFirst, DeliveryInv, Delivery!Log
  <2> QED
    BY <2>1 DEF Delivery!Next, Positions
<1>5. ASSUME NEW m \in Positions, StoreMessageFails(m)
      PROVE  UNCHANGED Delivery!vars
  BY <1>5 DEF StoreMessageFails, Delivery!vars
<1>6. ASSUME NEW m \in Positions, AckMessage(m)
      PROVE  Delivery!Next \/ UNCHANGED Delivery!vars
  <2>1. m \in pending /\ m \in eventLog
    BY <1>6 DEF AckMessage, EventInv, DeliveryInv, AtMessage, IsFirst
  <2>2. Delivery!Close(m) \/ UNCHANGED Delivery!vars
    BY <1>6, <2>1 DEF AckMessage, Delivery!Close, Delivery!vars
  <2> QED
    BY <2>2 DEF Delivery!Next, Positions
<1> QED
  BY <1>2, <1>3, <1>4, <1>5, <1>6 DEF ConsumerStep

\* Polls, batches, lost answers, restarts and crashes never show: outbox, stream, group
\* and log implement DeliveryPromise.
THEOREM DeliveryIsImplemented == EventSpec => DeliveredAsPromised
<1>1. EventInit => DeliveryInv /\ Delivery!Init
  BY DEF EventInit, DeliveryInv, Delivery!Init, IdleWorker, Stopped, Positions
<1>2. EventInv /\ DeliveryInv /\ [EventNext]_eventVars => DeliveryInv'
  BY DeliveryKeeps
<1>3. EventInv /\ DeliveryInv /\ [EventNext]_eventVars => [Delivery!Next]_(Delivery!vars)
  <2> SUFFICES ASSUME EventInv, DeliveryInv, [EventNext]_eventVars
               PROVE  Delivery!Next \/ UNCHANGED Delivery!vars
    OBVIOUS
  <2>1. ASSUME NEW r \in Rows, InsertOutbox(r) PROVE Delivery!Next
    BY <2>1 DEF InsertOutbox, Delivery!Write, Delivery!Next
  <2>2. ASSUME NEW c \in CartEvents, PublishCartEvent(c)
        PROVE  Delivery!Next \/ UNCHANGED Delivery!vars
    <3>1. CASE stream' = Append(stream, c)
      <4>1. Delivery!Announce(c)
        BY <2>2, <3>1 DEF PublishCartEvent, Delivery!Announce
      <4> QED
        BY <4>1 DEF Delivery!Next
    <3>2. CASE stream' = stream /\ announced' = announced \cup {c}
      <4>1. Delivery!GiveUp({c})
        BY <2>2, <3>2 DEF PublishCartEvent, Delivery!GiveUp
      <4> QED
        BY <4>1 DEF Delivery!Next
    <3>3. CASE stream' = stream /\ announced' = announced
      BY <2>2, <3>3 DEF PublishCartEvent, Delivery!vars
    <3> QED
      BY <2>2, <3>1, <3>2, <3>3 DEF PublishCartEvent
  <2>3. CASE CrashEvents
    <3> DEFINE told == {c \in CartEvents : \E i \in Positions : stream[i] = c}
    <3>1. told \in SUBSET CartEvents
      OBVIOUS
    <3>2. Delivery!GiveUp(told)
      BY <2>3 DEF CrashEvents, Delivery!GiveUp
    <3> QED
      BY <3>1, <3>2 DEF Delivery!Next
  <2>4. CASE UNCHANGED eventVars
    BY <2>4 DEF eventVars, Delivery!vars
  <2> QED
    BY <2>1, <2>2, <2>3, <2>4, WorkerIsPromised, ConsumerIsPromised DEF EventNext
<1> QED
  BY <1>1, <1>2, <1>3, EventInvariant, PTL DEF EventSpec, DeliveredAsPromised, Delivery!Spec

------------------------------------------------------------------------------
\* AuditChain.

\* A step that leaves the rows alone leaves every link and every verdict alone.
LEMMA SameRows ==
  ASSUME UNCHANGED auditRows
  PROVE  /\ \A i : HashedBefore(i)' = HashedBefore(i)
         /\ \A p, i : IsLink(p, i)' <=> IsLink(p, i)
         /\ ChainVerifies' <=> ChainVerifies
BY DEF HashedBefore, IsLink, ChainVerifies, VerifiedRow

\* The start: nothing but legacy rows.
LEMMA AuditInitInv == AuditInit => AuditInv
<1> SUFFICES ASSUME AuditInit PROVE AuditInv
  OBVIOUS
<1>1. AuditTypeOK
  BY AuditAssumption DEF AuditInit, AuditTypeOK, AtRest, Writing
<1>2. ChainVerifies
  BY DEF AuditInit, ChainVerifies, VerifiedRow, HashedBefore
<1> QED
  BY <1>1, <1>2, AuditAssumption DEF AuditInit, AuditInv, AtRest, Writing, LockedSteps

\* A writer that starts: no lock is touched.
LEMMA BeginWriteKeeps ==
  ASSUME AuditInv, NEW w \in Writers, NEW e \in Entries, BeginWrite(w, e)
  PROVE  AuditInv'
<1>1. ChainVerifies'
  BY SameRows DEF BeginWrite, AuditInv
<1> QED
  BY <1>1, SameRows DEF WriterGoto, Writing, AuditInv, AuditTypeOK, BeginWrite, AtRest, LockedSteps

\* Only a free lock is taken, so nobody else is past it.
LEMMA TakeChainLockKeeps ==
  ASSUME AuditInv, NEW w \in Writers, TakeChainLock(w)
  PROVE  AuditInv'
<1>1. ChainVerifies'
  BY SameRows DEF WriterGoto, Writing, TakeChainLock, AuditInv
<1>2. \A v \in Writers : writer[v].pc \notin LockedSteps
  BY AuditAssumption DEF WriterGoto, Writing, TakeChainLock, AuditInv
<1> QED
  BY <1>1, <1>2, SameRows DEF WriterGoto, Writing, AuditInv, AuditTypeOK, TakeChainLock, LockedSteps

\* The fresh id lies above every committed one.
LEMMA InsertEventKeeps ==
  ASSUME AuditInv, NEW w \in Writers, InsertEvent(w)
  PROVE  AuditInv'
<1>1. ChainVerifies'
  BY SameRows DEF WriterGoto, Writing, InsertEvent, AuditInv
<1>2. /\ writer[w].pc \in LockedSteps /\ chainLock = w
      /\ nextAudit \in Nat /\ nextAudit' = nextAudit + 1
      /\ DOMAIN auditRows \subseteq 1 .. nextAudit - 1
  BY DEF WriterGoto, Writing, InsertEvent, AuditInv, AuditTypeOK, LockedSteps
<1>3. \A v \in Writers : v # w => writer[v].pc \notin LockedSteps
  BY <1>2 DEF AuditInv
<1>4. AuditTypeOK'
  BY <1>2 DEF WriterGoto, Writing, InsertEvent, AuditInv, AuditTypeOK, LockedSteps
<1>5. ASSUME NEW v \in Writers
      PROVE  /\ writer'[v].pc \in LockedSteps <=> chainLock' = v
             /\ writer'[v].pc \in {"link", "commit"} =>
                  /\ writer'[v].id \in 1 .. nextAudit' - 1
                  /\ \A i \in DOMAIN auditRows' : i < writer'[v].id
             /\ writer'[v].pc # "commit"
  <2>1. CASE v = w
    <3>1. /\ writer'[w].pc = "link" /\ writer'[w].id = nextAudit
          /\ auditRows' = auditRows /\ chainLock' = chainLock
      BY <2>1 DEF WriterGoto, Writing, InsertEvent, AuditInv, AuditTypeOK
    <3>2. 1 <= nextAudit
      BY <1>2, AuditAssumption DEF WriterGoto, Writing, InsertEvent, AuditInv, AuditTypeOK
    <3> QED
      BY <2>1, <3>1, <3>2, <1>2 DEF LockedSteps
  <2>2. CASE v # w
    BY <2>2, <1>2, <1>3 DEF WriterGoto, Writing, InsertEvent, LockedSteps
  <2> QED
    BY <2>1, <2>2
<1> QED
  BY <1>1, <1>4, <1>5 DEF AuditInv

\* What is read is the link that belongs into the row: nobody commits meanwhile.
LEMMA ReadLinkKeeps ==
  ASSUME AuditInv, NEW w \in Writers, ReadLink(w)
  PROVE  AuditInv'
<1>1. ChainVerifies'
  BY SameRows DEF ReadLink, AuditInv
<1>2. /\ UNCHANGED <<auditRows, nextAudit, chainLock>>
      /\ writer[w].pc = "link" /\ DOMAIN writer = Writers
      /\ writer'[w].pc = "commit" /\ writer'[w].id = writer[w].id
      /\ IsLink(writer'[w].prev, writer[w].id)
      /\ \A v \in Writers : v # w => writer'[v] = writer[v]
      /\ DOMAIN writer' = Writers
  BY DEF ReadLink, WriterGoto, Writing, IsLink, AuditInv, AuditTypeOK
<1>3. \A p, i : IsLink(p, i)' <=> IsLink(p, i)
  BY <1>2, SameRows
<1>4. AuditTypeOK'
  BY <1>2 DEF AuditInv, AuditTypeOK, LockedSteps
<1>5. \A v \in Writers :
        /\ writer'[v].pc \in LockedSteps <=> chainLock' = v
        /\ writer'[v].pc \in {"link", "commit"} =>
             /\ writer'[v].id \in 1 .. nextAudit' - 1
             /\ \A i \in DOMAIN auditRows' : i < writer'[v].id
  BY <1>2 DEF AuditInv, LockedSteps
<1>6. \A v \in Writers :
        writer'[v].pc = "commit" => IsLink(writer'[v].prev, writer'[v].id)
  BY <1>2 DEF AuditInv
<1> QED
  BY <1>1, <1>2, <1>3, <1>4, <1>5, <1>6 DEF AuditInv

\* The new row comes after every committed one: no old row's link changes, and the
\* new row has its own.
LEMMA CommitEventKeeps ==
  ASSUME AuditInv, NEW w \in Writers, CommitEvent(w)
  PROVE  AuditInv'
<1>0. PICK n : n = writer[w].id
  OBVIOUS
<1>1. /\ writer[w].pc = "commit" /\ chainLock = w
      /\ n \in 1 .. nextAudit - 1 /\ nextAudit \in Nat \ {0}
      /\ \A i \in DOMAIN auditRows : i < n
      /\ DOMAIN auditRows \subseteq 1 .. nextAudit - 1
      /\ IsLink(writer[w].prev, n)
      /\ DOMAIN writer = Writers
  BY <1>0 DEF CommitEvent, AuditInv, AuditTypeOK, LockedSteps
<1>2. /\ DOMAIN auditRows' = DOMAIN auditRows \cup {n}
      /\ \A i \in DOMAIN auditRows : auditRows'[i] = auditRows[i]
      /\ auditRows'[n].hashed
      /\ auditRows'[n].prev = writer[w].prev
      /\ auditRows'[n].hash = Hash(auditRows'[n].entry, auditRows'[n].prev)
  BY <1>0, <1>1 DEF CommitEvent
<1>3. \A i \in DOMAIN auditRows \cup {n} : HashedBefore(i)' = HashedBefore(i)
  BY <1>1, <1>2 DEF HashedBefore
<1>4. \A p : \A i \in DOMAIN auditRows \cup {n} : IsLink(p, i) => IsLink(p, i)'
  BY <1>2, <1>3 DEF IsLink, HashedBefore
<1>5. ChainVerifies'
  <2>1. ASSUME NEW i \in DOMAIN auditRows PROVE VerifiedRow(i)'
    BY <1>2, <1>3, <1>4 DEF AuditInv, ChainVerifies, VerifiedRow
  <2>2. VerifiedRow(n)'
    BY <1>1, <1>2, <1>4 DEF VerifiedRow
  <2> QED
    BY <1>2, <2>1, <2>2 DEF ChainVerifies
<1>6. /\ nextAudit' = nextAudit /\ chainLock' = None
      /\ writer'[w].pc = "idle" /\ DOMAIN writer' = Writers
      /\ \A v \in Writers : v # w => writer'[v] = writer[v]
  BY <1>1 DEF CommitEvent, WriterGoto, AtRest, Writing
<1>7. \A v \in Writers : writer'[v].pc \in {"idle", "lock"}
  BY <1>1, <1>6 DEF AuditInv, AuditTypeOK, LockedSteps
<1>8. AuditTypeOK'
  BY <1>1, <1>2, <1>6, <1>7 DEF AuditTypeOK, LockedSteps
<1> QED
  BY <1>5, <1>6, <1>7, <1>8, AuditAssumption DEF AuditInv, LockedSteps

\* A broken transaction leaves the rows alone and gives up the lock if it has it.
LEMMA BreakWriteKeeps ==
  ASSUME AuditInv, NEW w \in Writers, BreakWrite(w)
  PROVE  AuditInv'
<1>1. ChainVerifies'
  BY SameRows DEF BreakWrite, AuditInv
<1>2. /\ UNCHANGED <<auditRows, nextAudit>>
      /\ chainLock' = IF chainLock = w THEN None ELSE chainLock
      /\ writer'[w].pc = "idle" /\ DOMAIN writer' = Writers
      /\ \A v \in Writers : v # w => writer'[v] = writer[v]
  BY DEF BreakWrite, AuditInv, AuditTypeOK, WriterGoto, AtRest, Writing
<1>3. \A p, i : IsLink(p, i)' <=> IsLink(p, i)
  BY <1>2, SameRows
<1>4. AuditTypeOK'
  BY <1>2 DEF AuditInv, AuditTypeOK
<1>5. \A v \in Writers : writer'[v].pc \in LockedSteps <=> chainLock' = v
  BY <1>2, AuditAssumption DEF AuditInv, LockedSteps
<1> QED
  BY <1>1, <1>2, <1>3, <1>4, <1>5 DEF AuditInv

\* The inductive invariant of the chain holds in every reachable state, for any
\* number of writers and entries, any legacy prefix, and wherever transactions
\* break off.
THEOREM AuditInvariant == AuditSpec => []AuditInv
<1>1. AuditInv /\ [AuditNext]_auditVars => AuditInv'
  <2> SUFFICES ASSUME AuditInv, [AuditNext]_auditVars PROVE AuditInv'
    OBVIOUS
  <2>1. ASSUME NEW w \in Writers, NEW e \in Entries, BeginWrite(w, e) PROVE AuditInv'
    BY <2>1, BeginWriteKeeps
  <2>2. ASSUME NEW w \in Writers, WriteStep(w) PROVE AuditInv'
    BY <2>2, TakeChainLockKeeps, InsertEventKeeps, ReadLinkKeeps, CommitEventKeeps,
       BreakWriteKeeps DEF WriteStep
  <2>3. CASE UNCHANGED auditVars
    <3>1. UNCHANGED <<auditRows, nextAudit, chainLock, writer>>
      BY <2>3 DEF auditVars
    <3> QED
      BY <3>1, SameRows DEF AuditInv, AuditTypeOK
  <2> QED
    BY <2>1, <2>2, <2>3 DEF AuditNext
<1> QED
  BY <1>1, AuditInitInv, PTL DEF AuditSpec

\* GET /trust/summary never reports a broken chain nobody tampered with: whatever
\* writers race (audit/postgres_writer.go), the verifier accepts the rows.
THEOREM ChainAlwaysVerifies == AuditSpec => []ChainVerifies
<1>1. AuditInv => ChainVerifies
  BY DEF AuditInv
<1> QED
  BY <1>1, AuditInvariant, PTL

------------------------------------------------------------------------------
\* Reviews.

\* OrderTransitionTable leads from a status a review needs only to another.
LEMMA EligibleStays ==
  ASSUME NEW from \in reviewEligibleOrderStatuses, NEW to \in OrderStatuses,
         CanTransition(OrderTransitionTable, from, to)
  PROVE  to \in reviewEligibleOrderStatuses
BY DEF reviewEligibleOrderStatuses, OrderStatuses, CanTransition, OrderTransitionTable

LEMMA ReviewInitInv == ReviewInit => ReviewInv
<1> SUFFICES ASSUME ReviewInit PROVE ReviewInv
  OBVIOUS
<1>1. ReviewTypeOK
  BY DEF ReviewInit, ReviewTypeOK, OrderStatuses
<1> QED
  BY <1>1 DEF ReviewInit, ReviewInv, VerifiedPurchase

\* A paid order may move on while a submission is under way, not back.
LEMMA MoveOrderKeeps ==
  ASSUME ReviewInv, NEW o \in Orders, MoveOrder(o)
  PROVE  ReviewInv'
<1>1. PICK status \in OrderStatuses :
        /\ CanTransition(OrderTransitionTable, orderStatus[o], status)
        /\ orderStatus' = [orderStatus EXCEPT ![o] = status]
  BY DEF MoveOrder
<1>2. ReviewTypeOK'
  BY <1>1 DEF ReviewInv, ReviewTypeOK, MoveOrder
<1>3. ASSUME NEW a \in Orders, orderStatus[a] \in reviewEligibleOrderStatuses
      PROVE  orderStatus'[a] \in reviewEligibleOrderStatuses
  BY <1>1, <1>3, EligibleStays DEF ReviewInv, ReviewTypeOK
<1>4. VerifiedPurchase'
  <2>1. \A r \in reviews : r.order \in Orders
    BY DEF ReviewInv, ReviewTypeOK, Review
  <2> QED
    BY <1>3, <2>1 DEF ReviewInv, VerifiedPurchase, MoveOrder
<1>5. \A s \in Shoppers : submission[s] # NoSubmission => submission[s].order \in Orders
  BY DEF ReviewInv, ReviewTypeOK
<1> QED
  BY <1>2, <1>3, <1>4, <1>5 DEF ReviewInv, MoveOrder

LEMMA RemoveProductKeeps ==
  ASSUME ReviewInv, NEW p \in Goods, RemoveProduct(p)
  PROVE  ReviewInv'
<1>1. ReviewTypeOK' /\ reviews' \subseteq reviews
  BY DEF ReviewInv, ReviewTypeOK, RemoveProduct
<1> QED
  BY <1>1 DEF ReviewInv, VerifiedPurchase, RemoveProduct

\* What a submission goes on with was read of a paid order that has the product.
LEMMA CheckOrderKeeps ==
  ASSUME ReviewInv, NEW s \in Shoppers, NEW o \in Orders, NEW p \in Goods, CheckOrder(s, o, p)
  PROVE  ReviewInv'
<1>1. ReviewTypeOK'
  BY DEF ReviewInv, ReviewTypeOK, CheckOrder
<1>2. VerifiedPurchase'
  BY DEF ReviewInv, VerifiedPurchase, CheckOrder
<1>3. ASSUME NEW t \in Shoppers, submission'[t] # NoSubmission
      PROVE  /\ orderStatus[submission'[t].order] \in reviewEligibleOrderStatuses
             /\ submission'[t].product \in Bought[submission'[t].order]
  <2>1. CASE t = s
    BY <2>1 DEF ReviewInv, ReviewTypeOK, CheckOrder
  <2>2. CASE t # s
    BY <2>2, <1>3 DEF ReviewInv, ReviewTypeOK, CheckOrder
  <2> QED
    BY <2>1, <2>2
<1> QED
  BY <1>1, <1>2, <1>3 DEF ReviewInv, CheckOrder

\* The insert's unique constraint keeps the second review of a purchase out.
LEMMA CreateReviewKeeps ==
  ASSUME ReviewInv, NEW s \in Shoppers, CreateReview(s)
  PROVE  ReviewInv'
<1>1. PICK o \in Orders, p \in Goods : o = submission[s].order /\ p = submission[s].product
  BY DEF ReviewInv, ReviewTypeOK, CreateReview
<1>2. \/ /\ \A r \in reviews : r.order # o \/ r.product # p
         /\ reviews' = reviews \cup {[order |-> o, product |-> p, by |-> s]}
      \/ reviews' = reviews
  BY <1>1 DEF CreateReview
<1>3. ReviewTypeOK'
  BY <1>1, <1>2 DEF ReviewInv, ReviewTypeOK, CreateReview, Review
<1>4. VerifiedPurchase'
  BY <1>1, <1>2 DEF ReviewInv, VerifiedPurchase, CreateReview
<1>5. \A t \in Shoppers : submission'[t] # NoSubmission => submission'[t] = submission[t]
  BY DEF ReviewInv, ReviewTypeOK, CreateReview
<1> QED
  BY <1>3, <1>4, <1>5 DEF ReviewInv, CreateReview

\* ReviewInv holds in every state: what a submission found when it read the order
\* still holds when it inserts.
THEOREM ReviewInvariant == ReviewSpec => []ReviewInv
<1>1. ReviewInit => ReviewInv
  BY ReviewInitInv
<1>2. ReviewInv /\ [ReviewNext]_reviewVars => ReviewInv'
  <2> SUFFICES ASSUME ReviewInv, [ReviewNext]_reviewVars PROVE ReviewInv'
    OBVIOUS
  <2>1. CASE ReviewNext
    BY <2>1, MoveOrderKeeps, RemoveProductKeeps, CheckOrderKeeps, CreateReviewKeeps DEF ReviewNext
  <2>2. CASE UNCHANGED reviewVars
    BY <2>2 DEF reviewVars, ReviewInv, ReviewTypeOK, VerifiedPurchase
  <2> QED
    BY <2>1, <2>2
<1> QED
  BY <1>1, <1>2, PTL DEF ReviewSpec

\* Service.Submit and the table's constraint: every review stands for one product
\* of an order that is still paid, and no two for the same.
THEOREM PurchaseAlwaysVerified == ReviewSpec => []VerifiedPurchase
<1>1. ReviewInv => VerifiedPurchase
  BY DEF ReviewInv
<1> QED
  BY <1>1, ReviewInvariant, PTL

------------------------------------------------------------------------------
\* Operator accounts.

\* What AccountInv says of the requests.
CallersFit ==
  /\ caller \in [Callers -> [pc : CallerSteps \cup {"idle"}, op : Operators \cup {None},
                             email : Addresses \cup {None}, i : Invites \cup {None}]]
  /\ \A c \in Callers :
       caller[c].pc \in {"invite", "create"} => caller[c].email \in Addresses

LEMMA RequestsFit == AccountInv => CallersFit
BY DEF AccountInv, AccountTypeOK, CallersFit

\* A step that leaves accounts and ids alone, and creates no session.
LEMMA TeamStays ==
  ASSUME AccountInv, UNCHANGED <<account, issued>>, sessions' \subseteq sessions,
         AccountTypeOK', CallersFit'
  PROVE  AccountInv'
<1>1. Team' = Team
  BY DEF Team
<1> QED
  BY <1>1 DEF AccountInv, TokensMeanOneOperator, CallersFit

\* A request goes to its next statement.
LEMMA CallerGoesOn ==
  ASSUME AccountInv, NEW c \in Callers, NEW pc \in CallerSteps \cup {"idle"},
         NEW op \in Operators \cup {None}, NEW email \in Addresses \cup {None},
         NEW i \in Invites \cup {None}, Continue(c, pc, op, email, i),
         pc \in {"invite", "create"} => email \in Addresses
  PROVE  CallersFit'
BY DEF AccountInv, AccountTypeOK, CallersFit, Continue

\* A request ends.
LEMMA CallerReturns ==
  ASSUME AccountInv, NEW c \in Callers, Return(c)
  PROVE  CallersFit'
<1>1. Continue(c, "idle", None, None, None)
  BY DEF Return, Continue, Waiting
<1> QED
  BY <1>1, CallerGoesOn

\* Reading and beginning.
LEMMA BeginningsKeep ==
  ASSUME AccountInv, NEW c \in Callers,
         \/ \E p \in Operators : LogIn(c, p) \/ RequireOperator(c, p) \/ BeginRemove(c, p)
         \/ \E e \in Addresses : BeginInvite(c, e)
         \/ \E i \in Invites : ReadInvite(c, i)
  PROVE  AccountInv'
<1>1. UNCHANGED <<account, issued, invite, sessions>>
  BY DEF LogIn, RequireOperator, BeginInvite, BeginRemove, ReadInvite
<1>2. caller[c].op \in Operators \cup {None}
  BY DEF AccountInv, AccountTypeOK
<1>3. \A i \in Invites : ReadInvite(c, i) => invite[i].email \in Addresses
  BY DEF AccountInv, AccountTypeOK, ReadInvite, Invite
<1>4. CallersFit'
  BY <1>2, <1>3, CallerGoesOn
     DEF LogIn, RequireOperator, BeginInvite, BeginRemove, ReadInvite, CallerSteps
<1>5. AccountTypeOK'
  BY <1>1, <1>4 DEF AccountInv, AccountTypeOK, CallersFit
<1> QED
  BY <1>1, <1>4, <1>5, TeamStays

\* What happens to invites.
LEMMA InvitesKeep ==
  ASSUME AccountInv, NEW c \in Callers,
         CreateInvite(c) \/ (\E i \in Invites : RevokeInvite(c, i)) \/ MarkInviteAccepted(c)
  PROVE  AccountInv'
<1>1. UNCHANGED <<account, issued, sessions>>
  BY DEF CreateInvite, RevokeInvite, MarkInviteAccepted
<1>2. invite' \in [Invites -> Invite \cup {None}]
  <2>1. CASE CreateInvite(c)
    <3>1. caller[c].email \in Addresses
      BY <2>1 DEF AccountInv, CreateInvite, AtStep
    <3>2. CASE UNCHANGED invite
      BY <3>2 DEF AccountInv, AccountTypeOK
    <3>3. CASE caller[c].op \in Team
      <4>1. PICK i \in Invites : invite' = [invite EXCEPT ![i] =
              [email |-> caller[c].email, by |-> caller[c].op, accepted |-> FALSE, live |-> TRUE]]
        BY <2>1, <3>3 DEF CreateInvite
      <4>2. [email |-> caller[c].email, by |-> caller[c].op, accepted |-> FALSE, live |-> TRUE] \in Invite
        BY <3>1, <3>3 DEF Invite, Team
      <4> QED
        BY <4>1, <4>2 DEF AccountInv, AccountTypeOK
    <3> QED
      BY <2>1, <3>2, <3>3 DEF CreateInvite
  <2>2. CASE \E i \in Invites : RevokeInvite(c, i)
    BY <2>2 DEF AccountInv, AccountTypeOK, RevokeInvite
  <2>3. CASE MarkInviteAccepted(c)
    <3>1. ASSUME NEW row \in Invite PROVE [row EXCEPT !.accepted = TRUE] \in Invite
      BY DEF Invite
    <3>2. CASE UNCHANGED invite
      BY <3>2 DEF AccountInv, AccountTypeOK
    <3>3. CASE invite' = [invite EXCEPT ![caller[c].i] =
                            IF @ = None THEN None ELSE [@ EXCEPT !.accepted = TRUE]]
      <4> DEFINE old == invite[caller[c].i]
                 row == IF old = None THEN None ELSE [old EXCEPT !.accepted = TRUE]
      <4>1. caller[c].i \in Invites => row \in Invite \cup {None}
        BY <3>1 DEF AccountInv, AccountTypeOK
      <4>2. invite' = [invite EXCEPT ![caller[c].i] = row]
        BY <3>3
      <4> HIDE DEF row
      <4> QED
        BY <4>1, <4>2 DEF AccountInv, AccountTypeOK
    <3> QED
      BY <2>3, <3>2, <3>3 DEF MarkInviteAccepted
  <2> QED
    BY <2>1, <2>2, <2>3
<1>3. CallersFit'
  <2>1. caller[c].op \in Operators \cup {None}
    BY DEF AccountInv, AccountTypeOK
  <2> QED
    BY <2>1, CallerReturns, CallerGoesOn DEF CreateInvite, RevokeInvite, MarkInviteAccepted, CallerSteps
<1>4. AccountTypeOK'
  BY <1>1, <1>2, <1>3 DEF AccountInv, AccountTypeOK, CallersFit
<1> QED
  BY <1>1, <1>3, <1>4, TeamStays

\* The foreign key of operator_sessions.
LEMMA CreateSessionKeeps ==
  ASSUME AccountInv, NEW c \in Callers, CreateSession(c)
  PROVE  AccountInv'
<1>1. CallersFit'
  BY CallerReturns DEF CreateSession
<1>2. Team' = Team /\ sessions' \subseteq sessions \cup Team /\ Team \subseteq Operators
  BY DEF CreateSession, Team
<1>3. AccountTypeOK'
  BY <1>1, <1>2 DEF AccountInv, AccountTypeOK, CallersFit, CreateSession
<1> QED
  BY <1>1, <1>2, <1>3 DEF AccountInv, TokensMeanOneOperator, CallersFit, CreateSession

\* Its sessions go with an operator.
LEMMA DeleteOperatorKeeps ==
  ASSUME AccountInv, NEW c \in Callers, DeleteOperator(c)
  PROVE  AccountInv'
<1>1. CallersFit'
  BY CallerReturns DEF DeleteOperator
<1>2. CASE UNCHANGED <<account, sessions>>
  <2>1. AccountTypeOK'
    BY <1>1, <1>2 DEF AccountInv, AccountTypeOK, CallersFit, DeleteOperator
  <2> QED
    BY <1>1, <1>2, <2>1, TeamStays DEF DeleteOperator
<1>3. CASE /\ account' = [account EXCEPT ![caller[c].op] = None]
           /\ sessions' = sessions \ {caller[c].op}
  <2>1. AccountTypeOK'
    BY <1>1, <1>3 DEF AccountInv, AccountTypeOK, CallersFit, DeleteOperator
  <2>2. /\ Team' = Team \ {caller[c].op}
        /\ \A p \in Team' : account'[p] = account[p]
    BY <1>3 DEF AccountInv, AccountTypeOK, Team
  <2> QED
    BY <1>1, <1>3, <2>1, <2>2 DEF AccountInv, TokensMeanOneOperator, CallersFit, DeleteOperator
<1> QED
  BY <1>2, <1>3 DEF DeleteOperator

\* The unique address, looked at by the insert, and an id that is new.
LEMMA CreateOperatorKeeps ==
  ASSUME AccountInv, NEW c \in Callers, CreateOperator(c)
  PROVE  AccountInv'
<1>1. CASE UNCHANGED <<account, issued>> /\ Return(c)
  <2>1. AccountTypeOK'
    BY <1>1, CallerReturns DEF AccountInv, AccountTypeOK, CallersFit, CreateOperator
  <2> QED
    BY <1>1, <2>1, CallerReturns, TeamStays DEF CreateOperator
<1>2. ASSUME NEW p \in Operators \ issued,
             ~\E q \in Team : account[q] = caller[c].email,
             account' = [account EXCEPT ![p] = caller[c].email],
             issued' = issued \cup {p},
             Continue(c, "mark", p, caller[c].email, caller[c].i),
             UNCHANGED <<invite, sessions>>
      PROVE  AccountInv'
  <2>1. caller[c].email \in Addresses \cup {None} /\ caller[c].i \in Invites \cup {None}
    BY DEF AccountInv, AccountTypeOK
  <2>2. CallersFit'
    BY <1>2, <2>1, CallerGoesOn DEF CallerSteps
  <2>3. AccountTypeOK'
    BY <1>2, <2>1, <2>2 DEF AccountInv, AccountTypeOK, CallersFit
  <2>4. /\ account'[p] = caller[c].email
        /\ \A q \in Operators \ {p} : account'[q] = account[q]
    BY <1>2 DEF AccountInv, AccountTypeOK
  <2>5. p \notin Team
    BY DEF AccountInv
  <2>6. Team \subseteq Team' /\ Team' \subseteq Team \cup {p}
    BY <2>4, <2>5 DEF Team
  <2>7. Team' \subseteq issued'
    BY <1>2, <2>6 DEF AccountInv
  <2>8. TokensMeanOneOperator'
    <3>1. sessions' \subseteq Team'
      BY <1>2, <2>6 DEF AccountInv, TokensMeanOneOperator
    <3>2. Team \subseteq Operators
      BY DEF Team
    <3>3. ASSUME NEW q \in Team', NEW r \in Team', account'[q] = account'[r] PROVE q = r
      BY <1>2, <2>4, <2>5, <2>6, <3>2, <3>3 DEF AccountInv, TokensMeanOneOperator
    <3> QED
      BY <3>1, <3>3 DEF TokensMeanOneOperator
  <2> QED
    BY <2>2, <2>3, <2>7, <2>8 DEF AccountInv, CallersFit
<1> QED
  BY <1>1, <1>2 DEF CreateOperator

\* AccountInv holds in every state.
THEOREM AccountInvariant == AccountSpec => []AccountInv
<1>1. AccountInit => AccountInv
  BY AccountAssumption DEF AccountInit, AccountInv, AccountTypeOK, TokensMeanOneOperator, Team, Waiting
<1>2. AccountInv /\ [AccountNext]_accountVars => AccountInv'
  <2> SUFFICES ASSUME AccountInv, [AccountNext]_accountVars PROVE AccountInv'
    OBVIOUS
  <2>1. ASSUME NEW c \in Callers, TeamStep(c) PROVE AccountInv'
    BY <2>1, BeginningsKeep, InvitesKeep, CreateSessionKeeps, DeleteOperatorKeeps, CreateOperatorKeeps
       DEF TeamStep
  <2>2. ASSUME NEW c \in Callers, BreakCaller(c) PROVE AccountInv'
    <3>1. AccountTypeOK'
      BY <2>2, CallerReturns DEF AccountInv, AccountTypeOK, CallersFit, BreakCaller
    <3> QED
      BY <2>2, <3>1, CallerReturns, TeamStays DEF BreakCaller
  <2>3. ASSUME NEW i \in Invites, ExpireInvite(i) PROVE AccountInv'
    <3>1. AccountTypeOK'
      BY <2>3 DEF AccountInv, AccountTypeOK, CallersFit, ExpireInvite, Invite
    <3> QED
      BY <2>3, <3>1, TeamStays, RequestsFit DEF CallersFit, ExpireInvite
  <2>4. ASSUME NEW p \in Operators, EndSession(p) PROVE AccountInv'
    <3>1. AccountTypeOK'
      BY <2>4 DEF AccountInv, AccountTypeOK, CallersFit, EndSession
    <3> QED
      BY <2>4, <3>1, TeamStays, RequestsFit DEF CallersFit, EndSession
  <2>5. CASE UNCHANGED accountVars
    BY <2>5 DEF accountVars, AccountInv, AccountTypeOK, TokensMeanOneOperator, Team
  <2> QED
    BY <2>1, <2>2, <2>3, <2>4, <2>5 DEF AccountNext
<1> QED
  BY <1>1, <1>2, PTL DEF AccountSpec

\* The unique address of operators and the foreign key of operator_sessions: an address
\* has one account and a session its operator, however acceptances and logins race with
\* removals.
THEOREM TokensAlwaysMeanOneOperator == AccountSpec => []TokensMeanOneOperator
<1>1. AccountInv => TokensMeanOneOperator
  BY DEF AccountInv
<1> QED
  BY <1>1, AccountInvariant, PTL

------------------------------------------------------------------------------
\* Campaigns.

\* A row is never NULL, and the budget of a proposal is a number.
LEMMA RowsAreRows ==
  ASSUME NEW row \in CampaignRow
  PROVE  /\ row # None /\ row.status \in CampaignStatuses
         /\ \A status \in CampaignStatuses : [row EXCEPT !.status = status] \in CampaignRow
         /\ [row EXCEPT !.status = "ACTIVE", !.runs = "now"] \in CampaignRow
         /\ [row EXCEPT !.runs = "over"] \in CampaignRow
BY CampaignRowAssumption DEF CampaignRow, CampaignStatuses

LEMMA BudgetIsNat ==
  ASSUME CampaignInv, NEW o \in Desks, desk[o].pc = "save"
  PROVE  desk[o].offer \in DOMAIN ListPrice /\ BudgetCap(o) \in Nat
<1>1. /\ desk[o].offer \in DOMAIN ListPrice
      /\ desk[o].demand \in Nat /\ desk[o].percent \in Nat
  BY DEF CampaignInv, DeskFits
<1>2. ListPrice[desk[o].offer] \in Nat
  BY <1>1, CampaignAssumption
<1>3. \A a, b \in Nat : a * b \in Nat /\ a \div 100 \in Nat
  OBVIOUS
<1> QED
  BY <1>1, <1>2, <1>3 DEF BudgetCap

\* The requests at their desks when one of them moves on and rows and locks stay.
LEMMA DeskMoves ==
  ASSUME CampaignInv, NEW o \in Desks, NEW w, desk' = [desk EXCEPT ![o] = w],
         UNCHANGED <<campaign, rowLock>>, DOMAIN w = DOMAIN AtDesk,
         w.pc \in {"idle", "sum", "save", "lock", "reject"},
         w.pc \in {"sum", "save"} =>
           w.offer \in DOMAIN ListPrice /\ {w.demand, w.percent} \subseteq Nat,
         w.pc \in {"lock", "reject"} => w.id \in CampaignIds /\ campaign[w.id] # None
  PROVE  CampaignInv'
<1>1. /\ desk'[o] = w /\ DOMAIN desk' = Desks
      /\ \A p \in Desks \ {o} : desk'[p] = desk[p]
  BY DEF CampaignInv
<1>2. CampaignTypeOK'
  BY <1>1 DEF CampaignInv, CampaignTypeOK
<1>3. \A p \in Desks : DeskFits(p)'
  BY <1>1 DEF CampaignInv, DeskFits
<1> QED
  BY <1>1, <1>2, <1>3 DEF CampaignInv

\* A step that changes no row but c's, which o holds or nobody does, and leaves o's
\* desk: nobody else was about to activate c.
LEMMA RowChanges ==
  ASSUME CampaignInv, NEW o \in Desks, NEW c \in CampaignIds, LeaveDesk(o),
         \A d \in CampaignIds \ {c} : campaign'[d] = campaign[d] /\ rowLock'[d] = rowLock[d],
         rowLock[c] \in {o, None},
         campaign'[c] # None, CampaignTypeOK'
  PROVE  CampaignInv'
<1>1. /\ desk'[o] = AtDesk /\ DOMAIN desk' = Desks
      /\ \A p \in Desks \ {o} : desk'[p] = desk[p]
  BY DEF CampaignInv, LeaveDesk, DeskGoto
<1>2. ASSUME NEW p \in Desks PROVE DeskFits(p)'
  <2>1. CASE p = o
    BY <1>1, <2>1 DEF DeskFits, AtDesk
  <2>2. CASE p # o
    <3>1. desk'[p] = desk[p] /\ DeskFits(p)
      BY <1>1, <2>2 DEF CampaignInv
    <3>2. desk[p].pc = "activate" => desk[p].id # c
      BY <2>2, <3>1, CampaignAssumption DEF DeskFits
    <3> QED
      BY <3>1, <3>2 DEF DeskFits
  <2> QED
    BY <2>1, <2>2
<1> QED
  BY <1>1, <1>2 DEF CampaignInv

LEMMA ProposingKeeps ==
  ASSUME CampaignInv, NEW o \in Desks, BeginProposal(o) \/ ReadActiveBudget(o)
  PROVE  CampaignInv'
<1>1. CASE BeginProposal(o)
  <2>1. PICK p \in DOMAIN ListPrice, n \in Demands \ {0}, pct \in Percents \ {0}, d \in Durations \ {0} :
          desk' = [desk EXCEPT ![o] =
            [AtDesk EXCEPT !.pc = "sum", !.offer = p, !.demand = n, !.percent = pct, !.days = d]]
    BY <1>1 DEF BeginProposal, DeskGoto
  <2> DEFINE w == [AtDesk EXCEPT !.pc = "sum", !.offer = p, !.demand = n, !.percent = pct, !.days = d]
  <2>2. n \in Nat /\ pct \in Nat
    BY CampaignAssumption
  <2>3. /\ DOMAIN w = DOMAIN AtDesk /\ w.pc = "sum"
        /\ w.offer = p /\ w.demand = n /\ w.percent = pct
    BY DEF AtDesk
  <2> HIDE DEF w
  <2>4. desk' = [desk EXCEPT ![o] = w] /\ UNCHANGED <<campaign, rowLock>>
    BY <1>1, <2>1 DEF w, BeginProposal
  <2> QED
    BY <2>2, <2>3, <2>4, DeskMoves
<1>2. CASE ReadActiveBudget(o)
  <2>1. PICK sum : desk' = [desk EXCEPT ![o] = [desk[o] EXCEPT !.pc = "save", !.active = sum]]
    BY <1>2 DEF ReadActiveBudget, DeskGoto
  <2> DEFINE w == [desk[o] EXCEPT !.pc = "save", !.active = sum]
  <2>2. DeskFits(o) /\ desk[o].pc = "sum" /\ UNCHANGED <<campaign, rowLock>>
    BY <1>2 DEF CampaignInv, ReadActiveBudget, DeskAt
  <2>3. /\ DOMAIN w = DOMAIN AtDesk /\ w.pc = "save"
        /\ w.offer = desk[o].offer /\ w.demand = desk[o].demand /\ w.percent = desk[o].percent
    BY <2>2 DEF DeskFits, AtDesk
  <2> HIDE DEF w
  <2>4. desk' = [desk EXCEPT ![o] = w]
    BY <2>1 DEF w
  <2> QED
    BY <2>2, <2>3, <2>4, DeskMoves DEF DeskFits
<1> QED
  BY <1>1, <1>2

\* An id that is new is held by nobody.
LEMMA SaveProposalKeeps ==
  ASSUME CampaignInv, NEW o \in Desks, SaveProposal(o)
  PROVE  CampaignInv'
<1>1. desk[o].pc = "save" /\ LeaveDesk(o) /\ UNCHANGED rowLock
  BY DEF SaveProposal, DeskAt
<1>2. PICK c \in CampaignIds, status \in CampaignStatuses :
        /\ campaign[c] = None
        /\ campaign' = [campaign EXCEPT ![c] =
             [offer |-> desk[o].offer, cap |-> BudgetCap(o), runs |-> "not yet", status |-> status]]
  BY DEF SaveProposal, CampaignStatuses
<1> DEFINE row == [offer |-> desk[o].offer, cap |-> BudgetCap(o), runs |-> "not yet", status |-> status]
<1>3. row \in CampaignRow
  BY <1>1, BudgetIsNat DEF CampaignRow
<1>4. campaign' = [campaign EXCEPT ![c] = row]
  BY <1>2
<1> HIDE DEF row
<1>5. /\ desk'[o] = AtDesk /\ DOMAIN desk' = Desks
      /\ \A p \in Desks \ {o} : desk'[p] = desk[p]
  BY <1>1 DEF CampaignInv, LeaveDesk, DeskGoto
<1>6. CampaignTypeOK'
  BY <1>1, <1>3, <1>4, <1>5 DEF CampaignInv, CampaignTypeOK, AtDesk
<1>7. ASSUME NEW p \in Desks PROVE DeskFits(p)'
  <2>1. CASE p = o
    BY <1>5, <2>1 DEF DeskFits, AtDesk
  <2>2. CASE p # o
    <3>1. desk'[p] = desk[p] /\ DeskFits(p)
      BY <1>5, <2>2 DEF CampaignInv
    <3>2. desk[p].pc \in {"lock", "activate", "reject"} =>
            desk[p].id # c /\ campaign'[desk[p].id] = campaign[desk[p].id]
      BY <1>2, <1>4, <3>1 DEF CampaignInv, CampaignTypeOK, DeskFits
    <3> QED
      BY <1>1, <3>1, <3>2 DEF DeskFits
  <2> QED
    BY <2>1, <2>2
<1> QED
  BY <1>5, <1>6, <1>7 DEF CampaignInv

LEMMA BeginDecisionKeeps ==
  ASSUME CampaignInv, NEW o \in Desks, NEW c \in CampaignIds, BeginApprove(o, c) \/ BeginReject(o, c)
  PROVE  CampaignInv'
<1>1. PICK pc \in {"lock", "reject"} : desk' = [desk EXCEPT ![o] = [AtDesk EXCEPT !.pc = pc, !.id = c]]
  BY DEF BeginApprove, BeginReject, DeskGoto
<1> DEFINE w == [AtDesk EXCEPT !.pc = pc, !.id = c]
<1>2. DOMAIN w = DOMAIN AtDesk /\ w.pc = pc /\ w.id = c
  BY DEF AtDesk
<1>3. campaign[c] # None /\ UNCHANGED <<campaign, rowLock>>
  BY DEF BeginApprove, BeginReject
<1> HIDE DEF w
<1>4. desk' = [desk EXCEPT ![o] = w]
  BY <1>1 DEF w
<1> QED
  BY <1>2, <1>3, <1>4, DeskMoves

\* SELECT ... FOR UPDATE: whoever finds the row PROPOSED is the one that holds it.
LEMMA LockProposalKeeps ==
  ASSUME CampaignInv, NEW o \in Desks, LockProposal(o)
  PROVE  CampaignInv'
<1>1. /\ DeskFits(o) /\ desk[o].pc = "lock" /\ UNCHANGED campaign
      /\ rowLock[desk[o].id] = None
  BY DEF CampaignInv, LockProposal, DeskAt
<1>2. PICK c \in CampaignIds : c = desk[o].id /\ campaign[c] # None
  BY <1>1 DEF DeskFits
<1>3. CASE UNCHANGED rowLock /\ LeaveDesk(o)
  BY <1>1, <1>3, DeskMoves DEF LeaveDesk, DeskGoto, AtDesk
<1>4. CASE /\ StatusOf(c) = "PROPOSED"
           /\ rowLock' = [rowLock EXCEPT ![c] = o]
           /\ DeskGoto(o, [desk[o] EXCEPT !.pc = "activate"])
  <2> DEFINE w == [desk[o] EXCEPT !.pc = "activate"]
  <2>1. DOMAIN w = DOMAIN AtDesk /\ w.pc = "activate" /\ w.id = c
    BY <1>1, <1>2 DEF DeskFits, AtDesk
  <2>2. desk' = [desk EXCEPT ![o] = w]
    BY <1>4 DEF DeskGoto
  <2> HIDE DEF w
  <2>3. /\ desk'[o] = w /\ DOMAIN desk' = Desks
        /\ \A p \in Desks \ {o} : desk'[p] = desk[p]
    BY <2>2 DEF CampaignInv
  <2>4. /\ rowLock' \in [CampaignIds -> Desks \cup {None}] /\ rowLock'[c] = o
        /\ \A d \in CampaignIds \ {c} : rowLock'[d] = rowLock[d]
    BY <1>4 DEF CampaignInv, CampaignTypeOK
  <2>5. CampaignTypeOK'
    BY <1>1, <2>1, <2>3, <2>4 DEF CampaignInv, CampaignTypeOK
  <2>6. ASSUME NEW p \in Desks PROVE DeskFits(p)'
    <3>1. CASE p = o
      BY <1>1, <1>2, <1>4, <2>1, <2>3, <2>4, <3>1 DEF DeskFits, StatusOf
    <3>2. CASE p # o
      <4>1. desk'[p] = desk[p] /\ DeskFits(p)
        BY <2>3, <3>2 DEF CampaignInv
      <4>2. desk[p].pc = "activate" => desk[p].id # c
        BY <1>1, <1>2, <4>1, CampaignAssumption DEF DeskFits
      <4> QED
        BY <1>1, <2>4, <4>1, <4>2 DEF DeskFits
    <3> QED
      BY <3>1, <3>2
  <2> QED
    BY <2>3, <2>5, <2>6 DEF CampaignInv
<1> QED
  BY <1>1, <1>2, <1>3, <1>4 DEF LockProposal

\* What a step that decides does to the row it decides.
LEMMA DecidingRow ==
  ASSUME CampaignInv, NEW o \in Desks, ActivateCampaign(o) \/ RejectCampaign(o)
  PROVE  \E c \in CampaignIds, row \in CampaignRow :
           /\ campaign[c] \in CampaignRow
           /\ campaign' = [campaign EXCEPT ![c] = row]
           /\ rowLock' = [rowLock EXCEPT ![c] = None] /\ rowLock[c] \in {o, None}
           /\ LeaveDesk(o)
           /\ campaign[c].status = "PROPOSED" \/ row = campaign[c]
<1>1. DeskFits(o) /\ desk[o].pc \in {"activate", "reject"} /\ LeaveDesk(o)
  BY DEF CampaignInv, ActivateCampaign, RejectCampaign, DeskAt
<1>2. PICK c \in CampaignIds : c = desk[o].id /\ campaign[c] # None
  BY <1>1 DEF DeskFits
<1>3. campaign[c] \in CampaignRow
  BY <1>2 DEF CampaignInv, CampaignTypeOK
<1>4. CASE ActivateCampaign(o)
  <2>1. campaign' = [campaign EXCEPT ![c] = [campaign[c] EXCEPT !.status = "ACTIVE", !.runs = "now"]]
    BY <1>2, <1>4 DEF ActivateCampaign
  <2>2. rowLock' = [rowLock EXCEPT ![c] = None] /\ rowLock[c] = o /\ campaign[c].status = "PROPOSED"
    BY <1>1, <1>2, <1>4 DEF ActivateCampaign, DeskAt, DeskFits
  <2> QED
    BY <1>1, <1>3, <2>1, <2>2, RowsAreRows
<1>5. CASE RejectCampaign(o)
  <2>1. rowLock[c] = None /\ UNCHANGED rowLock
    BY <1>2, <1>5 DEF RejectCampaign
  <2>2. rowLock' = [rowLock EXCEPT ![c] = None]
    BY <2>1 DEF CampaignInv, CampaignTypeOK
  <2>3. CASE campaign[c].status = "PROPOSED"
    <3>1. campaign' = [campaign EXCEPT ![c] = [campaign[c] EXCEPT !.status = "REJECTED"]]
      BY <1>2, <1>5, <2>3 DEF RejectCampaign
    <3>2. [campaign[c] EXCEPT !.status = "REJECTED"] \in CampaignRow
      BY <1>3, RowsAreRows DEF CampaignStatuses
    <3> QED
      BY <1>1, <1>3, <2>1, <2>2, <2>3, <3>1, <3>2
  <2>4. CASE campaign[c].status # "PROPOSED"
    <3>1. campaign' = [campaign EXCEPT ![c] = campaign[c]]
      BY <1>2, <1>5, <2>4 DEF RejectCampaign
    <3> QED
      BY <1>1, <1>3, <2>1, <2>2, <3>1
  <2> QED
    BY <2>3, <2>4
<1> QED
  BY <1>4, <1>5

LEMMA DecidingKeeps ==
  ASSUME CampaignInv, NEW o \in Desks, ActivateCampaign(o) \/ RejectCampaign(o)
  PROVE  CampaignInv'
<1>1. PICK c \in CampaignIds, row \in CampaignRow :
        /\ campaign' = [campaign EXCEPT ![c] = row]
        /\ rowLock' = [rowLock EXCEPT ![c] = None] /\ rowLock[c] \in {o, None}
        /\ LeaveDesk(o)
  BY DecidingRow
<1>2. row # None
  BY RowsAreRows
<1>3. /\ campaign' \in [CampaignIds -> CampaignRow \cup {None}]
      /\ rowLock' \in [CampaignIds -> Desks \cup {None}]
      /\ campaign'[c] = row
      /\ \A d \in CampaignIds \ {c} : campaign'[d] = campaign[d] /\ rowLock'[d] = rowLock[d]
  BY <1>1 DEF CampaignInv, CampaignTypeOK
<1>4. CampaignTypeOK'
  BY <1>1, <1>3 DEF CampaignInv, CampaignTypeOK, LeaveDesk, DeskGoto, AtDesk
<1> QED
  BY <1>1, <1>2, <1>3, <1>4, RowChanges

\* A transaction that is given up lets its own rows go only.
LEMMA BreakDeskKeeps ==
  ASSUME CampaignInv, NEW o \in Desks, BreakDesk(o)
  PROVE  CampaignInv'
<1>1. /\ rowLock' = [c \in CampaignIds |-> IF rowLock[c] = o THEN None ELSE rowLock[c]]
      /\ UNCHANGED campaign
  BY DEF BreakDesk
<1>2. /\ desk'[o] = AtDesk /\ DOMAIN desk' = Desks
      /\ \A p \in Desks \ {o} : desk'[p] = desk[p]
  BY DEF CampaignInv, BreakDesk, LeaveDesk, DeskGoto
<1>3. CampaignTypeOK'
  BY <1>1, <1>2 DEF CampaignInv, CampaignTypeOK, AtDesk
<1>4. ASSUME NEW p \in Desks PROVE DeskFits(p)'
  <2>1. CASE p = o
    BY <1>2, <2>1 DEF DeskFits, AtDesk
  <2>2. CASE p # o
    BY <1>1, <1>2, <2>2 DEF CampaignInv, DeskFits
  <2> QED
    BY <2>1, <2>2
<1> QED
  BY <1>2, <1>3, <1>4 DEF CampaignInv

LEMMA CampaignEndsKeeps ==
  ASSUME CampaignInv, NEW c \in CampaignIds, CampaignEnds(c)
  PROVE  CampaignInv'
<1>1. /\ campaign[c] \in CampaignRow /\ campaign[c].status = "ACTIVE"
      /\ UNCHANGED <<rowLock, desk>>
  BY CampaignRowAssumption DEF CampaignInv, CampaignTypeOK, CampaignEnds, StatusOf, CampaignStatuses
<1> DEFINE row == [campaign[c] EXCEPT !.runs = "over"]
<1>2. row \in CampaignRow /\ row # None
  BY <1>1, RowsAreRows
<1>3. campaign' = [campaign EXCEPT ![c] = row]
  BY DEF CampaignEnds
<1> HIDE DEF row
<1>4. CampaignTypeOK' /\ campaign'[c] = row /\ \A d \in CampaignIds \ {c} : campaign'[d] = campaign[d]
  BY <1>1, <1>2, <1>3 DEF CampaignInv, CampaignTypeOK
<1>5. ASSUME NEW p \in Desks PROVE DeskFits(p)'
  BY <1>1, <1>2, <1>4 DEF CampaignInv, DeskFits
<1> QED
  BY <1>1, <1>4, <1>5 DEF CampaignInv

\* CampaignInv holds in every state.
THEOREM CampaignInvariant == CampaignSpec => []CampaignInv
<1>1. CampaignInit => CampaignInv
  BY DEF CampaignInit, CampaignInv, CampaignTypeOK, DeskFits, AtDesk
<1>2. CampaignInv /\ [CampaignNext]_campaignVars => CampaignInv'
  <2> SUFFICES ASSUME CampaignInv, [CampaignNext]_campaignVars PROVE CampaignInv'
    OBVIOUS
  <2>1. ASSUME NEW o \in Desks, DeskStep(o) PROVE CampaignInv'
    BY <2>1, ProposingKeeps, SaveProposalKeeps, BeginDecisionKeeps, LockProposalKeeps, DecidingKeeps,
       BreakDeskKeeps DEF DeskStep
  <2>2. CASE UNCHANGED campaignVars
    BY <2>2 DEF campaignVars, CampaignInv, CampaignTypeOK, DeskFits
  <2> QED
    BY <2>1, <2>2, CampaignEndsKeeps DEF CampaignNext
<1> QED
  BY <1>1, <1>2, PTL DEF CampaignSpec

\* A step leaves the status of every decided campaign as it is.
LEMMA DecidedStays ==
  ASSUME CampaignInv, CampaignNext, NEW c \in CampaignIds, StatusOf(c) \in {"ACTIVE", "REJECTED"}
  PROVE  StatusOf(c)' = StatusOf(c)
<1>1. campaign[c] \in CampaignRow /\ campaign[c].status \in {"ACTIVE", "REJECTED"}
  BY CampaignRowAssumption DEF CampaignInv, CampaignTypeOK, StatusOf, CampaignStatuses
<1>2. CASE campaign'[c] = campaign[c]
  BY <1>2 DEF StatusOf
<1>3. ASSUME NEW o \in Desks, SaveProposal(o) PROVE campaign'[c] = campaign[c]
  BY <1>1, <1>3, RowsAreRows DEF CampaignInv, CampaignTypeOK, SaveProposal
<1>4. ASSUME NEW o \in Desks, ActivateCampaign(o) \/ RejectCampaign(o)
      PROVE  campaign'[c] = campaign[c]
  BY <1>1, <1>4, DecidingRow DEF CampaignInv, CampaignTypeOK
<1>5. ASSUME NEW o \in Desks,
             \/ BeginProposal(o) \/ ReadActiveBudget(o) \/ LockProposal(o) \/ BreakDesk(o)
             \/ \E d \in CampaignIds : BeginApprove(o, d) \/ BeginReject(o, d)
      PROVE  campaign'[c] = campaign[c]
  BY <1>5 DEF BeginProposal, ReadActiveBudget, LockProposal, BreakDesk, BeginApprove, BeginReject
<1>6. ASSUME NEW d \in CampaignIds, CampaignEnds(d) PROVE StatusOf(c)' = StatusOf(c)
  <2>1. CASE d = c
    <3>1. campaign' = [campaign EXCEPT ![c] = [campaign[c] EXCEPT !.runs = "over"]]
      BY <1>6, <2>1 DEF CampaignEnds
    <3>2. [campaign[c] EXCEPT !.runs = "over"].status = campaign[c].status
      BY <1>1 DEF CampaignRow
    <3>3. campaign'[c] # None /\ campaign'[c].status = campaign[c].status
      BY <1>1, <3>1, <3>2, RowsAreRows DEF CampaignInv, CampaignTypeOK
    <3> QED
      BY <1>1, <3>3, RowsAreRows DEF StatusOf
  <2>2. CASE d # c
    BY <1>2, <1>6, <2>2 DEF CampaignInv, CampaignTypeOK, CampaignEnds
  <2> QED
    BY <2>1, <2>2
<1> QED
  BY <1>2, <1>3, <1>4, <1>5, <1>6 DEF CampaignNext, DeskStep

\* Approve's lock and Reject's guarded update: of two operators at one proposal, however
\* they interleave and break off, the second does not overrule the first.
THEOREM DecisionsAlwaysStand == CampaignSpec => DecisionStands
<1>1. CampaignInv /\ [CampaignNext]_campaignVars =>
        [\A c \in CampaignIds :
           StatusOf(c) \in {"ACTIVE", "REJECTED"} => StatusOf(c)' = StatusOf(c)]_campaignVars
  BY DecidedStays
<1> QED
  BY <1>1, CampaignInvariant, PTL DEF CampaignSpec, DecisionStands

------------------------------------------------------------------------------
\* The buyer agent's conversation.

\* A merge is an intent with the exclusions of both.
LEMMA MergeAddsExclusions ==
  ASSUME NEW prev \in Intent, NEW new \in Intent
  PROVE  /\ mergeIntent(prev, new) \in Intent
         /\ prev.exclude \subseteq mergeIntent(prev, new).exclude
BY DEF mergeIntent, Newer, Intent

\* A request moves on while the conversation stays.
LEMMA TurnMoves ==
  ASSUME TurnInv, NEW t \in Turns, NEW w, TurnGoto(t, w), UNCHANGED <<latest, stored>>,
         w \in [pc : {"idle", "recall", "search", "record"}, intent : Intent,
                save : BOOLEAN, seen : 0 .. MaxSnapshots],
         w.pc \in {"search", "record"} =>
           /\ w.seen <= stored
           /\ w.save /\ w.seen = stored /\ latest # None => latest.exclude \subseteq w.intent.exclude
  PROVE  TurnInv'
<1>1. TurnTypeOK'
  BY DEF TurnInv, TurnTypeOK, TurnGoto
<1>2. turn'[t] = w /\ \A u \in Turns \ {t} : turn'[u] = turn[u]
  BY DEF TurnInv, TurnTypeOK, TurnGoto
<1>3. \A u \in Turns : KeepsExclusions(u)'
  BY <1>2 DEF TurnInv, KeepsExclusions
<1> QED
  BY <1>1, <1>3 DEF TurnInv

LEMMA NoTurnIsOne ==
  NoTurn \in [pc : {"idle", "recall", "search", "record"}, intent : Intent,
              save : BOOLEAN, seen : 0 .. MaxSnapshots]
<1>1. NothingSaid \in Intent
  BY DEF NothingSaid, Intent
<1> QED
  BY <1>1, TurnAssumption DEF NoTurn

LEMMA ExtractKeeps ==
  ASSUME TurnInv, NEW t \in Turns, Extract(t)
  PROVE  TurnInv'
<1>1. PICK i \in Intent : TurnGoto(t, [NoTurn EXCEPT !.pc = "recall", !.intent = i])
  BY DEF Extract
<1> DEFINE w == [NoTurn EXCEPT !.pc = "recall", !.intent = i]
<1>2. /\ w.pc = "recall"
      /\ w \in [pc : {"idle", "recall", "search", "record"}, intent : Intent,
                save : BOOLEAN, seen : 0 .. MaxSnapshots]
  BY NoTurnIsOne DEF NoTurn
<1>3. TurnGoto(t, w) /\ UNCHANGED <<latest, stored>>
  BY <1>1 DEF Extract
<1> HIDE DEF w
<1> QED
  BY <1>2, <1>3, TurnMoves

\* A prompt that is understood is merged; one that is not is not stored.
LEMMA LastKnownIntentKeeps ==
  ASSUME TurnInv, NEW t \in Turns, LastKnownIntent(t)
  PROVE  TurnInv'
<1> DEFINE new == turn[t].intent
           merged == IF latest # None /\ hasSignal(new) THEN mergeIntent(latest, new) ELSE new
           save == IsComplete(merged) \/ hasSignal(new)
           pc == IF IsComplete(merged) THEN "search" ELSE "record"
           w == [pc |-> pc, intent |-> merged, save |-> save, seen |-> stored]
<1>1. new \in Intent /\ latest \in Intent \cup {None} /\ stored \in 0 .. MaxSnapshots
  BY DEF TurnInv, TurnTypeOK
<1>2. merged \in Intent
  BY <1>1, MergeAddsExclusions
<1>3. save => hasSignal(new)
  <2>1. ~hasSignal(new) => ~IsComplete(new)
    BY DEF hasSignal, IsComplete, NothingSaid
  <2> QED
    BY <2>1
<1>4. save /\ latest # None => latest.exclude \subseteq merged.exclude
  BY <1>1, <1>3, MergeAddsExclusions
<1>5. save \in BOOLEAN /\ pc \in {"search", "record"}
  BY DEF IsComplete, hasSignal
<1>6. TurnGoto(t, w) /\ UNCHANGED <<latest, stored>>
  BY DEF LastKnownIntent
<1> HIDE DEF merged, save, pc
<1>7. /\ w \in [pc : {"idle", "recall", "search", "record"}, intent : Intent,
                save : BOOLEAN, seen : 0 .. MaxSnapshots]
      /\ w.seen = stored /\ w.save = save /\ w.intent = merged
  BY <1>1, <1>2, <1>5
<1>8. w.seen <= stored
  BY <1>1, <1>7
<1> HIDE DEF w
<1> QED
  BY <1>4, <1>6, <1>7, <1>8, TurnMoves

LEMMA SearchCatalogKeeps ==
  ASSUME TurnInv, NEW t \in Turns, SearchCatalog(t)
  PROVE  TurnInv'
<1> DEFINE w == [turn[t] EXCEPT !.pc = "record"]
<1>1. TurnGoto(t, w) /\ UNCHANGED <<latest, stored>> /\ turn[t].pc = "search"
  BY DEF SearchCatalog
<1>2. /\ w \in [pc : {"idle", "recall", "search", "record"}, intent : Intent,
                save : BOOLEAN, seen : 0 .. MaxSnapshots]
      /\ w.seen = turn[t].seen /\ w.save = turn[t].save /\ w.intent = turn[t].intent
  BY DEF TurnInv, TurnTypeOK
<1>3. KeepsExclusions(t)
  BY DEF TurnInv
<1> HIDE DEF w
<1> QED
  BY <1>1, <1>2, <1>3, TurnMoves DEF KeepsExclusions

\* What is stored makes every other turn on its way an older one.
LEMMA RecordTurnKeeps ==
  ASSUME TurnInv, NEW t \in Turns, RecordTurn(t)
  PROVE  TurnInv'
<1>1. TurnGoto(t, NoTurn) /\ NoTurn.pc = "idle"
  BY DEF RecordTurn, EndTurn, NoTurn
<1>2. CASE UNCHANGED <<latest, stored>>
  BY <1>1, <1>2, NoTurnIsOne, TurnMoves
<1>3. CASE stored < MaxSnapshots /\ latest' = turn[t].intent /\ stored' = stored + 1
  <2>1. turn'[t] = NoTurn /\ \A u \in Turns \ {t} : turn'[u] = turn[u]
    BY <1>1 DEF TurnInv, TurnTypeOK, TurnGoto
  <2>2. stored' \in 0 .. MaxSnapshots /\ stored' > stored /\ stored \in Nat
    BY <1>3, TurnAssumption DEF TurnInv, TurnTypeOK
  <2>3. TurnTypeOK'
    BY <1>1, <1>3, <2>2, NoTurnIsOne DEF TurnInv, TurnTypeOK, TurnGoto
  <2>4. ASSUME NEW u \in Turns PROVE KeepsExclusions(u)'
    <3>1. turn[u].seen \in Nat
      BY TurnAssumption DEF TurnInv, TurnTypeOK
    <3> QED
      BY <1>1, <2>1, <2>2, <3>1 DEF TurnInv, KeepsExclusions
  <2> QED
    BY <2>3, <2>4 DEF TurnInv
<1> QED
  BY <1>2, <1>3 DEF RecordTurn

\* TurnInv holds in every state.
THEOREM TurnInvariant == TurnSpec => []TurnInv
<1>1. TurnInit => TurnInv
  BY NoTurnIsOne, TurnAssumption DEF TurnInit, TurnInv, TurnTypeOK, KeepsExclusions, NoTurn
<1>2. TurnInv /\ [TurnNext]_turnVars => TurnInv'
  <2> SUFFICES ASSUME TurnInv, [TurnNext]_turnVars PROVE TurnInv'
    OBVIOUS
  <2>1. ASSUME NEW t \in Turns, ForgetConversation(t) PROVE TurnInv'
    <3>1. NoTurn.pc = "idle"
      BY DEF NoTurn
    <3> QED
      BY <2>1, <3>1, NoTurnIsOne, TurnMoves DEF ForgetConversation, EndTurn
  <2>2. CASE UNCHANGED turnVars
    BY <2>2 DEF turnVars, TurnInv, TurnTypeOK, KeepsExclusions
  <2> QED
    BY <2>1, <2>2, ExtractKeeps, LastKnownIntentKeeps, SearchCatalogKeeps, RecordTurnKeeps DEF TurnNext
<1> QED
  BY <1>1, <1>2, PTL DEF TurnSpec

\* LastKnownIntent, mergeIntent and recordTurn: an exclusion stays in the conversation
\* unless a turn that had read the conversation before drops it.
THEOREM ExclusionsAlwaysStay == TurnSpec => ExclusionsStay
<1>1. ASSUME TurnInv, TurnNext, latest # None, latest' # latest
      PROVE  \/ latest.exclude \subseteq latest'.exclude
             \/ \E t \in Turns : turn[t].pc = "record" /\ turn[t].seen < stored /\ latest' = turn[t].intent
  <2>1. PICK t \in Turns : turn[t].pc = "record" /\ turn[t].save /\ latest' = turn[t].intent
    BY <1>1 DEF TurnNext, Extract, LastKnownIntent, ForgetConversation, SearchCatalog, RecordTurn
  <2>2. turn[t].seen \in Nat /\ stored \in Nat /\ turn[t].seen <= stored
    BY <1>1, <2>1, TurnAssumption DEF TurnInv, TurnTypeOK, KeepsExclusions
  <2>3. turn[t].seen < stored \/ turn[t].seen = stored
    BY <2>2
  <2> QED
    BY <1>1, <2>1, <2>3 DEF TurnInv, KeepsExclusions
<1>2. TurnInv /\ [TurnNext]_turnVars =>
        [latest # None /\ latest' # latest =>
           \/ latest.exclude \subseteq latest'.exclude
           \/ \E t \in Turns : turn[t].pc = "record" /\ turn[t].seen < stored
                               /\ latest' = turn[t].intent]_turnVars
  BY <1>1
<1> QED
  BY <1>2, TurnInvariant, PTL DEF TurnSpec, ExclusionsStay

------------------------------------------------------------------------------
\* The catalog's cached list.

\* An edit's invalidation is still to come, so nothing is asked of lists and readers.
LEMMA WrittenKeeps ==
  ASSUME CatalogInv, NEW e \in Editors, Written(e)
  PROVE  CatalogInv'
<1>1. editor'[e] = "invalidate" /\ DOMAIN editor' = Editors /\ UNCHANGED <<cached, reader>>
  BY DEF CatalogInv, Written
<1>2. StaleOnlyWhenRaced' /\ ~Settled'
  BY <1>1 DEF StaleOnlyWhenRaced, Settled
<1>3. \A r \in Readers : SeesTheRows(r)'
  BY <1>1, <1>2 DEF CatalogInv, SeesTheRows
<1> QED
  BY <1>1, <1>2, <1>3 DEF CatalogInv

\* Whoever is on the way is marked, and the list is gone or excused.
LEMMA InvalidateKeeps ==
  ASSUME CatalogInv, NEW e \in Editors, Invalidate(e)
  PROVE  CatalogInv'
<1>1. DOMAIN editor' = Editors /\ UNCHANGED <<product, variant>>
  BY DEF CatalogInv, Invalidate
<1>2. ASSUME NEW r \in Readers
      PROVE  DOMAIN reader'[r] = DOMAIN NoReader /\ SeesTheRows(r)'
  <2>1. CASE reader[r].pc = "idle"
    <3>1. reader'[r] = reader[r]
      BY <2>1 DEF Invalidate, PassReaders
    <3> QED
      BY <2>1, <3>1 DEF CatalogInv, SeesTheRows
  <2>2. CASE reader[r].pc # "idle"
    <3>1. reader'[r] = [reader[r] EXCEPT !.raced = TRUE]
      BY <2>2 DEF Invalidate, PassReaders
    <3>2. /\ DOMAIN reader'[r] = DOMAIN NoReader
          /\ reader'[r].pc = reader[r].pc /\ reader'[r].todo = reader[r].todo /\ reader'[r].row = reader[r].row
          /\ reader'[r].raced
      BY <3>1 DEF CatalogInv, NoReader
    <3> QED
      BY <2>2, <3>2 DEF CatalogInv, SeesTheRows
  <2> QED
    BY <2>1, <2>2
<1>3. DOMAIN reader' = Readers
  BY DEF Invalidate, PassReaders
<1>4. /\ cached' # None => DOMAIN cached' = {"list", "excused"}
      /\ StaleOnlyWhenRaced'
  <2>1. CASE cached' = None
    BY <2>1 DEF StaleOnlyWhenRaced
  <2>2. CASE cached # None /\ cached' = [cached EXCEPT !.excused = TRUE]
    <3>1. DOMAIN cached' = {"list", "excused"} /\ cached'.excused
      BY <2>2 DEF CatalogInv
    <3> QED
      BY <3>1 DEF StaleOnlyWhenRaced
  <2> QED
    BY <2>1, <2>2 DEF Invalidate
<1> QED
  BY <1>1, <1>2, <1>3, <1>4 DEF CatalogInv

\* A reader moves on, and the rows and the edits stay.
LEMMA ReaderMoves ==
  ASSUME CatalogInv, NEW r \in Readers, NEW w, reader' = [reader EXCEPT ![r] = w],
         UNCHANGED <<product, variant, editor, cached>>, DOMAIN w = DOMAIN NoReader,
         w.pc # "idle" =>
           /\ w.pc = "store" => w.todo = {}
           /\ w.pc = "variants" =>
                w.row.id \in w.todo /\ (Settled /\ ~w.raced => w.row = RowOf(w.row.id))
           /\ Settled /\ ~w.raced => Listing = w.got \cup {Detail(p) : p \in w.todo}
  PROVE  CatalogInv'
<1>1. /\ reader'[r] = w /\ DOMAIN reader' = Readers
      /\ \A u \in Readers \ {r} : reader'[u] = reader[u]
  BY DEF CatalogInv
<1>2. /\ Listing' = Listing /\ (Settled <=> Settled')
      /\ \A p : Detail(p)' = Detail(p) /\ RowOf(p)' = RowOf(p)
  BY DEF Listing, OnSale, Detail, Described, RowOf, VariantsOf, Settled
<1>3. StaleOnlyWhenRaced'
  BY <1>2 DEF CatalogInv, StaleOnlyWhenRaced
<1>4. ASSUME NEW u \in Readers PROVE DOMAIN reader'[u] = DOMAIN NoReader /\ SeesTheRows(u)'
  <2>1. CASE u = r
    BY <1>1, <1>2, <2>1 DEF SeesTheRows
  <2>2. CASE u # r
    BY <1>1, <1>2, <2>2 DEF CatalogInv, SeesTheRows
  <2> QED
    BY <2>1, <2>2
<1> QED
  BY <1>1, <1>3, <1>4 DEF CatalogInv

LEMMA ReadIdsKeeps ==
  ASSUME CatalogInv, NEW r \in Readers, ReadIds(r)
  PROVE  CatalogInv'
<1> DEFINE pc == IF OnSale = {} THEN "store" ELSE "read"
           w == [pc |-> pc, todo |-> OnSale, got |-> {}, row |-> None, raced |-> reader[r].raced]
<1>1. reader' = [reader EXCEPT ![r] = w] /\ UNCHANGED <<product, variant, editor, cached>>
  BY DEF ReadIds, ReaderGoto
<1>2. DOMAIN w = DOMAIN NoReader
  BY DEF NoReader
<1>3. (w.pc = "store" => w.todo = {}) /\ w.pc # "variants"
  OBVIOUS
<1>4. Listing = w.got \cup {Detail(p) : p \in w.todo}
  BY DEF Listing
<1> HIDE DEF w
<1> QED
  BY <1>1, <1>2, <1>3, <1>4, ReaderMoves

LEMMA ReadProductKeeps ==
  ASSUME CatalogInv, NEW r \in Readers, ReadProduct(r)
  PROVE  CatalogInv'
<1>1. reader[r].pc = "read" /\ UNCHANGED <<product, variant, editor, cached>>
  BY DEF ReadProduct
<1>2. CASE StopReading(r)
  BY <1>1, <1>2, ReaderMoves DEF StopReading, NoReader
<1>3. ASSUME NEW p \in reader[r].todo,
             ReaderGoto(r, "variants", reader[r].todo, reader[r].got, RowOf(p))
      PROVE  CatalogInv'
  <2> DEFINE w == [pc |-> "variants", todo |-> reader[r].todo, got |-> reader[r].got,
                   row |-> RowOf(p), raced |-> reader[r].raced]
  <2>1. reader' = [reader EXCEPT ![r] = w]
    BY <1>3 DEF ReaderGoto
  <2>2. DOMAIN w = DOMAIN NoReader
    BY DEF NoReader
  <2>3. w.pc = "variants" /\ w.row = RowOf(w.row.id) /\ w.row.id \in w.todo
    BY DEF RowOf
  <2>4. Settled /\ ~w.raced => Listing = w.got \cup {Detail(q) : q \in w.todo}
    BY <1>1 DEF CatalogInv, SeesTheRows
  <2> HIDE DEF w
  <2> QED
    BY <1>1, <2>1, <2>2, <2>3, <2>4, ReaderMoves
<1> QED
  BY <1>2, <1>3 DEF ReadProduct

\* The row was read before its variants, and unless an edit came between both are
\* what the list of that moment has of the product.
LEMMA ReadVariantsKeeps ==
  ASSUME CatalogInv, NEW r \in Readers, ReadVariants(r)
  PROVE  CatalogInv'
<1> DEFINE p == reader[r].row.id
           rest == reader[r].todo \ {p}
           pc == IF rest = {} THEN "store" ELSE "read"
           w == [pc |-> pc, todo |-> rest, got |-> reader[r].got \cup {Described(reader[r].row)},
                 row |-> None, raced |-> reader[r].raced]
<1>1. /\ reader[r].pc = "variants" /\ reader' = [reader EXCEPT ![r] = w]
      /\ UNCHANGED <<product, variant, editor, cached>>
  BY DEF ReadVariants, ReaderGoto
<1>2. DOMAIN w = DOMAIN NoReader
  BY DEF NoReader
<1>3. (w.pc = "store" => w.todo = {}) /\ w.pc # "variants"
  OBVIOUS
<1>4. ASSUME Settled, ~reader[r].raced
      PROVE  Listing = w.got \cup {Detail(q) : q \in w.todo}
  <2>1. /\ p \in reader[r].todo /\ reader[r].row = RowOf(p)
        /\ Listing = reader[r].got \cup {Detail(q) : q \in reader[r].todo}
    BY <1>1, <1>4 DEF CatalogInv, SeesTheRows
  <2>2. Described(reader[r].row) = Detail(p)
    BY <2>1 DEF Detail
  <2> HIDE DEF p
  <2> QED
    BY <2>1, <2>2
<1>5. w.raced = reader[r].raced
  OBVIOUS
<1> HIDE DEF w
<1> QED
  BY <1>1, <1>2, <1>3, <1>4, <1>5, ReaderMoves

LEMMA BreakReaderKeeps ==
  ASSUME CatalogInv, NEW r \in Readers, BreakReader(r)
  PROVE  CatalogInv'
BY ReaderMoves DEF BreakReader, StopReading, NoReader

LEMMA StoreListKeeps ==
  ASSUME CatalogInv, NEW r \in Readers, StoreList(r)
  PROVE  CatalogInv'
<1>1. /\ reader[r].pc = "store" /\ reader' = [reader EXCEPT ![r] = NoReader]
      /\ UNCHANGED <<product, variant, editor>>
  BY DEF StoreList, StopReading
<1>2. CASE UNCHANGED cached
  BY <1>1, <1>2, ReaderMoves DEF NoReader
<1>3. CASE cached' = [list |-> reader[r].got, excused |-> reader[r].raced]
  <2>1. reader[r].todo = {} /\ (Settled /\ ~reader[r].raced => Listing = reader[r].got)
    <3>1. reader[r].todo = {}
      BY <1>1 DEF CatalogInv, SeesTheRows
    <3>2. {Detail(p) : p \in reader[r].todo} = {}
      BY <3>1
    <3>3. Settled /\ ~reader[r].raced =>
            Listing = reader[r].got \cup {Detail(p) : p \in reader[r].todo}
      BY <1>1 DEF CatalogInv, SeesTheRows
    <3> QED
      BY <3>1, <3>2, <3>3
  <2>2. /\ Listing' = Listing /\ (Settled <=> Settled')
        /\ \A p : Detail(p)' = Detail(p) /\ RowOf(p)' = RowOf(p)
    BY <1>1 DEF Listing, OnSale, Detail, Described, RowOf, VariantsOf, Settled
  <2>3. StaleOnlyWhenRaced'
    BY <1>1, <1>3, <2>1, <2>2 DEF StaleOnlyWhenRaced, Settled
  <2>4. /\ reader'[r] = NoReader /\ DOMAIN reader' = Readers
        /\ \A u \in Readers \ {r} : reader'[u] = reader[u]
    BY <1>1 DEF CatalogInv
  <2>5. ASSUME NEW u \in Readers PROVE DOMAIN reader'[u] = DOMAIN NoReader /\ SeesTheRows(u)'
    <3>1. CASE u = r
      BY <2>4, <3>1 DEF SeesTheRows, NoReader
    <3>2. CASE u # r
      BY <2>2, <2>4, <3>2 DEF CatalogInv, SeesTheRows
    <3> QED
      BY <3>1, <3>2
  <2>6. DOMAIN cached' = {"list", "excused"} /\ DOMAIN editor' = Editors
    BY <1>1, <1>3 DEF CatalogInv
  <2> QED
    BY <2>3, <2>4, <2>5, <2>6 DEF CatalogInv
<1> QED
  BY <1>2, <1>3 DEF StoreList

\* The rows and the readers stay, and the list too, unless its time is up.
LEMMA AsideKeeps ==
  ASSUME CatalogInv, UNCHANGED <<product, variant, editor, reader>>,
         UNCHANGED cached \/ cached' = None
  PROVE  CatalogInv'
<1>1. /\ Listing' = Listing /\ (Settled <=> Settled')
      /\ \A p : Detail(p)' = Detail(p) /\ RowOf(p)' = RowOf(p)
  BY DEF Listing, OnSale, Detail, Described, RowOf, VariantsOf, Settled
<1>2. StaleOnlyWhenRaced'
  BY <1>1 DEF CatalogInv, StaleOnlyWhenRaced
<1>3. \A r \in Readers : SeesTheRows(r)'
  BY <1>1 DEF CatalogInv, SeesTheRows
<1> QED
  BY <1>2, <1>3 DEF CatalogInv

\* CatalogInv holds in every state.
THEOREM CatalogInvariant == CatalogSpec => []CatalogInv
<1>1. CatalogInit => CatalogInv
  BY DEF CatalogInit, CatalogInv, SeesTheRows, StaleOnlyWhenRaced, NoReader
<1>2. CatalogInv /\ [CatalogNext]_catalogVars => CatalogInv'
  <2> SUFFICES ASSUME CatalogInv, [CatalogNext]_catalogVars PROVE CatalogInv'
    OBVIOUS
  <2>1. ASSUME NEW e \in Editors, EditStep(e) PROVE CatalogInv'
    <3>1. Invalidate(e) \/ Written(e)
      BY <2>1 DEF EditStep, DeleteProduct, CreateProduct, UpdateProduct, DeleteVariant,
                  UpdateVariant, CreateVariant
    <3> QED
      BY <3>1, InvalidateKeeps, WrittenKeeps
  <2>2. ASSUME NEW v \in VariantIds, EditCartItem(v) PROVE CatalogInv'
    BY <2>2, AsideKeeps DEF EditCartItem
  <2>3. CASE ExpireList
    BY <2>3, AsideKeeps DEF ExpireList
  <2>4. CASE UNCHANGED catalogVars
    BY <2>4, AsideKeeps DEF catalogVars
  <2> QED
    BY <2>1, <2>2, <2>3, <2>4, ReadIdsKeeps, ReadProductKeeps, ReadVariantsKeeps, StoreListKeeps,
       BreakReaderKeeps DEF CatalogNext
<1> QED
  BY <1>1, <1>2, PTL DEF CatalogSpec

\* CachedRepository: a list older than the rows is one of an edit not finished, of a failed
\* invalidation, or of a reader one overtook.
THEOREM AlwaysStaleOnlyWhenRaced == CatalogSpec => []StaleOnlyWhenRaced
<1>1. CatalogInv => StaleOnlyWhenRaced
  BY DEF CatalogInv
<1> QED
  BY <1>1, CatalogInvariant, PTL

\* Readers on their way only pass on; none gets ids that are not products.
LEMMA ReadersFit ==
  ASSUME CatalogTypeOK, CatalogInv, NEW r \in Readers, NEW pc \in {"idle", "read", "variants", "store"},
         NEW todo \in SUBSET ProductIds, NEW got, NEW row, ReaderGoto(r, pc, todo, got, row)
  PROVE  \A a \in Readers : reader'[a].pc \in {"idle", "read", "variants", "store"} /\ reader'[a].todo \subseteq ProductIds
<1>1. reader' = [reader EXCEPT ![r] = [pc |-> pc, todo |-> todo, got |-> got, row |-> row, raced |-> reader[r].raced]]
  BY DEF ReaderGoto, CatalogInv
<1> QED
  BY <1>1 DEF CatalogTypeOK, CatalogInv

LEMMA ReadersStop ==
  ASSUME CatalogTypeOK, CatalogInv, NEW r \in Readers, StopReading(r)
  PROVE  \A a \in Readers : reader'[a].pc \in {"idle", "read", "variants", "store"} /\ reader'[a].todo \subseteq ProductIds
BY DEF StopReading, NoReader, CatalogTypeOK, CatalogInv

\* Products, variants and carts fit each other after every write.
LEMMA EditFits ==
  ASSUME CatalogTypeOK, CatalogInv, NEW e \in Editors, EditStep(e)
  PROVE  CatalogTypeOK'
<1> USE CatalogAssumption, NoneIsNoVariant
<1>1. CASE Invalidate(e)
  <2>1. \A a \in Readers : reader'[a].pc = reader[a].pc /\ reader'[a].todo = reader[a].todo
    <3>1. \A a \in Readers : DOMAIN reader[a] = {"pc", "todo", "got", "row", "raced"}
      BY DEF CatalogInv, NoReader
    <3> QED
      BY <1>1, <3>1 DEF Invalidate, PassReaders
  <2>2. editor' \in [Editors -> {"idle", "invalidate"}]
    BY <1>1 DEF Invalidate, CatalogTypeOK
  <2> QED
    BY <1>1, <2>1, <2>2 DEF Invalidate, CatalogTypeOK, OnSale
<1>2. ASSUME Written(e)
      PROVE  /\ editor' \in [Editors -> {"idle", "invalidate"}] /\ UNCHANGED <<carted, reader>>
             /\ \A r \in Readers : reader'[r].pc \in {"idle", "read", "variants", "store"} /\ reader'[r].todo \subseteq ProductIds
  BY <1>2 DEF Written, CatalogTypeOK
<1>3. ASSUME NEW v \in VariantIds, variant[v] = None PROVE v \notin carted
  BY <1>3 DEF CatalogTypeOK
<1>4. ASSUME NEW p \in ProductIds, NEW c \in Contents, CreateProduct(e, p, c)
      PROVE  CatalogTypeOK'
  <2> DEFINE v == DefaultVariant[p]
             row == [of |-> p, content |-> c]
  <2>1. /\ v \in VariantIds /\ row \in VariantRow /\ row # None /\ row.of = p /\ c # None
        /\ product' = [product EXCEPT ![p] = c] /\ variant' = [variant EXCEPT ![v] = row]
        /\ product[p] = None /\ variant[v] = None /\ Written(e)
    BY <1>4 DEF CreateProduct, VariantRow
  <2> HIDE DEF v, row
  <2>2. OnSale' = OnSale \cup {p}
    BY <2>1 DEF CatalogTypeOK, OnSale
  <2>3. v \notin carted
    BY <1>3, <2>1
  <2>4. \A a \in VariantIds : variant'[a] = IF a = v THEN row ELSE variant[a]
    BY <2>1 DEF CatalogTypeOK
  <2>5. /\ product' \in [ProductIds -> Contents \cup {None}]
        /\ variant' \in [VariantIds -> VariantRow \cup {None}]
    BY <2>1 DEF CatalogTypeOK
  <2>6. \A a \in VariantIds : variant'[a] # None => variant'[a].of \in OnSale'
    BY <2>1, <2>2, <2>4 DEF CatalogTypeOK
  <2>7. \A a \in carted' : variant'[a] # None
    BY <1>2, <2>1, <2>4 DEF CatalogTypeOK
  <2> QED
    BY <1>2, <2>1, <2>5, <2>6, <2>7 DEF CatalogTypeOK
<1>5. ASSUME NEW p \in ProductIds, NEW c \in Contents, UpdateProduct(e, p, c)
      PROVE  CatalogTypeOK'
  <2>1. /\ product' = [product EXCEPT ![p] = c] /\ variant' = variant /\ c # None
        /\ product[p] # None /\ Written(e)
    BY <1>5 DEF UpdateProduct
  <2>2. OnSale' = OnSale
    BY <2>1 DEF CatalogTypeOK, OnSale
  <2> QED
    BY <1>2, <2>1, <2>2 DEF CatalogTypeOK
<1>6. ASSUME NEW p \in ProductIds, DeleteProduct(e, p)
      PROVE  CatalogTypeOK'
  <2>1. /\ product' = [product EXCEPT ![p] = None] /\ Written(e) /\ VariantsOf(p) \cap carted = {}
        /\ variant' = [v \in VariantIds |-> IF v \in VariantsOf(p) THEN None ELSE variant[v]]
    BY <1>6 DEF DeleteProduct
  <2>2. OnSale' = OnSale \ {p}
    BY <2>1 DEF CatalogTypeOK, OnSale
  <2>3. \A a \in VariantIds : variant'[a] # None => variant'[a] = variant[a] /\ variant[a].of # p
    BY <2>1 DEF VariantsOf
  <2>4. \A a \in carted' : variant'[a] # None
    BY <1>2, <2>1 DEF CatalogTypeOK
  <2>5. variant' \in [VariantIds -> VariantRow \cup {None}]
    BY <2>1 DEF CatalogTypeOK
  <2> QED
    BY <1>2, <2>1, <2>2, <2>3, <2>4, <2>5 DEF CatalogTypeOK
<1>7. ASSUME NEW v \in VariantIds, NEW p \in ProductIds, NEW c \in Contents, CreateVariant(e, v, p, c)
      PROVE  CatalogTypeOK'
  <2> DEFINE row == [of |-> p, content |-> c]
  <2>1. /\ row \in VariantRow /\ row # None /\ row.of = p /\ p \in OnSale
        /\ product' = product /\ variant' = [variant EXCEPT ![v] = row] /\ Written(e)
    BY <1>7 DEF CreateVariant, VariantRow, OnSale
  <2> HIDE DEF row
  <2>2. \A a \in VariantIds : variant'[a] = IF a = v THEN row ELSE variant[a]
    BY <2>1 DEF CatalogTypeOK
  <2>3. variant' \in [VariantIds -> VariantRow \cup {None}] /\ OnSale' = OnSale
    BY <2>1 DEF CatalogTypeOK, OnSale
  <2> QED
    BY <1>2, <2>1, <2>2, <2>3 DEF CatalogTypeOK
<1>8. ASSUME NEW v \in VariantIds, NEW c \in Contents, UpdateVariant(e, v, c)
      PROVE  CatalogTypeOK'
  <2> DEFINE row == [of |-> variant[v].of, content |-> c]
  <2>1. /\ variant[v] # None /\ variant[v] \in VariantRow
        /\ product' = product /\ variant' = [variant EXCEPT ![v] = row] /\ Written(e)
    BY <1>8 DEF UpdateVariant, CatalogTypeOK
  <2>2. row \in VariantRow /\ row # None /\ row.of = variant[v].of
    BY <2>1 DEF VariantRow
  <2> HIDE DEF row
  <2>3. \A a \in VariantIds : variant'[a] = IF a = v THEN row ELSE variant[a]
    BY <2>1 DEF CatalogTypeOK
  <2>4. variant' \in [VariantIds -> VariantRow \cup {None}] /\ OnSale' = OnSale
    BY <2>1, <2>2 DEF CatalogTypeOK, OnSale
  <2> QED
    BY <1>2, <2>1, <2>2, <2>3, <2>4 DEF CatalogTypeOK
<1>9. ASSUME NEW v \in VariantIds, DeleteVariant(e, v)
      PROVE  CatalogTypeOK'
  <2>1. /\ v \notin carted /\ product' = product /\ variant' = [variant EXCEPT ![v] = None] /\ Written(e)
    BY <1>9 DEF DeleteVariant
  <2>2. \A a \in VariantIds : variant'[a] = IF a = v THEN None ELSE variant[a]
    BY <2>1 DEF CatalogTypeOK
  <2>3. variant' \in [VariantIds -> VariantRow \cup {None}] /\ OnSale' = OnSale
    BY <2>1 DEF CatalogTypeOK, OnSale
  <2> QED
    BY <1>2, <2>1, <2>2, <2>3 DEF CatalogTypeOK
<1> QED
  BY <1>1, <1>4, <1>5, <1>6, <1>7, <1>8, <1>9 DEF EditStep

\* Products, their variants and what carts hold of them fit each other: no variant is
\* without its product and nothing in a cart without its row.
THEOREM CatalogTypes == CatalogSpec => []CatalogTypeOK
<1>1. CatalogInit => CatalogTypeOK
  BY DEF CatalogInit, CatalogTypeOK, NoReader
<1>2. CatalogTypeOK /\ CatalogInv /\ [CatalogNext]_catalogVars => CatalogTypeOK'
  <2> SUFFICES ASSUME CatalogTypeOK, CatalogInv, [CatalogNext]_catalogVars PROVE CatalogTypeOK'
    OBVIOUS
  <2>1. ASSUME NEW v \in VariantIds, EditCartItem(v) PROVE CatalogTypeOK'
    BY <2>1 DEF EditCartItem, CatalogTypeOK, OnSale
  <2>2. ASSUME UNCHANGED <<product, variant, carted, editor>>,
               \A r \in Readers : reader'[r].pc \in {"idle", "read", "variants", "store"} /\ reader'[r].todo \subseteq ProductIds
        PROVE  CatalogTypeOK'
    BY <2>2 DEF CatalogTypeOK, OnSale
  <2>3. ASSUME NEW r \in Readers, ReadIds(r) PROVE CatalogTypeOK'
    <3>1. OnSale \in SUBSET ProductIds
      BY DEF OnSale
    <3>2. UNCHANGED <<product, variant, carted, editor>>
      BY <2>3 DEF ReadIds
    <3>3. \/ ReaderGoto(r, "store", OnSale, {}, None) \/ ReaderGoto(r, "read", OnSale, {}, None)
      BY <2>3 DEF ReadIds
    <3> QED
      BY <2>2, <3>1, <3>2, <3>3, ReadersFit
  <2>4. ASSUME NEW r \in Readers, ReadProduct(r) PROVE CatalogTypeOK'
    <3>1. UNCHANGED <<product, variant, carted, editor>>
      BY <2>4 DEF ReadProduct
    <3>2. PICK p \in reader[r].todo :
            StopReading(r) \/ ReaderGoto(r, "variants", reader[r].todo, reader[r].got, RowOf(p))
      BY <2>4 DEF ReadProduct
    <3>3. reader[r].todo \in SUBSET ProductIds
      BY DEF CatalogTypeOK
    <3> QED
      BY <2>2, <3>1, <3>2, <3>3, ReadersFit, ReadersStop
  <2>5. ASSUME NEW r \in Readers, StoreList(r) \/ BreakReader(r) PROVE CatalogTypeOK'
    BY <2>2, <2>5, ReadersStop DEF StoreList, BreakReader
  <2>8. ASSUME NEW r \in Readers, ReadVariants(r) PROVE CatalogTypeOK'
    <3> DEFINE todo == reader[r].todo \ {reader[r].row.id}
               got == reader[r].got \cup {Described(reader[r].row)}
    <3>1. UNCHANGED <<product, variant, carted, editor>>
      BY <2>8 DEF ReadVariants
    <3>2. todo \in SUBSET ProductIds
      BY DEF CatalogTypeOK
    <3>3. ReaderGoto(r, "store", todo, got, None) \/ ReaderGoto(r, "read", todo, got, None)
      BY <2>8 DEF ReadVariants
    <3> HIDE DEF todo, got
    <3> QED
      BY <2>2, <3>1, <3>2, <3>3, ReadersFit
  <2>6. CASE ExpireList
    BY <2>6 DEF ExpireList, CatalogTypeOK, OnSale
  <2>7. CASE UNCHANGED catalogVars
    BY <2>7 DEF catalogVars, CatalogTypeOK, OnSale
  <2> QED
    BY <2>1, <2>3, <2>4, <2>5, <2>6, <2>7, <2>8, EditFits DEF CatalogNext
<1> QED
  BY <1>1, <1>2, CatalogInvariant, PTL DEF CatalogSpec

------------------------------------------------------------------------------
\* All of them.

\* A step of the office is a step of one service while the others stand still.
LEMMA OfficeSteps ==
  ASSUME [OfficeNext]_officeVars
  PROVE  /\ [EventNext]_eventVars /\ [AuditNext]_auditVars /\ [AccountNext]_accountVars
         /\ [LockoutNext]_lockoutVars /\ [LimiterNext]_limiterVars /\ [GuardNext]_guardVars
         /\ [GrowthNext]_growthVars /\ [CampaignNext]_campaignVars /\ [CatalogNext]_catalogVars
         /\ [ReviewNext]_reviewVars /\ [TurnNext]_turnVars
BY DEF OfficeNext, OthersStill, Still, officeVars

\* Whichever service a behaviour is about, all its variables have the values its
\* statements and structures allow them.
THEOREM OfficeTypes == OfficeSpec => []OfficeTypeOK
<1>1. OfficeInit => /\ EventInit /\ AuditInit /\ AccountInit /\ LockoutInit /\ LimiterInit /\ GuardInit
                    /\ GrowthInit /\ CampaignInit /\ CatalogInit /\ ReviewInit /\ TurnInit
  BY DEF OfficeInit
<1>2. OfficeInit => part \in Parts
  BY DEF OfficeInit
<1>3. part \in Parts /\ [OfficeNext]_officeVars => (part \in Parts)'
  BY DEF OfficeNext, OthersStill, officeVars
<1>4. [OfficeNext]_officeVars => /\ [EventNext]_eventVars /\ [AuditNext]_auditVars /\ [AccountNext]_accountVars
                                 /\ [LockoutNext]_lockoutVars /\ [LimiterNext]_limiterVars
                                 /\ [GuardNext]_guardVars /\ [GrowthNext]_growthVars
                                 /\ [CampaignNext]_campaignVars /\ [CatalogNext]_catalogVars
                                 /\ [ReviewNext]_reviewVars /\ [TurnNext]_turnVars
  BY OfficeSteps
<1>5. /\ EventInv => EventTypeOK
      /\ AuditInv => AuditTypeOK
      /\ AccountInv => AccountTypeOK
      /\ LockoutInv => LockoutTypeOK
      /\ LimiterInv => LimiterTypeOK
      /\ GuardInv => GuardTypeOK
      /\ CapInv => GrowthTypeOK
      /\ CampaignInv => CampaignTypeOK
      /\ ReviewInv => ReviewTypeOK
      /\ TurnInv => TurnTypeOK
  BY DEF EventInv, AuditInv, AccountInv, LockoutInv, LimiterInv, GuardInv, CapInv, CampaignInv,
         ReviewInv, TurnInv
<1>6. ASSUME part \in Parts, EventTypeOK, AuditTypeOK, AccountTypeOK, LockoutTypeOK, LimiterTypeOK,
             GuardTypeOK, GrowthTypeOK, CampaignTypeOK, CatalogTypeOK, ReviewTypeOK, TurnTypeOK
      PROVE  OfficeTypeOK
  BY <1>6 DEF Parts, OfficeTypeOK
<1> QED
  BY <1>1, <1>2, <1>3, <1>4, <1>5, <1>6, EventInvariant, AuditInvariant, AccountInvariant,
     LockoutInvariant, LimiterInvariant, GuardInvariant, CapInvariant, CampaignInvariant,
     CatalogTypes, ReviewInvariant, TurnInvariant, PTL
     DEF OfficeSpec, AuditSpec, AccountSpec, LockoutSpec, LimiterSpec, GuardSpec, GrowthSpec,
         CampaignSpec, CatalogSpec, ReviewSpec, TurnSpec
==============================================================================
