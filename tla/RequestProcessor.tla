-------------------------- MODULE RequestProcessor --------------------------
(***************************************************************************)
(* The request processor: one goroutine (requestProcessor.Serve) that      *)
(* takes requests off requestChannel and runs the queue and topic code.    *)
(* Taking a request and updating queues, topics and storage is one step;   *)
(* each blocking send on a connection's channel is a step of its own, and  *)
(* the next request is taken when the last of them has been done.          *)
(***************************************************************************)
EXTENDS ServerState

\* The step shared by all requests: take r, which is first in the channel.
Take(r) ==
    /\ ~crashed
    /\ procOut = <<>>
    /\ reqCh /= <<>>
    /\ r = Head(reqCh)
    /\ reqCh' = Tail(reqCh)

\* Subscription.SendQueueFrame up to its channel send: allocate the frame.
\* setSubscriptionHeader panics when s has a frame already.  (A panic ends the
\* process, so what a panicking step does to other variables is of no interest.)
SendQueueFrame(s, m) ==
    /\ crashed' = (frame[s] /= nil)
    /\ frame' = [frame EXCEPT ![s] = m]
    /\ procOut' = <<[sub |-> s, frame |-> m]>>
    /\ subAt' = [subAt EXCEPT ![s] = "sending"]
    /\ msgAt' = [msgAt EXCEPT ![m] = HeldBy("sub", s)]

-----------------------------------------------------------------------------
(* Queues *)

\* MemoryQueueStorage.Dequeue: the first frame stored for q, or nil.
DequeueNothing(q) == nil                                \* faulty variant
Dequeue(q) == IF store[q] = <<>> THEN nil ELSE Head(store[q])

AfterDequeueKept(list) == list                          \* faulty variant
AfterDequeue(list) == Tail(list)

\* MemoryQueueStorage.Requeue and Enqueue: the two ends of the stored list.
PushFrontAtEnd(list, m) == Append(list, m)              \* faulty variant
PushFront(list, m) == <<m>> \o list
PushBack(list, m)  == Append(list, m)

\* Queue.Subscribe: hand the first stored frame to s ...
SubscribeServed(q, s, m) ==
    /\ Take(SubRequest("Subscribe", s))
    /\ SubDest[s] = q
    /\ m = Dequeue(q)
    /\ store' = [store EXCEPT ![q] = AfterDequeue(@)]
    /\ SendQueueFrame(s, m)
    /\ UNCHANGED <<qsubs, tsubs, connVars, subCh, writeCh, listed, msgIdHdr>>

\* ... or add s to the list, which panics when s is in a list already.
SubscribeWaits(q, s) ==
    /\ Take(SubRequest("Subscribe", s))
    /\ SubDest[s] = q
    /\ Dequeue(q) = nil
    /\ crashed' = listed[s]
    /\ qsubs' = [qsubs EXCEPT ![q] = Append(@, s)]
    /\ listed' = [listed EXCEPT ![s] = TRUE]
    /\ subAt' = [subAt EXCEPT ![s] = "ready"]
    /\ UNCHANGED <<store, tsubs, procOut, connVars, subCh, writeCh, frame,
                   msgIdHdr, msgAt>>

QueueSubscribe(q, s) ==
    (\E m \in Msg : SubscribeServed(q, s, m)) \/ SubscribeWaits(q, s)

\* Queue.Unsubscribe: element i of the list is s.
QueueUnsubscribe(q, s, i) ==
    /\ Take(SubRequest("Unsubscribe", s))
    /\ SubDest[s] = q
    /\ FirstAt(qsubs[q], s, i)
    /\ qsubs' = [qsubs EXCEPT ![q] = AfterRemove(@, i)]
    /\ Unlist(s)
    /\ subAt' = [subAt EXCEPT ![s] = "gone"]
    /\ UNCHANGED <<store, tsubs, procOut, connVars, subCh, writeCh, frame,
                   msgIdHdr, msgAt, crashed>>

\* Queue.Enqueue and Requeue: hand m to the first subscription in the list ...
GiveToReady(op, q, s, m) ==
    /\ Take(FrameRequest(op, m))
    /\ MsgDest[m] = q
    /\ qsubs[q] /= <<>>
    /\ s = Head(qsubs[q])
    /\ qsubs' = [qsubs EXCEPT ![q] = AfterGet(@)]
    /\ Unlist(s)
    /\ SendQueueFrame(s, m)
    /\ UNCHANGED <<store, tsubs, connVars, subCh, writeCh, msgIdHdr>>

\* ... or, when there is none, keep it as the storage does: stored.
Keep(op, q, m, stored) ==
    /\ Take(FrameRequest(op, m))
    /\ MsgDest[m] = q
    /\ qsubs[q] = <<>>
    /\ store' = [store EXCEPT ![q] = stored]
    /\ msgAt' = [msgAt EXCEPT ![m] = At("store")]
    /\ UNCHANGED <<qsubs, tsubs, procOut, connVars, subCh, writeCh, frame, listed,
                   msgIdHdr, subAt, crashed>>

QueueEnqueue(q, m) ==
    \/ Keep("Enqueue", q, m, PushBack(store[q], m))
    \/ \E s \in Sub : GiveToReady("Enqueue", q, s, m)

QueueRequeue(q, m) ==
    \/ Keep("Requeue", q, m, PushFront(store[q], m))
    \/ \E s \in Sub : GiveToReady("Requeue", q, s, m)

-----------------------------------------------------------------------------
(* Topics *)

TopicSubscribe(t, s) ==
    /\ Take(SubRequest("Subscribe", s))
    /\ SubDest[s] = t
    /\ tsubs' = [tsubs EXCEPT ![t] = Append(@, s)]
    /\ subAt' = [subAt EXCEPT ![s] = "topic"]
    /\ UNCHANGED <<store, qsubs, procOut, connVars, subCh, writeCh, frame,
                   listed, msgIdHdr, msgAt, crashed>>

\* Topic.Unsubscribe: element i of the list is s.
TopicUnsubscribe(t, s, i) ==
    /\ Take(SubRequest("Unsubscribe", s))
    /\ SubDest[s] = t
    /\ FirstAt(tsubs[t], s, i)
    /\ tsubs' = [tsubs EXCEPT ![t] = AfterRemove(@, i)]
    /\ subAt' = [subAt EXCEPT ![s] = "gone"]
    /\ UNCHANGED <<store, qsubs, procOut, connVars, subCh, writeCh, frame,
                   listed, msgIdHdr, msgAt, crashed>>

\* A copy of m for every subscription of t, in the order of the list.
BroadcastButLast(t, m) ==                               \* faulty variant
    [i \in 1..(Len(tsubs[t]) - 1) |-> [sub |-> tsubs[t][i], frame |-> m]]
Broadcast(t, m) ==
    [i \in DOMAIN tsubs[t] |-> [sub |-> tsubs[t][i], frame |-> m]]

\* Topic.Enqueue; setSubscriptionHeader panics as for queues.
TopicEnqueue(t, m) ==
    /\ Take(FrameRequest("Enqueue", m))
    /\ MsgDest[m] = t
    /\ crashed' = (\E i \in DOMAIN tsubs[t] : frame[tsubs[t][i]] /= nil)
    /\ procOut' = Broadcast(t, m)
    /\ msgAt' = [msgAt EXCEPT ![m] = At("topic")]
    /\ UNCHANGED <<store, qsubs, tsubs, connVars, subCh, writeCh, frame,
                   listed, msgIdHdr, subAt>>

-----------------------------------------------------------------------------
(* Requests without effect, and the sends on the connections' channels *)

\* An unsubscribe of a subscription that is not in the list of its destination.
UnsubscribeAbsent(s) ==
    /\ Take(SubRequest("Unsubscribe", s))
    /\ \A q \in Queue : q = SubDest[s] => Absent(qsubs[q], s)
    /\ \A t \in Topic : t = SubDest[s] => Absent(tsubs[t], s)
    /\ UNCHANGED <<procVars, connVars, subCh, writeCh, objVars, crashed>>

\* ConnectedOp, DisconnectedOp and a requeue to a topic have no effect.
IgnoreRequest ==
    /\ Take(Head(reqCh))
    /\ LET r == Head(reqCh) IN
         \/ r.op \in {"Connected", "Disconnected"}
         \/ r.op = "Requeue" /\ MsgDest[r.frame] \in Topic
    /\ UNCHANGED <<procVars, connVars, subCh, writeCh, objVars, crashed>>

\* A SEND frame without a destination header: the processor panics.
MissingDestination(m) ==
    /\ Take(FrameRequest("Enqueue", m))
    /\ MsgDest[m] = nil
    /\ crashed' = TRUE
    /\ UNCHANGED <<procVars, connVars, subCh, writeCh, objVars>>

\* The processor's next channel send, which blocks while the channel is full:
\* the end of SendQueueFrame and of SendTopicFrame for subscription s of c.
NextDelivery(c, s) ==
    /\ ~crashed
    /\ procOut /= <<>>
    /\ s = Head(procOut).sub
    /\ SubConn[s] = c
    /\ procOut' = Tail(procOut)

SendOnSubChannel(c, s) ==
    /\ NextDelivery(c, s)
    /\ SubDest[s] \in Queue
    /\ HasRoom(subCh[c])
    /\ subCh' = [subCh EXCEPT ![c] = Append(@, s)]
    /\ subAt' = [subAt EXCEPT ![s] = "subCh"]
    /\ UNCHANGED <<reqCh, store, qsubs, tsubs, connVars, writeCh, frame, listed,
                   msgIdHdr, msgAt, crashed>>

SendOnWriteChannel(c, s) ==
    /\ NextDelivery(c, s)
    /\ SubDest[s] \in Topic
    /\ HasRoom(writeCh[c])
    /\ writeCh' = [writeCh EXCEPT ![c] = Append(@, Head(procOut).frame)]
    /\ UNCHANGED <<reqCh, store, qsubs, tsubs, connVars, subCh, objVars, crashed>>

Serve ==
    \/ \E q \in Queue, s \in Sub :
          \/ QueueSubscribe(q, s)
          \/ \E i \in DOMAIN qsubs[q] : QueueUnsubscribe(q, s, i)
    \/ \E q \in Queue, m \in Msg : QueueEnqueue(q, m) \/ QueueRequeue(q, m)
    \/ \E t \in Topic, s \in Sub :
          \/ TopicSubscribe(t, s)
          \/ \E i \in DOMAIN tsubs[t] : TopicUnsubscribe(t, s, i)
    \/ \E t \in Topic, m \in Msg : TopicEnqueue(t, m)
    \/ \E s \in Sub : UnsubscribeAbsent(s)
    \/ \E m \in Msg : MissingDestination(m)
    \/ IgnoreRequest
    \/ \E c \in Conn, s \in Sub : SendOnSubChannel(c, s) \/ SendOnWriteChannel(c, s)

=============================================================================
