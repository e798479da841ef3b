----------------------------- MODULE ServerConn -----------------------------
(***************************************************************************)
(* A connection of the server: the processLoop goroutine of                *)
(* server/client/conn.go, with its frame handlers, its transaction store   *)
(* and its cleanup.  The loop selects one ready event (a frame from the    *)
(* client, a topic frame, a subscription with a queue frame, a broken      *)
(* socket) and runs its handler to the end.  A handler's blocking sends on *)
(* requestChannel are queued in out and done one at a time by SendRequest; *)
(* the next event is selected when none is left.                           *)
(*                                                                         *)
(* readLoop and readChannel are abstracted to the choice of the next frame *)
(* when the loop is ready for it.  RECEIPT and ERROR frames go straight to *)
(* the socket and change no state of the server; a failed write of one     *)
(* ends the loop as any other socket failure does.                         *)
(***************************************************************************)
EXTENDS ServerState

\* The cleanup steps of cleanupConn in their order, after txStore.Init.
NextPhase ==
    [discard1 |-> "unsub",   unsub    |-> "requeue", requeue |-> "discard2",
     discard2 |-> "drain1",  drain1   |-> "goodbye", goodbye |-> "discard3",
     discard3 |-> "drain2",  drain2   |-> "closed"]

CleanupPhases == DOMAIN NextPhase
Phases == {"none", "connecting", "connected", "closed"} \cup CleanupPhases

\* The goroutine of c is not in the middle of a handler.
ReadyAtAnyFrame(c) == ~crashed /\ out[c] = <<>>          \* faulty variant
ReadyWhileSending(c) == ~crashed /\ work[c] = <<>>       \* faulty variant
Ready(c) == ~crashed /\ out[c] = <<>> /\ work[c] = <<>>
Selecting(c) == Ready(c) /\ phase[c] = "connected"

\* Leave the loop: cleanupConn starts by dropping the open transactions.
Exit(c) ==
    /\ phase' = [phase EXCEPT ![c] = "discard1"]
    /\ tx' = [t \in Tx |-> IF TxConn[t] = c THEN nil ELSE tx[t]]
    /\ msgAt' = [m \in Msg |->
                    IF msgAt[m].by = "tx" /\ TxConn[msgAt[m].who] = c
                    THEN At("discarded") ELSE msgAt[m]]

\* The frame of s has been delivered or requeued: s.frame = nil.
Release(s) == frame' = [frame EXCEPT ![s] = nil]

\* The request that gives the frame of s back to its queue.
ReturnNothing(s) == FrameRequest("Requeue", nil)        \* faulty variant
Return(s) == FrameRequest("Requeue", frame[s])

\* What no action of a connection changes; and what only few of them change.
Elsewhere == UNCHANGED <<procVars, crashed>>
Channels  == UNCHANGED <<reqCh, subCh, writeCh>>

\* A handler returned an error: ERROR is written and the loop is left.
Reject(c) ==
    /\ c \in Flaky
    /\ Exit(c)
    /\ Elsewhere /\ Channels
    /\ UNCHANGED <<subs, subList, out, work, lastMsgId, seen, farewell,
                   frame, listed, subAt, msgIdHdr>>

-----------------------------------------------------------------------------
(* Opening and breaking *)

\* Listen accepts a connection and NewConn starts its goroutines.
Accept(c) ==
    /\ ~crashed
    /\ phase[c] = "none"
    /\ phase' = [phase EXCEPT ![c] = "connecting"]
    /\ Elsewhere /\ Channels
    /\ UNCHANGED <<subs, subList, out, work, lastMsgId, tx, seen, farewell,
                   objVars>>

HandleConnect(c) ==
    /\ Ready(c)
    /\ phase[c] = "connecting"
    /\ phase' = [phase EXCEPT ![c] = "connected"]
    /\ out' = [out EXCEPT ![c] = <<ConnRequest("Connected", c)>>]
    /\ Elsewhere /\ Channels
    /\ UNCHANGED <<subs, subList, work, lastMsgId, tx, seen, farewell, objVars>>

\* CONNECT is refused (credentials, version, heart-beat, receipt), another
\* frame comes first, or the read channel is closed.
RefuseConnect(c) == Ready(c) /\ phase[c] = "connecting" /\ Reject(c)

\* The read channel is closed, a heart-beat or RECEIPT cannot be written, or
\* a frame is unexpected or lacks a header.
Broken(c) == Selecting(c) /\ Reject(c)

\* DISCONNECT is answered with a RECEIPT; the loop goes on.
HandleDisconnect(c) ==
    /\ Selecting(c)
    /\ c \in Polite
    /\ farewell' = farewell \cup {c}
    /\ Elsewhere /\ Channels
    /\ UNCHANGED <<phase, subs, subList, out, work, lastMsgId, tx, seen,
                   objVars>>

-----------------------------------------------------------------------------
(* Subscriptions *)

\* c.subs[id] for the id header of s.
Lookup(c, id) == {s \in subs[c] : SubIdOf[s] = id}

\* The id is in use.
RefuseSubscribe(c, s) ==
    /\ Selecting(c)
    /\ SubConn[s] = c
    /\ subAt[s] = "none"
    /\ Lookup(c, SubIdOf[s]) /= {}
    /\ Reject(c)

HandleSubscribe(c, s) ==
    /\ Selecting(c)
    /\ SubConn[s] = c
    /\ subAt[s] = "none"
    /\ Lookup(c, SubIdOf[s]) = {}
    /\ subs' = [subs EXCEPT ![c] = @ \cup {s}]
    /\ out' = [out EXCEPT ![c] = <<SubRequest("Subscribe", s)>>]
    /\ subAt' = [subAt EXCEPT ![s] = "out"]
    /\ Elsewhere /\ Channels
    /\ UNCHANGED <<phase, subList, work, lastMsgId, tx, seen, farewell, frame,
                   listed, msgIdHdr, msgAt>>

\* (UNSUBSCRIBE of an id that is not in use is one of the faults of Broken.)
HandleUnsubscribe(c, s) ==
    /\ Selecting(c)
    /\ SubConn[s] = c
    /\ s \in Leavers
    /\ s \in Lookup(c, SubIdOf[s])
    /\ subs' = [subs EXCEPT ![c] = @ \ {s}]
    /\ out' = [out EXCEPT ![c] = <<SubRequest("Unsubscribe", s)>>]
    /\ Elsewhere /\ Channels
    /\ UNCHANGED <<phase, subList, work, lastMsgId, tx, seen, farewell,
                   objVars>>

-----------------------------------------------------------------------------
(* SEND and transactions *)

\* txStore.Add: f goes to the end of transaction t.
AddToTx(t, f) ==
    /\ tx[t] /= nil
    /\ Len(tx[t]) < TxCap
    /\ tx' = [tx EXCEPT ![t] = Append(@, f)]

\* The next SEND frame of c's client is m.
NextSend(c, m) ==
    /\ MsgConn[m] = c
    /\ msgAt[m] = At("client")
    /\ \A n \in Msg : MsgConn[n] = c /\ n < m => msgAt[n] /= At("client")

HandleSend(c, m) ==
    /\ Selecting(c)
    /\ NextSend(c, m)
    /\ out' = [out EXCEPT ![c] = <<FrameRequest("Enqueue", m)>>]
    /\ msgAt' = [msgAt EXCEPT ![m] = HeldBy("out", c)]
    /\ Elsewhere /\ Channels
    /\ UNCHANGED <<phase, subs, subList, work, lastMsgId, tx, seen, farewell,
                   frame, listed, msgIdHdr, subAt>>

HandleSendInTx(c, m, t) ==
    /\ Selecting(c)
    /\ NextSend(c, m)
    /\ TxConn[t] = c
    /\ AddToTx(t, SendFrame(m))
    /\ msgAt' = [msgAt EXCEPT ![m] = HeldBy("tx", t)]
    /\ Elsewhere /\ Channels
    /\ UNCHANGED <<phase, subs, subList, out, work, lastMsgId, seen, farewell,
                   frame, listed, msgIdHdr, subAt>>

HandleBegin(c, t) ==
    /\ Selecting(c)
    /\ TxConn[t] = c
    /\ tx[t] = nil
    /\ tx' = [tx EXCEPT ![t] = <<>>]
    /\ Elsewhere /\ Channels
    /\ UNCHANGED <<phase, subs, subList, out, work, lastMsgId, seen, farewell,
                   objVars>>

\* BEGIN of a transaction in progress.
RefuseBegin(c, t) == Selecting(c) /\ TxConn[t] = c /\ tx[t] /= nil /\ Reject(c)

\* SEND, ACK, NACK, COMMIT or ABORT in an unknown transaction.
RefuseTx(c, t) == Selecting(c) /\ TxConn[t] = c /\ tx[t] = nil /\ Reject(c)

HandleAbort(c, t) ==
    /\ Selecting(c)
    /\ TxConn[t] = c
    /\ tx[t] /= nil
    /\ tx' = [tx EXCEPT ![t] = nil]
    /\ msgAt' = [m \in Msg |-> IF msgAt[m] = HeldBy("tx", t)
                               THEN At("discarded") ELSE msgAt[m]]
    /\ Elsewhere /\ Channels
    /\ UNCHANGED <<phase, subs, subList, out, work, lastMsgId, seen, farewell,
                   frame, listed, msgIdHdr, subAt>>

\* COMMIT: the frames of t are executed in order by the steps below.
HandleCommit(c, t) ==
    /\ Selecting(c)
    /\ TxConn[t] = c
    /\ tx[t] /= nil
    /\ work' = [work EXCEPT ![c] = tx[t]]
    /\ tx' = [tx EXCEPT ![t] = nil]
    /\ msgAt' = [m \in Msg |-> IF msgAt[m] = HeldBy("tx", t)
                               THEN HeldBy("work", c) ELSE msgAt[m]]
    /\ Elsewhere /\ Channels
    /\ UNCHANGED <<phase, subs, subList, out, lastMsgId, seen, farewell, frame,
                   listed, msgIdHdr, subAt>>

\* A committed SEND frame.
CommitSend(c) ==
    /\ ~crashed
    /\ out[c] = <<>>
    /\ work[c] /= <<>>
    /\ LET f == Head(work[c]) IN
         /\ f.cmd = "SEND"
         /\ out' = [out EXCEPT ![c] = <<FrameRequest("Enqueue", f.msg)>>]
         /\ msgAt' = [msgAt EXCEPT ![f.msg] = HeldBy("out", c)]
    /\ work' = [work EXCEPT ![c] = Tail(@)]
    /\ Elsewhere /\ Channels
    /\ UNCHANGED <<phase, subs, subList, lastMsgId, tx, seen, farewell,
                   frame, listed, msgIdHdr, subAt>>

-----------------------------------------------------------------------------
(* Acknowledgements *)

HandleAck(c, cmd, id) ==
    /\ Selecting(c)
    /\ work' = [work EXCEPT ![c] = <<AckFrame(cmd, id)>>]
    /\ Elsewhere /\ Channels
    /\ UNCHANGED <<phase, subs, subList, out, lastMsgId, tx, seen, farewell,
                   objVars>>

HandleAckInTx(c, cmd, id, t) ==
    /\ Selecting(c)
    /\ TxConn[t] = c
    /\ AddToTx(t, AckFrame(cmd, id))
    /\ Elsewhere /\ Channels
    /\ UNCHANGED <<phase, subs, subList, out, work, lastMsgId, seen, farewell,
                   objVars>>

\* The search of the ACK or NACK frame f stops at s, for a match or a panic.
Matches(f, s) == IF f.cmd = "ACK" THEN IsAckedBy(s, f.id) ELSE IsNackedBy(s, f.id)
Panics(f, s)  == f.cmd = "ACK" /\ SubAck[s] = "other"
Stops(f, s)   == Matches(f, s) \/ Panics(f, s)

\* Index i of c.subList is the next one at which the search stops.
NextStop(c, f, i) ==
    /\ i \in DOMAIN subList[c]
    /\ Stops(f, subList[c][i])
    /\ \A j \in 1..(i - 1) : ~Stops(f, subList[c][j])

\* One iteration of SubscriptionList.Ack or Nack for element i of the list:
\* the subscription leaves the list and its subList field is not reset.
MatchOne(c, cmd, i) ==
    /\ ~crashed
    /\ out[c] = <<>>
    /\ work[c] /= <<>>
    /\ Head(work[c]).cmd = cmd
    /\ NextStop(c, Head(work[c]), i)
    /\ Matches(Head(work[c]), subList[c][i])
    /\ subList' = [subList EXCEPT ![c] = AfterAck(@, i)]
    /\ Elsewhere /\ Channels
    /\ UNCHANGED <<phase, subs, work, lastMsgId, tx, seen, farewell, listed,
                   msgIdHdr>>

\* The callback of handleAck.
AckOne(c, i, s) ==
    /\ MatchOne(c, "ACK", i)
    /\ s = subList[c][i]
    /\ Release(s)
    /\ out' = [out EXCEPT ![c] = <<SubRequest("Subscribe", s)>>]
    /\ subAt' = [subAt EXCEPT ![s] = "out"]
    /\ msgAt' = [msgAt EXCEPT ![frame[s]] = At("settled")]

\* The callback of handleNack.
NackOne(c, i, s) ==
    /\ MatchOne(c, "NACK", i)
    /\ s = subList[c][i]
    /\ Release(s)
    /\ out' = [out EXCEPT ![c] = <<Return(s), SubRequest("Subscribe", s)>>]
    /\ subAt' = [subAt EXCEPT ![s] = "out"]
    /\ msgAt' = [msgAt EXCEPT ![frame[s]] = HeldBy("out", c)]

\* IsAckedBy meets a subscription with an unknown ack mode.
AckPanics(c, i) ==
    /\ ~crashed
    /\ out[c] = <<>>
    /\ work[c] /= <<>>
    /\ NextStop(c, Head(work[c]), i)
    /\ Panics(Head(work[c]), subList[c][i])
    /\ crashed' = TRUE
    /\ Channels
    /\ UNCHANGED <<procVars, connVars, objVars>>

\* The list has been searched to its end.
AckEnd(c) ==
    /\ ~crashed
    /\ out[c] = <<>>
    /\ work[c] /= <<>>
    /\ LET f == Head(work[c]) IN
         /\ f.cmd \in {"ACK", "NACK"}
         /\ \A i \in DOMAIN subList[c] : ~Stops(f, subList[c][i])
    /\ work' = [work EXCEPT ![c] = Tail(@)]
    /\ Elsewhere /\ Channels
    /\ UNCHANGED <<phase, subs, subList, out, lastMsgId, tx, seen, farewell,
                   objVars>>

-----------------------------------------------------------------------------
(* Frames for the client *)

\* Receive a topic frame; allocateMessageId counts it before it is written.
ReceiveTopicFrame(c) ==
    /\ Selecting(c)
    /\ writeCh[c] /= <<>>
    /\ writeCh' = [writeCh EXCEPT ![c] = Tail(@)]
    /\ lastMsgId' = [lastMsgId EXCEPT ![c] = @ + 1]
    /\ Elsewhere
    /\ UNCHANGED <<reqCh, subCh, subs, subList, out, work, farewell, frame,
                   listed, msgIdHdr, subAt>>

WriteTopicFrame(c) ==
    /\ ReceiveTopicFrame(c)
    /\ seen' = [seen EXCEPT ![c] = @ \cup {Head(writeCh[c])}]
    /\ UNCHANGED <<phase, tx, msgAt>>

TopicWriteFails(c) ==
    /\ ReceiveTopicFrame(c)
    /\ c \in Unwritable
    /\ Exit(c)
    /\ UNCHANGED seen

\* Receive subscription s from subChannel.
ReceiveSub(c, s) ==
    /\ Selecting(c)
    /\ subCh[c] /= <<>>
    /\ s = Head(subCh[c])
    /\ subCh' = [subCh EXCEPT ![c] = Tail(@)]
    /\ UNCHANGED <<procVars, reqCh, writeCh, subs, work, farewell>>

\* A subscription with that id exists: number its frame and write it.
WriteFrame(c, s) ==
    /\ ReceiveSub(c, s)
    /\ Lookup(c, SubIdOf[s]) /= {}
    /\ lastMsgId' = [lastMsgId EXCEPT ![c] = @ + 1]
    /\ msgIdHdr' = [msgIdHdr EXCEPT ![frame[s]] = lastMsgId[c] + 1]

Written(c, s) == seen' = [seen EXCEPT ![c] = @ \cup {frame[s]}]

\* No acknowledgement wanted: s is ready for the next frame.
DeliverAuto(c, s) ==
    /\ WriteFrame(c, s)
    /\ Written(c, s)
    /\ SubAck[s] = "auto"
    /\ Release(s)
    /\ out' = [out EXCEPT ![c] = <<SubRequest("Subscribe", s)>>]
    /\ subAt' = [subAt EXCEPT ![s] = "out"]
    /\ msgAt' = [msgAt EXCEPT ![frame[s]] = At("settled")]
    /\ UNCHANGED <<phase, tx, subList, listed, crashed>>

\* To be acknowledged; SubscriptionList.Add panics when s is in a list.
DeliverUnacked(c, s) ==
    /\ WriteFrame(c, s)
    /\ Written(c, s)
    /\ SubAck[s] /= "auto"
    /\ crashed' = listed[s]
    /\ subList' = [subList EXCEPT ![c] = Append(@, s)]
    /\ listed' = [listed EXCEPT ![s] = TRUE]
    /\ subAt' = [subAt EXCEPT ![s] = "unacked"]
    /\ UNCHANGED <<phase, tx, out, frame, msgAt>>

\* The write fails: the loop is left, and s with its frame is dropped.
DeliverFails(c, s) ==
    /\ WriteFrame(c, s)
    /\ c \in Unwritable
    /\ Exit(c)
    /\ subAt' = [subAt EXCEPT ![s] = "gone"]
    /\ UNCHANGED <<out, subList, seen, frame, listed, crashed>>

\* No subscription has that id any more: give the frame back.
ReturnQueueFrame(c, s) ==
    /\ ReceiveSub(c, s)
    /\ Lookup(c, SubIdOf[s]) = {}
    /\ out' = [out EXCEPT ![c] = <<Return(s)>>]
    /\ subAt' = [subAt EXCEPT ![s] = "gone"]
    /\ msgAt' = [msgAt EXCEPT ![frame[s]] = HeldBy("out", c)]
    /\ UNCHANGED <<phase, tx, subList, lastMsgId, seen, frame, listed, msgIdHdr,
                   crashed>>

WriteQueueFrame(c) ==
    \E s \in Sub : \/ DeliverAuto(c, s) \/ DeliverUnacked(c, s)
                   \/ DeliverFails(c, s) \/ ReturnQueueFrame(c, s)

\* The next blocking send on requestChannel of c's current handler.
SendRequest(c) ==
    /\ ~crashed
    /\ out[c] /= <<>>
    /\ RequestRoom
    /\ LET r == Head(out[c]) IN
         /\ reqCh' = Append(reqCh, r)
         /\ subAt' = [s \in Sub |-> IF r.op = "Subscribe" /\ r.sub = s
                                    THEN "request" ELSE subAt[s]]
         /\ msgAt' = [m \in Msg |-> IF r.frame = m
                                    THEN At("request") ELSE msgAt[m]]
    /\ out' = [out EXCEPT ![c] = Tail(@)]
    /\ Elsewhere
    /\ UNCHANGED <<subCh, writeCh, phase, subs, subList, work, lastMsgId, tx,
                   seen, farewell, frame, listed, msgIdHdr>>

-----------------------------------------------------------------------------
(* cleanupConn *)

InCleanup(c, phases) == Ready(c) /\ phase[c] \in phases

\* A loop of the cleanup has nothing left to do.
CleanupNext(c) ==
    /\ \/ InCleanup(c, {"discard1", "discard2", "discard3"}) /\ writeCh[c] = <<>>
       \/ InCleanup(c, {"unsub"}) /\ subs[c] = {}
       \/ InCleanup(c, {"requeue"}) /\ subList[c] = <<>>
       \/ InCleanup(c, {"drain1", "drain2"}) /\ subCh[c] = <<>>
    /\ phase' = [phase EXCEPT ![c] = NextPhase[@]]
    /\ Elsewhere /\ Channels
    /\ UNCHANGED <<subs, subList, out, work, lastMsgId, tx, seen, farewell,
                   objVars>>

DiscardWriteChannelFrame(c) ==
    /\ InCleanup(c, {"discard1", "discard2", "discard3"})
    /\ writeCh[c] /= <<>>
    /\ writeCh' = [writeCh EXCEPT ![c] = Tail(@)]
    /\ Elsewhere
    /\ UNCHANGED <<reqCh, subCh, connVars, objVars>>

\* The map of subscriptions is iterated in an arbitrary order.
CleanupUnsubscribe(c, s) ==
    /\ InCleanup(c, {"unsub"})
    /\ s \in subs[c]
    /\ subs' = [subs EXCEPT ![c] = @ \ {s}]
    /\ out' = [out EXCEPT ![c] = <<SubRequest("Unsubscribe", s)>>]
    /\ Elsewhere /\ Channels
    /\ UNCHANGED <<phase, subList, work, lastMsgId, tx, seen, farewell,
                   objVars>>

CleanupRequeue(c, s) ==
    /\ InCleanup(c, {"requeue"})
    /\ subList[c] /= <<>>
    /\ s = Head(subList[c])
    /\ out' = [out EXCEPT ![c] = <<Return(s)>>]
    /\ Unlist(s)
    /\ subAt' = [subAt EXCEPT ![s] = "gone"]
    /\ msgAt' = [msgAt EXCEPT ![frame[s]] = HeldBy("out", c)]
    /\ subList' = [subList EXCEPT ![c] = AfterGet(@)]
    /\ Elsewhere /\ Channels
    /\ UNCHANGED <<phase, subs, work, lastMsgId, tx, seen, farewell, frame,
                   msgIdHdr>>

CleanupSubChannel(c, s) ==
    /\ InCleanup(c, {"drain1", "drain2"})
    /\ subCh[c] /= <<>>
    /\ s = Head(subCh[c])
    /\ out' = [out EXCEPT ![c] = <<Return(s)>>]
    /\ subAt' = [subAt EXCEPT ![s] = "gone"]
    /\ msgAt' = [msgAt EXCEPT ![frame[s]] = HeldBy("out", c)]
    /\ subCh' = [subCh EXCEPT ![c] = Tail(@)]
    /\ Elsewhere
    /\ UNCHANGED <<reqCh, writeCh, phase, subs, subList, work, lastMsgId, tx,
                   seen, farewell, frame, listed, msgIdHdr>>

CleanupGoodbye(c) ==
    /\ InCleanup(c, {"goodbye"})
    /\ out' = [out EXCEPT ![c] = <<ConnRequest("Disconnected", c)>>]
    /\ phase' = [phase EXCEPT ![c] = NextPhase[@]]
    /\ Elsewhere /\ Channels
    /\ UNCHANGED <<subs, subList, work, lastMsgId, tx, seen, farewell,
                   objVars>>

Cleanup(c) ==
    \/ CleanupNext(c) \/ DiscardWriteChannelFrame(c) \/ CleanupGoodbye(c)
    \/ \E s \in Sub : \/ CleanupUnsubscribe(c, s) \/ CleanupRequeue(c, s)
                      \/ CleanupSubChannel(c, s)

-----------------------------------------------------------------------------

\* Frames and faults that come from the client of c.
ClientInput(c) ==
    \/ Accept(c) \/ HandleConnect(c) \/ RefuseConnect(c) \/ Broken(c)
    \/ HandleDisconnect(c)
    \/ \E s \in Sub : \/ HandleSubscribe(c, s) \/ RefuseSubscribe(c, s)
                      \/ HandleUnsubscribe(c, s)
    \/ \E m \in Msg : HandleSend(c, m)
    \/ \E m \in Msg, t \in Tx : HandleSendInTx(c, m, t)
    \/ \E t \in Tx : \/ HandleBegin(c, t) \/ HandleAbort(c, t) \/ HandleCommit(c, t)
                     \/ RefuseBegin(c, t) \/ RefuseTx(c, t)
    \/ \E cmd \in {"ACK", "NACK"}, id \in AckIds : HandleAck(c, cmd, id)
    \/ \E cmd \in {"ACK", "NACK"}, id \in AckIds, t \in Tx :
          HandleAckInTx(c, cmd, id, t)

\* The rest of a COMMIT, ACK or NACK.
Execute(c) ==
    \/ CommitSend(c)
    \/ \E i \in DOMAIN subList[c] : \/ AckOne(c, i, subList[c][i])
                                    \/ NackOne(c, i, subList[c][i])
                                    \/ AckPanics(c, i)
    \/ AckEnd(c)

\* The steps a processLoop takes by itself.
ConnStep(c) ==
    \/ SendRequest(c) \/ Execute(c) \/ Cleanup(c)
    \/ WriteTopicFrame(c) \/ TopicWriteFails(c) \/ WriteQueueFrame(c)

=============================================================================
