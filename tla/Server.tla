------------------------------- MODULE Server -------------------------------
(***************************************************************************)
(* The STOMP server: its connections composed with its request processor,  *)
(* and the properties of the whole.                                        *)
(***************************************************************************)
EXTENDS RequestProcessor, ServerConn

Init ==
    /\ reqCh = <<>>
    /\ store = [q \in Queue |-> <<>>]
    /\ qsubs = [q \in Queue |-> <<>>]
    /\ tsubs = [t \in Topic |-> <<>>]
    /\ procOut = <<>>
    /\ phase = [c \in Conn |-> "none"]
    /\ subs = [c \in Conn |-> {}]
    /\ subList = [c \in Conn |-> <<>>]
    /\ subCh = [c \in Conn |-> <<>>]
    /\ writeCh = [c \in Conn |-> <<>>]
    /\ out = [c \in Conn |-> <<>>]
    /\ work = [c \in Conn |-> <<>>]
    /\ lastMsgId = [c \in Conn |-> 0]
    /\ tx = [t \in Tx |-> nil]
    /\ frame = [s \in Sub |-> nil]
    /\ listed = [s \in Sub |-> FALSE]
    /\ msgIdHdr = [m \in Msg |-> 0]
    /\ crashed = FALSE
    /\ subAt = [s \in Sub |-> "none"]
    /\ msgAt = [m \in Msg |-> At("client")]
    /\ seen = [c \in Conn |-> {}]
    /\ farewell = {}

Next == Serve \/ \E c \in Conn : ClientInput(c) \/ ConnStep(c)

Spec == Init /\ [][Next]_vars

\* The Go scheduler runs every goroutine that can run, and select picks any of
\* the ready channels sooner or later.  A processLoop has one step to take at a
\* time when it is not selecting.  Nothing is assumed of the clients.
Fairness ==
    /\ WF_vars(Serve)
    /\ \A c \in Conn :
         /\ WF_vars(SendRequest(c) \/ Execute(c) \/ Cleanup(c))
         /\ WF_vars(WriteTopicFrame(c) \/ TopicWriteFails(c))
         /\ WF_vars(WriteQueueFrame(c))

FairSpec == Spec /\ Fairness

-----------------------------------------------------------------------------
(* Type correctness *)

\* Every variable holds a value of its Go type; no channel exceeds its buffer.
TypeOK ==
    /\ reqCh \in Seq(Request) /\ Len(reqCh) <= RequestCap
    /\ store \in [Queue -> Seq(Msg)]
    /\ qsubs \in [Queue -> Seq(Sub)]
    /\ tsubs \in [Topic -> Seq(Sub)]
    /\ procOut \in Seq(Delivery)
    /\ phase \in [Conn -> Phases]
    /\ subs \in [Conn -> SUBSET Sub]
    /\ subList \in [Conn -> Seq(Sub)]
    /\ subCh \in [Conn -> Seq(Sub)]
    /\ writeCh \in [Conn -> Seq(Msg)]
    /\ \A c \in Conn : /\ Len(subCh[c]) <= maxPendingWrites
                       /\ Len(writeCh[c]) <= maxPendingWrites
    /\ out \in [Conn -> Seq(Request)]
    /\ work \in [Conn -> Seq(TxFrame)]
    /\ lastMsgId \in [Conn -> Nat]
    /\ tx \in [Tx -> Seq(TxFrame) \cup {nil}]
    /\ frame \in [Sub -> Msg \cup {nil}]
    /\ listed \in [Sub -> BOOLEAN]
    /\ msgIdHdr \in [Msg -> Nat]
    /\ crashed \in BOOLEAN
    /\ subAt \in [Sub -> SubPlaces]
    /\ msgAt \in [Msg -> Holder]
    /\ seen \in [Conn -> SUBSET Msg]
    /\ farewell \subseteq Conn

-----------------------------------------------------------------------------
(* Where frames and Subscription objects really are *)

AtMostOne(S) == \A x, y \in S : x = y

Pos(at, who, i) == [at |-> at, who |-> who, pos |-> i]

\* The positions at which seq holds v, as positions of the place (at, who).
In(at, who, seq, v) == {Pos(at, who, i) : i \in {j \in DOMAIN seq : seq[j] = v}}

\* The positions of a queue's Subscription object s among the goroutines.
Tokens(s) ==
    LET c == SubConn[s]
        q == SubDest[s]
    IN In("out", c, out[c], SubRequest("Subscribe", s))
       \cup In("request", nil, reqCh, SubRequest("Subscribe", s))
       \cup In("ready", q, qsubs[q], s)
       \cup {Pos("sending", nil, i) : i \in {j \in DOMAIN procOut : procOut[j].sub = s}}
       \cup In("subCh", c, subCh[c], s)
       \cup In("unacked", c, subList[c], s)

\* The Subscription objects that have m allocated and are in a list or channel,
\* whether or not somebody will still take them from there (see Stranded).
Bearers(m) ==
    {s \in Sub : /\ frame[s] = m
                 /\ \/ \E i \in DOMAIN procOut : procOut[i].sub = s
                    \/ \E i \in DOMAIN subCh[SubConn[s]] : subCh[SubConn[s]][i] = s
                    \/ \E i \in DOMAIN subList[SubConn[s]] : subList[SubConn[s]][i] = s}

\* The positions of frame m in the server.
InTx(m) == UNION {In("tx", t, tx[t], SendFrame(m)) : t \in {t \in Tx : tx[t] /= nil}}
InWork(m) == UNION {In("work", c, work[c], SendFrame(m)) : c \in Conn}
InOutOf(c, m) == {Pos("out", c, i) : i \in {j \in DOMAIN out[c] : out[c][j].frame = m}}
InOut(m) == UNION {InOutOf(c, m) : c \in Conn}
InRequests(m) == {Pos("request", nil, i) : i \in {j \in DOMAIN reqCh : reqCh[j].frame = m}}
InStore(m) == UNION {In("store", q, store[q], m) : q \in Queue}
InSubs(m) == {Pos("sub", s, 0) : s \in Bearers(m)}

Copies(m) ==
    InTx(m) \cup InWork(m) \cup InOut(m) \cup InRequests(m) \cup InStore(m) \cup InSubs(m)

-----------------------------------------------------------------------------
(* Safety *)

\* A queue never holds a frame and a ready subscription at the same time
\* (Queue.Subscribe, Enqueue and Requeue look at the other side first).
WorkConserving == \A q \in Queue : store[q] = <<>> \/ qsubs[q] = <<>>

\* A Subscription object is in one place: in one list or channel or in one
\* request for the processor.  A second SubscribeOp for it would let the
\* processor overwrite its frame.
OneToken == \A s \in Sub : SubDest[s] \in Queue => AtMostOne(Tokens(s))

\* A frame accepted for a queue is in one place: requeueing on NACK, on
\* UNSUBSCRIBE and in the cleanup never leaves a second copy behind.
NoDuplication == \A m \in Msg : AtMostOne(Copies(m))

\* A subscription that is offered to the processor has no frame allocated, so
\* the panic in setSubscriptionHeader is unreachable.
OfferedEmpty ==
    \A s \in Sub : subAt[s] \in {"none", "out", "request", "ready", "topic"}
                      => frame[s] = nil

\* Every requeue request carries a frame for a queue (the processor does
\* nothing for topics and dereferences the frame).
RequeueCarriesFrame ==
    \A i \in DOMAIN reqCh : reqCh[i].op = "Requeue" =>
        reqCh[i].frame \in Msg /\ MsgDest[reqCh[i].frame] \in Queue

\* The write of the frame of s to its socket failed, and s was dropped with it.
WriteFailed(s) == subAt[s] = "gone" /\ SubConn[s] \in Unwritable

\* s was put on the subChannel of its connection after the last drain of the
\* cleanup: the goroutine that would receive it has ended.
Stranded(s) ==
    /\ phase[SubConn[s]] = "closed"
    /\ \E i \in DOMAIN subCh[SubConn[s]] : subCh[SubConn[s]][i] = s

\* Somebody who will still deliver, requeue or settle m has it.
InHand(m) == \E p \in Copies(m) : p.at = "sub" => ~Stranded(p.who)

\* No accepted frame vanishes: until it is settled or its transaction is
\* dropped, somebody has it in hand (as long as the process lives).  The server
\* loses frames in two ways only: the very write of the frame to a client fails,
\* or the processor delivers it to a connection that has finished its cleanup.
NoLoss ==
    ~crashed => \A m \in Msg :
        msgAt[m].by \in {"tx", "work", "out", "request", "store", "sub"} =>
            \/ InHand(m)
            \/ /\ msgAt[m].by = "sub"
               /\ WriteFailed(msgAt[m].who) \/ Stranded(msgAt[m].who)

\* Acknowledging left s.subList set, and s is about to enter a list again.
StaleList(s) ==
    /\ listed[s] /\ subAt[s] \in {"request", "subCh"}
    /\ SubAck[s] /= "auto" /\ seen[SubConn[s]] /= {}

\* The processor takes the request r.
Takes(r) == procOut = <<>> /\ reqCh /= <<>> /\ Head(reqCh) = r /\ reqCh' = Tail(reqCh)

\* The connection of s takes s from its subChannel.
TakesSub(s) ==
    LET c == SubConn[s]
    IN subCh[c] /= <<>> /\ Head(subCh[c]) = s /\ subCh'[c] = Tail(subCh[c])

\* The connection of s searches its list, with s in it, for an ACK.
Searches(s) ==
    LET c == SubConn[s]
    IN /\ work[c] /= <<>> /\ Head(work[c]).cmd = "ACK"
       /\ \E i \in DOMAIN subList[c] : subList[c][i] = s

\* The server panics only in the step in which the processor takes a SEND without
\* destination, the processor or a connection takes a subscription whose message
\* was acknowledged to list it again, or an ACK meets a subscription in an
\* undefined mode.  In particular no subscription is listed twice or gets a second
\* frame before its first acknowledgement.
OnlyKnownPanics ==
    [][~crashed /\ crashed' =>
         \/ \E m \in Msg : MsgDest[m] = nil /\ Takes(FrameRequest("Enqueue", m))
         \/ \E s \in Sub : /\ StaleList(s)
                           /\ Takes(SubRequest("Subscribe", s)) \/ TakesSub(s)
         \/ \E s \in Sub : SubAck[s] = "other" /\ Searches(s)]_vars

\* No goroutine of the server panics: the comments at the panic of the processor
\* ("should not happen, already checked in lower layer"), of IsAckedBy ("should
\* not get here") and of SubscriptionList.Add say that these are unreachable.
NoServerPanic == ~crashed

\* The requests that can still make the processor register or serve s.
Pending(s) ==
    \/ procOut /= <<>>
    \/ \E i \in DOMAIN reqCh : reqCh[i].sub = s

\* When a connection has closed and its requests have been processed, none of
\* its subscriptions is left in a queue or a topic.
NoZombie ==
    \A s \in Sub :
        phase[SubConn[s]] = "closed" /\ out[SubConn[s]] = <<>> /\ ~Pending(s) =>
            /\ SubDest[s] \in Queue =>
                 \A i \in DOMAIN qsubs[SubDest[s]] : qsubs[SubDest[s]][i] /= s
            /\ SubDest[s] \in Topic =>
                 \A i \in DOMAIN tsubs[SubDest[s]] : tsubs[SubDest[s]][i] /= s

\* A frame that has been settled, or dropped with its transaction, is never
\* queued or written to a client again.
SettledIsFinal ==
    [][\A m \in Msg : msgAt[m].by \in {"settled", "discarded"} =>
          msgAt'[m] = msgAt[m] /\ msgIdHdr'[m] = msgIdHdr[m] /\ Copies(m)' = {}]_vars

\* Frames for one destination reach a client in the order in which their
\* sender sent them (outside transactions, and while nothing is requeued).
NoOvertaking ==
    [][\A c \in Conn : \A m \in seen'[c] \ seen[c] : \A n \in seen[c] :
          MsgConn[m] = MsgConn[n] /\ MsgDest[m] = MsgDest[n] => n < m]_vars

-----------------------------------------------------------------------------
(* What the documentation says, see the findings *)

\* cleanupConn: "re-queueing all unacknowledged messages to the upper layer".  No
\* frame is left behind in the channel of a connection that is closed.
CleanupRequeuesAll == \A s \in Sub : ~Stranded(s)

\* The messages that an ACK of id should acknowledge, in the mode of s.
Due(s, id) == IF SubAck[s] = "client" THEN msgIdHdr[frame[s]] <= id
                                      ELSE msgIdHdr[frame[s]] = id

\* ack.go: in client mode an ACK acknowledges that message and earlier ones, in
\* client-individual mode that message alone; handleAck does so, and to the end.
AckAsDocumented ==
    [][\A c \in Conn :
         work[c] /= <<>> /\ Head(work[c]).cmd = "ACK" =>
             /\ \A s \in Sub :
                  SubConn[s] = c /\ subAt[s] = "unacked" /\ subAt'[s] = "out"
                      => Due(s, Head(work[c]).id)
             /\ work'[c] = Tail(work[c]) =>
                  \A i \in DOMAIN subList'[c] : ~Due(subList'[c][i], Head(work[c]).id)]_vars

-----------------------------------------------------------------------------
(* Liveness *)

\* The processor waits for room in a channel whose connection will never make any:
\* its goroutine has ended, or waits itself for room in the request channel.
DeadEnd ==
    /\ procOut /= <<>>
    /\ LET s == Head(procOut).sub
           c == SubConn[s]
       IN /\ ~HasRoom(IF SubDest[s] \in Queue THEN subCh[c] ELSE writeCh[c])
          /\ phase[c] = "closed" \/ (out[c] /= <<>> /\ ~RequestRoom)

\* A dead end is for ever: no step of any goroutine or client leads out of it.
DeadEndIsFinal == [][DeadEnd => DeadEnd']_vars

\* The processor is not blocked forever by one client's full channel.
ProcessorUnblocks == procOut /= <<>> ~> procOut = <<>>

\* ... and if it is, then in a dead end and no other way: a slow or broken client,
\* or one in its cleanup, holds it up only for a time.
OnlyDeadEndBlocks == procOut /= <<>> ~> procOut = <<>> \/ DeadEnd

\* A connection that is closing gets closed, with all its requests sent, unless
\* the processor has met a dead end: cleanupConn sends on the request channel,
\* which nobody empties then.
CleanupCompletes ==
    \A c \in Flaky :
        phase[c] = "discard1" ~> (phase[c] = "closed" /\ out[c] = <<>>) \/ DeadEnd

\* c has left its loop.
Left(c) == phase[c] \in CleanupPhases \cup {"closed"}

\* The subscriptions that take m and are never unsubscribed.
Readers(m) == {s \in Sub \ Leavers : SubDest[s] = MsgDest[m] /\ SubAck[s] = "auto"}

\* A frame sent to a queue with an automatically acknowledged subscription is
\* written to some client, unless all who read the queue leave or the processor
\* meets a dead end.
QueueDelivers ==
    \A m \in {n \in Msg : MsgDest[n] \in Queue} :
        (/\ msgAt[m].by = "request"
         /\ \E s \in Readers(m) : s \in subs[SubConn[s]])
        ~> \/ \E c \in Conn : m \in seen[c]
           \/ DeadEnd \/ \A s \in Readers(m) : Left(SubConn[s])

\* Once a commit has begun, each of its SEND frames reaches the processor
\* (unless the process ends in a panic).
CommitCompletes ==
    \A m \in Msg :
        msgAt[m].by = "work" ~> crashed \/ msgAt[m].by \in {"request", "settled"}

\* A topic frame is written to every client that was subscribed when the
\* processor took it, unless that client leaves or the processor meets a dead end.
TopicDelivers ==
    \A s \in {r \in Sub : SubDest[r] \in Topic} :
    \A m \in {n \in Msg : MsgDest[n] = SubDest[s]} :
        (/\ \E i \in DOMAIN tsubs[SubDest[s]] : tsubs[SubDest[s]][i] = s
         /\ procOut = <<>> /\ reqCh /= <<>>
         /\ Head(reqCh) = FrameRequest("Enqueue", m))
        ~> m \in seen[SubConn[s]] \/ DeadEnd \/ Left(SubConn[s])

=============================================================================
