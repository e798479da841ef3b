----------------------------- MODULE ClientLoops -----------------------------
(***************************************************************************)
(* The two goroutines of a client connection, readLoop and processLoop     *)
(* (conn.go), and the server they talk to.  processLoop takes one event at *)
(* a time: a frame from the server, a request of a call, or a timer.  Its  *)
(* sends on response channels block, one receiver after the other, until   *)
(* the call or the subscription in question takes the frame.               *)
(*                                                                         *)
(* The server is external: it handles the frames in the order they were    *)
(* written, answers those with a receipt header, sends MESSAGE frames to   *)
(* its subscriptions, and may at any time send ERROR or a RECEIPT without  *)
(* receipt-id, or close the connection.  Nothing bounds how long it takes. *)
(***************************************************************************)
EXTENDS ClientState

-----------------------------------------------------------------------------
(* readLoop *)

\* readCh <- f blocks while the channel is full.
ReadRoomOffByOne == Len(readCh) <= ReadCap                      \* faulty variant
ReadRoom == Len(readCh) < ReadCap

\* Read a frame (it may have been buffered before the connection closed).
ReadFrame ==
    /\ ~crashed
    /\ ~readClosed
    /\ network /= <<>>
    /\ ReadRoom
    /\ readCh' = Append(readCh, Head(network))
    /\ network' = Tail(network)
    /\ UNCHANGED <<lockVars, loopVars, writeCh, writeClosed, readClosed, callVars,
                   subVars, connOpen, peerOpen, wire, served, crashed, sentTo,
                   got, confirmed>>

\* Reading fails: readLoop closes readCh and ends.
ReadFails ==
    /\ ~crashed
    /\ ~readClosed
    /\ ~connOpen \/ (~peerOpen /\ network = <<>>)
    /\ readClosed' = TRUE
    /\ UNCHANGED <<lockVars, loopVars, writeCh, writeClosed, readCh, callVars,
                   subVars, peerVars, connOpen, wire, got, crashed>>

-----------------------------------------------------------------------------
(* processLoop *)

\* Send f on the channels of ids, one by one in any order, then go to next.
SendTo(ids, f, next) ==
    \/ /\ ids = {}
       /\ loop' = next
       /\ sending' = nil
    \/ \E i \in ids :
         /\ loop' = "send"
         /\ sending' = [frame |-> f, cur |-> i, rest |-> ids \ {i}, next |-> next]

\* sendError, then leave the loop: the deferred MustDisconnect is next.
SendErrorNone(known) == SendTo({}, ErrorFrame, "disconnect")    \* faulty variant
SendError(known) == SendTo(known, ErrorFrame, "disconnect")

LoopEvent == ~crashed /\ loop = "select"

\* No frame came in time, or a heart-beat could not be written.
HeartBeatFails ==
    /\ LoopEvent
    /\ "silence" \in Faults
    /\ SendError(channels)
    /\ UNCHANGED <<lockVars, channels, shut, chanVars, callVars, subVars, peerVars,
                   connOpen, wire, got, crashed>>

\* readLoop has closed readCh.
ConnectionClosed ==
    /\ LoopEvent
    /\ readCh = <<>> /\ readClosed
    /\ SendError(channels)
    /\ UNCHANGED <<lockVars, channels, shut, chanVars, callVars, subVars, peerVars,
                   connOpen, wire, got, crashed>>

\* MustDisconnect has closed writeCh.
WriteChannelClosed ==
    /\ LoopEvent
    /\ writeCh = <<>> /\ writeClosed
    /\ SendError(channels)
    /\ UNCHANGED <<lockVars, channels, shut, chanVars, callVars, subVars, peerVars,
                   connOpen, wire, got, crashed>>

\* Take frame f from readCh.
TakeFrame(f) ==
    /\ LoopEvent
    /\ readCh /= <<>>
    /\ f = Head(readCh)
    /\ readCh' = Tail(readCh)
    /\ UNCHANGED <<lockVars, shut, writeCh, writeClosed, readClosed, callVars,
                   subVars, peerVars, connOpen, wire, got, crashed>>

\* RECEIPT: the channel is deleted and closed once the frame has been sent on
\* it; one that nobody waits for is ignored.
AfterReceiptKept(i) == UNCHANGED channels                       \* faulty variant
AfterReceipt(i) == channels' = channels \ {i}

HandleReceipt(f) ==
    /\ TakeFrame(f)
    /\ f.cmd = "RECEIPT"
    /\ f.id /= nil
    /\ AfterReceipt(f.id)
    /\ SendTo(channels \cap {f.id}, f, "select")

\* RECEIPT without receipt-id.
HandleBadReceipt(f) ==
    /\ TakeFrame(f)
    /\ f.cmd = "RECEIPT"
    /\ f.id = nil
    /\ SendError(channels)
    /\ UNCHANGED channels

\* MESSAGE: ignored when the subscription is not known.
HandleMessage(f) ==
    /\ TakeFrame(f)
    /\ f.cmd = "MESSAGE"
    /\ SendTo(channels \cap {f.id}, f, "select")
    /\ UNCHANGED channels

\* ERROR is sent to everyone, and the connection is closed.
HandleError(f) ==
    /\ TakeFrame(f)
    /\ f.cmd = "ERROR"
    /\ SendTo(channels, f, "fail")
    /\ UNCHANGED channels

\* The ids under which the channel of request k is remembered.
RememberNone(k) == {}                                           \* faulty variant
Remember(k) == (IF k \in Receipted THEN {k} ELSE {})
               \cup (IF Op[k] = "Subscribe" THEN {SubOf[k]} ELSE {})

\* The request is for the client only: a subscription to a temporary queue.
Local(k) == Op[k] \in {"Subscribe", "Unsubscribe"} /\ SubOf[k] \in ReplyTo

TakeRequest(k) ==
    /\ LoopEvent
    /\ writeCh /= <<>>
    /\ k = Head(writeCh)
    /\ writeCh' = Tail(writeCh)
    /\ UNCHANGED <<lockVars, writeClosed, readCh, readClosed, callVars, subVars,
                   peerVars, connOpen, got, crashed>>

\* The frame is written; UNSUBSCRIBE gets the receipt header of ReceiptId.
WriteRequest(k) ==
    /\ TakeRequest(k)
    /\ ~Local(k)
    /\ connOpen
    /\ channels' = channels \cup Remember(k)
    /\ wire' = Append(wire, k)
    /\ UNCHANGED <<shut, loop, sending>>

\* Writing it fails.
WriteFails(k) ==
    /\ TakeRequest(k)
    /\ ~Local(k)
    /\ "write" \in Faults \/ ~connOpen \/ ~peerOpen
    /\ channels' = channels \cup Remember(k)
    /\ SendError(channels')
    /\ UNCHANGED <<shut, wire>>

SubscribeLocal(k) ==
    /\ TakeRequest(k)
    /\ Local(k)
    /\ Op[k] = "Subscribe"
    /\ channels' = channels \cup Remember(k)
    /\ UNCHANGED <<shut, loop, sending, wire>>

\* The channel is closed, which its reader takes for a failed read.
UnsubscribeLocal(k) ==
    /\ TakeRequest(k)
    /\ Local(k)
    /\ Op[k] = "Unsubscribe"
    /\ channels' = channels \ {SubOf[k]}
    /\ shut' = shut \cup (channels \cap {SubOf[k]})
    /\ UNCHANGED <<loop, sending, wire>>

\* The receiver i takes the frame from its channel.
Sent(i) ==
    /\ ~crashed
    /\ loop = "send"
    /\ i = sending.cur
    /\ SendTo(sending.rest, sending.frame, sending.next)
    /\ UNCHANGED <<channels, shut, chanVars, peerVars, wire, got, crashed>>

\* The connection is closed for the calls that come after.
MarkClosedNot == UNCHANGED closed                               \* faulty variant
MarkClosed == closed' = TRUE

\* Leave through the deferred MustDisconnect, which needs the mutex.
LoopDisconnects ==
    /\ ~crashed
    /\ loop = "disconnect"
    /\ closeMutex = nil
    /\ loop' = "ended"
    /\ writeClosed' = (writeClosed \/ ~closed)
    /\ MarkClosed
    /\ connOpen' = (connOpen /\ closed)
    /\ UNCHANGED <<closeMutex, channels, shut, sending, writeCh, readCh, readClosed,
                   callVars, subVars, peerVars, wire, got, crashed>>

\* Leave after ERROR: the connection is closed, writeCh is not.
LoopFails ==
    /\ ~crashed
    /\ loop = "fail"
    /\ closeMutex = nil
    /\ loop' = "ended"
    /\ MarkClosed
    /\ connOpen' = FALSE
    /\ UNCHANGED <<closeMutex, channels, shut, sending, chanVars, callVars, subVars,
                   peerVars, wire, got, crashed>>

-----------------------------------------------------------------------------
(* The server *)

PeerRoom == ~crashed /\ peerOpen /\ Len(network) < NetCap

\* The server handles the next frame.
ServerHandles ==
    /\ PeerRoom
    /\ served < Len(wire)
    /\ served' = served + 1
    /\ LET k == wire[served + 1] IN
         /\ network' = IF Answered(k) THEN Append(network, ReceiptFrame(ReceiptId(k)))
                       ELSE network
         /\ confirmed' = IF Answered(k) THEN confirmed \cup {k} ELSE confirmed
    /\ UNCHANGED <<lockVars, loopVars, chanVars, callVars, subVars, peerOpen,
                   connOpen, wire, got, crashed, sentTo>>

\* The subscriptions the server knows, and those to its temporary queues.
Handled(op, s) == \E i \in 1..served : Op[wire[i]] = op /\ SubOf[wire[i]] = s
ServerSub(s) == s \in ReplyTo \/ (Handled("Subscribe", s) /\ ~Handled("Unsubscribe", s))

ServerMessage(s) ==
    /\ PeerRoom
    /\ ServerSub(s)
    /\ sentTo[s] < MsgCap[s]
    /\ sentTo' = [sentTo EXCEPT ![s] = @ + 1]
    /\ network' = Append(network, MessageFrame(s, sentTo[s] + 1))
    /\ UNCHANGED <<lockVars, loopVars, chanVars, callVars, subVars, peerOpen,
                   connOpen, wire, served, got, crashed, confirmed>>

\* It sends a frame that ends the connection, or just closes it.
ServerFault ==
    /\ PeerRoom
    /\ \/ "error" \in Faults /\ network' = Append(network, ErrorFrame)
       \/ "malformed" \in Faults /\ network' = Append(network, ReceiptFrame(nil))
       \/ "close" \in Faults /\ network' = network
    /\ peerOpen' = FALSE
    /\ UNCHANGED <<lockVars, loopVars, chanVars, callVars, subVars, connOpen,
                   wire, served, got, crashed, sentTo, confirmed>>

Server == ServerHandles \/ ServerFault \/ \E s \in Sub : ServerMessage(s)

-----------------------------------------------------------------------------

ReadLoop == ReadFrame \/ ReadFails

\* An event that processLoop can take.
HandleFrame(f) == HandleReceipt(f) \/ HandleBadReceipt(f) \/ HandleMessage(f)
                  \/ HandleError(f)
HandleRequest(k) == WriteRequest(k) \/ WriteFails(k) \/ SubscribeLocal(k)
                    \/ UnsubscribeLocal(k)

ReadEvent == ConnectionClosed \/ \E i \in DOMAIN readCh : HandleFrame(readCh[i])
WriteEvent == WriteChannelClosed \/ \E i \in DOMAIN writeCh : HandleRequest(writeCh[i])

=============================================================================
