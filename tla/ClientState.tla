----------------------------- MODULE ClientState -----------------------------
(***************************************************************************)
(* The state of a client connection (conn.go), its subscriptions           *)
(* (subscription.go) and its transactions (transaction.go).  The           *)
(* goroutines are                                                          *)
(*                                                                         *)
(*   readLoop --- readCh ---> processLoop <--- writeCh --- calls           *)
(*   processLoop --- response channels ---> calls, Subscription.readLoop   *)
(*   Subscription.readLoop --- C ---> the application                      *)
(*                                                                         *)
(* readCh, writeCh and C are buffered; a response channel is unbuffered,   *)
(* so a send on it is one step of its sender and its receiver.  Each call  *)
(* of the library's functions is a goroutine that runs once.               *)
(***************************************************************************)
EXTENDS Naturals, Sequences

CONSTANTS
    Call,       \* calls of the library, each made at most once
    Before,     \* the calls that the same goroutine makes before it
    Sub,        \* Subscription objects, one per call of Subscribe
    Tx,         \* Transaction objects, one per call of Begin
    nil         \* the Go nil

CONSTANTS
    Op,         \* the function called
    SubOf,      \* the Subscription of a call, or nil
    TxOf,       \* the Transaction of a call, or nil
    SubMode,    \* Subscription.ackMode
    Version     \* the negotiated STOMP version

CONSTANTS
    Receipted,  \* calls whose frame has a receipt header
    Invalid,    \* calls with an option that fails
    ReplyTo,    \* subscriptions to a temporary queue (reply-to header)
    Slow        \* calls whose timeouts can expire

CONSTANTS
    ReadCap, WriteCap,  \* capacities of readCh and writeCh (20 in the code)
    SubCap,             \* capacity of Subscription.C (16)
    NetCap,             \* bound: frames between the server and readLoop
    MsgCap,             \* bound: MESSAGE frames the server sends to each Sub
    Faults              \* what may go wrong outside the client

FrameOps == {"Unsubscribe", "Ack", "Nack", "Begin", "Commit", "Abort",
             "TxSend", "TxAck", "TxNack"}           \* those that use sendFrame
Ops == FrameOps \cup {"Send", "Subscribe", "Disconnect", "MustDisconnect"}
TxOps == {"Begin", "Commit", "Abort", "TxSend", "TxAck", "TxNack"}
ReceiptOps == {"Send", "TxSend", "Commit", "Abort", "Disconnect"}   \* may ask for one
FaultKinds == {"error", "malformed", "close", "write", "silence"}

\* An id of the map channels, of a receipt-id or of a subscription header, and
\* the response channel that goes with it: allocateId never repeats an id.
Id == Call \cup Sub

ASSUME CallAssumption ==
    /\ Call \cap Sub = {} /\ nil \notin Id /\ nil \notin Tx
    /\ Before \in [Call -> SUBSET Call]
    /\ Op \in [Call -> Ops]
    /\ SubOf \in [Call -> Sub \cup {nil}]
    /\ TxOf \in [Call -> Tx \cup {nil}]
    /\ \A k \in Call : Op[k] \in {"Subscribe", "Unsubscribe", "Ack", "Nack", "TxAck", "TxNack"}
                          => SubOf[k] \in Sub
    /\ \A j, k \in Call : Op[j] = "Subscribe" /\ Op[k] = "Subscribe"
                             /\ SubOf[j] = SubOf[k] => j = k
    /\ SubMode \in [Sub -> {"auto", "client", "client-individual"}]
    /\ Version \in {"1.0", "1.1", "1.2"}
    /\ \A k \in Call : TxOf[k] \in Tx <=> Op[k] \in TxOps
    /\ \A j, k \in Call : Op[j] = "Begin" /\ Op[k] = "Begin" /\ TxOf[j] = TxOf[k] => j = k
    /\ Receipted \subseteq {k \in Call : Op[k] \in ReceiptOps}
    /\ \A k \in Call : Op[k] = "Disconnect" => k \in Receipted
    /\ Invalid \subseteq Call /\ ReplyTo \subseteq Sub /\ Slow \subseteq Call

ASSUME CapAssumption ==
    /\ ReadCap \in Nat \ {0} /\ WriteCap \in Nat \ {0} /\ SubCap \in Nat \ {0}
    /\ NetCap \in Nat /\ MsgCap \in [Sub -> Nat]
    /\ Faults \subseteq FaultKinds

VARIABLES
    \* Conn
    closeMutex,  \* the call that holds it, or nil
    closed,      \* Conn.closed
    writeCh, writeClosed,   \* the requests in it; closed by MustDisconnect
    readCh, readClosed,     \* the frames in it; closed by readLoop
    channels,    \* processLoop: the ids with a response channel
    shut,        \* the subscriptions whose response channel it has closed early
    loop,        \* where processLoop is
    sending,     \* what it is sending on response channels, or nil
    \* the calls
    pc,          \* where each call is
    result,      \* what it returned
    completed,   \* the Transactions whose completed is set
    \* each Subscription
    state,       \* Subscription.state
    C, CClosed,  \* its channel C
    reader,      \* where its readLoop is
    held,        \* the message its readLoop is about to put on C
    once,        \* closeOnce
    \* the network connection and the server
    connOpen,    \* Conn.conn has not been closed by the client
    peerOpen,    \* the server has not closed or lost the connection
    wire,        \* the frames written to the server, all of them
    served,      \* how many of them the server has handled
    network,     \* the frames from the server that are not read yet
    \* the process
    crashed,     \* a goroutine has panicked
    \* history
    sentTo,      \* how many MESSAGE frames the server sent to each Sub
    got,         \* what the application has received from C
    confirmed    \* the calls for which the server sent a RECEIPT

lockVars == <<closeMutex, closed>>
loopVars == <<channels, shut, loop, sending>>
chanVars == <<writeCh, writeClosed, readCh, readClosed>>
callVars == <<pc, result, completed>>
subVars  == <<state, C, CClosed, reader, held, once>>
peerVars == <<peerOpen, served, network, sentTo, confirmed>>
vars == <<lockVars, loopVars, chanVars, callVars, subVars, peerVars, connOpen,
          wire, got, crashed>>

-----------------------------------------------------------------------------

\* A frame from the server; id is its receipt-id or subscription header.
Frame == [cmd : {"RECEIPT", "MESSAGE", "ERROR"}, id : Id \cup {nil}, n : Nat]

ReceiptFrame(i)    == [cmd |-> "RECEIPT", id |-> i, n |-> 0]
MessageFrame(s, n) == [cmd |-> "MESSAGE", id |-> s, n |-> n]
ErrorFrame         == [cmd |-> "ERROR", id |-> nil, n |-> 0]

\* processLoop is sending frame on the channel of cur, has to send it to rest
\* as well, and goes to next afterwards.
Sending == [frame : Frame, cur : Id, rest : SUBSET Id,
            next : {"select", "disconnect", "fail"}]

\* An element of C: the number of a MESSAGE, or 0 for an error.
Item == Nat

CallPlaces == {"idle", "lock", "write", "await", "close", "check", "arm",
               "wait", "woken", "expired", "done"}
LoopPlaces == {"select", "send", "disconnect", "fail", "ended"}
ReaderPlaces == {"none", "receive", "put", "fail", "finish", "ended"}
OnceStages == {"free", "put", "store", "shut", "done"}
Results == {"none", "ok", "noop", "error", "closed", "timeout", "refused"}

\* Call k returns r.
Return(k, r) ==
    /\ pc' = [pc EXCEPT ![k] = "done"]
    /\ result' = [result EXCEPT ![k] = r]

Goto(k, place) ==
    /\ pc' = [pc EXCEPT ![k] = place]
    /\ UNCHANGED result

\* The call's frame is one that the server answers with a RECEIPT, under id.
ReceiptId(k) == IF Op[k] = "Unsubscribe" THEN SubOf[k] ELSE k
Answered(k) == k \in Receipted \/ Op[k] = "Unsubscribe"

=============================================================================
