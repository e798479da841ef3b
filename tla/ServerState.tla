----------------------------- MODULE ServerState -----------------------------
(***************************************************************************)
(* The state shared by the goroutines of the STOMP server: one processLoop *)
(* per connection (server/client/conn.go) and the request processor        *)
(* (server/processor.go).  They communicate over Go channels only:         *)
(*                                                                         *)
(*   processLoop --- requestChannel ---> processor                         *)
(*   processor   --- subChannel / writeChannel ---> processLoop            *)
(*                                                                         *)
(* A Subscription object and the frame in it are handed over with the      *)
(* channel message that carries them, so at any moment one goroutine owns  *)
(* them.  The objects that clients can bring into existence are drawn from *)
(* finite pools (Sub, Msg, Tx) whose members have fixed attributes.        *)
(***************************************************************************)
EXTENDS Naturals, Sequences, SequencesExt

CONSTANTS
    Conn,       \* client connections
    Queue,      \* destinations with the prefix /queue
    Topic,      \* all other destinations
    Sub,        \* Subscription objects, one per SUBSCRIBE frame
    Msg,        \* SEND frames; a client sends its own in increasing order
    Tx,         \* transactions; each belongs to the txStore of one connection
    SubId,      \* values of the id header of SUBSCRIBE frames
    nil         \* the Go nil

CONSTANTS
    SubConn, SubDest, SubIdOf, SubAck,  \* the fields of each Subscription
    MsgConn, MsgDest,                   \* sender and destination of each SEND
    TxConn                              \* the connection of each transaction

CONSTANTS
    RequestCap,        \* capacity of requestChannel (128 in the code)
    maxPendingWrites,  \* capacity of subChannel and of writeChannel (16)
    TxCap,             \* bound: frames a client puts in one transaction
    AckIds,            \* bound: message ids a client ACKs or NACKs
    Flaky,             \* connections that may break or send a faulty frame
    Unwritable,        \* connections on whose socket a write may fail
    Polite,            \* connections whose client may send DISCONNECT
    Leavers            \* subscriptions the client may UNSUBSCRIBE

\* The ack header of SUBSCRIBE; "other" is any value that STOMP does not define.
AckModes == {"auto", "client", "client-individual", "other"}
Dest == Queue \cup Topic

\* The pools are disjoint and every object has a connection and a destination.
ASSUME PoolAssumption ==
    /\ Queue \cap Topic = {}
    /\ nil \notin Conn /\ nil \notin Sub /\ nil \notin Msg
    /\ nil \notin Tx /\ nil \notin Dest
    /\ Msg \subseteq Nat
    /\ SubConn \in [Sub -> Conn]
    /\ SubDest \in [Sub -> Dest]
    /\ SubIdOf \in [Sub -> SubId]
    /\ SubAck \in [Sub -> AckModes]
    /\ MsgConn \in [Msg -> Conn]
    /\ MsgDest \in [Msg -> Dest \cup {nil}]   \* the header may be missing
    /\ TxConn \in [Tx -> Conn]

\* Both kinds of channel are buffered.
ASSUME BoundAssumption ==
    /\ RequestCap \in Nat \ {0}
    /\ maxPendingWrites \in Nat \ {0}
    /\ TxCap \in Nat
    /\ AckIds \subseteq Nat
    /\ Flaky \subseteq Conn
    /\ Unwritable \subseteq Conn
    /\ Polite \subseteq Conn
    /\ Leavers \subseteq Sub

VARIABLES
    \* the request processor
    reqCh,      \* requestChannel
    store,      \* MemoryQueueStorage: the frames of each queue
    qsubs,      \* Queue.subs: the subscriptions ready for a frame
    tsubs,      \* Topic.subs
    procOut,    \* channel sends the processor still has to do for this request
    \* each connection
    phase,      \* where its processLoop is
    subs,       \* Conn.subs
    subList,    \* Conn.subList: delivered and not yet acknowledged
    subCh,      \* subChannel
    writeCh,    \* writeChannel
    out,        \* requests its current handler still has to send
    work,       \* frames its current handler still has to execute
    lastMsgId,  \* Conn.lastMsgId
    tx,         \* txStore: the frames of each open transaction, or nil
    \* each Subscription object and each frame
    frame,      \* Subscription.frame
    listed,     \* Subscription.subList /= nil
    msgIdHdr,   \* the message-id header of a queue frame, 0 when not set
    \* the process
    crashed,    \* a goroutine has panicked
    \* history
    subAt,      \* who was last handed each Subscription object
    msgAt,      \* who was last handed each frame
    seen,       \* the frames written to each socket
    farewell    \* connections whose DISCONNECT frame has been handled

procVars == <<store, qsubs, tsubs, procOut>>
connVars == <<phase, subs, subList, out, work, lastMsgId, tx, seen, farewell>>
objVars  == <<frame, listed, msgIdHdr, subAt, msgAt>>
vars == <<reqCh, procVars, connVars, subCh, writeCh, objVars, crashed>>

-----------------------------------------------------------------------------
(* Requests and frames *)

RequestOps == {"Subscribe", "Unsubscribe", "Enqueue", "Requeue",
               "Connected", "Disconnected"}

Request == [op : RequestOps, sub : Sub \cup {nil},
            frame : Msg \cup {nil}, conn : Conn \cup {nil}]

SubRequest(op, s)   == [op |-> op, sub |-> s, frame |-> nil, conn |-> nil]
FrameRequest(op, m) == [op |-> op, sub |-> nil, frame |-> m, conn |-> nil]
ConnRequest(op, c)  == [op |-> op, sub |-> nil, frame |-> nil, conn |-> c]

\* A frame that a transaction can hold: SEND m, ACK id or NACK id.
TxFrame == [cmd : {"SEND", "ACK", "NACK"}, msg : Msg \cup {nil}, id : Nat]

\* A transaction that is not in the store is not one without frames.
ASSUME NilAssumption == nil \notin Seq(TxFrame)

SendFrame(m)     == [cmd |-> "SEND", msg |-> m, id |-> 0]
AckFrame(cmd, n) == [cmd |-> cmd, msg |-> nil, id |-> n]

\* What the processor still has to do: put sub, or frame, on a channel of
\* sub's connection.
Delivery == [sub : Sub, frame : Msg]

-----------------------------------------------------------------------------
(* History: the holder of a frame and of a Subscription object *)

Holders == {"client", "tx", "work", "out", "request", "store", "sub", "topic",
            "settled", "discarded"}

Holder == [by : Holders, who : Conn \cup Tx \cup Sub \cup {nil}]

At(by)        == [by |-> by, who |-> nil]
HeldBy(by, w) == [by |-> by, who |-> w]

SubPlaces == {"none", "out", "request", "ready", "topic", "sending",
              "subCh", "unacked", "gone"}

\* Places where a Subscription object has a frame allocated to it.
Loaded == {"sending", "subCh", "unacked"}

-----------------------------------------------------------------------------
(* Channels *)

\* A send on subChannel or writeChannel can proceed.
HasRoomTight(ch) == Len(ch) < maxPendingWrites - 1      \* faulty variant
HasRoom(ch) == Len(ch) < maxPendingWrites

\* A send on requestChannel can proceed.
RequestRoomOffByOne == Len(reqCh) <= RequestCap         \* faulty variant
RequestRoom == Len(reqCh) < RequestCap

-----------------------------------------------------------------------------
(* SubscriptionList, shared by Queue.subs and Conn.subList *)

\* Get: the first subscription leaves the list and is unlisted.
AfterGetKept(list) == list                              \* faulty variant
AfterGet(list) == Tail(list)

UnlistForgotten(s) == UNCHANGED listed                  \* faulty variant
Unlist(s) == listed' = [listed EXCEPT ![s] = FALSE]

\* Remove: element i is the first occurrence of s, and leaves the list.
FirstAt(list, s, i) == list[i] = s /\ \A j \in 1..(i - 1) : list[j] /= s
Absent(list, s) == \A i \in DOMAIN list : list[i] /= s

AfterRemoveKept(list, i) == list                        \* faulty variant
AfterRemove(list, i) == RemoveAt(list, i)

\* Ack and Nack remove element i and leave the subscription's subList alone.
AfterAckKept(list, i) == list                           \* faulty variant
AfterAck(list, i) == RemoveAt(list, i)

\* Subscription.msgId: no code assigns the field, so it is always 0.
SubMsgId(s) == 0

\* It panics for an unknown ack mode.
IsAckedBy(s, id) ==
    \/ SubAck[s] = "auto"
    \/ SubAck[s] = "client" /\ id >= SubMsgId(s)
    \/ SubAck[s] = "client-individual" /\ id = SubMsgId(s)

IsNackedBy(s, id) == id = SubMsgId(s)

=============================================================================
