------------------------------ MODULE ServerInv ------------------------------
(***************************************************************************)
(* The inductive invariant of the server.  The history variables subAt and *)
(* msgAt name the one holder of a Subscription object or a frame; each     *)
(* part below says of one list or channel that what it holds is there      *)
(* according to the history and is there once.  As subAt and msgAt are     *)
(* functions, two different containers then never hold the same thing.     *)
(***************************************************************************)
EXTENDS Server

Distinct(seq) == \A i, j \in DOMAIN seq : seq[i] = seq[j] => i = j

\* F is a family of lists: what is in F[k] belongs to k, is at place p
\* according to its history, and occurs once.
Lists(F, K, at, p, of) ==
    \A k \in K : /\ \A i \in DOMAIN F[k] : at[F[k][i]] = p /\ of[F[k][i]] = k
                /\ Distinct(F[k])

-----------------------------------------------------------------------------
(* Requests *)

WellFormed(r) ==
    /\ r.op \in {"Subscribe", "Unsubscribe"} => r.sub \in Sub /\ r.frame = nil
    /\ r.op \in {"Enqueue", "Requeue"} => r.frame \in Msg /\ r.sub = nil
    /\ r.op = "Requeue" => MsgDest[r.frame] \in Queue
    /\ r.op \in {"Connected", "Disconnected"} => r.sub = nil /\ r.frame = nil

\* Every request on its way is one that the processor can execute.
RequestInv ==
    /\ \A i \in DOMAIN reqCh : WellFormed(reqCh[i])
    /\ \A c \in Conn : \A i \in DOMAIN out[c] : WellFormed(out[c][i])

-----------------------------------------------------------------------------
(* Subscription objects *)

SubInRequest ==
    /\ \A i \in DOMAIN reqCh :
         reqCh[i].op = "Subscribe" => subAt[reqCh[i].sub] = "request"
    /\ \A i, j \in DOMAIN reqCh :
         /\ reqCh[i].op = "Subscribe" /\ reqCh[j].op = "Subscribe"
         /\ reqCh[i].sub = reqCh[j].sub
         => i = j

SubInOut ==
    \A c \in Conn :
       /\ \A i \in DOMAIN out[c] : out[c][i].op = "Subscribe" =>
            subAt[out[c][i].sub] = "out" /\ SubConn[out[c][i].sub] = c
       /\ \A i, j \in DOMAIN out[c] :
            out[c][i].op = "Subscribe" /\ out[c][j].op = "Subscribe" => i = j

SubInReady == Lists(qsubs, Queue, subAt, "ready", SubDest)

SubInTopic == Lists(tsubs, Topic, subAt, "topic", SubDest)

\* The processor delivers one queue frame, or topic frames only.
SubInProc ==
    \A i \in DOMAIN procOut : SubDest[procOut[i].sub] \in Queue =>
        Len(procOut) = 1 /\ subAt[procOut[i].sub] = "sending"

SubInSubCh == Lists(subCh, Conn, subAt, "subCh", SubConn)

SubInSubList == Lists(subList, Conn, subAt, "unacked", SubConn)

\* A frame is allocated exactly while the processor or the connection has the
\* object for delivery, and never to a subscription of a topic.
FrameOf(s) ==
    /\ subAt[s] \in Loaded =>
         /\ SubDest[s] \in Queue
         /\ frame[s] \in Msg
         /\ MsgDest[frame[s]] \in Queue
         /\ msgAt[frame[s]] = HeldBy("sub", s)
    /\ subAt[s] \notin Loaded \cup {"gone"} => frame[s] = nil
    /\ SubDest[s] \in Topic => frame[s] = nil

FrameInv == \A s \in Sub : FrameOf(s)

SubInv ==
    /\ SubInRequest /\ SubInOut /\ SubInReady /\ SubInTopic /\ SubInProc
    /\ SubInSubCh /\ SubInSubList /\ FrameInv

-----------------------------------------------------------------------------
(* Frames *)

MsgInTx ==
    \A t \in Tx : tx[t] /= nil =>
       /\ \A i \in DOMAIN tx[t] : tx[t][i].cmd = "SEND" =>
            tx[t][i].msg \in Msg /\ msgAt[tx[t][i].msg] = HeldBy("tx", t)
       /\ \A i, j \in DOMAIN tx[t] :
            /\ tx[t][i].cmd = "SEND" /\ tx[t][j].cmd = "SEND"
            /\ tx[t][i].msg = tx[t][j].msg
            => i = j

MsgInWork ==
    \A c \in Conn :
       /\ \A i \in DOMAIN work[c] : work[c][i].cmd = "SEND" =>
            work[c][i].msg \in Msg /\ msgAt[work[c][i].msg] = HeldBy("work", c)
       /\ \A i, j \in DOMAIN work[c] :
            /\ work[c][i].cmd = "SEND" /\ work[c][j].cmd = "SEND"
            /\ work[c][i].msg = work[c][j].msg
            => i = j

MsgInOut ==
    \A c \in Conn :
       /\ \A i \in DOMAIN out[c] : out[c][i].frame /= nil =>
            msgAt[out[c][i].frame] = HeldBy("out", c)
       /\ \A i, j \in DOMAIN out[c] :
            out[c][i].frame /= nil /\ out[c][j].frame /= nil => i = j

MsgInRequest ==
    /\ \A i \in DOMAIN reqCh : reqCh[i].frame /= nil =>
         msgAt[reqCh[i].frame] = At("request")
    /\ \A i, j \in DOMAIN reqCh :
         reqCh[i].frame /= nil /\ reqCh[i].frame = reqCh[j].frame => i = j

MsgInStore == Lists(store, Queue, msgAt, At("store"), MsgDest)

MsgInv == MsgInTx /\ MsgInWork /\ MsgInOut /\ MsgInRequest /\ MsgInStore

-----------------------------------------------------------------------------

\* Inductive: every object and frame in the server is where its history says,
\* once, and what is on its way can be executed.
IInv == TypeOK /\ WorkConserving /\ RequestInv /\ SubInv /\ MsgInv

-----------------------------------------------------------------------------
(* The converse: what the history says is held is really there *)

TxHas(t, m)    == tx[t] /= nil /\ \E i \in DOMAIN tx[t] : tx[t][i] = SendFrame(m)
WorkHas(c, m)  == \E i \in DOMAIN work[c] : work[c][i] = SendFrame(m)
OutHas(c, m)   == \E i \in DOMAIN out[c] : out[c][i].frame = m
RequestHas(m)  == \E i \in DOMAIN reqCh : reqCh[i].frame = m
StoreHas(q, m) == \E i \in DOMAIN store[q] : store[q][i] = m

MsgHeld(m) ==
    LET by == msgAt[m].by
        who == msgAt[m].who
    IN /\ by = "tx" => who \in Tx /\ TxHas(who, m)
       /\ by = "work" => who \in Conn /\ WorkHas(who, m)
       /\ by = "out" => who \in Conn /\ OutHas(who, m)
       /\ by = "request" => RequestHas(m)
       /\ by = "store" => MsgDest[m] \in Queue /\ StoreHas(MsgDest[m], m)
       /\ by = "sub" => /\ who \in Sub /\ frame[who] = m
                        /\ subAt[who] \in Loaded \/ WriteFailed(who)

ProcHas(s)    == \E i \in DOMAIN procOut : procOut[i].sub = s
SubChHas(s)   == \E i \in DOMAIN subCh[SubConn[s]] : subCh[SubConn[s]][i] = s
SubListHas(s) == \E i \in DOMAIN subList[SubConn[s]] : subList[SubConn[s]][i] = s

SubHeld(s) ==
    /\ subAt[s] = "sending" => ProcHas(s)
    /\ subAt[s] = "subCh" => SubChHas(s)
    /\ subAt[s] = "unacked" => SubListHas(s)

\* Each frame and each object with a frame is where its history says; only the frame
\* without destination over which the processor panics is not in its request any more.
HeldInv ==
    /\ \A m \in Msg : MsgHeld(m) \/ (crashed /\ MsgDest[m] = nil)
    /\ \A s \in Sub : SubHeld(s)

-----------------------------------------------------------------------------
(* Which objects believe that they are in a list *)

\* A client that wants acknowledgements has been written a message.
Shown(s) == SubAck[s] /= "auto" /\ seen[SubConn[s]] /= {}

\* s.subList is set outside a queue's list only after a message of a client that
\* wants acknowledgements.
ListedInv ==
    \A s \in Sub : subAt[s] = "unacked" \/ (listed[s] /\ subAt[s] /= "ready") => Shown(s)

-----------------------------------------------------------------------------
(* Whose frames and objects they are *)

\* A subscription gets frames of its own destination only, frames of topics go over
\* writeChannel, and a connection keeps its own subscriptions in subs.
RouteInv ==
    /\ \A s \in Sub : subAt[s] \in Loaded => MsgDest[frame[s]] = SubDest[s]
    /\ \A i \in DOMAIN procOut :
         SubDest[procOut[i].sub] \in Topic => MsgDest[procOut[i].frame] \in Topic
    /\ \A c \in Conn : \A i \in DOMAIN writeCh[c] : MsgDest[writeCh[c][i]] \in Topic
    /\ \A c \in Conn : \A s \in subs[c] : SubConn[s] = c

\* Inductive: history and containers agree in both directions, and every frame is
\* under way to its destination.
SInv == IInv /\ HeldInv /\ ListedInv /\ RouteInv

=============================================================================
