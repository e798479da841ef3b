---------------------------- MODULE ServerContract ----------------------------
(***************************************************************************)
(* The server implements QueueContract.  The state of a message is read    *)
(* off the lists and channels in which the server really has it; history   *)
(* only tells a message that was not sent from one that is finished.       *)
(***************************************************************************)
EXTENDS Server

QueueMsg == {m \in Msg : MsgDest[m] \in Queue}

InState(at, who) == [at |-> at, who |-> who]

\* A request brings a message to its queue for the first time or again.
OnItsWay(r) == InState(IF r.op = "Requeue" THEN "returning" ELSE "coming", nil)

\* A message that Subscription object s bears is with the client of s, which has
\* seen it when s waits for an acknowledgement.
With(s) ==
    InState(IF \E i \in DOMAIN subList[SubConn[s]] : subList[SubConn[s]][i] = s
            THEN "shown" ELSE "given", SubConn[s])

StateAt(p) ==
    CASE p.at = "tx"      -> InState("held", p.who)
      [] p.at = "work"    -> InState("coming", nil)
      [] p.at = "out"     -> OnItsWay(out[p.who][p.pos])
      [] p.at = "request" -> OnItsWay(reqCh[p.pos])
      [] p.at = "store"   -> InState("waiting", nil)
      [] p.at = "sub"     -> With(p.who)

StateOf(m) ==
    LET copies == Copies(m) IN
      IF copies /= {} THEN StateAt(CHOOSE p \in copies : TRUE)
      ELSE InState(IF msgAt[m] = At("client") THEN "unsent" ELSE "finished", nil)

Contract == INSTANCE QueueContract WITH
    Client <- Conn,
    Message <- QueueMsg,
    Transaction <- Tx,
    QueueOf <- [m \in QueueMsg |-> MsgDest[m]],
    None <- nil,
    state <- [m \in QueueMsg |-> StateOf(m)],
    waiting <- store,
    readers <- [q \in Queue |-> {c \in Conn : \E s \in subs[c] : SubDest[s] = q}],
    seen <- [c \in Conn |-> seen[c] \cap QueueMsg]

\* The goroutines of the server, in whatever order they run, do to the messages of
\* queues only what QueueContract allows: a message is with one client at a time,
\* is written to it only while it subscribes, never skips those that wait before
\* it, returns to the front, never gets lost, and comes out of a transaction
\* together with the rest of it.
MeetsContract == Contract!Spec

=============================================================================
