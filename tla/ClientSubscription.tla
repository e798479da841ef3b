-------------------------- MODULE ClientSubscription --------------------------
(***************************************************************************)
(* A subscription of a client (subscription.go): the goroutine readLoop,   *)
(* which turns the frames of its response channel into messages on C, the  *)
(* application that reads C, and Unsubscribe, which sends its frame and    *)
(* then waits on a condition variable for readLoop to close the            *)
(* subscription.  closeChannel runs under a sync.Once and without the      *)
(* mutex of the condition variable.                                        *)
(***************************************************************************)
EXTENDS ClientCalls

-----------------------------------------------------------------------------
(* readLoop *)

\* A frame comes from processLoop: MESSAGE goes to C, ERROR closes the
\* subscription with an error, RECEIPT without.  (What closeChannel does not
\* do because the state is closed already is decided by closeOnce.)
ReceiveFrame(s) ==
    /\ reader[s] = "receive"
    /\ Sent(s)
    /\ reader' = [reader EXCEPT ![s] =
                     CASE sending.frame.cmd = "MESSAGE" -> "put"
                       [] sending.frame.cmd = "ERROR" -> "fail"
                       [] sending.frame.cmd = "RECEIPT" -> "finish"]
    /\ held' = [held EXCEPT ![s] = sending.frame.n]
    /\ UNCHANGED <<lockVars, callVars, state, C, CClosed, once, connOpen>>

\* The response channel has been closed ("channel read failed").
ReceiveNothing(s) ==
    /\ ~crashed
    /\ reader[s] = "receive"
    /\ s \in shut
    /\ reader' = [reader EXCEPT ![s] = "fail"]
    /\ UNCHANGED <<lockVars, loopVars, chanVars, callVars, state, C, CClosed,
                   held, once, peerVars, connOpen, wire, got, crashed>>

\* s.C <- msg: it blocks while C is full, and panics when C is closed.
PutOrDrop(s, item) ==                                           \* faulty variant
    /\ C' = IF Len(C[s]) < SubCap THEN [C EXCEPT ![s] = Append(@, item)] ELSE C
    /\ crashed' = CClosed[s]
PutOnC(s, item) ==
    /\ CClosed[s] \/ Len(C[s]) < SubCap
    /\ C' = [C EXCEPT ![s] = Append(@, item)]
    /\ crashed' = CClosed[s]

PutMessage(s) ==
    /\ ~crashed
    /\ reader[s] = "put"
    /\ PutOnC(s, held[s])
    /\ reader' = [reader EXCEPT ![s] = "receive"]
    /\ held' = [held EXCEPT ![s] = 0]
    /\ UNCHANGED <<lockVars, loopVars, chanVars, callVars, state, CClosed, once,
                   peerVars, connOpen, wire, got>>

ReaderEnds(s) ==
    /\ ~crashed
    /\ reader[s] \in {"fail", "finish"}
    /\ once[s] = "done"
    /\ reader' = [reader EXCEPT ![s] = "ended"]
    /\ UNCHANGED <<lockVars, loopVars, chanVars, callVars, state, C, CClosed,
                   held, once, peerVars, connOpen, wire, got, crashed>>

-----------------------------------------------------------------------------
(* closeChannel *)

\* closeOnce lets the first caller, readLoop or an Unsubscribe that found the
\* connection closed, run the function; the others wait until it is done.
OnceAgain(s) == once[s] \in {"free", "done"}                     \* faulty variant
OnceFree(s) == once[s] = "free"

CloseBegins(s) ==
    /\ ~crashed
    /\ OnceFree(s)
    /\ \/ /\ \/ reader[s] = "fail"
             \/ \E k \in Call : pc[k] = "close" /\ SubOf[k] = s
          /\ once' = [once EXCEPT ![s] = "put"]
       \/ /\ reader[s] = "finish"
          /\ once' = [once EXCEPT ![s] = "store"]
    /\ UNCHANGED <<lockVars, loopVars, chanVars, callVars, state, C, CClosed,
                   reader, held, peerVars, connOpen, wire, got, crashed>>

\* The error message is put on C ...
ClosePuts(s) ==
    /\ ~crashed
    /\ once[s] = "put"
    /\ PutOnC(s, 0)
    /\ once' = [once EXCEPT ![s] = "store"]
    /\ UNCHANGED <<lockVars, loopVars, chanVars, callVars, state, CClosed, reader,
                   held, peerVars, connOpen, wire, got>>

\* ... the state becomes closed ...
CloseStores(s) ==
    /\ ~crashed
    /\ once[s] = "store"
    /\ state' = [state EXCEPT ![s] = "closed"]
    /\ once' = [once EXCEPT ![s] = "shut"]
    /\ UNCHANGED <<lockVars, loopVars, chanVars, callVars, C, CClosed, reader,
                   held, peerVars, connOpen, wire, got, crashed>>

\* ... and C is closed and everyone who waits is woken.
Broadcast(s) ==
    /\ pc' = [k \in Call |-> IF pc[k] = "wait" /\ SubOf[k] = s THEN "woken" ELSE pc[k]]
    /\ UNCHANGED result

CloseShuts(s) ==
    /\ ~crashed
    /\ once[s] = "shut"
    /\ CClosed' = [CClosed EXCEPT ![s] = TRUE]
    /\ Broadcast(s)
    /\ once' = [once EXCEPT ![s] = "done"]
    /\ UNCHANGED <<lockVars, loopVars, chanVars, completed, state, C, reader,
                   held, peerVars, connOpen, wire, got, crashed>>

-----------------------------------------------------------------------------
(* Unsubscribe, after its frame has been sent *)

\* What the steps of Unsubscribe leave alone.
Waiting(k) ==
    /\ ~crashed
    /\ UNCHANGED <<lockVars, loopVars, chanVars, completed, state, CClosed, reader,
                   held, once, peerVars, connOpen, wire, got>>

\* The connection was closed: return when closeChannel has been executed.
UnsubscribeFails(k) ==
    /\ Waiting(k)
    /\ pc[k] = "close"
    /\ once[SubOf[k]] = "done"
    /\ Return(k, "closed")
    /\ UNCHANGED <<C, crashed>>

\* The loop looks at the state ...
UnsubscribeChecks(k) ==
    /\ Waiting(k)
    /\ pc[k] = "check"
    /\ IF state[SubOf[k]] = "closed" THEN Return(k, "ok") ELSE Goto(k, "arm")
    /\ UNCHANGED <<C, crashed>>

\* ... and then starts to wait: a Broadcast in between is missed.
UnsubscribeWaits(k) ==
    /\ Waiting(k)
    /\ pc[k] = "arm"
    /\ Goto(k, "wait")
    /\ UNCHANGED <<C, crashed>>

UnsubscribeWakes(k) ==
    /\ Waiting(k)
    /\ pc[k] = "woken"
    /\ Goto(k, "check")
    /\ UNCHANGED <<C, crashed>>

\* waitWithTimeout gives up, and an error message is put on C.
UnsubscribeExpires(k) ==
    /\ Waiting(k)
    /\ pc[k] \in {"arm", "wait", "woken"}
    /\ k \in Slow
    /\ Goto(k, "expired")
    /\ UNCHANGED <<C, crashed>>

UnsubscribeRetries(k) ==                                        \* faulty variant
    /\ Waiting(k)
    /\ pc[k] = "expired"
    /\ Goto(k, "check")
    /\ UNCHANGED <<C, crashed>>
UnsubscribeGivesUp(k) ==
    /\ Waiting(k)
    /\ pc[k] = "expired"
    /\ PutOnC(SubOf[k], 0)
    /\ Return(k, "timeout")

UnsubscribeStep(k) ==
    \/ UnsubscribeFails(k) \/ UnsubscribeChecks(k) \/ UnsubscribeWaits(k)
    \/ UnsubscribeWakes(k) \/ UnsubscribeExpires(k) \/ UnsubscribeGivesUp(k)

-----------------------------------------------------------------------------
(* The application *)

\* It receives from C, or calls Read.
Receive(s) ==
    /\ ~crashed
    /\ C[s] /= <<>>
    /\ got' = [got EXCEPT ![s] = Append(@, Head(C[s]))]
    /\ C' = [C EXCEPT ![s] = Tail(@)]
    /\ UNCHANGED <<lockVars, loopVars, chanVars, callVars, state, CClosed, reader,
                   held, once, peerVars, connOpen, wire, crashed>>

ReaderStep(s) ==
    ReceiveFrame(s) \/ ReceiveNothing(s) \/ PutMessage(s) \/ ReaderEnds(s)

CloseStep(s) ==
    CloseBegins(s) \/ ClosePuts(s) \/ CloseStores(s) \/ CloseShuts(s)

=============================================================================
