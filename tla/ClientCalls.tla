----------------------------- MODULE ClientCalls -----------------------------
(***************************************************************************)
(* The functions of a client connection that the application calls         *)
(* (conn.go, transaction.go).  Each takes closeMutex, looks at closed and  *)
(* puts a request on writeCh; Send, Disconnect and Subscribe return before *)
(* they release the mutex, sendFrame releases it when the request is on    *)
(* the channel.  A call whose frame has a receipt header then waits for    *)
(* the answer on its response channel.                                     *)
(***************************************************************************)
EXTENDS ClientLoops

\* The calls that wait for their answer with the mutex held (defer Unlock).
KeepsMutex(k) == k \in Receipted /\ Op[k] \in {"Send", "Disconnect"}

UnlockForgotten(k) == UNCHANGED closeMutex                      \* faulty variant
Unlock(k) == closeMutex' = IF closeMutex = k THEN nil ELSE closeMutex

\* What createAckNackFrame returns: a frame, nothing to send, or an error.  A message
\* that was not received cannot be acknowledged here (Callable), nor one without its
\* message-id or ack header: the code refuses both as it does a NACK in mode auto.
SupportsNack(v) == v \in {"1.1", "1.2"}

AckNack(k) ==
    CASE Op[k] \in {"Nack", "TxNack"} /\ ~SupportsNack(Version) -> "error"
      [] SubMode[SubOf[k]] /= "auto" -> "frame"
      [] Op[k] \in {"Ack", "TxAck"} -> "nothing"
      [] OTHER -> "error"

\* What the application needs before it makes the call: the Subscription
\* that Subscribe returned, a message received on it, the Transaction that
\* Begin returned.  A Transaction has no lock, and is used by one goroutine.
Callable(k) ==
    /\ \A j \in Before[k] : pc[j] = "done"
    /\ Op[k] \in {"Unsubscribe", "Ack", "Nack", "TxAck", "TxNack"} =>
         \E j \in Call : Op[j] = "Subscribe" /\ SubOf[j] = SubOf[k] /\ result[j] = "ok"
    /\ Op[k] \in {"Ack", "Nack", "TxAck", "TxNack"} => got[SubOf[k]] /= <<>>
    /\ TxOf[k] /= nil /\ Op[k] /= "Begin" =>
         \E j \in Call : Op[j] = "Begin" /\ TxOf[j] = TxOf[k] /\ pc[j] = "done"
    /\ TxOf[k] /= nil => \A j \in Call : TxOf[j] = TxOf[k] => pc[j] \in {"idle", "done"}

\* The call returns before it has sent anything: the transaction is completed,
\* the subscription is not active, there is nothing to acknowledge.
CompletedIgnored(k) == FALSE                                    \* faulty variant
TxCompleted(k) == TxOf[k] \in completed

Refused(k) ==
    \/ TxCompleted(k)
    \/ Op[k] \in {"Ack", "Nack", "TxAck", "TxNack"} /\ AckNack(k) = "error"
    \/ Op[k] = "TxSend" /\ k \in Invalid
    \/ Op[k] = "Unsubscribe" /\ state[SubOf[k]] /= "active"

Unneeded(k) == Op[k] \in {"Ack", "TxAck"} /\ AckNack(k) = "nothing"

\* The call begins.  Unsubscribe makes the subscription closing, also when an
\* option fails afterwards.
Start(k) ==
    /\ ~crashed
    /\ pc[k] = "idle"
    /\ Callable(k)
    /\ \/ Refused(k) /\ Return(k, "refused") /\ UNCHANGED state
       \/ ~Refused(k) /\ Unneeded(k) /\ Return(k, "ok") /\ UNCHANGED state
       \/ /\ ~Refused(k) /\ ~Unneeded(k)
          /\ IF Op[k] = "Unsubscribe" /\ k \in Invalid THEN Return(k, "refused")
             ELSE Goto(k, "lock")
          /\ state' = [s \in Sub |-> IF Op[k] = "Unsubscribe" /\ s = SubOf[k]
                                     THEN "closing" ELSE state[s]]
    /\ UNCHANGED <<lockVars, loopVars, chanVars, completed, C, CClosed, reader,
                   held, once, peerVars, connOpen, wire, got, crashed>>

-----------------------------------------------------------------------------
(* With the mutex *)

Locked(k) ==
    /\ ~crashed
    /\ pc[k] = "lock"
    /\ closeMutex = nil

\* The connection is closed: Disconnect and MustDisconnect have nothing to do,
\* Send fails, Subscribe and sendFrame close the connection again.
LockClosed(k) ==
    /\ Locked(k)
    /\ closed
    /\ CASE Op[k] \in {"Disconnect", "MustDisconnect"} -> Return(k, "noop")
         [] Op[k] = "Unsubscribe" -> Goto(k, "close")
         [] OTHER -> Return(k, "closed")
    /\ connOpen' = (connOpen /\ Op[k] \in {"Disconnect", "MustDisconnect", "Send"})
    /\ UNCHANGED <<lockVars, loopVars, chanVars, completed, subVars, peerVars,
                   wire, got, crashed>>

\* An option of Send or Subscribe fails.
LockInvalid(k) ==
    /\ Locked(k)
    /\ ~closed
    /\ Op[k] \in {"Send", "Subscribe"} /\ k \in Invalid
    /\ Return(k, "refused")
    /\ UNCHANGED <<lockVars, loopVars, chanVars, completed, subVars, peerVars,
                   connOpen, wire, got, crashed>>

\* Go on to the write; Subscribe starts the goroutine of the subscription.
LockOpen(k) ==
    /\ Locked(k)
    /\ ~closed
    /\ ~(Op[k] \in {"Send", "Subscribe"} /\ k \in Invalid)
    /\ Op[k] /= "MustDisconnect"
    /\ closeMutex' = k
    /\ Goto(k, "write")
    /\ LET new == {s \in Sub : Op[k] = "Subscribe" /\ s = SubOf[k]} IN
         /\ state' = [s \in Sub |-> IF s \in new THEN "active" ELSE state[s]]
         /\ reader' = [s \in Sub |-> IF s \in new THEN "receive" ELSE reader[s]]
    /\ UNCHANGED <<closed, loopVars, chanVars, completed, C, CClosed, held, once,
                   peerVars, connOpen, wire, got, crashed>>

MustDisconnect(k) ==
    /\ Locked(k)
    /\ ~closed
    /\ Op[k] = "MustDisconnect"
    /\ writeClosed' = TRUE
    /\ MarkClosed
    /\ connOpen' = FALSE
    /\ Return(k, "ok")
    /\ UNCHANGED <<closeMutex, loopVars, writeCh, readCh, readClosed, completed,
                   subVars, peerVars, wire, got, crashed>>

\* Put the request on writeCh, which panics when it is closed.
Complete(k, ok) ==
    completed' = completed \cup {t \in Tx : ok /\ t = TxOf[k]
                                            /\ Op[k] \in {"Commit", "Abort"}}

PutRequest(k) ==
    /\ ~crashed
    /\ pc[k] = "write"
    /\ Len(writeCh) < WriteCap
    /\ writeCh' = Append(writeCh, k)
    /\ crashed' = writeClosed
    /\ closeMutex' = IF KeepsMutex(k) THEN k ELSE nil
    /\ CASE k \in Receipted -> Goto(k, "await") /\ UNCHANGED completed
         [] Op[k] = "Unsubscribe" -> Goto(k, "check") /\ UNCHANGED completed
         [] OTHER -> Return(k, "ok") /\ Complete(k, TRUE)
    /\ UNCHANGED <<closed, loopVars, writeClosed, readCh, readClosed, subVars,
                   peerVars, connOpen, wire, got>>

\* sendDataToWriteChWithTimeout: only Send gives up a full writeCh.
PutTimeout(k) ==
    /\ ~crashed
    /\ pc[k] = "write"
    /\ Op[k] = "Send"
    /\ k \in Slow
    /\ Return(k, "timeout")
    /\ Unlock(k)
    /\ UNCHANGED <<closed, loopVars, chanVars, completed, subVars, peerVars,
                   connOpen, wire, got, crashed>>

-----------------------------------------------------------------------------
(* The answer *)

\* readReceiptWithTimeout, and the wait of sendFrame: RECEIPT or ERROR.
AcceptsAny(f) == TRUE                                           \* faulty variant
Accepts(f) == f.cmd = "RECEIPT"

Answer(k) ==
    /\ pc[k] = "await"
    /\ Sent(k)
    /\ LET ok == Accepts(sending.frame)
           bye == Op[k] = "Disconnect" /\ ok
       IN /\ Return(k, IF ok THEN "ok" ELSE "error")
          /\ Complete(k, ok)
          /\ closed' = (closed \/ bye)
          /\ connOpen' = (connOpen /\ ~bye)
    /\ Unlock(k)
    /\ UNCHANGED subVars

\* No answer in time: sendFrame returns ErrClosedUnexpectedly; Disconnect closes
\* the connection.
AwaitTimeout(k) ==
    /\ ~crashed
    /\ pc[k] = "await"
    /\ k \in Slow
    /\ Return(k, IF Op[k] \in FrameOps THEN "closed" ELSE "timeout")
    /\ Unlock(k)
    /\ closed' = (closed \/ Op[k] = "Disconnect")
    /\ connOpen' = (connOpen /\ Op[k] /= "Disconnect")
    /\ UNCHANGED <<loopVars, chanVars, completed, subVars, peerVars, wire, got,
                   crashed>>

CallStep(k) ==
    \/ LockClosed(k) \/ LockInvalid(k) \/ LockOpen(k) \/ MustDisconnect(k)
    \/ PutRequest(k) \/ PutTimeout(k) \/ Answer(k) \/ AwaitTimeout(k)

=============================================================================
