------------------------------ MODULE ClientInv ------------------------------
(***************************************************************************)
(* The inductive invariants of Client: how the calls, processLoop and the  *)
(* subscriptions depend on one another at every moment (CInv), and the     *)
(* messages on their way besides (MInv).  The safety properties of Client  *)
(* follow from them (ClientProofs).                                        *)
(***************************************************************************)
EXTENDS Client

\* Where a call can be, by its function; it has a result when it has returned.
PcInv ==
    \A k \in Call :
        /\ pc[k] \in {"close", "check", "arm", "wait", "woken", "expired"} =>
             Op[k] = "Unsubscribe"
        /\ pc[k] = "await" => k \in Receipted
        /\ pc[k] /= "done" => result[k] = "none"

\* closeMutex protects closed: whoever is about to write to writeCh holds it and
\* has seen that the connection is open, and writeCh is closed only after that.
MutexInv ==
    /\ \A k \in Call :
         /\ pc[k] = "write" => closeMutex = k /\ ~closed
         /\ pc[k] = "await" /\ KeepsMutex(k) => closeMutex = k
    /\ writeClosed => closed

\* A RECEIPT under way is one that the server has sent.
Genuine(f) == f.cmd = "RECEIPT" /\ f.id \in Call => f.id \in confirmed

ReceiptInv ==
    /\ \A i \in DOMAIN network : Genuine(network[i])
    /\ \A i \in DOMAIN readCh : Genuine(readCh[i])
    /\ \A k \in Receipted : result[k] = "ok" => k \in confirmed

\* processLoop sends a RECEIPT or a MESSAGE to the one it is for, and an error to
\* everyone before it leaves.
SendInv ==
    loop = "send" =>
        /\ sending \in Sending
        /\ Genuine(sending.frame)
        /\ sending.next = "select" =>
             /\ sending.frame.cmd /= "ERROR"
             /\ sending.frame.id = sending.cur
             /\ sending.rest = {}
             /\ sending.frame.cmd = "MESSAGE" => sending.cur \in channels
        /\ sending.next /= "select" => sending.frame.cmd = "ERROR"

\* Those to whom processLoop is still going to send: the ids in its map, and, when
\* it is about to leave, the ones it has not got to yet.
Known ==
    CASE loop = "select" -> channels
      [] loop = "send" -> IF sending.next = "select" THEN channels \cup {sending.cur}
                          ELSE {sending.cur} \cup sending.rest
      [] OTHER -> {}

\* Whoever waits is known to processLoop, or its request is still in writeCh.
AwaitInv ==
    \A k \in Call : pc[k] = "await" => Contains(writeCh, k) \/ k \in Known

ReaderInv ==
    \A k \in Call : Op[k] = "Subscribe" =>
        /\ pc[k] \in {"idle", "lock"} => reader[SubOf[k]] = "none"
        /\ reader[SubOf[k]] \in {"receive", "put"} =>
             \/ pc[k] = "write" \/ Contains(writeCh, k)
             \/ SubOf[k] \in shut \/ SubOf[k] \in Known

\* Only readLoop, when it stops receiving, and an Unsubscribe that finds the
\* connection closed begin to close C, and C is closed last.
Forced(s) == \E k \in Call : /\ Op[k] = "Unsubscribe" /\ SubOf[k] = s
                             /\ pc[k] = "close" \/ result[k] = "closed"

CloseInv ==
    \A s \in Sub :
        /\ once[s] /= "free" => reader[s] \in {"fail", "finish", "ended"} \/ Forced(s)
        /\ CClosed[s] => once[s] = "done"

\* What has been sent for a transaction: nothing comes after its end, and one call
\* at a time is made on it.
Ends(k) == Op[k] \in {"Commit", "Abort"} /\ (pc[k] = "await" \/ result[k] = "ok")

NoneAfter(q, k) ==
    \A i, j \in DOMAIN q : q[i] = k /\ TxOf[q[j]] = TxOf[k] => j <= i

SentInv ==
    \A k \in Call :
        /\ pc[k] \in {"idle", "lock", "write"} => ~Contains(wire, k) /\ ~Contains(writeCh, k)
        /\ Ends(k) =>
             /\ NoneAfter(wire, k) /\ NoneAfter(writeCh, k)
             /\ Contains(wire, k) =>
                  \A j \in DOMAIN writeCh : TxOf[writeCh[j]] /= TxOf[k]

TxInv ==
    \A k \in Call : TxOf[k] \in Tx =>
        /\ Op[k] \in {"Commit", "Abort"} /\ result[k] = "ok" => TxOf[k] \in completed
        /\ TxOf[k] \in completed => pc[k] \in {"idle", "done"}
        /\ \A j \in Call : TxOf[j] = TxOf[k] /\ j /= k =>
             pc[j] \in {"idle", "done"} \/ pc[k] \in {"idle", "done"}

\* The inductive invariant.
CInv ==
    /\ TypeOK
    /\ PcInv /\ MutexInv
    /\ ReceiptInv /\ SendInv
    /\ AwaitInv /\ ReaderInv
    /\ CloseInv /\ OnlyUnsubscribePanics
    /\ SentInv /\ TxInv

-----------------------------------------------------------------------------
(* The messages of a subscription *)

\* The client's frame op for s has been written.
Wrote(op, s) == \E i \in DOMAIN wire : Op[wire[i]] = op /\ SubOf[wire[i]] = s

\* There is a frame cmd for s on q, and the RECEIPT for s comes after every MESSAGE.
Bears(f, cmd, s) == f.cmd = cmd /\ f.id = s
Has(q, cmd, s) == \E i \in DOMAIN q : Bears(q[i], cmd, s)
LastIn(q, s) ==
    \A i, j \in DOMAIN q : Bears(q[i], "RECEIPT", s) /\ Bears(q[j], "MESSAGE", s) => j < i

\* Messages come only for subscriptions that processLoop knows; the answer to the
\* UNSUBSCRIBE of s is the last frame for s.
SubMessages(s) ==
    /\ Has(readCh, "MESSAGE", s) \/ Has(network, "MESSAGE", s) => s \in channels
    /\ Has(readCh, "RECEIPT", s) \/ Has(network, "RECEIPT", s) => Handled("Unsubscribe", s)
    /\ LastIn(readCh, s) /\ LastIn(network, s)
    /\ Has(readCh, "RECEIPT", s) => ~Has(network, "MESSAGE", s)
    /\ Wrote("Subscribe", s) => s \in channels \/ Handled("Unsubscribe", s)

\* Only a MESSAGE has a number.
Plain(f) == f.cmd /= "MESSAGE" => f.n = 0

PlainInv ==
    /\ \A i \in DOMAIN readCh : Plain(readCh[i])
    /\ \A i \in DOMAIN network : Plain(network[i])
    /\ loop = "send" => Plain(sending.frame)

\* readLoop holds one message at a time.
HeldInv == \A s \in Sub : reader[s] /= "put" => held[s] = 0

MessageInv == (\A s \in Sub \ ReplyTo : SubMessages(s)) /\ PlainInv /\ HeldInv

\* Inductive: as long as there is a message for a subscription, processLoop knows it.
MInv == CInv /\ MessageInv

=============================================================================
