------------------------------- MODULE Client -------------------------------
(***************************************************************************)
(* A client connection with its subscriptions, transactions and concurrent *)
(* calls, the server at the other end, and the properties of the whole.    *)
(***************************************************************************)
EXTENDS ClientSubscription, SequencesExt

Init ==
    /\ closeMutex = nil /\ closed = FALSE
    /\ writeCh = <<>> /\ writeClosed = FALSE
    /\ readCh = <<>> /\ readClosed = FALSE
    /\ channels = {} /\ shut = {} /\ loop = "select" /\ sending = nil
    /\ pc = [k \in Call |-> "idle"]
    /\ result = [k \in Call |-> "none"]
    /\ completed = {}
    /\ state = [s \in Sub |-> "none"]
    /\ C = [s \in Sub |-> <<>>]
    /\ CClosed = [s \in Sub |-> FALSE]
    /\ reader = [s \in Sub |-> "none"]
    /\ held = [s \in Sub |-> 0]
    /\ once = [s \in Sub |-> "free"]
    /\ connOpen = TRUE /\ peerOpen = TRUE
    /\ wire = <<>> /\ served = 0 /\ network = <<>>
    /\ crashed = FALSE
    /\ sentTo = [s \in Sub |-> 0]
    /\ got = [s \in Sub |-> <<>>]
    /\ confirmed = {}

Next ==
    \/ ReadLoop \/ ReadEvent \/ WriteEvent \/ HeartBeatFails
    \/ LoopDisconnects \/ LoopFails \/ Server
    \/ \E k \in Call : Start(k) \/ CallStep(k) \/ UnsubscribeStep(k)
    \/ \E s \in Sub : ReaderStep(s) \/ CloseStep(s) \/ Receive(s)

Spec == Init /\ [][Next]_vars

\* Every goroutine that can run does, select takes each ready channel sooner or
\* later, timers expire, and the application reads its messages.  Nothing is
\* assumed of the server, and no call has to be made.
Fairness ==
    /\ WF_vars(ReadLoop) /\ WF_vars(ReadEvent) /\ WF_vars(WriteEvent)
    /\ WF_vars(LoopDisconnects) /\ WF_vars(LoopFails)
    /\ \A k \in Call : WF_vars(CallStep(k) \/ UnsubscribeStep(k))
    /\ \A s \in Sub : WF_vars(ReaderStep(s)) /\ WF_vars(CloseStep(s))
                      /\ WF_vars(Receive(s))

FairSpec == Spec /\ Fairness

-----------------------------------------------------------------------------
(* Type correctness *)

\* Every variable holds a value of its Go type; no channel exceeds its buffer.
TypeOK ==
    /\ closeMutex \in Call \cup {nil} /\ closed \in BOOLEAN
    /\ writeCh \in Seq(Call) /\ Len(writeCh) <= WriteCap /\ writeClosed \in BOOLEAN
    /\ readCh \in Seq(Frame) /\ Len(readCh) <= ReadCap /\ readClosed \in BOOLEAN
    /\ channels \subseteq Id /\ shut \subseteq Sub
    /\ loop \in LoopPlaces /\ sending \in Sending \cup {nil}
    /\ pc \in [Call -> CallPlaces]
    /\ result \in [Call -> Results]
    /\ completed \subseteq Tx
    /\ state \in [Sub -> {"none", "active", "closing", "closed"}]
    /\ C \in [Sub -> Seq(Item)]
    /\ \A s \in Sub : crashed \/ Len(C[s]) <= SubCap
    /\ CClosed \in [Sub -> BOOLEAN]
    /\ reader \in [Sub -> ReaderPlaces]
    /\ held \in [Sub -> Item]
    /\ once \in [Sub -> OnceStages]
    /\ connOpen \in BOOLEAN /\ peerOpen \in BOOLEAN /\ crashed \in BOOLEAN
    /\ wire \in Seq(Call) /\ served \in 0..Len(wire)
    /\ network \in Seq(Frame)
    /\ sentTo \in [Sub -> Nat] /\ got \in [Sub -> Seq(Item)]
    /\ confirmed \subseteq Call

-----------------------------------------------------------------------------
(* Safety *)

\* No goroutine of the client panics: nothing is sent on writeCh or on the C of
\* a subscription after another goroutine has closed it.
NoPanic == ~crashed

\* The only panics there are come from Unsubscribe, and are sends on a C that is
\* closed: one whose timeout has expired reports it on C, which readLoop has
\* closed in the meantime; or one that finds the connection closed closes C while
\* readLoop has a message for it.
OnlyUnsubscribePanics ==
    crashed => \E k \in Call :
        /\ Op[k] = "Unsubscribe"
        /\ CClosed[SubOf[k]]
        /\ \/ result[k] = "timeout"
           \/ pc[k] = "close" \/ result[k] = "closed"

\* A call that asked for a receipt succeeds only when the server has sent the
\* RECEIPT for its own frame: no other call's RECEIPT, no ERROR, no timeout and
\* no closing of the connection is taken for it.
SuccessIsConfirmed ==
    \A k \in Receipted : result[k] = "ok" => k \in confirmed

\* When processLoop has ended, the calls that still wait for an answer and the
\* subscriptions that still wait for frames are those whose request it never
\* took from writeCh: everyone it knew of has been told, by a frame or by the
\* closing of the response channel.
EveryoneTold ==
    loop \in {"disconnect", "fail", "ended"} =>
        /\ \A k \in Call : pc[k] = "await" => Contains(writeCh, k)
        /\ \A k \in Call : Op[k] = "Subscribe" /\ reader[SubOf[k]] \in {"receive", "put"}
              => pc[k] = "write" \/ Contains(writeCh, k) \/ SubOf[k] \in shut

\* The way of a subscription's messages from the server to the application, the
\* oldest first: the number of each MESSAGE for s, and 0 for anything else.
Number(f, s) == IF f.cmd = "MESSAGE" /\ f.id = s THEN f.n ELSE 0
Numbers(q, s) == [i \in DOMAIN q |-> Number(q[i], s)]
Offered(s) == IF loop = "send" THEN Number(sending.frame, s) ELSE 0
Path(s) == got[s] \o C[s] \o <<held[s]>> \o <<Offered(s)>>
           \o Numbers(readCh, s) \o Numbers(network, s)

\* The messages on path p are numbers 1 to n, each once and in this order.
InOrder(p, n) ==
    /\ \A i, j \in DOMAIN p : i < j /\ p[i] > 0 /\ p[j] > 0 => p[i] < p[j]
    /\ {p[i] : i \in DOMAIN p} \ {0} = 1..n

\* The messages of a subscription are all there, once and in the order sent, in what
\* the application has received, in C and on their way, also around UNSUBSCRIBE and
\* when processLoop has ended: none is lost, doubled or overtaken.
MessagesInOrder ==
    ~crashed => \A s \in Sub \ ReplyTo : InOrder(Path(s), sentTo[s])

\* When Commit or Abort has returned without an error, its frame was the last one
\* of the transaction: what another frame of it would do is refused by the
\* client, because the server would take it for an error and close the
\* connection.  (After a timeout the transaction goes on.)
TxEndsOnce ==
    \A i, j \in DOMAIN wire :
        /\ Op[wire[i]] \in {"Commit", "Abort"}
        /\ result[wire[i]] = "ok"
        /\ TxOf[wire[i]] = TxOf[wire[j]]
        => j <= i

-----------------------------------------------------------------------------
(* Liveness *)

\* Every call returns, whatever the server does: since each is made once, again
\* and again there is none under way.  (Unsubscribe has a property of its own.)
CallsReturn ==
    []<>(\A k \in Call : pc[k] \in {"idle", "done"} \/ Op[k] = "Unsubscribe" \/ crashed)

\* processLoop offers a frame to a call that has given up waiting for its RECEIPT:
\* the channel stays in channels, and nobody reads it any more.
OffersToNobody ==
    /\ loop = "send"
    /\ sending.cur \in Call
    /\ pc[sending.cur] = "done" /\ result[sending.cur] \in {"timeout", "closed"}

\* When the connection is lost, the channel C of every subscription that
\* processLoop knows, or that it has told of its end, is closed, so that the
\* application's loop over C ends; unless it is stuck before it tells them.
SubscriptionsEnd ==
    []<>(readClosed /\ ~crashed /\ ~OffersToNobody =>
           \A s \in Sub : s \in channels \/ reader[s] \in {"fail", "finish"} => CClosed[s])

\* When the connection is lost or closed, processLoop ends, although it needs the
\* mutex that Send and Disconnect hold while they wait for it; or it is stuck, in
\* sendError or before, at the channel of a call whose wait has timed out, and at
\* nothing else.
LoopEnds == readClosed ~> loop = "ended" \/ OffersToNobody \/ crashed

\* Unsubscribe with a timeout returns, or the timeout, whose report goes to C, meets
\* a C that is closed and panics.  The latter is what becomes of a Broadcast that
\* comes between the test of state and the wait: C is closed before it.
UnsubscribeReturns ==
    \A k \in Slow : Op[k] = "Unsubscribe" =>
        (pc[k] \in {"check", "close"} ~>
           pc[k] = "done" \/ (crashed /\ CClosed[SubOf[k]]))

=============================================================================
