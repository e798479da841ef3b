---------------------------- MODULE QueueContract ----------------------------
(***************************************************************************)
(* What the queues of the server promise their clients, without the        *)
(* goroutines, channels and Subscription objects that keep the promise.    *)
(*                                                                         *)
(* A message that a client sends comes to its queue, at once or when its   *)
(* transaction is committed, waits there in the order of arrival, is given *)
(* to one client at a time, is written to that client while it subscribes  *)
(* to the queue, and is settled; or it is returned, not settled, and waits *)
(* before all the others.                                                  *)
(***************************************************************************)
EXTENDS Sequences

CONSTANTS
    Client,
    Queue,
    Message,
    Transaction,
    QueueOf,        \* the queue to which each message is sent
    None            \* no client and no transaction

VARIABLES
    state,          \* the state of each message
    waiting,        \* the messages that wait in each queue
    readers,        \* the clients that subscribe to each queue
    seen            \* the messages written to each client

vars == <<state, waiting, readers, seen>>

\* The state of a message: at one of these points, with a client or in a
\* transaction when it is given, shown or held.
State(at, who) == [at |-> at, who |-> who]
Plain(at) == State(at, None)

Unsent    == Plain("unsent")
Coming    == Plain("coming")        \* on its way to the queue
Returning == Plain("returning")     \* on its way back to the queue
Waiting   == Plain("waiting")
Finished  == Plain("finished")      \* settled, or discarded with its transaction
Held(t)   == State("held", t)
Given(c)  == State("given", c)
Shown(c)  == State("shown", c)      \* written and to be acknowledged

Init ==
    /\ state = [m \in Message |-> Unsent]
    /\ waiting = [q \in Queue |-> <<>>]
    /\ readers = [q \in Queue |-> {}]
    /\ seen = [c \in Client |-> {}]

Becomes(m, x) == state' = [state EXCEPT ![m] = x]

Send(m) ==
    /\ state[m] = Unsent
    /\ \/ Becomes(m, Coming)
       \/ \E t \in Transaction : Becomes(m, Held(t))
    /\ UNCHANGED <<waiting, readers, seen>>

OpenTransactions == {t \in Transaction : \E m \in Message : state[m] = Held(t)}

\* The messages of transaction t come to their queues, all of them.
Commit(t) ==
    /\ UNCHANGED <<waiting, readers, seen>>
    /\ state' = [m \in Message |-> IF state[m] = Held(t) THEN Coming ELSE state[m]]

\* The messages of the transactions T are discarded, all of them.
Discard(T) ==
    /\ UNCHANGED <<waiting, readers, seen>>
    /\ state' = [m \in Message |->
                    IF \E t \in T : state[m] = Held(t) THEN Finished ELSE state[m]]

Arrive(m) ==
    /\ \/ /\ state[m] = Coming
          /\ waiting' = [waiting EXCEPT ![QueueOf[m]] = Append(@, m)]
       \/ /\ state[m] = Returning
          /\ waiting' = [waiting EXCEPT ![QueueOf[m]] = <<m>> \o @]
    /\ Becomes(m, Waiting)
    /\ UNCHANGED <<readers, seen>>

\* Give the first message that waits; one that arrives need not wait when
\* there is none.
Give(m, c) ==
    /\ \/ /\ state[m] = Waiting
          /\ m = Head(waiting[QueueOf[m]])
          /\ waiting' = [waiting EXCEPT ![QueueOf[m]] = Tail(@)]
       \/ /\ state[m] \in {Coming, Returning}
          /\ waiting[QueueOf[m]] = <<>>
          /\ UNCHANGED waiting
    /\ Becomes(m, Given(c))
    /\ UNCHANGED <<readers, seen>>

\* Write m to its client; without an acknowledgement to come, it is settled.
Write(m, c) ==
    /\ state[m] = Given(c)
    /\ c \in readers[QueueOf[m]]
    /\ Becomes(m, Shown(c)) \/ Becomes(m, Finished)
    /\ seen' = [seen EXCEPT ![c] = @ \cup {m}]
    /\ UNCHANGED <<waiting, readers>>

Settle(m, c) ==
    /\ state[m] = Shown(c)
    /\ Becomes(m, Finished)
    /\ UNCHANGED <<waiting, readers, seen>>

Return(m, c) ==
    /\ state[m] \in {Given(c), Shown(c)}
    /\ Becomes(m, Returning)
    /\ UNCHANGED <<waiting, readers, seen>>

Subscribe(c, q) ==
    /\ readers' = [readers EXCEPT ![q] = @ \cup {c}]
    /\ UNCHANGED <<state, waiting, seen>>

Unsubscribe(c, q) ==
    /\ readers' = [readers EXCEPT ![q] = @ \ {c}]
    /\ UNCHANGED <<state, waiting, seen>>

Next ==
    \/ \E T \in SUBSET OpenTransactions : Discard(T)
    \/ \E t \in OpenTransactions : Commit(t)
    \/ \E m \in Message : Send(m) \/ Arrive(m)
    \/ \E m \in Message, c \in Client :
          Give(m, c) \/ Write(m, c) \/ Settle(m, c) \/ Return(m, c)
    \/ \E c \in Client, q \in Queue : Subscribe(c, q) \/ Unsubscribe(c, q)

Spec == Init /\ [][Next]_vars

=============================================================================
