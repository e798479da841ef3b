# TLA+ development for the STOMP library and server

The repository holds a STOMP client library (`conn.go`, `subscription.go`,
`transaction.go`, `frame/`) and a STOMP broker (`server/`). This directory holds
TLA+ models of both, of the connect sequence between them and of the frame codec,
an abstract specification of the broker's queues, TLC configurations and
machine-checked proofs about the broker, the client and the connect sequence.

## 1. Inventory

### Broker (`server/`)

| component | state it keeps | operations |
|---|---|---|
| request processor, `server/processor.go` | `requestChannel` (128 entries), the queue and topic managers | `Serve`: one goroutine that executes SubscribeOp, UnsubscribeOp, EnqueueOp, RequeueOp (ConnectedOp and DisconnectedOp are ignored); `Listen`: accepts connections |
| queues, `server/queue/` | per destination the list of ready subscriptions and the stored frames | Subscribe, Unsubscribe, Enqueue, Requeue |
| topics, `server/topic/` | per destination the list of subscriptions | Subscribe, Unsubscribe, Enqueue (fan-out) |
| subscription, `server/client/subscription.go`, `subscription_list.go` | connection, destination, id, ack mode, the frame allocated to it, the list it is in | SendQueueFrame, SendTopicFrame, IsAckedBy, IsNackedBy; Add, Get, Remove, Ack, Nack of a list |
| connection, `server/client/conn.go` | `subChannel` and `writeChannel` (16 entries each), `readChannel`, `subs` (by id), `subList` (delivered, not acknowledged), `lastMsgId`, state function | `readLoop`; `processLoop` with the frame handlers; `cleanupConn` |
| transaction store, `server/client/tx_store.go` | per open transaction the list of its frames | Begin, Add, Commit, Abort, Init |
| negotiation, `server/client/frame.go`, `util.go` | none | version and heart-beat of CONNECT |
| front end, `server/server.go`, `stompd/` | configuration | ListenAndServe, Serve |

All of it runs in one process: one processor goroutine, two goroutines per
connection. The goroutines share nothing but channels:

    readLoop --readChannel--> processLoop --requestChannel--> processor
                              processLoop <--subChannel-----  processor   (queue frames)
                              processLoop <--writeChannel---  processor   (topic frames)

A `Subscription` object is passed back and forth: SubscribeOp gives it to the
processor, which keeps it in the queue's list until there is a frame, allocates
the frame to it and sends it on `subChannel`; the connection writes the frame,
and gives the object back when the frame is acknowledged (at once in mode
`auto`). No lock protects the object or the frame. That it works rests on each
being with one goroutine at a time, which is what the central theorems say.

What is hard here: the requests of all connections interleave in one channel;
every send on a channel can block, in the middle of a handler; connections break
at any moment, with frames in storage, in requests, in channels, unacknowledged
and inside transactions; the cleanup of a connection races with a processor that
does not know of it yet.

### Client library

| component | state it keeps | operations |
|---|---|---|
| `conn.go` | `readCh`, `writeCh` (20 entries each), the map of response channels, `closed` and its mutex | `readLoop`, `processLoop`, Send, sendFrame, Subscribe, Ack, Nack, Begin, Disconnect, MustDisconnect; Connect |
| `subscription.go` | `state` (active, closing, closed), channel `C` (16 entries), condition variable, `closeOnce` | `readLoop`, Unsubscribe, Read, closeChannel |
| `transaction.go` | `completed` | Send, Ack, Nack, Commit, Abort |
| `frame/` | header list, buffered input | Reader, Writer, escaping, heart-beat parsing |
| options, ids, versions, validator | options of Connect and Send (the validator accepts every frame) | |

    readLoop --readCh--> processLoop <--writeCh-- Send, sendFrame, Subscribe, Disconnect
                         processLoop --response channels--> calls, Subscription.readLoop
                                             Subscription.readLoop --C--> the application

What is hard here: unbuffered response channels with a sender that waits for a
receiver which may have timed out; the close mutex held across blocking
operations; a condition variable signalled without its mutex; `C` closed by one
goroutine while another sends on it; timeouts that two programs compute from each
other's rounded values; frames that arrive in pieces.

### Properties that make the components correct

* **Frames.** A frame accepted for a queue is in one place until it is settled
  (`NoDuplication`, `SettledIsFinal`), is not lost (`NoLoss`) and is delivered when
  someone can take it (`WorkConserving`, `QueueDelivers`), in order
  (`NoOvertaking`). A topic frame reaches everyone subscribed (`TopicDelivers`).
  All that is done to the messages of queues is what the abstract specification
  allows (`MeetsContract`).
* **Subscription objects.** In one place (`OneToken`), without a frame when they
  are offered to the processor (`OfferedEmpty`); none is left in a queue or topic
  by a closed connection (`NoZombie`).
* **Requests.** What is requeued is a frame for a queue (`RequeueCarriesFrame`).
* **Transactions.** Whole or not at all (`CommitCompletes`, `MeetsContract`), and
  ended once (`TxEndsOnce`, client).
* **Acknowledgement.** An ACK settles the messages it should
  (`AckAsDocumented`).
* **Processes.** No goroutine panics but in known steps (`OnlyKnownPanics` and, for
  well-formed clients, `NoServerPanic` in the broker, `NoPanic` and
  `OnlyUnsubscribePanics` in the client), the processor does not block for ever
  (`ProcessorUnblocks`), or only in a `DeadEnd` (`OnlyDeadEndBlocks`,
  `DeadEndIsFinal`), channels respect their capacity (in `TypeOK`), a closing
  connection closes (`CleanupCompletes`) and leaves no frame behind
  (`CleanupRequeuesAll`).
* **Client calls.** Success is the server's RECEIPT for this very call
  (`SuccessIsConfirmed`), every call returns (`CallsReturn`,
  `UnsubscribeReturns`), and when the connection ends everyone who waits is told
  (`EveryoneTold`, `SubscriptionsEnd`, `LoopEnds`).
* **Client messages.** Each once and in order (`MessagesInOrder`).
* **Connecting.** One version on both sides (`VersionAgreed`), timeouts that fit
  together (`TimeoutsAgree`), a live peer is kept unless its writes were put off
  for too long (`OnlyCutTimesOut`) and a dead one noticed (`PeersNoticed`).
* **Codec.** What is read is what was written (`RoundTrip`, `NothingHeldBack`,
  `FailsOnlyIfBroken`), whatever options add to the header.

`PROJECT.json` lists the hazards, each with its line and the properties about it.

## 2. Plan

Done: the broker with its inductive invariant, proofs that nothing is duplicated or
revived, of how frames can be lost and the process can panic or block for ever, that
no subscription outlives its connection, and that the broker implements the abstract
queues; the client library
against a server that answers late, wrongly or never, with proofs of its safety
properties, the order of messages among them; the connect sequence and heart-beats of
client and server together, with proofs of what they agree on and of their timing;
the frame codec.

Left:

1. A proof of `NoOvertaking` for clients that neither requeue nor leave.
2. RECEIPT and ERROR frames as part of the state of `ServerConn`, so that the
   client's server can be replaced by the model of this one.

## 3. Modules

| module | models |
|---|---|
| `ServerState` | constants, state variables, requests, channels, `SubscriptionList`, `IsAckedBy` |
| `RequestProcessor` | `Serve` with `Queue`, `Topic`, `MemoryQueueStorage` and the send of a frame to a connection |
| `ServerConn` | `processLoop`, frame handlers, `txStore`, `cleanupConn` |
| `Server` | composition, fairness, properties |
| `QueueContract` | abstract: messages that are unsent, held by a transaction, on their way, waiting in order, given, shown, finished |
| `ServerContract` | the refinement mapping from `Server` to `QueueContract` |
| `ServerInv` | the inductive invariants `IInv` and `SInv` |
| `ClientState` | constants and state of a client connection |
| `ClientLoops` | client `readLoop` and `processLoop`; the server as the client sees it (external) |
| `ClientCalls` | Send, sendFrame, Subscribe, Ack, Nack, Begin, Disconnect, MustDisconnect, and the Transaction's calls |
| `ClientSubscription` | `Subscription.readLoop`, `closeChannel`, Unsubscribe, Read |
| `Client` | composition, fairness, properties |
| `ClientInv` | the inductive invariants `CInv` and `MInv` |
| `Handshake` | Connect, the server's `readLoop` and `handleConnect`, heart-beat timers on both sides, a network with delay that may be cut |
| `FrameCodec` | header list, Send's options, encoding, `Writer.Write`, `Reader.Read` |
| `MCServer`, `MCClient`, `MCHandshake`, `MCCodec` | the instances for TLC |
| `ServerLemmas`, `StepProofs`, `ServerProofs` | lemmas and theorems about the broker: each thing in one place |
| `DeliveryProofs` | lemmas and theorems about the broker: nothing lost, nothing revived, the panics |
| `ContractProofs` | the refinement of `QueueContract` by the broker |
| `UnsubscribeProofs` | no subscription outlives its connection |
| `ClientProofs` | lemmas and theorems about the client |
| `HandshakeProofs` | lemmas and theorems about the connect sequence and the heart-beats |

### The broker: state

`reqCh`, `subCh`, `writeCh` are the channels; `store`, `qsubs`, `tsubs` the
processor's data; `subs`, `subList`, `tx`, `lastMsgId` the connection's; `frame`
and `listed` (subList /= nil) the fields of a Subscription that change. `phase` is
where a processLoop is: before CONNECT, connected, or at which loop of
`cleanupConn`. `out` and `work` are a handler's continuation: the requests it still
has to send and the frames of an ACK or COMMIT it still has to execute; `procOut`
is the processor's: the channel sends it still has to do. `crashed` records a
panic, which ends the Go process and so disables every action.

Four variables are history and guard only what a client may do next: `subAt` and
`msgAt` name who was last handed a Subscription object or frame (a SUBSCRIBE or
SEND happens once per member of the pool), `seen` records the frames written to
each socket and `farewell` the DISCONNECTs.

The objects clients create come from the pools `Sub`, `Msg` and `Tx`, whose members
have fixed attributes (connection, destination, id, ack mode). The theorems hold
for any pools, infinite ones included.

### The broker: steps

A step is what a goroutine does between two blocking operations. A handler that
sends no request is one step. One that does takes its step with all its local
changes and puts the requests in `out`; `SendRequest` does each send when there is
room. As nobody else reads the connection's state this loses no interleaving. The
exception is a callback that sends two requests with an assignment between them
(`NackOne`): the object belongs to the connection until the second send, so the
assignment can be seen by nobody earlier.

`ClientInput` is everything the client's behaviour decides. Faulty frames (missing
or unparsable header, unexpected command, unknown id), a closed socket and a failed
RECEIPT or heart-beat all end the loop in the same way: `Broken`, `RefuseConnect`
and the other `Refuse...` actions. `Flaky`, `Unwritable`, `Polite` and `Leavers`
bound which clients do this in a run.

Data that no property tells apart is left out: bodies, headers other than those
named, RECEIPT and ERROR contents, timers (these are in `Handshake`). Message ids
are numbers; `msgIdHdr` is the header of a queue frame, of which there is one copy.
`lastMsgId` is a Nat where the code has 64 bits: it counts frames written on one
connection.

### The broker: refinement

`QueueContract` has no goroutines, channels or Subscription objects: a message has
a state, each queue the sequence of those that wait, each client a set of queues it
reads and of messages it was shown. A message is given to one client at a time, in
the order of the queue; it is written only while that client subscribes; it returns
to the front; a transaction's messages come together or are discarded together.
Nothing lets a message vanish or leave the state "finished".

`ServerContract` reads the state of a message off the containers of the server in
which it really is (`Copies`), not off the history, so that a message that two
containers hold, that none holds, or that reappears is a step the contract does
not have. A server step that moves a message between two containers of the same
abstract state, or that touches topics, is a stutter. `MeetsContract` is safety: it
says what may be done, `QueueDelivers` that it is done.

### The client

A call of a library function is a goroutine that runs once; `Before` gives the
calls that the same goroutine makes first. `pc` is where it blocks: at the mutex,
at a full `writeCh`, at its response channel, in `closeChannel` or on the condition
variable. A response channel is unbuffered, so the send of `processLoop` and the
receipt are one step (`Sent` inside `Answer` and `ReceiveFrame`); until it is taken
the loop stands at "send". The order in which a Go map is traversed is a choice
(`SendTo`). `closeChannel` takes separate steps for the send on `C`, the state and
the close, with which Unsubscribe and `readLoop` interleave; `Broadcast` wakes who
waits at that moment and nobody else. A send on a closed channel sets `crashed`.

`MessagesInOrder` reads the messages of a subscription along their way, from what the
application has received back to the network (`Path`). It counts a message that
`processLoop` has left in `readCh` when it ended as still on its way: what it excludes
is that a message is passed on out of turn, twice or to nobody, which `processLoop`
does with a MESSAGE whose subscription is not in its map. The server is taken to send
no MESSAGE for a subscription after it has handled its UNSUBSCRIBE (`ServerSub`).
Subscriptions to temporary queues (`ReplyTo`) are excluded: their UNSUBSCRIBE never
reaches the server, so what it sends later finds nobody and is ignored.

Frames have an id and a number; every call with a timeout that can expire is in
`Slow`, and may time out at any moment of its wait. A SUBSCRIBE with a receipt
header, an id that the application uses twice and a Transaction used by two
goroutines at once are excluded (`CallAssumption`, `Callable`).

### The connect sequence

Durations are integers, `Ms` ticks to a millisecond, so that the roundings to
milliseconds of `NewFrame` and `asMilliseconds` have an effect. Timers count
up, and time does not pass over a moment at which something is due. A frame takes
at most `Delay` ticks. `HandshakeAssumption` says what the code needs: the network
is faster than HeartBeatError, as its documentation asks, and ReadTimeout is 0 or
at least a millisecond. `Cut` loses what is under way and what is written later. A
side that gives up closes the connection, so that the other one ends too (`Ends`),
unless the connection is cut.

A write restarts the timer of the heart-beats, and so do two cases that write
nothing: a queue frame for a subscription that is gone (`ServerReturnsFrame`) and a
reply-to request (`ClientKeepsRequest`). Each of them lengthens the silence by what
the timer had run. `clost` and `slost` are history: they sum this up since the other
side has last read something. `OnlyCutTimesOut` says that a side which gives up an
uncut connection has met restarts and delay that add up to its slack, the part of its
read deadline beyond the other's period: for the client HeartBeatError (and what the
grace multiplier adds), for the server one period more. Without silent restarts this
leaves one case, a server with a period of no more than two delays, because the
server knows nothing of HeartBeatError. `LostCap` bounds the sum for TLC.

### The codec

A text is a sequence of symbols; the bytes with a meaning (LF, CR, colon,
backslash, null) are symbols, a command or number is one. `Read` is a function of
the bytes that have arrived: a frame and the rest, an error, or "wait". SEND
stands for all commands, which the code treats alike. A program can write a frame
whose end its header does not tell: a null byte in the body with NoContentLength, or a
content-length of its own after it (`Delimited`). The properties speak of what comes
before such a frame, and `FailsOnlyIfBroken` counts it among the reasons to give up.

## 4. Runs

Each run is one question; `PROJECT.json` has its sentence. Bounds:

| run | instance | why it is enough |
|---|---|---|
| `share` | 2 connections, 1 queue, 3 subscriptions (client, auto, undefined mode; two with the same id), 3 frames (one without destination), acknowledged id 0, request channel 2, others 1 | consumers compete, channels fill, a frame is requeued by NACK, by UNSUBSCRIBE and by each loop of the cleanup and goes to the other consumer; a SUBSCRIBE with an id in use is refused; all three panics happen; frames are stranded. The id 0 is the only one that a NACK matches in this code |
| `tx` | 1 connection, 2 transactions of up to 2 frames, 2 subscriptions (client and client-individual), request channel 2 | mixed SEND, ACK, NACK commits, aborts and breaks with both open; a full request channel blocks a commit half-way. With 2 subscriptions and channels of 2 the processor itself never blocks here |
| `live` | a client that sends and reads a topic, and another, which may break or fail to write, with two subscriptions to a queue and one to the topic; 3 frames, all channels of 1, the request channel too | frames wait in storage, in requests and in full channels, the fan-out goes to a fast and a slow reader, the cleanup meets a full request channel at every stage of the processor's deliveries, and processor and connection stop each other, in a handler and in the cleanup |
| `calls` | 6 calls in 3 goroutines: Begin, Commit with receipt, a late Send of the same transaction; Disconnect; Send with receipt, then MustDisconnect; 1 entry in `readCh`, 1 frame on the network; ERROR, silence | each waits, times out or fails while another closes the connection or the loop ends; receipts come before, at and after the timeouts |
| `unsub` | 7 calls in 2 goroutines on 2 subscriptions, one to a temporary queue; 2 messages, `C` of 1 | `C` is full with another message held and a third party disconnecting; the connection closes, or a RECEIPT without id comes, at every moment |
| `handshake` | 25 option sets, 4 server configurations, 2 ticks to a millisecond, heart-beats of 0 to 4 ms with a maximum of 3, delay 1, 1 frame of the programs under way, up to 2 ticks (and one timer more) lost in restarts | rounded, raised, refused and absent heart-beats on each side, all version lists that matter, both outcomes of authentication; both sides give up a live peer after restarts, and a server with a period of two delays does without |
| `codec` | 3 writes: 70 first messages, then plain ones and heart-beats | every special symbol alone and in pairs in names and values, bodies that look like frames, with and without content-length, duplicate headers, a content-length of the program's own that is right, wrong or does not count; the connection breaks after every byte |

In `live` nothing keeps the requests within the capacity of the request channel, so
that the processor can be stopped for ever, as `wedge` shows. The liveness properties
name that state, `DeadEnd`, and say that there is no other obstacle: a slow client, one
that breaks and one in its cleanup hold the processor up only for a time.
The other kind of `DeadEnd`, a full channel whose connection has closed, needs three
requests in the request channel at once and is out of reach of the bounds of `live`;
that no step leads out of it either is proved (`DeadEndsAreFinal`).
In `calls` every request fits into `writeCh`; with a full `writeCh` calls block
(`late_receipt`). There `processLoop` can be stuck at the response channel of a call
that has timed out (`OffersToNobody`), which `LoopEnds` allows and nothing else. In
`calls` there are no subscriptions, so that what `EveryoneTold` says of them is checked
in `unsub` only, as part of `MInv`; and in `unsub` no call waits for a receipt, so that
`SubscriptionsEnd` is not held up by such a channel.
Deadlock is not checked: a broker whose clients have nothing left to send stops, a
client whose calls have all been made stops, and so do the other models.

Channel capacities are 1 to 5 instead of 16, 20 and 128; blocking happens at any
capacity, and `TypeOK` and the other theorems are proved for all of them.

### Fairness

In `Server`, `FairSpec` assumes weak fairness of the processor, and for each
connection of what its goroutine does when it is not selecting (a pending send, the
rest of a handler or the cleanup: one at a time) and of each select case (topic frame,
queue frame). The Go scheduler runs every runnable goroutine, and
`select` chooses at random among the ready cases, so none is passed over for ever.
A blocked channel send is disabled, not unfair. Nothing is assumed about clients:
no frame has to be sent and no socket has to break. A write to a socket either
succeeds or fails; one that hangs is not modelled (there is no write deadline, so
it would stall that connection, and then the processor as in `wedge`).

In `Client`, `FairSpec` assumes weak fairness of `readLoop`, of each case of
`processLoop`'s select, of its end, of every call under way, of every
subscription's goroutine and of the application that reads `C` (the comment
BUG(jpj) in `subscription.go` says that one that does not read stops the client).
A timeout that can expire (`Slow`) does: the timer is a select case of a call that
otherwise waits. Nothing is assumed of the server, not even that it answers.

In `Handshake`, time passes and what is due is done; no program has to send, and
the connection need not be cut.

### Disagreements between comments and code

Five runs show a statement of a comment that the code does not meet; the findings
in `PROJECT.json` quote them.

| run | what happens |
|---|---|
| `ack_ids` | `Subscription.msgId` is never assigned, so an ACK does not settle the message it names, or settles later ones |
| `wedge` | processor and connection block on each other's full channel for ever |
| `late_receipt` | a RECEIPT after Send's timeout blocks the client's `processLoop`, then every call |
| `panics` | a SEND without destination gets past the "lower layer" and makes the processor panic |
| `stranded` | a frame that the processor sends after the last drain of a cleanup is not requeued |

Four more findings belong to passing runs, whose properties name them as the exceptions
that there are: an ACK for a subscription in an undefined mode panics, and so does a
subscription that is listed again after an acknowledgement (`OnlyKnownPanics`); a live
server is given up after a heart-beat timer was restarted in vain (`OnlyCutTimesOut`);
the reader does not limit the header section (`FailsOnlyIfBroken`).

More are in the models without a finding. In the broker: a write error
loses the frame being written (`DeliverFails`); delivery goes on after DISCONNECT
(`HandleDisconnect`); a reused id brings an unsubscribed object back; a
topic frame for a connection past its cleanup blocks the processor (`DeadEnd`).
In the client: Unsubscribe after its timeout, or on a closed connection, can make a
goroutine send on a closed `C` (`OnlyUnsubscribePanics` says that these are the
only panics); a Broadcast that comes before Unsubscribe waits is missed, and its
timeout then panics, because `C` is closed (`UnsubscribeReturns`), or without a
timeout it waits for ever; an option of Unsubscribe that fails leaves the subscription
half closed; after a Commit that failed or timed out the transaction can be used again
(`TxEndsOnce` speaks of those that succeeded).

The passing runs keep clear of some of these by their bounds, each of which is named:
`Unwritable` is empty where `MeetsContract` is checked (the contract lets no message
vanish; a frame stranded in a channel counts there as given to its client for good,
while `NoLoss` names it), `Leavers` holds no subscription whose id is used again
where `NoZombie` is, so that it says nothing of a reused id, `Slow` holds the
Unsubscribe of `UnsubscribeReturns`, and so on.
Where a panic can occur in a passing run (`share`, `tx`, `unsub`), its properties hold
up to the panic.

## 5. Proofs

`ServerProofs` proves, for all values of the constants that satisfy
`PoolAssumption` (the pools are disjoint, every object has its attributes) and
`BoundAssumption` (channel capacities are positive):

| theorem | states |
|---|---|
| `Invariance` | `Spec => []IInv` |
| `TypesHold` | `Spec => []TypeOK` |
| `QueuesAreWorkConserving` | `Spec => []WorkConserving` |
| `OffersAreEmpty` | `Spec => []OfferedEmpty` |
| `RequeuesCarryFrames` | `Spec => []RequeueCarriesFrame` |
| `ObjectsAreInOnePlace` | `Spec => []OneToken` |
| `FramesAreInOnePlace` | `Spec => []NoDuplication` |

No panic is assumed away: the theorems hold with the faults above.

*Argument.* `OneToken` and `NoDuplication` say that two containers never hold the
same thing, which is not inductive: a step that moves an object to a container
must know that it was nowhere else. `IInv` says for every container separately
that what it holds is there according to the history (`subAt`, `msgAt`), belongs
to it, and occurs once. As the history is a function, one object cannot be in two
containers, and a step needs to look only at the container it takes from and the
one it adds to. `FrameOf` ties the two histories together: the frame of an object
is held by that object exactly while it is being delivered; `RequestInv` keeps
requests well formed. `ServerLemmas` has one lemma per part of the invariant for
"this object moves from here to there" and for "nothing here changes", and proves
the type invariant per action; `StepProofs` proves that each action of the processor
and of a connection preserves `IInv`, one lemma per action; `ServerProofs` composes
them and derives the properties.

`DeliveryProofs` proves, with the further assumption `NilAssumption` (the nil of a
transaction that is not open is no list of frames):

| theorem | states |
|---|---|
| `PresenceInvariance` | `Spec => []SInv` |
| `NothingIsLost` | `Spec => []NoLoss` |
| `SettledStays` | `Spec => SettledIsFinal` |
| `PanicsAreKnown` | `Spec => OnlyKnownPanics` |
| `DeadEndsAreFinal` | `Spec => DeadEndIsFinal` |

*Argument.* `IInv` says that what a container holds is there according to its history.
For `NoLoss` the converse is needed: what the history says is held really is in that
container. This is `HeldInv`, for frames (`MsgHeld`) and for the objects that carry one
(`SubHeld`); it is inductive only together with `IInv`, because a step that takes the
first element of a list must know that it takes no other frame with it. One lemma
(`HeldStep`) reduces a step to the frames and objects that change hands; there is one
lemma per group of actions with the same shape. A write that fails leaves a frame with an object
that is in no list any more (`WriteFailed`), and a frame delivered after the last drain
is in a channel that nobody reads (`Stranded`): the proof shows that there is no third
way to lose one. `HeldInv` also holds after a panic, except for the frame
without destination over which the processor panics, which is no longer in its request;
after a panic no action is enabled (`OnlyTheLivingStep`).
`SettledStays` needs `IInv` only: every frame that a step moves is, by `IInv`, in the
list the step takes it from, so it is not settled; and nothing holds a settled frame.
`OnlyKnownPanics` is about the step that panics: which request, subscription or ACK it
takes. For it the field `subList` has to be followed: `ListedInv` says that
outside a queue's list it is set only after a message was written to a client that
acknowledges. `RouteInv`: a subscription gets frames of its own destination only, only
frames of topics go over `writeChannel`, and a connection keeps only its own
subscriptions in `subs`. `SInv` is `IInv`, `HeldInv`, `ListedInv`
and `RouteInv`; TLC checks it in the run `share`. `DeadEndsAreFinal` needs the
types only: what could make room in a full channel is its own connection, which has closed or waits for the request channel, and only the processor
makes room there.

`ContractProofs` proves the refinement and `UnsubscribeProofs` that the cleanup of a
connection is complete:

| theorem | states |
|---|---|
| `ServerMeetsContract` | `Spec => MeetsContract` when `Unwritable = {}` and `IdsKeepDestination` |
| `NoSubscriptionOutlivesItsConnection` | `Spec => []NoZombie` when `LeaversAreSimple` |

Both hypotheses are about what clients and sockets do, and each is needed: without it
TLC finds a counterexample. A frame whose write fails is lost, which the contract
does not allow. `IdsKeepDestination` (a client does not use the id of a subscription
again for another destination) is needed because the connection looks a subscription up
by its id alone when it writes a frame: with the id used again it writes a frame of a
queue that the client has left. `LeaversAreSimple` (a subscription that is unsubscribed
is in mode auto and its id is not used again) is needed because ACK or NACK after UNSUBSCRIBE,
or the other subscription of that id, gives the object back to the processor, which
registers it again, for a connection that will not unsubscribe it. The runs `share`
and `tx` satisfy the first two, `share` the third.

*Argument for the refinement.* The mapping reads the state of a message off the
containers. `SInv` gives that there is one container at most, and which, so that the
mapped state is a function of the history `msgAt` (`StateIs`); and that storage holds,
in its order, exactly the messages that wait. With this each action of the server is
one lemma: it moves one message (or those of one transaction) and its history tells
which step of the contract that is; everything else stutters.

*Argument for `NoZombie`.* `cleanupConn` sends an UNSUBSCRIBE request for every
subscription the connection knows, and the processor executes requests in order. The
invariant `LeaveInv` says that whatever is registered with the processor, or can be by
a request under way, and is not known to its connection has an UNSUBSCRIBE behind it:
later in the request channel, or among the requests the connection still has to send.
It is inductive together with `SInv`, which says in which container the object is.

`HandshakeProofs` proves, for every set of options and configurations that satisfies
`HandshakeAssumption`:

| theorem | states |
|---|---|
| `HandshakeInvariance` | `Spec => []HInv` |
| `VersionsAgree` | `Spec => []VersionAgreed` |
| `TimeoutsFit` | `Spec => []TimeoutsAgree` |
| `TimingInvariance` | `Spec => []TimedInv` |
| `NoFalseTimeout` | `Spec => []OnlyCutTimesOut` |

*Argument.* What the two sides hold when the client is up was decided two messages
earlier, so `VersionAgreed` and `TimeoutsAgree` need an invariant about the messages
under way. `HInv` has one part for the time until the server answers (only CONNECT,
once, is under way, and when `processLoop` gets it `readLoop` has set its timeout),
one for the time after (no CONNECT is left that could change that timeout, and every
CONNECTED carries the server's decision), and one for each side that has decided.
Its type part bounds the server's timeouts by the range of the header. Heart-beats,
other frames, time and the loss of the connection are covered by one lemma
(`NothingDecided`).

`OnlyCutTimesOut` is about timers that run on two machines. `TimeInv` relates them as
long as the connection is neither cut nor given up: no frame is older than `Delay`; a
writer's timer has not passed its timeout; and the reader's timer is ahead of the
writer's by no more than the way of the first frame under way, or, when none is, by
what the writer still has to wait, and by what silent restarts have lost (`clost`,
`slost`). At the step in which a read timer expires this bound gives the inequality of
`OnlyCutTimesOut`, which later steps keep; `Closing` says that nobody goes on alone
after the other has given up, so that `TimeInv` need not hold then. `Delay` below
`HeartBeatError` is all that is assumed of the network. TLC checks `TimedInv` (`HInv`,
`TimeInv`, `Closing` and `OnlyCutTimesOut`) in the run `handshake`.

`ClientProofs` proves, for any calls, subscriptions and transactions that satisfy
`CallAssumption` (what a program may do, see *The client*), any capacities
(`CapAssumption`) and whatever the server does:

| theorem | states |
|---|---|
| `ClientInvariance` | `Spec => []CInv` |
| `ReceiptsConfirm` | `Spec => []SuccessIsConfirmed` |
| `EndIsTold` | `Spec => []EveryoneTold` |
| `TransactionsEnd` | `Spec => []TxEndsOnce` |
| `PanicsKnown` | `Spec => []OnlyUnsubscribePanics` |
| `NoPanicWithoutUnsubscribe` | `Spec => []NoPanic` when no call is an Unsubscribe |
| `MessageInvariance` | `Spec => [](MInv /\ OrderInv)` |
| `MessagesStayInOrder` | `Spec => []MessagesInOrder` |

*Argument.* `CInv` (module `ClientInv`) says how the goroutines depend on each other.
`MutexInv`: who is about to write to `writeCh` holds the mutex and has seen the
connection open, so that no send on a closed `writeCh` happens. `ReceiptInv` follows a
RECEIPT from the server through `network`, `readCh` and `processLoop` to the call whose
id it has. `AwaitInv` and `ReaderInv`: whoever waits is in the map of `processLoop`, or
among those it is telling of the end (`Known`), or its request is still in `writeCh`;
when `processLoop` has ended `Known` is empty, which is `EveryoneTold`. `CloseInv`: who
may have begun to close `C`. `SentInv` and `TxInv`: nothing of a transaction comes after
its end in `wire` or `writeCh`, and one call at a time is made on it. TLC checks `CInv`
in the run `calls`, and in `unsub` as part of `MInv`.

*Argument for the order of messages.* A message is lost when `processLoop` takes it
and does not know its subscription. `MInv` excludes this: as long as there is a MESSAGE
for a subscription on the network or in `readCh`, `processLoop` has it in its map,
because it takes it out only for the RECEIPT of UNSUBSCRIBE, and the server, which
answers in order, sends that RECEIPT after every message (`SubMessages`). It also says
that `readLoop` of a subscription holds nothing when it waits for a frame (`HeldInv`).
`OrderInv` then says, part of the way by part, that each part holds the numbers that
follow those of the part before it, in order and without a gap (`Covers`). Each step
takes the first number of one part and puts it at the end of the next, or adds
something that is no message, and there is one lemma for each of these moves (`ChainRead`,
`ChainTake`, `ChainHold`, `ChainPut`, `ChainReceive`, `ChainSend`). The parts put
together are the whole path (`CoversJoin`), which gives `MessagesInOrder`.

*Only model-checked:* in the broker `NoOvertaking`, which is true only in a restricted
world (nothing is requeued: no NACK, no transaction, no client that leaves with a frame
in its hands) and would need the order of every pair of frames followed through all
containers; everything about the codec (`FrameCodec` has a RECURSIVE operator, and what a reader
makes of all inputs needs induction over data); and all liveness properties, which are
outside what the prover handles.

## 6. Not modelled

Storage other than `MemoryQueueStorage` (an interface, `server/queue_storage.go`,
whose errors Queue passes to a caller that ignores them); `Listen`'s retry delay;
buffer sizes of the codec; a CONNECT that the client library cannot send; sockets
that hang in a write; `Message.Read` and the options that only store a value; the
front end, logging, test doubles and examples, which hold no protocol logic.
The composition of the two models `Client` and `Server` is left out: the client
sees the server through frames only, and `Client` allows it more than `Server` does
(any delay, any error, no answer), so what holds there holds with this broker.
One difference is not covered by that: this broker sends no RECEIPT for
UNSUBSCRIBE, so that against it Unsubscribe always ends by its timeout.
