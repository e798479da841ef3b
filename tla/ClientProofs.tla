---------------------------- MODULE ClientProofs ----------------------------
(***************************************************************************)
(* Proofs about Client, for any set of calls, subscriptions and            *)
(* transactions, any capacities and whatever the server does: CInv and     *)
(* MInv are inductive, one lemma for each of their parts, and the safety   *)
(* properties of Client follow from them.  That messages stay in order is  *)
(* shown along the path of a message: each part of the path covers the     *)
(* numbers after those of the part before it, and every step moves the     *)
(* first number of a part to the end of the next one.                      *)
(***************************************************************************)
EXTENDS ClientInv, TLAPS

(* Channels as sequences *)

\* The first element of a channel is taken from it.
LEMMA TakeFirst ==
  ASSUME NEW S, NEW q \in Seq(S), q /= <<>>
  PROVE  /\ Tail(q) \in Seq(S) /\ Len(Tail(q)) = Len(q) - 1 /\ Len(q) \in Nat
         /\ Head(q) \in S /\ Head(q) = q[1] /\ 1 \in DOMAIN q
         /\ \A i \in DOMAIN Tail(q) : i \in Nat /\ i + 1 \in DOMAIN q /\ Tail(q)[i] = q[i + 1]
         /\ \A x : Contains(q, x) => x = Head(q) \/ Contains(Tail(q), x)
         /\ \A x : Contains(Tail(q), x) => Contains(q, x)
<1>1. /\ Tail(q) \in Seq(S) /\ Len(Tail(q)) = Len(q) - 1 /\ Len(q) \in Nat
      /\ Head(q) \in S /\ Head(q) = q[1] /\ 1 \in DOMAIN q
      /\ \A i \in DOMAIN Tail(q) : i \in Nat /\ i + 1 \in DOMAIN q /\ Tail(q)[i] = q[i + 1]
  OBVIOUS
<1>2. ASSUME NEW x, Contains(q, x) PROVE x = Head(q) \/ Contains(Tail(q), x)
  <2>1. PICK i \in 1..Len(q) : q[i] = x
    BY <1>2 DEF Contains
  <2>2. CASE i = 1
    BY <1>1, <2>1, <2>2
  <2>3. CASE i /= 1
    <3>1. i - 1 \in 1..Len(Tail(q)) /\ Tail(q)[i - 1] = q[i]
      BY <1>1, <2>3
    <3> QED
      BY <2>1, <3>1 DEF Contains
  <2> QED
    BY <2>2, <2>3
<1>3. ASSUME NEW x, Contains(Tail(q), x) PROVE Contains(q, x)
  <2>1. PICK i \in 1..Len(Tail(q)) : Tail(q)[i] = x
    BY <1>3 DEF Contains
  <2>2. i + 1 \in 1..Len(q) /\ q[i + 1] = x
    BY <1>1, <2>1
  <2> QED
    BY <2>2 DEF Contains
<1> QED
  BY <1>1, <1>2, <1>3

\* An element is put at the end of a channel.
LEMMA PutLast ==
  ASSUME NEW S, NEW q \in Seq(S), NEW e \in S
  PROVE  /\ Append(q, e) \in Seq(S) /\ Len(Append(q, e)) = Len(q) + 1 /\ Len(q) \in Nat
         /\ DOMAIN q = 1..Len(q) /\ DOMAIN Append(q, e) = 1..(Len(q) + 1)
         /\ \A i \in 1..Len(q) : Append(q, e)[i] = q[i]
         /\ Append(q, e)[Len(q) + 1] = e
         /\ \A x : Contains(Append(q, e), x) <=> Contains(q, x) \/ x = e
<1>1. /\ Append(q, e) \in Seq(S) /\ Len(Append(q, e)) = Len(q) + 1 /\ Len(q) \in Nat
      /\ DOMAIN q = 1..Len(q) /\ DOMAIN Append(q, e) = 1..(Len(q) + 1)
      /\ \A i \in 1..Len(q) : Append(q, e)[i] = q[i]
      /\ Append(q, e)[Len(q) + 1] = e
  OBVIOUS
<1>2. ASSUME NEW x, Contains(Append(q, e), x) PROVE Contains(q, x) \/ x = e
  BY <1>1, <1>2 DEF Contains
<1>3. ASSUME NEW x, Contains(q, x) PROVE Contains(Append(q, e), x)
  BY <1>1, <1>3 DEF Contains
<1>4. Contains(Append(q, e), e)
  <2>1. Len(q) + 1 \in 1..Len(Append(q, e))
    BY <1>1
  <2> QED
    BY <1>1, <2>1 DEF Contains
<1> QED
  BY <1>1, <1>2, <1>3, <1>4

\* The elements of a sequence over a set are members of that set.
LEMMA Members == ASSUME NEW S, NEW q \in Seq(S)
                 PROVE  Len(q) \in Nat /\ DOMAIN q = 1..Len(q) /\ \A i \in DOMAIN q : q[i] \in S
  OBVIOUS

-----------------------------------------------------------------------------
(* The operators of the model *)

\* The frames of the server are frames.
LEMMA FrameTypes ==
  /\ ErrorFrame \in Frame /\ ErrorFrame.cmd = "ERROR"
  /\ \A i \in Id \cup {nil} : /\ ReceiptFrame(i) \in Frame /\ ReceiptFrame(i).cmd = "RECEIPT"
                              /\ ReceiptFrame(i).id = i
  /\ \A s \in Sub, n \in Nat : /\ MessageFrame(s, n) \in Frame
                               /\ MessageFrame(s, n).cmd = "MESSAGE"
  BY DEF ErrorFrame, ReceiptFrame, MessageFrame, Frame, Id

\* A frame has a command, an id and a number.
LEMMA FrameFields ==
  ASSUME NEW f \in Frame
  PROVE  f.cmd \in {"RECEIPT", "MESSAGE", "ERROR"} /\ f.id \in Id \cup {nil} /\ f.n \in Nat
  BY DEF Frame

\* So has what processLoop is sending.
LEMMA SendingFields ==
  ASSUME NEW x \in Sending
  PROVE  /\ x.frame \in Frame /\ x.cur \in Id /\ x.rest \subseteq Id
         /\ x.next \in {"select", "disconnect", "fail"}
  BY DEF Sending

\* SendTo: either there is nobody to send to, or one of the ids is first.
LEMMA SendToEffect ==
  ASSUME NEW ids \in SUBSET Id, NEW f \in Frame, NEW next \in {"select", "disconnect", "fail"},
         SendTo(ids, f, next)
  PROVE  \/ ids = {} /\ loop' = next /\ sending' = nil
         \/ /\ loop' = "send" /\ sending' \in Sending
            /\ sending'.frame = f /\ sending'.next = next
            /\ sending'.cur \in ids /\ sending'.rest = ids \ {sending'.cur}
<1>1. CASE ids = {} /\ loop' = next /\ sending' = nil
  BY <1>1
<1>2. ASSUME NEW i \in ids, loop' = "send",
             sending' = [frame |-> f, cur |-> i, rest |-> ids \ {i}, next |-> next]
      PROVE  /\ loop' = "send" /\ sending' \in Sending
             /\ sending'.frame = f /\ sending'.next = next
             /\ sending'.cur \in ids /\ sending'.rest = ids \ {sending'.cur}
  BY <1>2 DEF Sending
<1> QED
  BY <1>1, <1>2 DEF SendTo

-----------------------------------------------------------------------------
(* Type correctness *)

\* The initial states have the right types.
LEMMA TypeInit == Init => TypeOK
<1> SUFFICES ASSUME Init PROVE TypeOK
  OBVIOUS
<1>1. /\ closed \in BOOLEAN /\ writeClosed \in BOOLEAN /\ readClosed \in BOOLEAN
      /\ connOpen \in BOOLEAN /\ peerOpen \in BOOLEAN /\ crashed \in BOOLEAN
  BY DEF Init
<1>2. /\ writeCh \in Seq(Call) /\ Len(writeCh) <= WriteCap
      /\ readCh \in Seq(Frame) /\ Len(readCh) <= ReadCap
      /\ wire \in Seq(Call) /\ served \in 0..Len(wire) /\ network \in Seq(Frame)
  BY CapAssumption DEF Init
<1>3. CClosed \in [Sub -> BOOLEAN]
  BY DEF Init
<1>4. /\ C \in [Sub -> Seq(Item)] /\ got \in [Sub -> Seq(Item)]
      /\ \A s \in Sub : Len(C[s]) <= SubCap
  BY CapAssumption DEF Init, Item
<1>5. /\ pc \in [Call -> CallPlaces] /\ result \in [Call -> Results]
      /\ state \in [Sub -> {"none", "active", "closing", "closed"}]
      /\ reader \in [Sub -> ReaderPlaces] /\ once \in [Sub -> OnceStages]
      /\ held \in [Sub -> Item] /\ sentTo \in [Sub -> Nat]
  BY DEF Init, CallPlaces, Results, ReaderPlaces, OnceStages, Item
<1> QED
  BY <1>1, <1>2, <1>3, <1>4, <1>5 DEF Init, TypeOK, LoopPlaces

\* The parts of the type invariant that belong together.
CallTypes ==
    /\ closeMutex \in Call \cup {nil} /\ closed \in BOOLEAN
    /\ pc \in [Call -> CallPlaces] /\ result \in [Call -> Results] /\ completed \subseteq Tx
LoopTypes ==
    /\ writeCh \in Seq(Call) /\ Len(writeCh) <= WriteCap /\ writeClosed \in BOOLEAN
    /\ readCh \in Seq(Frame) /\ Len(readCh) <= ReadCap /\ readClosed \in BOOLEAN
    /\ channels \subseteq Id /\ shut \subseteq Sub
    /\ loop \in LoopPlaces /\ sending \in Sending \cup {nil}
SubTypes ==
    /\ state \in [Sub -> {"none", "active", "closing", "closed"}]
    /\ C \in [Sub -> Seq(Item)]
    /\ \A s \in Sub : crashed \/ Len(C[s]) <= SubCap
    /\ CClosed \in [Sub -> BOOLEAN]
    /\ reader \in [Sub -> ReaderPlaces]
    /\ held \in [Sub -> Item]
    /\ once \in [Sub -> OnceStages]
    /\ got \in [Sub -> Seq(Item)]
    /\ crashed \in BOOLEAN
PeerTypes ==
    /\ connOpen \in BOOLEAN /\ peerOpen \in BOOLEAN
    /\ wire \in Seq(Call) /\ served \in 0..Len(wire)
    /\ network \in Seq(Frame)
    /\ sentTo \in [Sub -> Nat] /\ confirmed \subseteq Call

LEMMA TypeParts == TypeOK <=> CallTypes /\ LoopTypes /\ SubTypes /\ PeerTypes
  BY DEF TypeOK, CallTypes, LoopTypes, SubTypes, PeerTypes

\* A call that returns or moves on does so with a result and a place of their types.
LEMMA MoveTypes ==
  ASSUME CallTypes, NEW k \in Call
  PROVE  /\ \A r \in Results : Return(k, r) =>
              pc' \in [Call -> CallPlaces] /\ result' \in [Call -> Results]
         /\ \A p \in CallPlaces : Goto(k, p) =>
              pc' \in [Call -> CallPlaces] /\ result' \in [Call -> Results]
  BY DEF CallTypes, Return, Goto, CallPlaces

\* What the calls do to the variables of the calls.
LEMMA CallStepTypes ==
  ASSUME CInv, NEW k \in Call, Start(k) \/ CallStep(k) \/ UnsubscribeStep(k)
  PROVE  CallTypes'
<1>0. CallTypes
  BY TypeParts DEF CInv
<1> USE <1>0, MoveTypes
<1> USE DEF Results, CallPlaces
<1>1. CASE Start(k)
  BY <1>1 DEF Start, CallTypes, lockVars
<1>2. CASE LockClosed(k)
  <2>1. Return(k, "noop") \/ Goto(k, "close") \/ Return(k, "closed")
    BY <1>2 DEF LockClosed
  <2> QED
    BY <1>2, <2>1 DEF LockClosed, CallTypes, lockVars
<1>3. CASE LockInvalid(k)
  BY <1>3 DEF LockInvalid, CallTypes, lockVars
<1>4. CASE LockOpen(k)
  BY <1>4 DEF LockOpen, CallTypes
<1>5. CASE MustDisconnect(k)
  BY <1>5 DEF MustDisconnect, CallTypes, MarkClosed
<1>6. CASE PutRequest(k)
  <2>1. /\ Goto(k, "await") \/ Goto(k, "check") \/ Return(k, "ok")
        /\ completed' = completed \/ Complete(k, TRUE)
    BY <1>6 DEF PutRequest
  <2> QED
    BY <1>6, <2>1 DEF PutRequest, CallTypes, Complete
<1>7. CASE PutTimeout(k)
  BY <1>7 DEF PutTimeout, CallTypes, Unlock
<1>8. CASE Answer(k)
  <2>1. Return(k, "ok") \/ Return(k, "error")
    BY <1>8 DEF Answer
  <2>2. closed' \in BOOLEAN /\ completed' \subseteq Tx
    BY <1>8 DEF Answer, CallTypes, Complete
  <2> QED
    BY <1>8, <2>1, <2>2 DEF Answer, CallTypes, Unlock
<1>9. CASE AwaitTimeout(k)
  <2>1. Return(k, "closed") \/ Return(k, "timeout")
    BY <1>9 DEF AwaitTimeout
  <2>2. closed' \in BOOLEAN
    BY <1>9 DEF AwaitTimeout, CallTypes
  <2> QED
    BY <1>9, <2>1, <2>2 DEF AwaitTimeout, CallTypes, Unlock
<1>10. CASE UnsubscribeStep(k)
  <2>1. \/ Return(k, "closed") \/ Return(k, "ok") \/ Return(k, "timeout") \/ Goto(k, "arm")
        \/ Goto(k, "wait") \/ Goto(k, "check") \/ Goto(k, "expired")
    BY <1>10 DEF UnsubscribeStep, UnsubscribeFails, UnsubscribeChecks, UnsubscribeWaits,
                 UnsubscribeWakes, UnsubscribeExpires, UnsubscribeGivesUp
  <2>2. UNCHANGED <<closeMutex, closed, completed>>
    BY <1>10 DEF UnsubscribeStep, UnsubscribeFails, UnsubscribeChecks, UnsubscribeWaits,
                 UnsubscribeWakes, UnsubscribeExpires, UnsubscribeGivesUp, Waiting, lockVars
  <2> QED
    BY <2>1, <2>2 DEF CallTypes
<1> QED
  BY <1>1, <1>2, <1>3, <1>4, <1>5, <1>6, <1>7, <1>8, <1>9, <1>10 DEF CallStep

-----------------------------------------------------------------------------
(* Who changes what *)

\* The steps of the loops and of the server.
LoopStep == ReadEvent \/ WriteEvent \/ HeartBeatFails \/ LoopDisconnects \/ LoopFails

\* The steps of a subscription other than the receipt of a frame.
SubStep(s) == ReceiveNothing(s) \/ PutMessage(s) \/ ReaderEnds(s) \/ CloseStep(s) \/ Receive(s)

\* The steps of a call other than the receipt of its answer.
OwnStep(k) ==
    \/ Start(k) \/ UnsubscribeStep(k)
    \/ LockClosed(k) \/ LockInvalid(k) \/ LockOpen(k) \/ MustDisconnect(k)
    \/ PutRequest(k) \/ PutTimeout(k) \/ AwaitTimeout(k)

\* Every step is one of these.
LEMMA StepKinds ==
  Next <=> \/ ReadLoop \/ Server \/ LoopStep
           \/ \E k \in Call : OwnStep(k) \/ Answer(k)
           \/ \E s \in Sub : SubStep(s) \/ ReceiveFrame(s)
  BY DEF Next, LoopStep, OwnStep, SubStep, CallStep, ReaderStep

\* readLoop and the server touch only the frames on their way to processLoop.
LEMMA OutsideFrame ==
  ReadLoop \/ Server => /\ ~crashed
                        /\ UNCHANGED <<lockVars, loopVars, writeCh, writeClosed, callVars,
                                       subVars, connOpen, wire, got, crashed>>
<1>1. ReadLoop => UNCHANGED <<lockVars, loopVars, writeCh, writeClosed, callVars,
                              subVars, connOpen, wire, got, crashed>> /\ ~crashed
  BY DEF ReadLoop, ReadFrame, ReadFails
<1>2. Server => UNCHANGED <<lockVars, loopVars, writeCh, writeClosed, callVars,
                            subVars, connOpen, wire, got, crashed>> /\ ~crashed
  BY DEF Server, ServerHandles, ServerFault, ServerMessage, chanVars, PeerRoom
<1> QED
  BY <1>1, <1>2

\* processLoop leaves the calls, the subscriptions and the server alone.
LEMMA LoopFrame ==
  LoopStep => ~crashed /\ UNCHANGED <<closeMutex, readClosed, callVars, subVars, peerVars,
                                      got, crashed>>
<1>1. ASSUME NEW f PROVE HandleFrame(f) =>
        ~crashed /\ UNCHANGED <<closeMutex, readClosed, callVars, subVars, peerVars, got, crashed>>
  BY DEF HandleFrame, HandleReceipt, HandleBadReceipt, HandleMessage, HandleError, TakeFrame,
         LoopEvent, lockVars
<1>2. ASSUME NEW k PROVE HandleRequest(k) =>
        ~crashed /\ UNCHANGED <<closeMutex, readClosed, callVars, subVars, peerVars, got, crashed>>
  BY DEF HandleRequest, WriteRequest, WriteFails, SubscribeLocal, UnsubscribeLocal, TakeRequest,
         LoopEvent, lockVars
<1>3. ConnectionClosed \/ WriteChannelClosed \/ HeartBeatFails =>
        ~crashed /\ UNCHANGED <<closeMutex, readClosed, callVars, subVars, peerVars, got, crashed>>
  BY DEF ConnectionClosed, WriteChannelClosed, HeartBeatFails, LoopEvent, lockVars, chanVars
<1>4. LoopDisconnects \/ LoopFails =>
        ~crashed /\ UNCHANGED <<closeMutex, readClosed, callVars, subVars, peerVars, got, crashed>>
  BY DEF LoopDisconnects, LoopFails, chanVars
<1> QED
  BY <1>1, <1>2, <1>3, <1>4 DEF LoopStep, ReadEvent, WriteEvent

\* A call on its own leaves processLoop and the server alone.
LEMMA OwnFrame ==
  ASSUME NEW k \in Call, OwnStep(k)
  PROVE  ~crashed /\ UNCHANGED <<loopVars, readCh, readClosed, CClosed, held, once, peerVars,
                                 wire, got>>
<1>1. CASE Start(k) \/ LockClosed(k) \/ LockInvalid(k) \/ LockOpen(k)
  BY <1>1 DEF Start, LockClosed, LockInvalid, LockOpen, Locked, chanVars, subVars
<1>2. CASE MustDisconnect(k) \/ PutRequest(k) \/ PutTimeout(k) \/ AwaitTimeout(k)
  BY <1>2 DEF MustDisconnect, Locked, PutRequest, PutTimeout, AwaitTimeout, chanVars, subVars
<1>3. CASE UnsubscribeStep(k)
  BY <1>3 DEF UnsubscribeStep, UnsubscribeFails, UnsubscribeChecks, UnsubscribeWaits,
              UnsubscribeWakes, UnsubscribeExpires, UnsubscribeGivesUp, Waiting, chanVars
<1> QED
  BY <1>1, <1>2, <1>3 DEF OwnStep

\* A subscription on its own touches only itself, and wakes those who wait for it.
LEMMA SubFrame ==
  ASSUME NEW s \in Sub, SubStep(s)
  PROVE  ~crashed /\ UNCHANGED <<lockVars, loopVars, chanVars, result, completed, peerVars,
                                 connOpen, wire>>
<1>1. CASE ReceiveNothing(s) \/ PutMessage(s) \/ ReaderEnds(s) \/ Receive(s)
  BY <1>1 DEF ReceiveNothing, PutMessage, ReaderEnds, Receive, callVars
<1>2. CASE CloseStep(s)
  BY <1>2 DEF CloseStep, CloseBegins, ClosePuts, CloseStores, CloseShuts, Broadcast, callVars
<1> QED
  BY <1>1, <1>2 DEF SubStep

\* A frame that is received comes from processLoop.
LEMMA ReceiptFrames ==
  /\ \A k : Answer(k) => ~crashed /\ UNCHANGED <<channels, shut, chanVars, peerVars, subVars,
                                                 wire, got, crashed>>
  /\ \A s : ReceiveFrame(s) => ~crashed /\ UNCHANGED <<lockVars, channels, shut, chanVars,
                                                       callVars, peerVars, connOpen, wire, got,
                                                       crashed, state, C, CClosed, once>>
  BY DEF Answer, ReceiveFrame, Sent

-----------------------------------------------------------------------------
(* Type correctness of a step *)

\* The loops, the channels and the server.
LEMMA LoopTypesStep == CInv /\ Next => LoopTypes'
<1> SUFFICES ASSUME CInv, Next PROVE LoopTypes'
  OBVIOUS
<1>0. LoopTypes /\ PeerTypes /\ SendInv
  BY TypeParts DEF CInv
<1>a. \A ids \in SUBSET Id, f \in Frame, next \in {"select", "disconnect", "fail"} :
         SendTo(ids, f, next) => loop' \in LoopPlaces /\ sending' \in Sending \cup {nil}
  BY SendToEffect DEF LoopPlaces
<1>1. CASE ReadLoop \/ Server
  <2>1. UNCHANGED <<loopVars, writeCh, writeClosed>>
    BY <1>1, OutsideFrame
  <2>2. readClosed' \in BOOLEAN
    BY <1>0, <1>1 DEF LoopTypes, ReadLoop, ReadFrame, ReadFails, Server, ServerHandles,
                      ServerFault, ServerMessage, chanVars
  <2>3. readCh' \in Seq(Frame) /\ Len(readCh') <= ReadCap
    <3>1. CASE ReadFrame
      <4>1. Head(network) \in Frame
        BY <1>0, <3>1, TakeFirst DEF ReadFrame, PeerTypes
      <4>2. Append(readCh, Head(network)) \in Seq(Frame) /\
            Len(Append(readCh, Head(network))) = Len(readCh) + 1 /\ Len(readCh) \in Nat
        BY <1>0, <4>1, PutLast DEF LoopTypes
      <4> QED
        BY <3>1, <4>2, CapAssumption DEF ReadFrame, ReadRoom
    <3>2. CASE ~ReadFrame
      <4>1. readCh' = readCh
        BY <1>1, <3>2 DEF ReadLoop, ReadFails, Server, ServerHandles, ServerFault,
                          ServerMessage, chanVars
      <4> QED
        BY <1>0, <4>1 DEF LoopTypes
    <3> QED
      BY <3>1, <3>2
  <2> QED
    BY <1>0, <2>1, <2>2, <2>3 DEF LoopTypes, loopVars
<1>2. CASE LoopStep
  <2>0. readClosed' = readClosed
    BY <1>2, LoopFrame
  <2>1. ASSUME NEW f, HandleFrame(f) PROVE LoopTypes'
    <3>1. /\ readCh /= <<>> /\ f = Head(readCh) /\ readCh' = Tail(readCh)
          /\ UNCHANGED <<shut, writeCh, writeClosed>>
      BY <2>1 DEF HandleFrame, HandleReceipt, HandleBadReceipt, HandleMessage, HandleError,
                  TakeFrame
    <3>2. f \in Frame /\ readCh' \in Seq(Frame) /\ Len(readCh') <= ReadCap
      BY <1>0, <3>1, TakeFirst, CapAssumption DEF LoopTypes
    <3>3. channels' \subseteq Id
      BY <1>0, <2>1 DEF HandleFrame, HandleReceipt, HandleBadReceipt, HandleMessage,
                        HandleError, AfterReceipt, LoopTypes
    <3>4. loop' \in LoopPlaces /\ sending' \in Sending \cup {nil}
      <4>1. channels \in SUBSET Id /\ channels \cap {f.id} \in SUBSET Id
        BY <1>0 DEF LoopTypes
      <4>2. \/ SendTo(channels \cap {f.id}, f, "select") \/ SendTo(channels, ErrorFrame, "disconnect")
            \/ SendTo(channels, f, "fail")
        BY <2>1 DEF HandleFrame, HandleReceipt, HandleBadReceipt, HandleMessage, HandleError,
                    SendError
      <4> QED
        BY <1>a, <3>2, <4>1, <4>2, FrameTypes
    <3> QED
      BY <1>0, <2>0, <3>1, <3>2, <3>3, <3>4 DEF LoopTypes
  <2>2. ASSUME NEW k, HandleRequest(k) PROVE LoopTypes'
    <3>1. /\ writeCh /= <<>> /\ k = Head(writeCh) /\ writeCh' = Tail(writeCh)
          /\ UNCHANGED <<writeClosed, readCh>>
      BY <2>2 DEF HandleRequest, WriteRequest, WriteFails, SubscribeLocal, UnsubscribeLocal,
                  TakeRequest
    <3>2. k \in Call /\ writeCh' \in Seq(Call) /\ Len(writeCh') <= WriteCap
      BY <1>0, <3>1, TakeFirst, CapAssumption DEF LoopTypes
    <3>3. Remember(k) \subseteq Id
      BY <3>2, CallAssumption DEF Remember, Id
    <3>4. channels' \subseteq Id /\ shut' \subseteq Sub
      <4>1. Op[k] = "Unsubscribe" => SubOf[k] \in Sub
        BY <3>2, CallAssumption
      <4> QED
        BY <1>0, <2>2, <3>3, <4>1 DEF HandleRequest, WriteRequest, WriteFails, SubscribeLocal,
                             UnsubscribeLocal, LoopTypes
    <3>5. loop' \in LoopPlaces /\ sending' \in Sending \cup {nil}
      <4>1. CASE WriteFails(k)
        <5>1. SendTo(channels', ErrorFrame, "disconnect")
          BY <4>1 DEF WriteFails, SendError
        <5> QED
          BY <1>a, <3>4, <5>1, FrameTypes
      <4>2. CASE ~WriteFails(k)
        BY <1>0, <2>2, <4>2 DEF HandleRequest, WriteRequest, SubscribeLocal, UnsubscribeLocal,
                                LoopTypes
      <4> QED
        BY <4>1, <4>2
    <3> QED
      BY <1>0, <2>0, <3>1, <3>2, <3>4, <3>5 DEF LoopTypes
  <2>3. CASE ConnectionClosed \/ WriteChannelClosed \/ HeartBeatFails
    <3>1. /\ SendTo(channels, ErrorFrame, "disconnect")
          /\ UNCHANGED <<channels, shut, chanVars>>
      BY <2>3 DEF ConnectionClosed, WriteChannelClosed, HeartBeatFails, SendError
    <3>2. loop' \in LoopPlaces /\ sending' \in Sending \cup {nil}
      BY <1>0, <1>a, <3>1, FrameTypes DEF LoopTypes
    <3> QED
      BY <1>0, <3>1, <3>2 DEF LoopTypes, chanVars
  <2>4. CASE LoopDisconnects \/ LoopFails
    <3>1. writeClosed' \in BOOLEAN
      BY <1>0, <2>4 DEF LoopDisconnects, LoopFails, chanVars, LoopTypes
    <3> QED
      BY <1>0, <2>4, <3>1 DEF LoopDisconnects, LoopFails, chanVars, LoopTypes, LoopPlaces
  <2> QED
    BY <1>2, <2>1, <2>2, <2>3, <2>4 DEF LoopStep, ReadEvent, WriteEvent
<1>3. ASSUME NEW k \in Call, OwnStep(k) PROVE LoopTypes'
  <2>1. UNCHANGED <<loopVars, readCh, readClosed>>
    BY <1>3, OwnFrame
  <2>2. writeClosed' \in BOOLEAN
    BY <1>0, <1>3 DEF OwnStep, Start, UnsubscribeStep, UnsubscribeFails, UnsubscribeChecks,
        UnsubscribeWaits, UnsubscribeWakes, UnsubscribeExpires, UnsubscribeGivesUp, Waiting,
        LockClosed, LockInvalid, LockOpen, MustDisconnect, PutRequest, PutTimeout, AwaitTimeout,
        chanVars, LoopTypes
  <2>3. writeCh' \in Seq(Call) /\ Len(writeCh') <= WriteCap
    <3>1. CASE PutRequest(k)
      <4>1. Append(writeCh, k) \in Seq(Call) /\ Len(Append(writeCh, k)) = Len(writeCh) + 1
            /\ Len(writeCh) \in Nat
        BY <1>0, PutLast DEF LoopTypes
      <4> QED
        BY <3>1, <4>1, CapAssumption DEF PutRequest
    <3>2. CASE ~PutRequest(k)
      <4>1. writeCh' = writeCh
        BY <1>3, <3>2 DEF OwnStep, Start, UnsubscribeStep, UnsubscribeFails, UnsubscribeChecks,
          UnsubscribeWaits, UnsubscribeWakes, UnsubscribeExpires, UnsubscribeGivesUp, Waiting,
          LockClosed, LockInvalid, LockOpen, MustDisconnect, PutTimeout, AwaitTimeout, chanVars
      <4> QED
        BY <1>0, <4>1 DEF LoopTypes
    <3> QED
      BY <3>1, <3>2
  <2> QED
    BY <1>0, <2>1, <2>2, <2>3 DEF LoopTypes, loopVars
<1>4. ASSUME NEW i \in Id, Sent(i) PROVE LoopTypes'
  <2>1. /\ SendTo(sending.rest, sending.frame, sending.next)
        /\ sending \in Sending /\ UNCHANGED <<channels, shut, chanVars>>
    BY <1>0, <1>4 DEF Sent, SendInv
  <2>2. loop' \in LoopPlaces /\ sending' \in Sending \cup {nil}
    BY <1>a, <2>1, SendingFields
  <2> QED
    BY <1>0, <2>1, <2>2 DEF LoopTypes, chanVars
<1>5. ASSUME NEW s \in Sub, SubStep(s) PROVE LoopTypes'
  <2>1. UNCHANGED <<loopVars, chanVars>>
    BY <1>5, SubFrame
  <2> QED
    BY <1>0, <2>1 DEF LoopTypes, loopVars, chanVars
<1> QED
  BY <1>1, <1>2, <1>3, <1>4, <1>5, StepKinds DEF Answer, ReceiveFrame, Id

\* The server: it answers what is on the wire.
LEMMA PeerTypesStep == CInv /\ Next => PeerTypes'
<1> SUFFICES ASSUME CInv, Next PROVE PeerTypes'
  OBVIOUS
<1>0. LoopTypes /\ PeerTypes /\ CallTypes
  BY TypeParts DEF CInv
<1>1. CASE ReadLoop
  <2>1. network' \in Seq(Frame)
    BY <1>0, <1>1, TakeFirst DEF ReadLoop, ReadFrame, ReadFails, peerVars, PeerTypes
  <2> QED
    BY <1>0, <1>1, <2>1 DEF ReadLoop, ReadFrame, ReadFails, peerVars, PeerTypes
<1>2. CASE ServerHandles
  <2> DEFINE k == wire[served + 1]
  <2>1. served + 1 \in 1..Len(wire) /\ Len(wire) \in Nat /\ k \in Call
    BY <1>0, <1>2, Members DEF ServerHandles, PeerTypes
  <2>2. ReceiptId(k) \in Id
    BY <2>1, CallAssumption DEF ReceiptId, Id
  <2>3. network' \in Seq(Frame)
    BY <1>0, <1>2, <2>2, FrameTypes, PutLast DEF ServerHandles, PeerTypes
  <2>4. confirmed' \subseteq Call /\ served' \in 0..Len(wire)
    BY <1>0, <1>2, <2>1 DEF ServerHandles, PeerTypes
  <2> QED
    BY <1>0, <1>2, <2>3, <2>4 DEF ServerHandles, PeerTypes
<1>3. ASSUME NEW s \in Sub, ServerMessage(s) PROVE PeerTypes'
  <2>1. sentTo[s] + 1 \in Nat
    BY <1>0 DEF PeerTypes
  <2>2. network' \in Seq(Frame)
    BY <1>0, <1>3, <2>1, FrameTypes, PutLast DEF ServerMessage, PeerTypes
  <2> QED
    BY <1>0, <1>3, <2>1, <2>2 DEF ServerMessage, PeerTypes
<1>4. CASE ServerFault
  <2>1. network' \in Seq(Frame)
    <3>1. ErrorFrame \in Frame /\ ReceiptFrame(nil) \in Frame /\ network \in Seq(Frame)
      BY <1>0, FrameTypes DEF PeerTypes
    <3>2. \/ network' = Append(network, ErrorFrame)
          \/ network' = Append(network, ReceiptFrame(nil)) \/ network' = network
      BY <1>4 DEF ServerFault
    <3> QED
      BY <3>1, <3>2, PutLast
  <2> QED
    BY <1>0, <1>4, <2>1 DEF ServerFault, PeerTypes
<1>5. CASE LoopStep
  <2>1. UNCHANGED peerVars
    BY <1>5, LoopFrame
  <2>2. CASE \E k : WriteRequest(k)
    <3>1. PICK k : WriteRequest(k)
      BY <2>2
    <3>2. k \in Call /\ wire' = Append(wire, k) /\ connOpen' = connOpen
      BY <1>0, <3>1, TakeFirst DEF WriteRequest, TakeRequest, LoopTypes
    <3>3. wire' \in Seq(Call) /\ Len(wire') = Len(wire) + 1 /\ Len(wire) \in Nat
      BY <1>0, <3>2, PutLast DEF PeerTypes
    <3>4. served' \in 0..Len(wire')
      BY <1>0, <2>1, <3>3 DEF PeerTypes, peerVars
    <3> QED
      BY <1>0, <2>1, <3>2, <3>3, <3>4 DEF PeerTypes, peerVars
  <2>3. CASE ~\E k : WriteRequest(k)
    <3>1. wire' = wire
      BY <1>5, <2>3 DEF LoopStep, ReadEvent, WriteEvent, HandleFrame, HandleRequest,
        HandleReceipt, HandleBadReceipt, HandleMessage, HandleError, TakeFrame, WriteFails,
        SubscribeLocal, UnsubscribeLocal, ConnectionClosed, WriteChannelClosed,
        HeartBeatFails, LoopDisconnects, LoopFails
    <3>2. connOpen' \in BOOLEAN
      BY <1>0, <1>5, <2>3 DEF LoopStep, ReadEvent, WriteEvent, HandleFrame, HandleRequest,
        HandleReceipt, HandleBadReceipt, HandleMessage, HandleError, TakeFrame, WriteFails,
        SubscribeLocal, UnsubscribeLocal, TakeRequest, ConnectionClosed, WriteChannelClosed,
        HeartBeatFails, LoopDisconnects, LoopFails, PeerTypes
    <3> QED
      BY <1>0, <2>1, <3>1, <3>2 DEF PeerTypes, peerVars
  <2> QED
    BY <2>2, <2>3
<1>6. ASSUME NEW k \in Call, OwnStep(k) \/ Answer(k) PROVE PeerTypes'
  <2>1. UNCHANGED <<peerVars, wire>>
    BY <1>6, OwnFrame, ReceiptFrames
  <2>2. connOpen' \in BOOLEAN
    BY <1>0, <1>6 DEF OwnStep, Start, UnsubscribeStep, UnsubscribeFails, UnsubscribeChecks,
        UnsubscribeWaits, UnsubscribeWakes, UnsubscribeExpires, UnsubscribeGivesUp, Waiting,
        LockClosed, LockInvalid, LockOpen, MustDisconnect, PutRequest, PutTimeout, AwaitTimeout,
        Answer, PeerTypes
  <2> QED
    BY <1>0, <2>1, <2>2 DEF PeerTypes, peerVars
<1>7. ASSUME NEW s \in Sub, SubStep(s) \/ ReceiveFrame(s) PROVE PeerTypes'
  <2>1. UNCHANGED <<peerVars, wire, connOpen>>
    BY <1>7, SubFrame, ReceiptFrames
  <2> QED
    BY <1>0, <2>1 DEF PeerTypes, peerVars
<1> QED
  BY <1>1, <1>2, <1>3, <1>4, <1>5, <1>6, <1>7, StepKinds DEF Server

\* An item is put on C, unless C is closed.
LEMMA PutOnCTypes ==
  ASSUME SubTypes, ~crashed, NEW s \in Sub, NEW n \in Item, PutOnC(s, n)
  PROVE  /\ C' \in [Sub -> Seq(Item)] /\ crashed' \in BOOLEAN
         /\ \A t \in Sub : crashed' \/ Len(C'[t]) <= SubCap
         /\ crashed' => CClosed[s]
<1> USE DEF SubTypes
<1>1. C[s] \in Seq(Item) /\ CClosed[s] \in BOOLEAN
  OBVIOUS
<1>2. Append(C[s], n) \in Seq(Item) /\ Len(Append(C[s], n)) = Len(C[s]) + 1 /\ Len(C[s]) \in Nat
  BY <1>1, PutLast
<1>3. C' = [C EXCEPT ![s] = Append(C[s], n)] /\ crashed' = CClosed[s]
      /\ (CClosed[s] \/ Len(C[s]) < SubCap)
  BY DEF PutOnC
<1>4. C' \in [Sub -> Seq(Item)]
  BY <1>2, <1>3
<1>5. ASSUME NEW t \in Sub, ~crashed' PROVE Len(C'[t]) <= SubCap
  <2>1. CASE t = s
    BY <1>2, <1>3, <1>5, <2>1, CapAssumption
  <2>2. CASE t /= s
    <3>1. C'[t] = C[t]
      BY <1>3, <2>2
    <3>2. crashed \/ Len(C[t]) <= SubCap
      OBVIOUS
    <3> QED
      BY <1>3, <3>1, <3>2
  <2> QED
    BY <2>1, <2>2
<1> QED
  BY <1>1, <1>3, <1>4, <1>5

\* The subscriptions.
LEMMA SubTypesStep == CInv /\ Next => SubTypes'
<1> SUFFICES ASSUME CInv, Next PROVE SubTypes'
  OBVIOUS
<1>0. SubTypes /\ SendInv
  BY TypeParts DEF CInv
<1>1. CASE ReadLoop \/ Server
  <2>1. UNCHANGED <<subVars, got, crashed>>
    BY <1>1, OutsideFrame
  <2> QED
    BY <1>0, <2>1 DEF SubTypes, subVars
<1>2. CASE LoopStep
  <2>1. UNCHANGED <<subVars, got, crashed>>
    BY <1>2, LoopFrame
  <2> QED
    BY <1>0, <2>1 DEF SubTypes, subVars
<1>3. ASSUME NEW k \in Call, OwnStep(k) PROVE SubTypes'
  <2>1. ~crashed /\ UNCHANGED <<CClosed, held, once, got>>
    BY <1>3, OwnFrame
  <2>2. CASE UnsubscribeGivesUp(k)
    <3>1. pc[k] = "expired" /\ PutOnC(SubOf[k], 0) /\ UNCHANGED <<state, reader>>
      BY <2>2 DEF UnsubscribeGivesUp, Waiting
    <3>2. SubOf[k] \in Sub
      BY <3>1, CallAssumption DEF CInv, PcInv
    <3>3. /\ C' \in [Sub -> Seq(Item)] /\ crashed' \in BOOLEAN
          /\ \A t \in Sub : crashed' \/ Len(C'[t]) <= SubCap
      BY <1>0, <2>1, <3>1, <3>2, PutOnCTypes DEF Item
    <3> QED
      BY <1>0, <2>1, <3>1, <3>3 DEF SubTypes
  <2>3. CASE ~UnsubscribeGivesUp(k)
    <3>1. C' = C
      BY <1>3, <2>3 DEF OwnStep, Start, UnsubscribeStep, UnsubscribeFails, UnsubscribeChecks,
        UnsubscribeWaits, UnsubscribeWakes, UnsubscribeExpires, LockClosed, LockInvalid,
        LockOpen, MustDisconnect, PutRequest, PutTimeout, AwaitTimeout, subVars
    <3>2. crashed' \in BOOLEAN
      <4>1. crashed' = crashed \/ crashed' = writeClosed
        BY <1>3, <2>3 DEF OwnStep, Start, UnsubscribeStep, UnsubscribeFails, UnsubscribeChecks,
          UnsubscribeWaits, UnsubscribeWakes, UnsubscribeExpires, LockClosed, LockInvalid,
          LockOpen, MustDisconnect, PutRequest, PutTimeout, AwaitTimeout
      <4> QED
        BY <1>0, <4>1 DEF SubTypes, CInv, TypeOK
    <3>3. /\ state' \in [Sub -> {"none", "active", "closing", "closed"}]
          /\ reader' \in [Sub -> ReaderPlaces]
      <4>1. CASE Start(k) \/ LockOpen(k)
        BY <1>0, <4>1 DEF Start, LockOpen, SubTypes, ReaderPlaces
      <4>2. CASE ~(Start(k) \/ LockOpen(k))
        <5>1. UNCHANGED <<state, reader>>
          BY <1>3, <2>3, <4>2 DEF OwnStep, UnsubscribeStep, UnsubscribeFails, UnsubscribeChecks,
            UnsubscribeWaits, UnsubscribeWakes, UnsubscribeExpires, Waiting, LockClosed,
            LockInvalid, MustDisconnect, PutRequest, PutTimeout, AwaitTimeout, subVars
        <5> QED
          BY <1>0, <5>1 DEF SubTypes
      <4> QED
        BY <4>1, <4>2
    <3>4. \A t \in Sub : crashed' \/ Len(C'[t]) <= SubCap
      BY <1>0, <2>1, <3>1 DEF SubTypes
    <3> QED
      BY <1>0, <2>1, <3>1, <3>2, <3>3, <3>4 DEF SubTypes
  <2> QED
    BY <2>2, <2>3
<1>4. ASSUME NEW k \in Call, Answer(k) PROVE SubTypes'
  <2>1. UNCHANGED <<subVars, got, crashed>>
    BY <1>4, ReceiptFrames
  <2> QED
    BY <1>0, <2>1 DEF SubTypes, subVars
<1>5. ASSUME NEW s \in Sub, ReceiveFrame(s) PROVE SubTypes'
  <2>1. UNCHANGED <<state, C, CClosed, once, got, crashed>>
    BY <1>5, ReceiptFrames
  <2>2. sending.frame \in Frame
    BY <1>0, <1>5, SendingFields DEF ReceiveFrame, Sent, SendInv
  <2>3. sending.frame.n \in Item /\ sending.frame.cmd \in {"RECEIPT", "MESSAGE", "ERROR"}
    BY <2>2, FrameFields DEF Item
  <2>4. held' \in [Sub -> Item] /\ reader' \in [Sub -> ReaderPlaces]
    BY <1>0, <1>5, <2>3 DEF ReceiveFrame, SubTypes, ReaderPlaces
  <2> QED
    BY <1>0, <2>1, <2>4 DEF SubTypes
<1>6. ASSUME NEW s \in Sub, SubStep(s) PROVE SubTypes'
  <2>0. ~crashed
    BY <1>6, SubFrame
  <2>1. CASE ReceiveNothing(s) \/ ReaderEnds(s)
    BY <1>0, <2>1 DEF ReceiveNothing, ReaderEnds, SubTypes, ReaderPlaces
  <2>2. CASE PutMessage(s)
    <3>1. held[s] \in Item
      BY <1>0 DEF SubTypes
    <3>2. /\ C' \in [Sub -> Seq(Item)] /\ crashed' \in BOOLEAN
          /\ \A t \in Sub : crashed' \/ Len(C'[t]) <= SubCap
      BY <1>0, <2>0, <2>2, <3>1, PutOnCTypes DEF PutMessage
    <3> QED
      BY <1>0, <2>2, <3>2 DEF PutMessage, SubTypes, ReaderPlaces, Item
  <2>3. CASE ClosePuts(s)
    <3>1. /\ C' \in [Sub -> Seq(Item)] /\ crashed' \in BOOLEAN
          /\ \A t \in Sub : crashed' \/ Len(C'[t]) <= SubCap
      BY <1>0, <2>0, <2>3, PutOnCTypes DEF ClosePuts, Item
    <3> QED
      BY <1>0, <2>3, <3>1 DEF ClosePuts, SubTypes, OnceStages
  <2>4. CASE CloseBegins(s) \/ CloseStores(s)
    BY <1>0, <2>4 DEF CloseBegins, CloseStores, SubTypes, OnceStages
  <2>5. CASE CloseShuts(s)
    <3>1. CClosed' \in [Sub -> BOOLEAN]
      BY <1>0, <2>5 DEF CloseShuts, SubTypes
    <3> QED
      BY <1>0, <2>5, <3>1 DEF CloseShuts, SubTypes, OnceStages
  <2>6. CASE Receive(s)
    <3>1. C[s] \in Seq(Item) /\ got[s] \in Seq(Item) /\ C[s] /= <<>>
      BY <1>0, <2>6 DEF SubTypes, Receive
    <3>2. /\ Tail(C[s]) \in Seq(Item) /\ Len(Tail(C[s])) = Len(C[s]) - 1 /\ Len(C[s]) \in Nat
          /\ Append(got[s], Head(C[s])) \in Seq(Item)
      BY <3>1, TakeFirst, PutLast
    <3>3. C' = [C EXCEPT ![s] = Tail(C[s])] /\ got' = [got EXCEPT ![s] = Append(got[s], Head(C[s]))]
          /\ UNCHANGED <<state, CClosed, reader, held, once, crashed>>
      BY <2>6 DEF Receive
    <3>4. \A t \in Sub : Len(C'[t]) <= SubCap
      BY <1>0, <2>0, <3>2, <3>3, CapAssumption DEF SubTypes
    <3> QED
      BY <1>0, <3>2, <3>3, <3>4 DEF SubTypes
  <2> QED
    BY <1>6, <2>1, <2>2, <2>3, <2>4, <2>5, <2>6 DEF SubStep, CloseStep
<1> QED
  BY <1>1, <1>2, <1>3, <1>4, <1>5, <1>6, StepKinds

\* Every step preserves the types.
LEMMA TypeStep == CInv /\ Next => TypeOK'
<1> SUFFICES ASSUME CInv, Next PROVE CallTypes'
  BY LoopTypesStep, SubTypesStep, PeerTypesStep, TypeParts
  DEF TypeOK, CallTypes, LoopTypes, SubTypes, PeerTypes
<1>0. CallTypes
  BY TypeParts DEF CInv
<1>1. CASE ReadLoop \/ Server
  BY <1>0, <1>1, OutsideFrame DEF CallTypes, lockVars, callVars
<1>2. CASE LoopStep
  <2>1. UNCHANGED <<closeMutex, callVars>>
    BY <1>2, LoopFrame
  <2>2. closed' \in BOOLEAN
    BY <1>0, <1>2 DEF LoopStep, ReadEvent, WriteEvent, HandleFrame, HandleRequest,
        HandleReceipt, HandleBadReceipt, HandleMessage, HandleError, TakeFrame, WriteFails,
        WriteRequest, SubscribeLocal, UnsubscribeLocal, TakeRequest, ConnectionClosed,
        WriteChannelClosed, HeartBeatFails, LoopDisconnects, LoopFails, MarkClosed, lockVars,
        CallTypes
  <2> QED
    BY <1>0, <2>1, <2>2 DEF CallTypes, callVars
<1>3. ASSUME NEW k \in Call, OwnStep(k) \/ Answer(k) PROVE CallTypes'
  BY <1>3, CallStepTypes DEF OwnStep, CallStep
<1>4. ASSUME NEW s \in Sub, SubStep(s) PROVE CallTypes'
  <2>1. UNCHANGED <<lockVars, result, completed>>
    BY <1>4, SubFrame
  <2>2. pc' \in [Call -> CallPlaces]
    BY <1>0, <1>4 DEF SubStep, ReceiveNothing, PutMessage, ReaderEnds, Receive, CloseStep,
       CloseBegins, ClosePuts, CloseStores, CloseShuts, Broadcast, callVars, CallTypes, CallPlaces
  <2> QED
    BY <1>0, <2>1, <2>2 DEF CallTypes, lockVars
<1>5. ASSUME NEW s \in Sub, ReceiveFrame(s) PROVE CallTypes'
  <2>1. UNCHANGED <<lockVars, callVars>>
    BY <1>5, ReceiptFrames
  <2> QED
    BY <1>0, <2>1 DEF CallTypes, lockVars, callVars
<1> QED
  BY <1>1, <1>2, <1>3, <1>4, <1>5, StepKinds

-----------------------------------------------------------------------------
(* The calls *)

\* The goroutines run the calls one step at a time: what a step of k does to the
\* place and the result of each call.
LEMMA CallMoves ==
  ASSUME CInv, NEW k \in Call, OwnStep(k) \/ Answer(k)
  PROVE  /\ \A j \in Call : j /= k => pc'[j] = pc[j] /\ result'[j] = result[j]
         /\ pc[k] /= "done" /\ pc'[k] /= "idle" /\ result[k] = "none"
         /\ pc'[k] /= "done" => result'[k] = "none"
         /\ pc'[k] = "lock" => Start(k)
         /\ pc'[k] = "write" => LockOpen(k)
         /\ pc'[k] = "await" => PutRequest(k) /\ k \in Receipted
         /\ pc'[k] \in {"close", "check", "arm", "wait", "woken", "expired"} =>
              Op[k] = "Unsubscribe"
         /\ pc[k] = "close" => pc'[k] = "done" /\ result'[k] = "closed"
         /\ pc[k] = "await" => pc'[k] = "done"
         /\ result'[k] = "ok" =>
              \/ Answer(k) /\ Accepts(sending.frame)
              \/ PutRequest(k) /\ k \notin Receipted
              \/ Op[k] \notin ReceiptOps
<1>0. /\ pc \in [Call -> CallPlaces] /\ result \in [Call -> Results]
      /\ PcInv
  BY DEF CInv, TypeOK
<1>r. ASSUME NEW r, Return(k, r)
      PROVE  /\ \A j \in Call : j /= k => pc'[j] = pc[j] /\ result'[j] = result[j]
             /\ pc'[k] = "done" /\ result'[k] = r
  BY <1>0, <1>r DEF Return
<1>g. ASSUME NEW p, Goto(k, p)
      PROVE  /\ \A j \in Call : j /= k => pc'[j] = pc[j] /\ result'[j] = result[j]
             /\ pc'[k] = p /\ result'[k] = result[k]
  BY <1>0, <1>g DEF Goto
<1>n. pc[k] /= "done" => result[k] = "none"
  BY <1>0 DEF PcInv
<1> USE DEF ReceiptOps
<1>1. CASE Start(k)
  <2>1. /\ pc[k] = "idle"
        /\ \/ Return(k, "refused") \/ Goto(k, "lock")
           \/ Return(k, "ok") /\ Op[k] \in {"Ack", "TxAck"}
    BY <1>1 DEF Start, Unneeded
  <2> QED
    BY <1>1, <1>r, <1>g, <1>n, <2>1
<1>2. CASE LockClosed(k)
  <2>1. /\ pc[k] = "lock"
        /\ \/ Return(k, "noop") \/ Return(k, "closed")
           \/ Goto(k, "close") /\ Op[k] = "Unsubscribe"
    BY <1>2 DEF LockClosed, Locked
  <2> QED
    BY <1>r, <1>g, <1>n, <2>1
<1>3. CASE LockInvalid(k)
  <2>1. pc[k] = "lock" /\ Return(k, "refused")
    BY <1>3 DEF LockInvalid, Locked
  <2> QED
    BY <1>r, <1>n, <2>1
<1>4. CASE LockOpen(k)
  <2>1. pc[k] = "lock" /\ Goto(k, "write")
    BY <1>4 DEF LockOpen, Locked
  <2> QED
    BY <1>4, <1>g, <1>n, <2>1
<1>5. CASE MustDisconnect(k)
  <2>1. pc[k] = "lock" /\ Return(k, "ok") /\ Op[k] = "MustDisconnect"
    BY <1>5 DEF MustDisconnect, Locked
  <2> QED
    BY <1>r, <1>n, <2>1
<1>6. CASE PutRequest(k)
  <2>1. /\ pc[k] = "write"
        /\ \/ Goto(k, "await") /\ k \in Receipted
           \/ Goto(k, "check") /\ Op[k] = "Unsubscribe"
           \/ Return(k, "ok") /\ k \notin Receipted
    BY <1>6 DEF PutRequest
  <2> QED
    BY <1>6, <1>r, <1>g, <1>n, <2>1
<1>7. CASE PutTimeout(k)
  <2>1. pc[k] = "write" /\ Return(k, "timeout")
    BY <1>7 DEF PutTimeout
  <2> QED
    BY <1>r, <1>n, <2>1
<1>8. CASE Answer(k)
  <2>1. /\ pc[k] = "await"
        /\ (Return(k, "ok") /\ Accepts(sending.frame)) \/ Return(k, "error")
    BY <1>8 DEF Answer
  <2> QED
    BY <1>8, <1>r, <1>n, <2>1
<1>9. CASE AwaitTimeout(k)
  <2>1. pc[k] = "await" /\ (Return(k, "closed") \/ Return(k, "timeout"))
    BY <1>9 DEF AwaitTimeout
  <2> QED
    BY <1>r, <1>n, <2>1
<1>10. CASE UnsubscribeFails(k)
  <2>1. pc[k] = "close" /\ Return(k, "closed")
    BY <1>10 DEF UnsubscribeFails
  <2> QED
    BY <1>r, <1>n, <2>1
<1>11. CASE UnsubscribeStep(k) /\ ~UnsubscribeFails(k)
  <2>1. /\ pc[k] \in {"check", "arm", "wait", "woken", "expired"}
        /\ \/ Return(k, "ok") \/ Return(k, "timeout")
           \/ Goto(k, "arm") \/ Goto(k, "wait") \/ Goto(k, "check") \/ Goto(k, "expired")
    BY <1>11 DEF UnsubscribeStep, UnsubscribeChecks, UnsubscribeWaits, UnsubscribeWakes,
                 UnsubscribeExpires, UnsubscribeGivesUp
  <2>2. Op[k] = "Unsubscribe"
    BY <1>0, <2>1 DEF PcInv
  <2> QED
    BY <1>r, <1>g, <1>n, <2>1, <2>2
<1> QED
  BY <1>1, <1>2, <1>3, <1>4, <1>5, <1>6, <1>7, <1>8, <1>9, <1>10, <1>11 DEF OwnStep

\* Everyone else leaves the calls where they are, or wakes those who wait.
LEMMA OthersMoves ==
  ASSUME CInv, ReadLoop \/ Server \/ LoopStep \/ (\E s \in Sub : SubStep(s) \/ ReceiveFrame(s))
  PROVE  /\ UNCHANGED <<result, completed, closeMutex>>
         /\ \A k \in Call : pc'[k] = pc[k] \/ (pc[k] = "wait" /\ pc'[k] = "woken")
<1>0. pc \in [Call -> CallPlaces]
  BY DEF CInv, TypeOK
<1>1. CASE ReadLoop \/ Server
  BY <1>1, OutsideFrame DEF callVars, lockVars
<1>2. CASE LoopStep
  BY <1>2, LoopFrame DEF callVars
<1>3. ASSUME NEW s \in Sub, ReceiveFrame(s)
      PROVE  UNCHANGED <<result, completed, closeMutex, pc>>
  BY <1>3, ReceiptFrames DEF callVars, lockVars
<1>4. ASSUME NEW s \in Sub, SubStep(s)
      PROVE  /\ UNCHANGED <<result, completed, closeMutex>>
             /\ \A k \in Call : pc'[k] = pc[k] \/ (pc[k] = "wait" /\ pc'[k] = "woken")
  <2>1. UNCHANGED <<result, completed, closeMutex>>
    BY <1>4, SubFrame DEF lockVars
  <2>2. pc' = pc \/ Broadcast(s)
    BY <1>4 DEF SubStep, ReceiveNothing, PutMessage, ReaderEnds, Receive, CloseStep,
       CloseBegins, ClosePuts, CloseStores, CloseShuts, callVars
  <2> QED
    BY <1>0, <2>1, <2>2 DEF Broadcast
<1> QED
  BY <1>1, <1>2, <1>3, <1>4

\* Where a call is fits its function.
LEMMA PcStep == CInv /\ Next => PcInv'
<1> SUFFICES ASSUME CInv, Next PROVE PcInv'
  OBVIOUS
<1>0. PcInv
  BY DEF CInv
<1>1. ASSUME NEW k \in Call, OwnStep(k) \/ Answer(k) PROVE PcInv'
  BY <1>0, <1>1, CallMoves DEF PcInv
<1>2. CASE ReadLoop \/ Server \/ LoopStep \/ (\E s \in Sub : SubStep(s) \/ ReceiveFrame(s))
  BY <1>0, <1>2, OthersMoves DEF PcInv
<1> QED
  BY <1>1, <1>2, StepKinds

\* closeMutex keeps writeCh open while somebody is about to write to it.
LEMMA MutexStep == CInv /\ Next => MutexInv'
<1> SUFFICES ASSUME CInv, Next PROVE MutexInv'
  OBVIOUS
<1>0. MutexInv /\ CallTypes /\ PcInv
  BY TypeParts DEF CInv
<1>n. nil \notin Call /\ \A k \in Call : Op[k] = "Disconnect" => k \in Receipted
  BY CallAssumption DEF Id
<1>1. ASSUME NEW k \in Call, OwnStep(k) \/ Answer(k) PROVE MutexInv'
  <2>m. /\ \A j \in Call : j /= k => pc'[j] = pc[j]
        /\ pc'[k] = "write" => LockOpen(k)
        /\ pc'[k] = "await" => PutRequest(k)
    BY <1>1, CallMoves
  <2>1. CASE Start(k) \/ LockClosed(k) \/ LockInvalid(k) \/ UnsubscribeStep(k)
    <3>1. UNCHANGED <<closeMutex, closed, writeClosed>>
      BY <2>1 DEF Start, LockClosed, LockInvalid, UnsubscribeStep, UnsubscribeFails,
        UnsubscribeChecks, UnsubscribeWaits, UnsubscribeWakes, UnsubscribeExpires,
        UnsubscribeGivesUp, Waiting, lockVars, chanVars
    <3>2. pc'[k] \notin {"write", "await"}
      BY <1>0, <2>1 DEF Start, LockClosed, LockInvalid, UnsubscribeStep, UnsubscribeFails,
        UnsubscribeChecks, UnsubscribeWaits, UnsubscribeWakes, UnsubscribeExpires,
        UnsubscribeGivesUp, Return, Goto, CallTypes
    <3> QED
      BY <1>0, <2>m, <3>1, <3>2 DEF MutexInv, KeepsMutex
  <2>2. CASE LockOpen(k)
    <3>1. /\ closeMutex = nil /\ closeMutex' = k /\ ~closed /\ closed' = closed
          /\ writeClosed' = writeClosed /\ pc'[k] = "write"
      BY <1>0, <2>2 DEF LockOpen, Locked, Goto, CallTypes, chanVars
    <3> QED
      BY <1>0, <1>n, <2>m, <3>1 DEF MutexInv, KeepsMutex
  <2>3. CASE MustDisconnect(k)
    <3>1. closeMutex = nil /\ closeMutex' = closeMutex /\ closed' /\ pc'[k] = "done"
      BY <1>0, <2>3 DEF MustDisconnect, Locked, Return, CallTypes, MarkClosed
    <3> QED
      BY <1>0, <1>n, <2>m, <3>1 DEF MutexInv, KeepsMutex
  <2>4. CASE PutRequest(k)
    <3>1. /\ pc[k] = "write" /\ UNCHANGED <<closed, writeClosed>>
          /\ closeMutex' = IF KeepsMutex(k) THEN k ELSE nil
          /\ pc'[k] /= "write"
      BY <1>0, <2>4, <2>m DEF PutRequest, Goto, Return, CallTypes
    <3>2. closeMutex = k
      BY <1>0, <3>1 DEF MutexInv
    <3> QED
      BY <1>0, <1>n, <2>m, <3>1, <3>2 DEF MutexInv, KeepsMutex
  <2>5. CASE PutTimeout(k)
    <3>1. pc[k] = "write" /\ UNCHANGED <<closed, writeClosed>> /\ Unlock(k) /\ pc'[k] = "done"
      BY <1>0, <2>5 DEF PutTimeout, Return, CallTypes, chanVars
    <3>2. closeMutex = k
      BY <1>0, <3>1 DEF MutexInv
    <3> QED
      BY <1>0, <1>n, <2>m, <3>1, <3>2 DEF MutexInv, KeepsMutex
  <2>6. CASE Answer(k) \/ AwaitTimeout(k)
    <3>1. /\ pc[k] = "await" /\ writeClosed' = writeClosed /\ Unlock(k) /\ pc'[k] = "done"
          /\ closed => closed'
          /\ Op[k] /= "Disconnect" => closed' = closed
      BY <1>0, <2>6 DEF Answer, AwaitTimeout, Sent, Return, CallTypes, chanVars
    <3>2. Op[k] = "Disconnect" => closeMutex = k
      BY <1>0, <1>n, <3>1 DEF MutexInv, KeepsMutex
    <3> QED
      BY <1>0, <1>n, <2>m, <3>1, <3>2 DEF MutexInv, KeepsMutex, Unlock
  <2> QED
    BY <1>1, <2>1, <2>2, <2>3, <2>4, <2>5, <2>6 DEF OwnStep
<1>2. CASE LoopDisconnects \/ LoopFails
  <2>1. closeMutex = nil /\ closeMutex' = closeMutex /\ closed' /\ pc' = pc
    BY <1>2 DEF LoopDisconnects, LoopFails, MarkClosed, callVars
  <2> QED
    BY <1>0, <1>n, <2>1 DEF MutexInv, KeepsMutex
<1>3. CASE \/ ReadLoop \/ Server \/ (LoopStep /\ ~LoopDisconnects /\ ~LoopFails)
           \/ \E s \in Sub : SubStep(s) \/ ReceiveFrame(s)
  <2>1. UNCHANGED <<closed, writeClosed>>
    <3>1. ReadLoop \/ Server => UNCHANGED <<closed, writeClosed>>
      BY OutsideFrame DEF lockVars
    <3>2. LoopStep /\ ~LoopDisconnects /\ ~LoopFails => UNCHANGED <<closed, writeClosed>>
      BY DEF LoopStep, ReadEvent, WriteEvent, HandleFrame, HandleRequest,
        HandleReceipt, HandleBadReceipt, HandleMessage, HandleError, TakeFrame, WriteFails,
        WriteRequest, SubscribeLocal, UnsubscribeLocal, TakeRequest, ConnectionClosed,
        WriteChannelClosed, HeartBeatFails, lockVars, chanVars
    <3>3. (\E s \in Sub : SubStep(s) \/ ReceiveFrame(s)) => UNCHANGED <<closed, writeClosed>>
      BY SubFrame, ReceiptFrames DEF lockVars, chanVars
    <3> QED
      BY <1>3, <3>1, <3>2, <3>3
  <2>2. closeMutex' = closeMutex /\
        \A k \in Call : pc'[k] = pc[k] \/ (pc[k] = "wait" /\ pc'[k] = "woken")
    BY <1>3, OthersMoves
  <2> QED
    BY <1>0, <2>1, <2>2 DEF MutexInv, KeepsMutex
<1> QED
  BY <1>1, <1>2, <1>3, StepKinds DEF LoopStep

-----------------------------------------------------------------------------
(* Frames from the server *)

\* A RECEIPT that the server has sent stays sent.
LEMMA ConfirmedGrows == Next => confirmed \subseteq confirmed'
<1> SUFFICES ASSUME Next PROVE confirmed \subseteq confirmed'
  OBVIOUS
<1>1. CASE ReadLoop \/ Server
  BY <1>1 DEF ReadLoop, ReadFrame, ReadFails, Server, ServerHandles, ServerFault, ServerMessage,
              peerVars
<1>2. CASE LoopStep
  BY <1>2, LoopFrame DEF peerVars
<1>3. ASSUME NEW k \in Call, OwnStep(k) \/ Answer(k) PROVE confirmed \subseteq confirmed'
  BY <1>3, OwnFrame, ReceiptFrames DEF peerVars
<1>4. ASSUME NEW s \in Sub, SubStep(s) \/ ReceiveFrame(s) PROVE confirmed \subseteq confirmed'
  BY <1>4, SubFrame, ReceiptFrames DEF peerVars
<1> QED
  BY <1>1, <1>2, <1>3, <1>4, StepKinds

\* What processLoop sends, and to whom.
LEMMA SendStep == CInv /\ Next => SendInv'
<1> SUFFICES ASSUME CInv, Next PROVE SendInv'
  OBVIOUS
<1>0. SendInv /\ LoopTypes /\ ReceiptInv
  BY TypeParts DEF CInv
<1>g. ASSUME NEW f, Genuine(f) PROVE Genuine(f)'
  BY <1>g, ConfirmedGrows DEF Genuine
<1>u. ASSUME UNCHANGED <<loop, sending, channels>> PROVE SendInv'
  BY <1>0, <1>g, <1>u DEF SendInv, Genuine
<1>e. ASSUME NEW ids \in SUBSET Id, NEW f \in Frame, f.cmd = "ERROR",
             NEW next \in {"disconnect", "fail"}, SendTo(ids, f, next)
      PROVE  SendInv'
  <2>1. \/ loop' = next
        \/ sending' \in Sending /\ sending'.frame = f /\ sending'.next = next
    BY <1>e, SendToEffect
  <2> QED
    BY <1>e, <2>1 DEF SendInv, Genuine
<1>1. CASE ReadLoop \/ Server
  BY <1>1, <1>u, OutsideFrame DEF loopVars
<1>2. ASSUME NEW k \in Call, OwnStep(k) PROVE SendInv'
  BY <1>2, <1>u, OwnFrame DEF loopVars
<1>3. ASSUME NEW s \in Sub, SubStep(s) PROVE SendInv'
  BY <1>3, <1>u, SubFrame DEF loopVars
<1>4. ASSUME NEW i \in Id, Sent(i) PROVE SendInv'
  <2>1. /\ SendTo(sending.rest, sending.frame, sending.next) /\ sending \in Sending
        /\ channels' = channels
        /\ sending.next = "select" => sending.rest = {}
        /\ sending.next /= "select" => sending.frame.cmd = "ERROR"
    BY <1>0, <1>4 DEF Sent, SendInv
  <2>2. /\ sending.frame \in Frame /\ sending.rest \in SUBSET Id
        /\ sending.next \in {"select", "disconnect", "fail"}
    BY <2>1, SendingFields
  <2>3. CASE sending.next = "select"
    <3>1. loop' = "select"
      BY <2>1, <2>2, <2>3, SendToEffect
    <3> QED
      BY <3>1 DEF SendInv
  <2>4. CASE sending.next /= "select"
    BY <1>e, <2>1, <2>2, <2>4
  <2> QED
    BY <2>3, <2>4
<1>5. CASE LoopStep
  <2>e. ErrorFrame \in Frame /\ ErrorFrame.cmd = "ERROR" /\ channels \in SUBSET Id
    BY <1>0, FrameTypes DEF LoopTypes
  <2>1. ASSUME NEW f, HandleFrame(f) PROVE SendInv'
    <3>1. readCh /= <<>> /\ f = Head(readCh)
      BY <2>1 DEF HandleFrame, HandleReceipt, HandleBadReceipt, HandleMessage, HandleError,
                  TakeFrame
    <3>2. f \in Frame /\ Genuine(f)
      BY <1>0, <3>1, TakeFirst DEF LoopTypes, ReceiptInv
    <3>3. CASE HandleReceipt(f) \/ HandleMessage(f)
      <4>1. /\ SendTo(channels \cap {f.id}, f, "select") /\ f.cmd /= "ERROR"
            /\ f.cmd = "MESSAGE" => channels' = channels
        BY <3>3 DEF HandleReceipt, HandleMessage
      <4>2. \/ loop' = "select"
            \/ /\ sending' \in Sending /\ sending'.frame = f /\ sending'.next = "select"
               /\ sending'.cur \in channels \cap {f.id}
               /\ sending'.rest = (channels \cap {f.id}) \ {sending'.cur}
        BY <2>e, <3>2, <4>1, SendToEffect
      <4>3. Genuine(f)'
        BY <1>g, <3>2
      <4>4. Genuine(f)' => (f.cmd = "RECEIPT" /\ f.id \in Call => f.id \in confirmed')
        BY DEF Genuine
      <4> QED
        BY <4>1, <4>2, <4>3, <4>4 DEF SendInv, Genuine
    <3>4. CASE HandleBadReceipt(f) \/ HandleError(f)
      BY <1>e, <2>e, <3>2, <3>4 DEF HandleBadReceipt, HandleError, SendError
    <3> QED
      BY <2>1, <3>3, <3>4 DEF HandleFrame
  <2>2. ASSUME NEW k, HandleRequest(k) PROVE SendInv'
    <3>1. CASE WriteFails(k)
      <4>1. channels' \in SUBSET Id
        BY LoopTypesStep DEF LoopTypes
      <4> QED
        BY <1>e, <2>e, <3>1, <4>1 DEF WriteFails, SendError
    <3>2. CASE ~WriteFails(k)
      <4>1. loop' = "select"
        BY <2>2, <3>2 DEF HandleRequest, WriteRequest, SubscribeLocal, UnsubscribeLocal,
                          TakeRequest, LoopEvent
      <4> QED
        BY <4>1 DEF SendInv
    <3> QED
      BY <3>1, <3>2
  <2>3. CASE ConnectionClosed \/ WriteChannelClosed \/ HeartBeatFails
    BY <1>e, <2>e, <2>3 DEF ConnectionClosed, WriteChannelClosed, HeartBeatFails, SendError
  <2>4. CASE LoopDisconnects \/ LoopFails
    BY <2>4 DEF LoopDisconnects, LoopFails, SendInv
  <2> QED
    BY <1>5, <2>1, <2>2, <2>3, <2>4 DEF LoopStep, ReadEvent, WriteEvent
<1> QED
  BY <1>1, <1>2, <1>3, <1>4, <1>5, StepKinds DEF Answer, ReceiveFrame, Id

\* Frames on their way, as processLoop will see them.
LEMMA GoodFrames ==
  ASSUME NEW q \in Seq(Frame), NEW c, NEW d, c \subseteq d,
         \A i \in DOMAIN q : q[i].cmd = "RECEIPT" /\ q[i].id \in Call => q[i].id \in c
  PROVE  /\ \A i \in DOMAIN q : q[i].cmd = "RECEIPT" /\ q[i].id \in Call => q[i].id \in d
         /\ q /= <<>> =>
              /\ Head(q).cmd = "RECEIPT" /\ Head(q).id \in Call => Head(q).id \in d
              /\ \A i \in DOMAIN Tail(q) :
                   Tail(q)[i].cmd = "RECEIPT" /\ Tail(q)[i].id \in Call => Tail(q)[i].id \in d
         /\ \A f \in Frame : (f.cmd = "RECEIPT" /\ f.id \in Call => f.id \in d) =>
              \A i \in DOMAIN Append(q, f) : Append(q, f)[i].cmd = "RECEIPT"
                 /\ Append(q, f)[i].id \in Call => Append(q, f)[i].id \in d
<1>1. q /= <<>> =>
        /\ Head(q) = q[1] /\ 1 \in DOMAIN q
        /\ \A i \in DOMAIN Tail(q) : i + 1 \in DOMAIN q /\ Tail(q)[i] = q[i + 1]
  BY TakeFirst
<1>2. ASSUME NEW f \in Frame, NEW i \in DOMAIN Append(q, f)
      PROVE  Append(q, f)[i] = f \/ (i \in DOMAIN q /\ Append(q, f)[i] = q[i])
  <2>1. /\ Len(q) \in Nat /\ DOMAIN q = 1..Len(q) /\ DOMAIN Append(q, f) = 1..(Len(q) + 1)
        /\ \A j \in 1..Len(q) : Append(q, f)[j] = q[j]
        /\ Append(q, f)[Len(q) + 1] = f
    BY PutLast
  <2> QED
    BY <1>2, <2>1
<1> QED
  BY <1>1, <1>2

\* No RECEIPT is made up on the way, and only its own makes a call succeed.
LEMMA ReceiptStep == CInv /\ Next => ReceiptInv'
<1> SUFFICES ASSUME CInv, Next PROVE ReceiptInv'
  OBVIOUS
<1> DEFINE Good(q, c) == \A i \in DOMAIN q : q[i].cmd = "RECEIPT" /\ q[i].id \in Call
                                                => q[i].id \in c
           Succeed == \A k \in Receipted : result[k] = "ok" => k \in confirmed
<1>0. /\ Good(network, confirmed) /\ Good(readCh, confirmed) /\ Succeed
      /\ network \in Seq(Frame) /\ readCh \in Seq(Frame)
      /\ LoopTypes /\ PeerTypes /\ SendInv
  BY TypeParts DEF CInv, ReceiptInv, Genuine, LoopTypes, PeerTypes
<1>c. confirmed \subseteq confirmed'
  BY ConfirmedGrows
<1>d. Good(network, confirmed') /\ Good(readCh, confirmed')
  BY <1>0, <1>c
<1>q. ASSUME Good(network', confirmed'), Good(readCh', confirmed'), Succeed' PROVE ReceiptInv'
  BY <1>q DEF ReceiptInv, Genuine
<1>1. CASE ReadLoop
  <2>1. result' = result /\ Succeed'
    BY <1>0, <1>1, <1>c, OutsideFrame DEF callVars
  <2>2. CASE ReadFrame
    <3>1. network /= <<>> /\ readCh' = Append(readCh, Head(network)) /\ network' = Tail(network)
      BY <2>2 DEF ReadFrame
    <3>2. /\ Head(network) \in Frame
          /\ Head(network).cmd = "RECEIPT" /\ Head(network).id \in Call
                => Head(network).id \in confirmed'
          /\ Good(network', confirmed')
      BY <1>0, <1>c, <3>1, GoodFrames, TakeFirst
    <3>3. Good(readCh', confirmed')
      BY <1>0, <1>c, <3>1, <3>2, GoodFrames
    <3> QED
      BY <1>q, <2>1, <3>2, <3>3
  <2>3. CASE ReadFails
    <3>1. UNCHANGED <<network, readCh>>
      BY <2>3 DEF ReadFails, peerVars
    <3> QED
      BY <1>d, <1>q, <2>1, <3>1
  <2> QED
    BY <1>1, <2>2, <2>3 DEF ReadLoop
<1>2. CASE Server
  <2>1. result' = result /\ Succeed'
    BY <1>0, <1>2, <1>c, OutsideFrame DEF callVars
  <2>2. readCh' = readCh
    BY <1>2 DEF Server, ServerHandles, ServerFault, ServerMessage, chanVars
  <2>3. \/ network' = network
        \/ \E f \in Frame : /\ network' = Append(network, f)
                            /\ f.cmd = "RECEIPT" /\ f.id \in Call => f.id \in confirmed'
    <3>1. CASE ServerHandles
      <4> DEFINE k == wire[served + 1]
      <4>1. served + 1 \in 1..Len(wire) /\ Len(wire) \in Nat /\ k \in Call
        BY <1>0, <3>1, Members DEF ServerHandles, PeerTypes
      <4>2. ReceiptId(k) \in Id /\ (ReceiptId(k) \in Call => ReceiptId(k) = k)
        BY <4>1, CallAssumption DEF ReceiptId, Id
      <4>3. /\ ReceiptFrame(ReceiptId(k)) \in Frame
            /\ ReceiptFrame(ReceiptId(k)).id = ReceiptId(k)
        BY <4>2, FrameTypes
      <4>4. \/ network' = network
            \/ network' = Append(network, ReceiptFrame(ReceiptId(k))) /\ k \in confirmed'
        BY <3>1 DEF ServerHandles
      <4> QED
        BY <4>2, <4>3, <4>4
    <3>2. CASE ServerFault
      <4>1. /\ ErrorFrame \in Frame /\ ErrorFrame.cmd = "ERROR"
            /\ ReceiptFrame(nil) \in Frame /\ ReceiptFrame(nil).id = nil /\ nil \notin Call
        BY FrameTypes, CallAssumption DEF Id
      <4>2. \/ network' = Append(network, ErrorFrame)
            \/ network' = Append(network, ReceiptFrame(nil)) \/ network' = network
        BY <3>2 DEF ServerFault
      <4> QED
        BY <4>1, <4>2
    <3>3. ASSUME NEW s \in Sub, ServerMessage(s)
          PROVE  \E f \in Frame : network' = Append(network, f) /\ f.cmd /= "RECEIPT"
      <4>1. sentTo[s] + 1 \in Nat
        BY <1>0 DEF PeerTypes
      <4>2. /\ MessageFrame(s, sentTo[s] + 1) \in Frame
            /\ MessageFrame(s, sentTo[s] + 1).cmd = "MESSAGE"
        BY <4>1, FrameTypes
      <4> QED
        BY <3>3, <4>2 DEF ServerMessage
    <3> QED
      BY <1>2, <3>1, <3>2, <3>3 DEF Server
  <2>4. CASE network' = network
    BY <1>d, <1>q, <2>1, <2>2, <2>4
  <2>5. CASE network' /= network
    <3>1. PICK f \in Frame : /\ network' = Append(network, f)
                             /\ f.cmd = "RECEIPT" /\ f.id \in Call => f.id \in confirmed'
      BY <2>3, <2>5
    <3>2. Good(network', confirmed')
      BY <1>0, <1>c, <3>1, GoodFrames
    <3> QED
      BY <1>d, <1>q, <2>1, <2>2, <3>2
  <2> QED
    BY <2>4, <2>5
<1>3. CASE LoopStep
  <2>1. UNCHANGED <<result, network, confirmed>>
    BY <1>3, LoopFrame DEF callVars, peerVars
  <2>2. readCh' = readCh \/ (readCh /= <<>> /\ readCh' = Tail(readCh))
    BY <1>3 DEF LoopStep, ReadEvent, WriteEvent, HandleFrame, HandleRequest,
        HandleReceipt, HandleBadReceipt, HandleMessage, HandleError, TakeFrame, WriteFails,
        WriteRequest, SubscribeLocal, UnsubscribeLocal, TakeRequest, ConnectionClosed,
        WriteChannelClosed, HeartBeatFails, LoopDisconnects, LoopFails, chanVars
  <2>3. Good(readCh', confirmed')
    BY <1>0, <1>c, <1>d, <2>2, GoodFrames
  <2> QED
    BY <1>0, <1>d, <1>q, <2>1, <2>3
<1>4. ASSUME NEW k \in Call, OwnStep(k) \/ Answer(k) PROVE ReceiptInv'
  <2>1. UNCHANGED <<network, readCh, confirmed>>
    BY <1>4, OwnFrame, ReceiptFrames DEF peerVars, chanVars
  <2>2. ASSUME k \in Receipted, result'[k] = "ok" PROVE k \in confirmed
    <3>1. Op[k] \in ReceiptOps
      BY <2>2, CallAssumption
    <3>2. Answer(k) /\ Accepts(sending.frame)
      BY <1>4, <2>2, <3>1, CallMoves
    <3>3. loop = "send" /\ k = sending.cur /\ sending.frame.cmd = "RECEIPT"
      BY <3>2 DEF Answer, Sent, Accepts
    <3>4. sending.next = "select" /\ Genuine(sending.frame) /\ sending.frame.id = k
      BY <1>0, <3>3 DEF SendInv
    <3> QED
      BY <3>3, <3>4 DEF Genuine
  <2>3. Succeed'
    BY <1>0, <1>4, <2>1, <2>2, CallMoves, CallAssumption
  <2> QED
    BY <1>d, <1>q, <2>1, <2>3
<1>5. ASSUME NEW s \in Sub, SubStep(s) \/ ReceiveFrame(s) PROVE ReceiptInv'
  <2>1. UNCHANGED <<network, readCh, confirmed, result>>
    BY <1>5, SubFrame, ReceiptFrames DEF peerVars, chanVars, callVars
  <2> QED
    BY <1>0, <1>d, <1>q, <2>1
<1> QED
  BY <1>1, <1>2, <1>3, <1>4, <1>5, StepKinds

-----------------------------------------------------------------------------
(* Who is going to be told *)

\* After the start of a round of sends, everyone it is for is known.
LEMMA SendToKnown ==
  ASSUME NEW ids \in SUBSET Id, NEW f \in Frame, NEW next \in {"select", "disconnect", "fail"},
         SendTo(ids, f, next)
  PROVE  /\ next /= "select" => Known' = ids
         /\ next = "select" /\ (\A x, y \in ids : x = y) => Known' = channels' \cup ids
<1>1. \/ ids = {} /\ loop' = next
      \/ /\ loop' = "send" /\ sending'.next = next
         /\ sending'.cur \in ids /\ sending'.rest = ids \ {sending'.cur}
  BY SendToEffect
<1>2. CASE ids = {} /\ loop' = next
  BY <1>2 DEF Known
<1>3. CASE /\ loop' = "send" /\ sending'.next = next
           /\ sending'.cur \in ids /\ sending'.rest = ids \ {sending'.cur}
  <2>1. next /= "select" => Known' = {sending'.cur} \cup sending'.rest
    BY <1>3 DEF Known
  <2>2. next = "select" => Known' = channels' \cup {sending'.cur}
    BY <1>3 DEF Known
  <2>3. {sending'.cur} \cup sending'.rest = ids
    BY <1>3
  <2>4. (\A x, y \in ids : x = y) => ids = {sending'.cur}
    BY <1>3
  <2> QED
    BY <2>1, <2>2, <2>3, <2>4
<1> QED
  BY <1>1, <1>2, <1>3

\* processLoop forgets nobody, except a subscription whose channel it closes, and
\* it knows everyone whose request it takes.
LEMMA LoopKnows ==
  ASSUME CInv, Next, LoopStep
  PROVE  /\ shut \subseteq shut' /\ Known \subseteq Known' \cup shut'
         /\ \/ writeCh' = writeCh
            \/ writeCh /= <<>> /\ writeCh' = Tail(writeCh)
               /\ Remember(Head(writeCh)) \subseteq Known'
<1>0. LoopTypes /\ readCh \in Seq(Frame)
  BY TypeParts DEF CInv, LoopTypes
<1>c. channels \in SUBSET Id /\ channels' \in SUBSET Id /\ ErrorFrame \in Frame
  BY <1>0, LoopTypesStep, FrameTypes DEF LoopTypes
<1>s. loop = "select" => Known = channels
  BY DEF Known
<1>t. loop' = "select" => Known' = channels'
  BY DEF Known
<1>1. CASE ConnectionClosed \/ WriteChannelClosed \/ HeartBeatFails
  <2>1. /\ loop = "select" /\ SendTo(channels, ErrorFrame, "disconnect")
        /\ UNCHANGED <<shut, writeCh>>
    BY <1>1 DEF ConnectionClosed, WriteChannelClosed, HeartBeatFails, LoopEvent, SendError, chanVars
  <2>2. Known' = channels
    BY <1>c, <2>1, SendToKnown
  <2> QED
    BY <1>s, <2>1, <2>2
<1>2. CASE LoopDisconnects \/ LoopFails
  <2>1. Known = {} /\ UNCHANGED <<shut, writeCh>>
    BY <1>2 DEF LoopDisconnects, LoopFails, Known, chanVars
  <2> QED
    BY <2>1
<1>3. ASSUME NEW f, HandleFrame(f) PROVE UNCHANGED <<shut, writeCh>> /\ Known \subseteq Known'
  <2>1. /\ readCh /= <<>> /\ f = Head(readCh) /\ loop = "select" /\ UNCHANGED <<shut, writeCh>>
    BY <1>3 DEF HandleFrame, HandleReceipt, HandleBadReceipt, HandleMessage, HandleError,
                TakeFrame, LoopEvent
  <2>2. f \in Frame
    BY <1>0, <2>1, TakeFirst
  <2>3. CASE HandleReceipt(f) \/ HandleMessage(f)
    <3>1. /\ SendTo(channels \cap {f.id}, f, "select")
          /\ channels \subseteq channels' \cup (channels \cap {f.id})
      BY <2>3 DEF HandleReceipt, HandleMessage, AfterReceipt
    <3>2. channels \cap {f.id} \in SUBSET Id /\ \A x, y \in channels \cap {f.id} : x = y
      BY <1>c
    <3>3. Known' = channels' \cup (channels \cap {f.id})
      BY <2>2, <3>1, <3>2, SendToKnown
    <3> QED
      BY <1>s, <2>1, <3>1, <3>3
  <2>4. CASE HandleBadReceipt(f) \/ HandleError(f)
    <3>1. SendTo(channels, ErrorFrame, "disconnect") \/ SendTo(channels, f, "fail")
      BY <2>4 DEF HandleBadReceipt, HandleError, SendError
    <3>2. Known' = channels
      BY <1>c, <2>2, <3>1, SendToKnown
    <3> QED
      BY <1>s, <2>1, <3>2
  <2> QED
    BY <1>3, <2>3, <2>4 DEF HandleFrame
<1>4. ASSUME NEW k, HandleRequest(k)
      PROVE  /\ writeCh /= <<>> /\ k = Head(writeCh) /\ writeCh' = Tail(writeCh)
             /\ shut \subseteq shut' /\ Known \subseteq Known' \cup shut'
             /\ Remember(k) \subseteq Known'
  <2>1. /\ writeCh /= <<>> /\ k = Head(writeCh) /\ writeCh' = Tail(writeCh) /\ loop = "select"
    BY <1>4 DEF HandleRequest, WriteRequest, WriteFails, SubscribeLocal, UnsubscribeLocal,
                TakeRequest, LoopEvent
  <2>2. CASE WriteFails(k)
    <3>1. SendTo(channels', ErrorFrame, "disconnect")
      BY <2>2 DEF WriteFails, SendError
    <3>2. channels' = channels \cup Remember(k) /\ shut' = shut
      BY <2>2 DEF WriteFails
    <3>3. Known' = channels'
      BY <1>c, <3>1, SendToKnown
    <3> QED
      BY <1>s, <2>1, <3>2, <3>3
  <2>3. CASE WriteRequest(k) \/ SubscribeLocal(k)
    <3>1. channels' = channels \cup Remember(k) /\ shut' = shut /\ loop' = loop
      BY <2>3 DEF WriteRequest, SubscribeLocal
    <3> QED
      BY <1>s, <1>t, <2>1, <3>1
  <2>4. CASE UnsubscribeLocal(k)
    <3>1. /\ channels' = channels \ {SubOf[k]} /\ shut' = shut \cup (channels \cap {SubOf[k]})
          /\ loop' = loop /\ Op[k] = "Unsubscribe"
      BY <2>4 DEF UnsubscribeLocal
    <3>2. k \in Call
      BY <1>0, <2>1, TakeFirst DEF LoopTypes
    <3>3. Remember(k) = {}
      BY <3>1, <3>2, CallAssumption DEF Remember, ReceiptOps
    <3> QED
      BY <1>s, <1>t, <2>1, <3>1, <3>3
  <2> QED
    BY <1>4, <2>1, <2>2, <2>3, <2>4 DEF HandleRequest
<1> QED
  BY <1>1, <1>2, <1>3, <1>4 DEF LoopStep, ReadEvent, WriteEvent

\* A frame has been taken: the others are still going to be told, and so is the one
\* who took it, if it was a MESSAGE.
LEMMA SentKnows ==
  ASSUME CInv, NEW i, Sent(i)
  PROVE  /\ Known \ {i} \subseteq Known'
         /\ sending.frame.cmd = "MESSAGE" => i \in Known'
<1>0. SendInv
  BY DEF CInv
<1>1. /\ loop = "send" /\ i = sending.cur /\ channels' = channels /\ sending \in Sending
      /\ SendTo(sending.rest, sending.frame, sending.next)
      /\ sending.next /= "select" => sending.frame.cmd = "ERROR"
      /\ sending.next = "select" => sending.rest = {}
      /\ sending.frame.cmd = "MESSAGE" => i \in channels
  BY <1>0 DEF Sent, SendInv
<1>2. /\ sending.frame \in Frame /\ sending.rest \in SUBSET Id
      /\ sending.next \in {"select", "disconnect", "fail"}
  BY <1>1, SendingFields
<1>3. CASE sending.next = "select"
  <2>1. Known = channels \cup {i}
    BY <1>1, <1>3 DEF Known
  <2>2. Known' = channels'
    BY <1>1, <1>2, <1>3, SendToKnown
  <2> QED
    BY <1>1, <2>1, <2>2
<1>4. CASE sending.next /= "select"
  <2>1. Known = {i} \cup sending.rest
    BY <1>1, <1>4 DEF Known
  <2>2. Known' = sending.rest
    BY <1>1, <1>2, <1>4, SendToKnown
  <2> QED
    BY <1>1, <1>4, <2>1, <2>2
<1> QED
  BY <1>3, <1>4

\* A call puts at most its own request on writeCh.
LEMMA OwnWrites ==
  ASSUME CInv, NEW k \in Call, OwnStep(k)
  PROVE  /\ \/ PutRequest(k) /\ writeCh' = Append(writeCh, k)
            \/ ~PutRequest(k) /\ writeCh' = writeCh
         /\ \A x : Contains(writeCh, x) => Contains(writeCh', x)
         /\ PutRequest(k) => Contains(writeCh', k)
<1>0. writeCh \in Seq(Call)
  BY DEF CInv, TypeOK
<1>1. CASE PutRequest(k)
  <2>1. writeCh' = Append(writeCh, k)
    BY <1>1 DEF PutRequest
  <2> QED
    BY <1>0, <1>1, <2>1, PutLast
<1>2. CASE ~PutRequest(k)
  BY <1>2 DEF OwnStep, Start, UnsubscribeStep, UnsubscribeFails, UnsubscribeChecks,
    UnsubscribeWaits, UnsubscribeWakes, UnsubscribeExpires, UnsubscribeGivesUp, Waiting,
    LockClosed, LockInvalid, LockOpen, MustDisconnect, PutTimeout, AwaitTimeout, chanVars
<1> QED
  BY <1>1, <1>2

\* Whoever waits is going to be told.
LEMMA AwaitStep == CInv /\ Next => AwaitInv'
<1> SUFFICES ASSUME CInv, Next, NEW k \in Call, pc'[k] = "await"
             PROVE  Contains(writeCh', k) \/ k \in Known'
  BY DEF AwaitInv
<1>0. /\ pc[k] = "await" => Contains(writeCh, k) \/ k \in Known
      /\ pc[k] = "await" => k \in Receipted
      /\ writeCh \in Seq(Call) /\ shut' \subseteq Sub
  BY TypeStep DEF CInv, AwaitInv, PcInv, TypeOK
<1>n. k \notin Sub
  BY CallAssumption
<1>u. ASSUME UNCHANGED loopVars PROVE Known' = Known
  BY <1>u DEF loopVars, Known
<1>1. CASE ReadLoop \/ Server
  BY <1>0, <1>1, <1>u, OutsideFrame DEF callVars
<1>2. CASE LoopStep
  <2>1. pc[k] = "await"
    BY <1>2, LoopFrame DEF callVars
  <2>2. /\ Known \subseteq Known' \cup shut'
        /\ \/ writeCh' = writeCh
           \/ writeCh /= <<>> /\ writeCh' = Tail(writeCh)
              /\ Remember(Head(writeCh)) \subseteq Known'
    BY <1>2, LoopKnows
  <2>3. CASE k \in Known
    BY <1>0, <1>n, <2>2, <2>3
  <2>4. CASE Contains(writeCh, k) /\ writeCh' /= writeCh
    <3>1. k = Head(writeCh) \/ Contains(writeCh', k)
      BY <1>0, <2>2, <2>4, TakeFirst
    <3>2. k \in Remember(k)
      BY <1>0, <2>1 DEF Remember
    <3> QED
      BY <2>2, <2>4, <3>1, <3>2
  <2> QED
    BY <1>0, <2>1, <2>3, <2>4
<1>3. ASSUME NEW j \in Call, OwnStep(j) PROVE Contains(writeCh', k) \/ k \in Known'
  <2>1. Known' = Known
    BY <1>3, <1>u, OwnFrame
  <2>2. pc[k] = "await" \/ PutRequest(k)
    BY <1>3, CallMoves
  <2>3. CASE pc[k] = "await"
    BY <1>0, <1>3, <2>1, <2>3, OwnWrites
  <2>4. CASE pc[k] /= "await"
    BY <1>3, <2>4, CallMoves, OwnWrites
  <2> QED
    BY <2>3, <2>4
<1>4. ASSUME NEW j \in Call, Answer(j) PROVE Contains(writeCh', k) \/ k \in Known'
  <2>1. k /= j /\ pc[k] = "await"
    <3>1. pc[j] = "await"
      BY <1>4 DEF Answer
    <3> QED
      BY <1>4, <3>1, CallMoves
  <2>2. Known \ {j} \subseteq Known' /\ writeCh' = writeCh
    BY <1>4, SentKnows, ReceiptFrames DEF Answer, chanVars
  <2> QED
    BY <1>0, <2>1, <2>2
<1>5. ASSUME NEW s \in Sub, SubStep(s) PROVE Contains(writeCh', k) \/ k \in Known'
  <2>1. pc[k] = "await"
    BY <1>5, OthersMoves
  <2> QED
    BY <1>0, <1>5, <1>u, <2>1, SubFrame DEF chanVars
<1>6. ASSUME NEW s \in Sub, ReceiveFrame(s) PROVE Contains(writeCh', k) \/ k \in Known'
  <2>1. pc[k] = "await" /\ writeCh' = writeCh
    BY <1>6, ReceiptFrames DEF callVars, chanVars
  <2>2. Known \ {s} \subseteq Known'
    BY <1>6, SentKnows DEF ReceiveFrame
  <2> QED
    BY <1>0, <1>n, <2>1, <2>2
<1> QED
  BY <1>1, <1>2, <1>3, <1>4, <1>5, <1>6, StepKinds

\* The places of the readers: LockOpen of Subscribe starts one.
LEMMA OwnReaders ==
  ASSUME CInv, NEW k \in Call, OwnStep(k)
  PROVE  /\ ~LockOpen(k) => reader' = reader
         /\ \A s \in Sub : reader'[s] /= reader[s] =>
              /\ LockOpen(k) /\ Op[k] = "Subscribe" /\ SubOf[k] = s /\ pc[k] = "lock"
              /\ pc'[k] = "write" /\ reader'[s] = "receive"
<1>0. reader \in [Sub -> ReaderPlaces] /\ pc \in [Call -> CallPlaces]
  BY DEF CInv, TypeOK
<1>1. CASE LockOpen(k)
  <2>1. /\ pc[k] = "lock" /\ pc'[k] = "write"
        /\ reader' = [s \in Sub |-> IF Op[k] = "Subscribe" /\ s = SubOf[k] THEN "receive"
                                    ELSE reader[s]]
    BY <1>0, <1>1 DEF LockOpen, Locked, Goto
  <2> QED
    BY <1>0, <1>1, <2>1
<1>2. CASE ~LockOpen(k)
  BY <1>2 DEF OwnStep, Start, UnsubscribeStep, UnsubscribeFails, UnsubscribeChecks,
    UnsubscribeWaits, UnsubscribeWakes, UnsubscribeExpires, UnsubscribeGivesUp, Waiting,
    LockClosed, LockInvalid, MustDisconnect, PutRequest, PutTimeout, AwaitTimeout, subVars
<1> QED
  BY <1>1, <1>2

\* The steps of a subscription and its readLoop.
LEMMA SubReaders ==
  ASSUME CInv, NEW s \in Sub, SubStep(s) \/ ReceiveFrame(s)
  PROVE  /\ \A t \in Sub : t /= s => reader'[t] = reader[t]
         /\ reader'[s] = reader[s] \/ reader[s] /= "none"
         /\ reader[s] \in {"fail", "finish", "ended"} => reader'[s] \in {"fail", "finish", "ended"}
         /\ reader'[s] \in {"receive", "put"} => reader[s] \in {"receive", "put"}
         /\ reader'[s] = "put" => reader[s] = "put" \/ ReceiveFrame(s)
         /\ ReceiveFrame(s) /\ reader'[s] \in {"receive", "put"} => sending.frame.cmd = "MESSAGE"
<1>0. reader \in [Sub -> ReaderPlaces]
  BY DEF CInv, TypeOK
<1>1. CASE ReceiveFrame(s)
  <2>1. reader[s] = "receive" /\ loop = "send" /\ sending.frame.cmd \in {"RECEIPT", "MESSAGE", "ERROR"}
    BY <1>1, SendingFields, FrameFields DEF ReceiveFrame, Sent, CInv, SendInv
  <2>2. /\ \A t \in Sub : t /= s => reader'[t] = reader[t]
        /\ \/ sending.frame.cmd = "MESSAGE" /\ reader'[s] = "put"
           \/ sending.frame.cmd /= "MESSAGE" /\ reader'[s] \in {"fail", "finish"}
    BY <1>0, <1>1, <2>1 DEF ReceiveFrame
  <2> QED
    BY <1>1, <2>1, <2>2
<1>2. CASE ReceiveNothing(s) \/ PutMessage(s) \/ ReaderEnds(s)
  BY <1>0, <1>2 DEF ReceiveNothing, PutMessage, ReaderEnds, ReceiveFrame
<1>3. CASE CloseStep(s) \/ Receive(s)
  <2>1. reader' = reader
    BY <1>3 DEF CloseStep, CloseBegins, ClosePuts, CloseStores, CloseShuts, Receive
  <2>2. ~ReceiveFrame(s) \/ reader[s] = "receive"
    BY DEF ReceiveFrame
  <2> QED
    BY <1>1, <2>1
<1> QED
  BY <1>1, <1>2, <1>3 DEF SubStep

\* Nobody else has a hand in the readers.
LEMMA OthersReaders ==
  ASSUME ReadLoop \/ Server \/ LoopStep \/ \E k \in Call : Answer(k)
  PROVE  UNCHANGED <<subVars, got, crashed>> /\ ~crashed
  BY OutsideFrame, LoopFrame, ReceiptFrames

\* Every reader that waits for a frame is going to be told.
LEMMA ReaderInvStep == CInv /\ Next => ReaderInv'
<1> SUFFICES ASSUME CInv, Next, NEW k \in Call, Op[k] = "Subscribe"
             PROVE  /\ pc'[k] \in {"idle", "lock"} => reader'[SubOf[k]] = "none"
                    /\ reader'[SubOf[k]] \in {"receive", "put"} =>
                         \/ pc'[k] = "write" \/ Contains(writeCh', k)
                         \/ SubOf[k] \in shut' \/ SubOf[k] \in Known'
  BY DEF ReaderInv
<1> DEFINE s == SubOf[k]
<1>0. /\ pc[k] \in {"idle", "lock"} => reader[s] = "none"
      /\ reader[s] \in {"receive", "put"} => pc[k] = "write" \/ Contains(writeCh, k)
                                             \/ s \in shut \/ s \in Known
      /\ writeCh \in Seq(Call)
  BY DEF CInv, ReaderInv, TypeOK
<1>n. /\ s \in Sub /\ s \notin Call /\ k \notin Receipted
      /\ \A j \in Call : Op[j] = "Subscribe" /\ SubOf[j] = s => j = k
  BY CallAssumption DEF ReceiptOps
<1>u. ASSUME UNCHANGED loopVars PROVE Known' = Known /\ shut' = shut
  BY <1>u DEF loopVars, Known
<1>1. CASE ReadLoop \/ Server
  BY <1>0, <1>1, <1>u, OutsideFrame DEF callVars, subVars
<1>2. CASE LoopStep
  <2>1. UNCHANGED <<pc, reader>>
    BY <1>2, LoopFrame DEF callVars, subVars
  <2>2. /\ shut \subseteq shut' /\ Known \subseteq Known' \cup shut'
        /\ \/ writeCh' = writeCh
           \/ writeCh /= <<>> /\ writeCh' = Tail(writeCh)
              /\ Remember(Head(writeCh)) \subseteq Known'
    BY <1>2, LoopKnows
  <2>3. CASE Contains(writeCh, k) /\ writeCh' /= writeCh
    <3>1. k = Head(writeCh) \/ Contains(writeCh', k)
      BY <1>0, <2>2, <2>3, TakeFirst
    <3>2. s \in Remember(k)
      BY DEF Remember
    <3> QED
      BY <1>0, <2>1, <2>2, <2>3, <3>1, <3>2
  <2> QED
    BY <1>0, <2>1, <2>2, <2>3
<1>3. ASSUME NEW j \in Call, OwnStep(j)
      PROVE  /\ pc'[k] \in {"idle", "lock"} => reader'[s] = "none"
             /\ reader'[s] \in {"receive", "put"} =>
                  pc'[k] = "write" \/ Contains(writeCh', k) \/ s \in shut' \/ s \in Known'
  <2>1. Known' = Known /\ shut' = shut
    BY <1>3, <1>u, OwnFrame
  <2>2. \A x : Contains(writeCh, x) => Contains(writeCh', x)
    BY <1>3, OwnWrites
  <2>3. reader'[s] /= reader[s] => pc'[k] = "write"
    BY <1>3, <1>n, OwnReaders
  <2>4. pc'[k] \in {"idle", "lock"} => pc[k] \in {"idle", "lock"}
    <3>1. Start(k) => pc[k] = "idle"
      BY DEF Start
    <3> QED
      BY <1>3, <3>1, CallMoves
  <2>5. pc[k] = "write" => pc'[k] = "write" \/ Contains(writeCh', k)
    <3>1. CASE j /= k
      BY <1>3, <3>1, CallMoves
    <3>2. CASE j = k /\ pc[k] = "write"
      <4>1. PutRequest(k)
        BY <1>3, <3>2 DEF OwnStep, Start, UnsubscribeStep, UnsubscribeFails, UnsubscribeChecks,
            UnsubscribeWaits, UnsubscribeWakes, UnsubscribeExpires, UnsubscribeGivesUp,
            LockClosed, LockInvalid, LockOpen, MustDisconnect, PutTimeout, AwaitTimeout, Locked
      <4> QED
        BY <1>3, <3>2, <4>1, OwnWrites
    <3> QED
      BY <3>1, <3>2
  <2> QED
    BY <1>0, <2>1, <2>2, <2>3, <2>4, <2>5
<1>4. ASSUME NEW j \in Call, Answer(j)
      PROVE  /\ pc'[k] \in {"idle", "lock"} => reader'[s] = "none"
             /\ reader'[s] \in {"receive", "put"} =>
                  pc'[k] = "write" \/ Contains(writeCh', k) \/ s \in shut' \/ s \in Known'
  <2>1. UNCHANGED <<reader, shut, writeCh>>
    BY <1>4, ReceiptFrames DEF subVars, chanVars
  <2>2. Known \ {j} \subseteq Known'
    BY <1>4, SentKnows DEF Answer
  <2>3. k /= j /\ pc'[k] = pc[k]
    <3>1. pc[j] = "await"
      BY <1>4 DEF Answer
    <3>2. j \in Receipted
      BY <3>1 DEF CInv, PcInv
    <3> QED
      BY <1>4, <1>n, <3>2, CallMoves
  <2> QED
    BY <1>0, <1>n, <2>1, <2>2, <2>3
<1>5. ASSUME NEW t \in Sub, SubStep(t) \/ ReceiveFrame(t)
      PROVE  /\ pc'[k] \in {"idle", "lock"} => reader'[s] = "none"
             /\ reader'[s] \in {"receive", "put"} =>
                  pc'[k] = "write" \/ Contains(writeCh', k) \/ s \in shut' \/ s \in Known'
  <2>1. pc'[k] = pc[k] \/ (pc[k] = "wait" /\ pc'[k] = "woken")
    BY <1>5, OthersMoves
  <2>2. /\ reader'[s] = reader[s] \/ reader[s] /= "none"
        /\ reader'[s] \in {"receive", "put"} => reader[s] \in {"receive", "put"}
    BY <1>5, <1>n, SubReaders
  <2>3. UNCHANGED <<shut, writeCh>>
    BY <1>5, SubFrame, ReceiptFrames DEF loopVars, chanVars
  <2>4. s \in Known /\ reader'[s] \in {"receive", "put"} => s \in Known'
    <3>1. CASE SubStep(t)
      BY <1>u, <3>1, SubFrame
    <3>2. CASE ReceiveFrame(t)
      <4>1. Known \ {t} \subseteq Known' /\ (sending.frame.cmd = "MESSAGE" => t \in Known')
        BY <3>2, SentKnows DEF ReceiveFrame
      <4>2. s = t /\ reader'[s] \in {"receive", "put"} => sending.frame.cmd = "MESSAGE"
        BY <3>2, SubReaders
      <4> QED
        BY <4>1, <4>2
    <3> QED
      BY <1>5, <3>1, <3>2
  <2> QED
    BY <1>0, <2>1, <2>2, <2>3, <2>4
<1> QED
  BY <1>1, <1>2, <1>3, <1>4, <1>5, StepKinds

-----------------------------------------------------------------------------
(* Panics *)

\* An Unsubscribe that has found the connection closed keeps having found it.
LEMMA ForcedStep ==
  ASSUME CInv, Next, NEW s \in Sub, Forced(s)
  PROVE  Forced(s)'
<1>1. PICK k \in Call : /\ Op[k] = "Unsubscribe" /\ SubOf[k] = s
                        /\ pc[k] = "close" \/ result[k] = "closed"
  BY DEF Forced
<1>2. pc[k] /= "done" => result[k] = "none"
  BY DEF CInv, PcInv
<1>3. ASSUME NEW j \in Call, OwnStep(j) \/ Answer(j)
      PROVE  pc'[k] = "close" \/ result'[k] = "closed"
  <2>1. CASE j = k
    BY <1>1, <1>2, <1>3, <2>1, CallMoves
  <2>2. CASE j /= k
    BY <1>1, <1>3, <2>2, CallMoves
  <2> QED
    BY <2>1, <2>2
<1>4. ASSUME ReadLoop \/ Server \/ LoopStep \/ (\E t \in Sub : SubStep(t) \/ ReceiveFrame(t))
      PROVE  pc'[k] = "close" \/ result'[k] = "closed"
  BY <1>1, <1>4, OthersMoves
<1>5. pc'[k] = "close" \/ result'[k] = "closed"
  BY <1>1, <1>3, <1>4, OthersMoves, StepKinds
<1> QED
  BY <1>1, <1>5 DEF Forced

\* How closeChannel goes on.
LEMMA CloseEffect ==
  ASSUME CInv, NEW s \in Sub, SubStep(s)
  PROVE  /\ \A t \in Sub : t /= s => once'[t] = once[t] /\ CClosed'[t] = CClosed[t]
         /\ CClosed[s] => CClosed'[s]
         /\ CClosed'[s] => once'[s] = "done"
         /\ once'[s] /= "free" /\ once[s] = "free" =>
              reader'[s] \in {"fail", "finish"} \/ Forced(s)
<1>0. /\ once \in [Sub -> OnceStages] /\ CClosed \in [Sub -> BOOLEAN]
      /\ CClosed[s] => once[s] = "done"
  BY DEF CInv, TypeOK, CloseInv
<1>1. CASE ReceiveNothing(s) \/ PutMessage(s) \/ ReaderEnds(s) \/ Receive(s)
  BY <1>0, <1>1 DEF ReceiveNothing, PutMessage, ReaderEnds, Receive
<1>2. CASE CloseBegins(s)
  <2>1. /\ once[s] = "free" /\ CClosed' = CClosed /\ reader' = reader
        /\ once' = [once EXCEPT ![s] = "put"] \/ once' = [once EXCEPT ![s] = "store"]
        /\ \/ reader[s] \in {"fail", "finish"}
           \/ \E k \in Call : pc[k] = "close" /\ SubOf[k] = s
    BY <1>2 DEF CloseBegins, OnceFree
  <2>2. (\E k \in Call : pc[k] = "close" /\ SubOf[k] = s) => Forced(s)
    BY DEF Forced, CInv, PcInv
  <2> QED
    BY <1>0, <2>1, <2>2
<1>3. CASE ClosePuts(s) \/ CloseStores(s)
  BY <1>0, <1>3 DEF ClosePuts, CloseStores
<1>4. CASE CloseShuts(s)
  BY <1>0, <1>4 DEF CloseShuts
<1> QED
  BY <1>1, <1>2, <1>3, <1>4 DEF SubStep, CloseStep

\* Who closes C, and when.
LEMMA CloseInvStep == CInv /\ Next => CloseInv'
<1> SUFFICES ASSUME CInv, Next, NEW s \in Sub
             PROVE  /\ once'[s] /= "free" =>
                         reader'[s] \in {"fail", "finish", "ended"} \/ Forced(s)'
                    /\ CClosed'[s] => once'[s] = "done"
  BY DEF CloseInv
<1>0. /\ once[s] /= "free" => reader[s] \in {"fail", "finish", "ended"} \/ Forced(s)
      /\ CClosed[s] => once[s] = "done"
  BY DEF CInv, CloseInv
<1>f. Forced(s) => Forced(s)'
  BY ForcedStep
<1>1. CASE ReadLoop \/ Server \/ LoopStep \/ (\E k \in Call : Answer(k))
  BY <1>0, <1>1, <1>f, OthersReaders DEF subVars
<1>2. ASSUME NEW k \in Call, OwnStep(k)
      PROVE  /\ once'[s] /= "free" => reader'[s] \in {"fail", "finish", "ended"} \/ Forced(s)'
             /\ CClosed'[s] => once'[s] = "done"
  <2>1. UNCHANGED <<once, CClosed>>
    BY <1>2, OwnFrame
  <2>2. reader'[s] /= reader[s] => reader[s] = "none"
    <3>1. ASSUME reader'[s] /= reader[s] PROVE reader[s] = "none"
      <4>1. Op[k] = "Subscribe" /\ SubOf[k] = s /\ pc[k] = "lock"
        BY <1>2, <3>1, OwnReaders
      <4> QED
        BY <4>1 DEF CInv, ReaderInv
    <3> QED
      BY <3>1
  <2> QED
    BY <1>0, <1>f, <2>1, <2>2
<1>3. ASSUME NEW t \in Sub, ReceiveFrame(t)
      PROVE  /\ once'[s] /= "free" => reader'[s] \in {"fail", "finish", "ended"} \/ Forced(s)'
             /\ CClosed'[s] => once'[s] = "done"
  BY <1>0, <1>f, <1>3, ReceiptFrames, SubReaders
<1>4. ASSUME NEW t \in Sub, SubStep(t)
      PROVE  /\ once'[s] /= "free" => reader'[s] \in {"fail", "finish", "ended"} \/ Forced(s)'
             /\ CClosed'[s] => once'[s] = "done"
  <2>1. CASE t /= s
    BY <1>0, <1>f, <1>4, <2>1, CloseEffect, SubReaders
  <2>2. CASE t = s
    <3>1. /\ CClosed'[s] => once'[s] = "done"
          /\ once'[s] /= "free" /\ once[s] = "free" => reader'[s] \in {"fail", "finish"} \/ Forced(s)
      BY <1>4, <2>2, CloseEffect
    <3>2. reader[s] \in {"fail", "finish", "ended"} => reader'[s] \in {"fail", "finish", "ended"}
      BY <1>4, <2>2, SubReaders
    <3> QED
      BY <1>0, <1>f, <3>1, <3>2
  <2> QED
    BY <2>1, <2>2
<1> QED
  BY <1>1, <1>2, <1>3, <1>4, StepKinds

\* A panic has one of the two causes.
LEMMA PanicStep == CInv /\ Next => OnlyUnsubscribePanics'
<1> SUFFICES ASSUME CInv, Next, crashed'
             PROVE  \E k \in Call : /\ Op[k] = "Unsubscribe" /\ CClosed'[SubOf[k]]
                                    /\ \/ result'[k] = "timeout"
                                       \/ pc'[k] = "close" \/ result'[k] = "closed"
  BY DEF OnlyUnsubscribePanics
<1>1. CASE ReadLoop \/ Server \/ LoopStep \/ (\E k \in Call : Answer(k))
  BY <1>1, OthersReaders
<1>2. ASSUME NEW k \in Call, OwnStep(k)
      PROVE  Op[k] = "Unsubscribe" /\ CClosed'[SubOf[k]] /\ result'[k] = "timeout"
  <2>0. ~crashed /\ CClosed' = CClosed
    BY <1>2, OwnFrame
  <2>1. CASE PutRequest(k)
    <3>1. pc[k] = "write" /\ crashed' = writeClosed
      BY <2>1 DEF PutRequest
    <3>2. ~closed /\ (writeClosed => closed)
      BY <3>1 DEF CInv, MutexInv
    <3> QED
      BY <3>1, <3>2
  <2>2. CASE UnsubscribeGivesUp(k)
    <3>1. pc[k] = "expired" /\ crashed' = CClosed[SubOf[k]] /\ Return(k, "timeout")
      BY <2>2 DEF UnsubscribeGivesUp, PutOnC
    <3>2. Op[k] = "Unsubscribe"
      BY <3>1 DEF CInv, PcInv
    <3>3. result'[k] = "timeout"
      BY <3>1 DEF Return, CInv, TypeOK
    <3> QED
      BY <2>0, <3>1, <3>2, <3>3
  <2>3. CASE ~PutRequest(k) /\ ~UnsubscribeGivesUp(k)
    <3>1. crashed' = crashed
      BY <1>2, <2>3 DEF OwnStep, Start, UnsubscribeStep, UnsubscribeFails, UnsubscribeChecks,
        UnsubscribeWaits, UnsubscribeWakes, UnsubscribeExpires, LockClosed, LockInvalid, LockOpen,
        MustDisconnect, PutTimeout, AwaitTimeout
    <3> QED
      BY <2>0, <3>1
  <2> QED
    BY <2>1, <2>2, <2>3
<1>3. ASSUME NEW s \in Sub, ReceiveFrame(s) PROVE FALSE
  BY <1>3, ReceiptFrames
<1>4. ASSUME NEW s \in Sub, SubStep(s) PROVE Forced(s)' /\ CClosed'[s]
  <2>0. ~crashed /\ (CClosed[s] => once[s] = "done")
    BY <1>4, SubFrame DEF CInv, CloseInv
  <2>1. CASE PutMessage(s)
    <3>1. reader[s] = "put" /\ crashed' = CClosed[s] /\ CClosed' = CClosed
      BY <2>1 DEF PutMessage, PutOnC
    <3>2. Forced(s)
      BY <2>0, <3>1 DEF CInv, CloseInv
    <3> QED
      BY <3>1, <3>2, ForcedStep
  <2>2. CASE ClosePuts(s)
    BY <2>0, <2>2 DEF ClosePuts, PutOnC
  <2>3. CASE ~PutMessage(s) /\ ~ClosePuts(s)
    <3>1. crashed' = crashed
      BY <1>4, <2>3 DEF SubStep, ReceiveNothing, ReaderEnds, Receive, CloseStep, CloseBegins,
                        CloseStores, CloseShuts
    <3> QED
      BY <2>0, <3>1
  <2> QED
    BY <2>1, <2>2, <2>3
<1>5. ASSUME NEW s \in Sub, Forced(s)', CClosed'[s]
      PROVE  \E k \in Call : /\ Op[k] = "Unsubscribe" /\ CClosed'[SubOf[k]]
                             /\ \/ result'[k] = "timeout"
                                \/ pc'[k] = "close" \/ result'[k] = "closed"
  BY <1>5 DEF Forced
<1> QED
  BY <1>1, <1>2, <1>3, <1>4, <1>5, StepKinds

-----------------------------------------------------------------------------
(* Transactions *)

\* Only the end of a transaction that was successful completes it.
LEMMA CompleteEffect ==
  ASSUME CInv, NEW k \in Call, OwnStep(k) \/ Answer(k)
  PROVE  /\ completed \subseteq completed'
         /\ \A t \in completed' \ completed :
              t = TxOf[k] /\ t \in Tx /\ pc[k] \in {"write", "await"} /\ pc'[k] = "done"
         /\ Op[k] \in {"Commit", "Abort"} /\ result'[k] = "ok" =>
              /\ TxOf[k] \in completed'
              /\ pc[k] = "await" \/ PutRequest(k)
<1>0. pc \in [Call -> CallPlaces] /\ result \in [Call -> Results]
  BY DEF CInv, TypeOK
<1>t. Op[k] \in {"Commit", "Abort"} => TxOf[k] \in Tx
  BY CallAssumption DEF TxOps
<1>1. CASE Answer(k)
  <2>1. /\ pc[k] = "await" /\ Complete(k, Accepts(sending.frame))
        /\ Return(k, IF Accepts(sending.frame) THEN "ok" ELSE "error")
    BY <1>1 DEF Answer
  <2>2. pc'[k] = "done" /\ (result'[k] = "ok" => Accepts(sending.frame))
    BY <1>0, <2>1 DEF Return
  <2> QED
    BY <1>t, <2>1, <2>2 DEF Complete
<1>2. CASE PutRequest(k)
  <2>1. /\ pc[k] = "write"
        /\ \/ completed' = completed /\ Goto(k, "await")
           \/ completed' = completed /\ Goto(k, "check")
           \/ Complete(k, TRUE) /\ Return(k, "ok")
    BY <1>2 DEF PutRequest
  <2>2. \/ completed' = completed /\ pc'[k] /= "done"
        \/ Complete(k, TRUE) /\ pc'[k] = "done"
    BY <1>0, <2>1 DEF Goto, Return
  <2>3. pc'[k] /= "done" => result'[k] /= "ok"
    BY <1>2, CallMoves
  <2> QED
    BY <1>2, <1>t, <2>1, <2>2, <2>3 DEF Complete
<1>3. CASE OwnStep(k) /\ ~PutRequest(k)
  <2>1. completed' = completed
    BY <1>3 DEF OwnStep, Start, UnsubscribeStep, UnsubscribeFails, UnsubscribeChecks,
        UnsubscribeWaits, UnsubscribeWakes, UnsubscribeExpires, UnsubscribeGivesUp, Waiting,
        LockClosed, LockInvalid, LockOpen, MustDisconnect, PutTimeout, AwaitTimeout
  <2>2. ~(Op[k] \in {"Commit", "Abort"} /\ result'[k] = "ok") \/ Answer(k)
    BY <1>3, CallMoves DEF ReceiptOps
  <2> QED
    BY <1>1, <2>1, <2>2
<1> QED
  BY <1>1, <1>2, <1>3

\* One call at a time is made on a transaction, and none once it is completed.
LEMMA TxStep == CInv /\ Next => TxInv'
<1> SUFFICES ASSUME CInv, Next, NEW k \in Call, TxOf[k] \in Tx
    PROVE  /\ Op[k] \in {"Commit", "Abort"} /\ result'[k] = "ok" => TxOf[k] \in completed'
           /\ TxOf[k] \in completed' => pc'[k] \in {"idle", "done"}
           /\ \A j \in Call : TxOf[j] = TxOf[k] /\ j /= k =>
                pc'[j] \in {"idle", "done"} \/ pc'[k] \in {"idle", "done"}
  BY DEF TxInv
<1>0. /\ Op[k] \in {"Commit", "Abort"} /\ result[k] = "ok" => TxOf[k] \in completed
      /\ TxOf[k] \in completed => pc[k] \in {"idle", "done"}
      /\ \A j \in Call : TxOf[j] = TxOf[k] /\ j /= k =>
           pc[j] \in {"idle", "done"} \/ pc[k] \in {"idle", "done"}
  BY DEF CInv, TxInv
<1>1. CASE ReadLoop \/ Server \/ LoopStep \/ (\E s \in Sub : SubStep(s) \/ ReceiveFrame(s))
  <2>1. /\ UNCHANGED <<result, completed>>
        /\ \A j \in Call : pc'[j] = pc[j] \/ (pc[j] = "wait" /\ pc'[j] = "woken")
    BY <1>1, OthersMoves
  <2> QED
    BY <1>0, <2>1
<1>2. ASSUME NEW j \in Call, OwnStep(j) \/ Answer(j)
      PROVE  /\ Op[k] \in {"Commit", "Abort"} /\ result'[k] = "ok" => TxOf[k] \in completed'
             /\ TxOf[k] \in completed' => pc'[k] \in {"idle", "done"}
             /\ \A i \in Call : TxOf[i] = TxOf[k] /\ i /= k =>
                  pc'[i] \in {"idle", "done"} \/ pc'[k] \in {"idle", "done"}
  <2>m. /\ \A i \in Call : i /= j => pc'[i] = pc[i] /\ result'[i] = result[i]
        /\ pc[j] /= "done"
    BY <1>2, CallMoves
  <2>i. pc[j] = "idle" => Start(j)
    BY <1>2 DEF OwnStep, UnsubscribeStep, UnsubscribeFails, UnsubscribeChecks,
        UnsubscribeWaits, UnsubscribeWakes, UnsubscribeExpires, UnsubscribeGivesUp,
        LockClosed, LockInvalid, LockOpen, MustDisconnect, PutRequest, PutTimeout, AwaitTimeout,
        Locked, Answer
  <2>n. TxOf[k] /= nil
    BY CallAssumption
  <2>s. Start(j) /\ TxOf[j] = TxOf[k] =>
          /\ \A i \in Call : TxOf[i] = TxOf[k] => pc[i] \in {"idle", "done"}
          /\ TxOf[k] \in completed => pc'[j] = "done"
    <3>1. ASSUME Start(j), TxOf[j] = TxOf[k]
          PROVE  \A i \in Call : TxOf[i] = TxOf[k] => pc[i] \in {"idle", "done"}
      BY <2>n, <3>1 DEF Start, Callable
    <3>2. ASSUME Start(j), TxOf[j] = TxOf[k], TxOf[k] \in completed PROVE pc'[j] = "done"
      <4>1. Refused(j)
        BY <3>2 DEF Refused, TxCompleted
      <4>2. Return(j, "refused")
        BY <3>2, <4>1 DEF Start
      <4> QED
        BY <4>2 DEF Return, CInv, TypeOK
    <3> QED
      BY <3>1, <3>2
  <2>c. /\ completed \subseteq completed'
        /\ \A t \in completed' \ completed :
             t = TxOf[j] /\ t \in Tx /\ pc[j] \in {"write", "await"} /\ pc'[j] = "done"
        /\ Op[j] \in {"Commit", "Abort"} /\ result'[j] = "ok" => TxOf[j] \in completed'
    BY <1>2, CompleteEffect
  <2>x. \A i \in Call : TxOf[i] = TxOf[k] /\ i /= j /\ TxOf[j] = TxOf[k] =>
          pc[i] \in {"idle", "done"} \/ pc[j] = "idle"
    BY <2>m DEF CInv, TxInv
  <2>1. Op[k] \in {"Commit", "Abort"} /\ result'[k] = "ok" => TxOf[k] \in completed'
    BY <1>0, <2>m, <2>c
  <2>2. TxOf[k] \in completed' => pc'[k] \in {"idle", "done"}
    <3>1. CASE TxOf[k] \in completed
      BY <1>0, <2>m, <2>i, <2>s, <3>1
    <3>2. CASE TxOf[k] \in completed' \ completed
      BY <2>m, <2>c, <2>x, <3>2
    <3> QED
      BY <3>1, <3>2
  <2>3. ASSUME NEW i \in Call, TxOf[i] = TxOf[k], i /= k
        PROVE  pc'[i] \in {"idle", "done"} \/ pc'[k] \in {"idle", "done"}
    <3>1. CASE i /= j /\ k /= j
      BY <1>0, <2>3, <2>m, <3>1
    <3>2. CASE i = j \/ k = j
      BY <2>3, <2>m, <2>i, <2>s, <2>x, <3>2
    <3> QED
      BY <3>1, <3>2
  <2> QED
    BY <2>1, <2>2, <2>3
<1> QED
  BY <1>1, <1>2, StepKinds

\* Nothing of a transaction comes after its end: a request is put behind it ...
LEMMA NoneAfterPut ==
  ASSUME NEW q \in Seq(Call), NEW h \in Call, NEW k \in Call, NoneAfter(q, k),
         Contains(q, k) => TxOf[h] /= TxOf[k]
  PROVE  NoneAfter(Append(q, h), k)
<1>1. /\ Len(q) \in Nat /\ DOMAIN q = 1..Len(q) /\ DOMAIN Append(q, h) = 1..(Len(q) + 1)
      /\ \A i \in 1..Len(q) : Append(q, h)[i] = q[i]
      /\ Append(q, h)[Len(q) + 1] = h
  BY PutLast
<1> SUFFICES ASSUME NEW i \in DOMAIN Append(q, h), NEW j \in DOMAIN Append(q, h),
                    Append(q, h)[i] = k, TxOf[Append(q, h)[j]] = TxOf[k]
             PROVE  j <= i
  BY DEF NoneAfter
<1>2. CASE i = Len(q) + 1
  BY <1>1, <1>2
<1>3. CASE i /= Len(q) + 1
  <2>1. i \in 1..Len(q) /\ q[i] = k
    BY <1>1, <1>3
  <2>2. TxOf[h] /= TxOf[k]
    BY <2>1 DEF Contains
  <2>3. j \in 1..Len(q) /\ q[j] = Append(q, h)[j]
    BY <1>1, <2>2
  <2> QED
    BY <1>1, <2>1, <2>3 DEF NoneAfter
<1> QED
  BY <1>2, <1>3

\* ... or the first one is taken away.
LEMMA NoneAfterTake ==
  ASSUME NEW q \in Seq(Call), q /= <<>>, NEW k \in Call, NoneAfter(q, k)
  PROVE  /\ NoneAfter(Tail(q), k)
         /\ Head(q) = k => \A j \in DOMAIN Tail(q) : TxOf[Tail(q)[j]] /= TxOf[k]
<1>1. /\ Head(q) = q[1] /\ 1 \in DOMAIN q
      /\ \A i \in DOMAIN Tail(q) : i \in Nat /\ i + 1 \in DOMAIN q /\ Tail(q)[i] = q[i + 1]
      /\ Tail(q) \in Seq(Call)
  BY TakeFirst
<1>2. \A i \in DOMAIN Tail(q) : i \in Nat /\ i >= 1
  BY <1>1
<1>3. NoneAfter(Tail(q), k)
  <2> SUFFICES ASSUME NEW i \in DOMAIN Tail(q), NEW j \in DOMAIN Tail(q),
                      Tail(q)[i] = k, TxOf[Tail(q)[j]] = TxOf[k]
               PROVE  j <= i
    BY DEF NoneAfter
  <2>1. j + 1 <= i + 1
    BY <1>1 DEF NoneAfter
  <2> QED
    BY <1>2, <2>1
<1>4. ASSUME Head(q) = k, NEW j \in DOMAIN Tail(q), TxOf[Tail(q)[j]] = TxOf[k] PROVE FALSE
  <2>1. j + 1 <= 1
    BY <1>1, <1>4 DEF NoneAfter
  <2> QED
    BY <1>2, <2>1
<1> QED
  BY <1>3, <1>4

\* What processLoop does with a request: it writes it, or it does not.
LEMMA LoopWrites ==
  ASSUME CInv, LoopStep
  PROVE  \/ UNCHANGED <<wire, writeCh>>
         \/ /\ writeCh /= <<>> /\ writeCh' = Tail(writeCh)
            /\ wire' = wire \/ wire' = Append(wire, Head(writeCh))
<1>1. ASSUME NEW f, HandleFrame(f) PROVE UNCHANGED <<wire, writeCh>>
  BY <1>1 DEF HandleFrame, HandleReceipt, HandleBadReceipt, HandleMessage, HandleError, TakeFrame
<1>2. ASSUME NEW k, HandleRequest(k)
      PROVE  /\ writeCh /= <<>> /\ writeCh' = Tail(writeCh)
             /\ wire' = wire \/ wire' = Append(wire, Head(writeCh))
  BY <1>2 DEF HandleRequest, WriteRequest, WriteFails, SubscribeLocal, UnsubscribeLocal,
              TakeRequest
<1>3. CASE ConnectionClosed \/ WriteChannelClosed \/ HeartBeatFails \/ LoopDisconnects \/ LoopFails
  BY <1>3 DEF ConnectionClosed, WriteChannelClosed, HeartBeatFails, LoopDisconnects, LoopFails,
              chanVars
<1> QED
  BY <1>1, <1>2, <1>3 DEF LoopStep, ReadEvent, WriteEvent

\* What is on the wire and in writeCh.
LEMMA SentStep == CInv /\ Next => SentInv'
<1> SUFFICES ASSUME CInv, Next, NEW k \in Call
    PROVE  /\ pc'[k] \in {"idle", "lock", "write"} => ~Contains(wire', k) /\ ~Contains(writeCh', k)
           /\ Ends(k)' =>
                /\ NoneAfter(wire', k) /\ NoneAfter(writeCh', k)
                /\ Contains(wire', k) => \A j \in DOMAIN writeCh' : TxOf[writeCh'[j]] /= TxOf[k]
  BY DEF SentInv, NoneAfter
<1>0. /\ pc[k] \in {"idle", "lock", "write"} => ~Contains(wire, k) /\ ~Contains(writeCh, k)
      /\ Ends(k) =>
           /\ NoneAfter(wire, k) /\ NoneAfter(writeCh, k)
           /\ Contains(wire, k) => \A j \in DOMAIN writeCh : TxOf[writeCh[j]] /= TxOf[k]
      /\ wire \in Seq(Call) /\ writeCh \in Seq(Call)
  BY DEF CInv, SentInv, TypeOK
<1>1. CASE ReadLoop \/ Server \/ (\E s \in Sub : SubStep(s) \/ ReceiveFrame(s))
  <2>1. UNCHANGED <<wire, writeCh>>
    BY <1>1, OutsideFrame, SubFrame, ReceiptFrames DEF chanVars
  <2>2. result' = result /\ (pc'[k] = pc[k] \/ (pc[k] = "wait" /\ pc'[k] = "woken"))
    BY <1>1, OthersMoves
  <2> QED
    BY <1>0, <2>1, <2>2 DEF Ends
<1>2. CASE LoopStep
  <2>1. UNCHANGED <<pc, result>>
    BY <1>2, LoopFrame DEF callVars
  <2>2. CASE UNCHANGED <<wire, writeCh>>
    BY <1>0, <2>1, <2>2 DEF Ends
  <2>3. CASE /\ writeCh /= <<>> /\ writeCh' = Tail(writeCh)
             /\ wire' = wire \/ wire' = Append(wire, Head(writeCh))
    <3> DEFINE h == Head(writeCh)
    <3>1. /\ h \in Call /\ h = writeCh[1] /\ 1 \in DOMAIN writeCh
          /\ \A i \in DOMAIN writeCh' : i + 1 \in DOMAIN writeCh /\ writeCh'[i] = writeCh[i + 1]
          /\ Contains(writeCh', k) => Contains(writeCh, k)
      BY <1>0, <2>3, TakeFirst
    <3>2. Contains(wire', k) => Contains(wire, k) \/ k = h
      <4>1. Contains(Append(wire, h), k) => Contains(wire, k) \/ k = h
        BY <1>0, <3>1, PutLast
      <4> QED
        BY <2>3, <4>1
    <3>3. k = h => Contains(writeCh, k)
      <4>1. 1 \in 1..Len(writeCh)
        BY <1>0, <3>1
      <4> QED
        BY <3>1, <4>1 DEF Contains
    <3>4. pc'[k] \in {"idle", "lock", "write"} => ~Contains(wire', k) /\ ~Contains(writeCh', k)
      BY <1>0, <2>1, <3>1, <3>2, <3>3
    <3>5. ASSUME Ends(k)'
          PROVE  /\ NoneAfter(wire', k) /\ NoneAfter(writeCh', k)
                 /\ Contains(wire', k) => \A j \in DOMAIN writeCh' : TxOf[writeCh'[j]] /= TxOf[k]
      <4>1. Ends(k)
        BY <2>1, <3>5 DEF Ends
      <4>2. /\ NoneAfter(writeCh', k)
            /\ h = k => \A j \in DOMAIN writeCh' : TxOf[writeCh'[j]] /= TxOf[k]
        BY <1>0, <2>3, <4>1, NoneAfterTake
      <4>3. NoneAfter(wire', k)
        <5>1. Contains(wire, k) => TxOf[h] /= TxOf[k]
          BY <1>0, <3>1, <4>1
        <5>2. NoneAfter(Append(wire, h), k)
          BY <1>0, <3>1, <4>1, <5>1, NoneAfterPut
        <5> QED
          BY <1>0, <2>3, <4>1, <5>2
      <4> QED
        BY <1>0, <3>1, <3>2, <4>1, <4>2, <4>3
    <3> QED
      BY <3>4, <3>5
  <2> QED
    BY <1>2, <2>2, <2>3, LoopWrites
<1>3. ASSUME NEW j \in Call, OwnStep(j) \/ Answer(j)
      PROVE  /\ pc'[k] \in {"idle", "lock", "write"} =>
                  ~Contains(wire', k) /\ ~Contains(writeCh', k)
             /\ Ends(k)' =>
                  /\ NoneAfter(wire', k) /\ NoneAfter(writeCh', k)
                  /\ Contains(wire', k) =>
                       \A i \in DOMAIN writeCh' : TxOf[writeCh'[i]] /= TxOf[k]
  <2>w. wire' = wire
    BY <1>3, OwnFrame, ReceiptFrames
  <2>q. \/ PutRequest(j) /\ writeCh' = Append(writeCh, j) /\ pc[j] = "write"
        \/ writeCh' = writeCh
    <3>1. PutRequest(j) => pc[j] = "write"
      BY DEF PutRequest
    <3> QED
      BY <1>3, <3>1, OwnWrites, ReceiptFrames DEF chanVars
  <2>p. writeCh' /= writeCh => pc'[j] \notin {"idle", "lock", "write"}
    <3>1. PutRequest(j) => ~Start(j) /\ ~LockOpen(j)
      BY DEF PutRequest, Start, LockOpen, Locked
    <3> QED
      BY <1>3, <2>q, <3>1, CallMoves
  <2>m. /\ j /= k => pc'[k] = pc[k] /\ result'[k] = result[k]
        /\ pc'[k] = "lock" /\ j = k => pc[k] = "idle"
        /\ pc'[k] = "write" /\ j = k => pc[k] = "lock"
        /\ j = k => pc'[k] /= "idle"
    <3>1. (Start(k) => pc[k] = "idle") /\ (LockOpen(k) => pc[k] = "lock")
      BY DEF Start, LockOpen, Locked
    <3> QED
      BY <1>3, <3>1, CallMoves
  <2>1. ASSUME pc'[k] \in {"idle", "lock", "write"}
        PROVE  ~Contains(wire', k) /\ ~Contains(writeCh', k)
    <3>1. pc[k] \in {"idle", "lock", "write"}
      BY <2>1, <2>m
    <3>2. CASE writeCh' = writeCh
      BY <1>0, <2>w, <3>1, <3>2
    <3>3. CASE writeCh' /= writeCh
      <4>1. j /= k /\ writeCh' = Append(writeCh, j)
        BY <2>1, <2>p, <2>q, <3>3
      <4> QED
        BY <1>0, <2>w, <3>1, <4>1, PutLast
    <3> QED
      BY <3>2, <3>3
  <2>2. ASSUME Ends(k)'
        PROVE  /\ NoneAfter(wire', k) /\ NoneAfter(writeCh', k)
               /\ Contains(wire', k) => \A i \in DOMAIN writeCh' : TxOf[writeCh'[i]] /= TxOf[k]
    <3>0. Op[k] \in {"Commit", "Abort"} /\ (pc'[k] = "await" \/ result'[k] = "ok")
      BY <2>2 DEF Ends
    <3>t. TxOf[k] \in Tx
      BY <3>0, CallAssumption DEF TxOps
    <3>1. CASE writeCh' = writeCh
      <4>1. Ends(k)
        <5>1. CASE j /= k
          BY <2>m, <3>0, <5>1 DEF Ends
        <5>2. CASE j = k
          <6>1. ~PutRequest(k)
            <7>1. PutRequest(k) => Contains(writeCh', k) /\ pc[k] = "write"
              <8>1. PutRequest(k) => OwnStep(k) /\ pc[k] = "write"
                BY DEF OwnStep, PutRequest
              <8> QED
                BY <8>1, OwnWrites
            <7> QED
              BY <1>0, <3>1, <7>1
          <6>2. pc'[k] /= "await"
            BY <1>3, <5>2, <6>1, CallMoves
          <6>3. pc[k] = "await"
            BY <1>3, <3>0, <5>2, <6>1, <6>2, CompleteEffect
          <6> QED
            BY <3>0, <6>3 DEF Ends
        <5> QED
          BY <5>1, <5>2
      <4> QED
        BY <1>0, <2>w, <3>1, <4>1
    <3>2. CASE writeCh' /= writeCh
      <4>0. writeCh' = Append(writeCh, j) /\ pc[j] = "write"
        BY <2>q, <3>2
      <4>1. /\ Len(writeCh) \in Nat /\ DOMAIN writeCh = 1..Len(writeCh)
            /\ DOMAIN writeCh' = 1..(Len(writeCh) + 1)
            /\ \A i \in 1..Len(writeCh) : writeCh'[i] = writeCh[i]
            /\ writeCh'[Len(writeCh) + 1] = j
        BY <1>0, <4>0, PutLast
      <4>2. CASE j = k
        <5>1. ~Contains(wire, k) /\ ~Contains(writeCh, k)
          BY <1>0, <4>0, <4>2
        <5>2. NoneAfter(wire, k) /\ NoneAfter(writeCh, k)
          <6>1. /\ \A i \in DOMAIN wire : wire[i] /= k
                /\ \A i \in DOMAIN writeCh : writeCh[i] /= k
            BY <1>0, <5>1 DEF Contains
          <6> QED
            BY <6>1 DEF NoneAfter
        <5>3. NoneAfter(writeCh', k)
          BY <1>0, <4>0, <5>1, <5>2, NoneAfterPut
        <5> QED
          BY <2>w, <5>1, <5>2, <5>3
      <4>3. CASE j /= k
        <5>1. Ends(k)
          BY <2>m, <3>0, <4>3 DEF Ends
        <5>2. TxOf[j] /= TxOf[k]
          <6>1. ASSUME TxOf[j] = TxOf[k] PROVE FALSE
            <7>1. /\ result[k] = "ok" => TxOf[k] \in completed
                  /\ TxOf[j] \in completed => pc[j] \in {"idle", "done"}
                  /\ pc[j] \in {"idle", "done"} \/ pc[k] \in {"idle", "done"}
              BY <3>0, <3>t, <4>3, <6>1 DEF CInv, TxInv
            <7> QED
              BY <4>0, <5>1, <6>1, <7>1 DEF Ends
          <6> QED
            BY <6>1
        <5>3. NoneAfter(writeCh', k)
          BY <1>0, <4>0, <5>1, <5>2, NoneAfterPut
        <5>4. Contains(wire, k) => \A i \in DOMAIN writeCh' : TxOf[writeCh'[i]] /= TxOf[k]
          BY <1>0, <4>1, <5>1, <5>2
        <5> QED
          BY <1>0, <2>w, <5>1, <5>3, <5>4
      <4> QED
        BY <4>2, <4>3
    <3> QED
      BY <3>1, <3>2
  <2> QED
    BY <2>1, <2>2
<1> QED
  BY <1>1, <1>2, <1>3, StepKinds

-----------------------------------------------------------------------------
(* The inductive invariant, and what follows from it *)

\* The initial states satisfy the invariant.
LEMMA InvInit == Init => CInv
<1> SUFFICES ASSUME Init PROVE CInv
  OBVIOUS
<1>1. TypeOK
  BY TypeInit
<1>e. /\ wire = <<>> /\ writeCh = <<>> /\ readCh = <<>> /\ network = <<>> /\ ~crashed
      /\ \A q : q = <<>> => DOMAIN q = {} /\ \A x : ~Contains(q, x)
  <2>1. \A q : q = <<>> => Len(q) = 0 /\ DOMAIN q = {}
    OBVIOUS
  <2> QED
    BY <2>1 DEF Init, Contains
<1>c. \A k \in Call : pc[k] = "idle" /\ result[k] = "none"
  BY DEF Init
<1>s. \A s \in Sub : once[s] = "free" /\ ~CClosed[s] /\ reader[s] = "none"
  BY DEF Init
<1>2. PcInv /\ MutexInv
  BY <1>c DEF PcInv, MutexInv, Init
<1>3. ReceiptInv /\ SendInv
  BY <1>c, <1>e, CallAssumption DEF ReceiptInv, SendInv, Init
<1>4. AwaitInv /\ ReaderInv
  BY <1>c, <1>s, CallAssumption DEF AwaitInv, ReaderInv
<1>5. CloseInv /\ OnlyUnsubscribePanics
  BY <1>e, <1>s DEF CloseInv, OnlyUnsubscribePanics
<1>6. SentInv /\ TxInv
  BY <1>c, <1>e DEF SentInv, TxInv, Ends
<1> QED
  BY <1>1, <1>2, <1>3, <1>4, <1>5, <1>6 DEF CInv

\* A step in which nothing happens keeps it.
LEMMA InvStutter == CInv /\ UNCHANGED vars => CInv'
<1> SUFFICES ASSUME CInv, UNCHANGED vars PROVE CInv'
  OBVIOUS
<1> USE DEF CInv, vars, lockVars, loopVars, chanVars, callVars, subVars, peerVars
<1>1. TypeOK'
  BY DEF TypeOK
<1>2. PcInv' /\ MutexInv'
  BY DEF PcInv, MutexInv
<1>3. ReceiptInv' /\ SendInv'
  BY DEF ReceiptInv, SendInv, Genuine
<1>4. AwaitInv' /\ ReaderInv'
  BY DEF AwaitInv, ReaderInv, Known
<1>5. CloseInv' /\ OnlyUnsubscribePanics'
  BY DEF CloseInv, Forced, OnlyUnsubscribePanics
<1>6. SentInv' /\ TxInv'
  BY DEF SentInv, NoneAfter, Ends, TxInv
<1> QED
  BY <1>1, <1>2, <1>3, <1>4, <1>5, <1>6

\* Everything that Client keeps true: the client's goroutines, channels, response
\* channels and transactions are in the relation that conn.go, subscription.go and
\* transaction.go rely on.
THEOREM ClientInvariance == Spec => []CInv
<1>1. Init => CInv
  BY InvInit
<1>2. CInv /\ [Next]_vars => CInv'
  <2>1. CInv /\ Next => CInv'
    BY TypeStep, PcStep, MutexStep, ReceiptStep, SendStep, AwaitStep, ReaderInvStep,
       CloseInvStep, PanicStep, SentStep, TxStep DEF CInv
  <2> QED
    BY <2>1, InvStutter
<1> QED
  BY <1>1, <1>2, PTL DEF Spec

\* SuccessIsConfirmed: a call that asked for a receipt (Send, Commit, Abort,
\* Disconnect) reports success only when the server has sent the RECEIPT for its
\* own frame, whatever other answers, errors and timeouts there are.
THEOREM ReceiptsConfirm == Spec => []SuccessIsConfirmed
<1>1. CInv => SuccessIsConfirmed
  BY DEF CInv, ReceiptInv, SuccessIsConfirmed
<1> QED
  BY <1>1, ClientInvariance, PTL

\* EveryoneTold: processLoop leaves nobody behind whom it knew when it ends; only
\* requests that it never took from writeCh stay without an answer.
THEOREM EndIsTold == Spec => []EveryoneTold
<1>1. CInv => EveryoneTold
  <2> SUFFICES ASSUME CInv, loop \in {"disconnect", "fail", "ended"} PROVE EveryoneTold
    BY DEF EveryoneTold
  <2>1. Known = {}
    BY DEF Known
  <2> QED
    BY <2>1 DEF CInv, AwaitInv, ReaderInv, EveryoneTold
<1> QED
  BY <1>1, ClientInvariance, PTL

\* TxEndsOnce: no frame of a transaction is written after the COMMIT or ABORT that
\* was successful.
THEOREM TransactionsEnd == Spec => []TxEndsOnce
<1>1. CInv => TxEndsOnce
  <2> SUFFICES ASSUME CInv, NEW i \in DOMAIN wire, NEW j \in DOMAIN wire,
                      Op[wire[i]] \in {"Commit", "Abort"}, result[wire[i]] = "ok",
                      TxOf[wire[i]] = TxOf[wire[j]]
               PROVE  j <= i
    BY DEF TxEndsOnce
  <2>1. wire[i] \in Call
    BY Members DEF CInv, TypeOK
  <2>2. NoneAfter(wire, wire[i])
    BY <2>1 DEF CInv, SentInv, Ends
  <2> QED
    BY <2>2 DEF NoneAfter
<1> QED
  BY <1>1, ClientInvariance, PTL

\* OnlyUnsubscribePanics: writeCh is never used after it is closed, and neither
\* readLoop nor closeChannel alone can make a send on a closed C.
THEOREM PanicsKnown == Spec => []OnlyUnsubscribePanics
<1>1. CInv => OnlyUnsubscribePanics
  BY DEF CInv
<1> QED
  BY <1>1, ClientInvariance, PTL

\* NoPanic, for every application that does not call Unsubscribe: then no goroutine
\* of the client panics, whatever else is called and however the connection ends.
THEOREM NoPanicWithoutUnsubscribe ==
  ASSUME \A k \in Call : Op[k] /= "Unsubscribe"
  PROVE  Spec => []NoPanic
<1>1. CInv => NoPanic
  BY DEF CInv, OnlyUnsubscribePanics, NoPanic
<1> QED
  BY <1>1, ClientInvariance, PTL

-----------------------------------------------------------------------------
(* Parts of a path *)

\* The messages in p are numbers a + 1 to b, each once and in this order.
Covers(p, a, b) ==
    /\ p \in Seq(Nat) /\ a \in Nat /\ b \in Nat /\ a <= b
    /\ \A i \in DOMAIN p : p[i] = 0 \/ (a < p[i] /\ p[i] <= b)
    /\ \A i, j \in DOMAIN p : i < j /\ p[i] > 0 /\ p[j] > 0 => p[i] < p[j]
    /\ \A n \in Nat : a < n /\ n <= b => \E i \in DOMAIN p : p[i] = n

\* What is next after message a and leaves b to come: a message or something else.
NextOne(x, a, b) == a \in Nat /\ ((x = 0 /\ b = a) \/ (x = a + 1 /\ b = a + 1))

\* Putting the next one at the end of a part.
LEMMA CoversPut ==
  ASSUME NEW p, NEW a, NEW b, NEW c, NEW x, Covers(p, a, b), NextOne(x, b, c)
  PROVE  Covers(Append(p, x), a, c)
<1> DEFINE q == Append(p, x)
<1>1. /\ p \in Seq(Nat) /\ a \in Nat /\ b \in Nat /\ c \in Nat /\ a <= b /\ b <= c /\ x \in Nat
      /\ \A i \in DOMAIN p : p[i] = 0 \/ (a < p[i] /\ p[i] <= b)
      /\ \A i, j \in DOMAIN p : i < j /\ p[i] > 0 /\ p[j] > 0 => p[i] < p[j]
      /\ \A n \in Nat : a < n /\ n <= b => \E i \in DOMAIN p : p[i] = n
      /\ (x = 0 /\ c = b) \/ (x = b + 1 /\ c = b + 1)
  BY DEF Covers, NextOne
<1>2. /\ q \in Seq(Nat) /\ Len(p) \in Nat
      /\ DOMAIN p = 1..Len(p) /\ DOMAIN q = 1..(Len(p) + 1)
      /\ \A i \in 1..Len(p) : q[i] = p[i]
      /\ q[Len(p) + 1] = x
  BY <1>1, PutLast
<1> HIDE DEF q
<1>3. \A i \in DOMAIN q : q[i] = 0 \/ (a < q[i] /\ q[i] <= c)
  <2> SUFFICES ASSUME NEW i \in DOMAIN q PROVE q[i] = 0 \/ (a < q[i] /\ q[i] <= c)
    OBVIOUS
  <2>1. CASE i = Len(p) + 1
    BY <1>1, <1>2, <2>1
  <2>2. CASE i \in DOMAIN p
    <3>1. q[i] = p[i] /\ p[i] \in Nat
      BY <1>1, <1>2, <2>2
    <3> QED
      BY <1>1, <2>2, <3>1
  <2> QED
    BY <1>2, <2>1, <2>2
<1>4. \A i, j \in DOMAIN q : i < j /\ q[i] > 0 /\ q[j] > 0 => q[i] < q[j]
  <2> SUFFICES ASSUME NEW i \in DOMAIN q, NEW j \in DOMAIN q, i < j, q[i] > 0, q[j] > 0
               PROVE  q[i] < q[j]
    OBVIOUS
  <2>1. i \in DOMAIN p /\ q[i] = p[i] /\ p[i] \in Nat
    BY <1>1, <1>2
  <2>2. CASE j = Len(p) + 1
    <3>1. q[j] = x /\ x = b + 1
      BY <1>1, <1>2, <2>2
    <3>2. p[i] = 0 \/ p[i] <= b
      BY <1>1, <2>1
    <3> QED
      BY <1>1, <2>1, <3>1, <3>2
  <2>3. CASE j \in DOMAIN p
    BY <1>1, <1>2, <2>1, <2>3
  <2> QED
    BY <1>2, <2>2, <2>3
<1>5. \A n \in Nat : a < n /\ n <= c => \E i \in DOMAIN q : q[i] = n
  <2> SUFFICES ASSUME NEW n \in Nat, a < n, n <= c PROVE \E i \in DOMAIN q : q[i] = n
    OBVIOUS
  <2>1. CASE n <= b
    <3>1. PICK i \in DOMAIN p : p[i] = n
      BY <1>1, <2>1
    <3> QED
      BY <1>2, <3>1
  <2>2. CASE ~(n <= b)
    BY <1>1, <1>2, <2>2
  <2> QED
    BY <2>1, <2>2
<1> QED
  BY <1>1, <1>2, <1>3, <1>4, <1>5 DEF Covers, q

\* Taking the first one from a part.
LEMMA CoversTake ==
  ASSUME NEW p, NEW a, NEW b, Covers(p, a, b), p /= <<>>
  PROVE  \E c \in Nat : NextOne(Head(p), a, c) /\ Covers(Tail(p), c, b)
<1> DEFINE q == Tail(p)
           h == p[1]
<1>1. /\ p \in Seq(Nat) /\ a \in Nat /\ b \in Nat /\ a <= b
      /\ \A i \in DOMAIN p : p[i] = 0 \/ (a < p[i] /\ p[i] <= b)
      /\ \A i, j \in DOMAIN p : i < j /\ p[i] > 0 /\ p[j] > 0 => p[i] < p[j]
      /\ \A n \in Nat : a < n /\ n <= b => \E i \in DOMAIN p : p[i] = n
  BY DEF Covers
<1>2. /\ q \in Seq(Nat) /\ Head(p) = h /\ h \in Nat /\ 1 \in DOMAIN p
      /\ DOMAIN p = 1..Len(p) /\ Len(p) \in Nat
      /\ \A i \in DOMAIN q : i \in Nat /\ 0 < i /\ i + 1 \in DOMAIN p /\ q[i] = p[i + 1]
      /\ \A i \in DOMAIN p : p[i] \in Nat /\ (i /= 1 => i - 1 \in DOMAIN q /\ q[i - 1] = p[i])
  BY <1>1
<1> HIDE DEF q, h
<1>3. \A i, j \in DOMAIN q : i < j /\ q[i] > 0 /\ q[j] > 0 => q[i] < q[j]
  <2> SUFFICES ASSUME NEW i \in DOMAIN q, NEW j \in DOMAIN q, i < j, q[i] > 0, q[j] > 0
               PROVE  q[i] < q[j]
    OBVIOUS
  <2>1. i + 1 \in DOMAIN p /\ j + 1 \in DOMAIN p /\ i + 1 < j + 1 /\ q[i] = p[i + 1]
        /\ q[j] = p[j + 1]
    BY <1>2
  <2> QED
    BY <1>1, <2>1
<1>4. ASSUME NEW n \in Nat, a < n, n <= b, n /= h PROVE \E i \in DOMAIN q : q[i] = n
  <2>1. PICK i \in DOMAIN p : p[i] = n
    BY <1>1, <1>4
  <2>2. i /= 1
    BY <1>4, <2>1 DEF h
  <2> QED
    BY <1>2, <2>1, <2>2
<1>5. CASE h = 0
  <2>1. \A i \in DOMAIN q : q[i] = 0 \/ (a < q[i] /\ q[i] <= b)
    BY <1>1, <1>2
  <2>2. Covers(q, a, b)
    BY <1>1, <1>2, <1>3, <1>4, <1>5, <2>1 DEF Covers
  <2>3. NextOne(h, a, a)
    BY <1>1, <1>5 DEF NextOne
  <2> QED
    BY <1>1, <1>2, <2>2, <2>3 DEF q
<1>6. CASE h /= 0
  <2>1. a < h /\ h <= b /\ h > 0
    BY <1>1, <1>2, <1>6 DEF h
  <2>2. ASSUME NEW i \in DOMAIN p, p[i] > 0, i /= 1 PROVE h < p[i]
    <3>1. i \in Nat /\ 1 < i
      BY <1>2, <2>2
    <3>2. p[1] > 0 /\ 1 \in DOMAIN p
      BY <1>2, <2>1 DEF h
    <3>3. p[1] < p[i]
      BY <1>1, <2>2, <3>1, <3>2
    <3> QED
      BY <3>3 DEF h
  <2>3. h = a + 1
    <3> SUFFICES ASSUME h /= a + 1 PROVE FALSE
      OBVIOUS
    <3>1. a + 1 \in Nat /\ a < a + 1 /\ a + 1 <= b /\ a + 1 < h
      BY <1>1, <1>2, <2>1
    <3>2. PICK i \in DOMAIN p : p[i] = a + 1
      BY <1>1, <3>1
    <3>3. i /= 1 /\ p[i] > 0
      BY <1>1, <3>1, <3>2 DEF h
    <3>4. h < p[i]
      BY <2>2, <3>3
    <3> QED
      BY <1>1, <1>2, <3>1, <3>2, <3>4
  <2>4. \A i \in DOMAIN q : q[i] = 0 \/ (a + 1 < q[i] /\ q[i] <= b)
    <3> SUFFICES ASSUME NEW i \in DOMAIN q, q[i] /= 0 PROVE a + 1 < q[i] /\ q[i] <= b
      OBVIOUS
    <3>1. i + 1 \in DOMAIN p /\ i + 1 /= 1 /\ q[i] = p[i + 1] /\ p[i + 1] \in Nat
      BY <1>2
    <3>2. p[i + 1] > 0 /\ p[i + 1] <= b
      BY <1>1, <3>1
    <3> QED
      BY <2>2, <2>3, <3>1, <3>2
  <2>5. \A n \in Nat : a + 1 < n /\ n <= b => \E i \in DOMAIN q : q[i] = n
    <3> SUFFICES ASSUME NEW n \in Nat, a + 1 < n, n <= b PROVE \E i \in DOMAIN q : q[i] = n
      OBVIOUS
    <3>1. a < n /\ n /= h
      BY <1>1, <2>3
    <3> QED
      BY <1>4, <3>1
  <2>6. a + 1 \in Nat /\ a + 1 <= b
    BY <1>1, <1>2, <2>1, <2>3
  <2>7. Covers(q, a + 1, b)
    BY <1>1, <1>2, <1>3, <2>4, <2>5, <2>6 DEF Covers
  <2>8. NextOne(h, a, a + 1)
    BY <1>1, <2>3 DEF NextOne
  <2> QED
    BY <1>2, <2>6, <2>7, <2>8 DEF q
<1> QED
  BY <1>5, <1>6

\* Two parts, one after the other.
LEMMA CoversJoin ==
  ASSUME NEW p, NEW q, NEW a, NEW b, NEW c, Covers(p, a, b), Covers(q, b, c)
  PROVE  Covers(p \o q, a, c)
<1> DEFINE r == p \o q
           m == Len(p)
           n == Len(q)
<1>1. /\ p \in Seq(Nat) /\ a \in Nat /\ b \in Nat /\ a <= b
      /\ \A i \in DOMAIN p : p[i] = 0 \/ (a < p[i] /\ p[i] <= b)
      /\ \A i, j \in DOMAIN p : i < j /\ p[i] > 0 /\ p[j] > 0 => p[i] < p[j]
      /\ \A x \in Nat : a < x /\ x <= b => \E i \in DOMAIN p : p[i] = x
  BY DEF Covers
<1>2. /\ q \in Seq(Nat) /\ c \in Nat /\ b <= c
      /\ \A i \in DOMAIN q : q[i] = 0 \/ (b < q[i] /\ q[i] <= c)
      /\ \A i, j \in DOMAIN q : i < j /\ q[i] > 0 /\ q[j] > 0 => q[i] < q[j]
      /\ \A x \in Nat : b < x /\ x <= c => \E i \in DOMAIN q : q[i] = x
  BY DEF Covers
<1>3. /\ r \in Seq(Nat) /\ m \in Nat /\ n \in Nat /\ DOMAIN p = 1..m /\ DOMAIN q = 1..n
      /\ DOMAIN r = 1..(m + n)
      /\ \A i \in 1..m : r[i] = p[i]
      /\ \A i \in 1..n : r[m + i] = q[i]
      /\ \A i \in 1..m : p[i] \in Nat
      /\ \A i \in 1..n : q[i] \in Nat
  BY <1>1, <1>2
<1> HIDE DEF r, m, n
<1>4. ASSUME NEW i \in DOMAIN r
      PROVE  \/ i \in 1..m /\ r[i] = p[i]
             \/ i - m \in 1..n /\ r[i] = q[i - m] /\ m < i
  <2>1. CASE i <= m
    BY <1>3, <2>1
  <2>2. CASE ~(i <= m)
    <3>1. i - m \in 1..n /\ m + (i - m) = i /\ m < i
      BY <1>3, <2>2
    <3> QED
      BY <1>3, <3>1
  <2> QED
    BY <2>1, <2>2
<1>5. \A i \in DOMAIN r : r[i] = 0 \/ (a < r[i] /\ r[i] <= c)
  <2> SUFFICES ASSUME NEW i \in DOMAIN r PROVE r[i] = 0 \/ (a < r[i] /\ r[i] <= c)
    OBVIOUS
  <2>1. CASE i \in 1..m /\ r[i] = p[i]
    BY <1>1, <1>2, <1>3, <2>1
  <2>2. CASE i - m \in 1..n /\ r[i] = q[i - m]
    BY <1>1, <1>2, <1>3, <2>2
  <2> QED
    BY <1>4, <2>1, <2>2
<1>6. \A i, j \in DOMAIN r : i < j /\ r[i] > 0 /\ r[j] > 0 => r[i] < r[j]
  <2> SUFFICES ASSUME NEW i \in DOMAIN r, NEW j \in DOMAIN r, i < j, r[i] > 0, r[j] > 0
               PROVE  r[i] < r[j]
    OBVIOUS
  <2>1. CASE j \in 1..m /\ r[j] = p[j]
    <3>1. i \in 1..m /\ r[i] = p[i]
      BY <1>3, <2>1
    <3> QED
      BY <1>1, <1>3, <2>1, <3>1
  <2>2. CASE i \in 1..m /\ r[i] = p[i] /\ j - m \in 1..n /\ r[j] = q[j - m]
    <3>1. p[i] <= b /\ b < q[j - m] /\ p[i] \in Nat /\ q[j - m] \in Nat
      <4>1. i \in DOMAIN p /\ p[i] \in Nat /\ j - m \in DOMAIN q /\ q[j - m] \in Nat
        BY <1>3, <2>2
      <4>2. p[i] = 0 \/ p[i] <= b
        BY <1>1, <4>1
      <4>3. q[j - m] = 0 \/ b < q[j - m]
        BY <1>2, <4>1
      <4> QED
        BY <2>2, <4>1, <4>2, <4>3
    <3> QED
      BY <1>1, <2>2, <3>1
  <2>3. CASE i - m \in 1..n /\ r[i] = q[i - m] /\ j - m \in 1..n /\ r[j] = q[j - m]
    <3>1. i - m < j - m
      BY <1>3
    <3> QED
      BY <1>2, <1>3, <2>3, <3>1
  <2> QED
    BY <1>3, <1>4, <2>1, <2>2, <2>3
<1>7. \A x \in Nat : a < x /\ x <= c => \E i \in DOMAIN r : r[i] = x
  <2> SUFFICES ASSUME NEW x \in Nat, a < x, x <= c PROVE \E i \in DOMAIN r : r[i] = x
    OBVIOUS
  <2>1. CASE x <= b
    <3>1. PICK i \in DOMAIN p : p[i] = x
      BY <1>1, <2>1
    <3>2. i \in DOMAIN r /\ r[i] = x
      BY <1>3, <3>1
    <3> QED
      BY <3>2
  <2>2. CASE ~(x <= b)
    <3>1. PICK i \in DOMAIN q : q[i] = x
      BY <1>1, <1>2, <2>2
    <3>2. m + i \in DOMAIN r /\ r[m + i] = x
      BY <1>3, <3>1
    <3> QED
      BY <3>2
  <2> QED
    BY <2>1, <2>2
<1>8. a <= c
  BY <1>1, <1>2
<1> QED
  BY <1>1, <1>2, <1>3, <1>5, <1>6, <1>7, <1>8 DEF Covers, r

\* A path that covers everything from the first message is in order.
LEMMA CoversAll ==
  ASSUME NEW p, NEW n, Covers(p, 0, n)
  PROVE  InOrder(p, n)
<1>1. /\ p \in Seq(Nat) /\ n \in Nat
      /\ \A i \in DOMAIN p : p[i] = 0 \/ (0 < p[i] /\ p[i] <= n)
      /\ \A i, j \in DOMAIN p : i < j /\ p[i] > 0 /\ p[j] > 0 => p[i] < p[j]
      /\ \A x \in Nat : 0 < x /\ x <= n => \E i \in DOMAIN p : p[i] = x
      /\ \A i \in DOMAIN p : p[i] \in Nat
  BY DEF Covers
<1>2. \A i \in DOMAIN p : p[i] /= 0 => p[i] \in 1..n
  BY <1>1
<1>3. \A x \in 1..n : x /= 0 /\ \E i \in DOMAIN p : p[i] = x
  BY <1>1
<1>4. {p[i] : i \in DOMAIN p} \ {0} = 1..n
  BY <1>2, <1>3
<1> QED
  BY <1>1, <1>4 DEF InOrder

\* A part with one thing in it.
LEMMA CoversOne ==
  ASSUME NEW x, NEW a, NEW b, NextOne(x, a, b)
  PROVE  Covers(<<x>>, a, b)
<1>1. Covers(<<>>, a, a)
  BY DEF Covers, NextOne
<1>2. Covers(Append(<<>>, x), a, b)
  BY <1>1, CoversPut
<1>3. Append(<<>>, x) = <<x>>
  BY DEF NextOne
<1> QED
  BY <1>2, <1>3

\* Two sequences with the same elements are the same.
LEMMA SameSeq ==
  ASSUME NEW p \in Seq(Nat), NEW q \in Seq(Nat), Len(p) = Len(q),
         \A i \in 1..Len(p) : p[i] = q[i]
  PROVE  p = q
OBVIOUS

\* The numbers on a channel.
LEMMA NumbersFacts ==
  ASSUME NEW q \in Seq(Frame), NEW s
  PROVE  /\ Numbers(q, s) \in Seq(Nat) /\ Len(Numbers(q, s)) = Len(q)
         /\ \A i \in 1..Len(q) : Numbers(q, s)[i] = Number(q[i], s)
<1>1. \A f \in Frame : Number(f, s) \in Nat
  BY FrameFields DEF Number
<1> QED
  BY <1>1 DEF Numbers

\* Putting a frame on a channel puts its number there.
LEMMA NumbersPut ==
  ASSUME NEW q \in Seq(Frame), NEW s, NEW f \in Frame
  PROVE  Numbers(Append(q, f), s) = Append(Numbers(q, s), Number(f, s))
<1> DEFINE p == Numbers(Append(q, f), s)
           m == Numbers(q, s)
           x == Number(f, s)
           r == Append(m, x)
<1>0. x \in Nat
  BY FrameFields DEF Number
<1>1. /\ Append(q, f) \in Seq(Frame) /\ Len(q) \in Nat /\ Len(Append(q, f)) = Len(q) + 1
      /\ \A i \in 1..Len(q) : Append(q, f)[i] = q[i]
      /\ Append(q, f)[Len(q) + 1] = f
  BY PutLast
<1>2. /\ m \in Seq(Nat) /\ Len(m) = Len(q)
      /\ \A i \in 1..Len(q) : m[i] = Number(q[i], s)
  BY NumbersFacts
<1>3. /\ p \in Seq(Nat) /\ Len(p) = Len(q) + 1
      /\ \A i \in 1..(Len(q) + 1) : p[i] = Number(Append(q, f)[i], s)
  BY <1>1, NumbersFacts
<1> HIDE DEF p, m, x
<1>4. /\ r \in Seq(Nat) /\ Len(r) = Len(q) + 1
      /\ \A i \in 1..Len(q) : r[i] = m[i]
      /\ r[Len(q) + 1] = x
  BY <1>0, <1>2, PutLast
<1> HIDE DEF r
<1>5. ASSUME NEW i \in 1..(Len(q) + 1) PROVE p[i] = r[i]
  <2>1. CASE i \in 1..Len(q)
    BY <1>1, <1>2, <1>3, <1>4, <2>1
  <2>2. CASE i = Len(q) + 1
    BY <1>1, <1>3, <1>4, <2>2 DEF x
  <2> QED
    BY <1>1, <2>1, <2>2
<1>6. p = r
  BY <1>3, <1>4, <1>5, SameSeq
<1> QED
  BY <1>6 DEF p, r, m, x

\* Taking a frame from a channel takes its number.
LEMMA NumbersTake ==
  ASSUME NEW q \in Seq(Frame), NEW s, q /= <<>>
  PROVE  /\ Numbers(q, s) /= <<>>
         /\ Head(Numbers(q, s)) = Number(Head(q), s)
         /\ Tail(Numbers(q, s)) = Numbers(Tail(q), s)
<1> DEFINE p == Numbers(Tail(q), s)
           m == Numbers(q, s)
           r == Tail(m)
<1>1. /\ Tail(q) \in Seq(Frame) /\ Len(q) \in Nat /\ Len(q) > 0 /\ Len(Tail(q)) = Len(q) - 1
      /\ Head(q) = q[1]
      /\ \A i \in 1..(Len(q) - 1) : Tail(q)[i] = q[i + 1]
  OBVIOUS
<1>2. /\ m \in Seq(Nat) /\ Len(m) = Len(q)
      /\ \A i \in 1..Len(q) : m[i] = Number(q[i], s)
  BY NumbersFacts
<1>3. /\ p \in Seq(Nat) /\ Len(p) = Len(q) - 1
      /\ \A i \in 1..(Len(q) - 1) : p[i] = Number(Tail(q)[i], s)
  BY <1>1, NumbersFacts
<1> HIDE DEF p, m
<1>4. m /= <<>> /\ Head(m) = m[1]
  BY <1>1, <1>2
<1>5. /\ r \in Seq(Nat) /\ Len(r) = Len(q) - 1
      /\ \A i \in 1..(Len(q) - 1) : r[i] = m[i + 1]
  BY <1>1, <1>2, <1>4
<1> HIDE DEF r
<1>6. ASSUME NEW i \in 1..(Len(q) - 1) PROVE p[i] = r[i]
  <2>1. i + 1 \in 1..Len(q)
    BY <1>1
  <2> QED
    BY <1>1, <1>2, <1>3, <1>5, <2>1
<1>7. p = r
  BY <1>1, <1>3, <1>5, <1>6, SameSeq
<1>8. 1 \in 1..Len(q)
  BY <1>1
<1> QED
  BY <1>1, <1>2, <1>4, <1>7, <1>8 DEF p, r, m

-----------------------------------------------------------------------------
(* The way of the messages of one subscription *)

\* Received g, in C c, held h, offered o, read r and on the network n: messages 1 to t.
Chain(g, c, h, o, r, n, t) ==
    \E w, x, y, z, e \in Nat :
        /\ Covers(g, 0, w) /\ Covers(c, w, x)
        /\ NextOne(h, x, y) /\ NextOne(o, y, z)
        /\ Covers(r, z, e) /\ Covers(n, e, t)

\* It is in order.
LEMMA ChainInOrder ==
  ASSUME NEW g, NEW c, NEW h, NEW o, NEW r, NEW n, NEW t, Chain(g, c, h, o, r, n, t)
  PROVE  InOrder(g \o c \o <<h>> \o <<o>> \o r \o n, t)
<1>1. PICK w, x, y, z, e \in Nat : /\ Covers(g, 0, w) /\ Covers(c, w, x)
                                   /\ NextOne(h, x, y) /\ NextOne(o, y, z)
                                   /\ Covers(r, z, e) /\ Covers(n, e, t)
  BY DEF Chain
<1>2. Covers(g \o c, 0, x)
  BY <1>1, CoversJoin
<1>3. Covers(g \o c \o <<h>>, 0, y)
  BY <1>1, <1>2, CoversOne, CoversJoin
<1>4. Covers(g \o c \o <<h>> \o <<o>>, 0, z)
  BY <1>1, <1>3, CoversOne, CoversJoin
<1>5. Covers(g \o c \o <<h>> \o <<o>> \o r, 0, e)
  BY <1>1, <1>4, CoversJoin
<1>6. Covers(g \o c \o <<h>> \o <<o>> \o r \o n, 0, t)
  BY <1>1, <1>5, CoversJoin
<1> QED
  BY <1>6, CoversAll

\* The server sends a frame: a message, or one that is none.
LEMMA ChainSend ==
  ASSUME NEW g, NEW c, NEW h, NEW o, NEW r, NEW n, NEW t, Chain(g, c, h, o, r, n, t), t \in Nat
  PROVE  /\ Chain(g, c, h, o, r, Append(n, 0), t)
         /\ Chain(g, c, h, o, r, Append(n, t + 1), t + 1)
<1>1. PICK w, x, y, z, e \in Nat : /\ Covers(g, 0, w) /\ Covers(c, w, x)
                                   /\ NextOne(h, x, y) /\ NextOne(o, y, z)
                                   /\ Covers(r, z, e) /\ Covers(n, e, t)
  BY DEF Chain
<1>2. NextOne(0, t, t) /\ NextOne(t + 1, t, t + 1)
  BY DEF NextOne
<1>3. Covers(Append(n, 0), e, t) /\ Covers(Append(n, t + 1), e, t + 1)
  BY <1>1, <1>2, CoversPut
<1> QED
  BY <1>1, <1>3 DEF Chain

\* readLoop of the connection reads a frame.
LEMMA ChainRead ==
  ASSUME NEW g, NEW c, NEW h, NEW o, NEW r, NEW n, NEW t, Chain(g, c, h, o, r, n, t), n /= <<>>
  PROVE  Chain(g, c, h, o, Append(r, Head(n)), Tail(n), t)
<1>1. PICK w, x, y, z, e \in Nat : /\ Covers(g, 0, w) /\ Covers(c, w, x)
                                   /\ NextOne(h, x, y) /\ NextOne(o, y, z)
                                   /\ Covers(r, z, e) /\ Covers(n, e, t)
  BY DEF Chain
<1>2. PICK d \in Nat : NextOne(Head(n), e, d) /\ Covers(Tail(n), d, t)
  BY <1>1, CoversTake
<1>3. Covers(Append(r, Head(n)), z, d)
  BY <1>1, <1>2, CoversPut
<1> QED
  BY <1>1, <1>2, <1>3 DEF Chain

\* processLoop takes a frame and offers it to the subscription.
LEMMA ChainTake ==
  ASSUME NEW g, NEW c, NEW h, NEW o, NEW r, NEW n, NEW t, Chain(g, c, h, o, r, n, t),
         r /= <<>>, o = 0
  PROVE  Chain(g, c, h, Head(r), Tail(r), n, t)
<1>1. PICK w, x, y, z, e \in Nat : /\ Covers(g, 0, w) /\ Covers(c, w, x)
                                   /\ NextOne(h, x, y) /\ NextOne(o, y, z)
                                   /\ Covers(r, z, e) /\ Covers(n, e, t)
  BY DEF Chain
<1>2. PICK d \in Nat : NextOne(Head(r), z, d) /\ Covers(Tail(r), d, e)
  BY <1>1, CoversTake
<1>3. z = y
  BY <1>1 DEF NextOne
<1> QED
  BY <1>1, <1>2, <1>3 DEF Chain

\* Its readLoop receives it.
LEMMA ChainHold ==
  ASSUME NEW g, NEW c, NEW h, NEW o, NEW r, NEW n, NEW t, Chain(g, c, h, o, r, n, t), h = 0
  PROVE  Chain(g, c, o, 0, r, n, t)
<1>1. PICK w, x, y, z, e \in Nat : /\ Covers(g, 0, w) /\ Covers(c, w, x)
                                   /\ NextOne(h, x, y) /\ NextOne(o, y, z)
                                   /\ Covers(r, z, e) /\ Covers(n, e, t)
  BY DEF Chain
<1>2. x = y /\ NextOne(0, z, z)
  BY <1>1 DEF NextOne
<1> QED
  BY <1>1, <1>2 DEF Chain

\* It puts it, or an error, on C.
LEMMA ChainPut ==
  ASSUME NEW g, NEW c, NEW h, NEW o, NEW r, NEW n, NEW t, Chain(g, c, h, o, r, n, t)
  PROVE  /\ Chain(g, Append(c, h), 0, o, r, n, t)
         /\ Chain(g, Append(c, 0), h, o, r, n, t)
<1>1. PICK w, x, y, z, e \in Nat : /\ Covers(g, 0, w) /\ Covers(c, w, x)
                                   /\ NextOne(h, x, y) /\ NextOne(o, y, z)
                                   /\ Covers(r, z, e) /\ Covers(n, e, t)
  BY DEF Chain
<1>2. NextOne(0, x, x) /\ NextOne(0, y, y)
  BY DEF NextOne
<1>3. Covers(Append(c, h), w, y) /\ Covers(Append(c, 0), w, x)
  BY <1>1, <1>2, CoversPut
<1> QED
  BY <1>1, <1>2, <1>3 DEF Chain

\* The application receives from C.
LEMMA ChainReceive ==
  ASSUME NEW g, NEW c, NEW h, NEW o, NEW r, NEW n, NEW t, Chain(g, c, h, o, r, n, t), c /= <<>>
  PROVE  Chain(Append(g, Head(c)), Tail(c), h, o, r, n, t)
<1>1. PICK w, x, y, z, e \in Nat : /\ Covers(g, 0, w) /\ Covers(c, w, x)
                                   /\ NextOne(h, x, y) /\ NextOne(o, y, z)
                                   /\ Covers(r, z, e) /\ Covers(n, e, t)
  BY DEF Chain
<1>2. PICK d \in Nat : NextOne(Head(c), w, d) /\ Covers(Tail(c), d, x)
  BY <1>1, CoversTake
<1>3. Covers(Append(g, Head(c)), 0, d)
  BY <1>1, <1>2, CoversPut
<1> QED
  BY <1>1, <1>2, <1>3 DEF Chain

-----------------------------------------------------------------------------
(* What the steps do to the way of the messages *)

\* The messages of s are where they should be.
OnPath(s) == Chain(got[s], C[s], held[s], Offered(s), Numbers(readCh, s),
                   Numbers(network, s), sentTo[s])

\* The numbers on readCh after a step.
LEMMA ReadChNumbers ==
  ASSUME NEW s, readCh \in Seq(Frame)
  PROVE  /\ readCh' = readCh => Numbers(readCh, s)' = Numbers(readCh, s)
         /\ \A f \in Frame : readCh' = Append(readCh, f) =>
              Numbers(readCh, s)' = Append(Numbers(readCh, s), Number(f, s))
         /\ readCh /= <<>> /\ readCh' = Tail(readCh) =>
              /\ Numbers(readCh, s) /= <<>>
              /\ Head(Numbers(readCh, s)) = Number(Head(readCh), s)
              /\ Numbers(readCh, s)' = Tail(Numbers(readCh, s))
<1>1. readCh' = readCh => Numbers(readCh, s)' = Numbers(readCh, s)
  BY DEF Numbers, Number
<1>2. ASSUME NEW f \in Frame, readCh' = Append(readCh, f)
      PROVE  Numbers(readCh, s)' = Append(Numbers(readCh, s), Number(f, s))
  <2>1. Numbers(readCh, s)' = Numbers(Append(readCh, f), s)
    BY <1>2 DEF Numbers, Number
  <2> QED
    BY <2>1, NumbersPut
<1>3. ASSUME readCh /= <<>>, readCh' = Tail(readCh)
      PROVE  /\ Numbers(readCh, s) /= <<>>
             /\ Head(Numbers(readCh, s)) = Number(Head(readCh), s)
             /\ Numbers(readCh, s)' = Tail(Numbers(readCh, s))
  <2>1. Numbers(readCh, s)' = Numbers(Tail(readCh), s)
    BY <1>3 DEF Numbers, Number
  <2> QED
    BY <1>3, <2>1, NumbersTake
<1> QED
  BY <1>1, <1>2, <1>3

\* The numbers on the network after a step.
LEMMA NetworkNumbers ==
  ASSUME NEW s, network \in Seq(Frame)
  PROVE  /\ network' = network => Numbers(network, s)' = Numbers(network, s)
         /\ \A f \in Frame : network' = Append(network, f) =>
              Numbers(network, s)' = Append(Numbers(network, s), Number(f, s))
         /\ network /= <<>> /\ network' = Tail(network) =>
              /\ Numbers(network, s) /= <<>>
              /\ Head(Numbers(network, s)) = Number(Head(network), s)
              /\ Numbers(network, s)' = Tail(Numbers(network, s))
<1>1. network' = network => Numbers(network, s)' = Numbers(network, s)
  BY DEF Numbers, Number
<1>2. ASSUME NEW f \in Frame, network' = Append(network, f)
      PROVE  Numbers(network, s)' = Append(Numbers(network, s), Number(f, s))
  <2>1. Numbers(network, s)' = Numbers(Append(network, f), s)
    BY <1>2 DEF Numbers, Number
  <2> QED
    BY <2>1, NumbersPut
<1>3. ASSUME network /= <<>>, network' = Tail(network)
      PROVE  /\ Numbers(network, s) /= <<>>
             /\ Head(Numbers(network, s)) = Number(Head(network), s)
             /\ Numbers(network, s)' = Tail(Numbers(network, s))
  <2>1. Numbers(network, s)' = Numbers(Tail(network), s)
    BY <1>3 DEF Numbers, Number
  <2> QED
    BY <1>3, <2>1, NumbersTake
<1> QED
  BY <1>1, <1>2, <1>3

\* What processLoop offers after a step.
LEMMA OfferedNext ==
  ASSUME NEW s
  PROVE  /\ UNCHANGED <<loop, sending>> => Offered(s)' = Offered(s)
         /\ loop' /= "send" => Offered(s)' = 0
         /\ loop' = "send" => \A f : sending'.frame = f => Offered(s)' = Number(f, s)
<1>1. UNCHANGED <<loop, sending>> => Offered(s)' = Offered(s)
  BY DEF Offered, Number
<1>2. loop' /= "send" => Offered(s)' = 0
  BY DEF Offered
<1>3. ASSUME loop' = "send", NEW f, sending'.frame = f PROVE Offered(s)' = Number(f, s)
  BY <1>3 DEF Offered, Number
<1> QED
  BY <1>1, <1>2, <1>3

\* What the server sends: a message to a subscription that it knows, a receipt for a
\* frame that it has handled, or an error.
ServerSends(f) ==
    /\ f \in Frame /\ Plain(f)
    /\ \A s \in Sub :
         \/ f.cmd = "MESSAGE" /\ f.id = s /\ f.n = sentTo[s] + 1 /\ ServerSub(s)
         \/ ~(f.cmd = "MESSAGE" /\ f.id = s)
    /\ \A s \in Sub : Bears(f, "RECEIPT", s) => Handled("Unsubscribe", s)'
    /\ sentTo' = [s \in Sub |-> IF f.cmd = "MESSAGE" /\ f.id = s THEN sentTo[s] + 1
                                ELSE sentTo[s]]

LEMMA ServerSendsOne ==
  ASSUME CInv, Server
  PROVE  \/ UNCHANGED <<network, sentTo>>
         \/ \E f \in Frame : network' = Append(network, f) /\ ServerSends(f)
<1>0. PeerTypes
  BY TypeParts DEF CInv
<1>e. \A t \in [Sub -> Nat] : t = [s \in Sub |-> t[s]]
  OBVIOUS
<1>p. ASSUME NEW f \in Frame, f.cmd /= "MESSAGE", f.n = 0, sentTo' = sentTo,
             \A s \in Sub : Bears(f, "RECEIPT", s) => Handled("Unsubscribe", s)'
      PROVE  ServerSends(f)
  BY <1>0, <1>e, <1>p DEF ServerSends, Plain, PeerTypes
<1>1. CASE ServerHandles
  <2>1. PICK k : k = wire[served + 1]
    OBVIOUS
  <2>2. served + 1 \in 1..Len(wire) /\ Len(wire) \in Nat /\ k \in Call
    BY <1>0, <1>1, <2>1, Members DEF ServerHandles, PeerTypes
  <2>3. ReceiptId(k) \in Id
    BY <2>2, CallAssumption DEF ReceiptId, Id
  <2>4. ReceiptFrame(ReceiptId(k)) \in Frame /\ ReceiptFrame(ReceiptId(k)).cmd = "RECEIPT"
    BY <2>3, FrameTypes
  <2>5. ReceiptFrame(ReceiptId(k)).n = 0 /\ ReceiptFrame(ReceiptId(k)).id = ReceiptId(k)
    BY DEF ReceiptFrame
  <2>7. ASSUME NEW s \in Sub, ReceiptId(k) = s PROVE Handled("Unsubscribe", s)'
    <3>1. Op[k] = "Unsubscribe" /\ SubOf[k] = s
      BY <2>2, <2>7, CallAssumption DEF ReceiptId
    <3>2. served' = served + 1 /\ wire' = wire /\ served \in Nat
      BY <1>0, <1>1 DEF ServerHandles, PeerTypes
    <3>3. served + 1 \in 1..served' /\ wire'[served + 1] = k
      BY <2>1, <3>2
    <3> QED
      BY <3>1, <3>3 DEF Handled
  <2>6. /\ network' = network \/ network' = Append(network, ReceiptFrame(ReceiptId(k)))
        /\ sentTo' = sentTo
    BY <1>1, <2>1 DEF ServerHandles
  <2> QED
    BY <1>p, <2>4, <2>5, <2>6, <2>7 DEF Bears
<1>2. CASE ServerFault
  <2>1. /\ ErrorFrame \in Frame /\ ErrorFrame.cmd = "ERROR"
        /\ ReceiptFrame(nil) \in Frame /\ ReceiptFrame(nil).cmd = "RECEIPT"
    BY FrameTypes
  <2>2. ErrorFrame.n = 0 /\ ReceiptFrame(nil).n = 0 /\ ReceiptFrame(nil).id = nil /\ nil \notin Sub
    BY CallAssumption DEF ErrorFrame, ReceiptFrame, Id
  <2>3. /\ \/ network' = Append(network, ErrorFrame)
           \/ network' = Append(network, ReceiptFrame(nil)) \/ network' = network
        /\ sentTo' = sentTo
    BY <1>2 DEF ServerFault
  <2> QED
    BY <1>p, <2>1, <2>2, <2>3 DEF Bears
<1>3. ASSUME NEW s \in Sub, ServerMessage(s)
      PROVE  \E f \in Frame : network' = Append(network, f) /\ ServerSends(f)
  <2>1. sentTo[s] + 1 \in Nat
    BY <1>0 DEF PeerTypes
  <2>2. PICK f : f = MessageFrame(s, sentTo[s] + 1)
    OBVIOUS
  <2>3. f \in Frame /\ f.cmd = "MESSAGE" /\ f.id = s /\ f.n = sentTo[s] + 1
    BY <2>1, <2>2, FrameTypes DEF MessageFrame
  <2>4. /\ network' = Append(network, f) /\ ServerSub(s)
        /\ sentTo' = [sentTo EXCEPT ![s] = sentTo[s] + 1]
    BY <1>3, <2>2 DEF ServerMessage
  <2>5. sentTo' = [t \in Sub |-> IF f.cmd = "MESSAGE" /\ f.id = t THEN sentTo[t] + 1
                                 ELSE sentTo[t]]
    BY <1>0, <2>3, <2>4 DEF PeerTypes
  <2>6. ServerSends(f)
    BY <2>3, <2>4, <2>5 DEF ServerSends, Plain, Bears
  <2> QED
    BY <2>3, <2>4, <2>6
<1> QED
  BY <1>1, <1>2, <1>3 DEF Server

\* The steps of readLoop and of the server.
LEMMA OutsideOrder ==
  ASSUME MInv, NEW s \in Sub, OnPath(s), ReadLoop \/ Server
  PROVE  OnPath(s)'
<1>0. /\ readCh \in Seq(Frame) /\ network \in Seq(Frame) /\ sentTo \in [Sub -> Nat] /\ CInv
  BY DEF MInv, CInv, TypeOK
<1>1. UNCHANGED <<got, C, held, loop, sending>>
  BY OutsideFrame DEF subVars, loopVars
<1>2. Offered(s)' = Offered(s)
  BY <1>1, OfferedNext
<1>3. CASE ReadFrame
  <2>1. /\ network /= <<>> /\ readCh' = Append(readCh, Head(network))
        /\ network' = Tail(network) /\ sentTo' = sentTo
    BY <1>3 DEF ReadFrame
  <2>2. Head(network) \in Frame
    BY <1>0, <2>1, TakeFirst
  <2>3. /\ Numbers(network, s) /= <<>>
        /\ Numbers(network, s)' = Tail(Numbers(network, s))
        /\ Numbers(readCh, s)' = Append(Numbers(readCh, s), Head(Numbers(network, s)))
    BY <1>0, <2>1, <2>2, NetworkNumbers, ReadChNumbers
  <2>4. Chain(got[s], C[s], held[s], Offered(s),
              Append(Numbers(readCh, s), Head(Numbers(network, s))),
              Tail(Numbers(network, s)), sentTo[s])
    BY <2>3, ChainRead DEF OnPath
  <2> QED
    BY <1>1, <1>2, <2>1, <2>3, <2>4 DEF OnPath
<1>4. CASE ReadFails
  <2>1. UNCHANGED <<readCh, network, sentTo>>
    BY <1>4 DEF ReadFails, peerVars
  <2>2. Numbers(readCh, s)' = Numbers(readCh, s) /\ Numbers(network, s)' = Numbers(network, s)
    BY <1>0, <2>1, NetworkNumbers, ReadChNumbers
  <2> QED
    BY <1>1, <1>2, <2>1, <2>2 DEF OnPath
<1>5. CASE Server
  <2>1. readCh' = readCh
    BY <1>5 DEF Server, ServerHandles, ServerFault, ServerMessage, chanVars
  <2>2. Numbers(readCh, s)' = Numbers(readCh, s)
    BY <1>0, <2>1, ReadChNumbers
  <2>3. CASE UNCHANGED <<network, sentTo>>
    <3>1. Numbers(network, s)' = Numbers(network, s)
      BY <1>0, <2>3, NetworkNumbers
    <3> QED
      BY <1>1, <1>2, <2>2, <2>3, <3>1 DEF OnPath
  <2>4. ASSUME NEW f \in Frame, network' = Append(network, f), ServerSends(f) PROVE OnPath(s)'
    <3>1. Numbers(network, s)' = Append(Numbers(network, s), Number(f, s))
      BY <1>0, <2>4, NetworkNumbers
    <3>2. \/ Number(f, s) = sentTo[s] + 1 /\ sentTo'[s] = sentTo[s] + 1
          \/ Number(f, s) = 0 /\ sentTo'[s] = sentTo[s]
      BY <2>4 DEF ServerSends, Number
    <3>3. sentTo[s] \in Nat
      BY <1>0
    <3>4. /\ Chain(got[s], C[s], held[s], Offered(s), Numbers(readCh, s),
                   Append(Numbers(network, s), 0), sentTo[s])
          /\ Chain(got[s], C[s], held[s], Offered(s), Numbers(readCh, s),
                   Append(Numbers(network, s), sentTo[s] + 1), sentTo[s] + 1)
      BY <3>3, ChainSend DEF OnPath
    <3> QED
      BY <1>1, <1>2, <2>2, <3>1, <3>2, <3>4 DEF OnPath
  <2> QED
    BY <1>0, <1>5, <2>3, <2>4, ServerSendsOne
<1> QED
  BY <1>3, <1>4, <1>5 DEF ReadLoop

\* The steps of processLoop.
LEMMA LoopOrder ==
  ASSUME MInv, NEW s \in Sub \ ReplyTo, OnPath(s), LoopStep
  PROVE  OnPath(s)'
<1>0. /\ readCh \in Seq(Frame) /\ network \in Seq(Frame) /\ LoopTypes /\ CInv
      /\ SubMessages(s) /\ PlainInv
  BY TypeParts DEF MInv, CInv, TypeOK, MessageInv
<1>1. UNCHANGED <<got, C, held, network, sentTo>>
  BY LoopFrame DEF subVars, peerVars
<1>2. Numbers(network, s)' = Numbers(network, s)
  BY <1>0, <1>1, NetworkNumbers
<1>c. channels \in SUBSET Id /\ ErrorFrame \in Frame /\ ErrorFrame.cmd = "ERROR"
  BY <1>0, FrameTypes DEF LoopTypes
<1>o. loop /= "send" => Offered(s) = 0
  BY DEF Offered
<1>e. \A f : f.cmd /= "MESSAGE" => Number(f, s) = 0
  BY DEF Number
<1>s. ASSUME NEW ids \in SUBSET Id, NEW f \in Frame, NEW next \in {"select", "disconnect", "fail"},
             SendTo(ids, f, next)
      PROVE  Offered(s)' = Number(f, s) \/ (ids = {} /\ Offered(s)' = 0)
  BY <1>s, SendToEffect, OfferedNext
<1>3. CASE readCh' = readCh /\ Offered(s)' = Offered(s)
  <2>1. Numbers(readCh, s)' = Numbers(readCh, s)
    BY <1>0, <1>3, ReadChNumbers
  <2> QED
    BY <1>1, <1>2, <1>3, <2>1 DEF OnPath
<1>4. CASE ConnectionClosed \/ WriteChannelClosed \/ HeartBeatFails
  <2>1. loop = "select" /\ SendTo(channels, ErrorFrame, "disconnect") /\ readCh' = readCh
    BY <1>4 DEF ConnectionClosed, WriteChannelClosed, HeartBeatFails, LoopEvent, SendError, chanVars
  <2>2. Offered(s)' = 0
    BY <1>c, <1>e, <1>s, <2>1
  <2> QED
    BY <1>3, <1>o, <2>1, <2>2
<1>5. CASE LoopDisconnects \/ LoopFails
  <2>1. loop /= "send" /\ loop' = "ended" /\ readCh' = readCh
    BY <1>5 DEF LoopDisconnects, LoopFails, chanVars
  <2> QED
    BY <1>3, <1>o, <2>1, OfferedNext
<1>6. ASSUME NEW k, HandleRequest(k) PROVE OnPath(s)'
  <2>1. loop = "select" /\ readCh' = readCh
    BY <1>6 DEF HandleRequest, WriteRequest, WriteFails, SubscribeLocal, UnsubscribeLocal,
                TakeRequest, LoopEvent
  <2>2. CASE WriteFails(k)
    <3>1. SendTo(channels', ErrorFrame, "disconnect") /\ channels' = channels \cup Remember(k)
      BY <2>2 DEF WriteFails, SendError
    <3>2. k \in Call
      BY <1>0, <2>2, TakeFirst DEF WriteFails, TakeRequest, LoopTypes
    <3>3. Remember(k) \subseteq Id
      BY <3>2, CallAssumption DEF Remember, Id
    <3>4. Offered(s)' = 0
      BY <1>c, <1>e, <1>s, <3>1, <3>3
    <3> QED
      BY <1>3, <1>o, <2>1, <3>4
  <2>3. CASE ~WriteFails(k)
    <3>1. UNCHANGED <<loop, sending>>
      BY <1>6, <2>3 DEF HandleRequest, WriteRequest, SubscribeLocal, UnsubscribeLocal
    <3> QED
      BY <1>3, <2>1, <3>1, OfferedNext
  <2> QED
    BY <2>2, <2>3
<1>7. ASSUME NEW f, HandleFrame(f) PROVE OnPath(s)'
  <2>1. /\ loop = "select" /\ readCh /= <<>> /\ f = Head(readCh) /\ readCh' = Tail(readCh)
    BY <1>7 DEF HandleFrame, HandleReceipt, HandleBadReceipt, HandleMessage, HandleError,
                TakeFrame, LoopEvent
  <2>2. f \in Frame /\ f = readCh[1] /\ 1 \in DOMAIN readCh
    BY <1>0, <2>1, TakeFirst
  <2>3. /\ Numbers(readCh, s) /= <<>> /\ Head(Numbers(readCh, s)) = Number(f, s)
        /\ Numbers(readCh, s)' = Tail(Numbers(readCh, s))
    BY <1>0, <2>1, ReadChNumbers
  <2>4. Offered(s)' = Number(f, s)
    <3>1. CASE HandleMessage(f)
      <4>1. f.cmd = "MESSAGE" /\ SendTo(channels \cap {f.id}, f, "select")
        BY <3>1 DEF HandleMessage
      <4>2. Offered(s)' = Number(f, s) \/ (channels \cap {f.id} = {} /\ Offered(s)' = 0)
        BY <1>c, <1>s, <2>2, <4>1
      <4>3. f.id = s => s \in channels
        BY <1>0, <2>2, <4>1 DEF SubMessages, Has, Bears
      <4>4. f.id /= s => Number(f, s) = 0
        BY DEF Number
      <4> QED
        BY <4>2, <4>3, <4>4
    <3>2. CASE HandleReceipt(f)
      <4>1. f.cmd = "RECEIPT" /\ SendTo(channels \cap {f.id}, f, "select")
        BY <3>2 DEF HandleReceipt
      <4> QED
        BY <1>c, <1>e, <1>s, <2>2, <4>1
    <3>3. CASE HandleBadReceipt(f)
      <4>1. f.cmd = "RECEIPT" /\ SendTo(channels, ErrorFrame, "disconnect")
        BY <3>3 DEF HandleBadReceipt, SendError
      <4> QED
        BY <1>c, <1>e, <1>s, <4>1
    <3>4. CASE HandleError(f)
      <4>1. f.cmd = "ERROR" /\ SendTo(channels, f, "fail")
        BY <3>4 DEF HandleError
      <4> QED
        BY <1>c, <1>e, <1>s, <2>2, <4>1
    <3> QED
      BY <1>7, <3>1, <3>2, <3>3, <3>4 DEF HandleFrame
  <2>5. Chain(got[s], C[s], held[s], Head(Numbers(readCh, s)), Tail(Numbers(readCh, s)),
              Numbers(network, s), sentTo[s])
    BY <1>o, <2>1, <2>3, ChainTake DEF OnPath
  <2> QED
    BY <1>1, <1>2, <2>3, <2>4, <2>5 DEF OnPath
<1> QED
  BY <1>4, <1>5, <1>6, <1>7 DEF LoopStep, ReadEvent, WriteEvent

\* When a frame is taken nothing is left to offer: a MESSAGE had one receiver.
LEMMA SentOffers ==
  ASSUME CInv, NEW i, Sent(i), NEW s
  PROVE  Offered(s)' = 0 /\ (i /= s => Offered(s) = 0)
<1>1. /\ loop = "send" /\ i = sending.cur /\ sending \in Sending
      /\ SendTo(sending.rest, sending.frame, sending.next)
      /\ sending.next /= "select" => sending.frame.cmd = "ERROR"
      /\ sending.next = "select" => sending.rest = {} /\ sending.frame.id = i
  BY DEF CInv, Sent, SendInv
<1>2. /\ sending.frame \in Frame /\ sending.rest \in SUBSET Id
      /\ sending.next \in {"select", "disconnect", "fail"}
  BY <1>1, SendingFields
<1>3. Offered(s) = Number(sending.frame, s)
  BY <1>1 DEF Offered
<1>4. CASE sending.next = "select"
  <2>1. loop' = "select"
    BY <1>1, <1>2, <1>4, SendToEffect
  <2> QED
    BY <1>1, <1>3, <1>4, <2>1, OfferedNext DEF Number
<1>5. CASE sending.next /= "select"
  <2>1. Number(sending.frame, s) = 0
    BY <1>1, <1>5 DEF Number
  <2>2. loop' = sending.next \/ (loop' = "send" /\ sending'.frame = sending.frame)
    BY <1>1, <1>2, SendToEffect
  <2>3. loop' = "send" => Offered(s)' = Number(sending.frame, s)
    BY <1>2, <2>2, OfferedNext
  <2> QED
    BY <1>3, <2>1, <2>3, OfferedNext
<1> QED
  BY <1>4, <1>5

\* The steps of the calls.
LEMMA CallOrder ==
  ASSUME MInv, NEW s \in Sub, OnPath(s), NEW k \in Call, OwnStep(k) \/ Answer(k)
  PROVE  OnPath(s)'
<1>0. /\ readCh \in Seq(Frame) /\ network \in Seq(Frame) /\ CInv /\ C \in [Sub -> Seq(Item)]
  BY DEF MInv, CInv, TypeOK
<1>1. UNCHANGED <<got, held, readCh, network, sentTo>>
  BY OwnFrame, ReceiptFrames DEF subVars, peerVars, chanVars
<1>2. Numbers(network, s)' = Numbers(network, s) /\ Numbers(readCh, s)' = Numbers(readCh, s)
  BY <1>0, <1>1, NetworkNumbers, ReadChNumbers
<1>3. Offered(s)' = Offered(s)
  <2>1. CASE OwnStep(k)
    BY <2>1, OwnFrame, OfferedNext DEF loopVars
  <2>2. CASE Answer(k)
    <3>1. k /= s /\ Sent(k)
      BY <2>2, CallAssumption DEF Answer
    <3> QED
      BY <1>0, <3>1, SentOffers
  <2> QED
    BY <2>1, <2>2
<1>4. C' = C \/ PutOnC(SubOf[k], 0)
  <2>1. Answer(k) => C' = C
    BY ReceiptFrames DEF subVars
  <2>2. Start(k) \/ LockClosed(k) \/ LockInvalid(k) \/ LockOpen(k) => C' = C
    BY DEF Start, LockClosed, LockInvalid, LockOpen, subVars
  <2>3. MustDisconnect(k) \/ PutRequest(k) \/ PutTimeout(k) \/ AwaitTimeout(k) => C' = C
    BY DEF MustDisconnect, PutRequest, PutTimeout, AwaitTimeout, subVars
  <2>4. UnsubscribeStep(k) => C' = C \/ PutOnC(SubOf[k], 0)
    BY DEF UnsubscribeStep, UnsubscribeFails, UnsubscribeChecks, UnsubscribeWaits,
           UnsubscribeWakes, UnsubscribeExpires, UnsubscribeGivesUp
  <2> QED
    BY <2>1, <2>2, <2>3, <2>4 DEF OwnStep
<1>5. C'[s] = C[s] \/ C'[s] = Append(C[s], 0)
  BY <1>0, <1>4 DEF PutOnC
<1>6. Chain(got[s], Append(C[s], 0), held[s], Offered(s), Numbers(readCh, s),
            Numbers(network, s), sentTo[s])
  BY ChainPut DEF OnPath
<1> QED
  BY <1>1, <1>2, <1>3, <1>5, <1>6 DEF OnPath

\* The steps of the subscriptions and of the application.
LEMMA SubOrder ==
  ASSUME MInv, NEW s \in Sub, OnPath(s), NEW t \in Sub, SubStep(t) \/ ReceiveFrame(t)
  PROVE  OnPath(s)'
<1>0. /\ readCh \in Seq(Frame) /\ network \in Seq(Frame) /\ CInv
      /\ C \in [Sub -> Seq(Item)] /\ got \in [Sub -> Seq(Item)] /\ held \in [Sub -> Item]
      /\ SendInv /\ PlainInv /\ HeldInv
  BY DEF MInv, CInv, TypeOK, MessageInv
<1>1. UNCHANGED <<readCh, network, sentTo>>
  BY SubFrame, ReceiptFrames DEF peerVars, chanVars
<1>2. Numbers(network, s)' = Numbers(network, s) /\ Numbers(readCh, s)' = Numbers(readCh, s)
  BY <1>0, <1>1, NetworkNumbers, ReadChNumbers
<1>3. SubStep(t) => Offered(s)' = Offered(s)
  BY SubFrame, OfferedNext DEF loopVars
<1>4. CASE ReceiveFrame(t)
  <2>1. /\ reader[t] = "receive" /\ Sent(t) /\ UNCHANGED <<got, C>>
        /\ held' = [held EXCEPT ![t] = sending.frame.n] /\ loop = "send" /\ t = sending.cur
    BY <1>4, ReceiptFrames DEF ReceiveFrame, Sent
  <2>2. Offered(s)' = 0 /\ (t /= s => Offered(s) = 0)
    BY <1>0, <2>1, SentOffers
  <2>3. CASE t /= s
    <3>1. held'[s] = held[s]
      BY <1>0, <2>1, <2>3
    <3> QED
      BY <1>1, <1>2, <2>1, <2>2, <2>3, <3>1 DEF OnPath
  <2>4. CASE t = s
    <3>1. held[s] = 0
      BY <1>0, <2>1, <2>4 DEF HeldInv
    <3>2. /\ sending.frame.cmd /= "MESSAGE" => sending.frame.n = 0
          /\ sending.frame.cmd = "MESSAGE" => sending.frame.id = s
      BY <1>0, <2>1, <2>4, SendingFields DEF PlainInv, Plain, SendInv
    <3>3. Offered(s) = sending.frame.n
      BY <2>1, <3>2 DEF Offered, Number
    <3>4. held'[s] = Offered(s)
      BY <1>0, <2>1, <2>4, <3>3
    <3>5. Chain(got[s], C[s], Offered(s), 0, Numbers(readCh, s), Numbers(network, s), sentTo[s])
      BY <3>1, ChainHold DEF OnPath
    <3> QED
      BY <1>1, <1>2, <2>1, <2>2, <3>4, <3>5 DEF OnPath
  <2> QED
    BY <2>3, <2>4
<1>5. CASE PutMessage(t)
  <2>1. /\ SubStep(t) /\ got' = got /\ C' = [C EXCEPT ![t] = Append(C[t], held[t])]
        /\ held' = [held EXCEPT ![t] = 0]
    BY <1>5 DEF SubStep, PutMessage, PutOnC
  <2>2. CASE t /= s
    <3>1. held'[s] = held[s] /\ C'[s] = C[s]
      BY <1>0, <2>1, <2>2
    <3> QED
      BY <1>1, <1>2, <1>3, <2>1, <3>1 DEF OnPath
  <2>3. CASE t = s
    <3>1. held'[s] = 0 /\ C'[s] = Append(C[s], held[s])
      BY <1>0, <2>1, <2>3
    <3>2. Chain(got[s], Append(C[s], held[s]), 0, Offered(s), Numbers(readCh, s),
                Numbers(network, s), sentTo[s])
      BY ChainPut DEF OnPath
    <3> QED
      BY <1>1, <1>2, <1>3, <2>1, <3>1, <3>2 DEF OnPath
  <2> QED
    BY <2>2, <2>3
<1>6. CASE ClosePuts(t)
  <2>1. SubStep(t) /\ UNCHANGED <<got, held>> /\ C' = [C EXCEPT ![t] = Append(C[t], 0)]
    BY <1>6 DEF SubStep, CloseStep, ClosePuts, PutOnC
  <2>2. C'[s] = C[s] \/ C'[s] = Append(C[s], 0)
    BY <1>0, <2>1
  <2>3. Chain(got[s], Append(C[s], 0), held[s], Offered(s), Numbers(readCh, s),
              Numbers(network, s), sentTo[s])
    BY ChainPut DEF OnPath
  <2> QED
    BY <1>1, <1>2, <1>3, <2>1, <2>2, <2>3 DEF OnPath
<1>7. CASE Receive(t)
  <2>1. /\ SubStep(t) /\ held' = held /\ C[t] /= <<>> /\ C' = [C EXCEPT ![t] = Tail(C[t])]
        /\ got' = [got EXCEPT ![t] = Append(got[t], Head(C[t]))]
    BY <1>7 DEF SubStep, Receive
  <2>2. CASE t /= s
    <3>1. got'[s] = got[s] /\ C'[s] = C[s]
      BY <1>0, <2>1, <2>2
    <3> QED
      BY <1>1, <1>2, <1>3, <2>1, <3>1 DEF OnPath
  <2>3. CASE t = s
    <3>1. got'[s] = Append(got[s], Head(C[s])) /\ C'[s] = Tail(C[s])
      BY <1>0, <2>1, <2>3
    <3>2. Chain(Append(got[s], Head(C[s])), Tail(C[s]), held[s], Offered(s), Numbers(readCh, s),
                Numbers(network, s), sentTo[s])
      BY <2>1, <2>3, ChainReceive DEF OnPath
    <3> QED
      BY <1>1, <1>2, <1>3, <2>1, <3>1, <3>2 DEF OnPath
  <2> QED
    BY <2>2, <2>3
<1>8. CASE ReceiveNothing(t) \/ ReaderEnds(t) \/ CloseBegins(t) \/ CloseStores(t) \/ CloseShuts(t)
  <2>1. SubStep(t) /\ UNCHANGED <<got, C, held>>
    BY <1>8 DEF SubStep, CloseStep, ReceiveNothing, ReaderEnds, CloseBegins, CloseStores, CloseShuts
  <2> QED
    BY <1>1, <1>2, <1>3, <2>1 DEF OnPath
<1> QED
  BY <1>4, <1>5, <1>6, <1>7, <1>8 DEF SubStep, CloseStep

\* Every step keeps the messages on their way.
LEMMA OrderStep ==
  ASSUME MInv, Next, NEW s \in Sub \ ReplyTo, OnPath(s)
  PROVE  OnPath(s)'
  BY OutsideOrder, LoopOrder, CallOrder, SubOrder, StepKinds

-----------------------------------------------------------------------------
(* One message is held at a time, and only a MESSAGE has a number *)

\* readLoop of a subscription leaves "put" when it has put the message it holds.
LEMMA HeldStep ==
  ASSUME MInv, Next PROVE HeldInv'
<1>0. /\ C \in [Sub -> Seq(Item)] /\ held \in [Sub -> Item] /\ reader \in [Sub -> ReaderPlaces]
      /\ SendInv /\ PlainInv /\ HeldInv /\ ReaderInv /\ CInv
  BY DEF MInv, CInv, TypeOK, MessageInv
<1> SUFFICES ASSUME NEW s \in Sub, reader'[s] /= "put" PROVE held'[s] = 0
  BY DEF HeldInv
<1>q. CASE UNCHANGED <<reader, held>>
  BY <1>0, <1>q DEF HeldInv
<1>1. CASE ReadLoop \/ Server \/ LoopStep
  BY <1>q, <1>1, OutsideFrame, LoopFrame DEF subVars
<1>2. ASSUME NEW k \in Call, Answer(k) PROVE held'[s] = 0
  BY <1>q, <1>2, ReceiptFrames DEF subVars
<1>3. ASSUME NEW k \in Call, OwnStep(k) PROVE held'[s] = 0
  <2>1. held' = held
    BY <1>3, OwnFrame
  <2>2. CASE LockOpen(k) /\ Op[k] = "Subscribe" /\ s = SubOf[k]
    <3>1. reader[s] = "none"
      BY <1>0, <2>2 DEF ReaderInv, LockOpen, Locked
    <3> QED
      BY <1>0, <2>1, <3>1 DEF HeldInv
  <2>3. CASE ~(LockOpen(k) /\ Op[k] = "Subscribe" /\ s = SubOf[k])
    <3>1. LockOpen(k) => reader'[s] = reader[s]
      BY <2>3 DEF LockOpen
    <3>2. ~LockOpen(k) => reader' = reader
      BY <1>3 DEF OwnStep, Start, UnsubscribeStep, UnsubscribeFails, UnsubscribeChecks,
        UnsubscribeWaits, UnsubscribeWakes, UnsubscribeExpires, UnsubscribeGivesUp, Waiting,
        LockClosed, LockInvalid, MustDisconnect, PutRequest, PutTimeout, AwaitTimeout, subVars
    <3> QED
      BY <1>0, <2>1, <3>1, <3>2 DEF HeldInv
  <2> QED
    BY <2>2, <2>3
<1>4. ASSUME NEW t \in Sub, ReceiveFrame(t) PROVE held'[s] = 0
  <2>1. /\ loop = "send" /\ held' = [held EXCEPT ![t] = sending.frame.n]
        /\ reader' = [reader EXCEPT ![t] = CASE sending.frame.cmd = "MESSAGE" -> "put"
                                             [] sending.frame.cmd = "ERROR" -> "fail"
                                             [] sending.frame.cmd = "RECEIPT" -> "finish"]
    BY <1>4 DEF ReceiveFrame, Sent
  <2>2. CASE t = s
    <3>1. sending.frame.cmd /= "MESSAGE"
      BY <1>0, <2>1, <2>2
    <3>2. sending.frame.n = 0
      BY <1>0, <2>1, <3>1 DEF PlainInv, Plain
    <3> QED
      BY <1>0, <2>1, <2>2, <3>2
  <2>3. CASE t /= s
    BY <1>0, <2>1, <2>3 DEF HeldInv
  <2> QED
    BY <2>2, <2>3
<1>5. ASSUME NEW t \in Sub, SubStep(t) PROVE held'[s] = 0
  <2>1. CASE PutMessage(t)
    BY <1>0, <2>1 DEF PutMessage, HeldInv
  <2>2. CASE ReceiveNothing(t) \/ ReaderEnds(t)
    BY <1>0, <2>2 DEF ReceiveNothing, ReaderEnds, HeldInv
  <2>3. CASE CloseStep(t) \/ Receive(t)
    BY <1>q, <2>3 DEF CloseStep, CloseBegins, ClosePuts, CloseStores, CloseShuts, Receive
  <2> QED
    BY <1>5, <2>1, <2>2, <2>3 DEF SubStep
<1> QED
  BY <1>1, <1>2, <1>3, <1>4, <1>5, StepKinds

\* The frames of the server, and what processLoop sends.
LEMMA PlainStep ==
  ASSUME MInv, Next PROVE PlainInv'
<1> DEFINE Clean(q) == \A i \in DOMAIN q : q[i].cmd /= "MESSAGE" => q[i].n = 0
<1>0. /\ readCh \in Seq(Frame) /\ network \in Seq(Frame) /\ LoopTypes /\ CInv /\ PlainInv
      /\ Clean(readCh) /\ Clean(network)
  BY TypeParts DEF MInv, CInv, TypeOK, MessageInv, PlainInv, Plain
<1>e. /\ ErrorFrame \in Frame /\ ErrorFrame.n = 0
      /\ channels \in SUBSET Id
  BY <1>0, FrameTypes DEF ErrorFrame, LoopTypes
<1>p. ASSUME NEW q \in Seq(Frame), Clean(q), NEW f \in Frame, Plain(f) PROVE Clean(Append(q, f))
  <2>1. /\ Len(q) \in Nat /\ DOMAIN q = 1..Len(q) /\ DOMAIN Append(q, f) = 1..(Len(q) + 1)
        /\ \A j \in 1..Len(q) : Append(q, f)[j] = q[j]
        /\ Append(q, f)[Len(q) + 1] = f
    BY PutLast
  <2>2. \A i \in DOMAIN Append(q, f) : i = Len(q) + 1 \/ i \in DOMAIN q
    BY <2>1
  <2> QED
    BY <1>p, <2>1, <2>2 DEF Plain
<1>t. ASSUME NEW q \in Seq(Frame), Clean(q), q /= <<>>
      PROVE  Clean(Tail(q)) /\ Plain(Head(q)) /\ Head(q) \in Frame
  BY <1>t, TakeFirst DEF Plain
<1>s. ASSUME NEW ids \in SUBSET Id, NEW f \in Frame, NEW next \in {"select", "disconnect", "fail"},
             SendTo(ids, f, next), Plain(f)
      PROVE  loop' = "send" => Plain(sending.frame)'
  BY <1>s, SendToEffect DEF Plain
<1>q. ASSUME Clean(readCh'), Clean(network'), loop' = "send" => Plain(sending.frame)'
      PROVE  PlainInv'
  BY <1>q DEF PlainInv, Plain
<1>u. UNCHANGED <<loop, sending>> => (loop' = "send" => Plain(sending.frame)')
  BY <1>0 DEF PlainInv, Plain
<1>1. CASE ReadLoop \/ Server
  <2>1. UNCHANGED <<loop, sending>>
    BY <1>1, OutsideFrame DEF loopVars
  <2>2. Clean(readCh') /\ Clean(network')
    <3>1. CASE ReadFrame
      <4>1. network /= <<>> /\ readCh' = Append(readCh, Head(network)) /\ network' = Tail(network)
        BY <3>1 DEF ReadFrame
      <4> QED
        BY <1>0, <1>p, <1>t, <4>1
    <3>2. CASE ReadFails
      BY <1>0, <3>2 DEF ReadFails, peerVars
    <3>3. CASE Server
      <4>1. readCh' = readCh
        BY <3>3 DEF Server, ServerHandles, ServerFault, ServerMessage, chanVars
      <4>2. network' = network \/ \E f \in Frame : network' = Append(network, f) /\ Plain(f)
        BY <1>0, <3>3, ServerSendsOne DEF ServerSends
      <4> QED
        BY <1>0, <1>p, <4>1, <4>2
    <3> QED
      BY <1>1, <3>1, <3>2, <3>3 DEF ReadLoop
  <2> QED
    BY <1>q, <1>u, <2>1, <2>2
<1>2. CASE LoopStep
  <2>1. Clean(network')
    BY <1>0, <1>2, LoopFrame DEF peerVars
  <2>2. readCh' = readCh \/ (readCh /= <<>> /\ readCh' = Tail(readCh))
    BY <1>2 DEF LoopStep, ReadEvent, WriteEvent, HandleFrame, HandleRequest,
        HandleReceipt, HandleBadReceipt, HandleMessage, HandleError, TakeFrame, WriteFails,
        WriteRequest, SubscribeLocal, UnsubscribeLocal, TakeRequest, ConnectionClosed,
        WriteChannelClosed, HeartBeatFails, LoopDisconnects, LoopFails, chanVars
  <2>3. Clean(readCh')
    BY <1>0, <1>t, <2>2
  <2>4. loop' = "send" => Plain(sending.frame)'
    <3>1. CASE ConnectionClosed \/ WriteChannelClosed \/ HeartBeatFails
      <4>1. SendTo(channels, ErrorFrame, "disconnect")
        BY <3>1 DEF ConnectionClosed, WriteChannelClosed, HeartBeatFails, SendError
      <4> QED
        BY <1>e, <1>s, <4>1 DEF Plain
    <3>2. CASE LoopDisconnects \/ LoopFails
      BY <3>2 DEF LoopDisconnects, LoopFails
    <3>3. ASSUME NEW k, HandleRequest(k) PROVE loop' = "send" => Plain(sending.frame)'
      <4>1. CASE WriteFails(k)
        <5>1. SendTo(channels', ErrorFrame, "disconnect") /\ channels' = channels \cup Remember(k)
          BY <4>1 DEF WriteFails, SendError
        <5>2. k \in Call
          BY <1>0, <4>1, TakeFirst DEF WriteFails, TakeRequest, LoopTypes
        <5>3. Remember(k) \subseteq Id
          BY <5>2, CallAssumption DEF Remember, Id
        <5> QED
          BY <1>e, <1>s, <5>1, <5>3 DEF Plain
      <4>2. CASE ~WriteFails(k)
        BY <1>u, <3>3, <4>2 DEF HandleRequest, WriteRequest, SubscribeLocal, UnsubscribeLocal
      <4> QED
        BY <4>1, <4>2
    <3>4. ASSUME NEW f, HandleFrame(f) PROVE loop' = "send" => Plain(sending.frame)'
      <4>1. readCh /= <<>> /\ f = Head(readCh)
        BY <3>4 DEF HandleFrame, HandleReceipt, HandleBadReceipt, HandleMessage, HandleError,
                    TakeFrame
      <4>2. f \in Frame /\ Plain(f) /\ Plain(ErrorFrame)
        BY <1>0, <1>e, <1>t, <4>1 DEF Plain
      <4>3. \/ SendTo(channels \cap {f.id}, f, "select") \/ SendTo(channels, f, "fail")
            \/ SendTo(channels, ErrorFrame, "disconnect")
        BY <3>4 DEF HandleFrame, HandleReceipt, HandleBadReceipt, HandleMessage, HandleError,
                    SendError
      <4>4. channels \cap {f.id} \in SUBSET Id
        BY <1>e
      <4> QED
        BY <1>e, <1>s, <4>2, <4>3, <4>4
    <3> QED
      BY <1>2, <3>1, <3>2, <3>3, <3>4 DEF LoopStep, ReadEvent, WriteEvent
  <2> QED
    BY <1>q, <2>1, <2>3, <2>4
<1>3. ASSUME NEW k \in Call, OwnStep(k) PROVE PlainInv'
  <2>1. UNCHANGED <<readCh, network, loop, sending>>
    BY <1>3, OwnFrame DEF peerVars, loopVars
  <2> QED
    BY <1>0, <1>q, <1>u, <2>1
<1>4. ASSUME NEW i, Sent(i), UNCHANGED <<readCh, network>> PROVE PlainInv'
  <2>1. /\ loop = "send" /\ sending \in Sending
        /\ SendTo(sending.rest, sending.frame, sending.next)
    BY <1>0, <1>4 DEF CInv, Sent, SendInv
  <2>2. /\ sending.frame \in Frame /\ sending.rest \in SUBSET Id /\ Plain(sending.frame)
        /\ sending.next \in {"select", "disconnect", "fail"}
    BY <1>0, <2>1, SendingFields DEF PlainInv
  <2>3. loop' = "send" => Plain(sending.frame)'
    BY <1>s, <2>1, <2>2
  <2> QED
    BY <1>0, <1>q, <1>4, <2>3
<1>5. ASSUME NEW k \in Call, Answer(k) PROVE PlainInv'
  BY <1>4, <1>5, ReceiptFrames DEF Answer, chanVars, peerVars
<1>6. ASSUME NEW t \in Sub, ReceiveFrame(t) PROVE PlainInv'
  BY <1>4, <1>6, ReceiptFrames DEF ReceiveFrame, chanVars, peerVars
<1>7. ASSUME NEW t \in Sub, SubStep(t) PROVE PlainInv'
  <2>1. UNCHANGED <<readCh, network, loop, sending>>
    BY <1>7, SubFrame DEF peerVars, loopVars, chanVars
  <2> QED
    BY <1>0, <1>q, <1>u, <2>1
<1> QED
  BY <1>1, <1>2, <1>3, <1>5, <1>6, <1>7, StepKinds

-----------------------------------------------------------------------------
(* As long as there is a message for a subscription, processLoop knows it *)

\* The frames for s on a channel to which a frame is added.
LEMMA HasPut ==
  ASSUME NEW q \in Seq(Frame), NEW f \in Frame, NEW s
  PROVE  /\ \A cmd : Has(Append(q, f), cmd, s) <=> Has(q, cmd, s) \/ Bears(f, cmd, s)
         /\ LastIn(q, s) /\ (Bears(f, "MESSAGE", s) => ~Has(q, "RECEIPT", s))
               => LastIn(Append(q, f), s)
<1>1. /\ Len(q) \in Nat /\ DOMAIN q = 1..Len(q) /\ DOMAIN Append(q, f) = 1..(Len(q) + 1)
      /\ \A j \in 1..Len(q) : Append(q, f)[j] = q[j]
      /\ Append(q, f)[Len(q) + 1] = f
  BY PutLast
<1>2. \A i \in DOMAIN Append(q, f) : i = Len(q) + 1 \/ i \in DOMAIN q
  BY <1>1
<1>3. Len(q) + 1 \in DOMAIN Append(q, f) /\ \A i \in DOMAIN q : i \in DOMAIN Append(q, f)
  BY <1>1
<1>4. ASSUME NEW cmd PROVE Has(Append(q, f), cmd, s) <=> Has(q, cmd, s) \/ Bears(f, cmd, s)
  <2>1. ASSUME Has(Append(q, f), cmd, s) PROVE Has(q, cmd, s) \/ Bears(f, cmd, s)
    <3>1. PICK i \in DOMAIN Append(q, f) : Bears(Append(q, f)[i], cmd, s)
      BY <2>1 DEF Has
    <3> QED
      BY <1>1, <1>2, <3>1 DEF Has
  <2>2. ASSUME Has(q, cmd, s) PROVE Has(Append(q, f), cmd, s)
    <3>1. PICK i \in DOMAIN q : Bears(q[i], cmd, s)
      BY <2>2 DEF Has
    <3> QED
      BY <1>1, <1>3, <3>1 DEF Has
  <2>3. ASSUME Bears(f, cmd, s) PROVE Has(Append(q, f), cmd, s)
    BY <1>1, <1>3, <2>3 DEF Has
  <2> QED
    BY <2>1, <2>2, <2>3
<1>5. ASSUME LastIn(q, s), Bears(f, "MESSAGE", s) => ~Has(q, "RECEIPT", s)
      PROVE  LastIn(Append(q, f), s)
  <2> SUFFICES ASSUME NEW i \in DOMAIN Append(q, f), NEW j \in DOMAIN Append(q, f),
                      Bears(Append(q, f)[i], "RECEIPT", s), Bears(Append(q, f)[j], "MESSAGE", s)
               PROVE  j < i
    BY DEF LastIn
  <2>1. CASE i \in DOMAIN q /\ j \in DOMAIN q
    <3>1. Bears(q[i], "RECEIPT", s) /\ Bears(q[j], "MESSAGE", s)
      BY <1>1, <2>1
    <3> QED
      BY <1>5, <2>1, <3>1 DEF LastIn
  <2>2. CASE i \in DOMAIN q /\ j = Len(q) + 1
    <3>1. Bears(q[i], "RECEIPT", s) /\ Bears(f, "MESSAGE", s)
      BY <1>1, <2>2
    <3> QED
      BY <1>5, <2>2, <3>1 DEF Has
  <2>3. CASE i = Len(q) + 1 /\ j \in DOMAIN q
    BY <1>1, <2>3
  <2>4. CASE i = Len(q) + 1 /\ j = Len(q) + 1
    BY <1>1, <2>4 DEF Bears
  <2> QED
    BY <1>2, <2>1, <2>2, <2>3, <2>4
<1> QED
  BY <1>4, <1>5

\* The frames for s on a channel from which a frame is taken.
LEMMA HasTake ==
  ASSUME NEW q \in Seq(Frame), NEW s, q /= <<>>
  PROVE  /\ \A cmd : Has(Tail(q), cmd, s) \/ Bears(Head(q), cmd, s) => Has(q, cmd, s)
         /\ LastIn(q, s) => /\ LastIn(Tail(q), s)
                            /\ Bears(Head(q), "RECEIPT", s) => ~Has(q, "MESSAGE", s)
<1>1. /\ Head(q) = q[1] /\ 1 \in DOMAIN q
      /\ \A i \in DOMAIN Tail(q) : i \in Nat /\ i + 1 \in DOMAIN q /\ Tail(q)[i] = q[i + 1]
      /\ \A i \in DOMAIN q : i \in Nat /\ ~(i < 1)
  BY TakeFirst, Members
<1>2. ASSUME NEW cmd PROVE Has(Tail(q), cmd, s) \/ Bears(Head(q), cmd, s) => Has(q, cmd, s)
  <2>1. ASSUME Has(Tail(q), cmd, s) PROVE Has(q, cmd, s)
    <3>1. PICK i \in DOMAIN Tail(q) : Bears(Tail(q)[i], cmd, s)
      BY <2>1 DEF Has
    <3> QED
      BY <1>1, <3>1 DEF Has
  <2>2. ASSUME Bears(Head(q), cmd, s) PROVE Has(q, cmd, s)
    BY <1>1, <2>2 DEF Has
  <2> QED
    BY <2>1, <2>2
<1>3. ASSUME LastIn(q, s) PROVE LastIn(Tail(q), s)
  <2> SUFFICES ASSUME NEW i \in DOMAIN Tail(q), NEW j \in DOMAIN Tail(q),
                      Bears(Tail(q)[i], "RECEIPT", s), Bears(Tail(q)[j], "MESSAGE", s)
               PROVE  j < i
    BY DEF LastIn
  <2>1. /\ i + 1 \in DOMAIN q /\ j + 1 \in DOMAIN q /\ i \in Nat /\ j \in Nat
        /\ Bears(q[i + 1], "RECEIPT", s) /\ Bears(q[j + 1], "MESSAGE", s)
    BY <1>1
  <2>2. j + 1 < i + 1
    BY <1>3, <2>1 DEF LastIn
  <2> QED
    BY <2>1, <2>2
<1>4. ASSUME LastIn(q, s), Bears(Head(q), "RECEIPT", s), Has(q, "MESSAGE", s) PROVE FALSE
  <2>1. PICK j \in DOMAIN q : Bears(q[j], "MESSAGE", s)
    BY <1>4 DEF Has
  <2>2. j < 1
    BY <1>1, <1>4, <2>1 DEF LastIn
  <2> QED
    BY <1>1, <2>2
<1> QED
  BY <1>2, <1>3, <1>4

\* The frames for s after a step.
LEMMA ReadChHas ==
  ASSUME NEW s, NEW cmd
  PROVE  \A q : readCh' = q => /\ Has(readCh, cmd, s)' <=> Has(q, cmd, s)
                               /\ LastIn(readCh, s)' <=> LastIn(q, s)
  BY DEF Has, LastIn, Bears

LEMMA NetworkHas ==
  ASSUME NEW s, NEW cmd
  PROVE  \A q : network' = q => /\ Has(network, cmd, s)' <=> Has(q, cmd, s)
                                /\ LastIn(network, s)' <=> LastIn(q, s)
  BY DEF Has, LastIn, Bears

\* What the server has handled stays handled.
LEMMA HandledGrows ==
  ASSUME CInv, Next, NEW op, NEW s, Handled(op, s)
  PROVE  Handled(op, s)'
<1>0. wire \in Seq(Call) /\ Len(wire) \in Nat /\ served \in 0..Len(wire) /\ LoopTypes /\ PeerTypes
  BY TypeParts DEF CInv, PeerTypes
<1>1. PICK i \in 1..served : Op[wire[i]] = op /\ SubOf[wire[i]] = s
  BY DEF Handled
<1>2. served' = served \/ served' = served + 1
  <2>1. Server => served' = served \/ served' = served + 1
    BY DEF Server, ServerHandles, ServerFault, ServerMessage
  <2>2. ~Server => served' = served
    BY OwnFrame, SubFrame, LoopFrame, ReceiptFrames, StepKinds
       DEF ReadLoop, ReadFrame, ReadFails, peerVars
  <2> QED
    BY <2>1, <2>2
<1>3. wire' = wire \/ \E k \in Call : wire' = Append(wire, k)
  <2>1. LoopStep => wire' = wire \/ \E k \in Call : wire' = Append(wire, k)
    <3> SUFFICES ASSUME LoopStep PROVE wire' = wire \/ \E k \in Call : wire' = Append(wire, k)
      OBVIOUS
    <3>1. wire' = wire \/ (writeCh /= <<>> /\ wire' = Append(wire, Head(writeCh)))
      BY LoopWrites
    <3>2. writeCh /= <<>> => Head(writeCh) \in Call
      BY <1>0, TakeFirst DEF LoopTypes
    <3> QED
      BY <3>1, <3>2
  <2>2. ~LoopStep => wire' = wire
    BY OwnFrame, SubFrame, OutsideFrame, ReceiptFrames, StepKinds
  <2> QED
    BY <2>1, <2>2
<1>4. wire'[i] = wire[i]
  <2>1. i \in 1..Len(wire)
    BY <1>0
  <2> QED
    BY <1>0, <1>3, <2>1, PutLast
<1>5. i \in 1..served'
  BY <1>0, <1>2
<1> QED
  BY <1>1, <1>4, <1>5 DEF Handled

\* What is unchanged, or known to more, keeps SubMessages.
LEMMA MessagesKept ==
  ASSUME CInv, Next, NEW s, SubMessages(s), UNCHANGED <<readCh, network>>,
         s \in channels => s \in channels',
         Wrote("Subscribe", s)' => Wrote("Subscribe", s) \/ s \in channels'
  PROVE  SubMessages(s)'
<1>1. /\ Has(readCh, "MESSAGE", s)' <=> Has(readCh, "MESSAGE", s)
      /\ Has(readCh, "RECEIPT", s)' <=> Has(readCh, "RECEIPT", s)
      /\ LastIn(readCh, s)' <=> LastIn(readCh, s)
  BY ReadChHas
<1>2. /\ Has(network, "MESSAGE", s)' <=> Has(network, "MESSAGE", s)
      /\ Has(network, "RECEIPT", s)' <=> Has(network, "RECEIPT", s)
      /\ LastIn(network, s)' <=> LastIn(network, s)
  BY NetworkHas
<1>3. Handled("Unsubscribe", s) => Handled("Unsubscribe", s)'
  BY HandledGrows
<1> QED
  BY <1>1, <1>2, <1>3 DEF SubMessages

\* The steps of readLoop and of the server.
LEMMA OutsideMessages ==
  ASSUME CInv, Next, NEW s \in Sub \ ReplyTo, SubMessages(s), ReadLoop \/ Server
  PROVE  SubMessages(s)'
<1>0. readCh \in Seq(Frame) /\ network \in Seq(Frame) /\ PeerTypes
  BY TypeParts DEF CInv, TypeOK
<1>1. UNCHANGED <<channels, wire>>
  BY OutsideFrame DEF loopVars
<1>2. Wrote("Subscribe", s)' <=> Wrote("Subscribe", s)
  BY <1>1 DEF Wrote
<1>3. Handled("Unsubscribe", s) => Handled("Unsubscribe", s)'
  BY HandledGrows
<1>4. CASE UNCHANGED <<readCh, network>>
  BY <1>1, <1>2, <1>4, MessagesKept
<1>5. CASE ReadFrame
  <2>1. network /= <<>> /\ readCh' = Append(readCh, Head(network)) /\ network' = Tail(network)
    BY <1>5 DEF ReadFrame
  <2>2. PICK f : f = Head(network)
    OBVIOUS
  <2>3. f \in Frame /\ readCh' = Append(readCh, f)
    BY <1>0, <2>1, <2>2, TakeFirst
  <2>4. /\ \A cmd : Has(Tail(network), cmd, s) \/ Bears(f, cmd, s) => Has(network, cmd, s)
        /\ LastIn(Tail(network), s)
        /\ Bears(f, "RECEIPT", s) => ~Has(network, "MESSAGE", s)
    BY <1>0, <2>1, <2>2, HasTake DEF SubMessages
  <2>5. /\ \A cmd : Has(Append(readCh, f), cmd, s) <=> Has(readCh, cmd, s) \/ Bears(f, cmd, s)
        /\ LastIn(Append(readCh, f), s)
    BY <1>0, <2>3, <2>4, HasPut DEF SubMessages
  <2>6. /\ Has(readCh, "MESSAGE", s)' <=> Has(readCh, "MESSAGE", s) \/ Bears(f, "MESSAGE", s)
        /\ Has(readCh, "RECEIPT", s)' <=> Has(readCh, "RECEIPT", s) \/ Bears(f, "RECEIPT", s)
        /\ LastIn(readCh, s)'
    BY <2>3, <2>5, ReadChHas
  <2>7. /\ Has(network, "MESSAGE", s)' => Has(network, "MESSAGE", s)
        /\ Has(network, "RECEIPT", s)' => Has(network, "RECEIPT", s)
        /\ LastIn(network, s)'
    BY <2>1, <2>4, NetworkHas
  <2> QED
    BY <1>1, <1>2, <1>3, <2>4, <2>6, <2>7 DEF SubMessages
<1>6. CASE ReadFails
  BY <1>4, <1>6 DEF ReadFails, peerVars
<1>7. CASE Server
  <2>1. readCh' = readCh
    BY <1>7 DEF Server, ServerHandles, ServerFault, ServerMessage, chanVars
  <2>2. ASSUME NEW f \in Frame, network' = Append(network, f), ServerSends(f)
        PROVE  SubMessages(s)'
    <3>1. Bears(f, "RECEIPT", s) => Handled("Unsubscribe", s)'
      BY <2>2 DEF ServerSends
    <3>2. ASSUME Bears(f, "MESSAGE", s) PROVE s \in channels /\ ~Handled("Unsubscribe", s)
      <4>1. Handled("Subscribe", s) /\ ~Handled("Unsubscribe", s)
        BY <2>2, <3>2 DEF ServerSends, ServerSub, Bears
      <4>2. PICK i \in 1..served : Op[wire[i]] = "Subscribe" /\ SubOf[wire[i]] = s
        BY <4>1 DEF Handled
      <4>3. i \in DOMAIN wire
        BY <1>0 DEF PeerTypes
      <4>4. Wrote("Subscribe", s)
        BY <4>2, <4>3 DEF Wrote
      <4> QED
        BY <4>1, <4>4 DEF SubMessages
    <3>3. /\ \A cmd : Has(Append(network, f), cmd, s) <=> Has(network, cmd, s) \/ Bears(f, cmd, s)
          /\ LastIn(Append(network, f), s)
      BY <1>0, <3>2, HasPut DEF SubMessages
    <3>4. /\ Has(network, "MESSAGE", s)' <=> Has(network, "MESSAGE", s) \/ Bears(f, "MESSAGE", s)
          /\ Has(network, "RECEIPT", s)' <=> Has(network, "RECEIPT", s) \/ Bears(f, "RECEIPT", s)
          /\ LastIn(network, s)'
      BY <2>2, <3>3, NetworkHas
    <3>5. /\ Has(readCh, "MESSAGE", s)' <=> Has(readCh, "MESSAGE", s)
          /\ Has(readCh, "RECEIPT", s)' <=> Has(readCh, "RECEIPT", s)
          /\ LastIn(readCh, s)' <=> LastIn(readCh, s)
      BY <2>1, ReadChHas
    <3> QED
      BY <1>1, <1>2, <1>3, <3>1, <3>2, <3>4, <3>5 DEF SubMessages
  <2> QED
    BY <1>4, <1>7, <2>1, <2>2, ServerSendsOne
<1> QED
  BY <1>5, <1>6, <1>7 DEF ReadLoop

\* The steps of processLoop: it forgets s only when it takes the answer to its UNSUBSCRIBE.
LEMMA LoopMessages ==
  ASSUME CInv, Next, NEW s \in Sub \ ReplyTo, SubMessages(s), LoopStep
  PROVE  SubMessages(s)'
<1>0. readCh \in Seq(Frame) /\ network \in Seq(Frame) /\ LoopTypes /\ wire \in Seq(Call)
  BY TypeParts DEF CInv, TypeOK
<1>1. UNCHANGED <<network, served>>
  BY LoopFrame DEF peerVars
<1>2. Handled("Unsubscribe", s) => Handled("Unsubscribe", s)'
  BY HandledGrows
<1>3. CASE ConnectionClosed \/ WriteChannelClosed \/ HeartBeatFails \/ LoopDisconnects \/ LoopFails
  <2>1. UNCHANGED <<channels, readCh, wire>>
    BY <1>3 DEF ConnectionClosed, WriteChannelClosed, HeartBeatFails, LoopDisconnects, LoopFails,
                chanVars
  <2>2. Wrote("Subscribe", s)' <=> Wrote("Subscribe", s)
    BY <2>1 DEF Wrote
  <2> QED
    BY <1>1, <2>1, <2>2, MessagesKept
<1>4. ASSUME NEW k, HandleRequest(k) PROVE SubMessages(s)'
  <2>1. readCh' = readCh /\ writeCh /= <<>> /\ k = Head(writeCh)
    BY <1>4 DEF HandleRequest, WriteRequest, WriteFails, SubscribeLocal, UnsubscribeLocal,
                TakeRequest
  <2>2. k \in Call
    BY <1>0, <2>1, TakeFirst DEF LoopTypes
  <2>3. s \in channels => s \in channels'
    BY <1>4 DEF HandleRequest, WriteRequest, WriteFails, SubscribeLocal, UnsubscribeLocal, Local
  <2>4. CASE wire' = wire
    <3>1. Wrote("Subscribe", s)' <=> Wrote("Subscribe", s)
      BY <2>4 DEF Wrote
    <3> QED
      BY <1>1, <2>1, <2>3, <3>1, MessagesKept
  <2>5. CASE wire' /= wire
    <3>1. wire' = Append(wire, k) /\ channels' = channels \cup Remember(k)
      BY <1>4, <2>5 DEF HandleRequest, WriteRequest, WriteFails, SubscribeLocal, UnsubscribeLocal
    <3>2. ASSUME Wrote("Subscribe", s)' PROVE Wrote("Subscribe", s) \/ s \in channels'
      <4>1. PICK i \in DOMAIN wire' : Op[wire'[i]] = "Subscribe" /\ SubOf[wire'[i]] = s
        BY <3>2 DEF Wrote
      <4>2. /\ Len(wire) \in Nat /\ DOMAIN wire = 1..Len(wire) /\ DOMAIN wire' = 1..(Len(wire) + 1)
            /\ \A j \in 1..Len(wire) : wire'[j] = wire[j]
            /\ wire'[Len(wire) + 1] = k
        BY <1>0, <2>2, <3>1, PutLast
      <4>3. CASE i = Len(wire) + 1
        BY <3>1, <4>1, <4>2, <4>3 DEF Remember
      <4>4. CASE i \in DOMAIN wire
        BY <4>1, <4>2, <4>4 DEF Wrote
      <4> QED
        BY <4>1, <4>2, <4>3, <4>4
    <3> QED
      BY <1>1, <2>1, <2>3, <3>2, MessagesKept
  <2> QED
    BY <2>4, <2>5
<1>5. ASSUME NEW f, HandleFrame(f) PROVE SubMessages(s)'
  <2>1. readCh /= <<>> /\ f = Head(readCh) /\ readCh' = Tail(readCh) /\ wire' = wire
    BY <1>5 DEF HandleFrame, HandleReceipt, HandleBadReceipt, HandleMessage, HandleError,
                TakeFrame
  <2>2. Wrote("Subscribe", s)' <=> Wrote("Subscribe", s)
    BY <2>1 DEF Wrote
  <2>3. /\ \A cmd : Has(Tail(readCh), cmd, s) \/ Bears(f, cmd, s) => Has(readCh, cmd, s)
        /\ LastIn(Tail(readCh), s)
        /\ Bears(f, "RECEIPT", s) => ~Has(readCh, "MESSAGE", s)
    BY <1>0, <2>1, HasTake DEF SubMessages
  <2>4. /\ Has(readCh, "MESSAGE", s)' => Has(readCh, "MESSAGE", s)
        /\ Has(readCh, "RECEIPT", s)' => Has(readCh, "RECEIPT", s)
        /\ LastIn(readCh, s)'
    BY <2>1, <2>3, ReadChHas
  <2>5. /\ Has(network, "MESSAGE", s)' <=> Has(network, "MESSAGE", s)
        /\ Has(network, "RECEIPT", s)' <=> Has(network, "RECEIPT", s)
        /\ LastIn(network, s)' <=> LastIn(network, s)
    BY <1>1, NetworkHas
  <2>6. CASE Bears(f, "RECEIPT", s)
    <3>1. /\ ~Has(readCh, "MESSAGE", s) /\ ~Has(network, "MESSAGE", s)
          /\ Handled("Unsubscribe", s)
      BY <2>3, <2>6 DEF SubMessages
    <3> QED
      BY <1>2, <2>2, <2>4, <2>5, <3>1 DEF SubMessages
  <2>7. CASE ~Bears(f, "RECEIPT", s)
    <3>1. s \in channels => s \in channels'
      BY <1>5, <2>7 DEF HandleFrame, HandleReceipt, HandleBadReceipt, HandleMessage, HandleError,
                        AfterReceipt, Bears
    <3> QED
      BY <1>2, <2>2, <2>4, <2>5, <3>1 DEF SubMessages
  <2> QED
    BY <2>6, <2>7
<1> QED
  BY <1>3, <1>4, <1>5 DEF LoopStep, ReadEvent, WriteEvent

\* Nobody else touches the frames or what processLoop knows.
LEMMA MessageStep ==
  ASSUME MInv, Next PROVE MessageInv'
<1>0. CInv
  BY DEF MInv
<1>1. ASSUME NEW s \in Sub \ ReplyTo PROVE SubMessages(s)'
  <2>0. SubMessages(s)
    BY DEF MInv, MessageInv
  <2>1. CASE ReadLoop \/ Server
    BY <1>0, <2>0, <2>1, OutsideMessages
  <2>2. CASE LoopStep
    BY <1>0, <2>0, <2>2, LoopMessages
  <2>3. ASSUME UNCHANGED <<readCh, network, channels, wire>> PROVE SubMessages(s)'
    <3>1. Wrote("Subscribe", s)' <=> Wrote("Subscribe", s)
      BY <2>3 DEF Wrote
    <3> QED
      BY <1>0, <2>0, <2>3, <3>1, MessagesKept
  <2>4. ASSUME NEW k \in Call, OwnStep(k) \/ Answer(k) PROVE SubMessages(s)'
    BY <2>3, <2>4, OwnFrame, ReceiptFrames DEF loopVars, chanVars, peerVars
  <2>5. ASSUME NEW t \in Sub, SubStep(t) \/ ReceiveFrame(t) PROVE SubMessages(s)'
    BY <2>3, <2>5, SubFrame, ReceiptFrames DEF loopVars, chanVars, peerVars
  <2> QED
    BY <2>1, <2>2, <2>4, <2>5, StepKinds
<1> QED
  BY <1>1, PlainStep, HeldStep DEF MessageInv

\* Messages on their way, in order.
OrderInv == \A s \in Sub \ ReplyTo : OnPath(s)

\* In the beginning there is no message.
LEMMA MessageInit ==
  ASSUME Init PROVE MessageInv /\ OrderInv
<1>1. /\ readCh = <<>> /\ network = <<>> /\ wire = <<>> /\ loop = "select"
      /\ \A s \in Sub : got[s] = <<>> /\ C[s] = <<>> /\ held[s] = 0 /\ sentTo[s] = 0
  BY DEF Init
<1>2. \A q : q = <<>> => DOMAIN q = {}
  OBVIOUS
<1>3. ASSUME NEW s PROVE SubMessages(s)
  BY <1>1, <1>2 DEF SubMessages, Has, LastIn, Wrote
<1>4. PlainInv /\ HeldInv
  BY <1>1, <1>2 DEF PlainInv, HeldInv
<1>5. Covers(<<>>, 0, 0) /\ NextOne(0, 0, 0)
  BY DEF Covers, NextOne
<1>6. Chain(<<>>, <<>>, 0, 0, <<>>, <<>>, 0)
  BY <1>5 DEF Chain
<1>7. ASSUME NEW s \in Sub PROVE OnPath(s)
  <2>1. Offered(s) = 0
    BY <1>1 DEF Offered
  <2>2. Numbers(<<>>, s) = <<>>
    BY DEF Numbers
  <2> QED
    BY <1>1, <1>6, <2>1, <2>2 DEF OnPath
<1> QED
  BY <1>3, <1>4, <1>7 DEF MessageInv, OrderInv

\* MInv: processLoop knows a subscription as long as there is a message for it, and
\* the answer to UNSUBSCRIBE is the last frame for it.
THEOREM MessageInvariance == Spec => [](MInv /\ OrderInv)
<1>1. Init => MInv /\ OrderInv
  BY InvInit, MessageInit DEF MInv
<1>2. MInv /\ OrderInv /\ [Next]_vars /\ CInv' => MInv' /\ OrderInv'
  <2>1. ASSUME MInv, OrderInv, Next, CInv' PROVE MInv' /\ OrderInv'
    <3>1. MInv'
      BY <2>1, MessageStep DEF MInv
    <3>2. OrderInv'
      BY <2>1, OrderStep DEF OrderInv
    <3> QED
      BY <3>1, <3>2
  <2>2. ASSUME MInv, OrderInv, UNCHANGED vars PROVE MInv' /\ OrderInv'
    <3> USE DEF vars, lockVars, loopVars, chanVars, callVars, subVars, peerVars
    <3>1. CInv'
      BY <2>2, InvStutter DEF MInv
    <3>2. MessageInv'
      <4>1. PlainInv' /\ HeldInv'
        BY <2>2 DEF MInv, MessageInv, PlainInv, HeldInv, Plain
      <4>2. ASSUME NEW s \in Sub \ ReplyTo PROVE SubMessages(s)'
        BY <2>2 DEF MInv, MessageInv, SubMessages, Has, LastIn, Wrote, Handled, Bears
      <4> QED
        BY <4>1, <4>2 DEF MessageInv
    <3>3. ASSUME NEW s \in Sub \ ReplyTo PROVE OnPath(s)'
      <4>1. Offered(s)' = Offered(s)
        BY <2>2, OfferedNext
      <4>2. Numbers(readCh, s)' = Numbers(readCh, s) /\ Numbers(network, s)' = Numbers(network, s)
        BY <2>2 DEF Numbers, Number
      <4> QED
        BY <2>2, <4>1, <4>2 DEF OrderInv, OnPath
    <3> QED
      BY <3>1, <3>2, <3>3 DEF MInv, OrderInv
  <2> QED
    BY <2>1, <2>2
<1> QED
  BY <1>1, <1>2, ClientInvariance, PTL DEF Spec

\* MessagesInOrder: what readLoop, processLoop and the readLoop of a subscription have
\* between the server and the application is every message that the server sent, once
\* and in its order, also when UNSUBSCRIBE and messages cross.
THEOREM MessagesStayInOrder == Spec => []MessagesInOrder
<1>1. OrderInv => MessagesInOrder
  BY ChainInOrder DEF OrderInv, OnPath, MessagesInOrder, Path
<1> QED
  BY <1>1, MessageInvariance, PTL

=============================================================================
