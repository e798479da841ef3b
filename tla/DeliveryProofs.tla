--------------------------- MODULE DeliveryProofs ---------------------------
(***************************************************************************)
(* Nothing is lost, nothing comes back, and which panics there are.  What  *)
(* the history says of a frame or a Subscription object is true of the     *)
(* lists and channels (HeldInv).  IInv says that a container holds nothing *)
(* else; together they tie the two so closely that the place of a frame    *)
(* can be read off its history.  From IInv also follows that a frame which *)
(* is settled rests (SettledStays), and from ListedInv, which says when    *)
(* s.subList is set, that the server has no other panics than the known    *)
(* ones (PanicsAreKnown).  Once the processor waits for a connection that  *)
(* will not make room, it waits for ever (DeadEndsAreFinal).               *)
(***************************************************************************)
EXTENDS ServerProofs

-----------------------------------------------------------------------------
(* What a list still holds after a step *)

\* Receiving from a channel leaves the other elements in it.
LEMMA TailKeeps ==
    ASSUME NEW S, NEW seq \in Seq(S), seq /= <<>>
    PROVE  \A k \in DOMAIN seq :
             seq[k] = Head(seq) \/ \E j \in DOMAIN Tail(seq) : Tail(seq)[j] = seq[k]
<1> SUFFICES ASSUME NEW k \in DOMAIN seq, k /= 1
             PROVE  \E j \in DOMAIN Tail(seq) : Tail(seq)[j] = seq[k]
  OBVIOUS
<1>1. k - 1 \in DOMAIN Tail(seq) /\ Tail(seq)[k - 1] = seq[k]
  OBVIOUS
<1> QED
  BY <1>1

\* A send on a channel, or an addition at the end of a list.
LEMMA AppendKeeps ==
    ASSUME NEW S, NEW seq \in Seq(S), NEW v \in S, NEW l, l = Append(seq, v)
    PROVE  /\ \A k \in DOMAIN seq : \E j \in DOMAIN l : l[j] = seq[k]
           /\ \E j \in DOMAIN l : l[j] = v
<1>1. /\ \A k \in DOMAIN seq : k \in DOMAIN l /\ l[k] = seq[k]
      /\ Len(seq) + 1 \in DOMAIN l /\ l[Len(seq) + 1] = v
  OBVIOUS
<1> QED
  BY <1>1

\* A removal from a SubscriptionList.
LEMMA RemoveKeeps ==
    ASSUME NEW S, NEW seq \in Seq(S), NEW i \in DOMAIN seq
    PROVE  \A k \in DOMAIN seq : seq[k] = seq[i] \/
             \E j \in DOMAIN RemoveAt(seq, i) : RemoveAt(seq, i)[j] = seq[k]
<1> DEFINE r == RemoveAt(seq, i)
<1> SUFFICES ASSUME NEW k \in DOMAIN seq, k /= i
             PROVE  \E j \in DOMAIN r : r[j] = seq[k]
  OBVIOUS
<1>1. r \in Seq(S) /\ Len(r) = Len(seq) - 1
      /\ \A l \in 1..(Len(seq) - 1) : r[l] = IF l < i THEN seq[l] ELSE seq[l + 1]
  BY RemoveAtFacts
<1> HIDE DEF r
<1>2. CASE k < i
  <2>1. k \in DOMAIN r /\ r[k] = seq[k]
    BY <1>1, <1>2
  <2> QED
    BY <2>1
<1>3. CASE k > i
  <2>1. k - 1 \in DOMAIN r /\ r[k - 1] = seq[k]
    BY <1>1, <1>3
  <2> QED
    BY <2>1
<1>4. k < i \/ k > i
  OBVIOUS
<1> QED
  BY <1>2, <1>3, <1>4

-----------------------------------------------------------------------------
(* Frames and objects that a step does not move *)

\* The container that holds frame m still holds it after the step.
FrameStays(m) ==
    /\ \A t \in Tx : msgAt[m].by = "tx" /\ msgAt[m].who = t /\ TxHas(t, m) => TxHas(t, m)'
    /\ \A c \in Conn : msgAt[m].by = "work" /\ WorkHas(c, m) => WorkHas(c, m)'
    /\ \A c \in Conn : msgAt[m].by = "out" /\ OutHas(c, m) => OutHas(c, m)'
    /\ msgAt[m].by = "request" /\ RequestHas(m) => RequestHas(m)'
    /\ \A q \in Queue : msgAt[m].by = "store" /\ StoreHas(q, m) => StoreHas(q, m)'

\* The container that holds the loaded object s still holds it after the step.
SubStays(s) ==
    /\ subAt[s] = "sending" /\ ProcHas(s) => ProcHas(s)'
    /\ subAt[s] = "subCh" /\ SubChHas(s) => SubChHas(s)'
    /\ subAt[s] = "unacked" /\ SubListHas(s) => SubListHas(s)'

\* A step keeps HeldInv when the frames M and the objects S that it moves arrive,
\* the others stay, and an object moves together with its frame.
LEMMA HeldStep ==
    ASSUME HeldInv, ~crashed, NEW M, NEW S,
           \A m \in Msg : m \in M \/ (msgAt'[m] = msgAt[m] /\ FrameStays(m)),
           \A s \in Sub : s \in S \/ (/\ subAt'[s] = subAt[s] /\ frame'[s] = frame[s]
                                     /\ SubStays(s)),
           \A s \in Sub : s \in S => frame[s] = nil \/ frame[s] \in M,
           \A m \in Msg : m \in M => MsgHeld(m)',
           \A s \in Sub : s \in S => SubHeld(s)'
    PROVE  HeldInv'
<1>1. ASSUME NEW m \in Msg, m \notin M PROVE MsgHeld(m)'
  <2>1. msgAt'[m] = msgAt[m] /\ FrameStays(m) /\ MsgHeld(m) /\ m /= nil
    BY <1>1, PoolAssumption DEF HeldInv
  <2>2. \A s \in Sub : frame[s] = m => frame'[s] = m /\ subAt'[s] = subAt[s]
    BY <1>1, <2>1
  <2> QED
    BY <2>1, <2>2 DEF MsgHeld, FrameStays, WriteFailed
<1>2. ASSUME NEW s \in Sub, s \notin S PROVE SubHeld(s)'
  BY <1>2 DEF SubHeld, SubStays, HeldInv
<1> QED
  BY <1>1, <1>2 DEF HeldInv

\* Containers that a step does not change hold what they held.
LEMMA SameContainers ==
    ASSUME NEW m \in Msg
    PROVE  /\ UNCHANGED tx => \A t \in Tx : TxHas(t, m) => TxHas(t, m)'
           /\ UNCHANGED work => \A c \in Conn : WorkHas(c, m) => WorkHas(c, m)'
           /\ UNCHANGED out => \A c \in Conn : OutHas(c, m) => OutHas(c, m)'
           /\ UNCHANGED reqCh => (RequestHas(m) => RequestHas(m)')
           /\ UNCHANGED store => \A q \in Queue : StoreHas(q, m) => StoreHas(q, m)'
BY DEF TxHas, WorkHas, OutHas, RequestHas, StoreHas

LEMMA SameLists ==
    ASSUME NEW s \in Sub
    PROVE  /\ UNCHANGED procOut => (ProcHas(s) => ProcHas(s)')
           /\ UNCHANGED subCh => (SubChHas(s) => SubChHas(s)')
           /\ UNCHANGED subList => (SubListHas(s) => SubListHas(s)')
BY DEF ProcHas, SubChHas, SubListHas

\* A request that the processor takes leaves the frames of the others in the channel.
LEMMA TakeKeeps ==
    ASSUME TypeOK, NEW r, Take(r), NEW m \in Msg, r.frame /= m, RequestHas(m)
    PROVE  RequestHas(m)'
<1>1. reqCh \in Seq(Request) /\ reqCh /= <<>> /\ r = Head(reqCh) /\ reqCh' = Tail(reqCh)
  BY DEF TypeOK, Take
<1> QED
  BY <1>1, TailKeeps DEF RequestHas

\* A connection that starts to send requests had none to send.
LEMMA FreshOut ==
    ASSUME TypeOK, NEW c \in Conn, out[c] = <<>>, NEW rs, out' = [out EXCEPT ![c] = rs],
           NEW m \in Msg, NEW d \in Conn, OutHas(d, m)
    PROVE  OutHas(d, m)'
<1>1. d /= c
  BY DEF OutHas
<1>2. out'[d] = out[d]
  BY <1>1 DEF TypeOK
<1> QED
  BY <1>2 DEF OutHas

\* The store after one queue's list has changed without losing m.
LEMMA StoreKeeps ==
    ASSUME TypeOK, NEW q \in Queue, NEW l, store' = [store EXCEPT ![q] = l],
           NEW m \in Msg, NEW p \in Queue, StoreHas(p, m),
           \A k \in DOMAIN store[q] : store[q][k] = m => \E j \in DOMAIN l : l[j] = m
    PROVE  StoreHas(p, m)'
<1>1. store'[q] = l /\ (p /= q => store'[p] = store[p])
  BY DEF TypeOK
<1>2. CASE p = q
  BY <1>1, <1>2 DEF StoreHas
<1>3. CASE p /= q
  BY <1>1, <1>3 DEF StoreHas
<1> QED
  BY <1>2, <1>3

\* The frame m and the object s move; nil stands for nothing.
LEMMA OneMoves ==
    ASSUME HeldInv, ~crashed, NEW m, NEW s,
           \A x \in Msg : x /= m => msgAt'[x] = msgAt[x] /\ FrameStays(x),
           \A x \in Sub : x /= s =>
              subAt'[x] = subAt[x] /\ frame'[x] = frame[x] /\ SubStays(x),
           s \in Sub => (frame[s] = nil \/ frame[s] = m) /\ SubHeld(s)',
           m \in Msg => MsgHeld(m)'
    PROVE  HeldInv'
<1>1. /\ \A x \in Msg : x \in {m} \/ (msgAt'[x] = msgAt[x] /\ FrameStays(x))
      /\ \A x \in Sub : x \in {s} \/ (/\ subAt'[x] = subAt[x] /\ frame'[x] = frame[x]
                                      /\ SubStays(x))
      /\ \A x \in Sub : x \in {s} => frame[x] = nil \/ frame[x] \in {m}
      /\ \A x \in Msg : x \in {m} => MsgHeld(x)'
      /\ \A x \in Sub : x \in {s} => SubHeld(x)'
  OBVIOUS
<1> QED
  BY <1>1, HeldStep

\* While the processor takes requests it has nothing to deliver.
LEMMA NothingInProc ==
    ASSUME procOut = <<>> \/ UNCHANGED procOut, NEW s \in Sub, ProcHas(s)
    PROVE  ProcHas(s)'
BY DEF ProcHas

-----------------------------------------------------------------------------
(* Steps of the request processor *)

\* Queue.Subscribe: the first stored frame passes to s.
LEMMA SubscribeServedHolds ==
    ASSUME SInv, ~crashed, NEW q \in Queue, NEW s \in Sub, NEW m \in Msg,
           SubscribeServed(q, s, m)
    PROVE  HeldInv'
<1> DEFINE r == SubRequest("Subscribe", s)
<1>1. TypeOK /\ SubInv /\ MsgInv /\ RequestInv /\ HeldInv
  BY DEF SInv, IInv
<1>2. /\ Take(r) /\ SubDest[s] = q /\ m = Dequeue(q)
      /\ store' = [store EXCEPT ![q] = Tail(store[q])]
      /\ frame' = [frame EXCEPT ![s] = m]
      /\ procOut' = <<[sub |-> s, frame |-> m]>>
      /\ subAt' = [subAt EXCEPT ![s] = "sending"]
      /\ msgAt' = [msgAt EXCEPT ![m] = HeldBy("sub", s)]
      /\ UNCHANGED <<subCh, subList, out, work, tx>>
  BY DEF SubscribeServed, SendQueueFrame, AfterDequeue, connVars
<1>3. r.op = "Subscribe" /\ r.sub = s /\ r.frame = nil
  BY DEF SubRequest
<1> HIDE DEF r
<1>4. store[q] /= <<>> /\ m = Head(store[q]) /\ store[q] \in Seq(Msg)
  BY <1>1, <1>2, PoolAssumption DEF Dequeue, TypeOK
<1>5. subAt[s] = "request"
  BY <1>1, <1>2, <1>3, HeadFacts DEF SubInv, MsgInv
<1>6. frame[s] = nil
  BY <1>1, <1>5 DEF SubInv, FrameInv, FrameOf, Loaded
<1>7. ASSUME NEW x \in Msg, x /= m PROVE msgAt'[x] = msgAt[x] /\ FrameStays(x)
  <2>1. msgAt'[x] = msgAt[x]
    BY <1>1, <1>2, <1>7 DEF TypeOK
  <2>2. RequestHas(x) => RequestHas(x)'
    BY <1>1, <1>2, <1>3, TakeKeeps, PoolAssumption
  <2>3. \A p \in Queue : StoreHas(p, x) => StoreHas(p, x)'
    <3> DEFINE l == Tail(store[q])
    <3>1. \A k \in DOMAIN store[q] : store[q][k] = x => \E j \in DOMAIN l : l[j] = x
      BY <1>4, <1>7, TailKeeps
    <3>2. store' = [store EXCEPT ![q] = l]
      BY <1>2
    <3> HIDE DEF l
    <3> QED
      BY <1>1, <3>1, <3>2, StoreKeeps
  <2> QED
    BY <1>2, <2>1, <2>2, <2>3, SameContainers DEF FrameStays
<1>8. ASSUME NEW x \in Sub, x /= s
      PROVE  subAt'[x] = subAt[x] /\ frame'[x] = frame[x] /\ SubStays(x)
  <2>1. subAt'[x] = subAt[x] /\ frame'[x] = frame[x]
    BY <1>1, <1>2, <1>8 DEF TypeOK
  <2> QED
    BY <1>2, <2>1, NothingInProc, SameLists DEF SubStays, Take
<1>9. MsgHeld(m)'
  <2>1. msgAt'[m] = HeldBy("sub", s) /\ frame'[s] = m /\ subAt'[s] = "sending"
    BY <1>1, <1>2 DEF TypeOK
  <2> QED
    BY <2>1, HolderBy DEF MsgHeld, Loaded
<1>10. SubHeld(s)'
  <2>1. subAt'[s] = "sending"
    BY <1>1, <1>2 DEF TypeOK
  <2>2. ProcHas(s)'
    BY <1>2 DEF ProcHas
  <2> QED
    BY <2>1, <2>2 DEF SubHeld
<1> QED
  BY <1>1, <1>6, <1>7, <1>8, <1>9, <1>10, OneMoves

\* A request without a frame is taken; at most one object, which has no frame, is
\* put into or taken out of the subscriptions of a destination.
LEMMA PlainRequestTaken ==
    ASSUME SInv, ~crashed, NEW r, Take(r), r.frame = nil, NEW s,
           UNCHANGED <<store, procOut, subCh, subList, out, work, tx, frame, msgAt>>,
           \A x \in Sub : x /= s => subAt'[x] = subAt[x],
           s \in Sub => frame[s] = nil /\ subAt'[s] \notin Loaded
    PROVE  HeldInv'
<1>1. TypeOK /\ HeldInv
  BY DEF SInv, IInv
<1>2. \A x \in Msg : FrameStays(x)
  BY <1>1, TakeKeeps, SameContainers, PoolAssumption DEF FrameStays
<1>3. \A x \in Sub : SubStays(x)
  BY SameLists DEF SubStays
<1>4. s \in Sub => SubHeld(s)'
  BY DEF SubHeld, Loaded
<1>5. nil \notin Msg
  BY PoolAssumption
<1> QED
  BY <1>1, <1>2, <1>3, <1>4, <1>5, OneMoves

\* Queue.Subscribe: s joins the ready subscriptions of its queue.
LEMMA SubscribeWaitsHolds ==
    ASSUME SInv, ~crashed, NEW q \in Queue, NEW s \in Sub, SubscribeWaits(q, s)
    PROVE  HeldInv'
<1> DEFINE r == SubRequest("Subscribe", s)
<1>1. TypeOK /\ SubInv /\ MsgInv /\ RequestInv
  BY DEF SInv, IInv
<1>2. /\ Take(r) /\ subAt' = [subAt EXCEPT ![s] = "ready"]
      /\ UNCHANGED <<store, procOut, subCh, subList, out, work, tx, frame, msgAt>>
  BY DEF SubscribeWaits, connVars
<1>3. r.op = "Subscribe" /\ r.sub = s /\ r.frame = nil
  BY DEF SubRequest
<1> HIDE DEF r
<1>4. subAt[s] = "request"
  BY <1>1, <1>2, <1>3, HeadFacts DEF SubInv, MsgInv
<1>5. frame[s] = nil
  BY <1>1, <1>4 DEF SubInv, FrameInv, FrameOf, Loaded
<1>6. subAt'[s] \notin Loaded /\ \A x \in Sub : x /= s => subAt'[x] = subAt[x]
  BY <1>1, <1>2 DEF TypeOK, Loaded
<1> QED
  BY <1>2, <1>3, <1>5, <1>6, PlainRequestTaken

\* Topic.Subscribe: s joins the subscriptions of its topic.
LEMMA TopicSubscribeHolds ==
    ASSUME SInv, ~crashed, NEW t \in Topic, NEW s \in Sub, TopicSubscribe(t, s)
    PROVE  HeldInv'
<1> DEFINE r == SubRequest("Subscribe", s)
<1>1. TypeOK /\ SubInv /\ MsgInv /\ RequestInv
  BY DEF SInv, IInv
<1>2. /\ Take(r) /\ subAt' = [subAt EXCEPT ![s] = "topic"] /\ SubDest[s] = t
      /\ UNCHANGED <<store, procOut, subCh, subList, out, work, tx, frame, msgAt>>
  BY DEF TopicSubscribe, connVars
<1>3. r.frame = nil
  BY DEF SubRequest
<1> HIDE DEF r
<1>4. frame[s] = nil
  BY <1>1, <1>2 DEF SubInv, FrameInv, FrameOf
<1>5. subAt'[s] \notin Loaded /\ \A x \in Sub : x /= s => subAt'[x] = subAt[x]
  BY <1>1, <1>2 DEF TypeOK, Loaded
<1> QED
  BY <1>2, <1>3, <1>4, <1>5, PlainRequestTaken

\* Queue.Unsubscribe and Topic.Unsubscribe: s leaves the list, or is not in it.
LEMMA UnsubscribeHolds ==
    ASSUME SInv, ~crashed, NEW s \in Sub,
           \/ \E q \in Queue : \E i \in DOMAIN qsubs[q] : QueueUnsubscribe(q, s, i)
           \/ \E t \in Topic : \E i \in DOMAIN tsubs[t] : TopicUnsubscribe(t, s, i)
           \/ UnsubscribeAbsent(s)
    PROVE  HeldInv'
<1> DEFINE r == SubRequest("Unsubscribe", s)
<1>1. TypeOK /\ SubInv
  BY DEF SInv, IInv
<1>2. r.frame = nil
  BY DEF SubRequest
<1>3. CASE \E q \in Queue : \E i \in DOMAIN qsubs[q] : QueueUnsubscribe(q, s, i)
  <2>0. PICK q \in Queue : \E i \in DOMAIN qsubs[q] : QueueUnsubscribe(q, s, i)
    BY <1>3
  <2>1. PICK i \in DOMAIN qsubs[q] : QueueUnsubscribe(q, s, i)
    BY <2>0
  <2>2. /\ Take(r) /\ subAt' = [subAt EXCEPT ![s] = "gone"] /\ qsubs[q][i] = s
        /\ UNCHANGED <<store, procOut, subCh, subList, out, work, tx, frame, msgAt>>
    BY <2>1 DEF QueueUnsubscribe, FirstAt, connVars
  <2>3. subAt[s] = "ready"
    BY <1>1, <2>2 DEF SubInv, SubInReady, Lists
  <2>4. frame[s] = nil
    BY <1>1, <2>3 DEF SubInv, FrameInv, FrameOf, Loaded
  <2>5. subAt'[s] \notin Loaded /\ \A x \in Sub : x /= s => subAt'[x] = subAt[x]
    BY <1>1, <2>2 DEF TypeOK, Loaded
  <2> HIDE DEF r
  <2> QED
    BY <1>2, <2>2, <2>4, <2>5, PlainRequestTaken
<1>4. CASE \E t \in Topic : \E i \in DOMAIN tsubs[t] : TopicUnsubscribe(t, s, i)
  <2>0. PICK t \in Topic : \E i \in DOMAIN tsubs[t] : TopicUnsubscribe(t, s, i)
    BY <1>4
  <2>1. PICK i \in DOMAIN tsubs[t] : TopicUnsubscribe(t, s, i)
    BY <2>0
  <2>2. /\ Take(r) /\ subAt' = [subAt EXCEPT ![s] = "gone"] /\ SubDest[s] = t
        /\ UNCHANGED <<store, procOut, subCh, subList, out, work, tx, frame, msgAt>>
    BY <2>1 DEF TopicUnsubscribe, connVars
  <2>3. frame[s] = nil
    BY <1>1, <2>2 DEF SubInv, FrameInv, FrameOf
  <2>4. subAt'[s] \notin Loaded /\ \A x \in Sub : x /= s => subAt'[x] = subAt[x]
    BY <1>1, <2>2 DEF TypeOK, Loaded
  <2> HIDE DEF r
  <2> QED
    BY <1>2, <2>2, <2>3, <2>4, PlainRequestTaken
<1>5. CASE UnsubscribeAbsent(s)
  <2>1. /\ Take(r) /\ UNCHANGED subAt
        /\ UNCHANGED <<store, procOut, subCh, subList, out, work, tx, frame, msgAt>>
    BY <1>5 DEF UnsubscribeAbsent, procVars, connVars, objVars
  <2>2. nil \notin Sub /\ \A x \in Sub : x /= nil => subAt'[x] = subAt[x]
    BY <2>1, PoolAssumption
  <2> HIDE DEF r
  <2> QED
    BY <1>2, <2>1, <2>2, PlainRequestTaken
<1> QED
  BY <1>3, <1>4, <1>5

\* ConnectedOp, DisconnectedOp; a requeue to a topic does not occur.
LEMMA IgnoreRequestHolds ==
    ASSUME SInv, ~crashed, IgnoreRequest
    PROVE  HeldInv'
<1> DEFINE r == Head(reqCh)
<1>1. TypeOK /\ RequestInv
  BY DEF SInv, IInv
<1>2. /\ Take(r) /\ UNCHANGED subAt
      /\ UNCHANGED <<store, procOut, subCh, subList, out, work, tx, frame, msgAt>>
      /\ \/ r.op \in {"Connected", "Disconnected"}
         \/ r.op = "Requeue" /\ MsgDest[r.frame] \in Topic
  BY DEF IgnoreRequest, procVars, connVars, objVars
<1>3. WellFormed(r)
  BY <1>1, <1>2 DEF Take, RequestInv, TypeOK
<1>4. r.frame = nil
  BY <1>2, <1>3, PoolAssumption DEF WellFormed
<1>5. nil \notin Sub /\ \A x \in Sub : x /= nil => subAt'[x] = subAt[x]
  BY <1>2, PoolAssumption
<1> HIDE DEF r
<1> QED
  BY <1>2, <1>4, <1>5, PlainRequestTaken

\* Queue.Enqueue and Requeue: the frame passes from the request to the first ready
\* subscription.
LEMMA GiveToReadyHolds ==
    ASSUME SInv, ~crashed, NEW op \in {"Enqueue", "Requeue"}, NEW q \in Queue,
           NEW s \in Sub, NEW m \in Msg, GiveToReady(op, q, s, m)
    PROVE  HeldInv'
<1> DEFINE r == FrameRequest(op, m)
<1>1. TypeOK /\ SubInv /\ HeldInv
  BY DEF SInv, IInv
<1>2. /\ Take(r) /\ qsubs[q] /= <<>> /\ s = Head(qsubs[q])
      /\ frame' = [frame EXCEPT ![s] = m]
      /\ procOut' = <<[sub |-> s, frame |-> m]>>
      /\ subAt' = [subAt EXCEPT ![s] = "sending"]
      /\ msgAt' = [msgAt EXCEPT ![m] = HeldBy("sub", s)]
      /\ UNCHANGED <<store, subCh, subList, out, work, tx>>
  BY DEF GiveToReady, SendQueueFrame, connVars
<1>3. r.frame = m
  BY DEF FrameRequest
<1> HIDE DEF r
<1>4. subAt[s] = "ready"
  <2>1. qsubs \in [Queue -> Seq(Sub)] /\ Lists(qsubs, Queue, subAt, "ready", SubDest)
    BY <1>1 DEF TypeOK, SubInv, SubInReady
  <2> QED
    BY <1>2, <2>1, ListsHead
<1>5. frame[s] = nil
  BY <1>1, <1>4 DEF SubInv, FrameInv, FrameOf, Loaded
<1>6. ASSUME NEW x \in Msg, x /= m PROVE msgAt'[x] = msgAt[x] /\ FrameStays(x)
  <2>1. msgAt'[x] = msgAt[x]
    BY <1>1, <1>2, <1>6 DEF TypeOK
  <2>2. RequestHas(x) => RequestHas(x)'
    BY <1>1, <1>2, <1>3, <1>6, TakeKeeps
  <2> QED
    BY <1>2, <2>1, <2>2, SameContainers DEF FrameStays
<1>7. ASSUME NEW x \in Sub, x /= s
      PROVE  subAt'[x] = subAt[x] /\ frame'[x] = frame[x] /\ SubStays(x)
  <2>1. subAt'[x] = subAt[x] /\ frame'[x] = frame[x]
    BY <1>1, <1>2, <1>7 DEF TypeOK
  <2> QED
    BY <1>2, <2>1, NothingInProc, SameLists DEF SubStays, Take
<1>8. MsgHeld(m)'
  <2>1. msgAt'[m] = HeldBy("sub", s) /\ frame'[s] = m /\ subAt'[s] = "sending"
    BY <1>1, <1>2 DEF TypeOK
  <2> QED
    BY <2>1, HolderBy DEF MsgHeld, Loaded
<1>9. SubHeld(s)'
  <2>1. subAt'[s] = "sending"
    BY <1>1, <1>2 DEF TypeOK
  <2>2. ProcHas(s)'
    BY <1>2 DEF ProcHas
  <2> QED
    BY <2>1, <2>2 DEF SubHeld
<1> QED
  BY <1>1, <1>5, <1>6, <1>7, <1>8, <1>9, OneMoves

\* MemoryQueueStorage.Enqueue and Requeue keep what is stored.
LEMMA StoredAtAnEnd ==
    ASSUME NEW seq \in Seq(Msg), NEW m \in Msg, NEW l,
           l = Append(seq, m) \/ l = <<m>> \o seq
    PROVE  /\ \A k \in DOMAIN seq : \E j \in DOMAIN l : l[j] = seq[k]
           /\ \E j \in DOMAIN l : l[j] = m
<1>1. CASE l = Append(seq, m)
  <2>1. /\ \A k \in DOMAIN seq : k \in DOMAIN l /\ l[k] = seq[k]
        /\ Len(seq) + 1 \in DOMAIN l /\ l[Len(seq) + 1] = m
    BY <1>1
  <2> QED
    BY <2>1
<1>2. CASE l = <<m>> \o seq
  <2>1. \A k \in DOMAIN seq : k + 1 \in DOMAIN l /\ l[k + 1] = seq[k]
    BY <1>2
  <2>2. 1 \in DOMAIN l /\ l[1] = m
    BY <1>2
  <2> QED
    BY <2>1, <2>2
<1> QED
  BY <1>1, <1>2

\* Queue.Enqueue and Requeue without a ready subscription: the frame is stored at
\* one of the ends of the list.
LEMMA KeepHolds ==
    ASSUME SInv, ~crashed, NEW op \in {"Enqueue", "Requeue"}, NEW q \in Queue,
           NEW m \in Msg, NEW l, l = PushBack(store[q], m) \/ l = PushFront(store[q], m),
           Keep(op, q, m, l)
    PROVE  HeldInv'
<1> DEFINE r == FrameRequest(op, m)
<1>1. TypeOK /\ HeldInv
  BY DEF SInv, IInv
<1>2. /\ Take(r) /\ MsgDest[m] = q
      /\ store' = [store EXCEPT ![q] = l]
      /\ msgAt' = [msgAt EXCEPT ![m] = At("store")]
      /\ UNCHANGED <<procOut, subCh, subList, out, work, tx, frame, subAt>>
  BY DEF Keep, connVars
<1>3. r.frame = m
  BY DEF FrameRequest
<1> HIDE DEF r
<1>4. /\ \A k \in DOMAIN store[q] : \E j \in DOMAIN l : l[j] = store[q][k]
      /\ \E j \in DOMAIN l : l[j] = m
  <2>1. store[q] \in Seq(Msg)
    BY <1>1 DEF TypeOK
  <2>2. l = Append(store[q], m) \/ l = <<m>> \o store[q]
    BY DEF PushBack, PushFront
  <2> QED
    BY <2>1, <2>2, StoredAtAnEnd
<1>5. ASSUME NEW x \in Msg, x /= m PROVE msgAt'[x] = msgAt[x] /\ FrameStays(x)
  <2>1. msgAt'[x] = msgAt[x]
    BY <1>1, <1>2, <1>5 DEF TypeOK
  <2>2. RequestHas(x) => RequestHas(x)'
    BY <1>1, <1>2, <1>3, <1>5, TakeKeeps
  <2>3. \A p \in Queue : StoreHas(p, x) => StoreHas(p, x)'
    <3>1. \A k \in DOMAIN store[q] : store[q][k] = x => \E j \in DOMAIN l : l[j] = x
      BY <1>4
    <3> QED
      BY <1>1, <1>2, <3>1, StoreKeeps
  <2> QED
    BY <1>2, <2>1, <2>2, <2>3, SameContainers DEF FrameStays
<1>6. \A x \in Sub : subAt'[x] = subAt[x] /\ frame'[x] = frame[x] /\ SubStays(x)
  BY <1>2, SameLists DEF SubStays
<1>7. MsgHeld(m)'
  <2>1. msgAt'[m].by = "store"
    BY <1>1, <1>2, HolderBy DEF TypeOK
  <2>2. StoreHas(q, m)'
    BY <1>1, <1>2, <1>4 DEF StoreHas, TypeOK
  <2> QED
    BY <1>2, <2>1, <2>2 DEF MsgHeld
<1>8. nil \notin Sub
  BY PoolAssumption
<1> QED
  BY <1>1, <1>5, <1>6, <1>7, <1>8, OneMoves

\* Topic.Enqueue: the frame is the topic's, and is not promised to anybody.
LEMMA TopicEnqueueHolds ==
    ASSUME SInv, ~crashed, NEW t \in Topic, NEW m \in Msg, TopicEnqueue(t, m)
    PROVE  HeldInv'
<1> DEFINE r == FrameRequest("Enqueue", m)
<1>1. TypeOK /\ HeldInv
  BY DEF SInv, IInv
<1>2. /\ Take(r) /\ msgAt' = [msgAt EXCEPT ![m] = At("topic")]
      /\ UNCHANGED <<store, subCh, subList, out, work, tx, frame, subAt>>
  BY DEF TopicEnqueue, connVars
<1>3. r.frame = m
  BY DEF FrameRequest
<1> HIDE DEF r
<1>4. ASSUME NEW x \in Msg, x /= m PROVE msgAt'[x] = msgAt[x] /\ FrameStays(x)
  <2>1. msgAt'[x] = msgAt[x]
    BY <1>1, <1>2, <1>4 DEF TypeOK
  <2>2. RequestHas(x) => RequestHas(x)'
    BY <1>1, <1>2, <1>3, <1>4, TakeKeeps
  <2> QED
    BY <1>2, <2>1, <2>2, SameContainers DEF FrameStays
<1>5. \A x \in Sub : subAt'[x] = subAt[x] /\ frame'[x] = frame[x] /\ SubStays(x)
  BY <1>2, NothingInProc, SameLists DEF SubStays, Take
<1>6. MsgHeld(m)'
  <2>1. msgAt'[m].by = "topic"
    BY <1>1, <1>2, HolderBy DEF TypeOK
  <2> QED
    BY <2>1 DEF MsgHeld
<1>7. nil \notin Sub
  BY PoolAssumption
<1> QED
  BY <1>1, <1>4, <1>5, <1>6, <1>7, OneMoves

\* The end of SendQueueFrame: s passes to the channel of its connection.
LEMMA SendOnSubChannelHolds ==
    ASSUME SInv, ~crashed, NEW c \in Conn, NEW s \in Sub, SendOnSubChannel(c, s)
    PROVE  HeldInv'
<1>1. TypeOK /\ SubInv /\ HeldInv
  BY DEF SInv, IInv
<1>2. /\ procOut /= <<>> /\ s = Head(procOut).sub /\ SubConn[s] = c
      /\ SubDest[s] \in Queue
      /\ subCh' = [subCh EXCEPT ![c] = Append(@, s)]
      /\ subAt' = [subAt EXCEPT ![s] = "subCh"]
      /\ UNCHANGED <<reqCh, store, subList, out, work, tx, frame, msgAt>>
  BY DEF SendOnSubChannel, NextDelivery, connVars
<1>3. procOut \in Seq(Delivery) /\ 1 \in DOMAIN procOut /\ Head(procOut) = procOut[1]
  BY <1>1, <1>2 DEF TypeOK
<1>4. subAt[s] = "sending" /\ Len(procOut) = 1
  BY <1>1, <1>2, <1>3 DEF SubInv, SubInProc
<1>5. \A x \in Msg : msgAt'[x] = msgAt[x] /\ FrameStays(x)
  BY <1>2, SameContainers DEF FrameStays
<1>6. /\ \A d \in Conn : d /= c => subCh'[d] = subCh[d]
      /\ \A k \in DOMAIN subCh[c] : \E j \in DOMAIN subCh'[c] : subCh'[c][j] = subCh[c][k]
      /\ \E j \in DOMAIN subCh'[c] : subCh'[c][j] = s
  <2>1. subCh[c] \in Seq(Sub) /\ subCh'[c] = Append(subCh[c], s)
        /\ \A d \in Conn : d /= c => subCh'[d] = subCh[d]
    BY <1>1, <1>2 DEF TypeOK
  <2> QED
    BY <2>1, AppendKeeps
<1>7. ASSUME NEW x \in Sub, x /= s
      PROVE  subAt'[x] = subAt[x] /\ frame'[x] = frame[x] /\ SubStays(x)
  <2>1. subAt'[x] = subAt[x] /\ frame'[x] = frame[x]
    BY <1>1, <1>2, <1>7 DEF TypeOK
  <2>2. ~ProcHas(x)
    <3>1. \A i \in DOMAIN procOut : i = 1
      BY <1>3, <1>4
    <3> QED
      BY <1>2, <1>3, <1>7, <3>1 DEF ProcHas
  <2>3. SubChHas(x) => SubChHas(x)'
    <3>1. SubConn[x] \in Conn
      BY PoolAssumption
    <3>2. CASE SubConn[x] = c
      BY <1>6, <3>2 DEF SubChHas
    <3>3. CASE SubConn[x] /= c
      BY <1>6, <3>1, <3>3 DEF SubChHas
    <3> QED
      BY <3>2, <3>3
  <2> QED
    BY <1>2, <2>1, <2>2, <2>3, SameLists DEF SubStays
<1>8. SubHeld(s)'
  <2>1. subAt'[s] = "subCh"
    BY <1>1, <1>2 DEF TypeOK
  <2>2. SubChHas(s)'
    BY <1>2, <1>6 DEF SubChHas
  <2> QED
    BY <2>1, <2>2 DEF SubHeld
<1>9. PICK m \in Msg : m = frame[s] /\ msgAt[m] = HeldBy("sub", s)
  BY <1>1, <1>4 DEF SubInv, FrameInv, FrameOf, Loaded
<1>10. MsgHeld(m)'
  <2>1. subAt'[s] = "subCh"
    BY <1>1, <1>2 DEF TypeOK
  <2> QED
    BY <1>2, <1>9, <2>1, HolderBy DEF MsgHeld, Loaded
<1> QED
  BY <1>1, <1>5, <1>7, <1>8, <1>9, <1>10, OneMoves

\* The end of SendTopicFrame.
LEMMA SendOnWriteChannelHolds ==
    ASSUME SInv, ~crashed, NEW c \in Conn, NEW s \in Sub, SendOnWriteChannel(c, s)
    PROVE  HeldInv'
<1>1. TypeOK /\ SubInv /\ HeldInv
  BY DEF SInv, IInv
<1>2. /\ procOut /= <<>> /\ s = Head(procOut).sub /\ SubDest[s] \in Topic
      /\ UNCHANGED <<reqCh, store, subCh, subList, out, work, tx, frame, msgAt, subAt>>
  BY DEF SendOnWriteChannel, NextDelivery, connVars, objVars
<1>3. procOut \in Seq(Delivery) /\ 1 \in DOMAIN procOut /\ Head(procOut) = procOut[1]
  BY <1>1, <1>2 DEF TypeOK
<1>4. \A x \in Msg : msgAt'[x] = msgAt[x] /\ FrameStays(x)
  BY <1>2, SameContainers DEF FrameStays
<1>5. ASSUME NEW x \in Sub, subAt[x] = "sending", ProcHas(x) PROVE FALSE
  <2>1. SubDest[x] \in Queue
    BY <1>1, <1>5 DEF SubInv, FrameInv, FrameOf, Loaded
  <2>2. PICK i \in DOMAIN procOut : procOut[i].sub = x
    BY <1>5 DEF ProcHas
  <2>3. Len(procOut) = 1
    BY <1>1, <2>1, <2>2 DEF SubInv, SubInProc
  <2>4. i = 1
    BY <1>3, <2>3
  <2> QED
    BY <1>2, <1>3, <2>1, <2>2, <2>4, PoolAssumption
<1>6. \A x \in Sub : subAt'[x] = subAt[x] /\ frame'[x] = frame[x] /\ SubStays(x)
  BY <1>2, <1>5, SameLists DEF SubStays
<1>7. nil \notin Sub /\ nil \notin Msg
  BY PoolAssumption
<1> QED
  BY <1>1, <1>4, <1>6, <1>7, OneMoves

\* A SEND without destination: its frame goes down with the process, no other does.
LEMMA MissingDestinationHolds ==
    ASSUME SInv, ~crashed, NEW m \in Msg, MissingDestination(m)
    PROVE  HeldInv'
<1> DEFINE r == FrameRequest("Enqueue", m)
<1>1. TypeOK /\ HeldInv
  BY DEF SInv, IInv
<1>2. /\ Take(r) /\ MsgDest[m] = nil /\ crashed'
      /\ UNCHANGED <<store, procOut, subCh, subList, out, work, tx, frame, subAt, msgAt>>
  BY DEF MissingDestination, procVars, connVars, objVars
<1>3. r.frame = m
  BY DEF FrameRequest
<1> HIDE DEF r
<1>4. ASSUME NEW x \in Msg, x /= m PROVE MsgHeld(x)'
  <2>1. MsgHeld(x)
    BY <1>1, <1>4 DEF HeldInv
  <2>2. RequestHas(x) => RequestHas(x)'
    BY <1>1, <1>2, <1>3, <1>4, TakeKeeps
  <2> QED
    BY <1>2, <2>1, <2>2, SameContainers DEF MsgHeld, WriteFailed
<1>5. \A x \in Sub : SubHeld(x)'
  BY <1>1, <1>2, SameLists DEF HeldInv, SubHeld
<1> QED
  BY <1>2, <1>4, <1>5 DEF HeldInv

\* Every step of the request processor.
LEMMA ServeHolds ==
    ASSUME SInv, ~crashed, Serve PROVE HeldInv'
<1>1. ASSUME NEW q \in Queue, NEW s \in Sub, QueueSubscribe(q, s) PROVE HeldInv'
  BY <1>1, SubscribeServedHolds, SubscribeWaitsHolds DEF QueueSubscribe
<1>2. ASSUME NEW q \in Queue, NEW m \in Msg, QueueEnqueue(q, m) \/ QueueRequeue(q, m)
      PROVE  HeldInv'
  BY <1>2, GiveToReadyHolds, KeepHolds DEF QueueEnqueue, QueueRequeue
<1>3. ASSUME NEW m \in Msg, MissingDestination(m) PROVE HeldInv'
  BY <1>3, MissingDestinationHolds
<1> QED
  BY <1>1, <1>2, <1>3, UnsubscribeHolds, TopicSubscribeHolds, TopicEnqueueHolds,
     IgnoreRequestHolds, SendOnSubChannelHolds, SendOnWriteChannelHolds DEF Serve

-----------------------------------------------------------------------------
(* Steps of a connection that move no frame *)

\* Nothing changes hands; tx, work and out change without losing a frame.
LEMMA NothingMoved ==
    ASSUME SInv, ~crashed, UNCHANGED <<msgAt, subAt, frame, procOut, subCh, subList>>,
           \A m \in Msg : FrameStays(m)
    PROVE  HeldInv'
<1>1. HeldInv /\ nil \notin Msg /\ nil \notin Sub
  BY PoolAssumption DEF SInv
<1>2. \A x \in Sub : SubStays(x)
  BY SameLists DEF SubStays
<1> QED
  BY <1>1, <1>2, OneMoves

\* CONNECT, UNSUBSCRIBE and the same steps of the cleanup leave a request without
\* a frame; some steps leave nothing.
LEMMA AnnounceHolds ==
    ASSUME SInv, ~crashed, NEW c \in Conn,
           \/ Accept(c) \/ HandleDisconnect(c) \/ CleanupNext(c)
           \/ DiscardWriteChannelFrame(c) \/ WriteTopicFrame(c)
           \/ HandleConnect(c) \/ CleanupGoodbye(c)
           \/ \E s \in Sub : HandleUnsubscribe(c, s) \/ CleanupUnsubscribe(c, s)
    PROVE  HeldInv'
<1>1. TypeOK
  BY DEF SInv, IInv
<1>2. /\ UNCHANGED <<msgAt, subAt, frame, procOut, subCh, subList, tx, work, reqCh, store>>
      /\ UNCHANGED out \/ (out[c] = <<>> /\ \E rs : out' = [out EXCEPT ![c] = rs])
  <2>1. CASE \/ Accept(c) \/ HandleDisconnect(c) \/ CleanupNext(c)
             \/ DiscardWriteChannelFrame(c) \/ WriteTopicFrame(c)
    BY <2>1 DEF Accept, HandleDisconnect, CleanupNext, DiscardWriteChannelFrame,
       WriteTopicFrame, ReceiveTopicFrame, Elsewhere, Channels, procVars, connVars, objVars
  <2>2. CASE HandleConnect(c) \/ CleanupGoodbye(c)
    BY <2>2 DEF HandleConnect, CleanupGoodbye, InCleanup, Ready, Elsewhere, Channels,
       procVars, objVars
  <2>3. CASE \E s \in Sub : HandleUnsubscribe(c, s) \/ CleanupUnsubscribe(c, s)
    BY <2>3 DEF HandleUnsubscribe, CleanupUnsubscribe, Selecting, InCleanup, Ready,
       Elsewhere, Channels, procVars, objVars
  <2> QED
    BY <2>1, <2>2, <2>3
<1>3. \A m \in Msg, d \in Conn : OutHas(d, m) => OutHas(d, m)'
  BY <1>1, <1>2, FreshOut, SameContainers
<1>4. \A m \in Msg : FrameStays(m)
  BY <1>2, <1>3, SameContainers DEF FrameStays
<1> QED
  BY <1>2, <1>4, NothingMoved

\* SUBSCRIBE: a new object, without a frame.
LEMMA HandleSubscribeHolds ==
    ASSUME SInv, ~crashed, NEW c \in Conn, NEW s \in Sub, HandleSubscribe(c, s)
    PROVE  HeldInv'
<1>1. TypeOK /\ SubInv /\ HeldInv
  BY DEF SInv, IInv
<1>2. /\ out[c] = <<>> /\ subAt[s] = "none"
      /\ out' = [out EXCEPT ![c] = <<SubRequest("Subscribe", s)>>]
      /\ subAt' = [subAt EXCEPT ![s] = "out"]
      /\ UNCHANGED <<msgAt, frame, procOut, subCh, subList, tx, work, reqCh, store>>
  BY DEF HandleSubscribe, Selecting, Ready, Elsewhere, Channels, procVars
<1>3. \A m \in Msg, d \in Conn : OutHas(d, m) => OutHas(d, m)'
  BY <1>1, <1>2, FreshOut
<1>4. \A m \in Msg : msgAt'[m] = msgAt[m] /\ FrameStays(m)
  BY <1>2, <1>3, SameContainers DEF FrameStays
<1>5. \A x \in Sub : x /= s =>
         subAt'[x] = subAt[x] /\ frame'[x] = frame[x] /\ SubStays(x)
  <2>1. \A x \in Sub : x /= s => subAt'[x] = subAt[x] /\ frame'[x] = frame[x]
    BY <1>1, <1>2 DEF TypeOK
  <2> QED
    BY <1>2, <2>1, SameLists DEF SubStays
<1>6. frame[s] = nil
  BY <1>1, <1>2 DEF SubInv, FrameInv, FrameOf, Loaded
<1>7. SubHeld(s)'
  BY <1>1, <1>2 DEF SubHeld, TypeOK
<1>8. nil \notin Msg
  BY PoolAssumption
<1> QED
  BY <1>1, <1>4, <1>5, <1>6, <1>7, <1>8, OneMoves

\* txStore.Add keeps the frames of transaction t and adds f.
LEMMA TxAdded ==
    ASSUME TypeOK, NEW t \in Tx, tx[t] \in Seq(TxFrame), NEW f \in TxFrame,
           tx' = [tx EXCEPT ![t] = Append(tx[t], f)]
    PROVE  /\ \A m \in Msg, u \in Tx : TxHas(u, m) => TxHas(u, m)'
           /\ \A m \in Msg : f = SendFrame(m) => TxHas(t, m)'
<1>1. tx'[t] = Append(tx[t], f) /\ \A u \in Tx : u /= t => tx'[u] = tx[u]
  BY DEF TypeOK
<1>2. tx'[t] \in Seq(TxFrame)
  BY <1>1
<1>3. tx'[t] /= nil
  BY <1>2, NilAssumption
<1>4. /\ \A k \in DOMAIN tx[t] : \E j \in DOMAIN tx'[t] : tx'[t][j] = tx[t][k]
      /\ \E j \in DOMAIN tx'[t] : tx'[t][j] = f
  BY <1>1, AppendKeeps
<1>5. ASSUME NEW m \in Msg, NEW u \in Tx, TxHas(u, m) PROVE TxHas(u, m)'
  <2>1. CASE u = t
    BY <1>3, <1>4, <1>5, <2>1 DEF TxHas
  <2>2. CASE u /= t
    BY <1>1, <1>5, <2>2 DEF TxHas
  <2> QED
    BY <2>1, <2>2
<1> QED
  BY <1>3, <1>4, <1>5 DEF TxHas

\* BEGIN, and an ACK or NACK in a transaction.
LEMMA BeginHolds ==
    ASSUME SInv, ~crashed, NEW c \in Conn, NEW t \in Tx,
           \/ HandleBegin(c, t)
           \/ \E cmd \in {"ACK", "NACK"}, id \in AckIds : HandleAckInTx(c, cmd, id, t)
    PROVE  HeldInv'
<1>1. TypeOK
  BY DEF SInv, IInv
<1>2. /\ UNCHANGED <<msgAt, subAt, frame, procOut, subCh, subList, out, work, reqCh, store>>
      /\ \/ tx[t] = nil /\ tx' = [tx EXCEPT ![t] = <<>>]
         \/ /\ tx[t] /= nil
            /\ \E f \in TxFrame : tx' = [tx EXCEPT ![t] = Append(tx[t], f)]
  <2>1. CASE HandleBegin(c, t)
    BY <2>1 DEF HandleBegin, Elsewhere, Channels, procVars, objVars
  <2>2. ASSUME NEW cmd \in {"ACK", "NACK"}, NEW id \in AckIds, HandleAckInTx(c, cmd, id, t)
        PROVE  /\ UNCHANGED <<msgAt, subAt, frame, procOut, subCh, subList, out, work,
                              reqCh, store>>
               /\ tx[t] /= nil
               /\ \E f \in TxFrame : tx' = [tx EXCEPT ![t] = Append(tx[t], f)]
    <3>1. AckFrame(cmd, id) \in TxFrame
      BY FrameFacts, BoundAssumption
    <3> QED
      BY <2>2, <3>1 DEF HandleAckInTx, AddToTx, Elsewhere, Channels, procVars, objVars
  <2> QED
    BY <2>1, <2>2
<1>3. \A m \in Msg, u \in Tx : TxHas(u, m) => TxHas(u, m)'
  <2>1. CASE tx[t] = nil /\ tx' = [tx EXCEPT ![t] = <<>>]
    BY <1>1, <2>1 DEF TxHas, TypeOK
  <2>2. CASE tx[t] /= nil /\ \E f \in TxFrame : tx' = [tx EXCEPT ![t] = Append(tx[t], f)]
    <3>1. PICK f \in TxFrame : tx' = [tx EXCEPT ![t] = Append(tx[t], f)]
      BY <2>2
    <3>2. tx[t] \in Seq(TxFrame)
      BY <1>1, <2>2 DEF TypeOK
    <3> QED
      BY <1>1, <3>1, <3>2, TxAdded
  <2> QED
    BY <1>2, <2>1, <2>2
<1>4. \A m \in Msg : FrameStays(m)
  BY <1>2, <1>3, SameContainers DEF FrameStays
<1> QED
  BY <1>2, <1>4, NothingMoved

\* ACK or NACK outside a transaction: the connection had nothing to execute.
LEMMA HandleAckHolds ==
    ASSUME SInv, ~crashed, NEW c \in Conn, NEW cmd, NEW id, HandleAck(c, cmd, id)
    PROVE  HeldInv'
<1>1. TypeOK
  BY DEF SInv, IInv
<1>2. /\ UNCHANGED <<msgAt, subAt, frame, procOut, subCh, subList, tx, out, reqCh, store>>
      /\ work[c] = <<>> /\ \A d \in Conn : d /= c => work'[d] = work[d]
  BY <1>1 DEF HandleAck, Selecting, Ready, Elsewhere, Channels, procVars, objVars, TypeOK
<1>3. ASSUME NEW m \in Msg, NEW d \in Conn, WorkHas(d, m) PROVE WorkHas(d, m)'
  <2>1. d /= c
    BY <1>2, <1>3 DEF WorkHas
  <2> QED
    BY <1>2, <1>3, <2>1 DEF WorkHas
<1>4. \A m \in Msg : FrameStays(m)
  BY <1>2, <1>3, SameContainers DEF FrameStays
<1> QED
  BY <1>2, <1>4, NothingMoved

\* The connection goes on to the next frame to execute; the others stay.
LEMMA WorkAdvances ==
    ASSUME TypeOK, NEW c \in Conn, work[c] /= <<>>, work' = [work EXCEPT ![c] = Tail(@)],
           NEW m \in Msg, Head(work[c]) /= SendFrame(m), NEW d \in Conn, WorkHas(d, m)
    PROVE  WorkHas(d, m)'
<1>1. work[c] \in Seq(TxFrame)
  BY DEF TypeOK
<1>2. work'[c] = Tail(work[c]) /\ (d /= c => work'[d] = work[d])
  BY DEF TypeOK
<1>3. CASE d = c
  BY <1>1, <1>2, <1>3, TailKeeps DEF WorkHas
<1>4. CASE d /= c
  BY <1>2, <1>4 DEF WorkHas
<1> QED
  BY <1>3, <1>4

\* The end of an ACK or NACK.
LEMMA AckEndHolds ==
    ASSUME SInv, ~crashed, NEW c \in Conn, AckEnd(c)
    PROVE  HeldInv'
<1>1. TypeOK
  BY DEF SInv, IInv
<1>2. /\ UNCHANGED <<msgAt, subAt, frame, procOut, subCh, subList, tx, out, reqCh, store>>
      /\ work[c] /= <<>> /\ work' = [work EXCEPT ![c] = Tail(@)]
      /\ Head(work[c]).cmd \in {"ACK", "NACK"}
  BY DEF AckEnd, Elsewhere, Channels, procVars, objVars
<1>3. \A m \in Msg : Head(work[c]) /= SendFrame(m)
  BY <1>2 DEF SendFrame
<1>4. \A m \in Msg : FrameStays(m)
  BY <1>1, <1>2, <1>3, WorkAdvances, SameContainers DEF FrameStays
<1> QED
  BY <1>2, <1>4, NothingMoved

-----------------------------------------------------------------------------
(* Steps of a connection that move frames of transactions *)

\* Leaving the loop discards the frames of the connection's transactions, and no
\* others.
LEMMA ExitKeeps ==
    ASSUME NEW c \in Conn, Exit(c), UNCHANGED <<out, work, reqCh, store>>, NEW m \in Msg
    PROVE  \/ msgAt[m].by = "tx" /\ msgAt'[m] = At("discarded")
           \/ msgAt'[m] = msgAt[m] /\ FrameStays(m)
<1>1. /\ tx' = [t \in Tx |-> IF TxConn[t] = c THEN nil ELSE tx[t]]
      /\ msgAt'[m] = IF msgAt[m].by = "tx" /\ TxConn[msgAt[m].who] = c
                     THEN At("discarded") ELSE msgAt[m]
  BY DEF Exit
<1>2. CASE msgAt[m].by = "tx" /\ TxConn[msgAt[m].who] = c
  BY <1>1, <1>2
<1>3. CASE ~(msgAt[m].by = "tx" /\ TxConn[msgAt[m].who] = c)
  <2>1. \A t \in Tx : msgAt[m].by = "tx" /\ msgAt[m].who = t => tx'[t] = tx[t]
    BY <1>1, <1>3
  <2>2. \A t \in Tx : msgAt[m].by = "tx" /\ msgAt[m].who = t /\ TxHas(t, m) => TxHas(t, m)'
    BY <2>1 DEF TxHas
  <2> QED
    BY <1>1, <1>3, <2>2, SameContainers DEF FrameStays
<1> QED
  BY <1>2, <1>3

\* A frame that is discarded or settled is held by nobody.
LEMMA DoneIsHeld ==
    ASSUME NEW m \in Msg, msgAt'[m] = At("discarded") \/ msgAt'[m] = At("settled")
    PROVE  MsgHeld(m)'
<1>1. msgAt'[m].by \in {"discarded", "settled"}
  BY HolderBy
<1> QED
  BY <1>1 DEF MsgHeld

\* Only the frames M move.
LEMMA FramesMove ==
    ASSUME HeldInv, ~crashed, NEW M,
           \A x \in Msg : x \in M \/ (msgAt'[x] = msgAt[x] /\ FrameStays(x)),
           \A x \in Msg : x \in M => MsgHeld(x)',
           \A x \in Sub : subAt'[x] = subAt[x] /\ frame'[x] = frame[x] /\ SubStays(x)
    PROVE  HeldInv'
<1>1. PICK S : S = {}
  OBVIOUS
<1>2. /\ \A s \in Sub : s \in S \/ (/\ subAt'[s] = subAt[s] /\ frame'[s] = frame[s]
                                   /\ SubStays(s))
      /\ \A s \in Sub : s \in S => frame[s] = nil \/ frame[s] \in M
      /\ \A s \in Sub : s \in S => SubHeld(s)'
  BY <1>1
<1> QED
  BY <1>2, HeldStep

\* The loop is left because of a fault, or because a topic frame cannot be written.
LEMMA RejectHolds ==
    ASSUME SInv, ~crashed, NEW c \in Conn, Reject(c) \/ TopicWriteFails(c)
    PROVE  HeldInv'
<1> DEFINE M == {m \in Msg : msgAt'[m] = At("discarded")}
<1>1. HeldInv
  BY DEF SInv
<1>2. /\ Exit(c)
      /\ UNCHANGED <<subAt, frame, procOut, subCh, subList, out, work, reqCh, store>>
  BY DEF Reject, TopicWriteFails, ReceiveTopicFrame, Elsewhere, Channels, procVars
<1>3. \A m \in Msg : m \in M \/ (msgAt'[m] = msgAt[m] /\ FrameStays(m))
  BY <1>2, ExitKeeps
<1>4. \A m \in Msg : m \in M => MsgHeld(m)'
  BY DoneIsHeld
<1>5. \A x \in Sub : subAt'[x] = subAt[x] /\ frame'[x] = frame[x] /\ SubStays(x)
  BY <1>2, SameLists DEF SubStays
<1> HIDE DEF M
<1>6. PICK N : N = M
  OBVIOUS
<1>7. /\ \A x \in Msg : x \in N \/ (msgAt'[x] = msgAt[x] /\ FrameStays(x))
      /\ \A x \in Msg : x \in N => MsgHeld(x)'
  BY <1>3, <1>4, <1>6
<1> QED
  BY <1>1, <1>5, <1>7, FramesMove

\* SEND: the frame is in the connection's next request.
LEMMA HandleSendHolds ==
    ASSUME SInv, ~crashed, NEW c \in Conn, NEW m \in Msg, HandleSend(c, m)
    PROVE  HeldInv'
<1>1. TypeOK /\ HeldInv /\ nil \notin Sub
  BY PoolAssumption DEF SInv, IInv
<1>2. /\ out[c] = <<>>
      /\ out' = [out EXCEPT ![c] = <<FrameRequest("Enqueue", m)>>]
      /\ msgAt' = [msgAt EXCEPT ![m] = HeldBy("out", c)]
      /\ UNCHANGED <<subAt, frame, procOut, subCh, subList, tx, work, reqCh, store>>
  BY DEF HandleSend, Selecting, Ready, Elsewhere, Channels, procVars
<1>3. \A x \in Msg, d \in Conn : OutHas(d, x) => OutHas(d, x)'
  BY <1>1, <1>2, FreshOut
<1>4. \A x \in Msg : x /= m => msgAt'[x] = msgAt[x] /\ FrameStays(x)
  <2>1. \A x \in Msg : x /= m => msgAt'[x] = msgAt[x]
    BY <1>1, <1>2 DEF TypeOK
  <2> QED
    BY <1>2, <1>3, <2>1, SameContainers DEF FrameStays
<1>5. \A x \in Sub : subAt'[x] = subAt[x] /\ frame'[x] = frame[x] /\ SubStays(x)
  BY <1>2, SameLists DEF SubStays
<1>6. MsgHeld(m)'
  <2>1. msgAt'[m] = HeldBy("out", c) /\ out'[c] = <<FrameRequest("Enqueue", m)>>
    BY <1>1, <1>2 DEF TypeOK
  <2>2. OutHas(c, m)'
    BY <2>1 DEF OutHas, FrameRequest
  <2> QED
    BY <2>1, <2>2, HolderBy DEF MsgHeld
<1> QED
  BY <1>1, <1>4, <1>5, <1>6, OneMoves

\* SEND in a transaction.
LEMMA HandleSendInTxHolds ==
    ASSUME SInv, ~crashed, NEW c \in Conn, NEW m \in Msg, NEW t \in Tx,
           HandleSendInTx(c, m, t)
    PROVE  HeldInv'
<1>1. TypeOK /\ HeldInv /\ nil \notin Sub
  BY PoolAssumption DEF SInv, IInv
<1> DEFINE f == SendFrame(m)
<1>2. /\ tx[t] /= nil /\ tx' = [tx EXCEPT ![t] = Append(tx[t], f)]
      /\ msgAt' = [msgAt EXCEPT ![m] = HeldBy("tx", t)]
      /\ UNCHANGED <<subAt, frame, procOut, subCh, subList, out, work, reqCh, store>>
  BY DEF HandleSendInTx, AddToTx, Elsewhere, Channels, procVars
<1>3. f \in TxFrame /\ tx[t] \in Seq(TxFrame)
  BY <1>1, <1>2, FrameFacts DEF TypeOK
<1>4. f = SendFrame(m)
  OBVIOUS
<1> HIDE DEF f
<1>5. (\A x \in Msg, u \in Tx : TxHas(u, x) => TxHas(u, x)') /\ TxHas(t, m)'
  BY <1>1, <1>2, <1>3, <1>4, TxAdded
<1>6. \A x \in Msg : x /= m => msgAt'[x] = msgAt[x] /\ FrameStays(x)
  <2>1. \A x \in Msg : x /= m => msgAt'[x] = msgAt[x]
    BY <1>1, <1>2 DEF TypeOK
  <2> QED
    BY <1>2, <1>5, <2>1, SameContainers DEF FrameStays
<1>7. \A x \in Sub : subAt'[x] = subAt[x] /\ frame'[x] = frame[x] /\ SubStays(x)
  BY <1>2, SameLists DEF SubStays
<1>8. MsgHeld(m)'
  <2>1. msgAt'[m] = HeldBy("tx", t)
    BY <1>1, <1>2 DEF TypeOK
  <2> QED
    BY <1>5, <2>1, HolderBy DEF MsgHeld
<1> QED
  BY <1>1, <1>6, <1>7, <1>8, OneMoves

\* ABORT discards the frames of the transaction, COMMIT hands all of them to the
\* connection, which had nothing to execute.
LEMMA TxEndHolds ==
    ASSUME SInv, ~crashed, NEW c \in Conn, NEW t \in Tx,
           HandleAbort(c, t) \/ HandleCommit(c, t)
    PROVE  HeldInv'
<1> DEFINE M == {m \in Msg : msgAt[m] = HeldBy("tx", t)}
<1>1. TypeOK /\ HeldInv
  BY DEF SInv, IInv
<1>2. /\ tx[t] /= nil /\ tx' = [tx EXCEPT ![t] = nil]
      /\ UNCHANGED <<subAt, frame, procOut, subCh, subList, out, reqCh, store>>
      /\ \/ /\ UNCHANGED work
            /\ msgAt' = [m \in Msg |-> IF msgAt[m] = HeldBy("tx", t)
                                       THEN At("discarded") ELSE msgAt[m]]
         \/ /\ work[c] = <<>> /\ work' = [work EXCEPT ![c] = tx[t]]
            /\ msgAt' = [m \in Msg |-> IF msgAt[m] = HeldBy("tx", t)
                                       THEN HeldBy("work", c) ELSE msgAt[m]]
  BY DEF HandleAbort, HandleCommit, Selecting, Ready, Elsewhere, Channels, procVars
<1>3. ASSUME NEW m \in Msg, m \notin M PROVE msgAt'[m] = msgAt[m] /\ FrameStays(m)
  <2>1. msgAt'[m] = msgAt[m]
    BY <1>2, <1>3
  <2>2. ASSUME NEW u \in Tx, msgAt[m].by = "tx", msgAt[m].who = u, TxHas(u, m)
        PROVE  TxHas(u, m)'
    <3>1. msgAt[m] = HeldBy("tx", u)
      BY <1>1, <2>2 DEF TypeOK, Holder, HeldBy
    <3>2. u /= t
      BY <1>3, <3>1
    <3>3. tx'[u] = tx[u]
      BY <1>1, <1>2, <3>2 DEF TypeOK
    <3> QED
      BY <2>2, <3>3 DEF TxHas
  <2>3. ASSUME NEW d \in Conn, WorkHas(d, m) PROVE WorkHas(d, m)'
    <3>1. CASE UNCHANGED work
      BY <2>3, <3>1, SameContainers
    <3>2. CASE work[c] = <<>> /\ work' = [work EXCEPT ![c] = tx[t]]
      <4>1. d /= c
        BY <2>3, <3>2 DEF WorkHas
      <4>2. work'[d] = work[d]
        BY <1>1, <3>2, <4>1 DEF TypeOK
      <4> QED
        BY <2>3, <4>2 DEF WorkHas
    <3> QED
      BY <1>2, <3>1, <3>2
  <2> QED
    BY <1>2, <2>1, <2>2, <2>3, SameContainers DEF FrameStays
<1>4. ASSUME NEW m \in Msg, m \in M PROVE MsgHeld(m)'
  <2>1. msgAt[m] = HeldBy("tx", t)
    BY <1>4
  <2>2. CASE msgAt'[m] = At("discarded")
    BY <2>2, DoneIsHeld
  <2>3. CASE work' = [work EXCEPT ![c] = tx[t]] /\ msgAt'[m] = HeldBy("work", c)
    <3>1. TxHas(t, m)
      BY <1>1, <2>1, HolderBy DEF HeldInv, MsgHeld
    <3>2. work'[c] = tx[t]
      BY <1>1, <2>3 DEF TypeOK
    <3>3. WorkHas(c, m)'
      BY <3>1, <3>2 DEF WorkHas, TxHas
    <3> QED
      BY <2>3, <3>3, HolderBy DEF MsgHeld
  <2> QED
    BY <1>2, <2>1, <2>2, <2>3
<1>5. \A x \in Sub : subAt'[x] = subAt[x] /\ frame'[x] = frame[x] /\ SubStays(x)
  BY <1>2, SameLists DEF SubStays
<1>6. PICK N : N = M
  OBVIOUS
<1> HIDE DEF M
<1>7. /\ \A x \in Msg : x \in N \/ (msgAt'[x] = msgAt[x] /\ FrameStays(x))
      /\ \A x \in Msg : x \in N => MsgHeld(x)'
  BY <1>3, <1>4, <1>6
<1> QED
  BY <1>1, <1>5, <1>7, FramesMove

\* A committed SEND frame passes to the connection's next request.
LEMMA CommitSendHolds ==
    ASSUME SInv, ~crashed, NEW c \in Conn, CommitSend(c)
    PROVE  HeldInv'
<1>1. TypeOK /\ MsgInWork /\ HeldInv /\ nil \notin Sub
  BY PoolAssumption DEF SInv, IInv, MsgInv
<1>2. /\ out[c] = <<>> /\ work[c] /= <<>> /\ Head(work[c]).cmd = "SEND"
      /\ work' = [work EXCEPT ![c] = Tail(@)]
      /\ out' = [out EXCEPT ![c] = <<FrameRequest("Enqueue", Head(work[c]).msg)>>]
      /\ msgAt' = [msgAt EXCEPT ![Head(work[c]).msg] = HeldBy("out", c)]
      /\ UNCHANGED <<subAt, frame, procOut, subCh, subList, tx, reqCh, store>>
  BY DEF CommitSend, Elsewhere, Channels, procVars
<1>3. 1 \in DOMAIN work[c] /\ Head(work[c]) = work[c][1]
  BY <1>1, <1>2 DEF TypeOK
<1>4. PICK m \in Msg : m = Head(work[c]).msg
  BY <1>1, <1>2, <1>3 DEF MsgInWork
<1>5. \A x \in Msg : x /= m => Head(work[c]) /= SendFrame(x)
  BY <1>4 DEF SendFrame
<1>6. \A x \in Msg, d \in Conn : OutHas(d, x) => OutHas(d, x)'
  BY <1>1, <1>2, FreshOut
<1>7. \A x \in Msg : x /= m => msgAt'[x] = msgAt[x] /\ FrameStays(x)
  <2>1. \A x \in Msg : x /= m => msgAt'[x] = msgAt[x]
    BY <1>1, <1>2, <1>4 DEF TypeOK
  <2>2. \A x \in Msg : x /= m => \A d \in Conn : WorkHas(d, x) => WorkHas(d, x)'
    BY <1>1, <1>2, <1>5, WorkAdvances
  <2> QED
    BY <1>2, <1>6, <2>1, <2>2, SameContainers DEF FrameStays
<1>8. \A x \in Sub : subAt'[x] = subAt[x] /\ frame'[x] = frame[x] /\ SubStays(x)
  BY <1>2, SameLists DEF SubStays
<1>9. MsgHeld(m)'
  <2>1. msgAt'[m] = HeldBy("out", c) /\ out'[c] = <<FrameRequest("Enqueue", m)>>
    BY <1>1, <1>2, <1>4 DEF TypeOK
  <2>2. OutHas(c, m)'
    BY <2>1 DEF OutHas, FrameRequest
  <2> QED
    BY <2>1, <2>2, HolderBy DEF MsgHeld
<1> QED
  BY <1>1, <1>7, <1>8, <1>9, OneMoves

-----------------------------------------------------------------------------
(* Steps of a connection that move Subscription objects and their frames *)

\* Receiving from subChannel leaves the other objects in it.
LEMMA SubChAfterReceive ==
    ASSUME TypeOK, NEW c \in Conn, subCh[c] /= <<>>, subCh' = [subCh EXCEPT ![c] = Tail(@)],
           NEW x \in Sub, x /= Head(subCh[c]), SubChHas(x)
    PROVE  SubChHas(x)'
<1>1. subCh[c] \in Seq(Sub) /\ subCh'[c] = Tail(subCh[c]) /\ SubConn[x] \in Conn
      /\ \A d \in Conn : d /= c => subCh'[d] = subCh[d]
  BY PoolAssumption DEF TypeOK
<1>2. CASE SubConn[x] = c
  BY <1>1, <1>2, TailKeeps DEF SubChHas
<1>3. CASE SubConn[x] /= c
  BY <1>1, <1>3 DEF SubChHas
<1> QED
  BY <1>2, <1>3

\* SubscriptionList.Get on the list of unacknowledged subscriptions.
LEMMA SubListAfterGet ==
    ASSUME TypeOK, NEW c \in Conn, subList[c] /= <<>>,
           subList' = [subList EXCEPT ![c] = Tail(@)],
           NEW x \in Sub, x /= Head(subList[c]), SubListHas(x)
    PROVE  SubListHas(x)'
<1>1. subList[c] \in Seq(Sub) /\ subList'[c] = Tail(subList[c]) /\ SubConn[x] \in Conn
      /\ \A d \in Conn : d /= c => subList'[d] = subList[d]
  BY PoolAssumption DEF TypeOK
<1>2. CASE SubConn[x] = c
  BY <1>1, <1>2, TailKeeps DEF SubListHas
<1>3. CASE SubConn[x] /= c
  BY <1>1, <1>3 DEF SubListHas
<1> QED
  BY <1>2, <1>3

\* SubscriptionList.Ack and Nack.
LEMMA SubListAfterAck ==
    ASSUME TypeOK, NEW c \in Conn, NEW i \in DOMAIN subList[c],
           subList' = [subList EXCEPT ![c] = RemoveAt(@, i)],
           NEW x \in Sub, x /= subList[c][i], SubListHas(x)
    PROVE  SubListHas(x)'
<1>1. subList[c] \in Seq(Sub) /\ subList'[c] = RemoveAt(subList[c], i)
      /\ SubConn[x] \in Conn
      /\ \A d \in Conn : d /= c => subList'[d] = subList[d]
  BY PoolAssumption DEF TypeOK
<1>2. CASE SubConn[x] = c
  BY <1>1, <1>2, RemoveKeeps DEF SubListHas
<1>3. CASE SubConn[x] /= c
  BY <1>1, <1>3 DEF SubListHas
<1> QED
  BY <1>2, <1>3

\* Object s leaves its channel or list, and its frame m is settled or goes into a
\* request of the connection.
LEMMA FrameGivenUp ==
    ASSUME SInv, ~crashed, NEW c \in Conn, NEW s \in Sub, NEW m \in Msg, m = frame[s],
           subAt'[s] \in {"out", "gone"},
           \A x \in Sub : x /= s =>
              /\ subAt'[x] = subAt[x] /\ frame'[x] = frame[x]
              /\ (SubChHas(x) => SubChHas(x)') /\ (SubListHas(x) => SubListHas(x)'),
           \A x \in Msg : x /= m => msgAt'[x] = msgAt[x],
           \/ msgAt'[m] = At("settled")
           \/ msgAt'[m] = HeldBy("out", c) /\ OutHas(c, m)',
           \A x \in Msg, d \in Conn : OutHas(d, x) => OutHas(d, x)',
           UNCHANGED <<procOut, tx, work, reqCh, store>>
    PROVE  HeldInv'
<1>1. TypeOK /\ HeldInv
  BY DEF SInv, IInv
<1>2. \A x \in Msg : x /= m => msgAt'[x] = msgAt[x] /\ FrameStays(x)
  BY SameContainers DEF FrameStays
<1>3. \A x \in Sub : x /= s =>
         subAt'[x] = subAt[x] /\ frame'[x] = frame[x] /\ SubStays(x)
  BY SameLists DEF SubStays
<1>4. SubHeld(s)'
  BY DEF SubHeld
<1>5. MsgHeld(m)'
  <2>1. CASE msgAt'[m] = At("settled")
    BY <2>1, DoneIsHeld
  <2>2. CASE msgAt'[m] = HeldBy("out", c) /\ OutHas(c, m)'
    BY <2>2, HolderBy DEF MsgHeld
  <2> QED
    BY <2>1, <2>2
<1> QED
  BY <1>1, <1>2, <1>3, <1>4, <1>5, OneMoves

\* handleAck and handleNack.
LEMMA AckOneHolds ==
    ASSUME SInv, ~crashed, NEW c \in Conn, NEW i \in DOMAIN subList[c], NEW s \in Sub,
           AckOne(c, i, s) \/ NackOne(c, i, s)
    PROVE  HeldInv'
<1>1. TypeOK /\ IInv
  BY DEF SInv, IInv
<1>2. /\ s = subList[c][i] /\ out[c] = <<>>
      /\ subAt' = [subAt EXCEPT ![s] = "out"]
      /\ frame' = [frame EXCEPT ![s] = nil]
      /\ subList' = [subList EXCEPT ![c] = RemoveAt(@, i)]
      /\ UNCHANGED <<subCh, procOut, tx, work, reqCh, store>>
  BY DEF AckOne, NackOne, MatchOne, AfterAck, Release, Elsewhere, Channels, procVars
<1>3. subAt[s] = "unacked"
  BY <1>1, <1>2, InSubList
<1>4. PICK m \in Msg : m = frame[s]
  BY <1>1, <1>3, Carried
<1>5. /\ subAt'[s] = "out"
      /\ \A x \in Sub : x /= s => subAt'[x] = subAt[x] /\ frame'[x] = frame[x]
  BY <1>1, <1>2 DEF TypeOK
<1>6. \A x \in Sub : x /= s =>
         /\ subAt'[x] = subAt[x] /\ frame'[x] = frame[x]
         /\ (SubChHas(x) => SubChHas(x)') /\ (SubListHas(x) => SubListHas(x)')
  BY <1>1, <1>2, <1>5, SameLists, SubListAfterAck
<1>7. CASE AckOne(c, i, s)
  <2>1. /\ msgAt' = [msgAt EXCEPT ![m] = At("settled")]
        /\ out' = [out EXCEPT ![c] = <<SubRequest("Subscribe", s)>>]
    BY <1>4, <1>7 DEF AckOne
  <2>2. msgAt'[m] = At("settled") /\ \A x \in Msg : x /= m => msgAt'[x] = msgAt[x]
    BY <1>1, <2>1 DEF TypeOK
  <2>3. \A x \in Msg, d \in Conn : OutHas(d, x) => OutHas(d, x)'
    BY <1>1, <1>2, <2>1, FreshOut
  <2> QED
    BY <1>2, <1>4, <1>5, <1>6, <2>2, <2>3, FrameGivenUp
<1>8. CASE NackOne(c, i, s)
  <2> DEFINE rs == <<FrameRequest("Requeue", m), SubRequest("Subscribe", s)>>
  <2>1. /\ msgAt' = [msgAt EXCEPT ![m] = HeldBy("out", c)]
        /\ out' = [out EXCEPT ![c] = rs]
    BY <1>4, <1>8 DEF NackOne, Return
  <2>2. msgAt'[m] = HeldBy("out", c) /\ \A x \in Msg : x /= m => msgAt'[x] = msgAt[x]
    BY <1>1, <2>1 DEF TypeOK
  <2>3. 1 \in DOMAIN rs /\ rs[1].frame = m
    BY DEF FrameRequest
  <2> HIDE DEF rs
  <2>4. out'[c] = rs
    BY <1>1, <2>1 DEF TypeOK
  <2>5. OutHas(c, m)'
    BY <2>3, <2>4 DEF OutHas
  <2>6. \A x \in Msg, d \in Conn : OutHas(d, x) => OutHas(d, x)'
    BY <1>1, <1>2, <2>1, FreshOut
  <2> QED
    BY <1>2, <1>4, <1>5, <1>6, <2>2, <2>5, <2>6, FrameGivenUp
<1> QED
  BY <1>7, <1>8

\* A frame that needs no acknowledgement is written, or one that nobody waits for
\* goes back to its queue.
LEMMA SubReceivedHolds ==
    ASSUME SInv, ~crashed, NEW c \in Conn, NEW s \in Sub,
           DeliverAuto(c, s) \/ ReturnQueueFrame(c, s) \/ CleanupSubChannel(c, s)
    PROVE  HeldInv'
<1>1. TypeOK /\ IInv
  BY DEF SInv, IInv
<1>2. /\ subCh[c] /= <<>> /\ s = Head(subCh[c]) /\ out[c] = <<>>
      /\ subCh' = [subCh EXCEPT ![c] = Tail(@)]
      /\ UNCHANGED <<subList, procOut, tx, work, reqCh, store>>
  BY DEF DeliverAuto, ReturnQueueFrame, CleanupSubChannel, WriteFrame, ReceiveSub,
     Selecting, InCleanup, Ready, Elsewhere, procVars
<1>3. subAt[s] = "subCh"
  BY <1>1, <1>2, FirstInSubCh
<1>4. PICK m \in Msg : m = frame[s]
  BY <1>1, <1>3, Carried
<1>5. \A x \in Sub : x /= s =>
         (SubChHas(x) => SubChHas(x)') /\ (SubListHas(x) => SubListHas(x)')
  BY <1>1, <1>2, SameLists, SubChAfterReceive
<1>6. CASE DeliverAuto(c, s)
  <2>1. /\ msgAt' = [msgAt EXCEPT ![m] = At("settled")]
        /\ out' = [out EXCEPT ![c] = <<SubRequest("Subscribe", s)>>]
        /\ subAt' = [subAt EXCEPT ![s] = "out"]
        /\ frame' = [frame EXCEPT ![s] = nil]
    BY <1>4, <1>6 DEF DeliverAuto, Release
  <2>2. msgAt'[m] = At("settled") /\ \A x \in Msg : x /= m => msgAt'[x] = msgAt[x]
    BY <1>1, <2>1 DEF TypeOK
  <2>3. /\ subAt'[s] = "out"
        /\ \A x \in Sub : x /= s => subAt'[x] = subAt[x] /\ frame'[x] = frame[x]
    BY <1>1, <2>1 DEF TypeOK
  <2>4. \A x \in Msg, d \in Conn : OutHas(d, x) => OutHas(d, x)'
    BY <1>1, <1>2, <2>1, FreshOut
  <2>5. \A x \in Sub : x /= s =>
           /\ subAt'[x] = subAt[x] /\ frame'[x] = frame[x]
           /\ (SubChHas(x) => SubChHas(x)') /\ (SubListHas(x) => SubListHas(x)')
    BY <1>5, <2>3
  <2> QED
    BY <1>2, <1>4, <2>2, <2>3, <2>4, <2>5, FrameGivenUp
<1>7. CASE ReturnQueueFrame(c, s) \/ CleanupSubChannel(c, s)
  <2> DEFINE rs == <<FrameRequest("Requeue", m)>>
  <2>1. /\ msgAt' = [msgAt EXCEPT ![m] = HeldBy("out", c)]
        /\ out' = [out EXCEPT ![c] = rs]
        /\ subAt' = [subAt EXCEPT ![s] = "gone"]
        /\ UNCHANGED frame
    BY <1>4, <1>7 DEF ReturnQueueFrame, CleanupSubChannel, Return
  <2>2. msgAt'[m] = HeldBy("out", c) /\ \A x \in Msg : x /= m => msgAt'[x] = msgAt[x]
    BY <1>1, <2>1 DEF TypeOK
  <2>3. 1 \in DOMAIN rs /\ rs[1].frame = m
    BY DEF FrameRequest
  <2> HIDE DEF rs
  <2>4. out'[c] = rs
    BY <1>1, <2>1 DEF TypeOK
  <2>5. OutHas(c, m)'
    BY <2>3, <2>4 DEF OutHas
  <2>6. \A x \in Msg, d \in Conn : OutHas(d, x) => OutHas(d, x)'
    BY <1>1, <1>2, <2>1, FreshOut
  <2>7. /\ subAt'[s] = "gone"
        /\ \A x \in Sub : x /= s => subAt'[x] = subAt[x] /\ frame'[x] = frame[x]
    BY <1>1, <2>1 DEF TypeOK
  <2>8. \A x \in Sub : x /= s =>
           /\ subAt'[x] = subAt[x] /\ frame'[x] = frame[x]
           /\ (SubChHas(x) => SubChHas(x)') /\ (SubListHas(x) => SubListHas(x)')
    BY <1>5, <2>7
  <2> QED
    BY <1>2, <1>4, <2>2, <2>5, <2>6, <2>7, <2>8, FrameGivenUp
<1> QED
  BY <1>6, <1>7

\* cleanupConn: the first unacknowledged frame goes back to its queue.
LEMMA CleanupRequeueHolds ==
    ASSUME SInv, ~crashed, NEW c \in Conn, NEW s \in Sub, CleanupRequeue(c, s)
    PROVE  HeldInv'
<1>1. TypeOK /\ IInv
  BY DEF SInv, IInv
<1>2. /\ subList[c] /= <<>> /\ s = Head(subList[c]) /\ out[c] = <<>>
      /\ subList' = [subList EXCEPT ![c] = Tail(@)]
      /\ subAt' = [subAt EXCEPT ![s] = "gone"]
      /\ UNCHANGED <<subCh, procOut, tx, work, reqCh, store, frame>>
  BY DEF CleanupRequeue, AfterGet, InCleanup, Ready, Elsewhere, Channels, procVars
<1>3. subAt[s] = "unacked"
  <2>1. 1 \in DOMAIN subList[c] /\ s = subList[c][1]
    BY <1>1, <1>2 DEF TypeOK
  <2> QED
    BY <1>1, <2>1, InSubList
<1>4. PICK m \in Msg : m = frame[s]
  BY <1>1, <1>3, Carried
<1> DEFINE rs == <<FrameRequest("Requeue", m)>>
<1>5. /\ msgAt' = [msgAt EXCEPT ![m] = HeldBy("out", c)]
      /\ out' = [out EXCEPT ![c] = rs]
  BY <1>4 DEF CleanupRequeue, Return
<1>6. msgAt'[m] = HeldBy("out", c) /\ \A x \in Msg : x /= m => msgAt'[x] = msgAt[x]
  BY <1>1, <1>5 DEF TypeOK
<1>7. 1 \in DOMAIN rs /\ rs[1].frame = m
  BY DEF FrameRequest
<1> HIDE DEF rs
<1>8. out'[c] = rs
  BY <1>1, <1>5 DEF TypeOK
<1>9. OutHas(c, m)'
  BY <1>7, <1>8 DEF OutHas
<1>10. \A x \in Msg, d \in Conn : OutHas(d, x) => OutHas(d, x)'
  BY <1>1, <1>2, <1>5, FreshOut
<1>11. /\ subAt'[s] = "gone"
       /\ \A x \in Sub : x /= s => subAt'[x] = subAt[x] /\ frame'[x] = frame[x]
  BY <1>1, <1>2 DEF TypeOK
<1>12. \A x \in Sub : x /= s =>
          /\ subAt'[x] = subAt[x] /\ frame'[x] = frame[x]
          /\ (SubChHas(x) => SubChHas(x)') /\ (SubListHas(x) => SubListHas(x)')
  BY <1>1, <1>2, <1>11, SameLists, SubListAfterGet
<1> QED
  BY <1>2, <1>4, <1>6, <1>9, <1>10, <1>11, <1>12, FrameGivenUp

\* A frame that is to be acknowledged is written: object and frame stay together.
LEMMA DeliverUnackedHolds ==
    ASSUME SInv, ~crashed, NEW c \in Conn, NEW s \in Sub, DeliverUnacked(c, s)
    PROVE  HeldInv'
<1>1. TypeOK /\ IInv /\ HeldInv
  BY DEF SInv, IInv
<1>2. /\ subCh[c] /= <<>> /\ s = Head(subCh[c])
      /\ subCh' = [subCh EXCEPT ![c] = Tail(@)]
      /\ subList' = [subList EXCEPT ![c] = Append(@, s)]
      /\ subAt' = [subAt EXCEPT ![s] = "unacked"]
      /\ UNCHANGED <<procOut, tx, work, out, reqCh, store, frame, msgAt>>
  BY DEF DeliverUnacked, WriteFrame, ReceiveSub, procVars
<1>3. subAt[s] = "subCh" /\ SubConn[s] = c
  BY <1>1, <1>2, FirstInSubCh
<1>4. PICK m \in Msg : m = frame[s] /\ msgAt[m] = HeldBy("sub", s)
  BY <1>1, <1>3, Carried
<1>5. /\ \A d \in Conn : d /= c => subList'[d] = subList[d]
      /\ \A k \in DOMAIN subList[c] :
           \E j \in DOMAIN subList'[c] : subList'[c][j] = subList[c][k]
      /\ \E j \in DOMAIN subList'[c] : subList'[c][j] = s
  <2>1. subList[c] \in Seq(Sub) /\ subList'[c] = Append(subList[c], s)
        /\ \A d \in Conn : d /= c => subList'[d] = subList[d]
    BY <1>1, <1>2 DEF TypeOK
  <2> QED
    BY <2>1, AppendKeeps
<1>6. \A x \in Sub : SubListHas(x) => SubListHas(x)'
  <2>1. ASSUME NEW x \in Sub, SubListHas(x) PROVE SubListHas(x)'
    <3>1. SubConn[x] \in Conn
      BY PoolAssumption
    <3>2. CASE SubConn[x] = c
      BY <1>5, <2>1, <3>2 DEF SubListHas
    <3>3. CASE SubConn[x] /= c
      BY <1>5, <2>1, <3>1, <3>3 DEF SubListHas
    <3> QED
      BY <3>2, <3>3
  <2> QED
    BY <2>1
<1>7. \A x \in Sub : x /= s =>
         subAt'[x] = subAt[x] /\ frame'[x] = frame[x] /\ SubStays(x)
  <2>1. \A x \in Sub : x /= s => subAt'[x] = subAt[x] /\ frame'[x] = frame[x]
    BY <1>1, <1>2 DEF TypeOK
  <2>2. \A x \in Sub : x /= s => (SubChHas(x) => SubChHas(x)')
    BY <1>1, <1>2, SubChAfterReceive
  <2> QED
    BY <1>2, <1>6, <2>1, <2>2, SameLists DEF SubStays
<1>8. \A x \in Msg : msgAt'[x] = msgAt[x] /\ FrameStays(x)
  BY <1>2, SameContainers DEF FrameStays
<1>9. subAt'[s] = "unacked"
  BY <1>1, <1>2 DEF TypeOK
<1>10. SubHeld(s)'
  BY <1>3, <1>5, <1>9 DEF SubHeld, SubListHas
<1>11. MsgHeld(m)'
  BY <1>2, <1>4, <1>9, HolderBy DEF MsgHeld, Loaded
<1> QED
  BY <1>1, <1>4, <1>7, <1>8, <1>10, <1>11, OneMoves

\* The write of a queue frame fails: the frame is lost with its object, and the
\* frames of the connection's transactions are discarded.
LEMMA DeliverFailsHolds ==
    ASSUME SInv, ~crashed, NEW c \in Conn, NEW s \in Sub, DeliverFails(c, s)
    PROVE  HeldInv'
<1>1. TypeOK /\ IInv /\ HeldInv
  BY DEF SInv, IInv
<1>2. /\ Exit(c) /\ c \in Unwritable /\ subCh[c] /= <<>> /\ s = Head(subCh[c])
      /\ subCh' = [subCh EXCEPT ![c] = Tail(@)]
      /\ subAt' = [subAt EXCEPT ![s] = "gone"]
      /\ UNCHANGED <<procOut, subList, work, out, reqCh, store, frame>>
  BY DEF DeliverFails, WriteFrame, ReceiveSub, procVars
<1>3. subAt[s] = "subCh" /\ SubConn[s] = c
  BY <1>1, <1>2, FirstInSubCh
<1>4. PICK m \in Msg : m = frame[s] /\ msgAt[m] = HeldBy("sub", s)
  BY <1>1, <1>3, Carried
<1>5. subAt'[s] = "gone" /\ \A x \in Sub : x /= s => subAt'[x] = subAt[x]
  BY <1>1, <1>2 DEF TypeOK
<1>6. PICK M : M = {x \in Msg : msgAt'[x] = At("discarded")} \cup {m}
  OBVIOUS
<1>7. \A x \in Msg : x \in M \/ (msgAt'[x] = msgAt[x] /\ FrameStays(x))
  BY <1>2, <1>6, ExitKeeps
<1>8. ASSUME NEW x \in Msg, x \in M PROVE MsgHeld(x)'
  <2>1. CASE msgAt'[x] = At("discarded")
    BY <2>1, DoneIsHeld
  <2>2. CASE x = m
    <3>1. msgAt'[m] = At("discarded") \/ msgAt'[m] = HeldBy("sub", s)
      BY <1>2, <1>4, ExitKeeps
    <3>2. CASE msgAt'[m] = HeldBy("sub", s)
      BY <1>2, <1>3, <1>4, <1>5, <2>2, <3>2, HolderBy DEF MsgHeld, WriteFailed
    <3> QED
      BY <2>1, <2>2, <3>1, <3>2
  <2> QED
    BY <1>6, <1>8, <2>1, <2>2
<1>9. PICK S : S = {s}
  OBVIOUS
<1>10. \A x \in Sub : x \in S \/ (/\ subAt'[x] = subAt[x] /\ frame'[x] = frame[x]
                                  /\ SubStays(x))
  <2>1. \A x \in Sub : x /= s => (SubChHas(x) => SubChHas(x)')
    BY <1>1, <1>2, SubChAfterReceive
  <2> QED
    BY <1>2, <1>5, <1>9, <2>1, SameLists DEF SubStays
<1>11. \A x \in Sub : x \in S => frame[x] = nil \/ frame[x] \in M
  BY <1>4, <1>6, <1>9
<1>12. \A x \in Sub : x \in S => SubHeld(x)'
  BY <1>5, <1>9 DEF SubHeld
<1> QED
  BY <1>1, <1>7, <1>8, <1>10, <1>11, <1>12, HeldStep

\* A request enters requestChannel, with the frame or the object that it bears.
LEMMA SendRequestHolds ==
    ASSUME SInv, ~crashed, NEW c \in Conn, SendRequest(c)
    PROVE  HeldInv'
<1>1. TypeOK /\ RequestInv /\ SubInv /\ HeldInv
  BY DEF SInv, IInv
<1>2. PICK r : r = Head(out[c])
  OBVIOUS
<1>3. /\ out[c] /= <<>> /\ reqCh' = Append(reqCh, r)
      /\ subAt' = [s \in Sub |-> IF r.op = "Subscribe" /\ r.sub = s
                                 THEN "request" ELSE subAt[s]]
      /\ msgAt' = [m \in Msg |-> IF r.frame = m THEN At("request") ELSE msgAt[m]]
      /\ out' = [out EXCEPT ![c] = Tail(@)]
      /\ UNCHANGED <<store, procOut, subCh, subList, tx, work, frame>>
  BY <1>2 DEF SendRequest, Elsewhere, procVars
<1>4. /\ out[c] \in Seq(Request) /\ reqCh \in Seq(Request)
      /\ out'[c] = Tail(out[c]) /\ \A d \in Conn : d /= c => out'[d] = out[d]
  BY <1>1, <1>3 DEF TypeOK
<1>5. r \in Request /\ 1 \in DOMAIN out[c] /\ r = out[c][1]
  BY <1>2, <1>3, <1>4
<1>6. /\ \A k \in DOMAIN reqCh : \E j \in DOMAIN reqCh' : reqCh'[j] = reqCh[k]
      /\ \E j \in DOMAIN reqCh' : reqCh'[j] = r
  <2>1. /\ \A k \in DOMAIN reqCh : k \in DOMAIN reqCh' /\ reqCh'[k] = reqCh[k]
        /\ Len(reqCh) + 1 \in DOMAIN reqCh' /\ reqCh'[Len(reqCh) + 1] = r
    BY <1>3, <1>4, <1>5
  <2> QED
    BY <2>1
<1>7. PICK m : m = r.frame
  OBVIOUS
<1>8. PICK s : s = IF r.op = "Subscribe" THEN r.sub ELSE nil
  OBVIOUS
<1>9. ASSUME NEW x \in Msg, x /= m PROVE msgAt'[x] = msgAt[x] /\ FrameStays(x)
  <2>1. msgAt'[x] = msgAt[x]
    BY <1>3, <1>7, <1>9
  <2>2. RequestHas(x) => RequestHas(x)'
    BY <1>6 DEF RequestHas
  <2>3. ASSUME NEW d \in Conn, OutHas(d, x) PROVE OutHas(d, x)'
    <3>1. CASE d = c
      <4>1. \A k \in DOMAIN out[c] : out[c][k] = r
                                     \/ \E j \in DOMAIN out'[c] : out'[c][j] = out[c][k]
        BY <1>2, <1>3, <1>4, TailKeeps
      <4> QED
        BY <1>7, <1>9, <2>3, <3>1, <4>1 DEF OutHas
    <3>2. CASE d /= c
      BY <1>4, <2>3, <3>2 DEF OutHas
    <3> QED
      BY <3>1, <3>2
  <2> QED
    BY <1>3, <2>1, <2>2, <2>3, SameContainers DEF FrameStays
<1>10. \A x \in Sub : x /= s =>
          subAt'[x] = subAt[x] /\ frame'[x] = frame[x] /\ SubStays(x)
  <2>1. \A x \in Sub : x /= s => subAt'[x] = subAt[x]
    BY <1>3, <1>8
  <2> QED
    BY <1>3, <2>1, SameLists DEF SubStays
<1>11. ASSUME s \in Sub PROVE (frame[s] = nil \/ frame[s] = m) /\ SubHeld(s)'
  <2>1. r.op = "Subscribe" /\ r.sub = s
    BY <1>8, <1>11, PoolAssumption
  <2>2. subAt[s] = "out"
    BY <1>1, <1>5, <2>1 DEF SubInv, SubInOut
  <2>3. frame[s] = nil
    BY <1>1, <1>11, <2>2 DEF SubInv, FrameInv, FrameOf, Loaded
  <2>4. subAt'[s] = "request"
    BY <1>3, <1>11, <2>1
  <2> QED
    BY <2>3, <2>4 DEF SubHeld
<1>12. ASSUME m \in Msg PROVE MsgHeld(m)'
  <2>1. msgAt'[m] = At("request")
    BY <1>3, <1>7, <1>12
  <2>2. RequestHas(m)'
    BY <1>6, <1>7 DEF RequestHas
  <2> QED
    BY <2>1, <2>2, HolderBy DEF MsgHeld
<1> QED
  BY <1>1, <1>9, <1>10, <1>11, <1>12, OneMoves

-----------------------------------------------------------------------------
(* Every step of a connection *)

\* Every step that a connection takes, by itself or for its client.
LEMMA ConnHolds ==
    ASSUME SInv, ~crashed, NEW c \in Conn, ClientInput(c) \/ ConnStep(c)
    PROVE  HeldInv'
<1>1. CASE ClientInput(c)
  <2>1. CASE \/ Accept(c) \/ HandleConnect(c) \/ RefuseConnect(c) \/ Broken(c)
             \/ HandleDisconnect(c)
    BY <2>1, AnnounceHolds, RejectHolds DEF RefuseConnect, Broken
  <2>2. ASSUME NEW s \in Sub, \/ HandleSubscribe(c, s) \/ RefuseSubscribe(c, s)
                              \/ HandleUnsubscribe(c, s)
        PROVE  HeldInv'
    BY <2>2, HandleSubscribeHolds, RejectHolds, AnnounceHolds DEF RefuseSubscribe
  <2>3. ASSUME NEW t \in Tx, \/ HandleBegin(c, t) \/ HandleAbort(c, t)
                             \/ HandleCommit(c, t) \/ RefuseBegin(c, t) \/ RefuseTx(c, t)
        PROVE  HeldInv'
    BY <2>3, BeginHolds, TxEndHolds, RejectHolds DEF RefuseBegin, RefuseTx
  <2>4. ASSUME NEW cmd \in {"ACK", "NACK"}, NEW id \in AckIds, NEW t \in Tx,
               HandleAckInTx(c, cmd, id, t)
        PROVE  HeldInv'
    BY <2>4, BeginHolds
  <2> QED
    BY <1>1, <2>1, <2>2, <2>3, <2>4, HandleSendHolds, HandleSendInTxHolds, HandleAckHolds
       DEF ClientInput
<1>2. CASE Execute(c)
  <2>1. ASSUME NEW i \in DOMAIN subList[c],
               AckOne(c, i, subList[c][i]) \/ NackOne(c, i, subList[c][i])
        PROVE  HeldInv'
    <3>1. IInv
      BY DEF SInv
    <3>2. PICK s \in Sub : s = subList[c][i]
      BY <3>1, InSubList
    <3> QED
      BY <2>1, <3>2, AckOneHolds
  <2>2. ASSUME NEW i \in DOMAIN subList[c], AckPanics(c, i) PROVE HeldInv'
    <3>1. UNCHANGED <<msgAt, subAt, frame, procOut, subCh, subList, tx, work, out, reqCh, store>>
      BY <2>2 DEF AckPanics, Channels, procVars, connVars, objVars
    <3>2. \A m \in Msg : FrameStays(m)
      BY <3>1, SameContainers DEF FrameStays
    <3> QED
      BY <3>1, <3>2, NothingMoved
  <2> QED
    BY <1>2, <2>1, <2>2, CommitSendHolds, AckEndHolds DEF Execute
<1>3. CASE Cleanup(c)
  BY <1>3, AnnounceHolds, CleanupRequeueHolds, SubReceivedHolds DEF Cleanup
<1>4. CASE WriteQueueFrame(c)
  BY <1>4, SubReceivedHolds, DeliverUnackedHolds, DeliverFailsHolds DEF WriteQueueFrame
<1> QED
  BY <1>1, <1>2, <1>3, <1>4, SendRequestHolds, AnnounceHolds, RejectHolds DEF ConnStep

-----------------------------------------------------------------------------
(* The subList field *)

\* What a step may do to s so that ListedInv goes on to hold of it.
Unlisted(s) ==
    \/ Shown(s)'
    \/ subAt'[s] = "ready"
    \/ ~listed'[s] /\ subAt'[s] /= "unacked"
    \/ listed'[s] = listed[s] /\ subAt'[s] = subAt[s]
    \/ listed'[s] = listed[s] /\ subAt[s] /= "ready" /\ subAt'[s] /= "unacked"

LEMMA ListedStep ==
    ASSUME ListedInv, \A s \in Sub : Shown(s) => Shown(s)', \A s \in Sub : Unlisted(s)
    PROVE  ListedInv'
BY DEF ListedInv, Unlisted

\* A step that changes one object only and writes nothing.
LEMMA OneUnlisted ==
    ASSUME ListedInv, UNCHANGED seen, NEW z,
           \A s \in Sub : s /= z => listed'[s] = listed[s] /\ subAt'[s] = subAt[s],
           z \in Sub => Unlisted(z)
    PROVE  ListedInv'
<1>1. \A s \in Sub : Shown(s) => Shown(s)'
  BY DEF Shown
<1>2. \A s \in Sub : Unlisted(s)
  BY DEF Unlisted
<1> QED
  BY <1>1, <1>2, ListedStep

\* The same for a step that changes none.
LEMMA SameListed ==
    ASSUME ListedInv, UNCHANGED <<listed, subAt, seen>>
    PROVE  ListedInv'
BY DEF ListedInv, Shown

\* The processor: only Queue.Subscribe sets the field, and puts s into the list.
LEMMA ServeListed ==
    ASSUME IInv, ListedInv, Serve
    PROVE  ListedInv'
<1>1. /\ TypeOK /\ RequestInv /\ SubInRequest /\ MsgInRequest /\ SubInReady /\ SubInTopic
      /\ SubInProc
  BY DEF IInv, SubInv, MsgInv
<1>2. ASSUME NEW s \in Sub, NEW p, NEW f, subAt' = [subAt EXCEPT ![s] = p],
             listed' = [listed EXCEPT ![s] = f], UNCHANGED seen, p = "ready" \/ ~f,
             p /= "unacked"
      PROVE  ListedInv'
  <2>1. /\ subAt'[s] = p /\ listed'[s] = f
        /\ \A x \in Sub : x /= s => listed'[x] = listed[x] /\ subAt'[x] = subAt[x]
    BY <1>1, <1>2 DEF TypeOK
  <2> QED
    BY <1>2, <2>1, OneUnlisted DEF Unlisted
<1>3. ASSUME NEW s \in Sub, NEW p, subAt' = [subAt EXCEPT ![s] = p],
             subAt[s] /= "ready", UNCHANGED <<listed, seen>>, p /= "unacked"
      PROVE  ListedInv'
  <2>1. /\ subAt'[s] = p /\ listed'[s] = listed[s]
        /\ \A x \in Sub : x /= s => listed'[x] = listed[x] /\ subAt'[x] = subAt[x]
    BY <1>1, <1>3 DEF TypeOK
  <2> QED
    BY <1>3, <2>1, OneUnlisted DEF Unlisted
<1>4. ASSUME NEW s \in Sub, Take(SubRequest("Subscribe", s)) PROVE subAt[s] = "request"
  <2>1. PICK r : r = SubRequest("Subscribe", s)
    OBVIOUS
  <2>2. r.op = "Subscribe" /\ r.sub = s /\ Take(r)
    BY <1>4, <2>1 DEF SubRequest
  <2> QED
    BY <1>1, <2>2, HeadFacts
<1>5. ASSUME NEW q \in Queue, NEW s \in Sub,
             QueueSubscribe(q, s) \/ \E i \in DOMAIN qsubs[q] : QueueUnsubscribe(q, s, i)
      PROVE  ListedInv'
  <2>1. CASE \E m \in Msg : SubscribeServed(q, s, m)
    BY <1>3, <1>4, <2>1 DEF SubscribeServed, SendQueueFrame, connVars
  <2>2. CASE SubscribeWaits(q, s)
    BY <1>2, <2>2 DEF SubscribeWaits, connVars
  <2>3. CASE \E i \in DOMAIN qsubs[q] : QueueUnsubscribe(q, s, i)
    BY <1>2, <2>3 DEF QueueUnsubscribe, Unlist, connVars
  <2> QED
    BY <1>5, <2>1, <2>2, <2>3 DEF QueueSubscribe
<1>6. ASSUME NEW q \in Queue, NEW m \in Msg, QueueEnqueue(q, m) \/ QueueRequeue(q, m)
      PROVE  ListedInv'
  <2>1. ASSUME NEW op, NEW s \in Sub, GiveToReady(op, q, s, m) PROVE ListedInv'
    BY <1>2, <2>1 DEF GiveToReady, SendQueueFrame, Unlist, connVars
  <2>2. ASSUME NEW op, NEW l, Keep(op, q, m, l) PROVE ListedInv'
    BY <2>2, SameListed DEF Keep, connVars
  <2> QED
    BY <1>6, <2>1, <2>2 DEF QueueEnqueue, QueueRequeue
<1>7. ASSUME NEW t \in Topic, NEW s \in Sub, TopicSubscribe(t, s) PROVE ListedInv'
  BY <1>3, <1>4, <1>7 DEF TopicSubscribe, connVars
<1>8. ASSUME NEW t \in Topic, NEW s \in Sub, NEW i \in DOMAIN tsubs[t],
             TopicUnsubscribe(t, s, i)
      PROVE  ListedInv'
  <2>1. subAt[s] = "topic"
    BY <1>1, <1>8 DEF TopicUnsubscribe, FirstAt, SubInTopic, Lists
  <2> QED
    BY <1>3, <1>8, <2>1 DEF TopicUnsubscribe, connVars
<1>9. ASSUME NEW c \in Conn, NEW s \in Sub, SendOnSubChannel(c, s) PROVE ListedInv'
  <2>1. procOut /= <<>> /\ procOut \in Seq(Delivery) /\ s = Head(procOut).sub
    BY <1>1, <1>9 DEF SendOnSubChannel, NextDelivery, TypeOK
  <2>2. 1 \in DOMAIN procOut /\ s = procOut[1].sub
    BY <2>1
  <2>3. subAt[s] = "sending"
    BY <1>1, <1>9, <2>2 DEF SendOnSubChannel, SubInProc
  <2> QED
    BY <1>3, <1>9, <2>3 DEF SendOnSubChannel, connVars
<1>10. CASE \/ \E t \in Topic, m \in Msg : TopicEnqueue(t, m)
            \/ \E s \in Sub : UnsubscribeAbsent(s)
            \/ \E m \in Msg : MissingDestination(m)
            \/ IgnoreRequest
            \/ \E c \in Conn, s \in Sub : SendOnWriteChannel(c, s)
  BY <1>10, SameListed DEF TopicEnqueue, UnsubscribeAbsent, MissingDestination,
     IgnoreRequest, SendOnWriteChannel, connVars, objVars
<1> QED
  BY <1>5, <1>6, <1>7, <1>8, <1>9, <1>10 DEF Serve

\* A connection: the field is set when a message to be acknowledged is written.
LEMMA ConnListed ==
    ASSUME IInv, ListedInv, NEW c \in Conn, ClientInput(c) \/ ConnStep(c)
    PROVE  ListedInv'
<1>1. TypeOK /\ SubInOut
  BY DEF IInv, SubInv
<1>2. ASSUME NEW s \in Sub, NEW p, subAt' = [subAt EXCEPT ![s] = p],
             subAt[s] /= "ready", UNCHANGED <<listed, seen>>, p /= "unacked"
      PROVE  ListedInv'
  <2>1. /\ subAt'[s] = p /\ listed'[s] = listed[s]
        /\ \A x \in Sub : x /= s => listed'[x] = listed[x] /\ subAt'[x] = subAt[x]
    BY <1>1, <1>2 DEF TypeOK
  <2> QED
    BY <1>2, <2>1, OneUnlisted DEF Unlisted
<1>3. CASE ClientInput(c)
  <2>1. ASSUME NEW s \in Sub, HandleSubscribe(c, s) PROVE ListedInv'
    BY <1>2, <2>1 DEF HandleSubscribe
  <2>2. CASE UNCHANGED <<listed, subAt, seen>>
    BY <2>2, SameListed
  <2>3. CASE \/ Accept(c) \/ HandleConnect(c) \/ RefuseConnect(c) \/ Broken(c)
             \/ HandleDisconnect(c)
             \/ \E s \in Sub : RefuseSubscribe(c, s) \/ HandleUnsubscribe(c, s)
             \/ \E m \in Msg : HandleSend(c, m)
             \/ \E m \in Msg, t \in Tx : HandleSendInTx(c, m, t)
    BY <2>2, <2>3 DEF Accept, HandleConnect, RefuseConnect, Broken, HandleDisconnect,
       RefuseSubscribe, HandleUnsubscribe, HandleSend, HandleSendInTx, Reject, objVars
  <2>4. CASE \/ \E t \in Tx : \/ HandleBegin(c, t) \/ HandleAbort(c, t)
                              \/ HandleCommit(c, t) \/ RefuseBegin(c, t) \/ RefuseTx(c, t)
             \/ \E cmd \in {"ACK", "NACK"}, id \in AckIds : HandleAck(c, cmd, id)
             \/ \E cmd \in {"ACK", "NACK"}, id \in AckIds, t \in Tx :
                   HandleAckInTx(c, cmd, id, t)
    BY <2>2, <2>4 DEF HandleBegin, HandleAbort, HandleCommit, RefuseBegin, RefuseTx,
       HandleAck, HandleAckInTx, Reject, objVars
  <2> QED
    BY <1>3, <2>1, <2>3, <2>4 DEF ClientInput
<1>4. CASE SendRequest(c)
  <2>1. out[c] /= <<>> /\ out[c] \in Seq(Request)
    BY <1>1, <1>4 DEF SendRequest, TypeOK
  <2>2. PICK r : r = Head(out[c])
    OBVIOUS
  <2>3. 1 \in DOMAIN out[c] /\ r = out[c][1]
    BY <2>1, <2>2
  <2>4. r.op = "Subscribe" => subAt[r.sub] = "out"
    BY <1>1, <2>3 DEF SubInOut
  <2>5. /\ subAt' = [s \in Sub |-> IF r.op = "Subscribe" /\ r.sub = s
                                   THEN "request" ELSE subAt[s]]
        /\ UNCHANGED <<listed, seen>>
    BY <1>4, <2>2 DEF SendRequest
  <2>6. \A s \in Sub : Unlisted(s)
    BY <2>4, <2>5 DEF Unlisted
  <2>7. \A s \in Sub : Shown(s) => Shown(s)'
    BY <2>5 DEF Shown
  <2> QED
    BY <2>6, <2>7, ListedStep
<1>5. ASSUME NEW i \in DOMAIN subList[c],
             AckOne(c, i, subList[c][i]) \/ NackOne(c, i, subList[c][i])
      PROVE  ListedInv'
  <2>1. PICK s \in Sub : s = subList[c][i] /\ subAt[s] = "unacked"
    BY InSubList
  <2> QED
    BY <1>2, <1>5, <2>1 DEF AckOne, NackOne, MatchOne
<1>6. CASE \/ CommitSend(c) \/ AckEnd(c) \/ TopicWriteFails(c) \/ CleanupNext(c)
           \/ DiscardWriteChannelFrame(c) \/ CleanupGoodbye(c)
           \/ \E i \in DOMAIN subList[c] : AckPanics(c, i)
           \/ \E s \in Sub : CleanupUnsubscribe(c, s)
  BY <1>6, SameListed DEF CommitSend, AckEnd, TopicWriteFails, ReceiveTopicFrame,
     CleanupNext, DiscardWriteChannelFrame, CleanupGoodbye, AckPanics, CleanupUnsubscribe,
     connVars, objVars
<1>7. ASSUME NEW m, seen' = [seen EXCEPT ![c] = @ \cup {m}]
      PROVE  /\ seen'[c] /= {}
             /\ \A s \in Sub : Shown(s) => Shown(s)'
  <2>1. seen'[c] = seen[c] \cup {m} /\ \A d \in Conn : d /= c => seen'[d] = seen[d]
    BY <1>1, <1>7 DEF TypeOK
  <2>2. \A s \in Sub : SubConn[s] \in Conn
    BY PoolAssumption
  <2> QED
    BY <2>1, <2>2 DEF Shown
<1>8. CASE WriteTopicFrame(c)
  <2>1. \A s \in Sub : Shown(s) => Shown(s)'
    BY <1>7, <1>8 DEF WriteTopicFrame
  <2>2. \A s \in Sub : Unlisted(s)
    BY <1>8 DEF WriteTopicFrame, ReceiveTopicFrame, Unlisted
  <2> QED
    BY <2>1, <2>2, ListedStep
<1>9. ASSUME NEW s \in Sub, CleanupRequeue(c, s) PROVE ListedInv'
  <2>1. /\ subAt'[s] = "gone" /\ ~listed'[s] /\ UNCHANGED seen
        /\ \A x \in Sub : x /= s => listed'[x] = listed[x] /\ subAt'[x] = subAt[x]
    BY <1>1, <1>9 DEF CleanupRequeue, Unlist, TypeOK
  <2> QED
    BY <2>1, OneUnlisted DEF Unlisted
<1>10. ASSUME NEW s \in Sub, CleanupSubChannel(c, s) PROVE ListedInv'
  <2>1. subAt[s] = "subCh"
    BY <1>10, FirstInSubCh DEF CleanupSubChannel
  <2> QED
    BY <1>2, <1>10, <2>1 DEF CleanupSubChannel
<1>11. ASSUME NEW s \in Sub, DeliverFails(c, s) \/ ReturnQueueFrame(c, s)
       PROVE  ListedInv'
  <2>1. subAt[s] = "subCh"
    BY <1>11, FirstInSubCh DEF DeliverFails, ReturnQueueFrame, WriteFrame, ReceiveSub
  <2> QED
    BY <1>2, <1>11, <2>1 DEF DeliverFails, ReturnQueueFrame
<1>12. ASSUME NEW s \in Sub, DeliverAuto(c, s) PROVE ListedInv'
  <2>1. subAt[s] = "subCh"
    BY <1>12, FirstInSubCh DEF DeliverAuto, WriteFrame, ReceiveSub
  <2>2. \A x \in Sub : Shown(x) => Shown(x)'
    BY <1>7, <1>12 DEF DeliverAuto, Written
  <2>3. \A x \in Sub : Unlisted(x)
    BY <1>1, <1>12, <2>1 DEF DeliverAuto, Unlisted, TypeOK
  <2> QED
    BY <2>2, <2>3, ListedStep
<1>13. ASSUME NEW s \in Sub, DeliverUnacked(c, s) PROVE ListedInv'
  <2>1. SubConn[s] = c /\ SubAck[s] /= "auto"
    BY <1>13, FirstInSubCh DEF DeliverUnacked, WriteFrame, ReceiveSub
  <2>2. seen'[c] /= {} /\ \A x \in Sub : Shown(x) => Shown(x)'
    BY <1>7, <1>13 DEF DeliverUnacked, Written
  <2>3. Shown(s)'
    BY <2>1, <2>2 DEF Shown
  <2>4. \A x \in Sub : x /= s => listed'[x] = listed[x] /\ subAt'[x] = subAt[x]
    BY <1>1, <1>13 DEF DeliverUnacked, TypeOK
  <2>5. \A x \in Sub : Unlisted(x)
    BY <2>3, <2>4 DEF Unlisted
  <2> QED
    BY <2>2, <2>5, ListedStep
<1> QED
  BY <1>3, <1>4, <1>5, <1>6, <1>8, <1>9, <1>10, <1>11, <1>12, <1>13
     DEF ConnStep, Execute, Cleanup, WriteQueueFrame

-----------------------------------------------------------------------------
(* Frames on their way to their destination *)

\* What a step may do so that RouteInv goes on to hold.
LEMMA RouteStep ==
    ASSUME RouteInv,
           \A s \in Sub : subAt'[s] \in Loaded =>
              \/ subAt[s] \in Loaded /\ frame'[s] = frame[s]
              \/ MsgDest[frame'[s]] = SubDest[s],
           \A i \in DOMAIN procOut' :
              \/ \E j \in DOMAIN procOut : procOut'[i] = procOut[j]
              \/ SubDest[procOut'[i].sub] \notin Topic
              \/ MsgDest[procOut'[i].frame] \in Topic,
           \A d \in Conn : \A i \in DOMAIN writeCh'[d] :
              \/ \E j \in DOMAIN writeCh[d] : writeCh'[d][i] = writeCh[d][j]
              \/ MsgDest[writeCh'[d][i]] \in Topic,
           \A d \in Conn : \A s \in subs'[d] : s \in subs[d] \/ SubConn[s] = d
    PROVE  RouteInv'
BY DEF RouteInv

\* Receiving from a channel brings nothing new into it.
LEMMA TailIsOld ==
    ASSUME NEW S, NEW seq \in Seq(S), seq /= <<>>
    PROVE  \A i \in DOMAIN Tail(seq) : \E j \in DOMAIN seq : Tail(seq)[i] = seq[j]
<1> SUFFICES ASSUME NEW i \in DOMAIN Tail(seq)
             PROVE  \E j \in DOMAIN seq : Tail(seq)[i] = seq[j]
  OBVIOUS
<1>1. i + 1 \in DOMAIN seq /\ Tail(seq)[i] = seq[i + 1]
  OBVIOUS
<1> QED
  BY <1>1

\* A frame comes to an object of its own queue.
LEMMA AllocatedRoutes ==
    ASSUME TypeOK, RouteInv, NEW s \in Sub, NEW m \in Msg, SubDest[s] \in Queue,
           MsgDest[m] = SubDest[s], SendQueueFrame(s, m), UNCHANGED <<writeCh, subs>>
    PROVE  RouteInv'
<1>1. /\ frame'[s] = m
      /\ \A x \in Sub : x /= s => subAt'[x] = subAt[x] /\ frame'[x] = frame[x]
  BY DEF SendQueueFrame, TypeOK
<1>2. \A i \in DOMAIN procOut' : SubDest[procOut'[i].sub] \notin Topic
  BY PoolAssumption DEF SendQueueFrame
<1> QED
  BY <1>1, <1>2, RouteStep

\* An object moves or is set free, and no frame is allocated.
LEMMA MovedRoutes ==
    ASSUME RouteInv,
           \A s \in Sub : subAt'[s] \in Loaded =>
              subAt[s] \in Loaded /\ frame'[s] = frame[s],
           UNCHANGED procOut, UNCHANGED writeCh, UNCHANGED subs
    PROVE  RouteInv'
BY RouteStep

\* The processor.
LEMMA ServeRoutes ==
    ASSUME IInv, RouteInv, Serve
    PROVE  RouteInv'
<1>1. TypeOK /\ RequestInv /\ SubInReady /\ SubInProc /\ MsgInStore
  BY DEF IInv, SubInv, MsgInv
<1>2. ASSUME NEW q \in Queue, NEW s \in Sub, NEW m \in Msg, SubscribeServed(q, s, m)
      PROVE  RouteInv'
  <2>0. store[q] \in Seq(Msg) /\ store[q] /= <<>> /\ m = Head(store[q])
    BY <1>1, <1>2, PoolAssumption DEF SubscribeServed, Dequeue, TypeOK
  <2>1. 1 \in DOMAIN store[q] /\ m = store[q][1]
    BY <2>0
  <2>2. MsgDest[m] = q /\ SubDest[s] = q
    BY <1>1, <1>2, <2>1 DEF SubscribeServed, MsgInStore, Lists
  <2> QED
    BY <1>1, <1>2, <2>2, AllocatedRoutes DEF SubscribeServed, connVars
<1>3. ASSUME NEW op, NEW q \in Queue, NEW s \in Sub, NEW m \in Msg,
             GiveToReady(op, q, s, m)
      PROVE  RouteInv'
  <2>1. 1 \in DOMAIN qsubs[q] /\ s = qsubs[q][1]
    BY <1>1, <1>3 DEF GiveToReady, TypeOK
  <2>2. MsgDest[m] = q /\ SubDest[s] = q
    BY <1>1, <1>3, <2>1 DEF GiveToReady, SubInReady, Lists
  <2> QED
    BY <1>1, <1>3, <2>2, AllocatedRoutes DEF GiveToReady, connVars
<1>4. ASSUME NEW s \in Sub, NEW p, p \notin Loaded, subAt' = [subAt EXCEPT ![s] = p],
             UNCHANGED <<frame, procOut, writeCh, subs>>
      PROVE  RouteInv'
  <2>1. \A x \in Sub : subAt'[x] \in Loaded => subAt[x] \in Loaded /\ frame'[x] = frame[x]
    BY <1>1, <1>4 DEF TypeOK
  <2> QED
    BY <1>4, <2>1, MovedRoutes
<1>5. CASE UNCHANGED <<subAt, frame, procOut, writeCh, subs>>
  BY <1>5, MovedRoutes
<1>6. ASSUME NEW q \in Queue, NEW s \in Sub,
             QueueSubscribe(q, s) \/ \E i \in DOMAIN qsubs[q] : QueueUnsubscribe(q, s, i)
      PROVE  RouteInv'
  BY <1>2, <1>4, <1>6 DEF QueueSubscribe, SubscribeWaits, QueueUnsubscribe, connVars, Loaded
<1>7. ASSUME NEW q \in Queue, NEW m \in Msg, QueueEnqueue(q, m) \/ QueueRequeue(q, m)
      PROVE  RouteInv'
  BY <1>3, <1>5, <1>7 DEF QueueEnqueue, QueueRequeue, Keep, connVars
<1>8. ASSUME NEW t \in Topic, NEW s \in Sub,
             TopicSubscribe(t, s) \/ \E i \in DOMAIN tsubs[t] : TopicUnsubscribe(t, s, i)
      PROVE  RouteInv'
  BY <1>4, <1>8 DEF TopicSubscribe, TopicUnsubscribe, connVars, Loaded
<1>9. ASSUME NEW t \in Topic, NEW m \in Msg, TopicEnqueue(t, m) PROVE RouteInv'
  <2>1. \A i \in DOMAIN procOut' : MsgDest[procOut'[i].frame] \in Topic
    BY <1>9 DEF TopicEnqueue, Broadcast
  <2>2. UNCHANGED <<subAt, frame, writeCh, subs>>
    BY <1>9 DEF TopicEnqueue, connVars
  <2> QED
    BY <2>1, <2>2, RouteStep
<1>10. CASE \/ IgnoreRequest \/ \E s \in Sub : UnsubscribeAbsent(s)
            \/ \E m \in Msg : MissingDestination(m)
  BY <1>5, <1>10 DEF IgnoreRequest, UnsubscribeAbsent, MissingDestination, procVars,
     connVars, objVars
<1>11. ASSUME NEW c \in Conn, NEW s \in Sub, NextDelivery(c, s)
       PROVE  /\ s = procOut[1].sub /\ 1 \in DOMAIN procOut /\ Head(procOut) = procOut[1]
              /\ \A i \in DOMAIN procOut' : \E j \in DOMAIN procOut : procOut'[i] = procOut[j]
  <2>1. procOut \in Seq(Delivery) /\ procOut /= <<>> /\ procOut' = Tail(procOut)
        /\ s = Head(procOut).sub
    BY <1>1, <1>11 DEF NextDelivery, TypeOK
  <2> QED
    BY <2>1, TailIsOld
<1>12. ASSUME NEW c \in Conn, NEW s \in Sub, SendOnSubChannel(c, s) PROVE RouteInv'
  <2>1. subAt[s] = "sending"
    BY <1>1, <1>11, <1>12 DEF SendOnSubChannel, SubInProc
  <2>2. /\ UNCHANGED <<frame, writeCh, subs>>
        /\ \A x \in Sub : x /= s => subAt'[x] = subAt[x]
    BY <1>1, <1>12 DEF SendOnSubChannel, connVars, TypeOK
  <2>3. \A x \in Sub : subAt'[x] \in Loaded => subAt[x] \in Loaded /\ frame'[x] = frame[x]
    BY <2>1, <2>2 DEF Loaded
  <2>4. \A i \in DOMAIN procOut' : \E j \in DOMAIN procOut : procOut'[i] = procOut[j]
    BY <1>11, <1>12 DEF SendOnSubChannel
  <2> QED
    BY <2>2, <2>3, <2>4, RouteStep
<1>13. ASSUME NEW c \in Conn, NEW s \in Sub, SendOnWriteChannel(c, s) PROVE RouteInv'
  <2>1. PICK m : m = Head(procOut).frame
    OBVIOUS
  <2>2. m \in Msg /\ MsgDest[m] \in Topic
    <3>1. Head(procOut) \in Delivery /\ SubDest[procOut[1].sub] \in Topic
          /\ 1 \in DOMAIN procOut /\ Head(procOut) = procOut[1]
      BY <1>1, <1>11, <1>13 DEF SendOnWriteChannel, TypeOK
    <3> QED
      BY <2>1, <3>1 DEF RouteInv, Delivery
  <2>3. /\ UNCHANGED <<frame, subAt, subs>>
        /\ writeCh' = [writeCh EXCEPT ![c] = Append(writeCh[c], m)]
    BY <1>13, <2>1 DEF SendOnWriteChannel, connVars, objVars
  <2>4. \A d \in Conn : \A i \in DOMAIN writeCh'[d] :
           \/ \E j \in DOMAIN writeCh[d] : writeCh'[d][i] = writeCh[d][j]
           \/ MsgDest[writeCh'[d][i]] \in Topic
    <3>1. /\ writeCh[c] \in Seq(Msg) /\ writeCh'[c] = Append(writeCh[c], m)
          /\ \A d \in Conn : d /= c => writeCh'[d] = writeCh[d]
      BY <1>1, <2>3 DEF TypeOK
    <3>2. \A i \in DOMAIN writeCh'[c] :
             (i \in DOMAIN writeCh[c] /\ writeCh'[c][i] = writeCh[c][i]) \/ writeCh'[c][i] = m
      BY <2>2, <3>1
    <3> QED
      BY <2>2, <3>1, <3>2
  <2>5. \A i \in DOMAIN procOut' : \E j \in DOMAIN procOut : procOut'[i] = procOut[j]
    BY <1>11, <1>13 DEF SendOnWriteChannel
  <2> QED
    BY <2>3, <2>4, <2>5, RouteStep
<1> QED
  BY <1>6, <1>7, <1>8, <1>9, <1>10, <1>12, <1>13 DEF Serve

\* A connection.
LEMMA ConnRoutes ==
    ASSUME IInv, RouteInv, NEW c \in Conn, ClientInput(c) \/ ConnStep(c)
    PROVE  RouteInv'
<1>1. TypeOK /\ RequestInv
  BY DEF IInv
<1>2. CASE UNCHANGED <<subAt, frame, procOut, writeCh, subs>>
  BY <1>2, MovedRoutes
<1>3. ASSUME NEW s \in Sub, subAt'[s] \notin Loaded,
             \A x \in Sub : x /= s => subAt'[x] = subAt[x] /\ frame'[x] = frame[x],
             UNCHANGED <<procOut, writeCh, subs>>
      PROVE  RouteInv'
  BY <1>3, MovedRoutes
<1>4. ASSUME writeCh[c] /= <<>>, writeCh' = [writeCh EXCEPT ![c] = Tail(@)],
             UNCHANGED <<subAt, frame, procOut, subs>>
      PROVE  RouteInv'
  <2>1. /\ writeCh[c] \in Seq(Msg) /\ writeCh'[c] = Tail(writeCh[c])
        /\ \A d \in Conn : d /= c => writeCh'[d] = writeCh[d]
    BY <1>1, <1>4 DEF TypeOK
  <2>2. \A i \in DOMAIN writeCh'[c] : \E j \in DOMAIN writeCh[c] :
           writeCh'[c][i] = writeCh[c][j]
    BY <1>4, <2>1, TailIsOld
  <2>3. \A d \in Conn : \A i \in DOMAIN writeCh'[d] :
           \E j \in DOMAIN writeCh[d] : writeCh'[d][i] = writeCh[d][j]
    BY <2>1, <2>2
  <2> QED
    BY <1>4, <2>3, RouteStep
<1>5. ASSUME NEW s \in Sub, UNCHANGED <<subAt, frame, procOut, writeCh>>,
             subs' = [subs EXCEPT ![c] = @ \ {s}]
      PROVE  RouteInv'
  <2>1. \A d \in Conn : \A x \in subs'[d] : x \in subs[d]
    BY <1>1, <1>5 DEF TypeOK
  <2> QED
    BY <1>5, <2>1, RouteStep
<1>6. CASE ClientInput(c)
  <2>1. ASSUME NEW s \in Sub, HandleSubscribe(c, s) PROVE RouteInv'
    <3>1. \A d \in Conn : \A x \in subs'[d] : x \in subs[d] \/ SubConn[x] = d
      BY <1>1, <2>1 DEF HandleSubscribe, TypeOK
    <3>2. \A x \in Sub : subAt'[x] \in Loaded => subAt[x] \in Loaded /\ frame'[x] = frame[x]
      BY <1>1, <2>1 DEF HandleSubscribe, TypeOK, Loaded
    <3>3. UNCHANGED <<procOut, writeCh>>
      BY <2>1 DEF HandleSubscribe, Elsewhere, Channels, procVars
    <3> QED
      BY <3>1, <3>2, <3>3, RouteStep
  <2>2. ASSUME NEW s \in Sub, HandleUnsubscribe(c, s) PROVE RouteInv'
    BY <1>5, <2>2 DEF HandleUnsubscribe, Elsewhere, Channels, procVars, objVars
  <2>3. CASE Reject(c)
    BY <1>2, <2>3 DEF Reject, Elsewhere, Channels, procVars
  <2>4. CASE \/ Accept(c) \/ HandleConnect(c) \/ RefuseConnect(c) \/ Broken(c)
             \/ HandleDisconnect(c)
             \/ \E s \in Sub : RefuseSubscribe(c, s)
             \/ \E m \in Msg : HandleSend(c, m)
             \/ \E m \in Msg, t \in Tx : HandleSendInTx(c, m, t)
    BY <1>2, <2>3, <2>4 DEF Accept, HandleConnect, RefuseConnect, Broken, HandleDisconnect,
       RefuseSubscribe, HandleSend, HandleSendInTx, Elsewhere, Channels, procVars, objVars
  <2>5. CASE \/ \E t \in Tx : \/ HandleBegin(c, t) \/ HandleAbort(c, t)
                              \/ HandleCommit(c, t) \/ RefuseBegin(c, t) \/ RefuseTx(c, t)
             \/ \E cmd \in {"ACK", "NACK"}, id \in AckIds : HandleAck(c, cmd, id)
             \/ \E cmd \in {"ACK", "NACK"}, id \in AckIds, t \in Tx :
                   HandleAckInTx(c, cmd, id, t)
    BY <1>2, <2>3, <2>5 DEF HandleBegin, HandleAbort, HandleCommit, RefuseBegin, RefuseTx,
       HandleAck, HandleAckInTx, Elsewhere, Channels, procVars, objVars
  <2> QED
    BY <1>6, <2>1, <2>2, <2>4, <2>5 DEF ClientInput
<1>7. CASE SendRequest(c)
  <2>1. \A x \in Sub : subAt'[x] \in Loaded => subAt[x] \in Loaded /\ frame'[x] = frame[x]
    BY <1>7 DEF SendRequest, Loaded
  <2> QED
    BY <1>7, <2>1, MovedRoutes DEF SendRequest, Elsewhere, procVars
<1>8. CASE \/ CommitSend(c) \/ AckEnd(c) \/ CleanupNext(c) \/ CleanupGoodbye(c)
           \/ \E i \in DOMAIN subList[c] : AckPanics(c, i)
  BY <1>2, <1>8 DEF CommitSend, AckEnd, CleanupNext, CleanupGoodbye, AckPanics, Elsewhere,
     Channels, procVars, connVars, objVars
<1>9. ASSUME NEW i \in DOMAIN subList[c],
             AckOne(c, i, subList[c][i]) \/ NackOne(c, i, subList[c][i])
      PROVE  RouteInv'
  <2>1. PICK s \in Sub : s = subList[c][i]
    BY InSubList
  <2>2. /\ subAt'[s] = "out"
        /\ \A x \in Sub : x /= s => subAt'[x] = subAt[x] /\ frame'[x] = frame[x]
    BY <1>1, <1>9, <2>1 DEF AckOne, NackOne, Release, TypeOK
  <2>3. UNCHANGED <<procOut, writeCh, subs>>
    BY <1>9 DEF AckOne, NackOne, MatchOne, Elsewhere, Channels, procVars
  <2> QED
    BY <1>3, <2>2, <2>3 DEF Loaded
<1>10. CASE WriteTopicFrame(c) \/ TopicWriteFails(c) \/ DiscardWriteChannelFrame(c)
  BY <1>4, <1>10 DEF WriteTopicFrame, TopicWriteFails, ReceiveTopicFrame,
     DiscardWriteChannelFrame, Elsewhere, procVars, connVars, objVars
<1>11. ASSUME NEW s \in Sub, CleanupUnsubscribe(c, s) PROVE RouteInv'
  BY <1>5, <1>11 DEF CleanupUnsubscribe, Elsewhere, Channels, procVars, objVars
<1>12. ASSUME NEW s \in Sub, \/ DeliverAuto(c, s) \/ DeliverFails(c, s)
                             \/ ReturnQueueFrame(c, s) \/ CleanupRequeue(c, s)
                             \/ CleanupSubChannel(c, s)
       PROVE  RouteInv'
  <2>1. /\ subAt'[s] \in {"out", "gone"}
        /\ \A x \in Sub : x /= s => subAt'[x] = subAt[x] /\ frame'[x] = frame[x]
    BY <1>1, <1>12 DEF DeliverAuto, DeliverFails, ReturnQueueFrame, CleanupRequeue,
       CleanupSubChannel, Release, TypeOK
  <2>2. UNCHANGED <<procOut, writeCh, subs>>
    BY <1>12 DEF DeliverAuto, DeliverFails, ReturnQueueFrame, CleanupRequeue,
       CleanupSubChannel, WriteFrame, ReceiveSub, Elsewhere, Channels, procVars
  <2> QED
    BY <1>3, <2>1, <2>2 DEF Loaded
<1>13. ASSUME NEW s \in Sub, DeliverUnacked(c, s) PROVE RouteInv'
  <2>1. subAt[s] = "subCh"
    BY <1>13, FirstInSubCh DEF DeliverUnacked, WriteFrame, ReceiveSub
  <2>2. \A x \in Sub : subAt'[x] \in Loaded => subAt[x] \in Loaded /\ frame'[x] = frame[x]
    BY <1>1, <1>13, <2>1 DEF DeliverUnacked, TypeOK, Loaded
  <2> QED
    BY <1>13, <2>2, MovedRoutes DEF DeliverUnacked, WriteFrame, ReceiveSub, procVars
<1> QED
  BY <1>6, <1>7, <1>8, <1>9, <1>10, <1>11, <1>12, <1>13
     DEF ConnStep, Execute, Cleanup, WriteQueueFrame

-----------------------------------------------------------------------------
(* The invariant *)

\* A process that has panicked does nothing any more.
LEMMA OnlyTheLivingStep == Next => ~crashed
<1>1. Serve => ~crashed
  BY DEF Serve, QueueSubscribe, SubscribeServed, SubscribeWaits, QueueUnsubscribe,
         QueueEnqueue, QueueRequeue, Keep, GiveToReady, TopicSubscribe, TopicUnsubscribe,
         TopicEnqueue, UnsubscribeAbsent, MissingDestination, IgnoreRequest, Take,
         SendOnSubChannel, SendOnWriteChannel, NextDelivery
<1>2. ASSUME NEW c \in Conn, ClientInput(c) PROVE ~crashed
  BY <1>2 DEF ClientInput, Accept, HandleConnect, RefuseConnect, Broken, HandleDisconnect,
         HandleSubscribe, RefuseSubscribe, HandleUnsubscribe, HandleBegin, HandleAbort,
         HandleCommit, RefuseBegin, RefuseTx, HandleAck, HandleAckInTx, HandleSend,
         HandleSendInTx, Selecting, Ready
<1>3. ASSUME NEW c \in Conn, ConnStep(c) PROVE ~crashed
  BY <1>3 DEF ConnStep, SendRequest, Execute, CommitSend, AckOne, NackOne, MatchOne,
         AckPanics, AckEnd, Cleanup, CleanupNext, DiscardWriteChannelFrame, CleanupGoodbye,
         CleanupUnsubscribe, CleanupRequeue, CleanupSubChannel, InCleanup, WriteTopicFrame,
         TopicWriteFails, ReceiveTopicFrame, WriteQueueFrame, DeliverAuto, DeliverUnacked,
         DeliverFails, ReturnQueueFrame, WriteFrame, ReceiveSub, Selecting, Ready
<1> QED
  BY <1>1, <1>2, <1>3 DEF Next

\* In the beginning the clients have every frame and there are no subscriptions.
LEMMA NothingHeldAtFirst == Init => HeldInv
<1> SUFFICES ASSUME Init PROVE HeldInv
  OBVIOUS
<1>1. \A m \in Msg : msgAt[m].by = "client"
  BY DEF Init, At
<1>2. \A s \in Sub : subAt[s] = "none"
  BY DEF Init
<1> QED
  BY <1>1, <1>2 DEF HeldInv, MsgHeld, SubHeld

\* History and containers agree: a list or channel holds what its history says
\* is there (IInv), what the history says is there is (HeldInv), an object thinks
\* that it is in a list only where that is so or has been so (ListedInv), and what is
\* under way is under way to its destination (RouteInv).
THEOREM PresenceInvariance == Spec => []SInv
<1>1. Init => SInv
  <2>1. Init => ListedInv /\ RouteInv
    BY DEF Init, ListedInv, RouteInv, Loaded
  <2> QED
    BY <2>1, InitEstablishes, NothingHeldAtFirst DEF SInv
<1>2. SInv /\ IInv' /\ [Next]_vars => SInv'
  <2> SUFFICES ASSUME SInv, [Next]_vars PROVE HeldInv' /\ ListedInv' /\ RouteInv'
    BY DEF SInv
  <2> IInv /\ HeldInv /\ ListedInv /\ RouteInv
    BY DEF SInv
  <2>1. CASE Serve
    <3>1. ~crashed
      BY <2>1, OnlyTheLivingStep DEF Next
    <3> QED
      BY <2>1, <3>1, ServeHolds, ServeListed, ServeRoutes
  <2>2. ASSUME NEW c \in Conn, ClientInput(c) \/ ConnStep(c)
        PROVE  HeldInv' /\ ListedInv' /\ RouteInv'
    <3>1. ~crashed
      BY <2>2, OnlyTheLivingStep DEF Next
    <3> QED
      BY <2>2, <3>1, ConnHolds, ConnListed, ConnRoutes
  <2>3. CASE UNCHANGED vars
    <3>1. ListedInv'
      BY <2>3, SameListed DEF vars, connVars, objVars
    <3>2. RouteInv'
      BY <2>3, MovedRoutes DEF vars, procVars, connVars, objVars
    <3> QED
      BY <2>3, <3>1, <3>2 DEF vars, procVars, connVars, objVars, HeldInv, MsgHeld, SubHeld, TxHas,
         WorkHas, OutHas, RequestHas, StoreHas, ProcHas, SubChHas, SubListHas, WriteFailed
  <2> QED
    BY <2>1, <2>2, <2>3 DEF Next
<1> QED
  BY <1>1, <1>2, Invariance, PTL DEF Spec

\* A frame that is held is in the hands of somebody, if it is not stranded.
LEMMA HeldIsThere ==
    ASSUME NEW m \in Msg, MsgHeld(m), \A s \in Sub : SubHeld(s),
           msgAt[m].by \in {"tx", "work", "out", "request", "store", "sub"},
           ~(msgAt[m].by = "sub" /\ (WriteFailed(msgAt[m].who) \/ Stranded(msgAt[m].who)))
    PROVE  InHand(m)
<1>1. MsgHeld(m) /\ \A s \in Sub : SubHeld(s)
  OBVIOUS
<1>2. PICK who : who = msgAt[m].who
  OBVIOUS
<1>3. CASE msgAt[m].by = "tx"
  <2>1. PICK i \in DOMAIN tx[who] : who \in Tx /\ tx[who] /= nil /\ tx[who][i] = SendFrame(m)
    BY <1>1, <1>2, <1>3 DEF MsgHeld, TxHas
  <2>2. Pos("tx", who, i) \in In("tx", who, tx[who], SendFrame(m))
    BY <2>1 DEF In
  <2>3. Pos("tx", who, i) \in Copies(m)
    BY <2>1, <2>2 DEF Copies, InTx
  <2> QED
    BY <2>3 DEF InHand, Pos
<1>4. CASE msgAt[m].by = "work"
  <2>1. PICK i \in DOMAIN work[who] : who \in Conn /\ work[who][i] = SendFrame(m)
    BY <1>1, <1>2, <1>4 DEF MsgHeld, WorkHas
  <2>2. Pos("work", who, i) \in In("work", who, work[who], SendFrame(m))
    BY <2>1 DEF In
  <2>3. Pos("work", who, i) \in Copies(m)
    BY <2>1, <2>2 DEF Copies, InWork
  <2> QED
    BY <2>3 DEF InHand, Pos
<1>5. CASE msgAt[m].by = "out"
  <2>1. PICK i \in DOMAIN out[who] : who \in Conn /\ out[who][i].frame = m
    BY <1>1, <1>2, <1>5 DEF MsgHeld, OutHas
  <2>2. Pos("out", who, i) \in InOutOf(who, m)
    BY <2>1 DEF InOutOf
  <2>3. Pos("out", who, i) \in Copies(m)
    BY <2>1, <2>2 DEF Copies, InOut
  <2> QED
    BY <2>3 DEF InHand, Pos
<1>6. CASE msgAt[m].by = "request"
  <2>1. PICK i \in DOMAIN reqCh : reqCh[i].frame = m
    BY <1>1, <1>6 DEF MsgHeld, RequestHas
  <2>2. Pos("request", nil, i) \in InRequests(m)
    BY <2>1 DEF InRequests
  <2>3. Pos("request", nil, i) \in Copies(m)
    BY <2>2 DEF Copies
  <2> QED
    BY <2>3 DEF InHand, Pos
<1>7. CASE msgAt[m].by = "store"
  <2>1. PICK q \in Queue : \E j \in DOMAIN store[q] : store[q][j] = m
    BY <1>1, <1>7 DEF MsgHeld, StoreHas
  <2>2. PICK i \in DOMAIN store[q] : store[q][i] = m
    BY <2>1
  <2>3. Pos("store", q, i) \in In("store", q, store[q], m)
    BY <2>2 DEF In
  <2>4. Pos("store", q, i) \in Copies(m)
    BY <2>3 DEF Copies, InStore
  <2> QED
    BY <2>4 DEF InHand, Pos
<1>8. CASE msgAt[m].by = "sub"
  <2>1. who \in Sub /\ frame[who] = m /\ subAt[who] \in Loaded
    BY <1>1, <1>2, <1>8 DEF MsgHeld
  <2>2. ProcHas(who) \/ SubChHas(who) \/ SubListHas(who)
    BY <1>1, <2>1 DEF SubHeld, Loaded
  <2>3. who \in Bearers(m)
    BY <2>1, <2>2 DEF Bearers, ProcHas, SubChHas, SubListHas
  <2>4. Pos("sub", who, 0) \in InSubs(m)
    BY <2>3 DEF InSubs
  <2>5. Pos("sub", who, 0) \in Copies(m)
    BY <2>4 DEF Copies
  <2> QED
    BY <2>5, <1>2, <1>8 DEF InHand, Pos
<1> QED
  BY <1>3, <1>4, <1>5, <1>6, <1>7, <1>8

\* A frame that a connection, the processor or a queue has to look after is in the
\* hands of one of them, or the write of it to a client failed, or it was delivered to
\* a connection that had finished its cleanup.
THEOREM NothingIsLost == Spec => []NoLoss
<1>1. SInv => NoLoss
  BY HeldIsThere DEF SInv, HeldInv, NoLoss
<1> QED
  BY <1>1, PresenceInvariance, PTL

-----------------------------------------------------------------------------
(* What is settled stays settled *)

Done(m) == msgAt[m].by \in {"settled", "discarded"}

Rests(m) == msgAt'[m] = msgAt[m] /\ msgIdHdr'[m] = msgIdHdr[m]

\* The processor moves only frames that it takes out of a request or of a store.
LEMMA ServeRests ==
    ASSUME IInv, Serve, NEW x \in Msg, Done(x)
    PROVE  Rests(x)
<1>1. TypeOK /\ RequestInv /\ SubInRequest /\ MsgInRequest /\ MsgInStore /\ nil \notin Msg
  BY PoolAssumption DEF IInv, SubInv, MsgInv
<1>2. ASSUME NEW q \in Queue, NEW s \in Sub, NEW m \in Msg, SubscribeServed(q, s, m)
      PROVE  Rests(x)
  <2>1. /\ m = Dequeue(q) /\ msgAt' = [msgAt EXCEPT ![m] = HeldBy("sub", s)]
        /\ UNCHANGED msgIdHdr
    BY <1>2 DEF SubscribeServed, SendQueueFrame
  <2>2. 1 \in DOMAIN store[q] /\ m = store[q][1]
    BY <1>1, <2>1 DEF Dequeue, TypeOK
  <2>3. msgAt[m].by = "store"
    BY <1>1, <2>2, HolderBy DEF MsgInStore, Lists
  <2> QED
    BY <1>1, <2>1, <2>3 DEF Done, Rests, TypeOK
<1>3. ASSUME NEW op, NEW m \in Msg, NEW h, Take(FrameRequest(op, m)),
             msgAt' = [msgAt EXCEPT ![m] = h], UNCHANGED msgIdHdr
      PROVE  Rests(x)
  <2>1. PICK r : r = FrameRequest(op, m)
    OBVIOUS
  <2>2. r.frame = m /\ Take(r)
    BY <1>3, <2>1 DEF FrameRequest
  <2>3. msgAt[m] = At("request")
    BY <1>1, <2>2, HeadFacts
  <2>4. m /= x
    BY <2>3, HolderBy DEF Done
  <2> QED
    BY <1>1, <1>3, <2>4 DEF Rests, TypeOK
<1>4. ASSUME NEW q \in Queue, NEW m \in Msg, QueueEnqueue(q, m) \/ QueueRequeue(q, m)
      PROVE  Rests(x)
  <2>1. PICK op, h : /\ Take(FrameRequest(op, m)) /\ msgAt' = [msgAt EXCEPT ![m] = h]
                     /\ UNCHANGED msgIdHdr
    BY <1>4 DEF QueueEnqueue, QueueRequeue, Keep, GiveToReady, SendQueueFrame
  <2> QED
    BY <1>3, <2>1
<1>5. ASSUME NEW t \in Topic, NEW m \in Msg, TopicEnqueue(t, m) PROVE Rests(x)
  <2>1. PICK h : /\ Take(FrameRequest("Enqueue", m)) /\ msgAt' = [msgAt EXCEPT ![m] = h]
                 /\ UNCHANGED msgIdHdr
    BY <1>5 DEF TopicEnqueue
  <2> QED
    BY <1>3, <2>1
<1>6. CASE UNCHANGED <<msgAt, msgIdHdr>>
  BY <1>6 DEF Rests
<1>7. ASSUME NEW q \in Queue, NEW s \in Sub,
             QueueSubscribe(q, s) \/ \E i \in DOMAIN qsubs[q] : QueueUnsubscribe(q, s, i)
      PROVE  Rests(x)
  BY <1>2, <1>6, <1>7 DEF QueueSubscribe, SubscribeWaits, QueueUnsubscribe
<1>8. ASSUME NEW t \in Topic, NEW s \in Sub,
             TopicSubscribe(t, s) \/ \E i \in DOMAIN tsubs[t] : TopicUnsubscribe(t, s, i)
      PROVE  Rests(x)
  BY <1>6, <1>8 DEF TopicSubscribe, TopicUnsubscribe
<1>9. CASE IgnoreRequest \/ \E s \in Sub : UnsubscribeAbsent(s)
  BY <1>6, <1>9 DEF IgnoreRequest, UnsubscribeAbsent, objVars
<1>10. CASE \E m \in Msg : MissingDestination(m)
  BY <1>6, <1>10 DEF MissingDestination, objVars
<1>11. CASE \E c \in Conn, s \in Sub : SendOnSubChannel(c, s) \/ SendOnWriteChannel(c, s)
  BY <1>6, <1>11 DEF SendOnSubChannel, SendOnWriteChannel, objVars
<1> QED
  BY <1>4, <1>5, <1>7, <1>8, <1>9, <1>10, <1>11 DEF Serve

\* Leaving the loop changes only frames that are still in a transaction.
LEMMA ExitRests ==
    ASSUME NEW c \in Conn, Exit(c), NEW x \in Msg, Done(x)
    PROVE  msgAt'[x] = msgAt[x]
BY DEF Exit, Done

\* What a client asks for moves its own new frames and those of its transactions.
LEMMA ClientInputRests ==
    ASSUME IInv, NEW c \in Conn, ClientInput(c), NEW x \in Msg, Done(x)
    PROVE  Rests(x)
<1>1. TypeOK
  BY DEF IInv
<1>2. CASE UNCHANGED <<msgAt, msgIdHdr>>
  BY <1>2 DEF Rests
<1>3. CASE Reject(c)
  BY <1>3, ExitRests DEF Reject, Rests
<1>4. CASE Accept(c) \/ HandleConnect(c) \/ HandleDisconnect(c)
  BY <1>2, <1>4 DEF Accept, HandleConnect, HandleDisconnect, objVars
<1>5. CASE RefuseConnect(c) \/ Broken(c)
  BY <1>3, <1>5 DEF RefuseConnect, Broken
<1>6. ASSUME NEW s \in Sub,
             HandleSubscribe(c, s) \/ RefuseSubscribe(c, s) \/ HandleUnsubscribe(c, s)
      PROVE  Rests(x)
  BY <1>2, <1>3, <1>6 DEF HandleSubscribe, RefuseSubscribe, HandleUnsubscribe, objVars
<1>7. ASSUME NEW m \in Msg, NEW h, NextSend(c, m), msgAt' = [msgAt EXCEPT ![m] = h],
             UNCHANGED msgIdHdr
      PROVE  Rests(x)
  <2>1. msgAt[m].by = "client"
    BY <1>7, HolderBy DEF NextSend
  <2> QED
    BY <1>1, <1>7, <2>1 DEF Done, Rests, TypeOK
<1>8. ASSUME NEW m \in Msg, HandleSend(c, m) PROVE Rests(x)
  BY <1>7, <1>8 DEF HandleSend
<1>9. ASSUME NEW m \in Msg, NEW t \in Tx, HandleSendInTx(c, m, t) PROVE Rests(x)
  BY <1>7, <1>9 DEF HandleSendInTx
<1>10. ASSUME NEW t \in Tx, HandleAbort(c, t) \/ HandleCommit(c, t) PROVE Rests(x)
  <2>1. msgAt[x] /= HeldBy("tx", t)
    BY HolderBy DEF Done
  <2> QED
    BY <1>10, <2>1 DEF HandleAbort, HandleCommit, Rests
<1>11. ASSUME NEW t \in Tx, HandleBegin(c, t) \/ RefuseBegin(c, t) \/ RefuseTx(c, t)
       PROVE  Rests(x)
  BY <1>2, <1>3, <1>11 DEF HandleBegin, RefuseBegin, RefuseTx, objVars
<1>12. ASSUME NEW cmd \in {"ACK", "NACK"}, NEW id \in AckIds, HandleAck(c, cmd, id)
       PROVE  Rests(x)
  BY <1>2, <1>12 DEF HandleAck, objVars
<1>13. ASSUME NEW cmd \in {"ACK", "NACK"}, NEW id \in AckIds, NEW t \in Tx,
              HandleAckInTx(c, cmd, id, t)
       PROVE  Rests(x)
  BY <1>2, <1>13 DEF HandleAckInTx, objVars
<1> QED
  BY <1>4, <1>5, <1>6, <1>8, <1>9, <1>10, <1>11, <1>12, <1>13 DEF ClientInput

\* A connection by itself moves, numbers or settles only frames that it holds: in
\* its requests, in a commit or with a subscription.
LEMMA ConnStepRests ==
    ASSUME IInv, NEW c \in Conn, ConnStep(c), NEW x \in Msg, Done(x)
    PROVE  Rests(x)
<1>1. TypeOK /\ MsgInv
  BY DEF IInv
<1>2. CASE UNCHANGED <<msgAt, msgIdHdr>>
  BY <1>2 DEF Rests
<1>3. ASSUME NEW s \in Sub, subAt[s] \in {"subCh", "unacked"} PROVE frame[s] \in Msg \ {x}
  BY <1>3, Carried DEF Done
<1>4. ASSUME NEW s \in Sub, NEW h, frame[s] \in Msg \ {x},
             msgAt' = [msgAt EXCEPT ![frame[s]] = h]
      PROVE  msgAt'[x] = msgAt[x]
  BY <1>1, <1>4 DEF TypeOK
<1>5. ASSUME NEW s \in Sub, NEW h, frame[s] \in Msg \ {x},
             msgIdHdr' = [msgIdHdr EXCEPT ![frame[s]] = h]
      PROVE  msgIdHdr'[x] = msgIdHdr[x]
  BY <1>1, <1>5 DEF TypeOK
<1>6. CASE SendRequest(c)
  <2>1. out[c] /= <<>> /\ out[c] \in Seq(Request)
    BY <1>1, <1>6 DEF SendRequest, TypeOK
  <2>2. 1 \in DOMAIN out[c] /\ Head(out[c]) = out[c][1]
    BY <2>1
  <2>3. Head(out[c]).frame /= nil => msgAt[Head(out[c]).frame].by = "out"
    BY <1>1, <2>2, HolderBy DEF MsgInv, MsgInOut
  <2>4. Head(out[c]).frame /= x
    BY <2>3, PoolAssumption DEF Done
  <2> QED
    BY <1>6, <2>4 DEF SendRequest, Rests
<1>7. CASE CommitSend(c)
  <2>1. /\ work[c] /= <<>> /\ work[c] \in Seq(TxFrame) /\ Head(work[c]).cmd = "SEND"
        /\ msgAt' = [msgAt EXCEPT ![Head(work[c]).msg] = HeldBy("out", c)]
        /\ UNCHANGED msgIdHdr
    BY <1>1, <1>7 DEF CommitSend, TypeOK
  <2>2. 1 \in DOMAIN work[c] /\ Head(work[c]) = work[c][1]
    BY <2>1
  <2>3. Head(work[c]).msg \in Msg /\ msgAt[Head(work[c]).msg].by = "work"
    BY <1>1, <2>1, <2>2, HolderBy DEF MsgInv, MsgInWork
  <2> QED
    BY <1>1, <2>1, <2>3 DEF Done, Rests, TypeOK
<1>8. ASSUME NEW i \in DOMAIN subList[c],
             \/ AckOne(c, i, subList[c][i]) \/ NackOne(c, i, subList[c][i])
             \/ AckPanics(c, i)
      PROVE  Rests(x)
  <2>1. CASE AckPanics(c, i)
    BY <1>2, <2>1 DEF AckPanics, objVars
  <2>2. PICK s \in Sub : s = subList[c][i] /\ subAt[s] = "unacked"
    BY InSubList
  <2>3. CASE AckOne(c, i, s) \/ NackOne(c, i, s)
    BY <1>3, <1>4, <2>2, <2>3 DEF AckOne, NackOne, MatchOne, Rests
  <2> QED
    BY <1>8, <2>1, <2>2, <2>3
<1>9. CASE AckEnd(c) \/ WriteTopicFrame(c) \/ CleanupNext(c)
           \/ DiscardWriteChannelFrame(c) \/ CleanupGoodbye(c)
  BY <1>2, <1>9 DEF AckEnd, WriteTopicFrame, ReceiveTopicFrame, CleanupNext,
     DiscardWriteChannelFrame, CleanupGoodbye, objVars
<1>10. CASE TopicWriteFails(c)
  BY <1>10, ExitRests DEF TopicWriteFails, ReceiveTopicFrame, Rests
<1>11. ASSUME NEW s \in Sub, CleanupUnsubscribe(c, s) PROVE Rests(x)
  BY <1>2, <1>11 DEF CleanupUnsubscribe, objVars
<1>12. ASSUME NEW s \in Sub, CleanupRequeue(c, s) PROVE Rests(x)
  <2>1. subList[c] /= <<>> /\ subList[c] \in Seq(Sub) /\ s = Head(subList[c])
    BY <1>1, <1>12 DEF CleanupRequeue, TypeOK
  <2>2. 1 \in DOMAIN subList[c] /\ s = subList[c][1]
    BY <2>1
  <2>3. subAt[s] = "unacked"
    BY <2>2, InSubList
  <2> QED
    BY <1>3, <1>4, <1>12, <2>3 DEF CleanupRequeue, Rests
<1>13. ASSUME NEW s \in Sub, CleanupSubChannel(c, s) PROVE Rests(x)
  <2>1. subAt[s] = "subCh"
    BY <1>13, FirstInSubCh DEF CleanupSubChannel
  <2> QED
    BY <1>3, <1>4, <1>13, <2>1 DEF CleanupSubChannel, Rests
<1>14. ASSUME NEW s \in Sub, \/ DeliverAuto(c, s) \/ DeliverUnacked(c, s)
                             \/ DeliverFails(c, s) \/ ReturnQueueFrame(c, s)
       PROVE  Rests(x)
  <2>1. ReceiveSub(c, s)
    BY <1>14 DEF DeliverAuto, DeliverUnacked, DeliverFails, ReturnQueueFrame, WriteFrame
  <2>2. subAt[s] = "subCh"
    BY <2>1, FirstInSubCh DEF ReceiveSub
  <2>3. frame[s] \in Msg \ {x}
    BY <1>3, <2>2
  <2>4. msgAt'[x] = msgAt[x]
    BY <1>4, <1>14, <2>3, ExitRests
       DEF DeliverAuto, DeliverUnacked, DeliverFails, ReturnQueueFrame
  <2>5. msgIdHdr'[x] = msgIdHdr[x]
    BY <1>5, <1>14, <2>3
       DEF DeliverAuto, DeliverUnacked, DeliverFails, ReturnQueueFrame, WriteFrame
  <2> QED
    BY <2>4, <2>5 DEF Rests
<1> QED
  BY <1>6, <1>7, <1>8, <1>9, <1>10, <1>11, <1>12, <1>13, <1>14
     DEF ConnStep, Execute, Cleanup, WriteQueueFrame

\* Nobody holds a frame that is done with.
LEMMA DoneIsOut == IInv => \A m \in Msg : Done(m) => Copies(m) = {}
<1> SUFFICES ASSUME IInv, NEW m \in Msg, Done(m), NEW z \in Copies(m)
             PROVE  FALSE
  OBVIOUS
<1> QED
  BY CopiesAreHeld, HolderBy DEF Done

\* A frame that was acknowledged, delivered for good or dropped with its transaction
\* is out of the server for ever: no step requeues it, numbers it again or puts it
\* into a list, channel or request.
THEOREM SettledStays == Spec => SettledIsFinal
<1>1. IInv' => (\A m \in Msg : Done(m) => Copies(m) = {})'
  BY DoneIsOut, PTL
<1>2. ASSUME IInv, IInv', [Next]_vars, NEW m \in Msg,
             msgAt[m].by \in {"settled", "discarded"}
      PROVE  msgAt'[m] = msgAt[m] /\ msgIdHdr'[m] = msgIdHdr[m] /\ Copies(m)' = {}
  <2>1. Done(m)
    BY <1>2 DEF Done
  <2>2. Rests(m)
    <3>1. CASE Serve
      BY <1>2, <2>1, <3>1, ServeRests
    <3>2. ASSUME NEW c \in Conn, ClientInput(c) \/ ConnStep(c) PROVE Rests(m)
      BY <1>2, <2>1, <3>2, ClientInputRests, ConnStepRests
    <3>3. CASE UNCHANGED vars
      BY <3>3 DEF vars, objVars, Rests
    <3> QED
      BY <1>2, <3>1, <3>2, <3>3 DEF Next
  <2> QED
    BY <1>1, <1>2, <2>2 DEF Rests, Done
<1>3. IInv /\ IInv' /\ [Next]_vars =>
        [\A m \in Msg : msgAt[m].by \in {"settled", "discarded"} =>
            msgAt'[m] = msgAt[m] /\ msgIdHdr'[m] = msgIdHdr[m] /\ Copies(m)' = {}]_vars
  BY <1>2
<1>4. Spec => [][\A m \in Msg : msgAt[m].by \in {"settled", "discarded"} =>
            msgAt'[m] = msgAt[m] /\ msgIdHdr'[m] = msgIdHdr[m] /\ Copies(m)' = {}]_vars
  BY <1>3, Invariance, PTL DEF Spec
<1> QED
  BY <1>4 DEF SettledIsFinal

-----------------------------------------------------------------------------
(* Panics *)

\* The panicking steps that OnlyKnownPanics lists.
KnownPanic ==
    \/ \E m \in Msg : MsgDest[m] = nil /\ Takes(FrameRequest("Enqueue", m))
    \/ \E s \in Sub : /\ StaleList(s)
                      /\ Takes(SubRequest("Subscribe", s)) \/ TakesSub(s)
    \/ \E s \in Sub : SubAck[s] = "other" /\ Searches(s)

\* The processor allocates frames to subscriptions that have none, and lists those
\* that are in no list, unless they have been acknowledged before.
LEMMA ServePanics ==
    ASSUME SInv, Serve, crashed'
    PROVE  KnownPanic
<1>1. /\ IInv /\ ListedInv /\ TypeOK /\ RequestInv /\ SubInRequest /\ MsgInRequest
      /\ SubInReady /\ SubInTopic /\ FrameInv
  BY DEF SInv, IInv, SubInv, MsgInv
<1>2. ASSUME NEW s \in Sub, Take(SubRequest("Subscribe", s)) PROVE subAt[s] = "request"
  <2>1. PICK r : r = SubRequest("Subscribe", s)
    OBVIOUS
  <2>2. r.op = "Subscribe" /\ r.sub = s /\ Take(r)
    BY <1>2, <2>1 DEF SubRequest
  <2> QED
    BY <1>1, <2>2, HeadFacts
<1>3. ASSUME NEW s \in Sub, subAt[s] \in {"request", "ready", "topic"} PROVE frame[s] = nil
  BY <1>1, <1>3 DEF FrameInv, FrameOf, Loaded
<1>4. ~crashed
  BY OnlyTheLivingStep DEF Next
<1>5. ASSUME NEW q \in Queue, NEW s \in Sub,
             QueueSubscribe(q, s) \/ \E i \in DOMAIN qsubs[q] : QueueUnsubscribe(q, s, i)
      PROVE  KnownPanic
  <2>1. ASSUME NEW m \in Msg, SubscribeServed(q, s, m) PROVE FALSE
    BY <1>2, <1>3, <2>1 DEF SubscribeServed, SendQueueFrame
  <2>2. CASE SubscribeWaits(q, s)
    <3>1. subAt[s] = "request" /\ listed[s]
      BY <1>2, <2>2 DEF SubscribeWaits
    <3>2. StaleList(s)
      BY <1>1, <3>1 DEF ListedInv, Shown, StaleList
    <3>3. Takes(SubRequest("Subscribe", s))
      BY <2>2 DEF SubscribeWaits, Take, Takes
    <3> QED
      BY <3>2, <3>3 DEF KnownPanic
  <2>3. CASE \E i \in DOMAIN qsubs[q] : QueueUnsubscribe(q, s, i)
    BY <1>4, <2>3 DEF QueueUnsubscribe
  <2> QED
    BY <1>5, <2>1, <2>2, <2>3 DEF QueueSubscribe
<1>6. ASSUME NEW q \in Queue, NEW m \in Msg, QueueEnqueue(q, m) \/ QueueRequeue(q, m)
      PROVE  FALSE
  <2>1. ASSUME NEW op, NEW s \in Sub, GiveToReady(op, q, s, m) PROVE FALSE
    <3>1. subAt[s] = "ready"
      <4>1. qsubs \in [Queue -> Seq(Sub)] /\ qsubs[q] /= <<>> /\ s = Head(qsubs[q])
        BY <1>1, <2>1 DEF GiveToReady, TypeOK
      <4> QED
        BY <1>1, <4>1, ListsHead DEF SubInReady
    <3> QED
      BY <1>3, <2>1, <3>1 DEF GiveToReady, SendQueueFrame
  <2>2. ASSUME NEW op, NEW l, Keep(op, q, m, l) PROVE FALSE
    BY <1>4, <2>2 DEF Keep
  <2> QED
    BY <1>6, <2>1, <2>2 DEF QueueEnqueue, QueueRequeue
<1>7. ASSUME NEW t \in Topic, NEW m \in Msg, TopicEnqueue(t, m) PROVE FALSE
  <2>1. PICK i \in DOMAIN tsubs[t] : frame[tsubs[t][i]] /= nil
    BY <1>7 DEF TopicEnqueue
  <2>2. tsubs[t][i] \in Sub /\ subAt[tsubs[t][i]] = "topic"
    BY <1>1 DEF SubInTopic, Lists, TypeOK
  <2> QED
    BY <1>3, <2>1, <2>2
<1>8. ASSUME NEW m \in Msg, MissingDestination(m) PROVE KnownPanic
  BY <1>8 DEF MissingDestination, Take, Takes, KnownPanic
<1>9. CASE \/ \E t \in Topic, s \in Sub :
                \/ TopicSubscribe(t, s)
                \/ \E i \in DOMAIN tsubs[t] : TopicUnsubscribe(t, s, i)
           \/ \E s \in Sub : UnsubscribeAbsent(s)
           \/ IgnoreRequest
           \/ \E c \in Conn, s \in Sub : SendOnSubChannel(c, s) \/ SendOnWriteChannel(c, s)
  BY <1>4, <1>9 DEF TopicSubscribe, TopicUnsubscribe, UnsubscribeAbsent, IgnoreRequest,
     SendOnSubChannel, SendOnWriteChannel
<1> QED
  BY <1>5, <1>6, <1>7, <1>8, <1>9 DEF Serve

\* A connection panics over the list of unacknowledged messages only.
LEMMA ConnPanics ==
    ASSUME SInv, NEW c \in Conn, ClientInput(c) \/ ConnStep(c), crashed'
    PROVE  KnownPanic
<1>1. IInv /\ ListedInv
  BY DEF SInv
<1>2. ~crashed
  BY OnlyTheLivingStep DEF Next
<1>3. CASE Elsewhere
  BY <1>2, <1>3 DEF Elsewhere
<1>4. CASE ClientInput(c)
  BY <1>3, <1>4 DEF ClientInput, Accept, HandleConnect, RefuseConnect, Broken,
     HandleDisconnect, HandleSubscribe, RefuseSubscribe, HandleUnsubscribe, HandleSend,
     HandleSendInTx, HandleBegin, HandleAbort, HandleCommit, RefuseBegin, RefuseTx,
     HandleAck, HandleAckInTx, Reject
<1>5. ASSUME NEW i \in DOMAIN subList[c], AckPanics(c, i) PROVE KnownPanic
  <2>1. PICK s \in Sub : s = subList[c][i] /\ SubConn[s] = c
    BY <1>1, InSubList
  <2>2. Searches(s) /\ SubAck[s] = "other"
    BY <1>5, <2>1 DEF AckPanics, Panics, Searches
  <2> QED
    BY <2>2 DEF KnownPanic
<1>6. ASSUME NEW s \in Sub, DeliverUnacked(c, s) PROVE KnownPanic
  <2>1. subAt[s] = "subCh" /\ listed[s] /\ SubConn[s] = c
    BY <1>1, <1>6, FirstInSubCh DEF DeliverUnacked, WriteFrame, ReceiveSub
  <2>2. StaleList(s)
    BY <1>1, <2>1 DEF ListedInv, Shown, StaleList
  <2>3. TakesSub(s)
    BY <1>1, <1>6, <2>1 DEF DeliverUnacked, WriteFrame, ReceiveSub, TakesSub, IInv, TypeOK
  <2> QED
    BY <2>2, <2>3 DEF KnownPanic
<1>7. ASSUME NEW s \in Sub,
             DeliverAuto(c, s) \/ DeliverFails(c, s) \/ ReturnQueueFrame(c, s)
      PROVE  FALSE
  BY <1>2, <1>7 DEF DeliverAuto, DeliverFails, ReturnQueueFrame
<1>8. CASE \/ SendRequest(c) \/ CommitSend(c) \/ AckEnd(c) \/ Cleanup(c)
           \/ WriteTopicFrame(c) \/ TopicWriteFails(c)
           \/ \E i \in DOMAIN subList[c] : \/ AckOne(c, i, subList[c][i])
                                           \/ NackOne(c, i, subList[c][i])
  BY <1>3, <1>8 DEF SendRequest, CommitSend, AckEnd, Cleanup, CleanupNext,
     DiscardWriteChannelFrame, CleanupGoodbye, CleanupUnsubscribe, CleanupRequeue,
     CleanupSubChannel, WriteTopicFrame, TopicWriteFails, ReceiveTopicFrame, AckOne, NackOne,
     MatchOne
<1> QED
  BY <1>4, <1>5, <1>6, <1>7, <1>8 DEF ConnStep, Execute, WriteQueueFrame

\* The server panics when the processor takes a SEND without destination, when it or a
\* connection lists a subscription again whose message was acknowledged, and when an ACK
\* meets a subscription in an undefined mode, and in no other step.
THEOREM PanicsAreKnown == Spec => OnlyKnownPanics
<1>1. SInv /\ [Next]_vars => [~crashed /\ crashed' => KnownPanic]_vars
  BY ServePanics, ConnPanics DEF Next
<1>2. Spec => [][~crashed /\ crashed' => KnownPanic]_vars
  BY <1>1, PresenceInvariance, PTL DEF Spec
<1> QED
  BY <1>2 DEF OnlyKnownPanics, KnownPanic

-----------------------------------------------------------------------------
(* Dead ends *)

\* While the processor waits for a channel that is full it takes no request, and only
\* the connection of that channel could empty it.
LEMMA DeadEndStep ==
    ASSUME TypeOK, DeadEnd, Next
    PROVE  DeadEnd'
<1>1. PICK s, c : s = Head(procOut).sub /\ c = SubConn[s]
  OBVIOUS
<1>2. PICK full : full = IF SubDest[s] \in Queue THEN subCh[c] ELSE writeCh[c]
  OBVIOUS
<1>3. /\ procOut /= <<>> /\ ~HasRoom(full)
      /\ phase[c] = "closed" \/ (out[c] /= <<>> /\ ~RequestRoom)
  BY <1>1, <1>2 DEF DeadEnd
<1>4. s \in Sub /\ c \in Conn /\ SubDest[s] \in Queue \cup Topic
  <2>1. Head(procOut) \in Delivery
    BY <1>3 DEF TypeOK
  <2> QED
    BY <1>1, <2>1, PoolAssumption DEF Delivery, Dest
<1>5. SubDest[s] \in Queue => SubDest[s] \notin Topic
  BY PoolAssumption
<1>6. SUFFICES /\ procOut' = procOut
               /\ subCh'[c] = subCh[c] /\ writeCh'[c] = writeCh[c]
               /\ phase[c] = "closed" => phase'[c] = "closed"
               /\ out[c] /= <<>> /\ ~RequestRoom => out'[c] = out[c] /\ reqCh' = reqCh
  BY <1>1, <1>2, <1>3, <1>6 DEF DeadEnd, HasRoom, RequestRoom
<1>7. CASE Serve
  <2>1. ASSUME NEW r, Take(r) PROVE FALSE
    BY <1>3, <2>1 DEF Take
  <2>2. ASSUME NEW d \in Conn, NEW z \in Sub, SendOnSubChannel(d, z) PROVE FALSE
    BY <1>1, <1>2, <1>3, <2>2 DEF SendOnSubChannel, NextDelivery
  <2>3. ASSUME NEW d \in Conn, NEW z \in Sub, SendOnWriteChannel(d, z) PROVE FALSE
    BY <1>1, <1>2, <1>3, <1>5, <2>3 DEF SendOnWriteChannel, NextDelivery
  <2> QED
    BY <1>7, <2>1, <2>2, <2>3 DEF Serve, QueueSubscribe, SubscribeServed, SubscribeWaits,
       QueueUnsubscribe, QueueEnqueue, QueueRequeue, Keep, GiveToReady, TopicSubscribe,
       TopicUnsubscribe, TopicEnqueue, UnsubscribeAbsent, MissingDestination, IgnoreRequest
<1>8. ASSUME NEW d \in Conn, ClientInput(d) \/ ConnStep(d)
      PROVE  /\ procOut' = procOut
             /\ subCh'[c] = subCh[c] /\ writeCh'[c] = writeCh[c]
             /\ phase[c] = "closed" => phase'[c] = "closed"
             /\ out[c] /= <<>> /\ ~RequestRoom => out'[c] = out[c] /\ reqCh' = reqCh
  <2>1. /\ subCh \in [Conn -> Seq(Sub)] /\ writeCh \in [Conn -> Seq(Msg)]
        /\ phase \in [Conn -> Phases] /\ out \in [Conn -> Seq(Request)]
    BY DEF TypeOK
  <2>2. CASE SendRequest(d)
    <3>1. /\ UNCHANGED <<procOut, subCh, writeCh, phase>> /\ RequestRoom
      BY <2>2 DEF SendRequest, Elsewhere, procVars
    <3> QED
      BY <1>8, <3>1
  <2>3. CASE Execute(d)
    <3>1. /\ UNCHANGED <<procOut, subCh, writeCh, phase, reqCh>> /\ out[d] = <<>>
          /\ out' = [out EXCEPT ![d] = out'[d]]
      BY <2>1, <2>3 DEF Execute, CommitSend, AckOne, NackOne, MatchOne, AckPanics, AckEnd,
         Elsewhere, Channels, procVars, connVars
    <3> QED
      BY <1>4, <2>1, <3>1
  <2>4. CASE Cleanup(d)
    <3>1. /\ UNCHANGED <<procOut, reqCh>> /\ out[d] = <<>> /\ phase[d] \in CleanupPhases
          /\ \A e \in Conn \ {d} : /\ subCh'[e] = subCh[e] /\ writeCh'[e] = writeCh[e]
                                  /\ phase'[e] = phase[e] /\ out'[e] = out[e]
      BY <2>1, <2>4 DEF Cleanup, CleanupNext, DiscardWriteChannelFrame, CleanupGoodbye,
         CleanupUnsubscribe, CleanupRequeue, CleanupSubChannel, InCleanup, Ready, Elsewhere,
         Channels, procVars, connVars, CleanupPhases, NextPhase
    <3> QED
      BY <1>3, <1>4, <3>1 DEF CleanupPhases, NextPhase
  <2>5. CASE WriteTopicFrame(d) \/ TopicWriteFails(d) \/ WriteQueueFrame(d)
    <3>1. /\ UNCHANGED <<procOut, reqCh>> /\ out[d] = <<>> /\ phase[d] = "connected"
          /\ \A e \in Conn \ {d} : /\ subCh'[e] = subCh[e] /\ writeCh'[e] = writeCh[e]
                                  /\ phase'[e] = phase[e] /\ out'[e] = out[e]
      BY <2>1, <2>5 DEF WriteTopicFrame, TopicWriteFails, ReceiveTopicFrame, WriteQueueFrame,
         DeliverAuto, DeliverUnacked, DeliverFails, ReturnQueueFrame, WriteFrame, ReceiveSub,
         Exit, Selecting, Ready, Elsewhere, procVars
    <3> QED
      BY <1>3, <1>4, <3>1
  <2>6. CASE ClientInput(d)
    <3>1. /\ UNCHANGED <<procOut, subCh, writeCh, reqCh>>
          /\ phase[d] /= "closed"
          /\ \A e \in Conn \ {d} : phase'[e] = phase[e] /\ out'[e] = out[e]
          /\ out[d] = <<>> \/ out' = out
      BY <2>1, <2>6 DEF ClientInput, Accept, HandleConnect, RefuseConnect, Broken,
         HandleDisconnect, HandleSubscribe, RefuseSubscribe, HandleUnsubscribe, HandleSend,
         HandleSendInTx, HandleBegin, HandleAbort, HandleCommit, RefuseBegin, RefuseTx,
         HandleAck, HandleAckInTx, Reject, Exit, Elsewhere, Channels, procVars, objVars, Selecting, Ready
    <3> QED
      BY <1>3, <1>4, <3>1
  <2> QED
    BY <1>8, <2>2, <2>3, <2>4, <2>5, <2>6 DEF ConnStep
<1> QED
  BY <1>7, <1>8 DEF Next

\* Once the processor waits for a connection that has ended, or that waits for it, it
\* waits for ever.
THEOREM DeadEndsAreFinal == Spec => DeadEndIsFinal
<1>1. TypeOK /\ [Next]_vars => [DeadEnd => DeadEnd']_vars
  BY DeadEndStep
<1>2. Spec => [][DeadEnd => DeadEnd']_vars
  BY <1>1, TypesHold, PTL DEF Spec
<1> QED
  BY <1>2 DEF DeadEndIsFinal

=============================================================================
