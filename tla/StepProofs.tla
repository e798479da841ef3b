----------------------------- MODULE StepProofs -----------------------------
(***************************************************************************)
(* Every step of the request processor and of the connections preserves    *)
(* the inductive invariant of the server.                                  *)
(***************************************************************************)
EXTENDS ServerLemmas

-----------------------------------------------------------------------------
(* The request processor *)

\* Queue.Subscribe: the first stored frame passes from the storage to s.
LEMMA SubscribeServedStep ==
    ASSUME IInv, NEW q \in Queue, NEW s \in Sub, NEW m \in Msg,
           SubscribeServed(q, s, m)
    PROVE  IInv'
<1> DEFINE r == SubRequest("Subscribe", s)
<1>1. TypeOK /\ WorkConserving /\ RequestInv /\ SubInv /\ MsgInv
  BY DEF IInv
<1>2. store[q] \in Seq(Msg) /\ store[q] /= <<>> /\ m = Head(store[q])
  BY <1>1, PoolAssumption DEF SubscribeServed, Dequeue, TypeOK
<1>3. /\ Take(r) /\ SubDest[s] = q
      /\ store' = [store EXCEPT ![q] = Tail(@)]
      /\ frame' = [frame EXCEPT ![s] = m]
      /\ procOut' = <<[sub |-> s, frame |-> m]>>
      /\ subAt' = [subAt EXCEPT ![s] = "sending"]
      /\ msgAt' = [msgAt EXCEPT ![m] = HeldBy("sub", s)]
      /\ UNCHANGED <<qsubs, tsubs, subCh, subList, out, work, tx>>
  BY DEF SubscribeServed, SendQueueFrame, AfterDequeue, connVars
<1>4. r.op = "Subscribe" /\ r.sub = s /\ r.frame = nil
  BY DEF SubRequest
<1> HIDE DEF r
<1>5. subAt[s] = "request"
  BY <1>1, <1>3, <1>4, HeadFacts DEF SubInv, MsgInv
<1>6. msgAt[m] = At("store") /\ msgAt[m].by = "store" /\ MsgDest[m] = q
  <2>1. store \in [Queue -> Seq(Msg)] /\ Lists(store, Queue, msgAt, At("store"), MsgDest)
    BY <1>1 DEF TypeOK, MsgInv, MsgInStore
  <2> QED
    BY <1>2, <2>1, ListsHead, HolderBy
<1>7. TypeOK'
  BY <1>1, <1>2, SubscribeServedTypes
<1>8. WorkConserving'
  BY <1>1, <1>2, <1>3 DEF WorkConserving, TypeOK
<1>9. \A x \in Msg : x /= m => msgAt'[x] = msgAt[x]
  BY <1>1, <1>3 DEF TypeOK
<1>10. \A x \in Sub : x /= s => subAt'[x] = subAt[x] /\ frame'[x] = frame[x]
  BY <1>1, <1>3 DEF TypeOK
<1>11. RequestInv' /\ SubInRequest' /\ MsgInRequest'
  BY <1>1, <1>3, <1>4, <1>6, <1>9, <1>10, Taken, HolderBy DEF SubInv, MsgInv
<1>12. SubInOut' /\ SubInReady' /\ SubInTopic' /\ SubInSubCh' /\ SubInSubList'
  BY <1>1, <1>3, <1>5, OtherSubs
<1>13. SubInProc'
  BY <1>1, <1>3 DEF SubInProc, TypeOK
<1>14. FrameInv'
  <2>1. FrameOf(s)'
    BY <1>1, <1>3, <1>6, PoolAssumption DEF FrameOf, TypeOK, Loaded
  <2> QED
    BY <1>1, <1>6, <1>9, <1>10, <2>1, FrameStep, HolderBy DEF SubInv
<1>15. MsgInTx' /\ MsgInWork' /\ MsgInOut'
  BY <1>1, <1>3, <1>6, OtherMsgs
<1>16. MsgInStore'
  <2>1. store \in [Queue -> Seq(Msg)] /\ Lists(store, Queue, msgAt, At("store"), MsgDest)
    BY <1>1 DEF TypeOK, MsgInv, MsgInStore
  <2>2. Lists([store EXCEPT ![q] = Tail(@)], Queue, msgAt', At("store"), MsgDest)
    <3>1. \A x \in Msg : x /= Head(store[q]) /\ msgAt[x] = At("store") => msgAt'[x] = At("store")
      BY <1>2, <1>9
    <3> QED
      BY <1>2, <2>1, <3>1, ListsTail
  <2> QED
    BY <1>3, <2>2 DEF MsgInStore
<1> QED
  BY <1>7, <1>8, <1>11, <1>12, <1>13, <1>14, <1>15, <1>16 DEF IInv, SubInv, MsgInv

\* Queue.Subscribe: s joins the ready subscriptions of its queue.
LEMMA SubscribeWaitsStep ==
    ASSUME IInv, NEW q \in Queue, NEW s \in Sub, SubscribeWaits(q, s)
    PROVE  IInv'
<1> DEFINE r == SubRequest("Subscribe", s)
<1>1. TypeOK /\ WorkConserving /\ RequestInv /\ SubInv /\ MsgInv
  BY DEF IInv
<1>2. store[q] = <<>>
  BY <1>1, PoolAssumption DEF SubscribeWaits, Dequeue, TypeOK
<1>3. /\ Take(r) /\ SubDest[s] = q
      /\ qsubs' = [qsubs EXCEPT ![q] = Append(@, s)]
      /\ subAt' = [subAt EXCEPT ![s] = "ready"]
      /\ UNCHANGED <<store, tsubs, procOut, subCh, subList, out, work, tx, frame, msgAt>>
  BY DEF SubscribeWaits, connVars
<1>4. r.op = "Subscribe" /\ r.sub = s /\ r.frame = nil
  BY DEF SubRequest
<1> HIDE DEF r
<1>5. subAt[s] = "request"
  BY <1>1, <1>3, <1>4, HeadFacts DEF SubInv, MsgInv
<1>6. TypeOK'
  BY <1>1, SubscribeWaitsTypes
<1>7. WorkConserving'
  BY <1>1, <1>2, <1>3 DEF WorkConserving, TypeOK
<1>8. \A x \in Sub : x /= s => subAt'[x] = subAt[x] /\ frame'[x] = frame[x]
  BY <1>1, <1>3 DEF TypeOK
<1>9. RequestInv' /\ SubInRequest' /\ MsgInRequest'
  BY <1>1, <1>3, <1>4, <1>8, Taken DEF SubInv, MsgInv
<1>10. SubInOut' /\ SubInTopic' /\ SubInProc' /\ SubInSubCh' /\ SubInSubList'
  BY <1>1, <1>3, <1>5, OtherSubs
<1>11. SubInReady'
  <2>1. qsubs \in [Queue -> Seq(Sub)] /\ Lists(qsubs, Queue, subAt, "ready", SubDest)
    BY <1>1 DEF TypeOK, SubInv, SubInReady
  <2>2. subAt'[s] = "ready"
    BY <1>1, <1>3 DEF TypeOK
  <2>3. /\ subAt[s] /= "ready" /\ SubDest[s] = q
        /\ \A x \in Sub \ {s} : subAt[x] = "ready" => subAt'[x] = "ready"
    BY <1>3, <1>5, <1>8
  <2>4. Lists([qsubs EXCEPT ![q] = Append(@, s)], Queue, subAt', "ready", SubDest)
    BY <2>1, <2>2, <2>3, ListsAppend
  <2> QED
    BY <1>3, <2>4 DEF SubInReady
<1>12. FrameInv'
  <2>1. FrameOf(s)'
    BY <1>1, <1>3, <1>5 DEF SubInv, FrameInv, FrameOf, TypeOK, Loaded
  <2> QED
    BY <1>1, <1>3, <1>8, <2>1, FrameStep DEF SubInv
<1>13. MsgInTx' /\ MsgInWork' /\ MsgInOut' /\ MsgInStore'
  BY <1>1, <1>3, MsgsStay
<1> QED
  BY <1>6, <1>7, <1>9, <1>10, <1>11, <1>12, <1>13 DEF IInv, SubInv, MsgInv

\* Queue.Unsubscribe: s leaves the ready subscriptions of its queue.
LEMMA QueueUnsubscribeStep ==
    ASSUME IInv, NEW q \in Queue, NEW s \in Sub, NEW i \in DOMAIN qsubs[q],
           QueueUnsubscribe(q, s, i)
    PROVE  IInv'
<1> DEFINE r == SubRequest("Unsubscribe", s)
<1>1. TypeOK /\ WorkConserving /\ RequestInv /\ SubInv /\ MsgInv
  BY DEF IInv
<1>2. /\ Take(r) /\ qsubs[q][i] = s
      /\ qsubs' = [qsubs EXCEPT ![q] = RemoveAt(@, i)]
      /\ subAt' = [subAt EXCEPT ![s] = "gone"]
      /\ UNCHANGED <<store, tsubs, procOut, subCh, subList, out, work, tx, frame, msgAt>>
  BY DEF QueueUnsubscribe, FirstAt, AfterRemove, connVars
<1>3. r.op = "Unsubscribe" /\ r.frame = nil
  BY DEF SubRequest
<1> HIDE DEF r
<1>4. qsubs \in [Queue -> Seq(Sub)] /\ Lists(qsubs, Queue, subAt, "ready", SubDest)
  BY <1>1 DEF TypeOK, SubInv, SubInReady
<1>5. \A x \in Sub : x /= s => subAt'[x] = subAt[x]
  BY <1>1, <1>2 DEF TypeOK
<1>6. /\ Lists([qsubs EXCEPT ![q] = RemoveAt(@, i)], Queue, subAt', "ready", SubDest)
      /\ subAt[s] = "ready"
  <2>1. \A x \in Sub : x /= qsubs[q][i] /\ subAt[x] = "ready" => subAt'[x] = "ready"
    BY <1>2, <1>5
  <2>2. Lists([qsubs EXCEPT ![q] = RemoveAt(@, i)], Queue, subAt', "ready", SubDest)
    BY <1>4, <2>1, ListsRemove
  <2>3. subAt[qsubs[q][i]] = "ready"
    BY <1>4, ListsElement
  <2> QED
    BY <1>2, <2>2, <2>3
<1>7. TypeOK'
  BY <1>1, QueueUnsubscribeTypes
<1>8. WorkConserving'
  <2>1. store[q] = <<>>
    <3>1. qsubs[q] /= <<>>
      OBVIOUS
    <3> QED
      BY <1>1, <3>1 DEF WorkConserving
  <2> QED
    BY <1>1, <1>2, <1>4, <2>1 DEF WorkConserving
<1>9. RequestInv' /\ SubInRequest' /\ MsgInRequest'
  BY <1>1, <1>2, <1>3, <1>5, <1>6, Taken DEF SubInv, MsgInv
<1>10. SubInOut' /\ SubInTopic' /\ SubInProc' /\ SubInSubCh' /\ SubInSubList'
  BY <1>1, <1>2, <1>6, OtherSubs
<1>11. SubInReady'
  BY <1>2, <1>6 DEF SubInReady
<1>12. FrameInv'
  <2>1. FrameOf(s)'
    BY <1>1, <1>2 DEF SubInv, FrameInv, FrameOf, TypeOK, Loaded
  <2> QED
    BY <1>1, <1>2, <1>5, <2>1, FrameStep DEF SubInv
<1>13. MsgInTx' /\ MsgInWork' /\ MsgInOut' /\ MsgInStore'
  BY <1>1, <1>2, MsgsStay
<1> QED
  BY <1>7, <1>8, <1>9, <1>10, <1>11, <1>12, <1>13 DEF IInv, SubInv, MsgInv

\* Queue.Enqueue and Requeue: the frame passes from the request to the first
\* ready subscription.
LEMMA GiveToReadyStep ==
    ASSUME IInv, NEW op \in {"Enqueue", "Requeue"}, NEW q \in Queue, NEW s \in Sub,
           NEW m \in Msg, GiveToReady(op, q, s, m)
    PROVE  IInv'
<1> DEFINE r == FrameRequest(op, m)
<1>1. TypeOK /\ WorkConserving /\ RequestInv /\ SubInv /\ MsgInv
  BY DEF IInv
<1>2. /\ Take(r) /\ MsgDest[m] = q /\ qsubs[q] /= <<>> /\ s = Head(qsubs[q])
      /\ qsubs' = [qsubs EXCEPT ![q] = Tail(@)]
      /\ frame' = [frame EXCEPT ![s] = m]
      /\ procOut' = <<[sub |-> s, frame |-> m]>>
      /\ subAt' = [subAt EXCEPT ![s] = "sending"]
      /\ msgAt' = [msgAt EXCEPT ![m] = HeldBy("sub", s)]
      /\ UNCHANGED <<store, tsubs, subCh, subList, out, work, tx>>
  BY DEF GiveToReady, SendQueueFrame, AfterGet, connVars
<1>3. r.op /= "Subscribe" /\ r.frame = m /\ m /= nil
  BY PoolAssumption DEF FrameRequest
<1> HIDE DEF r
<1>4. qsubs \in [Queue -> Seq(Sub)] /\ Lists(qsubs, Queue, subAt, "ready", SubDest)
  BY <1>1 DEF TypeOK, SubInv, SubInReady
<1>5. subAt[s] = "ready" /\ SubDest[s] = q
  BY <1>2, <1>4, ListsHead, SMTT(30)
<1>6. msgAt[m] = At("request") /\ msgAt[m].by = "request"
  BY <1>1, <1>2, <1>3, HeadFacts, HolderBy DEF SubInv, MsgInv
<1>7. TypeOK'
  BY <1>1, GiveToReadyTypes
<1>8. WorkConserving'
  BY <1>1, <1>2, <1>4 DEF WorkConserving
<1>9. \A x \in Msg : x /= m => msgAt'[x] = msgAt[x]
  BY <1>1, <1>2 DEF TypeOK
<1>10. \A x \in Sub : x /= s => subAt'[x] = subAt[x] /\ frame'[x] = frame[x]
  BY <1>1, <1>2 DEF TypeOK
<1>11. RequestInv' /\ SubInRequest' /\ MsgInRequest'
  BY <1>1, <1>2, <1>3, <1>5, <1>9, <1>10, Taken DEF SubInv, MsgInv
<1>12. SubInOut' /\ SubInTopic' /\ SubInSubCh' /\ SubInSubList'
  BY <1>1, <1>2, <1>5, OtherSubs
<1>13. SubInReady'
  <2>1. Lists([qsubs EXCEPT ![q] = Tail(@)], Queue, subAt', "ready", SubDest)
    <3>1. /\ qsubs[q] /= <<>>
          /\ \A x \in Sub : x /= Head(qsubs[q]) /\ subAt[x] = "ready" => subAt'[x] = "ready"
      BY <1>2, <1>10
    <3> QED
      BY <1>4, <3>1, ListsTail
  <2> QED
    BY <1>2, <2>1 DEF SubInReady
<1>14. SubInProc'
  BY <1>1, <1>2 DEF SubInProc, TypeOK
<1>15. FrameInv'
  <2>1. FrameOf(s)'
    BY <1>1, <1>2, <1>5, PoolAssumption DEF FrameOf, TypeOK, Loaded
  <2> QED
    BY <1>1, <1>6, <1>9, <1>10, <2>1, FrameStep DEF SubInv
<1>16. MsgInTx' /\ MsgInWork' /\ MsgInOut' /\ MsgInStore'
  BY <1>1, <1>2, <1>6, OtherMsgs
<1> QED
  BY <1>7, <1>8, <1>11, <1>12, <1>13, <1>14, <1>15, <1>16 DEF IInv, SubInv, MsgInv

\* Queue.Enqueue and Requeue: the frame passes from the request to one of the
\* ends of the stored list.
LEMMA KeepStep ==
    ASSUME IInv, NEW op \in {"Enqueue", "Requeue"}, NEW q \in Queue, NEW m \in Msg,
           NEW stored, stored = Append(store[q], m) \/ stored = <<m>> \o store[q],
           Keep(op, q, m, stored)
    PROVE  IInv'
<1> DEFINE r == FrameRequest(op, m)
<1>1. TypeOK /\ WorkConserving /\ RequestInv /\ SubInv /\ MsgInv
  BY DEF IInv
<1>2. /\ Take(r) /\ MsgDest[m] = q /\ qsubs[q] = <<>>
      /\ store' = [store EXCEPT ![q] = stored]
      /\ msgAt' = [msgAt EXCEPT ![m] = At("store")]
      /\ UNCHANGED <<qsubs, tsubs, procOut, subCh, subList, out, work, tx, frame, subAt>>
  BY DEF Keep, connVars
<1>3. r.op /= "Subscribe" /\ r.frame = m /\ m /= nil
  BY PoolAssumption DEF FrameRequest
<1> HIDE DEF r
<1>4. store \in [Queue -> Seq(Msg)] /\ Lists(store, Queue, msgAt, At("store"), MsgDest)
  BY <1>1 DEF TypeOK, MsgInv, MsgInStore
<1>5. msgAt[m] = At("request") /\ msgAt[m].by = "request"
  BY <1>1, <1>2, <1>3, HeadFacts, HolderBy DEF SubInv, MsgInv
<1>6. stored \in Seq(Msg)
  <2>1. store[q] \in Seq(Msg)
    BY <1>4
  <2>2. Append(store[q], m) \in Seq(Msg) /\ <<m>> \o store[q] \in Seq(Msg)
    BY <2>1
  <2> QED
    BY <2>2
<1>7. TypeOK'
  BY <1>1, <1>6, KeepTypes
<1>8. WorkConserving'
  BY <1>1, <1>2, <1>4 DEF WorkConserving
<1>9. \A x \in Msg : x /= m => msgAt'[x] = msgAt[x]
  BY <1>1, <1>2 DEF TypeOK
<1>10. RequestInv' /\ SubInRequest' /\ MsgInRequest'
  BY <1>1, <1>2, <1>3, <1>9, Taken DEF SubInv, MsgInv
<1>11. SubInOut' /\ SubInReady' /\ SubInTopic' /\ SubInProc' /\ SubInSubCh' /\ SubInSubList'
  BY <1>1, <1>2, SubsStay
<1>12. FrameInv'
  BY <1>1, <1>2, <1>5, <1>9, FrameKept DEF SubInv
<1>13. MsgInTx' /\ MsgInWork' /\ MsgInOut'
  BY <1>1, <1>2, <1>5, OtherMsgs
<1>14. MsgInStore'
  <2>1. /\ MsgDest[m] = q /\ msgAt[m] /= At("store") /\ msgAt'[m] = At("store")
        /\ \A x \in Msg \ {m} : msgAt[x] = At("store") => msgAt'[x] = At("store")
    BY <1>1, <1>2, <1>5, <1>9, HolderBy DEF TypeOK
  <2>2. CASE stored = Append(store[q], m)
    <3>1. Lists([store EXCEPT ![q] = Append(@, m)], Queue, msgAt', At("store"), MsgDest)
      BY <1>4, <2>1, ListsAppend
    <3> QED
      BY <1>2, <2>2, <3>1 DEF MsgInStore
  <2>3. CASE stored = <<m>> \o store[q]
    <3>1. Lists([store EXCEPT ![q] = <<m>> \o @], Queue, msgAt', At("store"), MsgDest)
      BY <1>4, <2>1, ListsPrepend, ZenonT(30)
    <3> QED
      BY <1>2, <2>3, <3>1 DEF MsgInStore
  <2> QED
    BY <2>2, <2>3
<1> QED
  BY <1>7, <1>8, <1>10, <1>11, <1>12, <1>13, <1>14 DEF IInv, SubInv, MsgInv

\* Topic.Subscribe: s joins the subscriptions of its topic.
LEMMA TopicSubscribeStep ==
    ASSUME IInv, NEW t \in Topic, NEW s \in Sub, TopicSubscribe(t, s)
    PROVE  IInv'
<1> DEFINE r == SubRequest("Subscribe", s)
<1>1. TypeOK /\ WorkConserving /\ RequestInv /\ SubInv /\ MsgInv
  BY DEF IInv
<1>2. /\ Take(r) /\ SubDest[s] = t
      /\ tsubs' = [tsubs EXCEPT ![t] = Append(@, s)]
      /\ subAt' = [subAt EXCEPT ![s] = "topic"]
      /\ UNCHANGED <<store, qsubs, procOut, subCh, subList, out, work, tx, frame, msgAt>>
  BY DEF TopicSubscribe, connVars
<1>3. r.op = "Subscribe" /\ r.sub = s /\ r.frame = nil
  BY DEF SubRequest
<1> HIDE DEF r
<1>4. subAt[s] = "request"
  BY <1>1, <1>2, <1>3, HeadFacts DEF SubInv, MsgInv
<1>5. TypeOK'
  BY <1>1, TopicSubscribeTypes
<1>6. \A x \in Sub : x /= s => subAt'[x] = subAt[x] /\ frame'[x] = frame[x]
  BY <1>1, <1>2 DEF TypeOK
<1>7. RequestInv' /\ SubInRequest' /\ MsgInRequest'
  BY <1>1, <1>2, <1>3, <1>6, Taken DEF SubInv, MsgInv
<1>8. SubInOut' /\ SubInReady' /\ SubInProc' /\ SubInSubCh' /\ SubInSubList'
  BY <1>1, <1>2, <1>4, OtherSubs
<1>9. SubInTopic'
  <2>1. tsubs \in [Topic -> Seq(Sub)] /\ Lists(tsubs, Topic, subAt, "topic", SubDest)
    BY <1>1 DEF TypeOK, SubInv, SubInTopic
  <2>2. /\ SubDest[s] = t /\ subAt[s] /= "topic" /\ subAt'[s] = "topic"
        /\ \A x \in Sub \ {s} : subAt[x] = "topic" => subAt'[x] = "topic"
    BY <1>1, <1>2, <1>4, <1>6 DEF TypeOK
  <2>3. Lists([tsubs EXCEPT ![t] = Append(@, s)], Topic, subAt', "topic", SubDest)
    BY <2>1, <2>2, ListsAppend
  <2> QED
    BY <1>2, <2>3 DEF SubInTopic
<1>10. FrameInv'
  <2>1. FrameOf(s)'
    BY <1>1, <1>2, <1>4 DEF SubInv, FrameInv, FrameOf, TypeOK, Loaded
  <2> QED
    BY <1>1, <1>2, <1>6, <2>1, FrameStep DEF SubInv
<1>11. MsgInTx' /\ MsgInWork' /\ MsgInOut' /\ MsgInStore'
  BY <1>1, <1>2, MsgsStay
<1>12. WorkConserving'
  BY <1>1, <1>2 DEF WorkConserving
<1> QED
  BY <1>5, <1>7, <1>8, <1>9, <1>10, <1>11, <1>12 DEF IInv, SubInv, MsgInv

\* Topic.Unsubscribe: s leaves the subscriptions of its topic.
LEMMA TopicUnsubscribeStep ==
    ASSUME IInv, NEW t \in Topic, NEW s \in Sub, NEW j \in DOMAIN tsubs[t],
           TopicUnsubscribe(t, s, j)
    PROVE  IInv'
<1> DEFINE r == SubRequest("Unsubscribe", s)
<1>1. TypeOK /\ WorkConserving /\ RequestInv /\ SubInv /\ MsgInv
  BY DEF IInv
<1>2. /\ Take(r) /\ tsubs[t][j] = s
      /\ tsubs' = [tsubs EXCEPT ![t] = RemoveAt(@, j)]
      /\ subAt' = [subAt EXCEPT ![s] = "gone"]
      /\ UNCHANGED <<store, qsubs, procOut, subCh, subList, out, work, tx, frame, msgAt>>
  BY DEF TopicUnsubscribe, FirstAt, AfterRemove, connVars
<1>3. r.op = "Unsubscribe" /\ r.frame = nil
  BY DEF SubRequest
<1> HIDE DEF r
<1>4. tsubs \in [Topic -> Seq(Sub)] /\ Lists(tsubs, Topic, subAt, "topic", SubDest)
  BY <1>1 DEF TypeOK, SubInv, SubInTopic
<1>5. \A x \in Sub : x /= s => subAt'[x] = subAt[x]
  BY <1>1, <1>2 DEF TypeOK
<1>6. subAt[s] = "topic"
  <2>1. subAt[tsubs[t][j]] = "topic"
    BY <1>4, ListsElement
  <2> QED
    BY <1>2, <2>1
<1>7. TypeOK'
  BY <1>1, TopicUnsubscribeTypes
<1>8. RequestInv' /\ SubInRequest' /\ MsgInRequest'
  BY <1>1, <1>2, <1>3, <1>5, <1>6, Taken DEF SubInv, MsgInv
<1>9. SubInOut' /\ SubInReady' /\ SubInProc' /\ SubInSubCh' /\ SubInSubList'
  BY <1>1, <1>2, <1>6, OtherSubs
<1>10. SubInTopic'
  <2>1. \A x \in Sub : x /= tsubs[t][j] /\ subAt[x] = "topic" => subAt'[x] = "topic"
    BY <1>2, <1>5
  <2>2. Lists([tsubs EXCEPT ![t] = RemoveAt(@, j)], Topic, subAt', "topic", SubDest)
    BY <1>4, <2>1, ListsRemove
  <2> QED
    BY <1>2, <2>2 DEF SubInTopic
<1>11. FrameInv'
  <2>1. FrameOf(s)'
    BY <1>1, <1>2 DEF SubInv, FrameInv, FrameOf, TypeOK, Loaded
  <2> QED
    BY <1>1, <1>2, <1>5, <2>1, FrameStep DEF SubInv
<1>12. MsgInTx' /\ MsgInWork' /\ MsgInOut' /\ MsgInStore'
  BY <1>1, <1>2, MsgsStay
<1>13. WorkConserving'
  BY <1>1, <1>2 DEF WorkConserving
<1> QED
  BY <1>7, <1>8, <1>9, <1>10, <1>11, <1>12, <1>13 DEF IInv, SubInv, MsgInv

\* Topic.Enqueue: the frame ends in copies for subscriptions of the topic, none
\* of which is a subscription of a queue.
LEMMA TopicEnqueueStep ==
    ASSUME IInv, NEW t \in Topic, NEW m \in Msg, TopicEnqueue(t, m)
    PROVE  IInv'
<1> DEFINE r == FrameRequest("Enqueue", m)
<1>1. TypeOK /\ WorkConserving /\ RequestInv /\ SubInv /\ MsgInv
  BY DEF IInv
<1>2. /\ Take(r)
      /\ procOut' = Broadcast(t, m)
      /\ msgAt' = [msgAt EXCEPT ![m] = At("topic")]
      /\ UNCHANGED <<store, qsubs, tsubs, subCh, subList, out, work, tx, frame, subAt>>
  BY DEF TopicEnqueue, connVars
<1>3. r.op /= "Subscribe" /\ r.frame = m /\ m /= nil
  BY PoolAssumption DEF FrameRequest
<1> HIDE DEF r
<1>4. msgAt[m].by = "request"
  BY <1>1, <1>2, <1>3, HeadFacts, HolderBy DEF SubInv, MsgInv
<1>5. TypeOK'
  BY <1>1, TopicEnqueueTypes
<1>6. \A x \in Msg : x /= m => msgAt'[x] = msgAt[x]
  BY <1>1, <1>2 DEF TypeOK
<1>7. RequestInv' /\ SubInRequest' /\ MsgInRequest'
  BY <1>1, <1>2, <1>3, <1>6, Taken DEF SubInv, MsgInv
<1>8. SubInOut' /\ SubInReady' /\ SubInTopic' /\ SubInSubCh' /\ SubInSubList'
  BY <1>1, <1>2, SubsStay
<1>9. SubInProc'
  <2>1. \A i \in DOMAIN tsubs[t] : SubDest[tsubs[t][i]] = t
    BY <1>1 DEF SubInv, SubInTopic, Lists
  <2>2. t \notin Queue
    BY PoolAssumption
  <2>3. /\ DOMAIN procOut' = DOMAIN tsubs[t]
        /\ \A i \in DOMAIN tsubs[t] : procOut'[i].sub = tsubs[t][i]
    BY <1>2 DEF Broadcast
  <2> QED
    BY <2>1, <2>2, <2>3 DEF SubInProc
<1>10. FrameInv'
  BY <1>1, <1>2, <1>4, <1>6, FrameKept DEF SubInv
<1>11. MsgInTx' /\ MsgInWork' /\ MsgInOut' /\ MsgInStore'
  BY <1>1, <1>2, <1>4, OtherMsgs
<1>12. WorkConserving'
  BY <1>1, <1>2 DEF WorkConserving
<1> QED
  BY <1>5, <1>7, <1>8, <1>9, <1>10, <1>11, <1>12 DEF IInv, SubInv, MsgInv

\* A request that only leaves the channel: nothing changes hands.
LEMMA NoEffectStep ==
    ASSUME IInv, NEW r, Take(r), TypeOK',
           UNCHANGED <<procVars, connVars, subCh, writeCh, objVars>>
    PROVE  IInv'
<1>1. TypeOK /\ WorkConserving /\ RequestInv /\ SubInv /\ MsgInv
  BY DEF IInv
<1>2. UNCHANGED <<store, qsubs, tsubs, procOut, subCh, subList, out, work, tx, frame,
                  subAt, msgAt>>
  BY DEF procVars, connVars, objVars
<1>3. RequestInv' /\ SubInRequest' /\ MsgInRequest'
  BY <1>1, <1>2, Taken DEF SubInv, MsgInv
<1>4. SubInOut' /\ SubInReady' /\ SubInTopic' /\ SubInProc' /\ SubInSubCh' /\ SubInSubList'
  BY <1>1, <1>2, SubsStay
<1>5. FrameInv'
  BY <1>1, <1>2, FrameKept DEF SubInv
<1>6. MsgInTx' /\ MsgInWork' /\ MsgInOut' /\ MsgInStore'
  BY <1>1, <1>2, MsgsStay
<1>7. WorkConserving'
  BY <1>1, <1>2 DEF WorkConserving
<1> QED
  BY <1>3, <1>4, <1>5, <1>6, <1>7 DEF IInv, SubInv, MsgInv

\* The end of SendQueueFrame: s passes from the processor to subChannel.
LEMMA SendOnSubChannelStep ==
    ASSUME IInv, NEW c \in Conn, NEW s \in Sub, SendOnSubChannel(c, s)
    PROVE  IInv'
<1>1. TypeOK /\ WorkConserving /\ RequestInv /\ SubInv /\ MsgInv
  BY DEF IInv
<1>2. /\ procOut /= <<>> /\ s = Head(procOut).sub /\ SubConn[s] = c
      /\ procOut' = Tail(procOut) /\ SubDest[s] \in Queue
      /\ subCh' = [subCh EXCEPT ![c] = Append(@, s)]
      /\ subAt' = [subAt EXCEPT ![s] = "subCh"]
      /\ UNCHANGED <<reqCh, store, qsubs, tsubs, subList, out, work, tx, frame, msgAt>>
  BY DEF SendOnSubChannel, NextDelivery, connVars
<1>3. subAt[s] = "sending" /\ procOut' = <<>>
  <2>1. procOut \in Seq(Delivery) /\ Head(procOut) = procOut[1] /\ 1 \in DOMAIN procOut
    BY <1>1, <1>2 DEF TypeOK
  <2>2. Len(procOut) = 1 /\ subAt[s] = "sending"
    BY <1>1, <1>2, <2>1 DEF SubInv, SubInProc
  <2> QED
    BY <1>2, <2>1, <2>2
<1>4. TypeOK'
  BY <1>1, SendOnSubChannelTypes
<1>5. \A x \in Sub : x /= s => subAt'[x] = subAt[x] /\ frame'[x] = frame[x]
  BY <1>1, <1>2 DEF TypeOK
<1>6. SubInRequest' /\ SubInOut' /\ SubInReady' /\ SubInTopic' /\ SubInSubList'
  BY <1>1, <1>2, <1>3, OtherSubs
<1>7. SubInProc'
  BY <1>3 DEF SubInProc
<1>8. SubInSubCh'
  <2>1. subCh \in [Conn -> Seq(Sub)] /\ Lists(subCh, Conn, subAt, "subCh", SubConn)
    BY <1>1 DEF TypeOK, SubInv, SubInSubCh
  <2>2. /\ SubConn[s] = c /\ subAt[s] /= "subCh" /\ subAt'[s] = "subCh"
        /\ \A x \in Sub \ {s} : subAt[x] = "subCh" => subAt'[x] = "subCh"
    BY <1>1, <1>2, <1>3, <1>5 DEF TypeOK
  <2>3. Lists([subCh EXCEPT ![c] = Append(@, s)], Conn, subAt', "subCh", SubConn)
    BY <2>1, <2>2, ListsAppend
  <2> QED
    BY <1>2, <2>3 DEF SubInSubCh
<1>9. FrameInv'
  <2>1. FrameOf(s)'
    BY <1>1, <1>2, <1>3 DEF SubInv, FrameInv, FrameOf, TypeOK, Loaded
  <2> QED
    BY <1>1, <1>2, <1>5, <2>1, FrameStep DEF SubInv
<1>10. MsgInv'
  BY <1>1, <1>2, MsgsStay DEF MsgInv
<1>11. WorkConserving' /\ RequestInv'
  BY <1>1, <1>2 DEF WorkConserving, RequestInv
<1> QED
  BY <1>4, <1>6, <1>7, <1>8, <1>9, <1>10, <1>11 DEF IInv, SubInv

\* The end of SendTopicFrame: one copy fewer to send.
LEMMA SendOnWriteChannelStep ==
    ASSUME IInv, NEW c \in Conn, NEW s \in Sub, SendOnWriteChannel(c, s)
    PROVE  IInv'
<1>1. TypeOK /\ WorkConserving /\ RequestInv /\ SubInv /\ MsgInv
  BY DEF IInv
<1>2. /\ procOut /= <<>> /\ procOut' = Tail(procOut)
      /\ UNCHANGED <<reqCh, store, qsubs, tsubs, subCh, subList, out, work, tx, frame,
                     subAt, msgAt>>
  BY DEF SendOnWriteChannel, NextDelivery, connVars, objVars
<1>3. TypeOK'
  BY <1>1, SendOnWriteChannelTypes
<1>4. SubInRequest' /\ SubInOut' /\ SubInReady' /\ SubInTopic' /\ SubInSubCh' /\ SubInSubList'
  BY <1>1, <1>2, SubsStay
<1>5. SubInProc'
  <2>1. procOut \in Seq(Delivery)
    BY <1>1 DEF TypeOK
  <2>2. \A i \in DOMAIN procOut' : /\ i + 1 \in DOMAIN procOut
                                   /\ procOut'[i] = procOut[i + 1] /\ Len(procOut) /= 1
    BY <1>2, <2>1
  <2> QED
    BY <1>1, <1>2, <2>2 DEF SubInv, SubInProc
<1>6. FrameInv'
  BY <1>1, <1>2, FrameKept DEF SubInv
<1>7. MsgInv'
  BY <1>1, <1>2, MsgsStay DEF MsgInv
<1>8. WorkConserving' /\ RequestInv'
  BY <1>1, <1>2 DEF WorkConserving, RequestInv
<1> QED
  BY <1>3, <1>4, <1>5, <1>6, <1>7, <1>8 DEF IInv, SubInv

\* Every step of the request processor preserves the invariant.
THEOREM ServeStep ==
    ASSUME IInv, Serve
    PROVE  IInv'
<1>1. CASE \E q \in Queue, s \in Sub : QueueSubscribe(q, s)
  BY <1>1, SubscribeServedStep, SubscribeWaitsStep DEF QueueSubscribe
<1>2. CASE \E q \in Queue, s \in Sub : \E i \in DOMAIN qsubs[q] : QueueUnsubscribe(q, s, i)
  BY <1>2, QueueUnsubscribeStep
<1>3. CASE \E q \in Queue, m \in Msg : QueueEnqueue(q, m) \/ QueueRequeue(q, m)
  BY <1>3, GiveToReadyStep, KeepStep DEF QueueEnqueue, QueueRequeue, PushBack, PushFront
<1>4. CASE \E t \in Topic, s \in Sub : TopicSubscribe(t, s)
  BY <1>4, TopicSubscribeStep
<1>5. CASE \E t \in Topic, s \in Sub : \E i \in DOMAIN tsubs[t] : TopicUnsubscribe(t, s, i)
  BY <1>5, TopicUnsubscribeStep
<1>6. CASE \E t \in Topic, m \in Msg : TopicEnqueue(t, m)
  BY <1>6, TopicEnqueueStep
<1>7. CASE \E s \in Sub : UnsubscribeAbsent(s)
  BY <1>7, NoEffectStep, UnsubscribeAbsentTypes DEF UnsubscribeAbsent, IInv
<1>8. CASE \E m \in Msg : MissingDestination(m)
  BY <1>8, NoEffectStep, MissingDestinationTypes DEF MissingDestination, IInv
<1>9. CASE IgnoreRequest
  BY <1>9, NoEffectStep, IgnoreRequestTypes DEF IgnoreRequest, IInv
<1>10. CASE \E c \in Conn, s \in Sub : SendOnSubChannel(c, s) \/ SendOnWriteChannel(c, s)
  BY <1>10, SendOnSubChannelStep, SendOnWriteChannelStep
<1> QED
  BY <1>1, <1>2, <1>3, <1>4, <1>5, <1>6, <1>7, <1>8, <1>9, <1>10 DEF Serve

-----------------------------------------------------------------------------
(* The connections: what steps of one kind have in common *)

\* A step that hands nothing over keeps everything but, perhaps, what the
\* invariant says of transactions and of frames being executed.
LEMMA NothingMoves ==
    ASSUME IInv, UNCHANGED <<reqCh, store, qsubs, tsubs, procOut, subCh, subList, out,
                             frame, subAt, msgAt>>
    PROVE  /\ WorkConserving' /\ RequestInv' /\ SubInv'
           /\ MsgInOut' /\ MsgInRequest' /\ MsgInStore'
           /\ UNCHANGED tx => MsgInTx'
           /\ UNCHANGED work => MsgInWork'
<1>1. TypeOK /\ WorkConserving /\ RequestInv /\ SubInv /\ MsgInv
  BY DEF IInv
<1>2. WorkConserving' /\ RequestInv'
  BY <1>1 DEF WorkConserving, RequestInv
<1>3. SubInv'
  BY <1>1, SubsStay, FrameKept DEF SubInv
<1> QED
  BY <1>1, <1>2, <1>3, MsgsStay

\* A step that hands over frames only, none of them borne by a subscription.
LEMMA OnlyMsgsMove ==
    ASSUME IInv, UNCHANGED <<reqCh, store, qsubs, tsubs, procOut, subCh, subList,
                             frame, subAt>>,
           \A m \in Msg : msgAt[m].by = "sub" => msgAt'[m] = msgAt[m]
    PROVE  /\ WorkConserving' /\ FrameInv'
           /\ SubInRequest' /\ SubInReady' /\ SubInTopic' /\ SubInProc' /\ SubInSubCh'
           /\ SubInSubList'
           /\ UNCHANGED out => SubInOut' /\ RequestInv'
<1>1. TypeOK /\ WorkConserving /\ RequestInv /\ SubInv
  BY DEF IInv
<1>2. WorkConserving'
  BY <1>1 DEF WorkConserving
<1>3. UNCHANGED out => RequestInv'
  BY <1>1 DEF RequestInv
<1>4. FrameInv'
  BY <1>1, FrameKept DEF SubInv
<1> QED
  BY <1>1, <1>2, <1>3, <1>4, SubsStay

\* Leaving the loop drops the frames of the connection's transactions and
\* leaves every other frame where it is.
LEMMA ExitMsgs ==
    ASSUME TypeOK, MsgInTx, NEW c \in Conn, Exit(c)
    PROVE  /\ MsgInTx'
           /\ \A m \in Msg : msgAt[m].by /= "tx" => msgAt'[m] = msgAt[m]
<1>1. /\ tx' = [t \in Tx |-> IF TxConn[t] = c THEN nil ELSE tx[t]]
      /\ msgAt' = [m \in Msg |-> IF msgAt[m].by = "tx" /\ TxConn[msgAt[m].who] = c
                                 THEN At("discarded") ELSE msgAt[m]]
  BY DEF Exit
<1>2. \A m \in Msg : msgAt[m].by /= "tx" => msgAt'[m] = msgAt[m]
  BY <1>1
<1>3. ASSUME NEW t \in Tx, tx'[t] /= nil
      PROVE  tx'[t] = tx[t] /\ TxConn[t] /= c
  BY <1>1, <1>3
<1>4. ASSUME NEW t \in Tx, TxConn[t] /= c, NEW m \in Msg, msgAt[m] = HeldBy("tx", t)
      PROVE  msgAt'[m] = HeldBy("tx", t)
  <2>1. msgAt[m].who = t
    BY <1>4, HolderBy
  <2> QED
    BY <1>1, <1>4, <2>1
<1>5. MsgInTx'
  BY <1>3, <1>4 DEF MsgInTx
<1> QED
  BY <1>2, <1>5

\* A subscription with a frame: what the frame is and who holds it.
LEMMA Carried ==
    ASSUME IInv, NEW s \in Sub, subAt[s] \in {"subCh", "unacked"}
    PROVE  /\ SubDest[s] \in Queue /\ frame[s] \in Msg /\ frame[s] /= nil
           /\ MsgDest[frame[s]] \in Queue
           /\ msgAt[frame[s]] = HeldBy("sub", s) /\ msgAt[frame[s]].by = "sub"
           /\ msgAt[frame[s]].who = s
BY PoolAssumption, HolderBy DEF IInv, SubInv, FrameInv, FrameOf, Loaded

\* The first subscription in subChannel.
LEMMA FirstInSubCh ==
    ASSUME IInv, NEW c \in Conn, subCh[c] /= <<>>
    PROVE  /\ Head(subCh[c]) \in Sub /\ subAt[Head(subCh[c])] = "subCh"
           /\ SubConn[Head(subCh[c])] = c
<1>1. subCh \in [Conn -> Seq(Sub)] /\ Lists(subCh, Conn, subAt, "subCh", SubConn)
  BY DEF IInv, TypeOK, SubInv, SubInSubCh
<1> QED
  BY <1>1, ListsHead

\* Taking the first subscription out of subChannel.
LEMMA SubChTaken ==
    ASSUME IInv, NEW c \in Conn, subCh[c] /= <<>>,
           subCh' = [subCh EXCEPT ![c] = Tail(@)],
           \A x \in Sub : x /= Head(subCh[c]) => subAt'[x] = subAt[x]
    PROVE  SubInSubCh'
<1>1. subCh \in [Conn -> Seq(Sub)] /\ Lists(subCh, Conn, subAt, "subCh", SubConn)
  BY DEF IInv, TypeOK, SubInv, SubInSubCh
<1>2. \A x \in Sub : x /= Head(subCh[c]) /\ subAt[x] = "subCh" => subAt'[x] = "subCh"
  OBVIOUS
<1>3. Lists([subCh EXCEPT ![c] = Tail(@)], Conn, subAt', "subCh", SubConn)
  BY <1>1, <1>2, ListsTail
<1> QED
  BY <1>3 DEF SubInSubCh

\* Removing element i of the unacknowledged subscriptions of c.
LEMMA SubListWithout ==
    ASSUME IInv, NEW c \in Conn, NEW i \in DOMAIN subList[c],
           \A x \in Sub : x /= subList[c][i] /\ subAt[x] = "unacked"
                             => subAt'[x] = "unacked"
    PROVE  Lists([subList EXCEPT ![c] = RemoveAt(@, i)], Conn, subAt', "unacked", SubConn)
<1>1. subList \in [Conn -> Seq(Sub)] /\ Lists(subList, Conn, subAt, "unacked", SubConn)
  BY DEF IInv, TypeOK, SubInv, SubInSubList
<1> QED
  BY <1>1, ListsRemove

\* Element i of the unacknowledged subscriptions of c.
LEMMA InSubList ==
    ASSUME IInv, NEW c \in Conn, NEW i \in DOMAIN subList[c]
    PROVE  /\ subList[c][i] \in Sub /\ subAt[subList[c][i]] = "unacked"
           /\ SubConn[subList[c][i]] = c
<1>1. subList \in [Conn -> Seq(Sub)] /\ Lists(subList, Conn, subAt, "unacked", SubConn)
  BY DEF IInv, TypeOK, SubInv, SubInSubList
<1> QED
  BY <1>1, ListsElement

\* The frame of subscription s passes to somebody who is not s, and s changes
\* hands too; the container of s and the requests are left to look at.
LEMMA GivesUpFrame ==
    ASSUME IInv, NEW s \in Sub, subAt[s] \in {"subCh", "unacked"},
           subAt'[s] \in {"out", "gone"}, subAt'[s] = "out" => frame'[s] = nil,
           \A x \in Sub : x /= s => subAt'[x] = subAt[x] /\ frame'[x] = frame[x],
           \A m \in Msg : m /= frame[s] => msgAt'[m] = msgAt[m],
           UNCHANGED <<reqCh, store, qsubs, tsubs, procOut, tx, work>>
    PROVE  /\ WorkConserving' /\ FrameInv'
           /\ SubInRequest' /\ SubInReady' /\ SubInTopic' /\ SubInProc'
           /\ subAt[s] /= "subCh" /\ UNCHANGED subCh => SubInSubCh'
           /\ subAt[s] /= "unacked" /\ UNCHANGED subList => SubInSubList'
           /\ MsgInTx' /\ MsgInWork' /\ MsgInRequest' /\ MsgInStore'
           /\ \A m \in Msg : msgAt[m].by = "out" => msgAt'[m] = msgAt[m]
<1>1. TypeOK /\ WorkConserving /\ RequestInv /\ SubInv /\ MsgInv
  BY DEF IInv
<1>2. /\ SubDest[s] \in Queue /\ frame[s] \in Msg
      /\ msgAt[frame[s]].by = "sub" /\ msgAt[frame[s]].who = s
  BY Carried
<1>3. WorkConserving'
  BY <1>1 DEF WorkConserving
<1>4. FrameInv'
  <2>1. FrameOf(s)'
    BY <1>2, PoolAssumption DEF FrameOf, Loaded
  <2> QED
    BY <1>1, <1>2, <2>1, FrameStep DEF SubInv
<1>5. /\ SubInRequest' /\ SubInReady' /\ SubInTopic' /\ SubInProc'
      /\ subAt[s] /= "subCh" /\ UNCHANGED subCh => SubInSubCh'
      /\ subAt[s] /= "unacked" /\ UNCHANGED subList => SubInSubList'
  BY <1>1, RequestSubsKept, ReadyKept, TopicKept, ProcKept, SubChKept, SubListKept
     DEF SubInv
<1>6. \A m \in Msg : msgAt[m].by /= "sub" => msgAt'[m] = msgAt[m]
  BY <1>2
<1>7. MsgInTx' /\ MsgInWork' /\ MsgInRequest' /\ MsgInStore'
  BY <1>1, <1>6, TxKept, WorkKept, RequestMsgsKept, StoreKept DEF MsgInv
<1> QED
  BY <1>3, <1>4, <1>5, <1>6, <1>7

\* The frame at the head of a commit has been executed.
LEMMA WorkTail ==
    ASSUME MsgInWork, NEW c \in Conn, work \in [Conn -> Seq(TxFrame)], work[c] /= <<>>,
           work' = [work EXCEPT ![c] = Tail(@)],
           \A m \in Msg : /\ msgAt[m].by = "work"
                          /\ ~(Head(work[c]).cmd = "SEND" /\ Head(work[c]).msg = m)
                          => msgAt'[m] = msgAt[m]
    PROVE  MsgInWork'
<1>1. /\ \A d \in Conn \ {c} : work'[d] = work[d]
      /\ work'[c] = Tail(work[c]) /\ work[c] \in Seq(TxFrame)
  OBVIOUS
<1>2. /\ \A i \in DOMAIN work'[c] : /\ i + 1 \in DOMAIN work[c] /\ i + 1 /= 1
                                    /\ work'[c][i] = work[c][i + 1] /\ i \in Int
      /\ \A i, j \in Int : i + 1 = j + 1 => i = j
      /\ 1 \in DOMAIN work[c] /\ Head(work[c]) = work[c][1]
  BY <1>1
<1>3. ASSUME NEW d \in Conn, NEW i \in DOMAIN work'[d], work'[d][i].cmd = "SEND"
      PROVE  work'[d][i].msg \in Msg /\ msgAt'[work'[d][i].msg] = HeldBy("work", d)
  <2>1. CASE d = c
    <3>1. /\ work[c][i + 1].cmd = "SEND" /\ work[c][i + 1].msg \in Msg
          /\ msgAt[work[c][i + 1].msg] = HeldBy("work", c)
      BY <1>2, <1>3, <2>1 DEF MsgInWork
    <3>2. ~(Head(work[c]).cmd = "SEND" /\ Head(work[c]).msg = work[c][i + 1].msg)
      BY <1>2, <2>1, <3>1 DEF MsgInWork
    <3> QED
      BY <1>2, <2>1, <3>1, <3>2, HolderBy, SMTT(30)
  <2>2. CASE d /= c
    <3>1. /\ work[d][i].cmd = "SEND" /\ work[d][i].msg \in Msg /\ work'[d] = work[d]
          /\ msgAt[work[d][i].msg] = HeldBy("work", d)
      BY <1>1, <1>3, <2>2 DEF MsgInWork
    <3>2. ~(Head(work[c]).cmd = "SEND" /\ Head(work[c]).msg = work[d][i].msg)
      <4>1. Head(work[c]).cmd = "SEND" => msgAt[Head(work[c]).msg].who = c
        BY <1>2, HolderBy DEF MsgInWork
      <4> QED
        BY <2>2, <3>1, <4>1, HolderBy
    <3>3. msgAt[work[d][i].msg].by = "work"
      BY <3>1, HolderBy
    <3>4. msgAt'[work[d][i].msg] = msgAt[work[d][i].msg]
      BY <3>1, <3>2, <3>3
    <3> QED
      BY <3>1, <3>4
  <2> QED
    BY <2>1, <2>2
<1>4. ASSUME NEW d \in Conn, NEW i \in DOMAIN work'[d], NEW j \in DOMAIN work'[d],
             work'[d][i].cmd = "SEND", work'[d][j].cmd = "SEND",
             work'[d][i].msg = work'[d][j].msg
      PROVE  i = j
  <2>1. CASE d = c
    <3>1. i + 1 = j + 1
      BY <1>2, <1>4, <2>1 DEF MsgInWork
    <3> QED
      BY <1>2, <2>1, <3>1
  <2>2. CASE d /= c
    BY <1>1, <1>4, <2>2 DEF MsgInWork
  <2> QED
    BY <2>1, <2>2
<1> QED
  BY <1>3, <1>4 DEF MsgInWork

\* txStore.Add: a frame at the end of transaction x.
LEMMA TxAppended ==
    ASSUME MsgInTx, NEW x \in Tx, tx \in [Tx -> Seq(TxFrame) \cup {nil}], tx[x] /= nil,
           NEW f, tx' = [tx EXCEPT ![x] = Append(@, f)],
           f.cmd = "SEND" => /\ f.msg \in Msg /\ msgAt'[f.msg] = HeldBy("tx", x)
                             /\ msgAt[f.msg].by /= "tx",
           \A m \in Msg : msgAt[m].by = "tx" => msgAt'[m] = msgAt[m]
    PROVE  MsgInTx'
<1>1. /\ \A t \in Tx \ {x} : tx'[t] = tx[t]
      /\ tx'[x] = Append(tx[x], f) /\ tx[x] \in Seq(TxFrame)
  OBVIOUS
<1>2. \A i \in DOMAIN tx'[x] : \/ i \in DOMAIN tx[x] /\ tx'[x][i] = tx[x][i]
                               \/ i = Len(tx[x]) + 1 /\ tx'[x][i] = f
  BY <1>1
<1>3. ASSUME NEW t \in Tx, tx'[t] /= nil, NEW i \in DOMAIN tx'[t], tx'[t][i].cmd = "SEND"
      PROVE  tx'[t][i].msg \in Msg /\ msgAt'[tx'[t][i].msg] = HeldBy("tx", t)
  BY <1>1, <1>2, <1>3, HolderBy DEF MsgInTx
<1>4. ASSUME NEW t \in Tx, tx'[t] /= nil, NEW i \in DOMAIN tx'[t], NEW j \in DOMAIN tx'[t],
             tx'[t][i].cmd = "SEND", tx'[t][j].cmd = "SEND", tx'[t][i].msg = tx'[t][j].msg
      PROVE  i = j
  BY <1>1, <1>2, <1>4, HolderBy DEF MsgInTx
<1> QED
  BY <1>3, <1>4 DEF MsgInTx

-----------------------------------------------------------------------------
(* Steps that hand nothing over *)

\* Accepting, DISCONNECT, topic frames, the phases of the cleanup and a panic
\* move neither a queue frame nor a Subscription object.
LEMMA QuietStep ==
    ASSUME IInv, NEW c \in Conn,
           \/ Accept(c) \/ HandleDisconnect(c) \/ CleanupNext(c)
           \/ DiscardWriteChannelFrame(c) \/ WriteTopicFrame(c)
           \/ \E i \in DOMAIN subList[c] : AckPanics(c, i)
    PROVE  IInv'
<1>1. TypeOK
  BY DEF IInv
<1>2. TypeOK'
  BY <1>1, AcceptTypes, HandleDisconnectTypes, CleanupNextTypes,
     DiscardWriteChannelFrameTypes, WriteTopicFrameTypes, AckPanicsTypes
<1>3. UNCHANGED <<reqCh, store, qsubs, tsubs, procOut, subCh, subList, out, work, tx,
                  frame, subAt, msgAt>>
  BY DEF Accept, HandleDisconnect, CleanupNext, DiscardWriteChannelFrame,
         WriteTopicFrame, ReceiveTopicFrame, AckPanics, Elsewhere, Channels, procVars,
         connVars, objVars
<1> QED
  BY <1>2, <1>3, NothingMoves DEF IInv, MsgInv

\* The search of an ACK or NACK is over: the next frame of the commit follows.
LEMMA AckEndStep ==
    ASSUME IInv, NEW c \in Conn, AckEnd(c)
    PROVE  IInv'
<1>1. TypeOK /\ MsgInWork
  BY DEF IInv, MsgInv
<1>2. TypeOK'
  BY <1>1, AckEndTypes
<1>3. UNCHANGED <<reqCh, store, qsubs, tsubs, procOut, subCh, subList, out, tx,
                  frame, subAt, msgAt>>
  BY DEF AckEnd, Elsewhere, Channels, procVars, objVars
<1>4. work[c] \in Seq(TxFrame) /\ work[c] /= <<>> /\ work' = [work EXCEPT ![c] = Tail(@)]
      /\ work \in [Conn -> Seq(TxFrame)]
  BY <1>1 DEF AckEnd, TypeOK
<1>5. MsgInWork'
  BY <1>1, <1>3, <1>4, WorkTail
<1> QED
  BY <1>2, <1>3, <1>5, NothingMoves DEF IInv, MsgInv

\* ACK and NACK outside a transaction.
LEMMA HandleAckStep ==
    ASSUME IInv, NEW c \in Conn, NEW cmd \in {"ACK", "NACK"}, NEW id \in Nat,
           HandleAck(c, cmd, id)
    PROVE  IInv'
<1>1. TypeOK /\ MsgInWork
  BY DEF IInv, MsgInv
<1>2. TypeOK'
  BY <1>1, HandleAckTypes
<1>3. UNCHANGED <<reqCh, store, qsubs, tsubs, procOut, subCh, subList, out, tx,
                  frame, subAt, msgAt>>
  BY DEF HandleAck, Elsewhere, Channels, procVars, objVars
<1>4. /\ \A d \in Conn \ {c} : work'[d] = work[d]
      /\ DOMAIN work'[c] = {1} /\ work'[c][1].cmd /= "SEND"
  BY <1>1 DEF HandleAck, AckFrame, TypeOK
<1>5. MsgInWork'
  BY <1>1, <1>3, <1>4 DEF MsgInWork
<1> QED
  BY <1>2, <1>3, <1>5, NothingMoves DEF IInv, MsgInv

\* BEGIN: the new transaction is empty.
LEMMA HandleBeginStep ==
    ASSUME IInv, NEW c \in Conn, NEW x \in Tx, HandleBegin(c, x)
    PROVE  IInv'
<1>1. TypeOK /\ MsgInTx
  BY DEF IInv, MsgInv
<1>2. TypeOK'
  BY <1>1, HandleBeginTypes
<1>3. UNCHANGED <<reqCh, store, qsubs, tsubs, procOut, subCh, subList, out, work,
                  frame, subAt, msgAt>>
  BY DEF HandleBegin, Elsewhere, Channels, procVars, objVars
<1>4. /\ \A t \in Tx \ {x} : tx'[t] = tx[t]
      /\ DOMAIN tx'[x] = {}
  BY <1>1 DEF HandleBegin, TypeOK
<1>5. MsgInTx'
  BY <1>1, <1>3, <1>4 DEF MsgInTx
<1> QED
  BY <1>2, <1>3, <1>5, NothingMoves DEF IInv, MsgInv

\* ACK and NACK in a transaction are stored in it.
LEMMA HandleAckInTxStep ==
    ASSUME IInv, NEW c \in Conn, NEW cmd \in {"ACK", "NACK"}, NEW id \in Nat,
           NEW x \in Tx, HandleAckInTx(c, cmd, id, x)
    PROVE  IInv'
<1>1. TypeOK /\ MsgInTx
  BY DEF IInv, MsgInv
<1>2. TypeOK'
  BY <1>1, HandleAckInTxTypes
<1>3. UNCHANGED <<reqCh, store, qsubs, tsubs, procOut, subCh, subList, out, work,
                  frame, subAt, msgAt>>
  BY DEF HandleAckInTx, Elsewhere, Channels, procVars, objVars
<1>4. /\ tx \in [Tx -> Seq(TxFrame) \cup {nil}] /\ tx[x] /= nil
      /\ tx' = [tx EXCEPT ![x] = Append(@, AckFrame(cmd, id))]
  BY <1>1 DEF HandleAckInTx, AddToTx, TypeOK
<1>5. AckFrame(cmd, id).cmd /= "SEND"
  BY DEF AckFrame
<1>6. MsgInTx'
  BY <1>1, <1>3, <1>4, <1>5, TxAppended
<1> QED
  BY <1>2, <1>3, <1>6, NothingMoves DEF IInv, MsgInv

-----------------------------------------------------------------------------
(* Leaving the loop *)

\* A refused or broken connection drops its transactions, nothing else.
LEMMA RejectStep ==
    ASSUME IInv, NEW c \in Conn, Reject(c)
    PROVE  IInv'
<1>1. TypeOK /\ RequestInv /\ MsgInv
  BY DEF IInv
<1>2. TypeOK'
  BY <1>1, RejectTypes
<1>3. /\ Exit(c)
      /\ UNCHANGED <<reqCh, store, qsubs, tsubs, procOut, subCh, subList, out, work,
                     frame, subAt>>
  BY DEF Reject, Elsewhere, Channels, procVars
<1>4. MsgInTx' /\ \A m \in Msg : msgAt[m].by /= "tx" => msgAt'[m] = msgAt[m]
  BY <1>1, <1>3, ExitMsgs DEF MsgInv
<1>5. MsgInWork' /\ MsgInOut' /\ MsgInRequest' /\ MsgInStore'
  BY <1>1, <1>3, <1>4, WorkKept, OutMsgsKept, RequestMsgsKept, StoreKept DEF MsgInv
<1> QED
  BY <1>2, <1>3, <1>4, <1>5, OnlyMsgsMove DEF IInv, SubInv, MsgInv

\* So does a connection that cannot write a topic frame.
LEMMA TopicWriteFailsStep ==
    ASSUME IInv, NEW c \in Conn, TopicWriteFails(c)
    PROVE  IInv'
<1>1. TypeOK /\ RequestInv /\ MsgInv
  BY DEF IInv
<1>2. TypeOK'
  BY <1>1, TopicWriteFailsTypes
<1>3. /\ Exit(c)
      /\ UNCHANGED <<reqCh, store, qsubs, tsubs, procOut, subCh, subList, out, work,
                     frame, subAt>>
  BY DEF TopicWriteFails, ReceiveTopicFrame, Elsewhere, procVars
<1>4. MsgInTx' /\ \A m \in Msg : msgAt[m].by /= "tx" => msgAt'[m] = msgAt[m]
  BY <1>1, <1>3, ExitMsgs DEF MsgInv
<1>5. MsgInWork' /\ MsgInOut' /\ MsgInRequest' /\ MsgInStore'
  BY <1>1, <1>3, <1>4, WorkKept, OutMsgsKept, RequestMsgsKept, StoreKept DEF MsgInv
<1> QED
  BY <1>2, <1>3, <1>4, <1>5, OnlyMsgsMove DEF IInv, SubInv, MsgInv

\* A queue frame cannot be written: the connection drops the subscription, and
\* the frame with it.
LEMMA DeliverFailsStep ==
    ASSUME IInv, NEW c \in Conn, NEW s \in Sub, DeliverFails(c, s)
    PROVE  IInv'
<1>1. TypeOK /\ WorkConserving /\ RequestInv /\ SubInv /\ MsgInv
  BY DEF IInv
<1>2. /\ Exit(c) /\ subCh[c] /= <<>> /\ s = Head(subCh[c])
      /\ subCh' = [subCh EXCEPT ![c] = Tail(@)]
      /\ subAt' = [subAt EXCEPT ![s] = "gone"]
      /\ UNCHANGED <<reqCh, store, qsubs, tsubs, procOut, subList, out, work, frame>>
  BY DEF DeliverFails, WriteFrame, ReceiveSub, procVars
<1>3. subAt[s] = "subCh"
  BY <1>2, FirstInSubCh
<1>4. frame[s] \in Msg
  BY <1>3, Carried
<1>5. TypeOK'
  BY <1>1, <1>4, DeliverFailsTypes
<1>6. MsgInTx' /\ \A m \in Msg : msgAt[m].by /= "tx" => msgAt'[m] = msgAt[m]
  BY <1>1, <1>2, ExitMsgs DEF MsgInv
<1>7. MsgInWork' /\ MsgInOut' /\ MsgInRequest' /\ MsgInStore'
  BY <1>1, <1>2, <1>6, WorkKept, OutMsgsKept, RequestMsgsKept, StoreKept DEF MsgInv
<1>8. WorkConserving' /\ RequestInv'
  BY <1>1, <1>2 DEF WorkConserving, RequestInv
<1>9. SubInRequest' /\ SubInOut' /\ SubInReady' /\ SubInTopic' /\ SubInProc' /\ SubInSubList'
  BY <1>1, <1>2, <1>3, OtherSubs
<1>10. subAt'[s] = "gone" /\ \A x \in Sub : x /= s => subAt'[x] = subAt[x]
  BY <1>1, <1>2 DEF TypeOK
<1>11. SubInSubCh'
  BY <1>2, <1>10, SubChTaken
<1>12. FrameInv'
  <2>1. FrameOf(s)'
    BY <1>1, <1>2, <1>10 DEF SubInv, FrameInv, FrameOf, Loaded
  <2> QED
    BY <1>1, <1>2, <1>6, <1>10, <2>1, FrameStep DEF SubInv
<1> QED
  BY <1>5, <1>6, <1>7, <1>8, <1>9, <1>11, <1>12 DEF IInv, SubInv, MsgInv

-----------------------------------------------------------------------------
(* Handlers that leave a request behind *)

\* A request that announces or withdraws something is well-formed and bears no
\* frame.
LEMMA PlainRequests ==
    /\ \A s \in Sub : \A op \in {"Subscribe", "Unsubscribe"} :
         /\ WellFormed(SubRequest(op, s)) /\ SubRequest(op, s).op = op
         /\ SubRequest(op, s).sub = s /\ SubRequest(op, s).frame = nil
    /\ \A c \in Conn : \A op \in {"Connected", "Disconnected"} :
         /\ WellFormed(ConnRequest(op, c)) /\ ConnRequest(op, c).op = op
         /\ ConnRequest(op, c).frame = nil
BY DEF WellFormed, SubRequest, ConnRequest

\* A request that bears a frame is well-formed when the frame may be queued.
LEMMA BearingRequests ==
    \A m \in Msg :
       /\ WellFormed(FrameRequest("Enqueue", m))
       /\ MsgDest[m] \in Queue => WellFormed(FrameRequest("Requeue", m))
       /\ \A op : FrameRequest(op, m).op = op /\ FrameRequest(op, m).frame = m
BY DEF WellFormed, FrameRequest

\* Opening and closing a connection and UNSUBSCRIBE move no object: only the
\* request is new.
LEMMA AnnounceStep ==
    ASSUME IInv, NEW c \in Conn,
           \/ HandleConnect(c) \/ CleanupGoodbye(c)
           \/ \E s \in Sub : HandleUnsubscribe(c, s) \/ CleanupUnsubscribe(c, s)
    PROVE  IInv'
<1>1. TypeOK /\ RequestInv /\ SubInv /\ MsgInv
  BY DEF IInv
<1>2. TypeOK'
  BY <1>1, HandleConnectTypes, CleanupGoodbyeTypes, HandleUnsubscribeTypes,
     CleanupUnsubscribeTypes
<1>3. UNCHANGED <<reqCh, store, qsubs, tsubs, procOut, subCh, subList, work, tx,
                  frame, subAt, msgAt>>
  BY DEF HandleConnect, CleanupGoodbye, HandleUnsubscribe, CleanupUnsubscribe, Elsewhere,
         Channels, procVars, objVars
<1>4. PICK r \in Request : /\ out' = [out EXCEPT ![c] = <<r>>]
                           /\ WellFormed(r) /\ r.op /= "Subscribe" /\ r.frame = nil
  BY PlainRequests, RequestFacts
     DEF HandleConnect, CleanupGoodbye, HandleUnsubscribe, CleanupUnsubscribe
<1>5. SubInOut /\ MsgInOut
  BY <1>1 DEF SubInv, MsgInv
<1>6. RequestInv' /\ SubInOut' /\ MsgInOut'
  BY <1>1, <1>3, <1>4, <1>5, Handler
<1>7. MsgInTx' /\ MsgInWork' /\ MsgInRequest' /\ MsgInStore'
  BY <1>1, <1>3, MsgsStay
<1> QED
  BY <1>2, <1>3, <1>6, <1>7, OnlyMsgsMove DEF IInv, SubInv, MsgInv

\* SUBSCRIBE: the new object is on its way to the processor.
LEMMA HandleSubscribeStep ==
    ASSUME IInv, NEW c \in Conn, NEW s \in Sub, HandleSubscribe(c, s)
    PROVE  IInv'
<1> DEFINE r == SubRequest("Subscribe", s)
<1>1. TypeOK /\ WorkConserving /\ RequestInv /\ SubInv /\ MsgInv
  BY DEF IInv
<1>2. TypeOK'
  BY <1>1, HandleSubscribeTypes
<1>3. /\ subAt[s] = "none" /\ SubConn[s] = c
      /\ out' = [out EXCEPT ![c] = <<r>>]
      /\ subAt' = [subAt EXCEPT ![s] = "out"]
      /\ UNCHANGED <<reqCh, store, qsubs, tsubs, procOut, subCh, subList, work, tx,
                     frame, msgAt>>
  BY DEF HandleSubscribe, Elsewhere, Channels, procVars
<1>4. /\ r \in Request /\ WellFormed(r) /\ r.op = "Subscribe" /\ r.sub = s /\ r.frame = nil
  BY PlainRequests, RequestFacts
<1> HIDE DEF r
<1>5. subAt'[s] = "out" /\ \A x \in Sub : x /= s => subAt'[x] = subAt[x]
  BY <1>1, <1>3 DEF TypeOK
<1>6. SubInOut /\ MsgInOut
  BY <1>1 DEF SubInv, MsgInv
<1>7. RequestInv' /\ SubInOut' /\ MsgInOut'
  BY <1>1, <1>3, <1>4, <1>5, <1>6, Handler
<1>8. /\ SubInRequest' /\ SubInReady' /\ SubInTopic' /\ SubInProc' /\ SubInSubCh'
      /\ SubInSubList'
  BY <1>1, <1>3, OtherSubs
<1>9. FrameInv'
  <2>1. FrameOf(s)'
    BY <1>1, <1>3, <1>5 DEF SubInv, FrameInv, FrameOf, Loaded
  <2> QED
    BY <1>1, <1>3, <1>5, <2>1, FrameStep DEF SubInv
<1>10. MsgInTx' /\ MsgInWork' /\ MsgInRequest' /\ MsgInStore'
  BY <1>1, <1>3, MsgsStay
<1>11. WorkConserving'
  BY <1>1, <1>3 DEF WorkConserving
<1> QED
  BY <1>2, <1>7, <1>8, <1>9, <1>10, <1>11 DEF IInv, SubInv, MsgInv

\* SEND: the frame is on its way to the processor.
LEMMA HandleSendStep ==
    ASSUME IInv, NEW c \in Conn, NEW m \in Msg, HandleSend(c, m)
    PROVE  IInv'
<1> DEFINE r == FrameRequest("Enqueue", m)
<1>1. TypeOK /\ RequestInv /\ SubInv /\ MsgInv
  BY DEF IInv
<1>2. TypeOK'
  BY <1>1, HandleSendTypes
<1>3. /\ msgAt[m] = At("client")
      /\ out' = [out EXCEPT ![c] = <<r>>]
      /\ msgAt' = [msgAt EXCEPT ![m] = HeldBy("out", c)]
      /\ UNCHANGED <<reqCh, store, qsubs, tsubs, procOut, subCh, subList, work, tx,
                     frame, subAt>>
  BY DEF HandleSend, NextSend, Elsewhere, Channels, procVars
<1>4. /\ r \in Request /\ WellFormed(r) /\ r.op = "Enqueue" /\ r.frame = m
  BY BearingRequests, RequestFacts
<1> HIDE DEF r
<1>5. msgAt'[m] = HeldBy("out", c) /\ \A x \in Msg : x /= m => msgAt'[x] = msgAt[x]
  BY <1>1, <1>3 DEF TypeOK
<1>6. msgAt[m].by = "client"
  BY <1>3, HolderBy
<1>7. SubInOut /\ MsgInOut
  BY <1>1 DEF SubInv, MsgInv
<1>8. RequestInv' /\ SubInOut' /\ MsgInOut'
  BY <1>1, <1>3, <1>4, <1>5, <1>6, <1>7, Handler
<1>9. MsgInTx' /\ MsgInWork' /\ MsgInRequest' /\ MsgInStore'
  BY <1>1, <1>3, <1>6, OtherMsgs
<1>10. /\ WorkConserving' /\ FrameInv'
       /\ SubInRequest' /\ SubInReady' /\ SubInTopic' /\ SubInProc' /\ SubInSubCh'
       /\ SubInSubList'
  BY <1>3, <1>5, <1>6, OnlyMsgsMove
<1> QED
  BY <1>2, <1>8, <1>9, <1>10 DEF IInv, SubInv, MsgInv

-----------------------------------------------------------------------------
(* Transactions *)

\* SEND in a transaction: the frame is stored in it.
LEMMA HandleSendInTxStep ==
    ASSUME IInv, NEW c \in Conn, NEW m \in Msg, NEW x \in Tx, HandleSendInTx(c, m, x)
    PROVE  IInv'
<1>1. TypeOK /\ RequestInv /\ SubInv /\ MsgInv
  BY DEF IInv
<1>2. TypeOK'
  BY <1>1, HandleSendInTxTypes
<1>3. /\ msgAt[m] = At("client")
      /\ msgAt' = [msgAt EXCEPT ![m] = HeldBy("tx", x)]
      /\ UNCHANGED <<reqCh, store, qsubs, tsubs, procOut, subCh, subList, out, work,
                     frame, subAt>>
  BY DEF HandleSendInTx, NextSend, Elsewhere, Channels, procVars
<1>4. /\ tx \in [Tx -> Seq(TxFrame) \cup {nil}] /\ tx[x] /= nil
      /\ tx' = [tx EXCEPT ![x] = Append(@, SendFrame(m))]
  BY <1>1 DEF HandleSendInTx, AddToTx, TypeOK
<1>5. msgAt'[m] = HeldBy("tx", x) /\ \A y \in Msg : y /= m => msgAt'[y] = msgAt[y]
  BY <1>1, <1>3 DEF TypeOK
<1>6. msgAt[m].by = "client" /\ SendFrame(m).msg = m
  BY <1>3, HolderBy DEF SendFrame
<1>7. MsgInTx'
  <2>1. MsgInTx
    BY <1>1 DEF MsgInv
  <2>2. \A y \in Msg : msgAt[y].by = "tx" => msgAt'[y] = msgAt[y]
    BY <1>5, <1>6
  <2> QED
    BY <1>4, <1>5, <1>6, <2>1, <2>2, TxAppended
<1>8. MsgInWork' /\ MsgInOut' /\ MsgInRequest' /\ MsgInStore'
  BY <1>1, <1>3, <1>6, OtherMsgs
<1>9. /\ WorkConserving' /\ FrameInv' /\ RequestInv'
      /\ SubInRequest' /\ SubInReady' /\ SubInTopic' /\ SubInProc' /\ SubInSubCh'
      /\ SubInSubList' /\ SubInOut'
  BY <1>3, <1>5, <1>6, OnlyMsgsMove
<1> QED
  BY <1>2, <1>7, <1>8, <1>9 DEF IInv, SubInv, MsgInv

\* ABORT and COMMIT end transaction x: its frames pass to holder h and those of
\* other transactions stay.
LEMMA TxEnded ==
    ASSUME IInv, NEW x \in Tx, NEW h, tx' = [tx EXCEPT ![x] = nil],
           msgAt' = [m \in Msg |-> IF msgAt[m] = HeldBy("tx", x) THEN h ELSE msgAt[m]],
           UNCHANGED <<reqCh, store, qsubs, tsubs, procOut, subCh, subList, out,
                       frame, subAt>>
    PROVE  /\ WorkConserving' /\ RequestInv' /\ SubInv'
           /\ MsgInTx' /\ MsgInOut' /\ MsgInRequest' /\ MsgInStore'
           /\ \A m \in Msg : msgAt[m].by /= "tx" => msgAt'[m] = msgAt[m]
           /\ \A m \in Msg : msgAt[m] = HeldBy("tx", x) => msgAt'[m] = h
<1>1. TypeOK /\ RequestInv /\ SubInv /\ MsgInv
  BY DEF IInv
<1>2. /\ \A m \in Msg : msgAt[m] = HeldBy("tx", x) => msgAt'[m] = h
      /\ \A m \in Msg : msgAt[m] /= HeldBy("tx", x) => msgAt'[m] = msgAt[m]
  OBVIOUS
<1>3. \A m \in Msg : msgAt[m].by /= "tx" => msgAt'[m] = msgAt[m]
  BY <1>2, HolderBy
<1>4. MsgInTx'
  <2>1. \A t \in Tx : tx'[t] /= nil => t /= x /\ tx'[t] = tx[t]
    BY <1>1 DEF TypeOK
  <2>2. \A t \in Tx : t /= x => HeldBy("tx", t) /= HeldBy("tx", x)
    BY HolderBy
  <2>3. MsgInTx
    BY <1>1 DEF MsgInv
  <2> QED
    BY <1>2, <2>1, <2>2, <2>3 DEF MsgInTx
<1>5. MsgInOut' /\ MsgInRequest' /\ MsgInStore'
  BY <1>1, <1>3, OutMsgsKept, RequestMsgsKept, StoreKept DEF MsgInv
<1>6. WorkConserving' /\ RequestInv' /\ SubInv'
  BY <1>3, OnlyMsgsMove DEF SubInv
<1> QED
  BY <1>2, <1>3, <1>4, <1>5, <1>6

\* ABORT: the frames of the transaction are dropped.
LEMMA HandleAbortStep ==
    ASSUME IInv, NEW c \in Conn, NEW x \in Tx, HandleAbort(c, x)
    PROVE  IInv'
<1>1. TypeOK /\ MsgInWork
  BY DEF IInv, MsgInv
<1>2. TypeOK'
  BY <1>1, HandleAbortTypes
<1>3. /\ tx' = [tx EXCEPT ![x] = nil]
      /\ msgAt' = [m \in Msg |-> IF msgAt[m] = HeldBy("tx", x)
                                 THEN At("discarded") ELSE msgAt[m]]
      /\ UNCHANGED <<reqCh, store, qsubs, tsubs, procOut, subCh, subList, out, work,
                     frame, subAt>>
  BY DEF HandleAbort, Elsewhere, Channels, procVars
<1>4. /\ WorkConserving' /\ RequestInv' /\ SubInv'
      /\ MsgInTx' /\ MsgInOut' /\ MsgInRequest' /\ MsgInStore'
      /\ \A m \in Msg : msgAt[m].by /= "tx" => msgAt'[m] = msgAt[m]
  BY <1>3, TxEnded
<1>5. MsgInWork'
  BY <1>1, <1>3, <1>4, WorkKept
<1> QED
  BY <1>2, <1>4, <1>5 DEF IInv, MsgInv

\* COMMIT: the frames of the transaction are to be executed.
LEMMA HandleCommitStep ==
    ASSUME IInv, NEW c \in Conn, NEW x \in Tx, HandleCommit(c, x)
    PROVE  IInv'
<1>1. TypeOK /\ MsgInWork /\ MsgInTx
  BY DEF IInv, MsgInv
<1>2. TypeOK'
  BY <1>1, HandleCommitTypes
<1>3. /\ tx' = [tx EXCEPT ![x] = nil]
      /\ msgAt' = [m \in Msg |-> IF msgAt[m] = HeldBy("tx", x)
                                 THEN HeldBy("work", c) ELSE msgAt[m]]
      /\ UNCHANGED <<reqCh, store, qsubs, tsubs, procOut, subCh, subList, out,
                     frame, subAt>>
  BY DEF HandleCommit, Elsewhere, Channels, procVars
<1>4. tx[x] /= nil /\ work'[c] = tx[x] /\ \A d \in Conn \ {c} : work'[d] = work[d]
  BY <1>1 DEF HandleCommit, TypeOK
<1>5. /\ WorkConserving' /\ RequestInv' /\ SubInv'
      /\ MsgInTx' /\ MsgInOut' /\ MsgInRequest' /\ MsgInStore'
      /\ \A m \in Msg : msgAt[m].by /= "tx" => msgAt'[m] = msgAt[m]
      /\ \A m \in Msg : msgAt[m] = HeldBy("tx", x) => msgAt'[m] = HeldBy("work", c)
  BY <1>3, TxEnded
<1>6. MsgInWork'
  <2>1. ASSUME NEW d \in Conn, NEW i \in DOMAIN work'[d], work'[d][i].cmd = "SEND"
        PROVE  work'[d][i].msg \in Msg /\ msgAt'[work'[d][i].msg] = HeldBy("work", d)
    <3>1. CASE d = c
      BY <1>1, <1>4, <1>5, <2>1, <3>1 DEF MsgInTx
    <3>2. CASE d /= c
      BY <1>1, <1>4, <1>5, <2>1, <3>2, HolderBy DEF MsgInWork
    <3> QED
      BY <3>1, <3>2
  <2>2. ASSUME NEW d \in Conn, NEW i \in DOMAIN work'[d], NEW j \in DOMAIN work'[d],
               work'[d][i].cmd = "SEND", work'[d][j].cmd = "SEND",
               work'[d][i].msg = work'[d][j].msg
        PROVE  i = j
    BY <1>1, <1>4, <2>2 DEF MsgInTx, MsgInWork
  <2> QED
    BY <2>1, <2>2 DEF MsgInWork
<1> QED
  BY <1>2, <1>5, <1>6 DEF IInv, MsgInv

\* A committed SEND frame is on its way to the processor.
LEMMA CommitSendStep ==
    ASSUME IInv, NEW c \in Conn, CommitSend(c)
    PROVE  IInv'
<1> DEFINE m == Head(work[c]).msg
           r == FrameRequest("Enqueue", m)
<1>1. TypeOK /\ RequestInv /\ SubInv /\ MsgInv
  BY DEF IInv
<1>2. /\ out' = [out EXCEPT ![c] = <<r>>]
      /\ msgAt' = [msgAt EXCEPT ![m] = HeldBy("out", c)]
      /\ work' = [work EXCEPT ![c] = Tail(@)] /\ work[c] /= <<>>
      /\ Head(work[c]).cmd = "SEND"
      /\ UNCHANGED <<reqCh, store, qsubs, tsubs, procOut, subCh, subList, tx,
                     frame, subAt>>
  BY DEF CommitSend, Elsewhere, Channels, procVars
<1>3. work \in [Conn -> Seq(TxFrame)] /\ MsgInWork
  BY <1>1 DEF TypeOK, MsgInv
<1>4. m \in Msg /\ msgAt[m] = HeldBy("work", c)
  <2>1. 1 \in DOMAIN work[c] /\ Head(work[c]) = work[c][1]
    BY <1>2, <1>3
  <2> QED
    BY <1>2, <1>3, <2>1 DEF MsgInWork
<1>5. TypeOK'
  BY <1>1, <1>4, CommitSendTypes
<1>6. r \in Request /\ WellFormed(r) /\ r.op = "Enqueue" /\ r.frame = m
  BY <1>4, BearingRequests, RequestFacts
<1> HIDE DEF r
<1>7. msgAt'[m] = HeldBy("out", c) /\ \A y \in Msg : y /= m => msgAt'[y] = msgAt[y]
  BY <1>1, <1>2, <1>4 DEF TypeOK
<1>8. msgAt[m].by = "work"
  BY <1>4, HolderBy
<1>9. MsgInWork'
  BY <1>2, <1>3, <1>7, WorkTail
<1> HIDE DEF m
<1>10. SubInOut /\ MsgInOut
  BY <1>1 DEF SubInv, MsgInv
<1>11. RequestInv' /\ SubInOut' /\ MsgInOut'
  BY <1>1, <1>2, <1>6, <1>7, <1>8, <1>10, Handler
<1>12. MsgInTx' /\ MsgInRequest' /\ MsgInStore'
  BY <1>1, <1>2, <1>4, <1>8, OtherMsgs
<1>13. /\ WorkConserving' /\ FrameInv'
       /\ SubInRequest' /\ SubInReady' /\ SubInTopic' /\ SubInProc' /\ SubInSubCh'
       /\ SubInSubList'
  BY <1>2, <1>7, <1>8, OnlyMsgsMove
<1> QED
  BY <1>5, <1>9, <1>11, <1>12, <1>13 DEF IInv, SubInv, MsgInv

-----------------------------------------------------------------------------
(* Acknowledgements *)

\* handleAck: the frame is settled and the subscription offered again.
LEMMA AckOneStep ==
    ASSUME IInv, NEW c \in Conn, NEW i \in DOMAIN subList[c], NEW s \in Sub,
           AckOne(c, i, s)
    PROVE  IInv'
<1> DEFINE r == SubRequest("Subscribe", s)
<1>1. TypeOK /\ RequestInv /\ SubInOut /\ MsgInOut
  BY DEF IInv, SubInv, MsgInv
<1>2. /\ s = subList[c][i]
      /\ out' = [out EXCEPT ![c] = <<r>>]
      /\ subAt' = [subAt EXCEPT ![s] = "out"]
      /\ msgAt' = [msgAt EXCEPT ![frame[s]] = At("settled")]
      /\ frame' = [frame EXCEPT ![s] = nil]
      /\ UNCHANGED <<reqCh, store, qsubs, tsubs, procOut, subCh, tx, work>>
  BY DEF AckOne, MatchOne, Release, Elsewhere, Channels, procVars
<1>3. subList' = [subList EXCEPT ![c] = RemoveAt(@, i)]
  BY DEF AckOne, MatchOne, AfterAck
<1>4. subAt[s] = "unacked" /\ SubConn[s] = c
  BY <1>2, InSubList
<1>5. frame[s] \in Msg
  BY <1>4, Carried
<1>6. TypeOK'
  BY <1>1, <1>5, AckOneTypes
<1>7. /\ frame'[s] = nil /\ subAt'[s] = "out"
      /\ \A x \in Sub : x /= s => subAt'[x] = subAt[x] /\ frame'[x] = frame[x]
      /\ \A m \in Msg : m /= frame[s] => msgAt'[m] = msgAt[m]
  BY <1>1, <1>2 DEF TypeOK
<1>8. r \in Request /\ WellFormed(r) /\ r.op = "Subscribe" /\ r.sub = s /\ r.frame = nil
  BY PlainRequests, RequestFacts
<1> HIDE DEF r
<1>9. /\ WorkConserving' /\ FrameInv'
      /\ SubInRequest' /\ SubInReady' /\ SubInTopic' /\ SubInProc' /\ SubInSubCh'
      /\ MsgInTx' /\ MsgInWork' /\ MsgInRequest' /\ MsgInStore'
      /\ \A m \in Msg : msgAt[m].by = "out" => msgAt'[m] = msgAt[m]
  BY <1>2, <1>4, <1>7, GivesUpFrame
<1>10. RequestInv' /\ SubInOut' /\ MsgInOut'
  BY <1>1, <1>2, <1>4, <1>7, <1>8, <1>9, Handler
<1>11. SubInSubList'
  <2>1. \A x \in Sub : x /= subList[c][i] /\ subAt[x] = "unacked" => subAt'[x] = "unacked"
    BY <1>2, <1>7
  <2>2. Lists([subList EXCEPT ![c] = RemoveAt(@, i)], Conn, subAt', "unacked", SubConn)
    BY <2>1, SubListWithout
  <2> QED
    BY <1>3, <2>2 DEF SubInSubList
<1> QED
  BY <1>6, <1>9, <1>10, <1>11 DEF IInv, SubInv, MsgInv

\* handleNack: the frame goes back to its queue and the subscription is offered
\* again.
LEMMA NackOneStep ==
    ASSUME IInv, NEW c \in Conn, NEW i \in DOMAIN subList[c], NEW s \in Sub,
           NackOne(c, i, s)
    PROVE  IInv'
<1> DEFINE r == SubRequest("Subscribe", s)
           n == FrameRequest("Requeue", frame[s])
<1>1. TypeOK /\ RequestInv /\ SubInOut /\ MsgInOut
  BY DEF IInv, SubInv, MsgInv
<1>2. /\ s = subList[c][i]
      /\ out' = [out EXCEPT ![c] = <<n, r>>]
      /\ subAt' = [subAt EXCEPT ![s] = "out"]
      /\ msgAt' = [msgAt EXCEPT ![frame[s]] = HeldBy("out", c)]
      /\ frame' = [frame EXCEPT ![s] = nil]
      /\ UNCHANGED <<reqCh, store, qsubs, tsubs, procOut, subCh, tx, work>>
  BY DEF NackOne, MatchOne, Release, Return, Elsewhere, Channels, procVars
<1>3. subList' = [subList EXCEPT ![c] = RemoveAt(@, i)]
  BY DEF NackOne, MatchOne, AfterAck
<1>4. subAt[s] = "unacked" /\ SubConn[s] = c
  BY <1>2, InSubList
<1>5. frame[s] \in Msg /\ MsgDest[frame[s]] \in Queue
  BY <1>4, Carried
<1>6. TypeOK'
  BY <1>1, <1>5, NackOneTypes
<1>7. /\ frame'[s] = nil /\ subAt'[s] = "out"
      /\ \A x \in Sub : x /= s => subAt'[x] = subAt[x] /\ frame'[x] = frame[x]
      /\ \A m \in Msg : m /= frame[s] => msgAt'[m] = msgAt[m]
  BY <1>1, <1>2 DEF TypeOK
<1>8. r \in Request /\ WellFormed(r) /\ r.op = "Subscribe" /\ r.sub = s
  BY PlainRequests, RequestFacts
<1>9. n \in Request /\ WellFormed(n) /\ n.op = "Requeue" /\ n.frame = frame[s]
  BY <1>5, BearingRequests, RequestFacts
<1>10. msgAt'[frame[s]] = HeldBy("out", c)
  BY <1>1, <1>2, <1>5 DEF TypeOK
<1> HIDE DEF r, n
<1>11. /\ WorkConserving' /\ FrameInv'
       /\ SubInRequest' /\ SubInReady' /\ SubInTopic' /\ SubInProc' /\ SubInSubCh'
       /\ MsgInTx' /\ MsgInWork' /\ MsgInRequest' /\ MsgInStore'
       /\ \A m \in Msg : msgAt[m].by = "out" => msgAt'[m] = msgAt[m]
  BY <1>2, <1>4, <1>7, GivesUpFrame
<1>12. RequestInv' /\ SubInOut' /\ MsgInOut'
  BY <1>1, <1>2, <1>4, <1>7, <1>8, <1>9, <1>10, <1>11, HandlerOfTwo
<1>13. SubInSubList'
  <2>1. \A x \in Sub : x /= subList[c][i] /\ subAt[x] = "unacked" => subAt'[x] = "unacked"
    BY <1>2, <1>7
  <2>2. Lists([subList EXCEPT ![c] = RemoveAt(@, i)], Conn, subAt', "unacked", SubConn)
    BY <2>1, SubListWithout
  <2> QED
    BY <1>3, <2>2 DEF SubInSubList
<1> QED
  BY <1>6, <1>11, <1>12, <1>13 DEF IInv, SubInv, MsgInv

-----------------------------------------------------------------------------
(* Queue frames for the client *)

\* An automatically acknowledged frame is settled when it has been written.
LEMMA DeliverAutoStep ==
    ASSUME IInv, NEW c \in Conn, NEW s \in Sub, DeliverAuto(c, s)
    PROVE  IInv'
<1> DEFINE r == SubRequest("Subscribe", s)
<1>1. TypeOK /\ RequestInv /\ SubInOut /\ MsgInOut
  BY DEF IInv, SubInv, MsgInv
<1>2. /\ subCh[c] /= <<>> /\ s = Head(subCh[c])
      /\ subCh' = [subCh EXCEPT ![c] = Tail(@)]
      /\ out' = [out EXCEPT ![c] = <<r>>]
      /\ subAt' = [subAt EXCEPT ![s] = "out"]
      /\ msgAt' = [msgAt EXCEPT ![frame[s]] = At("settled")]
      /\ frame' = [frame EXCEPT ![s] = nil]
      /\ UNCHANGED <<reqCh, store, qsubs, tsubs, procOut, subList, tx, work>>
  BY DEF DeliverAuto, WriteFrame, ReceiveSub, Release, procVars
<1>3. subAt[s] = "subCh" /\ SubConn[s] = c
  BY <1>2, FirstInSubCh
<1>4. frame[s] \in Msg
  BY <1>3, Carried
<1>5. TypeOK'
  BY <1>1, <1>4, DeliverAutoTypes
<1>6. /\ frame'[s] = nil /\ subAt'[s] = "out"
      /\ \A x \in Sub : x /= s => subAt'[x] = subAt[x] /\ frame'[x] = frame[x]
      /\ \A m \in Msg : m /= frame[s] => msgAt'[m] = msgAt[m]
  BY <1>1, <1>2 DEF TypeOK
<1>7. r \in Request /\ WellFormed(r) /\ r.op = "Subscribe" /\ r.sub = s /\ r.frame = nil
  BY PlainRequests, RequestFacts
<1> HIDE DEF r
<1>8. /\ WorkConserving' /\ FrameInv'
      /\ SubInRequest' /\ SubInReady' /\ SubInTopic' /\ SubInProc' /\ SubInSubList'
      /\ MsgInTx' /\ MsgInWork' /\ MsgInRequest' /\ MsgInStore'
      /\ \A m \in Msg : msgAt[m].by = "out" => msgAt'[m] = msgAt[m]
  BY <1>2, <1>3, <1>6, GivesUpFrame
<1>9. RequestInv' /\ SubInOut' /\ MsgInOut'
  BY <1>1, <1>2, <1>3, <1>6, <1>7, <1>8, Handler
<1>10. SubInSubCh'
  BY <1>2, <1>6, SubChTaken
<1> QED
  BY <1>5, <1>8, <1>9, <1>10 DEF IInv, SubInv, MsgInv

\* Any other frame stays with its subscription until it is acknowledged.
LEMMA DeliverUnackedStep ==
    ASSUME IInv, NEW c \in Conn, NEW s \in Sub, DeliverUnacked(c, s)
    PROVE  IInv'
<1>1. TypeOK /\ WorkConserving /\ RequestInv /\ SubInv /\ MsgInv
  BY DEF IInv
<1>2. /\ subCh[c] /= <<>> /\ s = Head(subCh[c])
      /\ subCh' = [subCh EXCEPT ![c] = Tail(@)]
      /\ subAt' = [subAt EXCEPT ![s] = "unacked"]
      /\ UNCHANGED <<reqCh, store, qsubs, tsubs, procOut, out, tx, work, frame, msgAt>>
  BY DEF DeliverUnacked, WriteFrame, ReceiveSub, procVars
<1>3. subList' = [subList EXCEPT ![c] = Append(@, s)]
  BY DEF DeliverUnacked
<1>4. subAt[s] = "subCh" /\ SubConn[s] = c
  BY <1>2, FirstInSubCh
<1>5. frame[s] \in Msg
  BY <1>4, Carried
<1>6. TypeOK'
  BY <1>1, <1>5, DeliverUnackedTypes
<1>7. subAt'[s] = "unacked" /\ \A x \in Sub : x /= s => subAt'[x] = subAt[x]
  BY <1>1, <1>2 DEF TypeOK
<1>8. WorkConserving' /\ RequestInv'
  BY <1>1, <1>2 DEF WorkConserving, RequestInv
<1>9. SubInRequest' /\ SubInOut' /\ SubInReady' /\ SubInTopic' /\ SubInProc'
  BY <1>1, <1>2, <1>4, OtherSubs
<1>10. SubInSubCh'
  BY <1>2, <1>7, SubChTaken
<1>11. SubInSubList'
  <2>1. subList \in [Conn -> Seq(Sub)] /\ Lists(subList, Conn, subAt, "unacked", SubConn)
    BY <1>1 DEF TypeOK, SubInv, SubInSubList
  <2>2. /\ subAt[s] /= "unacked" /\ subAt'[s] = "unacked" /\ SubConn[s] = c
        /\ \A x \in Sub \ {s} : subAt[x] = "unacked" => subAt'[x] = "unacked"
    BY <1>4, <1>7
  <2>3. Lists([subList EXCEPT ![c] = Append(@, s)], Conn, subAt', "unacked", SubConn)
    BY <2>1, <2>2, ListsAppend
  <2> QED
    BY <1>3, <2>3 DEF SubInSubList
<1>12. FrameInv'
  <2>1. FrameOf(s)'
    BY <1>1, <1>2, <1>4, <1>7 DEF SubInv, FrameInv, FrameOf, Loaded
  <2> QED
    BY <1>1, <1>2, <1>7, <2>1, FrameStep DEF SubInv
<1>13. MsgInv'
  BY <1>1, <1>2, MsgsStay DEF MsgInv
<1> QED
  BY <1>6, <1>8, <1>9, <1>10, <1>11, <1>12, <1>13 DEF IInv, SubInv

\* Nobody waits for the frame any more, or the connection is closing: the frame
\* goes back to its queue and the object is dropped.
LEMMA GiveBackStep ==
    ASSUME IInv, NEW c \in Conn, NEW s \in Sub,
           ReturnQueueFrame(c, s) \/ CleanupSubChannel(c, s)
    PROVE  IInv'
<1> DEFINE n == FrameRequest("Requeue", frame[s])
<1>1. TypeOK /\ RequestInv /\ SubInOut /\ MsgInOut
  BY DEF IInv, SubInv, MsgInv
<1>2. /\ subCh[c] /= <<>> /\ s = Head(subCh[c])
      /\ subCh' = [subCh EXCEPT ![c] = Tail(@)]
      /\ out' = [out EXCEPT ![c] = <<n>>]
      /\ subAt' = [subAt EXCEPT ![s] = "gone"]
      /\ msgAt' = [msgAt EXCEPT ![frame[s]] = HeldBy("out", c)]
      /\ UNCHANGED <<reqCh, store, qsubs, tsubs, procOut, subList, tx, work, frame>>
  BY DEF ReturnQueueFrame, CleanupSubChannel, ReceiveSub, Return, Elsewhere, procVars
<1>3. subAt[s] = "subCh"
  BY <1>2, FirstInSubCh
<1>4. frame[s] \in Msg /\ MsgDest[frame[s]] \in Queue
  BY <1>3, Carried
<1>5. TypeOK'
  BY <1>1, <1>4, ReturnQueueFrameTypes, CleanupSubChannelTypes
<1>6. n \in Request /\ WellFormed(n) /\ n.op = "Requeue" /\ n.frame = frame[s]
  BY <1>4, BearingRequests, RequestFacts
<1>7. /\ msgAt'[frame[s]] = HeldBy("out", c) /\ subAt'[s] = "gone"
      /\ \A x \in Sub : x /= s => subAt'[x] = subAt[x] /\ frame'[x] = frame[x]
      /\ \A m \in Msg : m /= frame[s] => msgAt'[m] = msgAt[m]
  BY <1>1, <1>2, <1>4 DEF TypeOK
<1> HIDE DEF n
<1>8. /\ WorkConserving' /\ FrameInv'
      /\ SubInRequest' /\ SubInReady' /\ SubInTopic' /\ SubInProc' /\ SubInSubList'
      /\ MsgInTx' /\ MsgInWork' /\ MsgInRequest' /\ MsgInStore'
      /\ \A m \in Msg : msgAt[m].by = "out" => msgAt'[m] = msgAt[m]
  BY <1>2, <1>3, <1>7, GivesUpFrame
<1>9. RequestInv' /\ SubInOut' /\ MsgInOut'
  BY <1>1, <1>2, <1>3, <1>6, <1>7, <1>8, Handler
<1>10. SubInSubCh'
  BY <1>2, <1>7, SubChTaken
<1> QED
  BY <1>5, <1>8, <1>9, <1>10 DEF IInv, SubInv, MsgInv

\* cleanupConn: the first unacknowledged frame goes back to its queue.
LEMMA CleanupRequeueStep ==
    ASSUME IInv, NEW c \in Conn, NEW s \in Sub, CleanupRequeue(c, s)
    PROVE  IInv'
<1> DEFINE n == FrameRequest("Requeue", frame[s])
<1>1. TypeOK /\ RequestInv /\ SubInOut /\ MsgInOut
  BY DEF IInv, SubInv, MsgInv
<1>2. /\ subList[c] /= <<>> /\ s = Head(subList[c])
      /\ out' = [out EXCEPT ![c] = <<n>>]
      /\ subAt' = [subAt EXCEPT ![s] = "gone"]
      /\ msgAt' = [msgAt EXCEPT ![frame[s]] = HeldBy("out", c)]
      /\ UNCHANGED <<reqCh, store, qsubs, tsubs, procOut, subCh, tx, work, frame>>
  BY DEF CleanupRequeue, Return, Elsewhere, Channels, procVars
<1>3. subList' = [subList EXCEPT ![c] = Tail(@)]
  BY DEF CleanupRequeue, AfterGet
<1>4. subList \in [Conn -> Seq(Sub)] /\ Lists(subList, Conn, subAt, "unacked", SubConn)
  BY DEF IInv, TypeOK, SubInv, SubInSubList
<1>5. subAt[s] = "unacked"
  BY <1>2, <1>4, ListsHead
<1>6. frame[s] \in Msg /\ MsgDest[frame[s]] \in Queue
  BY <1>5, Carried
<1>7. TypeOK'
  BY <1>1, <1>6, CleanupRequeueTypes
<1>8. n \in Request /\ WellFormed(n) /\ n.op = "Requeue" /\ n.frame = frame[s]
  BY <1>6, BearingRequests, RequestFacts
<1>9. /\ msgAt'[frame[s]] = HeldBy("out", c) /\ subAt'[s] = "gone"
      /\ \A x \in Sub : x /= s => subAt'[x] = subAt[x] /\ frame'[x] = frame[x]
      /\ \A m \in Msg : m /= frame[s] => msgAt'[m] = msgAt[m]
  BY <1>1, <1>2, <1>6 DEF TypeOK
<1> HIDE DEF n
<1>10. /\ WorkConserving' /\ FrameInv'
       /\ SubInRequest' /\ SubInReady' /\ SubInTopic' /\ SubInProc' /\ SubInSubCh'
       /\ MsgInTx' /\ MsgInWork' /\ MsgInRequest' /\ MsgInStore'
       /\ \A m \in Msg : msgAt[m].by = "out" => msgAt'[m] = msgAt[m]
  BY <1>2, <1>5, <1>9, GivesUpFrame
<1>11. RequestInv' /\ SubInOut' /\ MsgInOut'
  BY <1>1, <1>2, <1>5, <1>8, <1>9, <1>10, Handler
<1>12. SubInSubList'
  <2>1. \A x \in Sub : x /= Head(subList[c]) /\ subAt[x] = "unacked" => subAt'[x] = "unacked"
    BY <1>2, <1>9
  <2>2. Lists([subList EXCEPT ![c] = Tail(@)], Conn, subAt', "unacked", SubConn)
    BY <1>2, <1>4, <2>1, ListsTail
  <2> QED
    BY <1>3, <2>2 DEF SubInSubList
<1> QED
  BY <1>7, <1>10, <1>11, <1>12 DEF IInv, SubInv, MsgInv

-----------------------------------------------------------------------------
(* Requests *)

\* The next request of a handler enters requestChannel, and what it bears with
\* it; nobody else's object or frame moves.
LEMMA SendRequestStep ==
    ASSUME IInv, NEW c \in Conn, SendRequest(c)
    PROVE  IInv'
<1> DEFINE r == Head(out[c])
<1>1. TypeOK /\ WorkConserving /\ RequestInv /\ SubInv /\ MsgInv
  BY DEF IInv
<1>2. TypeOK'
  BY <1>1, SendRequestTypes
<1>3. RequestInv' /\ SubInRequest' /\ SubInOut' /\ MsgInRequest' /\ MsgInOut'
  BY <1>1, Posted
<1>4. /\ subAt' = [s \in Sub |-> IF r.op = "Subscribe" /\ r.sub = s
                                 THEN "request" ELSE subAt[s]]
      /\ msgAt' = [m \in Msg |-> IF r.frame = m THEN At("request") ELSE msgAt[m]]
      /\ UNCHANGED <<store, qsubs, tsubs, procOut, subCh, subList, tx, work, frame>>
  BY DEF SendRequest, Elsewhere, procVars
<1>5. /\ r.op = "Subscribe" => r.sub \in Sub /\ subAt[r.sub] = "out"
      /\ r.frame /= nil => msgAt[r.frame].by = "out"
  <2>1. 1 \in DOMAIN out[c] /\ r = out[c][1]
    BY <1>1 DEF TypeOK, SendRequest
  <2> QED
    BY <1>1, <2>1, HolderBy DEF RequestInv, WellFormed, SubInv, SubInOut, MsgInv, MsgInOut
<1> HIDE DEF r
<1>6. /\ \A s \in Sub : subAt[s] /= "out" => subAt'[s] = subAt[s]
      /\ \A s \in Sub : subAt'[s] /= subAt[s] => subAt[s] = "out" /\ subAt'[s] = "request"
  BY <1>4, <1>5
<1>7. \A m \in Msg : msgAt[m].by /= "out" => msgAt'[m] = msgAt[m]
  BY <1>4, <1>5, PoolAssumption
<1>8. WorkConserving'
  BY <1>1, <1>4 DEF WorkConserving
<1>9. SubInReady' /\ SubInTopic' /\ SubInProc' /\ SubInSubCh' /\ SubInSubList'
  BY <1>1, <1>4, <1>6, ReadyKept, TopicKept, ProcKept, SubChKept, SubListKept DEF SubInv
<1>10. FrameInv'
  <2>1. ASSUME NEW s \in Sub PROVE FrameOf(s)'
    <3>1. FrameOf(s)
      BY <1>1 DEF SubInv, FrameInv
    <3>2. CASE subAt'[s] = subAt[s]
      BY <1>4, <1>7, <3>1, <3>2, HolderBy DEF FrameOf
    <3>3. CASE subAt'[s] /= subAt[s]
      BY <1>4, <1>6, <3>1, <3>3 DEF FrameOf, Loaded
    <3> QED
      BY <3>2, <3>3
  <2> QED
    BY <2>1 DEF FrameInv
<1>11. MsgInTx' /\ MsgInWork' /\ MsgInStore'
  BY <1>1, <1>4, <1>7, TxKept, WorkKept, StoreKept DEF MsgInv
<1> QED
  BY <1>2, <1>3, <1>8, <1>9, <1>10, <1>11 DEF IInv, SubInv, MsgInv

-----------------------------------------------------------------------------

\* Whatever a client sends, its connection preserves the invariant.
LEMMA ClientInputPreserves ==
    ASSUME IInv, NEW c \in Conn, ClientInput(c)
    PROVE  IInv'
<1>1. CASE Accept(c) \/ HandleDisconnect(c)
  BY <1>1, QuietStep
<1>2. CASE RefuseConnect(c) \/ Broken(c)
  BY <1>2, RejectStep DEF RefuseConnect, Broken
<1>3. CASE HandleConnect(c)
  BY <1>3, AnnounceStep
<1>4. ASSUME NEW s \in Sub,
             HandleSubscribe(c, s) \/ RefuseSubscribe(c, s) \/ HandleUnsubscribe(c, s)
      PROVE  IInv'
  BY <1>4, HandleSubscribeStep, RejectStep, AnnounceStep DEF RefuseSubscribe
<1>5. ASSUME NEW m \in Msg, HandleSend(c, m)
      PROVE  IInv'
  BY <1>5, HandleSendStep
<1>6. ASSUME NEW m \in Msg, NEW t \in Tx, HandleSendInTx(c, m, t)
      PROVE  IInv'
  BY <1>6, HandleSendInTxStep
<1>7. ASSUME NEW t \in Tx,
             \/ HandleBegin(c, t) \/ HandleAbort(c, t) \/ HandleCommit(c, t)
             \/ RefuseBegin(c, t) \/ RefuseTx(c, t)
      PROVE  IInv'
  BY <1>7, HandleBeginStep, HandleAbortStep, HandleCommitStep, RejectStep
     DEF RefuseBegin, RefuseTx
<1>8. ASSUME NEW cmd \in {"ACK", "NACK"}, NEW id \in AckIds, HandleAck(c, cmd, id)
      PROVE  IInv'
  BY <1>8, HandleAckStep, BoundAssumption
<1>9. ASSUME NEW cmd \in {"ACK", "NACK"}, NEW id \in AckIds, NEW t \in Tx,
             HandleAckInTx(c, cmd, id, t)
      PROVE  IInv'
  BY <1>9, HandleAckInTxStep, BoundAssumption
<1> QED
  BY <1>1, <1>2, <1>3, <1>4, <1>5, <1>6, <1>7, <1>8, <1>9 DEF ClientInput

\* So does every step the connection takes by itself.
LEMMA ConnStepPreserves ==
    ASSUME IInv, NEW c \in Conn, ConnStep(c)
    PROVE  IInv'
<1>1. CASE SendRequest(c)
  BY <1>1, SendRequestStep
<1>2. CASE Execute(c)
  <2>1. CASE CommitSend(c)
    BY <2>1, CommitSendStep
  <2>2. CASE AckEnd(c)
    BY <2>2, AckEndStep
  <2>3. ASSUME NEW i \in DOMAIN subList[c],
               AckOne(c, i, subList[c][i]) \/ NackOne(c, i, subList[c][i])
        PROVE  IInv'
    <3>1. subList[c][i] \in Sub
      BY InSubList
    <3> QED
      BY <2>3, <3>1, AckOneStep, NackOneStep
  <2>4. CASE \E i \in DOMAIN subList[c] : AckPanics(c, i)
    BY <2>4, QuietStep
  <2> QED
    BY <1>2, <2>1, <2>2, <2>3, <2>4 DEF Execute
<1>3. CASE Cleanup(c)
  <2>1. CASE CleanupNext(c) \/ DiscardWriteChannelFrame(c)
    BY <2>1, QuietStep
  <2>2. CASE CleanupGoodbye(c)
    BY <2>2, AnnounceStep
  <2>3. ASSUME NEW s \in Sub,
               \/ CleanupUnsubscribe(c, s) \/ CleanupRequeue(c, s)
               \/ CleanupSubChannel(c, s)
        PROVE  IInv'
    BY <2>3, AnnounceStep, CleanupRequeueStep, GiveBackStep
  <2> QED
    BY <1>3, <2>1, <2>2, <2>3 DEF Cleanup
<1>4. CASE WriteTopicFrame(c)
  BY <1>4, QuietStep
<1>5. CASE TopicWriteFails(c)
  BY <1>5, TopicWriteFailsStep
<1>6. CASE WriteQueueFrame(c)
  <2>1. ASSUME NEW s \in Sub,
               \/ DeliverAuto(c, s) \/ DeliverUnacked(c, s)
               \/ DeliverFails(c, s) \/ ReturnQueueFrame(c, s)
        PROVE  IInv'
    BY <2>1, DeliverAutoStep, DeliverUnackedStep, DeliverFailsStep, GiveBackStep
  <2> QED
    BY <1>6, <2>1 DEF WriteQueueFrame
<1> QED
  BY <1>1, <1>2, <1>3, <1>4, <1>5, <1>6 DEF ConnStep

=============================================================================
