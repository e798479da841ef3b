------------------------- MODULE UnsubscribeProofs -------------------------
(***************************************************************************)
(* No subscription outlives its connection in a queue or a topic: whatever *)
(* the processor registers and the connection does not know of any more,   *)
(* an UNSUBSCRIBE for it is still under way behind it.                     *)
(***************************************************************************)
EXTENDS DeliveryProofs

\* What is asked of a client that sends UNSUBSCRIBE: its messages need no acknowledgement
\* and the id is not used for another SUBSCRIBE.  Otherwise handleAck, or WriteFrame with
\* the other subscription of that id, registers the subscription again.
LeaversAreSimple ==
    \A s \in Leavers :
        /\ SubAck[s] = "auto"
        /\ \A r \in Sub : SubConn[r] = SubConn[s] /\ SubIdOf[r] = SubIdOf[s] => r = s

-----------------------------------------------------------------------------
(* The invariant *)

\* The connection of s has no subscription s, any more or yet.
Unknown(s) == s \notin subs[SubConn[s]]

\* s is in the list of a queue or topic.
Registered(s) ==
    \/ \E q \in Queue : \E i \in DOMAIN qsubs[q] : qsubs[q][i] = s
    \/ \E t \in Topic : \E i \in DOMAIN tsubs[t] : tsubs[t][i] = s

Joins(r, s)  == r.op = "Subscribe" /\ r.sub = s
Leaves(r, s) == r.op = "Unsubscribe" /\ r.sub = s

JoinsOut(s)       == \E i \in DOMAIN out[SubConn[s]] : Joins(out[SubConn[s]][i], s)
LeavesOut(s)      == \E i \in DOMAIN out[SubConn[s]] : Leaves(out[SubConn[s]][i], s)
LeavesAfter(s, i) == \E j \in DOMAIN reqCh : i < j /\ Leaves(reqCh[j], s)

\* A subscription that its connection does not know leaves after it has joined; while
\* the client is connected, it is one that the client has unsubscribed.
SubLeaves(s) ==
    /\ Registered(s) /\ Unknown(s) => LeavesOut(s) \/ LeavesAfter(s, 0)
    /\ \A i \in DOMAIN reqCh :
          Joins(reqCh[i], s) /\ Unknown(s) => LeavesOut(s) \/ LeavesAfter(s, i)
    /\ JoinsOut(s) => ~Unknown(s)
    /\ phase[SubConn[s]] = "connected" /\ Unknown(s) /\ subAt[s] /= "none" => s \in Leavers
    /\ subAt[s] = "unacked" => SubAck[s] /= "auto"
    /\ phase[SubConn[s]] \in {"none", "connecting"} => subAt[s] = "none"

\* The cleanup phases after the one that unsubscribes.
Unsubscribed == {"requeue", "discard2", "drain1", "goodbye", "discard3", "drain2", "closed"}

ConnLeaves(c) ==
    /\ phase[c] \in Unsubscribed => subs[c] = {}
    /\ work[c] /= <<>> => phase[c] = "connected"

LeaveInv == (\A s \in Sub : SubLeaves(s)) /\ (\A c \in Conn : ConnLeaves(c))

-----------------------------------------------------------------------------
(* Steps of the request processor *)

\* The processor takes a request: s is registered only if it joins, and not when it
\* leaves.
LEMMA TakenLeaves ==
    ASSUME TypeOK, NEW s \in Sub, SubLeaves(s), NEW r, Take(r),
           UNCHANGED <<subs, out, phase>>,
           Registered(s)' => (Registered(s) \/ Joins(r, s)) /\ ~Leaves(r, s),
           \/ subAt'[s] = subAt[s]
           \/ subAt[s] /= "none" /\ subAt'[s] /= "unacked"
    PROVE  SubLeaves(s)'
<1>1. /\ reqCh \in Seq(Request) /\ reqCh /= <<>> /\ r = reqCh[1] /\ reqCh' = Tail(reqCh)
      /\ 1 \in DOMAIN reqCh
  BY DEF TypeOK, Take
<1>2. /\ \A i \in DOMAIN reqCh' : i + 1 \in DOMAIN reqCh /\ reqCh'[i] = reqCh[i + 1]
      /\ \A j \in DOMAIN reqCh : j > 1 => j - 1 \in DOMAIN reqCh' /\ reqCh'[j - 1] = reqCh[j]
      /\ DOMAIN reqCh \subseteq Nat \ {0} /\ DOMAIN reqCh' \subseteq Nat \ {0}
  BY <1>1
<1>3. ASSUME NEW i \in Nat, LeavesAfter(s, i + 1) PROVE LeavesAfter(s, i)'
  <2>1. PICK j \in DOMAIN reqCh : i + 1 < j /\ Leaves(reqCh[j], s)
    BY <1>3 DEF LeavesAfter
  <2>2. j - 1 \in DOMAIN reqCh' /\ reqCh'[j - 1] = reqCh[j] /\ i < j - 1
    BY <1>2, <2>1
  <2> QED
    BY <2>1, <2>2 DEF LeavesAfter
<1>4. /\ Unknown(s)' <=> Unknown(s)
      /\ LeavesOut(s)' <=> LeavesOut(s)
      /\ JoinsOut(s)' <=> JoinsOut(s)
  BY DEF Unknown, LeavesOut, JoinsOut
<1>5. ASSUME Registered(s)', Unknown(s) PROVE LeavesOut(s) \/ LeavesAfter(s, 0)'
  <2>1. CASE Joins(r, s)
    <3>1. LeavesOut(s) \/ LeavesAfter(s, 1)
      BY <1>1, <1>5, <2>1 DEF SubLeaves
    <3> QED
      BY <1>3, <3>1
  <2>2. CASE Registered(s)
    <3>1. LeavesOut(s) \/ LeavesAfter(s, 0)
      BY <1>5, <2>2 DEF SubLeaves
    <3>2. ASSUME LeavesAfter(s, 0) PROVE LeavesAfter(s, 1)
      <4>1. PICK j \in DOMAIN reqCh : Leaves(reqCh[j], s)
        BY <3>2 DEF LeavesAfter
      <4>2. j /= 1
        BY <1>1, <1>5, <4>1
      <4>3. 1 < j
        BY <1>2, <4>2
      <4> QED
        BY <4>1, <4>3 DEF LeavesAfter
    <3> QED
      BY <1>3, <3>1, <3>2
  <2> QED
    BY <1>5, <2>1, <2>2
<1>6. ASSUME NEW i \in DOMAIN reqCh', Joins(reqCh'[i], s), Unknown(s)
      PROVE  LeavesOut(s) \/ LeavesAfter(s, i)'
  <2>1. LeavesOut(s) \/ LeavesAfter(s, i + 1)
    BY <1>2, <1>6 DEF SubLeaves
  <2> QED
    BY <1>2, <1>3, <2>1
<1>7. /\ phase[SubConn[s]] = "connected" /\ Unknown(s) /\ subAt'[s] /= "none" => s \in Leavers
      /\ subAt'[s] = "unacked" => SubAck[s] /= "auto"
      /\ phase[SubConn[s]] \in {"none", "connecting"} => subAt'[s] = "none"
      /\ JoinsOut(s) => ~Unknown(s)
  BY DEF SubLeaves
<1> QED
  BY <1>4, <1>5, <1>6, <1>7 DEF SubLeaves

\* The processor sends on a channel of a connection.
LEMMA SentLeaves ==
    ASSUME NEW s \in Sub, SubLeaves(s), UNCHANGED <<reqCh, qsubs, tsubs, subs, out, phase>>,
           \/ subAt'[s] = subAt[s]
           \/ subAt[s] /= "none" /\ subAt'[s] /= "unacked"
    PROVE  SubLeaves(s)'
<1>1. /\ Unknown(s)' <=> Unknown(s)
      /\ LeavesOut(s)' <=> LeavesOut(s)
      /\ JoinsOut(s)' <=> JoinsOut(s)
      /\ Registered(s)' <=> Registered(s)
      /\ \A i : LeavesAfter(s, i)' <=> LeavesAfter(s, i)
  BY DEF Unknown, LeavesOut, JoinsOut, Registered, LeavesAfter
<1> QED
  BY <1>1 DEF SubLeaves

\* Adding to the end of a list of subscriptions, or taking from it.
LEMMA RegisteredAdded ==
    ASSUME NEW F, NEW K, F \in [K -> Seq(Sub)], NEW k \in K, NEW s \in Sub, NEW G,
           G = [F EXCEPT ![k] = Append(@, s)], NEW x,
           \E d \in K : \E i \in DOMAIN G[d] : G[d][i] = x
    PROVE  x = s \/ \E d \in K : \E i \in DOMAIN F[d] : F[d][i] = x
<1>1. PICK d \in K : \E i \in DOMAIN G[d] : G[d][i] = x
  OBVIOUS
<1>2. PICK i \in DOMAIN G[d] : G[d][i] = x
  BY <1>1
<1>3. CASE d = k
  <2>1. G[k] = Append(F[k], s) /\ F[k] \in Seq(Sub)
    OBVIOUS
  <2>2. x = s \/ (i \in DOMAIN F[k] /\ F[k][i] = x)
    BY <1>2, <1>3, <2>1
  <2> QED
    BY <2>2
<1>4. CASE d /= k
  BY <1>2, <1>4
<1> QED
  BY <1>3, <1>4

\* Taking elements from one list of a family registers nothing.
LEMMA RegisteredTaken ==
    ASSUME NEW F, NEW K, F \in [K -> Seq(Sub)], NEW k \in K, NEW l, NEW G,
           G = [F EXCEPT ![k] = l],
           \A i \in DOMAIN l : \E j \in DOMAIN F[k] : l[i] = F[k][j], NEW x,
           \E d \in K : \E i \in DOMAIN G[d] : G[d][i] = x
    PROVE  \E d \in K : \E i \in DOMAIN F[d] : F[d][i] = x
<1>1. PICK d \in K : \E i \in DOMAIN G[d] : G[d][i] = x
  OBVIOUS
<1>2. PICK i \in DOMAIN G[d] : G[d][i] = x
  BY <1>1
<1>3. CASE d = k
  <2>1. PICK j \in DOMAIN F[k] : G[k][i] = F[k][j]
    BY <1>2, <1>3
  <2> QED
    BY <1>2, <1>3, <2>1
<1>4. CASE d /= k
  BY <1>2, <1>4
<1> QED
  BY <1>3, <1>4

\* What is registered is registered with its destination.
LEMMA RegisteredAt ==
    IInv => \A s \in Sub : Registered(s) =>
        /\ subAt[s] \in {"ready", "topic"}
        /\ \/ SubDest[s] \in Queue /\ ~Absent(qsubs[SubDest[s]], s)
           \/ SubDest[s] \in Topic /\ ~Absent(tsubs[SubDest[s]], s)
BY DEF IInv, SubInv, SubInReady, SubInTopic, Lists, Registered, Absent

\* A request that changes no list and does not unsubscribe.
LEMMA ListsLeave ==
    ASSUME TypeOK, \A s \in Sub : SubLeaves(s), NEW r, Take(r), r.op /= "Unsubscribe",
           UNCHANGED <<subs, out, phase>>, UNCHANGED <<qsubs, tsubs, subAt>>
    PROVE  \A s \in Sub : SubLeaves(s)'
<1>1. \A s \in Sub : Registered(s)' => Registered(s) /\ ~Leaves(r, s)
  BY DEF Registered, Leaves
<1> QED
  BY <1>1, TakenLeaves

\* The processor.
LEMMA ServeLeaves ==
    ASSUME IInv, IInv', \A s \in Sub : SubLeaves(s), Serve
    PROVE  \A s \in Sub : SubLeaves(s)'
<1>1. TypeOK /\ RequestInv /\ SubInRequest /\ MsgInRequest /\ SubInReady /\ SubInTopic
      /\ SubInProc
  BY DEF IInv, SubInv, MsgInv
<1>2. \A s \in Sub : Registered(s)' => subAt'[s] \in {"ready", "topic"}
  <2>1. IInv' => (\A s \in Sub : Registered(s) =>
            /\ subAt[s] \in {"ready", "topic"}
            /\ \/ SubDest[s] \in Queue /\ ~Absent(qsubs[SubDest[s]], s)
               \/ SubDest[s] \in Topic /\ ~Absent(tsubs[SubDest[s]], s))'
    BY RegisteredAt, PTL
  <2> QED
    BY <2>1
<1>3. ASSUME NEW op, NEW x \in Sub, Take(SubRequest(op, x))
      PROVE  \A s : /\ Joins(SubRequest(op, x), s) <=> op = "Subscribe" /\ s = x
                    /\ Leaves(SubRequest(op, x), s) <=> op = "Unsubscribe" /\ s = x
  BY DEF Joins, Leaves, SubRequest
<1>4. ASSUME NEW x \in Sub, Take(SubRequest("Subscribe", x)),
             UNCHANGED <<subs, out, phase>>, NEW p, p /= "unacked",
             subAt' = [subAt EXCEPT ![x] = p],
             \A s \in Sub : Registered(s)' => Registered(s) \/ s = x
      PROVE  \A s \in Sub : SubLeaves(s)'
  <2>1. subAt[x] = "request"
    BY <1>1, <1>4, HeadFacts DEF SubRequest
  <2>2. \A s \in Sub : subAt'[s] = subAt[s] \/ (subAt[s] /= "none" /\ subAt'[s] /= "unacked")
    BY <1>1, <1>4, <2>1 DEF TypeOK
  <2>3. \A s \in Sub : Registered(s)' =>
           /\ Registered(s) \/ Joins(SubRequest("Subscribe", x), s)
           /\ ~Leaves(SubRequest("Subscribe", x), s)
    BY <1>3, <1>4
  <2> QED
    BY <1>1, <1>4, <2>2, <2>3, TakenLeaves
<1>5. ASSUME NEW x \in Sub, Take(SubRequest("Unsubscribe", x)),
             UNCHANGED <<subs, out, phase>>,
             \A s \in Sub : Registered(s)' => Registered(s) /\ s /= x,
             \A s \in Sub : \/ subAt'[s] = subAt[s]
                            \/ subAt[s] /= "none" /\ subAt'[s] /= "unacked"
      PROVE  \A s \in Sub : SubLeaves(s)'
  <2>1. \A s \in Sub : Registered(s)' =>
           /\ Registered(s) \/ Joins(SubRequest("Unsubscribe", x), s)
           /\ ~Leaves(SubRequest("Unsubscribe", x), s)
    BY <1>3, <1>5
  <2> QED
    BY <1>1, <1>5, <2>1, TakenLeaves
<1>6. ASSUME NEW q \in Queue, NEW x \in Sub, NEW m \in Msg, SubscribeServed(q, x, m)
      PROVE  \A s \in Sub : SubLeaves(s)'
  <2>1. /\ Take(SubRequest("Subscribe", x)) /\ UNCHANGED <<subs, out, phase>>
        /\ subAt' = [subAt EXCEPT ![x] = "sending"] /\ UNCHANGED <<qsubs, tsubs>>
    BY <1>6 DEF SubscribeServed, SendQueueFrame, connVars
  <2>2. \A s \in Sub : Registered(s)' => Registered(s) \/ s = x
    BY <2>1 DEF Registered
  <2> QED
    BY <1>4, <2>1, <2>2
<1>7. ASSUME NEW q \in Queue, NEW x \in Sub, SubscribeWaits(q, x)
      PROVE  \A s \in Sub : SubLeaves(s)'
  <2>1. /\ Take(SubRequest("Subscribe", x)) /\ UNCHANGED <<subs, out, phase>>
        /\ subAt' = [subAt EXCEPT ![x] = "ready"] /\ UNCHANGED tsubs
        /\ qsubs' = [qsubs EXCEPT ![q] = Append(@, x)] /\ qsubs \in [Queue -> Seq(Sub)]
    BY <1>1, <1>7 DEF SubscribeWaits, connVars, TypeOK
  <2>2. \A s \in Sub : (\E d \in Queue : \E i \in DOMAIN qsubs'[d] : qsubs'[d][i] = s)
           => s = x \/ \E d \in Queue : \E i \in DOMAIN qsubs[d] : qsubs[d][i] = s
    BY <2>1, RegisteredAdded
  <2>3. \A s \in Sub : Registered(s)' => Registered(s) \/ s = x
    BY <2>1, <2>2 DEF Registered
  <2> QED
    BY <1>4, <2>1, <2>3
<1>8. ASSUME NEW t \in Topic, NEW x \in Sub, TopicSubscribe(t, x)
      PROVE  \A s \in Sub : SubLeaves(s)'
  <2>1. /\ Take(SubRequest("Subscribe", x)) /\ UNCHANGED <<subs, out, phase>>
        /\ subAt' = [subAt EXCEPT ![x] = "topic"] /\ UNCHANGED qsubs
        /\ tsubs' = [tsubs EXCEPT ![t] = Append(@, x)] /\ tsubs \in [Topic -> Seq(Sub)]
    BY <1>1, <1>8 DEF TopicSubscribe, connVars, TypeOK
  <2>2. \A s \in Sub : (\E d \in Topic : \E i \in DOMAIN tsubs'[d] : tsubs'[d][i] = s)
           => s = x \/ \E d \in Topic : \E i \in DOMAIN tsubs[d] : tsubs[d][i] = s
    BY <2>1, RegisteredAdded
  <2>3. \A s \in Sub : Registered(s)' => Registered(s) \/ s = x
    BY <2>1, <2>2 DEF Registered
  <2> QED
    BY <1>4, <2>1, <2>3
<1>9. ASSUME NEW q \in Queue, NEW x \in Sub, NEW i \in DOMAIN qsubs[q],
             QueueUnsubscribe(q, x, i)
      PROVE  \A s \in Sub : SubLeaves(s)'
  <2>1. /\ Take(SubRequest("Unsubscribe", x)) /\ UNCHANGED <<subs, out, phase>>
        /\ subAt' = [subAt EXCEPT ![x] = "gone"] /\ UNCHANGED tsubs /\ subAt \in [Sub -> SubPlaces]
        /\ qsubs' = [qsubs EXCEPT ![q] = RemoveAt(qsubs[q], i)] /\ qsubs \in [Queue -> Seq(Sub)]
        /\ qsubs[q][i] = x
    BY <1>1, <1>9 DEF QueueUnsubscribe, AfterRemove, FirstAt, connVars, TypeOK
  <2>2. Distinct(qsubs[q]) /\ qsubs[q] \in Seq(Sub) /\ subAt[x] = "ready"
    BY <1>1, <2>1 DEF SubInReady, Lists
  <2>3. \A k \in DOMAIN RemoveAt(qsubs[q], i) :
           \E j \in DOMAIN qsubs[q] : RemoveAt(qsubs[q], i)[k] = qsubs[q][j]
    BY <2>2, RemoveDistinct
  <2>4. \A s \in Sub : (\E d \in Queue : \E k \in DOMAIN qsubs'[d] : qsubs'[d][k] = s)
           => \E d \in Queue : \E k \in DOMAIN qsubs[d] : qsubs[d][k] = s
    BY <2>1, <2>3, RegisteredTaken
  <2>5. \A s \in Sub : Registered(s)' => Registered(s) /\ s /= x
    BY <1>2, <2>1, <2>4 DEF Registered
  <2>6. \A s \in Sub : subAt'[s] = subAt[s] \/ (subAt[s] /= "none" /\ subAt'[s] /= "unacked")
    BY <2>1, <2>2
  <2> QED
    BY <1>5, <2>1, <2>5, <2>6
<1>10. ASSUME NEW t \in Topic, NEW x \in Sub, NEW i \in DOMAIN tsubs[t],
              TopicUnsubscribe(t, x, i)
       PROVE  \A s \in Sub : SubLeaves(s)'
  <2>1. /\ Take(SubRequest("Unsubscribe", x)) /\ UNCHANGED <<subs, out, phase>>
        /\ subAt' = [subAt EXCEPT ![x] = "gone"] /\ UNCHANGED qsubs /\ subAt \in [Sub -> SubPlaces]
        /\ tsubs' = [tsubs EXCEPT ![t] = RemoveAt(tsubs[t], i)] /\ tsubs \in [Topic -> Seq(Sub)]
        /\ tsubs[t][i] = x
    BY <1>1, <1>10 DEF TopicUnsubscribe, AfterRemove, FirstAt, connVars, TypeOK
  <2>2. Distinct(tsubs[t]) /\ tsubs[t] \in Seq(Sub) /\ subAt[x] = "topic"
    BY <1>1, <2>1 DEF SubInTopic, Lists
  <2>3. \A k \in DOMAIN RemoveAt(tsubs[t], i) :
           \E j \in DOMAIN tsubs[t] : RemoveAt(tsubs[t], i)[k] = tsubs[t][j]
    BY <2>2, RemoveDistinct
  <2>4. \A s \in Sub : (\E d \in Topic : \E k \in DOMAIN tsubs'[d] : tsubs'[d][k] = s)
           => \E d \in Topic : \E k \in DOMAIN tsubs[d] : tsubs[d][k] = s
    BY <2>1, <2>3, RegisteredTaken
  <2>5. \A s \in Sub : Registered(s)' => Registered(s) /\ s /= x
    BY <1>2, <2>1, <2>4 DEF Registered
  <2>6. \A s \in Sub : subAt'[s] = subAt[s] \/ (subAt[s] /= "none" /\ subAt'[s] /= "unacked")
    BY <2>1, <2>2
  <2> QED
    BY <1>5, <2>1, <2>5, <2>6
<1>11. ASSUME NEW op \in {"Enqueue", "Requeue"}, NEW q \in Queue, NEW x \in Sub,
              NEW m \in Msg, GiveToReady(op, q, x, m)
       PROVE  \A s \in Sub : SubLeaves(s)'
  <2>1. /\ Take(FrameRequest(op, m)) /\ UNCHANGED <<subs, out, phase>>
        /\ subAt' = [subAt EXCEPT ![x] = "sending"] /\ UNCHANGED tsubs
        /\ subAt \in [Sub -> SubPlaces]
        /\ qsubs' = [qsubs EXCEPT ![q] = Tail(qsubs[q])] /\ qsubs \in [Queue -> Seq(Sub)]
        /\ qsubs[q] /= <<>> /\ x = Head(qsubs[q])
    BY <1>1, <1>11 DEF GiveToReady, AfterGet, SendQueueFrame, connVars, TypeOK
  <2>2. subAt[x] = "ready"
    BY <1>1, <2>1, ListsHead DEF SubInReady
  <2>3. \A k \in DOMAIN Tail(qsubs[q]) :
           \E j \in DOMAIN qsubs[q] : Tail(qsubs[q])[k] = qsubs[q][j]
    BY <2>1, TailIsOld
  <2>4. \A s \in Sub : (\E d \in Queue : \E k \in DOMAIN qsubs'[d] : qsubs'[d][k] = s)
           => \E d \in Queue : \E k \in DOMAIN qsubs[d] : qsubs[d][k] = s
    BY <2>1, <2>3, RegisteredTaken
  <2>5. \A s \in Sub : Registered(s)' => Registered(s) /\ ~Leaves(FrameRequest(op, m), s)
    BY <2>1, <2>4 DEF Registered, Leaves, FrameRequest
  <2>6. \A s \in Sub : subAt'[s] = subAt[s] \/ (subAt[s] /= "none" /\ subAt'[s] /= "unacked")
    BY <2>1, <2>2
  <2> QED
    BY <1>1, <2>1, <2>5, <2>6, TakenLeaves
<1>12. ASSUME NEW x \in Sub, UnsubscribeAbsent(x)
       PROVE  \A s \in Sub : SubLeaves(s)'
  <2>1. /\ Take(SubRequest("Unsubscribe", x)) /\ UNCHANGED <<subs, out, phase>>
        /\ UNCHANGED <<subAt, qsubs, tsubs>>
    BY <1>12 DEF UnsubscribeAbsent, procVars, connVars, objVars
  <2>2. ~Registered(x)
    BY <1>12, RegisteredAt DEF UnsubscribeAbsent
  <2>3. \A s \in Sub : Registered(s)' => Registered(s) /\ s /= x
    BY <2>1, <2>2 DEF Registered
  <2> QED
    BY <1>5, <2>1, <2>3
<1>13. ASSUME NEW op \in {"Enqueue", "Requeue"}, NEW q \in Queue, NEW m \in Msg, NEW l,
              Keep(op, q, m, l)
       PROVE  \A s \in Sub : SubLeaves(s)'
  BY <1>1, <1>13, ListsLeave DEF Keep, connVars, FrameRequest
<1>14. ASSUME NEW t \in Topic, NEW m \in Msg, TopicEnqueue(t, m)
       PROVE  \A s \in Sub : SubLeaves(s)'
  BY <1>1, <1>14, ListsLeave DEF TopicEnqueue, connVars, FrameRequest
<1>15. ASSUME NEW m \in Msg, MissingDestination(m)
       PROVE  \A s \in Sub : SubLeaves(s)'
  BY <1>1, <1>15, ListsLeave DEF MissingDestination, procVars, connVars, objVars, FrameRequest
<1>16. CASE IgnoreRequest
  <2>1. /\ Take(Head(reqCh)) /\ Head(reqCh).op /= "Unsubscribe"
        /\ UNCHANGED <<subs, out, phase>> /\ UNCHANGED <<qsubs, tsubs, subAt>>
    BY <1>16 DEF IgnoreRequest, procVars, connVars, objVars
  <2> QED
    BY <1>1, <2>1, ListsLeave
<1>17. ASSUME NEW c \in Conn, NEW x \in Sub, SendOnSubChannel(c, x)
       PROVE  \A s \in Sub : SubLeaves(s)'
  <2>1. procOut \in Seq(Delivery) /\ procOut /= <<>> /\ x = Head(procOut).sub
        /\ SubDest[x] \in Queue
    BY <1>1, <1>17 DEF SendOnSubChannel, NextDelivery, TypeOK
  <2>2. 1 \in DOMAIN procOut /\ x = procOut[1].sub
    BY <2>1
  <2>3. subAt[x] = "sending"
    BY <1>1, <2>1, <2>2 DEF SubInProc
  <2>4. \A s \in Sub : subAt'[s] = subAt[s] \/ (subAt[s] /= "none" /\ subAt'[s] /= "unacked")
    BY <1>1, <1>17, <2>3 DEF SendOnSubChannel, TypeOK
  <2>5. UNCHANGED <<reqCh, qsubs, tsubs, subs, out, phase>>
    BY <1>17 DEF SendOnSubChannel, connVars
  <2> QED
    BY <2>4, <2>5, SentLeaves
<1>18. ASSUME NEW c \in Conn, NEW x \in Sub, SendOnWriteChannel(c, x)
       PROVE  \A s \in Sub : SubLeaves(s)'
  <2>1. UNCHANGED <<reqCh, qsubs, tsubs, subs, out, phase>> /\ UNCHANGED subAt
    BY <1>18 DEF SendOnWriteChannel, connVars, objVars
  <2> QED
    BY <2>1, SentLeaves
<1>19. ASSUME NEW q \in Queue, NEW m \in Msg, QueueEnqueue(q, m) \/ QueueRequeue(q, m)
       PROVE  \A s \in Sub : SubLeaves(s)'
  BY <1>11, <1>13, <1>19 DEF QueueEnqueue, QueueRequeue
<1> QED
  BY <1>6, <1>7, <1>8, <1>9, <1>10, <1>12, <1>14, <1>15, <1>16, <1>17, <1>18, <1>19
     DEF Serve, QueueSubscribe

-----------------------------------------------------------------------------
(* Steps of a connection: its subscriptions *)

\* What a step of the connection of s has to see to.
Minds(s) ==
    /\ Unknown(s)' => Unknown(s) \/ LeavesOut(s)'
    /\ JoinsOut(s)' => ~Unknown(s)'
    /\ phase'[SubConn[s]] = "connected" /\ Unknown(s)' /\ subAt'[s] /= "none" => s \in Leavers
    /\ subAt'[s] = "unacked" => SubAck[s] /= "auto"
    /\ phase'[SubConn[s]] \in {"none", "connecting"} => subAt'[s] = "none"

\* A step of c touches nothing of the other connections.
OnlyOf(c) ==
    /\ UNCHANGED <<reqCh, qsubs, tsubs>>
    /\ \A d \in Conn : d /= c =>
         phase'[d] = phase[d] /\ subs'[d] = subs[d] /\ out'[d] = out[d]
    /\ \A s \in Sub : SubConn[s] /= c => subAt'[s] = subAt[s]

\* A step of connection c that minds c's own subscriptions keeps what is said of all.
LEMMA ConnectionLeaves ==
    ASSUME \A s \in Sub : SubLeaves(s), NEW c \in Conn, OnlyOf(c),
           out[c] = <<>> \/ UNCHANGED out,
           \A s \in Sub : SubConn[s] = c => Minds(s)
    PROVE  \A s \in Sub : SubLeaves(s)'
<1> SUFFICES ASSUME NEW s \in Sub PROVE SubLeaves(s)'
  OBVIOUS
<1>1. /\ Registered(s)' <=> Registered(s)
      /\ \A i : LeavesAfter(s, i)' <=> LeavesAfter(s, i)
      /\ UNCHANGED reqCh
  BY DEF OnlyOf, Registered, LeavesAfter
<1>2. CASE SubConn[s] /= c
  <2>1. SubConn[s] \in Conn
    BY PoolAssumption
  <2>2. /\ phase'[SubConn[s]] = phase[SubConn[s]] /\ subs'[SubConn[s]] = subs[SubConn[s]]
        /\ out'[SubConn[s]] = out[SubConn[s]] /\ subAt'[s] = subAt[s]
    BY <1>2, <2>1 DEF OnlyOf
  <2>3. /\ Unknown(s)' <=> Unknown(s)
        /\ LeavesOut(s)' <=> LeavesOut(s)
        /\ JoinsOut(s)' <=> JoinsOut(s)
    BY <2>2 DEF Unknown, LeavesOut, JoinsOut
  <2> QED
    BY <1>1, <2>2, <2>3 DEF SubLeaves
<1>3. CASE SubConn[s] = c
  <2>1. LeavesOut(s) => LeavesOut(s)'
    BY <1>3 DEF LeavesOut
  <2>2. Minds(s)
    BY <1>3
  <2> QED
    BY <1>1, <2>1, <2>2 DEF SubLeaves, Minds
<1> QED
  BY <1>2, <1>3

\* An object goes from hand to hand and no subscription is made or ended.
Passed(s) ==
    \/ subAt'[s] = subAt[s]
    \/ subAt[s] /= "none" /\ (subAt'[s] = "unacked" => SubAck[s] /= "auto")

\* Handing an object on ends no subscription and makes none.
LEMMA PassedMinds ==
    ASSUME NEW s \in Sub, SubLeaves(s), UNCHANGED subs, JoinsOut(s)' => JoinsOut(s), Passed(s),
           phase'[SubConn[s]] = "connected" => phase[SubConn[s]] \in {"connected", "connecting"},
           phase'[SubConn[s]] \in {"none", "connecting"}
              => phase[SubConn[s]] \in {"none", "connecting"}
    PROVE  Minds(s)
<1>1. Unknown(s)' <=> Unknown(s)
  BY DEF Unknown
<1> QED
  BY <1>1 DEF Minds, SubLeaves, Passed

\* A step that sends nothing.
LEMMA SilentLeaves ==
    ASSUME TypeOK, \A s \in Sub : SubLeaves(s), NEW c \in Conn, NEW p,
           UNCHANGED <<reqCh, qsubs, tsubs, subs, out>>,
           phase' = [phase EXCEPT ![c] = p],
           p = "connected" => phase[c] = "connected",
           p \in {"none", "connecting"} => phase[c] \in {"none", "connecting"},
           \A s \in Sub : Passed(s),
           \A s \in Sub : SubConn[s] /= c => subAt'[s] = subAt[s]
    PROVE  \A s \in Sub : SubLeaves(s)'
<1>1. phase'[c] = p /\ \A d \in Conn : d /= c => phase'[d] = phase[d]
  BY DEF TypeOK
<1>2. OnlyOf(c)
  BY <1>1 DEF OnlyOf
<1>3. \A s \in Sub : JoinsOut(s)' <=> JoinsOut(s)
  BY DEF JoinsOut
<1>4. \A s \in Sub : SubConn[s] = c => Minds(s)
  BY <1>1, <1>3, PassedMinds
<1> QED
  BY <1>2, <1>4, ConnectionLeaves

\* Nothing that out'[c] holds makes a subscription.
NoJoin(c) == \A i \in DOMAIN out'[c] : out'[c][i].op /= "Subscribe"

\* A handler that sends another request.
LEMMA AnnounceLeaves ==
    ASSUME TypeOK, \A s \in Sub : SubLeaves(s), NEW c \in Conn, NEW p, out[c] = <<>>,
           UNCHANGED <<reqCh, qsubs, tsubs, subs>>,
           phase' = [phase EXCEPT ![c] = p],
           p = "connected" => phase[c] \in {"connected", "connecting"},
           p \in {"none", "connecting"} => phase[c] \in {"none", "connecting"},
           \A d \in Conn : d /= c => out'[d] = out[d], NoJoin(c),
           \A s \in Sub : Passed(s),
           \A s \in Sub : SubConn[s] /= c => subAt'[s] = subAt[s]
    PROVE  \A s \in Sub : SubLeaves(s)'
<1>1. phase'[c] = p /\ \A d \in Conn : d /= c => phase'[d] = phase[d]
  BY DEF TypeOK
<1>2. OnlyOf(c)
  BY <1>1 DEF OnlyOf
<1>3. \A s \in Sub : SubConn[s] = c => ~JoinsOut(s)'
  BY DEF JoinsOut, NoJoin, Joins
<1>4. \A s \in Sub : SubConn[s] = c => Minds(s)
  BY <1>1, <1>3, PassedMinds
<1> QED
  BY <1>2, <1>4, ConnectionLeaves

\* A handler that sends subscription x, which its connection knows, to the processor.
LEMMA RejoinLeaves ==
    ASSUME TypeOK, \A s \in Sub : SubLeaves(s), NEW c \in Conn, NEW x \in Sub, SubConn[x] = c,
           out[c] = <<>>, UNCHANGED <<reqCh, qsubs, tsubs, phase>>, phase[c] = "connected",
           x \in subs'[c], \A s \in subs[c] : s \in subs'[c],
           \A d \in Conn : d /= c => out'[d] = out[d] /\ subs'[d] = subs[d],
           \A i \in DOMAIN out'[c] : out'[c][i].op = "Subscribe" => out'[c][i].sub = x,
           subAt' = [subAt EXCEPT ![x] = "out"]
    PROVE  \A s \in Sub : SubLeaves(s)'
<1>1. subAt'[x] = "out" /\ \A s \in Sub : s /= x => subAt'[s] = subAt[s]
  BY DEF TypeOK
<1>2. OnlyOf(c)
  BY <1>1 DEF OnlyOf
<1>3. ASSUME NEW s \in Sub, SubConn[s] = c PROVE Minds(s)
  <2>1. Unknown(s)' => Unknown(s) /\ s /= x
    BY <1>3 DEF Unknown
  <2>2. JoinsOut(s)' => s = x
    BY <1>3 DEF JoinsOut, Joins
  <2> QED
    BY <1>1, <1>3, <2>1, <2>2 DEF Minds, SubLeaves
<1> QED
  BY <1>2, <1>3, ConnectionLeaves

\* UNSUBSCRIBE, or the cleanup of subscription x.
LEMMA UnsubscribeLeaves ==
    ASSUME TypeOK, \A s \in Sub : SubLeaves(s), NEW c \in Conn, NEW x \in Sub, SubConn[x] = c,
           out[c] = <<>>, UNCHANGED <<reqCh, qsubs, tsubs, phase, subAt>>,
           phase[c] = "connected" => x \in Leavers, phase[c] \notin {"none", "connecting"},
           subs' = [subs EXCEPT ![c] = @ \ {x}],
           out' = [out EXCEPT ![c] = <<SubRequest("Unsubscribe", x)>>]
    PROVE  \A s \in Sub : SubLeaves(s)'
<1>1. /\ subs'[c] = subs[c] \ {x} /\ out'[c] = <<SubRequest("Unsubscribe", x)>>
      /\ \A d \in Conn : d /= c => subs'[d] = subs[d] /\ out'[d] = out[d]
  BY DEF TypeOK
<1>2. OnlyOf(c)
  BY <1>1 DEF OnlyOf
<1>3. DOMAIN out'[c] = {1} /\ out'[c][1].op = "Unsubscribe" /\ out'[c][1].sub = x
  BY <1>1 DEF SubRequest
<1>4. ASSUME NEW s \in Sub, SubConn[s] = c PROVE Minds(s)
  <2>1. ~JoinsOut(s)' /\ LeavesOut(x)'
    BY <1>3, <1>4 DEF JoinsOut, Joins, LeavesOut, Leaves
  <2>2. Unknown(s)' => Unknown(s) \/ s = x
    BY <1>1, <1>4 DEF Unknown
  <2> QED
    BY <1>4, <2>1, <2>2 DEF Minds, SubLeaves
<1> QED
  BY <1>2, <1>4, ConnectionLeaves

\* The next request of a handler goes to the processor.
LEMMA SendRequestLeaves ==
    ASSUME IInv, \A s \in Sub : SubLeaves(s), NEW c \in Conn, SendRequest(c)
    PROVE  \A s \in Sub : SubLeaves(s)'
<1> SUFFICES ASSUME NEW s \in Sub PROVE SubLeaves(s)'
  OBVIOUS
<1>1. TypeOK /\ RequestInv /\ SubInOut
  BY DEF IInv, SubInv
<1>2. PICK r : r = Head(out[c])
  OBVIOUS
<1>3. /\ out[c] \in Seq(Request) /\ out[c] /= <<>> /\ out'[c] = Tail(out[c])
      /\ \A d \in Conn : d /= c => out'[d] = out[d]
      /\ reqCh \in Seq(Request) /\ reqCh' = Append(reqCh, r)
      /\ UNCHANGED <<qsubs, tsubs, subs, phase>>
  BY <1>1, <1>2 DEF SendRequest, TypeOK, Elsewhere, procVars
<1>4. /\ 1 \in DOMAIN out[c] /\ r = out[c][1] /\ r \in Request
      /\ \A i \in DOMAIN out'[c] : i + 1 \in DOMAIN out[c] /\ out'[c][i] = out[c][i + 1]
      /\ \A i \in DOMAIN out[c] : i = 1 \/ (i - 1 \in DOMAIN out'[c] /\ out'[c][i - 1] = out[c][i])
  BY <1>2, <1>3
<1>5. /\ \A i \in DOMAIN reqCh' : \/ i \in DOMAIN reqCh /\ reqCh'[i] = reqCh[i]
                                  \/ i = Len(reqCh) + 1 /\ reqCh'[i] = r
      /\ \A i \in DOMAIN reqCh : i \in DOMAIN reqCh' /\ reqCh'[i] = reqCh[i]
                                 /\ i < Len(reqCh) + 1
      /\ Len(reqCh) + 1 \in DOMAIN reqCh' /\ reqCh'[Len(reqCh) + 1] = r
      /\ 0 < Len(reqCh) + 1
  BY <1>3, <1>4
<1>6. Joins(r, s) => SubConn[s] = c /\ JoinsOut(s) /\ subAt[s] = "out"
  BY <1>1, <1>4 DEF SubInOut, Joins, JoinsOut
<1>7. /\ LeavesOut(s) => LeavesOut(s)' \/ Leaves(r, s)
      /\ JoinsOut(s)' => JoinsOut(s)
  <2>1. SubConn[s] \in Conn
    BY PoolAssumption
  <2>2. CASE SubConn[s] /= c
    BY <1>3, <2>1, <2>2 DEF LeavesOut, JoinsOut
  <2>3. CASE SubConn[s] = c
    <3>1. ASSUME LeavesOut(s) PROVE LeavesOut(s)' \/ Leaves(r, s)
      <4>1. PICK i \in DOMAIN out[c] : Leaves(out[c][i], s)
        BY <2>3, <3>1 DEF LeavesOut
      <4>2. i = 1 \/ (i - 1 \in DOMAIN out'[c] /\ out'[c][i - 1] = out[c][i])
        BY <1>4
      <4> QED
        BY <1>4, <2>3, <4>1, <4>2 DEF LeavesOut
    <3>2. ASSUME JoinsOut(s)' PROVE JoinsOut(s)
      <4>1. PICK i \in DOMAIN out'[c] : Joins(out'[c][i], s)
        BY <2>3, <3>2 DEF JoinsOut
      <4>2. i + 1 \in DOMAIN out[c] /\ out'[c][i] = out[c][i + 1]
        BY <1>4
      <4> QED
        BY <2>3, <4>1, <4>2 DEF JoinsOut
    <3> QED
      BY <3>1, <3>2
  <2> QED
    BY <2>2, <2>3
<1>8. /\ Unknown(s)' <=> Unknown(s)
      /\ Registered(s)' <=> Registered(s)
  BY <1>3 DEF Unknown, Registered
<1>9. ASSUME NEW i, i = 0 \/ i \in DOMAIN reqCh, LeavesOut(s) \/ LeavesAfter(s, i)
       PROVE  LeavesOut(s)' \/ LeavesAfter(s, i)'
  <2>1. LeavesAfter(s, i) => LeavesAfter(s, i)'
    BY <1>5 DEF LeavesAfter
  <2>2. Leaves(r, s) => LeavesAfter(s, i)'
    BY <1>5, <1>9 DEF LeavesAfter
  <2> QED
    BY <1>7, <1>9, <2>1, <2>2
<1>10. ASSUME NEW i \in DOMAIN reqCh', Joins(reqCh'[i], s), Unknown(s)
       PROVE  LeavesOut(s)' \/ LeavesAfter(s, i)'
  <2>1. ~Joins(r, s)
    BY <1>6, <1>10 DEF SubLeaves
  <2>2. i \in DOMAIN reqCh /\ Joins(reqCh[i], s)
    BY <1>5, <1>10, <2>1
  <2> QED
    BY <1>9, <1>10, <2>2 DEF SubLeaves
<1>11. /\ Joins(r, s) => subAt'[s] = "request"
       /\ ~Joins(r, s) => subAt'[s] = subAt[s]
  BY <1>2 DEF SendRequest, Joins
<1>12. /\ phase[SubConn[s]] = "connected" /\ Unknown(s) /\ subAt'[s] /= "none" => s \in Leavers
       /\ subAt'[s] = "unacked" => SubAck[s] /= "auto"
       /\ phase[SubConn[s]] \in {"none", "connecting"} => subAt'[s] = "none"
       /\ JoinsOut(s)' => ~Unknown(s)
  BY <1>6, <1>7, <1>11 DEF SubLeaves
<1>13. Registered(s) /\ Unknown(s) => LeavesOut(s)' \/ LeavesAfter(s, 0)'
  BY <1>9 DEF SubLeaves
<1> QED
  BY <1>3, <1>8, <1>10, <1>12, <1>13 DEF SubLeaves

\* What a client sends.
LEMMA ClientInputLeaves ==
    ASSUME IInv, \A s \in Sub : SubLeaves(s), NEW c \in Conn, ClientInput(c)
    PROVE  \A s \in Sub : SubLeaves(s)'
<1>1. TypeOK
  BY DEF IInv
<1>2. [phase EXCEPT ![c] = phase[c]] = phase
  BY <1>1 DEF TypeOK
<1>3. CASE UNCHANGED <<reqCh, qsubs, tsubs, subs, out, phase, subAt>>
  BY <1>1, <1>2, <1>3, SilentLeaves DEF Passed
<1>4. CASE Reject(c)
  <2>1. /\ UNCHANGED <<reqCh, qsubs, tsubs, subs, out>> /\ UNCHANGED subAt
        /\ phase' = [phase EXCEPT ![c] = "discard1"]
    BY <1>4 DEF Reject, Exit, Elsewhere, Channels, procVars
  <2> QED
    BY <1>1, <2>1, SilentLeaves DEF Passed
<1>5. CASE Accept(c)
  <2>1. /\ UNCHANGED <<reqCh, qsubs, tsubs, subs, out>> /\ UNCHANGED subAt
        /\ phase' = [phase EXCEPT ![c] = "connecting"] /\ phase[c] = "none"
    BY <1>5 DEF Accept, Elsewhere, Channels, procVars, objVars
  <2> QED
    BY <1>1, <2>1, SilentLeaves DEF Passed
<1>6. CASE HandleConnect(c)
  <2>1. /\ UNCHANGED <<reqCh, qsubs, tsubs, subs>> /\ UNCHANGED subAt /\ out[c] = <<>>
        /\ phase' = [phase EXCEPT ![c] = "connected"] /\ phase[c] = "connecting"
        /\ out' = [out EXCEPT ![c] = <<ConnRequest("Connected", c)>>]
    BY <1>6 DEF HandleConnect, Ready, Elsewhere, Channels, procVars, objVars
  <2>2. NoJoin(c) /\ \A d \in Conn : d /= c => out'[d] = out[d]
    BY <1>1, <2>1 DEF NoJoin, ConnRequest, TypeOK
  <2>3. \A s \in Sub : Passed(s) /\ subAt'[s] = subAt[s]
    BY <2>1 DEF Passed
  <2> QED
    BY <1>1, <2>1, <2>2, <2>3, AnnounceLeaves
<1>7. ASSUME NEW m \in Msg, HandleSend(c, m) PROVE \A s \in Sub : SubLeaves(s)'
  <2>1. /\ UNCHANGED <<reqCh, qsubs, tsubs, subs>> /\ UNCHANGED subAt /\ out[c] = <<>>
        /\ UNCHANGED phase /\ phase[c] = "connected"
        /\ out' = [out EXCEPT ![c] = <<FrameRequest("Enqueue", m)>>]
    BY <1>7 DEF HandleSend, Selecting, Ready, Elsewhere, Channels, procVars
  <2>2. NoJoin(c) /\ \A d \in Conn : d /= c => out'[d] = out[d]
    BY <1>1, <2>1 DEF NoJoin, FrameRequest, TypeOK
  <2>3. \A s \in Sub : Passed(s) /\ subAt'[s] = subAt[s]
    BY <2>1 DEF Passed
  <2> QED
    BY <1>1, <1>2, <2>1, <2>2, <2>3, AnnounceLeaves
<1>8. ASSUME NEW x \in Sub, HandleSubscribe(c, x) PROVE \A s \in Sub : SubLeaves(s)'
  <2>1. /\ UNCHANGED <<reqCh, qsubs, tsubs, phase>> /\ out[c] = <<>> /\ phase[c] = "connected"
        /\ out' = [out EXCEPT ![c] = <<SubRequest("Subscribe", x)>>] /\ SubConn[x] = c
        /\ subAt' = [subAt EXCEPT ![x] = "out"] /\ subs' = [subs EXCEPT ![c] = @ \cup {x}]
    BY <1>8 DEF HandleSubscribe, Selecting, Ready, Elsewhere, Channels, procVars
  <2>2. /\ x \in subs'[c] /\ \A s \in subs[c] : s \in subs'[c]
        /\ \A d \in Conn : d /= c => out'[d] = out[d] /\ subs'[d] = subs[d]
        /\ \A i \in DOMAIN out'[c] : out'[c][i].op = "Subscribe" => out'[c][i].sub = x
    BY <1>1, <2>1 DEF SubRequest, TypeOK
  <2> QED
    BY <1>1, <2>1, <2>2, RejoinLeaves
<1>9. ASSUME NEW x \in Sub, HandleUnsubscribe(c, x) PROVE \A s \in Sub : SubLeaves(s)'
  <2>1. /\ UNCHANGED <<reqCh, qsubs, tsubs, phase, subAt>> /\ out[c] = <<>>
        /\ phase[c] = "connected" /\ SubConn[x] = c /\ x \in Leavers
        /\ out' = [out EXCEPT ![c] = <<SubRequest("Unsubscribe", x)>>]
        /\ subs' = [subs EXCEPT ![c] = @ \ {x}]
    BY <1>9 DEF HandleUnsubscribe, Selecting, Ready, Elsewhere, Channels, procVars, objVars
  <2> QED
    BY <1>1, <2>1, UnsubscribeLeaves
<1>10. CASE \/ HandleDisconnect(c)
            \/ \E m \in Msg, t \in Tx : HandleSendInTx(c, m, t)
            \/ \E t \in Tx : HandleBegin(c, t) \/ HandleAbort(c, t) \/ HandleCommit(c, t)
            \/ \E cmd \in {"ACK", "NACK"}, id \in AckIds : HandleAck(c, cmd, id)
            \/ \E cmd \in {"ACK", "NACK"}, id \in AckIds, t \in Tx :
                  HandleAckInTx(c, cmd, id, t)
  BY <1>3, <1>10 DEF HandleDisconnect, HandleSendInTx, HandleBegin, HandleAbort, HandleCommit,
     HandleAck, HandleAckInTx, Elsewhere, Channels, procVars, objVars
<1>11. CASE \/ RefuseConnect(c) \/ Broken(c) \/ \E s \in Sub : RefuseSubscribe(c, s)
            \/ \E t \in Tx : RefuseBegin(c, t) \/ RefuseTx(c, t)
  BY <1>4, <1>11 DEF RefuseConnect, Broken, RefuseSubscribe, RefuseBegin, RefuseTx
<1> QED
  BY <1>5, <1>6, <1>7, <1>8, <1>9, <1>10, <1>11 DEF ClientInput

\* A subscription of which the client acknowledges messages is not one that it ends.
LEMMA UnackedIsKnown ==
    ASSUME LeaversAreSimple, NEW x \in Sub, SubLeaves(x), subAt[x] = "unacked",
           phase[SubConn[x]] = "connected"
    PROVE  x \in subs[SubConn[x]]
BY DEF LeaversAreSimple, SubLeaves, Unknown

\* When WriteFrame finds the id of x it finds x.
LEMMA FoundIsKnown ==
    ASSUME LeaversAreSimple, RouteInv, TypeOK, NEW c \in Conn, NEW x \in Sub, SubConn[x] = c,
           SubLeaves(x), subAt[x] = "subCh", phase[c] = "connected",
           Lookup(c, SubIdOf[x]) /= {}
    PROVE  x \in subs[c]
<1> SUFFICES ASSUME x \notin subs[c] PROVE FALSE
  OBVIOUS
<1>1. x \in Leavers
  BY DEF SubLeaves, Unknown
<1>2. PICK r \in subs[c] : SubIdOf[r] = SubIdOf[x]
  BY DEF Lookup
<1>3. r \in Sub /\ SubConn[r] = c
  BY DEF RouteInv, TypeOK
<1> QED
  BY <1>1, <1>2, <1>3 DEF LeaversAreSimple

\* What a connection does by itself.
LEMMA ConnStepLeaves ==
    ASSUME LeaversAreSimple, IInv, RouteInv, LeaveInv, NEW c \in Conn, ConnStep(c)
    PROVE  \A s \in Sub : SubLeaves(s)'
<1>1. TypeOK /\ (\A s \in Sub : SubLeaves(s)) /\ ConnLeaves(c)
  BY DEF IInv, LeaveInv
<1>2. [phase EXCEPT ![c] = phase[c]] = phase
  BY <1>1 DEF TypeOK
<1>3. CASE UNCHANGED <<reqCh, qsubs, tsubs, subs, out, phase, subAt>>
  BY <1>1, <1>2, <1>3, SilentLeaves DEF Passed
<1>4. CASE SendRequest(c)
  BY <1>1, <1>4, SendRequestLeaves
<1>5. CASE \/ AckEnd(c) \/ WriteTopicFrame(c) \/ DiscardWriteChannelFrame(c)
           \/ \E i \in DOMAIN subList[c] : AckPanics(c, i)
  BY <1>3, <1>5 DEF AckEnd, WriteTopicFrame, ReceiveTopicFrame, DiscardWriteChannelFrame,
     AckPanics, Elsewhere, Channels, procVars, connVars, objVars
<1>6. CASE CommitSend(c)
  <2>1. PICK m : m = Head(work[c]).msg
    OBVIOUS
  <2>2. /\ UNCHANGED <<reqCh, qsubs, tsubs, subs>> /\ UNCHANGED subAt /\ out[c] = <<>>
        /\ UNCHANGED phase /\ out' = [out EXCEPT ![c] = <<FrameRequest("Enqueue", m)>>]
    BY <1>6, <2>1 DEF CommitSend, Elsewhere, Channels, procVars
  <2>3. NoJoin(c) /\ \A d \in Conn : d /= c => out'[d] = out[d]
    BY <1>1, <2>2 DEF NoJoin, FrameRequest, TypeOK
  <2>4. \A s \in Sub : Passed(s) /\ subAt'[s] = subAt[s]
    BY <2>2 DEF Passed
  <2> QED
    BY <1>1, <1>2, <2>2, <2>3, <2>4, AnnounceLeaves
<1>7. CASE CleanupGoodbye(c)
  <2>0. NextPhase["goodbye"] = "discard3"
    BY DEF NextPhase
  <2>1. /\ UNCHANGED <<reqCh, qsubs, tsubs, subs>> /\ UNCHANGED subAt /\ out[c] = <<>>
        /\ phase' = [phase EXCEPT ![c] = "discard3"]
        /\ out' = [out EXCEPT ![c] = <<ConnRequest("Disconnected", c)>>]
    BY <1>7, <2>0 DEF CleanupGoodbye, InCleanup, Ready, Elsewhere, Channels, procVars, objVars
  <2>2. NoJoin(c) /\ \A d \in Conn : d /= c => out'[d] = out[d]
    BY <1>1, <2>1 DEF NoJoin, ConnRequest, TypeOK
  <2>3. \A s \in Sub : Passed(s) /\ subAt'[s] = subAt[s]
    BY <2>1 DEF Passed
  <2> QED
    BY <1>1, <2>1, <2>2, <2>3, AnnounceLeaves
<1>8. CASE CleanupNext(c)
  <2>1. PICK p : p = NextPhase[phase[c]]
    OBVIOUS
  <2>2. /\ UNCHANGED <<reqCh, qsubs, tsubs, subs, out>> /\ UNCHANGED subAt
        /\ phase' = [phase EXCEPT ![c] = p] /\ p \notin {"none", "connecting", "connected"}
    BY <1>8, <2>1 DEF CleanupNext, InCleanup, NextPhase, Elsewhere, Channels, procVars,
       objVars
  <2> QED
    BY <1>1, <2>2, SilentLeaves DEF Passed
<1>9. CASE TopicWriteFails(c)
  <2>1. /\ UNCHANGED <<reqCh, qsubs, tsubs, subs, out>> /\ UNCHANGED subAt
        /\ phase' = [phase EXCEPT ![c] = "discard1"]
    BY <1>9 DEF TopicWriteFails, ReceiveTopicFrame, Exit, Elsewhere, procVars
  <2> QED
    BY <1>1, <2>1, SilentLeaves DEF Passed
<1>10. ASSUME NEW x \in Sub, CleanupUnsubscribe(c, x) PROVE \A s \in Sub : SubLeaves(s)'
  <2>1. /\ UNCHANGED <<reqCh, qsubs, tsubs, phase, subAt>> /\ out[c] = <<>>
        /\ phase[c] = "unsub" /\ x \in subs[c]
        /\ out' = [out EXCEPT ![c] = <<SubRequest("Unsubscribe", x)>>]
        /\ subs' = [subs EXCEPT ![c] = @ \ {x}]
    BY <1>10 DEF CleanupUnsubscribe, InCleanup, Ready, Elsewhere, Channels, procVars, objVars
  <2>2. SubConn[x] = c
    BY <2>1 DEF RouteInv
  <2> QED
    BY <1>1, <2>1, <2>2, UnsubscribeLeaves
<1>11. ASSUME NEW i \in DOMAIN subList[c],
              AckOne(c, i, subList[c][i]) \/ NackOne(c, i, subList[c][i])
       PROVE  \A s \in Sub : SubLeaves(s)'
  <2>1. PICK x \in Sub : x = subList[c][i] /\ subAt[x] = "unacked" /\ SubConn[x] = c
    BY InSubList
  <2>2. PICK r : r = Return(x)
    OBVIOUS
  <2>3. /\ UNCHANGED <<reqCh, qsubs, tsubs, phase>> /\ UNCHANGED subs
        /\ out[c] = <<>> /\ phase[c] = "connected"
        /\ \/ out' = [out EXCEPT ![c] = <<SubRequest("Subscribe", x)>>]
           \/ out' = [out EXCEPT ![c] = <<r, SubRequest("Subscribe", x)>>]
        /\ subAt' = [subAt EXCEPT ![x] = "out"]
    BY <1>1, <1>11, <2>1, <2>2 DEF AckOne, NackOne, MatchOne, Elsewhere, Channels, procVars,
       ConnLeaves
  <2>4. r.op = "Requeue"
    BY <2>2 DEF Return, FrameRequest
  <2>5. /\ \A d \in Conn : d /= c => out'[d] = out[d] /\ subs'[d] = subs[d]
        /\ \A k \in DOMAIN out'[c] : out'[c][k].op = "Subscribe" => out'[c][k].sub = x
    <3>1. \/ out'[c] = <<SubRequest("Subscribe", x)>>
          \/ out'[c] = <<r, SubRequest("Subscribe", x)>>
      BY <1>1, <2>3 DEF TypeOK
    <3>2. CASE out'[c] = <<SubRequest("Subscribe", x)>>
      BY <1>1, <2>3, <3>2 DEF SubRequest, TypeOK
    <3>3. CASE out'[c] = <<r, SubRequest("Subscribe", x)>>
      <4>1. DOMAIN out'[c] = {1, 2} /\ out'[c][1] = r /\ out'[c][2].sub = x
        BY <3>3 DEF SubRequest
      <4> QED
        BY <1>1, <2>3, <2>4, <4>1 DEF TypeOK
    <3> QED
      BY <3>1, <3>2, <3>3
  <2>6. x \in subs'[c] /\ \A s \in subs[c] : s \in subs'[c]
    BY <1>1, <2>1, <2>3, UnackedIsKnown
  <2> QED
    BY <1>1, <2>1, <2>3, <2>5, <2>6, RejoinLeaves
<1>12. ASSUME NEW x \in Sub, ReceiveSub(c, x)
       PROVE  /\ subAt[x] = "subCh" /\ SubConn[x] = c /\ out[c] = <<>> /\ phase[c] = "connected"
              /\ UNCHANGED <<reqCh, qsubs, tsubs, subs>>
  BY <1>12, FirstInSubCh DEF ReceiveSub, Selecting, Ready, procVars
<1>13. ASSUME NEW x \in Sub, DeliverAuto(c, x) PROVE \A s \in Sub : SubLeaves(s)'
  <2>1. /\ ReceiveSub(c, x) /\ UNCHANGED phase /\ Lookup(c, SubIdOf[x]) /= {}
        /\ out' = [out EXCEPT ![c] = <<SubRequest("Subscribe", x)>>]
        /\ subAt' = [subAt EXCEPT ![x] = "out"]
    BY <1>13 DEF DeliverAuto, WriteFrame
  <2>2. /\ subAt[x] = "subCh" /\ SubConn[x] = c /\ out[c] = <<>> /\ phase[c] = "connected"
        /\ UNCHANGED <<reqCh, qsubs, tsubs, subs>>
    BY <1>12, <2>1
  <2>3. x \in subs[c]
    BY <1>1, <2>1, <2>2, FoundIsKnown
  <2>4. /\ \A d \in Conn : d /= c => out'[d] = out[d] /\ subs'[d] = subs[d]
        /\ \A k \in DOMAIN out'[c] : out'[c][k].op = "Subscribe" => out'[c][k].sub = x
        /\ x \in subs'[c] /\ \A s \in subs[c] : s \in subs'[c]
    BY <1>1, <2>1, <2>2, <2>3 DEF SubRequest, TypeOK
  <2>5. UNCHANGED <<reqCh, qsubs, tsubs, phase>>
    BY <2>1, <2>2
  <2> QED
    BY <1>1, <2>1, <2>2, <2>4, <2>5, RejoinLeaves
<1>14. ASSUME NEW x \in Sub, DeliverUnacked(c, x) PROVE \A s \in Sub : SubLeaves(s)'
  <2>1. /\ ReceiveSub(c, x) /\ UNCHANGED phase /\ UNCHANGED out /\ SubAck[x] /= "auto"
        /\ subAt' = [subAt EXCEPT ![x] = "unacked"]
    BY <1>14 DEF DeliverUnacked, WriteFrame
  <2>2. \A s \in Sub : Passed(s) /\ (SubConn[s] /= c => subAt'[s] = subAt[s])
    BY <1>1, <1>12, <2>1 DEF Passed, TypeOK
  <2> QED
    BY <1>1, <1>2, <1>12, <2>1, <2>2, SilentLeaves
<1>15. ASSUME NEW x \in Sub, DeliverFails(c, x) PROVE \A s \in Sub : SubLeaves(s)'
  <2>1. /\ ReceiveSub(c, x) /\ phase' = [phase EXCEPT ![c] = "discard1"] /\ UNCHANGED out
        /\ subAt' = [subAt EXCEPT ![x] = "gone"]
    BY <1>15 DEF DeliverFails, WriteFrame, Exit
  <2>2. \A s \in Sub : Passed(s) /\ (SubConn[s] /= c => subAt'[s] = subAt[s])
    BY <1>1, <1>12, <2>1 DEF Passed, TypeOK
  <2> QED
    BY <1>1, <1>12, <2>1, <2>2, SilentLeaves
<1>16. ASSUME NEW x \in Sub, \/ ReturnQueueFrame(c, x) \/ CleanupRequeue(c, x)
                             \/ CleanupSubChannel(c, x)
       PROVE  \A s \in Sub : SubLeaves(s)'
  <2>1. subAt[x] \in {"subCh", "unacked"} /\ SubConn[x] = c
    <3>1. CASE ReturnQueueFrame(c, x) \/ CleanupSubChannel(c, x)
      BY <3>1, FirstInSubCh DEF ReturnQueueFrame, ReceiveSub, CleanupSubChannel
    <3>2. CASE CleanupRequeue(c, x)
      <4>1. 1 \in DOMAIN subList[c] /\ x = subList[c][1]
        BY <1>1, <3>2 DEF CleanupRequeue, TypeOK
      <4> QED
        BY <4>1, InSubList
    <3> QED
      BY <1>16, <3>1, <3>2
  <2>2. PICK r : r = Return(x)
    OBVIOUS
  <2>3. /\ UNCHANGED <<reqCh, qsubs, tsubs, subs>> /\ UNCHANGED phase /\ out[c] = <<>>
        /\ subAt' = [subAt EXCEPT ![x] = "gone"] /\ out' = [out EXCEPT ![c] = <<r>>]
    BY <1>16, <2>2 DEF ReturnQueueFrame, ReceiveSub, CleanupRequeue, CleanupSubChannel,
       Selecting, InCleanup, Ready, Elsewhere, Channels, procVars
  <2>4. r.op = "Requeue"
    BY <2>2 DEF Return, FrameRequest
  <2>5. NoJoin(c) /\ \A d \in Conn : d /= c => out'[d] = out[d]
    BY <1>1, <2>3, <2>4 DEF NoJoin, TypeOK
  <2>6. \A s \in Sub : Passed(s) /\ (SubConn[s] /= c => subAt'[s] = subAt[s])
    BY <1>1, <2>1, <2>3 DEF Passed, TypeOK
  <2> QED
    BY <1>1, <1>2, <2>3, <2>5, <2>6, AnnounceLeaves
<1> QED
  BY <1>4, <1>5, <1>6, <1>7, <1>8, <1>9, <1>10, <1>11, <1>13, <1>14, <1>15, <1>16
     DEF ConnStep, Execute, Cleanup, WriteQueueFrame

-----------------------------------------------------------------------------
(* Steps of a connection: its phases *)

\* A step of c leaves the phases, subs and work of the other connections alone.
LEMMA OthersLeave ==
    ASSUME \A d \in Conn : ConnLeaves(d), NEW c \in Conn, ConnLeaves(c)',
           \A d \in Conn : d /= c =>
              phase'[d] = phase[d] /\ subs'[d] = subs[d] /\ work'[d] = work[d]
    PROVE  \A d \in Conn : ConnLeaves(d)'
<1> SUFFICES ASSUME NEW d \in Conn, d /= c PROVE ConnLeaves(d)'
  OBVIOUS
<1> QED
  BY DEF ConnLeaves

\* What a connection has is unsubscribed before it is gone, and it executes no frames in
\* its cleanup.
LEMMA PhasesLeave ==
    ASSUME IInv, IInv', \A d \in Conn : ConnLeaves(d), NEW c \in Conn,
           ClientInput(c) \/ ConnStep(c)
    PROVE  \A d \in Conn : ConnLeaves(d)'
<1>1. TypeOK /\ ConnLeaves(c)
  BY DEF IInv
<1>2. ASSUME NEW p, phase' = [phase EXCEPT ![c] = p], UNCHANGED <<subs, work>>,
             p \in Unsubscribed => subs[c] = {}, work[c] /= <<>> => p = "connected"
      PROVE  \A d \in Conn : ConnLeaves(d)'
  <2>1. phase'[c] = p /\ \A d \in Conn : d /= c => phase'[d] = phase[d]
    BY <1>1, <1>2 DEF TypeOK
  <2>2. ConnLeaves(c)'
    BY <1>2, <2>1 DEF ConnLeaves
  <2> QED
    BY <1>2, <2>1, <2>2, OthersLeave
<1>3. CASE UNCHANGED <<phase, subs, work>>
  BY <1>1, <1>3, OthersLeave DEF ConnLeaves
<1>4. ASSUME NEW l, work' = [work EXCEPT ![c] = l], UNCHANGED <<phase, subs>>,
             phase[c] = "connected"
      PROVE  \A d \in Conn : ConnLeaves(d)'
  <2>1. \A d \in Conn : d /= c => work'[d] = work[d]
    BY <1>1, <1>4 DEF TypeOK
  <2>2. ConnLeaves(c)'
    BY <1>1, <1>4 DEF ConnLeaves
  <2> QED
    BY <1>4, <2>1, <2>2, OthersLeave
<1>5. ASSUME NEW S, subs' = [subs EXCEPT ![c] = S], UNCHANGED <<phase, work>>,
             phase[c] \in {"connected", "unsub"}
      PROVE  \A d \in Conn : ConnLeaves(d)'
  <2>1. \A d \in Conn : d /= c => subs'[d] = subs[d]
    BY <1>1, <1>5 DEF TypeOK
  <2>2. ConnLeaves(c)'
    BY <1>1, <1>5 DEF ConnLeaves, Unsubscribed
  <2> QED
    BY <1>5, <2>1, <2>2, OthersLeave
<1>6. CASE Reject(c) /\ Ready(c)
  BY <1>2, <1>6 DEF Reject, Exit, Ready, Unsubscribed
<1>7. CASE Accept(c) \/ HandleConnect(c)
  BY <1>1, <1>2, <1>7 DEF Accept, HandleConnect, Ready, ConnLeaves, Unsubscribed
<1>8. CASE \/ RefuseConnect(c) \/ Broken(c) \/ \E s \in Sub : RefuseSubscribe(c, s)
           \/ \E t \in Tx : RefuseBegin(c, t) \/ RefuseTx(c, t)
  BY <1>6, <1>8 DEF RefuseConnect, Broken, RefuseSubscribe, RefuseBegin, RefuseTx, Selecting
<1>9. CASE \E s \in Sub : HandleSubscribe(c, s) \/ HandleUnsubscribe(c, s)
                          \/ CleanupUnsubscribe(c, s)
  BY <1>5, <1>9 DEF HandleSubscribe, HandleUnsubscribe, CleanupUnsubscribe, Selecting, InCleanup
<1>10. CASE \/ HandleDisconnect(c) \/ \E m \in Msg : HandleSend(c, m)
            \/ \E m \in Msg, t \in Tx : HandleSendInTx(c, m, t)
            \/ \E t \in Tx : HandleBegin(c, t) \/ HandleAbort(c, t)
            \/ \E cmd \in {"ACK", "NACK"}, id \in AckIds, t \in Tx :
                  HandleAckInTx(c, cmd, id, t)
  BY <1>3, <1>10 DEF HandleDisconnect, HandleSend, HandleSendInTx, HandleBegin, HandleAbort,
     HandleAckInTx
<1>11. CASE \/ \E t \in Tx : HandleCommit(c, t)
            \/ \E cmd \in {"ACK", "NACK"}, id \in AckIds : HandleAck(c, cmd, id)
  BY <1>4, <1>11 DEF HandleCommit, HandleAck, Selecting
<1>12. CASE CommitSend(c) \/ AckEnd(c)
  BY <1>1, <1>4, <1>12 DEF CommitSend, AckEnd, ConnLeaves
<1>13. CASE \/ SendRequest(c) \/ WriteTopicFrame(c) \/ DiscardWriteChannelFrame(c)
            \/ \E i \in DOMAIN subList[c] : \/ AckOne(c, i, subList[c][i])
                                            \/ NackOne(c, i, subList[c][i])
                                            \/ AckPanics(c, i)
  BY <1>3, <1>13 DEF SendRequest, WriteTopicFrame, ReceiveTopicFrame, DiscardWriteChannelFrame,
     AckOne, NackOne, MatchOne, AckPanics, connVars
<1>14. CASE \E s \in Sub : \/ DeliverAuto(c, s) \/ DeliverUnacked(c, s)
                           \/ ReturnQueueFrame(c, s) \/ CleanupRequeue(c, s)
                           \/ CleanupSubChannel(c, s)
  BY <1>3, <1>14 DEF DeliverAuto, DeliverUnacked, ReturnQueueFrame, WriteFrame, ReceiveSub,
     CleanupRequeue, CleanupSubChannel
<1>15. CASE TopicWriteFails(c) \/ \E s \in Sub : DeliverFails(c, s)
  BY <1>2, <1>15 DEF TopicWriteFails, ReceiveTopicFrame, DeliverFails, WriteFrame, ReceiveSub,
     Exit, Selecting, Ready, Unsubscribed
<1>16. CASE CleanupGoodbye(c)
  BY <1>1, <1>2, <1>16 DEF CleanupGoodbye, InCleanup, Ready, NextPhase, ConnLeaves, Unsubscribed
<1>17. CASE CleanupNext(c)
  <2>1. PICK p : p = NextPhase[phase[c]]
    OBVIOUS
  <2>2. /\ phase' = [phase EXCEPT ![c] = p] /\ UNCHANGED <<subs, work>> /\ work[c] = <<>>
        /\ phase[c] \in {"discard1", "unsub", "requeue", "discard2", "drain1", "discard3", "drain2"}
        /\ phase[c] = "unsub" => subs[c] = {}
    BY <1>17, <2>1 DEF CleanupNext, InCleanup, Ready
  <2>3. p \in Unsubscribed => phase[c] = "unsub" \/ phase[c] \in Unsubscribed
    BY <2>1, <2>2 DEF NextPhase, Unsubscribed
  <2> QED
    BY <1>1, <1>2, <2>2, <2>3 DEF ConnLeaves
<1> QED
  BY <1>7, <1>8, <1>9, <1>10, <1>11, <1>12, <1>13, <1>14, <1>15, <1>16, <1>17
     DEF ClientInput, ConnStep, Execute, Cleanup, WriteQueueFrame

-----------------------------------------------------------------------------
(* The theorem *)

\* Every step of the server keeps LeaveInv.
LEMMA ServerLeaves ==
    ASSUME LeaversAreSimple, SInv, SInv', LeaveInv, [Next]_vars
    PROVE  LeaveInv'
<1>1. /\ IInv /\ IInv' /\ RouteInv /\ (\A s \in Sub : SubLeaves(s))
      /\ \A d \in Conn : ConnLeaves(d)
  BY DEF SInv, LeaveInv
<1>2. CASE Serve
  <2>1. UNCHANGED connVars
    BY <1>2 DEF Serve, QueueSubscribe, SubscribeServed, SubscribeWaits, QueueUnsubscribe,
       QueueEnqueue, QueueRequeue, Keep, GiveToReady, TopicSubscribe, TopicUnsubscribe,
       TopicEnqueue, UnsubscribeAbsent, MissingDestination, IgnoreRequest,
       SendOnSubChannel, SendOnWriteChannel
  <2>2. \A d \in Conn : ConnLeaves(d)'
    BY <1>1, <2>1 DEF ConnLeaves, connVars
  <2> QED
    BY <1>1, <1>2, <2>2, ServeLeaves DEF LeaveInv
<1>3. ASSUME NEW c \in Conn, ClientInput(c) \/ ConnStep(c) PROVE LeaveInv'
  BY <1>1, <1>3, ClientInputLeaves, ConnStepLeaves, PhasesLeave DEF LeaveInv
<1>4. CASE UNCHANGED vars
  <2>1. \A s \in Sub : SubLeaves(s)'
    BY <1>1, <1>4, SentLeaves DEF vars, procVars, connVars, objVars
  <2>2. \A d \in Conn : ConnLeaves(d)'
    BY <1>1, <1>4 DEF ConnLeaves, vars, connVars
  <2> QED
    BY <2>1, <2>2 DEF LeaveInv
<1> QED
  BY <1>2, <1>3, <1>4 DEF Next

\* In the beginning nothing is registered, subscribed or under way.
LEMMA NobodyAtFirst == Init => LeaveInv
<1> SUFFICES ASSUME Init PROVE LeaveInv
  OBVIOUS
<1>1. SubConn \in [Sub -> Conn]
  BY PoolAssumption
<1>2. \A s \in Sub : SubLeaves(s)
  BY <1>1 DEF Init, SubLeaves, Registered, JoinsOut, LeavesOut
<1>3. \A c \in Conn : ConnLeaves(c)
  BY DEF Init, ConnLeaves, Unsubscribed
<1> QED
  BY <1>2, <1>3 DEF LeaveInv

\* What is registered and has been left by its connection is about to leave.
LEMMA NobodyStays == SInv /\ LeaveInv => NoZombie
<1> SUFFICES ASSUME IInv, LeaveInv, NEW s \in Sub, phase[SubConn[s]] = "closed",
                    out[SubConn[s]] = <<>>, ~Pending(s)
             PROVE  ~Registered(s)
  BY DEF SInv, NoZombie, Registered
<1>1. SubConn[s] \in Conn
  BY PoolAssumption
<1>2. Unknown(s)
  BY <1>1 DEF LeaveInv, ConnLeaves, Unsubscribed, Unknown
<1>3. ~LeavesOut(s) /\ ~LeavesAfter(s, 0)
  BY DEF LeavesOut, LeavesAfter, Pending, Leaves
<1> QED
  BY <1>2, <1>3 DEF LeaveInv, SubLeaves

\* When a connection has closed and its requests have been processed, none of its
\* subscriptions is left in a queue or a topic, whatever the order in which UNSUBSCRIBE,
\* the cleanup, deliveries and their returns meet.
THEOREM NoSubscriptionOutlivesItsConnection ==
    ASSUME LeaversAreSimple
    PROVE  Spec => []NoZombie
<1>1. SInv /\ SInv' /\ LeaveInv /\ [Next]_vars => LeaveInv'
  BY ServerLeaves
<1> QED
  BY <1>1, NobodyAtFirst, NobodyStays, PresenceInvariance, PTL DEF Spec

=============================================================================
