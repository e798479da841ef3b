---------------------------- MODULE ServerLemmas ----------------------------
(***************************************************************************)
(* Lemmas for the proof that IInv is inductive: the types of the records   *)
(* the server builds, removal from a SubscriptionList, what happens to     *)
(* each part of the invariant when one object changes hands, and the types *)
(* of the variables after each action.                                     *)
(***************************************************************************)
EXTENDS ServerInv, TLAPS

-----------------------------------------------------------------------------
(* Records *)

\* The requests that connections build are of type Request and have the
\* fields of client/request.go.
LEMMA RequestFacts ==
    /\ \A s \in Sub : /\ SubRequest("Subscribe", s) \in Request
                      /\ SubRequest("Unsubscribe", s) \in Request
    /\ \A m \in Msg : /\ FrameRequest("Enqueue", m) \in Request
                      /\ FrameRequest("Requeue", m) \in Request
    /\ \A c \in Conn : /\ ConnRequest("Connected", c) \in Request
                       /\ ConnRequest("Disconnected", c) \in Request
BY DEF SubRequest, FrameRequest, ConnRequest, Request, RequestOps

\* The frames that handleSend, handleAck and handleNack store are of type
\* TxFrame, and what the processor has to send is of type Delivery.
LEMMA FrameFacts ==
    /\ \A m \in Msg : SendFrame(m) \in TxFrame
    /\ \A cmd \in {"ACK", "NACK"}, n \in Nat : AckFrame(cmd, n) \in TxFrame
    /\ \A s \in Sub, m \in Msg : [sub |-> s, frame |-> m] \in Delivery
BY DEF SendFrame, AckFrame, TxFrame, Delivery

\* Every holder that the history of a frame names is of type Holder.
LEMMA HolderFacts ==
    /\ At("settled") \in Holder /\ At("discarded") \in Holder
    /\ At("topic") \in Holder /\ At("store") \in Holder
    /\ At("request") \in Holder /\ At("client") \in Holder
    /\ \A c \in Conn : HeldBy("out", c) \in Holder /\ HeldBy("work", c) \in Holder
    /\ \A t \in Tx : HeldBy("tx", t) \in Holder
    /\ \A s \in Sub : HeldBy("sub", s) \in Holder
BY DEF At, HeldBy, Holder, Holders

\* The two ways to name a holder.
LEMMA HolderBy ==
    \A by, who : At(by).by = by /\ HeldBy(by, who).by = by /\ HeldBy(by, who).who = who
BY DEF At, HeldBy

\* Whatever the requests, the deliveries and the objects refer to exists.
LEMMA FieldFacts ==
    ASSUME TypeOK
    PROVE  /\ \A i \in DOMAIN reqCh : reqCh[i].frame /= nil => reqCh[i].frame \in Msg
           /\ \A c \in Conn : \A i \in DOMAIN out[c] :
                out[c][i].frame /= nil => out[c][i].frame \in Msg
           /\ \A i \in DOMAIN procOut : procOut[i].sub \in Sub /\ procOut[i].frame \in Msg
           /\ \A q \in Queue : \A i \in DOMAIN store[q] : store[q][i] \in Msg
<1>1. \A r \in Request : r.frame /= nil => r.frame \in Msg
  BY DEF Request
<1>2. \A d \in Delivery : d.sub \in Sub /\ d.frame \in Msg
  BY DEF Delivery
<1>3. /\ reqCh \in Seq(Request) /\ out \in [Conn -> Seq(Request)]
      /\ procOut \in Seq(Delivery) /\ store \in [Queue -> Seq(Msg)]
  BY DEF TypeOK
<1> QED
  BY <1>1, <1>2, <1>3

-----------------------------------------------------------------------------
(* SubscriptionList.Remove, Ack and Nack *)

\* Removing element i keeps the order of the others (subscription_list.go).
LEMMA RemoveAtFacts ==
    ASSUME NEW S, NEW seq \in Seq(S), NEW i \in DOMAIN seq
    PROVE  /\ RemoveAt(seq, i) \in Seq(S)
           /\ Len(RemoveAt(seq, i)) = Len(seq) - 1
           /\ \A k \in 1..(Len(seq) - 1) :
                RemoveAt(seq, i)[k] = IF k < i THEN seq[k] ELSE seq[k + 1]
<1> DEFINE a == SubSeq(seq, 1, i - 1)
           b == SubSeq(seq, i + 1, Len(seq))
<1>1. i \in 1..Len(seq)
  OBVIOUS
<1>2. a \in Seq(S) /\ Len(a) = i - 1 /\ \A k \in 1..(i - 1) : a[k] = seq[k]
  BY <1>1
<1>3. b \in Seq(S) /\ Len(b) = Len(seq) - i
      /\ \A k \in 1..(Len(seq) - i) : b[k] = seq[i + k]
  BY <1>1
<1> HIDE DEF a, b
<1>4. a \o b \in Seq(S) /\ Len(a \o b) = Len(seq) - 1
  BY <1>1, <1>2, <1>3
<1>5. ASSUME NEW k \in 1..(Len(seq) - 1)
      PROVE  (a \o b)[k] = IF k < i THEN seq[k] ELSE seq[k + 1]
  <2>1. CASE k < i
    BY <1>1, <1>2, <1>3, <2>1
  <2>2. CASE k >= i
    <3>1. k - (i - 1) \in 1..(Len(seq) - i)
      BY <1>1, <2>2
    <3>2. (a \o b)[k] = b[k - (i - 1)]
      BY <1>1, <1>2, <1>3, <2>2, SMTT(30)
    <3>3. b[k - (i - 1)] = seq[i + (k - (i - 1))]
      BY <1>3, <3>1
    <3>4. i + (k - (i - 1)) = k + 1
      BY <1>1
    <3> QED
      BY <1>1, <2>2, <3>2, <3>3, <3>4
  <2>3. k < i \/ k >= i
    BY <1>1
  <2> QED
    BY <2>1, <2>2, <2>3
<1>6. RemoveAt(seq, i) = a \o b
  BY DEF RemoveAt, a, b
<1> QED
  BY <1>4, <1>5, <1>6

\* What is left after a removal was there before; elements stay distinct and
\* the removed one is gone.
LEMMA RemoveDistinct ==
    ASSUME NEW S, NEW seq \in Seq(S), NEW i \in DOMAIN seq, Distinct(seq)
    PROVE  /\ Distinct(RemoveAt(seq, i))
           /\ \A k \in DOMAIN RemoveAt(seq, i) :
                /\ RemoveAt(seq, i)[k] /= seq[i]
                /\ \E j \in DOMAIN seq : RemoveAt(seq, i)[k] = seq[j]
<1> DEFINE r == RemoveAt(seq, i)
           from(k) == IF k < i THEN k ELSE k + 1
<1>1. r \in Seq(S) /\ Len(r) = Len(seq) - 1
      /\ \A k \in 1..(Len(seq) - 1) : r[k] = IF k < i THEN seq[k] ELSE seq[k + 1]
  BY RemoveAtFacts
<1> HIDE DEF r
<1>2. \A k \in DOMAIN r : from(k) \in DOMAIN seq /\ r[k] = seq[from(k)] /\ from(k) /= i
  BY <1>1
<1>3. \A k, l \in DOMAIN r : from(k) = from(l) => k = l
  BY <1>1
<1> HIDE DEF from
<1>4. Distinct(r) /\ \A k \in DOMAIN r : r[k] /= seq[i] /\ \E j \in DOMAIN seq : r[k] = seq[j]
  BY <1>2, <1>3 DEF Distinct
<1> QED
  BY <1>4 DEF r

-----------------------------------------------------------------------------
(* Families of lists *)

\* A family of lists that is not changed stays in order when what is in it
\* stays where it is.
LEMMA ListsKept ==
    ASSUME NEW S, NEW K, NEW F \in [K -> Seq(S)], NEW at, NEW at2, NEW p, NEW of,
           Lists(F, K, at, p, of), \A x \in S : at[x] = p => at2[x] = p
    PROVE  Lists(F, K, at2, p, of)
<1>1. \A k \in K : \A i \in DOMAIN F[k] : F[k][i] \in S
  OBVIOUS
<1> QED
  BY <1>1 DEF Lists

\* Adding v at the end of list k.
LEMMA ListsAppend ==
    ASSUME NEW S, NEW K, NEW F \in [K -> Seq(S)], NEW at, NEW at2, NEW p, NEW of,
           Lists(F, K, at, p, of), NEW k \in K, NEW v \in S,
           at[v] /= p, at2[v] = p, of[v] = k,
           \A x \in S \ {v} : at[x] = p => at2[x] = p
    PROVE  Lists([F EXCEPT ![k] = Append(@, v)], K, at2, p, of)
<1> DEFINE G == [F EXCEPT ![k] = Append(@, v)]
<1>1. \A l \in K : \A i \in DOMAIN F[l] : F[l][i] \in S
  OBVIOUS
<1>2. \A l \in K \ {k} : G[l] = F[l]
  OBVIOUS
<1>3. G[k] = Append(F[k], v) /\ F[k] \in Seq(S)
  OBVIOUS
<1> HIDE DEF G
<1>4. \A i \in DOMAIN G[k] : \/ i \in DOMAIN F[k] /\ G[k][i] = F[k][i]
                             \/ i = Len(F[k]) + 1 /\ G[k][i] = v
  BY <1>3
<1>5. \A l \in K : \A i \in DOMAIN F[l] : F[l][i] /= v
  BY DEF Lists
<1>6. ASSUME NEW l \in K
      PROVE  /\ \A j \in DOMAIN G[l] : at2[G[l][j]] = p /\ of[G[l][j]] = l
             /\ Distinct(G[l])
  <2>1. CASE l = k
    BY <1>1, <1>4, <1>5, <2>1, SMTT(30) DEF Lists, Distinct
  <2>2. CASE l /= k
    BY <1>1, <1>2, <1>5, <2>2 DEF Lists
  <2> QED
    BY <2>1, <2>2
<1> QED
  BY <1>6 DEF G, Lists

\* Adding v at the front of list k.
LEMMA ListsPrepend ==
    ASSUME NEW S, NEW K, NEW F \in [K -> Seq(S)], NEW at, NEW at2, NEW p, NEW of,
           Lists(F, K, at, p, of), NEW k \in K, NEW v \in S,
           at[v] /= p, at2[v] = p, of[v] = k,
           \A x \in S \ {v} : at[x] = p => at2[x] = p
    PROVE  Lists([F EXCEPT ![k] = <<v>> \o @], K, at2, p, of)
<1> DEFINE G == [F EXCEPT ![k] = <<v>> \o @]
<1>1. \A l \in K : \A i \in DOMAIN F[l] : F[l][i] \in S
  OBVIOUS
<1>2. \A l \in K \ {k} : G[l] = F[l]
  OBVIOUS
<1>3. G[k] = <<v>> \o F[k] /\ F[k] \in Seq(S)
  OBVIOUS
<1> HIDE DEF G
<1>4. /\ \A i \in DOMAIN G[k] : /\ i \in Int
                                /\ \/ i - 1 \in DOMAIN F[k] /\ G[k][i] = F[k][i - 1]
                                   \/ i = 1 /\ G[k][i] = v
      /\ \A i, j \in Int : i - 1 = j - 1 => i = j
  BY <1>3
<1>5. \A l \in K : \A i \in DOMAIN F[l] : F[l][i] /= v
  BY DEF Lists
<1>6. ASSUME NEW l \in K
      PROVE  /\ \A j \in DOMAIN G[l] : at2[G[l][j]] = p /\ of[G[l][j]] = l
             /\ Distinct(G[l])
  <2>1. CASE l = k
    <3>1. \A j \in DOMAIN G[k] : at2[G[k][j]] = p /\ of[G[k][j]] = k
      BY <1>1, <1>4, <1>5 DEF Lists
    <3>2. ASSUME NEW i \in DOMAIN G[k], NEW j \in DOMAIN G[k], G[k][i] = G[k][j]
          PROVE  i = j
      <4>1. CASE i = 1 /\ G[k][i] = v
        BY <1>4, <1>5, <3>2, <4>1
      <4>2. CASE i - 1 \in DOMAIN F[k] /\ G[k][i] = F[k][i - 1]
        <5>1. Distinct(F[k])
          BY DEF Lists
        <5>2. G[k][j] /= v
          BY <1>5, <3>2, <4>2
        <5>3. j - 1 \in DOMAIN F[k] /\ G[k][j] = F[k][j - 1]
          BY <1>4, <5>2
        <5>4. i - 1 = j - 1
          BY <3>2, <4>2, <5>1, <5>3 DEF Distinct
        <5> QED
          BY <1>4, <5>4
      <4> QED
        BY <1>4, <4>1, <4>2
    <3> QED
      BY <2>1, <3>1, <3>2 DEF Distinct
  <2>2. CASE l /= k
    BY <1>1, <1>2, <1>5, <2>2 DEF Lists
  <2> QED
    BY <2>1, <2>2
<1> QED
  BY <1>6 DEF G, Lists

\* Taking the first element of list k.
LEMMA ListsTail ==
    ASSUME NEW S, NEW K, NEW F \in [K -> Seq(S)], NEW at, NEW at2, NEW p, NEW of,
           Lists(F, K, at, p, of), NEW k \in K, F[k] /= <<>>,
           \A x \in S : x /= Head(F[k]) /\ at[x] = p => at2[x] = p
    PROVE  Lists([F EXCEPT ![k] = Tail(@)], K, at2, p, of)
<1> DEFINE G == [F EXCEPT ![k] = Tail(@)]
<1>1. \A l \in K : \A i \in DOMAIN F[l] : F[l][i] \in S
  OBVIOUS
<1>2. \A l \in K \ {k} : G[l] = F[l]
  OBVIOUS
<1>3. G[k] = Tail(F[k]) /\ F[k] \in Seq(S)
  OBVIOUS
<1> HIDE DEF G
<1>4. /\ \A i \in DOMAIN G[k] : /\ i + 1 \in DOMAIN F[k] /\ G[k][i] = F[k][i + 1]
                                /\ i \in Int /\ i + 1 /= 1
      /\ 1 \in DOMAIN F[k] /\ Head(F[k]) = F[k][1]
      /\ \A i, j \in Int : i + 1 = j + 1 => i = j
  BY <1>3
<1>5. \A l \in K \ {k} : \A i \in DOMAIN F[l] : F[l][i] /= F[k][1]
  BY <1>4 DEF Lists
<1>6. ASSUME NEW l \in K
      PROVE  /\ \A j \in DOMAIN G[l] : at2[G[l][j]] = p /\ of[G[l][j]] = l
             /\ Distinct(G[l])
  <2>1. CASE l = k
    BY <1>1, <1>4, <2>1 DEF Lists, Distinct
  <2>2. CASE l /= k
    BY <1>1, <1>2, <1>4, <1>5, <2>2 DEF Lists
  <2> QED
    BY <2>1, <2>2
<1> QED
  BY <1>6 DEF G, Lists

\* Element i of list k.
LEMMA ListsElement ==
    ASSUME NEW S, NEW K, NEW F \in [K -> Seq(S)], NEW at, NEW p, NEW of,
           Lists(F, K, at, p, of), NEW k \in K, NEW i \in DOMAIN F[k]
    PROVE  F[k][i] \in S /\ at[F[k][i]] = p /\ of[F[k][i]] = k
<1>1. F[k][i] \in S
  OBVIOUS
<1> QED
  BY <1>1 DEF Lists

\* The first element of list k.
LEMMA ListsHead ==
    ASSUME NEW S, NEW K, NEW F \in [K -> Seq(S)], NEW at, NEW p, NEW of,
           Lists(F, K, at, p, of), NEW k \in K, F[k] /= <<>>
    PROVE  Head(F[k]) \in S /\ at[Head(F[k])] = p /\ of[Head(F[k])] = k
<1>1. 1 \in DOMAIN F[k] /\ Head(F[k]) = F[k][1] /\ F[k][1] \in S
  OBVIOUS
<1> QED
  BY <1>1 DEF Lists

\* Removing element i of list k.
LEMMA ListsRemove ==
    ASSUME NEW S, NEW K, NEW F \in [K -> Seq(S)], NEW at, NEW at2, NEW p, NEW of,
           Lists(F, K, at, p, of), NEW k \in K, NEW i \in DOMAIN F[k],
           \A x \in S : x /= F[k][i] /\ at[x] = p => at2[x] = p
    PROVE  Lists([F EXCEPT ![k] = RemoveAt(@, i)], K, at2, p, of)
<1> DEFINE G == [F EXCEPT ![k] = RemoveAt(@, i)]
<1>1. /\ \A l \in K \ {k} : G[l] = F[l]
      /\ G[k] = RemoveAt(F[k], i)
      /\ \A l \in K : F[l] \in Seq(S)
  OBVIOUS
<1> HIDE DEF G
<1>2. Distinct(F[k])
  BY DEF Lists
<1>3. /\ Distinct(G[k])
      /\ \A j \in DOMAIN G[k] : /\ G[k][j] /= F[k][i]
                                /\ \E l \in DOMAIN F[k] : G[k][j] = F[k][l]
  BY <1>1, <1>2, RemoveDistinct
<1>4. \A l \in K : \A j \in DOMAIN F[l] : F[l][j] \in S
  BY <1>1
<1>5. F[k][i] \in S /\ at[F[k][i]] = p /\ of[F[k][i]] = k
  BY <1>4 DEF Lists
<1>6. \A l \in K \ {k} : \A j \in DOMAIN F[l] : F[l][j] /= F[k][i]
  BY <1>5 DEF Lists
<1>7. ASSUME NEW l \in K
      PROVE  /\ \A j \in DOMAIN G[l] : at2[G[l][j]] = p /\ of[G[l][j]] = l
             /\ Distinct(G[l])
  <2>1. CASE l = k
    BY <1>3, <1>4, <2>1 DEF Lists
  <2>2. CASE l /= k
    BY <1>1, <1>4, <1>6, <2>2, SMTT(30) DEF Lists
  <2> QED
    BY <2>1, <2>2
<1> QED
  BY <1>7 DEF G, Lists

-----------------------------------------------------------------------------
(* Containers of Subscription objects that a step leaves alone *)

\* A list, channel or request queue that a step does not change keeps its part
\* of SubInv when the objects in it stay where their history says they are.
LEMMA RequestSubsKept ==
    ASSUME TypeOK, RequestInv, SubInRequest, UNCHANGED reqCh,
           \A s \in Sub : subAt[s] = "request" => subAt'[s] = "request"
    PROVE  SubInRequest'
BY DEF RequestInv, WellFormed, SubInRequest

\* The same for the requests that the handlers still have to send.
LEMMA OutSubsKept ==
    ASSUME TypeOK, RequestInv, SubInOut, UNCHANGED out,
           \A s \in Sub : subAt[s] = "out" => subAt'[s] = "out"
    PROVE  SubInOut'
BY DEF RequestInv, WellFormed, SubInOut

\* The same for Queue.subs.
LEMMA ReadyKept ==
    ASSUME TypeOK, SubInReady, UNCHANGED qsubs,
           \A s \in Sub : subAt[s] = "ready" => subAt'[s] = "ready"
    PROVE  SubInReady'
BY ListsKept DEF TypeOK, SubInReady

\* The same for Topic.subs.
LEMMA TopicKept ==
    ASSUME TypeOK, SubInTopic, UNCHANGED tsubs,
           \A s \in Sub : subAt[s] = "topic" => subAt'[s] = "topic"
    PROVE  SubInTopic'
<1>1. tsubs \in [Topic -> Seq(Sub)]
  BY DEF TypeOK
<1> QED
  BY <1>1, ListsKept DEF SubInTopic

\* The same for what the processor still has to put on a channel.
LEMMA ProcKept ==
    ASSUME TypeOK, SubInProc, UNCHANGED procOut,
           \A s \in Sub : subAt[s] = "sending" => subAt'[s] = "sending"
    PROVE  SubInProc'
BY FieldFacts DEF SubInProc

\* The same for subChannel.
LEMMA SubChKept ==
    ASSUME TypeOK, SubInSubCh, UNCHANGED subCh,
           \A s \in Sub : subAt[s] = "subCh" => subAt'[s] = "subCh"
    PROVE  SubInSubCh'
BY ListsKept DEF TypeOK, SubInSubCh

\* The same for Conn.subList.
LEMMA SubListKept ==
    ASSUME TypeOK, SubInSubList, UNCHANGED subList,
           \A s \in Sub : subAt[s] = "unacked" => subAt'[s] = "unacked"
    PROVE  SubInSubList'
BY ListsKept DEF TypeOK, SubInSubList

\* The frames allocated to Subscription objects stay allocated.
LEMMA FrameKept ==
    ASSUME TypeOK, FrameInv, UNCHANGED <<frame, subAt>>,
           \A m \in Msg : msgAt[m].by = "sub" => msgAt'[m] = msgAt[m]
    PROVE  FrameInv'
BY HolderBy DEF FrameInv, FrameOf

\* An object that changes hands leaves all containers but its own intact.
LEMMA OtherSubs ==
    ASSUME TypeOK, RequestInv, SubInv, NEW s \in Sub, NEW p,
           subAt' = [subAt EXCEPT ![s] = p]
    PROVE  /\ subAt[s] /= "request" /\ UNCHANGED reqCh => SubInRequest'
           /\ subAt[s] /= "out" /\ UNCHANGED out => SubInOut'
           /\ subAt[s] /= "ready" /\ UNCHANGED qsubs => SubInReady'
           /\ subAt[s] /= "topic" /\ UNCHANGED tsubs => SubInTopic'
           /\ subAt[s] /= "sending" /\ UNCHANGED procOut => SubInProc'
           /\ subAt[s] /= "subCh" /\ UNCHANGED subCh => SubInSubCh'
           /\ subAt[s] /= "unacked" /\ UNCHANGED subList => SubInSubList'
<1>1. \A x \in Sub : x /= s => subAt'[x] = subAt[x]
  BY DEF TypeOK
<1> QED
  BY <1>1, RequestSubsKept, OutSubsKept, ReadyKept, TopicKept, ProcKept,
     SubChKept, SubListKept DEF SubInv

\* When no object changes hands, unchanged containers keep their parts.
LEMMA SubsStay ==
    ASSUME TypeOK, RequestInv, SubInv, UNCHANGED subAt
    PROVE  /\ UNCHANGED reqCh => SubInRequest'
           /\ UNCHANGED out => SubInOut'
           /\ UNCHANGED qsubs => SubInReady'
           /\ UNCHANGED tsubs => SubInTopic'
           /\ UNCHANGED procOut => SubInProc'
           /\ UNCHANGED subCh => SubInSubCh'
           /\ UNCHANGED subList => SubInSubList'
BY RequestSubsKept, OutSubsKept, ReadyKept, TopicKept, ProcKept, SubChKept,
   SubListKept DEF SubInv

-----------------------------------------------------------------------------
(* Containers of frames that a step leaves alone *)

\* A container of frames that a step does not change keeps its part of MsgInv
\* when the frames in it stay where their history says they are: here txStore.
LEMMA TxKept ==
    ASSUME TypeOK, MsgInTx, UNCHANGED tx,
           \A m \in Msg : msgAt[m].by = "tx" => msgAt'[m] = msgAt[m]
    PROVE  MsgInTx'
BY HolderBy DEF MsgInTx

\* The same for the frames of a commit.
LEMMA WorkKept ==
    ASSUME TypeOK, MsgInWork, UNCHANGED work,
           \A m \in Msg : msgAt[m].by = "work" => msgAt'[m] = msgAt[m]
    PROVE  MsgInWork'
BY HolderBy DEF MsgInWork

\* The same for the requests that the handlers still have to send.
LEMMA OutMsgsKept ==
    ASSUME TypeOK, RequestInv, MsgInOut, UNCHANGED out,
           \A m \in Msg : msgAt[m].by = "out" => msgAt'[m] = msgAt[m]
    PROVE  MsgInOut'
BY FieldFacts, HolderBy DEF MsgInOut

\* The same for requestChannel.
LEMMA RequestMsgsKept ==
    ASSUME TypeOK, RequestInv, MsgInRequest, UNCHANGED reqCh,
           \A m \in Msg : msgAt[m].by = "request" => msgAt'[m] = msgAt[m]
    PROVE  MsgInRequest'
BY FieldFacts, HolderBy DEF MsgInRequest

\* The same for MemoryQueueStorage.
LEMMA StoreKept ==
    ASSUME TypeOK, MsgInStore, UNCHANGED store,
           \A m \in Msg : msgAt[m].by = "store" => msgAt'[m] = msgAt[m]
    PROVE  MsgInStore'
<1>1. store \in [Queue -> Seq(Msg)]
  BY DEF TypeOK
<1>2. \A m \in Msg : msgAt[m] = At("store") => msgAt'[m] = At("store")
  BY HolderBy
<1> QED
  BY <1>1, <1>2, ListsKept DEF MsgInStore

\* A frame that changes hands leaves all containers but its own intact.
LEMMA OtherMsgs ==
    ASSUME TypeOK, RequestInv, MsgInv, NEW m \in Msg, NEW h,
           msgAt' = [msgAt EXCEPT ![m] = h]
    PROVE  /\ msgAt[m].by /= "tx" /\ UNCHANGED tx => MsgInTx'
           /\ msgAt[m].by /= "work" /\ UNCHANGED work => MsgInWork'
           /\ msgAt[m].by /= "out" /\ UNCHANGED out => MsgInOut'
           /\ msgAt[m].by /= "request" /\ UNCHANGED reqCh => MsgInRequest'
           /\ msgAt[m].by /= "store" /\ UNCHANGED store => MsgInStore'
<1>1. \A x \in Msg : x /= m => msgAt'[x] = msgAt[x]
  BY DEF TypeOK
<1> QED
  BY <1>1, TxKept, WorkKept, OutMsgsKept, RequestMsgsKept, StoreKept DEF MsgInv

\* When no frame changes hands, unchanged containers keep their parts.
LEMMA MsgsStay ==
    ASSUME TypeOK, RequestInv, MsgInv, UNCHANGED msgAt
    PROVE  /\ UNCHANGED tx => MsgInTx'
           /\ UNCHANGED work => MsgInWork'
           /\ UNCHANGED out => MsgInOut'
           /\ UNCHANGED reqCh => MsgInRequest'
           /\ UNCHANGED store => MsgInStore'
BY TxKept, WorkKept, OutMsgsKept, RequestMsgsKept, StoreKept DEF MsgInv

-----------------------------------------------------------------------------
(* Steps *)

\* The request that the processor takes is one it can execute, and its object
\* or frame was on its way to the processor.
LEMMA HeadFacts ==
    ASSUME TypeOK, RequestInv, SubInRequest, MsgInRequest, NEW r, Take(r)
    PROVE  /\ r \in Request /\ WellFormed(r)
           /\ r.op = "Subscribe" => subAt[r.sub] = "request"
           /\ r.frame /= nil => msgAt[r.frame] = At("request")
BY DEF TypeOK, Take, RequestInv, SubInRequest, MsgInRequest

\* Taking the first request leaves the others as they should be.
LEMMA Taken ==
    ASSUME TypeOK, RequestInv, SubInRequest, MsgInRequest, NEW r, Take(r),
           UNCHANGED out,
           \A s \in Sub : subAt[s] = "request" /\ ~(r.op = "Subscribe" /\ r.sub = s)
                             => subAt'[s] = "request",
           \A m \in Msg : msgAt[m].by = "request" /\ r.frame /= m
                             => msgAt'[m] = msgAt[m]
    PROVE  RequestInv' /\ SubInRequest' /\ MsgInRequest'
<1>1. /\ reqCh \in Seq(Request) /\ reqCh /= <<>>
      /\ r = reqCh[1] /\ reqCh' = Tail(reqCh)
  BY DEF TypeOK, Take
<1>2. DOMAIN reqCh' = 1..(Len(reqCh) - 1) /\ 1 \in DOMAIN reqCh
  BY <1>1
<1>3. \A i \in DOMAIN reqCh' : i + 1 \in DOMAIN reqCh /\ reqCh'[i] = reqCh[i + 1]
                               /\ i + 1 /= 1
  BY <1>1
<1>4. \A i, j \in DOMAIN reqCh' : i + 1 = j + 1 => i = j
  BY <1>2
<1>5. RequestInv'
  BY <1>3 DEF RequestInv, WellFormed
<1>6. SubInRequest'
  <2>1. ASSUME NEW i \in DOMAIN reqCh', reqCh'[i].op = "Subscribe"
        PROVE  subAt'[reqCh'[i].sub] = "request"
    <3>1. reqCh[i + 1].sub \in Sub /\ subAt[reqCh[i + 1].sub] = "request"
      BY <1>3, <2>1 DEF RequestInv, WellFormed, SubInRequest
    <3>2. ~(r.op = "Subscribe" /\ r.sub = reqCh[i + 1].sub)
      BY <1>1, <1>2, <1>3, <2>1 DEF SubInRequest
    <3> QED
      BY <1>3, <3>1, <3>2
  <2> QED
    BY <1>3, <1>4, <2>1 DEF SubInRequest
<1>7. MsgInRequest'
  <2>1. ASSUME NEW i \in DOMAIN reqCh', reqCh'[i].frame /= nil
        PROVE  msgAt'[reqCh'[i].frame] = At("request")
    BY <1>1, <1>2, <1>3, <2>1, FieldFacts, HolderBy DEF MsgInRequest
  <2> QED
    BY <1>3, <1>4, <2>1 DEF MsgInRequest
<1> QED
  BY <1>5, <1>6, <1>7

\* Sending the next request of a handler: it moves from out to requestChannel.
LEMMA Posted ==
    ASSUME TypeOK, RequestInv, SubInv, MsgInv, NEW c \in Conn, SendRequest(c)
    PROVE  /\ RequestInv' /\ SubInRequest' /\ SubInOut'
           /\ MsgInRequest' /\ MsgInOut'
<1> DEFINE r == Head(out[c])
           o == out[c]
<1>1. /\ reqCh \in Seq(Request) /\ o \in Seq(Request) /\ o /= <<>>
      /\ out \in [Conn -> Seq(Request)] /\ r \in Request /\ r = o[1]
  BY DEF TypeOK, SendRequest
<1>2. /\ reqCh' = Append(reqCh, r) /\ out' = [out EXCEPT ![c] = Tail(@)]
      /\ subAt' = [s \in Sub |-> IF r.op = "Subscribe" /\ r.sub = s
                                 THEN "request" ELSE subAt[s]]
      /\ msgAt' = [m \in Msg |-> IF r.frame = m THEN At("request") ELSE msgAt[m]]
  BY DEF SendRequest
<1>3. /\ WellFormed(r)
      /\ r.op = "Subscribe" => subAt[r.sub] = "out" /\ SubConn[r.sub] = c
      /\ r.frame /= nil => r.frame \in Msg /\ msgAt[r.frame] = HeldBy("out", c)
  BY <1>1, FieldFacts DEF RequestInv, SubInv, SubInOut, MsgInv, MsgInOut
<1> HIDE DEF r
<1>4. \A i \in DOMAIN reqCh' : \/ i \in DOMAIN reqCh /\ reqCh'[i] = reqCh[i]
                               \/ i = Len(reqCh) + 1 /\ reqCh'[i] = r
  BY <1>1, <1>2
<1>5. /\ \A d \in Conn \ {c} : out'[d] = out[d]
      /\ \A i \in DOMAIN out'[c] : /\ i + 1 \in DOMAIN o /\ out'[c][i] = o[i + 1]
                                   /\ i \in Int /\ i + 1 /= 1
      /\ 1 \in DOMAIN o
  BY <1>1, <1>2
<1>6. RequestInv'
  BY <1>3, <1>4, <1>5 DEF RequestInv, WellFormed
<1>7. SubInRequest'
  BY <1>2, <1>3, <1>4 DEF SubInv, SubInRequest, RequestInv, WellFormed
<1>8. MsgInRequest'
  BY <1>2, <1>3, <1>4, FieldFacts, HolderBy DEF MsgInv, MsgInRequest
<1>9. SubInOut'
  <2>1. ASSUME NEW d \in Conn, NEW i \in DOMAIN out'[d], out'[d][i].op = "Subscribe"
        PROVE  subAt'[out'[d][i].sub] = "out" /\ SubConn[out'[d][i].sub] = d
    <3>1. CASE d = c
      BY <1>2, <1>5, <2>1, <3>1, <1>1 DEF SubInv, SubInOut, RequestInv, WellFormed
    <3>2. CASE d /= c
      BY <1>2, <1>3, <1>5, <2>1, <3>2 DEF SubInv, SubInOut, RequestInv, WellFormed
    <3> QED
      BY <3>1, <3>2
  <2>2. ASSUME NEW d \in Conn, NEW i \in DOMAIN out'[d], NEW j \in DOMAIN out'[d],
               out'[d][i].op = "Subscribe", out'[d][j].op = "Subscribe"
        PROVE  i = j
    <3>1. CASE d = c
      BY <1>5, <2>2, <3>1 DEF SubInv, SubInOut
    <3>2. CASE d /= c
      BY <1>5, <2>2, <3>2 DEF SubInv, SubInOut
    <3> QED
      BY <3>1, <3>2
  <2> QED
    BY <2>1, <2>2 DEF SubInOut
<1>10. MsgInOut'
  <2>1. ASSUME NEW d \in Conn, NEW i \in DOMAIN out'[d], out'[d][i].frame /= nil
        PROVE  msgAt'[out'[d][i].frame] = HeldBy("out", d)
    <3>1. CASE d = c
      BY <1>1, <1>2, <1>5, <2>1, <3>1, FieldFacts DEF MsgInv, MsgInOut
    <3>2. CASE d /= c
      BY <1>2, <1>3, <1>5, <2>1, <3>2, FieldFacts, HolderBy DEF MsgInv, MsgInOut
    <3> QED
      BY <3>1, <3>2
  <2>2. ASSUME NEW d \in Conn, NEW i \in DOMAIN out'[d], NEW j \in DOMAIN out'[d],
               out'[d][i].frame /= nil, out'[d][j].frame /= nil
        PROVE  i = j
    <3>1. CASE d = c
      BY <1>5, <2>2, <3>1 DEF MsgInv, MsgInOut
    <3>2. CASE d /= c
      BY <1>5, <2>2, <3>2 DEF MsgInv, MsgInOut
    <3> QED
      BY <3>1, <3>2
  <2> QED
    BY <2>1, <2>2 DEF MsgInOut
<1> QED
  BY <1>6, <1>7, <1>8, <1>9, <1>10

\* A handler that leaves one request to be sent.
LEMMA Handler ==
    ASSUME TypeOK, RequestInv, SubInOut, MsgInOut, NEW c \in Conn, NEW r \in Request,
           WellFormed(r), UNCHANGED reqCh, out' = [out EXCEPT ![c] = <<r>>],
           r.op = "Subscribe" => subAt'[r.sub] = "out" /\ SubConn[r.sub] = c,
           r.frame /= nil => msgAt'[r.frame] = HeldBy("out", c),
           \A s \in Sub : subAt[s] = "out" => subAt'[s] = "out",
           \A m \in Msg : msgAt[m].by = "out" => msgAt'[m] = msgAt[m]
    PROVE  RequestInv' /\ SubInOut' /\ MsgInOut'
<1>1. /\ \A d \in Conn \ {c} : out'[d] = out[d]
      /\ DOMAIN out'[c] = {1} /\ out'[c][1] = r
  BY DEF TypeOK
<1>2. RequestInv'
  BY <1>1 DEF RequestInv, WellFormed
<1>3. SubInOut'
  BY <1>1 DEF SubInOut, RequestInv, WellFormed
<1>4. MsgInOut'
  BY <1>1, FieldFacts, HolderBy DEF MsgInOut
<1> QED
  BY <1>2, <1>3, <1>4

\* handleNack leaves two: one for the frame and one for the subscription.
LEMMA HandlerOfTwo ==
    ASSUME TypeOK, RequestInv, SubInOut, MsgInOut, NEW c \in Conn,
           NEW r \in Request, NEW n \in Request, WellFormed(r), WellFormed(n),
           UNCHANGED reqCh, out' = [out EXCEPT ![c] = <<n, r>>],
           n.op = "Requeue", msgAt'[n.frame] = HeldBy("out", c),
           r.op = "Subscribe", subAt'[r.sub] = "out", SubConn[r.sub] = c,
           \A s \in Sub : subAt[s] = "out" => subAt'[s] = "out",
           \A m \in Msg : msgAt[m].by = "out" => msgAt'[m] = msgAt[m]
    PROVE  RequestInv' /\ SubInOut' /\ MsgInOut'
<1>1. /\ \A d \in Conn \ {c} : out'[d] = out[d]
      /\ DOMAIN out'[c] = {1, 2} /\ out'[c][1] = n /\ out'[c][2] = r
  BY DEF TypeOK
<1>2. RequestInv'
  BY <1>1 DEF RequestInv, WellFormed
<1>3. SubInOut'
  BY <1>1 DEF SubInOut, RequestInv, WellFormed
<1>4. MsgInOut'
  BY <1>1, FieldFacts, HolderBy DEF MsgInOut, WellFormed
<1> QED
  BY <1>2, <1>3, <1>4

\* A step that changes the frame or the place of s only keeps FrameInv if s is
\* left as it should be and frames of other objects stay with them.
LEMMA FrameStep ==
    ASSUME TypeOK, FrameInv, NEW s \in Sub, FrameOf(s)',
           \A x \in Sub \ {s} : subAt'[x] = subAt[x] /\ frame'[x] = frame[x],
           \A m \in Msg : msgAt[m].by = "sub" /\ msgAt[m].who /= s
                             => msgAt'[m] = msgAt[m]
    PROVE  FrameInv'
<1>1. ASSUME NEW x \in Sub \ {s} PROVE FrameOf(x)'
  BY <1>1, HolderBy DEF FrameInv, FrameOf
<1> QED
  BY <1>1 DEF FrameInv

-----------------------------------------------------------------------------
(* Every action keeps every variable of the server in its type.  An action that *)
(* handles the frame of a subscription needs to know that there is one, which   *)
(* is a part of the inductive invariant; its lemma assumes it.                  *)

\* What the processor has to send for a topic is a sequence of deliveries.
LEMMA BroadcastFacts ==
    ASSUME TypeOK, NEW t \in Topic, NEW m \in Msg
    PROVE  Broadcast(t, m) \in Seq(Delivery)
<1>1. tsubs[t] \in Seq(Sub)
  BY DEF TypeOK
<1>2. DOMAIN tsubs[t] = 1..Len(tsubs[t]) /\ Len(tsubs[t]) \in Nat
  BY <1>1
<1>3. \A i \in DOMAIN tsubs[t] : [sub |-> tsubs[t][i], frame |-> m] \in Delivery
  BY <1>1, FrameFacts
<1>4. \A n \in Nat : \A f \in [1..n -> Delivery] : f \in Seq(Delivery)
  OBVIOUS
<1> QED
  BY <1>2, <1>3, <1>4 DEF Broadcast

\* Queue.Subscribe that finds a stored frame keeps the types.
LEMMA SubscribeServedTypes ==
    ASSUME TypeOK, NEW q \in Queue, NEW s \in Sub, NEW m \in Msg,
           SubscribeServed(q, s, m), store[q] /= <<>>
    PROVE  TypeOK'
BY BoundAssumption, FrameFacts, HolderFacts DEF TypeOK, SubscribeServed, Take,
   AfterDequeue, Dequeue, SendQueueFrame, SubPlaces, connVars

\* Queue.Subscribe that adds to the list keeps the types.
LEMMA SubscribeWaitsTypes ==
    ASSUME TypeOK, NEW q \in Queue, NEW s \in Sub, SubscribeWaits(q, s)
    PROVE  TypeOK'
BY BoundAssumption DEF TypeOK, SubscribeWaits, Take, SubPlaces, connVars

\* Queue.Unsubscribe keeps the types.
LEMMA QueueUnsubscribeTypes ==
    ASSUME TypeOK, NEW q \in Queue, NEW s \in Sub, NEW i \in DOMAIN qsubs[q],
           QueueUnsubscribe(q, s, i)
    PROVE  TypeOK'
<1>1. reqCh' \in Seq(Request) /\ Len(reqCh') <= RequestCap
  BY BoundAssumption DEF TypeOK, QueueUnsubscribe, Take
<1>2. qsubs' \in [Queue -> Seq(Sub)]
  BY RemoveAtFacts DEF TypeOK, QueueUnsubscribe, AfterRemove
<1>3. listed' \in [Sub -> BOOLEAN]
  BY DEF TypeOK, QueueUnsubscribe, Unlist
<1>4. subAt' \in [Sub -> SubPlaces]
  BY DEF TypeOK, QueueUnsubscribe, SubPlaces
<1> QED
  BY <1>1, <1>2, <1>3, <1>4 DEF TypeOK, QueueUnsubscribe, Take, connVars

\* Queue.Enqueue or Requeue to a ready subscription keeps the types.
LEMMA GiveToReadyTypes ==
    ASSUME TypeOK, NEW op \in {"Enqueue", "Requeue"}, NEW q \in Queue,
           NEW s \in Sub, NEW m \in Msg, GiveToReady(op, q, s, m)
    PROVE  TypeOK'
BY BoundAssumption, FrameFacts, HolderFacts DEF TypeOK, GiveToReady, Take,
   AfterGet, SendQueueFrame, Unlist, SubPlaces, connVars

\* Queue.Enqueue or Requeue to the storage keeps the types.
LEMMA KeepTypes ==
    ASSUME TypeOK, NEW op \in {"Enqueue", "Requeue"}, NEW q \in Queue,
           NEW m \in Msg, NEW stored \in Seq(Msg), Keep(op, q, m, stored)
    PROVE  TypeOK'
BY BoundAssumption, HolderFacts DEF TypeOK, Keep, Take, connVars

\* Topic.Subscribe keeps the types.
LEMMA TopicSubscribeTypes ==
    ASSUME TypeOK, NEW t \in Topic, NEW s \in Sub, TopicSubscribe(t, s)
    PROVE  TypeOK'
BY BoundAssumption DEF TypeOK, TopicSubscribe, Take, SubPlaces, connVars

\* Topic.Unsubscribe keeps the types.
LEMMA TopicUnsubscribeTypes ==
    ASSUME TypeOK, NEW t \in Topic, NEW s \in Sub, NEW j \in DOMAIN tsubs[t],
           TopicUnsubscribe(t, s, j)
    PROVE  TypeOK'
<1>1. reqCh' \in Seq(Request) /\ Len(reqCh') <= RequestCap
  BY BoundAssumption DEF TypeOK, TopicUnsubscribe, Take
<1>2. tsubs' \in [Topic -> Seq(Sub)]
  BY RemoveAtFacts DEF TypeOK, TopicUnsubscribe, AfterRemove
<1>3. subAt' \in [Sub -> SubPlaces]
  BY DEF TypeOK, TopicUnsubscribe, SubPlaces
<1> QED
  BY <1>1, <1>2, <1>3 DEF TypeOK, TopicUnsubscribe, Take, connVars

\* Topic.Enqueue keeps the types.
LEMMA TopicEnqueueTypes ==
    ASSUME TypeOK, NEW t \in Topic, NEW m \in Msg, TopicEnqueue(t, m)
    PROVE  TypeOK'
<1>1. reqCh' \in Seq(Request) /\ Len(reqCh') <= RequestCap
  BY BoundAssumption DEF TypeOK, TopicEnqueue, Take
<1>2. procOut' \in Seq(Delivery)
  BY BroadcastFacts DEF TopicEnqueue
<1>3. crashed' \in BOOLEAN
  BY DEF TypeOK, TopicEnqueue
<1>4. msgAt' \in [Msg -> Holder]
  BY HolderFacts DEF TypeOK, TopicEnqueue
<1> QED
  BY <1>1, <1>2, <1>3, <1>4 DEF TypeOK, TopicEnqueue, Take, connVars

\* An unsubscribe without effect keeps the types.
LEMMA UnsubscribeAbsentTypes ==
    ASSUME TypeOK, NEW s \in Sub, UnsubscribeAbsent(s)
    PROVE  TypeOK'
BY BoundAssumption DEF TypeOK, UnsubscribeAbsent, Take, procVars, connVars,
   objVars

\* A request without effect keeps the types.
LEMMA IgnoreRequestTypes ==
    ASSUME TypeOK, IgnoreRequest
    PROVE  TypeOK'
BY BoundAssumption DEF TypeOK, IgnoreRequest, Take, procVars, connVars,
   objVars

\* The panic of the processor keeps the types.
LEMMA MissingDestinationTypes ==
    ASSUME TypeOK, NEW m \in Msg, MissingDestination(m)
    PROVE  TypeOK'
BY BoundAssumption DEF TypeOK, MissingDestination, Take, procVars, connVars,
   objVars

\* The processor's send on subChannel keeps the types.
LEMMA SendOnSubChannelTypes ==
    ASSUME TypeOK, NEW c \in Conn, NEW s \in Sub, SendOnSubChannel(c, s)
    PROVE  TypeOK'
<1>1. procOut' \in Seq(Delivery)
  BY FrameFacts DEF TypeOK, SendOnSubChannel, NextDelivery
<1>2. subCh' \in [Conn -> Seq(Sub)] /\ \A k \in Conn : Len(subCh'[k]) <= maxPendingWrites
  BY BoundAssumption, SMTT(30) DEF TypeOK, SendOnSubChannel, HasRoom
<1>3. subAt' \in [Sub -> SubPlaces]
  BY DEF TypeOK, SendOnSubChannel, SubPlaces
<1> QED
  BY <1>1, <1>2, <1>3 DEF TypeOK, SendOnSubChannel, NextDelivery, connVars

\* The processor's send on writeChannel keeps the types.
LEMMA SendOnWriteChannelTypes ==
    ASSUME TypeOK, NEW c \in Conn, NEW s \in Sub, SendOnWriteChannel(c, s)
    PROVE  TypeOK'
<1>1. procOut' \in Seq(Delivery)
  BY FrameFacts DEF TypeOK, SendOnWriteChannel, NextDelivery
<1>2. procOut[1].frame \in Msg /\ Head(procOut) = procOut[1]
  BY FieldFacts, SMTT(30) DEF TypeOK, SendOnWriteChannel, NextDelivery
<1>3. writeCh' \in [Conn -> Seq(Msg)] /\ \A k \in Conn : Len(writeCh'[k]) <= maxPendingWrites
  BY <1>2, BoundAssumption, SMTT(30) DEF TypeOK, SendOnWriteChannel, HasRoom
<1> QED
  BY <1>1, <1>3 DEF TypeOK, SendOnWriteChannel, NextDelivery, connVars, objVars

\* Accepting a connection keeps the types.
LEMMA AcceptTypes ==
    ASSUME TypeOK, NEW c \in Conn, Accept(c)
    PROVE  TypeOK'
BY DEF TypeOK, Accept, Phases, CleanupPhases, NextPhase, Channels, Elsewhere,
   procVars, objVars

\* Leaving the loop after an error keeps the types.
LEMMA RejectTypes ==
    ASSUME TypeOK, NEW c \in Conn, Reject(c)
    PROVE  TypeOK'
BY FrameFacts, HolderFacts DEF TypeOK, Exit, Reject, Phases, CleanupPhases,
   NextPhase, Channels, Elsewhere, procVars

\* handleConnect keeps the types.
LEMMA HandleConnectTypes ==
    ASSUME TypeOK, NEW c \in Conn, HandleConnect(c)
    PROVE  TypeOK'
BY RequestFacts DEF TypeOK, HandleConnect, Phases, CleanupPhases, NextPhase,
   Channels, Elsewhere, procVars, objVars

\* handleDisconnect keeps the types.
LEMMA HandleDisconnectTypes ==
    ASSUME TypeOK, NEW c \in Conn, HandleDisconnect(c)
    PROVE  TypeOK'
BY DEF TypeOK, HandleDisconnect, Channels, Elsewhere, procVars, objVars

\* handleSubscribe keeps the types.
LEMMA HandleSubscribeTypes ==
    ASSUME TypeOK, NEW c \in Conn, NEW s \in Sub, HandleSubscribe(c, s)
    PROVE  TypeOK'
BY RequestFacts DEF TypeOK, HandleSubscribe, SubPlaces, Channels, Elsewhere,
   procVars

\* handleUnsubscribe keeps the types.
LEMMA HandleUnsubscribeTypes ==
    ASSUME TypeOK, NEW c \in Conn, NEW s \in Sub, HandleUnsubscribe(c, s)
    PROVE  TypeOK'
BY RequestFacts DEF TypeOK, HandleUnsubscribe, Channels, Elsewhere, procVars,
   objVars

\* handleSend outside a transaction keeps the types.
LEMMA HandleSendTypes ==
    ASSUME TypeOK, NEW c \in Conn, NEW m \in Msg, HandleSend(c, m)
    PROVE  TypeOK'
BY RequestFacts, HolderFacts DEF TypeOK, HandleSend, Channels, Elsewhere,
   procVars

\* handleSend in a transaction keeps the types.
LEMMA HandleSendInTxTypes ==
    ASSUME TypeOK, NEW c \in Conn, NEW m \in Msg, NEW x \in Tx,
           HandleSendInTx(c, m, x)
    PROVE  TypeOK'
BY FrameFacts, HolderFacts, SMTT(30) DEF TypeOK, HandleSendInTx, AddToTx, Channels,
   Elsewhere, procVars

\* handleBegin keeps the types.
LEMMA HandleBeginTypes ==
    ASSUME TypeOK, NEW c \in Conn, NEW x \in Tx, HandleBegin(c, x)
    PROVE  TypeOK'
BY FrameFacts DEF TypeOK, HandleBegin, Channels, Elsewhere, procVars, objVars

\* handleAbort keeps the types.
LEMMA HandleAbortTypes ==
    ASSUME TypeOK, NEW c \in Conn, NEW x \in Tx, HandleAbort(c, x)
    PROVE  TypeOK'
BY FrameFacts, HolderFacts DEF TypeOK, HandleAbort, Channels, Elsewhere,
   procVars

\* handleCommit keeps the types.
LEMMA HandleCommitTypes ==
    ASSUME TypeOK, NEW c \in Conn, NEW x \in Tx, HandleCommit(c, x)
    PROVE  TypeOK'
BY FrameFacts, HolderFacts DEF TypeOK, HandleCommit, Channels, Elsewhere,
   procVars

\* handleAck or handleNack outside a transaction keeps the types.
LEMMA HandleAckTypes ==
    ASSUME TypeOK, NEW c \in Conn, NEW cmd \in {"ACK", "NACK"},
           NEW id \in Nat, HandleAck(c, cmd, id)
    PROVE  TypeOK'
BY FrameFacts DEF TypeOK, HandleAck, Channels, Elsewhere, procVars, objVars

\* handleAck or handleNack in a transaction keeps the types.
LEMMA HandleAckInTxTypes ==
    ASSUME TypeOK, NEW c \in Conn, NEW cmd \in {"ACK", "NACK"},
           NEW id \in Nat, NEW x \in Tx, HandleAckInTx(c, cmd, id, x)
    PROVE  TypeOK'
<1>1. tx' \in [Tx -> Seq(TxFrame) \cup {nil}]
  BY FrameFacts DEF TypeOK, HandleAckInTx, AddToTx
<1> QED
  BY <1>1 DEF TypeOK, HandleAckInTx, Channels, Elsewhere, procVars, objVars

\* A handler's send on requestChannel keeps the types.
LEMMA SendRequestTypes ==
    ASSUME TypeOK, NEW c \in Conn, SendRequest(c)
    PROVE  TypeOK'
<1>1. reqCh' \in Seq(Request) /\ Len(reqCh') <= RequestCap
  BY BoundAssumption DEF TypeOK, SendRequest, RequestRoom
<1>2. out' \in [Conn -> Seq(Request)]
  BY RequestFacts DEF TypeOK, SendRequest
<1>3. subAt' \in [Sub -> SubPlaces]
  BY DEF TypeOK, SendRequest, SubPlaces
<1>4. msgAt' \in [Msg -> Holder]
  BY HolderFacts DEF TypeOK, SendRequest
<1> QED
  BY <1>1, <1>2, <1>3, <1>4 DEF TypeOK, SendRequest, Elsewhere, procVars

\* A committed SEND frame keeps the types.
LEMMA CommitSendTypes ==
    ASSUME TypeOK, NEW c \in Conn, CommitSend(c),
           Head(work[c]).cmd = "SEND" => Head(work[c]).msg \in Msg
    PROVE  TypeOK'
<1>1. out' \in [Conn -> Seq(Request)]
  BY RequestFacts DEF TypeOK, CommitSend
<1>2. work' \in [Conn -> Seq(TxFrame)]
  BY FrameFacts DEF TypeOK, CommitSend
<1>3. msgAt' \in [Msg -> Holder]
  BY HolderFacts DEF TypeOK, CommitSend
<1> QED
  BY <1>1, <1>2, <1>3 DEF TypeOK, CommitSend, Channels, Elsewhere, procVars

\* A subscription acknowledged by an ACK keeps the types.
LEMMA AckOneTypes ==
    ASSUME TypeOK, NEW c \in Conn, NEW k \in DOMAIN subList[c], NEW s \in Sub,
           AckOne(c, k, s), frame[s] \in Msg
    PROVE  TypeOK'
<1>1. subList' \in [Conn -> Seq(Sub)]
  BY RemoveAtFacts DEF TypeOK, AckOne, MatchOne, AfterAck
<1>2. out' \in [Conn -> Seq(Request)]
  BY RequestFacts DEF TypeOK, AckOne
<1>3. frame' \in [Sub -> Msg \cup {nil}]
  BY DEF TypeOK, AckOne, Release
<1>4. subAt' \in [Sub -> SubPlaces]
  BY DEF TypeOK, AckOne, SubPlaces
<1>5. msgAt' \in [Msg -> Holder]
  BY HolderFacts DEF TypeOK, AckOne
<1> QED
  BY <1>1, <1>2, <1>3, <1>4, <1>5 DEF TypeOK, AckOne, Channels, MatchOne,
     Elsewhere, procVars

\* A subscription matched by a NACK keeps the types.
LEMMA NackOneTypes ==
    ASSUME TypeOK, NEW c \in Conn, NEW k \in DOMAIN subList[c], NEW s \in Sub,
           NackOne(c, k, s), frame[s] \in Msg
    PROVE  TypeOK'
<1>1. subList' \in [Conn -> Seq(Sub)]
  BY RemoveAtFacts DEF TypeOK, NackOne, MatchOne, AfterAck
<1>2. out' \in [Conn -> Seq(Request)]
  BY RequestFacts DEF TypeOK, NackOne, Return
<1>3. frame' \in [Sub -> Msg \cup {nil}]
  BY DEF TypeOK, NackOne, Release
<1>4. subAt' \in [Sub -> SubPlaces]
  BY DEF TypeOK, NackOne, SubPlaces
<1>5. msgAt' \in [Msg -> Holder]
  BY HolderFacts DEF TypeOK, NackOne
<1> QED
  BY <1>1, <1>2, <1>3, <1>4, <1>5 DEF TypeOK, NackOne, Channels, MatchOne,
     Elsewhere, procVars

\* An ACK that meets an unknown ack mode.
LEMMA AckPanicsTypes ==
    ASSUME TypeOK, NEW c \in Conn, NEW k \in DOMAIN subList[c], AckPanics(c, k)
    PROVE  TypeOK'
BY DEF TypeOK, AckPanics, Channels, procVars, connVars, objVars

\* The end of an ACK or a NACK keeps the types.
LEMMA AckEndTypes ==
    ASSUME TypeOK, NEW c \in Conn, AckEnd(c)
    PROVE  TypeOK'
<1>1. work' \in [Conn -> Seq(TxFrame)]
  BY FrameFacts DEF TypeOK, AckEnd
<1> QED
  BY <1>1 DEF TypeOK, AckEnd, Channels, Elsewhere, procVars, objVars

\* Writing a topic frame keeps the types.
LEMMA WriteTopicFrameTypes ==
    ASSUME TypeOK, NEW c \in Conn, WriteTopicFrame(c)
    PROVE  TypeOK'
<1>1. writeCh' \in [Conn -> Seq(Msg)] /\ \A k \in Conn : Len(writeCh'[k]) <= maxPendingWrites
  BY BoundAssumption, SMTT(30) DEF TypeOK, WriteTopicFrame, ReceiveTopicFrame
<1>2. lastMsgId' \in [Conn -> Nat]
  BY DEF TypeOK, WriteTopicFrame, ReceiveTopicFrame
<1>3. Head(writeCh[c]) \in Msg
  BY DEF TypeOK, WriteTopicFrame, ReceiveTopicFrame
<1>4. seen' \in [Conn -> SUBSET Msg]
  BY <1>3 DEF TypeOK, WriteTopicFrame
<1> QED
  BY <1>1, <1>2, <1>4 DEF TypeOK, WriteTopicFrame, ReceiveTopicFrame,
     Elsewhere, procVars

\* A failed write of a topic frame keeps the types.
LEMMA TopicWriteFailsTypes ==
    ASSUME TypeOK, NEW c \in Conn, TopicWriteFails(c)
    PROVE  TypeOK'
<1>1. phase' \in [Conn -> Phases]
  BY DEF TypeOK, TopicWriteFails, Exit, Phases, CleanupPhases, NextPhase
<1>2. writeCh' \in [Conn -> Seq(Msg)]
  BY DEF TypeOK, TopicWriteFails, ReceiveTopicFrame
<1>3. \A k \in Conn : Len(writeCh'[k]) <= maxPendingWrites
  BY BoundAssumption, SMTT(30) DEF TypeOK, TopicWriteFails, ReceiveTopicFrame
<1>4. lastMsgId' \in [Conn -> Nat]
  BY DEF TypeOK, TopicWriteFails, ReceiveTopicFrame
<1>5. tx' \in [Tx -> Seq(TxFrame) \cup {nil}]
  BY DEF TypeOK, TopicWriteFails, Exit
<1>6. msgAt' \in [Msg -> Holder]
  BY HolderFacts DEF TypeOK, TopicWriteFails, Exit
<1> QED
  BY <1>1, <1>2, <1>3, <1>4, <1>5, <1>6 DEF TypeOK, TopicWriteFails,
     ReceiveTopicFrame, Exit, Elsewhere, procVars

\* Writing a queue frame that needs no acknowledgement keeps the types.
LEMMA DeliverAutoTypes ==
    ASSUME TypeOK, NEW c \in Conn, NEW s \in Sub, DeliverAuto(c, s),
           frame[s] \in Msg
    PROVE  TypeOK'
<1>1. subCh' \in [Conn -> Seq(Sub)] /\ \A k \in Conn : Len(subCh'[k]) <= maxPendingWrites
  BY BoundAssumption, SMTT(30) DEF TypeOK, DeliverAuto, ReceiveSub, WriteFrame
<1>2. out' \in [Conn -> Seq(Request)]
  BY RequestFacts DEF TypeOK, DeliverAuto
<1>3. lastMsgId' \in [Conn -> Nat]
  BY DEF TypeOK, DeliverAuto, WriteFrame
<1>4. frame' \in [Sub -> Msg \cup {nil}]
  BY DEF TypeOK, DeliverAuto, Release
<1>5. msgIdHdr' \in [Msg -> Nat]
  BY DEF TypeOK, DeliverAuto, WriteFrame
<1>6. subAt' \in [Sub -> SubPlaces]
  BY DEF TypeOK, DeliverAuto, SubPlaces
<1>7. msgAt' \in [Msg -> Holder]
  BY HolderFacts DEF TypeOK, DeliverAuto
<1>8. seen' \in [Conn -> SUBSET Msg]
  BY DEF TypeOK, DeliverAuto, Written
<1> QED
  BY <1>1, <1>2, <1>3, <1>4, <1>5, <1>6, <1>7, <1>8 DEF TypeOK, DeliverAuto,
     ReceiveSub, WriteFrame, procVars

\* Writing a queue frame that is to be acknowledged keeps the types.
LEMMA DeliverUnackedTypes ==
    ASSUME TypeOK, NEW c \in Conn, NEW s \in Sub, DeliverUnacked(c, s),
           frame[s] \in Msg
    PROVE  TypeOK'
<1>1. subList' \in [Conn -> Seq(Sub)]
  BY DEF TypeOK, DeliverUnacked
<1>2. subCh' \in [Conn -> Seq(Sub)] /\ \A k \in Conn : Len(subCh'[k]) <= maxPendingWrites
  BY BoundAssumption, SMTT(30) DEF TypeOK, DeliverUnacked, ReceiveSub, WriteFrame
<1>3. lastMsgId' \in [Conn -> Nat]
  BY DEF TypeOK, DeliverUnacked, WriteFrame
<1>4. listed' \in [Sub -> BOOLEAN]
  BY DEF TypeOK, DeliverUnacked
<1>5. msgIdHdr' \in [Msg -> Nat]
  BY DEF TypeOK, DeliverUnacked, WriteFrame
<1>6. crashed' \in BOOLEAN
  BY DEF TypeOK, DeliverUnacked
<1>7. subAt' \in [Sub -> SubPlaces]
  BY DEF TypeOK, DeliverUnacked, SubPlaces
<1>8. seen' \in [Conn -> SUBSET Msg]
  BY DEF TypeOK, DeliverUnacked, Written
<1> QED
  BY <1>1, <1>2, <1>3, <1>4, <1>5, <1>6, <1>7, <1>8 DEF TypeOK,
     DeliverUnacked, ReceiveSub, WriteFrame, procVars

\* A failed write of a queue frame keeps the types.
LEMMA DeliverFailsTypes ==
    ASSUME TypeOK, NEW c \in Conn, NEW s \in Sub, DeliverFails(c, s),
           frame[s] \in Msg
    PROVE  TypeOK'
<1>1. phase' \in [Conn -> Phases]
  BY DEF TypeOK, DeliverFails, Exit, Phases, CleanupPhases, NextPhase
<1>2. subCh' \in [Conn -> Seq(Sub)] /\ \A k \in Conn : Len(subCh'[k]) <= maxPendingWrites
  BY BoundAssumption, SMTT(30) DEF TypeOK, DeliverFails, ReceiveSub, WriteFrame
<1>3. lastMsgId' \in [Conn -> Nat]
  BY DEF TypeOK, DeliverFails, WriteFrame
<1>4. tx' \in [Tx -> Seq(TxFrame) \cup {nil}]
  BY FrameFacts DEF TypeOK, DeliverFails, Exit
<1>5. msgIdHdr' \in [Msg -> Nat]
  BY DEF TypeOK, DeliverFails, WriteFrame
<1>6. subAt' \in [Sub -> SubPlaces]
  BY DEF TypeOK, DeliverFails, SubPlaces
<1>7. msgAt' \in [Msg -> Holder]
  BY HolderFacts DEF TypeOK, DeliverFails, Exit
<1> QED
  BY <1>1, <1>2, <1>3, <1>4, <1>5, <1>6, <1>7 DEF TypeOK, DeliverFails,
     ReceiveSub, WriteFrame, Exit, procVars

\* Returning a frame of a subscription that is gone keeps the types.
LEMMA ReturnQueueFrameTypes ==
    ASSUME TypeOK, NEW c \in Conn, NEW s \in Sub, ReturnQueueFrame(c, s),
           frame[s] \in Msg
    PROVE  TypeOK'
<1>1. subCh' \in [Conn -> Seq(Sub)] /\ \A k \in Conn : Len(subCh'[k]) <= maxPendingWrites
  BY BoundAssumption, SMTT(30) DEF TypeOK, ReturnQueueFrame, ReceiveSub
<1>2. out' \in [Conn -> Seq(Request)]
  BY RequestFacts DEF TypeOK, ReturnQueueFrame, Return
<1>3. subAt' \in [Sub -> SubPlaces]
  BY DEF TypeOK, ReturnQueueFrame, SubPlaces
<1>4. msgAt' \in [Msg -> Holder]
  BY HolderFacts DEF TypeOK, ReturnQueueFrame
<1> QED
  BY <1>1, <1>2, <1>3, <1>4 DEF TypeOK, ReturnQueueFrame, ReceiveSub, procVars

\* The end of a loop of cleanupConn keeps the types.
LEMMA CleanupNextTypes ==
    ASSUME TypeOK, NEW c \in Conn, CleanupNext(c)
    PROVE  TypeOK'
BY DEF TypeOK, CleanupNext, Phases, CleanupPhases, NextPhase, InCleanup,
   Channels, Elsewhere, procVars, objVars

\* discardWriteChannelFrames keeps the types.
LEMMA DiscardWriteChannelFrameTypes ==
    ASSUME TypeOK, NEW c \in Conn, DiscardWriteChannelFrame(c)
    PROVE  TypeOK'
<1>1. writeCh' \in [Conn -> Seq(Msg)] /\ \A k \in Conn : Len(writeCh'[k]) <= maxPendingWrites
  BY BoundAssumption, SMTT(30) DEF TypeOK, DiscardWriteChannelFrame
<1> QED
  BY <1>1 DEF TypeOK, DiscardWriteChannelFrame, Elsewhere, procVars, connVars, objVars

\* The unsubscribing of cleanupConn keeps the types.
LEMMA CleanupUnsubscribeTypes ==
    ASSUME TypeOK, NEW c \in Conn, NEW s \in Sub, CleanupUnsubscribe(c, s)
    PROVE  TypeOK'
BY RequestFacts DEF TypeOK, CleanupUnsubscribe, Channels, Elsewhere, procVars,
   objVars

\* The requeueing of cleanupConn keeps the types.
LEMMA CleanupRequeueTypes ==
    ASSUME TypeOK, NEW c \in Conn, NEW s \in Sub, CleanupRequeue(c, s),
           frame[s] \in Msg
    PROVE  TypeOK'
<1>1. subList' \in [Conn -> Seq(Sub)]
  BY DEF TypeOK, CleanupRequeue, AfterGet
<1>2. out' \in [Conn -> Seq(Request)]
  BY RequestFacts DEF TypeOK, CleanupRequeue, Return
<1>3. listed' \in [Sub -> BOOLEAN]
  BY DEF TypeOK, CleanupRequeue, Unlist
<1>4. subAt' \in [Sub -> SubPlaces]
  BY DEF TypeOK, CleanupRequeue, SubPlaces
<1>5. msgAt' \in [Msg -> Holder]
  BY HolderFacts DEF TypeOK, CleanupRequeue
<1> QED
  BY <1>1, <1>2, <1>3, <1>4, <1>5 DEF TypeOK, CleanupRequeue, Channels,
     Elsewhere, procVars

\* cleanupSubChannel keeps the types.
LEMMA CleanupSubChannelTypes ==
    ASSUME TypeOK, NEW c \in Conn, NEW s \in Sub, CleanupSubChannel(c, s),
           frame[s] \in Msg
    PROVE  TypeOK'
<1>1. subCh' \in [Conn -> Seq(Sub)] /\ \A k \in Conn : Len(subCh'[k]) <= maxPendingWrites
  BY BoundAssumption, SMTT(30) DEF TypeOK, CleanupSubChannel
<1>2. out' \in [Conn -> Seq(Request)]
  BY RequestFacts DEF TypeOK, CleanupSubChannel, Return
<1>3. subAt' \in [Sub -> SubPlaces]
  BY DEF TypeOK, CleanupSubChannel, SubPlaces
<1>4. msgAt' \in [Msg -> Holder]
  BY HolderFacts DEF TypeOK, CleanupSubChannel
<1> QED
  BY <1>1, <1>2, <1>3, <1>4 DEF TypeOK, CleanupSubChannel, Elsewhere, procVars

\* The DisconnectedOp of cleanupConn keeps the types.
LEMMA CleanupGoodbyeTypes ==
    ASSUME TypeOK, NEW c \in Conn, CleanupGoodbye(c)
    PROVE  TypeOK'
BY RequestFacts DEF TypeOK, CleanupGoodbye, Phases, CleanupPhases, NextPhase,
   InCleanup, Channels, Elsewhere, procVars, objVars

=============================================================================
