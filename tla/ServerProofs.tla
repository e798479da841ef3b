---------------------------- MODULE ServerProofs ----------------------------
(***************************************************************************)
(* Theorems about the server, for any number of connections, queues,       *)
(* topics, subscriptions, frames and transactions and for channels of any  *)
(* capacity.  Everything follows from the inductive invariant IInv.        *)
(***************************************************************************)
EXTENDS StepProofs

\* The server starts with every list and channel empty.
LEMMA InitEstablishes == Init => IInv
<1> SUFFICES ASSUME Init PROVE IInv
  OBVIOUS
<1>1. TypeOK
  <2>1. \A S : <<>> \in Seq(S) /\ Len(<<>>) = 0
    OBVIOUS
  <2>2. 0 <= RequestCap /\ 0 <= maxPendingWrites
    BY BoundAssumption
  <2>3. /\ reqCh \in Seq(Request) /\ Len(reqCh) <= RequestCap
        /\ store \in [Queue -> Seq(Msg)] /\ qsubs \in [Queue -> Seq(Sub)]
        /\ tsubs \in [Topic -> Seq(Sub)] /\ procOut \in Seq(Delivery)
    BY <2>1, <2>2 DEF Init
  <2>4. /\ subList \in [Conn -> Seq(Sub)] /\ subCh \in [Conn -> Seq(Sub)]
        /\ writeCh \in [Conn -> Seq(Msg)]
        /\ \A c \in Conn : /\ Len(subCh[c]) <= maxPendingWrites
                           /\ Len(writeCh[c]) <= maxPendingWrites
        /\ out \in [Conn -> Seq(Request)] /\ work \in [Conn -> Seq(TxFrame)]
    BY <2>1, <2>2 DEF Init
  <2>5. /\ phase \in [Conn -> Phases] /\ subs \in [Conn -> SUBSET Sub]
        /\ lastMsgId \in [Conn -> Nat] /\ tx \in [Tx -> Seq(TxFrame) \cup {nil}]
        /\ frame \in [Sub -> Msg \cup {nil}] /\ listed \in [Sub -> BOOLEAN]
        /\ msgIdHdr \in [Msg -> Nat]
    BY DEF Init, Phases
  <2>6. /\ crashed \in BOOLEAN /\ subAt \in [Sub -> SubPlaces]
        /\ msgAt \in [Msg -> Holder] /\ seen \in [Conn -> SUBSET Msg]
        /\ farewell \subseteq Conn
    BY HolderFacts DEF Init, SubPlaces
  <2> QED
    BY <2>3, <2>4, <2>5, <2>6 DEF TypeOK
<1>2. WorkConserving /\ RequestInv
  BY DEF Init, WorkConserving, RequestInv
<1>3. SubInRequest /\ SubInOut /\ SubInProc
  BY DEF Init, SubInRequest, SubInOut, SubInProc
<1>4. SubInReady /\ SubInTopic /\ SubInSubCh /\ SubInSubList
  BY DEF Init, SubInReady, SubInTopic, SubInSubCh, SubInSubList, Lists, Distinct
<1>5. FrameInv
  BY DEF Init, FrameInv, FrameOf, Loaded
<1>6. MsgInv
  BY DEF Init, MsgInv, MsgInTx, MsgInWork, MsgInOut, MsgInRequest, MsgInStore, Lists,
         Distinct
<1> QED
  BY <1>1, <1>2, <1>3, <1>4, <1>5, <1>6 DEF IInv, SubInv

\* Nothing changes in a stuttering step.
LEMMA StutterPreserves == IInv /\ UNCHANGED vars => IInv'
<1> SUFFICES ASSUME IInv, UNCHANGED vars PROVE IInv'
  OBVIOUS
<1>1. UNCHANGED <<reqCh, store, qsubs, tsubs, procOut, subCh, subList, out, work, tx,
                  frame, subAt, msgAt>>
  BY DEF vars, procVars, connVars, objVars
<1>2. TypeOK'
  BY DEF IInv, TypeOK, vars, procVars, connVars, objVars
<1> QED
  BY <1>1, <1>2, NothingMoves DEF IInv, MsgInv

\* IInv is an invariant of the server: everything that the lists, channels and
\* requests hold is held once and by the goroutine its history names.
THEOREM Invariance == Spec => []IInv
<1>1. Init => IInv
  BY InitEstablishes
<1>2. IInv /\ [Next]_vars => IInv'
  <2> SUFFICES ASSUME IInv, [Next]_vars PROVE IInv'
    OBVIOUS
  <2>1. CASE Serve
    BY <2>1, ServeStep
  <2>2. ASSUME NEW c \in Conn, ClientInput(c) \/ ConnStep(c)
        PROVE  IInv'
    BY <2>2, ClientInputPreserves, ConnStepPreserves
  <2>3. CASE UNCHANGED vars
    BY <2>3, StutterPreserves
  <2> QED
    BY <2>1, <2>2, <2>3 DEF Next
<1> QED
  BY <1>1, <1>2, PTL DEF Spec

\* Every variable keeps its type and no channel exceeds its buffer.
THEOREM TypesHold == Spec => []TypeOK
<1>1. IInv => TypeOK
  BY DEF IInv
<1> QED
  BY <1>1, Invariance, PTL

\* A queue never holds a frame and a ready subscription at the same time.
THEOREM QueuesAreWorkConserving == Spec => []WorkConserving
<1>1. IInv => WorkConserving
  BY DEF IInv
<1> QED
  BY <1>1, Invariance, PTL

\* What the processor allocates a frame to has none: setSubscriptionHeader does
\* not panic.
THEOREM OffersAreEmpty == Spec => []OfferedEmpty
<1>1. IInv => OfferedEmpty
  BY DEF IInv, SubInv, FrameInv, FrameOf, Loaded, OfferedEmpty
<1> QED
  BY <1>1, Invariance, PTL

\* Every requeue request carries a frame for a queue.
THEOREM RequeuesCarryFrames == Spec => []RequeueCarriesFrame
<1>1. IInv => RequeueCarriesFrame
  BY DEF IInv, RequestInv, WellFormed, RequeueCarriesFrame
<1> QED
  BY <1>1, Invariance, PTL

\* A Subscription object is in one list, channel or request only, so the
\* processor never overwrites a frame that is still to be delivered.
THEOREM ObjectsAreInOnePlace == Spec => []OneToken
<1>1. IInv => OneToken
  <2> SUFFICES ASSUME IInv, NEW s \in Sub, SubDest[s] \in Queue,
                      NEW x \in Tokens(s), NEW y \in Tokens(s)
               PROVE  x = y
    BY DEF OneToken, AtMostOne
  <2>1. SubConn[s] \in Conn
    BY PoolAssumption
  <2>2. \A z \in Tokens(s) :
           \/ /\ subAt[s] = "out"
              /\ \E i \in DOMAIN out[SubConn[s]] :
                   /\ out[SubConn[s]][i].op = "Subscribe"
                   /\ z = Pos("out", SubConn[s], i)
           \/ /\ subAt[s] = "request"
              /\ \E i \in DOMAIN reqCh :
                   /\ reqCh[i].op = "Subscribe" /\ reqCh[i].sub = s
                   /\ z = Pos("request", nil, i)
           \/ /\ subAt[s] = "ready"
              /\ \E i \in DOMAIN qsubs[SubDest[s]] :
                   qsubs[SubDest[s]][i] = s /\ z = Pos("ready", SubDest[s], i)
           \/ /\ subAt[s] = "sending"
              /\ \E i \in DOMAIN procOut : Len(procOut) = 1 /\ z = Pos("sending", nil, i)
           \/ /\ subAt[s] = "subCh"
              /\ \E i \in DOMAIN subCh[SubConn[s]] :
                   subCh[SubConn[s]][i] = s /\ z = Pos("subCh", SubConn[s], i)
           \/ /\ subAt[s] = "unacked"
              /\ \E i \in DOMAIN subList[SubConn[s]] :
                   subList[SubConn[s]][i] = s /\ z = Pos("unacked", SubConn[s], i)
    <3> DEFINE c == SubConn[s]
               q == SubDest[s]
               r == SubRequest("Subscribe", s)
    <3>1. r.op = "Subscribe" /\ r.sub = s
      BY DEF SubRequest
    <3>2. \A i \in DOMAIN out[c] : out[c][i] = r => subAt[s] = "out"
      BY <2>1, <3>1 DEF IInv, SubInv, SubInOut
    <3>3. \A i \in DOMAIN reqCh : reqCh[i] = r => subAt[s] = "request"
      BY <3>1 DEF IInv, SubInv, SubInRequest
    <3>4. \A i \in DOMAIN qsubs[q] : qsubs[q][i] = s => subAt[s] = "ready"
      BY DEF IInv, SubInv, SubInReady, Lists
    <3>5. \A i \in DOMAIN procOut : procOut[i].sub = s =>
             subAt[s] = "sending" /\ Len(procOut) = 1
      BY DEF IInv, SubInv, SubInProc
    <3>6. \A i \in DOMAIN subCh[c] : subCh[c][i] = s => subAt[s] = "subCh"
      BY <2>1 DEF IInv, SubInv, SubInSubCh, Lists
    <3>7. \A i \in DOMAIN subList[c] : subList[c][i] = s => subAt[s] = "unacked"
      BY <2>1 DEF IInv, SubInv, SubInSubList, Lists
    <3> HIDE DEF r
    <3>8. Tokens(s) = In("out", c, out[c], r) \cup In("request", nil, reqCh, r)
                      \cup In("ready", q, qsubs[q], s)
                      \cup {Pos("sending", nil, i) :
                              i \in {j \in DOMAIN procOut : procOut[j].sub = s}}
                      \cup In("subCh", c, subCh[c], s) \cup In("unacked", c, subList[c], s)
      BY DEF Tokens, r
    <3> QED
      BY <3>1, <3>2, <3>3, <3>4, <3>5, <3>6, <3>7, <3>8, ZenonT(30) DEF In
  <2>3. CASE subAt[s] = "out"
    BY <2>1, <2>2, <2>3 DEF IInv, SubInv, SubInOut
  <2>4. CASE subAt[s] = "request"
    BY <2>2, <2>4 DEF IInv, SubInv, SubInRequest
  <2>5. CASE subAt[s] = "ready"
    <3>1. Distinct(qsubs[SubDest[s]])
      BY DEF IInv, SubInv, SubInReady, Lists
    <3> QED
      BY <2>2, <2>5, <3>1 DEF Distinct
  <2>6. CASE subAt[s] = "sending"
    <3>1. procOut \in Seq(Delivery)
      BY DEF IInv, TypeOK
    <3>2. Len(procOut) = 1 => \A i, j \in DOMAIN procOut : i = j
      BY <3>1
    <3> QED
      BY <2>2, <2>6, <3>2
  <2>7. CASE subAt[s] = "subCh"
    <3>1. Distinct(subCh[SubConn[s]])
      BY <2>1 DEF IInv, SubInv, SubInSubCh, Lists
    <3> QED
      BY <2>2, <2>7, <3>1 DEF Distinct
  <2>8. CASE subAt[s] = "unacked"
    <3>1. Distinct(subList[SubConn[s]])
      BY <2>1 DEF IInv, SubInv, SubInSubList, Lists
    <3> QED
      BY <2>2, <2>8, <3>1 DEF Distinct
  <2> QED
    BY <2>2, <2>3, <2>4, <2>5, <2>6, <2>7, <2>8
<1> QED
  BY <1>1, Invariance, PTL

\* Where the copies of a frame are, according to its history.
LEMMA CopiesAreHeld ==
    ASSUME IInv, NEW m \in Msg, NEW z \in Copies(m)
    PROVE  \/ \E t \in Tx : \E i \in DOMAIN tx[t] :
                /\ msgAt[m] = HeldBy("tx", t) /\ tx[t] /= nil
                /\ tx[t][i].cmd = "SEND" /\ tx[t][i].msg = m /\ z = Pos("tx", t, i)
           \/ \E c \in Conn : \E i \in DOMAIN work[c] :
                /\ msgAt[m] = HeldBy("work", c)
                /\ work[c][i].cmd = "SEND" /\ work[c][i].msg = m /\ z = Pos("work", c, i)
           \/ \E c \in Conn : \E i \in DOMAIN out[c] :
                msgAt[m] = HeldBy("out", c) /\ out[c][i].frame = m /\ z = Pos("out", c, i)
           \/ \E i \in DOMAIN reqCh :
                msgAt[m] = At("request") /\ reqCh[i].frame = m /\ z = Pos("request", nil, i)
           \/ \E i \in DOMAIN store[MsgDest[m]] :
                /\ MsgDest[m] \in Queue
                /\ msgAt[m] = At("store") /\ store[MsgDest[m]][i] = m
                /\ z = Pos("store", MsgDest[m], i)
           \/ \E s \in Sub : msgAt[m] = HeldBy("sub", s) /\ z = Pos("sub", s, 0)
<1> DEFINE f == SendFrame(m)
<1>1. m /= nil /\ f.cmd = "SEND" /\ f.msg = m
  BY PoolAssumption DEF SendFrame
<1>2. \A t \in Tx : tx[t] /= nil => \A i \in DOMAIN tx[t] : tx[t][i] = f =>
         msgAt[m] = HeldBy("tx", t)
  BY <1>1 DEF IInv, MsgInv, MsgInTx
<1>3. \A c \in Conn : \A i \in DOMAIN work[c] : work[c][i] = f =>
         msgAt[m] = HeldBy("work", c)
  BY <1>1 DEF IInv, MsgInv, MsgInWork
<1>4. \A c \in Conn : \A i \in DOMAIN out[c] : out[c][i].frame = m =>
         msgAt[m] = HeldBy("out", c)
  BY <1>1 DEF IInv, MsgInv, MsgInOut
<1>5. \A i \in DOMAIN reqCh : reqCh[i].frame = m => msgAt[m] = At("request")
  BY <1>1 DEF IInv, MsgInv, MsgInRequest
<1>6. \A q \in Queue : \A i \in DOMAIN store[q] : store[q][i] = m =>
         msgAt[m] = At("store") /\ MsgDest[m] = q
  BY DEF IInv, MsgInv, MsgInStore, Lists
<1>7. ASSUME NEW s \in Sub, s \in Bearers(m)
      PROVE  msgAt[m] = HeldBy("sub", s)
  <2>1. frame[s] = m /\ SubDest[s] \in Queue /\ SubConn[s] \in Conn
    <3>1. frame[s] = m
      BY <1>7 DEF Bearers
    <3> QED
      BY <1>1, <3>1, PoolAssumption DEF IInv, SubInv, FrameInv, FrameOf, Dest
  <2>2. CASE \E i \in DOMAIN procOut : procOut[i].sub = s
    <3>1. subAt[s] = "sending"
      BY <2>1, <2>2 DEF IInv, SubInv, SubInProc
    <3> QED
      BY <2>1, <3>1 DEF IInv, SubInv, FrameInv, FrameOf, Loaded
  <2>3. CASE \E i \in DOMAIN subCh[SubConn[s]] : subCh[SubConn[s]][i] = s
    <3>1. subAt[s] = "subCh"
      BY <2>1, <2>3 DEF IInv, SubInv, SubInSubCh, Lists
    <3> QED
      BY <2>1, <3>1 DEF IInv, SubInv, FrameInv, FrameOf, Loaded
  <2>4. CASE \E i \in DOMAIN subList[SubConn[s]] : subList[SubConn[s]][i] = s
    <3>1. subAt[s] = "unacked"
      BY <2>1, <2>4 DEF IInv, SubInv, SubInSubList, Lists
    <3> QED
      BY <2>1, <3>1 DEF IInv, SubInv, FrameInv, FrameOf, Loaded
  <2> QED
    BY <1>7, <2>2, <2>3, <2>4 DEF Bearers
<1> HIDE DEF f
<1>8. \/ \E t \in Tx : tx[t] /= nil /\ z \in In("tx", t, tx[t], f)
      \/ \E c \in Conn : z \in In("work", c, work[c], f)
      \/ \E c \in Conn : \E i \in DOMAIN out[c] : out[c][i].frame = m /\ z = Pos("out", c, i)
      \/ \E i \in DOMAIN reqCh : reqCh[i].frame = m /\ z = Pos("request", nil, i)
      \/ \E q \in Queue : z \in In("store", q, store[q], m)
      \/ \E s \in Bearers(m) : z = Pos("sub", s, 0)
  <2>1. z \in InTx(m) \cup InWork(m) \cup InOut(m) \cup InRequests(m) \cup InStore(m)
            \cup InSubs(m)
    BY DEF Copies
  <2>2. z \in InTx(m) => \E t \in Tx : tx[t] /= nil /\ z \in In("tx", t, tx[t], f)
    BY DEF InTx, f
  <2>3. z \in InWork(m) => \E c \in Conn : z \in In("work", c, work[c], f)
    BY DEF InWork, f
  <2>4. z \in InOut(m) => \E c \in Conn : z \in InOutOf(c, m)
    BY DEF InOut
  <2>5. \A c \in Conn : z \in InOutOf(c, m) => \E i \in DOMAIN out[c] :
           out[c][i].frame = m /\ z = Pos("out", c, i)
    BY DEF InOutOf
  <2>6. z \in InRequests(m) => \E i \in DOMAIN reqCh :
           reqCh[i].frame = m /\ z = Pos("request", nil, i)
    BY DEF InRequests
  <2>7. z \in InStore(m) => \E q \in Queue : z \in In("store", q, store[q], m)
    BY DEF InStore
  <2>8. z \in InSubs(m) => \E s \in Bearers(m) : z = Pos("sub", s, 0)
    BY DEF InSubs
  <2> QED
    BY <2>1, <2>2, <2>3, <2>4, <2>5, <2>6, <2>7, <2>8
<1>9. CASE \E t \in Tx : tx[t] /= nil /\ z \in In("tx", t, tx[t], f)
  BY <1>1, <1>2, <1>9 DEF In
<1>10. CASE \E c \in Conn : z \in In("work", c, work[c], f)
  BY <1>1, <1>3, <1>10 DEF In
<1>11. CASE \E q \in Queue : z \in In("store", q, store[q], m)
  BY <1>6, <1>11 DEF In
<1>12. CASE \E s \in Bearers(m) : z = Pos("sub", s, 0)
  <2>1. PICK s \in Bearers(m) : z = Pos("sub", s, 0)
    BY <1>12
  <2>2. s \in Sub
    BY DEF Bearers
  <2> QED
    BY <1>7, <2>1, <2>2
<1> QED
  BY <1>4, <1>5, <1>8, <1>9, <1>10, <1>11, <1>12

\* A frame accepted for a queue is in one place: nothing is delivered or
\* requeued twice.
THEOREM FramesAreInOnePlace == Spec => []NoDuplication
<1>1. IInv => NoDuplication
  <2> SUFFICES ASSUME IInv, NEW m \in Msg, NEW x \in Copies(m), NEW y \in Copies(m)
               PROVE  x = y
    BY DEF NoDuplication, AtMostOne
  <2>1. m /= nil
    BY PoolAssumption
  <2>2. CASE msgAt[m].by = "tx"
    <3>1. PICK t \in Tx : msgAt[m] = HeldBy("tx", t)
      BY <2>2, CopiesAreHeld, HolderBy
    <3>2. \A z \in Copies(m) : \E i \in DOMAIN tx[t] :
             /\ tx[t] /= nil
             /\ tx[t][i].cmd = "SEND" /\ tx[t][i].msg = m /\ z = Pos("tx", t, i)
      BY <2>2, <3>1, CopiesAreHeld, HolderBy
    <3> QED
      BY <3>2 DEF IInv, MsgInv, MsgInTx
  <2>3. CASE msgAt[m].by = "work"
    <3>1. PICK c \in Conn : msgAt[m] = HeldBy("work", c)
      BY <2>3, CopiesAreHeld, HolderBy
    <3>2. \A z \in Copies(m) : \E i \in DOMAIN work[c] :
             work[c][i].cmd = "SEND" /\ work[c][i].msg = m /\ z = Pos("work", c, i)
      BY <2>3, <3>1, CopiesAreHeld, HolderBy
    <3> QED
      BY <3>2 DEF IInv, MsgInv, MsgInWork
  <2>4. CASE msgAt[m].by = "out"
    <3>1. PICK c \in Conn : msgAt[m] = HeldBy("out", c)
      BY <2>4, CopiesAreHeld, HolderBy
    <3>2. \A z \in Copies(m) : \E i \in DOMAIN out[c] :
             out[c][i].frame = m /\ z = Pos("out", c, i)
      BY <2>4, <3>1, CopiesAreHeld, HolderBy
    <3> QED
      BY <2>1, <3>2 DEF IInv, MsgInv, MsgInOut
  <2>5. CASE msgAt[m].by = "request"
    <3>1. \A z \in Copies(m) : \E i \in DOMAIN reqCh :
             reqCh[i].frame = m /\ z = Pos("request", nil, i)
      BY <2>5, CopiesAreHeld, HolderBy
    <3> QED
      BY <2>1, <3>1 DEF IInv, MsgInv, MsgInRequest
  <2>6. CASE msgAt[m].by = "store"
    <3>1. \A z \in Copies(m) : \E i \in DOMAIN store[MsgDest[m]] :
             /\ MsgDest[m] \in Queue /\ store[MsgDest[m]][i] = m
             /\ z = Pos("store", MsgDest[m], i)
      BY <2>6, CopiesAreHeld, HolderBy
    <3>2. MsgDest[m] \in Queue => Distinct(store[MsgDest[m]])
      BY DEF IInv, MsgInv, MsgInStore, Lists
    <3> QED
      BY <3>1, <3>2 DEF Distinct
  <2>7. CASE msgAt[m].by = "sub"
    <3>1. \A z \in Copies(m) : \E s \in Sub : msgAt[m] = HeldBy("sub", s)
                                              /\ z = Pos("sub", s, 0)
      BY <2>7, CopiesAreHeld, HolderBy
    <3> QED
      BY <3>1, HolderBy
  <2>8. msgAt[m].by \in {"tx", "work", "out", "request", "store", "sub"}
    BY CopiesAreHeld, HolderBy
  <2> QED
    BY <2>2, <2>3, <2>4, <2>5, <2>6, <2>7, <2>8
<1> QED
  BY <1>1, Invariance, PTL

=============================================================================
