--------------------------- MODULE ContractProofs ---------------------------
(***************************************************************************)
(* The server implements QueueContract, for all connections, queues,       *)
(* subscriptions, frames and transactions.  The refinement mapping looks   *)
(* for a message in every list and channel (StateOf); the proof first      *)
(* shows that the history tells the same (Told), which changes only for    *)
(* the frames that a step moves, and then maps each action.                *)
(***************************************************************************)
EXTENDS DeliveryProofs, ServerContract

\* What a client must do so that its messages come as the contract says: it does not
\* use the id of one subscription again for another destination, for WriteFrame
\* finds the subscription of a frame by its id only.
IdsKeepDestination ==
    \A r, s \in Sub :
        SubConn[r] = SubConn[s] /\ SubIdOf[r] = SubIdOf[s] => SubDest[r] = SubDest[s]

-----------------------------------------------------------------------------
(* The state of a message according to its history *)

\* A request is on its way to the processor.
OnWay(r) ==
    \/ \E c \in Conn : \E i \in DOMAIN out[c] : out[c][i] = r
    \/ \E i \in DOMAIN reqCh : reqCh[i] = r

\* It brings m back to its queue.
Back(m) == \E r \in Request : OnWay(r) /\ r.frame = m /\ r.op = "Requeue"

Unacked(s) == subAt[s] = "unacked"

Told(m) ==
    LET by == msgAt[m].by
        who == msgAt[m].who
    IN CASE by = "tx"                -> InState("held", who)
         [] by = "work"              -> InState("coming", nil)
         [] by \in {"out", "request"} ->
              InState(IF Back(m) THEN "returning" ELSE "coming", nil)
         [] by = "store"             -> InState("waiting", nil)
         [] by = "sub"               ->
              InState(IF Unacked(who) THEN "shown" ELSE "given", SubConn[who])
         [] OTHER                    ->
              InState(IF msgAt[m] = At("client") THEN "unsent" ELSE "finished", nil)

\* Told in the form in which the proofs use it.
LEMMA ToldFacts ==
    ASSUME NEW m
    PROVE  /\ msgAt[m].by = "tx" => Told(m) = InState("held", msgAt[m].who)
           /\ msgAt[m].by = "work" => Told(m) = InState("coming", nil)
           /\ msgAt[m].by \in {"out", "request"} =>
                Told(m) = InState(IF Back(m) THEN "returning" ELSE "coming", nil)
           /\ msgAt[m].by = "store" => Told(m) = InState("waiting", nil)
           /\ msgAt[m].by = "sub" =>
                Told(m) = InState(IF Unacked(msgAt[m].who) THEN "shown" ELSE "given",
                                  SubConn[msgAt[m].who])
           /\ msgAt[m] = At("client") => Told(m) = InState("unsent", nil)
           /\ msgAt[m].by \in {"settled", "discarded", "topic"} =>
                Told(m) = InState("finished", nil)
BY DEF Told, At

\* The state of a message at each place.
LEMMA StateAtFacts ==
    ASSUME NEW w, NEW i
    PROVE  /\ StateAt(Pos("tx", w, i)) = InState("held", w)
           /\ StateAt(Pos("work", w, i)) = InState("coming", nil)
           /\ StateAt(Pos("out", w, i)) = OnItsWay(out[w][i])
           /\ StateAt(Pos("request", w, i)) = OnItsWay(reqCh[i])
           /\ StateAt(Pos("store", w, i)) = InState("waiting", nil)
           /\ StateAt(Pos("sub", w, i)) = With(w)
BY DEF StateAt, Pos

\* A frame is in one request, in requestChannel or at a connection.
LEMMA OneRequest ==
    ASSUME IInv, NEW m \in Msg, NEW r, NEW y, OnWay(r), OnWay(y), r.frame = m, y.frame = m
    PROVE  r = y /\ msgAt[m].by \in {"out", "request"}
<1>1. MsgInOut /\ MsgInRequest /\ m /= nil
  BY PoolAssumption DEF IInv, MsgInv
<1>2. ASSUME NEW c \in Conn, NEW i \in DOMAIN out[c], out[c][i].frame = m
      PROVE  msgAt[m] = HeldBy("out", c)
  BY <1>1, <1>2 DEF MsgInOut
<1>3. ASSUME NEW i \in DOMAIN reqCh, reqCh[i].frame = m
      PROVE  msgAt[m] = At("request")
  BY <1>1, <1>3 DEF MsgInRequest
<1>4. msgAt[m].by \in {"out", "request"}
  BY <1>2, <1>3, HolderBy DEF OnWay
<1>5. CASE msgAt[m].by = "out"
  <2>1. PICK c \in Conn : msgAt[m] = HeldBy("out", c)
    BY <1>2, <1>3, <1>5, HolderBy DEF OnWay
  <2>2. (\E i \in DOMAIN out[c] : out[c][i] = r) /\ (\E i \in DOMAIN out[c] : out[c][i] = y)
    BY <1>2, <1>3, <2>1, HolderBy DEF OnWay
  <2> QED
    BY <1>1, <1>4, <2>2 DEF MsgInOut
<1>6. CASE msgAt[m].by = "request"
  <2>1. (\E i \in DOMAIN reqCh : reqCh[i] = r) /\ (\E i \in DOMAIN reqCh : reqCh[i] = y)
    BY <1>2, <1>3, <1>6, HolderBy DEF OnWay
  <2> QED
    BY <1>1, <1>4, <2>1 DEF MsgInRequest
<1> QED
  BY <1>4, <1>5, <1>6

\* What a request says of its frame.
LEMMA BackIs ==
    ASSUME IInv, NEW m \in Msg, NEW r \in Request, OnWay(r), r.frame = m
    PROVE  /\ Back(m) <=> r.op = "Requeue"
           /\ OnItsWay(r) = InState(IF Back(m) THEN "returning" ELSE "coming", nil)
<1>1. Back(m) <=> r.op = "Requeue"
  BY OneRequest DEF Back
<1> QED
  BY <1>1 DEF OnItsWay

\* The object s waits for an acknowledgement exactly when it is in the list.
LEMMA WithIs ==
    ASSUME SInv, NEW s \in Sub
    PROVE  With(s) = InState(IF Unacked(s) THEN "shown" ELSE "given", SubConn[s])
<1>1. Unacked(s) => SubListHas(s)
  BY DEF SInv, HeldInv, SubHeld, Unacked
<1>2. SubListHas(s) => Unacked(s)
  <2>1. SubConn[s] \in Conn /\ Lists(subList, Conn, subAt, "unacked", SubConn)
    BY PoolAssumption DEF SInv, IInv, SubInv, SubInSubList
  <2> QED
    BY <2>1 DEF SubListHas, Unacked, Lists
<1> QED
  BY <1>1, <1>2 DEF With, SubListHas

\* The lists and channels agree with the history about the state of a message of a
\* queue, unless the write of it failed.
LEMMA StateIs ==
    ASSUME SInv, Unwritable = {}
    PROVE  \A m \in QueueMsg : StateOf(m) = Told(m)
<1> SUFFICES ASSUME NEW m \in QueueMsg PROVE StateOf(m) = Told(m)
  OBVIOUS
<1>1. m \in Msg /\ MsgDest[m] \in Queue /\ MsgDest[m] /= nil /\ IInv
  BY PoolAssumption DEF QueueMsg, SInv, Dest
<1>2. MsgHeld(m) /\ (\A s \in Sub : SubHeld(s)) /\ \A s \in Sub : ~WriteFailed(s)
  BY <1>1 DEF SInv, HeldInv, WriteFailed
<1>3. CASE Copies(m) = {}
  <2>1. ~(msgAt[m].by \in {"tx", "work", "out", "request", "store", "sub"})
    <3>1. ASSUME msgAt[m].by = "sub", Stranded(msgAt[m].who) PROVE FALSE
      <4>1. PICK s \in Sub : s = msgAt[m].who /\ frame[s] = m
        BY <1>2, <3>1 DEF MsgHeld
      <4>2. s \in Bearers(m)
        BY <3>1, <4>1 DEF Stranded, Bearers
      <4>3. Pos("sub", s, 0) \in Copies(m)
        BY <4>2 DEF InSubs, Copies
      <4> QED
        BY <1>3, <4>3
    <3>2. ASSUME msgAt[m].by = "sub", WriteFailed(msgAt[m].who) PROVE FALSE
      BY <1>2, <3>2 DEF MsgHeld
    <3>3. ~InHand(m)
      BY <1>3 DEF InHand
    <3> QED
      BY <1>1, <1>2, <3>1, <3>2, <3>3, HeldIsThere
  <2>2. StateOf(m) = InState(IF msgAt[m] = At("client") THEN "unsent" ELSE "finished", nil)
    BY <1>3 DEF StateOf
  <2> QED
    BY <2>1, <2>2 DEF Told
<1>4. CASE Copies(m) /= {}
  <2>1. PICK z \in Copies(m) : StateOf(m) = StateAt(z)
    <3> DEFINE z == CHOOSE p \in Copies(m) : TRUE
    <3>1. z \in Copies(m) /\ StateOf(m) = StateAt(z)
      BY <1>4 DEF StateOf
    <3> QED
      BY <3>1
  <2>2. CASE \E t \in Tx : \E i \in DOMAIN tx[t] :
               msgAt[m] = HeldBy("tx", t) /\ z = Pos("tx", t, i)
    BY <2>1, <2>2, StateAtFacts, ToldFacts, HolderBy
  <2>3. CASE \E c \in Conn : \E i \in DOMAIN work[c] :
               msgAt[m] = HeldBy("work", c) /\ z = Pos("work", c, i)
    BY <2>1, <2>3, StateAtFacts, ToldFacts, HolderBy
  <2>4. CASE \E c \in Conn : \E i \in DOMAIN out[c] :
               /\ msgAt[m] = HeldBy("out", c) /\ out[c][i].frame = m
               /\ z = Pos("out", c, i)
    <3>1. PICK c \in Conn : \E i \in DOMAIN out[c] :
            /\ msgAt[m] = HeldBy("out", c) /\ out[c][i].frame = m /\ z = Pos("out", c, i)
      BY <2>4
    <3>2. PICK i \in DOMAIN out[c] :
            /\ msgAt[m] = HeldBy("out", c) /\ out[c][i].frame = m /\ z = Pos("out", c, i)
      BY <3>1
    <3>3. out[c][i] \in Request /\ OnWay(out[c][i])
      BY <1>1 DEF IInv, TypeOK, OnWay
    <3>4. StateOf(m) = OnItsWay(out[c][i])
      BY <2>1, <3>2, StateAtFacts
    <3>5. msgAt[m].by = "out"
      BY <3>2, HolderBy
    <3> QED
      BY <1>1, <3>2, <3>3, <3>4, <3>5, BackIs, ToldFacts
  <2>5. CASE \E i \in DOMAIN reqCh :
               /\ msgAt[m] = At("request") /\ reqCh[i].frame = m
               /\ z = Pos("request", nil, i)
    <3>1. PICK i \in DOMAIN reqCh :
            /\ msgAt[m] = At("request") /\ reqCh[i].frame = m /\ z = Pos("request", nil, i)
      BY <2>5
    <3>2. reqCh[i] \in Request /\ OnWay(reqCh[i])
      BY <1>1 DEF IInv, TypeOK, OnWay
    <3>3. StateOf(m) = OnItsWay(reqCh[i])
      BY <2>1, <3>1, StateAtFacts
    <3>4. msgAt[m].by = "request"
      BY <3>1, HolderBy
    <3> QED
      BY <1>1, <3>1, <3>2, <3>3, <3>4, BackIs, ToldFacts
  <2>6. CASE /\ msgAt[m] = At("store")
             /\ \E q \in Queue : \E i \in DOMAIN store[q] : z = Pos("store", q, i)
    BY <2>1, <2>6, StateAtFacts, ToldFacts, HolderBy
  <2>7. CASE \E s \in Sub : msgAt[m] = HeldBy("sub", s) /\ z = Pos("sub", s, 0)
    BY <2>1, <2>7, StateAtFacts, ToldFacts, WithIs, HolderBy
  <2> QED
    BY <1>1, <2>2, <2>3, <2>4, <2>5, <2>6, <2>7, CopiesAreHeld
<1> QED
  BY <1>3, <1>4

-----------------------------------------------------------------------------
(* Requests on their way *)

\* A handler leaves requests where there were none.
LEMMA OnWayHandled ==
    ASSUME TypeOK, NEW c \in Conn, out[c] = <<>>, NEW rs, out' = [out EXCEPT ![c] = rs],
           UNCHANGED reqCh, NEW r
    PROVE  OnWay(r)' <=> OnWay(r) \/ \E i \in DOMAIN rs : rs[i] = r
<1>1. out'[c] = rs /\ \A d \in Conn : d /= c => out'[d] = out[d]
  BY DEF TypeOK
<1>2. OnWay(r)' <=> \/ \E d \in Conn : \E i \in DOMAIN out'[d] : out'[d][i] = r
                    \/ \E i \in DOMAIN reqCh : reqCh[i] = r
  BY DEF OnWay
<1>3. (\E d \in Conn : \E i \in DOMAIN out'[d] : out'[d][i] = r) <=>
        \/ \E i \in DOMAIN rs : rs[i] = r
        \/ \E d \in Conn : \E i \in DOMAIN out[d] : out[d][i] = r
  BY <1>1
<1> QED
  BY <1>2, <1>3 DEF OnWay

\* The processor takes the request y.
LEMMA OnWayTaken ==
    ASSUME TypeOK, NEW y, Take(y), UNCHANGED out, NEW r
    PROVE  /\ OnWay(r)' => OnWay(r)
           /\ OnWay(r) => OnWay(r)' \/ r = y
           /\ OnWay(y) /\ y \in Request
<1>1. reqCh \in Seq(Request) /\ reqCh /= <<>> /\ y = Head(reqCh) /\ reqCh' = Tail(reqCh)
  BY DEF TypeOK, Take
<1>2. \A i \in DOMAIN reqCh' : \E j \in DOMAIN reqCh : reqCh'[i] = reqCh[j]
  BY <1>1, TailIsOld
<1>3. \A k \in DOMAIN reqCh : reqCh[k] = y \/ \E j \in DOMAIN reqCh' : reqCh'[j] = reqCh[k]
  BY <1>1, TailKeeps
<1>4. 1 \in DOMAIN reqCh /\ y = reqCh[1] /\ y \in Request
  BY <1>1
<1> QED
  BY <1>2, <1>3, <1>4 DEF OnWay

\* A request passes from its connection to the channel.
LEMMA OnWaySent ==
    ASSUME TypeOK, NEW c \in Conn, SendRequest(c), NEW r
    PROVE  OnWay(r)' <=> OnWay(r)
<1>1. PICK y : y = Head(out[c])
  OBVIOUS
<1>2. /\ out[c] /= <<>> /\ reqCh' = Append(reqCh, y) /\ out' = [out EXCEPT ![c] = Tail(@)]
  BY <1>1 DEF SendRequest
<1>3. /\ out[c] \in Seq(Request) /\ reqCh \in Seq(Request)
      /\ out'[c] = Tail(out[c]) /\ \A d \in Conn : d /= c => out'[d] = out[d]
  BY <1>2 DEF TypeOK
<1>4. y \in Request /\ 1 \in DOMAIN out[c] /\ y = out[c][1]
  BY <1>1, <1>2, <1>3
<1>5. /\ \A k \in DOMAIN reqCh : k \in DOMAIN reqCh' /\ reqCh'[k] = reqCh[k]
      /\ Len(reqCh) + 1 \in DOMAIN reqCh' /\ reqCh'[Len(reqCh) + 1] = y
      /\ \A k \in DOMAIN reqCh' : k \in DOMAIN reqCh \/ k = Len(reqCh) + 1
  BY <1>2, <1>3, <1>4
<1>6. \A k \in DOMAIN out[c] :
         out[c][k] = y \/ \E j \in DOMAIN out'[c] : out'[c][j] = out[c][k]
  BY <1>1, <1>2, <1>3, TailKeeps
<1>7. \A k \in DOMAIN out'[c] : \E j \in DOMAIN out[c] : out'[c][k] = out[c][j]
  <2>1. \A k \in DOMAIN Tail(out[c]) : \E j \in DOMAIN out[c] : Tail(out[c])[k] = out[c][j]
    BY <1>2, <1>3, TailIsOld
  <2> QED
    BY <1>3, <2>1
<1>8. ASSUME OnWay(r) PROVE OnWay(r)'
  <2>1. CASE r = y
    BY <1>5, <2>1 DEF OnWay
  <2>2. CASE r /= y
    <3>1. CASE \E i \in DOMAIN reqCh : reqCh[i] = r
      BY <1>5, <3>1 DEF OnWay
    <3>2. ASSUME NEW d \in Conn, \E i \in DOMAIN out[d] : out[d][i] = r
          PROVE  \E i \in DOMAIN out'[d] : out'[d][i] = r
      BY <1>3, <1>6, <2>2, <3>2
    <3> QED
      BY <1>8, <3>1, <3>2 DEF OnWay
  <2> QED
    BY <2>1, <2>2
<1>9. ASSUME OnWay(r)' PROVE OnWay(r)
  <2>1. CASE r = y
    BY <1>4, <2>1 DEF OnWay
  <2>2. ASSUME NEW i \in DOMAIN reqCh', reqCh'[i] = r, r /= y
        PROVE  \E j \in DOMAIN reqCh : reqCh[j] = r
    BY <1>5, <2>2
  <2>3. ASSUME NEW d \in Conn, \E i \in DOMAIN out'[d] : out'[d][i] = r
        PROVE  \E i \in DOMAIN out[d] : out[d][i] = r
    <3>1. CASE d = c
      <4>1. PICK i \in DOMAIN out'[c] : out'[c][i] = r
        BY <2>3, <3>1
      <4> QED
        BY <1>7, <3>1, <4>1
    <3>2. CASE d /= c
      BY <1>3, <2>3, <3>2
    <3> QED
      BY <3>1, <3>2
  <2> QED
    BY <1>9, <2>1, <2>2, <2>3 DEF OnWay
<1> QED
  BY <1>8, <1>9

-----------------------------------------------------------------------------
(* Messages that a step leaves in their state *)

\* No request of frame x comes or goes.
SameRequests(x) == \A r \in Request : r.frame = x => (OnWay(r)' <=> OnWay(r))

LEMMA ToldStays ==
    ASSUME NEW x, SameRequests(x),
           \/ msgAt'[x] = msgAt[x]
           \/ msgAt[x].by = "out" /\ msgAt'[x].by = "request",
           msgAt[x].by = "sub" => (Unacked(msgAt[x].who)' <=> Unacked(msgAt[x].who))
    PROVE  Told(x)' = Told(x)
<1>1. Back(x)' <=> Back(x)
  BY DEF Back, SameRequests
<1>2. CASE msgAt'[x] = msgAt[x]
  <2>1. CASE msgAt[x].by = "sub"
    BY <1>2, <2>1 DEF Told, Unacked
  <2>2. CASE msgAt[x].by /= "sub"
    BY <1>1, <1>2, <2>2 DEF Told
  <2> QED
    BY <2>1, <2>2
<1>3. CASE msgAt[x].by = "out" /\ msgAt'[x].by = "request"
  BY <1>1, <1>3 DEF Told
<1> QED
  BY <1>2, <1>3

\* The requests of the other frames when a handler leaves the requests rs.
LEMMA RequestsHandled ==
    ASSUME TypeOK, NEW c \in Conn, out[c] = <<>>, NEW rs, out' = [out EXCEPT ![c] = rs],
           UNCHANGED reqCh, NEW x, \A i \in DOMAIN rs : rs[i].frame /= x
    PROVE  SameRequests(x)
<1>1. ASSUME NEW r \in Request, r.frame = x PROVE OnWay(r)' <=> OnWay(r)
  <2>1. ~\E i \in DOMAIN rs : rs[i] = r
    BY <1>1
  <2>2. OnWay(r)' <=> OnWay(r) \/ \E i \in DOMAIN rs : rs[i] = r
    BY OnWayHandled
  <2> QED
    BY <2>1, <2>2
<1> QED
  BY <1>1 DEF SameRequests

LEMMA RequestsTaken ==
    ASSUME TypeOK, NEW y, Take(y), UNCHANGED out, NEW x, y.frame /= x
    PROVE  SameRequests(x)
BY OnWayTaken DEF SameRequests

LEMMA RequestsStay ==
    ASSUME UNCHANGED <<out, reqCh>>, NEW x
    PROVE  SameRequests(x)
BY DEF SameRequests, OnWay

-----------------------------------------------------------------------------
(* Steps of the contract, told by the history *)

Mapped == \A m \in QueueMsg : StateOf(m) = Told(m)

\* A step of the contract, or none.
Allowed == Contract!Next \/ UNCHANGED Contract!vars

ReadersOf(q) == {c \in Conn : \E s \in subs[c] : SubDest[s] = q}

SeenStays == \A c \in Conn : seen'[c] \cap QueueMsg = seen[c] \cap QueueMsg

LEMMA AsStutter ==
    ASSUME Mapped, Mapped', \A x \in QueueMsg : Told(x)' = Told(x),
           UNCHANGED store, \A q \in Queue : ReadersOf(q)' = ReadersOf(q), SeenStays
    PROVE  Allowed
<1>1. UNCHANGED [m \in QueueMsg |-> StateOf(m)]
  BY DEF Mapped
<1>2. UNCHANGED [q \in Queue |-> {c \in Conn : \E s \in subs[c] : SubDest[s] = q}]
  BY DEF ReadersOf
<1>3. UNCHANGED [c \in Conn |-> seen[c] \cap QueueMsg]
  BY DEF SeenStays
<1> QED
  BY <1>1, <1>2, <1>3 DEF Allowed, Contract!vars

\* The contract sees the readers of queues and the messages of queues that were seen.
LEMMA SameViews ==
    /\ UNCHANGED subs =>
         UNCHANGED [q \in Queue |-> {c \in Conn : \E s \in subs[c] : SubDest[s] = q}]
    /\ UNCHANGED seen => UNCHANGED [c \in Conn |-> seen[c] \cap QueueMsg]
OBVIOUS

\* The messages of queues but m keep their state.
OthersStay(m) == \A x \in QueueMsg : x /= m => Told(x)' = Told(x)

\* One message changes its state.
LEMMA OneBecomes ==
    ASSUME Mapped, Mapped', NEW m \in QueueMsg, OthersStay(m), NEW v, Told(m)' = v
    PROVE  Contract!Becomes(m, v)
<1>1. [x \in QueueMsg |-> StateOf(x)]' =
        [[x \in QueueMsg |-> StateOf(x)] EXCEPT ![m] = v]
  BY DEF Mapped, OthersStay
<1> QED
  BY <1>1 DEF Contract!Becomes

LEMMA AsSend ==
    ASSUME Mapped, Mapped', NEW m \in QueueMsg, OthersStay(m),
           Told(m) = InState("unsent", nil),
           \/ Told(m)' = InState("coming", nil)
           \/ \E t \in Tx : Told(m)' = InState("held", t),
           UNCHANGED <<store, subs, seen>>
    PROVE  Allowed
<1>1. PICK v : v = Told(m)'
  OBVIOUS
<1> Contract!Becomes(m, v)
  BY <1>1, OneBecomes
<1>2. Contract!Send(m)
  BY <1>1, SameViews DEF Mapped, Contract!Send, Contract!Unsent, Contract!Coming,
     Contract!Held, Contract!Plain, Contract!State, InState
<1> QED
  BY <1>2 DEF Allowed, Contract!Next

LEMMA AsArrive ==
    ASSUME Mapped, Mapped', NEW m \in QueueMsg, OthersStay(m),
           \/ /\ Told(m) = InState("coming", nil)
              /\ store' = [store EXCEPT ![MsgDest[m]] = Append(@, m)]
           \/ /\ Told(m) = InState("returning", nil)
              /\ store' = [store EXCEPT ![MsgDest[m]] = <<m>> \o @],
           Told(m)' = InState("waiting", nil), UNCHANGED <<subs, seen>>
    PROVE  Allowed
<1>1. PICK v : v = Told(m)'
  OBVIOUS
<1> Contract!Becomes(m, v)
  BY <1>1, OneBecomes
<1>2. Contract!Arrive(m)
  BY <1>1, SameViews DEF Mapped, Contract!Arrive, Contract!Coming, Contract!Returning,
     Contract!Waiting, Contract!Plain, Contract!State, InState
<1> QED
  BY <1>2 DEF Allowed, Contract!Next

LEMMA AsGive ==
    ASSUME Mapped, Mapped', NEW m \in QueueMsg, NEW c \in Conn, OthersStay(m),
           \/ /\ Told(m) = InState("waiting", nil)
              /\ m = Head(store[MsgDest[m]])
              /\ store' = [store EXCEPT ![MsgDest[m]] = Tail(@)]
           \/ /\ Told(m) \in {InState("coming", nil), InState("returning", nil)}
              /\ store[MsgDest[m]] = <<>>
              /\ UNCHANGED store,
           Told(m)' = InState("given", c), UNCHANGED <<subs, seen>>
    PROVE  Allowed
<1>1. PICK v : v = Told(m)'
  OBVIOUS
<1> Contract!Becomes(m, v)
  BY <1>1, OneBecomes
<1>2. Contract!Give(m, c)
  BY <1>1, SameViews DEF Mapped, Contract!Give, Contract!Coming, Contract!Returning,
     Contract!Waiting, Contract!Given, Contract!Plain, Contract!State, InState
<1> QED
  BY <1>2 DEF Allowed, Contract!Next

LEMMA AsWrite ==
    ASSUME TypeOK, Mapped, Mapped', NEW m \in QueueMsg, NEW c \in Conn, OthersStay(m),
           Told(m) = InState("given", c), c \in ReadersOf(MsgDest[m]),
           Told(m)' \in {InState("shown", c), InState("finished", nil)},
           seen' = [seen EXCEPT ![c] = @ \cup {m}], UNCHANGED <<store, subs>>
    PROVE  Allowed
<1>1. PICK v : v = Told(m)'
  OBVIOUS
<1> Contract!Becomes(m, v)
  BY <1>1, OneBecomes
<1>2. [d \in Conn |-> seen[d] \cap QueueMsg]' =
        [[d \in Conn |-> seen[d] \cap QueueMsg] EXCEPT ![c] = @ \cup {m}]
  BY DEF TypeOK
<1>3. MsgDest[m] \in Queue
  BY DEF QueueMsg
<1>4. Contract!Write(m, c)
  BY <1>1, <1>2, <1>3, SameViews DEF Mapped, ReadersOf, Contract!Write, Contract!Given,
     Contract!Shown, Contract!Finished, Contract!Plain, Contract!State, InState
<1> QED
  BY <1>4 DEF Allowed, Contract!Next

LEMMA AsSettle ==
    ASSUME Mapped, Mapped', NEW m \in QueueMsg, NEW c \in Conn, OthersStay(m),
           Told(m) = InState("shown", c), Told(m)' = InState("finished", nil),
           UNCHANGED <<store, subs, seen>>
    PROVE  Allowed
<1>1. PICK v : v = Told(m)'
  OBVIOUS
<1> Contract!Becomes(m, v)
  BY <1>1, OneBecomes
<1>2. Contract!Settle(m, c)
  BY <1>1, SameViews DEF Mapped, Contract!Settle, Contract!Shown, Contract!Finished,
     Contract!Plain, Contract!State, InState
<1> QED
  BY <1>2 DEF Allowed, Contract!Next

LEMMA AsReturn ==
    ASSUME Mapped, Mapped', NEW m \in QueueMsg, NEW c \in Conn, OthersStay(m),
           Told(m) \in {InState("given", c), InState("shown", c)},
           Told(m)' = InState("returning", nil), UNCHANGED <<store, subs, seen>>
    PROVE  Allowed
<1>1. PICK v : v = Told(m)'
  OBVIOUS
<1> Contract!Becomes(m, v)
  BY <1>1, OneBecomes
<1>2. Contract!Return(m, c)
  BY <1>1, SameViews DEF Mapped, Contract!Return, Contract!Given, Contract!Shown,
     Contract!Returning, Contract!Plain, Contract!State, InState
<1> QED
  BY <1>2 DEF Allowed, Contract!Next

\* The messages of the transactions U are discarded.
LEMMA AsDiscard ==
    ASSUME Mapped, Mapped', NEW U \in SUBSET Tx,
           \A x \in QueueMsg :
              Told(x)' = IF \E t \in U : Told(x) = InState("held", t)
                         THEN InState("finished", nil) ELSE Told(x),
           UNCHANGED <<store, subs, seen>>
    PROVE  Allowed
<1> DEFINE T == U \cap Contract!OpenTransactions
<1>1. ASSUME NEW x \in QueueMsg
      PROVE  (\E t \in U : Told(x) = InState("held", t)) <=>
             \E t \in T : StateOf(x) = Contract!Held(t)
  BY DEF Mapped, Contract!OpenTransactions, Contract!Held, Contract!State, InState
<1>2. [x \in QueueMsg |-> StateOf(x)]' =
        [x \in QueueMsg |-> IF \E t \in T : StateOf(x) = Contract!Held(t)
                            THEN InState("finished", nil) ELSE StateOf(x)]
  BY <1>1 DEF Mapped
<1> HIDE DEF T
<1>3. Contract!Discard(T)
  BY <1>2, SameViews DEF Contract!Discard, Contract!Finished, Contract!Plain,
     Contract!State, InState
<1>4. T \in SUBSET Contract!OpenTransactions
  BY DEF T
<1> QED
  BY <1>3, <1>4 DEF Allowed, Contract!Next

\* The messages of transaction t come to their queues.
LEMMA AsCommit ==
    ASSUME Mapped, Mapped', NEW t \in Tx,
           \A x \in QueueMsg :
              Told(x)' = IF Told(x) = InState("held", t)
                         THEN InState("coming", nil) ELSE Told(x),
           UNCHANGED <<store, subs, seen>>
    PROVE  Allowed
<1>1. [x \in QueueMsg |-> StateOf(x)]' =
        [x \in QueueMsg |-> IF StateOf(x) = Contract!Held(t)
                            THEN InState("coming", nil) ELSE StateOf(x)]
  BY DEF Mapped, Contract!Held, Contract!State, InState
<1>2. Contract!Commit(t)
  BY <1>1, SameViews DEF Contract!Commit, Contract!Coming, Contract!Plain,
     Contract!State, InState
<1>3. CASE t \in Contract!OpenTransactions
  BY <1>2, <1>3 DEF Allowed, Contract!Next
<1>4. CASE t \notin Contract!OpenTransactions
  <2>1. \A x \in QueueMsg : Told(x) /= InState("held", t)
    BY <1>4 DEF Mapped, Contract!OpenTransactions, Contract!Held, Contract!State, InState
  <2> QED
    BY <2>1, AsStutter DEF ReadersOf, SeenStays
<1> QED
  BY <1>3, <1>4

\* Client c begins or ends to read queue q; it may read it already, or still.
LEMMA AsSubscription ==
    ASSUME Mapped, Mapped', NEW c \in Conn, NEW q \in Queue,
           \A x \in QueueMsg : Told(x)' = Told(x), UNCHANGED <<store, seen>>,
           ReadersOf(q)' \in {ReadersOf(q) \cup {c}, ReadersOf(q) \ {c}},
           \A p \in Queue : p /= q => ReadersOf(p)' = ReadersOf(p)
    PROVE  Allowed
<1>1. UNCHANGED [m \in QueueMsg |-> StateOf(m)]
  BY DEF Mapped
<1>2. [p \in Queue |-> {d \in Conn : \E s \in subs[d] : SubDest[s] = p}]
        = [p \in Queue |-> ReadersOf(p)]
  BY DEF ReadersOf
<1>3. [p \in Queue |-> {d \in Conn : \E s \in subs[d] : SubDest[s] = p}]'
        = [p \in Queue |-> ReadersOf(p)']
  BY DEF ReadersOf
<1>4. CASE ReadersOf(q)' = ReadersOf(q) \cup {c}
  <2>1. [p \in Queue |-> ReadersOf(p)'] =
          [[p \in Queue |-> ReadersOf(p)] EXCEPT ![q] = @ \cup {c}]
    BY <1>4
  <2>2. Contract!Subscribe(c, q)
    BY <1>1, <1>2, <1>3, <2>1, SameViews DEF Contract!Subscribe
  <2> QED
    BY <2>2 DEF Allowed, Contract!Next
<1>5. CASE ReadersOf(q)' = ReadersOf(q) \ {c}
  <2>1. [p \in Queue |-> ReadersOf(p)'] =
          [[p \in Queue |-> ReadersOf(p)] EXCEPT ![q] = @ \ {c}]
    BY <1>5
  <2>2. Contract!Unsubscribe(c, q)
    BY <1>1, <1>2, <1>3, <2>1, SameViews DEF Contract!Unsubscribe
  <2> QED
    BY <2>2 DEF Allowed, Contract!Next
<1> QED
  BY <1>4, <1>5

\* The frames of queues stay in their state.
LEMMA AsQuiet ==
    ASSUME Mapped, Mapped', OthersStay(nil), UNCHANGED <<store, subs, seen>>
    PROVE  Allowed
<1>1. \A x \in QueueMsg : Told(x)' = Told(x)
  BY PoolAssumption DEF OthersStay, QueueMsg
<1> QED
  BY <1>1, AsStutter DEF ReadersOf, SeenStays

\* When at most frame m and object s change hands, the other frames stay in their
\* state: s bears no other frame than m.
LEMMA OthersTold ==
    ASSUME SInv, NEW m, NEW s, s \in Sub => frame[s] \in {m, nil},
           \A x \in QueueMsg : x /= m => SameRequests(x) /\ msgAt'[x] = msgAt[x],
           \A r \in Sub : r /= s => subAt'[r] = subAt[r]
    PROVE  OthersStay(m)
<1>1. ASSUME NEW x \in QueueMsg, x /= m PROVE Told(x)' = Told(x)
  <2>1. x \in Msg /\ MsgHeld(x) /\ x /= nil
    BY PoolAssumption DEF SInv, HeldInv, QueueMsg, Dest
  <2>2. ASSUME msgAt[x].by = "sub"
        PROVE  Unacked(msgAt[x].who)' <=> Unacked(msgAt[x].who)
    <3>1. msgAt[x].who \in Sub /\ frame[msgAt[x].who] = x
      BY <2>1, <2>2 DEF MsgHeld
    <3>2. msgAt[x].who /= s /\ msgAt'[x] = msgAt[x]
      BY <1>1, <2>1, <3>1
    <3> QED
      BY <3>1, <3>2 DEF Unacked
  <2> QED
    BY <1>1, <2>2, ToldStays
<1> QED
  BY <1>1 DEF OthersStay

-----------------------------------------------------------------------------
(* The request processor *)

\* Queue.Subscribe with a stored frame.
LEMMA SubscribeServedAllowed ==
    ASSUME SInv, Mapped, Mapped', NEW q \in Queue, NEW s \in Sub, NEW m \in Msg,
           SubscribeServed(q, s, m)
    PROVE  Allowed
<1>1. PICK y : y = SubRequest("Subscribe", s)
  OBVIOUS
<1>2. TypeOK /\ IInv
  BY DEF SInv, IInv
<1>3. /\ Take(y) /\ SubDest[s] = q /\ m = Dequeue(q)
      /\ store' = [store EXCEPT ![q] = Tail(@)]
      /\ subAt' = [subAt EXCEPT ![s] = "sending"]
      /\ msgAt' = [msgAt EXCEPT ![m] = HeldBy("sub", s)]
      /\ UNCHANGED <<out, subs, seen>>
  BY <1>1 DEF SubscribeServed, SendQueueFrame, AfterDequeue, connVars
<1>4. y.op = "Subscribe" /\ y.sub = s /\ y.frame = nil
  BY <1>1 DEF SubRequest
<1>5. store[q] \in Seq(Msg) /\ store[q] /= <<>> /\ m = Head(store[q])
  BY <1>2, <1>3, PoolAssumption DEF Dequeue, TypeOK
<1>6. msgAt[m] = At("store") /\ MsgDest[m] = q
  <2>1. store \in [Queue -> Seq(Msg)] /\ Lists(store, Queue, msgAt, At("store"), MsgDest)
    BY <1>2 DEF IInv, TypeOK, MsgInv, MsgInStore
  <2> QED
    BY <1>5, <2>1, ListsHead
<1>7. m \in QueueMsg /\ Told(m) = InState("waiting", nil)
  BY <1>6, ToldFacts, HolderBy DEF QueueMsg
<1>8. frame[s] = nil
  <2>1. subAt[s] = "request"
    BY <1>2, <1>3, <1>4, HeadFacts DEF IInv, SubInv, MsgInv
  <2> QED
    BY <1>2, <2>1 DEF IInv, SubInv, FrameInv, FrameOf, Loaded
<1>9. OthersStay(m)
  <2>1. \A x \in QueueMsg : x /= m => SameRequests(x) /\ msgAt'[x] = msgAt[x]
    BY <1>2, <1>3, <1>4, RequestsTaken, PoolAssumption DEF TypeOK, QueueMsg
  <2> QED
    BY <1>2, <1>3, <1>8, <2>1, OthersTold DEF TypeOK
<1>10. Told(m)' = InState("given", SubConn[s])
  <2>1. msgAt'[m] = HeldBy("sub", s) /\ subAt'[s] = "sending"
    BY <1>2, <1>3 DEF TypeOK
  <2> QED
    BY <2>1, HolderBy DEF Told, Unacked
<1>11. SubConn[s] \in Conn
  BY PoolAssumption
<1> QED
  BY <1>3, <1>5, <1>6, <1>7, <1>9, <1>10, <1>11, AsGive

\* What the request at the head of requestChannel says of its frame.
LEMMA HeadTold ==
    ASSUME IInv, NEW op \in {"Enqueue", "Requeue"}, NEW m \in Msg,
           Take(FrameRequest(op, m)), UNCHANGED out
    PROVE  /\ op = "Enqueue" => Told(m) = InState("coming", nil)
           /\ op = "Requeue" => Told(m) = InState("returning", nil)
           /\ \A x : x /= m => SameRequests(x)
<1>1. PICK y : y = FrameRequest(op, m)
  OBVIOUS
<1>2. TypeOK /\ Take(y) /\ y.op = op /\ y.frame = m /\ m /= nil
  BY <1>1, PoolAssumption DEF IInv, FrameRequest
<1>3. OnWay(y) /\ y \in Request
  BY <1>2, OnWayTaken
<1>4. msgAt[m].by = "request"
  BY <1>2, HeadFacts, HolderBy DEF IInv, SubInv, MsgInv
<1>5. Back(m) <=> op = "Requeue"
  BY <1>2, <1>3, BackIs
<1>6. \A x : x /= m => SameRequests(x)
  BY <1>2, RequestsTaken
<1> QED
  BY <1>4, <1>5, <1>6, ToldFacts

\* Queue.Enqueue and Requeue with a ready subscription.
LEMMA GiveToReadyAllowed ==
    ASSUME SInv, Mapped, Mapped', NEW op \in {"Enqueue", "Requeue"}, NEW q \in Queue,
           NEW s \in Sub, NEW m \in Msg, GiveToReady(op, q, s, m)
    PROVE  Allowed
<1>1. TypeOK /\ IInv
  BY DEF SInv, IInv
<1>2. /\ Take(FrameRequest(op, m)) /\ MsgDest[m] = q
      /\ qsubs[q] /= <<>> /\ s = Head(qsubs[q])
      /\ subAt' = [subAt EXCEPT ![s] = "sending"]
      /\ msgAt' = [msgAt EXCEPT ![m] = HeldBy("sub", s)]
      /\ UNCHANGED <<store, out, subs, seen>>
  BY DEF GiveToReady, SendQueueFrame, connVars
<1>3. store[q] = <<>>
  BY <1>1, <1>2 DEF IInv, WorkConserving
<1>4. /\ m \in QueueMsg
      /\ Told(m) \in {InState("coming", nil), InState("returning", nil)}
      /\ \A x : x /= m => SameRequests(x)
  BY <1>1, <1>2, HeadTold DEF QueueMsg
<1>5. frame[s] = nil
  <2>1. qsubs \in [Queue -> Seq(Sub)] /\ Lists(qsubs, Queue, subAt, "ready", SubDest)
    BY <1>1 DEF IInv, TypeOK, SubInv, SubInReady
  <2>2. subAt[s] = "ready"
    BY <1>2, <2>1, ListsHead
  <2> QED
    BY <1>1, <2>2 DEF IInv, SubInv, FrameInv, FrameOf, Loaded
<1>6. OthersStay(m)
  <2>1. \A x \in QueueMsg : x /= m => msgAt'[x] = msgAt[x]
    BY <1>1, <1>2 DEF TypeOK, QueueMsg
  <2> QED
    BY <1>1, <1>2, <1>4, <1>5, <2>1, OthersTold DEF TypeOK
<1>7. Told(m)' = InState("given", SubConn[s])
  <2>1. msgAt'[m] = HeldBy("sub", s) /\ subAt'[s] = "sending"
    BY <1>1, <1>2 DEF TypeOK
  <2> QED
    BY <2>1, HolderBy DEF Told, Unacked
<1>8. SubConn[s] \in Conn
  BY PoolAssumption
<1> QED
  BY <1>2, <1>3, <1>4, <1>6, <1>7, <1>8, AsGive

\* Queue.Enqueue and Requeue without one.
LEMMA KeepAllowed ==
    ASSUME SInv, Mapped, Mapped', NEW op \in {"Enqueue", "Requeue"}, NEW q \in Queue,
           NEW m \in Msg, NEW l, Keep(op, q, m, l),
           \/ op = "Enqueue" /\ l = PushBack(store[q], m)
           \/ op = "Requeue" /\ l = PushFront(store[q], m)
    PROVE  Allowed
<1>1. TypeOK /\ IInv
  BY DEF SInv, IInv
<1>2. /\ Take(FrameRequest(op, m)) /\ MsgDest[m] = q
      /\ store' = [store EXCEPT ![q] = l]
      /\ msgAt' = [msgAt EXCEPT ![m] = At("store")]
      /\ UNCHANGED <<subAt, out, subs, seen>>
  BY DEF Keep, connVars
<1>3. /\ m \in QueueMsg /\ \A x : x /= m => SameRequests(x)
      /\ op = "Enqueue" => Told(m) = InState("coming", nil)
      /\ op = "Requeue" => Told(m) = InState("returning", nil)
  BY <1>1, <1>2, HeadTold DEF QueueMsg
<1>4. OthersStay(m)
  <2>1. \A x \in QueueMsg : x /= m => msgAt'[x] = msgAt[x]
    BY <1>1, <1>2 DEF TypeOK, QueueMsg
  <2> QED
    BY <1>2, <1>3, <2>1, OthersTold, PoolAssumption
<1>5. Told(m)' = InState("waiting", nil)
  <2>1. msgAt'[m] = At("store")
    BY <1>1, <1>2 DEF TypeOK
  <2> QED
    BY <2>1, HolderBy DEF Told
<1>6. \/ /\ Told(m) = InState("coming", nil)
         /\ store' = [store EXCEPT ![MsgDest[m]] = Append(@, m)]
      \/ /\ Told(m) = InState("returning", nil)
         /\ store' = [store EXCEPT ![MsgDest[m]] = <<m>> \o @]
  BY <1>1, <1>2, <1>3 DEF PushBack, PushFront
<1> QED
  BY <1>2, <1>3, <1>4, <1>5, <1>6, AsArrive

\* The other requests move no frame of a queue.
LEMMA OtherRequestsAllowed ==
    ASSUME SInv, Mapped, Mapped', NEW y, Take(y), NEW s,
           y.frame \notin QueueMsg, s \in Sub => frame[s] = nil,
           \A x \in QueueMsg : msgAt'[x] = msgAt[x],
           \A r \in Sub : r /= s => subAt'[r] = subAt[r],
           UNCHANGED <<out, store, subs, seen>>
    PROVE  Allowed
<1>1. TypeOK
  BY DEF SInv, IInv
<1>2. \A x \in QueueMsg : SameRequests(x)
  BY <1>1, RequestsTaken
<1>3. OthersStay(nil)
  BY <1>2, OthersTold
<1> QED
  BY <1>3, AsQuiet

\* A step that hands over no frame and acknowledges nothing.
LEMMA Unmoved ==
    ASSUME SInv, UNCHANGED <<out, reqCh, msgAt>>,
           \A r \in Sub : Unacked(r)' <=> Unacked(r)
    PROVE  OthersStay(nil)
<1>1. ASSUME NEW x \in QueueMsg PROVE Told(x)' = Told(x)
  <2>1. MsgHeld(x)
    BY PoolAssumption DEF SInv, HeldInv, QueueMsg, Dest
  <2>2. msgAt[x].by = "sub" => msgAt[x].who \in Sub
    BY <2>1 DEF MsgHeld
  <2>3. SameRequests(x)
    BY RequestsStay
  <2> QED
    BY <2>2, <2>3, ToldStays
<1> QED
  BY <1>1 DEF OthersStay

LEMMA ServeAllowed ==
    ASSUME SInv, Mapped, Mapped', Serve
    PROVE  Allowed
<1>1. TypeOK /\ IInv /\ nil \notin Sub /\ nil \notin QueueMsg
  BY PoolAssumption DEF SInv, IInv, QueueMsg
<1>2. \A s \in Sub : subAt[s] \in {"request", "ready", "topic"} => frame[s] = nil
  BY <1>1 DEF IInv, SubInv, FrameInv, FrameOf, Loaded
<1>3. ASSUME NEW q \in Queue, NEW s \in Sub, NEW m \in Msg, SubscribeServed(q, s, m)
      PROVE  Allowed
  BY <1>3, SubscribeServedAllowed
<1>4. ASSUME NEW s \in Sub,
             \/ \E q \in Queue : SubscribeWaits(q, s)
             \/ \E d \in Topic : TopicSubscribe(d, s)
      PROVE  Allowed
  <2>1. PICK y : y = SubRequest("Subscribe", s)
    OBVIOUS
  <2>2. Take(y) /\ UNCHANGED <<out, store, subs, seen, msgAt>>
    BY <1>4, <2>1 DEF SubscribeWaits, TopicSubscribe, connVars
  <2>3. y.op = "Subscribe" /\ y.sub = s /\ y.frame = nil
    BY <2>1 DEF SubRequest
  <2>4. frame[s] = nil
    BY <1>1, <1>2, <2>2, <2>3, HeadFacts DEF IInv, SubInv, MsgInv
  <2>5. \A r \in Sub : r /= s => subAt'[r] = subAt[r]
    BY <1>1, <1>4 DEF SubscribeWaits, TopicSubscribe, TypeOK
  <2> QED
    BY <1>1, <2>2, <2>3, <2>4, <2>5, OtherRequestsAllowed
<1>5. ASSUME NEW q \in Queue, NEW s \in Sub, NEW i \in DOMAIN qsubs[q],
             QueueUnsubscribe(q, s, i)
      PROVE  Allowed
  <2>1. PICK y : y = SubRequest("Unsubscribe", s)
    OBVIOUS
  <2>2. /\ Take(y) /\ qsubs[q][i] = s /\ subAt' = [subAt EXCEPT ![s] = "gone"]
        /\ UNCHANGED <<out, store, subs, seen, msgAt>>
    BY <1>5, <2>1 DEF QueueUnsubscribe, FirstAt, connVars
  <2>3. y.frame = nil
    BY <2>1 DEF SubRequest
  <2>4. frame[s] = nil
    BY <1>1, <1>2, <2>2 DEF IInv, SubInv, SubInReady, Lists
  <2>5. \A r \in Sub : r /= s => subAt'[r] = subAt[r]
    BY <1>1, <2>2 DEF TypeOK
  <2> QED
    BY <1>1, <2>2, <2>3, <2>4, <2>5, OtherRequestsAllowed
<1>6. ASSUME NEW d \in Topic, NEW s \in Sub, NEW i \in DOMAIN tsubs[d],
             TopicUnsubscribe(d, s, i)
      PROVE  Allowed
  <2>1. PICK y : y = SubRequest("Unsubscribe", s)
    OBVIOUS
  <2>2. /\ Take(y) /\ tsubs[d][i] = s /\ subAt' = [subAt EXCEPT ![s] = "gone"]
        /\ UNCHANGED <<out, store, subs, seen, msgAt>>
    BY <1>6, <2>1 DEF TopicUnsubscribe, FirstAt, connVars
  <2>3. y.frame = nil
    BY <2>1 DEF SubRequest
  <2>4. frame[s] = nil
    BY <1>1, <1>2, <2>2 DEF IInv, SubInv, SubInTopic, Lists
  <2>5. \A r \in Sub : r /= s => subAt'[r] = subAt[r]
    BY <1>1, <2>2 DEF TypeOK
  <2> QED
    BY <1>1, <2>2, <2>3, <2>4, <2>5, OtherRequestsAllowed
<1>7. ASSUME NEW q \in Queue, NEW m \in Msg, QueueEnqueue(q, m) \/ QueueRequeue(q, m)
      PROVE  Allowed
  BY <1>7, GiveToReadyAllowed, KeepAllowed DEF QueueEnqueue, QueueRequeue
<1>8. ASSUME NEW m \in Msg,
             (\E d \in Topic : TopicEnqueue(d, m)) \/ MissingDestination(m)
      PROVE  Allowed
  <2>1. PICK y : y = FrameRequest("Enqueue", m)
    OBVIOUS
  <2>2. /\ Take(y) /\ MsgDest[m] \in Topic \cup {nil}
        /\ UNCHANGED <<out, store, subs, seen, subAt>>
    BY <1>8, <2>1 DEF TopicEnqueue, MissingDestination, connVars, procVars, objVars
  <2>3. y.frame = m
    BY <2>1 DEF FrameRequest
  <2>4. m \notin QueueMsg
    BY <2>2, PoolAssumption DEF QueueMsg, Dest
  <2>5. \A x \in QueueMsg : msgAt'[x] = msgAt[x]
    BY <1>1, <1>8, <2>4 DEF TopicEnqueue, MissingDestination, TypeOK, QueueMsg, objVars
  <2> QED
    BY <1>1, <2>2, <2>3, <2>4, <2>5, OtherRequestsAllowed
<1>9. ASSUME NEW s \in Sub, UnsubscribeAbsent(s)
      PROVE  Allowed
  <2>1. PICK y : y = SubRequest("Unsubscribe", s)
    OBVIOUS
  <2>2. Take(y) /\ UNCHANGED <<out, store, subs, seen, msgAt, subAt>>
    BY <1>9, <2>1 DEF UnsubscribeAbsent, connVars, procVars, objVars
  <2>3. y.frame = nil
    BY <2>1 DEF SubRequest
  <2> QED
    BY <1>1, <2>2, <2>3, OtherRequestsAllowed
<1>10. ASSUME IgnoreRequest PROVE Allowed
  <2>1. PICK y : y = Head(reqCh)
    OBVIOUS
  <2>2. /\ Take(y) /\ UNCHANGED <<out, store, subs, seen, msgAt, subAt>>
        /\ \/ y.op \in {"Connected", "Disconnected"}
           \/ y.op = "Requeue" /\ MsgDest[y.frame] \in Topic
    BY <1>10, <2>1 DEF IgnoreRequest, connVars, procVars, objVars
  <2>3. WellFormed(y)
    BY <1>1, <2>2, HeadFacts DEF IInv, SubInv, MsgInv
  <2>4. y.frame \notin QueueMsg
    BY <1>1, <2>2, <2>3, PoolAssumption DEF WellFormed, QueueMsg
  <2> QED
    BY <1>1, <2>2, <2>4, OtherRequestsAllowed
<1>11. ASSUME NEW c \in Conn, NEW s \in Sub,
              SendOnSubChannel(c, s) \/ SendOnWriteChannel(c, s)
       PROVE  Allowed
  <2>1. UNCHANGED <<out, reqCh, msgAt, store, subs, seen>>
    BY <1>11 DEF SendOnSubChannel, SendOnWriteChannel, connVars, objVars
  <2>2. \A r \in Sub : Unacked(r)' <=> Unacked(r)
    <3>1. CASE SendOnSubChannel(c, s)
      <4>1. /\ procOut /= <<>> /\ s = Head(procOut).sub /\ SubDest[s] \in Queue
            /\ subAt' = [subAt EXCEPT ![s] = "subCh"]
        BY <3>1 DEF SendOnSubChannel, NextDelivery
      <4>2. procOut \in Seq(Delivery)
        BY <1>1 DEF TypeOK
      <4>3. 1 \in DOMAIN procOut /\ s = procOut[1].sub
        BY <4>1, <4>2
      <4>4. subAt[s] = "sending"
        BY <1>1, <4>1, <4>3 DEF IInv, SubInv, SubInProc
      <4> QED
        BY <1>1, <4>1, <4>4 DEF Unacked, TypeOK
    <3>2. CASE SendOnWriteChannel(c, s)
      BY <3>2 DEF SendOnWriteChannel, objVars, Unacked
    <3> QED
      BY <1>11, <3>1, <3>2
  <2>3. OthersStay(nil)
    BY <2>1, <2>2, Unmoved
  <2> QED
    BY <2>1, <2>3, AsQuiet
<1> QED
  BY <1>3, <1>4, <1>5, <1>6, <1>7, <1>8, <1>9, <1>10, <1>11 DEF Serve, QueueSubscribe

-----------------------------------------------------------------------------
(* The connections *)

\* A handler leaves requests about frame m only, or about none.
LEMMA HandledOthers ==
    ASSUME IInv, NEW c \in Conn, out[c] = <<>>, NEW rs, out' = [out EXCEPT ![c] = rs],
           UNCHANGED reqCh, NEW m, \A i \in DOMAIN rs : rs[i].frame \in {m, nil}
    PROVE  \A x \in QueueMsg : x /= m => SameRequests(x)
<1>1. TypeOK
  BY DEF IInv
<1>2. \A x \in QueueMsg : x /= nil
  BY PoolAssumption DEF QueueMsg
<1> QED
  BY <1>1, <1>2, RequestsHandled

\* A frame is in no request unless its history says so.
LEMMA NoRequest ==
    ASSUME IInv, NEW m \in Msg, msgAt[m].by \notin {"out", "request"}
    PROVE  \A r \in Request : r.frame = m => ~OnWay(r)
BY OneRequest

\* Whether a frame that was in no request goes back to its queue.
LEMMA FreshRequest ==
    ASSUME TypeOK, NEW c \in Conn, out[c] = <<>>, NEW rs, out' = [out EXCEPT ![c] = rs],
           UNCHANGED reqCh, NEW m \in Msg, \A r \in Request : r.frame = m => ~OnWay(r)
    PROVE  /\ (\E i \in DOMAIN rs : rs[i] = FrameRequest("Requeue", m)) => Back(m)'
           /\ (\A i \in DOMAIN rs : rs[i].op /= "Requeue") => ~Back(m)'
<1>1. ASSUME \E i \in DOMAIN rs : rs[i] = FrameRequest("Requeue", m)
      PROVE  Back(m)'
  <2>1. PICK r : r = FrameRequest("Requeue", m)
    OBVIOUS
  <2>2. r \in Request /\ r.frame = m /\ r.op = "Requeue"
    BY <2>1, RequestFacts DEF FrameRequest
  <2>3. \E i \in DOMAIN rs : rs[i] = r
    BY <1>1, <2>1
  <2>4. OnWay(r)' <=> OnWay(r) \/ \E i \in DOMAIN rs : rs[i] = r
    BY OnWayHandled
  <2> QED
    BY <2>2, <2>3, <2>4 DEF Back
<1>2. ASSUME \A i \in DOMAIN rs : rs[i].op /= "Requeue", Back(m)'
      PROVE  FALSE
  <2>1. PICK r \in Request : OnWay(r)' /\ r.frame = m /\ r.op = "Requeue"
    BY <1>2 DEF Back
  <2>2. OnWay(r)' <=> OnWay(r) \/ \E i \in DOMAIN rs : rs[i] = r
    BY OnWayHandled
  <2> QED
    BY <1>2, <2>1, <2>2
<1> QED
  BY <1>1, <1>2

\* The steps that leave frames, requests and subscriptions alone.
LEMMA QuietAllowed ==
    ASSUME SInv, Mapped, Mapped', UNCHANGED <<out, reqCh, msgAt, subAt, store, subs, seen>>
    PROVE  Allowed
<1>1. OthersStay(nil)
  BY Unmoved DEF Unacked
<1> QED
  BY <1>1, AsQuiet

\* ConnectedOp and DisconnectedOp.
LEMMA AnnounceAllowed ==
    ASSUME SInv, Mapped, Mapped', NEW c \in Conn, NEW r, r.frame = nil, out[c] = <<>>,
           out' = [out EXCEPT ![c] = <<r>>],
           UNCHANGED <<reqCh, msgAt, subAt, store, subs, seen>>
    PROVE  Allowed
<1>1. IInv /\ nil \notin Sub
  BY PoolAssumption DEF SInv
<1>2. \A x \in QueueMsg : x /= nil => SameRequests(x)
  <2>1. PICK rs : rs = <<r>>
    OBVIOUS
  <2>2. \A i \in DOMAIN rs : rs[i].frame \in {nil, nil}
    BY <2>1
  <2> QED
    BY <1>1, <2>1, <2>2, HandledOthers
<1>3. OthersStay(nil)
  BY <1>1, <1>2, OthersTold
<1> QED
  BY <1>3, AsQuiet

\* handleSubscribe, handleUnsubscribe and the unsubscribing of the cleanup.
LEMMA SubscriptionAllowed ==
    ASSUME SInv, Mapped, Mapped', NEW c \in Conn, NEW s \in Sub, out[c] = <<>>,
           NEW r, r.frame = nil, out' = [out EXCEPT ![c] = <<r>>],
           \/ subs' = [subs EXCEPT ![c] = @ \cup {s}] /\ frame[s] = nil
           \/ subs' = [subs EXCEPT ![c] = @ \ {s}] /\ UNCHANGED subAt,
           \A x \in Sub : x /= s => subAt'[x] = subAt[x],
           UNCHANGED <<reqCh, msgAt, store, seen>>
    PROVE  Allowed
<1>1. TypeOK /\ IInv /\ nil \notin Sub
  BY PoolAssumption DEF SInv, IInv
<1>2. \A x \in QueueMsg : x /= nil => SameRequests(x)
  <2>1. PICK rs : rs = <<r>>
    OBVIOUS
  <2>2. \A i \in DOMAIN rs : rs[i].frame \in {nil, nil}
    BY <2>1
  <2> QED
    BY <1>1, <2>1, <2>2, HandledOthers
<1>3. OthersStay(nil)
  <2>1. CASE frame[s] = nil
    BY <1>2, <2>1, OthersTold
  <2>2. CASE UNCHANGED subAt
    BY <1>1, <1>2, <2>2, OthersTold
  <2> QED
    BY <2>1, <2>2
<1>4. \A x \in QueueMsg : Told(x)' = Told(x)
  BY <1>3, PoolAssumption DEF OthersStay, QueueMsg
<1>5. \A p \in Queue : p /= SubDest[s] => ReadersOf(p)' = ReadersOf(p)
  <2>1. ASSUME NEW d \in Conn, NEW x, x /= s PROVE x \in subs'[d] <=> x \in subs[d]
    <3>1. \/ subs'[c] = subs[c] \cup {s}
          \/ subs'[c] = subs[c] \ {s}
      BY <1>1 DEF TypeOK
    <3>2. d /= c => subs'[d] = subs[d]
      BY <1>1 DEF TypeOK
    <3> QED
      BY <2>1, <3>1, <3>2
  <2>2. ASSUME NEW p \in Queue, p /= SubDest[s], NEW d \in Conn
        PROVE  (\E x \in subs'[d] : SubDest[x] = p) <=> (\E x \in subs[d] : SubDest[x] = p)
    BY <2>1, <2>2
  <2> QED
    BY <2>2 DEF ReadersOf
<1>6. SeenStays
  BY DEF SeenStays
<1>7. CASE \A p \in Queue : ReadersOf(p)' = ReadersOf(p)
  BY <1>4, <1>6, <1>7, AsStutter
<1>8. CASE SubDest[s] \in Queue /\ ReadersOf(SubDest[s])' /= ReadersOf(SubDest[s])
  <2>1. PICK q \in Queue : q = SubDest[s]
    BY <1>8
  <2>2. CASE subs' = [subs EXCEPT ![c] = @ \cup {s}]
    <3>1. ReadersOf(q)' = ReadersOf(q) \cup {c}
      BY <1>1, <2>1, <2>2 DEF ReadersOf, TypeOK
    <3> QED
      BY <1>4, <1>5, <2>1, <3>1, AsSubscription
  <2>3. CASE subs' = [subs EXCEPT ![c] = @ \ {s}]
    <3>1. /\ subs'[c] = subs[c] \ {s}
          /\ \A d \in Conn : d /= c => subs'[d] = subs[d]
      BY <1>1, <2>3 DEF TypeOK
    <3>2. ReadersOf(q)' = ReadersOf(q) \/ ReadersOf(q)' = ReadersOf(q) \ {c}
      <4>1. CASE \E x \in subs'[c] : SubDest[x] = q
        BY <3>1, <4>1 DEF ReadersOf
      <4>2. CASE ~\E x \in subs'[c] : SubDest[x] = q
        BY <3>1, <4>2 DEF ReadersOf
      <4> QED
        BY <4>1, <4>2
    <3>3. ReadersOf(q)' = ReadersOf(q) \ {c}
      BY <1>8, <2>1, <3>2
    <3> QED
      BY <1>4, <1>5, <2>1, <3>3, AsSubscription
  <2> QED
    BY <2>2, <2>3
<1> QED
  BY <1>5, <1>7, <1>8

\* The next request of a handler passes to requestChannel, with its frame.
LEMMA SendRequestAllowed ==
    ASSUME SInv, Mapped, Mapped', NEW c \in Conn, SendRequest(c)
    PROVE  Allowed
<1>1. TypeOK /\ IInv
  BY DEF SInv, IInv
<1>2. PICK r : r = Head(out[c])
  OBVIOUS
<1>3. /\ out[c] /= <<>>
      /\ subAt' = [s \in Sub |-> IF r.op = "Subscribe" /\ r.sub = s
                                  THEN "request" ELSE subAt[s]]
      /\ msgAt' = [m \in Msg |-> IF r.frame = m THEN At("request") ELSE msgAt[m]]
      /\ UNCHANGED <<store, subs, seen>>
  BY <1>2 DEF SendRequest, Elsewhere, procVars
<1>4. r = out[c][1] /\ 1 \in DOMAIN out[c]
  <2>1. out[c] \in Seq(Request)
    BY <1>1 DEF TypeOK
  <2> QED
    BY <1>2, <1>3, <2>1
<1>5. ASSUME NEW x \in QueueMsg PROVE Told(x)' = Told(x)
  <2>1. x \in Msg /\ x /= nil /\ MsgHeld(x)
    BY PoolAssumption DEF SInv, HeldInv, QueueMsg, Dest
  <2>2. SameRequests(x)
    BY <1>1, OnWaySent DEF SameRequests
  <2>3. r.frame = x => msgAt[x].by = "out" /\ msgAt'[x].by = "request"
    BY <1>1, <1>3, <1>4, <2>1, HolderBy DEF IInv, MsgInv, MsgInOut
  <2>4. r.frame /= x => msgAt'[x] = msgAt[x]
    BY <1>3, <2>1
  <2>5. \A s \in Sub : Unacked(s)' <=> Unacked(s)
    BY <1>1, <1>3, <1>4 DEF Unacked, IInv, SubInv, SubInOut
  <2>6. msgAt[x].by = "sub" => msgAt[x].who \in Sub
    BY <2>1 DEF MsgHeld
  <2> QED
    BY <2>2, <2>3, <2>4, <2>5, <2>6, ToldStays
<1> QED
  BY <1>3, <1>5, AsQuiet DEF OthersStay

\* SEND, outside a transaction or in one.
LEMMA HandleSendAllowed ==
    ASSUME SInv, Mapped, Mapped', NEW c \in Conn, NEW m \in Msg,
           HandleSend(c, m) \/ \E d \in Tx : HandleSendInTx(c, m, d)
    PROVE  Allowed
<1>1. TypeOK /\ IInv /\ nil \notin Sub /\ nil \notin QueueMsg
  BY PoolAssumption DEF SInv, IInv, QueueMsg
<1>2. /\ out[c] = <<>> /\ msgAt[m] = At("client")
      /\ UNCHANGED <<reqCh, subAt, store, subs, seen>>
  BY DEF HandleSend, HandleSendInTx, NextSend, Selecting, Ready, Elsewhere, Channels, procVars
<1>3. Told(m) = InState("unsent", nil)
  BY <1>2, ToldFacts
<1>4. \A x \in QueueMsg : x /= m => msgAt'[x] = msgAt[x]
  BY <1>1 DEF HandleSend, HandleSendInTx, TypeOK, QueueMsg
<1>5. \A x \in QueueMsg : x /= m => SameRequests(x)
  <2>1. CASE HandleSend(c, m)
    <3>1. PICK rs : rs = <<FrameRequest("Enqueue", m)>>
      OBVIOUS
    <3>2. out' = [out EXCEPT ![c] = rs] /\ \A i \in DOMAIN rs : rs[i].frame \in {m, nil}
      BY <2>1, <3>1 DEF HandleSend, FrameRequest
    <3> QED
      BY <1>1, <1>2, <3>2, HandledOthers
  <2>2. CASE \E d \in Tx : HandleSendInTx(c, m, d)
    BY <1>2, <2>2, RequestsStay DEF HandleSendInTx
  <2> QED
    BY <2>1, <2>2
<1>6. OthersStay(m)
  BY <1>1, <1>2, <1>4, <1>5, OthersTold
<1>7. \/ Told(m)' = InState("coming", nil)
      \/ \E d \in Tx : Told(m)' = InState("held", d)
  <2>1. CASE HandleSend(c, m)
    <3>1. PICK rs : rs = <<FrameRequest("Enqueue", m)>>
      OBVIOUS
    <3>2. /\ out' = [out EXCEPT ![c] = rs] /\ \A i \in DOMAIN rs : rs[i].op /= "Requeue"
          /\ msgAt' = [msgAt EXCEPT ![m] = HeldBy("out", c)]
      BY <2>1, <3>1 DEF HandleSend, FrameRequest
    <3>3. ~Back(m)'
      <4>1. msgAt[m].by \notin {"out", "request"}
        BY <1>2, HolderBy
      <4>2. \A r \in Request : r.frame = m => ~OnWay(r)
        BY <1>1, <4>1, NoRequest
      <4> QED
        BY <1>1, <1>2, <3>2, <4>2, FreshRequest
    <3>4. msgAt'[m] = HeldBy("out", c)
      BY <1>1, <3>2 DEF TypeOK
    <3> QED
      BY <3>3, <3>4, HolderBy DEF Told
  <2>2. ASSUME NEW d \in Tx, HandleSendInTx(c, m, d)
        PROVE  Told(m)' = InState("held", d)
    <3>1. msgAt'[m] = HeldBy("tx", d)
      BY <1>1, <2>2 DEF TypeOK, HandleSendInTx
    <3> QED
      BY <3>1, HolderBy DEF Told
  <2> QED
    BY <2>1, <2>2
<1>8. CASE m \in QueueMsg
  BY <1>2, <1>3, <1>6, <1>7, <1>8, AsSend
<1>9. CASE m \notin QueueMsg
  BY <1>2, <1>6, <1>9, AsQuiet DEF OthersStay
<1> QED
  BY <1>8, <1>9

\* A committed SEND frame becomes a request.
LEMMA CommitSendAllowed ==
    ASSUME SInv, Mapped, Mapped', NEW c \in Conn, CommitSend(c)
    PROVE  Allowed
<1>1. TypeOK /\ IInv /\ nil \notin Sub
  BY PoolAssumption DEF SInv, IInv
<1>2. PICK f : f = Head(work[c])
  OBVIOUS
<1>3. PICK m : m = f.msg
  OBVIOUS
<1>4. PICK rs : rs = <<FrameRequest("Enqueue", m)>>
  OBVIOUS
<1>5. /\ out[c] = <<>> /\ work[c] /= <<>> /\ f.cmd = "SEND"
      /\ out' = [out EXCEPT ![c] = rs] /\ msgAt' = [msgAt EXCEPT ![m] = HeldBy("out", c)]
      /\ UNCHANGED <<reqCh, subAt, store, subs, seen>>
  BY <1>2, <1>3, <1>4 DEF CommitSend, Elsewhere, Channels, procVars
<1>6. \A i \in DOMAIN rs : rs[i].frame \in {m, nil} /\ rs[i].op /= "Requeue"
  BY <1>4 DEF FrameRequest
<1>7. m \in Msg /\ msgAt[m] = HeldBy("work", c)
  <2>1. work[c] \in Seq(TxFrame)
    BY <1>1 DEF TypeOK
  <2>2. 1 \in DOMAIN work[c] /\ work[c][1] = f
    BY <1>2, <1>5, <2>1
  <2> QED
    BY <1>1, <1>3, <1>5, <2>2 DEF IInv, MsgInv, MsgInWork
<1>8. OthersStay(m)
  <2>1. \A x \in QueueMsg : x /= m => msgAt'[x] = msgAt[x]
    BY <1>1, <1>5 DEF TypeOK, QueueMsg
  <2>2. \A x \in QueueMsg : x /= m => SameRequests(x)
    BY <1>1, <1>5, <1>6, HandledOthers
  <2> QED
    BY <1>1, <1>5, <2>1, <2>2, OthersTold
<1>9. Told(m)' = Told(m)
  <2>1. Told(m) = InState("coming", nil)
    BY <1>7, ToldFacts, HolderBy
  <2>2. ~Back(m)'
    <3>1. msgAt[m].by \notin {"out", "request"}
      BY <1>7, HolderBy
    <3>2. \A r \in Request : r.frame = m => ~OnWay(r)
      BY <1>1, <1>7, <3>1, NoRequest
    <3> QED
      BY <1>1, <1>5, <1>6, <1>7, <3>2, FreshRequest
  <2>3. msgAt'[m] = HeldBy("out", c)
    BY <1>1, <1>5, <1>7 DEF TypeOK
  <2>4. Told(m)' = InState("coming", nil)
    BY <2>2, <2>3, HolderBy DEF Told
  <2> QED
    BY <2>1, <2>4
<1> QED
  BY <1>5, <1>8, <1>9, AsQuiet DEF OthersStay

\* Which frames a transaction holds.
LEMMA HeldTold ==
    ASSUME NEW x, NEW d
    PROVE  Told(x) = InState("held", d) <=> msgAt[x].by = "tx" /\ msgAt[x].who = d
BY DEF Told, InState

\* The transactions U end: their frames are discarded, or come to their queues.
LEMMA TxTold ==
    ASSUME SInv, UNCHANGED <<out, reqCh, subAt>>, NEW U \in SUBSET Tx, NEW h,
           NEW v,
           \/ h.by = "discarded" /\ v = InState("finished", nil)
           \/ h.by = "work" /\ v = InState("coming", nil),
           \A x \in QueueMsg : msgAt'[x] = IF msgAt[x].by = "tx" /\ msgAt[x].who \in U
                                           THEN h ELSE msgAt[x]
    PROVE  \A x \in QueueMsg :
              Told(x)' = IF \E d \in U : Told(x) = InState("held", d) THEN v ELSE Told(x)
<1> SUFFICES ASSUME NEW x \in QueueMsg
             PROVE  Told(x)' = IF \E d \in U : Told(x) = InState("held", d)
                               THEN v ELSE Told(x)
  OBVIOUS
<1>1. x \in Msg /\ SameRequests(x)
  BY RequestsStay DEF QueueMsg
<1>2. (\E d \in U : Told(x) = InState("held", d)) <=>
        msgAt[x].by = "tx" /\ msgAt[x].who \in U
  BY HeldTold
<1>3. CASE msgAt[x].by = "tx" /\ msgAt[x].who \in U
  <2>1. msgAt'[x] = h
    BY <1>1, <1>3
  <2>2. Told(x)' = v
    BY <2>1 DEF Told, At
  <2> QED
    BY <1>2, <1>3, <2>2
<1>4. CASE ~(msgAt[x].by = "tx" /\ msgAt[x].who \in U)
  <2>1. msgAt'[x] = msgAt[x]
    BY <1>1, <1>4
  <2>2. Told(x)' = Told(x)
    BY <1>1, <2>1, ToldStays DEF Unacked
  <2> QED
    BY <1>2, <1>4, <2>2
<1> QED
  BY <1>3, <1>4

\* A handler returns an error and the loop is left.
LEMMA RejectAllowed ==
    ASSUME SInv, Mapped, Mapped', NEW c \in Conn, Reject(c)
    PROVE  Allowed
<1>1. PICK U \in SUBSET Tx : U = {d \in Tx : TxConn[d] = c}
  OBVIOUS
<1>2. PICK h : h = At("discarded")
  OBVIOUS
<1>3. /\ msgAt' = [m \in Msg |-> IF msgAt[m].by = "tx" /\ TxConn[msgAt[m].who] = c
                                 THEN h ELSE msgAt[m]]
      /\ UNCHANGED <<out, reqCh, subAt, store, subs, seen>>
  BY <1>2 DEF Reject, Exit, Elsewhere, Channels, procVars
<1>4. h.by = "discarded"
  BY <1>2 DEF At
<1>5. \A x \in QueueMsg : msgAt[x].by = "tx" => msgAt[x].who \in Tx
  BY PoolAssumption DEF SInv, HeldInv, MsgHeld, QueueMsg, Dest
<1>6. \A x \in QueueMsg : msgAt'[x] = IF msgAt[x].by = "tx" /\ msgAt[x].who \in U
                                      THEN h ELSE msgAt[x]
  BY <1>1, <1>3, <1>5 DEF QueueMsg
<1>7. PICK v : v = InState("finished", nil)
  OBVIOUS
<1>8. \A x \in QueueMsg :
            Told(x)' = IF \E d \in U : Told(x) = InState("held", d) THEN v ELSE Told(x)
  <2>1. UNCHANGED <<out, reqCh, subAt>>
    BY <1>3
  <2> QED
    BY <1>4, <1>6, <1>7, <2>1, TxTold
<1> QED
  BY <1>3, <1>7, <1>8, AsDiscard

\* ABORT and COMMIT.
LEMMA TxEndAllowed ==
    ASSUME SInv, Mapped, Mapped', NEW c \in Conn, NEW d \in Tx,
           HandleAbort(c, d) \/ HandleCommit(c, d)
    PROVE  Allowed
<1>1. TypeOK
  BY DEF SInv, IInv
<1>2. UNCHANGED <<out, reqCh, subAt, store, subs, seen>>
  BY DEF HandleAbort, HandleCommit, Elsewhere, Channels, procVars
<1>3. PICK U \in SUBSET Tx : U = {d}
  OBVIOUS
<1>4. \A x \in Msg :
         msgAt[x] = HeldBy("tx", d) <=> msgAt[x].by = "tx" /\ msgAt[x].who \in U
  BY <1>1, <1>3 DEF TypeOK, Holder, HeldBy
<1>5. CASE HandleAbort(c, d)
  <2>1. PICK h, v : h = At("discarded") /\ v = InState("finished", nil)
    OBVIOUS
  <2>2. h.by = "discarded"
    BY <2>1 DEF At
  <2>3. \A x \in QueueMsg : msgAt'[x] = IF msgAt[x].by = "tx" /\ msgAt[x].who \in U
                                        THEN h ELSE msgAt[x]
    BY <1>4, <1>5, <2>1 DEF HandleAbort, QueueMsg
  <2>4. \A x \in QueueMsg :
              Told(x)' = IF \E e \in U : Told(x) = InState("held", e) THEN v ELSE Told(x)
    BY <1>2, <2>1, <2>2, <2>3, TxTold
  <2> QED
    BY <1>2, <2>1, <2>4, AsDiscard
<1>6. CASE HandleCommit(c, d)
  <2>1. PICK h, v : h = HeldBy("work", c) /\ v = InState("coming", nil)
    OBVIOUS
  <2>2. h.by = "work"
    BY <2>1 DEF HeldBy
  <2>3. \A x \in QueueMsg : msgAt'[x] = IF msgAt[x].by = "tx" /\ msgAt[x].who \in U
                                        THEN h ELSE msgAt[x]
    BY <1>4, <1>6, <2>1 DEF HandleCommit, QueueMsg
  <2>4. \A x \in QueueMsg :
              Told(x)' = IF \E e \in U : Told(x) = InState("held", e) THEN v ELSE Told(x)
    BY <1>2, <2>1, <2>2, <2>3, TxTold
  <2>5. \A x \in QueueMsg :
              Told(x)' = IF Told(x) = InState("held", d)
                         THEN InState("coming", nil) ELSE Told(x)
    BY <1>3, <2>1, <2>4
  <2> QED
    BY <1>2, <2>5, AsCommit
<1> QED
  BY <1>5, <1>6

\* The state of the frame of an object that its connection has.
LEMMA CarriedTold ==
    ASSUME IInv, NEW s \in Sub, subAt[s] \in {"subCh", "unacked"}
    PROVE  /\ frame[s] \in QueueMsg /\ frame[s] \in Msg /\ msgAt[frame[s]].by = "sub"
           /\ subAt[s] = "subCh" => Told(frame[s]) = InState("given", SubConn[s])
           /\ subAt[s] = "unacked" => Told(frame[s]) = InState("shown", SubConn[s])
<1>1. PICK m \in Msg : m = frame[s]
  BY Carried
<1>2. m \in QueueMsg /\ msgAt[m].by = "sub" /\ msgAt[m].who = s
  BY <1>1, Carried DEF QueueMsg
<1>3. Told(m) = InState(IF Unacked(s) THEN "shown" ELSE "given", SubConn[s])
  BY <1>2, ToldFacts
<1> QED
  BY <1>1, <1>2, <1>3 DEF Unacked

\* An object gives up its frame m and its handler leaves the requests rs: no other
\* frame changes its state.
LEMMA GivenUpOthers ==
    ASSUME SInv, NEW s \in Sub, NEW m \in Msg, m = frame[s], NEW h,
           msgAt' = [msgAt EXCEPT ![m] = h],
           \A r \in Sub : r /= s => subAt'[r] = subAt[r],
           NEW c \in Conn, out[c] = <<>>, NEW rs, out' = [out EXCEPT ![c] = rs],
           UNCHANGED reqCh, \A i \in DOMAIN rs : rs[i].frame \in {m, nil}
    PROVE  OthersStay(m)
<1>1. IInv /\ TypeOK
  BY DEF SInv, IInv
<1>2. \A x \in QueueMsg : x /= m => msgAt'[x] = msgAt[x]
  BY <1>1 DEF TypeOK, QueueMsg
<1>3. \A x \in QueueMsg : x /= m => SameRequests(x)
  BY <1>1, HandledOthers
<1> QED
  BY <1>2, <1>3, OthersTold

\* The requests rs give back frame m and no other.
Requeues(rs, m) ==
    /\ \A i \in DOMAIN rs : rs[i].frame \in {m, nil}
    /\ \E i \in DOMAIN rs : rs[i] = FrameRequest("Requeue", m)

\* A frame goes back to its queue.
LEMMA FrameReturned ==
    ASSUME SInv, Mapped, Mapped', NEW c \in Conn, NEW s \in Sub, NEW m \in Msg, m = frame[s],
           subAt[s] \in {"subCh", "unacked"}, SubConn[s] = c, out[c] = <<>>,
           NEW rs, out' = [out EXCEPT ![c] = rs], Requeues(rs, m),
           msgAt' = [msgAt EXCEPT ![m] = HeldBy("out", c)],
           \A r \in Sub : r /= s => subAt'[r] = subAt[r],
           UNCHANGED <<reqCh, store, subs, seen>>
    PROVE  Allowed
<1>1. IInv /\ TypeOK
  BY DEF SInv, IInv
<1>2. m \in QueueMsg /\ m \in Msg /\ msgAt[m].by = "sub"
  BY <1>1, CarriedTold
<1>3. Told(m) \in {InState("given", c), InState("shown", c)}
  BY <1>1, CarriedTold
<1>4. OthersStay(m)
  <2>1. PICK h : h = HeldBy("out", c)
    OBVIOUS
  <2>2. msgAt' = [msgAt EXCEPT ![m] = h]
    BY <2>1
  <2> QED
    BY <1>2, <2>2, GivenUpOthers DEF Requeues
<1>5. Told(m)' = InState("returning", nil)
  <2>1. \A r \in Request : r.frame = m => ~OnWay(r)
    BY <1>1, <1>2, NoRequest
  <2>2. Back(m)'
    BY <1>1, <1>2, <2>1, FreshRequest DEF Requeues
  <2>3. msgAt'[m] = HeldBy("out", c)
    BY <1>1, <1>2 DEF TypeOK
  <2> QED
    BY <2>2, <2>3, HolderBy DEF Told
<1> QED
  BY <1>2, <1>3, <1>4, <1>5, AsReturn

\* NACK, the two loops of the cleanup that give frames back, and the arrival of a
\* frame for a subscription that is gone.
LEMMA ReturnAllowed ==
    ASSUME SInv, Mapped, Mapped', NEW c \in Conn, NEW s \in Sub,
           \/ \E i \in DOMAIN subList[c] : NackOne(c, i, s)
           \/ CleanupRequeue(c, s) \/ CleanupSubChannel(c, s) \/ ReturnQueueFrame(c, s)
    PROVE  Allowed
<1>1. IInv /\ TypeOK
  BY DEF SInv, IInv
<1>2. /\ out[c] = <<>> /\ UNCHANGED <<reqCh, store, subs, seen>>
      /\ msgAt' = [msgAt EXCEPT ![frame[s]] = HeldBy("out", c)]
      /\ \A r \in Sub : r /= s => subAt'[r] = subAt[r]
  BY <1>1 DEF NackOne, CleanupRequeue, CleanupSubChannel, ReturnQueueFrame, ReceiveSub,
     MatchOne, Selecting, InCleanup, Ready, Elsewhere, Channels, procVars, TypeOK
<1>3. subAt[s] \in {"subCh", "unacked"} /\ SubConn[s] = c
  <2>1. CASE \E i \in DOMAIN subList[c] : NackOne(c, i, s)
    BY <1>1, <2>1, InSubList DEF NackOne
  <2>2. CASE CleanupRequeue(c, s)
    <3>1. subList[c] \in Seq(Sub)
      BY <1>1 DEF TypeOK
    <3>2. subList[c] /= <<>> /\ s = Head(subList[c])
      BY <2>2 DEF CleanupRequeue
    <3>3. 1 \in DOMAIN subList[c] /\ s = subList[c][1]
      BY <3>1, <3>2
    <3> QED
      BY <1>1, <3>3, InSubList
  <2>3. CASE CleanupSubChannel(c, s) \/ ReturnQueueFrame(c, s)
    BY <1>1, <2>3, FirstInSubCh DEF CleanupSubChannel, ReturnQueueFrame, ReceiveSub
  <2> QED
    BY <2>1, <2>2, <2>3
<1>4. PICK m \in Msg : m = frame[s]
  BY <1>1, <1>3, CarriedTold
<1>5. \E rs : out' = [out EXCEPT ![c] = rs] /\ Requeues(rs, m)
  <2>1. PICK x, y : x = FrameRequest("Requeue", m) /\ y = SubRequest("Subscribe", s)
    OBVIOUS
  <2>2. x.frame = m /\ y.frame = nil
    BY <2>1 DEF FrameRequest, SubRequest
  <2>3. CASE \E i \in DOMAIN subList[c] : NackOne(c, i, s)
    <3>1. PICK rs : rs = <<x, y>>
      OBVIOUS
    <3>2. out' = [out EXCEPT ![c] = rs]
      BY <1>4, <2>1, <2>3, <3>1 DEF NackOne, Return
    <3>3. /\ \A i \in DOMAIN rs : rs[i].frame \in {m, nil}
          /\ \E i \in DOMAIN rs : rs[i] = x
      BY <2>2, <3>1
    <3> QED
      BY <2>1, <3>2, <3>3 DEF Requeues
  <2>4. CASE CleanupRequeue(c, s) \/ CleanupSubChannel(c, s) \/ ReturnQueueFrame(c, s)
    <3>1. PICK rs : rs = <<x>>
      OBVIOUS
    <3>2. out' = [out EXCEPT ![c] = rs]
      BY <1>4, <2>1, <2>4, <3>1 DEF CleanupRequeue, CleanupSubChannel, ReturnQueueFrame, Return
    <3>3. /\ \A i \in DOMAIN rs : rs[i].frame \in {m, nil}
          /\ \E i \in DOMAIN rs : rs[i] = x
      BY <2>2, <3>1
    <3> QED
      BY <2>1, <3>2, <3>3 DEF Requeues
  <2> QED
    BY <2>3, <2>4
<1>6. PICK rs : out' = [out EXCEPT ![c] = rs] /\ Requeues(rs, m)
  BY <1>5
<1>7. /\ out[c] = <<>> /\ UNCHANGED <<reqCh, store, subs, seen>>
      /\ msgAt' = [msgAt EXCEPT ![m] = HeldBy("out", c)]
      /\ \A r \in Sub : r /= s => subAt'[r] = subAt[r]
  BY <1>2, <1>4
<1> QED
  BY <1>4, <1>3, <1>6, <1>7, FrameReturned

\* handleAck settles the frame of s.
LEMMA AckOneAllowed ==
    ASSUME SInv, Mapped, Mapped', NEW c \in Conn, NEW i \in DOMAIN subList[c],
           NEW s \in Sub, AckOne(c, i, s)
    PROVE  Allowed
<1>1. IInv /\ TypeOK
  BY DEF SInv, IInv
<1>2. PICK m, h, rs : m = frame[s] /\ h = At("settled") /\ rs = <<SubRequest("Subscribe", s)>>
  OBVIOUS
<1>3. /\ out[c] = <<>> /\ s = subList[c][i]
      /\ msgAt' = [msgAt EXCEPT ![m] = h] /\ out' = [out EXCEPT ![c] = rs]
      /\ subAt' = [subAt EXCEPT ![s] = "out"]
      /\ UNCHANGED <<reqCh, store, subs, seen>>
  BY <1>2 DEF AckOne, MatchOne, Elsewhere, Channels, procVars
<1>4. subAt[s] = "unacked" /\ SubConn[s] = c
  BY <1>1, <1>3, InSubList
<1>5. m \in QueueMsg /\ m \in Msg /\ Told(m) = InState("shown", c)
  BY <1>1, <1>2, <1>4, CarriedTold
<1>6. OthersStay(m)
  <2>1. \A r \in Sub : r /= s => subAt'[r] = subAt[r]
    BY <1>1, <1>3 DEF TypeOK
  <2>2. \A k \in DOMAIN rs : rs[k].frame \in {m, nil}
    BY <1>2 DEF SubRequest
  <2> QED
    BY <1>2, <1>3, <1>5, <2>1, <2>2, GivenUpOthers
<1>7. Told(m)' = InState("finished", nil)
  <2>1. msgAt'[m] = At("settled")
    BY <1>1, <1>2, <1>3, <1>5 DEF TypeOK
  <2> QED
    BY <2>1 DEF Told, At
<1> QED
  BY <1>3, <1>5, <1>6, <1>7, AsSettle

\* A frame is written to a client that subscribes to its queue, though perhaps with
\* another subscription of the same id.
LEMMA WrittenToReader ==
    ASSUME SInv, IdsKeepDestination, NEW c \in Conn, NEW s \in Sub, WriteFrame(c, s)
    PROVE  /\ out[c] = <<>> /\ subAt[s] = "subCh" /\ SubConn[s] = c
           /\ c \in ReadersOf(MsgDest[frame[s]])
           /\ UNCHANGED <<reqCh, store, subs>>
<1>1. IInv /\ TypeOK /\ RouteInv
  BY DEF SInv, IInv
<1>2. /\ out[c] = <<>> /\ subCh[c] /= <<>> /\ s = Head(subCh[c])
      /\ Lookup(c, SubIdOf[s]) /= {} /\ UNCHANGED <<reqCh, store, subs>>
  BY DEF WriteFrame, ReceiveSub, Selecting, Ready, procVars
<1>3. subAt[s] = "subCh" /\ SubConn[s] = c
  BY <1>1, <1>2, FirstInSubCh
<1>4. PICK r \in subs[c] : SubIdOf[r] = SubIdOf[s]
  BY <1>2 DEF Lookup
<1>5. r \in Sub /\ SubConn[r] = c
  BY <1>1 DEF TypeOK, RouteInv
<1>6. SubDest[r] = SubDest[s]
  BY <1>3, <1>4, <1>5 DEF IdsKeepDestination
<1>7. MsgDest[frame[s]] = SubDest[s]
  BY <1>1, <1>3 DEF RouteInv, Loaded
<1> QED
  BY <1>2, <1>3, <1>6, <1>7 DEF ReadersOf

\* A frame that needs no acknowledgement is written.
LEMMA DeliverAutoAllowed ==
    ASSUME SInv, Mapped, Mapped', IdsKeepDestination, NEW c \in Conn, NEW s \in Sub,
           DeliverAuto(c, s)
    PROVE  Allowed
<1>1. IInv /\ TypeOK
  BY DEF SInv, IInv
<1>2. PICK m, h, rs : m = frame[s] /\ h = At("settled") /\ rs = <<SubRequest("Subscribe", s)>>
  OBVIOUS
<1>3. /\ WriteFrame(c, s) /\ seen' = [seen EXCEPT ![c] = @ \cup {m}]
      /\ msgAt' = [msgAt EXCEPT ![m] = h] /\ out' = [out EXCEPT ![c] = rs]
      /\ subAt' = [subAt EXCEPT ![s] = "out"]
  BY <1>2 DEF DeliverAuto, Written
<1>4. /\ out[c] = <<>> /\ subAt[s] = "subCh" /\ SubConn[s] = c
      /\ c \in ReadersOf(MsgDest[m]) /\ UNCHANGED <<reqCh, store, subs>>
  BY <1>2, <1>3, WrittenToReader
<1>5. m \in QueueMsg /\ m \in Msg /\ Told(m) = InState("given", c)
  BY <1>1, <1>2, <1>4, CarriedTold
<1>6. OthersStay(m)
  <2>1. \A r \in Sub : r /= s => subAt'[r] = subAt[r]
    BY <1>1, <1>3 DEF TypeOK
  <2>2. \A k \in DOMAIN rs : rs[k].frame \in {m, nil}
    BY <1>2 DEF SubRequest
  <2> QED
    BY <1>2, <1>3, <1>4, <1>5, <2>1, <2>2, GivenUpOthers
<1>7. Told(m)' = InState("finished", nil)
  <2>1. msgAt'[m] = At("settled")
    BY <1>1, <1>2, <1>3, <1>5 DEF TypeOK
  <2> QED
    BY <2>1 DEF Told, At
<1> QED
  BY <1>1, <1>3, <1>4, <1>5, <1>6, <1>7, AsWrite

\* A frame that is to be acknowledged is written.
LEMMA DeliverUnackedAllowed ==
    ASSUME SInv, Mapped, Mapped', IdsKeepDestination, NEW c \in Conn, NEW s \in Sub,
           DeliverUnacked(c, s)
    PROVE  Allowed
<1>1. IInv /\ TypeOK
  BY DEF SInv, IInv
<1>2. PICK m : m = frame[s]
  OBVIOUS
<1>3. /\ WriteFrame(c, s) /\ seen' = [seen EXCEPT ![c] = @ \cup {m}]
      /\ subAt' = [subAt EXCEPT ![s] = "unacked"] /\ UNCHANGED <<msgAt, out>>
  BY <1>2 DEF DeliverUnacked, Written
<1>4. /\ subAt[s] = "subCh" /\ SubConn[s] = c
      /\ c \in ReadersOf(MsgDest[m]) /\ UNCHANGED <<reqCh, store, subs>>
  BY <1>2, <1>3, WrittenToReader
<1>5. /\ m \in QueueMsg /\ m \in Msg /\ Told(m) = InState("given", c)
      /\ msgAt[m].by = "sub" /\ msgAt[m].who = s
  BY <1>1, <1>2, <1>4, Carried, CarriedTold
<1>6. OthersStay(m)
  <2>1. \A r \in Sub : r /= s => subAt'[r] = subAt[r]
    BY <1>1, <1>3 DEF TypeOK
  <2>2. \A x \in QueueMsg : SameRequests(x)
    BY <1>3, <1>4, RequestsStay
  <2> QED
    BY <1>2, <1>3, <2>1, <2>2, OthersTold
<1>7. Told(m)' = InState("shown", c)
  <2>1. msgAt'[m] = msgAt[m] /\ subAt'[s] = "unacked"
    BY <1>1, <1>3 DEF TypeOK
  <2> QED
    BY <1>4, <1>5, <2>1 DEF Told, Unacked
<1> QED
  BY <1>1, <1>3, <1>4, <1>5, <1>6, <1>7, AsWrite

\* A frame of a topic is written; the contract is about queues only.
LEMMA WriteTopicFrameAllowed ==
    ASSUME SInv, Mapped, Mapped', NEW c \in Conn, WriteTopicFrame(c)
    PROVE  Allowed
<1>1. TypeOK /\ RouteInv
  BY DEF SInv, IInv
<1>2. /\ writeCh[c] /= <<>> /\ seen' = [seen EXCEPT ![c] = @ \cup {Head(writeCh[c])}]
      /\ UNCHANGED <<out, reqCh, msgAt, subAt, store, subs>>
  BY DEF WriteTopicFrame, ReceiveTopicFrame, Elsewhere, procVars
<1>3. Head(writeCh[c]) \notin QueueMsg
  <2>1. writeCh[c] \in Seq(Msg)
    BY <1>1 DEF TypeOK
  <2>2. 1 \in DOMAIN writeCh[c] /\ Head(writeCh[c]) = writeCh[c][1]
    BY <1>2, <2>1
  <2> QED
    BY <1>1, <2>2, PoolAssumption DEF RouteInv, QueueMsg
<1>4. SeenStays
  BY <1>1, <1>2, <1>3 DEF SeenStays, TypeOK
<1>5. OthersStay(nil)
  BY <1>2, Unmoved DEF Unacked
<1>6. \A x \in QueueMsg : Told(x)' = Told(x)
  BY <1>5, PoolAssumption DEF OthersStay, QueueMsg
<1> QED
  BY <1>2, <1>4, <1>6, AsStutter DEF ReadersOf

LEMMA ClientInputAllowed ==
    ASSUME SInv, Mapped, Mapped', NEW c \in Conn, ClientInput(c)
    PROVE  Allowed
<1>1. CASE Accept(c) \/ HandleDisconnect(c)
  BY <1>1, QuietAllowed DEF Accept, HandleDisconnect, Elsewhere, Channels, procVars, objVars
<1>2. CASE RefuseConnect(c) \/ Broken(c)
  BY <1>2, RejectAllowed DEF RefuseConnect, Broken
<1>3. CASE HandleConnect(c)
  <2>1. PICK r : r = ConnRequest("Connected", c)
    OBVIOUS
  <2>2. /\ r.frame = nil /\ out[c] = <<>> /\ out' = [out EXCEPT ![c] = <<r>>]
        /\ UNCHANGED <<reqCh, msgAt, subAt, store, subs, seen>>
    BY <1>3, <2>1 DEF HandleConnect, ConnRequest, Ready, Elsewhere, Channels, procVars, objVars
  <2> QED
    BY <2>2, AnnounceAllowed
<1>4. ASSUME NEW s \in Sub, HandleSubscribe(c, s) PROVE Allowed
  <2>1. PICK r : r = SubRequest("Subscribe", s)
    OBVIOUS
  <2>2. /\ r.frame = nil /\ out[c] = <<>> /\ out' = [out EXCEPT ![c] = <<r>>]
        /\ subAt[s] = "none" /\ subAt' = [subAt EXCEPT ![s] = "out"]
        /\ subs' = [subs EXCEPT ![c] = @ \cup {s}]
        /\ UNCHANGED <<reqCh, msgAt, store, seen>>
    BY <1>4, <2>1 DEF HandleSubscribe, SubRequest, Selecting, Ready, Elsewhere, Channels,
       procVars
  <2>3. frame[s] = nil
    BY <2>2 DEF SInv, IInv, SubInv, FrameInv, FrameOf, Loaded
  <2>4. \A x \in Sub : x /= s => subAt'[x] = subAt[x]
    BY <2>2 DEF SInv, IInv, TypeOK
  <2> QED
    BY <2>2, <2>3, <2>4, SubscriptionAllowed
<1>5. ASSUME NEW s \in Sub, RefuseSubscribe(c, s) PROVE Allowed
  BY <1>5, RejectAllowed DEF RefuseSubscribe
<1>6. ASSUME NEW s \in Sub, HandleUnsubscribe(c, s) PROVE Allowed
  <2>1. PICK r : r = SubRequest("Unsubscribe", s)
    OBVIOUS
  <2>2. /\ r.frame = nil /\ out[c] = <<>> /\ out' = [out EXCEPT ![c] = <<r>>]
        /\ subs' = [subs EXCEPT ![c] = @ \ {s}]
        /\ UNCHANGED <<reqCh, msgAt, subAt, store, seen>>
    BY <1>6, <2>1 DEF HandleUnsubscribe, SubRequest, Selecting, Ready, Elsewhere, Channels,
       procVars, objVars
  <2> QED
    BY <2>2, SubscriptionAllowed
<1>7. ASSUME NEW m \in Msg, HandleSend(c, m) \/ \E d \in Tx : HandleSendInTx(c, m, d)
      PROVE  Allowed
  BY <1>7, HandleSendAllowed
<1>8. ASSUME NEW d \in Tx, HandleBegin(c, d) PROVE Allowed
  BY <1>8, QuietAllowed DEF HandleBegin, Elsewhere, Channels, procVars, objVars
<1>9. ASSUME NEW d \in Tx, HandleAbort(c, d) \/ HandleCommit(c, d) PROVE Allowed
  BY <1>9, TxEndAllowed
<1>10. ASSUME NEW d \in Tx, RefuseBegin(c, d) \/ RefuseTx(c, d) PROVE Allowed
  BY <1>10, RejectAllowed DEF RefuseBegin, RefuseTx
<1>11. ASSUME NEW cmd, NEW id, HandleAck(c, cmd, id) \/ \E d \in Tx : HandleAckInTx(c, cmd, id, d)
       PROVE  Allowed
  BY <1>11, QuietAllowed DEF HandleAck, HandleAckInTx, Elsewhere, Channels, procVars, objVars
<1> QED
  BY <1>1, <1>2, <1>3, <1>4, <1>5, <1>6, <1>7, <1>8, <1>9, <1>10, <1>11 DEF ClientInput

LEMMA ConnStepAllowed ==
    ASSUME SInv, Mapped, Mapped', Unwritable = {}, IdsKeepDestination, NEW c \in Conn,
           ConnStep(c)
    PROVE  Allowed
<1>1. CASE Execute(c)
  <2>1. ASSUME NEW i \in DOMAIN subList[c],
               AckOne(c, i, subList[c][i]) \/ NackOne(c, i, subList[c][i])
        PROVE  Allowed
    <3>1. IInv
      BY DEF SInv
    <3>2. PICK s \in Sub : s = subList[c][i]
      BY <3>1, InSubList
    <3> QED
      BY <2>1, <3>2, AckOneAllowed, ReturnAllowed
  <2>2. CASE AckEnd(c) \/ \E i \in DOMAIN subList[c] : AckPanics(c, i)
    <3>1. UNCHANGED <<out, reqCh, msgAt, subAt, store, subs, seen>>
      BY <2>2 DEF AckEnd, AckPanics, Elsewhere, Channels, procVars, connVars, objVars
    <3> QED
      BY <3>1, QuietAllowed
  <2> QED
    BY <1>1, <2>1, <2>2, CommitSendAllowed DEF Execute
<1>2. CASE Cleanup(c)
  <2>1. CASE CleanupNext(c) \/ DiscardWriteChannelFrame(c)
    <3>1. UNCHANGED <<out, reqCh, msgAt, subAt, store, subs, seen>>
      BY <2>1 DEF CleanupNext, DiscardWriteChannelFrame, Elsewhere, Channels, procVars,
         connVars, objVars
    <3> QED
      BY <3>1, QuietAllowed
  <2>2. CASE CleanupGoodbye(c)
    <3>1. PICK r : r = ConnRequest("Disconnected", c)
      OBVIOUS
    <3>2. /\ r.frame = nil /\ out[c] = <<>> /\ out' = [out EXCEPT ![c] = <<r>>]
          /\ UNCHANGED <<reqCh, msgAt, subAt, store, subs, seen>>
      BY <2>2, <3>1 DEF CleanupGoodbye, ConnRequest, InCleanup, Ready, Elsewhere, Channels,
         procVars, objVars
    <3> QED
      BY <3>2, AnnounceAllowed
  <2>3. ASSUME NEW s \in Sub, CleanupUnsubscribe(c, s) PROVE Allowed
    <3>1. PICK r : r = SubRequest("Unsubscribe", s)
      OBVIOUS
    <3>2. /\ r.frame = nil /\ out[c] = <<>> /\ out' = [out EXCEPT ![c] = <<r>>]
          /\ subs' = [subs EXCEPT ![c] = @ \ {s}]
          /\ UNCHANGED <<reqCh, msgAt, subAt, store, seen>>
      BY <2>3, <3>1 DEF CleanupUnsubscribe, SubRequest, InCleanup, Ready, Elsewhere, Channels,
         procVars, objVars
    <3> QED
      BY <3>2, SubscriptionAllowed
  <2>4. ASSUME NEW s \in Sub, CleanupRequeue(c, s) \/ CleanupSubChannel(c, s) PROVE Allowed
    BY <2>4, ReturnAllowed
  <2> QED
    BY <1>2, <2>1, <2>2, <2>3, <2>4 DEF Cleanup
<1>3. CASE WriteQueueFrame(c)
  <2>1. ASSUME NEW s \in Sub PROVE ~DeliverFails(c, s)
    BY DEF DeliverFails
  <2> QED
    BY <1>3, <2>1, DeliverAutoAllowed, DeliverUnackedAllowed, ReturnAllowed DEF WriteQueueFrame
<1>4. CASE TopicWriteFails(c)
  BY <1>4 DEF TopicWriteFails
<1> QED
  BY <1>1, <1>2, <1>3, <1>4, SendRequestAllowed, WriteTopicFrameAllowed DEF ConnStep

-----------------------------------------------------------------------------

\* At first nothing has been sent, nothing waits and nobody subscribes.
LEMMA FirstState ==
    ASSUME Init, Mapped
    PROVE  Contract!Init
<1>1. \A m \in QueueMsg : Told(m) = InState("unsent", nil)
  BY ToldFacts DEF Init, QueueMsg
<1>2. [m \in QueueMsg |-> StateOf(m)] = [m \in QueueMsg |-> Contract!Unsent]
  BY <1>1 DEF Mapped, Contract!Unsent, Contract!Plain, Contract!State, InState
<1>3. [q \in Queue |-> {c \in Conn : \E s \in subs[c] : SubDest[s] = q}]
        = [q \in Queue |-> {}]
  BY DEF Init
<1>4. [c \in Conn |-> seen[c] \cap QueueMsg] = [c \in Conn |-> {}]
  BY DEF Init
<1> QED
  BY <1>2, <1>3, <1>4 DEF Init, Contract!Init

\* The queues keep their promise, however the goroutines of the server interleave, as
\* long as writes to sockets succeed (a frame whose write failed is lost) and no
\* client uses an id again for another destination: a message is with one client at a
\* time, is written while that client subscribes, passes none that waits, returns to
\* the front, is never lost, and leaves its transaction together with the rest.
THEOREM ServerMeetsContract ==
    ASSUME Unwritable = {}, IdsKeepDestination
    PROVE  Spec => MeetsContract
<1>1. SInv => Mapped
  BY StateIs DEF Mapped
<1>2. SInv' => Mapped'
  BY <1>1, PTL
<1>3. Init /\ SInv => Contract!Init
  BY <1>1, FirstState
<1>4. SInv /\ SInv' /\ [Next]_vars => [Contract!Next]_Contract!vars
  <2> SUFFICES ASSUME SInv, SInv', [Next]_vars PROVE Allowed
    BY DEF Allowed
  <2>1. Mapped /\ Mapped'
    BY <1>1, <1>2
  <2>2. CASE Serve
    BY <2>1, <2>2, ServeAllowed
  <2>3. ASSUME NEW c \in Conn, ClientInput(c) \/ ConnStep(c) PROVE Allowed
    BY <2>1, <2>3, ClientInputAllowed, ConnStepAllowed
  <2>4. CASE UNCHANGED vars
    BY <2>1, <2>4, QuietAllowed DEF vars, procVars, connVars, objVars
  <2> QED
    BY <2>2, <2>3, <2>4 DEF Next
<1> QED
  BY <1>3, <1>4, PresenceInvariance, PTL DEF Spec, MeetsContract, Contract!Spec

=============================================================================
