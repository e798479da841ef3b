--------------------------- MODULE HandshakeProofs ---------------------------
(***************************************************************************)
(* Proofs about Handshake, for every set of options and configurations:    *)
(* both sides end up with the same version and with timeouts that fit      *)
(* together, and neither gives the other up while the connection is not    *)
(* cut, unless the other one's writes were put off for as long as it       *)
(* allows.  HInv describes what is under way at each moment, TimeInv how   *)
(* far the timers of the two sides can be apart; one lemma per part shows  *)
(* that a step preserves it.                                               *)
(***************************************************************************)
EXTENDS Handshake, TLAPS

(* Numbers *)

\* A duration in ticks is a whole number of milliseconds after rounding.
LEMMA MillisecondsType == \A d \in Nat : Milliseconds(d) \in Nat
  BY HandshakeAssumption DEF Milliseconds

\* asMilliseconds never exceeds the largest value of the header.
LEMMA MinimumType == \A c \in Config : Minimum(c) \in 0..maxHeartBeat
  BY HandshakeAssumption, MillisecondsType DEF Minimum, Config

\* Milliseconds within a bound are ticks within that bound.
LEMMA Scaling == ASSUME NEW x \in Nat, NEW m \in Nat, x <= m
                 PROVE  x * Ms \in 0..(m * Ms)
<1>1. Ms \in Nat
  BY HandshakeAssumption
<1>2. (m - x) * Ms \in Nat /\ x * Ms \in Nat /\ m * Ms \in Nat
  BY <1>1
<1>3. (m - x) * Ms = m * Ms - x * Ms
  BY <1>1
<1> QED
  BY <1>2, <1>3

\* A period that the header can express stays so when the minimum is applied.
LEMMA PeriodType == ASSUME NEW c \in Config, NEW x \in Nat, x <= maxHeartBeat
                    PROVE  AtLeast(x, Minimum(c)) \in 0..maxHeartBeat
  BY MinimumType, HandshakeAssumption DEF AtLeast

\* determineVersion returns the greatest of the supported versions in the list.
LEMMA DetermineVersionGreatest ==
  ASSUME NEW list \in Seq(Nat)
  PROVE  /\ DetermineVersion(list) \in Versions \cup {0}
         /\ \A i \in DOMAIN list : list[i] \in Versions => list[i] <= DetermineVersion(list)
<1> DEFINE found == {list[i] : i \in DOMAIN list} \cap Versions
<1>1. CASE found = {}
  BY <1>1 DEF DetermineVersion
<1>2. CASE found /= {}
  <2>1. \E v \in found : \A u \in found : u <= v
    <3>1. found \subseteq {10, 11, 12}
      BY DEF Versions
    <3>2. CASE 12 \in found
      BY <3>1, <3>2
    <3>3. CASE 12 \notin found /\ 11 \in found
      BY <3>1, <3>3
    <3>4. CASE 12 \notin found /\ 11 \notin found
      <4>1. 10 \in found /\ \A u \in found : u = 10
        BY <3>1, <3>4, <1>2
      <4> QED
        BY <4>1
    <3> QED
      BY <3>2, <3>3, <3>4
  <2> DEFINE v == CHOOSE w \in found : \A u \in found : u <= w
  <2>2. v \in found /\ \A u \in found : u <= v
    BY <2>1
  <2>3. DetermineVersion(list) = v
    BY <1>2 DEF DetermineVersion
  <2>4. \A i \in DOMAIN list : list[i] \in Versions => list[i] \in found
    OBVIOUS
  <2> QED
    BY <2>2, <2>3, <2>4
<1> QED
  BY <1>1, <1>2

-----------------------------------------------------------------------------
(* Sequences of frames under way *)

\* The elements of a sequence over a set are members of that set.
LEMMA Elements == ASSUME NEW S, NEW q \in Seq(S)
                  PROVE  Len(q) \in Nat /\ \A i \in DOMAIN q : q[i] \in S
  OBVIOUS

\* What is written is added at the end, or lost.
LEMMA WriteType ==
  ASSUME NEW net \in Flight, NEW f \in Frame
  PROVE  /\ Write(net, f) \in Flight
         /\ \A i \in DOMAIN Write(net, f) :
              Write(net, f)[i].frame = f \/ (i \in DOMAIN net /\ Write(net, f)[i] = net[i])
         /\ Len(Write(net, f)) <= Len(net) + 1
<1>1. CASE cut
  BY <1>1 DEF Write, Flight
<1>2. CASE ~cut
  <2> DEFINE e == [frame |-> f, age |-> 0]
  <2>1. e \in [frame : Frame, age : Nat] /\ e.frame = f
    OBVIOUS
  <2>2. Write(net, f) = Append(net, e)
    BY <1>2 DEF Write
  <2> QED
    BY <2>1, <2>2 DEF Flight
<1> QED
  BY <1>1, <1>2

\* The first frame written is alone.
LEMMA WriteFirst == ASSUME NEW f \in Frame
                    PROVE  /\ \A i \in DOMAIN Write(<<>>, f) : Write(<<>>, f)[i].frame = f
                           /\ Len(Write(<<>>, f)) <= 1
<1>1. <<>> \in Flight /\ DOMAIN <<>> = {} /\ Len(<<>>) = 0
  BY DEF Flight
<1> QED
  BY <1>1, WriteType

\* Growing older changes no frame.
LEMMA OlderSame ==
  ASSUME NEW net \in Flight
  PROVE  /\ Older(net) \in Flight
         /\ Len(Older(net)) = Len(net)
         /\ DOMAIN Older(net) = DOMAIN net
         /\ \A i \in DOMAIN net : Older(net)[i].frame = net[i].frame
<1> DEFINE old(i) == [net[i] EXCEPT !.age = IF @ < Delay THEN @ + 1 ELSE @]
<1>1. \A i \in DOMAIN net : net[i] \in [frame : Frame, age : Nat]
  BY Elements DEF Flight
<1>2. \A i \in DOMAIN net : old(i) \in [frame : Frame, age : Nat] /\ old(i).frame = net[i].frame
  BY <1>1
<1>3. Older(net) = [i \in DOMAIN net |-> old(i)]
  BY DEF Older
<1>4. DOMAIN net = 1..Len(net) /\ Len(net) \in Nat
  BY DEF Flight
<1>5. Older(net) \in [1..Len(net) -> [frame : Frame, age : Nat]]
  BY <1>2, <1>3, <1>4
<1>6. Older(net) \in Flight /\ Len(Older(net)) = Len(net)
  BY <1>5, <1>4 DEF Flight
<1> QED
  BY <1>2, <1>3, <1>6

\* The rest of a sequence holds nothing new.
LEMMA TailSame ==
  ASSUME NEW S, NEW q \in Seq(S), q /= <<>>
  PROVE  /\ Tail(q) \in Seq(S) /\ Len(Tail(q)) = Len(q) - 1
         /\ \A i \in DOMAIN Tail(q) : i + 1 \in DOMAIN q /\ Tail(q)[i] = q[i + 1]
         /\ Head(q) \in S /\ Head(q) = q[1] /\ 1 \in DOMAIN q
  OBVIOUS

\* The frames of the protocol have the type of frames.
LEMMA FrameTypes ==
  /\ HeartBeat \in Frame /\ ErrorFrame \in Frame /\ DataFrame \in Frame
  /\ \A v \in Nat, x \in Nat, y \in Nat : ConnectedFrame(v, <<x, y>>) \in Frame
  BY DEF HeartBeat, ErrorFrame, DataFrame, PlainFrame, ConnectedFrame, Frame

\* The CONNECT frame is a frame, with a heart-beat of two numbers.
LEMMA RequestType ==
  ASSUME opts \in Options
  PROVE  /\ ConnectRequest \in Frame /\ ConnectRequest.cmd \in Commands
         /\ ConnectRequest.hb = Asked /\ ConnectRequest.versions = AcceptVersions(opts)
         /\ AcceptVersions(opts) \in Seq(Nat)
         /\ Asked \in Nat \X Nat
<1>1. opts \in Option
  BY HandshakeAssumption
<1>2. AcceptVersions(opts) \in Seq(Nat)
  BY <1>1 DEF AcceptVersions, Option
<1>3. Asked \in Nat \X Nat
  BY <1>1, MillisecondsType DEF Asked, Option
<1>4. opts.command \in Commands
  BY <1>1 DEF Option
<1> QED
  BY <1>2, <1>3, <1>4 DEF ConnectRequest, Frame

-----------------------------------------------------------------------------
(* Type correctness *)

\* The options and the configuration have their types.
LEMMA ChosenTypes == TypeOK => opts \in Option /\ config \in Config
  BY HandshakeAssumption DEF TypeOK

\* The initial states have the right types.
LEMMA TypeInit == Init => TypeOK
<1> SUFFICES ASSUME Init PROVE TypeOK
  OBVIOUS
<1>1. 0 \in 0..(maxHeartBeat * Ms)
  BY HandshakeAssumption
<1>2. <<>> \in Seq(Frame) /\ <<>> \in Flight
  BY DEF Flight
<1>3. cut \in BOOLEAN
  BY DEF Init
<1>4. /\ opts \in Options /\ config \in Configs
      /\ readChannel \in Seq(Frame) /\ toServer \in Flight /\ toClient \in Flight
  BY <1>2 DEF Init
<1>5. cphase \in Phases /\ sphase \in Phases
  BY DEF Init, Phases
<1> QED
  BY <1>1, <1>3, <1>4, <1>5 DEF Init, TypeOK

\* Every step preserves the types; in particular the server's timeouts stay in
\* the range of the header, because getHeartBeat refuses what is beyond it.
LEMMA TypeStep == TypeOK /\ Next => TypeOK'
<1> SUFFICES ASSUME TypeOK, Next PROVE TypeOK'
  OBVIOUS
<1> USE ChosenTypes
<1> DEFINE Rec == [frame : Frame, age : Nat]
<1>c. opts \in Option /\ config \in Config
  OBVIOUS
<1>s. ASSUME toServer /= <<>> PROVE /\ Tail(toServer) \in Flight
                                    /\ Head(toServer).frame \in Frame
  <2>1. toServer \in Seq(Rec)
    BY DEF TypeOK, Flight
  <2>2. Tail(toServer) \in Seq(Rec) /\ Head(toServer) \in Rec
    BY <2>1, <1>s, TailSame
  <2> QED
    BY <2>2 DEF Flight
<1>k. ASSUME toClient /= <<>> PROVE /\ Tail(toClient) \in Flight
                                    /\ Head(toClient).frame \in Frame
  <2>1. toClient \in Seq(Rec)
    BY DEF TypeOK, Flight
  <2>2. Tail(toClient) \in Seq(Rec) /\ Head(toClient) \in Rec
    BY <2>1, <1>k, TailSame
  <2> QED
    BY <2>2 DEF Flight
<1>1. CASE ClientConnects
  <2>1. Write(toServer, ConnectRequest) \in Flight
    BY WriteType, RequestType DEF TypeOK
  <2> QED
    BY <1>1, <2>1 DEF ClientConnects, TypeOK, serverVars, lostVars, Phases
<1>2. CASE ServerReads
  <2> DEFINE f == Head(toServer).frame
  <2>1. f \in Frame /\ f.hb \in Nat \X Nat /\ Tail(toServer) \in Flight
    BY <1>2, <1>s DEF ServerReads, Frame
  <2>2. HeartBeatValid(f.hb) => ReadTimeout(f.hb) \in 0..(maxHeartBeat * Ms)
    <3> SUFFICES ASSUME HeartBeatValid(f.hb) PROVE ReadTimeout(f.hb) \in 0..(maxHeartBeat * Ms)
      OBVIOUS
    <3>1. f.hb[1] \in Nat /\ f.hb[1] <= maxHeartBeat
      BY <2>1 DEF HeartBeatValid
    <3>2. AtLeast(f.hb[1], Minimum(config)) \in 0..maxHeartBeat
      BY <3>1, <1>c, PeriodType
    <3> QED
      BY <3>2, Scaling, HandshakeAssumption DEF ReadTimeout
  <2>3. sreadTimeout' \in 0..(maxHeartBeat * Ms)
    BY <1>2, <2>2 DEF ServerReads, TypeOK
  <2>4. readChannel' \in Seq(Frame)
    BY <1>2, <2>1 DEF ServerReads, TypeOK
  <2> QED
    BY <1>2, <2>1, <2>3, <2>4 DEF ServerReads, TypeOK, clientVars
<1>3. CASE HandleConnect
  <2> DEFINE f  == Head(readChannel)
             v  == DetermineVersion(f.versions)
             cx == AtLeast(f.hb[1], Minimum(config))
             cy == AtLeast(f.hb[2], Minimum(config))
  <2>1. f \in Frame /\ Tail(readChannel) \in Seq(Frame)
    BY <1>3, TailSame DEF HandleConnect, TypeOK
  <2>2. f.versions \in Seq(Nat) /\ f.hb[1] \in Nat /\ f.hb[2] \in Nat
    BY <2>1 DEF Frame
  <2>3. v \in Versions \cup {0}
    BY <2>2, DetermineVersionGreatest
  <2>4. HeartBeatValid(f.hb) => cx \in 0..maxHeartBeat /\ cy \in 0..maxHeartBeat
    BY <2>2, <1>c, PeriodType DEF HeartBeatValid
  <2>5. HeartBeatValid(f.hb) => cy * Ms \in 0..(maxHeartBeat * Ms)
    BY <2>4, Scaling, HandshakeAssumption
  <2>6. 0 \in 0..(maxHeartBeat * Ms)
    BY HandshakeAssumption
  <2>7. HeartBeatValid(f.hb) => ConnectedFrame(v, Answer(cx, cy)) \in Frame
    BY <2>3, <2>4, FrameTypes DEF Answer, Versions
  <2>8. toClient' \in Flight
    BY <1>3, <2>7, WriteType, FrameTypes DEF HandleConnect, TypeOK
  <2>9. swriteTimeout' \in 0..(maxHeartBeat * Ms)
    BY <1>3, <2>5, <2>6 DEF HandleConnect
  <2>10. sversion' \in Versions \cup {0} /\ sphase' \in Phases
    BY <1>3, <2>3 DEF HandleConnect, TypeOK, Phases
  <2> QED
    BY <1>3, <2>1, <2>8, <2>9, <2>10 DEF HandleConnect, TypeOK, clientVars, lostVars
<1>4. CASE HandleOther
  <2>1. Tail(readChannel) \in Seq(Frame)
    BY <1>4, TailSame DEF HandleOther, TypeOK
  <2>2. toClient' \in Flight
    BY <1>4, WriteType, FrameTypes DEF HandleOther, TypeOK
  <2> QED
    BY <1>4, <2>1, <2>2 DEF HandleOther, TypeOK, clientVars, lostVars
<1>5. CASE ClientReads
  <2> DEFINE f == Head(toClient).frame
  <2>1. f \in Frame /\ f.hb \in Nat \X Nat /\ Tail(toClient) \in Flight
    BY <1>5, <1>k DEF ClientReads, Frame
  <2>2. f.hb[1] * Ms \in Nat /\ f.hb[2] * Ms \in Nat
    BY <2>1, HandshakeAssumption
  <2>3. \A x \in Nat : ClientReadTimeout(x) \in Nat /\ ClientWriteTimeout(x) \in Nat
    BY <1>c DEF ClientReadTimeout, ClientWriteTimeout, Option
  <2>4. ClientReadTimeout(ParseHeartBeat(f.hb)[1]) \in Nat
    BY <2>2, <2>3 DEF ParseHeartBeat
  <2>5. ClientWriteTimeout(ParseHeartBeat(f.hb)[2]) \in Nat
    BY <2>2, <2>3 DEF ParseHeartBeat
  <2> QED
    BY <1>5, <2>1, <2>4, <2>5 DEF ClientReads, TypeOK, serverVars, Phases, CheckSupported
<1>6. CASE ClientReceives
  BY <1>6, <1>k DEF ClientReceives, TypeOK, serverVars
<1>7. CASE ClientBeats \/ ClientSends
  <2>1. \A f \in Frame : Write(toServer, f) \in Flight
    BY WriteType DEF TypeOK
  <2>2. toServer' \in Flight
    BY <1>7, <2>1, FrameTypes DEF ClientBeats, ClientSends, ClientWrites
  <2> QED
    BY <1>7, <2>2 DEF ClientBeats, ClientSends, ClientWrites, TypeOK, serverVars, lostVars
<1>8. CASE ServerBeats \/ ServerSends
  <2>1. \A f \in Frame : Write(toClient, f) \in Flight
    BY WriteType DEF TypeOK
  <2>2. toClient' \in Flight
    BY <1>8, <2>1, FrameTypes DEF ServerBeats, ServerSends, ServerWrites
  <2> QED
    BY <1>8, <2>2 DEF ServerBeats, ServerSends, ServerWrites, TypeOK, clientVars, lostVars
<1>9. CASE ClientTimesOut
  BY <1>9 DEF ClientTimesOut, Ends, TypeOK, netVars, lostVars, Phases
<1>10. CASE ServerTimesOut
  BY <1>10 DEF ServerTimesOut, Ends, TypeOK, netVars, lostVars, Phases
<1>11. CASE Tick
  <2>1. Older(toServer) \in Flight /\ Older(toClient) \in Flight
    BY OlderSame DEF TypeOK
  <2>2. \A t \in Nat, b \in BOOLEAN : Run(t, b) \in Nat
    BY DEF Run
  <2> QED
    BY <1>11, <2>1, <2>2 DEF Tick, TypeOK, lostVars
<1>12. CASE Cut
  <2>1. <<>> \in Flight
    BY DEF Flight
  <2> QED
    BY <1>12, <2>1 DEF Cut, TypeOK, clientVars, serverVars, lostVars
<1>13. CASE ClientKeepsRequest
  BY <1>13 DEF ClientKeepsRequest, TypeOK, serverVars, netVars
<1>14. CASE ServerReturnsFrame
  BY <1>14 DEF ServerReturnsFrame, TypeOK, clientVars, netVars
<1> QED
  BY <1>1, <1>2, <1>3, <1>4, <1>5, <1>6, <1>7, <1>8, <1>9, <1>10, <1>11, <1>12, <1>13, <1>14
  DEF Next, Stations

-----------------------------------------------------------------------------
(* The connect sequence *)

\* What was asked for and what follows from it does not change.
LEMMA ChosenFixed ==
  ASSUME UNCHANGED <<opts, config>>
  PROVE  /\ Asked' = Asked /\ ConnectRequest' = ConnectRequest
         /\ Period(1)' = Period(1) /\ Period(2)' = Period(2)
         /\ HeartBeatValid(Asked)' = HeartBeatValid(Asked)
         /\ ReadTimeout(Asked)' = ReadTimeout(Asked)
         /\ DetermineVersion(AcceptVersions(opts))' = DetermineVersion(AcceptVersions(opts))
         /\ ClientWriteTimeout(Period(1) * Ms)' = ClientWriteTimeout(Period(1) * Ms)
         /\ OptionsValid(opts)' = OptionsValid(opts)
<1>1. Asked' = Asked
  BY DEF Asked
<1>2. ConnectRequest' = ConnectRequest
  BY <1>1 DEF ConnectRequest, AcceptVersions
<1>3. Period(1)' = Period(1) /\ Period(2)' = Period(2)
  BY <1>1 DEF Period, AtLeast, Minimum, Milliseconds
<1>4. HeartBeatValid(Asked)' = HeartBeatValid(Asked)
  BY <1>1 DEF HeartBeatValid
<1>5. ReadTimeout(Asked)' = ReadTimeout(Asked)
  BY <1>1 DEF ReadTimeout, AtLeast, Minimum, Milliseconds
<1>6. DetermineVersion(AcceptVersions(opts))' = DetermineVersion(AcceptVersions(opts))
  BY DEF DetermineVersion, AcceptVersions
<1>7. ClientWriteTimeout(Period(1) * Ms)' = ClientWriteTimeout(Period(1) * Ms)
  BY <1>3 DEF ClientWriteTimeout
<1>8. OptionsValid(opts)' = OptionsValid(opts)
  BY DEF OptionsValid, CheckSupported
<1> QED
  BY <1>1, <1>2, <1>3, <1>4, <1>5, <1>6, <1>7, <1>8

\* readLoop and processLoop of the server come to the same period.
LEMMA SamePeriod == ReadTimeout(Asked) = Period(1) * Ms
  BY DEF ReadTimeout, Period

\* A step that decides nothing and adds neither CONNECT nor CONNECTED preserves
\* the invariant.
LEMMA NothingDecided ==
  ASSUME HInv, TypeOK', UNCHANGED <<opts, config, cversion, cwriteTimeout, sversion,
                                    sreadTimeout, readChannel>>,
         \/ cphase' = cphase
         \/ cphase = "up" /\ cphase' = "timedout"
         \/ sphase /= "connecting" /\ cphase' = "ended",
         sphase' = sphase \/ (sphase = "connected" /\ sphase' \in {"timedout", "ended"}),
         sphase = "connecting" => Len(toServer') <= Len(toServer) /\ toClient' = <<>>,
         \A i \in DOMAIN toServer' :
            \/ \E j \in DOMAIN toServer : toServer'[i].frame = toServer[j].frame
            \/ sphase /= "connecting" /\ toServer'[i].frame.cmd \notin Commands,
         \A i \in DOMAIN toClient' :
            \/ \E j \in DOMAIN toClient : toClient'[i].frame = toClient[j].frame
            \/ toClient'[i].frame.cmd /= "CONNECTED"
  PROVE  HInv'
<1> USE ChosenFixed
<1>1. (sphase = "connecting")' <=> sphase = "connecting"
  OBVIOUS
<1>2. Accepted' <=> Accepted
  BY DEF Accepted
<1>3. BeforeAnswer'
  <2> SUFFICES ASSUME sphase' = "connecting" PROVE BeforeAnswer'
    BY DEF BeforeAnswer
  <2>1. sphase = "connecting" /\ sphase' = sphase /\ BeforeAnswer
    BY <1>1 DEF HInv
  <2>2. Len(toServer') \in Nat /\ Len(toServer) \in Nat /\ Len(readChannel) \in Nat
    <3>1. toServer' \in Flight /\ toServer \in Flight /\ readChannel \in Seq(Frame)
      BY DEF HInv, TypeOK
    <3> QED
      BY <3>1, Elements DEF Flight
  <2>3. cphase = cphase' /\ cphase \in {"start", "sent", "failed"}
    BY <2>1 DEF BeforeAnswer
  <2>4. \A i \in DOMAIN toServer' : toServer'[i].frame = ConnectRequest
    BY <2>1 DEF BeforeAnswer
  <2>5. cphase = "start" => toServer' = <<>>
    <3>1. cphase = "start" => Len(toServer') = 0
      BY <2>1, <2>2 DEF BeforeAnswer
    <3> QED
      BY <3>1 DEF TypeOK, Flight
  <2>6. Len(toServer') + Len(readChannel) <= 1
    BY <2>1, <2>2 DEF BeforeAnswer
  <2> QED
    BY <2>1, <2>3, <2>4, <2>5, <2>6 DEF BeforeAnswer
<1>4. AfterAnswer'
  <2> SUFFICES ASSUME sphase' /= "connecting" PROVE AfterAnswer'
    BY DEF AfterAnswer
  <2>1. sphase /= "connecting" /\ AfterAnswer
    BY <1>1 DEF HInv
  <2>2. ConnectedFrame(sversion, <<Period(2), Period(1)>>)'
            = ConnectedFrame(sversion, <<Period(2), Period(1)>>)
    BY DEF ConnectedFrame
  <2> QED
    BY <2>1, <2>2, <1>2 DEF AfterAnswer
<1>5. AcceptedInv'
  BY <1>2 DEF HInv, AcceptedInv
<1>6. UpInv'
  BY <1>2 DEF HInv, UpInv
<1> QED
  BY <1>3, <1>4, <1>5, <1>6 DEF HInv

\* The initial states satisfy the invariant.
LEMMA HInvInit == Init => HInv
<1> SUFFICES ASSUME Init PROVE HInv
  OBVIOUS
<1>1. TypeOK
  BY TypeInit
<1>2. BeforeAnswer
  BY DEF Init, BeforeAnswer
<1> QED
  BY <1>1, <1>2 DEF Init, HInv, AfterAnswer, AcceptedInv, Accepted, UpInv

\* CONNECT is written before anything else.
LEMMA ConnectsStep == HInv /\ TypeOK' /\ ClientConnects => HInv'
<1> SUFFICES ASSUME HInv, TypeOK', ClientConnects PROVE HInv'
  OBVIOUS
<1> USE ChosenFixed
<1>1. /\ cphase = "start" /\ cphase' \in {"sent", "failed"}
      /\ cphase' = "sent" => OptionsValid(opts) /\ toServer' = Write(toServer, ConnectRequest)
      /\ cphase' = "failed" => toServer' = toServer
      /\ UNCHANGED <<opts, config, sphase, sversion, sreadTimeout, readChannel, toClient>>
  BY DEF ClientConnects, serverVars
<1>2. sphase = "connecting" /\ toServer = <<>> /\ readChannel = <<>> /\ toClient = <<>>
  BY <1>1 DEF HInv, AfterAnswer, BeforeAnswer
<1>3. ConnectRequest \in Frame /\ toServer \in Flight
  BY RequestType DEF HInv, TypeOK
<1>4. /\ Len(Write(toServer, ConnectRequest)) <= 1
      /\ \A i \in DOMAIN Write(toServer, ConnectRequest) :
           Write(toServer, ConnectRequest)[i].frame = ConnectRequest
  BY <1>2, <1>3, WriteFirst
<1>5. Len(toServer') + Len(readChannel') <= 1
  BY <1>1, <1>2, <1>4, <1>3, WriteType DEF Flight
<1>6. \A i \in DOMAIN toServer' : toServer'[i].frame = ConnectRequest
  BY <1>1, <1>2, <1>4
<1>7. BeforeAnswer'
  BY <1>1, <1>2, <1>5, <1>6 DEF BeforeAnswer
<1> QED
  BY <1>1, <1>2, <1>7 DEF HInv, AfterAnswer, AcceptedInv, Accepted, UpInv

\* readLoop of the server passes CONNECT on with its own timeout worked out, and
\* finds no second one later.
LEMMA ServerReadsStep == HInv /\ TypeOK' /\ ServerReads => HInv'
<1> SUFFICES ASSUME HInv, TypeOK', ServerReads PROVE HInv'
  OBVIOUS
<1> USE ChosenFixed
<1> DEFINE f == Head(toServer).frame
<1>1. /\ toServer /= <<>> /\ toServer' = Tail(toServer)
      /\ readChannel' = IF f.cmd = "beat" THEN readChannel ELSE Append(readChannel, f)
      /\ sreadTimeout' = IF f.cmd \in Commands /\ HeartBeatValid(f.hb)
                         THEN ReadTimeout(f.hb) ELSE sreadTimeout
      /\ UNCHANGED <<opts, config, cphase, cversion, cwriteTimeout, sphase, sversion, toClient>>
  BY DEF ServerReads, clientVars
<1>2. toServer \in Flight /\ readChannel \in Seq(Frame)
  BY DEF HInv, TypeOK
<1>3. /\ Len(toServer') = Len(toServer) - 1 /\ Len(toServer) \in Nat
      /\ \A i \in DOMAIN toServer' : i + 1 \in DOMAIN toServer /\ toServer'[i] = toServer[i + 1]
      /\ Head(toServer) = toServer[1] /\ 1 \in DOMAIN toServer
  BY <1>1, <1>2, TailSame, Elements DEF Flight
<1>4. CASE sphase = "connecting"
  <2>1. f = ConnectRequest /\ Len(toServer) + Len(readChannel) <= 1
    BY <1>3, <1>4 DEF HInv, BeforeAnswer
  <2>2. f \in Frame /\ f.cmd \in Commands /\ f.hb = Asked
    BY <2>1, RequestType DEF HInv, TypeOK
  <2>3. readChannel' = Append(readChannel, f)
    BY <1>1, <2>2 DEF Commands
  <2>4. Len(toServer) \in Nat /\ Len(toServer) >= 1 /\ Len(readChannel) \in Nat
    BY <1>1, <1>2, Elements DEF Flight
  <2>5. readChannel = <<>> /\ Len(toServer') = 0 /\ toServer' = <<>>
    <3>1. Len(readChannel) = 0 /\ Len(toServer') = 0
      BY <2>1, <2>4, <1>3
    <3>2. toServer' \in Flight
      BY DEF TypeOK
    <3> QED
      BY <3>1, <3>2, <1>2 DEF Flight
  <2>6. readChannel' = <<ConnectRequest>>
    BY <2>1, <2>3, <2>5
  <2>7. HeartBeatValid(Asked) => sreadTimeout' = ReadTimeout(Asked)
    BY <1>1, <2>2
  <2>8. cphase /= "start"
    BY <1>1, <1>4 DEF HInv, BeforeAnswer
  <2>9. BeforeAnswer'
    BY <1>1, <1>4, <2>5, <2>6, <2>7, <2>8 DEF HInv, BeforeAnswer
  <2> QED
    BY <1>1, <1>4, <2>9 DEF HInv, AfterAnswer, AcceptedInv, Accepted, UpInv
<1>5. CASE sphase /= "connecting"
  <2>1. f.cmd \notin Commands
    BY <1>3, <1>5 DEF HInv, AfterAnswer
  <2>2. sreadTimeout' = sreadTimeout
    BY <1>1, <2>1
  <2>3. Accepted' <=> Accepted
    BY <1>1 DEF Accepted
  <2>4. AfterAnswer'
    <3>1. \A i \in DOMAIN toServer' : toServer'[i].frame.cmd \notin Commands
      BY <1>3, <1>5 DEF HInv, AfterAnswer
    <3>2. ConnectedFrame(sversion, <<Period(2), Period(1)>>)'
              = ConnectedFrame(sversion, <<Period(2), Period(1)>>)
      BY <1>1 DEF ConnectedFrame
    <3> QED
      BY <1>1, <1>5, <2>3, <3>1, <3>2 DEF HInv, AfterAnswer
  <2>5. BeforeAnswer'
    BY <1>1, <1>5 DEF BeforeAnswer
  <2>6. AcceptedInv' /\ UpInv'
    BY <1>1, <2>2, <2>3 DEF HInv, AcceptedInv, UpInv
  <2> QED
    BY <2>4, <2>5, <2>6 DEF HInv
<1> QED
  BY <1>4, <1>5

\* handleConnect decides on version and periods from the one CONNECT frame.
LEMMA HandleConnectStep == HInv /\ TypeOK' /\ HandleConnect => HInv'
<1> SUFFICES ASSUME HInv, TypeOK', HandleConnect PROVE HInv'
  OBVIOUS
<1> USE ChosenFixed
<1> DEFINE f  == Head(readChannel)
           ok == /\ opts.known \/ ~config.strict
                 /\ DetermineVersion(f.versions) > 10
                 /\ HeartBeatValid(f.hb)
<1>1. /\ sphase = "connecting" /\ readChannel /= <<>>
      /\ UNCHANGED <<opts, config, cphase, cversion, cwriteTimeout, sreadTimeout, toServer>>
  BY DEF HandleConnect, clientVars
<1>2. BeforeAnswer
  BY DEF HInv
<1>3. f = ConnectRequest /\ toServer = <<>> /\ toClient = <<>> /\ cphase \in {"sent", "failed"}
  <2>1. toServer \in Flight /\ readChannel \in Seq(Frame)
    BY DEF HInv, TypeOK
  <2>2. Len(readChannel) >= 1 /\ 1 \in DOMAIN readChannel /\ f = readChannel[1]
    BY <1>1, <2>1, TailSame
  <2>3. Len(toServer) = 0
    BY <1>1, <1>2, <2>1, <2>2, Elements DEF BeforeAnswer, Flight
  <2>4. toServer = <<>>
    BY <2>1, <2>3 DEF Flight
  <2> QED
    BY <1>1, <1>2, <2>2, <2>4 DEF BeforeAnswer
<1>4. f.hb = Asked /\ f.versions = AcceptVersions(opts)
  BY <1>3, RequestType DEF HInv, TypeOK
<1>5. CASE ok
  <2> DEFINE g == ConnectedFrame(DetermineVersion(f.versions), <<Period(2), Period(1)>>)
  <2>1. /\ sphase' = "connected"
        /\ sversion' = DetermineVersion(f.versions)
        /\ toClient' = Write(toClient, g)
    BY <1>4, <1>5 DEF HandleConnect, Period, Answer
  <2>2. g \in Frame
    <3>1. /\ Asked[1] \in Nat /\ Asked[2] \in Nat
          /\ Asked[1] <= maxHeartBeat /\ Asked[2] <= maxHeartBeat
      BY <1>4, <1>5, RequestType DEF HInv, TypeOK, HeartBeatValid
    <3>2. Period(1) \in Nat /\ Period(2) \in Nat
      BY <3>1, PeriodType, ChosenTypes DEF HInv, Period
    <3>3. AcceptVersions(opts) \in Seq(Nat)
      BY RequestType DEF HInv, TypeOK
    <3>4. DetermineVersion(f.versions) \in Nat
      BY <3>3, <1>4, DetermineVersionGreatest DEF Versions
    <3> QED
      BY <3>2, <3>4, FrameTypes
  <2>3. \A i \in DOMAIN toClient' : toClient'[i].frame = g
    BY <1>3, <2>1, <2>2, WriteFirst
  <2>4. g = ConnectedFrame(sversion, <<Period(2), Period(1)>>)'
    BY <1>1, <2>1 DEF ConnectedFrame
  <2>5. BeforeAnswer' /\ AfterAnswer'
    BY <1>1, <1>3, <2>1, <2>3, <2>4 DEF BeforeAnswer, AfterAnswer, Accepted
  <2>6. AcceptedInv'
    BY <1>1, <1>2, <1>4, <1>5, <2>1, SamePeriod DEF AcceptedInv, BeforeAnswer
  <2> QED
    BY <1>1, <1>3, <2>5, <2>6 DEF HInv, UpInv
<1>6. CASE ~ok
  <2>1. sphase' = "refused" /\ toClient' = Write(toClient, ErrorFrame)
    BY <1>6 DEF HandleConnect
  <2>2. \A i \in DOMAIN toClient' : toClient'[i].frame = ErrorFrame
    BY <1>3, <2>1, FrameTypes, WriteFirst
  <2>3. ErrorFrame.cmd /= "CONNECTED"
    BY DEF ErrorFrame, PlainFrame
  <2>4. BeforeAnswer' /\ AfterAnswer'
    BY <1>1, <1>3, <2>1, <2>2, <2>3 DEF BeforeAnswer, AfterAnswer
  <2> QED
    BY <1>1, <1>3, <2>1, <2>4 DEF HInv, AcceptedInv, Accepted, UpInv
<1> QED
  BY <1>5, <1>6

\* Connect takes version and period from the CONNECTED frame, which has them from
\* the server.
LEMMA ClientReadsStep == HInv /\ TypeOK' /\ ClientReads => HInv'
<1> SUFFICES ASSUME HInv, TypeOK', ClientReads PROVE HInv'
  OBVIOUS
<1> USE ChosenFixed
<1> DEFINE f == Head(toClient).frame
<1>1. /\ cphase = "sent" /\ toClient /= <<>> /\ toClient' = Tail(toClient)
      /\ \/ /\ f.cmd = "CONNECTED" /\ cphase' = "up" /\ cversion' = f.versions[1]
            /\ cwriteTimeout' = ClientWriteTimeout(ParseHeartBeat(f.hb)[2])
         \/ cphase' = "failed"
      /\ UNCHANGED <<opts, config, sphase, sversion, sreadTimeout, readChannel, toServer>>
  BY DEF ClientReads, serverVars
<1>2. /\ \A i \in DOMAIN toClient' : i + 1 \in DOMAIN toClient /\ toClient'[i] = toClient[i + 1]
      /\ Head(toClient) = toClient[1] /\ 1 \in DOMAIN toClient
  BY <1>1, TailSame DEF HInv, TypeOK, Flight
<1>3. sphase /= "connecting" /\ AfterAnswer
  BY <1>1 DEF HInv, BeforeAnswer
<1>4. Accepted' <=> Accepted
  BY <1>1 DEF Accepted
<1>5. ConnectedFrame(sversion, <<Period(2), Period(1)>>)'
          = ConnectedFrame(sversion, <<Period(2), Period(1)>>)
  BY <1>1 DEF ConnectedFrame
<1>6. AfterAnswer' /\ BeforeAnswer'
  BY <1>1, <1>2, <1>3, <1>4, <1>5 DEF AfterAnswer, BeforeAnswer
<1>7. AcceptedInv'
  BY <1>1, <1>4 DEF HInv, AcceptedInv
<1>8. UpInv'
  <2>1. CASE cphase' = "up"
    <3>1. f.cmd = "CONNECTED"
      BY <1>1, <2>1
    <3>2. Accepted /\ f = ConnectedFrame(sversion, <<Period(2), Period(1)>>)
      BY <3>1, <1>2, <1>3 DEF AfterAnswer
    <3>3. f.versions[1] = sversion /\ ParseHeartBeat(f.hb)[2] = Period(1) * Ms
      BY <3>2 DEF ConnectedFrame, ParseHeartBeat
    <3> QED
      BY <1>1, <1>4, <2>1, <3>2, <3>3 DEF HInv, UpInv
  <2>2. CASE cphase' = "failed"
    BY <2>2 DEF UpInv
  <2> QED
    BY <1>1, <2>1, <2>2
<1> QED
  BY <1>6, <1>7, <1>8 DEF HInv

\* Heart-beats, other frames and timeouts leave what was agreed as it is.
LEMMA TrafficStep ==
  HInv /\ TypeOK' /\ (ClientReceives \/ ClientBeats \/ ClientSends \/ ServerBeats
                        \/ ServerSends \/ ClientTimesOut \/ ServerTimesOut
                        \/ ClientKeepsRequest \/ ServerReturnsFrame) => HInv'
<1> SUFFICES ASSUME HInv, TypeOK' PROVE
      (ClientReceives \/ ClientBeats \/ ClientSends \/ ServerBeats \/ ServerSends
         \/ ClientTimesOut \/ ServerTimesOut \/ ClientKeepsRequest
         \/ ServerReturnsFrame) => HInv'
  OBVIOUS
<1>0. /\ toServer \in Flight /\ toClient \in Flight
      /\ sphase = "connecting" => cphase \in {"start", "sent", "failed"} /\ toClient = <<>>
  BY DEF HInv, TypeOK, BeforeAnswer
<1>1. CASE ClientReceives
  <2>1. \A i \in DOMAIN toClient' : i + 1 \in DOMAIN toClient /\ toClient'[i] = toClient[i + 1]
    BY <1>0, <1>1, TailSame DEF ClientReceives, Flight
  <2> QED
    BY <1>0, <1>1, <2>1, NothingDecided DEF ClientReceives, serverVars
<1>2. CASE ClientBeats \/ ClientSends
  <2>1. PICK f \in {HeartBeat, DataFrame} : toServer' = Write(toServer, f)
    BY <1>2 DEF ClientBeats, ClientSends, ClientWrites
  <2>2. f \in Frame /\ f.cmd \notin Commands
    BY FrameTypes DEF HeartBeat, DataFrame, PlainFrame, Commands
  <2>3. \A i \in DOMAIN toServer' :
           toServer'[i].frame = f \/ (i \in DOMAIN toServer /\ toServer'[i] = toServer[i])
    BY <1>0, <2>1, <2>2, WriteType
  <2>4. sphase /= "connecting"
    BY <1>0, <1>2 DEF ClientBeats, ClientBeatDue, ClientSends
  <2>5. UNCHANGED <<opts, config, cphase, cversion, cwriteTimeout, sphase, sversion,
                    sreadTimeout, readChannel, toClient>>
    BY <1>2 DEF ClientBeats, ClientSends, ClientWrites, serverVars
  <2> QED
    BY <2>2, <2>3, <2>4, <2>5, NothingDecided
<1>3. CASE ServerBeats \/ ServerSends
  <2>1. PICK f \in {HeartBeat, DataFrame} : toClient' = Write(toClient, f)
    BY <1>3 DEF ServerBeats, ServerSends, ServerWrites
  <2>2. f \in Frame /\ f.cmd /= "CONNECTED"
    BY FrameTypes DEF HeartBeat, DataFrame, PlainFrame
  <2>3. \A i \in DOMAIN toClient' :
           toClient'[i].frame = f \/ (i \in DOMAIN toClient /\ toClient'[i] = toClient[i])
    BY <1>0, <2>1, <2>2, WriteType
  <2>4. sphase = "connected"
    BY <1>3 DEF ServerBeats, ServerBeatDue, ServerSends
  <2>5. UNCHANGED <<opts, config, cphase, cversion, cwriteTimeout, sphase, sversion,
                    sreadTimeout, readChannel, toServer>>
    BY <1>3 DEF ServerBeats, ServerSends, ServerWrites, clientVars
  <2> QED
    BY <2>2, <2>3, <2>4, <2>5, NothingDecided
<1>4. CASE ClientTimesOut
  BY <1>0, <1>4, NothingDecided, Elements
  DEF ClientTimesOut, ClientExpired, Ends, netVars, Flight
<1>5. CASE ServerTimesOut
  BY <1>0, <1>5, NothingDecided, Elements
  DEF ServerTimesOut, ServerExpired, Ends, netVars, Flight
<1>6. CASE ClientKeepsRequest
  BY <1>0, <1>6, NothingDecided, Elements DEF ClientKeepsRequest, serverVars, netVars, Flight
<1>7. CASE ServerReturnsFrame
  BY <1>0, <1>7, NothingDecided, Elements DEF ServerReturnsFrame, clientVars, netVars, Flight
<1> QED
  BY <1>1, <1>2, <1>3, <1>4, <1>5, <1>6, <1>7

\* Neither do time and the loss of the connection.
LEMMA NetworkStep == HInv /\ TypeOK' /\ (Tick \/ Cut) => HInv'
<1> SUFFICES ASSUME HInv, TypeOK' PROVE (Tick \/ Cut) => HInv'
  OBVIOUS
<1>0. /\ toServer \in Flight /\ toClient \in Flight
      /\ sphase = "connecting" => toClient = <<>>
  BY DEF HInv, TypeOK, BeforeAnswer
<1>1. CASE Tick
  <2>1. /\ Len(toServer') = Len(toServer) /\ Len(toServer) \in Nat
        /\ DOMAIN toServer' = DOMAIN toServer /\ DOMAIN toClient' = DOMAIN toClient
        /\ \A i \in DOMAIN toServer : toServer'[i].frame = toServer[i].frame
        /\ \A i \in DOMAIN toClient : toClient'[i].frame = toClient[i].frame
    BY <1>0, <1>1, OlderSame, Elements DEF Tick, Flight
  <2>2. sphase = "connecting" => toClient' = <<>>
    <3>1. sphase = "connecting" => Older(toClient) = <<>>
      <4>1. Len(toClient) = 0 => Len(Older(toClient)) = 0 /\ Older(toClient) \in Flight
        BY <1>0, OlderSame
      <4> QED
        BY <1>0, <4>1 DEF Flight
    <3> QED
      BY <1>1, <3>1 DEF Tick
  <2>3. UNCHANGED <<opts, config, cphase, cversion, cwriteTimeout, sphase, sversion,
                    sreadTimeout, readChannel>>
    BY <1>1 DEF Tick
  <2> QED
    BY <2>1, <2>2, <2>3, NothingDecided
<1>2. CASE Cut
  <2>1. toServer' = <<>> /\ toClient' = <<>> /\ Len(toServer) \in Nat
    BY <1>0, <1>2, Elements DEF Cut, Flight
  <2>2. UNCHANGED <<opts, config, cphase, cversion, cwriteTimeout, sphase, sversion,
                    sreadTimeout, readChannel>>
    BY <1>2 DEF Cut, clientVars, serverVars
  <2> QED
    BY <2>1, <2>2, NothingDecided
<1> QED
  BY <1>1, <1>2

\* Once connected, the server takes frames out of readChannel, and its RECEIPTs are
\* not taken for CONNECTED.
LEMMA HandleOtherStep == HInv /\ TypeOK' /\ HandleOther => HInv'
<1> SUFFICES ASSUME HInv, TypeOK', HandleOther PROVE HInv'
  OBVIOUS
<1> USE ChosenFixed
<1>1. /\ sphase = "connected"
      /\ UNCHANGED <<opts, config, cphase, cversion, cwriteTimeout, sphase, sversion,
                     sreadTimeout, toServer>>
      /\ toClient' = toClient \/ toClient' = Write(toClient, DataFrame)
  BY DEF HandleOther, clientVars
<1>2. ConnectedFrame(sversion, <<Period(2), Period(1)>>)'
          = ConnectedFrame(sversion, <<Period(2), Period(1)>>)
  BY <1>1 DEF ConnectedFrame
<1>3. \A i \in DOMAIN toClient' : \/ toClient'[i].frame.cmd /= "CONNECTED"
                                  \/ i \in DOMAIN toClient /\ toClient'[i] = toClient[i]
  <2>1. toClient \in Flight /\ DataFrame \in Frame /\ DataFrame.cmd /= "CONNECTED"
    BY FrameTypes DEF HInv, TypeOK, DataFrame, PlainFrame
  <2> QED
    BY <1>1, <2>1, WriteType
<1>4. BeforeAnswer' /\ AfterAnswer'
  BY <1>1, <1>2, <1>3 DEF HInv, BeforeAnswer, AfterAnswer, Accepted
<1> QED
  BY <1>1, <1>4 DEF HInv, AcceptedInv, UpInv, Accepted

-----------------------------------------------------------------------------
(* The theorems *)

\* The invariant holds in every state: between CONNECT and CONNECTED nothing but
\* the answer to what the client asked is under way, whatever the options, the
\* delays and the moment at which the connection is cut.
THEOREM HandshakeInvariance == Spec => []HInv
<1>1. HInv /\ [Next]_vars => HInv'
  <2> SUFFICES ASSUME HInv, [Next]_vars PROVE HInv'
    OBVIOUS
  <2>1. CASE Next
    <3>1. TypeOK'
      BY <2>1, TypeStep DEF HInv
    <3> QED
      BY <2>1, <3>1, ConnectsStep, ServerReadsStep, HandleConnectStep, HandleOtherStep,
         ClientReadsStep, TrafficStep, NetworkStep DEF Next, Stations
  <2>2. CASE UNCHANGED vars
    <3>1. TypeOK'
      BY <2>2 DEF HInv, TypeOK, vars, clientVars, serverVars, netVars, lostVars
    <3>2. toServer \in Flight /\ (sphase = "connecting" => toClient = <<>>)
      BY DEF HInv, TypeOK, BeforeAnswer
    <3> QED
      BY <2>2, <3>1, <3>2, NothingDecided, Elements
      DEF vars, clientVars, serverVars, netVars, Flight
  <2> QED
    BY <2>1, <2>2
<1> QED
  BY <1>1, HInvInit, PTL DEF Spec

\* handleConnect and Connect agree on the version: the highest one that the
\* program accepts.
THEOREM VersionsAgree == Spec => []VersionAgreed
<1>1. HInv => VersionAgreed
  <2> SUFFICES ASSUME HInv, cphase = "up"
               PROVE  /\ cversion = sversion /\ cversion \in Versions \ {10}
                      /\ \A i \in DOMAIN opts.versions : opts.versions[i] <= cversion
    BY DEF VersionAgreed
  <2>1. /\ cversion = sversion /\ sversion = DetermineVersion(AcceptVersions(opts))
        /\ sversion > 10 /\ OptionsValid(opts) /\ sversion \in Versions \cup {0}
    BY DEF HInv, UpInv, AcceptedInv, TypeOK
  <2>2. AcceptVersions(opts) \in Seq(Nat) /\ opts.versions \in Seq(Nat)
    BY RequestType, ChosenTypes DEF HInv, TypeOK, Option
  <2>3. \A i \in DOMAIN opts.versions : opts.versions[i] <= cversion
    <3>1. CASE opts.versions = <<>>
      BY <3>1
    <3>2. CASE opts.versions /= <<>>
      <4>1. AcceptVersions(opts) = opts.versions
        BY <3>2 DEF AcceptVersions
      <4>2. \A i \in DOMAIN opts.versions : opts.versions[i] \in Versions
        BY <2>1 DEF OptionsValid, CheckSupported
      <4> QED
        BY <2>1, <2>2, <4>1, <4>2, DetermineVersionGreatest
    <3> QED
      BY <3>1, <3>2
  <2> QED
    BY <2>1, <2>3 DEF Versions
<1> QED
  BY <1>1, HandshakeInvariance, PTL

\* The write timeout of the client fits the read timeout that readLoop of the
\* server has worked out on its own.
THEOREM TimeoutsFit == Spec => []TimeoutsAgree
<1>1. HInv => TimeoutsAgree
  <2> SUFFICES ASSUME HInv, cphase = "up"
               PROVE  /\ sreadTimeout > 0 <=> cwriteTimeout > 0
                      /\ cwriteTimeout <= sreadTimeout
    BY DEF TimeoutsAgree
  <2>1. cwriteTimeout = ClientWriteTimeout(sreadTimeout)
    BY DEF HInv, UpInv, AcceptedInv
  <2>2. sreadTimeout \in Nat /\ opts.error \in Nat
    BY ChosenTypes, HandshakeAssumption DEF HInv, TypeOK, Option
  <2> QED
    BY <2>1, <2>2 DEF ClientWriteTimeout
<1> QED
  BY <1>1, HandshakeInvariance, PTL

-----------------------------------------------------------------------------
(* Timing *)

\* The first frame under way has an age.
LEMMA FirstAge == ASSUME NEW net \in Flight, net /= <<>>
                  PROVE  1 \in DOMAIN net /\ net[1] \in [frame : Frame, age : Nat]
                         /\ net[1].age \in Nat
<1>1. 1 \in DOMAIN net
  BY DEF Flight
<1>2. net[1] \in [frame : Frame, age : Nat]
  BY <1>1, Elements DEF Flight
<1> QED
  BY <1>1, <1>2

\* Taking the first frame leaves the others fresh.
LEMMA FreshTail == ASSUME NEW net \in Flight, net /= <<>>, Fresh(net)
                   PROVE  Fresh(Tail(net))
<1>1. \A i \in DOMAIN Tail(net) : i + 1 \in DOMAIN net /\ Tail(net)[i] = net[i + 1]
  BY TailSame DEF Flight
<1> QED
  BY <1>1 DEF Fresh

\* A frame that is written is new, and comes after those under way.
LEMMA FreshWrite ==
  ASSUME NEW net \in Flight, NEW f \in Frame, Fresh(net), ~cut
  PROVE  /\ Fresh(Write(net, f)) /\ Write(net, f) /= <<>>
         /\ Write(net, f)[1] = IF net = <<>> THEN [frame |-> f, age |-> 0] ELSE net[1]
<1> DEFINE e == [frame |-> f, age |-> 0]
           Rec == [frame : Frame, age : Nat]
<1>1. e \in Rec /\ e.age = 0 /\ net \in Seq(Rec)
  BY DEF Flight
<1>2. Write(net, f) = Append(net, e)
  BY DEF Write
<1> HIDE DEF e, Rec
<1>3. /\ Append(net, e) /= <<>> /\ DOMAIN Append(net, e) = 1..(Len(net) + 1)
      /\ Len(net) \in Nat /\ DOMAIN net = 1..Len(net)
      /\ \A i \in 1..Len(net) : Append(net, e)[i] = net[i]
      /\ Append(net, e)[Len(net) + 1] = e
  BY <1>1
<1>4. net = <<>> => Len(net) = 0
  BY <1>1
<1>5. net /= <<>> => Len(net) >= 1
  BY <1>1
<1>6. Append(net, e)[1] = IF net = <<>> THEN e ELSE net[1]
  BY <1>3, <1>4, <1>5
<1>7. \A i \in DOMAIN Append(net, e) : Append(net, e)[i].age <= Delay
  BY <1>1, <1>3, HandshakeAssumption DEF Fresh
<1> QED
  BY <1>2, <1>3, <1>6, <1>7 DEF Fresh, e

\* A tick makes every frame one tick older, and none older than Delay.
LEMMA FreshOlder ==
  ASSUME NEW net \in Flight, Fresh(net)
  PROVE  /\ Fresh(Older(net)) /\ (Older(net) = <<>> <=> net = <<>>)
         /\ net /= <<>> => /\ Older(net)[1].frame = net[1].frame
                           /\ ~Overdue(net) => Older(net)[1].age = net[1].age + 1
<1> DEFINE old(i) == [net[i] EXCEPT !.age = IF @ < Delay THEN @ + 1 ELSE @]
<1>1. \A i \in DOMAIN net : net[i] \in [frame : Frame, age : Nat] /\ net[i].age <= Delay
  BY Elements DEF Flight, Fresh
<1>2. \A i \in DOMAIN net : /\ old(i).age <= Delay
                            /\ net[i].age < Delay => old(i).age = net[i].age + 1
  BY <1>1, HandshakeAssumption
<1>3. Older(net) = [i \in DOMAIN net |-> old(i)]
  BY DEF Older
<1>4. DOMAIN Older(net) = DOMAIN net /\ \A i \in DOMAIN net : Older(net)[i] = old(i)
  BY <1>3
<1>5. Fresh(Older(net))
  BY <1>2, <1>4 DEF Fresh
<1>6. Older(net) = <<>> <=> net = <<>>
  <2>1. Older(net) \in Flight /\ Len(Older(net)) = Len(net)
    BY OlderSame
  <2> QED
    BY <2>1 DEF Flight
<1>7. ASSUME net /= <<>>, ~Overdue(net) PROVE Older(net)[1].age = net[1].age + 1
  <2>1. 1 \in DOMAIN net /\ net[1].age \in Nat
    BY <1>7, FirstAge
  <2>2. net[1].age < Delay
    BY <1>7, <2>1, HandshakeAssumption DEF Overdue
  <2> QED
    BY <1>2, <1>4, <2>1, <2>2
<1>8. net /= <<>> => Older(net)[1].frame = net[1].frame
  BY OlderSame, FirstAge
<1> QED
  BY <1>5, <1>6, <1>7, <1>8

\* The numbers that the timing is about, and how the timeouts are related: the
\* client writes at least as often as the server expects, and waits for longer
\* than the server's period by HeartBeatError.
LEMMA TimingNumbers ==
  ASSUME HInv
  PROVE  /\ creadTimeout \in Nat /\ cwriteTimeout \in Nat
         /\ sreadTimeout \in Nat /\ swriteTimeout \in Nat
         /\ creadTimer \in Nat /\ cwriteTimer \in Nat
         /\ sreadTimer \in Nat /\ swriteTimer \in Nat
         /\ toServer \in Flight /\ toClient \in Flight /\ readChannel \in Seq(Frame)
         /\ clost \in Nat /\ slost \in Nat
         /\ Delay \in Nat /\ Ms \in Nat
         /\ opts.read \in Nat /\ opts.error \in Nat /\ opts.grace \in Nat \ {0}
         /\ Delay < opts.error
         /\ Period(1) \in Nat /\ Period(2) \in Nat
         /\ Period(2) = 0 => opts.read = 0
<1>1. opts \in Option /\ config \in Config
  BY ChosenTypes DEF HInv
<1>2. /\ opts.read \in Nat /\ opts.error \in Nat /\ opts.grace \in Nat \ {0}
      /\ Delay < opts.error /\ opts.read \notin 1..(Ms - 1)
  BY <1>1, HandshakeAssumption DEF HInv, TypeOK, Option
<1>3. Asked[1] \in Nat /\ Asked[2] \in Nat /\ Asked[2] = Milliseconds(opts.read)
  BY RequestType DEF HInv, TypeOK, Asked
<1>4. Minimum(config) \in Nat
  BY <1>1, MinimumType, HandshakeAssumption
<1>5. Period(1) \in Nat /\ Period(2) \in Nat /\ (Period(2) = 0 => Asked[2] = 0)
  BY <1>3, <1>4 DEF Period, AtLeast
<1>6. Asked[2] = 0 => opts.read < Ms
  BY <1>2, <1>3, HandshakeAssumption DEF Milliseconds
<1>7. maxHeartBeat * Ms \in Nat
  BY HandshakeAssumption
<1> QED
  BY <1>2, <1>5, <1>6, <1>7, HandshakeAssumption DEF HInv, TypeOK

\* A product is at least as large as each factor, unless the other one is 0.
LEMMA PositiveProduct ==
  ASSUME NEW x \in Nat, NEW y \in Nat
  PROVE  /\ x * y \in Nat /\ x * y = y * x
         /\ y /= 0 => x * y >= x
         /\ x /= 0 /\ y /= 0 => x * y /= 0
<1>1. x * y \in Nat /\ x * y = y * x
  OBVIOUS
<1>2. ASSUME y /= 0 PROVE x * y >= x
  <2>1. y - 1 \in Nat
    BY <1>2
  <2>2. x * (y - 1) \in Nat
    BY <2>1
  <2>3. x * (y - 1) = x * y - x
    OBVIOUS
  <2> QED
    BY <1>1, <2>2, <2>3
<1> QED
  BY <1>1, <1>2

\* While the connection holds, a timer that reaches its limit has waited for writes
\* that were put off.
LEMMA ExpiredLate ==
  HInv /\ TimeInv /\ Alive => /\ ClientExpired => slost + Delay >= ClientSlack
                              /\ ServerExpired => clost + 2 * Delay >= ServerSlack
<1> SUFFICES ASSUME HInv, TimeInv, Alive
             PROVE  /\ ClientExpired => slost + Delay >= ClientSlack
                    /\ ServerExpired => clost + 2 * Delay >= ServerSlack
  OBVIOUS
<1>0. /\ creadTimeout \in Nat /\ cwriteTimeout \in Nat
      /\ sreadTimeout \in Nat /\ swriteTimeout \in Nat
      /\ creadTimer \in Nat /\ cwriteTimer \in Nat
      /\ sreadTimer \in Nat /\ swriteTimer \in Nat
      /\ toServer \in Flight /\ toClient \in Flight
      /\ clost \in Nat /\ slost \in Nat
      /\ Delay \in Nat /\ Ms \in Nat
      /\ opts.read \in Nat /\ opts.error \in Nat /\ opts.grace \in Nat \ {0}
      /\ Period(1) \in Nat /\ Period(2) \in Nat
      /\ Period(2) = 0 => opts.read = 0
  BY TimingNumbers
<1>1. Fresh(toServer) /\ Fresh(toClient) /\ ConnectTiming /\ BeatTiming
  BY DEF TimeInv
<1>2. toServer /= <<>> => toServer[1].age \in Nat /\ toServer[1].age <= Delay
  BY <1>0, <1>1, FirstAge DEF Fresh
<1>3. toClient /= <<>> => toClient[1].age \in Nat /\ toClient[1].age <= Delay
  BY <1>0, <1>1, FirstAge DEF Fresh
<1>4. ASSUME ClientExpired PROVE slost + Delay >= ClientSlack
  <2>1. cphase = "up" /\ creadTimeout > 0 /\ creadTimer >= ClientLimit
    BY <1>4 DEF ClientExpired
  <2>2. sphase = "connected"
    BY <2>1 DEF HInv, UpInv, Accepted, Alive, GivenUp
  <2>3. /\ swriteTimeout = Period(2) * Ms
        /\ creadTimeout = ClientReadTimeout(swriteTimeout)
    BY <1>1, <2>1, <2>2 DEF ConnectTiming, BeatTiming
  <2>4. swriteTimeout > 0
    <3>1. swriteTimeout = 0 => Period(2) = 0
      BY <1>0, <2>3, PositiveProduct, HandshakeAssumption
    <3> QED
      BY <1>0, <2>1, <2>3, <3>1 DEF ClientReadTimeout
  <2>5. creadTimer <= slost + (swriteTimeout + Delay)
    <3>1. creadTimer <= slost + IF toClient = <<>> THEN swriteTimer
                                ELSE swriteTimeout + toClient[1].age
      BY <1>1, <2>1, <2>4 DEF BeatTiming
    <3>2. swriteTimer <= swriteTimeout
      BY <1>1, <2>2, <2>4 DEF ConnectTiming
    <3>3. CASE toClient = <<>>
      BY <1>0, <3>1, <3>2, <3>3
    <3>4. CASE toClient /= <<>>
      BY <1>0, <1>3, <3>1, <3>4
    <3> QED
      BY <3>3, <3>4
  <2>6. ClientLimit \in Nat
    BY <1>0, PositiveProduct DEF ClientLimit
  <2> QED
    BY <1>0, <2>1, <2>5, <2>6 DEF ClientSlack
<1>5. ASSUME ServerExpired PROVE clost + 2 * Delay >= ServerSlack
  <2>1. sphase = "connected" /\ sreadTimeout > 0 /\ sreadTimer >= sreadTimeout * 2
    BY <1>5 DEF ServerExpired, ServerLimit
  <2>2. sreadTimer <= clost + cwriteTimeout + 2 * Delay
    <3>1. CASE cphase = "sent"
      BY <1>0, <1>1, <1>3, <2>1, <3>1 DEF ConnectTiming
    <3>2. CASE cphase = "up"
      <4>1. cwriteTimeout = ClientWriteTimeout(sreadTimeout)
        BY <2>1, <3>2 DEF HInv, UpInv, AcceptedInv, Accepted
      <4>2. cwriteTimeout > 0
        BY <1>0, <2>1, <4>1 DEF ClientWriteTimeout
      <4>3. /\ cwriteTimer <= cwriteTimeout
            /\ sreadTimer <= clost + IF toServer = <<>> THEN cwriteTimer + Delay
                                     ELSE cwriteTimeout + Delay + toServer[1].age
        BY <1>1, <3>2, <4>2 DEF BeatTiming
      <4> QED
        BY <1>0, <1>2, <4>3
    <3> QED
      BY <1>1, <2>1, <3>1, <3>2 DEF ConnectTiming
  <2> QED
    BY <1>0, <2>1, <2>2 DEF ServerSlack, ServerLimit
<1> QED
  BY <1>4, <1>5

\* What follows from the options does not change.
LEMMA TimingFixed ==
  ASSUME UNCHANGED <<opts, config>>
  PROVE  /\ (Period(2) * Ms)' = Period(2) * Ms
         /\ ClientReadTimeout(Period(2) * Ms)' = ClientReadTimeout(Period(2) * Ms)
<1>1. Period(2)' = Period(2)
  BY ChosenFixed
<1> QED
  BY <1>1 DEF ClientReadTimeout

\* Connect sends CONNECT, or nothing when its options are refused.
LEMMA ConnectsTiming == HInv /\ HInv' /\ TimeInv /\ Alive /\ ClientConnects => TimeInv'
<1> SUFFICES ASSUME HInv, HInv', TimeInv, Alive, ClientConnects PROVE TimeInv'
  OBVIOUS
<1> USE TimingNumbers, TimingFixed
<1>1. /\ cphase = "start" /\ cphase' \in {"sent", "failed"}
      /\ cphase' = "failed" => toServer' = toServer
      /\ toServer' = toServer \/ toServer' = Write(toServer, ConnectRequest)
      /\ UNCHANGED <<opts, config, swriteTimeout, sphase, sreadTimer, readChannel,
                     toClient, swriteTimer, cut>>
  BY DEF ClientConnects, serverVars
<1>2. sphase = "connecting" /\ toServer = <<>> /\ readChannel = <<>>
  <2>1. sphase = "connecting"
    BY <1>1 DEF HInv, AfterAnswer
  <2> QED
    BY <1>1, <2>1 DEF HInv, BeforeAnswer
<1>3. Fresh(toServer')
  <2>1. ConnectRequest \in Frame
    BY RequestType DEF HInv, TypeOK
  <2>2. Fresh(Write(toServer, ConnectRequest))
    BY <2>1, FreshWrite DEF TimeInv, Alive
  <2> QED
    BY <1>1, <2>2 DEF TimeInv
<1>4. Fresh(toClient')
  BY <1>1 DEF TimeInv
<1>5. ConnectTiming' /\ BeatTiming'
  BY <1>1, <1>2 DEF TimeInv, ConnectTiming, BeatTiming
<1> QED
  BY <1>1, <1>2, <1>3, <1>4, <1>5 DEF TimeInv

\* readLoop of the server takes a frame, and its deadline starts again.
LEMMA ServerReadsTiming == HInv /\ HInv' /\ TimeInv /\ Alive /\ ServerReads => TimeInv'
<1> SUFFICES ASSUME HInv, HInv', TimeInv, Alive, ServerReads PROVE TimeInv'
  OBVIOUS
<1>1. /\ toServer /= <<>> /\ toServer' = Tail(toServer) /\ sreadTimer' = 0
      /\ clost' = 0
      /\ UNCHANGED <<opts, config, cphase, creadTimeout, cwriteTimeout, creadTimer,
                     cwriteTimer, sphase, swriteTimeout, swriteTimer, toClient, cut, slost>>
  BY DEF ServerReads, clientVars
<1>2. Fresh(toServer') /\ Fresh(toClient')
  BY <1>1, FreshTail, TimingNumbers DEF TimeInv
<1>3. ConnectTiming'
  <2>1. sphase = "connecting" => cphase /= "failed"
    BY <1>1 DEF TimeInv, ConnectTiming
  <2>2. sphase = "connected" /\ cphase = "sent" => toClient /= <<>> /\ 0 <= toClient[1].age
    BY FirstAge, TimingNumbers DEF TimeInv, ConnectTiming
  <2> QED
    BY <1>1, <2>1, <2>2, TimingFixed DEF TimeInv, ConnectTiming
<1>4. BeatTiming'
  <2> SUFFICES ASSUME cphase = "up" PROVE BeatTiming'
    BY <1>1 DEF BeatTiming
  <2>1. cwriteTimer \in Nat /\ cwriteTimeout \in Nat /\ Delay \in Nat /\ toServer' \in Flight
    BY TimingNumbers DEF HInv, TypeOK
  <2>2. toServer' /= <<>> => toServer'[1].age \in Nat
    BY <2>1, FirstAge
  <2>3. 0 <= 0 + IF toServer' = <<>> THEN cwriteTimer + Delay
                 ELSE cwriteTimeout + Delay + toServer'[1].age
    BY <2>1, <2>2
  <2> QED
    BY <1>1, <2>3, TimingFixed DEF TimeInv, BeatTiming
<1> QED
  BY <1>1, <1>2, <1>3, <1>4 DEF TimeInv

\* handleConnect answers at once; the answer reaches a client that waits for it.
LEMMA HandleConnectTiming == HInv /\ HInv' /\ TimeInv /\ Alive /\ HandleConnect => TimeInv'
<1> SUFFICES ASSUME HInv, HInv', TimeInv, Alive, HandleConnect PROVE TimeInv'
  OBVIOUS
<1> DEFINE f  == Head(readChannel)
           ok == /\ opts.known \/ ~config.strict
                 /\ DetermineVersion(f.versions) > 10
                 /\ HeartBeatValid(f.hb)
           g  == ConnectedFrame(DetermineVersion(f.versions), <<Period(2), Period(1)>>)
<1>1. /\ sphase = "connecting" /\ readChannel /= <<>> /\ swriteTimer' = 0
      /\ UNCHANGED <<opts, config, cphase, sreadTimer, toServer, cut>>
  BY DEF HandleConnect, clientVars
<1>2. cphase = "sent" /\ toClient = <<>> /\ sreadTimer = 0 /\ readChannel[1] = ConnectRequest
  <2>1. 1 \in DOMAIN readChannel
    BY <1>1, TailSame, TimingNumbers
  <2>2. cphase \in {"start", "sent", "failed"} /\ cphase /= "start" /\ cphase /= "failed"
    BY <1>1 DEF HInv, BeforeAnswer, TimeInv, ConnectTiming
  <2> QED
    BY <1>1, <2>1, <2>2 DEF HInv, BeforeAnswer, TimeInv, ConnectTiming
<1>3. f.hb = Asked /\ f = ConnectRequest /\ f.versions = AcceptVersions(opts)
  <2>1. f = readChannel[1]
    BY <1>1, TailSame, TimingNumbers
  <2> QED
    BY <1>2, <2>1, RequestType DEF HInv, TypeOK
<1>4. Fresh(toServer')
  BY <1>1 DEF TimeInv
<1>5. CASE ok
  <2>1. /\ sphase' = "connected" /\ swriteTimeout' = Period(2) * Ms
        /\ toClient' = Write(toClient, g)
    BY <1>3, <1>5 DEF HandleConnect, Period, Answer
  <2>2. g \in Frame /\ g.cmd = "CONNECTED"
    <3>1. DetermineVersion(f.versions) \in Nat
      <4>1. f.versions \in Seq(Nat)
        BY <1>3, RequestType DEF HInv, TypeOK
      <4> QED
        BY <4>1, DetermineVersionGreatest DEF Versions
    <3> QED
      BY <3>1, FrameTypes, TimingNumbers DEF ConnectedFrame
  <2>3. Fresh(toClient') /\ toClient' /= <<>> /\ toClient'[1] = [frame |-> g, age |-> 0]
    BY <1>2, <2>1, <2>2, FreshWrite, TimingNumbers DEF TimeInv, Alive
  <2>4. toClient'[1].frame = g /\ toClient'[1].age = 0
    BY <2>3
  <2>5. 0 <= Period(2) * Ms
    BY TimingNumbers, PositiveProduct
  <2>6. ConnectTiming' /\ BeatTiming'
    BY <1>1, <1>2, <2>1, <2>2, <2>3, <2>4, <2>5, TimingFixed DEF ConnectTiming, BeatTiming
  <2> QED
    BY <1>1, <1>2, <1>4, <2>1, <2>3, <2>6 DEF TimeInv
<1>6. CASE ~ok
  <2>1. sphase' = "refused" /\ toClient' = Write(toClient, ErrorFrame)
    BY <1>6 DEF HandleConnect
  <2>2. Fresh(toClient')
    BY <2>1, FrameTypes, FreshWrite, TimingNumbers DEF TimeInv, Alive
  <2>3. ConnectTiming' /\ BeatTiming'
    BY <1>1, <1>2, <2>1 DEF ConnectTiming, BeatTiming
  <2> QED
    BY <1>1, <1>2, <1>4, <2>1, <2>2, <2>3 DEF TimeInv
<1> QED
  BY <1>5, <1>6

\* Connect reads the answer: what was accepted is a version that it supports, and
\* both its timers start.
LEMMA ClientReadsTiming == HInv /\ HInv' /\ TimeInv /\ Alive /\ ClientReads => TimeInv'
<1> SUFFICES ASSUME HInv, HInv', TimeInv, Alive, ClientReads PROVE TimeInv'
  OBVIOUS
<1> DEFINE f == Head(toClient).frame
<1>1. /\ cphase = "sent" /\ toClient /= <<>> /\ toClient' = Tail(toClient)
      /\ creadTimer' = 0 /\ cwriteTimer' = 0 /\ slost' = 0
      /\ UNCHANGED <<opts, config, sphase, sreadTimer, sreadTimeout, swriteTimeout,
                     swriteTimer, readChannel, toServer, cut, clost>>
  BY DEF ClientReads, serverVars
<1>2. /\ toServer \in Flight /\ toClient \in Flight
      /\ Head(toClient) = toClient[1] /\ 1 \in DOMAIN toClient
      /\ toClient[1].age \in Nat /\ toClient[1].age <= Delay
  BY <1>1, TailSame, FirstAge, TimingNumbers DEF TimeInv, Fresh, Flight
<1>3. Fresh(toServer') /\ Fresh(toClient')
  BY <1>1, <1>2, FreshTail DEF TimeInv
<1>4. sphase \notin {"connecting", "timedout", "ended"} /\ AfterAnswer
  BY <1>1 DEF HInv, BeforeAnswer, Alive, GivenUp
<1>5. CASE sphase = "connected"
  <2>1. f.cmd = "CONNECTED" /\ sreadTimer <= Delay
    <3>1. sreadTimer \in Nat /\ Delay \in Nat
      BY TimingNumbers
    <3>2. toClient[1].frame.cmd = "CONNECTED" /\ sreadTimer <= toClient[1].age
      BY <1>1, <1>5 DEF TimeInv, ConnectTiming
    <3> QED
      BY <1>2, <3>1, <3>2
  <2>2. f = ConnectedFrame(sversion, <<Period(2), Period(1)>>)
    BY <1>2, <1>4, <2>1 DEF AfterAnswer
  <2>3. /\ f.versions[1] = sversion
        /\ ParseHeartBeat(f.hb)[1] = Period(2) * Ms
    BY <2>2 DEF ConnectedFrame, ParseHeartBeat
  <2>4. CheckSupported(f.versions[1])
    <3>1. sversion \in Versions \cup {0} /\ sversion > 10
      BY <1>5 DEF HInv, TypeOK, AcceptedInv, Accepted
    <3> QED
      BY <2>3, <3>1 DEF CheckSupported
  <2>5. cphase' = "up" /\ creadTimeout' = ClientReadTimeout(Period(2) * Ms)
    BY <2>1, <2>3, <2>4 DEF ClientReads
  <2>6. ConnectTiming'
    BY <1>1, <1>5, <2>5, TimingFixed DEF TimeInv, ConnectTiming
  <2>7. BeatTiming'
    <3>1. /\ toServer' \in Flight /\ toClient' \in Flight /\ cwriteTimeout' \in Nat
          /\ swriteTimeout' \in Nat /\ swriteTimer' \in Nat /\ sreadTimer' \in Nat
          /\ sreadTimer' <= Delay /\ Delay \in Nat /\ clost' \in Nat
      BY <1>1, <2>1, TimingNumbers DEF HInv, TypeOK
    <3>2. /\ toServer' /= <<>> => toServer'[1].age \in Nat
          /\ toClient' /= <<>> => toClient'[1].age \in Nat
      BY <3>1, FirstAge
    <3>3. sreadTimer' <= clost' + IF toServer' = <<>> THEN 0 + Delay
                                  ELSE cwriteTimeout' + Delay + toServer'[1].age
      <4> DEFINE x == IF toServer' = <<>> THEN 0 + Delay ELSE cwriteTimeout' + Delay + toServer'[1].age
      <4>1. ASSUME toServer' = <<>> PROVE x \in Nat /\ x >= Delay
        <5>1. x = 0 + Delay
          BY <4>1
        <5> QED
          BY <3>1, <5>1
      <4>2. ASSUME toServer' /= <<>> PROVE x \in Nat /\ x >= Delay
        <5>1. x = cwriteTimeout' + Delay + toServer'[1].age
          BY <4>2
        <5> QED
          BY <3>1, <3>2, <4>2, <5>1
      <4>3. x \in Nat /\ x >= Delay
        BY <4>1, <4>2
      <4> HIDE DEF x
      <4>4. \A t, l, y \in Nat : t <= Delay /\ Delay <= y => t <= l + y
        BY HandshakeAssumption
      <4>5. sreadTimer' <= clost' + x
        BY <3>1, <4>3, <4>4
      <4> QED
        BY <4>5 DEF x
    <3>4. 0 <= 0 + IF toClient' = <<>> THEN swriteTimer'
                   ELSE swriteTimeout' + toClient'[1].age
      <4> DEFINE x == IF toClient' = <<>> THEN swriteTimer' ELSE swriteTimeout' + toClient'[1].age
      <4>1. ASSUME toClient' = <<>> PROVE x \in Nat /\ x >= 0
        <5>1. x = swriteTimer'
          BY <4>1
        <5> QED
          BY <3>1, <5>1
      <4>2. ASSUME toClient' /= <<>> PROVE x \in Nat /\ x >= 0
        <5>1. x = swriteTimeout' + toClient'[1].age
          BY <4>2
        <5> QED
          BY <3>1, <3>2, <4>2, <5>1
      <4>3. x \in Nat /\ x >= 0
        BY <4>1, <4>2
      <4> HIDE DEF x
      <4>4. 0 <= 0 + x
        BY <3>1, <4>3
      <4> QED
        BY <4>4 DEF x
    <3>5. cwriteTimeout' > 0 => 0 <= cwriteTimeout'
      BY <3>1
    <3> QED
      BY <1>1, <2>5, <3>3, <3>4, <3>5, TimingFixed DEF BeatTiming
  <2> QED
    BY <1>1, <1>3, <1>5, <2>5, <2>6, <2>7 DEF TimeInv
<1>6. CASE sphase /= "connected"
  <2>1. cphase' = "failed"
    <3>1. f.cmd /= "CONNECTED"
      BY <1>2, <1>4, <1>6 DEF AfterAnswer, Accepted
    <3> QED
      BY <3>1 DEF ClientReads
  <2>2. ConnectTiming' /\ BeatTiming'
    BY <1>1, <1>4, <1>6, <2>1 DEF ConnectTiming, BeatTiming
  <2> QED
    BY <1>1, <1>3, <1>4, <2>1, <2>2 DEF TimeInv
<1> QED
  BY <1>4, <1>5, <1>6

\* A frame from the server stops the read timer of the client.
LEMMA ClientReceivesTiming == HInv /\ HInv' /\ TimeInv /\ Alive /\ ClientReceives => TimeInv'
<1> SUFFICES ASSUME HInv, HInv', TimeInv, Alive, ClientReceives PROVE TimeInv'
  OBVIOUS
<1>1. /\ cphase = "up" /\ toClient /= <<>> /\ toClient' = Tail(toClient) /\ creadTimer' = 0
      /\ slost' = 0
      /\ UNCHANGED <<opts, config, cphase, creadTimeout, cwriteTimeout, cwriteTimer, sphase,
                     swriteTimeout, sreadTimer, swriteTimer, readChannel, toServer, cut, clost>>
  BY DEF ClientReceives, serverVars
<1>2. Fresh(toServer') /\ Fresh(toClient')
  BY <1>1, FreshTail, TimingNumbers DEF TimeInv
<1>3. ConnectTiming'
  BY <1>1, TimingFixed DEF TimeInv, ConnectTiming
<1>4. BeatTiming'
  <2>1. swriteTimer \in Nat /\ swriteTimeout \in Nat /\ toClient' \in Flight
    BY TimingNumbers DEF HInv, TypeOK
  <2>2. toClient' /= <<>> => toClient'[1].age \in Nat
    BY <2>1, FirstAge
  <2>3. 0 <= 0 + IF toClient' = <<>> THEN swriteTimer ELSE swriteTimeout + toClient'[1].age
    BY <2>1, <2>2
  <2> QED
    BY <1>1, <2>3, TimingFixed DEF TimeInv, BeatTiming
<1> QED
  BY <1>1, <1>2, <1>3, <1>4 DEF TimeInv

\* Whatever the client writes, it leaves before the write timeout is over.
LEMMA ClientWritesTiming ==
  HInv /\ HInv' /\ TimeInv /\ Alive /\ (ClientBeats \/ ClientSends) => TimeInv'
<1> SUFFICES ASSUME HInv, HInv', TimeInv, Alive, ClientBeats \/ ClientSends PROVE TimeInv'
  OBVIOUS
<1>1. PICK f \in {HeartBeat, DataFrame} : toServer' = Write(toServer, f)
  BY DEF ClientBeats, ClientSends, ClientWrites
<1>2. /\ cphase = "up" /\ cwriteTimer' = 0
      /\ UNCHANGED <<opts, config, cphase, creadTimeout, cwriteTimeout, creadTimer, sphase,
                     swriteTimeout, sreadTimer, swriteTimer, readChannel, toClient, cut,
                     clost, slost>>
  BY DEF ClientBeats, ClientSends, ClientWrites, ClientBeatDue, serverVars, lostVars
<1>3. /\ toServer \in Flight /\ cwriteTimer \in Nat /\ cwriteTimeout \in Nat
      /\ Delay \in Nat /\ sreadTimer \in Nat /\ clost \in Nat
  BY TimingNumbers
<1>4. /\ Fresh(toServer') /\ toServer' /= <<>>
      /\ toServer'[1] = IF toServer = <<>> THEN [frame |-> f, age |-> 0] ELSE toServer[1]
  BY <1>1, <1>3, FrameTypes, FreshWrite DEF TimeInv, Alive
<1>5. sphase /= "connecting" /\ ConnectTiming /\ BeatTiming
  BY <1>2 DEF HInv, BeforeAnswer, TimeInv
<1>6. ConnectTiming'
  BY <1>2, <1>5, TimingFixed DEF ConnectTiming
<1>7. ASSUME cwriteTimeout > 0
      PROVE  sreadTimer <= clost + (cwriteTimeout + Delay + toServer'[1].age)
  <2>1. CASE toServer = <<>>
    <3>1. sreadTimer <= clost + (cwriteTimer + Delay) /\ cwriteTimer <= cwriteTimeout
      BY <1>2, <1>5, <1>7, <2>1 DEF BeatTiming
    <3>2. toServer'[1].age = 0
      BY <1>4, <2>1
    <3> QED
      BY <1>3, <3>1, <3>2
  <2>2. CASE toServer /= <<>>
    BY <1>2, <1>4, <1>5, <1>7, <2>2 DEF BeatTiming
  <2> QED
    BY <2>1, <2>2
<1>8. BeatTiming'
  BY <1>2, <1>3, <1>4, <1>5, <1>7, TimingFixed DEF BeatTiming
<1> QED
  BY <1>2, <1>4, <1>6, <1>8 DEF TimeInv

\* Whatever the server writes, it leaves before the write timeout is over; a RECEIPT
\* leaves the timer running.
LEMMA ServerWritesTiming ==
  HInv /\ HInv' /\ TimeInv /\ Alive /\ (ServerBeats \/ ServerSends \/ HandleOther) => TimeInv'
<1> SUFFICES ASSUME HInv, HInv', TimeInv, Alive, ServerBeats \/ ServerSends \/ HandleOther
             PROVE  TimeInv'
  OBVIOUS
<1>1. /\ sphase = "connected"
      /\ swriteTimer' = swriteTimer \/ swriteTimer' = 0
      /\ UNCHANGED <<opts, config, cphase, creadTimeout, cwriteTimeout, creadTimer, cwriteTimer,
                     sphase, swriteTimeout, sreadTimer, toServer, cut, clost, slost>>
  BY DEF ServerBeats, ServerSends, ServerWrites, ServerBeatDue, HandleOther, clientVars, lostVars
<1>2. /\ toClient \in Flight /\ swriteTimer \in Nat /\ swriteTimeout \in Nat
      /\ creadTimer \in Nat /\ slost \in Nat
  BY TimingNumbers
<1>3. ConnectTiming /\ BeatTiming /\ Fresh(toServer) /\ Fresh(toClient)
  BY DEF TimeInv
<1>4. CASE toClient' = toClient
  <2>1. swriteTimer' = swriteTimer
    <3>1. CASE HandleOther
      BY <3>1 DEF HandleOther
    <3>2. CASE ServerBeats \/ ServerSends
      <4>1. PICK f \in {HeartBeat, DataFrame} : toClient' = Write(toClient, f)
        BY <3>2 DEF ServerBeats, ServerSends, ServerWrites
      <4>2. Len(Append(toClient, [frame |-> f, age |-> 0])) = Len(toClient) + 1
            /\ Len(toClient) \in Nat
        BY <1>2, FrameTypes DEF Flight
      <4> QED
        BY <1>4, <4>1, <4>2 DEF Write, Alive
    <3> QED
      BY <3>1, <3>2
  <2> QED
    BY <1>1, <1>3, <1>4, <2>1, TimingFixed DEF TimeInv, ConnectTiming, BeatTiming, Fresh
<1>5. CASE toClient' /= toClient
  <2>1. PICK f \in {HeartBeat, DataFrame} : toClient' = Write(toClient, f)
    BY <1>5 DEF ServerBeats, ServerSends, ServerWrites, HandleOther
  <2>2. /\ Fresh(toClient') /\ toClient' /= <<>>
        /\ toClient'[1] = IF toClient = <<>> THEN [frame |-> f, age |-> 0] ELSE toClient[1]
    BY <1>2, <1>3, <2>1, FrameTypes, FreshWrite DEF Alive
  <2>3. ConnectTiming'
    BY <1>1, <1>2, <1>3, <2>2, TimingFixed DEF ConnectTiming
  <2>4. ASSUME swriteTimeout > 0, cphase = "up"
        PROVE  creadTimer <= slost + (swriteTimeout + toClient'[1].age)
    <3>1. CASE toClient = <<>>
      <4>1. creadTimer <= slost + swriteTimer /\ swriteTimer <= swriteTimeout
        BY <1>1, <1>3, <2>4, <3>1 DEF BeatTiming, ConnectTiming
      <4>2. toClient'[1].age = 0
        BY <2>2, <3>1
      <4> QED
        BY <1>2, <4>1, <4>2
    <3>2. CASE toClient /= <<>>
      BY <1>3, <2>2, <2>4, <3>2 DEF BeatTiming
    <3> QED
      BY <3>1, <3>2
  <2>5. BeatTiming'
    BY <1>1, <1>3, <2>2, <2>4, TimingFixed DEF BeatTiming
  <2> QED
    BY <1>1, <1>3, <2>2, <2>3, <2>5 DEF TimeInv
<1> QED
  BY <1>4, <1>5

\* A restart of a write timer without a write is counted: the silence may last as
\* long as the timer had run.
LEMMA RestartTiming ==
  HInv /\ HInv' /\ TimeInv /\ Alive /\ (ClientKeepsRequest \/ ServerReturnsFrame) => TimeInv'
<1> SUFFICES ASSUME HInv, HInv', TimeInv, Alive PROVE
      ClientKeepsRequest \/ ServerReturnsFrame => TimeInv'
  OBVIOUS
<1>1. /\ cwriteTimeout \in Nat /\ swriteTimeout \in Nat
      /\ creadTimer \in Nat /\ cwriteTimer \in Nat
      /\ sreadTimer \in Nat /\ swriteTimer \in Nat
      /\ toServer \in Flight /\ toClient \in Flight
      /\ clost \in Nat /\ slost \in Nat /\ Delay \in Nat
  BY TimingNumbers
<1>2. /\ toServer /= <<>> => toServer[1].age \in Nat
      /\ toClient /= <<>> => toClient[1].age \in Nat
  BY <1>1, FirstAge
<1>3. Fresh(toServer) /\ Fresh(toClient) /\ ConnectTiming /\ BeatTiming
  BY DEF TimeInv
<1>4. CASE ClientKeepsRequest
  <2>1. /\ cphase = "up" /\ cwriteTimer' = 0
        /\ sphase = "connected" => clost' = clost + cwriteTimer
        /\ UNCHANGED <<opts, config, cphase, creadTimeout, cwriteTimeout, creadTimer, sphase,
                       swriteTimeout, sreadTimer, swriteTimer, readChannel, toServer, toClient,
                       slost>>
    BY <1>4 DEF ClientKeepsRequest, serverVars, netVars
  <2>2. sphase = "connected"
    BY <2>1 DEF HInv, UpInv, Accepted, Alive, GivenUp
  <2>3. cwriteTimeout > 0 => sreadTimer <= clost' + IF toServer = <<>> THEN 0 + Delay
                                ELSE cwriteTimeout + Delay + toServer[1].age
    BY <1>1, <1>2, <1>3, <2>1, <2>2 DEF BeatTiming
  <2>4. ConnectTiming' /\ BeatTiming'
    BY <1>1, <1>3, <2>1, <2>3, TimingFixed DEF ConnectTiming, BeatTiming
  <2> QED
    BY <1>3, <2>1, <2>4 DEF TimeInv
<1>5. CASE ServerReturnsFrame
  <2>1. /\ sphase = "connected" /\ swriteTimer' = 0
        /\ cphase = "up" => slost' = slost + swriteTimer
        /\ UNCHANGED <<opts, config, cphase, creadTimeout, cwriteTimeout, creadTimer,
                       cwriteTimer, sphase, swriteTimeout, sreadTimer, readChannel, toServer,
                       toClient, clost>>
    BY <1>5 DEF ServerReturnsFrame, clientVars, netVars
  <2>2. cphase = "up" /\ swriteTimeout > 0 =>
          creadTimer <= slost' + IF toClient = <<>> THEN 0 ELSE swriteTimeout + toClient[1].age
    BY <1>1, <1>2, <1>3, <2>1 DEF BeatTiming
  <2>3. ConnectTiming' /\ BeatTiming'
    BY <1>1, <1>3, <2>1, <2>2, TimingFixed DEF ConnectTiming, BeatTiming
  <2> QED
    BY <1>3, <2>1, <2>3 DEF TimeInv
<1> QED
  BY <1>4, <1>5

\* A tick moves the timers of both sides and the frames under way together.
LEMMA TickTiming == HInv /\ HInv' /\ TimeInv /\ Alive /\ Tick => TimeInv'
<1> SUFFICES ASSUME HInv, HInv', TimeInv, Alive, Tick PROVE TimeInv'
  OBVIOUS
<1>1. /\ creadTimer' = Run(creadTimer, cphase = "up" /\ creadTimeout > 0)
      /\ cwriteTimer' = Run(cwriteTimer, cphase = "up" /\ cwriteTimeout > 0)
      /\ sreadTimer' = Run(sreadTimer, sphase = "connected" /\ sreadTimeout > 0)
      /\ swriteTimer' = Run(swriteTimer, sphase = "connected" /\ swriteTimeout > 0)
      /\ toServer' = Older(toServer) /\ toClient' = Older(toClient)
      /\ ~ClientBeatDue /\ ~ServerBeatDue
      /\ sphase = "connected" => ~Overdue(toServer)
      /\ cphase \in {"sent", "up"} => ~Overdue(toClient)
      /\ UNCHANGED <<opts, config, cphase, creadTimeout, cwriteTimeout, sphase,
                     sreadTimeout, swriteTimeout, readChannel, cut, clost, slost>>
  BY DEF Tick, lostVars
<1>2. /\ creadTimeout \in Nat /\ cwriteTimeout \in Nat
      /\ sreadTimeout \in Nat /\ swriteTimeout \in Nat
      /\ creadTimer \in Nat /\ cwriteTimer \in Nat
      /\ sreadTimer \in Nat /\ swriteTimer \in Nat
      /\ toServer \in Flight /\ toClient \in Flight /\ Delay \in Nat
      /\ clost \in Nat /\ slost \in Nat
  BY TimingNumbers
<1>3. ConnectTiming /\ BeatTiming
  BY DEF TimeInv
<1>4. /\ Fresh(toServer') /\ (toServer' = <<>> <=> toServer = <<>>)
      /\ toServer /= <<>> /\ sphase = "connected" => toServer'[1].age = toServer[1].age + 1
  BY <1>1, <1>2, FreshOlder DEF TimeInv
<1>5. /\ Fresh(toClient') /\ (toClient' = <<>> <=> toClient = <<>>)
      /\ toClient /= <<>> => toClient'[1].frame = toClient[1].frame
      /\ toClient /= <<>> /\ cphase \in {"sent", "up"} =>
            toClient'[1].age = toClient[1].age + 1
  BY <1>1, <1>2, FreshOlder DEF TimeInv
<1>6. /\ toServer /= <<>> => toServer[1].age \in Nat
      /\ toClient /= <<>> => toClient[1].age \in Nat
  BY <1>2, FirstAge
<1>7. ConnectTiming'
  <2>1. sphase = "connecting" => sreadTimer' = 0
    BY <1>1, <1>3 DEF ConnectTiming, Run
  <2>2. sphase = "connected" /\ swriteTimeout > 0 => swriteTimer' <= swriteTimeout
    BY <1>1, <1>2 DEF Run, ServerBeatDue
  <2>3. sphase = "connected" /\ cphase = "sent" => sreadTimer' <= toClient'[1].age
    BY <1>1, <1>2, <1>3, <1>5, <1>6 DEF ConnectTiming, Run
  <2> QED
    BY <1>1, <1>3, <1>4, <1>5, <2>1, <2>2, <2>3, TimingFixed DEF ConnectTiming
<1>8. BeatTiming'
  <2> SUFFICES ASSUME cphase = "up" PROVE BeatTiming'
    BY <1>1 DEF BeatTiming
  <2>1. sphase = "connected"
    BY DEF HInv, UpInv, Accepted, Alive, GivenUp
  <2>2. cwriteTimeout > 0 => cwriteTimer' = cwriteTimer + 1 /\ cwriteTimer' <= cwriteTimeout
    BY <1>1, <1>2 DEF Run, ClientBeatDue
  <2>3. sreadTimer' <= sreadTimer + 1 /\ sreadTimer' \in Nat
    BY <1>1, <1>2 DEF Run
  <2>4. creadTimer' <= creadTimer + 1 /\ creadTimer' \in Nat
    BY <1>1, <1>2 DEF Run
  <2>5. ASSUME cwriteTimeout > 0
        PROVE  sreadTimer' <= clost + IF toServer' = <<>> THEN cwriteTimer' + Delay
                                      ELSE cwriteTimeout + Delay + toServer'[1].age
    <3>1. CASE toServer = <<>>
      <4>1. sreadTimer <= clost + (cwriteTimer + Delay)
        BY <1>3, <2>5, <3>1 DEF BeatTiming
      <4> QED
        BY <1>2, <1>4, <2>2, <2>3, <2>5, <3>1, <4>1
    <3>2. CASE toServer /= <<>>
      <4>1. sreadTimer <= clost + (cwriteTimeout + Delay + toServer[1].age)
        BY <1>3, <2>5, <3>2 DEF BeatTiming
      <4> QED
        BY <1>2, <1>4, <1>6, <2>1, <2>3, <3>2, <4>1
    <3> QED
      BY <3>1, <3>2
  <2>6. ASSUME swriteTimeout > 0
        PROVE  creadTimer' <= slost + IF toClient' = <<>> THEN swriteTimer'
                                      ELSE swriteTimeout + toClient'[1].age
    <3>1. CASE toClient = <<>>
      <4>1. creadTimer <= slost + swriteTimer /\ swriteTimer' = swriteTimer + 1
        BY <1>1, <1>3, <2>1, <2>6, <3>1 DEF BeatTiming, Run
      <4> QED
        BY <1>2, <1>5, <2>4, <3>1, <4>1
    <3>2. CASE toClient /= <<>>
      <4>1. creadTimer <= slost + (swriteTimeout + toClient[1].age)
        BY <1>3, <2>6, <3>2 DEF BeatTiming
      <4> QED
        BY <1>2, <1>5, <1>6, <2>4, <3>2, <4>1
    <3> QED
      BY <3>1, <3>2
  <2> QED
    BY <1>1, <1>3, <2>2, <2>5, <2>6, TimingFixed DEF BeatTiming
<1> QED
  BY <1>1, <1>4, <1>5, <1>7, <1>8 DEF TimeInv

\* The initial states satisfy the timing invariant.
LEMMA TimingInit == Init => TimeInv
<1> SUFFICES ASSUME Init PROVE TimeInv
  OBVIOUS
<1>1. /\ cphase = "start" /\ sphase = "connecting" /\ sreadTimer = 0
      /\ toServer = <<>> /\ toClient = <<>>
  BY DEF Init
<1>2. Fresh(toServer) /\ Fresh(toClient)
  BY <1>1 DEF Fresh
<1> QED
  BY <1>1, <1>2 DEF TimeInv, ConnectTiming, BeatTiming

\* A connection that is cut, or that a side has given up, stays so.
LEMMA DeadStays == ~Alive /\ Next => ~Alive'
  BY DEF Alive, GivenUp, Next, Stations, ClientConnects, ServerReads, HandleConnect, HandleOther,
     ClientReads, ClientReceives, ClientBeats, ClientSends, ClientWrites, ServerBeats,
     ServerSends, ServerWrites, ClientKeepsRequest, ServerReturnsFrame, ClientTimesOut,
     ServerTimesOut, ClientExpired, ServerExpired, Ends, Tick, Cut, clientVars, serverVars, netVars

\* The step that gives up closes the connection, which ends the other side.
LEMMA ClosingStep == HInv /\ Closing /\ Next => Closing'
<1> SUFFICES ASSUME HInv, Closing, Next PROVE Closing'
  OBVIOUS
<1>1. /\ sphase = "connecting" => cphase \in {"start", "sent", "failed"}
      /\ sphase /= "connecting" => cphase /= "start"
      /\ cphase \in {"up", "timedout"} => sphase \in {"connected", "timedout", "ended"}
  BY DEF HInv, BeforeAnswer, AfterAnswer, UpInv, Accepted
<1>2. CASE UNCHANGED <<cphase, sphase, cut>>
  BY <1>2 DEF Closing
<1>3. CASE ClientConnects \/ ClientReads \/ HandleConnect
  BY <1>1, <1>3 DEF ClientConnects, ClientReads, HandleConnect, clientVars, serverVars,
     Closing, GivenUp
<1>4. CASE ClientTimesOut \/ ServerTimesOut
  BY <1>1, <1>4 DEF ClientTimesOut, ServerTimesOut, ClientExpired, ServerExpired, Ends, netVars,
     Closing, GivenUp
<1>5. CASE Cut
  BY <1>5 DEF Cut, Closing
<1>6. CASE \/ ServerReads \/ HandleOther \/ ClientReceives \/ ClientBeats \/ ServerBeats
           \/ ClientSends \/ ServerSends \/ ClientKeepsRequest \/ ServerReturnsFrame \/ Tick
  <2>1. UNCHANGED <<cphase, sphase, cut>>
    BY <1>6 DEF ServerReads, HandleOther, ClientReceives, ClientBeats, ClientSends, ClientWrites,
       ServerBeats, ServerSends, ServerWrites, ClientKeepsRequest, ServerReturnsFrame, Tick,
       clientVars, serverVars, netVars
  <2> QED
    BY <1>2, <2>1
<1> QED
  BY <1>3, <1>4, <1>5, <1>6 DEF Next, Stations

\* What a side had waited for when it gave up does not change afterwards.
LEMMA GivenUpFixed ==
  ASSUME HInv, Closing, Next, ~cut
  PROVE  /\ cphase = "timedout" => UNCHANGED <<cphase, opts, creadTimeout, swriteTimeout, slost>>
         /\ sphase = "timedout" => UNCHANGED <<sphase, sreadTimeout, cwriteTimeout, clost>>
<1>1. /\ cphase = "timedout" => sphase /= "connecting"
      /\ sphase = "timedout" => cphase \notin {"sent", "up"}
  BY DEF HInv, UpInv, Accepted, Closing, GivenUp
<1>2. CASE ClientConnects \/ ServerReads \/ HandleConnect \/ HandleOther \/ ClientReads
  BY <1>1, <1>2 DEF ClientConnects, ServerReads, HandleConnect, HandleOther, ClientReads,
     clientVars, serverVars, lostVars
<1>3. CASE ClientReceives \/ ClientBeats \/ ClientSends \/ ServerBeats \/ ServerSends
  BY <1>1, <1>3 DEF ClientReceives, ClientBeats, ClientSends, ClientWrites, ServerBeats,
     ServerSends, ServerWrites, clientVars, serverVars, lostVars
<1>4. CASE ClientKeepsRequest \/ ServerReturnsFrame
  BY <1>1, <1>4 DEF ClientKeepsRequest, ServerReturnsFrame, clientVars, serverVars
<1>5. CASE ClientTimesOut \/ ServerTimesOut
  BY <1>1, <1>5 DEF ClientTimesOut, ServerTimesOut, ClientExpired, ServerExpired, Ends, lostVars
<1>6. CASE Tick \/ Cut
  BY <1>6 DEF Tick, Cut, clientVars, serverVars, lostVars
<1> QED
  BY <1>2, <1>3, <1>4, <1>5, <1>6 DEF Next, Stations

\* A side that gives up has waited for its slack, or the connection was cut.
LEMMA GivesUpStep == TimedInv /\ Next => OnlyCutTimesOut'
<1> SUFFICES ASSUME HInv, TimeInv, Closing, OnlyCutTimesOut, Next PROVE OnlyCutTimesOut'
  BY DEF TimedInv
<1>1. CASE cut
  <2>1. cut'
    BY <1>1 DEF Next, Stations, ClientConnects, ServerReads, HandleConnect, HandleOther,
       ClientReads, ClientReceives, ClientBeats, ClientSends, ClientWrites, ServerBeats,
       ServerSends, ServerWrites, ClientKeepsRequest, ServerReturnsFrame, ClientTimesOut,
       ServerTimesOut, Tick, Cut, netVars
  <2> QED
    BY <2>1 DEF OnlyCutTimesOut
<1>2. CASE ~cut
  <2>1. cphase = "timedout" => cphase' = "timedout" /\ slost' + Delay >= ClientSlack'
    BY <1>2, GivenUpFixed DEF OnlyCutTimesOut, ClientSlack, ClientLimit
  <2>2. sphase = "timedout" => sphase' = "timedout" /\ clost' + 2 * Delay >= ServerSlack'
    BY <1>2, GivenUpFixed DEF OnlyCutTimesOut, ServerSlack, ServerLimit
  <2>3. ASSUME cphase /= "timedout", cphase' = "timedout" PROVE slost' + Delay >= ClientSlack'
    <3>1. ClientTimesOut
      BY <2>3 DEF Next, Stations, ClientConnects, ServerReads, HandleConnect, HandleOther,
         ClientReads, ClientReceives, ClientBeats, ClientSends, ClientWrites, ServerBeats,
         ServerSends, ServerWrites, ClientKeepsRequest, ServerReturnsFrame, ServerTimesOut,
         Ends, Tick, Cut, clientVars
    <3>2. Alive
      BY <1>2, <3>1 DEF ClientTimesOut, ClientExpired, Alive, Closing, GivenUp
    <3> QED
      BY <3>1, <3>2, ExpiredLate DEF ClientTimesOut, ClientSlack, ClientLimit, lostVars
  <2>4. ASSUME sphase /= "timedout", sphase' = "timedout" PROVE clost' + 2 * Delay >= ServerSlack'
    <3>1. ServerTimesOut
      BY <2>4 DEF Next, Stations, ClientConnects, ServerReads, HandleConnect, HandleOther,
         ClientReads, ClientReceives, ClientBeats, ClientSends, ClientWrites, ServerBeats,
         ServerSends, ServerWrites, ClientKeepsRequest, ServerReturnsFrame, ClientTimesOut,
         Ends, Tick, Cut, serverVars
    <3>2. Alive
      BY <1>2, <3>1 DEF ServerTimesOut, ServerExpired, Alive, Closing, GivenUp
    <3> QED
      BY <3>1, <3>2, ExpiredLate DEF ServerTimesOut, ServerSlack, ServerLimit, lostVars
  <2> QED
    BY <2>1, <2>2, <2>3, <2>4 DEF OnlyCutTimesOut
<1> QED
  BY <1>1, <1>2

\* The timing of the connection in every state, for all options, periods and delays up
\* to HeartBeatError: as long as it holds, the timer of a reader is ahead of what the
\* writer has left to do by at most the delay of a frame and what restarts of the write
\* timer without a write have put off.
THEOREM TimingInvariance == Spec => []TimedInv
<1>1. TimedInv /\ HInv' /\ [Next]_vars => TimeInv' /\ Closing' /\ OnlyCutTimesOut'
  <2> SUFFICES ASSUME TimedInv, HInv', [Next]_vars PROVE TimeInv' /\ Closing' /\ OnlyCutTimesOut'
    OBVIOUS
  <2>0. HInv /\ TimeInv /\ Closing /\ OnlyCutTimesOut
    BY DEF TimedInv
  <2>1. CASE Next
    <3>1. TimeInv'
      <4>1. CASE ~Alive
        BY <2>1, <4>1, DeadStays DEF TimeInv
      <4>2. CASE Cut \/ ClientTimesOut \/ ServerTimesOut
        BY <4>2 DEF Cut, ClientTimesOut, ServerTimesOut, Alive, GivenUp, TimeInv
      <4>3. CASE Alive /\ ~Cut /\ ~ClientTimesOut /\ ~ServerTimesOut
        BY <2>0, <2>1, <4>3, ConnectsTiming, ServerReadsTiming, HandleConnectTiming,
           ClientReadsTiming, ClientReceivesTiming, ClientWritesTiming, ServerWritesTiming,
           RestartTiming, TickTiming DEF Next, Stations
      <4> QED
        BY <4>1, <4>2, <4>3
    <3> QED
      BY <2>0, <2>1, <3>1, ClosingStep, GivesUpStep
  <2>2. CASE UNCHANGED vars
    <3>1. UNCHANGED <<opts, config, cphase, creadTimeout, cwriteTimeout, creadTimer,
                      cwriteTimer, sphase, sreadTimeout, swriteTimeout, sreadTimer, swriteTimer,
                      readChannel, toServer, toClient, cut, clost, slost>>
      BY <2>2 DEF vars, clientVars, serverVars, netVars, lostVars
    <3>2. TimeInv'
      BY <2>0, <3>1, TimingFixed DEF TimeInv, Alive, ConnectTiming, BeatTiming, Fresh
    <3> QED
      BY <2>0, <3>1, <3>2 DEF Closing, OnlyCutTimesOut, ClientSlack, ServerSlack, ClientLimit,
         ServerLimit
  <2> QED
    BY <2>1, <2>2
<1>2. Init => TimeInv /\ Closing /\ OnlyCutTimesOut
  BY TimingInit DEF Init, Closing, OnlyCutTimesOut, GivenUp
<1> QED
  BY <1>1, <1>2, HInvInit, HandshakeInvariance, PTL DEF Spec, TimedInv

\* processLoop and readLoop give up a peer whose connection holds only when its writes
\* were put off, by silent restarts of its write timer and the delay of the frames, for
\* as long as the reader allows; whether the programs send or not.
THEOREM NoFalseTimeout == Spec => []OnlyCutTimesOut
<1>1. TimedInv => OnlyCutTimesOut
  BY DEF TimedInv
<1> QED
  BY <1>1, TimingInvariance, PTL

=============================================================================
