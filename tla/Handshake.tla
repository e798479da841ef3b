------------------------------ MODULE Handshake ------------------------------
(***************************************************************************)
(* The connect sequence between a client (Connect in conn.go) and a server *)
(* connection (server/client/conn.go), and the heart-beats that they agree *)
(* on: which version is spoken, how often each side writes, and how long   *)
(* each waits before it takes the other for dead.                          *)
(*                                                                         *)
(* Durations are counted in ticks, Ms of them to a millisecond; the values *)
(* of the heart-beat header are milliseconds, and 0 means none.  A frame   *)
(* takes at most Delay ticks from one station to the other, which includes *)
(* the time until the goroutine that waits for it runs.  The connection    *)
(* may be cut silently at any time: nothing arrives any more.              *)
(***************************************************************************)
EXTENDS Integers, Sequences

CONSTANTS
    Options,        \* the options of Connect that a program may choose
    Configs,        \* the configurations of a server
    Ms,             \* ticks per millisecond
    maxHeartBeat,   \* in milliseconds (999999999 in the code)
    maxPendingReads, \* capacity of readChannel (16)
    Delay,          \* ticks a frame takes at most
    FlightCap,      \* bound: frames of the programs under way at once
    LostCap         \* bound: ticks that restarts without a write may lose

Versions == {10, 11, 12}        \* V10, V11, V12
Commands == {"CONNECT", "STOMP"}

\* connOptions: AcceptVersions, WriteTimeout, ReadTimeout, HeartBeatError,
\* HeartBeatGracePeriodMultiplier; the credentials stand for what the server's
\* Authenticate says of them.
Option == [command : Commands, versions : Seq(Nat), write : Nat, read : Nat,
           error : Nat, grace : Nat \ {0}, known : BOOLEAN]

\* Config: HeartBeat() in ticks, and whether there is an Authenticator.
Config == [heartBeat : Nat, strict : BOOLEAN]

\* A read timeout below a millisecond, which NewFrame sends as "no heart-beats"
\* and Connect enforces all the same, is excluded.  HeartBeatError is documented to
\* be larger than the time that a frame takes.
ASSUME HandshakeAssumption ==
    /\ Ms \in Nat \ {0} /\ maxHeartBeat \in Nat \ {0}
    /\ maxPendingReads \in Nat \ {0}
    /\ Delay \in Nat /\ FlightCap \in Nat /\ LostCap \in Nat
    /\ Options \subseteq Option /\ Configs \subseteq Config
    /\ \A o \in Options : o.read \notin 1..(Ms - 1) /\ Delay < o.error

VARIABLES
    opts, config,               \* chosen before the connection is made
    \* the client
    cphase, cversion,
    creadTimeout, cwriteTimeout,    \* Conn.readTimeout, Conn.writeTimeout
    creadTimer, cwriteTimer,        \* ticks since the timers were started
    \* the connection of the server
    sphase, sversion,
    sreadTimeout,               \* readLoop: readTimeout
    swriteTimeout,              \* Conn.writeTimeout
    sreadTimer, swriteTimer,    \* ticks since the deadline was set, the timer started
    readChannel,                \* the frames that readLoop has read
    \* the network
    toServer, toClient,         \* frames under way, each with its age
    cut,
    \* history: what the write timer had run up to when it was last restarted without
    \* a write, summed up since the other side read something
    clost, slost

clientVars == <<cphase, cversion, creadTimeout, cwriteTimeout, creadTimer, cwriteTimer>>
serverVars == <<sphase, sversion, sreadTimeout, swriteTimeout, sreadTimer,
                swriteTimer, readChannel>>
netVars == <<toServer, toClient, cut>>
lostVars == <<clost, slost>>
vars == <<opts, config, clientVars, serverVars, netVars, lostVars>>

-----------------------------------------------------------------------------
(* Frames *)

ConnectedFrame(v, hb) == [cmd |-> "CONNECTED", versions |-> <<v>>, hb |-> hb]
PlainFrame(cmd) == [cmd |-> cmd, versions |-> <<>>, hb |-> <<0, 0>>]
HeartBeat == PlainFrame("beat")
ErrorFrame == PlainFrame("ERROR")
DataFrame == PlainFrame("data")

\* The frames under way after f has been written; a cut connection loses it.
Write(net, f) == IF cut THEN net ELSE Append(net, [frame |-> f, age |-> 0])

-----------------------------------------------------------------------------
(* The client connects *)

\* NewFrame: the values of the heart-beat header are whole milliseconds.
Milliseconds(d) == d \div Ms

\* ConnOpt.AcceptVersion: every version asked for has to be supported.
CheckSupported(v) == v \in Versions
OptionsValid(o) == \A i \in DOMAIN o.versions : CheckSupported(o.versions[i])

\* newConnOptions: without AcceptVersion the client accepts all three.
AcceptVersions(o) == IF o.versions = <<>> THEN <<10, 11, 12>> ELSE o.versions

\* connOptions.NewFrame: how often the client can write, and wants to read.
Asked == <<Milliseconds(opts.write), Milliseconds(opts.read)>>
ConnectRequest == [cmd |-> opts.command, versions |-> AcceptVersions(opts), hb |-> Asked]

ClientConnects ==
    /\ cphase = "start"
    /\ IF OptionsValid(opts)
       THEN /\ cphase' = "sent"
            /\ toServer' = Write(toServer, ConnectRequest)
       ELSE cphase' = "failed" /\ UNCHANGED toServer
    /\ UNCHANGED <<opts, config, cversion, creadTimeout, cwriteTimeout, creadTimer,
                   cwriteTimer, serverVars, toClient, cut, lostVars>>

-----------------------------------------------------------------------------
(* The server answers *)

\* determineVersion: the latest of the versions in the list that the server
\* knows, 0 when there is none.
LastListed(list) == IF list = <<>> THEN 0 ELSE list[Len(list)]  \* faulty variant
DetermineVersion(list) ==
    LET found == {list[i] : i \in DOMAIN list} \cap Versions
    IN IF found = {} THEN 0 ELSE CHOOSE v \in found : \A u \in found : u <= v

\* getHeartBeat: nine digits at most.
HeartBeatValid(hb) == hb[1] <= maxHeartBeat /\ hb[2] <= maxHeartBeat

\* asMilliseconds(config.HeartBeat(), maxHeartBeat)
MinimumUncapped(c) == Milliseconds(c.heartBeat)                 \* faulty variant
Minimum(c) ==
    IF Milliseconds(c.heartBeat) > maxHeartBeat THEN maxHeartBeat
    ELSE Milliseconds(c.heartBeat)

\* apply a minimum heart-beat
AtLeast(x, min) == IF x > 0 /\ x < min THEN min ELSE x

\* readLoop works out the read timeout on its own when it reads CONNECT.
ReadTimeoutAsked(hb) == hb[1] * Ms                              \* faulty variant
ReadTimeoutNone(hb) == 0                                        \* faulty variant
ReadTimeout(hb) == AtLeast(hb[1], Minimum(config)) * Ms

\* The next frame is taken from the socket, and the read deadline set again.
ServerReads ==
    /\ sphase \in {"connecting", "connected"}
    /\ toServer /= <<>>
    /\ Len(readChannel) < maxPendingReads
    /\ LET f == Head(toServer).frame IN
         /\ readChannel' = IF f.cmd = "beat" THEN readChannel ELSE Append(readChannel, f)
         /\ sreadTimeout' = IF f.cmd \in Commands /\ HeartBeatValid(f.hb)
                            THEN ReadTimeout(f.hb) ELSE sreadTimeout
    /\ sreadTimer' = 0 /\ clost' = 0
    /\ toServer' = Tail(toServer)
    /\ UNCHANGED <<opts, config, clientVars, sphase, sversion, swriteTimeout,
                   swriteTimer, toClient, cut, slost>>

\* The header of CONNECTED: what the server will do comes first.
AnswerSwapped(cx, cy) == <<cx, cy>>                             \* faulty variant
Answer(cx, cy) == <<cy, cx>>

\* handleConnect; the version is stored before it is found to be unsupported.
HandleConnect ==
    /\ sphase = "connecting"
    /\ readChannel /= <<>>
    /\ readChannel' = Tail(readChannel)
    /\ LET f  == Head(readChannel)
           v  == DetermineVersion(f.versions)
           cx == AtLeast(f.hb[1], Minimum(config))
           cy == AtLeast(f.hb[2], Minimum(config))
           ok == /\ opts.known \/ ~config.strict
                 /\ v > 10
                 /\ HeartBeatValid(f.hb)
       IN /\ sphase' = IF ok THEN "connected" ELSE "refused"
          /\ sversion' = IF opts.known \/ ~config.strict THEN v ELSE sversion
          /\ swriteTimeout' = IF ok THEN cy * Ms ELSE 0
          /\ toClient' = Write(toClient, IF ok THEN ConnectedFrame(v, Answer(cx, cy))
                                         ELSE ErrorFrame)
    /\ swriteTimer' = 0
    /\ UNCHANGED <<opts, config, clientVars, sreadTimeout, sreadTimer, toServer, cut,
                   lostVars>>

\* Any other frame: what it does is the matter of Server.  A RECEIPT for it is
\* written at once; the heart-beat timer is left alone.
HandleOther ==
    /\ sphase = "connected"
    /\ readChannel /= <<>>
    /\ readChannel' = Tail(readChannel)
    /\ \/ UNCHANGED toClient
       \/ Len(toClient) < FlightCap /\ toClient' = Write(toClient, DataFrame)
    /\ UNCHANGED <<opts, config, clientVars, sphase, sversion, sreadTimeout,
                   swriteTimeout, sreadTimer, swriteTimer, toServer, cut, lostVars>>

-----------------------------------------------------------------------------
(* The client reads the answer *)

\* The heart-beat header of CONNECTED as durations, and HeartBeatError on top.
ParseHeartBeat(hb) == <<hb[1] * Ms, hb[2] * Ms>>

ClientReadTimeout(sx) ==
    LET longer == IF sx < opts.read THEN opts.read ELSE sx
    IN IF longer > 0 THEN longer + opts.error ELSE 0

ClientWriteTimeout(sy) == IF sy > opts.error THEN sy - opts.error ELSE sy

ClientReads ==
    /\ cphase = "sent"
    /\ toClient /= <<>>
    /\ LET f == Head(toClient).frame IN
         IF f.cmd = "CONNECTED" /\ CheckSupported(f.versions[1])
         THEN /\ cphase' = "up"
              /\ cversion' = f.versions[1]
              /\ creadTimeout' = ClientReadTimeout(ParseHeartBeat(f.hb)[1])
              /\ cwriteTimeout' = ClientWriteTimeout(ParseHeartBeat(f.hb)[2])
         ELSE /\ cphase' = "failed"
              /\ UNCHANGED <<cversion, creadTimeout, cwriteTimeout>>
    /\ creadTimer' = 0 /\ cwriteTimer' = 0 /\ slost' = 0
    /\ toClient' = Tail(toClient)
    /\ UNCHANGED <<opts, config, serverVars, toServer, cut, clost>>

-----------------------------------------------------------------------------
(* Heart-beats *)

\* processLoop of the client: a frame stops the read timer ...
ClientReceives ==
    /\ cphase = "up"
    /\ toClient /= <<>>
    /\ toClient' = Tail(toClient)
    /\ creadTimer' = 0 /\ slost' = 0
    /\ UNCHANGED <<opts, config, cphase, cversion, creadTimeout, cwriteTimeout,
                   cwriteTimer, serverVars, toServer, cut, clost>>

\* ... and a write, of the program or of a heart-beat, the write timer.
ClientWrites(f) ==
    /\ toServer' = Write(toServer, f)
    /\ cwriteTimer' = 0
    /\ UNCHANGED <<opts, config, cphase, cversion, creadTimeout, cwriteTimeout,
                   creadTimer, serverVars, toClient, cut, lostVars>>

ClientBeatDue == cphase = "up" /\ cwriteTimeout > 0 /\ cwriteTimer >= cwriteTimeout
ClientBeats == ClientBeatDue /\ ClientWrites(HeartBeat)
ClientSends ==
    /\ cphase = "up"
    /\ Len(toServer) < FlightCap
    /\ ClientWrites(DataFrame)

\* A reply-to SUBSCRIBE or UNSUBSCRIBE stops the write timer too, and is not sent.
ClientKeepsRequest ==
    /\ cphase = "up"
    /\ clost + cwriteTimer <= LostCap
    /\ cwriteTimer' = 0
    /\ clost' = IF sphase = "connected" THEN clost + cwriteTimer ELSE clost
    /\ UNCHANGED <<opts, config, cphase, cversion, creadTimeout, cwriteTimeout,
                   creadTimer, serverVars, netVars, slost>>

\* processLoop of the server writes a frame for the client, or a heart-beat.
ServerWrites(f) ==
    /\ toClient' = Write(toClient, f)
    /\ swriteTimer' = 0
    /\ UNCHANGED <<opts, config, clientVars, sphase, sversion, sreadTimeout,
                   swriteTimeout, sreadTimer, readChannel, toServer, cut, lostVars>>

ServerBeatDue == sphase = "connected" /\ swriteTimeout > 0 /\ swriteTimer >= swriteTimeout
ServerBeats == ServerBeatDue /\ ServerWrites(HeartBeat)
ServerSends ==
    /\ sphase = "connected"
    /\ Len(toClient) < FlightCap
    /\ ServerWrites(DataFrame)

\* A queue frame for a subscription that no longer exists stops the heart-beat timer
\* before that is found out; the frame is requeued and nothing is written.
ServerReturnsFrame ==
    /\ sphase = "connected"
    /\ slost + swriteTimer <= LostCap
    /\ swriteTimer' = 0
    /\ slost' = IF cphase = "up" THEN slost + swriteTimer ELSE slost
    /\ UNCHANGED <<opts, config, clientVars, sphase, sversion, sreadTimeout,
                   swriteTimeout, sreadTimer, readChannel, netVars, clost>>

\* A side that gives up closes the connection, and the other one meets its end.
Ends(phase, live) == IF ~cut /\ phase \in live THEN "ended" ELSE phase

\* The read timer of the client expires, stretched by the grace period.
ClientLimit == creadTimeout * opts.grace
ClientExpired == cphase = "up" /\ creadTimeout > 0 /\ creadTimer >= ClientLimit
ClientTimesOut ==
    /\ ClientExpired
    /\ cphase' = "timedout"
    /\ sphase' = Ends(sphase, {"connected"})
    /\ UNCHANGED <<opts, config, cversion, creadTimeout, cwriteTimeout, creadTimer,
                   cwriteTimer, sversion, sreadTimeout, swriteTimeout, sreadTimer,
                   swriteTimer, readChannel, netVars, lostVars>>

\* The read deadline of the server passes: twice what was agreed.
ServerLimit == sreadTimeout * 2
ServerExpired == sphase = "connected" /\ sreadTimeout > 0 /\ sreadTimer >= ServerLimit
ServerTimesOut ==
    /\ ServerExpired
    /\ sphase' = "timedout"
    /\ cphase' = Ends(cphase, {"sent", "up"})
    /\ UNCHANGED <<opts, config, cversion, creadTimeout, cwriteTimeout, creadTimer,
                   cwriteTimer, sversion, sreadTimeout, swriteTimeout, sreadTimer,
                   swriteTimer, readChannel, netVars, lostVars>>

-----------------------------------------------------------------------------
(* Time and the network *)

\* A frame has to be taken now.
Overdue(net) == \E i \in DOMAIN net : net[i].age >= Delay
Older(net) ==
    [i \in DOMAIN net |-> [net[i] EXCEPT !.age = IF @ < Delay THEN @ + 1 ELSE @]]

\* A timer runs up to its limit, where something is due.
Run(timer, on) == IF on THEN timer + 1 ELSE timer

Tick ==
    /\ readChannel = <<>> \/ sphase \notin {"connecting", "connected"}
    /\ ~(sphase \in {"connecting", "connected"} /\ Overdue(toServer))
    /\ ~(cphase \in {"sent", "up"} /\ Overdue(toClient))
    /\ ~ClientBeatDue /\ ~ServerBeatDue /\ ~ClientExpired /\ ~ServerExpired
    /\ creadTimer' = Run(creadTimer, cphase = "up" /\ creadTimeout > 0)
    /\ cwriteTimer' = Run(cwriteTimer, cphase = "up" /\ cwriteTimeout > 0)
    /\ sreadTimer' = Run(sreadTimer, sphase = "connected" /\ sreadTimeout > 0)
    /\ swriteTimer' = Run(swriteTimer, sphase = "connected" /\ swriteTimeout > 0)
    /\ toServer' = Older(toServer) /\ toClient' = Older(toClient)
    /\ UNCHANGED <<opts, config, cphase, cversion, creadTimeout, cwriteTimeout,
                   sphase, sversion, sreadTimeout, swriteTimeout, readChannel, cut,
                   lostVars>>

\* The connection is cut, without a word to either side.
Cut ==
    /\ ~cut
    /\ cut' = TRUE
    /\ toServer' = <<>> /\ toClient' = <<>>
    /\ UNCHANGED <<opts, config, clientVars, serverVars, lostVars>>

-----------------------------------------------------------------------------

Init ==
    /\ opts \in Options /\ config \in Configs
    /\ cphase = "start" /\ cversion = 0
    /\ creadTimeout = 0 /\ cwriteTimeout = 0 /\ creadTimer = 0 /\ cwriteTimer = 0
    /\ sphase = "connecting" /\ sversion = 0
    /\ sreadTimeout = 0 /\ swriteTimeout = 0 /\ sreadTimer = 0 /\ swriteTimer = 0
    /\ readChannel = <<>>
    /\ toServer = <<>> /\ toClient = <<>> /\ cut = FALSE
    /\ clost = 0 /\ slost = 0

Stations ==
    \/ ServerReads \/ HandleConnect \/ HandleOther \/ ClientReads \/ ClientReceives
    \/ ClientBeats \/ ServerBeats \/ ClientTimesOut \/ ServerTimesOut

Next ==
    \/ ClientConnects \/ Stations \/ ClientSends \/ ServerSends
    \/ ClientKeepsRequest \/ ServerReturnsFrame \/ Tick \/ Cut

Spec == Init /\ [][Next]_vars

\* Time passes, and the goroutines do what is due; no program has to send.
FairSpec == Spec /\ WF_vars(Stations) /\ WF_vars(Tick)

-----------------------------------------------------------------------------
(* Properties *)

Phases == {"start", "sent", "up", "failed", "timedout", "ended",
           "connecting", "connected", "refused"}
Frame == [cmd : Commands \cup {"CONNECTED", "ERROR", "beat", "data"},
          versions : Seq(Nat), hb : Nat \X Nat]
Flight == Seq([frame : Frame, age : Nat])

\* Every variable has its type, and the server's timeouts stay in the range that
\* the header can express.
TypeOK ==
    /\ opts \in Options /\ config \in Configs
    /\ cphase \in Phases /\ sphase \in Phases
    /\ cversion \in Versions \cup {0} /\ sversion \in Versions \cup {0}
    /\ creadTimeout \in Nat /\ cwriteTimeout \in Nat
    /\ sreadTimeout \in 0..(maxHeartBeat * Ms)
    /\ swriteTimeout \in 0..(maxHeartBeat * Ms)
    /\ creadTimer \in Nat /\ cwriteTimer \in Nat
    /\ sreadTimer \in Nat /\ swriteTimer \in Nat
    /\ readChannel \in Seq(Frame)
    /\ toServer \in Flight /\ toClient \in Flight
    /\ cut \in BOOLEAN
    /\ clost \in Nat /\ slost \in Nat

\* Client and server speak the same version, the highest that the program asked
\* for, and it is not 1.0, which this server refuses.
VersionAgreed ==
    cphase = "up" =>
        /\ cversion = sversion
        /\ cversion \in Versions \ {10}
        /\ \A i \in DOMAIN opts.versions : opts.versions[i] <= cversion

\* readLoop and processLoop of the server, which parse CONNECT separately, come
\* to the same period: the client writes at least as often as the server's read
\* deadline is based on.
TimeoutsAgree ==
    cphase = "up" => /\ sreadTimeout > 0 <=> cwriteTimeout > 0
                     /\ cwriteTimeout <= sreadTimeout

\* The periods of the heart-beats from the client and to it.
Period(i) == AtLeast(Asked[i], Minimum(config))
Accepted == sphase \in {"connected", "timedout", "ended"}

\* Until the server answers there is nothing but CONNECT, once, and readLoop has
\* worked out its timeout when processLoop gets that frame.
BeforeAnswer ==
    sphase = "connecting" =>
        /\ cphase \in {"start", "sent", "failed"}
        /\ cphase = "start" => toServer = <<>> /\ readChannel = <<>>
        /\ toClient = <<>>
        /\ Len(toServer) + Len(readChannel) <= 1
        /\ \A i \in DOMAIN toServer : toServer[i].frame = ConnectRequest
        /\ \A i \in DOMAIN readChannel : readChannel[i] = ConnectRequest
        /\ readChannel /= <<>> /\ HeartBeatValid(Asked) => sreadTimeout = ReadTimeout(Asked)

\* Afterwards there is no CONNECT, and CONNECTED says what the server does.
AfterAnswer ==
    sphase /= "connecting" =>
        /\ cphase /= "start"
        /\ \A i \in DOMAIN toServer : toServer[i].frame.cmd \notin Commands
        /\ \A i \in DOMAIN toClient : toClient[i].frame.cmd = "CONNECTED" =>
              Accepted /\ toClient[i].frame = ConnectedFrame(sversion, <<Period(2), Period(1)>>)

\* What both sides know once the server has accepted, and once the client knows.
AcceptedInv ==
    Accepted => /\ sversion = DetermineVersion(AcceptVersions(opts)) /\ sversion > 10
                /\ sreadTimeout = Period(1) * Ms
UpInv ==
    /\ cphase \in {"up", "timedout"} =>
         /\ Accepted
         /\ cversion = sversion
         /\ cwriteTimeout = ClientWriteTimeout(Period(1) * Ms)
    /\ cphase \in {"sent", "up", "timedout"} => OptionsValid(opts)

\* The inductive invariant: at every moment of the connect sequence, what is
\* under way is what the two sides have decided, from which VersionAgreed and
\* TimeoutsAgree follow.
HInv == TypeOK /\ BeforeAnswer /\ AfterAnswer /\ AcceptedInv /\ UpInv

\* While the connection holds, no frame is older than Delay and no timer further
\* than the frame that will stop it is away: a heart-beat leaves before the write
\* timeout is over, so the reader's timer is ahead of the writer's by at most the
\* time the first frame under way has taken and what was lost in restarts.
ConnectTiming ==
    /\ sphase = "connecting" =>
         /\ sreadTimer = 0
         /\ cphase = "failed" => toServer = <<>> /\ readChannel = <<>>
    /\ sphase = "connected" =>
         /\ cphase \in {"sent", "up"}
         /\ swriteTimeout = Period(2) * Ms
         /\ swriteTimeout > 0 => swriteTimer <= swriteTimeout
    /\ sphase = "connected" /\ cphase = "sent" =>
         /\ toClient /= <<>>
         /\ toClient[1].frame.cmd = "CONNECTED"
         /\ sreadTimer <= toClient[1].age
BeatTiming ==
    cphase = "up" =>
        /\ creadTimeout = ClientReadTimeout(Period(2) * Ms)
        /\ cwriteTimeout > 0 => cwriteTimer <= cwriteTimeout
        /\ cwriteTimeout > 0 =>
             sreadTimer <= clost + IF toServer = <<>> THEN cwriteTimer + Delay
                                   ELSE cwriteTimeout + Delay + toServer[1].age
        /\ swriteTimeout > 0 =>
             creadTimer <= slost + IF toClient = <<>> THEN swriteTimer
                                   ELSE swriteTimeout + toClient[1].age
Fresh(net) == \A i \in DOMAIN net : net[i].age <= Delay
GivenUp == {"timedout", "ended"}
Alive == ~cut /\ cphase \notin GivenUp /\ sphase \notin GivenUp
TimeInv == Alive => /\ Fresh(toServer) /\ Fresh(toClient)
                    /\ ConnectTiming /\ BeatTiming

\* Once a side has given up, the other one is not left behind, unless by a cut.
Closing == ~cut => /\ cphase \in GivenUp => sphase \notin {"connecting", "connected"}
                   /\ sphase \in GivenUp => cphase \notin {"sent", "up"}

\* What the reader allows beyond the period in which the other side writes.
ClientSlack == ClientLimit - swriteTimeout
ServerSlack == ServerLimit - cwriteTimeout

\* A side that takes the other for dead although the connection holds has waited in
\* vain for writes that were put off by restarts of the other's write timer, and by
\* the delay of the frames, for as long as its slack.  So neither does while timers are
\* restarted by writes only, but for a server whose period is as short as twice the
\* delay: HeartBeatError has no part in its deadline.
OnlyCutTimesOut ==
    /\ cphase = "timedout" => cut \/ slost + Delay >= ClientSlack
    /\ sphase = "timedout" => cut \/ clost + 2 * Delay >= ServerSlack

\* The inductive invariant together with the timing, from which OnlyCutTimesOut
\* follows when a timer expires.
TimedInv == HInv /\ TimeInv /\ Closing /\ OnlyCutTimesOut

\* When it is cut, each side that has asked for heart-beats notices.
PeersNoticed ==
    /\ cut /\ cphase = "up" /\ opts.read > 0 ~> cphase = "timedout"
    /\ cut /\ sphase = "connected" /\ opts.write >= Ms ~> sphase = "timedout"

=============================================================================
