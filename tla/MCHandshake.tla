----------------------------- MODULE MCHandshake -----------------------------
(***************************************************************************)
(* Instances of Handshake for TLC: two ticks to a millisecond, so that     *)
(* durations need not be whole milliseconds and a period of one is as      *)
(* short as twice the delay.                                               *)
(***************************************************************************)
EXTENDS Handshake

OptionsAre(command, versions, write, read, error, known) ==
    {[command |-> command, versions |-> versions, write |-> w, read |-> r,
      error |-> error, grace |-> 1, known |-> known] : w \in write, r \in read}

\* Programs that differ in the version, the credentials or the heart-beats: none,
\* less than a millisecond, between two milliseconds, too long; HeartBeatError
\* longer than the period of the heart-beats.
MCOptions ==
    OptionsAre("CONNECT", <<>>, {0, 1, 3, 4, 8}, {0, 2, 3, 8}, 2, TRUE)
    \cup OptionsAre("STOMP", <<12, 11>>, {3}, {0, 3}, 2, FALSE)
    \cup OptionsAre("CONNECT", <<10>>, {3}, {2}, 2, TRUE)
    \cup OptionsAre("CONNECT", <<11, 13>>, {0}, {0}, 2, TRUE)
    \cup OptionsAre("CONNECT", <<11>>, {4}, {0}, 5, TRUE)

\* Servers with a minimum of less than a millisecond, of some, of too many; one that
\* takes any credentials.
MCConfigs ==
    [heartBeat : {1, 5, 100}, strict : {TRUE}] \cup [heartBeat : {1}, strict : {FALSE}]

=============================================================================
