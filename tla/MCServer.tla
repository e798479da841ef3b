------------------------------ MODULE MCServer ------------------------------
(***************************************************************************)
(* Instances of Server for TLC.  Connections, subscriptions, transactions  *)
(* and destinations are strings; frames are numbers.  A scenario gives the *)
(* pools their members and their attributes.                               *)
(***************************************************************************)
EXTENDS ServerInv, ServerContract

-----------------------------------------------------------------------------
(* share: consumers in three modes at two connections share a queue *)

ShareSubConn == [s1 |-> "c1", s2 |-> "c2", s3 |-> "c1"]
ShareSubDest == [s1 |-> "q", s2 |-> "q", s3 |-> "q"]
ShareSubId   == [s1 |-> "a", s2 |-> "b", s3 |-> "a"]
ShareSubAck  == [s1 |-> "client", s2 |-> "auto", s3 |-> "other"]
ShareMsgConn == <<"c2", "c2", "c2">>
ShareMsgDest == <<"q", "q", nil>>
ShareTxConn  == <<>>

-----------------------------------------------------------------------------
(* modes: subscriptions in the two modes that are acknowledged *)

ModesSubConn == [s1 |-> "c1", s2 |-> "c1"]
ModesSubDest == [s1 |-> "q", s2 |-> "q"]
ModesSubId   == [s1 |-> "a", s2 |-> "b"]
ModesSubAck  == [s1 |-> "client", s2 |-> "client-individual"]
ModesMsgConn == <<"c1", "c1">>
ModesMsgDest == <<"q", "q">>
ModesTxConn  == <<>>

-----------------------------------------------------------------------------
(* tx: two transactions of a client that also consumes *)

TxSubConn == [s1 |-> "c1", s2 |-> "c1"]
TxSubDest == [s1 |-> "q", s2 |-> "q"]
TxSubId   == [s1 |-> "a", s2 |-> "b"]
TxSubAck  == [s1 |-> "client", s2 |-> "client-individual"]
TxMsgConn == <<"c1", "c1">>
TxMsgDest == <<"q", "q">>
TxTxConn  == [t1 |-> "c1", t2 |-> "c1"]

-----------------------------------------------------------------------------
(* live: a client sends to a queue and a topic; another, which may break, reads both *)

LiveSubConn == [s1 |-> "c2", s2 |-> "c2", s3 |-> "c2", s4 |-> "c1"]
LiveSubDest == [s1 |-> "q", s2 |-> "q", s3 |-> "t", s4 |-> "t"]
LiveSubId   == [s1 |-> "a", s2 |-> "b", s3 |-> "c", s4 |-> "a"]
LiveSubAck  == [s1 |-> "auto", s2 |-> "auto", s3 |-> "auto", s4 |-> "auto"]
LiveMsgConn == <<"c1", "c1", "c1">>
LiveMsgDest == <<"q", "q", "t">>
LiveTxConn  == <<>>

-----------------------------------------------------------------------------
(* wedge: a client subscribed to the topic it publishes to *)

WedgeSubConn == [s1 |-> "c1"]
WedgeSubDest == [s1 |-> "t"]
WedgeSubId   == [s1 |-> "a"]
WedgeSubAck  == [s1 |-> "auto"]
WedgeMsgConn == <<"c1", "c1", "c1", "c1">>
WedgeMsgDest == <<"t", "t", "t", "t">>
WedgeTxConn  == <<>>

-----------------------------------------------------------------------------
(* panics: a client sends a frame without a destination *)

PanicsSubConn == [s1 |-> "c1"]
PanicsSubDest == [s1 |-> "q"]
PanicsSubId   == [s1 |-> "a"]
PanicsSubAck  == [s1 |-> "auto"]
PanicsMsgConn == <<"c1", "c1">>
PanicsMsgDest == <<"q", nil>>
PanicsTxConn  == <<>>

-----------------------------------------------------------------------------
(* stranded: a consumer breaks while another client sends *)

StrandedSubConn == [s1 |-> "c1"]
StrandedSubDest == [s1 |-> "q"]
StrandedSubId   == [s1 |-> "a"]
StrandedSubAck  == [s1 |-> "auto"]
StrandedMsgConn == <<"c2", "c2">>
StrandedMsgDest == <<"q", "q">>
StrandedTxConn  == <<>>

=============================================================================
