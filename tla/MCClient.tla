------------------------------- MODULE MCClient -------------------------------
(***************************************************************************)
(* Instances of Client for TLC.  Each says which calls are made, of which  *)
(* functions, and on which subscription and transaction.                   *)
(***************************************************************************)
EXTENDS ClientInv

-----------------------------------------------------------------------------
(* calls: a transaction, a SEND and the two ways to disconnect *)

CallsOp == [k1 |-> "Begin", k2 |-> "Commit", k3 |-> "TxSend", k4 |-> "Disconnect", k5 |-> "Send", k6 |-> "MustDisconnect"]
CallsSubOf == [k1 |-> nil, k2 |-> nil, k3 |-> nil, k4 |-> nil, k5 |-> nil, k6 |-> nil]
CallsTxOf == [k1 |-> "t", k2 |-> "t", k3 |-> "t", k4 |-> nil, k5 |-> nil, k6 |-> nil]
CallsSubMode == <<>>
CallsMsgCap == <<>>
CallsBefore == [k1 |-> {}, k2 |-> {"k1"}, k3 |-> {"k1", "k2"}, k4 |-> {}, k5 |-> {}, k6 |-> {"k5"}]

-----------------------------------------------------------------------------
(* unsub: a subscription and its end, then one to a temporary queue *)

UnsubOp == [k1 |-> "Subscribe", k2 |-> "Unsubscribe", k3 |-> "Ack", k4 |-> "Subscribe", k5 |-> "Unsubscribe", k6 |-> "Send", k7 |-> "MustDisconnect"]
UnsubSubOf == [k1 |-> "s", k2 |-> "s", k3 |-> "s", k4 |-> "r", k5 |-> "r", k6 |-> nil, k7 |-> nil]
UnsubTxOf == [k1 |-> nil, k2 |-> nil, k3 |-> nil, k4 |-> nil, k5 |-> nil, k6 |-> nil, k7 |-> nil]
UnsubSubMode == [s |-> "auto", r |-> "auto"]
UnsubMsgCap == [s |-> 2, r |-> 0]
UnsubBefore == [k1 |-> {"k6"}, k2 |-> {"k1", "k6"}, k3 |-> {"k1", "k6"}, k4 |-> {"k1", "k2", "k6"}, k5 |-> {"k1", "k2", "k4", "k6"}, k6 |-> {}, k7 |-> {"k1", "k3", "k6"}]

-----------------------------------------------------------------------------
(* late: a SEND with a receipt and two transactions *)

LateOp == [k1 |-> "Send", k2 |-> "Begin", k3 |-> "Begin"]
LateSubOf == [k1 |-> nil, k2 |-> nil, k3 |-> nil]
LateTxOf == [k1 |-> nil, k2 |-> "t", k3 |-> "u"]
LateSubMode == <<>>
LateMsgCap == <<>>
LateBefore == [k1 |-> {}, k2 |-> {}, k3 |-> {}]

=============================================================================
