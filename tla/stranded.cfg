SPECIFICATION Spec
CONSTANTS
    nil = nil
    Conn = {"c1", "c2"}
    Queue = {"q"}
    Topic = {}
    Sub = {"s1"}
    Msg = {1, 2}
    Tx = {}
    SubId = {"a"}
    SubConn <- StrandedSubConn
    SubDest <- StrandedSubDest
    SubIdOf <- StrandedSubId
    SubAck <- StrandedSubAck
    MsgConn <- StrandedMsgConn
    MsgDest <- StrandedMsgDest
    TxConn <- StrandedTxConn
    RequestCap = 3
    maxPendingWrites = 1
    TxCap = 0
    AckIds = {}
    Flaky = {"c1"}
    Unwritable = {}
    Polite = {}
    Leavers = {}
INVARIANTS
    CleanupRequeuesAll
CHECK_DEADLOCK FALSE
