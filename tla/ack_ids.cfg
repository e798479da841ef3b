SPECIFICATION Spec
CONSTANTS
    nil = nil
    Conn = {"c1"}
    Queue = {"q"}
    Topic = {}
    Sub = {"s1", "s2"}
    Msg = {1, 2}
    Tx = {}
    SubId = {"a", "b"}
    SubConn <- ModesSubConn
    SubDest <- ModesSubDest
    SubIdOf <- ModesSubId
    SubAck <- ModesSubAck
    MsgConn <- ModesMsgConn
    MsgDest <- ModesMsgDest
    TxConn <- ModesTxConn
    RequestCap = 2
    maxPendingWrites = 1
    TxCap = 0
    AckIds = {1, 2}
    Flaky = {}
    Unwritable = {}
    Polite = {}
    Leavers = {}
PROPERTIES
    AckAsDocumented
CHECK_DEADLOCK FALSE
