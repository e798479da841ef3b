SPECIFICATION Spec
CONSTANTS
    nil = nil
    Conn = {"c1"}
    Queue = {"q"}
    Topic = {}
    Sub = {"s1"}
    Msg = {1, 2}
    Tx = {}
    SubId = {"a"}
    SubConn <- PanicsSubConn
    SubDest <- PanicsSubDest
    SubIdOf <- PanicsSubId
    SubAck <- PanicsSubAck
    MsgConn <- PanicsMsgConn
    MsgDest <- PanicsMsgDest
    TxConn <- PanicsTxConn
    RequestCap = 2
    maxPendingWrites = 1
    TxCap = 0
    AckIds = {}
    Flaky = {}
    Unwritable = {}
    Polite = {}
    Leavers = {}
INVARIANTS
    NoServerPanic
CHECK_DEADLOCK FALSE
