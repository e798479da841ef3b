SPECIFICATION FairSpec
CONSTANTS
    nil = nil
    Conn = {"c1"}
    Queue = {}
    Topic = {"t"}
    Sub = {"s1"}
    Msg = {1, 2, 3, 4}
    Tx = {}
    SubId = {"a"}
    SubConn <- WedgeSubConn
    SubDest <- WedgeSubDest
    SubIdOf <- WedgeSubId
    SubAck <- WedgeSubAck
    MsgConn <- WedgeMsgConn
    MsgDest <- WedgeMsgDest
    TxConn <- WedgeTxConn
    RequestCap = 1
    maxPendingWrites = 1
    TxCap = 0
    AckIds = {}
    Flaky = {}
    Unwritable = {}
    Polite = {}
    Leavers = {}
PROPERTIES
    ProcessorUnblocks
CHECK_DEADLOCK FALSE
