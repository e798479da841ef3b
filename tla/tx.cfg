SPECIFICATION FairSpec
CONSTANTS
    nil = nil
    Conn = {"c1"}
    Queue = {"q"}
    Topic = {}
    Sub = {"s1", "s2"}
    Msg = {1, 2}
    Tx = {"t1", "t2"}
    SubId = {"a", "b"}
    SubConn <- TxSubConn
    SubDest <- TxSubDest
    SubIdOf <- TxSubId
    SubAck <- TxSubAck
    MsgConn <- TxMsgConn
    MsgDest <- TxMsgDest
    TxConn <- TxTxConn
    RequestCap = 2
    maxPendingWrites = 2
    TxCap = 2
    AckIds = {0}
    Flaky = {"c1"}
    Unwritable = {}
    Polite = {}
    Leavers = {}
PROPERTIES
    CommitCompletes
    MeetsContract
CHECK_DEADLOCK FALSE
