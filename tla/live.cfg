SPECIFICATION FairSpec
CONSTANTS
    nil = nil
    Conn = {"c1", "c2"}
    Queue = {"q"}
    Topic = {"t"}
    Sub = {"s1", "s2", "s3", "s4"}
    Msg = {1, 2, 3}
    Tx = {}
    SubId = {"a", "b", "c"}
    SubConn <- LiveSubConn
    SubDest <- LiveSubDest
    SubIdOf <- LiveSubId
    SubAck <- LiveSubAck
    MsgConn <- LiveMsgConn
    MsgDest <- LiveMsgDest
    TxConn <- LiveTxConn
    RequestCap = 1
    maxPendingWrites = 1
    TxCap = 0
    AckIds = {}
    Flaky = {"c2"}
    Unwritable = {"c2"}
    Polite = {}
    Leavers = {}
INVARIANTS
    NoLoss
    
PROPERTIES
    CleanupCompletes
    QueueDelivers
    TopicDelivers
    OnlyDeadEndBlocks
    NoOvertaking
    DeadEndIsFinal
CHECK_DEADLOCK FALSE
