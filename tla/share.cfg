SPECIFICATION Spec
CONSTANTS
    nil = nil
    Conn = {"c1", "c2"}
    Queue = {"q"}
    Topic = {}
    Sub = {"s1", "s2", "s3"}
    Msg = {1, 2, 3}
    Tx = {}
    SubId = {"a", "b"}
    SubConn <- ShareSubConn
    SubDest <- ShareSubDest
    SubIdOf <- ShareSubId
    SubAck <- ShareSubAck
    MsgConn <- ShareMsgConn
    MsgDest <- ShareMsgDest
    TxConn <- ShareTxConn
    RequestCap = 2
    maxPendingWrites = 1
    TxCap = 0
    AckIds = {0}
    Flaky = {"c1"}
    Unwritable = {}
    Polite = {"c1"}
    Leavers = {"s2"}
INVARIANTS
    TypeOK
    WorkConserving
    OneToken
    NoDuplication
    NoZombie
    NoLoss
    SInv
PROPERTIES
    SettledIsFinal
    OnlyKnownPanics
    MeetsContract
CHECK_DEADLOCK FALSE
