SPECIFICATION FairSpec
CONSTANTS
    nil = nil
    Call = {"k1", "k2", "k3", "k4", "k5", "k6", "k7"}
    Sub = {"s", "r"}
    Tx = {}
    Op <- UnsubOp
    SubOf <- UnsubSubOf
    TxOf <- UnsubTxOf
    SubMode <- UnsubSubMode
    Before <- UnsubBefore
    Version = "1.2"
    Receipted = {}
    Invalid = {"k6"}
    ReplyTo = {"r"}
    Slow = {"k5"}
    ReadCap = 1
    WriteCap = 5
    SubCap = 1
    NetCap = 1
    MsgCap <- UnsubMsgCap
    Faults = {"close", "malformed"}
INVARIANTS
    OnlyUnsubscribePanics
    MInv
    MessagesInOrder
PROPERTIES
    SubscriptionsEnd
    UnsubscribeReturns
CHECK_DEADLOCK FALSE
