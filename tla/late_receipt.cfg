SPECIFICATION FairSpec
CONSTANTS
    nil = nil
    Call = {"k1", "k2", "k3"}
    Sub = {}
    Tx = {"t", "u"}
    Op <- LateOp
    SubOf <- LateSubOf
    TxOf <- LateTxOf
    SubMode <- LateSubMode
    Before <- LateBefore
    Version = "1.2"
    Receipted = {"k1"}
    Invalid = {}
    ReplyTo = {}
    Slow = {"k1"}
    ReadCap = 1
    WriteCap = 1
    SubCap = 1
    NetCap = 2
    MsgCap <- LateMsgCap
    Faults = {}
PROPERTIES
    CallsReturn
CHECK_DEADLOCK FALSE
