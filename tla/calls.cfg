SPECIFICATION FairSpec
CONSTANTS
    nil = nil
    Call = {"k1", "k2", "k3", "k4", "k5", "k6"}
    Sub = {}
    Tx = {"t"}
    Op <- CallsOp
    SubOf <- CallsSubOf
    TxOf <- CallsTxOf
    SubMode <- CallsSubMode
    Before <- CallsBefore
    Version = "1.2"
    Receipted = {"k2", "k4", "k5"}
    Invalid = {}
    ReplyTo = {}
    Slow = {"k2", "k4", "k5"}
    ReadCap = 1
    WriteCap = 5
    SubCap = 1
    NetCap = 1
    MsgCap <- CallsMsgCap
    Faults = {"error", "silence"}
INVARIANTS
    CInv
    NoPanic
    SuccessIsConfirmed
    EveryoneTold
    TxEndsOnce
PROPERTIES
    CallsReturn
    LoopEnds
CHECK_DEADLOCK FALSE
