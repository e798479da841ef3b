SPECIFICATION FairSpec
CONSTANTS
    Options <- MCOptions
    Configs <- MCConfigs
    Ms = 2
    maxHeartBeat = 3
    maxPendingReads = 1
    Delay = 1
    FlightCap = 1
    LostCap = 2
INVARIANTS
    TimedInv
    VersionAgreed
    TimeoutsAgree
    OnlyCutTimesOut
PROPERTIES
    PeersNoticed
CHECK_DEADLOCK FALSE
