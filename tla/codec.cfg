SPECIFICATION Spec
CONSTANTS
    Sends <- MCSends
INVARIANTS
    RoundTrip
    NothingHeldBack
    FailsOnlyIfBroken
CHECK_DEADLOCK FALSE
