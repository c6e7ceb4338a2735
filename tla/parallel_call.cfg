SPECIFICATION FairSpec
CONSTANTS
    MaxItems = 5
    Limits <- SmallLimits
    Procs = 2
    MaxHung = 1
    None = None
INVARIANT EachOnce
INVARIANT ReturnsWhatCallsDid
PROPERTY OthersReached
PROPERTY CallReturns
CHECK_DEADLOCK FALSE
