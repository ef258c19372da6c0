SPECIFICATION Spec
CONSTANTS
    o1 = o1
    o2 = o2
    Ops = {o1, o2}
    Free = Free
    Old = Old
    NVersions = 3
    Histories <- Lanes
    MaxFaults = 3
    MaxLapses = 1
    MaxRestarts = 1
INVARIANTS TypeOK OneLive ServedIsLive PackageKept
PROPERTIES AnswersTruthfully RestoredExactly NewerActivationStands
CHECK_DEADLOCK FALSE
