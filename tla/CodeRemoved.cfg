SPECIFICATION Spec
CONSTANTS
    o1 = o1
    o2 = o2
    Ops = {o1}
    Free = Free
    Old = Old
    NVersions = 2
    Histories <- OneUpload
    MaxFaults = 0
    MaxLapses = 0
    MaxRestarts = 0
PROPERTIES ReturnedToPackaged
CHECK_DEADLOCK FALSE
