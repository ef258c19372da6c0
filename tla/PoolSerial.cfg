SPECIFICATION Spec
CONSTANTS
    Sessions = {s1, s2, s3}
    Concurrency = 3
PROPERTIES FreeSlotIsUsed
CHECK_DEADLOCK FALSE
