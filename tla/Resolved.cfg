SPECIFICATION Spec
CONSTANTS
    t1 = t1
    t2 = t2
    c1 = c1
    c2 = c2
    s1 = s1
    s2 = s2
    yes = yes
    no = no
    Plan <- GateOnly
    V2 = FALSE
    TaskIds = {t1}
    Resolutions = {yes, no}
    Rejections = {no}
    Callers = {c1}
    Sweepers = {s1}
    NoTask = NoTask
    None = None
    Retries = 1
    MaxFaults = 1
    MaxResumes = 0
INVARIANTS NeverFalselyResolved
