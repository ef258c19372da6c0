SPECIFICATION Spec
CONSTANTS
    Supervisors = {s1, s2}
    Recoverers = {r1}
    Nobody = Nobody
INVARIANTS OneWriterTree
CHECK_DEADLOCK FALSE
