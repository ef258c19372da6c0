SPECIFICATION FairSpec
CONSTANTS
    Supervisors = {s1, s2, s3}
    Recoverers = {r1, r2}
    Nobody = Nobody
INVARIANTS TypeOK OverlapNeedsTheft
PROPERTIES TheftIsNoticed
CHECK_DEADLOCK FALSE
