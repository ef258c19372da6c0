SPECIFICATION FairSpec
CONSTANTS
    c1 = c1
    c2 = c2
    c3 = c3
    one = one
    other = other
    Routes = {"manifest", "async", "webhook"}
    Clients = {c1, c2, c3}
    Body <- OneDiffers
    OpIds = {o1, o2}
    StableId = o1
    NoClient = NoClient
    NoOp = NoOp
    NoBody = NoBody
    TtlCoversLease = TRUE
    MaxFaults = 3
INVARIANTS TypeOK OneOperation AckIsBacked LeaseIsExclusive
PROPERTIES CompletedStays ImplementsKeyedOperation Answered
