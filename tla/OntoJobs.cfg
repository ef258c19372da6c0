SPECIFICATION Spec
CONSTANTS
    Workers = {w1, w2}
    NoWorker = NoWorker
    MaxAttempts = 2
    Plans <- MCPlans
    Size = 4
INVARIANTS TypeOK OneInFlight ClosedIsQuiet WorkFitsMode ExecutionFollows OneOwner DeliveredWasMailed OneAnswer
PROPERTIES ClosedStays FinalStays Rests
CHECK_DEADLOCK FALSE
