\* Operator requests while the control and the lease move.
SPECIFICATION MCSpec
CONSTANTS
    c1 = c1
    c2 = c2
    c3 = c3
    Command = {c1, c2, c3}
    Conflict <- MCConflict
    Device = {d1, d2}
    None = None
    MaxSeconds = 2
    MaxControls = 1
    MaxMoves = 1
    MaxTakeovers = 1
    MaxCrashes = 1
    MaxFailures = 1
    MaxWrites = 1
INVARIANTS
    AnswerIsTrue
PROPERTIES
    OwnerApplies
    AnsweredWhenCalm
CHECK_DEADLOCK FALSE
