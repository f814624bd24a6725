SPECIFICATION LaneSpec
CONSTANTS
    CommandIds = {k1}
    NoCommand = NoCommand
    Dispatchers = {d1}
    MaxCommands = 1
    MaxClaims = 2
    Attempts = {a1}
    NoAttempt = NoAttempt
    MaxGeneration = 2
    MaxCheckpoints = 3
SYMMETRY Symmetry
CHECK_DEADLOCK FALSE
INVARIANT AcceptedIsNotDeadLettered
