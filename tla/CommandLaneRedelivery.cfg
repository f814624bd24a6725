SPECIFICATION LaneSpec
CONSTANTS
    CommandIds = {k1, k2}
    NoCommand = NoCommand
    Dispatchers = {d1, d2}
    MaxCommands = 2
    MaxClaims = 2
    Attempts = {a1}
    NoAttempt = NoAttempt
    MaxGeneration = 2
    MaxCheckpoints = 3
SYMMETRY Symmetry
CHECK_DEADLOCK FALSE
INVARIANTS LaneInOrder
PROPERTIES TerminalFreezesOutbox DeliveryIsFinal ImplementsOutbox
