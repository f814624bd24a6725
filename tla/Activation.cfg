SPECIFICATION ActivationSpec
CONSTANTS
    CommandIds = {k1, k2}
    NoCommand = NoCommand
    Dispatchers = {d1}
    MaxCommands = 2
    MaxClaims = 1
    Attempts = {a1, a2}
    NoAttempt = NoAttempt
    MaxGeneration = 3
    MaxCheckpoints = 4
    Calls = {k1, k2}
    Kinds = {"plain", "ask", "shell", "finish"}
    Reporters = {r1}
    None = None
    Limits <- AllLimits
    MaxStops = 1
    MaxCrashes = 1
SYMMETRY Symmetry
CHECK_DEADLOCK FALSE
INVARIANTS AppliedOnceInOrder DriverIsAtHead WorkflowFollowsDatabase
INVARIANTS ApprovedOnce LogIsWellFormed ResultsAreKept HonestClose
