SPECIFICATION LoopSpec
CONSTANTS
    Calls = {c1, c2}
    Kinds = {"ask", "shell"}
    Reporters = {r1}
    None = None
    Limits <- OneLimit
    MaxStops = 0
    MaxCrashes = 1
SYMMETRY CallSymmetry
CHECK_DEADLOCK FALSE
INVARIANT ApprovalsAreAtMostOnce
