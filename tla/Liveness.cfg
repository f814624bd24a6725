SPECIFICATION LiveSpec
CONSTANTS
    Closers = {c1, c2}
    Callers = {d1}
    NoThread = NoThread
    MaxDrives = 1
    Owners = {o1}
    Workers = {a1}
    NoAttempt = NoAttempt
    NoOwner = NoOwner
    NoCaller = NoCaller
    CommandIds = {k1, k2}
    NoCommand = NoCommand
    Dispatchers = {d1}
CHECK_DEADLOCK FALSE
INVARIANTS ResultIsAccountedFor ReleasedHostIsQuiet
PROPERTIES EveryCallAnswered AttemptEnds TerminalConverges
PROPERTIES AwaiterIsReleased ShutdownResolves
