SPECIFICATION PublicationSpec
CONSTANTS
    Activations = {a1, a2}
    NoActivation = NoActivation
    MaxGeneration = 3
    Threads = {t1, t2}
    NoThread = NoThread
    Directories = {t1, t2}
    MaxEvents = 2
    MaxReceipts = 2
    MaxDeltas = 2
    MaxBuffer = 2
    MaxStreams = 2
SYMMETRY Symmetry
INVARIANT JournalIsGapless
INVARIANT ProjectionFollowsJournal
INVARIANT SettledStreamIsWhole
CHECK_DEADLOCK FALSE
