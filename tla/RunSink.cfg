SPECIFICATION FamiliesSpec
CONSTANTS
    Callers = {c1, c2}
    Owners = {o1, o2}
    NoOwner = NoOwner
    NoCaller = NoCaller
    None = None
    TTL = 1
    MaxNow = 1
    MaxGeneration = 2
    MaxSeq = 2
    EventIds = {e1, e2}
    Outcomes = {t1}
    Blobs = {b1}
    Mutations <- AllMutations
SYMMETRY Symmetry
INVARIANTS AnswersAreTrue EventIdsAreUnique HeadsResolve
PROPERTIES StaleWriterNeverCommits RecordsAreWriteOnce
