SPECIFICATION AuthoritySpec
CONSTANTS
    Callers = {a1, a2}
    Owners = {a1, a2}
    NoOwner = NoOwner
    NoCaller = NoCaller
    TTL = 2
    MaxNow = 3
    MaxGeneration = 2
SYMMETRY Symmetry
CHECK_DEADLOCK FALSE
INVARIANTS GuardedWriterIsCurrent LeaseEvidence
INVARIANTS DriverHoldsLease AttemptLeavesNothing
PROPERTY ImplementsFencedLease
