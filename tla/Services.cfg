SPECIFICATION ServicesSpec
CONSTANTS
    Activations = {a1, a2}
    NoActivation = NoActivation
    MaxGeneration = 3
    Requests = {q1, q2}
    Policies = {"passive", "required", "outbox"}
    MaxDispatches = 2
    Uploaders = {q1, q2}
    Collectors = {g1}
    Plans = {p1}
    Nobody = Nobody
    MaxDigest = 2
    MaxVersion = 2
    Workers = {a1, a2}
    NoWorker = NoWorker
    Messages = {m1}
    MaxRequests = 1
    MaxQueue = 2
    MaxRecoverAttempts = 2
    TaskedWait = FALSE
    Agents = {a1, a2, w3}
    NoAgent = NoAgent
    Callbacks = {c1, c2}
SYMMETRY Symmetry
CHECK_DEADLOCK FALSE
INVARIANTS ProviderEnteredOnce TurnIsDurable AssociatedObjectsExist
INVARIANTS AcceptedIsKept AppliedOnce AcksFollowSends 
INVARIANTS RevocationDrains BridgesAreToldOnce
