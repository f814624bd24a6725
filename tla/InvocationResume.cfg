SPECIFICATION InvocationSpec
CONSTANTS
    Activations = {a1, a2}
    NoActivation = NoActivation
    MaxGeneration = 3
    Requests = {q1}
    Policies = {"passive", "required", "outbox"}
    MaxDispatches = 2
INVARIANT ReservationCanBeResumed
CHECK_DEADLOCK FALSE
