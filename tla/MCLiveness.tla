------------------------------ MODULE MCLiveness ------------------------------
(* Progress of an abandonable call, of the DBOS host, of the authority store's
   transactions, of the Activity attempt and of the command lane, explored one
   after the other: `part` says which one moves, the others stay where they
   start.  Each keeps its own fairness. *)
EXTENDS SyncBridge, DbosHost

CONSTANTS Owners, Workers, NoAttempt, NoOwner, NoCaller, CommandIds, NoCommand, Dispatchers

VARIABLES part, storeRow, storeLock, storeNow, storeCall
VARIABLES row, lock, now, call, sup
VARIABLES records, head, outbox, bound, terminal, dispatcher,
          generation, holder, log, signals, workflow, attempt

Store == INSTANCE AuthorityStore
    WITH row <- storeRow, lock <- storeLock, now <- storeNow, call <- storeCall,
         Callers <- Closers, TTL <- 1, MaxNow <- 1, MaxGeneration <- 2

Supervisor == INSTANCE LeaseSupervisor
    WITH Callers <- Workers, Owners <- Workers, TTL <- 2, MaxNow <- 3, MaxGeneration <- 2

Lane == INSTANCE CommandLane
    WITH Attempts <- Workers, MaxCommands <- 2, MaxClaims <- 2, MaxGeneration <- 1, MaxCheckpoints <- 2

authorityVars == <<storeRow, storeLock, storeNow, storeCall>>

supVars == <<row, lock, now, call, sup>>

laneVars == <<records, head, outbox, bound, terminal, dispatcher,
              generation, holder, log, signals, workflow, attempt>>

LiveInit ==
    /\ part \in {"authority", "supervisor", "lane", "bridge", "dbos"}
    /\ Store!Init /\ Supervisor!SupInit /\ Lane!LaneInit /\ BridgeInit /\ HostedInit
    /\ part # "bridge" => shape = "sync" /\ ~token.requested

LiveNext ==
    /\ UNCHANGED part
    /\ \/ /\ part = "authority" /\ Store!Next
          /\ UNCHANGED <<supVars, laneVars, bridgeVars, hostedVars>>
       \/ /\ part = "supervisor" /\ Supervisor!SupNext
          /\ UNCHANGED <<authorityVars, laneVars, bridgeVars, hostedVars>>
       \/ /\ part = "lane" /\ Lane!LaneNext
          /\ UNCHANGED <<authorityVars, supVars, bridgeVars, hostedVars>>
       \/ /\ part = "bridge" /\ BridgeNext
          /\ UNCHANGED <<authorityVars, supVars, laneVars, hostedVars>>
       \/ /\ part = "dbos" /\ HostedNext
          /\ UNCHANGED <<authorityVars, supVars, laneVars, bridgeVars>>

LiveSpec ==
    /\ LiveInit
    /\ [][LiveNext]_<<part, authorityVars, supVars, laneVars, bridgeVars, hostedVars>>
    /\ \A c \in Closers : SF_authorityVars(part = "authority" /\ Store!Serve(c))
    /\ \A a \in Workers :
          /\ WF_supVars(part = "supervisor" /\ Supervisor!Main(a))
          /\ WF_supVars(part = "supervisor" /\ Supervisor!ControlDeadline(a))
    /\ \A d \in Dispatchers : WF_laneVars(part = "lane" /\ Lane!Dispatching(d))
    /\ WF_bridgeVars(part = "bridge" /\ Awaiter)
    /\ WF_bridgeVars(part = "bridge" /\ CallBack)
    /\ WF_hostedVars(part = "dbos" /\ ShutdownDeadlinePasses)
    /\ WF_hostedVars(part = "dbos" /\ ShutdownWatchdog)
    /\ \A c \in Closers : WF_hostedVars(part = "dbos" /\ CloserWakes(c))

(* No transaction of the authority store waits for ever (AuthorityStore). *)
EveryCallAnswered == Store!EveryCallAnswered

(* Every attempt that started ends (LeaseSupervisor). *)
AttemptEnds == Supervisor!AttemptEnds

(* The outbox converges after the terminal commit (CommandLane). *)
TerminalConverges == Lane!TerminalConverges
=============================================================================
