--------------------------- MODULE LeaseSupervisor ---------------------------
(***************************************************************************)
(* One Temporal Activity attempt per claim identity: the main thread of    *)
(* TemporalActivationActivity.run and the threads its lease supervisor     *)
(* starts (bootstrap, renewal, control, driver, cleanup), over the         *)
(* transactions of AuthorityStore (adapters/temporal/activity.py and       *)
(* hosting/authority.py).                                                  *)
(*                                                                         *)
(* An attempt has at most one authority call open: the bootstrap thread    *)
(* ends or is abandoned before the renewal thread starts, and cleanup      *)
(* joins the renewal thread before it releases.  Timeouts may fire at any  *)
(* moment.  time.monotonic() and the database clock advance at one rate,   *)
(* which is what the code assumes when it subtracts one from the other.    *)
(***************************************************************************)
EXTENDS AuthorityStore

VARIABLE sup  \* per attempt: its threads, its events and what it knows of its lease

supVars == <<storeVars, sup>>

Attempts == Callers

\* An attempt claims under an owner id of its own.
ASSUME AttemptOwnersAssumption == Attempts \subseteq Owners

-----------------------------------------------------------------------------
NewAttempt ==
    [main |-> "new", boot |-> "off", renewal |-> "off", driver |-> "off", cleaner |-> "off",
     booted |-> "none",      \* what bootstrap published
     generation |-> 0,       \* of the claimed lease
     leased |-> FALSE,       \* the main thread was handed the lease
     started |-> 0,          \* renew_started of the renewal in progress
     span |-> 0,             \* leased_until - observed_at of bootstrap's renewal
     deadline |-> 0,         \* _lease_deadline, 0: not installed
     revoked |-> FALSE,      \* ActivationWriteAuthority
     guarding |-> FALSE,     \* the driver is inside guard_local_mutation
     failed |-> FALSE,       \* _failure
     abandoned |-> FALSE,    \* bootstrap abandoned
     stopping |-> FALSE,     \* _renewal_stop
     ok |-> FALSE,           \* the driver's receipt survived the checks after it
     outcome |-> "none"]

Supervisor ==
    [main : {"new", "boot", "install", "drive", "failing", "cleanup", "leaving", "ended",
             "crashed"},
     boot : {"off", "claim", "reclaim", "read", "renew", "bind", "release", "over"},
     renewal : {"off", "sleep", "calling", "over"}, driver : {"off", "run", "over"},
     cleaner : {"off", "join", "release", "over"}, booted : {"none", "ok", "error"},
     generation : 0 .. MaxGeneration, leased : BOOLEAN, started : Nat, span : Nat,
     deadline : Nat, revoked : BOOLEAN, guarding : BOOLEAN, failed : BOOLEAN, abandoned : BOOLEAN,
     stopping : BOOLEAN, ok : BOOLEAN, outcome : {"none", "success", "error"}]

Update(a, s) == sup' = [sup EXCEPT ![a] = s]

\* Mutant: the failure is published but the write authority stays active.
FailWithoutRevoke(s) == [s EXCEPT !.failed = TRUE]

\* What _fail publishes at once: the failure and the request to revoke, which every
\* guarded mutation checks when it enters.  revoke then waits, without a timeout, for
\* the lock that guard_local_mutation holds.  That wait is a stage of its own only for
\* a main thread with a running driver, the one thread that uses the guard: a driver
\* does not exist before install_lease and has ended where cleanup has; a renewal
\* thread kept waiting (in renew_writer_lease, or here) would only end, and cleanup
\* joins the driver before it; and the control thread is joined with a timeout.
\* Revoke callbacks are taken to return.
Fail(s) == [s EXCEPT !.failed = TRUE, !.revoked = TRUE]

Got(a, statuses) == call[a].stage = "done" /\ call[a].status \in statuses

Token(a) == <<a, sup[a].generation>>

Finish(a) == Return(a)

-----------------------------------------------------------------------------
(* bootstrap: claim_writer_lease, renew_writer_lease, bind_activation *)

Start(a) ==
    /\ sup[a].main = "new"
    /\ Invoke(a, "claim", <<a, 0>>)
    /\ Update(a, [sup[a] EXCEPT !.main = "boot", !.boot = "claim"])

\* publish(exc) reaches the main thread unless it stopped waiting.
Raise(s) ==
    [s EXCEPT !.booted = IF s.abandoned THEN s.booted ELSE "error"]

\* An ambiguous claim is repeated by the same owner, then looked up.
Reclaim(a) ==
    /\ sup[a].boot = "claim" /\ Got(a, {"error"})
    /\ Invoke(a, "claim", <<a, 0>>)
    /\ Update(a, [sup[a] EXCEPT !.boot = "reclaim"])

LookUpClaim(a) ==
    /\ sup[a].boot = "reclaim" /\ Got(a, {"error"})
    /\ Invoke(a, "read", <<a, 0>>)
    /\ Update(a, [sup[a] EXCEPT !.boot = "read"])

\* The read recovers the lease only if this owner holds it at the observation.
Claimed(a) ==
    \/ sup[a].boot \in {"claim", "reclaim"} /\ Got(a, {"granted"})
    \/ /\ sup[a].boot = "read" /\ Got(a, {"observed"})
       /\ call[a].until > call[a].observed /\ call[a].owner = a

NotClaimed(a) ==
    \/ sup[a].boot \in {"claim", "reclaim"} /\ Got(a, {"unavailable"})
    \/ sup[a].boot = "read" /\ Got(a, {"error"})
    \/ /\ sup[a].boot = "read" /\ Got(a, {"observed"})
       /\ ~(call[a].until > call[a].observed /\ call[a].owner = a)

ClaimFails(a) ==
    /\ NotClaimed(a)
    /\ Finish(a)
    /\ Update(a, Raise([sup[a] EXCEPT !.boot = "over"]))

RenewAfterClaim(a) ==
    /\ Claimed(a) /\ ~sup[a].abandoned
    /\ Invoke(a, "renew", <<a, call[a].generation>>)
    /\ Update(a, [sup[a] EXCEPT !.boot = "renew", !.generation = call[a].generation,
                                !.started = now])

\* release_abandoned: the answer is ignored.
ReleaseAfterClaim(a) ==
    /\ Claimed(a) /\ sup[a].abandoned
    /\ Invoke(a, "release", <<a, call[a].generation>>)
    /\ Update(a, [sup[a] EXCEPT !.boot = "release", !.generation = call[a].generation])

\* bind_activation is a mutation guarded by the lease just renewed.
Bind(a) ==
    /\ sup[a].boot = "renew" /\ Got(a, {"renewed"})
    /\ Invoke(a, "guard", Token(a))
    /\ Update(a, [sup[a] EXCEPT !.boot = "bind", !.span = call[a].until - call[a].observed])

\* renew_writer_lease revokes on every ambiguous or fenced answer.
BootRenewFails(a) ==
    /\ sup[a].boot = "renew" /\ Got(a, {"fenced", "error"})
    /\ Invoke(a, "release", Token(a))
    /\ Update(a, Raise([sup[a] EXCEPT !.boot = "release", !.revoked = TRUE]))

PublishBootstrap(a) ==
    /\ sup[a].boot = "bind" /\ Got(a, {"committed", "already_committed"})
    /\ ~sup[a].abandoned
    /\ Finish(a)
    /\ Update(a, [sup[a] EXCEPT !.boot = "over", !.booted = "ok"])

BindFailsOrAbandoned(a) ==
    /\ sup[a].boot = "bind"
    /\ \/ Got(a, {"fenced", "conflict", "error"})
       \/ Got(a, {"committed", "already_committed"}) /\ sup[a].abandoned
    /\ Invoke(a, "release", Token(a))
    /\ Update(a, Raise([sup[a] EXCEPT !.boot = "release"]))

BootReleased(a) ==
    /\ sup[a].boot = "release" /\ call[a].stage = "done"
    /\ Finish(a)
    /\ Update(a, [sup[a] EXCEPT !.boot = "over"])

Bootstrap(a) ==
    \/ Reclaim(a) \/ LookUpClaim(a) \/ ClaimFails(a)
    \/ RenewAfterClaim(a) \/ ReleaseAfterClaim(a) \/ Bind(a) \/ BootRenewFails(a)
    \/ PublishBootstrap(a) \/ BindFailsOrAbandoned(a) \/ BootReleased(a)

-----------------------------------------------------------------------------
(* The main thread: run, bootstrap's wait, install_lease, drive, cleanup *)

\* Everything that ends the attempt early goes through cleanup, which first
\* stops renewals and then waits for the driver and the renewal thread.
ToCleanup(s) == [s EXCEPT !.main = "cleanup", !.stopping = TRUE, !.cleaner = "join"]

BootstrapWaits(a) ==
    /\ sup[a].main = "boot"
    /\ \/ /\ sup[a].booted = "ok"
          /\ Update(a, [sup[a] EXCEPT !.main = "install", !.leased = TRUE])
       \/ /\ sup[a].booted = "error"
          /\ Update(a, ToCleanup(sup[a]))
       \/ /\ sup[a].booted = "none"   \* timed out or lost control
          /\ Update(a, ToCleanup(Fail([sup[a] EXCEPT !.abandoned = TRUE])))
    /\ UNCHANGED storeVars

\* Mutant: the deadline counts from when the answer is installed.
InstalledDeadlineFromNow(s) == now + s.span

\* The local deadline counts from before the renewal was sent.
InstalledDeadline(s) == s.started + s.span

InstallLease(a) ==
    LET s == sup[a] IN
    /\ s.main = "install"
    /\ \/ /\ s.failed \/ s.revoked
          /\ Update(a, ToCleanup(s))
       \/ /\ ~s.failed /\ ~s.revoked /\ now >= InstalledDeadline(s)
          /\ Update(a, ToCleanup(Fail(s)))
       \/ /\ ~s.failed /\ ~s.revoked /\ now < InstalledDeadline(s)
          /\ Update(a, [s EXCEPT !.main = "drive", !.driver = "run", !.renewal = "sleep",
                                 !.deadline = InstalledDeadline(s),
                                 !.started = 0, !.span = 0])
    /\ UNCHANGED storeVars

\* Mutant: the guard does not look at the request to revoke.
EnterGuardUnchecked(a) ==
    /\ sup[a].driver = "run" /\ ~sup[a].guarding
    /\ Update(a, [sup[a] EXCEPT !.guarding = TRUE])
    /\ UNCHANGED storeVars

\* guard_local_mutation takes the lock and refuses once a revocation was requested;
\* the mutation (a file write of the run directory or workspace) may hang.
EnterGuard(a) ==
    /\ sup[a].driver = "run" /\ ~sup[a].guarding /\ ~sup[a].revoked
    /\ Update(a, [sup[a] EXCEPT !.guarding = TRUE])
    /\ UNCHANGED storeVars

LeaveGuard(a) ==
    /\ sup[a].guarding
    /\ Update(a, [sup[a] EXCEPT !.guarding = FALSE])
    /\ UNCHANGED storeVars

\* The driver thread ends, with a receipt or an error; it may also never end.
DriverEnds(a) ==
    /\ sup[a].driver = "run" /\ ~sup[a].guarding
    /\ \E ok \in BOOLEAN : Update(a, [sup[a] EXCEPT !.driver = "over", !.ok = ok])
    /\ UNCHANGED storeVars

DriveWaits(a) ==
    LET s == sup[a] IN
    /\ s.main = "drive"
    /\ \/ /\ s.driver = "over"
          /\ Update(a, ToCleanup([s EXCEPT !.ok = @ /\ ~s.failed /\ ~s.revoked]))
       \/ /\ s.driver = "run"         \* timed out or lost control
          /\ Update(a, [Fail(s) EXCEPT !.main = "failing"])
    /\ UNCHANGED storeVars

\* revoke has got the lock, and _fail returns.
RevokeReturns(a) ==
    LET s == sup[a] IN
    /\ ~s.guarding
    /\ \/ s.main = "failing" /\ Update(a, ToCleanup(s))
       \/ s.main = "leaving" /\ Update(a, [s EXCEPT !.main = "ended"])
    /\ UNCHANGED storeVars

CleanupReleases(a) ==
    /\ sup[a].cleaner = "join"
    /\ sup[a].driver # "run" /\ sup[a].renewal \notin {"sleep", "calling"}
    /\ \/ /\ sup[a].leased
          /\ Invoke(a, "release", Token(a))
          /\ Update(a, [sup[a] EXCEPT !.cleaner = "release"])
       \/ /\ ~sup[a].leased
          /\ Update(a, [sup[a] EXCEPT !.cleaner = "over"])
          /\ UNCHANGED storeVars

\* A release that was fenced or raised costs the attempt its result.
CleanupReleased(a) ==
    /\ sup[a].cleaner = "release" /\ call[a].stage = "done"
    /\ Finish(a)
    /\ Update(a, [sup[a] EXCEPT !.cleaner = "over",
                                !.ok = @ /\ Got(a, {"released", "already_released"})])

CleanupWaits(a) ==
    LET s == sup[a] IN
    /\ s.main = "cleanup"
    /\ \/ /\ s.cleaner = "over"
          /\ Update(a, [s EXCEPT !.main = "ended", !.revoked = TRUE, !.deadline = 0,
                                 !.outcome = IF s.ok /\ ~s.failed THEN "success" ELSE "error"])
       \/ /\ s.cleaner # "over"       \* timed out
          /\ Update(a, [Fail(s) EXCEPT !.main = "leaving", !.outcome = "error"])
    /\ UNCHANGED storeVars

Main(a) ==
    \/ BootstrapWaits(a) \/ InstallLease(a) \/ DriveWaits(a) \/ CleanupWaits(a)
    \/ RevokeReturns(a)

-----------------------------------------------------------------------------
(* The renewal and control threads *)

RenewalWakes(a) ==
    LET s == sup[a] IN
    /\ s.renewal = "sleep"
    /\ \/ /\ s.stopping \/ s.failed
          /\ Update(a, [s EXCEPT !.renewal = "over"])
          /\ UNCHANGED storeVars
       \/ /\ ~s.stopping /\ ~s.failed /\ now >= s.deadline
          /\ Update(a, Fail([s EXCEPT !.renewal = "over"]))
          /\ UNCHANGED storeVars
       \/ /\ ~s.stopping /\ ~s.failed /\ now < s.deadline
          /\ Invoke(a, "renew", Token(a))
          /\ Update(a, [s EXCEPT !.renewal = "calling", !.started = now])

RenewalAnswered(a) ==
    LET s == [sup[a] EXCEPT !.started = 0]
        deadline == sup[a].started + (call[a].until - call[a].observed)
    IN
    /\ s.renewal = "calling" /\ call[a].stage = "done"
    /\ Finish(a)
    /\ \/ /\ Got(a, {"fenced", "error"}) \/ s.failed \/ now >= deadline
          /\ Update(a, Fail([s EXCEPT !.renewal = "over"]))
       \/ /\ Got(a, {"renewed"}) /\ ~s.failed /\ now < deadline /\ s.stopping
          /\ Update(a, [s EXCEPT !.renewal = "over"])
       \/ /\ Got(a, {"renewed"}) /\ ~s.failed /\ now < deadline /\ ~s.stopping
          /\ Update(a, [s EXCEPT !.renewal = "sleep", !.deadline = deadline])

ControlRuns(a) == sup[a].main \notin {"new", "ended", "crashed"}

\* The lease deadline passed, or the control thread itself failed.
ControlFails(a) ==
    /\ ControlRuns(a) /\ ~sup[a].failed
    /\ Update(a, Fail(sup[a]))
    /\ UNCHANGED storeVars

ControlDeadline(a) ==
    /\ sup[a].deadline > 0 /\ now >= sup[a].deadline
    /\ ControlFails(a)

\* The worker process dies; an open transaction is rolled back.
Crash(a) ==
    /\ ControlRuns(a)
    /\ \/ Abort(a)
       \/ Return(a)
       \/ call[a].stage = "idle" /\ UNCHANGED storeVars
    /\ Update(a, [NewAttempt EXCEPT !.main = "crashed"])

-----------------------------------------------------------------------------
Database(a) ==
    \/ Claim(a) \/ TokenFindsNoRow(a) \/ RenewReads(a) \/ RenewUpdates(a)
    \/ ReleaseReads(a) \/ ReleaseUpdates(a) \/ Read(a) \/ GuardReads(a)
    \/ GuardCommits(a, "committed") \/ GuardCommits(a, "conflict")

Threads(a) ==
    \/ Bootstrap(a) \/ Main(a) \/ RenewalWakes(a) \/ RenewalAnswered(a)
    \/ CleanupReleases(a) \/ CleanupReleased(a)

SupInit == Init /\ sup = [a \in Attempts |-> NewAttempt]

SupNext ==
    \/ Tick /\ UNCHANGED sup
    \/ \E a \in Attempts :
        \/ (Database(a) \/ Abort(a)) /\ UNCHANGED sup
        \/ Start(a) \/ Threads(a) \/ ControlFails(a) \/ Crash(a)
        \/ EnterGuard(a) \/ LeaveGuard(a) \/ DriverEnds(a)

SupSpec == SupInit /\ [][SupNext]_supVars

\* Only the main thread, whose waits all time out but the one for the write
\* authority's lock, and the control thread at its deadline are assumed to run:
\* database calls, the driver, its guarded mutations, the renewal thread and cleanup
\* may hang for ever.
FairSupSpec ==
    /\ SupSpec
    /\ \A a \in Attempts : WF_supVars(Main(a)) /\ WF_supVars(ControlDeadline(a))

-----------------------------------------------------------------------------
(* Properties *)

SupTypeOK == TypeOK /\ sup \in [Attempts -> Supervisor]

\* A driver that is still allowed to act by what its own process knows.
LocallyAuthorised(a) ==
    sup[a].driver = "run" /\ ~sup[a].revoked /\ now < sup[a].deadline

(* Local authority implies database authority.  While a driver runs, is not
   revoked and its local deadline lies ahead, the authority row is its own and
   active: whatever was delayed, lost or retried while claiming and renewing,
   the local deadline never outlives the database lease, and nothing releases
   the lease under a running driver. *)
DriverHoldsLease ==
    \A a \in Attempts : LocallyAuthorised(a) =>
        row.owner = a /\ row.generation = sup[a].generation /\ Active(row, now)

(* An attempt leaves nothing behind that could act for it.  When the Activity has
   returned or given up waiting, a driver thread that is still running has lost
   its local authority; and after a successful attempt there is no lease left
   for the next command of the run to wait out. *)
AttemptLeavesNothing ==
    \A a \in Attempts :
        /\ sup[a].main \in {"failing", "cleanup", "leaving", "ended"} /\ sup[a].driver = "run"
              => sup[a].revoked
        /\ sup[a].outcome = "success" => ~(row.owner = a /\ Active(row, now))

(* Every attempt that started ends, although database calls may hang and the
   driver may never return, unless the driver hangs for ever inside one guarded
   mutation: the request to revoke keeps it out of the next one, so that no
   driver can keep the main thread waiting for the lock by going on writing. *)
AttemptEnds ==
    \A a \in Attempts :
        sup[a].main = "boot" ~>
            \/ sup[a].main \in {"ended", "crashed"}
            \/ []sup[a].guarding
=============================================================================
