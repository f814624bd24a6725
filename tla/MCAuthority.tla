----------------------------- MODULE MCAuthority -----------------------------
(* The authority store and the Activity attempts that use it, explored one
   after the other: in part "store" any caller sends any request, in part
   "attempts" the supervisors send theirs, within bounds of their own.  An
   attempt is its own owner. *)
EXTENDS LeaseSupervisor, TLC

VARIABLE part

Supervised == INSTANCE LeaseSupervisor WITH MaxNow <- 2

\* Bounds of part "attempts".  It has no guarded mutations, which only keep a driver from
\* ending and revoke from returning, and which no property reads: revoke returns at once,
\* and the liveness run explores the rest.  An attempt that was never handed a lease has
\* no driver, so one whose bootstrap was abandoned is enough beside the other attempt, and
\* its cleanup, which has nothing to stop or to release, does not time out.
Revoking == \E a \in Attempts : sup[a].main \in {"failing", "leaving"}

AttemptsBound ==
    /\ \A a \in Attempts : ~sup'[a].guarding /\ (sup'[a].main = "leaving" => sup'[a].leased)
    /\ \E a \in Attempts : ~sup'[a].abandoned
    /\ Revoking => \E a \in Attempts : Supervised!RevokeReturns(a)

AuthorityInit == part \in {"store", "attempts"} /\ SupInit

AuthorityNext ==
    /\ UNCHANGED part
    /\ \/ part = "store" /\ Next /\ UNCHANGED sup
       \/ part = "attempts" /\ Supervised!SupNext /\ AttemptsBound

AuthoritySpec == AuthorityInit /\ [][AuthorityNext]_<<part, storeVars, sup>>

Symmetry == Permutations(Callers)
=============================================================================
