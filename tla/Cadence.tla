------------------------------ MODULE Cadence ------------------------------
(***************************************************************************)
(* The poll loop against the clock: how long the parts of a cycle take,    *)
(* the wait that _run_poll_loop measures from the end of a cycle, and what *)
(* follows for the three parties that watch it through time - Argo, which  *)
(* deletes a finished run after its TTL, readers, which judge a sidecar by *)
(* its generated_at, and the health endpoint, which judges the process by  *)
(* its latest success.                                                     *)
(***************************************************************************)
EXTENDS Integers

CONSTANTS
    ClusterCount,  \* clusters are listed one after the other, 1 first
    PollInterval,  \* POLL_INTERVAL_SECONDS, in ticks
    CycleMax,      \* C_max: no cycle takes longer
    TTL,           \* a finished run survives that long at least
    Second,        \* ticks to a second, the resolution of generated_at
    MaxTime        \* bound on the clock

VARIABLES
    now,           \* the clock
    at,            \* what the poll loop is doing
    since,         \* start of the latest cycle
    listed,        \* clusters it has listed so far
    due,           \* when the wait ends and the next cycle starts
    marker,        \* generated_at of the sidecar on storage, or None
    lastSuccess,   \* _HealthState._last_success, or None
    failures,      \* cycles that failed since then
    healthy,       \* ghost: no cycle and no listing has failed yet
    run,           \* one run in every cluster
    finishedAt,    \* when it finished
    seen           \* has a cycle listed it after that

cycleVars == <<at, since, listed, due, marker, lastSuccess, failures, healthy>>
runVars == <<run, finishedAt, seen>>
vars == <<now, cycleVars, runVars>>

None == -1

Clusters == 1..ClusterCount

ASSUME CadenceAssumption ==
    /\ ClusterCount \in Nat \ {0} /\ PollInterval \in Nat \ {0}
    /\ CycleMax \in Nat /\ TTL \in Nat /\ Second \in Nat \ {0}
    /\ MaxTime \in Nat

TypeOK ==
    /\ now \in Nat
    /\ at \in {"wait", "list", "done"}
    /\ since \in Nat
    /\ listed \in 0..ClusterCount
    /\ due \in Nat
    /\ marker \in Nat \cup {None}
    /\ lastSuccess \in Nat \cup {None}
    /\ failures \in Nat
    /\ healthy \in BOOLEAN
    /\ run \in [Clusters -> {"running", "finished", "deleted"}]
    /\ finishedAt \in [Clusters -> Nat]
    /\ seen \in [Clusters -> BOOLEAN]

Init ==
    /\ now = 0
    /\ at = "wait"
    /\ since = 0
    /\ listed = 0
    /\ due = 0
    /\ marker = None
    /\ lastSuccess = None
    /\ failures = 0
    /\ healthy = TRUE
    /\ run = [c \in Clusters |-> "running"]
    /\ finishedAt = [c \in Clusters |-> 0]
    /\ seen = [c \in Clusters |-> FALSE]

-----------------------------------------------------------------------------

(* Time passes, but not beyond the end of the wait, nor of the longest     *)
(* cycle there can be.  That no cycle is longer is what C_max means; the   *)
(* code has a timeout on each wait for bytes and does not count pages.     *)
Tick ==
    /\ now < MaxTime
    /\ IF at = "wait" THEN now < due ELSE now < since + CycleMax
    /\ now' = now + 1
    /\ UNCHANGED <<cycleVars, runVars>>

FinishRun(c) ==
    /\ run[c] = "running"
    /\ run' = [run EXCEPT ![c] = "finished"]
    /\ finishedAt' = [finishedAt EXCEPT ![c] = now]
    /\ UNCHANGED <<now, cycleVars, seen>>

(* ttlStrategy: not before the TTL has gone by.                            *)
DeleteRun(c) ==
    /\ run[c] = "finished"
    /\ now >= finishedAt[c] + TTL
    /\ run' = [run EXCEPT ![c] = "deleted"]
    /\ UNCHANGED <<now, cycleVars, finishedAt, seen>>

-----------------------------------------------------------------------------

(* _now: whole seconds.                                                    *)
Stamp(t) == t - (t % Second)

StartCycle ==
    /\ at = "wait"
    /\ now >= due
    /\ at' = "list"
    /\ since' = now
    /\ listed' = 0
    /\ UNCHANGED <<now, due, marker, lastSuccess, failures, healthy, runVars>>

(* The listing of one cluster is answered.                                 *)
ListCluster ==
    /\ at = "list"
    /\ listed < ClusterCount
    /\ seen' = [c \in Clusters |->
                  seen[c] \/ (c = listed + 1 /\ run[c] = "finished")]
    /\ listed' = listed + 1
    /\ UNCHANGED <<now, at, since, due, marker, lastSuccess, failures, healthy,
                   run, finishedAt>>

(* It is not, and the cluster is left out of this cycle.                   *)
MissCluster ==
    /\ at = "list"
    /\ listed < ClusterCount
    /\ listed' = listed + 1
    /\ healthy' = FALSE
    /\ UNCHANGED <<now, at, since, due, marker, lastSuccess, failures, runVars>>

(* Mistake: the cycle goes on before the last cluster is listed.           *)
Publish_WithoutTheLast ==
    /\ at = "list"
    /\ listed >= ClusterCount - 1
    /\ at' = "done"
    /\ marker' = Stamp(since)
    /\ UNCHANGED <<now, since, listed, due, lastSuccess, failures, healthy, runVars>>

(* The upload of meta.json, the last of the publish phase.                 *)
Publish ==
    /\ at = "list"
    /\ listed = ClusterCount
    /\ at' = "done"
    /\ marker' = Stamp(since)
    /\ UNCHANGED <<now, since, listed, due, lastSuccess, failures, healthy, runVars>>

(* Mistake: the wait is taken twice.                                       *)
Finish_WaitsTwice ==
    /\ at = "done"
    /\ at' = "wait"
    /\ due' = now + 2 * PollInterval
    /\ lastSuccess' = now
    /\ failures' = 0
    /\ UNCHANGED <<now, since, listed, marker, healthy, runVars>>

(* _run_cycle has returned True: record_success, and the wait.             *)
Finish ==
    /\ at = "done"
    /\ at' = "wait"
    /\ due' = now + PollInterval
    /\ lastSuccess' = now
    /\ failures' = 0
    /\ UNCHANGED <<now, since, listed, marker, healthy, runVars>>

(* Mistake: a failed cycle is retried without a wait.                      *)
Fail_RetriesAtOnce ==
    /\ at = "list"
    /\ at' = "wait"
    /\ due' = now
    /\ failures' = failures + 1
    /\ healthy' = FALSE
    /\ UNCHANGED <<now, since, listed, marker, lastSuccess, runVars>>

(* It has returned False or raised, before meta.json was overwritten: the  *)
(* same wait.                                                              *)
Fail ==
    /\ at = "list"
    /\ at' = "wait"
    /\ due' = now + PollInterval
    /\ failures' = failures + 1
    /\ healthy' = FALSE
    /\ UNCHANGED <<now, since, listed, marker, lastSuccess, runVars>>

Next ==
    \/ Tick
    \/ \E c \in Clusters : FinishRun(c) \/ DeleteRun(c)
    \/ StartCycle
    \/ ListCluster
    \/ MissCluster
    \/ Publish
    \/ Finish
    \/ Fail

Spec == Init /\ [][Next]_vars

-----------------------------------------------------------------------------

(* freshness_age_seconds and freshness_threshold_seconds, for a reader     *)
(* that was told the true C_max.                                           *)
MarkerAge == now - marker

FreshnessThreshold == CycleMax + PollInterval

Fresh == MarkerAge < FreshnessThreshold

(* Mistake: a success is good for one interval only.                       *)
Status_OneInterval ==
    IF lastSuccess = None THEN "starting"
    ELSE IF now - lastSuccess >= PollInterval THEN "stale"
    ELSE "ok"

(* _HealthState.snapshot.                                                  *)
Status ==
    IF lastSuccess = None THEN "starting"
    ELSE IF now - lastSuccess >= 2 * PollInterval THEN "stale"
    ELSE "ok"

-----------------------------------------------------------------------------

SeenBeforeDeletion == \A c \in Clusters : run[c] = "deleted" => seen[c]

(* What ttl-and-observation-windows.md promises of the interval it tells   *)
(* the operator to choose.  It does not hold: a cluster may be listed at   *)
(* the beginning of one cycle and at the end of the next.                  *)
TtlBoundSuffices ==
    healthy /\ CycleMax + PollInterval < TTL => SeenBeforeDeletion

(* What does suffice: two whole cycles and the wait between them.          *)
TwoCyclesSuffice ==
    healthy /\ 2 * CycleMax + PollInterval < TTL => SeenBeforeDeletion

(* What the same document says of the freshness threshold, that C_max in   *)
(* it covers a slow cycle.  It does not hold: the sidecar on storage ages  *)
(* through its own cycle, the wait, and the next cycle.                    *)
HealthyIsFresh == healthy /\ marker # None => Fresh

(* How old the sidecar of an exporter without failures gets: the threshold *)
(* would have to be above that never to raise a false alarm.               *)
HealthyAgeIsBounded ==
    healthy /\ marker # None => MarkerAge <= 2 * CycleMax + PollInterval + Second - 1

(* A reader that checks freshness works with no generation for longer than *)
(* the threshold leaves room for failed cycles, wherever in the cycle and  *)
(* the second it was stamped.  (A cycle whose sidecar has landed has yet   *)
(* to forget the failures before it.)                                      *)
FreshMeansFewFailures ==
    marker # None /\ Fresh /\ at # "done" => (failures - 1) * PollInterval < CycleMax

(* The endpoint answers 200 through one failed cycle and no more.          *)
OkMeansAtMostOneFailure == Status = "ok" => failures <= 1

(* Without failures the endpoint is not stale, provided that cycles are    *)
(* shorter than the wait.                                                  *)
HealthyIsOk ==
    healthy /\ lastSuccess # None /\ CycleMax < PollInterval => Status = "ok"

-----------------------------------------------------------------------------

(* Why they hold: the inductive invariant.  It keeps account of when the   *)
(* loop may go on, seen from the wait (due) and from inside a cycle        *)
(* (since).                                                                *)

Paced ==
    /\ since <= now
    /\ at = "wait" => now <= due /\ due <= now + PollInterval
    /\ at # "wait" => now <= since + CycleMax
    /\ at = "done" => listed = ClusterCount /\ marker <= since

(* The latest start the next look at something from instant t can have.    *)
NextStartWithin(t, delay) ==
    IF at = "wait" THEN due <= t + delay ELSE since <= t + delay

(* A finished run that no cycle has seen finished since before this cycle, *)
(* if this cycle has still to list its cluster, or else since within it.   *)
UnseenIsRecent ==
    \A c \in Clusters : run[c] = "finished" /\ ~ seen[c] =>
        IF at = "wait" \/ listed < c
          THEN NextStartWithin(finishedAt[c], CycleMax + PollInterval)
          ELSE since <= finishedAt[c]

MarkerIsRecent ==
    marker # None =>
        IF at = "done"
          THEN since <= marker + Second - 1
          ELSE NextStartWithin(marker + Second - 1, CycleMax + PollInterval)

SuccessIsRecent ==
    lastSuccess # None => NextStartWithin(lastSuccess, PollInterval)

(* Failed cycles are a wait apart.                                         *)
FailuresTakeTime ==
    lastSuccess # None =>
        LET next == IF at = "wait" THEN due ELSE since
        IN  /\ failures = 0 => next >= lastSuccess + PollInterval
            /\ failures = 1 => next >= lastSuccess + 2 * PollInterval
            /\ failures > 1 => now >= lastSuccess + 2 * PollInterval

(* Each failed cycle puts a wait between the stamp and the next start.     *)
FailuresAgeMarker ==
    marker # None /\ at # "done" =>
        LET next == IF at = "wait" THEN due ELSE since
        IN  next >= marker + (failures + 1) * PollInterval

CadenceInv ==
    /\ TypeOK
    /\ Paced
    /\ healthy => UnseenIsRecent /\ MarkerIsRecent /\ SuccessIsRecent
    /\ FailuresTakeTime
    /\ FailuresAgeMarker
    /\ TwoCyclesSuffice

=============================================================================
