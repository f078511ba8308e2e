--------------------------- MODULE Cadence_proofs ---------------------------
(***************************************************************************)
(* Proofs about module Cadence: how late a run is seen, how old a sidecar  *)
(* gets and what the health endpoint says, for any number of clusters, any *)
(* interval, any length of a cycle and any resolution of the stamps.       *)
(***************************************************************************)
EXTENDS Cadence, TLAPS

(* Rounding down to a second loses less than one second.                   *)
LEMMA StampBounds ==
    ASSUME NEW t \in Nat
    PROVE  Stamp(t) \in Nat /\ Stamp(t) <= t /\ t <= Stamp(t) + Second - 1
  <1>1. Second \in Nat /\ Second > 0
    BY CadenceAssumption
  <1>2. t % Second \in 0..(Second - 1)
    BY <1>1
  <1>3. t = Second * (t \div Second) + (t % Second)
    BY <1>1
  <1>4. t \div Second \in Nat
    BY <1>1
  <1>5. Second * (t \div Second) \in Nat
    BY <1>1, <1>4
  <1> QED
    BY <1>1, <1>2, <1>3, <1>5 DEF Stamp

(* The first instant.                                                      *)
LEMMA InvInit == Init => CadenceInv
  BY CadenceAssumption
  DEF Init, CadenceInv, TypeOK, Paced, UnseenIsRecent, MarkerIsRecent, SuccessIsRecent,
      FailuresTakeTime, FailuresAgeMarker, TwoCyclesSuffice, SeenBeforeDeletion, NextStartWithin,
      Clusters, None

(* Every step keeps the types.                                             *)
LEMMA TypeNext == TypeOK /\ [Next]_vars => TypeOK'
  <1> SUFFICES ASSUME TypeOK, [Next]_vars PROVE TypeOK'
    OBVIOUS
  <1> USE CadenceAssumption DEF TypeOK
  <1>1. CASE Tick
    BY <1>1 DEF Tick, cycleVars, runVars
  <1>2. ASSUME NEW c \in Clusters, FinishRun(c) PROVE TypeOK'
    BY <1>2 DEF FinishRun, cycleVars
  <1>3. ASSUME NEW c \in Clusters, DeleteRun(c) PROVE TypeOK'
    BY <1>3 DEF DeleteRun, cycleVars
  <1>4. CASE StartCycle
    BY <1>4 DEF StartCycle, runVars
  <1>5. CASE ListCluster
    BY <1>5 DEF ListCluster
  <1>6. CASE MissCluster
    <2>1. healthy' \in BOOLEAN
      BY <1>6 DEF MissCluster
    <2> QED
      BY <1>6, <2>1 DEF MissCluster, runVars
  <1>7. CASE Publish
    BY <1>7, StampBounds DEF Publish, runVars
  <1>8. CASE Finish
    BY <1>8 DEF Finish, runVars
  <1>9. CASE Fail
    <2>1. healthy' \in BOOLEAN
      BY <1>9 DEF Fail
    <2> QED
      BY <1>9, <2>1 DEF Fail, runVars
  <1>10. CASE UNCHANGED vars
    BY <1>10 DEF vars, cycleVars, runVars
  <1> QED
    BY <1>1, <1>2, <1>3, <1>4, <1>5, <1>6, <1>7, <1>8, <1>9, <1>10 DEF Next

(* The loop waits no longer than the interval, and a cycle takes no longer *)
(* than C_max.                                                             *)
LEMMA PacedNext == TypeOK /\ Paced /\ [Next]_vars => Paced'
  <1> SUFFICES ASSUME TypeOK, Paced, [Next]_vars PROVE Paced'
    OBVIOUS
  <1> USE CadenceAssumption DEF TypeOK, Paced
  <1>1. CASE Tick
    BY <1>1 DEF Tick, cycleVars, runVars
  <1>2. ASSUME NEW c \in Clusters, FinishRun(c) \/ DeleteRun(c) PROVE Paced'
    BY <1>2 DEF FinishRun, DeleteRun, cycleVars
  <1>3. CASE StartCycle
    BY <1>3 DEF StartCycle, runVars
  <1>4. CASE ListCluster
    BY <1>4 DEF ListCluster
  <1>5. CASE MissCluster
    BY <1>5 DEF MissCluster, runVars
  <1>6. CASE Publish
    BY <1>6, StampBounds DEF Publish, runVars
  <1>7. CASE Finish
    BY <1>7 DEF Finish, runVars
  <1>8. CASE Fail
    BY <1>8 DEF Fail, runVars
  <1>9. CASE UNCHANGED vars
    BY <1>9 DEF vars, cycleVars, runVars
  <1> QED
    BY <1>1, <1>2, <1>3, <1>4, <1>5, <1>6, <1>7, <1>8, <1>9 DEF Next

(* Without failures, a finished run that nobody has seen is recent.        *)
LEMMA UnseenNext ==
    TypeOK /\ Paced /\ (healthy => UnseenIsRecent) /\ [Next]_vars
      => (healthy' => UnseenIsRecent')
  <1> SUFFICES ASSUME TypeOK, Paced, healthy => UnseenIsRecent, [Next]_vars, healthy',
                      NEW c \in Clusters, run'[c] = "finished", ~ seen'[c]
               PROVE  IF at' = "wait" \/ listed' < c
                        THEN NextStartWithin(finishedAt[c], CycleMax + PollInterval)'
                        ELSE since' <= finishedAt'[c]
    BY DEF UnseenIsRecent
  <1> c \in Nat /\ 1 <= c /\ c <= ClusterCount
    BY CadenceAssumption DEF Clusters
  <1> USE CadenceAssumption DEF TypeOK, Paced, UnseenIsRecent, NextStartWithin
  <1>1. CASE Tick
    BY <1>1 DEF Tick, cycleVars, runVars
  <1>2. ASSUME NEW d \in Clusters, FinishRun(d), d = c
        PROVE  IF at' = "wait" \/ listed' < c
                 THEN NextStartWithin(finishedAt[c], CycleMax + PollInterval)'
                 ELSE since' <= finishedAt'[c]
    <2>1. finishedAt'[c] = now /\ UNCHANGED cycleVars
      BY <1>2 DEF FinishRun
    <2> QED
      BY <2>1 DEF cycleVars
  <1>3. ASSUME NEW d \in Clusters, FinishRun(d) \/ DeleteRun(d), d # c
        PROVE  IF at' = "wait" \/ listed' < c
                 THEN NextStartWithin(finishedAt[c], CycleMax + PollInterval)'
                 ELSE since' <= finishedAt'[c]
    <2>1. UNCHANGED <<finishedAt[c], run[c], seen[c], cycleVars>>
      BY <1>3 DEF FinishRun, DeleteRun
    <2> QED
      BY <2>1 DEF cycleVars
  <1>4. ASSUME NEW d \in Clusters, DeleteRun(d), d = c PROVE FALSE
    BY <1>4 DEF DeleteRun
  <1>5. CASE StartCycle
    BY <1>5 DEF StartCycle, runVars
  <1>6. CASE ListCluster
    <2>1. UNCHANGED <<at, since, healthy, run, finishedAt>> /\ listed' = listed + 1
          /\ ~ seen[c] /\ c # listed + 1 /\ at = "list"
      BY <1>6 DEF ListCluster
    <2> QED
      BY <2>1
  <1>7. CASE MissCluster
    BY <1>7 DEF MissCluster, runVars
  <1>8. CASE Publish
    BY <1>8 DEF Publish, runVars
  <1>9. CASE Finish
    BY <1>9 DEF Finish, runVars
  <1>10. CASE Fail
    BY <1>10 DEF Fail, runVars
  <1>11. CASE UNCHANGED vars
    BY <1>11 DEF vars, cycleVars, runVars
  <1> QED
    BY <1>1, <1>2, <1>3, <1>4, <1>5, <1>6, <1>7, <1>8, <1>9, <1>10, <1>11 DEF Next

(* Without failures, the sidecar and the latest success are recent.        *)
LEMMA RecentNext ==
    TypeOK /\ Paced /\ (healthy => MarkerIsRecent /\ SuccessIsRecent) /\ [Next]_vars
      => (healthy' => MarkerIsRecent' /\ SuccessIsRecent')
  <1> SUFFICES ASSUME TypeOK, Paced, healthy => MarkerIsRecent /\ SuccessIsRecent,
                      [Next]_vars, healthy'
               PROVE  MarkerIsRecent' /\ SuccessIsRecent'
    OBVIOUS
  <1> USE CadenceAssumption
      DEF TypeOK, Paced, MarkerIsRecent, SuccessIsRecent, NextStartWithin, None
  <1>1. CASE Tick
    BY <1>1 DEF Tick, cycleVars, runVars
  <1>2. ASSUME NEW c \in Clusters, FinishRun(c) \/ DeleteRun(c)
        PROVE  MarkerIsRecent' /\ SuccessIsRecent'
    BY <1>2 DEF FinishRun, DeleteRun, cycleVars
  <1>3. CASE StartCycle
    BY <1>3 DEF StartCycle, runVars
  <1>4. CASE ListCluster
    BY <1>4 DEF ListCluster
  <1>5. CASE MissCluster
    BY <1>5 DEF MissCluster, runVars
  <1>6. CASE Publish
    BY <1>6, StampBounds DEF Publish, runVars
  <1>7. CASE Finish
    BY <1>7 DEF Finish, runVars
  <1>8. CASE Fail
    BY <1>8 DEF Fail, runVars
  <1>9. CASE UNCHANGED vars
    BY <1>9 DEF vars, cycleVars, runVars
  <1> QED
    BY <1>1, <1>2, <1>3, <1>4, <1>5, <1>6, <1>7, <1>8, <1>9 DEF Next

(* The second failure in a row comes two intervals after the success.      *)
LEMMA FailuresNext ==
    TypeOK /\ Paced /\ FailuresTakeTime /\ [Next]_vars => FailuresTakeTime'
  <1> SUFFICES ASSUME TypeOK, Paced, FailuresTakeTime, [Next]_vars
               PROVE  FailuresTakeTime'
    OBVIOUS
  <1> USE CadenceAssumption DEF TypeOK, Paced, FailuresTakeTime, None
  <1>1. CASE Tick
    BY <1>1 DEF Tick, cycleVars, runVars
  <1>2. ASSUME NEW c \in Clusters, FinishRun(c) \/ DeleteRun(c) PROVE FailuresTakeTime'
    BY <1>2 DEF FinishRun, DeleteRun, cycleVars
  <1>3. CASE StartCycle
    BY <1>3 DEF StartCycle, runVars
  <1>4. CASE ListCluster
    BY <1>4 DEF ListCluster
  <1>5. CASE MissCluster
    BY <1>5 DEF MissCluster, runVars
  <1>6. CASE Publish
    BY <1>6 DEF Publish, runVars
  <1>7. CASE Finish
    BY <1>7 DEF Finish, runVars
  <1>8. CASE Fail
    BY <1>8 DEF Fail, runVars
  <1>9. CASE UNCHANGED vars
    BY <1>9 DEF vars, cycleVars, runVars
  <1> QED
    BY <1>1, <1>2, <1>3, <1>4, <1>5, <1>6, <1>7, <1>8, <1>9 DEF Next

(* One failure more is one interval more.                                  *)
LEMMA OneIntervalMore ==
    ASSUME NEW n \in Nat
    PROVE  /\ n * PollInterval \in Nat
           /\ (n + 1) * PollInterval = n * PollInterval + PollInterval
           /\ (n + 2) * PollInterval = n * PollInterval + 2 * PollInterval
           /\ (n - 1) * PollInterval = n * PollInterval - PollInterval
  BY CadenceAssumption

LEMMA FailuresAgeMarkerNext ==
    TypeOK /\ Paced /\ FailuresAgeMarker /\ [Next]_vars => FailuresAgeMarker'
  <1> SUFFICES ASSUME TypeOK, Paced, FailuresAgeMarker, [Next]_vars
               PROVE  FailuresAgeMarker'
    OBVIOUS
  <1> USE CadenceAssumption DEF TypeOK, Paced, FailuresAgeMarker, None
  <1>1. CASE Tick
    BY <1>1 DEF Tick, cycleVars, runVars
  <1>2. ASSUME NEW c \in Clusters, FinishRun(c) \/ DeleteRun(c) PROVE FailuresAgeMarker'
    BY <1>2 DEF FinishRun, DeleteRun, cycleVars
  <1>3. CASE StartCycle
    BY <1>3 DEF StartCycle, runVars
  <1>4. CASE ListCluster \/ MissCluster
    BY <1>4 DEF ListCluster, MissCluster, runVars
  <1>5. CASE Publish
    BY <1>5 DEF Publish, runVars
  <1>6. CASE Finish
    BY <1>6 DEF Finish, runVars
  <1>7. CASE Fail
    <2>1. due' >= since + PollInterval /\ failures' = failures + 1
      BY <1>7 DEF Fail
    <2>2. marker # None => since >= marker + failures * PollInterval + PollInterval
      BY <1>7, OneIntervalMore DEF Fail
    <2>3. (failures' + 1) * PollInterval = failures * PollInterval + 2 * PollInterval
      BY <2>1, OneIntervalMore
    <2> QED
      BY <1>7, <2>1, <2>2, <2>3, OneIntervalMore DEF Fail
  <1>8. CASE UNCHANGED vars
    BY <1>8 DEF vars, cycleVars, runVars
  <1> QED
    BY <1>1, <1>2, <1>3, <1>4, <1>5, <1>6, <1>7, <1>8 DEF Next

(* With a TTL above two cycles and a wait, no run goes unseen.             *)
LEMMA DeletionNext ==
    CadenceInv /\ [Next]_vars => TwoCyclesSuffice'
  <1> SUFFICES ASSUME CadenceInv, [Next]_vars, healthy', 2 * CycleMax + PollInterval < TTL,
                      NEW c \in Clusters, run'[c] = "deleted"
               PROVE  seen'[c]
    BY DEF TwoCyclesSuffice, SeenBeforeDeletion
  <1> USE CadenceAssumption DEF CadenceInv, TypeOK
  <1>1. healthy
    BY DEF Next, Tick, FinishRun, DeleteRun, StartCycle, ListCluster, MissCluster,
           Publish, Finish, Fail, vars, cycleVars, runVars
  <1>2. seen[c] => seen'[c]
    BY DEF Next, Tick, FinishRun, DeleteRun, StartCycle, ListCluster, MissCluster,
           Publish, Finish, Fail, vars, cycleVars, runVars
  <1>3. CASE run[c] = "deleted"
    BY <1>1, <1>2, <1>3 DEF TwoCyclesSuffice, SeenBeforeDeletion
  <1>4. CASE run[c] # "deleted"
    <2>1. DeleteRun(c)
      BY <1>4 DEF Next, Tick, FinishRun, DeleteRun, StartCycle, ListCluster, MissCluster,
                  Publish, Finish, Fail, vars, cycleVars, runVars
    <2>2. run[c] = "finished" /\ now >= finishedAt[c] + TTL
      BY <2>1 DEF DeleteRun
    <2>3. ASSUME ~ seen[c] PROVE now <= finishedAt[c] + 2 * CycleMax + PollInterval
      <3>1. c \in Nat /\ finishedAt[c] \in Nat
        BY DEF Clusters
      <3> QED
        BY <1>1, <2>2, <2>3, <3>1 DEF UnseenIsRecent, NextStartWithin, Paced
    <2>4. finishedAt[c] \in Nat
      OBVIOUS
    <2> QED
      BY <1>2, <2>2, <2>3, <2>4
  <1> QED
    BY <1>3, <1>4

(* The inductive step.                                                     *)
LEMMA InvNext == CadenceInv /\ [Next]_vars => CadenceInv'
  <1> SUFFICES ASSUME CadenceInv, [Next]_vars PROVE CadenceInv'
    OBVIOUS
  <1>1. TypeOK' /\ Paced'
    BY TypeNext, PacedNext DEF CadenceInv
  <1>2. healthy' => UnseenIsRecent' /\ MarkerIsRecent' /\ SuccessIsRecent'
    BY UnseenNext, RecentNext DEF CadenceInv
  <1>3. FailuresTakeTime' /\ FailuresAgeMarker' /\ TwoCyclesSuffice'
    BY FailuresNext, FailuresAgeMarkerNext, DeletionNext DEF CadenceInv
  <1> QED
    BY <1>1, <1>2, <1>3 DEF CadenceInv

(* The invariant that all the others follow from: starts of cycles keep    *)
(* within an interval of what came before, whether cycles succeed or fail. *)
THEOREM CadenceInvariance == Spec => []CadenceInv
  <1>1. Init => CadenceInv
    BY InvInit
  <1>2. CadenceInv /\ [Next]_vars => CadenceInv'
    BY InvNext
  <1> QED
    BY <1>1, <1>2, PTL DEF Spec

(* A run is listed after it finished and before Argo deletes it, provided  *)
(* that no cycle or listing fails and that the shortest TTL is longer than *)
(* two whole cycles and the interval: the sound form of the rule for       *)
(* choosing POLL_INTERVAL_SECONDS.                                         *)
THEOREM RunsAreSeen == Spec => []TwoCyclesSuffice
  <1>1. CadenceInv => TwoCyclesSuffice
    BY DEF CadenceInv
  <1> QED
    BY <1>1, CadenceInvariance, PTL

(* The sidecar of an exporter that never fails stays younger than two      *)
(* cycles, the interval and the second its stamp was rounded down by.      *)
THEOREM HeartbeatAge == Spec => []HealthyAgeIsBounded
  <1>1. CadenceInv => HealthyAgeIsBounded
    BY CadenceAssumption
    DEF CadenceInv, TypeOK, Paced, MarkerIsRecent, NextStartWithin, HealthyAgeIsBounded,
        MarkerAge, None
  <1> QED
    BY <1>1, CadenceInvariance, PTL

(* The health endpoint does not turn on an exporter that never fails, when *)
(* its cycles are shorter than the interval.                               *)
THEOREM NoFalseAlarm == Spec => []HealthyIsOk
  <1>1. CadenceInv => HealthyIsOk
    BY CadenceAssumption
    DEF CadenceInv, TypeOK, Paced, SuccessIsRecent, NextStartWithin, HealthyIsOk, Status, None
  <1> QED
    BY <1>1, CadenceInvariance, PTL

(* The health endpoint answers 200 through one failed cycle and no more,   *)
(* however long or short the cycles are.                                   *)
THEOREM FailuresAreReported == Spec => []OkMeansAtMostOneFailure
  <1>1. CadenceInv => OkMeansAtMostOneFailure
    BY CadenceAssumption
    DEF CadenceInv, TypeOK, FailuresTakeTime, OkMeansAtMostOneFailure, Status, None
  <1> QED
    BY <1>1, CadenceInvariance, PTL

(* A reader that checks freshness works with no generation for longer than *)
(* the threshold leaves room for failed cycles.                            *)
THEOREM FreshnessCountsFailures == Spec => []FreshMeansFewFailures
  <1>1. ASSUME CadenceInv, marker # None, Fresh, at # "done"
        PROVE  (failures - 1) * PollInterval < CycleMax
    <2>1. failures \in Nat /\ marker \in Nat /\ now \in Nat /\ CycleMax \in Nat
          /\ PollInterval \in Nat
      BY <1>1, CadenceAssumption DEF CadenceInv, TypeOK
    <2>2. now >= marker + failures * PollInterval
      BY <1>1, CadenceAssumption, OneIntervalMore DEF CadenceInv, TypeOK, Paced, FailuresAgeMarker
    <2>3. now - marker < CycleMax + PollInterval
      BY <1>1 DEF Fresh, MarkerAge, FreshnessThreshold
    <2>4. ASSUME NEW k \in Nat, now >= marker + k PROVE k - PollInterval < CycleMax
      BY <2>1, <2>3, <2>4
    <2>5. failures * PollInterval - PollInterval < CycleMax
      BY <2>1, <2>2, <2>4, OneIntervalMore
    <2> QED
      BY <2>1, <2>5, OneIntervalMore
  <1>2. CadenceInv => FreshMeansFewFailures
    BY <1>1 DEF FreshMeansFewFailures
  <1> QED
    BY <1>2, CadenceInvariance, PTL

=============================================================================
