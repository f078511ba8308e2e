------------------------------- MODULE Metrics -------------------------------
(***************************************************************************)
(* What the helpers of src/consumer.py make of a selected publication: the *)
(* availability of the clusters, the current inventory and the historical  *)
(* measures.  A ledger is a set of rows [cluster, uid, columns, first,     *)
(* last] with columns as in Extraction; a column that a file of an earlier *)
(* release lacks is None.  last and first are in seconds, finished in      *)
(* ticks.                                                                  *)
(***************************************************************************)
EXTENDS Extraction, MetaSchema, Functions

CONSTANTS
    Buckets,       \* lengths of the periods of a trend, in seconds
    FloatMax       \* the longest interval that, with C_max added, is a float

ASSUME MetricsAssumption == Buckets \subseteq Nat \ {0} /\ FloatMax \in Nat

(* cluster_availability raises on anything else.                           *)
AvailabilityKnown(meta) ==
    /\ meta # Odd /\ "clusters" \in DOMAIN meta /\ meta.clusters # Odd
    /\ \A i \in DOMAIN meta.clusters :
          /\ meta.clusters[i] # Odd
          /\ NonEmpty(Get(meta.clusters[i], "name"))
          /\ Get(meta.clusters[i], "ok") \in BOOLEAN
    /\ \A i, j \in DOMAIN meta.clusters :
          meta.clusters[i].name = meta.clusters[j].name => i = j

(* Mistake: what is listed is taken for available.                         *)
Available_AnyListed(meta) == {meta.clusters[i].name : i \in DOMAIN meta.clusters}

Available(meta) ==
    {meta.clusters[i].name : i \in {j \in DOMAIN meta.clusters : meta.clusters[j].ok}}

(* current_snapshot_rows.                                                  *)
Inventory(meta, rows) ==
    IF meta = Odd \/ "clusters" \notin DOMAIN meta THEN rows
    ELSE {row \in rows : row.cluster \in Available(meta)}

(* freshness_age_seconds and freshness_threshold_seconds raise otherwise;  *)
(* what they raise of too long an interval, no caller catches.             *)
FreshnessKnown(meta) ==
    /\ RealTime(Get(meta, "generated_at"))
    /\ Get(meta, "poll_interval_seconds") \in 1..FloatMax

-----------------------------------------------------------------------------

FailurePhases == {"Failed", "Error"}

Terminal == FailurePhases \cup {"Succeeded"}

InPhase(rows, phases) == {row \in rows : row.columns.phase \in phases}

(* historical_rates, before the divisions; failed has the errors among     *)
(* them.                                                                   *)
Rates(rows) ==
    LET count(phases) == Cardinality(InPhase(rows, phases))
    IN  [total |-> Cardinality(rows),
         completed |-> count(Terminal),
         succeeded |-> count({"Succeeded"}),
         failed |-> count(FailurePhases),
         error |-> count({"Error"})]

(* Mistake: a run without a whole finish has no place in a trend.          *)
EventTime_FinishOnly(row) ==
    IF row.columns.finished \in Int /\ row.columns.finished % Second = 0
      THEN row.columns.finished \div Second ELSE None

(* _timestamp: the first of three texts that says a whole second; a finish *)
(* with a fraction does not.                                               *)
EventTime(row) ==
    IF row.columns.finished \in Int /\ row.columns.finished % Second = 0
      THEN row.columns.finished \div Second
    ELSE IF row.last \in Int THEN row.last
    ELSE row.first

(* historical_trends: one entry per period; here failed is without the     *)
(* errors.                                                                 *)
Trends(rows, bucket) ==
    LET dated == {row \in rows : EventTime(row) \in Int}
        within(period) == {row \in dated : EventTime(row) \div bucket = period}
        count(period, phases) == Cardinality(InPhase(within(period), phases))
    IN  [period \in {EventTime(row) \div bucket : row \in dated} |->
           [total |-> Cardinality(within(period)),
            completed |-> count(period, Terminal),
            succeeded |-> count(period, {"Succeeded"}),
            failed |-> count(period, {"Failed"}),
            error |-> count(period, {"Error"})]]

(* historical_duration_history, as a set.                                  *)
DurationHistory(rows) == {row \in rows : row.columns.duration \in Int}

(* historical_failure_counts by class or by fingerprint.                   *)
FailureCounts(rows, field) ==
    LET failures == InPhase(rows, FailurePhases)
        label(row) == IF NonEmpty(row.columns[field]) THEN row.columns[field] ELSE "unknown"
    IN  [v \in {label(row) : row \in failures} |->
           Cardinality({row \in failures : label(row) = v})]

(* What historical_metrics says of one ledger adds up: every retained run  *)
(* has its place in a trend, whatever its finish looks like, in the phase  *)
(* the rates count it in, every failed run has its place among the         *)
(* failures, known or unknown, and no other run has, and the durations are *)
(* those of the runs that have both ends on record.                        *)
MeasuresAdd(rows) ==
    LET rates == Rates(rows)
        overall(trend, measure) ==
            SumFunction([period \in DOMAIN trend |-> trend[period][measure]])
        failures(field) == SumFunction(FailureCounts(rows, field))
    IN  /\ \A bucket \in Buckets :
              LET trend == Trends(rows, bucket)
              IN  /\ overall(trend, "total") = rates.total
                  /\ overall(trend, "completed") = rates.completed
                  /\ overall(trend, "succeeded") = rates.succeeded
                  /\ overall(trend, "failed") + overall(trend, "error") = rates.failed
        /\ rates.completed = rates.succeeded + rates.failed
        /\ failures("class") = rates.failed
        /\ failures("fingerprint") = rates.failed
        /\ DurationHistory(rows) =
              {row \in rows : row.columns.started \in Int /\ row.columns.finished \in Int}

=============================================================================
