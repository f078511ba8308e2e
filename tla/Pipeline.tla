------------------------------ MODULE Pipeline ------------------------------
(***************************************************************************)
(* What is said of a run, on its way from the Workflow object to the       *)
(* consumer's numbers: configuration, collection, ledger, sidecar, and the *)
(* helpers that read a publication.  The order of the writes and what may  *)
(* fail between them is the subject of Publication and Exporter; here a    *)
(* cycle is one step, and its contents are complete.  ledger is what       *)
(* parquet_bytes_to_table makes of runs.parquet.                           *)
(***************************************************************************)
EXTENDS Settings, MetaSchema, Metrics

CONSTANTS
    Environments,  \* what the process may be started with
    ClusterNames,  \* clusters there are
    Objects,       \* the workflow objects there may be: <<cluster, uid>>
    Metadata,      \* labels and template reference an object may have
    NodeMaps,      \* node maps an object may come to have
    Messages,      \* values of status.message
    Finishes,      \* values of status.finishedAt, in ticks
    Counters,      \* values of status.resourcesDuration
    EarlierRows,   \* what an earlier release recorded at instant 0
    ForeignMarkers,\* sidecars something else may have written
    Times,         \* what the wall clock may say when a cycle starts
    Day,           \* seconds to the day
    Earliest,      \* the first instant a datetime can name
    MaxCycles      \* bound on the cycles that publish

VARIABLES
    stage,         \* start, running, exited; foreign: not our sidecar
    config,        \* what load returned
    world,         \* the Workflow objects there are
    submitted,     \* those there are and those there were
    snapshot,      \* the rows of workflows.parquet
    ledger,        \* the rows of runs.parquet
    marker,        \* meta.json
    outcome,       \* of the latest cycle
    history        \* ghost: what each published cycle listed, and when

stored == <<snapshot, ledger, marker, history>>

vars == <<stage, config, world, submitted, outcome, stored>>

Retention == Day * config.retention

INSTANCE Ledger WITH RetentionPeriod <- Retention, NoUid <- None

ASSUME PipelineAssumption ==
    /\ Times \subseteq Nat /\ Earliest \in Int
    /\ Day \in Nat \ {0} /\ MaxCycles \in Nat

ASSUME ObjectsAssumption ==
    \A k \in Objects : k = <<k[1], k[2]>> /\ k[1] \in ClusterNames /\ k[2] # None

(* The keys of a node map are distinct, and no text is without its         *)
(* normalized form.                                                        *)
ASSUME NodesAssumption ==
    \A nodes \in NodeMaps :
       /\ IsFiniteSet(nodes)
       /\ \A a, b \in nodes \ {Odd} : a.key \in Int /\ (a.key = b.key => a = b)
       /\ \A node \in nodes \ {Odd} :
             Legible(node.message) => node.message \in DOMAIN Normalized

ASSUME MessagesAssumption ==
    \A message \in Messages : Legible(message) => message \in DOMAIN Normalized

(* What the environments lead to that are accepted.                        *)
Configurations == {Loaded(e) : e \in {e \in Environments : Accepted(e)}}

Entries(c) == [name : Range(c.names), ok : BOOLEAN, workflows : Nat]

Sidecars(c) ==
    [version : {c.version}, generated_at : Stamps, generation_id : Ids,
     poll_interval_seconds : {c.interval}, run_retention_days : {c.retention},
     clusters : Seq(Entries(c)), workflows : Nat, runs : Nat]

(* A list is a list, and Odd is neither a list nor an object.              *)
ASSUME EnvironmentsAssumption ==
    /\ \A e \in Environments :
          e.clusters # Odd => e.clusters \in Seq(Range(e.clusters))
    /\ \A c \in Configurations :
          /\ Odd \notin Entries(c)
          /\ Odd \notin Seq(Entries(c))
          /\ Odd \notin Sidecars(c)

Columns ==
    {"template", "trigger", "phase", "message", "started", "finished", "duration",
     "resources", "step", "class", "fingerprint"}

(* conform: a column that a file of an earlier release lacks is null, and  *)
(* one that is no longer declared goes.                                    *)
Conform(columns) == [column \in Columns |-> Get(columns, column)]

EarlierSightings == {[row EXCEPT !.columns = Conform(@)] : row \in EarlierRows}

(* Columns that are null together, wherever a row has come to.             *)
ColumnsAgree(columns) ==
    /\ columns.template[1] = None <=> columns.template[2] = None
    /\ columns.trigger[1] = None <=> columns.trigger[2] = None
    /\ columns.class = None <=> columns.fingerprint = None
    /\ IF columns.started \in Int /\ columns.finished \in Int
         THEN columns.duration \in Int ELSE columns.duration = None

(* The ledger of an earlier release is a ledger.                           *)
ASSUME EarlierAssumption ==
    /\ IsFiniteSet(EarlierRows)
    /\ \A row \in EarlierRows :
          /\ row = [cluster |-> row.cluster, uid |-> row.uid, columns |-> row.columns]
          /\ row.uid # None
          /\ ColumnsAgree(Conform(row.columns))
    /\ \A r, s \in EarlierRows : Identity(r) = Identity(s) => r = s

EarlierListing == [at |-> 0, answered |-> {}, rows |-> EarlierSightings]

EarlierLedger ==
    {[cluster |-> row.cluster, uid |-> row.uid, columns |-> row.columns,
      first |-> 0, last |-> 0] : row \in EarlierSightings}

Init ==
    /\ stage \in {"start", "foreign"}
    /\ config = None
    /\ world = <<>>
    /\ submitted = {}
    /\ snapshot = {}
    /\ ledger = IF stage = "foreign" THEN {} ELSE EarlierLedger
    /\ IF stage = "foreign" THEN marker \in ForeignMarkers ELSE marker = None
    /\ outcome = "none"
    /\ history = <<EarlierListing>>

-----------------------------------------------------------------------------
(* The process starts: main exits on a ConfigError.                        *)

Load ==
    /\ stage = "start"
    /\ \E environment \in Environments :
          IF Accepted(environment)
            THEN stage' = "running" /\ config' = Loaded(environment)
            ELSE stage' = "exited" /\ UNCHANGED config
    /\ UNCHANGED <<world, submitted, outcome, stored>>

-----------------------------------------------------------------------------
(* The life of a workflow object, in Argo's hands.                         *)

Becomes(k, object) ==
    /\ world' = [j \in DOMAIN world \cup {k} |-> IF j = k THEN object ELSE world[j]]
    /\ UNCHANGED <<stage, config, outcome, stored>>

Submit(k) ==
    /\ stage = "running" /\ k[1] \in Range(config.names) /\ k \notin submitted
    /\ submitted' = submitted \cup {k}
    /\ \E metadata \in Metadata :
          Becomes(k, [labels |-> metadata.labels, ref |-> metadata.ref,
                      phase |-> Empty, message |-> None, started |-> None,
                      finished |-> None, resources |-> None,
                      storage |-> "plain", nodes |-> {}])

Phase(k, phase) == k \in DOMAIN world /\ world[k].phase = phase /\ UNCHANGED submitted

Admit(k) ==
    /\ Phase(k, Empty)
    /\ Becomes(k, [world[k] EXCEPT !.phase = "Running", !.started = 0])

(* The resources that the pods have used are added up.                     *)
Account(k) ==
    /\ Phase(k, "Running") /\ world[k].resources = None
    /\ \E resources \in Counters : Becomes(k, [world[k] EXCEPT !.resources = resources])

(* Steps fail; with a retryStrategy the workflow runs on.                  *)
StepsFail(k) ==
    /\ Phase(k, "Running") /\ world[k].nodes = {}
    /\ \E nodes \in NodeMaps : Becomes(k, [world[k] EXCEPT !.nodes = nodes])

Finish(k) ==
    /\ Phase(k, "Running")
    /\ \E phase \in Terminal, message \in Messages, finished \in Finishes :
          Becomes(k, [world[k] EXCEPT !.phase = phase, !.message = message,
                                      !.finished = finished])

(* A node map too large for the object is compressed, or kept elsewhere.   *)
Shrink(k) ==
    /\ k \in DOMAIN world /\ world[k].nodes # {} /\ world[k].storage = "plain"
    /\ \E storage \in {"compressed", "lost"} :
          Becomes(k, [world[k] EXCEPT !.storage = storage])
    /\ UNCHANGED submitted

(* Argo's ttlStrategy, or an operator.                                     *)
Delete(k) ==
    /\ k \in DOMAIN world
    /\ world' = [j \in DOMAIN world \ {k} |-> world[j]]
    /\ UNCHANGED <<stage, config, submitted, outcome, stored>>

WorldNext ==
    \E k \in Objects :
       \/ Submit(k) \/ Admit(k) \/ Account(k) \/ StepsFail(k)
       \/ Finish(k) \/ Shrink(k) \/ Delete(k)

-----------------------------------------------------------------------------
(* One cycle: up are the clusters whose listing is complete, at is what    *)
(* the wall clock says; nothing makes it run forward.                      *)

(* One malformed object costs its cluster all of them.                     *)
Answered(up) ==
    {c \in up : \A k \in DOMAIN world : k[1] = c => WellFormed(world[k])}

Rows(answered) ==
    {[cluster |-> k[1], uid |-> k[2], columns |-> ToColumns(world[k])] :
       k \in {j \in DOMAIN world : j[1] \in answered}}

(* merge derives the failure columns of a row once more.                   *)
Rederived(row) ==
    LET derived == FailureColumns(row.columns.step.message, row.columns.message)
    IN  [row EXCEPT !.columns.class = derived.class,
                    !.columns.fingerprint = derived.fingerprint]

Merged(rows, at) == Merge(ledger, {Rederived(row) : row \in rows}, at)

Exactly(at) == [at |-> at, written |-> "exact"]

Sidecar(answered, rows, merged, at) ==
    [version |-> config.version,
     generated_at |-> Exactly(at),
     generation_id |-> [stamp |-> Exactly(at), suffixed |-> TRUE],
     poll_interval_seconds |-> config.interval,
     run_retention_days |-> config.retention,
     clusters |-> [i \in DOMAIN config.names |->
                     [name |-> config.names[i],
                      ok |-> config.names[i] \in answered,
                      workflows |-> Cardinality({row \in rows : row.cluster = config.names[i]})]],
     workflows |-> Cardinality(rows),
     runs |-> Cardinality(merged)]

(* The cycle ends without an upload; the poll loop goes on.                *)
Fails(reason) == outcome' = reason /\ UNCHANGED <<stage, config, world, submitted, stored>>

(* The datetime of the cutoff does not exist.                              *)
CutoffFails(answered, at) == Cutoff(at) < Earliest /\ Fails("overflow")

EncodeFails(answered, at) ==
    /\ Cutoff(at) >= Earliest
    /\ \E row \in Rows(answered) : ~ Encodable(row.columns)
    /\ Fails("unencodable")

Publish(answered, at) ==
    LET rows == Rows(answered)
        merged == Merged(rows, at)
        sidecar == Sidecar(answered, rows, merged, at)
    IN  /\ Cutoff(at) >= Earliest
        /\ \A row \in rows : Encodable(row.columns)
        /\ IF Valid(sidecar)
             THEN /\ snapshot' = rows
                  /\ ledger' = merged
                  /\ marker' = sidecar
                  /\ history' = Append(history, [at |-> at, answered |-> answered, rows |-> rows])
                  /\ outcome' = "published"
                  /\ UNCHANGED <<stage, config, world, submitted>>
             ELSE Fails("invalid")

Cycle ==
    /\ stage = "running"
    /\ Len(history) <= MaxCycles
    /\ \E up \in SUBSET (ClusterNames \cap Range(config.names)), at \in Times :
          IF Answered(up) = {} THEN Fails("unanswered")
          ELSE \/ CutoffFails(Answered(up), at)
               \/ EncodeFails(Answered(up), at)
               \/ Publish(Answered(up), at)

Next == Load \/ WorldNext \/ Cycle

Spec == Init /\ [][Next]_vars

-----------------------------------------------------------------------------

Outcomes == {"none", "unanswered", "overflow", "unencodable", "invalid", "published"}

Workflows ==
    [labels : {metadata.labels : metadata \in Metadata},
     ref : {metadata.ref : metadata \in Metadata},
     phase : {Empty, "Running"} \cup Terminal,
     message : Messages \cup {None},
     started : {None, 0}, finished : Finishes \cup {None},
     resources : Counters \cup {None},
     storage : {"plain", "compressed", "lost"},
     nodes : NodeMaps \cup {{}}]

(* What every row has, in whatever listing or ledger.                      *)
Sound(row) ==
    /\ row.uid # None
    /\ DOMAIN row.columns = Columns /\ ColumnsAgree(row.columns)

IsSighting(row) ==
    /\ row = [cluster |-> row.cluster, uid |-> row.uid, columns |-> row.columns]
    /\ Sound(row)

IsListing(listing) ==
    /\ listing = [at |-> listing.at, answered |-> listing.answered, rows |-> listing.rows]
    /\ listing.at \in Nat
    /\ IsFiniteSet(listing.rows)
    /\ \A row \in listing.rows : IsSighting(row)
    /\ \A r, s \in listing.rows : Identity(r) = Identity(s) => r = s

TypeOK ==
    /\ stage \in {"start", "running", "exited", "foreign"}
    /\ config \in IF stage = "running" THEN Configurations ELSE {None}
    /\ submitted \subseteq Objects /\ DOMAIN world \subseteq submitted
    /\ IsFiniteSet(DOMAIN world) /\ world \in [DOMAIN world -> Workflows]
    /\ outcome \in Outcomes
    /\ history \in Seq(Range(history)) /\ Len(history) \in 1..(MaxCycles + 1)
    /\ \A i \in DOMAIN history : IsListing(history[i])
    /\ IsFiniteSet(ledger)
    /\ \A row \in ledger : Sound(row) /\ row.last \in Int

(* The ledger by its definition: what the listings h, since the one that   *)
(* is older than any published one, say of the run k when rows are kept    *)
(* for period, whatever way the clock went between the listings.           *)
(* Sighted: the i-th listed it; Latest: the last of the first n that did.  *)
Sighted(h, k, i) == \E row \in h[i].rows : Identity(row) = k

Latest(h, k, n) == Max({i \in 1..n : Sighted(h, k, i)})

(* The row was never trimmed from i to j: each of those cycles found the   *)
(* sighting before it in the period.                                       *)
Unbroken(h, period, k, i, j) ==
    \A n \in i..j : h[Latest(h, k, n)].at >= h[n].at - period

Recalled(h, period, k) ==
    LET last == Latest(h, k, Len(h))
        first == Min({i \in 1..last : Sighted(h, k, i) /\ Unbroken(h, period, k, i, last)})
        row == CHOOSE r \in h[last].rows : Identity(r) = k
    IN  [cluster |-> k[1], uid |-> k[2], columns |-> row.columns,
         first |-> h[first].at, last |-> h[last].at]

Known(h) == UNION {{Identity(row) : row \in h[i].rows} : i \in DOMAIN h}

Kept(h, period, k) == Unbroken(h, period, k, Latest(h, k, Len(h)), Len(h))

Recollection(h, period) ==
    {Recalled(h, period, k) : k \in {r \in Known(h) : Kept(h, period, r)}}

(* The ledger is the memory of the published listings: of each run that    *)
(* one of them had, the latest account, dated by the cycle that gave it    *)
(* and by the first cycle of the unbroken row of sightings that leads      *)
(* there, and gone only when a later cycle started more than the retention *)
(* period after it.  Deletions, outages and a clock that steps back leave  *)
(* no other trace.                                                         *)
LedgerIsHistory ==
    stage = "running" => ledger = Recollection(history, Retention)

(* Before the first cycle the prefix is as it was found, and after it it   *)
(* is what the latest published cycle put there.                           *)
PrefixIsLatest ==
    LET latest == history[Len(history)]
    IN  IF stage # "running"
          THEN /\ world = <<>> /\ history = <<EarlierListing>>
               /\ stage # "foreign" => marker = None
               /\ ledger = IF stage = "foreign" THEN {} ELSE EarlierLedger
        ELSE IF Len(history) = 1 THEN marker = None
        ELSE /\ latest.answered \subseteq Range(config.names)
             /\ \A row \in latest.rows : row.cluster \in latest.answered
             /\ snapshot = latest.rows
             /\ marker = Sidecar(latest.answered, snapshot, ledger, latest.at)

(* historical_metrics of whatever ledger is on the prefix adds up: see     *)
(* MeasuresAdd.  Rows of an earlier release without the failure columns,   *)
(* runs whose finish has a fraction or is missing, and runs that succeeded *)
(* after a step had failed are the ones that could fall out or be counted  *)
(* where they do not belong.                                               *)
MeasuresAgree == MeasuresAdd(ledger)

(* A consumer shows a cluster as empty only when it was: what the sidecar  *)
(* counts for a cluster is what the inventory has of it, and a cluster is  *)
(* available exactly when the published cycle had its complete listing.    *)
InventoryIsAccounted ==
    stage = "running" /\ marker # None =>
       /\ Available(marker) = history[Len(history)].answered
       /\ \A i \in DOMAIN marker.clusters :
             Cardinality({row \in Inventory(marker, snapshot) :
                            row.cluster = marker.clusters[i].name})
               = marker.clusters[i].workflows
       /\ marker.runs = Cardinality(ledger)

(* Whoever wrote a sidecar that validate lets through, the consumer's      *)
(* helpers can work with it: the availability map is defined, and so is    *)
(* the freshness, unless the interval is too long for a float, which       *)
(* nothing refuses; its timestamp has the shape that _now gives it, be it  *)
(* in other digits, although the timestamp's own rule would take a laxer   *)
(* one; and what it counts, some available cluster has.                    *)
AcceptedMarkerIsUsable ==
    marker # None /\ Valid(marker) =>
       /\ AvailabilityKnown(marker)
       /\ marker.poll_interval_seconds <= FloatMax => FreshnessKnown(marker)
       /\ marker.generated_at.written # "lenient"
       /\ marker.workflows > 0 => Available(marker) # {}

(* An environment that load accepts never makes the exporter refuse its    *)
(* own sidecar, in whatever state the clusters are: it would refuse every  *)
(* sidecar from then on and publish nothing again.                         *)
SidecarIsNeverRefused == outcome # "invalid"

(* The part of the inductive invariant that is no property of its own.     *)
PipelineInv == TypeOK /\ PrefixIsLatest

(* What the docstring of fetch_workflows says: malformed data is isolated  *)
(* to its cluster, other clusters can still produce a snapshot.  It does   *)
(* not hold of a compressed node map, whose nodes nothing looks at before  *)
(* the rows of every cluster are encoded together, nor of a counter that   *)
(* 64 bits cannot hold.                                                    *)
MalformedDataIsIsolated == outcome # "unencodable"

=============================================================================
