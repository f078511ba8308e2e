# A TLA+ model of argo-workflows-exporter

The exporter polls Argo Workflow objects from several Kubernetes clusters and
publishes three objects to an S3 prefix: `workflows.parquet` (what exists now),
`runs.parquet` (a ledger of what existed within the retention period) and
`meta.json` (the sidecar, and the commit marker of the set). Independent
readers download the three and use them together. This directory models that
program, checks it with TLC on small instances and proves what matters most
with TLAPS.

`S` below stands for `src/src`, the exporter's package.

## 1. Inventory

| Component | Code | State | Operations | Interacts with |
|---|---|---|---|---|
| Poll loop and cycle | `S/main.py` 208-370 | locals of `_run_cycle`: phase, generation id, `generated_at`, cluster stats, uploads that returned | read, compute, publish; give up in each; wait | clusters (HTTP), prefix (S3), health state |
| Storage access | `S/s3io.py`, `S/parquet_io.py` | the three objects | `download_bytes`, `upload_bytes`, footer id, decode and conform | poll loop, readers |
| Consumer selection | `S/consumer.py` 144-423 | `last_complete`, held by the caller | `read_generation_result`, `select_generation_result` | prefix |
| Freshness, metrics | `S/consumer.py` 92-141, 472-712 | none | age, threshold, metric folds | selected publication |
| Run ledger | `S/ledger.py` | the rows of `runs.parquet` | `merge` | poll loop |
| Cluster collection | `S/workflows.py` 362-428, `S/k8s_api.py` | pages so far, continue tokens seen | one listing per cluster, in order | clusters |
| Field extraction | `S/workflows.py` 50-359 | none | validation of one object, its conversion to a row | collection |
| Failure taxonomy | `S/failure_taxonomy.py` | none | classification of a text | extraction, ledger |
| Sidecar schema | `S/meta_schema.py` | none | `validate` | poll loop, readers |
| Health and lifecycle | `S/main.py` 66-193, 373-417 | last success, readiness event, stop event, HTTP thread | `reset`, `record_success`, `snapshot`, serve, stop | poll loop, kubelet |
| Configuration | `S/config.py` | none | parse and validate the environment | all |

Hard behaviours: S3 has no write over two keys, so a failed, interrupted or
half-answered publish phase leaves objects of two generations; a read is three
requests that a cycle may interleave with; the ledger is read, folded and
written back without a lock or a precondition; the clusters are listed one after
the other while they change, and any of them may fail. The S3 client repeats a
request by itself (`S/s3io.py:38`), but a publication is retried only as the next
cycle. `PROJECT.json` lists every hazard at the line where it bites,
with the properties that cover it, or why none does yet.

What makes each component correct:

* **Publication** - a reader gets a whole generation or keeps what it had; a torn
  set is detectable and the next cycle repairs it; the heartbeat vouches only
  for what was published.
* **Ledger** - one row per run; no row goes before its time; first sightings do
  not change; an outage is not an observation.
* **Collection** - a run that is missing from the snapshot of an available
  cluster really is not there; sightings are not dated after a deletion; one
  listing, although it is paged, is what the cluster held at one instant, and a
  cluster that is not reported ok contributes nothing.
* **Contents** - the ledger is the memory of the published listings and of nothing
  else; what the sidecar counts is what a consumer shows; the consumer's measures
  add up, whatever release wrote the rows; the exporter never refuses its
  own sidecar, and one that passes the schema is usable, whoever wrote it; what is
  malformed costs its own cluster only.
* **Timing** - how long a finished run has to survive to be seen, how old the
  sidecar of an exporter in order may get, how many failed cycles a
  fresh sidecar or a healthy endpoint can hide.
* **Lifecycle** - what the endpoint answers was true while it was asked; a stop
  request lets at most one more cycle begin and does end the process.

## 2. Modules

| Module | Models |
|---|---|
| `ObjectStore` | The prefix. `store[o]` is the generation id that object `o` carries (`NoId`: readable without one, as of an earlier release; `Corrupt`: cannot be decoded; `Absent`). `late` holds PUTs whose client gave up and that are still on their way. The ghosts `committed` and `current` record which generations all three objects carried at once. |
| `Publisher` | `_run_cycle` and `_run_poll_loop` over the prefix, one action per step: begin, the ends of the read and compute phases, each upload, success, and every failure exit. `report` is what `_annotate_cycle_failure` attaches, `heartbeat` the last `record_success`. `Crash` is a kill, or an exit on SIGTERM when it comes in the wait; `Unanswered` says what becomes of a PUT whose answer never came. |
| `Consumer` | Callers of `read_generation_result` that pass their last result back in, one download per step. |
| `AtomicGenerations` | Abstract specification: a generation appears in one step and is adopted in one step, and only while it is current. |
| `Publication` | Publisher and Consumer composed; the properties, fairness, the inductive invariant, and the refinement mapping to `AtomicGenerations`. |
| `Ledger` | `merge` as an operator on sets of rows. |
| `Exporter` | Publisher once more, with contents: each action is the action of `Publisher` beside what it reads and writes - listings, `base` (the downloaded ledger), the payload of each generation - while `Submit`, `Complete`, `Delete` and `Tick` change the clusters and the clock. |
| `Listing` | The listing of one cluster: pages chained by continue tokens, conversion of the objects, every way in which it fails, and a cluster that changes meanwhile. It justifies the one-step listings of `Exporter`. |
| `Cadence` | The poll loop against a clock: a cycle of at most `CycleMax` ticks, the wait measured from its end, `generated_at` at its start. Over it the TTL of finished runs, `freshness_*` of the consumer, and `_HealthState.snapshot`. |
| `Health` | The threads of the process: `main` and the poll loop, the signal handler, the health server's thread and its requests, over `_HealthState`, the readiness event and the stop event. |
| `JsonValues` | What a field of JSON may be - absent or null, an empty or blank string, a value of another type than expected - and the tests the code applies to it. |
| `Settings` | `config.load`: which environments are accepted, and what becomes of them. |
| `MetaSchema` | `meta_schema.validate`: the shape of every field of a sidecar, and the rules between fields. |
| `Extraction` | `_validate_workflow`, `to_row` and what they call: node maps in their three forms (plain, compressed, kept elsewhere), template, trigger, duration, failed step, failure class; and which rows Parquet can encode. |
| `Metrics` | The consumer's measures: availability, inventory, rates, trends, durations, failure counts. |
| `Pipeline` | The five above and `Ledger` composed: an environment, the life of Workflow objects, cycles that collect, merge, validate and publish, a wall clock that may step back, and sidecars of somebody else. |
| `MCPublication`, `MCExporter`, `MCListing`, `MCPipeline` | Constants, symmetry, view and action constraints for TLC. |
| `Publisher_proofs`, `Publication_proofs`, `Exporter_proofs`, `Retention_proofs`, `Listing_proofs`, `Cadence_proofs`, `Health_proofs`, `Pipeline_proofs` | The theorems of section 4. |

How they fit together: `Publication` = `ObjectStore` + `Publisher` + `Consumer`;
`Exporter` = `ObjectStore` + `Publisher` + `Ledger` + clusters. The actions of
`Publisher` are the same in both, and its invariants (`PublisherInv`, and
`OneWriterInv` for a single writer) are proved once and used in both proofs.
`Pipeline` = `Settings` + `Extraction` + `Ledger` + `MetaSchema` + `Metrics`: there a
cycle is one step, because `Exporter` and `Publication` already say what may come
between its parts, and a row has its columns, which stand for one value there. `Cadence`, `Health` and `Listing` each look at
one aspect of the same loop and stand for themselves.

Operators whose name is that of a definition followed by `_` and a phrase
(`Put_MarkerFirst`) are not part of any specification: each is a plausible
mistake in that definition, and some property fails when it takes the
definition's place. `PROJECT.json` pairs them.

Abstractions worth knowing:

* A sidecar that fails `meta_schema.validate` is `NoId` and one that passes is
  its id. A generation id is a number, fresh for every cycle because the code
  appends a random suffix. In `Exporter` a row keeps of an observation the phase,
  which stands for every column that is taken from the latest one; in `Pipeline`
  it has the columns that are computed.
* An upload or a download with all the attempts that the S3 client makes at it is
  one request. A PUT whose client gave up may land late (`Unanswered`); an attempt
  that timed out and lands after another attempt at the same upload was
  answered is left out, by `Publication` and `Exporter` alike. The code has no defence
  against it: it would put an object back behind the ones uploaded after it.
* In `Publication` the age of a marker in front of a reader is left open, so a
  valid marker may always turn out stale, and the wait has no length; both are
  computed in `Cadence`.
* In `Cadence` no cycle takes longer than `CycleMax`. That is what `C_max` means to the
  documents; nothing in the code enforces it, since a timeout of `requests` is one
  on each wait for bytes and the pages of a listing are not counted.
* In `Cadence` a cycle fails before `meta.json` has been overwritten, or
  succeeds: the PUT of the sidecar whose answer is lost is the subject of
  `Publication`, not of this module. The reader is told the true `C_max`.
* In `Listing` a continue token is what it stands for to the API server, the
  objects still to come; `Fresh` is a token that was never handed out before. An
  honest server pages the way Kubernetes documents, from one resource version; a
  dishonest one answers anything. `list_items` refuses a token that comes again and
  has no limit on pages, so a server that always has a fresh one is asked for ever,
  which `ListingEnds` says.
* In `Health` a cycle is its outcome; `threading.Event` and the lock are atomic;
  `record_success` does not stay so long between reading the clock and storing
  the value that the success would be stale when stored (guard of `Tick`).
* Only in `Pipeline` does the wall clock step back; elsewhere clocks go forward,
  which a monotonic clock does (`Health`, the waits of `Cadence`) and a wall clock
  does as long as nobody sets it.
* In `Extraction` a timestamp is a number of ticks, several to the second, or
  unusable; a message is a model value, which rules match and normalize as the constants
  `Rules` and `Normalized` say; texts are such that UTF-8 can write them (JSON
  can escape half a surrogate pair, which Parquet cannot encode). `Odd` stands for any
  value of another type than the code expects, and `Falsy` for one that Python also takes for
  false. Of the resource counters there is the greatest one, since what matters of
  them is whether they fit 64 bits. What else is copied as it is (progress,
  names) is left out. `NodeMap` has of a compressed map what Argo compressed: a map
  is decoded to what was encoded, or lost. How Base64 and gzip do it is not modelled.
* In `MetaSchema` a timestamp says which instant it names and how it is
  written: as `_now` writes it, in decimal digits of another script (`\d` and
  `strptime` take those as well), in a way that only `strptime` reads, or as a date
  that no calendar has.
* `FloatMax` in `Metrics` is the longest interval that is a float once `C_max` has been
  added. TLC has small numbers for it and for `Int64Max`; the theorems are for any.

## 3. What TLC checks

| Run | Instance | Shows |
|---|---|---|
| `pub_single` | 1 writer, 1 reader, 4 cycles, 2 failures, every initial prefix, freshness checked, a quiet last cycle | Along the upload order objects only get older (`DataNeverBehindMarker`); `meta.json` never lands beside other data (`MarkerCommits`); the heartbeat vouches only for generations that were whole (`HeartbeatIsCommitted`); the failure record is off by at most the upload that failed (`ReportIsOffByAtMostOne`); the inductive invariant behind these (`OneWriterInv`); readers never go back (`ReadersNeverGoBack`); an undecodable ledger freezes the prefix (`UndecodableLedgerIsKept`). Liveness: `TornIsRepaired`, `ReadersCatchUp`. |
| `pub_overlap` | 2 writers, 1 reader, 3 cycles, 2 failures, late PUTs | Against the one-writer contract readers are still safe: `SelectedIsSnapshot`, linearizable reads (`AtomicSpec`), and the inductive invariant `PublicationInv`. |
| `exporter` | 1 writer, clusters c1 and c2 with one uid in both, 2 cycles, 1 failure, clock 0..2, retention 1, empty prefix or one of an earlier release with a running, a finished and an unnamed run | `OneRowPerRun`, `LedgerNeverForgets`, `OutageIsNoSighting`, `NoPosthumousSighting`, `AbsenceIsEvidence`, `PublicationIsCoherent`. |
| `exporter_overlap` | 2 writers, late PUTs, 2 cycles, 1 failure, clock 0..1, legacy or damaged prefix, only c1 changes | The inductive invariant `ExporterInv`, from which every generation that readers can select is one coherent account, whoever else writes. |
| `listing` | 3 objects, one malformed, honest and dishonest server | `CompleteIsSnapshot`, `FailedIsNothing`, the inductive invariant `ListingInv`, and `ListingEnds` (liveness): the listing ends, or is handed fresh tokens for ever. |
| `cadence` | 2 clusters, interval 3, cycles up to 2, TTL 8, 2 ticks to the second, clock 0..13 | `TwoCyclesSuffice`, `HealthyAgeIsBounded`, `FreshMeansFewFailures`, `OkMeansAtMostOneFailure`, `HealthyIsOk`, the inductive invariant `CadenceInv`. |
| `health` | 1 request thread, stale after 2, clock 0..3, 2 cycles | `ReplyWasTrue`, `AtMostOneCycleAfterStop`, the inductive invariant `HealthInv`, and `StopIsHonoured` (liveness). |
| `pipeline` | 1 workflow object with its whole life, 2 clusters, 3 cycles, wall clock 0 or 2, retention 1, 11 environments, some 30 foreign sidecars, a row of an earlier release | `LedgerIsHistory` even when the clock steps back; `PipelineInv`, which with it and `SidecarIsNeverRefused` is the inductive invariant of the proofs; `MeasuresAgree`; `InventoryIsAccounted`; `SidecarIsNeverRefused`; `AcceptedMarkerIsUsable`. |
| `exporter_running` | as `exporter`, empty prefix | Finding 1: a run that is alive can leave the ledger. |
| `cadence_ttl` | as `cadence`, TTL 6 | Finding 2: the documented TTL bound is too small. |
| `cadence_fresh` | as `cadence` | Finding 3: the freshness threshold gives false alarms. |
| `pipeline_isolation` | as `pipeline`, 1 cycle, one resource counter, unusual values also together | Finding 4: one compressed node stops every cluster. |

**Bounds.** `MaxCycles`, `MaxFaults`, `MaxClock` and `MaxTime` bound the counters
in the guards.

* `pub_*`: three cycles are a whole set, a torn one after it and the repair; with
  two failures a torn set can be left beside an abandoned PUT, or two torn sets
  in a row. `pub_single` has a fourth for the quiet end.
* `exporter*`: two cycles suffice for the ledger, because a cycle looks at the past
  only through the object the previous one wrote, and the legacy rows, whose last
  sighting lies a whole retention period before the second tick, stand for longer
  histories. Retention 1 with the clock at 0, 1, 2 puts rows before, at and after
  the cutoff. The two clusters share their only uid, the worst case for identity.
  `WorldMovesWhenSeen` keeps the clusters and the clock still from the last listing
  of a cycle on, where nothing reads them: their steps commute with those of the
  cycle, and every property of the run compares them with what was read or with
  the next listing. `exporter` leaves the ghosts out of its view; no property of
  it reads them. `exporter_overlap` checks `ExporterInv`, which does, and has no view.
* `listing`: three objects make three pages, enough for a token to repeat
  after another one has come between. `Fresh` can come any number of times, so the
  endless listing is a cycle in the graph of states.
* `cadence`: TTL 8 is the least above `2 * CycleMax + PollInterval`, so
  `TwoCyclesSuffice` is checked at its edge; thirteen ticks hold a finished run,
  the two cycles around it and its deletion, and three failed cycles in a row.
  TTL 6 of `cadence_ttl` is the least that the document allows.
* `health`: a success can turn stale and be followed by another within three
  ticks; one request thread, since requests do not share anything but the readiness
  event, which no answer is taken from.

* `pipeline`: with three cycles a run can be seen, trimmed and seen again, or
  recorded between two cycles of which the later has the earlier clock. Instants 0 and 2 lie
  further apart than the retention period of 1. One object is enough for the
  columns, since no column of a row depends on another row; the second cluster, whose
  name is blank (`config.py` accepts that), holds only the memory of a run of an
  earlier release, so that the ledger has two rows and the sidecar two
  clusters. `MCNodeMaps`, `MCMetadata` and `MCForeignMarkers` have a member for every
  branch of the code they reach, and each of those branches gets into a published
  row or sidecar, or has the cluster or the sidecar refused. `MCCounters` are the greatest
  number that a column takes, one more, and a value that is no number. `RareComesAlone`
  keeps unusual metadata, counters and finishes to runs that are usual
  otherwise, and loses only one of the node maps: no column depends on two of them, no
  measure on both the failure and the finish, and lost maps do not differ. `WorldMovesWhenSeen` leaves the object alone after the last cycle, and the view forgets the outcome of a cycle but for the one
  value that a property reads.

Deadlock checking is off where the clock and the cycles run out, and in `Listing`,
`Health` and `Pipeline`, which end. In `Publication` it is on: a reader can always go on.

**Fairness.** `pub_single`: weak fairness of each writer's progress, since the
loop catches every exception and returns from its wait, and the orchestrator restarts a process that died; weak fairness of
each reader's progress; strong fairness of its two data downloads, since storage
errors, each of which abandons the call, may recur but do not hit every call for
ever; and strong fairness of accepting a marker, since readers poll more often than a
fresh marker turns stale. No failure is assumed to happen. `QuietEnd` leaves the last
cycle of the bounded run to itself, which is what "once failures cease" means.
`TornIsRepaired` excepts a ledger that cannot be decoded, because the code does not
repair one. `listing`: weak fairness of the listing's own steps; the cluster need not ever
change. `health`: weak fairness of the main thread and of the server's thread. In all three
it is an assumption that a request ends, and in `health` that a cycle does: every
request has a timeout, but one on each wait for bytes, which a server that keeps
sending a byte in time never runs into. No signal, request or raising server is assumed.

**Findings.**

1. `merge`'s docstring says that retention from `last_seen_at` keeps a long-running
   workflow on record as long as it is alive; it goes when its cluster cannot be
   listed for the retention period and another cluster keeps the cycles publishing.
   What does hold is `LedgerNeverForgets`.
2. `docs/notes/ttl-and-observation-windows.md:60-64` guarantees that every run is
   seen between its end and its deletion when `C_max + POLL_INTERVAL_SECONDS` is
   below the TTL. A cluster may be listed at the start of one cycle and at
   the end of the next, `2 * C_max + POLL_INTERVAL_SECONDS` apart, and a run can
   finish and go in between. `TwoCyclesSuffice` is the bound that holds.
3. The same document, 82-84, says that `C_max` in the freshness threshold
   covers a slow cycle. The sidecar on storage ages through its own cycle, the wait
   and the next cycle, so an exporter without any failure can be judged
   stale. `HealthyAgeIsBounded` is the age it can reach.
4. `fetch_workflows` promises that malformed data is isolated to its cluster. The
   nodes of a compressed node map are not validated; one whose message is no string
   gets into a row, and encoding the rows of all clusters fails on it, in every
   cycle for as long as the object exists. A resource counter that does not fit 64
   bits, which no check refuses either, has the same effect (`Encodable`).

Differences between code and documents that were met on the way and have no run of
their own, because what they are about is left out or is a matter of wording:

* `docs/notes/atomic-publication.md:160-164` says that `published_objects` and
  `skipped_objects` name the exact members of the set; an upload that took effect and
  whose answer was lost is recorded as skipped. `ReportIsOffByAtMostOne` holds.
* A run that succeeded after a retry has a failed step, a fingerprint and a class in
  its row; `docs/notes/output-schema.md:41` says `failed_step` is null when the run has
  not failed. The measures go by the phase (`MeasuresAgree`).
* Compressed node maps: `output-schema.md:41` has `failed_step` null when the nodes are
  compressed, 165-168 have the failing step unknown then, and
  `S/failure_taxonomy.py:131-133` says that compressed node trees have the workflow-level
  message only. `failed_step` decodes them, as `output-schema.md:150-161` says, and the
  failure columns follow the step's message (`NodeMap`, `FailedStep`).
* `docs/notes/configuration.md:103-105` has the upper bound of `RUN_RETENTION_DAYS`
  unlimited. With some 740,000 days or more the cutoff has no date and every cycle
  fails (`CutoffFails`, which the second environment of `pipeline` reaches); with
  somewhat fewer its year has three digits, which `strftime` does not pad, and
  comparing texts trims every row, where `Merge` compares instants and trims none.
* `POLL_INTERVAL_SECONDS` and `poll_interval_seconds` have no upper bound either. An
  interval that no float can hold passes `validate` and makes
  `freshness_threshold_seconds` raise `OverflowError`, which `read_generation_result`
  does not expect (`FreshnessKnown`); in the exporter `stop.wait` raises on a far shorter one,
  outside the `try` of the loop, and ends the process (not modelled).
* `validate` takes stamps in the digits of any script (`IdPattern`), which
  `output-schema.md` does not mention.
* `normalize_timestamp` keeps fractions of a second, which the output schema does
  not have; the trends fall back on the last sighting for them (`EventTime`).
* The readiness event can be cleared by a `snapshot` that looked at the clock before
  a `record_success`; no answer is taken from the event.
* `rates.failed` counts runs in the phase `Error`, and `trends.failed` does not.

## 4. What is proved

All theorems hold for any values of the constants that satisfy the named
assumptions: any sets of writers and readers, any clusters, uids and durations,
any bounds on cycles, failures and clocks.

| Theorem | States |
|---|---|
| `Publication_proofs`: `Invariance`, `TypeCorrect` | `Spec => []PublicationInv`, `Spec => []TypeOK` |
| `SelectionIsSound` | `Spec => []SelectedIsSnapshot` |
| `ReadsAreAtomic` | `Spec => AtomicSpec` (refinement) |
| `OneWriterInvariance` | for one writer, `Spec => []OneWriterInv` |
| `DataLeads`, `HeartbeatVouches`, `ReportIsNearlyExact` | for one writer, `[]DataNeverBehindMarker`, `[]HeartbeatIsCommitted`, `[]ReportIsOffByAtMostOne` |
| `MarkerIsCommit`, `NoReaderGoesBack` | for one writer, `MarkerCommits` and `ReadersNeverGoBack` (action properties) |
| `DamagedLedgerIsSafe` | `Spec => UndecodableLedgerIsKept`, for any number of writers |
| `Exporter_proofs`: `ContentInvariance`, `ContentTypeCorrect` | `Spec => []ExporterInv`, `Spec => []TypeOK` |
| `LedgerHasOneRowPerRun` | `Spec => []OneRowPerRun` |
| `SightingsAreInTime` | `Spec => []NoPosthumousSighting` |
| `AbsenceMeansGone` | `Spec => []AbsenceIsEvidence` |
| `PublicationsCohere` | `Spec => []PublicationIsCoherent` |
| `ContentsImplementPublisher` | `Spec => PublisherSpec`: Exporter implements the protocol of `Publisher` |
| `Retention_proofs`: `LedgersAreHistory` | for one writer, `Spec => []History` |
| `NoRunIsForgotten`, `OutagesChangeNothing` | for one writer, `LedgerNeverForgets` and `OutageIsNoSighting` (action properties) |
| `Cadence_proofs`: `CadenceInvariance` | `Spec => []CadenceInv` |
| `RunsAreSeen`, `HeartbeatAge`, `NoFalseAlarm`, `FailuresAreReported`, `FreshnessCountsFailures` | `[]TwoCyclesSuffice`, `[]HealthyAgeIsBounded`, `[]HealthyIsOk`, `[]OkMeansAtMostOneFailure`, `[]FreshMeansFewFailures` |
| `Listing_proofs`: `ListingInvariance`, `ListingIsAtomic`, `NoHalfAnswers` | `[]ListingInv`, `[]CompleteIsSnapshot`, `[]FailedIsNothing` |
| `Health_proofs`: `HealthInvariance`, `RepliesAreTrue`, `StopIsSoon` | `[]HealthInv`, `[]ReplyWasTrue`, `[]AtMostOneCycleAfterStop` |
| `Pipeline_proofs`: `Invariance`, `TypeCorrect` | `Spec => []IInv`, `Spec => []PipelineInv` |
| `TheLedgerIsItsHistory` | `Spec => []LedgerIsHistory` |
| `NoSidecarIsRefused`, `AnAcceptedMarkerIsUsable` | `[]SidecarIsNeverRefused`, `[]AcceptedMarkerIsUsable` |
| `TheMeasuresAgree`, `TheInventoryIsAccounted` | `[]MeasuresAgree`, `[]InventoryIsAccounted` |
| `MergeIsMemory` | `Merge` folds one more listing into the memory of the listings before it, whatever way the clock goes |
| `SidecarIsValid`, `AcceptedIsUsable` | what a cycle writes passes `validate`; what passes `validate` raises in no helper of a consumer, unless its interval is too long for a float |
| `MeasuresAddUp`, `SumOfParts`, `FirstFailedPod` | the operators of `Metrics` and `Extraction`, for any finite ledger and node map |

**Assumptions.** That `Absent`, `NoId` and `Corrupt` are distinct and no numbers,
there is a writer, and bounds are numbers (`ObjectStore`, `Publisher`,
`Consumer`). `ClustersAssumption`: cluster names are distinct, which `config.py`
enforces, and `NoUid` is no uid. `LegacyAssumption`: a ledger of an earlier release has one
row per run and no sighting in the future. `RetentionAssumption`: retention is
positive. `CadenceAssumption`: there is a cluster, the interval and the second have
a length. `HealthAssumption`: bounds and threshold are numbers. `ListingAssumption`: malformed
objects are objects, and `Fresh` is none of the tokens that stand for a set of them. The
theorems for one writer have the hypothesis `SoleWriter`: no two writers, and no PUT that
lands after its client gave up on it. They have no other. That no attempt at an
upload lands after another one was answered is part of all models of the prefix (section 2).

Those of `Pipeline` and the modules below it say of what kind the values of its
constants are, where the code does: a clock and the periods are numbers
(`PipelineAssumption`, `MetricsAssumption`); an object is named by a cluster and its
uid, which `_validate_workflow` insists on (`ObjectsAssumption`); node maps are
finite, their keys distinct as those of any JSON object, and every text has a
normalized form (`NodesAssumption`, `MessagesAssumption`), which is not empty, while
no rule calls its class `unknown` (`ExtractionAssumption`; both can be read in
`failure_taxonomy.py`); an earlier ledger has one row per run with columns that agree
(`EarlierAssumption`). `EnvironmentsAssumption` and `ValuesAssumption` keep the
model values `None`, `Odd`, `Falsy`, `Empty` and `Blank` apart from the values that they are
not. TLC evaluates all of them on its instances. Nothing is assumed of the
direction of the clock, or of what a foreign sidecar says.

**Publication.** `SelectedIsSnapshot` alone is not inductive: a reader that has
read the marker and the snapshot says nothing yet about the ledger it will
read. Call a generation *settled* when none of its PUTs can still take effect,
neither from a cycle under way nor from a late request. `meta.json` is the last
upload of a cycle, and a cycle that gave up has one PUT in flight at most, so a
marker on storage, whose PUT has taken effect, is settled
(`CommittedIsSettled`, on the strength of `OneCyclePerId`). Objects of a settled
generation can only disappear. A reader that accepted a marker therefore
looks at a settled generation, and if the other two downloads agree with it, then
all three objects carried it together at every instant since the marker was read
and until the last download was answered (`ReadersAreSound`). The
same fact gives the refinement: at that last download the generation is the
current one, and a generation once replaced never becomes whole again.
`Publisher_proofs` holds the writers' half of it, since `Exporter_proofs` needs it too.

**One writer.** `AccountIsTrue` is the step from the writer's locals to the prefix: no
id is younger than that of its latest cycle, and while the cycle lasts an object
carries that id exactly if its upload has returned. So the next upload, answered or
not, makes the objects up to it the youngest (`PutInOrder`), the third one makes
the set whole, and `record_success` comes after the third. What is current is the
youngest generation that was ever whole; a reader moves only to what is
current, hence never back. An undecodable ledger needs no such hypothesis:
nothing makes an object undecodable, so it was there before every writer, and
none has got past its read phase.

**Contents.** The properties speak of what is published; overlapping writers
and late PUTs can publish anything that was ever encoded. So `ExporterInv` says of every
ledger and payload, wherever one is held, that it is sound (`LedgerIsSound`,
`PayloadIsSound`), and of every cycle under way that what it has collected is
(`CycleIsSound`). Soundness survives any change of the clusters: a run that is
deleted later is deleted after every sighting of it, and one that changes is no
longer unchanged since `generated_at`. `Encode` produces a sound payload from a sound
cycle and a sound base by the lemmas about `Merge` (one row per identity, each
row from the base or observed, every observed run kept and dated
`started`). `ReferencedIsKnown`, with `OneCyclePerId`, ensures that what a marker names
has been encoded and is not encoded again.

**Retention.** With one writer the ledger that a cycle has downloaded is still the one
on the prefix when its payload is encoded and until its own ledger lands, because
nothing else writes (`HistoryOf`, on the strength of `AccountIsTrue`). A
new ledger is therefore always `Merge` of the one it replaces, whatever cycles failed
or died in between, and `MergeKeepsOld` says what becomes of a row. That a success
stays one needs the clusters, too: a run that a ledger calls succeeded has
succeeded, so no later listing says otherwise (`IsUpToDate`).

**Cadence.** `CadenceInv` keeps account of the latest instant at which the next cycle can
start, seen from the wait (`due`) and from inside a cycle (`since`): within
`CycleMax + PollInterval` of a finished run not yet seen, or of the stamp on the
sidecar, and at least a wait after each failed cycle, the last as a product of the
number of failures and the interval (`FailuresAgeMarker`).

**Listing.** What has come and what the token stands for make up the cluster at the
first page.

**Health.** A request under way has witnessed the verdict that it will give: either it
has still to read the clock, or the success it has read was stored while it was
served (`VerdictWasTrue`). A success is stored in time (`StoredInTime`), and after a
signal the loop is past its check at most once (`OneLateCycle`).

**Pipeline.** `LedgerIsHistory` says that the ledger is `Recollection(history,
Retention)`: per run, the latest listing that has it, and the earliest from which no cycle
in between trimmed its row. That is a definition over the whole history, and the
code sees nothing but the ledger before. `MergeIsMemory` closes the gap: `Merge` of
the memory of the listings `h` and one more listing is the memory of both. A run that
the new listing has keeps its first sighting exactly if the old memory had it
(`RecalledListed`), and one that it lacks keeps its row, if it had one, exactly if its latest
sighting is within the period of the new instant (`RecalledUnlisted`). Neither needs
instants to be in the order of the listings, so a clock that steps back changes nothing. The inductive invariant is

    IInv == PipelineInv /\ LedgerIsHistory /\ SidecarIsNeverRefused

where `PipelineInv` has the types and `PrefixIsLatest`: what the latest published listing
has, the snapshot has, and the sidecar counts it. `LedgerIsHistory` alone is not
inductive, because it does not say that the listings of the past have one row per run with
a uid, nor that the ledger is the old one until the first cycle.
All three conjuncts are invariants of the run `pipeline`.

That a cycle's sidecar is valid (`SidecarIsValid`) comes down to a sum: the rows of the
listed clusters, counted cluster by cluster, are the rows of the snapshot
(`SumOfParts`). `SumFunctionOnSet`, in which that sum is written, unfolds to a
`CHOOSE` of a recursive function, so `SumExists` and `SumUnique` first establish its recursion.
Sums and least elements are proved by induction over a *set* of numbers
(`NatSetInduction`), which takes no operator as a parameter: a nonempty set of naturals
has a least element because `<` is well-founded on them. `TheMeasuresAgree`
rests on `ColumnsAgree`, that columns of a row are null together, which `ColumnsOfObject`
shows of every row that `to_row` makes, and for the failure columns on the existence of
a first failed pod (`FirstFailedPod`): the order by start and key has no ties, whatever
starts are missing.

**What the contents add.** `ContentsImplementPublisher` is the simulation that justifies
two models of one cycle: every step of `Exporter` is a step of `Publisher` or
leaves the prefix and the progress of the cycles alone, so what is proved of the
writers in `Publication` holds of cycles with contents.

Only model-checked: liveness (`TornIsRepaired`, `ReadersCatchUp`, `ListingEnds`,
`StopIsHonoured`), which needs ENABLED and is out of the prover's reach. Every
invariant and every action property of a passing run is a theorem.

## 5. Not modelled, and the plan

Done: all the modules of section 2 and all the theorems that earlier versions of this plan
listed, the last of them those about `Pipeline`, `MergeIsMemory` for a clock that steps
back, and the theorems about the ledger for an earlier ledger whose runs have finished.

To come:

1. `Listing` as the reason for the one-step listings of `Exporter`, and the
   one-step cycles of `Pipeline` as what an undisturbed cycle of `Exporter` does, stated
   as refinements where the two have state in common.
2. `Exporter` with the readers of `Consumer`: what a reader has selected is one coherent
   account, which `SelectedIsSnapshot` and `PublicationIsCoherent` say separately.

Not planned:

* The regular expressions of the failure taxonomy. Which rule wins, what is
  usable and what columns come of it is modelled; which texts a rule matches is a
  constant.
* Attempts of the S3 client that land out of turn (section 2), and how Base64, gzip and
  Parquet encode.
* The syntax of timestamps, prefixes, URLs and log levels, the divisions, periods
  and sort orders of the consumer's measures, and the wording of logs and
  violations.
* The internals of `threading.Event`: the signal handler calls `stop.set` on the main
  thread, which it may have interrupted while it held the event's lock inside
  `stop.wait`. `Health` takes the event to be atomic, so this hazard has no property.
* The container image, CI and documentation.
