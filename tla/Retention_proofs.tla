--------------------------- MODULE Retention_proofs ---------------------------
(***************************************************************************)
(* What one writer adds to Exporter: every ledger on the prefix is the one *)
(* before it with one cycle folded in.  Hence no run leaves it before its  *)
(* time, and an outage changes nothing in it, for any clusters, uids,      *)
(* retention period and bounds.                                            *)
(***************************************************************************)
EXTENDS Exporter_proofs

-----------------------------------------------------------------------------
(* The fold of ledger.merge, seen from the old ledger.                     *)

(* What becomes of a row of the old ledger in the new one.                 *)
Successor(old, new, observed, t) ==
    /\ Identity(new) = Identity(old)
    /\ \/ new = old
       \/ /\ new.first = old.first /\ new.last = t
          /\ \E seen \in observed :
                Identity(seen) = Identity(old) /\ new.columns = seen.columns

LEMMA RecordedKeepsFirst ==
    ASSUME NEW existing \in SUBSET LedgerRows, OneRowEach(existing), NEW t \in Int,
           NEW old \in Tracked(existing), NEW seen \in Rows, Identity(seen) = Identity(old)
    PROVE  Recorded(seen, Tracked(existing), t).first = old.first
  <1> DEFINE previous == {row \in Tracked(existing) : Identity(row) = Identity(seen)}
  <1>1. previous = {old}
    BY DEF OneRowEach
  <1>2. (CHOOSE row \in previous : TRUE) = old
    BY <1>1
  <1> QED
    BY <1>1, <1>2 DEF Recorded

(* A run on record stays on record until the retention period has gone by  *)
(* since it was last seen.                                                 *)
LEMMA MergeKeepsOld ==
    ASSUME NEW existing \in SUBSET LedgerRows, OneRowEach(existing),
           NEW observed \in SUBSET Rows, NEW t \in Int,
           NEW old \in Tracked(existing)
    PROVE  \/ old.last < Cutoff(t)
           \/ \E new \in Merge(existing, observed, t) : Successor(old, new, observed, t)
  <1>1. old \in LedgerRows /\ old.last \in Int /\ Cutoff(t) \in Int
    BY RetentionAssumption DEF Tracked, LedgerRows, Cutoff
  <1>2. CASE \E seen \in Tracked(observed) : Identity(seen) = Identity(old)
    <2>1. PICK seen \in Tracked(observed) : Identity(seen) = Identity(old)
      BY <1>2
    <2>2. seen \in observed /\ seen \in Rows /\ Tracked(existing) \in SUBSET LedgerRows
      BY DEF Tracked
    <2> DEFINE new == Recorded(seen, Tracked(existing), t)
    <2>3. /\ Identity(new) = Identity(seen) /\ new.columns = seen.columns
          /\ new.last = t /\ new.first = old.first
      BY <2>1, <2>2, RecordedRow, RecordedKeepsFirst
    <2>4. new \in Fold(Tracked(existing), Tracked(observed), t)
      BY DEF Fold
    <2>5. t >= Cutoff(t)
      BY RetentionAssumption DEF Cutoff
    <2> HIDE DEF new
    <2>6. new \in Merge(existing, observed, t)
      BY <2>3, <2>4, <2>5 DEF Merge
    <2> QED
      BY <2>1, <2>2, <2>3, <2>6 DEF Successor
  <1>3. CASE ~ \E seen \in Tracked(observed) : Identity(seen) = Identity(old)
    <2>1. old \in Fold(Tracked(existing), Tracked(observed), t)
      BY <1>3 DEF Fold
    <2>2. old.last >= Cutoff(t) => old \in Merge(existing, observed, t)
      BY <2>1 DEF Merge
    <2> QED
      BY <1>1, <2>2 DEF Successor
  <1> QED
    BY <1>2, <1>3

-----------------------------------------------------------------------------
(* The inductive invariant.                                                *)

(* A run that a row calls succeeded has succeeded.                         *)
IsHistory(row) ==
    row.columns = "Succeeded" /\ row.uid # NoUid
        => world[Identity(row)].phase \in {"Succeeded", "deleted"}

(* An observation of this cycle, beside the ledger on the prefix.          *)
IsUpToDate(seen) ==
    /\ Identity(seen) \in Keys
    /\ IsHistory(seen)
    /\ \A row \in StoredLedger :
          Identity(row) = Identity(seen) /\ row.columns = "Succeeded"
              => seen.columns = "Succeeded"

(* The ledger of the latest cycle is still to replace the one it was       *)
(* folded from.                                                            *)
Folding(w) == phase[w] = "publish" /\ published[w] < 2

IsFolded(p, t) ==
    /\ p.generatedAt = t
    /\ p.runs = Merge(StoredLedger, p.workflows, t)
    /\ \A seen \in p.workflows : IsUpToDate(seen)

HistoryOf(w) ==
    /\ \A row \in StoredLedger : row.last <= started[w] /\ IsHistory(row)
    /\ phase[w] = "compute" => base[w] = StoredLedger
    /\ \A seen \in rows[w] : IsUpToDate(seen)
    /\ Folding(w) => IsFolded(payload[gen[w]], started[w])

History ==
    /\ ExporterInv
    /\ OneWriterInv
    /\ \A w \in Writers : HistoryOf(w)

-----------------------------------------------------------------------------
(* What the steps do to the stored ledger.                                 *)

LEMMA StoredLedgerTyped ==
    ASSUME ExporterInv
    PROVE  /\ StoredLedger \in SUBSET LedgerRows
           /\ OneRowEach(StoredLedger)
           /\ \A row \in StoredLedger : row.last <= clock
  <1>1. OneRowEach({})
    BY DEF OneRowEach, Tracked
  <1> QED
    BY <1>1, StoredLedgerIsKnown, LedgersTyped DEF ExporterInv, LedgerIsSound

LEMMA PublishedIsTyped ==
    ASSUME ExporterInv, NEW w \in Writers, phase[w] = "publish"
    PROVE  /\ gen[w] \in Generations /\ gen[w] \in DOMAIN payload
           /\ payload[gen[w]] \in Payloads /\ OneAccount(payload[gen[w]])
           /\ rows[w] = {}
  <1>1. gen[w] \in Generations /\ gen[w] \in Referenced
    BY DEF ExporterInv, PublisherInv, OneCyclePerId, InCycle, WriterTypeOK, Generations, Referenced
  <1>2. gen[w] \in DOMAIN payload
    BY <1>1 DEF ExporterInv, ReferencedIsKnown
  <1>3. payload[gen[w]] \in Payloads /\ OneAccount(payload[gen[w]])
    BY <1>2 DEF ExporterInv, ContentTypeOK, PayloadIsSound
  <1> QED
    BY <1>1, <1>2, <1>3 DEF ExporterInv, CycleIsSound

(* The ledger changes with the object that carries it only.                *)
LEMMA LedgerStays ==
    ASSUME store'[Runs] = store[Runs],
           store[Runs] \in Generations => payload'[store[Runs]] = payload[store[Runs]]
    PROVE  StoredLedger' = StoredLedger
  BY DEF StoredLedger

(* Nothing that has succeeded starts again.                                *)
WorldGoesOn ==
    \A k \in Keys : world[k].phase \in {"Succeeded", "deleted"}
                        => world'[k].phase \in {"Succeeded", "deleted"}

LEMMA HistoryGoesOn ==
    ASSUME StoredLedger' = StoredLedger, WorldGoesOn, StoredLedger \in SUBSET LedgerRows
    PROVE  /\ \A row \in StoredLedger : IsHistory(row) => IsHistory(row)'
           /\ \A seen : IsUpToDate(seen) => IsUpToDate(seen)'
           /\ \A p, t : IsFolded(p, t) => IsFolded(p, t)'
  <1>1. \A row : Identity(row) \in Keys /\ IsHistory(row) => IsHistory(row)'
    BY DEF WorldGoesOn, IsHistory
  <1>2. \A row \in StoredLedger : row.uid # NoUid => Identity(row) \in Keys
    BY DEF LedgerRows, Identity, Keys
  <1>3. \A row \in StoredLedger : IsHistory(row) => IsHistory(row)'
    BY <1>1, <1>2 DEF IsHistory
  <1>4. \A seen : IsUpToDate(seen) => IsUpToDate(seen)'
    BY <1>1 DEF IsUpToDate
  <1>5. \A p, t : IsFolded(p, t) => IsFolded(p, t)'
    BY <1>4 DEF IsFolded
  <1> QED
    BY <1>3, <1>4, <1>5

(* Steps that leave the ledger, and what a cycle knows of it, alone.       *)
LEMMA QuietHistory ==
    ASSUME History, NEW w \in Writers,
           store'[Runs] = store[Runs], UNCHANGED <<payload, started, gen>>, WorldGoesOn,
           rows'[w] \subseteq rows[w],
           phase'[w] = "compute" => phase[w] = "compute" /\ base'[w] = base[w],
           Folding(w)' => Folding(w)
    PROVE  HistoryOf(w)'
  <1>1. StoredLedger' = StoredLedger
    BY LedgerStays
  <1>2. StoredLedger \in SUBSET LedgerRows
    BY StoredLedgerTyped DEF History
  <1> QED
    BY <1>1, <1>2, HistoryGoesOn DEF History, HistoryOf

(* The new ledger reaches the prefix.                                      *)
LEMMA FoldLands ==
    ASSUME SoleWriter, History, NEW w \in Writers,
           phase[w] = "publish", published[w] = 1, Overwrite(Runs, gen[w]),
           UNCHANGED <<world, payload, started>>, rows'[w] = {},
           phase'[w] # "compute", ~ Folding(w)'
    PROVE  /\ HistoryOf(w)'
           /\ store'[Runs] = gen[w]
           /\ StoredLedger' = payload[gen[w]].runs
  <1> DEFINE p == payload[gen[w]]
             t == started[w]
  <1>1. gen[w] \in Generations /\ p \in Payloads /\ rows[w] = {}
    BY PublishedIsTyped DEF History
  <1>2. store'[Runs] = gen[w]
    BY DEF Overwrite, History, ExporterInv, PublisherInv, StoreTypeOK, Objects
  <1>3. StoredLedger' = p.runs
    BY <1>1, <1>2 DEF StoredLedger, contentVars
  <1>4. IsFolded(p, t) /\ \A row \in StoredLedger : row.last <= t /\ IsHistory(row)
    BY DEF History, HistoryOf, Folding
  <1>5. t \in Int /\ p.workflows \in SUBSET Rows /\ StoredLedger \in SUBSET LedgerRows
    BY <1>1, StoredLedgerTyped, ExporterBounds DEF History, ExporterInv, ContentTypeOK, Payloads
  <1>6. ASSUME NEW row \in p.runs PROVE row.last <= t /\ IsHistory(row)
    <2>1. row \in Merge(StoredLedger, p.workflows, t)
      BY <1>4, <1>6 DEF IsFolded
    <2>2. CASE row \in Tracked(StoredLedger)
      BY <1>4, <2>2 DEF Tracked
    <2>3. ASSUME NEW seen \in Tracked(p.workflows), row = Recorded(seen, Tracked(StoredLedger), t)
          PROVE  row.last <= t /\ IsHistory(row)
      <3>1. seen \in Rows /\ Tracked(StoredLedger) \in SUBSET LedgerRows
        BY <1>5 DEF Tracked
      <3>2. /\ Identity(row) = Identity(seen) /\ row.uid = seen.uid
            /\ row.columns = seen.columns /\ row.last = t
        BY <1>5, <2>3, <3>1, RecordedRow
      <3>3. IsHistory(seen)
        BY <1>4 DEF IsFolded, IsUpToDate, Tracked
      <3> QED
        BY <1>5, <3>2, <3>3 DEF IsHistory
    <2> QED
      BY <2>1, <2>2, <2>3, MergeOrigin
  <1>7. \A row \in StoredLedger' : row.last <= started'[w] /\ IsHistory(row)'
    BY <1>3, <1>6 DEF contentVars, IsHistory
  <1> QED
    BY <1>1, <1>2, <1>3, <1>7 DEF HistoryOf, contentVars

-----------------------------------------------------------------------------
(* The writer's steps.                                                     *)

LEMMA Sole ==
    ASSUME SoleWriter, NEW w \in Writers, HistoryOf(w)'
    PROVE  \A v \in Writers : HistoryOf(v)'
  <1>1. \A v \in Writers : v = w
    BY DEF SoleWriter
  <1> QED
    BY <1>1

(* Where the ledger is and what it says stays, or a cycle's ledger takes   *)
(* its place.                                                              *)
LedgerSteps(w) ==
    \/ StoredLedger' = StoredLedger /\ store'[Runs] = store[Runs]
    \/ /\ Folding(w) /\ payload' = payload
       /\ store'[Runs] = gen[w] /\ StoredLedger' = payload[gen[w]].runs

(* Steps that touch neither the prefix nor the payloads.                   *)
LEMMA LocalSteps ==
    ASSUME SoleWriter, History, NEW w \in Writers,
           \/ StartProcess(w) \/ ClusterFails(w) \/ NothingAnswered(w) \/ DownloadFails(w)
           \/ LedgerUndecodable(w) \/ EncodeFails(w) \/ FinishCycle(w)
    PROVE  HistoryOf(w)' /\ LedgerSteps(w)
  <1>t. phase \in [Writers -> Phases] /\ rows \in [Writers -> SUBSET Rows]
    BY DEF History, ExporterInv, PublisherInv, WriterTypeOK, ContentTypeOK
  <1>1. UNCHANGED <<storeVars, world, payload, started, gen>>
    BY DEF StartProcess, Start, ClusterFails, NothingAnswered, DownloadFails, LedgerUndecodable,
           EncodeFails, FinishCycle, Finish, ReadFails, ReadUndecodable, ComputeFails, GiveUp,
           KeepWorld, contentVars, writerVars
  <1>2. rows'[w] \subseteq rows[w]
    BY <1>t DEF StartProcess, Start, ClusterFails, NothingAnswered, DownloadFails,
           LedgerUndecodable, EncodeFails, FinishCycle, ForgetLocals, contentVars
  <1>3. phase'[w] \notin {"compute", "publish"}
    BY <1>t DEF StartProcess, Start, ClusterFails, NothingAnswered, DownloadFails,
           LedgerUndecodable, EncodeFails, FinishCycle, Finish, ReadFails, ReadUndecodable,
           ComputeFails, GiveUp, writerVars
  <1>4. store'[Runs] = store[Runs] /\ WorldGoesOn
    BY <1>1 DEF storeVars, WorldGoesOn
  <1>5. HistoryOf(w)'
    BY <1>1, <1>2, <1>3, <1>4, QuietHistory DEF Folding
  <1> QED
    BY <1>1, <1>4, <1>5, LedgerStays DEF LedgerSteps

(* generated_at is not before any sighting on record.                      *)
LEMMA StartHistory ==
    ASSUME SoleWriter, History, NEW w \in Writers, StartCycle(w)
    PROVE  HistoryOf(w)' /\ LedgerSteps(w)
  <1>1. /\ UNCHANGED <<storeVars, world, payload, rows, clock>>
        /\ phase[w] = "wait" /\ phase'[w] = "read" /\ started'[w] = clock
    BY DEF StartCycle, BeginCycle, History, ExporterInv, PublisherInv, WriterTypeOK, ContentTypeOK
  <1>2. StoredLedger' = StoredLedger /\ store'[Runs] = store[Runs]
    BY <1>1, LedgerStays DEF storeVars
  <1>3. rows'[w] = {}
    BY <1>1 DEF History, ExporterInv, CycleIsSound
  <1>4. WorldGoesOn
    BY <1>1 DEF WorldGoesOn
  <1>5. \A row \in StoredLedger : row.last <= clock /\ IsHistory(row)'
    BY <1>2, <1>4, HistoryGoesOn, StoredLedgerTyped DEF History, HistoryOf
  <1>6. HistoryOf(w)'
    BY <1>1, <1>2, <1>3, <1>5 DEF HistoryOf, Folding
  <1> QED
    BY <1>2, <1>6 DEF LedgerSteps

(* What is listed now is no older than what is on record.                  *)
LEMMA AnswerHistory ==
    ASSUME SoleWriter, History, NEW w \in Writers, ClusterAnswers(w)
    PROVE  HistoryOf(w)' /\ LedgerSteps(w)
  <1> DEFINE c == ClusterOrder[Listed(w) + 1]
  <1>1. /\ UNCHANGED <<storeVars, writerVars, world, payload, started>>
        /\ phase[w] = "read" /\ rows'[w] = rows[w] \cup Listing(c)
    BY DEF ClusterAnswers, History, ExporterInv, ContentTypeOK
  <1>2. StoredLedger' = StoredLedger /\ store'[Runs] = store[Runs] /\ WorldGoesOn
    BY <1>1, LedgerStays DEF storeVars, WorldGoesOn
  <1>3. StoredLedger \in SUBSET LedgerRows
    BY StoredLedgerTyped DEF History
  <1>4. ASSUME NEW seen \in Listing(c) PROVE IsUpToDate(seen)
    <2>1. PICK k \in Keys : /\ world[k].phase \in Alive
                            /\ seen = [cluster |-> k[1], uid |-> k[2],
                                       columns |-> world[k].phase]
      BY DEF Listing
    <2>2. Identity(seen) = k /\ seen.columns = world[k].phase
      BY <2>1 DEF Identity, Keys
    <2>3. ASSUME NEW row \in StoredLedger, Identity(row) = k, row.columns = "Succeeded"
          PROVE  seen.columns = "Succeeded"
      <3>1. row.uid # NoUid
        BY <2>3, ClustersAssumption DEF Identity, Keys
      <3>2. world[k].phase \in {"Succeeded", "deleted"}
        BY <2>3, <3>1 DEF History, HistoryOf, IsHistory
      <3> QED
        BY <2>1, <2>2, <3>2 DEF Alive
    <2> QED
      BY <2>2, <2>3 DEF IsUpToDate, IsHistory
  <1>5. \A seen \in rows'[w] : IsUpToDate(seen)'
    BY <1>1, <1>2, <1>3, <1>4, HistoryGoesOn DEF History, HistoryOf
  <1>6. \A row \in StoredLedger : row.last <= started'[w] /\ IsHistory(row)'
    BY <1>1, <1>2, <1>3, HistoryGoesOn DEF History, HistoryOf
  <1>7. HistoryOf(w)'
    BY <1>1, <1>2, <1>5, <1>6 DEF HistoryOf, Folding, writerVars
  <1> QED
    BY <1>2, <1>7 DEF LedgerSteps

LEMMA DownloadHistory ==
    ASSUME SoleWriter, History, NEW w \in Writers, Download(w)
    PROVE  HistoryOf(w)' /\ LedgerSteps(w)
  <1>1. /\ UNCHANGED <<storeVars, world, payload, started, rows>>
        /\ phase'[w] = "compute" /\ base'[w] = StoredLedger
    BY DEF Download, ReadCompletes, History, ExporterInv, PublisherInv, WriterTypeOK, ContentTypeOK
  <1>2. StoredLedger' = StoredLedger /\ store'[Runs] = store[Runs] /\ WorldGoesOn
    BY <1>1, LedgerStays DEF storeVars, WorldGoesOn
  <1>3. /\ \A row \in StoredLedger : IsHistory(row)'
        /\ \A seen \in rows[w] : IsUpToDate(seen)'
    BY <1>2, HistoryGoesOn, StoredLedgerTyped DEF History, HistoryOf
  <1>4. HistoryOf(w)'
    BY <1>1, <1>2, <1>3 DEF HistoryOf, Folding, History
  <1> QED
    BY <1>2, <1>4 DEF LedgerSteps

(* The payload says what the base says, with the observations folded in.   *)
LEMMA EncodeHistory ==
    ASSUME SoleWriter, History, NEW w \in Writers, Encode(w)
    PROVE  HistoryOf(w)' /\ LedgerSteps(w)
  <1>1. /\ UNCHANGED <<storeVars, world, started, gen, published>>
        /\ phase[w] = "compute" /\ phase'[w] = "publish" /\ rows'[w] = {}
        /\ payload' = [g \in (DOMAIN payload \cap Referenced) \cup {gen[w]} |->
                         IF g = gen[w] THEN Encoded(w) ELSE payload[g]]
    BY DEF Encode, ComputeCompletes, ForgetLocals, History, ExporterInv, PublisherInv, WriterTypeOK,
           ContentTypeOK
  <1>2. Landed(w) = 1..0
    BY <1>1 DEF History, OneWriterInv, AccountIsTrue, InCycle
  <1>3. store[Runs] # gen[w]
    BY <1>2 DEF Landed, Objects, Runs
  <1>4. store[Runs] \in Generations => store[Runs] \in DOMAIN payload \cap Referenced
    BY DEF Referenced, Objects, Runs, History, ExporterInv, ReferencedIsKnown
  <1>5. store[Runs] \in Generations => payload'[store[Runs]] = payload[store[Runs]]
    BY <1>1, <1>3, <1>4
  <1>6. StoredLedger' = StoredLedger /\ store'[Runs] = store[Runs] /\ WorldGoesOn
    BY <1>1, <1>5, LedgerStays DEF storeVars, WorldGoesOn
  <1>7. payload'[gen[w]] = Encoded(w)
    BY <1>1
  <1>8. base[w] = StoredLedger /\ \A seen \in rows[w] : IsUpToDate(seen)
    BY <1>1 DEF History, HistoryOf
  <1>e. IsFolded(Encoded(w), started[w])
    BY <1>8 DEF Encoded, IsFolded
  <1>9. PICK p, t : p = Encoded(w) /\ t = started[w] /\ IsFolded(p, t)
    BY <1>e
  <1>10. IsFolded(p, t)' /\ \A row \in StoredLedger : IsHistory(row)'
    BY <1>6, <1>9, HistoryGoesOn, StoredLedgerTyped DEF History, HistoryOf
  <1>11. IsFolded(payload[gen[w]], started[w])'
    <2>1. payload'[gen'[w]] = p /\ started'[w] = t
      BY <1>1, <1>7, <1>9
    <2> QED
      BY <1>10, <2>1
  <1>12. HistoryOf(w)'
    BY <1>1, <1>6, <1>10, <1>11 DEF HistoryOf, History
  <1> QED
    BY <1>6, <1>12 DEF LedgerSteps

(* Uploads, answered or not: only that of runs.parquet touches the ledger. *)
LEMMA UploadHistory ==
    ASSUME SoleWriter, History, NEW w \in Writers,
           Upload(w) \/ UploadFails(w) \/ Die(w)
    PROVE  HistoryOf(w)' /\ LedgerSteps(w)
  <1>t. /\ phase \in [Writers -> Phases] /\ published \in [Writers -> 0..3]
        /\ rows \in [Writers -> SUBSET Rows] /\ store \in [Objects -> Contents]
    BY DEF History, ExporterInv, PublisherInv, WriterTypeOK, StoreTypeOK, ContentTypeOK
  <1>1. /\ UNCHANGED <<world, payload, started, gen>>
        /\ rows'[w] \subseteq rows[w] /\ phase'[w] # "compute"
        /\ \/ phase'[w] # "publish"
           \/ phase[w] = "publish" /\ published'[w] = published[w] + 1
    BY <1>t DEF Upload, UploadFails, Die, Put, PutFails, Crash, GiveUp, ForgetLocals,
           KeepWorld, contentVars
  <1>2. WorldGoesOn
    BY <1>1 DEF WorldGoesOn
  <1>3. Folding(w)' => Folding(w)
    BY <1>1, <1>t DEF Folding
  <1>4. CASE store'[Runs] = store[Runs]
    <2>1. HistoryOf(w)'
      BY <1>1, <1>2, <1>3, <1>4, QuietHistory
    <2> QED
      BY <1>1, <1>4, <2>1, LedgerStays DEF LedgerSteps
  <1>5. CASE store'[Runs] # store[Runs]
    <2>1. phase[w] = "publish" /\ published[w] < 3 /\ Overwrite(published[w] + 1, gen[w])
      BY <1>5 DEF Upload, UploadFails, Die, Put, PutFails, Crash, Unanswered, storeVars
    <2>2. published[w] + 1 = Runs
      BY <1>5, <1>t, <2>1 DEF Overwrite
    <2>3. published[w] = 1
      BY <1>t, <2>2 DEF Runs
    <2>4. rows'[w] = {} /\ rows[w] = {}
      BY <1>1, <2>1, PublishedIsTyped DEF History
    <2>5. ~ Folding(w)'
      BY <1>1, <2>3 DEF Folding
    <2>6. /\ HistoryOf(w)'
          /\ store'[Runs] = gen[w] /\ StoredLedger' = payload[gen[w]].runs
      BY <1>1, <2>1, <2>2, <2>3, <2>4, <2>5, FoldLands
    <2>7. Folding(w)
      BY <2>1, <2>3 DEF Folding
    <2> QED
      BY <1>1, <2>6, <2>7 DEF LedgerSteps
  <1> QED
    BY <1>4, <1>5

LEMMA EnvironmentHistory ==
    ASSUME History, Tick \/ WorldNext \/ UNCHANGED vars, NEW w \in Writers
    PROVE  HistoryOf(w)' /\ LedgerSteps(w)
  <1>1. UNCHANGED <<storeVars, writerVars, started, rows, base, payload>>
    BY DEF Tick, WorldNext, Submit, Complete, Delete, Becomes, vars, contentVars
  <1>2. WorldGoesOn
    <2>1. CASE UNCHANGED world
      BY <2>1 DEF WorldGoesOn
    <2>2. ASSUME NEW k \in Keys, Submit(k) \/ Complete(k) \/ Delete(k)
          PROVE  WorldGoesOn
      <3>1. PICK after : /\ world' = [world EXCEPT ![k] = [phase |-> after, since |-> clock]]
                         /\ \/ world[k].phase \in {"none", "Running"}
                            \/ after = "deleted"
        BY <2>2 DEF Submit, Complete, Delete, Becomes
      <3>2. \A l \in Keys : IF l = k THEN world'[l].phase = after ELSE world'[l] = world[l]
        BY <3>1 DEF History, ExporterInv, ContentTypeOK
      <3> QED
        BY <3>1, <3>2 DEF WorldGoesOn
    <2> QED
      BY <2>1, <2>2 DEF Tick, WorldNext, vars, contentVars
  <1>3. store'[Runs] = store[Runs] /\ (Folding(w)' => Folding(w))
    BY <1>1 DEF storeVars, writerVars, Folding
  <1>4. HistoryOf(w)'
    BY <1>1, <1>2, <1>3, QuietHistory DEF writerVars
  <1> QED
    BY <1>1, <1>3, <1>4, LedgerStays DEF LedgerSteps

-----------------------------------------------------------------------------
(* The invariant is inductive.                                             *)

LEMMA HistoryInit == Init => \A w \in Writers : HistoryOf(w)
  <1> SUFFICES ASSUME Init, NEW w \in Writers PROVE HistoryOf(w)
    OBVIOUS
  <1>1. store[Runs] \notin Generations
    BY Constants DEF Init, StoreInit, Objects, Runs, Generations
  <1>2. /\ StoredLedger \subseteq LegacyLedger
        /\ StoredLedger # {} => store[Runs] = NoId
    BY <1>1 DEF StoredLedger
  <1>3. ASSUME NEW row \in StoredLedger PROVE row.last <= 0 /\ IsHistory(row)
    <2>1. row \in LedgerRows /\ row.last <= 0
      BY <1>2, LegacyAssumption
    <2>2. ASSUME row.uid # NoUid PROVE world[Identity(row)].phase = row.columns
      <3>1. Identity(row) \in Keys
        BY <2>1, <2>2 DEF LedgerRows, Identity, Keys
      <3>2. row \in Tracked(OnRecord(Identity(row)))
        BY <1>2, <2>2 DEF OnRecord, Tracked
      <3> QED
        BY <3>1, <3>2, FirstPhases DEF Init, ContentInit
    <2> QED
      BY <2>1, <2>2 DEF IsHistory
  <1> QED
    BY <1>3 DEF Init, WriterInit, ContentInit, HistoryOf, IsHistory, Folding

LEMMA WriterStepHistory ==
    ASSUME SoleWriter, History, [Next]_vars, NEW w \in Writers
    PROVE  HistoryOf(w)' /\ LedgerSteps(w)
  <1>1. CASE Tick \/ WorldNext \/ UNCHANGED vars
    BY <1>1, EnvironmentHistory
  <1>2. ASSUME NEW v \in Writers, CycleStep(v) PROVE HistoryOf(w)' /\ LedgerSteps(w)
    <2>1. v = w
      BY DEF SoleWriter
    <2> QED
      BY <1>2, <2>1, LocalSteps, StartHistory, AnswerHistory, DownloadHistory, EncodeHistory,
         UploadHistory DEF CycleStep
  <1>3. ~ UploadLands
    BY DEF UploadLands, LateLanding, Land, History, OneWriterInv
  <1> QED
    BY <1>1, <1>2, <1>3 DEF Next

LEMMA OneWriterStep ==
    ASSUME SoleWriter, History, [Next]_vars PROVE OneWriterInv'
  <1>1. CASE UNCHANGED <<storeVars, writerVars>>
    BY <1>1, OneWriterAtRest DEF History
  <1>2. CASE WriterNext
    BY <1>2, WriterStepKeepsOneWriter DEF History, ExporterInv
  <1> QED
    BY <1>1, <1>2, StepsOfPublisher

(* With one writer every ledger on the prefix continues the one before it. *)
THEOREM LedgersAreHistory ==
    ASSUME SoleWriter PROVE Spec => []History
  <1>1. SoleWriter
    OBVIOUS
  <1>2. Init => OneWriterInv /\ \A w \in Writers : HistoryOf(w)
    BY <1>1, OneWriterInit, HistoryInit DEF Init
  <1>3. ExporterInv /\ History /\ ExporterInv' /\ [Next]_vars => History'
    BY <1>1, WriterStepHistory, OneWriterStep DEF History
  <1>4. ExporterInv /\ Init => History
    BY <1>2 DEF History
  <1> QED
    BY <1>3, <1>4, ContentInvariance, PTL DEF Spec

-----------------------------------------------------------------------------

(* With one writer a run on record stays on record, through failed and     *)
(* torn publications, crashes and outages, until the retention period has  *)
(* gone by since it was last seen; its first sighting never changes, its   *)
(* last one never moves back, and a success stays one.                     *)
THEOREM NoRunIsForgotten ==
    ASSUME SoleWriter PROVE Spec => LedgerNeverForgets
  <1> DEFINE Kept ==
        \A old \in Tracked(StoredLedger) :
           \/ \E new \in StoredLedger' :
                /\ Identity(new) = Identity(old)
                /\ old.columns = "Succeeded" => new.columns = "Succeeded"
                /\ new.first = old.first
                /\ new.last >= old.last
           \/ \E w \in Writers : old.last < Cutoff(started[w])
  <1>1. SoleWriter
    OBVIOUS
  <1>2. ASSUME History, [Next]_vars PROVE Kept
    <2>1. SUFFICES ASSUME NEW old \in Tracked(StoredLedger)
                   PROVE  \/ \E new \in StoredLedger' :
                               /\ Identity(new) = Identity(old)
                               /\ old.columns = "Succeeded" => new.columns = "Succeeded"
                               /\ new.first = old.first
                               /\ new.last >= old.last
                          \/ \E w \in Writers : old.last < Cutoff(started[w])
      OBVIOUS
    <2>2. PICK w \in Writers : LedgerSteps(w)
      BY <1>1, <1>2, WriterStepHistory, WritersAssumption
    <2>3. /\ old \in StoredLedger /\ old \in LedgerRows /\ old.last \in Int
          /\ StoredLedger \in SUBSET LedgerRows /\ OneRowEach(StoredLedger)
      BY <1>2, StoredLedgerTyped DEF History, Tracked, LedgerRows
    <2>4. CASE StoredLedger' = StoredLedger
      BY <2>3, <2>4
    <2>5. ASSUME Folding(w), StoredLedger' = payload[gen[w]].runs
          PROVE  \/ old.last < Cutoff(started[w])
                 \/ \E new \in StoredLedger' :
                      /\ Identity(new) = Identity(old)
                      /\ old.columns = "Succeeded" => new.columns = "Succeeded"
                      /\ new.first = old.first
                      /\ new.last >= old.last
      <3> DEFINE p == payload[gen[w]]
                 t == started[w]
      <3>1. IsFolded(p, t) /\ old.last <= t
        BY <1>2, <2>3, <2>5 DEF History, HistoryOf
      <3>2. p.workflows \in SUBSET Rows /\ t \in Int
        BY <1>2, <2>5, PublishedIsTyped, ExporterBounds
        DEF Folding, Payloads, History, ExporterInv, ContentTypeOK
      <3>3. \/ old.last < Cutoff(t)
            \/ \E new \in Merge(StoredLedger, p.workflows, t) :
                  Successor(old, new, p.workflows, t)
        BY <2>3, <3>2, MergeKeepsOld
      <3>4. ASSUME NEW new, Successor(old, new, p.workflows, t)
            PROVE  /\ Identity(new) = Identity(old)
                   /\ old.columns = "Succeeded" => new.columns = "Succeeded"
                   /\ new.first = old.first
                   /\ new.last >= old.last
        BY <2>3, <3>1, <3>2, <3>4 DEF Successor, IsFolded, IsUpToDate
      <3> QED
        BY <2>5, <3>1, <3>3, <3>4 DEF IsFolded
    <2> QED
      BY <2>2, <2>4, <2>5 DEF LedgerSteps
  <1>3. History /\ [Next]_vars => [Kept]_vars
    BY <1>2
  <1> QED
    BY <1>3, LedgersAreHistory, PTL DEF Spec, LedgerNeverForgets

(* With one writer an outage is no observation: what a new ledger says of  *)
(* a cluster that was not available, the old one said.                     *)
THEOREM OutagesChangeNothing ==
    ASSUME SoleWriter PROVE Spec => OutageIsNoSighting
  <1> DEFINE Unsaid ==
        store'[Runs] # store[Runs] =>
            \A row \in StoredLedger' :
               row.cluster \notin payload[store'[Runs]].ok => row \in StoredLedger
  <1>1. SoleWriter
    OBVIOUS
  <1>2. ASSUME History, [Next]_vars PROVE Unsaid
    <2>1. SUFFICES ASSUME store'[Runs] # store[Runs], NEW row \in StoredLedger',
                          row.cluster \notin payload[store'[Runs]].ok
                   PROVE  row \in StoredLedger
      OBVIOUS
    <2>2. PICK w \in Writers : LedgerSteps(w)
      BY <1>1, <1>2, WriterStepHistory, WritersAssumption
    <2> DEFINE p == payload[gen[w]]
               t == started[w]
    <2>3. Folding(w) /\ store'[Runs] = gen[w] /\ row \in p.runs /\ row.cluster \notin p.ok
      BY <2>1, <2>2 DEF LedgerSteps
    <2>4. IsFolded(p, t) /\ OneAccount(p) /\ p.workflows \in SUBSET Rows /\ t \in Int
      BY <1>2, <2>3, PublishedIsTyped, ExporterBounds
      DEF Folding, Payloads, History, HistoryOf, ExporterInv, ContentTypeOK
    <2>5. CASE row \in Tracked(StoredLedger)
      BY <2>5 DEF Tracked
    <2>6. ASSUME NEW seen \in Tracked(p.workflows), row = Recorded(seen, Tracked(StoredLedger), t)
          PROVE  FALSE
      <3>1. row.cluster = seen.cluster
        BY <2>6 DEF Recorded
      <3> QED
        BY <2>3, <2>4, <3>1 DEF OneAccount, Tracked
    <2> QED
      BY <2>3, <2>4, <2>5, <2>6, MergeOrigin DEF IsFolded
  <1>3. History /\ [Next]_vars => [Unsaid]_vars
    BY <1>2
  <1> QED
    BY <1>3, LedgersAreHistory, PTL DEF Spec, OutageIsNoSighting

===============================================================================
