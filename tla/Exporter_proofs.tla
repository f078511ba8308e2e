-------------------------- MODULE Exporter_proofs --------------------------
(***************************************************************************)
(* Proofs about the contents of publications, for any writers, clusters,   *)
(* uids, bounds and initial contents of the prefix.                        *)
(***************************************************************************)
EXTENDS Exporter, Publisher_proofs

-----------------------------------------------------------------------------
(* The fold of ledger.merge.                                               *)

LEMMA RecordedRow ==
    ASSUME NEW seen \in Rows, NEW existing \in SUBSET LedgerRows, NEW t \in Int
    PROVE  /\ Recorded(seen, existing, t) \in LedgerRows
           /\ Identity(Recorded(seen, existing, t)) = Identity(seen)
           /\ Recorded(seen, existing, t).uid = seen.uid
           /\ Recorded(seen, existing, t).columns = seen.columns
           /\ Recorded(seen, existing, t).last = t
  <1> DEFINE previous == {row \in existing : Identity(row) = Identity(seen)}
             first == IF previous = {} THEN t
                                       ELSE (CHOOSE row \in previous : TRUE).first
  <1>1. first \in Int
    <2>1. CASE previous = {}
      BY <2>1
    <2>2. CASE previous # {}
      <3>1. (CHOOSE row \in previous : TRUE) \in LedgerRows
        BY <2>2
      <3> QED
        BY <2>2, <3>1 DEF LedgerRows
    <2> QED
      BY <2>1, <2>2
  <1>2. Recorded(seen, existing, t)
          = [cluster |-> seen.cluster, uid |-> seen.uid, columns |-> seen.columns,
             first |-> first, last |-> t]
    BY DEF Recorded
  <1> HIDE DEF first
  <1> QED
    BY <1>1, <1>2 DEF Rows, LedgerRows, Identity

(* A row of the new ledger was in the old one and is not of this cycle, or *)
(* it records a row of the snapshot.                                       *)
LEMMA MergeOrigin ==
    ASSUME NEW existing, NEW observed, NEW t, NEW row \in Merge(existing, observed, t)
    PROVE  \/ /\ row \in Tracked(existing)
              /\ \A seen \in Tracked(observed) : Identity(seen) # Identity(row)
           \/ \E seen \in Tracked(observed) : row = Recorded(seen, Tracked(existing), t)
  BY DEF Merge, Fold

LEMMA MergeTyped ==
    ASSUME NEW existing \in SUBSET LedgerRows, NEW observed \in SUBSET Rows, NEW t \in Int
    PROVE  Merge(existing, observed, t) \in SUBSET LedgerRows
  <1> SUFFICES ASSUME NEW row \in Merge(existing, observed, t) PROVE row \in LedgerRows
    OBVIOUS
  <1>1. Tracked(existing) \in SUBSET LedgerRows /\ Tracked(observed) \subseteq Rows
    BY DEF Tracked
  <1> QED
    BY <1>1, MergeOrigin, RecordedRow

LEMMA MergeOneRowEach ==
    ASSUME NEW existing \in SUBSET LedgerRows, NEW observed \in SUBSET Rows, NEW t \in Int,
           OneRowEach(existing), OneRowEach(observed)
    PROVE  OneRowEach(Merge(existing, observed, t))
  <1>1. Tracked(existing) \in SUBSET LedgerRows /\ Tracked(observed) \subseteq Rows
    BY DEF Tracked
  <1> SUFFICES ASSUME NEW a \in Merge(existing, observed, t),
                      NEW b \in Merge(existing, observed, t),
                      Identity(a) = Identity(b)
               PROVE  a = b
    BY DEF OneRowEach, Tracked
  <1>2. CASE a \in Tracked(existing) /\ b \in Tracked(existing)
    BY <1>2 DEF OneRowEach
  <1>3. ASSUME NEW x \in Tracked(observed), a = Recorded(x, Tracked(existing), t)
        PROVE  a = b
    <2>1. Identity(a) = Identity(x)
      BY <1>1, <1>3, RecordedRow
    <2>o. \/ \A seen \in Tracked(observed) : Identity(seen) # Identity(b)
          \/ \E seen \in Tracked(observed) : b = Recorded(seen, Tracked(existing), t)
      BY MergeOrigin
    <2>2. PICK y \in Tracked(observed) : b = Recorded(y, Tracked(existing), t)
      BY <2>1, <2>o
    <2>3. Identity(y) = Identity(b)
      BY <1>1, <2>2, RecordedRow
    <2>4. x = y
      BY <2>1, <2>3 DEF OneRowEach
    <2> QED
      BY <1>3, <2>2, <2>4
  <1>4. ASSUME NEW y \in Tracked(observed), b = Recorded(y, Tracked(existing), t),
               a \in Tracked(existing),
               \A seen \in Tracked(observed) : Identity(seen) # Identity(a)
        PROVE  a = b
    BY <1>1, <1>4, RecordedRow
  <1> QED
    BY <1>2, <1>3, <1>4, MergeOrigin

(* What was observed is in the new ledger: it is too young to be trimmed.  *)
LEMMA MergeKeepsObserved ==
    ASSUME NEW existing \in SUBSET LedgerRows, NEW observed \in SUBSET Rows, NEW t \in Int,
           NEW seen \in observed, seen.uid # NoUid
    PROVE  \E row \in Merge(existing, observed, t) :
              Identity(row) = Identity(seen) /\ row.columns = seen.columns /\ row.last = t
  <1> DEFINE row == Recorded(seen, Tracked(existing), t)
  <1>1. Tracked(existing) \in SUBSET LedgerRows /\ seen \in Tracked(observed) /\ seen \in Rows
    BY DEF Tracked
  <1>2. Identity(row) = Identity(seen) /\ row.columns = seen.columns /\ row.last = t
    BY <1>1, RecordedRow
  <1>3. row \in Fold(Tracked(existing), Tracked(observed), t)
    BY <1>1 DEF Fold
  <1>4. t >= Cutoff(t)
    BY RetentionAssumption DEF Cutoff
  <1> HIDE DEF row
  <1>5. row \in Merge(existing, observed, t)
    BY <1>2, <1>3, <1>4 DEF Merge
  <1> QED
    BY <1>2, <1>5

-----------------------------------------------------------------------------
(* The clusters and the clock.                                             *)

(* Time does not go back, and what changes in a cluster changes now.       *)
WorldStep ==
    /\ clock \in Nat /\ clock' \in Nat /\ clock <= clock'
    /\ \A k \in Keys : world'[k] = world[k] \/ world'[k].since = clock'

LEMMA StillWorld ==
    ASSUME ContentTypeOK, UNCHANGED <<clock, world>>
    PROVE  WorldStep
  BY ExporterBounds DEF ContentTypeOK, WorldStep

LEMMA LedgerStaysSound ==
    ASSUME WorldStep, NEW ledger \in SUBSET LedgerRows, LedgerIsSound(ledger)
    PROVE  LedgerIsSound(ledger)'
  <1>1. \A row \in ledger : row.last \in Int /\ row.last <= clock /\ row.last <= clock'
    BY DEF WorldStep, LedgerIsSound, LedgerRows
  <1>2. SeenInTime(ledger)'
    BY <1>1 DEF WorldStep, LedgerIsSound, SeenInTime
  <1> QED
    BY <1>1, <1>2 DEF LedgerIsSound

LEMMA NothingIsLeftOutLater ==
    ASSUME WorldStep, NEW ok, NEW snapshot, NEW t \in Int, t <= clock,
           NothingLeftOut(ok, t, snapshot)
    PROVE  NothingLeftOut(ok, t, snapshot)'
  BY DEF WorldStep, NothingLeftOut

LEMMA PayloadStaysSound ==
    ASSUME WorldStep, NEW p \in Payloads, PayloadIsSound(p)
    PROVE  PayloadIsSound(p)'
  <1>1. p.generatedAt \in Int /\ p.generatedAt <= clock /\ p.generatedAt <= clock'
    BY DEF WorldStep, PayloadIsSound, Payloads
  <1>2. NothingLeftOut(p.ok, p.generatedAt, p.workflows)'
    BY <1>1, NothingIsLeftOutLater DEF PayloadIsSound
  <1> QED
    BY <1>1, <1>2 DEF PayloadIsSound

(* The rows a cycle has collected are rows of objects with a uid.          *)
LEMMA CollectedRows ==
    ASSUME ContentTypeOK, NEW w \in Writers, CycleIsSound(w), NEW row \in rows[w]
    PROVE  row \in Rows /\ row.uid # NoUid /\ Identity(row) \in Keys
  <1>1. row \in Rows
    BY DEF ContentTypeOK
  <1>2. row.uid # NoUid
    BY DEF CycleIsSound
  <1>3. row.cluster \in Clusters /\ row.uid \in Uids
    BY <1>1, <1>2 DEF Rows
  <1> QED
    BY <1>1, <1>2, <1>3 DEF Keys, Identity

(* A cycle whose own variables stand still.                                *)
LEMMA CycleStaysSound ==
    ASSUME ContentTypeOK, WorldStep, NEW w \in Writers, CycleIsSound(w),
           phase'[w] = phase[w], started'[w] = started[w], stats'[w] = stats[w],
           rows'[w] = rows[w], base'[w] = base[w]
    PROVE  CycleIsSound(w)'
  <1>1. started[w] \in Int /\ started[w] <= clock /\ started[w] <= clock'
    BY ExporterBounds DEF ContentTypeOK, CycleIsSound, WorldStep
  <1>2. Answered(w)' = Answered(w)
    BY DEF Answered
  <1>3. \A row \in rows[w] : Identity(row) \in Keys
    BY CollectedRows
  <1>4. NothingLeftOut(Answered(w), started[w], rows[w])'
    <2>1. SUFFICES ASSUME NEW k \in Keys, k[1] \in Answered(w), world'[k].phase \in Alive,
                          world'[k].since < started[w]
                   PROVE  [cluster |-> k[1], uid |-> k[2], columns |-> world'[k].phase] \in rows[w]
      BY <1>2 DEF NothingLeftOut
    <2>2. world'[k] = world[k]
      BY <1>1, <2>1 DEF WorldStep
    <2> QED
      BY <2>1, <2>2 DEF CycleIsSound, NothingLeftOut
  <1>5. \A row \in rows[w] : world'[Identity(row)].phase = "deleted"
                                => started[w] <= world'[Identity(row)].since
    BY <1>1, <1>3 DEF CycleIsSound, WorldStep
  <1> QED
    BY <1>1, <1>2, <1>4, <1>5 DEF CycleIsSound, SomeAnswered

(* A cycle that is over.                                                   *)
LEMMA OverIsSound ==
    ASSUME ContentTypeOK, WorldStep, NEW w \in Writers, CycleIsSound(w),
           phase'[w] \notin {"compute"}, started'[w] \in Nat, started'[w] <= clock',
           stats'[w] = <<>>, rows'[w] = {}, base'[w] = {}
    PROVE  CycleIsSound(w)'
  <1>1. Answered(w)' = {}
    BY DEF Answered
  <1>2. NothingLeftOut(Answered(w), started[w], rows[w])'
    BY <1>1 DEF NothingLeftOut
  <1> QED
    BY <1>1, <1>2 DEF CycleIsSound

-----------------------------------------------------------------------------
(* What an action leaves to prove, whatever it does.                       *)

LEMMA LedgersTyped == ASSUME ContentTypeOK PROVE Ledgers \subseteq SUBSET LedgerRows
  <1>1. \A w \in Writers : base[w] \in SUBSET LedgerRows
    BY DEF ContentTypeOK
  <1>2. \A g \in DOMAIN payload : payload[g].runs \in SUBSET LedgerRows
    BY DEF ContentTypeOK, Payloads
  <1> QED
    BY <1>1, <1>2, LegacyAssumption DEF Ledgers

Said == {payload[g] : g \in DOMAIN payload}

LEMMA SaidTyped == ASSUME ContentTypeOK PROVE Said \subseteq Payloads
  BY DEF ContentTypeOK, Said

LEMMA LedgersStaySound ==
    ASSUME ExporterInv, WorldStep, \A ledger \in Ledgers' : ledger \in Ledgers \/ ledger = {}
    PROVE  \A ledger \in Ledgers' : LedgerIsSound(ledger)'
  <1>1. LedgerIsSound({})'
    BY DEF LedgerIsSound, OneRowEach, Tracked, SeenInTime
  <1>2. ASSUME NEW ledger \in Ledgers PROVE LedgerIsSound(ledger)'
    BY <1>2, LedgersTyped, LedgerStaysSound DEF ExporterInv
  <1> QED
    BY <1>1, <1>2

LEMMA SaidStaysSound ==
    ASSUME ExporterInv, WorldStep, Said' \subseteq Said
    PROVE  \A p \in Said' : PayloadIsSound(p)'
  BY SaidTyped, PayloadStaysSound DEF ExporterInv, Said

(* Writer w alone does something.                                          *)
OthersWait(w) ==
    \A v \in Writers \ {w} :
        /\ phase'[v] = phase[v] /\ started'[v] = started[v] /\ stats'[v] = stats[v]
        /\ rows'[v] = rows[v] /\ base'[v] = base[v]

LEMMA OthersStaySound ==
    ASSUME ExporterInv, WorldStep, NEW w \in Writers, OthersWait(w)
    PROVE  \A v \in Writers \ {w} : CycleIsSound(v)'
  BY CycleStaysSound DEF ExporterInv, OthersWait

(* Every action of a writer but the one that encodes its payloads.         *)
EncodesNothing ==
    \/ \E w \in Writers :
          \/ Start(w) \/ BeginCycle(w) \/ ReadUndecodable(w) \/ ReadFails(w)
          \/ ReadCompletes(w) \/ ComputeFails(w) \/ Put(w) \/ PutFails(w)
          \/ Finish(w) \/ Crash(w)
    \/ LateLanding

(* What is referenced after it was referenced before.                      *)
LEMMA StepReferences ==
    ASSUME PublisherInv, EncodesNothing
    PROVE  Referenced' \subseteq Referenced
  <1> DEFINE Publishers == {v \in Writers : phase[v] = "publish"}
  <1>t. /\ store \in [Objects -> Contents] /\ late \subseteq Objects \X Generations
        /\ phase \in [Writers -> Phases] /\ gen \in [Writers -> Nat]
    BY DEF PublisherInv, StoreTypeOK, WriterTypeOK
  <1>p. \A w \in Writers : phase[w] = "publish" => gen[w] \in Referenced
    BY DEF Referenced
  <1>l. \A put \in late : put[2] \in Referenced
    BY DEF Referenced
  <1>s. \A o \in Objects : store[o] \in Referenced
    BY DEF Referenced
  <1>1. ASSUME \A o \in Objects : store'[o] \in Referenced,
               \A put \in late' : put[2] \in Referenced,
               \A v \in Writers : phase'[v] = "publish" => phase[v] = "publish" /\ gen'[v] = gen[v]
        PROVE  Referenced' \subseteq Referenced
    BY <1>1, <1>p DEF Referenced
  <1>o. ASSUME NEW o, NEW g \in Referenced, Overwrite(o, g)
        PROVE  \A p \in Objects : store'[p] \in Referenced
    BY <1>o, <1>t, <1>s DEF Overwrite
  <1>u. ASSUME NEW o \in Objects, NEW g \in Referenced, Unanswered(o, g)
        PROVE  /\ \A p \in Objects : store'[p] \in Referenced
               /\ \A put \in late' : put[2] \in Referenced
    BY <1>u, <1>o, <1>s, <1>l DEF Unanswered, storeVars
  <1>2. ASSUME NEW w \in Writers,
               Start(w) \/ BeginCycle(w) \/ ReadUndecodable(w) \/ ReadFails(w)
                 \/ ReadCompletes(w) \/ ComputeFails(w) \/ Finish(w)
        PROVE  Referenced' \subseteq Referenced
    <2>1. UNCHANGED <<store, late>>
      BY <1>2 DEF Start, BeginCycle, ReadUndecodable, ReadFails, ReadCompletes,
                  ComputeFails, Finish, storeVars
    <2>2. \A v \in Writers : phase'[v] = "publish" => phase[v] = "publish" /\ gen'[v] = gen[v]
      BY <1>2, <1>t DEF Start, BeginCycle, ReadUndecodable, ReadFails, ReadCompletes,
                  ComputeFails, Finish, GiveUp
    <2> QED
      BY <1>1, <1>s, <1>l, <2>1, <2>2
  <1>3. ASSUME NEW w \in Writers, Put(w) PROVE Referenced' \subseteq Referenced
    BY <1>3, <1>1, <1>o, <1>p, <1>l DEF Put
  <1>4. ASSUME NEW w \in Writers, PutFails(w) PROVE Referenced' \subseteq Referenced
    <2>1. published[w] + 1 \in Objects
      BY <1>4, NextObject DEF PutFails, PublisherInv
    <2>2. \A v \in Writers : phase'[v] = "publish" => phase[v] = "publish" /\ gen'[v] = gen[v]
      BY <1>4, <1>t DEF PutFails, GiveUp
    <2> QED
      BY <1>4, <1>1, <1>u, <1>p, <2>1, <2>2 DEF PutFails
  <1>5. ASSUME NEW w \in Writers, Crash(w) PROVE Referenced' \subseteq Referenced
    <2>1. \A v \in Writers : phase'[v] = "publish" => phase[v] = "publish" /\ gen'[v] = gen[v]
      BY <1>5, <1>t DEF Crash
    <2>2. CASE phase[w] = "publish" /\ published[w] < 3
      <3>1. published[w] + 1 \in Objects
        BY <2>2, NextObject DEF PublisherInv
      <3> QED
        BY <1>5, <1>1, <1>u, <1>p, <2>1, <2>2, <3>1 DEF Crash
    <2>3. CASE ~ (phase[w] = "publish" /\ published[w] < 3)
      BY <1>5, <1>1, <1>s, <1>l, <2>1, <2>3 DEF Crash, storeVars
    <2> QED
      BY <2>2, <2>3
  <1>6. ASSUME LateLanding PROVE Referenced' \subseteq Referenced
    <2>1. PICK put \in late : Land(put)
      BY <1>6 DEF LateLanding
    <2> QED
      BY <1>6, <1>1, <1>o, <1>l, <2>1 DEF LateLanding, Land
  <1> QED
    BY <1>2, <1>3, <1>4, <1>5, <1>6 DEF EncodesNothing

LEMMA EncodesNothingIsAStep == EncodesNothing => WriterNext
  BY DEF EncodesNothing, WriterNext, WriterProgress, WriterFault

-----------------------------------------------------------------------------
(* Steps of the clusters and the clock.                                    *)

LEMMA EnvironmentStep == ASSUME ExporterInv, Tick \/ WorldNext PROVE ExporterInv'
  <1>0. UNCHANGED <<storeVars, writerVars, started, stats, rows, base, payload>>
    BY DEF Tick, WorldNext, Submit, Complete, Delete, Becomes
  <1>1. PublisherInv'
    BY <1>0 DEF ExporterInv, PublisherInv, StoreTypeOK, WriterTypeOK, OneCyclePerId,
                CommittedIsSettled, Settled, MayLand, InCycle, IsPaired, storeVars, writerVars
  <1>2. clock \in Nat /\ clock \in 0..MaxClock /\ world \in [Keys -> [phase : {"none", "deleted"} \cup Alive, since : 0..MaxClock]]
    BY ExporterBounds DEF ExporterInv, ContentTypeOK
  <1>3. /\ clock' \in 0..MaxClock /\ WorldStep
        /\ world' \in [Keys -> [phase : {"none", "deleted"} \cup Alive, since : 0..MaxClock]]
        /\ \A k \in Keys : world'[k].since <= clock'
    <2>1. CASE Tick
      BY <1>2, <2>1, ExporterBounds DEF Tick, WorldStep, ExporterInv
    <2>2. ASSUME NEW k \in Keys, NEW before, NEW after \in {"deleted"} \cup Alive,
                 Becomes(k, before, after)
          PROVE  /\ clock' \in 0..MaxClock /\ WorldStep
                 /\ world' \in [Keys -> [phase : {"none", "deleted"} \cup Alive, since : 0..MaxClock]]
                 /\ \A j \in Keys : world'[j].since <= clock'
      <3>1. [phase |-> after, since |-> clock]
              \in [phase : {"none", "deleted"} \cup Alive, since : 0..MaxClock]
        BY <1>2
      <3>2. /\ world' = [world EXCEPT ![k] = [phase |-> after, since |-> clock]]
            /\ clock' = clock
        BY <2>2 DEF Becomes
      <3>3. world' \in [Keys -> [phase : {"none", "deleted"} \cup Alive, since : 0..MaxClock]]
        BY <1>2, <3>1, <3>2
      <3>4. \A j \in Keys : world'[j] = world[j] \/ world'[j].since = clock
        BY <1>2, <3>2
      <3> QED
        BY <1>2, <3>2, <3>3, <3>4 DEF WorldStep, ExporterInv
    <2>3. CASE WorldNext
      BY <2>2, <2>3 DEF WorldNext, Submit, Complete, Delete, Alive
    <2> QED
      BY <2>1, <2>3
  <1>4. ContentTypeOK'
    BY <1>0, <1>3 DEF ExporterInv, ContentTypeOK, Listed
  <1>5. ReferencedIsKnown'
    BY <1>0 DEF ExporterInv, ReferencedIsKnown, Referenced, storeVars, writerVars
  <1>6. \A ledger \in Ledgers' : LedgerIsSound(ledger)'
    BY <1>0, <1>3, LedgersStaySound DEF Ledgers
  <1>7. \A p \in Said' : PayloadIsSound(p)'
    BY <1>0, <1>3, SaidStaysSound DEF Said
  <1>8. \A w \in Writers : CycleIsSound(w)'
    BY <1>0, <1>3, CycleStaysSound DEF ExporterInv, writerVars
  <1> QED
    BY <1>1, <1>3, <1>4, <1>5, <1>6, <1>7, <1>8 DEF ExporterInv, Said

-----------------------------------------------------------------------------
(* Steps of the exporter.                                                  *)

(* An action that encodes nothing and leaves no cycle with more than it    *)
(* had: the contents of storage and of the other cycles are what they were.*)
LEMMA NothingSaid ==
    ASSUME ExporterInv, PublisherInv', ContentTypeOK', UNCHANGED <<clock, world, payload>>,
           EncodesNothing \/ UNCHANGED <<storeVars, writerVars>>,
           \A ledger \in Ledgers' : ledger \in Ledgers \/ ledger = {},
           \A w \in Writers : CycleIsSound(w)'
    PROVE  ExporterInv'
  <1>1. WorldStep
    BY StillWorld DEF ExporterInv
  <1>2. Referenced' \subseteq Referenced
    BY StepReferences DEF ExporterInv, Referenced, storeVars, writerVars
  <1>3. ReferencedIsKnown'
    BY <1>2 DEF ExporterInv, ReferencedIsKnown
  <1>4. \A ledger \in Ledgers' : LedgerIsSound(ledger)'
    BY <1>1, LedgersStaySound
  <1>5. \A p \in Said' : PayloadIsSound(p)'
    BY <1>1, SaidStaysSound DEF Said
  <1>6. \A k \in Keys : world'[k].since <= clock'
    BY DEF ExporterInv
  <1> QED
    BY <1>3, <1>4, <1>5, <1>6 DEF ExporterInv, Said

(* Actions with which writer w ends up without collected data.             *)
LEMMA HoldsNothing ==
    ASSUME ExporterInv, NEW w \in Writers, UNCHANGED <<clock, world, payload>>, EncodesNothing,
           \A v \in Writers \ {w} : phase'[v] = phase[v],
           phase'[w] # "compute",
           started' = started \/ started' = [started EXCEPT ![w] = clock],
           stats' = [stats EXCEPT ![w] = <<>>],
           rows' = [rows EXCEPT ![w] = {}],
           base' = [base EXCEPT ![w] = {}]
    PROVE  ExporterInv'
  <1>1. WorldStep
    BY StillWorld DEF ExporterInv
  <1>t. ContentTypeOK
    BY DEF ExporterInv
  <1>2. PublisherInv'
    BY EncodesNothingIsAStep, WriterStepSafe DEF ExporterInv
  <1>3. ContentTypeOK'
    <2>1. started' \in [Writers -> 0..MaxClock]
      BY <1>t DEF ContentTypeOK
    <2>2. stats' \in [Writers -> Seq(BOOLEAN)]
      BY <1>t DEF ContentTypeOK
    <2>3. \A v \in Writers : Len(stats'[v]) <= Len(ClusterOrder)
      <3>1. Len(<<>>) <= Len(ClusterOrder)
        BY ClustersAssumption
      <3> QED
        BY <1>t, <3>1 DEF ContentTypeOK, Listed
    <2>4. rows' \in [Writers -> SUBSET Rows] /\ base' \in [Writers -> SUBSET LedgerRows]
      BY <1>t DEF ContentTypeOK
    <2> QED
      BY <1>t, <2>1, <2>2, <2>3, <2>4 DEF ContentTypeOK, Listed
  <1>4. /\ stats'[w] = <<>> /\ rows'[w] = {} /\ base'[w] = {}
        /\ started'[w] \in Nat /\ started'[w] <= clock'
    BY <1>t, ExporterBounds DEF ContentTypeOK, ExporterInv, CycleIsSound
  <1>5. OthersWait(w)
    BY <1>t DEF OthersWait, ContentTypeOK
  <1>6. \A v \in Writers : CycleIsSound(v)'
    BY <1>1, <1>4, <1>5, OthersStaySound, OverIsSound DEF ExporterInv
  <1>7. \A ledger \in Ledgers' : ledger \in Ledgers \/ ledger = {}
    <2>1. \A v \in Writers : base'[v] = base[v] \/ base'[v] = {}
      BY <1>4, <1>5 DEF OthersWait
    <2> QED
      BY <2>1 DEF Ledgers
  <1> QED
    BY <1>2, <1>3, <1>6, <1>7, NothingSaid

(* A cycle outside its read and compute phases holds nothing anyway.       *)
LEMMA IdleHoldsNothing ==
    ASSUME ExporterInv, NEW w \in Writers, phase[w] \notin {"read", "compute"},
           UNCHANGED <<stats, rows, base>>
    PROVE  /\ stats' = [stats EXCEPT ![w] = <<>>]
           /\ rows' = [rows EXCEPT ![w] = {}]
           /\ base' = [base EXCEPT ![w] = {}]
  <1>1. stats[w] = <<>> /\ rows[w] = {} /\ base[w] = {}
    BY DEF ExporterInv, CycleIsSound
  <1>2. /\ stats \in [Writers -> Seq(BOOLEAN)]
        /\ rows \in [Writers -> SUBSET Rows]
        /\ base \in [Writers -> SUBSET LedgerRows]
    BY DEF ExporterInv, ContentTypeOK
  <1> QED
    BY <1>1, <1>2

LEMMA IdleSteps ==
    ASSUME ExporterInv, NEW w \in Writers,
           StartProcess(w) \/ StartCycle(w) \/ Upload(w) \/ UploadFails(w) \/ FinishCycle(w)
    PROVE  ExporterInv'
  <1>t. phase \in [Writers -> Phases]
    BY DEF ExporterInv, PublisherInv, WriterTypeOK
  <1>1. /\ phase[w] \notin {"read", "compute"} /\ phase'[w] # "compute"
        /\ \A v \in Writers \ {w} : phase'[v] = phase[v]
    BY <1>t DEF StartProcess, StartCycle, Upload, UploadFails, FinishCycle,
                Start, BeginCycle, Put, PutFails, GiveUp, Finish
  <1>2. EncodesNothing
    BY DEF StartProcess, StartCycle, Upload, UploadFails, FinishCycle, EncodesNothing
  <1>3. /\ UNCHANGED <<clock, world, payload, stats, rows, base>>
        /\ started' = started \/ started' = [started EXCEPT ![w] = clock]
    BY DEF StartProcess, StartCycle, Upload, UploadFails, FinishCycle, contentVars
  <1> QED
    BY <1>1, <1>2, <1>3, IdleHoldsNothing, HoldsNothing

LEMMA GivingUpSteps ==
    ASSUME ExporterInv, NEW w \in Writers,
           NothingAnswered(w) \/ DownloadFails(w) \/ LedgerUndecodable(w) \/ EncodeFails(w)
             \/ Die(w)
    PROVE  ExporterInv'
  <1>t. phase \in [Writers -> Phases]
    BY DEF ExporterInv, PublisherInv, WriterTypeOK
  <1>1. phase'[w] # "compute" /\ \A v \in Writers \ {w} : phase'[v] = phase[v]
    BY <1>t DEF NothingAnswered, DownloadFails, LedgerUndecodable, EncodeFails, Die,
                ReadFails, ReadUndecodable, ComputeFails, Crash, GiveUp
  <1>2. EncodesNothing
    BY DEF NothingAnswered, DownloadFails, LedgerUndecodable, EncodeFails, Die, EncodesNothing
  <1>3. /\ UNCHANGED <<clock, world, payload, started>>
        /\ stats' = [stats EXCEPT ![w] = <<>>]
        /\ rows' = [rows EXCEPT ![w] = {}]
        /\ base' = [base EXCEPT ![w] = {}]
    BY DEF NothingAnswered, DownloadFails, LedgerUndecodable, EncodeFails, Die,
           ForgetLocals, KeepWorld
  <1> QED
    BY <1>1, <1>2, <1>3, HoldsNothing

LEMMA LateStep == ASSUME ExporterInv, UploadLands PROVE ExporterInv'
  <1>1. EncodesNothing /\ UNCHANGED <<phase, contentVars>>
    BY DEF UploadLands, LateLanding, EncodesNothing
  <1>2. PublisherInv'
    BY <1>1, EncodesNothingIsAStep, WriterStepSafe DEF ExporterInv
  <1>3. ContentTypeOK'
    BY <1>1 DEF ExporterInv, ContentTypeOK, contentVars, Listed
  <1>4. \A w \in Writers : CycleIsSound(w)'
    BY <1>1, StillWorld, CycleStaysSound DEF ExporterInv, contentVars
  <1>5. Ledgers' = Ledgers
    BY <1>1 DEF Ledgers, contentVars
  <1> QED
    BY <1>1, <1>2, <1>3, <1>4, <1>5, NothingSaid DEF contentVars

-----------------------------------------------------------------------------
(* Listings.                                                               *)

LEMMA OrderOfClusters ==
    /\ Len(ClusterOrder) \in Nat /\ DOMAIN ClusterOrder = 1..Len(ClusterOrder)
    /\ \A i \in DOMAIN ClusterOrder : ClusterOrder[i] \in Clusters
    /\ \A i, j \in DOMAIN ClusterOrder : ClusterOrder[i] = ClusterOrder[j] => i = j
  BY ClustersAssumption

(* One more cluster has been asked.                                        *)
LEMMA Asked ==
    ASSUME ContentTypeOK, NEW w \in Writers, NEW ok \in BOOLEAN, ~ AllListed(w),
           stats' = [stats EXCEPT ![w] = Append(@, ok)]
    PROVE  /\ stats' \in [Writers -> Seq(BOOLEAN)]
           /\ \A v \in Writers : Len(stats'[v]) <= Len(ClusterOrder)
           /\ \A v \in Writers \ {w} : stats'[v] = stats[v]
           /\ Listed(w) + 1 \in DOMAIN ClusterOrder
           /\ ClusterOrder[Listed(w) + 1] \notin Answered(w)
           /\ Answered(w)' = Answered(w) \cup
                (IF ok THEN {ClusterOrder[Listed(w) + 1]} ELSE {})
  <1> DEFINE n == Len(stats[w])
  <1>1. stats \in [Writers -> Seq(BOOLEAN)] /\ stats[w] \in Seq(BOOLEAN)
    BY DEF ContentTypeOK
  <1>2. n \in Nat /\ n < Len(ClusterOrder) /\ DOMAIN stats[w] = 1..n
    BY <1>1, OrderOfClusters DEF ContentTypeOK, AllListed, Listed
  <1>3. stats'[w] = Append(stats[w], ok)
    BY <1>1
  <1>4. /\ stats'[w] \in Seq(BOOLEAN) /\ Len(stats'[w]) = n + 1
        /\ DOMAIN stats'[w] = 1..(n + 1)
        /\ stats'[w][n + 1] = ok
        /\ \A i \in 1..n : stats'[w][i] = stats[w][i]
    BY <1>1, <1>3
  <1>5. stats' \in [Writers -> Seq(BOOLEAN)] /\ \A v \in Writers \ {w} : stats'[v] = stats[v]
    BY <1>1, <1>4
  <1>6. \A v \in Writers : Len(stats'[v]) <= Len(ClusterOrder)
    BY <1>2, <1>4, <1>5, OrderOfClusters DEF ContentTypeOK, Listed
  <1>7. n + 1 \in DOMAIN ClusterOrder /\ \A i \in 1..n : i \in DOMAIN ClusterOrder
    BY <1>2, OrderOfClusters
  <1>8. ClusterOrder[n + 1] \notin Answered(w)
    <2> SUFFICES ASSUME NEW i \in DOMAIN stats[w], ClusterOrder[i] = ClusterOrder[n + 1]
                 PROVE  FALSE
      BY DEF Answered
    <2> QED
      BY <1>2, <1>7, OrderOfClusters
  <1>9. Answered(w)' = Answered(w) \cup (IF ok THEN {ClusterOrder[n + 1]} ELSE {})
    <2>1. {j \in DOMAIN stats'[w] : stats'[w][j]}
             = {j \in DOMAIN stats[w] : stats[w][j]} \cup (IF ok THEN {n + 1} ELSE {})
      BY <1>2, <1>4
    <2> QED
      BY <2>1 DEF Answered
  <1> QED
    BY <1>5, <1>6, <1>7, <1>8, <1>9 DEF Listed

LEMMA ListingRows ==
    ASSUME ContentTypeOK, NEW c \in Clusters, NEW row \in Listing(c)
    PROVE  /\ row \in Rows /\ row.cluster = c /\ row.uid # NoUid
           /\ Identity(row) \in Keys
           /\ world[Identity(row)].phase = row.columns /\ row.columns \in Alive
  <1>1. PICK k \in Keys : /\ k[1] = c /\ world[k].phase \in Alive
                          /\ row = [cluster |-> k[1], uid |-> k[2], columns |-> world[k].phase]
    BY DEF Listing
  <1>2. k = <<k[1], k[2]>> /\ k[1] \in Clusters /\ k[2] \in Uids /\ k[2] # NoUid
    BY ClustersAssumption DEF Keys
  <1>3. Identity(row) = k
    BY <1>1, <1>2 DEF Identity
  <1> QED
    BY <1>1, <1>2, <1>3 DEF Rows

LEMMA AnswerStep == ASSUME ExporterInv, NEW w \in Writers, ClusterAnswers(w) PROVE ExporterInv'
  <1> DEFINE c == ClusterOrder[Listed(w) + 1]
  <1>t. ContentTypeOK /\ CycleIsSound(w) /\ WorldStep
    BY StillWorld DEF ExporterInv, ClusterAnswers
  <1>0. UNCHANGED <<storeVars, writerVars, clock, world, started, base, payload>>
    BY DEF ClusterAnswers
  <1>1. /\ stats' \in [Writers -> Seq(BOOLEAN)]
        /\ \A v \in Writers : Len(stats'[v]) <= Len(ClusterOrder)
        /\ \A v \in Writers \ {w} : stats'[v] = stats[v]
        /\ Listed(w) + 1 \in DOMAIN ClusterOrder
        /\ c \notin Answered(w)
        /\ Answered(w)' = Answered(w) \cup {c}
    BY <1>t, Asked DEF ClusterAnswers
  <1>2. c \in Clusters
    BY <1>1, OrderOfClusters
  <1> HIDE DEF c
  <1>3. rows' = [rows EXCEPT ![w] = @ \cup Listing(c)]
    BY DEF ClusterAnswers, c
  <1>4. /\ rows' \in [Writers -> SUBSET Rows] /\ rows'[w] = rows[w] \cup Listing(c)
        /\ \A v \in Writers \ {w} : rows'[v] = rows[v]
    <2>1. Listing(c) \subseteq Rows
      BY <1>t, <1>2, ListingRows
    <2> QED
      BY <1>t, <1>3, <2>1 DEF ContentTypeOK
  <1>5. ContentTypeOK'
    BY <1>t, <1>0, <1>1, <1>4 DEF ContentTypeOK, Listed
  <1>6. PublisherInv'
    BY <1>0 DEF ExporterInv, PublisherInv, StoreTypeOK, WriterTypeOK, OneCyclePerId,
                CommittedIsSettled, Settled, MayLand, InCycle, IsPaired, storeVars, writerVars
  <1>7. \A v \in Writers \ {w} : CycleIsSound(v)'
    BY <1>t, <1>0, <1>1, <1>4, OthersStaySound DEF OthersWait, writerVars
  <1>8. CycleIsSound(w)'
    <2>1. phase'[w] = "read"
      BY <1>0 DEF ClusterAnswers, writerVars
    <2>2. started'[w] <= clock'
      BY <1>t, <1>0 DEF CycleIsSound
    <2>a. \A row \in rows[w] : row.cluster \in Answered(w)
      BY <1>t DEF CycleIsSound
    <2>3. ASSUME NEW a \in rows'[w], NEW b \in rows'[w], Identity(a) = Identity(b) PROVE a = b
      <3>1. a.cluster = b.cluster
        BY <2>3 DEF Identity
      <3>2. CASE a \in rows[w] /\ b \in rows[w]
        BY <1>t, <2>3, <3>2 DEF CycleIsSound
      <3>3. CASE a \in Listing(c) /\ b \in Listing(c)
        <4>1. /\ a = [cluster |-> a.cluster, uid |-> a.uid, columns |-> a.columns]
              /\ b = [cluster |-> b.cluster, uid |-> b.uid, columns |-> b.columns]
          BY <1>t, <1>2, <3>3, ListingRows DEF Rows
        <4>2. a.columns = b.columns
          BY <1>t, <1>2, <2>3, <3>3, ListingRows
        <4> QED
          BY <2>3, <4>1, <4>2 DEF Identity
      <3>4. CASE a \in rows[w] /\ b \in Listing(c)
        BY <1>t, <1>1, <1>2, <2>a, <3>1, <3>4, ListingRows
      <3>5. CASE a \in Listing(c) /\ b \in rows[w]
        BY <1>t, <1>1, <1>2, <2>a, <3>1, <3>5, ListingRows
      <3> QED
        BY <1>4, <3>2, <3>3, <3>4, <3>5
    <2>4. ASSUME NEW row \in rows'[w]
          PROVE  /\ row.cluster \in Answered(w)' /\ row.uid # NoUid
                 /\ world[Identity(row)].phase = "deleted"
                      => started[w] <= world[Identity(row)].since
      <3>1. CASE row \in rows[w]
        BY <1>t, <1>1, <3>1 DEF CycleIsSound
      <3>2. CASE row \in Listing(c)
        <4>1. world[Identity(row)].phase # "deleted"
          BY <1>t, <1>2, <3>2, ListingRows DEF Alive
        <4> QED
          BY <1>t, <1>1, <1>2, <3>2, <4>1, ListingRows
      <3> QED
        BY <1>4, <3>1, <3>2
    <2>5. NothingLeftOut(Answered(w), started[w], rows[w])'
      <3> SUFFICES ASSUME NEW k \in Keys, k[1] \in Answered(w)', world[k].phase \in Alive,
                          world[k].since < started[w]
                   PROVE  [cluster |-> k[1], uid |-> k[2], columns |-> world[k].phase] \in rows'[w]
        BY <1>0 DEF NothingLeftOut
      <3>1. CASE k[1] \in Answered(w)
        BY <1>t, <1>4, <3>1 DEF CycleIsSound, NothingLeftOut
      <3>2. CASE k[1] = c
        BY <1>4, <3>2 DEF Listing
      <3> QED
        BY <1>1, <3>1, <3>2
    <2> QED
      BY <1>0, <2>1, <2>2, <2>3, <2>4, <2>5 DEF CycleIsSound
  <1>9. Ledgers' = Ledgers
    BY <1>0 DEF Ledgers
  <1> QED
    BY <1>0, <1>5, <1>6, <1>7, <1>8, <1>9, NothingSaid

LEMMA OutageStep == ASSUME ExporterInv, NEW w \in Writers, ClusterFails(w) PROVE ExporterInv'
  <1>t. ContentTypeOK /\ CycleIsSound(w) /\ WorldStep
    BY StillWorld DEF ExporterInv, ClusterFails
  <1>0. UNCHANGED <<storeVars, writerVars, clock, world, started, rows, base, payload>>
    BY DEF ClusterFails
  <1>1. /\ stats' \in [Writers -> Seq(BOOLEAN)]
        /\ \A v \in Writers : Len(stats'[v]) <= Len(ClusterOrder)
        /\ \A v \in Writers \ {w} : stats'[v] = stats[v]
        /\ Answered(w)' = Answered(w)
    BY <1>t, Asked DEF ClusterFails
  <1>5. ContentTypeOK'
    BY <1>t, <1>0, <1>1 DEF ContentTypeOK, Listed
  <1>6. PublisherInv'
    BY <1>0 DEF ExporterInv, PublisherInv, StoreTypeOK, WriterTypeOK, OneCyclePerId,
                CommittedIsSettled, Settled, MayLand, InCycle, IsPaired, storeVars, writerVars
  <1>7. \A v \in Writers \ {w} : CycleIsSound(v)'
    BY <1>t, <1>0, <1>1, OthersStaySound DEF OthersWait, writerVars
  <1>8. CycleIsSound(w)'
    <2>1. phase'[w] = "read"
      BY <1>0 DEF ClusterFails, writerVars
    <2>2. NothingLeftOut(Answered(w), started[w], rows[w])'
      BY <1>t, <1>0, <1>1 DEF CycleIsSound, NothingLeftOut
    <2> QED
      BY <1>t, <1>0, <1>1, <2>1, <2>2 DEF CycleIsSound
  <1>9. Ledgers' = Ledgers
    BY <1>0 DEF Ledgers
  <1> QED
    BY <1>0, <1>5, <1>6, <1>7, <1>8, <1>9, NothingSaid

-----------------------------------------------------------------------------
(* The ledger read back, and the payloads.                                 *)

LEMMA StoredLedgerIsKnown == ASSUME ExporterInv PROVE StoredLedger \in Ledgers \cup {{}}
  <1>1. CASE store[Runs] \in Generations
    <2>1. store[Runs] \in Referenced
      BY DEF Referenced, Objects, Runs
    <2>2. store[Runs] \in DOMAIN payload
      BY <1>1, <2>1 DEF ExporterInv, ReferencedIsKnown
    <2> QED
      BY <1>1, <2>2 DEF StoredLedger, Ledgers
  <1>2. CASE store[Runs] \notin Generations
    BY <1>2 DEF StoredLedger, Ledgers
  <1> QED
    BY <1>1, <1>2

LEMMA DownloadStep == ASSUME ExporterInv, NEW w \in Writers, Download(w) PROVE ExporterInv'
  <1>t. /\ ContentTypeOK /\ CycleIsSound(w) /\ WorldStep
        /\ phase \in [Writers -> Phases]
    BY StillWorld DEF ExporterInv, PublisherInv, WriterTypeOK, Download
  <1>0. /\ UNCHANGED <<clock, world, started, stats, rows, payload>>
        /\ base' = [base EXCEPT ![w] = StoredLedger]
        /\ phase[w] = "read" /\ phase' = [phase EXCEPT ![w] = "compute"]
        /\ SomeAnswered(w) /\ EncodesNothing
    BY DEF Download, ReadCompletes, EncodesNothing
  <1>1. StoredLedger \in Ledgers \cup {{}}
    BY StoredLedgerIsKnown
  <1>2. /\ base' \in [Writers -> SUBSET LedgerRows] /\ base'[w] = StoredLedger
        /\ \A v \in Writers \ {w} : base'[v] = base[v] /\ phase'[v] = phase[v]
        /\ phase'[w] = "compute"
    <2>1. StoredLedger \in SUBSET LedgerRows
      BY <1>t, <1>1, LedgersTyped
    <2> QED
      BY <1>t, <1>0, <2>1 DEF ContentTypeOK
  <1>3. ContentTypeOK'
    BY <1>t, <1>0, <1>2 DEF ContentTypeOK, Listed
  <1>4. PublisherInv'
    BY <1>0, EncodesNothingIsAStep, WriterStepSafe DEF ExporterInv
  <1>5. \A v \in Writers \ {w} : CycleIsSound(v)'
    BY <1>t, <1>0, <1>2, OthersStaySound DEF OthersWait
  <1>6. CycleIsSound(w)'
    <2>1. NothingLeftOut(Answered(w), started[w], rows[w])'
      BY <1>t, <1>0 DEF CycleIsSound, NothingLeftOut, Answered
    <2>2. Answered(w)' = Answered(w) /\ SomeAnswered(w)'
      BY <1>0 DEF Answered, SomeAnswered
    <2> QED
      BY <1>t, <1>0, <1>2, <2>1, <2>2 DEF CycleIsSound
  <1>7. \A ledger \in Ledgers' : ledger \in Ledgers \/ ledger = {}
    BY <1>0, <1>1, <1>2 DEF Ledgers
  <1> QED
    BY <1>0, <1>3, <1>4, <1>5, <1>6, <1>7, NothingSaid

(* What a cycle encodes is sound.                                          *)
LEMMA EncodedIsSound ==
    ASSUME ExporterInv, NEW w \in Writers, phase[w] = "compute"
    PROVE  /\ Encoded(w) \in Payloads
           /\ LedgerIsSound(Encoded(w).runs)
           /\ PayloadIsSound(Encoded(w))
  <1> DEFINE new == Merge(base[w], rows[w], started[w])
  <1>t. /\ ContentTypeOK /\ CycleIsSound(w)
        /\ base[w] \in SUBSET LedgerRows /\ rows[w] \in SUBSET Rows
        /\ started[w] \in Nat /\ clock \in Nat /\ started[w] <= clock
    BY ExporterBounds DEF ExporterInv, ContentTypeOK, CycleIsSound
  <1>e. /\ Encoded(w).workflows = rows[w] /\ Encoded(w).runs = new
        /\ Encoded(w).generatedAt = started[w] /\ Encoded(w).ok = Answered(w)
    BY DEF Encoded
  <1>b. LedgerIsSound(base[w])
    BY DEF ExporterInv, Ledgers
  <1>1. new \in SUBSET LedgerRows
    BY <1>t, MergeTyped
  <1>2. Answered(w) \subseteq Clusters
    <2>1. stats[w] \in Seq(BOOLEAN) /\ Len(stats[w]) <= Len(ClusterOrder)
      BY <1>t DEF ContentTypeOK, Listed
    <2>2. DOMAIN stats[w] \subseteq DOMAIN ClusterOrder
      BY <2>1, OrderOfClusters
    <2> QED
      BY <2>2, OrderOfClusters DEF Answered
  <1>3. Encoded(w) \in Payloads
    BY <1>t, <1>1, <1>2 DEF Encoded, Payloads
  <1>o. OneRowEach(rows[w])
    BY <1>t DEF CycleIsSound, OneRowEach, Tracked
  <1>4. OneRowEach(new)
    BY <1>t, <1>b, <1>o, MergeOneRowEach DEF LedgerIsSound
  <1>5. ASSUME NEW row \in new
        PROVE  /\ row.last <= clock
               /\ Identity(row) \in Keys /\ world[Identity(row)].phase = "deleted"
                    => row.last <= world[Identity(row)].since
    <2>1. CASE row \in Tracked(base[w])
      BY <1>b, <2>1 DEF LedgerIsSound, SeenInTime, Tracked
    <2>2. ASSUME NEW seen \in Tracked(rows[w]),
                 row = Recorded(seen, Tracked(base[w]), started[w])
          PROVE  /\ row.last <= clock
                 /\ Identity(row) \in Keys /\ world[Identity(row)].phase = "deleted"
                      => row.last <= world[Identity(row)].since
      <3>1. seen \in rows[w] /\ seen \in Rows /\ Tracked(base[w]) \in SUBSET LedgerRows
        BY <1>t DEF Tracked
      <3>2. row.last = started[w] /\ Identity(row) = Identity(seen)
        BY <1>t, <2>2, <3>1, RecordedRow
      <3> QED
        BY <1>t, <3>1, <3>2 DEF CycleIsSound
    <2> QED
      BY <2>1, <2>2, MergeOrigin
  <1>6. LedgerIsSound(new)
    BY <1>4, <1>5 DEF LedgerIsSound, SeenInTime
  <1>7. OneAccount(Encoded(w))
    <2>1. Answered(w) # {}
      BY <1>t DEF CycleIsSound, SomeAnswered
    <2>2. ASSUME NEW row \in rows[w]
          PROVE  /\ row.cluster \in Answered(w)
                 /\ \E kept \in new : /\ Identity(kept) = Identity(row)
                                      /\ kept.columns = row.columns
                                      /\ kept.last = started[w]
      <3>1. row.cluster \in Answered(w) /\ row.uid # NoUid
        BY <1>t DEF CycleIsSound
      <3> QED
        BY <1>t, <3>1, MergeKeepsObserved
    <2> HIDE DEF new
    <2> QED
      BY <1>e, <2>1, <2>2 DEF OneAccount
  <1>8. PayloadIsSound(Encoded(w))
    BY <1>t, <1>e, <1>7 DEF PayloadIsSound, CycleIsSound
  <1> QED
    BY <1>3, <1>6, <1>8, <1>e

LEMMA EncodeStep == ASSUME ExporterInv, NEW w \in Writers, Encode(w) PROVE ExporterInv'
  <1> DEFINE kept == DOMAIN payload \cap Referenced
  <1>0. /\ UNCHANGED <<storeVars, gen, clock, world, started>>
        /\ phase[w] = "compute" /\ phase' = [phase EXCEPT ![w] = "publish"]
        /\ payload' = [g \in kept \cup {gen[w]} |->
                         IF g = gen[w] THEN Encoded(w) ELSE payload[g]]
        /\ stats' = [stats EXCEPT ![w] = <<>>]
        /\ rows' = [rows EXCEPT ![w] = {}]
        /\ base' = [base EXCEPT ![w] = {}]
    BY DEF Encode, ComputeCompletes, ForgetLocals
  <1>t. /\ ContentTypeOK /\ CycleIsSound(w) /\ WorldStep
        /\ phase \in [Writers -> Phases]
        /\ started[w] \in Nat /\ started[w] <= clock
    BY <1>0, StillWorld, ExporterBounds
    DEF ExporterInv, PublisherInv, WriterTypeOK, CycleIsSound, ContentTypeOK
  <1>p. PICK new \in Payloads :
           new = Encoded(w) /\ LedgerIsSound(new.runs) /\ PayloadIsSound(new)
    BY <1>0, EncodedIsSound
  <1>1. LedgerIsSound(new.runs)' /\ PayloadIsSound(new)' /\ LedgerIsSound({})'
    <2>1. new.runs \in SUBSET LedgerRows
      BY DEF Payloads
    <2> QED
      BY <1>t, <1>p, <2>1, LedgerStaysSound, PayloadStaysSound
      DEF LedgerIsSound, OneRowEach, Tracked, SeenInTime
  <1>2. /\ payload' = [g \in kept \cup {gen[w]} |-> IF g = gen[w] THEN new ELSE payload[g]]
        /\ DOMAIN payload' = kept \cup {gen[w]}
        /\ \A g \in DOMAIN payload' :
              payload'[g] = new \/ (g \in DOMAIN payload /\ payload'[g] = payload[g])
    <2>1. new = Encoded(w)
      BY <1>p
    <2>2. payload' = [g \in kept \cup {gen[w]} |-> IF g = gen[w] THEN new ELSE payload[g]]
      BY <1>0, <2>1, Zenon
    <2>3. kept \subseteq DOMAIN payload
      OBVIOUS
    <2> HIDE DEF kept
    <2>4. DOMAIN payload' = kept \cup {gen[w]}
      BY <2>2
    <2>5. \A g \in kept \cup {gen[w]} :
             payload'[g] = IF g = gen[w] THEN new ELSE payload[g]
      BY <2>2
    <2>6. ASSUME NEW g \in DOMAIN payload'
          PROVE  payload'[g] = new \/ (g \in DOMAIN payload /\ payload'[g] = payload[g])
      <3>1. CASE g = gen[w]
        BY <2>4, <2>5, <3>1
      <3>2. CASE g # gen[w]
        BY <2>3, <2>4, <2>5, <3>2
      <3> QED
        BY <3>1, <3>2
    <2> QED
      BY <2>2, <2>4, <2>6, Zenon
  <1> HIDE DEF kept
  <1>3. PublisherInv'
    <2>1. WriterNext
      BY DEF Encode, WriterNext, WriterProgress
    <2> QED
      BY <2>1, WriterStepSafe DEF ExporterInv
  <1>4. /\ stats'[w] = <<>> /\ rows'[w] = {} /\ base'[w] = {} /\ phase'[w] = "publish"
        /\ OthersWait(w)
    BY <1>t, <1>0 DEF ContentTypeOK, OthersWait
  <1>5. ContentTypeOK'
    <2>1. stats' \in [Writers -> Seq(BOOLEAN)]
      BY <1>t, <1>0 DEF ContentTypeOK
    <2>2. \A v \in Writers : Len(stats'[v]) <= Len(ClusterOrder)
      <3>1. Len(<<>>) <= Len(ClusterOrder)
        BY OrderOfClusters
      <3>2. \A v \in Writers : stats'[v] = <<>> \/ stats'[v] = stats[v]
        BY <1>4 DEF OthersWait
      <3> QED
        BY <1>t, <3>1, <3>2 DEF ContentTypeOK, Listed
    <2>3. rows' \in [Writers -> SUBSET Rows] /\ base' \in [Writers -> SUBSET LedgerRows]
      BY <1>t, <1>0 DEF ContentTypeOK
    <2>4. payload' \in [DOMAIN payload' -> Payloads]
      BY <1>t, <1>2 DEF ContentTypeOK
    <2> QED
      BY <1>t, <1>0, <2>1, <2>2, <2>3, <2>4 DEF ContentTypeOK, Listed
  <1>6. ReferencedIsKnown'
    <2>1. \A v \in Writers : phase'[v] = "publish" => phase[v] = "publish" \/ v = w
      BY <1>4 DEF OthersWait
    <2>2. Referenced' \subseteq Referenced \cup {gen[w]}
      BY <1>0, <2>1 DEF Referenced, storeVars
    <2> QED
      BY <1>2, <2>2 DEF ExporterInv, ReferencedIsKnown, kept
  <1>7. \A ledger \in Ledgers' : LedgerIsSound(ledger)'
    <2>1. \A v \in Writers : base'[v] = base[v] \/ base'[v] = {}
      BY <1>4 DEF OthersWait
    <2>2. \A ledger \in Ledgers' : ledger \in Ledgers \/ ledger = {} \/ ledger = new.runs
      <3>1. ASSUME NEW v \in Writers PROVE base'[v] \in Ledgers \cup {{}}
        BY <2>1 DEF Ledgers
      <3>2. ASSUME NEW g \in DOMAIN payload'
            PROVE  payload'[g].runs \in Ledgers \cup {new.runs}
        BY <1>2 DEF Ledgers
      <3>3. LegacyLedger \in Ledgers
        BY DEF Ledgers
      <3> QED
        BY <3>1, <3>2, <3>3 DEF Ledgers
    <2>3. ASSUME NEW ledger \in Ledgers PROVE LedgerIsSound(ledger)'
      BY <1>t, <2>3, LedgersTyped, LedgerStaysSound DEF ExporterInv
    <2> QED
      BY <1>1, <2>2, <2>3
  <1>8. \A p \in Said' : PayloadIsSound(p)'
    <2>1. \A p \in Said' : p \in Said \/ p = new
      BY <1>2 DEF Said
    <2>2. ASSUME NEW p \in Said PROVE PayloadIsSound(p)'
      BY <1>t, <2>2, SaidTyped, PayloadStaysSound DEF ExporterInv, Said
    <2> QED
      BY <1>1, <2>1, <2>2
  <1>9. \A v \in Writers : CycleIsSound(v)'
    <2>1. CycleIsSound(w)'
      BY <1>t, <1>0, <1>4, OverIsSound
    <2> QED
      BY <1>t, <1>4, <2>1, OthersStaySound
  <1>10. \A k \in Keys : world'[k].since <= clock'
    BY <1>0 DEF ExporterInv
  <1> QED
    BY <1>3, <1>5, <1>6, <1>7, <1>8, <1>9, <1>10 DEF ExporterInv, Said

-----------------------------------------------------------------------------

(* A run starts as its row says, of which there is one at most.            *)
LEMMA FirstPhases ==
    ASSUME NEW k \in Keys
    PROVE  /\ FirstPhase(k) \in {"none"} \cup Alive
           /\ FirstPhase(k) # "deleted"
           /\ \A row \in Tracked(OnRecord(k)) : FirstPhase(k) = row.columns
  <1>1. \A row \in OnRecord(k) : row \in LedgerRows /\ Identity(row) = k
    BY LegacyAssumption DEF OnRecord
  <1>2. \A row \in OnRecord(k) : row.columns \in Alive /\ row \in Tracked(LegacyLedger)
    BY <1>1, ClustersAssumption DEF LedgerRows, Tracked, Identity, OnRecord, Keys
  <1>3. \A a, b \in OnRecord(k) : a = b
    BY <1>1, <1>2, LegacyAssumption DEF OneRowEach
  <1>4. CASE OnRecord(k) = {}
    BY <1>4 DEF FirstPhase, Alive, Tracked
  <1>5. ASSUME NEW row \in OnRecord(k) PROVE FirstPhase(k) = row.columns
    <2>1. (CHOOSE r \in OnRecord(k) : TRUE) \in OnRecord(k)
      BY <1>5
    <2>2. (CHOOSE r \in OnRecord(k) : TRUE) = row
      BY <1>3, <2>1
    <2> QED
      BY <2>2 DEF FirstPhase
  <1> QED
    BY <1>2, <1>4, <1>5 DEF Alive, Tracked

LEMMA InitInv == Init => ExporterInv
  <1> SUFFICES ASSUME Init PROVE ExporterInv
    OBVIOUS
  <1> USE DEF Init, ContentInit
  <1>1. PublisherInv
    BY WriterInitSafe
  <1>2. clock = 0 /\ \A k \in Keys : world[k].since = 0 /\ world[k].phase # "deleted"
    <2>1. \A k \in Keys : world[k] = [phase |-> FirstPhase(k), since |-> 0]
      OBVIOUS
    <2> QED
      BY <2>1, FirstPhases
  <1>d. DOMAIN payload = {}
    OBVIOUS
  <1>3. ContentTypeOK
    <2>1. world \in [Keys -> [phase : {"none", "deleted"} \cup Alive, since : 0..MaxClock]]
      BY ExporterBounds, FirstPhases
    <2>2. \A w \in Writers : Listed(w) <= Len(ClusterOrder)
      BY OrderOfClusters DEF Listed
    <2>3. payload \in [DOMAIN payload -> Payloads]
      BY <1>d
    <2> QED
      BY <2>1, <2>2, <2>3, ExporterBounds DEF ContentTypeOK
  <1>4. ReferencedIsKnown
    <2>1. \A o \in Objects : store[o] \notin Generations
      BY Constants DEF StoreInit, Generations
    <2> QED
      BY <2>1 DEF ReferencedIsKnown, Referenced, StoreInit, WriterInit
  <1>5. ASSUME NEW ledger \in Ledgers PROVE LedgerIsSound(ledger)
    <2>1. ledger = LegacyLedger \/ ledger = {}
      BY <1>d DEF Ledgers
    <2> QED
      BY <1>2, <2>1, LegacyAssumption
      DEF LedgerIsSound, OneRowEach, Tracked, SeenInTime
  <1>6. ASSUME NEW w \in Writers PROVE CycleIsSound(w)
    <2>1. Answered(w) = {}
      BY DEF Answered
    <2> QED
      BY <2>1, ExporterBounds DEF CycleIsSound, NothingLeftOut, WriterInit
  <1> QED
    BY <1>1, <1>2, <1>d, <1>3, <1>4, <1>5, <1>6 DEF ExporterInv

LEMMA NextInv == ExporterInv /\ [Next]_vars => ExporterInv'
  <1> SUFFICES ASSUME ExporterInv, [Next]_vars PROVE ExporterInv'
    OBVIOUS
  <1>1. CASE Tick \/ WorldNext
    BY <1>1, EnvironmentStep
  <1>2. ASSUME NEW w \in Writers, CycleStep(w) PROVE ExporterInv'
    BY <1>2, IdleSteps, GivingUpSteps, AnswerStep, OutageStep, DownloadStep, EncodeStep
    DEF CycleStep
  <1>3. CASE UploadLands
    BY <1>3, LateStep
  <1>4. CASE UNCHANGED vars
    <2>1. PublisherInv'
      BY <1>4 DEF vars, ExporterInv, PublisherInv, StoreTypeOK, WriterTypeOK, OneCyclePerId,
                  CommittedIsSettled, Settled, MayLand, InCycle, IsPaired, storeVars, writerVars
    <2>2. ContentTypeOK'
      BY <1>4 DEF vars, ExporterInv, ContentTypeOK, contentVars, Listed
    <2>3. \A w \in Writers : CycleIsSound(w)'
      BY <1>4, StillWorld, CycleStaysSound DEF vars, ExporterInv, contentVars, writerVars
    <2>4. Ledgers' = Ledgers
      BY <1>4 DEF vars, Ledgers, contentVars
    <2> QED
      BY <1>4, <2>1, <2>2, <2>3, <2>4, NothingSaid DEF vars, contentVars
  <1> QED
    BY <1>1, <1>2, <1>3, <1>4 DEF Next

(* The inductive invariant holds: whatever ledger and whatever snapshot is *)
(* anywhere, in the locals of a cycle, on its way to storage or on it, is  *)
(* sound.                                                                  *)
THEOREM ContentInvariance == Spec => []ExporterInv
  <1>1. Init => ExporterInv
    BY InitInv
  <1>2. ExporterInv /\ [Next]_vars => ExporterInv'
    BY NextInv
  <1> QED
    BY <1>1, <1>2, PTL DEF Spec

(* Type correctness of the exporter with its contents.                     *)
THEOREM ContentTypeCorrect == Spec => []TypeOK
  <1>1. ExporterInv => TypeOK
    BY DEF ExporterInv, PublisherInv, TypeOK
  <1> QED
    BY <1>1, ContentInvariance, PTL

(* runs.parquet has one row per run, whatever overlaps, fails or lands     *)
(* late: ledger.merge identifies a run by cluster and uid.                 *)
THEOREM LedgerHasOneRowPerRun == Spec => []OneRowPerRun
  <1>1. ExporterInv => OneRowPerRun
    <2> SUFFICES ASSUME ExporterInv PROVE OneRowEach(StoredLedger)
      BY DEF OneRowPerRun
    <2> QED
      BY StoredLedgerIsKnown DEF ExporterInv, LedgerIsSound, OneRowEach, Tracked
  <1> QED
    BY <1>1, ContentInvariance, PTL

(* No ledger says that a run was still there after its deletion:           *)
(* generated_at is taken before the clusters are listed.                   *)
THEOREM SightingsAreInTime == Spec => []NoPosthumousSighting
  <1>1. ExporterInv => NoPosthumousSighting
    <2> SUFFICES ASSUME ExporterInv PROVE SeenInTime(StoredLedger)
      BY DEF NoPosthumousSighting
    <2> QED
      BY StoredLedgerIsKnown DEF ExporterInv, LedgerIsSound, SeenInTime
  <1> QED
    BY <1>1, ContentInvariance, PTL

(* What a published generation says.                                       *)
LEMMA SelectedIsSound == ASSUME ExporterInv, Publishing PROVE PayloadIsSound(Selected)
  <1>1. store[Meta] \in Generations /\ store[Meta] \in Referenced
    BY DEF Publishing, IsPaired, Referenced, Objects, Meta
  <1>2. store[Meta] \in DOMAIN payload
    BY <1>1 DEF ExporterInv, ReferencedIsKnown
  <1> QED
    BY <1>2 DEF ExporterInv, Selected

(* A run that a published snapshot leaves out of an available cluster is   *)
(* not there: a cluster that failed is never taken for an empty one.       *)
THEOREM AbsenceMeansGone == Spec => []AbsenceIsEvidence
  <1>1. ExporterInv => AbsenceIsEvidence
    BY SelectedIsSound DEF AbsenceIsEvidence, PayloadIsSound
  <1> QED
    BY <1>1, ContentInvariance, PTL

(* The snapshot and the ledger of a published generation agree, and no     *)
(* generation is published when no cluster answered.                       *)
THEOREM PublicationsCohere == Spec => []PublicationIsCoherent
  <1>1. ExporterInv => PublicationIsCoherent
    BY SelectedIsSound DEF PublicationIsCoherent, PayloadIsSound
  <1> QED
    BY <1>1, ContentInvariance, PTL

-----------------------------------------------------------------------------
(* The exporter with its contents implements the publication protocol.     *)

PublisherSpec == StoreInit /\ WriterInit /\ [][WriterNext]_<<storeVars, writerVars>>

LEMMA StepsOfPublisher ==
    ASSUME [Next]_vars PROVE WriterNext \/ UNCHANGED <<storeVars, writerVars>>
  <1>1. Tick \/ WorldNext \/ UNCHANGED vars => UNCHANGED <<storeVars, writerVars>>
    BY DEF Tick, WorldNext, Submit, Complete, Delete, Becomes, vars
  <1>2. ASSUME NEW w \in Writers, CycleStep(w)
        PROVE  WriterNext \/ UNCHANGED <<storeVars, writerVars>>
    BY <1>2 DEF CycleStep, StartProcess, StartCycle, ClusterAnswers, ClusterFails,
       NothingAnswered, DownloadFails, LedgerUndecodable, Download, EncodeFails, Encode, Upload,
       UploadFails, FinishCycle, Die, WriterNext, WriterProgress, WriterFault
  <1>3. UploadLands => WriterNext
    BY DEF UploadLands, WriterNext
  <1> QED
    BY <1>1, <1>2, <1>3 DEF Next

(* Every behaviour of Exporter is one of Publisher, if one looks at the    *)
(* prefix and at the progress of the cycles only: listings, the ledger and *)
(* the payloads narrow down what the protocol does and add nothing to it,  *)
(* so what Publication and its proofs say of the writers holds of a cycle  *)
(* with contents too.                                                      *)
THEOREM ContentsImplementPublisher == Spec => PublisherSpec
  <1>1. Init => StoreInit /\ WriterInit
    BY DEF Init
  <1>2. [Next]_vars => [WriterNext]_<<storeVars, writerVars>>
    BY StepsOfPublisher
  <1> QED
    BY <1>1, <1>2, PTL DEF Spec, PublisherSpec

=============================================================================
