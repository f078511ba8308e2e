------------------------------ MODULE Exporter ------------------------------
(***************************************************************************)
(* The poll-publish cycle with its contents: the clusters' workflows, the  *)
(* listings fetch_workflows takes one cluster after the other, the ledger  *)
(* read back from the prefix and folded forward, and what each generation  *)
(* says.  Every action that Publisher has is that action here, with what   *)
(* it reads or writes beside it, so the publication protocol is the one of *)
(* module Publisher and all that is proved or checked of it holds here.    *)
(***************************************************************************)
EXTENDS Publisher, Ledger, Sequences

CONSTANTS
    ClusterOrder,  \* CLUSTERS_JSON: a sequence of distinct cluster names
    Uids,          \* uids workflow objects may have, in any cluster
    LegacyLedger,  \* rows of a runs.parquet without a generation id
    MaxClock       \* bound on the clock

VARIABLES
    clock,         \* wall clock, in ticks
    world,         \* the Workflow objects of every cluster
    started,       \* generated_at of each writer's latest cycle
    stats,         \* cluster_stats[i].ok of the clusters listed so far
    rows,          \* the rows collected so far
    base,          \* the ledger downloaded in the read phase
    payload        \* what each generation's three objects say

contentVars == <<clock, world, started, stats, rows, base, payload>>

vars == <<storeVars, writerVars, contentVars>>

Clusters == {ClusterOrder[i] : i \in DOMAIN ClusterOrder}

Keys == Clusters \X Uids

Alive == {"Running", "Succeeded"}

Rows == [cluster : Clusters, uid : Uids \cup {NoUid}, columns : Alive]

LedgerRows ==
    [cluster : Clusters, uid : Uids \cup {NoUid}, columns : Alive, first : Int, last : Int]

OneRowEach(ledger) ==
    \A a, b \in Tracked(ledger) : Identity(a) = Identity(b) => a = b

ASSUME ClustersAssumption ==
    /\ ClusterOrder \in Seq(Clusters)
    /\ \A i, j \in DOMAIN ClusterOrder :
          ClusterOrder[i] = ClusterOrder[j] => i = j
    /\ NoUid \notin Uids
ASSUME LegacyAssumption ==
    /\ LegacyLedger \subseteq LedgerRows
    /\ OneRowEach(LegacyLedger)
    /\ \A row \in LegacyLedger : row.last <= 0
ASSUME ExporterBounds == MaxClock \in Nat

Payloads ==
    [workflows : SUBSET Rows, runs : SUBSET LedgerRows,
     generatedAt : Nat, ok : SUBSET Clusters]

(* What an earlier release has on record of a run.                         *)
OnRecord(k) ==
    {row \in LegacyLedger : store[Runs] = NoId /\ Identity(row) = k}

(* A run on record is still there at the start, as the record has it.      *)
FirstPhase(k) ==
    IF OnRecord(k) = {} THEN "none" ELSE (CHOOSE row \in OnRecord(k) : TRUE).columns

ContentInit ==
    /\ clock = 0
    /\ world = [k \in Keys |-> [phase |-> FirstPhase(k), since |-> 0]]
    /\ started = [w \in Writers |-> 0]
    /\ stats = [w \in Writers |-> <<>>]
    /\ rows = [w \in Writers |-> {}]
    /\ base = [w \in Writers |-> {}]
    /\ payload = <<>>

-----------------------------------------------------------------------------
(* The clusters, which nothing in the exporter coordinates with.           *)

Tick ==
    /\ clock < MaxClock
    /\ clock' = clock + 1
    /\ UNCHANGED <<storeVars, writerVars, world, started, stats, rows, base, payload>>

Becomes(k, before, after) ==
    /\ world[k].phase \in before
    /\ world' = [world EXCEPT ![k] = [phase |-> after, since |-> clock]]
    /\ UNCHANGED <<storeVars, writerVars, clock, started, stats, rows, base, payload>>

Submit(k) == Becomes(k, {"none"}, "Running")

Complete(k) == Becomes(k, {"Running"}, "Succeeded")

(* Argo's ttlStrategy, or an operator.                                     *)
Delete(k) == Becomes(k, Alive, "deleted")

WorldNext == \E k \in Keys : Submit(k) \/ Complete(k) \/ Delete(k)

-----------------------------------------------------------------------------
(* The exporter.                                                           *)

Listed(w) == Len(stats[w])

AllListed(w) == Listed(w) = Len(ClusterOrder)

Answered(w) == {ClusterOrder[i] : i \in {j \in DOMAIN stats[w] : stats[w][j]}}

SomeAnswered(w) == Answered(w) # {}

(* What a complete listing of cluster c says at this moment.               *)
Listing(c) ==
    {[cluster |-> k[1], uid |-> k[2], columns |-> world[k].phase] :
       k \in {key \in Keys : key[1] = c /\ world[key].phase \in Alive}}

(* What the prefix's runs.parquet says.                                    *)
StoredLedger ==
    IF store[Runs] \in Generations THEN payload[store[Runs]].runs
    ELSE IF store[Runs] = NoId THEN LegacyLedger
    ELSE {}

(* The cycle's locals are gone: it is over, or has encoded its payloads.   *)
ForgetLocals(w) ==
    /\ stats' = [stats EXCEPT ![w] = <<>>]
    /\ rows' = [rows EXCEPT ![w] = {}]
    /\ base' = [base EXCEPT ![w] = {}]

KeepWorld == UNCHANGED <<clock, world, started, payload>>

StartProcess(w) == Start(w) /\ UNCHANGED contentVars

(* generated_at is taken before anything is listed.                        *)
StartCycle(w) ==
    /\ BeginCycle(w)
    /\ started' = [started EXCEPT ![w] = clock]
    /\ UNCHANGED <<clock, world, stats, rows, base, payload>>

(* One turn of the loop of fetch_workflows.                                *)
ClusterAnswers(w) ==
    /\ phase[w] = "read"
    /\ ~ AllListed(w)
    /\ rows' = [rows EXCEPT ![w] = @ \cup Listing(ClusterOrder[Listed(w) + 1])]
    /\ stats' = [stats EXCEPT ![w] = Append(@, TRUE)]
    /\ UNCHANGED <<storeVars, writerVars, clock, world, started, base, payload>>

(* Mistake: a listing that failed passes for an empty one.                 *)
ClusterFails_IsEmpty(w) ==
    /\ phase[w] = "read"
    /\ ~ AllListed(w)
    /\ stats' = [stats EXCEPT ![w] = Append(@, TRUE)]
    /\ UNCHANGED <<storeVars, writerVars, clock, world, started, rows, base, payload>>

(* A failed page, a malformed page or one malformed object: the cluster    *)
(* contributes nothing.  An outage of every cluster is one of the counted  *)
(* failures.                                                               *)
ClusterFails(w) ==
    /\ phase[w] = "read"
    /\ ~ AllListed(w)
    /\ \/ SomeAnswered(w)
       \/ Listed(w) + 1 < Len(ClusterOrder)
       \/ FaultsLeft
    /\ stats' = [stats EXCEPT ![w] = Append(@, FALSE)]
    /\ UNCHANGED <<storeVars, writerVars, clock, world, started, rows, base, payload>>

(* The cycle returns False and leaves every object alone.                  *)
NothingAnswered(w) ==
    /\ AllListed(w)
    /\ ~ SomeAnswered(w)
    /\ ReadFails(w)
    /\ ForgetLocals(w) /\ KeepWorld

DownloadFails(w) ==
    /\ AllListed(w)
    /\ SomeAnswered(w)
    /\ ReadFails(w)
    /\ ForgetLocals(w) /\ KeepWorld

LedgerUndecodable(w) ==
    /\ AllListed(w)
    /\ SomeAnswered(w)
    /\ ReadUndecodable(w)
    /\ ForgetLocals(w) /\ KeepWorld

(* Mistake: an outage of every cluster does not stop the cycle.            *)
Download_WithoutAnAnswer(w) ==
    /\ AllListed(w)
    /\ ReadCompletes(w)
    /\ base' = [base EXCEPT ![w] = StoredLedger]
    /\ UNCHANGED <<clock, world, started, stats, rows, payload>>

Download(w) ==
    /\ AllListed(w)
    /\ SomeAnswered(w)
    /\ ReadCompletes(w)
    /\ base' = [base EXCEPT ![w] = StoredLedger]
    /\ UNCHANGED <<clock, world, started, stats, rows, payload>>

EncodeFails(w) == ComputeFails(w) /\ ForgetLocals(w) /\ KeepWorld

(* Mistake: observations are dated when they are encoded.                  *)
Encoded_DatedLate(w) ==
    [workflows |-> rows[w],
     runs |-> Merge(base[w], rows[w], clock),
     generatedAt |-> clock,
     ok |-> Answered(w)]

(* The three payloads of the cycle.                                        *)
Encoded(w) ==
    [workflows |-> rows[w],
     runs |-> Merge(base[w], rows[w], started[w]),
     generatedAt |-> started[w],
     ok |-> Answered(w)]

(* Generations that something on storage, or on its way there, is part of. *)
Referenced ==
    {store[o] : o \in Objects} \cup {put[2] : put \in late}
      \cup {gen[w] : w \in {v \in Writers : phase[v] = "publish"}}

Encode(w) ==
    /\ ComputeCompletes(w)
    /\ payload' = [g \in (DOMAIN payload \cap Referenced) \cup {gen[w]} |->
                     IF g = gen[w] THEN Encoded(w) ELSE payload[g]]
    /\ ForgetLocals(w)
    /\ UNCHANGED <<clock, world, started>>

Upload(w) == Put(w) /\ UNCHANGED contentVars

UploadFails(w) == PutFails(w) /\ UNCHANGED contentVars

FinishCycle(w) == Finish(w) /\ UNCHANGED contentVars

Die(w) == Crash(w) /\ ForgetLocals(w) /\ KeepWorld

UploadLands == LateLanding /\ UNCHANGED contentVars

CycleStep(w) ==
    \/ StartProcess(w)
    \/ StartCycle(w)
    \/ ClusterAnswers(w)
    \/ ClusterFails(w)
    \/ NothingAnswered(w)
    \/ DownloadFails(w)
    \/ LedgerUndecodable(w)
    \/ Download(w)
    \/ EncodeFails(w)
    \/ Encode(w)
    \/ Upload(w)
    \/ UploadFails(w)
    \/ FinishCycle(w)
    \/ Die(w)

Init == StoreInit /\ WriterInit /\ ContentInit

Next ==
    \/ Tick
    \/ WorldNext
    \/ \E w \in Writers : CycleStep(w)
    \/ UploadLands

Spec == Init /\ [][Next]_vars

-----------------------------------------------------------------------------

ContentTypeOK ==
    /\ clock \in 0..MaxClock
    /\ world \in [Keys -> [phase : {"none", "deleted"} \cup Alive, since : 0..MaxClock]]
    /\ started \in [Writers -> 0..MaxClock]
    /\ stats \in [Writers -> Seq(BOOLEAN)]
    /\ \A w \in Writers : Listed(w) <= Len(ClusterOrder)
    /\ rows \in [Writers -> SUBSET Rows]
    /\ base \in [Writers -> SUBSET LedgerRows]
    /\ payload \in [DOMAIN payload -> Payloads]

TypeOK == StoreTypeOK /\ WriterTypeOK /\ ContentTypeOK

(* The publication under way or finished that readers would select now.    *)
Selected == payload[store[Meta]]

Publishing == IsPaired(store)

(* A ledger has one row per run, although uids repeat across clusters.     *)
OneRowPerRun == OneRowEach(StoredLedger)

(* One writer: a run on record stays on record, through failed and torn    *)
(* publications, crashes and outages of its cluster, until the retention   *)
(* period has gone by since it was last seen; its first sighting never     *)
(* changes, its last one never moves back, and a success stays one.        *)
LedgerNeverForgets ==
    [][\A old \in Tracked(StoredLedger) :
         \/ \E new \in StoredLedger' :
              /\ Identity(new) = Identity(old)
              /\ old.columns = "Succeeded" => new.columns = "Succeeded"
              /\ new.first = old.first
              /\ new.last >= old.last
         \/ \E w \in Writers : old.last < Cutoff(started[w])]_vars

SeenInTime(ledger) ==
    \A row \in ledger :
        LET k == Identity(row)
        IN  k \in Keys /\ world[k].phase = "deleted" => row.last <= world[k].since

(* A last sighting is never later than the run's deletion: generated_at is *)
(* taken before the listings, so a ledger never claims that a run was      *)
(* still there after it was gone.                                          *)
NoPosthumousSighting == SeenInTime(StoredLedger)

(* snapshot has every run that one of clusters ok has held unchanged since *)
(* before generatedAt.                                                     *)
NothingLeftOut(ok, generatedAt, snapshot) ==
    \A k \in Keys :
        k[1] \in ok /\ world[k].phase \in Alive /\ world[k].since < generatedAt
        => [cluster |-> k[1], uid |-> k[2], columns |-> world[k].phase] \in snapshot

(* What a published snapshot leaves out is not there: a run that an        *)
(* available cluster has held unchanged since before generated_at is in    *)
(* the snapshot, and in the phase it has.                                  *)
AbsenceIsEvidence ==
    Publishing => NothingLeftOut(Selected.ok, Selected.generatedAt, Selected.workflows)

OneAccount(p) ==
    /\ p.ok # {}
    /\ \A row \in p.workflows :
          /\ row.cluster \in p.ok
          /\ \E kept \in p.runs :
               /\ Identity(kept) = Identity(row)
               /\ kept.columns = row.columns
               /\ kept.last = p.generatedAt

(* A published generation is one account of one instant: every row of the  *)
(* snapshot is in the ledger with the same phase and last seen at          *)
(* generated_at, no cluster that failed has a row in the snapshot, and at  *)
(* least one cluster answered.                                             *)
PublicationIsCoherent == Publishing => OneAccount(Selected)

(* One writer: a cluster that failed leaves its part of the history as it  *)
(* was.  Whatever a new ledger says of it, the old one said.               *)
OutageIsNoSighting ==
    [][store'[Runs] # store[Runs] =>
         \A row \in StoredLedger' :
            row.cluster \notin payload[store'[Runs]].ok => row \in StoredLedger]_vars

(* What ledger.merge's docstring says of long-running workflows: one that  *)
(* is on record and still running stays on record however long that is.    *)
(* It does not hold when its cluster cannot be reached for the retention   *)
(* period while another cluster keeps the cycles publishing.               *)
RunningRunsAreKept ==
    [][\A old \in StoredLedger :
         Identity(old) \in Keys /\ world[Identity(old)].phase = "Running"
         => \E new \in StoredLedger' : Identity(new) = Identity(old)]_vars

-----------------------------------------------------------------------------

(* Why they hold, for any number of writers: the inductive invariant.  It  *)
(* says of every ledger and every payload, wherever one is held, what the  *)
(* properties say of those that are published.                             *)

Ledgers ==
    {LegacyLedger} \cup {base[w] : w \in Writers} \cup {payload[g].runs : g \in DOMAIN payload}

LedgerIsSound(ledger) ==
    /\ OneRowEach(ledger)
    /\ \A row \in ledger : row.last <= clock
    /\ SeenInTime(ledger)

PayloadIsSound(p) ==
    /\ p.generatedAt <= clock
    /\ NothingLeftOut(p.ok, p.generatedAt, p.workflows)
    /\ OneAccount(p)

(* What a cycle has collected so far.                                      *)
CycleIsSound(w) ==
    /\ phase[w] \notin {"read", "compute"} => stats[w] = <<>> /\ rows[w] = {} /\ base[w] = {}
    /\ phase[w] = "compute" => SomeAnswered(w)
    /\ started[w] <= clock
    /\ \A a, b \in rows[w] : Identity(a) = Identity(b) => a = b
    /\ \A row \in rows[w] :
          /\ row.cluster \in Answered(w) /\ row.uid # NoUid
          /\ world[Identity(row)].phase = "deleted"
                => started[w] <= world[Identity(row)].since
    /\ NothingLeftOut(Answered(w), started[w], rows[w])

(* Nothing is on storage, or on its way there, whose contents are unknown. *)
ReferencedIsKnown == Referenced \cap Generations \subseteq DOMAIN payload

ExporterInv ==
    /\ PublisherInv
    /\ ContentTypeOK
    /\ \A k \in Keys : world[k].since <= clock
    /\ ReferencedIsKnown
    /\ \A ledger \in Ledgers : LedgerIsSound(ledger)
    /\ \A p \in {payload[g] : g \in DOMAIN payload} : PayloadIsSound(p)
    /\ \A w \in Writers : CycleIsSound(w)

=============================================================================
