----------------------------- MODULE Publisher -----------------------------
(***************************************************************************)
(* The exporter's poll loop, src/main.py, as the object store sees it: the *)
(* read, compute and publish phases of _run_cycle, every place at which    *)
(* one of them gives up, and a crash between any two steps.  What a cycle  *)
(* reads and folds is the subject of module Exporter.                      *)
(*                                                                         *)
(* The deployment runs one writer per prefix.  Writers is a set so that    *)
(* the single-writer contract can also be broken on purpose.               *)
(***************************************************************************)
EXTENDS ObjectStore

CONSTANTS
    Writers,       \* exporter processes that share the prefix
    LatePuts,      \* may a PUT land after its client gave up on it
    MaxCycles,     \* bound on the cycles begun by all writers together
    MaxFaults,     \* bound on the failures and crashes
    QuietEnd       \* is the last cycle of a bounded run left to itself

VARIABLES
    phase,         \* what each writer is doing
    gen,           \* the generation id of its latest cycle
    published,     \* len(published): uploads of that cycle that returned
    report,        \* the failure record of its latest cycle
    heartbeat,     \* the generation of its latest record_success
    cycles,        \* cycles begun so far; the source of fresh ids
    faults         \* failures so far

writerVars == <<phase, gen, published, report, heartbeat, cycles, faults>>

Phases == {"down", "wait", "read", "compute", "publish"}

(* What _annotate_cycle_failure keeps: the phase that failed and how many  *)
(* of the three objects it calls published.                                *)
NoReport == [phase |-> "none", published |-> 0]
Reports == [phase : {"none", "read", "compute", "publish"}, published : 0..3]

ASSUME WritersAssumption == Writers # {} /\ LatePuts \in BOOLEAN
ASSUME BoundsAssumption ==
    MaxCycles \in Nat /\ MaxFaults \in Nat /\ QuietEnd \in BOOLEAN

WriterTypeOK ==
    /\ phase \in [Writers -> Phases]
    /\ gen \in [Writers -> Nat]
    /\ published \in [Writers -> 0..3]
    /\ report \in [Writers -> Reports]
    /\ heartbeat \in [Writers -> Nat]
    /\ cycles \in Nat
    /\ faults \in Nat

WriterInit ==
    /\ phase = [w \in Writers |-> "down"]
    /\ gen = [w \in Writers |-> 0]
    /\ published = [w \in Writers |-> 0]
    /\ report = [w \in Writers |-> NoReport]
    /\ heartbeat = [w \in Writers |-> 0]
    /\ cycles = 0
    /\ faults = 0

(* With QuietEnd, a bounded run says what happens once failures cease.     *)
NotYetQuiet == QuietEnd => cycles < MaxCycles

FaultsLeft == faults < MaxFaults /\ NotYetQuiet

FaultAllowed == FaultsLeft /\ faults' = faults + 1

-----------------------------------------------------------------------------

(* main: a fresh process has no heartbeat and starts with a cycle.         *)
Start(w) ==
    /\ phase[w] = "down"
    /\ phase' = [phase EXCEPT ![w] = "wait"]
    /\ heartbeat' = [heartbeat EXCEPT ![w] = 0]
    /\ report' = [report EXCEPT ![w] = NoReport]
    /\ UNCHANGED <<gen, published, cycles, faults, storeVars>>

(* Mistake: no random suffix, two cycles of one second share an id.        *)
BeginCycle_IdFromClock(w) ==
    /\ phase[w] = "wait"
    /\ cycles < MaxCycles
    /\ cycles' = cycles + 1
    /\ gen' = [gen EXCEPT ![w] = cycles \div 2 + 1]
    /\ published' = [published EXCEPT ![w] = 0]
    /\ report' = [report EXCEPT ![w] = NoReport]
    /\ phase' = [phase EXCEPT ![w] = "read"]
    /\ UNCHANGED <<heartbeat, faults, storeVars>>

(* Mistake: the list of uploads survives the cycle it belongs to.          *)
BeginCycle_KeepsList(w) ==
    /\ phase[w] = "wait"
    /\ cycles < MaxCycles
    /\ cycles' = cycles + 1
    /\ gen' = [gen EXCEPT ![w] = cycles + 1]
    /\ report' = [report EXCEPT ![w] = NoReport]
    /\ phase' = [phase EXCEPT ![w] = "read"]
    /\ UNCHANGED <<published, heartbeat, faults, storeVars>>

(* The top of _run_cycle.  The random suffix makes the id fresh.           *)
BeginCycle(w) ==
    /\ phase[w] = "wait"
    /\ cycles < MaxCycles
    /\ cycles' = cycles + 1
    /\ gen' = [gen EXCEPT ![w] = cycles + 1]
    /\ published' = [published EXCEPT ![w] = 0]
    /\ report' = [report EXCEPT ![w] = NoReport]
    /\ phase' = [phase EXCEPT ![w] = "read"]
    /\ UNCHANGED <<heartbeat, faults, storeVars>>

(* Mistake: the upload that raised is counted as published.                *)
GiveUp_CountsFailedUpload(w) ==
    /\ report' = [report EXCEPT ![w] = [phase |-> phase[w],
                                        published |-> published[w] + 1]]
    /\ phase' = [phase EXCEPT ![w] = "wait"]
    /\ UNCHANGED <<gen, published, heartbeat, cycles>>

(* Mistake: a failed cycle ends the poll loop, the process lives on.       *)
GiveUp_EndsLoop(w) ==
    /\ report' = [report EXCEPT ![w] = [phase |-> phase[w],
                                        published |-> published[w]]]
    /\ phase' = [phase EXCEPT ![w] = "ended"]
    /\ UNCHANGED <<gen, published, heartbeat, cycles>>

(* The cycle is over without success: _run_cycle returned False or raised  *)
(* with a failure record, and the loop goes back to its wait.              *)
GiveUp(w) ==
    /\ report' = [report EXCEPT ![w] = [phase |-> phase[w],
                                        published |-> published[w]]]
    /\ phase' = [phase EXCEPT ![w] = "wait"]
    /\ UNCHANGED <<gen, published, heartbeat, cycles>>

(* The stored ledger cannot be decoded: no fault of the environment has to *)
(* recur, every later cycle meets the same bytes.                          *)
ReadUndecodable(w) ==
    /\ phase[w] = "read"
    /\ store[Runs] = Corrupt
    /\ GiveUp(w)
    /\ UNCHANGED <<faults, storeVars>>

(* No cluster answered, or the ledger download raised.                     *)
ReadFails(w) ==
    /\ phase[w] = "read"
    /\ FaultAllowed
    /\ GiveUp(w)
    /\ UNCHANGED storeVars

(* Mistake: a ledger that cannot be decoded passes for an empty one.       *)
ReadCompletes_DamagedIsEmpty(w) ==
    /\ phase[w] = "read"
    /\ phase' = [phase EXCEPT ![w] = "compute"]
    /\ UNCHANGED <<gen, published, report, heartbeat, cycles, faults, storeVars>>

(* At least one cluster answered and the ledger, if there is one, was      *)
(* decoded; a missing object is an empty ledger, a missing id no obstacle. *)
ReadCompletes(w) ==
    /\ phase[w] = "read"
    /\ store[Runs] # Corrupt
    /\ phase' = [phase EXCEPT ![w] = "compute"]
    /\ UNCHANGED <<gen, published, report, heartbeat, cycles, faults, storeVars>>

(* merge, an encoder or meta_schema.validate raised.                       *)
ComputeFails(w) ==
    /\ phase[w] = "compute"
    /\ FaultAllowed
    /\ GiveUp(w)
    /\ UNCHANGED storeVars

ComputeCompletes(w) ==
    /\ phase[w] = "compute"
    /\ phase' = [phase EXCEPT ![w] = "publish"]
    /\ UNCHANGED <<gen, published, report, heartbeat, cycles, faults, storeVars>>

(* Mistake: the commit marker is uploaded first.                           *)
Put_MarkerFirst(w) ==
    /\ phase[w] = "publish"
    /\ published[w] < 3
    /\ Overwrite(3 - published[w], gen[w])
    /\ published' = [published EXCEPT ![w] = @ + 1]
    /\ UNCHANGED <<phase, gen, report, heartbeat, cycles, faults, late>>

(* One turn of the upload loop.                                            *)
Put(w) ==
    /\ phase[w] = "publish"
    /\ published[w] < 3
    /\ Overwrite(published[w] + 1, gen[w])
    /\ published' = [published EXCEPT ![w] = @ + 1]
    /\ UNCHANGED <<phase, gen, report, heartbeat, cycles, faults, late>>

(* What becomes of a request whose client has stopped listening: it never  *)
(* took effect, it had (the answer was lost), or it will.  The attempts    *)
(* that the SDK makes for one upload are one request here: that one of     *)
(* them lands after another has been answered is left out.                 *)
Unanswered(o, g) ==
    \/ UNCHANGED storeVars
    \/ Overwrite(o, g) /\ UNCHANGED late
    \/ LatePuts /\ late' = late \cup {<<o, g>>} /\ UNCHANGED <<store, committed, current>>

(* upload_bytes raised, the SDK's own retries exhausted.                   *)
PutFails(w) ==
    /\ phase[w] = "publish"
    /\ published[w] < 3
    /\ FaultAllowed
    /\ GiveUp(w)
    /\ Unanswered(published[w] + 1, gen[w])

(* Mistake: success is recorded once the data objects are in place.        *)
Finish_BeforeMarker(w) ==
    /\ phase[w] = "publish"
    /\ published[w] >= 2
    /\ heartbeat' = [heartbeat EXCEPT ![w] = gen[w]]
    /\ phase' = [phase EXCEPT ![w] = "wait"]
    /\ UNCHANGED <<gen, published, report, cycles, faults, storeVars>>

(* _run_cycle returned True and the loop calls record_success.             *)
Finish(w) ==
    /\ phase[w] = "publish"
    /\ published[w] = 3
    /\ heartbeat' = [heartbeat EXCEPT ![w] = gen[w]]
    /\ phase' = [phase EXCEPT ![w] = "wait"]
    /\ UNCHANGED <<gen, published, report, cycles, faults, storeVars>>

(* The process dies; a request it had sent may still have its effect.      *)
Crash(w) ==
    /\ phase[w] # "down"
    /\ FaultAllowed
    /\ phase' = [phase EXCEPT ![w] = "down"]
    /\ IF phase[w] = "publish" /\ published[w] < 3
         THEN Unanswered(published[w] + 1, gen[w])
         ELSE UNCHANGED storeVars
    /\ UNCHANGED <<gen, published, report, heartbeat, cycles>>

(* The failure that a late PUT belongs to has been counted already.        *)
LateLanding ==
    /\ NotYetQuiet
    /\ \E put \in late : Land(put)
    /\ UNCHANGED <<phase, gen, published, report, heartbeat, cycles, faults>>

WriterProgress(w) ==
    \/ Start(w)
    \/ BeginCycle(w)
    \/ ReadUndecodable(w)
    \/ ReadCompletes(w)
    \/ ComputeCompletes(w)
    \/ Put(w)
    \/ Finish(w)

WriterFault(w) ==
    \/ ReadFails(w)
    \/ ComputeFails(w)
    \/ PutFails(w)
    \/ Crash(w)

WriterNext ==
    \/ \E w \in Writers : WriterProgress(w) \/ WriterFault(w)
    \/ LateLanding

-----------------------------------------------------------------------------

(* What writers keep, whatever else happens: part of the inductive         *)
(* invariants of Publication and Exporter.                                 *)

InCycle(w) == phase[w] \in {"read", "compute", "publish"}

(* A PUT of generation g to object o may still take effect.                *)
MayLand(o, g) ==
    \/ <<o, g>> \in late
    \/ \E w \in Writers : InCycle(w) /\ gen[w] = g /\ published[w] < o

(* Generation g has been begun and none of its PUTs is to come.            *)
Settled(g) == g <= cycles /\ \A o \in Objects : ~ MayLand(o, g)

(* No two cycles share an id, and a cycle that gave up has at most one PUT *)
(* on its way.                                                             *)
OneCyclePerId ==
    /\ \A w \in Writers : gen[w] <= cycles /\ (InCycle(w) => gen[w] > 0)
    /\ \A v, w \in Writers : InCycle(v) /\ InCycle(w) /\ gen[v] = gen[w] => v = w
    /\ \A put \in late :
          /\ put[2] <= cycles
          /\ \A w \in Writers : InCycle(w) => gen[w] # put[2]
          /\ \A other \in late : other[2] = put[2] => other = put

(* Whatever has a marker on storage, and whatever was once whole, is       *)
(* settled; the ghosts agree with the store.                               *)
CommittedIsSettled ==
    /\ store[Meta] \in Generations => Settled(store[Meta])
    /\ \A g \in committed : Settled(g)
    /\ current # Absent => current \in committed
    /\ IsPaired(store) => current = store[Meta] /\ current \in committed

PublisherInv ==
    /\ StoreTypeOK
    /\ WriterTypeOK
    /\ OneCyclePerId
    /\ CommittedIsSettled

-----------------------------------------------------------------------------

(* What holds besides for one writer, whose PUTs have their effect while   *)
(* it waits for the answer, or never.                                      *)
SoleWriter == ~ LatePuts /\ \A v, w \in Writers : v = w

(* The order in which one writer's ids were made: objects without an id    *)
(* are older than all of them.                                             *)
Age(content) == IF content \in Generations THEN content ELSE 0

(* One writer: along the order of the uploads the objects only get older,  *)
(* so a reader that starts at the marker never finds data that the marker  *)
(* has yet to describe missing, only data that outran it.                  *)
DataNeverBehindMarker ==
    /\ Age(store[Workflows]) >= Age(store[Runs])
    /\ Age(store[Runs]) >= Age(store[Meta])

(* One writer: record_success is called only for a generation that readers *)
(* could find whole, so the health endpoint never vouches for a torn one.  *)
HeartbeatIsCommitted ==
    \A w \in Writers : heartbeat[w] # 0 => heartbeat[w] \in committed

(* The objects that carry the id of the latest cycle of w.                 *)
Landed(w) == {o \in Objects : store[o] = gen[w]}

Failed(w) == phase[w] \in {"wait", "down"} /\ report[w] # NoReport

(* One writer: the failure record is off by the upload that failed at most *)
(* (its PUT may have taken effect and its answer been lost, and then the   *)
(* record calls skipped what is on storage), and never claims an object    *)
(* that is not there.                                                      *)
ReportIsOffByAtMostOne ==
    \A w \in Writers :
        Failed(w) => \E n \in {report[w].published, report[w].published + 1} :
                        Landed(w) = 1..n

(* What the one-writer properties rest on.  The writer's account of its    *)
(* latest cycle is true: no id is younger, while the cycle lasts the       *)
(* prefix carries its id exactly where an upload returned, and no failure  *)
(* is on record yet.                                                       *)
AccountIsTrue(w) ==
    /\ gen[w] = cycles
    /\ InCycle(w) => Landed(w) = 1..published[w] /\ report[w] = NoReport
    /\ phase[w] \in {"read", "compute"} => published[w] = 0

OneWriterInv ==
    /\ late = {}
    /\ \A o \in Objects : Age(store[o]) <= cycles
    /\ \A g \in committed : g <= Age(current)
    /\ \A w \in Writers : AccountIsTrue(w)
    /\ DataNeverBehindMarker
    /\ HeartbeatIsCommitted
    /\ ReportIsOffByAtMostOne

=============================================================================
