----------------------------- MODULE MCExporter -----------------------------
(***************************************************************************)
(* Small instances of Exporter for TLC.                                    *)
(***************************************************************************)
EXTENDS Exporter, TLC

CONSTANTS c1, c2, u1

TwoClusters == <<c1, c2>>

EmptyStore == [o \in Objects |-> Absent]
LegacyStore == [o \in Objects |-> NoId]
ReadableStore == {EmptyStore, LegacyStore}
DamagedStore == [LegacyStore EXCEPT ![Runs] = Corrupt]
UsedStore == {LegacyStore, DamagedStore}
OnlyEmpty == {EmptyStore}

WriterSymmetry == Permutations(Writers)

(* Rows of an earlier release: one about to leave the retention period,    *)
(* one of a finished run and one without a uid.                            *)
OldRows ==
    {[cluster |-> c1, uid |-> u1, columns |-> "Running", first |-> -2, last |-> -1],
     [cluster |-> c2, uid |-> u1, columns |-> "Succeeded", first |-> -1, last |-> 0],
     [cluster |-> c2, uid |-> NoUid, columns |-> "Running", first |-> 0, last |-> 0]}

(* Once a cycle has its listings nothing it still does looks at the        *)
(* clusters or the clock, and nothing does after the last cycle: their     *)
(* steps commute with the rest, so they are explored where they can still  *)
(* make a difference, between cycles and while clusters are to be listed.  *)
WorldMovesWhenSeen ==
    \/ UNCHANGED <<world, clock>>
    \/ \A w \in Writers :
          \/ phase[w] = "wait" /\ cycles < MaxCycles
          \/ phase[w] = "read" /\ ~ AllListed(w)

(* As above, and only the first cluster changes at all.                    *)
FirstClusterMoves ==
    /\ WorldMovesWhenSeen
    /\ \A k \in Keys : k[1] # c1 => UNCHANGED world[k]

(* Without what neither a guard nor a property of the run reads: the       *)
(* ghosts of the store, the failure record and the heartbeat.              *)
WithoutRecords ==
    <<store, late, phase, gen, published, cycles, faults, contentVars>>

=============================================================================
