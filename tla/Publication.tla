---------------------------- MODULE Publication ----------------------------
(***************************************************************************)
(* Writers and readers over one prefix: the publication contract of        *)
(* docs/notes/atomic-publication.md and docs/notes/consumer-api.md, as     *)
(* src/main.py and src/consumer.py carry it out.                           *)
(***************************************************************************)
EXTENDS Publisher, Consumer

vars == <<storeVars, writerVars, readerVars>>

Init == StoreInit /\ WriterInit /\ ReaderInit

Next ==
    \/ WriterNext /\ UNCHANGED readerVars
    \/ ReaderNext /\ UNCHANGED writerVars

Spec == Init /\ [][Next]_vars

(* The poll loop never stops by itself, the cluster restarts a process     *)
(* that died, and readers poll, more often than a fresh marker turns       *)
(* stale.  No failure is ever obliged to happen; a reader's downloads may  *)
(* fail any number of times, but not for ever.                             *)
Fairness ==
    /\ \A w \in Writers : WF_vars(WriterProgress(w) /\ UNCHANGED readerVars)
    /\ \A r \in Readers :
          /\ WF_vars(ReaderProgress(r) /\ UNCHANGED writerVars)
          /\ SF_vars(MarkerAccepted(r) /\ UNCHANGED writerVars)
          /\ SF_vars(ReadWorkflows(r) /\ UNCHANGED writerVars)
          /\ SF_vars(Select(r) /\ UNCHANGED writerVars)

FairSpec == Spec /\ Fairness

-----------------------------------------------------------------------------

TypeOK == StoreTypeOK /\ WriterTypeOK /\ ReaderTypeOK

(* Whatever a reader works with is one generation, and all three objects   *)
(* of the prefix carried it at one instant: the three downloads of         *)
(* read_generation_result never piece together a publication that was not  *)
(* there, however many writers share the prefix and however late an        *)
(* abandoned PUT arrives.                                                  *)
SelectedIsSnapshot ==
    \A r \in Readers :
        held[r] # Nothing => IsPaired(held[r]) /\ held[r][Meta] \in committed

-----------------------------------------------------------------------------

(* Why SelectedIsSnapshot and AtomicSpec hold: the inductive invariant.    *)

(* A call under way has seen the marker of a settled generation; should    *)
(* its remaining downloads agree with the marker, that generation is the   *)
(* current one still.                                                      *)
CandidateIsCurrent(r) ==
    LET g == cand[r][Meta]
    IN  /\ g \in Generations /\ Settled(g)
        /\ rpc[r] = "workflows" =>
              (store[Workflows] = g /\ store[Runs] = g => current = g)
        /\ rpc[r] = "runs" =>
              (cand[r][Workflows] = g /\ store[Runs] = g => current = g)

ReadersAreSound == \A r \in Readers : rpc[r] # "idle" => CandidateIsCurrent(r)

PublicationInv ==
    /\ TypeOK
    /\ OneCyclePerId
    /\ CommittedIsSettled
    /\ ReadersAreSound
    /\ SelectedIsSnapshot

-----------------------------------------------------------------------------

(* The read is linearizable: the generation a reader moves to is the one   *)
(* that is current when its last download is answered, and a generation    *)
(* that was replaced is never committed again.                             *)
Atomic == INSTANCE AtomicGenerations
            WITH view <- [r \in Readers |-> held[r][Meta]],
                 NoGeneration <- Absent

AtomicSpec == Atomic!Spec

(* One writer: the upload of meta.json commits, it never lands beside data *)
(* of another generation.                                                  *)
MarkerCommits ==
    [][store'[Meta] # store[Meta] => IsPaired(store')]_vars

(* One writer: a reader never exchanges its publication for an older one,  *)
(* whatever it met in between (torn, stale, incomplete, a storage error).  *)
ReadersNeverGoBack ==
    [][\A r \in Readers :
         held'[r] # held[r] => Age(held'[r][Meta]) > Age(held[r][Meta])]_vars

(* A ledger that cannot be decoded is never overwritten, and neither is    *)
(* anything beside it: parquet_bytes_to_table raises instead of starting   *)
(* from an empty history.                                                  *)
UndecodableLedgerIsKept ==
    [][store[Runs] = Corrupt => UNCHANGED store]_vars

(* A prefix without one whole generation, torn by a failed or interrupted  *)
(* publish phase or not published to yet, gets one once failures cease:    *)
(* the next cycle publishes all three objects again.  Only a ledger that   *)
(* cannot be decoded stands in the way.                                    *)
TornIsRepaired ==
    ~ IsPaired(store) /\ store[Runs] # Corrupt ~> IsPaired(store)

(* Every reader comes to work with each committed generation or a newer    *)
(* one, whatever it met in between.                                        *)
ReadersCatchUp ==
    \A r \in Readers : \A g \in 1..MaxCycles :
        g \in committed ~> Age(held[r][Meta]) >= g

=============================================================================
