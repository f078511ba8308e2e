---------------------------- MODULE ObjectStore ----------------------------
(***************************************************************************)
(* The S3 prefix one exporter publishes to: three keys, each overwritten   *)
(* as a whole by a PUT, with no write that covers two of them.  What a     *)
(* stored object says is abstracted to the generation id it carries, which *)
(* is all a pairing decision looks at.                                     *)
(***************************************************************************)
EXTENDS Integers, FiniteSets

CONSTANTS
    Absent,        \* download_bytes: NoSuchKey, no such object
    NoId,          \* readable, but with no usable id: a footerless Parquet
                   \* file of an earlier release, a meta.json that does not
                   \* pass meta_schema.validate
    Corrupt,       \* bytes that cannot be decoded at all
    InitialStores  \* the contents the prefix may have at the start

VARIABLES
    store,         \* store[o]: the id that object o carries
    late,          \* <<o, g>>: a PUT its client gave up on, still on its way
    committed,     \* ghost: the ids that all three objects have carried at once
    current        \* ghost: the last of them, Absent when there is none

storeVars == <<store, late, committed, current>>

Workflows == 1
Runs == 2
Meta == 3

(* The order of the publish phase; meta.json, the commit marker, is last.  *)
Objects == {Workflows, Runs, Meta}

Generations == Nat \ {0}

Contents == Generations \cup {Absent, NoId, Corrupt}

ASSUME DistinctContents ==
    /\ Absent \notin Int /\ NoId \notin Int /\ Corrupt \notin Int
    /\ Absent # NoId /\ Absent # Corrupt /\ NoId # Corrupt

(* At the start the prefix is empty or holds objects of a release without  *)
(* generation ids.                                                         *)
ASSUME InitialStoresAssumption ==
    InitialStores \subseteq [Objects -> {Absent, NoId, Corrupt}]

StoreTypeOK ==
    /\ store \in [Objects -> Contents]
    /\ late \in SUBSET (Objects \X Generations)
    /\ committed \in SUBSET Generations
    /\ current \in Generations \cup {Absent}

StoreInit ==
    /\ store \in InitialStores
    /\ late = {}
    /\ committed = {}
    /\ current = Absent

-----------------------------------------------------------------------------

(* The three objects carry one and the same generation id.                 *)
IsPaired(s) == s[Meta] \in Generations /\ s[Workflows] = s[Meta] /\ s[Runs] = s[Meta]

(* The ghosts follow the store: a generation is committed from the first   *)
(* instant at which a reader could find it whole.                          *)
RecordCommit ==
    IF IsPaired(store')
      THEN /\ committed' = committed \cup {store'[Meta]}
           /\ current' = store'[Meta]
      ELSE UNCHANGED <<committed, current>>

(* upload_bytes: the key is overwritten as a whole.                        *)
Overwrite(o, g) ==
    /\ store' = [store EXCEPT ![o] = g]
    /\ RecordCommit

(* A PUT that its client reported as failed, or whose client died, reaches *)
(* the store after all.                                                    *)
Land(put) ==
    /\ put \in late
    /\ Overwrite(put[1], put[2])
    /\ late' = late \ {put}

=============================================================================
