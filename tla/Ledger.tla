------------------------------- MODULE Ledger -------------------------------
(***************************************************************************)
(* src/ledger.py: the fold of one cycle's observations into the stored     *)
(* ledger.  A ledger is a set of rows: the identity of the run, columns    *)
(* for all that is taken from the latest observation, and the two          *)
(* timestamps merge maintains.                                             *)
(***************************************************************************)
EXTENDS Integers

CONSTANTS
    NoUid,           \* a row whose uid column is empty
    RetentionPeriod  \* RUN_RETENTION_DAYS, in ticks of the clock

ASSUME RetentionAssumption == RetentionPeriod \in Nat \ {0}

(* Kubernetes scopes a uid to its cluster, so the pair identifies a run.   *)
Identity(row) == <<row.cluster, row.uid>>

(* The oldest last_seen_at a cycle that started at generatedAt retains.    *)
Cutoff(generatedAt) == generatedAt - RetentionPeriod

(* Only rows with a uid take part.                                         *)
Tracked(rows) == {row \in rows : row.uid # NoUid}

(* The row an observation leaves in the ledger: its columns, the first     *)
(* sighting of the row it replaces if there is one, and the cycle's start. *)
Recorded(seen, existing, generatedAt) ==
    LET previous == {row \in existing : Identity(row) = Identity(seen)}
    IN  [cluster |-> seen.cluster,
         uid |-> seen.uid,
         columns |-> seen.columns,
         first |-> IF previous = {} THEN generatedAt
                                    ELSE (CHOOSE row \in previous : TRUE).first,
         last |-> generatedAt]

(* Mistake: every row of the ledger is taken for seen by the cycle.        *)
Fold_RefreshesAll(existing, observed, generatedAt) ==
    LET unseen == {row \in existing :
                     \A seen \in observed : Identity(seen) # Identity(row)}
    IN  {[row EXCEPT !.last = generatedAt] : row \in unseen}
          \cup {Recorded(seen, existing, generatedAt) : seen \in observed}

(* Mistake: a run seen again is appended beside its old row.               *)
Fold_KeepsReplaced(existing, observed, generatedAt) ==
    existing \cup {Recorded(seen, existing, generatedAt) : seen \in observed}

(* by_key once every observation has been folded in.                       *)
Fold(existing, observed, generatedAt) ==
    LET unseen == {row \in existing :
                     \A seen \in observed : Identity(seen) # Identity(row)}
    IN  unseen \cup {Recorded(seen, existing, generatedAt) : seen \in observed}

(* Mistake: a row last seen exactly at the cutoff is trimmed.              *)
Merge_ExclusiveCutoff(existing, observed, generatedAt) ==
    {row \in Fold(Tracked(existing), Tracked(observed), generatedAt) :
       row.last > Cutoff(generatedAt)}

(* Mistake: the retention period is measured from the newest sighting.     *)
Merge_FromNewest(existing, observed, generatedAt) ==
    LET rows == Fold(Tracked(existing), Tracked(observed), generatedAt)
    IN  {row \in rows : \A other \in rows : row.last >= Cutoff(other.last)}

(* Rows without a uid cannot be tracked; the others are kept up to and     *)
(* including the cutoff.                                                   *)
Merge(existing, observed, generatedAt) ==
    {row \in Fold(Tracked(existing), Tracked(observed), generatedAt) :
       row.last >= Cutoff(generatedAt)}

=============================================================================
