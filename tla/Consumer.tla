------------------------------ MODULE Consumer ------------------------------
(***************************************************************************)
(* Readers of the prefix that call read_generation_result of               *)
(* src/consumer.py over and over, each passing the publication it got last *)
(* as last_complete.  The three downloads are three separate steps: a      *)
(* writer may overwrite any object between them.                           *)
(***************************************************************************)
EXTENDS ObjectStore

CONSTANTS
    Readers,
    CheckFreshness \* do the readers pass max_cycle_seconds

VARIABLES
    rpc,           \* idle, or the object the reader downloads next
    cand,          \* what the call under way has downloaded so far
    held,          \* the publication the latest call returned
    result         \* status and reason of the latest call

readerVars == <<rpc, cand, held, result>>

(* None: no publication.  A returned publication is always complete.       *)
Nothing == [o \in Objects |-> Absent]

Fresh == [status |-> "fresh", reason |-> "none"]

Reasons == {"missing", "invalid", "stale", "incomplete", "torn"}

Results ==
    {Fresh} \cup
    [status : {"fallback", "no-publication"}, reason : Reasons \cup {"none"}]

ASSUME ReadersAssumption == CheckFreshness \in BOOLEAN

ReaderTypeOK ==
    /\ rpc \in [Readers -> {"idle", "workflows", "runs"}]
    /\ cand \in [Readers -> [Objects -> Contents]]
    /\ held \in [Readers -> [Objects -> Contents]]
    /\ result \in [Readers -> Results]

ReaderInit ==
    /\ rpc = [r \in Readers |-> "idle"]
    /\ cand = [r \in Readers |-> Nothing]
    /\ held = [r \in Readers |-> Nothing]
    /\ result = [r \in Readers |->
                    [status |-> "no-publication", reason |-> "none"]]

-----------------------------------------------------------------------------

(* _retained_result: the previous publication, and why it was kept.        *)
Retained(previous, reason) ==
    [status |-> IF previous = Nothing THEN "no-publication" ELSE "fallback",
     reason |-> reason]

(* An object whose bytes carry a usable id.                                *)
Identified(c, o) == c[o] \in Generations

(* Mistake: only the snapshot's footer is compared with the marker.        *)
RejectionReason_IgnoresLedger(c) ==
    IF ~ Identified(c, Workflows) \/ ~ Identified(c, Runs) THEN "incomplete"
    ELSE IF c[Workflows] # c[Meta] THEN "torn"
    ELSE "none"

(* _generation_rejection_reason of a candidate whose marker was valid.     *)
RejectionReason(c) ==
    IF ~ Identified(c, Workflows) \/ ~ Identified(c, Runs) THEN "incomplete"
    ELSE IF ~ IsPaired(c) THEN "torn"
    ELSE "none"

(* Mistake: a rejected candidate costs the caller its last publication.    *)
Reject_DropsLastComplete(r, reason) ==
    /\ result' = [result EXCEPT ![r] = Retained(Nothing, reason)]
    /\ held' = [held EXCEPT ![r] = Nothing]
    /\ UNCHANGED <<rpc, cand, storeVars>>

(* The call returns without having looked at the data objects.             *)
Reject(r, reason) ==
    /\ result' = [result EXCEPT ![r] = Retained(held[r], reason)]
    /\ UNCHANGED <<rpc, cand, held, storeVars>>

(* The download of meta.json, and what makes the reader stop there.        *)
MarkerMissing(r) ==
    /\ rpc[r] = "idle"
    /\ store[Meta] = Absent
    /\ Reject(r, "missing")

MarkerInvalid(r) ==
    /\ rpc[r] = "idle"
    /\ store[Meta] \in {NoId, Corrupt}
    /\ Reject(r, "invalid")

(* The age of the marker is left open: a valid marker may be too old.      *)
MarkerStale(r) ==
    /\ rpc[r] = "idle"
    /\ CheckFreshness
    /\ Identified(store, Meta)
    /\ Reject(r, "stale")

MarkerAccepted(r) ==
    /\ rpc[r] = "idle"
    /\ Identified(store, Meta)
    /\ cand' = [cand EXCEPT ![r] = [Nothing EXCEPT ![Meta] = store[Meta]]]
    /\ rpc' = [rpc EXCEPT ![r] = "workflows"]
    /\ UNCHANGED <<held, result, storeVars>>

ReadWorkflows(r) ==
    /\ rpc[r] = "workflows"
    /\ cand' = [cand EXCEPT ![r][Workflows] = store[Workflows]]
    /\ rpc' = [rpc EXCEPT ![r] = "runs"]
    /\ UNCHANGED <<held, result, storeVars>>

(* Mistake: a complete publication, once held, is never exchanged.         *)
Select_KeepsFirst(r) ==
    LET c == [cand[r] EXCEPT ![Runs] = store[Runs]]
    IN  /\ rpc[r] = "runs"
        /\ cand' = [cand EXCEPT ![r] = Nothing]
        /\ IF RejectionReason(c) = "none" /\ held[r] = Nothing
             THEN held' = [held EXCEPT ![r] = c]
             ELSE UNCHANGED held
        /\ rpc' = [rpc EXCEPT ![r] = "idle"]
        /\ UNCHANGED <<result, storeVars>>

(* The last download and select_generation_result, which ends the call.    *)
Select(r) ==
    LET c == [cand[r] EXCEPT ![Runs] = store[Runs]]
        reason == RejectionReason(c)
    IN  /\ rpc[r] = "runs"
        /\ cand' = [cand EXCEPT ![r] = Nothing]
        /\ IF reason = "none"
             THEN /\ held' = [held EXCEPT ![r] = c]
                  /\ result' = [result EXCEPT ![r] = Fresh]
             ELSE /\ result' = [result EXCEPT ![r] = Retained(held[r], reason)]
                  /\ UNCHANGED held
        /\ rpc' = [rpc EXCEPT ![r] = "idle"]
        /\ UNCHANGED storeVars

(* A storage error other than a missing key propagates: the call returns   *)
(* nothing, and the caller still has what it had.                          *)
ReadError(r) ==
    /\ rpc[r] # "idle"
    /\ rpc' = [rpc EXCEPT ![r] = "idle"]
    /\ cand' = [cand EXCEPT ![r] = Nothing]
    /\ UNCHANGED <<held, result, storeVars>>

ReaderProgress(r) ==
    \/ MarkerMissing(r)
    \/ MarkerInvalid(r)
    \/ MarkerStale(r)
    \/ MarkerAccepted(r)
    \/ ReadWorkflows(r)
    \/ Select(r)

ReaderNext ==
    \E r \in Readers : ReaderProgress(r) \/ ReadError(r)

=============================================================================
