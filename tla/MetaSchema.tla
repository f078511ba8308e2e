----------------------------- MODULE MetaSchema -----------------------------
(***************************************************************************)
(* src/meta_schema.py: what validate lets through, on the producer's side  *)
(* and on the consumer's.  A sidecar is a function from the fields it has. *)
(* A timestamp is a record: the instant it names, and whether it is        *)
(* written the way _now writes it (exact), that way but in the digits of   *)
(* another script (script), which \d and strptime know as well, in a shape *)
(* that only strptime reads (lenient: one digit for a month), or in a way  *)
(* that no calendar knows (unreal: the thirtieth of February).  An id is   *)
(* the timestamp it begins with and whether its suffix is one of ours.     *)
(***************************************************************************)
EXTENDS JsonValues, Sequences, FiniteSets, Functions

Fields ==
    {"version", "generated_at", "generation_id", "poll_interval_seconds",
     "run_retention_days", "clusters", "workflows", "runs"}

ClusterFields == {"name", "ok", "workflows"}

Stamps == [at : Int, written : {"exact", "script", "lenient", "unreal"}]

Ids == [stamp : Stamps, suffixed : BOOLEAN]

(* A strict integer: true is Odd here, not 1.                              *)
IntegerFrom(minimum, value) == value \in Int /\ value >= minimum

(* format: rfc3339-utc-second, as strptime reads it.                       *)
RealTime(value) == value \in Stamps /\ value.written # "unreal"

(* The pattern of a generation id, matched in full: it knows digits, not   *)
(* calendars.                                                              *)
IdPattern(value) ==
    value \in Ids /\ value.stamp.written # "lenient" /\ value.suffixed

(* Mistake: ok may be anything.                                            *)
ClusterConforms_AnyOk(cluster) ==
    /\ cluster # Odd /\ DOMAIN cluster = ClusterFields
    /\ NonEmpty(cluster.name)
    /\ IntegerFrom(0, cluster.workflows)

(* CLUSTER_SCHEMA.                                                         *)
ClusterConforms(cluster) ==
    /\ cluster # Odd /\ DOMAIN cluster = ClusterFields
    /\ NonEmpty(cluster.name)
    /\ cluster.ok \in BOOLEAN
    /\ IntegerFrom(0, cluster.workflows)

(* META_SCHEMA, each field by itself.                                      *)
Conforms(meta) ==
    /\ meta # Odd /\ DOMAIN meta = Fields
    /\ NonEmpty(meta.version)
    /\ RealTime(meta.generated_at)
    /\ IdPattern(meta.generation_id)
    /\ IntegerFrom(1, meta.poll_interval_seconds)
    /\ IntegerFrom(1, meta.run_retention_days)
    /\ meta.clusters # Odd /\ meta.clusters # <<>>
    /\ \A i \in DOMAIN meta.clusters : ClusterConforms(meta.clusters[i])
    /\ IntegerFrom(0, meta.workflows)
    /\ IntegerFrom(0, meta.runs)

Answering(meta) == {i \in DOMAIN meta.clusters : meta.clusters[i].ok = TRUE}

(* Rows that the clusters which answered account for.                      *)
Accounted(meta) ==
    SumFunction([i \in Answering(meta) |-> meta.clusters[i].workflows])

(* The rules that tie fields together.                                     *)
CrossFieldsConform(meta) ==
    /\ meta.generation_id.stamp = meta.generated_at
    /\ \A i, j \in DOMAIN meta.clusters :
          meta.clusters[i].name = meta.clusters[j].name => i = j
    /\ Accounted(meta) = meta.workflows
    /\ \A i \in DOMAIN meta.clusters \ Answering(meta) : meta.clusters[i].workflows = 0

(* validate raises unless both hold; a field of the wrong shape is refused *)
(* whatever the cross-field rules make of it.                              *)
Valid(meta) == Conforms(meta) /\ CrossFieldsConform(meta)

=============================================================================
