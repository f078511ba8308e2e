----------------------------- MODULE Extraction -----------------------------
(***************************************************************************)
(* src/workflows.py, from one Workflow object to the columns of its row,   *)
(* and the columns that src/failure_taxonomy.py derives.  An object has    *)
(*   labels:  a function from the labels it carries to their values;       *)
(*   ref:     spec.workflowTemplateRef, a record of a name and perhaps the *)
(*            cluster scope, or None;                                      *)
(*   phase, message, started, finished: the fields of its status;          *)
(*   resources: the greatest counter of its resourcesDuration, or None;    *)
(*   storage: how the node map arrives: plain, compressed, or lost (what   *)
(*            cannot be decoded, and what Argo keeps elsewhere);           *)
(*   nodes:   the node map, a set of records that name their key.          *)
(* An object without a usable identity is Odd as a whole.                  *)
(* A source timestamp is an Int, the ticks of the instant it names, when   *)
(* it has a zone and can be parsed; else it is None, Blank or Odd.         *)
(***************************************************************************)
EXTENDS JsonValues, Sequences, FiniteSetsExt

CONSTANTS
    Second,        \* ticks to the second; a timestamp may be finer
    Int64Max,      \* the greatest number a Parquet column takes
    Rules,         \* failure_classes.yaml: sequence of [class, matches]
    Normalized     \* function from messages to their normalized text

ASSUME ExtractionAssumption ==
    /\ Second \in Nat \ {0} /\ Int64Max \in Nat
    /\ DOMAIN Rules \subseteq Nat
    /\ \A i \in DOMAIN Rules : Rules[i].class \notin {"unknown", None}
    /\ \A message \in DOMAIN Normalized : NonEmpty(Normalized[message])

(* The node map as failed_step has it.  Decoding undoes what Argo did, and *)
(* what it cannot undo is lost; of what it finds, the entries that are no  *)
(* objects go.                                                             *)
NodeMap(wf) ==
    CASE wf.storage = "plain" -> wf.nodes
      [] wf.storage = "compressed" -> wf.nodes \ {Odd}
      [] OTHER -> {}

(* _validate_workflow: is the object fit to become a row?  The nodes are   *)
(* looked at only where they are plain to see.                             *)
WellFormed(wf) ==
    /\ wf # Odd
    /\ \A label \in DOMAIN wf.labels : Legible(wf.labels[label])
    /\ wf.ref # None => /\ Legible(wf.ref.name)
                        /\ "clusterScope" \in DOMAIN wf.ref =>
                              wf.ref.clusterScope \in BOOLEAN
    /\ \A field \in {"phase", "message", "started", "finished"} : OptionalString(wf[field])
    /\ wf.resources # None => wf.resources \in Int
    /\ wf.storage = "plain" =>
          \A node \in wf.nodes :
             /\ node # Odd
             /\ \A field \in {"phase", "type", "display", "name", "started", "message"} :
                   OptionalString(node[field])

-----------------------------------------------------------------------------

(* normalize_timestamp keeps the instant, to the last tick.                *)
NormalizeTimestamp(source) == IF source \in Int THEN source ELSE None

(* Python's int() cuts towards zero.                                       *)
WholeSeconds(ticks) ==
    IF ticks >= 0 THEN ticks \div Second ELSE - ((- ticks) \div Second)

DurationSeconds(started, finished) ==
    IF started \in Int /\ finished \in Int THEN WholeSeconds(finished - started) ELSE None

(* template_of: the reference, else a label, the cluster's one first.      *)
TemplateOf(wf) ==
    LET has(label) == NonEmpty(Get(wf.labels, label))
    IN  IF wf.ref # None
          THEN <<wf.ref.name,
                 IF Get(wf.ref, "clusterScope") = TRUE THEN "cluster" ELSE "namespaced">>
        ELSE IF has("cluster-workflow-template")
          THEN <<wf.labels["cluster-workflow-template"], "cluster">>
        ELSE IF has("workflow-template")
          THEN <<wf.labels["workflow-template"], "namespaced">>
        ELSE <<None, None>>

(* trigger_of: cron, then the sensor's trigger or the sensor, then the     *)
(* creator.                                                                *)
TriggerOf(wf) ==
    LET has(label) == Legible(Get(wf.labels, label))
    IN  IF has("cron-workflow") THEN <<"cron", wf.labels["cron-workflow"]>>
        ELSE IF has("sensor")
          THEN <<"event", wf.labels[IF has("trigger") THEN "trigger" ELSE "sensor"]>>
        ELSE IF has("creator") THEN <<"user", wf.labels["creator"]>>
        ELSE <<None, None>>

-----------------------------------------------------------------------------

NoStep == [name |-> None, message |-> None]

(* Only pods: their parents fail with them.                                *)
FailedPods(wf) ==
    {node \in NodeMap(wf) : node.phase \in {"Failed", "Error"} /\ node.type = "Pod"}

(* selection_key: by start, those without a usable one last, then by key.  *)
Before(a, b) ==
    LET timed(node) == node.started \in Int
    IN  \/ timed(a) /\ ~ timed(b)
        \/ timed(a) /\ timed(b) /\ a.started < b.started
        \/ /\ timed(a) = timed(b)
           /\ timed(a) => a.started = b.started
           /\ a.key < b.key

(* Whatever the phase of the workflow: a step that was retried with        *)
(* success counts as failed.                                               *)
FailedStep(wf) ==
    IF FailedPods(wf) = {} THEN NoStep
    ELSE LET first == CHOOSE node \in FailedPods(wf) :
                        \A other \in FailedPods(wf) \ {node} : Before(node, other)
         IN  [name |-> IF first.display \in {None, Empty, Falsy} THEN first.name
                       ELSE first.display,
              message |-> first.message]

(* The first rule that matches.                                            *)
FailureClass(message) ==
    LET matching == {i \in DOMAIN Rules : message \in Rules[i].matches}
    IN  IF matching = {} THEN "unknown" ELSE Rules[Min(matching)].class

(* Mistake: a run without any evidence is given a class.                   *)
FailureColumns_ClassOfNothing(stepMessage, message) ==
    LET evidence == IF Legible(stepMessage) THEN stepMessage ELSE message
    IN  [fingerprint |-> IF Legible(evidence) THEN Normalized[evidence] ELSE None,
         class |-> FailureClass(evidence)]

(* The most specific message there is, the step's before the workflow's.   *)
FailureColumns(stepMessage, message) ==
    LET evidence == IF Legible(stepMessage) THEN stepMessage ELSE message
    IN  IF Legible(evidence)
          THEN [fingerprint |-> Normalized[evidence], class |-> FailureClass(evidence)]
          ELSE [fingerprint |-> None, class |-> None]

(* to_row, without the identity and observed_at.                           *)
ToColumns(wf) ==
    LET step == FailedStep(wf)
        derived == FailureColumns(step.message, wf.message)
    IN  [template |-> TemplateOf(wf),
         trigger |-> TriggerOf(wf),
         phase |-> IF NonEmpty(wf.phase) THEN wf.phase ELSE "Pending",
         message |-> wf.message,
         started |-> NormalizeTimestamp(wf.started),
         finished |-> NormalizeTimestamp(wf.finished),
         duration |-> DurationSeconds(wf.started, wf.finished),
         resources |-> wf.resources,
         step |-> step,
         class |-> derived.class,
         fingerprint |-> derived.fingerprint]

(* The columns fit the Parquet schema: what it calls strings are strings,  *)
(* and its numbers have 64 bits.                                           *)
Encodable(columns) ==
    /\ \A text \in {columns.message, columns.step.name, columns.step.message} :
          OptionalString(text)
    /\ columns.resources # None => columns.resources \in (- Int64Max - 1)..Int64Max

=============================================================================
