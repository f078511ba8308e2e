----------------------------- MODULE MCPipeline -----------------------------
(***************************************************************************)
(* A small fleet for Pipeline: one workflow object in the cluster "c1",    *)
(* whose whole life is followed, and a second cluster, with a blank name,  *)
(* that has only the memory of a run.  A tick is half a second.            *)
(***************************************************************************)
EXTENDS Pipeline

MCClusterNames == {"c1", Blank}

MCObjects == {<<"c1", "u">>}

MCEarliest == -3

MCEntry(name, url) == [name |-> name, base_url |-> url]

MCEnvironment(clusters) ==
    [clusters |-> clusters, numbers |-> [RUN_RETENTION_DAYS |-> 1],
     texts |-> {"s3"}, version |-> Empty]

MCFleet == MCEnvironment(<<MCEntry("c1", "proxy"), MCEntry(Blank, None)>>)

(* The first is accepted, and so is the next, whose retention reaches      *)
(* beyond the calendar; main exits on each of the others.                  *)
MCEnvironments ==
    {MCFleet,
     [MCFleet EXCEPT !.numbers = [RUN_RETENTION_DAYS |-> 9]],
     [MCFleet EXCEPT !.numbers = [POLL_INTERVAL_SECONDS |-> 0]],
     [MCFleet EXCEPT !.texts = {"s3", Blank}],
     MCEnvironment(Odd),
     MCEnvironment(<<>>),
     MCEnvironment(<<Odd>>),
     MCEnvironment(<<MCEntry(Empty, None)>>),
     MCEnvironment(<<MCEntry("c1", Odd)>>),
     MCEnvironment(<<MCEntry("c1", "proxy"), MCEntry("c1", None)>>),
     MCEnvironment(<<MCEntry("c1", None), MCEntry(Blank, None)>>)}

MCNone == [label \in {} |-> None]

MCUsual == [labels |-> [sensor |-> "hook", creator |-> "someone"], ref |-> None]

MCTemplate(ref) == [labels |-> [creator |-> "someone"], ref |-> ref]

(* The labels of each branch of template_of and trigger_of, and what       *)
(* _validate_workflow refuses.                                             *)
MCMetadata ==
    {MCUsual,
     MCTemplate([name |-> "build", clusterScope |-> TRUE]),
     MCTemplate([name |-> "build"]),
     MCTemplate([name |-> "build", clusterScope |-> Odd]),
     MCTemplate([name |-> Empty]),
     [labels |-> [sensor |-> "hook", trigger |-> "push", creator |-> Blank], ref |-> None]}
      \cup {[labels |-> labels, ref |-> None] : labels \in
              {[sensor |-> "hook", trigger |-> "push"],
               [label \in {"cron-workflow", "workflow-template"} |-> "nightly"],
               [label \in {"cluster-workflow-template", "workflow-template"} |-> "deploy"]}}

MCPod(key, started, message) ==
    [key |-> key, type |-> "Pod", phase |-> "Failed", display |-> Empty, name |-> "pod",
     started |-> started, message |-> message]

(* A parent beside its pod, which has a display name; a tie, whose first   *)
(* has nothing to say, after a pod without a start; a message that is no   *)
(* string; an entry that is no object, and a display name that is none.    *)
MCNodeMaps ==
    {{[MCPod(1, 0, "step failed") EXCEPT !.type = "Steps"], 
      [MCPod(2, 1, "pod 1 evicted") EXCEPT !.display = "tests"]},
     {MCPod(1, None, "step failed"), MCPod(2, 1, Blank), MCPod(3, 1, "pod 2 evicted")},
     {MCPod(1, 1, Odd)},
     {Odd, [MCPod(1, 1, "pod 1 evicted") EXCEPT !.display = Falsy]}}

MCMessages == {None, "step failed"}

MCCounters == {5, 6, Odd}

MCRules == <<[class |-> "evicted", matches |-> {"pod 1 evicted", "pod 2 evicted"}],
             [class |-> "node", matches |-> {"pod 2 evicted"}]>>

MCNormalized == [message \in {"pod 1 evicted", "pod 2 evicted", "step failed"} |->
                   IF message = "step failed" THEN "step failed" ELSE "pod evicted"]

(* Written before there were failure columns, with one that is gone.       *)
MCEarlierRows ==
    {[cluster |-> Blank, uid |-> "u",
      columns |-> [template |-> <<None, None>>, trigger |-> <<None, None>>,
                   phase |-> "Failed", message |-> "step failed", started |-> 0,
                   finished |-> 1, duration |-> 0, step |-> NoStep,
                   progress |-> "1/1"]]}

MCStamp(written) == [at |-> 1, written |-> written]

MCMarker(written, clusters) ==
    [version |-> "1", generated_at |-> MCStamp(written),
     generation_id |-> [stamp |-> MCStamp(written), suffixed |-> TRUE],
     poll_interval_seconds |-> 300, run_retention_days |-> 7,
     clusters |-> clusters, workflows |-> 1, runs |-> 2]

MCCluster(name, ok, workflows) == [name |-> name, ok |-> ok, workflows |-> workflows]

MCTwo == <<MCCluster("c1", TRUE, 1), MCCluster("c2", FALSE, 0)>>

MCGood == MCMarker("exact", MCTwo)

MCForeignMarkers ==
    {Odd, MCNone, MCGood}
      \cup {MCMarker(written, MCTwo) : written \in {"script", "lenient", "unreal"}}
      \cup {[MCGood EXCEPT !.generated_at = MCStamp("lenient")]}
      \cup {[MCGood EXCEPT !.generation_id.suffixed = FALSE]}
      \cup {[MCGood EXCEPT !.poll_interval_seconds = value] : value \in {0, 401, Odd}}
      \cup {[MCGood EXCEPT !.workflows = value] : value \in {0, 2}}
      \cup {[field \in Fields \ {missing} |-> MCGood[field]] : missing \in Fields}
      \cup {MCMarker("exact", clusters) : clusters \in
              {Odd, <<>>, <<Odd>>,
               <<MCCluster("c1", TRUE, 1), MCCluster("c1", FALSE, 0)>>,
               <<MCCluster("c1", TRUE, 1), MCCluster("c2", FALSE, 1)>>,
               <<MCCluster("c1", TRUE, 1), MCCluster("c2", Odd, 0)>>,
               <<MCCluster(Empty, TRUE, 1)>>,
               <<MCCluster("c1", FALSE, 1)>>}}

(* After the last cycle nobody looks at the clusters any more.             *)
WorldMovesWhenSeen == Len(history) <= MaxCycles \/ UNCHANGED world

(* No column depends both on the metadata and on what a run comes to, none *)
(* but one on the resources, no measure both on the failure and on the     *)
(* finish, and lost node maps are all the same: the unusual ones need not  *)
(* meet the rest.                                                          *)
RareComesAlone ==
    \A k \in DOMAIN world' :
       LET wf == world'[k]
       IN  /\ [labels |-> wf.labels, ref |-> wf.ref] # MCUsual => wf.phase = Empty
           /\ wf.resources # None => wf.phase = "Running" /\ wf.nodes = {}
           /\ wf.finished = 3 => wf.message = None /\ wf.nodes = {}
           /\ wf.storage = "lost" => Odd \in wf.nodes

(* No guard reads the outcome of a cycle; of the run's properties one does.*)
WithoutOutcome == <<stage, config, world, submitted, stored, outcome = "invalid">>

=============================================================================
