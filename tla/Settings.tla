------------------------------ MODULE Settings ------------------------------
(***************************************************************************)
(* src/config.py: which environments load accepts, and what the rest of    *)
(* the exporter gets to see of them.  An environment is a record of        *)
(*   clusters: the decoded CLUSTERS_JSON, a sequence of entries, or Odd;   *)
(*   numbers:  what int() makes of each numeric variable, Odd when it      *)
(*             makes nothing of it;                                        *)
(*   texts:    the strings without which there is nowhere to publish to,   *)
(*             and the two that are one of a few words, Odd if they are not*)
(*             one of those;                                               *)
(*   version:  the contents of the version file, None without one.         *)
(***************************************************************************)
EXTENDS JsonValues, Sequences

Defaults ==
    [POLL_INTERVAL_SECONDS |-> 300, RUN_RETENTION_DAYS |-> 7,
     HTTP_TIMEOUT_SECONDS |-> 10, LIST_PAGE_SIZE |-> 500, HEALTH_PORT |-> 8080]

(* _optional: an unset or blank variable has its default.                  *)
Number(environment, variable) ==
    LET value == Get(environment.numbers, variable)
    IN  IF value \in {None, Empty, Blank} THEN Defaults[variable] ELSE value

PositiveInt(value) == value \in Int /\ value > 0

(* One entry of CLUSTERS_JSON.                                             *)
EntryAccepted(entry) ==
    /\ entry # Odd
    /\ "name" \in DOMAIN entry /\ NonEmpty(entry.name)
    /\ OptionalString(Get(entry, "base_url"))
    /\ OptionalString(Get(entry, "namespace"))

(* Mistake: two entries may share a name.                                  *)
ClustersAccepted_Repeated(entries) ==
    /\ entries # Odd /\ entries # <<>>
    /\ \A i \in DOMAIN entries : EntryAccepted(entries[i])

(* No name twice, and at most one entry without a base_url: there is only  *)
(* one cluster this pod runs in.                                           *)
ClustersAccepted(entries) ==
    /\ entries # Odd /\ entries # <<>>
    /\ \A i \in DOMAIN entries : EntryAccepted(entries[i])
    /\ \A i, j \in DOMAIN entries : i # j =>
          /\ entries[i].name # entries[j].name
          /\ ~ (Get(entries[i], "base_url") = None /\ Get(entries[j], "base_url") = None)

(* load: anything else is a ConfigError, on which main exits.              *)
Accepted(environment) ==
    /\ ClustersAccepted(environment.clusters)
    /\ \A text \in environment.texts : Legible(text)
    /\ \A variable \in DOMAIN Defaults : PositiveInt(Number(environment, variable))

Version(environment) ==
    IF Legible(environment.version) THEN environment.version ELSE "unknown"

Loaded(environment) ==
    [names |-> [i \in DOMAIN environment.clusters |-> environment.clusters[i].name],
     version |-> Version(environment),
     interval |-> Number(environment, "POLL_INTERVAL_SECONDS"),
     retention |-> Number(environment, "RUN_RETENTION_DAYS")]

=============================================================================
