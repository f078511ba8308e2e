------------------------------ MODULE Listing ------------------------------
(***************************************************************************)
(* The listing of one cluster, src/k8s_api.py and one turn of the loop of  *)
(* fetch_workflows: pages chained by continue tokens, while the objects    *)
(* of the cluster come and go.  Module Exporter takes the whole of it for  *)
(* one step; what is checked here is why it may.                           *)
(*                                                                         *)
(* A token is what it stands for to the API server, the objects that are   *)
(* still to come; the empty set is the missing or empty token.  A server   *)
(* that is not honest may also hand out Fresh, which is any token that it  *)
(* has not handed out before and will not hand out again.                  *)
(***************************************************************************)
EXTENDS Integers

CONSTANTS
    Names,         \* workflow objects there may be
    Malformed,     \* those that _validate_workflow or to_row refuses
    Fresh          \* a token that never repeats

VARIABLES
    honest,        \* does the API server page the way Kubernetes documents
    world,         \* the objects of the cluster
    pc,            \* where the listing is
    token,         \* the continue token of the next request
    seenTokens,
    items,         \* the objects of the pages so far
    rows,          \* what the cluster contributes to the cycle
    asked,         \* ghost: world at the first page
    turn           \* ghost: tells the steps of an endless chain apart

vars == <<honest, world, pc, token, seenTokens, items, rows, asked, turn>>

ASSUME ListingAssumption ==
    /\ Malformed \subseteq Names
    /\ \A remaining \in SUBSET Names : remaining # Fresh

NoToken == {}

Tokens == {Fresh} \cup SUBSET Names

TypeOK ==
    /\ honest \in BOOLEAN
    /\ world \subseteq Names
    /\ pc \in {"first", "more", "listed", "ok", "failed"}
    /\ token \in Tokens
    /\ seenTokens \subseteq SUBSET Names
    /\ items \subseteq Names
    /\ rows \subseteq Names
    /\ asked \subseteq Names
    /\ turn \in BOOLEAN

Init ==
    /\ honest \in BOOLEAN
    /\ world \in SUBSET Names
    /\ ~ honest => world = {}
    /\ pc = "first"
    /\ token = NoToken
    /\ seenTokens = {}
    /\ items = {}
    /\ rows = {}
    /\ asked = {}
    /\ turn = FALSE

-----------------------------------------------------------------------------

(* The pages of a server that is not honest do not depend on the world, so *)
(* there it stands still.                                                  *)
Change ==
    /\ honest
    /\ world' \in SUBSET Names
    /\ world' # world
    /\ UNCHANGED <<honest, pc, token, seenTokens, items, rows, asked, turn>>

(* What is there to list: now, or when the chain of pages began.           *)
Pending == IF pc = "first" THEN world ELSE token

(* A page and the token that comes with it.  Kubernetes serves every page  *)
(* of a chain from the state the first one was served from; a page may be  *)
(* shorter than the limit, and it is empty only when nothing is left.      *)
Page(objects, next) ==
    /\ objects \subseteq Names
    /\ honest => /\ next # Fresh
                 /\ objects \subseteq Pending
                 /\ next = Pending \ objects
                 /\ objects = {} => Pending = {}

(* Mistake: a token that repeats goes unnoticed.                           *)
Repeated_Never(next) == FALSE

Repeated(next) == next # NoToken /\ next \in seenTokens

(* A page is answered: the end of the list, or one more to come, of which  *)
(* there may be any number.  Fresh is not remembered: what stands for a    *)
(* token that never comes again cannot be met again.                       *)
PageAnswered ==
    /\ pc \in {"first", "more"}
    /\ \E objects \in SUBSET Names, next \in Tokens :
          /\ Page(objects, next)
          /\ ~ Repeated(next)
          /\ items' = items \cup objects
          /\ token' = next
          /\ seenTokens' = seenTokens \cup ({next} \ {NoToken, Fresh})
          /\ pc' = IF next = NoToken THEN "listed" ELSE "more"
          /\ turn' = IF next = Fresh THEN ~ turn ELSE turn
    /\ asked' = IF pc = "first" THEN world ELSE asked
    /\ UNCHANGED <<honest, world, rows>>

(* A server that hands out a token twice may go round in a circle.         *)
TokenRepeated ==
    /\ pc = "more"
    /\ \E objects \in SUBSET Names, next \in Tokens : Page(objects, next) /\ Repeated(next)
    /\ pc' = "failed"
    /\ UNCHANGED <<honest, world, token, seenTokens, items, rows, asked, turn>>

(* Mistake: what has arrived so far is taken for the list.                 *)
PageFailed_KeepsWhatCame ==
    /\ pc \in {"first", "more"}
    /\ pc' = "listed"
    /\ UNCHANGED <<honest, world, token, seenTokens, items, rows, asked, turn>>

(* No answer, a status other than 200 (an expired token is one), or a body *)
(* that is no list.                                                        *)
PageFailed ==
    /\ pc \in {"first", "more"}
    /\ pc' = "failed"
    /\ UNCHANGED <<honest, world, token, seenTokens, items, rows, asked, turn>>

(* Every object converts: the cluster is ok and its rows join the others'. *)
Convert ==
    /\ pc = "listed"
    /\ items \cap Malformed = {}
    /\ pc' = "ok"
    /\ rows' = items
    /\ UNCHANGED <<honest, world, token, seenTokens, items, asked, turn>>

(* Mistake: only the object that does not convert is left out.             *)
Refuse_OneByOne ==
    /\ pc = "listed"
    /\ items \cap Malformed # {}
    /\ pc' = "ok"
    /\ rows' = items \ Malformed
    /\ UNCHANGED <<honest, world, token, seenTokens, items, asked, turn>>

(* Mistake: those that convert are kept although the cluster has failed.   *)
Refuse_KeepsTheOthers ==
    /\ pc = "listed"
    /\ items \cap Malformed # {}
    /\ pc' = "failed"
    /\ rows' = items \ Malformed
    /\ UNCHANGED <<honest, world, token, seenTokens, items, asked, turn>>

(* One that does not costs the cluster all of them.                        *)
Refuse ==
    /\ pc = "listed"
    /\ items \cap Malformed # {}
    /\ pc' = "failed"
    /\ UNCHANGED <<honest, world, token, seenTokens, items, rows, asked, turn>>

Progress ==
    \/ PageAnswered
    \/ TokenRepeated
    \/ PageFailed
    \/ Convert
    \/ Refuse

Next == Progress \/ Change

Spec == Init /\ [][Next]_vars

(* Every request ends.  That is an assumption: the timeout of requests is  *)
(* one on each wait for bytes, not on the whole answer.                    *)
FairSpec == Spec /\ WF_vars(Progress)

-----------------------------------------------------------------------------

(* A cluster that is reported ok contributes exactly what it held at the   *)
(* instant of the first page, all of it and nothing that was not there     *)
(* together, although the pages were served one by one while it changed.   *)
(* This is the step ClusterAnswers of module Exporter.                     *)
CompleteIsSnapshot == honest /\ pc = "ok" => rows = asked

(* A cluster that is not reported ok contributes nothing, whatever the     *)
(* server did: the step ClusterFails.                                      *)
FailedIsNothing == pc # "ok" => rows = {}

(* The listing ends, unless the server keeps handing out tokens that it    *)
(* has never handed out before: those it is asked for without end, because *)
(* neither pages nor objects are counted.  No circle of tokens keeps the   *)
(* poll loop, and no honest server does, however the cluster changes.      *)
ListingEnds == <>(pc \in {"ok", "failed"}) \/ []<><<turn' # turn>>_vars

(* What has come and what is still to come make up the snapshot.           *)
ListingInv ==
    /\ TypeOK
    /\ honest => token # Fresh
    /\ pc = "first" => items = {}
    /\ honest /\ pc \in {"more", "listed", "ok"} => items \cup token = asked
    /\ pc \in {"listed", "ok"} => token = NoToken
    /\ pc = "ok" => rows = items
    /\ FailedIsNothing

=============================================================================
