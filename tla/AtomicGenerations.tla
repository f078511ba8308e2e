------------------------- MODULE AtomicGenerations -------------------------
(***************************************************************************)
(* What the publication protocol promises its readers, were the three      *)
(* objects one: a generation appears at a single instant, it never comes   *)
(* back once another has replaced it, and a reader moves only to the       *)
(* generation that is current at that very moment.                         *)
(***************************************************************************)
EXTENDS Integers

CONSTANTS Readers, NoGeneration

VARIABLES
    committed,     \* the generations that have appeared
    current,       \* the latest of them, NoGeneration before the first
    view           \* the generation each reader works with

vars == <<committed, current, view>>

Init ==
    /\ committed = {}
    /\ current = NoGeneration
    /\ view = [r \in Readers |-> NoGeneration]

Commit ==
    /\ current' \in Nat \ {0}
    /\ current' \notin committed
    /\ committed' = committed \cup {current'}
    /\ UNCHANGED view

Adopt(r) ==
    /\ current # NoGeneration
    /\ view' = [view EXCEPT ![r] = current]
    /\ UNCHANGED <<committed, current>>

Next ==
    \/ Commit
    \/ \E r \in Readers : Adopt(r)

Spec == Init /\ [][Next]_vars

=============================================================================
