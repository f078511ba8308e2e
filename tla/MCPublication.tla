--------------------------- MODULE MCPublication ---------------------------
(***************************************************************************)
(* Small instances of Publication for TLC.                                 *)
(***************************************************************************)
EXTENDS Publication, TLC

(* An empty prefix, one of a release without generation ids, and one whose *)
(* ledger is damaged.                                                      *)
EmptyStore == [o \in Objects |-> Absent]
LegacyStore == [o \in Objects |-> NoId]
DamagedStore == [LegacyStore EXCEPT ![Runs] = Corrupt]
NoMarkerStore == [LegacyStore EXCEPT ![Meta] = Absent]

AnyStore == {EmptyStore, LegacyStore, DamagedStore, NoMarkerStore}
ReadableStore == {EmptyStore, LegacyStore}

ActorSymmetry == Permutations(Writers) \cup Permutations(Readers)

=============================================================================
