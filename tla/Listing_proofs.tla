--------------------------- MODULE Listing_proofs ---------------------------
(***************************************************************************)
(* Proofs about module Listing, for any objects and any way of cutting     *)
(* them into pages.                                                        *)
(***************************************************************************)
EXTENDS Listing, TLAPS

(* No step breaks the account of what has come and what is to come.        *)
LEMMA InvNext == ListingInv /\ [Next]_vars => ListingInv'
  <1> SUFFICES ASSUME ListingInv, [Next]_vars PROVE ListingInv'
    OBVIOUS
  <1> USE ListingAssumption DEF ListingInv, TypeOK, FailedIsNothing, NoToken, Tokens
  <1>1. CASE Change
    BY <1>1 DEF Change
  <1>2. CASE PageAnswered
    <2> PICK objects \in SUBSET Names, next \in Tokens :
          /\ Page(objects, next)
          /\ items' = items \cup objects
          /\ token' = next
          /\ seenTokens' = seenTokens \cup ({next} \ {NoToken, Fresh})
          /\ pc' = IF next = NoToken THEN "listed" ELSE "more"
          /\ turn' = IF next = Fresh THEN ~ turn ELSE turn
      BY <1>2 DEF PageAnswered
    <2>1. asked' = (IF pc = "first" THEN world ELSE asked) /\ UNCHANGED <<honest, world, rows>>
          /\ pc \in {"first", "more"}
      BY <1>2 DEF PageAnswered
    <2>2. honest => items' \cup token' = asked'
      BY <2>1 DEF Page, Pending
    <2>3. TypeOK'
      BY <2>1
    <2> QED
      BY <2>1, <2>2, <2>3
  <1>3. CASE TokenRepeated
    BY <1>3 DEF TokenRepeated
  <1>4. CASE PageFailed
    BY <1>4 DEF PageFailed
  <1>5. CASE Convert
    BY <1>5 DEF Convert
  <1>6. CASE Refuse
    BY <1>6 DEF Refuse
  <1>7. CASE UNCHANGED vars
    BY <1>7 DEF vars
  <1> QED
    BY <1>1, <1>2, <1>3, <1>4, <1>5, <1>6, <1>7 DEF Next, Progress

(* The invariant on which both theorems rest.                              *)
THEOREM ListingInvariance == Spec => []ListingInv
  <1>1. Init => ListingInv
    BY ListingAssumption DEF Init, ListingInv, TypeOK, FailedIsNothing, NoToken, Tokens
  <1> QED
    BY <1>1, InvNext, PTL DEF Spec

(* A complete listing is a snapshot of the cluster, however it is paged    *)
(* and whatever changes between the pages.                                 *)
THEOREM ListingIsAtomic == Spec => []CompleteIsSnapshot
  <1>1. ListingInv => CompleteIsSnapshot
    BY DEF ListingInv, CompleteIsSnapshot, NoToken
  <1> QED
    BY <1>1, ListingInvariance, PTL

(* A failed listing leaves no trace in the cycle's rows, whatever the      *)
(* server did.                                                             *)
THEOREM NoHalfAnswers == Spec => []FailedIsNothing
  <1>1. ListingInv => FailedIsNothing
    BY DEF ListingInv
  <1> QED
    BY <1>1, ListingInvariance, PTL

=============================================================================
