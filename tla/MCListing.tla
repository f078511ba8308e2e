----------------------------- MODULE MCListing -----------------------------
(***************************************************************************)
(* Small instances of Listing for TLC.                                     *)
(***************************************************************************)
EXTENDS Listing, TLC

CONSTANTS o1, o2, o3

ThreeNames == {o1, o2, o3}
OneMalformed == {o1}

=============================================================================
