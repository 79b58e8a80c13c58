-------------------------- MODULE MCMobileSession --------------------------
(***************************************************************************)
(* An instance of MobileSession for TLC.                                   *)
(***************************************************************************)
EXTENDS MobileSession, TLC

Symmetry == Permutations(Phone) \cup Permutations(Request) \cup Permutations(Token)
=============================================================================
