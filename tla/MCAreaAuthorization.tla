------------------------- MODULE MCAreaAuthorization -------------------------
(***************************************************************************)
(* Instance of AreaAuthorization for TLC.                                  *)
(***************************************************************************)
EXTENDS AreaAuthorization, TLC

Symmetry == Permutations(Area) \cup Permutations(Category)
=============================================================================
