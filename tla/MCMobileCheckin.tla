--------------------------- MODULE MCMobileCheckin ---------------------------
(***************************************************************************)
(* Instances of MobileCheckin for TLC.                                     *)
(***************************************************************************)
EXTENDS MobileCheckin, TLC

CONSTANT s1

\* A class, then no class.
ClassThenBreak == (0 :> {s1}) @@ (1 :> {})
=============================================================================
