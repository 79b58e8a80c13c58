-------------------------- MODULE MCAttendanceConfig --------------------------
(***************************************************************************)
(* Instance of AttendanceConfig for TLC.                                   *)
(***************************************************************************)
EXTENDS AttendanceConfig, TLC

Symmetry ==
  Permutations(Admin) \cup Permutations(ConfigId) \cup Permutations(Rules)
    \cup Permutations(Factor) \cup Permutations(Session)
=============================================================================
