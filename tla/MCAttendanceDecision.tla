------------------------ MODULE MCAttendanceDecision ------------------------
(***************************************************************************)
(* Instances of AttendanceDecision for TLC.                                *)
(***************************************************************************)
EXTENDS AttendanceDecision, TLC

Symmetry ==
  Permutations(Person) \cup Permutations(Review) \cup Permutations(Evaluator)
    \cup Permutations(Resolver) \cup Permutations(Leader)
=============================================================================
