------------------------ MODULE MCIntrusionIncident ------------------------
(***************************************************************************)
(* Instances of IntrusionIncident for TLC.                                 *)
(***************************************************************************)
EXTENDS IntrusionIncident, TLC

Symmetry ==
  Permutations(Signal) \cup Permutations(Area) \cup Permutations(Incident)
    \cup Permutations(Detector) \cup Permutations(Closer) \cup Permutations(Staff)
=============================================================================
