-------------------------- MODULE MCDeduplication --------------------------
(***************************************************************************)
(* Instances of Deduplication for TLC.                                     *)
(***************************************************************************)
EXTENDS Deduplication, TLC

CONSTANTS c1, c2, c3, k1

\* The window of every factor but the room's entry and exit, in seconds.
OneWindow == k1 :> 10

(***************************************************************************)
(* The SELECT only looks at how far apart two check-ins are, so shifting   *)
(* or mirroring all times of a behaviour gives another behaviour with the  *)
(* same duplicates.  Once all rows are there, one of each such family is   *)
(* kept: its first row is at 0, and most of its rows are early.            *)
(***************************************************************************)
TimesUpToShiftAndMirror ==
  (\A c \in Checkin : Committed(c)) =>
    /\ \E c \in Checkin : checkinAt[c] = 0
    /\ checkinAt[c1] + checkinAt[c2] + checkinAt[c3] <= 24

Symmetry == Permutations(Checkin) \cup Permutations(Worker)
=============================================================================
