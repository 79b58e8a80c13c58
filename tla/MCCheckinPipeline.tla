------------------------- MODULE MCCheckinPipeline -------------------------
(***************************************************************************)
(* An instance of CheckinPipeline for TLC.                                 *)
(***************************************************************************)
EXTENDS CheckinPipeline, TLC

CONSTANTS s1, s2

\* Two sessions that overlap at the last instant of the first.
TwoSessions == [s \in Session |-> IF s = s1 THEN [start |-> 0, end |-> 1]
                                            ELSE [start |-> 1, end |-> 1]]

\* Check-ins of one instant are duplicates, later ones are not.
SameInstant == [k \in Key |-> 0]

(***************************************************************************)
(* A tag read in the room at 1, a head count, and custom events captured   *)
(* at 0 that name the session at 1, with a room and without one; the       *)
(* custom factor is the one of the app.                                    *)
(***************************************************************************)
Posted(signal, factor, room, t, s) ==
  [signal |-> signal, factor |-> factor, room |-> room, capturedAt |-> t, session |-> s]
FourEnvelopes ==
  {Posted("tag", "tag", TRUE, 1, None), Posted("count", None, TRUE, 0, None),
   Posted("custom", "app", TRUE, 0, s2), Posted("custom", "app", FALSE, 0, s2)}

Symmetry == Permutations(Request) \cup Permutations(Identifier)
=============================================================================
