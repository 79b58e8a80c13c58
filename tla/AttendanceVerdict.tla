------------------------- MODULE AttendanceVerdict -------------------------
(***************************************************************************)
(* What one evaluation makes of one student's canonical check-ins in one   *)
(* session: rebuildForPerson (presence-interval.service.ts) pairs the room *)
(* entries and exits, row by row, and evaluatePerson                       *)
(* (attendance-rules-engine.service.ts) turns the pairs and the factors    *)
(* seen into an outcome.  AttendanceDecision models what is done with it.  *)
(*                                                                         *)
(* The rows come ordered by checkin_at only, so rows of one instant come   *)
(* in any order.  The factors are read by an earlier statement, which may  *)
(* have missed rows that were committed since.  Times are whole minutes.   *)
(***************************************************************************)
EXTENDS Integers, Sequences, FiniteSets

CONSTANTS
  Time,           \* possible checkin_at values, in minutes without gaps
  SessionLength,  \* scheduled duration of the session, in minutes
  MinPercentage,  \* min_attendance_percentage_snapshot
  OtherFactor,    \* factor codes other than room entry and exit
  MaxRows,        \* most room check-ins a student has in the session (a bound)
  Null            \* null

RoomFactor == {"ROOM_ENTRY", "ROOM_EXIT"}
Factor     == RoomFactor \cup OtherFactor
Verdict    == {"missing_factor", "missing_exit", "present", "absent"}

ASSUME AttendanceVerdictAssumption ==
  /\ Time \subseteq Int /\ \A s, u \in Time : s .. u \subseteq Time
  /\ SessionLength \in Nat
  /\ MinPercentage \in 0 .. 100
  /\ MaxRows \in Nat
  /\ Null \notin Time
  /\ Null \notin Verdict
  /\ OtherFactor \cap RoomFactor = {}

VARIABLES
  required,     \* the factors the session's snapshot requires
  satisfied,    \* the factor codes the first query returned
  rows,         \* the room check-ins the second query returned
  next,         \* index of the row the loop is at
  openEntryAt,  \* entry waiting for its exit
  closed,       \* closedIntervals
  verdict       \* what the evaluation concludes, Null until then

input       == <<required, satisfied, rows>>
verdictVars == <<input, next, openEntryAt, closed, verdict>>

Row      == [at : Time, code : RoomFactor]
Interval == [entryAt : Time, exitAt : Time]

Codes == {rows[j].code : j \in DOMAIN rows}

\* ORDER BY checkin_at ASC.
Ordered(s) == \A j, k \in DOMAIN s : j <= k => s[j].at <= s[k].at

VerdictTypeOK ==
  /\ required \subseteq Factor
  /\ satisfied \subseteq Factor
  /\ rows \in Seq(Row)
  /\ next \in 1 .. Len(rows) + 1
  /\ openEntryAt \in Time \cup {Null}
  /\ closed \in Seq(Interval)
  /\ verdict \in Verdict \cup {Null}

VerdictInit ==
  /\ required \in SUBSET Factor
  /\ satisfied \in SUBSET Factor
  /\ rows \in UNION {[1 .. n -> Row] : n \in 0 .. MaxRows}
  /\ Ordered(rows)
  /\ satisfied \cap RoomFactor \subseteq Codes
  /\ next = 1
  /\ openEntryAt = Null
  /\ closed = <<>>
  /\ verdict = Null

-----------------------------------------------------------------------------
\* A mutant of Entered: the first of two entries in a row is kept.
FirstEntered == IF openEntryAt = Null THEN rows[next].at ELSE openEntryAt

\* A mutant of Entered: presence counts from the minute after the entry.
MinuteAfter == rows[next].at + 1

\* Two entries in a row: the later one is the active entry.
Entered == rows[next].at

RoomEntry ==
  /\ next \in DOMAIN rows
  /\ rows[next].code = "ROOM_ENTRY"
  /\ openEntryAt' = Entered
  /\ next' = next + 1
  /\ UNCHANGED <<input, closed, verdict>>

AfterExit == Null

RoomExit ==
  /\ next \in DOMAIN rows
  /\ rows[next].code = "ROOM_EXIT"
  /\ openEntryAt # Null
  /\ closed' = Append(closed, [entryAt |-> openEntryAt, exitAt |-> rows[next].at])
  /\ openEntryAt' = AfterExit
  /\ next' = next + 1
  /\ UNCHANGED <<input, verdict>>

\* An exit with no preceding entry is ignored.
UnpairedExit ==
  /\ next \in DOMAIN rows
  /\ rows[next].code = "ROOM_EXIT"
  /\ openEntryAt = Null
  /\ next' = next + 1
  /\ UNCHANGED <<input, openEntryAt, closed, verdict>>

-----------------------------------------------------------------------------
Done == next = Len(rows) + 1

\* A mutant of HasOpenInterval: entries and exits are counted, not paired.
MoreEntriesThanExits ==
  Cardinality({j \in DOMAIN rows : rows[j].code = "ROOM_ENTRY"})
    > Cardinality({j \in DOMAIN rows : rows[j].code = "ROOM_EXIT"})

HasOpenInterval == openEntryAt # Null

\* ROOM_EXIT is left to the open-interval check.
MissingFactors == (required \ {"ROOM_EXIT"}) \ satisfied

\* A mutant of TotalMinutes: the whole stay, from first entry to last exit.
FirstEntryToLastExit ==
  IF closed = <<>> THEN 0 ELSE closed[Len(closed)].exitAt - closed[1].entryAt

\* closedIntervals.reduce
MinutesUpTo[k \in 0 .. Len(closed)] ==
  IF k = 0 THEN 0 ELSE MinutesUpTo[k - 1] + (closed[k].exitAt - closed[k].entryAt)

TotalMinutes == MinutesUpTo[Len(closed)]

\* percentage >= minimum, where percentage is 0 for a session without duration.
Attended ==
  IF SessionLength > 0 THEN TotalMinutes * 100 >= MinPercentage * SessionLength
  ELSE MinPercentage = 0

Concluded ==
  IF MissingFactors # {} THEN "missing_factor"
  ELSE IF "ROOM_EXIT" \in required /\ HasOpenInterval THEN "missing_exit"
  ELSE IF RoomFactor \subseteq required /\ ~Attended THEN "absent"
  ELSE "present"

\* The rest of evaluatePerson, once the loop is over.
Conclude ==
  /\ Done
  /\ verdict = Null
  /\ verdict' = Concluded
  /\ UNCHANGED <<input, next, openEntryAt, closed>>

VerdictNext == RoomEntry \/ RoomExit \/ UnpairedExit \/ Conclude

VerdictSpec == VerdictInit /\ [][VerdictNext]_verdictVars /\ WF_verdictVars(VerdictNext)

-----------------------------------------------------------------------------
(***************************************************************************)
(* The loop pairs an entry with an exit exactly when the exit is the very  *)
(* next room check-in: a forgotten exit or a forgotten entry never makes a *)
(* pair across other check-ins, and no exit is used twice.                 *)
(***************************************************************************)
PairAt(j) == rows[j].code = "ROOM_ENTRY" /\ rows[j + 1].code = "ROOM_EXIT"

PairsAreNeighbours ==
  /\ \A k \in DOMAIN closed : \E j \in 1 .. next - 2 :
       PairAt(j) /\ closed[k] = [entryAt |-> rows[j].at, exitAt |-> rows[j + 1].at]
  /\ Len(closed) = Cardinality({j \in 1 .. next - 2 : PairAt(j)})

(***************************************************************************)
(* Presence is never counted twice: the closed intervals come one after    *)
(* the other and do not overlap, whatever the order of simultaneous rows.  *)
(***************************************************************************)
IntervalsDoNotOverlap ==
  /\ \A k \in DOMAIN closed : closed[k].entryAt <= closed[k].exitAt
  /\ \A j, k \in DOMAIN closed : j < k => closed[j].exitAt <= closed[k].entryAt

(***************************************************************************)
(* The total is the time actually spent inside: as many minutes as there   *)
(* are minutes that lie between an entry and the exit right after it.      *)
(***************************************************************************)
InsideAt(t) ==
  \E j \in 1 .. Len(rows) - 1 : PairAt(j) /\ rows[j].at <= t /\ t < rows[j + 1].at

TotalIsTimeInside ==
  Done => TotalMinutes = Cardinality({t \in Time : InsideAt(t)})

(***************************************************************************)
(* A student whose latest room check-in is an entry is never graded when   *)
(* the session tracks exits, and a student who left is never sent to       *)
(* review for a missing exit.                                              *)
(***************************************************************************)
MissingExitMeansStillInside ==
  /\ verdict = "missing_exit" => "ROOM_EXIT" \in required
  /\ "ROOM_EXIT" \in required /\ verdict \in {"missing_exit", "present", "absent"} =>
       (verdict = "missing_exit" <=> rows # <<>> /\ rows[Len(rows)].code = "ROOM_ENTRY")
=============================================================================
