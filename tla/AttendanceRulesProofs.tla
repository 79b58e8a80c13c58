------------------------ MODULE AttendanceRulesProofs ------------------------
(***************************************************************************)
(* Proofs about the attendance rules: first the pairing of a student's     *)
(* room check-ins and the verdict on them, for any number of check-ins,    *)
(* any times and any configuration of the session; then the decisions on   *)
(* students, for any roster, any number of overlapping evaluations and     *)
(* resolutions, and any leadership chain.                                  *)
(***************************************************************************)
EXTENDS AttendanceDecision, AttendanceVerdict, FiniteSetTheorems, TLAPS

-----------------------------------------------------------------------------
(***************************************************************************)
(* One student in one session: AttendanceVerdict.                          *)
(***************************************************************************)

(***************************************************************************)
(* What the loop knows when it comes to row next: an entry is open exactly *)
(* if the row before it is an entry, and everything closed lies before.    *)
(***************************************************************************)
EntryTracked ==
  openEntryAt = IF next > 1 /\ rows[next - 1].code = "ROOM_ENTRY"
                THEN rows[next - 1].at ELSE Null

ClosedIsPast ==
  /\ next = 1 => closed = <<>>
  /\ next > 1 => \A k \in DOMAIN closed : closed[k].exitAt <= rows[next - 1].at

VerdictInv ==
  /\ VerdictTypeOK
  /\ Ordered(rows)
  /\ EntryTracked
  /\ ClosedIsPast
  /\ IntervalsDoNotOverlap
  /\ PairsAreNeighbours
  /\ verdict # Null => Done
  /\ MissingExitMeansStillInside

-----------------------------------------------------------------------------
\* The neighbours paired before row next make a finite set.
LEMMA PairsFinite ==
  ASSUME NEW n \in Int
  PROVE  IsFiniteSet({j \in 1 .. n : PairAt(j)})
<1>1. IsFiniteSet(1 .. n)
  BY FS_Interval
<1>2. {j \in 1 .. n : PairAt(j)} \in SUBSET (1 .. n)
  OBVIOUS
<1> QED  BY <1>1, <1>2, FS_Subset

\* The invariant holds before the loop starts.
LEMMA VerdictInitInv == VerdictInit => VerdictInv
<1> SUFFICES ASSUME VerdictInit PROVE VerdictInv
  OBVIOUS
<1> USE AttendanceVerdictAssumption DEF VerdictInit
<1>1. VerdictTypeOK
  <2>1. rows \in Seq(Row)
    OBVIOUS
  <2>2. closed \in Seq(Interval)
    OBVIOUS
  <2> QED  BY <2>1, <2>2 DEF VerdictTypeOK
<1>2. EntryTracked /\ ClosedIsPast /\ IntervalsDoNotOverlap
  BY DEF EntryTracked, ClosedIsPast, IntervalsDoNotOverlap
<1>3. PairsAreNeighbours
  <2>1. {j \in 1 .. next - 2 : PairAt(j)} = {}
    OBVIOUS
  <2> QED  BY <2>1, FS_EmptySet DEF PairsAreNeighbours
<1>4. MissingExitMeansStillInside
  BY DEF MissingExitMeansStillInside, Verdict
<1> QED  BY <1>1, <1>2, <1>3, <1>4 DEF VerdictInv

-----------------------------------------------------------------------------
\* Where the row at next does not close a pair, there are no new neighbours.
LEMMA NoNewPair ==
  ASSUME VerdictTypeOK, next \in DOMAIN rows,
         next > 1 => ~PairAt(next - 1)
  PROVE  {j \in 1 .. next - 1 : PairAt(j)} = {j \in 1 .. next - 2 : PairAt(j)}
<1>1. next \in Int /\ next >= 1
  BY DEF VerdictTypeOK
<1>2. \A j \in 1 .. next - 1 : j \in 1 .. next - 2 \/ (j = next - 1 /\ next > 1)
  BY <1>1
<1>3. 1 .. next - 2 \subseteq 1 .. next - 1
  BY <1>1
<1> QED  BY <1>2, <1>3

\* The times the loop compares are integers.
LEMMA TimesAreIntegers ==
  ASSUME VerdictTypeOK
  PROVE  /\ \A j \in 1 .. Len(rows) : rows[j].at \in Time /\ rows[j].at \in Int
         /\ \A k \in DOMAIN closed : closed[k].entryAt \in Int /\ closed[k].exitAt \in Int
<1>1. \A j \in 1 .. Len(rows) : rows[j] \in Row
  BY DEF VerdictTypeOK
<1>2. \A k \in DOMAIN closed : closed[k] \in Interval
  BY DEF VerdictTypeOK
<1> QED  BY <1>1, <1>2, AttendanceVerdictAssumption DEF Row, Interval

\* A row that closes no interval keeps what holds of the closed ones.
LEMMA NothingClosed ==
  ASSUME VerdictInv, next \in DOMAIN rows, next' = next + 1, UNCHANGED <<input, closed>>,
         next > 1 => ~PairAt(next - 1)
  PROVE  ClosedIsPast' /\ IntervalsDoNotOverlap' /\ PairsAreNeighbours'
<1> USE AttendanceVerdictAssumption DEF input
<1>1. /\ next \in 1 .. Len(rows)
      /\ rows \in Seq(Row)
      /\ closed \in Seq(Interval)
  BY DEF VerdictInv, VerdictTypeOK
<1>2. ClosedIsPast'
  <2>1. CASE next = 1
    BY <2>1 DEF VerdictInv, ClosedIsPast
  <2>2. CASE next > 1
    <3>1. rows[next - 1].at <= rows[next].at
      BY <1>1, <2>2 DEF VerdictInv, Ordered
    <3>2. rows[next - 1].at \in Int /\ rows[next].at \in Int
      BY <1>1, <2>2, TimesAreIntegers DEF VerdictInv
    <3>3. \A k \in DOMAIN closed : closed[k].exitAt \in Int
      BY TimesAreIntegers DEF VerdictInv
    <3>4. \A k \in DOMAIN closed : closed[k].exitAt <= rows[next - 1].at
      BY <2>2 DEF VerdictInv, ClosedIsPast
    <3>5. \A k \in DOMAIN closed : closed[k].exitAt <= rows[next].at
      BY <3>1, <3>2, <3>3, <3>4
    <3>6. next' - 1 = next /\ next' # 1 /\ next' > 1
      BY <1>1
    <3> QED  BY <3>5, <3>6 DEF ClosedIsPast
  <2> QED  BY <1>1, <2>1, <2>2
<1>3. IntervalsDoNotOverlap'
  BY DEF VerdictInv, IntervalsDoNotOverlap
<1>4. PairsAreNeighbours'
  <2>1. {j \in 1 .. next - 1 : PairAt(j)} = {j \in 1 .. next - 2 : PairAt(j)}
    BY NoNewPair DEF VerdictInv
  <2>2. next' - 2 = next - 1
    BY <1>1
  <2>3. \A j : PairAt(j)' <=> PairAt(j)
    BY DEF PairAt
  <2>4. {j \in 1 .. next' - 2 : PairAt(j)'} = {j \in 1 .. next - 2 : PairAt(j)}
    BY <2>1, <2>2, <2>3
  <2>5. \A k \in DOMAIN closed : \E j \in 1 .. next' - 2 :
          PairAt(j) /\ closed[k] = [entryAt |-> rows[j].at, exitAt |-> rows[j + 1].at]
    BY <1>1, <2>2 DEF VerdictInv, PairsAreNeighbours
  <2>6. Len(closed) = Cardinality({j \in 1 .. next - 2 : PairAt(j)})
    BY DEF VerdictInv, PairsAreNeighbours
  <2> QED  BY <2>3, <2>4, <2>5, <2>6 DEF PairsAreNeighbours
<1> QED  BY <1>2, <1>3, <1>4

-----------------------------------------------------------------------------
\* A new closed interval starts at an entry and ends at the row right after it.
LEMMA PairClosed ==
  ASSUME VerdictInv, RoomExit
  PROVE  /\ next > 1
         /\ PairAt(next - 1)
         /\ openEntryAt = rows[next - 1].at
         /\ closed' = Append(closed, [entryAt |-> rows[next - 1].at, exitAt |-> rows[next].at])
  BY DEF VerdictInv, VerdictTypeOK, EntryTracked, RoomExit, PairAt

\* Closing an interval keeps the closed ones in order.
LEMMA ClosingKeepsOrder ==
  ASSUME VerdictInv, RoomExit
  PROVE  ClosedIsPast' /\ IntervalsDoNotOverlap'
<1> DEFINE new == [entryAt |-> rows[next - 1].at, exitAt |-> rows[next].at]
<1>1. /\ next \in 1 .. Len(rows)
      /\ closed \in Seq(Interval)
      /\ next > 1
      /\ next' = next + 1
      /\ rows' = rows
  BY PairClosed DEF VerdictInv, VerdictTypeOK, RoomExit, input
<1>2. /\ rows[next - 1].at <= rows[next].at
      /\ rows[next - 1].at \in Int
      /\ rows[next].at \in Int
  BY <1>1, TimesAreIntegers DEF VerdictInv, Ordered
<1>3. \A k \in DOMAIN closed : closed[k].entryAt \in Int /\ closed[k].exitAt \in Int
  BY TimesAreIntegers DEF VerdictInv
<1>4. \A k \in DOMAIN closed : closed[k].exitAt <= rows[next - 1].at
  BY <1>1 DEF VerdictInv, ClosedIsPast
<1>5. /\ Len(closed') = Len(closed) + 1
      /\ DOMAIN closed = 1 .. Len(closed)
      /\ DOMAIN closed' = 1 .. Len(closed) + 1
      /\ \A k \in DOMAIN closed : closed'[k] = closed[k]
      /\ closed'[Len(closed) + 1] = new
      /\ Len(closed) \in Nat
  BY <1>1, PairClosed
<1> HIDE DEF new
<1>6. new.entryAt = rows[next - 1].at /\ new.exitAt = rows[next].at
  BY DEF new
<1>7. \A k \in DOMAIN closed' : k \in DOMAIN closed \/ k = Len(closed) + 1
  BY <1>5
<1>8. ClosedIsPast'
  <2>1. \A k \in DOMAIN closed' : closed'[k].exitAt <= rows[next].at
    BY <1>2, <1>3, <1>4, <1>5, <1>6, <1>7
  <2> QED  BY <1>1, <2>1 DEF ClosedIsPast
<1>9. \A k \in DOMAIN closed' : closed'[k].entryAt <= closed'[k].exitAt
  BY <1>2, <1>5, <1>6, <1>7 DEF VerdictInv, IntervalsDoNotOverlap
<1>10. ASSUME NEW j \in DOMAIN closed', NEW k \in DOMAIN closed', j < k
       PROVE  closed'[j].exitAt <= closed'[k].entryAt
  <2>1. j \in DOMAIN closed
    BY <1>5, <1>10
  <2>2. CASE k \in DOMAIN closed
    BY <1>5, <1>10, <2>1, <2>2 DEF VerdictInv, IntervalsDoNotOverlap
  <2>3. CASE k = Len(closed) + 1
    BY <1>4, <1>5, <1>6, <2>1, <2>3
  <2> QED  BY <1>7, <2>2, <2>3
<1> QED  BY <1>8, <1>9, <1>10 DEF IntervalsDoNotOverlap

\* Closing an interval adds exactly the pair of neighbours just passed.
LEMMA ClosingAddsPair ==
  ASSUME VerdictInv, RoomExit
  PROVE  PairsAreNeighbours'
<1> DEFINE Before == {j \in 1 .. next - 2 : PairAt(j)}
           After  == {j \in 1 .. next - 1 : PairAt(j)}
           Pair(j) == [entryAt |-> rows[j].at, exitAt |-> rows[j + 1].at]
<1>1. /\ next \in 1 .. Len(rows)
      /\ closed \in Seq(Interval)
      /\ next > 1
      /\ next' = next + 1
      /\ rows' = rows
  BY PairClosed DEF VerdictInv, VerdictTypeOK, RoomExit, input
<1>2. After = Before \cup {next - 1}
  <2>1. next - 1 \in 1 .. next - 1 /\ PairAt(next - 1)
    BY <1>1, PairClosed
  <2>2. \A j \in 1 .. next - 1 : j \in 1 .. next - 2 \/ j = next - 1
    BY <1>1
  <2>3. 1 .. next - 2 \subseteq 1 .. next - 1
    BY <1>1
  <2> QED  BY <2>1, <2>2, <2>3
<1>3. next - 1 \notin Before
  BY <1>1
<1>4. Cardinality(After) = Cardinality(Before) + 1
  <2>1. IsFiniteSet(Before)
    BY <1>1, PairsFinite
  <2> HIDE DEF Before, After
  <2> QED  BY <1>2, <1>3, <2>1, FS_AddElement
<1>5. Len(closed) = Cardinality(Before)
  BY DEF VerdictInv, PairsAreNeighbours
<1>6. \A j : PairAt(j)' <=> PairAt(j)
  BY <1>1 DEF PairAt
<1>7. next' - 2 = next - 1
  BY <1>1
<1>8. {j \in 1 .. next' - 2 : PairAt(j)'} = After
  BY <1>6, <1>7
<1>9. closed' = Append(closed, Pair(next - 1))
  <2>1. rows[(next - 1) + 1] = rows[next]
    BY <1>1
  <2> QED  BY <2>1, PairClosed
<1>10. Len(closed') = Cardinality(After)
  BY <1>1, <1>4, <1>5, <1>9
<1>11. \A k \in DOMAIN closed : \E j \in 1 .. next - 1 : PairAt(j) /\ closed[k] = Pair(j)
  <2>1. 1 .. next - 2 \subseteq 1 .. next - 1
    BY <1>1
  <2> QED  BY <2>1 DEF VerdictInv, PairsAreNeighbours
<1>12. \A k \in DOMAIN closed' : \E j \in 1 .. next - 1 : PairAt(j) /\ closed'[k] = Pair(j)
  <2> SUFFICES ASSUME NEW k \in DOMAIN closed'
               PROVE  \E j \in 1 .. next - 1 : PairAt(j) /\ closed'[k] = Pair(j)
    OBVIOUS
  <2> HIDE DEF Pair
  <2>1. CASE k \in DOMAIN closed
    <3>1. closed'[k] = closed[k]
      BY <1>1, <1>9, <2>1
    <3> QED  BY <1>11, <2>1, <3>1
  <2>2. CASE k = Len(closed) + 1
    <3>1. closed'[k] = Pair(next - 1)
      BY <1>1, <1>9, <2>2
    <3>2. next - 1 \in 1 .. next - 1 /\ PairAt(next - 1)
      BY <1>1, PairClosed
    <3> QED  BY <3>1, <3>2
  <2> QED  BY <1>1, <1>9, <2>1, <2>2
<1> QED  BY <1>1, <1>6, <1>7, <1>8, <1>10, <1>12 DEF PairsAreNeighbours

-----------------------------------------------------------------------------
\* Every step keeps the types.
LEMMA NextType == VerdictTypeOK /\ [VerdictNext]_verdictVars => VerdictTypeOK'
<1> SUFFICES ASSUME VerdictTypeOK, [VerdictNext]_verdictVars PROVE VerdictTypeOK'
  OBVIOUS
<1> USE DEF VerdictTypeOK
<1>1. CASE RoomEntry
  <2>1. rows[next].at \in Time /\ next + 1 \in 1 .. Len(rows) + 1
    BY <1>1, TimesAreIntegers DEF RoomEntry
  <2> QED  BY <1>1, <2>1 DEF RoomEntry, Entered, input
<1>2. CASE RoomExit
  <2>1. rows[next].at \in Time /\ next + 1 \in 1 .. Len(rows) + 1
    BY <1>2, TimesAreIntegers DEF RoomExit
  <2>2. [entryAt |-> openEntryAt, exitAt |-> rows[next].at] \in Interval
    BY <1>2, <2>1 DEF RoomExit, Interval
  <2> QED  BY <1>2, <2>1, <2>2 DEF RoomExit, AfterExit, input
<1>3. CASE UnpairedExit
  <2>1. next + 1 \in 1 .. Len(rows) + 1
    BY <1>3 DEF UnpairedExit
  <2> QED  BY <1>3, <2>1 DEF UnpairedExit, input
<1>4. CASE Conclude
  BY <1>4 DEF Conclude, Concluded, Verdict, input
<1>5. CASE UNCHANGED verdictVars
  BY <1>5 DEF verdictVars, input
<1> QED  BY <1>1, <1>2, <1>3, <1>4, <1>5 DEF VerdictNext

\* An outcome is only ever there once the loop is over.
LEMMA LoopIsBeforeOutcome ==
  ASSUME VerdictInv, next \in DOMAIN rows
  PROVE  verdict = Null /\ MissingExitMeansStillInside
<1>1. verdict = Null
  BY DEF VerdictInv, VerdictTypeOK, Done
<1> QED  BY <1>1, AttendanceVerdictAssumption DEF MissingExitMeansStillInside, Verdict

\* The conclusion agrees with the student's latest room check-in.
LEMMA ConclusionFits ==
  ASSUME VerdictInv, Conclude
  PROVE  MissingExitMeansStillInside'
<1>1. /\ next = Len(rows) + 1
      /\ rows \in Seq(Row)
      /\ rows' = rows
      /\ required' = required
      /\ verdict' = Concluded
  BY DEF VerdictInv, VerdictTypeOK, Conclude, Done, input
<1>2. openEntryAt # Null <=> rows # <<>> /\ rows[Len(rows)].code = "ROOM_ENTRY"
  <2>1. CASE rows = <<>>
    BY <1>1, <2>1 DEF VerdictInv, EntryTracked
  <2>2. CASE rows # <<>>
    <3>1. Len(rows) \in 1 .. Len(rows) /\ next > 1 /\ next - 1 = Len(rows)
      BY <1>1, <2>2
    <3>2. rows[Len(rows)].at # Null
      BY <3>1, TimesAreIntegers, AttendanceVerdictAssumption DEF VerdictInv
    <3> QED  BY <2>2, <3>1, <3>2 DEF VerdictInv, EntryTracked
  <2> QED  BY <2>1, <2>2
<1> QED  BY <1>1, <1>2 DEF MissingExitMeansStillInside, Concluded, HasOpenInterval

\* No entry is open when the row before is none.
LEMMA NoPairOpen ==
  ASSUME VerdictInv, UnpairedExit, next > 1
  PROVE  ~PairAt(next - 1)
<1>1. next \in 1 .. Len(rows) /\ openEntryAt = Null
  BY DEF VerdictInv, VerdictTypeOK, UnpairedExit
<1>2. rows[next - 1].at # Null
  BY <1>1, TimesAreIntegers, AttendanceVerdictAssumption DEF VerdictInv
<1> QED  BY <1>1, <1>2 DEF VerdictInv, EntryTracked, PairAt

\* Every step keeps the invariant.
LEMMA VerdictNextInv == VerdictInv /\ [VerdictNext]_verdictVars => VerdictInv'
<1> SUFFICES ASSUME VerdictInv, [VerdictNext]_verdictVars PROVE VerdictInv'
  OBVIOUS
<1>1. VerdictTypeOK'
  BY NextType DEF VerdictInv
<1>2. CASE RoomEntry
  <2>1. /\ next \in 1 .. Len(rows) /\ next' = next + 1
        /\ rows' = rows /\ closed' = closed /\ verdict' = verdict
        /\ openEntryAt' = rows[next].at
        /\ rows[next].code = "ROOM_ENTRY"
    BY <1>2 DEF VerdictInv, VerdictTypeOK, RoomEntry, Entered, input
  <2>2. next > 1 => ~PairAt(next - 1)
    BY <2>1 DEF PairAt
  <2>3. EntryTracked'
    BY <2>1 DEF EntryTracked
  <2>4. ClosedIsPast' /\ IntervalsDoNotOverlap' /\ PairsAreNeighbours'
    BY <1>2, <2>1, <2>2, NothingClosed DEF RoomEntry
  <2>5. MissingExitMeansStillInside' /\ verdict' = Null
    BY <1>2, <2>1, LoopIsBeforeOutcome, AttendanceVerdictAssumption
       DEF MissingExitMeansStillInside, RoomEntry, Verdict
  <2> QED  BY <1>1, <2>1, <2>3, <2>4, <2>5 DEF VerdictInv, Ordered
<1>3. CASE RoomExit
  <2>1. /\ next \in 1 .. Len(rows) /\ next' = next + 1
        /\ rows' = rows /\ verdict' = verdict
        /\ openEntryAt' = Null
        /\ rows[next].code = "ROOM_EXIT"
    BY <1>3 DEF VerdictInv, VerdictTypeOK, RoomExit, AfterExit, input
  <2>2. EntryTracked'
    BY <2>1 DEF EntryTracked
  <2>3. MissingExitMeansStillInside' /\ verdict' = Null
    BY <1>3, <2>1, LoopIsBeforeOutcome, AttendanceVerdictAssumption
       DEF MissingExitMeansStillInside, RoomExit, Verdict
  <2> QED  BY <1>1, <1>3, <2>1, <2>2, <2>3, ClosingKeepsOrder, ClosingAddsPair DEF VerdictInv, Ordered
<1>4. CASE UnpairedExit
  <2>1. /\ next \in 1 .. Len(rows) /\ next' = next + 1
        /\ rows' = rows /\ closed' = closed /\ verdict' = verdict
        /\ openEntryAt = Null /\ openEntryAt' = Null
        /\ rows[next].code = "ROOM_EXIT"
    BY <1>4 DEF VerdictInv, VerdictTypeOK, UnpairedExit, input
  <2>2. next > 1 => ~PairAt(next - 1)
    BY <1>4, NoPairOpen
  <2>3. EntryTracked'
    BY <2>1 DEF EntryTracked
  <2>4. ClosedIsPast' /\ IntervalsDoNotOverlap' /\ PairsAreNeighbours'
    BY <1>4, <2>1, <2>2, NothingClosed DEF UnpairedExit
  <2>5. MissingExitMeansStillInside' /\ verdict' = Null
    BY <1>4, <2>1, LoopIsBeforeOutcome, AttendanceVerdictAssumption
       DEF MissingExitMeansStillInside, UnpairedExit, Verdict
  <2> QED  BY <1>1, <2>1, <2>3, <2>4, <2>5 DEF VerdictInv, Ordered
<1>5. CASE Conclude
  <2>1. UNCHANGED <<input, next, openEntryAt, closed>> /\ Done
    BY <1>5 DEF Conclude
  <2>2. /\ (Ordered(rows) /\ EntryTracked /\ ClosedIsPast)'
        /\ IntervalsDoNotOverlap'
        /\ Done'
    BY <2>1 DEF VerdictInv, input, Ordered, EntryTracked, ClosedIsPast, IntervalsDoNotOverlap, Done
  <2>3. PairsAreNeighbours'
    BY <2>1 DEF VerdictInv, input, PairsAreNeighbours, PairAt
  <2> QED  BY <1>1, <1>5, <2>2, <2>3, ConclusionFits DEF VerdictInv
<1>6. CASE UNCHANGED verdictVars
  BY <1>1, <1>6 DEF VerdictInv, verdictVars, input, Ordered, EntryTracked, ClosedIsPast,
     IntervalsDoNotOverlap, PairsAreNeighbours, PairAt, Done, MissingExitMeansStillInside
<1> QED  BY <1>2, <1>3, <1>4, <1>5, <1>6 DEF VerdictNext

-----------------------------------------------------------------------------
\* The strengthened invariant holds throughout.
LEMMA Invariance == VerdictSpec => []VerdictInv
  BY VerdictInitInv, VerdictNextInv, PTL DEF VerdictSpec

(***************************************************************************)
(* The values stay within their types, for all constants.                  *)
(***************************************************************************)
THEOREM VerdictTypeCorrect == VerdictSpec => []VerdictTypeOK
<1>1. VerdictInv => VerdictTypeOK
  BY DEF VerdictInv
<1> QED  BY <1>1, Invariance, PTL

(***************************************************************************)
(* rebuildForPerson pairs exactly the entries whose very next room         *)
(* check-in is an exit, each once.                                         *)
(***************************************************************************)
THEOREM ExactPairs == VerdictSpec => []PairsAreNeighbours
<1>1. VerdictInv => PairsAreNeighbours
  BY DEF VerdictInv
<1> QED  BY <1>1, Invariance, PTL

(***************************************************************************)
(* No minute of presence is counted twice.                                 *)
(***************************************************************************)
THEOREM NoOverlap == VerdictSpec => []IntervalsDoNotOverlap
<1>1. VerdictInv => IntervalsDoNotOverlap
  BY DEF VerdictInv
<1> QED  BY <1>1, Invariance, PTL

(***************************************************************************)
(* The engine sends a student to review for a missing exit exactly when    *)
(* exits are tracked and the latest room check-in is an entry.             *)
(***************************************************************************)
THEOREM MissingExitExact == VerdictSpec => []MissingExitMeansStillInside
<1>1. VerdictInv => MissingExitMeansStillInside
  BY DEF VerdictInv
<1> QED  BY <1>1, Invariance, PTL

-----------------------------------------------------------------------------
(***************************************************************************)
(* The total of the minutes.  What reduce computes is known from two facts *)
(* that every step of the loop keeps: there is a table of the sums of the  *)
(* first intervals, and the last entry of any such table is the number of  *)
(* the minutes inside the pairs up to row next.                            *)
(***************************************************************************)
Duration(i) == i.exitAt - i.entryAt

SumsOf(f, s) == f = [k \in 0 .. Len(s) |-> IF k = 0 THEN 0 ELSE f[k - 1] + Duration(s[k])]

InsideUpTo(n) ==
  {t \in Time : \E j \in 1 .. n - 2 : PairAt(j) /\ rows[j].at <= t /\ t < rows[j + 1].at}

TotalTracked ==
  /\ IsFiniteSet(InsideUpTo(next))
  /\ \E f : SumsOf(f, closed)
  /\ \A f : SumsOf(f, closed) => f[Len(closed)] = Cardinality(InsideUpTo(next))

LEMMA SumsOfNothing ==
  /\ \E f : SumsOf(f, <<>>)
  /\ \A f : SumsOf(f, <<>>) => f[0] = 0
<1>1. Len(<<>>) = 0 /\ 0 .. 0 = {0}
  OBVIOUS
<1>2. SumsOf([k \in {0} |-> 0], <<>>)
  BY <1>1 DEF SumsOf
<1>3. \A f : SumsOf(f, <<>>) => f[0] = 0
  BY <1>1 DEF SumsOf
<1> QED  BY <1>2, <1>3

LEMMA TotalInit == VerdictInit => TotalTracked
<1> SUFFICES ASSUME VerdictInit PROVE TotalTracked
  OBVIOUS
<1>1. InsideUpTo(next) = {}
  BY DEF VerdictInit, InsideUpTo
<1>2. IsFiniteSet({}) /\ Cardinality({}) = 0
  BY FS_EmptySet
<1>3. closed = <<>> /\ Len(closed) = 0
  BY DEF VerdictInit
<1> QED  BY <1>1, <1>2, <1>3, SumsOfNothing DEF TotalTracked

\* A row that closes no interval adds no minute.
LEMMA NoMinuteAdded ==
  ASSUME VerdictInv, TotalTracked, next \in DOMAIN rows, next' = next + 1, UNCHANGED <<input, closed>>,
         next > 1 => ~PairAt(next - 1)
  PROVE  TotalTracked'
<1>1. next \in Int /\ next >= 1 /\ rows' = rows /\ closed' = closed
  BY DEF VerdictInv, VerdictTypeOK, input
<1>2. \A j : j \in 1 .. next' - 2 => (PairAt(j)' <=> PairAt(j))
  BY <1>1 DEF PairAt
<1>3. \A j : j \in 1 .. next' - 2 /\ PairAt(j) <=> j \in 1 .. next - 2 /\ PairAt(j)
  BY <1>1
<1>4. InsideUpTo(next)' = InsideUpTo(next)
  BY <1>1, <1>2, <1>3 DEF InsideUpTo
<1> QED  BY <1>1, <1>4 DEF TotalTracked

\* A new closed interval adds the minutes between its entry and its exit, and
\* they were not counted before.
LEMMA MinutesAdded ==
  ASSUME VerdictInv, TotalTracked, RoomExit
  PROVE  /\ IsFiniteSet(InsideUpTo(next)')
         /\ Cardinality(InsideUpTo(next)')
              = Cardinality(InsideUpTo(next)) + (rows[next].at - rows[next - 1].at)
         /\ Cardinality(InsideUpTo(next)) \in Nat
<1> DEFINE entry == rows[next - 1].at
           exit == rows[next].at
           new == entry .. exit - 1
<1>1. /\ next \in 1 .. Len(rows) /\ next > 1 /\ next' = next + 1 /\ rows' = rows
      /\ PairAt(next - 1)
  BY PairClosed DEF VerdictInv, VerdictTypeOK, RoomExit, input
<1>2. /\ entry <= exit /\ entry \in Int /\ exit \in Int /\ entry \in Time /\ exit \in Time
  BY <1>1, TimesAreIntegers DEF VerdictInv, Ordered
<1>3. \A t \in Time : t \in Int
  BY AttendanceVerdictAssumption
<1>4. new \subseteq Time
  <2>1. entry .. exit \subseteq Time
    BY <1>2, AttendanceVerdictAssumption
  <2>2. new \subseteq entry .. exit
    BY <1>2
  <2> QED  BY <2>1, <2>2
<1>5. InsideUpTo(next)' = InsideUpTo(next) \cup new
  <2>1. \A j : j \in 1 .. next' - 2 <=> j \in 1 .. next - 2 \/ j = next - 1
    BY <1>1
  <2>2. \A j : PairAt(j)' <=> PairAt(j)
    BY <1>1 DEF PairAt
  <2>3. (next - 1) + 1 = next
    BY <1>1
  <2>4. InsideUpTo(next)' = {t \in Time : \E j \in 1 .. next' - 2 : PairAt(j) /\ rows[j].at <= t /\ t < rows[j + 1].at}
    BY <1>1, <2>2 DEF InsideUpTo
  <2>5. \A t \in Time : t \in new <=> PairAt(next - 1) /\ rows[next - 1].at <= t /\ t < rows[(next - 1) + 1].at
    BY <1>1, <1>2, <1>3, <2>3
  <2> HIDE DEF new
  <2> QED  BY <1>4, <2>1, <2>4, <2>5 DEF InsideUpTo
<1>6. InsideUpTo(next) \cap new = {}
  <2>1. ASSUME NEW t \in InsideUpTo(next) PROVE t < entry
    <3>1. PICK j \in 1 .. next - 2 : rows[j].at <= t /\ t < rows[j + 1].at
      BY DEF InsideUpTo
    <3>2. rows[j + 1].at <= rows[next - 1].at /\ rows[j + 1].at \in Int
      BY <1>1, TimesAreIntegers DEF VerdictInv, Ordered
    <3> QED  BY <1>2, <1>3, <3>1, <3>2 DEF InsideUpTo
  <2> QED  BY <1>2, <1>3, <2>1 DEF InsideUpTo
<1>7. IsFiniteSet(new) /\ Cardinality(new) = exit - entry
  <2>1. exit - 1 \in Int
    BY <1>2
  <2>2. /\ IsFiniteSet(new)
        /\ Cardinality(new) = IF entry > exit - 1 THEN 0 ELSE (exit - 1) - entry + 1
    BY <1>2, <2>1, FS_Interval
  <2> HIDE DEF new
  <2> QED  BY <1>2, <2>2
<1>8. IsFiniteSet(InsideUpTo(next)) /\ Cardinality(InsideUpTo(next)) \in Nat
  BY FS_CardinalityType DEF TotalTracked
<1>9. Cardinality(InsideUpTo(next) \cap new) = 0
  BY <1>6, FS_EmptySet
<1>10. /\ IsFiniteSet(InsideUpTo(next) \cup new)
       /\ Cardinality(InsideUpTo(next) \cup new) = Cardinality(InsideUpTo(next)) + (exit - entry) - 0
  <2> HIDE DEF new
  <2> QED  BY <1>7, <1>8, <1>9, FS_Union
<1> QED  BY <1>2, <1>5, <1>8, <1>10

\* So does the sum.
LEMMA SumsAppend ==
  ASSUME NEW s \in Seq(Interval), NEW i, NEW c,
         \E f : SumsOf(f, s), \A f : SumsOf(f, s) => f[Len(s)] = c
  PROVE  /\ \E f : SumsOf(f, Append(s, i))
         /\ \A f : SumsOf(f, Append(s, i)) => f[Len(Append(s, i))] = c + Duration(i)
<1> DEFINE n == Len(s)
           t == Append(s, i)
<1>1. /\ n \in Nat /\ Len(t) = n + 1
      /\ \A k \in 1 .. n : t[k] = s[k]
      /\ t[n + 1] = i
  OBVIOUS
<1> HIDE DEF n, t
<1>2. ASSUME NEW f, SumsOf(f, t) PROVE f[n + 1] = c + Duration(i)
  <2>1. f = [k \in 0 .. n + 1 |-> IF k = 0 THEN 0 ELSE f[k - 1] + Duration(t[k])]
    BY <1>1, <1>2 DEF SumsOf
  <2>2. PICK g : g = [k \in 0 .. n |-> f[k]]
    OBVIOUS
  <2>3. SumsOf(g, s)
    <3>1. \A k \in 0 .. n : f[k] = IF k = 0 THEN 0 ELSE f[k - 1] + Duration(s[k])
      BY <1>1, <2>1
    <3>2. \A k \in 0 .. n : k # 0 => k - 1 \in 0 .. n
      BY <1>1
    <3>3. \A k \in 0 .. n : g[k] = IF k = 0 THEN 0 ELSE g[k - 1] + Duration(s[k])
      BY <2>2, <3>1, <3>2
    <3> QED  BY <2>2, <3>3 DEF SumsOf, n
  <2>4. g[n] = c
    BY <2>3 DEF n
  <2>5. f[n] = c
    BY <1>1, <2>2, <2>4
  <2>6. n + 1 \in 0 .. n + 1 /\ n + 1 # 0 /\ (n + 1) - 1 = n
    BY <1>1
  <2>7. f[n + 1] = IF n + 1 = 0 THEN 0 ELSE f[(n + 1) - 1] + Duration(t[n + 1])
    BY <2>1, <2>6
  <2> QED  BY <1>1, <2>5, <2>6, <2>7
<1>3. \E f : SumsOf(f, t)
  <2>1. PICK f : SumsOf(f, s)
    OBVIOUS
  <2>2. \A k \in 0 .. n : f[k] = IF k = 0 THEN 0 ELSE f[k - 1] + Duration(s[k])
    BY <2>1 DEF SumsOf, n
  <2>3. PICK g : g = [k \in 0 .. n + 1 |-> IF k = n + 1 THEN f[n] + Duration(i) ELSE f[k]]
    OBVIOUS
  <2>4. ASSUME NEW k \in 0 .. n + 1
        PROVE  g[k] = IF k = 0 THEN 0 ELSE g[k - 1] + Duration(t[k])
    <3>1. CASE k = n + 1
      <4>1. k # 0 /\ k - 1 = n /\ k - 1 \in 0 .. n + 1 /\ k - 1 # n + 1
        BY <1>1, <3>1
      <4>2. g[k] = f[n] + Duration(i) /\ g[k - 1] = f[n]
        BY <2>3, <3>1, <4>1
      <4> QED  BY <1>1, <3>1, <4>1, <4>2
    <3>2. CASE k # n + 1
      <4>1. k \in 0 .. n /\ g[k] = f[k]
        BY <1>1, <2>3, <3>2
      <4>2. k # 0 => g[k - 1] = f[k - 1] /\ t[k] = s[k]
        BY <1>1, <2>3, <4>1
      <4> QED  BY <2>2, <4>1, <4>2
    <3> QED  BY <3>1, <3>2
  <2>5. SumsOf(g, t)
    BY <1>1, <2>3, <2>4 DEF SumsOf
  <2> QED  BY <2>5
<1> QED  BY <1>1, <1>2, <1>3 DEF t

LEMMA TotalNext == VerdictInv /\ TotalTracked /\ [VerdictNext]_verdictVars => TotalTracked'
<1> SUFFICES ASSUME VerdictInv, TotalTracked, [VerdictNext]_verdictVars PROVE TotalTracked'
  OBVIOUS
<1>1. CASE RoomEntry
  <2>1. next > 1 => ~PairAt(next - 1)
    BY <1>1 DEF RoomEntry, PairAt, VerdictInv, VerdictTypeOK
  <2> QED  BY <1>1, <2>1, NoMinuteAdded DEF RoomEntry
<1>2. CASE RoomExit
  <2>1. closed \in Seq(Interval)
    BY DEF VerdictInv, VerdictTypeOK
  <2>2. PICK i : i = [entryAt |-> rows[next - 1].at, exitAt |-> rows[next].at]
    OBVIOUS
  <2>3. closed' = Append(closed, i) /\ Duration(i) = rows[next].at - rows[next - 1].at
    BY <1>2, <2>2, PairClosed DEF Duration
  <2>4. /\ \E f : SumsOf(f, closed')
        /\ \A f : SumsOf(f, closed') =>
             f[Len(closed')] = Cardinality(InsideUpTo(next)) + (rows[next].at - rows[next - 1].at)
    BY <2>1, <2>3, SumsAppend DEF TotalTracked
  <2> QED  BY <1>2, <2>4, MinutesAdded DEF TotalTracked
<1>3. CASE UnpairedExit
  <2>1. next > 1 => ~PairAt(next - 1)
    BY <1>3, NoPairOpen
  <2> QED  BY <1>3, <2>1, NoMinuteAdded DEF UnpairedExit
<1>4. CASE Conclude \/ UNCHANGED verdictVars
  <2>1. rows' = rows /\ closed' = closed /\ next' = next
    BY <1>4 DEF Conclude, verdictVars, input
  <2>2. InsideUpTo(next)' = InsideUpTo(next)
    BY <2>1 DEF InsideUpTo, PairAt
  <2> QED  BY <2>1, <2>2 DEF TotalTracked
<1> QED  BY <1>1, <1>2, <1>3, <1>4 DEF VerdictNext

(***************************************************************************)
(* The total the grade rests on is the number of minutes the student was   *)
(* inside: between an entry and the exit right after it.                   *)
(***************************************************************************)
THEOREM TotalExact == VerdictSpec => []TotalIsTimeInside
<1>1. VerdictInv /\ TotalTracked => TotalIsTimeInside
  <2> SUFFICES ASSUME VerdictInv, TotalTracked, Done
               PROVE  TotalMinutes = Cardinality({t \in Time : InsideAt(t)})
    BY DEF TotalIsTimeInside
  <2>1. SumsOf(MinutesUpTo, closed)
    <3>1. PICK f : SumsOf(f, closed)
      BY DEF TotalTracked
    <3> QED  BY <3>1 DEF MinutesUpTo, SumsOf, Duration
  <2>2. TotalMinutes = Cardinality(InsideUpTo(next))
    BY <2>1 DEF TotalTracked, TotalMinutes
  <2>3. next - 2 = Len(rows) - 1
    BY DEF Done, VerdictInv, VerdictTypeOK
  <2>4. InsideUpTo(next) = {t \in Time : InsideAt(t)}
    BY <2>3 DEF InsideUpTo, InsideAt
  <2> QED  BY <2>2, <2>4
<1>2. VerdictInit => VerdictInv /\ TotalTracked
  BY VerdictInitInv, TotalInit
<1>3. VerdictInv /\ TotalTracked /\ [VerdictNext]_verdictVars => (VerdictInv /\ TotalTracked)'
  BY VerdictNextInv, TotalNext
<1> QED  BY <1>1, <1>2, <1>3, PTL DEF VerdictSpec

-----------------------------------------------------------------------------
(***************************************************************************)
(* Everybody on the roster, and who decides: AttendanceDecision.           *)
(***************************************************************************)

\* The statements of an evaluation that are about one student.
AtStudent == {"read", "find", "update", "insert", "findReview", "insertReview"}

\* The students for whom an evaluation cannot have written a review yet.
Ahead(e) == todo[e] \cup IF step[e] \in AtStudent THEN {student[e]} ELSE {}

\* Review r of evaluation e is written and not committed.
Staged(e, r) == stagedReview[e][r] # None

(***************************************************************************)
(* What an evaluation knows between two statements: whom it is at, and     *)
(* what it made of the evidence.  Once it has written the status it knows  *)
(* that it is pending, and before the INSERT that nobody opened a review.  *)
(***************************************************************************)
VisitOK(e) ==
  /\ step[e] \in EvaluatorStep
  /\ step[e] \in AtStudent => student[e] \in Person /\ student[e] \notin todo[e]
  /\ step[e] \in AtStudent \ {"read"} => outcome[e] \in Outcome
  /\ step[e] \in {"findReview", "insertReview"} =>
       outcome[e] \in Reason /\ stagedStatus[e][student[e]] = "pending"
  /\ step[e] = "insertReview" => ~HasOpenReview(student[e], outcome[e])

\* A status is written under the row's lock.
LocksStatuses(e) == \A p \in Person : stagedStatus[e][p] # None => rowLock[p] = e

(***************************************************************************)
(* A pending status has its review: committed, written by the same         *)
(* transaction, or about to be looked for.                                 *)
(***************************************************************************)
PendingIsCovered(e) ==
  \A p \in Person : stagedStatus[e][p] = "pending" =>
    \/ step[e] \in {"findReview", "insertReview"} /\ student[e] = p
    \/ \E r \in Review : Open(r) /\ review[r].person = p
    \/ \E r \in Review : Staged(e, r) /\ stagedReview[e][r].person = p

(***************************************************************************)
(* A written review is new, of a student already visited and locked, and   *)
(* the only open one of its student and reason.                            *)
(***************************************************************************)
ReviewsAreNew(e) ==
  \A r \in Review : Staged(e, r) =>
    /\ review[r] = None
    /\ stagedReview[e][r].resolvedBy = None
    /\ stagedReview[e][r].person \notin Ahead(e)
    /\ stagedStatus[e][stagedReview[e][r].person] # None
    /\ ~HasOpenReview(stagedReview[e][r].person, stagedReview[e][r].reason)
    /\ \A s \in Review : Staged(e, s) /\ stagedReview[e][s].person = stagedReview[e][r].person
                           => s = r
    /\ \A f \in Evaluator \ {e} : ~Staged(f, r)

\* Nothing is written outside a transaction.
IdleIsClean(e) ==
  step[e] = "idle" => /\ \A p \in Person : stagedStatus[e][p] = None
                      /\ \A r \in Review : ~Staged(e, r)

EvaluationOK(e) ==
  /\ VisitOK(e)
  /\ LocksStatuses(e)
  /\ PendingIsCovered(e)
  /\ ReviewsAreNew(e)
  /\ IdleIsClean(e)

\* A resolution is about a committed review, and commits under the row's lock.
ResolutionOK(q) ==
  /\ step[q] \in ResolverStep
  /\ step[q] # "idle" => request[q] \in Request /\ review[request[q].review] # None
  /\ step[q] = "commit" => rowLock[Reviewed(q)] = q

IInv ==
  /\ TypeOK
  /\ \A e \in Evaluator : EvaluationOK(e)
  /\ \A q \in Resolver : ResolutionOK(q)
  /\ OneOpenReviewPerReason
  /\ PendingHasOpenReview
  /\ ResolutionStaysRecorded

-----------------------------------------------------------------------------
\* The part of the state only evaluation e writes.
Own(e) == <<step[e], todo[e], student[e], outcome[e], stagedStatus[e], stagedReview[e]>>

\* NULL is no status, no row and no request.
LEMMA NullIsNothing ==
  /\ None \notin Status /\ None \notin ConsolidationRow /\ None \notin ReviewRow
  /\ None \notin Person /\ None \notin Evaluator /\ None \notin Resolver
  /\ None \notin Leader /\ None \notin Outcome /\ None \notin Request
BY AttendanceDecisionAssumption

\* What another transaction does under its own locks leaves an evaluation right.
LEMMA BystanderOK ==
  ASSUME TypeOK, NEW e \in Evaluator, EvaluationOK(e), Own(e)' = Own(e),
         \A p \in Person : rowLock[p] = e => rowLock'[p] = e,
         \A r \in Review : Open(r) /\ rowLock[review[r].person] = e => review'[r] = review[r],
         \A r \in Review : Open(r)' /\ rowLock[review'[r].person] = e => review'[r] = review[r],
         \A r \in Review : Staged(e, r) =>
           review'[r] = None /\ \A f \in Evaluator \ {e} : ~Staged(f, r)'
  PROVE  EvaluationOK(e)'
<1>1. /\ step'[e] = step[e] /\ todo'[e] = todo[e] /\ student'[e] = student[e]
      /\ outcome'[e] = outcome[e]
      /\ stagedStatus'[e] = stagedStatus[e] /\ stagedReview'[e] = stagedReview[e]
  BY DEF Own
<1>2. \A p \in Person : stagedStatus[e][p] # None => rowLock[p] = e
  BY DEF EvaluationOK, LocksStatuses
<1>3. \A p \in Person : \A reason : rowLock[p] = e /\ ~HasOpenReview(p, reason) => ~HasOpenReview(p, reason)'
  BY DEF HasOpenReview, Open
<1>4. \A p \in Person : stagedStatus[e][p] = "pending" => rowLock[p] = e
  BY <1>2, NullIsNothing DEF Status
<1>5. VisitOK(e)'
  <2>1. \A p \in Person : \A reason : step[e] = "insertReview" /\ p = student[e] /\ reason = outcome[e]
                                    => ~HasOpenReview(p, reason)'
    BY <1>3, <1>4 DEF EvaluationOK, VisitOK, AtStudent
  <2>2. (step[e] = "insertReview" => ~HasOpenReview(student[e], outcome[e]))'
    BY <1>1, <2>1 DEF EvaluationOK, VisitOK, AtStudent
  <2> QED  BY <1>1, <2>2 DEF EvaluationOK, VisitOK
<1>6. LocksStatuses(e)'
  BY <1>1, <1>2 DEF LocksStatuses
<1>7. PendingIsCovered(e)'
  <2> SUFFICES ASSUME NEW p \in Person, stagedStatus[e][p] = "pending",
                      NEW r \in Review, Open(r), review[r].person = p
               PROVE  Open(r)' /\ review'[r].person = p
    BY <1>1 DEF EvaluationOK, PendingIsCovered, Staged
  <2> QED  BY <1>4 DEF Open
<1>8. ReviewsAreNew(e)'
  <2> SUFFICES ASSUME NEW r \in Review, Staged(e, r)
               PROVE  (~HasOpenReview(stagedReview[e][r].person, stagedReview[e][r].reason))'
    BY <1>1 DEF EvaluationOK, ReviewsAreNew, Staged, Ahead
  <2>1. stagedReview[e][r] \in ReviewRow
    BY DEF TypeOK, Staged
  <2>2. rowLock[stagedReview[e][r].person] = e
    BY <1>2, <2>1 DEF EvaluationOK, ReviewsAreNew, ReviewRow
  <2>3. \A p \in Person : \A reason :
          p = stagedReview[e][r].person /\ reason = stagedReview[e][r].reason => ~HasOpenReview(p, reason)'
    BY <1>3, <2>1, <2>2 DEF EvaluationOK, ReviewsAreNew
  <2> QED  BY <1>1, <2>1, <2>3 DEF ReviewRow
<1>9. IdleIsClean(e)'
  BY <1>1 DEF EvaluationOK, IdleIsClean, Staged
<1> QED  BY <1>5, <1>6, <1>7, <1>8, <1>9 DEF EvaluationOK

\* Nor does it touch a resolution that waits or holds the row.
LEMMA ResolutionKept ==
  ASSUME NEW q \in Resolver, ResolutionOK(q), step'[q] = step[q], request'[q] = request[q],
         \A r \in Review : review[r] # None => review'[r] # None /\ review'[r].person = review[r].person,
         \A p \in Person : rowLock[p] = q => rowLock'[p] = q,
         review \in [Review -> ReviewRow \cup {None}]
  PROVE  ResolutionOK(q)'
<1>1. CASE step[q] = "idle"
  BY <1>1 DEF ResolutionOK, ResolverStep
<1>2. CASE step[q] # "idle"
  <2>1. request[q].review \in Review /\ review[request[q].review] \in ReviewRow
    BY <1>2 DEF ResolutionOK, Request
  <2>2. Reviewed(q)' = Reviewed(q) /\ Reviewed(q) \in Person
    BY <1>2, <2>1 DEF Reviewed, ReviewRow, ResolutionOK
  <2> QED  BY <1>2, <2>1, <2>2 DEF ResolutionOK
<1> QED  BY <1>1, <1>2

\* The tables decide the three properties.
Safe == OneOpenReviewPerReason /\ PendingHasOpenReview /\ ResolutionStaysRecorded

LEMMA SafeKept ==
  ASSUME Safe, UNCHANGED <<consolidation, review>>
  PROVE  Safe'
BY DEF Safe, OneOpenReviewPerReason, PendingHasOpenReview, ResolutionStaysRecorded, Open,
       Consolidated, Resolved

\* A statement of an evaluation before its COMMIT.
LEMMA StatementInv ==
  ASSUME IInv, NEW e \in Evaluator, TypeOK', EvaluationOK(e)',
         UNCHANGED <<consolidation, review, request>>,
         \A f \in Evaluator \ {e} : Own(f)' = Own(f),
         \A q \in Resolver : step'[q] = step[q],
         \A p \in Person : rowLock[p] \notin {None, e} => rowLock'[p] = rowLock[p],
         \A r \in Review, f \in Evaluator \ {e} : Staged(f, r) => ~Staged(e, r)'
  PROVE  IInv'
<1>1. ASSUME NEW f \in Evaluator \ {e} PROVE EvaluationOK(f)'
  <2>1. EvaluationOK(f) /\ \A r \in Review : Staged(f, r) =>
           review[r] = None /\ \A g \in Evaluator \ {f} : ~Staged(g, r)
    BY DEF IInv, EvaluationOK, ReviewsAreNew
  <2>2. \A g \in Evaluator \ {e}, r \in Review : Staged(g, r)' <=> Staged(g, r)
    BY DEF Staged, Own
  <2>3. \A r \in Review : Staged(f, r) => review'[r] = None /\ \A g \in Evaluator \ {f} : ~Staged(g, r)'
    BY <2>1, <2>2
  <2>4. \A p \in Person : rowLock[p] = f => rowLock'[p] = f
    BY NullIsNothing
  <2> QED  BY <2>1, <2>3, <2>4, BystanderOK DEF IInv
<1>2. ASSUME NEW q \in Resolver PROVE ResolutionOK(q)'
  <2>1. \A p \in Person : rowLock[p] = q => rowLock'[p] = q
    BY NullIsNothing, AttendanceDecisionAssumption
  <2> QED  BY <2>1, ResolutionKept DEF IInv, TypeOK
<1>3. Safe'
  BY SafeKept DEF Safe, IInv
<1> QED  BY <1>1, <1>2, <1>3 DEF Safe, IInv

LEMMA EvaluateSessionInv ==
  ASSUME IInv, NEW e \in Evaluator, EvaluateSession(e)
  PROVE  IInv'
<1> USE DEF EvaluateSession, Goto, tables, locks, visit, staged
<1>1. TypeOK'
  BY DEF IInv, TypeOK, EvaluatorStep
<1>2. step'[e] = "visit" /\ UNCHANGED <<review, rowLock, stagedStatus, stagedReview>>
  BY DEF IInv, TypeOK
<1>3. /\ \A p \in Person : stagedStatus[e][p] = None
      /\ \A r \in Review : ~Staged(e, r)
  BY DEF IInv, EvaluationOK, IdleIsClean
<1>4. EvaluationOK(e)'
  BY <1>2, <1>3, NullIsNothing
     DEF EvaluationOK, VisitOK, LocksStatuses, PendingIsCovered, ReviewsAreNew, IdleIsClean,
         Staged, AtStudent, EvaluatorStep, Status
<1>5. (\A f \in Evaluator \ {e} : Own(f)' = Own(f)) /\ \A q \in Resolver : step'[q] = step[q]
  BY AttendanceDecisionAssumption DEF IInv, TypeOK, Own
<1> QED  BY <1>1, <1>3, <1>4, <1>5, <1>2, StatementInv DEF Staged

LEMMA VisitStudentInv ==
  ASSUME IInv, NEW e \in Evaluator, NEW p \in Person, VisitStudent(e, p)
  PROVE  IInv'
<1> USE DEF VisitStudent, Goto, tables, locks, visit, staged
<1>1. TypeOK'
  <2>1. step' \in [Evaluator \cup Resolver -> EvaluatorStep \cup ResolverStep]
    BY DEF IInv, TypeOK, EvaluatorStep
  <2>2. todo' \in [Evaluator -> SUBSET Person] /\ student' \in [Evaluator -> Person \cup {None}]
    BY DEF IInv, TypeOK
  <2> QED  BY <2>1, <2>2 DEF IInv, TypeOK
<1>2. UNCHANGED <<review, rowLock, stagedStatus, stagedReview>> /\ Ahead(e)' \subseteq Ahead(e)
  BY DEF IInv, TypeOK, Ahead, AtStudent
<1>3. VisitOK(e)'
  BY DEF IInv, TypeOK, EvaluationOK, VisitOK, AtStudent, EvaluatorStep
<1>4. ReviewsAreNew(e)'
  BY <1>2 DEF IInv, EvaluationOK, ReviewsAreNew, Staged, HasOpenReview, Open
<1>5. LocksStatuses(e)' /\ PendingIsCovered(e)' /\ IdleIsClean(e)'
  BY <1>2 DEF IInv, TypeOK, EvaluationOK, LocksStatuses, PendingIsCovered, IdleIsClean, Staged, Open
<1>6. (\A f \in Evaluator \ {e} : Own(f)' = Own(f)) /\ \A q \in Resolver : step'[q] = step[q]
  BY AttendanceDecisionAssumption DEF IInv, TypeOK, Own
<1>7. \A r \in Review, f \in Evaluator \ {e} : Staged(f, r) => ~Staged(e, r)'
  BY <1>2 DEF IInv, EvaluationOK, ReviewsAreNew, Staged
<1> QED  BY <1>1, <1>2, <1>3, <1>4, <1>5, <1>6, <1>7, StatementInv DEF EvaluationOK

\* A statement that only reads.
LEMMA ReadInv ==
  ASSUME IInv, NEW e \in Evaluator, ReadEvidence(e) \/ FindConsolidation(e) \/ FindReview(e)
  PROVE  IInv'
<1> USE DEF ReadEvidence, FindConsolidation, FindReview, Goto, tables, locks, visit, staged
<1>1. TypeOK' /\ VisitOK(e) /\ step[e] \in {"read", "find", "findReview"}
  <2>1. VisitOK(e) /\ step[e] \in {"read", "find", "findReview"}
    BY DEF IInv, EvaluationOK
  <2>2. step' \in [Evaluator \cup Resolver -> EvaluatorStep \cup ResolverStep]
    BY DEF IInv, TypeOK, EvaluatorStep
  <2>3. outcome' \in [Evaluator -> Outcome \cup {None}]
    <3>1. CASE ReadEvidence(e)
      <4>1. evidence[student[e]] \in Outcome
        BY <2>1, <3>1 DEF IInv, TypeOK, VisitOK, AtStudent
      <4> QED  BY <3>1, <4>1 DEF IInv, TypeOK
    <3>2. CASE outcome' = outcome
      BY <3>2 DEF IInv, TypeOK
    <3> QED  BY <3>1, <3>2
  <2> QED  BY <2>1, <2>2, <2>3 DEF IInv, TypeOK
<1>2. UNCHANGED <<review, rowLock, stagedStatus, stagedReview>> /\ Ahead(e)' \subseteq Ahead(e)
  BY DEF IInv, TypeOK, Ahead, AtStudent
<1>3. VisitOK(e)'
  BY <1>1 DEF IInv, TypeOK, VisitOK, AtStudent, EvaluatorStep, HasOpenReview, Open
<1>4. ReviewsAreNew(e)'
  BY <1>2 DEF IInv, EvaluationOK, ReviewsAreNew, Staged, HasOpenReview, Open
<1>5. LocksStatuses(e)' /\ IdleIsClean(e)'
  BY <1>2 DEF IInv, TypeOK, EvaluationOK, LocksStatuses, IdleIsClean, Staged
<1>6. PendingIsCovered(e)'
  <2>1. PendingIsCovered(e)
    BY DEF IInv, EvaluationOK
  <2> QED  BY <1>1, <1>2, <2>1 DEF IInv, TypeOK, PendingIsCovered, Staged, HasOpenReview, Open
<1>7. (\A f \in Evaluator \ {e} : Own(f)' = Own(f)) /\ \A q \in Resolver : step'[q] = step[q]
  BY AttendanceDecisionAssumption DEF IInv, TypeOK, Own
<1>8. \A r \in Review, f \in Evaluator \ {e} : Staged(f, r) => ~Staged(e, r)'
  BY <1>2 DEF IInv, EvaluationOK, ReviewsAreNew, Staged
<1> QED  BY <1>1, <1>2, <1>3, <1>4, <1>5, <1>6, <1>7, <1>8, StatementInv DEF EvaluationOK

LEMMA WriteStatusInv ==
  ASSUME IInv, NEW e \in Evaluator, UpdateConsolidation(e) \/ InsertConsolidation(e)
  PROVE  IInv'
<1> USE DEF UpdateConsolidation, InsertConsolidation, WriteStatus, Goto, tables, visit
<1> DEFINE p == student[e]
<1>1. /\ step[e] \in {"update", "insert"} /\ p \in Person /\ outcome[e] \in Outcome
      /\ p \notin todo[e] /\ p \in Ahead(e)
  BY DEF IInv, EvaluationOK, VisitOK, AtStudent, Ahead
<1>2. /\ StatusFor(outcome[e]) \in Status
      /\ StatusFor(outcome[e]) = "pending" <=> outcome[e] \in Reason
  BY <1>1, AttendanceDecisionAssumption DEF StatusFor, Reason, Status
<1>3. TypeOK'
  <2>1. step' \in [Evaluator \cup Resolver -> EvaluatorStep \cup ResolverStep]
    <3>1. PICK s \in {"findReview", "visit"} : step' = [step EXCEPT ![e] = s]
      <4>1. CASE outcome[e] \in Reason
        BY <4>1
      <4>2. CASE outcome[e] \notin Reason
        BY <4>2
      <4> QED  BY <4>1, <4>2
    <3> QED  BY <3>1 DEF IInv, TypeOK, EvaluatorStep
  <2>2. rowLock' \in [Person -> Evaluator \cup Resolver \cup {None}]
    <3>1. rowLock \in [Person -> Evaluator \cup Resolver \cup {None}]
      BY DEF IInv, TypeOK
    <3>2. rowLock' = [rowLock EXCEPT ![p] = e]
      OBVIOUS
    <3> HIDE DEF p, UpdateConsolidation, InsertConsolidation
    <3> QED  BY <3>1, <3>2
  <2>3. stagedStatus' \in [Evaluator -> [Person -> Status \cup {None}]]
    <3>1. stagedStatus \in [Evaluator -> [Person -> Status \cup {None}]]
      BY DEF IInv, TypeOK
    <3>2. PICK x \in Status : stagedStatus' = [stagedStatus EXCEPT ![e][p] = x]
      BY <1>2
    <3>3. [stagedStatus[e] EXCEPT ![p] = x] \in [Person -> Status \cup {None}]
      BY <3>1
    <3>4. stagedStatus' = [stagedStatus EXCEPT ![e] = [stagedStatus[e] EXCEPT ![p] = x]]
      BY <3>2
    <3> HIDE DEF p, UpdateConsolidation, InsertConsolidation
    <3> QED  BY <3>1, <3>3, <3>4
  <2> QED  BY <2>1, <2>2, <2>3 DEF IInv, TypeOK
<1>4. /\ rowLock[p] = None /\ rowLock'[p] = e /\ \A q \in Person \ {p} : rowLock'[q] = rowLock[q]
      /\ stagedStatus'[e][p] = StatusFor(outcome[e])
      /\ \A q \in Person \ {p} : stagedStatus'[e][q] = stagedStatus[e][q]
      /\ UNCHANGED <<review, todo, student, outcome, stagedReview>>
      /\ step'[e] = IF outcome[e] \in Reason THEN "findReview" ELSE "visit"
  BY <1>1 DEF IInv, TypeOK
<1>5. Ahead(e)' \subseteq Ahead(e)
  BY <1>1, <1>4 DEF Ahead
<1>6. VisitOK(e)'
  BY <1>1, <1>2, <1>4 DEF VisitOK, AtStudent, EvaluatorStep
<1>7. LocksStatuses(e)'
  BY <1>4 DEF IInv, EvaluationOK, LocksStatuses
<1>8. PendingIsCovered(e)'
  BY <1>1, <1>2, <1>4 DEF IInv, EvaluationOK, PendingIsCovered, Staged, Open
<1>9. ReviewsAreNew(e)'
  <2>1. \A q \in Person : stagedStatus[e][q] # None => stagedStatus'[e][q] # None
    BY <1>2, <1>4, NullIsNothing
  <2>2. \A r \in Review : Staged(e, r) => stagedReview[e][r].person \in Person
    BY DEF IInv, TypeOK, Staged, ReviewRow
  <2> QED  BY <1>4, <1>5, <2>1, <2>2 DEF IInv, EvaluationOK, ReviewsAreNew, Staged, HasOpenReview, Open
<1>10. IdleIsClean(e)'
  BY <1>4 DEF IdleIsClean
<1>11. (\A f \in Evaluator \ {e} : Own(f)' = Own(f)) /\ \A q \in Resolver : step'[q] = step[q]
  BY AttendanceDecisionAssumption DEF IInv, TypeOK, Own
<1>12. \A r \in Review, f \in Evaluator \ {e} : Staged(f, r) => ~Staged(e, r)'
  BY <1>4 DEF IInv, EvaluationOK, ReviewsAreNew, Staged
<1>13. \A q \in Person : rowLock[q] \notin {None, e} => rowLock'[q] = rowLock[q]
  BY <1>4
<1> QED
  BY <1>3, <1>4, <1>6, <1>7, <1>8, <1>9, <1>10, <1>11, <1>12, <1>13, StatementInv DEF EvaluationOK

LEMMA InsertReviewInv ==
  ASSUME IInv, NEW e \in Evaluator, NEW r \in Review, InsertReview(e, r)
  PROVE  IInv'
<1> USE DEF InsertReview, Goto, tables, locks, visit
<1> DEFINE p == student[e]
           new == [person |-> p, reason |-> outcome[e], resolvedBy |-> None]
<1>1. /\ step[e] = "insertReview" /\ p \in Person /\ outcome[e] \in Reason
      /\ p \notin todo[e] /\ p \in Ahead(e) /\ stagedStatus[e][p] = "pending"
      /\ ~HasOpenReview(p, outcome[e])
  BY DEF IInv, EvaluationOK, VisitOK, AtStudent, Ahead
<1>2. new \in ReviewRow /\ new # None
  BY <1>1, NullIsNothing DEF ReviewRow
<1>3. TypeOK'
  BY <1>2 DEF IInv, TypeOK, EvaluatorStep
<1>4. /\ stagedReview'[e][r] = new /\ \A s \in Review \ {r} : stagedReview'[e][s] = stagedReview[e][s]
      /\ UNCHANGED <<review, rowLock, todo, student, outcome, stagedStatus>>
      /\ step'[e] = "visit" /\ ~Staged(e, r) /\ review[r] = None
      /\ \A f \in Evaluator \ {e} : stagedReview'[f] = stagedReview[f] /\ ~Staged(f, r)
  BY <1>1 DEF IInv, TypeOK, Staged
<1>5. Ahead(e)' = Ahead(e) \ {p}
  BY <1>1, <1>4 DEF Ahead, AtStudent
<1>6. VisitOK(e)' /\ IdleIsClean(e)' /\ LocksStatuses(e)'
  BY <1>4 DEF IInv, EvaluationOK, VisitOK, IdleIsClean, LocksStatuses, EvaluatorStep, AtStudent
<1>7. PendingIsCovered(e)'
  <2> SUFFICES ASSUME NEW s \in Person, stagedStatus[e][s] = "pending"
               PROVE  \/ \E t \in Review : Open(t) /\ review[t].person = s
                      \/ \E t \in Review : Staged(e, t)' /\ stagedReview'[e][t].person = s
    BY <1>4 DEF PendingIsCovered, Open
  <2>1. CASE s = p
    BY <1>2, <1>4, <2>1 DEF Staged
  <2>2. CASE s # p
    BY <1>4, <2>2 DEF IInv, EvaluationOK, PendingIsCovered, Staged
  <2> QED  BY <2>1, <2>2
<1>8. ReviewsAreNew(e)'
  <2>1. \A s \in Review \ {r} : Staged(e, s)' <=> Staged(e, s)
    BY <1>4 DEF Staged
  <2>2. \A f \in Evaluator \ {e}, s \in Review : Staged(f, s)' <=> Staged(f, s)
    BY <1>4 DEF Staged
  <2>3. \A s \in Review \ {r} : Staged(e, s) => stagedReview[e][s].person # p
    BY <1>1 DEF IInv, EvaluationOK, ReviewsAreNew
  <2>4. ASSUME NEW s \in Review \ {r}, Staged(e, s)
        PROVE  /\ review'[s] = None
               /\ stagedReview'[e][s].resolvedBy = None
               /\ stagedReview'[e][s].person \notin Ahead(e)'
               /\ stagedStatus'[e][stagedReview'[e][s].person] # None
               /\ (~HasOpenReview(stagedReview[e][s].person, stagedReview[e][s].reason))'
               /\ \A t \in Review : Staged(e, t)' /\ stagedReview'[e][t].person = stagedReview'[e][s].person
                                      => t = s
               /\ \A f \in Evaluator \ {e} : ~Staged(f, s)'
    <3>1. stagedReview'[e][s] = stagedReview[e][s]
      BY <1>4
    <3>2. \A t \in Review \ {r} : Staged(e, t) /\ stagedReview[e][t].person = stagedReview[e][s].person
                                    => t = s
      BY <2>4 DEF IInv, EvaluationOK, ReviewsAreNew
    <3>3. \A t \in Review : Staged(e, t)' /\ stagedReview'[e][t].person = stagedReview'[e][s].person
                              => t = s
      BY <1>4, <2>1, <2>3, <2>4, <3>1, <3>2
    <3>4. (~HasOpenReview(stagedReview[e][s].person, stagedReview[e][s].reason))'
      BY <1>4, <2>4, <3>1 DEF IInv, EvaluationOK, ReviewsAreNew, HasOpenReview, Open
    <3> QED
      BY <1>4, <1>5, <2>2, <2>4, <3>1, <3>3, <3>4 DEF IInv, EvaluationOK, ReviewsAreNew
  <2>5. /\ review'[r] = None
        /\ stagedReview'[e][r].resolvedBy = None
        /\ stagedReview'[e][r].person \notin Ahead(e)'
        /\ stagedStatus'[e][stagedReview'[e][r].person] # None
        /\ (~HasOpenReview(stagedReview[e][r].person, stagedReview[e][r].reason))'
        /\ \A t \in Review : Staged(e, t)' /\ stagedReview'[e][t].person = stagedReview'[e][r].person
                               => t = r
        /\ \A f \in Evaluator \ {e} : ~Staged(f, r)'
    <3>1. \A t \in Review : Staged(e, t)' /\ stagedReview'[e][t].person = stagedReview'[e][r].person
                              => t = r
      BY <1>4, <2>1, <2>3
    <3>2. (~HasOpenReview(stagedReview[e][r].person, stagedReview[e][r].reason))'
      BY <1>1, <1>4 DEF HasOpenReview, Open
    <3> QED  BY <1>1, <1>4, <1>5, <2>2, <3>1, <3>2, NullIsNothing DEF Status
  <2> QED  BY <2>1, <2>4, <2>5 DEF ReviewsAreNew
<1>9. (\A f \in Evaluator \ {e} : Own(f)' = Own(f)) /\ \A q \in Resolver : step'[q] = step[q]
  BY <1>4, AttendanceDecisionAssumption DEF IInv, TypeOK, Own
<1>10. \A s \in Review, f \in Evaluator \ {e} : Staged(f, s) => ~Staged(e, s)'
  BY <1>4 DEF IInv, EvaluationOK, ReviewsAreNew, Staged
<1> QED  BY <1>3, <1>4, <1>6, <1>7, <1>8, <1>9, <1>10, StatementInv DEF EvaluationOK

\* The transaction of an evaluation is forgotten.
LEMMA EndEvaluationOK ==
  ASSUME IInv, NEW e \in Evaluator, EndEvaluation(e)
  PROVE  /\ UNCHANGED <<reviewLock, request>>
         /\ rowLock' \in [Person -> Evaluator \cup Resolver \cup {None}]
         /\ step' \in [Evaluator \cup Resolver -> EvaluatorStep \cup ResolverStep]
         /\ todo' \in [Evaluator -> SUBSET Person]
         /\ student' \in [Evaluator -> Person \cup {None}]
         /\ outcome' \in [Evaluator -> Outcome \cup {None}]
         /\ stagedStatus' \in [Evaluator -> [Person -> Status \cup {None}]]
         /\ stagedReview' \in [Evaluator -> [Review -> ReviewRow \cup {None}]]
         /\ EvaluationOK(e)'
         /\ \A r \in Review : ~Staged(e, r)'
         /\ \A f \in Evaluator \ {e} : Own(f)' = Own(f)
         /\ \A q \in Resolver : step'[q] = step[q]
         /\ \A p \in Person : rowLock[p] \notin {None, e} => rowLock'[p] = rowLock[p]
<1> USE DEF EndEvaluation, Goto
<1>1. /\ UNCHANGED <<reviewLock, request>>
      /\ rowLock' \in [Person -> Evaluator \cup Resolver \cup {None}]
      /\ \A p \in Person : rowLock[p] \notin {None, e} => rowLock'[p] = rowLock[p]
  BY DEF IInv, TypeOK, RowLocksWithout
<1>2. /\ step' \in [Evaluator \cup Resolver -> EvaluatorStep \cup ResolverStep]
      /\ todo' \in [Evaluator -> SUBSET Person]
      /\ student' \in [Evaluator -> Person \cup {None}]
      /\ outcome' \in [Evaluator -> Outcome \cup {None}]
  BY DEF IInv, TypeOK, EvaluatorStep
<1>3. stagedStatus' \in [Evaluator -> [Person -> Status \cup {None}]]
  <2>1. [p \in Person |-> None] \in [Person -> Status \cup {None}]
    OBVIOUS
  <2> QED  BY <2>1 DEF IInv, TypeOK
<1>4. stagedReview' \in [Evaluator -> [Review -> ReviewRow \cup {None}]]
  <2>1. [r \in Review |-> None] \in [Review -> ReviewRow \cup {None}]
    OBVIOUS
  <2> QED  BY <2>1 DEF IInv, TypeOK
<1>5. /\ step'[e] = "idle"
      /\ \A p \in Person : stagedStatus'[e][p] = None
      /\ \A r \in Review : ~Staged(e, r)'
  BY DEF IInv, TypeOK, Staged
<1>6. EvaluationOK(e)'
  BY <1>5, NullIsNothing
     DEF EvaluationOK, VisitOK, LocksStatuses, PendingIsCovered, ReviewsAreNew, IdleIsClean,
         AtStudent, EvaluatorStep, Status
<1>7. (\A f \in Evaluator \ {e} : Own(f)' = Own(f)) /\ \A q \in Resolver : step'[q] = step[q]
  BY AttendanceDecisionAssumption DEF IInv, TypeOK, Own
<1> QED  BY <1>1, <1>2, <1>3, <1>4, <1>5, <1>6, <1>7

LEMMA RollBackEvaluationInv ==
  ASSUME IInv, NEW e \in Evaluator, RollBackEvaluation(e)
  PROVE  IInv'
<1>1. EndEvaluation(e) /\ UNCHANGED <<evidence, consolidation, review>>
  BY DEF RollBackEvaluation, tables
<1>2. TypeOK'
  BY <1>1, EndEvaluationOK DEF IInv, TypeOK
<1> QED  BY <1>1, <1>2, EndEvaluationOK, StatementInv

LEMMA CommitEvaluationInv ==
  ASSUME IInv, NEW e \in Evaluator, CommitEvaluation(e)
  PROVE  IInv'
<1>1. /\ EndEvaluation(e) /\ evidence' = evidence /\ step[e] = "visit"
      /\ \A p \in Person : consolidation'[p] =
           IF stagedStatus[e][p] = None THEN consolidation[p] ELSE Upserted(p, stagedStatus[e][p])
      /\ \A r \in Review : review'[r] = IF Staged(e, r) THEN stagedReview[e][r] ELSE review[r]
  BY DEF CommitEvaluation, Staged
<1>2. TypeOK'
  <2>1. consolidation' \in [Person -> ConsolidationRow \cup {None}]
    <3>1. \A p \in Person : stagedStatus[e][p] # None
                              => Upserted(p, stagedStatus[e][p]) \in ConsolidationRow
      BY DEF IInv, TypeOK, Upserted, Consolidated, ConsolidationRow
    <3> QED  BY <3>1 DEF CommitEvaluation, IInv, TypeOK
  <2>2. review' \in [Review -> ReviewRow \cup {None}]
    BY DEF CommitEvaluation, IInv, TypeOK
  <2> QED  BY <1>1, <2>1, <2>2, EndEvaluationOK DEF IInv, TypeOK
<1>3. \A r \in Review : Staged(e, r) =>
        /\ review[r] = None
        /\ stagedReview[e][r] \in ReviewRow
        /\ rowLock[stagedReview[e][r].person] = e
        /\ stagedReview[e][r].resolvedBy = None
        /\ ~HasOpenReview(stagedReview[e][r].person, stagedReview[e][r].reason)
  BY DEF IInv, TypeOK, EvaluationOK, ReviewsAreNew, LocksStatuses, Staged, ReviewRow
<1>4. \A r \in Review : review[r] # None => review'[r] = review[r]
  BY <1>1, <1>3
<1>5. ASSUME NEW f \in Evaluator \ {e} PROVE EvaluationOK(f)'
  <2>1. \A p \in Person : rowLock[p] = f => rowLock'[p] = f
    BY <1>1, EndEvaluationOK, NullIsNothing
  <2>2. \A r \in Review : Open(r) /\ rowLock[review[r].person] = f => review'[r] = review[r]
    BY <1>4 DEF Open
  <2>3. \A r \in Review : Open(r)' /\ rowLock[review'[r].person] = f => review'[r] = review[r]
    BY <1>1, <1>3
  <2>4. \A r \in Review : Staged(f, r) =>
          review'[r] = None /\ \A g \in Evaluator \ {f} : ~Staged(g, r)'
    <3>1. \A g \in Evaluator \ {e}, r \in Review : Staged(g, r)' <=> Staged(g, r)
      BY <1>1, EndEvaluationOK DEF Staged, Own
    <3>2. ReviewsAreNew(f)
      BY DEF IInv, EvaluationOK
    <3>3. \A r \in Review : Staged(f, r) =>
            review[r] = None /\ \A g \in Evaluator \ {f} : ~Staged(g, r)
      BY <3>2 DEF ReviewsAreNew
    <3>4. \A r \in Review, g \in Evaluator \ {f} : Staged(g, r)' => Staged(g, r)
      BY <1>1, <3>1, EndEvaluationOK
    <3> QED  BY <1>1, <3>3, <3>4
  <2> QED  BY <1>1, <2>1, <2>2, <2>3, <2>4, EndEvaluationOK, BystanderOK DEF IInv
<1>6. ASSUME NEW q \in Resolver PROVE ResolutionOK(q)'
  <2>1. \A p \in Person : rowLock[p] = q => rowLock'[p] = q
    BY <1>1, EndEvaluationOK, NullIsNothing, AttendanceDecisionAssumption
  <2> QED  BY <1>1, <1>4, <2>1, EndEvaluationOK, ResolutionKept DEF IInv, TypeOK
<1>7. OneOpenReviewPerReason'
  <2> SUFFICES ASSUME NEW r \in Review, NEW s \in Review, Open(r)', Open(s)',
                      review'[r].person = review'[s].person, review'[r].reason = review'[s].reason
               PROVE  r = s
    BY DEF OneOpenReviewPerReason
  <2>1. CASE ~Staged(e, r) /\ ~Staged(e, s)
    BY <1>1, <2>1 DEF IInv, OneOpenReviewPerReason, Open
  <2>2. CASE Staged(e, r) /\ Staged(e, s)
    BY <1>1, <2>2 DEF IInv, EvaluationOK, ReviewsAreNew
  <2>3. CASE Staged(e, r) /\ ~Staged(e, s)
    BY <1>1, <1>3, <2>3 DEF HasOpenReview, Open
  <2>4. CASE ~Staged(e, r) /\ Staged(e, s)
    BY <1>1, <1>3, <2>4 DEF HasOpenReview, Open
  <2> QED  BY <2>1, <2>2, <2>3, <2>4
<1>8. PendingHasOpenReview'
  <2> SUFFICES ASSUME NEW p \in Person, Consolidated(p)', consolidation'[p].status = "pending"
               PROVE  \E r \in Review : Open(r)' /\ review'[r].person = p
    BY DEF PendingHasOpenReview
  <2>1. \/ \E r \in Review : Open(r) /\ review[r].person = p
        \/ \E r \in Review : Staged(e, r) /\ stagedReview[e][r].person = p
    <3>1. CASE stagedStatus[e][p] = None
      BY <1>1, <3>1 DEF IInv, PendingHasOpenReview, Consolidated
    <3>2. CASE stagedStatus[e][p] # None
      <4>1. consolidation'[p].status = stagedStatus[e][p]
        <5>1. \A x \in Status : Upserted(p, x).status = x
          BY DEF Upserted
        <5>2. consolidation'[p] = Upserted(p, stagedStatus[e][p])
          BY <1>1, <3>2
        <5>3. stagedStatus[e][p] \in Status
          BY <3>2 DEF IInv, TypeOK
        <5> QED  BY <5>1, <5>2, <5>3
      <4>2. PendingIsCovered(e) /\ step[e] = "visit" /\ stagedStatus[e][p] = "pending"
        BY <1>1, <4>1 DEF IInv, EvaluationOK
      <4> QED  BY <4>2 DEF PendingIsCovered
    <3> QED  BY <3>1, <3>2
  <2>2. \A r \in Review : Open(r) => Open(r)'
    BY <1>4 DEF Open
  <2>3. \A r \in Review : Staged(e, r) => Open(r)'
    BY <1>1, <1>3, NullIsNothing DEF Open
  <2> QED  BY <1>1, <1>3, <1>4, <2>1, <2>2, <2>3 DEF Open
<1>9. ResolutionStaysRecorded'
  <2>1. \A r \in Review : review'[r] # None /\ review'[r].resolvedBy # None =>
          review'[r] = review[r] /\ review[r].person \in Person /\ Resolved(review[r].person)
    BY <1>1, <1>3 DEF IInv, TypeOK, ResolutionStaysRecorded, ReviewRow
  <2>2. ASSUME NEW p \in Person, Resolved(p) PROVE Resolved(p)'
    <3>1. CASE stagedStatus[e][p] = None
      BY <1>1, <2>2, <3>1 DEF Resolved, Consolidated
    <3>2. CASE stagedStatus[e][p] # None
      <4>1. Upserted(p, stagedStatus[e][p]) \in ConsolidationRow
        BY <3>2 DEF IInv, TypeOK, Upserted, Consolidated, ConsolidationRow
      <4>2. Upserted(p, stagedStatus[e][p]).resolvedBy = consolidation[p].resolvedBy
        BY <2>2 DEF Upserted, Resolved
      <4> QED  BY <1>1, <2>2, <3>2, <4>1, <4>2, NullIsNothing DEF Resolved, Consolidated
    <3> QED  BY <3>1, <3>2
  <2> QED  BY <2>1, <2>2 DEF ResolutionStaysRecorded, Resolved, Consolidated
<1> QED  BY <1>1, <1>2, <1>5, <1>6, <1>7, <1>8, <1>9, EndEvaluationOK DEF IInv

\* A statement of a resolution before its COMMIT.
LEMMA RequestInv ==
  ASSUME IInv, NEW q \in Resolver, TypeOK', ResolutionOK(q)',
         UNCHANGED <<consolidation, review, todo, student, outcome, stagedStatus, stagedReview>>,
         \A a \in (Evaluator \cup Resolver) \ {q} : step'[a] = step[a],
         \A p \in Resolver \ {q} : request'[p] = request[p],
         \A p \in Person : rowLock[p] \notin {None, q} => rowLock'[p] = rowLock[p]
  PROVE  IInv'
<1>1. ASSUME NEW e \in Evaluator PROVE EvaluationOK(e)'
  <2>1. Own(e)' = Own(e)
    BY AttendanceDecisionAssumption DEF Own
  <2>2. \A p \in Person : rowLock[p] = e => rowLock'[p] = e
    BY NullIsNothing, AttendanceDecisionAssumption
  <2>3. \A r \in Review : Staged(e, r) =>
          review'[r] = None /\ \A f \in Evaluator \ {e} : ~Staged(f, r)'
    BY DEF IInv, EvaluationOK, ReviewsAreNew, Staged
  <2> QED  BY <2>1, <2>2, <2>3, BystanderOK DEF IInv
<1>2. ASSUME NEW p \in Resolver \ {q} PROVE ResolutionOK(p)'
  <2>1. \A x \in Person : rowLock[x] = p => rowLock'[x] = p
    BY NullIsNothing
  <2> QED  BY <2>1, ResolutionKept DEF IInv, TypeOK
<1>3. Safe'
  BY SafeKept DEF Safe, IInv
<1> QED  BY <1>1, <1>2, <1>3 DEF Safe, IInv

LEMMA ReadReviewInv ==
  ASSUME IInv, NEW q \in Resolver, NEW r \in Review, NEW l \in Leader, NEW d \in Decision,
         ReadReview(q, r, l, d)
  PROVE  IInv'
<1> USE DEF ReadReview, Goto, tables, locks, visit, staged
<1>1. [review |-> r, leader |-> l, decision |-> d] \in Request
  BY DEF Request
<1>2. TypeOK'
  <2>1. step' \in [Evaluator \cup Resolver -> EvaluatorStep \cup ResolverStep]
    BY DEF IInv, TypeOK, ResolverStep
  <2>2. request' \in [Resolver -> Request \cup {None}]
    BY <1>1 DEF IInv, TypeOK
  <2> QED  BY <2>1, <2>2 DEF IInv, TypeOK
<1>3. ResolutionOK(q)'
  BY <1>1 DEF IInv, TypeOK, ResolutionOK, ResolverStep, Open
<1>4. /\ \A a \in (Evaluator \cup Resolver) \ {q} : step'[a] = step[a]
      /\ \A p \in Resolver \ {q} : request'[p] = request[p]
  BY DEF IInv, TypeOK
<1> QED  BY <1>2, <1>3, <1>4, RequestInv

\* The UPDATE of the review, or of the row: each takes a lock.
LEMMA UpdateInv ==
  ASSUME IInv, NEW q \in Resolver, UpdateReview(q) \/ UpdateRow(q)
  PROVE  IInv'
<1> USE DEF UpdateReview, UpdateRow, Goto, tables, visit, staged
<1>1. /\ step[q] \in {"updateReview", "updateRow"} /\ request[q] \in Request
      /\ request[q].review \in Review /\ review[request[q].review] # None
      /\ Reviewed(q) \in Person
  <2>1. step[q] \in {"updateReview", "updateRow"} /\ ResolutionOK(q)
    BY DEF IInv
  <2>2. request[q] \in Request /\ request[q].review \in Review /\ review[request[q].review] # None
    BY <2>1 DEF ResolutionOK, Request
  <2>3. review[request[q].review] \in ReviewRow
    BY <2>2 DEF IInv, TypeOK
  <2> QED  BY <2>1, <2>2, <2>3 DEF Reviewed, ReviewRow
<1>2. TypeOK'
  <2>1. step' \in [Evaluator \cup Resolver -> EvaluatorStep \cup ResolverStep]
    <3>1. step \in [Evaluator \cup Resolver -> EvaluatorStep \cup ResolverStep]
      BY DEF IInv, TypeOK
    <3>2. PICK s \in ResolverStep : step' = [step EXCEPT ![q] = s]
      BY DEF ResolverStep
    <3> QED  BY <3>1, <3>2, Zenon
  <2>2. rowLock' \in [Person -> Evaluator \cup Resolver \cup {None}]
    BY DEF IInv, TypeOK
  <2>3. reviewLock' \in [Review -> Resolver \cup {None}]
    BY DEF IInv, TypeOK
  <2> QED  BY <2>1, <2>2, <2>3 DEF IInv, TypeOK
<1>3. ResolutionOK(q)'
  <2>1. Reviewed(q)' = Reviewed(q) /\ step'[q] \in {"updateRow", "commit"}
    BY DEF Reviewed, IInv, TypeOK
  <2>2. step'[q] = "commit" => rowLock'[Reviewed(q)] = q
    BY <1>1 DEF IInv, TypeOK
  <2> QED  BY <1>1, <2>1, <2>2 DEF ResolutionOK, ResolverStep
<1>4. /\ \A a \in (Evaluator \cup Resolver) \ {q} : step'[a] = step[a]
      /\ \A p \in Person : rowLock[p] \notin {None, q} => rowLock'[p] = rowLock[p]
  BY <1>1 DEF IInv, TypeOK
<1> QED  BY <1>2, <1>3, <1>4, RequestInv

\* The transaction of a resolution is forgotten.
LEMMA EndResolutionOK ==
  ASSUME IInv, NEW q \in Resolver, EndResolution(q)
  PROVE  /\ UNCHANGED <<todo, student, outcome, stagedStatus, stagedReview>>
         /\ rowLock' \in [Person -> Evaluator \cup Resolver \cup {None}]
         /\ reviewLock' \in [Review -> Resolver \cup {None}]
         /\ step' \in [Evaluator \cup Resolver -> EvaluatorStep \cup ResolverStep]
         /\ request' \in [Resolver -> Request \cup {None}]
         /\ ResolutionOK(q)'
         /\ \A a \in (Evaluator \cup Resolver) \ {q} : step'[a] = step[a]
         /\ \A p \in Resolver \ {q} : request'[p] = request[p]
         /\ \A p \in Person : rowLock[p] \notin {None, q} => rowLock'[p] = rowLock[p]
<1> USE DEF EndResolution, Goto, visit, staged
<1>1. /\ rowLock' \in [Person -> Evaluator \cup Resolver \cup {None}]
      /\ reviewLock' \in [Review -> Resolver \cup {None}]
      /\ \A p \in Person : rowLock[p] \notin {None, q} => rowLock'[p] = rowLock[p]
  BY DEF IInv, TypeOK, RowLocksWithout, ReviewLocksWithout
<1>2. /\ step' \in [Evaluator \cup Resolver -> EvaluatorStep \cup ResolverStep]
      /\ request' \in [Resolver -> Request \cup {None}]
      /\ step'[q] = "idle"
      /\ \A a \in (Evaluator \cup Resolver) \ {q} : step'[a] = step[a]
      /\ \A p \in Resolver \ {q} : request'[p] = request[p]
  BY DEF IInv, TypeOK, ResolverStep
<1> QED  BY <1>1, <1>2 DEF ResolutionOK, ResolverStep

LEMMA RollBackResolutionInv ==
  ASSUME IInv, NEW q \in Resolver, RollBackResolution(q)
  PROVE  IInv'
<1>1. EndResolution(q) /\ UNCHANGED <<evidence, consolidation, review>>
  BY DEF RollBackResolution, tables
<1>2. TypeOK'
  BY <1>1, EndResolutionOK DEF IInv, TypeOK
<1> QED  BY <1>1, <1>2, EndResolutionOK, RequestInv

(***************************************************************************)
(* The COMMIT of a resolution: no evaluation has the row, so none counts   *)
(* on the review that is no longer open.                                   *)
(***************************************************************************)
LEMMA CommitResolutionInv ==
  ASSUME IInv, NEW q \in Resolver, CommitResolution(q)
  PROVE  IInv'
<1> DEFINE r == request[q].review
           p == review[r].person
           row == [status |-> request[q].decision, resolvedBy |-> request[q].leader]
           resolved == [review[r] EXCEPT !.resolvedBy = request[q].leader]
<1>1. /\ EndResolution(q) /\ evidence' = evidence
      /\ request[q] \in Request /\ r \in Review /\ review[r] # None /\ review[r] \in ReviewRow
      /\ p \in Person /\ rowLock[p] = q
  <2>1. step[q] = "commit" /\ ResolutionOK(q) /\ EndResolution(q) /\ evidence' = evidence
    BY DEF IInv, CommitResolution
  <2>2. request[q] \in Request /\ r \in Review /\ review[r] # None /\ rowLock[p] = q
    BY <2>1 DEF ResolutionOK, Request, Reviewed
  <2>3. review[r] \in ReviewRow
    BY <2>2 DEF IInv, TypeOK
  <2> QED  BY <2>1, <2>2, <2>3 DEF ReviewRow
<1>2. row \in ConsolidationRow /\ row.status # "pending" /\ row.resolvedBy # None
  BY <1>1, NullIsNothing DEF Request, ConsolidationRow, Status, Decision
<1>3. /\ resolved \in ReviewRow /\ resolved # None /\ resolved.resolvedBy # None
      /\ resolved.person = p /\ resolved.reason = review[r].reason
  BY <1>1, NullIsNothing DEF Request, ReviewRow
<1>4. review' = [review EXCEPT ![r] = resolved] /\ consolidation' = [consolidation EXCEPT ![p] = row]
  BY DEF CommitResolution, Reviewed
<1> HIDE DEF row, resolved
<1>5. /\ review'[r] = resolved /\ \A s \in Review \ {r} : review'[s] = review[s]
      /\ consolidation'[p] = row /\ \A x \in Person \ {p} : consolidation'[x] = consolidation[x]
  BY <1>1, <1>4 DEF IInv, TypeOK
<1>6. TypeOK'
  <2>1. consolidation' \in [Person -> ConsolidationRow \cup {None}]
    BY <1>2, <1>4 DEF IInv, TypeOK
  <2>2. review' \in [Review -> ReviewRow \cup {None}]
    BY <1>3, <1>4 DEF IInv, TypeOK
  <2> QED  BY <1>1, <2>1, <2>2, EndResolutionOK DEF IInv, TypeOK
<1>7. ASSUME NEW e \in Evaluator PROVE EvaluationOK(e)'
  <2>1. Own(e)' = Own(e)
    BY <1>1, EndResolutionOK, AttendanceDecisionAssumption DEF Own
  <2>2. \A x \in Person : rowLock[x] = e => rowLock'[x] = e
    BY <1>1, EndResolutionOK, NullIsNothing, AttendanceDecisionAssumption
  <2>3. rowLock[p] # e
    BY <1>1, AttendanceDecisionAssumption
  <2>4. \A s \in Review : Open(s) /\ rowLock[review[s].person] = e => review'[s] = review[s]
    BY <1>5, <2>3
  <2>5. \A s \in Review : Open(s)' /\ rowLock[review'[s].person] = e => review'[s] = review[s]
    BY <1>3, <1>5, <2>3
  <2>6. \A s \in Review : Staged(e, s) =>
          review'[s] = None /\ \A f \in Evaluator \ {e} : ~Staged(f, s)'
    <3>1. \A s \in Review : Staged(e, s) => s # r
      BY <1>1 DEF IInv, EvaluationOK, ReviewsAreNew
    <3>2. \A f \in Evaluator, s \in Review : Staged(f, s)' <=> Staged(f, s)
      BY <1>1, EndResolutionOK DEF Staged
    <3> QED  BY <1>5, <3>1, <3>2 DEF IInv, EvaluationOK, ReviewsAreNew
  <2> QED  BY <2>1, <2>2, <2>4, <2>5, <2>6, BystanderOK DEF IInv
<1>8. ASSUME NEW a \in Resolver \ {q} PROVE ResolutionOK(a)'
  <2>1. \A x \in Person : rowLock[x] = a => rowLock'[x] = a
    BY <1>1, EndResolutionOK, NullIsNothing
  <2>2. \A s \in Review : review[s] # None => review'[s] # None /\ review'[s].person = review[s].person
    BY <1>3, <1>5
  <2> QED  BY <1>1, <2>1, <2>2, EndResolutionOK, ResolutionKept DEF IInv, TypeOK
<1>9. \A s \in Review : Open(s)' => s # r /\ Open(s) /\ review'[s] = review[s]
  BY <1>3, <1>5 DEF Open
<1>10. OneOpenReviewPerReason'
  BY <1>9 DEF IInv, OneOpenReviewPerReason
<1>11. PendingHasOpenReview'
  <2> SUFFICES ASSUME NEW x \in Person, Consolidated(x)', consolidation'[x].status = "pending"
               PROVE  \E s \in Review : Open(s)' /\ review'[s].person = x
    BY DEF PendingHasOpenReview
  <2>1. x # p
    BY <1>2, <1>5
  <2>2. PICK s \in Review : Open(s) /\ review[s].person = x
    BY <1>5, <2>1 DEF IInv, PendingHasOpenReview, Consolidated
  <2>3. s # r
    BY <2>1, <2>2
  <2> QED  BY <1>5, <2>2, <2>3 DEF Open
<1>12. ResolutionStaysRecorded'
  <2>1. \A x \in Person : x = p \/ Resolved(x) => Resolved(x)'
    BY <1>2, <1>5, NullIsNothing DEF Resolved, Consolidated
  <2>2. \A s \in Review : review'[s] # None /\ review'[s].resolvedBy # None =>
          review'[s].person \in Person /\ (review'[s].person = p \/ Resolved(review'[s].person))
    <3>1. \A s \in Review \ {r} : review[s] # None => review[s].person \in Person
      BY DEF IInv, TypeOK, ReviewRow
    <3> QED  BY <1>1, <1>3, <1>5, <3>1 DEF IInv, ResolutionStaysRecorded
  <2> QED  BY <2>1, <2>2 DEF ResolutionStaysRecorded, Resolved, Consolidated
<1> QED
  BY <1>1, <1>6, <1>7, <1>8, <1>10, <1>11, <1>12, EndResolutionOK DEF IInv

LEMMA EvidenceChangesInv ==
  ASSUME IInv, NEW p \in Person, NEW o \in Outcome, EvidenceChanges(p, o)
  PROVE  IInv'
<1> USE DEF EvidenceChanges, locks, visit, staged
<1>1. TypeOK'
  BY DEF IInv, TypeOK
<1>2. ASSUME NEW e \in Evaluator PROVE EvaluationOK(e)'
  <2>1. \A r \in Review : Staged(e, r) =>
          review'[r] = None /\ \A f \in Evaluator \ {e} : ~Staged(f, r)'
    BY DEF IInv, EvaluationOK, ReviewsAreNew, Staged
  <2> QED  BY <2>1, BystanderOK DEF IInv, Own
<1>3. ASSUME NEW q \in Resolver PROVE ResolutionOK(q)'
  BY ResolutionKept DEF IInv, TypeOK
<1>4. Safe'
  BY SafeKept DEF IInv, Safe
<1> QED  BY <1>1, <1>2, <1>3, <1>4 DEF IInv, Safe

LEMMA StutterInv ==
  ASSUME IInv, UNCHANGED vars
  PROVE  IInv'
<1> USE DEF vars, tables, locks, visit, staged
<1>1. TypeOK' /\ Safe'
  BY SafeKept DEF IInv, TypeOK, Safe
<1>2. ASSUME NEW e \in Evaluator PROVE EvaluationOK(e)'
  <2>1. \A r \in Review : Staged(e, r) =>
          review'[r] = None /\ \A f \in Evaluator \ {e} : ~Staged(f, r)'
    BY DEF IInv, EvaluationOK, ReviewsAreNew, Staged
  <2> QED  BY <2>1, BystanderOK DEF IInv, Own
<1>3. ASSUME NEW q \in Resolver PROVE ResolutionOK(q)'
  BY ResolutionKept DEF IInv, TypeOK
<1> QED  BY <1>1, <1>2, <1>3 DEF IInv, Safe

LEMMA InitInv == Init => IInv
<1> SUFFICES ASSUME Init PROVE IInv
  OBVIOUS
<1> USE DEF Init
<1>1. TypeOK
  BY DEF TypeOK, EvaluatorStep
<1>2. ASSUME NEW e \in Evaluator PROVE EvaluationOK(e)
  BY NullIsNothing
     DEF EvaluationOK, VisitOK, LocksStatuses, PendingIsCovered, ReviewsAreNew, IdleIsClean,
         Staged, AtStudent, EvaluatorStep, Status
<1>3. ASSUME NEW q \in Resolver PROVE ResolutionOK(q)
  BY DEF ResolutionOK, ResolverStep
<1> QED
  BY <1>1, <1>2, <1>3
     DEF IInv, OneOpenReviewPerReason, PendingHasOpenReview, ResolutionStaysRecorded, Open,
         Consolidated

LEMMA NextInv ==
  ASSUME IInv, Next
  PROVE  IInv'
<1>1. ASSUME NEW e \in Evaluator, EvaluatorNext(e) PROVE IInv'
  BY <1>1, VisitStudentInv, ReadInv, WriteStatusInv, InsertReviewInv, CommitEvaluationInv
     DEF EvaluatorNext
<1>2. ASSUME NEW q \in Resolver, ResolverNext(q) PROVE IInv'
  BY <1>2, UpdateInv, CommitResolutionInv DEF ResolverNext
<1> QED
  BY <1>1, <1>2, EvidenceChangesInv, EvaluateSessionInv, RollBackEvaluationInv, ReadReviewInv,
     RollBackResolutionInv DEF Next

LEMMA Invariant == Spec => []IInv
<1>1. IInv /\ [Next]_vars => IInv'
  BY NextInv, StutterInv
<1> QED  BY <1>1, InitInv, PTL DEF Spec

-----------------------------------------------------------------------------
(***************************************************************************)
(* Rows, locks and everything the transactions hold keep their types, for  *)
(* any roster and any number of evaluations and resolutions.               *)
(***************************************************************************)
THEOREM TypeCorrect == Spec => []TypeOK
<1>1. IInv => TypeOK
  BY DEF IInv
<1> QED  BY <1>1, Invariant, PTL

(***************************************************************************)
(* However many evaluations overlap, a student never has two open reviews  *)
(* for one reason: the row each writes before it looks is the lock.        *)
(***************************************************************************)
THEOREM OneOpenReview == Spec => []OneOpenReviewPerReason
<1>1. IInv => OneOpenReviewPerReason
  BY DEF IInv
<1> QED  BY <1>1, Invariant, PTL

(***************************************************************************)
(* However evaluations and resolutions overlap, a pending student has an   *)
(* open review.                                                            *)
(***************************************************************************)
THEOREM PendingResolvable == Spec => []PendingHasOpenReview
<1>1. IInv => PendingHasOpenReview
  BY DEF IInv
<1> QED  BY <1>1, Invariant, PTL

(***************************************************************************)
(* A student with a resolved review has a row that names a resolver.       *)
(***************************************************************************)
THEOREM ResolutionRecorded == Spec => []ResolutionStaysRecorded
<1>1. IInv => ResolutionStaysRecorded
  BY DEF IInv
<1> QED  BY <1>1, Invariant, PTL

-----------------------------------------------------------------------------
(***************************************************************************)
(* No record is lost: a row keeps that somebody decided it, and a review   *)
(* stays, about the same student and reason, and resolved once resolved.   *)
(***************************************************************************)
RecordsKept ==
  /\ \A p \in Person : Resolved(p) => Resolved(p)'
  /\ \A r \in Review : review[r] # None =>
       /\ review'[r] # None
       /\ review'[r].person = review[r].person /\ review'[r].reason = review[r].reason
       /\ review[r].resolvedBy # None => review'[r].resolvedBy # None

LEMMA CommitEvaluationKeeps ==
  ASSUME IInv, NEW e \in Evaluator, CommitEvaluation(e)
  PROVE  RecordsKept
<1>1. \A r \in Review : review[r] # None => review'[r] = review[r]
  BY DEF CommitEvaluation, IInv, EvaluationOK, ReviewsAreNew, Staged
<1>2. ASSUME NEW p \in Person, Resolved(p) PROVE Resolved(p)'
  <2>1. CASE stagedStatus[e][p] = None
    BY <1>2, <2>1 DEF CommitEvaluation, Resolved, Consolidated
  <2>2. CASE stagedStatus[e][p] # None
    <3>1. Upserted(p, stagedStatus[e][p]) \in ConsolidationRow
      BY <2>2 DEF IInv, TypeOK, Upserted, Consolidated, ConsolidationRow
    <3>2. Upserted(p, stagedStatus[e][p]).resolvedBy = consolidation[p].resolvedBy
      BY <1>2 DEF Upserted, Resolved
    <3>3. consolidation'[p] = Upserted(p, stagedStatus[e][p])
      BY <2>2 DEF CommitEvaluation
    <3> QED  BY <1>2, <3>1, <3>2, <3>3, NullIsNothing DEF Resolved, Consolidated
  <2> QED  BY <2>1, <2>2
<1> QED  BY <1>1, <1>2 DEF RecordsKept

LEMMA CommitResolutionKeeps ==
  ASSUME IInv, NEW q \in Resolver, CommitResolution(q)
  PROVE  RecordsKept
<1>1. request[q] \in Request /\ request[q].leader # None
  <2>1. ResolutionOK(q) /\ step[q] = "commit"
    BY DEF IInv, CommitResolution
  <2> QED  BY <2>1, NullIsNothing DEF ResolutionOK, Request
<1>2. /\ [status |-> request[q].decision, resolvedBy |-> request[q].leader] \in ConsolidationRow
      /\ \A r \in Review : review[r] # None =>
           [review[r] EXCEPT !.resolvedBy = request[q].leader] \in ReviewRow
  <2>1. request[q].leader \in Leader /\ request[q].decision \in Status
    BY <1>1 DEF Request, Status, Decision
  <2>2. \A r \in Review : review[r] # None => review[r] \in ReviewRow
    BY DEF IInv, TypeOK
  <2> QED  BY <2>1, <2>2 DEF ConsolidationRow, ReviewRow
<1>3. \A p \in Person : consolidation'[p] \in
        {consolidation[p], [status |-> request[q].decision, resolvedBy |-> request[q].leader]}
  BY DEF CommitResolution, IInv, TypeOK
<1>4. \A r \in Review : review'[r] \in
        {review[r], [review[r] EXCEPT !.resolvedBy = request[q].leader]}
  BY DEF CommitResolution, IInv, TypeOK
<1>5. ASSUME NEW p \in Person, Resolved(p) PROVE Resolved(p)'
  <2> DEFINE row == [status |-> request[q].decision, resolvedBy |-> request[q].leader]
  <2>1. row # None /\ row.resolvedBy # None
    BY <1>1, <1>2, NullIsNothing
  <2>2. consolidation'[p] = consolidation[p] \/ consolidation'[p] = row
    BY <1>3
  <2> HIDE DEF row
  <2> QED  BY <1>5, <2>1, <2>2 DEF Resolved, Consolidated
<1>6. ASSUME NEW r \in Review, review[r] # None
      PROVE  /\ review'[r] # None
             /\ review'[r].person = review[r].person /\ review'[r].reason = review[r].reason
             /\ review[r].resolvedBy # None => review'[r].resolvedBy # None
  <2>1. review[r] \in ReviewRow
    BY <1>6 DEF IInv, TypeOK
  <2> QED  BY <1>1, <1>2, <1>4, <1>6, <2>1, NullIsNothing DEF ReviewRow
<1> QED  BY <1>5, <1>6 DEF RecordsKept

(***************************************************************************)
(* No step loses a record, and no evaluation undoes that a row was decided *)
(* (though it may change the status: EngineNeverOverwritesDecision fails). *)
(***************************************************************************)
THEOREM RecordsStay == Spec => [][RecordsKept]_vars
<1>1. IInv /\ Next => RecordsKept
  <2> SUFFICES ASSUME IInv, Next PROVE RecordsKept
    OBVIOUS
  <2>1. CASE UNCHANGED <<consolidation, review>>
    BY <2>1 DEF RecordsKept, Resolved, Consolidated
  <2>2. CASE \E e \in Evaluator : CommitEvaluation(e)
    BY <2>2, CommitEvaluationKeeps
  <2>3. CASE \E q \in Resolver : CommitResolution(q)
    BY <2>3, CommitResolutionKeeps
  <2> QED
    BY <2>1, <2>2, <2>3
       DEF Next, EvaluatorNext, ResolverNext, EvidenceChanges, EvaluateSession, VisitStudent,
           ReadEvidence, FindConsolidation, UpdateConsolidation, InsertConsolidation, FindReview,
           InsertReview, RollBackEvaluation, ReadReview, UpdateReview, UpdateRow,
           RollBackResolution, tables
<1>2. IInv /\ [Next]_vars => [RecordsKept]_vars
  BY <1>1
<1> QED  BY <1>2, Invariant, PTL DEF Spec
=============================================================================
