----------------------- MODULE AreaAuthorizationProofs -----------------------
(***************************************************************************)
(* Proofs about who may be where, for any campus and any number of scans.  *)
(***************************************************************************)
EXTENDS AreaAuthorization, TLAPS

(***************************************************************************)
(* The walk of the handler run of a scan x: the areas visited contain the  *)
(* scan's, and so does the next one; no parent but the next is missing.    *)
(***************************************************************************)
WalkOK(x) ==
  /\ x.run.visited \cup x.run.next \subseteq Containing(x.area)
  /\ x.area \in x.run.visited \cup x.run.next
  /\ \A a \in x.run.visited : parent[a] \subseteq x.run.visited \cup x.run.next
  /\ \A a, b \in x.run.next : a = b

(***************************************************************************)
(* What was in force when the evaluation began still is, but for the       *)
(* revocation of the wristband; what a run has read agrees with it.        *)
(***************************************************************************)
RunOK(x) ==
  LET w == wristband[x.tag] IN
  /\ x.run.before = "revoked" => w.status = "inactive"
  /\ x.run.before = "entitled" =>
       w.status # "none" /\ Permitted(w.category, x.area, x.captured)
  /\ x.pc = "climb" =>
       /\ WalkOK(x) /\ w.status # "none" /\ x.run.category = w.category
       /\ x.run.before # "revoked" /\ x.run.verdict = "none"
  /\ x.run.verdict = "authorized" =>
       /\ x.run.before # "revoked" /\ w.status # "none"
       /\ Permitted(w.category, x.area, x.captured)
  /\ x.run.verdict = "intrusion" /\ x.run.before = "entitled" => w.status = "inactive"

ScanOK(x) ==
  /\ x.pc \in {"none", "queued"} => x.run = NoRun
  /\ x.pc = "resolve" => x.run.verdict = "none" /\ x.run.visited = {}
  /\ x.pc # "none" => x.tag \in Tag /\ x.area \in area /\ x.captured \in Instant /\ RunOK(x)

CampusType ==
  /\ area \subseteq Area /\ parent \in [Area -> SUBSET area]
  /\ \A a \in Area : \A b, c \in parent[a] : b = c
  /\ wristband \in [Tag -> [category: Category \cup {None}, status: {"none", "active", "inactive"}]]
  /\ permission \subseteq Permission

IInv == CampusType /\ scan \in [Scan -> ScanRow] /\ \A s \in Scan : ScanOK(scan[s])

LEMMA NoRunIsNothing ==
  /\ NoRun.visited = {} /\ NoRun.verdict = "none" /\ NoRun.before = "none"
  /\ NoRun.category = None /\ NoRun.next = {}
BY DEF NoRun

LEMMA NoScanType == NoScan \in ScanRow
BY DEF NoScan, NoRun, ScanRow, Run

LEMMA InitInv == Init => IInv
<1> SUFFICES ASSUME Init PROVE IInv
  OBVIOUS
<1>1. CampusType
  BY DEF Init, CampusType, NoWristband
<1>2. scan \in [Scan -> ScanRow]
  BY NoScanType DEF Init
<1>3. \A s \in Scan : ScanOK(scan[s])
  BY DEF Init, ScanOK, NoScan
<1> QED  BY <1>1, <1>2, <1>3 DEF IInv

----------------------------------------------------------------------------
(* The hierarchy.                                                          *)

\* An area contains itself, and a parent contains what its children contain.
LEMMA ContainingSelf == ASSUME NEW a \in area PROVE a \in Containing(a)
BY DEF Containing

LEMMA ContainingParent ==
  ASSUME CampusType, NEW a, NEW b \in Containing(a)
  PROVE  parent[b] \subseteq Containing(a)
<1>1. b \in area /\ parent[b] \subseteq area
  BY DEF Containing, CampusType
<1>2. ASSUME NEW S \in SUBSET area, a \in S, \A x \in S : parent[x] \subseteq S
      PROVE  parent[b] \subseteq S
  BY <1>2 DEF Containing
<1> QED  BY <1>1, <1>2 DEF Containing

\* A set that holds an area and the parents of its members holds every area
\* that contains it.
LEMMA ContainingLeast ==
  ASSUME NEW a, NEW S \in SUBSET area, a \in S,
         \A x \in S : parent[x] \subseteq S
  PROVE  Containing(a) \subseteq S
BY DEF Containing

\* What the staff do: rows are added, no area moves, no permission ends, and
\* a wristband keeps its category and is only ever revoked.
StaffKeep ==
  /\ area \subseteq area' /\ \A a \in area : parent'[a] = parent[a]
  /\ permission \subseteq permission'
  /\ \A t \in Tag : wristband[t].status # "none" =>
       /\ wristband'[t].category = wristband[t].category
       /\ wristband'[t].status # "none"
       /\ wristband[t].status = "inactive" => wristband'[t].status = "inactive"

LEMMA ContainingStays ==
  ASSUME CampusType, StaffKeep, NEW a \in area
  PROVE  Containing(a) \subseteq Containing(a)'
<1> SUFFICES ASSUME NEW b \in Containing(a) PROVE b \in Containing(a)'
  OBVIOUS
<1>1. b \in area'
  BY DEF Containing, StaffKeep
<1>2. ASSUME NEW S \in SUBSET area', a \in S, \A x \in S : parent'[x] \subseteq S
      PROVE  b \in S
  <2> DEFINE R == S \cap area
  <2>1. R \in SUBSET area /\ a \in R
    BY <1>2
  <2>2. \A x \in R : parent[x] \subseteq R
    BY <1>2 DEF StaffKeep, CampusType
  <2>3. Containing(a) \subseteq R
    BY <2>1, <2>2, ContainingLeast
  <2> QED  BY <2>3
<1> QED  BY <1>1, <1>2 DEF Containing

LEMMA PermittedStays ==
  ASSUME CampusType, StaffKeep, NEW c, NEW a \in area, NEW time, Permitted(c, a, time)
  PROVE  Permitted(c, a, time)'
BY ContainingStays DEF Permitted, ValidAt, StaffKeep

\* Whatever the staff do, a scan stays as the invariant wants it.
LEMMA StaffKeepScans ==
  ASSUME IInv, StaffKeep, CampusType', scan' = scan
  PROVE  IInv'
<1> SUFFICES ASSUME NEW s \in Scan PROVE ScanOK(scan[s])'
  BY DEF IInv
<1>1. PICK x : x = scan[s]
  OBVIOUS
<1>2. ScanOK(x) /\ x \in ScanRow /\ CampusType
  BY <1>1 DEF IInv
<1>3. CASE x.pc = "none"
  <2>1. ScanOK(x)'
    BY <1>2, <1>3 DEF ScanOK
  <2> QED  BY <1>1, <2>1
<1>4. CASE x.pc # "none"
  <2>1. x.tag \in Tag /\ x.area \in area /\ x.captured \in Instant /\ RunOK(x)
    BY <1>2, <1>4 DEF ScanOK
  <2>2. Containing(x.area) \subseteq Containing(x.area)' /\ Containing(x.area) \subseteq area
    BY <1>2, <2>1, ContainingStays DEF Containing
  <2>3. WalkOK(x) => WalkOK(x)'
    BY <2>1, <2>2 DEF WalkOK, StaffKeep
  <2>4. PICK w : w = wristband[x.tag]
    OBVIOUS
  <2>5. PICK v : v = wristband'[x.tag]
    OBVIOUS
  <2>6. w.status # "none" =>
          /\ v.category = w.category /\ v.status # "none"
          /\ w.status = "inactive" => v.status = "inactive"
    BY <2>1, <2>4, <2>5 DEF StaffKeep
  <2>7. Permitted(w.category, x.area, x.captured) => Permitted(w.category, x.area, x.captured)'
    BY <1>2, <2>1, PermittedStays
  <2>8. RunOK(x)'
    BY <2>1, <2>3, <2>4, <2>5, <2>6, <2>7 DEF RunOK
  <2>9. ScanOK(x)'
    BY <1>2, <2>1, <2>8 DEF ScanOK, StaffKeep
  <2> QED  BY <1>1, <2>9
<1> QED  BY <1>3, <1>4

----------------------------------------------------------------------------
(* Steps of the staff.                                                     *)

LEMMA CreateAreaStep ==
  ASSUME IInv, NEW a \in Area, NEW p \in {{}} \cup {{b} : b \in area}, CreateArea(a, p)
  PROVE  IInv'
<1>1. /\ a \notin area /\ p \subseteq area /\ (\A b, c \in p : b = c) /\ area' = area \cup {a}
      /\ parent' = [parent EXCEPT ![a] = p] /\ UNCHANGED <<wristband, permission, scan>>
  BY DEF CreateArea
<1>2. CampusType'
  BY <1>1 DEF IInv, CampusType
<1>3. StaffKeep
  BY <1>1 DEF StaffKeep, IInv, CampusType
<1> QED  BY <1>1, <1>2, <1>3, StaffKeepScans

LEMMA IssueStep ==
  ASSUME IInv, NEW t \in Tag, NEW c \in Category, Issue(t, c)
  PROVE  IInv'
<1>1. PICK w : w = [category |-> c, status |-> "active"]
  OBVIOUS
<1>2. /\ wristband[t].status = "none" /\ wristband' = [wristband EXCEPT ![t] = w]
      /\ UNCHANGED <<area, parent, permission, scan>>
  BY <1>1 DEF Issue
<1>3. CampusType'
  BY <1>1, <1>2 DEF IInv, CampusType, Permission
<1>4. StaffKeep
  BY <1>2 DEF StaffKeep, IInv, CampusType
<1> QED  BY <1>2, <1>3, <1>4, StaffKeepScans

LEMMA RevokeStep == ASSUME IInv, NEW t \in Tag, Revoke(t) PROVE IInv'
<1>1. PICK v : v = wristband[t]
  OBVIOUS
<1>2. v \in [category: Category \cup {None}, status: {"none", "active", "inactive"}]
  BY <1>1 DEF IInv, CampusType
<1>3. PICK w : w = [v EXCEPT !.status = "inactive"]
  OBVIOUS
<1>4. /\ w.category = v.category /\ w.status = "inactive"
      /\ w \in [category: Category \cup {None}, status: {"none", "active", "inactive"}]
  BY <1>2, <1>3
<1>5. /\ wristband' = [wristband EXCEPT ![t] = w]
      /\ UNCHANGED <<area, parent, permission, scan>>
  BY <1>1, <1>3 DEF Revoke, IInv, CampusType
<1>6. CampusType'
  BY <1>4, <1>5 DEF IInv, CampusType, Permission
<1>7. StaffKeep
  BY <1>1, <1>4, <1>5 DEF StaffKeep, IInv, CampusType
<1> QED  BY <1>5, <1>6, <1>7, StaffKeepScans

LEMMA GrantStep ==
  ASSUME IInv, NEW p \in Permission, GrantAreaPermission(p)
  PROVE  IInv'
<1>1. permission' = permission \cup {p} /\ UNCHANGED <<area, parent, wristband, scan>>
  BY DEF GrantAreaPermission
<1>2. CampusType'
  BY <1>1 DEF IInv, CampusType, Permission
<1>3. StaffKeep
  BY <1>1 DEF StaffKeep
<1> QED  BY <1>1, <1>2, <1>3, StaffKeepScans

----------------------------------------------------------------------------
(* Steps of a scan.                                                        *)

LEMMA ScanMoves ==
  ASSUME IInv, NEW s \in Scan, NEW x \in ScanRow, UNCHANGED campus,
         scan' = [scan EXCEPT ![s] = x], ScanOK(x)
  PROVE  IInv'
<1>1. CampusType'
  BY DEF IInv, CampusType, campus, Permission
<1>2. scan' \in [Scan -> ScanRow]
  BY DEF IInv, ScanRow
<1>3. \A t \in Scan : ScanOK(scan'[t])
  BY DEF IInv
<1>4. ASSUME NEW y, ScanOK(y) PROVE ScanOK(y)'
  BY <1>4 DEF ScanOK, RunOK, WalkOK, Permitted, ValidAt, Containing, campus, NoRun
<1>5. \A t \in Scan : ScanOK(scan[t])'
  <2> SUFFICES ASSUME NEW t \in Scan PROVE ScanOK(scan[t])'
    OBVIOUS
  <2>1. PICK y : y = scan'[t]
    OBVIOUS
  <2>2. ScanOK(y)'
    BY <1>3, <1>4, <2>1
  <2> QED  BY <2>1, <2>2
<1> QED  BY <1>1, <1>2, <1>5 DEF IInv

LEMMA NoRunIsRun == NoRun \in Run
BY DEF NoRun, Run

LEMMA IngestStep ==
  ASSUME IInv, NEW s \in Scan, NEW t \in Tag, NEW a \in Area, NEW time \in Instant,
         Ingest(s, t, a, time)
  PROVE  IInv'
<1>1. PICK n : n = NoRun
  OBVIOUS
<1> DEFINE x == [pc |-> "queued", tag |-> t, area |-> a, captured |-> time, run |-> n]
<1>3. n \in Run
  BY <1>1, NoRunIsRun
<1>4. x \in ScanRow
  BY <1>3 DEF ScanRow, Run
<1>5. a \in area /\ UNCHANGED campus /\ scan' = [scan EXCEPT ![s] = x]
  BY <1>1 DEF Ingest
<1>6. RunOK(x)
  BY <1>1, NoRunIsNothing DEF RunOK
<1>7. ScanOK(x)
  BY <1>1, <1>5, <1>6 DEF ScanOK
<1> QED  BY <1>4, <1>5, <1>7, ScanMoves

\* A scan being judged, with its run.
LEMMA AboutScan ==
  ASSUME IInv, NEW s \in Scan, scan[s].pc # "none"
  PROVE  /\ scan[s] \in ScanRow /\ scan[s].run \in Run
         /\ scan[s].tag \in Tag /\ scan[s].area \in area /\ scan[s].captured \in Instant
         /\ ScanOK(scan[s]) /\ RunOK(scan[s])
<1>1. PICK x : x = scan[s]
  OBVIOUS
<1>2. x \in ScanRow /\ ScanOK(x)
  BY <1>1 DEF IInv
<1>3. x.run \in Run
  BY <1>2 DEF ScanRow, Run
<1>4. x.tag \in Tag /\ x.area \in area /\ x.captured \in Instant /\ RunOK(x)
  BY <1>1, <1>2 DEF ScanOK
<1> QED  BY <1>1, <1>2, <1>3, <1>4

\* A new place and run of a scan.
LEMMA RunMoves ==
  ASSUME IInv, NEW s \in Scan, scan[s].pc # "none", NEW r \in Run,
         NEW pc \in {"queued", "resolve", "climb", "judged", "done"}, UNCHANGED campus,
         scan' = [scan EXCEPT ![s].pc = pc, ![s].run = r],
         pc = "queued" => r = NoRun, pc = "resolve" => r.verdict = "none" /\ r.visited = {},
         RunOK([scan[s] EXCEPT !.pc = pc, !.run = r])
  PROVE  IInv'
<1>1. PICK y : y = scan[s]
  OBVIOUS
<1>2. y \in ScanRow /\ y.tag \in Tag /\ y.area \in area /\ y.captured \in Instant
  BY <1>1, AboutScan
<1> DEFINE x == [y EXCEPT !.pc = pc, !.run = r]
<1>3. /\ x \in ScanRow /\ x.pc = pc /\ x.run = r /\ x.tag = y.tag /\ x.area = y.area
      /\ x.captured = y.captured
  BY <1>2 DEF ScanRow, Run
<1>4. scan' = [scan EXCEPT ![s] = x]
  BY <1>1, <1>2 DEF IInv, ScanRow
<1>5. RunOK(x)
  BY <1>1
<1> HIDE DEF x
<1>6. ScanOK(x)
  BY <1>2, <1>3, <1>5 DEF ScanOK
<1> QED  BY <1>3, <1>4, <1>6, ScanMoves

LEMMA FailStep == ASSUME IInv, NEW s \in Scan, Fail(s) PROVE IInv'
<1>1. PICK y : y = scan[s]
  OBVIOUS
<1>2. y \in ScanRow /\ y.pc # "none"
  BY <1>1 DEF Fail, IInv
<1>3. PICK x : x = [y EXCEPT !.pc = "queued", !.run = NoRun]
  OBVIOUS
<1>4. x.pc = "queued" /\ x.run = NoRun
  BY <1>2, <1>3, NoRunIsRun DEF ScanRow
<1>5. RunOK(x)
  BY <1>4, NoRunIsNothing DEF RunOK
<1>6. UNCHANGED campus /\ scan' = [scan EXCEPT ![s].pc = "queued", ![s].run = NoRun]
  BY DEF Fail
<1> QED  BY <1>1, <1>2, <1>3, <1>5, <1>6, NoRunIsRun, RunMoves

LEMMA CommitStep == ASSUME IInv, NEW s \in Scan, Commit(s) PROVE IInv'
<1>1. PICK y : y = scan[s]
  OBVIOUS
<1>2. y \in ScanRow /\ y.pc = "judged" /\ y.run \in Run /\ RunOK(y)
  BY <1>1, AboutScan DEF Commit
<1>3. PICK r : r = y.run
  OBVIOUS
<1>4. PICK x : x = [y EXCEPT !.pc = "done", !.run = r]
  OBVIOUS
<1>5. /\ x.pc = "done" /\ x.run = y.run /\ x.tag = y.tag /\ x.area = y.area
      /\ x.captured = y.captured
  BY <1>2, <1>3, <1>4 DEF ScanRow
<1>6. RunOK(x)
  BY <1>2, <1>5 DEF RunOK
<1>7. UNCHANGED campus /\ scan' = [scan EXCEPT ![s].pc = "done", ![s].run = r]
  BY <1>1, <1>2, <1>3 DEF Commit, IInv, ScanRow
<1> QED  BY <1>1, <1>2, <1>3, <1>4, <1>6, <1>7, RunMoves

LEMMA DeliverStep == ASSUME IInv, NEW s \in Scan, Deliver(s) PROVE IInv'
<1>1. PICK y : y = scan[s]
  OBVIOUS
<1>2. y \in ScanRow /\ y.pc = "queued" /\ y.tag \in Tag
  BY <1>1, AboutScan DEF Deliver
<1>3. PICK b : b = Standing(s)
  OBVIOUS
<1>4. PICK w : w = wristband[y.tag]
  OBVIOUS
<1>5. /\ b \in {"entitled", "revoked", "other"}
      /\ b = "revoked" => w.status = "inactive"
      /\ b = "entitled" => w.status # "none" /\ Permitted(w.category, y.area, y.captured)
  BY <1>1, <1>3, <1>4 DEF Standing
<1>6. PICK r : r = [NoRun EXCEPT !.before = b]
  OBVIOUS
<1>7. r \in Run /\ r.before = b /\ r.verdict = "none" /\ r.visited = {}
  BY <1>5, <1>6 DEF NoRun, Run
<1>8. PICK x : x = [y EXCEPT !.pc = "resolve", !.run = r]
  OBVIOUS
<1>9. /\ x.pc = "resolve" /\ x.run = r /\ x.tag = y.tag /\ x.area = y.area
      /\ x.captured = y.captured
  BY <1>2, <1>8 DEF ScanRow
<1>10. RunOK(x)
  BY <1>4, <1>5, <1>7, <1>9 DEF RunOK
<1>11. UNCHANGED campus /\ scan' = [scan EXCEPT ![s].pc = "resolve", ![s].run = r]
  BY <1>3, <1>6 DEF Deliver
<1> QED  BY <1>1, <1>2, <1>7, <1>8, <1>10, <1>11, RunMoves

LEMMA ResolveTagStep == ASSUME IInv, NEW s \in Scan, ResolveTag(s) PROVE IInv'
<1>1. PICK y : y = scan[s]
  OBVIOUS
<1>2. /\ y \in ScanRow /\ y.pc = "resolve" /\ y.tag \in Tag /\ y.area \in area
      /\ y.run \in Run /\ RunOK(y) /\ ScanOK(y)
  BY <1>1, AboutScan DEF ResolveTag
<1>3. PICK w : w = wristband[y.tag]
  OBVIOUS
<1>4. PICK q : q = y.run
  OBVIOUS
<1>5. w.category \in Category \cup {None} /\ y.area \in Area
  BY <1>2, <1>3 DEF IInv, CampusType
<1>6. q \in Run /\ q.verdict = "none" /\ q.visited = {}
  BY <1>2, <1>4 DEF ScanOK
<1>7. /\ q.before = "revoked" => w.status = "inactive"
      /\ q.before = "entitled" =>
           w.status # "none" /\ Permitted(w.category, y.area, y.captured)
  BY <1>2, <1>3, <1>4 DEF RunOK
<1>8. CASE w.status = "active"
  <2>1. PICK r : r = [q EXCEPT !.category = w.category, !.next = {y.area}]
    OBVIOUS
  <2>2. /\ r \in Run /\ r.category = w.category /\ r.next = {y.area} /\ r.visited = {}
        /\ r.verdict = "none" /\ r.before = q.before
    BY <1>5, <1>6, <2>1 DEF Run
  <2>3. PICK x : x = [y EXCEPT !.pc = "climb", !.run = r]
    OBVIOUS
  <2>4. /\ x.pc = "climb" /\ x.run = r /\ x.tag = y.tag /\ x.area = y.area
        /\ x.captured = y.captured
    BY <1>2, <2>3 DEF ScanRow
  <2>5. WalkOK(x)
    BY <1>2, <2>2, <2>4, ContainingSelf DEF WalkOK
  <2>6. RunOK(x)
    BY <1>3, <1>7, <1>8, <2>2, <2>4, <2>5 DEF RunOK
  <2>7. UNCHANGED campus /\ scan' = [scan EXCEPT ![s].pc = "climb", ![s].run = r]
    <3>1. scan' = [scan EXCEPT ![s].pc = "climb", ![s].run.category = w.category,
                               ![s].run.next = {y.area}]
      BY <1>1, <1>3, <1>8 DEF ResolveTag
    <3>2. scan' = [scan EXCEPT ![s].pc = "climb", ![s].run = r]
      BY <1>1, <1>2, <1>4, <2>1, <3>1 DEF IInv, ScanRow
    <3> QED  BY <3>2 DEF ResolveTag
  <2> QED  BY <1>1, <1>2, <2>2, <2>3, <2>6, <2>7, RunMoves
<1>9. CASE w.status # "active"
  <2>1. PICK r : r = [q EXCEPT !.verdict = "intrusion"]
    OBVIOUS
  <2>2. r \in Run /\ r.verdict = "intrusion" /\ r.before = q.before
    BY <1>6, <2>1 DEF Run
  <2>3. PICK x : x = [y EXCEPT !.pc = "judged", !.run = r]
    OBVIOUS
  <2>4. /\ x.pc = "judged" /\ x.run = r /\ x.tag = y.tag /\ x.area = y.area
        /\ x.captured = y.captured
    BY <1>2, <2>3 DEF ScanRow
  <2>5. w.status \in {"none", "inactive"}
    BY <1>2, <1>3, <1>9 DEF IInv, CampusType
  <2>6. RunOK(x)
    BY <1>3, <1>7, <2>2, <2>4, <2>5 DEF RunOK
  <2>7. UNCHANGED campus /\ scan' = [scan EXCEPT ![s].pc = "judged", ![s].run = r]
    <3>1. scan' = [scan EXCEPT ![s].pc = "judged", ![s].run.verdict = "intrusion"]
      BY <1>1, <1>3, <1>9 DEF ResolveTag
    <3>2. scan' = [scan EXCEPT ![s].pc = "judged", ![s].run = r]
      BY <1>1, <1>2, <1>4, <2>1, <3>1 DEF IInv, ScanRow
    <3> QED  BY <3>2 DEF ResolveTag
  <2> QED  BY <1>1, <1>2, <2>2, <2>3, <2>6, <2>7, RunMoves
<1> QED  BY <1>8, <1>9

LEMMA ClimbStep == ASSUME IInv, NEW s \in Scan, Climb(s) PROVE IInv'
<1>1. PICK y : y = scan[s]
  OBVIOUS
<1>2. /\ y \in ScanRow /\ y.pc = "climb" /\ y.tag \in Tag /\ y.area \in area
      /\ y.run \in Run /\ RunOK(y) /\ CampusType
  BY <1>1, AboutScan DEF Climb, IInv
<1>3. PICK q : q = y.run
  OBVIOUS
<1>4. PICK a \in q.next \ q.visited :
        scan' = [scan EXCEPT ![s].run.visited = @ \cup {a}, ![s].run.next = parent[a]]
  BY <1>1, <1>3 DEF Climb
<1>5. PICK V, N : V = q.visited \cup {a} /\ N = parent[a]
  OBVIOUS
<1>6. PICK r : r = [q EXCEPT !.visited = V, !.next = N]
  OBVIOUS
<1>7. V \subseteq Area /\ N \subseteq Area /\ a \in Area
  BY <1>2, <1>3, <1>5 DEF Run, CampusType
<1>8. /\ r \in Run /\ r.visited = V /\ r.next = N
       /\ r.category = q.category /\ r.verdict = q.verdict /\ r.before = q.before
  BY <1>2, <1>3, <1>6, <1>7 DEF Run
<1>9. PICK x : x = [y EXCEPT !.pc = "climb", !.run = r]
  OBVIOUS
<1>10. /\ x.pc = "climb" /\ x.run = r /\ x.tag = y.tag /\ x.area = y.area
      /\ x.captured = y.captured
  BY <1>2, <1>9 DEF ScanRow
<1>11. WalkOK(y)
  BY <1>2 DEF RunOK
<1>12. a \in Containing(y.area) /\ \A b \in q.next : b = a
  BY <1>3, <1>11 DEF WalkOK
<1>13. parent[a] \subseteq Containing(y.area) /\ \A b, c \in parent[a] : b = c
  BY <1>2, <1>12, <1>7, ContainingParent DEF CampusType
<1>14. WalkOK(x)
  BY <1>3, <1>5, <1>10, <1>11, <1>12, <1>13, <1>8 DEF WalkOK
<1>15. RunOK(x)
  BY <1>2, <1>3, <1>10, <1>14, <1>8 DEF RunOK
<1>16. UNCHANGED campus /\ scan' = [scan EXCEPT ![s].pc = "climb", ![s].run = r]
  <2>1. scan' = [scan EXCEPT ![s].run.visited = V, ![s].run.next = N]
    BY <1>1, <1>2, <1>3, <1>4, <1>5 DEF IInv, ScanRow
  <2>2. scan' = [scan EXCEPT ![s].run = r]
    BY <1>1, <1>2, <1>3, <1>6, <2>1 DEF IInv, ScanRow
  <2>3. scan' = [scan EXCEPT ![s].pc = "climb", ![s].run = r]
    BY <1>1, <1>2, <2>2 DEF IInv, ScanRow
  <2> QED  BY <2>3 DEF Climb
<1> QED  BY <1>1, <1>2, <1>9, <1>15, <1>16, <1>8, RunMoves

LEMMA ReadPermissionsStep == ASSUME IInv, NEW s \in Scan, ReadPermissions(s) PROVE IInv'
<1>1. PICK y : y = scan[s]
  OBVIOUS
<1>2. /\ y \in ScanRow /\ y.pc = "climb" /\ y.tag \in Tag /\ y.area \in area
      /\ y.run \in Run /\ RunOK(y) /\ CampusType
  BY <1>1, AboutScan DEF ReadPermissions, IInv
<1>3. PICK q : q = y.run
  OBVIOUS
<1>4. PICK w : w = wristband[y.tag]
  OBVIOUS
<1>5. /\ WalkOK(y) /\ w.status # "none" /\ q.category = w.category /\ q.before # "revoked"
      /\ q.before = "entitled" => Permitted(w.category, y.area, y.captured)
  BY <1>2, <1>3, <1>4 DEF RunOK
<1>6. q.visited = Containing(y.area)
  <2>1. q.visited \subseteq Containing(y.area)
    BY <1>3, <1>5 DEF WalkOK
  <2>2. q.visited \in SUBSET area
    BY <2>1 DEF Containing
  <2>3. q.next \subseteq q.visited
    BY <1>1, <1>3 DEF ReadPermissions
  <2>4. y.area \in q.visited
    BY <1>3, <1>5, <2>3 DEF WalkOK
  <2>5. \A a \in q.visited : parent[a] \subseteq q.visited
    BY <1>3, <1>5, <2>3 DEF WalkOK
  <2>6. Containing(y.area) \subseteq q.visited
    BY <2>2, <2>4, <2>5, ContainingLeast
  <2> QED  BY <2>1, <2>6
<1>7. PICK v : v = IF Permitted(w.category, y.area, y.captured) THEN "authorized" ELSE "intrusion"
  OBVIOUS
<1>8. PICK r : r = [q EXCEPT !.verdict = v]
  OBVIOUS
<1>9. r \in Run /\ r.verdict = v /\ r.before = q.before
  BY <1>2, <1>3, <1>7, <1>8 DEF Run
<1>10. PICK x : x = [y EXCEPT !.pc = "judged", !.run = r]
  OBVIOUS
<1>11. /\ x.pc = "judged" /\ x.run = r /\ x.tag = y.tag /\ x.area = y.area
       /\ x.captured = y.captured
  BY <1>2, <1>10 DEF ScanRow
<1>12. RunOK(x)
  BY <1>4, <1>5, <1>7, <1>9, <1>11 DEF RunOK
<1>13. UNCHANGED campus /\ scan' = [scan EXCEPT ![s].pc = "judged", ![s].run = r]
  <2> DEFINE found == {p \in permission : p.category = q.category /\ p.area \in q.visited}
  <2>1. (\E p \in found : ValidAt(p, y.captured)) <=> Permitted(w.category, y.area, y.captured)
    BY <1>5, <1>6 DEF Permitted, ValidAt
  <2>2. scan' = [scan EXCEPT ![s].pc = "judged",
          ![s].run.verdict = IF \E p \in found : ValidAt(p, y.captured)
                             THEN "authorized" ELSE "intrusion"]
    BY <1>1, <1>3 DEF ReadPermissions
  <2> HIDE DEF found
  <2>3. scan' = [scan EXCEPT ![s].pc = "judged", ![s].run.verdict = v]
    BY <1>7, <2>1, <2>2
  <2>4. scan' = [scan EXCEPT ![s].pc = "judged", ![s].run = r]
    BY <1>1, <1>2, <1>3, <1>8, <2>3 DEF IInv, ScanRow
  <2> QED  BY <2>4 DEF ReadPermissions
<1> QED  BY <1>1, <1>2, <1>9, <1>10, <1>12, <1>13, RunMoves

----------------------------------------------------------------------------
(* Theorems.                                                               *)

LEMMA StepInv == IInv /\ [Next]_vars => IInv'
<1> SUFFICES ASSUME IInv, [Next]_vars PROVE IInv'
  OBVIOUS
<1>1. ASSUME StaffStep PROVE IInv'
  BY <1>1, CreateAreaStep, RevokeStep, IssueStep, GrantStep DEF StaffStep
<1>2. ASSUME NEW s \in Scan, ScanStep(s) PROVE IInv'
  BY <1>2, IngestStep, DeliverStep, ResolveTagStep, ClimbStep, ReadPermissionsStep,
     CommitStep, FailStep DEF ScanStep
<1>3. CASE UNCHANGED vars
  <2>1. StaffKeep /\ scan' = scan
    BY <1>3 DEF vars, campus, StaffKeep
  <2>2. CampusType'
    BY <1>3 DEF vars, campus, IInv, CampusType, Permission
  <2> QED  BY <2>1, <2>2, StaffKeepScans
<1> QED  BY <1>1, <1>2, <1>3 DEF Next

LEMMA Invariance == Spec => []IInv
<1> QED  BY InitInv, StepInv, PTL DEF Spec

\* A scan without a row has no verdict.
LEMMA VerdictOfRun ==
  ASSUME IInv, NEW s \in Scan, scan[s].run.verdict # "none"
  PROVE  scan[s].pc # "none"
BY NoRunIsNothing DEF IInv, ScanOK

(***************************************************************************)
(* Every row and handler run has its type, and parents are areas.          *)
(***************************************************************************)
THEOREM TypeCorrect == Spec => []TypeOK
<1>1. IInv => TypeOK
  BY DEF IInv, CampusType, TypeOK
<1> QED  BY <1>1, Invariance, PTL

(***************************************************************************)
(* Whoever is held to be authorized carries a wristband that was not       *)
(* revoked when the evaluation began, and its category is permitted in an  *)
(* area containing the scan's at the instant of the scan.                  *)
(***************************************************************************)
THEOREM AuthorizedPermitted == Spec => []AuthorizedIsPermitted
<1>1. ASSUME IInv PROVE AuthorizedIsPermitted
  BY <1>1, VerdictOfRun, AboutScan DEF AuthorizedIsPermitted, RunOK
<1>2. IInv => AuthorizedIsPermitted
  BY <1>1
<1> QED  BY <1>2, Invariance, PTL

(***************************************************************************)
(* Whoever was entitled when the evaluation began raises no alarm, unless  *)
(* the wristband is revoked meanwhile.                                     *)
(***************************************************************************)
THEOREM EntitledNoIntruder == Spec => []EntitledIsNoIntruder
<1>1. ASSUME IInv PROVE EntitledIsNoIntruder
  BY <1>1, VerdictOfRun, AboutScan DEF EntitledIsNoIntruder, RunOK
<1>2. IInv => EntitledIsNoIntruder
  BY <1>1
<1> QED  BY <1>2, Invariance, PTL
=============================================================================
