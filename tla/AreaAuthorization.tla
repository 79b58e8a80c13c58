-------------------------- MODULE AreaAuthorization --------------------------
(***************************************************************************)
(* Who may be where: the areas of a campus, the wristbands and the         *)
(* permissions of their categories, as the staff change them, and the      *)
(* workers that judge the scans of area readers, each by several reads at  *)
(* READ COMMITTED.  An action is one statement of a worker, or a request   *)
(* of the staff: the rows it looks up are never deleted, so it is one step.*)
(***************************************************************************)
EXTENDS Naturals, FiniteSets

CONSTANTS Area,       \* identifiers of area rows
          Category,   \* wristband categories
          Tag,        \* tag codes
          Scan,       \* AREA_READER_SCAN rows of raw_security_event
          Instant,    \* times, as numbers
          MaxGrants,  \* bound of the number of permissions
          None

VARIABLES area,        \* committed area rows
          parent,      \* parent_area_id of each, a set of at most one area
          wristband,   \* committed wristband row of each tag code
          permission,  \* committed wristband_category_area_permission rows
          scan         \* each scan and the handler run that judges it

campus == <<area, parent, wristband, permission>>
vars == <<campus, scan>>

Permission ==
  {p \in [category: Category, area: Area, from: Instant \cup {None}, until: Instant \cup {None}] :
     p.from = None \/ p.until = None \/ p.from < p.until}

NoWristband == [category |-> None, status |-> "none"]

NoRun == [category |-> None, visited |-> {}, next |-> {}, verdict |-> "none", before |-> "none"]
NoScan == [pc |-> "none", tag |-> None, area |-> None, captured |-> None, run |-> NoRun]

Run ==
  [category: Category \cup {None}, visited: SUBSET Area, next: SUBSET Area,
   verdict: {"none", "authorized", "intrusion"},
   before: {"none", "entitled", "revoked", "other"}]
ScanRow ==
  [pc: {"none", "queued", "resolve", "climb", "judged", "done"},
   tag: Tag \cup {None}, area: Area \cup {None}, captured: Instant \cup {None}, run: Run]

Init ==
  /\ area = {} /\ parent = [a \in Area |-> {}]
  /\ wristband = [t \in Tag |-> NoWristband]
  /\ permission = {} /\ scan = [s \in Scan |-> NoScan]

----------------------------------------------------------------------------
(* Requests of the staff.                                                  *)

\* AreaService.create: a row gets its parent once and keeps it.
CreateArea(a, p) ==
  /\ a \notin area /\ p \subseteq area
  /\ area' = area \cup {a}
  /\ parent' = [parent EXCEPT ![a] = p]
  /\ UNCHANGED <<wristband, permission, scan>>

\* A tag code is used once, also after its wristband was revoked.
Issue(t, c) ==
  /\ wristband[t].status = "none"
  /\ wristband' = [wristband EXCEPT ![t] = [category |-> c, status |-> "active"]]
  /\ UNCHANGED <<area, parent, permission, scan>>

Revoke(t) ==
  /\ wristband[t].status # "none"
  /\ wristband' = [wristband EXCEPT ![t].status = "inactive"]
  /\ UNCHANGED <<area, parent, permission, scan>>

GrantAreaPermission(p) ==
  /\ p.area \in area /\ Cardinality(permission) < MaxGrants
  /\ permission' = permission \cup {p}
  /\ UNCHANGED <<area, parent, wristband, scan>>

----------------------------------------------------------------------------
(* The areas that contain an area, by the hierarchy as a whole: every set  *)
(* that holds the area and the parent of each of its members holds them.   *)

Containing(a) ==
  {b \in area : \A S \in SUBSET area :
     a \in S /\ (\A x \in S : parent[x] \subseteq S) => b \in S}

ValidAt(p, time) ==
  (p.from = None \/ p.from <= time) /\ (p.until = None \/ time <= p.until)

Permitted(category, a, time) ==
  \E p \in permission :
    p.category = category /\ p.area \in Containing(a) /\ ValidAt(p, time)

\* What the tables say of a scan when its evaluation begins.
Standing(s) ==
  LET w == wristband[scan[s].tag] IN
  IF w.status = "inactive" THEN "revoked"
  ELSE IF w.status = "active" /\ Permitted(w.category, scan[s].area, scan[s].captured)
       THEN "entitled" ELSE "other"

----------------------------------------------------------------------------
(* Scans.                                                                  *)

\* SecurityIngestionService.ingest: the area must exist.  The event and its
\* job are committed together.
Ingest(s, t, a, time) ==
  /\ scan[s].pc = "none" /\ a \in area
  /\ scan' = [scan EXCEPT ![s] =
       [pc |-> "queued", tag |-> t, area |-> a, captured |-> time, run |-> NoRun]]
  /\ UNCHANGED campus

Deliver(s) ==
  /\ scan[s].pc = "queued"
  /\ scan' = [scan EXCEPT ![s].pc = "resolve", ![s].run = [NoRun EXCEPT !.before = Standing(s)]]
  /\ UNCHANGED campus

\* resolveByTagCode: a tag that is unknown or revoked is an intrusion.
ResolveTag(s) ==
  /\ scan[s].pc = "resolve"
  /\ LET w == wristband[scan[s].tag] IN
     scan' = IF w.status = "active"
       THEN [scan EXCEPT ![s].pc = "climb", ![s].run.category = w.category,
                         ![s].run.next = {scan[s].area}]
       ELSE [scan EXCEPT ![s].pc = "judged", ![s].run.verdict = "intrusion"]
  /\ UNCHANGED campus

\* resolveAreaAndAncestors: one read per area, up to the one that has no
\* parent or was visited before.
Climb(s) ==
  /\ scan[s].pc = "climb"
  /\ \E a \in scan[s].run.next \ scan[s].run.visited :
       scan' = [scan EXCEPT ![s].run.visited = @ \cup {a}, ![s].run.next = parent[a]]
  /\ UNCHANGED campus

\* isAuthorized: the permissions of the category there are now, at the
\* instant the scan was captured.
ReadPermissions(s) ==
  /\ scan[s].pc = "climb" /\ scan[s].run.next \subseteq scan[s].run.visited
  /\ LET run == scan[s].run
         found == {p \in permission : p.category = run.category /\ p.area \in run.visited} IN
     scan' = [scan EXCEPT ![s].pc = "judged",
       ![s].run.verdict =
         IF \E p \in found : ValidAt(p, scan[s].captured) THEN "authorized" ELSE "intrusion"]
  /\ UNCHANGED campus

\* The handler commits, with or without an incident.
Commit(s) ==
  /\ scan[s].pc = "judged"
  /\ scan' = [scan EXCEPT ![s].pc = "done"]
  /\ UNCHANGED campus

\* It fails or its process stops, and the job is delivered again.
Fail(s) ==
  /\ scan[s].pc \in {"resolve", "climb", "judged"}
  /\ scan' = [scan EXCEPT ![s].pc = "queued", ![s].run = NoRun]
  /\ UNCHANGED campus

----------------------------------------------------------------------------
StaffStep ==
  \/ \E a \in Area, p \in {{}} \cup {{b} : b \in area} : CreateArea(a, p)
  \/ \E t \in Tag : Revoke(t) \/ \E c \in Category : Issue(t, c)
  \/ \E p \in Permission : GrantAreaPermission(p)

ScanStep(s) ==
  \/ \E t \in Tag, a \in Area, time \in Instant : Ingest(s, t, a, time)
  \/ Deliver(s) \/ ResolveTag(s) \/ Climb(s) \/ ReadPermissions(s) \/ Commit(s) \/ Fail(s)

Next == StaffStep \/ \E s \in Scan : ScanStep(s)

Spec == Init /\ [][Next]_vars

----------------------------------------------------------------------------
(* Properties.                                                             *)

\* Values have their types; the parent of an area is an area.
TypeOK ==
  /\ area \subseteq Area /\ parent \in [Area -> SUBSET area]
  /\ wristband \in [Tag -> [category: Category \cup {None}, status: {"none", "active", "inactive"}]]
  /\ permission \subseteq Permission
  /\ scan \in [Scan -> ScanRow]

\* area-authorization.service.ts:27: a scan held to be authorized carries a
\* wristband that was not revoked when the evaluation began, and its category
\* has a permission of an area containing the scan's, valid at its capture,
\* although areas, wristbands and permissions change between the reads.
AuthorizedIsPermitted ==
  \A s \in Scan : scan[s].run.verdict = "authorized" =>
    /\ scan[s].run.before # "revoked"
    /\ Permitted(wristband[scan[s].tag].category, scan[s].area, scan[s].captured)

\* intrusion-detection.service.ts:63: a person whose wristband and permission
\* were in force when the evaluation began raises no alarm, unless the
\* wristband is revoked meanwhile.
EntitledIsNoIntruder ==
  \A s \in Scan : scan[s].run.verdict = "intrusion" /\ scan[s].run.before = "entitled" =>
    wristband[scan[s].tag].status = "inactive"
=============================================================================
