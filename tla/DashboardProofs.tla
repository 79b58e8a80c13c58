--------------------------- MODULE DashboardProofs ---------------------------
(***************************************************************************)
(* Proofs about the dashboard, for any permissions, routes and tokens and  *)
(* any number of forms, navigations, writes of colleagues and faults.      *)
(***************************************************************************)
EXTENDS Dashboard, FiniteSetTheorems, TLAPS

(***************************************************************************)
(* What a form submitted from a page is: it invalidates what it writes,    *)
(* which is one resource, or nothing, or an incident and the list with it. *)
(***************************************************************************)
RowOK(f) ==
  /\ f.writes = f.refreshes
  /\ f.writes \subseteq Key
  /\ \/ f.writes = {"incident", "incidents"}
     \/ f.writes = {}
     \/ \E k \in Key \ {"incident", "incidents"} : f.writes = {k}

\* Before the token of a reload is judged nothing else has begun.
Starting ==
  startup # None =>
    /\ status = "loading" /\ page = "home" /\ login = "none" /\ asked = {}
    /\ mutation = {} /\ orphans = {} /\ \A k \in Key : ~InFlight(k)

\* The login page is open exactly while nobody is signed in.
Signed ==
  /\ page = "login" <=> status = "anonymous"
  /\ login # "none" => page = "login"

\* Submitted forms are told apart by their ids; one that belongs to the page
\* belongs to a session, and none knows a version that was not written.
FormsOK ==
  /\ \A m \in mutation :
       /\ m.id <= submits
       /\ m.here => status = "authenticated"
       /\ \A k \in m.form.writes : m.at <= version[k]
  /\ \A m, n \in mutation : m.id = n.id => m = n

\* The writes still to come are counted: this is what bounds the versions.
Uncommitted == {m.id : m \in {n \in mutation : n.at = 0}}

VersionsOK ==
  /\ \A k \in Key : version[k] + Cardinality(Uncommitted) <= 1 + submits + others
  /\ version["incident"] = version["incidents"]

\* Nobody has read or written a version that does not exist.
CacheOK ==
  /\ failed \subseteq stale
  /\ \A k \in Key :
       data[k] <= version[k] /\ own[k] <= version[k] /\ fetch[k].since <= version[k]

(***************************************************************************)
(* A request in flight began after the last write the tab was told of; a   *)
(* copy that is on screen, or may be used without being read again, shows  *)
(* that write.                                                             *)
(***************************************************************************)
Shown(k) ==
  k \notin missed =>
    /\ InFlight(k) => own[k] <= fetch[k].since
    /\ /\ ~InFlight(k) /\ k \notin failed
       /\ k \in Mounted \/ (k \notin stale /\ data[k] # 0)
       => own[k] <= data[k]

DashInv ==
  /\ TypeOK
  /\ Starting
  /\ Signed
  /\ FormsOK
  /\ VersionsOK
  /\ CacheOK
  /\ \A k \in Key : Shown(k)

-----------------------------------------------------------------------------
(***************************************************************************)
(* The pages, one by one: the queries of a page are queries, its forms are *)
(* in order, and only the devices page shows the key of a device.          *)
(***************************************************************************)
LEMMA Keys ==
  Key = {"courses", "rooms", "groups", "enrollments", "sessions", "persons", "devices", "areas",
         "configs", "factors", "register", "history", "summary", "reviews", "permissions",
         "categories", "wristbands", "cameras", "incidents", "incident"}
BY DEF Key, ReadBy

Single == Key \ {"incident", "incidents"}

LEMMA Singles ==
  /\ "courses" \in Single /\ "rooms" \in Single /\ "groups" \in Single
  /\ "enrollments" \in Single /\ "sessions" \in Single /\ "persons" \in Single
  /\ "devices" \in Single /\ "configs" \in Single /\ "reviews" \in Single
  /\ "permissions" \in Single /\ "categories" \in Single /\ "wristbands" \in Single
  /\ "cameras" \in Single
BY Keys DEF Single

Elsewhere(f) == RowOK(f) /\ f.name # "register device"

LEMMA RowFormOK ==
  \A k \in Single : \A name, on, needs :
    /\ RowOK(RowForm(name, on, needs, {k}, {k}))
    /\ name # "register device" => Elsewhere(RowForm(name, on, needs, {k}, {k}))
<1> TAKE k \in Single
<1> TAKE name, on, needs
<1> DEFINE f == RowForm(name, on, needs, {k}, {k})
<1>1. f.writes = {k} /\ f.refreshes = {k} /\ f.name = name
  BY DEF RowForm
<1> QED  BY <1>1 DEF RowOK, Single, Elsewhere

LEMMA FormOK ==
  \A k \in Single : \A name, needs :
    /\ RowOK(Form(name, needs, k))
    /\ name # "register device" => Elsewhere(Form(name, needs, k))
BY RowFormOK DEF Form

LEMMA UnseenOK ==
  \A name, on, needs : name # "register device" => Elsewhere(RowForm(name, on, needs, {}, {}))
<1> TAKE name, on, needs
<1> DEFINE f == RowForm(name, on, needs, {}, {})
<1>1. f.writes = {} /\ f.refreshes = {} /\ f.name = name
  BY DEF RowForm
<1> QED  BY <1>1 DEF RowOK, Elsewhere

LEMMA CloseOK ==
  \A on, needs : Elsewhere(RowForm("close incident", on, needs,
                                   {"incident", "incidents"}, {"incident", "incidents"}))
<1> TAKE on, needs
<1> DEFINE f == RowForm("close incident", on, needs,
                        {"incident", "incidents"}, {"incident", "incidents"})
<1>1. /\ f.writes = {"incident", "incidents"} /\ f.refreshes = {"incident", "incidents"}
      /\ f.name = "close incident"
  BY DEF RowForm
<1> QED  BY <1>1, Keys DEF RowOK, Elsewhere

LEMMA Pages ==
  Page = {"home", "courses", "rooms", "groups", "group", "devices", "config", "register",
          "reviews", "users", "permissions", "wristbands", "incidents", "incident", "cameras"}
BY DEF Page, App

LEMMA FormsOfPages ==
  ASSUME NEW p \in Page
  PROVE  /\ \A f \in App[p].forms : RowOK(f)
         /\ p # "devices" => \A f \in App[p].forms : f.name # "register device"
<1>1. \A f \in HomePage.forms : Elsewhere(f)
  BY DEF Screen, HomePage
<1>2. \A f \in CoursesPage.forms : Elsewhere(f)
  BY Singles, FormOK DEF Screen, CoursesPage
<1>3. \A f \in RoomsPage.forms : Elsewhere(f)
  BY Singles, FormOK DEF Screen, RoomsPage
<1>4. \A f \in ClassGroupsPage.forms : Elsewhere(f)
  <2>1. ClassGroupsPage.forms =
         {RowForm("create class group", "courses", {Structure}, {"groups"}, {"groups"})}
    BY DEF Screen, ClassGroupsPage
  <2>2. Elsewhere(RowForm("create class group", "courses", {Structure}, {"groups"}, {"groups"}))
    BY Singles, RowFormOK
  <2> QED  BY <2>1, <2>2
<1>5. \A f \in ClassGroupDetailPage.forms : Elsewhere(f)
  BY Singles, FormOK, RowFormOK DEF Screen, ClassGroupDetailPage, EnrollmentsSection, SessionsSection
<1>6. \A f \in DevicesPage.forms : RowOK(f)
  BY Singles, FormOK, RowFormOK DEF Screen, DevicesPage
<1>7. \A f \in AttendanceConfigPage.forms : Elsewhere(f)
  BY Singles, FormOK, UnseenOK DEF Screen, AttendanceConfigPage, RequiredFactorsSection
<1>8. \A f \in AttendanceRegisterPage.forms : Elsewhere(f)
  BY DEF Screen, AttendanceRegisterPage
<1>9. \A f \in PendingReviewsPage.forms : Elsewhere(f)
  BY Singles, RowFormOK DEF Screen, PendingReviewsPage
<1>10. \A f \in UsersPage.forms : Elsewhere(f)
  BY Singles, FormOK DEF Screen, UsersPage
<1>11. \A f \in PermissionGroupsPage.forms : Elsewhere(f)
  BY Singles, FormOK, UnseenOK DEF Screen, PermissionGroupsPage
<1>12. \A f \in WristbandsPage.forms : Elsewhere(f)
  BY Singles, FormOK, RowFormOK DEF Screen, WristbandsPage
<1>13. \A f \in SecurityIncidentsPage.forms : Elsewhere(f)
  BY DEF Screen, SecurityIncidentsPage
<1>14. \A f \in SecurityIncidentDetailPage.forms : Elsewhere(f)
  BY CloseOK DEF Screen, SecurityIncidentDetailPage
<1>15. \A f \in CamerasPage.forms : Elsewhere(f)
  BY Singles, FormOK DEF Screen, CamerasPage
<1>16. \A q \in Page \ {"devices"} : \A f \in App[q].forms : Elsewhere(f)
  BY Pages, <1>1, <1>2, <1>3, <1>4, <1>5, <1>7, <1>8, <1>9, <1>10, <1>11, <1>12, <1>13, <1>14, <1>15 DEF App
<1>17. App["devices"] = DevicesPage
  BY DEF App
<1> QED  BY <1>6, <1>16, <1>17 DEF Elsewhere

LEMMA QueriesOfPages ==
  ASSUME NEW p \in Page
  PROVE  App[p].shows \subseteq Key /\ App[p].lookups \subseteq Key
<1>1. HomePage.shows \subseteq Key /\ HomePage.lookups \subseteq Key
  BY Keys DEF Screen, HomePage
<1>2. CoursesPage.shows \subseteq Key /\ CoursesPage.lookups \subseteq Key
  BY Keys DEF Screen, CoursesPage
<1>3. RoomsPage.shows \subseteq Key /\ RoomsPage.lookups \subseteq Key
  BY Keys DEF Screen, RoomsPage
<1>4. ClassGroupsPage.shows \subseteq Key /\ ClassGroupsPage.lookups \subseteq Key
  BY Keys DEF Screen, ClassGroupsPage
<1>5. ClassGroupDetailPage.shows \subseteq Key /\ ClassGroupDetailPage.lookups \subseteq Key
  BY Keys DEF Screen, ClassGroupDetailPage, EnrollmentsSection, SessionsSection
<1>6. DevicesPage.shows \subseteq Key /\ DevicesPage.lookups \subseteq Key
  BY Keys DEF Screen, DevicesPage
<1>7. AttendanceConfigPage.shows \subseteq Key /\ AttendanceConfigPage.lookups \subseteq Key
  BY Keys DEF Screen, AttendanceConfigPage, RequiredFactorsSection
<1>8. AttendanceRegisterPage.shows \subseteq Key /\ AttendanceRegisterPage.lookups \subseteq Key
  BY Keys DEF Screen, AttendanceRegisterPage
<1>9. PendingReviewsPage.shows \subseteq Key /\ PendingReviewsPage.lookups \subseteq Key
  BY Keys DEF Screen, PendingReviewsPage
<1>10. UsersPage.shows \subseteq Key /\ UsersPage.lookups \subseteq Key
  BY Keys DEF Screen, UsersPage
<1>11. PermissionGroupsPage.shows \subseteq Key /\ PermissionGroupsPage.lookups \subseteq Key
  BY Keys DEF Screen, PermissionGroupsPage
<1>12. WristbandsPage.shows \subseteq Key /\ WristbandsPage.lookups \subseteq Key
  BY Keys DEF Screen, WristbandsPage
<1>13. SecurityIncidentsPage.shows \subseteq Key /\ SecurityIncidentsPage.lookups \subseteq Key
  BY Keys DEF Screen, SecurityIncidentsPage
<1>14. SecurityIncidentDetailPage.shows \subseteq Key /\ SecurityIncidentDetailPage.lookups \subseteq Key
  BY Keys DEF Screen, SecurityIncidentDetailPage
<1>15. CamerasPage.shows \subseteq Key /\ CamerasPage.lookups \subseteq Key
  BY Keys DEF Screen, CamerasPage
<1> QED  BY Pages, <1>1, <1>2, <1>3, <1>4, <1>5, <1>6, <1>7, <1>8, <1>9, <1>10, <1>11, <1>12, <1>13, <1>14, <1>15 DEF App

-----------------------------------------------------------------------------
(***************************************************************************)
(* Types, by the part of the state they are about, and the steps, by the   *)
(* part of the state they change.                                          *)
(***************************************************************************)
SessionType ==
  /\ token \in issued \cup {None} /\ live \subseteq issued /\ issued \subseteq Token
  /\ status \in {"loading", "authenticated", "anonymous"}
  /\ startup \in Token \cup {None} /\ login \in Token \cup {"none", "asked"}

ViewType ==
  /\ page \in Page \cup {"login"} /\ asked \subseteq Key /\ revealed \in BOOLEAN
  /\ revealed => status = "authenticated" /\ page = "devices"

CacheType ==
  /\ data \in [Key -> 0..MaxVersion]
  /\ stale \subseteq Key /\ failed \subseteq Key /\ missed \subseteq Key
  /\ fetch \in [Key -> [since: 0..MaxVersion, token: Token \cup {None}]]
  /\ orphans \subseteq Token \cup {None}

FormsType ==
  \A m \in mutation : /\ m \in Mutation
                      /\ m.here => page \in Page /\ m.form \in App[page].forms

ServerType == version \in [Key -> 1..MaxVersion] /\ own \in [Key -> 0..MaxVersion]

BoundsType ==
  /\ submits \in 0..MaxSubmits /\ others \in 0..MaxOthers
  /\ visits \in 0..MaxVisits /\ faults \in 0..MaxFaults

LEMMA TypeParts ==
  TypeOK <=> SessionType /\ ViewType /\ CacheType /\ FormsType /\ ServerType /\ BoundsType
BY DEF TypeOK, SessionType, ViewType, CacheType, FormsType, ServerType, BoundsType

LEMMA TypePartsNext ==
  SessionType' /\ ViewType' /\ CacheType' /\ FormsType' /\ ServerType' /\ BoundsType' => TypeOK'
BY TypeParts, PTL

Signing == AnswerStartup \/ SubmitLogin \/ AnswerLogin \/ AnswerMe \/ \E t \in Token : Expire(t)

Leaving ==
  \/ Logout
  \/ \E k \in Key : UnauthorizedQuery(k)
  \/ \E t \in Token \cup {None} : AnswerOrphan(t)
  \/ \E m \in mutation : UnauthorizedForm(m)

Reading == Focus \/ \E k \in Key : Poll(k) \/ Answer(k) \/ LoseAnswer(k)

Looking ==
  \/ ConfirmKey
  \/ \E k \in Key : LookUp(k) \/ LookUpAnother(k)
  \/ \E p \in Page : Navigate(p)

Writing ==
  \/ \E f \in Forms : Submit(f) \/ OthersWrite(f)
  \/ \E m \in mutation : Commit(m) \/ Refuse(m) \/ LoseForm(m) \/ Succeed(m)

LEMMA Steps == Next => Signing \/ Leaving \/ Reading \/ Looking \/ Writing
BY DEF Next, Signing, Leaving, Reading, Looking, Writing

\* What each kind of step leaves alone.
LEMMA ReadingFrame == Reading => UNCHANGED <<session, view, mutation, server, submits, others, visits>>
BY DEF Reading, Focus, Poll, Answer, LoseAnswer, Fault, bounds

LEMMA LookingFrame ==
  Looking => UNCHANGED <<session, server, submits, others, faults>>
BY DEF Looking, ConfirmKey, LookUp, LookUpAnother, Navigate, bounds

LEMMA WritingFrame == Writing => UNCHANGED <<session, page, asked, visits>>
BY DEF Writing, Submit, OthersWrite, Commit, Refuse, LoseForm, Succeed, Fault, bounds, view

LEMMA LeavingFrame ==
  Leaving => UNCHANGED <<startup, login, issued, live, server, bounds, data>>
BY DEF Leaving, Logout, UnauthorizedQuery, AnswerOrphan, UnauthorizedForm, DropSession, cache

LEMMA SigningFrame == Signing => UNCHANGED <<cache, server, submits, others, visits>>
BY DEF Signing, AnswerStartup, SubmitLogin, AnswerLogin, AnswerMe, Expire, Fault, bounds

\* A step of this kind drops the session, or only takes an answer of no use.
LEMMA LeavingEffect ==
  Leaving => \/ DropSession
             \/ UNCHANGED <<token, status, view, mutation, fetch>>
BY DEF Leaving, Logout, UnauthorizedQuery, AnswerOrphan, UnauthorizedForm

-----------------------------------------------------------------------------
LEMMA NewTokenIsOne ==
  /\ Token \ issued # {} => NewToken(issued) \in Token \ issued
  /\ NewToken({}) \in Token
BY DashboardAssumption DEF NewToken

LEMMA SessionTypeInv ==
  ASSUME DashInv, Next
  PROVE  SessionType'
<1>0. SessionType
  BY TypeParts DEF DashInv
<1>1. CASE Reading \/ Looking \/ Writing
  BY <1>0, <1>1, ReadingFrame, LookingFrame, WritingFrame DEF session, SessionType
<1>2. CASE Leaving
  BY <1>0, <1>2, LeavingFrame, LeavingEffect DEF DropSession, SessionType
<1>3. CASE Signing
  <2>1. CASE AnswerStartup
    BY <1>0, <2>1 DEF AnswerStartup, DropSession, SessionType
  <2>2. CASE SubmitLogin
    BY <1>0, <2>2 DEF SubmitLogin, SessionType
  <2>3. CASE AnswerLogin
    BY <1>0, <2>3, NewTokenIsOne DEF AnswerLogin, DropSession, SessionType
  <2>4. CASE AnswerMe
    BY <1>0, <2>4 DEF AnswerMe, DropSession, SessionType
  <2>5. CASE \E t \in Token : Expire(t)
    BY <1>0, <2>5 DEF Expire, SessionType
  <2> QED  BY <1>3, <2>1, <2>2, <2>3, <2>4, <2>5 DEF Signing
<1> QED  BY <1>1, <1>2, <1>3, Steps

LEMMA BoundsTypeInv ==
  ASSUME DashInv, Next
  PROVE  BoundsType'
<1>0. BoundsType
  BY TypeParts DEF DashInv
<1>1. faults' = faults \/ (faults < MaxFaults /\ faults' = faults + 1)
  <2>1. Reading => faults' = faults \/ Fault
    BY DEF Reading, Focus, Poll, Answer, LoseAnswer, bounds
  <2>2. Signing => faults' = faults \/ Fault
    BY DEF Signing, AnswerStartup, SubmitLogin, AnswerLogin, AnswerMe, Expire, bounds
  <2>3. Writing => faults' = faults \/ Fault
    BY DEF Writing, Submit, OthersWrite, Commit, Refuse, LoseForm, Succeed, bounds
  <2> QED
    BY <2>1, <2>2, <2>3, Steps, LookingFrame, LeavingFrame DEF Fault, bounds
<1>2. visits' = visits \/ (visits < MaxVisits /\ visits' = visits + 1)
  <2>1. Looking => visits' = visits \/ (visits < MaxVisits /\ visits' = visits + 1)
    BY DEF Looking, ConfirmKey, LookUp, LookUpAnother, Navigate, bounds
  <2> QED
    BY <2>1, Steps, ReadingFrame, WritingFrame, LeavingFrame, SigningFrame DEF bounds
<1>3. /\ submits' = submits \/ (submits < MaxSubmits /\ submits' = submits + 1)
      /\ others' = others \/ (others < MaxOthers /\ others' = others + 1)
  <2>1. Writing => /\ submits' = submits \/ (submits < MaxSubmits /\ submits' = submits + 1)
                   /\ others' = others \/ (others < MaxOthers /\ others' = others + 1)
    BY DEF Writing, Submit, OthersWrite, Commit, Refuse, LoseForm, Succeed, Fault, bounds
  <2> QED
    BY <2>1, Steps, ReadingFrame, LookingFrame, LeavingFrame, SigningFrame DEF bounds
<1> QED  BY <1>0, <1>1, <1>2, <1>3, DashboardAssumption DEF BoundsType

-----------------------------------------------------------------------------
\* While the token of a reload is judged, nothing else can happen in the tab.
LEMMA StartingSteps ==
  ASSUME DashInv, Next, startup # None
  PROVE  AnswerStartup \/ (\E t \in Token : Expire(t)) \/ (\E f \in Forms : OthersWrite(f))
<1>1. /\ status = "loading" /\ page = "home" /\ login = "none" /\ asked = {}
      /\ mutation = {} /\ orphans = {} /\ \A k \in Key : ~InFlight(k)
      /\ ~revealed /\ Mounted = {} /\ login \notin Token
  BY TypeParts, DashboardAssumption DEF DashInv, Starting, ViewType, Mounted
<1>2. ~SubmitLogin /\ ~AnswerLogin /\ ~AnswerMe /\ ~Logout /\ ~Focus /\ ~ConfirmKey
  BY <1>1 DEF SubmitLogin, AnswerLogin, AnswerMe, Logout, Focus, ConfirmKey
<1>3. \A t : ~AnswerOrphan(t)
  BY <1>1 DEF AnswerOrphan
<1>4. \A k \in Key : /\ ~Poll(k) /\ ~Answer(k) /\ ~LoseAnswer(k) /\ ~UnauthorizedQuery(k)
                     /\ ~LookUp(k) /\ ~LookUpAnother(k)
  BY <1>1 DEF Poll, Answer, LoseAnswer, UnauthorizedQuery, LookUp, LookUpAnother
<1>5. (\A p \in Page : ~Navigate(p)) /\ (\A f \in Forms : ~Submit(f))
  BY <1>1 DEF Navigate, Submit
<1> QED  BY <1>1, <1>2, <1>3, <1>4, <1>5 DEF Next

LEMMA StartingInv ==
  ASSUME DashInv, Next
  PROVE  Starting'
<1>1. startup' = startup \/ startup' = None
  BY Steps, SigningFrame, LeavingFrame, ReadingFrame, LookingFrame, WritingFrame
     DEF session, Signing, AnswerStartup, SubmitLogin, AnswerLogin, AnswerMe, Expire
<1>2. CASE startup # None /\ startup' # None
  <2>1. ~AnswerStartup
    BY <1>2 DEF AnswerStartup
  <2>2. UNCHANGED <<status, page, login, asked, mutation, orphans, fetch, startup>>
    BY <1>2, <2>1, StartingSteps DEF Expire, OthersWrite, session, view, cache
  <2> QED  BY <2>2 DEF DashInv, Starting, InFlight
<1> QED  BY <1>1, <1>2 DEF Starting

LEMMA LeavePageView ==
  /\ \A p : LeavePage(p) => page' = p /\ asked' = {} /\ revealed' \in BOOLEAN /\ ~revealed'
  /\ DropSession => page' = "login" /\ asked' = {} /\ revealed' \in BOOLEAN /\ ~revealed'
BY DEF LeavePage, DropSession

LEMMA SameView ==
  ASSUME ViewType, UNCHANGED <<page, revealed>>, asked' \subseteq Key,
         revealed => status' = "authenticated"
  PROVE  ViewType'
BY Zenon DEF ViewType

LEMMA ClosedView ==
  ASSUME page' \in Page \cup {"login"}, asked' = {}, revealed' \in BOOLEAN, ~revealed'
  PROVE  ViewType'
BY Zenon DEF ViewType

LEMMA SignedInv ==
  ASSUME DashInv, Next
  PROVE  Signed'
<1>0. Signed /\ SessionType /\ "login" \notin Page
  BY TypeParts, Pages DEF DashInv
<1>1. CASE Reading
  BY <1>0, <1>1, ReadingFrame DEF Signed, view, session
<1>2. CASE Leaving
  BY <1>0, <1>2, LeavingEffect, LeavingFrame, LeavePageView DEF Signed, view, DropSession
<1>3. CASE Signing
  <2>1. CASE AnswerStartup
    <3>1. startup # None /\ login = "none" /\ login' = "none" /\ page = "home"
      BY <2>1 DEF AnswerStartup, DashInv, Starting
    <3>2. \/ status' = "authenticated" /\ page' = page
          \/ DropSession
      BY <2>1 DEF AnswerStartup, view
    <3> QED  BY <3>1, <3>2, LeavePageView DEF Signed, DropSession
  <2>2. CASE SubmitLogin
    BY <1>0, <2>2 DEF SubmitLogin, Signed, view
  <2>3. CASE AnswerLogin
    <3>1. DropSession \/ UNCHANGED <<status, view>>
      BY <2>3 DEF AnswerLogin
    <3>2. login # "none"
      BY <2>3 DEF AnswerLogin
    <3> QED  BY <1>0, <3>1, <3>2, LeavePageView DEF Signed, DropSession, view
  <2>4. CASE AnswerMe
    <3>1. login' = "none"
      BY <2>4 DEF AnswerMe
    <3>2. \/ DropSession \/ UNCHANGED <<status, view>>
          \/ status' = "authenticated" /\ LeavePage("home")
      BY <2>4 DEF AnswerMe
    <3> QED  BY <1>0, <3>1, <3>2, LeavePageView DEF Signed, DropSession, view
  <2>5. CASE \E t \in Token : Expire(t)
    BY <1>0, <2>5 DEF Expire, Signed, view
  <2> QED  BY <1>3, <2>1, <2>2, <2>3, <2>4, <2>5 DEF Signing
<1>4. CASE Looking
  <2>1. page' = page \/ (status = "authenticated" /\ page' \in Page)
    BY <1>4 DEF Looking, ConfirmKey, LookUp, LookUpAnother, Navigate, LeavePage
  <2> QED  BY <1>0, <1>4, <2>1, LookingFrame DEF Signed, session
<1>5. CASE Writing
  BY <1>0, <1>5, WritingFrame DEF Signed, session
<1> QED  BY <1>1, <1>2, <1>3, <1>4, <1>5, Steps

LEMMA ViewTypeInv ==
  ASSUME DashInv, Next
  PROVE  ViewType'
<1>0. ViewType /\ FormsType /\ SessionType
  BY TypeParts DEF DashInv
<1>1. CASE Reading
  BY <1>0, <1>1, ReadingFrame DEF ViewType, view, session
<1>2. CASE Leaving
  <2>1. CASE DropSession
    BY <2>1, LeavePageView, ClosedView
  <2>2. CASE UNCHANGED <<status, view>>
    BY <1>0, <2>2, SameView DEF view, ViewType
  <2> QED  BY <1>2, <2>1, <2>2, LeavingEffect
<1>3. CASE Signing
  <2>1. CASE AnswerStartup
    <3>1. ~revealed
      BY <1>0, <2>1 DEF AnswerStartup, DashInv, Starting, ViewType
    <3>2. DropSession \/ UNCHANGED view
      BY <2>1 DEF AnswerStartup
    <3> QED  BY <1>0, <3>1, <3>2, SameView, LeavePageView, ClosedView DEF view, ViewType
  <2>2. CASE SubmitLogin
    BY <1>0, <2>2 DEF SubmitLogin, ViewType, view
  <2>3. CASE AnswerLogin
    <3>1. DropSession \/ UNCHANGED <<status, view>>
      BY <2>3 DEF AnswerLogin
    <3> QED  BY <1>0, <3>1, SameView, LeavePageView, ClosedView DEF view, ViewType
  <2>4. CASE AnswerMe
    <3>1. DropSession \/ LeavePage("home") \/ UNCHANGED <<status, view>>
      BY <2>4 DEF AnswerMe
    <3> QED
      BY <1>0, <3>1, SameView, LeavePageView, ClosedView, Pages DEF view, ViewType
  <2>5. CASE \E t \in Token : Expire(t)
    BY <1>0, <2>5 DEF Expire, ViewType, view
  <2> QED  BY <1>3, <2>1, <2>2, <2>3, <2>4, <2>5 DEF Signing
<1>4. CASE Looking
  <2>1. CASE ConfirmKey
    BY <1>0, <2>1 DEF ConfirmKey, ViewType, session
  <2>2. CASE \E k \in Key : LookUp(k) \/ LookUpAnother(k)
    BY <1>0, <2>2 DEF LookUp, LookUpAnother, ViewType, session
  <2>3. CASE \E p \in Page : Navigate(p)
    BY <1>0, <2>3 DEF Navigate, LeavePage, ViewType, session
  <2> QED  BY <1>4, <2>1, <2>2, <2>3 DEF Looking
<1>5. CASE Writing
  <2>1. CASE \E m \in mutation : Succeed(m)
    <3>1. PICK m \in mutation : Succeed(m)
      BY <2>1
    <3>2. (m.here /\ m.form.name = "register device") => status = "authenticated" /\ page = "devices"
      BY <1>0, FormsOfPages DEF FormsType, DashInv, FormsOK
    <3> QED  BY <1>0, <3>1, <3>2 DEF Succeed, ViewType, session
  <2>2. CASE ~\E m \in mutation : Succeed(m)
    BY <1>0, <1>5, <2>2, SameView
       DEF Writing, Submit, OthersWrite, Commit, Refuse, LoseForm, ViewType, session, view
  <2> QED  BY <2>1, <2>2
<1> QED  BY <1>1, <1>2, <1>3, <1>4, <1>5, Steps

-----------------------------------------------------------------------------
(***************************************************************************)
(* The submitted forms, and the versions they write.                       *)
(***************************************************************************)
LEMMA UnmountedForms ==
  ASSUME FormsType
  PROVE  \A n \in Unmounted :
           /\ n \in Mutation /\ ~n.here
           /\ \E m \in mutation : /\ n = [m EXCEPT !.here = FALSE]
                                 /\ n.id = m.id /\ n.form = m.form /\ n.at = m.at
BY DEF FormsType, Unmounted, Mutation

\* A form that does not belong to the page is as it would be without the page.
LEMMA UnmountedKeeps ==
  ASSUME FormsType, \A m \in mutation : ~m.here
  PROVE  Unmounted = mutation
<1>1. \A m \in mutation : [m EXCEPT !.here = FALSE] = m
  BY DEF FormsType, Mutation
<1> QED  BY <1>1 DEF Unmounted

LEMMA WrittenVersions ==
  ASSUME ServerType, NEW ks, Written(ks)
  PROVE  /\ \A k \in Key : version'[k] = IF k \in ks THEN version[k] + 1 ELSE version[k]
         /\ \A k \in Key : version[k] <= version'[k] /\ version'[k] <= version[k] + 1
BY DEF ServerType, Written

\* The forms go on, go on without their page, or there is a form or a write more.
FormsGoOn ==
  mutation' \subseteq mutation /\ UNCHANGED <<status, page, version, submits, others>>
FormsDetached ==
  mutation' \subseteq Unmounted /\ UNCHANGED <<version, submits, others>>

LEMMA FormSteps ==
  ASSUME DashInv, Next
  PROVE  \/ FormsGoOn \/ FormsDetached
         \/ \E f \in Forms : Submit(f) \/ OthersWrite(f)
         \/ \E m \in mutation : Commit(m)
<1>0. FormsType /\ Signed /\ Starting /\ FormsOK /\ SessionType
  BY TypeParts DEF DashInv
<1>1. CASE Reading
  BY <1>1, ReadingFrame DEF FormsGoOn, session, view, server
<1>2. CASE Leaving
  <2>1. mutation' \subseteq Unmounted \/ UNCHANGED <<status, page, mutation>>
    BY <1>2 DEF Leaving, Logout, UnauthorizedQuery, AnswerOrphan, UnauthorizedForm, view
  <2> QED  BY <1>2, <2>1, LeavingFrame DEF FormsGoOn, FormsDetached, server, bounds
<1>3. CASE Signing
  <2>1. CASE AnswerStartup
    <3>1. mutation = {} /\ mutation' = {}
      BY <1>0, <2>1 DEF AnswerStartup, Starting
    <3> QED  BY <1>3, <3>1, SigningFrame DEF FormsDetached, server
  <2>2. CASE AnswerLogin
    <3>1. mutation' = Unmounted \/ UNCHANGED <<status, page, mutation>>
      BY <2>2 DEF AnswerLogin, view
    <3> QED  BY <1>3, <3>1, SigningFrame DEF FormsGoOn, FormsDetached, server
  <2>3. CASE AnswerMe
    <3>1. login # "none"
      BY <1>0, <2>3, DashboardAssumption DEF AnswerMe
    <3>2. Unmounted = mutation
      BY <1>0, <3>1, UnmountedKeeps DEF Signed, FormsOK
    <3>3. mutation' = Unmounted
      BY <2>3, <3>2 DEF AnswerMe
    <3> QED  BY <1>3, <3>3, SigningFrame DEF FormsDetached, server
  <2>4. CASE SubmitLogin \/ \E t \in Token : Expire(t)
    BY <1>3, <2>4, SigningFrame DEF SubmitLogin, Expire, FormsGoOn, view, server
  <2> QED  BY <1>3, <2>1, <2>2, <2>3, <2>4 DEF Signing
<1>4. CASE Looking
  <2>1. mutation' = Unmounted \/ UNCHANGED <<page, mutation>>
    BY <1>4 DEF Looking, ConfirmKey, LookUp, LookUpAnother, Navigate
  <2> QED  BY <1>4, <2>1, LookingFrame DEF FormsGoOn, FormsDetached, session, server
<1>5. CASE \E m \in mutation : Refuse(m) \/ LoseForm(m) \/ Succeed(m)
  BY <1>5 DEF Refuse, LoseForm, Succeed, Fault, FormsGoOn, session, view, server, bounds
<1> QED  BY <1>1, <1>2, <1>3, <1>4, <1>5, Steps DEF Writing

LEMMA UncommittedFinite == FormsType => IsFiniteSet(Uncommitted)
<1>1. FormsType => Uncommitted \subseteq 1..MaxSubmits
  BY DEF FormsType, Uncommitted, Mutation
<1>2. 1 \in Int /\ MaxSubmits \in Int
  BY DashboardAssumption
<1>3. IsFiniteSet(1..MaxSubmits)
  BY <1>2, FS_Interval
<1> QED  BY <1>1, <1>3, FS_Subset

LEMMA FormsWrite ==
  /\ \A f \in Forms : RowOK(f)
  /\ FormsType => \A m \in mutation : m.form \in Forms /\ RowOK(m.form)
<1>1. \A f \in Forms : RowOK(f)
  BY FormsOfPages DEF Forms
<1> QED  BY <1>1 DEF FormsType, Mutation

\* An incident and the list of the incidents are written together.
LEMMA PairWritten ==
  ASSUME ServerType, VersionsOK, NEW f, RowOK(f), Written(f.writes)
  PROVE  version'["incident"] = version'["incidents"]
BY WrittenVersions, Keys DEF VersionsOK, RowOK

\* What a form becomes when the API stores what it writes.
LEMMA Committed ==
  ASSUME FormsType, FormsOK, ServerType, VersionsOK, NEW m \in mutation, Commit(m)
  PROVE  \E n : /\ mutation' = (mutation \ {m}) \cup {n}
                /\ n = [m EXCEPT !.at = n.at]
                /\ n.id = m.id /\ n.form = m.form /\ n.here = m.here
                /\ n.at = 1 \/ \E k \in Key : n.at = version'[k]
                /\ n.at >= 1
                /\ \A k \in m.form.writes : n.at = version'[k]
<1> DEFINE v == IF m.form.writes = {} THEN 1 ELSE version'[CHOOSE k \in m.form.writes : TRUE]
           n == [m EXCEPT !.at = v]
<1>1. mutation' = (mutation \ {m}) \cup {n}
  BY DEF Commit
<1>2. m \in Mutation /\ RowOK(m.form) /\ Written(m.form.writes)
  BY FormsWrite DEF FormsType, Commit
<1>3. n.at = v /\ n.id = m.id /\ n.form = m.form /\ n.here = m.here
  BY <1>2 DEF Mutation
<1>4. v = 1 \/ \E k \in Key : v = version'[k]
  BY <1>2 DEF RowOK
<1>5. \A k \in Key : version'[k] >= 1
  BY <1>2, WrittenVersions DEF ServerType
<1>6. v >= 1
  BY <1>4, <1>5
<1>7. version'["incident"] = version'["incidents"]
  BY <1>2, PairWritten
<1>8. \A k \in m.form.writes : v = version'[k]
  BY <1>2, <1>7 DEF RowOK
<1> HIDE DEF v
<1> QED  BY <1>1, <1>3, <1>4, <1>6, <1>8

LEMMA UncommittedShrinks ==
  ASSUME FormsType, FormsGoOn \/ FormsDetached
  PROVE  Uncommitted' \subseteq Uncommitted
<1>1. \A n \in mutation' : \E m \in mutation : n.id = m.id /\ n.at = m.at
  BY UnmountedForms DEF FormsGoOn, FormsDetached
<1> QED  BY <1>1 DEF Uncommitted

LEMMA OwnTypeInv ==
  ASSUME DashInv, Next
  PROVE  own' \in [Key -> 0..MaxVersion]
<1>0. FormsType /\ ServerType
  BY TypeParts DEF DashInv
<1>1. CASE UNCHANGED own
  BY <1>0, <1>1 DEF ServerType
<1>2. CASE \E m \in mutation : Succeed(m)
  BY <1>0, <1>2 DEF Succeed, FormsType, Mutation, ServerType
<1> QED
  BY <1>1, <1>2, Steps, SigningFrame, LeavingFrame, ReadingFrame, LookingFrame
     DEF Writing, Submit, OthersWrite, Commit, Refuse, LoseForm, server

LEMMA ServerTypeInv ==
  ASSUME DashInv, Next
  PROVE  ServerType' /\ VersionsOK'
<1>0. FormsType /\ ServerType /\ VersionsOK /\ FormsOK /\ BoundsType /\ BoundsType'
  BY TypeParts, BoundsTypeInv DEF DashInv
<1>a. IsFiniteSet(Uncommitted) /\ Cardinality(Uncommitted) \in Nat
  BY <1>0, UncommittedFinite, FS_CardinalityType
<1>b. /\ submits \in Nat /\ others \in Nat /\ submits' \in Nat /\ others' \in Nat
      /\ \A k \in Key : version[k] \in Nat
      /\ \A k \in Key : version[k] + Cardinality(Uncommitted) <= 1 + submits + others
  BY <1>0, DashboardAssumption DEF BoundsType, ServerType, VersionsOK, MaxVersion
<1>c. ASSUME Cardinality(Uncommitted') \in Nat,
             \A k \in Key : version'[k] + Cardinality(Uncommitted') <= 1 + submits' + others',
             \A k \in Key : version'[k] \in Nat /\ version'[k] >= 1,
             version' \in [Key -> Nat], own' \in [Key -> 0..MaxVersion],
             version'["incident"] = version'["incidents"]
      PROVE  ServerType' /\ VersionsOK'
  <2>1. submits' <= MaxSubmits /\ others' <= MaxOthers
    BY <1>0 DEF BoundsType
  <2>2. \A k \in Key : version'[k] \in 1..MaxVersion
    BY <1>b, <1>c, <2>1, DashboardAssumption DEF MaxVersion
  <2> QED  BY <1>c, <2>2 DEF ServerType, VersionsOK
<1>d. /\ \A k \in Key : version[k] >= 1
      /\ version["incident"] = version["incidents"]
      /\ version \in [Key -> Nat]
  BY <1>0 DEF ServerType, VersionsOK
<1>e. own' \in [Key -> 0..MaxVersion]
  BY OwnTypeInv
<1>1. CASE UNCHANGED <<version, submits, others>> /\ Uncommitted' \subseteq Uncommitted
  <2>1. Cardinality(Uncommitted') \in Nat /\ Cardinality(Uncommitted') <= Cardinality(Uncommitted)
    BY <1>a, <1>1, FS_Subset, FS_CardinalityType
  <2>2. \A k \in Key : version'[k] + Cardinality(Uncommitted') <= 1 + submits' + others'
    BY <1>a, <1>b, <1>1, <2>1
  <2> QED  BY <1>1, <2>1, <2>2, <1>c, <1>d, <1>e
<1>2. ASSUME NEW f \in Forms, Submit(f)
      PROVE  ServerType' /\ VersionsOK'
  <2>1. UNCHANGED <<version, own, others>> /\ submits' = submits + 1
    BY <1>2 DEF Submit, server
  <2>2. Uncommitted' \subseteq Uncommitted \cup {submits'}
    BY <1>2 DEF Submit, Uncommitted
  <2>3. Cardinality(Uncommitted') \in Nat /\ Cardinality(Uncommitted') <= Cardinality(Uncommitted) + 1
    <3>1. /\ IsFiniteSet(Uncommitted \cup {submits'})
          /\ Cardinality(Uncommitted \cup {submits'}) \in Nat
          /\ Cardinality(Uncommitted \cup {submits'}) <= Cardinality(Uncommitted) + 1
      <4>1. /\ IsFiniteSet(Uncommitted \cup {submits'})
            /\ Cardinality(Uncommitted \cup {submits'}) =
                 IF submits' \in Uncommitted THEN Cardinality(Uncommitted) ELSE Cardinality(Uncommitted) + 1
        BY <1>a, FS_AddElement
      <4>2. Cardinality(Uncommitted \cup {submits'}) \in Nat
        BY <4>1, FS_CardinalityType
      <4> QED  BY <1>a, <4>1, <4>2
    <3>2. IsFiniteSet(Uncommitted') /\ Cardinality(Uncommitted') <= Cardinality(Uncommitted \cup {submits'})
      BY <2>2, <3>1, FS_Subset
    <3> QED  BY <1>a, <3>1, <3>2, FS_CardinalityType
  <2>4. \A k \in Key : version'[k] + Cardinality(Uncommitted') <= 1 + submits' + others'
    BY <1>a, <1>b, <2>1, <2>3
  <2> QED  BY <2>1, <2>3, <2>4, <1>c, <1>d, <1>e
<1>3. ASSUME NEW f \in Forms, OthersWrite(f)
      PROVE  ServerType' /\ VersionsOK'
  <2>1. /\ UNCHANGED <<mutation, own, submits>> /\ others' = others + 1
        /\ Written(f.writes) /\ RowOK(f)
    BY <1>3, FormsWrite DEF OthersWrite
  <2>2. Uncommitted' = Uncommitted
    BY <2>1 DEF Uncommitted
  <2>3. version'["incident"] = version'["incidents"]
    BY <1>0, <2>1, PairWritten
  <2>4. \A k \in Key : version'[k] \in Nat /\ version[k] <= version'[k] /\ version'[k] <= version[k] + 1
    BY <1>0, <1>b, <2>1, WrittenVersions
  <2>5. version' \in [Key -> Nat]
    BY <2>1, <1>b DEF Written
  <2>6. \A k \in Key : version'[k] + Cardinality(Uncommitted') <= 1 + submits' + others'
    BY <1>a, <1>b, <2>1, <2>2, <2>4
  <2>7. \A k \in Key : version'[k] \in Nat /\ version'[k] >= 1
    BY <1>b, <1>d, <2>4
  <2> QED  BY <1>a, <2>2, <2>3, <2>5, <2>6, <2>7, <1>c, <1>e
<1>4. ASSUME NEW m \in mutation, Commit(m)
      PROVE  ServerType' /\ VersionsOK'
  <2>1. /\ UNCHANGED <<own, submits, others>> /\ m.at = 0
        /\ Written(m.form.writes) /\ RowOK(m.form)
    BY <1>0, <1>4, FormsWrite DEF Commit, bounds
  <2>2. Uncommitted' \subseteq Uncommitted \ {m.id} /\ m.id \in Uncommitted
    <3>1. PICK n : mutation' = (mutation \ {m}) \cup {n} /\ n.at >= 1
      BY <1>0, <1>4, Committed
    <3>2. \A l \in mutation' : l.at = 0 => l \in mutation /\ l.id # m.id
      BY <1>0, <3>1 DEF FormsOK
    <3> QED  BY <2>1, <3>2 DEF Uncommitted
  <2>3. version'["incident"] = version'["incidents"]
    BY <1>0, <2>1, PairWritten
  <2>4. \A k \in Key : version'[k] \in Nat /\ version[k] <= version'[k] /\ version'[k] <= version[k] + 1
    BY <1>0, <1>b, <2>1, WrittenVersions
  <2>5. version' \in [Key -> Nat]
    BY <2>1, <1>b DEF Written
  <2>6. Cardinality(Uncommitted') \in Nat /\ Cardinality(Uncommitted') <= Cardinality(Uncommitted) - 1
    <3>1. /\ IsFiniteSet(Uncommitted \ {m.id})
          /\ Cardinality(Uncommitted \ {m.id}) = Cardinality(Uncommitted) - 1
      BY <1>a, <2>2, FS_RemoveElement
    <3>2. IsFiniteSet(Uncommitted') /\ Cardinality(Uncommitted') <= Cardinality(Uncommitted \ {m.id})
      BY <2>2, <3>1, FS_Subset
    <3> QED  BY <3>1, <3>2, FS_CardinalityType
  <2>7. \A k \in Key : version'[k] + Cardinality(Uncommitted') <= 1 + submits' + others'
    BY <1>a, <1>b, <2>1, <2>4, <2>6
  <2>8. \A k \in Key : version'[k] \in Nat /\ version'[k] >= 1
    BY <1>b, <1>d, <2>4
  <2> QED  BY <2>3, <2>5, <2>6, <2>7, <2>8, <1>c, <1>e
<1> QED
  BY <1>0, <1>1, <1>2, <1>3, <1>4, FormSteps, UncommittedShrinks DEF FormsGoOn, FormsDetached

LEMMA FormsInv ==
  ASSUME DashInv, Next
  PROVE  FormsType' /\ FormsOK'
<1>0. /\ FormsType /\ FormsOK /\ ServerType /\ VersionsOK /\ BoundsType
      /\ ServerType' /\ BoundsType' /\ \A m \in mutation : RowOK(m.form)
  BY TypeParts, ServerTypeInv, BoundsTypeInv, FormsWrite DEF DashInv
<1>s. SessionType
  BY TypeParts DEF DashInv
<1>1. CASE FormsGoOn
  BY <1>0, <1>1 DEF FormsGoOn, FormsType, FormsOK
<1>2. CASE FormsDetached
  <2>1. \A n \in mutation' : /\ n \in Mutation /\ ~n.here
                             /\ n.id <= submits' /\ \A k \in n.form.writes : n.at <= version'[k]
    BY <1>0, <1>2, UnmountedForms DEF FormsDetached, FormsOK
  <2>2. ASSUME NEW n \in mutation', NEW l \in mutation', n.id = l.id
        PROVE  n = l
    <3>1. PICK a \in mutation : n = [a EXCEPT !.here = FALSE] /\ n.id = a.id
      BY <1>0, <1>2, UnmountedForms DEF FormsDetached
    <3>2. PICK b \in mutation : l = [b EXCEPT !.here = FALSE] /\ l.id = b.id
      BY <1>0, <1>2, UnmountedForms DEF FormsDetached
    <3>3. a = b
      BY <1>0, <2>2, <3>1, <3>2 DEF FormsOK
    <3> QED  BY <3>1, <3>2, <3>3
  <2>3. FormsType'
    BY <2>1 DEF FormsType
  <2>4. FormsOK'
    BY <2>1, <2>2 DEF FormsOK
  <2> QED  BY <2>3, <2>4
<1>3. ASSUME NEW f \in Forms, Submit(f)
      PROVE  FormsType' /\ FormsOK'
  <2> DEFINE n == [id |-> submits', form |-> f, token |-> token, at |-> 0, here |-> TRUE]
  <2>1. /\ mutation' = mutation \cup {n} /\ submits' = submits + 1 /\ submits < MaxSubmits
        /\ status = "authenticated" /\ page \in Page /\ f \in App[page].forms
        /\ UNCHANGED <<status, page, version>>
    BY <1>3 DEF Submit, session, view, server
  <2>2. n \in Mutation /\ n.id = submits' /\ n.form = f /\ n.at = 0
    BY <1>0, <1>s, <2>1, DashboardAssumption DEF Mutation, BoundsType, SessionType, MaxVersion
  <2>3. \A k \in f.writes : 0 <= version'[k]
    BY <1>0, FormsWrite DEF ServerType, RowOK
  <2>4. submits \in Nat /\ \A m \in mutation : m.id \in Nat /\ m.id <= submits
    BY <1>0, DashboardAssumption DEF FormsType, FormsOK, Mutation, BoundsType
  <2> HIDE DEF n
  <2>5. FormsType'
    BY <1>0, <2>1, <2>2 DEF FormsType
  <2>6. \A m, l \in mutation' : m.id = l.id => m = l
    BY <1>0, <2>1, <2>2, <2>4 DEF FormsOK
  <2>7. \A m \in mutation' : /\ m.id <= submits'
                            /\ \A k \in m.form.writes : m.at <= version'[k]
    BY <1>0, <2>1, <2>2, <2>3, <2>4 DEF FormsOK
  <2> QED  BY <1>0, <2>1, <2>5, <2>6, <2>7 DEF FormsOK
<1>4. ASSUME NEW f \in Forms, OthersWrite(f)
      PROVE  FormsType' /\ FormsOK'
  <2>1. UNCHANGED <<mutation, page, status, submits>> /\ Written(f.writes)
    BY <1>4 DEF OthersWrite, session, view
  <2>2. \A m \in mutation : \A k \in m.form.writes : m.at <= version'[k]
    <3> TAKE m \in mutation
    <3> TAKE k \in m.form.writes
    <3>1. k \in Key /\ m.at \in Nat /\ m.at <= version[k]
      BY <1>0, DashboardAssumption DEF RowOK, FormsType, Mutation, FormsOK, MaxVersion
    <3>2. version[k] \in Nat /\ version'[k] \in Nat /\ version[k] <= version'[k]
      BY <1>0, <2>1, <3>1, WrittenVersions, DashboardAssumption DEF ServerType, MaxVersion
    <3> QED  BY <3>1, <3>2
  <2> QED  BY <1>0, <2>1, <2>2 DEF FormsType, FormsOK
<1>5. ASSUME NEW m \in mutation, Commit(m)
      PROVE  FormsType' /\ FormsOK'
  <2>1. UNCHANGED <<page, status, submits>> /\ Written(m.form.writes)
    BY <1>5 DEF Commit, session, view, bounds
  <2>2. PICK n : /\ mutation' = (mutation \ {m}) \cup {n}
                 /\ n = [m EXCEPT !.at = n.at]
                 /\ n.id = m.id /\ n.form = m.form /\ n.here = m.here
                 /\ n.at = 1 \/ \E k \in Key : n.at = version'[k]
                 /\ \A k \in m.form.writes : n.at = version'[k]
    BY <1>0, <1>5, Committed
  <2>3. n.at \in 0..MaxVersion
    BY <1>0, <2>2, DashboardAssumption DEF ServerType, MaxVersion
  <2>4. n \in Mutation
    BY <1>0, <2>2, <2>3 DEF FormsType, Mutation
  <2>5. FormsType'
    BY <1>0, <2>1, <2>2, <2>4 DEF FormsType
  <2>6. \A l \in mutation' : \A k \in l.form.writes : l.at <= version'[k]
    <3>1. ASSUME NEW l \in mutation, NEW k \in l.form.writes
          PROVE  l.at <= version'[k]
      <4>1. k \in Key /\ l.at \in Nat /\ l.at <= version[k]
        BY <1>0, DashboardAssumption DEF RowOK, FormsType, Mutation, FormsOK, MaxVersion
      <4>2. version[k] \in Nat /\ version'[k] \in Nat /\ version[k] <= version'[k]
        BY <1>0, <2>1, <4>1, WrittenVersions, DashboardAssumption DEF ServerType, MaxVersion
      <4> QED  BY <4>1, <4>2
    <3>2. \A k \in n.form.writes : n.at <= version'[k]
      BY <2>2, <2>3, DashboardAssumption DEF MaxVersion
    <3> QED  BY <2>2, <3>1, <3>2
  <2>7. \A l, o \in mutation' : l.id = o.id => l = o
    BY <1>0, <2>2 DEF FormsOK
  <2>8. \A l \in mutation' : l.id <= submits' /\ (l.here => status' = "authenticated")
    BY <1>0, <2>1, <2>2 DEF FormsOK
  <2> QED  BY <2>5, <2>6, <2>7, <2>8 DEF FormsOK
<1> QED  BY <1>1, <1>2, <1>3, <1>4, <1>5, FormSteps

-----------------------------------------------------------------------------
(***************************************************************************)
(* The cache: what is asked, what is marked and what is read.              *)
(***************************************************************************)
LEMMA Bounds == MaxVersion \in Nat /\ MaxVersion >= 1
BY DashboardAssumption DEF MaxVersion

LEMMA VersionsGrow ==
  ASSUME DashInv, Next
  PROVE  \A k \in Key : version[k] \in Nat /\ version'[k] \in Nat /\ version[k] <= version'[k]
<1>0. ServerType /\ ServerType'
  BY TypeParts, ServerTypeInv DEF DashInv
<1>1. \A k \in Key : version[k] \in Nat /\ version'[k] \in Nat
  BY <1>0, Bounds DEF ServerType
<1>2. UNCHANGED version \/ \E ks : Written(ks)
  BY FormSteps DEF FormsGoOn, FormsDetached, Submit, OthersWrite, Commit, server
<1> QED  BY <1>0, <1>1, <1>2, WrittenVersions

\* A query that is asked again is in flight, from the version of now.
LEMMA FetchedAgain ==
  ASSUME CacheType, ServerType, NEW ks, Fetched(ks)
  PROVE  \A k \in Key :
           /\ k \in ks => /\ fetch'[k] = [since |-> version[k], token |-> token]
                          /\ fetch'[k].since = version[k] /\ InFlight(k)'
           /\ k \notin ks => fetch'[k] = fetch[k] /\ (InFlight(k)' <=> InFlight(k))
<1>1. \A k \in Key : fetch'[k] = IF k \in ks THEN [since |-> version[k], token |-> token] ELSE fetch[k]
  BY DEF Fetched
<1>2. \A k \in Key : version[k] # 0
  BY DEF ServerType
<1>3. \A k \in Key : [since |-> version[k], token |-> token] # NoFetch
  BY <1>2 DEF NoFetch
<1> QED  BY <1>1, <1>3 DEF InFlight

LEMMA MountedKeys == Mounted \subseteq Key
BY QueriesOfPages DEF Mounted

LEMMA MountKeys ==
  \A ks \in SUBSET Key : \A p : Mount(ks, p) =>
    /\ UNCHANGED <<data, stale, failed>>
    /\ \E read \in SUBSET Key : Fetched(read) /\ missed' = missed \ read
<1> TAKE ks \in SUBSET Key
<1> TAKE p
<1>1. \A fresh : {k \in ks \ fresh : ~InFlight(k)} \subseteq ks
  OBVIOUS
<1> QED  BY <1>1 DEF Mount

Answered(k) == fetch' = [fetch EXCEPT ![k] = NoFetch] /\ UNCHANGED orphans

LEMMA FetchSteps ==
  ASSUME Next
  PROVE  \/ UNCHANGED fetch /\ orphans' \subseteq orphans
         \/ \E ks \in SUBSET Key : Fetched(ks)
         \/ \E k \in Key : Answered(k)
<1>1. CASE Signing
  BY <1>1, SigningFrame DEF cache
<1>2. CASE Leaving
  BY <1>2 DEF Leaving, Logout, UnauthorizedQuery, AnswerOrphan, UnauthorizedForm, cache,
              Received, Answered
<1>3. CASE Reading
  BY <1>3, MountedKeys, MountKeys
     DEF Reading, Focus, Poll, Answer, LoseAnswer, Received, Answered
<1>4. CASE Looking
  <2>1. ASSUME NEW p \in Page, Navigate(p) PROVE \E ks \in SUBSET Key : Fetched(ks)
    BY <2>1, QueriesOfPages, MountKeys DEF Navigate
  <2>2. ASSUME NEW k \in Key, LookUp(k) PROVE \E ks \in SUBSET Key : Fetched(ks)
    <3>1. {k} \in SUBSET Key
      OBVIOUS
    <3> QED  BY <2>2, <3>1, MountKeys DEF LookUp
  <2> QED  BY <1>4, <2>1, <2>2 DEF Looking, ConfirmKey, LookUpAnother, cache
<1>5. CASE Writing
  <2>1. \A ks, form : Invalidate(ks, form) => \E read \in SUBSET Key : Fetched(read)
    BY MountedKeys DEF Invalidate
  <2> QED
    BY <1>5, <2>1 DEF Writing, Submit, OthersWrite, Commit, Refuse, LoseForm, Succeed, cache
<1> QED  BY <1>1, <1>2, <1>3, <1>4, <1>5, Steps

Request == [since: 0..MaxVersion, token: Token \cup {None}]

LEMMA FetchInv ==
  ASSUME DashInv, Next
  PROVE  /\ fetch' \in [Key -> Request] /\ orphans' \subseteq Token \cup {None}
         /\ \A k \in Key : fetch'[k].since <= version'[k]
<1>0. /\ CacheType /\ ServerType /\ SessionType
      /\ fetch \in [Key -> Request] /\ orphans \subseteq Token \cup {None}
      /\ \A k \in Key : fetch[k].since <= version[k]
  BY TypeParts DEF DashInv, CacheOK, CacheType, Request
<1>1. \A k \in Key : /\ version[k] \in Nat /\ version'[k] \in Nat /\ version[k] <= version'[k]
                     /\ fetch[k].since \in Nat
  BY <1>0, VersionsGrow, Bounds DEF Request
<1>2. \A k \in Key : fetch[k].since <= version'[k]
  BY <1>0, <1>1
<1>3. CASE UNCHANGED fetch /\ orphans' \subseteq orphans
  BY <1>0, <1>2, <1>3
<1>4. ASSUME NEW ks \in SUBSET Key, Fetched(ks)
      PROVE  /\ fetch' \in [Key -> Request] /\ orphans' \subseteq Token \cup {None}
             /\ \A k \in Key : fetch'[k].since <= version'[k]
  <2>1. \A k \in Key : [since |-> version[k], token |-> token] \in Request
    BY <1>0 DEF Request, ServerType, SessionType
  <2>2. fetch' \in [Key -> Request]
    BY <1>0, <1>4, <2>1 DEF Fetched
  <2>3. orphans' \subseteq Token \cup {None}
    <3>1. \A k \in Key : fetch[k].token \in Token \cup {None}
      BY <1>0 DEF Request
    <3>2. {fetch[k].token : k \in {l \in ks : InFlight(l)}} \subseteq Token \cup {None}
      BY <3>1
    <3> QED  BY <1>0, <1>4, <3>2 DEF Fetched
  <2>4. \A k \in Key : fetch'[k].since <= version'[k]
    BY <1>0, <1>1, <1>2, <1>4, FetchedAgain
  <2> QED  BY <2>2, <2>3, <2>4
<1>5. ASSUME NEW k \in Key, Answered(k)
      PROVE  /\ fetch' \in [Key -> Request] /\ orphans' \subseteq Token \cup {None}
             /\ \A l \in Key : fetch'[l].since <= version'[l]
  <2>1. NoFetch \in Request /\ NoFetch.since = 0
    BY Bounds DEF NoFetch, Request
  <2>2. fetch' \in [Key -> Request]
    BY <1>0, <1>5, <2>1 DEF Answered
  <2>3. \A l \in Key : fetch'[l] = IF l = k THEN NoFetch ELSE fetch[l]
    BY <1>0, <1>5 DEF Answered
  <2> QED  BY <1>0, <1>1, <1>2, <1>5, <2>1, <2>2, <2>3 DEF Answered
<1> QED  BY <1>3, <1>4, <1>5, FetchSteps

\* The marks of the queries change when an answer comes or a form succeeds.
LEMMA MarkSteps ==
  ASSUME Next
  PROVE  \/ UNCHANGED <<stale, failed>> /\ missed' \subseteq missed
         \/ \E k \in Key : \E isError : Received(k, isError)
         \/ \E m \in mutation : \E ks \in Refreshed(m) : Invalidate(ks, m.form)
<1>1. CASE Signing
  BY <1>1, SigningFrame DEF cache
<1>2. CASE Leaving
  BY <1>2 DEF Leaving, Logout, UnauthorizedQuery, AnswerOrphan, UnauthorizedForm, cache
<1>3. CASE Reading
  <2>1. CASE Focus
    BY <2>1, MountedKeys, MountKeys DEF Focus
  <2>2. CASE \E k \in Key : Poll(k)
    BY <2>2 DEF Poll
  <2>3. CASE \E k \in Key : Answer(k) \/ LoseAnswer(k)
    BY <2>3 DEF Answer, LoseAnswer
  <2> QED  BY <1>3, <2>1, <2>2, <2>3 DEF Reading
<1>4. CASE Looking
  <2>1. ASSUME NEW p \in Page, Navigate(p) PROVE UNCHANGED <<stale, failed>> /\ missed' \subseteq missed
    BY <2>1, QueriesOfPages, MountKeys DEF Navigate
  <2>2. ASSUME NEW k \in Key, LookUp(k) PROVE UNCHANGED <<stale, failed>> /\ missed' \subseteq missed
    <3>1. {k} \in SUBSET Key
      OBVIOUS
    <3> QED  BY <2>2, <3>1, MountKeys DEF LookUp
  <2> QED  BY <1>4, <2>1, <2>2 DEF Looking, ConfirmKey, LookUpAnother, cache
<1>5. CASE Writing
  BY <1>5 DEF Writing, Submit, OthersWrite, Commit, Refuse, LoseForm, Succeed, cache
<1> QED  BY <1>1, <1>2, <1>3, <1>4, <1>5, Steps

LEMMA RefreshedKeys ==
  ASSUME NEW m, NEW ks \in Refreshed(m)
  PROVE  ks = {} \/ ks = m.form.refreshes
BY DEF Refreshed

LEMMA MarksInv ==
  ASSUME DashInv, Next
  PROVE  /\ stale' \subseteq Key /\ failed' \subseteq Key /\ missed' \subseteq Key
         /\ failed' \subseteq stale'
<1>0. /\ stale \subseteq Key /\ failed \subseteq Key /\ missed \subseteq Key /\ failed \subseteq stale
      /\ FormsType
  BY TypeParts DEF DashInv, CacheType, CacheOK
<1>1. ASSUME NEW k \in Key, NEW isError, Received(k, isError)
      PROVE  /\ stale' \subseteq Key /\ failed' \subseteq Key /\ missed' \subseteq Key
             /\ failed' \subseteq stale'
  BY <1>0, <1>1 DEF Received
<1>2. ASSUME NEW m \in mutation, NEW ks \in Refreshed(m), Invalidate(ks, m.form)
      PROVE  /\ stale' \subseteq Key /\ failed' \subseteq Key /\ missed' \subseteq Key
             /\ failed' \subseteq stale'
  <2>1. m.form.refreshes \subseteq Key /\ m.form.writes \subseteq Key
    BY <1>0, FormsWrite DEF RowOK
  <2>2. ks \subseteq Key
    BY <2>1, RefreshedKeys
  <2> QED  BY <1>0, <1>2, <2>1, <2>2 DEF Invalidate
<1> QED  BY <1>0, <1>1, <1>2, MarkSteps

\* What is in the cache was read: it is not newer than what is stored.
LEMMA DataInv ==
  ASSUME DashInv, Next
  PROVE  /\ data' \in [Key -> 0..MaxVersion]
         /\ \A k \in Key : data'[k] <= version'[k] /\ own'[k] <= version'[k]
<1>0. /\ ServerType /\ ServerType' /\ CacheType /\ FormsType /\ FormsOK
      /\ \A k \in Key : data[k] <= version[k] /\ own[k] <= version[k] /\ fetch[k].since <= version[k]
  BY TypeParts, ServerTypeInv DEF DashInv, CacheOK
<1>1. \A k \in Key : /\ version[k] \in Nat /\ version'[k] \in Nat /\ version[k] <= version'[k]
                     /\ data[k] \in Nat /\ own[k] \in Nat /\ fetch[k].since \in Nat
                     /\ version'[k] <= MaxVersion /\ own'[k] \in Nat
  BY <1>0, VersionsGrow, Bounds DEF ServerType, CacheType
<1>2. \A k \in Key : own'[k] <= version'[k]
  <2>1. CASE UNCHANGED own
    BY <1>0, <1>1, <2>1
  <2>2. ASSUME NEW m \in mutation, Succeed(m) PROVE \A k \in Key : own'[k] <= version'[k]
    <3>1. \A k \in m.form.writes : m.at <= version[k]
      BY <1>0 DEF FormsOK
    <3>2. m.at \in Nat
      BY <1>0, Bounds DEF FormsType, Mutation
    <3>3. \A k \in Key : own'[k] = own[k] \/ (k \in m.form.writes /\ own'[k] = m.at)
      BY <2>2 DEF Succeed
    <3> QED  BY <1>0, <1>1, <3>1, <3>2, <3>3
  <2> QED
    BY <2>1, <2>2, Steps, SigningFrame, LeavingFrame, ReadingFrame, LookingFrame
       DEF Writing, Submit, OthersWrite, Commit, Refuse, LoseForm, server
<1>3. data' \in [Key -> 0..MaxVersion] /\ \A k \in Key : data'[k] <= version'[k]
  <2>1. CASE UNCHANGED data
    BY <1>0, <1>1, <2>1 DEF CacheType
  <2>2. ASSUME NEW k \in Key, Answer(k)
        PROVE  data' \in [Key -> 0..MaxVersion] /\ \A l \in Key : data'[l] <= version'[l]
    <3>1. PICK v \in fetch[k].since..version[k] :
            data' = [data EXCEPT ![k] = IF Allows(ReadBy[k]) THEN v ELSE @]
      BY <2>2 DEF Answer
    <3>2. v \in Nat /\ v <= version'[k] /\ v \in 0..MaxVersion
      BY <1>1, <3>1, Bounds
    <3>3. \A l \in Key : data'[l] = data[l] \/ (l = k /\ data'[l] = v)
      BY <1>0, <3>1 DEF CacheType
    <3>4. data' \in [Key -> 0..MaxVersion]
      BY <1>0, <3>1, <3>2 DEF CacheType
    <3> QED  BY <1>0, <1>1, <3>2, <3>3, <3>4
  <2>3. UNCHANGED data \/ \E k \in Key : Answer(k)
    <3>1. Reading => UNCHANGED data \/ \E k \in Key : Answer(k)
      BY MountedKeys, MountKeys DEF Reading, Focus, Poll, LoseAnswer
    <3>2. Looking => UNCHANGED data
      BY DEF Looking, ConfirmKey, LookUp, LookUpAnother, Navigate, Mount, cache
    <3>3. Writing => UNCHANGED data
      BY DEF Writing, Submit, OthersWrite, Commit, Refuse, LoseForm, Succeed, Invalidate, cache
    <3> QED  BY <3>1, <3>2, <3>3, Steps, SigningFrame, LeavingFrame DEF cache
  <2> QED  BY <2>1, <2>2, <2>3
<1> QED  BY <1>2, <1>3

LEMMA CacheInv ==
  ASSUME DashInv, Next
  PROVE  CacheType' /\ CacheOK'
BY FetchInv, MarksInv, DataInv DEF CacheType, CacheOK, Request

-----------------------------------------------------------------------------
(***************************************************************************)
(* What the person wrote is shown.                                         *)
(***************************************************************************)
LEMMA NothingMounted ==
  /\ DropSession => Mounted' = {}
  /\ page' = "home" => Mounted' = {}
<1>1. App["home"].shows = {} /\ App["home"].lookups = {}
  BY DEF App, HomePage, Screen
<1> QED  BY <1>1 DEF DropSession, Mounted

LEMMA SameMounted == UNCHANGED <<status, page, asked>> => Mounted' = Mounted
BY DEF Mounted

\* With less on the screen and the same cache nothing can be missing.
LEMMA ShownStays ==
  ASSUME DashInv, UNCHANGED <<data, stale, failed, fetch, missed, own>>, Mounted' \subseteq Mounted
  PROVE  \A k \in Key : Shown(k)'
BY DEF DashInv, Shown, InFlight

\* An answer that is an error is shown as one.
LEMMA ShownError ==
  ASSUME DashInv, NEW k \in Key, Received(k, TRUE), UNCHANGED <<data, own>>, Mounted' \subseteq Mounted
  PROVE  \A l \in Key : Shown(l)'
<1>0. CacheType
  BY TypeParts DEF DashInv
<1>1. ~InFlight(k)' /\ k \in failed'
  BY <1>0 DEF Received, InFlight, CacheType
<1>2. \A l \in Key \ {k} : /\ InFlight(l)' <=> InFlight(l)
                           /\ fetch'[l] = fetch[l]
                           /\ l \in failed' <=> l \in failed
                           /\ l \in stale' <=> l \in stale
  BY <1>0 DEF Received, InFlight, CacheType
<1>3. UNCHANGED missed
  BY DEF Received
<1> QED  BY <1>1, <1>2, <1>3 DEF DashInv, Shown

LEMMA ShownAnswer ==
  ASSUME DashInv, NEW k \in Key, Answer(k)
  PROVE  \A l \in Key : Shown(l)'
<1>0. /\ CacheType /\ ServerType /\ Mounted' = Mounted /\ Received(k, ~Allows(ReadBy[k]))
      /\ UNCHANGED own /\ InFlight(k)
  BY TypeParts, SameMounted DEF DashInv, Answer, session, view, server
<1>1. CASE Allows(ReadBy[k])
  <2>1. PICK v \in fetch[k].since..version[k] : data' = [data EXCEPT ![k] = v]
    BY <1>1 DEF Answer
  <2>2. ~InFlight(k)' /\ data'[k] = v
    BY <1>0, <2>1 DEF Received, InFlight, CacheType
  <2>3. \A l \in Key \ {k} : /\ InFlight(l)' <=> InFlight(l)
                             /\ fetch'[l] = fetch[l]
                             /\ data'[l] = data[l]
                             /\ l \in failed' <=> l \in failed
                             /\ l \in stale' <=> l \in stale
    BY <1>0, <2>1 DEF Received, InFlight, CacheType
  <2>4. UNCHANGED missed
    BY <1>0 DEF Received
  <2>5. k \notin missed => own[k] <= v
    <3>1. k \notin missed => own[k] <= fetch[k].since
      BY <1>0 DEF DashInv, Shown
    <3>2. own[k] \in Nat /\ fetch[k].since \in Nat /\ v \in Nat /\ fetch[k].since <= v
      BY <1>0, <2>1, Bounds DEF ServerType, CacheType
    <3> QED  BY <3>1, <3>2
  <2> QED  BY <1>0, <2>2, <2>3, <2>4, <2>5 DEF DashInv, Shown
<1>2. CASE ~Allows(ReadBy[k])
  <2>1. UNCHANGED data
    <3>1. \E v : data' = [data EXCEPT ![k] = data[k]]
      BY <1>2 DEF Answer
    <3> QED  BY <1>0, <3>1 DEF CacheType
  <2>2. Received(k, TRUE)
    BY <1>0, <1>2 DEF Received
  <2> QED  BY <1>0, <2>1, <2>2, ShownError
<1> QED  BY <1>1, <1>2

\* A component that mounts reads its queries, but for those read just before.
LEMMA ShownMount ==
  ASSUME DashInv, NEW ks \in SUBSET Key, NEW p, Mount(ks, p),
         UNCHANGED own, Mounted' \subseteq Mounted \cup ks
  PROVE  \A k \in Key : Shown(k)'
<1>0. CacheType /\ ServerType /\ UNCHANGED <<data, stale, failed>> /\ \A k \in Key : own[k] <= version[k]
  BY TypeParts DEF DashInv, Mount, CacheOK
<1>1. PICK fresh \in SUBSET (ks \cap MayBeFresh(p)) :
        /\ Fetched({k \in ks \ fresh : ~InFlight(k)})
        /\ missed' = missed \ {k \in ks \ fresh : ~InFlight(k)}
  BY DEF Mount
<1> DEFINE read == {k \in ks \ fresh : ~InFlight(k)}
<1>2. \A k \in Key : k \in read => Shown(k)'
  BY <1>0, <1>1, FetchedAgain DEF Shown
<1>3. \A k \in Key : k \notin read => Shown(k)'
  <2> SUFFICES ASSUME NEW k \in Key, k \notin read, k \notin missed'
               PROVE  Shown(k)'
    BY DEF Shown
  <2>1. fetch'[k] = fetch[k] /\ (InFlight(k)' <=> InFlight(k)) /\ k \notin missed
    BY <1>0, <1>1, FetchedAgain
  <2>2. ~InFlight(k) /\ k \in Mounted' => k \in Mounted \/ (k \notin stale /\ data[k] # 0)
    BY <1>1 DEF MayBeFresh
  <2> QED  BY <1>0, <2>1, <2>2 DEF DashInv, Shown
<1> QED  BY <1>2, <1>3

LEMMA ShownPoll ==
  ASSUME DashInv, NEW k \in Key, Poll(k)
  PROVE  \A l \in Key : Shown(l)'
<1>0. /\ CacheType /\ ServerType /\ UNCHANGED <<data, stale, failed, own>> /\ Mounted' = Mounted
      /\ Fetched({k}) /\ missed' = missed \ {k} /\ \A l \in Key : own[l] <= version[l]
  BY TypeParts, SameMounted DEF DashInv, Poll, CacheOK, session, view, server
<1>1. Shown(k)'
  BY <1>0, FetchedAgain DEF Shown
<1>2. \A l \in Key \ {k} : Shown(l)'
  BY <1>0, FetchedAgain DEF DashInv, Shown
<1> QED  BY <1>1, <1>2

(***************************************************************************)
(* A form that succeeds reads again what it wrote and is on the screen, and*)
(* marks the rest of it as stale, or as missed if it was being read.       *)
(***************************************************************************)
LEMMA ShownSuccess ==
  ASSUME DashInv, Next, NEW m \in mutation, Succeed(m)
  PROVE  \A k \in Key : Shown(k)'
<1>0. /\ CacheType /\ ServerType /\ RowOK(m.form) /\ Mounted' = Mounted
      /\ UNCHANGED version /\ \A k \in Key : own'[k] <= version'[k]
      /\ \A k \in Key : k \notin m.form.writes => own'[k] = own[k]
  BY TypeParts, FormsWrite, DataInv, SameMounted DEF DashInv, Succeed, session
<1>1. PICK ks \in Refreshed(m) : Invalidate(ks, m.form)
  BY DEF Succeed
<1> DEFINE read == {k \in ks \cap Mounted : InFlight(k) => data[k] # 0}
<1>2. /\ Fetched(read) /\ stale' = stale \cup ks /\ UNCHANGED <<data, failed>>
      /\ missed' = (missed \cup {k \in m.form.writes : InFlight(k)} \cup (m.form.writes \ ks)) \ read
      /\ ks \subseteq m.form.writes
  BY <1>0, <1>1, RefreshedKeys DEF Invalidate, RowOK
<1>3. \A k \in Key : k \in read => Shown(k)'
  BY <1>0, <1>2, FetchedAgain DEF Shown
<1>4. \A k \in Key : k \notin read => Shown(k)'
  <2> SUFFICES ASSUME NEW k \in Key, k \notin read, k \notin missed'
               PROVE  Shown(k)'
    BY DEF Shown
  <2>1. fetch'[k] = fetch[k] /\ (InFlight(k)' <=> InFlight(k)) /\ k \notin missed
    BY <1>0, <1>2, FetchedAgain
  <2>2. CASE k \in m.form.writes
    <3>1. ~InFlight(k) /\ k \in ks
      BY <1>2, <2>2
    <3>2. k \notin Mounted' /\ k \in stale'
      BY <1>0, <1>2, <3>1
    <3> QED  BY <2>1, <3>1, <3>2 DEF Shown
  <2>3. CASE k \notin m.form.writes
    <3>1. own'[k] = own[k] /\ (k \in stale' <=> k \in stale)
      BY <1>0, <1>2, <2>3
    <3> QED  BY <1>0, <1>2, <2>1, <3>1 DEF DashInv, Shown
  <2> QED  BY <2>2, <2>3
<1> QED  BY <1>3, <1>4

LEMMA ShownInv ==
  ASSUME DashInv, Next
  PROVE  \A k \in Key : Shown(k)'
<1>1. CASE Signing
  <2>1. Mounted' \subseteq Mounted
    <3>1. CASE AnswerStartup
      <4>1. page = "home"
        BY <3>1 DEF DashInv, Starting, AnswerStartup
      <4>2. page' = "home" \/ DropSession
        BY <3>1, <4>1 DEF AnswerStartup, view
      <4> QED  BY <4>2, NothingMounted
    <3>2. CASE SubmitLogin \/ AnswerLogin \/ AnswerMe \/ \E t \in Token : Expire(t)
      <4>1. DropSession \/ page' = "home" \/ UNCHANGED <<status, page, asked>>
        BY <3>2 DEF SubmitLogin, AnswerLogin, AnswerMe, Expire, LeavePage, view
      <4> QED  BY <4>1, NothingMounted, SameMounted
    <3> QED  BY <1>1, <3>1, <3>2 DEF Signing
  <2> QED  BY <1>1, <2>1, SigningFrame, ShownStays DEF cache, server
<1>2. CASE Leaving
  <2>1. Mounted' \subseteq Mounted
    BY <1>2, LeavingEffect, NothingMounted, SameMounted DEF view
  <2>2. ASSUME NEW k \in Key, UnauthorizedQuery(k) PROVE \A l \in Key : Shown(l)'
    BY <1>2, <2>1, <2>2, LeavingFrame, ShownError DEF UnauthorizedQuery, server
  <2>3. CASE Logout \/ (\E t \in Token \cup {None} : AnswerOrphan(t)) \/ \E m \in mutation : UnauthorizedForm(m)
    <3>1. UNCHANGED <<data, stale, failed, fetch, missed, own>>
      BY <2>3 DEF Logout, AnswerOrphan, UnauthorizedForm, cache, server
    <3> QED  BY <2>1, <3>1, ShownStays
  <2> QED  BY <1>2, <2>2, <2>3 DEF Leaving
<1>3. CASE Reading
  <2>1. Mounted' = Mounted /\ UNCHANGED <<own, session>>
    BY <1>3, ReadingFrame, SameMounted DEF view, session, server
  <2>2. CASE Focus
    BY <2>1, <2>2, MountedKeys, ShownMount DEF Focus
  <2>3. ASSUME NEW k \in Key, LoseAnswer(k) PROVE \A l \in Key : Shown(l)'
    BY <2>1, <2>3, ShownError DEF LoseAnswer
  <2> QED  BY <1>3, <2>2, <2>3, ShownPoll, ShownAnswer DEF Reading
<1>4. CASE Looking
  <2>1. UNCHANGED <<own, status>>
    BY <1>4, LookingFrame DEF session, server
  <2>2. CASE ConfirmKey
    BY <2>1, <2>2, SameMounted, ShownStays DEF ConfirmKey, cache
  <2>3. ASSUME NEW k \in Key, LookUpAnother(k) PROVE \A l \in Key : Shown(l)'
    <3>1. Mounted' \subseteq Mounted
      BY <2>1, <2>3 DEF LookUpAnother, Mounted
    <3> QED  BY <2>1, <2>3, <3>1, ShownStays DEF LookUpAnother, cache
  <2>4. ASSUME NEW k \in Key, LookUp(k) PROVE \A l \in Key : Shown(l)'
    <3>1. Mounted' \subseteq Mounted \cup {k}
      BY <2>1, <2>4 DEF LookUp, Mounted
    <3>2. {k} \in SUBSET Key
      OBVIOUS
    <3> QED  BY <2>1, <2>4, <3>1, <3>2, ShownMount DEF LookUp
  <2>5. ASSUME NEW p \in Page, Navigate(p) PROVE \A l \in Key : Shown(l)'
    <3>1. Mounted' \subseteq App[p].shows
      BY <2>5 DEF Navigate, LeavePage, Mounted
    <3> QED  BY <2>1, <2>5, <3>1, QueriesOfPages, ShownMount DEF Navigate
  <2> QED  BY <1>4, <2>2, <2>3, <2>4, <2>5 DEF Looking
<1>5. CASE Writing
  <2>1. CASE \E m \in mutation : Succeed(m)
    BY <2>1, ShownSuccess
  <2>2. CASE ~\E m \in mutation : Succeed(m)
    <3>1. UNCHANGED <<data, stale, failed, fetch, missed, own>>
      BY <1>5, <2>2 DEF Writing, Submit, OthersWrite, Commit, Refuse, LoseForm, cache, server
    <3> QED  BY <1>5, <3>1, WritingFrame, SameMounted, ShownStays DEF session
  <2> QED  BY <2>1, <2>2
<1> QED  BY <1>1, <1>2, <1>3, <1>4, <1>5, Steps

LEMMA DashInit == Init => DashInv
<1> SUFFICES ASSUME Init PROVE DashInv
  OBVIOUS
<1>1. token \in Token \cup {None} /\ live \subseteq Token /\ (token # None => live = {token})
  BY NewTokenIsOne DEF Init
<1>2. SessionType /\ BoundsType
  BY <1>1, DashboardAssumption DEF Init, SessionType, BoundsType
<1>3. page \in Page \cup {"login"} /\ asked = {} /\ revealed \in BOOLEAN /\ ~revealed
  BY Pages DEF Init
<1>4. ViewType
  BY <1>3, Zenon DEF ViewType
<1>5. CacheType /\ FormsType /\ ServerType
  BY Bounds DEF Init, CacheType, FormsType, ServerType, NoFetch
<1>6. Starting /\ Signed /\ FormsOK
  BY DEF Init, Starting, Signed, FormsOK, InFlight
<1>7. VersionsOK
  <2>1. Uncommitted = {} /\ Cardinality(Uncommitted) = 0
    BY FS_EmptySet DEF Init, Uncommitted
  <2> QED  BY <2>1, Keys DEF Init, VersionsOK
<1>8. CacheOK
  BY DEF Init, CacheOK, NoFetch
<1>9. \A k \in Key : Shown(k)
  BY DEF Init, Shown, InFlight
<1> QED  BY <1>2, <1>4, <1>5, <1>6, <1>7, <1>8, <1>9, TypeParts DEF DashInv

LEMMA DashNext == DashInv /\ [Next]_vars => DashInv'
<1>1. ASSUME DashInv, Next PROVE DashInv'
  <2>1. /\ SessionType' /\ ViewType' /\ CacheType' /\ FormsType' /\ ServerType' /\ BoundsType'
        /\ Starting' /\ Signed' /\ FormsOK' /\ VersionsOK' /\ CacheOK' /\ \A k \in Key : Shown(k)'
    BY <1>1, SessionTypeInv, ViewTypeInv, CacheInv, FormsInv, ServerTypeInv, BoundsTypeInv,
       StartingInv, SignedInv, ShownInv
  <2>2. TypeOK'
    BY <2>1, TypePartsNext
  <2> QED  BY <2>1, <2>2 DEF DashInv
<1>2. ASSUME DashInv, UNCHANGED vars PROVE DashInv'
  <2>1. /\ UNCHANGED <<token, issued, live, status, startup, login, page, asked, revealed>>
        /\ UNCHANGED <<data, stale, failed, fetch, orphans, missed, mutation, version, own>>
        /\ UNCHANGED <<submits, others, visits, faults>>
    BY <1>2 DEF vars, session, view, cache, server, bounds
  <2>2. TypeOK'
    <3>1. SessionType' /\ CacheType' /\ FormsType' /\ ServerType' /\ BoundsType'
      BY <1>2, <2>1, TypeParts
         DEF DashInv, SessionType, CacheType, FormsType, ServerType, BoundsType
    <3>2. ViewType'
      BY <1>2, <2>1, TypeParts, SameView DEF DashInv, ViewType
    <3> QED  BY <3>1, <3>2, TypePartsNext
  <2>3. Starting' /\ Signed' /\ FormsOK' /\ VersionsOK' /\ CacheOK'
    BY <1>2, <2>1 DEF DashInv, Starting, Signed, FormsOK, VersionsOK, Uncommitted, CacheOK, InFlight
  <2>4. \A k \in Key : Shown(k)'
    BY <1>2, <2>1, SameMounted, ShownStays
  <2> QED  BY <2>2, <2>3, <2>4 DEF DashInv
<1> QED  BY <1>1, <1>2

LEMMA Invariant == Spec => []DashInv
BY DashInit, DashNext, PTL DEF Spec

\* Type correctness, with the dialog of a device's key on its page only and a
\* form on the page it was submitted from (devices-page.tsx, auth-context.tsx).
THEOREM TypeCorrect == Spec => []TypeOK
<1>1. DashInv => TypeOK
  BY DEF DashInv
<1> QED  BY <1>1, Invariant, PTL

\* What the person was told is stored is on every page that lists it once
\* nothing is loading: the forms' onSuccess and the keys the pages share.
THEOREM WritesAreShown == Spec => []OwnWriteIsShown
<1>1. DashInv => OwnWriteIsShown
  <2> SUFFICES ASSUME DashInv, NEW k \in Mounted \ (failed \cup missed), ~InFlight(k)
               PROVE  data[k] >= own[k]
    BY DEF OwnWriteIsShown
  <2>1. k \in Key /\ own[k] <= data[k]
    BY MountedKeys DEF DashInv, Shown
  <2>2. data[k] \in Nat /\ own[k] \in Nat
    BY <2>1, TypeParts, Bounds DEF DashInv, CacheType, ServerType
  <2> QED  BY <2>1, <2>2
<1> QED  BY <1>1, Invariant, PTL
=============================================================================
