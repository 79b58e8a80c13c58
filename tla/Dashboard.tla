------------------------------ MODULE Dashboard ------------------------------
(***************************************************************************)
(* The web dashboard in one browser tab of one person: the session kept in *)
(* sessionStorage, the pages with the queries they mount and the forms     *)
(* they submit, TanStack Query's cache between the pages and the API, and  *)
(* the API, where colleagues write as well.  A resource is the number of   *)
(* times it was written; its copy in the cache is the number that was read.*)
(* A request is judged with its token when it is answered.                 *)
(***************************************************************************)
EXTENDS Naturals

CONSTANTS Token,      \* session tokens, one per login
          Granted,    \* permissions of the person
          MaxSubmits, \* bound of the forms submitted
          Route(_, _),\* the person may go from the first page to the second
          Contested,  \* forms that colleagues submit as well
          MaxOthers,  \* bound of the writes of colleagues
          MaxVisits,  \* bound of the navigations
          MaxFaults,  \* bound of the requests that fail in the network and the expirations
          None

ASSUME DashboardAssumption ==
  /\ MaxSubmits \in Nat /\ MaxOthers \in Nat /\ MaxVisits \in Nat /\ MaxFaults \in Nat
  /\ Token # {} /\ Token \cap {None, "none", "asked"} = {}

VARIABLES token,    \* the token in sessionStorage
          issued,   \* tokens that logins were answered with
          live,     \* those that have not expired
          status,   \* status of the AuthProvider
          startup,  \* token of the startup's /v1/auth/me in flight
          login,    \* "none", "asked", or the token of the login's /v1/auth/me
          page,     \* the route
          asked,    \* lookups submitted on the page
          revealed, \* the device key modal is open
          data,     \* version in the cache of each query, 0 for none
          stale,    \* queries invalidated since they were read
          failed,   \* queries whose last answer is an error
          fetch,    \* request in flight of each query
          orphans,  \* tokens of requests in flight that were cancelled
          mutation, \* submitted forms without an answer
          version,  \* version of each resource
          own,      \* version of the last write the tab was told of
          missed,   \* queries that were not read again after such a write
          submits, others, visits, faults

session == <<token, issued, live, status, startup, login>>
view == <<page, asked, revealed>>
cache == <<data, stale, failed, fetch, orphans, missed>>
server == <<version, own>>
bounds == <<submits, others, visits, faults>>
vars == <<session, view, cache, mutation, server, bounds>>

----------------------------------------------------------------------------
(* The pages: queries they mount, lookups a form of theirs enables, and    *)
(* their other forms.  "on" is the query whose rows carry the button.      *)

Structure == "manage_institution_structure"

\* Permissions that allow a query to be read, any of them.
ReadBy ==
  [courses |-> {Structure}, rooms |-> {Structure}, groups |-> {Structure},
   enrollments |-> {Structure}, sessions |-> {Structure, "view_attendance_register"},
   persons |-> {"manage_users", Structure}, devices |-> {Structure}, areas |-> {Structure},
   configs |-> {"configure_attendance_rules"}, factors |-> {"configure_attendance_rules"},
   register |-> {"view_attendance_register"}, history |-> {"view_attendance_register"},
   summary |-> {"view_attendance_register"}, reviews |-> {"view_attendance_register"},
   permissions |-> {"manage_users"}, categories |-> {"manage_users"},
   wristbands |-> {"manage_users"}, cameras |-> {"view_camera", "view_sector_cameras"},
   incidents |-> {"manage_security_incidents"}, incident |-> {"manage_security_incidents"}]

Key == DOMAIN ReadBy
Allows(permissions) == permissions \cap Granted # {}

RowForm(name, on, needs, writes, refreshes) ==
  [name |-> name, on |-> on, needs |-> needs, writes |-> writes, refreshes |-> refreshes]
Form(name, needs, key) == RowForm(name, "none", {needs}, {key}, {key})
Screen(shows, forms) == [shows |-> shows, lookups |-> {}, forms |-> forms]

HomePage == Screen({}, {})
CoursesPage == Screen({"courses"}, {Form("create course", Structure, "courses")})
RoomsPage == Screen({"rooms"}, {Form("create room", Structure, "rooms")})
ClassGroupsPage ==
  Screen({"courses", "groups"},
    {RowForm("create class group", "courses", {Structure}, {"groups"}, {"groups"})})
EnrollmentsSection ==
  Screen({"enrollments", "persons"}, {Form("enroll", Structure, "enrollments")})
SessionsSection ==
  Screen({"rooms", "sessions"},
    {RowForm("create session", "rooms", {Structure}, {"sessions"}, {"sessions"})})
ClassGroupDetailPage ==
  Screen(EnrollmentsSection.shows \cup SessionsSection.shows,
         EnrollmentsSection.forms \cup SessionsSection.forms)
DevicesPage ==
  Screen({"rooms", "devices"},
    {Form("register device", Structure, "devices"),
     RowForm("revoke device", "devices", {Structure}, {"devices"}, {"devices"})})
\* The factors of a config are stored by the second form and shown nowhere.
RequiredFactorsSection ==
  Screen({"factors"},
    {RowForm("set factors", "configs", {"configure_attendance_rules"}, {}, {})})
AttendanceConfigPage ==
  Screen({"courses", "groups", "configs"} \cup RequiredFactorsSection.shows,
    {Form("save config", "configure_attendance_rules", "configs")}
      \cup RequiredFactorsSection.forms)
AttendanceRegisterPage ==
  [shows |-> {}, lookups |-> {"register", "history", "summary"}, forms |-> {}]
\* Resolving is allowed by the leadership chain, not by a permission.
PendingReviewsPage ==
  Screen({"reviews"}, {RowForm("resolve review", "reviews", Granted, {"reviews"}, {"reviews"})})
\* Mutant: the page refreshes the people of another screen.
UsersPageForgetful ==
  Screen({"persons"}, {RowForm("create person", "none", {"manage_users"}, {"persons"}, {"enrollments"})})
UsersPage == Screen({"persons"}, {Form("create person", "manage_users", "persons")})
\* Assigning changes what a person may do, which the page does not show.
PermissionGroupsPage ==
  Screen({"permissions", "persons"},
    {Form("create group", "manage_users", "permissions"),
     RowForm("assign person", "permissions", {"manage_users"}, {}, {})})
WristbandsPage ==
  [shows |-> {"categories", "persons"}, lookups |-> {"wristbands"},
   forms |-> {Form("create category", "manage_users", "categories"),
     RowForm("issue wristband", "categories", {"manage_users"}, {"wristbands"}, {"wristbands"}),
     RowForm("revoke wristband", "wristbands", {"manage_users"}, {"wristbands"}, {"wristbands"})}]
SecurityIncidentsPage ==
  Screen({k \in {"incidents"} : Allows(ReadBy[k])}, {})
SecurityIncidentDetailPage ==
  Screen({k \in {"incident", "cameras"} : Allows(ReadBy["incident"])},
    {RowForm("close incident", "incident", {"manage_security_incidents"},
             {"incident", "incidents"}, {"incident", "incidents"})})
CamerasPage ==
  Screen({k \in {"cameras"} : Allows(ReadBy[k])}
           \cup {k \in {"areas"} : Allows({"administer_camera_devices"})},
    {Form("register camera", "administer_camera_devices", "cameras")})

App ==
  [home |-> HomePage, courses |-> CoursesPage, rooms |-> RoomsPage,
   groups |-> ClassGroupsPage, group |-> ClassGroupDetailPage, devices |-> DevicesPage,
   config |-> AttendanceConfigPage, register |-> AttendanceRegisterPage,
   reviews |-> PendingReviewsPage, users |-> UsersPage,
   permissions |-> PermissionGroupsPage, wristbands |-> WristbandsPage,
   incidents |-> SecurityIncidentsPage, incident |-> SecurityIncidentDetailPage,
   cameras |-> CamerasPage]

Page == DOMAIN App
Forms == UNION {App[p].forms : p \in Page}
MaxVersion == 1 + MaxSubmits + MaxOthers
NoFetch == [since |-> 0, token |-> None]

\* The token of another login; which one does not matter.
NewToken(used) == CHOOSE t \in Token : t \notin used

\* The tab is opened at the login page, or reloaded with its token.
Init ==
  /\ \/ token = None /\ live = {} /\ status = "anonymous" /\ page = "login"
     \/ token = NewToken({}) /\ live = {token} /\ status = "loading" /\ page = "home"
  /\ issued = live /\ startup = token /\ login = "none" /\ asked = {} /\ revealed = FALSE
  /\ data = [k \in Key |-> 0] /\ stale = {} /\ failed = {} /\ missed = {}
  /\ fetch = [k \in Key |-> NoFetch] /\ orphans = {}
  /\ mutation = {} /\ version = [k \in Key |-> 1] /\ own = [k \in Key |-> 0]
  /\ submits = 0 /\ others = 0 /\ visits = 0 /\ faults = 0

----------------------------------------------------------------------------
(* Queries.                                                                *)

InFlight(k) == fetch[k] # NoFetch

Mounted ==
  IF status = "authenticated" /\ page \in Page
  THEN App[page].shows \cup (App[page].lookups \cap asked) ELSE {}

\* Another request for these queries replaces the one in flight.
Fetched(ks) ==
  /\ fetch' = [k \in Key |->
       IF k \in ks THEN [since |-> version[k], token |-> token] ELSE fetch[k]]
  /\ orphans' = orphans \cup {fetch[k].token : k \in {l \in ks : InFlight(l)}}

\* The lookup of PersonIdField is kept for a minute unless invalidated.
MayBeFresh(p) == {k \in {"persons"} : p # "users" /\ data[k] # 0 /\ k \notin stale}

\* A component mounts: the rest is read, or joins the request in flight.
Mount(ks, p) ==
  \E fresh \in SUBSET (ks \cap MayBeFresh(p)) :
    LET read == {k \in ks \ fresh : ~InFlight(k)} IN
    /\ Fetched(read) /\ missed' = missed \ read
    /\ UNCHANGED <<data, stale, failed>>

\* The window is focused again.
Focus ==
  /\ Mounted # {} /\ Mount(Mounted, page)
  /\ UNCHANGED <<session, view, mutation, server, bounds>>

\* Mutant: the timer stops after an answer that failed.
RefetchUntilError(k) == k = "incident" /\ data[k] = 1 /\ k \notin failed

\* Every 4 seconds, while the incident on the page is an open one.
RefetchInterval(k) == k = "incident" /\ data[k] = 1

Poll(k) ==
  /\ k \in Mounted /\ RefetchInterval(k) /\ ~InFlight(k)
  /\ Fetched({k}) /\ missed' = missed \ {k}
  /\ UNCHANGED <<data, stale, failed, session, view, mutation, server, bounds>>

Received(k, isError) ==
  /\ fetch' = [fetch EXCEPT ![k] = NoFetch]
  /\ failed' = IF isError THEN failed \cup {k} ELSE failed \ {k}
  /\ stale' = IF isError THEN stale \cup {k} ELSE stale \ {k}
  /\ UNCHANGED <<orphans, missed>>

\* The read saw a state of the resource between its request and its answer.
Answer(k) ==
  /\ InFlight(k) /\ fetch[k].token \in live
  /\ Received(k, ~Allows(ReadBy[k]))
  /\ \E v \in fetch[k].since..version[k] :
       data' = [data EXCEPT ![k] = IF Allows(ReadBy[k]) THEN v ELSE @]
  /\ UNCHANGED <<session, view, mutation, server, bounds>>

\* A request that fails in the network, or a token that expires.
Fault == faults < MaxFaults /\ faults' = faults + 1 /\ UNCHANGED <<submits, others, visits>>

\* Queries are not retried.
LoseAnswer(k) ==
  /\ InFlight(k) /\ Fault /\ Received(k, TRUE)
  /\ UNCHANGED <<data, session, view, mutation, server>>

----------------------------------------------------------------------------
(* The session.                                                            *)

\* A component's forms go on without it.
Unmounted == {[m EXCEPT !.here = FALSE] : m \in mutation}

\* Mutant: the dialog outlives its page.
LeavePageOpen(p) == page' = p /\ asked' = {} /\ UNCHANGED revealed
LeavePage(p) == page' = p /\ asked' = {} /\ revealed' = FALSE

\* logout, and the listener of every answer 401.
DropSession ==
  /\ token' = None /\ status' = "anonymous" /\ LeavePage("login")
  /\ UNCHANGED <<issued, live>>

\* A startup that fails in the network drops the session as well.
AnswerStartup ==
  /\ startup # None /\ startup' = None
  /\ \/ /\ startup \in live /\ status' = "authenticated"
        /\ UNCHANGED <<token, issued, live, view, bounds>>
     \/ startup \notin live /\ DropSession /\ UNCHANGED bounds
     \/ Fault /\ DropSession
  /\ UNCHANGED <<login, cache, mutation, server>>

SubmitLogin ==
  /\ page = "login" /\ login = "none" /\ login' = "asked"
  /\ UNCHANGED <<token, issued, live, status, startup, view, cache, mutation, server, bounds>>

\* Wrong credentials are a 401 like any other.
AnswerLogin ==
  /\ login = "asked" /\ UNCHANGED <<startup, cache, server>>
  /\ \/ /\ Token \ issued # {}
        /\ token' = NewToken(issued) /\ login' = token'
        /\ issued' = issued \cup {token'} /\ live' = live \cup {token'}
        /\ UNCHANGED <<status, view, mutation, bounds>>
     \/ login' = "none" /\ DropSession /\ mutation' = Unmounted /\ UNCHANGED bounds
     \/ login' = "none" /\ Fault /\ UNCHANGED <<token, issued, live, status, view, mutation>>

AnswerMe ==
  /\ login \in Token /\ login' = "none" /\ UNCHANGED <<startup, server>>
  /\ \/ /\ login \in live /\ status' = "authenticated" /\ LeavePage("home")
        /\ UNCHANGED <<token, issued, live, mutation, cache, bounds>>
     \/ /\ login \notin live /\ DropSession
        /\ mutation' = Unmounted /\ UNCHANGED <<cache, bounds>>
     \/ Fault /\ UNCHANGED <<token, issued, live, status, view, mutation, cache>>

Expire(t) ==
  /\ t \in live /\ live' = live \ {t} /\ Fault
  /\ UNCHANGED <<token, issued, status, startup, login, view, cache, mutation, server>>

Logout ==
  /\ status = "authenticated" /\ ~revealed
  /\ DropSession /\ mutation' = Unmounted
  /\ UNCHANGED <<startup, login, cache, server, bounds>>

\* A 401: of a query, of a cancelled request, of a form.
UnauthorizedQuery(k) ==
  /\ InFlight(k) /\ fetch[k].token \notin live
  /\ Received(k, TRUE) /\ DropSession /\ mutation' = Unmounted
  /\ UNCHANGED <<data, startup, login, server, bounds>>

AnswerOrphan(t) ==
  /\ t \in orphans /\ orphans' = orphans \ {t}
  /\ IF t \in live THEN UNCHANGED <<token, issued, live, status, view, mutation>>
     ELSE DropSession /\ mutation' = Unmounted
  /\ UNCHANGED <<data, stale, failed, fetch, missed, startup, login, server, bounds>>

UnauthorizedForm(m) ==
  /\ m.at = 0 /\ m.token \notin live
  /\ DropSession /\ mutation' = Unmounted \ {[m EXCEPT !.here = FALSE]}
  /\ UNCHANGED <<startup, login, cache, server, bounds>>

----------------------------------------------------------------------------
(* The view, the forms and the API.                                        *)

\* A link, or the browser's Back, which also leaves an open key dialog.
Navigate(p) ==
  /\ status = "authenticated" /\ p # page /\ Route(page, p)
  /\ visits < MaxVisits /\ visits' = visits + 1
  /\ LeavePage(p) /\ mutation' = Unmounted
  /\ Mount(App[p].shows, p)
  /\ UNCHANGED <<session, server, submits, others, faults>>

LookUp(k) ==
  /\ status = "authenticated" /\ page \in Page /\ k \in App[page].lookups \ asked
  /\ asked' = asked \cup {k} /\ Mount({k}, page)
  /\ UNCHANGED <<page, revealed, session, mutation, server, bounds>>

\* The lookup is submitted with another person or session.
LookUpAnother(k) ==
  /\ k \in asked /\ asked' = asked \ {k}
  /\ UNCHANGED <<page, revealed, session, cache, mutation, server, bounds>>

Pending(f) == \E m \in mutation : m.form = f /\ m.here

Submittable(f) ==
  /\ Allows(f.needs) /\ ~Pending(f) /\ ~revealed
  /\ f.on \in Mounted => data[f.on] # 0
  /\ f.on \in Key => f.on \in Mounted
  /\ f.name = "close incident" => data["incident"] = 1

Submit(f) ==
  /\ status = "authenticated" /\ page \in Page /\ f \in App[page].forms /\ Submittable(f)
  /\ submits < MaxSubmits /\ submits' = submits + 1
  /\ mutation' = mutation \cup
       {[id |-> submits', form |-> f, token |-> token, at |-> 0, here |-> TRUE]}
  /\ UNCHANGED <<session, view, cache, server, others, visits, faults>>

IsOpen == version["incident"] = 1

Written(ks) == version' = [k \in Key |-> IF k \in ks THEN version[k] + 1 ELSE version[k]]

Commit(m) ==
  /\ m.at = 0 /\ m.token \in live
  /\ m.form.name = "close incident" => IsOpen
  /\ Written(m.form.writes)
  /\ mutation' = (mutation \ {m}) \cup {[m EXCEPT !.at =
       IF m.form.writes = {} THEN 1 ELSE version'[CHOOSE k \in m.form.writes : TRUE]]}
  /\ UNCHANGED <<session, view, cache, own, bounds>>

\* The API refuses the form, or its answer is lost; the page shows the error.
Refuse(m) ==
  /\ m.at = 0 /\ m.token \in live /\ mutation' = mutation \ {m}
  /\ UNCHANGED <<session, view, cache, server, bounds>>

LoseForm(m) ==
  /\ Fault /\ mutation' = mutation \ {m}
  /\ UNCHANGED <<session, view, cache, server>>

\* The queries a form's onSuccess invalidates.  Issuing a wristband does so if
\* the person is the one typed in the lookup; revoking refreshes the lookup
\* that is submitted by then.
Refreshed(m) ==
  IF \/ m.form.name = "issue wristband"
     \/ m.form.name = "revoke wristband" /\ ~(m.here /\ "wristbands" \in asked)
  THEN {{}, m.form.refreshes} ELSE {m.form.refreshes}

\* What is on screen is read again, and what is not is marked.  A first load
\* in flight is not replaced: it may answer with what it saw before.
Invalidate(ks, form) ==
  LET read == {k \in ks \cap Mounted : InFlight(k) => data[k] # 0} IN
  /\ Fetched(read) /\ stale' = stale \cup ks
  /\ missed' = (missed \cup {k \in form.writes : InFlight(k)} \cup (form.refreshes \ ks)) \ read
  /\ UNCHANGED <<data, failed>>

Succeed(m) ==
  /\ m.at > 0 /\ mutation' = mutation \ {m}
  /\ own' = [k \in Key |-> IF k \in m.form.writes /\ own[k] < m.at THEN m.at ELSE own[k]]
  /\ \E ks \in Refreshed(m) : Invalidate(ks, m.form)
  /\ revealed' = (revealed \/ (m.here /\ m.form.name = "register device"))
  /\ UNCHANGED <<version, page, asked, session, bounds>>

\* The checkbox of the device key dialog, then its button.
ConfirmKey ==
  /\ revealed /\ revealed' = FALSE
  /\ UNCHANGED <<page, asked, session, cache, mutation, server, bounds>>

\* A colleague writes what one of the forms writes.
OthersWrite(f) ==
  /\ f.name \in Contested /\ (f.name = "close incident" => IsOpen)
  /\ others < MaxOthers /\ others' = others + 1
  /\ Written(f.writes)
  /\ UNCHANGED <<session, view, cache, mutation, own, submits, visits, faults>>

Next ==
  \/ AnswerStartup \/ SubmitLogin \/ AnswerLogin \/ AnswerMe \/ Logout \/ Focus \/ ConfirmKey
  \/ \E t \in Token : Expire(t)
  \/ \E t \in Token \cup {None} : AnswerOrphan(t)
  \/ \E k \in Key : \/ Poll(k) \/ Answer(k) \/ LoseAnswer(k)
                    \/ UnauthorizedQuery(k) \/ LookUp(k) \/ LookUpAnother(k)
  \/ \E p \in Page : Navigate(p)
  \/ \E f \in Forms : Submit(f) \/ OthersWrite(f)
  \/ \E m \in mutation : \/ Commit(m) \/ Refuse(m) \/ LoseForm(m) \/ Succeed(m)
                         \/ UnauthorizedForm(m)

Spec == Init /\ [][Next]_vars

\* The poll's timer runs and the API answers its requests; nothing else has to
\* happen.
FairSpec ==
  Spec /\ WF_vars(Poll("incident")) /\ WF_vars(Answer("incident"))
       /\ WF_vars(UnauthorizedQuery("incident"))

----------------------------------------------------------------------------
Mutation ==
  [id: 1..MaxSubmits, form: Forms, token: Token \cup {None}, at: 0..MaxVersion, here: BOOLEAN]

\* The variables have their types; the dialog with a device's key is open on
\* the devices page only, and a form belongs to the page that is open
\* (devices-page.tsx, auth-context.tsx).
TypeOK ==
  /\ token \in issued \cup {None} /\ live \subseteq issued /\ issued \subseteq Token
  /\ status \in {"loading", "authenticated", "anonymous"}
  /\ startup \in Token \cup {None} /\ login \in Token \cup {"none", "asked"}
  /\ page \in Page \cup {"login"} /\ asked \subseteq Key /\ revealed \in BOOLEAN
  /\ data \in [Key -> 0..MaxVersion]
  /\ stale \subseteq Key /\ failed \subseteq Key /\ missed \subseteq Key
  /\ fetch \in [Key -> [since: 0..MaxVersion, token: Token \cup {None}]]
  /\ orphans \subseteq Token \cup {None}
  /\ \A m \in mutation : /\ m \in Mutation
                         /\ m.here => page \in Page /\ m.form \in App[page].forms
  /\ version \in [Key -> 1..MaxVersion] /\ own \in [Key -> 0..MaxVersion]
  /\ revealed => status = "authenticated" /\ page = "devices"
  /\ submits \in 0..MaxSubmits /\ others \in 0..MaxOthers
  /\ visits \in 0..MaxVisits /\ faults \in 0..MaxFaults

\* What the person wrote and was told is stored is on every page that lists it
\* once nothing is loading, unless an error is shown or the list's own first
\* load (or a wristband issued to somebody not looked up) kept it from being
\* read again: the forms' onSuccess, and query keys shared between pages.
OwnWriteIsShown ==
  \A k \in Mounted \ (failed \cup missed) : ~InFlight(k) => data[k] >= own[k]

\* A page that shows an incident as open after somebody closed it shows the
\* closing, or the person leaves it or loses the session
\* (security-incident-detail-page.tsx, refetchInterval).
ClosedIsShown ==
  ("incident" \in Mounted /\ data["incident"] = 1 /\ ~IsOpen)
    ~> ~("incident" \in Mounted /\ data["incident"] = 1)
=============================================================================
