# CheckClass in TLA+

TLA+ specifications of CheckClass: a multi-tenant backend (NestJS, TypeORM,
PostgreSQL, pg-boss) that turns signals from tag readers, cameras and a mobile
app into class attendance, and barrier crossings into intrusion incidents.
Paths are relative to `src/`; `backend/.../x.ts` means a file below
`backend/src/modules/`.

The modules model what is hard to test here: transactions at READ COMMITTED
that interleave between statements, jobs delivered at least once, processes
that die anywhere, and clients that resend. TLC checks small instances; TLAPS
proves the most important invariants for every size.

## 1. The system

| Component | State | Operations | Interacts with |
|---|---|---|---|
| Ingestion, app check-in | `raw_identification_event`, unique per tenant and idempotency key | `ingest`, `submit` | sends an identify-event job in the transaction of its insert |
| Identification | `identification_checkin`, unique per raw event | `processRawEvent` | reads persons, wristbands, sessions; sends a deduplicate-checkin job |
| Deduplication | `is_duplicate`, `duplicate_of_checkin_id` | `deduplicate` | consumes those jobs; advisory lock per correlation key |
| Rules engine | `session_attendance_consolidation`, `attendance_pending_review`, `presence_interval` | `evaluateSession` (script) | reads canonical check-ins; opens reviews |
| Pending review | the same two tables | `resolve` | races the rules engine |
| Security ingestion, intrusion detection | `raw_security_event`, `intrusion_incident`, its location entries | `ingest`, `processRawEvent` | detect-intrusion jobs; area authorization |
| Security incidents | `intrusion_incident` closure fields | `close` | races intrusion detection |
| Job queue | pg-boss jobs | send, deliver, complete, expire, retry | the three workers |
| Mobile authentication | `refresh_token` | login, refresh with rotation, logout | the phones |
| Mobile app | secure storage, status, pending check-in | login, refresh after a 401, logout, check-in | the backend over a lossy network |
| Configuration, sessions | `attendance_config`, its factors, snapshots on `class_session` | upsert, set factors, create session | read by the rules engine |
| Web dashboard | session token, query cache, forms in flight, device key dialog | login, navigation, lookups, forms, polling, logout | the REST API; colleagues who write the same data |
| Wristbands, areas | `area`, `wristband`, `wristband_category_area_permission` | create area, issue, revoke, grant, `isAuthorized` | read by identification and detection |
| Permission groups | groups and their members | grant, revoke | read by the guards of the API |
| Registers, schedule, CRUD | none of their own | reads and single-row writes | the tables above; the dashboard |

Hard behaviours, by kind; `PROJECT.json` lists each at its line.

- Interleaved statements of concurrent transactions: two duplicates of one
  burst, two evaluations of one session, a resolution during an evaluation, two
  detectors that see no open incident, two rotations of one refresh token.
- At-least-once jobs, failures between commit and acknowledgement, jobs out of
  the order of their rows.
- Resends: the same idempotency key while the first request is uncommitted.
- Stale reads: what was read before a lock was waited for.
- Coroutines of the app: an answer that arrives after a logout; a check-in
  resent by a tap, a mount and a foreground event at once.
- Caches: a list that was read before a write, or by a request still in flight
  when the write is confirmed; a poll whose last answer was an error.
- Copies: a session that keeps the rules it read from four tables while they
  change.
- Boundaries: inclusive session ends, simultaneous rows, an exit without an
  entry, factors nobody checks.

## 2. Plan

Order of the work, most important behaviour first.

| Stage | Modules | State |
|---|---|---|
| 1 | `JobQueue`, `Deduplication`: which check-ins count | checked, proved |
| 2 | `AttendanceDecision`, `AttendanceVerdict`: what they amount to, who decides | checked, proved |
| 3 | `IntrusionIncident`: detection against closing | checked, proved |
| 4 | `CheckinPipeline`: ingestion and identification, composed with `Deduplication`, which it implements | checked, proved |
| 5 | `RefreshTokens`, `MobileSession`: sessions of phones | checked, proved |
| 6 | `MobileCheckin`: the persisted idempotency key and its resends | checked, proved |
| 7 | `AttendanceConfig`: configuration cascade, replaced factors, the copies of sessions and their evaluations | checked, proved |
| 8 | `Dashboard`: pages, query cache, session token, against colleagues | checked, proved |
| 9 | `AreaAuthorization`: areas, wristbands, permissions and the scans judged by them | proved; a small instance by hand |
| Left | overlapping rewrites of `presence_interval` | not started |

Abstract specifications: `Deduplication` is one for `CheckinPipeline`: it
assumes that check-ins appear whole, once, with their job, and the pipeline is
shown to deliver exactly that. A planned one is a register that each student's
decision enters once, for `AttendanceDecision`.

## 3. Modules

Common conventions. A process has a program counter whose value names the next
statement; one action is one statement with its effects. A row another
transaction has not committed is not visible; locks and unique-index entries
are held until the transaction ends, and the waits they cause are guards. Any
transaction may fail at any statement and then leaves no trace. One tenant is
modelled: row-level security keeps tenants apart.

### JobQueue

pg-boss, as `queue/queue.service.ts` uses it. A job is unsent, waiting, active,
completed or failed; `Release` gives an active job back, or fails it when its
retries are used up. Jobs are delivered in any order. The queue is external:
the module says no more than the workers rely on.

### Deduplication

`backend/.../deduplication/deduplication.service.ts`, one handler run per
worker: read the row (`ReadCheckin`), take the advisory lock of its correlation
key (`AcquireLock`), look for the oldest canonical row in the window
(`FindCanonical`), mark and commit (`CommitHandler`), acknowledge. A worker may
fail anywhere and a delivery may expire while its handler still runs. Check-ins
appear by `CommitIdentification` in any order of their `created_at`, which is
the start of the identifying transaction and not the moment the row appears.

### AttendanceDecision

`attendance-rules-engine.service.ts` and `pending-review.service.ts`. An
evaluation is one transaction over the roster; a resolution is another. What an
evaluation writes is staged until it commits. `evidence` stands for what the
check-ins amount to and may change at any time, since late check-ins are still
identified after the session. `resolve` checks the review by a read and then
updates by id; the model keeps that gap. PostgreSQL's deadlock detector and the
unique violation of a lost insert are `RollBackEvaluation` and
`RollBackResolution`.

### AttendanceVerdict

The loop of `presence-interval.service.ts` that pairs entries with exits, and
the branch of `evaluatePerson` that concludes. `rows` is any sequence of
check-ins ordered by time, ties in any order; each loop iteration is a step.
Proved for sequences of any length.

### IntrusionIncident

`security-ingestion`, `intrusion-detection` and `security-incident`. A detector
decides whether the crossing was authorized, looks for the open incident,
appends to it or inserts one; the partial unique index
(`1755849000000-AddIntrusionIncident.ts`) makes a second insert wait and then
lose, the savepoint lets the loser look up the winner. A closing request
updates the row only while its status is still open
(`security-incident.service.ts:81`), waiting for whoever holds the row.

### CheckinPipeline

`ingestion`, `app-checkin`, `identification` and, through
`Dedup == INSTANCE Deduplication`, the deduplication workers. A request stores
one raw event per idempotency key with `ON CONFLICT DO NOTHING` and sends its
job in the same transaction; identification resolves person and session and
does the same for the check-in.

What devices post is the constant `Envelope`, any subset of what
`validateEventData` lets through: the data of a tag or a head count has no
surplus fields, that of a custom event has any, among them the code of a factor
and a `classSessionId`. The latter decides the session if the event has no room
(`SessionsOf`, `identification.service.ts:79`); the foreign key then makes the
INSERT fail until that session exists. `CapturedDuringItsSession` is therefore
about the check-ins the server places, and exempts exactly those a custom event
places (`NamesItsSession`); section 7 has the comment this contradicts.

Abstractions: one student; the three recognition factors are one tag signal, a
head count is a signal about nobody; a custom event is about the holder of a tag;
all sessions are in one room; any key may be used by app or device; the person
and the session lookup, which read tables that change independently, are one
step; `refused` is any error answer.

### RefreshTokens

`mobile-auth.service.ts` and `refresh-token.service.ts`: the tokens of one
person. A refresh resolves the token without a lock, then locks its row and
decides: rotate (insert and revoke), revoke an expired one, or revoke the
family. The family's UPDATE selects the rows live when it starts, then waits
for them one by one and skips those that turn out to be revoked. `parent`
records, for the properties, which token each was issued for.

### MobileSession

`auth-context.tsx`, `api-client.ts` and `secure-token-storage.ts` of the app,
EXTENDing `RefreshTokens`. Each phone runs up to three coroutines (login,
refresh, logout), each waiting for one request; `AnswerLost` ends the wait while
the backend may still carry the request out; `Restart` kills all of them. A
save of the two tokens is one step: a kill between the two writes leaves the
old refresh token, as a kill before both does. Access tokens are abstracted to
the 401 that starts a refresh.

### MobileCheckin

`use-checkin.ts` and what it calls, for one student. An attempt is a coroutine
started by a tap (`Tap`), or by a mount or a foreground event (`Foreground`): it
reads the slot on disk, may save a new key (`MintKey`, `SaveKey`), and becomes a
mutation that is paused offline, sent, answered, and pending until its callbacks
have returned. `mine` is the mutation the mounted hook observes, the only one
the button knows; `IsMutating` sees all of them. A request outlives the app that
sent it: `NetworkError` leaves it under way or not, `Kill` loses the memory and
neither the slot nor the wire. The backend answers in one step, with the session
of its clock first (`Submit`); `CheckinPipeline` has the statements. `saved`,
`learned` and `overlap` are history: keys that were on disk, keys an answer was
received for, and whether an attempt began while another one had read the slot
and not yet submitted.

### AttendanceConfig

`tenant-config.service.ts`, `class-session.service.ts`, the configuration page
and the `config-set` script, for one class group: scope 1 is the class group, 2
its course, 3 the institution. The page saves a configuration and its factors in
two requests, each a transaction; the script in one. Updates hold their row,
inserts their unique-index entry (`1755759000000-...UniqueIndexes.ts`), until the
transaction ends. A DELETE of factors sees the rows committed when it begins and
waits for those another transaction is deleting. `createSession` reads one scope
after the other, then the factors, each read by itself; `EvaluateSession` uses
the copy. `asked` and `overlap` are history: the list of the last save of a
configuration, and the configurations whose factors two saves have set at once.
`best` is the most specific scope with a configuration when the request began.

### Dashboard

The frontend, for one browser tab. A page is a record of the queries it mounts,
the lookups its forms enable, and its other forms with what they write and which
query keys their `onSuccess` invalidates, all read off the page's component. A
resource is the number of times it was written, its copy in the cache the number
read. Queries mount, are polled, refetched on focus and invalidated as TanStack
Query does (external): an invalidation replaces a refetch in flight and does not
replace a first load. Every answer 401, to a query, a cancelled request, a form or a
login, drops the session. `missed` names the queries that the code does not read
again after a write of the person: their first load was in flight, or a wristband
was issued to somebody who is not looked up. `OwnWriteIsShown` exempts them.

Abstractions: permissions do not change; a form that is refused changes nothing;
the tab is visible, so its polling timer runs; the cache's five-minute
collection is left out; a request is judged with its token when it is answered.

### AreaAuthorization

`area.service.ts`, `wristband.service.ts`, `wristband-identity.service.ts`,
`area-authorization.service.ts` and `evaluateCandidate` of the detection, for the
scans of area readers (a barrier crossing asks nobody). A handler run reads the
wristband of the tag (`ResolveTag`), one area after the other up to the root
(`Climb`), and the permissions (`ReadPermissions`), each read by itself; its
verdict stands when it commits, and a failed run starts anew. Nothing is ever
deleted or moved, which is why each request of the staff is one action. `parent`
is a set of at most one area, and `None` a bound that is NULL. `before`, recorded
when a run begins, is history: what the tables then said of the scan. It and the properties
use `Containing`, a definition of containment that does not walk.
`IntrusionIncident` takes the verdict as given, either way.

No run of `PROJECT.json` checks this module: its properties are proved for every
campus and every number of scans. `MCAreaAuthorization.cfg` is a small instance
to try a change on before its proof (3 areas, which are a room, its corridor and
its block, or two blocks; 2 permissions, 1 scan; 0.4 M states, under a minute).

## 4. Runs

| Run | Instance | States | Shows |
|---|---|---|---|
| `dedup_safety` | 3 check-ins of one key at times 0, 8, 16, window 10, 2 workers, 1 retry, times up to shift and mirror image | 2.2 M | `NoPointerCycle`, `EveryKeyKeepsACanonical`, `CompletedBurstsCollapse`, `DuplicatesStayDuplicates` |
| `dedup_live` | 2 check-ins, 2 workers | 49 k | `EveryCheckinIsProcessed` |
| `pipeline` | 1 event, 2 requests, 2 identification workers, 1 deduplication worker, 2 sessions that overlap in an instant, 4 kinds of device events | 0.7 M | `OneAnswerCreates`, `CapturedDuringItsSession`, `AcceptedCheckinsCount`, `ImplementsDeduplication` |
| `decision_safety` | 1 student, 3 reviews, 2 evaluations, 2 resolutions | 0.8 M | `OneOpenReviewPerReason`, `PendingHasOpenReview`, `ResolutionStaysRecorded` |
| `decision_live` | 2 students, 2 reviews, 2 evaluations, 1 resolution | 40 k | `TransactionsEnd` |
| `decision_engine_overwrites` | 1 student, 2 reviews, 1 evaluation, 1 resolution | | violation: `EngineNeverOverwritesDecision` |
| `verdict` | up to 4 rows over 5 minutes, all factor sets | 0.5 M | `PairsAreNeighbours`, `TotalIsTimeInside`, `MissingExitMeansStillInside` |
| `incident` | 2 signals, 2 areas, 2 incidents, 2 detectors, 1 closing request, 2 staff, 1 retry | 0.6 M | `OneOpenIncident`, `CurrentAreaWasVisited`, `CompletedCrossingsAreCorrelated`, `ClosureIsFinal` |
| `mobile` | 2 phones, 2 requests, 3 tokens, all may expire | 0.6 M | `OneSuccessor`, `ReuseRevokesWhatItSaw`, `SingleFlightKeepsSession` |
| `checkin` | 2 attempts, 2 keys, a class and then none, 2 faults | 0.5 M | `UnansweredIsKept`, `OneSubmissionAtATime`, `PendingIsSettled` |
| `config` | 2 administrators, 2 configurations, 2 rules, 1 factor, 1 session, 3 saves | 1.2 M | `ResolvesMostSpecific`, `SameRulesEveryTime`, `FactorsAreLastSaved` |
| `dashboard` | 15 pages, 20 queries, 18 forms, 1 login, 1 form, 1 write of a colleague, 2 navigations, 1 fault | 0.7 M | `OwnWriteIsShown`, `ClosedIsShown` |

Every pass run also checks the type invariant of its modules.

Why the bounds are enough for the cases that matter:

- Three check-ins are the smallest chain in which the row others point at
  becomes a duplicate; times 0, 8, 16 make neighbours duplicates and the ends
  not. Two workers are the smallest race; one retry makes a job run twice.
- Two evaluations and two resolutions race pairwise in every way; three reviews
  allow one per reason and one that a race would add. One student is enough for
  safety since the rows of students are independent; `decision_live` takes two,
  so that evaluations can lock them in opposite orders.
- Four rows hold two pairs, or a pair among unpaired rows; five instants allow
  ties and gaps. The proofs cover every length.
- Two incidents let one be closed while another is opened by a stale detector.
  One closing request races the detectors; two of them race each other with one
  detector in half a minute by hand (`Closer = {q1, q2}`, `Detector = {d1}`), and
  in the proof without bounds.
- One event with two requests and two workers is the smallest duplicated
  submission and the smallest duplicated job. More events multiply independent
  copies, except in the window of deduplication, which `dedup_safety` checks.
  The envelopes are a tag read in the room, a head count, and a custom event that
  names a session of another time, with a room and without one.
- Two attempts are a submission and the retry or tap that could run beside it;
  two faults are a lost answer and a kill, or a drop of the network and a kill.
- Two configurations cover every pair of scopes; three saves are a first
  configuration, its factors, and one that races either. One factor is enough to
  tell the old list from the new one.
- One form, one write of a colleague and two navigations are a write on one page
  and its look on another, there and back; `Carries` keeps the routes between
  pages that share a query, and through the home page all others. A second form
  or login would repeat the first on another page. The person lacks the
  permissions to view cameras, so one query is refused.
- Three tokens are a login, its rotation and a second rotation or login; two
  requests are the smallest race on a row.

`CHECK_DEADLOCK FALSE` everywhere: identifiers and retries are bounded, and the
system may rest with every job done.

Symmetry is declared over sets of interchangeable identifiers only, in runs
without liveness.

## 5. Fairness

`dedup_live`, `decision_live`, `checkin` and `dashboard` assume some. The backend's processes are
polled by pg-boss and their statements return: strong fairness of the handler
steps stands for a database that grants a lock that keeps becoming free
(PostgreSQL queues waiters), weak fairness of expiration for pg-boss's
maintenance. Nothing forces a check-in, an evaluation or a failure to occur,
and nothing forbids failures; retries are bounded, so a job ends completed or
failed. In `decision_live` a transaction that waits in a cycle, or whose insert
has lost to a committed row, is rolled back: that is PostgreSQL's deadlock
detector and its unique violation.

In `checkin` the event loop runs what is ready, the backend answers, a lost
network comes back and the app is opened again, which is what a pending
check-in waits for; nobody has to tap, and faults are bounded. In `dashboard`
only the poll's timer and the answers to the incident's query are fair.

The pipeline and the phones' sessions are checked for safety only: a fair
version of the pipeline adds nothing to `dedup_live` but size, and nobody
obliges a phone to refresh.

## 6. Proofs

Each `*Proofs` module EXTENDS the modules it is about. Assumptions are the named
`...Assumption` of the modules, all of them about constants: NULL is no
identifier and no row, sets of processes are disjoint, bounds are naturals,
windows and scheduled times have their types, devices post what validation lets
through, minutes have no gaps, the events are finitely many, and the dashboard
has a token for a login.

- `DeduplicationProofs`: every invariant of `dedup_safety` and
  `DuplicatesStayDuplicates`, for any number of check-ins, keys, workers and
  retries. The properties are not inductive: the strengthening says what a
  worker holding the advisory lock knows (its candidate is canonical, in the
  window, and stays so while the lock is held), that locks exclude one another,
  and that a pointer leads to a row that was canonical when it was set. Cycles
  are excluded since a row marked duplicate was canonical until then and every
  row it may point at is a different canonical one.
- `AttendanceRulesProofs`, of both halves of the rules. Of `AttendanceVerdict`,
  the loop invariant relates `openEntryAt` to the last row read; from it, exactly
  neighbouring pairs are closed, intervals come in order, and a missing exit is
  reported exactly for those still inside. `TotalIsTimeInside` is about a sum
  over any number of intervals, which calls for an induction; the loop provides
  it: each step keeps that there is a table of the sums of the first intervals
  and that the last entry of every such table counts the minutes inside the pairs
  so far (`TotalTracked`), so the table `reduce` computes does.

  Of `AttendanceDecision`, every invariant of `decision_safety`, for any
  roster and any number of evaluations and resolutions, and `RecordsStay`: no
  step loses a status or a review, or forgets that it was decided. What
  carries it: a status is staged under its row's lock, so a student an
  evaluation has reached is out of reach of the others; a staged pending status
  has its review committed, staged beside it or about to be looked for; a staged
  review is new, of a student already visited, and the only open one of its
  student and reason. A resolver has the same lock when it commits, hence
  it cannot close a review an evaluation counts on. `OneOpenReviewPerReason`
  rests on no unique index: the table has none.
- `IntrusionIncidentProofs`: a detector that has inserted an incident knows no
  other is open, an uncommitted incident has one owner, a closer past its WHERE
  clause holds the row's lock.
- `CheckinPipelineProofs`: every invariant of `pipeline`, and `Refinement`:
  every step of the pipeline is a step of `Deduplication` or changes nothing
  there. One request has the uncommitted row of a key, and `created` is said by
  the one that committed it; a stored event is sound (only a custom one can name
  a session of another time), a handler about to insert knows that its session
  holds the capture time or is the one such an event names, and before its
  COMMIT there is no check-in of its event. The COMMIT is `CommitIdentification`
  since its start time is on no other row: each delivery starts a transaction at
  the next instant, so the start times differ, and the clock counts deliveries
  (`ClockCounts`, a cardinality), so that the bound on the clock never keeps a
  job from running.
- `MobileAppProofs`, of both halves of the app: of the backend (`RefreshTokens`), row locks exclude one
  another; an uncommitted token is known to one transaction; the token a pending
  rotation replaces is live and locked by it; each row of a family's UPDATE is
  still to be visited, or locked, or revoked. From these follow `OneSuccessor`
  and `ReuseRevokesWhatItSaw`. A phone stores only committed tokens, so the steps
  of any number of phones preserve them. `SingleFlightKeepsSession` needs what
  is true while `calm`: each coroutine awaits a request of its own, a token is
  stored on one phone at most, it is live unless the phone's own refresh has
  just replaced it, and no other request presents it; one refresh per phone is
  what keeps that last part true.

  Of `MobileCheckin`, all three invariants, and `SavedBeforeSent`: a key is on
  disk before the backend may receive it. Without overlap one attempt is at work
  and a tap has the app to itself; an attempt that has read the slot, or submits
  what was in it, therefore has the one key nobody was told the outcome of, and
  when a new key is about to be written there is no such key.
- `AttendanceConfigProofs`: every property of `config`. The
  strengthening says what a transaction knows between two statements: the row
  it has found is committed and committed rows keep their scope; the row it has
  inserted is invisible, and no committed row and no other uncommitted one has
  its scope (the unique index), which is why two first saves of a scope cannot
  both commit. Outside the recorded overlaps one transaction sets the factors
  of a configuration and the rows its DELETE saw are all there are, so its
  commit leaves exactly its list. A session still looking has not passed the
  best scope, where a row exists for good.
- `AreaAuthorizationProofs`: the three invariants of the module, `TypeOK`,
  `AuthorizedIsPermitted` and `EntitledIsNoIntruder`. The areas visited, and
  the next one, contain the scan's, and only the next one is missing among their
  parents; at the root the visited areas are therefore all that contain it. What
  the staff do only adds to the areas that contain an area and to what is
  permitted, so what held when a run began still holds when it judges.

- `DashboardProofs`: both invariants of `dashboard`. `OwnWriteIsShown` is about
  what is mounted, and a page mounts what another one left in the cache; the
  strengthening `Shown` is therefore about every query: a request in flight
  began after the last write the tab was told of, and a copy that is on the
  screen, or may be used without being read again, shows that write. A success
  keeps it because each form invalidates what it writes, which is proved page by
  page (`FormsOfPages`), and because a query it does not read again is stale,
  missed or not mounted. An answer cannot be newer than what is stored
  (`CacheOK`); versions stay in their bound since writes still to come are
  counted by the ids of the forms without an answer, which differ (`FormsOK`).
  That a form belongs to the open page needs the life of the session: nothing
  else happens while a reload's token is judged (`Starting`), and the login page
  is open exactly while nobody is signed in (`Signed`).

Before its proof, TLC checked each strengthened invariant: on the instances of
the runs, and of `decision_safety` with two students, of `pipeline` with two
events and one worker (4 M states, stopped before the end), of `mobile` with
three requests (1.3 M states, stopped before the end), of `checkin` with three
attempts and one fault (7.7 M states), of `dashboard` with two forms and neither
colleagues nor faults (0.4 M states).

Only model-checked: the liveness properties `EveryCheckinIsProcessed`,
`TransactionsEnd`, `PendingIsSettled` and `ClosedIsShown` (fairness and ENABLED
are out of the prover's reach).

## 7. Where code and comments disagree

Shown by a run: an evaluation can overwrite a decision committed between its
check and its update (`decision_engine_overwrites`).

Shown by hand, on the instance of `pipeline` with another configuration: a device
event need not resolve by room and time. `identification.service.ts:76` says
"Device-originated events keep resolving by room+time exactly as before", but
lines 81-82 take `data.classSessionId` of any event without a room, and the data
of a custom event is open (`event-data.validator.ts:35`) and stored as it was
posted (`ingestion.service.ts:28`). Such an event is placed in any session that
exists, whenever it was captured, as a check-in of whichever factor its code
names. `MCCheckinPipelineCustom.cfg` checks `DeviceEventsResolveByRoom`, which
states the comment; TLC finds the counterexample in seconds.

Seen while modelling, and not the subject of a run:

- A review can be resolved twice: `resolved_at` is read, then the UPDATE names
  only the id (`pending-review.service.ts:98`, 117), though line 99 says a
  resolved review stays resolved. The second decision replaces the first.
- An evaluation reads the factors and the room rows by two statements: a check-in
  committed in between is missing from the first and present in the second, until
  the next evaluation (`attendance-rules-engine.service.ts:133`).
- A session that requires only ROOM_EXIT marks everybody present, a student
  without check-ins too (`attendance-rules-engine.service.ts:128`); nothing
  refuses the configuration.
- Logging out of the app during a refresh leaves its tokens in the storage
  (`api-client.ts:121`), and the next start is logged in.
- Two overlapping taps before the first has saved its key mint two keys. The
  slot is not emptied by a logout: the check-in of one person is sent by the
  next one who logs in on the phone. A tap in a later class that finds the key of
  an earlier one is told that it was already recorded, while nothing is recorded
  for this class (`use-checkin.ts:65`). An answer 401 empties the slot.
- A session created between the two requests of the configuration page has no
  required factors; overlapping saves of factors can leave the union of both
  lists; a session can copy the rules of one save and the factors of another.
  A configuration of the institution with a `scopeId` is accepted and never
  found. The page's second form starts with nothing checked, whatever is stored.
- The dialog with a device's key, which `api-key-reveal-modal.tsx:9` lets close
  by its checkbox only, disappears with the page (the browser's Back, or any
  refetch that is answered 401), and never opens when the page was left before
  the answer.
- The query cache outlives a logout. A network failure at startup logs out. A
  late 401 of an old session drops a newer one, and so does a wrong password.
  An invalidation during a first load is lost; issuing a wristband refreshes only
  the person typed in the lookup; permissions are those of the last login or
  reload.
- Which of two duplicates is canonical depends on which job runs first, not on
  which was received first. A chain of duplicates may point at a row that is
  itself a duplicate.
- A redelivered detect-intrusion job appends a second location entry. The loser
  of the race to open an incident adds its entry without moving
  `current_area_id` (`intrusion-detection.service.ts:171`), and a detector may
  append to an incident that was closed after it was found (line 123).
- A scan captured before its wristband was revoked and judged after is an
  intrusion, while a permission granted after the capture excuses it if its
  window covers it (`intrusion-detection.service.ts:70`).
- A refresh that is uncommitted while a reuse revokes the family escapes that
  revocation. A logout that reaches the backend before the phone's own refresh
  makes that refresh a reuse.
- A server error or a 429 on refresh logs the phone out like a rejection.
- An app check-in stored at the end of a class and resent after it is answered
  422, although it counts: the session is looked up before the key.
- Resolving one of two open reviews of a student leaves the other open, and
  resolving that one replaces the decision.

## 8. Not modelled

- Facial matching, and the shape of payloads beyond what decides the factor and
  the session of an event: it chooses among the signals the pipeline has.
- What `validate()` of the configuration refuses: it changes nothing.
- Device keys: a stateless check of one row.
- The handlers of person, class group, course, room, camera, device and
  permission group management: single-row writes and a few
  inserts in one transaction, guarded by constraints of the schema. Their pages
  are in `Dashboard`, where a handler commits or refuses.
- What the SQL of registers and schedules computes: reads.
- Isolation of tenants: PostgreSQL's row-level security.
- The creation of wristband categories, a single insert.
- The rewriting of `presence_interval`, whose rows no decision reads.
- The tolerance and post-tolerance snapshots of a session: no rule reads them.

## 9. Running

    tlc -config MCDeduplication.cfg MCDeduplication
    tlapm DeduplicationProofs.tla
    tlc -config MCAreaAuthorization.cfg MCAreaAuthorization
    tlc -config MCCheckinPipelineCustom.cfg MCCheckinPipeline

Each run of `PROJECT.json` names its module and configuration; the last two
commands above are the instances that are not among them, and the very last ends
with a counterexample. The longest run
takes a few minutes with two workers; runs marked violation end with a
counterexample.
