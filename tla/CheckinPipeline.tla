-------------------------- MODULE CheckinPipeline --------------------------
(***************************************************************************)
(* From a signal to a deduplicated check-in, for one student.              *)
(*                                                                         *)
(*   - devices post events (ingestion.service.ts) and the mobile app posts *)
(*     check-ins (app-checkin.service.ts): each request stores at most one *)
(*     raw event per idempotency key, with its identify-event job;         *)
(*   - identification workers (identification.service.ts) turn a raw event *)
(*     into a row of identification_checkin, with its deduplicate job;     *)
(*   - deduplication workers are those of module Deduplication.            *)
(*                                                                         *)
(* Meanwhile staff plan class sessions and revoke the student's wristband, *)
(* and time passes.  Requests and handlers are transactions of several     *)
(* statements that interleave, fail, and are resent or redelivered.        *)
(***************************************************************************)
EXTENDS Integers, FiniteSets

CONSTANTS
  Event,               \* idempotency keys; each names the raw event stored under it
  Session,             \* class sessions, all in one room and for this student
  Scheduled,           \* scheduled start and end of each session
  CustomFactor,        \* factor types the code of a custom event can name
  Envelope,            \* what devices post
  MaxTime,             \* bound on the clock
  Request,             \* requests the clients send, resends included (a bound)
  Identifier,          \* backend processes polling the identify-event queue
  Worker,              \* backend processes polling the deduplicate-checkin queue
  IdentifyRetryLimit,  \* redeliveries of an identify-event job
  RetryLimit,          \* redeliveries of a deduplicate-checkin job
  Window,              \* deduplication window of each correlation key
  None                 \* SQL's NULL, and "no row"

Time  == 0 .. MaxTime
Stamp == 1 .. Cardinality(Event) * (IdentifyRetryLimit + 1)

\* What a request is about: an app check-in, a tag read (tag, entry and exit
\* alike), a factor the institution defined, or a camera's head count.
Signal == {"app", "tag", "custom", "count"}

Factor == {"app", "tag"} \cup CustomFactor

\* Correlation keys: the factor type and the class session.
Key == Factor \X (Session \cup {None})

(***************************************************************************)
(* A stored event: whether it names the room, in which all the sessions    *)
(* are, and the session its data names.  A head count and the code of an   *)
(* unknown factor both have factor None.                                   *)
(***************************************************************************)
RawEvent == [signal : Signal, factor : Factor \cup {None}, room : BOOLEAN,
             capturedAt : Time, session : Session \cup {None}]

\* What validateEventData lets through: the data of a custom event is open,
\* that of the others has nothing but what is expected.
ValidEnvelope ==
  {raw \in RawEvent :
     \/ raw.signal = "tag" /\ raw.factor = "tag" /\ raw.session = None
     \/ raw.signal = "count" /\ raw.factor = None /\ raw.session = None
     \/ raw.signal = "custom" /\ raw.factor \in CustomFactor \cup {None}}

ASSUME CheckinPipelineAssumption ==
  /\ MaxTime \in Nat
  /\ IsFiniteSet(Event)
  /\ Envelope \subseteq ValidEnvelope
  /\ Scheduled \in [Session -> [start : Time, end : Time]]
  /\ IdentifyRetryLimit \in Nat /\ RetryLimit \in Nat
  /\ Window \in [Key -> Nat]
  /\ None \notin Event \cup Session \cup RawEvent \cup Time \cup Stamp \cup Key \cup Worker
                   \cup Factor

VARIABLES
  now,          \* the server's clock
  planned,      \* the class_session rows
  wristband,    \* status of the student's wristband
  step,         \* next statement of each request, or its answer
  sent,         \* idempotency key of each request
  payload,      \* the raw event each request wants stored
  event,        \* raw_identification_event by idempotency key
  identify,     \* the identify-event queue
  clock,        \* number of transaction start times handed out
  ipc,          \* next statement of each identification handler
  itask,        \* the raw event each was handed
  startedAt,    \* start time of its transaction
  resolved,     \* class session it found

  \* identification_checkin and the deduplication stage: see Deduplication
  key, checkinAt, createdAt, duplicateOf, queue, lock, pc, task, canonical

campusVars  == <<now, planned, wristband>>
requestVars == <<step, sent, payload>>
identVars   == <<clock, ipc, itask, startedAt, resolved>>
rowVars     == <<key, checkinAt, createdAt>>
dedupVars   == <<rowVars, duplicateOf, queue, lock, pc, task, canonical>>
vars == <<campusVars, requestVars, event, identify, identVars, dedupVars>>

Identify == INSTANCE JobQueue
              WITH Job <- Event, RetryLimit <- IdentifyRetryLimit, queue <- identify
Dedup    == INSTANCE Deduplication WITH Checkin <- Event

Answer      == {"created", "duplicate", "refused"}
RequestStep == {"new", "resolve", "insert", "commit"} \cup Answer
IdentStep   == {"idle", "correlate", "insert", "commit", "done"}

TypeOK ==
  /\ now \in Time
  /\ planned \subseteq Session
  /\ wristband \in {"active", "inactive"}
  /\ step \in [Request -> RequestStep]
  /\ sent \in [Request -> Event \cup {None}]
  /\ payload \in [Request -> RawEvent \cup {None}]
  /\ event \in [Event -> RawEvent \cup {None}]
  /\ Identify!QueueTypeOK
  /\ clock \in Stamp \cup {0}
  /\ ipc \in [Identifier -> IdentStep]
  /\ itask \in [Identifier -> Event \cup {None}]
  /\ startedAt \in [Identifier -> Stamp \cup {None}]
  /\ resolved \in [Identifier -> Session \cup {None}]
  /\ Dedup!TypeOK

Init ==
  /\ now = 0
  /\ planned = {}
  /\ wristband = "active"
  /\ step = [r \in Request |-> "new"]
  /\ sent = [r \in Request |-> None]
  /\ payload = [r \in Request |-> None]
  /\ event = [e \in Event |-> None]
  /\ Identify!QueueInit
  /\ clock = 0
  /\ ipc = [i \in Identifier |-> "idle"]
  /\ itask = [i \in Identifier |-> None]
  /\ startedAt = [i \in Identifier |-> None]
  /\ resolved = [i \in Identifier |-> None]
  /\ Dedup!Init

-----------------------------------------------------------------------------
\* The campus around the pipeline.

Tick ==
  /\ now < MaxTime
  /\ now' = now + 1
  /\ UNCHANGED <<planned, wristband, requestVars, event, identify, identVars, dedupVars>>

\* createSession, at any time before or after the session itself.
PlanSession(s) ==
  /\ s \notin planned
  /\ planned' = planned \cup {s}
  /\ UNCHANGED <<now, wristband, requestVars, event, identify, identVars, dedupVars>>

\* For good: tag_code stays unique, so a revoked tag is not issued again.
RevokeWristband ==
  /\ wristband = "active"
  /\ wristband' = "inactive"
  /\ UNCHANGED <<now, planned, requestVars, event, identify, identVars, dedupVars>>

InProgress(t) == {s \in planned : Scheduled[s].start <= t /\ t <= Scheduled[s].end}

-----------------------------------------------------------------------------
\* The requests.

Received(r, e, raw, next) ==
  /\ step[r] = "new"
  /\ step' = [step EXCEPT ![r] = next]
  /\ sent' = [sent EXCEPT ![r] = e]
  /\ payload' = [payload EXCEPT ![r] = raw]
  /\ UNCHANGED <<campusVars, event, identify, identVars, dedupVars>>

Answered(r, answer) ==
  /\ step' = [step EXCEPT ![r] = answer]
  /\ payload' = [payload EXCEPT ![r] = None]

\* An error answer: the transaction, if any, rolls back.
Refused(r) ==
  /\ Answered(r, "refused")
  /\ sent' = [sent EXCEPT ![r] = None]
  /\ UNCHANGED <<campusVars, event, identify, identVars, dedupVars>>

\* POST of a device: the envelope carries a time of the device's own clock.
\* What validateEventData refuses goes no further.
ReceiveEnvelope(r, e, raw) == Received(r, e, raw, "insert")

RefuseEnvelope(r) ==
  /\ step[r] = "new"
  /\ Refused(r)

(***************************************************************************)
(* POST of the app: the server's clock is read on arrival, and the session *)
(* is the only one in progress at that moment; none or several is a 422.   *)
(***************************************************************************)
ReceiveCheckin(r, e) ==
  Received(r, e, [signal |-> "app", factor |-> "app", room |-> FALSE,
                  capturedAt |-> now, session |-> None], "resolve")

\* A mutant of ActiveSessions: the clock is read again by the query.
ActiveSessionsNow(r) == InProgress(now)

ActiveSessions(r) == InProgress(payload[r].capturedAt)

ResolveActiveSession(r) ==
  /\ step[r] = "resolve"
  /\ \E s \in ActiveSessions(r) :
       /\ ActiveSessions(r) = {s}
       /\ step' = [step EXCEPT ![r] = "insert"]
       /\ payload' = [payload EXCEPT ![r].session = s]
       /\ UNCHANGED <<campusVars, sent, event, identify, identVars, dedupVars>>

RejectCheckin(r) ==
  /\ step[r] = "resolve"
  /\ Cardinality(ActiveSessions(r)) # 1
  /\ Refused(r)

\* A mutant of KeyBusy: no unique index makes the second request wait.
KeyNeverBusy(r) == FALSE

\* Another transaction has an uncommitted row of the same idempotency key.
KeyBusy(r) == \E q \in Request \ {r} : sent[q] = sent[r] /\ step[q] = "commit"

(***************************************************************************)
(* INSERT ... ON CONFLICT DO NOTHING: waits for an uncommitted row of the  *)
(* same key.  A row found there is the event the answer names.             *)
(***************************************************************************)
InsertEvent(r) ==
  /\ step[r] = "insert"
  /\ ~KeyBusy(r)
  /\ \/ /\ event[sent[r]] = None
        /\ step' = [step EXCEPT ![r] = "commit"]
        /\ UNCHANGED payload
     \/ /\ event[sent[r]] # None
        /\ Answered(r, "duplicate")
  /\ UNCHANGED <<campusVars, sent, event, identify, identVars, dedupVars>>

\* The raw event and its identify-event job become visible together.
CommitEvent(r) ==
  /\ step[r] = "commit"
  /\ event' = [event EXCEPT ![sent[r]] = payload[r]]
  /\ identify' = [identify EXCEPT ![sent[r]].state = "waiting"]
  /\ Answered(r, "created")
  /\ UNCHANGED <<campusVars, sent, identVars, dedupVars>>

\* The transaction rolls back; the client knows no more than that.
FailRequest(r) ==
  /\ step[r] \in {"resolve", "insert", "commit"}
  /\ Refused(r)

-----------------------------------------------------------------------------
\* The identification handler.

Goto(i, next) == ipc' = [ipc EXCEPT ![i] = next]

Raw(i) == event[itask[i]]

\* An idle worker is handed a job and opens its transaction.
FetchEvent(i, e) ==
  /\ ipc[i] = "idle"
  /\ Identify!Deliver(e)
  /\ Goto(i, "correlate")
  /\ itask' = [itask EXCEPT ![i] = e]
  /\ clock' = clock + 1
  /\ startedAt' = [startedAt EXCEPT ![i] = clock + 1]
  /\ UNCHANGED <<campusVars, requestVars, event, resolved, dedupVars>>

(***************************************************************************)
(* An event without a factor is about nobody; an app check-in carries its  *)
(* person; a tag is looked up among the wristbands active now.             *)
(***************************************************************************)
Known(i) ==
  /\ Raw(i).factor # None
  /\ Raw(i).signal = "app" \/ wristband = "active"

\* By room and time among the sessions planned by now: any of them if they
\* overlap (getOne without an order).
SessionsInRoom(t) == IF InProgress(t) = {} THEN {None} ELSE InProgress(t)

\* A mutant of SessionsOf: every event is placed by room and time.
SessionsByRoom(i) == SessionsInRoom(Raw(i).capturedAt)

(***************************************************************************)
(* An event that names the room is placed by room and time.  Any other is  *)
(* in the session its data names, if any: for an app check-in, the one     *)
(* chosen when it was received; for a custom event, whatever was posted.   *)
(***************************************************************************)
SessionsOf(i) ==
  IF Raw(i).room THEN SessionsInRoom(Raw(i).capturedAt) ELSE {Raw(i).session}

(***************************************************************************)
(* The lookups of processRawEvent.  Person and session come from tables    *)
(* that change independently, so one step stands for the two queries.      *)
(***************************************************************************)
Correlate(i) ==
  /\ ipc[i] = "correlate"
  /\ \/ /\ Known(i)
        /\ \E s \in SessionsOf(i) : resolved' = [resolved EXCEPT ![i] = s]
        /\ Goto(i, "insert")
     \/ /\ ~Known(i)
        /\ Goto(i, "done")
        /\ UNCHANGED resolved
  /\ UNCHANGED <<campusVars, requestVars, event, identify, clock, itask, startedAt,
                 dedupVars>>

\* Another run of the same job has an uncommitted check-in.
CheckinBusy(i) == \E j \in Identifier \ {i} : itask[j] = itask[i] /\ ipc[j] = "commit"

(***************************************************************************)
(* INSERT ... ON CONFLICT (raw_identification_event_id) DO NOTHING.  The   *)
(* foreign key wants a class_session row: without one the INSERT fails     *)
(* (FailIdentification), until the session is planned.                     *)
(***************************************************************************)
InsertCheckin(i) ==
  /\ ipc[i] = "insert"
  /\ ~CheckinBusy(i)
  /\ \/ Dedup!Committed(itask[i]) /\ Goto(i, "done")
     \/ ~Dedup!Committed(itask[i]) /\ resolved[i] \in planned \cup {None} /\ Goto(i, "commit")
  /\ UNCHANGED <<campusVars, requestVars, event, identify, clock, itask, startedAt,
                 resolved, dedupVars>>

CheckinRow(i) ==
  /\ key' = [key EXCEPT ![itask[i]] = <<Raw(i).factor, resolved[i]>>]
  /\ checkinAt' = [checkinAt EXCEPT ![itask[i]] = Raw(i).capturedAt]
  /\ createdAt' = [createdAt EXCEPT ![itask[i]] = startedAt[i]]

\* The check-in and its deduplicate-checkin job become visible together.
CommitCheckin(i) ==
  /\ ipc[i] = "commit"
  /\ CheckinRow(i)
  /\ queue' = [queue EXCEPT ![itask[i]].state = "waiting"]
  /\ Goto(i, "done")
  /\ UNCHANGED <<campusVars, requestVars, event, identify, clock, itask, startedAt,
                 resolved, duplicateOf, lock, pc, task, canonical>>

Stop(i) ==
  /\ Goto(i, "idle")
  /\ itask' = [itask EXCEPT ![i] = None]
  /\ startedAt' = [startedAt EXCEPT ![i] = None]
  /\ resolved' = [resolved EXCEPT ![i] = None]

AcknowledgeEvent(i) ==
  /\ ipc[i] = "done"
  /\ Identify!Complete(itask[i])
  /\ Stop(i)
  /\ UNCHANGED <<campusVars, requestVars, event, clock, dedupVars>>

\* A mutant of LostWork: the check-in is not part of the transaction.
LostJobOnly(i) ==
  /\ IF ipc[i] = "commit" THEN CheckinRow(i) ELSE UNCHANGED rowVars
  /\ UNCHANGED <<duplicateOf, queue, lock, pc, task, canonical>>

\* A transaction that rolls back leaves neither a row nor a job.
LostWork(i) == UNCHANGED dedupVars

FailIdentification(i) ==
  /\ ipc[i] # "idle"
  /\ Stop(i)
  /\ LostWork(i)
  /\ UNCHANGED <<campusVars, requestVars, event, identify, clock>>

GiveEventBack(e) ==
  /\ Identify!Release(e)
  /\ UNCHANGED <<campusVars, requestVars, event, identVars, dedupVars>>

-----------------------------------------------------------------------------
CampusNext ==
  \/ Tick
  \/ \E s \in Session : PlanSession(s)
  \/ RevokeWristband

RequestNext(r) ==
  \/ \E e \in Event, raw \in Envelope : ReceiveEnvelope(r, e, raw)
  \/ RefuseEnvelope(r)
  \/ \E e \in Event : ReceiveCheckin(r, e)
  \/ ResolveActiveSession(r)
  \/ RejectCheckin(r)
  \/ InsertEvent(r)
  \/ CommitEvent(r)
  \/ FailRequest(r)

IdentifierStep(i) ==
  \/ Correlate(i)
  \/ InsertCheckin(i)
  \/ CommitCheckin(i)
  \/ AcknowledgeEvent(i)

DedupNext ==
  /\ \/ \E w \in Worker, e \in Event : Dedup!Fetch(w, e)
     \/ \E w \in Worker : Dedup!HandlerStep(w)
     \/ \E w \in Worker : Dedup!Fail(w)
     \/ \E e \in Event : Dedup!GiveBack(e)
  /\ UNCHANGED <<campusVars, requestVars, event, identify, identVars>>

Next ==
  \/ CampusNext
  \/ \E r \in Request : RequestNext(r)
  \/ \E i \in Identifier, e \in Event : FetchEvent(i, e)
  \/ \E i \in Identifier : IdentifierStep(i)
  \/ \E i \in Identifier : FailIdentification(i)
  \/ \E e \in Event : GiveEventBack(e)
  \/ DedupNext

Spec == Init /\ [][Next]_vars

-----------------------------------------------------------------------------
(***************************************************************************)
(* What deduplication takes for granted is what identification delivers:   *)
(* a check-in appears once, whole and together with its job, whatever runs *)
(* twice or rolls back.  The composition implements module Deduplication.  *)
(***************************************************************************)
ImplementsDeduplication == Dedup!Spec

(***************************************************************************)
(* A client that got an answer can forget its submission: the event it     *)
(* names is stored, and of all the resends exactly one was told that it    *)
(* created it, so racing resends never store two.                          *)
(***************************************************************************)
OneAnswerCreates ==
  /\ \A r \in Request :
       step[r] \in {"created", "duplicate"} => event[sent[r]] # None
  /\ \A e \in Event : event[e] # None =>
       Cardinality({r \in Request : sent[r] = e /\ step[r] = "created"}) = 1

\* A custom event with no room, whose check-in is in the session it names.
NamesItsSession(e) ==
  event[e].signal = "custom" /\ ~event[e].room /\ key[e][2] = event[e].session

(***************************************************************************)
(* Attendance is recorded where it happened: a check-in the server placed  *)
(* in a class session was captured during that session, however late it is *)
(* processed and whatever sessions are planned meanwhile.  Of a custom     *)
(* event without a room the server only checks that the session it names   *)
(* exists.                                                                 *)
(***************************************************************************)
CapturedDuringItsSession ==
  \A e \in Event : Dedup!Committed(e) /\ key[e][2] # None /\ ~NamesItsSession(e) =>
    /\ Scheduled[key[e][2]].start <= checkinAt[e]
    /\ checkinAt[e] <= Scheduled[key[e][2]].end

(***************************************************************************)
(* identification.service.ts:76, of events that are no app check-ins:      *)
(* "Device-originated events keep resolving by room+time exactly as        *)
(* before".  Not so for a custom event that names a session.               *)
(***************************************************************************)
DeviceEventsResolveByRoom ==
  \A e \in Event : Dedup!Committed(e) /\ event[e].signal # "app" /\ key[e][2] # None =>
    /\ Scheduled[key[e][2]].start <= checkinAt[e]
    /\ checkinAt[e] <= Scheduled[key[e][2]].end

(***************************************************************************)
(* The student who was told "checked in" is: a processed app check-in has  *)
(* a row, in the session it was accepted for, even if the student has no   *)
(* wristband and other sessions overlap by the time it is processed.       *)
(***************************************************************************)
AcceptedCheckinsCount ==
  \A e \in Event :
    identify[e].state = "completed" /\ event[e].signal = "app" =>
      key[e] = <<"app", event[e].session>>
=============================================================================
