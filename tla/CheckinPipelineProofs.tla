----------------------- MODULE CheckinPipelineProofs -----------------------
(***************************************************************************)
(* Proofs about the pipeline from a signal to a check-in, for any number   *)
(* of events, requests, workers and retries and any plan of sessions: its  *)
(* invariants, and that it implements Deduplication.                       *)
(***************************************************************************)
EXTENDS CheckinPipeline, FiniteSetTheorems, TLAPS

Committed(e) == key[e] # None

\* Instant t is one of session s, if there is a session.
Within(t, s) == s # None => Scheduled[s].start <= t /\ t <= Scheduled[s].end

\* Session s is one of the time of raw, or the one a custom event names.
Placed(raw, s) ==
  \/ Within(raw.capturedAt, s)
  \/ raw.signal = "custom" /\ ~raw.room /\ s = raw.session

\* Only a custom event can name a session of another time.
Sound(raw) ==
  /\ raw.signal # "custom" => Within(raw.capturedAt, raw.session)
  /\ raw.signal = "app" => raw.factor = "app" /\ ~raw.room

(***************************************************************************)
(* What holds of a request: the event it wants stored is sound, nobody has *)
(* stored it while the INSERT is pending, and it is stored once the answer *)
(* says so.                                                                *)
(***************************************************************************)
RequestOK(r) ==
  /\ step[r] \in {"resolve", "insert", "commit"} =>
       /\ sent[r] \in Event /\ payload[r] \in RawEvent
       /\ Sound(payload[r])
  /\ step[r] = "commit" => event[sent[r]] = None
  /\ step[r] \in {"created", "duplicate"} => sent[r] \in Event /\ event[sent[r]] # None

\* One uncommitted row per idempotency key, and one request that created it.
OneWriter ==
  \A r, q \in Request :
    /\ sent[r] = sent[q]
    /\ step[r] = step[q] /\ step[r] \in {"commit", "created"}
    => r = q

(***************************************************************************)
(* What holds of a raw event, its job, and the check-in made of it.        *)
(***************************************************************************)
EventOK(e) ==
  /\ event[e] # None => Sound(event[e])
  /\ event[e] # None => \E r \in Request : sent[r] = e /\ step[r] = "created"
  /\ identify[e].state # "unsent" => event[e] # None
  /\ queue[e].state = "unsent" <=> ~Committed(e)
  /\ createdAt[e] # None => createdAt[e] \in 1 .. clock
  /\ Committed(e) =>
       /\ event[e] # None
       /\ checkinAt[e] = event[e].capturedAt /\ Placed(event[e], key[e][2])
       /\ event[e].signal = "app" => key[e] = <<"app", event[e].session>>
  /\ identify[e].state = "completed" /\ event[e].signal = "app" => Committed(e)

(***************************************************************************)
(* What holds of a handler between two statements: its event is stored,    *)
(* its transaction has a start time no row carries, the session it found   *)
(* is one of the event's time, and before its COMMIT there is no row.      *)
(***************************************************************************)
HandlerOK(i) ==
  /\ ipc[i] # "idle" =>
       itask[i] \in Event /\ event[itask[i]] # None /\ startedAt[i] \in 1 .. clock
  /\ ipc[i] \in {"correlate", "insert", "commit"} =>
       \A e \in Event : createdAt[e] # startedAt[i]
  /\ ipc[i] \in {"insert", "commit"} =>
       /\ Raw(i).factor # None /\ Placed(Raw(i), resolved[i])
       /\ Raw(i).signal = "app" => resolved[i] = Raw(i).session
  /\ ipc[i] = "commit" => ~Committed(itask[i])
  /\ ipc[i] = "done" /\ Raw(i).signal = "app" => Committed(itask[i])

\* Transactions start one after the other; one has an uncommitted check-in.
HandlersApart ==
  \A i, j \in Identifier :
    /\ i # j
    /\ ipc[i] # "idle" /\ ipc[j] # "idle"
    => /\ startedAt[i] # startedAt[j]
       /\ ipc[i] = "commit" /\ ipc[j] = "commit" => itask[i] # itask[j]

\* The deliveries of identify-event jobs so far: the clock counts them.
Deliveries ==
  {d \in Event \X (1 .. IdentifyRetryLimit + 1) : d[2] <= identify[d[1]].tries}

ClockCounts == Cardinality(Deliveries) = clock

IInv ==
  /\ TypeOK
  /\ \A r \in Request : RequestOK(r)
  /\ OneWriter
  /\ \A e \in Event : EventOK(e)
  /\ \A i \in Identifier : HandlerOK(i)
  /\ HandlersApart
  /\ ClockCounts

-----------------------------------------------------------------------------
\* The identify-event queue: each operation keeps its type.
LEMMA IdentifyQueue ==
  ASSUME Identify!QueueTypeOK, NEW e \in Event,
         \/ identify' = [identify EXCEPT ![e].state = "waiting"]
            /\ identify[e].state = "unsent"
         \/ Identify!Deliver(e)
         \/ Identify!Complete(e)
         \/ Identify!Release(e)
  PROVE  /\ Identify!QueueTypeOK'
         /\ \A f \in Event : f # e => identify'[f] = identify[f]
<1> USE CheckinPipelineAssumption DEF Identify!QueueTypeOK, Identify!JobState
<1>1. CASE identify' = [identify EXCEPT ![e].state = "waiting"]
           /\ identify[e].state = "unsent"
  BY <1>1
<1>2. CASE Identify!Deliver(e)
  BY <1>2 DEF Identify!Deliver
<1>3. CASE Identify!Complete(e)
  BY <1>3 DEF Identify!Complete
<1>4. CASE Identify!Release(e)
  BY <1>4 DEF Identify!Release
<1> QED
  BY <1>1, <1>2, <1>3, <1>4

\* As many transactions can start as jobs can be delivered.
LEMMA DeliverySpace ==
  /\ IsFiniteSet(Event \X (1 .. IdentifyRetryLimit + 1))
  /\ Cardinality(Event \X (1 .. IdentifyRetryLimit + 1))
       = Cardinality(Event) * (IdentifyRetryLimit + 1)
<1>1. IdentifyRetryLimit + 1 \in Nat /\ 1 \in Int
  BY CheckinPipelineAssumption
<1>2. /\ IsFiniteSet(1 .. IdentifyRetryLimit + 1)
      /\ Cardinality(1 .. IdentifyRetryLimit + 1) = IdentifyRetryLimit + 1
  BY <1>1, FS_Interval
<1>3. IsFiniteSet(Event)
  BY CheckinPipelineAssumption
<1> QED
  BY <1>2, <1>3, FS_Product

LEMMA StampRange == \E n \in Nat : Stamp = 1 .. n
BY DeliverySpace, FS_CardinalityType DEF Stamp

\* A delivery advances the clock by one, and there is room for it.
LEMMA DeliveryCounts ==
  ASSUME TypeOK, ClockCounts, NEW i \in Identifier, NEW e \in Event, FetchEvent(i, e)
  PROVE  clock + 1 \in Stamp /\ ClockCounts'
<1> DEFINE n == identify[e].tries + 1
<1> DEFINE Space == Event \X (1 .. IdentifyRetryLimit + 1)
<1>1. /\ n \in 1 .. IdentifyRetryLimit + 1
      /\ identify' = [identify EXCEPT ![e] = [state |-> "active", tries |-> n]]
      /\ clock' = clock + 1
  BY CheckinPipelineAssumption DEF TypeOK, FetchEvent, Identify!QueueTypeOK, Identify!Deliver
<1>2. Deliveries' = Deliveries \cup {<<e, n>>}
  <2>1. \A d \in Space : d[1] \in Event /\ d[2] \in 1 .. IdentifyRetryLimit + 1
                         /\ (d = <<e, n>> <=> d[1] = e /\ d[2] = n)
    OBVIOUS
  <2>2. \A d \in Space : d[2] <= identify'[d[1]].tries
                           <=> d[2] <= identify[d[1]].tries \/ d = <<e, n>>
    <3> SUFFICES ASSUME NEW d \in Space
                 PROVE  d[2] <= identify'[d[1]].tries
                          <=> d[2] <= identify[d[1]].tries \/ d = <<e, n>>
      OBVIOUS
    <3>1. CASE d[1] = e
      <4>1. identify'[e].tries = n /\ identify[e].tries \in Nat
        BY <1>1, CheckinPipelineAssumption DEF TypeOK, Identify!QueueTypeOK
      <4> QED
        BY <2>1, <3>1, <4>1
    <3>2. CASE d[1] # e
      <4>1. identify'[d[1]] = identify[d[1]]
        BY <1>1, <2>1, <3>2 DEF TypeOK, Identify!QueueTypeOK
      <4> QED
        BY <2>1, <3>2, <4>1
    <3> QED
      BY <3>1, <3>2
  <2>3. <<e, n>> \in Space
    BY <1>1
  <2> QED
    BY <2>2, <2>3 DEF Deliveries
<1>3. <<e, n>> \notin Deliveries
  BY <1>1, CheckinPipelineAssumption DEF Deliveries, TypeOK, Identify!QueueTypeOK
<1>4. Deliveries' \subseteq Space /\ Deliveries \subseteq Space
  BY <1>1, <1>2 DEF Deliveries
<1>5. /\ IsFiniteSet(Deliveries')
      /\ Cardinality(Deliveries') <= Cardinality(Event) * (IdentifyRetryLimit + 1)
  BY <1>4, DeliverySpace, FS_Subset
<1>6. IsFiniteSet(Deliveries)
  BY <1>4, DeliverySpace, FS_Subset
<1>7. Cardinality(Deliveries') = clock + 1
  BY <1>2, <1>3, <1>6, FS_AddElement DEF ClockCounts
<1>8. Cardinality(Event) * (IdentifyRetryLimit + 1) \in Nat /\ clock \in Nat
  BY <1>6, DeliverySpace, FS_CardinalityType DEF ClockCounts
<1> HIDE DEF n, Space
<1>9. clock + 1 <= Cardinality(Event) * (IdentifyRetryLimit + 1)
  BY <1>5, <1>7
<1> QED
  BY <1>1, <1>7, <1>8, <1>9 DEF ClockCounts, Stamp

\* The tries of no job change: no delivery.
LEMMA NoDelivery ==
  ASSUME ClockCounts, clock' = clock,
         \A e \in Event : identify'[e].tries = identify[e].tries
  PROVE  ClockCounts'
<1>1. Deliveries' = Deliveries
  BY DEF Deliveries
<1> QED
  BY <1>1 DEF ClockCounts

-----------------------------------------------------------------------------
(***************************************************************************)
(* The deduplication stage.  An identification COMMIT is one of its steps, *)
(* and no other step of identification or of the requests touches it.      *)
(***************************************************************************)
LEMMA CommitIsDedupStep ==
  ASSUME IInv, NEW i \in Identifier, CommitCheckin(i)
  PROVE  /\ itask[i] \in Event /\ Raw(i) \in RawEvent /\ ~Committed(itask[i])
         /\ <<Raw(i).factor, resolved[i]>> \in Key
         /\ Raw(i).capturedAt \in Time
         /\ startedAt[i] \in Stamp /\ startedAt[i] # None
         /\ Dedup!CommitIdentification(itask[i], <<Raw(i).factor, resolved[i]>>,
                                       Raw(i).capturedAt, startedAt[i])
<1>1. /\ itask[i] \in Event /\ event[itask[i]] # None /\ ~Committed(itask[i])
      /\ \A e \in Event : createdAt[e] # startedAt[i]
      /\ queue[itask[i]].state = "unsent"
      /\ startedAt[i] \in 1 .. clock
  BY DEF IInv, HandlerOK, EventOK, CommitCheckin
<1>2. Raw(i) \in RawEvent
  BY <1>1 DEF IInv, TypeOK, Raw
<1>3. Raw(i).factor \in Factor /\ resolved[i] \in Session \cup {None}
  BY <1>2 DEF IInv, TypeOK, HandlerOK, CommitCheckin, RawEvent
<1>4. <<Raw(i).factor, resolved[i]>> \in Key
  BY <1>3 DEF Key
<1>5. Raw(i).capturedAt \in Time
  BY <1>2 DEF RawEvent
<1>6. startedAt[i] \in Stamp /\ startedAt[i] # None
  <2>1. startedAt[i] \in Stamp \cup {None} /\ clock \in Stamp \cup {0}
    BY DEF IInv, TypeOK
  <2>2. PICK n \in Nat : Stamp = 1 .. n
    BY StampRange
  <2>3. startedAt[i] \in Stamp
    BY <1>1, <2>1, <2>2
  <2> QED
    BY <2>3, CheckinPipelineAssumption
<1>7. Dedup!Jobs!Send(itask[i])
  BY <1>1 DEF CommitCheckin, Dedup!Jobs!Send
<1> QED
  BY <1>1, <1>2, <1>4, <1>5, <1>6, <1>7
     DEF CommitCheckin, CheckinRow, Committed, Dedup!CommitIdentification,
         Dedup!Committed

\* The steps that leave the deduplication stage alone.
LEMMA OutsideDedup ==
  ASSUME \/ CampusNext
         \/ \E r \in Request : RequestNext(r)
         \/ \E i \in Identifier, e \in Event : FetchEvent(i, e)
         \/ \E i \in Identifier :
              Correlate(i) \/ InsertCheckin(i) \/ AcknowledgeEvent(i)
              \/ FailIdentification(i)
         \/ \E e \in Event : GiveEventBack(e)
         \/ UNCHANGED vars
  PROVE  UNCHANGED dedupVars
<1>1. CASE CampusNext
  BY <1>1 DEF CampusNext, Tick, PlanSession, RevokeWristband
<1>2. CASE \E r \in Request : RequestNext(r)
  BY <1>2 DEF RequestNext, ReceiveEnvelope, RefuseEnvelope, ReceiveCheckin, Received, Refused,
         ResolveActiveSession, RejectCheckin, InsertEvent, CommitEvent, FailRequest
<1>3. CASE \E i \in Identifier, e \in Event : FetchEvent(i, e)
  BY <1>3 DEF FetchEvent
<1>4. CASE \E i \in Identifier :
              Correlate(i) \/ InsertCheckin(i) \/ AcknowledgeEvent(i)
              \/ FailIdentification(i)
  BY <1>4 DEF Correlate, InsertCheckin, AcknowledgeEvent, FailIdentification, LostWork
<1>5. CASE \E e \in Event : GiveEventBack(e)
  BY <1>5 DEF GiveEventBack
<1>6. CASE UNCHANGED vars
  BY <1>6 DEF vars
<1> QED
  BY <1>1, <1>2, <1>3, <1>4, <1>5, <1>6

\* Every step of the pipeline is a step of Deduplication, or none.
LEMMA StepRefines == IInv /\ [Next]_vars => [Dedup!Next]_Dedup!vars
<1> SUFFICES ASSUME IInv, [Next]_vars PROVE [Dedup!Next]_Dedup!vars
  OBVIOUS
<1>1. ASSUME NEW i \in Identifier, CommitCheckin(i) PROVE Dedup!Next
  BY <1>1, CommitIsDedupStep DEF Dedup!Next
<1>2. CASE DedupNext
  BY <1>2 DEF DedupNext, Dedup!Next
<1>3. UNCHANGED dedupVars => UNCHANGED Dedup!vars
  BY DEF dedupVars, rowVars, Dedup!vars, Dedup!rowVars
<1> QED
  BY <1>1, <1>2, <1>3, OutsideDedup DEF Next, IdentifierStep

LEMMA InitRefines == Init => Dedup!Init
BY DEF Init

\* Deduplication keeps its variables in their types.
LEMMA DedupType == Dedup!TypeOK /\ [Dedup!Next]_Dedup!vars => Dedup!TypeOK'
<1> SUFFICES ASSUME Dedup!TypeOK, [Dedup!Next]_Dedup!vars PROVE Dedup!TypeOK'
  OBVIOUS
<1> HIDE DEF Key, Time, Stamp
<1> USE CheckinPipelineAssumption DEF Dedup!TypeOK, Dedup!Step
<1>1. ASSUME NEW c \in Event, NEW k \in Key, NEW t \in Time,
             NEW s \in Stamp, Dedup!CommitIdentification(c, k, t, s)
      PROVE  Dedup!TypeOK'
  BY <1>1 DEF Dedup!CommitIdentification, Dedup!Jobs!Send, Dedup!Jobs!QueueTypeOK,
              Dedup!Jobs!JobState
<1>2. ASSUME NEW w \in Worker, NEW c \in Event, Dedup!Fetch(w, c)
      PROVE  Dedup!TypeOK'
  BY <1>2 DEF Dedup!Fetch, Dedup!Goto, Dedup!rowVars, Dedup!Jobs!Deliver,
              Dedup!Jobs!QueueTypeOK, Dedup!Jobs!JobState
<1>3. ASSUME NEW w \in Worker, Dedup!ReadCheckin(w) PROVE Dedup!TypeOK'
  BY <1>3 DEF Dedup!ReadCheckin, Dedup!Goto, Dedup!rowVars, Dedup!Jobs!QueueTypeOK
<1>4. ASSUME NEW w \in Worker, Dedup!AcquireLock(w) PROVE Dedup!TypeOK'
  BY <1>4 DEF Dedup!AcquireLock, Dedup!Goto, Dedup!rowVars, Dedup!Jobs!QueueTypeOK
<1>5. ASSUME NEW w \in Worker, Dedup!FindCanonical(w) PROVE Dedup!TypeOK'
  BY <1>5 DEF Dedup!FindCanonical, Dedup!Goto, Dedup!rowVars, Dedup!Jobs!QueueTypeOK,
              Dedup!Oldest, Dedup!Candidates
<1>6. ASSUME NEW w \in Worker, Dedup!CommitHandler(w) PROVE Dedup!TypeOK'
  BY <1>6 DEF Dedup!CommitHandler, Dedup!Marked, Dedup!Unlock, Dedup!Goto,
              Dedup!rowVars, Dedup!Jobs!QueueTypeOK
<1>7. ASSUME NEW w \in Worker, Dedup!Acknowledge(w) PROVE Dedup!TypeOK'
  BY <1>7 DEF Dedup!Acknowledge, Dedup!Stop, Dedup!Goto, Dedup!rowVars,
              Dedup!Jobs!Complete, Dedup!Jobs!QueueTypeOK, Dedup!Jobs!JobState
<1>8. ASSUME NEW w \in Worker, Dedup!Fail(w) PROVE Dedup!TypeOK'
  BY <1>8 DEF Dedup!Fail, Dedup!Stop, Dedup!Goto, Dedup!Unlock, Dedup!rowVars,
              Dedup!Jobs!QueueTypeOK
<1>9. ASSUME NEW c \in Event, Dedup!GiveBack(c) PROVE Dedup!TypeOK'
  BY <1>9 DEF Dedup!GiveBack, Dedup!rowVars, Dedup!Jobs!Release,
              Dedup!Jobs!QueueTypeOK, Dedup!Jobs!JobState
<1>10. CASE UNCHANGED Dedup!vars
  BY <1>10 DEF Dedup!vars, Dedup!rowVars, Dedup!Jobs!QueueTypeOK
<1> QED
  BY <1>1, <1>2, <1>3, <1>4, <1>5, <1>6, <1>7, <1>8, <1>9, <1>10
     DEF Dedup!Next, Dedup!HandlerStep

\* Deduplication changes no row, and sends no job: identification does.
LEMMA DedupKeepsRows ==
  ASSUME Dedup!TypeOK, DedupNext
  PROVE  /\ UNCHANGED rowVars
         /\ \A e \in Event : queue'[e].state = "unsent" <=> queue[e].state = "unsent"
<1>1. ASSUME NEW w \in Worker, NEW c \in Event, Dedup!Fetch(w, c)
      PROVE  /\ UNCHANGED rowVars
             /\ \A e \in Event : queue'[e].state = "unsent" <=> queue[e].state = "unsent"
  BY <1>1 DEF Dedup!Fetch, Dedup!rowVars, rowVars, Dedup!Jobs!Deliver, Dedup!TypeOK,
              Dedup!Jobs!QueueTypeOK
<1>2. ASSUME NEW w \in Worker, Dedup!Acknowledge(w)
      PROVE  /\ UNCHANGED rowVars
             /\ \A e \in Event : queue'[e].state = "unsent" <=> queue[e].state = "unsent"
  BY <1>2 DEF Dedup!Acknowledge, Dedup!rowVars, rowVars, Dedup!Jobs!Complete,
              Dedup!TypeOK, Dedup!Jobs!QueueTypeOK
<1>3. ASSUME NEW w \in Worker,
             \/ Dedup!ReadCheckin(w) \/ Dedup!AcquireLock(w) \/ Dedup!FindCanonical(w)
             \/ Dedup!CommitHandler(w) \/ Dedup!Fail(w)
      PROVE  UNCHANGED <<rowVars, queue>>
  BY <1>3 DEF Dedup!ReadCheckin, Dedup!AcquireLock, Dedup!FindCanonical,
              Dedup!CommitHandler, Dedup!Fail, Dedup!rowVars, rowVars
<1>4. ASSUME NEW c \in Event, Dedup!GiveBack(c)
      PROVE  /\ UNCHANGED rowVars
             /\ \A e \in Event : queue'[e].state = "unsent" <=> queue[e].state = "unsent"
  BY <1>4 DEF Dedup!GiveBack, Dedup!rowVars, rowVars, Dedup!Jobs!Release,
              Dedup!Jobs!Active, Dedup!TypeOK, Dedup!Jobs!QueueTypeOK
<1> QED
  BY <1>1, <1>2, <1>3, <1>4 DEF DedupNext, Dedup!HandlerStep

-----------------------------------------------------------------------------
(***************************************************************************)
(* The requests.  A step of request r changes what is known of r only, and *)
(* never what is known of an answered one.                                 *)
(***************************************************************************)
LEMMA PlacedInSession ==
  ASSUME NEW t, NEW s \in InProgress(t)
  PROVE  Within(t, s)
BY DEF InProgress, Within

\* What is posted, by a device or by the app.
LEMMA EnvelopeSound == \A raw \in Envelope : raw \in RawEvent /\ Sound(raw)
BY CheckinPipelineAssumption DEF ValidEnvelope, Sound, Within

LEMMA CheckinSound ==
  ASSUME NEW t \in Time
  PROVE  LET raw == [signal |-> "app", factor |-> "app", room |-> FALSE, capturedAt |-> t,
                     session |-> None]
         IN  raw \in RawEvent /\ Sound(raw)
BY DEF RawEvent, Signal, Factor, Sound, Within

LEMMA RequestStepLocal ==
  ASSUME IInv, NEW r \in Request, RequestNext(r)
  PROVE  /\ step[r] \notin Answer
         /\ step'[r] \in RequestStep /\ step'[r] # "new"
         /\ sent'[r] \in Event \cup {None}
         /\ payload'[r] \in RawEvent \cup {None}
         /\ step' = [step EXCEPT ![r] = step'[r]]
         /\ sent' = [sent EXCEPT ![r] = sent'[r]]
         /\ payload' = [payload EXCEPT ![r] = payload'[r]]
         /\ UNCHANGED <<campusVars, identVars, dedupVars>>
<1> DEFINE Local ==
      /\ step[r] \notin Answer
      /\ step'[r] \in RequestStep /\ step'[r] # "new"
      /\ sent'[r] \in Event \cup {None}
      /\ payload'[r] \in RawEvent \cup {None}
      /\ step' = [step EXCEPT ![r] = step'[r]]
      /\ sent' = [sent EXCEPT ![r] = sent'[r]]
      /\ payload' = [payload EXCEPT ![r] = payload'[r]]
      /\ UNCHANGED <<campusVars, identVars, dedupVars>>
<1>0. /\ step \in [Request -> RequestStep]
      /\ sent \in [Request -> Event \cup {None}]
      /\ payload \in [Request -> RawEvent \cup {None}]
      /\ now \in Time
  BY DEF IInv, TypeOK
<1>1. ASSUME NEW e \in Event, NEW raw \in Envelope, ReceiveEnvelope(r, e, raw)
      PROVE  Local
  <2>1. raw \in RawEvent
    BY EnvelopeSound
  <2> QED
    BY <1>0, <1>1, <2>1 DEF ReceiveEnvelope, Received, RequestStep, Answer
<1>2. ASSUME RefuseEnvelope(r) \/ RejectCheckin(r) \/ FailRequest(r) PROVE Local
  BY <1>0, <1>2 DEF RefuseEnvelope, RejectCheckin, FailRequest, Refused, Answered,
                    RequestStep, Answer
<1>3. ASSUME NEW e \in Event, ReceiveCheckin(r, e) PROVE Local
  <2>1. [signal |-> "app", factor |-> "app", room |-> FALSE, capturedAt |-> now,
         session |-> None] \in RawEvent
    BY <1>0, CheckinSound
  <2> QED
    BY <1>0, <1>3, <2>1 DEF ReceiveCheckin, Received, RequestStep, Answer
<1>4. ASSUME ResolveActiveSession(r) PROVE Local
  <2>1. payload[r] \in RawEvent
    BY <1>4 DEF IInv, RequestOK, ResolveActiveSession
  <2>2. PICK s \in ActiveSessions(r) :
          payload' = [payload EXCEPT ![r] = [payload[r] EXCEPT !.session = s]]
    BY <1>0, <1>4, <2>1 DEF ResolveActiveSession
  <2>3. s \in Session
    BY <2>2 DEF ActiveSessions, InProgress, IInv, TypeOK
  <2>4. [payload[r] EXCEPT !.session = s] \in RawEvent
    BY <2>1, <2>3 DEF RawEvent
  <2> QED
    BY <1>0, <1>4, <2>2, <2>4 DEF ResolveActiveSession, RequestStep, Answer
<1>5. ASSUME InsertEvent(r) PROVE Local
  BY <1>0, <1>5 DEF InsertEvent, Answered, RequestStep, Answer
<1>6. ASSUME CommitEvent(r) PROVE Local
  BY <1>0, <1>6 DEF CommitEvent, Answered, RequestStep, Answer
<1> QED
  BY <1>1, <1>2, <1>3, <1>4, <1>5, <1>6 DEF RequestNext

\* The COMMIT of a request stores its event, and sends the job of it.
LEMMA CommitEventEffect ==
  ASSUME IInv, NEW r \in Request, CommitEvent(r)
  PROVE  /\ sent[r] \in Event /\ event[sent[r]] = None
         /\ payload[r] \in RawEvent /\ payload[r] # None
         /\ Sound(payload[r])
         /\ event' = [event EXCEPT ![sent[r]] = payload[r]]
         /\ identify[sent[r]].state = "unsent"
         /\ identify' = [identify EXCEPT ![sent[r]].state = "waiting"]
         /\ sent'[r] = sent[r] /\ step'[r] = "created"
<1>1. /\ sent[r] \in Event /\ event[sent[r]] = None
      /\ payload[r] \in RawEvent
      /\ Sound(payload[r])
  BY DEF IInv, RequestOK, CommitEvent
<1>2. payload[r] # None
  BY <1>1, CheckinPipelineAssumption
<1>3. identify[sent[r]].state = "unsent"
  BY <1>1 DEF IInv, EventOK
<1> QED
  BY <1>1, <1>2, <1>3 DEF CommitEvent, Answered, IInv, TypeOK

\* No other step stores an event, or changes a request.
LEMMA EventsElsewhere ==
  ASSUME IInv, [Next]_vars, \A r \in Request : ~CommitEvent(r)
  PROVE  UNCHANGED event
<1>1. CASE CampusNext
  BY <1>1 DEF CampusNext, Tick, PlanSession, RevokeWristband
<1>2. CASE \E r \in Request : RequestNext(r)
  BY <1>2 DEF RequestNext, ReceiveEnvelope, RefuseEnvelope, ReceiveCheckin, Received, Refused,
         ResolveActiveSession, RejectCheckin, InsertEvent, FailRequest
<1>3. CASE \E i \in Identifier, e \in Event : FetchEvent(i, e)
  BY <1>3 DEF FetchEvent
<1>4. CASE \E i \in Identifier : IdentifierStep(i) \/ FailIdentification(i)
  BY <1>4 DEF IdentifierStep, Correlate, InsertCheckin, CommitCheckin, AcknowledgeEvent,
         FailIdentification
<1>5. CASE (\E e \in Event : GiveEventBack(e)) \/ DedupNext
  BY <1>5 DEF GiveEventBack, DedupNext
<1>6. CASE UNCHANGED vars
  BY <1>6 DEF vars
<1> QED
  BY <1>1, <1>2, <1>3, <1>4, <1>5, <1>6 DEF Next

LEMMA RequestsElsewhere ==
  ASSUME [Next]_vars, \A r \in Request : ~RequestNext(r)
  PROVE  UNCHANGED requestVars
<1>1. CASE CampusNext
  BY <1>1 DEF CampusNext, Tick, PlanSession, RevokeWristband
<1>3. CASE \E i \in Identifier, e \in Event : FetchEvent(i, e)
  BY <1>3 DEF FetchEvent
<1>4. CASE \E i \in Identifier : IdentifierStep(i) \/ FailIdentification(i)
  BY <1>4 DEF IdentifierStep, Correlate, InsertCheckin, CommitCheckin, AcknowledgeEvent,
         FailIdentification
<1>5. CASE (\E e \in Event : GiveEventBack(e)) \/ DedupNext
  BY <1>5 DEF GiveEventBack, DedupNext
<1>6. CASE UNCHANGED vars
  BY <1>6 DEF vars
<1> QED
  BY <1>1, <1>3, <1>4, <1>5, <1>6 DEF Next

\* A stored event is never replaced.
LEMMA EventsStay ==
  ASSUME IInv, [Next]_vars, NEW e \in Event, event[e] # None
  PROVE  event'[e] = event[e]
<1>1. ASSUME NEW r \in Request, CommitEvent(r) PROVE event'[e] = event[e]
  BY <1>1, CommitEventEffect DEF IInv, TypeOK
<1> QED
  BY <1>1, EventsElsewhere

\* A request keeps its promise.
LEMMA NextRequestOK ==
  ASSUME IInv, [Next]_vars, NEW q \in Request
  PROVE  RequestOK(q)'
<1>0. /\ step \in [Request -> RequestStep]
      /\ sent \in [Request -> Event \cup {None}]
      /\ payload \in [Request -> RawEvent \cup {None}]
      /\ event \in [Event -> RawEvent \cup {None}]
      /\ RequestOK(q)
  BY DEF IInv, TypeOK
<1>1. CASE step'[q] = step[q] /\ sent'[q] = sent[q] /\ payload'[q] = payload[q]
  <2>1. ASSUME step[q] = "commit" PROVE event'[sent[q]] = None
    <3>1. ASSUME NEW r \in Request, CommitEvent(r) PROVE sent[q] # sent[r]
      <4>1. r # q
        BY <1>1, <2>1, <3>1, CommitEventEffect
      <4> QED
        BY <2>1, <3>1, <4>1 DEF IInv, OneWriter, CommitEvent
    <3>2. ASSUME NEW r \in Request, CommitEvent(r) PROVE event'[sent[q]] = event[sent[q]]
      BY <1>0, <2>1, <3>1, <3>2, CommitEventEffect DEF RequestOK
    <3> QED
      BY <1>0, <2>1, <3>2, EventsElsewhere DEF RequestOK
  <2> QED
    BY <1>0, <1>1, <2>1, EventsStay DEF RequestOK
<1>2. CASE ~(step'[q] = step[q] /\ sent'[q] = sent[q] /\ payload'[q] = payload[q])
  <2>1. PICK r \in Request : RequestNext(r)
    BY <1>2, RequestsElsewhere DEF requestVars
  <2>2. r = q
    BY <1>0, <1>2, <2>1, RequestStepLocal
  <2>3. RequestNext(q)
    BY <2>1, <2>2
  <2>4. ASSUME NEW e \in Event, NEW raw \in Envelope, ReceiveEnvelope(q, e, raw)
        PROVE  RequestOK(q)'
    <3>1. raw \in RawEvent /\ Sound(raw)
      BY EnvelopeSound
    <3>2. step'[q] = "insert" /\ sent'[q] = e /\ payload'[q] = raw
      BY <1>0, <2>4 DEF ReceiveEnvelope, Received
    <3> QED
      BY <3>1, <3>2 DEF RequestOK
  <2>5. ASSUME RefuseEnvelope(q) \/ RejectCheckin(q) \/ FailRequest(q)
        PROVE  RequestOK(q)'
    BY <1>0, <2>5 DEF RefuseEnvelope, RejectCheckin, FailRequest, Refused, Answered,
                      RequestOK
  <2>6. ASSUME NEW e \in Event, ReceiveCheckin(q, e) PROVE RequestOK(q)'
    <3> DEFINE raw == [signal |-> "app", factor |-> "app", room |-> FALSE,
                       capturedAt |-> now, session |-> None]
    <3>1. raw \in RawEvent /\ Sound(raw)
      BY CheckinSound DEF IInv, TypeOK
    <3>2. step'[q] = "resolve" /\ sent'[q] = e /\ payload'[q] = raw
      BY <1>0, <2>6 DEF ReceiveCheckin, Received
    <3> QED
      BY <3>1, <3>2 DEF RequestOK
  <2>7. ASSUME ResolveActiveSession(q) PROVE RequestOK(q)'
    <3>1. payload[q] \in RawEvent /\ sent[q] \in Event
      BY <1>0, <2>7 DEF RequestOK, ResolveActiveSession
    <3>2. PICK s \in ActiveSessions(q) :
            payload' = [payload EXCEPT ![q] = [payload[q] EXCEPT !.session = s]]
      BY <1>0, <2>7, <3>1 DEF ResolveActiveSession
    <3>3. Within(payload[q].capturedAt, s)
      BY <3>2, PlacedInSession DEF ActiveSessions
    <3>4. /\ payload'[q].capturedAt = payload[q].capturedAt
          /\ payload'[q].session = s
          /\ payload'[q].signal = payload[q].signal /\ payload'[q].factor = payload[q].factor
          /\ payload'[q].room = payload[q].room
          /\ payload'[q] \in RawEvent
      <4>1. s \in Session
        BY <3>2 DEF ActiveSessions, InProgress, IInv, TypeOK
      <4> QED
        BY <1>0, <3>1, <3>2, <4>1 DEF RawEvent
    <3>5. step'[q] = "insert" /\ sent'[q] = sent[q]
      BY <1>0, <2>7 DEF ResolveActiveSession
    <3> QED
      BY <1>0, <2>7, <3>1, <3>3, <3>4, <3>5 DEF RequestOK, Sound, Within, ResolveActiveSession
  <2>8. ASSUME InsertEvent(q) PROVE RequestOK(q)'
    BY <1>0, <2>8 DEF InsertEvent, Answered, RequestOK
  <2>9. ASSUME CommitEvent(q) PROVE RequestOK(q)'
    <3>1. event'[sent[q]] # None /\ sent[q] \in Event /\ sent'[q] = sent[q]
          /\ step'[q] = "created"
      BY <1>0, <2>9, CommitEventEffect
    <3> QED
      BY <3>1 DEF RequestOK
  <2> QED
    BY <2>3, <2>4, <2>5, <2>6, <2>7, <2>8, <2>9 DEF RequestNext
<1> QED
  BY <1>1, <1>2

(***************************************************************************)
(* The unique index lets one request at a time insert a row of a key, and  *)
(* the row it commits turns the others away.                               *)
(***************************************************************************)
LEMMA NextOneWriter == IInv /\ [Next]_vars => OneWriter'
<1> SUFFICES ASSUME IInv, [Next]_vars PROVE OneWriter'
  OBVIOUS
<1>0. OneWriter /\ step \in [Request -> RequestStep]
      /\ sent \in [Request -> Event \cup {None}]
  BY DEF IInv, TypeOK
<1>1. CASE UNCHANGED requestVars
  BY <1>0, <1>1 DEF OneWriter, requestVars
<1>2. ASSUME NEW r \in Request, RequestNext(r) PROVE OneWriter'
  <2>1. /\ \A q \in Request : q # r => step'[q] = step[q] /\ sent'[q] = sent[q]
    BY <1>0, <1>2, RequestStepLocal
  <2>2. CASE step'[r] \notin {"commit", "created"}
    BY <1>0, <2>1, <2>2 DEF OneWriter
  <2>3. CASE step'[r] = "commit"
    <3>1. InsertEvent(r)
      BY <1>0, <1>2, <2>3
         DEF RequestNext, ReceiveEnvelope, RefuseEnvelope, ReceiveCheckin, Received,
             Refused, Answered, ResolveActiveSession, RejectCheckin, CommitEvent, FailRequest
    <3>2. \A q \in Request \ {r} : sent[q] = sent[r] => step[q] # "commit"
      BY <3>1 DEF InsertEvent, KeyBusy
    <3>3. sent'[r] = sent[r]
      BY <3>1 DEF InsertEvent
    <3> QED
      BY <1>0, <2>1, <2>3, <3>2, <3>3 DEF OneWriter
  <2>4. CASE step'[r] = "created"
    <3>1. CommitEvent(r)
      BY <1>0, <1>2, <2>4
         DEF RequestNext, ReceiveEnvelope, RefuseEnvelope, ReceiveCheckin, Received,
             Refused, Answered, ResolveActiveSession, RejectCheckin, InsertEvent, FailRequest
    <3>2. \A q \in Request : step[q] = "created" => event[sent[q]] # None
      BY DEF IInv, RequestOK
    <3>3. event[sent[r]] = None /\ sent'[r] = sent[r]
      BY <3>1, CommitEventEffect
    <3> QED
      BY <1>0, <2>1, <2>4, <3>2, <3>3 DEF OneWriter
  <2> QED
    BY <2>2, <2>3, <2>4
<1> QED
  BY <1>1, <1>2, RequestsElsewhere

\* Whoever created an event keeps having created it.
LEMMA CreatorsStay ==
  ASSUME IInv, [Next]_vars, NEW r \in Request, step[r] = "created"
  PROVE  step'[r] = "created" /\ sent'[r] = sent[r]
<1>1. ASSUME NEW q \in Request, RequestNext(q)
      PROVE  step'[r] = "created" /\ sent'[r] = sent[r]
  <2>1. q # r
    BY <1>1, RequestStepLocal DEF Answer
  <2> QED
    BY <1>1, <2>1, RequestStepLocal DEF IInv, TypeOK
<1> QED
  BY <1>1, RequestsElsewhere DEF requestVars

-----------------------------------------------------------------------------
(***************************************************************************)
(* The rows of identification_checkin, the jobs, and the clock.            *)
(***************************************************************************)
LEMMA RowsElsewhere ==
  ASSUME IInv, [Next]_vars, \A i \in Identifier : ~CommitCheckin(i)
  PROVE  /\ UNCHANGED rowVars
         /\ \A e \in Event : queue'[e].state = "unsent" <=> queue[e].state = "unsent"
<1>1. CASE DedupNext
  BY <1>1, DedupKeepsRows DEF IInv, TypeOK
<1>2. CASE UNCHANGED dedupVars
  BY <1>2 DEF dedupVars, rowVars
<1> QED
  BY <1>1, <1>2, OutsideDedup DEF Next, IdentifierStep

LEMMA CommitCheckinEffect ==
  ASSUME IInv, NEW i \in Identifier, CommitCheckin(i)
  PROVE  /\ itask[i] \in Event /\ ~Committed(itask[i])
         /\ key'[itask[i]] = <<Raw(i).factor, resolved[i]>> /\ key'[itask[i]] # None
         /\ checkinAt'[itask[i]] = Raw(i).capturedAt
         /\ createdAt'[itask[i]] = startedAt[i]
         /\ queue'[itask[i]].state = "waiting"
         /\ \A e \in Event : e # itask[i] =>
              /\ key'[e] = key[e] /\ checkinAt'[e] = checkinAt[e]
              /\ createdAt'[e] = createdAt[e] /\ queue'[e] = queue[e]
<1>1. /\ itask[i] \in Event /\ ~Committed(itask[i])
      /\ <<Raw(i).factor, resolved[i]>> \in Key
  BY CommitIsDedupStep
<1>2. <<Raw(i).factor, resolved[i]>> # None
  BY <1>1, CheckinPipelineAssumption
<1>3. /\ DOMAIN key = Event /\ DOMAIN checkinAt = Event /\ DOMAIN createdAt = Event
      /\ DOMAIN queue = Event
      /\ queue[itask[i]] \in [state : Dedup!Jobs!JobState, tries : 0 .. RetryLimit + 1]
  BY <1>1 DEF IInv, TypeOK, Dedup!TypeOK, Dedup!Jobs!QueueTypeOK
<1>4. queue' = [queue EXCEPT ![itask[i]] = [queue[itask[i]] EXCEPT !.state = "waiting"]]
  BY <1>1, <1>3 DEF CommitCheckin
<1>5. queue'[itask[i]].state = "waiting"
  BY <1>1, <1>3, <1>4
<1>6. \A e \in Event : e # itask[i] => queue'[e] = queue[e]
  BY <1>3, <1>4
<1>7. /\ key' = [key EXCEPT ![itask[i]] = <<Raw(i).factor, resolved[i]>>]
      /\ checkinAt' = [checkinAt EXCEPT ![itask[i]] = Raw(i).capturedAt]
      /\ createdAt' = [createdAt EXCEPT ![itask[i]] = startedAt[i]]
  BY DEF CommitCheckin, CheckinRow
<1> QED
  BY <1>1, <1>2, <1>3, <1>5, <1>6, <1>7

\* A check-in is written once.
LEMMA RowsStay ==
  ASSUME IInv, [Next]_vars, NEW e \in Event, Committed(e)
  PROVE  key'[e] = key[e] /\ checkinAt'[e] = checkinAt[e] /\ createdAt'[e] = createdAt[e]
<1>1. ASSUME NEW i \in Identifier, CommitCheckin(i)
      PROVE  key'[e] = key[e] /\ checkinAt'[e] = checkinAt[e]
             /\ createdAt'[e] = createdAt[e]
  BY <1>1, CommitCheckinEffect
<1> QED
  BY <1>1, RowsElsewhere DEF rowVars

\* Who moves a job of the identify-event queue, and its type.
LEMMA IdentifyMoves ==
  ASSUME IInv, [Next]_vars
  PROVE  /\ Identify!QueueTypeOK'
         /\ \A e \in Event :
              /\ identify[e].state = "unsent" /\ identify'[e].state # "unsent" =>
                   \E r \in Request : CommitEvent(r) /\ sent[r] = e
              /\ identify[e].state # "completed" /\ identify'[e].state = "completed" =>
                   \E i \in Identifier : AcknowledgeEvent(i) /\ itask[i] = e
<1> DEFINE Moves ==
      /\ Identify!QueueTypeOK'
      /\ \A e \in Event :
           /\ identify[e].state = "unsent" /\ identify'[e].state # "unsent" =>
                \E r \in Request : CommitEvent(r) /\ sent[r] = e
           /\ identify[e].state # "completed" /\ identify'[e].state = "completed" =>
                \E i \in Identifier : AcknowledgeEvent(i) /\ itask[i] = e
<1>0. Identify!QueueTypeOK
  BY DEF IInv, TypeOK
<1>1. CASE UNCHANGED identify
  BY <1>0, <1>1 DEF Identify!QueueTypeOK
<1>2. ASSUME NEW r \in Request, CommitEvent(r) PROVE Moves
  <2>1. /\ sent[r] \in Event /\ identify[sent[r]].state = "unsent"
        /\ identify' = [identify EXCEPT ![sent[r]].state = "waiting"]
    BY <1>2, CommitEventEffect
  <2>2. /\ Identify!QueueTypeOK'
        /\ \A f \in Event : f # sent[r] => identify'[f] = identify[f]
    BY <1>0, <2>1, IdentifyQueue
  <2>3. identify'[sent[r]].state = "waiting"
    BY <1>0, <2>1 DEF Identify!QueueTypeOK
  <2> QED
    BY <1>2, <2>1, <2>2, <2>3
<1>3. ASSUME NEW i \in Identifier, NEW e \in Event, FetchEvent(i, e) PROVE Moves
  <2>1. Identify!Deliver(e)
    BY <1>3 DEF FetchEvent
  <2>2. /\ Identify!QueueTypeOK'
        /\ \A f \in Event : f # e => identify'[f] = identify[f]
    BY <1>0, <2>1, IdentifyQueue
  <2>3. identify[e].state = "waiting" /\ identify'[e].state = "active"
    BY <1>0, <2>1 DEF Identify!QueueTypeOK, Identify!Deliver
  <2> QED
    BY <2>2, <2>3
<1>4. ASSUME NEW i \in Identifier, AcknowledgeEvent(i) PROVE Moves
  <2>1. Identify!Complete(itask[i]) /\ itask[i] \in Event
    BY <1>4 DEF AcknowledgeEvent, IInv, HandlerOK
  <2>2. /\ Identify!QueueTypeOK'
        /\ \A f \in Event : f # itask[i] => identify'[f] = identify[f]
    BY <1>0, <2>1, IdentifyQueue
  <2>3. identify'[itask[i]].state = IF identify[itask[i]].state = "active" THEN "completed"
                                    ELSE identify[itask[i]].state
    BY <1>0, <2>1 DEF Identify!QueueTypeOK, Identify!Complete
  <2> QED
    BY <1>4, <2>1, <2>2, <2>3
<1>5. ASSUME NEW e \in Event, GiveEventBack(e) PROVE Moves
  <2>1. Identify!Release(e)
    BY <1>5 DEF GiveEventBack
  <2>2. /\ Identify!QueueTypeOK'
        /\ \A f \in Event : f # e => identify'[f] = identify[f]
    BY <1>0, <2>1, IdentifyQueue
  <2>3. identify[e].state = "active" /\ identify'[e].state \in {"waiting", "failed"}
    BY <1>0, <2>1 DEF Identify!QueueTypeOK, Identify!Release, Identify!Active
  <2> QED
    BY <2>2, <2>3
<1>6. \/ UNCHANGED identify
      \/ \E r \in Request : CommitEvent(r)
      \/ \E i \in Identifier, e \in Event : FetchEvent(i, e)
      \/ \E i \in Identifier : AcknowledgeEvent(i)
      \/ \E e \in Event : GiveEventBack(e)
  <2>1. CASE CampusNext
    BY <2>1 DEF CampusNext, Tick, PlanSession, RevokeWristband
  <2>2. CASE \E r \in Request : RequestNext(r)
    BY <2>2 DEF RequestNext, ReceiveEnvelope, RefuseEnvelope, ReceiveCheckin, Received,
           Refused, ResolveActiveSession, RejectCheckin, InsertEvent, FailRequest
  <2>3. CASE \E i \in Identifier : IdentifierStep(i) \/ FailIdentification(i)
    BY <2>3 DEF IdentifierStep, Correlate, InsertCheckin, CommitCheckin, FailIdentification
  <2>4. CASE DedupNext \/ UNCHANGED vars
    BY <2>4 DEF DedupNext, vars
  <2> QED
    BY <2>1, <2>2, <2>3, <2>4 DEF Next
<1> QED
  BY <1>1, <1>2, <1>3, <1>4, <1>5, <1>6

\* The clock and the types of what the handlers know.
LEMMA ClockMoves ==
  ASSUME IInv, [Next]_vars
  PROVE  /\ ClockCounts'
         /\ clock \in Nat /\ clock' \in Nat /\ clock <= clock'
         /\ clock' \in Stamp \cup {0}
<1>0. clock \in Stamp \cup {0} /\ ClockCounts /\ Identify!QueueTypeOK /\ clock \in Nat
  BY StampRange DEF IInv, TypeOK
<1>1. ASSUME NEW i \in Identifier, NEW e \in Event, FetchEvent(i, e)
      PROVE  clock' = clock + 1 /\ clock' \in Stamp /\ ClockCounts'
  BY <1>1, DeliveryCounts DEF IInv, FetchEvent
<1>2. ASSUME NEW r \in Request, RequestNext(r)
      PROVE  clock' = clock /\ \A e \in Event : identify'[e].tries = identify[e].tries
  <2>1. clock' = clock
    BY <1>2, RequestStepLocal DEF identVars
  <2>2. ASSUME CommitEvent(r)
        PROVE  \A e \in Event : identify'[e].tries = identify[e].tries
    <3>1. PICK f \in Event : identify' = [identify EXCEPT ![f].state = "waiting"]
      BY <2>2, CommitEventEffect
    <3> QED
      BY <1>0, <3>1 DEF Identify!QueueTypeOK
  <2>3. ~CommitEvent(r) => UNCHANGED identify
    BY <1>2 DEF RequestNext, ReceiveEnvelope, RefuseEnvelope, ReceiveCheckin, Received,
           Refused, ResolveActiveSession, RejectCheckin, InsertEvent, FailRequest
  <2> QED
    BY <2>1, <2>2, <2>3
<1>3. ASSUME NEW i \in Identifier, AcknowledgeEvent(i)
      PROVE  clock' = clock /\ \A e \in Event : identify'[e].tries = identify[e].tries
  BY <1>0, <1>3 DEF AcknowledgeEvent, Identify!Complete, Identify!QueueTypeOK
<1>4. ASSUME NEW e \in Event, GiveEventBack(e)
      PROVE  clock' = clock /\ \A f \in Event : identify'[f].tries = identify[f].tries
  BY <1>0, <1>4 DEF GiveEventBack, identVars, Identify!Release, Identify!QueueTypeOK
<1>5. ASSUME \/ CampusNext
             \/ \E i \in Identifier :
                  Correlate(i) \/ InsertCheckin(i) \/ CommitCheckin(i)
                  \/ FailIdentification(i)
             \/ DedupNext
             \/ UNCHANGED vars
      PROVE  clock' = clock /\ identify' = identify
  BY <1>5 DEF CampusNext, Tick, PlanSession, RevokeWristband, identVars, vars, Correlate,
              InsertCheckin, CommitCheckin, FailIdentification, DedupNext
<1>6. \/ \E i \in Identifier, e \in Event : FetchEvent(i, e)
      \/ clock' = clock /\ \A e \in Event : identify'[e].tries = identify[e].tries
  BY <1>2, <1>3, <1>4, <1>5 DEF Next, IdentifierStep
<1> QED
  BY <1>0, <1>1, <1>6, NoDelivery, StampRange

(***************************************************************************)
(* An event, its job and its check-in stay consistent.                     *)
(***************************************************************************)
LEMMA NextEventOK ==
  ASSUME IInv, [Next]_vars, NEW e \in Event
  PROVE  EventOK(e)'
<1>0. EventOK(e) /\ event \in [Event -> RawEvent \cup {None}]
  BY DEF IInv, TypeOK
<1>1. event[e] # None => event'[e] = event[e]
  BY EventsStay
<1>2. event'[e] # None => Sound(event'[e])
  <2>1. ASSUME NEW r \in Request, CommitEvent(r), sent[r] = e
        PROVE  Sound(event'[e])
    BY <1>0, <2>1, CommitEventEffect
  <2>2. ASSUME NEW r \in Request, CommitEvent(r), sent[r] # e
        PROVE  event'[e] = event[e]
    BY <1>0, <2>2, CommitEventEffect
  <2> QED
    BY <1>0, <2>1, <2>2, EventsElsewhere DEF EventOK
<1>3. event'[e] # None => \E r \in Request : sent'[r] = e /\ step'[r] = "created"
  <2>1. CASE event[e] # None
    BY <1>0, <2>1, CreatorsStay DEF EventOK
  <2>2. CASE event[e] = None /\ event'[e] # None
    <3>1. PICK r \in Request : CommitEvent(r)
      BY <2>2, EventsElsewhere
    <3>2. sent[r] = e
      BY <1>0, <2>2, <3>1, CommitEventEffect
    <3> QED
      BY <3>1, <3>2, CommitEventEffect
  <2> QED
    BY <2>1, <2>2
<1>4. identify'[e].state # "unsent" => event'[e] # None
  <2>1. CASE identify[e].state # "unsent"
    BY <1>0, <1>1, <2>1 DEF EventOK
  <2>2. CASE identify[e].state = "unsent" /\ identify'[e].state # "unsent"
    <3>1. PICK r \in Request : CommitEvent(r) /\ sent[r] = e
      BY <2>2, IdentifyMoves
    <3> QED
      BY <1>0, <3>1, CommitEventEffect
  <2> QED
    BY <2>1, <2>2
<1>5. /\ queue'[e].state = "unsent" <=> key'[e] = None
      /\ createdAt'[e] # None => createdAt'[e] \in 1 .. clock'
      /\ key'[e] # None =>
           /\ event'[e] # None
           /\ checkinAt'[e] = event'[e].capturedAt /\ Placed(event'[e], key'[e][2])
           /\ event'[e].signal = "app" => key'[e] = <<"app", event'[e].session>>
  <2>1. ASSUME NEW i \in Identifier, CommitCheckin(i), itask[i] = e
        PROVE  <1>5
    <3>1. /\ event[e] # None /\ startedAt[i] \in 1 .. clock
          /\ Placed(event[e], resolved[i])
          /\ event[e].signal = "app" =>
               resolved[i] = event[e].session /\ event[e].factor = "app"
      BY <2>1 DEF IInv, HandlerOK, EventOK, CommitCheckin, Raw, Sound
    <3>2. /\ key'[e] = <<event[e].factor, resolved[i]>> /\ key'[e] # None
          /\ checkinAt'[e] = event[e].capturedAt
          /\ createdAt'[e] = startedAt[i]
          /\ queue'[e].state = "waiting"
      BY <2>1, CommitCheckinEffect DEF Raw
    <3>3. event'[e] = event[e]
      BY <1>1, <3>1
    <3>4. createdAt'[e] \in 1 .. clock'
      BY <3>1, <3>2, ClockMoves
    <3>5. key'[e][2] = resolved[i] /\ key'[e][1] = event[e].factor
      BY <3>2
    <3> QED
      BY <3>1, <3>2, <3>3, <3>4, <3>5
  <2>2. CASE \A i \in Identifier : CommitCheckin(i) => itask[i] # e
    <3>1. /\ key'[e] = key[e] /\ checkinAt'[e] = checkinAt[e]
          /\ createdAt'[e] = createdAt[e]
          /\ queue'[e].state = "unsent" <=> queue[e].state = "unsent"
      BY <2>2, CommitCheckinEffect, RowsElsewhere DEF rowVars
    <3>2. createdAt[e] # None => createdAt[e] \in 1 .. clock'
      BY <1>0, ClockMoves DEF EventOK
    <3> QED
      BY <1>0, <1>1, <3>1, <3>2 DEF EventOK, Committed
  <2> QED
    BY <2>1, <2>2
<1>6. identify'[e].state = "completed" /\ event'[e].signal = "app" => key'[e] # None
  <2>1. key[e] # None => key'[e] # None
    BY RowsStay DEF Committed
  <2>2. CASE identify[e].state = "completed"
    BY <1>0, <1>1, <2>1, <2>2 DEF EventOK, Committed
  <2>3. CASE identify[e].state # "completed" /\ identify'[e].state = "completed"
    <3>1. PICK i \in Identifier : AcknowledgeEvent(i) /\ itask[i] = e
      BY <2>3, IdentifyMoves
    <3>2. event[e] # None /\ (event[e].signal = "app" => key[e] # None)
      BY <3>1 DEF IInv, HandlerOK, AcknowledgeEvent, Raw, Committed
    <3> QED
      BY <1>1, <2>1, <3>2
  <2> QED
    BY <2>2, <2>3
<1> QED
  BY <1>2, <1>3, <1>4, <1>5, <1>6 DEF EventOK, Committed

-----------------------------------------------------------------------------
(***************************************************************************)
(* The identification handlers.                                            *)
(***************************************************************************)
HandlerAct(i) ==
  \/ \E e \in Event : FetchEvent(i, e)
  \/ IdentifierStep(i)
  \/ FailIdentification(i)

\* A step concerns one handler at most.
LEMMA HandlersElsewhere ==
  ASSUME [Next]_vars, \A i \in Identifier : ~HandlerAct(i)
  PROVE  UNCHANGED <<ipc, itask, startedAt, resolved>>
<1>1. CASE CampusNext
  BY <1>1 DEF CampusNext, Tick, PlanSession, RevokeWristband, identVars
<1>2. CASE \E r \in Request : RequestNext(r)
  BY <1>2 DEF RequestNext, ReceiveEnvelope, RefuseEnvelope, ReceiveCheckin, Received, Refused,
         ResolveActiveSession, RejectCheckin, InsertEvent, CommitEvent, FailRequest, identVars
<1>3. CASE (\E e \in Event : GiveEventBack(e)) \/ DedupNext
  BY <1>3 DEF GiveEventBack, DedupNext, identVars
<1>4. CASE UNCHANGED vars
  BY <1>4 DEF vars, identVars
<1> QED
  BY <1>1, <1>2, <1>3, <1>4 DEF Next, HandlerAct

LEMMA HandlerActLocal ==
  ASSUME IInv, NEW i \in Identifier, HandlerAct(i)
  PROVE  /\ ipc'[i] \in IdentStep /\ ipc' = [ipc EXCEPT ![i] = ipc'[i]]
         /\ itask'[i] \in Event \cup {None} /\ itask' = [itask EXCEPT ![i] = itask'[i]]
         /\ startedAt'[i] \in Stamp \cup {None}
         /\ startedAt' = [startedAt EXCEPT ![i] = startedAt'[i]]
         /\ resolved'[i] \in Session \cup {None}
         /\ resolved' = [resolved EXCEPT ![i] = resolved'[i]]
<1> DEFINE Local ==
         /\ ipc'[i] \in IdentStep /\ ipc' = [ipc EXCEPT ![i] = ipc'[i]]
         /\ itask'[i] \in Event \cup {None} /\ itask' = [itask EXCEPT ![i] = itask'[i]]
         /\ startedAt'[i] \in Stamp \cup {None}
         /\ startedAt' = [startedAt EXCEPT ![i] = startedAt'[i]]
         /\ resolved'[i] \in Session \cup {None}
         /\ resolved' = [resolved EXCEPT ![i] = resolved'[i]]
<1>0. /\ ipc \in [Identifier -> IdentStep]
      /\ itask \in [Identifier -> Event \cup {None}]
      /\ startedAt \in [Identifier -> Stamp \cup {None}]
      /\ resolved \in [Identifier -> Session \cup {None}]
  BY DEF IInv, TypeOK
<1>1. ASSUME NEW e \in Event, FetchEvent(i, e) PROVE Local
  <2>1. clock + 1 \in Stamp
    BY <1>1, DeliveryCounts DEF IInv
  <2> QED
    BY <1>0, <1>1, <2>1 DEF FetchEvent, Goto, IdentStep
<1>2. ASSUME Correlate(i) PROVE Local
  <2>1. ASSUME NEW s \in SessionsOf(i) PROVE s \in Session \cup {None}
    <3>1. Raw(i) \in RawEvent
      BY <1>2 DEF IInv, TypeOK, HandlerOK, Correlate, Raw
    <3> QED
      BY <2>1, <3>1 DEF SessionsOf, SessionsInRoom, InProgress, RawEvent, IInv, TypeOK
  <2> QED
    BY <1>0, <1>2, <2>1 DEF Correlate, Goto, IdentStep
<1>3. ASSUME InsertCheckin(i) PROVE Local
  BY <1>0, <1>3 DEF InsertCheckin, Goto, IdentStep
<1>4. ASSUME CommitCheckin(i) PROVE Local
  BY <1>0, <1>4 DEF CommitCheckin, Goto, IdentStep
<1>5. ASSUME AcknowledgeEvent(i) \/ FailIdentification(i) PROVE Local
  BY <1>0, <1>5 DEF AcknowledgeEvent, FailIdentification, Stop, Goto, IdentStep
<1> QED
  BY <1>1, <1>2, <1>3, <1>4, <1>5 DEF HandlerAct, IdentifierStep

LEMMA AppFactor == "app" # None
BY CheckinPipelineAssumption DEF Factor

\* A handler places its event, and an app check-in keeps its own session.
LEMMA FoundSession ==
  ASSUME IInv, NEW i \in Identifier, ipc[i] = "correlate", NEW s \in SessionsOf(i)
  PROVE  /\ Placed(Raw(i), s)
         /\ Raw(i).signal = "app" => s = Raw(i).session
<1>1. Sound(Raw(i)) /\ Raw(i) \in RawEvent
  BY DEF IInv, TypeOK, HandlerOK, EventOK, Raw
<1>2. CASE Raw(i).room
  <2>1. Within(Raw(i).capturedAt, s)
    BY <1>2, PlacedInSession DEF SessionsOf, SessionsInRoom, Within
  <2> QED
    BY <1>1, <1>2, <2>1 DEF Placed, Sound
<1>3. CASE ~Raw(i).room
  BY <1>1, <1>3 DEF SessionsOf, Placed, Sound
<1> QED
  BY <1>2, <1>3

\* A handler another one did not move.
LEMMA HandlerUntouched ==
  ASSUME IInv, [Next]_vars, NEW i \in Identifier,
         ipc'[i] = ipc[i], itask'[i] = itask[i], startedAt'[i] = startedAt[i],
         resolved'[i] = resolved[i]
  PROVE  HandlerOK(i)'
<1>0. HandlerOK(i)
  BY DEF IInv
<1>1. CASE ipc[i] = "idle"
  BY <1>1 DEF HandlerOK
<1>2. CASE ipc[i] # "idle"
  <2>1. /\ itask[i] \in Event /\ event[itask[i]] # None
        /\ startedAt[i] \in 1 .. clock
    BY <1>0, <1>2 DEF HandlerOK
  <2>2. event'[itask[i]] = event[itask[i]]
    BY <2>1, EventsStay
  <2>3. startedAt[i] \in 1 .. clock'
    BY <2>1, ClockMoves
  <2>4. ipc[i] \in {"correlate", "insert", "commit"} =>
          \A e \in Event : createdAt'[e] # startedAt[i]
    <3> SUFFICES ASSUME ipc[i] \in {"correlate", "insert", "commit"}, NEW e \in Event
                 PROVE  createdAt'[e] # startedAt[i]
      OBVIOUS
    <3>1. createdAt[e] # startedAt[i]
      BY <1>0 DEF HandlerOK
    <3>2. ASSUME NEW j \in Identifier, CommitCheckin(j) PROVE createdAt'[e] # startedAt[i]
      <4>1. createdAt'[e] = createdAt[e] \/ createdAt'[e] = startedAt[j]
        BY <3>2, CommitCheckinEffect
      <4>2. ipc[j] = "commit" /\ ipc'[j] = "done"
        BY <3>2 DEF CommitCheckin, Goto, IInv, TypeOK
      <4>3. startedAt[j] # startedAt[i]
        BY <1>2, <4>2 DEF IInv, HandlersApart
      <4> QED
        BY <3>1, <4>1, <4>3
    <3> QED
      BY <3>1, <3>2, RowsElsewhere DEF rowVars
  <2>5. ipc[i] = "commit" => key'[itask[i]] = None
    <3> SUFFICES ASSUME ipc[i] = "commit" PROVE key'[itask[i]] = None
      OBVIOUS
    <3>1. key[itask[i]] = None
      BY <1>0 DEF HandlerOK, Committed
    <3>2. ASSUME NEW j \in Identifier, CommitCheckin(j) PROVE itask[j] # itask[i]
      <4>1. ipc[j] = "commit" /\ ipc'[j] = "done"
        BY <3>2 DEF CommitCheckin, Goto, IInv, TypeOK
      <4> QED
        BY <4>1 DEF IInv, HandlersApart
    <3>3. ASSUME NEW j \in Identifier, CommitCheckin(j)
          PROVE  key'[itask[i]] = key[itask[i]]
      BY <2>1, <3>2, <3>3, CommitCheckinEffect
    <3> QED
      BY <3>1, <3>3, RowsElsewhere DEF rowVars
  <2>6. key[itask[i]] # None => key'[itask[i]] # None
    BY <2>1, RowsStay DEF Committed
  <2>7. /\ ipc[i] \in {"insert", "commit"} =>
             /\ event[itask[i]].factor # None /\ Placed(event[itask[i]], resolved[i])
             /\ event[itask[i]].signal = "app" => resolved[i] = event[itask[i]].session
        /\ ipc[i] = "done" /\ event[itask[i]].signal = "app" => key[itask[i]] # None
    BY <1>0 DEF HandlerOK, Raw, Committed
  <2> QED
    BY <2>1, <2>2, <2>3, <2>4, <2>5, <2>6, <2>7 DEF HandlerOK, Raw, Committed
<1> QED
  BY <1>1, <1>2

LEMMA NextHandlerOK ==
  ASSUME IInv, [Next]_vars, NEW i \in Identifier
  PROVE  HandlerOK(i)'
<1>0. /\ ipc \in [Identifier -> IdentStep] /\ itask \in [Identifier -> Event \cup {None}]
      /\ startedAt \in [Identifier -> Stamp \cup {None}]
      /\ resolved \in [Identifier -> Session \cup {None}]
      /\ HandlerOK(i)
  BY DEF IInv, TypeOK
<1>1. CASE ~HandlerAct(i)
  <2>1. /\ ipc'[i] = ipc[i] /\ itask'[i] = itask[i] /\ startedAt'[i] = startedAt[i]
        /\ resolved'[i] = resolved[i]
    BY <1>0, <1>1, HandlersElsewhere, HandlerActLocal
  <2> QED
    BY <2>1, HandlerUntouched
<1>2. ASSUME NEW e \in Event, FetchEvent(i, e) PROVE HandlerOK(i)'
  <2>1. identify[e].state = "waiting"
    BY <1>2 DEF FetchEvent, Identify!Deliver
  <2>2. event[e] # None /\ event'[e] = event[e]
    BY <2>1, EventsStay DEF IInv, EventOK
  <2>3. /\ ipc'[i] = "correlate" /\ itask'[i] = e /\ startedAt'[i] = clock + 1
        /\ clock' = clock + 1 /\ createdAt' = createdAt
    BY <1>0, <1>2 DEF FetchEvent, Goto, dedupVars, rowVars
  <2>4. clock \in Nat
    BY ClockMoves
  <2>5. \A f \in Event : createdAt[f] # clock + 1
    <3> SUFFICES ASSUME NEW f \in Event, createdAt[f] = clock + 1 PROVE FALSE
      OBVIOUS
    <3>1. clock + 1 # None
      BY <1>2, DeliveryCounts, CheckinPipelineAssumption DEF IInv
    <3>2. createdAt[f] \in 1 .. clock
      BY <3>1 DEF IInv, EventOK
    <3> QED
      BY <2>4, <3>2
  <2> QED
    BY <2>2, <2>3, <2>4, <2>5 DEF HandlerOK
<1>3. ASSUME Correlate(i) PROVE HandlerOK(i)'
  <2>1. /\ itask'[i] = itask[i] /\ startedAt'[i] = startedAt[i] /\ clock' = clock
        /\ event' = event /\ createdAt' = createdAt /\ ipc[i] = "correlate"
    BY <1>3 DEF Correlate, dedupVars, rowVars
  <2>2. CASE ipc'[i] = "insert" /\ Known(i) /\ \E s \in SessionsOf(i) : resolved'[i] = s
    <3>1. /\ Raw(i).factor # None /\ Placed(Raw(i), resolved'[i])
          /\ Raw(i).signal = "app" => resolved'[i] = Raw(i).session
      BY <2>1, <2>2, FoundSession DEF Known
    <3> QED
      BY <1>0, <2>1, <2>2, <3>1 DEF HandlerOK, Raw
  <2>3. CASE ipc'[i] = "done" /\ ~Known(i)
    <3>1. Raw(i).signal # "app"
      BY <1>0, <2>1, <2>3, AppFactor DEF IInv, HandlerOK, EventOK, Raw, Known, Sound
    <3> QED
      BY <1>0, <2>1, <2>3, <3>1 DEF HandlerOK, Raw
  <2> QED
    BY <1>0, <1>3, <2>2, <2>3 DEF Correlate, Goto
<1>4. ASSUME InsertCheckin(i) PROVE HandlerOK(i)'
  <2>1. /\ itask'[i] = itask[i] /\ startedAt'[i] = startedAt[i] /\ clock' = clock
        /\ resolved'[i] = resolved[i]
        /\ event' = event /\ createdAt' = createdAt /\ key' = key /\ ipc[i] = "insert"
        /\ \/ key[itask[i]] # None /\ ipc'[i] = "done"
           \/ key[itask[i]] = None /\ ipc'[i] = "commit"
    BY <1>0, <1>4 DEF InsertCheckin, dedupVars, rowVars, Goto, Dedup!Committed
  <2> QED
    BY <1>0, <2>1 DEF HandlerOK, Raw, Committed
<1>5. ASSUME CommitCheckin(i) PROVE HandlerOK(i)'
  <2>1. /\ itask'[i] = itask[i] /\ startedAt'[i] = startedAt[i] /\ clock' = clock
        /\ event' = event /\ ipc[i] = "commit" /\ ipc'[i] = "done"
    BY <1>0, <1>5 DEF CommitCheckin, Goto
  <2>2. key'[itask[i]] # None
    BY <1>5, CommitCheckinEffect
  <2> QED
    BY <1>0, <2>1, <2>2 DEF HandlerOK, Raw, Committed
<1>6. ASSUME AcknowledgeEvent(i) \/ FailIdentification(i) PROVE HandlerOK(i)'
  <2>1. ipc'[i] = "idle"
    BY <1>0, <1>6 DEF AcknowledgeEvent, FailIdentification, Stop, Goto
  <2> QED
    BY <2>1 DEF HandlerOK
<1> QED
  BY <1>1, <1>2, <1>3, <1>4, <1>5, <1>6 DEF HandlerAct, IdentifierStep

\* No two transactions start at once, or insert a check-in of one event.
LEMMA NextHandlersApart == IInv /\ [Next]_vars => HandlersApart'
<1> SUFFICES ASSUME IInv, [Next]_vars PROVE HandlersApart'
  OBVIOUS
<1>0. HandlersApart
  BY DEF IInv
<1>1. CASE UNCHANGED <<ipc, itask, startedAt, resolved>>
  BY <1>0, <1>1 DEF HandlersApart
<1>2. ASSUME NEW i \in Identifier, HandlerAct(i) PROVE HandlersApart'
  <2>1. \A j \in Identifier : j # i =>
          ipc'[j] = ipc[j] /\ itask'[j] = itask[j] /\ startedAt'[j] = startedAt[j]
    BY <1>2, HandlerActLocal DEF IInv, TypeOK
  <2>2. ASSUME NEW j \in Identifier, j # i, ipc'[i] # "idle", ipc[j] # "idle"
        PROVE  /\ startedAt'[i] # startedAt[j]
               /\ ipc'[i] = "commit" /\ ipc[j] = "commit" => itask'[i] # itask[j]
    <3>1. ASSUME NEW e \in Event, FetchEvent(i, e)
          PROVE  startedAt'[i] # startedAt[j] /\ ipc'[i] # "commit"
      <4>1. startedAt'[i] = clock + 1 /\ ipc'[i] = "correlate"
        BY <3>1 DEF FetchEvent, Goto, IInv, TypeOK
      <4>2. startedAt[j] \in 1 .. clock /\ clock \in Nat
        BY <2>2, ClockMoves DEF IInv, HandlerOK
      <4> QED
        BY <4>1, <4>2
    <3>2. ASSUME Correlate(i) \/ CommitCheckin(i)
          PROVE  /\ startedAt'[i] = startedAt[i] /\ ipc[i] # "idle"
                 /\ ipc'[i] # "commit"
      BY <3>2 DEF Correlate, CommitCheckin, Goto, IInv, TypeOK
    <3>3. ASSUME InsertCheckin(i)
          PROVE  /\ startedAt'[i] = startedAt[i] /\ ipc[i] # "idle"
                 /\ ipc[j] = "commit" => itask'[i] # itask[j]
      BY <2>2, <3>3 DEF InsertCheckin, CheckinBusy
    <3>4. ASSUME AcknowledgeEvent(i) \/ FailIdentification(i) PROVE ipc'[i] = "idle"
      BY <3>4 DEF AcknowledgeEvent, FailIdentification, Stop, Goto, IInv, TypeOK
    <3> QED
      BY <1>0, <1>2, <2>2, <3>1, <3>2, <3>3, <3>4
         DEF HandlerAct, IdentifierStep, HandlersApart
  <2> QED
    BY <1>0, <2>1, <2>2 DEF HandlersApart
<1> QED
  BY <1>1, <1>2, HandlersElsewhere

-----------------------------------------------------------------------------
\* The invariant is inductive.
LEMMA InitInv == Init => IInv
<1> SUFFICES ASSUME Init PROVE IInv
  OBVIOUS
<1>1. Dedup!TypeOK
  BY CheckinPipelineAssumption
     DEF Init, Dedup!Init, Dedup!TypeOK, Dedup!Jobs!QueueInit, Dedup!Jobs!QueueTypeOK,
         Dedup!Jobs!JobState, Dedup!Step
<1>2. Identify!QueueTypeOK
  BY CheckinPipelineAssumption
     DEF Init, Identify!QueueInit, Identify!QueueTypeOK, Identify!JobState
<1>3. TypeOK
  BY <1>1, <1>2, CheckinPipelineAssumption DEF Init, TypeOK, Time, RequestStep, IdentStep
<1>4. \A r \in Request : RequestOK(r)
  BY DEF Init, RequestOK
<1>5. OneWriter
  BY DEF Init, OneWriter
<1>6. \A e \in Event : EventOK(e)
  BY DEF Init, EventOK, Dedup!Init, Dedup!Jobs!QueueInit, Identify!QueueInit, Committed
<1>7. (\A i \in Identifier : HandlerOK(i)) /\ HandlersApart
  BY DEF Init, HandlerOK, HandlersApart
<1>8. ClockCounts
  <2>1. Deliveries = {}
    BY CheckinPipelineAssumption DEF Init, Identify!QueueInit, Deliveries
  <2> QED
    BY <2>1, FS_EmptySet DEF Init, ClockCounts
<1> QED
  BY <1>3, <1>4, <1>5, <1>6, <1>7, <1>8 DEF IInv

LEMMA NextType == IInv /\ [Next]_vars => TypeOK'
<1> SUFFICES ASSUME IInv, [Next]_vars PROVE TypeOK'
  OBVIOUS
<1>0. TypeOK
  BY DEF IInv
<1>1. now' \in Time /\ planned' \subseteq Session /\ wristband' \in {"active", "inactive"}
  <2>1. CASE CampusNext
    BY <1>0, <2>1, CheckinPipelineAssumption
       DEF TypeOK, CampusNext, Tick, PlanSession, RevokeWristband, Time
  <2>2. CASE UNCHANGED campusVars
    BY <1>0, <2>2 DEF TypeOK, campusVars
  <2>3. ASSUME NEW r \in Request, RequestNext(r) PROVE UNCHANGED campusVars
    BY <2>3, RequestStepLocal
  <2>4. ASSUME NEW i \in Identifier, HandlerAct(i) PROVE UNCHANGED campusVars
    BY <2>4 DEF HandlerAct, FetchEvent, IdentifierStep, Correlate, InsertCheckin,
                CommitCheckin, AcknowledgeEvent, FailIdentification
  <2>5. CASE (\E e \in Event : GiveEventBack(e)) \/ DedupNext \/ UNCHANGED vars
    BY <2>2, <2>5 DEF GiveEventBack, DedupNext, vars
  <2> QED
    BY <2>1, <2>2, <2>3, <2>4, <2>5 DEF Next, HandlerAct
<1>2. /\ step' \in [Request -> RequestStep]
      /\ sent' \in [Request -> Event \cup {None}]
      /\ payload' \in [Request -> RawEvent \cup {None}]
  <2>1. ASSUME NEW r \in Request, RequestNext(r) PROVE <1>2
    BY <1>0, <2>1, RequestStepLocal DEF TypeOK
  <2> QED
    BY <1>0, <2>1, RequestsElsewhere DEF TypeOK, requestVars
<1>3. event' \in [Event -> RawEvent \cup {None}]
  <2>1. ASSUME NEW r \in Request, CommitEvent(r) PROVE <1>3
    BY <1>0, <2>1, CommitEventEffect DEF TypeOK
  <2> QED
    BY <1>0, <2>1, EventsElsewhere DEF TypeOK
<1>4. Identify!QueueTypeOK' /\ clock' \in Stamp \cup {0}
  BY IdentifyMoves, ClockMoves
<1>5. /\ ipc' \in [Identifier -> IdentStep]
      /\ itask' \in [Identifier -> Event \cup {None}]
      /\ startedAt' \in [Identifier -> Stamp \cup {None}]
      /\ resolved' \in [Identifier -> Session \cup {None}]
  <2>1. ASSUME NEW i \in Identifier, HandlerAct(i) PROVE <1>5
    BY <1>0, <2>1, HandlerActLocal DEF TypeOK
  <2> QED
    BY <1>0, <2>1, HandlersElsewhere DEF TypeOK
<1>6. Dedup!TypeOK'
  BY <1>0, StepRefines, DedupType DEF TypeOK
<1> QED
  BY <1>1, <1>2, <1>3, <1>4, <1>5, <1>6 DEF TypeOK

LEMMA NextInv == IInv /\ [Next]_vars => IInv'
BY NextType, NextRequestOK, NextOneWriter, NextEventOK, NextHandlerOK, NextHandlersApart,
   ClockMoves DEF IInv

LEMMA Invariance == Spec => []IInv
BY InitInv, NextInv, PTL DEF Spec

-----------------------------------------------------------------------------
(***************************************************************************)
(* Type correctness of the pipeline, for any number of resends, of         *)
(* redeliveries and of workers: in particular every transaction that may   *)
(* still start has a start time no earlier one has.                        *)
(***************************************************************************)
THEOREM TypeCorrect == Spec => []TypeOK
BY Invariance, PTL DEF IInv

(***************************************************************************)
(* However the resends of a submission race, the event an answer names is  *)
(* stored, and exactly one answer says "created".                          *)
(***************************************************************************)
THEOREM OneCreates == Spec => []OneAnswerCreates
<1>1. IInv => OneAnswerCreates
  <2> SUFFICES ASSUME IInv PROVE OneAnswerCreates
    OBVIOUS
  <2>1. \A r \in Request : step[r] \in {"created", "duplicate"} => event[sent[r]] # None
    BY DEF IInv, RequestOK
  <2>2. ASSUME NEW e \in Event, event[e] # None
        PROVE  Cardinality({r \in Request : sent[r] = e /\ step[r] = "created"}) = 1
    <3>1. PICK r \in Request : sent[r] = e /\ step[r] = "created"
      BY <2>2 DEF IInv, EventOK
    <3>2. {q \in Request : sent[q] = e /\ step[q] = "created"} = {r}
      BY <3>1 DEF IInv, OneWriter
    <3> QED
      BY <3>2, FS_Singleton
  <2> QED
    BY <2>1, <2>2 DEF OneAnswerCreates
<1> QED
  BY <1>1, Invariance, PTL

(***************************************************************************)
(* A check-in the server placed in a session was captured during it,       *)
(* whatever is planned, revoked or delayed between the capture and the     *)
(* placing; only a custom event with no room can choose its own session.   *)
(***************************************************************************)
THEOREM CapturedDuring == Spec => []CapturedDuringItsSession
<1>1. IInv => CapturedDuringItsSession
  BY DEF IInv, EventOK, Committed, Within, Placed, NamesItsSession, CapturedDuringItsSession,
         Dedup!Committed
<1> QED
  BY <1>1, Invariance, PTL

(***************************************************************************)
(* An accepted app check-in whose job is done has a row, in the session it *)
(* was accepted for.                                                       *)
(***************************************************************************)
THEOREM AcceptedCount == Spec => []AcceptedCheckinsCount
<1>1. IInv => AcceptedCheckinsCount
  BY DEF IInv, EventOK, AcceptedCheckinsCount
<1> QED
  BY <1>1, Invariance, PTL

(***************************************************************************)
(* The pipeline implements the deduplication stage as module Deduplication *)
(* sees it: rows appear once, whole, with a start time of their own and    *)
(* together with their job, although the requests are resent, the          *)
(* identification jobs redelivered and the transactions rolled back.       *)
(***************************************************************************)
THEOREM Refinement == Spec => ImplementsDeduplication
BY InitRefines, StepRefines, Invariance, PTL
   DEF Spec, ImplementsDeduplication, Dedup!Spec
=============================================================================
