---------------------------- MODULE MobileCheckin ----------------------------
(***************************************************************************)
(* The check-in of the mobile app: useCheckIn keeps the idempotency key of *)
(* the one pending check-in on disk until an answer arrives, and submits   *)
(* it on a tap, on a mount and when the app comes to the foreground.  Each *)
(* attempt is a coroutine: it reads the slot, perhaps saves a new key, and *)
(* becomes a mutation that waits for the network.  Requests outlive the    *)
(* app that sent them.  One student; the backend handles a request in one  *)
(* step (CheckinPipeline has its statements).                              *)
(***************************************************************************)
EXTENDS Naturals, FiniteSets

CONSTANTS Attempt,    \* coroutines of the app
          Key,        \* idempotency keys
          Session,    \* class sessions of the student
          Timetable,  \* sessions in progress at each time
          MaxTime,    \* bound of the backend's clock
          MaxFaults,  \* bound of kills, drops of the network and lost requests
          Null

ASSUME TimetableAssumption ==
  /\ MaxTime \in Nat /\ MaxFaults \in Nat
  /\ Timetable \in [0..MaxTime -> SUBSET Session]
  /\ Null \notin Key \cup Session \cup Attempt

VARIABLES now,      \* clock of the backend
          recorded,   \* session of the raw event stored under each key
          wire,     \* key of each attempt's request, until the backend has it
          running,  \* the app's process exists
          online,   \* what NetInfo reports
          slot,     \* pendingCheckIn in AsyncStorage
          attempt,  \* coroutine of each attempt
          mine,     \* the mutation the mounted hook observes
          ui,       \* phase of uiState
          saved,    \* keys that have been in the slot
          learned,  \* keys whose outcome an answer has told
          overlap,  \* a tap or a retry has begun while another was at work
          faults    \* faults so far

server == <<now, recorded>>
history == <<saved, learned, overlap>>
checkinVars == <<now, recorded, wire, running, online, slot, attempt, mine, ui, saved, learned, overlap, faults>>

Resting == [pc |-> "idle", kind |-> "retry", key |-> Null, answer |-> Null]

Coroutine ==
  [pc: {"idle", "reading", "read", "saving", "paused", "sent", "answered", "clearing", "refetching"},
   kind: {"tap", "retry"}, key: Key \cup {Null}, answer: {"created", "known", "refused", Null}]

CheckinInit ==
  /\ now = 0 /\ recorded = [k \in Key |-> Null] /\ wire = [a \in Attempt |-> Null]
  /\ running = TRUE /\ online = TRUE /\ slot = Null
  /\ attempt = [a \in Attempt |-> Resting]
  /\ mine = Null /\ ui = "idle"
  /\ saved = {} /\ learned = {} /\ overlap = FALSE /\ faults = 0

----------------------------------------------------------------------------
(* TanStack Query's mutations: pending from mutate until the callbacks of  *)
(* the mutation have returned; paused while offline; never retried.        *)

Pending(a) == attempt[a].pc \in {"paused", "sent", "answered", "clearing", "refetching"}

IsMutating == \E a \in Attempt : Pending(a)

Mutate(a, k) ==
  /\ attempt' = [attempt EXCEPT ![a].pc = IF online THEN "sent" ELSE "paused", ![a].key = k]
  /\ wire' = IF online THEN [wire EXCEPT ![a] = k] ELSE wire
  /\ mine' = a

\* Returning online, resumePausedMutations sends what was paused.
ResumePaused(a) ==
  /\ attempt[a].pc = "paused" /\ online
  /\ attempt' = [attempt EXCEPT ![a].pc = "sent"]
  /\ wire' = [wire EXCEPT ![a] = attempt[a].key]
  /\ UNCHANGED <<faults, server, running, online, slot, mine, ui, history>>

----------------------------------------------------------------------------
(* Attempts.                                                               *)

\* An attempt whose previous request is still under way is not free.
Free(a) == running /\ attempt[a] = Resting /\ wire[a] = Null

AtWork(a) == attempt[a].pc \in {"reading", "read", "saving"}

Start(a, kind) ==
  /\ Free(a)
  /\ attempt' = [attempt EXCEPT ![a].pc = "reading", ![a].kind = kind]
  /\ overlap' = (overlap \/ \E b \in Attempt : AtWork(b) \/ (kind = "tap" /\ Pending(b)))
  /\ UNCHANGED <<faults, server, wire, running, online, slot, mine, ui, saved, learned>>

ButtonDisabled == mine # Null /\ Pending(mine)

\* submit: the button is disabled while the observed mutation is pending.
Tap(a) ==
  /\ ~ButtonDisabled
  /\ Start(a, "tap")

\* retryIfPending, on the mount of the hook and on every foreground.
Foreground(a) == Start(a, "retry")

\* getPendingCheckIn: its caller goes on later with what is read now.
ReadSlot(a) ==
  /\ attempt[a].pc = "reading"
  /\ attempt' = [attempt EXCEPT ![a].pc = "read", ![a].key = slot]
  /\ UNCHANGED <<faults, server, wire, running, online, slot, mine, ui, history>>

Continues(a, kind) == attempt[a].pc = "read" /\ attempt[a].kind = kind

\* submit with a pending check-in: the same key again.
ResubmitSaved(a) ==
  /\ Continues(a, "tap") /\ attempt[a].key # Null
  /\ Mutate(a, attempt[a].key)
  /\ ui' = "queued"
  /\ UNCHANGED <<faults, server, running, online, slot, history>>

\* Mutant: a tap always takes a new key.
MintAnother(a) ==
  /\ Continues(a, "tap")
  /\ \E k \in Key \ saved :
       /\ \A b \in Attempt : attempt[b].key # k
       /\ attempt' = [attempt EXCEPT ![a].pc = "saving", ![a].key = k]
  /\ UNCHANGED <<faults, server, wire, running, online, slot, mine, ui, history>>

\* submit without one: a new key, to be saved before it is sent.
MintKey(a) ==
  /\ Continues(a, "tap") /\ attempt[a].key = Null
  /\ \E k \in Key \ saved :
       /\ \A b \in Attempt : attempt[b].key # k
       /\ attempt' = [attempt EXCEPT ![a].pc = "saving", ![a].key = k]
  /\ UNCHANGED <<faults, server, wire, running, online, slot, mine, ui, history>>

SaveKey(a) ==
  /\ attempt[a].pc = "saving"
  /\ slot' = attempt[a].key
  /\ saved' = saved \cup {attempt[a].key}
  /\ Mutate(a, attempt[a].key)
  /\ UNCHANGED <<faults, server, running, online, ui, learned, overlap>>

\* Mutant: a retry asks only its own hook instance.
MayRetryBeside(a) == attempt[a].key # Null /\ ~ButtonDisabled

MayRetry(a) == attempt[a].key # Null /\ ~IsMutating

RetryPending(a) ==
  /\ Continues(a, "retry")
  /\ IF MayRetry(a)
     THEN Mutate(a, attempt[a].key) /\ ui' = "queued"
     ELSE attempt' = [attempt EXCEPT ![a] = Resting] /\ UNCHANGED <<wire, mine, ui>>
  /\ UNCHANGED <<faults, server, running, online, slot, history>>

----------------------------------------------------------------------------
(* The backend and the network.                                            *)

Reply(a, answer) ==
  attempt' = IF attempt[a].pc = "sent"
             THEN [attempt EXCEPT ![a].pc = "answered", ![a].answer = answer]
             ELSE attempt

\* AppCheckinService.submit: the session of the backend's clock first, then
\* the insert that ignores a known key.
Submit(a) ==
  /\ wire[a] # Null
  /\ wire' = [wire EXCEPT ![a] = Null]
  /\ IF Cardinality(Timetable[now]) # 1
     THEN Reply(a, "refused") /\ UNCHANGED recorded
     ELSE IF recorded[wire[a]] # Null
     THEN Reply(a, "known") /\ UNCHANGED recorded
     ELSE /\ Reply(a, "created")
          /\ recorded' = [recorded EXCEPT ![wire[a]] = CHOOSE s \in Timetable[now] : TRUE]
  /\ UNCHANGED <<faults, now, running, online, slot, mine, ui, history>>

\* Any other error answer: an expired login, too many requests, a failure
\* that rolls the transaction back.
Reject(a) ==
  /\ wire[a] # Null
  /\ wire' = [wire EXCEPT ![a] = Null]
  /\ Reply(a, "refused")
  /\ UNCHANGED <<faults, server, running, online, slot, mine, ui, history>>

Fault == faults < MaxFaults /\ faults' = faults + 1

\* fetch rejects: the request was lost, is still under way, or its answer was
\* lost.  onError keeps the slot.
Unreached(a) ==
  /\ attempt[a].pc \in {"sent", "answered"}
  /\ attempt' = [attempt EXCEPT ![a] = Resting]
  /\ ui' = "queued"

NetworkError(a) ==
  /\ Unreached(a) /\ Fault
  /\ \/ UNCHANGED wire
     \/ wire[a] # Null /\ wire' = [wire EXCEPT ![a] = Null]
  /\ UNCHANGED <<server, running, online, slot, mine, history>>

DropOrphan(a) ==
  /\ wire[a] # Null /\ attempt[a].pc # "sent"
  /\ wire' = [wire EXCEPT ![a] = Null]
  /\ UNCHANGED <<faults, server, running, online, slot, attempt, mine, ui, history>>

----------------------------------------------------------------------------
(* Answers.                                                                *)

\* Mutant: only a success empties the slot.
TakeSuccess(a) ==
  /\ attempt[a].pc = "answered"
  /\ attempt' = [attempt EXCEPT ![a].pc = "clearing"]
  /\ slot' = IF attempt[a].answer = "refused" THEN slot ELSE Null
  /\ learned' = learned \cup {attempt[a].key}
  /\ UNCHANGED <<faults, server, wire, running, online, mine, ui, saved, overlap>>

\* The answer reaches onSuccess or onError, which awaits clearPendingCheckIn.
TakeAnswer(a) ==
  /\ attempt[a].pc = "answered"
  /\ attempt' = [attempt EXCEPT ![a].pc = "clearing"]
  /\ slot' = Null
  /\ learned' = learned \cup {attempt[a].key}
  /\ UNCHANGED <<faults, server, wire, running, online, mine, ui, saved, overlap>>

\* After it: success awaits the refetch of the attendance list.
ShowAnswer(a) ==
  /\ attempt[a].pc = "clearing"
  /\ IF attempt[a].answer = "refused"
     THEN ui' = "error" /\ attempt' = [attempt EXCEPT ![a] = Resting]
     ELSE ui' = "success" /\ attempt' = [attempt EXCEPT ![a].pc = "refetching"]
  /\ UNCHANGED <<faults, server, wire, running, online, slot, mine, history>>

Refetched(a) ==
  /\ attempt[a].pc = "refetching" /\ online
  /\ attempt' = [attempt EXCEPT ![a] = Resting]
  /\ UNCHANGED <<faults, server, wire, running, online, slot, mine, ui, history>>

----------------------------------------------------------------------------
(* The environment.                                                        *)

Tick ==
  /\ now < MaxTime /\ now' = now + 1
  /\ UNCHANGED <<faults, recorded, wire, running, online, slot, attempt, mine, ui, history>>

GoOffline ==
  /\ online /\ online' = FALSE /\ Fault
  /\ UNCHANGED <<server, wire, running, slot, attempt, mine, ui, history>>

GoOnline ==
  /\ ~online /\ online' = TRUE
  /\ UNCHANGED <<faults, server, wire, running, slot, attempt, mine, ui, history>>

\* Mutant: the mutation cache outlives the process.
KillHook ==
  /\ running /\ running' = FALSE /\ Fault
  /\ UNCHANGED <<server, wire, online, slot, attempt, mine, ui, history>>

\* Memory is lost, AsyncStorage and requests under way are not.
Kill ==
  /\ running /\ running' = FALSE /\ Fault
  /\ attempt' = [a \in Attempt |-> Resting]
  /\ mine' = Null /\ ui' = "idle"
  /\ UNCHANGED <<server, wire, online, slot, history>>

Launch ==
  /\ ~running /\ running' = TRUE
  /\ UNCHANGED <<faults, server, wire, online, slot, attempt, mine, ui, history>>

\* A new hook instance observes no mutation; those of the old one go on.
Remount ==
  /\ running /\ \A a \in Attempt : ~AtWork(a)
  /\ mine # Null /\ mine' = Null /\ ui' = "idle"
  /\ UNCHANGED <<faults, server, wire, running, online, slot, attempt, history>>

\* The steps of a coroutine that do not depend on the user.
Proceed(a) ==
  \/ ReadSlot(a) \/ ResubmitSaved(a) \/ MintKey(a) \/ SaveKey(a) \/ RetryPending(a)
  \/ ResumePaused(a) \/ TakeAnswer(a) \/ ShowAnswer(a) \/ Refetched(a)

Respond(a) == Submit(a) \/ Reject(a)

CheckinNext ==
  \/ \E a \in Attempt :
       \/ Tap(a) \/ Foreground(a) \/ Proceed(a)
       \/ Respond(a) \/ NetworkError(a) \/ DropOrphan(a)
  \/ Tick \/ GoOffline \/ GoOnline \/ Kill \/ Launch \/ Remount

CheckinSpec == CheckinInit /\ [][CheckinNext]_checkinVars

\* The event loop runs, requests end, the network comes back, and a user who
\* has a pending check-in opens the app.  Nothing obliges the user to tap.
CheckinFairSpec ==
  /\ CheckinSpec
  /\ WF_checkinVars(Launch) /\ WF_checkinVars(GoOnline)
  /\ \A a \in Attempt :
       WF_checkinVars(Foreground(a)) /\ WF_checkinVars(Proceed(a)) /\ WF_checkinVars(Respond(a))

----------------------------------------------------------------------------
(* Properties.                                                             *)

\* Values have their types, and only a live app has coroutines.
CheckinTypeOK ==
  /\ now \in 0..MaxTime /\ recorded \in [Key -> Session \cup {Null}]
  /\ wire \in [Attempt -> Key \cup {Null}]
  /\ running \in BOOLEAN /\ online \in BOOLEAN /\ slot \in Key \cup {Null}
  /\ attempt \in [Attempt -> Coroutine] /\ mine \in Attempt \cup {Null}
  /\ ui \in {"idle", "queued", "success", "error"}
  /\ saved \subseteq Key /\ learned \subseteq saved /\ overlap \in BOOLEAN
  /\ faults \in 0..MaxFaults
  /\ ~running => mine = Null /\ \A a \in Attempt : attempt[a] = Resting

\* use-checkin.ts:45 and 63: a check-in nobody has answered is on disk under
\* its key, through lost requests, lost answers, kills and restarts, so that
\* the next attempt resends it instead of a second one; unless attempts
\* overlapped.
UnansweredIsKept == ~overlap => \A k \in saved \ learned : slot = k

\* use-checkin.ts:80: a retry on mount or foreground never runs beside a
\* submission that is paused or under way, not even one of an earlier screen.
OneSubmissionAtATime ==
  ~overlap => \A a, b \in Attempt : Pending(a) /\ Pending(b) => a = b

\* use-checkin.ts:21: a pending check-in is eventually settled.
PendingIsSettled == slot # Null ~> slot = Null
=============================================================================
