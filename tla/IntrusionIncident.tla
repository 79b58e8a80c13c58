------------------------- MODULE IntrusionIncident -------------------------
(***************************************************************************)
(* Intrusion incidents of one tenant: the ingestion of security signals    *)
(* (security-ingestion.service.ts), the workers that correlate each signal *)
(* into the open incident or open one (intrusion-detection.service.ts),    *)
(* and the security staff who close incidents                              *)
(* (security-incident.service.ts).                                         *)
(*                                                                         *)
(* A detection and a closing request are READ COMMITTED transactions.  A   *)
(* statement sees what is committed when it runs; a row that a transaction *)
(* inserted or updated is locked, and the change hidden from the others,   *)
(* until the transaction ends.  The partial unique index over open         *)
(* incidents makes an INSERT wait for a transaction that is inserting or   *)
(* updating an open incident, and fail if one is open once it ended.       *)
(*                                                                         *)
(* Left out: the identity an incident carries, and the note and outcome of *)
(* a closure, which are written with the fields modelled and never alone.  *)
(***************************************************************************)
EXTENDS Naturals, FiniteSets

CONSTANTS
  Signal,      \* idempotency keys of security signals, one per raw_security_event
  Area,        \* areas of the campus
  Incident,    \* identifiers of intrusion_incident rows (a bound)
  Detector,    \* backend processes polling the detect-intrusion queue
  Closer,      \* requests in progress to close an incident
  Staff,       \* people with the manage_security_incidents permission
  RetryLimit,  \* redeliveries of a job
  None         \* SQL's NULL, and "no row"

Kind        == {"barrier crossing", "reader scan"}
SignalRow   == [kind : Kind, area : Area]
IncidentRow == [area : Area, closedBy : Staff \cup {None}]

ASSUME IntrusionIncidentAssumption ==
  /\ RetryLimit \in Nat
  /\ Detector \cap Closer = {}
  /\ \A S \in {Signal, Area, Incident, Detector, Closer, Staff, SignalRow, IncidentRow} :
       None \notin S

VARIABLES
  signal,        \* committed raw_security_event rows
  queue,         \* the detect-intrusion queue, one job per signal
  incident,      \* committed intrusion_incident rows
  entries,       \* number of committed location entries of each signal per incident
  incidentLock,  \* transaction holding each incident's row
  pc,            \* next statement of every detector and closer
  task,          \* signal each detector was handed
  target,        \* incident each transaction is working on
  closedBy       \* staff member behind each closing request

tables  == <<signal, incident, entries>>
private == <<task, target, closedBy>>
vars    == <<tables, queue, incidentLock, pc, private>>

Jobs == INSTANCE JobQueue WITH Job <- Signal

Detecting   == {"evaluate", "find", "append", "open", "lookup", "appended", "opened",
                "joined", "done"}
Closing     == {"close", "closed"}

TypeOK ==
  /\ signal \in [Signal -> SignalRow \cup {None}]
  /\ Jobs!QueueTypeOK
  /\ incident \in [Incident -> IncidentRow \cup {None}]
  /\ entries \in [Signal -> [Incident -> Nat]]
  /\ incidentLock \in [Incident -> Detector \cup Closer \cup {None}]
  /\ pc \in [Detector \cup Closer -> {"idle"} \cup Detecting \cup Closing]
  /\ task \in [Detector -> Signal \cup {None}]
  /\ target \in [Detector \cup Closer -> Incident \cup {None}]
  /\ closedBy \in [Closer -> Staff \cup {None}]
  /\ \A d \in Detector : pc[d] \in {"idle"} \cup Detecting
  /\ \A q \in Closer : pc[q] \in {"idle"} \cup Closing

Init ==
  /\ signal = [s \in Signal |-> None]
  /\ Jobs!QueueInit
  /\ incident = [i \in Incident |-> None]
  /\ entries = [s \in Signal |-> [i \in Incident |-> 0]]
  /\ incidentLock = [i \in Incident |-> None]
  /\ pc = [a \in Detector \cup Closer |-> "idle"]
  /\ task = [d \in Detector |-> None]
  /\ target = [a \in Detector \cup Closer |-> None]
  /\ closedBy = [q \in Closer |-> None]

-----------------------------------------------------------------------------
Recorded(i) == incident[i] # None
Open(i)     == Recorded(i) /\ incident[i].closedBy = None
Closed(i)   == Recorded(i) /\ incident[i].closedBy # None

Correlated(s) == \E i \in Incident : entries[s][i] > 0

(***************************************************************************)
(* ingest: the row and its job are committed together.  A repeated         *)
(* idempotency key inserts nothing and sends no job.                       *)
(***************************************************************************)
Ingest(s, k, a) ==
  /\ signal[s] = None
  /\ signal' = [signal EXCEPT ![s] = [kind |-> k, area |-> a]]
  /\ Jobs!Send(s)
  /\ UNCHANGED <<incident, entries, incidentLock, pc, private>>

-----------------------------------------------------------------------------
Goto(a, step) == pc' = [pc EXCEPT ![a] = step]
Aim(a, i)     == target' = [target EXCEPT ![a] = i]
AreaOf(d)     == signal[task[d]].area

\* The row locks left when the transaction of a ends.
LocksWithout(a) == [i \in Incident |-> IF incidentLock[i] = a THEN None ELSE incidentLock[i]]

\* Forget everything the handler run of detector d knew.
Stop(d) ==
  /\ Goto(d, "idle")
  /\ task' = [task EXCEPT ![d] = None]
  /\ Aim(d, None)
  /\ UNCHANGED closedBy

Fetch(d, s) ==
  /\ pc[d] = "idle"
  /\ Jobs!Deliver(s)
  /\ Goto(d, "evaluate")
  /\ task' = [task EXCEPT ![d] = s]
  /\ UNCHANGED <<tables, incidentLock, target, closedBy>>

(***************************************************************************)
(* evaluateCandidate: a barrier crossing is always a candidate; a scan is  *)
(* one unless its tag resolves to an active wristband whose category is    *)
(* allowed there.  Wristbands and permissions change at any time, so       *)
(* either answer is possible each time the signal is evaluated.            *)
(***************************************************************************)
EvaluateCandidate(d, authorized) ==
  /\ pc[d] = "evaluate"
  /\ authorized => signal[task[d]].kind = "reader scan"
  /\ Goto(d, IF authorized THEN "done" ELSE "find")
  /\ UNCHANGED <<tables, queue, incidentLock, private>>

\* correlateIntoIncident, first statement: findOneBy({ status: 'open' }).
FindOpenIncident(d) ==
  /\ pc[d] = "find"
  /\ \/ \E i \in Incident : Open(i) /\ Aim(d, i) /\ Goto(d, "append")
     \/ (\A i \in Incident : ~Open(i)) /\ Aim(d, None) /\ Goto(d, "open")
  /\ UNCHANGED <<tables, queue, incidentLock, task, closedBy>>

(***************************************************************************)
(* appendToOpenIncident: UPDATE ... SET current_area_id WHERE id.  It      *)
(* waits for the row, and does not look at the status again.               *)
(***************************************************************************)
AppendToOpenIncident(d) ==
  /\ pc[d] = "append"
  /\ incidentLock[target[d]] = None
  /\ incidentLock' = [incidentLock EXCEPT ![target[d]] = d]
  /\ Goto(d, "appended")
  /\ UNCHANGED <<tables, queue, private>>

\* Some transaction is inserting an incident or updating an open one.
IndexBusy == \E i \in Incident : incidentLock[i] # None /\ (Recorded(i) => Open(i))

\* A mutant of IndexConflict: the migration creates no unique index.
NoUniqueIndex == FALSE

IndexConflict == \E i \in Incident : Open(i)

(***************************************************************************)
(* openNewIncident: the INSERT under a SAVEPOINT, which either takes the   *)
(* place in the index or fails with a unique violation that undoes only    *)
(* the INSERT.                                                             *)
(***************************************************************************)
OpenNewIncident(d, i) ==
  /\ pc[d] = "open"
  /\ ~IndexBusy
  /\ ~IndexConflict
  /\ ~Recorded(i)
  /\ incidentLock' = [incidentLock EXCEPT ![i] = d]
  /\ Aim(d, i)
  /\ Goto(d, "opened")
  /\ UNCHANGED <<tables, queue, task, closedBy>>

\* A mutant of LoseRace: the unique violation is taken for a job well done.
LoseRaceQuietly(d) ==
  /\ pc[d] = "open"
  /\ ~IndexBusy
  /\ IndexConflict
  /\ Goto(d, "done")
  /\ UNCHANGED <<tables, queue, incidentLock, private>>

LoseRace(d) ==
  /\ pc[d] = "open"
  /\ ~IndexBusy
  /\ IndexConflict
  /\ Goto(d, "lookup")
  /\ UNCHANGED <<tables, queue, incidentLock, private>>

\* A statement fails or the process dies: the transaction, if any, rolls back.
Fail(d) ==
  /\ pc[d] \in Detecting
  /\ incidentLock' = LocksWithout(d)
  /\ Stop(d)
  /\ UNCHANGED <<tables, queue>>

(***************************************************************************)
(* The fallback lookup of the race winner; findOneByOrFail throws if it    *)
(* has been closed in the meantime.                                        *)
(***************************************************************************)
LookupRaceWinner(d) ==
  /\ pc[d] = "lookup"
  /\ \/ /\ \E i \in Incident : Open(i) /\ Aim(d, i)
        /\ Goto(d, "joined")
        /\ UNCHANGED <<tables, queue, incidentLock, task, closedBy>>
     \/ /\ \A i \in Incident : ~Open(i)
        /\ Fail(d)

\* A mutant of Trail: a signal that finds its incident closed adds no entry.
TrailOfOpenIncidents(d) ==
  IF Closed(target[d]) THEN entries
  ELSE [entries EXCEPT ![task[d]][target[d]] = @ + 1]

\* The location entries once detector d has saved the one of its signal.
Trail(d) == [entries EXCEPT ![task[d]][target[d]] = @ + 1]

\* The incident row as the transaction of detector d leaves it: a race loser
\* that joined the winner's incident has not touched it.
Written(d) ==
  CASE pc[d] = "opened"   -> [area |-> AreaOf(d), closedBy |-> None]
    [] pc[d] = "appended" -> [incident[target[d]] EXCEPT !.area = AreaOf(d)]
    [] pc[d] = "joined"   -> incident[target[d]]

(***************************************************************************)
(* The location entry is saved, and the transaction commits.               *)
(***************************************************************************)
CommitDetection(d) ==
  /\ pc[d] \in {"appended", "opened", "joined"}
  /\ incident' = [incident EXCEPT ![target[d]] = Written(d)]
  /\ entries' = Trail(d)
  /\ incidentLock' = LocksWithout(d)
  /\ Goto(d, "done")
  /\ UNCHANGED <<signal, queue, private>>

\* The handler returned; only now does pg-boss learn that the job is done.
Acknowledge(d) ==
  /\ pc[d] = "done"
  /\ Jobs!Complete(task[d])
  /\ Stop(d)
  /\ UNCHANGED <<tables, incidentLock>>

\* pg-boss takes a delivery back, whether or not its handler still runs.
GiveBack(s) ==
  /\ Jobs!Release(s)
  /\ UNCHANGED <<tables, incidentLock, pc, private>>

-----------------------------------------------------------------------------
(***************************************************************************)
(* close: the incident exists; whether it is still open is left to the     *)
(* UPDATE.                                                                 *)
(***************************************************************************)
RequestClose(q, i, p) ==
  /\ pc[q] = "idle"
  /\ Recorded(i)
  /\ Goto(q, "close")
  /\ Aim(q, i)
  /\ closedBy' = [closedBy EXCEPT ![q] = p]
  /\ UNCHANGED <<tables, queue, incidentLock, task>>

\* The request of q is answered.
Answer(q) ==
  /\ Goto(q, "idle")
  /\ Aim(q, None)
  /\ closedBy' = [closedBy EXCEPT ![q] = None]
  /\ UNCHANGED task

\* A mutant of Closable: the WHERE clause names only the id.
ClosableById(i) == Recorded(i)

Closable(i) == Open(i)

\* UPDATE ... WHERE id AND status = 'open', once nobody else holds the row.
CloseIncident(q) ==
  /\ pc[q] = "close"
  /\ incidentLock[target[q]] = None
  /\ Closable(target[q])
  /\ incidentLock' = [incidentLock EXCEPT ![target[q]] = q]
  /\ Goto(q, "closed")
  /\ UNCHANGED <<tables, queue, private>>

\* No row affected: "already been closed".
RefuseClose(q) ==
  /\ pc[q] = "close"
  /\ incidentLock[target[q]] = None
  /\ ~Closable(target[q])
  /\ Answer(q)
  /\ UNCHANGED <<tables, queue, incidentLock>>

CommitClose(q) ==
  /\ pc[q] = "closed"
  /\ incident' = [incident EXCEPT ![target[q]].closedBy = closedBy[q]]
  /\ incidentLock' = LocksWithout(q)
  /\ Answer(q)
  /\ UNCHANGED <<signal, entries, queue>>

RollBackClose(q) ==
  /\ pc[q] \in Closing
  /\ incidentLock' = LocksWithout(q)
  /\ Answer(q)
  /\ UNCHANGED <<tables, queue>>

-----------------------------------------------------------------------------
HandlerStep(d) ==
  \/ \E authorized \in BOOLEAN : EvaluateCandidate(d, authorized)
  \/ FindOpenIncident(d)
  \/ AppendToOpenIncident(d)
  \/ \E i \in Incident : OpenNewIncident(d, i)
  \/ LoseRace(d)
  \/ LookupRaceWinner(d)
  \/ CommitDetection(d)
  \/ Acknowledge(d)

CloserStep(q) ==
  \/ CloseIncident(q)
  \/ RefuseClose(q)
  \/ CommitClose(q)

Next ==
  \/ \E s \in Signal, k \in Kind, a \in Area : Ingest(s, k, a)
  \/ \E d \in Detector, s \in Signal : Fetch(d, s)
  \/ \E d \in Detector : HandlerStep(d)
  \/ \E d \in Detector : Fail(d)
  \/ \E s \in Signal : GiveBack(s)
  \/ \E q \in Closer, i \in Incident, p \in Staff : RequestClose(q, i, p)
  \/ \E q \in Closer : CloserStep(q)
  \/ \E q \in Closer : RollBackClose(q)

Spec == Init /\ [][Next]_vars

-----------------------------------------------------------------------------
(***************************************************************************)
(* Security staff have one incident to follow: a tenant never has two open *)
(* ones, although detectors look for an open incident and insert one in    *)
(* separate statements and closings free the place at any moment.          *)
(***************************************************************************)
OneOpenIncident ==
  \A i, j \in Incident : Open(i) /\ Open(j) => i = j

(***************************************************************************)
(* The area the cameras follow is one the incident's trail explains: an    *)
(* incident, open or closed, has a location entry in its current area.     *)
(***************************************************************************)
CurrentAreaWasVisited ==
  \A i \in Incident : Recorded(i) =>
    \E s \in Signal : entries[s][i] > 0 /\ signal[s].area = incident[i].area

(***************************************************************************)
(* No alarm is swallowed: a barrier crossing whose job is completed is in  *)
(* the trail of an incident, also if its detector lost the race to open    *)
(* one or found the incident closed under its hands.                       *)
(***************************************************************************)
CompletedCrossingsAreCorrelated ==
  \A s \in Signal :
    queue[s].state = "completed" /\ signal[s].kind = "barrier crossing" => Correlated(s)

(***************************************************************************)
(* A closure is final: neither a second closing request nor a detector     *)
(* working on what it read earlier changes who closed an incident or opens *)
(* it again.                                                               *)
(***************************************************************************)
ClosureIsFinal ==
  [][\A i \in Incident : Closed(i) => incident'[i].closedBy = incident[i].closedBy]_vars
=============================================================================
