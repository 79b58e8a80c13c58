---------------------- MODULE IntrusionIncidentProofs ----------------------
(***************************************************************************)
(* Proofs about intrusion incidents, for any number of signals, areas,     *)
(* detectors, closing requests and staff, and any retry limit.             *)
(***************************************************************************)
EXTENDS IntrusionIncident, TLAPS

(***************************************************************************)
(* What holds of a detector between two statements: it works on a          *)
(* committed signal, and the incident it has written is locked by it.  A   *)
(* detector that has inserted an incident knows that no other is open.     *)
(***************************************************************************)
DetectorOK(d) ==
  /\ pc[d] # "idle" => task[d] \in Signal /\ signal[task[d]] # None
  /\ pc[d] \in {"append", "appended", "joined"} =>
       target[d] \in Incident /\ Recorded(target[d])
  /\ pc[d] \in {"appended", "opened"} =>
       target[d] \in Incident /\ incidentLock[target[d]] = d
  /\ pc[d] = "opened" => ~Recorded(target[d]) /\ \A i \in Incident : ~Open(i)

\* Only one transaction at a time holds an uncommitted incident.
SoleOpener ==
  \A d, e \in Detector : pc[d] = "opened" /\ pc[e] = "opened" => d = e

\* A request that has passed the WHERE clause holds an incident that is open.
CloserOK(q) ==
  /\ pc[q] # "idle" => target[q] \in Incident /\ Recorded(target[q]) /\ closedBy[q] \in Staff
  /\ pc[q] = "closed" => incidentLock[target[q]] = q /\ Open(target[q])

\* Jobs and location entries are about committed signals.
SignalsOK ==
  /\ \A s \in Signal : Jobs!Sent(s) => signal[s] # None
  /\ \A s \in Signal, i \in Incident : entries[s][i] > 0 => signal[s] # None

\* A crossing whose detector is done is in some incident's trail.
DoneCorrelated ==
  \A d \in Detector :
    pc[d] = "done" /\ signal[task[d]].kind = "barrier crossing" => Correlated(task[d])

IInv ==
  /\ TypeOK
  /\ \A d \in Detector : DetectorOK(d)
  /\ SoleOpener
  /\ \A q \in Closer : CloserOK(q)
  /\ SignalsOK
  /\ OneOpenIncident
  /\ CurrentAreaWasVisited
  /\ DoneCorrelated
  /\ CompletedCrossingsAreCorrelated

-----------------------------------------------------------------------------
\* The invariant holds of an empty database.
LEMMA InitInv == Init => IInv
<1> SUFFICES ASSUME Init PROVE IInv
  OBVIOUS
<1> USE IntrusionIncidentAssumption DEF Init, Jobs!QueueInit
<1>1. TypeOK
  <2>1. Jobs!QueueTypeOK
    BY DEF Jobs!QueueTypeOK, Jobs!JobState
  <2> QED  BY <2>1 DEF TypeOK
<1>2. \A i \in Incident : ~Recorded(i) /\ ~Open(i)
  BY DEF Recorded, Open
<1>3. (\A d \in Detector : DetectorOK(d)) /\ SoleOpener /\ (\A q \in Closer : CloserOK(q))
  BY DEF DetectorOK, SoleOpener, CloserOK
<1>4. SignalsOK /\ DoneCorrelated /\ CompletedCrossingsAreCorrelated
  <2>1. \A s \in Signal : queue[s].state = "unsent" /\ \A i \in Incident : entries[s][i] = 0
    OBVIOUS
  <2>2. \A d \in Detector : pc[d] = "idle"
    OBVIOUS
  <2>3. SignalsOK
    BY <2>1 DEF SignalsOK, Jobs!Sent
  <2>4. DoneCorrelated
    BY <2>2 DEF DoneCorrelated
  <2>5. CompletedCrossingsAreCorrelated
    BY <2>1 DEF CompletedCrossingsAreCorrelated
  <2> QED  BY <2>3, <2>4, <2>5
<1>5. OneOpenIncident /\ CurrentAreaWasVisited
  BY <1>2 DEF OneOpenIncident, CurrentAreaWasVisited
<1> QED  BY <1>1, <1>3, <1>4, <1>5 DEF IInv

\* The row a detector commits is well-formed, and keeps a recorded closure.
LEMMA WrittenRow ==
  ASSUME IInv, NEW d \in Detector, CommitDetection(d)
  PROVE  /\ target[d] \in Incident
         /\ Written(d) \in IncidentRow
         /\ Written(d) # None
         /\ pc[d] = "opened" => Written(d) = [area |-> AreaOf(d), closedBy |-> None]
         /\ pc[d] # "opened" =>
              Recorded(target[d]) /\ Written(d).closedBy = incident[target[d]].closedBy
         /\ pc[d] # "joined" => Written(d).area = AreaOf(d)
         /\ pc[d] = "joined" => Written(d) = incident[target[d]]
<1> USE IntrusionIncidentAssumption
<1>1. /\ pc[d] \in {"appended", "opened", "joined"}
      /\ task[d] \in Signal /\ signal[task[d]] # None
      /\ target[d] \in Incident
      /\ pc[d] # "opened" => Recorded(target[d])
  BY DEF IInv, DetectorOK, CommitDetection
<1>2. signal[task[d]] \in SignalRow
  BY <1>1 DEF IInv, TypeOK
<1>3. AreaOf(d) \in Area
  BY <1>2 DEF AreaOf, SignalRow
<1>4. pc[d] # "opened" => incident[target[d]] \in IncidentRow
  BY <1>1 DEF IInv, TypeOK, Recorded
<1>5. \A r \in IncidentRow : r # None
  OBVIOUS
<1> QED  BY <1>1, <1>3, <1>4 DEF Written, IncidentRow

-----------------------------------------------------------------------------
\* Every step keeps the types.
LEMMA NextType == IInv /\ [Next]_vars => TypeOK'
<1> SUFFICES ASSUME IInv, [Next]_vars PROVE TypeOK'
  OBVIOUS
<1> USE IntrusionIncidentAssumption DEF TypeOK, tables, private, Detecting, Closing
<1> TypeOK
  BY DEF IInv
<1>1. ASSUME NEW s \in Signal, NEW k \in Kind, NEW a \in Area, Ingest(s, k, a) PROVE TypeOK'
  BY <1>1 DEF Ingest, SignalRow, Jobs!Send, Jobs!QueueTypeOK, Jobs!JobState
<1>2. ASSUME NEW d \in Detector, NEW s \in Signal, Fetch(d, s) PROVE TypeOK'
  BY <1>2 DEF Fetch, Goto, Jobs!Deliver, Jobs!QueueTypeOK, Jobs!JobState
<1>3. ASSUME NEW d \in Detector, NEW b \in BOOLEAN, EvaluateCandidate(d, b) PROVE TypeOK'
  BY <1>3 DEF EvaluateCandidate, Goto, Jobs!QueueTypeOK
<1>4. ASSUME NEW d \in Detector, FindOpenIncident(d) PROVE TypeOK'
  <2>1. CASE \E i \in Incident : Aim(d, i) /\ Goto(d, "append")
    BY <1>4, <2>1 DEF FindOpenIncident, Goto, Aim, Jobs!QueueTypeOK
  <2>2. CASE Aim(d, None) /\ Goto(d, "open")
    BY <1>4, <2>2 DEF FindOpenIncident, Goto, Aim, Jobs!QueueTypeOK
  <2> QED  BY <1>4, <2>1, <2>2 DEF FindOpenIncident
<1>5. ASSUME NEW d \in Detector, AppendToOpenIncident(d) PROVE TypeOK'
  BY <1>5 DEF AppendToOpenIncident, Goto, Jobs!QueueTypeOK
<1>6. ASSUME NEW d \in Detector, NEW i \in Incident, OpenNewIncident(d, i) PROVE TypeOK'
  BY <1>6 DEF OpenNewIncident, Goto, Aim, Jobs!QueueTypeOK
<1>7. ASSUME NEW d \in Detector, LoseRace(d) PROVE TypeOK'
  BY <1>7 DEF LoseRace, Goto, Jobs!QueueTypeOK
<1>8. ASSUME NEW d \in Detector, Fail(d) PROVE TypeOK'
  BY <1>8 DEF Fail, Stop, Goto, Aim, LocksWithout, Jobs!QueueTypeOK
<1>9. ASSUME NEW d \in Detector, LookupRaceWinner(d) PROVE TypeOK'
  <2>1. CASE /\ \E i \in Incident : Aim(d, i)
             /\ Goto(d, "joined")
             /\ UNCHANGED <<tables, queue, incidentLock, task, closedBy>>
    BY <2>1 DEF Goto, Aim, Jobs!QueueTypeOK
  <2>2. CASE Fail(d)
    BY <1>8, <2>2
  <2> QED  BY <1>9, <2>1, <2>2 DEF LookupRaceWinner
<1>10. ASSUME NEW d \in Detector, CommitDetection(d) PROVE TypeOK'
  <2>1. incident' \in [Incident -> IncidentRow \cup {None}]
    BY <1>10, WrittenRow DEF CommitDetection
  <2>2. entries' \in [Signal -> [Incident -> Nat]]
    <3>1. task[d] \in Signal /\ target[d] \in Incident
      BY <1>10, WrittenRow DEF IInv, DetectorOK, CommitDetection
    <3>2. entries[task[d]][target[d]] + 1 \in Nat
      BY <3>1
    <3> QED  BY <1>10, <3>1, <3>2 DEF CommitDetection, Trail
  <2>3. incidentLock' \in [Incident -> Detector \cup Closer \cup {None}]
    BY <1>10 DEF CommitDetection, LocksWithout
  <2> QED  BY <1>10, <2>1, <2>2, <2>3 DEF CommitDetection, Goto, Jobs!QueueTypeOK
<1>11. ASSUME NEW d \in Detector, Acknowledge(d) PROVE TypeOK'
  <2>1. task[d] \in Signal
    BY <1>11 DEF IInv, DetectorOK, Acknowledge
  <2> QED
    BY <1>11, <2>1
       DEF Acknowledge, Stop, Goto, Aim, Jobs!Complete, Jobs!QueueTypeOK, Jobs!JobState
<1>12. ASSUME NEW s \in Signal, GiveBack(s) PROVE TypeOK'
  BY <1>12 DEF GiveBack, Jobs!Release, Jobs!QueueTypeOK, Jobs!JobState
<1>13. ASSUME NEW q \in Closer, NEW i \in Incident, NEW p \in Staff, RequestClose(q, i, p)
       PROVE  TypeOK'
  BY <1>13 DEF RequestClose, Goto, Aim, Jobs!QueueTypeOK
<1>14. ASSUME NEW q \in Closer, CloseIncident(q) PROVE TypeOK'
  BY <1>14 DEF CloseIncident, Goto, Jobs!QueueTypeOK
<1>15. ASSUME NEW q \in Closer, RefuseClose(q) PROVE TypeOK'
  BY <1>15 DEF RefuseClose, Answer, Goto, Aim, Jobs!QueueTypeOK
<1>16. ASSUME NEW q \in Closer, CommitClose(q) PROVE TypeOK'
  <2>1. target[q] \in Incident /\ closedBy[q] \in Staff /\ incident[target[q]] \in IncidentRow
    BY <1>16 DEF IInv, CloserOK, CommitClose, Recorded
  <2>2. incident' \in [Incident -> IncidentRow \cup {None}]
    BY <1>16, <2>1 DEF CommitClose, IncidentRow
  <2>3. incidentLock' \in [Incident -> Detector \cup Closer \cup {None}]
    BY <1>16 DEF CommitClose, LocksWithout
  <2> QED  BY <1>16, <2>2, <2>3 DEF CommitClose, Answer, Goto, Aim, Jobs!QueueTypeOK
<1>17. ASSUME NEW q \in Closer, RollBackClose(q) PROVE TypeOK'
  BY <1>17 DEF RollBackClose, Answer, Goto, Aim, LocksWithout, Jobs!QueueTypeOK
<1>18. CASE UNCHANGED vars
  BY <1>18 DEF vars, Jobs!QueueTypeOK
<1> HIDE DEF TypeOK
<1>19. ASSUME NEW d \in Detector, HandlerStep(d) PROVE TypeOK'
  BY <1>3, <1>4, <1>5, <1>6, <1>7, <1>9, <1>10, <1>11, <1>19 DEF HandlerStep
<1>20. ASSUME NEW q \in Closer, CloserStep(q) PROVE TypeOK'
  BY <1>14, <1>15, <1>16, <1>20 DEF CloserStep
<1> QED
  BY <1>1, <1>2, <1>8, <1>12, <1>13, <1>17, <1>18, <1>19, <1>20 DEF Next

-----------------------------------------------------------------------------
\* A transaction that ends leaves the locks of the others alone.
LEMMA OthersKeepLocks ==
  ASSUME NEW a, NEW b, a # b, NEW i \in Incident, incidentLock[i] = b
  PROVE  LocksWithout(a)[i] = b
  BY DEF LocksWithout

(***************************************************************************)
(* Only a commit changes an incident, and what it does to the set of open  *)
(* ones: a detector that inserted one adds it, a closer takes one away.    *)
(***************************************************************************)
LEMMA IncidentsChange ==
  ASSUME IInv, [Next]_vars
  PROVE  \/ UNCHANGED <<incident, entries>>
         \/ \E d \in Detector : CommitDetection(d)
         \/ \E q \in Closer : CommitClose(q)
<1> SUFFICES ASSUME \A d \in Detector : ~CommitDetection(d),
                    \A q \in Closer : ~CommitClose(q)
             PROVE  UNCHANGED <<incident, entries>>
  OBVIOUS
<1>1. \A d \in Detector : HandlerStep(d) => UNCHANGED <<incident, entries>>
  BY DEF HandlerStep, EvaluateCandidate, FindOpenIncident, AppendToOpenIncident,
         OpenNewIncident, LoseRace, LookupRaceWinner, Fail, Acknowledge, tables
<1>2. \A q \in Closer : CloserStep(q) => UNCHANGED <<incident, entries>>
  BY DEF CloserStep, CloseIncident, RefuseClose, tables
<1> QED
  BY <1>1, <1>2 DEF Next, vars, tables, Ingest, Fetch, Fail, GiveBack, RequestClose,
     RollBackClose

\* The incidents after a detection: its target's row is the one written.
LEMMA DetectionWrites ==
  ASSUME IInv, NEW d \in Detector, CommitDetection(d), NEW i \in Incident
  PROVE  /\ i = target[d] => incident'[i] = Written(d)
         /\ i # target[d] => incident'[i] = incident[i]
         /\ Recorded(i) => Recorded(i)'
         /\ Closed(i) => incident'[i].closedBy = incident[i].closedBy
         /\ Open(i)' => Open(i) \/ (pc[d] = "opened" /\ i = target[d])
         /\ Open(i) => Open(i)'
<1> USE WrittenRow DEF Recorded, Open, Closed
<1>1. incident \in [Incident -> IncidentRow \cup {None}]
  BY DEF IInv, TypeOK
<1>2. incident' = [incident EXCEPT ![target[d]] = Written(d)]
  BY DEF CommitDetection
<1>3. pc[d] = "opened" => ~Recorded(target[d])
  BY DEF IInv, DetectorOK
<1>4. CASE i = target[d]
  BY <1>1, <1>2, <1>3, <1>4
<1>5. CASE i # target[d]
  BY <1>1, <1>2, <1>5
<1> QED  BY <1>4, <1>5

\* The incidents after a closure: its target, which was open, is closed.
LEMMA ClosureWrites ==
  ASSUME IInv, NEW q \in Closer, CommitClose(q), NEW i \in Incident
  PROVE  /\ target[q] \in Incident /\ Open(target[q])
         /\ i # target[q] => incident'[i] = incident[i]
         /\ Recorded(i) => Recorded(i)'
         /\ incident'[i] # None => Recorded(i) /\ incident'[i].area = incident[i].area
         /\ Open(i)' => Open(i)
<1> USE IntrusionIncidentAssumption DEF Recorded, Open
<1>1. /\ target[q] \in Incident /\ Recorded(target[q]) /\ closedBy[q] \in Staff
      /\ Open(target[q])
  BY DEF IInv, CloserOK, CommitClose, Closing
<1>2. incident[target[q]] \in IncidentRow
  BY <1>1 DEF IInv, TypeOK
<1>3. incident' = [incident EXCEPT ![target[q]].closedBy = closedBy[q]]
  BY DEF CommitClose
<1>4. incident \in [Incident -> IncidentRow \cup {None}]
  BY DEF IInv, TypeOK
<1>5. CASE i = target[q]
  <2>1. incident'[i] = [incident[i] EXCEPT !.closedBy = closedBy[q]]
    BY <1>1, <1>3, <1>4, <1>5
  <2>2. /\ incident'[i] \in IncidentRow
        /\ incident'[i].area = incident[i].area
        /\ incident'[i].closedBy = closedBy[q]
    BY <1>1, <1>2, <1>5, <2>1 DEF IncidentRow
  <2> QED  BY <1>1, <1>5, <2>2
<1>6. CASE i # target[q]
  BY <1>1, <1>3, <1>4, <1>6
<1> QED  BY <1>1, <1>5, <1>6

-----------------------------------------------------------------------------
(***************************************************************************)
(* What a detector knows stays true between its statements: the lock on    *)
(* the incident it wrote keeps closers and other detectors away from it.   *)
(***************************************************************************)
LEMMA NextDetector ==
  ASSUME IInv, [Next]_vars, NEW e \in Detector
  PROVE  DetectorOK(e)'
<1> USE IntrusionIncidentAssumption DEF tables, private
<1> TypeOK /\ DetectorOK(e)
  BY DEF IInv
<1>1. ASSUME NEW s \in Signal, NEW k \in Kind, NEW a \in Area, Ingest(s, k, a)
      PROVE  DetectorOK(e)'
  <2>1. /\ UNCHANGED <<incident, incidentLock, pc, task, target>>
        /\ \A t \in Signal : signal[t] # None => signal'[t] # None
    BY <1>1 DEF Ingest, TypeOK
  <2> QED  BY <2>1 DEF DetectorOK, Recorded, Open
<1>2. ASSUME NEW d \in Detector, NEW s \in Signal, Fetch(d, s) PROVE DetectorOK(e)'
  <2>1. signal[s] # None
    BY <1>2 DEF IInv, SignalsOK, Fetch, Jobs!Deliver, Jobs!Sent
  <2> QED  BY <1>2, <2>1 DEF Fetch, Goto, DetectorOK, Recorded, Open, TypeOK
<1>3. ASSUME NEW d \in Detector, NEW b \in BOOLEAN, EvaluateCandidate(d, b)
      PROVE  DetectorOK(e)'
  BY <1>3 DEF EvaluateCandidate, Goto, DetectorOK, Recorded, Open, TypeOK
<1>4. ASSUME NEW d \in Detector, FindOpenIncident(d) PROVE DetectorOK(e)'
  <2>1. CASE /\ \E i \in Incident : Open(i) /\ Aim(d, i)
             /\ Goto(d, "append")
             /\ UNCHANGED <<tables, incidentLock, task>>
    BY <1>4, <2>1 DEF FindOpenIncident, Goto, Aim, DetectorOK, Recorded, Open, TypeOK
  <2>2. CASE Aim(d, None) /\ Goto(d, "open") /\ UNCHANGED <<tables, incidentLock, task>>
    BY <1>4, <2>2 DEF FindOpenIncident, Goto, Aim, DetectorOK, Recorded, Open, TypeOK
  <2> QED  BY <1>4, <2>1, <2>2 DEF FindOpenIncident
<1>5. ASSUME NEW d \in Detector, AppendToOpenIncident(d) PROVE DetectorOK(e)'
  <2>1. target[d] \in Incident /\ Recorded(target[d])
    BY <1>5 DEF IInv, DetectorOK, AppendToOpenIncident
  <2> QED
    BY <1>5, <2>1 DEF AppendToOpenIncident, Goto, DetectorOK, Recorded, Open, TypeOK
<1>6. ASSUME NEW d \in Detector, NEW i \in Incident, OpenNewIncident(d, i)
      PROVE  DetectorOK(e)'
  <2>1. incidentLock[i] = None
    BY <1>6 DEF OpenNewIncident, IndexBusy
  <2>2. ~Recorded(i) /\ \A j \in Incident : ~Open(j)
    BY <1>6 DEF OpenNewIncident, IndexConflict
  <2> QED
    BY <1>6, <2>1, <2>2 DEF OpenNewIncident, Goto, Aim, DetectorOK, Recorded, Open, TypeOK
<1>7. ASSUME NEW d \in Detector, LoseRace(d) PROVE DetectorOK(e)'
  BY <1>7 DEF LoseRace, Goto, DetectorOK, Recorded, Open, TypeOK
<1>8. ASSUME NEW d \in Detector, Fail(d) PROVE DetectorOK(e)'
  <2>1. CASE e = d
    BY <1>8, <2>1 DEF Fail, Stop, Goto, DetectorOK, TypeOK
  <2>2. CASE e # d
    <3>1. /\ UNCHANGED <<signal, incident>>
          /\ pc'[e] = pc[e] /\ task'[e] = task[e] /\ target'[e] = target[e]
      BY <1>8, <2>2 DEF Fail, Stop, Goto, Aim, TypeOK
    <3>2. pc[e] \in {"appended", "opened"} => incidentLock'[target[e]] = e
      BY <1>8, <2>2, OthersKeepLocks DEF Fail, DetectorOK
    <3> QED  BY <3>1, <3>2 DEF DetectorOK, Recorded, Open
  <2> QED  BY <2>1, <2>2
<1>9. ASSUME NEW d \in Detector, LookupRaceWinner(d) PROVE DetectorOK(e)'
  <2>1. CASE /\ \E i \in Incident : Open(i) /\ Aim(d, i)
             /\ Goto(d, "joined")
             /\ UNCHANGED <<tables, queue, incidentLock, task, closedBy>>
    <3>1. PICK i \in Incident : Open(i) /\ Aim(d, i)
      BY <2>1
    <3>2. CASE e = d
      <4>1. /\ pc'[e] = "joined" /\ target'[e] = i /\ task'[e] = task[e] /\ pc[e] # "idle"
            /\ UNCHANGED <<signal, incident>>
        BY <1>9, <2>1, <3>1, <3>2 DEF LookupRaceWinner, Goto, Aim, TypeOK
      <4> QED  BY <3>1, <4>1 DEF DetectorOK, Recorded, Open
    <3>3. CASE e # d
      <4>1. /\ pc'[e] = pc[e] /\ target'[e] = target[e]
            /\ UNCHANGED <<signal, incident, incidentLock, task>>
        BY <2>1, <3>1, <3>3 DEF Goto, Aim, TypeOK
      <4> QED  BY <4>1 DEF DetectorOK, Recorded, Open
    <3> QED  BY <3>2, <3>3
  <2>2. CASE Fail(d)
    BY <1>8, <2>2
  <2> QED  BY <1>9, <2>1, <2>2 DEF LookupRaceWinner
<1>10. ASSUME NEW d \in Detector, CommitDetection(d) PROVE DetectorOK(e)'
  <2>1. CASE e = d
    BY <1>10, <2>1 DEF CommitDetection, Goto, DetectorOK, TypeOK
  <2>2. CASE e # d
    <3>1. /\ UNCHANGED <<signal, task, target>>
          /\ pc'[e] = pc[e]
      BY <1>10, <2>2 DEF CommitDetection, Goto, TypeOK
    <3>2. pc[e] \in {"append", "appended", "joined"} => Recorded(target[e])'
      BY <1>10, <3>1, DetectionWrites DEF DetectorOK, Recorded
    <3>3. pc[e] \in {"appended", "opened"} => incidentLock'[target[e]] = e
      BY <1>10, <2>2, OthersKeepLocks DEF CommitDetection, DetectorOK
    <3>4. pc[e] = "opened" => pc[d] # "opened" /\ Recorded(target[d])
      BY <1>10, <2>2, WrittenRow DEF IInv, SoleOpener
    <3>5. pc[e] = "opened" => (~Recorded(target[e]))' /\ \A i \in Incident : ~Open(i)'
      BY <1>10, <3>1, <3>4, DetectionWrites DEF DetectorOK, Recorded
    <3> QED  BY <3>1, <3>2, <3>3, <3>5 DEF DetectorOK
  <2> QED  BY <2>1, <2>2
<1>11. ASSUME NEW d \in Detector, Acknowledge(d) PROVE DetectorOK(e)'
  BY <1>11 DEF Acknowledge, Stop, Goto, Aim, DetectorOK, Recorded, Open, TypeOK
<1>12. ASSUME NEW s \in Signal, GiveBack(s) PROVE DetectorOK(e)'
  BY <1>12 DEF GiveBack, DetectorOK, Recorded, Open
<1>13. ASSUME NEW q \in Closer, NEW i \in Incident, NEW p \in Staff, RequestClose(q, i, p)
       PROVE  DetectorOK(e)'
  BY <1>13 DEF RequestClose, Goto, Aim, DetectorOK, Recorded, Open, TypeOK
<1>14. ASSUME NEW q \in Closer, CloseIncident(q) PROVE DetectorOK(e)'
  <2>1. incidentLock[target[q]] = None /\ q # e
    BY <1>14 DEF CloseIncident
  <2> QED
    BY <1>14, <2>1 DEF CloseIncident, Goto, DetectorOK, Recorded, Open, TypeOK
<1>15. ASSUME NEW q \in Closer, RefuseClose(q) PROVE DetectorOK(e)'
  BY <1>15 DEF RefuseClose, Answer, Goto, Aim, DetectorOK, Recorded, Open, TypeOK
<1>16. ASSUME NEW q \in Closer, CommitClose(q) PROVE DetectorOK(e)'
  <2>1. q # e /\ pc'[e] = pc[e] /\ target'[e] = target[e] /\ task' = task /\ signal' = signal
    BY <1>16 DEF CommitClose, Answer, Goto, Aim, TypeOK
  <2>2. pc[e] \in {"append", "appended", "joined"} => Recorded(target[e])'
    BY <1>16, <2>1, ClosureWrites DEF DetectorOK, Recorded
  <2>3. pc[e] \in {"appended", "opened"} => incidentLock'[target[e]] = e
    BY <1>16, <2>1, OthersKeepLocks DEF CommitClose, DetectorOK
  <2>4. pc[e] # "opened"
    BY <1>16, ClosureWrites DEF DetectorOK
  <2> QED  BY <2>1, <2>2, <2>3, <2>4 DEF DetectorOK
<1>17. ASSUME NEW q \in Closer, RollBackClose(q) PROVE DetectorOK(e)'
  <2>1. /\ q # e /\ UNCHANGED <<signal, incident, task>>
        /\ pc'[e] = pc[e] /\ target'[e] = target[e]
    BY <1>17 DEF RollBackClose, Answer, Goto, Aim, TypeOK
  <2>2. pc[e] \in {"appended", "opened"} => incidentLock'[target[e]] = e
    BY <1>17, <2>1, OthersKeepLocks DEF RollBackClose, DetectorOK
  <2> QED  BY <2>1, <2>2 DEF DetectorOK, Recorded, Open
<1>18. CASE UNCHANGED vars
  BY <1>18 DEF vars, DetectorOK, Recorded, Open
<1>19. ASSUME NEW d \in Detector, HandlerStep(d) PROVE DetectorOK(e)'
  BY <1>3, <1>4, <1>5, <1>6, <1>7, <1>9, <1>10, <1>11, <1>19 DEF HandlerStep
<1>20. ASSUME NEW q \in Closer, CloserStep(q) PROVE DetectorOK(e)'
  BY <1>14, <1>15, <1>16, <1>20 DEF CloserStep
<1> QED
  BY <1>1, <1>2, <1>8, <1>12, <1>13, <1>17, <1>18, <1>19, <1>20 DEF Next

\* The index lets one transaction at a time insert an incident.
LEMMA NextSoleOpener == IInv /\ [Next]_vars => SoleOpener'
<1> SUFFICES ASSUME IInv, [Next]_vars PROVE SoleOpener'
  OBVIOUS
<1> USE IntrusionIncidentAssumption DEF tables, private, SoleOpener
<1> TypeOK /\ SoleOpener
  BY DEF IInv
<1>1. ASSUME NEW d \in Detector, NEW i \in Incident, OpenNewIncident(d, i)
      PROVE  SoleOpener'
  <2>1. ASSUME NEW e \in Detector, pc[e] = "opened" PROVE FALSE
    BY <1>1, <2>1 DEF IInv, DetectorOK, OpenNewIncident, IndexBusy
  <2> QED  BY <1>1, <2>1 DEF OpenNewIncident, Goto, TypeOK
<1>2. ASSUME \A d \in Detector, i \in Incident : ~OpenNewIncident(d, i)
      PROVE  \A e \in Detector : pc'[e] = "opened" => pc[e] = "opened"
  <2> SUFFICES ASSUME NEW e \in Detector, pc'[e] = "opened" PROVE pc[e] = "opened"
    OBVIOUS
  <2>1. ASSUME NEW d \in Detector, HandlerStep(d) PROVE pc[e] = "opened"
    <3>1. CASE \E b \in BOOLEAN : EvaluateCandidate(d, b)
      BY <3>1 DEF EvaluateCandidate, Goto, TypeOK
    <3>2. CASE FindOpenIncident(d)
      BY <3>2 DEF FindOpenIncident, Goto, TypeOK
    <3>3. CASE AppendToOpenIncident(d) \/ LoseRace(d)
      BY <3>3 DEF AppendToOpenIncident, LoseRace, Goto, TypeOK
    <3>4. CASE LookupRaceWinner(d)
      BY <3>4 DEF LookupRaceWinner, Fail, Stop, Goto, TypeOK
    <3>5. CASE CommitDetection(d) \/ Acknowledge(d)
      BY <3>5 DEF CommitDetection, Acknowledge, Stop, Goto, TypeOK
    <3> QED  BY <1>2, <2>1, <3>1, <3>2, <3>3, <3>4, <3>5 DEF HandlerStep
  <2>2. ASSUME NEW q \in Closer, CloserStep(q) PROVE pc[e] = "opened"
    BY <2>2 DEF CloserStep, CloseIncident, RefuseClose, CommitClose, Answer, Goto, TypeOK
  <2>3. ASSUME NEW d \in Detector, Fail(d) PROVE pc[e] = "opened"
    BY <2>3 DEF Fail, Stop, Goto, TypeOK
  <2>4. ASSUME NEW d \in Detector, NEW s \in Signal, Fetch(d, s) PROVE pc[e] = "opened"
    BY <2>4 DEF Fetch, Goto, TypeOK
  <2>5. ASSUME NEW q \in Closer, RollBackClose(q) \/ \E i \in Incident, p \in Staff :
                                                        RequestClose(q, i, p)
        PROVE  pc[e] = "opened"
    BY <2>5 DEF RollBackClose, RequestClose, Answer, Goto, TypeOK
  <2> QED
    BY <2>1, <2>2, <2>3, <2>4, <2>5 DEF Next, Ingest, GiveBack, vars
<1> QED  BY <1>1, <1>2

-----------------------------------------------------------------------------
\* What a closing request knows of its incident stays true until it commits.
LEMMA NextCloser ==
  ASSUME IInv, [Next]_vars, NEW r \in Closer
  PROVE  CloserOK(r)'
<1> USE IntrusionIncidentAssumption DEF tables, private
<1> TypeOK /\ CloserOK(r)
  BY DEF IInv
<1>1. ASSUME NEW d \in Detector, CommitDetection(d) PROVE CloserOK(r)'
  <2>1. /\ r # d /\ pc'[r] = pc[r]
        /\ UNCHANGED <<target, closedBy>>
    BY <1>1 DEF CommitDetection, Goto, TypeOK
  <2>2. pc[r] # "idle" => Recorded(target[r])'
    BY <1>1, <2>1, DetectionWrites DEF CloserOK, Recorded
  <2>3. pc[r] = "closed" => incidentLock'[target[r]] = r
    BY <1>1, <2>1, OthersKeepLocks DEF CommitDetection, CloserOK
  <2>4. pc[r] = "closed" => incident'[target[r]].closedBy = None
    BY <1>1, <2>1, DetectionWrites DEF CloserOK, Open, Recorded
  <2> QED  BY <2>1, <2>2, <2>3, <2>4 DEF CloserOK, Open, Recorded
<1>2. ASSUME NEW q \in Closer, CommitClose(q) PROVE CloserOK(r)'
  <2>1. CASE r = q
    BY <1>2, <2>1 DEF CommitClose, Answer, Goto, CloserOK, TypeOK
  <2>2. CASE r # q
    <3>1. /\ pc'[r] = pc[r] /\ target'[r] = target[r] /\ closedBy'[r] = closedBy[r]
      BY <1>2, <2>2 DEF CommitClose, Answer, Goto, Aim, TypeOK
    <3>2. pc[r] # "idle" => Recorded(target[r])'
      BY <1>2, <3>1, ClosureWrites DEF CloserOK, Recorded
    <3>3. pc[r] = "closed" => target[r] # target[q]
      BY <1>2, <2>2 DEF IInv, CloserOK, CommitClose, Closing
    <3>4. pc[r] = "closed" => incidentLock'[target[r]] = r
      BY <1>2, <2>2, OthersKeepLocks DEF CommitClose, CloserOK
    <3>5. pc[r] = "closed" => incident'[target[r]] = incident[target[r]]
      BY <1>2, <3>3, ClosureWrites DEF CloserOK
    <3> QED  BY <3>1, <3>2, <3>4, <3>5 DEF CloserOK, Open, Recorded
  <2> QED  BY <2>1, <2>2
<1>3. ASSUME NEW d \in Detector,
             AppendToOpenIncident(d) \/ \E i \in Incident : OpenNewIncident(d, i)
      PROVE  CloserOK(r)'
  <2>1. /\ pc'[r] = pc[r] /\ target'[r] = target[r] /\ UNCHANGED <<closedBy, incident>>
    BY <1>3 DEF AppendToOpenIncident, OpenNewIncident, Goto, Aim, TypeOK
  <2>2. pc[r] = "closed" => incidentLock'[target[r]] = r
    BY <1>3 DEF IInv, DetectorOK, AppendToOpenIncident, OpenNewIncident, CloserOK, IndexBusy,
           TypeOK
  <2> QED  BY <2>1, <2>2 DEF CloserOK, Recorded, Open
<1>4. ASSUME NEW d \in Detector, Fail(d) PROVE CloserOK(r)'
  <2>1. /\ pc'[r] = pc[r] /\ target'[r] = target[r] /\ UNCHANGED <<closedBy, incident>>
    BY <1>4 DEF Fail, Stop, Goto, Aim, TypeOK
  <2>2. pc[r] = "closed" => incidentLock'[target[r]] = r
    BY <1>4, OthersKeepLocks DEF Fail, CloserOK
  <2> QED  BY <2>1, <2>2 DEF CloserOK, Recorded, Open
<1>5. ASSUME NEW d \in Detector, LookupRaceWinner(d) PROVE CloserOK(r)'
  <2>1. CASE Fail(d)
    BY <1>4, <2>1
  <2>2. CASE ~Fail(d)
    <3>1. /\ pc'[r] = pc[r] /\ target'[r] = target[r]
          /\ UNCHANGED <<closedBy, incident, incidentLock>>
      BY <1>5, <2>2 DEF LookupRaceWinner, Goto, Aim, TypeOK
    <3> QED  BY <3>1 DEF CloserOK, Recorded, Open
  <2> QED  BY <2>1, <2>2
<1>6. ASSUME NEW d \in Detector,
             \/ \E b \in BOOLEAN : EvaluateCandidate(d, b)
             \/ FindOpenIncident(d)
             \/ LoseRace(d)
             \/ Acknowledge(d)
      PROVE  CloserOK(r)'
  <2>1. /\ pc'[r] = pc[r] /\ target'[r] = target[r]
        /\ UNCHANGED <<closedBy, incident, incidentLock>>
    <3>1. CASE (\E b \in BOOLEAN : EvaluateCandidate(d, b)) \/ LoseRace(d)
      BY <3>1 DEF EvaluateCandidate, LoseRace, Goto, TypeOK
    <3>2. CASE FindOpenIncident(d)
      BY <3>2 DEF FindOpenIncident, Goto, Aim, TypeOK
    <3>3. CASE Acknowledge(d)
      BY <3>3 DEF Acknowledge, Stop, Goto, Aim, TypeOK
    <3> QED  BY <1>6, <3>1, <3>2, <3>3
  <2> QED  BY <2>1 DEF CloserOK, Recorded, Open
<1>7. ASSUME NEW q \in Closer, NEW i \in Incident, NEW p \in Staff, RequestClose(q, i, p)
      PROVE  CloserOK(r)'
  BY <1>7 DEF RequestClose, Goto, Aim, CloserOK, Recorded, Open, TypeOK
<1>8. ASSUME NEW q \in Closer, CloseIncident(q) PROVE CloserOK(r)'
  <2>1. Open(target[q]) /\ target[q] \in Incident /\ incidentLock[target[q]] = None
    BY <1>8 DEF IInv, CloserOK, CloseIncident, Closable
  <2> QED  BY <1>8, <2>1 DEF CloseIncident, Goto, CloserOK, Recorded, Open, TypeOK
<1>9. ASSUME NEW q \in Closer, RefuseClose(q) PROVE CloserOK(r)'
  BY <1>9 DEF RefuseClose, Answer, Goto, Aim, CloserOK, Recorded, Open, TypeOK
<1>10. ASSUME NEW q \in Closer, RollBackClose(q) PROVE CloserOK(r)'
  <2>1. CASE r = q
    BY <1>10, <2>1 DEF RollBackClose, Answer, Goto, CloserOK, TypeOK
  <2>2. CASE r # q
    <3>1. /\ pc'[r] = pc[r] /\ target'[r] = target[r] /\ closedBy'[r] = closedBy[r]
          /\ incident' = incident
      BY <1>10, <2>2 DEF RollBackClose, Answer, Goto, Aim, TypeOK
    <3>2. pc[r] = "closed" => incidentLock'[target[r]] = r
      BY <1>10, <2>2, OthersKeepLocks DEF RollBackClose, CloserOK
    <3> QED  BY <3>1, <3>2 DEF CloserOK, Recorded, Open
  <2> QED  BY <2>1, <2>2
<1>11. ASSUME NEW d \in Detector, NEW s \in Signal, Fetch(d, s) PROVE CloserOK(r)'
  BY <1>11 DEF Fetch, Goto, CloserOK, Recorded, Open, TypeOK
<1>12. ASSUME \/ \E s \in Signal : GiveBack(s)
              \/ \E s \in Signal, k \in Kind, a \in Area : Ingest(s, k, a)
              \/ UNCHANGED vars
       PROVE  CloserOK(r)'
  BY <1>12 DEF GiveBack, Ingest, vars, CloserOK, Recorded, Open
<1>13. ASSUME NEW d \in Detector, HandlerStep(d) PROVE CloserOK(r)'
  BY <1>1, <1>3, <1>5, <1>6, <1>13 DEF HandlerStep
<1>14. ASSUME NEW q \in Closer, CloserStep(q) PROVE CloserOK(r)'
  BY <1>2, <1>8, <1>9, <1>14 DEF CloserStep
<1> QED
  BY <1>4, <1>7, <1>10, <1>11, <1>12, <1>13, <1>14 DEF Next

\* There is still at most one open incident.
LEMMA NextOneOpen == IInv /\ [Next]_vars => OneOpenIncident'
<1> SUFFICES ASSUME IInv, [Next]_vars, NEW i \in Incident, NEW j \in Incident,
                    Open(i)', Open(j)'
             PROVE  i = j
  BY DEF OneOpenIncident
<1>1. CASE UNCHANGED incident
  BY <1>1 DEF IInv, OneOpenIncident, Open, Recorded
<1>2. ASSUME NEW d \in Detector, CommitDetection(d) PROVE i = j
  <2>1. pc[d] = "opened" => \A k \in Incident : ~Open(k)
    BY DEF IInv, DetectorOK
  <2> QED  BY <1>2, <2>1, DetectionWrites DEF IInv, OneOpenIncident
<1>3. ASSUME NEW q \in Closer, CommitClose(q) PROVE i = j
  BY <1>3, ClosureWrites DEF IInv, OneOpenIncident
<1> QED  BY <1>1, <1>2, <1>3, IncidentsChange

-----------------------------------------------------------------------------
\* A committed signal never changes.
LEMMA SignalsPermanent ==
  ASSUME IInv, [Next]_vars, NEW s \in Signal, signal[s] # None
  PROVE  signal'[s] = signal[s]
<1> USE DEF tables
<1>1. ASSUME NEW t \in Signal, NEW k \in Kind, NEW a \in Area, Ingest(t, k, a)
      PROVE  signal'[s] = signal[s]
  BY <1>1 DEF Ingest, IInv, TypeOK
<1>2. ASSUME NEW d \in Detector, HandlerStep(d) PROVE signal' = signal
  BY <1>2 DEF HandlerStep, EvaluateCandidate, FindOpenIncident, AppendToOpenIncident,
     OpenNewIncident, LoseRace, LookupRaceWinner, Fail, CommitDetection, Acknowledge
<1>3. ASSUME NEW q \in Closer, CloserStep(q) PROVE signal' = signal
  BY <1>3 DEF CloserStep, CloseIncident, RefuseClose, CommitClose
<1> QED
  BY <1>1, <1>2, <1>3 DEF Next, vars, Fetch, Fail, GiveBack, RequestClose, RollBackClose

\* The entry a detection adds is the one of its own signal.
LEMMA DetectionEnters ==
  ASSUME IInv, NEW d \in Detector, CommitDetection(d), NEW s \in Signal, NEW i \in Incident
  PROVE  /\ task[d] \in Signal /\ signal[task[d]] # None
         /\ entries'[task[d]][target[d]] > 0
         /\ entries[s][i] > 0 => entries'[s][i] > 0
         /\ entries'[s][i] > 0 => entries[s][i] > 0 \/ s = task[d]
<1>1. entries \in [Signal -> [Incident -> Nat]]
  BY DEF IInv, TypeOK
<1>2. task[d] \in Signal /\ signal[task[d]] # None /\ target[d] \in Incident
  BY WrittenRow DEF IInv, DetectorOK, CommitDetection
<1>3. entries' = [entries EXCEPT ![task[d]][target[d]] = @ + 1]
  BY DEF CommitDetection, Trail
<1>4. /\ entries[task[d]][target[d]] \in Nat
      /\ entries'[task[d]][target[d]] = entries[task[d]][target[d]] + 1
  BY <1>1, <1>2, <1>3
<1>5. CASE s = task[d] /\ i = target[d]
  BY <1>2, <1>4, <1>5
<1>6. CASE ~(s = task[d] /\ i = target[d])
  <2>1. entries'[s][i] = entries[s][i]
    BY <1>1, <1>2, <1>3, <1>6
  <2> QED  BY <1>2, <1>4, <2>1
<1> QED  BY <1>5, <1>6

\* A trail only grows.
LEMMA TrailsGrow ==
  ASSUME IInv, [Next]_vars, NEW s \in Signal, NEW i \in Incident, entries[s][i] > 0
  PROVE  entries'[s][i] > 0
<1>1. ASSUME NEW q \in Closer, CommitClose(q) PROVE entries' = entries
  BY <1>1 DEF CommitClose
<1> QED  BY <1>1, IncidentsChange, DetectionEnters

\* Jobs and location entries stay about committed signals.
LEMMA NextSignals == IInv /\ [Next]_vars => SignalsOK'
<1> SUFFICES ASSUME IInv, [Next]_vars PROVE SignalsOK'
  OBVIOUS
<1> TypeOK /\ SignalsOK
  BY DEF IInv
<1>1. ASSUME NEW s \in Signal, Jobs!Sent(s)' PROVE signal'[s] # None
  <2>1. CASE Jobs!Sent(s)
    BY <2>1, SignalsPermanent DEF SignalsOK
  <2>2. CASE ~Jobs!Sent(s)
    <3>1. Jobs!QueueTypeOK
      BY DEF TypeOK
    <3>2. ASSUME NEW t \in Signal, NEW k \in Kind, NEW a \in Area, Ingest(t, k, a)
          PROVE  signal'[s] # None
      <4>1. s = t
        BY <1>1, <2>2, <3>1, <3>2 DEF Ingest, Jobs!Send, Jobs!Sent, Jobs!QueueTypeOK
      <4>2. [kind |-> k, area |-> a] \in SignalRow
        BY DEF SignalRow
      <4> QED  BY <3>2, <4>1, <4>2, IntrusionIncidentAssumption DEF Ingest, TypeOK
    <3>3. ASSUME NEW d \in Detector, NEW t \in Signal, Fetch(d, t) PROVE FALSE
      BY <1>1, <2>2, <3>1, <3>3 DEF Fetch, Jobs!Deliver, Jobs!Sent, Jobs!QueueTypeOK
    <3>4. ASSUME NEW t \in Signal, GiveBack(t) PROVE FALSE
      BY <1>1, <2>2, <3>1, <3>4
         DEF GiveBack, Jobs!Release, Jobs!Active, Jobs!Sent, Jobs!QueueTypeOK
    <3>5. ASSUME NEW d \in Detector, HandlerStep(d) PROVE FALSE
      <4>1. CASE Acknowledge(d)
        <5>1. task[d] \in Signal
          BY <4>1 DEF IInv, DetectorOK, Acknowledge
        <5> QED
          BY <1>1, <2>2, <3>1, <4>1, <5>1
             DEF Acknowledge, Jobs!Complete, Jobs!Sent, Jobs!QueueTypeOK
      <4>2. CASE ~Acknowledge(d)
        <5>1. queue' = queue
          BY <3>5, <4>2 DEF HandlerStep, EvaluateCandidate, FindOpenIncident,
             AppendToOpenIncident, OpenNewIncident, LoseRace, LookupRaceWinner, Fail,
             CommitDetection
        <5> QED  BY <1>1, <2>2, <5>1 DEF Jobs!Sent
      <4> QED  BY <4>1, <4>2
    <3>6. CASE UNCHANGED queue
      BY <1>1, <2>2, <3>6 DEF Jobs!Sent
    <3>7. ASSUME NEW q \in Closer, CloserStep(q) PROVE UNCHANGED queue
      BY <3>7 DEF CloserStep, CloseIncident, RefuseClose, CommitClose
    <3> QED
      BY <3>2, <3>3, <3>4, <3>5, <3>6, <3>7 DEF Next, vars, Fail, RequestClose, RollBackClose
  <2> QED  BY <2>1, <2>2
<1>2. ASSUME NEW s \in Signal, NEW i \in Incident, entries'[s][i] > 0
      PROVE  signal'[s] # None
  <2>1. CASE entries[s][i] > 0
    BY <2>1, SignalsPermanent DEF SignalsOK
  <2>2. CASE ~(entries[s][i] > 0)
    <3>1. \A q \in Closer : CommitClose(q) => entries' = entries
      BY DEF CommitClose
    <3>2. PICK d \in Detector : CommitDetection(d)
      BY <1>2, <2>2, <3>1, IncidentsChange
    <3>3. s = task[d] /\ signal[s] # None
      BY <1>2, <2>2, <3>2, DetectionEnters
    <3> QED  BY <3>3, SignalsPermanent
  <2> QED  BY <2>1, <2>2
<1> QED  BY <1>1, <1>2 DEF SignalsOK

\* An incident's area stays one its trail explains.
LEMMA NextVisited == IInv /\ [Next]_vars => CurrentAreaWasVisited'
<1> SUFFICES ASSUME IInv, [Next]_vars, NEW i \in Incident, Recorded(i)'
             PROVE  \E s \in Signal : entries'[s][i] > 0 /\ signal'[s].area = incident'[i].area
  BY DEF CurrentAreaWasVisited
<1>1. ASSUME Recorded(i), incident'[i].area = incident[i].area
      PROVE  \E s \in Signal : entries'[s][i] > 0 /\ signal'[s].area = incident'[i].area
  <2>1. PICK s \in Signal : entries[s][i] > 0 /\ signal[s].area = incident[i].area
    BY <1>1 DEF IInv, CurrentAreaWasVisited
  <2>2. signal'[s] = signal[s]
    BY <2>1, SignalsPermanent DEF IInv, SignalsOK
  <2> QED  BY <1>1, <2>1, <2>2, TrailsGrow
<1>2. CASE UNCHANGED <<incident, entries>>
  BY <1>1, <1>2 DEF Recorded
<1>3. ASSUME NEW q \in Closer, CommitClose(q)
      PROVE  Recorded(i) /\ incident'[i].area = incident[i].area
  BY <1>3, ClosureWrites DEF Recorded
<1>4. ASSUME NEW d \in Detector, CommitDetection(d)
      PROVE  \E s \in Signal : entries'[s][i] > 0 /\ signal'[s].area = incident'[i].area
  <2>1. CASE i # target[d]
    <3>1. Recorded(i) /\ incident'[i].area = incident[i].area
      BY <1>4, <2>1, DetectionWrites DEF Recorded
    <3> QED  BY <1>1, <3>1
  <2>2. CASE i = target[d] /\ pc[d] = "joined"
    <3>1. Recorded(i) /\ incident'[i].area = incident[i].area
      BY <1>4, <2>2, DetectionWrites, WrittenRow
    <3> QED  BY <1>1, <3>1
  <2>3. CASE i = target[d] /\ pc[d] # "joined"
    <3>1. incident'[i].area = signal[task[d]].area
      BY <1>4, <2>3, DetectionWrites, WrittenRow DEF AreaOf
    <3>2. task[d] \in Signal
      BY <1>4 DEF IInv, DetectorOK, CommitDetection
    <3>3. entries'[task[d]][i] > 0
      BY <1>4, <2>3, <3>2, DetectionEnters
    <3>4. signal' = signal
      BY <1>4 DEF CommitDetection
    <3> QED  BY <3>1, <3>2, <3>3, <3>4
  <2> QED  BY <2>1, <2>2, <2>3
<1> QED  BY <1>1, <1>2, <1>3, <1>4, IncidentsChange

-----------------------------------------------------------------------------
\* Once correlated, a signal stays so.
LEMMA StaysCorrelated ==
  ASSUME IInv, [Next]_vars, NEW s \in Signal, Correlated(s)
  PROVE  Correlated(s)'
BY TrailsGrow DEF Correlated

(***************************************************************************)
(* A detector is done with a crossing only after its transaction has added *)
(* the location entry: the other ways to "done" are for scans.             *)
(***************************************************************************)
LEMMA NextDone == IInv /\ [Next]_vars => DoneCorrelated'
<1> SUFFICES ASSUME IInv, [Next]_vars, NEW e \in Detector, pc'[e] = "done",
                    signal'[task'[e]].kind = "barrier crossing"
             PROVE  Correlated(task[e])'
  BY DEF DoneCorrelated
<1> USE IntrusionIncidentAssumption DEF tables, private
<1> TypeOK /\ DetectorOK(e)
  BY DEF IInv
<1>1. ASSUME pc[e] = "done", task'[e] = task[e] PROVE Correlated(task[e])'
  <2>1. task[e] \in Signal /\ signal[task[e]] # None
    BY <1>1 DEF DetectorOK
  <2>2. signal'[task[e]] = signal[task[e]]
    BY <2>1, SignalsPermanent
  <2>3. Correlated(task[e])
    BY <1>1, <2>2 DEF IInv, DoneCorrelated
  <2>4. \E s \in Signal : s = task[e] /\ s = task'[e]
    BY <1>1, <2>1
  <2> QED  BY <2>3, <2>4, StaysCorrelated DEF Correlated
<1>2. ASSUME NEW d \in Detector, CommitDetection(d) PROVE Correlated(task[e])'
  <2>1. CASE e = d
    <3>1. task[d] \in Signal /\ target[d] \in Incident
      BY <1>2, WrittenRow DEF IInv, DetectorOK, CommitDetection
    <3>2. entries'[task[d]][target[d]] > 0
      BY <1>2, <3>1, DetectionEnters
    <3>3. task' = task
      BY <1>2 DEF CommitDetection
    <3> QED  BY <2>1, <3>1, <3>2, <3>3 DEF Correlated
  <2>2. CASE e # d
    BY <1>1, <1>2, <2>2 DEF CommitDetection, Goto, TypeOK
  <2> QED  BY <2>1, <2>2
<1>3. ASSUME NEW d \in Detector, NEW b \in BOOLEAN, EvaluateCandidate(d, b)
      PROVE  Correlated(task[e])'
  <2>1. task' = task /\ signal' = signal
    BY <1>3 DEF EvaluateCandidate
  <2>2. CASE e = d
    BY <1>3, <2>1, <2>2 DEF EvaluateCandidate, Goto, TypeOK
  <2>3. CASE e # d
    BY <1>1, <1>3, <2>1, <2>3 DEF EvaluateCandidate, Goto, TypeOK
  <2> QED  BY <2>2, <2>3
<1>4. ASSUME NEW d \in Detector, Fail(d) PROVE pc[e] = "done" /\ task'[e] = task[e]
  BY <1>4 DEF Fail, Stop, Goto, TypeOK
<1>5. ASSUME NEW d \in Detector, HandlerStep(d), ~CommitDetection(d),
             \A b \in BOOLEAN : ~EvaluateCandidate(d, b)
      PROVE  pc[e] = "done" /\ task'[e] = task[e]
  <2>1. CASE FindOpenIncident(d)
    BY <2>1 DEF FindOpenIncident, Goto, TypeOK
  <2>2. CASE AppendToOpenIncident(d) \/ LoseRace(d)
    BY <2>2 DEF AppendToOpenIncident, LoseRace, Goto, TypeOK
  <2>3. CASE \E i \in Incident : OpenNewIncident(d, i)
    BY <2>3 DEF OpenNewIncident, Goto, TypeOK
  <2>4. CASE LookupRaceWinner(d)
    BY <1>4, <2>4 DEF LookupRaceWinner, Goto, TypeOK
  <2>5. CASE Acknowledge(d)
    BY <2>5 DEF Acknowledge, Stop, Goto, TypeOK
  <2> QED  BY <1>5, <2>1, <2>2, <2>3, <2>4, <2>5 DEF HandlerStep
<1>6. ASSUME NEW d \in Detector, NEW s \in Signal, Fetch(d, s)
      PROVE  pc[e] = "done" /\ task'[e] = task[e]
  BY <1>6 DEF Fetch, Goto, TypeOK
<1>7. ASSUME NEW q \in Closer,
             \/ CloserStep(q) \/ RollBackClose(q)
             \/ \E i \in Incident, p \in Staff : RequestClose(q, i, p)
      PROVE  pc[e] = "done" /\ task'[e] = task[e]
  BY <1>7 DEF CloserStep, CloseIncident, RefuseClose, CommitClose, RollBackClose,
     RequestClose, Answer, Goto, TypeOK
<1>8. ASSUME \/ \E s \in Signal : GiveBack(s)
             \/ \E s \in Signal, k \in Kind, a \in Area : Ingest(s, k, a)
             \/ UNCHANGED vars
      PROVE  pc[e] = "done" /\ task'[e] = task[e]
  BY <1>8 DEF GiveBack, Ingest, vars
<1> QED
  BY <1>1, <1>2, <1>3, <1>4, <1>5, <1>6, <1>7, <1>8 DEF Next

\* Only a detector that is done completes a job.
LEMMA NextCompleted == IInv /\ [Next]_vars => CompletedCrossingsAreCorrelated'
<1> SUFFICES ASSUME IInv, [Next]_vars, NEW s \in Signal, queue'[s].state = "completed",
                    signal'[s].kind = "barrier crossing"
             PROVE  Correlated(s)'
  BY DEF CompletedCrossingsAreCorrelated
<1> TypeOK /\ Jobs!QueueTypeOK
  BY DEF IInv, TypeOK
<1>1. CASE queue[s].state = "completed"
  <2>1. signal[s] # None
    BY <1>1 DEF IInv, SignalsOK, Jobs!Sent
  <2>2. signal'[s] = signal[s]
    BY <2>1, SignalsPermanent
  <2>3. Correlated(s)
    BY <1>1, <2>2 DEF IInv, CompletedCrossingsAreCorrelated
  <2> QED  BY <2>3, StaysCorrelated
<1>2. CASE queue[s].state # "completed"
  <2>1. PICK d \in Detector : Acknowledge(d) /\ task[d] = s
    <3>1. ASSUME NEW t \in Signal, NEW k \in Kind, NEW a \in Area, Ingest(t, k, a) PROVE FALSE
      BY <1>2, <3>1 DEF Ingest, Jobs!Send, Jobs!QueueTypeOK
    <3>2. ASSUME NEW d \in Detector, NEW t \in Signal, Fetch(d, t) PROVE FALSE
      BY <1>2, <3>2 DEF Fetch, Jobs!Deliver, Jobs!QueueTypeOK
    <3>3. ASSUME NEW t \in Signal, GiveBack(t) PROVE FALSE
      BY <1>2, <3>3 DEF GiveBack, Jobs!Release, Jobs!Active, Jobs!QueueTypeOK
    <3>4. ASSUME NEW d \in Detector, HandlerStep(d) PROVE Acknowledge(d) /\ task[d] = s
      <4>1. Acknowledge(d)
        BY <1>2, <3>4 DEF HandlerStep, EvaluateCandidate, FindOpenIncident,
           AppendToOpenIncident, OpenNewIncident, LoseRace, LookupRaceWinner, Fail,
           CommitDetection
      <4>2. task[d] \in Signal
        BY <4>1 DEF IInv, DetectorOK, Acknowledge
      <4> QED  BY <1>2, <4>1, <4>2 DEF Acknowledge, Jobs!Complete, Jobs!QueueTypeOK
    <3>5. ASSUME NEW q \in Closer, CloserStep(q) PROVE FALSE
      BY <1>2, <3>5 DEF CloserStep, CloseIncident, RefuseClose, CommitClose
    <3> QED
      BY <1>2, <3>1, <3>2, <3>3, <3>4, <3>5 DEF Next, vars, Fail, RequestClose, RollBackClose
  <2>2. signal[s] # None /\ pc[d] = "done"
    BY <2>1 DEF IInv, DetectorOK, Acknowledge
  <2>3. signal'[s] = signal[s]
    BY <2>2, SignalsPermanent
  <2>4. Correlated(s)
    BY <2>1, <2>2, <2>3 DEF IInv, DoneCorrelated
  <2> QED  BY <2>4, StaysCorrelated
<1> QED  BY <1>1, <1>2

\* The invariant is inductive.
LEMMA NextInv == IInv /\ [Next]_vars => IInv'
<1> SUFFICES ASSUME IInv, [Next]_vars PROVE IInv'
  OBVIOUS
<1>1. \A d \in Detector : DetectorOK(d)'
  BY NextDetector
<1>2. \A q \in Closer : CloserOK(q)'
  BY NextCloser
<1> QED
  BY <1>1, <1>2, NextType, NextSoleOpener, NextSignals, NextOneOpen, NextVisited, NextDone,
     NextCompleted DEF IInv

\* The invariant holds in every reachable state.
LEMMA Invariance == Spec => []IInv
BY InitInv, NextInv, PTL DEF Spec

-----------------------------------------------------------------------------
(***************************************************************************)
(* Type correctness of detection, closing and their queue.                 *)
(***************************************************************************)
THEOREM TypeCorrect == Spec => []TypeOK
BY Invariance, PTL DEF IInv

(***************************************************************************)
(* Detectors and closers in any number and order never leave two open      *)
(* incidents.                                                              *)
(***************************************************************************)
THEOREM OneOpen == Spec => []OneOpenIncident
BY Invariance, PTL DEF IInv

(***************************************************************************)
(* The area an incident shows is always one its trail explains.            *)
(***************************************************************************)
THEOREM AreaVisited == Spec => []CurrentAreaWasVisited
BY Invariance, PTL DEF IInv

(***************************************************************************)
(* A completed barrier crossing is in the trail of an incident, whatever   *)
(* races, rollbacks and redeliveries it went through.                      *)
(***************************************************************************)
THEOREM CrossingsCorrelated == Spec => []CompletedCrossingsAreCorrelated
BY Invariance, PTL DEF IInv

(***************************************************************************)
(* Nothing changes who closed an incident, or opens it again.              *)
(***************************************************************************)
THEOREM ClosurePermanent == Spec => ClosureIsFinal
<1>1. ASSUME IInv, [Next]_vars, NEW i \in Incident, Closed(i)
      PROVE  incident'[i].closedBy = incident[i].closedBy
  <2>1. ASSUME NEW q \in Closer, CommitClose(q) PROVE incident'[i] = incident[i]
    BY <1>1, <2>1, ClosureWrites DEF Open, Closed
  <2> QED  BY <1>1, <2>1, IncidentsChange, DetectionWrites
<1>2. IInv /\ [Next]_vars =>
        [\A i \in Incident : Closed(i) => incident'[i].closedBy = incident[i].closedBy]_vars
  BY <1>1
<1> QED
  BY <1>2, Invariance, PTL DEF Spec, ClosureIsFinal
=============================================================================
