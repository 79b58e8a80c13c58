------------------------ MODULE DeduplicationProofs ------------------------
(***************************************************************************)
(* Proofs about the deduplication stage, for any number of check-ins, keys *)
(* and workers, any windows and any retry limit.                           *)
(***************************************************************************)
EXTENDS Deduplication, TLAPS

(***************************************************************************)
(* What holds of the rows and the jobs: a row carries a time, a job is     *)
(* about a committed row, and a pointer stays within its correlation key.  *)
(***************************************************************************)
RowsOK ==
  \A c \in Checkin :
    /\ Committed(c) => checkinAt[c] \in Time
    /\ Jobs!Sent(c) => Committed(c)
    /\ IsDuplicate(c) => Committed(c) /\ key[duplicateOf[c]] = key[c]

(***************************************************************************)
(* What holds of a worker between two statements.  Inside the critical     *)
(* section it holds the lock of its check-in's key, and the row its SELECT *)
(* returned is still a canonical row of that key.                          *)
(***************************************************************************)
WorkerOK(w) ==
  /\ pc[w] # "idle" => task[w] \in Checkin /\ Committed(task[w])
  /\ pc[w] \in {"search", "commit"} => lock[key[task[w]]] = w
  /\ pc[w] = "commit" /\ canonical[w] # None =>
       /\ canonical[w] # task[w]
       /\ key[canonical[w]] = key[task[w]]
       /\ ~IsDuplicate(canonical[w])

\* A handler run for check-in c has committed, or nothing was left to do.
Processed(c) ==
  \/ queue[c].state = "completed"
  \/ \E w \in Worker : pc[w] = "done" /\ task[w] = c

Near(c, d) == c # d /\ key[c] = key[d] /\ InWindow(c, d)

(***************************************************************************)
(* Of two processed check-ins that fall together, one is a duplicate, and  *)
(* a worker about to leave its check-in canonical is the first to do so.   *)
(***************************************************************************)
ProcessedOK ==
  /\ \A c, d \in Checkin :
       Processed(c) /\ Processed(d) /\ Near(c, d) => IsDuplicate(c) \/ IsDuplicate(d)
  /\ \A w \in Worker : pc[w] = "commit" /\ canonical[w] = None =>
       \A d \in Checkin : Processed(d) /\ Near(task[w], d) => IsDuplicate(d)

IInv ==
  /\ TypeOK
  /\ RowsOK
  /\ \A w \in Worker : WorkerOK(w)
  /\ NoPointerCycle
  /\ ProcessedOK

-----------------------------------------------------------------------------
\* The window is symmetric between two committed rows of one key.
LEMMA NearSymmetric ==
  ASSUME TypeOK, RowsOK, NEW c \in Checkin, NEW d \in Checkin, Committed(c),
         Near(c, d)
  PROVE  Near(d, c)
<1>1. Committed(d) /\ key[c] \in Key /\ key[d] = key[c]
  BY DEF TypeOK, Committed, Near
<1>2. checkinAt[c] \in Int /\ checkinAt[d] \in Int
  BY <1>1, DeduplicationAssumption DEF RowsOK
<1>3. Window[key[c]] \in Nat
  BY <1>1, DeduplicationAssumption
<1> QED
  BY <1>1, <1>2, <1>3 DEF Near, InWindow

(***************************************************************************)
(* The heart of the matter: pointing a row at a canonical one never closes *)
(* a cycle, because the canonical row itself points nowhere.               *)
(***************************************************************************)
LEMMA PointingAtCanonical ==
  ASSUME TypeOK, NoPointerCycle,
         NEW c \in Checkin, NEW d \in Checkin, c # d, ~IsDuplicate(d),
         duplicateOf' = [duplicateOf EXCEPT ![c] = d]
  PROVE  NoPointerCycle'
<1> SUFFICES ASSUME NEW S \in SUBSET Checkin, S # {},
                    \A x \in S : duplicateOf'[x] \in S
             PROVE  FALSE
  BY DEF NoPointerCycle
<1>1. c \notin S
  <2> SUFFICES ASSUME c \in S PROVE FALSE
    OBVIOUS
  <2>1. duplicateOf'[c] = d
    BY DEF TypeOK
  <2>2. d \in S /\ duplicateOf'[d] = None
    BY <2>1 DEF TypeOK, IsDuplicate
  <2> QED
    BY <2>2, DeduplicationAssumption
<1>2. \A x \in S : duplicateOf'[x] = duplicateOf[x]
  BY <1>1 DEF TypeOK
<1> QED
  BY <1>2 DEF NoPointerCycle

-----------------------------------------------------------------------------
\* The invariant holds of the empty table and the empty queue.
LEMMA InitInv == Init => IInv
<1> SUFFICES ASSUME Init PROVE IInv
  OBVIOUS
<1>1. TypeOK
  BY DeduplicationAssumption
     DEF Init, TypeOK, Jobs!QueueInit, Jobs!QueueTypeOK, Jobs!JobState, Step
<1>2. RowsOK
  BY DEF Init, RowsOK, Committed, IsDuplicate, Jobs!QueueInit, Jobs!Sent
<1>3. \A w \in Worker : WorkerOK(w)
  BY DEF Init, WorkerOK
<1>4. NoPointerCycle
  BY DeduplicationAssumption DEF Init, NoPointerCycle
<1>5. ProcessedOK
  BY DEF Init, ProcessedOK, Processed, Jobs!QueueInit
<1> QED
  BY <1>1, <1>2, <1>3, <1>4, <1>5 DEF IInv

\* Every step keeps the variables in their types.
LEMMA NextType == TypeOK /\ [Next]_vars => TypeOK'
<1> SUFFICES ASSUME TypeOK, [Next]_vars PROVE TypeOK'
  OBVIOUS
<1> USE DeduplicationAssumption DEF TypeOK, Step
<1>1. ASSUME NEW c \in Checkin, NEW k \in Key, NEW t \in Time,
             NEW s \in Stamp, CommitIdentification(c, k, t, s)
      PROVE  TypeOK'
  BY <1>1 DEF CommitIdentification, Jobs!Send, Jobs!QueueTypeOK, Jobs!JobState
<1>2. ASSUME NEW w \in Worker, NEW c \in Checkin, Fetch(w, c) PROVE TypeOK'
  BY <1>2 DEF Fetch, Goto, rowVars, Jobs!Deliver, Jobs!QueueTypeOK, Jobs!JobState
<1>3. ASSUME NEW w \in Worker, ReadCheckin(w) PROVE TypeOK'
  BY <1>3 DEF ReadCheckin, Goto, rowVars, Jobs!QueueTypeOK
<1>4. ASSUME NEW w \in Worker, AcquireLock(w) PROVE TypeOK'
  BY <1>4 DEF AcquireLock, Goto, rowVars, Jobs!QueueTypeOK
<1>5. ASSUME NEW w \in Worker, FindCanonical(w) PROVE TypeOK'
  BY <1>5 DEF FindCanonical, Goto, rowVars, Jobs!QueueTypeOK, Oldest, Candidates
<1>6. ASSUME NEW w \in Worker, CommitHandler(w) PROVE TypeOK'
  BY <1>6 DEF CommitHandler, Marked, Unlock, Goto, rowVars, Jobs!QueueTypeOK
<1>7. ASSUME NEW w \in Worker, Acknowledge(w) PROVE TypeOK'
  BY <1>7 DEF Acknowledge, Stop, Goto, rowVars, Jobs!Complete, Jobs!QueueTypeOK,
              Jobs!JobState
<1>8. ASSUME NEW w \in Worker, Fail(w) PROVE TypeOK'
  BY <1>8 DEF Fail, Stop, Goto, Unlock, rowVars, Jobs!QueueTypeOK
<1>9. ASSUME NEW c \in Checkin, GiveBack(c) PROVE TypeOK'
  BY <1>9 DEF GiveBack, rowVars, Jobs!Release, Jobs!QueueTypeOK, Jobs!JobState
<1>10. CASE UNCHANGED vars
  BY <1>10 DEF vars, rowVars, Jobs!QueueTypeOK
<1> QED
  BY <1>1, <1>2, <1>3, <1>4, <1>5, <1>6, <1>7, <1>8, <1>9, <1>10
     DEF Next, HandlerStep

\* The invariant about rows and jobs is kept by every step.
LEMMA NextRows == IInv /\ [Next]_vars => RowsOK'
<1> SUFFICES ASSUME IInv, [Next]_vars PROVE RowsOK'
  OBVIOUS
<1> USE DeduplicationAssumption
    DEF IInv, TypeOK, RowsOK, Committed, IsDuplicate, Jobs!Sent
<1>1. ASSUME NEW c \in Checkin, NEW k \in Key, NEW t \in Time,
             NEW s \in Stamp, CommitIdentification(c, k, t, s)
      PROVE  RowsOK'
  <2>1. key' = [key EXCEPT ![c] = k] /\ checkinAt' = [checkinAt EXCEPT ![c] = t]
        /\ duplicateOf' = duplicateOf /\ key[c] = None
    BY <1>1 DEF CommitIdentification
  <2>2. \A y \in Checkin : y # c => queue'[y] = queue[y]
    BY <1>1 DEF CommitIdentification, Jobs!Send, Jobs!QueueTypeOK
  <2>3. ASSUME NEW y \in Checkin, duplicateOf[y] # None
        PROVE  y # c /\ duplicateOf[y] # c
    BY <2>1, <2>3
  <2> QED
    BY <2>1, <2>2, <2>3
<1>2. ASSUME NEW w \in Worker, NEW c \in Checkin, Fetch(w, c) PROVE RowsOK'
  BY <1>2 DEF Fetch, rowVars, Jobs!Deliver, Jobs!QueueTypeOK
<1>3. ASSUME NEW w \in Worker, ReadCheckin(w) PROVE RowsOK'
  BY <1>3 DEF ReadCheckin, rowVars
<1>4. ASSUME NEW w \in Worker, AcquireLock(w) PROVE RowsOK'
  BY <1>4 DEF AcquireLock, rowVars
<1>5. ASSUME NEW w \in Worker, FindCanonical(w) PROVE RowsOK'
  BY <1>5 DEF FindCanonical, rowVars
<1>6. ASSUME NEW w \in Worker, CommitHandler(w) PROVE RowsOK'
  BY <1>6 DEF CommitHandler, Marked, rowVars, WorkerOK
<1>7. ASSUME NEW w \in Worker, Acknowledge(w) PROVE RowsOK'
  BY <1>7 DEF Acknowledge, rowVars, Jobs!Complete, Jobs!QueueTypeOK
<1>8. ASSUME NEW w \in Worker, Fail(w) PROVE RowsOK'
  BY <1>8 DEF Fail, rowVars
<1>9. ASSUME NEW c \in Checkin, GiveBack(c) PROVE RowsOK'
  BY <1>9 DEF GiveBack, rowVars, Jobs!Release, Jobs!Active, Jobs!QueueTypeOK
<1>10. CASE UNCHANGED vars
  BY <1>10 DEF vars, rowVars
<1> QED
  BY <1>1, <1>2, <1>3, <1>4, <1>5, <1>6, <1>7, <1>8, <1>9, <1>10
     DEF Next, HandlerStep

(***************************************************************************)
(* Mutual exclusion keeps what a worker learnt true: nobody else marks a   *)
(* row of its key before it commits.                                       *)
(***************************************************************************)
LEMMA NextWorker ==
  ASSUME IInv, [Next]_vars, NEW v \in Worker
  PROVE  WorkerOK(v)'
<1> USE DeduplicationAssumption DEF IInv, TypeOK, WorkerOK, Committed, IsDuplicate
<1>1. ASSUME NEW c \in Checkin, NEW k \in Key, NEW t \in Time,
             NEW s \in Stamp, CommitIdentification(c, k, t, s)
      PROVE  WorkerOK(v)'
  <2>1. key' = [key EXCEPT ![c] = k] /\ key[c] = None
        /\ UNCHANGED <<duplicateOf, lock, pc, task, canonical>>
    BY <1>1 DEF CommitIdentification
  <2>2. CASE pc[v] = "idle"
    BY <2>1, <2>2
  <2>3. CASE pc[v] # "idle"
    <3>1. task[v] \in Checkin /\ task[v] # c /\ key'[task[v]] = key[task[v]]
      BY <2>1, <2>3
    <3>2. pc[v] = "commit" /\ canonical[v] # None =>
            canonical[v] # c /\ key'[canonical[v]] = key[canonical[v]]
      BY <2>1, <2>3
    <3> QED
      BY <2>1, <3>1, <3>2
  <2> QED
    BY <2>2, <2>3
<1>2. ASSUME NEW w \in Worker, NEW c \in Checkin, Fetch(w, c) PROVE WorkerOK(v)'
  BY <1>2 DEF Fetch, Goto, rowVars, Jobs!Deliver, RowsOK, Jobs!Sent
<1>3. ASSUME NEW w \in Worker, ReadCheckin(w) PROVE WorkerOK(v)'
  BY <1>3 DEF ReadCheckin, Goto, rowVars
<1>4. ASSUME NEW w \in Worker, AcquireLock(w) PROVE WorkerOK(v)'
  BY <1>4 DEF AcquireLock, LockFree, Goto, rowVars
<1>5. ASSUME NEW w \in Worker, FindCanonical(w) PROVE WorkerOK(v)'
  BY <1>5 DEF FindCanonical, Oldest, Candidates, Goto, rowVars
<1>6. ASSUME NEW w \in Worker, CommitHandler(w) PROVE WorkerOK(v)'
  <2>1. CASE v = w
    BY <1>6, <2>1 DEF CommitHandler, Goto, rowVars
  <2>2. CASE v # w
    <3>1. pc'[v] = pc[v] /\ task'[v] = task[v] /\ canonical'[v] = canonical[v]
          /\ key' = key
      BY <1>6, <2>2 DEF CommitHandler, Goto, rowVars
    <3>2. pc[v] \in {"search", "commit"} =>
            /\ key[task[v]] # key[task[w]]
            /\ lock'[key[task[v]]] = v
      BY <1>6, <2>2 DEF CommitHandler, Unlock
    <3>3. \A d \in Checkin : key[d] # key[task[w]] => duplicateOf'[d] = duplicateOf[d]
      BY <1>6 DEF CommitHandler, Marked
    <3> QED
      BY <3>1, <3>2, <3>3
  <2> QED
    BY <2>1, <2>2
<1>7. ASSUME NEW w \in Worker, Acknowledge(w) PROVE WorkerOK(v)'
  BY <1>7 DEF Acknowledge, Stop, Goto, rowVars
<1>8. ASSUME NEW w \in Worker, Fail(w) PROVE WorkerOK(v)'
  BY <1>8 DEF Fail, Stop, Goto, Unlock, rowVars
<1>9. ASSUME NEW c \in Checkin, GiveBack(c) PROVE WorkerOK(v)'
  BY <1>9 DEF GiveBack, rowVars
<1>10. CASE UNCHANGED vars
  BY <1>10 DEF vars, rowVars
<1> QED
  BY <1>1, <1>2, <1>3, <1>4, <1>5, <1>6, <1>7, <1>8, <1>9, <1>10
     DEF Next, HandlerStep

\* Only a committing handler moves a pointer, and it keeps them acyclic.
LEMMA NextAcyclic == IInv /\ [Next]_vars => NoPointerCycle'
<1> SUFFICES ASSUME IInv, [Next]_vars PROVE NoPointerCycle'
  OBVIOUS
<1>1. CASE UNCHANGED duplicateOf
  BY <1>1 DEF IInv, NoPointerCycle
<1>2. ASSUME NEW w \in Worker, CommitHandler(w), canonical[w] # None
      PROVE  NoPointerCycle'
  <2>1. task[w] \in Checkin /\ canonical[w] \in Checkin
    BY <1>2 DEF IInv, TypeOK, WorkerOK, CommitHandler
  <2>2. canonical[w] # task[w] /\ ~IsDuplicate(canonical[w])
    BY <1>2 DEF IInv, WorkerOK, CommitHandler
  <2>3. duplicateOf' = [duplicateOf EXCEPT ![task[w]] = canonical[w]]
    BY <1>2 DEF CommitHandler, Marked
  <2> QED
    BY <2>1, <2>2, <2>3, PointingAtCanonical DEF IInv
<1>3. ASSUME NEW w \in Worker, CommitHandler(w), canonical[w] = None
      PROVE  UNCHANGED duplicateOf
  BY <1>3 DEF CommitHandler, Marked
<1>4. (\A w \in Worker : ~CommitHandler(w)) => UNCHANGED duplicateOf
  BY DEF Next, HandlerStep, vars, CommitIdentification, Fetch,
         ReadCheckin, AcquireLock, FindCanonical, Acknowledge, Fail, GiveBack
<1> QED
  BY <1>1, <1>2, <1>3, <1>4

\* A duplicate stays one: pointers are only ever set, never cleared.
LEMMA NextStaysDuplicate ==
  ASSUME IInv, [Next]_vars, NEW c \in Checkin, IsDuplicate(c)
  PROVE  IsDuplicate(c)'
<1>1. ASSUME NEW w \in Worker, CommitHandler(w) PROVE IsDuplicate(c)'
  <2>1. task[w] \in Checkin
    BY <1>1 DEF IInv, WorkerOK, CommitHandler
  <2> QED
    BY <1>1, <2>1 DEF IInv, TypeOK, CommitHandler, Marked, IsDuplicate
<1>2. (\A w \in Worker : ~CommitHandler(w)) => UNCHANGED duplicateOf
  BY DEF Next, HandlerStep, vars, CommitIdentification, Fetch,
         ReadCheckin, AcquireLock, FindCanonical, Acknowledge, Fail, GiveBack
<1> QED
  BY <1>1, <1>2 DEF IsDuplicate

(***************************************************************************)
(* Whoever is processed after a step was processed before it, or is the    *)
(* check-in of the handler that commits or finds nothing to do.            *)
(***************************************************************************)
LEMMA NewlyProcessed ==
  ASSUME IInv, [Next]_vars, NEW c \in Checkin, Processed(c)', ~Processed(c)
  PROVE  \E w \in Worker : /\ task[w] = c
                           /\ \/ CommitHandler(w)
                              \/ ReadCheckin(w) /\ IsDuplicate(c)
<1> USE DEF IInv, TypeOK, Processed
<1>1. ASSUME NEW d \in Checkin, NEW k \in Key, NEW t \in Time,
             NEW s \in Stamp, CommitIdentification(d, k, t, s)
      PROVE  FALSE
  BY <1>1 DEF CommitIdentification, Jobs!Send, Jobs!QueueTypeOK
<1>2. ASSUME NEW w \in Worker, NEW d \in Checkin, Fetch(w, d) PROVE FALSE
  BY <1>2 DEF Fetch, Goto, Jobs!Deliver, Jobs!QueueTypeOK
<1>3. ASSUME NEW w \in Worker, ReadCheckin(w)
      PROVE  task[w] = c /\ IsDuplicate(c)
  <2>1. Committed(task[w])
    BY <1>3 DEF ReadCheckin, WorkerOK
  <2> QED
    BY <1>3, <2>1 DEF ReadCheckin, Goto
<1>4. ASSUME NEW w \in Worker, AcquireLock(w) PROVE FALSE
  BY <1>4 DEF AcquireLock, Goto
<1>5. ASSUME NEW w \in Worker, FindCanonical(w) PROVE FALSE
  BY <1>5 DEF FindCanonical, Goto
<1>6. ASSUME NEW w \in Worker, CommitHandler(w) PROVE task[w] = c
  BY <1>6 DEF CommitHandler, Goto
<1>7. ASSUME NEW w \in Worker, Acknowledge(w) PROVE FALSE
  BY <1>7 DEF Acknowledge, Stop, Goto, Jobs!Complete, Jobs!QueueTypeOK
<1>8. ASSUME NEW w \in Worker, Fail(w) PROVE FALSE
  BY <1>8 DEF Fail, Stop, Goto
<1>9. ASSUME NEW d \in Checkin, GiveBack(d) PROVE FALSE
  BY <1>9 DEF GiveBack, Jobs!Release, Jobs!QueueTypeOK
<1>10. CASE UNCHANGED vars
  BY <1>10 DEF vars, rowVars
<1> QED
  BY <1>1, <1>2, <1>3, <1>4, <1>5, <1>6, <1>7, <1>8, <1>9, <1>10
     DEF Next, HandlerStep

\* A processed check-in has a row.
LEMMA ProcessedIsCommitted ==
  ASSUME IInv, NEW c \in Checkin, Processed(c)
  PROVE  Committed(c)
BY DEF IInv, RowsOK, WorkerOK, Processed, Jobs!Sent

\* The deduplication stage never rewrites what identification stored.
LEMMA RowsImmutable ==
  ASSUME IInv, [Next]_vars, NEW c \in Checkin, Committed(c)
  PROVE  key'[c] = key[c] /\ checkinAt'[c] = checkinAt[c]
<1>1. ASSUME NEW d \in Checkin, NEW k \in Key, NEW t \in Time,
             NEW s \in Stamp, CommitIdentification(d, k, t, s)
      PROVE  key'[c] = key[c] /\ checkinAt'[c] = checkinAt[c]
  BY <1>1 DEF IInv, TypeOK, CommitIdentification, Committed
<1> QED
  BY <1>1 DEF Next, HandlerStep, vars, rowVars, Fetch,
         ReadCheckin, AcquireLock, FindCanonical, CommitHandler, Acknowledge, Fail,
         GiveBack

\* Near check-ins that are processed after a step were rows, and near, before.
LEMMA NearBefore ==
  ASSUME IInv, [Next]_vars, NEW c \in Checkin, NEW d \in Checkin,
         Committed(c), Committed(d), Near(c, d)'
  PROVE  Near(c, d)
BY RowsImmutable DEF Near, InWindow

LEMMA ProcessedWasCommitted ==
  ASSUME IInv, [Next]_vars, NEW c \in Checkin, Processed(c)'
  PROVE  Committed(c)
<1>1. CASE Processed(c)
  BY <1>1, ProcessedIsCommitted
<1>2. CASE ~Processed(c)
  <2>1. PICK w \in Worker : /\ task[w] = c
                            /\ CommitHandler(w) \/ ReadCheckin(w)
    BY <1>2, NewlyProcessed
  <2> QED
    BY <2>1 DEF IInv, WorkerOK, CommitHandler, ReadCheckin
<1> QED
  BY <1>1, <1>2

(***************************************************************************)
(* A check-in that becomes processed is a duplicate, or every near one     *)
(* processed by then is.                                                   *)
(***************************************************************************)
LEMMA NewPairCollapses ==
  ASSUME IInv, [Next]_vars, NEW c \in Checkin, NEW d \in Checkin,
         Processed(c)', ~Processed(c), Processed(d)', Near(c, d)
  PROVE  IsDuplicate(c)' \/ IsDuplicate(d)'
<1>1. PICK w \in Worker : /\ task[w] = c
                          /\ \/ CommitHandler(w)
                             \/ ReadCheckin(w) /\ IsDuplicate(c)
  BY NewlyProcessed
<1>2. CASE IsDuplicate(c) \/ IsDuplicate(d)
  BY <1>2, NextStaysDuplicate
<1>3. CASE CommitHandler(w) /\ canonical[w] # None
  BY <1>1, <1>3, DeduplicationAssumption
     DEF IInv, TypeOK, CommitHandler, Marked, IsDuplicate
<1>4. CASE CommitHandler(w) /\ canonical[w] = None /\ Processed(d)
  BY <1>1, <1>2, <1>4 DEF IInv, ProcessedOK, CommitHandler
<1>5. CASE CommitHandler(w) /\ ~Processed(d) /\ ~IsDuplicate(d)
  <2>1. PICK v \in Worker : task[v] = d /\ CommitHandler(v)
    BY <1>5, NewlyProcessed
  <2>2. v # w
    BY <1>1, <2>1 DEF Near
  <2>3. pc'[v] = pc[v] /\ pc[v] = "commit" /\ pc'[v] = "done"
    BY <1>5, <2>1, <2>2 DEF IInv, TypeOK, CommitHandler, Goto
  <2> QED
    BY <2>3
<1> QED
  BY <1>1, <1>2, <1>3, <1>4, <1>5

\* A worker that found no canonical row is still right about it.
LEMMA SearchStaysRight ==
  ASSUME IInv, [Next]_vars, NEW v \in Worker, NEW d \in Checkin,
         pc'[v] = "commit", canonical'[v] = None,
         Processed(d)', Near(task[v], d)
  PROVE  IsDuplicate(d)' /\ task'[v] = task[v]
<1>1. CASE FindCanonical(v)
  <2>1. Candidates(task[v]) = {}
    BY <1>1, DeduplicationAssumption
       DEF IInv, TypeOK, FindCanonical, Oldest, Candidates
  <2>2. IsDuplicate(d)
    BY <2>1, ProcessedWasCommitted DEF Candidates, Near
  <2> QED
    BY <1>1, <2>2, NextStaysDuplicate DEF FindCanonical
<1>2. CASE ~FindCanonical(v)
  <2>1. pc[v] = "commit" /\ canonical[v] = None /\ task'[v] = task[v]
        /\ ~CommitHandler(v)
    BY <1>2, SMTT(40)
       DEF IInv, TypeOK, Next, HandlerStep, vars, Goto, Stop,
           CommitIdentification, Fetch, ReadCheckin, AcquireLock,
           FindCanonical, CommitHandler, Acknowledge, Fail, GiveBack
  <2>2. CASE Processed(d)
    BY <2>1, <2>2, NextStaysDuplicate DEF IInv, ProcessedOK
  <2>3. CASE ~Processed(d) /\ ~IsDuplicate(d)
    <3>1. PICK w \in Worker : task[w] = d /\ CommitHandler(w)
      BY <2>3, NewlyProcessed
    <3>2. lock[key[task[w]]] = w /\ lock[key[task[v]]] = v
      BY <2>1, <3>1 DEF IInv, WorkerOK, CommitHandler
    <3> QED
      BY <2>1, <3>1, <3>2 DEF Near
  <2> QED
    BY <2>1, <2>2, <2>3, NextStaysDuplicate
<1> QED
  BY <1>1, <1>2

\* Processed pairs stay collapsed.
LEMMA NextProcessed == IInv /\ [Next]_vars => ProcessedOK'
<1> SUFFICES ASSUME IInv, [Next]_vars PROVE ProcessedOK'
  OBVIOUS
<1>1. ASSUME NEW c \in Checkin, NEW d \in Checkin,
             Processed(c)', Processed(d)', Near(c, d)'
      PROVE  IsDuplicate(c)' \/ IsDuplicate(d)'
  <2>1. Committed(c) /\ Near(c, d)
    BY <1>1, ProcessedWasCommitted, NearBefore
  <2>2. Near(d, c)
    BY <2>1, NearSymmetric DEF IInv
  <2>3. CASE Processed(c) /\ Processed(d)
    BY <2>1, <2>3, NextStaysDuplicate DEF IInv, ProcessedOK
  <2> QED
    BY <1>1, <2>1, <2>2, <2>3, NewPairCollapses
<1>2. ASSUME NEW v \in Worker, pc'[v] = "commit", canonical'[v] = None,
             NEW d \in Checkin, Processed(d)', Near(task[v], d)'
      PROVE  IsDuplicate(d)'
  <2>1. task'[v] = task[v] /\ task[v] \in Checkin /\ Committed(task[v])
    BY <1>2 DEF IInv, TypeOK, WorkerOK, Next, HandlerStep, vars, Goto, Stop,
           CommitIdentification, Fetch, ReadCheckin, AcquireLock,
           FindCanonical, CommitHandler, Acknowledge, Fail, GiveBack
  <2>2. PICK c \in Checkin : c = task[v] /\ c = task'[v]
    BY <2>1
  <2>3. Near(c, d)'
    BY <1>2, <2>2 DEF Near, InWindow
  <2>4. Committed(c) /\ Committed(d)
    BY <1>2, <2>1, <2>2, ProcessedWasCommitted DEF Committed
  <2>5. Near(c, d)
    BY <2>3, <2>4, NearBefore
  <2>6. Near(task[v], d)
    BY <2>2, <2>5
  <2> QED
    BY <1>2, <2>6, SearchStaysRight
<1> QED
  BY <1>1, <1>2 DEF ProcessedOK

\* The invariant is inductive.
LEMMA NextInv == IInv /\ [Next]_vars => IInv'
BY NextType, NextRows, NextWorker, NextAcyclic, NextProcessed DEF IInv

LEMMA Invariance == Spec => []IInv
BY InitInv, NextInv, PTL DEF Spec

-----------------------------------------------------------------------------
(***************************************************************************)
(* Type correctness of deduplicate() and its queue.                        *)
(***************************************************************************)
THEOREM TypeCorrect == Spec => []TypeOK
BY Invariance, PTL DEF IInv

(***************************************************************************)
(* Duplicate pointers never form a cycle, under any interleaving of        *)
(* workers, rollbacks and redeliveries.                                    *)
(***************************************************************************)
THEOREM PointersAcyclic == Spec => []NoPointerCycle
BY Invariance, PTL DEF IInv

(***************************************************************************)
(* Deduplication never makes a person's presence disappear: every          *)
(* correlation key with a check-in keeps a canonical one.                  *)
(***************************************************************************)
THEOREM CanonicalKept == Spec => []EveryKeyKeepsACanonical
<1>1. IInv => EveryKeyKeepsACanonical
  <2> SUFFICES ASSUME IInv, NEW c \in Checkin, Committed(c)
               PROVE  \E d \in Checkin : key[d] = key[c] /\ ~IsDuplicate(d)
    BY DEF EveryKeyKeepsACanonical
  <2> DEFINE Group == {d \in Checkin : key[d] = key[c]}
  <2>1. PICK d \in Group : duplicateOf[d] \notin Group
    BY DEF IInv, NoPointerCycle
  <2>2. ~IsDuplicate(d)
    BY <2>1 DEF IInv, TypeOK, RowsOK, IsDuplicate
  <2> QED
    BY <2>2
<1> QED
  BY <1>1, Invariance, PTL

(***************************************************************************)
(* Completed jobs leave no two canonical check-ins of one key within the   *)
(* window, however the deliveries overlapped.                              *)
(***************************************************************************)
THEOREM BurstsCollapse == Spec => []CompletedBurstsCollapse
<1>1. IInv => CompletedBurstsCollapse
  BY DEF IInv, ProcessedOK, Processed, Near, CompletedBurstsCollapse
<1> QED
  BY <1>1, Invariance, PTL

(***************************************************************************)
(* No handler run ever makes a duplicate canonical again.                  *)
(***************************************************************************)
THEOREM DuplicatesPermanent == Spec => DuplicatesStayDuplicates
<1>1. IInv /\ [Next]_vars =>
        [\A c \in Checkin : IsDuplicate(c) => IsDuplicate(c)']_vars
  BY NextStaysDuplicate
<1> QED
  BY <1>1, Invariance, PTL DEF Spec, DuplicatesStayDuplicates
=============================================================================
