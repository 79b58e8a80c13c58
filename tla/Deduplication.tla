--------------------------- MODULE Deduplication ---------------------------
(***************************************************************************)
(* The deduplication stage of the check-in pipeline                        *)
(* (modules/deduplication/deduplication.service.ts and its worker).        *)
(*                                                                         *)
(* Identification commits a row of identification_checkin together with a  *)
(* deduplicate-checkin job.  Workers, one per backend process, take those  *)
(* jobs and run the handler in one READ COMMITTED transaction each: read   *)
(* the check-in, take an advisory lock on its correlation key, look for    *)
(* another canonical check-in of the same key within the window, and mark  *)
(* the check-in as that one's duplicate.  Every SQL statement whose timing *)
(* matters is a step, so workers interleave between statements; the lock   *)
(* is released, and the UPDATE becomes visible, only when the transaction  *)
(* commits.                                                                *)
(***************************************************************************)
EXTENDS Integers, FiniteSets

CONSTANTS
  Checkin,     \* identifiers of identification_checkin rows
  Key,         \* correlation keys: tenant, person, factor type, class session
  Time,        \* the possible values of checkin_at, in seconds
  Stamp,       \* the possible values of created_at
  Window,      \* deduplication window, in seconds, of each key's factor type
  Worker,      \* backend processes polling the deduplicate-checkin queue
  RetryLimit,  \* redeliveries of a job
  None         \* SQL's NULL, and "no row"

ASSUME DeduplicationAssumption ==
  /\ Time \subseteq Int
  /\ Stamp \subseteq Int
  /\ Window \in [Key -> Nat]
  /\ RetryLimit \in Nat
  /\ None \notin Checkin
  /\ None \notin Key
  /\ None \notin Time
  /\ None \notin Stamp
  /\ None \notin Worker

VARIABLES
  key,          \* correlation key of each committed check-in, None if no row
  checkinAt,    \* checkin_at of each committed check-in
  createdAt,    \* created_at of each committed check-in
  duplicateOf,  \* duplicate_of_checkin_id; not None exactly if is_duplicate
  queue,        \* the deduplicate-checkin queue, one job per check-in
  lock,         \* holder of the advisory lock of each correlation key
  pc,           \* next statement of each worker's handler
  task,         \* the check-in each worker was handed
  canonical     \* row each worker's SELECT found

rowVars == <<key, checkinAt, createdAt>>
vars    == <<rowVars, duplicateOf, queue, lock, pc, task, canonical>>

Jobs == INSTANCE JobQueue WITH Job <- Checkin

Committed(c)   == key[c] # None
IsDuplicate(c) == duplicateOf[c] # None

Step == {"idle", "read", "lock", "search", "commit", "done"}

TypeOK ==
  /\ key \in [Checkin -> Key \cup {None}]
  /\ checkinAt \in [Checkin -> Time \cup {None}]
  /\ createdAt \in [Checkin -> Stamp \cup {None}]
  /\ duplicateOf \in [Checkin -> Checkin \cup {None}]
  /\ Jobs!QueueTypeOK
  /\ lock \in [Key -> Worker \cup {None}]
  /\ pc \in [Worker -> Step]
  /\ task \in [Worker -> Checkin \cup {None}]
  /\ canonical \in [Worker -> Checkin \cup {None}]
  /\ \A w \in Worker : pc[w] = "idle" <=> task[w] = None

Init ==
  /\ key = [c \in Checkin |-> None]
  /\ checkinAt = [c \in Checkin |-> None]
  /\ createdAt = [c \in Checkin |-> None]
  /\ duplicateOf = [c \in Checkin |-> None]
  /\ Jobs!QueueInit
  /\ lock = [k \in Key |-> None]
  /\ pc = [w \in Worker |-> "idle"]
  /\ task = [w \in Worker |-> None]
  /\ canonical = [w \in Worker |-> None]

-----------------------------------------------------------------------------
(***************************************************************************)
(* The identification transaction commits: the row and its job appear      *)
(* together.  created_at is DEFAULT now(), the start of that transaction,  *)
(* so a row may appear after rows with a later created_at.                 *)
(***************************************************************************)
CommitIdentification(c, k, t, s) ==
  /\ ~Committed(c)
  /\ \A d \in Checkin : createdAt[d] # s
  /\ key' = [key EXCEPT ![c] = k]
  /\ checkinAt' = [checkinAt EXCEPT ![c] = t]
  /\ createdAt' = [createdAt EXCEPT ![c] = s]
  /\ Jobs!Send(c)
  /\ UNCHANGED <<duplicateOf, lock, pc, task, canonical>>

-----------------------------------------------------------------------------
Goto(w, step) == pc' = [pc EXCEPT ![w] = step]

\* Forget everything the handler run of worker w knew.
Stop(w) ==
  /\ Goto(w, "idle")
  /\ task' = [task EXCEPT ![w] = None]
  /\ canonical' = [canonical EXCEPT ![w] = None]

\* A mutant of Unlock: the lock outlives the transaction.
UnlockForgotten(w) == lock

\* The advisory locks left when the transaction of worker w ends.
Unlock(w) == [k \in Key |-> IF lock[k] = w THEN None ELSE lock[k]]

(***************************************************************************)
(* pg-boss hands a job to an idle worker, which opens a transaction.       *)
(***************************************************************************)
Fetch(w, c) ==
  /\ pc[w] = "idle"
  /\ Jobs!Deliver(c)
  /\ Goto(w, "read")
  /\ task' = [task EXCEPT ![w] = c]
  /\ UNCHANGED <<rowVars, duplicateOf, lock, canonical>>

(***************************************************************************)
(* findOneBy({ id }): a check-in that is gone or already a duplicate needs *)
(* nothing, and the (empty) transaction commits.                           *)
(***************************************************************************)
ReadCheckin(w) ==
  /\ pc[w] = "read"
  /\ Goto(w, IF Committed(task[w]) /\ ~IsDuplicate(task[w]) THEN "lock" ELSE "done")
  /\ UNCHANGED <<rowVars, duplicateOf, queue, lock, task, canonical>>

\* A mutant of LockFree: the critical section is open to everyone.
NoLocking(k) == TRUE

LockFree(k) == lock[k] = None

(***************************************************************************)
(* pg_advisory_xact_lock(hashtext(correlationKey)): blocks until free.     *)
(***************************************************************************)
AcquireLock(w) ==
  /\ pc[w] = "lock"
  /\ LockFree(key[task[w]])
  /\ lock' = [lock EXCEPT ![key[task[w]]] = w]
  /\ Goto(w, "search")
  /\ UNCHANGED <<rowVars, duplicateOf, queue, task, canonical>>

\* A mutant of InWindow: only earlier check-ins are looked at.
InWindowBefore(c, d) ==
  /\ checkinAt[c] - Window[key[c]] <= checkinAt[d]
  /\ checkinAt[d] < checkinAt[c]

\* checkin_at BETWEEN $6 - window AND $6 + window, for rows of one key.
InWindow(c, d) ==
  /\ checkinAt[c] - Window[key[c]] <= checkinAt[d]
  /\ checkinAt[d] <= checkinAt[c] + Window[key[c]]

\* A mutant of Candidates: duplicates are accepted as canonical.
CandidatesWithDuplicates(c) ==
  {d \in Checkin \ {c} : Committed(d) /\ key[d] = key[c] /\ InWindow(c, d)}

\* The rows the WHERE clause of findCanonicalWithinWindow keeps for c.
Candidates(c) ==
  {d \in Checkin \ {c} :
     Committed(d) /\ key[d] = key[c] /\ ~IsDuplicate(d) /\ InWindow(c, d)}

\* ORDER BY created_at ASC LIMIT 1.
Oldest(rows) == {d \in rows : \A e \in rows : createdAt[d] <= createdAt[e]}

(***************************************************************************)
(* findCanonicalWithinWindow, under the lock.                              *)
(***************************************************************************)
FindCanonical(w) ==
  /\ pc[w] = "search"
  /\ \/ /\ Candidates(task[w]) = {}
        /\ canonical' = [canonical EXCEPT ![w] = None]
     \/ \E d \in Oldest(Candidates(task[w])) :
          canonical' = [canonical EXCEPT ![w] = d]
  /\ Goto(w, "commit")
  /\ UNCHANGED <<rowVars, duplicateOf, queue, lock, task>>

\* A mutant of Marked: the outcome of the latest run is written as it is.
MarkedAnew(w) == [duplicateOf EXCEPT ![task[w]] = canonical[w]]

\* duplicate_of_checkin_id as the handler run of worker w leaves it.
Marked(w) ==
  IF canonical[w] = None THEN duplicateOf
  ELSE [duplicateOf EXCEPT ![task[w]] = canonical[w]]

(***************************************************************************)
(* UPDATE ... SET is_duplicate, duplicate_of_checkin_id if a canonical row *)
(* was found; then COMMIT, which publishes it and releases the lock.       *)
(***************************************************************************)
CommitHandler(w) ==
  /\ pc[w] = "commit"
  /\ duplicateOf' = Marked(w)
  /\ lock' = Unlock(w)
  /\ Goto(w, "done")
  /\ UNCHANGED <<rowVars, queue, task, canonical>>

(***************************************************************************)
(* The handler returned; only now does pg-boss learn that the job is done. *)
(***************************************************************************)
Acknowledge(w) ==
  /\ pc[w] = "done"
  /\ Jobs!Complete(task[w])
  /\ Stop(w)
  /\ UNCHANGED <<rowVars, duplicateOf, lock>>

(***************************************************************************)
(* A statement fails or the process dies: the transaction, if still open,  *)
(* rolls back, and pg-boss has not heard of it yet.                        *)
(***************************************************************************)
Fail(w) ==
  /\ pc[w] # "idle"
  /\ lock' = Unlock(w)
  /\ Stop(w)
  /\ UNCHANGED <<rowVars, duplicateOf, queue>>

\* pg-boss takes a delivery back, whether or not its handler still runs.
GiveBack(c) ==
  /\ Jobs!Release(c)
  /\ UNCHANGED <<rowVars, duplicateOf, lock, pc, task, canonical>>

-----------------------------------------------------------------------------
HandlerStep(w) ==
  \/ ReadCheckin(w)
  \/ AcquireLock(w)
  \/ FindCanonical(w)
  \/ CommitHandler(w)
  \/ Acknowledge(w)

Next ==
  \/ \E c \in Checkin, k \in Key, t \in Time, s \in Stamp :
       CommitIdentification(c, k, t, s)
  \/ \E w \in Worker, c \in Checkin : Fetch(w, c)
  \/ \E w \in Worker : HandlerStep(w)
  \/ \E w \in Worker : Fail(w)
  \/ \E c \in Checkin : GiveBack(c)

Spec == Init /\ [][Next]_vars

\* A delivery nobody is working on any more.
Abandoned(c) == \A w \in Worker : task[w] # c

(***************************************************************************)
(* Fairness: a live worker runs its statements, PostgreSQL grants a lock   *)
(* that keeps becoming free (its lock queue is first come, first served),  *)
(* idle workers poll, and pg-boss's expiration finds abandoned deliveries. *)
(* Nothing forces identification to run or a worker to fail.               *)
(***************************************************************************)
Fairness ==
  /\ \A w \in Worker : WF_vars(HandlerStep(w)) /\ SF_vars(AcquireLock(w))
  /\ \A c \in Checkin : /\ SF_vars(\E w \in Worker : Fetch(w, c))
                        /\ WF_vars(Abandoned(c) /\ GiveBack(c))

FairSpec == Spec /\ Fairness

-----------------------------------------------------------------------------
(***************************************************************************)
(* Following duplicate_of_checkin_id never comes back to where it started: *)
(* no set of check-ins has all its pointers inside itself.  Two workers    *)
(* that handle two check-ins of one burst could each mark the other.       *)
(***************************************************************************)
NoPointerCycle ==
  \A S \in SUBSET Checkin : S # {} => \E c \in S : duplicateOf[c] \notin S

(***************************************************************************)
(* A person who was detected at all keeps a check-in the rules engine can  *)
(* see: among the rows of one correlation key, at least one stays          *)
(* canonical, whatever the interleaving, the crashes and the redeliveries. *)
(***************************************************************************)
EveryKeyKeepsACanonical ==
  \A c \in Checkin : Committed(c) =>
    \E d \in Checkin : key[d] = key[c] /\ ~IsDuplicate(d)

(***************************************************************************)
(* A burst is collapsed once its jobs are completed: two check-ins of one  *)
(* key within the window are not both still canonical after both their     *)
(* jobs were done, so the rules engine never counts them twice.            *)
(***************************************************************************)
CompletedBurstsCollapse ==
  \A c, d \in Checkin :
    /\ c # d
    /\ queue[c].state = "completed"
    /\ queue[d].state = "completed"
    /\ key[c] = key[d]
    /\ InWindow(c, d)
    => IsDuplicate(c) \/ IsDuplicate(d)

(***************************************************************************)
(* A duplicate stays a duplicate: a redelivered or overtaken handler never *)
(* makes a row canonical again behind the rules engine's back.             *)
(***************************************************************************)
DuplicatesStayDuplicates ==
  [][\A c \in Checkin : IsDuplicate(c) => IsDuplicate(c)']_vars

(***************************************************************************)
(* Every committed check-in is eventually dealt with: no worker waits for  *)
(* the advisory lock for ever and no delivery is lost.                     *)
(***************************************************************************)
EveryCheckinIsProcessed ==
  \A c \in Checkin : Committed(c) ~> Jobs!Finished(c)
=============================================================================
