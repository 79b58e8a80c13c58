------------------------------ MODULE JobQueue ------------------------------
(***************************************************************************)
(* The durable job queue the backend's pipelines run on.                   *)
(*                                                                         *)
(* queue.service.ts wraps pg-boss, a library outside this repository; what *)
(* is modelled here is the part of its behaviour the repository's code and *)
(* comments rely on:                                                       *)
(*                                                                         *)
(*   - a job enters the queue in the same database transaction as the rows *)
(*     it is about (sendWithManager), so a step of a component that inserts*)
(*     a row and Sends its job is one atomic step;                         *)
(*   - delivery is at least once.  A delivery ends when the worker reports *)
(*     the job done (Complete), or when the job is given back (Release):   *)
(*     its handler threw, its process died, or it ran past its expiration, *)
(*     in which case the handler may still be running;                     *)
(*   - a job given back after RetryLimit retries is failed for good.       *)
(***************************************************************************)
EXTENDS Naturals

CONSTANTS
  Job,          \* the jobs that may ever be sent
  RetryLimit    \* natural number: redeliveries granted after the first delivery

VARIABLE queue  \* what pg-boss stores about every job

JobState == {"unsent", "waiting", "active", "completed", "failed"}

QueueTypeOK ==
  /\ queue \in [Job -> [state : JobState, tries : 0 .. RetryLimit + 1]]
  /\ \A j \in Job :
       queue[j].state \in {"unsent", "waiting"} => queue[j].tries <= RetryLimit

QueueInit == queue = [j \in Job |-> [state |-> "unsent", tries |-> 0]]

Sent(j)     == queue[j].state # "unsent"
Active(j)   == queue[j].state = "active"
Finished(j) == queue[j].state \in {"completed", "failed"}

(***************************************************************************)
(* boss.send through the caller's transaction.                             *)
(***************************************************************************)
Send(j) ==
  /\ queue[j].state = "unsent"
  /\ queue' = [queue EXCEPT ![j].state = "waiting"]

(***************************************************************************)
(* boss.work hands a waiting job to one polling worker.                    *)
(***************************************************************************)
Deliver(j) ==
  /\ queue[j].state = "waiting"
  /\ queue' = [queue EXCEPT ![j] = [state |-> "active", tries |-> @.tries + 1]]

(***************************************************************************)
(* The handler returned: pg-boss completes the job if it is still active   *)
(* (a worker whose job expired meanwhile reports to no effect).            *)
(***************************************************************************)
Complete(j) ==
  queue' = [queue EXCEPT ![j].state = IF @ = "active" THEN "completed" ELSE @]

\* A mutant of Release: a job is retried without end.
ReleaseForever(j) ==
  /\ Active(j)
  /\ queue' = [queue EXCEPT ![j].state = "waiting"]

(***************************************************************************)
(* The delivery failed or expired.                                         *)
(***************************************************************************)
Release(j) ==
  /\ Active(j)
  /\ queue' = [queue EXCEPT ![j].state =
                 IF queue[j].tries <= RetryLimit THEN "waiting" ELSE "failed"]
=============================================================================
