------------------------- MODULE AttendanceDecision -------------------------
(***************************************************************************)
(* Who decides whether a student attended one class session: the rules     *)
(* engine (attendance-rules-engine.service.ts), run by the                 *)
(* session:evaluate script, and the people in the leadership chain who     *)
(* resolve what the engine left pending (pending-review.service.ts).       *)
(*                                                                         *)
(* Both write the student's row of session_attendance_consolidation and    *)
(* the rows of attendance_pending_review.  An evaluation is one READ       *)
(* COMMITTED transaction over the whole roster, a resolution another one.  *)
(* A statement reads what is committed when it runs (and what its own      *)
(* transaction wrote); a written row stays locked, and the write invisible *)
(* to the others, until the transaction ends.  Any transaction may end by  *)
(* rolling back: an error, a crash, or PostgreSQL breaking a deadlock.     *)
(*                                                                         *)
(* The evidence is abstracted to what evaluatePerson makes of the          *)
(* canonical check-ins; AttendanceVerdict models that computation.         *)
(***************************************************************************)
EXTENDS Naturals, FiniteSets

CONSTANTS
  Person,      \* the students of the session's roster
  Review,      \* identifiers of attendance_pending_review rows (a bound)
  Evaluator,   \* processes running session:evaluate
  Resolver,    \* requests in progress to resolve a pending review
  Leader,      \* people in the direct leadership chain of the class group
  Outcome,     \* what the engine can conclude under the session's configuration
  None         \* SQL's NULL, and "no row"

Reason   == {"missing_factor", "missing_exit"}
Status   == {"present", "absent", "pending"}
Decision == {"present", "absent"}

ConsolidationRow == [status : Status, resolvedBy : Leader \cup {None}]
ReviewRow == [person : Person, reason : Reason, resolvedBy : Leader \cup {None}]
Request   == [review : Review, leader : Leader, decision : Decision]

ASSUME AttendanceDecisionAssumption ==
  /\ Outcome \subseteq Reason \cup {"present", "absent"}
  /\ Evaluator \cap Resolver = {}
  /\ \A S \in {Person, Review, Evaluator, Resolver, Leader, Outcome} : None \notin S
  /\ None \notin Status \cup ConsolidationRow \cup ReviewRow \cup Request

VARIABLES
  evidence,       \* what the canonical check-ins of each student amount to
  consolidation,  \* committed session_attendance_consolidation rows
  review,         \* committed attendance_pending_review rows
  rowLock,        \* who holds each student's consolidation row (or index entry)
  reviewLock,     \* who holds each review row
  step,           \* next statement of every evaluator and resolver
  todo,           \* students an evaluation has still to visit
  student,        \* student an evaluation is at
  outcome,        \* what the evaluation made of that student's evidence
  stagedStatus,   \* statuses an evaluation has written but not committed
  stagedReview,   \* reviews an evaluation has inserted but not committed
  request         \* what each resolver was asked to do

tables  == <<evidence, consolidation, review>>
locks   == <<rowLock, reviewLock>>
staged  == <<stagedStatus, stagedReview>>
visit   == <<todo, student, outcome>>
vars    == <<tables, locks, step, visit, staged, request>>

EvaluatorStep == {"idle", "visit", "read", "find", "update", "insert", "findReview",
                  "insertReview"}
ResolverStep  == {"idle", "updateReview", "updateRow", "commit"}

TypeOK ==
  /\ evidence \in [Person -> Outcome]
  /\ consolidation \in [Person -> ConsolidationRow \cup {None}]
  /\ review \in [Review -> ReviewRow \cup {None}]
  /\ rowLock \in [Person -> Evaluator \cup Resolver \cup {None}]
  /\ reviewLock \in [Review -> Resolver \cup {None}]
  /\ step \in [Evaluator \cup Resolver -> EvaluatorStep \cup ResolverStep]
  /\ todo \in [Evaluator -> SUBSET Person]
  /\ student \in [Evaluator -> Person \cup {None}]
  /\ outcome \in [Evaluator -> Outcome \cup {None}]
  /\ stagedStatus \in [Evaluator -> [Person -> Status \cup {None}]]
  /\ stagedReview \in [Evaluator -> [Review -> ReviewRow \cup {None}]]
  /\ request \in [Resolver -> Request \cup {None}]

Init ==
  /\ evidence \in [Person -> Outcome]
  /\ consolidation = [p \in Person |-> None]
  /\ review = [r \in Review |-> None]
  /\ rowLock = [p \in Person |-> None]
  /\ reviewLock = [r \in Review |-> None]
  /\ step = [a \in Evaluator \cup Resolver |-> "idle"]
  /\ todo = [e \in Evaluator |-> {}]
  /\ student = [e \in Evaluator |-> None]
  /\ outcome = [e \in Evaluator |-> None]
  /\ stagedStatus = [e \in Evaluator |-> [p \in Person |-> None]]
  /\ stagedReview = [e \in Evaluator |-> [r \in Review |-> None]]
  /\ request = [q \in Resolver |-> None]

-----------------------------------------------------------------------------
Consolidated(p) == consolidation[p] # None
Resolved(p)     == Consolidated(p) /\ consolidation[p].resolvedBy # None
Open(r)         == review[r] # None /\ review[r].resolvedBy = None

Goto(a, s) == step' = [step EXCEPT ![a] = s]

\* The locks left when the transaction of a ends.
RowLocksWithout(a)    == [p \in Person |-> IF rowLock[p] = a THEN None ELSE rowLock[p]]
ReviewLocksWithout(a) == [r \in Review |-> IF reviewLock[r] = a THEN None ELSE reviewLock[r]]

(***************************************************************************)
(* Late check-ins are identified and deduplicated after the session ended: *)
(* what the evidence amounts to may change at any time.                    *)
(***************************************************************************)
EvidenceChanges(p, o) ==
  /\ o # evidence[p]
  /\ evidence' = [evidence EXCEPT ![p] = o]
  /\ UNCHANGED <<consolidation, review, locks, step, visit, staged, request>>

-----------------------------------------------------------------------------
(***************************************************************************)
(* evaluateSession: the session has ended; the roster is read.             *)
(***************************************************************************)
EvaluateSession(e) ==
  /\ step[e] = "idle"
  /\ Goto(e, "visit")
  /\ todo' = [todo EXCEPT ![e] = Person]
  /\ UNCHANGED <<tables, locks, student, outcome, staged, request>>

(***************************************************************************)
(* evaluatePerson, first statement: a row a person resolved is left alone. *)
(***************************************************************************)
VisitStudent(e, p) ==
  /\ step[e] = "visit"
  /\ p \in todo[e]
  /\ todo' = [todo EXCEPT ![e] = @ \ {p}]
  /\ \/ /\ Resolved(p)
        /\ UNCHANGED <<step, student>>
     \/ /\ ~Resolved(p)
        /\ Goto(e, "read")
        /\ student' = [student EXCEPT ![e] = p]
  /\ UNCHANGED <<tables, locks, outcome, staged, request>>

(***************************************************************************)
(* The factor query and the interval query: the outcome is decided here.   *)
(***************************************************************************)
ReadEvidence(e) ==
  /\ step[e] = "read"
  /\ outcome' = [outcome EXCEPT ![e] = evidence[student[e]]]
  /\ Goto(e, "find")
  /\ UNCHANGED <<tables, locks, todo, student, staged, request>>

\* upsertConsolidation, first statement: UPDATE if the row is there, else INSERT.
FindConsolidation(e) ==
  /\ step[e] = "find"
  /\ Goto(e, IF Consolidated(student[e]) THEN "update" ELSE "insert")
  /\ UNCHANGED <<tables, locks, visit, staged, request>>

\* A mutant of StatusFor: the reason itself is stored as the status.
StatusIsReason(o) == o

\* The status the engine stores for an outcome.
StatusFor(o) == IF o \in Reason THEN "pending" ELSE o

\* Write the status under the row's lock; a pending one still needs its review.
WriteStatus(e) ==
  /\ rowLock[student[e]] = None
  /\ rowLock' = [rowLock EXCEPT ![student[e]] = e]
  /\ stagedStatus' = [stagedStatus EXCEPT ![e][student[e]] = StatusFor(outcome[e])]
  /\ Goto(e, IF outcome[e] \in Reason THEN "findReview" ELSE "visit")

UpdateConsolidation(e) ==
  /\ step[e] = "update"
  /\ WriteStatus(e)
  /\ UNCHANGED <<tables, reviewLock, visit, stagedReview, request>>

\* The unique index lets the INSERT through only if there is still no row.
InsertConsolidation(e) ==
  /\ step[e] = "insert"
  /\ ~Consolidated(student[e])
  /\ WriteStatus(e)
  /\ UNCHANGED <<tables, reviewLock, visit, stagedReview, request>>

\* A mutant of HasOpenReview: resolvedAt is left out of the filter.
HasReview(p, reason) ==
  \E r \in Review : /\ review[r] # None
                    /\ review[r].person = p
                    /\ review[r].reason = reason

\* A mutant of HasOpenReview: any row of the reason is fetched, then looked at.
FetchedReviewIsOpen(p, reason) ==
  LET rows == {r \in Review : /\ review[r] # None
                              /\ review[r].person = p
                              /\ review[r].reason = reason}
  IN  rows # {} /\ \A r \in rows : Open(r)

HasOpenReview(p, reason) ==
  \E r \in Review : /\ Open(r)
                    /\ review[r].person = p
                    /\ review[r].reason = reason

(***************************************************************************)
(* recordPending: an open review of the same reason is not doubled.        *)
(***************************************************************************)
FindReview(e) ==
  /\ step[e] = "findReview"
  /\ Goto(e, IF HasOpenReview(student[e], outcome[e]) THEN "visit" ELSE "insertReview")
  /\ UNCHANGED <<tables, locks, visit, staged, request>>

InsertReview(e, r) ==
  /\ step[e] = "insertReview"
  /\ review[r] = None
  /\ \A f \in Evaluator : stagedReview[f][r] = None
  /\ stagedReview' = [stagedReview EXCEPT ![e][r] =
        [person |-> student[e], reason |-> outcome[e], resolvedBy |-> None]]
  /\ Goto(e, "visit")
  /\ UNCHANGED <<tables, locks, visit, stagedStatus, request>>

\* Forget the transaction of evaluation e.
EndEvaluation(e) ==
  /\ rowLock' = RowLocksWithout(e)
  /\ Goto(e, "idle")
  /\ todo' = [todo EXCEPT ![e] = {}]
  /\ student' = [student EXCEPT ![e] = None]
  /\ outcome' = [outcome EXCEPT ![e] = None]
  /\ stagedStatus' = [stagedStatus EXCEPT ![e] = [p \in Person |-> None]]
  /\ stagedReview' = [stagedReview EXCEPT ![e] = [r \in Review |-> None]]
  /\ UNCHANGED <<reviewLock, request>>

\* A mutant of Upserted: the entity is saved whole, resolution fields included.
SavedWhole(p, status) == [status |-> status, resolvedBy |-> None]

\* A student's row after the engine wrote a status into it.
Upserted(p, status) ==
  [status |-> status,
   resolvedBy |-> IF Consolidated(p) THEN consolidation[p].resolvedBy ELSE None]

(***************************************************************************)
(* The whole roster was visited: COMMIT.                                   *)
(***************************************************************************)
CommitEvaluation(e) ==
  /\ step[e] = "visit"
  /\ todo[e] = {}
  /\ consolidation' = [p \in Person |->
       IF stagedStatus[e][p] = None THEN consolidation[p]
       ELSE Upserted(p, stagedStatus[e][p])]
  /\ review' = [r \in Review |->
       IF stagedReview[e][r] = None THEN review[r] ELSE stagedReview[e][r]]
  /\ EndEvaluation(e)
  /\ UNCHANGED evidence

\* An error (the INSERT that lost to another one included), a crash, a deadlock.
RollBackEvaluation(e) ==
  /\ step[e] # "idle"
  /\ EndEvaluation(e)
  /\ UNCHANGED tables

-----------------------------------------------------------------------------
(***************************************************************************)
(* resolve: the review is read and must be unresolved, and the caller must *)
(* be in the leadership chain; otherwise the request ends here.            *)
(***************************************************************************)
ReadReview(q, r, l, d) ==
  /\ step[q] = "idle"
  /\ Open(r)
  /\ request' = [request EXCEPT ![q] = [review |-> r, leader |-> l, decision |-> d]]
  /\ Goto(q, "updateReview")
  /\ UNCHANGED <<tables, locks, visit, staged>>

\* UPDATE attendance_pending_review WHERE id: nothing looks at resolved_at again.
UpdateReview(q) ==
  /\ step[q] = "updateReview"
  /\ reviewLock[request[q].review] = None
  /\ reviewLock' = [reviewLock EXCEPT ![request[q].review] = q]
  /\ Goto(q, "updateRow")
  /\ UNCHANGED <<tables, rowLock, visit, staged, request>>

Reviewed(q) == review[request[q].review].person

\* UPDATE session_attendance_consolidation WHERE class_session_id AND person_id.
UpdateRow(q) ==
  /\ step[q] = "updateRow"
  /\ rowLock[Reviewed(q)] = None
  /\ rowLock' = [rowLock EXCEPT ![Reviewed(q)] = q]
  /\ Goto(q, "commit")
  /\ UNCHANGED <<tables, reviewLock, visit, staged, request>>

\* A mutant of EndResolution: the review row stays locked.
EndResolutionKeepingReview(q) ==
  /\ rowLock' = RowLocksWithout(q)
  /\ Goto(q, "idle")
  /\ request' = [request EXCEPT ![q] = None]
  /\ UNCHANGED <<reviewLock, visit, staged>>

EndResolution(q) ==
  /\ rowLock' = RowLocksWithout(q)
  /\ reviewLock' = ReviewLocksWithout(q)
  /\ Goto(q, "idle")
  /\ request' = [request EXCEPT ![q] = None]
  /\ UNCHANGED <<visit, staged>>

CommitResolution(q) ==
  /\ step[q] = "commit"
  /\ review' = [review EXCEPT ![request[q].review].resolvedBy = request[q].leader]
  /\ consolidation' = [consolidation EXCEPT ![Reviewed(q)] =
       [status |-> request[q].decision, resolvedBy |-> request[q].leader]]
  /\ EndResolution(q)
  /\ UNCHANGED evidence

RollBackResolution(q) ==
  /\ step[q] # "idle"
  /\ EndResolution(q)
  /\ UNCHANGED tables

-----------------------------------------------------------------------------
EvaluatorNext(e) ==
  \/ \E p \in Person : VisitStudent(e, p)
  \/ ReadEvidence(e)
  \/ FindConsolidation(e)
  \/ UpdateConsolidation(e)
  \/ InsertConsolidation(e)
  \/ FindReview(e)
  \/ \E r \in Review : InsertReview(e, r)
  \/ CommitEvaluation(e)

ResolverNext(q) ==
  \/ UpdateReview(q)
  \/ UpdateRow(q)
  \/ CommitResolution(q)

Next ==
  \/ \E p \in Person, o \in Outcome : EvidenceChanges(p, o)
  \/ \E e \in Evaluator : EvaluateSession(e)
  \/ \E e \in Evaluator : EvaluatorNext(e)
  \/ \E e \in Evaluator : RollBackEvaluation(e)
  \/ \E q \in Resolver, r \in Review, l \in Leader, d \in Decision :
       ReadReview(q, r, l, d)
  \/ \E q \in Resolver : ResolverNext(q)
  \/ \E q \in Resolver : RollBackResolution(q)

Spec == Init /\ [][Next]_vars

\* What PostgreSQL rolls back: an INSERT that lost, one side of a lock cycle,
\* and an evaluation that has run out of review identifiers (the model's bound).
WaitsFor(e, f) ==
  /\ step[e] \in {"update", "insert"}
  /\ rowLock[student[e]] = f
Doomed(e) ==
  \/ step[e] = "insert" /\ Consolidated(student[e])
  \/ \E f \in Evaluator : WaitsFor(e, f) /\ WaitsFor(f, e)
  \/ /\ step[e] = "insertReview"
     /\ \A r \in Review : review[r] # None \/ \E f \in Evaluator : stagedReview[f][r] # None

(***************************************************************************)
(* Fairness: transactions that can run do run, a lock that keeps becoming  *)
(* free is granted (PostgreSQL queues lock requests), and a doomed         *)
(* transaction is rolled back.  Nobody has to start a transaction, and no  *)
(* other rollback has to happen.                                           *)
(***************************************************************************)
Fairness ==
  /\ \A e \in Evaluator : /\ SF_vars(EvaluatorNext(e))
                          /\ WF_vars(Doomed(e) /\ RollBackEvaluation(e))
  /\ \A q \in Resolver : SF_vars(ResolverNext(q))

FairSpec == Spec /\ Fairness

-----------------------------------------------------------------------------
(***************************************************************************)
(* A student never has two open reviews for one reason, although the       *)
(* lookup and the insert are separate statements and no unique index       *)
(* covers them: the consolidation row, written first, is what serializes   *)
(* two evaluations.                                                        *)
(***************************************************************************)
OneOpenReviewPerReason ==
  \A r, s \in Review :
    /\ Open(r)
    /\ Open(s)
    /\ review[r].person = review[s].person
    /\ review[r].reason = review[s].reason
    => r = s

(***************************************************************************)
(* Nobody stays pending with nothing to resolve: a pending student has an  *)
(* open review, even when evaluations and resolutions overlap.             *)
(***************************************************************************)
PendingHasOpenReview ==
  \A p \in Person :
    Consolidated(p) /\ consolidation[p].status = "pending" =>
      \E r \in Review : Open(r) /\ review[r].person = p

(***************************************************************************)
(* Once a review of a student is resolved, the consolidation row carries a *)
(* resolver for good, so every evaluation that starts later leaves it.     *)
(***************************************************************************)
ResolutionStaysRecorded ==
  \A r \in Review :
    review[r] # None /\ review[r].resolvedBy # None => Resolved(review[r].person)

(***************************************************************************)
(* No request hangs: an evaluation or a resolution that started ends,      *)
(* whatever locks the others hold.                                         *)
(***************************************************************************)
TransactionsEnd ==
  \A a \in Evaluator \cup Resolver : step[a] # "idle" ~> step[a] = "idle"

(***************************************************************************)
(* The engine's comment: re-evaluating a session "must never overwrite a   *)
(* human's explicit decision".                                             *)
(***************************************************************************)
EngineNeverOverwritesDecision ==
  [][\A e \in Evaluator, p \in Person :
       CommitEvaluation(e) /\ Resolved(p) => consolidation'[p] = consolidation[p]]_vars
=============================================================================
