--------------------------- MODULE RefreshTokens ---------------------------
(***************************************************************************)
(* The refresh tokens of one person, as the backend keeps them             *)
(* (auth/mobile-auth.service.ts and auth/refresh-token.service.ts).        *)
(*                                                                         *)
(* A login stores a token.  A refresh locks the row of the presented token *)
(* (SELECT ... FOR UPDATE) and decides on what it reads under the lock: a  *)
(* live token is rotated, that is, revoked and replaced by a new one; an   *)
(* expired one is revoked; a revoked one is a reuse, and every token of    *)
(* the person is revoked.  A logout revokes the presented token.           *)
(*                                                                         *)
(* Each request is one READ COMMITTED transaction: what it writes becomes  *)
(* visible, and its row locks are released, when it commits.               *)
(***************************************************************************)
EXTENDS FiniteSets

CONSTANTS
  Token,     \* identifiers of refresh_token rows
  Expiring,  \* the tokens whose thirty days may pass (a bound)
  Request,   \* requests the backend works on at the same time
  None       \* SQL's NULL, and "no token"

ASSUME RefreshTokensAssumption ==
  /\ Expiring \subseteq Token
  /\ None \notin Token

VARIABLES
  row,         \* status of each row; "pending" while its INSERT is uncommitted
  replacedBy,  \* replaced_by_token_id
  parent,      \* the token each was issued for, None at a login (history)
  expired,     \* the tokens past their expires_at
  request      \* what each transaction is about and where it is

vars == <<row, replacedBy, parent, expired, request>>

Kind == {"login", "refresh", "logout"}
Step == {"idle", "resolve", "insert", "lock", "burn", "burning", "commit",
         "granted", "rejected", "done", "error"}

Transaction ==
  [kind  : Kind \cup {None},
   step  : Step,
   token : Token \cup {None},  \* the token presented
   fresh : Token \cup {None},  \* the token inserted
   held  : SUBSET Token,       \* rows locked, to be revoked at commit
   seen  : SUBSET Token,       \* rows the family's UPDATE selected
   todo  : SUBSET Token]       \* those it has not reached yet

Idle == [kind |-> None, step |-> "idle", token |-> None, fresh |-> None,
         held |-> {}, seen |-> {}, todo |-> {}]

\* Types, and that an UPDATE only waits for rows it selected.
TypeOK ==
  /\ row \in [Token -> {"none", "pending", "live", "revoked"}]
  /\ replacedBy \in [Token -> Token \cup {None}]
  /\ parent \in [Token -> Token \cup {None}]
  /\ expired \subseteq Expiring
  /\ request \in [Request -> Transaction]
  /\ \A r \in Request : request[r].todo \subseteq request[r].seen

Init ==
  /\ row = [t \in Token |-> "none"]
  /\ replacedBy = [t \in Token |-> None]
  /\ parent = [t \in Token |-> None]
  /\ expired = {}
  /\ request = [r \in Request |-> Idle]

Committed(t) == row[t] \in {"live", "revoked"}
Answered(r)  == request[r].step \in {"granted", "rejected", "done", "error"}

-----------------------------------------------------------------------------
Goto(r, step) == request' = [request EXCEPT ![r].step = step]

\* A request arrives.  Clients present tokens they were given.
Receive(r, kind, t) ==
  /\ request[r] = Idle
  /\ request' = [request EXCEPT
                   ![r] = [Idle EXCEPT !.kind = kind, !.token = t,
                           !.step = IF kind = "login" THEN "insert" ELSE "resolve"]]
  /\ UNCHANGED <<row, replacedBy, parent, expired>>

(***************************************************************************)
(* resolveByHash, without a lock: a logout of a token already revoked has  *)
(* nothing to do, a refresh only learns which row to lock.                 *)
(***************************************************************************)
Resolve(r) ==
  /\ request[r].step = "resolve"
  /\ Goto(r, IF request[r].kind = "logout" /\ row[request[r].token] = "revoked"
             THEN "done" ELSE "lock")
  /\ UNCHANGED <<row, replacedBy, parent, expired>>

\* issue: the row exists, for this transaction only.
Insert(r, n) ==
  /\ row[n] = "none"
  /\ row' = [row EXCEPT ![n] = "pending"]
  /\ parent' = [parent EXCEPT ![n] = request[r].token]

Login(r, n) ==
  /\ request[r].step = "insert"
  /\ Insert(r, n)
  /\ request' = [request EXCEPT ![r].step = "commit", ![r].fresh = n]
  /\ UNCHANGED <<replacedBy, expired>>

\* A mutant of RowFree: the row is read without FOR UPDATE.
RowUnlocked(r, t) == TRUE

RowFree(r, t) == \A q \in Request \ {r} : t \notin request[q].held

\* lockById, or the UPDATE of revoke: waits for the row's lock.
Locks(r, kind) ==
  /\ request[r].kind = kind
  /\ request[r].step = "lock"
  /\ RowFree(r, request[r].token)

Hold(r, step, fresh) ==
  request' = [request EXCEPT ![r].step = step, ![r].fresh = fresh,
                             ![r].held = {request[r].token}]

Rotate(r, n) ==
  /\ Locks(r, "refresh")
  /\ row[request[r].token] = "live"
  /\ request[r].token \notin expired
  /\ Insert(r, n)
  /\ Hold(r, "commit", n)
  /\ UNCHANGED <<replacedBy, expired>>

RevokeExpired(r) ==
  /\ Locks(r, "refresh")
  /\ row[request[r].token] = "live"
  /\ request[r].token \in expired
  /\ Hold(r, "commit", None)
  /\ UNCHANGED <<row, replacedBy, parent, expired>>

DetectReuse(r) ==
  /\ Locks(r, "refresh")
  /\ row[request[r].token] = "revoked"
  /\ Hold(r, "burn", None)
  /\ UNCHANGED <<row, replacedBy, parent, expired>>

Revoke(r) ==
  /\ Locks(r, "logout")
  /\ Hold(r, "commit", None)
  /\ UNCHANGED <<row, replacedBy, parent, expired>>

(***************************************************************************)
(* revokeAllForPerson, one UPDATE: it selects the rows committed and not   *)
(* revoked when it starts, waits for each one's lock, and skips a row that *)
(* turns out to be revoked by then.                                        *)
(***************************************************************************)
SelectFamily(r) ==
  /\ request[r].step = "burn"
  /\ LET live == {t \in Token : row[t] = "live"} IN
       request' = [request EXCEPT ![r].step = "burning", ![r].seen = live,
                                  ![r].todo = live]
  /\ UNCHANGED <<row, replacedBy, parent, expired>>

RevokeFamilyRow(r, t) ==
  /\ request[r].step = "burning"
  /\ t \in request[r].todo
  /\ RowFree(r, t)
  /\ request' = [request EXCEPT
                   ![r].todo = @ \ {t},
                   ![r].held = IF row[t] = "live" THEN @ \cup {t} ELSE @]
  /\ UNCHANGED <<row, replacedBy, parent, expired>>

\* A mutant of FamilyRevoked: the rejection is thrown inside the transaction.
FamilyRolledBack(r) ==
  /\ request[r].step = "burning"
  /\ request[r].todo = {}
  /\ request' = [request EXCEPT ![r].step = "rejected", ![r].held = {}]
  /\ UNCHANGED <<row, replacedBy, parent, expired>>

FamilyRevoked(r) ==
  /\ request[r].step = "burning"
  /\ request[r].todo = {}
  /\ Goto(r, "commit")
  /\ UNCHANGED <<row, replacedBy, parent, expired>>

Outcome(r) == IF request[r].fresh # None THEN "granted"
              ELSE IF request[r].kind = "refresh" THEN "rejected" ELSE "done"

Commit(r) ==
  /\ request[r].step = "commit"
  /\ row' = [t \in Token |-> IF t \in request[r].held THEN "revoked"
                             ELSE IF t = request[r].fresh THEN "live"
                             ELSE row[t]]
  /\ replacedBy' = [t \in Token |->
                      IF t \in request[r].held /\ request[r].fresh # None
                      THEN request[r].fresh ELSE replacedBy[t]]
  /\ request' = [request EXCEPT ![r].step = Outcome(r), ![r].held = {}]
  /\ UNCHANGED <<parent, expired>>

(***************************************************************************)
(* A statement fails, as the victim of a deadlock for instance: the        *)
(* transaction rolls back and the answer is a server error.                *)
(***************************************************************************)
Abort(r) ==
  /\ request[r].step \in {"insert", "lock", "burn", "burning", "commit"}
  /\ row' = [t \in Token |-> IF t = request[r].fresh THEN "none" ELSE row[t]]
  /\ parent' = [t \in Token |-> IF t = request[r].fresh THEN None ELSE parent[t]]
  /\ request' = [request EXCEPT ![r] = [Idle EXCEPT !.kind = request[r].kind,
                                                    !.step = "error"]]
  /\ UNCHANGED <<replacedBy, expired>>

\* The answer is on its way, and the backend forgets the request.
Forget(r) ==
  /\ Answered(r)
  /\ request' = [request EXCEPT ![r] = Idle]
  /\ UNCHANGED <<row, replacedBy, parent, expired>>

Expire(t) ==
  /\ t \in Expiring \ expired
  /\ Committed(t)
  /\ expired' = expired \cup {t}
  /\ UNCHANGED <<row, replacedBy, parent, request>>

-----------------------------------------------------------------------------
\* What the backend does of its own accord, for request r.
RequestStep(r) ==
  \/ Resolve(r)
  \/ \E n \in Token : Login(r, n)
  \/ \E n \in Token : Rotate(r, n)
  \/ RevokeExpired(r)
  \/ DetectReuse(r)
  \/ Revoke(r)
  \/ SelectFamily(r)
  \/ \E t \in Token : RevokeFamilyRow(r, t)
  \/ FamilyRevoked(r)
  \/ Commit(r)
  \/ Abort(r)

Next ==
  \/ \E r \in Request : Receive(r, "login", None)
  \/ \E r \in Request, kind \in {"refresh", "logout"}, t \in Token :
       Committed(t) /\ Receive(r, kind, t)
  \/ \E r \in Request : RequestStep(r) \/ Forget(r)
  \/ \E t \in Token : Expire(t)

Spec == Init /\ [][Next]_vars

-----------------------------------------------------------------------------
(***************************************************************************)
(* A token is rotated at most once: whoever presents it at the same time,  *)
(* every token ever issued for it is the one its row names as its          *)
(* replacement, and a token that has been replaced is revoked.             *)
(***************************************************************************)
OneSuccessor ==
  \A n \in Token : Committed(n) /\ parent[n] # None =>
    /\ row[parent[n]] = "revoked"
    /\ replacedBy[parent[n]] = n

(***************************************************************************)
(* When the backend answers that a reuse is rejected, every token its      *)
(* revocation selected is revoked for good, also those that concurrent     *)
(* refreshes and logouts held, or released by rolling back, meanwhile.     *)
(***************************************************************************)
ReuseRevokesWhatItSaw ==
  \A r \in Request : request[r].step = "rejected" =>
    \A t \in request[r].seen : row[t] = "revoked"
=============================================================================
