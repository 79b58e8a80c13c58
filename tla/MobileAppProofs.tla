-------------------------- MODULE MobileAppProofs --------------------------
(***************************************************************************)
(* Proofs about the refresh tokens of one person, as the backend keeps     *)
(* them for any number of tokens and of concurrent requests, and about the *)
(* sessions of any number of phones that present those tokens; and about   *)
(* the check-ins of a phone, for any number of attempts, keys, faults and  *)
(* any timetable.  The two parts share no variable.                        *)
(***************************************************************************)
EXTENDS MobileSession, MobileCheckin, FiniteSetTheorems, TLAPS

Before == {"idle", "resolve", "insert", "lock", "burn"}

(***************************************************************************)
(* What holds of a transaction between two statements.  It only knows      *)
(* committed tokens; the token it has inserted is invisible to the others, *)
(* and the one that token replaces is live and locked by the transaction;  *)
(* each row of a family's UPDATE is still to be visited, or locked, or     *)
(* revoked.                                                                *)
(***************************************************************************)
TransactionOK(x) ==
  /\ x.token # None => Committed(x.token)
  /\ x.step \in {"resolve", "lock"} => x.token # None
  /\ x.step = "insert" => x.token = None /\ x.held = {}
  /\ \A t \in x.held \cup x.seen : Committed(t)
  /\ x.step \notin {"commit", "granted"} => x.fresh = None
  /\ x.step \in Before => x.seen = {}
  /\ x.step \in {"commit", "rejected"} => x.todo = {}
  /\ x.step = "rejected" => x.held = {}
  /\ x.step = "granted" => x.fresh # None /\ Committed(x.fresh)
  /\ \A t \in x.seen : t \in x.todo \/ t \in x.held \/ row[t] = "revoked"
  /\ x.step = "commit" /\ x.fresh # None =>
       /\ row[x.fresh] = "pending" /\ parent[x.fresh] = x.token
       /\ x.token = None => x.held = {}
       /\ x.token # None => x.held = {x.token} /\ row[x.token] = "live"

\* Row locks exclude one another, and so do uncommitted rows.
Apart(x, y) ==
  /\ x.held \cap y.held = {}
  /\ x.step = "commit" /\ y.step = "commit" /\ x.fresh # None => x.fresh # y.fresh

IInv ==
  /\ TypeOK
  /\ \A r \in Request : TransactionOK(request[r])
  /\ \A r, q \in Request : r # q => Apart(request[r], request[q])
  /\ OneSuccessor

LEMMA IdleType == Idle \in Transaction
BY DEF Idle, Transaction, Kind, Step

\* The invariant holds before anybody has logged in.
LEMMA InitInv == Init => IInv
<1> SUFFICES ASSUME Init PROVE IInv
  OBVIOUS
<1>1. TypeOK
  BY IdleType DEF Init, TypeOK, Idle
<1>2. \A r \in Request : request[r] = Idle
  BY DEF Init
<1>3. TransactionOK(Idle) /\ Apart(Idle, Idle)
  BY DEF TransactionOK, Apart, Idle
<1>4. OneSuccessor
  BY DEF Init, OneSuccessor, Committed
<1> QED  BY <1>1, <1>2, <1>3, <1>4 DEF IInv

(***************************************************************************)
(* A step of one transaction that writes no row preserves the invariant if *)
(* what it becomes is consistent with the rows and apart from the others.  *)
(***************************************************************************)
LEMMA QuietStep ==
  ASSUME IInv, NEW r \in Request,
         UNCHANGED <<row, replacedBy, parent, expired>>,
         request' \in [Request -> Transaction],
         request'[r].todo \subseteq request'[r].seen,
         \A q \in Request \ {r} : request'[q] = request[q],
         TransactionOK(request'[r]),
         \A q \in Request \ {r} : request'[r].held \cap request[q].held = {},
         request'[r].step = "commit" => request'[r].fresh = None
  PROVE  IInv'
<1> DEFINE x == request'[r]
<1>1. TypeOK'
  BY DEF IInv, TypeOK
<1>2. \A q \in Request : TransactionOK(request'[q])
  BY DEF IInv
<1>3. \A q \in Request : TransactionOK(request[q])'
  BY <1>2 DEF TransactionOK, Committed
<1>4. \A q \in Request \ {r} : Apart(x, request[q]) /\ Apart(request[q], x)
  BY DEF IInv, Apart
<1>5. \A q, s \in Request : q # s => Apart(request'[q], request'[s])
  BY <1>4 DEF IInv
<1>6. OneSuccessor'
  BY DEF IInv, OneSuccessor, Committed
<1> HIDE DEF x
<1>7. (\A q, s \in Request : q # s => Apart(request[q], request[s]))'
  BY <1>5 DEF Apart
<1> QED  BY <1>1, <1>3, <1>6, <1>7 DEF IInv

-----------------------------------------------------------------------------
LEMMA ReceiveInv ==
  ASSUME IInv, NEW r \in Request, NEW kind \in Kind, NEW t \in Token \cup {None},
         t # None => Committed(t), kind = "login" <=> t = None, Receive(r, kind, t)
  PROVE  IInv'
<1> DEFINE x == [Idle EXCEPT !.kind = kind, !.token = t,
                             !.step = IF kind = "login" THEN "insert" ELSE "resolve"]
<1>1. x \in Transaction
  BY DEF Idle, Transaction, Kind, Step
<1>2. request \in [Request -> Transaction]
  BY DEF IInv, TypeOK
<1>3. request' = [request EXCEPT ![r] = x]
  BY DEF Receive
<1>4. TransactionOK(x) /\ x.held = {} /\ x.step # "commit" /\ x.todo \subseteq x.seen
  BY DEF TransactionOK, Idle
<1>5. UNCHANGED <<row, replacedBy, parent, expired>>
  BY DEF Receive
<1> HIDE DEF x
<1> QED  BY <1>1, <1>2, <1>3, <1>4, <1>5, QuietStep

LEMMA ForgetInv ==
  ASSUME IInv, NEW r \in Request, Forget(r)
  PROVE  IInv'
<1>1. TransactionOK(Idle) /\ Idle.held = {} /\ Idle.step # "commit" /\ Idle.todo \subseteq Idle.seen
  BY DEF TransactionOK, Idle
<1>2. request \in [Request -> Transaction]
  BY DEF IInv, TypeOK
<1>3. request' = [request EXCEPT ![r] = Idle] /\ UNCHANGED <<row, replacedBy, parent, expired>>
  BY DEF Forget
<1> QED  BY <1>1, <1>2, <1>3, IdleType, QuietStep

LEMMA ResolveInv ==
  ASSUME IInv, NEW r \in Request, Resolve(r)
  PROVE  IInv'
<1>1. PICK step \in {"done", "lock"} : request' = [request EXCEPT ![r].step = step]
  BY DEF Resolve, Goto
<1>2. request[r] \in Transaction /\ request \in [Request -> Transaction]
  BY DEF IInv, TypeOK
<1>3. TransactionOK(request[r]) /\ request[r].todo \subseteq request[r].seen
  BY DEF IInv, TypeOK
<1> DEFINE x == [request[r] EXCEPT !.step = step]
<1>4. x \in Transaction /\ request'[r] = x
  BY <1>1, <1>2 DEF Transaction, Step
<1>5. x.held = request[r].held /\ x.todo = request[r].todo /\ x.seen = request[r].seen /\ x.fresh = request[r].fresh /\ x.token = request[r].token
      /\ x.kind = request[r].kind /\ x.step = step
  BY <1>2 DEF Transaction
<1> HIDE DEF x
<1>6. TransactionOK(x)
  BY <1>3, <1>5 DEF TransactionOK, Resolve, Before
<1>7. \A q \in Request \ {r} : x.held \cap request[q].held = {}
  BY <1>5 DEF IInv, Apart
<1>8. request' \in [Request -> Transaction] /\ \A q \in Request \ {r} : request'[q] = request[q]
  BY <1>1, <1>2, <1>4
<1>9. UNCHANGED <<row, replacedBy, parent, expired>>
  BY DEF Resolve
<1> QED  BY <1>3, <1>4, <1>5, <1>6, <1>7, <1>8, <1>9, QuietStep

(***************************************************************************)
(* A transaction that locks the row of its token and inserts nothing.      *)
(***************************************************************************)
LEMMA HoldInv ==
  ASSUME IInv, NEW r \in Request, NEW step \in {"burn", "commit"},
         request[r].step = "lock",
         RowFree(r, request[r].token), Hold(r, step, None),
         UNCHANGED <<row, replacedBy, parent, expired>>
  PROVE  IInv'
<1>1. request[r] \in Transaction /\ request \in [Request -> Transaction]
  BY DEF IInv, TypeOK
<1>2. TransactionOK(request[r]) /\ request[r].todo \subseteq request[r].seen
  BY DEF IInv, TypeOK
<1> DEFINE x == [request[r] EXCEPT !.step = step, !.fresh = None, !.held = {request[r].token}]
<1>0. request[r].token \in Token
  BY <1>1, <1>2 DEF TransactionOK, Transaction
<1>3. x \in Transaction /\ request'[r] = x
  BY <1>0, <1>1 DEF Transaction, Step, Hold
<1>4. x.held = {request[r].token} /\ x.todo = request[r].todo /\ x.seen = request[r].seen
      /\ x.fresh = None /\ x.token = request[r].token
      /\ x.kind = request[r].kind /\ x.step = step
  BY <1>1 DEF Transaction
<1> HIDE DEF x
<1>5. request[r].seen = {} /\ x.todo = {}
  BY <1>2, <1>4 DEF TransactionOK, Before
<1>6. TransactionOK(x)
  BY <1>2, <1>4, <1>5 DEF TransactionOK, Before
<1>7. \A q \in Request \ {r} : x.held \cap request[q].held = {}
  BY <1>4 DEF RowFree
<1>8. request' \in [Request -> Transaction] /\ \A q \in Request \ {r} : request'[q] = request[q]
  BY <1>1, <1>3 DEF Hold
<1> QED  BY <1>3, <1>4, <1>5, <1>6, <1>7, <1>8, QuietStep

LEMMA SelectFamilyInv ==
  ASSUME IInv, NEW r \in Request, SelectFamily(r)
  PROVE  IInv'
<1>1. request[r] \in Transaction /\ request \in [Request -> Transaction]
  BY DEF IInv, TypeOK
<1>2. TransactionOK(request[r])
  BY DEF IInv
<1> DEFINE live == {t \in Token : row[t] = "live"}
           x == [request[r] EXCEPT !.step = "burning", !.seen = live, !.todo = live]
<1>3. x \in Transaction /\ request'[r] = x
  BY <1>1 DEF Transaction, Step, SelectFamily
<1>4. x.held = request[r].held /\ x.todo = live /\ x.seen = live
      /\ x.fresh = request[r].fresh /\ x.token = request[r].token
      /\ x.kind = request[r].kind /\ x.step = "burning"
  BY <1>1 DEF Transaction
<1>5. \A t \in live : Committed(t)
  BY DEF Committed
<1> HIDE DEF x, live
<1>6. TransactionOK(x)
  BY <1>2, <1>4, <1>5 DEF TransactionOK, Before, SelectFamily
<1>7. \A q \in Request \ {r} : x.held \cap request[q].held = {}
  BY <1>4 DEF IInv, Apart
<1>8. request' \in [Request -> Transaction] /\ \A q \in Request \ {r} : request'[q] = request[q]
  BY <1>1, <1>3 DEF SelectFamily
<1>9. UNCHANGED <<row, replacedBy, parent, expired>>
  BY DEF SelectFamily
<1> QED  BY <1>3, <1>4, <1>6, <1>7, <1>8, <1>9, QuietStep

\* A row no longer to be visited is locked, or was found revoked.
LEMMA RevokeFamilyRowInv ==
  ASSUME IInv, NEW r \in Request, NEW t \in Token, RevokeFamilyRow(r, t)
  PROVE  IInv'
<1>1. request[r] \in Transaction /\ request \in [Request -> Transaction]
  BY DEF IInv, TypeOK
<1>2. TransactionOK(request[r]) /\ request[r].todo \subseteq request[r].seen
  BY DEF IInv, TypeOK
<1> DEFINE held == IF row[t] = "live" THEN request[r].held \cup {t} ELSE request[r].held
           x == [request[r] EXCEPT !.todo = request[r].todo \ {t}, !.held = held]
<1>3. held \in SUBSET Token
  BY <1>1 DEF Transaction
<1>4. x \in Transaction /\ request'[r] = x
  BY <1>1, <1>3 DEF Transaction, Step, RevokeFamilyRow
<1>5. x.held = held /\ x.todo = request[r].todo \ {t} /\ x.seen = request[r].seen
      /\ x.fresh = request[r].fresh /\ x.token = request[r].token
      /\ x.kind = request[r].kind /\ x.step = request[r].step
  BY <1>1 DEF Transaction
<1>6. request[r].step = "burning" /\ t \in request[r].todo /\ RowFree(r, t)
  BY DEF RevokeFamilyRow
<1>7. Committed(t)
  BY <1>2, <1>6 DEF TransactionOK
<1>8. request[r].held \subseteq held /\ \A u \in held : u \in request[r].held \/ u = t
  OBVIOUS
<1>9. t \in held \/ row[t] = "revoked"
  BY <1>7 DEF Committed
<1> HIDE DEF x, held
<1>10. TransactionOK(x)
  BY <1>2, <1>5, <1>6, <1>7, <1>8, <1>9 DEF TransactionOK, Before
<1>11. \A q \in Request \ {r} : x.held \cap request[q].held = {}
  BY <1>5, <1>6, <1>8 DEF IInv, Apart, RowFree
<1>12. request' \in [Request -> Transaction] /\ \A q \in Request \ {r} : request'[q] = request[q]
  BY <1>1, <1>4 DEF RevokeFamilyRow
<1>13. UNCHANGED <<row, replacedBy, parent, expired>>
  BY DEF RevokeFamilyRow
<1> QED  BY <1>2, <1>4, <1>5, <1>6, <1>10, <1>11, <1>12, <1>13, QuietStep

LEMMA FamilyRevokedInv ==
  ASSUME IInv, NEW r \in Request, FamilyRevoked(r)
  PROVE  IInv'
<1>1. request[r] \in Transaction /\ request \in [Request -> Transaction]
  BY DEF IInv, TypeOK
<1>2. TransactionOK(request[r]) /\ request[r].todo \subseteq request[r].seen
  BY DEF IInv, TypeOK
<1> DEFINE x == [request[r] EXCEPT !.step = "commit"]
<1>3. x \in Transaction /\ request'[r] = x
  BY <1>1 DEF Transaction, Step, FamilyRevoked, Goto
<1>4. x.held = request[r].held /\ x.todo = request[r].todo /\ x.seen = request[r].seen
      /\ x.fresh = request[r].fresh /\ x.token = request[r].token
      /\ x.kind = request[r].kind /\ x.step = "commit"
  BY <1>1 DEF Transaction
<1>5. request[r].step = "burning" /\ request[r].todo = {}
  BY DEF FamilyRevoked
<1> HIDE DEF x
<1>6. TransactionOK(x) /\ x.fresh = None
  BY <1>2, <1>4, <1>5 DEF TransactionOK, Before
<1>7. \A q \in Request \ {r} : x.held \cap request[q].held = {}
  BY <1>4 DEF IInv, Apart
<1>8. request' \in [Request -> Transaction] /\ \A q \in Request \ {r} : request'[q] = request[q]
  BY <1>1, <1>3 DEF FamilyRevoked, Goto
<1>9. UNCHANGED <<row, replacedBy, parent, expired>>
  BY DEF FamilyRevoked
<1> QED  BY <1>2, <1>3, <1>4, <1>6, <1>7, <1>8, <1>9, QuietStep

(***************************************************************************)
(* A transaction that inserts the row n and goes on to commit: a login,    *)
(* or the rotation of a live token, whose row it locks.                    *)
(***************************************************************************)
LEMMA InsertInv ==
  ASSUME IInv, NEW r \in Request, NEW n \in Token, Insert(r, n),
         NEW x \in Transaction, request' = [request EXCEPT ![r] = x],
         x.step = "commit", x.fresh = n, x.token = request[r].token,
         x.todo = request[r].todo, x.seen = request[r].seen,
         request[r].step \in {"insert", "lock"},
         x.token = None => x.held = {},
         x.token # None => x.held = {x.token} /\ row[x.token] = "live" /\ RowFree(r, x.token),
         UNCHANGED <<replacedBy, expired>>
  PROVE  IInv'
<1>1. request \in [Request -> Transaction] /\ row \in [Token -> {"none", "pending", "live", "revoked"}]
      /\ parent \in [Token -> Token \cup {None}] /\ request[r] \in Transaction
  BY DEF IInv, TypeOK
<1>2. row[n] = "none" /\ row' = [row EXCEPT ![n] = "pending"]
      /\ parent' = [parent EXCEPT ![n] = x.token]
  BY DEF Insert
<1>3. \A t \in Token : t # n => row'[t] = row[t] /\ parent'[t] = parent[t]
  BY <1>1, <1>2
<1>4. row'[n] = "pending" /\ parent'[n] = x.token
  BY <1>1, <1>2
<1>5. \A t \in Token : Committed(t) => t # n /\ Committed(t)'
  BY <1>2, <1>3 DEF Committed
<1>6. \A t \in Token : Committed(t)' => t # n /\ Committed(t)
  BY <1>3, <1>4 DEF Committed
<1>7. request'[r] = x /\ \A q \in Request \ {r} : request'[q] = request[q]
  BY <1>1
<1>8. TransactionOK(request[r]) /\ request[r].todo \subseteq request[r].seen
  BY DEF IInv, TypeOK
<1>9. x.seen = {} /\ x.todo = {} /\ x.token \in Token \cup {None}
  BY <1>8 DEF TransactionOK, Before, Transaction
<1>10. TypeOK'
  <2>1. x.todo \subseteq x.seen
    BY <1>9
  <2>2. \A q \in Request : request'[q].todo \subseteq request'[q].seen
    BY <1>7, <2>1 DEF IInv, TypeOK
  <2>3. request' \in [Request -> Transaction]
    BY <1>1
  <2>4. row' \in [Token -> {"none", "pending", "live", "revoked"}]
        /\ parent' \in [Token -> Token \cup {None}]
    BY <1>1, <1>2, <1>9
  <2> QED  BY <2>2, <2>3, <2>4 DEF IInv, TypeOK
<1>11. \A q \in Request : TransactionOK(request[q])'
  <2> SUFFICES ASSUME NEW q \in Request PROVE TransactionOK(request[q])'
    OBVIOUS
  <2>1. CASE q = r
    <3>1. x.token # None => Committed(x.token)' /\ x.token # n
      BY <1>5, <1>9, <1>8 DEF TransactionOK
    <3>2. x.token # None => row'[x.token] = "live"
      BY <1>3, <1>9, <3>1
    <3>3. \A t \in x.held \cup x.seen : Committed(t)'
      BY <1>9, <3>1
    <3> QED
      BY <1>4, <1>7, <1>9, <2>1, <3>1, <3>2, <3>3 DEF TransactionOK, Before
  <2>2. CASE q # r
    <3>0. PICK y : y = request[q]
      OBVIOUS
    <3>1. y \in Transaction /\ TransactionOK(y) /\ request'[q] = y
      BY <1>1, <1>7, <2>2, <3>0 DEF IInv
    <3>2. y.token \in Token \cup {None} /\ y.fresh \in Token \cup {None}
          /\ y.held \subseteq Token /\ y.seen \subseteq Token
      BY <3>1 DEF Transaction
    <3>3. \A t \in y.held \cup y.seen : Committed(t)'
      BY <1>5, <3>1, <3>2 DEF TransactionOK
    <3>4. y.token # None => Committed(y.token)' /\ y.token # n
      BY <1>5, <3>1, <3>2 DEF TransactionOK
    <3>5. \A t \in y.seen : t \in y.todo \/ t \in y.held \/ row'[t] = "revoked"
      <4>1. \A t \in y.seen : t \in Token /\ t # n
        BY <1>5, <3>1, <3>2 DEF TransactionOK
      <4> QED  BY <1>3, <3>1, <4>1 DEF TransactionOK
    <3>6. y.step = "commit" /\ y.fresh # None =>
            /\ row'[y.fresh] = "pending" /\ parent'[y.fresh] = y.token
            /\ y.token # None => row'[y.token] = "live"
      <4> SUFFICES ASSUME y.step = "commit", y.fresh # None
                   PROVE  /\ row'[y.fresh] = "pending" /\ parent'[y.fresh] = y.token
                          /\ y.token # None => row'[y.token] = "live"
        OBVIOUS
      <4>1. row[y.fresh] = "pending" /\ parent[y.fresh] = y.token /\ y.fresh # n
        BY <1>2, <3>1 DEF TransactionOK
      <4>2. row'[y.fresh] = "pending" /\ parent'[y.fresh] = y.token
        BY <1>3, <3>2, <4>1
      <4>3. y.token # None => row'[y.token] = "live"
        BY <1>3, <3>1, <3>2, <3>4 DEF TransactionOK
      <4> QED  BY <4>2, <4>3
    <3>7. y.step = "granted" => y.fresh # None /\ row'[y.fresh] \in {"live", "revoked"}
      BY <1>5, <3>1, <3>2 DEF TransactionOK, Committed
    <3> QED
      BY <3>1, <3>3, <3>4, <3>5, <3>6, <3>7 DEF TransactionOK, Committed
  <2> QED  BY <2>1, <2>2
<1>12. (\A q, s \in Request : q # s => Apart(request[q], request[s]))'
  <2>1. \A q \in Request \ {r} :
          request[q].step = "commit" /\ request[q].fresh # None => request[q].fresh # n
    BY <1>2 DEF IInv, TransactionOK
  <2>2. \A q \in Request \ {r} : x.held \cap request[q].held = {}
    BY DEF RowFree
  <2>3. n # None
    BY RefreshTokensAssumption
  <2>4. \A q \in Request \ {r} : Apart(x, request[q]) /\ Apart(request[q], x)
    BY <2>1, <2>2, <2>3 DEF Apart
  <2>5. \A q, s \in Request : q # s => Apart(request'[q], request'[s])
    BY <1>7, <2>4 DEF IInv
  <2> QED  BY <2>5 DEF Apart
<1>13. OneSuccessor'
  <2> SUFFICES ASSUME NEW t \in Token, Committed(t)', parent'[t] # None
               PROVE  row'[parent'[t]] = "revoked" /\ replacedBy'[parent'[t]] = t
    BY DEF OneSuccessor
  <2>1. t # n /\ Committed(t) /\ parent'[t] = parent[t]
    BY <1>3, <1>6
  <2>2. row[parent[t]] = "revoked" /\ replacedBy[parent[t]] = t
    BY <2>1 DEF IInv, OneSuccessor
  <2>3. parent[t] \in Token /\ parent[t] # n
    BY <1>1, <1>2, <2>1, <2>2
  <2> QED  BY <1>3, <2>1, <2>2, <2>3
<1> QED  BY <1>10, <1>11, <1>12, <1>13 DEF IInv

LEMMA LoginInv ==
  ASSUME IInv, NEW r \in Request, NEW n \in Token, Login(r, n)
  PROVE  IInv'
<1> DEFINE x == [request[r] EXCEPT !.step = "commit", !.fresh = n]
<1>1. request[r] \in Transaction /\ request \in [Request -> Transaction]
  BY DEF IInv, TypeOK
<1>2. x \in Transaction /\ request' = [request EXCEPT ![r] = x]
  BY <1>1 DEF Transaction, Step, Login
<1>3. x.held = request[r].held /\ x.todo = request[r].todo /\ x.seen = request[r].seen
      /\ x.fresh = n /\ x.token = request[r].token /\ x.step = "commit"
  BY <1>1 DEF Transaction
<1>4. request[r].step = "insert" /\ request[r].token = None /\ request[r].held = {}
  BY DEF IInv, TransactionOK, Login
<1>5. Insert(r, n) /\ UNCHANGED <<replacedBy, expired>>
  BY DEF Login
<1> HIDE DEF x
<1> QED  BY <1>2, <1>3, <1>4, <1>5, InsertInv

LEMMA RotateInv ==
  ASSUME IInv, NEW r \in Request, NEW n \in Token, Rotate(r, n)
  PROVE  IInv'
<1> DEFINE x == [request[r] EXCEPT !.step = "commit", !.fresh = n, !.held = {request[r].token}]
<1>1. request[r] \in Transaction /\ request \in [Request -> Transaction] /\ TransactionOK(request[r])
  BY DEF IInv, TypeOK
<1>2. request[r].step = "lock" /\ row[request[r].token] = "live" /\ RowFree(r, request[r].token)
  BY DEF Rotate, Locks
<1>3. request[r].token \in Token /\ request[r].token # None
  BY <1>1, <1>2 DEF Transaction, TransactionOK
<1>4. x \in Transaction /\ request' = [request EXCEPT ![r] = x]
  BY <1>1, <1>3 DEF Transaction, Step, Rotate, Hold
<1>5. x.held = {request[r].token} /\ x.todo = request[r].todo /\ x.seen = request[r].seen
      /\ x.fresh = n /\ x.token = request[r].token /\ x.step = "commit"
  BY <1>1 DEF Transaction
<1>6. Insert(r, n) /\ UNCHANGED <<replacedBy, expired>>
  BY DEF Rotate
<1> HIDE DEF x
<1> QED  BY <1>2, <1>3, <1>4, <1>5, <1>6, InsertInv

-----------------------------------------------------------------------------
(***************************************************************************)
(* A commit revokes the rows the transaction has locked and shows the one  *)
(* it has inserted; what the others rely on is locked by them.             *)
(***************************************************************************)
LEMMA CommitInv ==
  ASSUME IInv, NEW r \in Request, Commit(r)
  PROVE  IInv'
<1>0. PICK z : z = request[r]
  OBVIOUS
<1>1. request \in [Request -> Transaction] /\ row \in [Token -> {"none", "pending", "live", "revoked"}]
      /\ parent \in [Token -> Token \cup {None}] /\ replacedBy \in [Token -> Token \cup {None}]
      /\ z \in Transaction /\ z.todo \subseteq z.seen /\ z.step = "commit"
  BY <1>0 DEF IInv, TypeOK, Commit
<1>2. TransactionOK(z)
  BY <1>0 DEF IInv
<1>3. z.held \subseteq Token /\ z.fresh \in Token \cup {None} /\ z.token \in Token \cup {None}
      /\ z.seen \subseteq Token
  BY <1>1 DEF Transaction
<1>4. PICK x \in Transaction :
        /\ x.step \in {"granted", "rejected", "done"} /\ (x.step = "granted" <=> z.fresh # None)
        /\ x.held = {} /\ x.todo = z.todo /\ x.seen = z.seen /\ x.fresh = z.fresh
        /\ x.token = z.token /\ request' = [request EXCEPT ![r] = x]
  <2>1. Outcome(r) \in {"granted", "rejected", "done"} /\ (Outcome(r) = "granted" <=> z.fresh # None)
    BY <1>0 DEF Outcome
  <2> DEFINE y == [z EXCEPT !.step = Outcome(r), !.held = {}]
  <2>2. y \in Transaction
    BY <1>1, <2>1 DEF Transaction, Step
  <2>3. y.step = Outcome(r) /\ y.held = {} /\ y.todo = z.todo /\ y.seen = z.seen
        /\ y.fresh = z.fresh /\ y.token = z.token
    BY <1>1 DEF Transaction
  <2>4. request' = [request EXCEPT ![r] = y]
    BY <1>0, <1>1 DEF Commit
  <2> HIDE DEF y
  <2> QED  BY <2>1, <2>2, <2>3, <2>4
<1>5. request'[r] = x /\ \A q \in Request \ {r} : request'[q] = request[q]
  BY <1>1, <1>4
<1>6. z.fresh # None => row[z.fresh] = "pending" /\ parent[z.fresh] = z.token
                        /\ (z.token = None => z.held = {})
                        /\ (z.token # None => z.held = {z.token} /\ row[z.token] = "live")
  BY <1>1, <1>2 DEF TransactionOK
<1>7. \A t \in Token : row'[t] = IF t \in z.held THEN "revoked" ELSE IF t = z.fresh THEN "live" ELSE row[t]
  BY <1>0 DEF Commit
<1>8. \A t \in Token : replacedBy'[t] = IF t \in z.held /\ z.fresh # None THEN z.fresh ELSE replacedBy[t]
  BY <1>0 DEF Commit
<1>9. \A t \in z.held \cup z.seen : Committed(t)
  BY <1>2 DEF TransactionOK
<1>10. \A t \in Token : Committed(t) => row'[t] \in {"live", "revoked"}
  BY <1>6, <1>7 DEF Committed
<1>11. \A t \in Token : row'[t] \in {"live", "revoked"} => Committed(t) \/ t = z.fresh
  BY <1>7, <1>9 DEF Committed
<1>12. parent' = parent /\ expired' = expired
  BY DEF Commit
<1>13. TypeOK'
  <2>1. row' \in [Token -> {"none", "pending", "live", "revoked"}]
    BY <1>1 DEF Commit
  <2>2. replacedBy' \in [Token -> Token \cup {None}]
    <3>1. request[r].fresh \in Token \cup {None}
      BY <1>0, <1>3
    <3> QED  BY <1>1, <3>1 DEF Commit
  <2>3. request' \in [Request -> Transaction]
    BY <1>1, <1>4
  <2>4. \A q \in Request : request'[q].todo \subseteq request'[q].seen
    BY <1>1, <1>4, <1>5 DEF IInv, TypeOK
  <2> QED  BY <1>12, <2>1, <2>2, <2>3, <2>4 DEF IInv, TypeOK
<1>14. \A q \in Request : TransactionOK(request[q])'
  <2> SUFFICES ASSUME NEW q \in Request PROVE TransactionOK(request[q])'
    OBVIOUS
  <2>1. CASE q = r
    <3>1. z.todo = {} /\ \A t \in z.seen : t \in z.held \/ row[t] = "revoked"
      BY <1>1, <1>2 DEF TransactionOK
    <3>2. \A t \in z.seen : row'[t] = "revoked"
      <4> SUFFICES ASSUME NEW t \in z.seen PROVE row'[t] = "revoked"
        OBVIOUS
      <4>1. t # z.fresh \/ t \in z.held
        BY <1>3, <1>6, <3>1, RefreshTokensAssumption
      <4> QED  BY <1>3, <1>7, <3>1, <4>1
    <3>3. x.token # None => row'[x.token] \in {"live", "revoked"}
      BY <1>2, <1>3, <1>4, <1>10 DEF TransactionOK
    <3>4. \A t \in x.held \cup x.seen : row'[t] \in {"live", "revoked"}
      BY <1>4, <3>2
    <3>5. x.step = "granted" => x.fresh # None /\ row'[x.fresh] \in {"live", "revoked"}
      BY <1>3, <1>4, <1>7
    <3> QED  BY <1>4, <1>5, <2>1, <3>1, <3>2, <3>3, <3>4, <3>5 DEF TransactionOK, Committed, Before
  <2>2. CASE q # r
    <3>0. PICK y : y = request[q]
      OBVIOUS
    <3>1. y \in Transaction /\ TransactionOK(y) /\ request'[q] = y
      BY <1>1, <1>5, <2>2, <3>0 DEF IInv
    <3>2. y.token \in Token \cup {None} /\ y.fresh \in Token \cup {None}
          /\ y.held \subseteq Token /\ y.seen \subseteq Token
      BY <3>1 DEF Transaction
    <3>3. Apart(z, y) /\ Apart(y, z)
      BY <1>0, <2>2, <3>0 DEF IInv
    <3>4. \A t \in y.held \cup y.seen : row'[t] \in {"live", "revoked"}
      BY <1>10, <3>1, <3>2 DEF TransactionOK
    <3>5. y.token # None => row'[y.token] \in {"live", "revoked"}
      BY <1>10, <3>1, <3>2 DEF TransactionOK
    <3>6. \A t \in y.seen : t \in y.todo \/ t \in y.held \/ row'[t] = "revoked"
      <4> SUFFICES ASSUME NEW t \in y.seen, row[t] = "revoked" PROVE row'[t] = "revoked"
        BY <3>1 DEF TransactionOK
      <4>1. t # z.fresh
        BY <1>6, <3>2, RefreshTokensAssumption
      <4> QED  BY <1>7, <3>2, <4>1
    <3>7. y.step = "commit" /\ y.fresh # None =>
            /\ row'[y.fresh] = "pending" /\ parent'[y.fresh] = y.token
            /\ y.token = None => y.held = {}
            /\ y.token # None => y.held = {y.token} /\ row'[y.token] = "live"
      <4> SUFFICES ASSUME y.step = "commit", y.fresh # None
                   PROVE  /\ row'[y.fresh] = "pending" /\ parent'[y.fresh] = y.token
                          /\ y.token = None => y.held = {}
                          /\ y.token # None => y.held = {y.token} /\ row'[y.token] = "live"
        OBVIOUS
      <4>1. row[y.fresh] = "pending" /\ parent[y.fresh] = y.token
            /\ (y.token = None => y.held = {})
            /\ (y.token # None => y.held = {y.token} /\ row[y.token] = "live")
        BY <3>1 DEF TransactionOK
      <4>2. y.fresh # z.fresh
        BY <1>1, <3>3 DEF Apart
      <4>3. y.fresh \notin z.held
        BY <1>9, <4>1 DEF Committed
      <4>4. row'[y.fresh] = "pending" /\ parent'[y.fresh] = y.token
        BY <1>7, <1>12, <3>2, <4>1, <4>2, <4>3
      <4>5. ASSUME y.token # None PROVE row'[y.token] = "live"
        <5>1. y.token \in Token /\ y.token \notin z.held
          BY <3>2, <3>3, <4>1, <4>5 DEF Apart
        <5> QED  BY <1>7, <4>1, <4>5, <5>1
      <4> QED  BY <4>1, <4>4, <4>5
    <3>8. y.step = "granted" => y.fresh # None /\ row'[y.fresh] \in {"live", "revoked"}
      BY <1>10, <3>1, <3>2 DEF TransactionOK
    <3> QED
      BY <3>1, <3>4, <3>5, <3>6, <3>7, <3>8 DEF TransactionOK, Committed
  <2> QED  BY <2>1, <2>2
<1>15. (\A q, s \in Request : q # s => Apart(request[q], request[s]))'
  <2>1. \A q \in Request \ {r} : Apart(x, request[q]) /\ Apart(request[q], x)
    BY <1>4 DEF Apart
  <2>2. \A q, s \in Request : q # s => Apart(request'[q], request'[s])
    BY <1>5, <2>1 DEF IInv
  <2> QED  BY <2>2 DEF Apart
<1>16. OneSuccessor'
  <2> SUFFICES ASSUME NEW t \in Token, row'[t] \in {"live", "revoked"}, parent[t] # None
               PROVE  row'[parent[t]] = "revoked" /\ replacedBy'[parent[t]] = t
    BY <1>12 DEF OneSuccessor, Committed
  <2>1. parent[t] \in Token
    BY <1>1
  <2>2. CASE t = z.fresh
    <3>1. z.held = {parent[t]} /\ z.fresh # None
      BY <1>6, <2>2, RefreshTokensAssumption
    <3> QED  BY <1>7, <1>8, <2>1, <2>2, <3>1
  <2>3. CASE t # z.fresh
    <3>1. row[parent[t]] = "revoked" /\ replacedBy[parent[t]] = t
      BY <1>11, <2>3 DEF IInv, OneSuccessor
    <3>2. z.fresh # None => parent[t] # z.fresh /\ parent[t] \notin z.held
      BY <1>6, <3>1
    <3> QED  BY <1>7, <1>8, <2>1, <3>1, <3>2
  <2> QED  BY <2>2, <2>3
<1> QED  BY <1>13, <1>14, <1>15, <1>16 DEF IInv

(***************************************************************************)
(* A rollback removes the row the transaction has inserted, which no other *)
(* transaction knows of, and releases its locks.                           *)
(***************************************************************************)
LEMMA AbortInv ==
  ASSUME IInv, NEW r \in Request, Abort(r)
  PROVE  IInv'
<1>0. PICK z : z = request[r]
  OBVIOUS
<1>1. request \in [Request -> Transaction] /\ row \in [Token -> {"none", "pending", "live", "revoked"}]
      /\ parent \in [Token -> Token \cup {None}] /\ z \in Transaction
      /\ z.step \in {"insert", "lock", "burn", "burning", "commit"}
  BY <1>0 DEF IInv, TypeOK, Abort
<1>2. TransactionOK(z) /\ z.fresh \in Token \cup {None}
  BY <1>0, <1>1 DEF IInv, Transaction
<1>3. PICK x \in Transaction :
        /\ x.step = "error" /\ x.held = {} /\ x.todo = {} /\ x.seen = {} /\ x.fresh = None
        /\ x.token = None /\ request' = [request EXCEPT ![r] = x]
  <2> DEFINE y == [Idle EXCEPT !.kind = z.kind, !.step = "error"]
  <2>1. y \in Transaction
    BY <1>1, IdleType DEF Transaction, Step
  <2>2. y.step = "error" /\ y.held = {} /\ y.todo = {} /\ y.seen = {} /\ y.fresh = None
        /\ y.token = None
    BY DEF Idle
  <2>3. request' = [request EXCEPT ![r] = y]
    BY <1>0 DEF Abort
  <2> HIDE DEF y
  <2> QED  BY <2>1, <2>2, <2>3
<1>4. request'[r] = x /\ \A q \in Request \ {r} : request'[q] = request[q]
  BY <1>1, <1>3
<1>5. z.fresh # None => z.step = "commit" /\ row[z.fresh] = "pending"
  BY <1>1, <1>2 DEF TransactionOK
<1>6. \A t \in Token : t # z.fresh => row'[t] = row[t] /\ parent'[t] = parent[t]
  BY <1>0 DEF Abort
<1>7. \A t \in Token : t = z.fresh => row'[t] = "none" /\ parent'[t] = None
  BY <1>0 DEF Abort
<1>8. \A t \in Token : Committed(t) => t # z.fresh
  BY <1>2, <1>5, RefreshTokensAssumption DEF Committed
<1>9. UNCHANGED <<replacedBy, expired>>
  BY DEF Abort
<1>10. TypeOK'
  <2>1. row' \in [Token -> {"none", "pending", "live", "revoked"}]
        /\ parent' \in [Token -> Token \cup {None}]
    BY <1>1 DEF Abort
  <2>2. \A q \in Request : request'[q].todo \subseteq request'[q].seen
    BY <1>3, <1>4 DEF IInv, TypeOK
  <2>3. request' \in [Request -> Transaction]
    BY <1>1, <1>3
  <2> QED  BY <1>9, <2>1, <2>2, <2>3 DEF IInv, TypeOK
<1>11. \A q \in Request : TransactionOK(request[q])'
  <2> SUFFICES ASSUME NEW q \in Request PROVE TransactionOK(request[q])'
    OBVIOUS
  <2>1. CASE q = r
    BY <1>3, <1>4, <2>1 DEF TransactionOK
  <2>2. CASE q # r
    <3>0. PICK y : y = request[q]
      OBVIOUS
    <3>1. y \in Transaction /\ TransactionOK(y) /\ request'[q] = y
      BY <1>1, <1>4, <2>2, <3>0 DEF IInv
    <3>2. y.token \in Token \cup {None} /\ y.fresh \in Token \cup {None}
          /\ y.held \subseteq Token /\ y.seen \subseteq Token
      BY <3>1 DEF Transaction
    <3>3. Apart(z, y) /\ Apart(y, z)
      BY <1>0, <2>2, <3>0 DEF IInv
    <3>4. \A t \in Token : Committed(t) => row'[t] = row[t]
      BY <1>6, <1>8
    <3>5. \A t \in y.held \cup y.seen : Committed(t) /\ row'[t] = row[t]
      BY <3>1, <3>2, <3>4 DEF TransactionOK
    <3>6. y.token # None => Committed(y.token) /\ row'[y.token] = row[y.token]
      BY <3>1, <3>2, <3>4 DEF TransactionOK
    <3>7. y.step = "commit" /\ y.fresh # None =>
            row'[y.fresh] = row[y.fresh] /\ parent'[y.fresh] = parent[y.fresh]
      BY <1>5, <1>6, <3>2, <3>3 DEF Apart
    <3>8. y.step = "granted" => y.fresh # None /\ Committed(y.fresh) /\ row'[y.fresh] = row[y.fresh]
      BY <3>1, <3>2, <3>4 DEF TransactionOK
    <3> QED
      BY <3>1, <3>5, <3>6, <3>7, <3>8 DEF TransactionOK, Committed
  <2> QED  BY <2>1, <2>2
<1>12. (\A q, s \in Request : q # s => Apart(request[q], request[s]))'
  <2>1. \A q \in Request \ {r} : Apart(x, request[q]) /\ Apart(request[q], x)
    BY <1>3 DEF Apart
  <2>2. \A q, s \in Request : q # s => Apart(request'[q], request'[s])
    BY <1>4, <2>1 DEF IInv
  <2> QED  BY <2>2 DEF Apart
<1>13. OneSuccessor'
  <2> SUFFICES ASSUME NEW t \in Token, row'[t] \in {"live", "revoked"}, parent'[t] # None
               PROVE  row'[parent'[t]] = "revoked" /\ replacedBy'[parent'[t]] = t
    BY DEF OneSuccessor, Committed
  <2>1. t # z.fresh
    BY <1>7
  <2>2. row[t] = row'[t] /\ parent'[t] = parent[t]
    BY <1>6, <2>1
  <2>3. parent[t] \in Token /\ row[parent[t]] = "revoked" /\ replacedBy[parent[t]] = t
    BY <1>1, <2>2 DEF IInv, OneSuccessor, Committed
  <2>4. parent[t] # z.fresh
    BY <1>8, <2>3 DEF Committed
  <2> QED  BY <1>6, <1>9, <2>2, <2>3, <2>4
<1> QED  BY <1>10, <1>11, <1>12, <1>13 DEF IInv

\* Time only changes what a refresh decides.
LEMMA ExpireInv ==
  ASSUME IInv, NEW t \in Token, Expire(t)
  PROVE  IInv'
<1>1. TypeOK'
  BY DEF IInv, TypeOK, Expire
<1>2. UNCHANGED <<row, replacedBy, parent, request>>
  BY DEF Expire
<1>3. (\A r \in Request : TransactionOK(request[r]))'
  BY <1>2 DEF IInv, TransactionOK, Committed
<1>4. (\A r, q \in Request : r # q => Apart(request[r], request[q]))'
  BY <1>2 DEF IInv, Apart
<1>5. OneSuccessor'
  BY <1>2 DEF IInv, OneSuccessor, Committed
<1> QED  BY <1>1, <1>3, <1>4, <1>5 DEF IInv

LEMMA StutterInv == IInv /\ UNCHANGED vars => IInv'
<1> SUFFICES ASSUME IInv, UNCHANGED vars PROVE IInv'
  OBVIOUS
<1>1. UNCHANGED <<row, replacedBy, parent, expired, request>>
  BY DEF vars
<1>2. TypeOK'
  BY <1>1 DEF IInv, TypeOK
<1>3. (\A r \in Request : TransactionOK(request[r]))'
  BY <1>1 DEF IInv, TransactionOK, Committed
<1>4. (\A r, q \in Request : r # q => Apart(request[r], request[q]))'
  BY <1>1 DEF IInv, Apart
<1>5. OneSuccessor'
  BY <1>1 DEF IInv, OneSuccessor, Committed
<1> QED  BY <1>2, <1>3, <1>4, <1>5 DEF IInv

-----------------------------------------------------------------------------
LEMMA RequestStepInv ==
  ASSUME IInv, NEW r \in Request, RequestStep(r)
  PROVE  IInv'
<1>1. CASE Resolve(r)
  BY <1>1, ResolveInv
<1>2. CASE \E n \in Token : Login(r, n)
  BY <1>2, LoginInv
<1>3. CASE \E n \in Token : Rotate(r, n)
  BY <1>3, RotateInv
<1>4. CASE RevokeExpired(r)
  <2>1. request[r].step = "lock" /\ RowFree(r, request[r].token) /\ Hold(r, "commit", None)
        /\ UNCHANGED <<row, replacedBy, parent, expired>>
    BY <1>4 DEF RevokeExpired, Locks
  <2> QED  BY <2>1, HoldInv
<1>5. CASE DetectReuse(r)
  <2>1. request[r].step = "lock" /\ RowFree(r, request[r].token) /\ Hold(r, "burn", None)
        /\ UNCHANGED <<row, replacedBy, parent, expired>>
    BY <1>5 DEF DetectReuse, Locks
  <2> QED  BY <2>1, HoldInv
<1>6. CASE Revoke(r)
  <2>1. request[r].step = "lock" /\ RowFree(r, request[r].token) /\ Hold(r, "commit", None)
        /\ UNCHANGED <<row, replacedBy, parent, expired>>
    BY <1>6 DEF Revoke, Locks
  <2> QED  BY <2>1, HoldInv
<1>7. CASE SelectFamily(r)
  BY <1>7, SelectFamilyInv
<1>8. CASE \E t \in Token : RevokeFamilyRow(r, t)
  BY <1>8, RevokeFamilyRowInv
<1>9. CASE FamilyRevoked(r)
  BY <1>9, FamilyRevokedInv
<1>10. CASE Commit(r)
  BY <1>10, CommitInv
<1>11. CASE Abort(r)
  BY <1>11, AbortInv
<1> QED
  BY <1>1, <1>2, <1>3, <1>4, <1>5, <1>6, <1>7, <1>8, <1>9, <1>10, <1>11 DEF RequestStep

LEMMA NextInv == IInv /\ [Next]_vars => IInv'
<1> SUFFICES ASSUME IInv, [Next]_vars PROVE IInv'
  OBVIOUS
<1>1. ASSUME NEW r \in Request, Receive(r, "login", None) PROVE IInv'
  BY <1>1, ReceiveInv DEF Kind
<1>2. ASSUME NEW r \in Request, NEW kind \in {"refresh", "logout"}, NEW t \in Token,
             Committed(t), Receive(r, kind, t)
      PROVE  IInv'
  BY <1>2, ReceiveInv, RefreshTokensAssumption DEF Kind
<1>3. ASSUME NEW r \in Request, RequestStep(r) \/ Forget(r) PROVE IInv'
  BY <1>3, RequestStepInv, ForgetInv
<1>4. ASSUME NEW t \in Token, Expire(t) PROVE IInv'
  BY <1>4, ExpireInv
<1>5. CASE UNCHANGED vars
  BY <1>5, StutterInv
<1> QED  BY <1>1, <1>2, <1>3, <1>4, <1>5 DEF Next

(***************************************************************************)
(* For any number of concurrent requests, the rotations of refresh tokens  *)
(* stay typed, and no token is ever rotated into two live ones.            *)
(***************************************************************************)
THEOREM TokensInvariant == Spec => []IInv
<1> QED  BY InitInv, NextInv, PTL DEF Spec

(***************************************************************************)
(* A token is rotated at most once, whoever presents it meanwhile.         *)
(***************************************************************************)
THEOREM TokenHasOneSuccessor == Spec => []OneSuccessor
<1>1. IInv => OneSuccessor
  BY DEF IInv
<1> QED  BY <1>1, TokensInvariant, PTL

(***************************************************************************)
(* When a reuse is rejected, every token its revocation selected stays     *)
(* revoked, whatever the concurrent transactions do.                       *)
(***************************************************************************)
THEOREM ReuseIsRevoked == Spec => []ReuseRevokesWhatItSaw
<1>1. IInv => ReuseRevokesWhatItSaw
  BY DEF IInv, TransactionOK, ReuseRevokesWhatItSaw
<1> QED  BY <1>1, TokensInvariant, PTL

-----------------------------------------------------------------------------
(***************************************************************************)
(* The phones.  What was proved of the backend holds when phones present   *)
(* the tokens they have stored, for a phone only stores tokens the backend *)
(* knows.                                                                  *)
(***************************************************************************)
StorageOK ==
  /\ stored \in [Phone -> Token \cup {None}]
  /\ call \in [Phone -> [Kind -> Request \cup {None}]]
  /\ \A p \in Phone : stored[p] # None => Committed(stored[p])

MobileInv == IInv /\ StorageOK

(***************************************************************************)
(* A committed row stays: a rollback only removes uncommitted ones.        *)
(***************************************************************************)
LEMMA CommittedStays ==
  ASSUME IInv, NEW t \in Token, Committed(t), NEW r \in Request, RequestStep(r)
  PROVE  Committed(t)'
<1>1. row \in [Token -> {"none", "pending", "live", "revoked"}]
  BY DEF IInv, TypeOK
<1>2. ASSUME NEW n \in Token, Insert(r, n) PROVE Committed(t)'
  BY <1>1, <1>2 DEF Insert, Committed
<1>3. CASE Commit(r)
  BY <1>1, <1>3 DEF Commit, Committed
<1>4. CASE Abort(r)
  <2>1. row[t] # "pending"
    BY DEF Committed
  <2>2. t # request[r].fresh
    BY <1>4, <2>1, RefreshTokensAssumption DEF IInv, TransactionOK, Abort
  <2> QED  BY <1>1, <1>4, <2>2 DEF Abort, Committed
<1>5. CASE UNCHANGED row
  BY <1>5 DEF Committed
<1>6. (\E n \in Token : Insert(r, n)) \/ Commit(r) \/ Abort(r) \/ UNCHANGED row
  BY DEF RequestStep, Resolve, Login, Rotate, RevokeExpired, DetectReuse, Revoke,
         SelectFamily, RevokeFamilyRow, FamilyRevoked
<1> QED  BY <1>2, <1>3, <1>4, <1>5, <1>6

\* A step of a phone that only changes its own session.
LEMMA LocalStep ==
  ASSUME MobileInv, UNCHANGED vars,
         stored' \in [Phone -> Token \cup {None}],
         call' \in [Phone -> [Kind -> Request \cup {None}]],
         \A p \in Phone : stored'[p] \in {stored[p], None}
  PROVE  MobileInv'
<1>1. IInv'
  BY StutterInv DEF MobileInv
<1>2. row' = row
  BY DEF vars
<1>3. \A p \in Phone : stored'[p] # None => row'[stored'[p]] \in {"live", "revoked"}
  BY <1>2 DEF MobileInv, StorageOK, Committed
<1> QED  BY <1>1, <1>3 DEF MobileInv, StorageOK, Committed

\* A phone sends a request about its stored token, if any.
LEMMA SendInv ==
  ASSUME MobileInv, NEW p \in Phone, NEW kind \in Kind, NEW t \in Token \cup {None},
         t # None => Committed(t), kind = "login" <=> t = None,
         Send(p, kind, t), UNCHANGED stored
  PROVE  MobileInv'
<1>1. PICK r \in Request : Receive(r, kind, t) /\ call' = [call EXCEPT ![p][kind] = r]
  BY DEF Send
<1>2. IInv'
  BY <1>1, ReceiveInv DEF MobileInv
<1>3. call' \in [Phone -> [Kind -> Request \cup {None}]]
  BY <1>1 DEF MobileInv, StorageOK
<1>4. row' = row
  BY <1>1 DEF Receive
<1> QED  BY <1>2, <1>3, <1>4 DEF MobileInv, StorageOK, Committed

\* A coroutine resumes and stores nothing, or the token it was granted.
LEMMA ResumeInv ==
  ASSUME MobileInv, NEW p \in Phone, NEW kind \in Kind, Resume(p, kind),
         NEW t \in Token \cup {None},
         stored' = [stored EXCEPT ![p] = t],
         t = None \/ t = stored[p] \/ (Answer(p, kind).step = "granted" /\ t = Answer(p, kind).fresh)
  PROVE  MobileInv'
<1>1. call[p][kind] \in Request /\ Forget(call[p][kind])
  BY DEF Resume, Awaits, MobileInv, StorageOK
<1>2. IInv'
  BY <1>1, ForgetInv DEF MobileInv
<1>3. row' = row
  BY <1>1 DEF Forget
<1>4. t # None => Committed(t)
  BY <1>1 DEF MobileInv, StorageOK, IInv, TransactionOK, Answer
<1>5. call' \in [Phone -> [Kind -> Request \cup {None}]]
  BY DEF MobileInv, StorageOK, Resume
<1>6. stored' \in [Phone -> Token \cup {None}]
  BY DEF MobileInv, StorageOK
<1>7. \A q \in Phone : stored'[q] # None => row'[stored'[q]] \in {"live", "revoked"}
  BY <1>3, <1>4 DEF MobileInv, StorageOK, Committed
<1> QED  BY <1>2, <1>5, <1>6, <1>7 DEF MobileInv, StorageOK, Committed

LEMMA BackendStepInv ==
  ASSUME MobileInv, BackendStep
  PROVE  MobileInv'
<1>1. IInv'
  BY RequestStepInv, ForgetInv, ExpireInv DEF MobileInv, BackendStep
<1>2. \A t \in Token : Committed(t) => row'[t] \in {"live", "revoked"}
  <2> SUFFICES ASSUME NEW t \in Token, Committed(t) PROVE row'[t] \in {"live", "revoked"}
    OBVIOUS
  <2>1. CASE \E r \in Request : RequestStep(r)
    BY <2>1, CommittedStays DEF MobileInv, Committed
  <2>2. CASE row' = row
    BY <2>2 DEF Committed
  <2> QED  BY <2>1, <2>2 DEF BackendStep, Forget, Expire
<1>3. stored' = stored /\ call' = call
  BY DEF BackendStep
<1>4. \A p \in Phone : stored'[p] # None => row'[stored'[p]] \in {"live", "revoked"}
  BY <1>2, <1>3 DEF MobileInv, StorageOK
<1> QED  BY <1>1, <1>3, <1>4 DEF MobileInv, StorageOK, Committed

LEMMA PhoneStepInv ==
  ASSUME MobileInv, NEW p \in Phone, PhoneStep(p)
  PROVE  MobileInv'
<1>1. stored \in [Phone -> Token \cup {None}] /\ call \in [Phone -> [Kind -> Request \cup {None}]]
      /\ stored[p] \in Token \cup {None} /\ (stored[p] # None => Committed(stored[p]))
      /\ {"login", "refresh", "logout"} \subseteq Kind /\ None \in Token \cup {None}
  BY DEF MobileInv, StorageOK, Kind
<1>2. stored = [stored EXCEPT ![p] = stored[p]]
  BY <1>1
<1>3. \A kind \in Kind : Answer(p, kind).step = "granted" /\ Awaits(p, kind)
                           => Answer(p, kind).fresh \in Token \cup {None}
  BY <1>1 DEF MobileInv, IInv, TypeOK, Transaction, Answer, Awaits
<1>4. CASE StartLogin(p)
  BY <1>1, <1>4, SendInv DEF StartLogin
<1>5. CASE LoginGranted(p)
  BY <1>1, <1>3, <1>5, ResumeInv DEF LoginGranted, Resume
<1>6. CASE LoginFailed(p)
  BY <1>1, <1>2, <1>6, ResumeInv DEF LoginFailed
<1>7. CASE StartRefresh(p)
  BY <1>1, <1>7, SendInv DEF StartRefresh
<1>8. CASE RefreshWithoutToken(p)
  BY <1>1, <1>8, LocalStep DEF RefreshWithoutToken, ForceLogout
<1>9. CASE RefreshGranted(p)
  BY <1>1, <1>3, <1>9, ResumeInv DEF RefreshGranted, Resume
<1>10. CASE RefreshRefused(p)
  BY <1>1, <1>10, ResumeInv DEF RefreshRefused, ForceLogout
<1>11. CASE StartLogout(p)
  BY <1>1, <1>11, SendInv DEF StartLogout
<1>12. CASE LogoutAnswered(p)
  BY <1>1, <1>12, ResumeInv DEF LogoutAnswered, ForceLogout
<1>13. CASE \E kind \in Kind : AnswerLost(p, kind)
  <2>1. PICK kind \in Kind : AnswerLost(p, kind)
    BY <1>13
  <2>2. call' \in [Phone -> [Kind -> Request \cup {None}]]
    BY <1>1, <2>1 DEF AnswerLost
  <2>3. stored' = stored \/ stored' = [stored EXCEPT ![p] = None]
    BY <2>1 DEF AnswerLost, ForceLogout
  <2>4. stored' \in [Phone -> Token \cup {None}] /\ \A q \in Phone : stored'[q] \in {stored[q], None}
    BY <1>1, <2>3
  <2> QED  BY <2>1, <2>2, <2>4, LocalStep DEF AnswerLost
<1>14. CASE Restart(p)
  <2>1. NoCalls \in [Kind -> Request \cup {None}]
    BY DEF NoCalls
  <2> QED  BY <1>1, <1>14, <2>1, LocalStep DEF Restart
<1> QED
  BY <1>4, <1>5, <1>6, <1>7, <1>8, <1>9, <1>10, <1>11, <1>12, <1>13, <1>14 DEF PhoneStep

LEMMA NextMobile == MobileInv /\ [MobileNext]_mobileVars => MobileInv'
<1> SUFFICES ASSUME MobileInv, [MobileNext]_mobileVars PROVE MobileInv'
  OBVIOUS
<1>1. CASE UNCHANGED mobileVars
  <2>1. UNCHANGED <<vars, stored, call>>
    BY <1>1 DEF mobileVars
  <2>2. \A p \in Phone : stored'[p] \in {stored[p], None}
    BY <2>1
  <2> QED  BY <2>1, <2>2, LocalStep DEF MobileInv, StorageOK
<1> QED  BY <1>1, BackendStepInv, PhoneStepInv DEF MobileNext

(***************************************************************************)
(* The composition keeps the backend's invariant, and every stored token   *)
(* was issued by a transaction that committed.                             *)
(***************************************************************************)
THEOREM MobileInvariant == MobileSpec => []MobileInv
<1>1. MobileInit => MobileInv
  <2>1. MobileInit => StorageOK
    BY DEF MobileInit, StorageOK, NoCalls
  <2> QED  BY <2>1, InitInv DEF MobileInit, MobileInv
<1> QED  BY <1>1, NextMobile, PTL DEF MobileSpec

(***************************************************************************)
(* However the phones race, lose answers and restart, no token is rotated  *)
(* into two live ones.                                                     *)
(***************************************************************************)
THEOREM PhonesShareOneSuccessor == MobileSpec => []OneSuccessor
<1>1. MobileInv => OneSuccessor
  BY DEF MobileInv, IInv
<1> QED  BY <1>1, MobileInvariant, PTL

(***************************************************************************)
(* When a phone is told that its session has expired because of a reuse,   *)
(* every token that revocation selected is revoked.                        *)
(***************************************************************************)
THEOREM PhonesReuseIsRevoked == MobileSpec => []ReuseRevokesWhatItSaw
<1>1. MobileInv => ReuseRevokesWhatItSaw
  BY DEF MobileInv, IInv, TransactionOK, ReuseRevokesWhatItSaw
<1> QED  BY <1>1, MobileInvariant, PTL

-----------------------------------------------------------------------------
(***************************************************************************)
(* What holds of the calls of the phones: each coroutine awaits a request  *)
(* of its own, and that request is about what the coroutine does.          *)
(***************************************************************************)
CallsOK ==
  /\ \A p \in Phone, kind \in Kind : Awaits(p, kind) =>
       Answer(p, kind).kind = kind /\ Answer(p, kind).step # "idle"
  /\ \A p, q \in Phone, kind \in Kind :
       Awaits(p, kind) /\ call[p][kind] = call[q][kind] => p = q

\* The token a request has inserted is nowhere else before its answer is read.
FreshIsNew ==
  \A r \in Request : request[r].fresh # None =>
    /\ \A p \in Phone : stored[p] # request[r].fresh
    /\ \A q \in Request : request[q].token # request[r].fresh
    /\ \A q \in Request \ {r} : request[q].fresh # request[r].fresh

StoredOnce == \A p, q \in Phone : stored[p] # None /\ stored[p] = stored[q] => p = q

(***************************************************************************)
(* What holds of a request while nothing has gone wrong: no token is       *)
(* revoked but the one presented, a refresh is awaited by a phone and      *)
(* rotates its token, and the token granted is not revoked by anybody.     *)
(***************************************************************************)
CalmRequest(r) ==
  /\ request[r].step \notin {"burn", "burning", "rejected"}
  /\ request[r].held \subseteq {request[r].token}
  /\ request[r].kind = "refresh" /\ request[r].step # "idle" =>
       /\ request[r].step # "error"
       /\ request[r].step = "commit" => request[r].fresh # None
       /\ \E p \in Phone : call[p]["refresh"] = r
  /\ request[r].step = "granted" => row[request[r].fresh] = "live"

(***************************************************************************)
(* What holds of a phone while nothing has gone wrong: the requests about  *)
(* its token are its own, and the token is live unless one of them has     *)
(* already replaced or revoked it.                                         *)
(***************************************************************************)
CalmPhone(p) ==
  /\ status[p] = "authenticated" <=> stored[p] # None
  /\ Awaits(p, "login") => stored[p] = None
  /\ Awaits(p, "refresh") =>
       /\ stored[p] # None /\ ~Awaits(p, "logout")
       /\ Answer(p, "refresh").token = stored[p]
  /\ Awaits(p, "logout") => stored[p] # None
  /\ \A r \in Request : stored[p] # None /\ request[r].token = stored[p] =>
       r = call[p]["refresh"] \/ r = call[p]["logout"]
  /\ /\ stored[p] # None
     /\ ~Awaits(p, "logout")
     /\ Awaits(p, "refresh") => Answer(p, "refresh").step # "granted"
     => row[stored[p]] = "live"

Calm ==
  /\ expired = {}
  /\ \A r \in Request : CalmRequest(r)
  /\ \A p \in Phone : CalmPhone(p)

SessionInv ==
  /\ MobileInv
  /\ MobileTypeOK
  /\ CallsOK /\ FreshIsNew /\ StoredOnce
  /\ calm => Calm

-----------------------------------------------------------------------------
\* A step of the backend changes one request, and knows no new token but its own.
LEMMA RequestEffect ==
  ASSUME IInv, NEW r \in Request, RequestStep(r)
  PROVE  /\ request[r].step \in {"resolve", "insert", "lock", "burn", "burning", "commit"}
         /\ request'[r].step # "idle"
         /\ request'[r].kind = request[r].kind
         /\ request'[r].token \in {request[r].token, None}
         /\ ~Abort(r) => request'[r].token = request[r].token
         /\ \/ request'[r].fresh \in {request[r].fresh, None}
            \/ request'[r].fresh \in Token /\ row[request'[r].fresh] = "none"
         /\ \A q \in Request \ {r} : request'[q] = request[q]
         /\ expired' = expired
<1> DEFINE Effect ==
         /\ request[r].step \in {"resolve", "insert", "lock", "burn", "burning", "commit"}
         /\ request'[r].step # "idle"
         /\ request'[r].kind = request[r].kind
         /\ request'[r].token \in {request[r].token, None}
         /\ ~Abort(r) => request'[r].token = request[r].token
         /\ \/ request'[r].fresh \in {request[r].fresh, None}
            \/ request'[r].fresh \in Token /\ row[request'[r].fresh] = "none"
         /\ \A q \in Request \ {r} : request'[q] = request[q]
         /\ expired' = expired
<1>0. request \in [Request -> Transaction] /\ request[r] \in Transaction
  BY DEF IInv, TypeOK
<1>1. CASE Resolve(r) \/ FamilyRevoked(r)
  BY <1>0, <1>1 DEF Resolve, FamilyRevoked, Goto, Transaction
<1>2. ASSUME NEW n \in Token, Login(r, n) PROVE Effect
  <2>1. request' = [request EXCEPT ![r] = [request[r] EXCEPT !.step = "commit", !.fresh = n]]
    BY <1>0, <1>2 DEF Login
  <2> QED
    BY <1>0, <1>2, <2>1 DEF Login, Insert, Transaction
<1>3. ASSUME NEW n \in Token, Rotate(r, n) PROVE Effect
  <2>1. request' = [request EXCEPT ![r] = [request[r] EXCEPT
                      !.step = "commit", !.fresh = n, !.held = {request[r].token}]]
    BY <1>0, <1>3 DEF Rotate, Hold
  <2> QED
    BY <1>0, <1>3, <2>1 DEF Rotate, Locks, Insert, Transaction
<1>4. CASE RevokeExpired(r) \/ DetectReuse(r) \/ Revoke(r)
  <2>1. PICK step \in {"burn", "commit"} :
          request' = [request EXCEPT ![r] = [request[r] EXCEPT
                        !.step = step, !.fresh = None, !.held = {request[r].token}]]
    BY <1>0, <1>4 DEF RevokeExpired, DetectReuse, Revoke, Hold
  <2> QED
    BY <1>0, <1>4, <2>1 DEF RevokeExpired, DetectReuse, Revoke, Locks, Transaction
<1>5. CASE SelectFamily(r)
  <2>1. PICK live : request' = [request EXCEPT ![r] = [request[r] EXCEPT
                                  !.step = "burning", !.seen = live, !.todo = live]]
    BY <1>0, <1>5 DEF SelectFamily
  <2>2. request[r].step = "burn" /\ expired' = expired
    BY <1>5 DEF SelectFamily
  <2> QED
    BY <1>0, <2>1, <2>2 DEF Transaction
<1>6. ASSUME NEW t \in Token, RevokeFamilyRow(r, t) PROVE Effect
  <2>1. PICK todo, held : request' = [request EXCEPT ![r] = [request[r] EXCEPT
                                        !.todo = todo, !.held = held]]
    BY <1>0, <1>6 DEF RevokeFamilyRow
  <2> QED
    BY <1>0, <1>6, <2>1 DEF RevokeFamilyRow, Transaction
<1>7. CASE Commit(r)
  <2>1. request' = [request EXCEPT ![r] = [request[r] EXCEPT !.step = Outcome(r), !.held = {}]]
    BY <1>0, <1>7 DEF Commit
  <2>2. Outcome(r) # "idle"
    BY DEF Outcome
  <2> QED
    BY <1>0, <1>7, <2>1, <2>2 DEF Commit, Transaction
<1>8. CASE Abort(r)
  BY <1>0, <1>8 DEF Abort, Idle
<1> QED
  BY <1>1, <1>2, <1>3, <1>4, <1>5, <1>6, <1>7, <1>8 DEF RequestStep

\* While nothing has gone wrong, only the token of a request that commits is revoked.
LEMMA LiveStays ==
  ASSUME IInv, Calm, NEW r \in Request, RequestStep(r), NEW t \in Token, row[t] = "live",
         ~Commit(r) \/ t # request[r].token
  PROVE  row'[t] = "live"
<1>0. request \in [Request -> Transaction] /\ row \in [Token -> {"none", "pending", "live", "revoked"}]
  BY DEF IInv, TypeOK
<1>1. ASSUME NEW n \in Token, Insert(r, n) PROVE row'[t] = "live"
  BY <1>0, <1>1 DEF Insert
<1>2. CASE Commit(r)
  BY <1>2 DEF Calm, CalmRequest, Commit
<1>3. CASE Abort(r)
  <2>1. t # request[r].fresh
    BY <1>3, RefreshTokensAssumption DEF IInv, TransactionOK, Abort
  <2> QED
    BY <1>3, <2>1 DEF Abort
<1>4. CASE row' = row
  BY <1>4
<1>5. (\E n \in Token : Insert(r, n)) \/ Commit(r) \/ Abort(r) \/ row' = row
  BY DEF RequestStep, Resolve, Login, Rotate, RevokeExpired, DetectReuse, Revoke,
         SelectFamily, RevokeFamilyRow, FamilyRevoked
<1> QED
  BY <1>1, <1>2, <1>3, <1>4, <1>5

\* The token a refresh presents is live until the refresh commits.
LEMMA RefreshMeetsLive ==
  ASSUME Calm, CallsOK, MobileSessionAssumption, NEW r \in Request,
         request[r].kind = "refresh",
         request[r].step \in {"resolve", "lock", "commit"}
  PROVE  row[request[r].token] = "live"
<1>1. PICK p \in Phone : call[p]["refresh"] = r
  BY DEF Calm, CalmRequest
<1>2. Awaits(p, "refresh")
  BY <1>1, MobileSessionAssumption DEF Awaits
<1>3. /\ stored[p] # None /\ ~Awaits(p, "logout") /\ request[r].token = stored[p]
      /\ Answer(p, "refresh").step # "granted"
  BY <1>1, <1>2 DEF Calm, CalmPhone, Answer
<1> QED
  BY <1>3 DEF Calm, CalmPhone

LEMMA BackendCore ==
  ASSUME SessionInv, NEW r \in Request, RequestStep(r), UNCHANGED <<stored, call>>
  PROVE  CallsOK' /\ FreshIsNew' /\ StoredOnce'
<1>1. CallsOK'
  <2>1. \A q \in Request : request'[q].kind = request[q].kind
                           /\ (request[q].step # "idle" => request'[q].step # "idle")
    BY RequestEffect DEF SessionInv, MobileInv
  <2>2. \A p \in Phone, kind \in Kind : Awaits(p, kind) => call[p][kind] \in Request
    BY DEF SessionInv, MobileInv, StorageOK, Awaits
  <2> QED
    BY <2>1, <2>2 DEF SessionInv, CallsOK, Awaits, Answer
<1>2. FreshIsNew'
  <2>1. /\ request'[r].token \in {request[r].token, None}
        /\ \/ request'[r].fresh \in {request[r].fresh, None}
           \/ request'[r].fresh \in Token /\ row[request'[r].fresh] = "none"
        /\ \A q \in Request \ {r} : request'[q] = request[q]
    BY RequestEffect DEF SessionInv, MobileInv
  <2>2. \A q \in Request : request'[q].token \in {request[q].token, None}
    BY <2>1
  <2>3. \A q \in Request \ {r} : request'[q].fresh = request[q].fresh
    BY <2>1
  <2>4. FreshIsNew
    BY DEF SessionInv
  <2>5. CASE request'[r].fresh \in {request[r].fresh, None}
    BY <2>2, <2>3, <2>4, <2>5 DEF FreshIsNew
  <2>6. CASE request'[r].fresh \in Token /\ row[request'[r].fresh] = "none"
    <3>1. \A p \in Phone : stored[p] # request'[r].fresh
      BY <2>6, RefreshTokensAssumption DEF SessionInv, MobileInv, StorageOK, Committed
    <3>2. \A q \in Request : TransactionOK(request[q])
      BY DEF SessionInv, MobileInv, IInv
    <3>3. \A q \in Request : request[q].token # request'[r].fresh
      BY <2>6, <3>2, RefreshTokensAssumption DEF TransactionOK, Committed
    <3>4. \A q \in Request : request[q].fresh # None =>
            request[q].fresh # request'[r].fresh
      BY <2>6, <3>2 DEF TransactionOK, Committed
    <3>5. request'[r].fresh # None
      BY <2>6, RefreshTokensAssumption
    <3> QED
      BY <2>2, <2>3, <2>4, <3>1, <3>3, <3>4, <3>5 DEF FreshIsNew
  <2> QED
    BY <2>1, <2>5, <2>6
<1>3. StoredOnce'
  BY DEF SessionInv, StoredOnce
<1> QED
  BY <1>1, <1>2, <1>3

\* While nothing goes wrong, a step of a request leaves it in order.
LEMMA CalmRequestStays ==
  ASSUME SessionInv, Calm, NEW r \in Request, RequestStep(r), UNCHANGED call,
         ~RefreshFailed(request'[r])
  PROVE  CalmRequest(r)'
<1>0. /\ request \in [Request -> Transaction] /\ request[r] \in Transaction
      /\ CalmRequest(r) /\ expired = {} /\ TransactionOK(request[r]) /\ CallsOK
      /\ request'[r].kind = request[r].kind
      /\ request[r].step # "idle"
  BY RequestEffect DEF SessionInv, MobileInv, IInv, TypeOK, Calm
<1>1. request[r].kind = "refresh" => \E p \in Phone : call'[p]["refresh"] = r
  BY <1>0 DEF CalmRequest
<1>2. SUFFICES /\ request'[r].step \notin {"burn", "burning", "rejected"}
               /\ request'[r].held \subseteq {request'[r].token}
               /\ request[r].kind = "refresh" /\ request'[r].step = "commit" =>
                    request'[r].fresh # None
               /\ request[r].kind = "refresh" => request'[r].step # "error"
               /\ request'[r].step = "granted" => row'[request'[r].fresh] = "live"
  BY <1>0, <1>1 DEF CalmRequest
<1> DEFINE InOrder ==
      /\ request'[r].step \notin {"burn", "burning", "rejected"}
      /\ request'[r].held \subseteq {request'[r].token}
      /\ request[r].kind = "refresh" /\ request'[r].step = "commit" =>
           request'[r].fresh # None
      /\ request[r].kind = "refresh" => request'[r].step # "error"
      /\ request'[r].step = "granted" => row'[request'[r].fresh] = "live"
<1>3. CASE Resolve(r)
  <2>1. PICK step \in {"done", "lock"} :
          request' = [request EXCEPT ![r] = [request[r] EXCEPT !.step = step]]
    BY <1>0, <1>3 DEF Resolve, Goto
  <2> QED
    BY <1>0, <2>1 DEF CalmRequest, Transaction
<1>4. ASSUME NEW n \in Token, Login(r, n) PROVE InOrder
  <2>1. request' = [request EXCEPT ![r] = [request[r] EXCEPT !.step = "commit", !.fresh = n]]
    BY <1>0, <1>4 DEF Login
  <2> QED
    BY <1>0, <2>1, RefreshTokensAssumption DEF CalmRequest, Transaction
<1>5. ASSUME NEW n \in Token, Rotate(r, n) PROVE InOrder
  <2>1. request' = [request EXCEPT ![r] = [request[r] EXCEPT
                      !.step = "commit", !.fresh = n, !.held = {request[r].token}]]
    BY <1>0, <1>5 DEF Rotate, Hold
  <2> QED
    BY <1>0, <2>1, RefreshTokensAssumption DEF CalmRequest, Transaction
<1>6. ~RevokeExpired(r)
  BY <1>0 DEF RevokeExpired
<1>7. ~DetectReuse(r)
  <2> SUFFICES ASSUME DetectReuse(r) PROVE FALSE
    OBVIOUS
  <2>1. request[r].kind = "refresh" /\ request[r].step = "lock"
        /\ row[request[r].token] = "revoked"
    BY DEF DetectReuse, Locks
  <2> QED
    BY <1>0, <2>1, RefreshMeetsLive, MobileSessionAssumption
<1>8. CASE Revoke(r)
  <2>1. request' = [request EXCEPT ![r] = [request[r] EXCEPT
                      !.step = "commit", !.fresh = None, !.held = {request[r].token}]]
    BY <1>0, <1>8 DEF Revoke, Hold
  <2>2. request[r].kind = "logout"
    BY <1>8 DEF Revoke, Locks
  <2> QED
    BY <1>0, <2>1, <2>2 DEF Transaction
<1>9. ~SelectFamily(r) /\ ~FamilyRevoked(r) /\ \A t \in Token : ~RevokeFamilyRow(r, t)
  BY <1>0 DEF CalmRequest, SelectFamily, FamilyRevoked, RevokeFamilyRow
<1>10. CASE Commit(r)
  <2>1. request' = [request EXCEPT ![r] = [request[r] EXCEPT !.step = Outcome(r), !.held = {}]]
        /\ request[r].step = "commit"
    BY <1>0, <1>10 DEF Commit
  <2>2. /\ Outcome(r) \in {"granted", "rejected", "done"}
        /\ Outcome(r) = "rejected" => request[r].kind = "refresh" /\ request[r].fresh = None
        /\ Outcome(r) = "granted" => request[r].fresh # None
    BY DEF Outcome
  <2>3. Outcome(r) # "rejected"
    BY <1>0, <2>1, <2>2 DEF CalmRequest
  <2>4. /\ request'[r].step = Outcome(r) /\ request'[r].held = {}
        /\ request'[r].fresh = request[r].fresh
    BY <1>0, <2>1 DEF Transaction
  <2>5. request[r].fresh # None => row'[request[r].fresh] = "live"
    <3> SUFFICES ASSUME request[r].fresh # None PROVE row'[request[r].fresh] = "live"
      OBVIOUS
    <3>1. request[r].fresh \in Token
      BY <1>0 DEF Transaction
    <3>2. request[r].fresh # request[r].token
      BY DEF SessionInv, FreshIsNew
    <3> QED
      BY <1>0, <1>10, <3>1, <3>2 DEF CalmRequest, Commit
  <2> QED
    BY <2>2, <2>3, <2>4, <2>5
<1>11. CASE Abort(r)
  <2>1. request'[r] = [Idle EXCEPT !.kind = request[r].kind, !.step = "error"]
    BY <1>0, <1>11 DEF Abort
  <2>2. request'[r].kind = request[r].kind /\ request'[r].step = "error"
        /\ request'[r].held = {}
    BY <2>1 DEF Idle
  <2> QED
    BY <2>2 DEF RefreshFailed
<1> QED
  BY <1>3, <1>4, <1>5, <1>6, <1>7, <1>8, <1>9, <1>10, <1>11 DEF RequestStep

LEMMA CalmRequestStep ==
  ASSUME SessionInv, Calm, NEW r \in Request, RequestStep(r),
         UNCHANGED <<stored, status, call>>, ~RefreshFailed(request'[r])
  PROVE  Calm'
<1>0. /\ IInv /\ CallsOK /\ FreshIsNew /\ StorageOK
      /\ request \in [Request -> Transaction]
  BY DEF SessionInv, MobileInv, IInv, TypeOK
<1>1. /\ request[r].step \in {"resolve", "insert", "lock", "burn", "burning", "commit"}
      /\ request'[r].step # "idle"
      /\ request'[r].kind = request[r].kind
      /\ request'[r].token \in {request[r].token, None}
      /\ ~Abort(r) => request'[r].token = request[r].token
      /\ \A q \in Request \ {r} : request'[q] = request[q]
      /\ expired' = expired
  BY <1>0, RequestEffect
<1>2. ASSUME NEW q \in Request PROVE CalmRequest(q)'
  <2>1. CASE q = r
    BY <2>1, CalmRequestStays
  <2>2. CASE q # r
    <3>1. request'[q] = request[q] /\ CalmRequest(q) /\ TransactionOK(request[q])
      BY <1>0, <1>1, <2>2 DEF Calm, IInv
    <3>2. request[q].step = "granted" => row'[request[q].fresh] = "live"
      <4> SUFFICES ASSUME request[q].step = "granted" PROVE row'[request[q].fresh] = "live"
        OBVIOUS
      <4>1. request[q].fresh # None /\ row[request[q].fresh] = "live"
        BY <3>1 DEF CalmRequest, TransactionOK
      <4>2. request[q].fresh \in Token /\ request[q].fresh # request[r].token
        BY <1>0, <4>1 DEF Transaction, FreshIsNew
      <4> QED
        BY <1>0, <4>1, <4>2, LiveStays
    <3> QED
      BY <3>1, <3>2 DEF CalmRequest
  <2> QED
    BY <2>1, <2>2
<1>3. ASSUME NEW p \in Phone PROVE CalmPhone(p)'
  <2>0. CalmPhone(p) /\ "refresh" \in Kind /\ "logout" \in Kind
    BY DEF Calm, Kind
  <2>1. UNCHANGED <<stored, status, call>>
    OBVIOUS
  <2>2. ASSUME Awaits(p, "refresh") PROVE request'[call[p]["refresh"]].token = stored[p]
    <3>1. call[p]["refresh"] \in Request
      BY <1>0, <2>0, <2>2 DEF StorageOK, Awaits
    <3>2. request[call[p]["refresh"]].token = stored[p]
          /\ request[call[p]["refresh"]].kind = "refresh"
      BY <1>0, <2>0, <2>2 DEF CalmPhone, CallsOK, Answer
    <3>3. CASE call[p]["refresh"] # r
      BY <1>1, <3>1, <3>2, <3>3
    <3>4. CASE call[p]["refresh"] = r /\ ~Abort(r)
      BY <1>1, <3>2, <3>4
    <3>5. ~(call[p]["refresh"] = r /\ Abort(r))
      <4> SUFFICES ASSUME call[p]["refresh"] = r, Abort(r) PROVE FALSE
        OBVIOUS
      <4>1. request'[r].step = "error"
        BY <1>0 DEF Abort, Idle
      <4> QED
        BY <1>1, <3>2, <4>1 DEF RefreshFailed
    <3> QED
      BY <3>3, <3>4, <3>5
  <2>3. ASSUME NEW q \in Request, stored[p] # None, request'[q].token = stored[p]
        PROVE  q = call[p]["refresh"] \/ q = call[p]["logout"]
    <3>1. request[q].token = stored[p]
      BY <1>1, <2>3
    <3> QED
      BY <2>0, <2>3, <3>1 DEF CalmPhone
  <2>4. ASSUME stored[p] # None, ~Awaits(p, "logout"),
               Awaits(p, "refresh") => request'[call[p]["refresh"]].step # "granted"
        PROVE  row'[stored[p]] = "live"
    <3>1. stored[p] \in Token
      BY <1>0, <2>4 DEF StorageOK
    <3>2. row[stored[p]] = "live"
      <4>1. ASSUME Awaits(p, "refresh") PROVE request[call[p]["refresh"]].step # "granted"
        <5>1. call[p]["refresh"] \in Request
          BY <1>0, <2>0, <4>1 DEF StorageOK, Awaits
        <5> QED
          BY <1>1, <2>4, <4>1, <5>1
      <4> QED
        BY <2>0, <2>4, <4>1 DEF CalmPhone, Answer
    <3>3. CASE request[r].token # stored[p] \/ ~Commit(r)
      BY <1>0, <3>1, <3>2, <3>3, LiveStays
    <3>4. ~(request[r].token = stored[p] /\ Commit(r))
      <4> SUFFICES ASSUME request[r].token = stored[p], Commit(r) PROVE FALSE
        OBVIOUS
      <4>1. call[p]["refresh"] = r
        BY <2>0, <2>4, MobileSessionAssumption DEF CalmPhone, Awaits
      <4>2. Awaits(p, "refresh") /\ request[r].kind = "refresh"
        BY <1>0, <2>0, <4>1, MobileSessionAssumption DEF Awaits, CallsOK, Answer
      <4>3. request[r].fresh # None
        BY <1>1, <4>2 DEF Calm, CalmRequest, Commit
      <4>4. request'[r].step = "granted"
        BY <1>0, <4>3 DEF Commit, Outcome, Transaction
      <4> QED
        BY <2>4, <4>1, <4>2, <4>4
    <3> QED
      BY <3>3, <3>4
  <2> QED
    BY <2>0, <2>1, <2>2, <2>3, <2>4 DEF CalmPhone, Awaits, Answer
<1> QED
  BY <1>1, <1>2, <1>3 DEF Calm

\* The backend forgets a request nobody awaits.
LEMMA ForgetSession ==
  ASSUME SessionInv, NEW r \in Request, ~Awaited(r), Forget(r),
         UNCHANGED <<stored, status, call>>
  PROVE  /\ CallsOK' /\ FreshIsNew' /\ StoredOnce'
         /\ Calm => Calm'
<1>0. /\ request'[r] = Idle /\ \A q \in Request \ {r} : request'[q] = request[q]
      /\ row' = row /\ expired' = expired
  BY DEF SessionInv, MobileInv, IInv, TypeOK, Forget
<1>1. /\ Idle.token = None /\ Idle.fresh = None /\ Idle.held = {} /\ Idle.step = "idle"
  BY DEF Idle
<1>2. \A p \in Phone, kind \in Kind : Awaits(p, kind) =>
        call[p][kind] \in Request /\ call[p][kind] # r
  BY DEF Awaited, Awaits, SessionInv, MobileInv, StorageOK
<1>3. CallsOK'
  BY <1>0, <1>2 DEF SessionInv, CallsOK, Awaits, Answer
<1>4. FreshIsNew'
  BY <1>0, <1>1 DEF SessionInv, FreshIsNew
<1>5. StoredOnce'
  BY DEF SessionInv, StoredOnce
<1>6. ASSUME Calm, NEW q \in Request PROVE CalmRequest(q)'
  BY <1>0, <1>1, <1>6 DEF Calm, CalmRequest
<1>7. ASSUME Calm, NEW p \in Phone PROVE CalmPhone(p)'
  <2>1. CalmPhone(p) /\ "refresh" \in Kind
    BY <1>7 DEF Calm, Kind
  <2> QED
    BY <1>0, <1>1, <1>2, <2>1 DEF CalmPhone, Awaits, Answer
<1> QED
  BY <1>0, <1>3, <1>4, <1>5, <1>6, <1>7 DEF Calm

-----------------------------------------------------------------------------
\* A phone sends a request: only this phone awaits it, about its own token.
LEMMA SendSession ==
  ASSUME SessionInv, NEW p \in Phone, NEW kind \in Kind, NEW t \in {None, stored[p]},
         Send(p, kind, t), ~Awaits(p, kind), UNCHANGED <<stored, status>>
  PROVE  /\ CallsOK' /\ FreshIsNew' /\ StoredOnce'
         /\ /\ Calm
            /\ IF kind = "login" THEN t = None /\ stored[p] = None
               ELSE /\ t = stored[p] /\ t # None
                    /\ ~Awaits(p, "refresh") /\ ~Awaits(p, "logout")
            => Calm'
<1>0. request \in [Request -> Transaction] /\ call \in [Phone -> [Kind -> Request \cup {None}]]
      /\ CallsOK /\ FreshIsNew /\ StoredOnce
  BY DEF SessionInv, MobileInv, IInv, TypeOK, StorageOK
<1>1. PICK r \in Request : /\ ~Awaited(r) /\ Receive(r, kind, t)
                           /\ call' = [call EXCEPT ![p][kind] = r]
  BY DEF Send
<1>2. /\ request'[r].kind = kind /\ request'[r].token = t
      /\ request'[r].step \in {"insert", "resolve"}
      /\ request'[r].fresh = None /\ request'[r].held = {}
      /\ \A q \in Request \ {r} : request'[q] = request[q]
      /\ row' = row /\ expired' = expired
  BY <1>0, <1>1 DEF Receive, Idle
<1>3. /\ call'[p][kind] = r
      /\ \A q \in Phone, k \in Kind : q # p \/ k # kind => call'[q][k] = call[q][k]
  BY <1>0, <1>1
<1>4. \A q \in Phone, k \in Kind : Awaits(q, k) =>
        call[q][k] \in Request /\ call[q][k] # r
  BY <1>0, <1>1 DEF Awaited, Awaits
<1>5. r # None
  BY MobileSessionAssumption
<1>6. CallsOK'
  <2>1. ASSUME NEW q \in Phone, NEW k \in Kind, call'[q][k] # None
        PROVE  request'[call'[q][k]].kind = k /\ request'[call'[q][k]].step # "idle"
    <3>1. CASE q = p /\ k = kind
      BY <1>2, <1>3, <3>1
    <3>2. CASE q # p \/ k # kind
      <4>1. Awaits(q, k) /\ call'[q][k] = call[q][k]
        BY <1>3, <2>1, <3>2 DEF Awaits
      <4> QED
        BY <1>0, <1>2, <1>4, <4>1 DEF CallsOK, Answer
    <3> QED
      BY <3>1, <3>2
  <2>2. ASSUME NEW q \in Phone, NEW s \in Phone, NEW k \in Kind,
               call'[q][k] # None, call'[q][k] = call'[s][k]
        PROVE  q = s
    <3>1. CASE call'[q][k] = r
      <4>1. \A x \in Phone : call'[x][k] = r => x = p
        BY <1>3, <1>4, <1>5 DEF Awaits
      <4>2. call'[s][k] = r
        BY <2>2, <3>1
      <4> QED  BY <3>1, <4>1, <4>2
    <3>2. CASE call'[q][k] # r
      <4>1. call'[q][k] = call[q][k] /\ call'[s][k] = call[s][k]
        BY <1>3, <2>2, <3>2
      <4>2. call[q][k] # None /\ call[q][k] = call[s][k]
        BY <2>2, <4>1
      <4> QED  BY <1>0, <4>2 DEF CallsOK, Awaits
    <3> QED
      BY <3>1, <3>2
  <2> QED
    BY <2>1, <2>2 DEF CallsOK, Awaits, Answer
<1>7. FreshIsNew'
  BY <1>0, <1>2 DEF FreshIsNew
<1>8. StoredOnce'
  BY <1>0 DEF StoredOnce
<1>9. ASSUME Calm,
             IF kind = "login" THEN t = None /\ stored[p] = None
             ELSE /\ t = stored[p] /\ t # None
                  /\ ~Awaits(p, "refresh") /\ ~Awaits(p, "logout")
      PROVE  Calm'
  <2>1. ASSUME NEW q \in Request PROVE CalmRequest(q)'
    <3>1. CASE q = r
      BY <1>2, <1>3, <3>1 DEF CalmRequest
    <3>2. CASE q # r
      <4>1. CalmRequest(q) /\ request'[q] = request[q] /\ "refresh" \in Kind
        BY <1>2, <1>9, <3>2 DEF Calm, Kind
      <4>2. ASSUME NEW s \in Phone, call[s]["refresh"] = q
            PROVE  call'[s]["refresh"] = q
        BY <1>3, <4>1, <4>2, MobileSessionAssumption DEF Awaits
      <4> QED
        BY <1>2, <4>1, <4>2 DEF CalmRequest
    <3> QED
      BY <3>1, <3>2
  <2>2. ASSUME NEW q \in Phone PROVE CalmPhone(q)'
    <3>0. CalmPhone(q) /\ {"login", "refresh", "logout"} = Kind
      BY <1>9 DEF Calm, Kind
    <3>1. CASE q # p
      <4>1. \A k \in Kind : call'[q][k] = call[q][k]
        BY <1>3, <3>1
      <4>2. stored[q] # None => t # stored[q]
        BY <1>0, <3>1 DEF StoredOnce
      <4>3. \A k \in Kind : Awaits(q, k) => request'[call[q][k]] = request[call[q][k]]
        BY <1>2, <1>4
      <4>4. \A s \in Request : stored[q] # None /\ request'[s].token = stored[q] =>
              request[s].token = stored[q]
        BY <1>2, <4>2
      <4> QED
        BY <1>2, <3>0, <4>1, <4>3, <4>4 DEF CalmPhone, Awaits, Answer
    <3>2. CASE q = p /\ kind = "login"
      BY <1>2, <1>3, <1>9, <3>0, <3>2 DEF CalmPhone, Awaits, Answer
    <3>3. CASE q = p /\ kind # "login"
      <4>1. /\ stored[p] # None /\ t = stored[p]
            /\ call[p]["refresh"] = None /\ call[p]["logout"] = None
            /\ call[p]["login"] = None
        BY <1>9, <3>0, <3>3 DEF CalmPhone, Awaits
      <4>2. row[stored[p]] = "live"
        BY <3>0, <3>3, <4>1 DEF CalmPhone, Awaits
      <4>3. \A s \in Request : request[s].token # stored[p]
        BY <3>0, <3>3, <4>1, MobileSessionAssumption DEF CalmPhone
      <4>4. \A k \in Kind : call'[p][k] = IF k = kind THEN r ELSE None
        BY <1>3, <3>0, <4>1
      <4>5. \A s \in Request : request'[s].token = stored[p] => s = r
        BY <1>2, <4>3
      <4> QED
        BY <1>2, <1>5, <3>0, <3>3, <4>1, <4>2, <4>4, <4>5 DEF CalmPhone, Awaits, Answer
    <3> QED
      BY <3>1, <3>2, <3>3
  <2> QED
    BY <1>2, <1>9, <2>1, <2>2 DEF Calm
<1> QED
  BY <1>6, <1>7, <1>8, <1>9

\* A coroutine reads its answer: what remains of the other calls and tokens.
LEMMA ResumeCore ==
  ASSUME SessionInv, NEW p \in Phone, NEW kind \in Kind, Resume(p, kind),
         NEW t, stored' = [stored EXCEPT ![p] = t],
         t = None \/ t = stored[p]
           \/ (Answer(p, kind).step = "granted" /\ t = Answer(p, kind).fresh)
  PROVE  CallsOK' /\ FreshIsNew' /\ StoredOnce'
<1>0. /\ request \in [Request -> Transaction]
      /\ call \in [Phone -> [Kind -> Request \cup {None}]]
      /\ stored \in [Phone -> Token \cup {None}]
      /\ CallsOK /\ FreshIsNew /\ StoredOnce
  BY DEF SessionInv, MobileInv, IInv, TypeOK, StorageOK
<1>1. PICK r \in Request : r = call[p][kind]
  BY <1>0 DEF Resume, Awaits
<1>2. /\ request'[r] = Idle /\ \A q \in Request \ {r} : request'[q] = request[q]
      /\ Idle.token = None /\ Idle.fresh = None
      /\ request[r].kind = kind
  BY <1>0, <1>1 DEF Resume, Forget, Idle, CallsOK, Answer
<1>3. /\ call'[p][kind] = None
      /\ \A q \in Phone, k \in Kind : q # p \/ k # kind => call'[q][k] = call[q][k]
  BY <1>0 DEF Resume
<1>4. ASSUME NEW q \in Phone, NEW k \in Kind, call'[q][k] # None
      PROVE  /\ Awaits(q, k) /\ call'[q][k] = call[q][k]
             /\ call[q][k] \in Request /\ call[q][k] # r
  <2>1. (q # p \/ k # kind) /\ call'[q][k] = call[q][k] /\ Awaits(q, k)
    BY <1>3, <1>4 DEF Awaits
  <2>2. call[q][k] # r
    <3>1. CASE k # kind
      BY <1>0, <1>2, <2>1, <3>1 DEF CallsOK, Answer
    <3>2. CASE k = kind
      BY <1>0, <1>1, <2>1, <3>2 DEF CallsOK
    <3> QED
      BY <3>1, <3>2
  <2> QED
    BY <1>0, <2>1, <2>2 DEF Awaits
<1>5. CallsOK'
  <2>1. ASSUME NEW q \in Phone, NEW k \in Kind, call'[q][k] # None
        PROVE  request'[call'[q][k]].kind = k /\ request'[call'[q][k]].step # "idle"
    <3>1. request'[call'[q][k]] = request[call[q][k]] /\ Awaits(q, k)
      BY <1>2, <1>4, <2>1
    <3> QED
      BY <1>0, <3>1 DEF CallsOK, Answer
  <2>2. ASSUME NEW q \in Phone, NEW s \in Phone, NEW k \in Kind,
               call'[q][k] # None, call'[q][k] = call'[s][k]
        PROVE  q = s
    BY <1>0, <1>4, <2>2 DEF CallsOK
  <2> QED
    BY <2>1, <2>2 DEF CallsOK, Awaits, Answer
<1>6. t = None \/ t = stored[p] \/ t = request[r].fresh
  BY <1>1 DEF Answer
<1>7. FreshIsNew'
  <2> SUFFICES ASSUME NEW s \in Request, request'[s].fresh # None
               PROVE  /\ \A q \in Phone : stored'[q] # request'[s].fresh
                      /\ \A q \in Request : request'[q].token # request'[s].fresh
                      /\ \A q \in Request \ {s} : request'[q].fresh # request'[s].fresh
    BY DEF FreshIsNew
  <2>1. s # r /\ request'[s] = request[s]
    BY <1>2
  <2>2. t # request[s].fresh
    BY <1>0, <1>6, <2>1 DEF FreshIsNew
  <2>3. \A q \in Phone : stored'[q] # request[s].fresh
    BY <1>0, <2>1, <2>2 DEF FreshIsNew
  <2>4. \A q \in Request : request'[q].token # request[s].fresh
    BY <1>0, <1>2, <2>1 DEF FreshIsNew
  <2>5. \A q \in Request \ {s} : request'[q].fresh # request[s].fresh
    BY <1>0, <1>2, <2>1 DEF FreshIsNew
  <2> QED
    BY <2>1, <2>3, <2>4, <2>5
<1>8. StoredOnce'
  <2>1. ASSUME NEW q \in Phone, q # p, t # None PROVE stored[q] # t
    BY <1>0, <1>6, <2>1 DEF StoredOnce, FreshIsNew
  <2> QED
    BY <1>0, <2>1 DEF StoredOnce
<1> QED
  BY <1>5, <1>7, <1>8

LEMMA ResumeCalm ==
  ASSUME SessionInv, Calm, NEW p \in Phone, NEW kind \in Kind, Resume(p, kind),
         NEW t, stored' = [stored EXCEPT ![p] = t],
         \/ t = None /\ (stored[p] = None \/ kind = "logout")
         \/ /\ Answer(p, kind).step = "granted" /\ t = Answer(p, kind).fresh
            /\ kind # "logout",
         status'[p] = "authenticated" <=> t # None,
         \A q \in Phone : q # p => status'[q] = status[q]
  PROVE  Calm'
<1>0. /\ request \in [Request -> Transaction]
      /\ call \in [Phone -> [Kind -> Request \cup {None}]]
      /\ stored \in [Phone -> Token \cup {None}]
      /\ CallsOK /\ FreshIsNew /\ StoredOnce /\ Kind = {"login", "refresh", "logout"}
      /\ call[p][kind] # None
  BY DEF SessionInv, MobileInv, IInv, TypeOK, StorageOK, Kind, Resume, Awaits
<1>1. PICK r \in Request : r = call[p][kind]
  BY <1>0
<1>2. /\ request'[r] = Idle /\ \A q \in Request \ {r} : request'[q] = request[q]
      /\ Idle.token = None /\ Idle.fresh = None /\ Idle.held = {} /\ Idle.step = "idle"
      /\ request[r].kind = kind /\ row' = row /\ expired' = expired
  BY <1>0, <1>1 DEF Resume, Awaits, Forget, Idle, CallsOK, Answer
<1>3. /\ call'[p][kind] = None /\ stored'[p] = t
      /\ \A q \in Phone, k \in Kind : q # p \/ k # kind => call'[q][k] = call[q][k]
      /\ \A q \in Phone : q # p => stored'[q] = stored[q]
  BY <1>0 DEF Resume
<1>4. \A q \in Phone, k \in Kind : call[q][k] # None /\ (q # p \/ k # kind) =>
        call[q][k] \in Request /\ call[q][k] # r
  <2> SUFFICES ASSUME NEW q \in Phone, NEW k \in Kind, call[q][k] # None, q # p \/ k # kind
               PROVE  call[q][k] \in Request /\ call[q][k] # r
    OBVIOUS
  <2>1. CASE k # kind
    BY <1>0, <1>2, <2>1 DEF CallsOK, Answer, Awaits
  <2>2. CASE k = kind
    BY <1>0, <1>1, <2>2 DEF CallsOK, Awaits
  <2> QED
    BY <2>1, <2>2
<1>5. ASSUME NEW s \in Request PROVE CalmRequest(s)'
  <2>1. CASE s = r
    BY <1>2, <2>1 DEF CalmRequest
  <2>2. CASE s # r
    <3>1. ASSUME NEW q \in Phone, call[q]["refresh"] = s PROVE call'[q]["refresh"] = s
      BY <1>0, <1>1, <1>3, <2>2, <3>1
    <3>2. CalmRequest(s) /\ request'[s] = request[s]
      BY <1>2, <2>2 DEF Calm
    <3> QED
      BY <1>2, <3>1, <3>2 DEF CalmRequest
  <2> QED
    BY <2>1, <2>2
<1>6. ASSUME NEW q \in Phone, q # p PROVE CalmPhone(q)'
  <2>1. \A k \in Kind : call[q][k] # None => request'[call[q][k]] = request[call[q][k]]
    BY <1>2, <1>4, <1>6
  <2>2. \A s \in Request : stored[q] # None /\ request'[s].token = stored[q] =>
          request[s].token = stored[q]
    BY <1>2
  <2>3. /\ CalmPhone(q) /\ stored'[q] = stored[q] /\ status'[q] = status[q]
        /\ \A k \in Kind : call'[q][k] = call[q][k]
    BY <1>3, <1>6 DEF Calm
  <2> QED
    BY <1>0, <1>2, <2>1, <2>2, <2>3 DEF CalmPhone, Awaits, Answer
<1>7. CalmPhone(p)'
  <2>0. CalmPhone(p)
    BY DEF Calm
  <2>1. CASE t = None
    <3>1. call'[p]["refresh"] = None /\ call'[p]["logout"] = None
      <4>1. CASE stored[p] = None
        BY <1>0, <1>3, <2>0, <4>1 DEF CalmPhone, Awaits
      <4>2. CASE kind = "logout"
        BY <1>0, <1>3, <2>0, <4>2 DEF CalmPhone, Awaits
      <4>3. CASE Answer(p, kind).step = "granted" /\ t = Answer(p, kind).fresh
        BY <1>0, <1>1, <2>1, <4>3
           DEF SessionInv, MobileInv, IInv, TransactionOK, Answer
      <4> QED
        BY <4>1, <4>2, <4>3
    <3> QED
      BY <1>3, <2>1, <3>1 DEF CalmPhone, Awaits
  <2>2. CASE t # None
    <3>1. request[r].step = "granted" /\ t = request[r].fresh /\ kind # "logout"
      BY <1>1, <2>2 DEF Answer
    <3>2. row[t] = "live"
      BY <3>1 DEF Calm, CalmRequest
    <3>3. \A s \in Request : request'[s].token # t
      BY <1>0, <1>2, <2>2, <3>1 DEF FreshIsNew
    <3>4. \A k \in Kind : call'[p][k] = None
      BY <1>0, <1>3, <2>0, <3>1 DEF CalmPhone, Awaits
    <3> QED
      BY <1>0, <1>2, <1>3, <2>2, <3>2, <3>3, <3>4 DEF CalmPhone, Awaits
  <2> QED
    BY <2>1, <2>2
<1> QED
  BY <1>2, <1>5, <1>6, <1>7 DEF Calm

\* Only the refusal of a request the backend has not disturbed ends a session.
LEMMA CalmIsNotRefused ==
  ASSUME SessionInv, Calm, NEW p \in Phone, Awaits(p, "refresh")
  PROVE  Answer(p, "refresh").step \notin {"rejected", "error"}
<1>1. "refresh" \in Kind
  BY DEF Kind
<1>2. /\ call[p]["refresh"] \in Request
      /\ request[call[p]["refresh"]].kind = "refresh"
      /\ request[call[p]["refresh"]].step # "idle"
  BY <1>1 DEF SessionInv, MobileInv, StorageOK, CallsOK, Awaits, Answer
<1> QED
  BY <1>2 DEF Calm, CalmRequest, Answer

\* A phone gives up some of its calls, or its token, by itself.
LEMMA LocalSession ==
  ASSUME SessionInv, NEW p \in Phone, UNCHANGED vars,
         \A q \in Phone : q # p =>
           call'[q] = call[q] /\ stored'[q] = stored[q] /\ status'[q] = status[q],
         \A k \in Kind : call'[p][k] \in {call[p][k], None},
         stored'[p] \in {stored[p], None}
  PROVE  /\ CallsOK' /\ FreshIsNew' /\ StoredOnce'
         /\ /\ Calm
            /\ status'[p] = "authenticated" <=> stored'[p] # None
            /\ call'[p]["refresh"] = call[p]["refresh"]
            /\ \/ stored'[p] = stored[p] /\ call'[p]["logout"] = call[p]["logout"]
               \/ /\ stored'[p] = None /\ call'[p]["logout"] = None
                  /\ call[p]["refresh"] = None
            => Calm'
<1>0. /\ UNCHANGED <<row, request, expired>> /\ Kind = {"login", "refresh", "logout"}
      /\ CallsOK /\ FreshIsNew /\ StoredOnce
  BY DEF vars, SessionInv, Kind
<1>1. /\ \A q \in Phone, k \in Kind : call'[q][k] \in {call[q][k], None}
      /\ \A q \in Phone : stored'[q] \in {stored[q], None}
  OBVIOUS
<1>2. CallsOK'
  BY <1>0, <1>1 DEF CallsOK, Awaits, Answer
<1>3. FreshIsNew'
  BY <1>0, <1>1 DEF FreshIsNew
<1>4. StoredOnce'
  BY <1>0, <1>1 DEF StoredOnce
<1>5. ASSUME Calm, status'[p] = "authenticated" <=> stored'[p] # None,
             call'[p]["refresh"] = call[p]["refresh"],
             \/ stored'[p] = stored[p] /\ call'[p]["logout"] = call[p]["logout"]
             \/ /\ stored'[p] = None /\ call'[p]["logout"] = None
                /\ call[p]["refresh"] = None
      PROVE  Calm'
  <2>1. ASSUME NEW s \in Request PROVE CalmRequest(s)'
    <3>1. \A q \in Phone : call'[q]["refresh"] = call[q]["refresh"]
      BY <1>5
    <3> QED
      BY <1>0, <1>5, <3>1 DEF Calm, CalmRequest
  <2>2. ASSUME NEW q \in Phone, q # p PROVE CalmPhone(q)'
    <3>1. CalmPhone(q) /\ call'[q] = call[q] /\ stored'[q] = stored[q]
          /\ status'[q] = status[q]
      BY <1>5, <2>2 DEF Calm
    <3> QED
      BY <1>0, <3>1 DEF CalmPhone, Awaits, Answer
  <2>3. CalmPhone(p)'
    <3>1. CalmPhone(p) /\ call'[p]["login"] \in {call[p]["login"], None}
      BY <1>0, <1>5 DEF Calm
    <3>2. CASE stored'[p] = stored[p] /\ call'[p]["logout"] = call[p]["logout"]
      BY <1>0, <1>5, <3>1, <3>2 DEF CalmPhone, Awaits, Answer
    <3>3. CASE stored'[p] = None /\ call'[p]["logout"] = None /\ call[p]["refresh"] = None
      BY <1>0, <1>5, <3>1, <3>3 DEF CalmPhone, Awaits, Answer
    <3> QED
      BY <1>5, <3>2, <3>3
  <2> QED
    BY <1>0, <1>5, <2>1, <2>2, <2>3 DEF Calm
<1> QED
  BY <1>2, <1>3, <1>4, <1>5

-----------------------------------------------------------------------------
\* The types, whatever is sent and answered.
LEMMA GrantedIsToken ==
  ASSUME SessionInv, NEW p \in Phone, NEW kind \in Kind, Awaits(p, kind),
         Answer(p, kind).step = "granted"
  PROVE  Answer(p, kind).fresh \in Token
<1>1. call[p][kind] \in Request
  BY DEF SessionInv, MobileInv, StorageOK, Awaits
<1> QED
  BY <1>1 DEF SessionInv, MobileInv, IInv, TypeOK, TransactionOK, Transaction, Answer

LEMMA NextMobileType ==
  ASSUME SessionInv, MobileNext \/ UNCHANGED mobileVars, MobileInv'
  PROVE  MobileTypeOK'
<1>0. /\ TypeOK' /\ stored' \in [Phone -> Token \cup {None}]
      /\ call' \in [Phone -> [Kind -> Request \cup {None}]]
  BY DEF MobileInv, IInv, StorageOK
<1>1. /\ status \in [Phone -> {"authenticated", "unauthenticated"}] /\ calm \in BOOLEAN
      /\ stored \in [Phone -> Token \cup {None}]
      /\ \A p \in Phone : status[p] = "authenticated" => stored[p] # None
      /\ {"login", "refresh", "logout"} \subseteq Kind
  BY DEF SessionInv, MobileTypeOK, Kind
<1>2. calm' \in BOOLEAN
  <2>1. CASE BackendStep
    BY <1>1, <2>1 DEF BackendStep
  <2>2. ASSUME NEW p \in Phone, PhoneStep(p) PROVE calm' \in BOOLEAN
    BY <1>1, <2>2
       DEF PhoneStep, StartLogin, LoginGranted, LoginFailed, StartRefresh,
           RefreshWithoutToken, RefreshGranted, RefreshRefused, StartLogout,
           LogoutAnswered, AnswerLost, Restart
  <2> QED
    BY <1>1, <2>1, <2>2 DEF MobileNext, mobileVars
<1>3. /\ status' \in [Phone -> {"authenticated", "unauthenticated"}]
      /\ \A p \in Phone : status'[p] = "authenticated" => stored'[p] # None
  <2>1. CASE UNCHANGED <<stored, status>>
    BY <1>1, <2>1
  <2>2. ASSUME NEW p \in Phone, ForceLogout(p) PROVE <1>3
    BY <1>1, <2>2 DEF ForceLogout
  <2>3. ASSUME NEW p \in Phone, LoginGranted(p) PROVE <1>3
    <3>1. Answer(p, "login").fresh \in Token
      BY <1>1, <2>3, GrantedIsToken DEF LoginGranted, Resume
    <3> QED
      BY <1>1, <2>3, <3>1, RefreshTokensAssumption DEF LoginGranted
  <2>4. ASSUME NEW p \in Phone, RefreshGranted(p) PROVE <1>3
    <3>1. Answer(p, "refresh").fresh \in Token
      BY <1>1, <2>4, GrantedIsToken DEF RefreshGranted, Resume
    <3> QED
      BY <1>1, <2>4, <3>1, RefreshTokensAssumption DEF RefreshGranted
  <2>5. ASSUME NEW p \in Phone, Restart(p) PROVE <1>3
    BY <1>1, <2>5 DEF Restart
  <2>6. CASE BackendStep \/ UNCHANGED mobileVars
    BY <2>1, <2>6 DEF BackendStep, mobileVars
  <2>7. ASSUME NEW p \in Phone, PhoneStep(p)
        PROVE  \/ UNCHANGED <<stored, status>> \/ ForceLogout(p)
               \/ LoginGranted(p) \/ RefreshGranted(p) \/ Restart(p)
    BY <2>7
       DEF PhoneStep, StartLogin, LoginFailed, StartRefresh,
           RefreshWithoutToken, RefreshRefused, StartLogout,
           LogoutAnswered, AnswerLost
  <2> QED
    BY <2>1, <2>2, <2>3, <2>4, <2>5, <2>6, <2>7 DEF MobileNext
<1> QED
  BY <1>0, <1>2, <1>3 DEF MobileTypeOK

-----------------------------------------------------------------------------
\* What a step must keep, apart from the types.
Kept == CallsOK' /\ FreshIsNew' /\ StoredOnce' /\ (calm' => Calm')

LEMMA BackendKeeps ==
  ASSUME SessionInv, BackendStep
  PROVE  Kept
<1>0. /\ UNCHANGED <<stored, status, call>>
      /\ (calm => Calm) /\ calm \in BOOLEAN
  BY DEF BackendStep, SessionInv, MobileTypeOK
<1>1. ASSUME NEW r \in Request, RequestStep(r),
             calm' = (calm /\ \A q \in Request : ~RefreshFailed(request'[q]))
      PROVE  Kept
  <2>1. calm' => Calm /\ ~RefreshFailed(request'[r])
    BY <1>0, <1>1
  <2>2. CallsOK' /\ FreshIsNew' /\ StoredOnce'
    BY <1>0, <1>1, BackendCore
  <2>3. calm' => Calm'
    BY <1>0, <1>1, <2>1, CalmRequestStep
  <2> QED
    BY <2>2, <2>3 DEF Kept
<1>2. ASSUME NEW r \in Request, ~Awaited(r), Forget(r), calm' = calm PROVE Kept
  BY <1>0, <1>2, ForgetSession DEF Kept
<1>3. ASSUME NEW t \in Token, Expire(t), calm' = FALSE PROVE Kept
  <2>1. request' = request
    BY <1>3 DEF Expire
  <2> QED
    BY <1>0, <1>3, <2>1
       DEF Kept, SessionInv, CallsOK, FreshIsNew, StoredOnce, Awaits, Answer
<1> QED
  BY <1>1, <1>2, <1>3 DEF BackendStep

LEMMA PhoneKeeps ==
  ASSUME SessionInv, NEW p \in Phone, PhoneStep(p)
  PROVE  Kept
<1>0. /\ (calm => Calm) /\ calm \in BOOLEAN
      /\ stored \in [Phone -> Token \cup {None}]
      /\ call \in [Phone -> [Kind -> Request \cup {None}]]
      /\ status \in [Phone -> {"authenticated", "unauthenticated"}]
      /\ {"login", "refresh", "logout"} = Kind
      /\ stored = [stored EXCEPT ![p] = stored[p]]
  BY DEF SessionInv, MobileTypeOK, Kind
<1>1. calm => CalmPhone(p)
  BY <1>0 DEF Calm
<1>2. CASE StartLogin(p)
  <2>1. Calm => stored[p] = None
    BY <1>2 DEF Calm, CalmPhone, StartLogin
  <2> QED
    BY <1>0, <1>2, <2>1, SendSession DEF StartLogin, Kept
<1>3. CASE LoginGranted(p)
  <2>1. /\ Resume(p, "login") /\ Answer(p, "login").step = "granted"
        /\ stored' = [stored EXCEPT ![p] = Answer(p, "login").fresh]
        /\ status' = [status EXCEPT ![p] = "authenticated"]
        /\ calm' = calm
    BY <1>3 DEF LoginGranted
  <2>2. Answer(p, "login").fresh # None
    BY <1>0, <2>1, GrantedIsToken, RefreshTokensAssumption DEF Resume
  <2>3. PICK t : t = Answer(p, "login").fresh
    OBVIOUS
  <2>4. CallsOK' /\ FreshIsNew' /\ StoredOnce'
    BY <1>0, <2>1, <2>3, ResumeCore
  <2>5. /\ status'[p] = "authenticated" <=> t # None
        /\ \A q \in Phone : q # p => status'[q] = status[q]
    BY <1>0, <2>1, <2>2, <2>3
  <2>6. calm' => Calm'
    BY <1>0, <2>1, <2>3, <2>5, ResumeCalm
  <2> QED
    BY <2>4, <2>6 DEF Kept
<1>4. CASE LoginFailed(p)
  <2>1. Resume(p, "login") /\ stored' = stored /\ status' = status /\ calm' = calm
    BY <1>4 DEF LoginFailed
  <2>2. CallsOK' /\ FreshIsNew' /\ StoredOnce'
    BY <1>0, <2>1, ResumeCore
  <2>3. Calm => stored[p] = None /\ status[p] # "authenticated"
    BY <2>1 DEF Calm, CalmPhone, Resume
  <2>4. ASSUME Calm PROVE Calm'
    <3>1. /\ stored' = [stored EXCEPT ![p] = None]
          /\ status'[p] = "authenticated" <=> None # None
      BY <1>0, <2>1, <2>3, <2>4
    <3> QED
      BY <1>0, <2>1, <2>3, <2>4, <3>1, ResumeCalm
  <2> QED
    BY <1>0, <2>1, <2>2, <2>4 DEF Kept
<1>5. CASE StartRefresh(p)
  <2>1. /\ ~Awaits(p, "refresh") /\ stored[p] # None /\ Send(p, "refresh", stored[p])
        /\ calm' = (calm /\ ~Awaits(p, "logout")) /\ UNCHANGED <<stored, status>>
    BY <1>5 DEF StartRefresh, MayRefresh
  <2> QED
    BY <1>0, <2>1, SendSession DEF Kept
<1>6. CASE RefreshWithoutToken(p)
  <2>1. /\ stored[p] = None /\ UNCHANGED <<vars, call, calm>>
        /\ stored' = [stored EXCEPT ![p] = None]
        /\ status' = [status EXCEPT ![p] = "unauthenticated"]
    BY <1>6 DEF RefreshWithoutToken, ForceLogout
  <2>2. /\ stored'[p] = None /\ status'[p] # "authenticated"
        /\ \A q \in Phone : q # p => stored'[q] = stored[q] /\ status'[q] = status[q]
    BY <1>0, <2>1
  <2> QED
    BY <1>0, <2>1, <2>2, LocalSession DEF Kept
<1>7. CASE RefreshGranted(p)
  <2>1. /\ Resume(p, "refresh") /\ Answer(p, "refresh").step = "granted"
        /\ stored' = [stored EXCEPT ![p] = Answer(p, "refresh").fresh]
        /\ status' = status /\ calm' = calm
    BY <1>7 DEF RefreshGranted
  <2>2. Answer(p, "refresh").fresh # None
    BY <1>0, <2>1, GrantedIsToken, RefreshTokensAssumption DEF Resume
  <2>3. PICK t : t = Answer(p, "refresh").fresh
    OBVIOUS
  <2>4. CallsOK' /\ FreshIsNew' /\ StoredOnce'
    BY <1>0, <2>1, <2>3, ResumeCore
  <2>5. Calm => (status'[p] = "authenticated" <=> t # None)
    BY <2>1, <2>2, <2>3 DEF Calm, CalmPhone, Resume
  <2>6. calm' => Calm'
    BY <1>0, <2>1, <2>3, <2>5, ResumeCalm
  <2> QED
    BY <2>4, <2>6 DEF Kept
<1>8. CASE RefreshRefused(p)
  <2>1. /\ Resume(p, "refresh") /\ Answer(p, "refresh").step \in {"rejected", "error"}
        /\ stored' = [stored EXCEPT ![p] = None] /\ calm' = calm
    BY <1>8 DEF RefreshRefused, ForceLogout
  <2>2. CallsOK' /\ FreshIsNew' /\ StoredOnce'
    BY <1>0, <2>1, ResumeCore
  <2>3. ~Calm
    BY <2>1, CalmIsNotRefused DEF Resume
  <2> QED
    BY <1>0, <2>1, <2>2, <2>3 DEF Kept
<1>9. CASE StartLogout(p)
  <2>1. /\ ~Awaits(p, "logout") /\ stored[p] # None /\ Send(p, "logout", stored[p])
        /\ calm' = (calm /\ ~Awaits(p, "refresh")) /\ UNCHANGED <<stored, status>>
    BY <1>9 DEF StartLogout
  <2> QED
    BY <1>0, <2>1, SendSession DEF Kept
<1>10. CASE LogoutAnswered(p)
  <2>1. /\ Resume(p, "logout") /\ calm' = calm
        /\ stored' = [stored EXCEPT ![p] = None]
        /\ status' = [status EXCEPT ![p] = "unauthenticated"]
    BY <1>10 DEF LogoutAnswered, ForceLogout
  <2>2. CallsOK' /\ FreshIsNew' /\ StoredOnce'
    BY <1>0, <2>1, ResumeCore
  <2>3. /\ status'[p] = "authenticated" <=> None # None
        /\ \A q \in Phone : q # p => status'[q] = status[q]
    BY <1>0, <2>1
  <2>4. calm' => Calm'
    BY <1>0, <2>1, <2>3, ResumeCalm
  <2> QED
    BY <2>2, <2>4 DEF Kept
<1>11. ASSUME NEW kind \in Kind, AnswerLost(p, kind) PROVE Kept
  <2>1. /\ Awaits(p, kind) /\ call' = [call EXCEPT ![p][kind] = None]
        /\ calm' = (calm /\ kind # "refresh") /\ UNCHANGED vars
        /\ IF kind = "logout"
           THEN /\ stored' = [stored EXCEPT ![p] = None]
                /\ status' = [status EXCEPT ![p] = "unauthenticated"]
           ELSE UNCHANGED <<stored, status>>
    BY <1>11 DEF AnswerLost, ForceLogout
  <2>2. /\ \A q \in Phone : q # p =>
             call'[q] = call[q] /\ stored'[q] = stored[q] /\ status'[q] = status[q]
        /\ \A k \in Kind : call'[p][k] = IF k = kind THEN None ELSE call[p][k]
        /\ stored'[p] = IF kind = "logout" THEN None ELSE stored[p]
        /\ status'[p] = IF kind = "logout" THEN "unauthenticated" ELSE status[p]
    BY <1>0, <2>1
  <2>3. CallsOK' /\ FreshIsNew' /\ StoredOnce'
    BY <2>1, <2>2, LocalSession
  <2>4. ASSUME calm' PROVE Calm'
    <3>1. Calm /\ kind # "refresh" /\ CalmPhone(p)
      BY <1>0, <1>1, <2>1, <2>4
    <3>2. status'[p] = "authenticated" <=> stored'[p] # None
      BY <2>2, <3>1 DEF CalmPhone
    <3>3. kind = "logout" => call[p]["refresh"] = None
      BY <2>1, <3>1 DEF CalmPhone, Awaits
    <3> QED
      BY <1>0, <2>1, <2>2, <3>1, <3>2, <3>3, LocalSession
  <2> QED
    BY <2>3, <2>4 DEF Kept
<1>12. CASE Restart(p)
  <2>1. /\ call' = [call EXCEPT ![p] = NoCalls] /\ UNCHANGED <<vars, stored>>
        /\ status' = [status EXCEPT ![p] = IF stored[p] # None THEN "authenticated"
                                           ELSE "unauthenticated"]
        /\ calm' = (calm /\ ~Awaits(p, "refresh") /\ ~Awaits(p, "logout"))
    BY <1>12 DEF Restart
  <2>2. /\ \A q \in Phone : q # p =>
             call'[q] = call[q] /\ stored'[q] = stored[q] /\ status'[q] = status[q]
        /\ \A k \in Kind : call'[p][k] = None
        /\ status'[p] = "authenticated" <=> stored'[p] # None
    BY <1>0, <2>1 DEF NoCalls
  <2>3. CallsOK' /\ FreshIsNew' /\ StoredOnce'
    BY <2>1, <2>2, LocalSession
  <2>4. ASSUME calm' PROVE Calm'
    BY <1>0, <2>1, <2>2, <2>4, LocalSession DEF Awaits
  <2> QED
    BY <2>3, <2>4 DEF Kept
<1> QED
  BY <1>2, <1>3, <1>4, <1>5, <1>6, <1>7, <1>8, <1>9, <1>10, <1>11, <1>12 DEF PhoneStep

(***************************************************************************)
(* Everything above holds in every state the phones and the backend reach. *)
(***************************************************************************)
LEMMA SessionInvariance == MobileSpec => []SessionInv
<1>1. MobileInit => SessionInv
  <2> SUFFICES ASSUME MobileInit PROVE SessionInv
    OBVIOUS
  <2>1. MobileInv
    BY InitInv DEF MobileInit, MobileInv, StorageOK, NoCalls
  <2>2. MobileTypeOK
    BY <2>1 DEF MobileInit, MobileTypeOK, MobileInv, IInv, NoCalls
  <2>3. \A r \in Request : request[r] = Idle
    BY DEF MobileInit, Init
  <2>4. \A p \in Phone : stored[p] = None /\ status[p] = "unauthenticated"
                         /\ \A k \in Kind : call[p][k] = None
    BY DEF MobileInit, NoCalls
  <2>5. CallsOK /\ FreshIsNew /\ StoredOnce
    BY <2>3, <2>4 DEF CallsOK, FreshIsNew, StoredOnce, Awaits, Idle
  <2>6. Calm
    BY <2>3, <2>4 DEF Calm, CalmRequest, CalmPhone, Awaits, Idle, Kind, MobileInit, Init
  <2> QED
    BY <2>1, <2>2, <2>5, <2>6 DEF SessionInv
<1>2. SessionInv /\ [MobileNext]_mobileVars => SessionInv'
  <2> SUFFICES ASSUME SessionInv, [MobileNext]_mobileVars PROVE SessionInv'
    OBVIOUS
  <2>1. MobileInv'
    BY NextMobile DEF SessionInv
  <2>2. MobileTypeOK'
    BY <2>1, NextMobileType
  <2>3. Kept
    <3>1. ASSUME UNCHANGED mobileVars PROVE Kept
      BY <3>1 DEF mobileVars, vars, Kept, SessionInv, CallsOK, FreshIsNew, StoredOnce, Calm,
                  CalmRequest, CalmPhone, Awaits, Answer
    <3> QED
      BY <3>1, BackendKeeps, PhoneKeeps DEF MobileNext
  <2> QED
    BY <2>1, <2>2, <2>3 DEF SessionInv, Kept
<1> QED
  BY <1>1, <1>2, PTL DEF MobileSpec

(***************************************************************************)
(* Type correctness; a phone that shows itself logged in has a token.      *)
(***************************************************************************)
THEOREM MobileTypeCorrect == MobileSpec => []MobileTypeOK
<1>1. SessionInv => MobileTypeOK
  BY DEF SessionInv
<1> QED
  BY <1>1, SessionInvariance, PTL

(***************************************************************************)
(* One refresh at a time keeps every session alive: unless a refresh fails *)
(* or is lost, or somebody logs out in the middle of one, no phone is told *)
(* that its session has expired, for any number of phones, of concurrent   *)
(* requests and of tokens.                                                 *)
(***************************************************************************)
THEOREM SessionsKept == MobileSpec => []SingleFlightKeepsSession
<1>1. SessionInv => SingleFlightKeepsSession
  <2> SUFFICES ASSUME SessionInv, calm, NEW p \in Phone
               PROVE  /\ Awaits(p, "refresh") => Answer(p, "refresh").step # "rejected"
                      /\ status[p] = "authenticated" /\ call[p] = NoCalls =>
                           stored[p] # None /\ row[stored[p]] = "live"
    BY DEF SingleFlightKeepsSession
  <2>1. Calm /\ CalmPhone(p) /\ {"refresh", "logout"} \subseteq Kind
    BY DEF SessionInv, Calm, Kind
  <2>2. Awaits(p, "refresh") => Answer(p, "refresh").step # "rejected"
    BY <2>1, CalmIsNotRefused
  <2>3. call[p] = NoCalls => ~Awaits(p, "refresh") /\ ~Awaits(p, "logout")
    BY <2>1 DEF NoCalls, Awaits
  <2> QED
    BY <2>1, <2>2, <2>3 DEF CalmPhone
<1> QED
  BY <1>1, SessionInvariance, PTL

-----------------------------------------------------------------------------
(***************************************************************************)
(* The check-ins of one phone.                                             *)
(***************************************************************************)
(***************************************************************************)
(* What holds of an attempt: the key it has, or has sent, has been on      *)
(* disk, or is about to be written there.                                  *)
(***************************************************************************)
AttemptOK(a) ==
  /\ wire[a] # Null => wire[a] \in saved
  /\ attempt[a].key # Null => attempt[a].pc = "saving" \/ attempt[a].key \in saved
  /\ attempt[a].pc = "saving" => attempt[a].kind = "tap" /\ attempt[a].key \in Key
  /\ Pending(a) => attempt[a].key # Null

(***************************************************************************)
(* Without overlap one attempt at most is at work, and a tap has the app   *)
(* to itself.  An attempt that has read the slot, or submits what was in   *)
(* it, has the one key nobody was told the outcome of; when a new key is   *)
(* about to be written there is none.                                      *)
(***************************************************************************)
Unanswered == saved \ learned

Undisturbed ==
  /\ \A a, b \in Attempt : AtWork(a) /\ AtWork(b) => a = b
  /\ \A a, b \in Attempt : AtWork(a) /\ attempt[a].kind = "tap" => ~Pending(b)
  /\ \A a \in Attempt :
       /\ attempt[a].pc \in {"read", "paused", "sent", "answered"} =>
            Unanswered \subseteq {attempt[a].key}
       /\ attempt[a].pc = "saving" => Unanswered = {}

CheckinInv ==
  /\ CheckinTypeOK
  /\ slot # Null => slot \in saved
  /\ \A a \in Attempt : AttemptOK(a)
  /\ ~overlap => Undisturbed
  /\ UnansweredIsKept
  /\ OneSubmissionAtATime

-----------------------------------------------------------------------------
LEMMA CheckinNull == Null \notin Key /\ Null \notin Session /\ Null \notin Attempt
BY TimetableAssumption

(***************************************************************************)
(* A step that moves one attempt keeps the invariant, if it leaves that    *)
(* attempt in order, and does not touch what is remembered of the keys.    *)
(***************************************************************************)
LEMMA MoveInv ==
  ASSUME CheckinInv, NEW a \in Attempt, CheckinTypeOK',
         NEW c \in Coroutine, attempt' = [attempt EXCEPT ![a] = c],
         \A b \in Attempt : wire'[b] # Null => wire'[b] \in saved,
         c.key # Null => c.pc = "saving" \/ c.key \in saved,
         c.pc = "saving" => c.kind = "tap" /\ c.key \in Key,
         Pending(a)' => c.key # Null,
         AtWork(a)' => AtWork(a) /\ c.kind = attempt[a].kind,
         c.pc = "read" => c.key = slot,
         c.pc = "saving" => attempt[a].pc = "read" /\ attempt[a].key = Null,
         Pending(a)' => \/ Pending(a) \/ overlap
                        \/ attempt[a].pc = "read" /\ \A b \in Attempt : ~Pending(b),
         c.pc \in {"paused", "sent", "answered"} =>
           /\ c.key = attempt[a].key
           /\ attempt[a].pc \in {"read", "paused", "sent", "answered"},
         UNCHANGED <<slot, saved, learned, overlap>>
  PROVE  CheckinInv'
<1>1. attempt'[a] = c /\ \A b \in Attempt : b # a => attempt'[b] = attempt[b]
  BY DEF CheckinInv, CheckinTypeOK
<1>2. \A b \in Attempt : AttemptOK(b)'
  BY <1>1 DEF CheckinInv, AttemptOK, Pending
<1>3. \A b \in Attempt : b # a =>
        (AtWork(b)' <=> AtWork(b)) /\ (Pending(b)' <=> Pending(b))
  BY <1>1 DEF AtWork, Pending
<1>4. ASSUME ~overlap PROVE Undisturbed'
  <2>0. Undisturbed /\ OneSubmissionAtATime /\ UnansweredIsKept
    BY <1>4 DEF CheckinInv
  <2>1. \A b, d \in Attempt : AtWork(b)' /\ AtWork(d)' => b = d
    BY <1>3, <2>0 DEF Undisturbed
  <2>2. \A b, d \in Attempt : AtWork(b)' /\ attempt'[b].kind = "tap" => ~Pending(d)'
    BY <1>1, <1>3, <1>4, <2>0 DEF Undisturbed, AtWork, Pending
  <2>3. Unanswered' = Unanswered
    BY DEF Unanswered
  <2>4. ASSUME NEW b \in Attempt, attempt'[b].pc \in {"read", "paused", "sent", "answered"}
        PROVE  Unanswered \subseteq {attempt'[b].key}
    <3>1. CASE b = a /\ attempt'[a].pc = "read"
      BY <2>0, <1>1, <1>4, <3>1 DEF UnansweredIsKept, Unanswered
    <3>2. CASE b = a /\ attempt'[a].pc # "read"
      BY <2>0, <1>1, <2>4, <3>2 DEF Undisturbed
    <3>3. CASE b # a
      BY <1>1, <2>0, <2>4, <3>3 DEF Undisturbed
    <3> QED  BY <3>1, <3>2, <3>3
  <2>5. ASSUME NEW b \in Attempt, attempt'[b].pc = "saving" PROVE Unanswered = {}
    BY <1>1, <2>0, <2>5, CheckinNull DEF Undisturbed, AtWork, CheckinInv, CheckinTypeOK, Unanswered
  <2> QED  BY <2>1, <2>2, <2>3, <2>4, <2>5 DEF Undisturbed
<1>5. UnansweredIsKept'
  BY DEF CheckinInv, UnansweredIsKept
<1>6. OneSubmissionAtATime'
  BY <1>3, <1>4 DEF CheckinInv, OneSubmissionAtATime, Undisturbed, AtWork, Pending
<1> QED  BY <1>2, <1>4, <1>5, <1>6 DEF CheckinInv

\* Only a running app has coroutines.
LEMMA AttemptType ==
  ASSUME CheckinInv, NEW a \in Attempt
  PROVE  /\ attempt[a] \in Coroutine /\ Resting \in Coroutine
         /\ attempt[a].pc # "idle" => running
         /\ \A c \in Coroutine : [attempt EXCEPT ![a] = c] \in [Attempt -> Coroutine]
BY DEF CheckinInv, CheckinTypeOK, Resting, Coroutine

LEMMA ReadSlotInv ==
  ASSUME CheckinInv, NEW a \in Attempt, ReadSlot(a)
  PROVE  CheckinInv'
<1> DEFINE c == [attempt[a] EXCEPT !.pc = "read", !.key = slot]
<1>1. attempt' = [attempt EXCEPT ![a] = c]
  BY AttemptType DEF ReadSlot
<1>2. c \in Coroutine /\ c.pc = "read" /\ c.key = slot /\ c.kind = attempt[a].kind
  <2>1. attempt[a] \in Coroutine /\ slot \in Key \cup {Null}
    BY AttemptType DEF CheckinInv, CheckinTypeOK
  <2> QED  BY <2>1 DEF Coroutine
<1> HIDE DEF c
<1>3. /\ attempt[a].pc = "reading" /\ wire' = wire /\ UNCHANGED <<slot, saved, learned, overlap>>
      /\ slot # Null => slot \in saved
      /\ \A b \in Attempt : wire[b] # Null => wire[b] \in saved
  BY DEF ReadSlot, history, CheckinInv, AttemptOK
<1>4. CheckinTypeOK'
  <2>1. attempt' \in [Attempt -> Coroutine]
    BY <1>1, <1>2, AttemptType
  <2>2. running /\ UNCHANGED <<faults, now, recorded, wire, running, online, slot, mine, ui,
                                saved, learned, overlap>>
    BY <1>3, AttemptType DEF ReadSlot, server, history
  <2> HIDE DEF ReadSlot
  <2> QED  BY <2>1, <2>2 DEF CheckinInv, CheckinTypeOK
<1>5. AtWork(a) /\ ~Pending(a)'
  <2>1. attempt'[a] = c
    BY <1>1 DEF CheckinInv, CheckinTypeOK
  <2> QED  BY <1>2, <1>3, <2>1 DEF AtWork, Pending
<1> QED  BY <1>1, <1>2, <1>3, <1>4, <1>5, MoveInv

\* A mutation begins when no other is pending.
LEMMA MutateInv ==
  ASSUME CheckinInv, NEW a \in Attempt,
         attempt[a].pc = "read", attempt[a].key # Null,
         overlap \/ \A b \in Attempt : ~Pending(b),
         Mutate(a, attempt[a].key), ui' = "queued",
         UNCHANGED <<faults, server, running, online, slot, history>>
  PROVE  CheckinInv'
<1> DEFINE c == [attempt[a] EXCEPT !.pc = IF online THEN "sent" ELSE "paused",
                              !.key = attempt[a].key]
<1>1. attempt' = [attempt EXCEPT ![a] = c]
  BY AttemptType DEF Mutate, Coroutine
<1>2. c \in Coroutine /\ c.pc \in {"sent", "paused"} /\ c.key = attempt[a].key
  BY AttemptType DEF Coroutine
<1> HIDE DEF c
<1>3. attempt[a].key \in saved /\ attempt[a].key \in Key
  BY AttemptType DEF CheckinInv, AttemptOK, Coroutine
<1>4. /\ wire' \in [Attempt -> Key \cup {Null}]
      /\ \A b \in Attempt : wire'[b] # Null => wire'[b] \in saved
  BY <1>3 DEF Mutate, CheckinInv, CheckinTypeOK, AttemptOK
<1>5. attempt' \in [Attempt -> Coroutine] /\ running
  BY <1>1, <1>2, AttemptType
<1>6. CheckinTypeOK'
  BY <1>4, <1>5 DEF Mutate, server, history, CheckinInv, CheckinTypeOK
<1>7. attempt'[a] = c
  BY <1>1 DEF CheckinInv, CheckinTypeOK
<1>8. ~AtWork(a)' /\ c.pc # "read" /\ c.pc # "saving"
  BY <1>2, <1>7 DEF AtWork
<1> QED
  BY <1>1, <1>2, <1>3, <1>4, <1>6, <1>8, MoveInv DEF history

LEMMA ResubmitSavedInv ==
  ASSUME CheckinInv, NEW a \in Attempt, ResubmitSaved(a)
  PROVE  CheckinInv'
<1>1. overlap \/ \A b \in Attempt : ~Pending(b)
  BY DEF ResubmitSaved, Continues, CheckinInv, Undisturbed, AtWork
<1> QED  BY <1>1, MutateInv DEF ResubmitSaved, Continues

\* An attempt that ends leaves the others alone.
LEMMA EndInv ==
  ASSUME CheckinInv, NEW a \in Attempt,
         attempt' = [attempt EXCEPT ![a] = Resting], CheckinTypeOK',
         \A b \in Attempt : wire'[b] # Null => wire'[b] \in saved,
         UNCHANGED <<slot, saved, learned, overlap>>
  PROVE  CheckinInv'
<1>1. attempt'[a] = Resting
  BY DEF CheckinInv, CheckinTypeOK
<1> QED  BY <1>1, AttemptType, MoveInv DEF Resting, AtWork, Pending

LEMMA RetryPendingInv ==
  ASSUME CheckinInv, NEW a \in Attempt, RetryPending(a)
  PROVE  CheckinInv'
<1>1. CASE MayRetry(a)
  BY <1>1, MutateInv DEF RetryPending, Continues, MayRetry, IsMutating
<1>2. CASE ~MayRetry(a)
  <2>1. attempt' = [attempt EXCEPT ![a] = Resting] /\ running
    BY <1>2, AttemptType DEF RetryPending, Continues
  <2>2. CheckinTypeOK'
    BY <1>2, <2>1, AttemptType DEF RetryPending, server, history, CheckinInv, CheckinTypeOK
  <2> QED
    BY <1>2, <2>1, <2>2, EndInv DEF RetryPending, history, CheckinInv, AttemptOK
<1> QED  BY <1>1, <1>2

LEMMA MintKeyInv ==
  ASSUME CheckinInv, NEW a \in Attempt, MintKey(a)
  PROVE  CheckinInv'
<1>0. PICK k \in Key \ saved : attempt' = [attempt EXCEPT ![a].pc = "saving", ![a].key = k]
  BY DEF MintKey
<1> DEFINE c == [attempt[a] EXCEPT !.pc = "saving", !.key = k]
<1>1. attempt' = [attempt EXCEPT ![a] = c]
  BY <1>0, AttemptType DEF Coroutine
<1>2. c \in Coroutine /\ c.pc = "saving" /\ c.key = k /\ c.kind = attempt[a].kind
  BY AttemptType DEF Coroutine
<1> HIDE DEF c
<1>3. CheckinTypeOK'
  BY <1>1, <1>2, AttemptType DEF MintKey, Continues, server, history, CheckinInv, CheckinTypeOK
<1> QED
  BY <1>1, <1>2, <1>3, MoveInv
     DEF MintKey, Continues, server, history, CheckinInv, CheckinTypeOK, AttemptOK, AtWork, Pending

LEMMA ResumePausedInv ==
  ASSUME CheckinInv, NEW a \in Attempt, ResumePaused(a)
  PROVE  CheckinInv'
<1> DEFINE c == [attempt[a] EXCEPT !.pc = "sent"]
<1>1. attempt' = [attempt EXCEPT ![a] = c]
  BY AttemptType DEF ResumePaused, Coroutine
<1>2. c \in Coroutine /\ c.pc = "sent" /\ c.key = attempt[a].key
  BY AttemptType DEF ResumePaused, Coroutine, Resting
<1> HIDE DEF c
<1>3. /\ wire' \in [Attempt -> Key \cup {Null}]
      /\ \A b \in Attempt : wire'[b] # Null => wire'[b] \in saved
  BY AttemptType DEF ResumePaused, CheckinInv, CheckinTypeOK, AttemptOK, Pending, Coroutine
<1>4. CheckinTypeOK'
  BY <1>1, <1>2, <1>3, AttemptType DEF ResumePaused, server, history, CheckinInv, CheckinTypeOK
<1> QED
  BY <1>1, <1>2, <1>3, <1>4, MoveInv DEF ResumePaused, server, history, CheckinInv, CheckinTypeOK, AttemptOK, AtWork, Pending

LEMMA ShowAnswerInv ==
  ASSUME CheckinInv, NEW a \in Attempt, ShowAnswer(a)
  PROVE  CheckinInv'
<1>1. CASE attempt[a].answer = "refused"
  <2>1. CheckinTypeOK'
    BY <1>1, AttemptType DEF ShowAnswer, server, history, CheckinInv, CheckinTypeOK
  <2> QED  BY <1>1, <2>1, EndInv DEF ShowAnswer, history, CheckinInv, AttemptOK
<1>2. CASE attempt[a].answer # "refused"
  <2> DEFINE c == [attempt[a] EXCEPT !.pc = "refetching"]
  <2>1. attempt' = [attempt EXCEPT ![a] = c]
    BY <1>2, AttemptType DEF ShowAnswer, Coroutine
  <2>2. c \in Coroutine /\ c.pc = "refetching" /\ c.key = attempt[a].key
    BY AttemptType DEF Coroutine
  <2> HIDE DEF c
  <2>3. CheckinTypeOK'
    BY <1>2, <2>1, <2>2, AttemptType DEF ShowAnswer, server, history, CheckinInv, CheckinTypeOK
  <2> QED
    BY <2>1, <2>2, <2>3, MoveInv
       DEF ShowAnswer, server, history, CheckinInv, CheckinTypeOK, AttemptOK, AtWork, Pending
<1> QED  BY <1>1, <1>2

LEMMA RefetchedInv ==
  ASSUME CheckinInv, NEW a \in Attempt, Refetched(a)
  PROVE  CheckinInv'
<1>1. CheckinTypeOK'
  BY AttemptType DEF Refetched, server, history, CheckinInv, CheckinTypeOK
<1> QED  BY <1>1, EndInv DEF Refetched, history, CheckinInv, AttemptOK

LEMMA NetworkErrorInv ==
  ASSUME CheckinInv, NEW a \in Attempt, NetworkError(a)
  PROVE  CheckinInv'
<1>1. CheckinTypeOK' /\ attempt' = [attempt EXCEPT ![a] = Resting]
  BY AttemptType, TimetableAssumption
     DEF NetworkError, Unreached, Fault, server, history, CheckinInv, CheckinTypeOK
<1>2. \A b \in Attempt : wire'[b] # Null => wire'[b] \in saved
  BY DEF NetworkError, CheckinInv, CheckinTypeOK, AttemptOK
<1> QED  BY <1>1, <1>2, EndInv DEF NetworkError, history

\* The backend takes a request off the wire and may answer its attempt.
LEMMA ReplyInv ==
  ASSUME CheckinInv, NEW a \in Attempt, NEW answer \in {"created", "known", "refused"},
         wire' = [wire EXCEPT ![a] = Null], Reply(a, answer),
         recorded' \in [Key -> Session \cup {Null}],
         UNCHANGED <<faults, now, running, online, slot, mine, ui, history>>
  PROVE  CheckinInv'
<1> DEFINE c == IF attempt[a].pc = "sent"
                THEN [attempt[a] EXCEPT !.pc = "answered", !.answer = answer] ELSE attempt[a]
<1>1. attempt' = [attempt EXCEPT ![a] = c]
  BY AttemptType DEF Reply, Coroutine, CheckinInv, CheckinTypeOK
<1>2. /\ c \in Coroutine /\ c.key = attempt[a].key /\ c.kind = attempt[a].kind
      /\ c.pc # attempt[a].pc => attempt[a].pc = "sent" /\ c.pc = "answered"
      /\ c.pc = "idle" => c = attempt[a]
  BY AttemptType DEF Coroutine
<1> HIDE DEF c
<1>3. attempt'[a] = c /\ \A b \in Attempt : b # a => attempt'[b] = attempt[b]
  BY <1>1 DEF CheckinInv, CheckinTypeOK
<1>4. CheckinTypeOK'
  BY <1>1, <1>2, <1>3, AttemptType DEF history, CheckinInv, CheckinTypeOK, Resting
<1>5. \A b \in Attempt : AttemptOK(b)'
  BY <1>2, <1>3 DEF history, CheckinInv, CheckinTypeOK, AttemptOK, Pending
<1>6. \A b \in Attempt : (AtWork(b)' <=> AtWork(b)) /\ (Pending(b)' <=> Pending(b))
  BY <1>2, <1>3 DEF AtWork, Pending
<1>7. ~overlap => Undisturbed'
  BY <1>2, <1>3, <1>6 DEF history, CheckinInv, Undisturbed, Unanswered
<1>8. UnansweredIsKept' /\ OneSubmissionAtATime'
  BY <1>6 DEF history, CheckinInv, UnansweredIsKept, OneSubmissionAtATime
<1> QED  BY <1>4, <1>5, <1>7, <1>8 DEF history, CheckinInv

LEMMA RespondInv ==
  ASSUME CheckinInv, NEW a \in Attempt, Respond(a)
  PROVE  CheckinInv'
<1>1. CASE Reject(a)
  BY <1>1, ReplyInv DEF Reject, server, CheckinInv, CheckinTypeOK
<1>2. CASE Submit(a)
  <2>1. recorded' \in [Key -> Session \cup {Null}]
    <3>1. Cardinality(Timetable[now]) = 1 => \E s \in Timetable[now] : TRUE
      BY FS_EmptySet
    <3>2. Timetable[now] \subseteq Session
      BY TimetableAssumption DEF CheckinInv, CheckinTypeOK
    <3>3. Cardinality(Timetable[now]) = 1 => (CHOOSE s \in Timetable[now] : TRUE) \in Session
      BY <3>1, <3>2
    <3> QED  BY <1>2, <3>3 DEF Submit, CheckinInv, CheckinTypeOK
  <2>2. \E answer \in {"created", "known", "refused"} : Reply(a, answer)
    BY <1>2 DEF Submit
  <2> QED  BY <1>2, <2>1, <2>2, ReplyInv DEF Submit
<1> QED  BY <1>1, <1>2 DEF Respond

LEMMA StartInv ==
  ASSUME CheckinInv, NEW a \in Attempt, NEW kind \in {"tap", "retry"}, Start(a, kind)
  PROVE  CheckinInv'
<1> DEFINE c == [Resting EXCEPT !.pc = "reading", !.kind = kind]
<1>1. attempt' = [attempt EXCEPT ![a] = c]
  BY AttemptType DEF Start, Free, Coroutine
<1>2. c \in Coroutine /\ c.pc = "reading" /\ c.kind = kind /\ c.key = Null
  BY DEF Resting, Coroutine
<1> HIDE DEF c
<1>3. /\ attempt'[a] = c /\ \A b \in Attempt : b # a => attempt'[b] = attempt[b]
      /\ attempt' \in [Attempt -> Coroutine] /\ running /\ overlap' \in BOOLEAN
  BY <1>1, <1>2 DEF CheckinInv, CheckinTypeOK, Start, Free
<1>4. CheckinTypeOK'
  BY <1>3 DEF Start, server, CheckinInv, CheckinTypeOK
<1>5. \A b \in Attempt : AttemptOK(b)'
  BY <1>2, <1>3 DEF Start, CheckinInv, AttemptOK, Pending
<1>6. /\ \A b \in Attempt : b # a => (AtWork(b)' <=> AtWork(b)) /\ (Pending(b)' <=> Pending(b))
      /\ AtWork(a)' /\ ~Pending(a)'
  BY <1>2, <1>3 DEF AtWork, Pending
<1>7. ASSUME ~overlap' PROVE ~overlap /\ Undisturbed'
  <2>1. ~overlap /\ \A b \in Attempt : ~AtWork(b) /\ (kind = "tap" => ~Pending(b))
    BY <1>7 DEF Start
  <2> QED  BY <1>2, <1>3, <1>6, <2>1 DEF Start, CheckinInv, Undisturbed, Unanswered, AtWork
<1>8. UnansweredIsKept' /\ OneSubmissionAtATime'
  BY <1>6, <1>7 DEF Start, CheckinInv, UnansweredIsKept, OneSubmissionAtATime
<1> QED  BY <1>4, <1>5, <1>7, <1>8 DEF Start, CheckinInv

LEMMA SaveKeyInv ==
  ASSUME CheckinInv, NEW a \in Attempt, SaveKey(a)
  PROVE  CheckinInv'
<1> DEFINE k == attempt[a].key
<1> DEFINE c == [attempt[a] EXCEPT !.pc = IF online THEN "sent" ELSE "paused", !.key = k]
<1>1. attempt' = [attempt EXCEPT ![a] = c]
  BY AttemptType DEF SaveKey, Mutate, Coroutine
<1>2. c \in Coroutine /\ c.pc \in {"sent", "paused"} /\ c.key = k
  BY AttemptType DEF Coroutine
<1> HIDE DEF c
<1>3. /\ attempt'[a] = c /\ \A b \in Attempt : b # a => attempt'[b] = attempt[b]
      /\ attempt' \in [Attempt -> Coroutine]
  BY <1>1, <1>2 DEF CheckinInv, CheckinTypeOK
<1>4. /\ running /\ k \in Key /\ k # Null /\ attempt[a].kind = "tap"
      /\ slot' = k /\ saved' = saved \cup {k} /\ learned' = learned /\ overlap' = overlap
  BY AttemptType, CheckinNull DEF SaveKey, CheckinInv, AttemptOK
<1>5. /\ wire' \in [Attempt -> Key \cup {Null}]
      /\ \A b \in Attempt : wire'[b] # Null => wire'[b] \in saved'
  BY <1>4 DEF SaveKey, Mutate, CheckinInv, CheckinTypeOK, AttemptOK
<1>6. CheckinTypeOK'
  BY <1>3, <1>4, <1>5 DEF SaveKey, Mutate, server, CheckinInv, CheckinTypeOK
<1>7. \A b \in Attempt : AttemptOK(b)'
  BY <1>2, <1>3, <1>4, <1>5 DEF CheckinInv, AttemptOK, Pending
<1>8. ASSUME ~overlap PROVE Undisturbed' /\ Unanswered' \subseteq {k} /\ \A b \in Attempt : ~Pending(b)
  <2>1. AtWork(a) /\ Undisturbed
    BY <1>8 DEF SaveKey, AtWork, CheckinInv
  <2>2. Unanswered = {} /\ Unanswered' \subseteq {k}
    BY <1>4, <2>1 DEF SaveKey, Undisturbed, Unanswered
  <2>3. \A b \in Attempt : ~Pending(b)
    BY <1>4, <2>1 DEF Undisturbed
  <2>4. \A b \in Attempt : ~AtWork(b)' /\ (Pending(b)' => b = a)
    BY <1>2, <1>3, <2>1, <2>3 DEF Undisturbed, AtWork, Pending
  <2> QED  BY <1>2, <1>3, <2>2, <2>3, <2>4 DEF Undisturbed, AtWork, Pending
<1>9. UnansweredIsKept'
  BY <1>4, <1>8 DEF UnansweredIsKept, Unanswered
<1>10. OneSubmissionAtATime'
  BY <1>3, <1>4, <1>8 DEF OneSubmissionAtATime, Pending
<1> QED  BY <1>4, <1>6, <1>7, <1>8, <1>9, <1>10 DEF CheckinInv

LEMMA TakeAnswerInv ==
  ASSUME CheckinInv, NEW a \in Attempt, TakeAnswer(a)
  PROVE  CheckinInv'
<1> DEFINE k == attempt[a].key
<1> DEFINE c == [attempt[a] EXCEPT !.pc = "clearing"]
<1>1. attempt' = [attempt EXCEPT ![a] = c]
  BY AttemptType DEF TakeAnswer, Coroutine
<1>2. c \in Coroutine /\ c.pc = "clearing" /\ c.key = k
  BY AttemptType DEF Coroutine
<1> HIDE DEF c
<1>3. /\ attempt'[a] = c /\ \A b \in Attempt : b # a => attempt'[b] = attempt[b]
      /\ attempt' \in [Attempt -> Coroutine] /\ attempt[a].pc = "answered"
  BY <1>1, <1>2 DEF CheckinInv, CheckinTypeOK, TakeAnswer
<1>4. /\ running /\ k # Null /\ k \in saved
      /\ slot' = Null /\ saved' = saved /\ learned' = learned \cup {k} /\ overlap' = overlap
  BY <1>3, AttemptType DEF TakeAnswer, CheckinInv, AttemptOK, Pending
<1>5. CheckinTypeOK'
  BY <1>3, <1>4 DEF TakeAnswer, server, CheckinInv, CheckinTypeOK
<1>6. \A b \in Attempt : AttemptOK(b)'
  BY <1>2, <1>3, <1>4 DEF TakeAnswer, CheckinInv, AttemptOK, Pending
<1>7. \A b \in Attempt : (AtWork(b)' <=> AtWork(b)) /\ (Pending(b)' <=> Pending(b))
  BY <1>2, <1>3 DEF AtWork, Pending
<1>8. ASSUME ~overlap PROVE Undisturbed' /\ Unanswered' = {}
  <2>1. Unanswered' = {}
    BY <1>3, <1>4, <1>8 DEF CheckinInv, Undisturbed, Unanswered
  <2> QED  BY <1>2, <1>3, <1>7, <1>8, <2>1 DEF CheckinInv, Undisturbed, AtWork
<1>9. UnansweredIsKept'
  BY <1>4, <1>8 DEF UnansweredIsKept, Unanswered
<1>10. OneSubmissionAtATime'
  BY <1>4, <1>7 DEF CheckinInv, OneSubmissionAtATime
<1> QED  BY <1>4, <1>5, <1>6, <1>8, <1>9, <1>10 DEF CheckinInv

\* The environment: no coroutine moves, unless all are lost.
LEMMA EnvironmentInv ==
  ASSUME CheckinInv,
         \/ \E a \in Attempt : DropOrphan(a)
         \/ Tick \/ GoOffline \/ GoOnline \/ Launch \/ Remount \/ UNCHANGED checkinVars
  PROVE  CheckinInv'
<1> USE DEF server, history
<1>1. /\ wire' \in [Attempt -> Key \cup {Null}]
      /\ \A b \in Attempt : wire'[b] # Null => wire'[b] = wire[b]
      /\ UNCHANGED <<slot, attempt, saved, learned, overlap>>
  BY DEF DropOrphan, Tick, GoOffline, GoOnline, Launch, Remount, checkinVars,
         CheckinInv, CheckinTypeOK
<1>2. now' \in 0..MaxTime /\ faults' \in 0..MaxFaults /\ recorded' = recorded
  BY TimetableAssumption
     DEF DropOrphan, Tick, GoOffline, GoOnline, Fault, Launch, Remount, checkinVars,
         CheckinInv, CheckinTypeOK
<1>3. /\ running' \in BOOLEAN /\ online' \in BOOLEAN
      /\ mine' \in Attempt \cup {Null} /\ ui' \in {"idle", "queued", "success", "error"}
      /\ ~running' => ~running /\ mine' = mine
  BY DEF DropOrphan, Tick, GoOffline, GoOnline, Launch, Remount, checkinVars,
         CheckinInv, CheckinTypeOK
<1>4. CheckinTypeOK'
  BY <1>1, <1>2, <1>3 DEF CheckinInv, CheckinTypeOK
<1>5. \A b \in Attempt : AttemptOK(b)'
  BY <1>1 DEF CheckinInv, AttemptOK, Pending
<1>6. ~overlap' => Undisturbed'
  BY <1>1 DEF CheckinInv, Undisturbed, Unanswered, AtWork, Pending
<1>7. UnansweredIsKept' /\ OneSubmissionAtATime'
  BY <1>1 DEF CheckinInv, UnansweredIsKept, OneSubmissionAtATime, Pending
<1> QED  BY <1>1, <1>4, <1>5, <1>6, <1>7 DEF CheckinInv

LEMMA KillInv ==
  ASSUME CheckinInv, Kill
  PROVE  CheckinInv'
<1> USE DEF Kill, server, history
<1>1. \A a \in Attempt : attempt'[a] = Resting /\ ~AtWork(a)' /\ ~Pending(a)'
  BY DEF AtWork, Pending, Resting
<1>2. CheckinTypeOK'
  <2>1. Resting \in Coroutine
    BY DEF Resting, Coroutine
  <2>2. faults' \in 0..MaxFaults
    BY TimetableAssumption DEF Fault, CheckinInv, CheckinTypeOK
  <2> QED  BY <2>1, <2>2 DEF CheckinInv, CheckinTypeOK
<1>3. \A b \in Attempt : AttemptOK(b)'
  BY <1>1 DEF CheckinInv, AttemptOK, Resting
<1>4. Undisturbed'
  BY <1>1 DEF Undisturbed, Resting
<1>5. UnansweredIsKept' /\ OneSubmissionAtATime'
  BY <1>1 DEF CheckinInv, UnansweredIsKept, OneSubmissionAtATime
<1> QED  BY <1>2, <1>3, <1>4, <1>5 DEF CheckinInv

LEMMA CheckinInvariance == CheckinSpec => []CheckinInv
<1>1. CheckinInit => CheckinInv
  <2> SUFFICES ASSUME CheckinInit PROVE CheckinInv
    OBVIOUS
  <2>1. \A a \in Attempt : attempt[a] = Resting /\ ~AtWork(a) /\ ~Pending(a) /\ wire[a] = Null
    BY DEF CheckinInit, AtWork, Pending, Resting
  <2>2. CheckinTypeOK
    <3>1. Resting \in Coroutine
      BY DEF Resting, Coroutine
    <3>2. now \in 0..MaxTime /\ faults \in 0..MaxFaults
      BY TimetableAssumption DEF CheckinInit
    <3> QED  BY <3>1, <3>2 DEF CheckinInit, CheckinTypeOK
  <2>3. \A a \in Attempt : AttemptOK(a)
    BY <2>1 DEF AttemptOK, Resting
  <2>4. Undisturbed
    BY <2>1 DEF Undisturbed, Resting
  <2>5. UnansweredIsKept /\ OneSubmissionAtATime
    BY <2>1 DEF CheckinInit, UnansweredIsKept, OneSubmissionAtATime
  <2> QED  BY <2>2, <2>3, <2>4, <2>5 DEF CheckinInit, CheckinInv
<1>2. CheckinInv /\ [CheckinNext]_checkinVars => CheckinInv'
  <2> SUFFICES ASSUME CheckinInv, [CheckinNext]_checkinVars PROVE CheckinInv'
    OBVIOUS
  <2>1. ASSUME NEW a \in Attempt, Tap(a) \/ Foreground(a) PROVE CheckinInv'
    BY <2>1, StartInv DEF Tap, Foreground
  <2>2. ASSUME NEW a \in Attempt, Proceed(a) PROVE CheckinInv'
    BY <2>2, ReadSlotInv, ResubmitSavedInv, MintKeyInv, SaveKeyInv, RetryPendingInv,
       ResumePausedInv, TakeAnswerInv, ShowAnswerInv, RefetchedInv DEF Proceed
  <2>3. ASSUME NEW a \in Attempt, Respond(a) \/ NetworkError(a) PROVE CheckinInv'
    BY <2>3, RespondInv, NetworkErrorInv
  <2>4. CASE \/ \E a \in Attempt : DropOrphan(a)
             \/ Tick \/ GoOffline \/ GoOnline \/ Launch \/ Remount \/ UNCHANGED checkinVars
    BY <2>4, EnvironmentInv
  <2>5. CASE Kill
    BY <2>5, KillInv
  <2> QED  BY <2>1, <2>2, <2>3, <2>4, <2>5 DEF CheckinNext
<1> QED  BY <1>1, <1>2, PTL DEF CheckinSpec

(***************************************************************************)
(* Type correctness; an app that does not run has no coroutine.            *)
(***************************************************************************)
THEOREM CheckinTypeCorrect == CheckinSpec => []CheckinTypeOK
BY CheckinInvariance, PTL DEF CheckinInv

(***************************************************************************)
(* However often requests and answers are lost, the app is killed and the  *)
(* user taps again, a check-in nobody has answered is on disk under its    *)
(* key, unless attempts overlapped.                                        *)
(***************************************************************************)
THEOREM CheckinsAreKept == CheckinSpec => []UnansweredIsKept
BY CheckinInvariance, PTL DEF CheckinInv

(***************************************************************************)
(* No retry runs beside a submission, unless attempts overlapped.          *)
(***************************************************************************)
THEOREM SubmissionsApart == CheckinSpec => []OneSubmissionAtATime
BY CheckinInvariance, PTL DEF CheckinInv

(***************************************************************************)
(* Overlap or not, a key is on disk before the backend may receive it, so  *)
(* that no kill leaves a check-in the next start does not know of.         *)
(***************************************************************************)
THEOREM SavedBeforeSent == CheckinSpec => [](\A a \in Attempt : wire[a] # Null => wire[a] \in saved)
<1>1. CheckinInv => \A a \in Attempt : wire[a] # Null => wire[a] \in saved
  BY DEF CheckinInv, AttemptOK
<1> QED  BY <1>1, CheckinInvariance, PTL
=============================================================================
