----------------------- MODULE AttendanceConfigProofs -----------------------
(***************************************************************************)
(* Proofs about the attendance configuration, for any number of            *)
(* administrators, configurations, factors, sessions and saves.            *)
(***************************************************************************)
EXTENDS AttendanceConfig, FiniteSetTheorems, TLAPS

(***************************************************************************)
(* What holds of an administrator's transaction between two statements: a  *)
(* row it has found or updated is committed and of its scope; the row it   *)
(* has inserted is invisible, and no committed row has its scope.          *)
(***************************************************************************)
SaveOK(x) ==
  /\ x.pc \in {"idle", "find"} => x.id = None
  /\ x.pc \in {"idle", "find", "write"} => x.write = "none"
  /\ x.pc \notin {"idle", "find", "write"} => x.id # None
  /\ x.pc # "idle" => x.save # 0
  /\ x.pc \in {"find", "write", "commit config"} \/ x.write # "none" => x.rules # None
  /\ x.id # None /\ x.write # "insert" => Exists(x.id) /\ config[x.id].scope = x.scope
  /\ x.write = "insert" =>
       /\ x.id # None /\ ~Exists(x.id)
       /\ \A i \in ConfigId : Exists(i) => config[i].scope # x.scope

\* Uncommitted inserts are of different rows and of different scopes.
Apart(x, y) ==
  x.write = "insert" => y.id # x.id /\ (y.write = "insert" => y.scope # x.scope)

Rows(i) == {r \in required : r.config = i}

(***************************************************************************)
(* Outside the overlaps one transaction at a time sets the factors of a    *)
(* configuration, and the rows its DELETE saw are those there are.         *)
(***************************************************************************)
FactorsOK ==
  \A i \in ConfigId :
    /\ {r.factor : r \in Rows(i)} = asked[i] \/ i \in overlap
    /\ asked[i] \subseteq {r.factor : r \in Rows(i)}
    /\ i \notin overlap => \A a \in Admin : SetsFactors(a, i) =>
         admin[a].doomed = Rows(i) /\ \A b \in Admin \ {a} : ~SetsFactors(b, i)

Owned == \A a \in Admin : \A r \in admin[a].doomed : r.config = admin[a].id

(***************************************************************************)
(* A session still looking has not passed the most specific configuration  *)
(* there was; one that is saved has only been evaluated by its copy.       *)
(***************************************************************************)
SessionOK(s) ==
  LET x == session[s] IN
  /\ x.pc \in {"none", "resolve"} => x.config = None
  /\ x.pc = "none" => x.scope = 1
  /\ x.pc = "resolve" => x.scope <= x.best
  /\ x.pc = "resolve" /\ x.best < 4 =>
       \E i \in ConfigId : Exists(i) /\ config[i].scope = x.best
  /\ x.config # None =>
       /\ x.scope <= x.best /\ x.scope \in Scope
       /\ Exists(x.config) /\ config[x.config].scope = x.scope
  /\ applied[s] \subseteq (IF x.pc = "saved" THEN {RulesOf(s)} ELSE {})

AdminInv ==
  /\ \A a \in Admin : SaveOK(admin[a])
  /\ \A a \in Admin : \A b \in Admin \ {a} : Apart(admin[a], admin[b])

IInv == TypeOK /\ AdminInv /\ Owned /\ FactorsOK /\ \A s \in Session : SessionOK(s)

SessionType ==
  [pc: {"none", "resolve", "factors", "save", "saved"},
   scope: 1..4, config: ConfigId \cup {None}, rules: Rules \cup {None},
   factors: SUBSET Factor, best: 1..4]

LEMMA IdleType == Idle \in Save
BY ConfigAssumption DEF Idle, Save, Scope

LEMMA NoneIsNothing == None \notin ConfigId /\ None \notin Rules
BY ConfigAssumption

\* What findConfig answers: no committed row of the scope, or one.
LEMMA FindConfigAnswer ==
  ASSUME NEW n
  PROVE  /\ FindConfig(n) = None => \A i \in ConfigId : Exists(i) => config[i].scope # n
         /\ FindConfig(n) # None =>
              /\ FindConfig(n) \in ConfigId /\ Exists(FindConfig(n))
              /\ config[FindConfig(n)].scope = n
BY NoneIsNothing DEF FindConfig

\* The invariant holds before anybody has saved anything.
LEMMA InitInv == Init => IInv
<1> SUFFICES ASSUME Init PROVE IInv
  OBVIOUS
<1>1. TypeOK
  BY IdleType, ConfigAssumption DEF Init, TypeOK, NoRow, NoSession, Scope, Exists
<1>2. \A i \in ConfigId : ~Exists(i)
  BY DEF Init, Exists, NoRow
<1>3. SaveOK(Idle) /\ Apart(Idle, Idle)
  BY DEF SaveOK, Apart, Idle
<1>4. AdminInv
  BY <1>3 DEF Init, AdminInv
<1>5. Owned
  BY DEF Init, Owned, Idle
<1>6. FactorsOK
  BY DEF Init, FactorsOK, Rows, SetsFactors, Idle
<1>7. ASSUME NEW s \in Session PROVE SessionOK(s)
  BY DEF Init, SessionOK, NoSession
<1> QED  BY <1>1, <1>4, <1>5, <1>6, <1>7 DEF IInv

----------------------------------------------------------------------------
(* Steps of an administrator.                                              *)

\* Committed rows stay, and keep their scope.
Grows == \A i \in ConfigId : Exists(i) => Exists(i)' /\ config'[i].scope = config[i].scope

LEMMA SessionsKeep ==
  ASSUME IInv, Grows, UNCHANGED <<session, applied>>
  PROVE  \A s \in Session : SessionOK(s)'
<1> SUFFICES ASSUME NEW s \in Session PROVE SessionOK(s)'
  OBVIOUS
<1>1. session[s].config \in ConfigId \cup {None}
  BY DEF IInv, TypeOK
<1>2. SessionOK(s)
  BY DEF IInv
<1>3. RulesOf(s)' = RulesOf(s)
  BY DEF RulesOf
<1> QED  BY <1>1, <1>2, <1>3, NoneIsNothing DEF SessionOK, Grows

Sets(x, i) == x.pc \in {"deleting", "insert", "commit"} /\ x.id = i

(***************************************************************************)
(* A step that writes no table preserves the invariant if what the         *)
(* transaction becomes agrees with the tables and with the others.         *)
(***************************************************************************)
LEMMA QuietStep ==
  ASSUME IInv, NEW a \in Admin, NEW x \in Save,
         admin' = [admin EXCEPT ![a] = x],
         UNCHANGED <<tables, session, applied, asked>>,
         saves' \in 0..MaxSaves, overlap' \subseteq ConfigId, overlap \subseteq overlap',
         SaveOK(x),
         \A b \in Admin \ {a} : Apart(x, admin[b]) /\ Apart(admin[b], x),
         \A r \in x.doomed : r.config = x.id,
         \A i \in ConfigId : i \notin overlap' /\ Sets(x, i) =>
           x.doomed = Rows(i) /\ \A b \in Admin \ {a} : ~SetsFactors(b, i)
  PROVE  IInv'
<1>1. admin'[a] = x /\ \A b \in Admin \ {a} : admin'[b] = admin[b]
  BY DEF IInv, TypeOK
<1>2. TypeOK'
  BY <1>1 DEF IInv, TypeOK, tables, Exists
<1>3. \A y : SaveOK(y) => SaveOK(y)'
  BY DEF SaveOK, Exists, tables
<1>4. AdminInv'
  BY <1>1, <1>3 DEF IInv, AdminInv, Apart
<1>5. Owned'
  BY <1>1 DEF IInv, Owned
<1>6. FactorsOK'
  <2> SUFFICES ASSUME NEW i \in ConfigId
               PROVE /\ ({r.factor : r \in Rows(i)} = asked[i] \/ i \in overlap)'
                     /\ (asked[i] \subseteq {r.factor : r \in Rows(i)})'
                     /\ i \notin overlap' => \A b \in Admin : SetsFactors(b, i)' =>
                          /\ admin'[b].doomed = Rows(i)'
                          /\ \A c \in Admin \ {b} : ~SetsFactors(c, i)'
    BY DEF FactorsOK
  <2>1. Rows(i)' = Rows(i) /\ asked' = asked
    BY DEF Rows, tables
  <2>2. /\ {r.factor : r \in Rows(i)} = asked[i] \/ i \in overlap
        /\ asked[i] \subseteq {r.factor : r \in Rows(i)}
        /\ i \notin overlap => \A b \in Admin : SetsFactors(b, i) =>
             admin[b].doomed = Rows(i) /\ \A c \in Admin \ {b} : ~SetsFactors(c, i)
    BY DEF IInv, FactorsOK
  <2>3. /\ SetsFactors(a, i)' <=> Sets(x, i)
        /\ \A b \in Admin \ {a} : SetsFactors(b, i)' <=> SetsFactors(b, i)
    BY <1>1 DEF SetsFactors, Sets
  <2> QED  BY <1>1, <2>1, <2>2, <2>3
<1>7. Grows
  BY DEF Grows, Exists, tables
<1> QED  BY <1>2, <1>4, <1>5, <1>6, <1>7, SessionsKeep DEF IInv

\* What the invariant says of one transaction.
LEMMA AboutAdmin ==
  ASSUME IInv, NEW a \in Admin
  PROVE  /\ admin[a] \in Save /\ SaveOK(admin[a])
         /\ \A b \in Admin \ {a} : Apart(admin[a], admin[b]) /\ Apart(admin[b], admin[a])
         /\ \A r \in admin[a].doomed : r.config = admin[a].id
         /\ \A i \in ConfigId : i \notin overlap /\ SetsFactors(a, i) =>
              admin[a].doomed = Rows(i) /\ \A b \in Admin \ {a} : ~SetsFactors(b, i)
BY DEF IInv, TypeOK, AdminInv, Owned, FactorsOK

\* A transaction that has found or inserted nothing is apart from all others.
LEMMA NewcomerApart ==
  ASSUME IInv, NEW a \in Admin, NEW x \in Save, SaveOK(x), x.write = "none"
  PROVE  \A b \in Admin \ {a} : Apart(x, admin[b]) /\ Apart(admin[b], x)
BY DEF IInv, AdminInv, SaveOK, Apart

LEMMA SubmitConfigStep == ASSUME IInv, NEW a \in Admin, SubmitConfig(a) PROVE IInv'
<1>1. PICK scope \in Scope, r \in Rules, via \in {"page", "script"}, fs \in SUBSET Factor :
        Begin(a, [Idle EXCEPT !.pc = "find", !.via = via, !.scope = scope,
                              !.rules = r, !.factors = fs])
  BY DEF SubmitConfig
<1> DEFINE x == [Idle EXCEPT !.pc = "find", !.via = via, !.scope = scope,
                             !.rules = r, !.factors = fs, !.save = saves + 1]
<1>2. saves \in 0..MaxSaves /\ saves < MaxSaves /\ saves' = saves + 1 /\ MaxSaves \in Nat
  BY <1>1, ConfigAssumption DEF Begin, IInv, TypeOK
<1>3. x \in Save
  <2>1. PICK y : y = Idle
    OBVIOUS
  <2>2. PICK n : n = saves + 1
    OBVIOUS
  <2>3. y \in Save /\ n \in 0..MaxSaves
    BY <1>2, <2>1, <2>2, IdleType
  <2> QED  BY <2>1, <2>2, <2>3 DEF Save
<1>4. SaveOK(x) /\ x.write = "none" /\ x.doomed = {} /\ \A i : ~Sets(x, i)
  BY <1>2, NoneIsNothing DEF SaveOK, Idle, Sets
<1>5. admin' = [admin EXCEPT ![a] = x]
  BY <1>1 DEF Begin, Idle
<1>6. UNCHANGED <<tables, session, applied, asked, overlap>>
  BY DEF SubmitConfig, ghosts
<1>7. saves' \in 0..MaxSaves /\ overlap \subseteq ConfigId
  BY <1>2 DEF IInv, TypeOK
<1> HIDE DEF x
<1>8. \A b \in Admin \ {a} : Apart(x, admin[b]) /\ Apart(admin[b], x)
  BY <1>3, <1>4, NewcomerApart
<1> QED  BY <1>3, <1>4, <1>5, <1>6, <1>7, <1>8, QuietStep

LEMMA FindExistingStep == ASSUME IInv, NEW a \in Admin, FindExisting(a) PROVE IInv'
<1>1. PICK y : y = admin[a]
  OBVIOUS
<1>2. y \in Save /\ SaveOK(y) /\ \A r \in y.doomed : r.config = y.id
  BY <1>1, AboutAdmin
<1>3. PICK i : i = FindConfig(y.scope)
  OBVIOUS
<1> DEFINE x == [y EXCEPT !.pc = "write", !.id = i]
<1>4. i \in ConfigId \cup {None} /\ (i # None => Exists(i) /\ config[i].scope = y.scope)
  BY <1>3, FindConfigAnswer
<1>5. x \in Save
  BY <1>2, <1>4 DEF Save
<1>6. y.pc = "find" /\ y.write = "none" /\ y.id = None /\ y.rules # None
  BY <1>1, <1>2 DEF FindExisting, SaveOK
<1>7. SaveOK(x) /\ x.write = "none" /\ \A j : ~Sets(x, j)
  BY <1>2, <1>4, <1>6 DEF SaveOK, Save, Sets
<1>8. x.doomed = {}
  <2>1. y.doomed \subseteq Row
    BY <1>2 DEF Save
  <2>2. \A r \in y.doomed : r.config \in ConfigId
    BY <2>1 DEF Row
  <2> QED  BY <1>2, <1>6, <2>2, NoneIsNothing DEF Save
<1>9. admin' = [admin EXCEPT ![a] = x]
  BY <1>1, <1>2, <1>3 DEF FindExisting, Save, IInv, TypeOK
<1>10. UNCHANGED <<tables, session, applied, asked, overlap, saves>>
  BY DEF FindExisting, ghosts
<1>11. saves \in 0..MaxSaves /\ overlap \subseteq ConfigId
  BY DEF IInv, TypeOK
<1> HIDE DEF x
<1>12. \A b \in Admin \ {a} : Apart(x, admin[b]) /\ Apart(admin[b], x)
  BY <1>5, <1>7, NewcomerApart
<1> QED  BY <1>5, <1>7, <1>8, <1>9, <1>10, <1>11, <1>12, QuietStep

LEMMA RollBackStep == ASSUME IInv, NEW a \in Admin, RollBack(a) PROVE IInv'
<1>1. SaveOK(Idle) /\ Idle.write = "none" /\ Idle.doomed = {} /\ \A i : ~Sets(Idle, i)
  BY DEF SaveOK, Idle, Sets
<1>2. \A b \in Admin \ {a} : Apart(Idle, admin[b]) /\ Apart(admin[b], Idle)
  BY <1>1, IdleType, NewcomerApart
<1>3. saves \in 0..MaxSaves /\ overlap \subseteq ConfigId
  BY DEF IInv, TypeOK
<1>4. admin' = [admin EXCEPT ![a] = Idle] /\ UNCHANGED <<tables, session, applied, asked, overlap, saves>>
  BY DEF RollBack, ghosts
<1> QED  BY <1>1, <1>2, <1>3, <1>4, IdleType, QuietStep

\* The statements of a transaction keep what it knows: only its place changes.
LEMMA UpdateConfigStep == ASSUME IInv, NEW a \in Admin, UpdateConfig(a) PROVE IInv'
<1>1. PICK y : y = admin[a]
  OBVIOUS
<1>2. /\ y \in Save /\ SaveOK(y) /\ \A r \in y.doomed : r.config = y.id
      /\ \A b \in Admin \ {a} : Apart(y, admin[b]) /\ Apart(admin[b], y)
  BY <1>1, AboutAdmin
<1>3. PICK pc : pc = IF y.via = "script" /\ y.factors # {} THEN "delete" ELSE "commit config"
  OBVIOUS
<1> DEFINE x == [y EXCEPT !.id = y.id, !.write = "update", !.pc = pc]
<1>4. x \in Save
  BY <1>2, <1>3 DEF Save
<1>5. y.pc = "write" /\ y.id # None /\ y.write = "none" /\ y.rules # None
  BY <1>1, <1>2 DEF UpdateConfig, SaveOK
<1>6. SaveOK(x) /\ \A i : ~Sets(x, i)
  BY <1>2, <1>3, <1>5 DEF SaveOK, Save, Sets
<1>7. \A b \in Admin \ {a} : Apart(x, admin[b]) /\ Apart(admin[b], x)
  BY <1>2, <1>5 DEF Save, Apart
<1>8. x.doomed = y.doomed /\ x.id = y.id
  BY <1>2 DEF Save
<1>9. admin' = [admin EXCEPT ![a] = x]
  BY <1>1, <1>2, <1>3 DEF UpdateConfig, Written, Save, IInv, TypeOK
<1>10. UNCHANGED <<tables, session, applied, asked, overlap, saves>>
  BY DEF UpdateConfig, ghosts
<1>11. saves \in 0..MaxSaves /\ overlap \subseteq ConfigId
  BY DEF IInv, TypeOK
<1> HIDE DEF x
<1> QED  BY <1>2, <1>4, <1>6, <1>7, <1>8, <1>9, <1>10, <1>11, QuietStep

LEMMA InsertConfigStep == ASSUME IInv, NEW a \in Admin, InsertConfig(a) PROVE IInv'
<1>1. PICK y : y = admin[a]
  OBVIOUS
<1>2. /\ y \in Save /\ SaveOK(y) /\ \A r \in y.doomed : r.config = y.id
      /\ \A b \in Admin \ {a} : Apart(y, admin[b]) /\ Apart(admin[b], y)
  BY <1>1, AboutAdmin
<1>3. PICK pc : pc = IF y.via = "script" /\ y.factors # {} THEN "delete" ELSE "commit config"
  OBVIOUS
<1>4. PICK i \in ConfigId : ~Exists(i) /\ (\A b \in Admin : admin[b].id # i) /\ Written(a, i, "insert")
  BY DEF InsertConfig
<1> DEFINE x == [y EXCEPT !.id = i, !.write = "insert", !.pc = pc]
<1>5. x \in Save
  BY <1>2, <1>3 DEF Save
<1>6. y.pc = "write" /\ y.id = None /\ y.write = "none" /\ y.rules # None
  BY <1>1, <1>2 DEF InsertConfig, SaveOK
<1>7. \A j \in ConfigId : Exists(j) => config[j].scope # y.scope
  BY <1>1, FindConfigAnswer DEF InsertConfig
<1>8. SaveOK(x) /\ \A j : ~Sets(x, j)
  BY <1>2, <1>3, <1>4, <1>6, <1>7, NoneIsNothing DEF SaveOK, Save, Sets
<1>9. \A b \in Admin \ {a} : Apart(x, admin[b]) /\ Apart(admin[b], x)
  <2>1. \A b \in Admin \ {a} : admin[b].write = "insert" => admin[b].scope # y.scope
    BY <1>1 DEF InsertConfig
  <2>2. x.id = i /\ x.scope = y.scope /\ x.write = "insert"
    BY <1>2 DEF Save
  <2> HIDE DEF x
  <2> QED  BY <1>4, <2>1, <2>2 DEF Apart
<1>10. x.doomed = {}
  <2>1. y.doomed \subseteq Row
    BY <1>2 DEF Save
  <2>2. \A r \in y.doomed : r.config \in ConfigId
    BY <2>1 DEF Row
  <2> QED  BY <1>2, <1>6, <2>2, NoneIsNothing DEF Save
<1>11. admin' = [admin EXCEPT ![a] = x]
  BY <1>1, <1>2, <1>3, <1>4 DEF Written, Save, IInv, TypeOK
<1>12. UNCHANGED <<tables, session, applied, asked, overlap, saves>>
  BY DEF InsertConfig, ghosts
<1>13. saves \in 0..MaxSaves /\ overlap \subseteq ConfigId
  BY DEF IInv, TypeOK
<1> HIDE DEF x
<1> QED  BY <1>5, <1>8, <1>9, <1>10, <1>11, <1>12, <1>13, QuietStep

LEMMA SubmitFactorsStep == ASSUME IInv, NEW a \in Admin, SubmitFactors(a) PROVE IInv'
<1>1. PICK i \in ConfigId, fs \in SUBSET Factor :
        Exists(i) /\ Begin(a, [Idle EXCEPT !.pc = "delete", !.scope = config[i].scope,
                                            !.id = i, !.factors = fs])
  BY DEF SubmitFactors
<1> DEFINE x == [Idle EXCEPT !.pc = "delete", !.scope = config[i].scope,
                             !.id = i, !.factors = fs, !.save = saves + 1]
<1>2. saves \in 0..MaxSaves /\ saves < MaxSaves /\ saves' = saves + 1 /\ MaxSaves \in Nat
  BY <1>1, ConfigAssumption DEF Begin, IInv, TypeOK
<1>3. config[i].scope \in Scope
  BY DEF IInv, TypeOK
<1>4. x \in Save
  <2>1. PICK y : y = Idle
    OBVIOUS
  <2>2. PICK n : n = saves + 1
    OBVIOUS
  <2>3. y \in Save /\ n \in 0..MaxSaves
    BY <1>2, <2>1, <2>2, IdleType
  <2> QED  BY <1>3, <2>1, <2>2, <2>3 DEF Save
<1>5. SaveOK(x) /\ x.write = "none" /\ x.doomed = {} /\ \A j : ~Sets(x, j)
  BY <1>1, <1>2, NoneIsNothing DEF SaveOK, Idle, Sets
<1>6. admin' = [admin EXCEPT ![a] = x]
  BY <1>1 DEF Begin, Idle
<1>7. UNCHANGED <<tables, session, applied, asked, overlap>>
  BY DEF SubmitFactors, ghosts
<1>8. saves' \in 0..MaxSaves /\ overlap \subseteq ConfigId
  BY <1>2 DEF IInv, TypeOK
<1> HIDE DEF x
<1>9. \A b \in Admin \ {a} : Apart(x, admin[b]) /\ Apart(admin[b], x)
  BY <1>4, <1>5, NewcomerApart
<1> QED  BY <1>4, <1>5, <1>6, <1>7, <1>8, <1>9, QuietStep

LEMMA SelectRowsStep == ASSUME IInv, NEW a \in Admin, SelectRows(a) PROVE IInv'
<1>1. PICK y : y = admin[a]
  OBVIOUS
<1>2. /\ y \in Save /\ SaveOK(y)
      /\ \A b \in Admin \ {a} : Apart(y, admin[b]) /\ Apart(admin[b], y)
  BY <1>1, AboutAdmin
<1>3. PICK D : D = Rows(y.id)
  OBVIOUS
<1> DEFINE x == [y EXCEPT !.pc = "deleting", !.doomed = D]
<1>4. D \subseteq Row /\ \A r \in D : r.config = y.id
  BY <1>3 DEF Rows, IInv, TypeOK
<1>5. x \in Save
  BY <1>2, <1>4 DEF Save
<1>6. y.pc = "delete"
  BY <1>1 DEF SelectRows
<1>7. /\ x.pc = "deleting" /\ x.id = y.id /\ x.doomed = D /\ x.write = y.write
      /\ x.scope = y.scope /\ x.rules = y.rules /\ x.save = y.save
  BY <1>2 DEF Save
<1>8. admin' = [admin EXCEPT ![a] = x]
  BY <1>1, <1>2, <1>3 DEF SelectRows, Rows, Save, IInv, TypeOK
<1> HIDE DEF x
<1>9. SaveOK(x)
  BY <1>2, <1>6, <1>7 DEF SaveOK
<1>10. \A b \in Admin \ {a} : Apart(x, admin[b]) /\ Apart(admin[b], x)
  BY <1>2, <1>7 DEF Apart
<1>11. UNCHANGED <<tables, session, applied, asked, saves>>
  BY DEF SelectRows
<1>12. overlap' = overlap \cup {i \in {y.id} : \E b \in Admin \ {a} : SetsFactors(b, i)}
  BY <1>1 DEF SelectRows
<1>13. y.id \in ConfigId
  BY <1>2, <1>6 DEF SaveOK, Save
<1>14. saves \in 0..MaxSaves /\ overlap \subseteq ConfigId
  BY DEF IInv, TypeOK
<1>15. \A i \in ConfigId : i \notin overlap' /\ Sets(x, i) =>
         x.doomed = Rows(i) /\ \A b \in Admin \ {a} : ~SetsFactors(b, i)
  BY <1>3, <1>7, <1>12 DEF Sets
<1>16. overlap' \subseteq ConfigId /\ overlap \subseteq overlap'
  BY <1>12, <1>13, <1>14
<1> QED  BY <1>4, <1>5, <1>7, <1>8, <1>9, <1>10, <1>11, <1>14, <1>15, <1>16, QuietStep

LEMMA DeleteRowsStep == ASSUME IInv, NEW a \in Admin, DeleteRows(a) PROVE IInv'
<1>1. PICK y : y = admin[a]
  OBVIOUS
<1>2. /\ y \in Save /\ SaveOK(y) /\ \A r \in y.doomed : r.config = y.id
      /\ \A b \in Admin \ {a} : Apart(y, admin[b]) /\ Apart(admin[b], y)
      /\ \A i \in ConfigId : i \notin overlap /\ SetsFactors(a, i) =>
           y.doomed = Rows(i) /\ \A b \in Admin \ {a} : ~SetsFactors(b, i)
  BY <1>1, AboutAdmin
<1>3. PICK pc : pc = IF y.factors = {} THEN "commit" ELSE "insert"
  OBVIOUS
<1>4. PICK D : D = y.doomed \cap required
  OBVIOUS
<1> DEFINE x == [y EXCEPT !.doomed = D, !.pc = pc]
<1>5. D \subseteq Row /\ D \subseteq y.doomed
  BY <1>4 DEF IInv, TypeOK
<1>6. x \in Save
  BY <1>2, <1>3, <1>5 DEF Save
<1>7. y.pc = "deleting"
  BY <1>1 DEF DeleteRows
<1>8. /\ x.pc = pc /\ x.id = y.id /\ x.doomed = D /\ x.write = y.write
      /\ x.scope = y.scope /\ x.rules = y.rules /\ x.save = y.save
  BY <1>2 DEF Save
<1>9. admin' = [admin EXCEPT ![a] = x]
  BY <1>1, <1>2, <1>3, <1>4 DEF DeleteRows, Save, IInv, TypeOK
<1> HIDE DEF x
<1>10. SaveOK(x)
  BY <1>2, <1>3, <1>7, <1>8 DEF SaveOK
<1>11. \A b \in Admin \ {a} : Apart(x, admin[b]) /\ Apart(admin[b], x)
  BY <1>2, <1>8 DEF Apart
<1>12. UNCHANGED <<tables, session, applied, asked, overlap, saves>>
  BY DEF DeleteRows, ghosts
<1>13. \A i \in ConfigId : i \notin overlap' /\ Sets(x, i) =>
         x.doomed = Rows(i) /\ \A b \in Admin \ {a} : ~SetsFactors(b, i)
  BY <1>1, <1>2, <1>4, <1>7, <1>8, <1>12 DEF Sets, SetsFactors, Rows
<1>14. saves \in 0..MaxSaves /\ overlap \subseteq ConfigId
  BY DEF IInv, TypeOK
<1>15. \A r \in x.doomed : r.config = x.id
  BY <1>2, <1>5, <1>8
<1> QED  BY <1>6, <1>9, <1>10, <1>11, <1>12, <1>13, <1>14, <1>15, QuietStep

LEMMA InsertRowsStep == ASSUME IInv, NEW a \in Admin, InsertRows(a) PROVE IInv'
<1>1. PICK y : y = admin[a]
  OBVIOUS
<1>2. /\ y \in Save /\ SaveOK(y) /\ \A r \in y.doomed : r.config = y.id
      /\ \A b \in Admin \ {a} : Apart(y, admin[b]) /\ Apart(admin[b], y)
      /\ \A i \in ConfigId : i \notin overlap /\ SetsFactors(a, i) =>
           y.doomed = Rows(i) /\ \A b \in Admin \ {a} : ~SetsFactors(b, i)
  BY <1>1, AboutAdmin
<1> DEFINE x == [y EXCEPT !.pc = "commit"]
<1>3. x \in Save
  BY <1>2 DEF Save
<1>4. y.pc = "insert"
  BY <1>1 DEF InsertRows
<1>5. /\ x.pc = "commit" /\ x.id = y.id /\ x.doomed = y.doomed /\ x.write = y.write
      /\ x.scope = y.scope /\ x.rules = y.rules /\ x.save = y.save
  BY <1>2 DEF Save
<1>6. admin' = [admin EXCEPT ![a] = x]
  BY <1>1, <1>2 DEF InsertRows, Save, IInv, TypeOK
<1> HIDE DEF x
<1>7. SaveOK(x)
  BY <1>2, <1>4, <1>5 DEF SaveOK
<1>8. \A b \in Admin \ {a} : Apart(x, admin[b]) /\ Apart(admin[b], x)
  BY <1>2, <1>5 DEF Apart
<1>9. UNCHANGED <<tables, session, applied, asked, overlap, saves>>
  BY DEF InsertRows, ghosts
<1>10. \A i \in ConfigId : i \notin overlap' /\ Sets(x, i) =>
         x.doomed = Rows(i) /\ \A b \in Admin \ {a} : ~SetsFactors(b, i)
  BY <1>1, <1>2, <1>4, <1>5, <1>9 DEF Sets, SetsFactors
<1>11. saves \in 0..MaxSaves /\ overlap \subseteq ConfigId
  BY DEF IInv, TypeOK
<1>12. \A r \in x.doomed : r.config = x.id
  BY <1>2, <1>5
<1> QED  BY <1>3, <1>6, <1>7, <1>8, <1>9, <1>10, <1>11, <1>12, QuietStep

----------------------------------------------------------------------------
(* Commits.                                                                *)

(***************************************************************************)
(* What a commit makes of the configurations: none is lost or changes its  *)
(* scope, a new one is the row inserted, and no scope gets two.            *)
(***************************************************************************)
LEMMA StoredConfig ==
  ASSUME IInv, NEW a \in Admin, admin[a].id # None, config' = Stored(a)
  PROVE  /\ Grows
         /\ config' \in [ConfigId -> [scope: Scope, rules: Rules \cup {None}]]
         /\ \A i \in ConfigId : Exists(i)' /\ ~Exists(i) =>
              /\ admin[a].write = "insert" /\ i = admin[a].id
              /\ config'[i].scope = admin[a].scope
         /\ \A i, j \in ConfigId :
              Exists(i)' /\ Exists(j)' /\ config'[i].scope = config'[j].scope => i = j
<1>1. PICK y : y = admin[a]
  OBVIOUS
<1>2. y \in Save /\ SaveOK(y) /\ y.id # None
  BY <1>1, AboutAdmin
<1>3. y.id \in ConfigId /\ y.scope \in Scope
  BY <1>2 DEF Save
<1>4. /\ config \in [ConfigId -> [scope: Scope, rules: Rules \cup {None}]]
      /\ \A i, j \in ConfigId : Exists(i) /\ Exists(j) /\ config[i].scope = config[j].scope => i = j
  BY DEF IInv, TypeOK
<1>5. CASE y.write = "none"
  <2>1. config' = config
    BY <1>1, <1>5 DEF Stored
  <2> QED  BY <2>1, <1>4 DEF Grows, Exists
<1>6. CASE y.write # "none"
  <2>1. PICK c : c = [scope |-> y.scope, rules |-> y.rules]
    OBVIOUS
  <2>2. y.rules # None /\ y.rules \in Rules
    BY <1>2, <1>6 DEF SaveOK, Save
  <2>3. c \in [scope: Scope, rules: Rules \cup {None}] /\ c.scope = y.scope /\ c.rules # None
    BY <1>3, <2>1, <2>2
  <2>4. config' = [config EXCEPT ![y.id] = c]
    BY <1>1, <1>6, <2>1 DEF Stored
  <2>5. config'[y.id] = c /\ \A i \in ConfigId \ {y.id} : config'[i] = config[i]
    BY <1>3, <1>4, <2>4
  <2>6. config' \in [ConfigId -> [scope: Scope, rules: Rules \cup {None}]]
    BY <1>4, <2>3, <2>4
  <2>7. Exists(y.id)' /\ \A i \in ConfigId \ {y.id} : Exists(i)' <=> Exists(i)
    BY <2>3, <2>5 DEF Exists
  <2>8. y.write # "insert" => Exists(y.id) /\ config[y.id].scope = y.scope
    BY <1>2 DEF SaveOK
  <2>9. y.write = "insert" => ~Exists(y.id) /\ \A i \in ConfigId : Exists(i) => config[i].scope # y.scope
    BY <1>2 DEF SaveOK
  <2>10. \A i \in ConfigId \ {y.id} : Exists(i) => config[i].scope # y.scope
    BY <1>3, <1>4, <2>8, <2>9
  <2>11. Grows
    BY <2>3, <2>5, <2>7, <2>8, <2>9 DEF Grows
  <2>12. \A i \in ConfigId : Exists(i)' /\ ~Exists(i) =>
           y.write = "insert" /\ i = y.id /\ config'[i].scope = y.scope
    BY <2>3, <2>5, <2>7, <2>8
  <2>13. \A i, j \in ConfigId :
           Exists(i)' /\ Exists(j)' /\ config'[i].scope = config'[j].scope => i = j
    BY <1>4, <2>3, <2>5, <2>7, <2>10
  <2> QED  BY <1>1, <2>6, <2>11, <2>12, <2>13
<1> QED  BY <1>5, <1>6

\* A commit leaves the other transactions as the invariant wants them.
LEMMA OthersKeep ==
  ASSUME IInv, NEW a \in Admin, admin[a].id # None, config' = Stored(a),
         admin' = [admin EXCEPT ![a] = Idle]
  PROVE  admin' \in [Admin -> Save] /\ AdminInv' /\ Owned'
<1>1. /\ Grows
      /\ \A i \in ConfigId : Exists(i)' /\ ~Exists(i) =>
           /\ admin[a].write = "insert" /\ i = admin[a].id
           /\ config'[i].scope = admin[a].scope
  BY StoredConfig
<1>2. admin'[a] = Idle /\ \A b \in Admin \ {a} : admin'[b] = admin[b]
  BY DEF IInv, TypeOK
<1>3. admin' \in [Admin -> Save]
  BY IdleType DEF IInv, TypeOK
<1>4. ASSUME NEW b \in Admin \ {a} PROVE SaveOK(admin[b])'
  <2>1. PICK y : y = admin[b]
    OBVIOUS
  <2>2. y \in Save /\ SaveOK(y) /\ Apart(admin[a], y)
    BY <2>1, AboutAdmin
  <2>3. y.id # None => y.id \in ConfigId
    BY <2>2 DEF Save
  <2>4. y.id # None /\ y.write # "insert" => Exists(y.id)' /\ config'[y.id].scope = y.scope
    BY <1>1, <2>2, <2>3 DEF SaveOK, Grows
  <2>5. y.write = "insert" => ~Exists(y.id)'
    BY <1>1, <2>2, <2>3 DEF SaveOK, Apart
  <2>6. y.write = "insert" => \A i \in ConfigId : Exists(i)' => config'[i].scope # y.scope
    BY <1>1, <2>2 DEF SaveOK, Apart, Grows
  <2>7. SaveOK(y)'
    BY <2>2, <2>4, <2>5, <2>6 DEF SaveOK
  <2> QED  BY <1>2, <2>1, <2>7
<1>5. SaveOK(Idle)' /\ Idle.write = "none" /\ Idle.doomed = {}
  BY DEF SaveOK, Idle
<1>6. \A b \in Admin \ {a} : Apart(Idle, admin[b]) /\ Apart(admin[b], Idle)
  <2>1. SaveOK(Idle)
    BY DEF SaveOK, Idle
  <2> QED  BY <1>5, <2>1, IdleType, NewcomerApart
<1>7. AdminInv'
  BY <1>2, <1>4, <1>5, <1>6 DEF AdminInv, IInv, Apart
<1>8. Owned'
  BY <1>2, <1>5 DEF IInv, Owned
<1> QED  BY <1>3, <1>7, <1>8

LEMMA CommitConfigStep == ASSUME IInv, NEW a \in Admin, CommitConfig(a) PROVE IInv'
<1>1. /\ config' = Stored(a) /\ admin' = [admin EXCEPT ![a] = Idle]
      /\ UNCHANGED <<required, session, applied, saves, asked, overlap>>
  BY DEF CommitConfig, ghosts
<1>2. admin[a].id # None
  BY AboutAdmin DEF CommitConfig, SaveOK
<1>3. admin' \in [Admin -> Save] /\ AdminInv' /\ Owned'
  BY <1>1, <1>2, OthersKeep
<1>4. TypeOK'
  BY <1>1, <1>2, <1>3, StoredConfig DEF IInv, TypeOK
<1>5. \A b \in Admin, i \in ConfigId : SetsFactors(b, i)' => SetsFactors(b, i) /\ admin'[b] = admin[b]
  BY <1>1 DEF SetsFactors, Idle, IInv, TypeOK
<1>6. FactorsOK'
  BY <1>1, <1>5 DEF IInv, FactorsOK, Rows
<1>7. \A s \in Session : SessionOK(s)'
  BY <1>1, <1>2, StoredConfig, SessionsKeep
<1> QED  BY <1>3, <1>4, <1>6, <1>7 DEF IInv

LEMMA CommitFactorsStep == ASSUME IInv, NEW a \in Admin, CommitFactors(a) PROVE IInv'
<1>1. PICK y : y = admin[a]
  OBVIOUS
<1>2. /\ y \in Save /\ SaveOK(y) /\ y.pc = "commit" /\ \A r \in y.doomed : r.config = y.id
      /\ \A i \in ConfigId : i \notin overlap /\ SetsFactors(a, i) =>
           y.doomed = Rows(i) /\ \A b \in Admin \ {a} : ~SetsFactors(b, i)
  BY <1>1, AboutAdmin DEF CommitFactors
<1>3. PICK A : A = [config: {y.id}, factor: y.factors, save: {y.save}]
  OBVIOUS
<1>4. /\ config' = Stored(a) /\ admin' = [admin EXCEPT ![a] = Idle]
      /\ required' = (required \ y.doomed) \cup A
      /\ asked' = [asked EXCEPT ![y.id] = y.factors]
      /\ UNCHANGED <<session, applied, saves, overlap>>
  BY <1>1, <1>2, <1>3 DEF CommitFactors, Deleted, Added
<1>5. admin[a].id # None /\ y.id \in ConfigId
  BY <1>1, <1>2 DEF SaveOK, Save
<1>6. admin' \in [Admin -> Save] /\ AdminInv' /\ Owned'
  BY <1>4, <1>5, OthersKeep
<1>7. y.factors \subseteq Factor /\ y.save \in 1..MaxSaves
  <2>1. y.factors \subseteq Factor /\ y.save \in 0..MaxSaves
    BY <1>2 DEF Save
  <2>2. y.save # 0
    BY <1>2 DEF SaveOK
  <2> QED  BY <2>1, <2>2, ConfigAssumption
<1>8. A \subseteq Row /\ asked' \in [ConfigId -> SUBSET Factor]
  BY <1>3, <1>4, <1>5, <1>7 DEF Row, IInv, TypeOK
<1>9. TypeOK'
  BY <1>4, <1>5, <1>6, <1>8, StoredConfig DEF IInv, TypeOK
<1>10. \A r \in A : r.config = y.id /\ r.factor \in y.factors
  BY <1>3
<1>11. \A f \in y.factors : \E r \in A : r.factor = f
  <2> SUFFICES ASSUME NEW f \in y.factors PROVE \E r \in A : r.factor = f
    OBVIOUS
  <2>1. PICK r : r = [config |-> y.id, factor |-> f, save |-> y.save]
    OBVIOUS
  <2> QED  BY <1>3, <2>1
<1>12. \A i \in ConfigId \ {y.id} : Rows(i)' = Rows(i) /\ asked'[i] = asked[i]
  BY <1>2, <1>4, <1>10 DEF Rows, IInv, TypeOK
<1>13. /\ A \subseteq Rows(y.id)' /\ asked'[y.id] = y.factors
       /\ y.id \notin overlap => Rows(y.id)' = A
  <2>1. SetsFactors(a, y.id)
    BY <1>1, <1>2 DEF SetsFactors
  <2>2. asked'[y.id] = y.factors
    BY <1>4, <1>5 DEF IInv, TypeOK
  <2>3. A \subseteq Rows(y.id)'
    BY <1>4, <1>10 DEF Rows
  <2>4. y.id \notin overlap => Rows(y.id)' = A
    BY <1>2, <1>4, <1>5, <1>10, <2>1 DEF Rows
  <2> QED  BY <2>2, <2>3, <2>4
<1>14. \A b \in Admin, i \in ConfigId :
         SetsFactors(b, i)' => b # a /\ SetsFactors(b, i) /\ admin'[b] = admin[b]
  BY <1>4 DEF SetsFactors, Idle, IInv, TypeOK
<1>15. FactorsOK'
  <2> SUFFICES ASSUME NEW i \in ConfigId
               PROVE /\ {r.factor : r \in Rows(i)'} = asked'[i] \/ i \in overlap
                     /\ asked'[i] \subseteq {r.factor : r \in Rows(i)'}
                     /\ i \notin overlap => \A b \in Admin : SetsFactors(b, i)' =>
                          /\ admin'[b].doomed = Rows(i)'
                          /\ \A c \in Admin \ {b} : ~SetsFactors(c, i)'
    BY <1>4 DEF FactorsOK
  <2>1. CASE i = y.id
    <3>1. y.factors \subseteq {r.factor : r \in Rows(i)'}
      BY <1>11, <1>13, <2>1
    <3>2. {r.factor : r \in Rows(i)'} = y.factors \/ i \in overlap
      BY <1>10, <1>13, <2>1, <3>1
    <3>3. i \notin overlap => \A b \in Admin : ~SetsFactors(b, i)'
      BY <1>1, <1>2, <1>14, <2>1 DEF SetsFactors
    <3> QED  BY <1>13, <2>1, <3>1, <3>2, <3>3
  <2>2. CASE i # y.id
    BY <1>12, <1>14, <2>2 DEF IInv, FactorsOK
  <2> QED  BY <2>1, <2>2
<1>16. \A s \in Session : SessionOK(s)'
  BY <1>4, <1>5, StoredConfig, SessionsKeep
<1> QED  BY <1>6, <1>9, <1>15, <1>16 DEF IInv

----------------------------------------------------------------------------
(* Steps of a session.                                                     *)

(***************************************************************************)
(* A step of one session preserves the invariant if what the session       *)
(* becomes, with the rules applied to it, agrees with the tables.          *)
(***************************************************************************)
LEMMA SessionMoves ==
  ASSUME IInv, NEW s \in Session, NEW x \in SessionType,
         session' = [session EXCEPT ![s] = x],
         UNCHANGED <<tables, admin, applied, saves, ghosts>>,
         SessionOK(s)'
  PROVE  IInv'
<1>1. \A t \in Session \ {s} : session'[t] = session[t]
  BY DEF IInv, TypeOK
<1>2. TypeOK'
  BY DEF IInv, TypeOK, SessionType, tables, ghosts, Exists
<1>3. AdminInv' /\ Owned'
  BY DEF IInv, AdminInv, Owned, SaveOK, Apart, Exists, tables
<1>4. FactorsOK'
  BY DEF IInv, FactorsOK, Rows, SetsFactors, tables, ghosts
<1>5. ASSUME NEW t \in Session \ {s} PROVE SessionOK(t)'
  <2>1. SessionOK(t)
    BY DEF IInv
  <2>2. RulesOf(t)' = RulesOf(t)
    BY <1>1 DEF RulesOf
  <2> QED  BY <1>1, <2>1, <2>2 DEF SessionOK, Exists, tables
<1> QED  BY <1>2, <1>3, <1>4, <1>5 DEF IInv

\* What the invariant says of one session.
LEMMA AboutSession ==
  ASSUME IInv, NEW s \in Session
  PROVE  session[s] \in SessionType /\ SessionOK(s)
BY DEF IInv, TypeOK, SessionType

LEMMA CreateSessionStep == ASSUME IInv, NEW s \in Session, CreateSession(s) PROVE IInv'
<1>1. PICK y : y = session[s]
  OBVIOUS
<1> DEFINE First(n) == /\ n < 4 => FindConfig(n) # None
                       /\ \A m \in 1..(n - 1) : FindConfig(m) = None
<1>2. PICK n :
        /\ n = CHOOSE k \in 1..4 : First(k)
        /\ session' = [session EXCEPT ![s].pc = "resolve", ![s].best = n]
  BY DEF CreateSession
<1>3. \E k \in 1..4 : First(k)
  <2>1. CASE FindConfig(1) # None
    BY <2>1
  <2>2. CASE FindConfig(1) = None /\ FindConfig(2) # None
    <3>1. First(2)
      BY <2>2
    <3> QED  BY <3>1
  <2>3. CASE FindConfig(1) = None /\ FindConfig(2) = None /\ FindConfig(3) # None
    <3>1. First(3)
      BY <2>3
    <3> QED  BY <3>1
  <2>4. CASE FindConfig(1) = None /\ FindConfig(2) = None /\ FindConfig(3) = None
    <3>1. First(4)
      BY <2>4
    <3> QED  BY <3>1
  <2> QED  BY <2>1, <2>2, <2>3, <2>4
<1>4. n \in 1..4 /\ (n < 4 => FindConfig(n) # None)
  BY <1>2, <1>3
<1> HIDE DEF First
<1>5. /\ y \in SessionType /\ y.pc = "none" /\ y.config = None /\ y.scope = 1
      /\ applied[s] \subseteq {}
  BY <1>1, AboutSession DEF CreateSession, SessionOK
<1> DEFINE x == [y EXCEPT !.pc = "resolve", !.best = n]
<1>6. x \in SessionType /\ x.pc = "resolve" /\ x.config = None /\ x.scope = 1 /\ x.best = n
  BY <1>4, <1>5 DEF SessionType
<1>7. session' = [session EXCEPT ![s] = x] /\ session'[s] = x
  <2>1. session' = [session EXCEPT ![s].pc = "resolve", ![s].best = n]
    BY <1>2
  <2>2. session' = [session EXCEPT ![s] = x]
    BY <1>1, <1>5, <2>1 DEF IInv, TypeOK, SessionType
  <2> QED  BY <2>2 DEF IInv, TypeOK
<1>8. UNCHANGED <<tables, admin, applied, saves, ghosts>>
  BY DEF CreateSession
<1> HIDE DEF x
<1>9. n < 4 => \E i \in ConfigId : Exists(i) /\ config[i].scope = n
  BY <1>4, FindConfigAnswer
<1>10. SessionOK(s)'
  BY <1>4, <1>5, <1>6, <1>7, <1>8, <1>9 DEF SessionOK, Exists, tables
<1> QED  BY <1>6, <1>7, <1>8, <1>10, SessionMoves

LEMMA ResolveScopeStep == ASSUME IInv, NEW s \in Session, ResolveScope(s) PROVE IInv'
<1>1. PICK y : y = session[s]
  OBVIOUS
<1>2. PICK i : i = FindConfig(y.scope)
  OBVIOUS
<1>3. /\ y \in SessionType /\ y.pc = "resolve" /\ y.config = None /\ y.scope \in Scope
      /\ y.scope <= y.best /\ applied[s] \subseteq {}
      /\ y.best < 4 => \E j \in ConfigId : Exists(j) /\ config[j].scope = y.best
  BY <1>1, AboutSession DEF ResolveScope, SessionOK
<1>4. UNCHANGED <<tables, admin, applied, saves, ghosts>>
  BY DEF ResolveScope
<1>5. CASE i # None
  <2>1. i \in ConfigId /\ Exists(i) /\ config[i].scope = y.scope /\ config[i].rules \in Rules \cup {None}
    BY <1>2, <1>5, FindConfigAnswer DEF IInv, TypeOK
  <2>2. PICK r : r = config[i].rules
    OBVIOUS
  <2> DEFINE x == [y EXCEPT !.pc = "factors", !.config = i, !.rules = r]
  <2>3. /\ x \in SessionType /\ x.pc = "factors" /\ x.config = i /\ x.scope = y.scope
        /\ x.best = y.best
    BY <1>3, <2>1, <2>2 DEF SessionType
  <2>4. session' = [session EXCEPT ![s] = x] /\ session'[s] = x
    BY <1>1, <1>2, <1>3, <1>5, <2>2 DEF ResolveScope, IInv, TypeOK, SessionType
  <2> HIDE DEF x
  <2>5. SessionOK(s)'
    BY <1>3, <1>4, <2>1, <2>3, <2>4, NoneIsNothing DEF SessionOK, Exists, tables
  <2> QED  BY <1>4, <2>3, <2>4, <2>5, SessionMoves
<1>6. CASE i = None
  <2>1. \A j \in ConfigId : Exists(j) => config[j].scope # y.scope
    BY <1>2, <1>6, FindConfigAnswer
  <2>2. PICK n : n = y.scope + 1
    OBVIOUS
  <2>3. n \in 2..4 /\ y.best \in 1..4
    BY <1>3, <2>2 DEF Scope, SessionType
  <2>4. n <= y.best
    BY <1>3, <2>1, <2>2, <2>3 DEF Scope
  <2> DEFINE x == [y EXCEPT !.scope = n]
  <2>5. /\ x \in SessionType /\ x.pc = "resolve" /\ x.config = None /\ x.scope = n
        /\ x.best = y.best
    BY <1>3, <2>3 DEF SessionType
  <2>6. session' = [session EXCEPT ![s] = x] /\ session'[s] = x
    BY <1>1, <1>2, <1>3, <1>6, <2>2 DEF ResolveScope, IInv, TypeOK, SessionType
  <2> HIDE DEF x
  <2>7. SessionOK(s)'
    BY <1>3, <1>4, <2>4, <2>5, <2>6 DEF SessionOK, Exists, tables
  <2> QED  BY <1>4, <2>5, <2>6, <2>7, SessionMoves
<1> QED  BY <1>5, <1>6

LEMMA RejectSessionStep == ASSUME IInv, NEW s \in Session, RejectSession(s) PROVE IInv'
<1>1. NoSession \in SessionType
  BY DEF NoSession, SessionType
<1>2. session' = [session EXCEPT ![s] = NoSession] /\ session'[s] = NoSession
  BY DEF RejectSession, IInv, TypeOK
<1>3. UNCHANGED <<tables, admin, applied, saves, ghosts>>
  BY DEF RejectSession
<1>4. applied[s] \subseteq {}
  BY AboutSession DEF RejectSession, SessionOK
<1>5. SessionOK(s)'
  BY <1>2, <1>3, <1>4 DEF SessionOK, NoSession
<1> QED  BY <1>1, <1>2, <1>3, <1>5, SessionMoves

LEMMA ReadFactorsStep == ASSUME IInv, NEW s \in Session, ReadFactors(s) PROVE IInv'
<1>1. PICK y : y = session[s]
  OBVIOUS
<1>2. PICK F : F = {r.factor : r \in {q \in required : q.config = y.config}}
  OBVIOUS
<1>3. y \in SessionType /\ y.pc = "factors" /\ SessionOK(s)
  BY <1>1, AboutSession DEF ReadFactors
<1>4. F \subseteq Factor
  BY <1>2 DEF IInv, TypeOK, Row
<1> DEFINE x == [y EXCEPT !.pc = "save", !.factors = F]
<1>5. /\ x \in SessionType /\ x.pc = "save" /\ x.config = y.config /\ x.scope = y.scope
      /\ x.best = y.best
  BY <1>3, <1>4 DEF SessionType
<1>6. session' = [session EXCEPT ![s] = x] /\ session'[s] = x
  BY <1>1, <1>2, <1>3 DEF ReadFactors, IInv, TypeOK, SessionType
<1>7. UNCHANGED <<tables, admin, applied, saves, ghosts>>
  BY DEF ReadFactors
<1> HIDE DEF x
<1>8. SessionOK(s)'
  BY <1>1, <1>3, <1>5, <1>6, <1>7 DEF SessionOK, Exists, tables
<1> QED  BY <1>5, <1>6, <1>7, <1>8, SessionMoves

LEMMA SaveSessionStep == ASSUME IInv, NEW s \in Session, SaveSession(s) PROVE IInv'
<1>1. PICK y : y = session[s]
  OBVIOUS
<1>2. y \in SessionType /\ y.pc = "save" /\ applied[s] \subseteq {}
  BY <1>1, AboutSession DEF SaveSession, SessionOK
<1> DEFINE x == [NoSession EXCEPT !.pc = "saved", !.rules = y.rules, !.factors = y.factors]
<1>3. x \in SessionType /\ x.pc = "saved" /\ x.config = None
  <2>1. PICK z : z = NoSession
    OBVIOUS
  <2>2. z \in SessionType /\ z.config = None
    BY <2>1 DEF NoSession, SessionType
  <2>3. y.rules \in Rules \cup {None} /\ y.factors \in SUBSET Factor
    BY <1>2 DEF SessionType
  <2> QED  BY <2>1, <2>2, <2>3 DEF SessionType
<1>4. session' = [session EXCEPT ![s] = x] /\ session'[s] = x
  BY <1>1 DEF SaveSession, IInv, TypeOK
<1>5. UNCHANGED <<tables, admin, applied, saves, ghosts>>
  BY DEF SaveSession
<1> HIDE DEF x
<1>6. SessionOK(s)'
  BY <1>2, <1>3, <1>4, <1>5 DEF SessionOK
<1> QED  BY <1>3, <1>4, <1>5, <1>6, SessionMoves

\* The rules a session is evaluated by are those of its row.
LEMMA EvaluateSessionStep == ASSUME IInv, NEW s \in Session, EvaluateSession(s) PROVE IInv'
<1>1. UNCHANGED <<tables, admin, session, saves, ghosts>> /\ session[s].pc = "saved"
  BY DEF EvaluateSession
<1>2. applied' = [applied EXCEPT ![s] = @ \cup {RulesOf(s)}]
  BY DEF EvaluateSession
<1>3. TypeOK' /\ AdminInv' /\ Owned'
  BY <1>1 DEF IInv, TypeOK, AdminInv, Owned, SaveOK, Apart, Exists, tables, ghosts
<1>4. FactorsOK'
  BY <1>1 DEF IInv, FactorsOK, Rows, SetsFactors, tables, ghosts
<1>5. ASSUME NEW t \in Session PROVE SessionOK(t)'
  <2>1. SessionOK(t)
    BY DEF IInv
  <2>2. RulesOf(t)' = RulesOf(t)
    BY <1>1 DEF RulesOf
  <2>3. applied'[t] \subseteq (IF session[t].pc = "saved" THEN {RulesOf(t)} ELSE {})
    BY <1>1, <1>2, <2>1 DEF SessionOK
  <2> QED  BY <1>1, <2>1, <2>2, <2>3 DEF SessionOK, Exists, tables
<1> QED  BY <1>3, <1>4, <1>5 DEF IInv

----------------------------------------------------------------------------
(* Theorems.                                                               *)

LEMMA StepInv == IInv /\ [Next]_vars => IInv'
<1> SUFFICES ASSUME IInv, [Next]_vars PROVE IInv'
  OBVIOUS
<1>1. ASSUME NEW a \in Admin, AdminStep(a) PROVE IInv'
  BY <1>1, SubmitConfigStep, FindExistingStep, UpdateConfigStep, InsertConfigStep,
     CommitConfigStep, SubmitFactorsStep, SelectRowsStep, DeleteRowsStep, InsertRowsStep,
     CommitFactorsStep, RollBackStep DEF AdminStep
<1>2. ASSUME NEW s \in Session, SessionStep(s) PROVE IInv'
  BY <1>2, CreateSessionStep, ResolveScopeStep, RejectSessionStep, ReadFactorsStep,
     SaveSessionStep, EvaluateSessionStep DEF SessionStep
<1>3. CASE UNCHANGED vars
  <2>1. TypeOK'
    BY <1>3 DEF vars, IInv, TypeOK, Exists
  <2>2. AdminInv'
    BY <1>3 DEF vars, IInv, AdminInv, SaveOK, Apart, Exists
  <2>3. Owned'
    BY <1>3 DEF vars, IInv, Owned, Exists
  <2>4. FactorsOK'
    BY <1>3 DEF vars, IInv, FactorsOK, Rows, SetsFactors
  <2>5. \A s \in Session : SessionOK(s)'
    BY <1>3, SessionsKeep DEF vars, Grows, Exists
  <2> QED  BY <2>1, <2>2, <2>3, <2>4, <2>5 DEF IInv
<1> QED  BY <1>1, <1>2, <1>3 DEF Next

LEMMA Invariance == Spec => []IInv
<1> QED  BY InitInv, StepInv, PTL DEF Spec

(***************************************************************************)
(* Every row, transaction and session has its type, and no scope ever has  *)
(* two configurations, whatever two administrators save for it at once.    *)
(***************************************************************************)
THEOREM TypeCorrect == Spec => []TypeOK
<1>1. IInv => TypeOK
  BY DEF IInv
<1> QED  BY <1>1, Invariance, PTL

(***************************************************************************)
(* A session gets a configuration of a scope at least as specific as the   *)
(* most specific one configured when its request began.                    *)
(***************************************************************************)
THEOREM MostSpecific == Spec => []ResolvesMostSpecific
<1>1. IInv => ResolvesMostSpecific
  BY DEF IInv, SessionOK, ResolvesMostSpecific
<1> QED  BY <1>1, Invariance, PTL

(***************************************************************************)
(* Every factor of the list saved last is required, and no other one       *)
(* unless two saves of that configuration overlapped.                      *)
(***************************************************************************)
THEOREM FactorsSaved == Spec => []FactorsAreLastSaved
<1>1. IInv => FactorsAreLastSaved
  BY DEF IInv, FactorsOK, Rows, FactorsAreLastSaved
<1> QED  BY <1>1, Invariance, PTL

(***************************************************************************)
(* All evaluations of a session apply the rules it was created with.       *)
(***************************************************************************)
THEOREM SameRules == Spec => []SameRulesEveryTime
<1>1. ASSUME IInv, NEW s \in Session PROVE Cardinality(applied[s]) <= 1
  <2>1. applied[s] \subseteq {RulesOf(s)}
    BY <1>1 DEF IInv, SessionOK
  <2>2. IsFiniteSet({RulesOf(s)}) /\ Cardinality({RulesOf(s)}) = 1
    BY FS_Singleton
  <2>3. Cardinality(applied[s]) <= Cardinality({RulesOf(s)})
    BY <2>1, <2>2, FS_Subset
  <2> QED  BY <2>2, <2>3
<1>2. IInv => SameRulesEveryTime
  BY <1>1 DEF SameRulesEveryTime
<1> QED  BY <1>2, Invariance, PTL
=============================================================================
