--------------------------- MODULE AttendanceConfig ---------------------------
(***************************************************************************)
(* The attendance rules of one class group: administrators save a config   *)
(* per scope and the required factors of a config, as the dashboard does   *)
(* (two requests) or the config-set script (one transaction); sessions     *)
(* copy the rules that are effective when they are created; the rules      *)
(* engine evaluates a session by its copy.  An action is one statement of  *)
(* a transaction at READ COMMITTED.                                        *)
(***************************************************************************)
EXTENDS Naturals, FiniteSets

CONSTANTS Admin,      \* administrators, each with one request at a time
          ConfigId,   \* identifiers of attendance_config rows
          Rules,      \* percentage, tolerance and behavior, as one value
          Factor,     \* attendance factor types
          Session,    \* class sessions of the class group
          MaxSaves,   \* bound of the number of saves
          None

ASSUME ConfigAssumption ==
  /\ MaxSaves \in Nat
  /\ None \notin ConfigId \cup Rules \cup Admin

\* Resolution order: the class group's config, its course's, the institution's.
Scope == 1..3

VARIABLES config,    \* committed attendance_config rows, by id
          required,  \* committed attendance_config_required_factor rows
          admin,     \* transaction and page of each administrator
          session,   \* creating transaction, then row, of each session
          applied,   \* rules each evaluation of a session has applied
          saves,     \* saves begun
          asked,     \* factor list of the last save of a config's factors
          overlap    \* configs whose factors two saves have set at once

tables == <<config, required>>
ghosts == <<asked, overlap>>
vars == <<config, required, admin, session, applied, saves, asked, overlap>>

Row == [config: ConfigId, factor: Factor, save: 1..MaxSaves]

Idle == [pc |-> "idle", via |-> "page", scope |-> 1, rules |-> None, id |-> None,
         write |-> "none", factors |-> {}, doomed |-> {}, save |-> 0]

Save ==
  [pc: {"idle", "find", "write", "commit config", "delete", "deleting", "insert", "commit"},
   via: {"page", "script"}, scope: Scope, rules: Rules \cup {None},
   id: ConfigId \cup {None}, write: {"none", "insert", "update"},
   factors: SUBSET Factor, doomed: SUBSET Row, save: 0..MaxSaves]

NoRow == [scope |-> 1, rules |-> None]
NoSession ==
  [pc |-> "none", scope |-> 1, config |-> None, rules |-> None, factors |-> {}, best |-> 4]

Init ==
  /\ config = [i \in ConfigId |-> NoRow] /\ required = {}
  /\ admin = [a \in Admin |-> Idle]
  /\ session = [s \in Session |-> NoSession] /\ applied = [s \in Session |-> {}]
  /\ saves = 0 /\ asked = [i \in ConfigId |-> {}] /\ overlap = {}

Exists(i) == config[i].rules # None

\* findConfig: the committed row of a scope, or None.
FindConfig(scope) ==
  IF \E i \in ConfigId : Exists(i) /\ config[i].scope = scope
  THEN CHOOSE i \in ConfigId : Exists(i) /\ config[i].scope = scope
  ELSE None

\* A request; what validate() refuses changes nothing and is left out.
Begin(a, save) ==
  /\ admin[a].pc = "idle" /\ saves < MaxSaves
  /\ saves' = saves + 1
  /\ admin' = [admin EXCEPT ![a] = [save EXCEPT !.save = saves + 1]]

----------------------------------------------------------------------------
(* upsertConfig.                                                           *)

\* The form of the page, or the script, which brings its factors with it.
SubmitConfig(a) ==
  /\ \E scope \in Scope, r \in Rules, via \in {"page", "script"}, fs \in SUBSET Factor :
       /\ via = "page" => fs = {}
       /\ Begin(a, [Idle EXCEPT !.pc = "find", !.via = via, !.scope = scope,
                                !.rules = r, !.factors = fs])
  /\ UNCHANGED <<tables, session, applied, ghosts>>

FindExisting(a) ==
  /\ admin[a].pc = "find"
  /\ admin' = [admin EXCEPT ![a].pc = "write", ![a].id = FindConfig(admin[a].scope)]
  /\ UNCHANGED <<tables, session, applied, saves, ghosts>>

\* The script goes on to the factors it was given, in the same transaction.
Written(a, id, write) ==
  admin' = [admin EXCEPT ![a].id = id, ![a].write = write,
    ![a].pc = IF admin[a].via = "script" /\ admin[a].factors # {} THEN "delete" ELSE "commit config"]

Holds(b, id) == admin[b].write = "update" /\ admin[b].id = id

UpdateConfig(a) ==
  /\ admin[a].pc = "write" /\ admin[a].id # None
  /\ \A b \in Admin \ {a} : ~Holds(b, admin[a].id)
  /\ Written(a, admin[a].id, "update")
  /\ UNCHANGED <<tables, session, applied, saves, ghosts>>

\* Mutant: the table without the unique indexes.
InsertAnother(a) ==
  /\ admin[a].pc = "write" /\ admin[a].id = None
  /\ \E i \in ConfigId :
       /\ ~Exists(i) /\ \A b \in Admin : admin[b].id # i
       /\ Written(a, i, "insert")
  /\ UNCHANGED <<tables, session, applied, saves, ghosts>>

\* The unique index of the scope: an uncommitted insert is waited for, and a
\* committed one refuses the request.
InsertConfig(a) ==
  /\ admin[a].pc = "write" /\ admin[a].id = None
  /\ FindConfig(admin[a].scope) = None
  /\ \A b \in Admin \ {a} : admin[b].write = "insert" => admin[b].scope # admin[a].scope
  /\ \E i \in ConfigId :
       /\ ~Exists(i) /\ \A b \in Admin : admin[b].id # i
       /\ Written(a, i, "insert")
  /\ UNCHANGED <<tables, session, applied, saves, ghosts>>

Stored(a) ==
  IF admin[a].write = "none" THEN config
  ELSE [config EXCEPT ![admin[a].id] = [scope |-> admin[a].scope, rules |-> admin[a].rules]]

\* The page learns the identifier for its second form.
CommitConfig(a) ==
  /\ admin[a].pc = "commit config"
  /\ config' = Stored(a)
  /\ admin' = [admin EXCEPT ![a] = Idle]
  /\ UNCHANGED <<required, session, applied, saves, ghosts>>

----------------------------------------------------------------------------
(* setRequiredFactors.                                                     *)

\* The second form, for the config just saved or another of the list.  It
\* starts with no factor checked, whatever is stored.
SubmitFactors(a) ==
  /\ \E i \in ConfigId, fs \in SUBSET Factor :
       /\ Exists(i)
       /\ Begin(a, [Idle EXCEPT !.pc = "delete", !.scope = config[i].scope,
                                !.id = i, !.factors = fs])
  /\ UNCHANGED <<tables, session, applied, ghosts>>

SetsFactors(b, id) == admin[b].pc \in {"deleting", "insert", "commit"} /\ admin[b].id = id

\* Mutant: an empty list deletes nothing.
SelectRowsToReplace(a) ==
  /\ admin[a].pc = "delete"
  /\ admin' = [admin EXCEPT ![a].pc = "deleting",
       ![a].doomed = {r \in required : r.config = admin[a].id /\ admin[a].factors # {}}]
  /\ overlap' = overlap \cup {i \in {admin[a].id} : \E b \in Admin \ {a} : SetsFactors(b, i)}
  /\ UNCHANGED <<tables, session, applied, saves, asked>>

\* DELETE begins: it sees the rows committed now.
SelectRows(a) ==
  /\ admin[a].pc = "delete"
  /\ admin' = [admin EXCEPT ![a].pc = "deleting",
       ![a].doomed = {r \in required : r.config = admin[a].id}]
  /\ overlap' = overlap \cup {i \in {admin[a].id} : \E b \in Admin \ {a} : SetsFactors(b, i)}
  /\ UNCHANGED <<tables, session, applied, saves, asked>>

Deleted(b) == IF admin[b].pc \in {"insert", "commit"} THEN admin[b].doomed ELSE {}

\* DELETE ends: rows another transaction is deleting are waited for, and those
\* gone by then are skipped.
DeleteRows(a) ==
  /\ admin[a].pc = "deleting"
  /\ \A b \in Admin \ {a} : Deleted(b) \cap admin[a].doomed = {}
  /\ admin' = [admin EXCEPT ![a].doomed = @ \cap required,
       ![a].pc = IF admin[a].factors = {} THEN "commit" ELSE "insert"]
  /\ UNCHANGED <<tables, session, applied, saves, ghosts>>

Added(b) ==
  IF admin[b].pc = "commit"
  THEN [config: {admin[b].id}, factor: admin[b].factors, save: {admin[b].save}]
  ELSE {}

SameEntry(r, a) == r.config = admin[a].id /\ r.factor \in admin[a].factors

\* The unique index of a config's factors, as above.
InsertRows(a) ==
  /\ admin[a].pc = "insert"
  /\ \A b \in Admin \ {a} : \A r \in Added(b) : ~SameEntry(r, a)
  /\ \A r \in required \ admin[a].doomed : ~SameEntry(r, a)
  /\ admin' = [admin EXCEPT ![a].pc = "commit"]
  /\ UNCHANGED <<tables, session, applied, saves, ghosts>>

CommitFactors(a) ==
  /\ admin[a].pc = "commit"
  /\ config' = Stored(a)
  /\ required' = (required \ Deleted(a)) \cup Added(a)
  /\ asked' = [asked EXCEPT ![admin[a].id] = admin[a].factors]
  /\ admin' = [admin EXCEPT ![a] = Idle]
  /\ UNCHANGED <<session, applied, saves, overlap>>

\* A unique violation, a deadlock, a lost connection.
RollBack(a) ==
  /\ admin[a].pc # "idle"
  /\ admin' = [admin EXCEPT ![a] = Idle]
  /\ UNCHANGED <<tables, session, applied, saves, ghosts>>

----------------------------------------------------------------------------
(* createSession: one transaction per session.                             *)

CreateSession(s) ==
  /\ session[s].pc = "none"
  /\ session' = [session EXCEPT ![s].pc = "resolve",
       ![s].best = CHOOSE n \in 1..4 :
         /\ n < 4 => FindConfig(n) # None
         /\ \A m \in 1..(n - 1) : FindConfig(m) = None]
  /\ UNCHANGED <<tables, admin, applied, saves, ghosts>>

\* Mutant: the institution's default is looked for first.
ResolveDefaultFirst(s) ==
  /\ session[s].pc = "resolve" /\ session[s].scope \in Scope
  /\ LET scope == IF session[s].scope = 1 THEN 3 ELSE session[s].scope - 1
         i == FindConfig(scope) IN
     session' = IF i # None
       THEN [session EXCEPT ![s].pc = "factors", ![s].config = i, ![s].rules = config[i].rules,
                            ![s].scope = scope]
       ELSE [session EXCEPT ![s].scope = @ + 1]
  /\ UNCHANGED <<tables, admin, applied, saves, ghosts>>

\* resolveEffectiveConfig: one read per scope, the most specific first.
ResolveScope(s) ==
  /\ session[s].pc = "resolve" /\ session[s].scope \in Scope
  /\ LET i == FindConfig(session[s].scope) IN
     session' = IF i # None
       THEN [session EXCEPT ![s].pc = "factors", ![s].config = i, ![s].rules = config[i].rules]
       ELSE [session EXCEPT ![s].scope = @ + 1]
  /\ UNCHANGED <<tables, admin, applied, saves, ghosts>>

\* No config at all: 422, and a later request may try again.
RejectSession(s) ==
  /\ session[s].pc = "resolve" /\ session[s].scope \notin Scope
  /\ session' = [session EXCEPT ![s] = NoSession]
  /\ UNCHANGED <<tables, admin, applied, saves, ghosts>>

ReadFactors(s) ==
  /\ session[s].pc = "factors"
  /\ session' = [session EXCEPT ![s].pc = "save",
       ![s].factors = {r.factor : r \in {q \in required : q.config = session[s].config}}]
  /\ UNCHANGED <<tables, admin, applied, saves, ghosts>>

\* The session and its factors, inserted in one transaction.
SaveSession(s) ==
  /\ session[s].pc = "save"
  /\ session' = [session EXCEPT ![s] = [NoSession EXCEPT !.pc = "saved",
       !.rules = session[s].rules, !.factors = session[s].factors]]
  /\ UNCHANGED <<tables, admin, applied, saves, ghosts>>

\* Mutant: the config in force now.
RulesInForce(s) ==
  LET scopes == {n \in Scope : FindConfig(n) # None}
      i == FindConfig(CHOOSE n \in scopes : \A m \in scopes : n <= m) IN
  [rules |-> config[i].rules, factors |-> {r.factor : r \in {q \in required : q.config = i}}]

RulesOf(s) == [rules |-> session[s].rules, factors |-> session[s].factors]

\* evaluateSession reads the copy.
EvaluateSession(s) ==
  /\ session[s].pc = "saved"
  /\ applied' = [applied EXCEPT ![s] = @ \cup {RulesOf(s)}]
  /\ UNCHANGED <<tables, admin, session, saves, ghosts>>

----------------------------------------------------------------------------
AdminStep(a) ==
  \/ SubmitConfig(a) \/ FindExisting(a) \/ UpdateConfig(a) \/ InsertConfig(a) \/ CommitConfig(a)
  \/ SubmitFactors(a) \/ SelectRows(a) \/ DeleteRows(a) \/ InsertRows(a)
  \/ CommitFactors(a) \/ RollBack(a)

SessionStep(s) ==
  \/ CreateSession(s) \/ ResolveScope(s) \/ RejectSession(s) \/ ReadFactors(s)
  \/ SaveSession(s) \/ EvaluateSession(s)

Next == (\E a \in Admin : AdminStep(a)) \/ (\E s \in Session : SessionStep(s))

Spec == Init /\ [][Next]_vars

----------------------------------------------------------------------------
(* Properties.                                                             *)

\* Values have their types; a scope has one config, as the migration of the
\* unique indexes demands.
TypeOK ==
  /\ config \in [ConfigId -> [scope: Scope, rules: Rules \cup {None}]]
  /\ required \subseteq Row /\ admin \in [Admin -> Save]
  /\ session \in [Session -> [pc: {"none", "resolve", "factors", "save", "saved"},
       scope: 1..4, config: ConfigId \cup {None}, rules: Rules \cup {None},
       factors: SUBSET Factor, best: 1..4]]
  /\ saves \in 0..MaxSaves
  /\ asked \in [ConfigId -> SUBSET Factor] /\ overlap \subseteq ConfigId
  /\ \A i, j \in ConfigId : Exists(i) /\ Exists(j) /\ config[i].scope = config[j].scope => i = j

\* tenant-config.service.ts:40: whatever is saved between the reads of a
\* resolution, a session gets a config at least as specific as the most
\* specific one that existed when its request began.
ResolvesMostSpecific ==
  \A s \in Session : session[s].config # None =>
    /\ config[session[s].config].scope = session[s].scope
    /\ session[s].scope <= session[s].best

\* class-session.service.ts:15: a session is evaluated by the same rules and
\* factors every time, however its config changes after it was created.
SameRulesEveryTime == \A s \in Session : Cardinality(applied[s]) <= 1

\* tenant-config.service.ts:125: every factor of the list saved last is
\* required, and no other one unless two saves of that config overlapped.
FactorsAreLastSaved ==
  \A i \in ConfigId :
    LET stored == {r.factor : r \in {q \in required : q.config = i}} IN
    asked[i] \subseteq stored /\ (i \notin overlap => stored = asked[i])
=============================================================================
