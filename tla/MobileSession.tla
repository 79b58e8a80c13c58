--------------------------- MODULE MobileSession ---------------------------
(***************************************************************************)
(* The session of the mobile app on one person's phones                    *)
(* (mobile/src/features/auth/auth-context.tsx, lib/api-client.ts and       *)
(* lib/storage/secure-token-storage.ts), composed with the backend's       *)
(* refresh tokens.                                                         *)
(*                                                                         *)
(* A phone keeps its refresh token in secure storage.  login, logout and   *)
(* the refresh that follows a 401 are coroutines: each sends a request,    *)
(* awaits the answer and then writes the storage, and the others run       *)
(* meanwhile.  An answer may be lost, and the app may be killed; a request *)
(* already sent is then carried out with nobody waiting for it.            *)
(***************************************************************************)
EXTENDS RefreshTokens

CONSTANT Phone

ASSUME MobileSessionAssumption == None \notin Request

VARIABLES
  stored,  \* the refresh token in secure storage
  status,  \* AuthProvider's status, once it has read the storage
  call,    \* the request each coroutine of a phone awaits, None when idle
  calm     \* no fault and no logout during a refresh so far (history)

mobileVars == <<vars, stored, status, call, calm>>

\* Types, and that a phone logged in has a token in its storage.
MobileTypeOK ==
  /\ TypeOK
  /\ stored \in [Phone -> Token \cup {None}]
  /\ status \in [Phone -> {"authenticated", "unauthenticated"}]
  /\ call \in [Phone -> [Kind -> Request \cup {None}]]
  /\ calm \in BOOLEAN
  /\ \A p \in Phone : status[p] = "authenticated" => stored[p] # None

NoCalls == [k \in Kind |-> None]

MobileInit ==
  /\ Init
  /\ stored = [p \in Phone |-> None]
  /\ status = [p \in Phone |-> "unauthenticated"]
  /\ call = [p \in Phone |-> NoCalls]
  /\ calm = TRUE

Awaits(p, kind)   == call[p][kind] # None
Awaited(r)        == \E p \in Phone, kind \in Kind : call[p][kind] = r
Answer(p, kind)   == request[call[p][kind]]

-----------------------------------------------------------------------------
Send(p, kind, t) ==
  \E r \in Request : /\ ~Awaited(r)
                     /\ Receive(r, kind, t)
                     /\ call' = [call EXCEPT ![p][kind] = r]

\* The coroutine goes on with the answer.
Resume(p, kind) ==
  /\ Awaits(p, kind)
  /\ Forget(call[p][kind])
  /\ call' = [call EXCEPT ![p][kind] = None]

\* AuthProvider.login, from the login screen.
StartLogin(p) ==
  /\ status[p] = "unauthenticated"
  /\ ~Awaits(p, "login")
  /\ Send(p, "login", None)
  /\ UNCHANGED <<stored, status, calm>>

\* A mutant of LoginGranted: the status of the answer is not looked at.
LoginAnswered(p) ==
  /\ Resume(p, "login")
  /\ stored' = [stored EXCEPT ![p] = Answer(p, "login").fresh]
  /\ status' = [status EXCEPT ![p] = "authenticated"]
  /\ UNCHANGED calm

LoginGranted(p) ==
  /\ Resume(p, "login")
  /\ Answer(p, "login").step = "granted"
  /\ stored' = [stored EXCEPT ![p] = Answer(p, "login").fresh]
  /\ status' = [status EXCEPT ![p] = "authenticated"]
  /\ UNCHANGED calm

LoginFailed(p) ==
  /\ Resume(p, "login")
  /\ Answer(p, "login").step = "error"
  /\ UNCHANGED <<stored, status, calm>>

\* A mutant of MayRefresh: every 401 starts a refresh of its own.
MayAlwaysRefresh(p) == TRUE

(***************************************************************************)
(* refreshAccessToken, single-flight: a later 401 awaits the same promise. *)
(* A query sent before a logout may meet its 401 after it.                 *)
(***************************************************************************)
MayRefresh(p) == ~Awaits(p, "refresh")

StartRefresh(p) ==
  /\ MayRefresh(p)
  /\ stored[p] # None
  /\ Send(p, "refresh", stored[p])
  /\ calm' = (calm /\ ~Awaits(p, "logout"))
  /\ UNCHANGED <<stored, status>>

\* handleUnrecoverableAuthFailure, and the listener AuthProvider registers.
ForceLogout(p) ==
  /\ stored' = [stored EXCEPT ![p] = None]
  /\ status' = [status EXCEPT ![p] = "unauthenticated"]

RefreshWithoutToken(p) ==
  /\ MayRefresh(p)
  /\ stored[p] = None
  /\ ForceLogout(p)
  /\ UNCHANGED <<vars, call, calm>>

RefreshGranted(p) ==
  /\ Resume(p, "refresh")
  /\ Answer(p, "refresh").step = "granted"
  /\ stored' = [stored EXCEPT ![p] = Answer(p, "refresh").fresh]
  /\ UNCHANGED <<status, calm>>

\* Every answer that is not 2xx ends the session, a server error too.
RefreshRefused(p) ==
  /\ Resume(p, "refresh")
  /\ Answer(p, "refresh").step \in {"rejected", "error"}
  /\ ForceLogout(p)
  /\ UNCHANGED calm

\* AuthProvider.logout reads the storage; a phone logged in has a token there.
StartLogout(p) ==
  /\ status[p] = "authenticated"
  /\ ~Awaits(p, "logout")
  /\ stored[p] # None
  /\ Send(p, "logout", stored[p])
  /\ calm' = (calm /\ ~Awaits(p, "refresh"))
  /\ UNCHANGED <<stored, status>>

\* Best-effort: whatever the backend answers, the storage is cleared.
LogoutAnswered(p) ==
  /\ Resume(p, "logout")
  /\ ForceLogout(p)
  /\ UNCHANGED calm

(***************************************************************************)
(* rawFetch throws a NetworkError: the request may have been carried out,  *)
(* or may still be.  Only logout goes on as if it had been answered.       *)
(***************************************************************************)
AnswerLost(p, kind) ==
  /\ Awaits(p, kind)
  /\ call' = [call EXCEPT ![p][kind] = None]
  /\ calm' = (calm /\ kind # "refresh")
  /\ IF kind = "logout" THEN ForceLogout(p) ELSE UNCHANGED <<stored, status>>
  /\ UNCHANGED vars

\* The app is killed and started again: AuthProvider trusts the storage.
Restart(p) ==
  /\ call' = [call EXCEPT ![p] = NoCalls]
  /\ status' = [status EXCEPT ![p] = IF stored[p] # None THEN "authenticated"
                                     ELSE "unauthenticated"]
  /\ calm' = (calm /\ ~Awaits(p, "refresh") /\ ~Awaits(p, "logout"))
  /\ UNCHANGED <<vars, stored>>

RefreshFailed(transaction) ==
  transaction.kind = "refresh" /\ transaction.step = "error"

\* The backend's own steps; a refresh's rollback and an expiry count as faults.
BackendStep ==
  /\ \/ /\ \E r \in Request : RequestStep(r)
        /\ calm' = (calm /\ \A r \in Request : ~RefreshFailed(request'[r]))
     \/ /\ \E r \in Request : ~Awaited(r) /\ Forget(r)
        /\ UNCHANGED calm
     \/ /\ \E t \in Token : Expire(t)
        /\ calm' = FALSE
  /\ UNCHANGED <<stored, status, call>>

PhoneStep(p) ==
  \/ StartLogin(p)
  \/ LoginGranted(p)
  \/ LoginFailed(p)
  \/ StartRefresh(p)
  \/ RefreshWithoutToken(p)
  \/ RefreshGranted(p)
  \/ RefreshRefused(p)
  \/ StartLogout(p)
  \/ LogoutAnswered(p)
  \/ \E kind \in Kind : AnswerLost(p, kind)
  \/ Restart(p)

MobileNext == BackendStep \/ \E p \in Phone : PhoneStep(p)

MobileSpec == MobileInit /\ [][MobileNext]_mobileVars

-----------------------------------------------------------------------------
(***************************************************************************)
(* Several requests of a phone that meet a 401 at the same time do not     *)
(* make the backend see a reuse: as long as no refresh fails or is lost,   *)
(* and nobody logs out in the middle of one, no phone is told its session  *)
(* has expired, and an idle phone that is logged in holds a token the      *)
(* backend still accepts.                                                  *)
(***************************************************************************)
SingleFlightKeepsSession ==
  calm => \A p \in Phone :
    /\ Awaits(p, "refresh") => Answer(p, "refresh").step # "rejected"
    /\ status[p] = "authenticated" /\ call[p] = NoCalls =>
         stored[p] # None /\ row[stored[p]] = "live"
=============================================================================
