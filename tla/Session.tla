------------------------------ MODULE Session ------------------------------
(***************************************************************************)
(* The session of one browser tab (features/auth/AuthContext.tsx,          *)
(* session.ts, LoginPage.tsx, RotaProtegida.tsx) against the server's      *)
(* login, refresh and me (app/api/auth.py, app/dependencies.py).           *)
(*                                                                         *)
(* Chains of calls can be in flight: the refresh started when the page     *)
(* loads (then me), entering (login, then me), and reading the user again. *)
(* Each changes the tokens or the user when its answer arrives, whatever   *)
(* happened meanwhile.  The form lets one attempt to enter through, but    *)
(* what tells it so (`enviando`) goes with the form: its link to the reset *)
(* of a password and back, and a second chain runs beside the first.       *)
(* A token is identified with the user it belongs to.                      *)
(* Any call may fail: a wrong password, an expired token, an account       *)
(* deactivated meanwhile (only me and login look at it), no network.       *)
(***************************************************************************)
EXTENDS Naturals

CONSTANTS
  People,     \* accounts that use this tab
  None,       \* no token, no user
  Attempts    \* chains of the login form that can be in flight at once, a bound

ASSUME PeopleAssumption == None \notin People

VARIABLES
  storage,       \* whether sessionStorage works in this browser
  route,         \* "entrar", outside RotaProtegida, or "app", inside it
  estado,        \* what AuthContext tells the pages
  usuario,       \* the user it shows
  accessToken,   \* in memory, lost with the page
  refreshToken,  \* in sessionStorage, kept by a reload of the page
  boot,          \* the call chain started by the mount of AuthProvider
  entering,      \* entering[i]: a call chain started by a login form
  reading,       \* recarregarUsuario in flight
  crossed        \* history: since the page loaded, somebody entered or left
                 \* while another call chain was in flight

sessionVars == <<storage, route, estado, usuario, accessToken, refreshToken,
                 boot, entering, reading, crossed>>

Holders == People \cup {None}
Call(step, who) == [step |-> step, who |-> who]
Quiet == Call("none", None)
Calls == [step: {"none", "refresh", "login", "me"}, who: Holders]
Waiting(call) == call.step # "none"
NoAttempt == [i \in Attempts |-> Quiet]
Entering == \E i \in Attempts : Waiting(entering[i])

-----------------------------------------------------------------------------
(* What a page that has just loaded starts with: memory is gone, the       *)
(* refresh token says whether there is a session to rebuild.               *)

lerRefreshToken == IF storage THEN refreshToken ELSE None
Mounted(token, at) ==
  IF token = None
  THEN [estado |-> "anonimo", boot |-> Quiet, route |-> "entrar"]
  ELSE [estado |-> "verificando", boot |-> Call("refresh", token), route |-> at]

SessionInit ==
  /\ storage \in BOOLEAN
  /\ refreshToken \in IF storage THEN Holders ELSE {None}
  /\ \E at \in {"entrar", "app"} : LET m == Mounted(refreshToken, at) IN
       estado = m.estado /\ boot = m.boot /\ route = m.route
  /\ usuario = None /\ accessToken = None
  /\ entering = NoAttempt /\ reading = Quiet
  /\ crossed = FALSE

\* F5, or an address typed: the document goes with every call it had in flight.
LoadPage(at) ==
  /\ LET m == Mounted(lerRefreshToken, at) IN
       estado' = m.estado /\ boot' = m.boot /\ route' = m.route
  /\ usuario' = None /\ accessToken' = None
  /\ entering' = NoAttempt /\ reading' = Quiet /\ crossed' = FALSE
  /\ UNCHANGED <<storage, refreshToken>>

limparSessao == accessToken' = None /\ refreshToken' = None

\* Without a session RotaProtegida sends every page to the login form.
Anonymous == limparSessao /\ usuario' = None /\ estado' = "anonimo" /\ route' = "entrar"

Authenticated(p) == usuario' = p /\ estado' = "autenticado"

-----------------------------------------------------------------------------
BootRefreshed ==
  /\ boot.step = "refresh"
  /\ accessToken' = boot.who
  /\ boot' = Call("me", boot.who)
  /\ UNCHANGED <<storage, route, estado, usuario, refreshToken, entering, reading, crossed>>

BootRead ==
  /\ boot.step = "me"
  /\ Authenticated(boot.who)
  /\ boot' = Quiet
  /\ UNCHANGED <<storage, route, accessToken, refreshToken, entering, reading, crossed>>

BootFailed ==
  /\ Waiting(boot)
  /\ Anonymous
  /\ boot' = Quiet
  /\ UNCHANGED <<storage, entering, reading, crossed>>

\* entrar, from a form that is new or whose last attempt has ended.
Enter(i, p) ==
  /\ route = "entrar" /\ ~Waiting(entering[i])
  /\ entering' = [entering EXCEPT ![i] = Call("login", p)]
  /\ crossed' = (crossed \/ Waiting(boot) \/ Waiting(reading) \/ Entering)
  /\ UNCHANGED <<storage, route, estado, usuario, accessToken, refreshToken, boot,
                 reading>>

LoggedIn(i) ==
  /\ entering[i].step = "login"
  /\ accessToken' = entering[i].who
  /\ refreshToken' = IF storage THEN entering[i].who ELSE refreshToken
  /\ entering' = [entering EXCEPT ![i].step = "me"]
  /\ UNCHANGED <<storage, route, estado, usuario, boot, reading, crossed>>

LoginRefused(i) ==
  /\ entering[i].step = "login"
  /\ entering' = [entering EXCEPT ![i] = Quiet]
  /\ UNCHANGED <<storage, route, estado, usuario, accessToken, refreshToken, boot,
                 reading, crossed>>

Entered(i) ==
  /\ entering[i].step = "me"
  /\ Authenticated(entering[i].who)
  /\ route' = "app"
  /\ entering' = [entering EXCEPT ![i] = Quiet]
  /\ UNCHANGED <<storage, accessToken, refreshToken, boot, reading, crossed>>

\* Mutant of EnterFailed: the tokens stay.
EnterFailedHalf(i) ==
  /\ entering[i].step = "me"
  /\ usuario' = None /\ estado' = "anonimo" /\ route' = "entrar"
  /\ entering' = [entering EXCEPT ![i] = Quiet]
  /\ UNCHANGED <<storage, accessToken, refreshToken, boot, reading, crossed>>

\* Token accepted, identity not readable.
EnterFailed(i) ==
  /\ entering[i].step = "me"
  /\ Anonymous
  /\ entering' = [entering EXCEPT ![i] = Quiet]
  /\ UNCHANGED <<storage, boot, reading, crossed>>

InApp == estado = "autenticado" /\ route = "app"

sair ==
  /\ InApp
  /\ Anonymous
  /\ crossed' = (crossed \/ Waiting(boot) \/ Entering \/ Waiting(reading))
  /\ UNCHANGED <<storage, boot, entering, reading>>

\* The rubric pages read the user again after registering or deleting a rubric.
recarregarUsuario ==
  /\ InApp /\ ~Waiting(reading)
  /\ reading' = Call("me", accessToken)
  /\ UNCHANGED <<storage, route, estado, usuario, accessToken, refreshToken, boot,
                 entering, crossed>>

ReadAgain ==
  /\ reading.who # None
  /\ usuario' = reading.who
  /\ reading' = Quiet
  /\ UNCHANGED <<storage, route, estado, accessToken, refreshToken, boot, entering, crossed>>

ReadFailed ==
  /\ Waiting(reading)
  /\ reading' = Quiet
  /\ UNCHANGED <<storage, route, estado, usuario, accessToken, refreshToken, boot,
                 entering, crossed>>

-----------------------------------------------------------------------------
BootAnswered == BootRefreshed \/ BootRead \/ BootFailed
EnterAnswered(i) == LoggedIn(i) \/ LoginRefused(i) \/ Entered(i) \/ EnterFailed(i)
ReadAnswered == ReadAgain \/ ReadFailed

SessionNext ==
  \/ BootAnswered \/ ReadAnswered
  \/ sair \/ recarregarUsuario
  \/ \E i \in Attempts : EnterAnswered(i) \/ \E p \in People : Enter(i, p)
  \/ \E at \in {"entrar", "app"} : LoadPage(at)

SessionTypeOK ==
  /\ storage \in BOOLEAN /\ crossed \in BOOLEAN
  /\ route \in {"entrar", "app"}
  /\ estado \in {"verificando", "autenticado", "anonimo"}
  /\ usuario \in Holders /\ accessToken \in Holders /\ refreshToken \in Holders
  /\ boot \in Calls /\ entering \in [Attempts -> Calls] /\ reading \in Calls

(***************************************************************************)
(* A session is whole or absent ("nao deixa a sessao pela metade"): with   *)
(* no entering or start-up in flight, an authenticated tab shows the owner *)
(* of both its tokens and an anonymous one holds neither token nor user.   *)
(* The exception is stated, not hidden: AuthContext does not cancel what   *)
(* it started, so entering (again) or leaving while another chain is in    *)
(* flight lets the older answer overwrite or clear the newer session.      *)
(***************************************************************************)
SessionWhole ==
  ~crossed /\ ~Waiting(boot) /\ ~Entering =>
    /\ estado = "autenticado" =>
         /\ usuario # None /\ accessToken = usuario
         /\ refreshToken = IF storage THEN usuario ELSE None
    /\ estado = "anonimo" => usuario = None /\ accessToken = None /\ refreshToken = None
    /\ estado # "verificando"
=============================================================================
