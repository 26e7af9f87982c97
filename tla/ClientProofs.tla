---------------------------- MODULE ClientProofs ----------------------------
(***************************************************************************)
(* Proofs about the browser tab, for any accounts, documents and bounds:   *)
(* what an older answer, of the session or of the panel, cannot do.        *)
(***************************************************************************)
EXTENDS Client, Integers, TLAPS

(***************************************************************************)
(* The session.                                                            *)
(***************************************************************************)

\* Where the chains can be, and that no token survives without storage.
Chains ==
  /\ boot.step \in {"none", "refresh", "me"}
  /\ \A i \in Attempts : /\ entering[i].step \in {"none", "login", "me"}
                         /\ Waiting(entering[i]) => entering[i].who # None
  /\ reading.step \in {"none", "me"}
  /\ ~Waiting(reading) => reading = Quiet
  /\ ~storage => refreshToken = None

\* Both tokens are p's, or absent where p is None.
Owner(p) == accessToken = p /\ refreshToken = IF storage THEN p ELSE None

\* No login chain holds tokens whose owner is not read yet.
AllRead == \A i \in Attempts : entering[i].step # "me"

\* A tab where no chain crossed another, in each of its states.
Verifying ==
  /\ Waiting(boot) /\ boot.who # None /\ storage /\ refreshToken = boot.who
  /\ boot.step = "me" => accessToken = boot.who
  /\ ~Entering /\ ~Waiting(reading)
SignedIn ==
  /\ ~Waiting(boot) /\ usuario # None
  /\ AllRead => Owner(usuario)
  /\ Waiting(reading) => reading.who = usuario
SignedOut ==
  /\ ~Waiting(boot) /\ ~Waiting(reading) /\ usuario = None
  /\ AllRead => Owner(None)
Uncrossed ==
  /\ estado = "verificando" => Verifying
  /\ estado = "autenticado" => SignedIn
  /\ estado = "anonimo" => SignedOut
  /\ \A i \in Attempts : entering[i].step = "me" => Owner(entering[i].who)
  /\ Entering => ~Waiting(reading) /\ route = "entrar"
  /\ \A i, j \in Attempts : Waiting(entering[i]) /\ Waiting(entering[j]) => i = j

SessionInv == SessionTypeOK /\ Chains /\ (~crossed => Uncrossed)

LEMMA NoOne ==
  /\ None \in Holders /\ None \notin People /\ People \subseteq Holders
  /\ Quiet \in Calls /\ ~Waiting(Quiet) /\ Quiet.step = "none" /\ Quiet.who = None
  BY PeopleAssumption DEF Holders, Quiet, Calls, Call, Waiting

LEMMA CallType ==
  ASSUME NEW s \in {"none", "refresh", "login", "me"}, NEW p \in Holders
  PROVE  Call(s, p) \in Calls /\ Call(s, p).step = s /\ Call(s, p).who = p
  BY DEF Call, Calls

\* Without an attempt to enter in flight.
LEMMA NoneEntering ==
  /\ NoAttempt \in [Attempts -> Calls]
  /\ \A i \in Attempts : NoAttempt[i] = Quiet
  /\ ~Entering <=> \A i \in Attempts : ~Waiting(entering[i])
  /\ ~Entering => AllRead
  BY NoOne DEF NoAttempt, Entering, AllRead, Waiting

\* A page that has just loaded.
LEMMA MountedShape ==
  ASSUME NEW token \in Holders, NEW at \in {"entrar", "app"}
  PROVE  LET m == Mounted(token, at) IN
         /\ token = None => m.estado = "anonimo" /\ m.boot = Quiet /\ m.route = "entrar"
         /\ token # None => /\ m.estado = "verificando" /\ m.route = at
                            /\ m.boot \in Calls /\ m.boot.step = "refresh"
                            /\ m.boot.who = token
  BY CallType DEF Mounted

LEMMA InitSession == SessionInit => SessionInv
<1>. SUFFICES ASSUME SessionInit PROVE SessionInv
  OBVIOUS
<1>1. refreshToken \in Holders /\ storage \in BOOLEAN /\ (~storage => refreshToken = None)
  BY NoOne DEF SessionInit
<1>2. PICK at \in {"entrar", "app"} : LET m == Mounted(refreshToken, at) IN
        estado = m.estado /\ boot = m.boot /\ route = m.route
  BY DEF SessionInit
<1>5. /\ entering \in [Attempts -> Calls] /\ \A i \in Attempts : entering[i] = Quiet
      /\ ~Entering /\ AllRead
  BY NoneEntering, NoOne DEF SessionInit
<1>. USE NoOne DEF SessionInit, SessionInv, SessionTypeOK, Chains, Uncrossed, Waiting
<1>3. CASE refreshToken = None
  <2>1. estado = "anonimo" /\ boot = Quiet /\ route = "entrar"
    BY <1>1, <1>2, <1>3, MountedShape
  <2>. QED BY <1>1, <1>3, <1>5, <2>1 DEF SignedOut, Owner
<1>4. CASE refreshToken # None
  <2>1. /\ estado = "verificando" /\ route = at /\ boot \in Calls
        /\ boot.step = "refresh" /\ boot.who = refreshToken
    BY <1>1, <1>2, <1>4, MountedShape
  <2>. QED BY <1>1, <1>4, <1>5, <2>1 DEF Verifying
<1>. QED BY <1>3, <1>4

LEMMA BootStep == SessionInv /\ BootAnswered => SessionInv'
<1>. SUFFICES ASSUME SessionInv, BootAnswered PROVE SessionInv'
  OBVIOUS
<1>. USE NoOne DEF SessionInv, SessionTypeOK, Waiting
<1>1. boot \in Calls /\ boot.who \in Holders
  BY DEF Calls
<1>5. crossed \/ (/\ estado = "verificando" /\ Verifying
                 /\ \A j \in Attempts : ~Waiting(entering[j]))
  BY NoneEntering DEF BootAnswered, BootRefreshed, BootRead, BootFailed, Uncrossed, Verifying,
     SignedIn, SignedOut
<1>2. CASE BootRefreshed
  <2>1. boot' = Call("me", boot.who)
    BY <1>2 DEF BootRefreshed
  <2>2. boot' \in Calls /\ boot'.step = "me" /\ boot'.who = boot.who
    BY <1>1, <2>1, CallType
  <2>3. SessionTypeOK' /\ Chains'
    BY <1>1, <1>2, <2>2 DEF BootRefreshed, Chains
  <2>. QED BY <1>2, <1>5, <2>2, <2>3 DEF BootRefreshed, Uncrossed, Verifying, Entering
<1>3. CASE BootRead
  <2>1. SessionTypeOK' /\ Chains'
    BY <1>1, <1>3 DEF BootRead, Authenticated, Chains
  <2>. QED BY <1>1, <1>3, <1>5, <2>1
       DEF BootRead, Authenticated, Uncrossed, Verifying, SignedIn, Owner, AllRead, Entering
<1>4. CASE BootFailed
  <2>1. SessionTypeOK' /\ Chains'
    BY <1>1, <1>4 DEF BootFailed, Anonymous, limparSessao, Chains
  <2>. QED BY <1>1, <1>4, <1>5, <2>1
       DEF BootFailed, Anonymous, limparSessao, Uncrossed, Verifying, SignedOut, Owner, AllRead,
           Entering
<1>. QED BY <1>2, <1>3, <1>4 DEF BootAnswered

\* What one attempt to enter changes, the others staying as they are.
LEMMA OneAttempt ==
  ASSUME entering \in [Attempts -> Calls], NEW i \in Attempts, NEW c \in Calls,
         entering' = [entering EXCEPT ![i] = c]
  PROVE  /\ entering' \in [Attempts -> Calls] /\ entering'[i] = c
         /\ \A j \in Attempts \ {i} : entering'[j] = entering[j]
  OBVIOUS

LEMMA EnterStep ==
  ASSUME SessionInv,
         NEW i \in Attempts, EnterAnswered(i) \/ \E p \in People : Enter(i, p)
  PROVE  SessionInv'
<1>. USE NoOne DEF SessionInv, SessionTypeOK, Waiting
<1>1. entering \in [Attempts -> Calls] /\ entering[i] \in Calls /\ entering[i].who \in Holders
  BY DEF Calls
<1>2. ASSUME NEW p \in People, Enter(i, p) PROVE SessionInv'
  <2>1. Call("login", p) \in Calls /\ Call("login", p).step = "login" /\ Call("login", p).who = p
    BY CallType
  <2>2. /\ entering' \in [Attempts -> Calls] /\ entering'[i].step = "login"
        /\ entering'[i].who = p /\ p # None
        /\ \A j \in Attempts \ {i} : entering'[j] = entering[j]
    BY <1>1, <1>2, <2>1, OneAttempt DEF Enter
  <2>3. SessionTypeOK' /\ Chains'
    BY <1>2, <2>2 DEF Enter, Chains
  <2>4. SUFFICES ASSUME ~crossed' PROVE Uncrossed'
    BY <2>3
  <2>5. /\ ~crossed /\ Uncrossed /\ estado # "verificando" /\ ~Waiting(reading) /\ ~Entering
        /\ route = "entrar"
    BY <1>2, <2>4 DEF Enter, Uncrossed, Verifying
  <2>6. AllRead /\ AllRead' /\ \A j \in Attempts \ {i} : ~Waiting(entering'[j])
    BY <2>2, <2>5, NoneEntering DEF AllRead
  <2>7. UNCHANGED <<storage, route, estado, usuario, accessToken, refreshToken, boot, reading>>
    BY <1>2 DEF Enter
  <2>. QED BY <2>2, <2>5, <2>6, <2>7 DEF Uncrossed, SignedIn, SignedOut, Owner, AllRead
<1>3. ASSUME EnterAnswered(i), ~crossed
      PROVE  /\ Uncrossed /\ estado # "verificando" /\ ~Waiting(boot) /\ ~Waiting(reading)
             /\ route = "entrar" /\ entering[i].who # None
             /\ \A j \in Attempts \ {i} : ~Waiting(entering[j])
  <2>1. Waiting(entering[i])
    BY <1>3 DEF EnterAnswered, LoggedIn, LoginRefused, Entered, EnterFailed
  <2>2. Entering
    BY <2>1 DEF Entering
  <2>. QED BY <1>3, <2>1, <2>2 DEF Uncrossed, Verifying, SignedIn, SignedOut, Chains
<1>4. CASE LoggedIn(i)
  <2>1. [entering[i] EXCEPT !.step = "me"] \in Calls
    BY <1>1 DEF Calls
  <2>2. /\ entering' \in [Attempts -> Calls] /\ entering'[i].step = "me"
        /\ entering'[i].who = entering[i].who
        /\ \A j \in Attempts \ {i} : entering'[j] = entering[j]
    BY <1>1, <1>4, <2>1, OneAttempt DEF LoggedIn, Calls
  <2>3. SessionTypeOK' /\ Chains'
    BY <1>1, <1>4, <2>2 DEF LoggedIn, Chains
  <2>4. SUFFICES ASSUME ~crossed PROVE Uncrossed'
    BY <1>4, <2>3 DEF LoggedIn
  <2>5. ~AllRead'
    BY <2>2 DEF AllRead
  <2>6. /\ Owner(entering[i].who)'
        /\ UNCHANGED <<storage, route, estado, usuario, boot, reading, crossed>>
    BY <1>4, <2>2, <2>4 DEF LoggedIn, Owner, Chains
  <2>. QED BY <1>3, <1>4, <2>2, <2>4, <2>5, <2>6
       DEF EnterAnswered, Uncrossed, SignedIn, SignedOut, Owner
<1>5. CASE LoginRefused(i) \/ Entered(i) \/ EnterFailed(i)
  <2>1. /\ entering' \in [Attempts -> Calls] /\ entering'[i] = Quiet
        /\ \A j \in Attempts \ {i} : entering'[j] = entering[j]
    BY <1>1, <1>5, OneAttempt DEF LoginRefused, Entered, EnterFailed
  <2>2. SessionTypeOK' /\ Chains'
    BY <1>1, <1>5, <2>1
       DEF LoginRefused, Entered, EnterFailed, Anonymous, limparSessao, Authenticated, Chains
  <2>3. SUFFICES ASSUME ~crossed PROVE Uncrossed'
    BY <1>5, <2>2 DEF LoginRefused, Entered, EnterFailed
  <2>4. \A j \in Attempts : ~Waiting(entering'[j])
    BY <1>3, <1>5, <2>1, <2>3 DEF EnterAnswered
  <2>5. ~Entering' /\ AllRead'
    BY <2>4 DEF Entering, AllRead
  <2>6. CASE LoginRefused(i)
    <3>1. AllRead
      BY <1>3, <2>3, <2>6 DEF EnterAnswered, LoginRefused, AllRead
    <3>. QED BY <1>3, <2>3, <2>4, <2>5, <2>6, <3>1
         DEF EnterAnswered, LoginRefused, Uncrossed, SignedIn, SignedOut, Owner
  <2>7. CASE Entered(i)
    BY <1>1, <1>3, <2>3, <2>4, <2>5, <2>7
       DEF EnterAnswered, Entered, Authenticated, Uncrossed, SignedIn, Owner
  <2>8. CASE EnterFailed(i)
    BY <1>3, <2>3, <2>4, <2>5, <2>8
       DEF EnterAnswered, EnterFailed, Anonymous, limparSessao, Uncrossed, SignedOut, Owner
  <2>. QED BY <1>5, <2>6, <2>7, <2>8
<1>. QED BY <1>2, <1>4, <1>5 DEF EnterAnswered

\* A step of the panel or of the server.
LEMMA SessionKept ==
  ASSUME SessionInv,
         UNCHANGED <<storage, route, estado, usuario, accessToken, refreshToken, boot, entering,
                     reading, crossed>>
  PROVE  SessionInv'
  BY DEF SessionInv, SessionTypeOK, Chains, Uncrossed, Verifying, SignedIn, SignedOut, Owner,
     Waiting, Entering, AllRead

LEMMA ReadStep == SessionInv /\ (ReadAnswered \/ recarregarUsuario) => SessionInv'
<1>. SUFFICES ASSUME SessionInv, ReadAnswered \/ recarregarUsuario PROVE SessionInv'
  OBVIOUS
<1>. USE NoOne DEF SessionInv, SessionTypeOK, Waiting
<1>1. reading \in Calls /\ reading.who \in Holders
  BY DEF Calls
<1>2. CASE ReadAgain
  BY <1>1, <1>2 DEF ReadAgain, Chains, Uncrossed, Verifying, SignedIn, SignedOut, Owner,
     Entering, AllRead
<1>3. CASE ReadFailed
  BY <1>3 DEF ReadFailed, Chains, Uncrossed, Verifying, SignedIn, SignedOut, Owner, Entering,
     AllRead
<1>4. CASE recarregarUsuario
  <2>1. reading' = Call("me", accessToken)
    BY <1>4 DEF recarregarUsuario
  <2>2. reading' \in Calls /\ reading'.step = "me" /\ reading'.who = accessToken
    BY <2>1, CallType
  <2>3. estado = "autenticado" /\ (~crossed => ~Entering /\ AllRead)
    BY <1>4, NoneEntering DEF recarregarUsuario, InApp, Uncrossed
  <2>. QED BY <1>4, <2>2, <2>3
       DEF recarregarUsuario, InApp, Chains, Uncrossed, Verifying, SignedIn, SignedOut, Owner,
           Entering, AllRead
<1>. QED BY <1>2, <1>3, <1>4 DEF ReadAnswered

LEMMA LeaveStep ==
  ASSUME SessionInv, sair \/ \E at \in {"entrar", "app"} : LoadPage(at)
  PROVE  SessionInv'
<1>1. CASE sair
  BY <1>1, NoOne, NoneEntering DEF sair, InApp, Anonymous, limparSessao, SessionInv,
     SessionTypeOK, Waiting, Chains, Uncrossed, Verifying, SignedIn, SignedOut, Owner, Entering,
     AllRead
<1>2. ASSUME NEW at \in {"entrar", "app"}, LoadPage(at) PROVE SessionInv'
  <2>1. lerRefreshToken \in Holders /\ lerRefreshToken = refreshToken /\ storage \in BOOLEAN
        /\ (~storage => refreshToken = None)
    BY NoOne DEF SessionInv, SessionTypeOK, Chains, lerRefreshToken
  <2>2. LET m == Mounted(refreshToken, at) IN
          estado' = m.estado /\ boot' = m.boot /\ route' = m.route
    BY <1>2, <2>1 DEF LoadPage
  <2>3. /\ usuario' = None /\ accessToken' = None /\ entering' = NoAttempt /\ reading' = Quiet
        /\ crossed' = FALSE /\ storage' = storage /\ refreshToken' = refreshToken
    BY <1>2 DEF LoadPage
  <2>6. /\ entering' \in [Attempts -> Calls] /\ \A i \in Attempts : entering'[i] = Quiet
        /\ ~Entering' /\ AllRead'
    BY <2>3, NoneEntering, NoOne DEF Entering, AllRead
  <2>. USE NoOne DEF SessionInv, SessionTypeOK, Chains, Uncrossed, Waiting
  <2>4. CASE refreshToken = None
    <3>1. estado' = "anonimo" /\ boot' = Quiet /\ route' = "entrar"
      BY <2>1, <2>2, <2>4, MountedShape
    <3>. QED BY <2>1, <2>3, <2>4, <2>6, <3>1 DEF SignedOut, Owner
  <2>5. CASE refreshToken # None
    <3>1. /\ estado' = "verificando" /\ route' = at /\ boot' \in Calls
          /\ boot'.step = "refresh" /\ boot'.who = refreshToken
      BY <2>1, <2>2, <2>5, MountedShape
    <3>. QED BY <2>1, <2>3, <2>5, <2>6, <3>1 DEF Verifying
  <2>. QED BY <2>4, <2>5
<1>. QED BY <1>1, <1>2

LEMMA StepSession == SessionInv /\ [SessionNext]_sessionVars => SessionInv'
<1>. SUFFICES ASSUME SessionInv, [SessionNext]_sessionVars PROVE SessionInv'
  OBVIOUS
<1>1. CASE SessionNext
  BY <1>1, BootStep, EnterStep, ReadStep, LeaveStep DEF SessionNext
<1>2. CASE UNCHANGED sessionVars
  BY <1>2, SessionKept DEF sessionVars
<1>. QED BY <1>1, <1>2

(***************************************************************************)
(* The panel.                                                              *)
(***************************************************************************)

\* One request per generation, none from the future; without a panel there is
\* nothing; the current request is for the document of the URL.
OneCurrent ==
  /\ \A r \in requests : r.gen <= geracao /\ (r.gen = geracao => r.doc = url)
  /\ \A r, s \in requests : r.gen = s.gen => r = s
  /\ url = NoDoc => requests = {} /\ actions = {} /\ screen = Blank

\* Nothing carries a revision that was not committed.
Known ==
  /\ screen.status = "success" => screen.doc \in Docs /\ screen.rev <= revision[screen.doc]
  /\ \A r \in requests : r.rev <= revision[r.doc]
  /\ \A a \in actions : a.rev <= revision[a.doc]

\* A load and an action that are in flight together are both marked.
LoadsMarked == actions # {} => \A r \in requests : r.crossed
ActionsMarked == \A a \in actions : ~a.crossed =>
  actions = {a} /\ InFlight = {} /\ a.doc = url

\* What is not marked was read, or committed, after what is on the screen.
Shown(x) == screen.status = "success" /\ screen.doc = x.doc
LoadsFresh == \A r \in InFlight :
  ~r.crossed /\ r.rev # 0 /\ Shown(r) => screen.rev <= r.rev
ActionsFresh == \A a \in actions :
  ~a.crossed /\ a.rev # 0 /\ Shown(a) => screen.rev <= a.rev

ScreenInv == /\ ScreenTypeOK
             /\ OneCurrent /\ Known
             /\ LoadsMarked /\ ActionsMarked
             /\ LoadsFresh /\ ActionsFresh
             /\ PanelShowsItsDocument

LEMMA Records ==
  /\ \A r \in Requests : LET m == [r EXCEPT !.crossed = TRUE] IN
       m \in Requests /\ m.crossed /\ m.gen = r.gen /\ m.doc = r.doc /\ m.rev = r.rev
  /\ \A a \in Actions : LET m == [a EXCEPT !.crossed = TRUE] IN
       m \in Actions /\ m.crossed /\ m.doc = a.doc /\ m.rev = a.rev
  /\ \A a \in Actions : LET m == [a EXCEPT !.orphan = TRUE] IN
       m \in Actions /\ m.crossed = a.crossed /\ m.doc = a.doc /\ m.rev = a.rev
  /\ Blank \in Screens /\ Failed \in Screens /\ Failed.status = "error"
  /\ Blank.status = "loading"
<1>1. 0 \in Revisions
  BY ScreenBounds DEF Revisions
<1>2. Blank \in Screens /\ Blank.status = "loading"
  BY <1>1, ScreenAssumption DEF Blank, Screens
<1>3. Failed \in Screens /\ Failed.status = "error"
  BY <1>1, ScreenAssumption DEF Blank, Failed, Screens
<1>4. \A r \in Requests : LET m == [r EXCEPT !.crossed = TRUE] IN
       m \in Requests /\ m.crossed /\ m.gen = r.gen /\ m.doc = r.doc /\ m.rev = r.rev
  BY DEF Requests
<1>5. \A a \in Actions : LET m == [a EXCEPT !.crossed = TRUE] IN
       m \in Actions /\ m.crossed /\ m.doc = a.doc /\ m.rev = a.rev
  BY DEF Actions
<1>6. \A a \in Actions : LET m == [a EXCEPT !.orphan = TRUE] IN
       m \in Actions /\ m.crossed = a.crossed /\ m.doc = a.doc /\ m.rev = a.rev
  BY DEF Actions
<1>. QED BY <1>2, <1>3, <1>4, <1>5, <1>6

LEMMA InitScreen == ScreenInit => ScreenInv
<1>. SUFFICES ASSUME ScreenInit PROVE ScreenInv
  OBVIOUS
<1>1. ScreenTypeOK
  BY Records, ScreenBounds DEF ScreenInit, ScreenTypeOK, Revisions
<1>. QED BY <1>1, Records
         DEF ScreenInit, ScreenInv, OneCurrent, Known, LoadsMarked, ActionsMarked,
             LoadsFresh, ActionsFresh, PanelShowsItsDocument, InFlight

\* A new request marks the actions in flight, and leaves the older requests behind.
LEMMA FetchKeeps ==
  ASSUME ScreenInv, NEW d \in Docs, NEW token \in Tokens, NEW X \in SUBSET actions,
         Fetch(d, token, X), url' = d, actions' = AllCrossed(X),
         revision' = revision, screen' = screen \/ screen' = Revalidating
  PROVE  ScreenInv'
<1>. DEFINE new == [gen |-> geracao + 1, doc |-> d, by |-> token, rev |-> 0,
                    crossed |-> X # {}]
<1>1. /\ geracao \in 0..MaxGeneration /\ geracao < MaxGeneration /\ geracao' = geracao + 1
      /\ requests' = {r \in requests : r.rev # 0} \cup {new}
      /\ requests \subseteq Requests /\ actions \subseteq Actions /\ screen \in Screens
      /\ revision \in [Docs -> Revisions \ {0}]
  BY DEF Fetch, ScreenInv, ScreenTypeOK
<1>2. geracao + 1 \in 1..MaxGeneration /\ new \in Requests
  <2>1. geracao + 1 \in 1..MaxGeneration
    BY <1>1, ScreenBounds
  <2>2. (X # {}) \in BOOLEAN /\ 0 \in Revisions
    BY ScreenBounds DEF Revisions
  <2>. QED BY <2>1, <2>2 DEF Requests
<1>3. \A a \in actions' : a \in Actions /\ a.crossed /\ \E b \in X : a.rev = b.rev /\ a.doc = b.doc
  <2>. SUFFICES ASSUME NEW a \in actions'
                PROVE  a \in Actions /\ a.crossed /\ \E b \in X : a.rev = b.rev /\ a.doc = b.doc
    OBVIOUS
  <2>1. PICK b \in X : a = [b EXCEPT !.crossed = TRUE]
    BY DEF AllCrossed
  <2>2. b \in Actions
    BY <1>1
  <2>. QED BY <2>1, <2>2, Records
<1>4. /\ screen' \in Screens /\ screen'.status = screen.status /\ screen'.doc = screen.doc
      /\ screen'.rev = screen.rev
  BY <1>1 DEF Revalidating, Screens
<1>5. url' # NoDoc
  BY ScreenAssumption
<1>6. \A r \in requests : r.gen <= geracao /\ r.gen \in Int
  BY <1>1 DEF ScreenInv, OneCurrent, Requests
<1>7. \A r \in requests' : r.gen = geracao' <=> r = new
  BY <1>1, <1>6
<1>8. InFlight' = {new}
  BY <1>1, <1>5, <1>7 DEF InFlight, Current
<1>9. /\ new.gen = geracao + 1 /\ new.doc = d /\ new.rev = 0
      /\ X # {} => new.crossed
  OBVIOUS
<1>. HIDE DEF new
<1>10. ScreenTypeOK'
  BY <1>1, <1>2, <1>3, <1>4 DEF ScreenTypeOK
<1>11. OneCurrent'
  <2>1. \A r \in requests' : r.gen <= geracao' /\ (r.gen = geracao' => r.doc = url')
    BY <1>1, <1>6, <1>7, <1>9
  <2>2. \A r, s \in requests' : r.gen = s.gen => r = s
    BY <1>1, <1>6, <1>7 DEF ScreenInv, OneCurrent
  <2>. QED BY <1>5, <2>1, <2>2 DEF OneCurrent
<1>12. Known'
  <2>1. 0 <= revision[d]
    BY <1>1, ScreenBounds DEF Revisions
  <2>2. \A r \in requests' : r.rev <= revision'[r.doc]
    BY <1>1, <1>9, <2>1 DEF ScreenInv, Known
  <2>3. \A a \in actions' : a.rev <= revision'[a.doc]
    BY <1>3 DEF ScreenInv, Known
  <2>. QED BY <1>4, <2>2, <2>3 DEF ScreenInv, Known
<1>13. LoadsMarked'
  <2>. SUFFICES ASSUME actions' # {} PROVE \A r \in requests' : r.crossed
    BY DEF LoadsMarked
  <2>1. X # {} /\ actions # {}
    BY DEF AllCrossed
  <2>. QED BY <1>1, <1>9, <2>1 DEF ScreenInv, LoadsMarked
<1>14. ActionsMarked' /\ ActionsFresh'
  BY <1>3 DEF ActionsMarked, ActionsFresh
<1>15. LoadsFresh' /\ PanelShowsItsDocument'
  BY <1>8, <1>9 DEF LoadsFresh, PanelShowsItsDocument
<1>. QED BY <1>10, <1>11, <1>12, <1>13, <1>14, <1>15 DEF ScreenInv

LEMMA FetchStep ==
  ASSUME ScreenInv, NEW token \in Tokens,
         \/ \E d \in Docs : Open(d, token) \/ Navigate(d, token)
         \/ recarregar(token)
         \/ \E a \in actions : Uploaded(a, token)
  PROVE  ScreenInv'
<1>1. url \in Docs \cup {NoDoc} /\ AllCrossed({}) = {}
  BY DEF ScreenInv, ScreenTypeOK, AllCrossed
<1>2. ASSUME NEW d \in Docs, Open(d, token) PROVE ScreenInv'
  <2>1. actions = {}
    BY <1>2 DEF Open, ScreenInv, OneCurrent
  <2>2. actions' = AllCrossed({}) /\ Fetch(d, token, {})
    BY <1>1, <1>2, <2>1 DEF Open
  <2>. QED BY <1>2, <2>2, FetchKeeps DEF Open
<1>3. ASSUME NEW d \in Docs, Navigate(d, token) PROVE ScreenInv'
  BY <1>3, FetchKeeps DEF Navigate
<1>4. ASSUME recarregar(token) PROVE ScreenInv'
  BY <1>1, <1>4, FetchKeeps DEF recarregar
<1>5. ASSUME NEW a \in actions, Uploaded(a, token) PROVE ScreenInv'
  <2>1. url \in Docs
    BY <1>1, <1>5 DEF ScreenInv, OneCurrent
  <2>2. actions \ {a} \in SUBSET actions
    OBVIOUS
  <2>. QED BY <1>5, <2>1, <2>2, FetchKeeps DEF Uploaded
<1>. QED BY <1>2, <1>3, <1>4, <1>5

LEMMA InvTypes ==
  ASSUME ScreenInv
  PROVE  /\ revision \in [Docs -> Revisions \ {0}] /\ Revisions \subseteq Int
         /\ url \in Docs \cup {NoDoc} /\ screen \in Screens /\ geracao \in Int
         /\ requests \subseteq Requests /\ actions \subseteq Actions
         /\ \A r \in requests : r.doc \in Docs /\ r.rev \in Revisions /\ r.gen \in Int
         /\ \A a \in actions : a.doc \in Docs /\ a.rev \in Revisions
         /\ url = NoDoc => requests = {} /\ actions = {}
  BY ScreenBounds DEF ScreenInv, ScreenTypeOK, OneCurrent, Requests, Actions, Revisions

LEMMA ReadsStep ==
  ASSUME ScreenInv, NEW r \in requests, ServerReads(r)
  PROVE  ScreenInv'
<1>. DEFINE m == [r EXCEPT !.rev = revision[r.doc]]
<1>1. /\ requests' = (requests \ {r}) \cup {m}
      /\ revision' = revision /\ url' = url /\ screen' = screen /\ geracao' = geracao
      /\ actions' = actions
  BY DEF ServerReads
<1>2. /\ m \in Requests /\ m.gen = r.gen /\ m.doc = r.doc /\ m.crossed = r.crossed
      /\ m.rev = revision[m.doc]
  BY InvTypes DEF Requests
<1>. HIDE DEF m
<1>3. InFlight' = {} => InFlight = {}
  BY <1>1, <1>2 DEF InFlight, Current
<1>4. InFlight = {} => InFlight' = {}
  BY <1>1, <1>2 DEF InFlight, Current
<1>5. ScreenTypeOK' /\ OneCurrent'
  BY <1>1, <1>2 DEF ScreenInv, ScreenTypeOK, OneCurrent
<1>6. Known' /\ LoadsMarked'
  BY <1>1, <1>2, InvTypes DEF ScreenInv, Known, LoadsMarked
<1>7. ActionsMarked' /\ ActionsFresh' /\ PanelShowsItsDocument'
  BY <1>1, <1>3, <1>4
     DEF ScreenInv, ActionsMarked, ActionsFresh, Shown, PanelShowsItsDocument
<1>8. LoadsFresh'
  <2>. SUFFICES ASSUME NEW s \in InFlight', ~s.crossed, s.rev # 0, Shown(s)'
                PROVE  screen.rev <= s.rev
    BY <1>1 DEF LoadsFresh
  <2>1. CASE s = m
    BY <1>1, <1>2, <2>1 DEF ScreenInv, Known, Shown
  <2>2. CASE s # m
    BY <1>1, <2>2 DEF ScreenInv, LoadsFresh, InFlight, Current, Shown
  <2>. QED BY <2>1, <2>2
<1>. QED BY <1>5, <1>6, <1>7, <1>8 DEF ScreenInv

\* The answer of the current request is the last one in flight, and no unmarked
\* action is.
LEMMA LastInFlight ==
  ASSUME ScreenInv, NEW r \in requests, Current(r)
  PROVE  /\ \A s \in requests \ {r} : ~Current(s)
         /\ \A a \in actions : a.crossed
         /\ r.doc = url
  BY DEF ScreenInv, OneCurrent, ActionsMarked, InFlight, Current

LEMMA AnsweredStep ==
  ASSUME ScreenInv, NEW r \in requests, Answered(r)
  PROVE  ScreenInv'
<1>1. /\ requests' = requests \ {r} /\ r.rev # 0
      /\ revision' = revision /\ url' = url /\ geracao' = geracao /\ actions' = actions
      /\ screen' = IF Current(r) THEN Showing(r) ELSE screen
  BY DEF Answered
<1>2. url # NoDoc /\ r \in Requests
  BY InvTypes
<1>3. CASE Current(r)
  <2>1. /\ screen' \in Screens /\ screen'.status = "success" /\ screen'.doc = url
        /\ screen'.rev = r.rev /\ screen'.doc \in Docs
    BY <1>1, <1>2, <1>3, LastInFlight, InvTypes DEF Showing, Screens, Requests
  <2>2. InFlight' = {}
    BY <1>1, <1>3, LastInFlight DEF InFlight, Current
  <2>3. ScreenTypeOK' /\ OneCurrent' /\ Known' /\ LoadsMarked'
    BY <1>1, <1>2, <1>3, <2>1, LastInFlight
       DEF ScreenInv, ScreenTypeOK, OneCurrent, Known, LoadsMarked
  <2>4. ActionsMarked' /\ ActionsFresh' /\ LoadsFresh' /\ PanelShowsItsDocument'
    BY <1>1, <1>3, <2>1, <2>2, LastInFlight
       DEF ActionsMarked, ActionsFresh, LoadsFresh, PanelShowsItsDocument
  <2>. QED BY <2>3, <2>4 DEF ScreenInv
<1>4. CASE ~Current(r)
  <2>1. screen' = screen /\ InFlight' = InFlight
    BY <1>1, <1>4 DEF InFlight, Current
  <2>. QED BY <1>1, <1>2, <2>1
       DEF ScreenInv, ScreenTypeOK, OneCurrent, Known, LoadsMarked, ActionsMarked, ActionsFresh,
           LoadsFresh, Shown, PanelShowsItsDocument
<1>. QED BY <1>3, <1>4

LEMMA LoadFailedStep ==
  ASSUME ScreenInv, NEW r \in requests, LoadFailed(r)
  PROVE  ScreenInv'
<1>1. /\ requests' = requests \ {r}
      /\ revision' = revision /\ url' = url /\ geracao' = geracao
  BY DEF LoadFailed
<1>2. url # NoDoc
  BY InvTypes
<1>3. CASE Current(r)
  <2>1. screen' = Failed /\ actions' = AllOrphans(actions)
    BY <1>3 DEF LoadFailed
  <2>2. \A a \in actions' : a \in Actions /\ a.crossed
                            /\ \E b \in actions : a.doc = b.doc /\ a.rev = b.rev
    <3>. SUFFICES ASSUME NEW a \in actions'
                  PROVE  a \in Actions /\ a.crossed
                         /\ \E b \in actions : a.doc = b.doc /\ a.rev = b.rev
      OBVIOUS
    <3>1. PICK b \in actions : a = [b EXCEPT !.orphan = TRUE]
      BY <2>1 DEF AllOrphans
    <3>. QED BY <1>3, <3>1, LastInFlight, InvTypes, Records
  <2>3. actions' # {} => actions # {}
    BY <2>1 DEF AllOrphans
  <2>4. ScreenTypeOK' /\ OneCurrent' /\ Known' /\ LoadsMarked'
    BY <1>1, <1>2, <2>1, <2>2, <2>3, Records
       DEF ScreenInv, ScreenTypeOK, OneCurrent, Known, LoadsMarked
  <2>5. ActionsMarked' /\ ActionsFresh' /\ LoadsFresh' /\ PanelShowsItsDocument'
    BY <2>1, <2>2, Records
       DEF ActionsMarked, ActionsFresh, LoadsFresh, Shown, PanelShowsItsDocument
  <2>. QED BY <2>4, <2>5 DEF ScreenInv
<1>4. CASE ~Current(r)
  <2>1. screen' = screen /\ actions' = actions /\ InFlight' = InFlight
    BY <1>1, <1>4 DEF LoadFailed, InFlight, Current
  <2>. QED BY <1>1, <1>2, <2>1
       DEF ScreenInv, ScreenTypeOK, OneCurrent, Known, LoadsMarked, ActionsMarked, ActionsFresh,
           LoadsFresh, Shown, PanelShowsItsDocument
<1>. QED BY <1>3, <1>4

LEMMA UnmountStep == ScreenInv /\ Unmount => ScreenInv'
<1>. SUFFICES ASSUME ScreenInv, Unmount PROVE ScreenInv'
  OBVIOUS
<1>1. InFlight' = {}
  BY DEF Unmount, InFlight
<1>. QED BY <1>1, Records, ScreenBounds
     DEF Unmount, ScreenInv, ScreenTypeOK, OneCurrent, Known, LoadsMarked, ActionsMarked,
         ActionsFresh, LoadsFresh, Shown, PanelShowsItsDocument

LEMMA ExecuteStep ==
  ASSUME ScreenInv, NEW kind \in {"decide", "upload"}, NEW token \in Tokens,
         Execute(kind, token)
  PROVE  ScreenInv'
<1>. DEFINE new == [kind |-> kind, doc |-> screen.doc, by |-> token, rev |-> 0,
                    crossed |-> actions # {} \/ InFlight # {} \/ screen.crossed,
                    orphan |-> FALSE]
<1>1. /\ actions' = AllCrossed(actions) \cup {new} /\ requests' = AllCrossed(requests)
      /\ revision' = revision /\ url' = url /\ screen' = screen /\ geracao' = geracao
      /\ url # NoDoc /\ screen.status = "success"
  BY DEF Execute
<1>2. screen.doc \in Docs
  BY <1>1 DEF ScreenInv, Known
<1>3. new \in Actions /\ new.doc = screen.doc /\ new.rev = 0
  <2>1. (actions # {} \/ InFlight # {} \/ screen.crossed) \in BOOLEAN /\ 0 \in Revisions
    BY ScreenBounds, InvTypes DEF Revisions, Screens
  <2>. QED BY <1>2, <2>1 DEF Actions
<1>4. ~new.crossed => actions = {} /\ InFlight = {} /\ ~screen.crossed
  OBVIOUS
<1>. HIDE DEF new
<1>5. \A a \in actions' : \/ a = new
                          \/ /\ a \in Actions /\ a.crossed
                             /\ \E b \in actions : a.rev = b.rev /\ a.doc = b.doc
  <2>. SUFFICES ASSUME NEW a \in actions', a # new
                PROVE  /\ a \in Actions /\ a.crossed
                       /\ \E b \in actions : a.rev = b.rev /\ a.doc = b.doc
    OBVIOUS
  <2>1. PICK b \in actions : a = [b EXCEPT !.crossed = TRUE]
    BY <1>1 DEF AllCrossed
  <2>. QED BY <2>1, InvTypes, Records
<1>6. \A r \in requests' : /\ r \in Requests /\ r.crossed
                           /\ \E s \in requests : /\ r = [s EXCEPT !.crossed = TRUE]
                                                  /\ r.gen = s.gen /\ r.doc = s.doc
                                                  /\ r.rev = s.rev
  <2>. SUFFICES ASSUME NEW r \in requests'
                PROVE  /\ r \in Requests /\ r.crossed
                       /\ \E s \in requests : /\ r = [s EXCEPT !.crossed = TRUE]
                                              /\ r.gen = s.gen /\ r.doc = s.doc
                                              /\ r.rev = s.rev
    OBVIOUS
  <2>1. PICK s \in requests : r = [s EXCEPT !.crossed = TRUE]
    BY <1>1 DEF AllCrossed
  <2>. QED BY <2>1, InvTypes, Records
<1>7. InFlight' = {} <=> InFlight = {}
  <2>1. ASSUME NEW r \in InFlight' PROVE \E s \in requests : s \in InFlight
    BY <1>1, <1>6 DEF InFlight, Current
  <2>2. ASSUME NEW s \in InFlight PROVE \E r \in requests' : r \in InFlight'
    <3>. DEFINE r == [s EXCEPT !.crossed = TRUE]
    <3>1. s \in requests /\ s.gen = geracao
      BY DEF InFlight, Current
    <3>2. r \in requests' /\ r.gen = s.gen
      BY <1>1, <3>1, InvTypes, Records DEF AllCrossed
    <3>. HIDE DEF r
    <3>. QED BY <1>1, <3>1, <3>2 DEF InFlight, Current
  <2>. QED BY <2>1, <2>2 DEF InFlight
<1>8. ScreenTypeOK' /\ Known' /\ LoadsMarked'
  <2>1. 0 <= revision[screen.doc]
    BY <1>2, InvTypes, ScreenBounds DEF Revisions
  <2>. QED BY <1>1, <1>3, <1>5, <1>6, <2>1
           DEF ScreenInv, ScreenTypeOK, Known, LoadsMarked
<1>9. OneCurrent'
  <2>1. \A r, s \in requests' : r.gen = s.gen => r = s
    <3>. SUFFICES ASSUME NEW r \in requests', NEW s \in requests', r.gen = s.gen PROVE r = s
      OBVIOUS
    <3>1. PICK p \in requests : r = [p EXCEPT !.crossed = TRUE] /\ r.gen = p.gen
      BY <1>6
    <3>2. PICK q \in requests : s = [q EXCEPT !.crossed = TRUE] /\ s.gen = q.gen
      BY <1>6
    <3>3. p = q
      BY <3>1, <3>2 DEF ScreenInv, OneCurrent
    <3>. QED BY <3>1, <3>2, <3>3
  <2>2. \A r \in requests' : r.gen <= geracao' /\ (r.gen = geracao' => r.doc = url')
    BY <1>1, <1>6 DEF ScreenInv, OneCurrent
  <2>. QED BY <1>1, <2>1, <2>2 DEF OneCurrent
<1>10. ActionsMarked'
  <2>. SUFFICES ASSUME NEW a \in actions', ~a.crossed
                PROVE  actions' = {a} /\ InFlight' = {} /\ a.doc = url
    BY <1>1 DEF ActionsMarked
  <2>1. a = new
    BY <1>5
  <2>2. actions = {} /\ InFlight = {} /\ ~screen.crossed
    BY <1>4, <2>1
  <2>3. screen.doc = url
    BY <1>1, <2>2 DEF ScreenInv, PanelShowsItsDocument
  <2>. QED BY <1>1, <1>3, <1>7, <2>1, <2>2, <2>3 DEF AllCrossed
<1>11. ActionsFresh' /\ LoadsFresh'
  BY <1>3, <1>5, <1>6 DEF ActionsFresh, LoadsFresh, InFlight
<1>12. PanelShowsItsDocument'
  BY <1>1, <1>7 DEF ScreenInv, PanelShowsItsDocument
<1>. QED BY <1>8, <1>9, <1>10, <1>11, <1>12 DEF ScreenInv

\* The server commits to one document, for whomever.
LEMMA CommittedKnown ==
  ASSUME ScreenInv, NEW d \in Docs, Committed(d)
  PROVE  /\ revision' \in [Docs -> Revisions \ {0}]
         /\ revision[d] < revision'[d] /\ revision'[d] \in Revisions \ {0}
         /\ \A e \in Docs : revision[e] <= revision'[e]
<1>1. /\ revision \in [Docs -> Revisions \ {0}] /\ revision[d] < MaxRevision
      /\ revision' = [revision EXCEPT ![d] = @ + 1]
  BY InvTypes DEF Committed
<1>2. revision[d] + 1 \in Revisions \ {0} /\ revision[d] \in Int
  BY <1>1, ScreenBounds DEF Revisions
<1>. QED BY <1>1, <1>2, InvTypes

LEMMA CommitsStep ==
  ASSUME ScreenInv,
         (\E d \in Docs : OthersCommit(d)) \/ (\E a \in actions : ActionCommits(a))
  PROVE  ScreenInv'
<1>1. ASSUME NEW d \in Docs, OthersCommit(d) PROVE ScreenInv'
  <2>1. /\ url' = url /\ screen' = screen /\ geracao' = geracao
        /\ requests' = requests /\ actions' = actions /\ Committed(d)
    BY <1>1 DEF OthersCommit
  <2>2. Known'
    BY <2>1, CommittedKnown, InvTypes DEF ScreenInv, Known, Screens
  <2>3. InFlight' = InFlight
    BY <2>1 DEF InFlight, Current
  <2>. QED BY <2>1, <2>2, <2>3, CommittedKnown
           DEF ScreenInv, ScreenTypeOK, OneCurrent, LoadsMarked, ActionsMarked, LoadsFresh,
               ActionsFresh, Shown, PanelShowsItsDocument
<1>2. ASSUME NEW a \in actions, ActionCommits(a) PROVE ScreenInv'
  <2>. DEFINE m == [a EXCEPT !.rev = revision'[a.doc]]
  <2>1. /\ url' = url /\ screen' = screen /\ geracao' = geracao /\ requests' = requests
        /\ actions' = (actions \ {a}) \cup {m} /\ a.doc \in Docs /\ Committed(a.doc)
    BY <1>2, InvTypes DEF ActionCommits
  <2>2. /\ m \in Actions /\ m.doc = a.doc /\ m.crossed = a.crossed
        /\ m.rev = revision'[m.doc]
    BY <2>1, CommittedKnown, InvTypes DEF Actions
  <2>. HIDE DEF m
  <2>3. ScreenTypeOK' /\ OneCurrent' /\ LoadsMarked'
    BY <2>1, <2>2, CommittedKnown, InvTypes
       DEF ScreenInv, ScreenTypeOK, OneCurrent, LoadsMarked
  <2>4. Known'
    BY <2>1, <2>2, CommittedKnown, InvTypes DEF ScreenInv, Known, Screens
  <2>5. InFlight' = InFlight
    BY <2>1 DEF InFlight, Current
  <2>6. ActionsMarked' /\ LoadsFresh' /\ PanelShowsItsDocument'
    BY <2>1, <2>2, <2>5
       DEF ScreenInv, ActionsMarked, LoadsFresh, Shown, PanelShowsItsDocument
  <2>7. ActionsFresh'
    BY <2>1, <2>2, CommittedKnown, <2>4
       DEF ScreenInv, ActionsFresh, Shown, Known
  <2>. QED BY <2>3, <2>4, <2>6, <2>7 DEF ScreenInv
<1>. QED BY <1>1, <1>2

LEMMA AnswerStep ==
  ASSUME ScreenInv, NEW a \in actions, Decided(a) \/ ActionFailed(a)
  PROVE  ScreenInv'
<1>1. /\ actions' = actions \ {a} /\ revision' = revision /\ url' = url
      /\ geracao' = geracao /\ requests' = requests /\ InFlight' = InFlight /\ url # NoDoc
  BY InvTypes DEF Decided, ActionFailed, InFlight, Current
<1>2. CASE Decided(a)
  <2>1. screen' = Showing(a) /\ a \in Actions
    BY <1>2, InvTypes DEF Decided
  <2>2. /\ screen' \in Screens /\ screen'.status = "success" /\ screen'.doc = a.doc
        /\ screen'.rev = a.rev /\ screen'.crossed = a.crossed
    BY <2>1 DEF Showing, Screens, Actions
  <2>3. \A b \in actions \ {a} : b.crossed
    BY DEF ScreenInv, ActionsMarked
  <2>4. \A r \in requests : r.crossed
    BY DEF ScreenInv, LoadsMarked
  <2>5. ScreenTypeOK' /\ OneCurrent' /\ Known' /\ LoadsMarked'
    BY <1>1, <2>2, <2>4, InvTypes
       DEF ScreenInv, ScreenTypeOK, OneCurrent, Known, LoadsMarked
  <2>6. ActionsMarked' /\ ActionsFresh' /\ LoadsFresh'
    BY <1>1, <2>3, <2>4 DEF ActionsMarked, ActionsFresh, LoadsFresh, InFlight
  <2>7. PanelShowsItsDocument'
    BY <1>1, <2>2 DEF ScreenInv, ActionsMarked, PanelShowsItsDocument
  <2>. QED BY <2>5, <2>6, <2>7 DEF ScreenInv
<1>3. CASE ActionFailed(a)
  BY <1>1, <1>3
     DEF ActionFailed, ScreenInv, ScreenTypeOK, OneCurrent, Known, LoadsMarked, ActionsMarked,
         ActionsFresh, LoadsFresh, Shown, PanelShowsItsDocument
<1>. QED BY <1>2, <1>3

LEMMA StepScreen ==
  ASSUME ScreenInv, NEW token \in Tokens,
         ScreenNext(token) \/ Unmount \/ \E d \in Docs : OthersCommit(d)
  PROVE  ScreenInv'
  BY FetchStep, ReadsStep, AnsweredStep, LoadFailedStep, UnmountStep, ExecuteStep, CommitsStep,
     AnswerStep DEF ScreenNext, LoadAnswered, ActionAnswered

\* What goes back on the screen was marked.
LEMMA NoUnmarkedStepBack ==
  ASSUME ScreenInv, NEW token \in Tokens,
         ScreenNext(token) \/ Unmount \/ (\E d \in Docs : OthersCommit(d)), GoesBack
  PROVE  screen'.crossed
<1>1. screen'.status = "success" /\ screen'.rev < screen.rev /\ screen'.doc = screen.doc
      /\ screen.status = "success"
  BY DEF GoesBack
<1>2. screen.rev \in Int /\ screen' # Blank /\ screen' # Failed
  BY <1>1, InvTypes, Records DEF Screens
<1>3. screen' # screen
  BY <1>1, <1>2
<1>4. screen' # Revalidating
  BY <1>1, <1>2, InvTypes DEF Revalidating, Screens
<1>5. ASSUME NEW r \in requests, LoadAnswered(r) PROVE screen'.crossed
  <2>1. Answered(r) /\ Current(r) /\ screen' = Showing(r)
    BY <1>2, <1>3, <1>5 DEF LoadAnswered, ServerReads, Answered, LoadFailed
  <2>2. screen'.doc = r.doc /\ screen'.rev = r.rev /\ screen'.crossed = r.crossed /\ r.rev # 0
    BY <2>1 DEF Showing, Answered
  <2>3. r.crossed \in BOOLEAN /\ r.rev \in Int
    BY InvTypes DEF Requests
  <2>4. ~r.crossed => screen.rev <= r.rev
    BY <1>1, <2>1, <2>2 DEF ScreenInv, LoadsFresh, InFlight, Shown
  <2>. QED BY <1>1, <1>2, <2>2, <2>3, <2>4
<1>6. ASSUME NEW a \in actions, ActionAnswered(a, token) PROVE screen'.crossed
  <2>1. Decided(a) /\ screen' = Showing(a)
    BY <1>3, <1>4, <1>6 DEF ActionAnswered, ActionCommits, Decided, Uploaded, ActionFailed
  <2>2. screen'.doc = a.doc /\ screen'.rev = a.rev /\ screen'.crossed = a.crossed /\ a.rev # 0
    BY <2>1 DEF Showing, Decided
  <2>3. a.crossed \in BOOLEAN /\ a.rev \in Int
    BY InvTypes DEF Actions
  <2>4. ~a.crossed => screen.rev <= a.rev
    BY <1>1, <2>2 DEF ScreenInv, ActionsFresh, Shown
  <2>. QED BY <1>1, <1>2, <2>2, <2>3, <2>4
<1>. QED BY <1>2, <1>3, <1>4, <1>5, <1>6
         DEF ScreenNext, Open, Navigate, recarregar, Execute, Unmount, OthersCommit

(***************************************************************************)
(* The tab.                                                                *)
(***************************************************************************)

\* The panel is only there for an authenticated tab.
PanelMounted == url # NoDoc => InApp

\* What the panel has, or is about to get, was asked for by the user shown.
Asked ==
  ~crossed => /\ screen.status = "success" => screen.by = usuario
              /\ \A r \in requests : r.by = usuario
              /\ \A a \in actions : a.by = usuario

TabInv == SessionInv /\ ScreenInv /\ PanelMounted /\ Asked

LEMMA InitTab == Init => TabInv
<1>. SUFFICES ASSUME Init PROVE TabInv
  OBVIOUS
<1>. QED BY InitSession, InitScreen, Records DEF Init, ScreenInit, TabInv, PanelMounted, Asked

\* A tab that stays authenticated inside keeps its user, or was crossed.
LEMMA UserKept ==
  ASSUME SessionInv, SessionNext, InApp, InApp'
  PROVE  (crossed' = FALSE) => ~crossed /\ usuario' = usuario
<1>. USE DEF SessionInv, Waiting, InApp
<1>1. ~crossed => ~Waiting(boot) /\ \A i \in Attempts : ~Waiting(entering[i])
  BY NoneEntering DEF Uncrossed, SignedIn
<1>2. ~LoadPage("entrar") /\ ~LoadPage("app")
  BY DEF LoadPage, Mounted
<1>3. CASE ReadAnswered
  <2>1. reading.who # None => Waiting(reading)
    BY NoOne DEF Chains
  <2>. QED BY <1>3, <2>1 DEF ReadAnswered, ReadAgain, ReadFailed, Uncrossed, SignedIn
<1>4. CASE BootAnswered
  BY <1>1, <1>4 DEF BootAnswered, BootRefreshed, BootRead, BootFailed
<1>5. ASSUME NEW i \in Attempts, EnterAnswered(i) PROVE (crossed' = FALSE) => ~crossed /\ usuario' = usuario
  BY <1>1, <1>5 DEF EnterAnswered, LoggedIn, LoginRefused, Entered, EnterFailed
<1>6. CASE sair \/ recarregarUsuario \/ \E i \in Attempts, p \in People : Enter(i, p)
  BY <1>6 DEF sair, Anonymous, recarregarUsuario, Enter
<1>. QED BY <1>2, <1>3, <1>4, <1>5, <1>6 DEF SessionNext

LEMMA SessionStepTab == TabInv /\ SessionStep => TabInv'
<1>. SUFFICES ASSUME TabInv, SessionStep PROVE TabInv'
  OBVIOUS
<1>1. SessionInv /\ SessionNext /\ SessionInv'
  BY StepSession DEF TabInv, SessionStep
<1>2. CASE InApp'
  <2>1. UNCHANGED <<revision, url, screen, geracao, requests, actions>>
    BY <1>2 DEF SessionStep, InApp, screenVars
  <2>2. ScreenInv'
    BY <2>1 DEF TabInv, ScreenInv, ScreenTypeOK, OneCurrent, Known, LoadsMarked, ActionsMarked,
       LoadsFresh, ActionsFresh, Shown, InFlight, Current, PanelShowsItsDocument
  <2>3. Asked'
    <3>1. CASE url = NoDoc
      BY <2>1, <3>1, Records DEF TabInv, ScreenInv, OneCurrent, Asked
    <3>2. CASE url # NoDoc
      BY <1>1, <1>2, <2>1, <3>2, UserKept DEF TabInv, PanelMounted, Asked, SessionTypeOK, SessionInv
    <3>. QED BY <3>1, <3>2
  <2>. QED BY <1>1, <1>2, <2>2, <2>3 DEF TabInv, PanelMounted
<1>3. CASE ~InApp'
  <2>1. Unmount
    BY <1>3 DEF SessionStep, InApp
  <2>2. ScreenInv'
    BY <2>1, UnmountStep DEF TabInv
  <2>. QED BY <1>1, <2>1, <2>2, Records DEF Unmount, TabInv, PanelMounted, Asked
<1>. QED BY <1>2, <1>3

\* What the panel sends carries the token of its user.
LEMMA PanelAsks ==
  ASSUME TabInv, NEW token \in Tokens, ~crossed => token = usuario,
         ScreenNext(token) \/ Unmount \/ (\E d \in Docs : OthersCommit(d)),
         crossed' = crossed, usuario' = usuario
  PROVE  Asked'
<1>. SUFFICES ASSUME ~crossed PROVE Asked'
  BY DEF Asked
<1>1. /\ token = usuario
      /\ screen.status = "success" => screen.by = usuario
      /\ \A r \in requests : r \in Requests /\ r.by = usuario
      /\ \A a \in actions : a \in Actions /\ a.by = usuario
      /\ screen \in Screens
  BY InvTypes DEF TabInv, Asked
<1>2. \A X \in SUBSET actions : \A a \in AllCrossed(X) \cup AllOrphans(X) : a.by = usuario
  BY <1>1 DEF AllCrossed, AllOrphans, Actions
<1>3. \A r \in AllCrossed(requests) : r.by = usuario
  BY <1>1 DEF AllCrossed, Requests
<1>4. ASSUME NEW d, NEW X, Fetch(d, token, X) PROVE \A r \in requests' : r.by = usuario
  BY <1>1, <1>4 DEF Fetch
<1>5. /\ Revalidating.status = screen.status /\ Revalidating.by = screen.by
      /\ Blank.status # "success" /\ Failed.status # "success"
      /\ \A x : Showing(x).by = x.by
  BY <1>1, Records DEF Revalidating, Screens, Showing
<1>. USE <1>1 DEF Asked
<1>6. ASSUME NEW d \in Docs, Open(d, token) \/ Navigate(d, token) PROVE Asked'
  BY <1>2, <1>4, <1>6 DEF Open, Navigate
<1>7. ASSUME recarregar(token) PROVE Asked'
  BY <1>2, <1>4, <1>5, <1>7 DEF recarregar
<1>8. ASSUME NEW kind, Execute(kind, token) PROVE Asked'
  BY <1>2, <1>3, <1>8 DEF Execute
<1>9. ASSUME NEW r \in requests, LoadAnswered(r) PROVE Asked'
  <2>1. [r EXCEPT !.rev = revision[r.doc]].by = usuario
    BY DEF Requests
  <2>2. ServerReads(r) => Asked'
    BY <2>1 DEF ServerReads
  <2>3. Answered(r) => Asked'
    BY <1>5 DEF Answered
  <2>4. LoadFailed(r) => Asked'
    <3>1. \A a \in AllOrphans(actions) : a.by = usuario
      BY <1>2
    <3>. QED BY <1>5, <3>1 DEF LoadFailed
  <2>. QED BY <1>9, <2>2, <2>3, <2>4 DEF LoadAnswered
<1>10. ASSUME NEW a \in actions, ActionAnswered(a, token) PROVE Asked'
  <2>1. [a EXCEPT !.rev = revision'[a.doc]].by = usuario
    BY DEF Actions
  <2>. QED BY <1>2, <1>4, <1>5, <1>10, <2>1
           DEF ActionAnswered, ActionCommits, Decided, Uploaded, ActionFailed
<1>11. CASE Unmount \/ \E d \in Docs : OthersCommit(d)
  BY <1>5, <1>11 DEF Unmount, OthersCommit
<1>. QED BY <1>6, <1>7, <1>8, <1>9, <1>10, <1>11 DEF ScreenNext

LEMMA PanelStepTab ==
  ASSUME TabInv, PanelStep \/ ServerStep
  PROVE  /\ TabInv'
         /\ GoesBack => screen'.crossed
<1>1. UNCHANGED <<storage, route, estado, usuario, accessToken, refreshToken, boot, entering,
                  reading, crossed>>
  BY DEF PanelStep, ServerStep, sessionVars
<1>2. SessionInv' /\ InApp' = InApp
  BY <1>1, SessionKept DEF TabInv, InApp
<1>3. accessToken \in Tokens
  BY TokenAssumption DEF TabInv, SessionInv, SessionTypeOK
<1>4. CASE PanelStep
  <2>1. InApp /\ (ScreenNext(accessToken) \/ Unmount)
    BY <1>4 DEF PanelStep
  <2>2. ~crossed => accessToken = usuario
    BY <2>1, NoneEntering DEF TabInv, SessionInv, Uncrossed, SignedIn, Owner, InApp
  <2>3. ScreenInv' /\ (GoesBack => screen'.crossed)
    BY <1>3, <2>1, StepScreen, NoUnmarkedStepBack DEF TabInv
  <2>4. Asked'
    BY <1>1, <1>3, <2>1, <2>2, PanelAsks
  <2>. QED BY <1>2, <2>1, <2>3, <2>4 DEF TabInv, PanelMounted
<1>5. CASE ServerStep
  <2>1. \E d \in Docs : OthersCommit(d)
    BY <1>5 DEF ServerStep
  <2>2. ScreenInv' /\ (GoesBack => screen'.crossed)
    BY <1>3, <2>1, StepScreen, NoUnmarkedStepBack DEF TabInv
  <2>3. /\ Asked' /\ url' = url
    BY <1>1, <2>1 DEF OthersCommit, TabInv, Asked
  <2>. QED BY <1>2, <2>2, <2>3 DEF TabInv, PanelMounted
<1>. QED BY <1>4, <1>5

LEMMA StepTab == TabInv /\ [Next]_vars => TabInv'
<1>. SUFFICES ASSUME TabInv, [Next]_vars PROVE TabInv'
  OBVIOUS
<1>1. CASE Next
  BY <1>1, SessionStepTab, PanelStepTab DEF Next
<1>2. CASE UNCHANGED vars
  <2>1. SessionInv'
    BY <1>2, SessionKept DEF vars, sessionVars, TabInv
  <2>. QED BY <1>2, <2>1 DEF vars, sessionVars, screenVars, TabInv, ScreenInv, ScreenTypeOK,
     OneCurrent, Known, LoadsMarked, ActionsMarked, LoadsFresh, ActionsFresh, Shown, InFlight,
     Current, PanelShowsItsDocument, PanelMounted, InApp, Asked
<1>. QED BY <1>1, <1>2

\* Types, the session in each of its states, and the order of answers.
THEOREM TabCorrect == Spec => []TabInv
  BY InitTab, StepTab, PTL DEF Spec

\* Type correctness for any accounts, documents and bounds.
THEOREM TypeOKHolds == Spec => []TypeOK
<1>1. TabInv => TypeOK
  BY DEF TabInv, SessionInv, ScreenInv, TypeOK
<1>. QED BY <1>1, TabCorrect, PTL

\* A session is whole or absent, but for crossed chains.
THEOREM SessionWholeHolds == Spec => []SessionWhole
<1>1. TabInv => SessionWhole
  BY NoneEntering
     DEF TabInv, SessionInv, SessionTypeOK, Uncrossed, Verifying, SignedIn, SignedOut, Owner,
         SessionWhole
<1>. QED BY <1>1, TabCorrect, PTL

\* A panel with nothing in flight shows the document of the URL.
THEOREM PanelShowsItsDocumentHolds == Spec => []PanelShowsItsDocument
<1>1. TabInv => PanelShowsItsDocument
  BY DEF TabInv, ScreenInv
<1>. QED BY <1>1, TabCorrect, PTL

\* Nobody is shown what was read with another user's token.
THEOREM ScreenOfUserHolds == Spec => []ScreenOfUser
<1>1. TabInv => ScreenOfUser
  BY DEF TabInv, Asked, ScreenOfUser
<1>. QED BY <1>1, TabCorrect, PTL

\* The screen never goes back to an older revision, but for what was marked.
THEOREM ScreenNeverGoesBackHolds == Spec => ScreenNeverGoesBack
<1>1. TabInv /\ [Next]_vars => [GoesBack => screen'.crossed]_screenVars
  <2>. SUFFICES ASSUME TabInv, [Next]_vars
                PROVE  UNCHANGED screenVars \/ (GoesBack => screen'.crossed)
    OBVIOUS
  <2>1. CASE PanelStep \/ ServerStep
    BY <2>1, PanelStepTab
  <2>2. CASE SessionStep
    BY <2>2, Records DEF SessionStep, Unmount, GoesBack
  <2>3. CASE UNCHANGED vars
    BY <2>3 DEF vars
  <2>. QED BY <2>1, <2>2, <2>3 DEF Next
<1>. QED BY <1>1, TabCorrect, PTL DEF Spec, ScreenNeverGoesBack
=============================================================================
