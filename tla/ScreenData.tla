----------------------------- MODULE ScreenData -----------------------------
(***************************************************************************)
(* The document panel: the hook useApiData (data/useApiData.ts) as         *)
(* PainelDocumento.tsx uses it for the selected document, and the actions  *)
(* of AcoesDocumento.tsx that write to the server and put the answer on    *)
(* the screen.                                                             *)
(*                                                                         *)
(* revision[d] counts what the server committed for document d.  An answer *)
(* carries the revision the server read, which may be older than what is   *)
(* on the screen when it arrives.  What was sent by whom is the parameter  *)
(* `token` of the actions that send.                                       *)
(***************************************************************************)
EXTENDS Naturals

CONSTANTS
  Docs,          \* documents of the obra on the screen
  NoDoc,         \* no document selected, or none answered yet
  Tokens,        \* what a request can carry as its token,
  NoToken,       \* the absent one included
  MaxRevision,   \* bound on what the server commits to one document
  MaxGeneration  \* bound on the loads a mounted hook starts

ASSUME ScreenAssumption == NoDoc \notin Docs /\ NoToken \in Tokens
ASSUME ScreenBounds == MaxRevision \in Nat \ {0} /\ MaxGeneration \in Nat

VARIABLES
  revision,    \* server: revision[d] of document d
  url,         \* documentoId of the mounted panel, NoDoc without a panel
  screen,      \* the hook's state
  geracao,     \* geracaoRef
  requests,    \* GETs in flight, superseded ones included
  actions      \* POSTs of AcoesDocumento in flight

screenVars == <<revision, url, screen, geracao, requests, actions>>

Revisions == 0..MaxRevision  \* 0: not read, or not committed, yet
Screens == [status: {"loading", "success", "error"}, doc: Docs \cup {NoDoc},
            rev: Revisions, by: Tokens, revalidating: BOOLEAN,
            crossed: BOOLEAN]
Requests == [gen: 1..MaxGeneration, doc: Docs, by: Tokens, rev: Revisions,
             crossed: BOOLEAN]
\* orphan: the AcoesDocumento that sent it is gone, and its `ocupado` with it.
Actions == [kind: {"decide", "upload"}, doc: Docs, by: Tokens, rev: Revisions,
            crossed: BOOLEAN, orphan: BOOLEAN]

\* crossed is a history field: the answer was in flight while another one was,
\* or was asked for from a screen that such an answer had set.

Blank == [status |-> "loading", doc |-> NoDoc, rev |-> 0, by |-> NoToken,
          revalidating |-> FALSE, crossed |-> FALSE]
Failed == [Blank EXCEPT !.status = "error"]
\* Mutant of Showing: the bare answer, not wrapped in a state.
ShowingBare(answer) == answer
Showing(answer) == [status |-> "success", doc |-> answer.doc, rev |-> answer.rev,
                    by |-> answer.by, revalidating |-> FALSE, crossed |-> answer.crossed]

\* Mutant of Current: only asks whether the hook is mounted.
CurrentMounted(r) == url # NoDoc
Current(r) == url # NoDoc /\ r.gen = geracao
InFlight == {r \in requests : Current(r)}
AllCrossed(answers) == {[a EXCEPT !.crossed = TRUE] : a \in answers}
AllOrphans(answers) == {[a EXCEPT !.orphan = TRUE] : a \in answers}

ScreenInit ==
  /\ revision = [d \in Docs |-> 1]
  /\ url = NoDoc /\ screen = Blank /\ geracao = 0
  /\ requests = {} /\ actions = {}

-----------------------------------------------------------------------------
\* The effect of useApiData: one more generation, one more request.  The older
\* ones are aborted, which an answer already on its way can escape.  `others` are
\* the actions still in flight.
Fetch(d, token, others) ==
  /\ geracao < MaxGeneration /\ geracao' = geracao + 1
  /\ requests' = {r \in requests : r.rev # 0} \cup
       {[gen |-> geracao', doc |-> d, by |-> token, rev |-> 0,
         crossed |-> others # {}]}

Open(d, token) ==
  /\ url = NoDoc
  /\ Fetch(d, token, actions)
  /\ url' = d
  /\ UNCHANGED <<revision, screen, actions>>

\* Another document of the list: the panel is not remounted and its state is not
\* reset, so the old document stays until the new one is answered.
Navigate(d, token) ==
  /\ url \notin {NoDoc, d}
  /\ Fetch(d, token, actions)
  /\ url' = d
  /\ actions' = AllCrossed(actions)
  /\ UNCHANGED <<revision, screen>>

Revalidating == IF screen.status = "success"
                THEN [screen EXCEPT !.revalidating = TRUE] ELSE screen

\* Mutant of recarregar: marks the screen and triggers no new request.
recarregarMarking(token) ==
  /\ url # NoDoc /\ screen.status # "loading"
  /\ screen' = Revalidating
  /\ UNCHANGED <<revision, url, geracao, requests, actions>>

\* Mutant of recarregar: asks again under the generation of the older request.
recarregarSameGeneration(token) ==
  /\ url # NoDoc /\ screen.status # "loading"
  /\ requests' = {r \in requests : r.rev # 0} \cup
       {[gen |-> geracao, doc |-> url, by |-> token, rev |-> 0, crossed |-> actions # {}]}
  /\ screen' = Revalidating
  /\ actions' = AllCrossed(actions)
  /\ UNCHANGED <<revision, url, geracao>>

recarregar(token) ==
  /\ url # NoDoc /\ screen.status # "loading"
  /\ Fetch(url, token, actions)
  /\ screen' = Revalidating
  /\ actions' = AllCrossed(actions)
  /\ UNCHANGED <<revision, url>>

\* The moment the server reads what it will answer.
ServerReads(r) ==
  /\ r.rev = 0
  /\ requests' = (requests \ {r}) \cup {[r EXCEPT !.rev = revision[r.doc]]}
  /\ UNCHANGED <<revision, url, screen, geracao, actions>>

Answered(r) ==
  /\ r.rev # 0
  /\ requests' = requests \ {r}
  /\ screen' = IF Current(r) THEN Showing(r) ELSE screen
  /\ UNCHANGED <<revision, url, geracao, actions>>

\* An error takes the document off the screen, and the bar of actions with it.
LoadFailed(r) ==
  /\ requests' = requests \ {r}
  /\ IF Current(r) THEN screen' = Failed /\ actions' = AllOrphans(actions)
                   ELSE UNCHANGED <<screen, actions>>
  /\ UNCHANGED <<revision, url, geracao>>

\* Mutant of Unmount: the data outlives the page.
UnmountKeeping ==
  /\ url' = NoDoc /\ geracao' = 0
  /\ requests' = {} /\ actions' = {}
  /\ UNCHANGED <<revision, screen>>

\* The effect is cleaned up and its calls aborted; setState on what is gone does
\* nothing.  A POST may still commit: that is OthersCommit.
Unmount ==
  /\ url' = NoDoc /\ screen' = Blank /\ geracao' = 0
  /\ requests' = {} /\ actions' = {}
  /\ UNCHANGED revision

-----------------------------------------------------------------------------
\* A button of AcoesDocumento, for the document it was rendered with; `ocupado`
\* lets one action at a time through.
Execute(kind, token) ==
  /\ url # NoDoc /\ screen.status = "success"
  /\ \A a \in actions : a.orphan
  /\ LET meets == actions # {} \/ InFlight # {} \/ screen.crossed IN
     actions' = AllCrossed(actions) \cup
       {[kind |-> kind, doc |-> screen.doc, by |-> token, rev |-> 0, crossed |-> meets,
         orphan |-> FALSE]}
  /\ requests' = AllCrossed(requests)
  /\ UNCHANGED <<revision, url, screen, geracao>>

Committed(d) ==
  /\ revision[d] < MaxRevision
  /\ revision' = [revision EXCEPT ![d] = @ + 1]

ActionCommits(a) ==
  /\ a.rev = 0 /\ Committed(a.doc)
  /\ actions' = (actions \ {a}) \cup {[a EXCEPT !.rev = revision'[a.doc]]}
  /\ UNCHANGED <<url, screen, geracao, requests>>

OthersCommit(d) ==
  /\ Committed(d)
  /\ UNCHANGED <<url, screen, geracao, requests, actions>>

\* executar: the answer is the document, and definirDados puts it on the screen
\* of whatever document the panel has come to by then.
Decided(a) ==
  /\ a.rev # 0 /\ a.kind = "decide"
  /\ actions' = actions \ {a}
  /\ screen' = Showing(a)
  /\ UNCHANGED <<revision, url, geracao, requests>>

\* novaVersao: the answer is the version, and the document is loaded again.
Uploaded(a, token) ==
  /\ a.rev # 0 /\ a.kind = "upload"
  /\ Fetch(url, token, actions \ {a})
  /\ screen' = Revalidating
  /\ actions' = AllCrossed(actions \ {a})
  /\ UNCHANGED <<revision, url>>

\* Refused by the server, or committed and the answer lost.
ActionFailed(a) ==
  /\ actions' = actions \ {a}
  /\ UNCHANGED <<revision, url, screen, geracao, requests>>

-----------------------------------------------------------------------------
LoadAnswered(r) == ServerReads(r) \/ Answered(r) \/ LoadFailed(r)
ActionAnswered(a, token) ==
  ActionCommits(a) \/ Decided(a) \/ Uploaded(a, token) \/ ActionFailed(a)

ScreenNext(token) ==
  \/ \E d \in Docs : Open(d, token) \/ Navigate(d, token)
  \/ recarregar(token)
  \/ \E kind \in {"decide", "upload"} : Execute(kind, token)
  \/ \E r \in requests : LoadAnswered(r)
  \/ \E a \in actions : ActionAnswered(a, token)

ScreenTypeOK ==
  /\ revision \in [Docs -> Revisions \ {0}]
  /\ url \in Docs \cup {NoDoc}
  /\ screen \in Screens
  /\ geracao \in 0..MaxGeneration
  /\ requests \subseteq Requests
  /\ actions \subseteq Actions

(***************************************************************************)
(* With nothing in flight for it, the panel shows the document of the URL, *)
(* unless what it shows came from an action and a load that crossed.  The  *)
(* exception is the code's: the old document stays with its buttons during *)
(* a navigation, and an action's answer is bound to no document.           *)
(***************************************************************************)
PanelShowsItsDocument ==
  url # NoDoc /\ screen.status = "success" /\ ~screen.crossed /\ InFlight = {} =>
    screen.doc = url

(***************************************************************************)
(* The screen never goes back to an earlier revision of the document it    *)
(* shows ("uma resposta antiga que chegue depois de uma nova e descartada  *)
(* em vez de sobrescrever a tela"), with the same exception: an action     *)
(* does not advance the hook's generation, so a load read before it and    *)
(* answered after it wins.                                                 *)
(***************************************************************************)
GoesBack == /\ screen.status = "success" /\ screen'.status = "success"
            /\ screen'.doc = screen.doc /\ screen'.rev < screen.rev
ScreenNeverGoesBack == [][GoesBack => screen'.crossed]_screenVars
=============================================================================
