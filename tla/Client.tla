------------------------------- MODULE Client -------------------------------
(***************************************************************************)
(* The browser tab: the session and the document panel behind              *)
(* RotaProtegida.  The panel is mounted only while the tab is              *)
(* authenticated and on a protected route; http.ts reads the access token  *)
(* when a request is sent.                                                 *)
(***************************************************************************)
EXTENDS Session, ScreenData

ASSUME TokenAssumption == Tokens = Holders

vars == <<sessionVars, screenVars>>

Init == SessionInit /\ ScreenInit

\* A step of the session, and what the route guard does to the panel with it.  A
\* late Entered also takes the tab to its destination: that is the next PanelStep.
SessionStep ==
  /\ SessionNext
  /\ recarregarUsuario => url = NoDoc  \* from the rubric pages
  /\ IF estado' = "autenticado" /\ route' = "app"
     THEN UNCHANGED screenVars
     ELSE Unmount

PanelStep ==
  /\ InApp
  /\ ScreenNext(accessToken) \/ Unmount
  /\ UNCHANGED sessionVars

ServerStep ==
  /\ \E d \in Docs : OthersCommit(d)
  /\ UNCHANGED sessionVars

Next == SessionStep \/ PanelStep \/ ServerStep
Spec == Init /\ [][Next]_vars

(***************************************************************************)
(* Every call over the network is answered or fails in the end, and the    *)
(* browser runs what waits for it.  Nothing is assumed of the user or of   *)
(* other clients.                                                          *)
(***************************************************************************)
AnswerBoot == BootAnswered /\ SessionStep
AnswerLoad == InApp /\ UNCHANGED sessionVars /\ \E r \in InFlight : LoadAnswered(r)
FairSpec == Spec /\ WF_vars(AnswerBoot) /\ WF_vars(AnswerLoad)

-----------------------------------------------------------------------------
\* Type correctness of the tab.
TypeOK == SessionTypeOK /\ ScreenTypeOK

(***************************************************************************)
(* Nobody is shown what was read with another user's token: a document on  *)
(* the screen was asked for by the user the tab shows.  Logging out takes  *)
(* the panel and its calls away before the next user enters.  Same         *)
(* exception as SessionWhole.                                              *)
(***************************************************************************)
ScreenOfUser == screen.status = "success" /\ ~crossed => screen.by = usuario

(***************************************************************************)
(* Liveness: a page that is verifying its session ends that, unless the    *)
(* user loads it again and again, and a panel that says it is loading or   *)
(* refreshing ends that, or goes away.  That the user stops reloading the  *)
(* panel is the bound MaxGeneration.                                       *)
(***************************************************************************)
LoadsForever == []<><<\E at \in {"entrar", "app"} : LoadPage(at)>>_vars
Pending == url # NoDoc /\ (screen.status = "loading" \/ screen.revalidating)
WaitsEnd ==
  /\ LoadsForever \/ ((estado = "verificando") ~> (estado # "verificando"))
  /\ Pending ~> ~Pending
=============================================================================
