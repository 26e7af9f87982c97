------------------------------ MODULE MCClient ------------------------------
(***************************************************************************)
(* A small instance of Client for TLC.  The bound on the loads of a panel  *)
(* is smaller where chains of the session crossed, and where one of them   *)
(* is still in flight beside the panel.                                    *)
(***************************************************************************)
EXTENDS Client

CONSTANTS CrossedGeneration, BusyGeneration

MCNext ==
  /\ Next
  /\ crossed' => geracao' <= CrossedGeneration
  /\ Entering' => geracao' <= BusyGeneration
MCSpec == Init /\ [][MCNext]_vars /\ WF_vars(AnswerBoot) /\ WF_vars(AnswerLoad)
=============================================================================
