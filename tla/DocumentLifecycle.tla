-------------------------- MODULE DocumentLifecycle --------------------------
(***************************************************************************)
(* What the document endpoints promise a client that sees each of them as  *)
(* one step: a version is numbered after the one before it and its content *)
(* never changes, it is approved only after a review and as the current    *)
(* one, a new version has to be approved again, a deleted document stays   *)
(* as it was.  DocumentFlow implements this while no two calls in progress *)
(* get in each other's way, crashes included.                              *)
(***************************************************************************)
EXTENDS Naturals, Sequences

CONSTANTS Docs, Users, Approvers, Admins, Files, None

VARIABLES
  life,     \* life[d]: creator, status, current and approved version, deleted
  content   \* content[d][v]: the file of version v

Uncreated == [creator |-> None, status |-> "enviado", current |-> 0,
              approved |-> None, deleted |-> FALSE]

Init ==
  /\ life = [d \in Docs |-> Uncreated]
  /\ content = [d \in Docs |-> <<>>]

Live(d) == life[d].creator # None /\ ~life[d].deleted

Create(d) ==
  /\ life[d].creator = None
  /\ \E u \in Users : life' = [life EXCEPT ![d].creator = u]
  /\ UNCHANGED content

\* A file enters the obra once, as the next version of one document.
NewVersion(d, f) ==
  /\ Live(d)
  /\ \A e \in Docs : \A v \in DOMAIN content[e] : content[e][v] # f
  /\ life' = [life EXCEPT ![d].status = "enviado", ![d].approved = None,
                          ![d].current = @ + 1]
  /\ content' = [content EXCEPT ![d] = Append(@, f)]

StartReview(d) ==
  /\ Live(d) /\ life[d].status = "enviado"
  /\ life' = [life EXCEPT ![d].status = "em_analise"]
  /\ UNCHANGED content

Approve(d) ==
  /\ Live(d) /\ life[d].status = "em_analise"
  /\ \E u \in Approvers : u # life[d].creator
  /\ life' = [life EXCEPT ![d].status = "aprovado", ![d].approved = life[d].current]
  /\ UNCHANGED content

Reject(d) ==
  /\ Live(d) /\ life[d].status = "em_analise"
  /\ life' = [life EXCEPT ![d].status = "rejeitado"]
  /\ UNCHANGED content

Delete(d) ==
  /\ Live(d)
  /\ life' = [life EXCEPT ![d].deleted = TRUE]
  /\ UNCHANGED content

Next ==
  \E d \in Docs :
    \/ Create(d)
    \/ \E f \in Files : NewVersion(d, f)
    \/ StartReview(d)
    \/ Approve(d)
    \/ Reject(d)
    \/ Delete(d)

Spec == Init /\ [][Next]_<<life, content>>
=============================================================================
