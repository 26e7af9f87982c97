-------------------------- MODULE RequestLifecycle --------------------------
(***************************************************************************)
(* What a signature request promises: one open request per signatory and   *)
(* version, one end, and a signature exactly when the end is assinada, on  *)
(* the version and by the person the request names.  SignatureFlow         *)
(* implements this while no two calls in progress get in each other's way, *)
(* crashes included.                                                       *)
(***************************************************************************)
EXTENDS Naturals

CONSTANTS Requests, VersionRows, Users, None

VARIABLES
  ask,        \* ask[r]: status, version row, signatory and requester
  signature   \* signature[r]: the signature applied for r, or None

Unasked == [status |-> "none", row |-> 0, signer |-> None, requester |-> None]

Init ==
  /\ ask = [r \in Requests |-> Unasked]
  /\ signature = [r \in Requests |-> None]

Open == {r \in Requests : ask[r].status = "pendente"}

Ask(r, row, signer, requester) ==
  /\ ask[r] = Unasked
  /\ \A o \in Open : <<ask[o].row, ask[o].signer>> # <<row, signer>>
  /\ ask' = [ask EXCEPT ![r] = [status |-> "pendente", row |-> row,
                                signer |-> signer, requester |-> requester]]
  /\ UNCHANGED signature

Sign(r) ==
  /\ r \in Open
  /\ ask' = [ask EXCEPT ![r].status = "assinada"]
  /\ signature' = [signature EXCEPT ![r] =
                    [row |-> ask[r].row, signer |-> ask[r].signer]]

Decline(r) ==
  /\ r \in Open
  /\ ask' = [ask EXCEPT ![r].status = "recusada"]
  /\ UNCHANGED signature

\* By hand one request, by a new version all that are open.
Cancel(closed) ==
  /\ closed \subseteq Open
  /\ ask' = [r \in Requests |-> IF r \in closed
                                THEN [ask[r] EXCEPT !.status = "cancelada"]
                                ELSE ask[r]]
  /\ UNCHANGED signature

Next ==
  \/ \E r \in Requests :
       \/ \E row \in VersionRows, s \in Users, u \in Users : Ask(r, row, s, u)
       \/ Sign(r)
       \/ Decline(r)
       \/ Cancel({r})
  \/ Cancel(Open)

Spec == Init /\ [][Next]_<<ask, signature>>
=============================================================================
