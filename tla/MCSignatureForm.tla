-------------------------- MODULE MCSignatureForm --------------------------
(* Small instances of SignatureForm for TLC. *)
EXTENDS SignatureForm

CONSTANTS Two, Other,  \* documents of two pages and of one
          New, Old     \* obras not created yet, and archived

MCPoints == {<<0, 0>>, <<Unit, 1>>}
MCSizes == {<<2, 3>>, <<3, 2>>}

\* At the browser, a director or the engineer who is the author; the other is
\* the administrator.
MCInit ==
  /\ Init
  /\ versions[Two] = <<2>> /\ versions[Other] = <<1>>
  /\ \A u \in Users \ {Me} : role[u] = "administrador"
  /\ obra[New] = "none" /\ obra[Old] = "archived" /\ assigned = {<<Me, Home>>}
  /\ role[Me] = IF author = Me THEN "engenheiro" ELSE "diretor"
MCSpec == MCInit /\ [][Next]_vars
=============================================================================
