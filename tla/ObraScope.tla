----------------------------- MODULE ObraScope -----------------------------
(***************************************************************************)
(* Obras, who is assigned to them and who reaches them (app/scope.py,      *)
(* app/api/obras.py).  The rule of access exists five times in the code:   *)
(* as a filter of queries, as a set of ids, as a check of one obra, as the *)
(* search's own conditions, and as the list of people who may be asked to  *)
(* sign.                                                                   *)
(***************************************************************************)
EXTENDS Naturals

CONSTANTS Users, Obras

States == {"none", "live", "archived"}
Roles == {"administrador", "diretor", "engenheiro", "financeiro"}

VARIABLES
  role, active,  \* of each user
  obra,          \* of each obra: "none", "live" or "archived" (is_deleted)
  assigned       \* user_obra: pairs of a user and an obra

scopeVars == <<role, active, obra, assigned>>

GlobalAccessRoles == {"administrador", "diretor"}
HasGlobalAccess(u) == role[u] \in GlobalAccessRoles

Live == {o \in Obras : obra[o] = "live"}
AssignedTo(u) == {o \in Obras : <<u, o>> \in assigned}

\* list_obras asks with it, and so does the summary.
ScopeObraQuery(u) == IF HasGlobalAccess(u) THEN Live ELSE Live \cap AssignedTo(u)
AccessibleObraIds(u) == {o \in Live : HasGlobalAccess(u) \/ <<u, o>> \in assigned}
CanAccessObra(u, o) ==
  IF HasGlobalAccess(u) THEN obra[o] \notin {"none", "archived"}
                        ELSE o \in AccessibleObraIds(u)

\* search_documents: the obras whose documents it returns.
SearchDocuments(u) ==
  {o \in Live : HasGlobalAccess(u) \/ o \in AccessibleObraIds(u)}

\* The archived ones are for administrators, who may restore them.
ListArchived(u) == IF role[u] = "administrador"
                   THEN {o \in Obras : obra[o] = "archived"} ELSE {}

\* list_obra_users: the assigned ones and, added to them, the global roles.
Candidates(o) == {u \in Users : active[u] /\ <<u, o>> \in assigned}
                   \cup {u \in Users : active[u] /\ role[u] \in {"administrador", "diretor"}}

-----------------------------------------------------------------------------
\* The database of a system in use.
ScopeInit ==
  /\ role \in [Users -> Roles] /\ \E u \in Users : role[u] = "administrador"
  /\ active = [u \in Users |-> TRUE]
  /\ obra \in [Obras -> States]
  /\ assigned \in SUBSET (Users \X {o \in Obras : obra[o] # "none"})

\* require_admin
Administrators == {u \in Users : active[u] /\ role[u] = "administrador"}

CreateObra(o) ==
  /\ Administrators # {} /\ obra[o] = "none"
  /\ obra' = [obra EXCEPT ![o] = "live"]
  /\ UNCHANGED <<role, active, assigned>>

ArchiveObra(o) ==
  /\ Administrators # {} /\ obra[o] = "live"
  /\ obra' = [obra EXCEPT ![o] = "archived"]
  /\ UNCHANGED <<role, active, assigned>>

RestoreObra(o) ==
  /\ Administrators # {} /\ obra[o] = "archived"
  /\ obra' = [obra EXCEPT ![o] = "live"]
  /\ UNCHANGED <<role, active, assigned>>

\* Archived obras can be assigned too: the handler only asks that the row exists.
AssignUser(o, u) ==
  /\ Administrators # {} /\ obra[o] # "none"
  /\ assigned' = assigned \cup {<<u, o>>}
  /\ UNCHANGED <<role, active, obra>>

UnassignUser(o, u) ==
  /\ Administrators # {} /\ obra[o] # "none"
  /\ assigned' = assigned \ {<<u, o>>}
  /\ UNCHANGED <<role, active, obra>>

\* update_user, by another administrator; the race of two of them is in Accounts.
UpdateUser(u, r, is) ==
  /\ Administrators \ {u} # {}
  /\ role' = [role EXCEPT ![u] = r]
  /\ active' = [active EXCEPT ![u] = is]
  /\ UNCHANGED <<obra, assigned>>

ScopeNext ==
  \/ \E o \in Obras : CreateObra(o) \/ ArchiveObra(o) \/ RestoreObra(o)
  \/ \E o \in Obras, u \in Users : AssignUser(o, u) \/ UnassignUser(o, u)
  \/ \E u \in Users, r \in Roles, is \in BOOLEAN : UpdateUser(u, r, is)

ScopeTypeOK ==
  /\ role \in [Users -> Roles]
  /\ active \in [Users -> BOOLEAN]
  /\ obra \in [Obras -> States]
  /\ assigned \subseteq Users \X Obras

(***************************************************************************)
(* What a user is shown is what the user reaches: the obras listed, and    *)
(* those whose documents are found, are those whose page opens; an         *)
(* archived one is out of everybody's reach; and the people offered as     *)
(* signatories are the active ones with access ("exatamente o conjunto que *)
(* app/scope.py considera com acesso").                                    *)
(***************************************************************************)
ListedIsReachable ==
  /\ \A u \in Users : /\ ScopeObraQuery(u) = {o \in Obras : CanAccessObra(u, o)}
                      /\ SearchDocuments(u) = ScopeObraQuery(u)
                      /\ \A o \in ListArchived(u) : ~CanAccessObra(u, o)
  /\ \A o \in Live : Candidates(o) = {u \in Users : active[u] /\ CanAccessObra(u, o)}
=============================================================================
