------------------------------ MODULE Accounts ------------------------------
(***************************************************************************)
(* The users table: administrators who create and change accounts          *)
(* (app/api/users.py), the first administrator that every container tries  *)
(* to seed when it starts (app/services/bootstrap.py), and the reset of a  *)
(* forgotten password (app/services/password_reset.py).  As in DocumentFlow *)
(* a handler decides on the rows it loaded and commits later, and only     *)
(* changed columns are written.                                            *)
(***************************************************************************)
EXTENDS Naturals, FiniteSets

CONSTANTS
  Users,          \* accounts there may be, each with its username and e-mail
  Seed,           \* the one the configuration names as first administrator
  Roles,          \* roles an account may be given
  Tokens,         \* reset tokens that may be sent
  Passwords,      \* passwords; the hash of a new one always differs
  AdminWorkers,   \* threads that handle calls of administrators
  ResetWorkers,   \* threads that handle reset_password
  Containers,     \* containers, each runs bootstrap_admin when it starts
  None,           \* no row
  MaxCalls        \* bound on the calls and starts

Admin == "administrador"
Workers == AdminWorkers \cup ResetWorkers \cup Containers

ASSUME SeedAssumption == Seed \in Users /\ Admin \in Roles
ASSUME BoundsAssumption == MaxCalls \in Nat

VARIABLES
  user,    \* user[u]: the row of u, or None
  token,   \* token[t]: the row of password_reset_tokens, or None
  job,     \* job[w]: the call that thread w is handling
  calls    \* calls and starts so far

vars == <<user, token, job, calls>>

Rows == [role: Roles, active: BOOLEAN, password: Passwords]
ResetRows == [user: Users, used: BOOLEAN, expired: BOOLEAN]
ASSUME NoneAssumption == None \notin Rows \cup ResetRows \cup Tokens

Changes == [role: Roles \cup {None}, active: BOOLEAN \cup {None}]
Jobs == [op: {"idle", "create", "update", "reset", "boot"},
         target: Users \cup {None}, seen: Rows \cup {None}, change: Changes,
         token: Tokens \cup {None}, password: Passwords \cup {None}]

Idle == [op |-> "idle", target |-> None, seen |-> None,
         change |-> [role |-> None, active |-> None], token |-> None,
         password |-> None]

Init ==
  /\ user = [u \in Users |-> None]
  /\ token = [t \in Tokens |-> None]
  /\ job = [w \in Workers |-> Idle]
  /\ calls = 0

-----------------------------------------------------------------------------
IsAdmin(u) == user[u] # None /\ user[u].role = Admin
IsActiveAdmin(u) == IsAdmin(u) /\ user[u].active

Count == calls < MaxCalls /\ calls' = calls + 1
Accept(w, call) ==
  /\ job[w] = Idle /\ Count
  /\ job' = [job EXCEPT ![w] = call]
  /\ UNCHANGED <<user, token>>
Finish(w) == job' = [job EXCEPT ![w] = Idle] /\ UNCHANGED calls

\* An insert: the unique constraints on username and e-mail refuse a second one.
Insert(w, role) ==
  LET u == job[w].target
  IN  /\ user' = IF user[u] = None
                 THEN [user EXCEPT ![u] = [role |-> role, active |-> TRUE,
                                           password |-> job[w].password]]
                 ELSE user
      /\ Finish(w)
      /\ UNCHANGED token

-----------------------------------------------------------------------------
(* Administrators: require_admin is checked when the call begins.          *)

BeginCreate(w, a, u, role, password) ==
  /\ IsActiveAdmin(a)
  /\ Accept(w, [Idle EXCEPT !.op = "create", !.target = u, !.change.role = role,
                            !.password = password])

CommitCreate(w) == job[w].op = "create" /\ Insert(w, job[w].change.role)

Reduces(change) == change.active = FALSE \/ change.role \notin {None, Admin}
ReducesSelfByRole(a, u, change) == u = a /\ change.role \notin {None, Admin}
\* What an administrator may not do to their own account.
ReducesSelf(a, u, change) == u = a /\ Reduces(change)

BeginUpdate(w, a, u, change) ==
  /\ IsActiveAdmin(a)
  /\ user[u] # None
  /\ ~ReducesSelf(a, u, change)
  /\ Accept(w, [Idle EXCEPT !.op = "update", !.target = u, !.seen = user[u],
                            !.change = change])

ColumnWritesNone(stored, seen, given) == IF given = seen THEN stored ELSE given
\* A column of the UPDATE: written only if given and different from the loaded.
Column(stored, seen, given) == IF given \in {None, seen} THEN stored ELSE given

\* Mutant of CommitUpdate: writes the loaded row back whole.
CommitUpdateWholeRow(w) ==
  LET seen == job[w].seen
      given == job[w].change
  IN  /\ job[w].op = "update"
      /\ user' = [user EXCEPT ![job[w].target] =
                    [seen EXCEPT !.role = Column(@, @, given.role),
                                 !.active = Column(@, @, given.active)]]
      /\ Finish(w)
      /\ UNCHANGED token
CommitUpdate(w) ==
  LET u == job[w].target
      seen == job[w].seen
      given == job[w].change
  IN  /\ job[w].op = "update"
      /\ user' = [user EXCEPT ![u].role = Column(@, seen.role, given.role),
                              ![u].active = Column(@, seen.active, given.active)]
      /\ Finish(w)
      /\ UNCHANGED token

-----------------------------------------------------------------------------
(* Start of a container: docker/entrypoint.sh runs bootstrap_admin first.  *)

HasAdminSeedOnly == IsAdmin(Seed)
\* ensure_first_admin asks for the role only: an inactive administrator counts.
HasAdmin == \E u \in Users : IsAdmin(u)

BeginBootstrap(c, password) ==
  /\ ~HasAdmin
  /\ Accept(c, [Idle EXCEPT !.op = "boot", !.target = Seed, !.password = password])

CommitBootstrap(c) == job[c].op = "boot" /\ Insert(c, Admin)

-----------------------------------------------------------------------------
(* Reset of a password.                                                    *)

\* forgot_password: any number of tokens may be outstanding.
ForgotPassword(u, t) ==
  /\ Count
  /\ user[u] # None /\ user[u].active
  /\ token[t] = None
  /\ token' = [token EXCEPT ![t] = [user |-> u, used |-> FALSE, expired |-> FALSE]]
  /\ UNCHANGED <<user, job>>

Expire(t) ==
  /\ token[t] # None /\ ~token[t].expired
  /\ token' = [token EXCEPT ![t].expired = TRUE]
  /\ UNCHANGED <<user, job, calls>>

IsValid(t) == token[t] # None /\ ~token[t].used /\ ~token[t].expired

BeginReset(w, t, password) ==
  /\ IsValid(t)
  /\ Accept(w, [Idle EXCEPT !.op = "reset", !.target = token[t].user,
                            !.token = t, !.password = password])

CommitResetKeeping(w) ==
  /\ job[w].op = "reset"
  /\ user' = [user EXCEPT ![job[w].target].password = job[w].password]
  /\ Finish(w)
  /\ UNCHANGED token
CommitReset(w) ==
  /\ job[w].op = "reset"
  /\ user' = [user EXCEPT ![job[w].target].password = job[w].password]
  /\ token' = [token EXCEPT ![job[w].token].used = TRUE]
  /\ Finish(w)

-----------------------------------------------------------------------------
\* A failure before the commit: the session is rolled back.
Abort(w) ==
  /\ job[w] # Idle
  /\ Finish(w)
  /\ UNCHANGED <<user, token>>

Next ==
  \/ \E w \in AdminWorkers, u \in Users :
       \/ \E a \in Users :
            \/ \E role \in Roles, p \in Passwords : BeginCreate(w, a, u, role, p)
            \/ \E change \in Changes : BeginUpdate(w, a, u, change)
       \/ CommitCreate(w) \/ CommitUpdate(w)
  \/ \E c \in Containers :
       (\E p \in Passwords : BeginBootstrap(c, p)) \/ CommitBootstrap(c)
  \/ \E t \in Tokens :
       \/ \E u \in Users : ForgotPassword(u, t)
       \/ Expire(t)
       \/ \E w \in ResetWorkers, p \in Passwords : BeginReset(w, t, p)
  \/ \E w \in ResetWorkers : CommitReset(w)
  \/ \E w \in Workers : Abort(w)

Spec == Init /\ [][Next]_vars

-----------------------------------------------------------------------------
\* The variables hold rows, tokens and calls of the right shape.
TypeOK ==
  /\ user \in [Users -> Rows \cup {None}]
  /\ token \in [Tokens -> ResetRows \cup {None}]
  /\ job \in [Workers -> Jobs]
  /\ calls \in 0 .. MaxCalls

-----------------------------------------------------------------------------
(* Properties that hold when no two calls in progress get in each other's  *)
(* way.  The code locks nothing, so only one thread of each kind is sure   *)
(* to keep them so.                                                        *)

\* No two administrators take privileges away at once, no two containers seed at
\* once, no two resets spend one token at once.
Reducing(j) == j.op = "update" /\ Reduces(j.change)
OneReduction ==
  \A v, w \in Workers :
    Reducing(job[v]) /\ Reducing(job[w]) => v = w
OneSeeding ==
  \A v, w \in Workers : job[v].op = "boot" /\ job[w].op = "boot" => v = w
TokensApart ==
  \A v, w \in Workers :
    job[v].op = "reset" /\ job[w].op = "reset" /\ job[v].token = job[w].token => v = w
Apart == OneReduction /\ OneSeeding /\ TokensApart

\* "Any admin acting on another admin is still an active admin afterwards"
\* (users.py:54): once there is an account, some active administrator can
\* administer the others.  Two updates that reduce privileges at once break it:
\* each takes the other's.
Administrable ==
  (\E u \in Users : user[u] # None) => \E u \in Users : IsActiveAdmin(u)

\* "Safe to run on every restart" (bootstrap.py:30): a container that decides to
\* seed the administrator never meets an account of that name, which would end
\* its start-up (docker/entrypoint.sh stops at the first error), although
\* whoever was seeded may have been demoted since.
SeedsOnlyEmpty ==
  \A c \in Containers : job[c].op = "boot" => \A u \in Users : user[u] = None

\* A password changes only by spending a token of that user that nobody had
\* spent ("single-use", password_reset.py:21), and no other way.
SpendsToken(u) ==
  user[u] # None /\ user'[u].password # user[u].password =>
    \E t \in Tokens : /\ token[t] # None /\ token[t].user = u /\ ~token[t].used
                      /\ token'[t].used
ResetSpendsToken == [][\A u \in Users : SpendsToken(u)]_vars

-----------------------------------------------------------------------------
(***************************************************************************)
(* What one call decided is not undone by another that decided on an older *)
(* row.  An account that exists changes its role or state only to what an  *)
(* update in progress asks of it, and its password only to what a reset in *)
(* progress asks: a promotion that read the row before a deactivation, or  *)
(* before a reset, leaves both as they are, and neither a second creation  *)
(* of the name nor a container that starts again touches it ("Never        *)
(* touches an existing administrator", bootstrap.py:29).  This holds for   *)
(* every interleaving.                                                     *)
(***************************************************************************)
Asked(op, u) == {w \in Workers : job[w].op = op /\ job[w].target = u}
ChangesAsAsked(u) ==
  user[u] # None /\ user'[u] # user[u] =>
    /\ user'[u] # None
    /\ user'[u].role # user[u].role =>
         \E w \in Asked("update", u) : job[w].change.role = user'[u].role
    /\ user'[u].active # user[u].active =>
         \E w \in Asked("update", u) : job[w].change.active = user'[u].active
    /\ user'[u].password # user[u].password =>
         \E w \in Asked("reset", u) : job[w].password = user'[u].password
NothingUndone == [][\A u \in Users : ChangesAsAsked(u)]_vars
=============================================================================
