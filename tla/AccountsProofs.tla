--------------------------- MODULE AccountsProofs ---------------------------
(***************************************************************************)
(* Proofs about Accounts: types and what an update may overwrite under     *)
(* every interleaving, the other properties while calls in progress do not *)
(* get in each other's way (OneReduction, OneSeeding, TokensApart).        *)
(***************************************************************************)
EXTENDS Accounts, TLAPS

\* What a call in progress carries, and what its rows have come to be: accounts
\* and tokens are never deleted.
WellFormed(j) ==
  /\ j.op = "create" => j.target \in Users /\ j.password \in Passwords
                        /\ j.change.role \in Roles
  /\ j.op = "boot" => j.target \in Users /\ j.password \in Passwords
  /\ j.op = "update" => j.target \in Users /\ user[j.target] # None
  /\ j.op = "reset" => /\ j.target \in Users /\ user[j.target] # None
                       /\ j.token \in Tokens /\ token[j.token] # None
                       /\ j.password \in Passwords
JobShape == \A w \in Workers : WellFormed(job[w])
TokenShape == \A t \in Tokens : token[t] # None => user[token[t].user] # None

TypeInv == TypeOK /\ JobShape /\ TokenShape

\* No row of users or of tokens disappears.
Kept ==
  /\ \A u \in Users : user[u] # None => user'[u] # None
  /\ \A t \in Tokens : token[t] # None => token'[t] # None

LEMMA InitType == Init => TypeInv
<1>. SUFFICES ASSUME Init PROVE TypeInv
  OBVIOUS
<1>1. Idle \in Jobs
  BY DEF Idle, Jobs, Changes
<1>2. TypeOK
  BY <1>1, BoundsAssumption DEF Init, TypeOK
<1>3. JobShape
  BY DEF Init, JobShape, WellFormed, Idle
<1>4. TokenShape
  BY DEF Init, TokenShape
<1>. QED BY <1>2, <1>3, <1>4 DEF TypeInv

\* What others do to the rows leaves the calls in progress well-formed.
LEMMA ShapeKept ==
  ASSUME TypeInv, Kept,
         NEW w \in Workers, NEW j, job' = [job EXCEPT ![w] = j], j \in Jobs,
         WellFormed(j)'
  PROVE  job' \in [Workers -> Jobs] /\ JobShape'
<1>1. job' \in [Workers -> Jobs]
  BY DEF TypeInv, TypeOK
<1>2. ASSUME NEW v \in Workers, v # w PROVE WellFormed(job[v])'
  BY <1>2 DEF TypeInv, TypeOK, JobShape, WellFormed, Kept
<1>3. WellFormed(job[w])'
  BY DEF TypeInv, TypeOK
<1>. QED BY <1>1, <1>2, <1>3 DEF JobShape

LEMMA AcceptType ==
  ASSUME TypeInv, NEW w \in Workers, NEW call \in Jobs, WellFormed(call),
         Accept(w, call)
  PROVE  TypeInv'
<1>1. user' = user /\ token' = token /\ job' = [job EXCEPT ![w] = call]
  BY DEF Accept
<1>2. Kept
  BY <1>1 DEF Kept
<1>3. WellFormed(call)'
  BY <1>1 DEF WellFormed
<1>4. job' \in [Workers -> Jobs] /\ JobShape'
  BY <1>1, <1>2, <1>3, ShapeKept
<1>5. calls' \in 0 .. MaxCalls
  BY BoundsAssumption DEF Accept, Count, TypeInv, TypeOK
<1>6. TokenShape'
  BY <1>1 DEF TypeInv, TokenShape
<1>. QED BY <1>1, <1>4, <1>5, <1>6 DEF TypeInv, TypeOK

LEMMA FinishType ==
  ASSUME TypeInv, Kept, NEW w \in Workers, Finish(w)
  PROVE  job' \in [Workers -> Jobs] /\ JobShape' /\ calls' \in 0 .. MaxCalls
<1>1. Idle \in Jobs
  BY DEF Idle, Jobs, Changes
<1>2. WellFormed(Idle)'
  BY DEF WellFormed, Idle
<1>3. job' \in [Workers -> Jobs] /\ JobShape'
  BY <1>1, <1>2, ShapeKept DEF Finish
<1>4. calls' \in 0 .. MaxCalls
  BY DEF Finish, TypeInv, TypeOK
<1>. QED BY <1>3, <1>4

LEMMA InsertType ==
  ASSUME TypeInv, NEW w \in Workers, job[w].target \in Users,
         job[w].password \in Passwords, NEW role \in Roles, Insert(w, role)
  PROVE  TypeInv' /\ Kept
<1>. DEFINE u == job[w].target
            row == [role |-> role, active |-> TRUE, password |-> job[w].password]
<1>1. row \in Rows
  BY DEF Rows
<1>2. user' = IF user[u] = None THEN [user EXCEPT ![u] = row] ELSE user
  BY DEF Insert
<1>3. token' = token /\ Finish(w)
  BY DEF Insert
<1>. HIDE DEF row
<1>4. user' \in [Users -> Rows \cup {None}]
  BY <1>1, <1>2 DEF TypeInv, TypeOK
<1>5. Kept
  BY <1>1, <1>2, <1>3, NoneAssumption DEF Kept, TypeInv, TypeOK
<1>6. job' \in [Workers -> Jobs] /\ JobShape' /\ calls' \in 0 .. MaxCalls
  BY <1>3, <1>5, FinishType
<1>7. TokenShape'
  BY <1>3, <1>5 DEF TypeInv, TypeOK, TokenShape, Kept, ResetRows
<1>. QED BY <1>3, <1>4, <1>5, <1>6, <1>7 DEF TypeInv, TypeOK

\* An account's row after an UPDATE of some of its columns.
LEMMA UpdateType ==
  ASSUME TypeInv, NEW u \in Users, user[u] # None, NEW row \in Rows,
         user' = [user EXCEPT ![u] = row],
         \A t \in Tokens : token[t] # None =>
           token'[t] # None /\ token'[t].user = token[t].user,
         \A t \in Tokens : token[t] = None => token'[t] = None
  PROVE  Kept /\ user' \in [Users -> Rows \cup {None}] /\ TokenShape'
<1>1. user' \in [Users -> Rows \cup {None}]
  BY DEF TypeInv, TypeOK
<1>2. \A v \in Users : user[v] # None => user'[v] # None
  BY NoneAssumption DEF TypeInv, TypeOK
<1>3. Kept
  BY <1>2 DEF Kept
<1>4. TokenShape'
  BY <1>2 DEF TypeInv, TypeOK, TokenShape, ResetRows
<1>. QED BY <1>1, <1>3, <1>4

LEMMA ColumnType ==
  ASSUME NEW S, NEW stored \in S, NEW seen, NEW given \in S \cup {None}
  PROVE  Column(stored, seen, given) \in S
BY DEF Column

\* The row a commit of update_user leaves.
Updated(row, seen, given) ==
  [row EXCEPT !.role = Column(row.role, seen.role, given.role),
              !.active = Column(row.active, seen.active, given.active)]

LEMMA UpdatedType ==
  ASSUME NEW row \in Rows, NEW seen, NEW given \in Changes
  PROVE  Updated(row, seen, given) \in Rows
<1>. DEFINE r == Column(row.role, seen.role, given.role)
            b == Column(row.active, seen.active, given.active)
<1>1. row.role \in Roles /\ given.role \in Roles \cup {None}
  BY DEF Rows, Changes
<1>2. row.active \in BOOLEAN /\ given.active \in BOOLEAN \cup {None}
  BY DEF Rows, Changes
<1>3. r \in Roles
  BY <1>1, ColumnType
<1>4. b \in BOOLEAN
  BY <1>2, ColumnType
<1>5. Updated(row, seen, given) = [row EXCEPT !.role = r, !.active = b]
  BY DEF Updated
<1>. HIDE DEF r, b
<1>. QED BY <1>3, <1>4, <1>5 DEF Rows

LEMMA CommitUpdateFacts ==
  ASSUME TypeInv, NEW w \in AdminWorkers, CommitUpdate(w)
  PROVE  /\ job[w].target \in Users /\ user[job[w].target] \in Rows
         /\ user[job[w].target] # None
         /\ job[w].change \in Changes
         /\ user' = [user EXCEPT ![job[w].target] =
                      Updated(user[job[w].target], job[w].seen, job[w].change)]
         /\ token' = token /\ Finish(w)
<1>. w \in Workers
  BY DEF Workers
<1>1. job[w] \in Jobs /\ WellFormed(job[w]) /\ job[w].op = "update"
  BY DEF TypeInv, TypeOK, JobShape, CommitUpdate
<1>2. job[w].target \in Users /\ user[job[w].target] # None
  BY <1>1 DEF WellFormed
<1>3. user[job[w].target] \in Rows /\ user \in [Users -> Rows \cup {None}]
  BY <1>2 DEF TypeInv, TypeOK
<1>4. job[w].change \in Changes
  BY <1>1 DEF Jobs
<1>5. user' = [user EXCEPT ![job[w].target] =
                Updated(user[job[w].target], job[w].seen, job[w].change)]
  BY <1>2, <1>3 DEF CommitUpdate, Updated
<1>. QED BY <1>2, <1>3, <1>4, <1>5 DEF CommitUpdate

LEMMA StepType == TypeInv /\ [Next]_vars => TypeInv'
<1>. SUFFICES ASSUME TypeInv, [Next]_vars PROVE TypeInv'
  OBVIOUS
<1>. USE DEF Workers
<1>1. Idle \in Jobs
  BY DEF Idle, Jobs, Changes
<1>2. ASSUME NEW w \in AdminWorkers, NEW a \in Users, NEW u \in Users,
             NEW role \in Roles, NEW p \in Passwords, BeginCreate(w, a, u, role, p)
      PROVE  TypeInv'
  <2>. DEFINE call == [Idle EXCEPT !.op = "create", !.target = u,
                                   !.change.role = role, !.password = p]
  <2>1. call \in Jobs /\ WellFormed(call)
    BY <1>1 DEF Jobs, Changes, Idle, WellFormed
  <2>2. Accept(w, call)
    BY <1>2 DEF BeginCreate
  <2>. HIDE DEF call
  <2>. QED BY <2>1, <2>2, AcceptType
<1>3. ASSUME NEW w \in AdminWorkers, NEW a \in Users, NEW u \in Users,
             NEW change \in Changes, BeginUpdate(w, a, u, change)
      PROVE  TypeInv'
  <2>. DEFINE call == [Idle EXCEPT !.op = "update", !.target = u, !.seen = user[u],
                                   !.change = change]
  <2>1. user[u] # None /\ user[u] \in Rows \cup {None}
    BY <1>3 DEF BeginUpdate, TypeInv, TypeOK
  <2>2. call \in Jobs /\ WellFormed(call)
    BY <1>1, <2>1 DEF Jobs, Idle, WellFormed
  <2>3. Accept(w, call)
    BY <1>3 DEF BeginUpdate
  <2>. HIDE DEF call
  <2>. QED BY <2>2, <2>3, AcceptType
<1>4. ASSUME NEW w \in AdminWorkers, CommitCreate(w) PROVE TypeInv'
  <2>1. job[w].target \in Users /\ job[w].password \in Passwords
        /\ job[w].change.role \in Roles
    BY <1>4 DEF CommitCreate, TypeInv, JobShape, WellFormed
  <2>. QED BY <1>4, <2>1, InsertType DEF CommitCreate
<1>5. ASSUME NEW w \in AdminWorkers, CommitUpdate(w) PROVE TypeInv'
  <2>. DEFINE u == job[w].target
              row == Updated(user[u], job[w].seen, job[w].change)
  <2>1. /\ u \in Users /\ user[u] \in Rows /\ user[u] # None /\ job[w].change \in Changes
        /\ user' = [user EXCEPT ![u] = row] /\ token' = token /\ Finish(w)
    BY <1>5, CommitUpdateFacts
  <2>2. row \in Rows
    BY <2>1, UpdatedType
  <2>. HIDE DEF row
  <2>3. Kept /\ user' \in [Users -> Rows \cup {None}] /\ TokenShape'
    BY <2>1, <2>2, UpdateType
  <2>. QED BY <2>1, <2>3, FinishType DEF TypeInv, TypeOK
<1>6. ASSUME NEW c \in Containers, NEW p \in Passwords, BeginBootstrap(c, p)
      PROVE  TypeInv'
  <2>. DEFINE call == [Idle EXCEPT !.op = "boot", !.target = Seed, !.password = p]
  <2>1. call \in Jobs /\ WellFormed(call)
    BY <1>1, SeedAssumption DEF Jobs, Idle, WellFormed
  <2>2. Accept(c, call)
    BY <1>6 DEF BeginBootstrap
  <2>. HIDE DEF call
  <2>. QED BY <2>1, <2>2, AcceptType
<1>7. ASSUME NEW c \in Containers, CommitBootstrap(c) PROVE TypeInv'
  <2>1. job[c].target \in Users /\ job[c].password \in Passwords
    BY <1>7 DEF CommitBootstrap, TypeInv, JobShape, WellFormed
  <2>. QED BY <1>7, <2>1, InsertType, SeedAssumption DEF CommitBootstrap
<1>8. ASSUME NEW t \in Tokens, NEW u \in Users, ForgotPassword(u, t) PROVE TypeInv'
  <2>1. Kept /\ user' = user /\ job' = job
    BY <1>8, NoneAssumption DEF ForgotPassword, Kept, TypeInv, TypeOK, ResetRows
  <2>2. token' \in [Tokens -> ResetRows \cup {None}]
    BY <1>8 DEF ForgotPassword, TypeInv, TypeOK, ResetRows
  <2>3. TokenShape'
    BY <1>8, <2>1 DEF ForgotPassword, TypeInv, TypeOK, TokenShape, ResetRows
  <2>4. JobShape'
    BY <2>1 DEF Kept, TypeInv, TypeOK, JobShape, WellFormed
  <2>5. calls' \in 0 .. MaxCalls
    BY <1>8, BoundsAssumption DEF ForgotPassword, Count, TypeInv, TypeOK
  <2>. QED BY <2>1, <2>2, <2>3, <2>4, <2>5 DEF TypeInv, TypeOK
<1>9. ASSUME NEW t \in Tokens, Expire(t) PROVE TypeInv'
  <2>1. user' = user /\ job' = job /\ calls' = calls
    BY <1>9 DEF Expire
  <2>2. token' \in [Tokens -> ResetRows \cup {None}]
    BY <1>9 DEF Expire, TypeInv, TypeOK, ResetRows
  <2>3. \A s \in Tokens : token[s] # None => token'[s] # None
    BY <1>9, NoneAssumption DEF Expire, TypeInv, TypeOK, ResetRows
  <2>4. TokenShape'
    BY <1>9, <2>1 DEF Expire, TypeInv, TypeOK, TokenShape, ResetRows
  <2>5. JobShape'
    BY <2>1, <2>3 DEF TypeInv, TypeOK, JobShape, WellFormed
  <2>. QED BY <2>1, <2>2, <2>4, <2>5 DEF TypeInv, TypeOK
<1>10. ASSUME NEW t \in Tokens, NEW w \in ResetWorkers, NEW p \in Passwords,
              BeginReset(w, t, p)
       PROVE  TypeInv'
  <2>. DEFINE call == [Idle EXCEPT !.op = "reset", !.target = token[t].user,
                                   !.token = t, !.password = p]
  <2>1. token[t] # None /\ token[t] \in ResetRows \cup {None}
    BY <1>10 DEF BeginReset, IsValid, TypeInv, TypeOK
  <2>2. token[t].user \in Users /\ user[token[t].user] # None
    BY <2>1 DEF ResetRows, TypeInv, TokenShape
  <2>3. call \in Jobs /\ WellFormed(call)
    BY <1>1, <2>1, <2>2 DEF Jobs, Idle, WellFormed
  <2>4. Accept(w, call)
    BY <1>10 DEF BeginReset
  <2>. HIDE DEF call
  <2>. QED BY <2>3, <2>4, AcceptType
<1>11. ASSUME NEW w \in ResetWorkers, CommitReset(w) PROVE TypeInv'
  <2>. DEFINE u == job[w].target
              t == job[w].token
              row == [user[u] EXCEPT !.password = job[w].password]
  <2>1. /\ u \in Users /\ user[u] # None /\ t \in Tokens /\ token[t] # None
        /\ job[w].password \in Passwords
    BY <1>11 DEF CommitReset, TypeInv, JobShape, WellFormed
  <2>2. user[u] \in Rows /\ token[t] \in ResetRows
    BY <2>1 DEF TypeInv, TypeOK
  <2>3. row \in Rows /\ [token[t] EXCEPT !.used = TRUE] \in ResetRows
    BY <2>1, <2>2 DEF Rows, ResetRows
  <2>4. /\ user' = [user EXCEPT ![u] = row]
        /\ token' = [token EXCEPT ![t] = [token[t] EXCEPT !.used = TRUE]]
        /\ Finish(w)
    BY <1>11, <2>1, <2>2 DEF CommitReset, TypeInv, TypeOK
  <2>5. \A s \in Tokens :
          /\ token[s] # None => token'[s] # None /\ token'[s].user = token[s].user
          /\ token[s] = None => token'[s] = None
    BY <2>1, <2>2, <2>3, <2>4, NoneAssumption DEF TypeInv, TypeOK, ResetRows
  <2>6. token' \in [Tokens -> ResetRows \cup {None}]
    BY <2>1, <2>3, <2>4 DEF TypeInv, TypeOK
  <2>. HIDE DEF row, u, t
  <2>7. Kept /\ user' \in [Users -> Rows \cup {None}] /\ TokenShape'
    BY <2>1, <2>3, <2>4, <2>5, UpdateType
  <2>. QED BY <2>4, <2>6, <2>7, FinishType DEF TypeInv, TypeOK
<1>12. ASSUME NEW w \in Workers, Abort(w) PROVE TypeInv'
  <2>1. user' = user /\ token' = token /\ Finish(w)
    BY <1>12 DEF Abort
  <2>2. Kept
    BY <2>1 DEF Kept
  <2>. QED BY <2>1, <2>2, FinishType DEF TypeInv, TypeOK, TokenShape
<1>13. CASE UNCHANGED vars
  BY <1>13 DEF vars, TypeInv, TypeOK, JobShape, TokenShape, WellFormed
<1>. QED BY <1>2, <1>3, <1>4, <1>5, <1>6, <1>7, <1>8, <1>9, <1>10, <1>11, <1>12,
            <1>13 DEF Next

\* Types, and that a call in progress names rows that exist (create_user,
\* update_user, ensure_first_admin, reset_password).
THEOREM TypeCorrect == Spec => []TypeInv
BY InitType, StepType, PTL DEF Spec

\* Every variable keeps its type, for any accounts, tokens and threads.
THEOREM TypeOKHolds == Spec => []TypeOK
<1>1. TypeInv => TypeOK
  BY DEF TypeInv
<1>. QED BY <1>1, TypeCorrect, PTL

-----------------------------------------------------------------------------
(* One reduction of privileges at a time.                                  *)

\* What a call in progress was checked for: the account that started it is an
\* active administrator and is not the one that loses by it.
Vetted(w) ==
  /\ job[w].op = "create" => \E a \in Users : IsActiveAdmin(a)
  /\ job[w].op = "update" =>
       \E a \in Users : IsActiveAdmin(a)
                        /\ ~ReducesSelf(a, job[w].target, job[w].change)

AdminInv == TypeInv /\ Administrable /\ \A w \in AdminWorkers : Vetted(w)

\* A step that leaves the administrators and the calls of administration alone.
LEMMA QuietAdmin ==
  ASSUME AdminInv,
         \A u \in Users : IsActiveAdmin(u) => IsActiveAdmin(u)',
         \/ \A u \in Users : user[u] = None => user'[u] = None
         \/ \E u \in Users : IsActiveAdmin(u)',
         \A w \in AdminWorkers :
           job'[w] = job[w] \/ job'[w].op \notin {"create", "update"}
  PROVE  Administrable' /\ \A w \in AdminWorkers : Vetted(w)'
<1>1. Administrable'
  BY DEF AdminInv, Administrable
<1>2. ASSUME NEW w \in AdminWorkers PROVE Vetted(w)'
  <2>1. CASE job'[w] = job[w]
    BY <2>1 DEF AdminInv, Vetted, ReducesSelf
  <2>2. CASE job'[w].op \notin {"create", "update"}
    BY <2>2 DEF Vetted
  <2>. QED BY <2>1, <2>2
<1>. QED BY <1>1, <1>2

\* An insert leaves the administrators there are.
LEMMA InsertAdmin ==
  ASSUME TypeInv, NEW w \in Workers, NEW role, Insert(w, role)
  PROVE  /\ \A u \in Users : IsActiveAdmin(u) => IsActiveAdmin(u)'
         /\ \A u \in Users : user[u] # None => user'[u] = user[u]
         /\ job' = [job EXCEPT ![w] = Idle]
<1>1. \A u \in Users : user[u] # None => user'[u] = user[u]
  BY DEF Insert, TypeInv, TypeOK
<1>. QED BY <1>1 DEF Insert, Finish, IsActiveAdmin, IsAdmin

LEMMA IdleJob ==
  ASSUME TypeInv, NEW w \in Workers, job' = [job EXCEPT ![w] = Idle], NEW v \in Workers
  PROVE  job'[v] = job[v] \/ job'[v] = Idle
BY DEF TypeInv, TypeOK

\* A reset and what is not about accounts: roles and activity stay.
LEMMA SameAdmins ==
  ASSUME AdminInv,
         \A u \in Users : user'[u] = user[u] \/
           (user[u] # None /\ user'[u] # None /\ user'[u].role = user[u].role
                           /\ user'[u].active = user[u].active),
         \A w \in AdminWorkers :
           job'[w] = job[w] \/ job'[w].op \notin {"create", "update"}
  PROVE  Administrable' /\ \A w \in AdminWorkers : Vetted(w)'
<1>1. \A u \in Users : IsActiveAdmin(u) => IsActiveAdmin(u)'
  BY DEF IsActiveAdmin, IsAdmin
<1>2. \A u \in Users : user[u] = None => user'[u] = None
  OBVIOUS
<1>. QED BY <1>1, <1>2, QuietAdmin

LEMMA StepAdmin ==
  ASSUME AdminInv, OneReduction, [Next]_vars
  PROVE  AdminInv'
<1>. SUFFICES Administrable' /\ \A w \in AdminWorkers : Vetted(w)'
  BY StepType DEF AdminInv
<1>. AdminWorkers \subseteq Workers /\ TypeInv
  BY DEF Workers, AdminInv
<1>1. ASSUME NEW w \in AdminWorkers, NEW a \in Users, NEW u \in Users,
             NEW role \in Roles, NEW p \in Passwords, BeginCreate(w, a, u, role, p)
      PROVE  Administrable' /\ \A v \in AdminWorkers : Vetted(v)'
  <2>1. user' = user /\ IsActiveAdmin(a)
    BY <1>1 DEF BeginCreate, Accept
  <2>2. job'[w].op = "create" /\ \A v \in Workers \ {w} : job'[v] = job[v]
    BY <1>1 DEF BeginCreate, Accept, TypeInv, TypeOK, Idle
  <2>3. \A b \in Users : IsActiveAdmin(b) => IsActiveAdmin(b)'
    BY <2>1 DEF IsActiveAdmin, IsAdmin
  <2>4. \A v \in AdminWorkers : Vetted(v)'
    BY <2>1, <2>2, <2>3 DEF AdminInv, Vetted, ReducesSelf
  <2>. QED BY <2>1, <2>3, <2>4 DEF Administrable
<1>2. ASSUME NEW w \in AdminWorkers, NEW a \in Users, NEW u \in Users,
             NEW change \in Changes, BeginUpdate(w, a, u, change)
      PROVE  Administrable' /\ \A v \in AdminWorkers : Vetted(v)'
  <2>1. user' = user /\ IsActiveAdmin(a) /\ ~ReducesSelf(a, u, change)
    BY <1>2 DEF BeginUpdate, Accept
  <2>2. /\ job'[w].op = "update" /\ job'[w].target = u /\ job'[w].change = change
        /\ \A v \in Workers \ {w} : job'[v] = job[v]
    BY <1>2 DEF BeginUpdate, Accept, TypeInv, TypeOK, Idle
  <2>3. \A b \in Users : IsActiveAdmin(b) => IsActiveAdmin(b)'
    BY <2>1 DEF IsActiveAdmin, IsAdmin
  <2>4. Vetted(w)'
    BY <2>1, <2>2, <2>3 DEF Vetted, ReducesSelf
  <2>5. \A v \in AdminWorkers \ {w} : Vetted(v)'
    BY <2>2, <2>3 DEF AdminInv, Vetted, ReducesSelf
  <2>. QED BY <2>1, <2>3, <2>4, <2>5 DEF Administrable
<1>3. ASSUME NEW w \in AdminWorkers, CommitCreate(w)
      PROVE  Administrable' /\ \A v \in AdminWorkers : Vetted(v)'
  <2>1. /\ \A u \in Users : IsActiveAdmin(u) => IsActiveAdmin(u)'
        /\ job' = [job EXCEPT ![w] = Idle]
    BY <1>3, InsertAdmin DEF CommitCreate
  <2>2. \E u \in Users : IsActiveAdmin(u)'
    BY <1>3, <2>1 DEF AdminInv, Vetted, CommitCreate
  <2>. QED BY <2>1, <2>2, QuietAdmin, IdleJob DEF Idle
<1>4. ASSUME NEW w \in AdminWorkers, CommitUpdate(w)
      PROVE  Administrable' /\ \A v \in AdminWorkers : Vetted(v)'
  <2>. DEFINE u == job[w].target
              seen == job[w].seen
              given == job[w].change
  <2>1. /\ u \in Users /\ user[u] \in Rows
        /\ user' = [user EXCEPT ![u] = Updated(user[u], seen, given)]
        /\ Finish(w)
    BY <1>4, CommitUpdateFacts
  <2>2. PICK a \in Users : IsActiveAdmin(a) /\ ~ReducesSelf(a, u, given)
    BY <1>4 DEF AdminInv, Vetted, CommitUpdate
  <2>3. ASSUME NEW b \in Users, IsActiveAdmin(b), ~ReducesSelf(b, u, given)
        PROVE  IsActiveAdmin(b)'
    <3>1. CASE b # u
      BY <2>1, <2>3, <3>1 DEF IsActiveAdmin, IsAdmin, TypeInv, TypeOK
    <3>2. CASE b = u
      <4>1. user[u].role = Admin /\ given.role \in {None, Admin}
        BY <2>3, <3>2 DEF IsActiveAdmin, IsAdmin, ReducesSelf, Reduces
      <4>2. user[u].active /\ given.active # FALSE
        BY <2>3, <3>2 DEF IsActiveAdmin, IsAdmin, ReducesSelf, Reduces
      <4>3. given.active \in BOOLEAN \cup {None}
        BY <2>1, <1>4, CommitUpdateFacts DEF Changes
      <4>4. Column(user[u].role, seen.role, given.role) = Admin
        BY <4>1 DEF Column
      <4>5. Column(user[u].active, seen.active, given.active)
        BY <4>2, <4>3 DEF Column
      <4>6. /\ user'[u].role = Column(user[u].role, seen.role, given.role)
            /\ user'[u].active = Column(user[u].active, seen.active, given.active)
        BY <2>1 DEF Updated, Rows, TypeInv, TypeOK
      <4>7. user'[u] # None
        BY <2>1, <1>4, CommitUpdateFacts, UpdatedType, NoneAssumption
           DEF TypeInv, TypeOK
      <4>. QED BY <3>2, <4>4, <4>5, <4>6, <4>7 DEF IsActiveAdmin, IsAdmin
    <3>. QED BY <3>1, <3>2
  <2>4. job'[w] = Idle /\ \A v \in Workers \ {w} : job'[v] = job[v]
    BY <2>1 DEF Finish, TypeInv, TypeOK
  <2>5. IsActiveAdmin(a)' /\ Administrable'
    BY <2>2, <2>3 DEF Administrable
  <2>6. ASSUME NEW v \in AdminWorkers \ {w}, job[v].op = "update"
        PROVE  \E b \in Users : IsActiveAdmin(b)' /\ ~ReducesSelf(b, job[v].target, job[v].change)
    <3>1. CASE Reduces(given)
      <4>1. ~Reduces(job[v].change)
        BY <1>4, <2>6, <3>1 DEF OneReduction, Reducing, CommitUpdate
      <4>. QED BY <2>5, <4>1 DEF ReducesSelf
    <3>2. CASE ~Reduces(given)
      <4>1. PICK b \in Users : IsActiveAdmin(b) /\ ~ReducesSelf(b, job[v].target, job[v].change)
        BY <2>6 DEF AdminInv, Vetted
      <4>2. IsActiveAdmin(b)'
        BY <2>3, <3>2, <4>1 DEF ReducesSelf
      <4>. QED BY <4>1, <4>2
    <3>. QED BY <3>1, <3>2
  <2>7. Vetted(w)'
    BY <2>4 DEF Vetted, Idle
  <2>8. ASSUME NEW v \in AdminWorkers \ {w} PROVE Vetted(v)'
    <3>1. job'[v] = job[v]
      BY <2>4
    <3>. QED BY <2>5, <2>6, <3>1 DEF Vetted, ReducesSelf
  <2>. QED BY <2>5, <2>7, <2>8
<1>5. ASSUME NEW c \in Containers, NEW p \in Passwords, BeginBootstrap(c, p)
      PROVE  Administrable' /\ \A v \in AdminWorkers : Vetted(v)'
  <2>1. user' = user /\ c \in Workers
    BY <1>5 DEF BeginBootstrap, Accept, Workers
  <2>2. \A v \in Workers : job'[v] = job[v] \/ job'[v].op = "boot"
    BY <1>5, <2>1 DEF BeginBootstrap, Accept, TypeInv, TypeOK, Idle
  <2>. QED BY <2>1, <2>2, SameAdmins
<1>6. ASSUME NEW c \in Containers, CommitBootstrap(c)
      PROVE  Administrable' /\ \A v \in AdminWorkers : Vetted(v)'
  <2>1. c \in Workers /\ Insert(c, Admin) /\ job[c].target \in Users
    BY <1>6 DEF CommitBootstrap, Workers, TypeInv, JobShape, WellFormed
  <2>2. /\ \A u \in Users : IsActiveAdmin(u) => IsActiveAdmin(u)'
        /\ \A u \in Users : user[u] # None => user'[u] = user[u]
        /\ job' = [job EXCEPT ![c] = Idle]
    BY <2>1, InsertAdmin
  <2>3. \/ \A u \in Users : user[u] = None => user'[u] = None
        \/ \E u \in Users : IsActiveAdmin(u)'
    <3>1. CASE user[job[c].target] # None
      BY <2>1, <3>1 DEF Insert
    <3>2. CASE user[job[c].target] = None
      <4>. DEFINE row == [role |-> Admin, active |-> TRUE,
                          password |-> job[c].password]
      <4>1. user'[job[c].target] = row
        BY <2>1, <3>2 DEF Insert, TypeInv, TypeOK
      <4>2. row \in Rows
        BY <1>6, <2>1, SeedAssumption
           DEF CommitBootstrap, Rows, TypeInv, JobShape, WellFormed
      <4>. QED BY <2>1, <4>1, <4>2, NoneAssumption DEF IsActiveAdmin, IsAdmin
    <3>. QED BY <3>1, <3>2
  <2>. QED BY <2>1, <2>2, <2>3, QuietAdmin, IdleJob DEF Idle
<1>7. ASSUME NEW t \in Tokens,
             (\E u \in Users : ForgotPassword(u, t)) \/ Expire(t)
      PROVE  Administrable' /\ \A v \in AdminWorkers : Vetted(v)'
  <2>1. user' = user /\ job' = job
    BY <1>7 DEF ForgotPassword, Expire
  <2>. QED BY <2>1, SameAdmins
<1>8. ASSUME NEW t \in Tokens, NEW w \in ResetWorkers, NEW p \in Passwords,
             BeginReset(w, t, p)
      PROVE  Administrable' /\ \A v \in AdminWorkers : Vetted(v)'
  <2>1. user' = user /\ w \in Workers
    BY <1>8 DEF BeginReset, Accept, Workers
  <2>2. \A v \in Workers : job'[v] = job[v] \/ job'[v].op = "reset"
    BY <1>8, <2>1 DEF BeginReset, Accept, TypeInv, TypeOK, Idle
  <2>. QED BY <2>1, <2>2, SameAdmins
<1>9. ASSUME NEW w \in ResetWorkers, CommitReset(w)
      PROVE  Administrable' /\ \A v \in AdminWorkers : Vetted(v)'
  <2>1. /\ w \in Workers /\ job[w].target \in Users /\ user[job[w].target] # None
        /\ job' = [job EXCEPT ![w] = Idle]
        /\ user' = [user EXCEPT ![job[w].target].password = job[w].password]
    BY <1>9 DEF CommitReset, Finish, Workers, TypeInv, JobShape, WellFormed
  <2>2. user[job[w].target] \in Rows
    BY <2>1 DEF TypeInv, TypeOK
  <2>3. [user[job[w].target] EXCEPT !.password = job[w].password] \in Rows
    BY <1>9, <2>1, <2>2 DEF CommitReset, Rows, TypeInv, JobShape, WellFormed
  <2>4. \A u \in Users : user'[u] = user[u] \/
          (user[u] # None /\ user'[u] # None /\ user'[u].role = user[u].role
                          /\ user'[u].active = user[u].active)
    BY <2>1, <2>2, <2>3, NoneAssumption DEF Rows, TypeInv, TypeOK
  <2>. QED BY <2>1, <2>4, SameAdmins, IdleJob DEF Idle
<1>10. ASSUME NEW w \in Workers, Abort(w)
       PROVE  Administrable' /\ \A v \in AdminWorkers : Vetted(v)'
  <2>1. user' = user /\ job' = [job EXCEPT ![w] = Idle]
    BY <1>10 DEF Abort, Finish
  <2>. QED BY <2>1, SameAdmins, IdleJob DEF Idle
<1>11. CASE UNCHANGED vars
  BY <1>11, SameAdmins DEF vars
<1>. QED BY <1>1, <1>2, <1>3, <1>4, <1>5, <1>6, <1>7, <1>8, <1>9, <1>10, <1>11
         DEF Next

LEMMA InitAdmin == Init => AdminInv
BY InitType DEF Init, AdminInv, Administrable, Vetted, Idle, Workers

\* While privileges are taken away one call at a time somebody can always
\* administer, whatever else is updated, created, seeded and reset meanwhile
\* (users.py:54).
THEOREM AdministrableHolds == Spec /\ []OneReduction => []Administrable
<1>1. AdminInv /\ OneReduction /\ [Next]_vars => AdminInv'
  BY StepAdmin
<1>2. AdminInv => Administrable
  BY DEF AdminInv
<1>. QED BY <1>1, <1>2, InitAdmin, PTL DEF Spec

\* With one seeding at a time as well, it is only decided on an empty table.
SeedInv == AdminInv /\ SeedsOnlyEmpty

LEMMA StepSeed ==
  ASSUME SeedInv, OneReduction, OneSeeding, [Next]_vars
  PROVE  SeedInv'
<1>. SUFFICES ASSUME NEW c \in Containers, job'[c].op = "boot", NEW u \in Users
              PROVE  user'[u] = None
  BY StepAdmin DEF SeedInv, SeedsOnlyEmpty
<1>. TypeInv /\ c \in Workers
  BY DEF SeedInv, AdminInv, Workers
<1>1. CASE job'[c] = job[c]
  <2>1. \A v \in Users : user[v] = None
    BY <1>1 DEF SeedInv, SeedsOnlyEmpty
  <2>2. ~ \E w \in AdminWorkers : job[w].op = "create" \/ job[w].op = "update"
    BY <2>1 DEF SeedInv, AdminInv, Vetted, IsActiveAdmin, IsAdmin
  <2>3. ~ \E w \in ResetWorkers : job[w].op = "reset"
    BY <2>1 DEF TypeInv, JobShape, WellFormed, Workers
  <2>4. ASSUME NEW d \in Containers, CommitBootstrap(d) PROVE FALSE
    <3>1. d = c
      BY <1>1, <2>4 DEF CommitBootstrap, OneSeeding, Workers
    <3>. QED BY <1>1, <2>4, <3>1 DEF CommitBootstrap, Insert, Finish, Idle, TypeInv, TypeOK
  <2>5. user' = user
    BY <2>2, <2>3, <2>4
       DEF Next, vars, BeginCreate, BeginUpdate, BeginBootstrap, BeginReset, Accept,
           ForgotPassword, Expire, Abort, CommitCreate, CommitUpdate, CommitReset
  <2>. QED BY <2>1, <2>5
<1>2. CASE job'[c] # job[c]
  <2>1. ASSUME NEW w \in Workers, Finish(w) PROVE FALSE
    BY <1>2, <2>1 DEF Finish, Idle, TypeInv, TypeOK
  <2>2. ASSUME NEW w \in Workers, NEW call, Accept(w, call), call.op # "boot" PROVE FALSE
    BY <1>2, <2>2 DEF Accept, TypeInv, TypeOK
  <2>3. \E d \in Containers, p \in Passwords : BeginBootstrap(d, p)
    BY <1>2, <2>1, <2>2
       DEF Next, vars, Workers, BeginCreate, BeginUpdate, BeginReset, ForgotPassword,
           Expire, Abort, CommitCreate, CommitBootstrap, CommitUpdate, CommitReset,
           Insert, Idle
  <2>4. user' = user /\ ~HasAdmin
    BY <2>3 DEF BeginBootstrap, Accept
  <2>. QED BY <2>4 DEF SeedInv, AdminInv, Administrable, HasAdmin, IsActiveAdmin
<1>. QED BY <1>1, <1>2

\* While privileges are reduced and accounts seeded one at a time, a start never decides to
\* seed an administrator over an existing account (bootstrap.py:31).
THEOREM SeedsOnlyEmptyHolds == Spec /\ []OneReduction /\ []OneSeeding => []SeedsOnlyEmpty
<1>1. Init => SeedInv
  BY InitAdmin DEF Init, SeedInv, SeedsOnlyEmpty, Idle, Workers
<1>2. SeedInv /\ OneReduction /\ OneSeeding /\ [Next]_vars => SeedInv'
  BY StepSeed
<1>3. SeedInv => SeedsOnlyEmpty
  BY DEF SeedInv
<1>. QED BY <1>1, <1>2, <1>3, PTL DEF Spec

-----------------------------------------------------------------------------
(* What one call decided is not undone by another.                         *)

\* A step of the row of an account that exists is the commit of an update or of
\* a reset of that account.
LEMMA ChangedByItsCall ==
  ASSUME TypeInv, Next, NEW u \in Users, user[u] # None, user'[u] # user[u]
  PROVE  \/ \E w \in AdminWorkers : CommitUpdate(w) /\ job[w].target = u
         \/ \E w \in ResetWorkers : CommitReset(w) /\ job[w].target = u
<1>. user \in [Users -> Rows \cup {None}]
  BY DEF TypeInv, TypeOK
<1>1. ASSUME NEW w \in Workers, NEW role, Insert(w, role) PROVE FALSE
  BY <1>1, InsertAdmin
<1>2. ASSUME NEW w \in AdminWorkers, CommitUpdate(w) PROVE job[w].target = u
  BY <1>2, CommitUpdateFacts
<1>3. ASSUME NEW w \in ResetWorkers, CommitReset(w) PROVE job[w].target = u
  BY <1>3 DEF CommitReset
<1>. QED BY <1>1, <1>2, <1>3
         DEF Next, Workers, BeginCreate, BeginUpdate, BeginBootstrap, BeginReset, Accept,
             ForgotPassword, Expire, Abort, CommitCreate, CommitBootstrap

LEMMA NothingUndoneStep ==
  ASSUME TypeInv, [Next]_vars, NEW u \in Users
  PROVE  ChangesAsAsked(u)
<1>. SUFFICES ASSUME user[u] # None, user'[u] # user[u]
              PROVE  /\ user'[u] # None
                     /\ user'[u].role # user[u].role =>
                          \E w \in Asked("update", u) : job[w].change.role = user'[u].role
                     /\ user'[u].active # user[u].active =>
                          \E w \in Asked("update", u) : job[w].change.active = user'[u].active
                     /\ user'[u].password # user[u].password =>
                          \E w \in Asked("reset", u) : job[w].password = user'[u].password
  BY DEF ChangesAsAsked
<1>1. Next /\ AdminWorkers \subseteq Workers /\ ResetWorkers \subseteq Workers
  BY DEF vars, Workers
<1>2. user[u] \in Rows /\ user' \in [Users -> Rows \cup {None}]
  BY StepType DEF TypeInv, TypeOK
<1>3. ASSUME NEW w \in AdminWorkers, CommitUpdate(w), job[w].target = u
      PROVE  /\ user'[u] # None /\ w \in Asked("update", u)
             /\ user'[u].role # user[u].role => job[w].change.role = user'[u].role
             /\ user'[u].active # user[u].active => job[w].change.active = user'[u].active
             /\ user'[u].password = user[u].password
  <2>. DEFINE seen == job[w].seen
              given == job[w].change
  <2>1. user'[u] = Updated(user[u], seen, given) /\ given \in Changes
    BY <1>3, CommitUpdateFacts DEF TypeInv, TypeOK
  <2>2. /\ user'[u].role = Column(user[u].role, seen.role, given.role)
        /\ user'[u].active = Column(user[u].active, seen.active, given.active)
        /\ user'[u].password = user[u].password
    BY <1>2, <2>1 DEF Updated, Rows
  <2>3. user'[u] # None
    BY <1>2, <2>1, UpdatedType, NoneAssumption
  <2>4. w \in Asked("update", u)
    BY <1>1, <1>3 DEF Asked, CommitUpdate
  <2>. QED BY <2>2, <2>3, <2>4 DEF Column
<1>4. ASSUME NEW w \in ResetWorkers, CommitReset(w), job[w].target = u
      PROVE  /\ user'[u] # None /\ w \in Asked("reset", u)
             /\ user'[u].role = user[u].role /\ user'[u].active = user[u].active
             /\ user'[u].password = job[w].password
  <2>1. user'[u] = [user[u] EXCEPT !.password = job[w].password]
    BY <1>4 DEF CommitReset, TypeInv, TypeOK
  <2>2. job[w].password \in Passwords
    BY <1>1, <1>4 DEF CommitReset, TypeInv, JobShape, WellFormed
  <2>3. user'[u] \in Rows
    BY <1>2, <2>1, <2>2 DEF Rows
  <2>4. w \in Asked("reset", u)
    BY <1>1, <1>4 DEF Asked, CommitReset
  <2>. QED BY <1>2, <2>1, <2>3, <2>4, NoneAssumption DEF Rows
<1>. QED BY <1>1, <1>3, <1>4, ChangedByItsCall

\* Under every interleaving a row changes only as a call in progress asked: an
\* update that read it earlier reverts no other update and no reset, and neither
\* a second creation nor a restarted container touches it (users.py:64,
\* bootstrap.py:29).
THEOREM NothingUndoneHolds == Spec => NothingUndone
<1>1. TypeInv /\ [Next]_vars => [\A u \in Users : ChangesAsAsked(u)]_vars
  BY NothingUndoneStep
<1>. QED BY <1>1, TypeCorrect, PTL DEF Spec, NothingUndone

-----------------------------------------------------------------------------
(* Resets.                                                                 *)

\* A reset that is about to commit holds a token of the user whose password it
\* sets, and nobody has spent it.
Held(w) ==
  job[w].op = "reset" =>
    token[job[w].token].user = job[w].target /\ ~token[job[w].token].used
ResetInv == TypeInv /\ \A w \in ResetWorkers : Held(w)

LEMMA StepReset ==
  ASSUME ResetInv, TokensApart, [Next]_vars
  PROVE  ResetInv' /\ \A u \in Users : SpendsToken(u)
<1>. SUFFICES (\A w \in ResetWorkers : Held(w)') /\ \A u \in Users : SpendsToken(u)
  BY StepType DEF ResetInv
<1>. ResetWorkers \subseteq Workers /\ TypeInv /\ \A w \in ResetWorkers : Held(w)
  BY DEF Workers, ResetInv
<1>. DEFINE AllHeld == \A w \in ResetWorkers : Held(w)
            Goal == AllHeld' /\ \A u \in Users : SpendsToken(u)
<1>1. ASSUME NEW w \in Workers, NEW call, Accept(w, call), call.op # "reset"
      PROVE  Goal
  BY <1>1 DEF Accept, Held, SpendsToken, TypeInv, TypeOK
<1>2. ASSUME NEW w \in Workers, NEW role, Insert(w, role) PROVE Goal
  <2>1. \A u \in Users : user[u] # None => user'[u] = user[u]
    BY <1>2, InsertAdmin
  <2>2. token' = token /\ \A v \in Workers : job'[v] = job[v] \/ job'[v] = Idle
    BY <1>2 DEF Insert, Finish, TypeInv, TypeOK
  <2>3. AllHeld'
    BY <2>2 DEF Held, Idle
  <2>. QED BY <2>1, <2>3 DEF SpendsToken
<1>3. ASSUME NEW w \in AdminWorkers, CommitUpdate(w) PROVE Goal
  <2>1. /\ token' = token
        /\ user' = [user EXCEPT ![job[w].target] =
                     Updated(user[job[w].target], job[w].seen, job[w].change)]
        /\ user[job[w].target] \in Rows /\ job[w].target \in Users /\ Finish(w)
    BY <1>3, CommitUpdateFacts
  <2>2. \A v \in Workers : job'[v] = job[v] \/ job'[v] = Idle
    BY <2>1 DEF Finish, TypeInv, TypeOK
  <2>3. AllHeld'
    BY <2>1, <2>2 DEF Held, Idle
  <2>4. \A u \in Users : user[u] # None => user'[u].password = user[u].password
    BY <2>1 DEF Updated, Rows, TypeInv, TypeOK
  <2>. QED BY <2>3, <2>4 DEF SpendsToken
<1>4. ASSUME NEW t \in Tokens, (\E u \in Users : ForgotPassword(u, t)) \/ Expire(t)
      PROVE  Goal
  <2>1. user' = user /\ job' = job
    BY <1>4 DEF ForgotPassword, Expire
  <2>2. \A s \in Tokens : token[s] # None =>
          token'[s].user = token[s].user /\ token'[s].used = token[s].used
    BY <1>4 DEF ForgotPassword, Expire, ResetRows, TypeInv, TypeOK
  <2>3. \A v \in ResetWorkers : job[v].op = "reset" =>
          job[v].token \in Tokens /\ token[job[v].token] # None
    BY DEF TypeInv, JobShape, WellFormed
  <2>4. AllHeld'
    BY <2>1, <2>2, <2>3 DEF Held
  <2>. QED BY <2>1, <2>4 DEF SpendsToken
<1>5. ASSUME NEW w \in ResetWorkers, NEW t \in Tokens, NEW p \in Passwords,
             BeginReset(w, t, p)
      PROVE  Goal
  <2>1. user' = user /\ token' = token /\ ~token[t].used
    BY <1>5 DEF BeginReset, Accept, IsValid
  <2>2. /\ job'[w].token = t /\ job'[w].target = token[t].user
        /\ \A v \in Workers \ {w} : job'[v] = job[v]
    BY <1>5 DEF BeginReset, Accept, Idle, TypeInv, TypeOK
  <2>3. AllHeld'
    BY <2>1, <2>2 DEF Held
  <2>. QED BY <2>1, <2>3 DEF SpendsToken
<1>6. ASSUME NEW w \in ResetWorkers, CommitReset(w) PROVE Goal
  <2>. DEFINE t == job[w].token
              u == job[w].target
  <2>1. /\ t \in Tokens /\ token[t] # None /\ token[t].user = u /\ ~token[t].used
        /\ u \in Users
    BY <1>6 DEF CommitReset, Held, TypeInv, JobShape, WellFormed
  <2>2. token[t] \in ResetRows
    BY <2>1 DEF TypeInv, TypeOK
  <2>3. token'[t].used
    BY <1>6, <2>1, <2>2 DEF CommitReset, ResetRows, TypeInv, TypeOK
  <2>4. \A v \in Users : v # u => user'[v] = user[v]
    BY <1>6 DEF CommitReset, TypeInv, TypeOK
  <2>5. job'[w] = Idle /\ \A v \in Workers \ {w} : job'[v] = job[v]
    BY <1>6 DEF CommitReset, Finish, TypeInv, TypeOK
  <2>6. AllHeld'
    <3>1. \A s \in Tokens : s # t => token'[s] = token[s]
      BY <1>6 DEF CommitReset, TypeInv, TypeOK
    <3>2. ASSUME NEW v \in ResetWorkers \ {w}, job[v].op = "reset"
          PROVE  job[v].token # t /\ job[v].token \in Tokens
      BY <1>6, <3>2 DEF CommitReset, TokensApart, TypeInv, JobShape, WellFormed
    <3>3. \A v \in ResetWorkers \ {w} : Held(v)'
      BY <2>5, <3>1, <3>2 DEF Held
    <3>4. Held(w)'
      BY <2>5 DEF Held, Idle
    <3>. QED BY <3>3, <3>4
  <2>7. ASSUME NEW v \in Users PROVE SpendsToken(v)
    <3>1. CASE v = u
      BY <2>1, <2>3, <3>1 DEF SpendsToken
    <3>2. CASE v # u
      BY <2>4, <3>2 DEF SpendsToken
    <3>. QED BY <3>1, <3>2
  <2>. QED BY <2>6, <2>7
<1>7. ASSUME NEW w \in Workers, Abort(w) PROVE Goal
  <2>1. user' = user /\ token' = token /\ \A v \in Workers : job'[v] = job[v] \/ job'[v] = Idle
    BY <1>7 DEF Abort, Finish, TypeInv, TypeOK
  <2>. QED BY <2>1 DEF Held, Idle, SpendsToken
<1>8. ASSUME UNCHANGED vars PROVE Goal
  BY <1>8 DEF vars, Held, SpendsToken
<1>9. ASSUME NEW w \in AdminWorkers, NEW a \in Users, NEW u \in Users,
             \/ \E role \in Roles, p \in Passwords : BeginCreate(w, a, u, role, p)
             \/ \E change \in Changes : BeginUpdate(w, a, u, change)
      PROVE  Goal
  BY <1>1, <1>9 DEF BeginCreate, BeginUpdate, Idle, Workers
<1>10. ASSUME NEW c \in Containers, NEW p \in Passwords, BeginBootstrap(c, p)
       PROVE  Goal
  BY <1>1, <1>10 DEF BeginBootstrap, Idle, Workers
<1>11. ASSUME NEW w \in AdminWorkers \cup Containers, CommitCreate(w) \/ CommitBootstrap(w)
       PROVE  Goal
  <2>. HIDE DEF Goal
  <2>. QED BY <1>2, <1>11 DEF CommitCreate, CommitBootstrap, Workers
<1>. HIDE DEF Goal
<1>12. Goal
  <2>1. CASE Next
    BY <2>1, <1>3, <1>4, <1>5, <1>6, <1>7, <1>9, <1>10, <1>11 DEF Next
  <2>. QED BY <2>1, <1>8
<1>. QED BY <1>12 DEF Goal

\* While no two resets in progress hold one token, a password changes only by
\* spending a token of that user that nobody had spent ("single-use",
\* password_reset.py:21).
THEOREM ResetSpendsTokenHolds == Spec /\ []TokensApart => ResetSpendsToken
<1>1. Init => ResetInv
  BY InitType DEF Init, ResetInv, Held, Idle, Workers
<1>2. ResetInv /\ TokensApart /\ [Next]_vars =>
        ResetInv' /\ [\A u \in Users : SpendsToken(u)]_vars
  BY StepReset
<1>. QED BY <1>1, <1>2, PTL DEF Spec, ResetSpendsToken

-----------------------------------------------------------------------------
(* One thread of each kind.                                                *)

\* Each thread serves calls of its own kind.
OwnKind ==
  \A w \in Workers :
    /\ job[w].op = "update" => w \in AdminWorkers
    /\ job[w].op = "boot" => w \in Containers
    /\ job[w].op = "reset" => w \in ResetWorkers

LEMMA StepKind == TypeInv /\ OwnKind /\ [Next]_vars => OwnKind'
<1>. SUFFICES ASSUME TypeInv, OwnKind, [Next]_vars PROVE OwnKind'
  OBVIOUS
<1>1. ASSUME NEW w \in Workers, Finish(w) PROVE OwnKind'
  BY <1>1 DEF Finish, OwnKind, Idle, TypeInv, TypeOK
<1>2. ASSUME NEW w \in Workers, NEW call, Accept(w, call),
             \/ call.op = "create"
             \/ call.op = "update" /\ w \in AdminWorkers
             \/ call.op = "boot" /\ w \in Containers
             \/ call.op = "reset" /\ w \in ResetWorkers
      PROVE  OwnKind'
  BY <1>2 DEF Accept, OwnKind, TypeInv, TypeOK
<1>3. CASE job' = job
  BY <1>3 DEF OwnKind
<1>4. ASSUME NEW w \in AdminWorkers, NEW a \in Users, NEW u \in Users,
             \/ \E role \in Roles, p \in Passwords : BeginCreate(w, a, u, role, p)
             \/ \E change \in Changes : BeginUpdate(w, a, u, change)
      PROVE  OwnKind'
  BY <1>2, <1>4 DEF BeginCreate, BeginUpdate, Idle, Workers
<1>5. ASSUME NEW c \in Containers, NEW p \in Passwords, BeginBootstrap(c, p)
      PROVE  OwnKind'
  BY <1>2, <1>5 DEF BeginBootstrap, Idle, Workers
<1>6. ASSUME NEW w \in ResetWorkers, NEW t \in Tokens, NEW p \in Passwords,
             BeginReset(w, t, p)
      PROVE  OwnKind'
  BY <1>2, <1>6 DEF BeginReset, Idle, Workers
<1>. QED BY <1>1, <1>3, <1>4, <1>5, <1>6
         DEF Next, vars, Workers, ForgotPassword, Expire, Abort, CommitCreate,
             CommitBootstrap, CommitUpdate, CommitReset, Insert

\* One thread of administration, one of resets and one container are never in
\* each other's way: all of the above holds of them without a hypothesis.
THEOREM OneOfEachIsSafe ==
  ASSUME NEW a, AdminWorkers = {a}, NEW r, ResetWorkers = {r},
         NEW c, Containers = {c}
  PROVE  Spec => [](Administrable /\ SeedsOnlyEmpty) /\ ResetSpendsToken
<1>1. Init => OwnKind
  BY DEF Init, OwnKind, Idle
<1>2. OwnKind => OneReduction /\ OneSeeding /\ TokensApart
  BY DEF OwnKind, OneReduction, Reducing, OneSeeding, TokensApart
<1>. QED BY <1>1, <1>2, StepKind, TypeCorrect, AdministrableHolds, SeedsOnlyEmptyHolds,
            ResetSpendsTokenHolds, PTL DEF Spec
=============================================================================
