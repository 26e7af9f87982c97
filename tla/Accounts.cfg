CONSTANTS
  Users = {seed, u1, u2}
  Seed = seed
  Roles = {"administrador", "diretor"}
  Tokens = {t1, t2}
  Passwords = {p1, p2}
  AdminWorkers = {a1, a2}
  ResetWorkers = {s1, s2}
  Containers = {c1, c2}
  None = None
  MaxCalls = 6
SPECIFICATION Spec
CHECK_DEADLOCK FALSE
SYMMETRY Symmetry
CONSTRAINT Apart
INVARIANT TypeOK
INVARIANT Administrable
INVARIANT SeedsOnlyEmpty
PROPERTY ResetSpendsToken
PROPERTY NothingUndone
