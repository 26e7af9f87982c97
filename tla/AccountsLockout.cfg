CONSTANTS
  Users = {seed, u1}
  Seed = seed
  Roles = {"administrador", "diretor"}
  Tokens = {t1}
  Passwords = {p1}
  AdminWorkers = {a1, a2}
  ResetWorkers = {s1}
  Containers = {c1}
  None = None
  MaxCalls = 4
SPECIFICATION Spec
CHECK_DEADLOCK FALSE
INVARIANT Administrable
