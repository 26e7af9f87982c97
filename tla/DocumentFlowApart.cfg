CONSTANTS
  Docs = {d1, d2}
  Users = {admin, author}
  Approvers = {admin}
  Admins = {admin}
  Files = {f1, f2, f3}
  Names = {n1}
  Workers = {w1, w2}
  None = None
  MaxCalls = 6
SPECIFICATION Spec
CHECK_DEADLOCK FALSE
SYMMETRY ApartSymmetry
CONSTRAINT Apart
INVARIANT StatusMatchesApproval
INVARIANT FileIntact
INVARIANT OneRowPerVersion
INVARIANT NoDuplicateFile
PROPERTY ImplementsLifecycle
