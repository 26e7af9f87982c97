CONSTANTS
  Docs = {d1}
  Users = {admin, author}
  Approvers = {admin}
  Admins = {admin}
  Files = {f1, f2}
  Names = {n1}
  Workers = {w1, w2}
  None = None
  MaxCalls = 6
SPECIFICATION Spec
CHECK_DEADLOCK FALSE
SYMMETRY Symmetry
INVARIANT ApprovedIsCurrent
