CONSTANTS
  Images = {png1, png2}
  Requests = {r1, r2}
  ProfileWorkers = {p1, p2}
  SignWorkers = {s1, s2}
  None = None
  MaxCalls = 6
  MaxCrashes = 2
SPECIFICATION Spec
CHECK_DEADLOCK FALSE
SYMMETRY Symmetry
CONSTRAINT Apart
INVARIANT TypeOK
INVARIANT MarkMatchesHash
INVARIANT RubricIsServed
INVARIANT RubricNeverSwapped
PROPERTY MarkIsImmutable
