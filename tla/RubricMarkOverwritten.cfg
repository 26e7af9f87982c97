CONSTANTS
  Images = {png1, png2}
  Requests = {r1}
  ProfileWorkers = {p1}
  SignWorkers = {s1, s2}
  None = None
  MaxCalls = 5
  MaxCrashes = 0
SPECIFICATION Spec
CHECK_DEADLOCK FALSE
PROPERTY MarkIsImmutable
