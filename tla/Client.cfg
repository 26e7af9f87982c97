CONSTANTS
  People = {p1, p2}
  None = None
  Attempts = {1, 2}
  Docs = {d1, d2}
  NoDoc = None
  NoToken = None
  Tokens = {p1, p2, None}
  MaxRevision = 2
  MaxGeneration = 3
  CrossedGeneration = 2
  BusyGeneration = 1
SPECIFICATION MCSpec
CHECK_DEADLOCK FALSE
INVARIANT TypeOK
INVARIANT SessionWhole
INVARIANT PanelShowsItsDocument
INVARIANT ScreenOfUser
PROPERTY ScreenNeverGoesBack
PROPERTY WaitsEnd
