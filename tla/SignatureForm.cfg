CONSTANTS
  Users = {u1, u2}
  Me = u1
  Obras = {o1, o2, o3}
  New = o2
  Old = o3
  Home = o1
  Docs = {d1, d2}
  Two = d1
  Other = d2
  None = None
  Unit = 2
  MinSide = 2
  MinHeight = 1
  Passo = 1
  PassoGrande = 2
  SheetRows = 1
  Points <- MCPoints
  Sizes <- MCSizes
  PageCounts = {0, 1, 2}
  MaxChanges = 1
  MaxRequests = 2
SPECIFICATION MCSpec
CHECK_DEADLOCK FALSE
INVARIANT TypeOK
INVARIANT AreaInside
INVARIANT OfferAccepted
INVARIANT StampShowsAll
