CONSTANTS
  Requests = {r1, r2}
  Signatories = {signer}
  MayRequest = {boss}
  Admins = {boss}
  Workers = {w1}
  None = None
  MaxCalls = 6
  MaxCrashes = 1
SPECIFICATION FairSpec
CHECK_DEADLOCK FALSE
INVARIANT TrailExact
PROPERTY ImplementsRequestLifecycle
PROPERTY SupersededIsClosed
