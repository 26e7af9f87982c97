CONSTANTS
  Requests = {r1, r2}
  Signatories = {signer}
  MayRequest = {boss}
  Admins = {boss}
  Workers = {w1, w2}
  None = None
  MaxCalls = 5
  MaxCrashes = 1
SPECIFICATION Spec
CHECK_DEADLOCK FALSE
SYMMETRY Symmetry
INVARIANT TypeOK
INVARIANT SignedHasSignature
INVARIANT SignatureBound
INVARIANT TrailBacked
INVARIANT NoticeAfterFact
PROPERTY NeverReopened
