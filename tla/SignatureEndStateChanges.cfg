CONSTANTS
  Requests = {r1, r2}
  Signatories = {signer}
  MayRequest = {boss}
  Admins = {boss}
  Workers = {w1, w2}
  None = None
  MaxCalls = 5
  MaxCrashes = 0
SPECIFICATION Spec
CHECK_DEADLOCK FALSE
SYMMETRY Symmetry
PROPERTY EndStateFinal
