CONSTANTS
  Handlers = {h1, h2}
  MaxVersions = 2
  MaxRequests = 1
  MaxEnvelopes = 2
  MaxCrashes = 1
  AutoApproves = TRUE
SPECIFICATION Spec
SYMMETRY HandlersSymmetry
INVARIANTS TypeOK ActiveIsSigned
PROPERTY SettledOnce
\* The bounds end every behaviour.
CHECK_DEADLOCK FALSE
