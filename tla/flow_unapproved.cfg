CONSTANTS
  Handlers = {h1}
  MaxVersions = 3
  MaxRequests = 3
  MaxEnvelopes = 2
  MaxCrashes = 0
  AutoApproves = TRUE
SPECIFICATION Spec
PROPERTY SentAsApproved
\* The bounds end every behaviour.
CHECK_DEADLOCK FALSE
