CONSTANTS
  Handlers = {h1}
  MaxVersions = 3
  MaxRequests = 3
  MaxEnvelopes = 2
  MaxCrashes = 0
  AutoApproves = FALSE
SPECIFICATION Spec
INVARIANTS PendingIsAsked ApprovedStands CancelledIsQuiet OutHasAnEnvelope SignedIsActive
\* The bounds end every behaviour.
CHECK_DEADLOCK FALSE
