CONSTANTS
  Handlers = {h1, h2}
  ann = ann
  bob = bob
  cas = cas
  Signers = {ann, bob, cas}
  Group <- Groups
  None = None
  MaxVersions = 3
  MaxAttempts = 2
  MaxFaults = 1
  MaxReminders = 1
  MaxCrashes = 1
SPECIFICATION FairSpec
INVARIANTS TypeOK TurnIsAsked AllSignedSettles SealedIsShown
PROPERTIES EnvelopeImplemented SealedAtLast
\* A settled request is left alone, and the bounds end the rest.
CHECK_DEADLOCK FALSE
