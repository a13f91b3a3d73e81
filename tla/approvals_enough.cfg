CONSTANTS
  Handlers = {h1, h2}
  ann = ann
  bob = bob
  People = {ann, bob}
  Pool = Pool
  Definitions <- Both
  MaxReassigned = 1
  MaxCrashes = 0
  None = None
SPECIFICATION Spec
INVARIANT EnoughApproved
\* A closed request is left alone, and the bounds end the rest.
CHECK_DEADLOCK FALSE
