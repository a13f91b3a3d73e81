CONSTANTS
  Handlers = {h1, h2}
  ann = ann
  bob = bob
  People = {ann, bob}
  Pool = Pool
  Definitions <- Every
  MaxReassigned = 1
  MaxCrashes = 1
  None = None
SPECIFICATION FairSpec
INVARIANT TypeOK
PROPERTIES DecisionStands RoundImplemented RoundCloses
\* A closed request is left alone, and the bounds end the rest.
CHECK_DEADLOCK FALSE
