CONSTANTS
  Ids = {1, 2, 3, 4}
  Short = {2}
  Attempts <- OneOrTwo
  MaxVersions = 2
  MaxAsks = 2
  MaxFaults = 1
SPECIFICATION FairSpec
INVARIANTS TypeOK InProgressIsQueued StampIsRead EditNotForgotten
PROPERTIES InProgressEnds QuietAtLast
\* When nothing is queued and nobody asks, nothing happens.
CHECK_DEADLOCK FALSE
