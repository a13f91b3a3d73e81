CONSTANTS
  N = 2
  Unread = {1}
  PageSize = 2
  Attempts = 2
  Requests = {r1, r2}
  MaxRuns = 3
  MaxWordings = 2
  MaxActs = 2
  MaxFaults = 2
SYMMETRY RequestsSymmetry
SPECIFICATION Spec
INVARIANTS TypeOK DoneIsAsked RunIsWorked
PROPERTIES PersonStands
\* When nothing is queued and nobody asks, nothing happens.
CHECK_DEADLOCK FALSE
