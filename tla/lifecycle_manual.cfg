CONSTANTS
  Callers = {c1, c2}
  StartPoints <- Starts
  MaxCalls = 4
  None = None
SPECIFICATION Spec
SYMMETRY CallersSymmetry
PROPERTY WaitingIsNotMovedByHand
\* The calls are counted, so every behaviour ends.
CHECK_DEADLOCK FALSE
