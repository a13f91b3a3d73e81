CONSTANTS
  Callers = {c1, c2}
  StartPoints <- Starts
  MaxCalls = 4
  None = None
SPECIFICATION Spec
SYMMETRY CallersSymmetry
INVARIANT TypeOK
PROPERTIES
  StagesImplemented
  SignedStays
  DeclinedIsBarred
  ClosedStays
  LateDecision
  RestoredAtRest
\* The calls are counted, so every behaviour ends.
CHECK_DEADLOCK FALSE
