CONSTANTS
  term = term
  Inputs = {term}
  End = end
  d1 = d1
  d2 = d2
  Values = {d1, d2}
  None = none
  EndOf <- Dates
  Amendments = {amendment}
  Persons = {ann,bob}
  Nobody = nobody
  MaxKept = 1
  MaxWrites = 3
SYMMETRY PersonsSymmetry
VIEW View
SPECIFICATION Spec
INVARIANTS TypeOK DatesAgree OffersDiffer
PROPERTIES RunGivesBack OwnersKept
\* The bounds end every run.
CHECK_DEADLOCK FALSE
