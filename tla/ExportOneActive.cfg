SPECIFICATION Spec
CONSTANTS
  Nothing = Nothing
  d1 = d1
  d2 = d2
  Record = {1, 2, 3}
  Date = {d1, d2}
  DateOf <- MCDateOf
  Request = {q1, q2}
  Export = {e1, e2}
  NumFiles = 2
  MaxActive = 2
  MaxFaults = 2
  MaxEdits = 0
  ReadFaults = TRUE
SYMMETRY IdsAlike
INVARIANTS OneActivePerDate
