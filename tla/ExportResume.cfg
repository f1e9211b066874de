SPECIFICATION Spec
CONSTANTS
  Nothing = Nothing
  d1 = d1
  d2 = d2
  Record = {1, 2, 3}
  Date = {d1, d2}
  DateOf <- MCDateOf
  Request = {q1}
  Export = {e1}
  NumFiles = 2
  MaxActive = 2
  MaxFaults = 3
  MaxEdits = 0
  ReadFaults = TRUE
INVARIANTS Resumable
