SPECIFICATION FairSpec
CONSTANTS
  Nothing = Nothing
  d1 = d1
  d2 = d2
  Record = {1, 2, 3}
  Date = {d1, d2}
  DateOf <- MCDateOf
  Request = {q1}
  Export = {e1}
  NumFiles = 4
  MaxActive = 2
  MaxFaults = 3
  MaxEdits = 0
  ReadFaults = FALSE
PROPERTIES CommitCompletes
