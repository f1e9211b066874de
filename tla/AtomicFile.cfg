SPECIFICATION Spec
CONSTANTS
  Values = {v1, v2, v3}
  Nothing = Nothing
  Partial = Partial
INVARIANTS WithinSummary
PROPERTIES ImplementsRegister
