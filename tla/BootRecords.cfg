SPECIFICATION Spec
CONSTANTS
  NoIntent = NoIntent
  MaxResets = 2
INVARIANT ColdBootRecords
CHECK_DEADLOCK FALSE
