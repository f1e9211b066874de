SPECIFICATION Spec
CONSTANTS
  NoIntent = NoIntent
  MaxResets = 2
PROPERTIES NoRecordingOnceLatched
CHECK_DEADLOCK FALSE
