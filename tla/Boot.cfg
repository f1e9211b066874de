SPECIFICATION MCSpec
CONSTANTS
  NoIntent = NoIntent
  MaxResets = 2
  Parties <- MCParties
INVARIANTS FlagTruthful CameraReleased TransactionalReadOnly HostOwnsCard StorageIsLeft LockedStaysQuiet HostKeepsAwake RecordingsAccounted
PROPERTIES HostIsAwaited StorageBootEnds
CHECK_DEADLOCK FALSE
