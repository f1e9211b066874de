SPECIFICATION Spec
CONSTANTS
  NumStreams = 1
  HeaderFirst = {1}
  Stamp = {t1, t2}
  Modulus = 2
  MaxCounter = 4
  Nothing = Nothing
INVARIANTS CountersDistinct
PROPERTIES StagingKept ArchiveSpec
