SPECIFICATION FairSpec
CONSTANTS
  NumStreams = 3
  HeaderFirst = {2, 3}
  Stamp = {t1}
  Modulus = 1
  MaxCounter = 2
  Nothing = Nothing
INVARIANTS TypeOK QuietWhenPublished CommonStart NobodyWaitsForever MetadataTruthful
PROPERTIES RecordingEnds
