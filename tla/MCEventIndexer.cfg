SPECIFICATION FairSpec
CONSTANTS
  A = A
  B = B
  Chain = {A, B}
  Consent = {c1}
  Watched <- IndexerTopics
  Emitted <- MatchingEvents
  BackfillFrom = {0, 1}
  BatchSize = 1
  BackfillBatchSize = 2
  Failures <- AllFailures
  MaxBlock <- Heights
  MaxStarts = 2
INVARIANTS TypeOK ReadsInOrder NoRevokedEntry
PROPERTIES EveryBlockPassed
CHECK_DEADLOCK FALSE
