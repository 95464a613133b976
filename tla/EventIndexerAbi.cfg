SPECIFICATION Spec
CONSTANTS
  A = A
  B = B
  Chain = {A, B}
  Consent = {c1}
  Watched <- IndexerTopics
  Emitted <- RegistryEvents
  BackfillFrom = {0}
  BatchSize = 1
  BackfillBatchSize = 2
  Failures = {}
  MaxBlock <- Heights
  MaxStarts = 1
INVARIANTS RegistryEventsParsed
CHECK_DEADLOCK FALSE
