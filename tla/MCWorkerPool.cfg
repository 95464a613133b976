SPECIFICATION FairSpec
CONSTANTS
  t1 = t1
  t2 = t2
  t3 = t3
  Task <- MCTask
  Worker = {w1, w2}
  QueueSize = 1
  MaxRetries <- MCMaxRetries
  Unhandled = {t3}
  None = none
INVARIANTS
  TypeOK
  TaskInOnePlace
  CountersExact
PROPERTIES
  ImplementsTaskPool
  ShutdownTerminates
  AcceptedFinishes
CHECK_DEADLOCK FALSE
