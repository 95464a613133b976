SPECIFICATION FairSpec
CONSTANTS
  sepolia = sepolia
  bsc = bsc
  bscTestnet = bscTestnet
  t1 = t1
  Request = {r1, r2}
  Spelling = {sepolia, bsc, bscTestnet}
  Canonical <- MCCanonical
  Traffic <- MCTraffic
  Task = {t1}
  MaxRetries <- MCMaxRetries
  Needs <- MCNeeds
  None = none
INVARIANTS
  TypeOK
  OpenClientsListed
  ShutdownInOrder
PROPERTIES
  GetClientReturns
  ServerStops
CHECK_DEADLOCK FALSE
