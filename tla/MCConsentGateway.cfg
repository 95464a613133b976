SPECIFICATION Spec
CONSTANTS
  Chain <- MCChain
  Name <- MCName
  ChainOf <- MCChainOf
  Listed <- MCListed
  Default = "sepolia"
  Registry <- MCRegistry
  OnChainId = {c1}
  NewId = {g1}
  Request <- MCRequest
  Until = {1, 2}
  Duration = {1}
  CreateTTL = 2
  FillTTL = 1
  Failures = {"rpc", "redis", "qdrant", "zk"}
  SepoliaKind = "fields"
  r1 = r1
  r2 = r2
  None = none
  MaxTime = 2
  MaxTxs = 2
  MaxRequests = 3
  Budget = 6
INVARIANTS
  TypeOK
  AnswersWereTrue
  CreatedReadable
  SearchNeverRevives
  ValidWasInForce
CONSTRAINT Within
CHECK_DEADLOCK FALSE
SYMMETRY Symmetry
