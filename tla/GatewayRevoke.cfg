SPECIFICATION Spec
CONSTANTS
  Chain <- MCChain
  Name <- MCName
  ChainOf <- MCChainOf
  Listed <- MCListed
  Default = "sepolia"
  Registry <- MCRegistry
  OnChainId = {c1}
  NewId = {g1}
  Request = {r1}
  Until = {1, 2}
  Duration = {1}
  CreateTTL = 2
  FillTTL = 1
  Failures = {"rpc", "redis", "qdrant", "zk"}
  SepoliaKind = "struct"
  r1 = r1
  r2 = r2
  None = none
  MaxTime = 2
  MaxTxs = 1
  MaxRequests = 1
  Budget = 7
INVARIANT
  RevokeAnswerMeansRevoked
CHECK_DEADLOCK FALSE
