SPECIFICATION StandaloneSpec
CONSTANTS
  alice = alice
  bob = bob
  s1 = s1
  u1 = u1
  u2 = u2
  c0 = c0
  c1 = c1
  Address <- MCAddress
  ZeroAddress = zero
  Stranger = stranger
  Garbage = garbage
  Terms <- MCTerms
  MaxParties = 2
  MaxTime = 2
  Payload = {p1}
  Account <- MCAddress
  ConsentId = {c0, c1}
  ZeroId = c0
  Uri = {u1, u2}
  PartyList <- MCPartyList
  MaxTokens = 3
  Subject = {c0, c1}
  Word = {w}
  MaxWords = 2
  MaxProofs = 4
  Salt = {x1, x2, x3}
  Implementation = impl
  Agreement = {a1, a2, a3}
  Authorised = {a1, a2}
  Key = {k1, k2}
  Rate = 2
  Burst = 2
  Scale = 3
  LastTick = 6
  Circuit = {age, party}
  Installed <- MCInstalled
  Input = {x, y, bad}
  Satisfying = {x, y}
  Accepted = {x}
  Request <- MCRequest
  r1 = r1
  r2 = r2
  r3 = r3
  age = age
  party = party
  Failures = {"io", "nargo", "disconnect"}
  Empty = empty
  None = none
INVARIANTS
  EscrowByParty
  LinksInverse
  SupplyOfMint
  ProofsAcceptedOnce
  FactoryBooksExact
  LimiterTypeOK
  WindowBound
  DeniedOnlyOverBudget
  ServiceTypeOK
  OwnProofIfAlone
  OwnVerdictIfAlone
  LeftoversHarmless
PROPERTIES
  PayloadKept
CHECK_DEADLOCK FALSE
SYMMETRY Symmetry
