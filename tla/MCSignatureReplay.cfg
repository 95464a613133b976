SPECIFICATION ReplaySpec
CONSTANTS
  alice = alice
  bob = bob
  s1 = s1
  u1 = u1
  Address <- MCAddress
  ZeroAddress = zero
  Stranger = stranger
  Garbage = garbage
  Terms <- MCTerms
  MaxParties = 2
  MaxTime = 3
PROPERTIES
  SignaturesUsedOnce
CHECK_DEADLOCK FALSE
