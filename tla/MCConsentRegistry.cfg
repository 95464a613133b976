SPECIFICATION Spec
CONSTANTS
  alice = alice
  bob = bob
  s1 = s1
  u1 = u1
  u2 = u2
  Address <- MCAddress
  ZeroAddress = zero
  Stranger = stranger
  Garbage = garbage
  Terms <- MCTerms
  MaxParties = 2
  MaxTime = 3
INVARIANTS
  TypeOK
  PartyIndexExact
  EveryPartySigned
  ActiveListExact
PROPERTIES
  RevocationIsFinal
  ImplementsLifecycle
  ValidityIsAgreed
CHECK_DEADLOCK FALSE
