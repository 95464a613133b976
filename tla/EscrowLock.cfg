SPECIFICATION EscrowSpec
CONSTANTS
  alice = alice
  bob = bob
  s1 = s1
  u1 = u1
  Address <- MCAddress
  ZeroAddress = zero
  Stranger = stranger
  Garbage = garbage
  Terms <- MCTerms
  MaxParties = 2
  MaxTime = 2
  Payload = {p1}
PROPERTIES LockedOnRevoke
CHECK_DEADLOCK FALSE
