SPECIFICATION FactorySpec
CONSTANTS
  Salt = {x1, x2}
  Implementation = impl
  Agreement = {a1, a2, a3}
  Authorised = {a1, a2}
INVARIANTS
  PredictionExact
CHECK_DEADLOCK FALSE
