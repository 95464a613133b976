--------------------------- MODULE MCConsentEscrow ---------------------------
(* An instance of the escrow on its registry: two agreements of two accounts *)
(* that differ in their end, one of one account.                             *)
EXTENDS ConsentEscrow

CONSTANTS alice, bob, s1, u1

MCAddress == {alice, bob}

EscrowTerms(parties, until) ==
  [parties |-> parties, scopes |-> s1, validFrom |-> 1, validUntil |-> until, uri |-> u1]

MCTerms == {EscrowTerms(<<alice, bob>>, 2), EscrowTerms(<<alice, bob>>, 3), EscrowTerms(<<bob>>, 2)}
=============================================================================
