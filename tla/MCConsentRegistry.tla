------------------------ MODULE MCConsentRegistry ------------------------
(***************************************************************************)
(* A small instance of ConsentRegistry: two accounts, an agreement between  *)
(* them with the extension of its end, and agreements at the edges of what  *)
(* registerConsent accepts.                                                 *)
(***************************************************************************)
EXTENDS ConsentRegistry

CONSTANTS alice, bob, s1, u1, u2

Agreement(parties, from, until, uri) ==
  [parties |-> parties, scopes |-> s1, validFrom |-> from, validUntil |-> until, uri |-> uri]

MCAddress == {alice, bob}

MCTerms == {
  Agreement(<<alice, bob>>, 2, 3, u1),      \* starts later, short
  Agreement(<<alice, bob>>, 2, 4, u1),      \* the same with a later end
  Agreement(<<alice, alice>>, 1, 3, u2),    \* one account named twice
  Agreement(<<ZeroAddress, bob>>, 0, 2, u2) \* a party nobody can sign for, start 0
}
=============================================================================
