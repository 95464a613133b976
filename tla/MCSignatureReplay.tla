------------------------- MODULE MCSignatureReplay -------------------------
(* One agreement between two accounts and the extension of its end. *)
EXTENDS SignatureReplay

CONSTANTS alice, bob, s1, u1

MCAddress == {alice, bob}

MCTerms ==
  {[parties |-> <<alice, bob>>, scopes |-> s1, validFrom |-> 1, validUntil |-> u, uri |-> u1]
     : u \in {2, 3}}
=============================================================================
