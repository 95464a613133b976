---------------------------- MODULE MCStandalone ----------------------------
(* The components that keep state of their own and call, or are called by,   *)
(* no other one that is modelled: the escrow on its registry, the token, the *)
(* verifier, the factory with its clones, the rate limiter and the proof     *)
(* service.  No two of these share a variable, so one of them is in focus in *)
(* a behaviour and the others rest.                                          *)
EXTENDS MCConsentEscrow, ConsentToken, ConsentVerifier, ConsentFactory, RateLimiter, ZkService, TLC

CONSTANTS u2, c0, c1, r1, r2, r3, age, party

VARIABLE focus

\* Party arrays of a mint: an empty one and one that names an account twice.
MCPartyList == {<< >>, <<alice, bob>>, <<bob, bob>>}

\* One circuit installed under both of its names, one under neither.
MCInstalled == {<<"generate", age>>, <<"verify", age>>}

MCRequest == {r1, r2, r3}
Symmetry == Permutations(MCRequest)

standaloneVars ==
  <<focus, escrowVars, tokenVars, verifierVars, factoryVars, limiterVars, serviceVars>>

StandaloneInit ==
  /\ focus \in {"escrow", "token", "verifier", "factory", "limiter", "service"}
  /\ EscrowInit
  /\ TokenInit
  /\ VerifierInit
  /\ FactoryInit
  /\ LimiterInit
  /\ ServiceInit

EscrowStep ==
  /\ focus = "escrow" /\ EscrowNext
  /\ UNCHANGED <<tokenVars, verifierVars, factoryVars, limiterVars, serviceVars>>

TokenStep ==
  /\ focus = "token" /\ TokenNext
  /\ UNCHANGED <<escrowVars, verifierVars, factoryVars, limiterVars, serviceVars>>

VerifierStep ==
  /\ focus = "verifier" /\ VerifierNext
  /\ UNCHANGED <<escrowVars, tokenVars, factoryVars, limiterVars, serviceVars>>

FactoryStep ==
  /\ focus = "factory" /\ FactoryNext
  /\ UNCHANGED <<escrowVars, tokenVars, verifierVars, limiterVars, serviceVars>>

LimiterStep ==
  /\ focus = "limiter" /\ LimiterNext
  /\ UNCHANGED <<escrowVars, tokenVars, verifierVars, factoryVars, serviceVars>>

ServiceStep ==
  /\ focus = "service" /\ ServiceNext
  /\ UNCHANGED <<escrowVars, tokenVars, verifierVars, factoryVars, limiterVars>>

StandaloneNext ==
  /\ EscrowStep \/ TokenStep \/ VerifierStep \/ FactoryStep \/ LimiterStep \/ ServiceStep
  /\ UNCHANGED focus

StandaloneSpec == StandaloneInit /\ [][StandaloneNext]_standaloneVars
=============================================================================
