-------------------------- MODULE MCConsentGateway --------------------------
(* The chain "sepolia", a chain whose registry address has no code, and a     *)
(* name that is no chain.  SepoliaKind says which registry is on "sepolia":   *)
(* the one that the API's clients were written for, or the one of this        *)
(* repository.                                                                *)
EXTENDS ConsentGateway, TLC

CONSTANTS r1, r2, SepoliaKind, Budget

MCRequest == {r1, r2}
Symmetry == Permutations(MCRequest)

MCChain == {"sepolia", "bsc"}
MCName == {"sepolia", "bsc", "other"}
MCChainOf == [n \in MCName |-> n]
MCListed == [ch \in MCChain |-> ch]
MCRegistry == [ch \in MCChain |-> IF ch = "sepolia" THEN SepoliaKind ELSE "empty"]

(* Bound on the whole of a run: with a budget of 6, three requests while the  *)
(* registries and the clock rest, two with two transactions or ticks, one     *)
(* with four.                                                                 *)
Within == 2 * received + txs + now <= Budget
=============================================================================
