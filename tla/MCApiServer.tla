---------------------------- MODULE MCApiServer ----------------------------
(* Two requests for two chains, one of them under two spellings, and one task *)
(* that calls Qdrant and may be repeated once.                                *)
EXTENDS ApiServer

CONSTANTS sepolia, bsc, bscTestnet, t1

Ask(route, chain) == [route |-> route, chain |-> chain, preflight |-> FALSE, authorized |-> TRUE]

MCCanonical == <<sepolia, bscTestnet>>
MCTraffic == {Ask("create", bsc), Ask("get", sepolia), Ask("chains", sepolia),
              [Ask("verify", sepolia) EXCEPT !.authorized = FALSE]}
MCMaxRetries == [t \in {t1} |-> 1]
MCNeeds == [t \in {t1} |-> "qdrant"]
=============================================================================
