--------------------------- MODULE MCEventIndexer ---------------------------
(* Instances of EventIndexer.  A topic stands for the event signature that   *)
(* is hashed into it.                                                        *)
EXTENDS EventIndexer

CONSTANTS A, B

\* The first chain has two blocks, for a batch boundary; the second one, enough to
\* keep, or to want, the mutex.
Heights == (A :> 2) @@ (B :> 1)

\* The signatures of startEventListener.
IndexerTopics ==
  {"ConsentRegistered(bytes32,address[],bytes32[],uint256,uint256)", "ConsentRevoked(bytes32)"}

\* A registry that emits the events the indexer was written for.
MatchingEvents ==
  [ConsentRegistered |-> "ConsentRegistered(bytes32,address[],bytes32[],uint256,uint256)",
   ConsentRevoked |-> "ConsentRevoked(bytes32)"]

\* The events of IConsentRegistry.sol.
RegistryEvents ==
  [ConsentRegistered |-> "ConsentRegistered(bytes32,address[],uint256,uint256)",
   ConsentRevoked |-> "ConsentRevoked(bytes32,address)"]

AllFailures == {"dial", "blockNumber", "filterLogs", "redis", "hang", "stop"}
=============================================================================
