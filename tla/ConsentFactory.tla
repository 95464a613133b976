--------------------------- MODULE ConsentFactory ---------------------------
(***************************************************************************)
(* The factory of registry clones (src/contracts/ConsentFactory.sol) and   *)
(* the clones it deploys.  A clone is a MinimalProxy: it runs the code of  *)
(* the implementation on its own storage, so each has records of its own,  *)
(* but DOMAIN_SEPARATOR is an immutable of the implementation and is part  *)
(* of the code: all clones ask for the same signatures, those made for the *)
(* implementation's address, so what is authorised does not depend on the  *)
(* contract.                                                               *)
(*                                                                         *)
(* The address of a contract made with CREATE2 is its hashed preimage: the *)
(* salt and the creation code with the constructor's argument appended.    *)
(***************************************************************************)
EXTENDS Naturals, Sequences, FiniteSets, Functions

CONSTANTS
  Salt,
  Implementation,  \* defaultImplementation, a ConsentRegistry
  Agreement,       \* what a caller may ask a registry to register
  Authorised       \* agreements all parties signed for the implementation

ASSUME FactoryAssumption == Authorised \subseteq Agreement

VARIABLES
  deployedConsents,     \* sequence of addresses
  isDeployedByFactory,  \* set of addresses
  saltToAddress,        \* salt -> address, for the salts in saltUsed
  saltUsed,
  hasCode,              \* addresses CREATE2 put code at
  recorded              \* contract -> agreements it has registered

factoryBooks == <<deployedConsents, isDeployedByFactory, saltToAddress, saltUsed, hasCode>>
factoryVars == <<factoryBooks, recorded>>

INIT_CODE_HASH == <<"MinimalProxy">>
creationCode == <<"MinimalProxy", Implementation>>
create2(salt, code) == [salt |-> salt, code |-> code]

predictDeploymentAddress(salt) == create2(salt, INIT_CODE_HASH)

Clone == {create2(salt, creationCode) : salt \in Salt}
Contract == Clone \cup {Implementation}

\* The implementation is deployed before the factory and by another account.
ASSUME ImplementationAssumption == Implementation \notin Clone

-----------------------------------------------------------------------------
FactoryInit ==
  /\ deployedConsents = << >>
  /\ isDeployedByFactory = {}
  /\ saltToAddress = << >>
  /\ saltUsed = {}
  /\ hasCode = {}
  /\ recorded = [c \in Contract |-> {}]

\* registerConsent in the storage of a clone or of the implementation itself.
RegisterAt(contract, a) ==
  /\ a \notin recorded[contract]
  /\ a \in Authorised
  /\ recorded' = [recorded EXCEPT ![contract] = @ \cup {a}]

\* The initializer is a call to the new clone; here registerConsent of one
\* agreement, or nothing.  If it reverts the deployment reverts.
Initialize(contract, init) ==
  IF init = {} THEN UNCHANGED recorded ELSE \E a \in init : RegisterAt(contract, a)

Enter(salt, address) ==
  /\ deployedConsents' = Append(deployedConsents, address)
  /\ isDeployedByFactory' = isDeployedByFactory \cup {address}
  /\ saltToAddress' = [s \in saltUsed \cup {salt} |-> IF s = salt THEN address ELSE saltToAddress[s]]
  /\ saltUsed' = saltUsed \cup {salt}

\* Seeded fault: a failed initializer returns instead of reverting.
FaultDeploy(salt, init) ==
  LET address == create2(salt, creationCode) IN
  /\ salt \notin saltUsed
  /\ address \notin hasCode
  /\ hasCode' = hasCode \cup {address}
  /\ \/ Initialize(address, init) /\ Enter(salt, address)
     \/ /\ \A a \in init : a \notin Authorised
        /\ init # {}
        /\ UNCHANGED <<deployedConsents, isDeployedByFactory, saltToAddress, saltUsed, recorded>>

\* nonReentrant, and atomic: nothing can come between the creation, the
\* initializer and the entries.
deployConsentContract(salt, init) ==
  LET address == create2(salt, creationCode) IN
  /\ salt \notin saltUsed
  /\ address \notin hasCode
  /\ hasCode' = hasCode \cup {address}
  /\ Initialize(address, init)
  /\ Enter(salt, address)

RegisterIn(contract, a) ==
  /\ contract \in hasCode \cup {Implementation}
  /\ RegisterAt(contract, a)
  /\ UNCHANGED factoryBooks

FactoryNext ==
  \/ \E salt \in Salt : \E init \in {{}} \cup {{a} : a \in Agreement} :
       deployConsentContract(salt, init)
  \/ \E contract \in Contract : \E a \in Agreement : RegisterIn(contract, a)

FactorySpec == FactoryInit /\ [][FactoryNext]_factoryVars

-----------------------------------------------------------------------------
\* The factory's four structures and the chain agree: every clone that exists is
\* listed once and found under its salt, salts and clones correspond one to one,
\* and only clones that are listed hold records.
FactoryBooksExact ==
  /\ Range(deployedConsents) = hasCode /\ IsInjective(deployedConsents)
  /\ isDeployedByFactory = hasCode
  /\ DOMAIN saltToAddress = saltUsed
  /\ IsInjective(saltToAddress) /\ Range(saltToAddress) = hasCode
  /\ \A c \in Clone : recorded[c] # {} => c \in hasCode

\* tests/hardhat/deployment/VerifySetup.test.ts:144 expects the predicted address
\* of a salt to be the address the factory deploys it to.
PredictionExact == \A salt \in saltUsed : predictDeploymentAddress(salt) = saltToAddress[salt]
=============================================================================
