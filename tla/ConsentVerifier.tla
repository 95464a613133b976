--------------------------- MODULE ConsentVerifier ---------------------------
(***************************************************************************)
(* The registry of used proofs (src/contracts/ConsentVerifier.sol).  Its   *)
(* three external functions are copies that differ in a tag and in the     *)
(* number of public inputs they ask for.  _verifyProof accepts every proof *)
(* that is not empty, and the consent registry is never asked.             *)
(*                                                                         *)
(* Proofs and inputs are sequences of words.  abi.encodePacked puts them   *)
(* next to each other without their lengths, so the hash of a statement is *)
(* the hash of the two joined.                                             *)
(***************************************************************************)
EXTENDS Naturals, Sequences, FiniteSets, Functions

CONSTANTS
  Subject,  \* consent ids a caller may name
  Word,
  MaxWords, \* bound: longest proof and longest list of inputs
  MaxProofs \* bound: number of accepted calls

ASSUME VerifierAssumption == MaxWords \in Nat /\ MaxProofs \in Nat

Tag == {"age", "party", "scope"}
Words == UNION {[1..n -> Word] : n \in 0..MaxWords}
MinInputs(tag) == IF tag = "age" THEN 1 ELSE 2

VARIABLES
  usedProofHashes,
  consentProofs,  \* consent -> hashes accepted for it, in order
  accepted        \* history: for every accepted call its tag, proof and inputs

verifierVars == <<usedProofHashes, consentProofs, accepted>>

proofHash(id, tag, proof, inputs) == <<id, tag, proof \o inputs>>

VerifierInit ==
  /\ usedProofHashes = {}
  /\ consentProofs = [id \in Subject |-> << >>]
  /\ accepted = << >>

AcceptProof(id, tag, proof, inputs) ==
  LET hash == proofHash(id, tag, proof, inputs) IN
  /\ usedProofHashes' = usedProofHashes \cup {hash}
  /\ consentProofs' = [consentProofs EXCEPT ![id] = Append(@, hash)]
  /\ accepted' = Append(accepted, hash)

\* Seeded fault: one of the three copies does not look the hash up.
FaultVerifyProof(id, tag, proof, inputs) ==
  /\ tag # "scope" => proofHash(id, tag, proof, inputs) \notin usedProofHashes
  /\ Len(inputs) >= MinInputs(tag)
  /\ proof # << >>
  /\ AcceptProof(id, tag, proof, inputs)

\* verifyConsentAgeProof, verifyPartyInclusionProof and verifyScopeInclusionProof.
verifyProof(id, tag, proof, inputs) ==
  /\ proofHash(id, tag, proof, inputs) \notin usedProofHashes
  /\ Len(inputs) >= MinInputs(tag)
  /\ proof # << >>
  /\ AcceptProof(id, tag, proof, inputs)

VerifierNext ==
  /\ Len(accepted) < MaxProofs
  /\ \E id \in Subject : \E tag \in Tag : \E proof, inputs \in Words :
       verifyProof(id, tag, proof, inputs)

VerifierSpec == VerifierInit /\ [][VerifierNext]_verifierVars

-----------------------------------------------------------------------------
\* A proof counts once, for one consent and one tag: no two accepted calls have
\* the same hash, also not with the boundary between proof and inputs moved, and
\* getUsedProofs lists for each consent just the hashes isProofUsed reports.
ProofsAcceptedOnce ==
  /\ IsInjective(accepted)
  /\ Range(accepted) = usedProofHashes
  /\ \A id \in Subject :
       /\ IsInjective(consentProofs[id])
       /\ Range(consentProofs[id]) = {hash \in usedProofHashes : hash[1] = id}
=============================================================================
