-------------------------- MODULE ConsentRegistry --------------------------
(***************************************************************************)
(* The on-chain registry of consents (src/contracts/ConsentRegistry.sol    *)
(* with ConsentLib.sol and SignatureLib.sol).                              *)
(*                                                                         *)
(* A transaction is atomic: it runs to its end or reverts and changes      *)
(* nothing, so every external function is one action whose guard is the    *)
(* conjunction of the function's revert conditions.  A hash is its         *)
(* preimage (keccak256 is taken to be injective), so a consent id and an   *)
(* EIP-712 digest are both the five hashed fields of a consent: they       *)
(* differ only in the domain separator, which is constant for one          *)
(* contract on one chain.                                                  *)
(***************************************************************************)
EXTENDS Naturals, Sequences, FiniteSets, Functions

CONSTANTS
  Address,      \* externally owned accounts that send transactions and sign
  ZeroAddress,  \* address(0): what ecrecover returns for a malformed signature
  Stranger,     \* what ecrecover returns for a signature over another digest
  Garbage,      \* a malformed 65 byte signature
  Terms,        \* the agreements that may be put to signature
  MaxParties,   \* bound: longest signature array of a transaction
  MaxTime       \* bound: last block timestamp

Party == Address \cup {ZeroAddress}

\* The five fields of ConsentLib.Consent that are hashed and signed.  Scope
\* lists and URIs are opaque: no registry operation looks inside them.
IsTerms(t) ==
  /\ t = [parties |-> t.parties, scopes |-> t.scopes, validFrom |-> t.validFrom,
          validUntil |-> t.validUntil, uri |-> t.uri]
  /\ t.parties \in Seq(Party)
  /\ t.validFrom \in Nat
  /\ t.validUntil \in Nat

ASSUME AddressAssumption ==
  /\ ZeroAddress \notin Address
  /\ Stranger \notin Party
  /\ Garbage \notin [signer : Address, digest : Terms]
ASSUME TermsAssumption == \A t \in Terms : IsTerms(t)
ASSUME BoundAssumption == MaxTime \in Nat /\ MaxParties \in Nat

VARIABLES
  now,               \* block.timestamp
  signatures,        \* signatures the parties have produced off chain
  consents,          \* consents and consentExists: its domain is the ids that exist
  consentCount,
  partyConsents,     \* party -> sequence of ids
  partyConsentIndex  \* party -> set of ids

registryVars == <<consents, consentCount, partyConsents, partyConsentIndex>>
vars == <<now, signatures, registryVars>>

-----------------------------------------------------------------------------
(* ConsentLib *)

hashConsent(c) ==
  [parties |-> c.parties, scopes |-> c.scopes, validFrom |-> c.validFrom,
   validUntil |-> c.validUntil, uri |-> c.uri]

computeConsentId(c) ==
  [parties |-> c.parties, scopes |-> c.scopes, validFrom |-> c.validFrom,
   validUntil |-> c.validUntil, uri |-> c.uri]

validateConsent(c) ==
  /\ Len(c.parties) >= 1
  /\ c.validFrom # 0
  /\ c.validUntil > c.validFrom
  /\ c.validUntil > now

containsParty(c, p) == \E i \in DOMAIN c.parties : c.parties[i] = p

-----------------------------------------------------------------------------
(* SignatureLib.  A signature is a record of who signed which digest.      *)

Signature == [signer : Address, digest : Terms]

recoverSigner(digest, sig) ==
  CASE sig = Garbage -> ZeroAddress
    [] sig # Garbage /\ sig.digest = digest -> sig.signer
    [] OTHER -> Stranger

\* Seeded fault: one matching signature is enough.
FaultVerifyMultiSig(c, sigs, signers) ==
  /\ Len(sigs) = Len(signers)
  /\ \E i \in DOMAIN sigs : recoverSigner(hashConsent(c), sigs[i]) = signers[i]

verifyMultiSig(c, sigs, signers) ==
  /\ Len(sigs) = Len(signers)
  /\ \A i \in DOMAIN sigs : recoverSigner(hashConsent(c), sigs[i]) = signers[i]

\* The signature arrays a sender can put in a transaction: signatures that
\* exist, each as often as it likes, and malformed ones.
SignatureArrays == UNION {[1..n -> signatures \cup {Garbage}] : n \in 0..MaxParties}

-----------------------------------------------------------------------------
(* Views *)

consentExists(id) == id \in DOMAIN consents

isConsentValid(id) ==
  /\ consentExists(id)
  /\ ~consents[id].revoked
  /\ now >= consents[id].validFrom
  /\ now < consents[id].validUntil

\* Seeded fault: the copy of the test includes the last second.
FaultIsConsentValid(id) ==
  /\ consentExists(id)
  /\ ~consents[id].revoked
  /\ now >= consents[id].validFrom
  /\ now <= consents[id].validUntil

_isConsentValid(id) ==
  /\ consentExists(id)
  /\ ~consents[id].revoked
  /\ now >= consents[id].validFrom
  /\ now < consents[id].validUntil

\* The array after i turns of the loop that fills it; the loop before, which
\* counts, gives it its length.
getActiveConsentsForParty(p) ==
  LET allConsents == partyConsents[p]
      active[i \in 0..Len(allConsents)] ==
        IF i = 0 THEN << >>
        ELSE IF _isConsentValid(allConsents[i]) THEN Append(active[i - 1], allConsents[i])
        ELSE active[i - 1]
  IN  active[Len(allConsents)]

-----------------------------------------------------------------------------
Init ==
  /\ now = 1
  /\ signatures = {}
  /\ consents = << >>
  /\ consentCount = 0
  /\ partyConsents = [p \in Party |-> << >>]
  /\ partyConsentIndex = [p \in Party |-> {}]

\* The chain produces a block with a later timestamp (external).
NextBlock ==
  /\ now < MaxTime
  /\ now' = now + 1
  /\ UNCHANGED <<signatures, registryVars>>

\* A party signs an agreement with its wallet (external).
Sign(p, t) ==
  /\ containsParty(t, p)
  /\ signatures' = signatures \cup {[signer |-> p, digest |-> t]}
  /\ UNCHANGED <<now, registryVars>>

\* Seeded fault: the index is not consulted, a party named twice is listed twice.
FaultIndexParties(c, id) ==
  LET mine(q) == q = id IN
  /\ partyConsents' = [p \in Party |->
        partyConsents[p] \o SelectSeq([i \in DOMAIN c.parties |->
                               IF c.parties[i] = p THEN id ELSE p], mine)]
  /\ partyConsentIndex' = [p \in Party |->
        IF containsParty(c, p) THEN partyConsentIndex[p] \cup {id} ELSE partyConsentIndex[p]]

\* The loop that pushes the id on the list of every party that does not have
\* it: a party named twice gets it once.
IndexParties(c, id) ==
  LET new(p) == containsParty(c, p) /\ id \notin partyConsentIndex[p]
  IN  /\ partyConsents' = [p \in Party |-> IF new(p) THEN Append(partyConsents[p], id)
                                                     ELSE partyConsents[p]]
      /\ partyConsentIndex' = [p \in Party |-> IF new(p) THEN partyConsentIndex[p] \cup {id}
                                                         ELSE partyConsentIndex[p]]

storedConsent(c) ==
  [parties |-> c.parties, scopes |-> c.scopes, validFrom |-> c.validFrom,
   validUntil |-> c.validUntil, uri |-> c.uri, revoked |-> FALSE, createdAt |-> now]

\* registerConsent does not call validateConsent: an agreement with an empty
\* or past window is stored like any other.
registerConsent(c, sigs) ==
  LET id == computeConsentId(c) IN
  /\ Len(c.parties) # 0
  /\ Len(sigs) = Len(c.parties)
  /\ ~consentExists(id)
  /\ verifyMultiSig(c, sigs, c.parties)
  /\ consents' = [i \in DOMAIN consents \cup {id} |->
                    IF i = id THEN storedConsent(c) ELSE consents[i]]
  /\ consentCount' = consentCount + 1
  /\ IndexParties(c, id)
  /\ UNCHANGED <<now, signatures>>

\* Seeded fault: the record is deleted before it is marked.
FaultRevokeDeletes(sender, id) ==
  /\ consentExists(id)
  /\ ~consents[id].revoked
  /\ containsParty(consents[id], sender)
  /\ consents' = [consents EXCEPT ![id] =
        [parties |-> << >>, scopes |-> << >>, validFrom |-> 0, validUntil |-> 0, uri |-> << >>,
         revoked |-> TRUE, createdAt |-> 0]]
  /\ UNCHANGED <<now, signatures, consentCount, partyConsents, partyConsentIndex>>

revokeConsent(sender, id) ==
  /\ consentExists(id)
  /\ ~consents[id].revoked
  /\ containsParty(consents[id], sender)
  /\ consents' = [consents EXCEPT ![id].revoked = TRUE]
  /\ UNCHANGED <<now, signatures, consentCount, partyConsents, partyConsentIndex>>

\* Seeded fault: the signatures are checked against the current terms.
FaultUpdateSignatures(id, newValidUntil, newUri, sigs) ==
  LET updated == [consents[id] EXCEPT !.validUntil = newValidUntil, !.uri = newUri] IN
  /\ consentExists(id)
  /\ validateConsent(updated)
  /\ Len(sigs) = Len(consents[id].parties)
  /\ verifyMultiSig(consents[id], sigs, consents[id].parties)
  /\ consents' = [consents EXCEPT ![id] = updated]
  /\ UNCHANGED <<now, signatures, consentCount, partyConsents, partyConsentIndex>>

\* Seeded fault: the new end is not checked against the clock.
FaultUpdateUnchecked(id, newValidUntil, newUri, sigs) ==
  LET updated == [consents[id] EXCEPT !.validUntil = newValidUntil, !.uri = newUri] IN
  /\ consentExists(id)
  /\ Len(sigs) = Len(consents[id].parties)
  /\ verifyMultiSig(updated, sigs, consents[id].parties)
  /\ consents' = [consents EXCEPT ![id] = updated]
  /\ UNCHANGED <<now, signatures, consentCount, partyConsents, partyConsentIndex>>

\* Seeded fault: an update stores a fresh record.
FaultUpdateFresh(id, newValidUntil, newUri, sigs) ==
  LET updated == [consents[id] EXCEPT !.validUntil = newValidUntil, !.uri = newUri] IN
  /\ consentExists(id)
  /\ validateConsent(updated)
  /\ Len(sigs) = Len(consents[id].parties)
  /\ verifyMultiSig(updated, sigs, consents[id].parties)
  /\ consents' = [consents EXCEPT ![id] = storedConsent(updated)]
  /\ UNCHANGED <<now, signatures, consentCount, partyConsents, partyConsentIndex>>

\* An update is allowed on a revoked consent, and leaves it revoked.
updateConsent(id, newValidUntil, newUri, sigs) ==
  LET updated == [consents[id] EXCEPT !.validUntil = newValidUntil, !.uri = newUri] IN
  /\ consentExists(id)
  /\ validateConsent(updated)
  /\ Len(sigs) = Len(consents[id].parties)
  /\ verifyMultiSig(updated, sigs, consents[id].parties)
  /\ consents' = [consents EXCEPT ![id] = updated]
  /\ UNCHANGED <<now, signatures, consentCount, partyConsents, partyConsentIndex>>

Untils == {t.validUntil : t \in Terms}
Uris == {t.uri : t \in Terms}

Register == \E c \in Terms : \E sigs \in SignatureArrays : registerConsent(c, sigs)
Revoke == \E sender \in Address : \E id \in Terms : revokeConsent(sender, id)
Update == \E id \in Terms : \E until \in Untils : \E uri \in Uris :
            \E sigs \in SignatureArrays : updateConsent(id, until, uri, sigs)

Next ==
  \/ NextBlock
  \/ \E p \in Address : \E t \in Terms : Sign(p, t)
  \/ Register
  \/ Revoke
  \/ Update

Spec == Init /\ [][Next]_vars

-----------------------------------------------------------------------------
(* Properties *)

ConsentRecord ==
  [parties : Seq(Party), scopes : {t.scopes : t \in Terms}, validFrom : Nat,
   validUntil : Nat, uri : Uris, revoked : BOOLEAN, createdAt : Nat]

\* Every variable holds a value of its Solidity type.
TypeOK ==
  /\ now \in Nat
  /\ signatures \subseteq Signature
  /\ DOMAIN consents \subseteq Terms
  /\ consents \in [DOMAIN consents -> ConsentRecord]
  /\ consentCount \in Nat
  /\ partyConsents \in [Party -> Seq(Terms)]
  /\ partyConsentIndex \in [Party -> SUBSET Terms]

\* getPartyConsents(p) lists exactly the consents that name p, each once, also
\* for a party that an agreement names twice: the list, the index mapping and
\* the stored party arrays (three structures written by registerConsent) agree.
PartyIndexExact ==
  \A p \in Party :
    /\ Range(partyConsents[p]) = partyConsentIndex[p]
    /\ IsInjective(partyConsents[p])
    /\ partyConsentIndex[p] = {id \in DOMAIN consents : containsParty(consents[id], p)}

\* getConsentCount() is the number of consents ever registered: revocation and
\* update leave it alone.
CountExact == consentCount = Cardinality(DOMAIN consents)

SignedByAll(t) ==
  \A p \in Address : containsParty(t, p) => [signer |-> p, digest |-> t] \in signatures

\* What the registry stores was signed: every account named by a consent signed
\* the terms it was registered under (its id) and the terms it holds now, after
\* any sequence of updates and whoever sent the transactions.
EveryPartySigned ==
  \A id \in DOMAIN consents : SignedByAll(id) /\ SignedByAll(hashConsent(consents[id]))

\* getActiveConsentsForParty(p), computed in two loops with the private copy
\* of the validity test, is exactly the consents that name p and that
\* isConsentValid accepts at this timestamp, each once.
ActiveListExact ==
  \A p \in Party :
    /\ Range(getActiveConsentsForParty(p)) =
         {id \in DOMAIN consents : containsParty(consents[id], p) /\ isConsentValid(id)}
    /\ IsInjective(getActiveConsentsForParty(p))

\* revokeConsent is final: no later transaction, an update that all parties
\* signed included, makes a revoked consent valid again.
RevocationIsFinal ==
  [][\A id \in DOMAIN consents :
       consents[id].revoked => consentExists(id)' /\ consents[id].revoked']_vars

\* An existing consent keeps its parties, scopes, start and registration time:
\* no transaction adds or drops a party or registers the same id again.
AgreementIsStatic ==
  [][\A id \in DOMAIN consents :
       /\ id \in DOMAIN consents'
       /\ consents'[id].parties = consents[id].parties
       /\ consents'[id].scopes = consents[id].scopes
       /\ consents'[id].validFrom = consents[id].validFrom
       /\ consents'[id].createdAt = consents[id].createdAt]_vars

\* A consent becomes valid only because its start is reached, or in a
\* transaction that stores terms every account it names has signed.
ValidityIsAgreed ==
  [][\A id \in Terms :
       ~isConsentValid(id) /\ isConsentValid(id)' =>
         \/ /\ consentExists(id)
            /\ now < consents[id].validFrom
            /\ now' >= consents[id].validFrom
            /\ consents' = consents
         \/ /\ now' = now
            /\ SignedByAll(hashConsent(consents[id]'))]_vars

\* The registry with its signature arrays, digests, indexes and records is an
\* implementation of the agreement between parties that ConsentLifecycle
\* describes: every transaction is a step of it or changes nothing of it.
Lifecycle == INSTANCE ConsentLifecycle WITH
  agreed <- [id \in DOMAIN consents |-> hashConsent(consents[id])],
  withdrawn <- {id \in DOMAIN consents : consents[id].revoked}

ImplementsLifecycle == Lifecycle!Spec

=============================================================================
