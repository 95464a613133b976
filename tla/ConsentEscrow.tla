--------------------------- MODULE ConsentEscrow ---------------------------
(***************************************************************************)
(* The escrow of encrypted payloads (src/contracts/ConsentEscrow.sol)      *)
(* composed with the registry it calls: every escrow function reads the    *)
(* consent with registry.getConsent, which reverts for an unknown id.      *)
(***************************************************************************)
EXTENDS ConsentRegistry

CONSTANT Payload  \* ciphertexts that may be stored (never empty)

\* A payload is not a sequence, so that the empty array is none of them.
ASSUME PayloadAssumption == << >> \notin Payload

VARIABLE escrow  \* id -> [data, storedBy]: encryptedData and hasEncryptedData

escrowVars == <<vars, escrow>>

hasData(id) == id \in DOMAIN escrow

\* Seeded fault: a second store overwrites the first.
FaultStoreTwice(sender, id, data) ==
  /\ data # << >>
  /\ consentExists(id)
  /\ containsParty(consents[id], sender)
  /\ escrow' = [i \in DOMAIN escrow \cup {id} |->
                  IF i = id THEN [data |-> data, storedBy |-> sender] ELSE escrow[i]]
  /\ UNCHANGED vars

\* Seeded fault: the sender is not compared with the parties.
FaultStoreAnyone(sender, id, data) ==
  /\ data # << >>
  /\ ~hasData(id)
  /\ consentExists(id)
  /\ escrow' = [i \in DOMAIN escrow \cup {id} |->
                  IF i = id THEN [data |-> data, storedBy |-> sender] ELSE escrow[i]]
  /\ UNCHANGED vars

storeEncryptedData(sender, id, data) ==
  /\ data # << >>
  /\ ~hasData(id)
  /\ consentExists(id)
  /\ containsParty(consents[id], sender)
  /\ escrow' = [i \in DOMAIN escrow \cup {id} |->
                  IF i = id THEN [data |-> data, storedBy |-> sender] ELSE escrow[i]]
  /\ UNCHANGED vars

\* getEncryptedData does not revert for this sender (getConsentDataSize makes
\* the same three checks).
getEncryptedData(sender, id) ==
  /\ hasData(id)
  /\ consentExists(id)
  /\ containsParty(consents[id], sender)

EscrowInit == Init /\ escrow = << >>

Store == \E sender \in Address : \E id \in Terms : \E data \in Payload \cup {<< >>} :
           storeEncryptedData(sender, id, data)

RegistryStep == Next /\ UNCHANGED escrow

EscrowNext == Store \/ RegistryStep

EscrowSpec == EscrowInit /\ [][EscrowNext]_escrowVars

-----------------------------------------------------------------------------
\* A stored payload belongs to a consent that exists and was stored by an
\* account that consent names, whatever the registry did to it since.
EscrowByParty ==
  \A id \in DOMAIN escrow :
    /\ consentExists(id)
    /\ escrow[id].data \in Payload
    /\ containsParty(consents[id], escrow[id].storedBy)

\* A stored payload is never replaced, and a party that can read it goes on
\* reading it while the consent is in force, whatever the other parties and
\* any updates do in between.
PayloadKept ==
  [][\A id \in DOMAIN escrow :
       /\ escrow'[id] = escrow[id]
       /\ \A p \in Address :
            getEncryptedData(p, id) /\ isConsentValid(id)' => getEncryptedData(p, id)']_escrowVars

\* docs/ARCHITECTURE.md: ConsentRegistry.revoke() "calls ConsentEscrow.lock()".
\* When a consent is revoked, its payload can no longer be read.
LockedOnRevoke ==
  [][\A id \in DOMAIN escrow :
       ~consents[id].revoked /\ consents[id].revoked' =>
         \A p \in Address : ~getEncryptedData(p, id)']_escrowVars
=============================================================================
