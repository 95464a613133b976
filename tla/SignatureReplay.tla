-------------------------- MODULE SignatureReplay --------------------------
(***************************************************************************)
(* ConsentRegistry with a history variable: the digests whose signatures a *)
(* transaction has already used.  Neither registerConsent nor              *)
(* updateConsent keeps a nonce, so nothing in the contract reads it.       *)
(***************************************************************************)
EXTENDS ConsentRegistry

VARIABLE spent  \* history: digests accepted by verifyMultiSig in a transaction

RegisterAndSpend ==
  \E c \in Terms : \E sigs \in SignatureArrays :
    /\ registerConsent(c, sigs)
    /\ spent' = spent \cup {hashConsent(c)}

UpdateAndSpend ==
  \E id \in Terms : \E until \in Untils : \E uri \in Uris : \E sigs \in SignatureArrays :
    /\ updateConsent(id, until, uri, sigs)
    /\ spent' = spent \cup {hashConsent(consents'[id])}

ReplayInit == Init /\ spent = {}

ReplayNext ==
  \/ RegisterAndSpend
  \/ UpdateAndSpend
  \/ /\ \/ NextBlock
        \/ \E p \in Address : \E t \in Terms : Sign(p, t)
        \/ Revoke
     /\ UNCHANGED spent

ReplaySpec == ReplayInit /\ [][ReplayNext]_<<vars, spent>>

\* docs/SECURITY.md:100 says the EIP-712 signatures include a nonce: a set of
\* signatures then authorises one change, so no transaction stores terms whose
\* signatures an earlier transaction has used.
SignaturesUsedOnce ==
  [][\A id \in Terms :
       /\ consentExists(id)'
       /\ consentExists(id) => hashConsent(consents[id])' # hashConsent(consents[id])
       => hashConsent(consents[id])' \notin spent]_<<vars, spent>>
=============================================================================
