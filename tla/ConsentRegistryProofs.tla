----------------------- MODULE ConsentRegistryProofs -----------------------
(***************************************************************************)
(* Proofs about ConsentRegistry and the ConsentEscrow over it, for every   *)
(* set of accounts, agreements and payloads.                               *)
(* The inductive invariant is RegistryInv: the type invariant, the         *)
(* agreement of the party lists with the stored consents, the counter and  *)
(* the signatures behind every stored agreement.                           *)
(***************************************************************************)
EXTENDS ConsentEscrow, FiniteSetTheorems, WellFoundedInduction, TLAPS

RegistryInv ==
  /\ TypeOK
  /\ IsFiniteSet(DOMAIN consents)
  /\ PartyIndexExact
  /\ CountExact
  /\ EveryPartySigned

-----------------------------------------------------------------------------
(* Facts about the operators *)

\* The id and the digest of an agreement are its five fields.
LEMMA TermsAreTheirHash ==
  \A t \in Terms : computeConsentId(t) = t /\ hashConsent(t) = t
BY TermsAssumption DEF IsTerms, computeConsentId, hashConsent

\* A signature that recovers to an account was made by it over this digest
\* (verifyMultiSig compares the result of ecrecover with the party).
LEMMA RecoveredSigned ==
  ASSUME NEW d, NEW sigs \in SUBSET Signature, NEW s \in sigs \cup {Garbage},
         NEW p \in Address, recoverSigner(d, s) = p
  PROVE  [signer |-> p, digest |-> d] \in sigs
<1>1. s # Garbage /\ s.digest = d
  BY AddressAssumption DEF recoverSigner, Party
<1>2. s \in Signature
  BY <1>1
<1>3. s.signer = p
  BY <1>1 DEF recoverSigner
<1>4. s = [signer |-> p, digest |-> d]
  BY <1>1, <1>2, <1>3 DEF Signature
<1> QED BY <1>1, <1>4

\* A signature array that passes verifyMultiSig holds a signature of every
\* account among the parties.
LEMMA VerifiedSigned ==
  ASSUME NEW c, NEW n \in Nat, NEW S \in SUBSET Signature,
         NEW sigs \in [1..n -> S \cup {Garbage}],
         c.parties \in Seq(Party),
         verifyMultiSig(c, sigs, c.parties)
  PROVE  \A p \in Address : containsParty(c, p) =>
           [signer |-> p, digest |-> hashConsent(c)] \in S
<1> SUFFICES ASSUME NEW p \in Address, containsParty(c, p)
             PROVE  [signer |-> p, digest |-> hashConsent(c)] \in S
  OBVIOUS
<1>1. PICK i \in DOMAIN c.parties : c.parties[i] = p
  BY DEF containsParty
<1>2. i \in 1..n /\ DOMAIN sigs = 1..n
  BY DEF verifyMultiSig
<1>3. recoverSigner(hashConsent(c), sigs[i]) = p
  BY <1>1, <1>2 DEF verifyMultiSig
<1> QED BY <1>2, <1>3, RecoveredSigned

\* Appending a fresh element extends the range by it and keeps a sequence free
\* of duplicates (the push on partyConsents).
LEMMA AppendFresh ==
  ASSUME NEW T, NEW s \in Seq(T), NEW e \in T, e \notin Range(s), IsInjective(s)
  PROVE  /\ Append(s, e) \in Seq(T)
         /\ Range(Append(s, e)) = Range(s) \cup {e}
         /\ IsInjective(Append(s, e))
<1> DEFINE a == Append(s, e)
<1>1. /\ DOMAIN a = 1..(Len(s) + 1)
      /\ DOMAIN s = 1..Len(s)
      /\ Len(s) \in Nat
      /\ a[Len(s) + 1] = e
      /\ \A i \in 1..Len(s) : a[i] = s[i]
  OBVIOUS
<1>2. Range(a) = Range(s) \cup {e}
  BY <1>1 DEF Range
<1>3. IsInjective(a)
  <2> SUFFICES ASSUME NEW i \in DOMAIN a, NEW j \in DOMAIN a, a[i] = a[j] PROVE i = j
    BY DEF IsInjective
  <2>1. CASE i \in DOMAIN s /\ j \in DOMAIN s
    BY <1>1, <2>1 DEF IsInjective
  <2>2. CASE i = Len(s) + 1 \/ j = Len(s) + 1
    BY <1>1, <2>2 DEF Range
  <2> QED BY <1>1, <2>1, <2>2
<1> QED BY <1>2, <1>3

\* A set of numbers that is not empty has a least one.
LEMMA LeastNumber ==
  ASSUME NEW T, T \subseteq Nat, T # {}
  PROVE  \E n \in T : \A m \in T : n <= m
<1> DEFINE R == OpToRel(<, Nat)
<1>1. IsWellFoundedOn(R, Nat)
  BY NatLessThanWellFounded
<1> HIDE DEF R
<1>2. PICK n \in T : \A m \in T : ~(<<m, n>> \in R)
  BY <1>1, WFMin
<1>3. \A m \in T : ~(m < n)
  BY <1>2 DEF R, OpToRel
<1> QED BY <1>3

\* What holds of 0, and of i + 1 if of i, holds up to any bound.
LEMMA UpTo ==
  ASSUME NEW n \in Nat, NEW B, 0 \in B, \A i \in 0..n : i # n /\ i \in B => i + 1 \in B
  PROVE  0..n \subseteq B
<1> SUFFICES ASSUME ~(0..n \subseteq B) PROVE FALSE
  OBVIOUS
<1> DEFINE T == {i \in 0..n : i \notin B}
<1>1. T \subseteq Nat /\ T # {}
  OBVIOUS
<1>2. PICK i \in T : \A j \in T : i <= j
  BY <1>1, LeastNumber
<1>3. i \in 0..n /\ i \notin B /\ i # 0
  BY <1>2
<1>4. i - 1 \in 0..n /\ i - 1 # n /\ (i - 1) + 1 = i /\ ~(i <= i - 1)
  BY <1>3
<1>5. i - 1 \in B
  BY <1>2, <1>4
<1> QED BY <1>3, <1>4, <1>5

-----------------------------------------------------------------------------
(* Type correctness *)

\* Every reachable state of the registry is well typed, whatever the agreements.
THEOREM TypeCorrect == Spec => []TypeOK
<1>1. Init => TypeOK
  BY DEF Init, TypeOK, Party
<1>2. TypeOK /\ [Next]_vars => TypeOK'
  <2> SUFFICES ASSUME TypeOK, [Next]_vars PROVE TypeOK'
    OBVIOUS
  <2> USE DEF TypeOK
  <2>1. CASE NextBlock
    BY <2>1 DEF NextBlock, registryVars
  <2>2. ASSUME NEW p \in Address, NEW t \in Terms, Sign(p, t) PROVE TypeOK'
    BY <2>2 DEF Sign, registryVars, Signature
  <2>3. ASSUME NEW c \in Terms, NEW sigs \in SignatureArrays, registerConsent(c, sigs)
        PROVE  TypeOK'
    <3>1. computeConsentId(c) = c
      BY TermsAreTheirHash
    <3>2. storedConsent(c) \in ConsentRecord
      BY TermsAssumption DEF storedConsent, ConsentRecord, IsTerms, Uris
    <3>3. /\ DOMAIN consents' = DOMAIN consents \cup {c}
          /\ consents' \in [DOMAIN consents' -> ConsentRecord]
      BY <2>3, <3>1, <3>2 DEF registerConsent
    <3>4. partyConsents' \in [Party -> Seq(Terms)]
      BY <2>3, <3>1 DEF registerConsent, IndexParties
    <3>5. partyConsentIndex' \in [Party -> SUBSET Terms]
      BY <2>3, <3>1 DEF registerConsent, IndexParties
    <3>6. now' = now /\ signatures' = signatures /\ consentCount' = consentCount + 1
      BY <2>3 DEF registerConsent
    <3>7. DOMAIN consents' \subseteq Terms
      BY <3>3
    <3> QED BY <3>3, <3>4, <3>5, <3>6, <3>7
  <2>4. ASSUME NEW sender \in Address, NEW id \in Terms, revokeConsent(sender, id)
        PROVE  TypeOK'
    BY <2>4 DEF revokeConsent, consentExists, ConsentRecord
  <2>5. ASSUME NEW id \in Terms, NEW until \in Untils, NEW uri \in Uris,
               NEW sigs \in SignatureArrays, updateConsent(id, until, uri, sigs)
        PROVE  TypeOK'
    <3>1. until \in Nat
      BY TermsAssumption DEF Untils, IsTerms
    <3>2. [consents[id] EXCEPT !.validUntil = until, !.uri = uri] \in ConsentRecord
      BY <2>5, <3>1 DEF updateConsent, consentExists, ConsentRecord
    <3> QED BY <2>5, <3>2 DEF updateConsent, consentExists
  <2>6. CASE UNCHANGED vars
    BY <2>6 DEF vars, registryVars
  <2> QED BY <2>1, <2>2, <2>3, <2>4, <2>5, <2>6 DEF Next, Register, Revoke, Update
<1> QED BY <1>1, <1>2, PTL DEF Spec

-----------------------------------------------------------------------------
(* Safety *)

\* Signatures are never withdrawn, so what all parties signed stays signed.
LEMMA SignedStays ==
  ASSUME signatures \subseteq signatures'
  PROVE  \A t : SignedByAll(t) => SignedByAll(t)'
BY DEF SignedByAll, containsParty

\* registerConsent preserves the invariant.
LEMMA RegisterPreserves ==
  ASSUME RegistryInv, TypeOK', NEW c \in Terms, NEW sigs \in SignatureArrays,
         registerConsent(c, sigs)
  PROVE  RegistryInv'
<1>1. computeConsentId(c) = c /\ hashConsent(c) = c /\ c.parties \in Seq(Party)
  BY TermsAreTheirHash, TermsAssumption DEF IsTerms
<1>2. /\ c \notin DOMAIN consents
      /\ consents' = [i \in DOMAIN consents \cup {c} |->
                        IF i = c THEN storedConsent(c) ELSE consents[i]]
      /\ consentCount' = consentCount + 1
      /\ signatures' = signatures
      /\ verifyMultiSig(c, sigs, c.parties)
      /\ IndexParties(c, c)
  BY <1>1 DEF registerConsent, consentExists
<1>3. /\ DOMAIN consents' = DOMAIN consents \cup {c}
      /\ consents'[c] = storedConsent(c)
      /\ \A i \in DOMAIN consents : consents'[i] = consents[i]
  BY <1>2
<1>4. IsFiniteSet(DOMAIN consents)' /\ CountExact'
  BY <1>2, <1>3, FS_AddElement DEF RegistryInv, CountExact
<1>5. PartyIndexExact'
  <2> SUFFICES ASSUME NEW p \in Party
               PROVE  /\ Range(partyConsents'[p]) = partyConsentIndex'[p]
                      /\ IsInjective(partyConsents'[p])
                      /\ partyConsentIndex'[p] =
                           {id \in DOMAIN consents' : containsParty(consents'[id], p)}
    BY DEF PartyIndexExact, containsParty
  <2>1. /\ Range(partyConsents[p]) = partyConsentIndex[p]
        /\ IsInjective(partyConsents[p])
        /\ partyConsentIndex[p] = {id \in DOMAIN consents : containsParty(consents[id], p)}
        /\ partyConsents[p] \in Seq(Terms)
    BY DEF RegistryInv, PartyIndexExact, TypeOK
  <2>2. c \notin partyConsentIndex[p]
    BY <1>2, <2>1
  <2>3. containsParty(storedConsent(c), p) <=> containsParty(c, p)
    BY DEF containsParty, storedConsent
  <2>4. {id \in DOMAIN consents' : containsParty(consents'[id], p)} =
          partyConsentIndex[p] \cup (IF containsParty(c, p) THEN {c} ELSE {})
    BY <1>3, <2>1, <2>3
  <2>5. CASE containsParty(c, p)
    <3>1. /\ partyConsents'[p] = Append(partyConsents[p], c)
          /\ partyConsentIndex'[p] = partyConsentIndex[p] \cup {c}
      BY <1>2, <2>2, <2>5 DEF IndexParties
    <3> QED BY <2>1, <2>2, <2>4, <2>5, <3>1, AppendFresh
  <2>6. CASE ~containsParty(c, p)
    <3>1. partyConsents'[p] = partyConsents[p] /\ partyConsentIndex'[p] = partyConsentIndex[p]
      BY <1>2, <2>6 DEF IndexParties
    <3> QED BY <2>1, <2>4, <2>6, <3>1
  <2> QED BY <2>5, <2>6
<1>6. EveryPartySigned'
  <2>1. SignedByAll(c)
    <3>1. PICK n \in Nat : sigs \in [1..n -> signatures \cup {Garbage}]
      BY BoundAssumption DEF SignatureArrays
    <3> QED BY <1>1, <1>2, <3>1, VerifiedSigned DEF SignedByAll, RegistryInv, TypeOK
  <2>2. hashConsent(storedConsent(c)) = c
    BY <1>1 DEF hashConsent, storedConsent
  <2>3. \A t : SignedByAll(t) => SignedByAll(t)'
    BY <1>2, SignedStays
  <2> QED BY <1>3, <2>1, <2>2, <2>3 DEF RegistryInv, EveryPartySigned
<1> QED BY <1>4, <1>5, <1>6 DEF RegistryInv

\* A transaction that changes no party array and no id keeps the invariant if
\* what it stores is signed (revokeConsent and updateConsent).
LEMMA RewritePreserves ==
  ASSUME RegistryInv, TypeOK', NEW id \in DOMAIN consents, NEW c,
         consents' = [consents EXCEPT ![id] = c],
         c.parties = consents[id].parties,
         SignedByAll(hashConsent(c)),
         UNCHANGED <<signatures, consentCount, partyConsents, partyConsentIndex>>
  PROVE  RegistryInv'
<1>1. /\ DOMAIN consents' = DOMAIN consents
      /\ consents'[id] = c
      /\ \A i \in DOMAIN consents \ {id} : consents'[i] = consents[i]
  OBVIOUS
<1>2. IsFiniteSet(DOMAIN consents)' /\ CountExact'
  BY <1>1 DEF RegistryInv, CountExact
<1>3. PartyIndexExact'
  <2>1. \A i \in DOMAIN consents : \A p : containsParty(consents'[i], p) <=> containsParty(consents[i], p)
    BY <1>1 DEF containsParty
  <2>2. \A p : {i \in DOMAIN consents' : containsParty(consents'[i], p)} =
               {i \in DOMAIN consents : containsParty(consents[i], p)}
    BY <1>1, <2>1
  <2> QED BY <2>2 DEF RegistryInv, PartyIndexExact
<1>4. EveryPartySigned'
  <2>1. \A t : SignedByAll(t) => SignedByAll(t)'
    BY SignedStays
  <2> QED BY <1>1, <2>1 DEF RegistryInv, EveryPartySigned
<1> QED BY <1>2, <1>3, <1>4 DEF RegistryInv

\* The invariant holds in every reachable state.
THEOREM RegistryInvariant == Spec => []RegistryInv
<1>1. Init => RegistryInv
  <2> SUFFICES ASSUME Init PROVE RegistryInv
    OBVIOUS
  <2>1. TypeOK
    BY DEF Init, TypeOK
  <2>2. DOMAIN consents = {}
    BY DEF Init
  <2>3. IsFiniteSet(DOMAIN consents) /\ CountExact
    BY <2>2, FS_EmptySet DEF CountExact, Init
  <2>4. PartyIndexExact
    BY <2>2 DEF PartyIndexExact, Init, Range, IsInjective
  <2>5. EveryPartySigned
    BY <2>2 DEF EveryPartySigned
  <2> QED BY <2>1, <2>3, <2>4, <2>5 DEF RegistryInv
<1>2. RegistryInv /\ TypeOK' /\ [Next]_vars => RegistryInv'
  <2> SUFFICES ASSUME RegistryInv, TypeOK', [Next]_vars PROVE RegistryInv'
    OBVIOUS
  <2>1. ASSUME UNCHANGED registryVars, signatures \subseteq signatures' PROVE RegistryInv'
    <3>1. \A t : SignedByAll(t) => SignedByAll(t)'
      BY <2>1, SignedStays
    <3> QED BY <2>1, <3>1 DEF RegistryInv, registryVars, PartyIndexExact, CountExact,
                              EveryPartySigned, containsParty
  <2>2. CASE NextBlock
    BY <2>1, <2>2 DEF NextBlock
  <2>3. ASSUME NEW p \in Address, NEW t \in Terms, Sign(p, t) PROVE RegistryInv'
    BY <2>1, <2>3 DEF Sign
  <2>4. ASSUME NEW c \in Terms, NEW sigs \in SignatureArrays, registerConsent(c, sigs)
        PROVE  RegistryInv'
    BY <2>4, RegisterPreserves
  <2>5. ASSUME NEW sender \in Address, NEW id \in Terms, revokeConsent(sender, id)
        PROVE  RegistryInv'
    <3> DEFINE c == [consents[id] EXCEPT !.revoked = TRUE]
    <3>1. id \in DOMAIN consents /\ consents[id] \in ConsentRecord
      BY <2>5 DEF revokeConsent, consentExists, RegistryInv, TypeOK
    <3>2. consents' = [consents EXCEPT ![id] = c]
      BY <2>5 DEF revokeConsent
    <3>3. c.parties = consents[id].parties /\ hashConsent(c) = hashConsent(consents[id])
      BY <3>1 DEF hashConsent, ConsentRecord
    <3>4. SignedByAll(hashConsent(c))
      BY <3>1, <3>3 DEF RegistryInv, EveryPartySigned
    <3> HIDE DEF c
    <3> QED BY <2>5, <3>1, <3>2, <3>3, <3>4, RewritePreserves DEF revokeConsent
  <2>6. ASSUME NEW id \in Terms, NEW until \in Untils, NEW uri \in Uris,
               NEW sigs \in SignatureArrays, updateConsent(id, until, uri, sigs)
        PROVE  RegistryInv'
    <3> DEFINE c == [consents[id] EXCEPT !.validUntil = until, !.uri = uri]
    <3>1. id \in DOMAIN consents /\ consents[id] \in ConsentRecord
      BY <2>6 DEF updateConsent, consentExists, RegistryInv, TypeOK
    <3>2. consents' = [consents EXCEPT ![id] = c] /\ verifyMultiSig(c, sigs, consents[id].parties)
      BY <2>6 DEF updateConsent
    <3>3. c.parties = consents[id].parties /\ c.parties \in Seq(Party)
      BY <3>1 DEF ConsentRecord
    <3>4. SignedByAll(hashConsent(c))
      <4>1. PICK n \in Nat : sigs \in [1..n -> signatures \cup {Garbage}]
        BY BoundAssumption DEF SignatureArrays
      <4>2. verifyMultiSig(c, sigs, c.parties)
        BY <3>2, <3>3
      <4>3. \A p : containsParty(hashConsent(c), p) => containsParty(c, p)
        BY DEF containsParty, hashConsent
      <4> HIDE DEF c
      <4> QED BY <3>3, <4>1, <4>2, <4>3, VerifiedSigned DEF SignedByAll, RegistryInv, TypeOK
    <3> HIDE DEF c
    <3> QED BY <2>6, <3>1, <3>2, <3>3, <3>4, RewritePreserves DEF updateConsent
  <2>7. CASE UNCHANGED vars
    BY <2>1, <2>7 DEF vars
  <2> QED BY <2>2, <2>3, <2>4, <2>5, <2>6, <2>7 DEF Next, Register, Revoke, Update
<1> QED BY <1>1, <1>2, TypeCorrect, PTL DEF Spec

\* getPartyConsents lists exactly the consents that name a party, each once.
THEOREM PartyIndexCorrect == Spec => []PartyIndexExact
BY RegistryInvariant, PTL DEF RegistryInv

\* getConsentCount is the number of stored consents.
THEOREM CountCorrect == Spec => []CountExact
BY RegistryInvariant, PTL DEF RegistryInv

\* Every stored agreement, as registered and as updated, was signed by every
\* account it names.
THEOREM StoredIsSigned == Spec => []EveryPartySigned
BY RegistryInvariant, PTL DEF RegistryInv

-----------------------------------------------------------------------------
(* Views *)

\* The array that the loop of getActiveConsentsForParty has filled after i turns.
IsLoop(all, n, g) ==
  g = [i \in 0..n |->
         IF i = 0 THEN << >>
         ELSE IF _isConsentValid(all[i]) THEN Append(g[i - 1], all[i])
         ELSE g[i - 1]]

LEMMA LoopRuns == ASSUME NEW all, NEW n \in Nat PROVE \E g : IsLoop(all, n, g)
<1> DEFINE B == {k \in Nat : \E g : IsLoop(all, k, g)}
<1>1. 0 \in B
  <2> DEFINE g == [i \in 0..0 |-> << >>]
  <2>1. IsLoop(all, 0, g)
    BY DEF IsLoop
  <2> QED BY <2>1
<1>2. ASSUME NEW k \in 0..n, k # n, k \in B PROVE k + 1 \in B
  <2>1. PICK g : IsLoop(all, k, g)
    BY <1>2
  <2> DEFINE Turn(f, i) == IF i = 0 THEN << >>
                           ELSE IF _isConsentValid(all[i]) THEN Append(f[i - 1], all[i])
                           ELSE f[i - 1]
             h == [i \in 0..(k + 1) |-> Turn(g, i)]
  <2>2. \A i \in 0..k : g[i] = Turn(g, i)
    BY <2>1 DEF IsLoop
  <2>3. \A i \in 0..k : h[i] = g[i]
    <3> HIDE DEF Turn
    <3> QED BY <2>2
  <2>4. \A i \in 0..(k + 1) : i # 0 => i - 1 \in 0..k
    OBVIOUS
  <2>5. \A i \in 0..(k + 1) : Turn(h, i) = Turn(g, i)
    <3> HIDE DEF h
    <3> QED BY <2>3, <2>4
  <2>6. h = [i \in 0..(k + 1) |-> Turn(h, i)]
    <3> HIDE DEF Turn
    <3> QED BY <2>5
  <2>7. IsLoop(all, k + 1, h)
    BY <2>6 DEF IsLoop
  <2> QED BY <2>7
<1>3. n \in B
  <2> HIDE DEF B
  <2>1. 0..n \subseteq B
    BY <1>1, <1>2, UpTo
  <2> QED BY <2>1
<1> QED BY <1>3

\* In a state where the lists are exact the view returns the consents of the
\* party that are valid now.
LEMMA ActiveListed ==
  ASSUME TypeOK, PartyIndexExact, NEW p \in Party
  PROVE  /\ Range(getActiveConsentsForParty(p)) =
               {id \in DOMAIN consents : containsParty(consents[id], p) /\ isConsentValid(id)}
         /\ IsInjective(getActiveConsentsForParty(p))
<1> DEFINE all == partyConsents[p]
           n == Len(all)
           it == CHOOSE g : IsLoop(all, n, g)
           Seen(i) == {all[j] : j \in 1..i}
           Good(i) == /\ it[i] \in Seq(Terms) /\ IsInjective(it[i])
                      /\ Range(it[i]) = {id \in Seen(i) : _isConsentValid(id)}
           B == {i \in 0..n : Good(i)}
<1>1. /\ all \in Seq(Terms) /\ n \in Nat /\ DOMAIN all = 1..n
      /\ IsInjective(all)
      /\ Range(all) = {id \in DOMAIN consents : containsParty(consents[id], p)}
  BY DEF TypeOK, PartyIndexExact
<1>2. getActiveConsentsForParty(p) = it[n]
  BY DEF getActiveConsentsForParty, IsLoop
<1>3. IsLoop(all, n, it)
  BY <1>1, LoopRuns
<1> HIDE DEF it, all, n
<1>4. 0 \in B
  <2>1. it[0] = << >>
    BY <1>1, <1>3 DEF IsLoop
  <2>2. Seen(0) = {}
    OBVIOUS
  <2>3. << >> \in Seq(Terms) /\ IsInjective(<< >>) /\ Range(<< >>) = {}
    BY DEF IsInjective, Range
  <2> HIDE DEF Seen
  <2>4. it[0] \in Seq(Terms) /\ IsInjective(it[0]) /\ Range(it[0]) = {}
    BY <2>1, <2>3
  <2>5. Good(0)
    BY <2>2, <2>4
  <2> HIDE DEF Good
  <2> QED BY <1>1, <2>5
<1>5. ASSUME NEW i \in 0..n, i # n, i \in B PROVE i + 1 \in B
  <2> DEFINE id == all[i + 1]
  <2>1. i + 1 \in 0..n /\ i + 1 # 0 /\ (i + 1) - 1 = i /\ i + 1 \in 1..n
    BY <1>1, <1>5
  <2>2. it[i + 1] = IF _isConsentValid(id) THEN Append(it[i], id) ELSE it[i]
    BY <1>3, <2>1 DEF IsLoop
  <2>3. id \in Terms /\ id \notin Seen(i)
    <3>1. \A j \in 1..i : j \in 1..n /\ j # i + 1
      BY <1>1
    <3> QED BY <1>1, <2>1, <3>1 DEF IsInjective
  <2>4. Seen(i + 1) = Seen(i) \cup {id}
    <3>1. \A j : j \in 1..(i + 1) <=> j \in 1..i \/ j = i + 1
      OBVIOUS
    <3> QED BY <3>1
  <2>5. Good(i)
    BY <1>5
  <2> HIDE DEF Seen, id
  <2>6. CASE _isConsentValid(id)
    <3>1. id \notin Range(it[i])
      BY <2>3, <2>5
    <3>2. /\ Append(it[i], id) \in Seq(Terms)
          /\ Range(Append(it[i], id)) = Range(it[i]) \cup {id}
          /\ IsInjective(Append(it[i], id))
      BY <2>3, <2>5, <3>1, AppendFresh
    <3> QED BY <2>1, <2>2, <2>4, <2>5, <2>6, <3>2
  <2>7. CASE ~_isConsentValid(id)
    BY <2>1, <2>2, <2>4, <2>5, <2>7
  <2> QED BY <2>6, <2>7
<1>6. Good(n)
  <2> HIDE DEF Good
  <2>1. 0..n \subseteq B
    <3> HIDE DEF B
    <3> QED BY <1>1, <1>4, <1>5, UpTo
  <2> QED BY <1>1, <2>1
<1>7. Seen(n) = Range(all)
  BY <1>1 DEF Range
<1> HIDE DEF Seen
<1>8. Range(it[n]) = {id \in DOMAIN consents : containsParty(consents[id], p) /\ _isConsentValid(id)}
  BY <1>1, <1>6, <1>7
<1> QED BY <1>2, <1>6, <1>8 DEF _isConsentValid, isConsentValid

\* At every timestamp and for every party the view returns the consents that
\* name it and are valid, each once (ConsentRegistry.getActiveConsentsForParty).
THEOREM ActiveListCorrect == Spec => []ActiveListExact
<1>1. RegistryInv => ActiveListExact
  BY ActiveListed DEF RegistryInv, ActiveListExact
<1> QED BY <1>1, RegistryInvariant, PTL

-----------------------------------------------------------------------------
(* What a step may never do *)

\* What a step does to one stored consent: it leaves it as it is, marks it
\* revoked, or replaces its end and URI.
StepOf(id) ==
  \/ consents'[id] = consents[id]
  \/ now' = now /\ consents'[id] = [consents[id] EXCEPT !.revoked = TRUE]
  \/ /\ now' = now
     /\ \E until \in Untils : \E uri \in Uris :
          consents'[id] = [consents[id] EXCEPT !.validUntil = until, !.uri = uri]

\* Every step of the registry does one of these to every stored consent and
\* removes none.
LEMMA StepShape ==
  ASSUME TypeOK, [Next]_vars, NEW id \in DOMAIN consents
  PROVE  id \in DOMAIN consents' /\ StepOf(id)
<1>1. CASE UNCHANGED consents
  BY <1>1 DEF StepOf
<1>2. ASSUME NEW c \in Terms, NEW sigs \in SignatureArrays, registerConsent(c, sigs)
      PROVE  id \in DOMAIN consents' /\ StepOf(id)
  BY <1>2 DEF registerConsent, consentExists, StepOf
<1>3. ASSUME NEW sender \in Address, NEW i \in Terms, revokeConsent(sender, i)
      PROVE  id \in DOMAIN consents' /\ StepOf(id)
  <2>1. CASE i = id
    BY <1>3, <2>1 DEF revokeConsent, StepOf
  <2>2. CASE i # id
    BY <1>3, <2>2 DEF revokeConsent, StepOf
  <2> QED BY <2>1, <2>2
<1>4. ASSUME NEW i \in Terms, NEW until \in Untils, NEW uri \in Uris,
             NEW sigs \in SignatureArrays, updateConsent(i, until, uri, sigs)
      PROVE  id \in DOMAIN consents' /\ StepOf(id)
  <2>1. CASE i = id
    BY <1>4, <2>1 DEF updateConsent, StepOf
  <2>2. CASE i # id
    BY <1>4, <2>2 DEF updateConsent, StepOf
  <2> QED BY <2>1, <2>2
<1> QED BY <1>1, <1>2, <1>3, <1>4
        DEF Next, NextBlock, Sign, Register, Revoke, Update, vars, registryVars

\* A revoked consent stays revoked for ever.
THEOREM RevocationFinal == Spec => RevocationIsFinal
<1>1. TypeOK /\ [Next]_vars =>
        [\A id \in DOMAIN consents :
           consents[id].revoked => consentExists(id)' /\ consents[id].revoked']_vars
  <2> SUFFICES ASSUME TypeOK, [Next]_vars, NEW id \in DOMAIN consents, consents[id].revoked
               PROVE  consentExists(id)' /\ consents[id].revoked'
    OBVIOUS
  <2>1. id \in DOMAIN consents' /\ StepOf(id)
    BY StepShape
  <2>2. consents[id] \in ConsentRecord
    BY DEF TypeOK
  <2> QED BY <2>1, <2>2 DEF StepOf, consentExists, ConsentRecord
<1> QED BY <1>1, TypeCorrect, PTL DEF Spec, RevocationIsFinal

\* The parties, the scopes and the start of a stored consent never change.
THEOREM AgreementStatic == Spec => AgreementIsStatic
<1>1. TypeOK /\ [Next]_vars =>
        [\A id \in DOMAIN consents :
           /\ id \in DOMAIN consents'
           /\ consents'[id].parties = consents[id].parties
           /\ consents'[id].scopes = consents[id].scopes
           /\ consents'[id].validFrom = consents[id].validFrom
           /\ consents'[id].createdAt = consents[id].createdAt]_vars
  <2> SUFFICES ASSUME TypeOK, [Next]_vars, NEW id \in DOMAIN consents
               PROVE  /\ id \in DOMAIN consents'
                      /\ consents'[id].parties = consents[id].parties
                      /\ consents'[id].scopes = consents[id].scopes
                      /\ consents'[id].validFrom = consents[id].validFrom
                      /\ consents'[id].createdAt = consents[id].createdAt
    OBVIOUS
  <2>1. id \in DOMAIN consents' /\ StepOf(id)
    BY StepShape
  <2>2. consents[id] \in ConsentRecord
    BY DEF TypeOK
  <2> QED BY <2>1, <2>2 DEF StepOf, ConsentRecord
<1> QED BY <1>1, TypeCorrect, PTL DEF Spec, AgreementIsStatic

\* A consent becomes valid only when its start is reached or by a transaction
\* that stores terms every account it names has signed.
THEOREM ValidityAgreed == Spec => ValidityIsAgreed
<1> DEFINE Agreed(id) ==
      \/ /\ consentExists(id)
         /\ now < consents[id].validFrom
         /\ now' >= consents[id].validFrom
         /\ consents' = consents
      \/ /\ now' = now
         /\ SignedByAll(hashConsent(consents[id]'))
<1>1. TypeOK /\ RegistryInv' /\ [Next]_vars =>
        [\A id \in Terms : ~isConsentValid(id) /\ isConsentValid(id)' => Agreed(id)]_vars
  <2> SUFFICES ASSUME TypeOK, RegistryInv', [Next]_vars, NEW id \in Terms,
                      ~isConsentValid(id), isConsentValid(id)'
               PROVE  Agreed(id)
    OBVIOUS
  <2>1. CASE NextBlock
    <3>1. consents' = consents /\ now' = now + 1
      BY <2>1 DEF NextBlock, registryVars
    <3>2. id \in DOMAIN consents /\ consents[id] \in ConsentRecord
      BY <3>1 DEF isConsentValid, consentExists, TypeOK
    <3> QED BY <3>1, <3>2 DEF isConsentValid, consentExists, TypeOK, ConsentRecord
  <2>2. CASE consents' = consents /\ now' = now
    BY <2>2 DEF isConsentValid, consentExists
  <2>3. CASE signatures' = signatures /\ now' = now
    <3>1. id \in DOMAIN consents'
      BY DEF isConsentValid, consentExists
    <3>2. SignedByAll(hashConsent(consents[id]))'
      BY <3>1 DEF RegistryInv, EveryPartySigned
    <3> QED BY <2>3, <3>2 DEF SignedByAll
  <2> QED BY <2>1, <2>2, <2>3 DEF Next, Sign, Register, Revoke, Update, registerConsent,
             revokeConsent, updateConsent, vars, registryVars
<1> QED BY <1>1, TypeCorrect, RegistryInvariant, PTL DEF Spec, ValidityIsAgreed
-----------------------------------------------------------------------------
(* The registry implements ConsentLifecycle *)

\* The current terms of the stored consents, and the revoked ones: what the
\* refinement mapping substitutes for agreed and withdrawn.
Agreed == [id \in DOMAIN consents |-> hashConsent(consents[id])]
Withdrawn == {id \in DOMAIN consents : consents[id].revoked}

\* registerConsent records an agreement.
LEMMA RegisterRecords ==
  ASSUME RegistryInv, RegistryInv', NEW c \in Terms, NEW sigs \in SignatureArrays,
         registerConsent(c, sigs)
  PROVE  Lifecycle!Record(c)
<1>1. computeConsentId(c) = c /\ hashConsent(c) = c /\ c.parties \in Seq(Party)
  BY TermsAreTheirHash, TermsAssumption DEF IsTerms
<1>2. /\ c \notin DOMAIN consents
      /\ DOMAIN consents' = DOMAIN consents \cup {c}
      /\ consents'[c] = storedConsent(c)
      /\ \A i \in DOMAIN consents : consents'[i] = consents[i]
      /\ now' = now /\ signatures' = signatures
      /\ c.parties # << >>
  BY <1>1 DEF registerConsent, consentExists
<1>3. hashConsent(storedConsent(c)) = c /\ storedConsent(c).revoked = FALSE
  BY <1>1 DEF hashConsent, storedConsent
<1>4. Agreed' = [id \in DOMAIN Agreed \cup {c} |-> IF id = c THEN c ELSE Agreed[id]]
  <2>1. /\ DOMAIN Agreed = DOMAIN consents /\ DOMAIN Agreed' = DOMAIN consents \cup {c}
        /\ \A i \in DOMAIN consents : Agreed[i] = hashConsent(consents[i])
        /\ \A i \in DOMAIN consents \cup {c} : Agreed'[i] = hashConsent(consents'[i])
    BY <1>2 DEF Agreed, hashConsent
  <2>2. \A i \in DOMAIN consents \cup {c} : Agreed'[i] = IF i = c THEN c ELSE Agreed[i]
    BY <1>2, <1>3, <2>1
  <2>3. Agreed' = [i \in DOMAIN consents' |-> Agreed'[i]]
    BY DEF Agreed
  <2> QED BY <1>2, <2>1, <2>2, <2>3
<1>5. Withdrawn' = Withdrawn
  BY <1>2, <1>3 DEF Withdrawn
<1>6. SignedByAll(c)
  BY <1>1, <1>2 DEF RegistryInv, EveryPartySigned, SignedByAll
<1>7. Lifecycle!SignedByAll(c)
  BY <1>6 DEF SignedByAll, containsParty, Lifecycle!SignedByAll, Lifecycle!Names
<1> QED BY <1>1, <1>2, <1>4, <1>5, <1>7 DEF Lifecycle!Record, Agreed, Withdrawn

\* updateConsent amends one.
LEMMA UpdateAmends ==
  ASSUME RegistryInv, RegistryInv', NEW id \in Terms, NEW until \in Untils, NEW uri \in Uris,
         NEW sigs \in SignatureArrays, updateConsent(id, until, uri, sigs)
  PROVE  id \in DOMAIN consents /\ Lifecycle!Amend(id, until, uri)
<1> DEFINE c == [consents[id] EXCEPT !.validUntil = until, !.uri = uri]
<1>1. id \in DOMAIN consents /\ consents[id] \in ConsentRecord
  BY DEF updateConsent, consentExists, RegistryInv, TypeOK
<1>2. /\ consents' = [consents EXCEPT ![id] = c]
      /\ now' = now /\ signatures' = signatures
      /\ until > consents[id].validFrom /\ until > now
  BY <1>1 DEF updateConsent, validateConsent, ConsentRecord
<1>3. /\ DOMAIN consents' = DOMAIN consents
      /\ consents'[id] = c
      /\ \A i \in DOMAIN consents \ {id} : consents'[i] = consents[i]
  BY <1>1, <1>2
<1>4. hashConsent(c) = [hashConsent(consents[id]) EXCEPT !.validUntil = until, !.uri = uri]
  <2>1. /\ c.parties = consents[id].parties /\ c.scopes = consents[id].scopes
        /\ c.validFrom = consents[id].validFrom /\ c.validUntil = until /\ c.uri = uri
    BY <1>1 DEF ConsentRecord
  <2> DEFINE T == [parties : Seq(Party), scopes : {t.scopes : t \in Terms}, validFrom : Nat,
                   validUntil : Nat, uri : Uris]
             h == hashConsent(consents[id])
             r == [h EXCEPT !.validUntil = until, !.uri = uri]
  <2>2. h \in T /\ until \in Nat
    BY <1>1, TermsAssumption DEF hashConsent, ConsentRecord, Untils, IsTerms
  <2>3. /\ h.parties = consents[id].parties /\ h.scopes = consents[id].scopes
        /\ h.validFrom = consents[id].validFrom
    BY DEF hashConsent
  <2> HIDE DEF h, c
  <2>4. /\ r \in T /\ r.parties = h.parties /\ r.scopes = h.scopes
        /\ r.validFrom = h.validFrom /\ r.validUntil = until /\ r.uri = uri
    BY <2>2
  <2> HIDE DEF r
  <2>5. r = [parties |-> r.parties, scopes |-> r.scopes, validFrom |-> r.validFrom,
             validUntil |-> r.validUntil, uri |-> r.uri]
    BY <2>4
  <2>6. hashConsent(c) = r
    BY <2>1, <2>3, <2>4, <2>5 DEF hashConsent
  <2> QED BY <2>6 DEF r, h
<1>5. c.revoked = consents[id].revoked
  BY <1>1 DEF ConsentRecord
<1>6. SignedByAll(hashConsent(c))
  BY <1>1, <1>2, <1>3 DEF RegistryInv, EveryPartySigned, SignedByAll
<1>7. Lifecycle!SignedByAll(hashConsent(c))
  BY <1>6 DEF SignedByAll, containsParty, Lifecycle!SignedByAll, Lifecycle!Names
<1> HIDE DEF c
<1>8. Agreed[id] = hashConsent(consents[id]) /\ hashConsent(consents[id]).validFrom = consents[id].validFrom
  BY <1>1 DEF Agreed, hashConsent
<1>9. Agreed' = [Agreed EXCEPT ![id] = hashConsent(c)]
  BY <1>1, <1>3 DEF Agreed, hashConsent
<1>10. Withdrawn' = Withdrawn
  BY <1>1, <1>3, <1>5 DEF Withdrawn
<1> QED BY <1>1, <1>2, <1>4, <1>7, <1>8, <1>9, <1>10 DEF Lifecycle!Amend, Agreed, Withdrawn

\* revokeConsent withdraws one.
LEMMA RevokeWithdraws ==
  ASSUME RegistryInv, NEW sender \in Address, NEW id \in Terms, revokeConsent(sender, id)
  PROVE  id \in DOMAIN consents /\ Lifecycle!Withdraw(sender, id)
<1>1. id \in DOMAIN consents /\ consents \in [DOMAIN consents -> ConsentRecord]
  BY DEF revokeConsent, consentExists, RegistryInv, TypeOK
<1>2. /\ consents' = [consents EXCEPT ![id].revoked = TRUE]
      /\ now' = now /\ signatures' = signatures
      /\ ~consents[id].revoked /\ containsParty(consents[id], sender)
  BY DEF revokeConsent
<1>3. /\ DOMAIN consents' = DOMAIN consents
      /\ \A i \in DOMAIN consents \ {id} : consents'[i] = consents[i]
      /\ consents'[id] = [consents[id] EXCEPT !.revoked = TRUE]
  BY <1>1, <1>2
<1>4. consents'[id].revoked /\ hashConsent(consents'[id]) = hashConsent(consents[id])
  BY <1>1, <1>3 DEF ConsentRecord, hashConsent
<1>5. Withdrawn' = Withdrawn \cup {id} /\ id \notin Withdrawn
  BY <1>1, <1>2, <1>3, <1>4 DEF Withdrawn
<1>6. Agreed' = Agreed
  <2>1. \A i \in DOMAIN consents : hashConsent(consents'[i]) = hashConsent(consents[i])
    BY <1>3, <1>4
  <2> QED BY <1>3, <2>1 DEF Agreed, hashConsent
<1>7. Lifecycle!Names(Agreed[id], sender)
  BY <1>1, <1>2 DEF Lifecycle!Names, Agreed, containsParty, hashConsent
<1> QED BY <1>1, <1>2, <1>5, <1>6, <1>7 DEF Lifecycle!Withdraw, Agreed, Withdrawn

\* Every behaviour of the registry is one of the agreement between parties that
\* ConsentLifecycle describes: recorded when all have signed, amended as all
\* have signed, withdrawn by any of them and for good.
THEOREM RegistryImplementsLifecycle == Spec => ImplementsLifecycle
<1>1. Init => Lifecycle!Init
  BY DEF Init, Lifecycle!Init
<1>2. RegistryInv /\ RegistryInv' /\ [Next]_vars =>
        [Lifecycle!Next]_<<now, signatures, Agreed, Withdrawn>>
  <2> SUFFICES ASSUME RegistryInv, RegistryInv', [Next]_vars
               PROVE  Lifecycle!Next \/ UNCHANGED <<now, signatures, Agreed, Withdrawn>>
    OBVIOUS
  <2>1. ASSUME consents' = consents PROVE Agreed' = Agreed /\ Withdrawn' = Withdrawn
    BY <2>1 DEF Agreed, Withdrawn, hashConsent
  <2>2. CASE NextBlock
    <3>1. now' > now /\ signatures' = signatures /\ consents' = consents
      BY <2>2 DEF NextBlock, registryVars, RegistryInv, TypeOK
    <3> QED BY <2>1, <3>1 DEF Lifecycle!Next, Lifecycle!TimePasses, Agreed, Withdrawn
  <2>3. ASSUME NEW p \in Address, NEW t \in Terms, Sign(p, t) PROVE Lifecycle!Next
    <3>1. Lifecycle!Sign(p, t)
      BY <2>1, <2>3 DEF Sign, registryVars, Lifecycle!Sign, Lifecycle!Names, containsParty,
                        Agreed, Withdrawn
    <3> QED BY <3>1 DEF Lifecycle!Next
  <2>4. ASSUME NEW c \in Terms, NEW sigs \in SignatureArrays, registerConsent(c, sigs)
        PROVE  Lifecycle!Next
    BY <2>4, RegisterRecords DEF Lifecycle!Next
  <2>5. ASSUME NEW sender \in Address, NEW id \in Terms, revokeConsent(sender, id)
        PROVE  Lifecycle!Next
    BY <2>5, RevokeWithdraws DEF Lifecycle!Next, Agreed
  <2>6. ASSUME NEW id \in Terms, NEW until \in Untils, NEW uri \in Uris,
               NEW sigs \in SignatureArrays, updateConsent(id, until, uri, sigs)
        PROVE  Lifecycle!Next
    BY <2>6, UpdateAmends DEF Lifecycle!Next, Untils, Uris
  <2>7. CASE UNCHANGED vars
    BY <2>1, <2>7 DEF vars, registryVars
  <2> QED BY <2>2, <2>3, <2>4, <2>5, <2>6, <2>7 DEF Next, Register, Revoke, Update
<1> QED BY <1>1, <1>2, RegistryInvariant, PTL
        DEF Spec, ImplementsLifecycle, Lifecycle!Spec, Agreed, Withdrawn

-----------------------------------------------------------------------------
(* The escrow asks the registry at every call and keeps no copy of a         *)
(* consent, so what it promises rests on what no step of the registry does:  *)
(* remove a consent, or change the parties of one.                           *)


\* Every behaviour of the composition is one of the registry with a store
\* beside it, so what is proved of the registry holds here.
LEMMA EscrowRefinesRegistry == EscrowSpec => Spec
<1>1. EscrowInit => Init
  BY DEF EscrowInit
<1>2. [EscrowNext]_escrowVars => [Next]_vars
  BY DEF EscrowNext, Store, storeEncryptedData, RegistryStep, escrowVars
<1> QED BY <1>1, <1>2, PTL DEF EscrowSpec, Spec

\* A step leaves a stored consent in the registry, with the same parties.
LEMMA PartiesStay ==
  ASSUME TypeOK, [Next]_vars, NEW id \in DOMAIN consents
  PROVE  id \in DOMAIN consents' /\ consents'[id].parties = consents[id].parties
<1>1. id \in DOMAIN consents' /\ StepOf(id)
  BY StepShape
<1>2. consents[id] \in ConsentRecord
  BY DEF TypeOK
<1> QED BY <1>1, <1>2 DEF StepOf, ConsentRecord

\* A step of the composition does not touch what is in escrow already.
LEMMA PayloadStays ==
  ASSUME [EscrowNext]_escrowVars, NEW id \in DOMAIN escrow
  PROVE  id \in DOMAIN escrow' /\ escrow'[id] = escrow[id]
<1>1. ASSUME NEW sender \in Address, NEW i \in Terms, NEW data \in Payload \cup {<< >>},
             storeEncryptedData(sender, i, data)
      PROVE  id \in DOMAIN escrow' /\ escrow'[id] = escrow[id]
  BY <1>1 DEF storeEncryptedData, hasData
<1>2. CASE UNCHANGED escrow
  BY <1>2
<1> QED BY <1>1, <1>2 DEF EscrowNext, Store, RegistryStep, escrowVars

\* A payload in escrow is one of a registered consent, stored by a party of it.
THEOREM EscrowedByParty == EscrowSpec => []EscrowByParty
<1>1. EscrowInit => EscrowByParty
  BY DEF EscrowInit, EscrowByParty
<1>2. TypeOK /\ EscrowByParty /\ [EscrowNext]_escrowVars => EscrowByParty'
  <2> SUFFICES ASSUME TypeOK, EscrowByParty, [EscrowNext]_escrowVars, NEW id \in DOMAIN escrow'
               PROVE  /\ consentExists(id)'
                      /\ escrow'[id].data \in Payload
                      /\ containsParty(consents'[id], escrow'[id].storedBy)
    BY DEF EscrowByParty
  <2>1. CASE id \in DOMAIN escrow
    <3>1. escrow'[id] = escrow[id]
      BY <2>1, PayloadStays
    <3>2. id \in DOMAIN consents /\ containsParty(consents[id], escrow[id].storedBy)
      BY <2>1 DEF EscrowByParty, consentExists
    <3>3. [Next]_vars
      BY DEF EscrowNext, Store, storeEncryptedData, RegistryStep, escrowVars
    <3>4. id \in DOMAIN consents' /\ consents'[id].parties = consents[id].parties
      BY <3>2, <3>3, PartiesStay
    <3> QED BY <2>1, <3>1, <3>2, <3>4 DEF EscrowByParty, consentExists, containsParty
  <2>2. CASE id \notin DOMAIN escrow
    <3>1. PICK sender \in Address, i \in Terms, data \in Payload \cup {<< >>} :
            storeEncryptedData(sender, i, data)
      BY <2>2 DEF EscrowNext, Store, RegistryStep, escrowVars
    <3>2. i = id /\ escrow'[id] = [data |-> data, storedBy |-> sender]
      BY <2>2, <3>1 DEF storeEncryptedData
    <3>3. consents' = consents
      BY <3>1 DEF storeEncryptedData, vars, registryVars
    <3> QED BY <3>1, <3>2, <3>3 DEF storeEncryptedData, consentExists, containsParty
  <2> QED BY <2>1, <2>2
<1> QED BY <1>1, <1>2, EscrowRefinesRegistry, TypeCorrect, PTL DEF EscrowSpec

\* A stored payload is never replaced, and a party that can read it goes on
\* reading it while the consent is in force (storeEncryptedData refuses a second
\* payload, and no function of the registry changes the parties of a consent).
THEOREM PayloadAlwaysKept == EscrowSpec => PayloadKept
<1>1. TypeOK /\ [EscrowNext]_escrowVars =>
        [\A id \in DOMAIN escrow :
           /\ escrow'[id] = escrow[id]
           /\ \A p \in Address :
                getEncryptedData(p, id) /\ isConsentValid(id)' => getEncryptedData(p, id)']_escrowVars
  <2> SUFFICES ASSUME TypeOK, [EscrowNext]_escrowVars, NEW id \in DOMAIN escrow
               PROVE  /\ escrow'[id] = escrow[id]
                      /\ \A p \in Address : getEncryptedData(p, id) => getEncryptedData(p, id)'
    OBVIOUS
  <2>1. [Next]_vars
    BY DEF EscrowNext, Store, storeEncryptedData, RegistryStep, escrowVars
  <2>2. id \in DOMAIN escrow' /\ escrow'[id] = escrow[id]
    BY PayloadStays
  <2>3. ASSUME NEW p \in Address, getEncryptedData(p, id) PROVE getEncryptedData(p, id)'
    <3>1. id \in DOMAIN consents' /\ consents'[id].parties = consents[id].parties
      BY <2>1, <2>3, PartiesStay DEF getEncryptedData, consentExists
    <3> QED BY <2>2, <2>3, <3>1 DEF getEncryptedData, hasData, consentExists, containsParty
  <2> QED BY <2>2, <2>3
<1> QED BY <1>1, EscrowRefinesRegistry, TypeCorrect, PTL DEF EscrowSpec, PayloadKept
=============================================================================
