--------------------------- MODULE ContractProofs ---------------------------
(***************************************************************************)
(* Proofs about ConsentToken, ConsentVerifier and ConsentFactory, for any  *)
(* consents, accounts, words and salts.  Each keeps the same facts in      *)
(* several structures that one transaction writes; the invariants tie the  *)
(* structures together.                                                    *)
(***************************************************************************)
EXTENDS ConsentRegistryProofs, ConsentToken, ConsentVerifier, ConsentFactory

-----------------------------------------------------------------------------
(* Sums over a finite set, as SumFunctionOnSet of the community modules      *)
(* defines them: by taking out one element after another.                    *)

\* The element that comes next.
Any(s) == CHOOSE x \in s : TRUE

LEMMA AnyOf ==
  ASSUME NEW S, IsFiniteSet(S), NEW s \in SUBSET S
  PROVE  /\ IsFiniteSet(s) /\ Cardinality(s) \in Nat
         /\ s # {} => /\ Any(s) \in s /\ s \ {Any(s)} \in SUBSET S
                      /\ Cardinality(s) # 0
                      /\ Cardinality(s \ {Any(s)}) = Cardinality(s) - 1
<1>1. IsFiniteSet(s) /\ Cardinality(s) \in Nat
  BY FS_Subset, FS_CardinalityType
<1>2. Cardinality(s) = 0 <=> s = {}
  BY <1>1, FS_EmptySet
<1>3. s # {} => Any(s) \in s
  BY DEF Any
<1>4. \A x \in s : Cardinality(s \ {x}) = Cardinality(s) - 1
  BY <1>1, FS_RemoveElement
<1> QED BY <1>1, <1>2, <1>3, <1>4

\* A set of subsets that has the empty one, and every other one whose rest it
\* has, has all.
LEMMA SubsetInduction ==
  ASSUME NEW S, IsFiniteSet(S), NEW B, {} \in B,
         \A s \in SUBSET S : s # {} /\ s \ {Any(s)} \in B => s \in B
  PROVE  SUBSET S \subseteq B
<1> SUFFICES ASSUME ~(SUBSET S \subseteq B) PROVE FALSE
  OBVIOUS
<1> DEFINE T == {Cardinality(s) : s \in (SUBSET S) \ B}
<1>1. T \subseteq Nat
  <2>1. \A s \in SUBSET S : Cardinality(s) \in Nat
    BY AnyOf
  <2> QED BY <2>1
<1>2. T # {}
  OBVIOUS
<1> HIDE DEF T
<1>3. PICK n \in T : \A m \in T : n <= m
  BY <1>1, <1>2, LeastNumber
<1>4. PICK s \in (SUBSET S) \ B : n = Cardinality(s)
  BY DEF T
<1>5. s # {}
  BY <1>4
<1>6. s \ {Any(s)} \in SUBSET S /\ Cardinality(s \ {Any(s)}) = n - 1 /\ n \in Nat
  BY <1>4, <1>5, AnyOf
<1>7. s \ {Any(s)} \notin B
  BY <1>4, <1>5
<1>8. n - 1 \in T
  BY <1>6, <1>7 DEF T
<1> QED BY <1>3, <1>6, <1>8

\* A function that has, for each subset of S, the sum of f over it.
IsSums(f, S, g) ==
  g = [s \in SUBSET S |-> IF s = {} THEN 0 ELSE f[Any(s)] + g[s \ {Any(s)}]]

LEMMA SumsExist == ASSUME NEW f, NEW S, IsFiniteSet(S) PROVE \E g : IsSums(f, S, g)
<1> DEFINE Small(n) == {s \in SUBSET S : Cardinality(s) <= n}
           Partial(g, n) == g = [s \in Small(n) |-> IF s = {} THEN 0 ELSE f[Any(s)] + g[s \ {Any(s)}]]
           B == {n \in Nat : \E g : Partial(g, n)}
<1>1. 0 \in B
  <2>1. ASSUME NEW s \in Small(0) PROVE s = {}
    <3>1. s \in SUBSET S /\ Cardinality(s) <= 0
      OBVIOUS
    <3>2. IsFiniteSet(s) /\ Cardinality(s) \in Nat
      BY <3>1, AnyOf
    <3> QED BY <3>1, <3>2, FS_EmptySet
  <2> DEFINE g == [s \in Small(0) |-> 0]
  <2>2. Partial(g, 0)
    BY <2>1
  <2> QED BY <2>2
<1>2. ASSUME NEW n \in Nat, n \in B PROVE n + 1 \in B
  <2>1. PICK g : Partial(g, n)
    BY <1>2
  <2> DEFINE h == [s \in Small(n + 1) |-> IF s = {} THEN 0 ELSE f[Any(s)] + g[s \ {Any(s)}]]
  <2>2. ASSUME NEW s \in Small(n + 1), s # {} PROVE h[s \ {Any(s)}] = g[s \ {Any(s)}]
    <3> DEFINE u == s \ {Any(s)}
    <3>1. u \in SUBSET S /\ Cardinality(u) = Cardinality(s) - 1 /\ Cardinality(s) \in Nat
      BY <2>2, AnyOf
    <3>2. u \in Small(n) /\ u \in Small(n + 1)
      BY <3>1
    <3> HIDE DEF u, Small
    <3>3. h[u] = IF u = {} THEN 0 ELSE f[Any(u)] + g[u \ {Any(u)}]
      BY <3>2
    <3>4. g[u] = IF u = {} THEN 0 ELSE f[Any(u)] + g[u \ {Any(u)}]
      BY <2>1, <3>2
    <3> QED BY <3>3, <3>4 DEF u
  <2>3. Partial(h, n + 1)
    <3> HIDE DEF Small
    <3> QED BY <2>2
  <2> HIDE DEF Partial, h
  <2> QED BY <2>3
<1>3. Cardinality(S) \in B
  <2> HIDE DEF B
  <2>1. Cardinality(S) \in Nat
    BY FS_CardinalityType
  <2>2. 0..Cardinality(S) \subseteq B
    BY <1>1, <1>2, <2>1, UpTo
  <2> QED BY <2>1, <2>2
<1>4. PICK g : Partial(g, Cardinality(S))
  BY <1>3
<1>5. Small(Cardinality(S)) = SUBSET S
  BY FS_Subset
<1> QED BY <1>4, <1>5 DEF IsSums

\* Such a function gives the sums of the community modules.
LEMMA SumUnfold ==
  ASSUME NEW f, NEW S, IsFiniteSet(S)
  PROVE  \E g : IsSums(f, S, g) /\ SumFunctionOnSet(f, S) = g[S]
<1> DEFINE it == CHOOSE g : IsSums(f, S, g)
<1>1. IsSums(f, S, it)
  BY SumsExist
<1>2. SumFunctionOnSet(f, S) = it[S]
  BY DEF SumFunctionOnSet, FoldFunctionOnSet, MapThenFoldSet, IsSums, Any
<1> QED BY <1>1, <1>2

\* The empty sum.
LEMMA SumOfNothing == ASSUME NEW f, NEW S, NEW g, IsSums(f, S, g) PROVE g[{}] = 0
<1>1. {} \in SUBSET S
  OBVIOUS
<1> QED BY <1>1 DEF IsSums

\* Sums add up element by element.
LEMMA SumOfSums ==
  ASSUME NEW S, IsFiniteSet(S), NEW f, NEW g, NEW h,
         \A x \in S : f[x] \in Nat /\ g[x] \in Nat /\ h[x] = f[x] + g[x]
  PROVE  /\ SumFunctionOnSet(f, S) \in Nat /\ SumFunctionOnSet(g, S) \in Nat
         /\ SumFunctionOnSet(h, S) = SumFunctionOnSet(f, S) + SumFunctionOnSet(g, S)
<1>1. PICK sf : IsSums(f, S, sf) /\ SumFunctionOnSet(f, S) = sf[S]
  BY SumUnfold
<1>2. PICK sg : IsSums(g, S, sg) /\ SumFunctionOnSet(g, S) = sg[S]
  BY SumUnfold
<1>3. PICK sh : IsSums(h, S, sh) /\ SumFunctionOnSet(h, S) = sh[S]
  BY SumUnfold
<1> DEFINE B == {s \in SUBSET S : sf[s] \in Nat /\ sg[s] \in Nat /\ sh[s] = sf[s] + sg[s]}
<1>4. {} \in B
  <2>1. {} \in SUBSET S
    OBVIOUS
  <2>2. sf[{}] = 0 /\ sg[{}] = 0 /\ sh[{}] = 0
    BY <1>1, <1>2, <1>3, SumOfNothing
  <2> QED BY <2>1, <2>2
<1>5. ASSUME NEW s \in SUBSET S, s # {}, s \ {Any(s)} \in B PROVE s \in B
  <2>1. Any(s) \in S
    BY <1>5, AnyOf
  <2>2. f[Any(s)] \in Nat /\ g[Any(s)] \in Nat /\ h[Any(s)] = f[Any(s)] + g[Any(s)]
    BY <2>1
  <2>3. /\ sf[s] = f[Any(s)] + sf[s \ {Any(s)}]
        /\ sg[s] = g[Any(s)] + sg[s \ {Any(s)}]
        /\ sh[s] = h[Any(s)] + sh[s \ {Any(s)}]
    <3> HIDE DEF B
    <3>1. s # {}
      BY <1>5
    <3>2. sf[s] = f[Any(s)] + sf[s \ {Any(s)}]
      BY <1>1, <3>1 DEF IsSums
    <3>3. sg[s] = g[Any(s)] + sg[s \ {Any(s)}]
      BY <1>2, <3>1 DEF IsSums
    <3>4. sh[s] = h[Any(s)] + sh[s \ {Any(s)}]
      BY <1>3, <3>1 DEF IsSums
    <3> QED BY <3>2, <3>3, <3>4
  <2> QED BY <1>5, <2>2, <2>3
<1> HIDE DEF B
<1>6. SUBSET S \subseteq B
  BY <1>4, <1>5, SubsetInduction
<1>7. S \in B
  BY <1>6
<1> QED BY <1>1, <1>2, <1>3, <1>7 DEF B

\* A sum of zeros is zero.
LEMMA SumOfZeros ==
  ASSUME NEW S, IsFiniteSet(S), NEW f, \A x \in S : f[x] = 0
  PROVE  SumFunctionOnSet(f, S) = 0
<1>1. PICK g : IsSums(f, S, g) /\ SumFunctionOnSet(f, S) = g[S]
  BY SumUnfold
<1> DEFINE B == {s \in SUBSET S : g[s] = 0}
<1>2. {} \in B
  BY <1>1, SumOfNothing
<1>3. ASSUME NEW s \in SUBSET S, s # {}, s \ {Any(s)} \in B PROVE s \in B
  <2>1. f[Any(s)] = 0
    BY <1>3, AnyOf
  <2>2. g[s] = f[Any(s)] + g[s \ {Any(s)}]
    BY <1>1, <1>3 DEF IsSums
  <2> QED BY <1>3, <2>1, <2>2
<1> HIDE DEF B
<1>4. S \in B
  BY <1>2, <1>3, SubsetInduction
<1> QED BY <1>1, <1>4 DEF B

\* A sum with a single one.
LEMMA SumOfOne ==
  ASSUME NEW S, IsFiniteSet(S), NEW a \in S
  PROVE  SumFunctionOnSet([x \in S |-> IF x = a THEN 1 ELSE 0], S) = 1
<1> DEFINE f == [x \in S |-> IF x = a THEN 1 ELSE 0]
<1>1. PICK g : IsSums(f, S, g) /\ SumFunctionOnSet(f, S) = g[S]
  BY SumUnfold
<1> DEFINE B == {s \in SUBSET S : g[s] = IF a \in s THEN 1 ELSE 0}
<1>2. {} \in B
  <2> HIDE DEF f
  <2>1. {} \in SUBSET S
    OBVIOUS
  <2>2. g[{}] = 0
    BY <1>1, SumOfNothing
  <2> QED BY <2>1, <2>2
<1>3. ASSUME NEW s \in SUBSET S, s # {}, s \ {Any(s)} \in B PROVE s \in B
  <2>1. Any(s) \in s /\ Any(s) \in S
    BY <1>3, AnyOf
  <2>2. f[Any(s)] = IF Any(s) = a THEN 1 ELSE 0
    BY <2>1
  <2> HIDE DEF f
  <2>3. g[s] = f[Any(s)] + g[s \ {Any(s)}]
    <3> HIDE DEF B
    <3>1. s # {}
      BY <1>3
    <3> QED BY <1>1, <3>1 DEF IsSums
  <2>4. g[s \ {Any(s)}] = IF a \in s \ {Any(s)} THEN 1 ELSE 0
    BY <1>3
  <2>5. CASE Any(s) = a
    BY <2>1, <2>2, <2>3, <2>4, <2>5
  <2>6. CASE Any(s) # a
    BY <2>1, <2>2, <2>3, <2>4, <2>6
  <2> QED BY <2>5, <2>6
<1> HIDE DEF B, f
<1>4. S \in B
  BY <1>2, <1>3, SubsetInduction
<1>5. SumFunctionOnSet(f, S) = 1
  BY <1>1, <1>4 DEF B
<1> QED BY <1>5 DEF f

-----------------------------------------------------------------------------
(* ConsentToken *)

\* The receipt of a consent leads back to it and has its URI.
LinkedBack(id) ==
  /\ consentTokenIds[id] \in DOMAIN tokenConsentIds
  /\ tokenConsentIds[consentTokenIds[id]] = id
  /\ tokenURIs[consentTokenIds[id]] = consentURIs[id]

\* The links are inverse, and no token is in use that was not handed out: so
\* the id of the next mint is linked to nothing.
TokenInv ==
  /\ TokenTypeOK
  /\ \A id \in DOMAIN consentTokenIds : LinkedBack(id)
  /\ \A t \in DOMAIN tokenConsentIds : tokenConsentIds[t] \in DOMAIN consentTokenIds /\ consentTokenIds[tokenConsentIds[t]] = t
  /\ nextTokenId = totalMinted + 1
  /\ DOMAIN minted = 1..totalMinted
  /\ DOMAIN tokenConsentIds \subseteq 1..totalMinted

\* The views find what the links hold.
LEMMA TokenInvLinks == TokenInv => LinksInverse
BY DEF TokenInv, LinkedBack, LinksInverse, getTokenConsentId, getConsentTokenId

LEMMA TokenInvInit == TokenInit => TokenInv
<1> SUFFICES ASSUME TokenInit PROVE TokenInv
  OBVIOUS
<1>1. DOMAIN << >> = {}
  OBVIOUS
<1>2. \A S : << >> \in [{} -> S]
  OBVIOUS
<1>3. TokenTypeOK
  BY <1>1, <1>2, TokenAssumption DEF TokenInit, TokenTypeOK
<1> QED BY <1>1, <1>3 DEF TokenInit, TokenInv

\* How often an account is listed is a number.
LEMMA OccurrencesNat == \A parties \in PartyList : \A a \in Account : Occurrences(parties, a) \in Nat
<1> SUFFICES ASSUME NEW parties \in PartyList, NEW a \in Account PROVE Occurrences(parties, a) \in Nat
  OBVIOUS
<1>1. Len(parties) \in Nat /\ DOMAIN parties = 1..Len(parties)
  BY TokenAssumption
<1>2. IsFiniteSet(1..Len(parties))
  BY <1>1, FS_Interval
<1>3. IsFiniteSet({i \in DOMAIN parties : parties[i] = a})
  BY <1>1, <1>2, FS_Subset
<1> QED BY <1>3, FS_CardinalityType DEF Occurrences

\* A mint, for any consent that has no receipt, under the next token id.
LEMMA TokenInvMint ==
  ASSUME TokenInv, NEW parties \in PartyList, NEW id \in ConsentId, NEW uri \in Uri,
         mintConsentReceipt(parties, id, uri)
  PROVE  TokenInv'
<1> DEFINE t == nextTokenId
<1>1. /\ id \notin DOMAIN consentTokenIds /\ t <= MaxTokens
      /\ nextTokenId' = t + 1 /\ totalMinted' = totalMinted + 1
      /\ consentTokenIds' = Put(consentTokenIds, id, t)
      /\ tokenConsentIds' = Put(tokenConsentIds, t, id)
      /\ consentURIs' = Put(consentURIs, id, uri)
      /\ tokenURIs' = Put(tokenURIs, t, uri)
      /\ balance' = [a \in Account |->
                       [balance[a] EXCEPT ![t] = @ + Occurrences(parties, a)]]
      /\ minted' = Put(minted, t, [consent |-> id, parties |-> parties])
  BY DEF mintConsentReceipt, MintAs
<1>2. totalMinted \in 0..MaxTokens /\ MaxTokens \in Nat /\ t = totalMinted + 1
  BY TokenAssumption DEF TokenInv, TokenTypeOK
<1>3. /\ t \in Token /\ t \notin 1..totalMinted /\ totalMinted' \in 0..MaxTokens
      /\ nextTokenId' \in 1..(MaxTokens + 1) /\ nextTokenId' = totalMinted' + 1
      /\ 1..totalMinted \cup {t} = 1..totalMinted'
  <2>1. PICK n, m : n = totalMinted /\ m = MaxTokens
    OBVIOUS
  <2>2. n \in Nat /\ m \in Nat /\ n + 1 <= m
    BY <1>1, <1>2, <2>1
  <2>3. /\ n + 1 \in 1..m /\ n + 1 \notin 1..n /\ n + 1 \in 0..m /\ (n + 1) + 1 \in 1..(m + 1)
    BY <2>2
  <2>4. 1..n \cup {n + 1} = 1..(n + 1)
    BY <2>2
  <2>5. t = n + 1 /\ totalMinted' = n + 1 /\ nextTokenId' = (n + 1) + 1
    BY <1>1, <1>2, <2>1
  <2> QED BY <2>1, <2>3, <2>4, <2>5 DEF Token
<1>4. t \notin DOMAIN tokenConsentIds /\ t \notin DOMAIN minted
  BY <1>3 DEF TokenInv
<1> HIDE DEF t
<1>5. /\ DOMAIN consentTokenIds' = DOMAIN consentTokenIds \cup {id} /\ consentTokenIds'[id] = t
      /\ \A i \in DOMAIN consentTokenIds : i # id /\ consentTokenIds'[i] = consentTokenIds[i]
  BY <1>1 DEF Put
<1>6. /\ DOMAIN tokenConsentIds' = DOMAIN tokenConsentIds \cup {t} /\ tokenConsentIds'[t] = id
      /\ \A u \in DOMAIN tokenConsentIds : u # t /\ tokenConsentIds'[u] = tokenConsentIds[u]
  BY <1>1, <1>4 DEF Put
<1>7. /\ DOMAIN consentURIs = DOMAIN consentTokenIds
      /\ DOMAIN consentURIs' = DOMAIN consentURIs \cup {id} /\ consentURIs'[id] = uri
      /\ \A i \in DOMAIN consentURIs : i # id /\ consentURIs'[i] = consentURIs[i]
  BY <1>1 DEF Put, TokenInv, TokenTypeOK
<1>8. /\ DOMAIN tokenURIs = DOMAIN minted
      /\ DOMAIN tokenURIs' = DOMAIN tokenURIs \cup {t} /\ tokenURIs'[t] = uri
      /\ \A u \in DOMAIN tokenURIs : u # t /\ tokenURIs'[u] = tokenURIs[u]
  BY <1>1, <1>4 DEF Put, TokenInv, TokenTypeOK
<1>9. DOMAIN minted' = 1..totalMinted'
  BY <1>1, <1>3 DEF Put, TokenInv
<1>10. DOMAIN tokenConsentIds' \subseteq 1..totalMinted'
  BY <1>3, <1>6 DEF TokenInv
<1>11. TokenTypeOK'
  <2>1. \A a \in Account : Occurrences(parties, a) \in Nat
    BY OccurrencesNat
  <2>2. balance' \in [Account -> [Token -> Nat]]
    <3>1. \A a \in Account : [balance[a] EXCEPT ![t] = @ + Occurrences(parties, a)] \in [Token -> Nat]
      BY <1>3, <2>1 DEF TokenInv, TokenTypeOK
    <3> QED BY <1>1, <3>1
  <2>3. consentTokenIds' \in [DOMAIN consentTokenIds' -> Token] /\ DOMAIN consentTokenIds' \subseteq ConsentId
    BY <1>1, <1>3 DEF TokenInv, TokenTypeOK, Put
  <2>4. tokenConsentIds' \in [DOMAIN tokenConsentIds' -> ConsentId] /\ DOMAIN tokenConsentIds' \subseteq Token
    BY <1>1, <1>3 DEF TokenInv, TokenTypeOK, Put
  <2>5. consentURIs' \in [DOMAIN consentTokenIds' -> Uri]
    BY <1>1, <1>5, <1>7 DEF TokenInv, TokenTypeOK, Put
  <2>6. tokenURIs' \in [DOMAIN minted' -> Uri]
    BY <1>1, <1>8 DEF TokenInv, TokenTypeOK, Put
  <2> QED BY <1>1, <1>3, <2>2, <2>3, <2>4, <2>5, <2>6 DEF TokenTypeOK
<1>12. ASSUME NEW i \in DOMAIN consentTokenIds' PROVE LinkedBack(i)'
  <2>1. CASE i = id
    BY <1>5, <1>6, <1>7, <1>8, <2>1 DEF LinkedBack
  <2>2. CASE i # id
    <3>1. i \in DOMAIN consentTokenIds /\ LinkedBack(i)
      BY <1>5, <2>2 DEF TokenInv
    <3>2. consentTokenIds[i] \in DOMAIN tokenURIs
      BY <1>8, <3>1 DEF TokenInv, LinkedBack
    <3> QED BY <1>5, <1>6, <1>7, <1>8, <3>1, <3>2 DEF LinkedBack
  <2> QED BY <2>1, <2>2
<1>13. ASSUME NEW u \in DOMAIN tokenConsentIds'
       PROVE  tokenConsentIds'[u] \in DOMAIN consentTokenIds' /\ consentTokenIds'[tokenConsentIds'[u]] = u
  BY <1>5, <1>6 DEF TokenInv
<1> QED BY <1>3, <1>9, <1>10, <1>11, <1>12, <1>13 DEF TokenInv

\* A burn takes both links of one receipt.
LEMMA TokenInvBurn ==
  ASSUME TokenInv, NEW id \in ConsentId, burnConsentReceipt(id)
  PROVE  TokenInv'
<1> DEFINE t == consentTokenIds[id]
<1>1. /\ id \in DOMAIN consentTokenIds
      /\ consentTokenIds' = Delete(consentTokenIds, id)
      /\ tokenConsentIds' = Delete(tokenConsentIds, t)
      /\ consentURIs' = Delete(consentURIs, id)
      /\ UNCHANGED <<nextTokenId, totalMinted, tokenURIs, balance, minted>>
  BY DEF burnConsentReceipt
<1>2. t \in DOMAIN tokenConsentIds /\ tokenConsentIds[t] = id
  BY <1>1 DEF TokenInv, LinkedBack
<1>3. DOMAIN consentURIs = DOMAIN consentTokenIds
  BY DEF TokenInv, TokenTypeOK
<1>4. /\ DOMAIN consentTokenIds' = DOMAIN consentTokenIds \ {id}
      /\ \A i \in DOMAIN consentTokenIds' : consentTokenIds'[i] = consentTokenIds[i]
      /\ DOMAIN consentURIs' = DOMAIN consentTokenIds'
      /\ \A i \in DOMAIN consentURIs' : consentURIs'[i] = consentURIs[i]
  BY <1>1, <1>3 DEF Delete
<1> HIDE DEF t
<1>5. /\ DOMAIN tokenConsentIds' = DOMAIN tokenConsentIds \ {t}
      /\ \A u \in DOMAIN tokenConsentIds' : tokenConsentIds'[u] = tokenConsentIds[u]
  BY <1>1 DEF Delete
<1>6. TokenTypeOK'
  BY <1>1, <1>4, <1>5 DEF TokenInv, TokenTypeOK, Delete
<1>7. \A i \in DOMAIN consentTokenIds' : LinkedBack(i)'
  BY <1>1, <1>2, <1>4, <1>5 DEF TokenInv, LinkedBack
<1>8. ASSUME NEW u \in DOMAIN tokenConsentIds'
      PROVE  tokenConsentIds'[u] \in DOMAIN consentTokenIds' /\ consentTokenIds'[tokenConsentIds'[u]] = u
  BY <1>1, <1>2, <1>4, <1>5 DEF TokenInv, t
<1> QED BY <1>1, <1>5, <1>6, <1>7, <1>8 DEF TokenInv

\* A transfer of the inherited ledger changes balances only.
LEMMA TokenInvTransfer ==
  ASSUME TokenInv, NEW from \in Account, NEW to \in Account, NEW t \in Token, Transfer(from, to, t)
  PROVE  TokenInv'
<1>1. balance' \in [Account -> [Token -> Nat]]
  <2>1. balance \in [Account -> [Token -> Nat]] /\ balance[from][t] >= 1
    BY DEF Transfer, TokenInv, TokenTypeOK
  <2> DEFINE taken == [balance EXCEPT ![from][t] = @ - 1]
  <2>2. taken \in [Account -> [Token -> Nat]]
    <3>1. balance[from] \in [Token -> Nat] /\ balance[from][t] - 1 \in Nat
      BY <2>1
    <3>2. [balance[from] EXCEPT ![t] = @ - 1] \in [Token -> Nat]
      BY <3>1
    <3> QED BY <2>1, <3>2
  <2>3. balance' = [taken EXCEPT ![to][t] = @ + 1]
    BY DEF Transfer
  <2> HIDE DEF taken
  <2>4. [taken[to] EXCEPT ![t] = @ + 1] \in [Token -> Nat]
    BY <2>2
  <2> QED BY <2>2, <2>3, <2>4
<1> QED BY <1>1 DEF Transfer, TokenInv, TokenTypeOK, LinkedBack

LEMMA TokenInvNext == TokenInv /\ [TokenNext]_tokenVars => TokenInv'
<1> SUFFICES ASSUME TokenInv, [TokenNext]_tokenVars PROVE TokenInv'
  OBVIOUS
<1>1. CASE TokenNext
  BY <1>1, TokenInvMint, TokenInvBurn, TokenInvTransfer DEF TokenNext, Mint
<1>2. CASE UNCHANGED tokenVars
  BY <1>2 DEF tokenVars, TokenInv, TokenTypeOK, LinkedBack
<1> QED BY <1>1, <1>2

\* Whatever anyone mints and burns, the receipt of a consent and the consent of
\* a receipt find each other (ConsentToken.sol).
THEOREM ReceiptLinks == TokenSpec => []LinksInverse
BY TokenInvInit, TokenInvNext, TokenInvLinks, PTL DEF TokenSpec

\* Each entry of a party array is one unit for somebody.
LEMMA OccurrencesSum ==
  ASSUME NEW parties \in PartyList
  PROVE  SumFunctionOnSet([a \in Account |-> Occurrences(parties, a)], Account) = Len(parties)
<1> DEFINE Places(n, a) == {i \in 1..n : parties[i] = a}
           units(n) == [a \in Account |-> Cardinality(Places(n, a))]
           Sum(n) == SumFunctionOnSet(units(n), Account)
           B == {n \in 0..Len(parties) : Sum(n) = n}
<1>1. /\ Len(parties) \in Nat /\ DOMAIN parties = 1..Len(parties) /\ IsFiniteSet(Account)
      /\ \A i \in 1..Len(parties) : parties[i] \in Account
  BY TokenAssumption
<1>2. ASSUME NEW n \in Nat, NEW a
      PROVE  IsFiniteSet(Places(n, a)) /\ Cardinality(Places(n, a)) \in Nat
  <2>1. IsFiniteSet(1..n)
    BY FS_Interval
  <2>2. IsFiniteSet(Places(n, a))
    BY <2>1, FS_Subset
  <2> QED BY <2>2, FS_CardinalityType
<1>3. Sum(0) = 0
  <2>1. \A a \in Account : units(0)[a] = 0
    <3>1. \A a : Places(0, a) = {}
      OBVIOUS
    <3> QED BY <3>1, FS_EmptySet
  <2> HIDE DEF units
  <2> QED BY <1>1, <2>1, SumOfZeros
<1>4. ASSUME NEW n \in 0..Len(parties), n # Len(parties), Sum(n) = n
      PROVE  Sum(n + 1) = n + 1
  <2>1. n \in Nat /\ n + 1 \in 1..Len(parties)
    <3>1. n # Len(parties)
      BY <1>4
    <3>2. Len(parties) \in Nat
      BY <1>1
    <3> HIDE DEF Places, units, Sum, B
    <3> QED BY <3>1, <3>2
  <2> DEFINE b == parties[n + 1]
             one == [a \in Account |-> IF a = b THEN 1 ELSE 0]
  <2>2. b \in Account
    BY <1>1, <2>1
  <2>3. ASSUME NEW a \in Account
        PROVE  units(n)[a] \in Nat /\ one[a] \in Nat /\ units(n + 1)[a] = units(n)[a] + one[a]
    <3>1. n + 1 \notin Places(n, a)
      BY <2>1
    <3>2. Places(n + 1, a) = IF a = b THEN Places(n, a) \cup {n + 1} ELSE Places(n, a)
      BY <2>1
    <3>3. IsFiniteSet(Places(n, a)) /\ Cardinality(Places(n, a)) \in Nat
      BY <1>2, <2>1
    <3> HIDE DEF Places, b
    <3>4. Cardinality(Places(n, a) \cup {n + 1}) = Cardinality(Places(n, a)) + 1
      BY <3>1, <3>3, FS_AddElement
    <3>5. units(n)[a] = Cardinality(Places(n, a)) /\ units(n + 1)[a] = Cardinality(Places(n + 1, a))
      OBVIOUS
    <3>6. one[a] = IF a = b THEN 1 ELSE 0
      OBVIOUS
    <3> QED BY <3>2, <3>3, <3>4, <3>5, <3>6
  <2>4. SumFunctionOnSet(one, Account) = 1
    BY <1>1, <2>2, SumOfOne
  <2> HIDE DEF units, one
  <2>5. Sum(n + 1) = Sum(n) + SumFunctionOnSet(one, Account)
    BY <1>1, <2>3, SumOfSums
  <2> QED BY <1>4, <2>4, <2>5
<1>5. Sum(Len(parties)) = Len(parties)
  <2> HIDE DEF Sum
  <2>1. 0 \in B
    BY <1>1, <1>3
  <2>2. ASSUME NEW n \in 0..Len(parties), n # Len(parties), n \in B PROVE n + 1 \in B
    <3>1. n + 1 \in 0..Len(parties)
      <4>1. n # Len(parties)
        BY <2>2
      <4>2. Len(parties) \in Nat
        BY <1>1
      <4> HIDE DEF B, Places, units
      <4> QED BY <4>1, <4>2
    <3>2. Sum(n) = n
      BY <2>2
    <3>3. Sum(n + 1) = n + 1
      BY <1>4, <2>2, <3>2
    <3> QED BY <3>1, <3>3
  <2>3. 0..Len(parties) \subseteq B
    <3> HIDE DEF B
    <3> QED BY <1>1, <2>1, <2>2, UpTo
  <2> QED BY <1>1, <2>3
<1>6. units(Len(parties)) = [a \in Account |-> Occurrences(parties, a)]
  BY <1>1 DEF Occurrences
<1> QED BY <1>5, <1>6

\* The holdings of a token add up to its mint.
SuppliesExact ==
  \A t \in Token : Supply(t) = IF t \in DOMAIN minted THEN Len(minted[t].parties) ELSE 0

\* A supply is the sum of the holdings, before and after a step.
LEMMA Supplies ==
  ASSUME NEW t
  PROVE  /\ Supply(t) = SumFunctionOnSet([a \in Account |-> balance[a][t]], Account)
         /\ Supply(t)' = SumFunctionOnSet([a \in Account |-> balance'[a][t]], Account)
BY DEF Supply, SumFunction

\* Nobody holds anything before the first mint.
LEMMA SuppliesInit == TokenInit => SuppliesExact
<1> SUFFICES ASSUME TokenInit, NEW t \in Token
             PROVE  Supply(t) = IF t \in DOMAIN minted THEN Len(minted[t].parties) ELSE 0
  BY DEF SuppliesExact
<1> DEFINE holding == [a \in Account |-> balance[a][t]]
<1>1. \A a \in Account : holding[a] = 0
  BY DEF TokenInit
<1>2. DOMAIN minted = {}
  BY DEF TokenInit
<1>3. Supply(t) = SumFunctionOnSet(holding, Account)
  BY Supplies
<1> HIDE DEF holding
<1>4. Supply(t) = 0
  BY <1>1, <1>3, SumOfZeros, TokenAssumption
<1> QED BY <1>2, <1>4

\* A mint gives out the units of its party array under an id that nobody held.
LEMMA SuppliesMint ==
  ASSUME TokenInv, SuppliesExact, NEW parties \in PartyList, NEW id \in ConsentId, NEW uri \in Uri,
         mintConsentReceipt(parties, id, uri)
  PROVE  SuppliesExact'
<1>1. /\ balance' = [a \in Account |-> [balance[a] EXCEPT ![nextTokenId] = @ + Occurrences(parties, a)]]
      /\ minted' = Put(minted, nextTokenId, [consent |-> id, parties |-> parties])
  BY DEF mintConsentReceipt, MintAs
<1>2. balance \in [Account -> [Token -> Nat]] /\ nextTokenId \notin DOMAIN minted /\ IsFiniteSet(Account)
  BY TokenAssumption DEF TokenInv, TokenTypeOK
<1> SUFFICES ASSUME NEW t \in Token
             PROVE  Supply(t)' = IF t \in DOMAIN minted' THEN Len(minted'[t].parties) ELSE 0
  BY DEF SuppliesExact
<1> DEFINE before == [a \in Account |-> balance[a][t]]
           after == [a \in Account |-> balance'[a][t]]
           given == [a \in Account |-> Occurrences(parties, a)]
<1>3. Supply(t) = SumFunctionOnSet(before, Account) /\ Supply(t)' = SumFunctionOnSet(after, Account)
  BY Supplies
<1>4. Supply(t) = IF t \in DOMAIN minted THEN Len(minted[t].parties) ELSE 0
  BY DEF SuppliesExact
<1>5. CASE t = nextTokenId
  <2>1. Supply(t) = 0
    BY <1>2, <1>4, <1>5
  <2>2. ASSUME NEW a \in Account
        PROVE  before[a] \in Nat /\ given[a] \in Nat /\ after[a] = before[a] + given[a]
    <3>1. Occurrences(parties, a) \in Nat
      BY OccurrencesNat
    <3> QED BY <1>1, <1>2, <1>5, <3>1
  <2>3. SumFunctionOnSet(given, Account) = Len(parties)
    BY OccurrencesSum
  <2>4. t \in DOMAIN minted' /\ minted'[t].parties = parties
    BY <1>1, <1>5 DEF Put
  <2> HIDE DEF before, after, given
  <2>5. SumFunctionOnSet(after, Account) = SumFunctionOnSet(before, Account) + SumFunctionOnSet(given, Account)
    BY <1>2, <2>2, SumOfSums
  <2>6. Len(parties) \in Nat
    BY TokenAssumption
  <2>7. Supply(t)' = 0 + Len(parties)
    BY <1>3, <2>1, <2>3, <2>5
  <2>8. 0 + Len(parties) = Len(parties)
    BY <2>6
  <2> QED BY <2>4, <2>7, <2>8
<1>6. CASE t # nextTokenId
  <2>1. after = before
    BY <1>1, <1>2, <1>6
  <2>2. (t \in DOMAIN minted' <=> t \in DOMAIN minted) /\ (t \in DOMAIN minted => minted'[t] = minted[t])
    BY <1>1, <1>6 DEF Put
  <2> HIDE DEF before, after
  <2> QED BY <1>3, <1>4, <2>1, <2>2
<1> QED BY <1>5, <1>6

\* A transfer moves one unit, from an account to another or to itself.
LEMMA SuppliesTransfer ==
  ASSUME TokenInv, SuppliesExact, NEW from \in Account, NEW to \in Account, NEW u \in Token,
         Transfer(from, to, u)
  PROVE  SuppliesExact'
<1>1. /\ balance[from][u] >= 1
      /\ balance' = [[balance EXCEPT ![from][u] = @ - 1] EXCEPT ![to][u] = @ + 1]
      /\ minted' = minted
  BY DEF Transfer
<1>2. balance \in [Account -> [Token -> Nat]] /\ IsFiniteSet(Account)
  BY TokenAssumption DEF TokenInv, TokenTypeOK
<1> SUFFICES ASSUME NEW t \in Token PROVE Supply(t)' = Supply(t)
  BY <1>1 DEF SuppliesExact
<1> DEFINE before == [a \in Account |-> balance[a][t]]
           after == [a \in Account |-> balance'[a][t]]
           rest == [a \in Account |-> IF a = from THEN balance[a][t] - 1 ELSE balance[a][t]]
           sent == [a \in Account |-> IF a = from THEN 1 ELSE 0]
           received == [a \in Account |-> IF a = to THEN 1 ELSE 0]
<1>3. Supply(t) = SumFunctionOnSet(before, Account) /\ Supply(t)' = SumFunctionOnSet(after, Account)
  BY Supplies
<1>4. CASE t = u
  <2>1. ASSUME NEW a \in Account
        PROVE  /\ rest[a] \in Nat /\ sent[a] \in Nat /\ received[a] \in Nat
               /\ before[a] = rest[a] + sent[a]
               /\ after[a] = rest[a] + received[a]
    <3>1. balance[a][t] \in Nat /\ (a = from => balance[a][t] >= 1)
      BY <1>1, <1>2, <1>4
    <3>2. /\ rest[a] = IF a = from THEN balance[a][t] - 1 ELSE balance[a][t]
          /\ sent[a] = IF a = from THEN 1 ELSE 0
          /\ received[a] = IF a = to THEN 1 ELSE 0
          /\ before[a] = balance[a][t] /\ after[a] = balance'[a][t]
      OBVIOUS
    <3>3. balance'[a][t] = IF a = to THEN rest[a] + 1 ELSE rest[a]
      BY <1>1, <1>2, <1>4
    <3> HIDE DEF rest, sent, received, before, after
    <3> QED BY <3>1, <3>2, <3>3
  <2>2. SumFunctionOnSet(sent, Account) = 1 /\ SumFunctionOnSet(received, Account) = 1
    BY <1>2, SumOfOne
  <2> HIDE DEF rest, sent, received, before, after
  <2>3. SumFunctionOnSet(before, Account) = SumFunctionOnSet(rest, Account) + SumFunctionOnSet(sent, Account)
    BY <1>2, <2>1, SumOfSums
  <2>4. SumFunctionOnSet(after, Account) = SumFunctionOnSet(rest, Account) + SumFunctionOnSet(received, Account)
    BY <1>2, <2>1, SumOfSums
  <2> QED BY <1>3, <2>2, <2>3, <2>4
<1>5. CASE t # u
  <2>1. after = before
    BY <1>1, <1>2, <1>5
  <2> HIDE DEF before, after
  <2> QED BY <1>3, <2>1
<1> QED BY <1>4, <1>5

LEMMA SuppliesNext == TokenInv /\ SuppliesExact /\ [TokenNext]_tokenVars => SuppliesExact'
<1> SUFFICES ASSUME TokenInv, SuppliesExact, [TokenNext]_tokenVars PROVE SuppliesExact'
  OBVIOUS
<1>1. CASE Mint
  BY <1>1, SuppliesMint DEF Mint
<1>2. CASE \E from, to \in Account : \E t \in Token : Transfer(from, to, t)
  BY <1>2, SuppliesTransfer
<1>3. CASE UNCHANGED <<balance, minted>>
  BY <1>3 DEF SuppliesExact, Supply
<1> QED BY <1>1, <1>2, <1>3 DEF TokenNext, burnConsentReceipt, tokenVars

\* For any accounts and party arrays the supply of a token is for ever that of
\* its only mint, whatever is minted, burned and transferred (ConsentToken.sol
\* over the ERC1155 ledger).
THEOREM SupplyExact == TokenSpec => []SupplyOfMint
<1>1. TokenInv /\ SuppliesExact => SupplyOfMint
  BY DEF TokenInv, SuppliesExact, SupplyOfMint
<1> QED BY <1>1, TokenInvInit, TokenInvNext, SuppliesInit, SuppliesNext, PTL DEF TokenSpec

-----------------------------------------------------------------------------
(* ConsentVerifier *)

\* The hashes of what a caller can submit.
Hash == {proofHash(id, tag, proof, inputs) :
           id \in Subject, tag \in Tag, proof \in Words, inputs \in Words}

VerifierInv ==
  /\ accepted \in Seq(Hash)
  /\ consentProofs \in [Subject -> Seq(Hash)]
  /\ ProofsAcceptedOnce

\* An empty array lists nothing, and nothing twice.
LEMMA EmptyArray == \A S : << >> \in Seq(S) /\ Range(<< >>) = {} /\ IsInjective(<< >>)
BY DEF Range, IsInjective

LEMMA VerifierInvInit == VerifierInit => VerifierInv
<1> SUFFICES ASSUME VerifierInit PROVE VerifierInv
  OBVIOUS
<1> QED BY EmptyArray DEF VerifierInit, VerifierInv, ProofsAcceptedOnce

\* A call with a new hash (verifyConsentAgeProof and its copies).
LEMMA VerifierInvCall ==
  ASSUME VerifierInv, NEW id \in Subject, NEW tag \in Tag, NEW proof \in Words, NEW inputs \in Words,
         verifyProof(id, tag, proof, inputs)
  PROVE  VerifierInv'
<1> DEFINE hash == proofHash(id, tag, proof, inputs)
<1>1. hash \in Hash /\ hash[1] = id
  <2>1. hash \in Hash
    BY DEF Hash
  <2> QED BY <2>1 DEF proofHash
<1>2. /\ hash \notin usedProofHashes
      /\ usedProofHashes' = usedProofHashes \cup {hash}
      /\ consentProofs' = [consentProofs EXCEPT ![id] = Append(@, hash)]
      /\ accepted' = Append(accepted, hash)
  BY DEF verifyProof, AcceptProof
<1> HIDE DEF hash
<1>3. /\ accepted' \in Seq(Hash) /\ IsInjective(accepted')
      /\ Range(accepted') = usedProofHashes'
  BY <1>1, <1>2, AppendFresh DEF VerifierInv, ProofsAcceptedOnce
<1>4. ASSUME NEW i \in Subject
      PROVE  /\ consentProofs'[i] \in Seq(Hash) /\ IsInjective(consentProofs'[i])
             /\ Range(consentProofs'[i]) = {h \in usedProofHashes' : h[1] = i}
  <2>1. /\ consentProofs[i] \in Seq(Hash) /\ IsInjective(consentProofs[i])
        /\ Range(consentProofs[i]) = {h \in usedProofHashes : h[1] = i}
    BY DEF VerifierInv, ProofsAcceptedOnce
  <2>2. CASE i = id
    <3>1. consentProofs'[i] = Append(consentProofs[i], hash)
      BY <1>2, <2>2 DEF VerifierInv
    <3>2. hash \notin Range(consentProofs[i])
      BY <1>2, <2>1
    <3>3. /\ consentProofs'[i] \in Seq(Hash) /\ IsInjective(consentProofs'[i])
          /\ Range(consentProofs'[i]) = Range(consentProofs[i]) \cup {hash}
      BY <1>1, <2>1, <3>1, <3>2, AppendFresh
    <3> QED BY <1>1, <1>2, <2>1, <2>2, <3>3
  <2>3. CASE i # id
    <3>1. consentProofs'[i] = consentProofs[i]
      BY <1>2, <2>3 DEF VerifierInv
    <3> QED BY <1>1, <1>2, <2>1, <2>3, <3>1
  <2> QED BY <2>2, <2>3
<1>5. consentProofs' \in [Subject -> Seq(Hash)]
  BY <1>2, <1>4 DEF VerifierInv
<1> QED BY <1>3, <1>4, <1>5 DEF VerifierInv, ProofsAcceptedOnce

LEMMA VerifierInvNext == VerifierInv /\ [VerifierNext]_verifierVars => VerifierInv'
<1> SUFFICES ASSUME VerifierInv, [VerifierNext]_verifierVars PROVE VerifierInv'
  OBVIOUS
<1>1. CASE VerifierNext
  BY <1>1, VerifierInvCall DEF VerifierNext
<1>2. CASE UNCHANGED verifierVars
  BY <1>2 DEF verifierVars, VerifierInv, ProofsAcceptedOnce
<1> QED BY <1>1, <1>2

\* However the three functions are called, no packed hash is accepted twice and
\* the list of each consent is exact (ConsentVerifier.sol).
THEOREM AcceptedOnce == VerifierSpec => []ProofsAcceptedOnce
<1>1. VerifierInv => ProofsAcceptedOnce
  BY DEF VerifierInv
<1> QED BY <1>1, VerifierInvInit, VerifierInvNext, PTL DEF VerifierSpec
-----------------------------------------------------------------------------
(* ConsentFactory *)

\* Each used salt has its clone, at the address the salt determines, and the
\* list, the set and the map hold just these clones.
FactoryInv ==
  /\ deployedConsents \in Seq(Clone) /\ IsInjective(deployedConsents)
  /\ Range(deployedConsents) = hasCode
  /\ isDeployedByFactory = hasCode
  /\ saltUsed \subseteq Salt
  /\ saltToAddress = [salt \in saltUsed |-> create2(salt, creationCode)]
  /\ hasCode = {create2(salt, creationCode) : salt \in saltUsed}
  /\ DOMAIN recorded = Contract
  /\ \A c \in Clone : recorded[c] # {} => c \in hasCode

\* The four structures of the factory follow from it.
LEMMA FactoryInvBooks == FactoryInv => FactoryBooksExact
<1> SUFFICES ASSUME FactoryInv PROVE FactoryBooksExact
  OBVIOUS
<1>1. DOMAIN saltToAddress = saltUsed
  BY DEF FactoryInv
<1>2. IsInjective(saltToAddress)
  BY DEF FactoryInv, IsInjective, create2
<1>3. Range(saltToAddress) = hasCode
  BY DEF FactoryInv, Range
<1> QED BY <1>1, <1>2, <1>3 DEF FactoryInv, FactoryBooksExact

LEMMA FactoryInvInit == FactoryInit => FactoryInv
<1> SUFFICES ASSUME FactoryInit PROVE FactoryInv
  OBVIOUS
<1>1. saltToAddress = [salt \in saltUsed |-> create2(salt, creationCode)]
  BY DEF FactoryInit
<1> QED BY <1>1, EmptyArray DEF FactoryInit, FactoryInv, Contract

\* A deployment that does not revert (deployConsentContract): the clone is new
\* because its salt is.
LEMMA FactoryInvDeploy ==
  ASSUME FactoryInv, NEW salt \in Salt, NEW init, deployConsentContract(salt, init)
  PROVE  FactoryInv'
<1> DEFINE address == create2(salt, creationCode)
<1>1. /\ salt \notin saltUsed /\ saltUsed' = saltUsed \cup {salt}
      /\ address \notin hasCode /\ hasCode' = hasCode \cup {address}
      /\ isDeployedByFactory' = isDeployedByFactory \cup {address}
      /\ deployedConsents' = Append(deployedConsents, address)
      /\ saltToAddress' = [s \in saltUsed \cup {salt} |-> IF s = salt THEN address ELSE saltToAddress[s]]
  BY DEF deployConsentContract, Enter
<1>2. address \in Clone
  BY DEF Clone
<1>3. /\ deployedConsents' \in Seq(Clone) /\ IsInjective(deployedConsents')
      /\ Range(deployedConsents') = hasCode'
  <2> HIDE DEF address
  <2> QED BY <1>1, <1>2, AppendFresh DEF FactoryInv
<1>4. saltToAddress' = [s \in saltUsed' |-> create2(s, creationCode)]
  BY <1>1 DEF FactoryInv
<1>5. hasCode' = {create2(s, creationCode) : s \in saltUsed'}
  BY <1>1 DEF FactoryInv
<1>6. DOMAIN recorded' = Contract /\ \A c \in Clone : recorded'[c] # {} => c \in hasCode'
  <2>1. CASE UNCHANGED recorded
    BY <1>1, <2>1 DEF FactoryInv
  <2>2. CASE \E a \in init : RegisterAt(address, a)
    BY <1>1, <2>2 DEF FactoryInv, RegisterAt, Contract
  <2> QED BY <2>1, <2>2 DEF deployConsentContract, Initialize
<1> QED BY <1>1, <1>3, <1>4, <1>5, <1>6 DEF FactoryInv

\* A registration in a clone or in the implementation, which is no clone.
LEMMA FactoryInvRegister ==
  ASSUME FactoryInv, NEW contract \in Contract, NEW a, RegisterIn(contract, a)
  PROVE  FactoryInv'
<1>1. UNCHANGED factoryBooks
  BY DEF RegisterIn
<1>2. DOMAIN recorded' = Contract /\ \A c \in Clone : recorded'[c] # {} => c \in hasCode'
  BY <1>1, ImplementationAssumption
  DEF RegisterIn, RegisterAt, FactoryInv, factoryBooks, Contract
<1> QED BY <1>1, <1>2 DEF FactoryInv, factoryBooks

LEMMA FactoryInvNext == FactoryInv /\ [FactoryNext]_factoryVars => FactoryInv'
<1> SUFFICES ASSUME FactoryInv, [FactoryNext]_factoryVars PROVE FactoryInv'
  OBVIOUS
<1>1. CASE FactoryNext
  BY <1>1, FactoryInvDeploy, FactoryInvRegister DEF FactoryNext
<1>2. CASE UNCHANGED factoryVars
  BY <1>2 DEF factoryVars, factoryBooks, FactoryInv
<1> QED BY <1>1, <1>2

\* Whatever salts, initializers and registrations come in, the factory's list,
\* set and map agree with each other and with the clones that exist, and no
\* deployment that failed leaves records behind (ConsentFactory.sol).
THEOREM BooksExact == FactorySpec => []FactoryBooksExact
BY FactoryInvInit, FactoryInvNext, FactoryInvBooks, PTL DEF FactorySpec
=============================================================================
