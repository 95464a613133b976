---------------------------- MODULE ConsentToken ----------------------------
(***************************************************************************)
(* Receipt tokens (src/contracts/ConsentToken.sol): a mint gives one unit  *)
(* of a new token id to every listed party, a burn unlinks the token from  *)
(* its consent.  The ERC1155 ledger it inherits is external: balances per  *)
(* account and token, and transfers between accounts.                      *)
(*                                                                         *)
(* consentTokenIds and consentHasToken are written together, as are the    *)
(* deletes: the domain of consentTokenIds is the set of consents that have *)
(* a token, and likewise for tokenConsentIds.                              *)
(***************************************************************************)
EXTENDS Naturals, Sequences, FiniteSets, Functions

CONSTANTS
  Account,    \* externally owned accounts
  ConsentId,  \* ids a caller may name: the contract never asks the registry
  ZeroId,     \* bytes32(0), also a legal argument
  Uri,
  PartyList,  \* party arrays a caller may pass
  MaxTokens   \* bound: number of mints

ASSUME TokenAssumption ==
  /\ ZeroId \in ConsentId
  /\ IsFiniteSet(Account)
  /\ PartyList \subseteq Seq(Account)
  /\ MaxTokens \in Nat

Token == 1..MaxTokens

VARIABLES
  nextTokenId, totalMinted,
  consentTokenIds,  \* consent -> token
  tokenConsentIds,  \* token -> consent
  consentURIs,      \* consent -> URI
  tokenURIs,        \* ERC1155URIStorage: token -> URI, kept after a burn
  balance,          \* ERC1155: account -> token -> units
  minted            \* history: token -> [consent, parties] of its mint

tokenVars == <<nextTokenId, totalMinted, consentTokenIds, tokenConsentIds, consentURIs,
               tokenURIs, balance, minted>>

Put(f, x, v) == [y \in DOMAIN f \cup {x} |-> IF y = x THEN v ELSE f[y]]
Delete(f, x) == [y \in DOMAIN f \ {x} |-> f[y]]

Occurrences(parties, a) == Cardinality({i \in DOMAIN parties : parties[i] = a})

-----------------------------------------------------------------------------
TokenInit ==
  /\ nextTokenId = 1
  /\ totalMinted = 0
  /\ consentTokenIds = << >>
  /\ tokenConsentIds = << >>
  /\ consentURIs = << >>
  /\ tokenURIs = << >>
  /\ balance = [a \in Account |-> [t \in Token |-> 0]]
  /\ minted = << >>

\* The writes of a mint under a given token id: one unit for each entry of the
\* party array, so a party listed twice gets two.
MintAs(tokenId, parties, id, uri) ==
  /\ Len(parties) # 0
  /\ id \notin DOMAIN consentTokenIds
  /\ nextTokenId <= MaxTokens
  /\ nextTokenId' = nextTokenId + 1
  /\ totalMinted' = totalMinted + 1
  /\ consentTokenIds' = Put(consentTokenIds, id, tokenId)
  /\ tokenConsentIds' = Put(tokenConsentIds, tokenId, id)
  /\ consentURIs' = Put(consentURIs, id, uri)
  /\ tokenURIs' = Put(tokenURIs, tokenId, uri)
  /\ balance' = [a \in Account |->
                   [balance[a] EXCEPT ![tokenId] = @ + Occurrences(parties, a)]]
  /\ minted' = Put(minted, tokenId, [consent |-> id, parties |-> parties])

\* Seeded fault: the token id is derived from the number of live receipts.
FaultMintReusesId(parties, id, uri) ==
  MintAs(Cardinality(DOMAIN consentTokenIds) + 1, parties, id, uri)

\* Anyone may mint, for any consent id, registered or not.
mintConsentReceipt(parties, id, uri) == MintAs(nextTokenId, parties, id, uri)

\* Seeded fault: the reverse link of the burned token is kept.
FaultBurnKeepsLink(id) ==
  /\ id \in DOMAIN consentTokenIds
  /\ consentTokenIds' = Delete(consentTokenIds, id)
  /\ consentURIs' = Delete(consentURIs, id)
  /\ UNCHANGED <<nextTokenId, totalMinted, tokenConsentIds, tokenURIs, balance, minted>>

\* Anyone may burn.  The call _burn(address(this), tokenId, 0) takes zero units
\* from the contract's own account, so no balance changes; the token URI stays.
burnConsentReceipt(id) ==
  /\ id \in DOMAIN consentTokenIds
  /\ consentTokenIds' = Delete(consentTokenIds, id)
  /\ tokenConsentIds' = Delete(tokenConsentIds, consentTokenIds[id])
  /\ consentURIs' = Delete(consentURIs, id)
  /\ UNCHANGED <<nextTokenId, totalMinted, tokenURIs, balance, minted>>

\* ERC1155.safeTransferFrom, which the contract does not restrict (external).
Transfer(from, to, t) ==
  /\ balance[from][t] >= 1
  /\ balance' = [[balance EXCEPT ![from][t] = @ - 1] EXCEPT ![to][t] = @ + 1]
  /\ UNCHANGED <<nextTokenId, totalMinted, consentTokenIds, tokenConsentIds, consentURIs,
                 tokenURIs, minted>>

Mint == \E parties \in PartyList : \E id \in ConsentId : \E uri \in Uri :
          mintConsentReceipt(parties, id, uri)

TokenNext ==
  \/ Mint
  \/ \E id \in ConsentId : burnConsentReceipt(id)
  \/ \E from, to \in Account : \E t \in Token : Transfer(from, to, t)

TokenSpec == TokenInit /\ [][TokenNext]_tokenVars

-----------------------------------------------------------------------------
(* Views; a view that reverts returns Reverts. *)

Reverts == "reverts"

getConsentTokenId(id) == IF id \in DOMAIN consentTokenIds THEN consentTokenIds[id] ELSE Reverts

\* bytes32(0) doubles as "no token": a receipt of consent 0 is reported missing.
getTokenConsentId(t) ==
  IF t \in DOMAIN tokenConsentIds /\ tokenConsentIds[t] # ZeroId
  THEN tokenConsentIds[t] ELSE Reverts

-----------------------------------------------------------------------------
(* Properties *)

\* Every variable holds a value of its type.
TokenTypeOK ==
  /\ nextTokenId \in 1..(MaxTokens + 1)
  /\ totalMinted \in 0..MaxTokens
  /\ consentTokenIds \in [DOMAIN consentTokenIds -> Token] /\ DOMAIN consentTokenIds \subseteq ConsentId
  /\ tokenConsentIds \in [DOMAIN tokenConsentIds -> ConsentId] /\ DOMAIN tokenConsentIds \subseteq Token
  /\ consentURIs \in [DOMAIN consentTokenIds -> Uri]
  /\ tokenURIs \in [DOMAIN minted -> Uri]
  /\ balance \in [Account -> [Token -> Nat]]

\* The two mappings are inverse to each other through any sequence of mints,
\* burns and re-mints, so a receipt and its consent find each other; only the
\* receipt of consent 0 cannot be found from its token.
LinksInverse ==
  /\ \A id \in DOMAIN consentTokenIds :
       /\ consentTokenIds[id] \in DOMAIN tokenConsentIds
       /\ tokenConsentIds[consentTokenIds[id]] = id
       /\ id # ZeroId => getTokenConsentId(getConsentTokenId(id)) = id
       /\ tokenURIs[consentTokenIds[id]] = consentURIs[id]
  /\ \A t \in DOMAIN tokenConsentIds :
       /\ tokenConsentIds[t] \in DOMAIN consentTokenIds
       /\ consentTokenIds[tokenConsentIds[t]] = t

Supply(t) == SumFunction([a \in Account |-> balance[a][t]])

\* A token id is never used for a second receipt: its supply is for ever the
\* length of the party array it was minted for, ids not yet minted have no
\* holder, and the counters agree with the mints made.
SupplyOfMint ==
  /\ DOMAIN minted = 1..totalMinted
  /\ nextTokenId = totalMinted + 1
  /\ \A t \in Token : Supply(t) = IF t \in DOMAIN minted THEN Len(minted[t].parties) ELSE 0
=============================================================================
