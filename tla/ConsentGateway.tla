--------------------------- MODULE ConsentGateway ---------------------------
(***************************************************************************)
(* The HTTP API (backend/go-api): the consent handlers over the registry's *)
(* RPC endpoint, the Redis cache and the Qdrant index, while the registry  *)
(* changes and the event indexer writes the same cache.                    *)
(*                                                                         *)
(* Every request runs in a goroutine of its own.  A step is the code up to *)
(* and including one call of a service (a chain, Redis, Qdrant, the proof  *)
(* service), with what follows it up to the next call; RPC calls that      *)
(* follow each other and change nothing are one step.  A call fails at     *)
(* will if Failures names its service.                                     *)
(*                                                                         *)
(* A consent is its id and the end of its validity.  The handlers prepare  *)
(* transactions and send none, so the registry changes only by its own     *)
(* actions.                                                                *)
(***************************************************************************)
EXTENDS Naturals, Sequences

CONSTANTS
  Chain,        \* chains with a configured RPC endpoint
  Name,         \* what a request may write for a chain
  ChainOf,      \* name -> its chain; names that mean no chain are mapped outside Chain
  Listed,       \* chain -> the name under which the event indexer knows it
  Default,      \* the name GetConsent takes when a request has none
  Registry,     \* chain -> what is behind the configured registry address
  OnChainId,    \* ids the registries can hold
  NewId,        \* ids generateConsentID returns
  Request,      \* goroutines that serve requests
  Until,        \* ends of validity in the registries
  Duration,     \* durations in requests
  CreateTTL, FillTTL,  \* lifetime of a cache entry: 24 hours; 5 minutes after a read of the chain
  Failures,     \* services that may fail: "rpc", "redis", "qdrant", "zk"
  None,
  MaxTime,      \* bound: the clock
  MaxTxs,       \* bound: transactions of the registries
  MaxRequests   \* bound: requests accepted

ASSUME GatewayAssumption ==
  /\ Default \in Name /\ ChainOf[Default] \in Chain
  /\ \A ch \in Chain : Listed[ch] \in Name /\ ChainOf[Listed[ch]] = ch
  \* no address configured; no code at the address; a contract with the functions
  \* that contracts/client.go calls; the contract ConsentRegistry.sol
  /\ Registry \in [Chain -> {"unset", "empty", "fields", "struct"}]
  /\ Until \subseteq Nat /\ Duration \subseteq Nat \ {0}
  /\ CreateTTL \in Nat \ {0} /\ FillTTL \in Nat \ {0} /\ MaxTime \in Nat
  /\ MaxTxs \in Nat /\ MaxRequests \in Nat
  /\ OnChainId \cap NewId = {}
  /\ Failures \subseteq {"rpc", "redis", "qdrant", "zk"}
  \* None is not a cache entry, nor what is noted of a creation
  /\ None \notin [until : Nat, revoked : BOOLEAN, expires : Nat]
  /\ None \notin [name : Name, until : Nat, at : Nat, cached : BOOLEAN]

Id == OnChainId \cup NewId

VARIABLES
  now,       \* seconds, in the process and on the chains
  clients,   \* the clients main could connect: "redis", "qdrant"; a handler has nil for the others
  registry,  \* chain -> id -> what its registry holds
  events,    \* chain -> logs that the event indexer has yet to apply
  cache,     \* Redis: name and id -> entry, or None
  points,    \* Qdrant: the documents a search finds
  pending,   \* Qdrant: updates that it has acknowledged and not yet applied
  req,       \* the requests being served, or the last one answered 200
  born,      \* ids generated so far
  txs,       \* number of transactions of the registries
  received,  \* number of requests accepted
  held,      \* history: chain -> id -> ends of validity its registry has held
  acked,     \* history: new id -> the creation answered 201, or None
  dropped,   \* history: new ids whose entry was invalidated
  revoked    \* history: new ids revoked under the eyes of a search (see RevokeDrop)

env == <<registry, events, txs, held>>
qdrant == <<points, pending>>
history == <<acked, dropped, revoked>>
vars == <<now, clients, env, cache, qdrant, req, born, received, history>>

Absent == [status |-> "absent", until |-> 0]
Idle == [op |-> "none", pc |-> "done", name |-> Default, id |-> None, until |-> 0,
         flag |-> FALSE, at |-> 0, before |-> FALSE]

Init ==
  /\ now = 0
  /\ clients \in SUBSET {"redis", "qdrant"}
  /\ registry = [ch \in Chain |-> [c \in OnChainId |-> Absent]]
  /\ events = [ch \in Chain |-> << >>]
  /\ cache = [k \in Name \X Id |-> None]
  /\ points = {} /\ pending = << >>
  /\ req = [r \in Request |-> Idle]
  /\ born = {} /\ txs = 0 /\ received = 0
  /\ held = [ch \in Chain |-> [c \in OnChainId |-> {}]]
  /\ acked = [c \in NewId |-> None]
  /\ dropped = {}
  /\ revoked = {}

MayFail(service) == service \in Failures

-----------------------------------------------------------------------------
(* The surroundings: the clock, the registries, the event indexer.           *)

(* Redis drops an entry when its lifetime ends. *)
Tick ==
  /\ now < MaxTime
  /\ now' = now + 1
  /\ cache' = [k \in DOMAIN cache |->
                 IF cache[k] # None /\ cache[k].expires <= now + 1 THEN None ELSE cache[k]]
  /\ UNCHANGED <<clients, env, qdrant, req, born, received, history>>

\* The indexer's filter matches the logs of a "fields" registry only.
Emit(ch, event, c, u) ==
  events' = IF Registry[ch] = "fields"
            THEN [events EXCEPT ![ch] = Append(@, [event |-> event, id |-> c, until |-> u])]
            ELSE events

Transaction ==
  /\ txs < MaxTxs /\ txs' = txs + 1
  /\ UNCHANGED <<now, clients, cache, qdrant, req, born, received, history>>

Hold(ch, c, u) ==
  /\ registry' = [registry EXCEPT ![ch][c].status = IF @ = "absent" THEN "active" ELSE @,
                                  ![ch][c].until = u]
  /\ held' = [held EXCEPT ![ch][c] = @ \cup {u}]
  /\ Transaction

registerConsent(ch, c, u) ==
  /\ Registry[ch] \in {"fields", "struct"}
  /\ registry[ch][c] = Absent
  /\ Emit(ch, "ConsentRegistered", c, u)
  /\ Hold(ch, c, u)

updateConsent(ch, c, u) ==
  /\ registry[ch][c].status # "absent" /\ u # registry[ch][c].until
  /\ UNCHANGED events
  /\ Hold(ch, c, u)

revokeConsent(ch, c) ==
  /\ registry[ch][c].status = "active"
  /\ registry' = [registry EXCEPT ![ch][c].status = "revoked"]
  /\ Emit(ch, "ConsentRevoked", c, 0)
  /\ UNCHANGED held
  /\ Transaction

\* The cache key "consent:<chain as written>:<id>".
FaultKey(n, c) == <<Default, c>>

Key(n, c) == <<n, c>>

Entry(u, rev, ttl) == [until |-> u, revoked |-> rev, expires |-> now + ttl]

FaultCacheConsent(n, c, u, rev, ttl) == cache' = [cache EXCEPT ![Key(n, c)] = Entry(u, rev, 0)]

CacheConsent(n, c, u, rev, ttl) == cache' = [cache EXCEPT ![Key(n, c)] = Entry(u, rev, ttl)]

InvalidateConsent(n, c) == cache' = [cache EXCEPT ![Key(n, c)] = None]

(* The event indexer applies a log: the entry of a registration lives as      *)
(* long as that of a creation; no log tells it of an update.                  *)
IndexEvent(ch) ==
  /\ events[ch] # << >>
  /\ LET e == Head(events[ch]) IN
     \/ IF e.event = "ConsentRegistered"
        THEN CacheConsent(Listed[ch], e.id, e.until, FALSE, CreateTTL)
        ELSE InvalidateConsent(Listed[ch], e.id)
     \/ MayFail("redis") /\ UNCHANGED cache
  /\ events' = [events EXCEPT ![ch] = Tail(@)]
  /\ UNCHANGED <<now, clients, registry, txs, held, qdrant, req, born, received, history>>

-----------------------------------------------------------------------------
(* The clients.                                                              *)

IsChainSupported(n) == ChainOf[n] \in Chain

HasRegistryAddress(n) == Registry[ChainOf[n]] # "unset"

\* Outcomes: the client of the chain is dialled on first use, then the address is looked up.
getContractClient(n) ==
  (IF HasRegistryAddress(n) THEN {"ok"} ELSE {"error"})
  \cup (IF MayFail("rpc") THEN {"error"} ELSE {})

(* Outcomes of Client.RegisterConsent and Client.RevokeConsent.  Both prepare *)
(* a transaction and always end in an error: "requires external signing" is   *)
(* the one that the handlers take for success.                                *)
RegisterConsentTx == {"requires external signing"} \cup (IF MayFail("rpc") THEN {"error"} ELSE {})

RevokeConsentTx == {"requires external signing"} \cup (IF MayFail("rpc") THEN {"error"} ELSE {})

\* A bool of the ABI is the last byte of its word.
BoolWord(b) == [i \in 0..31 |-> IF b /\ i = 31 THEN 1 ELSE 0]

(* The answer to getConsent(bytes32), decoded.  Without code at the address  *)
(* the answer is empty.  data[128] is the first byte of the revoked word.    *)
(* ConsentRegistry.sol returns a struct, which the ABI puts behind an        *)
(* offset: the decoder takes the id's word for a length and an offset, and   *)
(* panics; gin.Recovery turns that into a 500.                               *)
decodeConsentData(kind, stored) ==
  CASE kind = "empty" -> [result |-> "not found"]
    [] kind = "struct" -> [result |-> "error"]
    [] kind = "fields" -> [result |-> "ok", until |-> stored.until,
                           revoked |-> BoolWord(stored.status = "revoked")[0] # 0]

Stored(n, c) == IF c \in OnChainId THEN registry[ChainOf[n]][c] ELSE Absent

\* Client.GetConsent; the registry reverts for an absent consent.
GetConsentOnChain(n, c) ==
  LET kind == Registry[ChainOf[n]] IN
  IF kind = "unset" \/ (kind # "empty" /\ Stored(n, c) = Absent)
  THEN [result |-> "error"]
  ELSE decodeConsentData(kind, Stored(n, c))

(* Client.VerifyConsentOnChain: it calls verifyConsent(bytes32), which        *)
(* ConsentRegistry.sol does not have.                                         *)
VerifyConsentOnChain(n, c) ==
  LET kind == Registry[ChainOf[n]] IN
  CASE kind \in {"unset", "struct"} -> [result |-> "error"]
    [] kind = "empty" -> [result |-> "ok", valid |-> FALSE, expires |-> 0]
    [] kind = "fields" -> [result |-> "ok", expires |-> Stored(n, c).until,
                           valid |-> Stored(n, c).status = "active" /\ now < Stored(n, c).until]

\* The entry, or None: the handlers treat a failed read as a miss.
GetCachedConsent(n, c) == {cache[Key(n, c)]} \cup (IF MayFail("redis") THEN {None} ELSE {})

(* The writes do not ask Qdrant to wait: it acknowledges them in the order in *)
(* which it will apply them, and applies them later.                          *)
ApplyUpdate ==
  /\ pending # << >> /\ pending' = Tail(pending)
  /\ LET u == Head(pending) IN
     points' = IF u.update = "upsert" THEN points \cup {u.doc}
               ELSE {IF p.id = u.doc.id THEN [p EXCEPT !.revoked = u.doc.revoked] ELSE p : p \in points}
  /\ UNCHANGED <<now, clients, env, cache, req, born, received, history>>

\* Scroll by consent id: there is a point.
findByConsentID(c) == \E p \in points : p.id = c

-----------------------------------------------------------------------------
(* Requests.                                                                 *)

At(r, op, pc) == req[r].op = op /\ req[r].pc = pc

Go(r, pc) == req' = [req EXCEPT ![r].pc = pc]

Answer(r) == req' = [req EXCEPT ![r].pc = "done"]

\* An answer of which nothing is kept: an error (400, 404, 500), or a 201 (see acked).
End(r) == req' = [req EXCEPT ![r] = Idle]

\* A request is refused for its body or its chain: 400, before any call.
Refuse(r) ==
  /\ req[r].pc = "done" /\ End(r)
  /\ UNCHANGED <<now, clients, env, cache, qdrant, born, received, history>>

(* A request is accepted and served from pc on.  before (history): a search   *)
(* finds the consent; for the other operations, its registry has it revoked.  *)
Accept(r, op, pc, n, c, u) ==
  /\ req[r].pc = "done" /\ IsChainSupported(n)
  /\ received < MaxRequests /\ received' = received + 1
  /\ req' = [req EXCEPT ![r] = [op |-> op, pc |-> pc, name |-> n, id |-> c, until |-> u,
                               flag |-> FALSE, at |-> 0,
                               before |-> IF op = "revoke" THEN findByConsentID(c)
                                          ELSE Stored(n, c).status = "revoked"]]

\* Ids a client can know of: those on chain, those it was given, those a search shows.
Known == OnChainId \cup {c \in NewId : acked[c] # None} \cup {p.id : p \in points}

(* CreateConsent: the id and the duration first, the end of validity once    *)
(* the transaction is prepared.                                              *)
CreateConsent(r, n, d) ==
  /\ \E c \in NewId \ born :
       /\ Accept(r, "create", "register", n, c, d)
       /\ born' = born \cup {c}
  /\ UNCHANGED <<now, clients, env, cache, qdrant, history>>

CreateRegister(r) ==
  /\ At(r, "create", "register")
  /\ \E got \in getContractClient(req[r].name), tx \in RegisterConsentTx :
       IF "error" \in {got, tx} THEN End(r)
       ELSE req' = [req EXCEPT ![r].pc = "index", ![r].until = now + @]
  /\ UNCHANGED <<now, clients, env, cache, qdrant, born, received, history>>

Document(r) == [id |-> req[r].id, revoked |-> FALSE]

\* A new point, under an id of its own.
IndexConsent(doc) == pending' = Append(pending, [update |-> "upsert", doc |-> doc])

\* Qdrant fails: logged.  No client: nil pointer, 500.
CreateIndex(r) ==
  /\ At(r, "create", "index")
  /\ IF "qdrant" \notin clients
     THEN End(r) /\ UNCHANGED pending
     ELSE /\ Go(r, "cache")
          /\ \/ IndexConsent(Document(r))
             \/ MayFail("qdrant") /\ UNCHANGED pending
  /\ UNCHANGED <<now, clients, env, cache, points, born, received, history>>

FaultCreateCache(r) ==
  /\ At(r, "create", "cache")
  /\ \/ "redis" \notin clients /\ End(r) /\ UNCHANGED <<cache, acked>>
     \/ "redis" \in clients /\ End(r)
        /\ CacheConsent(req[r].name, req[r].id, req[r].until, FALSE, FillTTL)
        /\ acked' = [acked EXCEPT ![req[r].id] =
                       [name |-> req[r].name, until |-> req[r].until, at |-> now, cached |-> TRUE]]
  /\ UNCHANGED <<now, clients, env, qdrant, born, received, dropped, revoked>>

CreateCache(r) ==
  /\ At(r, "create", "cache")
  /\ IF "redis" \notin clients
     THEN End(r) /\ UNCHANGED <<cache, acked>>
     ELSE /\ End(r)
          /\ \E ok \in {TRUE} \cup (IF MayFail("redis") THEN {FALSE} ELSE {}) :
               /\ IF ok THEN CacheConsent(req[r].name, req[r].id, req[r].until, FALSE, CreateTTL)
                  ELSE UNCHANGED cache
               /\ acked' = [acked EXCEPT ![req[r].id] =
                              [name |-> req[r].name, until |-> req[r].until,
                               at |-> now, cached |-> ok]]
  /\ UNCHANGED <<now, clients, env, qdrant, born, received, dropped, revoked>>

(* GetConsent: the cache, then the chain, then the cache is filled.          *)
GetConsent(r, n, c) ==
  /\ Accept(r, "get", "lookup", n, c, 0)
  /\ UNCHANGED <<now, clients, env, cache, qdrant, born, history>>

GetLookup(r) ==
  /\ At(r, "get", "lookup")
  /\ IF "redis" \notin clients
     THEN End(r)
     ELSE \E cached \in GetCachedConsent(req[r].name, req[r].id) :
            IF cached # None
            THEN req' = [req EXCEPT ![r].pc = "done", ![r].until = cached.until, ![r].flag = cached.revoked]
            ELSE Go(r, "fetch")
  /\ UNCHANGED <<now, clients, env, cache, qdrant, born, received, history>>

GetFetch(r) ==
  LET data == GetConsentOnChain(req[r].name, req[r].id) IN
  /\ At(r, "get", "fetch")
  /\ \/ (data.result # "ok" \/ MayFail("rpc")) /\ End(r)
     \/ /\ data.result = "ok"
        /\ req' = [req EXCEPT ![r].pc = "fill", ![r].until = data.until, ![r].flag = data.revoked]
  /\ UNCHANGED <<now, clients, env, cache, qdrant, born, received, history>>

GetFill(r) ==
  /\ At(r, "get", "fill")
  /\ Answer(r)
  /\ \/ CacheConsent(req[r].name, req[r].id, req[r].until, req[r].flag, FillTTL)
     \/ MayFail("redis") /\ UNCHANGED cache
  /\ UNCHANGED <<now, clients, env, qdrant, born, received, history>>

(* VerifyConsent with a proof: the proof service's verdict is the answer; of *)
(* the chain only the end of validity is used, 0 if that call fails.         *)
VerifyConsentProof(r, n, c) ==
  /\ Accept(r, "verifyProof", "zk", n, c, 0)
  /\ UNCHANGED <<now, clients, env, cache, qdrant, born, history>>

verifyZKProof(r) ==
  /\ At(r, "verifyProof", "zk")
  /\ \/ MayFail("zk") /\ End(r)
     \/ \E verdict \in BOOLEAN : req' = [req EXCEPT ![r].pc = "expiry", ![r].flag = verdict]
  /\ UNCHANGED <<now, clients, env, cache, qdrant, born, received, history>>

VerifyProofExpiry(r) ==
  LET res == VerifyConsentOnChain(req[r].name, req[r].id) IN
  /\ At(r, "verifyProof", "expiry")
  /\ \/ "error" \in getContractClient(req[r].name) /\ End(r)
     \/ /\ "ok" \in getContractClient(req[r].name)
        /\ \E e \in (IF MayFail("rpc") THEN {0} ELSE {})
                    \cup {IF res.result = "ok" THEN res.expires ELSE 0} :
             req' = [req EXCEPT ![r] = [@ EXCEPT !.pc = "done", !.until = e]]
  /\ UNCHANGED <<now, clients, env, cache, qdrant, born, received, history>>

(* VerifyConsent without a proof: the registry's verdict, then the clock,    *)
(* then the cached revocation flag of a consent that is still valid.         *)
VerifyConsent(r, n, c) ==
  /\ Accept(r, "verify", "call", n, c, 0)
  /\ UNCHANGED <<now, clients, env, cache, qdrant, born, history>>

VerifyCall(r) ==
  LET res == VerifyConsentOnChain(req[r].name, req[r].id) IN
  /\ At(r, "verify", "call")
  /\ \/ (res.result # "ok" \/ MayFail("rpc")) /\ End(r)
     \/ /\ res.result = "ok"
        /\ req' = [req EXCEPT ![r].pc = "clock", ![r].until = res.expires, ![r].flag = res.valid]
  /\ UNCHANGED <<now, clients, env, cache, qdrant, born, received, history>>

FaultExpired(r) == FALSE

Expired(r) == now > req[r].until

\* at (history): the clock as it was read.
VerifyClock(r) ==
  LET valid == req[r].flag /\ ~Expired(r) IN
  /\ At(r, "verify", "clock")
  /\ req' = [req EXCEPT ![r].pc = IF valid THEN "check" ELSE "done",
                        ![r].flag = valid, ![r].at = now]
  /\ UNCHANGED <<now, clients, env, cache, qdrant, born, received, history>>

VerifyCheck(r) ==
  /\ At(r, "verify", "check")
  /\ IF "redis" \notin clients
     THEN End(r)
     ELSE \E cached \in GetCachedConsent(req[r].name, req[r].id) :
            req' = [req EXCEPT ![r].pc = "done", ![r].flag = ~(cached # None /\ cached.revoked)]
  /\ UNCHANGED <<now, clients, env, cache, qdrant, born, received, history>>

(* RevokeConsent: a transaction is prepared, the point is found and marked,  *)
(* the cache entry under the name in the request deleted.  flag: Qdrant      *)
(* failed in no call.                                                        *)
RevokeConsent(r, n, c) ==
  /\ Accept(r, "revoke", "prepare", n, c, 0)
  /\ UNCHANGED <<now, clients, env, cache, qdrant, born, history>>

RevokePrepare(r) ==
  /\ At(r, "revoke", "prepare")
  /\ \E got \in getContractClient(req[r].name), tx \in RevokeConsentTx :
       IF "error" \in {got, tx} THEN End(r) ELSE Go(r, "find")
  /\ UNCHANGED <<now, clients, env, cache, qdrant, born, received, history>>

\* No client: nil pointer, 500.  No point: nothing to mark.
RevokeFind(r) ==
  /\ At(r, "revoke", "find")
  /\ IF "qdrant" \notin clients
     THEN End(r)
     ELSE \/ findByConsentID(req[r].id) /\ Go(r, "mark")
          \/ ~findByConsentID(req[r].id) /\ req' = [req EXCEPT ![r].pc = "drop", ![r].flag = TRUE]
          \/ MayFail("qdrant") /\ Go(r, "drop")
  /\ UNCHANGED <<now, clients, env, cache, qdrant, born, received, history>>

FaultUpdateConsentRevoked(c) == IndexConsent([id |-> c, revoked |-> TRUE])

\* The flag of the point that was found (an id is indexed once).
UpdateConsentRevoked(c) ==
  pending' = Append(pending, [update |-> "payload", doc |-> [id |-> c, revoked |-> TRUE]])

RevokeMark(r) ==
  /\ At(r, "revoke", "mark")
  /\ \/ /\ UpdateConsentRevoked(req[r].id)
        /\ req' = [req EXCEPT ![r].pc = "drop", ![r].flag = TRUE]
     \/ MayFail("qdrant") /\ Go(r, "drop") /\ UNCHANGED pending
  /\ UNCHANGED <<now, clients, env, cache, points, born, received, history>>

RevokeDrop(r) ==
  LET c == req[r].id IN
  /\ At(r, "revoke", "drop")
  /\ IF "redis" \notin clients
     THEN End(r) /\ UNCHANGED <<cache, dropped, revoked>>
     ELSE /\ Answer(r)
          /\ revoked' = IF req[r].flag /\ req[r].before THEN revoked \cup {c} ELSE revoked
          /\ \/ /\ InvalidateConsent(req[r].name, c)
                /\ dropped' = dropped \cup {d \in NewId : /\ d = c /\ acked[c] # None
                                                         /\ acked[c].name = req[r].name}
             \/ MayFail("redis") /\ UNCHANGED <<cache, dropped>>
  /\ UNCHANGED <<now, clients, env, qdrant, born, received, acked>>

(* GenerateProof: the consent is looked up on chain, then proved.            *)
GenerateProof(r, n, c) ==
  /\ Accept(r, "prove", "fetch", n, c, 0)
  /\ UNCHANGED <<now, clients, env, cache, qdrant, born, history>>

ProveFetch(r) ==
  LET data == GetConsentOnChain(req[r].name, req[r].id) IN
  /\ At(r, "prove", "fetch")
  /\ \/ (data.result # "ok" \/ MayFail("rpc")) /\ End(r)
     \/ data.result = "ok" /\ Go(r, "zk")
  /\ UNCHANGED <<now, clients, env, cache, qdrant, born, received, history>>

callZKProofService(r) ==
  /\ At(r, "prove", "zk")
  /\ \/ MayFail("zk") /\ End(r)
     \/ Answer(r)
  /\ UNCHANGED <<now, clients, env, cache, qdrant, born, received, history>>

\* A point read back: of what the handlers answer, the validity and the creation time are not
\* read, so that every answer has zeros there.
pointToDocument(p) == [id |-> p.id, revoked |-> p.revoked]

\* All that a search can find (the filters, the limit and the order are left out; the offset of
\* a page does not reach Qdrant).
Search == {pointToDocument(p) : p \in points}

(* Searches and the lists of a party's consents change nothing and answer a  *)
(* part of this set, or nothing when Qdrant fails.                           *)
SearchConsents == Search

Handle(r) ==
  \/ CreateRegister(r) \/ CreateIndex(r) \/ CreateCache(r)
  \/ GetLookup(r) \/ GetFetch(r) \/ GetFill(r)
  \/ verifyZKProof(r) \/ VerifyProofExpiry(r)
  \/ VerifyCall(r) \/ VerifyClock(r) \/ VerifyCheck(r)
  \/ RevokePrepare(r) \/ RevokeFind(r) \/ RevokeMark(r) \/ RevokeDrop(r)
  \/ ProveFetch(r) \/ callZKProofService(r)

Next ==
  \/ Tick \/ ApplyUpdate
  \/ \E ch \in Chain :
       \/ IndexEvent(ch)
       \/ \E c \in OnChainId :
            \/ revokeConsent(ch, c)
            \/ \E u \in Until : registerConsent(ch, c, u) \/ updateConsent(ch, c, u)
  \/ \E r \in Request :
       \/ Handle(r) \/ Refuse(r)
       \/ \E n \in Name :
            \/ \E d \in Duration : CreateConsent(r, n, d)
            \/ \E c \in Known :
                 \/ GetConsent(r, n, c) \/ VerifyConsent(r, n, c) \/ VerifyConsentProof(r, n, c)
                 \/ RevokeConsent(r, n, c) \/ GenerateProof(r, n, c)

Spec == Init /\ [][Next]_vars

-----------------------------------------------------------------------------
(* Every variable has its type; only ids that were generated are indexed,    *)
(* and no cache entry is past its end.                                       *)
TypeOK ==
  /\ now \in 0..MaxTime /\ clients \subseteq {"redis", "qdrant"}
  /\ \A ch \in Chain, c \in OnChainId :
       registry[ch][c].status \in {"absent", "active", "revoked"} /\ held[ch][c] \subseteq Until
  /\ \A k \in Name \X Id : cache[k] # None => cache[k].expires > now
  /\ points \subseteq [id : born, revoked : BOOLEAN]
  /\ \A i \in DOMAIN pending : pending[i].doc \in [id : born, revoked : BOOLEAN]
  /\ born \subseteq NewId /\ revoked \subseteq born /\ dropped \subseteq born
  /\ \A r \in Request : req[r].id \in OnChainId \cup born \cup {None} /\ req[r].at \in 0..now

Answered(r, op) == req[r].op = op /\ req[r].pc = "done"

(* An answer of GetConsent tells what was true of that consent on that       *)
(* chain: the end of validity is one that the registry of the named chain    *)
(* has held, or the one that was given to the creator of the id under that   *)
(* very name.  Entries come from creations, from other requests' reads and   *)
(* from the indexer, and a consent has the same id on every chain.           *)
AnswersWereTrue ==
  \A r \in Request : Answered(r, "get") =>
    IF req[r].id \in OnChainId
    THEN req[r].until \in held[ChainOf[req[r].name]][req[r].id]
    ELSE /\ acked[req[r].id] # None
         /\ acked[req[r].id].name = req[r].name /\ acked[req[r].id].until = req[r].until

(* A created consent can be read for the 24 hours of its entry, with the end *)
(* its creator was given, unless Redis failed at the creation or the entry   *)
(* was invalidated: the chain knows nothing of it, so nothing else would     *)
(* bring the entry back.                                                     *)
CreatedReadable ==
  \A c \in NewId : acked[c] # None =>
    LET k == Key(acked[c].name, c) IN
    (acked[c].cached /\ now < acked[c].at + CreateTTL /\ c \notin dropped) =>
       cache[k] # None /\ cache[k].until = acked[c].until

(* If a search found a consent when RevokeConsent was accepted for it, and   *)
(* the request was answered 200 without a failure of Qdrant, then every      *)
(* search shows it as revoked from the moment Qdrant has applied what it had *)
(* acknowledged for it, whatever creations and revocations run at the same   *)
(* time (findByConsentID and SetPayload are two calls, neither write waits). *)
SearchNeverRevives ==
  \A p \in SearchConsents :
    (p.id \in revoked /\ \A i \in DOMAIN pending : pending[i].doc.id # p.id) => p.revoked

(* VerifyConsent calls a consent valid on the chain's word only if its       *)
(* registry has held it with the end in the answer, that end had not passed  *)
(* when the handler read the clock (after the call, which has no deadline;   *)
(* the cache is asked afterwards), and the registry did not have it revoked  *)
(* when the request was accepted.                                            *)
ValidWasInForce ==
  \A r \in Request : (Answered(r, "verify") /\ req[r].flag) =>
    /\ req[r].id \in OnChainId
    /\ req[r].until \in held[ChainOf[req[r].name]][req[r].id]
    /\ req[r].at <= req[r].until /\ ~req[r].before

(* tests/robot/api/consent-lifecycle.robot, of GET /consent/:id after a      *)
(* revocation: "Consent must be revoked after revocation".  What GetConsent  *)
(* has read from the registry, and is about to cache and to answer, says     *)
(* revoked if the registry had the consent revoked when the request came.    *)
RevokedIsReported ==
  \A r \in Request : (At(r, "get", "fill") /\ req[r].before) => req[r].flag

(* docs/OPENAPI.md of POST /consent/:id/revoke: "Revokes an active consent   *)
(* agreement."  When it has answered 200 for a consent that the registry     *)
(* holds, the registry has it revoked.                                       *)
RevokeAnswerMeansRevoked ==
  \A r \in Request :
    (Answered(r, "revoke") /\ req[r].id \in OnChainId) =>
       registry[ChainOf[req[r].name]][req[r].id].status # "active"
=============================================================================
