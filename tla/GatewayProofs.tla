---------------------------- MODULE GatewayProofs ----------------------------
(***************************************************************************)
(* Proofs about ConsentGateway for any chains, names, ids, registries,     *)
(* requests, lifetimes and failures.                                       *)
(*                                                                         *)
(* What the handlers answer comes from the registry, the cache, the index  *)
(* and the locals they hold between two calls.  The invariant says of each *)
(* of them what is true of the consent it speaks of.  All of it stays true *)
(* when others act, since an end of validity that a registry held remains  *)
(* one that it has held, a revoked consent remains revoked, a creation     *)
(* that was answered is not answered again, and an id is indexed once, so  *)
(* that nothing can bring back an unrevoked point of an id whose point was *)
(* found and whose mark Qdrant has taken.                                  *)
(***************************************************************************)
EXTENDS ConsentGateway, TLAPS

CacheEntry == [until : Nat, revoked : BOOLEAN, expires : Nat]
Creation == [name : Name, until : Nat, at : Nat, cached : BOOLEAN]
Stage == {"done", "register", "index", "cache", "lookup", "fetch", "fill", "zk", "expiry",
          "call", "clock", "check", "prepare", "find", "mark", "drop"}
AnyRequest ==
  [op : {"none", "create", "get", "verifyProof", "verify", "revoke", "prove"}, pc : Stage,
   name : Name, id : Id \cup {None}, until : Nat, flag : BOOLEAN, at : Nat,
   before : BOOLEAN]
Holding == [status : {"absent", "active", "revoked"}, until : Nat]
Log == [event : {"ConsentRegistered", "ConsentRevoked"}, id : OnChainId, until : Nat]
Update == [update : {"upsert", "payload"}, doc : [id : NewId, revoked : BOOLEAN]]

Types ==
  /\ now \in 0..MaxTime /\ clients \subseteq {"redis", "qdrant"}
  /\ registry \in [Chain -> [OnChainId -> Holding]]
  /\ held \in [Chain -> [OnChainId -> SUBSET Until]]
  /\ events \in [Chain -> Seq(Log)]
  /\ cache \in [Name \X Id -> CacheEntry \cup {None}]
  /\ points \subseteq [id : born, revoked : BOOLEAN] /\ pending \in Seq(Update)
  /\ req \in [Request -> AnyRequest]
  /\ acked \in [NewId -> Creation \cup {None}]
  /\ born \subseteq NewId /\ dropped \subseteq born

\* What a registry holds, and has logged, it has held.
RegistryTrue ==
  \A ch \in Chain, c \in OnChainId :
    IF registry[ch][c].status = "absent" THEN registry[ch][c] = Absent
    ELSE registry[ch][c].until \in held[ch][c]

LogsTrue ==
  \A ch \in Chain : \A i \in DOMAIN events[ch] :
    events[ch][i].event = "ConsentRegistered" => events[ch][i].until \in held[ch][events[ch][i].id]

\* u is an end of validity that c has had on the chain of n, or was created with there.
TrueOf(n, c, u) ==
  IF c \in OnChainId
  THEN ChainOf[n] \in Chain /\ u \in held[ChainOf[n]][c]
  ELSE acked[c] # None /\ acked[c].name = n /\ acked[c].until = u

CacheTrue ==
  \A n \in Name, c \in Id : cache[<<n, c>>] # None =>
    /\ TrueOf(n, c, cache[<<n, c>>].until)
    /\ cache[<<n, c>>].expires > now

\* The entry of a creation lives until its end.
EntryKept ==
  \A c \in NewId :
    (acked[c] # None /\ acked[c].cached /\ now < acked[c].at + CreateTTL /\ c \notin dropped) =>
       /\ cache[<<acked[c].name, c>>] # None
       /\ cache[<<acked[c].name, c>>].until = acked[c].until
       /\ cache[<<acked[c].name, c>>].expires = acked[c].at + CreateTTL

\* The point of the id, and what Qdrant will still do to it.
AllRevoked(c) == \A p \in points : p.id = c => p.revoked

MarkPending(c) ==
  \E i \in DOMAIN pending : pending[i].update = "payload" /\ pending[i].doc.id = c

UpsertPending(c) ==
  \E i \in DOMAIN pending : pending[i].update = "upsert" /\ pending[i].doc.id = c

Indexed(c) == findByConsentID(c) \/ UpsertPending(c)

\* It is found, and is revoked or will be.
Settled(c) == findByConsentID(c) /\ (AllRevoked(c) \/ MarkPending(c))

\* An id is indexed once; the only payload that is set is the flag.
IndexTrue ==
  /\ \A i \in DOMAIN pending :
       /\ pending[i].doc.id \in born
       /\ pending[i].update = "payload" => pending[i].doc.revoked
       /\ pending[i].update = "upsert" => ~findByConsentID(pending[i].doc.id)
  /\ \A i, j \in DOMAIN pending :
       i # j /\ pending[i].update = "upsert" /\ pending[j].update = "upsert"
         => pending[i].doc.id # pending[j].doc.id

\* Creations are answered for ids that were generated.
IdsKnown ==
  /\ \A c \in NewId : acked[c] # None => c \in born
  /\ \A c \in revoked : c \in NewId /\ Settled(c)

GoneOnChain(n, c) == c \in OnChainId /\ registry[ChainOf[n]][c].status = "revoked"

\* What VerifyConsent knows of c at p, with the end u, the verdict f and the clock a.
VerifyKnows(n, c, before, p, u, f, a) ==
  /\ before => GoneOnChain(n, c)
  /\ p = "check" => f
  /\ p \in {"clock", "check", "done"} /\ f => c \in OnChainId /\ TrueOf(n, c, u) /\ ~before
  /\ p \in {"check", "done"} /\ f => a <= u

\* What RevokeConsent knows of c at p.
RevokeKnows(c, before, p, f) ==
  /\ before => findByConsentID(c)
  /\ p \in {"prepare", "find", "mark"} => ~f
  /\ p = "mark" => findByConsentID(c)
  /\ p = "drop" /\ f /\ before => Settled(c)

\* What a request knows between two calls.
Local(r) ==
  LET x == req[r] IN
  /\ ChainOf[x.name] \in Chain /\ x.at <= now
  /\ x.op = "none" => x.pc = "done" /\ x.id = None
  /\ x.op = "create" => x.pc # "done" /\ x.id \in born /\ acked[x.id] = None
  /\ x.op = "create" /\ x.pc \in {"register", "index"} => ~Indexed(x.id)
  /\ x.op \notin {"none", "create"} => x.id \in OnChainId \cup born
  /\ x.op = "get" /\ x.pc = "fill" => x.id \in OnChainId /\ TrueOf(x.name, x.id, x.until)
  /\ x.op = "get" /\ x.pc = "done" => TrueOf(x.name, x.id, x.until)
  /\ x.op = "verify" => VerifyKnows(x.name, x.id, x.before, x.pc, x.until, x.flag, x.at)
  /\ x.op = "revoke" => RevokeKnows(x.id, x.before, x.pc, x.flag)

\* An id is being created by one request.
OneCreator ==
  \A q, r \in Request :
    q # r /\ req[q].op = "create" /\ req[r].op = "create" => req[q].id # req[r].id

GatewayInv ==
  /\ Types
  /\ RegistryTrue /\ LogsTrue
  /\ CacheTrue /\ EntryKept
  /\ IndexTrue /\ IdsKnown
  /\ \A r \in Request : Local(r)
  /\ OneCreator

-----------------------------------------------------------------------------
(* What no step undoes.                                                      *)

Later ==
  /\ now' \in Nat /\ now <= now'
  /\ \A ch \in Chain, c \in OnChainId :
       /\ held[ch][c] \subseteq held'[ch][c]
       /\ registry[ch][c].status = "revoked" => registry'[ch][c].status = "revoked"
  /\ born \subseteq born'
  /\ \A c \in NewId : acked[c] # None => acked'[c] = acked[c]
  /\ \A c : findByConsentID(c) => findByConsentID(c)'
  /\ \A c : Settled(c) => Settled(c)'

LEMMA TrueKept ==
  ASSUME Later, NEW n \in Name, NEW c \in Id, NEW u, TrueOf(n, c, u)
  PROVE  TrueOf(n, c, u)'
BY DEF Later, TrueOf, Id

\* Nothing happened to the index.
LEMMA IndexSame ==
  ASSUME UNCHANGED <<points, pending>>
  PROVE  /\ \A c : /\ findByConsentID(c)' <=> findByConsentID(c)
                   /\ Settled(c)' <=> Settled(c)
                   /\ Indexed(c)' <=> Indexed(c)
         /\ IndexTrue /\ born \subseteq born' => IndexTrue'
<1>1. \A c : /\ findByConsentID(c)' <=> findByConsentID(c)
             /\ AllRevoked(c)' <=> AllRevoked(c)
             /\ MarkPending(c)' <=> MarkPending(c)
             /\ UpsertPending(c)' <=> UpsertPending(c)
  BY DEF findByConsentID, AllRevoked, MarkPending, UpsertPending
<1>2. IndexTrue /\ born \subseteq born' => IndexTrue'
  BY <1>1 DEF IndexTrue
<1> QED BY <1>1, <1>2 DEF Settled, Indexed

\* What the locals of a verification and of a revocation rest on stays.
LEMMA KnowsKept ==
  ASSUME Later, NEW n \in Name, ChainOf[n] \in Chain, NEW c \in Id, NEW before, NEW p, NEW u, NEW f, NEW a
  PROVE  /\ VerifyKnows(n, c, before, p, u, f, a) => VerifyKnows(n, c, before, p, u, f, a)'
         /\ RevokeKnows(c, before, p, f) => RevokeKnows(c, before, p, f)'
<1>1. TrueOf(n, c, u) => TrueOf(n, c, u)'
  BY TrueKept
<1>2. GoneOnChain(n, c) => GoneOnChain(n, c)'
  BY DEF Later, GoneOnChain
<1>3. /\ findByConsentID(c) => findByConsentID(c)'
      /\ Settled(c) => Settled(c)'
  BY DEF Later
<1> QED BY <1>1, <1>2, <1>3 DEF VerifyKnows, RevokeKnows

\* A request at rest is not misled by the others.
LEMMA LocalKept ==
  ASSUME GatewayInv, Later, NEW q \in Request, req'[q] = req[q],
         \A c \in NewId : req[q].op = "create" /\ c = req[q].id =>
            acked'[c] = None /\ (Indexed(c)' => Indexed(c))
  PROVE  Local(q)'
<1>1. PICK x \in AnyRequest : x = req[q]
  BY DEF GatewayInv, Types
<1>2. req'[q] = x
  BY <1>1
<1>3. Local(q) /\ now \in Nat /\ now' \in Nat /\ now <= now' /\ x.at \in Nat /\ born \subseteq NewId
      /\ born \subseteq born'
  BY <1>1, GatewayAssumption DEF GatewayInv, Types, AnyRequest, Later
<1>4. /\ ChainOf[x.name] \in Chain /\ x.at <= now /\ x.name \in Name
      /\ x.op \notin {"none", "create"} => x.id \in OnChainId \cup born /\ x.id \in Id
  BY <1>1, <1>3 DEF Local, AnyRequest, Id
<1>5. x.at <= now'
  BY <1>3, <1>4
<1>6. /\ x.op = "none" => x.pc = "done" /\ x.id = None
      /\ x.op = "create" => x.pc # "done" /\ x.id \in born' /\ acked'[x.id] = None
      /\ x.op = "create" /\ x.pc \in {"register", "index"} => ~Indexed(x.id)'
      /\ x.op \notin {"none", "create"} => x.id \in OnChainId \cup born'
  <2>1. CASE x.op = "create"
    <3>1. x.id \in born /\ x.id \in NewId /\ x.pc # "done"
      BY <1>1, <1>3, <2>1 DEF Local
    <3>2. acked'[x.id] = None /\ (Indexed(x.id)' => Indexed(x.id))
      <4>1. PICK c \in NewId : c = x.id
        BY <3>1
      <4>2. acked'[c] = None /\ (Indexed(c)' => Indexed(c))
        BY <1>1, <2>1, <4>1
      <4> QED BY <4>1, <4>2 DEF Indexed, findByConsentID, UpsertPending
    <3>3. x.pc \in {"register", "index"} => ~Indexed(x.id)
      BY <1>1, <1>3, <2>1 DEF Local
    <3> QED BY <1>3, <2>1, <3>1, <3>2, <3>3
  <2>2. CASE x.op # "create"
    BY <1>1, <1>3, <2>2 DEF Local
  <2> QED BY <2>1, <2>2
<1>7. /\ x.op = "get" /\ x.pc = "fill" => x.id \in OnChainId /\ TrueOf(x.name, x.id, x.until)'
      /\ x.op = "get" /\ x.pc = "done" => TrueOf(x.name, x.id, x.until)'
  <2>1. x.op = "get" => (TrueOf(x.name, x.id, x.until) => TrueOf(x.name, x.id, x.until)')
    BY <1>4, TrueKept
  <2> QED BY <1>1, <1>3, <2>1 DEF Local
<1>8. /\ x.op = "verify" => VerifyKnows(x.name, x.id, x.before, x.pc, x.until, x.flag, x.at)'
      /\ x.op = "revoke" => RevokeKnows(x.id, x.before, x.pc, x.flag)'
  <2>1. /\ x.op = "verify" => VerifyKnows(x.name, x.id, x.before, x.pc, x.until, x.flag, x.at)
        /\ x.op = "revoke" => RevokeKnows(x.id, x.before, x.pc, x.flag)
    BY <1>1, <1>3 DEF Local
  <2> QED BY <1>4, <2>1, KnowsKept
<1> QED BY <1>2, <1>4, <1>5, <1>6, <1>7, <1>8 DEF Local

(* Steps of one request.                                                     *)

Sole(r) ==
  /\ req' \in [Request -> AnyRequest]
  /\ \A q \in Request \ {r} : req'[q] = req[q]

\* The request goes on at p with these locals.
Moved(r, p, u, f, a) ==
  /\ Sole(r)
  /\ req'[r].op = req[r].op /\ req'[r].name = req[r].name /\ req'[r].id = req[r].id
  /\ req'[r].before = req[r].before
  /\ req'[r].pc = p /\ req'[r].until = u /\ req'[r].flag = f /\ req'[r].at = a

\* A step of one request that writes nothing but its own locals.
LEMMA RequestOnly ==
  ASSUME GatewayInv, NEW r \in Request, Sole(r),
         UNCHANGED <<now, clients, env, cache, qdrant, born, history>>,
         Local(r)', req'[r].op = "create" => req[r].op = "create" /\ req'[r].id = req[r].id
  PROVE  GatewayInv'
<1>1. /\ UNCHANGED <<now, clients, registry, events, held, cache, born, acked, dropped, revoked>>
      /\ UNCHANGED <<points, pending>>
      /\ \A q \in Request : q # r => req'[q] = req[q]
      /\ req' \in [Request -> AnyRequest]
  BY DEF env, qdrant, history, Sole
<1>2. Types'
  BY <1>1 DEF GatewayInv, Types
<1>3. (RegistryTrue /\ LogsTrue)'
  BY <1>1 DEF GatewayInv, RegistryTrue, LogsTrue
<1>4. (CacheTrue /\ EntryKept)'
  BY <1>1 DEF GatewayInv, CacheTrue, TrueOf, EntryKept
<1>5. (IndexTrue /\ IdsKnown)'
  BY <1>1, IndexSame DEF GatewayInv, IdsKnown
<1>6. Later
  <2>1. now \in Nat /\ now' = now
    BY <1>1, GatewayAssumption DEF GatewayInv, Types
  <2> QED BY <1>1, <2>1, IndexSame DEF Later
<1>7. ASSUME NEW q \in Request PROVE Local(q)'
  <2>1. CASE q # r
    <3>1. \A c \in NewId : req[q].op = "create" /\ c = req[q].id =>
            acked'[c] = None /\ (Indexed(c)' => Indexed(c))
      BY <1>1, IndexSame DEF GatewayInv, Local
    <3> QED BY <1>1, <1>6, <2>1, <3>1, LocalKept
  <2> QED BY <2>1
<1>8. OneCreator'
  BY <1>1 DEF GatewayInv, OneCreator
<1> QED BY <1>2, <1>3, <1>4, <1>5, <1>7, <1>8 DEF GatewayInv

\* A request ends in an answer of which nothing is kept.
LEMMA IdleOk == Idle \in AnyRequest /\ Idle.op = "none" /\ Idle.pc = "done" /\ Idle.id = None
                /\ ChainOf[Idle.name] \in Chain /\ Idle.at = 0
BY GatewayAssumption DEF Idle, AnyRequest, Stage

LEMMA EndStep ==
  ASSUME GatewayInv, NEW r \in Request, End(r),
         UNCHANGED <<now, clients, env, cache, qdrant, born, history>>
  PROVE  GatewayInv'
<1>1. req' = [req EXCEPT ![r] = Idle]
  BY DEF End
<1>2. req'[r] = Idle /\ now' = now /\ now \in Nat
  BY <1>1, GatewayAssumption DEF GatewayInv, Types
<1>3. Local(r)'
  BY <1>2, IdleOk DEF Local
<1>4. Sole(r)
  BY <1>1, IdleOk DEF Sole, GatewayInv, Types
<1> QED BY <1>2, <1>3, <1>4, IdleOk, RequestOnly

LEMMA MovedPc ==
  ASSUME Types, NEW r \in Request, NEW p \in Stage, req' = [req EXCEPT ![r].pc = p]
  PROVE  Moved(r, p, req[r].until, req[r].flag, req[r].at)
BY ZenonT(60) DEF Moved, Sole, Types, AnyRequest

LEMMA MovedFlag ==
  ASSUME Types, NEW r \in Request, NEW p \in Stage, NEW f \in BOOLEAN,
         req' = [req EXCEPT ![r].pc = p, ![r].flag = f]
  PROVE  Moved(r, p, req[r].until, f, req[r].at)
BY ZenonT(60) DEF Moved, Sole, Types, AnyRequest

LEMMA MovedUntil ==
  ASSUME Types, NEW r \in Request, NEW p \in Stage, NEW u \in Nat,
         req' = [req EXCEPT ![r].pc = p, ![r].until = u]
  PROVE  Moved(r, p, u, req[r].flag, req[r].at)
BY ZenonT(60) DEF Moved, Sole, Types, AnyRequest

LEMMA MovedBoth ==
  ASSUME Types, NEW r \in Request, NEW p \in Stage, NEW u \in Nat, NEW f \in BOOLEAN,
         req' = [req EXCEPT ![r].pc = p, ![r].until = u, ![r].flag = f]
  PROVE  Moved(r, p, u, f, req[r].at)
<1>1. PICK x \in AnyRequest : x = req[r]
  BY DEF Types
<1>2. [x EXCEPT !.pc = p, !.until = u, !.flag = f] \in AnyRequest
  BY DEF AnyRequest
<1>3. req' = [req EXCEPT ![r] = [x EXCEPT !.pc = p, !.until = u, !.flag = f]]
  BY <1>1
<1> QED BY <1>1, <1>2, <1>3 DEF Moved, Sole, Types, AnyRequest

LEMMA MovedAt ==
  ASSUME Types, NEW r \in Request, NEW p \in Stage, NEW a \in Nat, NEW f \in BOOLEAN,
         req' = [req EXCEPT ![r].pc = p, ![r].flag = f, ![r].at = a]
  PROVE  Moved(r, p, req[r].until, f, a)
<1>1. PICK x \in AnyRequest : x = req[r]
  BY DEF Types
<1>2. [x EXCEPT !.pc = p, !.flag = f, !.at = a] \in AnyRequest
  BY DEF AnyRequest
<1>3. req' = [req EXCEPT ![r] = [x EXCEPT !.pc = p, !.flag = f, !.at = a]]
  BY <1>1
<1> QED BY <1>1, <1>2, <1>3 DEF Moved, Sole, Types, AnyRequest

\* What a request that goes on must know at p.
Fits(x, p, u, f, a) ==
  /\ a <= now
  /\ x.op # "none"
  /\ x.op = "create" => p # "done" /\ (p \in {"register", "index"} => ~Indexed(x.id))
  /\ x.op = "get" /\ p = "fill" => x.id \in OnChainId /\ TrueOf(x.name, x.id, u)
  /\ x.op = "get" /\ p = "done" => TrueOf(x.name, x.id, u)
  /\ x.op = "verify" => VerifyKnows(x.name, x.id, x.before, p, u, f, a)
  /\ x.op = "revoke" => RevokeKnows(x.id, x.before, p, f)

LEMMA MoveStep ==
  ASSUME GatewayInv, NEW r \in Request, NEW p, NEW u, NEW f, NEW a, Moved(r, p, u, f, a),
         Fits(req[r], p, u, f, a),
         UNCHANGED <<now, clients, env, cache, qdrant, born, history>>
  PROVE  GatewayInv'
<1>1. PICK x \in AnyRequest : x = req[r]
  BY DEF GatewayInv, Types
<1>2. /\ req'[r].op = x.op /\ req'[r].name = x.name /\ req'[r].id = x.id /\ req'[r].before = x.before
      /\ req'[r].pc = p /\ req'[r].until = u /\ req'[r].flag = f /\ req'[r].at = a
  BY <1>1 DEF Moved
<1>3. \A n, c, v : TrueOf(n, c, v) => TrueOf(n, c, v)'
  BY DEF TrueOf, env, history
<1>4. \A c : /\ findByConsentID(c)' <=> findByConsentID(c)
             /\ Settled(c)' <=> Settled(c)
             /\ Indexed(c)' <=> Indexed(c)
  BY IndexSame DEF qdrant
<1>5. \A n, c : GoneOnChain(n, c) => GoneOnChain(n, c)'
  BY DEF GoneOnChain, env
<1>6. /\ ChainOf[x.name] \in Chain
      /\ x.op = "create" => x.id \in born /\ acked[x.id] = None
      /\ x.op \notin {"none", "create"} => x.id \in OnChainId \cup born
  BY <1>1 DEF GatewayInv, Local
<1>7. UNCHANGED <<now, born, acked>>
  BY DEF history
<1>8. Fits(x, p, u, f, a)
  BY <1>1
<1>9. x.op = "verify" => VerifyKnows(x.name, x.id, x.before, p, u, f, a)'
  BY <1>3, <1>5, <1>8 DEF Fits, VerifyKnows
<1>10. x.op = "revoke" => RevokeKnows(x.id, x.before, p, f)'
  BY <1>4, <1>8 DEF Fits, RevokeKnows
<1>11. Local(r)'
  BY <1>2, <1>3, <1>4, <1>6, <1>7, <1>8, <1>9, <1>10 DEF Local, Fits
<1>12. req'[r].op = req[r].op /\ req'[r].id = req[r].id /\ Sole(r)
  BY DEF Moved
<1> QED BY <1>11, <1>12, RequestOnly

(* What the services answer.                                                 *)

LEMMA RegistryHeld ==
  ASSUME GatewayInv, NEW n \in Name, ChainOf[n] \in Chain, NEW c \in Id,
         Stored(n, c).status # "absent"
  PROVE  c \in OnChainId /\ TrueOf(n, c, Stored(n, c).until)
<1>1. c \in OnChainId
  BY DEF Stored, Absent
<1> QED BY <1>1 DEF GatewayInv, RegistryTrue, Stored, TrueOf

LEMMA StoredTyped ==
  ASSUME GatewayInv, NEW n \in Name, ChainOf[n] \in Chain, NEW c \in Id
  PROVE  /\ Stored(n, c).status \in {"absent", "active", "revoked"} /\ Stored(n, c).until \in Nat
         /\ Stored(n, c).status = "absent" => Stored(n, c) = Absent
<1>1. CASE c \in OnChainId
  <2>1. registry[ChainOf[n]][c] \in Holding
    BY <1>1 DEF GatewayInv, Types
  <2> QED BY <1>1, <2>1 DEF Holding, Stored, GatewayInv, RegistryTrue
<1>2. CASE c \notin OnChainId
  BY <1>2 DEF Stored, Absent
<1> QED BY <1>1, <1>2

\* Client.GetConsent: what it answers, the registry of that chain has held.
LEMMA FetchTrue ==
  ASSUME GatewayInv, NEW n \in Name, ChainOf[n] \in Chain, NEW c \in Id,
         GetConsentOnChain(n, c).result = "ok"
  PROVE  /\ c \in OnChainId /\ TrueOf(n, c, GetConsentOnChain(n, c).until)
         /\ GetConsentOnChain(n, c).until \in Nat /\ GetConsentOnChain(n, c).revoked \in BOOLEAN
<1>1. Registry[ChainOf[n]] \in {"unset", "empty", "fields", "struct"}
  BY GatewayAssumption
<1>2. /\ Registry[ChainOf[n]] = "fields" /\ Stored(n, c) # Absent
      /\ GetConsentOnChain(n, c) = [result |-> "ok", until |-> Stored(n, c).until,
           revoked |-> BoolWord(Stored(n, c).status = "revoked")[0] # 0]
  BY <1>1 DEF GetConsentOnChain, decodeConsentData
<1>3. c \in OnChainId /\ TrueOf(n, c, Stored(n, c).until) /\ Stored(n, c).until \in Nat
  BY <1>2, RegistryHeld, StoredTyped
<1> QED BY <1>2, <1>3

\* Client.VerifyConsentOnChain: a consent it calls valid, the registry has held
\* with the end of validity that it answers, and does not have revoked.
LEMMA VerdictTrue ==
  ASSUME GatewayInv, NEW n \in Name, ChainOf[n] \in Chain, NEW c \in Id,
         VerifyConsentOnChain(n, c).result = "ok"
  PROVE  /\ VerifyConsentOnChain(n, c).expires \in Nat /\ VerifyConsentOnChain(n, c).valid \in BOOLEAN
         /\ VerifyConsentOnChain(n, c).valid =>
              /\ c \in OnChainId /\ TrueOf(n, c, VerifyConsentOnChain(n, c).expires)
              /\ ~GoneOnChain(n, c)
<1>1. Registry[ChainOf[n]] \in {"unset", "empty", "fields", "struct"}
  BY GatewayAssumption
<1>2. CASE Registry[ChainOf[n]] = "empty"
  BY <1>2 DEF VerifyConsentOnChain
<1>3. CASE Registry[ChainOf[n]] = "fields"
  <2>1. VerifyConsentOnChain(n, c) =
          [result |-> "ok", expires |-> Stored(n, c).until,
           valid |-> Stored(n, c).status = "active" /\ now < Stored(n, c).until]
    BY <1>3 DEF VerifyConsentOnChain
  <2>2. /\ VerifyConsentOnChain(n, c).expires = Stored(n, c).until
        /\ VerifyConsentOnChain(n, c).valid =
             (Stored(n, c).status = "active" /\ now < Stored(n, c).until)
    BY <2>1
  <2>3. /\ Stored(n, c).until \in Nat
        /\ Stored(n, c).status = "active" =>
             c \in OnChainId /\ TrueOf(n, c, Stored(n, c).until) /\ ~GoneOnChain(n, c)
    BY RegistryHeld, StoredTyped DEF GoneOnChain, Stored
  <2> QED BY <2>2, <2>3
<1> QED BY <1>1, <1>2, <1>3 DEF VerifyConsentOnChain

\* A cache entry tells what is true of its consent.
LEMMA CachedTrue ==
  ASSUME GatewayInv, NEW n \in Name, NEW c \in Id, NEW e \in GetCachedConsent(n, c), e # None
  PROVE  e \in CacheEntry /\ TrueOf(n, c, e.until)
<1>1. e = cache[<<n, c>>]
  BY DEF GetCachedConsent, Key
<1> QED BY <1>1 DEF GatewayInv, Types, CacheTrue

(* The steps of the handlers that only read.                                 *)

\* What is known of a request that is being served.
LEMMA Serving ==
  ASSUME GatewayInv, NEW r \in Request
  PROVE  /\ req[r] \in AnyRequest /\ req[r].name \in Name /\ ChainOf[req[r].name] \in Chain
         /\ req[r].at \in Nat /\ req[r].at <= now /\ now \in Nat
         /\ req[r].until \in Nat /\ req[r].flag \in BOOLEAN /\ req[r].before \in BOOLEAN
         /\ req[r].op \notin {"none", "create"} => req[r].id \in Id /\ req[r].id \in OnChainId \cup born
         /\ req[r].op = "verify" => VerifyKnows(req[r].name, req[r].id, req[r].before, req[r].pc,
                                               req[r].until, req[r].flag, req[r].at)
         /\ req[r].op = "revoke" => RevokeKnows(req[r].id, req[r].before, req[r].pc, req[r].flag)
         /\ req[r].op = "create" =>
              req[r].id \in born /\ req[r].id \in NewId /\ acked[req[r].id] = None
<1>1. req[r] \in AnyRequest /\ Local(r) /\ now \in Nat /\ born \subseteq NewId
  BY GatewayAssumption DEF GatewayInv, Types
<1> QED BY <1>1 DEF AnyRequest, Local, Id

LEMMA GetLookupStep ==
  ASSUME GatewayInv, NEW r \in Request, GetLookup(r)
  PROVE  GatewayInv'
<1>1. req[r].op = "get" /\ UNCHANGED <<now, clients, env, cache, qdrant, born, history>> /\ Types
  BY DEF GetLookup, At, GatewayInv
<1>2. CASE End(r)
  BY <1>1, <1>2, EndStep
<1>3. ASSUME NEW e \in GetCachedConsent(req[r].name, req[r].id), e # None,
             req' = [req EXCEPT ![r].pc = "done", ![r].until = e.until, ![r].flag = e.revoked]
      PROVE  GatewayInv'
  <2>1. e.until \in Nat /\ e.revoked \in BOOLEAN /\ TrueOf(req[r].name, req[r].id, e.until)
    BY <1>1, <1>3, Serving, CachedTrue DEF CacheEntry
  <2>2. Moved(r, "done", e.until, e.revoked, req[r].at)
    BY <1>1, <1>3, <2>1, MovedBoth DEF Stage
  <2>3. Fits(req[r], "done", e.until, e.revoked, req[r].at)
    BY <1>1, <2>1, Serving DEF Fits
  <2> QED BY <1>1, <2>2, <2>3, MoveStep
<1>4. CASE Go(r, "fetch")
  <2>1. Moved(r, "fetch", req[r].until, req[r].flag, req[r].at)
    BY <1>1, <1>4, MovedPc DEF Go, Stage
  <2>2. Fits(req[r], "fetch", req[r].until, req[r].flag, req[r].at)
    BY <1>1, Serving DEF Fits
  <2> QED BY <1>1, <2>1, <2>2, MoveStep
<1> QED BY <1>2, <1>3, <1>4 DEF GetLookup

LEMMA GetFetchStep ==
  ASSUME GatewayInv, NEW r \in Request, GetFetch(r)
  PROVE  GatewayInv'
<1> DEFINE data == GetConsentOnChain(req[r].name, req[r].id)
<1>1. req[r].op = "get" /\ UNCHANGED <<now, clients, env, cache, qdrant, born, history>> /\ Types
  BY DEF GetFetch, At, GatewayInv
<1>2. CASE End(r)
  BY <1>1, <1>2, EndStep
<1>3. CASE data.result = "ok"
           /\ req' = [req EXCEPT ![r].pc = "fill", ![r].until = data.until, ![r].flag = data.revoked]
  <2>1. /\ data.until \in Nat /\ data.revoked \in BOOLEAN
        /\ req[r].id \in OnChainId /\ TrueOf(req[r].name, req[r].id, data.until)
    BY <1>1, <1>3, Serving, FetchTrue
  <2>2. Moved(r, "fill", data.until, data.revoked, req[r].at)
    BY <1>1, <1>3, <2>1, MovedBoth DEF Stage
  <2>3. Fits(req[r], "fill", data.until, data.revoked, req[r].at)
    BY <1>1, <2>1, Serving DEF Fits
  <2> QED BY <1>1, <2>2, <2>3, MoveStep
<1> QED BY <1>2, <1>3 DEF GetFetch

\* The verdict of the proof service and the expiry on chain make no claim that
\* the invariant speaks of.
LEMMA VerifyProofStep ==
  ASSUME GatewayInv, NEW r \in Request, verifyZKProof(r) \/ VerifyProofExpiry(r)
  PROVE  GatewayInv'
<1>1. /\ req[r].op = "verifyProof" /\ UNCHANGED <<now, clients, env, cache, qdrant, born, history>>
      /\ Types
  BY DEF verifyZKProof, VerifyProofExpiry, At, GatewayInv
<1>2. CASE End(r)
  BY <1>1, <1>2, EndStep
<1>3. ASSUME NEW v \in BOOLEAN, req' = [req EXCEPT ![r].pc = "expiry", ![r].flag = v]
      PROVE  GatewayInv'
  <2>1. Moved(r, "expiry", req[r].until, v, req[r].at)
    BY <1>1, <1>3, MovedFlag DEF Stage
  <2>2. Fits(req[r], "expiry", req[r].until, v, req[r].at)
    BY <1>1, Serving DEF Fits
  <2> QED BY <1>1, <2>1, <2>2, MoveStep
<1>4. ASSUME NEW e \in Nat, req' = [req EXCEPT ![r].pc = "done", ![r].until = e]
      PROVE  GatewayInv'
  <2>1. Moved(r, "done", e, req[r].flag, req[r].at)
    BY <1>1, <1>4, MovedUntil DEF Stage
  <2>2. Fits(req[r], "done", e, req[r].flag, req[r].at)
    BY <1>1, Serving DEF Fits
  <2> QED BY <1>1, <2>1, <2>2, MoveStep
<1>5. CASE verifyZKProof(r)
  BY <1>2, <1>3, <1>5 DEF verifyZKProof
<1>6. CASE VerifyProofExpiry(r)
  <2> DEFINE res == VerifyConsentOnChain(req[r].name, req[r].id)
  <2>1. res.result = "ok" => res.expires \in Nat
    BY <1>1, Serving, VerdictTrue
  <2> HIDE DEF res
  <2>2. \A e \in (IF MayFail("rpc") THEN {0} ELSE {})
                   \cup {IF res.result = "ok" THEN res.expires ELSE 0} : e \in Nat
    BY <2>1
  <2> USE DEF res
  <2>3. CASE ~End(r)
    <3>1. PICK e \in (IF MayFail("rpc") THEN {0} ELSE {})
                       \cup {IF res.result = "ok" THEN res.expires ELSE 0} :
            req' = [req EXCEPT ![r] = [@ EXCEPT !.pc = "done", !.until = e]]
      BY <1>6, <2>3 DEF VerifyProofExpiry
    <3>2. e \in Nat
      BY <2>2
    <3> QED BY <1>4, <3>1, <3>2
  <2> QED BY <1>2, <2>3
<1> QED BY <1>5, <1>6

LEMMA VerifyCallStep ==
  ASSUME GatewayInv, NEW r \in Request, VerifyCall(r)
  PROVE  GatewayInv'
<1> DEFINE res == VerifyConsentOnChain(req[r].name, req[r].id)
<1>1. req[r].op = "verify" /\ UNCHANGED <<now, clients, env, cache, qdrant, born, history>> /\ Types
  BY DEF VerifyCall, At, GatewayInv
<1>2. CASE End(r)
  BY <1>1, <1>2, EndStep
<1>3. CASE res.result = "ok"
           /\ req' = [req EXCEPT ![r].pc = "clock", ![r].until = res.expires, ![r].flag = res.valid]
  <2>1. /\ res.expires \in Nat /\ res.valid \in BOOLEAN
        /\ res.valid => /\ req[r].id \in OnChainId /\ TrueOf(req[r].name, req[r].id, res.expires)
                        /\ ~GoneOnChain(req[r].name, req[r].id)
    BY <1>1, <1>3, Serving, VerdictTrue
  <2>2. Moved(r, "clock", res.expires, res.valid, req[r].at)
    BY <1>1, <1>3, <2>1, MovedBoth DEF Stage
  <2>3. VerifyKnows(req[r].name, req[r].id, req[r].before, "clock", res.expires, res.valid, req[r].at)
    <3>1. req[r].before => GoneOnChain(req[r].name, req[r].id)
      BY <1>1, Serving DEF VerifyKnows
    <3> HIDE DEF res
    <3> QED BY <2>1, <3>1 DEF VerifyKnows
  <2>4. Fits(req[r], "clock", res.expires, res.valid, req[r].at)
    BY <1>1, <2>3, Serving DEF Fits
  <2> QED BY <1>1, <2>2, <2>4, MoveStep
<1> QED BY <1>2, <1>3 DEF VerifyCall

\* The clock is read after the call; a consent past its end goes no further.
LEMMA VerifyClockStep ==
  ASSUME GatewayInv, NEW r \in Request, VerifyClock(r)
  PROVE  GatewayInv'
<1>1. /\ req[r].op = "verify" /\ req[r].pc = "clock" /\ Types
      /\ UNCHANGED <<now, clients, env, cache, qdrant, born, history>>
  BY DEF VerifyClock, At, GatewayInv
<1>2. PICK f \in BOOLEAN : f = (req[r].flag /\ ~Expired(r))
  OBVIOUS
<1>3. PICK p \in {"check", "done"} : p = (IF f THEN "check" ELSE "done")
  OBVIOUS
<1>4. req' = [req EXCEPT ![r].pc = p, ![r].flag = f, ![r].at = now]
  BY <1>2, <1>3 DEF VerifyClock
<1>5. Moved(r, p, req[r].until, f, now)
  BY <1>1, <1>3, <1>4, Serving, MovedAt DEF Stage
<1>6. f => req[r].flag /\ now <= req[r].until
  <2>1. f => req[r].flag /\ ~(now > req[r].until)
    BY <1>2, Zenon DEF Expired
  <2>2. ~(now > req[r].until) => now <= req[r].until
    BY Serving
  <2> QED BY <2>1, <2>2
<1>7. VerifyKnows(req[r].name, req[r].id, req[r].before, p, req[r].until, f, now)
  BY <1>1, <1>3, <1>6, Serving DEF VerifyKnows
<1>8. Fits(req[r], p, req[r].until, f, now)
  BY <1>1, <1>7, Serving DEF Fits
<1> QED BY <1>1, <1>5, <1>8, MoveStep

\* The cache can only turn the verdict into a no.
LEMMA VerifyCheckStep ==
  ASSUME GatewayInv, NEW r \in Request, VerifyCheck(r)
  PROVE  GatewayInv'
<1>1. /\ req[r].op = "verify" /\ req[r].pc = "check" /\ Types
      /\ UNCHANGED <<now, clients, env, cache, qdrant, born, history>>
  BY DEF VerifyCheck, At, GatewayInv
<1>2. CASE End(r)
  BY <1>1, <1>2, EndStep
<1>3. ASSUME NEW f \in BOOLEAN, req' = [req EXCEPT ![r].pc = "done", ![r].flag = f]
      PROVE  GatewayInv'
  <2>1. Moved(r, "done", req[r].until, f, req[r].at)
    BY <1>1, <1>3, MovedFlag DEF Stage
  <2>2. VerifyKnows(req[r].name, req[r].id, req[r].before, "done", req[r].until, f, req[r].at)
    BY <1>1, Serving DEF VerifyKnows
  <2>3. Fits(req[r], "done", req[r].until, f, req[r].at)
    BY <1>1, <2>2, Serving DEF Fits
  <2> QED BY <1>1, <2>1, <2>3, MoveStep
<1>4. CASE ~End(r)
  <2>1. PICK e \in GetCachedConsent(req[r].name, req[r].id) :
          req' = [req EXCEPT ![r].pc = "done", ![r].flag = ~(e # None /\ e.revoked)]
    BY <1>4 DEF VerifyCheck
  <2>2. PICK f \in BOOLEAN : f = (~(e # None /\ e.revoked))
    OBVIOUS
  <2> QED BY <1>3, <2>1, <2>2
<1> QED BY <1>2, <1>4

\* RevokeConsent looks for the point: one that a search found at the start is still there.
LEMMA RevokeFindStep ==
  ASSUME GatewayInv, NEW r \in Request, RevokeFind(r)
  PROVE  GatewayInv'
<1>1. /\ req[r].op = "revoke" /\ req[r].pc = "find" /\ Types
      /\ UNCHANGED <<now, clients, env, cache, qdrant, born, history>>
      /\ RevokeKnows(req[r].id, req[r].before, "find", req[r].flag)
  BY Serving DEF RevokeFind, At, GatewayInv
<1>2. CASE End(r)
  BY <1>1, <1>2, EndStep
<1>3. ASSUME NEW p \in {"mark", "drop"}, NEW f \in BOOLEAN, Moved(r, p, req[r].until, f, req[r].at),
             p = "mark" => ~f /\ findByConsentID(req[r].id),
             p = "drop" /\ f => ~findByConsentID(req[r].id)
      PROVE  GatewayInv'
  <2>1. RevokeKnows(req[r].id, req[r].before, p, f)
    BY <1>1, <1>3 DEF RevokeKnows
  <2>2. Fits(req[r], p, req[r].until, f, req[r].at)
    BY <1>1, <2>1, Serving DEF Fits
  <2> QED BY <1>1, <1>3, <2>2, MoveStep
<1>4. ~req[r].flag /\ req[r].flag \in BOOLEAN
  BY <1>1, Serving DEF RevokeKnows
<1>5. CASE findByConsentID(req[r].id) /\ Go(r, "mark")
  <2>1. Moved(r, "mark", req[r].until, req[r].flag, req[r].at)
    BY <1>1, <1>5, MovedPc DEF Go, Stage
  <2> QED BY <1>3, <1>4, <1>5, <2>1
<1>6. CASE ~findByConsentID(req[r].id) /\ req' = [req EXCEPT ![r].pc = "drop", ![r].flag = TRUE]
  <2>1. Moved(r, "drop", req[r].until, TRUE, req[r].at)
    BY <1>1, <1>6, MovedFlag DEF Stage
  <2> QED BY <1>3, <1>6, <2>1
<1>7. CASE Go(r, "drop")
  <2>1. Moved(r, "drop", req[r].until, req[r].flag, req[r].at)
    BY <1>1, <1>7, MovedPc DEF Go, Stage
  <2> QED BY <1>3, <1>4, <2>1
<1> QED BY <1>2, <1>5, <1>6, <1>7 DEF RevokeFind

LEMMA PrepareSteps ==
  ASSUME GatewayInv, NEW r \in Request,
         CreateRegister(r) \/ RevokePrepare(r) \/ ProveFetch(r) \/ callZKProofService(r) \/ Refuse(r)
  PROVE  GatewayInv'
<1>1. Types /\ UNCHANGED <<now, clients, env, cache, qdrant, born, history>>
  BY DEF GatewayInv, CreateRegister, RevokePrepare, ProveFetch, callZKProofService, Refuse
<1>2. CASE End(r)
  BY <1>1, <1>2, EndStep
<1>3. ASSUME req[r].op = "create", req[r].pc = "register",
             req' = [req EXCEPT ![r].pc = "index", ![r].until = now + @]
      PROVE  GatewayInv'
  <2>1. now + req[r].until \in Nat
    BY Serving
  <2>2. req' = [req EXCEPT ![r].pc = "index", ![r].until = now + req[r].until]
    BY <1>1, <1>3 DEF Types, AnyRequest
  <2>3. Moved(r, "index", now + req[r].until, req[r].flag, req[r].at)
    BY <1>1, <2>1, <2>2, MovedUntil DEF Stage
  <2>4. ~Indexed(req[r].id)
    BY <1>3 DEF GatewayInv, Local
  <2>5. Fits(req[r], "index", now + req[r].until, req[r].flag, req[r].at)
    BY <1>3, <2>4, Serving DEF Fits
  <2> QED BY <1>1, <2>3, <2>5, MoveStep
<1>4. ASSUME NEW p \in {"find", "zk", "done"}, req' = [req EXCEPT ![r].pc = p],
             \/ p = "find" /\ req[r].op = "revoke" /\ req[r].pc = "prepare"
             \/ p # "find" /\ req[r].op = "prove"
      PROVE  GatewayInv'
  <2>1. Moved(r, p, req[r].until, req[r].flag, req[r].at)
    BY <1>1, <1>4, MovedPc DEF Stage
  <2>2. p = "find" => RevokeKnows(req[r].id, req[r].before, p, req[r].flag)
    BY <1>4, Serving DEF RevokeKnows
  <2>3. Fits(req[r], p, req[r].until, req[r].flag, req[r].at)
    BY <1>4, <2>2, Serving DEF Fits
  <2> QED BY <1>1, <2>1, <2>3, MoveStep
<1> QED BY <1>2, <1>3, <1>4 DEF CreateRegister, RevokePrepare, ProveFetch, callZKProofService,
           Refuse, At, Go, Answer

\* A request that names a consent is accepted: one on chain, one created before,
\* or one that a search has shown.
LEMMA AcceptStep ==
  ASSUME GatewayInv, NEW r \in Request, NEW n \in Name, NEW c \in Known,
         NEW op \in {"get", "verifyProof", "verify", "revoke", "prove"},
         NEW pc \in {"lookup", "fetch", "zk", "call", "prepare"}, Accept(r, op, pc, n, c, 0),
         op = "verify" => pc = "call", op = "revoke" => pc = "prepare",
         UNCHANGED <<now, clients, env, cache, qdrant, born, history>>
  PROVE  GatewayInv'
<1>1. c \in Id /\ c \in OnChainId \cup born /\ ChainOf[n] \in Chain
  BY DEF Known, Id, Accept, IsChainSupported, GatewayInv, IdsKnown, Types
<1>2. PICK b \in BOOLEAN :
        /\ b = (IF op = "revoke" THEN findByConsentID(c) ELSE Stored(n, c).status = "revoked")
        /\ op = "revoke" /\ b => findByConsentID(c)
        /\ op # "revoke" /\ b => GoneOnChain(n, c)
  <2>1. Stored(n, c).status = "revoked" => GoneOnChain(n, c)
    BY DEF Stored, GoneOnChain, Absent
  <2> QED BY <2>1 DEF findByConsentID
<1> DEFINE y == [op |-> op, pc |-> pc, name |-> n, id |-> c, until |-> 0, flag |-> FALSE, at |-> 0,
                 before |-> b]
<1>3. y \in AnyRequest
  BY <1>1 DEF AnyRequest, Stage
<1>4. req' = [req EXCEPT ![r] = y]
  BY <1>2 DEF Accept
<1>5. Sole(r) /\ req'[r] = y
  BY <1>3, <1>4 DEF Sole, GatewayInv, Types
<1>6. now \in Nat /\ now' = now /\ born' = born
  BY GatewayAssumption DEF GatewayInv, Types
<1>7. /\ op = "verify" => VerifyKnows(n, c, b, pc, 0, FALSE, 0)'
      /\ op = "revoke" => RevokeKnows(c, b, pc, FALSE)'
  <2>1. GoneOnChain(n, c) => GoneOnChain(n, c)'
    BY DEF GoneOnChain, env
  <2>2. findByConsentID(c) => findByConsentID(c)'
    BY IndexSame DEF qdrant
  <2> QED BY <1>2, <2>1, <2>2 DEF VerifyKnows, RevokeKnows
<1>8. Local(r)'
  <2>1. /\ req'[r].op = op /\ req'[r].pc = pc /\ req'[r].name = n /\ req'[r].id = c
        /\ req'[r].flag = FALSE /\ req'[r].at = 0 /\ req'[r].until = 0 /\ req'[r].before = b
    BY <1>5
  <2>2. /\ req'[r].op = "verify" =>
             VerifyKnows(req[r].name, req[r].id, req[r].before, req[r].pc, req[r].until, req[r].flag, req[r].at)'
        /\ req'[r].op = "revoke" => RevokeKnows(req[r].id, req[r].before, req[r].pc, req[r].flag)'
    BY <1>7, <2>1, Zenon DEF VerifyKnows, RevokeKnows, TrueOf, GoneOnChain, Settled, findByConsentID
  <2>3. 0 <= now /\ 0 \in Nat
    BY <1>6
  <2> QED BY <1>1, <1>6, <2>1, <2>2, <2>3 DEF Local
<1>9. req'[r].op # "create"
  BY <1>5
<1> QED BY <1>5, <1>8, <1>9, RequestOnly

\* The same for all five.
LEMMA NamedSteps ==
  ASSUME GatewayInv, NEW r \in Request, NEW n \in Name, NEW c \in Known,
         \/ GetConsent(r, n, c) \/ VerifyConsent(r, n, c) \/ VerifyConsentProof(r, n, c)
         \/ RevokeConsent(r, n, c) \/ GenerateProof(r, n, c)
  PROVE  GatewayInv'
BY AcceptStep DEF GetConsent, VerifyConsent, VerifyConsentProof, RevokeConsent, GenerateProof

(* Steps that write the cache, the index or the history.                     *)

LEMMA EntryMade ==
  ASSUME now \in Nat, NEW n, NEW c, NEW u \in Nat, NEW rev \in BOOLEAN, NEW ttl \in Nat \ {0},
         CacheConsent(n, c, u, rev, ttl)
  PROVE  \E e \in CacheEntry :
           /\ e.until = u /\ e.expires = now + ttl /\ e.expires > now
           /\ cache' = [cache EXCEPT ![<<n, c>>] = e]
<1>1. /\ Entry(u, rev, ttl) \in CacheEntry
      /\ Entry(u, rev, ttl).until = u /\ Entry(u, rev, ttl).expires = now + ttl
  BY DEF Entry, CacheEntry
<1>2. cache' = [cache EXCEPT ![<<n, c>>] = Entry(u, rev, ttl)] /\ now + ttl > now
  BY DEF CacheConsent, Key
<1> QED BY <1>1, <1>2

LEMMA CachePut ==
  ASSUME GatewayInv, Later, now' = now, NEW n \in Name, NEW c \in Id, NEW e \in CacheEntry,
         e.expires > now, cache' = [cache EXCEPT ![<<n, c>>] = e], TrueOf(n, c, e.until)'
  PROVE  /\ cache' \in [Name \X Id -> CacheEntry \cup {None}] /\ CacheTrue'
         /\ cache'[<<n, c>>] = e /\ e # None
         /\ \A k \in Name \X Id : k # <<n, c>> => cache'[k] = cache[k]
<1>1. now \in Nat /\ cache \in [Name \X Id -> CacheEntry \cup {None}]
  BY GatewayAssumption DEF GatewayInv, Types
<1>4. e # None
  BY GatewayAssumption DEF CacheEntry
<1>5. /\ cache' \in [Name \X Id -> CacheEntry \cup {None}]
      /\ cache'[<<n, c>>] = e
      /\ \A k \in Name \X Id : k # <<n, c>> => cache'[k] = cache[k]
  BY <1>1
<1>6. CacheTrue'
  <2> SUFFICES ASSUME NEW m \in Name, NEW d \in Id, cache'[<<m, d>>] # None
               PROVE  /\ TrueOf(m, d, cache[<<m, d>>].until)'
                      /\ cache'[<<m, d>>].expires > now'
    BY DEF CacheTrue
  <2>1. CASE m = n /\ d = c
    BY <1>5, <2>1 DEF TrueOf
  <2>2. CASE <<m, d>> # <<n, c>>
    <3>1. PICK f : f = cache[<<m, d>>]
      OBVIOUS
    <3>2. f # None /\ cache'[<<m, d>>] = f
      BY <1>5, <2>2, <3>1
    <3>3. TrueOf(m, d, f.until) /\ f.expires > now
      BY <3>1, <3>2 DEF GatewayInv, CacheTrue
    <3>4. TrueOf(m, d, f.until)'
      BY <3>3, TrueKept
    <3> QED BY <3>2, <3>3, <3>4 DEF TrueOf
  <2> QED BY <2>1, <2>2
<1> QED BY <1>4, <1>5, <1>6

\* A deleted entry makes no claim.
LEMMA CacheDelete ==
  ASSUME GatewayInv, Later, now' = now, NEW n \in Name, NEW c \in Id, InvalidateConsent(n, c)
  PROVE  /\ cache' \in [Name \X Id -> CacheEntry \cup {None}]
         /\ CacheTrue'
         /\ \A k \in Name \X Id : k # <<n, c>> => cache'[k] = cache[k]
<1>1. cache \in [Name \X Id -> CacheEntry \cup {None}]
  BY DEF GatewayInv, Types
<1>2. /\ cache' \in [Name \X Id -> CacheEntry \cup {None}]
      /\ cache'[<<n, c>>] = None
      /\ \A k \in Name \X Id : k # <<n, c>> => cache'[k] = cache[k]
  BY <1>1 DEF InvalidateConsent, Key
<1>3. CacheTrue'
  <2> SUFFICES ASSUME NEW m \in Name, NEW d \in Id, cache'[<<m, d>>] # None
               PROVE  /\ TrueOf(m, d, cache[<<m, d>>].until)'
                      /\ cache'[<<m, d>>].expires > now'
    BY DEF CacheTrue
  <2>1. PICK f : f = cache[<<m, d>>]
    OBVIOUS
  <2>2. f # None /\ cache'[<<m, d>>] = f
    BY <1>2, <2>1
  <2>3. TrueOf(m, d, f.until) /\ f.expires > now
    BY <2>1, <2>2 DEF GatewayInv, CacheTrue
  <2>4. TrueOf(m, d, f.until)'
    BY <2>3, TrueKept
  <2> QED BY <2>2, <2>3, <2>4 DEF TrueOf
<1> QED BY <1>2, <1>3

\* A cache of which nothing was written.
LEMMA CacheSame ==
  ASSUME GatewayInv, Later, now' = now, cache' = cache
  PROVE  CacheTrue'
<1> SUFFICES ASSUME NEW m \in Name, NEW d \in Id, cache[<<m, d>>] # None
             PROVE  TrueOf(m, d, cache[<<m, d>>].until)' /\ cache'[<<m, d>>].expires > now'
  BY DEF CacheTrue
<1>1. PICK f : f = cache[<<m, d>>]
  OBVIOUS
<1>2. TrueOf(m, d, f.until) /\ f.expires > now
  BY <1>1 DEF GatewayInv, CacheTrue
<1>3. TrueOf(m, d, f.until)'
  BY <1>2, TrueKept
<1> QED BY <1>1, <1>2, <1>3 DEF TrueOf

\* A step of one request that writes something.
LEMMA RequestWrites ==
  ASSUME GatewayInv, NEW r \in Request, Sole(r), Later, Types', UNCHANGED <<registry, events, held>>,
         CacheTrue', EntryKept', IndexTrue', IdsKnown', Local(r)',
         req'[r].op = "create" => req[r].op = "create" /\ req'[r].id = req[r].id,
         \A c \in NewId : \/ acked'[c] = acked[c] /\ (Indexed(c)' => Indexed(c))
                          \/ req[r].op = "create" /\ c = req[r].id
  PROVE  GatewayInv'
<1>1. (RegistryTrue /\ LogsTrue)'
  BY DEF GatewayInv, RegistryTrue, LogsTrue
<1>2. ASSUME NEW q \in Request, q # r PROVE Local(q)'
  <2>1. req'[q] = req[q]
    BY <1>2 DEF Sole
  <2>2. \A c \in NewId : req[q].op = "create" /\ c = req[q].id =>
          acked'[c] = None /\ (Indexed(c)' => Indexed(c))
    BY <1>2, Serving DEF GatewayInv, OneCreator
  <2> QED BY <2>1, <2>2, LocalKept
<1>3. OneCreator'
  BY DEF GatewayInv, OneCreator, Sole
<1> QED BY <1>1, <1>2, <1>3 DEF GatewayInv

\* Writes of the cache and of the locals leave the index alone.
LEMMA IndexAlone ==
  ASSUME GatewayInv, UNCHANGED <<points, pending>>, born \subseteq born'
  PROVE  /\ IndexTrue'
         /\ \A c : Indexed(c)' => Indexed(c)
         /\ now' \in Nat /\ now <= now' /\ held' = held /\ registry' = registry
              /\ (\A c \in NewId : acked[c] # None => acked'[c] = acked[c])
              => Later
BY IndexSame DEF GatewayInv, Later

\* CreateConsent: the id is new, so that nothing is indexed under it.
LEMMA CreateStep ==
  ASSUME GatewayInv, NEW r \in Request, NEW n \in Name, NEW d \in Duration, CreateConsent(r, n, d)
  PROVE  GatewayInv'
<1>1. PICK c \in NewId \ born : Accept(r, "create", "register", n, c, d) /\ born' = born \cup {c}
  BY DEF CreateConsent
<1>2. UNCHANGED <<now, clients, registry, events, held, cache, points, pending, acked, dropped, revoked>>
  BY DEF CreateConsent, env, qdrant, history
<1>3. PICK y \in AnyRequest :
        /\ req' = [req EXCEPT ![r] = y]
        /\ y.op = "create" /\ y.pc = "register" /\ y.name = n /\ y.id = c /\ y.at = 0
  <2>1. PICK b \in BOOLEAN : b = (Stored(n, c).status = "revoked")
    OBVIOUS
  <2> DEFINE y == [op |-> "create", pc |-> "register", name |-> n, id |-> c, until |-> d,
                   flag |-> FALSE, at |-> 0, before |-> b]
  <2>2. y \in AnyRequest
    BY GatewayAssumption DEF AnyRequest, Stage, Id
  <2>3. req' = [req EXCEPT ![r] = y]
    BY <1>1, <2>1 DEF Accept
  <2> QED BY <2>2, <2>3
<1>4. ChainOf[n] \in Chain
  BY <1>1 DEF Accept, IsChainSupported
<1>5. req' \in [Request -> AnyRequest] /\ req'[r] = y /\ \A q \in Request : q # r => req'[q] = req[q]
  BY <1>3 DEF GatewayInv, Types
<1>6. now \in Nat /\ born \subseteq born'
  BY <1>1, GatewayAssumption DEF GatewayInv, Types
<1>7. Later /\ IndexTrue' /\ \A e : Indexed(e)' => Indexed(e)
  BY <1>2, <1>6, IndexAlone
<1>8. Types'
  BY <1>1, <1>2, <1>5 DEF GatewayInv, Types
<1>9. (RegistryTrue /\ LogsTrue /\ CacheTrue /\ EntryKept)'
  BY <1>2 DEF GatewayInv, RegistryTrue, LogsTrue, CacheTrue, TrueOf, EntryKept
<1>10. IdsKnown'
  BY <1>2, <1>6, IndexSame DEF GatewayInv, IdsKnown
<1>11. acked[c] = None /\ ~Indexed(c)
  <2>1. acked[c] = None
    BY <1>1 DEF GatewayInv, IdsKnown
  <2>2. ~findByConsentID(c)
    BY <1>1 DEF GatewayInv, Types, findByConsentID
  <2>3. ~UpsertPending(c)
    BY <1>1 DEF GatewayInv, IndexTrue, UpsertPending
  <2> QED BY <2>1, <2>2, <2>3 DEF Indexed
<1>12. ASSUME NEW q \in Request PROVE Local(q)'
  <2>1. CASE q = r
    <3>1. c \in born' /\ acked'[c] = None /\ ~Indexed(c)' /\ now' \in Nat
      BY <1>1, <1>2, <1>6, <1>7, <1>11
    <3>2. /\ req'[r].op = "create" /\ req'[r].pc = "register" /\ req'[r].name = n
          /\ req'[r].id = c /\ req'[r].at = 0
      BY <1>3, <1>5
    <3> QED BY <1>4, <2>1, <3>1, <3>2 DEF Local
  <2>2. CASE q # r
    <3>1. \A e \in NewId : req[q].op = "create" /\ e = req[q].id =>
            acked'[e] = None /\ (Indexed(e)' => Indexed(e))
      BY <1>2, <1>7, Serving
    <3> QED BY <1>5, <1>7, <2>2, <3>1, LocalKept
  <2> QED BY <2>1, <2>2
<1>13. OneCreator'
  <2>1. \A q \in Request : q # r /\ req'[q].op = "create" => req'[q].id \in born
    BY <1>5, Serving
  <2>2. req'[r].id = c /\ c \notin born
    BY <1>1, <1>3, <1>5
  <2>3. \A p, q \in Request : p # r /\ q # r /\ p # q /\ req'[p].op = "create" /\ req'[q].op = "create"
            => req'[p].id # req'[q].id
    BY <1>5 DEF GatewayInv, OneCreator
  <2> QED BY <2>1, <2>2, <2>3 DEF OneCreator
<1> QED BY <1>7, <1>8, <1>9, <1>10, <1>12, <1>13 DEF GatewayInv

\* Qdrant acknowledges one more update.
LEMMA PendingGrows ==
  ASSUME pending \in Seq(Update), NEW u \in Update, pending' = Append(pending, u)
  PROVE  /\ pending' \in Seq(Update)
         /\ \A i \in DOMAIN pending : i \in DOMAIN pending' /\ pending'[i] = pending[i]
         /\ \A i \in DOMAIN pending' : \/ i \in DOMAIN pending /\ i # Len(pending) + 1
                                       \/ i = Len(pending) + 1 /\ pending'[i] = u
         /\ Len(pending) + 1 \in DOMAIN pending' /\ pending'[Len(pending) + 1] = u
OBVIOUS

\* So far nothing has changed but what it will do in the end.
LEMMA UpdateTaken ==
  ASSUME GatewayInv, NEW u \in Update, pending' = Append(pending, u), points' = points, born' = born,
         u.doc.id \in born,
         u.update = "payload" => u.doc.revoked,
         u.update = "upsert" => ~Indexed(u.doc.id)
  PROVE  /\ pending' \in Seq(Update) /\ IndexTrue'
         /\ \A c : findByConsentID(c)' <=> findByConsentID(c)
         /\ \A c : Settled(c) => Settled(c)'
         /\ \A c : c # u.doc.id \/ u.update # "upsert" => (Indexed(c)' => Indexed(c))
         /\ u.update = "payload" /\ findByConsentID(u.doc.id) => Settled(u.doc.id)'
<1>1. pending \in Seq(Update) /\ IndexTrue
  BY DEF GatewayInv, Types
<1>2. \A c : /\ findByConsentID(c)' <=> findByConsentID(c)
             /\ AllRevoked(c)' <=> AllRevoked(c)
  BY DEF findByConsentID, AllRevoked
<1>3. \A c : MarkPending(c) => MarkPending(c)'
  BY <1>1, PendingGrows DEF MarkPending
<1>4. \A c : UpsertPending(c)' => UpsertPending(c) \/ (u.update = "upsert" /\ c = u.doc.id)
  BY <1>1, PendingGrows DEF UpsertPending
<1>5. u.update = "payload" => MarkPending(u.doc.id)'
  <2>1. PICK d \in NewId : d = u.doc.id
    BY DEF Update
  <2>2. u.update = "payload" => MarkPending(d)'
    BY <1>1, <2>1, PendingGrows DEF MarkPending
  <2> QED BY <2>1, <2>2
<1>6. IndexTrue'
  <2>1. ASSUME NEW i \in DOMAIN pending'
        PROVE  /\ pending'[i].doc.id \in born'
               /\ pending'[i].update = "payload" => pending'[i].doc.revoked
               /\ pending'[i].update = "upsert" => ~findByConsentID(pending[i].doc.id)'
    <3>1. PICK v : v = pending'[i]
      OBVIOUS
    <3>2. v.doc.id \in born /\ (v.update = "payload" => v.doc.revoked)
          /\ (v.update = "upsert" => ~findByConsentID(v.doc.id))
      BY <1>1, <3>1, PendingGrows DEF IndexTrue, Indexed
    <3>3. findByConsentID(v.doc.id)' <=> findByConsentID(v.doc.id)
      BY DEF findByConsentID
    <3> QED BY <3>1, <3>2, <3>3 DEF findByConsentID
  <2>2. ASSUME NEW i \in DOMAIN pending', NEW j \in DOMAIN pending', i # j,
               pending'[i].update = "upsert", pending'[j].update = "upsert"
        PROVE  pending'[i].doc.id # pending'[j].doc.id
    <3>1. \A k \in DOMAIN pending : pending[k].update = "upsert" /\ u.update = "upsert" =>
            pending[k].doc.id # u.doc.id
      BY DEF Indexed, UpsertPending
    <3>2. \/ i \in DOMAIN pending /\ pending'[i] = pending[i]
          \/ i = Len(pending) + 1 /\ pending'[i] = u
      BY <1>1, PendingGrows
    <3>3. \/ j \in DOMAIN pending /\ pending'[j] = pending[j]
          \/ j = Len(pending) + 1 /\ pending'[j] = u
      BY <1>1, PendingGrows
    <3> QED BY <1>1, <2>2, <3>1, <3>2, <3>3 DEF IndexTrue
  <2> QED BY <2>1, <2>2 DEF IndexTrue
<1> QED BY <1>1, <1>2, <1>3, <1>4, <1>5, <1>6, PendingGrows DEF Settled, Indexed

\* CreateIndex: the new document is the only one of its id.
LEMMA CreateIndexStep ==
  ASSUME GatewayInv, NEW r \in Request, CreateIndex(r)
  PROVE  GatewayInv'
<1>1. /\ req[r].op = "create" /\ req[r].pc = "index" /\ Types
      /\ UNCHANGED <<now, clients, env, cache, points, born, history>>
      /\ UNCHANGED <<registry, events, held, acked, dropped, revoked>>
  BY DEF CreateIndex, At, GatewayInv, env, history
<1>2. CASE End(r) /\ UNCHANGED pending
  BY <1>1, <1>2, EndStep DEF qdrant
<1>3. CASE Go(r, "cache")
  <2>1. Moved(r, "cache", req[r].until, req[r].flag, req[r].at)
    BY <1>1, <1>3, MovedPc DEF Go, Stage
  <2>2. Fits(req[r], "cache", req[r].until, req[r].flag, req[r].at)
    BY <1>1, Serving DEF Fits
  <2>3. CASE UNCHANGED pending
    BY <1>1, <2>1, <2>2, <2>3, MoveStep DEF qdrant
  <2>4. CASE IndexConsent(Document(r))
    <3>1. PICK x \in AnyRequest : x = req[r]
      BY <1>1 DEF Types
    <3>2. /\ x.op = "create" /\ x.id \in born /\ x.id \in NewId /\ acked[x.id] = None
          /\ ChainOf[x.name] \in Chain /\ x.at <= now /\ now \in Nat
      BY <1>1, <3>1, Serving
    <3>3. ~Indexed(x.id)
      BY <1>1, <3>1 DEF GatewayInv, Local
    <3>4. PICK u \in Update : /\ pending' = Append(pending, u)
                              /\ u.update = "upsert" /\ u.doc.id = x.id
      <4>1. [update |-> "upsert", doc |-> [id |-> x.id, revoked |-> FALSE]] \in Update
        BY <3>2 DEF Update
      <4> QED BY <2>4, <3>1, <4>1 DEF IndexConsent, Document
    <3>5. /\ pending' \in Seq(Update) /\ IndexTrue'
          /\ \A c : findByConsentID(c)' <=> findByConsentID(c)
          /\ \A c : Settled(c) => Settled(c)'
          /\ \A c : c # x.id => (Indexed(c)' => Indexed(c))
      BY <1>1, <3>2, <3>3, <3>4, UpdateTaken
    <3>6. Later
      BY <1>1, <3>2, <3>5 DEF Later
    <3>7. Sole(r)
      BY <2>1 DEF Moved
    <3>8. Types'
      BY <1>1, <3>5, <3>7 DEF Types, Sole
    <3>9. (CacheTrue /\ EntryKept)'
      BY <1>1 DEF GatewayInv, CacheTrue, TrueOf, EntryKept
    <3>10. IdsKnown'
      BY <1>1, <3>5 DEF GatewayInv, IdsKnown
    <3>11. /\ req'[r].op = "create" /\ req'[r].id = x.id /\ req'[r].name = x.name
           /\ req'[r].pc = "cache" /\ req'[r].at = x.at
      BY <2>1, <3>1, <3>2 DEF Moved
    <3>12. Local(r)'
      BY <1>1, <3>2, <3>11 DEF Local
    <3>13. \A c \in NewId : \/ acked'[c] = acked[c] /\ (Indexed(c)' => Indexed(c))
                            \/ req[r].op = "create" /\ c = req[r].id
      BY <1>1, <3>1, <3>5
    <3> QED BY <1>1, <3>1, <3>5, <3>6, <3>7, <3>8, <3>9, <3>10, <3>11, <3>12, <3>13, RequestWrites
  <2> QED BY <1>3, <2>3, <2>4 DEF CreateIndex, End, Go
<1> QED BY <1>2, <1>3 DEF CreateIndex

\* CreateCache: the entry and the answer 201 at once.
LEMMA CreateCacheStep ==
  ASSUME GatewayInv, NEW r \in Request, CreateCache(r)
  PROVE  GatewayInv'
<1>1. /\ req[r].op = "create" /\ Types /\ End(r)
      /\ UNCHANGED <<now, clients, env, qdrant, born, dropped, revoked>>
      /\ UNCHANGED <<registry, events, held, points, pending>>
  BY DEF CreateCache, At, GatewayInv, env, qdrant
<1>2. CASE UNCHANGED <<cache, acked>>
  BY <1>1, <1>2, EndStep DEF history
<1>3. ASSUME NEW ok \in BOOLEAN,
             IF ok THEN CacheConsent(req[r].name, req[r].id, req[r].until, FALSE, CreateTTL)
             ELSE UNCHANGED cache,
             acked' = [acked EXCEPT ![req[r].id] =
                         [name |-> req[r].name, until |-> req[r].until, at |-> now, cached |-> ok]]
      PROVE  GatewayInv'
  <2>1. PICK n \in Name, c \in NewId, u \in Nat : n = req[r].name /\ c = req[r].id /\ u = req[r].until
    BY <1>1, Serving
  <2>2. c \in born /\ acked[c] = None /\ c \notin OnChainId /\ c \in Id /\ now \in Nat /\ now' = now
    BY <1>1, <2>1, Serving, GatewayAssumption DEF Id
  <2>3. PICK a \in Creation : a = [name |-> n, until |-> u, at |-> now, cached |-> ok]
    <3>1. [name |-> n, until |-> u, at |-> now, cached |-> ok] \in Creation
      BY <1>3, <2>2 DEF Creation
    <3> QED BY <3>1
  <2>4. a # None /\ a.name = n /\ a.until = u /\ a.at = now /\ a.cached = ok
    BY <2>3, GatewayAssumption DEF Creation
  <2>5. /\ acked' \in [NewId -> Creation \cup {None}]
        /\ acked'[c] = a /\ \A d \in NewId : d # c => acked'[d] = acked[d]
    BY <1>1, <1>3, <2>1, <2>3 DEF Types
  <2>6. Later /\ IndexTrue' /\ \A d : Indexed(d)' => Indexed(d)
    BY <1>1, <2>2, <2>5, IndexAlone
  <2>7. TrueOf(n, c, u)'
    BY <2>2, <2>4, <2>5 DEF TrueOf
  <2>8. /\ cache' \in [Name \X Id -> CacheEntry \cup {None}] /\ CacheTrue'
        /\ \A k \in Name \X Id : k # <<n, c>> => cache'[k] = cache[k]
        /\ ok => /\ cache'[<<n, c>>] # None /\ cache'[<<n, c>>].until = u
                 /\ cache'[<<n, c>>].expires = now + CreateTTL
    <3>1. CASE ok
      <4>1. CacheConsent(n, c, u, FALSE, CreateTTL)
        BY <1>3, <2>1, <3>1
      <4>2. CreateTTL \in Nat \ {0}
        BY GatewayAssumption
      <4>3. PICK e \in CacheEntry :
              /\ e.until = u /\ e.expires = now + CreateTTL /\ e.expires > now
              /\ cache' = [cache EXCEPT ![<<n, c>>] = e]
        <5>1. PICK f \in BOOLEAN : f = FALSE
          OBVIOUS
        <5>2. CacheConsent(n, c, u, f, CreateTTL)
          BY <4>1, <5>1
        <5> QED BY <2>2, <4>2, <5>2, EntryMade
      <4>4. /\ cache' \in [Name \X Id -> CacheEntry \cup {None}] /\ CacheTrue'
            /\ cache'[<<n, c>>] = e /\ e # None
            /\ \A k \in Name \X Id : k # <<n, c>> => cache'[k] = cache[k]
        BY <2>2, <2>6, <2>7, <4>3, CachePut
      <4> QED BY <3>1, <4>3, <4>4
    <3>2. CASE ~ok
      BY <1>1, <1>3, <2>2, <2>6, <3>2, CacheSame DEF Types
    <3> QED BY <3>1, <3>2
  <2>9. EntryKept'
    <3> SUFFICES ASSUME NEW d \in NewId, acked'[d] # None, acked'[d].cached,
                        now' < acked'[d].at + CreateTTL, d \notin dropped'
                 PROVE  /\ cache'[<<acked'[d].name, d>>] # None
                        /\ cache'[<<acked'[d].name, d>>].until = acked'[d].until
                        /\ cache'[<<acked'[d].name, d>>].expires = acked'[d].at + CreateTTL
      BY DEF EntryKept
    <3>1. CASE d = c
      BY <2>4, <2>5, <2>8, <3>1
    <3>2. CASE d # c
      <4>1. acked'[d] = acked[d] /\ acked[d].name \in Name /\ d \in Id
        BY <1>1, <2>5, <3>2 DEF Types, Creation, Id
      <4>2. cache'[<<acked[d].name, d>>] = cache[<<acked[d].name, d>>]
        BY <2>8, <3>2, <4>1
      <4> QED BY <1>1, <2>2, <4>1, <4>2 DEF GatewayInv, EntryKept
    <3> QED BY <3>1, <3>2
  <2>10. IdsKnown'
    <3>1. \A d \in NewId : acked'[d] # None => d \in born'
      BY <1>1, <2>2, <2>5 DEF GatewayInv, IdsKnown
    <3>2. \A d \in revoked : d \in NewId /\ Settled(d)'
      BY <1>1, IndexSame DEF GatewayInv, IdsKnown
    <3> QED BY <1>1, <3>1, <3>2 DEF IdsKnown
  <2>11. Sole(r) /\ req'[r] = Idle
    BY <1>1, IdleOk DEF End, Sole, Types
  <2>12. Local(r)'
    BY <2>2, <2>11, IdleOk DEF Local
  <2>13. Types'
    BY <1>1, <2>5, <2>8, <2>11 DEF Types, Sole
  <2>14. \A d \in NewId : \/ acked'[d] = acked[d] /\ (Indexed(d)' => Indexed(d))
                          \/ req[r].op = "create" /\ d = req[r].id
    BY <1>1, <2>1, <2>5, <2>6
  <2> QED BY <1>1, <2>6, <2>8, <2>9, <2>10, <2>11, <2>12, <2>13, <2>14, IdleOk, RequestWrites
<1> QED BY <1>2, <1>3 DEF CreateCache

\* The entries of creations are not touched when the entry of another id is.
LEMMA EntriesApart ==
  ASSUME GatewayInv, NEW n, NEW c, c \notin NewId, UNCHANGED <<now, acked, dropped>>,
         \A k \in Name \X Id : k # <<n, c>> => cache'[k] = cache[k]
  PROVE  EntryKept'
<1> SUFFICES ASSUME NEW d \in NewId, acked[d] # None, acked[d].cached,
                    now < acked[d].at + CreateTTL, d \notin dropped
             PROVE  /\ cache'[<<acked[d].name, d>>] # None
                    /\ cache'[<<acked[d].name, d>>].until = acked[d].until
                    /\ cache'[<<acked[d].name, d>>].expires = acked[d].at + CreateTTL
  BY DEF EntryKept
<1>1. acked[d].name \in Name /\ d \in Id /\ d # c
  BY DEF GatewayInv, Types, Creation, Id
<1>2. cache'[<<acked[d].name, d>>] = cache[<<acked[d].name, d>>]
  BY <1>1
<1> QED BY <1>2 DEF GatewayInv, EntryKept

\* GetFill: the handler caches what it read before.
LEMMA GetFillStep ==
  ASSUME GatewayInv, NEW r \in Request, GetFill(r)
  PROVE  GatewayInv'
<1>1. /\ req[r].op = "get" /\ req[r].pc = "fill" /\ Types
      /\ UNCHANGED <<now, clients, env, qdrant, born, history>>
      /\ UNCHANGED <<registry, events, held, points, pending, acked, dropped, revoked>>
  BY DEF GetFill, At, GatewayInv, env, qdrant, history
<1>2. Moved(r, "done", req[r].until, req[r].flag, req[r].at)
  BY <1>1, MovedPc DEF GetFill, Answer, Stage
<1>3. PICK n \in Name, c \in Id, u \in Nat, f \in BOOLEAN :
        n = req[r].name /\ c = req[r].id /\ u = req[r].until /\ f = req[r].flag
  BY <1>1, Serving
<1>4. c \in OnChainId /\ TrueOf(n, c, u) /\ ChainOf[n] \in Chain
  BY <1>1, <1>3 DEF GatewayInv, Local
<1>5. CASE UNCHANGED cache
  <2>1. Fits(req[r], "done", req[r].until, req[r].flag, req[r].at)
    BY <1>1, <1>3, <1>4, Serving DEF Fits
  <2> QED BY <1>1, <1>2, <1>5, <2>1, MoveStep
<1>6. CASE CacheConsent(n, c, u, f, FillTTL)
  <2>1. now' = now /\ now \in Nat
    BY <1>1, Serving
  <2>2. Later /\ IndexTrue' /\ \A d : Indexed(d)' => Indexed(d)
    BY <1>1, <2>1, IndexAlone
  <2>3. TrueOf(n, c, u)'
    BY <1>4, <2>2, TrueKept
  <2>4. /\ cache' \in [Name \X Id -> CacheEntry \cup {None}] /\ CacheTrue'
        /\ \A k \in Name \X Id : k # <<n, c>> => cache'[k] = cache[k]
    <3>1. FillTTL \in Nat \ {0}
      BY GatewayAssumption
    <3>2. PICK e \in CacheEntry :
            /\ e.until = u /\ e.expires > now
            /\ cache' = [cache EXCEPT ![<<n, c>>] = e]
      BY <1>6, <2>1, <3>1, EntryMade
    <3> QED BY <2>1, <2>2, <2>3, <3>2, CachePut
  <2>5. c \notin NewId
    BY <1>4, GatewayAssumption
  <2>6. EntryKept'
    BY <1>1, <2>4, <2>5, EntriesApart
  <2>7. IdsKnown'
    BY <1>1, IndexSame DEF GatewayInv, IdsKnown
  <2>8. /\ Sole(r) /\ req'[r].op = "get" /\ req'[r].pc = "done" /\ req'[r].name = n
        /\ req'[r].id = c /\ req'[r].until = u /\ req'[r].at = req[r].at
    BY <1>1, <1>2, <1>3 DEF Moved
  <2>9. Local(r)'
    <3>1. req[r].at <= now
      BY Serving
    <3> QED BY <1>4, <2>1, <2>3, <2>8, <3>1 DEF Local, TrueOf
  <2>10. Types'
    BY <1>1, <2>4, <2>8 DEF Types, Sole
  <2> QED BY <1>1, <2>2, <2>4, <2>6, <2>7, <2>8, <2>9, <2>10, RequestWrites
<1> QED BY <1>3, <1>5, <1>6 DEF GetFill

\* RevokeMark: Qdrant takes the flag for the point that was found.
LEMMA RevokeMarkStep ==
  ASSUME GatewayInv, NEW r \in Request, RevokeMark(r)
  PROVE  GatewayInv'
<1>1. /\ req[r].op = "revoke" /\ req[r].pc = "mark" /\ Types
      /\ UNCHANGED <<now, clients, env, cache, points, born, history>>
      /\ UNCHANGED <<registry, events, held, acked, dropped, revoked>>
  BY DEF RevokeMark, At, GatewayInv, env, history
<1>2. PICK x \in AnyRequest : x = req[r]
  BY <1>1 DEF Types
<1>3. /\ x.op = "revoke" /\ x.at <= now /\ ChainOf[x.name] \in Chain /\ now \in Nat
      /\ x.flag \in BOOLEAN /\ ~x.flag /\ findByConsentID(x.id) /\ x.id \in OnChainId \cup born
  BY <1>1, <1>2, Serving DEF RevokeKnows
<1>4. CASE Go(r, "drop") /\ UNCHANGED pending
  <2>1. Moved(r, "drop", x.until, x.flag, x.at)
    BY <1>1, <1>2, <1>4, MovedPc DEF Go, Stage
  <2>2. RevokeKnows(x.id, x.before, "drop", x.flag)
    BY <1>3 DEF RevokeKnows
  <2>3. Fits(req[r], "drop", x.until, x.flag, x.at)
    BY <1>2, <1>3, <2>2 DEF Fits
  <2> QED BY <1>1, <1>4, <2>1, <2>3, MoveStep DEF qdrant
<1>5. CASE UpdateConsentRevoked(req[r].id)
           /\ req' = [req EXCEPT ![r].pc = "drop", ![r].flag = TRUE]
  <2>1. Moved(r, "drop", x.until, TRUE, x.at)
    BY <1>1, <1>2, <1>5, MovedFlag DEF Stage
  <2>2. x.id \in born /\ x.id \in NewId
    BY <1>1, <1>3 DEF findByConsentID, Types
  <2>3. PICK u \in Update : /\ pending' = Append(pending, u)
                            /\ u.update = "payload" /\ u.doc.id = x.id /\ u.doc.revoked
    <3>1. [update |-> "payload", doc |-> [id |-> x.id, revoked |-> TRUE]] \in Update
      BY <2>2 DEF Update
    <3> QED BY <1>2, <1>5, <3>1 DEF UpdateConsentRevoked
  <2>4. /\ pending' \in Seq(Update) /\ IndexTrue'
        /\ \A c : findByConsentID(c)' <=> findByConsentID(c)
        /\ \A c : Settled(c) => Settled(c)'
        /\ \A c : Indexed(c)' => Indexed(c)
        /\ Settled(x.id)'
    BY <1>1, <1>3, <2>2, <2>3, UpdateTaken
  <2>5. Later
    BY <1>1, <1>3, <2>4 DEF Later
  <2>6. (CacheTrue /\ EntryKept)'
    BY <1>1 DEF GatewayInv, CacheTrue, TrueOf, EntryKept
  <2>7. IdsKnown'
    BY <1>1, <2>4 DEF GatewayInv, IdsKnown
  <2>8. /\ Sole(r) /\ req'[r].op = "revoke" /\ req'[r].pc = "drop" /\ req'[r].name = x.name
        /\ req'[r].id = x.id /\ req'[r].at = x.at /\ req'[r].before = x.before /\ req'[r].flag = TRUE
    BY <1>1, <1>2, <2>1 DEF Moved
  <2>9. RevokeKnows(x.id, x.before, "drop", TRUE)'
    BY <1>3, <2>4 DEF RevokeKnows
  <2>10. Local(r)'
    BY <1>1, <1>3, <2>8, <2>9 DEF Local
  <2>11. Types'
    BY <1>1, <2>4, <2>8 DEF Types, Sole
  <2> QED BY <1>1, <2>4, <2>5, <2>6, <2>7, <2>8, <2>10, <2>11, RequestWrites
<1> QED BY <1>4, <1>5 DEF RevokeMark

\* RevokeDrop: the entry under the name in the request is deleted; the answer.
LEMMA RevokeDropStep ==
  ASSUME GatewayInv, NEW r \in Request, RevokeDrop(r)
  PROVE  GatewayInv'
<1>1. /\ req[r].op = "revoke" /\ req[r].pc = "drop" /\ Types
      /\ UNCHANGED <<now, clients, env, qdrant, born, acked>>
      /\ UNCHANGED <<registry, events, held, points, pending>>
  BY DEF RevokeDrop, At, GatewayInv, env, qdrant
<1>2. CASE End(r) /\ UNCHANGED <<cache, dropped, revoked>>
  BY <1>1, <1>2, EndStep DEF history
<1>3. CASE Answer(r)
           /\ revoked' = (IF req[r].flag /\ req[r].before THEN revoked \cup {req[r].id} ELSE revoked)
           /\ \/ /\ InvalidateConsent(req[r].name, req[r].id)
                 /\ dropped' = dropped \cup {c \in NewId : /\ c = req[r].id /\ acked[c] # None
                                                           /\ acked[c].name = req[r].name}
              \/ UNCHANGED <<cache, dropped>>
  <2>1. PICK x \in AnyRequest : x = req[r]
    BY <1>1 DEF Types
  <2>2. /\ x.name \in Name /\ x.id \in Id /\ x.op = "revoke" /\ x.at <= now /\ ChainOf[x.name] \in Chain
        /\ now \in Nat /\ x.id \in OnChainId \cup born
    BY <1>1, <2>1, Serving
  <2>3. x.flag /\ x.before => x.id \in NewId /\ Settled(x.id)
    <3>1. RevokeKnows(x.id, x.before, "drop", x.flag)
      BY <1>1, <2>1, Serving
    <3> QED BY <1>1, <3>1 DEF RevokeKnows, findByConsentID, Types
  <2>4. OnChainId \cap NewId = {}
    BY GatewayAssumption
  <2>5. Later /\ IndexTrue' /\ \A c : Indexed(c)' => Indexed(c)
    BY <1>1, <2>2, IndexAlone
  <2>6. /\ cache' \in [Name \X Id -> CacheEntry \cup {None}] /\ CacheTrue'
        /\ \A k \in Name \X Id : k # <<x.name, x.id>> => cache'[k] = cache[k]
        /\ cache' # cache => \A c \in NewId : c = x.id /\ acked[c] # None /\ acked[c].name = x.name =>
                                c \in dropped'
        /\ dropped \subseteq dropped'
    <3>1. CASE /\ InvalidateConsent(req[r].name, req[r].id)
               /\ dropped' = dropped \cup {c \in NewId : /\ c = req[r].id /\ acked[c] # None
                                                         /\ acked[c].name = req[r].name}
      <4>1. InvalidateConsent(x.name, x.id) /\ now' = now
        BY <1>1, <2>1, <3>1
      <4>2. /\ cache' \in [Name \X Id -> CacheEntry \cup {None}] /\ CacheTrue'
            /\ \A k \in Name \X Id : k # <<x.name, x.id>> => cache'[k] = cache[k]
        BY <2>2, <2>5, <4>1, CacheDelete
      <4> QED BY <2>1, <3>1, <4>2
    <3>2. CASE UNCHANGED <<cache, dropped>>
      BY <1>1, <2>5, <3>2, CacheSame DEF Types
    <3> QED BY <1>3, <3>1, <3>2
  <2>7. EntryKept'
    <3> SUFFICES ASSUME NEW d \in NewId, acked[d] # None, acked[d].cached,
                        now < acked[d].at + CreateTTL, d \notin dropped'
                 PROVE  /\ cache'[<<acked[d].name, d>>] # None
                        /\ cache'[<<acked[d].name, d>>].until = acked[d].until
                        /\ cache'[<<acked[d].name, d>>].expires = acked[d].at + CreateTTL
      BY <1>1 DEF EntryKept
    <3>1. acked[d].name \in Name /\ d \in Id
      BY <1>1 DEF Types, Creation, Id
    <3>2. cache'[<<acked[d].name, d>>] = cache[<<acked[d].name, d>>]
      BY <2>6, <3>1
    <3> QED BY <2>6, <3>2 DEF GatewayInv, EntryKept
  <2>8. IdsKnown'
    <3>1. \A c \in revoked' : c \in revoked \/ (c = x.id /\ x.flag /\ x.before)
      BY <1>3, <2>1
    <3>2. \A c \in revoked' : c \in NewId /\ Settled(c)
      BY <2>3, <3>1 DEF GatewayInv, IdsKnown
    <3>3. \A c \in revoked' : c \in NewId /\ Settled(c)'
      BY <2>5, <3>2 DEF Later
    <3> QED BY <1>1, <3>3 DEF GatewayInv, IdsKnown
  <2>9. dropped' \subseteq born
    <3>1. \A c \in dropped' : c \in dropped \/ (c \in NewId /\ c = x.id)
      BY <1>3, <2>1
    <3> QED BY <1>1, <2>2, <2>4, <3>1 DEF GatewayInv, IdsKnown, Types
  <2>10. Moved(r, "done", x.until, x.flag, x.at)
    BY <1>1, <1>3, <2>1, MovedPc DEF Answer, Stage
  <2>11. /\ Sole(r) /\ req'[r].op = "revoke" /\ req'[r].pc = "done" /\ req'[r].name = x.name
         /\ req'[r].id = x.id /\ req'[r].at = x.at /\ req'[r].before = x.before /\ req'[r].flag = x.flag
    BY <2>1, <2>2, <2>10 DEF Moved
  <2>12. Local(r)'
    <3>1. x.before => findByConsentID(x.id)'
      BY <1>1, <2>1, <2>5, Serving DEF Later, RevokeKnows
    <3>2. RevokeKnows(x.id, x.before, "done", x.flag)'
      BY <3>1 DEF RevokeKnows
    <3> QED BY <1>1, <2>2, <2>11, <3>2 DEF Local
  <2>13. Types'
    BY <1>1, <2>6, <2>9, <2>11 DEF Types, Sole
  <2> QED BY <1>1, <2>5, <2>6, <2>7, <2>8, <2>11, <2>12, <2>13, RequestWrites
<1> QED BY <1>1, <1>2, <1>3 DEF RevokeDrop

(* The surroundings.                                                         *)

LEMMA OutsideStep ==
  ASSUME GatewayInv, Later, Types', (RegistryTrue /\ LogsTrue /\ CacheTrue /\ EntryKept)',
         IndexTrue', \A c : Indexed(c)' => Indexed(c), UNCHANGED <<req, born, history>>
  PROVE  GatewayInv'
<1>1. IdsKnown'
  BY DEF GatewayInv, IdsKnown, history, Later
<1>2. ASSUME NEW q \in Request PROVE Local(q)'
  <2>1. \A c \in NewId : req[q].op = "create" /\ c = req[q].id =>
          acked'[c] = None /\ (Indexed(c)' => Indexed(c))
    BY Serving DEF history
  <2> QED BY <2>1, LocalKept
<1>3. OneCreator'
  BY DEF GatewayInv, OneCreator
<1> QED BY <1>1, <1>2, <1>3 DEF GatewayInv

\* Qdrant applies the oldest update.  A first point is unrevoked, and its id was never
\* found before; a mark is what Settled waits for.
LEMMA ApplyUpdateStep == ASSUME GatewayInv, ApplyUpdate PROVE GatewayInv'
<1>1. /\ pending # << >> /\ pending' = Tail(pending)
      /\ pending \in Seq(Update) /\ IndexTrue /\ Types /\ now \in Nat
      /\ UNCHANGED <<now, clients, registry, events, held, cache, req, born, acked, dropped, revoked>>
      /\ UNCHANGED history
  BY GatewayAssumption DEF ApplyUpdate, GatewayInv, Types, env, history
<1>2. /\ pending' \in Seq(Update) /\ 1 \in DOMAIN pending
      /\ \A i \in DOMAIN pending' : i + 1 \in DOMAIN pending /\ i + 1 # 1 /\ pending'[i] = pending[i + 1]
      /\ \A i \in DOMAIN pending : i # 1 => /\ i - 1 \in DOMAIN pending'
                                            /\ pending'[i - 1] = pending[i]
  BY <1>1
<1>3. PICK u \in Update : u = pending[1] /\ u = Head(pending)
  BY <1>1, <1>2
<1>4. PICK d \in NewId : /\ d = u.doc.id /\ d \in born /\ u.doc \in [id : born, revoked : BOOLEAN]
                         /\ u.update = "payload" => u.doc.revoked
                         /\ u.update = "upsert" => ~findByConsentID(d)
                         /\ u.update \in {"upsert", "payload"}
  BY <1>1, <1>2, <1>3 DEF IndexTrue, Update
<1>5. /\ \A c : MarkPending(c) => MarkPending(c)' \/ (u.update = "payload" /\ c = d)
      /\ \A c : UpsertPending(c)' => UpsertPending(c) /\ ~(u.update = "upsert" /\ c = d)
      /\ u.update = "upsert" => UpsertPending(d)
  <2>1. ASSUME NEW c, MarkPending(c), ~(u.update = "payload" /\ c = d) PROVE MarkPending(c)'
    <3>1. PICK i \in DOMAIN pending : pending[i].update = "payload" /\ pending[i].doc.id = c
      BY <2>1 DEF MarkPending
    <3>2. i # 1
      BY <1>3, <1>4, <2>1, <3>1
    <3>3. i - 1 \in DOMAIN pending' /\ pending'[i - 1] = pending[i]
      BY <1>2, <3>2
    <3> QED BY <3>1, <3>3 DEF MarkPending
  <2>2. ASSUME NEW c, UpsertPending(c)' PROVE UpsertPending(c) /\ ~(u.update = "upsert" /\ c = d)
    <3>1. PICK i \in DOMAIN pending' : pending'[i].update = "upsert" /\ pending'[i].doc.id = c
      BY <2>2 DEF UpsertPending
    <3>2. PICK j \in DOMAIN pending : j = i + 1 /\ j # 1 /\ pending'[i] = pending[j]
      BY <1>2
    <3>3. pending[j].update = "upsert" /\ pending[j].doc.id = c
      BY <3>1, <3>2
    <3>4. ~(u.update = "upsert" /\ c = d)
      BY <1>1, <1>2, <1>3, <1>4, <3>2, <3>3 DEF IndexTrue
    <3> QED BY <3>3, <3>4 DEF UpsertPending
  <2>3. u.update = "upsert" => UpsertPending(d)
    BY <1>2, <1>3, <1>4 DEF UpsertPending
  <2> QED BY <2>1, <2>2, <2>3
<1>6. /\ points' \subseteq [id : born, revoked : BOOLEAN]
      /\ \A c : findByConsentID(c) => findByConsentID(c)'
      /\ \A c : findByConsentID(c)' => findByConsentID(c) \/ (u.update = "upsert" /\ c = d)
      /\ \A c : AllRevoked(c) /\ findByConsentID(c) => AllRevoked(c)'
      /\ u.update = "payload" => AllRevoked(d)'
  <2>1. CASE u.update = "upsert"
    <3>1. points' = points \cup {u.doc}
      BY <1>3, <2>1 DEF ApplyUpdate
    <3> QED BY <1>1, <1>4, <2>1, <3>1 DEF Types, findByConsentID, AllRevoked
  <2>2. CASE u.update = "payload"
    <3> DEFINE new(p) == IF p.id = d THEN [p EXCEPT !.revoked = u.doc.revoked] ELSE p
    <3>1. points' = {new(p) : p \in points}
      BY <1>3, <1>4, <2>2 DEF ApplyUpdate
    <3>2. ASSUME NEW p \in points
          PROVE  /\ new(p) \in [id : born, revoked : BOOLEAN] /\ new(p).id = p.id
                 /\ p.id = d => new(p).revoked
                 /\ p.revoked => new(p).revoked
      <4>1. p \in [id : born, revoked : BOOLEAN] /\ u.doc.revoked = TRUE
        BY <1>1, <1>4, <2>2 DEF Types
      <4> QED BY <4>1
    <3> HIDE DEF new
    <3>3. points' \subseteq [id : born, revoked : BOOLEAN]
      BY <3>1, <3>2
    <3>4. \A c : findByConsentID(c)' <=> findByConsentID(c)
      BY <3>1, <3>2 DEF findByConsentID
    <3>5. \A c : AllRevoked(c) \/ c = d => AllRevoked(c)'
      BY <3>1, <3>2 DEF AllRevoked
    <3> QED BY <3>3, <3>4, <3>5
  <2> QED BY <1>4, <2>1, <2>2
<1>7. \A c : Settled(c) => Settled(c)'
  BY <1>5, <1>6 DEF Settled
<1>8. Later
  BY <1>1, <1>6, <1>7 DEF Later
<1>9. \A c : Indexed(c)' => Indexed(c)
  BY <1>5, <1>6 DEF Indexed
<1>10. IndexTrue'
  <2>1. ASSUME NEW i \in DOMAIN pending'
        PROVE  /\ pending'[i].doc.id \in born'
               /\ pending'[i].update = "payload" => pending'[i].doc.revoked
               /\ pending'[i].update = "upsert" => ~findByConsentID(pending[i].doc.id)'
    <3>1. PICK v : v = pending'[i]
      OBVIOUS
    <3>2. PICK j \in DOMAIN pending : j # 1 /\ v = pending[j]
      BY <1>2, <3>1
    <3>3. v.doc.id \in born /\ (v.update = "payload" => v.doc.revoked)
          /\ (v.update = "upsert" => ~findByConsentID(v.doc.id))
          /\ (v.update = "upsert" /\ u.update = "upsert" => v.doc.id # d)
      BY <1>1, <1>2, <1>3, <1>4, <3>2 DEF IndexTrue
    <3>4. v.update = "upsert" => ~findByConsentID(v.doc.id)'
      BY <1>6, <3>3
    <3> QED BY <1>1, <3>1, <3>3, <3>4 DEF findByConsentID
  <2>2. ASSUME NEW i \in DOMAIN pending', NEW j \in DOMAIN pending', i # j,
               pending'[i].update = "upsert", pending'[j].update = "upsert"
        PROVE  pending'[i].doc.id # pending'[j].doc.id
    <3>1. pending'[i] = pending[i + 1] /\ pending'[j] = pending[j + 1]
          /\ i + 1 \in DOMAIN pending /\ j + 1 \in DOMAIN pending /\ i + 1 # j + 1
      <4>1. i \in Nat /\ j \in Nat
        BY <1>2
      <4> QED BY <1>2, <2>2, <4>1
    <3> QED BY <1>1, <2>2, <3>1 DEF IndexTrue
  <2> QED BY <2>1, <2>2 DEF IndexTrue
<1>11. Types'
  BY <1>1, <1>2, <1>6 DEF Types
<1>12. (RegistryTrue /\ LogsTrue /\ CacheTrue /\ EntryKept)'
  BY <1>1 DEF GatewayInv, RegistryTrue, LogsTrue, CacheTrue, TrueOf, EntryKept
<1> QED BY <1>1, <1>8, <1>9, <1>10, <1>11, <1>12, OutsideStep

\* Redis drops what has expired; the entry of a creation has not before its end.
LEMMA TickStep == ASSUME GatewayInv, Tick PROVE GatewayInv'
<1>1. /\ now' = now + 1 /\ now < MaxTime /\ now \in Nat /\ MaxTime \in Nat
      /\ UNCHANGED <<clients, registry, events, held, req, born, acked, dropped, revoked>>
      /\ UNCHANGED <<points, pending>>
      /\ cache \in [Name \X Id -> CacheEntry \cup {None}]
  BY GatewayAssumption DEF Tick, GatewayInv, Types, env, qdrant, history
<1>2. /\ cache' \in [Name \X Id -> CacheEntry \cup {None}]
      /\ \A k \in Name \X Id :
           cache'[k] = IF cache[k] # None /\ cache[k].expires <= now + 1 THEN None ELSE cache[k]
  BY <1>1 DEF Tick
<1>3. Later /\ IndexTrue' /\ \A c : Indexed(c)' => Indexed(c)
  BY <1>1, IndexAlone
<1>4. now' \in 0..MaxTime
  BY <1>1
<1>5. Types'
  BY <1>1, <1>2, <1>4 DEF GatewayInv, Types
<1>6. (RegistryTrue /\ LogsTrue)'
  BY <1>1 DEF GatewayInv, RegistryTrue, LogsTrue
<1>7. CacheTrue'
  <2> SUFFICES ASSUME NEW n \in Name, NEW c \in Id, cache'[<<n, c>>] # None
               PROVE  TrueOf(n, c, cache[<<n, c>>].until)' /\ cache'[<<n, c>>].expires > now'
    BY DEF CacheTrue
  <2>1. PICK e : e = cache[<<n, c>>]
    OBVIOUS
  <2>2. <<n, c>> \in Name \X Id
    OBVIOUS
  <2>3. e # None /\ cache'[<<n, c>>] = e /\ ~(e.expires <= now + 1)
    BY <1>2, <2>1, <2>2
  <2>4. e.expires \in Nat
    BY <1>1, <2>1, <2>2, <2>3 DEF CacheEntry
  <2>5. TrueOf(n, c, e.until)
    BY <2>1, <2>3 DEF GatewayInv, CacheTrue
  <2>6. TrueOf(n, c, e.until)'
    BY <1>3, <2>5, TrueKept
  <2> QED BY <1>1, <2>3, <2>4, <2>6 DEF TrueOf
<1>8. EntryKept'
  <2> SUFFICES ASSUME NEW d \in NewId, acked[d] # None, acked[d].cached,
                      now' < acked[d].at + CreateTTL, d \notin dropped
               PROVE  /\ cache'[<<acked[d].name, d>>] # None
                      /\ cache'[<<acked[d].name, d>>].until = acked[d].until
                      /\ cache'[<<acked[d].name, d>>].expires = acked[d].at + CreateTTL
    BY <1>1 DEF EntryKept
  <2>1. acked[d].at \in Nat /\ acked[d].name \in Name /\ d \in Id /\ CreateTTL \in Nat
    BY GatewayAssumption DEF GatewayInv, Types, Creation, Id
  <2>2. /\ cache[<<acked[d].name, d>>] # None
        /\ cache[<<acked[d].name, d>>].until = acked[d].until
        /\ cache[<<acked[d].name, d>>].expires = acked[d].at + CreateTTL
    BY <1>1, <2>1 DEF GatewayInv, EntryKept
  <2>3. cache'[<<acked[d].name, d>>] = cache[<<acked[d].name, d>>]
    BY <1>1, <1>2, <2>1, <2>2
  <2> QED BY <2>2, <2>3
<1>9. UNCHANGED <<req, born, history>>
  BY <1>1 DEF history
<1> QED BY <1>3, <1>5, <1>6, <1>7, <1>8, <1>9, OutsideStep

\* A registry changes, and logs it: what it held it has still held.
LEMMA RegistryChanges ==
  ASSUME GatewayInv, UNCHANGED <<now, clients, cache, qdrant, req, born, history>>,
         registry' \in [Chain -> [OnChainId -> Holding]],
         held' \in [Chain -> [OnChainId -> SUBSET Until]],
         \A ch \in Chain, c \in OnChainId :
           /\ held[ch][c] \subseteq held'[ch][c]
           /\ registry[ch][c].status = "revoked" => registry'[ch][c].status = "revoked",
         RegistryTrue',
         \/ events' = events
         \/ \E ch \in Chain : \E log \in Log :
              /\ events' = [events EXCEPT ![ch] = Append(@, log)]
              /\ log.event = "ConsentRegistered" => log.until \in held'[ch][log.id]
  PROVE  GatewayInv'
<1>1. UNCHANGED <<acked, dropped, revoked, points, pending>> /\ now \in Nat /\ now' = now
  BY GatewayAssumption DEF qdrant, history, GatewayInv, Types
<1>2. Later /\ IndexTrue' /\ \A c : Indexed(c)' => Indexed(c)
  BY <1>1, IndexSame DEF Later, GatewayInv
<1>3. events \in [Chain -> Seq(Log)]
  BY DEF GatewayInv, Types
<1>4. events' \in [Chain -> Seq(Log)] /\ LogsTrue'
  <2>1. \A ch \in Chain : \A i \in DOMAIN events[ch] :
          events[ch][i].event = "ConsentRegistered" => events[ch][i].until \in held'[ch][events[ch][i].id]
    <3> SUFFICES ASSUME NEW ch \in Chain, NEW i \in DOMAIN events[ch],
                        events[ch][i].event = "ConsentRegistered"
                 PROVE  events[ch][i].until \in held'[ch][events[ch][i].id]
      OBVIOUS
    <3>1. events[ch] \in Seq(Log) /\ i \in 1..Len(events[ch])
      BY <1>3
    <3>2. events[ch][i] \in Log
      BY <3>1
    <3>3. events[ch][i].id \in OnChainId
      BY <3>2 DEF Log
    <3> QED BY <3>3 DEF GatewayInv, LogsTrue
  <2>2. CASE events' = events
    BY <1>3, <2>1, <2>2 DEF LogsTrue
  <2>3. ASSUME NEW d \in Chain, NEW log \in Log, events' = [events EXCEPT ![d] = Append(@, log)],
               log.event = "ConsentRegistered" => log.until \in held'[d][log.id]
        PROVE  events' \in [Chain -> Seq(Log)] /\ LogsTrue'
    <3>1. events[d] \in Seq(Log) /\ Append(events[d], log) \in Seq(Log)
      BY <1>3
    <3>2. /\ events'[d] = Append(events[d], log)
          /\ \A ch \in Chain : ch # d => events'[ch] = events[ch]
      BY <1>3, <2>3
    <3>3. events' \in [Chain -> Seq(Log)]
      BY <1>3, <2>3, <3>1
    <3>4. ASSUME NEW ch \in Chain, NEW i \in DOMAIN events'[ch],
                 events'[ch][i].event = "ConsentRegistered"
          PROVE  events'[ch][i].until \in held'[ch][events'[ch][i].id]
      <4>1. CASE ch # d
        BY <2>1, <3>2, <3>4, <4>1
      <4>2. CASE ch = d
        <5>1. i \in 1..Len(events[d]) + 1 /\ Len(events[d]) \in Nat
          BY <3>1, <3>2, <3>4, <4>2
        <5>2. CASE i = Len(events[d]) + 1
          <6>1. events'[ch][i] = log
            BY <3>1, <3>2, <4>2, <5>2
          <6> QED BY <2>3, <3>4, <4>2, <6>1
        <5>3. CASE i \in 1..Len(events[d])
          <6>1. i \in DOMAIN events[d]
            BY <3>1, <5>3
          <6>2. PICK e : e = events[d][i]
            OBVIOUS
          <6>3. e.event = "ConsentRegistered" => e.until \in held'[d][e.id]
            BY <2>1, <6>1, <6>2
          <6>4. events'[ch][i] = e
            BY <3>1, <3>2, <4>2, <5>3, <6>2
          <6> QED BY <3>4, <4>2, <6>3, <6>4
        <5>4. i = Len(events[d]) + 1 \/ i \in 1..Len(events[d])
          BY <5>1
        <5> QED BY <5>2, <5>3, <5>4
      <4> QED BY <4>1, <4>2
    <3> QED BY <3>3, <3>4 DEF LogsTrue
  <2> QED BY <2>2, <2>3
<1>5. Types'
  BY <1>1, <1>4 DEF GatewayInv, Types
<1>6. CacheTrue'
  BY <1>1, <1>2, CacheSame
<1>7. EntryKept'
  BY <1>1 DEF GatewayInv, EntryKept
<1> QED BY <1>2, <1>4, <1>5, <1>6, <1>7, OutsideStep

\* One consent of one registry changes.
LEMMA OneHolding ==
  ASSUME GatewayInv, NEW ch \in Chain, NEW c \in OnChainId, NEW h \in Holding,
         registry' = [registry EXCEPT ![ch] = [@ EXCEPT ![c] = h]],
         held' \in [Chain -> [OnChainId -> SUBSET Until]],
         \A d \in Chain, e \in OnChainId : held[d][e] \subseteq held'[d][e],
         h.status # "absent" /\ h.until \in held'[ch][c],
         registry[ch][c].status = "revoked" => h.status = "revoked"
  PROVE  /\ registry' \in [Chain -> [OnChainId -> Holding]] /\ RegistryTrue'
         /\ \A d \in Chain, e \in OnChainId :
              registry[d][e].status = "revoked" => registry'[d][e].status = "revoked"
<1>1. registry \in [Chain -> [OnChainId -> Holding]]
  BY DEF GatewayInv, Types
<1>2. [registry[ch] EXCEPT ![c] = h] \in [OnChainId -> Holding]
  BY <1>1
<1>3. /\ registry' \in [Chain -> [OnChainId -> Holding]]
      /\ registry'[ch] = [registry[ch] EXCEPT ![c] = h]
      /\ \A d \in Chain : d # ch => registry'[d] = registry[d]
  BY <1>1, <1>2
<1>4. registry'[ch][c] = h /\ \A e \in OnChainId : e # c => registry'[ch][e] = registry[ch][e]
  BY <1>1, <1>3
<1>5. RegistryTrue'
  <2> SUFFICES ASSUME NEW d \in Chain, NEW e \in OnChainId
               PROVE  IF registry'[d][e].status = "absent" THEN registry'[d][e] = Absent
                      ELSE registry'[d][e].until \in held'[d][e]
    BY DEF RegistryTrue, Absent
  <2>1. CASE d = ch /\ e = c
    BY <1>4, <2>1
  <2>2. CASE ~(d = ch /\ e = c)
    <3>1. registry'[d][e] = registry[d][e]
      BY <1>3, <1>4, <2>2
    <3> QED BY <3>1 DEF GatewayInv, RegistryTrue
  <2> QED BY <2>1, <2>2
<1>6. ASSUME NEW d \in Chain, NEW e \in OnChainId, registry[d][e].status = "revoked"
      PROVE  registry'[d][e].status = "revoked"
  <2>1. CASE d = ch /\ e = c
    BY <1>4, <1>6, <2>1
  <2>2. CASE ~(d = ch /\ e = c)
    BY <1>3, <1>4, <1>6, <2>2
  <2> QED BY <2>1, <2>2
<1> QED BY <1>3, <1>5, <1>6

LEMMA HoldStep ==
  ASSUME GatewayInv, NEW ch \in Chain, NEW c \in OnChainId, NEW u \in Until,
         registerConsent(ch, c, u) \/ updateConsent(ch, c, u)
  PROVE  GatewayInv'
<1>1. /\ Hold(ch, c, u)
      /\ \/ events' = events
         \/ events' = [events EXCEPT ![ch] =
                         Append(@, [event |-> "ConsentRegistered", id |-> c, until |-> u])]
  BY DEF registerConsent, updateConsent, Emit
<1>2. UNCHANGED <<now, clients, cache, qdrant, req, born, history>> /\ u \in Nat
  BY <1>1, GatewayAssumption DEF Hold, Transaction
<1>3. held \in [Chain -> [OnChainId -> SUBSET Until]] /\ registry \in [Chain -> [OnChainId -> Holding]]
  BY DEF GatewayInv, Types
<1>4. PICK h \in Holding : /\ h = [registry[ch][c] EXCEPT !.status = IF @ = "absent" THEN "active" ELSE @,
                                                        !.until = u]
                           /\ h.status # "absent" /\ h.until = u
                           /\ registry[ch][c].status = "revoked" => h.status = "revoked"
  <2>1. PICK g \in Holding : g = registry[ch][c]
    BY <1>3
  <2> DEFINE h == [g EXCEPT !.status = IF @ = "absent" THEN "active" ELSE @, !.until = u]
  <2>2. h \in Holding /\ h.status # "absent" /\ h.until = u /\ (g.status = "revoked" => h.status = "revoked")
    BY <1>2 DEF Holding
  <2> QED BY <2>1, <2>2
<1>5. registry' = [registry EXCEPT ![ch] = [@ EXCEPT ![c] = h]]
  BY <1>1, <1>3, <1>4 DEF Hold
<1>6. /\ held' \in [Chain -> [OnChainId -> SUBSET Until]]
      /\ \A d \in Chain, e \in OnChainId : held[d][e] \subseteq held'[d][e]
      /\ u \in held'[ch][c]
  <2>1. held' = [held EXCEPT ![ch] = [held[ch] EXCEPT ![c] = held[ch][c] \cup {u}]]
    BY <1>1 DEF Hold
  <2>2. [held[ch] EXCEPT ![c] = held[ch][c] \cup {u}] \in [OnChainId -> SUBSET Until]
    BY <1>3
  <2> QED BY <1>3, <2>1, <2>2
<1>7. /\ registry' \in [Chain -> [OnChainId -> Holding]] /\ RegistryTrue'
      /\ \A d \in Chain, e \in OnChainId :
           registry[d][e].status = "revoked" => registry'[d][e].status = "revoked"
  <2>1. /\ h.status # "absent" /\ h.until \in held'[ch][c]
        /\ registry[ch][c].status = "revoked" => h.status = "revoked"
    BY <1>4, <1>6
  <2> QED BY <1>5, <1>6, <2>1, OneHolding
<1>8. \/ events' = events
      \/ \E d \in Chain : \E log \in Log :
           /\ events' = [events EXCEPT ![d] = Append(@, log)]
           /\ log.event = "ConsentRegistered" => log.until \in held'[d][log.id]
  <2>1. PICK log \in Log : log = [event |-> "ConsentRegistered", id |-> c, until |-> u]
    BY <1>2 DEF Log
  <2>2. log.until \in held'[ch][log.id]
    BY <1>6, <2>1
  <2> QED BY <1>1, <2>1, <2>2
<1> QED BY <1>2, <1>6, <1>7, <1>8, RegistryChanges

LEMMA RevokeOnChainStep ==
  ASSUME GatewayInv, NEW ch \in Chain, NEW c \in OnChainId, revokeConsent(ch, c)
  PROVE  GatewayInv'
<1>1. /\ registry[ch][c].status = "active" /\ held' = held
      /\ UNCHANGED <<now, clients, cache, qdrant, req, born, history>>
      /\ \/ events' = events
         \/ events' = [events EXCEPT ![ch] =
                         Append(@, [event |-> "ConsentRevoked", id |-> c, until |-> 0])]
  BY DEF revokeConsent, Emit, Transaction
<1>2. held \in [Chain -> [OnChainId -> SUBSET Until]] /\ registry \in [Chain -> [OnChainId -> Holding]]
  BY DEF GatewayInv, Types
<1>3. PICK h \in Holding : /\ h = [registry[ch][c] EXCEPT !.status = "revoked"]
                           /\ h.status = "revoked" /\ h.until = registry[ch][c].until
  <2>1. PICK g \in Holding : g = registry[ch][c]
    BY <1>2
  <2> DEFINE h == [g EXCEPT !.status = "revoked"]
  <2>2. h \in Holding /\ h.status = "revoked" /\ h.until = g.until
    BY DEF Holding
  <2> QED BY <2>1, <2>2
<1>4. registry' = [registry EXCEPT ![ch] = [@ EXCEPT ![c] = h]]
  BY <1>2, <1>3 DEF revokeConsent
<1>5. h.until \in held'[ch][c]
  BY <1>1, <1>3 DEF GatewayInv, RegistryTrue
<1>6. /\ registry' \in [Chain -> [OnChainId -> Holding]] /\ RegistryTrue'
      /\ \A d \in Chain, e \in OnChainId :
           registry[d][e].status = "revoked" => registry'[d][e].status = "revoked"
  BY <1>1, <1>2, <1>3, <1>4, <1>5, OneHolding
<1>7. \/ events' = events
      \/ \E d \in Chain : \E log \in Log :
           /\ events' = [events EXCEPT ![d] = Append(@, log)]
           /\ log.event = "ConsentRegistered" => log.until \in held'[d][log.id]
  <2>1. PICK log \in Log : log = [event |-> "ConsentRevoked", id |-> c, until |-> 0]
    BY DEF Log
  <2> QED BY <1>1, <2>1
<1> QED BY <1>1, <1>2, <1>6, <1>7, RegistryChanges

\* The indexer applies a log of its chain, under that chain's name.
LEMMA IndexEventStep ==
  ASSUME GatewayInv, NEW ch \in Chain, IndexEvent(ch)
  PROVE  GatewayInv'
<1>1. /\ events[ch] # << >> /\ events' = [events EXCEPT ![ch] = Tail(@)]
      /\ UNCHANGED <<now, clients, registry, held, req, born, history>>
      /\ UNCHANGED <<acked, dropped, revoked, points, pending>>
      /\ now \in Nat /\ events \in [Chain -> Seq(Log)]
  BY GatewayAssumption DEF IndexEvent, GatewayInv, Types, qdrant, history
<1>2. Later /\ IndexTrue' /\ \A c : Indexed(c)' => Indexed(c)
  BY <1>1, IndexAlone
<1>3. /\ Tail(events[ch]) \in Seq(Log)
      /\ \A i \in DOMAIN Tail(events[ch]) : /\ i + 1 \in DOMAIN events[ch]
                                            /\ Tail(events[ch])[i] = events[ch][i + 1]
  <2>1. events[ch] \in Seq(Log)
    BY <1>1
  <2> QED BY <1>1, <2>1
<1>4. PICK log \in Log : /\ log = Head(events[ch])
                         /\ log.event = "ConsentRegistered" => log.until \in held[ch][log.id]
  <2>1. events[ch] \in Seq(Log)
    BY <1>1
  <2>2. PICK log \in Log : log = events[ch][1] /\ log = Head(events[ch]) /\ 1 \in DOMAIN events[ch]
    BY <1>1, <2>1
  <2>3. log.event = "ConsentRegistered" => log.until \in held[ch][log.id]
    BY <2>2 DEF GatewayInv, LogsTrue
  <2> QED BY <2>2, <2>3
<1>5. PICK n \in Name, c \in OnChainId, u \in Nat :
        n = Listed[ch] /\ ChainOf[n] = ch /\ c = log.id /\ u = log.until
  BY GatewayAssumption DEF Log
<1>6. c \in Id /\ c \notin NewId
  BY GatewayAssumption DEF Id
<1>7. /\ cache' \in [Name \X Id -> CacheEntry \cup {None}] /\ CacheTrue'
      /\ \A k \in Name \X Id : k # <<n, c>> => cache'[k] = cache[k]
  <2>1. CASE log.event = "ConsentRegistered" /\ CacheConsent(n, c, u, FALSE, CreateTTL)
    <3>1. CreateTTL \in Nat \ {0}
      BY GatewayAssumption
    <3>2. PICK f \in BOOLEAN : f = FALSE
      OBVIOUS
    <3>3. CacheConsent(n, c, u, f, CreateTTL)
      BY <2>1, <3>2
    <3>4. PICK e \in CacheEntry :
            e.until = u /\ e.expires > now /\ cache' = [cache EXCEPT ![<<n, c>>] = e]
      BY <1>1, <3>1, <3>3, EntryMade
    <3>5. TrueOf(n, c, u)
      BY <1>4, <1>5, <2>1 DEF TrueOf
    <3>6. TrueOf(n, c, u)'
      BY <1>2, <1>6, <3>5, TrueKept
    <3> QED BY <1>1, <1>2, <1>6, <3>4, <3>6, CachePut
  <2>2. CASE InvalidateConsent(n, c)
    BY <1>1, <1>2, <1>6, <2>2, CacheDelete
  <2>3. CASE UNCHANGED cache
    BY <1>1, <1>2, <2>3, CacheSame DEF GatewayInv, Types
  <2> QED BY <1>4, <1>5, <2>1, <2>2, <2>3 DEF IndexEvent
<1>8. EntryKept'
  BY <1>1, <1>6, <1>7, EntriesApart
<1>9. events' \in [Chain -> Seq(Log)] /\ LogsTrue'
  <2>1. /\ events' \in [Chain -> Seq(Log)] /\ events'[ch] = Tail(events[ch])
        /\ \A d \in Chain : d # ch => events'[d] = events[d]
    BY <1>1, <1>3
  <2>2. ASSUME NEW d \in Chain, NEW i \in DOMAIN events'[d]
        PROVE  \E j \in DOMAIN events[d] : events'[d][i] = events[d][j]
    BY <1>3, <2>1
  <2>3. ASSUME NEW d \in Chain, NEW i \in DOMAIN events'[d],
               events'[d][i].event = "ConsentRegistered"
        PROVE  events'[d][i].until \in held[d][events'[d][i].id]
    <3>1. PICK j \in DOMAIN events[d] : events'[d][i] = events[d][j]
      BY <2>2
    <3>2. events[d][j].event = "ConsentRegistered" => events[d][j].until \in held[d][events[d][j].id]
      BY DEF GatewayInv, LogsTrue
    <3> QED BY <2>3, <3>1, <3>2
  <2> QED BY <1>1, <2>1, <2>3 DEF LogsTrue
<1>10. Types'
  BY <1>1, <1>7, <1>9 DEF GatewayInv, Types
<1>11. RegistryTrue'
  BY <1>1 DEF GatewayInv, RegistryTrue
<1> QED BY <1>1, <1>2, <1>7, <1>8, <1>9, <1>10, <1>11, OutsideStep

-----------------------------------------------------------------------------
\* The invariant: the registries' pasts, the cache, the index and the locals
\* of every request tell what is true.
THEOREM GatewayInvariant == Spec => []GatewayInv
<1>1. Init => GatewayInv
  <2> SUFFICES ASSUME Init PROVE GatewayInv
    OBVIOUS
  <2>1. now = 0 /\ MaxTime \in Nat
    BY GatewayAssumption DEF Init
  <2>2. Absent \in Holding /\ 0 \in 0..MaxTime
    BY <2>1 DEF Absent, Holding
  <2>3. Types
    <3>1. registry \in [Chain -> [OnChainId -> Holding]]
      BY <2>2 DEF Init
    <3>2. held \in [Chain -> [OnChainId -> SUBSET Until]]
      BY DEF Init
    <3>3. events \in [Chain -> Seq(Log)]
      BY DEF Init
    <3>4. req \in [Request -> AnyRequest]
      BY IdleOk DEF Init
    <3>5. points = {} /\ pending \in Seq(Update)
      BY DEF Init
    <3> QED BY <2>1, <2>2, <3>1, <3>2, <3>3, <3>4, <3>5 DEF Init, Types
  <2>4. RegistryTrue /\ LogsTrue
    BY DEF Init, RegistryTrue, LogsTrue, Absent
  <2>5. CacheTrue /\ EntryKept /\ IndexTrue /\ IdsKnown
    BY DEF Init, CacheTrue, EntryKept, IndexTrue, IdsKnown
  <2>6. ASSUME NEW r \in Request PROVE Local(r) /\ req[r].op = "none"
    <3>1. req[r] = Idle
      BY DEF Init
    <3> QED BY <2>1, <3>1, IdleOk DEF Local
  <2>7. OneCreator
    BY <2>6 DEF OneCreator
  <2> QED BY <2>3, <2>4, <2>5, <2>6, <2>7 DEF GatewayInv
<1>2. GatewayInv /\ [Next]_vars => GatewayInv'
  <2> SUFFICES ASSUME GatewayInv, [Next]_vars PROVE GatewayInv'
    OBVIOUS
  <2>1. ASSUME NEW ch \in Chain,
               \/ IndexEvent(ch)
               \/ \E c \in OnChainId :
                    \/ revokeConsent(ch, c)
                    \/ \E u \in Until : registerConsent(ch, c, u) \/ updateConsent(ch, c, u)
        PROVE  GatewayInv'
    BY <2>1, IndexEventStep, RevokeOnChainStep, HoldStep
  <2>2. ASSUME NEW r \in Request, Handle(r) \/ Refuse(r) PROVE GatewayInv'
    BY <2>2, PrepareSteps, CreateIndexStep, CreateCacheStep, GetLookupStep, GetFetchStep,
       GetFillStep, VerifyProofStep, VerifyCallStep, VerifyClockStep, VerifyCheckStep,
       RevokeFindStep, RevokeMarkStep, RevokeDropStep DEF Handle
  <2>3. ASSUME NEW r \in Request, NEW n \in Name, NEW d \in Duration, CreateConsent(r, n, d)
        PROVE  GatewayInv'
    BY <2>3, CreateStep
  <2>4. ASSUME NEW r \in Request, NEW n \in Name, NEW c \in Known,
               \/ GetConsent(r, n, c) \/ VerifyConsent(r, n, c) \/ VerifyConsentProof(r, n, c)
               \/ RevokeConsent(r, n, c) \/ GenerateProof(r, n, c)
        PROVE  GatewayInv'
    BY <2>4, NamedSteps
  <2>5. CASE UNCHANGED vars
    <3>1. UNCHANGED <<now, clients, registry, events, held, cache, points, pending, req, born>>
          /\ UNCHANGED <<acked, dropped, revoked>> /\ UNCHANGED history /\ now \in Nat
      BY <2>5, GatewayAssumption DEF vars, env, qdrant, history, GatewayInv, Types
    <3>2. Later /\ IndexTrue' /\ \A c : Indexed(c)' => Indexed(c)
      BY <3>1, IndexAlone
    <3>3. Types' /\ (RegistryTrue /\ LogsTrue /\ CacheTrue /\ EntryKept)'
      BY <3>1 DEF GatewayInv, Types, RegistryTrue, LogsTrue, CacheTrue, TrueOf, EntryKept
    <3> QED BY <3>1, <3>2, <3>3, OutsideStep
  <2> QED BY <2>1, <2>2, <2>3, <2>4, <2>5, TickStep, ApplyUpdateStep DEF Next
<1> QED BY <1>1, <1>2, PTL DEF Spec

\* Every variable has its type; only ids that were generated are indexed, and
\* no cache entry is past its end.
THEOREM GatewayTypeCorrect == Spec => []TypeOK
<1>1. GatewayInv => TypeOK
  <2> SUFFICES ASSUME GatewayInv PROVE TypeOK
    OBVIOUS
  <2>1. now \in 0..MaxTime /\ now \in Nat /\ clients \subseteq {"redis", "qdrant"}
        /\ points \subseteq [id : born, revoked : BOOLEAN] /\ born \subseteq NewId /\ dropped \subseteq born
    BY GatewayAssumption DEF GatewayInv, Types
  <2>2. ASSUME NEW ch \in Chain, NEW c \in OnChainId
        PROVE  registry[ch][c].status \in {"absent", "active", "revoked"} /\ held[ch][c] \subseteq Until
    <3>1. registry[ch][c] \in Holding /\ held[ch][c] \in SUBSET Until
      BY DEF GatewayInv, Types
    <3> QED BY <3>1 DEF Holding
  <2>3. \A k \in Name \X Id : cache[k] # None => cache[k].expires > now
    BY DEF GatewayInv, CacheTrue
  <2>4. /\ revoked \subseteq born
        /\ \A i \in DOMAIN pending : pending[i].doc \in [id : born, revoked : BOOLEAN]
    <3>1. revoked \subseteq born
      BY <2>1 DEF GatewayInv, IdsKnown, Settled, findByConsentID
    <3>2. ASSUME NEW i \in DOMAIN pending PROVE pending[i].doc \in [id : born, revoked : BOOLEAN]
      <4>1. pending[i] \in Update /\ pending[i].doc.id \in born
        BY DEF GatewayInv, Types, IndexTrue
      <4> QED BY <4>1 DEF Update
    <3> QED BY <3>1, <3>2
  <2>5. ASSUME NEW r \in Request
        PROVE  req[r].id \in OnChainId \cup born \cup {None} /\ req[r].at \in 0..now
    BY <2>1, Serving DEF GatewayInv, Local, IdsKnown
  <2> QED BY <2>1, <2>2, <2>3, <2>4, <2>5 DEF TypeOK
<1> QED BY <1>1, GatewayInvariant, PTL

\* An answer of GetConsent tells what was true of that consent under that name.
THEOREM AnswersTrue == Spec => []AnswersWereTrue
<1>1. GatewayInv => AnswersWereTrue
  BY DEF GatewayInv, Local, TrueOf, AnswersWereTrue, Answered
<1> QED BY <1>1, GatewayInvariant, PTL

\* A created consent is in the cache for the whole lifetime of its entry.
THEOREM CreatedAlwaysReadable == Spec => []CreatedReadable
<1>1. GatewayInv => CreatedReadable
  BY DEF GatewayInv, EntryKept, CreatedReadable, Key
<1> QED BY <1>1, GatewayInvariant, PTL

\* If a search found the consent when its revocation was accepted, and Qdrant failed in no
\* call of that request, then from the last application of an update of its point on every
\* search shows it revoked, although the point is found and marked in two calls.
THEOREM RevokedStaysRevoked == Spec => []SearchNeverRevives
<1>1. GatewayInv => SearchNeverRevives
  <2> SUFFICES ASSUME GatewayInv, NEW p \in points, p.id \in revoked,
                      \A i \in DOMAIN pending : pending[i].doc.id # p.id
               PROVE  p.revoked
    BY DEF SearchNeverRevives, SearchConsents, Search, pointToDocument
  <2>1. Settled(p.id)
    BY DEF GatewayInv, IdsKnown
  <2>2. ~MarkPending(p.id)
    BY DEF MarkPending
  <2> QED BY <2>1, <2>2 DEF Settled, AllRevoked
<1> QED BY <1>1, GatewayInvariant, PTL

\* A consent that is called valid on the chain's word had not passed the end in the answer
\* when the clock was read, and was not revoked on chain when the request was accepted.
THEOREM ValidWasAlwaysInForce == Spec => []ValidWasInForce
<1>1. GatewayInv => ValidWasInForce
  <2> SUFFICES ASSUME GatewayInv, NEW r \in Request, Answered(r, "verify"), req[r].flag
               PROVE  /\ req[r].id \in OnChainId
                      /\ req[r].until \in held[ChainOf[req[r].name]][req[r].id]
                      /\ req[r].at <= req[r].until /\ ~req[r].before
    BY DEF ValidWasInForce
  <2>1. VerifyKnows(req[r].name, req[r].id, req[r].before, "done", req[r].until, TRUE, req[r].at)
    BY Serving DEF Answered, VerifyKnows
  <2> QED BY <2>1 DEF VerifyKnows, TrueOf
<1> QED BY <1>1, GatewayInvariant, PTL
=============================================================================
