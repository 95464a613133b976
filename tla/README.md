# Verification of the on-chain consent system

TLA+ models of the consent protocol, the TLC runs that check them on small
instances and the TLAPS proofs of their main invariants. Paths are relative to
the repository (`src/` in `PROJECT.json` is the repository's root).

## 1. The system

Parties sign a consent agreement with their wallets; a contract stores it,
lets any party revoke it and all parties together change its end. Around the
contract are receipts, an escrow for encrypted payloads, an HTTP API, an
indexer that mirrors the chain's events into a cache, and services that make
and check zero-knowledge proofs.

| Component | State | Operations | What makes it hard | What makes it correct |
|---|---|---|---|---|
| `ConsentRegistry.sol` with `ConsentLib`, `SignatureLib` | consents by id, count, per-party list and index | register, revoke, update; views | sequences of legal transactions sent by anyone, signatures public after their first use, windows at their edges, arrays with repeated parties | only signed terms are stored; revocation is final; lists and count exact |
| `ConsentEscrow.sol` | payload and depositor per consent | store, read, size | reads the registry at different moments | payloads of parties only, stored once, readable while the consent is in force |
| `ConsentToken.sol` | links consent/token, URIs, ERC1155 balances | mint, burn, (inherited) transfer | burn and re-mint, transfers in between | links inverse, token ids single-use |
| `ConsentVerifier.sol` | used proof hashes, list per consent | three verify functions | three copies of one function, hash of inputs put next to each other | a proof is accepted once, the lists agree |
| `ConsentFactory.sol` with `MinimalProxy` | deployments by list, set and salt; one registry storage per clone | deploy with an initializer, predict | a failing initializer, clones that share the implementation's code and signature domain | the four structures agree with the clones that exist; the address predicted is the one deployed |
| API rate limiter (`middleware.go`) | bucket per client | Allow | fractions, lazy refill, first call | bounded in every interval, no unjustified refusal |
| API worker pool (`pool.go`) | two channels, counters, task states | Submit, worker, retry timer, Shutdown | goroutines, full channels, cancellation | no task lost or doubled, attempts bounded, Shutdown returns |
| Event indexer (`event-indexer/cmd/main.go`) | `lastBlock` per listener (memory only), Redis | poll, filter, process; start, stop | calls that fail or never return, one mutex for the handlers of all chains, restarts, backfill | blocks read once and in order, revoked entries deleted |
| API server (`main.go`, `routes.go`, `chain_client.go`, `tasks.go`) | what main is waiting for, client map under an RWMutex, the connections | admit a request, GetClient, dial, run a task, shut down in five steps | double-checked lock held while dialling, RPC calls without a deadline, clients closed under their users, nil clients | every open client is in the map; nothing is closed under a task; GetClient returns; the process ends |
| API handlers (`consent_handler.go`) with chain, contract, Redis, Qdrant clients | client map; caches outside | create, get, verify, revoke, search, prove | read-then-write of the cache, stale answers, calls that fail one by one | answers were true of that consent on that chain; an indexed revocation stays |
| Solana programs | consent, verifier and token accounts | register, revoke, verify, extend; verify proof; mint, burn | bounded list of used proofs | as the registry |
| ZK service, Noir and RISC Zero circuits | files shared by requests, proof cache | prove, verify | concurrent requests in one directory | a proof answers its own request |

Interactions: the escrow calls the registry's `getConsent`. The registry calls
nobody: the calls to token and escrow that `docs/ARCHITECTURE.md` describes are
not in the code. The indexer reads the registry's logs and writes Redis, which
the handlers read. The handlers prepare transactions but never send one. The
worker pool is started and shut down by `main`, which gives its task handlers
the Qdrant and Redis clients of the API; nothing in the repository submits a
task yet.

The hazards found in the survey, each with its line and the properties that
would catch it going wrong, are in `PROJECT.json`.

## 2. Modules

| Module | Models | Proofs |
|---|---|---|
| `ConsentLifecycle` | abstract: what a registry promises to the parties of agreements | |
| `ConsentRegistry` | registry contract, `ConsentLib`, `SignatureLib`; implements `ConsentLifecycle` | `ConsentRegistryProofs` |
| `SignatureReplay` | the registry with a history of accepted signatures | |
| `ConsentEscrow` | escrow composed with the registry (EXTENDS it) | `ConsentRegistryProofs` |
| `ConsentToken` | receipt token over an external ERC1155 ledger | `ContractProofs` |
| `ConsentVerifier` | the used proofs | `ContractProofs` |
| `ConsentFactory` | factory and clones | `ContractProofs` |
| `RateLimiter` | token bucket middleware | `RateLimiterProofs` |
| `TaskPool` | abstract: what a worker pool promises to those who submit tasks and to `main` | |
| `WorkerPool` | channels, timers and goroutines of the pool; implements `TaskPool` | `WorkerPoolProofs` |
| `ApiServer` | requests, chain clients, task handlers and the shutdown of the API process; uses `TaskPool` (INSTANCE) | `ApiServerProofs` |
| `EventIndexer` | chain listeners, log handlers and Redis entries | `IndexerProofs` |
| `ConsentGateway` | API handlers with their chain, contract, Redis and Qdrant clients, the registries and the indexer around them | `GatewayProofs` |
| `ZkService` | `generate_proof` and `verify_proof` of the proof service over the files they share | `ZkServiceProofs` |
| `MC*` | constants for TLC; `MCStandalone` puts the escrow, the token, the verifier, the factory, the rate limiter and the proof service side by side, one of them in focus in a behaviour, because they share no state | |

Operators keep the names of the functions they model. Definitions named
`Fault...` are seeded faults: each is a plausible slip in the definition that
follows it, kept to confirm that a property notices it. No specification uses
them.

### Registry
A transaction is atomic and reverts as a whole, so each external function is
one action and its revert conditions are its guard. Hashes are their preimages
(keccak256 taken as injective), so an id and a digest are the record of the
five hashed fields; both stay the same record because the domain separator is
constant for one contract. A signature is the pair of signer and digest; it
exists only after `Sign`. A sender may put any array of existing signatures and
of malformed ones into a transaction. `recoverSigner` returns the zero address
for a malformed signature, as ecrecover does, and some other address for a
signature over another digest. The code's behaviours kept on purpose:
registration does not call `validateConsent`; updates work on revoked and
expired consents; `address(0)` can be a party, and then a malformed signature
passes for it; there is no nonce.

`ConsentLifecycle` forgets arrays, lists and record layouts: an agreement is
known by its id, has at each moment one set of agreed terms, and is withdrawn
or not. Its steps are to agree, to amend, to withdraw, to sign and to let time
pass; agreeing and amending need a signature of every account named, and a
withdrawal stays. The refinement mapping (`Lifecycle` in `ConsentRegistry`)
reads the agreed terms and the withdrawn ids off the stored records. An
update that changes anything but the end and the document, or a record written
without the signatures of its digest, is no step of it.

### Escrow
`escrow` merges `encryptedData` with `hasEncryptedData` and remembers the
depositor. The contract asks the registry at every call, which is why the model
extends it instead of abstracting it. Any party stores, where
`docs/ARCHITECTURE.md:173` reserves `store()` for the registry; `EscrowByParty` is
what the code gives instead. It asks for the parties of the consent and never
for its state, which `PayloadKept` and `LockedOnRevoke` look at from both sides:
while a consent is in force its payload stays readable, and after a revocation,
against the document, it still is (section 4).

### Token
`consentTokenIds`/`consentHasToken` are always written together and are one
function. `_burn(address(this), tokenId, 0)` removes no units. The contract as
committed does not compile against OpenZeppelin (it redefines inherited
members); it is modelled by what its statements are written to do.

### Verifier and factory
`verifyProof` stands for the three verify functions, which are one function up
to a tag and a count. Proofs and inputs are sequences of words, and a hash is
the tag, the consent and the two sequences joined, as `abi.encodePacked` leaves
out their lengths. `_verifyProof` accepts everything that is not empty.

A CREATE2 address is its preimage, salt and creation code with the constructor
argument. A clone delegates to the implementation, so `recorded` is per
contract, but what is `Authorised` is not: `DOMAIN_SEPARATOR` is an immutable
in the implementation's code and names the implementation's address.

### Rate limiter
`Allow` holds a mutex throughout: one step, split by its result into `Allow`
and `Deny`. Time is in ticks of 1/`Scale` second and tokens in units of
1/`Scale`, so the float arithmetic of the code is exact; rounding of float64 is
not modelled. The clock is monotonic, as Go's is.

### Worker pool
A step is the code between two channel operations, atomic counters or handler
calls. A `select` with several ready cases takes any. Handlers succeed or fail
at will. `submission` separates the send from the counter increment that
follows it, because workers can act in between.

`TaskPool` is what the rest of the process may rely on: a task is new,
waiting, running, completed, failed or dropped; its handler is called until it
succeeds, at most `MaxRetries` + 1 times; it is dropped only after the
cancellation; and the pool is closed only when no task runs, after which none
starts. `WorkerPool` implements it
under the mapping `Abstract`, which forgets the channels, the timers, the
workers and the counters.

### API server
A request is a goroutine that works off its `plan`, the sequence of services
and chains its route calls. Admission is the chain of middlewares in the order
of `RegisterRoutes`; the rate limiter's verdict is a free choice here. `GetClient`
is two steps under the RWMutex (a reader takes and releases it within
`ReadClients`; only a dialling writer holds it from one step to the next), and
keys the map with the spelling of the request, so two spellings of one chain
have two clients. Task handlers call the service the type of the task needs; a
nil client panics, and in a worker nothing recovers a panic, so the process ends
(`HandlerPanics`); in a request `gin.Recovery` answers. `main` waits for a
signal, for the requests or ten seconds, for the pool, and then closes Qdrant,
Redis and the chain clients. Requests `main` gave up go on until the process
ends; `cutOff` records who used a client that was closed under it.

### Event indexer
`chain` is a sequence of blocks per chain, a block the sequence of the
registry's logs in it (a consent may be registered and revoked in the same
block). A listener step is the code up to and including one RPC or Redis call;
the set `Failures` says which calls may fail. `Start` and `Stop` are the
process: nothing but Redis survives. The Qdrant update of
`handleConsentRevoked` is left out: it selects points by on-chain id, and the
only writer of points is the gateway, which makes ids of its own. Topics stand
for event signatures. The passing runs use a registry that emits the events the
indexer names; the run `indexer_abi` uses the signatures of
`IConsentRegistry.sol`.

No call has a deadline, so with `"hang"` in `Failures` each may also never return.
A listener in `hung` waits for its RPC endpoint, and holds up nobody. One in
`stuck` waits for Qdrant (`main.go:401`) inside `processEventLog`, with the mutex
that the handlers of all chains share: from then on no other listener applies a
log (`MutexFree`). Both end with the process, whose cancelled context makes the
calls return. go-redis has time-outs of its own, so its calls fail instead.

### Gateway
Each request is a goroutine with a program counter; a step ends with one call
of a service, so that anything can happen between two calls of a request.
`Failures` says which services may fail; a failed call takes the path the code
takes, which for Redis and Qdrant is usually a log line. The clock is read
between two calls and is a step too (`VerifyClock`): the answer of `VerifyConsent`
comes after another call. A write to Qdrant does not ask it to wait, so it goes
to `pending` when it is acknowledged and to `points`, which the searches see, when
Qdrant applies it (`ApplyUpdate`, in the order of acknowledgement).
`UpdateConsentRevoked` is two calls, the search for the point (`RevokeFind`) and
the write to it (`RevokeMark`). `clients` are the
connections that `main` could make; the handlers call the others through nil,
which `gin.Recovery` turns into an error.

The registry of a chain is one of four kinds. `unset`: no address is
configured. `empty`: no contract is at the address, calls answer nothing.
`fields`: a contract with the functions, the return values and the events for
which `contracts/client.go` and the indexer were written. `struct`: this
repository's `ConsentRegistry.sol`, whose `getConsent` returns a struct that
`decodeConsentData` cannot read (it panics) and which has no
`verifyConsent(bytes32)`. The clients prepare transactions and send none; the
registries change by transactions of others.

Kept on purpose: an id made by `CreateConsent` is never on chain; the cache key
has the spelling of the chain in the request; `decodeConsentData` looks for the
revoked flag in the wrong byte, so no answer that is read from the chain says
"revoked" and the check of the cached flag in `VerifyConsent` never fires; with
a proof, `VerifyConsent` answers the proof service's verdict whatever the chain
says; a search answers zeros for the validity, which `pointToDocument` does not
read. A revocation that searches before the creation's write is applied finds no
point, marks nothing and is answered `revoked: true`; the document stays unrevoked,
and `SearchNeverRevives` therefore speaks of consents that a search showed when
the revocation came. `AnswersWereTrue` speaks of the end of validity and not of the
revoked flag: `GetConsent` reads the chain and then fills the cache, so that an
entry may be filled after the revocation that should have dropped it, and no
property bounds how long it stays. What is read from the chain never says
"revoked" in any case (`gateway_revoked_flag`).

Left out: parties, scopes, embeddings, the filters and pages of a search,
and the answers that are errors, of which nothing is kept. An id has one spelling:
the handlers normalise it for the chain (`consent_handler.go:304`) and give it to
the cache and the index as written, where another spelling would be another
entry and the text match of Qdrant might not find the point. An id is indexed
once, so the loop over the points that were found has one turn. There is one clock
for the process and the chains. The RPC calls of the handlers have no deadline
of their own, so the model lets them take any time and no bound on the age of a
cached answer is claimed.

### Proof service
A handler of `circuits/rust-zk-service` awaits one piece of blocking work after
another: write a file, run `nargo`, read a file. `work` is what runs now for a
request; it goes on when the handler is dropped because its client went away
(the gateway gives up after 30 seconds), and writing a file empties it first.
Inputs and proofs are names, a proof the name of the inputs it proves; a verify
request's public inputs are ignored by the code (`noir.rs:135-179`) and by the
model, although `tests/robot/api/proof-generation.robot:124` wants a proof with
tampered ones refused; `OwnVerdictIfAlone` is about the proof only. `shared` is a
history variable: some other request, or work left by one, was in the same
directory at the same time. Requests that overlap do get each other's proofs
and verdicts; the properties are about the others, which must not suffer from
what earlier requests left behind.

What reading the service showed and the model takes as given: `generate_proof`
looks for the directory `consent_age` and `verify_proof` for `ConsentAge`, and
the repository's circuits are in neither, so `Installed` is a matter of
deployment; the proof cache is never filled (the code inserts into a clone); the
borrowed circuit name in the closures of `spawn_blocking` does not pass the
borrow checker, and the model takes it as a copy; the gateway posts to
`/api/v1/prove`, which this service does not route, so that `ConsentGateway`
and `ZkService` are separate and not composed.

## 3. Runs

| Run | Shows | Bounds |
|---|---|---|
| `registry` | indexes exact, only signed terms stored, revocation final, validity only by agreement; implements `ConsentLifecycle` | 2 accounts, 4 agreements (an agreement and its extension, a repeated party, the zero address with start 0), 3 timestamps, signature arrays up to 2 |
| `replay` (violation) | signatures that were accepted once are accepted again | 2 agreements |
| `standalone` | escrow payloads belong to parties, are never replaced and stay readable while the consent is in force; receipt links and supply; proofs accepted once; factory lists exact; window bound of the limiter in both directions; a proof request alone in its directory gets its own proof or verdict | escrow: 3 agreements, 1 payload (a replaced one shows by its depositor), 2 timestamps; token: 2 accounts, 2 ids (one zero), 3 mints; verifier: 2 consents, up to 2 words in each array, 4 accepted proofs; factory: 3 salts, 3 agreements, one not signed; limiter: 2 clients, rate 2/s, burst 2, thirds of a second, 2 seconds; proof service: 3 requests (symmetric), 2 circuits, one of them not installed, 3 inputs: 2 satisfying, 1 of them an accepted proof |
| `escrow_lock` (violation) | the payload of a revoked consent can still be read | 3 agreements, 1 payload, 2 timestamps |
| `factory_predict` (violation) | the predicted address is not the deployed one | 2 salts |
| `worker_pool` | conservation of tasks, counters, tasks finish and Shutdown returns; implements `TaskPool` | 2 workers, 3 tasks (2, 1 and no retries, the last without a handler), channels of 1 |
| `indexer` | reading order and cache under all failures and a restart; every block is passed unless a call hangs | 2 chains with 2 blocks and 1, 1 consent, batches of 1 (2 in a backfill), 2 starts, each without backfill or from block 1 |
| `indexer_abi` (violation) | the filter matches no log of the registry | 2 chains with 2 blocks and 1, 1 consent |
| `gateway` | what the handlers promise under concurrent requests and failures of every service | 2 goroutines (symmetric) and 3 requests, 2 chains (`fields` and `empty`) and a name of no chain, 1 id on chain and 1 of the API, 2 registry transactions, 3 instants, cache lifetimes 2 and 1; `Within`: twice the requests, the transactions and the ticks are at most 6 (`Budget`) |
| `gateway_revoke` (violation) | the API answers `revoked: true` while the registry has the consent active | 1 request, `struct` registry |
| `gateway_revoked_flag` (violation) | a consent read from the chain is not reported as revoked | 1 request, `fields` registry, no failures |
| `api_server` | one client per spelling, clients closed in order, GetClient returns, the process ends | 2 requests of 4 kinds, 3 spellings of 2 chains, 1 task with one retry that calls Qdrant, either service missing at start |

Why these bounds are enough to be of interest. Registry: the four agreements
include every edge the code distinguishes (repeated party, unsignable party,
empty-looking start, extension of an existing id, end reached), and three
timestamps cover before, inside and at the end of a window. Pool: with channels
of one slot both are full in many states, and two workers can hold two tasks
while a third waits. Indexer: two blocks are two batches when the listener polls
late, and one batch in a backfill; two starts give a gap or a replay. The
listeners share the process and the mutex, so the second chain is there to keep
the mutex from the first, or to want it; one block does both. Gateway: two requests
at a time suffice for every race of a fill with a revocation, a creation or the
indexer, and the third lets a creation be over before two requests meet on its
id: a revocation beside a revocation, a read or a verification. `Within` gives
three requests no transaction and no tick, as what a creation and a revocation
leave behind needs neither, and two requests two of them;
what needs more of both is left to the proofs, which have no bound. The entry of
a creation outlives that of a read, and three instants let each expire while a
request is under way.
API server: two requests are enough to miss
the same client together, one of them with the list of all chains, while the
task runs and `main` goes through its steps. Verifier: with two words in an
array every hash of three words can be split in two ways.
Proof service: three requests are one that fails, one that leaves work behind
and one that is observed. The rate limiter is proved for all parameters. Deadlock
is not checked: the bounds on time, blocks and tasks end every behaviour, and a
pool that was shut down really stops.

Fairness. `api_server`: a dial ends after ten seconds at the latest; calls of
Qdrant and Redis, and so the task handlers, return (weak fairness); a goroutine
that waits for the RWMutex, and `main` on its way down, get it in the end
although it is taken and released again and again: Go's mutexes do not starve a
waiter (strong fairness of `GetClient` and `Shutdown`). Nothing is assumed of
the calls to an RPC endpoint, which have no deadline, nor of callers, of those
who submit tasks and of the signal.
`worker_pool`: goroutines that can run do run, handlers return
and timers fire; no caller is obliged to submit or to shut down.
`indexer`: the process is started, and a listener whose calls return keeps being
scheduled and its poll timer fires again (Go's scheduler and `time.After`). Nothing
is assumed of the calls. FilterLogs and Redis may fail for ever, and the code
passes the blocks all the same. A call that never returns, and a BlockNumber that
fails at every tick, are the step to `hung`, and Qdrant's the step to `stuck`; no
fairness excludes them, and `EveryBlockPassed` names the listeners they hold up.

## 4. What the code and the documents disagree on

- `docs/SECURITY.md:100` names a nonce in the signatures; there is none, and
  signatures that were accepted once are accepted again (`replay`): those of an
  earlier state of a consent restore it, those of one registration may extend
  another consent of the same terms.
- `docs/ARCHITECTURE.md:84` has a revocation lock the escrow, and line 175 an
  expiry too; no lock exists, and the payload stays readable (`escrow_lock`).
- `VerifySetup.test.ts:144` expects the address that `predictDeploymentAddress`
  gives to be the deployed one; `INIT_CODE_HASH` leaves out the constructor's
  argument (`factory_predict`).
- `docs/OPENAPI.md:133` says that the revoke operation revokes an active consent;
  it prepares a transaction, sends none and answers `revoked: true`
  (`gateway_revoke`).
- `docs/ARCHITECTURE.md:237` has the indexer parse the registry's events; its
  event signatures are not those of the contract (`indexer_abi`).
- `tests/robot/api/consent-lifecycle.robot:66` expects a revoked consent to be
  reported as revoked; `decodeConsentData` tests the first byte of the flag's word,
  which is never set, so that no consent read from a chain is
  (`gateway_revoked_flag`).

Not stated as runs. `docs/ARCHITECTURE.md:173` lets only the registry store a
payload; the contract lets any party. `proof-generation.robot:124` wants tampered
public inputs refused; the proof service does not look at them.
`docs/SECURITY.md:100` also names the contract's address in the signatures; in a
clone it is the implementation's, so one signature serves every clone.
`docs/OPENAPI.md:382` limits a client to 100 requests per
minute, `routes.go` passes 100 per second and a burst of 200 to the limiter.

## 5. Proofs

Every invariant and every action property of the passing runs is proved for all
values of the constants that satisfy the assumptions named below, and so are the
two refinements. What stays with TLC is at the end of this section.

The library's induction theorems take an operator as a parameter, which the
provers cannot instantiate. Induction is therefore done on sets: the numbers,
the sequences or the finite sets for which a claim fails have a least member
(`WFMin` over `<`), which leads to a contradiction. `LeastNumber`, `SequenceInduction` and
`SubsetInduction` state this once each. The operators that the
proofs are about are recursive functions or folds (the loop of
`getActiveConsentsForParty`, `FlattenSeq`, `SumFunctionOnSet`), and each is
related to its recursion by a lemma first.

`ConsentRegistryProofs`, for any sets of accounts and agreements and any bounds:
type correctness; `RegistryInv`, the conjunction of `TypeOK`,
`PartyIndexExact`, `CountExact`, `EveryPartySigned` and the facts that make it
inductive (finitely many consents, and a stored record agrees with its id in
the fields an update cannot change); from it the three action properties; and
`RegistryImplementsLifecycle`: initial states map to initial states, and each
action to its abstract step (`RegisterRecords`, `UpdateAmends`,
`RevokeWithdraws`) or, for a reverted or repeated one, to a stutter.
Assumptions: `AddressAssumption` (the zero address and foreign signers are not
accounts, a malformed signature is no signature), `TermsAssumption` (agreements
have the type of the struct) and the types of the bounds. The argument: a
verified signature array contains, for every account it names, that account's
signature over the digest; signatures never disappear; a new id is in no
party's list, so appending keeps the list injective. `ActiveListCorrect` adds
the loop of `getActiveConsentsForParty`: after i elements its result is the
active ids among the first i, in order and each once.

The escrow is in the same module. A behaviour of it is one of the registry with
stores beside it (`EscrowRefinesRegistry`), so the registry's theorems hold
there. No step of the registry removes a consent or changes its parties
(`PartiesStay`) and no store overwrites a payload (`PayloadStays`); `EscrowByParty`
and `PayloadKept` follow.

`RateLimiterProofs`, for any rate, burst, resolution and clients: the level of a
bucket is tied to the history of grants. The invariant says that the tokens in
a bucket never exceed, for each earlier grant, the capacity plus what was gained
since minus what was granted since, and that for some grant this bound is
attained; the two properties read off one half each.

`WorkerPoolProofs`, for any tasks and workers (finitely many), channels of any
capacity above zero and any retry limits (`PoolAssumption`). `PoolInv` says that
a task is in one place (`OnePlace`: not accepted, in one of the two channels, with
a worker, under a timer, with a sender, given up or finished), that what a worker holds agrees with where it is and with the status of the task
(`WorkerInv`), that a handler call is counted in `Retries` once it has failed
(`CallsInv`), and that the counters are the cardinalities they count. From it
`TypeOK`, `TaskInOnePlace`, `CountersExact` and `PoolImplementsTaskPool`: each
step of a channel, a timer or a worker is a step of `TaskPool` or a stutter.

`ApiServerProofs`, for any requests, spellings, tasks and traffic. For the types
a request under way must have a call left, and one inside `GetClient` must be at
the name of a chain (`PlanInv`); with them, the lock is held by a goroutine
exactly while it dials. That an open client is in the map needs the write lock:
a goroutine that dials holds it, and
the spelling it dials has no client yet (`DialInv`). `ShutdownInOrder` needs
more: a closed pool runs no task and is closed before any service (`PoolInv`),
a request calls a chain on an open client as long as the clients are not closed
(`CallInv`), and once the drain is over without a request given up, none is
left (`DrainInv`). Assumption: `ServerAssumption` (among others, the list of
`GetChains` is not empty).

`IndexerProofs`, for any chains, consents, batch sizes, failures and bounds
(`IndexerAssumption`). The first half is about `FlattenSeq`: the logs of two
ranges of blocks after each other are those of the joined range, and empty
blocks add nothing. `IndexerInv` then says where each listener is (`Place`: above its
start, in a range that ends at or below the head, past the blocks it lost) and
what it has applied (`Reads`). A fetched batch comes after what was read
(`ReadBatch`), a lost one adds nothing (`ReadSkips`), a mined one is above it or
below the start (`ReadMined`). `ReadsInOrder` is `Reads` with the query of one
block written out. `NoRevokedEntry` needs more: the registry logs no
registration of a consent after its revocation (`ChainInOrder`), what the query
leaves of the logs keeps that order (`ReadOrdered`), so a log of a registration
that is applied, and writes an entry, was not preceded in the run by the
revocation (`CacheCurrent`). It is proved under the hypothesis that the query
names the topic of the registry's revocations, as in the passing run;
`UnmatchedNeverRead` is about the other case, that of `indexer_abi`: if the query
names none of the registry's topics, no listener ever applies a log and no
entry is ever written.

`GatewayProofs`, for any chains, names, ids, kinds of registry, lifetimes,
requests and failures. The answers come from the registry, the cache, the index
and the locals that a request holds between two calls, and `GatewayInv` says of
each of them what is true of the consent it speaks of: an end of validity in a
record, a log, an entry or a local is one that the registry has held or the
creation was answered with (`RegistryTrue`, `LogsTrue`, `CacheTrue`, `Local`);
the entry of a creation stays until its end or until it is invalidated
(`EntryKept`). For `ValidWasInForce` a verification carries from call to call what it
learned: an end that the registry has held, a clock that was not past it, and that
the consent was not revoked when it came (`VerifyKnows`). For `SearchNeverRevives` an
id is indexed once, by the request that creates it (`IndexTrue`, `OneCreator`), so a
point that was found is the only one there will be; a revocation that found it
leaves it `Settled`: it is found, and it is revoked or a write that will revoke it
is pending (`RevokeKnows`, `IdsKnown`). A point is never removed and the only flag
that is written is true, so `Settled` lasts, and once Qdrant has applied what is
pending only the revoked point is left. What a request read before
another's step is still true after it (`TrueKept`, `KnowsKept`, `LocalKept`), because
an end that a registry has held stays one it has held, and a revocation is final.
Assumption: `GatewayAssumption` (the default chain is configured; ids of the
API are not ids on chain; `None` is neither an entry nor a creation).

`ZkServiceProofs`, for any requests, circuits, inputs, installed directories and
failures (`ServiceAssumption`). `ServiceInv`: blocking work belongs to a handler
that waits for it or was dropped (`Waits`), two requests with work in one
directory both count as having shared it (`Apart`), and for a request that was
alone the files hold its own input or proof from the moment it wrote them
(`Own`). The last three are needed together: `Own` survives another request's
step only because `Apart` says that this step is in another directory.

`ContractProofs`, for any consents, words, salts and agreements. A transaction
of the token, the verifier or the factory writes one fact to several structures,
and the invariants say that these agree. A pushed value is in no array yet, because the
set of used hashes, or the map of clones, was asked first; so the arrays stay
free of duplicates (`AppendFresh`). For the token, the next id is above every
id handed out (`TokenInv`), so a mint links a consent and a token that were both
free; and the supply of a token is a sum over accounts, to which a mint adds the
length of the party array (`OccurrencesSum`) and a transfer nothing
(`SumOfSums`, `SumOfOne`). Assumptions:
finitely many accounts (`TokenAssumption`), and the implementation contract is
not one of its clones (`ImplementationAssumption`).

Only model-checked: the liveness properties `ShutdownTerminates`,
`AcceptedFinishes`, `EveryBlockPassed`, `GetClientReturns` and `ServerStops`
(fairness and ENABLED are out of the prover's reach here). The six violations
are TLC's counterexamples.

## 6. Not modelled, and the plan

Next, proofs: facts that the liveness arguments rest on and that are safety
properties, such as `lastBlock` never moving back within a run and the bound on
the steps a task has left.

Not modelled:
- chain reorganisations in the indexer (blocks at or below `lastBlock` are never
  read again) and what the indexer's Qdrant update writes, which matches no point;
- `SubmitTransaction`, `WaitForReceipt`, `IncrementRateLimit` and the other
  functions of the Go code that nothing calls, and the byte layout of
  `contracts/client.go`'s encoders;
- the Solana programs: `declare_id!` is a placeholder, account seeds name a field
  of an account that does not exist yet and one account is larger than a program
  may allocate, so that what they would do cannot be told from the source;
- the Noir circuits and RISC Zero guests, which are functions without state;
- the frontend page, deployment scripts, infrastructure, CI, mocks and tests;
  the MCP server and PostgreSQL, which appear in documents only; cryptography.
