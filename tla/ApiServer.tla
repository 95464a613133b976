----------------------------- MODULE ApiServer -----------------------------
(***************************************************************************)
(* The life of the API server (backend/go-api/cmd/server/main.go): the     *)
(* requests it admits (internal/api/routes.go, middleware.go), the chain   *)
(* clients they share (chain_client.go), the tasks of the worker pool and  *)
(* their handlers (internal/worker/tasks.go, on the abstract TaskPool),    *)
(* and the shutdown that takes all of it down.                             *)
(*                                                                         *)
(* A request is a goroutine.  It works off its plan: a sequence of calls   *)
(* to services and to chains.  A call to an RPC endpoint may never return: *)
(* the clients have no timeout and the context of a request ends only when *)
(* its caller goes away.  Dialling ends after 10 seconds at the latest.    *)
(***************************************************************************)
EXTENDS Naturals, Sequences, FiniteSets, Functions

CONSTANTS
  Request,
  Spelling,    \* the names of chains a request may use, with their variants
  Canonical,   \* the five names of GetChains, as a sequence
  Traffic,     \* what callers may send
  Task, MaxRetries,
  Needs,       \* task -> the service its handler calls, or None
  None

Service == {"qdrant", "redis"}

\* "create" also stands for the route of RevokeConsent, "status" for that of
\* GenerateProof and "search" for that of GetPartyConsents: the same calls.
Route == {"create", "get", "verify", "search", "chains", "status"}
Input == [route : Route, chain : Spelling, preflight : BOOLEAN, authorized : BOOLEAN]

ASSUME ServerAssumption ==
  /\ Canonical \in Seq(Spelling) \ {<< >>}
  /\ Traffic \subseteq Input
  /\ Needs \in [Task -> Service \cup {None}]
  /\ Spelling \cap Service = {}
  /\ None \notin Request \cup Service

VARIABLES
  main,      \* where main is
  gaveUp,    \* srv.Shutdown returned with requests still in flight
  pc, plan, conn,   \* the requests: place, calls to make, chain client in use
  lock,      \* ChainManager.mu: the goroutine that holds it for writing
  clients,   \* ChainManager.clients: spelling -> client
  open,      \* the clients that are connected
  service,   \* service -> "missing" (not reached at start), "open", "closed"
  cutOff,    \* history: the requests and tasks whose client was closed under them
  task, attempts, pool     \* the worker pool

requestVars == <<pc, plan, conn>>
chainVars == <<lock, clients, open>>
poolVars == <<task, attempts, pool>>
vars == <<main, gaveUp, requestVars, chainVars, service, cutOff, poolVars>>

Pool == INSTANCE TaskPool WITH Unhandled <- {}  \* tasks.go registers a handler for every type

Running == main \notin {"stopped", "crashed"}
InFlight == {r \in Request : pc[r] \notin {"new", "done"}}

-----------------------------------------------------------------------------
Init ==
  /\ main = "listen"
  /\ gaveUp = FALSE
  /\ pc = [r \in Request |-> "new"]
  /\ plan = [r \in Request |-> << >>]
  /\ conn = [r \in Request |-> None]
  /\ lock = None /\ clients = << >> /\ open = {}
  /\ service \in [Service -> {"missing", "open"}]
  /\ cutOff = {}
  /\ Pool!Init

(* Requests.  The middlewares run in the order CORS, rate limit, credentials, *)
(* and for the status of one chain the list of canonical names; the handlers  *)
(* test the spelling.                                                         *)

Admitted(q, allowed) ==
  /\ ~q.preflight
  /\ allowed
  /\ q.authorized
  /\ q.route = "status" => q.chain \in Range(Canonical)

Plan(q) ==
  CASE q.route = "create" -> <<q.chain, "qdrant", "redis">>
    [] q.route = "get" -> <<"redis", q.chain, "redis">>
    [] q.route = "verify" -> <<q.chain, "redis">>
    [] q.route = "search" -> <<"qdrant">>
    [] q.route = "chains" -> Canonical
    [] q.route = "status" -> <<q.chain>>

Arrive(r, q) ==
  /\ main = "listen"
  /\ pc[r] = "new"
  /\ \E allowed \in BOOLEAN :
       IF Admitted(q, allowed)
       THEN plan' = [plan EXCEPT ![r] = Plan(q)] /\ pc' = [pc EXCEPT ![r] = "plan"]
       ELSE pc' = [pc EXCEPT ![r] = "done"] /\ UNCHANGED plan
  /\ UNCHANGED <<main, gaveUp, conn, chainVars, service, cutOff, poolVars>>

\* The request goes on to its next call, or answers.
Continue(r) ==
  /\ plan' = [plan EXCEPT ![r] = Tail(@)]
  /\ pc' = [pc EXCEPT ![r] = IF Len(plan[r]) = 1 THEN "done" ELSE "plan"]

Answer(r) ==
  /\ plan' = [plan EXCEPT ![r] = << >>]
  /\ pc' = [pc EXCEPT ![r] = "done"]

\* A chain that cannot be asked ends a request that has more to do with the
\* answer; GetChains goes on and reports the chain as not ready.
GiveUpChain(r) == IF Range(plan[r]) \cap Service = {} THEN Continue(r) ELSE Answer(r)

At(r, S) == Running /\ pc[r] = "plan" /\ Head(plan[r]) \in S

\* Errors of Qdrant and Redis are logged.  A missing client is a nil pointer: the
\* handler panics and gin.Recovery answers.  A cached consent answers GetConsent
\* before it asks the chain.
CallService(r) ==
  LET s == Head(plan[r]) IN
  /\ At(r, Service)
  /\ \/ service[s] # "missing" /\ Continue(r)
     \/ service[s] = "missing" /\ Answer(r)
     \/ service[s] = "open" /\ Range(Tail(plan[r])) \cap Spelling # {} /\ Answer(r)
  /\ cutOff' = IF service[s] = "closed" THEN cutOff \cup {r} ELSE cutOff
  /\ UNCHANGED <<main, gaveUp, conn, chainVars, service, poolVars>>

Use(r, c) ==
  /\ pc' = [pc EXCEPT ![r] = "rpc"]
  /\ conn' = [conn EXCEPT ![r] = c]

(* GetClient: look up under the read lock; under the write lock look up     *)
(* again and dial.                                                          *)

ReadClients(r) ==
  /\ At(r, Spelling)
  /\ lock = None
  /\ IF Head(plan[r]) \in DOMAIN clients
     THEN Use(r, clients[Head(plan[r])])
     ELSE pc' = [pc EXCEPT ![r] = "lock"] /\ UNCHANGED conn
  /\ UNCHANGED <<main, gaveUp, plan, chainVars, service, cutOff, poolVars>>

\* Seeded fault: the second look-up is missing.
FaultLockClients(r) ==
  /\ Running
  /\ pc[r] = "lock"
  /\ lock = None
  /\ lock' = r
  /\ pc' = [pc EXCEPT ![r] = "dial"]
  /\ UNCHANGED <<main, gaveUp, plan, conn, clients, open, service, cutOff, poolVars>>

LockClients(r) ==
  /\ Running
  /\ pc[r] = "lock"
  /\ lock = None
  /\ IF Head(plan[r]) \in DOMAIN clients
     THEN Use(r, clients[Head(plan[r])]) /\ UNCHANGED lock
     ELSE lock' = r /\ pc' = [pc EXCEPT ![r] = "dial"] /\ UNCHANGED conn
  /\ UNCHANGED <<main, gaveUp, plan, clients, open, service, cutOff, poolVars>>

DialSucceeds(r) ==
  LET c == <<r, Head(plan[r])>> IN
  /\ Running
  /\ pc[r] = "dial"
  /\ clients' = [ch \in DOMAIN clients \cup {Head(plan[r])} |->
                   IF ch = Head(plan[r]) THEN c ELSE clients[ch]]
  /\ open' = open \cup {c}
  /\ lock' = None
  /\ Use(r, c)
  /\ UNCHANGED <<main, gaveUp, plan, service, cutOff, poolVars>>

\* Seeded fault: the error path returns with the lock held.
FaultDialFails(r) ==
  /\ Running
  /\ pc[r] = "dial"
  /\ GiveUpChain(r)
  /\ UNCHANGED <<main, gaveUp, conn, chainVars, service, cutOff, poolVars>>

DialFails(r) ==
  /\ Running
  /\ pc[r] = "dial"
  /\ lock' = None
  /\ GiveUpChain(r)
  /\ UNCHANGED <<main, gaveUp, conn, clients, open, service, cutOff, poolVars>>

\* The calls on the chain client return, with a result or an error (as does
\* getContractClient for a chain without a registry address).
RpcReturns(r) ==
  /\ Running
  /\ pc[r] = "rpc"
  /\ Continue(r) \/ GiveUpChain(r)
  /\ conn' = [conn EXCEPT ![r] = None]
  /\ cutOff' = IF conn[r] \in open THEN cutOff ELSE cutOff \cup {r}
  /\ UNCHANGED <<main, gaveUp, chainVars, service, poolVars>>

(* Tasks.  The handlers of tasks.go call one service or none.  In a worker  *)
(* nothing recovers a panic: a handler that calls a missing client ends the *)
(* process.                                                                 *)

server == <<main, gaveUp, requestVars, chainVars, service, cutOff>>

AcceptTask(t) == Running /\ Pool!Accept(t) /\ UNCHANGED server
DropTask(t) == Running /\ Pool!Drop(t) /\ UNCHANGED server
StartTask(t) == Running /\ Pool!Begin(t) /\ UNCHANGED server

\* Handlers return: their only calls are under the pool's context.  One that
\* calls no service fails on data of another type.
HandlerReturns(t) ==
  /\ Running
  /\ task[t] = "running"
  /\ Needs[t] = None \/ service[Needs[t]] # "missing"
  /\ Pool!Succeed(t) \/ Pool!Fail(t)
  /\ cutOff' = IF Needs[t] # None /\ service[Needs[t]] = "closed" THEN cutOff \cup {t} ELSE cutOff
  /\ UNCHANGED <<main, gaveUp, requestVars, chainVars, service>>

HandlerPanics(t) ==
  /\ Running
  /\ task[t] = "running"
  /\ Needs[t] # None /\ service[Needs[t]] = "missing"
  /\ main' = "crashed"
  /\ UNCHANGED <<gaveUp, requestVars, chainVars, service, cutOff, poolVars>>

(* main after a signal *)

Signal ==
  /\ main = "listen"
  /\ main' = "drain"
  /\ UNCHANGED <<gaveUp, requestVars, chainVars, service, cutOff, poolVars>>

\* Seeded fault: Shutdown is given a context without a deadline.
FaultDrained ==
  /\ main = "drain"
  /\ InFlight = {}
  /\ main' = "pool"
  /\ UNCHANGED <<gaveUp, requestVars, chainVars, service, cutOff, poolVars>>

\* srv.Shutdown returns when no request is in flight or after 10 seconds; then
\* the requests that are left go on.
Drained ==
  /\ main = "drain"
  /\ main' = "pool"
  /\ gaveUp' = (InFlight # {})
  /\ UNCHANGED <<requestVars, chainVars, service, cutOff, poolVars>>

CancelPool ==
  /\ main = "pool"
  /\ Pool!Cancel
  /\ UNCHANGED server

\* Seeded fault: main closes the clients without waiting for the workers.
FaultClosePool ==
  /\ main = "pool"
  /\ pool = "cancelled"
  /\ main' = "qdrant"
  /\ UNCHANGED <<gaveUp, requestVars, chainVars, service, cutOff, poolVars>>

ClosePool ==
  /\ main = "pool"
  /\ Pool!Close
  /\ main' = "qdrant"
  /\ UNCHANGED <<gaveUp, requestVars, chainVars, service, cutOff>>

\* Qdrant, then Redis.
CloseService ==
  /\ main \in Service
  /\ service' = [service EXCEPT ![main] = IF @ = "open" THEN "closed" ELSE @]
  /\ main' = IF main = "qdrant" THEN "redis" ELSE "chains"
  /\ UNCHANGED <<gaveUp, requestVars, chainVars, cutOff, poolVars>>

CloseAll ==
  /\ main = "chains"
  /\ lock = None
  /\ open' = open \ Range(clients)
  /\ clients' = << >>
  /\ main' = "exit"
  /\ UNCHANGED <<gaveUp, requestVars, lock, service, cutOff, poolVars>>

Exit ==
  /\ main = "exit"
  /\ main' = "stopped"
  /\ UNCHANGED <<gaveUp, requestVars, chainVars, service, cutOff, poolVars>>

-----------------------------------------------------------------------------
GetClient(r) == ReadClients(r) \/ LockClients(r)
Calls(r) == CallService(r) \/ DialSucceeds(r) \/ DialFails(r)
Handle(t) == HandlerReturns(t) \/ HandlerPanics(t)
Shutdown == Drained \/ CancelPool \/ ClosePool \/ CloseService \/ CloseAll \/ Exit

Next ==
  \/ \E r \in Request : \E q \in Traffic : Arrive(r, q)
  \/ \E r \in Request : GetClient(r) \/ Calls(r) \/ RpcReturns(r)
  \/ \E t \in Task : AcceptTask(t) \/ DropTask(t) \/ StartTask(t) \/ Handle(t)
  \/ Signal
  \/ Shutdown

Spec == Init /\ [][Next]_vars

\* A dial ends by its timeout; a goroutine that waits for the mutex gets it in
\* the end (sync.RWMutex lets neither readers nor writers starve); calls of
\* Qdrant and Redis and so the task handlers return.  Nothing is assumed of
\* RpcReturns, nor of what callers, submitters and signals do.
Fairness ==
  /\ \A r \in Request : SF_vars(GetClient(r)) /\ WF_vars(Calls(r))
  /\ \A t \in Task : WF_vars(Handle(t))
  /\ SF_vars(Shutdown)

FairSpec == Spec /\ Fairness

-----------------------------------------------------------------------------
(* Properties *)

Connection == Request \X Spelling

\* Every variable holds a value of its type, and the goroutine that is dialling
\* is the one that holds the lock.
TypeOK ==
  /\ main \in {"listen", "drain", "pool", "qdrant", "redis", "chains", "exit", "stopped", "crashed"}
  /\ gaveUp \in BOOLEAN
  /\ pc \in [Request -> {"new", "plan", "lock", "dial", "rpc", "done"}]
  /\ plan \in [Request -> Seq(Spelling \cup Service)]
  /\ conn \in [Request -> Connection \cup {None}]
  /\ lock \in Request \cup {None}
  /\ DOMAIN clients \subseteq Spelling /\ Range(clients) \subseteq Connection
  /\ open \subseteq Connection
  /\ service \in [Service -> {"missing", "open", "closed"}]
  /\ cutOff \subseteq Request \cup Task
  /\ \A r \in Request : pc[r] = "dial" <=> lock = r

\* Requests that miss in the client map at the same time do not dial twice: the
\* open clients are those in the map, so CloseAll reaches every one of them,
\* and a request never calls a client that another one replaced.
OpenClientsListed == open = Range(clients)

\* The order of main's shutdown: a client is closed under a request only when
\* srv.Shutdown gave up on it, under a task never; and nothing stays open when
\* no request was given up.
ShutdownInOrder ==
  /\ cutOff \subseteq Request
  /\ ~gaveUp => cutOff = {} /\ (main = "stopped" => open = {})

\* GetClient returns although one goroutine dials under the lock that all the
\* others need.
InGetClient(r) == pc[r] \in {"lock", "dial"} \/ At(r, Spelling)
GetClientReturns == \A r \in Request : InGetClient(r) ~> (~InGetClient(r) \/ ~Running)

\* After a signal the process ends, also with endpoints that never answer and
\* with failing tasks.
ServerStops == main = "drain" ~> ~Running
=============================================================================
