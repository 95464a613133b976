--------------------------- MODULE ApiServerProofs ---------------------------
(***************************************************************************)
(* The chain clients and the shutdown of the API server, for any number of *)
(* requests, spellings and tasks and any traffic.                          *)
(***************************************************************************)
EXTENDS ApiServer, TLAPS

\* Where main is once the worker pool has returned, and from its start on until
\* it closes the chain clients.
AfterPool == {"qdrant", "redis", "chains", "exit", "stopped"}
ClientsUp == {"listen", "drain", "pool", "qdrant", "redis", "chains"}

Domains ==
  /\ DOMAIN pc = Request /\ DOMAIN plan = Request /\ DOMAIN conn = Request
  /\ DOMAIN task = Task /\ DOMAIN service = Service
  /\ main \in ClientsUp \cup AfterPool \cup {"crashed"}

\* A goroutine dials with the lock, for a spelling that has no client.
DialInv ==
  /\ OpenClientsListed
  /\ \A r \in Request : pc[r] = "dial" => lock = r /\ Head(plan[r]) \notin DOMAIN clients

\* No task runs once the pool is closed, and it is closed before the services.
PoolInv ==
  /\ \A t \in Task : task[t] = "running" => pool # "closed"
  /\ main \in AfterPool => pool = "closed"
  /\ \A s \in Service : service[s] = "closed" => main \notin {"listen", "drain", "pool"}

\* A request that calls a chain does it on an open client until they are closed.
CallInv == \A r \in Request : pc[r] = "rpc" /\ main \in ClientsUp => conn[r] \in open

\* No request is given up before the drain is over; when none was, none is left
\* then.
DrainInv ==
  /\ gaveUp \in BOOLEAN
  /\ main \in {"listen", "drain"} => ~gaveUp
  /\ main \in AfterPool \cup {"pool"} /\ ~gaveUp => InFlight = {}
  /\ main \in {"exit", "stopped"} /\ ~gaveUp => open = {}

ServerInv == Domains /\ DialInv /\ PoolInv /\ CallInv /\ DrainInv /\ ShutdownInOrder

-----------------------------------------------------------------------------
\* A map without clients has none open.
LEMMA NoClients == DOMAIN << >> = {} /\ Range(<< >>) = {}
BY DEF Range

\* ChainManager's map with one more spelling has one more client in it.
LEMMA OneMoreClient ==
  ASSUME NEW f, NEW x, x \notin DOMAIN f, NEW c
  PROVE  LET g == [y \in DOMAIN f \cup {x} |-> IF y = x THEN c ELSE f[y]]
         IN  Range(g) = Range(f) \cup {c}
BY DEF Range

-----------------------------------------------------------------------------
(* Types *)

States == {"new", "plan", "lock", "dial", "rpc", "done"}

\* A request that is under way has calls left, and one that asks for a client or
\* uses it is at the name of a chain.
PlanInv ==
  \A r \in Request :
    /\ pc[r] \in {"plan", "lock", "dial", "rpc"} => plan[r] # << >>
    /\ pc[r] \in {"lock", "dial", "rpc"} => Head(plan[r]) \in Spelling

TypeInv == TypeOK /\ PlanInv

LEMMA PlanType ==
  ASSUME NEW q \in Traffic
  PROVE  Plan(q) \in Seq(Spelling \cup Service) /\ Plan(q) # << >>
<1>1. q.route \in Route /\ q.chain \in Spelling
  BY ServerAssumption DEF Input
<1>2. Canonical \in Seq(Spelling \cup Service) /\ Canonical # << >>
  BY ServerAssumption
<1>3. "qdrant" \in Spelling \cup Service /\ "redis" \in Spelling \cup Service
  BY DEF Service
<1>4. q.chain \in Spelling \cup Service
  BY <1>1
<1>5. /\ <<q.chain, "qdrant", "redis">> \in Seq(Spelling \cup Service)
      /\ <<"redis", q.chain, "redis">> \in Seq(Spelling \cup Service)
      /\ <<q.chain, "redis">> \in Seq(Spelling \cup Service)
      /\ <<"qdrant">> \in Seq(Spelling \cup Service)
      /\ <<q.chain>> \in Seq(Spelling \cup Service)
  BY <1>3, <1>4
<1>6. /\ <<q.chain, "qdrant", "redis">> # << >> /\ <<"redis", q.chain, "redis">> # << >>
      /\ <<q.chain, "redis">> # << >> /\ <<"qdrant">> # << >> /\ <<q.chain>> # << >>
  OBVIOUS
<1> QED BY <1>1, <1>2, <1>5, <1>6 DEF Plan, Route

\* A request that has worked off a call has more to do or is done.
LEMMA AfterCall ==
  ASSUME TypeInv, NEW r \in Request, pc[r] \in {"plan", "dial", "rpc"}, Continue(r) \/ Answer(r)
  PROVE  /\ plan' \in [Request -> Seq(Spelling \cup Service)]
         /\ pc' \in [Request -> States]
         /\ pc'[r] \in {"plan", "done"} /\ (pc'[r] = "plan" => plan'[r] # << >>)
         /\ \A s \in Request : s # r => pc'[s] = pc[s] /\ plan'[s] = plan[s]
<1>1. /\ plan \in [Request -> Seq(Spelling \cup Service)] /\ pc \in [Request -> States]
      /\ plan[r] \in Seq(Spelling \cup Service) /\ plan[r] # << >>
  BY DEF TypeInv, TypeOK, PlanInv, States
<1>2. PICK p : p = plan[r]
  OBVIOUS
<1>3. p \in Seq(Spelling \cup Service) /\ p # << >> /\ Len(p) \in Nat
  BY <1>1, <1>2
<1>4. Tail(p) \in Seq(Spelling \cup Service) /\ (Len(p) # 1 => Tail(p) # << >>)
  <2>1. Tail(p) \in Seq(Spelling \cup Service) /\ Len(Tail(p)) = Len(p) - 1
    BY <1>3
  <2>2. Len(p) # 1 => Len(Tail(p)) # 0
    BY <1>3, <2>1
  <2>3. Len(<< >>) = 0
    OBVIOUS
  <2>4. PICK u : u = Tail(p)
    OBVIOUS
  <2>5. Len(p) # 1 => u # << >>
    BY <2>2, <2>3, <2>4
  <2> QED BY <2>1, <2>4, <2>5
<1>5. CASE Continue(r)
  <2>1. /\ plan' = [plan EXCEPT ![r] = Tail(p)]
        /\ pc' = [pc EXCEPT ![r] = IF Len(p) = 1 THEN "done" ELSE "plan"]
    BY <1>2, <1>5 DEF Continue
  <2>2. plan' \in [Request -> Seq(Spelling \cup Service)] /\ plan'[r] = Tail(p)
    BY <1>1, <1>4, <2>1
  <2>3. pc' \in [Request -> States] /\ pc'[r] = (IF Len(p) = 1 THEN "done" ELSE "plan")
    BY <1>1, <2>1 DEF States
  <2> QED BY <1>1, <1>4, <2>1, <2>2, <2>3
<1>6. CASE Answer(r)
  <2>1. << >> \in Seq(Spelling \cup Service)
    OBVIOUS
  <2>2. plan' = [plan EXCEPT ![r] = << >>] /\ pc' = [pc EXCEPT ![r] = "done"]
    BY <1>6 DEF Answer
  <2>3. plan' \in [Request -> Seq(Spelling \cup Service)]
    BY <1>1, <2>1, <2>2
  <2>4. pc' \in [Request -> States] /\ pc'[r] = "done"
    BY <1>1, <2>2 DEF States
  <2> QED BY <1>1, <2>2, <2>3, <2>4
<1> QED BY <1>5, <1>6

LEMMA TypeInvInit == Init => TypeInv
<1> SUFFICES ASSUME Init PROVE TypeInv
  OBVIOUS
<1>1. << >> \in Seq(Spelling \cup Service)
  OBVIOUS
<1>2. plan \in [Request -> Seq(Spelling \cup Service)]
  BY <1>1 DEF Init
<1>3. DOMAIN clients \subseteq Spelling /\ Range(clients) \subseteq Connection
  BY NoClients DEF Init
<1>4. service \in [Service -> {"missing", "open", "closed"}]
  BY DEF Init
<1>5. \A r \in Request : pc[r] = "new" /\ lock # r
  BY ServerAssumption DEF Init
<1>6. PlanInv
  BY <1>5 DEF PlanInv
<1>7. TypeOK
  BY <1>2, <1>3, <1>4, <1>5 DEF Init, TypeOK
<1> QED BY <1>6, <1>7 DEF TypeInv

\* The types of what a request's step may change; the rest it leaves alone.
LEMMA TypesAfter ==
  ASSUME TypeInv, NEW r \in Request,
         UNCHANGED <<main, gaveUp, service>>,
         pc' \in [Request -> States], plan' \in [Request -> Seq(Spelling \cup Service)],
         conn' \in [Request -> Connection \cup {None}], lock' \in Request \cup {None},
         DOMAIN clients' \subseteq Spelling, Range(clients') \subseteq Connection,
         open' \subseteq Connection, cutOff' \subseteq Request \cup Task,
         \A s \in Request : pc'[s] = "dial" <=> lock' = s,
         \A s \in Request : s # r => pc'[s] = pc[s] /\ plan'[s] = plan[s],
         pc'[r] \in {"plan", "lock", "dial", "rpc"} => plan'[r] # << >>,
         pc'[r] \in {"lock", "dial", "rpc"} => Head(plan'[r]) \in Spelling
  PROVE  TypeInv'
<1>1. TypeOK'
  BY DEF TypeInv, TypeOK, States
<1>2. ASSUME NEW s \in Request
      PROVE  /\ pc'[s] \in {"plan", "lock", "dial", "rpc"} => plan'[s] # << >>
             /\ pc'[s] \in {"lock", "dial", "rpc"} => Head(plan'[s]) \in Spelling
  <2>1. CASE s = r
    BY <2>1
  <2>2. CASE s # r
    BY <2>2 DEF TypeInv, PlanInv
  <2> QED BY <2>1, <2>2
<1>3. PlanInv'
  BY <1>2 DEF PlanInv
<1> QED BY <1>1, <1>3 DEF TypeInv

LEMMA TypeInvRequest ==
  ASSUME TypeInv, NEW r \in Request,
         (\E q \in Traffic : Arrive(r, q)) \/ GetClient(r) \/ Calls(r) \/ RpcReturns(r)
  PROVE  TypeInv'
<1>1. /\ pc \in [Request -> States] /\ plan \in [Request -> Seq(Spelling \cup Service)]
      /\ conn \in [Request -> Connection \cup {None}] /\ lock \in Request \cup {None}
      /\ DOMAIN clients \subseteq Spelling /\ Range(clients) \subseteq Connection
      /\ open \subseteq Connection /\ cutOff \subseteq Request \cup Task
      /\ \A s \in Request : pc[s] = "dial" <=> lock = s
      /\ pc[r] \in {"plan", "lock", "dial", "rpc"} => plan[r] # << >>
      /\ pc[r] \in {"lock", "dial", "rpc"} => Head(plan[r]) \in Spelling
  BY DEF TypeInv, TypeOK, PlanInv, States
<1>2. None \notin Request
  BY ServerAssumption
<1>3. ASSUME NEW c, pc[r] \in {"plan", "lock", "dial"}, Head(plan[r]) \in Spelling, Use(r, c),
             c \in Connection
      PROVE  /\ pc' \in [Request -> States] /\ conn' \in [Request -> Connection \cup {None}]
             /\ pc'[r] = "rpc" /\ \A s \in Request : s # r => pc'[s] = pc[s]
  BY <1>1, <1>3 DEF Use, States
<1>4. \A ch \in DOMAIN clients : clients[ch] \in Connection
  BY <1>1 DEF Range
<1>5. ASSUME NEW q \in Traffic, Arrive(r, q) PROVE TypeInv'
  <2>1. /\ UNCHANGED <<main, gaveUp, service, conn, lock, clients, open, cutOff>> /\ pc[r] = "new"
        /\ \/ plan' = [plan EXCEPT ![r] = Plan(q)] /\ pc' = [pc EXCEPT ![r] = "plan"]
           \/ pc' = [pc EXCEPT ![r] = "done"] /\ UNCHANGED plan
    BY <1>5 DEF Arrive, chainVars
  <2>2. PICK p : p = Plan(q)
    OBVIOUS
  <2>3. p \in Seq(Spelling \cup Service) /\ p # << >>
    BY <2>2, PlanType
  <2>4. CASE plan' = [plan EXCEPT ![r] = p] /\ pc' = [pc EXCEPT ![r] = "plan"]
    <3>1. plan' \in [Request -> Seq(Spelling \cup Service)] /\ plan'[r] = p
      BY <1>1, <2>3, <2>4
    <3>2. pc' \in [Request -> States] /\ pc'[r] = "plan"
      BY <1>1, <2>4 DEF States
    <3>3. \A s \in Request : s # r => pc'[s] = pc[s] /\ plan'[s] = plan[s]
      BY <1>1, <2>4
    <3>4. \A s \in Request : pc'[s] = "dial" <=> lock' = s
      BY <1>1, <2>1, <3>2, <3>3
    <3> QED BY <1>1, <2>1, <2>3, <3>1, <3>2, <3>3, <3>4, TypesAfter
  <2>5. CASE pc' = [pc EXCEPT ![r] = "done"] /\ UNCHANGED plan
    <3>1. pc' \in [Request -> States] /\ pc'[r] = "done" /\ \A s \in Request : s # r => pc'[s] = pc[s]
      BY <1>1, <2>5 DEF States
    <3>2. \A s \in Request : pc'[s] = "dial" <=> lock' = s
      BY <1>1, <2>1, <3>1
    <3> QED BY <1>1, <2>1, <2>5, <3>1, <3>2, TypesAfter
  <2> QED BY <2>1, <2>2, <2>4, <2>5
<1>6. CASE CallService(r)
  <2>1. /\ pc[r] = "plan" /\ (Continue(r) \/ Answer(r))
        /\ UNCHANGED <<main, gaveUp, service, conn, lock, clients, open>>
        /\ cutOff' \in {cutOff, cutOff \cup {r}}
    BY <1>6 DEF CallService, At, chainVars
  <2>2. /\ plan' \in [Request -> Seq(Spelling \cup Service)] /\ pc' \in [Request -> States]
        /\ pc'[r] \in {"plan", "done"} /\ (pc'[r] = "plan" => plan'[r] # << >>)
        /\ \A s \in Request : s # r => pc'[s] = pc[s] /\ plan'[s] = plan[s]
    BY <2>1, AfterCall
  <2>3. \A s \in Request : pc'[s] = "dial" <=> lock' = s
    BY <1>1, <2>1, <2>2
  <2>4. cutOff' \subseteq Request \cup Task
    BY <1>1, <2>1
  <2> QED BY <1>1, <2>1, <2>2, <2>3, <2>4, TypesAfter
<1>7. CASE ReadClients(r) \/ LockClients(r)
  <2>1. /\ pc[r] \in {"plan", "lock"} /\ Head(plan[r]) \in Spelling /\ lock = None
        /\ UNCHANGED <<main, gaveUp, service, plan, clients, open, cutOff>>
        /\ \/ /\ Head(plan[r]) \in DOMAIN clients
              /\ Use(r, clients[Head(plan[r])]) /\ UNCHANGED lock
           \/ pc' = [pc EXCEPT ![r] = "lock"] /\ UNCHANGED <<conn, lock>>
           \/ pc' = [pc EXCEPT ![r] = "dial"] /\ lock' = r /\ UNCHANGED conn
    BY <1>1, <1>7 DEF ReadClients, LockClients, At, chainVars
  <2>2. /\ pc' \in [Request -> States] /\ conn' \in [Request -> Connection \cup {None}]
        /\ pc'[r] \in {"rpc", "lock", "dial"} /\ lock' = (IF pc'[r] = "dial" THEN r ELSE None)
        /\ \A s \in Request : s # r => pc'[s] = pc[s]
    <3>1. CASE /\ Head(plan[r]) \in DOMAIN clients
               /\ Use(r, clients[Head(plan[r])]) /\ UNCHANGED lock
      BY <1>3, <1>4, <2>1, <3>1
    <3>2. CASE pc' = [pc EXCEPT ![r] = "lock"] /\ UNCHANGED <<conn, lock>>
      BY <1>1, <2>1, <3>2 DEF States
    <3>3. CASE pc' = [pc EXCEPT ![r] = "dial"] /\ lock' = r /\ UNCHANGED conn
      BY <1>1, <2>1, <3>3 DEF States
    <3> QED BY <2>1, <3>1, <3>2, <3>3
  <2>3. \A s \in Request : pc'[s] = "dial" <=> lock' = s
    BY <1>1, <1>2, <2>1, <2>2
  <2>4. lock' \in Request \cup {None}
    BY <2>2
  <2> QED BY <1>1, <2>1, <2>2, <2>3, <2>4, TypesAfter
<1>8. CASE DialSucceeds(r)
  <2>1. PICK ch, c : ch = Head(plan[r]) /\ c = <<r, ch>>
    OBVIOUS
  <2>2. /\ pc[r] = "dial" /\ lock' = None /\ Use(r, c) /\ open' = open \cup {c}
        /\ clients' = [x \in DOMAIN clients \cup {ch} |-> IF x = ch THEN c ELSE clients[x]]
        /\ UNCHANGED <<main, gaveUp, service, plan, cutOff>>
    BY <1>8, <2>1 DEF DialSucceeds
  <2>3. ch \in Spelling /\ c \in Connection
    BY <1>1, <2>1, <2>2 DEF Connection
  <2>4. /\ pc' \in [Request -> States] /\ conn' \in [Request -> Connection \cup {None}]
        /\ pc'[r] = "rpc" /\ \A s \in Request : s # r => pc'[s] = pc[s]
    BY <1>3, <2>1, <2>2, <2>3
  <2>5. DOMAIN clients' \subseteq Spelling /\ Range(clients') \subseteq Connection
    BY <1>1, <1>4, <2>2, <2>3 DEF Range
  <2>6. \A s \in Request : pc'[s] = "dial" <=> lock' = s
    BY <1>1, <1>2, <2>2, <2>4
  <2>7. open' \subseteq Connection
    BY <1>1, <2>2, <2>3
  <2> QED BY <1>1, <2>1, <2>2, <2>3, <2>4, <2>5, <2>6, <2>7, TypesAfter
<1>9. CASE DialFails(r)
  <2>1. /\ pc[r] = "dial" /\ lock' = None /\ (Continue(r) \/ Answer(r))
        /\ UNCHANGED <<main, gaveUp, service, conn, clients, open, cutOff>>
    BY <1>9 DEF DialFails, GiveUpChain
  <2>2. /\ plan' \in [Request -> Seq(Spelling \cup Service)] /\ pc' \in [Request -> States]
        /\ pc'[r] \in {"plan", "done"} /\ (pc'[r] = "plan" => plan'[r] # << >>)
        /\ \A s \in Request : s # r => pc'[s] = pc[s] /\ plan'[s] = plan[s]
    BY <2>1, AfterCall
  <2>3. \A s \in Request : pc'[s] = "dial" <=> lock' = s
    BY <1>1, <1>2, <2>1, <2>2
  <2> QED BY <1>1, <2>1, <2>2, <2>3, TypesAfter
<1>10. CASE RpcReturns(r)
  <2>1. /\ pc[r] = "rpc" /\ (Continue(r) \/ Answer(r))
        /\ conn' = [conn EXCEPT ![r] = None]
        /\ cutOff' \in {cutOff, cutOff \cup {r}}
        /\ UNCHANGED <<main, gaveUp, service, lock, clients, open>>
    BY <1>10 DEF RpcReturns, GiveUpChain, chainVars
  <2>2. /\ plan' \in [Request -> Seq(Spelling \cup Service)] /\ pc' \in [Request -> States]
        /\ pc'[r] \in {"plan", "done"} /\ (pc'[r] = "plan" => plan'[r] # << >>)
        /\ \A s \in Request : s # r => pc'[s] = pc[s] /\ plan'[s] = plan[s]
    BY <2>1, AfterCall
  <2>3. \A s \in Request : pc'[s] = "dial" <=> lock' = s
    BY <1>1, <2>1, <2>2
  <2>4. cutOff' \subseteq Request \cup Task /\ conn' \in [Request -> Connection \cup {None}]
    BY <1>1, <2>1
  <2> QED BY <1>1, <2>1, <2>2, <2>3, <2>4, TypesAfter
<1> QED BY <1>5, <1>6, <1>7, <1>8, <1>9, <1>10 DEF GetClient, Calls

LEMMA TypeInvNext == TypeInv /\ [Next]_vars => TypeInv'
<1> SUFFICES ASSUME TypeInv, [Next]_vars PROVE TypeInv'
  OBVIOUS
<1>1. CASE \E r \in Request : (\E q \in Traffic : Arrive(r, q)) \/ GetClient(r) \/ Calls(r) \/ RpcReturns(r)
  BY <1>1, TypeInvRequest
<1>2. ASSUME NEW t \in Task, AcceptTask(t) \/ DropTask(t) \/ StartTask(t) \/ Handle(t)
      PROVE  TypeInv'
  <2>1. /\ UNCHANGED <<gaveUp, pc, plan, conn, lock, clients, open, service>>
        /\ main' \in {main, "crashed"} /\ cutOff' \in {cutOff, cutOff \cup {t}}
    BY <1>2 DEF AcceptTask, DropTask, StartTask, Handle, HandlerReturns, HandlerPanics,
                server, requestVars, chainVars
  <2>2. PlanInv'
    BY <2>1 DEF TypeInv, PlanInv
  <2>3. TypeOK'
    BY <2>1 DEF TypeInv, TypeOK
  <2> QED BY <2>2, <2>3 DEF TypeInv
<1>3. CASE Signal \/ Drained \/ CancelPool \/ ClosePool \/ Exit
  <2>1. /\ UNCHANGED <<pc, plan, conn, lock, clients, open, service, cutOff>>
        /\ main' \in {main, "drain", "pool", "qdrant", "stopped"} /\ gaveUp' \in BOOLEAN
    BY <1>3 DEF Signal, Drained, CancelPool, ClosePool, Exit, server, requestVars, chainVars,
                TypeInv, TypeOK
  <2>2. PlanInv'
    BY <2>1 DEF TypeInv, PlanInv
  <2>3. TypeOK'
    BY <2>1 DEF TypeInv, TypeOK
  <2> QED BY <2>2, <2>3 DEF TypeInv
<1>4. CASE CloseService
  <2>1. /\ UNCHANGED <<gaveUp, pc, plan, conn, lock, clients, open, cutOff>>
        /\ main' \in {"redis", "chains"}
        /\ service' = [service EXCEPT ![main] = IF service[main] = "open" THEN "closed" ELSE service[main]]
        /\ main \in Service
    BY <1>4 DEF CloseService, requestVars, chainVars
  <2>2. service' \in [Service -> {"missing", "open", "closed"}]
    BY <2>1 DEF TypeInv, TypeOK
  <2>3. PlanInv'
    BY <2>1 DEF TypeInv, PlanInv
  <2>4. TypeOK'
    BY <2>1, <2>2 DEF TypeInv, TypeOK
  <2> QED BY <2>3, <2>4 DEF TypeInv
<1>5. CASE CloseAll
  <2>1. /\ UNCHANGED <<gaveUp, pc, plan, conn, lock, service, cutOff>>
        /\ main' = "exit" /\ clients' = << >> /\ open' \subseteq open
    BY <1>5 DEF CloseAll, requestVars
  <2>2. DOMAIN clients' \subseteq Spelling /\ Range(clients') \subseteq Connection
    BY <2>1, NoClients
  <2>3. PlanInv'
    BY <2>1 DEF TypeInv, PlanInv
  <2>4. TypeOK'
    BY <2>1, <2>2 DEF TypeInv, TypeOK
  <2> QED BY <2>3, <2>4 DEF TypeInv
<1>6. CASE UNCHANGED vars
  <2>1. UNCHANGED <<main, gaveUp, pc, plan, conn, lock, clients, open, service, cutOff>>
    BY <1>6 DEF vars, requestVars, chainVars
  <2>2. PlanInv'
    BY <2>1 DEF TypeInv, PlanInv
  <2>3. TypeOK'
    BY <2>1 DEF TypeInv, TypeOK
  <2> QED BY <2>2, <2>3 DEF TypeInv
<1> QED BY <1>1, <1>2, <1>3, <1>4, <1>5, <1>6 DEF Next, Shutdown

\* The types; the lock is held by a goroutine exactly while it dials, so no path
\* out of GetClient leaves it locked and no two dial together (chain_client.go).
THEOREM ServerTypeCorrect == Spec => []TypeOK
<1>1. TypeInv => TypeOK
  BY DEF TypeInv
<1> QED BY <1>1, TypeInvInit, TypeInvNext, PTL DEF Spec

-----------------------------------------------------------------------------
(* Clients and shutdown *)

LEMMA ServerInvInit == Init => ServerInv
<1> SUFFICES ASSUME Init PROVE ServerInv
  OBVIOUS
<1>1. open = Range(clients) BY NoClients DEF Init
<1> QED BY <1>1 DEF Init, Pool!Init, ServerInv, Domains, DialInv, OpenClientsListed, PoolInv, CallInv,
             DrainInv, ShutdownInOrder, AfterPool, ClientsUp

USE DEF ServerInv, Domains, DialInv, OpenClientsListed, PoolInv, CallInv, DrainInv, ShutdownInOrder,
        AfterPool, ClientsUp, InFlight, Service

\* Requests: admission and the calls of their plans (routes.go, chain_client.go).
LEMMA RequestStep ==
  ASSUME ServerInv, NEW r \in Request,
         (\E q \in Traffic : Arrive(r, q)) \/ GetClient(r) \/ Calls(r) \/ RpcReturns(r)
  PROVE  ServerInv'
<1>1. ASSUME NEW q \in Traffic, Arrive(r, q) PROVE ServerInv'
  <2>1. Domains' BY <1>1 DEF Arrive, chainVars, poolVars
  <2>2. DialInv' BY <1>1 DEF Arrive, chainVars, poolVars
  <2>3. PoolInv' BY <1>1 DEF Arrive, chainVars, poolVars
  <2>4. CallInv' BY <1>1 DEF Arrive, chainVars, poolVars
  <2>5. DrainInv' BY <1>1 DEF Arrive, chainVars, poolVars
  <2>6. ShutdownInOrder' BY <1>1 DEF Arrive, chainVars, poolVars
  <2> QED BY <2>1, <2>2, <2>3, <2>4, <2>5, <2>6 DEF ServerInv
<1>2. CASE CallService(r)
  BY <1>2 DEF CallService, At, Continue, Answer, Running, chainVars, poolVars
<1>3. CASE ReadClients(r)
  <2>1. Domains' BY <1>3 DEF ReadClients, At, Use, Running, chainVars, poolVars, Range
  <2>2. DialInv' BY <1>3 DEF ReadClients, At, Use, Running, chainVars, poolVars, Range
  <2>3. PoolInv' BY <1>3 DEF ReadClients, At, Use, Running, chainVars, poolVars, Range
  <2>4. CallInv' BY <1>3 DEF ReadClients, At, Use, Running, chainVars, poolVars, Range
  <2>5. DrainInv' BY <1>3 DEF ReadClients, At, Use, Running, chainVars, poolVars, Range
  <2>6. ShutdownInOrder' BY <1>3 DEF ReadClients, At, Use, Running, chainVars, poolVars, Range
  <2> QED BY <2>1, <2>2, <2>3, <2>4, <2>5, <2>6 DEF ServerInv
<1>4. CASE LockClients(r)
  <2>1. Domains' BY <1>4 DEF LockClients, Use, Running, poolVars, Range
  <2>2. DialInv' BY <1>4, ServerAssumption DEF LockClients, Use, Running, poolVars, Range
  <2>3. PoolInv' BY <1>4 DEF LockClients, Use, Running, poolVars, Range
  <2>4. CallInv' BY <1>4 DEF LockClients, Use, Running, poolVars, Range
  <2>5. DrainInv' BY <1>4 DEF LockClients, Use, Running, poolVars, Range
  <2>6. ShutdownInOrder' BY <1>4 DEF LockClients, Use, Running, poolVars, Range
  <2> QED BY <2>1, <2>2, <2>3, <2>4, <2>5, <2>6 DEF ServerInv
<1>5. CASE DialSucceeds(r)
  <2>1. Domains' BY <1>5, OneMoreClient DEF DialSucceeds, Use, Running, poolVars
  <2>2. DialInv'
    <3>1. Head(plan[r]) \notin DOMAIN clients /\ lock = r
      BY <1>5 DEF DialSucceeds
    <3>2. Range(clients') = Range(clients) \cup {<<r, Head(plan[r])>>}
      <4> DEFINE ch == Head(plan[r])
                 c == <<r, ch>>
      <4>1. clients' = [y \in DOMAIN clients \cup {ch} |-> IF y = ch THEN c ELSE clients[y]]
        BY <1>5 DEF DialSucceeds
      <4> HIDE DEF ch, c
      <4>2. Range(clients') = Range(clients) \cup {c}
        BY <3>1, <4>1, OneMoreClient DEF ch
      <4> QED BY <4>2 DEF c, ch
    <3>3. \A s \in Request : pc'[s] # "dial"
      BY <1>5, <3>1 DEF DialSucceeds, Use
    <3> QED BY <1>5, <3>2, <3>3 DEF DialSucceeds
  <2>3. PoolInv' BY <1>5, OneMoreClient DEF DialSucceeds, Use, Running, poolVars
  <2>4. CallInv' BY <1>5, OneMoreClient DEF DialSucceeds, Use, Running, poolVars
  <2>5. DrainInv' BY <1>5, OneMoreClient DEF DialSucceeds, Use, Running, poolVars
  <2>6. ShutdownInOrder' BY <1>5, OneMoreClient DEF DialSucceeds, Use, Running, poolVars
  <2> QED BY <2>1, <2>2, <2>3, <2>4, <2>5, <2>6 DEF ServerInv
<1>6. CASE DialFails(r)
  <2>1. Domains' BY <1>6 DEF DialFails, GiveUpChain, Continue, Answer, Running, poolVars
  <2>2. DialInv' BY <1>6 DEF DialFails, GiveUpChain, Continue, Answer, Running, poolVars
  <2>3. PoolInv' BY <1>6 DEF DialFails, GiveUpChain, Continue, Answer, Running, poolVars
  <2>4. CallInv' BY <1>6 DEF DialFails, GiveUpChain, Continue, Answer, Running, poolVars
  <2>5. DrainInv' BY <1>6 DEF DialFails, GiveUpChain, Continue, Answer, Running, poolVars
  <2>6. ShutdownInOrder' BY <1>6 DEF DialFails, GiveUpChain, Continue, Answer, Running, poolVars
  <2> QED BY <2>1, <2>2, <2>3, <2>4, <2>5, <2>6 DEF ServerInv
<1>7. CASE RpcReturns(r)
  BY <1>7 DEF RpcReturns, GiveUpChain, Continue, Answer, Running, chainVars, poolVars
<1> QED BY <1>1, <1>2, <1>3, <1>4, <1>5, <1>6, <1>7 DEF GetClient, Calls

\* Tasks: the pool and its handlers (pool.go, tasks.go).
LEMMA TaskStep ==
  ASSUME ServerInv, NEW t \in Task, AcceptTask(t) \/ DropTask(t) \/ StartTask(t) \/ Handle(t)
  PROVE  ServerInv'
<1> USE DEF server, requestVars, chainVars, Running, Pool!Move
<1>1. CASE AcceptTask(t) \/ DropTask(t) \/ StartTask(t)
  <2>1. Domains' BY <1>1 DEF AcceptTask, DropTask, StartTask, Pool!Accept, Pool!Drop, Pool!Begin
  <2>2. DialInv' BY <1>1 DEF AcceptTask, DropTask, StartTask, Pool!Accept, Pool!Drop, Pool!Begin
  <2>3. PoolInv' BY <1>1 DEF AcceptTask, DropTask, StartTask, Pool!Accept, Pool!Drop, Pool!Begin
  <2>4. CallInv' BY <1>1 DEF AcceptTask, DropTask, StartTask, Pool!Accept, Pool!Drop, Pool!Begin
  <2>5. DrainInv' BY <1>1 DEF AcceptTask, DropTask, StartTask, Pool!Accept, Pool!Drop, Pool!Begin
  <2>6. ShutdownInOrder' BY <1>1 DEF AcceptTask, DropTask, StartTask, Pool!Accept, Pool!Drop, Pool!Begin
  <2> QED BY <2>1, <2>2, <2>3, <2>4, <2>5, <2>6 DEF ServerInv
<1>2. CASE HandlerReturns(t)
  <2>1. Domains' BY <1>2, ServerAssumption DEF HandlerReturns, Pool!Succeed, Pool!Fail
  <2>2. DialInv' BY <1>2, ServerAssumption DEF HandlerReturns, Pool!Succeed, Pool!Fail
  <2>3. PoolInv' BY <1>2, ServerAssumption DEF HandlerReturns, Pool!Succeed, Pool!Fail
  <2>4. CallInv' BY <1>2, ServerAssumption DEF HandlerReturns, Pool!Succeed, Pool!Fail
  <2>5. DrainInv' BY <1>2, ServerAssumption DEF HandlerReturns, Pool!Succeed, Pool!Fail
  <2>6. ShutdownInOrder' BY <1>2, ServerAssumption DEF HandlerReturns, Pool!Succeed, Pool!Fail
  <2> QED BY <2>1, <2>2, <2>3, <2>4, <2>5, <2>6 DEF ServerInv
<1>3. CASE HandlerPanics(t)
  BY <1>3 DEF HandlerPanics, poolVars
<1> QED BY <1>1, <1>2, <1>3 DEF Handle

\* main: the signal and the five steps of the shutdown (main.go).
LEMMA MainStep ==
  ASSUME ServerInv, Signal \/ Shutdown
  PROVE  ServerInv'
<1> USE DEF server, requestVars, chainVars, poolVars
<1>1. CASE Signal BY <1>1 DEF Signal
<1>2. CASE Drained
  <2>1. gaveUp' \in BOOLEAN /\ (~gaveUp' => InFlight' = {})
    BY <1>2, Zenon DEF Drained
  <2>2. cutOff = {}
    BY <1>2 DEF Drained
  <2> QED BY <1>2, <2>1, <2>2 DEF Drained
<1>3. CASE CancelPool BY <1>3 DEF CancelPool, Pool!Cancel
<1>4. CASE ClosePool BY <1>4 DEF ClosePool, Pool!Close
<1>5. CASE CloseService BY <1>5 DEF CloseService
<1>6. CASE CloseAll BY <1>6, NoClients DEF CloseAll
<1>7. CASE Exit BY <1>7 DEF Exit
<1> QED BY <1>1, <1>2, <1>3, <1>4, <1>5, <1>6, <1>7 DEF Shutdown

LEMMA ServerInvNext == ServerInv /\ [Next]_vars => ServerInv'
<1> SUFFICES ASSUME ServerInv, [Next]_vars PROVE ServerInv'
  OBVIOUS
<1>1. CASE Next BY <1>1, RequestStep, TaskStep, MainStep DEF Next
<1>2. CASE UNCHANGED vars
  BY <1>2 DEF vars, requestVars, chainVars, poolVars
<1> QED BY <1>1, <1>2

-----------------------------------------------------------------------------
LEMMA ServerInvariant == Spec => []ServerInv
BY ServerInvInit, ServerInvNext, PTL DEF Spec

\* Every connected client is in the map that CloseAll walks, for any number of
\* requests that miss it together (ChainManager.GetClient).
THEOREM ClientsListed == Spec => []OpenClientsListed
<1>1. ServerInv => OpenClientsListed OBVIOUS
<1> QED BY <1>1, ServerInvariant, PTL

\* main closes a client under no task and only under requests it gave up.
THEOREM ShutdownOrdered == Spec => []ShutdownInOrder
<1>1. ServerInv => ShutdownInOrder OBVIOUS
<1> QED BY <1>1, ServerInvariant, PTL
=============================================================================
