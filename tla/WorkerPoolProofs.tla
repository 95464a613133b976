-------------------------- MODULE WorkerPoolProofs --------------------------
(***************************************************************************)
(* Proofs about WorkerPool for any tasks, workers, channel sizes and       *)
(* retries.                                                                *)
(*                                                                         *)
(* The heart of the invariant is OnePlace: every task has one kind of      *)
(* place that holds it, and none of the others does.  A step moves at most *)
(* one task.                                                               *)
(***************************************************************************)
EXTENDS WorkerPool, FiniteSetTheorems, TLAPS

Kind == {"none", "tasks", "retry", "worker", "timer", "sender", "dropped", "finished"}

InChannel(s, t) == \E i \in DOMAIN s : s[i] = t
Held(t) == \E w \in Worker : holding[w] = t

\* k is the only kind of place that holds t.
PlaceOf(k, t) ==
  /\ k = "none" <=> ~Accepted(t)
  /\ k = "tasks" <=> InChannel(tasks, t)
  /\ k = "retry" <=> InChannel(retry, t)
  /\ k = "worker" <=> Held(t)
  /\ k = "timer" <=> t \in timers
  /\ k = "sender" <=> t \in senders
  /\ k = "dropped" <=> t \in dropped
  /\ k = "finished" <=> Finished(t)

Distinct(s) == \A i, j \in DOMAIN s : s[i] = s[j] => i = j

\* Every task is held in one kind of place, and there once.
OnePlace ==
  /\ \A t \in Task : \E k \in Kind : PlaceOf(k, t)
  /\ Distinct(tasks) /\ Distinct(retry)
  /\ \A v, w \in Worker : holding[v] = holding[w] /\ holding[v] # None => v = w

\* The types of TypeOK, but for the counters.
Types ==
  /\ submission \in [Task -> {"new", "sent", "accepted", "rejected"}]
  /\ tasks \in Seq(Task) /\ Len(tasks) <= QueueSize
  /\ retry \in Seq(Task) /\ Len(retry) <= QueueSize
  /\ pc \in [Worker -> {"select", "process", "handler", "leave", "stopped"}]
  /\ holding \in [Worker -> Task \cup {None}]
  /\ status \in [Task -> {"TaskPending", "TaskRunning", "TaskCompleted", "TaskFailed", "TaskRetry"}]
  /\ retries \in [Task -> Nat] /\ runs \in [Task -> Nat]
  /\ timers \subseteq Task /\ senders \subseteq Task /\ dropped \subseteq Task
  /\ pool \in {"open", "cancelled", "closed"}

\* A worker has a task while it processes it; the task is running while its
\* handler is, and only then; no worker is left when Shutdown has returned.
WorkerInv ==
  /\ \A w \in Worker : holding[w] # None <=> pc[w] \in {"process", "handler"}
  /\ \A t \in Task : status[t] = "TaskRunning" <=> \E w \in Worker : pc[w] = "handler" /\ holding[w] = t
  /\ pool = "closed" => \A w \in Worker : pc[w] = "stopped"
  /\ dropped # {} => ContextDone

\* A handler call is counted in Retries when it has failed.
CallsInv ==
  \A t \in Task :
    runs[t] = retries[t] + IF status[t] \in {"TaskRunning", "TaskCompleted"} THEN 1 ELSE 0

PoolInv == Types /\ OnePlace /\ WorkerInv /\ CallsInv /\ CountersExact

-----------------------------------------------------------------------------
(* Facts about channels and sets of tasks *)

\* A channel gets a task that is not in it.
LEMMA Push ==
  ASSUME NEW s \in Seq(Task), NEW t \in Task, ~InChannel(s, t), Distinct(s)
  PROVE  /\ Append(s, t) \in Seq(Task) /\ Len(Append(s, t)) = Len(s) + 1
         /\ Distinct(Append(s, t))
         /\ \A u : InChannel(Append(s, t), u) <=> InChannel(s, u) \/ u = t
<1> DEFINE a == Append(s, t)
<1>1. a \in Seq(Task) /\ Len(a) = Len(s) + 1 /\ Len(s) \in Nat
  OBVIOUS
<1>2. DOMAIN s = 1..Len(s) /\ DOMAIN a = 1..(Len(s) + 1)
  OBVIOUS
<1>3. a[Len(s) + 1] = t /\ \A i \in 1..Len(s) : a[i] = s[i]
  OBVIOUS
<1>4. \A i \in DOMAIN a : i \in 1..Len(s) \/ i = Len(s) + 1
  BY <1>1, <1>2
<1> HIDE DEF a
<1>5. Distinct(a)
  BY <1>1, <1>2, <1>3, <1>4 DEF Distinct, InChannel
<1>6. ASSUME NEW u PROVE InChannel(a, u) <=> InChannel(s, u) \/ u = t
  BY <1>1, <1>2, <1>3, <1>4 DEF InChannel
<1> QED BY <1>1, <1>5, <1>6 DEF a

\* A worker takes the first task of a channel.
LEMMA Pop ==
  ASSUME NEW s \in Seq(Task), s # << >>, Distinct(s)
  PROVE  /\ Head(s) \in Task /\ InChannel(s, Head(s))
         /\ Tail(s) \in Seq(Task) /\ Len(Tail(s)) <= Len(s)
         /\ Distinct(Tail(s))
         /\ \A u : InChannel(Tail(s), u) <=> InChannel(s, u) /\ u # Head(s)
<1> DEFINE r == Tail(s)
<1>1. Len(s) \in Nat /\ Len(s) >= 1 /\ r \in Seq(Task) /\ Len(r) = Len(s) - 1
  OBVIOUS
<1>2. DOMAIN s = 1..Len(s) /\ DOMAIN r = 1..(Len(s) - 1)
  BY <1>1
<1>3. Head(s) = s[1] /\ s[1] \in Task
  BY <1>1
<1>4. \A i \in 1..(Len(s) - 1) : r[i] = s[i + 1]
  BY <1>1
<1> HIDE DEF r
<1>5. Distinct(r)
  <2>1. \A i \in DOMAIN r : i + 1 \in DOMAIN s /\ r[i] = s[i + 1] /\ i \in Nat
    BY <1>1, <1>2, <1>4
  <2> QED BY <2>1 DEF Distinct
<1>6. ASSUME NEW u PROVE InChannel(r, u) <=> InChannel(s, u) /\ u # Head(s)
  <2>1. ASSUME InChannel(r, u) PROVE InChannel(s, u) /\ u # Head(s)
    <3>1. PICK i \in 1..(Len(s) - 1) : s[i + 1] = u
      BY <1>2, <1>4, <2>1 DEF InChannel
    <3> QED BY <1>1, <1>2, <1>3, <3>1 DEF InChannel, Distinct
  <2>2. ASSUME InChannel(s, u), u # Head(s) PROVE InChannel(r, u)
    <3>1. PICK i \in 2..Len(s) : s[i] = u
      BY <1>1, <1>2, <1>3, <2>2 DEF InChannel
    <3>2. i - 1 \in 1..(Len(s) - 1) /\ r[i - 1] = s[i]
      BY <1>1, <1>4
    <3> QED BY <1>2, <3>1, <3>2 DEF InChannel
  <2> QED BY <2>1, <2>2
<1>7. InChannel(s, Head(s))
  BY <1>1, <1>2, <1>3 DEF InChannel
<1> QED BY <1>1, <1>3, <1>5, <1>6, <1>7 DEF r

\* A set of tasks, or of workers, gets or loses one member.
LEMMA OneMore ==
  ASSUME NEW S, IsFiniteSet(S), NEW A \in SUBSET S, NEW x, x \notin A
  PROVE  Cardinality(A \cup {x}) = Cardinality(A) + 1
BY FS_Subset, FS_AddElement

LEMMA OneLess ==
  ASSUME NEW S, IsFiniteSet(S), NEW A \in SUBSET S, NEW x \in A
  PROVE  Cardinality(A \ {x}) = Cardinality(A) - 1
BY FS_Subset, FS_RemoveElement

\* A state without tasks on the way.
LEMMA PoolInvInit == Init => PoolInv
<1> SUFFICES ASSUME Init PROVE PoolInv
  OBVIOUS
<1>1. Types
  BY PoolAssumption DEF Init, Types, channels, counters
<1>2. OnePlace
  <2>1. ASSUME NEW t \in Task PROVE PlaceOf("none", t)
    BY PoolAssumption DEF Init, PlaceOf, Accepted, InChannel, Held, Finished
  <2> QED BY <2>1, PoolAssumption DEF Init, OnePlace, Distinct, Kind
<1>3. WorkerInv /\ CallsInv
  BY DEF Init, WorkerInv, CallsInv
<1>4. CountersExact
  <2>1. /\ {t \in Task : status[t] = "TaskCompleted"} = {}
        /\ {t \in Task : status[t] = "TaskFailed"} = {}
        /\ {w \in Worker : pc[w] \in {"handler", "leave"}} = {}
        /\ {t \in Task : submission[t] = "accepted"} = {}
    BY DEF Init
  <2> QED BY <2>1, FS_EmptySet DEF Init, CountersExact
<1> QED BY <1>1, <1>2, <1>3, <1>4 DEF PoolInv

-----------------------------------------------------------------------------
(* Submit *)

LEMMA SubmitSendStep ==
  ASSUME PoolInv, NEW t \in Task, SubmitSend(t)
  PROVE  PoolInv'
<1> USE DEF PoolInv
<1>1. /\ ~Accepted(t) /\ t \notin dropped /\ ~Finished(t) /\ ~InChannel(tasks, t)
      /\ \A u \in Task : u # t => (Accepted(u)' <=> Accepted(u))
      /\ Accepted(t)'
  BY DEF SubmitSend, CanSubmit, Accepted, OnePlace, PlaceOf, Kind, Types
<1>2. /\ Distinct(tasks') /\ tasks' \in Seq(Task) /\ Len(tasks') = Len(tasks) + 1
      /\ \A u : InChannel(tasks', u) <=> InChannel(tasks, u) \/ u = t
  BY <1>1, Push DEF SubmitSend, OnePlace, Types
<1>3. Types'
  BY <1>2, PoolAssumption DEF SubmitSend, Types, counters
<1>4. OnePlace'
  <2>1. ASSUME NEW u \in Task PROVE \E k \in Kind : PlaceOf(k, u)'
    <3>1. PICK k \in Kind : PlaceOf(k, u)
      BY DEF OnePlace
    <3>2. CASE u = t
      <4>1. PlaceOf("tasks", u)'
        BY <1>1, <1>2, <3>1, <3>2 DEF PlaceOf, SubmitSend, Held, Finished
      <4> QED BY <4>1 DEF Kind
    <3>3. CASE u # t
      BY <1>1, <1>2, <3>1, <3>3 DEF PlaceOf, SubmitSend, Held, Finished
    <3> QED BY <3>2, <3>3
  <2> QED BY <1>2, <2>1 DEF OnePlace, SubmitSend
<1>5. WorkerInv' /\ CallsInv'
  BY DEF WorkerInv, CallsInv, SubmitSend, ContextDone
<1>6. CountersExact'
  <2>1. \A u \in Task : submission'[u] = "accepted" <=> submission[u] = "accepted"
    BY DEF SubmitSend, CanSubmit, Types
  <2> QED BY <2>1 DEF CountersExact, SubmitSend, counters
<1> QED BY <1>3, <1>4, <1>5, <1>6

LEMMA SubmitRejectStep ==
  ASSUME PoolInv, NEW t \in Task, SubmitReject(t)
  PROVE  PoolInv'
<1> USE DEF PoolInv
<1>1. Types'
  BY DEF SubmitReject, Types, counters, channels
<1>2. \A u \in Task : /\ Accepted(u)' <=> Accepted(u)
                      /\ submission'[u] = "accepted" <=> submission[u] = "accepted"
  BY DEF SubmitReject, CanSubmit, Types, Accepted
<1>3. OnePlace'
  BY <1>2 DEF OnePlace, PlaceOf, SubmitReject, Held, Finished, channels
<1>4. WorkerInv' /\ CallsInv'
  BY DEF WorkerInv, CallsInv, SubmitReject, ContextDone
<1>5. CountersExact'
  BY <1>2 DEF CountersExact, SubmitReject, counters
<1> QED BY <1>1, <1>3, <1>4, <1>5

LEMMA SubmitCountStep ==
  ASSUME PoolInv, NEW t \in Task, SubmitCount(t)
  PROVE  PoolInv'
<1> USE DEF PoolInv
<1>1. Types'
  BY DEF SubmitCount, Types, channels
<1>2. \A u \in Task : Accepted(u)' <=> Accepted(u)
  BY DEF SubmitCount, Types, Accepted
<1>3. OnePlace'
  BY <1>2 DEF OnePlace, PlaceOf, SubmitCount, Held, Finished, channels
<1>4. WorkerInv' /\ CallsInv'
  BY DEF WorkerInv, CallsInv, SubmitCount, ContextDone
<1>5. CountersExact'
  <2> DEFINE A == {u \in Task : submission[u] = "accepted"}
  <2>1. t \notin A /\ {u \in Task : submission'[u] = "accepted"} = A \cup {t}
    BY DEF SubmitCount, Types
  <2>2. Cardinality(A \cup {t}) = Cardinality(A) + 1
    BY <2>1, OneMore, PoolAssumption
  <2>3. queued' = Cardinality({u \in Task : submission'[u] = "accepted"})
    BY <2>1, <2>2 DEF CountersExact, SubmitCount
  <2> QED BY <2>3 DEF CountersExact, SubmitCount
<1> QED BY <1>1, <1>3, <1>4, <1>5

-----------------------------------------------------------------------------
(* Workers *)

\* Taking a task from one of the channels; all else follows from what Pop says.
LEMMA TakeStep ==
  ASSUME PoolInv, NEW w \in Worker, NEW t \in Task, pc[w] = "select", Take(w, t),
         tasks' \in Seq(Task), Len(tasks') <= QueueSize, Distinct(tasks'),
         retry' \in Seq(Task), Len(retry') <= QueueSize, Distinct(retry'),
         InChannel(tasks, t) \/ InChannel(retry, t),
         \A u \in Task : InChannel(tasks', u) <=> InChannel(tasks, u) /\ u # t,
         \A u \in Task : InChannel(retry', u) <=> InChannel(retry, u) /\ u # t
  PROVE  PoolInv'
<1> USE DEF PoolInv
<1>1. Types'
  BY DEF Take, Types, counters
<1>2. ~Held(t) /\ holding[w] = None /\ t # None /\ Accepted(t) /\ ~Finished(t)
  <2>1. PICK k \in Kind : PlaceOf(k, t)
    BY DEF OnePlace
  <2>2. k \in {"tasks", "retry"}
    BY <2>1 DEF PlaceOf
  <2>3. ~Held(t) /\ Accepted(t) /\ ~Finished(t)
    BY <2>1, <2>2 DEF PlaceOf
  <2> QED BY <2>3, PoolAssumption DEF WorkerInv
<1>3. holding' = [holding EXCEPT ![w] = t] /\ holding \in [Worker -> Task \cup {None}]
  BY DEF Take, Types
<1>4. \A u \in Task : Held(u)' <=> Held(u) \/ u = t
  BY <1>2, <1>3, PoolAssumption DEF Held
<1>5. OnePlace'
  <2>1. ASSUME NEW u \in Task PROVE \E k \in Kind : PlaceOf(k, u)'
    <3>1. PICK k \in Kind : PlaceOf(k, u)
      BY DEF OnePlace
    <3>2. CASE u = t
      <4>1. PlaceOf("worker", u)'
        BY <1>2, <1>4, <3>1, <3>2 DEF PlaceOf, Take, Finished, Accepted
      <4> QED BY <4>1 DEF Kind
    <3>3. CASE u # t
      BY <1>4, <3>1, <3>3 DEF PlaceOf, Take, Finished, Accepted
    <3> QED BY <3>2, <3>3
  <2>2. \A v, x \in Worker : holding'[v] = holding'[x] /\ holding'[v] # None => v = x
    BY <1>2, <1>3 DEF OnePlace, Held
  <2> QED BY <2>1, <2>2 DEF OnePlace
<1>6. WorkerInv'
  <2>1. pc' = [pc EXCEPT ![w] = "process"] /\ pool # "closed"
    BY DEF Take, WorkerInv
  <2>2. \A v \in Worker : holding'[v] # None <=> pc'[v] \in {"process", "handler"}
    BY <1>2, <1>3, <2>1 DEF WorkerInv, Types
  <2>3. \A u \in Task : (\E v \in Worker : pc'[v] = "handler" /\ holding'[v] = u)
                          <=> (\E v \in Worker : pc[v] = "handler" /\ holding[v] = u)
    BY <1>3, <2>1 DEF Types
  <2> QED BY <2>1, <2>2, <2>3 DEF WorkerInv, Take, ContextDone
<1>7. CallsInv'
  BY DEF CallsInv, Take
<1>8. CountersExact'
  <2>1. {v \in Worker : pc'[v] \in {"handler", "leave"}} = {v \in Worker : pc[v] \in {"handler", "leave"}}
    BY DEF Take, Types
  <2> QED BY <2>1 DEF CountersExact, Take, counters
<1> QED BY <1>1, <1>5, <1>6, <1>7, <1>8

LEMMA TakeTaskStep ==
  ASSUME PoolInv, NEW w \in Worker, TakeTask(w)
  PROVE  PoolInv'
<1> DEFINE t == Head(tasks)
<1>1. /\ t \in Task /\ InChannel(tasks, t) /\ tasks' = Tail(tasks)
      /\ tasks' \in Seq(Task) /\ Len(tasks') <= Len(tasks) /\ Distinct(tasks')
      /\ \A u \in Task : InChannel(tasks', u) <=> InChannel(tasks, u) /\ u # t
  BY Pop DEF PoolInv, OnePlace, Types, TakeTask
<1>2. Len(tasks') <= QueueSize
  BY <1>1, PoolAssumption DEF PoolInv, Types
<1>3. retry' = retry /\ ~InChannel(retry, t)
  BY <1>1 DEF PoolInv, OnePlace, PlaceOf, TakeTask
<1>4. \A u \in Task : InChannel(retry', u) <=> InChannel(retry, u) /\ u # t
  BY <1>3
<1>5. pc[w] = "select" /\ Take(w, t)
  BY DEF TakeTask
<1> HIDE DEF t
<1> QED BY <1>1, <1>2, <1>3, <1>4, <1>5, TakeStep DEF PoolInv, Types, OnePlace

LEMMA TakeRetryStep ==
  ASSUME PoolInv, NEW w \in Worker, TakeRetry(w)
  PROVE  PoolInv'
<1> DEFINE t == Head(retry)
<1>1. /\ t \in Task /\ InChannel(retry, t) /\ retry' = Tail(retry)
      /\ retry' \in Seq(Task) /\ Len(retry') <= Len(retry) /\ Distinct(retry')
      /\ \A u \in Task : InChannel(retry', u) <=> InChannel(retry, u) /\ u # t
  BY Pop DEF PoolInv, OnePlace, Types, TakeRetry
<1>2. Len(retry') <= QueueSize
  BY <1>1, PoolAssumption DEF PoolInv, Types
<1>3. tasks' = tasks /\ ~InChannel(tasks, t)
  BY <1>1 DEF PoolInv, OnePlace, PlaceOf, TakeRetry
<1>4. \A u \in Task : InChannel(tasks', u) <=> InChannel(tasks, u) /\ u # t
  BY <1>3
<1>5. pc[w] = "select" /\ Take(w, t)
  BY DEF TakeRetry
<1> HIDE DEF t
<1> QED BY <1>1, <1>2, <1>3, <1>4, <1>5, TakeStep DEF PoolInv, Types, OnePlace

LEMMA StopStep ==
  ASSUME PoolInv, NEW w \in Worker, Stop(w)
  PROVE  PoolInv'
<1> USE DEF PoolInv
<1>1. Types'
  BY DEF Stop, Types, counters, channels
<1>2. OnePlace' /\ CallsInv'
  BY DEF Stop, channels, OnePlace, PlaceOf, Held, Finished, Accepted, CallsInv
<1>3. WorkerInv'
  BY DEF Stop, WorkerInv, Types, ContextDone
<1>4. CountersExact'
  <2>1. {v \in Worker : pc'[v] \in {"handler", "leave"}} = {v \in Worker : pc[v] \in {"handler", "leave"}}
    BY DEF Stop, Types
  <2> QED BY <2>1 DEF CountersExact, Stop, counters
<1> QED BY <1>1, <1>2, <1>3, <1>4

-----------------------------------------------------------------------------
(* processTask *)

\* A worker that has a task: where it is, and that it is the only one with it.
LEMMA Holder ==
  ASSUME PoolInv, NEW w \in Worker, pc[w] \in {"process", "handler"}
  PROVE  /\ holding[w] \in Task /\ holding[w] # None
         /\ PlaceOf("worker", holding[w])
         /\ \A v \in Worker : holding[v] = holding[w] <=> v = w
<1>1. holding[w] \in Task /\ holding[w] # None
  BY DEF PoolInv, WorkerInv, Types
<1>2. Held(holding[w])
  BY DEF Held
<1>3. PlaceOf("worker", holding[w])
  BY <1>1, <1>2 DEF PoolInv, OnePlace, PlaceOf
<1> QED BY <1>1, <1>3 DEF PoolInv, OnePlace

\* When a worker lets go of its task, the other tasks stay with their workers.
LEMMA LetGo ==
  ASSUME PoolInv, NEW w \in Worker, pc[w] \in {"process", "handler"},
         holding' = [holding EXCEPT ![w] = None]
  PROVE  /\ \A u \in Task : Held(u)' <=> Held(u) /\ u # holding[w]
         /\ \A v, x \in Worker : holding'[v] = holding'[x] /\ holding'[v] # None => v = x
<1>1. holding \in [Worker -> Task \cup {None}]
  BY DEF PoolInv, Types
<1>2. \A v \in Worker : holding[v] = holding[w] <=> v = w
  BY Holder
<1>3. \A v \in Worker : holding'[v] = IF v = w THEN None ELSE holding[v]
  BY <1>1
<1>4. \A u \in Task : Held(u)' <=> Held(u) /\ u # holding[w]
  BY <1>2, <1>3, PoolAssumption DEF Held
<1>5. \A v, x \in Worker : holding'[v] = holding'[x] /\ holding'[v] # None => v = x
  BY <1>3 DEF PoolInv, OnePlace
<1> QED BY <1>4, <1>5

\* The counter of active workers, when one begins to process and when it leaves.
LEMMA Begins ==
  ASSUME PoolInv, NEW w \in Worker, pc[w] = "process", NEW to \in {"handler", "leave"},
         pc' = [pc EXCEPT ![w] = to], active' = active + 1
  PROVE  active' = Cardinality({v \in Worker : pc'[v] \in {"handler", "leave"}})
<1> DEFINE A == {v \in Worker : pc[v] \in {"handler", "leave"}}
<1>1. w \notin A /\ {v \in Worker : pc'[v] \in {"handler", "leave"}} = A \cup {w}
  BY DEF PoolInv, Types
<1>2. Cardinality(A \cup {w}) = Cardinality(A) + 1
  BY <1>1, OneMore, PoolAssumption
<1> QED BY <1>1, <1>2 DEF PoolInv, CountersExact

\* The counts of finished tasks when a task that is not finished gets a status.
LEMMA Finishes ==
  ASSUME PoolInv, NEW t \in Task, ~Finished(t),
         NEW s \in {"TaskRunning", "TaskCompleted", "TaskFailed", "TaskRetry"},
         status' = [status EXCEPT ![t] = s]
  PROVE  /\ Cardinality({u \in Task : status'[u] = "TaskCompleted"}) =
              completed + IF s = "TaskCompleted" THEN 1 ELSE 0
         /\ Cardinality({u \in Task : status'[u] = "TaskFailed"}) =
              failed + IF s = "TaskFailed" THEN 1 ELSE 0
<1> DEFINE A == {u \in Task : status[u] = "TaskCompleted"}
           B == {u \in Task : status[u] = "TaskFailed"}
           A1 == {u \in Task : status'[u] = "TaskCompleted"}
           B1 == {u \in Task : status'[u] = "TaskFailed"}
<1>1. t \notin A /\ t \notin B
  BY DEF Finished
<1>2. completed = Cardinality(A) /\ failed = Cardinality(B)
  BY DEF PoolInv, CountersExact
<1>3. \A u \in Task : status'[u] = IF u = t THEN s ELSE status[u]
  BY DEF PoolInv, Types
<1>4. A1 = (IF s = "TaskCompleted" THEN A \cup {t} ELSE A)
  BY <1>1, <1>3
<1>5. B1 = (IF s = "TaskFailed" THEN B \cup {t} ELSE B)
  BY <1>1, <1>3
<1>6. Cardinality(A \cup {t}) = Cardinality(A) + 1 /\ Cardinality(B \cup {t}) = Cardinality(B) + 1
  BY <1>1, OneMore, PoolAssumption
<1>7. Cardinality(A) \in Nat /\ Cardinality(B) \in Nat
  BY FS_Subset, FS_CardinalityType, PoolAssumption
<1>8. Cardinality(A1) = completed + (IF s = "TaskCompleted" THEN 1 ELSE 0)
  <2> HIDE DEF A, A1
  <2> QED BY <1>2, <1>4, <1>6, <1>7
<1>9. Cardinality(B1) = failed + (IF s = "TaskFailed" THEN 1 ELSE 0)
  <2> HIDE DEF B, B1
  <2> QED BY <1>2, <1>5, <1>6, <1>7
<1> QED BY <1>8, <1>9

\* What a task's places become when its worker lets go of it.
LEMMA PlacesAfterWorker ==
  ASSUME PoolInv, NEW w \in Worker, pc[w] \in {"process", "handler"},
         NEW t \in Task, holding[w] = t,
         holding' = [holding EXCEPT ![w] = None],
         UNCHANGED <<submission, tasks, retry, senders, dropped>>,
         \A u \in Task : u # t => (u \in timers' <=> u \in timers) /\ status'[u] = status[u],
         t \in timers' <=> ~Finished(t)'
  PROVE  OnePlace'
<1>1. PlaceOf("worker", t)
  BY Holder
<1>2. /\ \A u \in Task : Held(u)' <=> Held(u) /\ u # t
      /\ \A v, x \in Worker : holding'[v] = holding'[x] /\ holding'[v] # None => v = x
  BY LetGo
<1>3. ASSUME NEW u \in Task PROVE \E k \in Kind : PlaceOf(k, u)'
  <2>1. PICK k \in Kind : PlaceOf(k, u)
    BY DEF PoolInv, OnePlace
  <2>2. CASE u = t
    <3>1. /\ Accepted(u)' /\ ~InChannel(tasks', u) /\ ~InChannel(retry', u) /\ ~Held(u)'
          /\ u \notin senders' /\ u \notin dropped'
      BY <1>1, <1>2, <2>2 DEF PlaceOf, Accepted
    <3>2. CASE Finished(u)'
      <4>1. PlaceOf("finished", u)'
        BY <2>2, <3>1, <3>2 DEF PlaceOf
      <4> QED BY <4>1 DEF Kind
    <3>3. CASE ~Finished(u)'
      <4>1. PlaceOf("timer", u)'
        BY <2>2, <3>1, <3>3 DEF PlaceOf
      <4> QED BY <4>1 DEF Kind
    <3> QED BY <3>2, <3>3
  <2>3. CASE u # t
    <3>1. PlaceOf(k, u)'
      BY <1>2, <2>1, <2>3 DEF PlaceOf, Accepted, Finished
    <3> QED BY <3>1
  <2> QED BY <2>2, <2>3
<1> QED BY <1>2, <1>3 DEF PoolInv, OnePlace

\* A worker runs a task exactly while its status says so.
LEMMA RunningStatus ==
  ASSUME PoolInv, NEW w \in Worker, pc[w] \in {"process", "handler"}
  PROVE  pc[w] = "handler" <=> status[holding[w]] = "TaskRunning"
BY Holder DEF PoolInv, WorkerInv

LEMMA ProcessTaskStep ==
  ASSUME PoolInv, NEW w \in Worker, ProcessTask(w)
  PROVE  PoolInv'
<1> USE DEF PoolInv
<1> DEFINE t == holding[w]
<1>1. /\ pc[w] = "process" /\ t \in Task /\ t # None /\ PlaceOf("worker", t)
      /\ \A v \in Worker : holding[v] = t <=> v = w
  BY Holder DEF ProcessTask
<1>2. ~Finished(t) /\ status[t] # "TaskRunning" /\ pool # "closed"
  BY <1>1, RunningStatus DEF PlaceOf, WorkerInv
<1>3. active \in Nat
  BY FS_Subset, FS_CardinalityType, PoolAssumption DEF CountersExact
<1>4. /\ active' = active + 1
      /\ UNCHANGED <<submission, channels, retries, timers, senders, dropped, queued, completed, pool>>
  BY DEF ProcessTask
<1>5. PICK u \in Task : u = t
  BY <1>1
<1>6. CASE u \in Unhandled
  <2>1. /\ status' = [status EXCEPT ![u] = "TaskFailed"] /\ failed' = failed + 1
        /\ holding' = [holding EXCEPT ![w] = None]
        /\ pc' = [pc EXCEPT ![w] = "leave"] /\ runs' = runs
    BY <1>5, <1>6 DEF ProcessTask
  <2>2. Types'
    BY <1>4, <2>1 DEF Types, channels
  <2>3. OnePlace'
    <3>1. Finished(u)' /\ u \notin timers'
      BY <1>1, <1>4, <1>5, <2>1 DEF Finished, Types, PlaceOf
    <3>2. \A x \in Task : x # u => (x \in timers' <=> x \in timers) /\ status'[x] = status[x]
      BY <1>4, <2>1 DEF Types
    <3>3. UNCHANGED <<submission, tasks, retry, senders, dropped>>
      BY <1>4 DEF channels
    <3> QED BY <1>1, <1>5, <2>1, <3>1, <3>2, <3>3, PlacesAfterWorker
  <2>4. WorkerInv'
    BY <1>1, <1>2, <1>4, <1>5, <2>1 DEF WorkerInv, Types, ContextDone
  <2>5. CallsInv'
    BY <1>2, <1>4, <1>5, <2>1 DEF CallsInv, Types, Finished
  <2>6. CountersExact'
    <3>1. active' = Cardinality({v \in Worker : pc'[v] \in {"handler", "leave"}})
      BY <1>1, <1>4, <2>1, Begins
    <3>2. /\ Cardinality({x \in Task : status'[x] = "TaskCompleted"}) = completed + 0
          /\ Cardinality({x \in Task : status'[x] = "TaskFailed"}) = failed + 1
      BY <1>2, <1>5, <2>1, Finishes
    <3>3. completed \in Nat
      BY FS_Subset, FS_CardinalityType, PoolAssumption DEF CountersExact
    <3> QED BY <1>4, <2>1, <3>1, <3>2, <3>3 DEF CountersExact
  <2> QED BY <2>2, <2>3, <2>4, <2>5, <2>6
<1>7. CASE u \notin Unhandled
  <2>1. /\ status' = [status EXCEPT ![u] = "TaskRunning"] /\ failed' = failed
        /\ runs' = [runs EXCEPT ![u] = @ + 1]
        /\ holding' = holding /\ pc' = [pc EXCEPT ![w] = "handler"]
    BY <1>5, <1>7 DEF ProcessTask
  <2>2. Types'
    BY <1>4, <2>1 DEF Types, channels
  <2>3. OnePlace'
    <3>1. \A x \in Task : Finished(x)' <=> Finished(x)
      BY <1>2, <1>5, <2>1 DEF Finished, Types
    <3>2. UNCHANGED <<submission, tasks, retry, senders, dropped, timers, holding>>
      BY <1>4, <2>1 DEF channels
    <3> QED BY <3>1, <3>2 DEF OnePlace, PlaceOf, Accepted, Held
  <2>4. WorkerInv'
    <3>1. \A v \in Worker : holding'[v] # None <=> pc'[v] \in {"process", "handler"}
      BY <1>1, <2>1 DEF WorkerInv, Types
    <3>2. ASSUME NEW x \in Task
          PROVE  status'[x] = "TaskRunning" <=> \E v \in Worker : pc'[v] = "handler" /\ holding'[v] = x
      <4>1. CASE x = u
        BY <1>5, <2>1, <4>1 DEF Types
      <4>2. CASE x # u
        <5>1. status'[x] = status[x] /\ x # t
          BY <1>5, <2>1, <4>2 DEF Types
        <5>2. \A v \in Worker : holding[v] = x => pc'[v] = pc[v]
          BY <2>1, <5>1 DEF Types
        <5> QED BY <2>1, <5>1, <5>2 DEF WorkerInv
      <4> QED BY <4>1, <4>2
    <3> QED BY <1>2, <1>4, <3>1, <3>2 DEF WorkerInv, ContextDone
  <2>5. CallsInv'
    BY <1>2, <1>4, <1>5, <2>1 DEF CallsInv, Types, Finished
  <2>6. CountersExact'
    <3>1. active' = Cardinality({v \in Worker : pc'[v] \in {"handler", "leave"}})
      BY <1>1, <1>4, <2>1, Begins
    <3>2. /\ Cardinality({x \in Task : status'[x] = "TaskCompleted"}) = completed + 0
          /\ Cardinality({x \in Task : status'[x] = "TaskFailed"}) = failed + 0
      BY <1>2, <1>5, <2>1, Finishes
    <3>3. completed \in Nat /\ failed \in Nat
      BY FS_Subset, FS_CardinalityType, PoolAssumption DEF CountersExact
    <3> QED BY <1>4, <2>1, <3>1, <3>2, <3>3 DEF CountersExact
  <2> QED BY <2>2, <2>3, <2>4, <2>5, <2>6
<1> QED BY <1>6, <1>7

\* The end of a handler call: the worker leaves, the task has finished or waits
\* for its timer.
EndsAs(w, t, s) ==
  /\ status' = [status EXCEPT ![t] = s]
  /\ holding' = [holding EXCEPT ![w] = None]
  /\ pc' = [pc EXCEPT ![w] = "leave"]
  /\ timers' = IF s = "TaskRetry" THEN timers \cup {t} ELSE timers
  /\ completed' = completed + (IF s = "TaskCompleted" THEN 1 ELSE 0)
  /\ failed' = failed + (IF s = "TaskFailed" THEN 1 ELSE 0)
  /\ retries' = IF s = "TaskCompleted" THEN retries ELSE [retries EXCEPT ![t] = @ + 1]
  /\ UNCHANGED <<submission, tasks, retry, senders, dropped, active, queued, pool, runs>>

LEMMA HandlerEnds ==
  ASSUME PoolInv, NEW w \in Worker, pc[w] = "handler", NEW t \in Task, holding[w] = t,
         NEW s \in {"TaskCompleted", "TaskFailed", "TaskRetry"}, EndsAs(w, t, s)
  PROVE  PoolInv'
<1> USE DEF PoolInv, EndsAs
<1>1. PlaceOf("worker", t) /\ \A v \in Worker : holding[v] = t <=> v = w
  BY Holder
<1>2. ~Finished(t) /\ status[t] = "TaskRunning" /\ t \notin timers
  BY <1>1, RunningStatus DEF PlaceOf
<1>3. Types'
  BY DEF Types
<1>4. OnePlace'
  <2>1. t \in timers' <=> ~Finished(t)'
    BY <1>2 DEF Finished, Types
  <2>2. \A u \in Task : u # t => (u \in timers' <=> u \in timers) /\ status'[u] = status[u]
    BY DEF Types
  <2> QED BY <2>1, <2>2, PlacesAfterWorker
<1>5. WorkerInv'
  <2>1. \A v \in Worker : holding'[v] # None <=> pc'[v] \in {"process", "handler"}
    BY DEF WorkerInv, Types
  <2>2. ASSUME NEW x \in Task
        PROVE  status'[x] = "TaskRunning" <=> \E v \in Worker : pc'[v] = "handler" /\ holding'[v] = x
    <3>1. CASE x = t
      BY <1>1, <3>1, PoolAssumption DEF Types
    <3>2. CASE x # t
      <4>1. status'[x] = status[x]
        BY <3>2 DEF Types
      <4>2. \A v \in Worker : (pc'[v] = "handler" /\ holding'[v] = x) <=> (pc[v] = "handler" /\ holding[v] = x)
        BY <3>2, PoolAssumption DEF Types
      <4> QED BY <4>1, <4>2 DEF WorkerInv
    <3> QED BY <3>1, <3>2
  <2>3. pool' # "closed"
    BY DEF WorkerInv
  <2> QED BY <2>1, <2>2, <2>3 DEF WorkerInv, ContextDone
<1>6. CallsInv'
  BY <1>2 DEF CallsInv, Types
<1>7. CountersExact'
  <2>1. {v \in Worker : pc'[v] \in {"handler", "leave"}} = {v \in Worker : pc[v] \in {"handler", "leave"}}
    BY DEF Types
  <2>2. /\ Cardinality({u \in Task : status'[u] = "TaskCompleted"}) = completed'
        /\ Cardinality({u \in Task : status'[u] = "TaskFailed"}) = failed'
    BY <1>2, Finishes
  <2> QED BY <2>1, <2>2 DEF CountersExact
<1> QED BY <1>3, <1>4, <1>5, <1>6, <1>7

LEMMA HandlerSucceedsStep ==
  ASSUME PoolInv, NEW w \in Worker, HandlerSucceeds(w)
  PROVE  PoolInv'
<1>1. PICK t \in Task : t = holding[w] /\ pc[w] = "handler"
  BY Holder DEF HandlerSucceeds
<1>2. completed \in Nat /\ failed \in Nat
  BY FS_Subset, FS_CardinalityType, PoolAssumption DEF PoolInv, CountersExact
<1>3. EndsAs(w, t, "TaskCompleted")
  BY <1>1, <1>2 DEF EndsAs, HandlerSucceeds, channels
<1> QED BY <1>1, <1>3, HandlerEnds

LEMMA HandlerFailsStep ==
  ASSUME PoolInv, NEW w \in Worker, HandlerFails(w)
  PROVE  PoolInv'
<1>1. PICK t \in Task : t = holding[w] /\ pc[w] = "handler"
  BY Holder DEF HandlerFails
<1>2. completed \in Nat /\ failed \in Nat
  BY FS_Subset, FS_CardinalityType, PoolAssumption DEF PoolInv, CountersExact
<1>3. EndsAs(w, t, "TaskRetry") \/ EndsAs(w, t, "TaskFailed")
  BY <1>1, <1>2 DEF EndsAs, HandlerFails, channels
<1>4. PICK s \in {"TaskRetry", "TaskFailed"} : EndsAs(w, t, s)
  BY <1>3
<1> QED BY <1>1, <1>4, HandlerEnds

LEMMA LeaveStep ==
  ASSUME PoolInv, NEW w \in Worker, Leave(w)
  PROVE  PoolInv'
<1> USE DEF PoolInv
<1>1. Types' /\ CallsInv'
  BY DEF Leave, channels, Types, CallsInv
<1>2. OnePlace'
  BY DEF Leave, channels, OnePlace, PlaceOf, Held, Finished, Accepted
<1>3. WorkerInv'
  <2>1. \A v \in Worker : holding[v] # None <=> pc'[v] \in {"process", "handler"}
    BY DEF Leave, WorkerInv, Types
  <2>2. \A v \in Worker : pc'[v] = "handler" <=> pc[v] = "handler"
    BY DEF Leave, Types
  <2> QED BY <2>1, <2>2 DEF Leave, WorkerInv, ContextDone
<1>4. CountersExact'
  <2> DEFINE A == {v \in Worker : pc[v] \in {"handler", "leave"}}
  <2>1. w \in A /\ {v \in Worker : pc'[v] \in {"handler", "leave"}} = A \ {w}
    BY DEF Leave, Types
  <2>2. Cardinality(A \ {w}) = Cardinality(A) - 1
    BY <2>1, OneLess, PoolAssumption
  <2>3. active' = Cardinality({v \in Worker : pc'[v] \in {"handler", "leave"}})
    BY <2>1, <2>2 DEF CountersExact, Leave
  <2> QED BY <2>3 DEF CountersExact, Leave
<1> QED BY <1>1, <1>2, <1>3, <1>4

-----------------------------------------------------------------------------
(* Retry timers and Shutdown *)

LEMMA TimerFiresStep ==
  ASSUME PoolInv, NEW t \in Task, TimerFires(t)
  PROVE  PoolInv'
<1> USE DEF PoolInv
<1>1. Types'
  BY DEF TimerFires, Types, channels
<1>2. OnePlace'
  <2>1. ASSUME NEW u \in Task PROVE \E k \in Kind : PlaceOf(k, u)'
    <3>1. PICK k \in Kind : PlaceOf(k, u)
      BY DEF OnePlace
    <3>2. CASE u = t
      <4>1. PlaceOf("sender", u)'
        BY <3>1, <3>2 DEF PlaceOf, TimerFires, channels, Accepted, Held, Finished
      <4> QED BY <4>1 DEF Kind
    <3>3. CASE u # t
      BY <3>1, <3>3 DEF PlaceOf, TimerFires, channels, Accepted, Held, Finished
    <3> QED BY <3>2, <3>3
  <2> QED BY <2>1 DEF OnePlace, TimerFires, channels
<1>3. WorkerInv' /\ CallsInv' /\ CountersExact'
  BY DEF WorkerInv, CallsInv, CountersExact, TimerFires, ContextDone, counters
<1> QED BY <1>1, <1>2, <1>3

LEMMA SendRetryStep ==
  ASSUME PoolInv, NEW t \in Task, SendRetry(t)
  PROVE  PoolInv'
<1> USE DEF PoolInv
<1>1. ~InChannel(retry, t) /\ t \in senders
  BY DEF SendRetry, OnePlace, PlaceOf
<1>2. /\ retry' \in Seq(Task) /\ Len(retry') = Len(retry) + 1 /\ Distinct(retry')
      /\ \A u : InChannel(retry', u) <=> InChannel(retry, u) \/ u = t
  BY <1>1, Push DEF SendRetry, OnePlace, Types
<1>3. Types'
  BY <1>2, PoolAssumption DEF SendRetry, Types
<1>4. OnePlace'
  <2>1. ASSUME NEW u \in Task PROVE \E k \in Kind : PlaceOf(k, u)'
    <3>1. PICK k \in Kind : PlaceOf(k, u)
      BY DEF OnePlace
    <3>2. CASE u = t
      <4>1. PlaceOf("retry", u)'
        BY <1>1, <1>2, <3>1, <3>2 DEF PlaceOf, SendRetry, Accepted, Held, Finished
      <4> QED BY <4>1 DEF Kind
    <3>3. CASE u # t
      BY <1>2, <3>1, <3>3 DEF PlaceOf, SendRetry, Accepted, Held, Finished
    <3> QED BY <3>2, <3>3
  <2> QED BY <1>2, <2>1 DEF OnePlace, SendRetry
<1>5. WorkerInv' /\ CallsInv' /\ CountersExact'
  BY DEF WorkerInv, CallsInv, CountersExact, SendRetry, ContextDone, counters
<1> QED BY <1>3, <1>4, <1>5

LEMMA DropRetryStep ==
  ASSUME PoolInv, NEW t \in Task, DropRetry(t)
  PROVE  PoolInv'
<1> USE DEF PoolInv
<1>1. Types'
  BY DEF DropRetry, Types, channels
<1>2. OnePlace'
  <2>1. ASSUME NEW u \in Task PROVE \E k \in Kind : PlaceOf(k, u)'
    <3>1. PICK k \in Kind : PlaceOf(k, u)
      BY DEF OnePlace
    <3>2. CASE u = t
      <4>1. PlaceOf("dropped", u)'
        BY <3>1, <3>2 DEF PlaceOf, DropRetry, channels, Accepted, Held, Finished
      <4> QED BY <4>1 DEF Kind
    <3>3. CASE u # t
      BY <3>1, <3>3 DEF PlaceOf, DropRetry, channels, Accepted, Held, Finished
    <3> QED BY <3>2, <3>3
  <2> QED BY <2>1 DEF OnePlace, DropRetry, channels
<1>3. WorkerInv' /\ CallsInv' /\ CountersExact'
  BY DEF WorkerInv, CallsInv, CountersExact, DropRetry, ContextDone, counters
<1> QED BY <1>1, <1>2, <1>3

LEMMA ShutdownStep ==
  ASSUME PoolInv, ShutdownCancel \/ ShutdownReturns
  PROVE  PoolInv'
<1> USE DEF PoolInv
<1>1. UNCHANGED <<submission, channels, pc, holding, status, retries, timers, senders, dropped,
                  counters, runs>>
  BY DEF ShutdownCancel, ShutdownReturns
<1>2. Types'
  BY <1>1 DEF Types, channels, ShutdownCancel, ShutdownReturns
<1>3. OnePlace'
  BY <1>1 DEF OnePlace, PlaceOf, Accepted, Held, Finished, channels
<1>4. WorkerInv' /\ CallsInv' /\ CountersExact'
  BY <1>1 DEF WorkerInv, CallsInv, CountersExact, ShutdownCancel, ShutdownReturns, ContextDone, counters
<1> QED BY <1>2, <1>3, <1>4

LEMMA PoolInvStutter == PoolInv /\ UNCHANGED vars => PoolInv'
<1> SUFFICES ASSUME PoolInv, UNCHANGED vars PROVE PoolInv'
  OBVIOUS
<1>1. Types' /\ CallsInv' /\ WorkerInv'
  BY DEF PoolInv, Types, CallsInv, WorkerInv, ContextDone, vars, channels, counters
<1>2. OnePlace'
  BY DEF PoolInv, OnePlace, PlaceOf, Accepted, Held, Finished, vars, channels
<1>3. CountersExact'
  BY DEF PoolInv, CountersExact, vars, counters
<1> QED BY <1>1, <1>2, <1>3 DEF PoolInv

\* The invariant holds in every reachable state.
THEOREM PoolInvariant == Spec => []PoolInv
<1>1. PoolInv /\ [Next]_vars => PoolInv'
  <2> SUFFICES ASSUME PoolInv, [Next]_vars PROVE PoolInv'
    OBVIOUS
  <2>1. ASSUME NEW t \in Task, SubmitSend(t) \/ SubmitReject(t) \/ SubmitCount(t) PROVE PoolInv'
    BY <2>1, SubmitSendStep, SubmitRejectStep, SubmitCountStep
  <2>2. ASSUME NEW w \in Worker, WorkerStep(w) PROVE PoolInv'
    BY <2>2, TakeTaskStep, TakeRetryStep, StopStep, ProcessTaskStep, HandlerSucceedsStep,
       HandlerFailsStep, LeaveStep DEF WorkerStep
  <2>3. ASSUME NEW t \in Task, RetryStep(t) PROVE PoolInv'
    BY <2>3, TimerFiresStep, SendRetryStep, DropRetryStep DEF RetryStep
  <2> QED BY <2>1, <2>2, <2>3, ShutdownStep, PoolInvStutter DEF Next
<1> QED BY <1>1, PoolInvInit, PTL DEF Spec

-----------------------------------------------------------------------------
(* The properties *)

\* Every variable has its type and no channel holds more than its capacity.
THEOREM PoolTypeCorrect == Spec => []TypeOK
<1>1. PoolInv => TypeOK
  <2> SUFFICES ASSUME PoolInv PROVE TypeOK
    OBVIOUS
  <2>1. active \in Nat /\ queued \in Nat /\ completed \in Nat /\ failed \in Nat
    BY FS_Subset, FS_CardinalityType, PoolAssumption DEF PoolInv, CountersExact
  <2> QED BY <2>1 DEF PoolInv, Types, TypeOK
<1> QED BY <1>1, PoolInvariant, PTL

\* The counters of Stats are exact.
THEOREM StatsExact == Spec => []CountersExact
<1>1. PoolInv => CountersExact
  BY DEF PoolInv
<1> QED BY <1>1, PoolInvariant, PTL

\* A task that Submit accepted is in exactly one place.
THEOREM NoTaskLost == Spec => []TaskInOnePlace
<1>1. PoolInv => TaskInOnePlace
  <2> SUFFICES ASSUME PoolInv, NEW t \in Task
               PROVE  Cardinality(Positions(t)) = IF Accepted(t) THEN 1 ELSE 0
    BY DEF TaskInOnePlace, PoolInv, WorkerInv
  <2>1. PICK k \in Kind : PlaceOf(k, t)
    BY DEF PoolInv, OnePlace
  <2>2. CASE ~Accepted(t)
    <3>1. Positions(t) = {}
      BY <2>1, <2>2 DEF Positions, PlaceOf, InChannel, Held
    <3> QED BY <2>2, <3>1, FS_EmptySet
  <2>3. CASE Accepted(t)
    <3>1. \E p : Positions(t) = {p}
      <4>1. CASE k = "tasks"
        <5>1. PICK i \in DOMAIN tasks : tasks[i] = t
          BY <2>1, <4>1 DEF PlaceOf, InChannel
        <5>2. {j \in DOMAIN tasks : tasks[j] = t} = {i}
          BY <5>1 DEF PoolInv, OnePlace, Distinct
        <5>3. Positions(t) = {<<"tasks", i>>}
          BY <2>1, <4>1, <5>2 DEF Positions, PlaceOf, InChannel, Held
        <5> QED BY <5>3
      <4>2. CASE k = "retry"
        <5>1. PICK i \in DOMAIN retry : retry[i] = t
          BY <2>1, <4>2 DEF PlaceOf, InChannel
        <5>2. {j \in DOMAIN retry : retry[j] = t} = {i}
          BY <5>1 DEF PoolInv, OnePlace, Distinct
        <5>3. Positions(t) = {<<"retry", i>>}
          BY <2>1, <4>2, <5>2 DEF Positions, PlaceOf, InChannel, Held
        <5> QED BY <5>3
      <4>3. CASE k = "worker"
        <5>1. PICK w \in Worker : holding[w] = t
          BY <2>1, <4>3 DEF PlaceOf, Held
        <5>2. {v \in Worker : holding[v] = t} = {w}
          BY <5>1, PoolAssumption DEF PoolInv, OnePlace
        <5>3. Positions(t) = {<<"worker", w>>}
          BY <2>1, <4>3, <5>2 DEF Positions, PlaceOf, InChannel, Held
        <5> QED BY <5>3
      <4>4. CASE k = "timer"
        <5>1. Positions(t) = {<<"timer", t>>}
          BY <2>1, <4>4 DEF Positions, PlaceOf, InChannel, Held
        <5> QED BY <5>1
      <4>5. CASE k = "sender"
        <5>1. Positions(t) = {<<"sender", t>>}
          BY <2>1, <4>5 DEF Positions, PlaceOf, InChannel, Held
        <5> QED BY <5>1
      <4>6. CASE k = "dropped"
        <5>1. Positions(t) = {<<"dropped", t>>}
          BY <2>1, <4>6 DEF Positions, PlaceOf, InChannel, Held
        <5> QED BY <5>1
      <4>7. CASE k = "finished"
        <5>1. Positions(t) = {<<"finished", t>>}
          BY <2>1, <4>7 DEF Positions, PlaceOf, InChannel, Held
        <5> QED BY <5>1
      <4>8. k # "none"
        BY <2>1, <2>3 DEF PlaceOf
      <4> QED BY <4>1, <4>2, <4>3, <4>4, <4>5, <4>6, <4>7, <4>8 DEF Kind
    <3> QED BY <2>3, <3>1, FS_Singleton
  <2> QED BY <2>2, <2>3
<1> QED BY <1>1, PoolInvariant, PTL

-----------------------------------------------------------------------------
(* WorkerPool implements TaskPool *)

Running(t) == \E w \in Worker : pc[w] = "handler" /\ holding[w] = t

\* The state a task has in TaskPool, by what is known of it here.
StatesAgree ==
  \A t \in Task :
    /\ Running(t) => TaskState(t) = "running"
    /\ status[t] = "TaskCompleted" => TaskState(t) = "completed"
    /\ status[t] = "TaskFailed" => TaskState(t) = "failed"
    /\ t \in dropped => TaskState(t) = "dropped"
    /\ ~Accepted(t) => TaskState(t) = "new"
    /\ Accepted(t) /\ ~Running(t) /\ ~Finished(t) /\ t \notin dropped => TaskState(t) = "waiting"

LEMMA StatesInvariant == Spec => []StatesAgree
<1>1. PoolInv => StatesAgree
  <2> SUFFICES ASSUME PoolInv, NEW t \in Task
               PROVE  /\ Running(t) => TaskState(t) = "running"
                      /\ status[t] = "TaskCompleted" => TaskState(t) = "completed"
                      /\ status[t] = "TaskFailed" => TaskState(t) = "failed"
                      /\ t \in dropped => TaskState(t) = "dropped"
                      /\ ~Accepted(t) => TaskState(t) = "new"
                      /\ Accepted(t) /\ ~Running(t) /\ ~Finished(t) /\ t \notin dropped =>
                           TaskState(t) = "waiting"
    BY DEF StatesAgree
  <2>1. PICK k \in Kind : PlaceOf(k, t)
    BY DEF PoolInv, OnePlace
  <2>2. Running(t) <=> status[t] = "TaskRunning"
    BY DEF PoolInv, WorkerInv, Running
  <2>3. Running(t) => k = "worker"
    BY <2>1 DEF PlaceOf, Running, Held
  <2> QED BY <2>1, <2>2, <2>3 DEF PlaceOf, TaskState, Running, Finished
<1> QED BY <1>1, PoolInvariant, PTL

\* A task of which a step changes none of these keeps its state.
Untouched(u) ==
  /\ status'[u] = status[u]
  /\ u \in dropped' <=> u \in dropped
  /\ Accepted(u)' <=> Accepted(u)
  /\ \A w \in Worker : (pc'[w] = "handler" /\ holding'[w] = u) <=> (pc[w] = "handler" /\ holding[w] = u)

LEMMA SameState == ASSUME NEW u, Untouched(u) PROVE TaskState(u)' = TaskState(u)
BY DEF TaskState, Untouched

TaskStates == [t \in Task |-> TaskState(t)]

\* A step that touches no task, or only one.
LEMMA NoneMoves ==
  ASSUME \A u \in Task : Untouched(u)
  PROVE  TaskStates' = TaskStates
BY SameState DEF TaskStates

LEMMA OneMoves ==
  ASSUME NEW t \in Task, \A u \in Task : u # t => Untouched(u)
  PROVE  Abstract!Move(t, TaskState(t), TaskState(t)')
BY SameState DEF Abstract!Move

\* SubmitSend and SubmitReject: a task is accepted, or nothing is seen of it.
LEMMA SubmitAccepts ==
  ASSUME PoolInv, StatesAgree, StatesAgree', NEW t \in Task, SubmitSend(t)
  PROVE  Abstract!Accept(t)
<1>1. \A u \in Task : u # t => Untouched(u)
  BY DEF SubmitSend, Untouched, PoolInv, Types, Accepted
<1>2. ~Accepted(t) /\ Accepted(t)'
  BY DEF SubmitSend, CanSubmit, Accepted, PoolInv, Types
<1>3. t \notin dropped /\ ~Finished(t) /\ ~Held(t)
  BY <1>2 DEF PoolInv, OnePlace, PlaceOf
<1>4. t \notin dropped' /\ ~Finished(t)' /\ ~Running(t)'
  BY <1>3 DEF SubmitSend, Finished, Held, Running
<1>5. TaskState(t) = "new" /\ TaskState(t)' = "waiting"
  BY <1>2, <1>4 DEF StatesAgree
<1>6. Abstract!Move(t, "new", "waiting")
  BY <1>1, <1>5, OneMoves
<1> QED BY <1>6 DEF Abstract!Accept, SubmitSend

\* ProcessTask: the handler is called, or the task has none.
LEMMA ProcessBegins ==
  ASSUME PoolInv, StatesAgree, StatesAgree', NEW w \in Worker, ProcessTask(w)
  PROVE  \E t \in Task : Abstract!Begin(t) \/ Abstract!Refuse(t)
<1>1. /\ pc[w] = "process" /\ holding[w] \in Task /\ PlaceOf("worker", holding[w])
      /\ \A v \in Worker : holding[v] = holding[w] <=> v = w
  BY Holder DEF ProcessTask
<1>2. PICK t \in Task : t = holding[w]
  BY <1>1
<1>3. ~Running(t) /\ ~Finished(t) /\ t \notin dropped /\ Accepted(t)
  BY <1>1, <1>2 DEF Running, PlaceOf
<1>4. TaskState(t) = "waiting"
  BY <1>3 DEF StatesAgree
<1>5. \A u \in Task : u # t => Untouched(u)
  BY <1>1, <1>2, PoolAssumption DEF ProcessTask, Untouched, PoolInv, Types, Accepted
<1>6. pool' = pool /\ pool # "closed"
  BY <1>1 DEF ProcessTask, PoolInv, WorkerInv
<1>7. CASE t \in Unhandled
  <2>1. status'[t] = "TaskFailed" /\ runs' = runs
    BY <1>2, <1>7 DEF ProcessTask, PoolInv, Types
  <2>2. TaskState(t)' = "failed"
    BY <2>1 DEF StatesAgree
  <2>3. Abstract!Move(t, "waiting", "failed")
    BY <1>4, <1>5, <2>2, OneMoves
  <2>4. Abstract!Refuse(t)
    BY <1>6, <1>7, <2>1, <2>3 DEF Abstract!Refuse
  <2> QED BY <2>4
<1>8. CASE t \notin Unhandled
  <2>1. Running(t)' /\ runs' = [runs EXCEPT ![t] = @ + 1]
    BY <1>2, <1>8 DEF ProcessTask, PoolInv, Types, Running
  <2>2. TaskState(t)' = "running"
    BY <2>1 DEF StatesAgree
  <2>3. Abstract!Move(t, "waiting", "running")
    BY <1>4, <1>5, <2>2, OneMoves
  <2>4. Abstract!Begin(t)
    BY <1>6, <1>8, <2>1, <2>3 DEF Abstract!Begin
  <2> QED BY <2>4
<1> QED BY <1>7, <1>8

\* What HandlerSucceeds and HandlerFails share.
LEMMA HandlerOf ==
  ASSUME PoolInv, StatesAgree, NEW w \in Worker, HandlerSucceeds(w) \/ HandlerFails(w)
  PROVE  /\ holding[w] \in Task /\ TaskState(holding[w]) = "running"
         /\ status[holding[w]] = "TaskRunning"
         /\ Accepted(holding[w]) /\ holding[w] \notin dropped
         /\ \A v \in Worker : ~(pc'[v] = "handler" /\ holding'[v] = holding[w])
         /\ \A u \in Task : u # holding[w] => Untouched(u)
<1>1. pc[w] = "handler"
  BY DEF HandlerSucceeds, HandlerFails
<1>2. /\ holding[w] \in Task /\ PlaceOf("worker", holding[w])
      /\ \A v \in Worker : holding[v] = holding[w] <=> v = w
  BY <1>1, Holder
<1>3. Running(holding[w]) /\ status[holding[w]] = "TaskRunning"
  BY <1>1, <1>2, RunningStatus DEF Running
<1>4. holding' = [holding EXCEPT ![w] = None] /\ pc' = [pc EXCEPT ![w] = "leave"]
  BY DEF HandlerSucceeds, HandlerFails
<1>5. \A v \in Worker : ~(pc'[v] = "handler" /\ holding'[v] = holding[w])
  BY <1>2, <1>4 DEF PoolInv, Types
<1>6. ASSUME NEW u \in Task, u # holding[w] PROVE Untouched(u)
  <2>1. status'[u] = status[u] /\ dropped' = dropped /\ submission' = submission
    BY <1>6 DEF HandlerSucceeds, HandlerFails, PoolInv, Types
  <2> QED BY <1>4, <1>6, <2>1, PoolAssumption DEF Untouched, Accepted, PoolInv, Types
<1> QED BY <1>2, <1>3, <1>5, <1>6 DEF StatesAgree, PlaceOf

LEMMA HandlerSucceedsIn ==
  ASSUME PoolInv, StatesAgree, StatesAgree', NEW w \in Worker, HandlerSucceeds(w)
  PROVE  \E t \in Task : Abstract!Succeed(t)
<1>1. PICK t \in Task : t = holding[w]
  BY HandlerOf
<1>2. TaskState(t) = "running" /\ \A u \in Task : u # t => Untouched(u)
  BY <1>1, HandlerOf
<1>3. status'[t] = "TaskCompleted"
  BY <1>1 DEF HandlerSucceeds, PoolInv, Types
<1>4. TaskState(t)' = "completed"
  BY <1>3 DEF StatesAgree
<1>5. Abstract!Move(t, "running", "completed")
  BY <1>2, <1>4, OneMoves
<1>6. Abstract!Succeed(t)
  BY <1>5 DEF Abstract!Succeed, HandlerSucceeds
<1> QED BY <1>6

\* HandlerFails: the calls made are one more than the retries counted so far,
\* so Retries, with this failure, is the number of calls.
LEMMA HandlerFailsIn ==
  ASSUME PoolInv, StatesAgree, StatesAgree', NEW w \in Worker, HandlerFails(w)
  PROVE  \E t \in Task : Abstract!Fail(t)
<1>1. PICK t \in Task : t = holding[w]
  BY HandlerOf
<1>2. /\ TaskState(t) = "running" /\ status[t] = "TaskRunning" /\ Accepted(t) /\ t \notin dropped
      /\ \A v \in Worker : ~(pc'[v] = "handler" /\ holding'[v] = t)
      /\ \A u \in Task : u # t => Untouched(u)
  BY <1>1, HandlerOf
<1>3. retries'[t] = runs[t]
  BY <1>1, <1>2 DEF HandlerFails, PoolInv, Types, CallsInv
<1>4. UNCHANGED <<runs, pool, dropped, submission>>
  BY DEF HandlerFails
<1>5. TaskState(t)' = IF runs[t] <= MaxRetries[t] THEN "waiting" ELSE "failed"
  <2>1. CASE runs[t] <= MaxRetries[t] /\ status' = [status EXCEPT ![t] = "TaskRetry"]
    <3>1. ~Running(t)' /\ ~Finished(t)' /\ Accepted(t)' /\ t \notin dropped'
      BY <1>2, <1>4, <2>1 DEF Running, Finished, Accepted, PoolInv, Types
    <3> QED BY <2>1, <3>1 DEF StatesAgree
  <2>2. CASE ~(runs[t] <= MaxRetries[t]) /\ status' = [status EXCEPT ![t] = "TaskFailed"]
    <3>1. status'[t] = "TaskFailed"
      BY <2>2 DEF PoolInv, Types
    <3> QED BY <2>2, <3>1 DEF StatesAgree
  <2>3. runs[t] \in Nat /\ MaxRetries[t] \in Nat
    BY PoolAssumption DEF PoolInv, Types
  <2> QED BY <1>1, <1>3, <2>1, <2>2, <2>3 DEF HandlerFails
<1>6. Abstract!Move(t, "running", IF runs[t] <= MaxRetries[t] THEN "waiting" ELSE "failed")
  BY <1>2, <1>5, OneMoves
<1>7. Abstract!Fail(t)
  BY <1>4, <1>6 DEF Abstract!Fail
<1> QED BY <1>7

\* DropRetry: the retry select ends with the context.
LEMMA DropRetryDrops ==
  ASSUME PoolInv, StatesAgree, StatesAgree', NEW t \in Task, DropRetry(t)
  PROVE  Abstract!Drop(t)
<1>1. \A u \in Task : u # t => Untouched(u)
  BY DEF DropRetry, Untouched, Accepted
<1>2. Accepted(t) /\ ~Held(t) /\ ~Finished(t) /\ t \notin dropped
  BY DEF DropRetry, PoolInv, OnePlace, PlaceOf
<1>3. TaskState(t) = "waiting" /\ TaskState(t)' = "dropped"
  BY <1>2 DEF StatesAgree, DropRetry, Running, Held
<1>4. Abstract!Move(t, "waiting", "dropped")
  BY <1>1, <1>3, OneMoves
<1> QED BY <1>4 DEF Abstract!Drop, DropRetry, ContextDone

\* The workers' own moves between channels and the steps of the timers are not
\* seen from outside.
LEMMA HiddenSteps ==
  ASSUME PoolInv,
         \/ \E t \in Task : \/ SubmitReject(t) \/ SubmitCount(t)
                            \/ TimerFires(t) \/ SendRetry(t)
         \/ \E w \in Worker : TakeTask(w) \/ TakeRetry(w) \/ Stop(w) \/ Leave(w)
         \/ UNCHANGED vars
  PROVE  UNCHANGED <<TaskStates, runs, pool>>
<1> USE DEF PoolInv, Types
<1> SUFFICES (\A u \in Task : Untouched(u)) /\ UNCHANGED <<runs, pool>>
  BY NoneMoves
<1>1. ASSUME NEW t \in Task, SubmitReject(t) \/ SubmitCount(t)
      PROVE  (\A u \in Task : Untouched(u)) /\ UNCHANGED <<runs, pool>>
  BY <1>1 DEF SubmitReject, SubmitCount, CanSubmit, Untouched, Accepted, counters
<1>2. ASSUME NEW t \in Task, TimerFires(t) \/ SendRetry(t)
      PROVE  (\A u \in Task : Untouched(u)) /\ UNCHANGED <<runs, pool>>
  BY <1>2 DEF TimerFires, SendRetry, Untouched, Accepted
<1>3. ASSUME NEW w \in Worker, Stop(w) \/ Leave(w)
      PROVE  (\A u \in Task : Untouched(u)) /\ UNCHANGED <<runs, pool>>
  BY <1>3 DEF Stop, Leave, Untouched, Accepted
<1>4. ASSUME NEW w \in Worker, TakeTask(w) \/ TakeRetry(w)
      PROVE  (\A u \in Task : Untouched(u)) /\ UNCHANGED <<runs, pool>>
  <2>1. /\ pc[w] = "select" /\ pc' = [pc EXCEPT ![w] = "process"]
        /\ \A v \in Worker : v # w => holding'[v] = holding[v]
        /\ UNCHANGED <<submission, status, dropped, runs, pool>>
    BY <1>4 DEF TakeTask, TakeRetry, Take
  <2> QED BY <2>1 DEF Untouched, Accepted
<1>5. CASE UNCHANGED vars
  BY <1>5 DEF vars, Untouched, Accepted
<1> QED BY <1>1, <1>2, <1>3, <1>4, <1>5

\* ShutdownCancel and ShutdownReturns: when every worker has stopped, no
\* handler is running.
LEMMA ShutdownCloses ==
  ASSUME StatesAgree, ShutdownCancel \/ ShutdownReturns
  PROVE  Abstract!Cancel \/ Abstract!Close
<1>1. \A u \in Task : Untouched(u)
  BY DEF ShutdownCancel, ShutdownReturns, Untouched, Accepted
<1>2. UNCHANGED <<TaskStates, runs>>
  BY <1>1, NoneMoves DEF ShutdownCancel, ShutdownReturns
<1>3. CASE ShutdownCancel
  BY <1>2, <1>3 DEF ShutdownCancel, Abstract!Cancel, TaskStates
<1>4. CASE ShutdownReturns
  <2>1. \A t \in Task : TaskState(t) # "running"
    BY <1>4 DEF ShutdownReturns, StatesAgree, Running, Finished
  <2> QED BY <1>2, <1>4, <2>1 DEF ShutdownReturns, Abstract!Close, TaskStates
<1> QED BY <1>3, <1>4

\* The pool with its channels, workers, timers and counters is a TaskPool: an
\* accepted task waits, runs or has ended; its handler is called at most
\* MaxRetries + 1 times and never after it succeeded or after Shutdown
\* returned; only a cancelled pool gives a task up.
THEOREM PoolImplementsTaskPool == Spec => ImplementsTaskPool
<1>1. Init => Abstract!Init
  <2> SUFFICES ASSUME Init PROVE \A t \in Task : TaskState(t) = "new"
    BY DEF Init, Abstract!Init
  <2> QED BY DEF Init, TaskState, Accepted
<1>2. PoolInv /\ StatesAgree /\ StatesAgree' /\ [Next]_vars =>
        [Abstract!Next]_<<TaskStates, runs, pool>>
  <2> SUFFICES ASSUME PoolInv, StatesAgree, StatesAgree', [Next]_vars
               PROVE  Abstract!Next \/ UNCHANGED <<TaskStates, runs, pool>>
    OBVIOUS
  <2>1. ASSUME NEW t \in Task, SubmitSend(t) PROVE Abstract!Next
    BY <2>1, SubmitAccepts DEF Abstract!Next
  <2>2. ASSUME NEW w \in Worker, ProcessTask(w) \/ HandlerSucceeds(w) \/ HandlerFails(w)
        PROVE  Abstract!Next
    BY <2>2, ProcessBegins, HandlerSucceedsIn, HandlerFailsIn DEF Abstract!Next
  <2>3. ASSUME NEW t \in Task, DropRetry(t) PROVE Abstract!Next
    BY <2>3, DropRetryDrops DEF Abstract!Next
  <2>4. CASE ShutdownCancel \/ ShutdownReturns
    BY <2>4, ShutdownCloses DEF Abstract!Next
  <2> QED BY <2>1, <2>2, <2>3, <2>4, HiddenSteps DEF Next, WorkerStep, RetryStep
<1> QED BY <1>1, <1>2, PoolInvariant, StatesInvariant, PTL
        DEF Spec, ImplementsTaskPool, Abstract!Spec, TaskStates
=============================================================================
