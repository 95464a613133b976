----------------------------- MODULE WorkerPool -----------------------------
(***************************************************************************)
(* The background worker pool of the API server (internal/worker/pool.go). *)
(*                                                                         *)
(* Goroutines: callers of Submit, the workers, one goroutine per retry     *)
(* timer that fired, and the caller of Shutdown.  A step is the code       *)
(* between two points where another goroutine can interfere: a channel     *)
(* operation, an atomic counter, the handler call.  Where several cases of *)
(* a select are ready, Go picks any of them, and so does the model.        *)
(***************************************************************************)
EXTENDS Naturals, Sequences, FiniteSets

CONSTANTS
  Task, Worker,
  QueueSize,   \* capacity of each of the channels tasks and retry
  MaxRetries,  \* task -> its MaxRetries
  Unhandled,   \* tasks whose type has no registered handler
  None         \* no task

ASSUME PoolAssumption ==
  /\ QueueSize \in Nat \ {0}
  /\ MaxRetries \in [Task -> Nat]
  /\ Unhandled \subseteq Task
  /\ None \notin Task
  /\ IsFiniteSet(Task) /\ IsFiniteSet(Worker)

VARIABLES
  submission,  \* task -> "new", "sent" (in the channel, not yet counted), "accepted", "rejected"
  tasks, retry,      \* the channels
  pc, holding,       \* worker -> where it is, and the task it has
  status, retries,   \* the fields of Task
  timers,            \* tasks whose AfterFunc has not fired
  senders,           \* tasks whose AfterFunc goroutine is in its select
  dropped,           \* tasks given up by that select because the context is done
  active, queued, completed, failed,
  pool,              \* "open", "cancelled" (Shutdown waits for the workers), "closed"
  runs               \* history: task -> number of handler calls

channels == <<tasks, retry>>
counters == <<active, queued, completed, failed>>
vars == <<submission, channels, pc, holding, status, retries, timers, senders, dropped,
          counters, pool, runs>>

ContextDone == pool # "open"

-----------------------------------------------------------------------------
Init ==
  /\ submission = [t \in Task |-> "new"]
  /\ tasks = << >> /\ retry = << >>
  /\ pc = [w \in Worker |-> "select"]
  /\ holding = [w \in Worker |-> None]
  /\ status = [t \in Task |-> "TaskPending"]
  /\ retries = [t \in Task |-> 0]
  /\ timers = {} /\ senders = {} /\ dropped = {}
  /\ active = 0 /\ queued = 0 /\ completed = 0 /\ failed = 0
  /\ pool = "open"
  /\ runs = [t \in Task |-> 0]

(* Submit.  With room in the channel and the context done, both cases of the *)
(* select are ready: a task may be accepted after the shutdown began.        *)

CanSubmit(t) == submission[t] \in {"new", "rejected"}

\* Seeded fault: the channel is not bounded.
FaultSubmitSend(t) ==
  /\ CanSubmit(t)
  /\ tasks' = Append(tasks, t)
  /\ submission' = [submission EXCEPT ![t] = "sent"]
  /\ UNCHANGED <<retry, pc, holding, status, retries, timers, senders, dropped, counters,
                 pool, runs>>

SubmitSend(t) ==
  /\ CanSubmit(t)
  /\ Len(tasks) < QueueSize
  /\ tasks' = Append(tasks, t)
  /\ submission' = [submission EXCEPT ![t] = "sent"]
  /\ UNCHANGED <<retry, pc, holding, status, retries, timers, senders, dropped, counters,
                 pool, runs>>

\* Seeded fault: a task counts again when it was first rejected.
FaultSubmitReject(t) ==
  /\ CanSubmit(t)
  /\ ContextDone \/ Len(tasks) = QueueSize
  /\ submission' = [submission EXCEPT ![t] = "rejected"]
  /\ queued' = queued + 1
  /\ UNCHANGED <<channels, pc, holding, status, retries, timers, senders, dropped, active,
                 completed, failed, pool, runs>>

\* The channel is full, or the context is done.
SubmitReject(t) ==
  /\ CanSubmit(t)
  /\ ContextDone \/ Len(tasks) = QueueSize
  /\ submission' = [submission EXCEPT ![t] = "rejected"]
  /\ UNCHANGED <<channels, pc, holding, status, retries, timers, senders, dropped, counters,
                 pool, runs>>

\* The counter is added after the send: a worker may have the task already.
SubmitCount(t) ==
  /\ submission[t] = "sent"
  /\ submission' = [submission EXCEPT ![t] = "accepted"]
  /\ queued' = queued + 1
  /\ UNCHANGED <<channels, pc, holding, status, retries, timers, senders, dropped, active,
                 completed, failed, pool, runs>>

(* worker: the select over the two channels and the context. *)

Take(w, t) ==
  /\ pc' = [pc EXCEPT ![w] = "process"]
  /\ holding' = [holding EXCEPT ![w] = t]
  /\ UNCHANGED <<submission, status, retries, timers, senders, dropped, counters, pool, runs>>

\* Seeded fault: the task is read but left in the channel.
FaultTakeTask(w) ==
  /\ pc[w] = "select"
  /\ tasks # << >>
  /\ UNCHANGED channels
  /\ Take(w, Head(tasks))

TakeTask(w) ==
  /\ pc[w] = "select"
  /\ tasks # << >>
  /\ tasks' = Tail(tasks)
  /\ UNCHANGED retry
  /\ Take(w, Head(tasks))

TakeRetry(w) ==
  /\ pc[w] = "select"
  /\ retry # << >>
  /\ retry' = Tail(retry)
  /\ UNCHANGED tasks
  /\ Take(w, Head(retry))

Stop(w) ==
  /\ pc[w] = "select"
  /\ ContextDone
  /\ pc' = [pc EXCEPT ![w] = "stopped"]
  /\ UNCHANGED <<submission, channels, holding, status, retries, timers, senders, dropped,
                 counters, pool, runs>>

(* processTask *)

\* The task is marked running and counted; the handler is looked up and called.
ProcessTask(w) ==
  LET t == holding[w] IN
  /\ pc[w] = "process"
  /\ active' = active + 1
  /\ IF t \in Unhandled
     THEN /\ status' = [status EXCEPT ![t] = "TaskFailed"]
          /\ failed' = failed + 1
          /\ holding' = [holding EXCEPT ![w] = None]
          /\ pc' = [pc EXCEPT ![w] = "leave"]
          /\ UNCHANGED runs
     ELSE /\ status' = [status EXCEPT ![t] = "TaskRunning"]
          /\ runs' = [runs EXCEPT ![t] = @ + 1]
          /\ pc' = [pc EXCEPT ![w] = "handler"]
          /\ UNCHANGED <<failed, holding>>
  /\ UNCHANGED <<submission, channels, retries, timers, senders, dropped, queued, completed, pool>>

\* The handler returns nil.
HandlerSucceeds(w) ==
  /\ pc[w] = "handler"
  /\ status' = [status EXCEPT ![holding[w]] = "TaskCompleted"]
  /\ completed' = completed + 1
  /\ holding' = [holding EXCEPT ![w] = None]
  /\ pc' = [pc EXCEPT ![w] = "leave"]
  /\ UNCHANGED <<submission, channels, retries, timers, senders, dropped, active, queued, failed,
                 pool, runs>>

\* Seeded fault: the worker itself sends the task to the retry channel.  When the
\* channel is full it waits there, for ever if it is the only worker.
FaultHandlerFailsInline(w) ==
  LET t == holding[w] IN
  /\ pc[w] = "handler"
  /\ retries' = [retries EXCEPT ![t] = @ + 1]
  /\ \/ /\ retries'[t] <= MaxRetries[t]
        /\ status' = [status EXCEPT ![t] = "TaskRetry"]
        /\ IF Len(retry) < QueueSize
           THEN /\ retry' = Append(retry, t)
                /\ holding' = [holding EXCEPT ![w] = None]
                /\ pc' = [pc EXCEPT ![w] = "leave"]
           ELSE /\ pc' = [pc EXCEPT ![w] = "waiting"]
                /\ UNCHANGED <<retry, holding>>
        /\ UNCHANGED failed
     \/ /\ retries'[t] > MaxRetries[t]
        /\ status' = [status EXCEPT ![t] = "TaskFailed"]
        /\ failed' = failed + 1
        /\ holding' = [holding EXCEPT ![w] = None]
        /\ pc' = [pc EXCEPT ![w] = "leave"]
        /\ UNCHANGED retry
  /\ UNCHANGED <<submission, tasks, timers, senders, dropped, active, queued, completed, pool, runs>>

\* The handler returns an error: a retry is scheduled, or the task has failed.
HandlerFails(w) ==
  LET t == holding[w] IN
  /\ pc[w] = "handler"
  /\ retries' = [retries EXCEPT ![t] = @ + 1]
  /\ holding' = [holding EXCEPT ![w] = None]
  /\ pc' = [pc EXCEPT ![w] = "leave"]
  /\ \/ /\ retries'[t] <= MaxRetries[t]
        /\ status' = [status EXCEPT ![t] = "TaskRetry"]
        /\ timers' = timers \cup {t}
        /\ UNCHANGED failed
     \/ /\ retries'[t] > MaxRetries[t]
        /\ status' = [status EXCEPT ![t] = "TaskFailed"]
        /\ failed' = failed + 1
        /\ UNCHANGED timers
  /\ UNCHANGED <<submission, channels, senders, dropped, active, queued, completed, pool, runs>>

\* The deferred decrement.
Leave(w) ==
  /\ pc[w] = "leave"
  /\ active' = active - 1
  /\ pc' = [pc EXCEPT ![w] = "select"]
  /\ UNCHANGED <<submission, channels, holding, status, retries, timers, senders, dropped,
                 queued, completed, failed, pool, runs>>

(* The goroutine of time.AfterFunc *)

TimerFires(t) ==
  /\ t \in timers
  /\ timers' = timers \ {t}
  /\ senders' = senders \cup {t}
  /\ UNCHANGED <<submission, channels, pc, holding, status, retries, dropped, counters, pool, runs>>

SendRetry(t) ==
  /\ t \in senders
  /\ Len(retry) < QueueSize
  /\ retry' = Append(retry, t)
  /\ senders' = senders \ {t}
  /\ UNCHANGED <<submission, tasks, pc, holding, status, retries, timers, dropped, counters,
                 pool, runs>>

\* Seeded fault: the select has a default case, a full channel loses the task.
FaultDropRetry(t) ==
  /\ t \in senders
  /\ ContextDone \/ Len(retry) = QueueSize
  /\ senders' = senders \ {t}
  /\ dropped' = dropped \cup {t}
  /\ UNCHANGED <<submission, channels, pc, holding, status, retries, timers, counters, pool, runs>>

DropRetry(t) ==
  /\ t \in senders
  /\ ContextDone
  /\ senders' = senders \ {t}
  /\ dropped' = dropped \cup {t}
  /\ UNCHANGED <<submission, channels, pc, holding, status, retries, timers, counters, pool, runs>>

(* Shutdown: cancel, wait for the workers, close done. *)

ShutdownCancel ==
  /\ pool = "open"
  /\ pool' = "cancelled"
  /\ UNCHANGED <<submission, channels, pc, holding, status, retries, timers, senders, dropped,
                 counters, runs>>

\* Seeded fault: Shutdown does not wait for busy workers.
FaultShutdownReturns ==
  /\ pool = "cancelled"
  /\ \E w \in Worker : pc[w] = "stopped"
  /\ pool' = "closed"
  /\ UNCHANGED <<submission, channels, pc, holding, status, retries, timers, senders, dropped,
                 counters, runs>>

ShutdownReturns ==
  /\ pool = "cancelled"
  /\ \A w \in Worker : pc[w] = "stopped"
  /\ pool' = "closed"
  /\ UNCHANGED <<submission, channels, pc, holding, status, retries, timers, senders, dropped,
                 counters, runs>>

-----------------------------------------------------------------------------
WorkerStep(w) ==
  \/ TakeTask(w) \/ TakeRetry(w) \/ Stop(w)
  \/ ProcessTask(w) \/ HandlerSucceeds(w) \/ HandlerFails(w) \/ Leave(w)

RetryStep(t) == TimerFires(t) \/ SendRetry(t) \/ DropRetry(t)

Next ==
  \/ \E t \in Task : SubmitSend(t) \/ SubmitReject(t) \/ SubmitCount(t)
  \/ \E w \in Worker : WorkerStep(w)
  \/ \E t \in Task : RetryStep(t)
  \/ ShutdownCancel
  \/ ShutdownReturns

Spec == Init /\ [][Next]_vars

\* Goroutines that can run do run, handlers return, timers fire; nothing makes
\* a caller submit or shut down.
Fairness ==
  /\ \A t \in Task : WF_vars(SubmitCount(t)) /\ WF_vars(RetryStep(t))
  /\ \A w \in Worker : WF_vars(WorkerStep(w))
  /\ WF_vars(ShutdownReturns)

FairSpec == Spec /\ Fairness

-----------------------------------------------------------------------------
(* Properties *)

\* Every variable holds a value of its type; the channels respect their capacity.
TypeOK ==
  /\ submission \in [Task -> {"new", "sent", "accepted", "rejected"}]
  /\ tasks \in Seq(Task) /\ Len(tasks) <= QueueSize
  /\ retry \in Seq(Task) /\ Len(retry) <= QueueSize
  /\ pc \in [Worker -> {"select", "process", "handler", "leave", "stopped"}]
  /\ holding \in [Worker -> Task \cup {None}]
  /\ status \in [Task -> {"TaskPending", "TaskRunning", "TaskCompleted", "TaskFailed", "TaskRetry"}]
  /\ retries \in [Task -> Nat] /\ runs \in [Task -> Nat]
  /\ timers \subseteq Task /\ senders \subseteq Task /\ dropped \subseteq Task
  /\ active \in Nat /\ queued \in Nat /\ completed \in Nat /\ failed \in Nat
  /\ pool \in {"open", "cancelled", "closed"}

Finished(t) == status[t] \in {"TaskCompleted", "TaskFailed"}
Accepted(t) == submission[t] \in {"sent", "accepted"}

\* Everywhere a task is held.
Positions(t) ==
  {<<"tasks", i>> : i \in {j \in DOMAIN tasks : tasks[j] = t}} \cup
  {<<"retry", i>> : i \in {j \in DOMAIN retry : retry[j] = t}} \cup
  {<<"worker", w>> : w \in {v \in Worker : holding[v] = t}} \cup
  {<<"timer", x>> : x \in timers \cap {t}} \cup
  {<<"sender", x>> : x \in senders \cap {t}} \cup
  {<<"dropped", x>> : x \in dropped \cap {t}} \cup
  {<<"finished", x>> : x \in {y \in {t} : Finished(y)}}

\* A task that Submit accepted is in exactly one place, whatever the timing of
\* retries, full channels and shutdown: it is never lost, never in two workers
\* and never run again once finished.  It is given up only after the context
\* was cancelled.
TaskInOnePlace ==
  /\ \A t \in Task : Cardinality(Positions(t)) = IF Accepted(t) THEN 1 ELSE 0
  /\ dropped # {} => ContextDone

\* Stats: Completed and Failed count the finished tasks, Active the workers in
\* processTask; Queued is the number of tasks ever accepted, so it may for a
\* moment be below the number already finished.
CountersExact ==
  /\ completed = Cardinality({t \in Task : status[t] = "TaskCompleted"})
  /\ failed = Cardinality({t \in Task : status[t] = "TaskFailed"})
  /\ active = Cardinality({w \in Worker : pc[w] \in {"handler", "leave"}})
  /\ queued = Cardinality({t \in Task : submission[t] = "accepted"})

\* The pool with its channels, workers and timers is an implementation of
\* TaskPool: the task a worker has given to its handler is running, one that is
\* accepted and neither running nor at its end waits somewhere.  In particular
\* no handler runs once Shutdown has returned.
TaskState(t) ==
  CASE \E w \in Worker : pc[w] = "handler" /\ holding[w] = t -> "running"
    [] status[t] = "TaskCompleted" -> "completed"
    [] status[t] = "TaskFailed" -> "failed"
    [] t \in dropped -> "dropped"
    [] ~Accepted(t) -> "new"
    [] OTHER -> "waiting"

Abstract == INSTANCE TaskPool WITH
  task <- [t \in Task |-> TaskState(t)],
  attempts <- runs

ImplementsTaskPool == Abstract!Spec

\* Shutdown returns.
ShutdownTerminates == pool = "cancelled" ~> pool = "closed"

\* While the pool is open every accepted task finishes: retries do not block
\* the workers, and a full retry channel is drained.
AcceptedFinishes == \A t \in Task : Accepted(t) ~> (Finished(t) \/ ContextDone)
=============================================================================
