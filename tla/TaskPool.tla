------------------------------ MODULE TaskPool ------------------------------
(***************************************************************************)
(* What the worker pool promises the code that gives it tasks, without     *)
(* channels, workers, timers or counters: an accepted task is waiting,     *)
(* running or at its end; its handler is called until it succeeds, at most *)
(* MaxRetries + 1 times; a task is dropped only once the pool is           *)
(* cancelled, and no handler runs when the pool is closed.                 *)
(* WorkerPool implements this (WorkerPool!ImplementsTaskPool), and         *)
(* ApiServer is built on it.                                               *)
(***************************************************************************)
EXTENDS Naturals

CONSTANTS
  Task,
  MaxRetries,  \* task -> how often a failed call is repeated
  Unhandled    \* tasks of a type without a handler

VARIABLES
  task,      \* task -> "new", "waiting", "running", "completed", "failed", "dropped"
  attempts,  \* task -> calls of its handler
  pool       \* "open", "cancelled", "closed"

Move(t, from, to) == task[t] = from /\ task' = [task EXCEPT ![t] = to]

Init ==
  /\ task = [t \in Task |-> "new"]
  /\ attempts = [t \in Task |-> 0]
  /\ pool = "open"

\* A task may still be accepted while the pool is being closed, or after.
Accept(t) == Move(t, "new", "waiting") /\ UNCHANGED <<attempts, pool>>

Begin(t) ==
  /\ pool # "closed"
  /\ t \notin Unhandled
  /\ Move(t, "waiting", "running")
  /\ attempts' = [attempts EXCEPT ![t] = @ + 1]
  /\ UNCHANGED pool

Refuse(t) ==
  /\ t \in Unhandled
  /\ Move(t, "waiting", "failed")
  /\ UNCHANGED <<attempts, pool>>

Succeed(t) == Move(t, "running", "completed") /\ UNCHANGED <<attempts, pool>>

Fail(t) ==
  /\ Move(t, "running", IF attempts[t] <= MaxRetries[t] THEN "waiting" ELSE "failed")
  /\ UNCHANGED <<attempts, pool>>

Drop(t) ==
  /\ pool # "open"
  /\ Move(t, "waiting", "dropped")
  /\ UNCHANGED <<attempts, pool>>

Cancel ==
  /\ pool = "open"
  /\ pool' = "cancelled"
  /\ UNCHANGED <<task, attempts>>

Close ==
  /\ pool = "cancelled"
  /\ \A t \in Task : task[t] # "running"
  /\ pool' = "closed"
  /\ UNCHANGED <<task, attempts>>

Next ==
  \/ \E t \in Task : Accept(t) \/ Begin(t) \/ Refuse(t) \/ Succeed(t) \/ Fail(t) \/ Drop(t)
  \/ Cancel
  \/ Close

Spec == Init /\ [][Next]_<<task, attempts, pool>>
=============================================================================
