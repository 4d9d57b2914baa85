------------------------------ MODULE ThreadPool ------------------------------
(***************************************************************************)
(* The business pool: a FIFO of tasks, a mutex, a condition variable and a *)
(* fixed number of workers.  A section under the mutex is one step.  The   *)
(* destructor is left out: the pool lives as long as the process.  A       *)
(* spurious wake-up would only repeat Look and is left out too.            *)
(***************************************************************************)
EXTENDS Naturals, Sequences, FiniteSets

CONSTANTS Worker

ASSUME ThreadPoolAssumption == IsFiniteSet(Worker) /\ Worker # {}

VARIABLES tasks,    \* tasks_
          worker,   \* "look": about to take the mutex; "asleep"; "busy"
          running,  \* the task of a busy worker
          owed      \* enqueues that have left the mutex and not notified yet

tpvars == <<tasks, worker, running, owed>>

Nothing == <<>>

TPInit ==
  /\ tasks = <<>>
  /\ worker = [w \in Worker |-> "look"]
  /\ running = [w \in Worker |-> Nothing]
  /\ owed = 0

(* Variant of Enqueue: cv_.notify_one() is forgotten. *)
EnqueueSilently(task) ==
  /\ tasks' = Append(tasks, task)
  /\ UNCHANGED <<owed, worker, running>>

Enqueue(task) ==
  /\ tasks' = Append(tasks, task)
  /\ owed' = owed + 1
  /\ UNCHANGED <<worker, running>>

(* notify_one comes after the mutex is free again: by then the task may be *)
(* gone, and it wakes one sleeping worker, if there is one.                *)
NotifyOne ==
  /\ owed > 0 /\ owed' = owed - 1
  /\ \/ \E w \in Worker :
          worker[w] = "asleep" /\ worker' = [worker EXCEPT ![w] = "look"]
     \/ (\A w \in Worker : worker[w] # "asleep") /\ UNCHANGED worker
  /\ UNCHANGED <<tasks, running>>

(* A worker takes the mutex and finds its predicate false, *)
Sleep(w) ==
  /\ worker[w] = "look" /\ tasks = <<>>
  /\ worker' = [worker EXCEPT ![w] = "asleep"]
  /\ UNCHANGED <<tasks, running, owed>>

(* or true. *)
Take(w) ==
  /\ worker[w] = "look" /\ tasks # <<>>
  /\ worker' = [worker EXCEPT ![w] = "busy"]
  /\ running' = [running EXCEPT ![w] = Head(tasks)]
  /\ tasks' = Tail(tasks)
  /\ UNCHANGED owed

(* The task returns. *)
Finish(w) ==
  /\ worker' = [worker EXCEPT ![w] = "look"]
  /\ running' = [running EXCEPT ![w] = Nothing]
  /\ UNCHANGED <<tasks, owed>>

=============================================================================
