----------------------------- MODULE ThreadPool -----------------------------
(***************************************************************************)
(* ThreadPool: tasks are queued and taken by workers; a worker is created  *)
(* when a task is queued and no worker waits; a monitor makes idle workers *)
(* above a limit stop, by queueing tasks that end them.  The server queues *)
(* its two network threads first (endless), and they return only after     *)
(* StopAllThreads; a pool of its own has no such tasks.                    *)
(*                                                                         *)
(* A step is one critical section of mutex_, or what a worker does outside *)
(* it.  The condition variable wakes one waiting worker (or all), and a    *)
(* woken worker counts as a waiter until it has the mutex again.           *)
(***************************************************************************)
EXTENDS Integers, FiniteSets, Sequences

CONSTANTS
  Task,      \* tasks that are submitted, each once
  Endless,   \* the sets of those that may run until StopAllThreads
  MaxIdle    \* maxIdleThread_

ASSUME PoolAssumption ==
  IsFiniteSet(Task) /\ Endless \subseteq SUBSET Task /\ MaxIdle \in Nat \ {0}

VARIABLES
  endless,   \* the tasks that run until StopAllThreads
  tasks,     \* tasks_
  worker,    \* what each thread of workers_ is doing
  holds,     \* the task it has taken
  pending,   \* pendingStopSignal_
  shutdown,  \* shutdown_
  alive,     \* the network threads have not been stopped
  monitor,   \* the monitor thread has not returned
  joined,    \* JoinAll has returned
  wrapped,   \* the monitor's unsigned count has wrapped round
  accepted, started, done   \* tasks ExecuteTask took, workers began, workers finished

vars == <<endless, tasks, worker, holds, pending, shutdown, alive, monitor, joined,
          wrapped, accepted, started, done>>

Worker == 1..Cardinality(Task)   \* no task creates more than one
None == "no task"
Stop == "working_ = false"

Init ==
  /\ endless \in Endless
  /\ tasks = <<>> /\ pending = 0
  /\ worker = [w \in Worker |-> "none"]
  /\ holds = [w \in Worker |-> None]
  /\ shutdown = FALSE /\ alive = TRUE /\ monitor = TRUE
  /\ joined = FALSE /\ wrapped = FALSE
  /\ accepted = {} /\ started = {} /\ done = {}

Waiting == {w \in Worker : worker[w] = "waiting"}
waiters == Cardinality({w \in Worker : worker[w] \in {"waiting", "woken"}})
Unborn  == {w \in Worker : worker[w] = "none"}

\* What notify_one, called n times, may make of the workers.
Notified(n, workers) ==
  LET asleep == {w \in Worker : workers[w] = "waiting"}
  IN {[w \in Worker |-> IF w \in woken THEN "woken" ELSE workers[w]] :
        woken \in {s \in SUBSET asleep :
          Cardinality(s) = IF n < Cardinality(asleep) THEN n ELSE Cardinality(asleep)}}

\* _CreateWorker
CreateWorker == [worker EXCEPT ![CHOOSE w \in Unborn : \A v \in Unborn : w <= v] = "ready"]
-----------------------------------------------------------------------------
\* The server submits its network threads before anything else.
ExecuteTask(t) ==
  /\ ~shutdown
  /\ t \notin accepted
  /\ t \in endless \/ endless \subseteq accepted
  /\ accepted' = accepted \cup {t}
  /\ tasks' = Append(tasks, t)
  /\ worker' \in Notified(1, IF waiters = 0 THEN CreateWorker ELSE worker)
  /\ UNCHANGED <<endless, holds, pending, shutdown, alive, monitor, joined, wrapped,
                 started, done>>

\* A worker holds the mutex in _WorkerRoutine, having come round the loop or
\* been woken.
Enters(w) == worker[w] \in {"ready", "woken"}

WorkerWait(w) ==
  /\ Enters(w)
  /\ ~shutdown /\ tasks = <<>>
  /\ worker' = [worker EXCEPT ![w] = "waiting"]
  /\ UNCHANGED <<endless, tasks, holds, pending, shutdown, alive, monitor, joined,
                 wrapped, accepted, started, done>>

WorkerSpurious(w) ==
  /\ worker[w] = "waiting"
  /\ worker' = [worker EXCEPT ![w] = "woken"]
  /\ UNCHANGED <<endless, tasks, holds, pending, shutdown, alive, monitor, joined,
                 wrapped, accepted, started, done>>

\* Mutant: a worker returns on shutdown_ whether or not tasks are left.
WorkerReturnEarly(w) ==
  /\ Enters(w)
  /\ shutdown
  /\ worker' = [worker EXCEPT ![w] = "dead"]
  /\ UNCHANGED <<endless, tasks, holds, pending, shutdown, alive, monitor, joined,
                 wrapped, accepted, started, done>>

WorkerReturn(w) ==
  /\ Enters(w)
  /\ shutdown /\ tasks = <<>>
  /\ worker' = [worker EXCEPT ![w] = "dead"]
  /\ UNCHANGED <<endless, tasks, holds, pending, shutdown, alive, monitor, joined,
                 wrapped, accepted, started, done>>

WorkerTake(w) ==
  /\ Enters(w)
  /\ tasks # <<>>
  /\ worker' = [worker EXCEPT ![w] = "running"]
  /\ holds' = [holds EXCEPT ![w] = Head(tasks)]
  /\ tasks' = Tail(tasks)
  /\ started' = started \cup ({Head(tasks)} \cap Task)
  /\ UNCHANGED <<endless, pending, shutdown, alive, monitor, joined, wrapped,
                 accepted, done>>

WorkerRun(w) ==
  /\ worker[w] = "running"
  /\ holds[w] \in Task
  /\ holds[w] \in endless => ~alive
  /\ worker' = [worker EXCEPT ![w] = "ready"]
  /\ holds' = [holds EXCEPT ![w] = None]
  /\ done' = done \cup {holds[w]}
  /\ UNCHANGED <<endless, tasks, pending, shutdown, alive, monitor, joined, wrapped,
                 accepted, started>>

WorkerStop(w) ==
  /\ worker[w] = "running"
  /\ holds[w] = Stop
  /\ worker' = [worker EXCEPT ![w] = "dead"]
  /\ holds' = [holds EXCEPT ![w] = None]
  /\ pending' = pending - 1
  /\ UNCHANGED <<endless, tasks, shutdown, alive, monitor, joined, wrapped,
                 accepted, started, done>>
-----------------------------------------------------------------------------
\* Mutant: one worker too many is stopped.
MonitorStopsAll ==
  LET n == waiters - pending
  IN /\ monitor /\ ~shutdown
     /\ n > MaxIdle
     /\ tasks' = tasks \o [i \in 1..n |-> Stop]
     /\ worker' \in Notified(n, worker)
     /\ pending' = pending + n
     /\ UNCHANGED <<endless, holds, shutdown, alive, monitor, joined, wrapped,
                    accepted, started, done>>

\* _MonitorRoutine finds more idle workers than it wants.
MonitorStops ==
  LET n == (waiters - pending) - MaxIdle
  IN /\ monitor /\ ~shutdown
     /\ n > 0
     /\ tasks' = tasks \o [i \in 1..n |-> Stop]
     /\ worker' \in Notified(n, worker)
     /\ pending' = pending + n
     /\ UNCHANGED <<endless, holds, shutdown, alive, monitor, joined, wrapped,
                    accepted, started, done>>

\* waiters_ - pendingStopSignal_ is negative, hence close to 2^32, and so is
\* the number of stop tasks that follow.  What the pool does with that many
\* is not modelled: no property speaks of a pool that has wrapped.
MonitorWraps ==
  /\ monitor /\ ~shutdown /\ ~wrapped
  /\ waiters < pending
  /\ wrapped' = TRUE
  /\ UNCHANGED <<endless, tasks, worker, holds, pending, shutdown, alive, monitor,
                 joined, accepted, started, done>>

MonitorReturn ==
  /\ monitor /\ shutdown
  /\ monitor' = FALSE
  /\ UNCHANGED <<endless, tasks, worker, holds, pending, shutdown, alive, joined,
                 wrapped, accepted, started, done>>
-----------------------------------------------------------------------------
\* NetThreadPool::StopAllThreads
StopAllThreads ==
  /\ alive
  /\ endless \subseteq accepted
  /\ alive' = FALSE
  /\ UNCHANGED <<endless, tasks, worker, holds, pending, shutdown, monitor, joined,
                 wrapped, accepted, started, done>>

\* Mutant: the waiting workers are not notified.
JoinAllSilent ==
  /\ ~alive /\ ~shutdown
  /\ shutdown' = TRUE
  /\ UNCHANGED <<endless, tasks, worker, holds, pending, alive, monitor, joined,
                 wrapped, accepted, started, done>>

JoinAll ==
  /\ ~alive /\ ~shutdown
  /\ shutdown' = TRUE
  /\ worker' = [w \in Worker |-> IF w \in Waiting THEN "woken" ELSE worker[w]]
  /\ UNCHANGED <<endless, tasks, holds, pending, alive, monitor, joined, wrapped,
                 accepted, started, done>>

\* The join of every worker and of the monitor.
JoinReturn ==
  /\ shutdown /\ ~joined
  /\ \A w \in Worker : worker[w] \in {"none", "dead"}
  /\ ~monitor
  /\ joined' = TRUE
  /\ UNCHANGED <<endless, tasks, worker, holds, pending, shutdown, alive, monitor,
                 wrapped, accepted, started, done>>
-----------------------------------------------------------------------------
WorkerStep(w) ==
  WorkerWait(w) \/ WorkerReturn(w) \/ WorkerTake(w) \/ WorkerRun(w) \/ WorkerStop(w)

JoinStep == MonitorReturn \/ JoinReturn

Next ==
  \/ \E t \in Task : ExecuteTask(t)
  \/ \E w \in Worker : WorkerStep(w) \/ WorkerSpurious(w)
  \/ MonitorStops \/ MonitorWraps
  \/ StopAllThreads \/ JoinAll \/ JoinStep

\* Every worker runs and gets the mutex in the end, the tasks return, and so
\* does the monitor's sleep.  Nothing says that tasks are submitted, that the
\* monitor finds the pool idle or that the server is stopped.
FairSpec ==
  /\ Init /\ [][Next]_vars
  /\ \A w \in Worker : SF_vars(WorkerStep(w))
  /\ WF_vars(JoinStep)
-----------------------------------------------------------------------------
\* A task that ExecuteTask accepted is begun in the end, even when the tasks
\* before it never return: a worker that waits, or a new one, takes it.
TasksStart == \A t \in Task : t \in accepted ~> t \in started \/ wrapped

\* When JoinAll returns, the tasks accepted have been run to their end.
JoinedMeansDone == joined /\ ~wrapped => accepted \subseteq done

\* JoinAll returns.
JoinReturns == shutdown ~> joined \/ wrapped

\* The monitor queues a stop task for a waiting worker only: "notify_one
\* unblocks one of the waiting threads".  Never does it find more stop tasks
\* under way than workers waiting.
StopsAreForWaiting == ~wrapped
=============================================================================
