--------------------------- MODULE MultiTaskTimer ---------------------------
(***************************************************************************)
(* src/breutil/timer.hpp, class MultiTaskTimer: tasks in a priority queue  *)
(* ordered by due time; Add puts one in and notifies; Run, in one or more  *)
(* threads, sleeps until the earliest due time, runs the callback outside  *)
(* the mutex, and returns when it then finds the queue empty.  That last   *)
(* test is made without the mutex.                                         *)
(***************************************************************************)
EXTENDS Naturals, FiniteSets

CONSTANTS
  Tasks,    \* tasks that can be added, each once
  Runners,  \* threads that call Run
  Delays,   \* delays given to Add
  MaxTime   \* bound: the clock

VARIABLES
  now,    \* steady_clock
  tasks,  \* the tasks in _tasks
  due,    \* due_time of each task that was added
  runner, \* where each runner is
  until,  \* the due time a sleeping runner waits for
  job,    \* the task a runner runs, as a set with at most one element
  done    \* history: tasks whose callback was called

multiVars == <<now, tasks, due, runner, until, job, done>>

Latest == MaxTime + 1 + MaxTime
Never  == Latest + 1

MultiInit ==
  /\ now = 0
  /\ tasks = {}
  /\ due = [k \in Tasks |-> Never]
  /\ runner = [r \in Runners |-> "out"]
  /\ until = [r \in Runners |-> Never]
  /\ job = [r \in Runners |-> {}]
  /\ done = {}

-----------------------------------------------------------------------------

Tick ==
  /\ now < MaxTime
  /\ now' = now + 1
  /\ UNCHANGED <<tasks, due, runner, until, job, done>>

\* Mutant: Add does not notify.
NoNotify == UNCHANGED runner

\* _cv.notify_one()
NotifyOne ==
  \/ /\ \A r \in Runners : runner[r] # "asleep"
     /\ UNCHANGED runner
  \/ \E r \in Runners :
       /\ runner[r] = "asleep"
       /\ runner' = [runner EXCEPT ![r] = "loop"]

Add(k, delay) ==
  /\ due[k] = Never
  /\ due' = [due EXCEPT ![k] = now + delay]
  /\ tasks' = tasks \cup {k}
  /\ NotifyOne
  /\ UNCHANGED <<now, until, job, done>>

Run(r) ==
  /\ runner[r] = "out"
  /\ runner' = [runner EXCEPT ![r] = "loop"]
  /\ UNCHANGED <<now, tasks, due, until, job, done>>

\* Mutant: whichever task was added, as if the queue were not ordered.
AnyTask == tasks

\* _tasks.top(): a task with the least due time.
Top == {k \in tasks : \A j \in tasks : due[k] <= due[j]}

IsDue(k) == due[k] <= now

\* The section of Run under the mutex: take a due task, or sleep.
RunLocked(r) ==
  /\ runner[r] = "loop"
  /\ \/ \E k \in Top :
          /\ IsDue(k)
          /\ tasks' = tasks \ {k}
          /\ job' = [job EXCEPT ![r] = {k}]
          /\ runner' = [runner EXCEPT ![r] = "calling"]
          /\ UNCHANGED until
     \/ \E k \in Top :
          /\ ~IsDue(k)
          /\ until' = [until EXCEPT ![r] = due[k]]
          /\ runner' = [runner EXCEPT ![r] = "asleep"]
          /\ UNCHANGED <<tasks, job>>
     \/ /\ tasks = {}
        /\ until' = [until EXCEPT ![r] = Never]
        /\ runner' = [runner EXCEPT ![r] = "asleep"]
        /\ UNCHANGED <<tasks, job>>
  /\ UNCHANGED <<now, due, done>>

\* wait_until ends at its time.
WakeUp(r) ==
  /\ runner[r] = "asleep" /\ until[r] <= now
  /\ runner' = [runner EXCEPT ![r] = "loop"]
  /\ UNCHANGED <<now, tasks, due, until, job, done>>

WakeSpuriously(r) ==
  /\ runner[r] = "asleep"
  /\ runner' = [runner EXCEPT ![r] = "loop"]
  /\ UNCHANGED <<now, tasks, due, until, job, done>>

\* task.callback(), outside the mutex.
Callback(r) ==
  /\ runner[r] = "calling"
  /\ done' = done \cup job[r]
  /\ job' = [job EXCEPT ![r] = {}]
  /\ runner' = [runner EXCEPT ![r] = "after"]
  /\ UNCHANGED <<now, tasks, due, until>>

\* if (_tasks.empty()) break; read without the mutex, so it may see the queue
\* before or after a concurrent Add or pop.
RunTest(r) ==
  /\ runner[r] = "after"
  /\ runner' = [runner EXCEPT ![r] = IF tasks = {} THEN "out" ELSE "loop"]
  /\ UNCHANGED <<now, tasks, due, until, job, done>>

RunStep(r) == RunLocked(r) \/ WakeUp(r) \/ Callback(r) \/ RunTest(r)

MultiNext ==
  \/ Tick
  \/ \E k \in Tasks, d \in Delays : Add(k, d)
  \/ \E r \in Runners : Run(r) \/ RunStep(r) \/ WakeSpuriously(r)

MultiSpec == MultiInit /\ [][MultiNext]_multiVars

\* Time passes and a thread inside Run goes on.
FairMultiSpec == MultiSpec /\ WF_multiVars(Tick) /\ \A r \in Runners : WF_multiVars(RunStep(r))

-----------------------------------------------------------------------------
(* Properties. *)

Active(r) == runner[r] # "out"

\* No callback is called before its due time, and of the queued tasks the one
\* that is due first is taken first, also with several runners.
TakenInDueOrder ==
  [][\A r \in Runners : \A k \in job'[r] \ job[r] :
       due[k] <= now /\ \A j \in tasks : due[k] <= due[j]]_multiVars

\* A queue whose runners all sleep is watched: when tasks are queued, some
\* runner sleeps no longer than until the earliest due time, although an
\* earlier task may have been added after it went to sleep.
EarliestIsWatched ==
  (\A r \in Runners : runner[r] \in {"out", "asleep"})
    /\ (\E r \in Runners : Active(r)) /\ tasks # {}
    => \E r \in Runners : runner[r] = "asleep" /\ \A k \in tasks : until[r] <= due[k]

\* A queued task is run, or all runners have left Run.
QueuedIsRun ==
  \A k \in Tasks :
    k \in tasks /\ due[k] <= MaxTime
      ~> k \in done \/ \A r \in Runners : ~Active(r)

=============================================================================
