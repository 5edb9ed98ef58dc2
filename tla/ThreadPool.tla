----------------------------- MODULE ThreadPool -----------------------------
(***************************************************************************)
(* src/breutil/thread_pool.hpp: a fixed set of workers that take tasks     *)
(* from one queue under _queueMutex, sleep on _condVar, and count the      *)
(* unfinished tasks for WaitAll, which sleeps on _finishedCondVar.         *)
(*                                                                         *)
(* Clients submit tasks and wait; a running task may submit further tasks  *)
(* from inside a worker.  Every critical section is one step; Enqueue      *)
(* notifies after it has released the mutex, so its notification is a step *)
(* of its own, and so are the updates of the atomic _activeThreads.  The   *)
(* destructor runs when no client is inside a call, which is what C++      *)
(* requires of the owner, but tasks may still be queued and running.       *)
(***************************************************************************)
EXTENDS Integers, Sequences, FiniteSets

CONSTANTS
  Clients,      \* threads outside the pool
  ThreadCount,  \* the constructor's argument
  WorkerIds,    \* names for workers, at least as many as the pool starts
  Tasks,        \* tasks that can be submitted, each once
  NoTask        \* the empty std::function of a worker

ASSUME PoolAssumption ==
  /\ IsFiniteSet(WorkerIds) /\ IsFiniteSet(Clients) /\ IsFiniteSet(Tasks)
  /\ Clients \cap WorkerIds = {}
  /\ ThreadCount \in Nat
  /\ NoTask \notin Tasks

VARIABLES
  workers,          \* _workers: the threads the constructor started
  tasks,            \* _tasks
  unfinishedTasks,  \* _unfinishedTasks
  activeThreads,    \* _activeThreads
  stop,             \* _stop
  condVar,          \* workers asleep on _condVar
  ready,            \* workers at the wait loop that compete for the mutex
  pc,               \* where each worker is outside that loop
  current,          \* the task a worker holds
  notifying,        \* threads in Enqueue between the unlock and notify_one
  waitAll,          \* clients in WaitAll that compete for the mutex
  finishedCondVar,  \* clients asleep on _finishedCondVar
  dtor,             \* progress of the destructor
  accepted,         \* history: tasks put in the queue
  runs,             \* history: how often each task was run
  waitedFor         \* history: accepted when the client entered WaitAll

workerVars == <<condVar, ready, pc, current>>
waitVars   == <<waitAll, finishedCondVar, waitedFor>>
vars == <<workers, tasks, unfinishedTasks, activeThreads, stop, condVar, ready,
          pc, current, notifying, waitAll, finishedCondVar, dtor, accepted,
          runs, waitedFor>>

\* threadCount after the constructor has replaced 0.
EffectiveCount == IF ThreadCount = 0 THEN 2 ELSE ThreadCount

TypeOK ==
  /\ workers \subseteq WorkerIds
  /\ tasks \in Seq(Tasks)
  /\ unfinishedTasks \in Nat
  /\ activeThreads \in Nat
  /\ stop \in BOOLEAN
  /\ condVar \subseteq workers /\ ready \subseteq workers
  /\ pc \in [WorkerIds -> {"loop", "popped", "running", "ran", "exited"}]
  /\ current \in [WorkerIds -> Tasks \cup {NoTask}]
  /\ notifying \subseteq Clients \cup workers
  /\ waitAll \subseteq Clients /\ finishedCondVar \subseteq Clients
  /\ dtor \in {"alive", "stopped", "joining", "gone"}
  /\ accepted \subseteq Tasks
  /\ runs \in [Tasks -> Nat]
  /\ waitedFor \in [Clients -> SUBSET Tasks]

Init ==
  /\ workers \in SUBSET WorkerIds
  /\ Cardinality(workers) = EffectiveCount
  /\ tasks = <<>>
  /\ unfinishedTasks = 0
  /\ activeThreads = 0
  /\ stop = FALSE
  /\ condVar = {}
  /\ ready = workers
  /\ pc = [w \in WorkerIds |-> "loop"]
  /\ current = [w \in WorkerIds |-> NoTask]
  /\ notifying = {}
  /\ waitAll = {}
  /\ finishedCondVar = {}
  /\ dtor = "alive"
  /\ accepted = {}
  /\ runs = [k \in Tasks |-> 0]
  /\ waitedFor = [c \in Clients |-> {}]

-----------------------------------------------------------------------------
(* Submitting. *)

Inside(c) == c \in notifying \cup waitAll \cup finishedCondVar

\* Who may call Enqueue: a client of a live pool, or a task that is running.
MayCall(c) ==
  \/ c \in Clients /\ ~Inside(c) /\ dtor = "alive"
  \/ c \in workers /\ pc[c] = "running" /\ c \notin notifying

\* Enqueue, the section under the lock.  On a stopped pool it returns an
\* empty future and changes nothing.
Enqueue(c, k) ==
  /\ MayCall(c)
  /\ k \notin accepted
  /\ ~stop
  /\ tasks' = Append(tasks, k)
  /\ unfinishedTasks' = unfinishedTasks + 1
  /\ accepted' = accepted \cup {k}
  /\ notifying' = notifying \cup {c}
  /\ UNCHANGED <<workers, activeThreads, stop, workerVars, waitVars, dtor, runs>>

\* Enqueue, _condVar.notify_one() after the unlock.
EnqueueNotify(c) ==
  /\ c \in notifying
  /\ notifying' = notifying \ {c}
  /\ \/ condVar = {} /\ UNCHANGED <<condVar, ready>>
     \/ \E w \in condVar : /\ condVar' = condVar \ {w}
                           /\ ready' = ready \cup {w}
  /\ UNCHANGED <<workers, tasks, unfinishedTasks, activeThreads, stop, pc,
                 current, waitVars, dtor, accepted, runs>>

-----------------------------------------------------------------------------
(* The worker loop. *)

TakeFront(w) ==
  /\ current' = [current EXCEPT ![w] = Head(tasks)]
  /\ pc' = [pc EXCEPT ![w] = "popped"]
  /\ tasks' = Tail(tasks)

\* Mutant: the worker leaves as soon as the pool stops.
MayExitAtOnce == stop

\* The worker returns only when the pool stops and nothing is queued.
MayExit == stop /\ tasks = <<>>

\* One pass through the wait loop: sleep, exit, or take the oldest task.
WorkerTake(w) ==
  /\ w \in ready
  /\ ready' = ready \ {w}
  /\ \/ /\ ~stop /\ tasks = <<>>
        /\ condVar' = condVar \cup {w}
        /\ UNCHANGED <<pc, current, tasks>>
     \/ /\ MayExit
        /\ pc' = [pc EXCEPT ![w] = "exited"]
        /\ UNCHANGED <<condVar, current, tasks>>
     \/ /\ tasks # <<>> /\ ~MayExit
        /\ TakeFront(w)
        /\ UNCHANGED condVar
  /\ UNCHANGED <<workers, unfinishedTasks, activeThreads, stop, notifying,
                 waitVars, dtor, accepted, runs>>

\* Mutant: the task runs without being counted as active.
WorkerBeginUncounted(w) ==
  /\ pc[w] = "popped"
  /\ pc' = [pc EXCEPT ![w] = "running"]
  /\ runs' = [runs EXCEPT ![current[w]] = @ + 1]
  /\ UNCHANGED <<workers, tasks, unfinishedTasks, activeThreads, stop, condVar,
                 ready, current, notifying, waitVars, dtor, accepted>>

WorkerBegin(w) ==
  /\ pc[w] = "popped"
  /\ activeThreads' = activeThreads + 1
  /\ pc' = [pc EXCEPT ![w] = "running"]
  /\ runs' = [runs EXCEPT ![current[w]] = @ + 1]
  /\ UNCHANGED <<workers, tasks, unfinishedTasks, stop, condVar, ready, current,
                 notifying, waitVars, dtor, accepted>>

\* task() returns; whatever it throws stays in its packaged_task.
WorkerEnd(w) ==
  /\ pc[w] = "running" /\ w \notin notifying
  /\ activeThreads' = activeThreads - 1
  /\ pc' = [pc EXCEPT ![w] = "ran"]
  /\ UNCHANGED <<workers, tasks, unfinishedTasks, stop, condVar, ready, current,
                 notifying, waitVars, dtor, accepted, runs>>

\* Mutant: nobody is told that the last task has finished.
TellNobody == UNCHANGED <<waitAll, finishedCondVar>>

\* _finishedCondVar.notify_all() when nothing is unfinished any more.
TellWaiters ==
  IF unfinishedTasks' = 0
    THEN waitAll' = waitAll \cup finishedCondVar /\ finishedCondVar' = {}
    ELSE UNCHANGED <<waitAll, finishedCondVar>>

\* Mutant: an empty queue is taken for the end of all tasks.
CountDownOnEmpty ==
  unfinishedTasks' = IF tasks = <<>> THEN 0 ELSE unfinishedTasks - 1

CountDown == unfinishedTasks' = unfinishedTasks - 1

WorkerFinish(w) ==
  /\ pc[w] = "ran"
  /\ CountDown
  /\ TellWaiters
  /\ pc' = [pc EXCEPT ![w] = "loop"]
  /\ current' = [current EXCEPT ![w] = NoTask]
  /\ ready' = ready \cup {w}
  /\ UNCHANGED <<workers, tasks, activeThreads, stop, condVar, notifying,
                 waitedFor, dtor, accepted, runs>>

SpuriousWakeup ==
  /\ \/ \E w \in condVar :
          /\ condVar' = condVar \ {w}
          /\ ready' = ready \cup {w}
          /\ UNCHANGED <<waitAll, finishedCondVar>>
     \/ \E c \in finishedCondVar :
          /\ finishedCondVar' = finishedCondVar \ {c}
          /\ waitAll' = waitAll \cup {c}
          /\ UNCHANGED <<condVar, ready>>
  /\ UNCHANGED <<workers, tasks, unfinishedTasks, activeThreads, stop, pc,
                 current, notifying, dtor, accepted, runs, waitedFor>>

-----------------------------------------------------------------------------
(* WaitAll and the destructor. *)

WaitAll(c) ==
  /\ ~Inside(c) /\ dtor = "alive"
  /\ waitAll' = waitAll \cup {c}
  /\ waitedFor' = [waitedFor EXCEPT ![c] = accepted]
  /\ UNCHANGED <<workers, tasks, unfinishedTasks, activeThreads, stop,
                 workerVars, notifying, finishedCondVar, dtor, accepted, runs>>

\* One test of WaitAll's predicate under the lock: return or sleep.
WaitAllTest(c) ==
  /\ c \in waitAll
  /\ waitAll' = waitAll \ {c}
  /\ finishedCondVar' = IF unfinishedTasks = 0 THEN finishedCondVar
                                               ELSE finishedCondVar \cup {c}
  /\ UNCHANGED <<workers, tasks, unfinishedTasks, activeThreads, stop,
                 workerVars, notifying, dtor, accepted, runs, waitedFor>>

DtorStop ==
  /\ dtor = "alive" /\ \A c \in Clients : ~Inside(c)
  /\ stop' = TRUE
  /\ dtor' = "stopped"
  /\ UNCHANGED <<workers, tasks, unfinishedTasks, activeThreads, workerVars,
                 notifying, waitVars, accepted, runs>>

\* Mutant: the destructor wakes one worker only.
DtorNotifyOne ==
  /\ dtor = "stopped"
  /\ \/ condVar = {} /\ UNCHANGED <<condVar, ready>>
     \/ \E w \in condVar : /\ condVar' = condVar \ {w}
                           /\ ready' = ready \cup {w}
  /\ dtor' = "joining"
  /\ UNCHANGED <<workers, tasks, unfinishedTasks, activeThreads, stop, pc,
                 current, notifying, waitVars, accepted, runs>>

DtorNotify ==
  /\ dtor = "stopped"
  /\ condVar' = {}
  /\ ready' = ready \cup condVar
  /\ dtor' = "joining"
  /\ UNCHANGED <<workers, tasks, unfinishedTasks, activeThreads, stop, pc,
                 current, notifying, waitVars, accepted, runs>>

\* The joins; then the members are destroyed.
DtorJoin ==
  /\ dtor = "joining"
  /\ \A w \in workers : pc[w] = "exited"
  /\ dtor' = "gone"
  /\ UNCHANGED <<workers, tasks, unfinishedTasks, activeThreads, stop,
                 workerVars, notifying, waitVars, accepted, runs>>

-----------------------------------------------------------------------------

WorkerStep(w) ==
  \/ WorkerTake(w) \/ WorkerBegin(w) \/ WorkerEnd(w) \/ WorkerFinish(w)

Dtor == DtorNotify \/ DtorJoin

Next ==
  \/ \E c \in Clients \cup workers :
       EnqueueNotify(c) \/ \E k \in Tasks : Enqueue(c, k)
  \/ \E w \in workers : WorkerStep(w)
  \/ \E c \in Clients : WaitAll(c) \/ WaitAllTest(c)
  \/ DtorStop \/ Dtor
  \/ SpuriousWakeup

Spec == Init /\ [][Next]_vars

\* Threads run: whoever is inside a call or a worker loop goes on.  Nobody has
\* to submit, wait or destroy, and spurious wakeups are not relied upon.
FairSpec ==
  /\ Spec
  /\ \A w \in WorkerIds : WF_vars(w \in workers /\ WorkerStep(w))
  /\ \A c \in Clients \cup WorkerIds : WF_vars(EnqueueNotify(c))
  /\ \A c \in Clients : WF_vars(WaitAllTest(c))
  /\ WF_vars(Dtor)

-----------------------------------------------------------------------------
(* Properties. *)

\* Workers with a task in their hands, and workers running one.
Holding == {w \in workers : pc[w] \in {"popped", "running", "ran"}}

\* _unfinishedTasks, incremented by Enqueue and decremented by whichever
\* worker finishes, counts the queued tasks and the ones in a worker's hands.
UnfinishedIsExact == unfinishedTasks = Len(tasks) + Cardinality(Holding)

Running == {w \in workers : pc[w] = "running"}

\* _activeThreads, updated outside the mutex, counts the tasks in execution.
ActiveIsExact == activeThreads = Cardinality(Running)

\* A worker is at the wait loop, asleep or on its way but not both, or it
\* holds a task, or it has returned.
WorkerPlaces ==
  /\ condVar \cap ready = {}
  /\ \A w \in condVar \cup ready : pc[w] = "loop"
  /\ \A w \in Holding : current[w] \in Tasks

\* A worker sleeps beside queued tasks only if a worker or a notification is
\* on its way for each of them, although Enqueue notifies after the unlock.
NoLostTaskWakeup ==
  condVar # {} /\ ~stop =>
    Len(tasks) <= Cardinality(ready) + Cardinality(notifying)

\* Nobody sleeps in WaitAll when nothing is unfinished.
NoLostWaitAllWakeup == finishedCondVar # {} => unfinishedTasks > 0

\* No task is run twice, and none is run that was not accepted.
RunAtMostOnce ==
  \A k \in Tasks : runs[k] <= (IF k \in accepted THEN 1 ELSE 0)

Finished(k) == runs[k] = 1 /\ \A w \in workers : current[w] # k

\* When WaitAll returns, every task accepted before it was called has been
\* run to its end, whatever was submitted in the meantime.
WaitAllWaits ==
  [][\A c \in Clients :
       c \in waitAll /\ c \notin waitAll' \cup finishedCondVar' =>
         \A k \in waitedFor[c] : Finished(k)]_vars

\* After the destructor every accepted task has been run: stopping drains the
\* queue, also of what running tasks submitted before the stop.
DestructorDrains == dtor = "gone" => \A k \in accepted : Finished(k)

\* Every accepted task is run eventually.
AcceptedIsRun == \A k \in Tasks : k \in accepted ~> runs[k] = 1

\* The destructor ends.
DestructorEnds == dtor = "stopped" ~> dtor = "gone"

\* Both counters are exact, although three places change them and one of them
\* does so outside the mutex.
CountersAreExact == UnfinishedIsExact /\ ActiveIsExact

\* Neither a worker nor a caller of WaitAll sleeps through its wakeup.
NoLostWakeup == NoLostTaskWakeup /\ NoLostWaitAllWakeup

\* An accepted task is run once: never twice, and by the end of the destructor.
RunExactlyOnce == RunAtMostOnce /\ DestructorDrains

\* With fair threads the tasks are run and the destructor comes to its end.
PoolFinishes == AcceptedIsRun /\ DestructorEnds

=============================================================================
