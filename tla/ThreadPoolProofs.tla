-------------------------- MODULE ThreadPoolProofs --------------------------
(***************************************************************************)
(* Theorems about ThreadPool, for any number of workers, clients and tasks: *)
(* the two counters are exact, neither the workers nor the callers of      *)
(* WaitAll miss a wakeup, every accepted task is run once, and WaitAll     *)
(* waits for what was accepted before it.                                  *)
(***************************************************************************)
EXTENDS ThreadPool, FiniteSetTheorems, SequenceTheorems, TLAPS

\* The counters are needed to show that they stay natural numbers, so type
\* correctness and the two counting invariants are proved together.
CountInv == TypeOK /\ WorkerPlaces /\ UnfinishedIsExact /\ ActiveIsExact

\* Adding or removing one thread changes a set of threads by one.
LEMMA CountWorkers ==
  ASSUME NEW S \in SUBSET WorkerIds, NEW w \in WorkerIds
  PROVE  /\ Cardinality(S) \in Nat
         /\ w \notin S => Cardinality(S \cup {w}) = Cardinality(S) + 1
         /\ w \in S => /\ Cardinality(S \ {w}) = Cardinality(S) - 1
                       /\ Cardinality(S) >= 1
<1>1. IsFiniteSet(S) /\ IsFiniteSet(S \ {w})
  BY PoolAssumption, FS_Subset
<1>2. Cardinality(S) \in Nat
  BY <1>1, FS_CardinalityType
<1>3. Cardinality(S \ {w}) \in Nat
  BY <1>1, FS_CardinalityType
<1>4. w \notin S => Cardinality(S \cup {w}) = Cardinality(S) + 1
  BY <1>1, FS_AddElement
<1>5. w \in S => Cardinality(S \ {w}) = Cardinality(S) - 1
  BY <1>1, FS_RemoveElement
<1>6. w \in S => Cardinality(S) >= 1
  BY <1>2, <1>3, <1>5
<1>. QED
  BY <1>2, <1>4, <1>5, <1>6

\* Popping the front of the queue.
LEMMA PopLength ==
  ASSUME NEW s \in Seq(Tasks), s # <<>>
  PROVE  /\ Head(s) \in Tasks /\ Tail(s) \in Seq(Tasks)
         /\ Len(s) \in Nat /\ Len(Tail(s)) = Len(s) - 1
BY HeadTailProperties, LenProperties, EmptySeq

\* Where workers are after each of their steps, and what they hold.
LEMMA CountInvStep == CountInv /\ [Next]_vars => CountInv'
<1>. SUFFICES ASSUME TypeOK, WorkerPlaces, UnfinishedIsExact, ActiveIsExact,
                     [Next]_vars
              PROVE  CountInv'
  BY DEF CountInv
<1>0. /\ Holding \in SUBSET WorkerIds /\ Running \in SUBSET WorkerIds
      /\ workers \subseteq WorkerIds
      /\ tasks \in Seq(Tasks) /\ Len(tasks) \in Nat
  BY LenProperties DEF Holding, Running, TypeOK
<1>1. CASE UNCHANGED vars
  BY <1>1 DEF vars, CountInv, TypeOK, WorkerPlaces, UnfinishedIsExact,
     ActiveIsExact, Holding, Running
<1>2. ASSUME NEW c \in Clients \cup workers, NEW k \in Tasks, Enqueue(c, k)
      PROVE  CountInv'
  <2>1. tasks' \in Seq(Tasks) /\ Len(tasks') = Len(tasks) + 1
    BY <1>0, <1>2, AppendProperties DEF Enqueue
  <2>2. Holding' = Holding /\ Running' = Running
    BY <1>2 DEF Enqueue, Holding, Running, workerVars
  <2>3. TypeOK'
    BY <1>2, <2>1 DEF Enqueue, TypeOK, workerVars, waitVars
  <2>4. WorkerPlaces'
    BY <1>2, <2>2 DEF Enqueue, WorkerPlaces, workerVars
  <2>5. UnfinishedIsExact' /\ ActiveIsExact'
    <3>1. CASE Holding = {}
      BY <1>0, <1>2, <2>1, <2>2, <3>1, FS_EmptySet
         DEF Enqueue, UnfinishedIsExact, ActiveIsExact
    <3>2. ASSUME NEW w \in Holding PROVE UnfinishedIsExact' /\ ActiveIsExact'
      <4>1. Cardinality(Holding) \in Nat
        BY <1>0, <3>2, CountWorkers
      <4>. QED
        BY <1>0, <1>2, <2>1, <2>2, <4>1
           DEF Enqueue, UnfinishedIsExact, ActiveIsExact
    <3>. QED
      BY <3>1, <3>2
  <2>. QED
    BY <2>3, <2>4, <2>5 DEF CountInv
<1>3. ASSUME UNCHANGED <<workers, tasks, unfinishedTasks, activeThreads, pc,
                         current>>,
             TypeOK', condVar' \cap ready' = {},
             condVar' \cup ready' \subseteq condVar \cup ready
      PROVE  CountInv'
  BY <1>3 DEF CountInv, WorkerPlaces, UnfinishedIsExact, ActiveIsExact, Holding,
     Running
<1>4. ASSUME NEW c \in Clients \cup workers, EnqueueNotify(c) PROVE CountInv'
  <2>1. TypeOK'
    BY <1>4 DEF EnqueueNotify, TypeOK, waitVars
  <2>. QED
    BY <1>3, <1>4, <2>1 DEF EnqueueNotify, WorkerPlaces
<1>5. ASSUME NEW w \in workers, WorkerTake(w) PROVE CountInv'
  <2>0. pc[w] = "loop" /\ w \notin Holding /\ w \notin Running /\ w \in WorkerIds
    BY <1>5 DEF WorkerTake, WorkerPlaces, Holding, Running, TypeOK
  <2>1. CASE ~stop /\ tasks = <<>>
    <3>1. /\ UNCHANGED <<workers, tasks, unfinishedTasks, activeThreads, pc, current>>
          /\ condVar' = condVar \cup {w} /\ ready' = ready \ {w} /\ w \in ready
      BY <1>5, <2>1 DEF WorkerTake, MayExit
    <3>2. TypeOK'
      BY <1>5, <3>1 DEF WorkerTake, TypeOK, waitVars
    <3>. QED
      BY <1>3, <3>1, <3>2 DEF WorkerPlaces
  <2>2. CASE MayExit
    <3>1. /\ UNCHANGED <<workers, tasks, unfinishedTasks, activeThreads, current,
                         condVar>>
          /\ ready' = ready \ {w} /\ pc' = [pc EXCEPT ![w] = "exited"]
      BY <1>5, <2>2 DEF WorkerTake, MayExit
    <3>2. TypeOK'
      BY <1>5, <3>1 DEF WorkerTake, TypeOK, waitVars
    <3>3. Holding' = Holding /\ Running' = Running
      BY <2>0, <3>1 DEF Holding, Running, TypeOK
    <3>4. WorkerPlaces'
      BY <1>5, <3>1, <3>3 DEF WorkerTake, WorkerPlaces, TypeOK
    <3>. QED
      BY <3>1, <3>2, <3>3, <3>4 DEF CountInv, UnfinishedIsExact, ActiveIsExact
  <2>3. CASE tasks # <<>> /\ ~MayExit
    <3>1. /\ UNCHANGED <<workers, unfinishedTasks, activeThreads, condVar>>
          /\ ready' = ready \ {w} /\ pc' = [pc EXCEPT ![w] = "popped"]
          /\ current' = [current EXCEPT ![w] = Head(tasks)]
          /\ tasks' = Tail(tasks)
      BY <1>5, <2>3 DEF WorkerTake, TakeFront
    <3>2. /\ Head(tasks) \in Tasks /\ Tail(tasks) \in Seq(Tasks)
          /\ Len(Tail(tasks)) = Len(tasks) - 1
      BY <1>0, <2>3, PopLength
    <3>3. TypeOK'
      BY <1>5, <3>1, <3>2 DEF WorkerTake, TypeOK, waitVars
    <3>4. Holding' = Holding \cup {w} /\ Running' = Running
      BY <2>0, <3>1 DEF Holding, Running, TypeOK
    <3>5. WorkerPlaces'
      <4>1. \A v \in Holding' : current'[v] \in Tasks
        BY <2>0, <3>1, <3>2, <3>4 DEF WorkerPlaces, TypeOK
      <4>. QED
        BY <1>5, <3>1, <4>1 DEF WorkerTake, WorkerPlaces, TypeOK
    <3>6. Cardinality(Holding') = Cardinality(Holding) + 1 /\ Cardinality(Holding) \in Nat
      BY <1>0, <2>0, <3>4, CountWorkers
    <3>. QED
      BY <1>0, <3>1, <3>2, <3>3, <3>4, <3>5, <3>6
         DEF CountInv, UnfinishedIsExact, ActiveIsExact
  <2>. QED
    BY <1>5, <2>1, <2>2, <2>3 DEF WorkerTake
<1>6. ASSUME NEW w \in workers, WorkerBegin(w) PROVE CountInv'
  <2>1. w \in Holding /\ w \notin Running /\ current[w] \in Tasks /\ w \in WorkerIds
    BY <1>6 DEF WorkerBegin, Holding, Running, WorkerPlaces, TypeOK
  <2>2. Holding' = Holding /\ Running' = Running \cup {w}
    BY <1>6 DEF WorkerBegin, Holding, Running, TypeOK
  <2>3. Cardinality(Running') = Cardinality(Running) + 1
    BY <1>0, <2>1, <2>2, CountWorkers
  <2>4. TypeOK'
    BY <1>6, <2>1 DEF WorkerBegin, TypeOK, waitVars
  <2>5. WorkerPlaces'
    BY <1>6, <2>2 DEF WorkerBegin, WorkerPlaces, TypeOK
  <2>. QED
    BY <1>6, <2>2, <2>3, <2>4, <2>5
       DEF WorkerBegin, CountInv, UnfinishedIsExact, ActiveIsExact
<1>7. ASSUME NEW w \in workers, WorkerEnd(w) PROVE CountInv'
  <2>1. w \in Holding /\ w \in Running /\ w \in WorkerIds
    BY <1>7 DEF WorkerEnd, Holding, Running, TypeOK
  <2>2. Holding' = Holding /\ Running' = Running \ {w}
    BY <1>7 DEF WorkerEnd, Holding, Running, TypeOK
  <2>3. /\ Cardinality(Running') = Cardinality(Running) - 1
        /\ Cardinality(Running) \in Nat /\ Cardinality(Running) >= 1
    BY <1>0, <2>1, <2>2, CountWorkers
  <2>4. activeThreads' \in Nat /\ activeThreads' = activeThreads - 1
    BY <1>7, <2>3 DEF WorkerEnd, ActiveIsExact
  <2>5. TypeOK'
    BY <1>7, <2>4 DEF WorkerEnd, TypeOK, waitVars
  <2>6. WorkerPlaces'
    BY <1>7, <2>2 DEF WorkerEnd, WorkerPlaces, TypeOK
  <2>. QED
    BY <1>7, <2>2, <2>3, <2>4, <2>5, <2>6
       DEF WorkerEnd, CountInv, UnfinishedIsExact, ActiveIsExact
<1>8. ASSUME NEW w \in workers, WorkerFinish(w) PROVE CountInv'
  <2>1. w \in Holding /\ w \notin Running /\ w \in WorkerIds
        /\ w \notin condVar \cup ready
    BY <1>8 DEF WorkerFinish, Holding, Running, WorkerPlaces, TypeOK
  <2>2. Holding' = Holding \ {w} /\ Running' = Running
    BY <1>8 DEF WorkerFinish, Holding, Running, TypeOK
  <2>3. /\ Cardinality(Holding') = Cardinality(Holding) - 1
        /\ Cardinality(Holding) \in Nat /\ Cardinality(Holding) >= 1
    BY <1>0, <2>1, <2>2, CountWorkers
  <2>4. unfinishedTasks' \in Nat /\ unfinishedTasks' = unfinishedTasks - 1
    BY <1>0, <1>8, <2>3 DEF WorkerFinish, CountDown, UnfinishedIsExact
  <2>5. waitAll' \subseteq Clients /\ finishedCondVar' \subseteq Clients
    BY <1>8 DEF WorkerFinish, TellWaiters, TypeOK
  <2>6. TypeOK'
    BY <1>8, <2>4, <2>5 DEF WorkerFinish, TypeOK
  <2>7. WorkerPlaces'
    BY <1>8, <2>1, <2>2 DEF WorkerFinish, WorkerPlaces, TypeOK
  <2>. QED
    BY <1>0, <1>8, <2>2, <2>3, <2>4, <2>6, <2>7
       DEF WorkerFinish, CountInv, UnfinishedIsExact, ActiveIsExact
<1>9. ASSUME NEW c \in Clients, WaitAll(c) \/ WaitAllTest(c) PROVE CountInv'
  <2>1. TypeOK'
    BY <1>9 DEF WaitAll, WaitAllTest, TypeOK, workerVars
  <2>. QED
    BY <1>3, <1>9, <2>1 DEF WaitAll, WaitAllTest, WorkerPlaces, workerVars
<1>10. CASE DtorStop \/ Dtor
  <2>1. TypeOK'
    BY <1>10 DEF DtorStop, Dtor, DtorNotify, DtorJoin, TypeOK, workerVars, waitVars
  <2>. QED
    BY <1>3, <1>10, <2>1 DEF DtorStop, Dtor, DtorNotify, DtorJoin, WorkerPlaces,
       workerVars
<1>11. CASE SpuriousWakeup
  <2>1. TypeOK'
    BY <1>11 DEF SpuriousWakeup, TypeOK
  <2>. QED
    BY <1>3, <1>11, <2>1 DEF SpuriousWakeup, WorkerPlaces
<1>. QED
  BY <1>1, <1>2, <1>4, <1>5, <1>6, <1>7, <1>8, <1>9, <1>10, <1>11
     DEF Next, WorkerStep

\* Initially nothing is queued, held or running.
LEMMA CountInvInit == Init => CountInv
<1>. SUFFICES ASSUME Init PROVE CountInv
  OBVIOUS
<1>1. Holding = {} /\ Running = {}
  BY DEF Init, Holding, Running
<1>2. Cardinality(Holding) = 0 /\ Cardinality(Running) = 0 /\ Len(tasks) = 0
  BY <1>1, FS_EmptySet DEF Init
<1>3. TypeOK
  <2>1. tasks \in Seq(Tasks)
    BY EmptySeq DEF Init
  <2>. QED
    BY <2>1 DEF Init, TypeOK
<1>. QED
  BY <1>1, <1>2, <1>3
     DEF Init, CountInv, WorkerPlaces, UnfinishedIsExact, ActiveIsExact

\* All of it together, at every moment.
LEMMA CountInvariant == Spec => []CountInv
BY CountInvInit, CountInvStep, PTL DEF Spec

\* The variables of the pool keep their types: no counter goes below zero.
THEOREM TypeCorrect == Spec => []TypeOK
<1>1. CountInv => TypeOK
  BY DEF CountInv
<1>. QED
  BY <1>1, CountInvariant, PTL

\* _unfinishedTasks counts the tasks queued and held, for any number of
\* workers, clients and tasks, with tasks that submit tasks.
THEOREM UnfinishedExact == Spec => []UnfinishedIsExact
<1>1. CountInv => UnfinishedIsExact
  BY DEF CountInv
<1>. QED
  BY <1>1, CountInvariant, PTL

\* _activeThreads counts the tasks in execution.
THEOREM ActiveExact == Spec => []ActiveIsExact
<1>1. CountInv => ActiveIsExact
  BY DEF CountInv
<1>. QED
  BY <1>1, CountInvariant, PTL

-----------------------------------------------------------------------------
(* Lost wakeups. *)

\* Counting a set of workers and clients.
LEMMA CountThreads ==
  ASSUME NEW S \in SUBSET (Clients \cup WorkerIds), NEW c \in Clients \cup WorkerIds
  PROVE  /\ Cardinality(S) \in Nat
         /\ c \notin S => Cardinality(S \cup {c}) = Cardinality(S) + 1
         /\ c \in S => Cardinality(S \ {c}) = Cardinality(S) - 1
<1>1. IsFiniteSet(Clients \cup WorkerIds)
  BY PoolAssumption, FS_Union
<1>2. IsFiniteSet(S)
  BY <1>1, FS_Subset
<1>. QED
  BY <1>2, FS_CardinalityType, FS_AddElement, FS_RemoveElement

\* No step leaves a worker asleep beside a task that nobody is coming for.
LEMMA TaskWakeupStep ==
  CountInv /\ NoLostTaskWakeup /\ [Next]_vars => NoLostTaskWakeup'
<1>. SUFFICES ASSUME TypeOK, WorkerPlaces, NoLostTaskWakeup, [Next]_vars
              PROVE  NoLostTaskWakeup'
  BY DEF CountInv
<1>0. /\ tasks \in Seq(Tasks) /\ Len(tasks) \in Nat
      /\ workers \subseteq WorkerIds
      /\ ready \in SUBSET (Clients \cup WorkerIds)
      /\ notifying \in SUBSET (Clients \cup WorkerIds)
  BY LenProperties DEF TypeOK
<1>1. ASSUME NEW c \in Clients \cup WorkerIds
      PROVE  Cardinality(ready) \in Nat /\ Cardinality(notifying) \in Nat
  BY <1>0, CountThreads
<1>2. CASE UNCHANGED <<tasks, stop, condVar, ready, notifying>>
  BY <1>2 DEF NoLostTaskWakeup
<1>3. CASE condVar' = {} \/ stop'
  BY <1>3 DEF NoLostTaskWakeup
<1>4. ASSUME NEW c \in Clients \cup workers, NEW k \in Tasks, Enqueue(c, k)
      PROVE  NoLostTaskWakeup'
  <2>1. Len(tasks') = Len(tasks) + 1
    BY <1>0, <1>4, AppendProperties DEF Enqueue
  <2>2. c \notin notifying /\ c \in Clients \cup WorkerIds
    BY <1>0, <1>4 DEF Enqueue, MayCall, Inside
  <2>3. Cardinality(notifying') = Cardinality(notifying) + 1
    BY <1>0, <1>4, <2>2, CountThreads DEF Enqueue
  <2>4. UNCHANGED <<condVar, ready, stop>>
    BY <1>4 DEF Enqueue, workerVars
  <2>. QED
    BY <1>0, <1>1, <2>1, <2>2, <2>3, <2>4 DEF NoLostTaskWakeup
<1>5. ASSUME NEW c \in Clients \cup workers, EnqueueNotify(c)
      PROVE  NoLostTaskWakeup'
  <2>1. CASE condVar = {}
    BY <1>3, <1>5, <2>1 DEF EnqueueNotify
  <2>2. CASE condVar # {}
    <3>1. PICK w \in condVar : condVar' = condVar \ {w} /\ ready' = ready \cup {w}
      BY <1>5, <2>2 DEF EnqueueNotify
    <3>2. w \in Clients \cup WorkerIds /\ w \notin ready
      BY <1>0 DEF TypeOK, WorkerPlaces
    <3>3. Cardinality(ready') = Cardinality(ready) + 1
      BY <1>0, <3>1, <3>2, CountThreads
    <3>4. /\ c \in notifying /\ notifying' = notifying \ {c}
          /\ UNCHANGED <<tasks, stop>>
      BY <1>5 DEF EnqueueNotify
    <3>5. Cardinality(notifying') = Cardinality(notifying) - 1
      BY <1>0, <3>4, CountThreads
    <3>. QED
      BY <1>0, <1>1, <2>2, <3>2, <3>3, <3>4, <3>5 DEF NoLostTaskWakeup
  <2>. QED
    BY <2>1, <2>2
<1>6. ASSUME NEW w \in workers, WorkerTake(w) PROVE NoLostTaskWakeup'
  <2>0. /\ w \in ready /\ ready' = ready \ {w} /\ w \in Clients \cup WorkerIds
        /\ UNCHANGED <<stop, notifying>>
    BY <1>0, <1>6 DEF WorkerTake
  <2>1. Cardinality(ready') = Cardinality(ready) - 1 /\ Cardinality(ready') \in Nat
    <3>1. ready' \in SUBSET (Clients \cup WorkerIds)
      BY <1>0, <2>0
    <3>. QED
      BY <1>0, <2>0, <3>1, CountThreads
  <2>2. CASE tasks = <<>>
    <3>1. Len(tasks') = 0
      BY <1>6, <2>2 DEF WorkerTake
    <3>. QED
      BY <1>1, <2>0, <2>1, <3>1 DEF NoLostTaskWakeup
  <2>3. CASE MayExit
    BY <1>3, <2>0, <2>3 DEF MayExit
  <2>4. CASE tasks # <<>> /\ ~MayExit
    <3>1. tasks' = Tail(tasks) /\ UNCHANGED condVar
      BY <1>6, <2>4 DEF WorkerTake, TakeFront
    <3>2. Len(tasks') = Len(tasks) - 1
      BY <1>0, <2>4, <3>1, PopLength
    <3>. QED
      BY <1>0, <1>1, <2>0, <2>1, <3>1, <3>2 DEF NoLostTaskWakeup
  <2>. QED
    BY <2>2, <2>3, <2>4
<1>7. ASSUME NEW w \in Clients \cup WorkerIds, ready' = ready \cup {w},
             w \notin ready, condVar' \subseteq condVar,
             UNCHANGED <<tasks, stop, notifying>>
      PROVE  NoLostTaskWakeup'
  <2>1. Cardinality(ready') = Cardinality(ready) + 1
    BY <1>0, <1>7, CountThreads
  <2>. QED
    BY <1>0, <1>1, <1>7, <2>1 DEF NoLostTaskWakeup
<1>8. ASSUME NEW w \in workers,
             WorkerBegin(w) \/ WorkerEnd(w) \/ WorkerFinish(w)
      PROVE  NoLostTaskWakeup'
  <2>1. CASE WorkerFinish(w)
    <3>1. w \notin ready /\ w \in WorkerIds
      BY <1>0, <2>1 DEF WorkerFinish, WorkerPlaces
    <3>. QED
      BY <1>7, <2>1, <3>1 DEF WorkerFinish
  <2>. QED
    BY <1>2, <1>8, <2>1 DEF WorkerBegin, WorkerEnd
<1>9. ASSUME NEW c \in Clients, WaitAll(c) \/ WaitAllTest(c)
      PROVE  NoLostTaskWakeup'
  BY <1>2, <1>9 DEF WaitAll, WaitAllTest, workerVars
<1>10. CASE DtorStop \/ Dtor
  BY <1>2, <1>3, <1>10 DEF DtorStop, Dtor, DtorNotify, DtorJoin, workerVars
<1>11. CASE SpuriousWakeup
  <2>1. ASSUME NEW w \in condVar, condVar' = condVar \ {w}, ready' = ready \cup {w},
               UNCHANGED <<tasks, stop, notifying>>
        PROVE  NoLostTaskWakeup'
    <3>1. w \in WorkerIds /\ w \notin ready
      BY <1>0 DEF TypeOK, WorkerPlaces
    <3>. QED
      BY <1>7, <2>1, <3>1
  <2>. QED
    BY <1>2, <1>11, <2>1 DEF SpuriousWakeup
<1>12. CASE UNCHANGED vars
  BY <1>2, <1>12 DEF vars
<1>. QED
  BY <1>4, <1>5, <1>6, <1>8, <1>9, <1>10, <1>11, <1>12 DEF Next, WorkerStep

\* No accepted task is left to a sleeping worker: the notification after the
\* unlock always comes in time, for any number of workers and submitters.
THEOREM TaskWakeupNotLost == Spec => []NoLostTaskWakeup
<1>1. Init => NoLostTaskWakeup
  BY DEF Init, NoLostTaskWakeup
<1>. QED
  BY <1>1, TaskWakeupStep, CountInvariant, PTL DEF Spec

\* No client sleeps in WaitAll once nothing is unfinished.
THEOREM WaitAllWakeupNotLost == Spec => []NoLostWaitAllWakeup
<1>1. Init => NoLostWaitAllWakeup
  BY DEF Init, NoLostWaitAllWakeup
<1>2. CountInv /\ CountInv' /\ NoLostWaitAllWakeup /\ [Next]_vars
        => NoLostWaitAllWakeup'
  <2>. SUFFICES ASSUME TypeOK, TypeOK', NoLostWaitAllWakeup, [Next]_vars
                PROVE  NoLostWaitAllWakeup'
    BY DEF CountInv
  <2>0. unfinishedTasks \in Nat /\ unfinishedTasks' \in Nat
    BY DEF TypeOK
  <2>1. ASSUME NEW c \in Clients \cup workers, NEW k \in Tasks, Enqueue(c, k)
        PROVE  NoLostWaitAllWakeup'
    BY <2>0, <2>1 DEF Enqueue, NoLostWaitAllWakeup
  <2>2. ASSUME NEW w \in workers, WorkerFinish(w) PROVE NoLostWaitAllWakeup'
    BY <2>0, <2>2 DEF WorkerFinish, TellWaiters, NoLostWaitAllWakeup
  <2>3. ASSUME NEW c \in Clients, WaitAllTest(c) PROVE NoLostWaitAllWakeup'
    BY <2>0, <2>3 DEF WaitAllTest, NoLostWaitAllWakeup
  <2>4. ASSUME UNCHANGED unfinishedTasks, finishedCondVar' \subseteq finishedCondVar
        PROVE  NoLostWaitAllWakeup'
    BY <2>4 DEF NoLostWaitAllWakeup
  <2>5. ASSUME NEW w \in workers, WorkerTake(w) \/ WorkerBegin(w) \/ WorkerEnd(w)
        PROVE  NoLostWaitAllWakeup'
    BY <2>4, <2>5 DEF WorkerTake, WorkerBegin, WorkerEnd, waitVars
  <2>6. ASSUME NEW c \in Clients \cup workers, EnqueueNotify(c)
        PROVE  NoLostWaitAllWakeup'
    BY <2>4, <2>6 DEF EnqueueNotify, waitVars
  <2>7. ASSUME NEW c \in Clients, WaitAll(c) PROVE NoLostWaitAllWakeup'
    BY <2>4, <2>7 DEF WaitAll
  <2>8. CASE DtorStop \/ Dtor \/ SpuriousWakeup
    BY <2>4, <2>8 DEF DtorStop, Dtor, DtorNotify, DtorJoin, SpuriousWakeup, waitVars
  <2>9. CASE UNCHANGED vars
    BY <2>4, <2>9 DEF vars
  <2>. QED
    BY <2>1, <2>2, <2>3, <2>5, <2>6, <2>7, <2>8, <2>9 DEF Next, WorkerStep
<1>. QED
  BY <1>1, <1>2, CountInvariant, PTL DEF Spec

\* Both counters of the pool are exact, for any number of threads and tasks.
THEOREM CountersExact == Spec => []CountersAreExact
  BY UnfinishedExact, ActiveExact, PTL DEF CountersAreExact

\* No wakeup of the pool is lost, for any number of threads and tasks.
THEOREM WakeupNotLost == Spec => []NoLostWakeup
  BY TaskWakeupNotLost, WaitAllWakeupNotLost, PTL DEF NoLostWakeup

-----------------------------------------------------------------------------
(* Every accepted task is in one place. *)

\* The queue holds a task once, before it runs, and nobody else holds it.
QueuedOnce ==
  /\ \A i, j \in 1..Len(tasks) : tasks[i] = tasks[j] => i = j
  /\ \A i \in 1..Len(tasks) :
       /\ tasks[i] \in accepted /\ runs[tasks[i]] = 0
       /\ \A w \in workers : current[w] # tasks[i]

\* No two workers hold the same task; its run is counted once it has begun.
HeldOnce ==
  /\ \A w \in workers : w \notin Holding => current[w] = NoTask
  /\ \A w \in Holding : /\ current[w] \in accepted
                        /\ runs[current[w]] = IF pc[w] = "popped" THEN 0 ELSE 1
  /\ \A v, w \in Holding : current[v] = current[w] => v = w

\* A task that has not run is queued or held, if it was accepted at all.
RunsArePlaced ==
  \A k \in Tasks :
    /\ runs[k] \in {0, 1}
    /\ k \notin accepted => runs[k] = 0
    /\ k \in accepted /\ runs[k] = 0 =>
         \/ \E i \in 1..Len(tasks) : tasks[i] = k
         \/ \E w \in workers : current[w] = k

\* There are workers, they leave a stopped pool with its queue empty, and the
\* destructor is past its joins only after all of them.
WorkersDrain ==
  /\ workers # {}
  /\ dtor # "alive" => stop
  /\ \A w \in workers : pc[w] = "exited" => stop /\ tasks = <<>>
  /\ dtor = "gone" => \A w \in workers : pc[w] = "exited"

WaitedAreAccepted == \A c \in Clients : waitedFor[c] \subseteq accepted

TaskInv == QueuedOnce /\ HeldOnce /\ RunsArePlaced /\ WorkersDrain /\ WaitedAreAccepted

\* The elements of the queue after a push and after a pop.
LEMMA QueueElements ==
  ASSUME NEW s \in Seq(Tasks), NEW k \in Tasks
  PROVE  /\ Len(Append(s, k)) = Len(s) + 1 /\ Len(s) \in Nat
         /\ \A i \in 1..Len(s) : Append(s, k)[i] = s[i]
         /\ Append(s, k)[Len(s) + 1] = k
         /\ s # <<>> => /\ Len(s) >= 1 /\ Head(s) = s[1]
                        /\ Len(Tail(s)) = Len(s) - 1
                        /\ \A i \in 1..(Len(s) - 1) : Tail(s)[i] = s[i + 1]
<1>1. Len(s) \in Nat
  BY LenProperties
<1>2. Len(Append(s, k)) = Len(s) + 1 /\ Append(s, k)[Len(s) + 1] = k
  BY AppendProperties
<1>3. \A i \in 1..Len(s) : Append(s, k)[i] = s[i]
  BY AppendProperties
<1>4. ASSUME s # <<>>
      PROVE  /\ Len(s) >= 1 /\ Head(s) = s[1] /\ Len(Tail(s)) = Len(s) - 1
             /\ \A i \in 1..(Len(s) - 1) : Tail(s)[i] = s[i + 1]
  <2>1. Len(s) >= 1 /\ Head(s) = s[1]
    BY <1>1, <1>4, HeadTailProperties, EmptySeq, LenProperties
  <2>. QED
    BY <1>1, <1>4, <2>1, PopLength, HeadTailProperties
<1>. QED
  BY <1>1, <1>2, <1>3, <1>4

\* Each step moves a task at most one place further: into the queue, from the
\* queue to a worker, through its run, out of the worker's hands.
LEMMA TaskPlacesStep ==
  CountInv /\ TaskInv /\ [Next]_vars => (QueuedOnce /\ HeldOnce /\ RunsArePlaced)'
<1>. SUFFICES ASSUME TypeOK, WorkerPlaces, QueuedOnce, HeldOnce, RunsArePlaced,
                     [Next]_vars
              PROVE  (QueuedOnce /\ HeldOnce /\ RunsArePlaced)'
  BY DEF CountInv, TaskInv
<1>0. /\ tasks \in Seq(Tasks) /\ Len(tasks) \in Nat
      /\ \A i \in 1..Len(tasks) : tasks[i] \in Tasks
      /\ workers \subseteq WorkerIds /\ NoTask \notin Tasks
      /\ accepted \subseteq Tasks
      /\ pc \in [WorkerIds -> {"loop", "popped", "running", "ran", "exited"}]
      /\ current \in [WorkerIds -> Tasks \cup {NoTask}]
      /\ runs \in [Tasks -> Nat]
  BY LenProperties, ElementOfSeq, PoolAssumption DEF TypeOK
<1>1. ASSUME UNCHANGED <<workers, tasks, pc, current, accepted, runs>>
      PROVE  (QueuedOnce /\ HeldOnce /\ RunsArePlaced)'
  BY <1>1 DEF QueuedOnce, HeldOnce, RunsArePlaced, Holding
<1>2. ASSUME NEW c \in Clients \cup workers, NEW k \in Tasks, Enqueue(c, k)
      PROVE  (QueuedOnce /\ HeldOnce /\ RunsArePlaced)'
  <2>1. /\ tasks' = Append(tasks, k) /\ accepted' = accepted \cup {k}
        /\ k \notin accepted /\ UNCHANGED <<workers, pc, current, runs>>
    BY <1>2 DEF Enqueue, workerVars
  <2>2. /\ Len(tasks') = Len(tasks) + 1 /\ tasks'[Len(tasks) + 1] = k
        /\ \A i \in 1..Len(tasks) : tasks'[i] = tasks[i]
    BY <1>0, <2>1, QueueElements
  <2>3. \A w \in workers : current[w] # k
    BY <1>0, <2>1 DEF HeldOnce
  <2>4. QueuedOnce'
    <3>1. \A i \in 1..Len(tasks') : i \in 1..Len(tasks) \/ i = Len(tasks) + 1
      BY <1>0, <2>2
    <3>2. runs[k] = 0
      BY <2>1 DEF RunsArePlaced
    <3>3. \A i \in 1..Len(tasks) : tasks[i] # k
      BY <2>1 DEF QueuedOnce
    <3>4. \A i, j \in 1..Len(tasks') : tasks'[i] = tasks'[j] => i = j
      BY <2>2, <3>1, <3>3 DEF QueuedOnce
    <3>5. \A i \in 1..Len(tasks') :
             /\ tasks'[i] \in accepted' /\ runs'[tasks'[i]] = 0
             /\ \A w \in workers' : current'[w] # tasks'[i]
      BY <2>1, <2>2, <2>3, <3>1, <3>2 DEF QueuedOnce
    <3>. QED
      BY <3>4, <3>5 DEF QueuedOnce
  <2>5. HeldOnce'
    BY <2>1 DEF HeldOnce, Holding
  <2>6. RunsArePlaced'
    <3>. SUFFICES ASSUME NEW t \in Tasks, t \in accepted', runs[t] = 0
                  PROVE  \/ \E i \in 1..Len(tasks') : tasks'[i] = t
                         \/ \E w \in workers : current[w] = t
      BY <2>1 DEF RunsArePlaced
    <3>1. CASE t = k
      BY <1>0, <2>2, <3>1
    <3>2. CASE t \in accepted
      BY <1>0, <2>2, <3>2 DEF RunsArePlaced
    <3>. QED
      BY <2>1, <3>1, <3>2
  <2>. QED
    BY <2>4, <2>5, <2>6
<1>3. ASSUME NEW w \in workers, WorkerTake(w)
      PROVE  (QueuedOnce /\ HeldOnce /\ RunsArePlaced)'
  <2>0. /\ pc[w] = "loop" /\ w \notin Holding /\ w \in WorkerIds
        /\ UNCHANGED <<workers, accepted, runs>>
    BY <1>0, <1>3 DEF WorkerTake, WorkerPlaces, Holding
  <2>1. CASE ~stop /\ tasks = <<>>
    BY <1>1, <1>3, <2>1 DEF WorkerTake, MayExit
  <2>2. CASE MayExit
    <3>1. pc' = [pc EXCEPT ![w] = "exited"] /\ UNCHANGED <<current, tasks>>
      BY <1>3, <2>2 DEF WorkerTake, MayExit
    <3>2. Holding' = Holding
      BY <1>0, <2>0, <3>1 DEF Holding
    <3>3. \A v \in Holding : pc'[v] = pc[v]
      BY <1>0, <2>0, <3>1 DEF Holding
    <3>. QED
      BY <2>0, <3>1, <3>2, <3>3 DEF QueuedOnce, HeldOnce, RunsArePlaced
  <2>3. CASE tasks # <<>> /\ ~MayExit
    <3>1. /\ pc' = [pc EXCEPT ![w] = "popped"] /\ tasks' = Tail(tasks)
          /\ current' = [current EXCEPT ![w] = Head(tasks)]
      BY <1>3, <2>3 DEF WorkerTake, TakeFront
    <3>2. /\ Len(tasks) >= 1 /\ Head(tasks) = tasks[1] /\ tasks[1] \in Tasks
          /\ Len(tasks') = Len(tasks) - 1
          /\ \A i \in 1..Len(tasks') : tasks'[i] = tasks[i + 1]
      BY <1>0, <2>3, <3>1, QueueElements
    <3>3. Holding' = Holding \cup {w} /\ current'[w] = tasks[1] /\ pc'[w] = "popped"
      BY <1>0, <2>0, <3>1, <3>2 DEF Holding
    <3>4. \A v \in workers : v # w => current'[v] = current[v] /\ pc'[v] = pc[v]
      BY <1>0, <3>1
    <3>5. \A i \in 1..Len(tasks') : i + 1 \in 1..Len(tasks) /\ i + 1 # 1
      BY <1>0, <3>2
    <3>5a. 1 \in 1..Len(tasks)
      BY <1>0, <3>2
    <3>6. QueuedOnce'
      <4>1. \A i, j \in 1..Len(tasks') : tasks'[i] = tasks'[j] => i = j
        <5>. SUFFICES ASSUME NEW i \in 1..Len(tasks'), NEW j \in 1..Len(tasks'),
                             tasks'[i] = tasks'[j]
                      PROVE  i = j
          OBVIOUS
        <5>1. i + 1 = j + 1
          BY <3>2, <3>5 DEF QueuedOnce
        <5>. QED
          BY <5>1
      <4>2. \A i \in 1..Len(tasks') :
               /\ tasks'[i] \in accepted /\ runs[tasks'[i]] = 0 /\ tasks'[i] # tasks[1]
               /\ \A v \in workers : current[v] # tasks'[i]
        BY <3>2, <3>5, <3>5a DEF QueuedOnce
      <4>3. \A i \in 1..Len(tasks') : \A v \in workers : current'[v] # tasks'[i]
        BY <3>3, <3>4, <4>2
      <4>. QED
        BY <2>0, <4>1, <4>2, <4>3 DEF QueuedOnce
    <3>7. HeldOnce'
      <4>1. \A v \in workers : v \notin Holding' => current'[v] = NoTask
        BY <3>3, <3>4 DEF HeldOnce
      <4>2. \A v \in Holding' : /\ current'[v] \in accepted
                                /\ runs[current'[v]] = IF pc'[v] = "popped" THEN 0 ELSE 1
        <5>1. tasks[1] \in accepted /\ runs[tasks[1]] = 0
          BY <3>5a DEF QueuedOnce
        <5>2. \A v \in Holding : v \in workers /\ v # w
          BY <2>0 DEF Holding
        <5>. QED
          BY <3>3, <3>4, <5>1, <5>2 DEF HeldOnce
      <4>3. \A v \in Holding : current[v] # tasks[1] /\ v \in workers /\ v # w
        BY <2>0, <3>5a DEF QueuedOnce, Holding
      <4>4. \A u, v \in Holding' : current'[u] = current'[v] => u = v
        BY <3>3, <3>4, <4>3 DEF HeldOnce
      <4>. QED
        BY <2>0, <4>1, <4>2, <4>4 DEF HeldOnce
    <3>8. RunsArePlaced'
      <4>. SUFFICES ASSUME NEW t \in Tasks, t \in accepted, runs[t] = 0
                    PROVE  \/ \E i \in 1..Len(tasks') : tasks'[i] = t
                           \/ \E v \in workers : current'[v] = t
        BY <2>0 DEF RunsArePlaced
      <4>1. ASSUME NEW i \in 1..Len(tasks), tasks[i] = t
            PROVE  \/ \E j \in 1..Len(tasks') : tasks'[j] = t
                   \/ \E v \in workers : current'[v] = t
        <5>1. CASE i = 1
          BY <3>3, <4>1, <5>1
        <5>2. CASE i # 1
          <6>1. i - 1 \in 1..Len(tasks') /\ (i - 1) + 1 = i
            BY <1>0, <3>2, <5>2
          <6>. QED
            BY <3>2, <4>1, <6>1
        <5>. QED
          BY <5>1, <5>2
      <4>2. ASSUME NEW v \in workers, current[v] = t
            PROVE  current'[v] = t
        BY <1>0, <2>0, <3>4, <4>2 DEF HeldOnce
      <4>. QED
        BY <4>1, <4>2 DEF RunsArePlaced
    <3>. QED
      BY <3>6, <3>7, <3>8
  <2>. QED
    BY <1>3, <2>1, <2>2, <2>3 DEF WorkerTake
<1>4. ASSUME NEW w \in workers, WorkerBegin(w)
      PROVE  (QueuedOnce /\ HeldOnce /\ RunsArePlaced)'
  <2>1. /\ pc[w] = "popped" /\ pc' = [pc EXCEPT ![w] = "running"]
        /\ runs' = [runs EXCEPT ![current[w]] = @ + 1]
        /\ UNCHANGED <<workers, tasks, current, accepted>>
    BY <1>4 DEF WorkerBegin
  <2>2. w \in Holding /\ Holding' = Holding /\ current[w] \in Tasks /\ w \in WorkerIds
    BY <1>0, <2>1 DEF Holding, WorkerPlaces
  <2>3. /\ runs[current[w]] = 0 /\ runs'[current[w]] = 1
        /\ \A k \in Tasks : k # current[w] => runs'[k] = runs[k]
    BY <1>0, <2>1, <2>2 DEF HeldOnce
  <2>4. QueuedOnce'
    BY <1>0, <2>1, <2>3 DEF QueuedOnce
  <2>5. HeldOnce'
    <3>1. \A v \in Holding : v # w => /\ current[v] # current[w]
                                      /\ pc'[v] = pc[v] /\ current[v] \in Tasks
      BY <1>0, <2>1, <2>2 DEF HeldOnce, Holding
    <3>2. pc'[w] = "running"
      BY <1>0, <2>1, <2>2
    <3>3. \A v \in Holding : runs'[current[v]] = IF pc'[v] = "popped" THEN 0 ELSE 1
      BY <2>2, <2>3, <3>1, <3>2 DEF HeldOnce
    <3>. QED
      BY <2>1, <2>2, <3>3 DEF HeldOnce
  <2>6. RunsArePlaced'
    <3>1. current[w] \in accepted
      BY <2>2 DEF HeldOnce
    <3>. QED
      BY <2>1, <2>3, <3>1 DEF RunsArePlaced
  <2>. QED
    BY <2>4, <2>5, <2>6
<1>5. ASSUME NEW w \in workers, WorkerEnd(w)
      PROVE  (QueuedOnce /\ HeldOnce /\ RunsArePlaced)'
  <2>1. /\ pc[w] = "running" /\ pc' = [pc EXCEPT ![w] = "ran"]
        /\ UNCHANGED <<workers, tasks, current, accepted, runs>>
    BY <1>5 DEF WorkerEnd
  <2>2. Holding' = Holding /\ \A v \in Holding : pc'[v] = "popped" <=> pc[v] = "popped"
    BY <1>0, <2>1 DEF Holding
  <2>. QED
    BY <2>1, <2>2 DEF QueuedOnce, HeldOnce, RunsArePlaced
<1>6. ASSUME NEW w \in workers, WorkerFinish(w)
      PROVE  (QueuedOnce /\ HeldOnce /\ RunsArePlaced)'
  <2>1. /\ pc[w] = "ran" /\ pc' = [pc EXCEPT ![w] = "loop"]
        /\ current' = [current EXCEPT ![w] = NoTask]
        /\ UNCHANGED <<workers, tasks, accepted, runs>>
    BY <1>6 DEF WorkerFinish
  <2>2. w \in Holding /\ Holding' = Holding \ {w} /\ current'[w] = NoTask /\ w \in WorkerIds
    BY <1>0, <2>1 DEF Holding
  <2>3. \A v \in workers : v # w => current'[v] = current[v] /\ pc'[v] = pc[v]
    BY <1>0, <2>1
  <2>4. QueuedOnce'
    <3>1. \A i \in 1..Len(tasks) : \A v \in workers : current'[v] # tasks[i]
      BY <1>0, <2>2, <2>3 DEF QueuedOnce
    <3>. QED
      BY <2>1, <3>1 DEF QueuedOnce
  <2>5. HeldOnce'
    <3>1. \A v \in workers : v \notin Holding' => current'[v] = NoTask
      BY <2>2, <2>3 DEF HeldOnce
    <3>2. \A v \in Holding' : v \in Holding /\ v \in workers /\ v # w
      BY <2>2 DEF Holding
    <3>. QED
      BY <2>1, <2>3, <3>1, <3>2 DEF HeldOnce
  <2>6. RunsArePlaced'
    <3>. SUFFICES ASSUME NEW t \in Tasks, t \in accepted, runs[t] = 0
                  PROVE  \/ \E i \in 1..Len(tasks) : tasks[i] = t
                         \/ \E v \in workers : current'[v] = t
      BY <2>1 DEF RunsArePlaced
    <3>1. runs[current[w]] = 1
      BY <2>1, <2>2 DEF HeldOnce
    <3>. QED
      BY <2>3, <3>1 DEF RunsArePlaced
  <2>. QED
    BY <2>4, <2>5, <2>6
<1>7. ASSUME NEW c \in Clients, WaitAll(c) \/ WaitAllTest(c)
      PROVE  (QueuedOnce /\ HeldOnce /\ RunsArePlaced)'
  BY <1>1, <1>7 DEF WaitAll, WaitAllTest, workerVars
<1>8. ASSUME NEW c \in Clients \cup workers, EnqueueNotify(c)
      PROVE  (QueuedOnce /\ HeldOnce /\ RunsArePlaced)'
  BY <1>1, <1>8 DEF EnqueueNotify
<1>9. CASE DtorStop \/ Dtor \/ SpuriousWakeup \/ UNCHANGED vars
  BY <1>1, <1>9 DEF DtorStop, Dtor, DtorNotify, DtorJoin, SpuriousWakeup, vars,
     workerVars
<1>. QED
  BY <1>2, <1>3, <1>4, <1>5, <1>6, <1>7, <1>8, <1>9 DEF Next, WorkerStep

\* A stopped pool accepts nothing, so its queue stays empty once it is, and a
\* worker that has returned does not come back.
LEMMA WorkersDrainStep ==
  CountInv /\ TaskInv /\ [Next]_vars => (WorkersDrain /\ WaitedAreAccepted)'
<1>. SUFFICES ASSUME TypeOK, WorkerPlaces, WorkersDrain, WaitedAreAccepted, [Next]_vars
              PROVE  (WorkersDrain /\ WaitedAreAccepted)'
  BY DEF CountInv, TaskInv
<1>0. /\ workers \subseteq WorkerIds /\ waitedFor \in [Clients -> SUBSET Tasks]
      /\ pc \in [WorkerIds -> {"loop", "popped", "running", "ran", "exited"}]
  BY DEF TypeOK
<1>1. ASSUME UNCHANGED <<workers, stop, pc, tasks, dtor, waitedFor, accepted>>
      PROVE  (WorkersDrain /\ WaitedAreAccepted)'
  BY <1>1 DEF WorkersDrain, WaitedAreAccepted
<1>2. ASSUME NEW c \in Clients \cup workers, NEW k \in Tasks, Enqueue(c, k)
      PROVE  (WorkersDrain /\ WaitedAreAccepted)'
  BY <1>2 DEF Enqueue, WorkersDrain, WaitedAreAccepted, workerVars, waitVars
<1>3. ASSUME NEW c \in Clients \cup workers, EnqueueNotify(c)
      PROVE  (WorkersDrain /\ WaitedAreAccepted)'
  BY <1>1, <1>3 DEF EnqueueNotify, waitVars
<1>4. ASSUME NEW w \in workers, WorkerTake(w)
      PROVE  (WorkersDrain /\ WaitedAreAccepted)'
  <2>0. /\ pc[w] = "loop" /\ w \in WorkerIds
        /\ UNCHANGED <<workers, stop, dtor, waitedFor, accepted>>
    BY <1>0, <1>4 DEF WorkerTake, WorkerPlaces, waitVars
  <2>1. CASE ~stop /\ tasks = <<>>
    BY <1>1, <1>4, <2>0, <2>1 DEF WorkerTake, MayExit
  <2>2. CASE MayExit
    <3>1. pc' = [pc EXCEPT ![w] = "exited"] /\ UNCHANGED tasks /\ stop /\ tasks = <<>>
      BY <1>4, <2>2 DEF WorkerTake, MayExit
    <3>. QED
      BY <1>0, <2>0, <3>1 DEF WorkersDrain, WaitedAreAccepted
  <2>3. CASE tasks # <<>> /\ ~MayExit
    <3>1. pc' = [pc EXCEPT ![w] = "popped"]
      BY <1>4, <2>3 DEF WorkerTake, TakeFront
    <3>2. \A v \in workers : pc[v] # "exited"
      BY <2>3 DEF WorkersDrain
    <3>3. \A v \in workers : pc'[v] # "exited"
      BY <1>0, <3>1, <3>2
    <3>. QED
      BY <2>0, <3>2, <3>3 DEF WorkersDrain, WaitedAreAccepted
  <2>. QED
    BY <1>4, <2>1, <2>2, <2>3 DEF WorkerTake
<1>5. ASSUME NEW w \in workers, WorkerBegin(w) \/ WorkerEnd(w) \/ WorkerFinish(w)
      PROVE  (WorkersDrain /\ WaitedAreAccepted)'
  <2>1. /\ pc[w] # "exited" /\ UNCHANGED <<workers, tasks, stop, dtor, waitedFor, accepted>>
    BY <1>5 DEF WorkerBegin, WorkerEnd, WorkerFinish, waitVars
  <2>2. \A v \in workers : pc'[v] = "exited" <=> pc[v] = "exited"
    BY <1>0, <1>5, <2>1 DEF WorkerBegin, WorkerEnd, WorkerFinish
  <2>. QED
    BY <2>1, <2>2 DEF WorkersDrain, WaitedAreAccepted
<1>6. ASSUME NEW c \in Clients, WaitAll(c)
      PROVE  (WorkersDrain /\ WaitedAreAccepted)'
  BY <1>0, <1>6 DEF WaitAll, WorkersDrain, WaitedAreAccepted, workerVars
<1>7. ASSUME NEW c \in Clients, WaitAllTest(c)
      PROVE  (WorkersDrain /\ WaitedAreAccepted)'
  BY <1>1, <1>7 DEF WaitAllTest, workerVars
<1>8. CASE DtorStop \/ Dtor
  BY <1>8 DEF DtorStop, Dtor, DtorNotify, DtorJoin, WorkersDrain, WaitedAreAccepted,
     workerVars, waitVars
<1>9. CASE SpuriousWakeup \/ UNCHANGED vars
  BY <1>1, <1>9 DEF SpuriousWakeup, vars
<1>. QED
  BY <1>2, <1>3, <1>4, <1>5, <1>6, <1>7, <1>8, <1>9 DEF Next, WorkerStep

\* The constructor starts at least one worker, and no task has been submitted.
LEMMA TaskInvInit == Init => TaskInv
<1>. SUFFICES ASSUME Init PROVE TaskInv
  OBVIOUS
<1>1. workers # {}
  <2>1. EffectiveCount # 0
    BY PoolAssumption DEF EffectiveCount
  <2>. QED
    BY <2>1, FS_EmptySet DEF Init
<1>2. Holding = {} /\ 1..Len(tasks) = {}
  BY DEF Init, Holding
<1>. QED
  BY <1>1, <1>2 DEF Init, TaskInv, QueuedOnce, HeldOnce, RunsArePlaced,
     WorkersDrain, WaitedAreAccepted

\* Both invariants, at every moment.
LEMMA TaskInvariant == Spec => [](CountInv /\ TaskInv)
<1>1. CountInv /\ TaskInv /\ [Next]_vars => TaskInv'
  BY TaskPlacesStep, WorkersDrainStep DEF TaskInv
<1>. QED
  BY <1>1, TaskInvInit, CountInvariant, PTL DEF Spec

\* With the queue empty and nothing in a worker's hands every accepted task
\* has been run to its end.
LEMMA IdleMeansFinished ==
  ASSUME TaskInv, Len(tasks) = 0, Holding = {}
  PROVE  \A k \in accepted \cap Tasks : Finished(k)
<1>1. \A w \in workers : current[w] = NoTask
  BY DEF TaskInv, HeldOnce
<1>2. NoTask \notin Tasks
  BY PoolAssumption
<1>. QED
  BY <1>1, <1>2 DEF TaskInv, RunsArePlaced, Finished

\* A task is run at most once, none that was not accepted, and every accepted
\* one has been run to its end when the destructor is past its joins: for any
\* number of workers, submitters and tasks, with tasks that submit tasks.
THEOREM TaskRunExactlyOnce == Spec => []RunExactlyOnce
<1>1. CountInv /\ TaskInv => RunExactlyOnce
  <2>. SUFFICES ASSUME CountInv, TaskInv PROVE RunExactlyOnce
    OBVIOUS
  <2>1. RunAtMostOnce
    BY DEF RunAtMostOnce, TaskInv, RunsArePlaced
  <2>2. ASSUME dtor = "gone" PROVE \A k \in accepted : Finished(k)
    <3>1. \A w \in workers : pc[w] = "exited"
      BY <2>2 DEF TaskInv, WorkersDrain
    <3>2. Holding = {} /\ tasks = <<>>
      BY <3>1 DEF TaskInv, WorkersDrain, Holding
    <3>3. accepted \subseteq Tasks
      BY DEF CountInv, TypeOK
    <3>. QED
      BY <3>2, <3>3, IdleMeansFinished
  <2>. QED
    BY <2>1, <2>2 DEF RunExactlyOnce, DestructorDrains
<1>. QED
  BY <1>1, TaskInvariant, PTL

\* WaitAll returns to a client only when every task accepted before its call
\* has been run to its end, whatever other clients submit meanwhile.
THEOREM WaitAllReallyWaits == Spec => WaitAllWaits
<1>. DEFINE Returns(c) == c \in waitAll /\ c \notin waitAll' \cup finishedCondVar'
<1>1. CountInv /\ TaskInv /\ [Next]_vars =>
        \A c \in Clients : Returns(c) => \A k \in waitedFor[c] : Finished(k)
  <2>. SUFFICES ASSUME CountInv, TaskInv, [Next]_vars, NEW c \in Clients, Returns(c)
                PROVE  \A k \in waitedFor[c] : Finished(k)
    OBVIOUS
  <2>1. unfinishedTasks = 0
    <3>1. ASSUME waitAll \subseteq waitAll' PROVE FALSE
      BY <3>1
    <3>2. ASSUME NEW d \in Clients, WaitAll(d) \/ WaitAllTest(d)
          PROVE  unfinishedTasks = 0
      BY <3>2 DEF WaitAll, WaitAllTest
    <3>3. ASSUME NEW d \in Clients \cup workers, NEW k \in Tasks,
                 Enqueue(d, k) \/ EnqueueNotify(d)
          PROVE  FALSE
      BY <3>1, <3>3 DEF Enqueue, EnqueueNotify, waitVars
    <3>4. ASSUME NEW w \in workers, WorkerStep(w) PROVE FALSE
      BY <3>1, <3>4 DEF WorkerStep, WorkerTake, WorkerBegin, WorkerEnd, WorkerFinish,
         TellWaiters, waitVars
    <3>5. CASE DtorStop \/ Dtor \/ SpuriousWakeup \/ UNCHANGED vars
      BY <3>1, <3>5 DEF DtorStop, Dtor, DtorNotify, DtorJoin, SpuriousWakeup,
         vars, waitVars
    <3>6. ASSUME NEW d \in Clients \cup workers, EnqueueNotify(d) PROVE FALSE
      BY <3>1, <3>6 DEF EnqueueNotify, waitVars
    <3>. QED
      BY <3>2, <3>3, <3>4, <3>5, <3>6 DEF Next
  <2>2. IsFiniteSet(Holding)
    <3>1. Holding \subseteq WorkerIds
      BY DEF Holding, CountInv, TypeOK
    <3>. QED
      BY <3>1, PoolAssumption, FS_Subset
  <2>3. Len(tasks) \in Nat /\ Cardinality(Holding) \in Nat
    BY <2>2, FS_CardinalityType, LenProperties DEF CountInv, TypeOK
  <2>4. Len(tasks) = 0 /\ Cardinality(Holding) = 0
    BY <2>1, <2>3 DEF CountInv, UnfinishedIsExact
  <2>5. Holding = {}
    BY <2>2, <2>4, FS_EmptySet
  <2>6. waitedFor[c] \subseteq accepted \cap Tasks
    BY DEF TaskInv, WaitedAreAccepted, CountInv, TypeOK
  <2>. QED
    BY <2>4, <2>5, <2>6, IdleMeansFinished
<1>. QED
  BY <1>1, TaskInvariant, PTL DEF Spec, WaitAllWaits

=============================================================================
