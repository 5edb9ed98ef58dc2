-------------------------- MODULE BlockQueueProofs --------------------------
(***************************************************************************)
(* Theorems about BlockQueue, for every number of threads, every capacity  *)
(* and every set of operations: type correctness, the placement of threads *)
(* in the wait sets, the lost-wakeup invariants, the refinement of the     *)
(* bounded channel, and that a batch is accepted as a prefix.              *)
(***************************************************************************)
EXTENDS BlockQueue, FiniteSetTheorems, SequenceTheorems, TLAPS

-----------------------------------------------------------------------------
(* Operators the model is built from. *)

\* NewItems builds a sequence of items.
LEMMA NewItemsType ==
  ASSUME NEW t \in Threads, NEW n \in Nat, issued[t] \in Nat
  PROVE  NewItems(t, n) \in Seq(Item)
<1>1. \A i \in 1 .. n : [by |-> t, call |-> issued[t] + 1, idx |-> i] \in Item
  BY DEF Item
<1>. QED
  BY <1>1 DEF NewItems

\* _queue.push of a sequence keeps the types.
LEMMA AcceptType ==
  ASSUME NEW t \in Threads, NEW s \in Seq(Item), TypeOK, Accept(t, s)
  PROVE  /\ queue' \in Seq(Item)
         /\ lastIn' \in [Threads -> Item]
<1>1. queue' \in Seq(Item)
  BY ConcatProperties DEF Accept, TypeOK
<1>2. CASE s = <<>>
  BY <1>1, <1>2 DEF Accept, TypeOK
<1>3. CASE s # <<>>
  <2>1. s[Len(s)] \in Item
    BY <1>3, EmptySeq, LenProperties, ElementOfSeq
  <2>. QED
    BY <1>1, <1>3, <2>1 DEF Accept, TypeOK
<1>. QED
  BY <1>2, <1>3

\* What a notification does to the wait set and the threads on their way.
LEMMA NotifyConsumerType ==
  ASSUME TypeOK, NotifyOneConsumer \/ NotifyAllConsumers
  PROVE  /\ condConsumer' \subseteq condConsumer
         /\ readyConsumer \subseteq readyConsumer'
         /\ readyConsumer' \subseteq readyConsumer \cup condConsumer
         /\ condConsumer' \cap readyConsumer' \subseteq condConsumer \cap readyConsumer
BY DEF NotifyOneConsumer, NotifyAllConsumers, consumerVars

\* The same for the producers.
LEMMA NotifyProducerType ==
  ASSUME TypeOK, NotifyOneProducer \/ NotifyAllProducers
  PROVE  /\ condProducer' \subseteq condProducer
         /\ readyProducer \subseteq readyProducer'
         /\ readyProducer' \subseteq readyProducer \cup condProducer
         /\ condProducer' \cap readyProducer' \subseteq condProducer \cap readyProducer
BY DEF NotifyOneProducer, NotifyAllProducers, producerVars

\* Taking items leaves a sequence of items.
LEMMA TakeType ==
  ASSUME TypeOK, NEW n \in 0 .. Len(queue), Take(n)
  PROVE  /\ queue' \in Seq(Item)
         /\ Len(queue') = Len(queue) - n
<1>1. queue \in Seq(Item) /\ Len(queue) \in Nat
  BY LenProperties DEF TypeOK
<1>. QED
  BY <1>1, SubSeqProperties DEF Take

-----------------------------------------------------------------------------
(* Type correctness. *)

\* Every step keeps the types.
LEMMA TypeStep == TypeOK /\ [Next]_vars => TypeOK'
<1>. SUFFICES ASSUME TypeOK, [Next]_vars PROVE TypeOK'
  OBVIOUS
<1>. USE OpsAssumption, BoundsAssumption
<1>1. CASE UNCHANGED vars
  BY <1>1 DEF TypeOK, vars
<1>2. ASSUME NEW t \in Threads, Issue(t) PROVE TypeOK'
  <2>1. ASSUME NEW o \in Ops, NEW n \in Nat, IssuePush(t, o, n) PROVE TypeOK'
    <3>1. NewItems(t, n) \in Seq(Item)
      BY NewItemsType DEF TypeOK
    <3>. QED
      BY <2>1, <3>1 DEF IssuePush, TypeOK, consumerVars
  <2>2. ASSUME NEW o \in Ops, NEW n \in Nat, IssuePop(t, o, n)
        PROVE  TypeOK'
    BY <2>2 DEF IssuePop, TypeOK, producerVars
  <2>. QED
    BY <1>2, <2>1, <2>2 DEF Issue, IssuePush, IssuePop
<1>3. ASSUME NEW t \in Threads, Push(t) PROVE TypeOK'
  <2>1. items[t] \in Seq(Item)
    BY DEF TypeOK
  <2>2. \/ UNCHANGED <<queue, lastIn, condConsumer, readyConsumer>>
        \/ Accept(t, items[t]) /\ NotifyOneConsumer
    BY <1>3 DEF Push, consumerVars
  <2>3. /\ queue' \in Seq(Item) /\ lastIn' \in [Threads -> Item]
        /\ condConsumer' \subseteq Threads /\ readyConsumer' \subseteq Threads
        /\ readyConsumer \subseteq readyConsumer'
    BY <2>1, <2>2, AcceptType, NotifyConsumerType DEF TypeOK
  <2>4. /\ readyProducer' = readyProducer \ {t}
        /\ expired' = expired \ {t}
        /\ condProducer' \in {condProducer, condProducer \cup {t}}
        /\ op' \in {op, [op EXCEPT ![t] = "idle"]}
        /\ UNCHANGED <<capacity, isClose, items, count, issued>>
    BY <1>3 DEF Push, Return, ClearExpired, callVars
  <2>. QED
    BY <2>3, <2>4 DEF TypeOK, Phases
<1>4. ASSUME NEW t \in Threads, TryPush(t) \/ PushBatch(t) \/ PushEach(t)
      PROVE  TypeOK'
  <2>1. items[t] \in Seq(Item)
    BY DEF TypeOK
  <2>2. items[t] # <<>> => /\ <<Head(items[t])>> \in Seq(Item)
                           /\ Tail(items[t]) \in Seq(Item)
    BY <2>1, HeadTailProperties
  <2>3. /\ \/ UNCHANGED <<queue, lastIn>>
           \/ Accept(t, items[t])
           \/ items[t] # <<>> /\ Accept(t, <<Head(items[t])>>)
        /\ \/ UNCHANGED <<condConsumer, readyConsumer>>
           \/ NotifyOneConsumer \/ NotifyAllConsumers
        /\ op' \in {op, [op EXCEPT ![t] = "idle"], [op EXCEPT ![t] = "PushEach"]}
        /\ \/ UNCHANGED items
           \/ items[t] # <<>> /\ items' = [items EXCEPT ![t] = Tail(@)]
        /\ UNCHANGED <<capacity, isClose, condProducer, readyProducer, expired,
                       count, issued>>
    BY <1>4 DEF TryPush, PushBatch, PushEach, Return, callVars, consumerVars,
                producerVars
  <2>4. queue' \in Seq(Item) /\ lastIn' \in [Threads -> Item]
    BY <2>1, <2>2, <2>3, AcceptType DEF TypeOK
  <2>5. /\ condConsumer' \subseteq Threads /\ readyConsumer' \subseteq Threads
        /\ readyConsumer \subseteq readyConsumer'
    BY <2>3, NotifyConsumerType DEF TypeOK
  <2>6. items' \in [Threads -> Seq(Item)]
    BY <2>2, <2>3 DEF TypeOK
  <2>. QED
    BY <2>3, <2>4, <2>5, <2>6 DEF TypeOK, Phases
<1>5. ASSUME NEW t \in Threads, Pop(t) PROVE TypeOK'
  <2>1. /\ readyConsumer' = readyConsumer \ {t}
        /\ expired' = expired \ {t}
        /\ condConsumer' \in {condConsumer, condConsumer \cup {t}}
        /\ op' \in {op, [op EXCEPT ![t] = "idle"]}
        /\ UNCHANGED <<capacity, isClose, items, count, issued, lastIn>>
    BY <1>5 DEF Pop, Return, ClearExpired, callVars
  <2>2. /\ UNCHANGED queue \/ \E n \in 0 .. Len(queue) : Take(n)
        /\ UNCHANGED <<condProducer, readyProducer>>
           \/ NotifyOneProducer \/ NotifyAllProducers
    <3>1. Len(queue) \in Nat /\ (queue # <<>> => Len(queue) >= 1)
      BY LenProperties, EmptySeq DEF TypeOK
    <3>2. count[t] \in Nat
      BY DEF TypeOK
    <3>3. CASE ~CanPop
      BY <1>5, <3>3 DEF Pop, producerVars
    <3>4. CASE PopOne(t)
      BY <3>1, <3>4 DEF PopOne, producerVars
    <3>5. CASE PeekFront(t)
      BY <3>5 DEF PeekFront, producerVars
    <3>6. CASE PopBatch(t)
      <4>. DEFINE n == IF count[t] < Len(queue) THEN count[t] ELSE Len(queue)
      <4>1. n \in 0 .. Len(queue)
        BY <3>1, <3>2
      <4>2. Take(n) /\ (NotifyAllProducers \/ UNCHANGED producerVars)
        BY <3>6 DEF PopBatch
      <4>. QED
        BY <4>1, <4>2 DEF producerVars
    <3>. QED
      BY <1>5, <3>3, <3>4, <3>5, <3>6 DEF Pop
  <2>3. queue' \in Seq(Item)
    BY <2>2, TakeType DEF TypeOK
  <2>4. /\ condProducer' \subseteq Threads /\ readyProducer' \subseteq Threads
        /\ readyProducer \subseteq readyProducer'
    BY <2>2, NotifyProducerType DEF TypeOK
  <2>. QED
    BY <2>1, <2>3, <2>4 DEF TypeOK, Phases
<1>6. ASSUME NEW t \in Threads, Atomic(t) PROVE TypeOK'
  <2>1. CASE TryPop(t)
    <3>1. Len(queue) \in Nat /\ Len(queue) >= 1
      BY <2>1, LenProperties, EmptySeq DEF TypeOK, TryPop
    <3>2. queue' \in Seq(Item)
      BY <2>1, <3>1, TakeType DEF TryPop
    <3>. QED
      BY <2>1, <3>2, NotifyProducerType DEF TryPop, TypeOK, consumerVars, callVars
  <2>2. CASE Clear(t)
    BY <2>2, NotifyProducerType DEF Clear, TypeOK, consumerVars, callVars
  <2>3. CASE Close(t)
    BY <2>3 DEF Close, TypeOK, Phases, consumerVars, producerVars, callVars
  <2>4. CASE Flush(t)
    BY <2>4, NotifyConsumerType DEF Flush, TypeOK, producerVars, callVars
  <2>5. CASE NotifyAll(t)
    BY <2>5, NotifyConsumerType DEF NotifyAll, TypeOK, Phases, producerVars, callVars
  <2>6. ASSUME NEW c \in Capacities, SetCapacity(t, c) PROVE TypeOK'
    BY <2>6, NotifyProducerType DEF SetCapacity, TypeOK, consumerVars,
       producerVars, callVars
  <2>. QED
    BY <1>6, <2>1, <2>2, <2>3, <2>4, <2>5, <2>6 DEF Atomic
<1>7. ASSUME NEW t \in Threads,
             CloseProducers(t) \/ CloseConsumers(t) \/ NotifyProducers(t)
      PROVE  TypeOK'
  BY <1>7, NotifyConsumerType, NotifyProducerType
     DEF CloseProducers, CloseConsumers, NotifyProducers, Return, TypeOK, Phases,
         consumerVars, producerVars, callVars
<1>8. ASSUME NEW t \in Threads, SpuriousWakeup(t) \/ Timeout(t) PROVE TypeOK'
  BY <1>8 DEF SpuriousWakeup, Timeout, TypeOK, consumerVars, producerVars, callVars
<1>. QED
  BY <1>1, <1>2, <1>3, <1>4, <1>5, <1>6, <1>7, <1>8 DEF Next, Step

\* The variables of the queue keep their types whatever the clients call.
THEOREM TypeCorrect == Spec => []TypeOK
<1>1. Init => TypeOK
  <2>1. \A t \in Threads : NoItem(t) \in Item
    BY DEF NoItem, Item
  <2>2. <<>> \in Seq(Item)
    BY EmptySeq
  <2>3. Init => /\ op \in [Threads -> Ops \cup Phases]
                /\ items \in [Threads -> Seq(Item)]
                /\ count \in [Threads -> Nat]
                /\ issued \in [Threads -> Nat]
                /\ lastIn \in [Threads -> Item]
    BY <2>1, <2>2 DEF Init, Phases
  <2>. QED
    BY <2>2, <2>3, BoundsAssumption DEF Init, TypeOK
<1>. QED
  BY <1>1, TypeStep, PTL DEF Spec

-----------------------------------------------------------------------------
(* Where the threads are. *)

\* The placement invariant is inductive.
LEMMA PlacementStep == TypeOK /\ Placement /\ [Next]_vars => Placement'
<1>. SUFFICES ASSUME TypeOK, Placement, [Next]_vars PROVE Placement'
  OBVIOUS
<1>. USE DEF ConsumerOps, ProducerOps
<1>1. CASE UNCHANGED vars
  BY <1>1 DEF Placement, vars
<1>2. ASSUME NEW t \in Threads, Issue(t) PROVE Placement'
  <2>1. ASSUME NEW o, NEW n \in Nat, IssuePush(t, o, n),
               \/ o \in {"Push", "PushFor", "TryPush"} /\ n = 1
               \/ o = "PushBatch"
        PROVE  Placement'
    <3>1. Len(NewItems(t, 1)) = 1
      BY DEF NewItems
    <3>. QED
      BY <2>1, <3>1 DEF IssuePush, Placement, TypeOK, consumerVars
  <2>2. ASSUME NEW o, NEW n \in Nat, IssuePop(t, o, n),
               \/ o \in {"Pop", "PopFor", "Peek"}
               \/ o = "PopBatch" /\ n \in PopCounts
        PROVE  Placement'
    BY <2>2 DEF IssuePop, Placement, TypeOK, producerVars
  <2>. QED
    BY <1>2, <2>1, <2>2, BoundsAssumption DEF Issue
<1>3. ASSUME NEW t \in Threads, Push(t) PROVE Placement'
  <2>1. \/ UNCHANGED <<condConsumer, readyConsumer>>
        \/ NotifyOneConsumer
    BY <1>3 DEF Push, consumerVars
  <2>2. /\ condConsumer' \subseteq condConsumer
        /\ readyConsumer' \subseteq readyConsumer \cup condConsumer
        /\ condConsumer' \cap readyConsumer' \subseteq condConsumer \cap readyConsumer
    BY <2>1, NotifyConsumerType
  <2>3. /\ t \in readyProducer
        /\ readyProducer' = readyProducer \ {t}
        /\ \/ op' = op /\ condProducer' \in {condProducer, condProducer \cup {t}}
           \/ op' = [op EXCEPT ![t] = "idle"] /\ condProducer' = condProducer
        /\ UNCHANGED <<items, count>>
    BY <1>3 DEF Push, Return, callVars
  <2>. QED
    BY <2>2, <2>3 DEF Placement, TypeOK
<1>4. ASSUME NEW t \in Threads, TryPush(t) \/ PushBatch(t) \/ PushEach(t)
      PROVE  Placement'
  <2>1. \/ UNCHANGED <<condConsumer, readyConsumer>>
        \/ NotifyOneConsumer \/ NotifyAllConsumers
    BY <1>4 DEF TryPush, PushBatch, PushEach, consumerVars
  <2>2. /\ condConsumer' \subseteq condConsumer
        /\ readyConsumer' \subseteq readyConsumer \cup condConsumer
        /\ condConsumer' \cap readyConsumer' \subseteq condConsumer \cap readyConsumer
    BY <2>1, NotifyConsumerType
  <2>3. /\ op[t] \in {"TryPush", "PushBatch", "PushEach"}
        /\ UNCHANGED <<condProducer, readyProducer, count>>
        /\ \/ op' = [op EXCEPT ![t] = "idle"] /\ items' = items
           \/ op' = [op EXCEPT ![t] = "PushEach"] /\ items' = items
           \/ /\ op' = op /\ op[t] = "PushEach"
              /\ items' = [items EXCEPT ![t] = Tail(@)]
    BY <1>4 DEF TryPush, PushBatch, PushEach, Return, producerVars, callVars
  <2>. QED
    BY <2>2, <2>3 DEF Placement, TypeOK
<1>5. ASSUME NEW t \in Threads, Pop(t) PROVE Placement'
  <2>1. \/ UNCHANGED <<condProducer, readyProducer>>
        \/ NotifyOneProducer \/ NotifyAllProducers
    BY <1>5 DEF Pop, PopOne, PeekFront, PopBatch, producerVars
  <2>2. /\ condProducer' \subseteq condProducer
        /\ readyProducer' \subseteq readyProducer \cup condProducer
        /\ condProducer' \cap readyProducer' \subseteq condProducer \cap readyProducer
    BY <2>1, NotifyProducerType
  <2>3. /\ t \in readyConsumer
        /\ readyConsumer' = readyConsumer \ {t}
        /\ \/ op' = op /\ condConsumer' \in {condConsumer, condConsumer \cup {t}}
           \/ op' = [op EXCEPT ![t] = "idle"] /\ condConsumer' = condConsumer
        /\ UNCHANGED <<items, count>>
    BY <1>5 DEF Pop, Return, callVars
  <2>. QED
    BY <2>2, <2>3 DEF Placement, TypeOK
<1>6. ASSUME NEW t \in Threads,
             \/ Atomic(t)
             \/ CloseProducers(t) \/ CloseConsumers(t) \/ NotifyProducers(t)
      PROVE  Placement'
  <2>1. /\ op[t] \in {"idle", "CloseProducers", "CloseConsumers", "NotifyProducers"}
        /\ UNCHANGED <<items, count>>
        /\ \/ op' = op
           \/ op' = [op EXCEPT ![t] = "idle"]
           \/ op' = [op EXCEPT ![t] = "CloseProducers"]
           \/ op' = [op EXCEPT ![t] = "CloseConsumers"]
           \/ op' = [op EXCEPT ![t] = "NotifyProducers"]
    BY <1>6 DEF Atomic, TryPop, Clear, Close, Flush, NotifyAll, SetCapacity,
       CloseProducers, CloseConsumers, NotifyProducers, Return, callVars
  <2>2. \/ UNCHANGED <<condProducer, readyProducer>>
        \/ NotifyOneProducer \/ NotifyAllProducers
    BY <1>6 DEF Atomic, TryPop, Clear, Close, Flush, NotifyAll, SetCapacity,
       CloseProducers, CloseConsumers, NotifyProducers, producerVars
  <2>3. \/ UNCHANGED <<condConsumer, readyConsumer>>
        \/ NotifyOneConsumer \/ NotifyAllConsumers
    BY <1>6 DEF Atomic, TryPop, Clear, Close, Flush, NotifyAll, SetCapacity,
       CloseProducers, CloseConsumers, NotifyProducers, consumerVars
  <2>4. /\ condConsumer' \cup readyConsumer' \subseteq readyConsumer \cup condConsumer
        /\ condConsumer' \cap readyConsumer' \subseteq condConsumer \cap readyConsumer
    BY <2>3, NotifyConsumerType
  <2>5. /\ condProducer' \cup readyProducer' \subseteq readyProducer \cup condProducer
        /\ condProducer' \cap readyProducer' \subseteq condProducer \cap readyProducer
    BY <2>2, NotifyProducerType
  <2>6. t \notin condConsumer \cup readyConsumer \cup condProducer \cup readyProducer
    BY <2>1 DEF Placement
  <2>7. /\ \A u \in Threads \ {t} : op'[u] = op[u]
        /\ op'[t] \in {"idle", "CloseProducers", "CloseConsumers", "NotifyProducers"}
    BY <2>1 DEF TypeOK
  <2>. QED
    BY <2>1, <2>4, <2>5, <2>6, <2>7 DEF Placement, TypeOK
<1>7. ASSUME NEW t \in Threads, SpuriousWakeup(t) \/ Timeout(t) PROVE Placement'
  BY <1>7 DEF SpuriousWakeup, Timeout, Placement, TypeOK, consumerVars,
     producerVars, callVars
<1>. QED
  BY <1>1, <1>2, <1>3, <1>4, <1>5, <1>6, <1>7 DEF Next, Step

-----------------------------------------------------------------------------
(* Counting the threads on their way to the mutex. *)

\* Adding or removing one thread changes a set of threads by one.
LEMMA CountThreads ==
  ASSUME NEW S \in SUBSET Threads, NEW t \in Threads
  PROVE  /\ Cardinality(S) \in Nat
         /\ t \notin S => Cardinality(S \cup {t}) = Cardinality(S) + 1
         /\ t \in S => Cardinality(S \ {t}) = Cardinality(S) - 1
<1>1. IsFiniteSet(S)
  BY ThreadsAssumption, FS_Subset
<1>. QED
  BY <1>1, FS_CardinalityType, FS_AddElement, FS_RemoveElement

\* The length of the queue and what a consumer notification changes in the
\* count: one notify_one pays for one more item.
LEMMA NotifyOneConsumerCount ==
  ASSUME TypeOK, Placement, NoLostConsumerWakeup, NotifyOneConsumer,
         UNCHANGED isClose, Len(queue') <= Len(queue) + 1, Len(queue') \in Nat
  PROVE  NoLostConsumerWakeup'
<1>0. Len(queue) \in Nat
  BY LenProperties DEF TypeOK
<1>1. CASE condConsumer = {}
  BY <1>1 DEF NotifyOneConsumer, NoLostConsumerWakeup, consumerVars
<1>2. CASE condConsumer # {}
  <2>1. PICK w \in condConsumer : /\ condConsumer' = condConsumer \ {w}
                                  /\ readyConsumer' = readyConsumer \cup {w}
    BY <1>2 DEF NotifyOneConsumer
  <2>2. w \in Threads /\ w \notin readyConsumer /\ readyConsumer \in SUBSET Threads
    BY DEF TypeOK, Placement
  <2>3. /\ Cardinality(readyConsumer') = Cardinality(readyConsumer) + 1
        /\ Cardinality(readyConsumer) \in Nat
    BY <2>1, <2>2, CountThreads
  <2>. QED
    BY <1>0, <1>2, <2>3 DEF NoLostConsumerWakeup
<1>. QED
  BY <1>1, <1>2

\* The same for a slot and a producer notification.
LEMMA NotifyOneProducerCount ==
  ASSUME TypeOK, Placement, NoLostProducerWakeup, NotifyOneProducer,
         UNCHANGED <<isClose, capacity>>, Len(queue') >= Len(queue) - 1,
         Len(queue') \in Nat
  PROVE  NoLostProducerWakeup'
<1>0. Len(queue) \in Nat /\ capacity \in Nat
  BY LenProperties DEF TypeOK
<1>1. CASE condProducer = {}
  BY <1>1 DEF NotifyOneProducer, NoLostProducerWakeup, producerVars
<1>2. CASE condProducer # {}
  <2>1. PICK w \in condProducer : /\ condProducer' = condProducer \ {w}
                                  /\ readyProducer' = readyProducer \cup {w}
    BY <1>2 DEF NotifyOneProducer
  <2>2. w \in Threads /\ w \notin readyProducer /\ readyProducer \in SUBSET Threads
    BY DEF TypeOK, Placement
  <2>3. /\ Cardinality(readyProducer') = Cardinality(readyProducer) + 1
        /\ Cardinality(readyProducer) \in Nat
    BY <2>1, <2>2, CountThreads
  <2>. QED
    BY <1>0, <1>2, <2>3 DEF NoLostProducerWakeup
<1>. QED
  BY <1>1, <1>2

\* A wakeup that no push or pop caused only adds to the threads on their way.
LEMMA WakeupCount ==
  ASSUME TypeOK, NEW w \in Threads, NEW S \in SUBSET Threads
  PROVE  /\ Cardinality(S) \in Nat
         /\ Cardinality(S \cup {w}) \in Nat
         /\ Cardinality(S \cup {w}) >= Cardinality(S)
<1>1. Cardinality(S) \in Nat
  BY CountThreads
<1>2. CASE w \in S
  <2>1. S \cup {w} = S
    BY <1>2
  <2>. QED
    BY <1>1, <2>1
<1>3. CASE w \notin S
  <2>1. Cardinality(S \cup {w}) = Cardinality(S) + 1
    BY <1>3, CountThreads
  <2>. QED
    BY <1>1, <2>1
<1>. QED
  BY <1>2, <1>3

\* A push of one item: the queue grows by one and one consumer is notified.
LEMMA PushOneEffect ==
  ASSUME TypeOK, Placement, NEW t \in Threads,
         Push(t) \/ TryPush(t) \/ PushEach(t)
  PROVE  /\ UNCHANGED isClose
         /\ \/ UNCHANGED <<queue, condConsumer, readyConsumer>>
            \/ NotifyOneConsumer /\ Len(queue') = Len(queue) + 1
<1>1. ASSUME NEW s \in Seq(Item), Len(s) = 1, Accept(t, s)
      PROVE  Len(queue') = Len(queue) + 1
  <2>1. queue' = queue \o s /\ queue \in Seq(Item)
    BY <1>1 DEF TypeOK, Accept
  <2>2. Len(queue \o s) = Len(queue) + Len(s)
    BY <2>1, ConcatProperties
  <2>. QED
    BY <1>1, <2>1, <2>2
<1>2. items[t] \in Seq(Item)
  BY DEF TypeOK
<1>3. CASE Push(t) \/ TryPush(t)
  <2>1. Len(items[t]) = 1
    BY <1>3 DEF Push, TryPush, Placement
  <2>. QED
    BY <1>1, <1>2, <1>3, <2>1 DEF Push, TryPush, consumerVars
<1>4. CASE PushEach(t)
  <2>1. items[t] # <<>> => /\ <<Head(items[t])>> \in Seq(Item)
                           /\ Len(<<Head(items[t])>>) = 1
    BY <1>2, HeadTailProperties
  <2>. QED
    BY <1>1, <1>4, <2>1 DEF PushEach, consumerVars
<1>. QED
  BY <1>3, <1>4

\* A step of a consumer call that found its predicate true takes at least one
\* item of an open queue, when no call only looks.
LEMMA TakeEffect ==
  ASSUME TypeOK, Placement, TakersOnly, NEW t \in Threads, Pop(t), CanPop,
         ~isClose
  PROVE  Len(queue') \in Nat /\ Len(queue') <= Len(queue) - 1
<1>1. queue # <<>> /\ Len(queue) \in Nat /\ Len(queue) >= 1
  BY LenProperties, EmptySeq DEF TypeOK, CanPop
<1>2. t \in readyConsumer /\ op[t] \in Ops
  BY DEF Pop, Placement, TypeOK, Phases, ConsumerOps
<1>3. CASE PopOne(t)
  BY <1>1, <1>3, TakeType DEF PopOne
<1>4. CASE PeekFront(t)
  BY <1>2, <1>4 DEF PeekFront, TakersOnly
<1>5. CASE PopBatch(t)
  <2>. DEFINE n == IF count[t] < Len(queue) THEN count[t] ELSE Len(queue)
  <2>1. count[t] \in Nat /\ count[t] # 0
    BY <1>5, BoundsAssumption DEF PopBatch, Placement, TakersOnly
  <2>2. n \in 0 .. Len(queue) /\ n >= 1
    BY <1>1, <2>1
  <2>3. Take(n)
    BY <1>5 DEF PopBatch
  <2>. HIDE DEF n
  <2>. QED
    BY <1>1, <2>2, <2>3, TakeType
<1>. QED
  BY <1>3, <1>4, <1>5 DEF Pop

-----------------------------------------------------------------------------
(* Lost wakeups. *)

\* No step loses a consumer's wakeup, as long as every consumer call takes.
LEMMA ConsumerWakeupStep ==
  ASSUME TakersOnly
  PROVE  TypeOK /\ Placement /\ NoLostConsumerWakeup /\ [Next]_vars
           => NoLostConsumerWakeup'
<1>. SUFFICES ASSUME TypeOK, Placement, NoLostConsumerWakeup, [Next]_vars
              PROVE  NoLostConsumerWakeup'
  OBVIOUS
<1>0. /\ Len(queue) \in Nat
      /\ readyConsumer \in SUBSET Threads
      /\ TypeOK'
  BY LenProperties, TypeStep DEF TypeOK
<1>1. Len(queue') \in Nat
  BY <1>0, LenProperties DEF TypeOK
<1>2. CASE UNCHANGED <<queue, isClose, condConsumer, readyConsumer>>
  BY <1>2 DEF NoLostConsumerWakeup
<1>3. ASSUME NEW w \in Threads, readyConsumer' = readyConsumer \cup {w},
             condConsumer' \subseteq condConsumer, UNCHANGED <<queue, isClose>>
      PROVE  NoLostConsumerWakeup'
  <2>1. /\ Cardinality(readyConsumer) \in Nat
        /\ Cardinality(readyConsumer \cup {w}) \in Nat
        /\ Cardinality(readyConsumer \cup {w}) >= Cardinality(readyConsumer)
    BY <1>0, WakeupCount
  <2>. QED
    BY <1>0, <1>3, <2>1 DEF NoLostConsumerWakeup
<1>4. CASE condConsumer' = {} \/ isClose'
  BY <1>4 DEF NoLostConsumerWakeup
<1>5. ASSUME NEW t \in Threads, Issue(t) PROVE NoLostConsumerWakeup'
  BY <1>2, <1>3, <1>5 DEF Issue, IssuePush, IssuePop, consumerVars
<1>6. ASSUME NEW t \in Threads, Push(t) \/ TryPush(t) \/ PushEach(t)
      PROVE  NoLostConsumerWakeup'
  <2>1. /\ UNCHANGED isClose
        /\ \/ UNCHANGED <<queue, condConsumer, readyConsumer>>
           \/ NotifyOneConsumer /\ Len(queue') = Len(queue) + 1
    BY <1>6, PushOneEffect
  <2>. QED
    BY <1>0, <1>1, <1>2, <2>1, NotifyOneConsumerCount
<1>7. ASSUME NEW t \in Threads, PushBatch(t) PROVE NoLostConsumerWakeup'
  BY <1>2, <1>4, <1>7 DEF PushBatch, NotifyAllConsumers, consumerVars
<1>8. ASSUME NEW t \in Threads, Pop(t) PROVE NoLostConsumerWakeup'
  <2>1. CASE ~CanPop
    <3>1. queue' = <<>> /\ Len(queue') = 0
      BY <1>8, <2>1 DEF Pop, CanPop
    <3>2. Cardinality(readyConsumer') \in Nat
      BY <1>0, CountThreads, ThreadsAssumption DEF TypeOK
    <3>. QED
      BY <3>1, <3>2 DEF NoLostConsumerWakeup
  <2>2. CASE CanPop /\ ~isClose
    <3>1. /\ readyConsumer' = readyConsumer \ {t} /\ t \in readyConsumer
          /\ condConsumer' = condConsumer
          /\ UNCHANGED isClose
      BY <1>8, <2>2 DEF Pop
    <3>2. /\ Cardinality(readyConsumer') = Cardinality(readyConsumer) - 1
          /\ Cardinality(readyConsumer) \in Nat
      BY <1>0, <3>1, CountThreads
    <3>3. Len(queue') <= Len(queue) - 1
      BY <1>8, <2>2, TakeEffect
    <3>. QED
      BY <1>0, <1>1, <3>1, <3>2, <3>3 DEF NoLostConsumerWakeup
  <2>3. CASE isClose
    BY <1>4, <1>8, <2>3 DEF Pop
  <2>. QED
    BY <2>1, <2>2, <2>3
<1>9. ASSUME NEW t \in Threads, Atomic(t) PROVE NoLostConsumerWakeup'
  <2>1. CASE TryPop(t)
    <3>1. Len(queue) >= 1
      BY <1>0, <2>1, EmptySeq DEF TypeOK, TryPop
    <3>2. Len(queue') = Len(queue) - 1
      BY <1>0, <2>1, <3>1, TakeType DEF TryPop
    <3>3. UNCHANGED <<condConsumer, readyConsumer, isClose>>
      BY <2>1 DEF TryPop, consumerVars
    <3>4. Cardinality(readyConsumer) \in Nat
      BY <1>0, <2>1, CountThreads
    <3>. QED
      BY <1>0, <3>2, <3>3, <3>4 DEF NoLostConsumerWakeup
  <2>2. CASE Clear(t)
    <3>1. Len(queue') = 0 /\ UNCHANGED <<condConsumer, readyConsumer>>
      BY <2>2 DEF Clear, consumerVars
    <3>2. Cardinality(readyConsumer) \in Nat
      BY <1>0, <2>2, CountThreads
    <3>. QED
      BY <3>1, <3>2 DEF NoLostConsumerWakeup
  <2>3. CASE Close(t)
    BY <1>4, <2>3 DEF Close
  <2>4. CASE Flush(t)
    BY <1>0, <1>1, <2>4, NotifyOneConsumerCount DEF Flush
  <2>5. CASE NotifyAll(t)
    BY <1>4, <2>5 DEF NotifyAll, NotifyAllConsumers
  <2>6. ASSUME NEW c \in Capacities, SetCapacity(t, c) PROVE NoLostConsumerWakeup'
    BY <1>2, <2>6 DEF SetCapacity, consumerVars
  <2>. QED
    BY <1>9, <2>1, <2>2, <2>3, <2>4, <2>5, <2>6 DEF Atomic
<1>10. ASSUME NEW t \in Threads,
              CloseProducers(t) \/ CloseConsumers(t) \/ NotifyProducers(t)
       PROVE  NoLostConsumerWakeup'
  BY <1>2, <1>4, <1>10 DEF CloseProducers, CloseConsumers, NotifyProducers,
     NotifyAllConsumers, consumerVars
<1>11. ASSUME NEW t \in Threads, SpuriousWakeup(t) \/ Timeout(t)
       PROVE  NoLostConsumerWakeup'
  BY <1>2, <1>3, <1>11 DEF SpuriousWakeup, Timeout, consumerVars
<1>12. CASE UNCHANGED vars
  BY <1>2, <1>12 DEF vars
<1>. QED
  BY <1>5, <1>6, <1>7, <1>8, <1>9, <1>10, <1>11, <1>12 DEF Next, Step

\* No step loses a producer's wakeup.
LEMMA ProducerWakeupStep ==
  TypeOK /\ Placement /\ NoLostProducerWakeup /\ [Next]_vars
    => NoLostProducerWakeup'
<1>. SUFFICES ASSUME TypeOK, Placement, NoLostProducerWakeup, [Next]_vars
              PROVE  NoLostProducerWakeup'
  OBVIOUS
<1>0. /\ Len(queue) \in Nat /\ capacity \in Nat
      /\ readyProducer \in SUBSET Threads
      /\ TypeOK'
  BY LenProperties, TypeStep DEF TypeOK
<1>1. Len(queue') \in Nat /\ capacity' \in Nat
  BY <1>0, LenProperties DEF TypeOK
<1>2. ASSUME UNCHANGED <<capacity, isClose, condProducer, readyProducer>>,
             Len(queue') >= Len(queue), NEW t \in Threads
      PROVE  NoLostProducerWakeup'
  <2>1. Cardinality(readyProducer) \in Nat
    BY <1>0, CountThreads
  <2>. QED
    BY <1>0, <1>1, <1>2, <2>1 DEF NoLostProducerWakeup
<1>3. ASSUME NEW w \in Threads, readyProducer' = readyProducer \cup {w},
             condProducer' \subseteq condProducer,
             UNCHANGED <<queue, capacity, isClose>>
      PROVE  NoLostProducerWakeup'
  <2>1. /\ Cardinality(readyProducer) \in Nat
        /\ Cardinality(readyProducer \cup {w}) \in Nat
        /\ Cardinality(readyProducer \cup {w}) >= Cardinality(readyProducer)
    BY <1>0, WakeupCount
  <2>. QED
    BY <1>0, <1>3, <2>1 DEF NoLostProducerWakeup
<1>4. CASE condProducer' = {} \/ isClose'
  BY <1>4 DEF NoLostProducerWakeup
<1>5. ASSUME NEW t \in Threads, Issue(t) PROVE NoLostProducerWakeup'
  BY <1>0, <1>2, <1>3, <1>5 DEF Issue, IssuePush, IssuePop, producerVars
<1>6. ASSUME NEW t \in Threads, Push(t) PROVE NoLostProducerWakeup'
  <2>1. CASE ~CanPush
    <3>1. /\ UNCHANGED <<queue, capacity>>
          /\ Len(queue) >= capacity
      BY <1>0, <1>6, <2>1 DEF Push, CanPush, Full
    <3>2. Cardinality(readyProducer') \in Nat
      BY <1>0, CountThreads, <1>6 DEF TypeOK
    <3>. QED
      BY <1>0, <3>1, <3>2 DEF NoLostProducerWakeup
  <2>2. CASE CanPush /\ ~isClose
    <3>1. /\ readyProducer' = readyProducer \ {t} /\ t \in readyProducer
          /\ UNCHANGED <<condProducer, isClose, capacity>>
          /\ Accept(t, items[t])
      BY <1>6, <2>2 DEF Push
    <3>2. /\ Cardinality(readyProducer') = Cardinality(readyProducer) - 1
          /\ Cardinality(readyProducer) \in Nat
      BY <1>0, <3>1, CountThreads
    <3>3. Len(queue') = Len(queue) + 1
      <4>1. items[t] \in Seq(Item) /\ Len(items[t]) = 1 /\ queue \in Seq(Item)
        BY <3>1 DEF TypeOK, Placement
      <4>2. queue' = queue \o items[t]
        BY <3>1 DEF Accept
      <4>3. Len(queue \o items[t]) = Len(queue) + Len(items[t])
        BY <4>1, ConcatProperties
      <4>. QED
        BY <4>1, <4>2, <4>3
    <3>. QED
      BY <1>0, <3>1, <3>2, <3>3 DEF NoLostProducerWakeup
  <2>3. CASE isClose
    BY <1>4, <1>6, <2>3 DEF Push
  <2>. QED
    BY <2>1, <2>2, <2>3
<1>7. ASSUME NEW t \in Threads, TryPush(t) \/ PushBatch(t) \/ PushEach(t)
      PROVE  NoLostProducerWakeup'
  <2>1. /\ UNCHANGED <<capacity, isClose, condProducer, readyProducer>>
        /\ \/ UNCHANGED queue
           \/ Accept(t, items[t])
           \/ items[t] # <<>> /\ Accept(t, <<Head(items[t])>>)
    BY <1>7 DEF TryPush, PushBatch, PushEach, producerVars
  <2>2. ASSUME NEW s \in Seq(Item), Accept(t, s) PROVE Len(queue') >= Len(queue)
    <3>1. queue' = queue \o s /\ queue \in Seq(Item)
      BY <2>2 DEF Accept, TypeOK
    <3>2. Len(queue \o s) = Len(queue) + Len(s) /\ Len(s) \in Nat
      BY <3>1, ConcatProperties, LenProperties
    <3>. QED
      BY <1>0, <3>1, <3>2
  <2>3. /\ items[t] \in Seq(Item)
        /\ items[t] # <<>> => <<Head(items[t])>> \in Seq(Item)
    BY HeadTailProperties DEF TypeOK
  <2>4. Len(queue') >= Len(queue)
    <3>1. CASE UNCHANGED queue
      BY <1>0, <3>1
    <3>2. CASE Accept(t, items[t])
      BY <2>2, <2>3, <3>2
    <3>3. CASE items[t] # <<>> /\ Accept(t, <<Head(items[t])>>)
      BY <2>2, <2>3, <3>3
    <3>. QED
      BY <2>1, <3>1, <3>2, <3>3
  <2>. QED
    BY <1>2, <2>1, <2>4
<1>8. ASSUME NEW t \in Threads, Pop(t) PROVE NoLostProducerWakeup'
  <2>0. UNCHANGED <<capacity, isClose>>
    BY <1>8 DEF Pop
  <2>1. CASE UNCHANGED <<queue, condProducer, readyProducer>>
    BY <1>0, <1>2, <2>0, <2>1
  <2>2. CASE NotifyAllProducers
    BY <1>4, <2>2 DEF NotifyAllProducers
  <2>3. CASE queue # <<>> /\ Take(1) /\ NotifyOneProducer
    <3>1. Len(queue) >= 1
      BY <1>0, <2>3, EmptySeq DEF TypeOK
    <3>2. Len(queue') = Len(queue) - 1
      BY <1>0, <2>3, <3>1, TakeType
    <3>. QED
      BY <1>0, <1>1, <2>0, <2>3, <3>2, NotifyOneProducerCount
  <2>4. CASE Take(0) /\ UNCHANGED producerVars
    <3>1. Len(queue') = Len(queue)
      BY <1>0, <2>4, TakeType
    <3>. QED
      BY <1>0, <1>2, <2>0, <2>4, <3>1 DEF producerVars
  <2>5. PopBatch(t) =>
          NotifyAllProducers \/ (Take(0) /\ UNCHANGED producerVars)
    <3>1. count[t] \in Nat
      BY DEF TypeOK
    <3>. QED
      BY <1>0, <3>1 DEF PopBatch
  <2>. QED
    BY <1>8, <2>1, <2>2, <2>3, <2>4, <2>5
       DEF Pop, PopOne, PeekFront, producerVars
<1>9. ASSUME NEW t \in Threads, Atomic(t) PROVE NoLostProducerWakeup'
  <2>1. CASE TryPop(t)
    <3>1. Len(queue) >= 1
      BY <1>0, <2>1, EmptySeq DEF TypeOK, TryPop
    <3>2. Len(queue') = Len(queue) - 1
      BY <1>0, <2>1, <3>1, TakeType DEF TryPop
    <3>. QED
      BY <1>0, <1>1, <2>1, <3>2, NotifyOneProducerCount DEF TryPop
  <2>2. CASE Clear(t)
    BY <1>4, <2>2 DEF Clear, NotifyAllProducers
  <2>3. CASE Close(t)
    BY <1>4, <2>3 DEF Close
  <2>4. CASE Flush(t) \/ NotifyAll(t)
    BY <1>0, <1>2, <2>4 DEF Flush, NotifyAll, producerVars
  <2>5. ASSUME NEW c \in Capacities, SetCapacity(t, c) PROVE NoLostProducerWakeup'
    <3>1. CASE Len(queue) < c
      BY <1>4, <2>5, <3>1 DEF SetCapacity, NotifyAllProducers
    <3>2. CASE ~(Len(queue) < c)
      <4>1. c \in Nat /\ UNCHANGED <<queue, readyProducer>> /\ capacity' = c
        BY <2>5, <3>2, BoundsAssumption DEF SetCapacity, producerVars
      <4>2. Cardinality(readyProducer) \in Nat
        BY <1>0, CountThreads
      <4>. QED
        BY <1>0, <3>2, <4>1, <4>2 DEF NoLostProducerWakeup
    <3>. QED
      BY <3>1, <3>2
  <2>. QED
    BY <1>9, <2>1, <2>2, <2>3, <2>4, <2>5 DEF Atomic
<1>10. ASSUME NEW t \in Threads,
              CloseProducers(t) \/ CloseConsumers(t) \/ NotifyProducers(t)
       PROVE  NoLostProducerWakeup'
  BY <1>0, <1>2, <1>4, <1>10 DEF CloseProducers, CloseConsumers, NotifyProducers,
     NotifyAllProducers, producerVars
<1>11. ASSUME NEW t \in Threads, SpuriousWakeup(t) \/ Timeout(t)
       PROVE  NoLostProducerWakeup'
  BY <1>0, <1>2, <1>3, <1>11 DEF SpuriousWakeup, Timeout, producerVars
<1>12. CASE UNCHANGED vars
  BY <1>12 DEF vars, NoLostProducerWakeup
<1>. QED
  BY <1>5, <1>6, <1>7, <1>8, <1>9, <1>10, <1>11, <1>12 DEF Next, Step

\* No step leaves a sleeper on a closed queue that no closing thread is about
\* to notify.
LEMMA ClosedStep ==
  TypeOK /\ Placement /\ ClosedWakesSleepers /\ [Next]_vars
    => ClosedWakesSleepers'
<1>. SUFFICES ASSUME TypeOK, Placement, ClosedWakesSleepers, [Next]_vars
              PROVE  ClosedWakesSleepers'
  OBVIOUS
<1>1. ASSUME condConsumer' \subseteq condConsumer, condProducer' \subseteq condProducer,
             isClose' = isClose, NEW t \in Threads,
             op[t] \notin {"CloseProducers", "CloseConsumers"},
             \A u \in Threads \ {t} : op'[u] = op[u]
      PROVE  ClosedWakesSleepers'
  BY <1>1 DEF ClosedWakesSleepers
<1>2. CASE UNCHANGED vars
  BY <1>2 DEF vars, ClosedWakesSleepers
<1>3. ASSUME NEW t \in Threads, Issue(t) PROVE ClosedWakesSleepers'
  BY <1>1, <1>3 DEF Issue, IssuePush, IssuePop, TypeOK, consumerVars, producerVars
<1>4. ASSUME NEW t \in Threads, Push(t) PROVE ClosedWakesSleepers'
  <2>1. CASE ~CanPush
    BY <1>4, <2>1 DEF Push, CanPush, ClosedWakesSleepers
  <2>2. CASE CanPush
    <3>1. /\ condProducer' = condProducer
          /\ UNCHANGED isClose
          /\ op' = [op EXCEPT ![t] = "idle"]
          /\ UNCHANGED condConsumer \/ NotifyOneConsumer
      BY <1>4, <2>2 DEF Push, Return, consumerVars
    <3>2. op[t] \in ProducerOps
      BY <1>4 DEF Push, Placement
    <3>. QED
      BY <1>1, <3>1, <3>2, NotifyConsumerType DEF TypeOK, ProducerOps
  <2>. QED
    BY <2>1, <2>2
<1>5. ASSUME NEW t \in Threads, TryPush(t) \/ PushBatch(t) \/ PushEach(t)
      PROVE  ClosedWakesSleepers'
  <2>1. /\ op[t] \in {"TryPush", "PushBatch", "PushEach"}
        /\ UNCHANGED <<condProducer, isClose>>
        /\ UNCHANGED condConsumer \/ NotifyOneConsumer \/ NotifyAllConsumers
        /\ \A u \in Threads \ {t} : op'[u] = op[u]
    BY <1>5 DEF TryPush, PushBatch, PushEach, Return, TypeOK, consumerVars,
       producerVars
  <2>. QED
    BY <1>1, <2>1, NotifyConsumerType
<1>6. ASSUME NEW t \in Threads, Pop(t) PROVE ClosedWakesSleepers'
  <2>1. CASE ~CanPop
    BY <1>6, <2>1 DEF Pop, CanPop, ClosedWakesSleepers
  <2>2. CASE CanPop
    <3>1. /\ condConsumer' = condConsumer
          /\ UNCHANGED isClose
          /\ op' = [op EXCEPT ![t] = "idle"]
          /\ UNCHANGED condProducer \/ NotifyOneProducer \/ NotifyAllProducers
      BY <1>6, <2>2 DEF Pop, PopOne, PeekFront, PopBatch, Return, producerVars
    <3>2. op[t] \in ConsumerOps
      BY <1>6 DEF Pop, Placement
    <3>. QED
      BY <1>1, <3>1, <3>2, NotifyProducerType DEF TypeOK, ConsumerOps
  <2>. QED
    BY <2>1, <2>2
<1>7. ASSUME NEW t \in Threads, Atomic(t) PROVE ClosedWakesSleepers'
  <2>1. CASE Close(t)
    <3>1. op'[t] = "CloseProducers"
      BY <2>1 DEF Close, TypeOK
    <3>. QED
      BY <3>1 DEF ClosedWakesSleepers
  <2>2. CASE TryPop(t) \/ Clear(t) \/ Flush(t) \/ NotifyAll(t)
             \/ \E c \in Capacities : SetCapacity(t, c)
    <3>1. /\ op[t] = "idle" /\ UNCHANGED isClose
          /\ UNCHANGED condConsumer \/ NotifyOneConsumer \/ NotifyAllConsumers
          /\ UNCHANGED condProducer \/ NotifyOneProducer \/ NotifyAllProducers
          /\ \A u \in Threads \ {t} : op'[u] = op[u]
      BY <2>2 DEF TryPop, Clear, Flush, NotifyAll, SetCapacity, TypeOK,
         consumerVars, producerVars
    <3>. QED
      BY <1>1, <3>1, NotifyConsumerType, NotifyProducerType
  <2>. QED
    BY <1>7, <2>1, <2>2 DEF Atomic
<1>8. ASSUME NEW t \in Threads, CloseProducers(t) PROVE ClosedWakesSleepers'
  <2>1. condProducer' = {} /\ op'[t] = "CloseConsumers"
    BY <1>8 DEF CloseProducers, NotifyAllProducers, TypeOK
  <2>. QED
    BY <2>1 DEF ClosedWakesSleepers
<1>9. ASSUME NEW t \in Threads, CloseConsumers(t) PROVE ClosedWakesSleepers'
  <2>1. /\ condConsumer' = {} /\ UNCHANGED <<condProducer, isClose>>
        /\ op[t] = "CloseConsumers"
        /\ \A u \in Threads \ {t} : op'[u] = op[u]
    BY <1>9 DEF CloseConsumers, NotifyAllConsumers, Return, TypeOK, producerVars
  <2>. QED
    BY <2>1 DEF ClosedWakesSleepers
<1>10. ASSUME NEW t \in Threads, NotifyProducers(t) PROVE ClosedWakesSleepers'
  BY <1>1, <1>10 DEF NotifyProducers, NotifyAllProducers, Return, TypeOK, consumerVars
<1>11. ASSUME NEW t \in Threads, SpuriousWakeup(t) \/ Timeout(t)
       PROVE  ClosedWakesSleepers'
  BY <1>11 DEF SpuriousWakeup, Timeout, ClosedWakesSleepers, consumerVars, producerVars
<1>. QED
  BY <1>2, <1>3, <1>4, <1>5, <1>6, <1>7, <1>8, <1>9, <1>10, <1>11 DEF Next, Step

\* The threads are where Placement says they are.
LEMMA PlacementInvariant == Spec => [](TypeOK /\ Placement)
<1>1. Init => Placement
  BY DEF Init, Placement, ProducerOps
<1>. QED
  BY <1>1, TypeCorrect, TypeStep, PlacementStep, PTL DEF Spec

\* With consumers that take (no Peek, no batch Pop of zero items), a consumer
\* never sleeps on an open queue with more items than consumers on their way
\* to the mutex: for any number of threads, batch sizes and capacities.
THEOREM ConsumerWakeupNotLost ==
  ASSUME TakersOnly
  PROVE  Spec => []NoLostConsumerWakeup
<1>1. Init => NoLostConsumerWakeup
  BY DEF Init, NoLostConsumerWakeup
<1>2. TypeOK /\ Placement /\ NoLostConsumerWakeup /\ [Next]_vars
        => NoLostConsumerWakeup'
  BY ConsumerWakeupStep
<1>. QED
  BY <1>1, <1>2, PlacementInvariant, PTL DEF Spec

\* Whatever the clients call, a producer never sleeps on an open queue with
\* more free slots than producers on their way to the mutex.
THEOREM ProducerWakeupNotLost == Spec => []NoLostProducerWakeup
<1>1. Init => NoLostProducerWakeup
  BY DEF Init, NoLostProducerWakeup
<1>. QED
  BY <1>1, ProducerWakeupStep, PlacementInvariant, PTL DEF Spec

\* On a closed queue nobody is asleep once Close has notified, although Close
\* notifies after it has released the mutex.
THEOREM CloseWakesEveryone == Spec => []ClosedWakesSleepers
<1>1. Init => ClosedWakesSleepers
  BY DEF Init, ClosedWakesSleepers
<1>. QED
  BY <1>1, ClosedStep, PlacementInvariant, PTL DEF Spec

-----------------------------------------------------------------------------
(* BlockQueue implements BoundedChannel. *)

\* The channel's view of _queue.push: what was added is what was pushed.
LEMMA AddedItems ==
  ASSUME NEW q \in Seq(Item), NEW s \in Seq(Item)
  PROVE  SubSeq(q \o s, Len(q) + 1, Len(q \o s)) = s
<1>. DEFINE r == SubSeq(q \o s, Len(q) + 1, Len(q \o s))
<1>1. /\ q \o s \in Seq(Item)
      /\ Len(q \o s) = Len(q) + Len(s)
      /\ Len(q) \in Nat /\ Len(s) \in Nat
      /\ \A i \in 1 .. Len(q) + Len(s) :
           (q \o s)[i] = IF i <= Len(q) THEN q[i] ELSE s[i - Len(q)]
  BY ConcatProperties, LenProperties
<1>2. /\ r \in Seq(Item)
      /\ Len(r) = Len(s)
      /\ \A i \in 1 .. Len(s) : r[i] = (q \o s)[Len(q) + i]
  BY <1>1, SubSeqProperties
<1>3. \A i \in 1 .. Len(s) : r[i] = s[i]
  BY <1>1, <1>2
<1>. HIDE DEF r
<1>4. r = s
  BY <1>2, <1>3, SeqEqual
<1>. QED
  BY <1>4 DEF r

\* Items accepted within the capacity of an open queue are a send.
LEMMA AcceptIsSend ==
  ASSUME TypeOK, NEW t \in Threads, NEW s \in Seq(Item), Accept(t, s), ~isClose,
         Len(queue) + Len(s) <= capacity, UNCHANGED <<capacity, isClose>>
  PROVE  Channel!ChanNext
<1>1. queue \in Seq(Item) /\ queue' = queue \o s
  BY DEF TypeOK, Accept
<1>2. SubSeq(queue', Len(queue) + 1, Len(queue')) = s
  BY <1>1, AddedItems
<1>3. Channel!Added = s
  BY <1>2 DEF Channel!Added
<1>. QED
  BY <1>1, <1>3 DEF Channel!ChanNext, Channel!Send

\* Items taken are a receive, or nothing if none are taken.
LEMMA TakeIsReceive ==
  ASSUME TypeOK, NEW n \in 0 .. Len(queue), Take(n), UNCHANGED <<capacity, isClose>>
  PROVE  Channel!ChanNext \/ UNCHANGED queue
<1>1. queue \in Seq(Item) /\ Len(queue) \in Nat
  BY LenProperties DEF TypeOK
<1>2. CASE n = 0
  <2>. DEFINE r == SubSeq(queue, 1, Len(queue))
  <2>1. /\ r \in Seq(Item) /\ Len(r) = Len(queue)
        /\ \A i \in 1 .. Len(queue) : r[i] = queue[i]
    BY <1>1, SubSeqProperties
  <2>. HIDE DEF r
  <2>2. r = queue
    BY <1>1, <2>1, SeqEqual
  <2>. QED
    BY <1>2, <2>2 DEF Take, r
<1>3. CASE n # 0
  <2>1. n \in 1 .. Len(queue)
    BY <1>1, <1>3
  <2>2. Channel!Receive(n)
    BY DEF Take, Channel!Receive
  <2>. QED
    BY <2>1, <2>2 DEF Channel!ChanNext
<1>. QED
  BY <1>2, <1>3

\* Every step of the queue is a step of the channel or leaves it alone.
LEMMA ChannelStep ==
  TypeOK /\ Placement /\ [Next]_vars => [Channel!ChanNext]_(Channel!chanVars)
<1>. SUFFICES ASSUME TypeOK, Placement, [Next]_vars
              PROVE  Channel!ChanNext \/ UNCHANGED <<queue, capacity, isClose>>
  BY DEF Channel!chanVars
<1>0. Len(queue) \in Nat /\ capacity \in Nat /\ queue \in Seq(Item)
  BY LenProperties DEF TypeOK
<1>1. ASSUME NEW t \in Threads, Push(t) \/ TryPush(t)
      PROVE  Channel!ChanNext \/ UNCHANGED <<queue, capacity, isClose>>
  <2>1. Len(items[t]) = 1 /\ items[t] \in Seq(Item)
    BY <1>1 DEF Push, TryPush, Placement, TypeOK
  <2>2. /\ UNCHANGED <<capacity, isClose>>
        /\ \/ UNCHANGED queue
           \/ ~isClose /\ Len(queue) < capacity /\ Accept(t, items[t])
    BY <1>0, <1>1 DEF Push, TryPush, CanPush, Full
  <2>3. CASE ~isClose /\ Len(queue) < capacity /\ Accept(t, items[t])
    <3>1. Len(queue) + Len(items[t]) <= capacity
      BY <1>0, <2>1, <2>3
    <3>. QED
      BY <2>1, <2>2, <2>3, <3>1, AcceptIsSend
  <2>. QED
    BY <2>2, <2>3
<1>2. ASSUME NEW t \in Threads, PushBatch(t)
      PROVE  Channel!ChanNext \/ UNCHANGED <<queue, capacity, isClose>>
  <2>1. items[t] \in Seq(Item)
    BY DEF TypeOK
  <2>. QED
    BY <1>2, <2>1, AcceptIsSend DEF PushBatch
<1>3. ASSUME NEW t \in Threads, PushEach(t)
      PROVE  Channel!ChanNext \/ UNCHANGED <<queue, capacity, isClose>>
  <2>1. /\ UNCHANGED <<capacity, isClose>>
        /\ \/ UNCHANGED queue
           \/ /\ items[t] # <<>> /\ ~isClose /\ Len(queue) < capacity
              /\ Accept(t, <<Head(items[t])>>)
    BY <1>0, <1>3 DEF PushEach, Full
  <2>2. CASE /\ items[t] # <<>> /\ ~isClose /\ Len(queue) < capacity
             /\ Accept(t, <<Head(items[t])>>)
    <3>1. <<Head(items[t])>> \in Seq(Item) /\ Len(<<Head(items[t])>>) = 1
      BY <2>2, HeadTailProperties DEF TypeOK
    <3>2. Len(queue) + Len(<<Head(items[t])>>) <= capacity
      BY <1>0, <2>2, <3>1
    <3>. QED
      BY <2>1, <2>2, <3>1, <3>2, AcceptIsSend
  <2>. QED
    BY <2>1, <2>2
<1>4. ASSUME NEW t \in Threads, Pop(t)
      PROVE  Channel!ChanNext \/ UNCHANGED <<queue, capacity, isClose>>
  <2>0. UNCHANGED <<capacity, isClose>>
    BY <1>4 DEF Pop
  <2>1. UNCHANGED queue \/ \E n \in 0 .. Len(queue) : Take(n)
    <3>1. CASE PopOne(t)
      <4>1. queue # <<>> => Len(queue) >= 1
        BY <1>0, EmptySeq
      <4>. QED
        BY <1>0, <3>1, <4>1 DEF PopOne
    <3>2. CASE PeekFront(t)
      BY <3>2 DEF PeekFront
    <3>3. CASE PopBatch(t)
      <4>. DEFINE n == IF count[t] < Len(queue) THEN count[t] ELSE Len(queue)
      <4>1. n \in 0 .. Len(queue)
        BY <1>0 DEF TypeOK
      <4>2. Take(n)
        BY <3>3 DEF PopBatch
      <4>. QED
        BY <4>1, <4>2
    <3>. QED
      BY <1>4, <3>1, <3>2, <3>3 DEF Pop
  <2>. QED
    BY <2>0, <2>1, TakeIsReceive
<1>5. ASSUME NEW t \in Threads, Atomic(t)
      PROVE  Channel!ChanNext \/ UNCHANGED <<queue, capacity, isClose>>
  <2>1. CASE TryPop(t)
    <3>1. 1 \in 0 .. Len(queue)
      BY <1>0, <2>1, EmptySeq DEF TryPop
    <3>. QED
      BY <2>1, <3>1, TakeIsReceive DEF TryPop
  <2>2. CASE Clear(t)
    BY <2>2 DEF Clear, Channel!ChanNext, Channel!Discard
  <2>3. CASE Close(t)
    BY <2>3 DEF Close, Channel!ChanNext, Channel!Shut
  <2>4. CASE Flush(t) \/ NotifyAll(t)
    BY <2>4 DEF Flush, NotifyAll
  <2>5. ASSUME NEW c \in Capacities, SetCapacity(t, c)
        PROVE  Channel!ChanNext
    BY <2>5, BoundsAssumption DEF SetCapacity, Channel!ChanNext, Channel!Resize
  <2>. QED
    BY <1>5, <2>1, <2>2, <2>3, <2>4, <2>5 DEF Atomic
<1>6. ASSUME NEW t \in Threads,
             \/ Issue(t) \/ SpuriousWakeup(t) \/ Timeout(t)
             \/ CloseProducers(t) \/ CloseConsumers(t) \/ NotifyProducers(t)
      PROVE  UNCHANGED <<queue, capacity, isClose>>
  BY <1>6 DEF Issue, IssuePush, IssuePop, SpuriousWakeup, Timeout, CloseProducers,
     CloseConsumers, NotifyProducers
<1>7. CASE UNCHANGED vars
  BY <1>7 DEF vars
<1>. QED
  BY <1>1, <1>2, <1>3, <1>4, <1>5, <1>6, <1>7 DEF Next, Step

\* The queue with its threads, lock and condition variables implements the
\* bounded FIFO channel: nothing accepted after Close or above the capacity in
\* force, oldest items out first.
THEOREM QueueImplementsChannel == Spec => ImplementsChannel
<1>1. Init => Channel!ChanInit
  BY BoundsAssumption DEF Init, Channel!ChanInit
<1>. QED
  BY <1>1, ChannelStep, PlacementInvariant, PTL
     DEF Spec, ImplementsChannel, Channel!ChanSpec

-----------------------------------------------------------------------------
(* Batches. *)

\* Calls that push, before their first item is in.
PushOps == ProducerOps \cup {"TryPush", "PushBatch"}

\* How many items of its current push call have been accepted from t.
Accepted(t) == IF lastIn[t].call = issued[t] THEN lastIn[t].idx ELSE 0

\* What a thread has still to put in follows what was accepted of the call.
BatchInv ==
  \A t \in Threads :
    /\ lastIn[t].call <= issued[t]
    /\ op[t] \in PushOps => lastIn[t].call < issued[t]
    /\ op[t] \in PushOps \cup {"PushEach"} =>
         \A i \in 1 .. Len(items[t]) :
           items[t][i] = [by |-> t, call |-> issued[t], idx |-> Accepted(t) + i]

\* One step's part of BatchIsPrefix.
PrefixStep ==
  \A t \in Threads :
    LET a == lastIn[t]  b == lastIn'[t]
        n == Len(queue') - Len(queue) IN
    b # a => \/ b.call > a.call /\ b.idx = n
             \/ b.call = a.call /\ b.idx = a.idx + n

\* A step that accepts nothing and leaves the call of each thread as it is, or
\* ends it, keeps the order of what is still to come.
LEMMA NothingAccepted ==
  ASSUME TypeOK, BatchInv, UNCHANGED <<lastIn, issued, items>>,
         \A t \in Threads : op'[t] \in PushOps => op[t] \in PushOps,
         \A t \in Threads : op'[t] = "PushEach" => op[t] \in PushOps \cup {"PushEach"}
  PROVE  BatchInv' /\ PrefixStep
<1>1. BatchInv'
  BY DEF BatchInv, Accepted, PushOps
<1>. QED
  BY <1>1 DEF PrefixStep

\* Accepting all items of a call and returning.
LEMMA AllAccepted ==
  ASSUME TypeOK, BatchInv, NEW t \in Threads, op[t] \in PushOps,
         Accept(t, items[t]), Return(t), UNCHANGED <<issued, items>>
  PROVE  BatchInv' /\ PrefixStep
<1>. DEFINE s == items[t]
<1>0. /\ s \in Seq(Item) /\ Len(s) \in Nat /\ queue \in Seq(Item)
      /\ Len(queue) \in Nat /\ Len(queue') = Len(queue) + Len(s)
      /\ op' = [op EXCEPT ![t] = "idle"] /\ op \in [Threads -> Ops \cup Phases]
      /\ lastIn \in [Threads -> Item] /\ issued \in [Threads -> Nat]
  BY LenProperties, ConcatProperties DEF TypeOK, Accept, Return
<1>1. "idle" \notin PushOps \cup {"PushEach"}
  BY DEF PushOps, ProducerOps
<1>2. CASE s = <<>>
  <2>1. lastIn' = lastIn
    BY <1>2 DEF Accept
  <2>2. \A u \in Threads : op'[u] = op[u] \/ op'[u] = "idle"
    BY <1>0
  <2>. QED
    BY <1>1, <2>1, <2>2, NothingAccepted
<1>3. CASE s # <<>>
  <2>1. lastIn' = [lastIn EXCEPT ![t] = s[Len(s)]]
    BY <1>3 DEF Accept
  <2>2. Len(s) \in 1 .. Len(s)
    BY <1>0, <1>3, EmptySeq
  <2>3. lastIn[t].call < issued[t] /\ lastIn[t].call \in Nat /\ issued[t] \in Nat
    BY <1>0 DEF BatchInv, Item
  <2>4. Accepted(t) = 0
    BY <2>3 DEF Accepted
  <2>5. s[Len(s)] = [by |-> t, call |-> issued[t], idx |-> 0 + Len(s)]
    BY <2>2, <2>4 DEF BatchInv
  <2>6. lastIn'[t].call = issued[t] /\ lastIn'[t].idx = Len(s)
    BY <1>0, <2>1, <2>5
  <2>7. \A u \in Threads : u # t => lastIn'[u] = lastIn[u] /\ op'[u] = op[u]
    BY <1>0, <2>1
  <2>8. op'[t] = "idle"
    BY <1>0
  <2>9. ASSUME NEW u \in Threads
        PROVE  /\ lastIn'[u].call <= issued'[u]
               /\ op'[u] \in PushOps => lastIn'[u].call < issued'[u]
               /\ op'[u] \in PushOps \cup {"PushEach"} =>
                    \A i \in 1 .. Len(items'[u]) :
                      items'[u][i] =
                        [by |-> u, call |-> issued'[u],
                         idx |-> (IF lastIn'[u].call = issued'[u]
                                    THEN lastIn'[u].idx ELSE 0) + i]
    <3>1. CASE u = t
      BY <1>1, <2>3, <2>6, <2>8, <3>1
    <3>2. CASE u # t
      BY <2>7, <3>2 DEF BatchInv, Accepted
    <3>. QED
      BY <3>1, <3>2
  <2>10. BatchInv'
    BY <2>9 DEF BatchInv, Accepted
  <2>11. Len(queue') - Len(queue) = Len(s)
    BY <1>0
  <2>12. PrefixStep
    BY <2>3, <2>6, <2>7, <2>11 DEF PrefixStep
  <2>. QED
    BY <2>10, <2>12
<1>. QED
  BY <1>2, <1>3

\* Accepting the first of the items that are left.
LEMMA OneAccepted ==
  ASSUME TypeOK, BatchInv, NEW t \in Threads, op[t] = "PushEach", items[t] # <<>>,
         Accept(t, <<Head(items[t])>>), items' = [items EXCEPT ![t] = Tail(@)],
         UNCHANGED <<op, issued>>
  PROVE  BatchInv' /\ PrefixStep
<1>. DEFINE s == items[t]
            h == Head(s)
            m == Accepted(t)
<1>0. /\ s \in Seq(Item) /\ queue \in Seq(Item) /\ Len(queue) \in Nat
      /\ lastIn \in [Threads -> Item] /\ issued \in [Threads -> Nat]
      /\ items \in [Threads -> Seq(Item)] /\ m \in Nat
      /\ lastIn[t].call \in Nat /\ lastIn[t].idx \in Nat /\ issued[t] \in Nat
      /\ lastIn[t].call <= issued[t]
  BY LenProperties DEF TypeOK, Accepted, Item, BatchInv
<1>1. /\ Len(s) \in Nat /\ Len(s) >= 1 /\ h = s[1] /\ h \in Item
      /\ Len(Tail(s)) = Len(s) - 1
      /\ \A i \in 1 .. Len(s) - 1 : Tail(s)[i] = s[i + 1]
  BY <1>0, LenProperties, EmptySeq, HeadTailProperties
<1>2. \A i \in 1 .. Len(s) : s[i] = [by |-> t, call |-> issued[t], idx |-> m + i]
  BY DEF BatchInv
<1>3. h = [by |-> t, call |-> issued[t], idx |-> m + 1]
  BY <1>1, <1>2
<1>4. lastIn' = [lastIn EXCEPT ![t] = h] /\ Len(queue') = Len(queue) + 1
  <2>1. <<h>> \in Seq(Item) /\ Len(<<h>>) = 1 /\ <<h>> # <<>> /\ <<h>>[1] = h
    BY <1>1
  <2>. QED
    BY <1>0, <2>1, ConcatProperties DEF Accept
<1>. HIDE DEF h, m
<1>5. lastIn'[t].call = issued[t] /\ lastIn'[t].idx = m + 1
  BY <1>0, <1>3, <1>4
<1>6. \A u \in Threads : u # t => lastIn'[u] = lastIn[u] /\ items'[u] = items[u]
  BY <1>0, <1>4
<1>7. items'[t] = Tail(s)
  BY <1>0
<1>8. ASSUME NEW u \in Threads
      PROVE  /\ lastIn'[u].call <= issued'[u]
             /\ op'[u] \in PushOps => lastIn'[u].call < issued'[u]
             /\ op'[u] \in PushOps \cup {"PushEach"} =>
                  \A i \in 1 .. Len(items'[u]) :
                    items'[u][i] =
                      [by |-> u, call |-> issued'[u],
                       idx |-> (IF lastIn'[u].call = issued'[u]
                                  THEN lastIn'[u].idx ELSE 0) + i]
  <2>1. CASE u = t
    <3>1. op'[t] = "PushEach" /\ op'[t] \notin PushOps
      BY DEF PushOps, ProducerOps
    <3>2. ASSUME NEW i \in 1 .. Len(items'[t])
          PROVE  items'[t][i] = [by |-> t, call |-> issued[t], idx |-> (m + 1) + i]
      <4>1. i \in 1 .. Len(s) - 1 /\ i + 1 \in 1 .. Len(s) /\ m + (i + 1) = (m + 1) + i
        BY <1>0, <1>1, <1>7
      <4>2. items'[t][i] = s[i + 1]
        BY <1>1, <1>7, <4>1
      <4>3. s[i + 1] = [by |-> t, call |-> issued[t], idx |-> m + (i + 1)]
        BY <1>2, <4>1
      <4>. QED
        BY <4>1, <4>2, <4>3
    <3>. QED
      BY <1>0, <1>5, <2>1, <3>1, <3>2
  <2>2. CASE u # t
    BY <1>6, <2>2 DEF BatchInv, Accepted
  <2>. QED
    BY <2>1, <2>2
<1>9. BatchInv'
  BY <1>8 DEF BatchInv, Accepted
<1>10. Len(queue') - Len(queue) = 1
  BY <1>0, <1>4
<1>11. PrefixStep
  <2>1. \/ lastIn'[t].call > lastIn[t].call /\ lastIn'[t].idx = 1
        \/ lastIn'[t].call = lastIn[t].call /\ lastIn'[t].idx = lastIn[t].idx + 1
    BY <1>0, <1>5 DEF Accepted, m
  <2>. QED
    BY <1>6, <1>10, <2>1 DEF PrefixStep
<1>. QED
  BY <1>9, <1>11

\* Every step of every thread.
LEMMA BatchStep ==
  TypeOK /\ Placement /\ BatchInv /\ [Next]_vars => BatchInv' /\ PrefixStep
<1>. SUFFICES ASSUME TypeOK, Placement, BatchInv, [Next]_vars
              PROVE  BatchInv' /\ PrefixStep
  OBVIOUS
<1>0. op \in [Threads -> Ops \cup Phases]
  BY DEF TypeOK
<1>a. ASSUME UNCHANGED <<lastIn, issued, items, op>> PROVE BatchInv' /\ PrefixStep
  BY <1>a, NothingAccepted DEF PushOps
<1>b. ASSUME NEW t \in Threads, NEW o, op' = [op EXCEPT ![t] = o],
             o \notin PushOps \cup {"PushEach"}, UNCHANGED <<lastIn, issued, items>>
      PROVE  BatchInv' /\ PrefixStep
  <2>1. \A u \in Threads : op'[u] = op[u] \/ op'[u] = o
    BY <1>0, <1>b
  <2>. QED
    BY <1>b, <2>1, NothingAccepted
<1>c. /\ "idle" \notin PushOps \cup {"PushEach"}
      /\ "CloseProducers" \notin PushOps \cup {"PushEach"}
      /\ "CloseConsumers" \notin PushOps \cup {"PushEach"}
      /\ "NotifyProducers" \notin PushOps \cup {"PushEach"}
      /\ "Pop" \notin PushOps \cup {"PushEach"}
      /\ "PopFor" \notin PushOps \cup {"PushEach"}
      /\ "Peek" \notin PushOps \cup {"PushEach"}
      /\ "PopBatch" \notin PushOps \cup {"PushEach"}
      /\ "PushEach" \notin PushOps
      /\ ProducerOps \subseteq PushOps /\ "TryPush" \in PushOps /\ "PushBatch" \in PushOps
  BY DEF PushOps, ProducerOps
<1>d. ASSUME NEW t \in Threads, Return(t), UNCHANGED <<lastIn, issued, items>>
      PROVE  BatchInv' /\ PrefixStep
  BY <1>b, <1>c, <1>d DEF Return
<1>1. ASSUME NEW t \in Threads, NEW o, NEW n \in Nat, IssuePush(t, o, n)
      PROVE  BatchInv' /\ PrefixStep
  <2>1. /\ items' = [items EXCEPT ![t] = NewItems(t, n)]
        /\ issued' = [issued EXCEPT ![t] = @ + 1]
        /\ op' = [op EXCEPT ![t] = o] /\ UNCHANGED lastIn
    BY <1>1 DEF IssuePush
  <2>2. /\ issued'[t] = issued[t] + 1 /\ issued[t] \in Nat /\ items'[t] = NewItems(t, n)
        /\ lastIn[t].call \in Nat /\ lastIn[t].call <= issued[t]
    BY <2>1 DEF TypeOK, Item, BatchInv
  <2>3. \A u \in Threads : u # t => /\ issued'[u] = issued[u] /\ items'[u] = items[u]
                                    /\ op'[u] = op[u]
    BY <2>1 DEF TypeOK
  <2>4. lastIn[t].call < issued'[t]
    BY <2>2
  <2>5. ASSUME NEW i \in 1 .. Len(items'[t])
        PROVE  items'[t][i] = [by |-> t, call |-> issued'[t], idx |-> 0 + i]
    <3>1. Len(NewItems(t, n)) = n
      BY DEF NewItems
    <3>. QED
      BY <2>2, <3>1 DEF NewItems
  <2>6. ASSUME NEW u \in Threads
        PROVE  /\ lastIn'[u].call <= issued'[u]
               /\ op'[u] \in PushOps => lastIn'[u].call < issued'[u]
               /\ op'[u] \in PushOps \cup {"PushEach"} =>
                    \A i \in 1 .. Len(items'[u]) :
                      items'[u][i] =
                        [by |-> u, call |-> issued'[u],
                         idx |-> (IF lastIn'[u].call = issued'[u]
                                    THEN lastIn'[u].idx ELSE 0) + i]
    <3>1. CASE u = t
      <4>1. lastIn'[t].call # issued'[t] /\ lastIn'[t].call <= issued'[t]
        BY <2>1, <2>2, <2>4
      <4>. QED
        BY <2>1, <2>4, <2>5, <3>1, <4>1
    <3>2. CASE u # t
      BY <2>1, <2>3, <3>2 DEF BatchInv, Accepted
    <3>. QED
      BY <3>1, <3>2
  <2>7. BatchInv'
    BY <2>6 DEF BatchInv, Accepted
  <2>. QED
    BY <2>1, <2>7 DEF PrefixStep
<1>2. ASSUME NEW t \in Threads, Issue(t) PROVE BatchInv' /\ PrefixStep
  <2>1. ASSUME NEW o \in {"Pop", "PopFor", "Peek", "PopBatch"}, NEW n, IssuePop(t, o, n)
        PROVE  BatchInv' /\ PrefixStep
    BY <1>b, <1>c, <2>1 DEF IssuePop
  <2>2. 1 \in Nat /\ BatchSizes \subseteq Nat
    BY BoundsAssumption
  <2>. QED
    BY <1>1, <1>2, <2>1, <2>2 DEF Issue
<1>3. ASSUME NEW t \in Threads, Push(t) PROVE BatchInv' /\ PrefixStep
  <2>1. op[t] \in PushOps /\ UNCHANGED <<issued, items>>
    BY <1>3, <1>c DEF Push, Placement, callVars
  <2>2. CASE Accept(t, items[t]) /\ Return(t)
    BY <2>1, <2>2, AllAccepted
  <2>3. CASE UNCHANGED lastIn /\ (Return(t) \/ UNCHANGED op)
    BY <1>a, <1>d, <2>1, <2>3
  <2>. QED
    BY <1>3, <2>2, <2>3 DEF Push
<1>4. ASSUME NEW t \in Threads, TryPush(t) PROVE BatchInv' /\ PrefixStep
  <2>1. op[t] \in PushOps /\ UNCHANGED <<issued, items>> /\ Return(t)
    BY <1>4, <1>c DEF TryPush, callVars
  <2>2. CASE Accept(t, items[t])
    BY <2>1, <2>2, AllAccepted
  <2>3. CASE UNCHANGED lastIn
    BY <1>d, <2>1, <2>3
  <2>. QED
    BY <1>4, <2>2, <2>3 DEF TryPush
<1>5. ASSUME NEW t \in Threads, PushBatch(t) PROVE BatchInv' /\ PrefixStep
  <2>1. op[t] \in PushOps /\ UNCHANGED <<issued, items>>
    BY <1>5, <1>c DEF PushBatch, callVars
  <2>2. CASE Accept(t, items[t]) /\ Return(t)
    BY <2>1, <2>2, AllAccepted
  <2>3. CASE op' = [op EXCEPT ![t] = "PushEach"] /\ UNCHANGED lastIn
    <3>1. \A u \in Threads : op'[u] = op[u] \/ (u = t /\ op'[u] = "PushEach")
      BY <1>0, <2>3
    <3>. QED
      BY <1>c, <2>1, <2>3, <3>1, NothingAccepted
  <2>. QED
    BY <1>5, <2>2, <2>3 DEF PushBatch
<1>6. ASSUME NEW t \in Threads, PushEach(t) PROVE BatchInv' /\ PrefixStep
  <2>1. CASE Return(t) /\ UNCHANGED <<lastIn, items, issued>>
    BY <1>d, <2>1
  <2>2. CASE /\ items[t] # <<>> /\ Accept(t, <<Head(items[t])>>)
             /\ items' = [items EXCEPT ![t] = Tail(@)] /\ UNCHANGED <<op, issued>>
    BY <1>6, <2>2, OneAccepted DEF PushEach
  <2>. QED
    BY <1>6, <2>1, <2>2 DEF PushEach
<1>7. ASSUME NEW t \in Threads, Pop(t) PROVE BatchInv' /\ PrefixStep
  <2>1. UNCHANGED <<lastIn, items, issued>> /\ (Return(t) \/ UNCHANGED op)
    BY <1>7 DEF Pop, callVars
  <2>. QED
    BY <1>a, <1>d, <2>1
<1>8. ASSUME NEW t \in Threads,
             CloseProducers(t) \/ CloseConsumers(t) \/ NotifyProducers(t) \/ Close(t)
               \/ NotifyAll(t)
      PROVE  BatchInv' /\ PrefixStep
  BY <1>8, <1>b, <1>c DEF CloseProducers, CloseConsumers, NotifyProducers, Close,
     NotifyAll, Return, callVars
<1>9. ASSUME NEW t \in Threads, TryPop(t) \/ Clear(t) \/ Flush(t)
      PROVE  BatchInv' /\ PrefixStep
  BY <1>9, <1>a DEF TryPop, Clear, Flush, callVars
<1>10. ASSUME NEW t \in Threads, NEW c \in Capacities, SetCapacity(t, c)
       PROVE  BatchInv' /\ PrefixStep
  BY <1>10, <1>a DEF SetCapacity, callVars
<1>11. ASSUME NEW t \in Threads, SpuriousWakeup(t) \/ Timeout(t)
       PROVE  BatchInv' /\ PrefixStep
  BY <1>11, <1>a DEF SpuriousWakeup, Timeout, callVars
<1>12. CASE UNCHANGED vars
  BY <1>12, <1>a DEF vars
<1>. QED
  BY <1>2, <1>3, <1>4, <1>5, <1>6, <1>7, <1>8, <1>9, <1>10, <1>11, <1>12
     DEF Next, Atomic, Step

\* Of every batch a prefix is accepted, for any number of threads and any
\* capacity: the item after the last accepted one comes next or none does.
THEOREM BatchAcceptedAsPrefix == Spec => BatchIsPrefix
<1>1. Init => BatchInv
  BY DEF Init, BatchInv, NoItem, PushOps, ProducerOps
<1>2. TypeOK /\ Placement /\ BatchInv /\ [Next]_vars =>
        [\A t \in Threads :
           LET a == lastIn[t]  b == lastIn'[t]
               n == Len(queue') - Len(queue) IN
           b # a => \/ b.call > a.call /\ b.idx = n
                    \/ b.call = a.call /\ b.idx = a.idx + n]_vars
  BY BatchStep DEF PrefixStep
<1>. QED
  BY <1>1, <1>2, BatchStep, PlacementInvariant, PTL DEF Spec, BatchIsPrefix

=============================================================================
