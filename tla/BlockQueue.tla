----------------------------- MODULE BlockQueue -----------------------------
(***************************************************************************)
(* src/breutil/block_queue.hpp: a bounded blocking queue guarded by one    *)
(* mutex and two condition variables.                                      *)
(*                                                                         *)
(* Threads call the operations in Ops in any order.  A call is first       *)
(* issued (the thread then competes for _mtx), and every critical section  *)
(* is one step.  A thread whose wait predicate is false joins the wait set *)
(* of a condition variable, which releases the mutex in the same step; a   *)
(* notification, a spurious wakeup or a timeout moves it back among those  *)
(* that compete for the mutex and test the predicate again.  Close,        *)
(* NotifyAll and Flush notify without holding the mutex, so each of their  *)
(* notifications is a step of its own.                                     *)
(***************************************************************************)
EXTENDS Integers, Sequences, FiniteSets

CONSTANTS
  Threads,      \* client threads
  Ops,          \* the operations the clients use, a subset of AllOps
  Capacity0,    \* MaxCapacity, the constructor's argument
  Capacities,   \* arguments of SetCapacity
  BatchSizes,   \* std::distance(first, last) of the batch Push
  PopCounts,    \* maxCount of the batch Pop
  MaxPushCalls  \* bound: push calls issued by one thread

ProducerOps == {"Push", "PushFor"}
ConsumerOps == {"Pop", "PopFor", "Peek", "PopBatch"}
TimedOps    == {"PushFor", "PopFor", "Peek"}
OtherOps    == {"TryPush", "TryPop", "PushBatch", "Clear", "Close",
                "SetCapacity", "Flush", "NotifyAll"}
AllOps      == ProducerOps \cup ConsumerOps \cup OtherOps

ASSUME OpsAssumption == Ops \subseteq AllOps
ASSUME BoundsAssumption ==
  /\ Capacity0 \in Nat
  /\ Capacities \subseteq Nat
  /\ BatchSizes \subseteq Nat
  /\ PopCounts \subseteq Nat
  /\ MaxPushCalls \in Nat
ASSUME ThreadsAssumption == IsFiniteSet(Threads)

VARIABLES
  queue,          \* _queue
  capacity,       \* _capacity
  isClose,        \* _isClose
  condConsumer,   \* threads asleep on _condConsumer
  condProducer,   \* threads asleep on _condProducer
  readyConsumer,  \* threads in a consumer wait loop that compete for _mtx
  readyProducer,  \* the same for the producer wait loop
  expired,        \* ready threads whose wait_for has timed out
  op,             \* the call each thread is in, or where it is within it
  items,          \* items that the thread's push call has still to put in
  count,          \* maxCount of the thread's batch Pop
  issued,         \* history: number of push calls of each thread
  lastIn          \* history: the last item accepted from each thread

consumerVars == <<condConsumer, readyConsumer>>
producerVars == <<condProducer, readyProducer>>
callVars     == <<items, count, issued>>
vars == <<queue, capacity, isClose, condConsumer, condProducer, readyConsumer,
          readyProducer, expired, op, items, count, issued, lastIn>>

\* Item i of the n-th push call of thread t.
Item == [by : Threads, call : Nat, idx : Nat]
NoItem(t) == [by |-> t, call |-> 0, idx |-> 0]
NewItems(t, n) ==
  [i \in 1 .. n |-> [by |-> t, call |-> issued[t] + 1, idx |-> i]]

\* Where a thread can be inside a call that takes more than one step.
Phases == {"idle", "PushEach", "CloseProducers", "CloseConsumers",
           "NotifyProducers"}

TypeOK ==
  /\ queue \in Seq(Item)
  /\ capacity \in Nat
  /\ isClose \in BOOLEAN
  /\ condConsumer \subseteq Threads
  /\ condProducer \subseteq Threads
  /\ readyConsumer \subseteq Threads
  /\ readyProducer \subseteq Threads
  /\ expired \subseteq readyConsumer \cup readyProducer
  /\ op \in [Threads -> Ops \cup Phases]
  /\ items \in [Threads -> Seq(Item)]
  /\ count \in [Threads -> Nat]
  /\ issued \in [Threads -> Nat]
  /\ lastIn \in [Threads -> Item]

Init ==
  /\ queue = <<>>
  /\ capacity = Capacity0
  /\ isClose = FALSE
  /\ condConsumer = {} /\ condProducer = {}
  /\ readyConsumer = {} /\ readyProducer = {}
  /\ expired = {}
  /\ op = [t \in Threads |-> "idle"]
  /\ items = [t \in Threads |-> <<>>]
  /\ count = [t \in Threads |-> 0]
  /\ issued = [t \in Threads |-> 0]
  /\ lastIn = [t \in Threads |-> NoItem(t)]

-----------------------------------------------------------------------------
(* The condition variables. *)

\* Mutant: the notification is forgotten.
NoNotifyConsumer == UNCHANGED consumerVars
NoNotifyProducer == UNCHANGED producerVars

NotifyOneConsumer ==
  \/ condConsumer = {} /\ UNCHANGED consumerVars
  \/ \E w \in condConsumer :
       /\ condConsumer' = condConsumer \ {w}
       /\ readyConsumer' = readyConsumer \cup {w}

NotifyOneProducer ==
  \/ condProducer = {} /\ UNCHANGED producerVars
  \/ \E w \in condProducer :
       /\ condProducer' = condProducer \ {w}
       /\ readyProducer' = readyProducer \cup {w}

NotifyAllConsumers ==
  /\ condConsumer' = {}
  /\ readyConsumer' = readyConsumer \cup condConsumer

NotifyAllProducers ==
  /\ condProducer' = {}
  /\ readyProducer' = readyProducer \cup condProducer

SpuriousWakeup(t) ==
  /\ \/ /\ t \in condConsumer
        /\ condConsumer' = condConsumer \ {t}
        /\ readyConsumer' = readyConsumer \cup {t}
        /\ UNCHANGED producerVars
     \/ /\ t \in condProducer
        /\ condProducer' = condProducer \ {t}
        /\ readyProducer' = readyProducer \cup {t}
        /\ UNCHANGED consumerVars
  /\ UNCHANGED <<queue, capacity, isClose, expired, op, callVars, lastIn>>

\* The deadline of a wait_for passes while the thread is asleep.
Timeout(t) ==
  /\ op[t] \in TimedOps
  /\ \/ /\ t \in condConsumer
        /\ condConsumer' = condConsumer \ {t}
        /\ readyConsumer' = readyConsumer \cup {t}
        /\ UNCHANGED producerVars
     \/ /\ t \in condProducer
        /\ condProducer' = condProducer \ {t}
        /\ readyProducer' = readyProducer \cup {t}
        /\ UNCHANGED consumerVars
  /\ expired' = expired \cup {t}
  /\ UNCHANGED <<queue, capacity, isClose, op, callVars, lastIn>>

-----------------------------------------------------------------------------
(* Issuing a call. *)

IssuePush(t, o, n) ==
  /\ op[t] = "idle" /\ o \in Ops
  /\ issued[t] < MaxPushCalls
  /\ op' = [op EXCEPT ![t] = o]
  /\ items' = [items EXCEPT ![t] = NewItems(t, n)]
  /\ issued' = [issued EXCEPT ![t] = @ + 1]
  /\ readyProducer' = IF o \in ProducerOps THEN readyProducer \cup {t}
                                           ELSE readyProducer
  /\ UNCHANGED <<queue, capacity, isClose, condProducer, consumerVars,
                 expired, count, lastIn>>

IssuePop(t, o, n) ==
  /\ op[t] = "idle" /\ o \in Ops
  /\ op' = [op EXCEPT ![t] = o]
  /\ count' = [count EXCEPT ![t] = n]
  /\ readyConsumer' = readyConsumer \cup {t}
  /\ UNCHANGED <<queue, capacity, isClose, condConsumer, producerVars,
                 expired, items, issued, lastIn>>

Issue(t) ==
  \/ \E o \in {"Push", "PushFor", "TryPush"} : IssuePush(t, o, 1)
  \/ \E n \in BatchSizes : IssuePush(t, "PushBatch", n)
  \/ \E o \in {"Pop", "PopFor", "Peek"} : IssuePop(t, o, 0)
  \/ \E n \in PopCounts : IssuePop(t, "PopBatch", n)

-----------------------------------------------------------------------------
(* Operations.  Return(t) ends the call of t. *)

Return(t) == op' = [op EXCEPT ![t] = "idle"]

\* _queue.push of the items in s, all from thread t.
Accept(t, s) ==
  /\ queue' = queue \o s
  /\ lastIn' = IF s = <<>> THEN lastIn ELSE [lastIn EXCEPT ![t] = s[Len(s)]]

\* Mutant: off by one.
FullPastCapacity == Len(queue) > capacity

Full == Len(queue) >= capacity

\* The wait predicates of the producer and the consumer loops.
CanPush == isClose \/ ~Full
CanPop  == isClose \/ queue # <<>>

\* The wait_for result of t is consumed by the test that follows it.
ClearExpired(t) == expired' = expired \ {t}

\* One pass of t through the wait loop of Push(item) or Push(item, timeout).
\* On a closed queue the first throws and the second returns false.
Push(t) ==
  /\ t \in readyProducer
  /\ readyProducer' = readyProducer \ {t}
  /\ ClearExpired(t)
  /\ \/ /\ ~CanPush
        /\ IF t \in expired
             THEN Return(t) /\ UNCHANGED condProducer
             ELSE condProducer' = condProducer \cup {t} /\ UNCHANGED op
        /\ UNCHANGED <<queue, lastIn, consumerVars>>
     \/ /\ isClose
        /\ Return(t)
        /\ UNCHANGED <<queue, lastIn, condProducer, consumerVars>>
     \/ /\ CanPush /\ ~isClose
        /\ Accept(t, items[t])
        /\ NotifyOneConsumer
        /\ Return(t)
        /\ UNCHANGED condProducer
  /\ UNCHANGED <<capacity, isClose, callVars>>

TryPush(t) ==
  /\ op[t] = "TryPush"
  /\ IF isClose \/ Full
       THEN UNCHANGED <<queue, lastIn, consumerVars>>
       ELSE Accept(t, items[t]) /\ NotifyOneConsumer
  /\ Return(t)
  /\ UNCHANGED <<capacity, isClose, producerVars, expired, callVars>>

\* Batch Push, the section under the lock: everything fits and goes in, or
\* the lock is released and the items are tried one at a time.
PushBatch(t) ==
  /\ op[t] = "PushBatch"
  /\ IF ~isClose /\ Len(queue) + Len(items[t]) <= capacity
       THEN Accept(t, items[t]) /\ NotifyAllConsumers /\ Return(t)
       ELSE /\ op' = [op EXCEPT ![t] = "PushEach"]
            /\ UNCHANGED <<queue, lastIn, consumerVars>>
  /\ UNCHANGED <<capacity, isClose, producerVars, expired, callVars>>

\* Mutant: the loop goes on with the next item after a failed TryPush.
PushEachSkipping(t) ==
  /\ op[t] = "PushEach"
  /\ \/ /\ items[t] = <<>>
        /\ Return(t)
        /\ UNCHANGED <<queue, lastIn, consumerVars, items>>
     \/ /\ items[t] # <<>>
        /\ IF isClose \/ Full
             THEN UNCHANGED <<queue, lastIn, consumerVars>>
             ELSE Accept(t, <<Head(items[t])>>) /\ NotifyOneConsumer
        /\ items' = [items EXCEPT ![t] = Tail(@)]
        /\ UNCHANGED op
  /\ UNCHANGED <<capacity, isClose, producerVars, expired, count, issued>>

\* Batch Push, one iteration of the loop of TryPush calls.
PushEach(t) ==
  /\ op[t] = "PushEach"
  /\ \/ /\ items[t] = <<>> \/ isClose \/ Full
        /\ Return(t)
        /\ UNCHANGED <<queue, lastIn, consumerVars, items>>
     \/ /\ items[t] # <<>> /\ ~isClose /\ ~Full
        /\ Accept(t, <<Head(items[t])>>)
        /\ NotifyOneConsumer
        /\ items' = [items EXCEPT ![t] = Tail(@)]
        /\ UNCHANGED op
  /\ UNCHANGED <<capacity, isClose, producerVars, expired, count, issued>>

\* Takes the n oldest items.
Take(n) == queue' = SubSeq(queue, n + 1, Len(queue))

\* One pass of t through the wait loop of Pop, timed Pop, Peek or batch Pop,
\* with what the call does once the predicate holds.
PopOne(t) ==
  /\ op[t] \in {"Pop", "PopFor"}
  /\ IF queue = <<>> THEN UNCHANGED <<queue, producerVars>>
                     ELSE Take(1) /\ NotifyOneProducer

PeekFront(t) ==
  /\ op[t] = "Peek"
  /\ UNCHANGED <<queue, producerVars>>

PopBatch(t) ==
  /\ op[t] = "PopBatch"
  /\ LET n == IF count[t] < Len(queue) THEN count[t] ELSE Len(queue) IN
       /\ Take(n)
       /\ IF n > 0 THEN NotifyAllProducers ELSE UNCHANGED producerVars

Pop(t) ==
  /\ t \in readyConsumer
  /\ readyConsumer' = readyConsumer \ {t}
  /\ ClearExpired(t)
  /\ \/ /\ ~CanPop
        /\ IF t \in expired
             THEN Return(t) /\ UNCHANGED condConsumer
             ELSE condConsumer' = condConsumer \cup {t} /\ UNCHANGED op
        /\ UNCHANGED <<queue, producerVars>>
     \/ /\ CanPop
        /\ PopOne(t) \/ PeekFront(t) \/ PopBatch(t)
        /\ Return(t)
        /\ UNCHANGED condConsumer
  /\ UNCHANGED <<capacity, isClose, callVars, lastIn>>

TryPop(t) ==
  /\ op[t] = "idle" /\ "TryPop" \in Ops
  /\ queue # <<>>
  /\ Take(1)
  /\ NotifyOneProducer
  /\ UNCHANGED <<capacity, isClose, consumerVars, expired, op, callVars, lastIn>>

Clear(t) ==
  /\ op[t] = "idle" /\ "Clear" \in Ops
  /\ queue' = <<>>
  /\ NotifyAllProducers
  /\ UNCHANGED <<capacity, isClose, consumerVars, expired, op, callVars, lastIn>>

SetCapacity(t, c) ==
  /\ op[t] = "idle" /\ "SetCapacity" \in Ops
  /\ capacity' = c
  /\ IF Len(queue) < c THEN NotifyAllProducers ELSE UNCHANGED producerVars
  /\ UNCHANGED <<queue, isClose, consumerVars, expired, op, callVars, lastIn>>

\* Close sets the flag under the lock and notifies after releasing it.
Close(t) ==
  /\ op[t] = "idle" /\ "Close" \in Ops
  /\ isClose' = TRUE
  /\ op' = [op EXCEPT ![t] = "CloseProducers"]
  /\ UNCHANGED <<queue, capacity, consumerVars, producerVars, expired,
                 callVars, lastIn>>

\* Mutant: Close forgets the producers.
CloseProducersSilently(t) ==
  /\ op[t] = "CloseProducers"
  /\ op' = [op EXCEPT ![t] = "CloseConsumers"]
  /\ UNCHANGED <<queue, capacity, isClose, consumerVars, producerVars, expired,
                 callVars, lastIn>>

CloseProducers(t) ==
  /\ op[t] = "CloseProducers"
  /\ NotifyAllProducers
  /\ op' = [op EXCEPT ![t] = "CloseConsumers"]
  /\ UNCHANGED <<queue, capacity, isClose, consumerVars, expired, callVars,
                 lastIn>>

\* Mutant: Close wakes one consumer only.
CloseOneConsumer(t) ==
  /\ op[t] = "CloseConsumers"
  /\ NotifyOneConsumer
  /\ Return(t)
  /\ UNCHANGED <<queue, capacity, isClose, producerVars, expired, callVars,
                 lastIn>>

CloseConsumers(t) ==
  /\ op[t] = "CloseConsumers"
  /\ NotifyAllConsumers
  /\ Return(t)
  /\ UNCHANGED <<queue, capacity, isClose, producerVars, expired, callVars,
                 lastIn>>

Flush(t) ==
  /\ op[t] = "idle" /\ "Flush" \in Ops
  /\ NotifyOneConsumer
  /\ UNCHANGED <<queue, capacity, isClose, producerVars, expired, op, callVars,
                 lastIn>>

NotifyAll(t) ==
  /\ op[t] = "idle" /\ "NotifyAll" \in Ops
  /\ NotifyAllConsumers
  /\ op' = [op EXCEPT ![t] = "NotifyProducers"]
  /\ UNCHANGED <<queue, capacity, isClose, producerVars, expired, callVars,
                 lastIn>>

NotifyProducers(t) ==
  /\ op[t] = "NotifyProducers"
  /\ NotifyAllProducers
  /\ Return(t)
  /\ UNCHANGED <<queue, capacity, isClose, consumerVars, expired, callVars,
                 lastIn>>

-----------------------------------------------------------------------------
(* Steps inside a call that is under way, and all steps. *)

Step(t) ==
  \/ Push(t) \/ TryPush(t) \/ PushBatch(t) \/ PushEach(t)
  \/ Pop(t)
  \/ CloseProducers(t) \/ CloseConsumers(t)
  \/ NotifyProducers(t)

Atomic(t) ==
  \/ TryPop(t) \/ Clear(t) \/ Close(t) \/ Flush(t) \/ NotifyAll(t)
  \/ \E c \in Capacities : SetCapacity(t, c)

Next ==
  \E t \in Threads :
    \/ Issue(t) \/ Atomic(t) \/ Step(t)
    \/ SpuriousWakeup(t) \/ Timeout(t)

Spec == Init /\ [][Next]_vars

\* A thread inside a call gets the mutex eventually and timed waits do end;
\* nothing obliges a client to make a call, and nothing is assumed about
\* spurious wakeups.
FairSpec ==
  Spec /\ \A t \in Threads : WF_vars(Step(t)) /\ WF_vars(Timeout(t))

-----------------------------------------------------------------------------
(* Properties. *)

\* Where the threads are: a thread in one of the four sets is inside a call
\* of that side, asleep or on its way but not both; a single-item call holds
\* one item and a batch Pop the count it was given.
Placement ==
  /\ \A t \in condConsumer \cup readyConsumer : op[t] \in ConsumerOps
  /\ \A t \in condProducer \cup readyProducer : op[t] \in ProducerOps
  /\ condConsumer \cap readyConsumer = {}
  /\ condProducer \cap readyProducer = {}
  /\ \A t \in Threads :
       /\ op[t] \in ProducerOps \cup {"TryPush"} => Len(items[t]) = 1
       /\ op[t] = "PopBatch" => count[t] \in PopCounts

\* No consumer call leaves the items alone: Peek is not used and the batch
\* Pop always asks for at least one item.
TakersOnly == "Peek" \notin Ops /\ 0 \notin PopCounts

\* A consumer is asleep while items are in an open queue only if as many
\* consumers are on their way to the mutex as there are items: the one
\* notify_one of each push was not spent on a thread that leaves its item.
NoLostConsumerWakeup ==
  condConsumer # {} /\ ~isClose => Len(queue) <= Cardinality(readyConsumer)

\* The same for producers and free slots: pops, Clear and SetCapacity
\* between them never leave a producer asleep in front of a free slot that
\* no producer is on its way to.
NoLostProducerWakeup ==
  condProducer # {} /\ ~isClose =>
    capacity - Len(queue) <= Cardinality(readyProducer)

\* Nobody stays asleep on a closed queue once the thread in Close has
\* notified: a consumer or producer that tested the predicate before the
\* flag was set is in the wait set when the notifications come.
ClosedWakesSleepers ==
  isClose =>
    /\ condProducer # {} => \E t \in Threads : op[t] = "CloseProducers"
    /\ condConsumer # {} =>
         \E t \in Threads : op[t] \in {"CloseProducers", "CloseConsumers"}

\* Of a batch, a prefix is accepted: item idx > 1 follows item idx - 1 of the
\* same call, although the lock is released between the items and the queue
\* may become full, free again or closed meanwhile.
BatchIsPrefix ==
  [][\A t \in Threads :
       LET a == lastIn[t]  b == lastIn'[t]
           n == Len(queue') - Len(queue) IN
       b # a => \/ b.call > a.call /\ b.idx = n
                \/ b.call = a.call /\ b.idx = a.idx + n]_vars

\* The queue implements the bounded FIFO channel: nothing is accepted after
\* Close or above the capacity in force, items leave oldest first, and
\* closing loses nothing.
Channel == INSTANCE BoundedChannel
             WITH chan <- queue, cap <- capacity, closed <- isClose
ImplementsChannel == Channel!ChanSpec

\* An item in an open queue is not left there while a consumer sleeps.
SleepingConsumerIsServed ==
  \A t \in Threads :
    t \in condConsumer /\ queue # <<>> ~> t \notin condConsumer \/ queue = <<>>

\* A free slot is not left while a producer sleeps.
SleepingProducerIsServed ==
  \A t \in Threads :
    t \in condProducer /\ Len(queue) < capacity
      ~> t \notin condProducer \/ Len(queue) >= capacity

\* After Close every blocked call returns.
CloseReleasesEveryone ==
  \A t \in Threads :
    isClose /\ t \in condConsumer \cup condProducer ~> op[t] = "idle"

\* Neither side of an open queue sleeps for ever beside what it waits for.
SleepersAreServed == SleepingConsumerIsServed /\ SleepingProducerIsServed

=============================================================================
