---------------------------- MODULE IOContextPool ----------------------------
(***************************************************************************)
(* AsioIOContextPool (net/asio_io_context_pool.hpp): io_contexts with one  *)
(* thread each, handed out in turn.  GetIOContext is called by any thread  *)
(* and does not synchronise: its increment is a read and a write, and the  *)
(* test and the reset that follow are steps of their own.                  *)
(***************************************************************************)
EXTENDS Integers, FiniteSetsExt

CONSTANTS
  Sizes,       \* what std::thread::hardware_concurrency may return, 0 included
  Callers,     \* the threads that call GetIOContext
  MaxHandlers  \* bound: handlers given to the contexts

VARIABLES
  size,     \* the constructor's argument
  next,     \* _next_io_context
  caller,   \* where each caller is in GetIOContext
  seen,     \* the _next_io_context its increment has read, until the call is over
  context,  \* the context it was given, until the handler is
  thread,   \* what the thread of each context does in run()
  pending,  \* handlers each context has not run yet
  given,    \* handlers given so far
  phase     \* how far Stop is

poolVars == <<size, next, caller, seen, context, thread, pending, given, phase>>

PoolSize == IF size < 2 THEN 2 ELSE size
Contexts == 0..(PoolSize - 1)

\* Mutant: the loop that makes the guards ends one too early.
GuardedButOne(i) == i + 1 < size

\* The constructor makes a work guard for the first size contexts.
Guarded(i) == i < size

PoolInit ==
  /\ size \in Sizes
  /\ next = 0
  /\ caller = [c \in Callers |-> "idle"]
  /\ seen = [c \in Callers |-> 0]
  /\ context = [c \in Callers |-> 0]
  /\ thread = [i \in Contexts |-> "starting"]
  /\ pending = [i \in Contexts |-> 0]
  /\ given = 0
  /\ phase = "running"

-----------------------------------------------------------------------------
(* GetIOContext, and the handler its caller then gives to the context.     *)

ReadNext(c) ==
  /\ caller[c] = "idle" /\ given < MaxHandlers
  /\ seen' = [seen EXCEPT ![c] = next]
  /\ caller' = [caller EXCEPT ![c] = "read"]
  /\ UNCHANGED <<size, next, context, thread, pending, given, phase>>

WriteNext(c) ==
  /\ caller[c] = "read"
  /\ next' = seen[c] + 1
  /\ context' = [context EXCEPT ![c] = seen[c] % PoolSize]
  /\ caller' = [caller EXCEPT ![c] = "written"]
  /\ UNCHANGED <<size, seen, thread, pending, given, phase>>

\* Mutant: the position that is reset is one too large.
PastEndLate == next > PoolSize

PastEnd == next >= PoolSize

TestNext(c) ==
  /\ caller[c] = "written"
  /\ caller' = [caller EXCEPT ![c] = IF PastEnd THEN "past" ELSE "got"]
  /\ UNCHANGED <<size, next, seen, context, thread, pending, given, phase>>

ResetNext(c) ==
  /\ caller[c] = "past"
  /\ next' = 0
  /\ caller' = [caller EXCEPT ![c] = "got"]
  /\ UNCHANGED <<size, seen, context, thread, pending, given, phase>>

Give(c) ==
  /\ caller[c] = "got" /\ given < MaxHandlers
  /\ pending' = [pending EXCEPT ![context[c]] = @ + 1]
  /\ given' = given + 1
  /\ caller' = [caller EXCEPT ![c] = "idle"]
  /\ seen' = [seen EXCEPT ![c] = 0]
  /\ context' = [context EXCEPT ![c] = 0]
  /\ UNCHANGED <<size, next, thread, phase>>

-----------------------------------------------------------------------------
(* The threads, and Stop.  run() returns when its context is stopped or    *)
(* has neither a guard nor a handler, and nothing calls it again.          *)

HasWork(i) == (Guarded(i) /\ phase # "stopped") \/ pending[i] > 0

Runs(i) == HasWork(i) /\ phase = "running"

RunContext(i) ==
  /\ thread[i] \in {"starting", "running"}
  /\ thread' = [thread EXCEPT ![i] = IF Runs(i) THEN "running" ELSE "returned"]
  /\ thread' # thread
  /\ UNCHANGED <<size, next, caller, seen, context, pending, given, phase>>

RunHandler(i) ==
  /\ thread[i] = "running" /\ Runs(i) /\ pending[i] > 0
  /\ pending' = [pending EXCEPT ![i] = @ - 1]
  /\ UNCHANGED <<size, next, caller, seen, context, thread, given, phase>>

StopContexts ==
  /\ phase = "running"
  /\ phase' = "stopping"
  /\ UNCHANGED <<size, next, caller, seen, context, thread, pending, given>>

\* The joins, and the reset of the guards behind them.
JoinThreads ==
  /\ phase = "stopping" /\ \A i \in Contexts : thread[i] = "returned"
  /\ phase' = "stopped"
  /\ UNCHANGED <<size, next, caller, seen, context, thread, pending, given>>

GetIOContext(c) ==
  ReadNext(c) \/ WriteNext(c) \/ TestNext(c) \/ ResetNext(c) \/ Give(c)

Thread(i) == RunContext(i) \/ RunHandler(i)

PoolNext ==
  \/ \E c \in Callers : GetIOContext(c)
  \/ \E i \in Contexts : Thread(i)
  \/ StopContexts \/ JoinThreads

-----------------------------------------------------------------------------

InCall == {c \in Callers : caller[c] \in {"read", "written", "past"}}

\* Calls that race lose increments and resets, and hand a position beyond the
\* end from one to the other; still whenever no call is under way the position
\* is inside the pool, so that the next calls take the contexts in turn.
QuietPositionIsInside == InCall = {} => next < PoolSize

Owed(i) == i < PoolSize /\ pending[i] > 0

\* The constructor makes no guard for this context (a pool of size 0 or 1 has
\* two contexts all the same), and run() has returned before it had a handler.
Abandoned(i) == i >= size /\ thread[i] = "returned"

\* A handler given to a context is run, or the pool is stopped, or the context
\* was abandoned before: the thread of a context with a guard waits for handlers.
GivenIsRun ==
  \A i \in 0..(Max(Sizes) - 1) :
    Owed(i) ~> (~Owed(i) \/ phase # "running" \/ Abandoned(i))
=============================================================================
