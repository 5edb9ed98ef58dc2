-------------------------------- MODULE Timer --------------------------------
(***************************************************************************)
(* src/breutil/timer.hpp, class Timer: AsyncWait starts a thread that      *)
(* waits on a condition variable for its interval and then calls func,     *)
(* once or in a loop; Cancel sets m_Stop under the mutex and notifies; the *)
(* destructor cancels and joins.  Time is left abstract: the interval of a *)
(* waiting thread may end at any moment.                                   *)
(***************************************************************************)
EXTENDS Naturals

CONSTANTS
  MaxCancels,  \* bound: calls of Cancel
  MaxWaits     \* bound: calls of the synchronous Wait

VARIABLES
  mStop,      \* m_Stop
  thread,     \* m_Thread: "none" if not joinable, else where it is
  isLoop,     \* is_loop
  owner,      \* the owner of the object: "alive", "joining", "gone"
  waiters,    \* callers inside the synchronous Wait
  terminated, \* a joinable m_Thread was assigned to: std::terminate
  cancels,    \* history: calls of Cancel
  waits,      \* history: calls of Wait
  calls,      \* history: calls of func by the thread, capped at 2
  cancelled,  \* history: Cancel has returned since AsyncWait
  lateCalls   \* history: calls of func begun since then, capped at 2

history == <<cancels, waits, calls, cancelled, lateCalls>>
timerVars == <<mStop, thread, isLoop, owner, waiters, terminated, cancels, waits,
               calls, cancelled, lateCalls>>

Cap == 2
Inc(n) == IF n < Cap THEN n + 1 ELSE Cap

TimerInit ==
  /\ mStop = TRUE
  /\ thread = "none"
  /\ isLoop = FALSE
  /\ owner = "alive"
  /\ waiters = 0
  /\ terminated = FALSE
  /\ cancels = 0 /\ waits = 0
  /\ calls = 0 /\ cancelled = FALSE /\ lateCalls = 0

-----------------------------------------------------------------------------
(* The owner and other callers. *)

InUse == owner = "alive" /\ ~terminated

\* m_Thread = std::thread(...) ends the process if m_Thread is joinable, that
\* is after any earlier AsyncWait.
AsyncWait(loop) ==
  /\ InUse
  /\ mStop' = FALSE
  /\ IF thread = "none"
       THEN /\ thread' = "test"
            /\ isLoop' = loop
            /\ calls' = 0 /\ cancelled' = FALSE /\ lateCalls' = 0
            /\ UNCHANGED terminated
       ELSE /\ terminated' = TRUE
            /\ UNCHANGED <<thread, isLoop, calls, cancelled, lateCalls>>
  /\ UNCHANGED <<owner, waiters, cancels, waits>>

\* notify_one on m_ExpiredConditionVar, where only the thread waits.
Notified == IF thread = "asleep" THEN "woken" ELSE thread

\* Mutants: Cancel without the flag, and without the notification.
NotifyOnly == thread' = Notified /\ UNCHANGED mStop
FlagOnly == mStop' = TRUE /\ UNCHANGED thread

\* The body of Cancel, under m_ThreadMutex.
StopAndNotify == mStop' = TRUE /\ thread' = Notified

Cancel ==
  /\ InUse /\ cancels < MaxCancels
  /\ cancels' = cancels + 1
  /\ StopAndNotify
  /\ cancelled' = TRUE
  /\ UNCHANGED <<isLoop, owner, waiters, terminated, waits, calls, lateCalls>>

\* The synchronous Wait sleeps, calls func in the calling thread and then sets
\* m_Stop, without the mutex and without a notification.
Wait ==
  /\ InUse /\ waits < MaxWaits
  /\ waits' = waits + 1
  /\ waiters' = waiters + 1
  /\ UNCHANGED <<mStop, thread, isLoop, owner, terminated, cancels, calls,
                 cancelled, lateCalls>>

WaitEnd ==
  /\ InUse /\ waiters > 0
  /\ waiters' = waiters - 1
  /\ mStop' = TRUE
  /\ UNCHANGED <<thread, isLoop, owner, terminated, history>>

\* ~Timer when no caller is inside: Cancel, then join.
Destroy ==
  /\ InUse /\ waiters = 0
  /\ StopAndNotify
  /\ owner' = "joining"
  /\ cancelled' = TRUE
  /\ UNCHANGED <<isLoop, waiters, terminated, cancels, waits, calls, lateCalls>>

DestroyJoin ==
  /\ owner = "joining" /\ thread \in {"none", "done"}
  /\ owner' = "gone"
  /\ UNCHANGED <<mStop, thread, isLoop, waiters, terminated, history>>

-----------------------------------------------------------------------------
(* The thread. *)

Go(from, to) ==
  /\ thread = from /\ ~terminated
  /\ thread' = to
  /\ UNCHANGED <<mStop, isLoop, owner, waiters, terminated, cancels, waits,
                 cancelled>>

\* while (!m_Stop), then next_wake is computed.
ThreadTest ==
  /\ Go("test", IF mStop THEN "done" ELSE "arm")
  /\ UNCHANGED <<calls, lateCalls>>

\* wait_until with its predicate: tested before sleeping and after a wakeup.
ThreadWait ==
  /\ \/ Go("arm", IF mStop THEN "done" ELSE "asleep")
     \/ Go("woken", IF mStop THEN "done" ELSE "asleep")
  /\ UNCHANGED <<calls, lateCalls>>

\* next_wake is reached.
Expire == Go("asleep", "expired") /\ UNCHANGED <<calls, lateCalls>>

SpuriousWakeup == Go("asleep", "woken") /\ UNCHANGED <<calls, lateCalls>>

\* The predicate is tested once more after the timeout; then the mutex is
\* released and func is called.
ThreadExpired ==
  /\ Go("expired", IF mStop THEN "done" ELSE "fire")
  /\ UNCHANGED <<calls, lateCalls>>

ThreadFire ==
  /\ Go("fire", "calling")
  /\ calls' = Inc(calls)
  /\ lateCalls' = IF cancelled THEN Inc(lateCalls) ELSE lateCalls

ThreadReturn ==
  /\ Go("calling", IF isLoop THEN "test" ELSE "done")
  /\ UNCHANGED <<calls, lateCalls>>

ThreadStep ==
  ThreadTest \/ ThreadWait \/ ThreadExpired \/ ThreadFire \/ ThreadReturn

TimerNext ==
  \/ \E loop \in BOOLEAN : AsyncWait(loop)
  \/ Cancel \/ Wait \/ WaitEnd \/ Destroy \/ DestroyJoin
  \/ ThreadStep \/ Expire \/ SpuriousWakeup

TimerSpec == TimerInit /\ [][TimerNext]_timerVars

\* The thread runs; the interval is not assumed to end.
FairTimerSpec == TimerSpec /\ WF_timerVars(ThreadStep) /\ WF_timerVars(DestroyJoin)

-----------------------------------------------------------------------------
(* Properties. *)

\* After Cancel has returned func is begun at most once more, by a thread
\* that had seen its timeout and left the mutex before.
AtMostOneLateCall == lateCalls <= 1

\* The destructor returns without waiting for the interval to end: Cancel
\* reaches a thread that tested m_Stop before it went to sleep.
DestructorIsPrompt == owner = "joining" ~> owner = "gone"

\* If intervals end, a timer that is armed calls func, unless it is cancelled
\* or stopped.
ArmedTimerFires ==
  SF_timerVars(Expire) =>
    (thread = "arm" ~> thread = "calling" \/ mStop \/ terminated)

\* A timer waits for its interval, and for nothing else.
TimerKeepsTime == DestructorIsPrompt /\ ArmedTimerFires

=============================================================================
