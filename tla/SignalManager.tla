--------------------------- MODULE SignalManager ---------------------------
(***************************************************************************)
(* src/breutil/os/signal.hpp, class SignalManager: handlers registered for *)
(* signals, and a background thread that takes the signals with sigwait    *)
(* and calls the handlers.  Every change of the registrations stops that   *)
(* thread, joins it and starts a new one, all with m_mutex held; the       *)
(* thread itself takes m_mutex to look up the handlers of a signal.        *)
(*                                                                         *)
(* The kernel's part is modelled from its use here: a signal sent to the   *)
(* process goes to a thread that does not block it, with its disposition,  *)
(* or stays pending until the sigwait of the background thread takes it.   *)
(* pthread_sigmask changes the mask of the calling thread only, and a new  *)
(* thread inherits the mask of the thread that starts it.                  *)
(***************************************************************************)
EXTENDS Naturals, FiniteSets

CONSTANTS
  Clients,    \* threads that use the API
  Sigs,       \* signals
  SigLists,   \* the lists of signals given to notify and wait, as sets
  WakeupSig,  \* m_wakeupSig
  Nobody,     \* no thread
  MaxId,      \* bound: registrations made
  MaxRaise    \* bound: signals sent to the process

ASSUME SignalAssumption ==
  /\ WakeupSig \notin Sigs
  /\ SigLists \subseteq SUBSET Sigs
  /\ Nobody \notin Clients
  /\ MaxId \in Nat /\ MaxRaise \in Nat

VARIABLES
  mutex,       \* who holds m_mutex across steps
  registered,  \* the keys of m_handlers
  handlers,    \* the signals of each registration
  sigTo,       \* m_sigToHandlers, an absent key being the empty set
  nextId,      \* m_nextId
  stopFlag,    \* m_stopFlag
  thread,      \* m_thread: "none" if not joinable, else where it is
  waitSet,     \* its copy of activeSignals
  taken,       \* the signal that its sigwait returned
  todo,        \* handlersCopy: what it has still to call for that signal
  wake,        \* m_wakeupSig is pending for it
  pc,          \* "idle", "joining" (m_thread.join), "waiting" (future.get)
  then,        \* where the caller goes when its join is over
  waitId,      \* the temporary registration of a caller in wait
  promised,    \* callers in wait whose promise has been set
  blocked,     \* the signal mask of each client, and of the thread
  ignored,     \* signals whose disposition is SIG_IGN
  pending,     \* signals pending for the process
  aware,       \* history: the clients that made a call since a signal has a handler
  raised,      \* history: number of signals sent
  killer,      \* history: the signal that killed the process
  ended        \* how the process ended: "no", "killed", "terminate", "destroyed"

vars == <<mutex, registered, handlers, sigTo, nextId, stopFlag, thread, waitSet, taken, todo,
          wake, pc, then, waitId, promised, blocked, ignored, pending, aware,
          raised, killer, ended>>

Ids == 1 .. MaxId
Background == Nobody  \* the index of the thread's mask in blocked

Init ==
  /\ mutex = Nobody
  /\ registered = {}
  /\ handlers = [i \in Ids |-> {}]
  /\ sigTo = [s \in Sigs |-> {}]
  /\ nextId = 1
  /\ stopFlag = FALSE
  /\ thread = "none"
  /\ waitSet = {}
  /\ taken = WakeupSig
  /\ todo = {}
  /\ wake = FALSE
  /\ pc = [c \in Clients |-> "idle"]
  /\ then = [c \in Clients |-> "idle"]
  /\ waitId = [c \in Clients |-> 0]
  /\ promised = {}
  /\ blocked = [c \in Clients \cup {Background} |-> {}]
  /\ ignored = {}
  /\ pending = {}
  /\ aware = [s \in Sigs |-> {}]
  /\ raised = 0
  /\ killer = WakeupSig
  /\ ended = "no"

-----------------------------------------------------------------------------
(* reconfigureLocked and restartThreadLocked. *)

ActiveSignals == {s \in Sigs : sigTo[s] # {}} \cup {WakeupSig}

\* Mutants: the new thread listens for nothing but the wakeup signal, or does
\* not inherit the mask.
StartThreadDeaf(c, active, mask) ==
  /\ thread' = "test"
  /\ waitSet' = {WakeupSig}
  /\ wake' = FALSE
  /\ taken' = WakeupSig
  /\ todo' = {}
  /\ blocked' = [blocked EXCEPT ![c] = mask, ![Background] = mask]

StartThreadUnmasked(c, active, mask) ==
  /\ thread' = "test"
  /\ waitSet' = active
  /\ wake' = FALSE
  /\ taken' = WakeupSig
  /\ todo' = {}
  /\ blocked' = [blocked EXCEPT ![c] = mask]

\* Start m_thread from client c, unless there is nothing to listen for.
StartThread(c, active, mask) ==
  /\ thread' = IF active = {} THEN "none" ELSE "test"
  /\ waitSet' = active
  /\ wake' = FALSE
  /\ taken' = WakeupSig
  /\ todo' = {}
  /\ blocked' = [blocked EXCEPT ![c] = mask, ![Background] = mask]

\* The call of c is one since every signal that is handled now has a handler.
Aware(c) ==
  aware' = [s \in Sigs |-> IF sigTo'[s] = {} THEN {} ELSE aware[s] \cup {c}]

\* Mutant: the old thread is left to itself.
RestartWithoutJoin(c, unmasked, next) ==
  LET active == ActiveSignals'
      mask == (blocked[c] \ unmasked) \cup active IN
    /\ blocked' = [blocked EXCEPT ![c] = mask]
    /\ Aware(c)
    /\ thread' = IF thread = "none" THEN "test" ELSE thread
    /\ waitSet' = active
    /\ pc' = [pc EXCEPT ![c] = next]
    /\ UNCHANGED <<stopFlag, mutex, then, wake, taken, todo>>

\* With m_mutex held and the tables updated: block the active signals in the
\* calling thread c, whose mask has already lost the signals in unmasked, then
\* stop the old thread and start a new one.  c keeps m_mutex while it joins.
Reconfigure(c, unmasked, next) ==
  LET active == ActiveSignals'
      mask == (blocked[c] \ unmasked) \cup active IN
    /\ Aware(c)
    /\ IF thread # "none"
         THEN /\ stopFlag' = TRUE
              /\ wake' = TRUE
              /\ mutex' = c
              /\ pc' = [pc EXCEPT ![c] = "joining"]
              /\ then' = [then EXCEPT ![c] = next]
              /\ blocked' = [blocked EXCEPT ![c] = mask]
              /\ UNCHANGED <<thread, waitSet, taken, todo>>
         ELSE /\ StartThread(c, active, mask)
              /\ pc' = [pc EXCEPT ![c] = next]
              /\ UNCHANGED <<stopFlag, mutex, then>>

\* The promise of wait lives until the call returns.
LeaveWait(c) ==
  IF pc'[c] = "idle"
    THEN waitId' = [waitId EXCEPT ![c] = 0] /\ promised' = promised \ {c}
    ELSE UNCHANGED <<waitId, promised>>

\* join returns; stopAllInternal ends there, the others start a new thread.
Join(c) ==
  /\ ended = "no"
  /\ pc[c] = "joining" /\ thread = "exit"
  /\ stopFlag' = FALSE
  /\ mutex' = Nobody
  /\ then' = [then EXCEPT ![c] = "idle"]
  /\ IF then[c] = "destroyed"
       THEN /\ thread' = "none"
            /\ ended' = "destroyed"
            /\ UNCHANGED <<waitSet, wake, taken, todo, blocked, pc>>
       ELSE /\ StartThread(c, ActiveSignals, blocked[c])
            /\ pc' = [pc EXCEPT ![c] = then[c]]
            /\ UNCHANGED ended
  /\ LeaveWait(c)
  /\ UNCHANGED <<registered, handlers, sigTo, nextId, ignored, pending, aware, raised,
                 killer>>

-----------------------------------------------------------------------------
(* The API.  Each operation takes m_mutex first. *)

Call(c) == ended = "no" /\ pc[c] = "idle" /\ mutex = Nobody

Register(S) ==
  /\ nextId <= MaxId
  /\ registered' = registered \cup {nextId}
  /\ handlers' = [handlers EXCEPT ![nextId] = S]
  /\ sigTo' = [s \in Sigs |-> IF s \in S THEN sigTo[s] \cup {nextId} ELSE sigTo[s]]
  /\ nextId' = nextId + 1

Unregister(i) ==
  /\ registered' = registered \ {i}
  /\ handlers' = [handlers EXCEPT ![i] = {}]
  /\ sigTo' = [s \in Sigs |-> sigTo[s] \ {i}]
  /\ UNCHANGED nextId

Notify(c, S) ==
  /\ Call(c)
  /\ Register(S)
  /\ Reconfigure(c, {}, "idle")
  /\ UNCHANGED <<waitId, promised, ignored, pending, raised, killer, ended>>

\* An id that is not registered (any more) is left alone.
Stop(c, i) ==
  /\ Call(c)
  /\ i \in registered
  /\ Unregister(i)
  /\ Reconfigure(c, {}, "idle")
  /\ UNCHANGED <<waitId, promised, ignored, pending, raised, killer, ended>>

StopAll(c) ==
  /\ Call(c)
  /\ registered' = {}
  /\ handlers' = [i \in Ids |-> {}]
  /\ sigTo' = [s \in Sigs |-> {}]
  /\ Reconfigure(c, {}, "idle")
  /\ UNCHANGED <<nextId, waitId, promised, ignored, pending, raised, killer, ended>>

\* reset({s}) and ignore({s}): no handler keeps the signal; its disposition
\* is set and the calling thread unblocks it, which delivers it if pending.
Forget(s) ==
  /\ handlers' = [i \in Ids |-> handlers[i] \ {s}]
  /\ sigTo' = [sigTo EXCEPT ![s] = {}]
  /\ UNCHANGED <<registered, nextId>>

Reset(c, s) ==
  /\ Call(c)
  /\ Forget(s)
  /\ ignored' = ignored \ {s}
  /\ pending' = pending \ {s}
  /\ ended' = IF s \in pending THEN "killed" ELSE "no"
  /\ killer' = IF s \in pending THEN s ELSE killer
  /\ Reconfigure(c, {s}, "idle")
  /\ UNCHANGED <<waitId, promised, raised>>

Ignore(c, s) ==
  /\ Call(c)
  /\ Forget(s)
  /\ ignored' = ignored \cup {s}
  /\ pending' = pending \ {s}
  /\ Reconfigure(c, {s}, "idle")
  /\ UNCHANGED <<waitId, promised, raised, killer, ended>>

\* wait(signals): register a temporary handler, block on its future, stop it.
Wait(c, S) ==
  /\ Call(c)
  /\ Register(S)
  /\ waitId' = [waitId EXCEPT ![c] = nextId]
  /\ Reconfigure(c, {}, "waiting")
  /\ UNCHANGED <<promised, ignored, pending, raised, killer, ended>>

WaitDone(c) ==
  /\ ended = "no" /\ mutex = Nobody
  /\ pc[c] = "waiting" /\ c \in promised
  /\ IF waitId[c] \in registered
       THEN Unregister(waitId[c]) /\ Reconfigure(c, {}, "idle")
       ELSE /\ pc' = [pc EXCEPT ![c] = "idle"]
            /\ UNCHANGED <<mutex, registered, handlers, sigTo, nextId, stopFlag,
                           thread, waitSet, taken, todo, wake, then, blocked, aware>>
  /\ LeaveWait(c)
  /\ UNCHANGED <<ignored, pending, raised, killer, ended>>

\* ~SignalManager, stopAllInternal, when no caller is inside.
Destroy(c) ==
  /\ Call(c)
  /\ \A d \in Clients : pc[d] = "idle"
  /\ registered' = {}
  /\ handlers' = [i \in Ids |-> {}]
  /\ sigTo' = [s \in Sigs |-> {}]
  /\ aware' = [s \in Sigs |-> {}]
  /\ IF thread # "none"
       THEN /\ stopFlag' = TRUE /\ wake' = TRUE /\ mutex' = c
            /\ pc' = [pc EXCEPT ![c] = "joining"]
            /\ then' = [then EXCEPT ![c] = "destroyed"]
            /\ UNCHANGED ended
       ELSE ended' = "destroyed" /\ UNCHANGED <<stopFlag, wake, mutex, pc, then>>
  /\ UNCHANGED <<nextId, thread, waitSet, taken, todo, waitId, promised, blocked,
                 ignored, pending, raised, killer>>

-----------------------------------------------------------------------------
(* The background thread. *)

clientVars == <<mutex, registered, handlers, sigTo, nextId, stopFlag, pc, then, waitId,
                blocked, ignored, aware, raised, killer>>

\* Mutant: the loop does not look at m_stopFlag.
ThreadTestForever ==
  /\ ended = "no" /\ thread = "test"
  /\ thread' = "sigwait"
  /\ UNCHANGED <<clientVars, waitSet, taken, todo, wake, promised, pending, ended>>

ThreadTest ==
  /\ ended = "no" /\ thread = "test"
  /\ thread' = IF stopFlag THEN "exit" ELSE "sigwait"
  /\ UNCHANGED <<clientVars, waitSet, taken, todo, wake, promised, pending, ended>>

\* sigwait returns the wakeup signal, which was sent to this thread and goes
\* first on Linux, or else another one it waits for.
ThreadSigwait ==
  /\ ended = "no" /\ thread = "sigwait"
  /\ \/ /\ wake
        /\ wake' = FALSE
        /\ thread' = "test"
        /\ UNCHANGED <<taken, pending>>
     \/ \E s \in pending \cap waitSet :
          /\ ~wake
          /\ pending' = pending \ {s}
          /\ taken' = s
          /\ thread' = "lock"
          /\ UNCHANGED wake
  /\ UNCHANGED <<clientVars, waitSet, todo, promised, ended>>

\* Look up the handlers under m_mutex.
ThreadLock ==
  /\ ended = "no" /\ thread = "lock" /\ mutex = Nobody
  /\ todo' = sigTo[taken] \cap registered
  /\ thread' = "call"
  /\ UNCHANGED <<clientVars, waitSet, taken, wake, promised, pending, ended>>

\* Call one handler, outside m_mutex.  The handler of a wait sets its promise;
\* setting it a second time throws, which ends the process.
ThreadCall ==
  /\ ended = "no" /\ thread = "call"
  /\ \/ /\ todo = {}
        /\ thread' = "test"
        /\ taken' = WakeupSig
        /\ UNCHANGED <<todo, promised, ended>>
     \/ \E i \in todo :
          /\ todo' = todo \ {i}
          /\ promised' = promised \cup {c \in Clients : waitId[c] = i}
          /\ ended' = IF \E c \in promised : waitId[c] = i THEN "terminate"
                                                           ELSE "no"
          /\ UNCHANGED <<thread, taken>>
  /\ UNCHANGED <<clientVars, waitSet, wake, pending>>

ThreadStep == ThreadTest \/ ThreadSigwait \/ ThreadLock \/ ThreadCall

-----------------------------------------------------------------------------
(* Signals sent to the process. *)

LiveThreads == Clients \cup (IF thread \in {"none", "exit"} THEN {} ELSE {Background})

Raise(s) ==
  /\ ended = "no" /\ raised < MaxRaise
  /\ raised' = raised + 1
  /\ \/ /\ \E t \in LiveThreads : s \notin blocked[t]
        /\ ended' = IF s \in ignored THEN "no" ELSE "killed"
        /\ killer' = IF s \in ignored THEN killer ELSE s
        /\ UNCHANGED pending
     \/ /\ \/ \A t \in LiveThreads : s \in blocked[t]
           \/ thread = "sigwait" /\ s \in waitSet
        /\ pending' = pending \cup {s}
        /\ UNCHANGED <<ended, killer>>
  /\ UNCHANGED <<mutex, registered, handlers, sigTo, nextId, stopFlag, thread,
                 waitSet, taken, todo, wake, pc, then, waitId, promised, blocked, ignored,
                 aware>>

-----------------------------------------------------------------------------

Api(c) ==
  \/ \E S \in SigLists : Notify(c, S) \/ Wait(c, S)
  \/ \E i \in 1 .. nextId - 1 : Stop(c, i)
  \/ \E s \in Sigs : Reset(c, s) \/ Ignore(c, s)
  \/ StopAll(c)
  \/ Destroy(c)

Next ==
  \/ \E c \in Clients : Api(c) \/ Join(c) \/ WaitDone(c)
  \/ ThreadStep
  \/ \E s \in Sigs : Raise(s)

Spec == Init /\ [][Next]_vars

\* The background thread runs, and a join or a future that is ready lets its
\* caller go on.  Nothing is assumed about calls and about signals.
FairSpec ==
  /\ Spec
  /\ WF_vars(ThreadStep)
  /\ \A c \in Clients : WF_vars(Join(c)) /\ SF_vars(WaitDone(c))

-----------------------------------------------------------------------------
(* Properties. *)

\* m_handlers and m_sigToHandlers are two views of the same registrations,
\* whatever sequence of notify, stop, reset and ignore led here.
TablesAgree ==
  \A s \in Sigs, i \in Ids :
    i \in sigTo[s] <=> i \in registered /\ s \in handlers[i]

\* Once stop (or stopAll) has returned, the handler is not called any more,
\* not even by a background thread that had copied it before: the call waits
\* for that thread.
StoppedIsQuiet == mutex = Nobody => todo \subseteq registered

\* The mask that reconfigureLocked calls global is that of the calling thread, so
\* a handled signal can kill the process through a client that has made no call
\* since the signal has its handler, and through the old thread as long as the
\* call that registers it has not returned; but in no other way, at whatever
\* point of a restart it comes: the callers since then, the thread that is being
\* joined and the one that is started all block it.
HandledSignalDoesNotKill ==
  ended = "killed" /\ sigTo[killer] # {} =>
    \/ \E c \in Clients : c \notin aware[killer]
    \/ mutex # Nobody /\ killer \notin waitSet

\* Every API call returns, unless the process ends.
ApiCallReturns ==
  \A c \in Clients : pc[c] = "joining" ~> pc[c] # "joining" \/ ended # "no"

\* The wakeup signal ends the thread wherever it is in its loop, so that every
\* API call returns, unless the thread has just taken another signal.
QuietApiCallReturns ==
  \A c \in Clients :
    pc[c] = "joining" ~> pc[c] # "joining" \/ ended # "no" \/ thread = "lock"

\* A pending signal that has a handler is taken by the background thread,
\* unless its handler goes, the process ends or a further API call comes.
PendingIsTaken ==
  \A s \in Sigs :
    s \in pending /\ sigTo[s] # {}
      ~> s \notin pending \/ sigTo[s] = {} \/ ended # "no" \/ mutex # Nobody

\* A caller of wait returns once a signal of its set has been taken.
WaitReturns ==
  \A c \in Clients : pc[c] = "waiting" /\ c \in promised
                       ~> pc[c] = "idle" \/ ended # "no"

\* wait waits for one signal: its handler is not called a second time, which
\* would throw in the background thread and end the process.
WaitTakesOneSignal == ended # "terminate"

\* What is registered is in both tables, and what is not any more is not called.
RegistrationsHold == TablesAgree /\ StoppedIsQuiet

\* While no signal is in the thread's hands wait and the other calls return.
QuietCallsReturn == WaitReturns /\ QuietApiCallReturns

=============================================================================
