------------------------------ MODULE TCPClient ------------------------------
(***************************************************************************)
(* TCPClient (net/tcp/tcp_client.hpp): connection attempts of one client.  *)
(* The handlers of the resolver and of the client's one timer run on the   *)
(* thread of the client's io_context, the handler of a connect on the one  *)
(* of its session's.  That handler refers to a session and to callbacks    *)
(* that are gone when it runs: it does what it says, or anything.          *)
(***************************************************************************)
EXTENDS Integers

CONSTANT Attempts  \* calls of Connect and of ConnectAync

VARIABLES
  timeout,   \* _config.connect_timeout is positive
  owned,      \* the program holds the client
  attempt,   \* where each attempt is
  wait,      \* its wait on _connect_timer
  connect,   \* its async_connect
  session,   \* its session
  told,      \* callbacks its caller has had
  returned,  \* what Connect returned
  misused     \* freed memory was used

connectVars == <<timeout, owned, attempt, wait, connect, session, told, returned, misused>>

\* A pending connect holds the client (self), a resolve does not.
HeldByConnect == \E a \in Attempts : attempt[a] \in {"connecting", "cancelled"}

ClientLives == owned \/ HeldByConnect

Tell(a, callback) == told' = [told EXCEPT ![a] = @ \cup {callback}]

ClientInit ==
  /\ timeout \in BOOLEAN
  /\ owned = TRUE
  /\ attempt = [a \in Attempts |-> "idle"]
  /\ wait = [a \in Attempts |-> "none"]
  /\ connect = [a \in Attempts |-> "none"]
  /\ session = [a \in Attempts |-> "none"]
  /\ told = [a \in Attempts |-> {}]
  /\ returned = [a \in Attempts |-> "none"]
  /\ misused = FALSE

-----------------------------------------------------------------------------
(* Connect blocks its caller, and shares nothing with the other attempts.  *)

Connected(a, result, s, callback) ==
  /\ owned /\ attempt[a] = "idle"
  /\ attempt' = [attempt EXCEPT ![a] = "done"]
  /\ session' = [session EXCEPT ![a] = s]
  /\ returned' = [returned EXCEPT ![a] = result]
  /\ Tell(a, callback)
  /\ UNCHANGED <<timeout, owned, wait, connect, misused>>

\* A failed connect returns the session all the same.
Connect(a) ==
  \/ Connected(a, "nullptr", "none", "on_failed")
  \/ Connected(a, "session", "live", "on_failed")
  \/ Connected(a, "session", "started", "on_connected")

-----------------------------------------------------------------------------
(* What ends a session: Stop, called or by ~TCPSession.  It calls          *)
(* on_disconnect once and closes the socket, which aborts the connect.     *)

Stops(a) == session[a] \in {"live", "started"}

\* Mutant: Stop does not call on_disconnect.
AfterSilentStop(a) ==
  /\ session' = [session EXCEPT ![a] = IF Stops(a) THEN "closed" ELSE @]
  /\ connect' = [connect EXCEPT ![a] = IF @ = "pending" THEN "aborted" ELSE @]
  /\ UNCHANGED told

AfterStop(a) ==
  /\ session' = [session EXCEPT ![a] = IF Stops(a) THEN "closed" ELSE @]
  /\ connect' = [connect EXCEPT ![a] = IF @ = "pending" THEN "aborted" ELSE @]
  /\ told' = [told EXCEPT ![a] = IF Stops(a) THEN @ \cup {"on_disconnect"} ELSE @]

\* cancel and expires_after abort the waits that have not expired.
Cancelled == [a \in Attempts |-> IF wait[a] = "waiting" THEN "aborted" ELSE wait[a]]

-----------------------------------------------------------------------------
(* ConnectAync.                                                            *)

ConnectAync(a) ==
  /\ owned /\ attempt[a] = "idle"
  /\ attempt' = [attempt EXCEPT ![a] = "resolving"]
  /\ UNCHANGED <<timeout, owned, wait, connect, session, told, returned, misused>>

ResolveFails(a) ==
  /\ attempt[a] = "resolving"
  /\ attempt' = [attempt EXCEPT ![a] = "done"]
  /\ Tell(a, "on_failed")
  /\ UNCHANGED <<timeout, owned, wait, connect, session, returned, misused>>

\* start_connect_async.  Only the handler of the timer holds the session:
\* without a timeout the session ends with the function.
Resolve(a) ==
  /\ attempt[a] = "resolving"
  /\ IF ~ClientLives
       THEN misused' = TRUE /\ UNCHANGED <<attempt, wait, connect, session, told>>
     ELSE
       /\ attempt' = [attempt EXCEPT ![a] = "connecting"]
       /\ wait' = IF timeout THEN [Cancelled EXCEPT ![a] = "waiting"] ELSE wait
       /\ connect' = [connect EXCEPT ![a] = IF timeout THEN "pending" ELSE "aborted"]
       /\ session' = [session EXCEPT ![a] = IF timeout THEN "live" ELSE "closed"]
       /\ told' = [told EXCEPT ![a] = IF timeout THEN @ ELSE @ \cup {"on_disconnect"}]
       /\ UNCHANGED misused
  /\ UNCHANGED <<timeout, owned, returned>>

\* External: the time is over, and the handler of the wait is queued.
Expire(a) ==
  /\ wait[a] = "waiting"
  /\ wait' = [wait EXCEPT ![a] = "expired"]
  /\ UNCHANGED <<timeout, owned, attempt, connect, session, told, returned, misused>>

\* The handler of the wait, after the time: Stop, and then on_failed.
TimeoutStop(a) ==
  /\ wait[a] = "expired"
  /\ wait' = [wait EXCEPT ![a] = "stopped"]
  /\ AfterStop(a)
  /\ UNCHANGED <<timeout, owned, attempt, returned, misused>>

TimeoutReport(a) ==
  /\ wait[a] = "stopped"
  /\ wait' = [wait EXCEPT ![a] = "done"]
  /\ Tell(a, "on_failed")
  /\ UNCHANGED <<timeout, owned, attempt, connect, session, returned, misused>>

\* The handler of an aborted wait does nothing, and lets go of the session: one
\* that is not started has no other owner.
WaitAborted(a) ==
  /\ wait[a] = "aborted"
  /\ wait' = [wait EXCEPT ![a] = "done"]
  /\ IF session[a] = "live" THEN AfterStop(a) ELSE UNCHANGED <<session, connect, told>>
  /\ UNCHANGED <<timeout, owned, attempt, returned, misused>>

\* External: the system ends a connect.
ConnectEnds(a, result) ==
  /\ connect[a] = "pending"
  /\ connect' = [connect EXCEPT ![a] = result]
  /\ UNCHANGED <<timeout, owned, attempt, wait, session, told, returned, misused>>

\* The handler of async_connect: it cancels the timer, and with it the waits of
\* other attempts, and goes on while their handlers run.
ConnectHandler(a) ==
  /\ attempt[a] = "connecting" /\ connect[a] # "pending"
  /\ wait' = Cancelled
  /\ attempt' = [attempt EXCEPT ![a] = "cancelled"]
  /\ UNCHANGED <<timeout, owned, connect, session, told, returned, misused>>

Breaks ==
  misused' = TRUE /\ UNCHANGED <<session, told>>

\* An error: an abort is not reported.
ReportsError(a) ==
  /\ IF connect[a] # "aborted" THEN Tell(a, "on_failed") ELSE UNCHANGED told
  /\ UNCHANGED <<session, misused>>

\* SetInitSocket, Start, which does nothing for a closed session, on_connected.
ReportsSession(a) ==
  /\ session' = [session EXCEPT ![a] = IF @ = "live" THEN "started" ELSE @]
  /\ Tell(a, "on_connected")
  /\ UNCHANGED misused

ConnectReport(a) ==
  /\ attempt[a] = "cancelled"
  /\ attempt' = [attempt EXCEPT ![a] = "done"]
  /\ \/ Breaks
     \/ connect[a] # "ok" /\ ReportsError(a)
     \/ connect[a] = "ok" /\ wait[a] # "done" /\ ReportsSession(a)
  /\ UNCHANGED <<timeout, owned, wait, connect, returned>>

\* ~TCPClient ends the timer and its waits.
ReleaseClient ==
  /\ owned
  /\ owned' = FALSE
  /\ wait' = IF HeldByConnect THEN wait ELSE Cancelled
  /\ UNCHANGED <<timeout, attempt, connect, session, told, returned, misused>>

Handlers(a) ==
  \/ ResolveFails(a) \/ Resolve(a) \/ TimeoutStop(a) \/ TimeoutReport(a) \/ WaitAborted(a)
  \/ \E result \in {"ok", "error"} : ConnectEnds(a, result)
  \/ ConnectHandler(a) \/ ConnectReport(a)

ClientNext ==
  /\ ~misused
  /\ \/ \E a \in Attempts : Connect(a) \/ ConnectAync(a) \/ Expire(a) \/ Handlers(a)
     \/ ReleaseClient

-----------------------------------------------------------------------------

\* An attempt is over only when its caller has been told something.
DoneIsTold == \A a \in Attempts : attempt[a] = "done" => told[a] # {} \/ misused

\* The caller of ConnectAync hears of its attempt: from the connect, from its
\* timeout, or that the session is disconnected.  An abort is silent only when
\* something else has spoken, also for an attempt whose wait another attempt has
\* cancelled.
AttemptIsAnswered ==
  \A a \in Attempts : attempt[a] = "resolving" ~> (told[a] # {} \/ misused)
=============================================================================
