----------------------------- MODULE TCPServer ------------------------------
(***************************************************************************)
(* bre::TCPServer (net/tcp/tcp_server.hpp) with its sessions.              *)
(*                                                                         *)
(* One thread runs the io_context of the server and with it handle_accept; *)
(* application threads call the rest.  A critical section of _mutex is one *)
(* step.  Start is one step; Stop and handle_accept are one step per call  *)
(* that another thread can see.                                            *)
(***************************************************************************)
EXTENDS TCPSession, FiniteSetsExt

CONSTANTS
  MaxSends       \* bound: calls of Send and Broadcast

ASSUME SessionsAssumption == Sessions \subseteq Nat \ {0}
ASSUME MaxSendsAssumption == MaxSends \in Nat

VARIABLES
  isRunning,     \* _is_running
  acceptor,      \* whether _acceptor is open
  accept,        \* the async_accept into each session: its result
  accepting,     \* where the accepting thread is in handle_accept
  newcomer,      \* the session handle_accept works on, 0 for none
  table,         \* keys of _sessions
  connected,     \* sessions handed to on_connected
  context,       \* whether _io_context still runs handlers
  stopping,      \* where Stop is
  snapshot,      \* session_ids still to be disconnected by Stop
  closing,       \* the session that Stop is closing, 0 for none
  sends          \* calls of Send and Broadcast so far

server == <<isRunning, acceptor, accept, accepting, newcomer, connected,
            context, stopping, snapshot, closing>>
vars == <<ses, server, table, sends>>

Init ==
  /\ ses = [s \in Sessions |-> NewSession]
  /\ isRunning = FALSE
  /\ acceptor = TRUE
  /\ accept = [s \in Sessions |-> "none"]
  /\ accepting = "idle"
  /\ newcomer = 0
  /\ table = {}
  /\ connected = {}
  /\ context = TRUE
  /\ stopping = "no"
  /\ snapshot = {}
  /\ closing = 0
  /\ sends = 0

-----------------------------------------------------------------------------
(* Accepting. *)

\* start_accept: async_accept into a new session.  Sessions are numbered in the
\* order of their creation, and the constant bounds how many there are.
StartAccept(a) ==
  LET uncreated == {s \in Sessions : a[s] = "none"}
  IN  accept' = IF uncreated = {} THEN a ELSE [a EXCEPT ![Min(uncreated)] = "pending"]

\* A server is started once: after Stop its acceptor is closed and its context
\* stopped for good, and Start has nothing to run.
Start ==
  /\ ~isRunning /\ acceptor
  /\ isRunning' = TRUE
  /\ StartAccept(accept)
  /\ UNCHANGED <<ses, acceptor, accepting, newcomer, table, connected, context,
                 stopping, snapshot, closing, sends>>

\* A peer connects, or accepting fails.
AcceptCompletes(s) ==
  /\ accept[s] = "pending"
  /\ \/ /\ accept' = [accept EXCEPT ![s] = "ok"]
        /\ Update(s, [ses[s] EXCEPT !.socket = "open"])
     \/ /\ accept' = [accept EXCEPT ![s] = "failed"]
        /\ UNCHANGED ses
  /\ UNCHANGED <<isRunning, acceptor, accepting, newcomer, table, connected,
                 context, stopping, snapshot, closing, sends>>

\* The end of handle_accept.
AcceptMore(a) == IF isRunning THEN StartAccept(a) ELSE accept' = a

\* handle_accept, up to the end of the critical section that adds the session.
HandleAccept(s) ==
  /\ context /\ accepting = "idle"
  /\ accept[s] \in {"ok", "failed", "aborted"}
  /\ LET handled == [accept EXCEPT ![s] = "handled"]
     IN  IF accept[s] = "ok"
           THEN /\ accept' = handled
                /\ accepting' = "start" /\ newcomer' = s
                /\ table' = table \cup {s}
           ELSE /\ AcceptMore(handled)
                /\ UNCHANGED <<accepting, newcomer, table>>
  /\ UNCHANGED <<ses, isRunning, acceptor, connected, context, stopping,
                 snapshot, closing, sends>>

\* Mutant: Start comes before SetInitSocket.
StartBeforeInit ==
  /\ accepting = "start"
  /\ Update(newcomer, [StartFlags(ses[newcomer]) EXCEPT !.init = TRUE])
  /\ accepting' = IF ses'[newcomer].started THEN "timer" ELSE "connected"
  /\ UNCHANGED <<isRunning, acceptor, accept, newcomer, table, connected, context,
                 stopping, snapshot, closing, sends>>

\* SetInitSocket(true), and Start of the session up to its flags.
StartSession ==
  /\ accepting = "start"
  /\ Update(newcomer, StartFlags([ses[newcomer] EXCEPT !.init = TRUE]))
  /\ accepting' = IF ses'[newcomer].started THEN "timer" ELSE "connected"
  /\ UNCHANGED <<isRunning, acceptor, accept, newcomer, table, connected, context,
                 stopping, snapshot, closing, sends>>

\* The rest of Start of the session: arm the timer, read the first header.
StartTimer ==
  /\ accepting = "timer"
  /\ Update(newcomer, ResetReadTimer(ses[newcomer]))
  /\ accepting' = "read"
  /\ UNCHANGED <<isRunning, acceptor, accept, newcomer, table, connected, context,
                 stopping, snapshot, closing, sends>>

StartRead ==
  /\ accepting = "read"
  /\ Update(newcomer, AsyncRead(ses[newcomer], "header"))
  /\ accepting' = "connected"
  /\ UNCHANGED <<isRunning, acceptor, accept, newcomer, table, connected, context,
                 stopping, snapshot, closing, sends>>

\* on_connected, and the end of handle_accept.
OnConnected ==
  /\ accepting = "connected"
  /\ connected' = connected \cup {newcomer}
  /\ accepting' = "idle"
  /\ newcomer' = 0
  /\ AcceptMore(accept)
  /\ UNCHANGED <<ses, isRunning, acceptor, table, context, stopping, snapshot,
                 closing, sends>>

Accepting ==
  \/ \E s \in Sessions : HandleAccept(s)
  \/ StartSession \/ StartTimer \/ StartRead \/ OnConnected

-----------------------------------------------------------------------------
(* Application threads. *)

\* The application finds a session in the table or was given it.
Reachable(s) == s \in table \cup connected

\* A call that finds no open session changes nothing and is left out.  One that
\* does may post at any later time: to an open session, or to one that was closed,
\* and perhaps erased, since the call tested it.
Send(s) ==
  /\ sends < MaxSends /\ (Reachable(s) \/ ses[s].closed)
  /\ sends' = sends + 1
  /\ Update(s, Sent(ses[s], sends + 1))
  /\ UNCHANGED <<server, table>>

\* Send for every session of the table, which stays as it is since _mutex is held.
Broadcast ==
  /\ sends < MaxSends
  /\ \E found \in SUBSET table :
       /\ found # {} /\ \A s \in table \ found : ses[s].closed
       /\ ses' = [s \in Sessions |-> IF s \in found THEN Sent(ses[s], sends + 1)
                                                    ELSE ses[s]]
  /\ sends' = sends + 1
  /\ UNCHANGED <<server, table>>

\* DisconnectSession, or Stop of a session by its holder.
Disconnect(s) ==
  /\ Reachable(s) /\ ~ses[s].closed
  /\ Update(s, BeginStop(ses[s]))
  /\ UNCHANGED <<server, table, sends>>

\* Mutant: the disconnect callback leaves the table alone.
DisconnectedKept(s) ==
  /\ StopReturns(s)
  /\ UNCHANGED <<server, table, sends>>

\* The disconnect callback removes the session, and Stop returns.
Disconnected(s) ==
  /\ StopReturns(s)
  /\ table' = table \ {s}
  /\ UNCHANGED <<server, sends>>

-----------------------------------------------------------------------------
(* Stop of the server. *)

\* Stop up to the snapshot; the acceptor aborts a pending accept, while the
\* handler of one that is done stays queued.
Stop ==
  /\ isRunning
  /\ isRunning' = FALSE
  /\ acceptor' = FALSE
  /\ accept' = [s \in Sessions |-> IF accept[s] = "pending" THEN "aborted"
                                                             ELSE accept[s]]
  /\ snapshot' = table
  /\ stopping' = "sessions"
  /\ UNCHANGED <<ses, accepting, newcomer, table, connected, context, closing,
                 sends>>

\* A call of Stop that this thread has begun must return first.
Free == \A s \in Sessions : closing = s => ses[s].stop = "done"

StopSessions ==
  /\ stopping = "sessions" /\ Free /\ snapshot # {}
  /\ LET s == Min(snapshot)
         wins == s \in table /\ ~ses[s].closed
     IN  /\ snapshot' = snapshot \ {s}
         /\ closing' = IF wins THEN s ELSE 0
         /\ Update(s, IF wins THEN BeginStop(ses[s]) ELSE ses[s])
  /\ UNCHANGED <<isRunning, acceptor, accept, accepting, newcomer, table,
                 connected, context, stopping, sends>>

ClearTable ==
  /\ stopping = "sessions" /\ Free /\ snapshot = {}
  /\ closing' = 0
  /\ table' = {}
  /\ stopping' = "context"
  /\ UNCHANGED <<ses, isRunning, acceptor, accept, accepting, newcomer,
                 connected, context, snapshot, sends>>

StopContext ==
  /\ stopping = "context"
  /\ context' = FALSE
  /\ stopping' = "no"
  /\ UNCHANGED <<ses, isRunning, acceptor, accept, accepting, newcomer, table,
                 connected, snapshot, closing, sends>>

Stopping ==
  StopSessions \/ ClearTable \/ StopContext

-----------------------------------------------------------------------------
\* What a session does by itself leaves the server alone.
Apart == UNCHANGED <<server, table, sends>>

Next ==
  \/ Start \/ Stop \/ Stopping \/ Accepting \/ Broadcast
  \/ \E s \in Sessions :
       \/ AcceptCompletes(s) \/ Send(s) \/ Disconnect(s) \/ Disconnected(s)
       \/ SessionStep(s) /\ Apart

Spec == Init /\ [][Next]_vars

\* Threads run, time passes, and an io_context serves its handlers in the
\* order they were queued: a queued handler is not overtaken for ever.
Fairness ==
  /\ WF_vars(Accepting) /\ WF_vars(Stopping)
  /\ \A s \in Sessions :
       /\ WF_vars(Apart /\ Continue(s))
       /\ WF_vars(Apart /\ (StopTimers(s) \/ StopSocket(s)))
       /\ WF_vars(Disconnected(s))
       /\ WF_vars(Apart /\ ReadTimerExpires(s))
       /\ WF_vars(Apart /\ WriteTimerExpires(s))
       /\ SF_vars(Apart /\ ReadHandler(s))
       /\ SF_vars(Apart /\ EnqueueWrite(s))
       /\ SF_vars(Apart /\ WriteHandler(s))
       /\ SF_vars(Apart /\ (ReadTimeout(s) \/ WriteTimeout(s)))

FairSpec == Spec /\ Fairness

-----------------------------------------------------------------------------
(* Properties. *)

\* Whatever becomes of the session, the messages that Send accepted are on the
\* wire, queued or posted, each once and in the order of the calls (enqueue_write
\* and do_write keep one async_write outstanding).
SentIsKept ==
  \A s \in Sessions :
    LET r == ses[s]
        unwritten == IF r.writeDone = "ok" THEN Tail(r.queue) ELSE r.queue
    IN  r.wire \o unwritten \o r.posts = r.sent

\* An open session in the table is held by a handler or by handle_accept as
\* well: erasing it under _mutex never runs ~TCPSession, whose Stop would lock
\* _mutex again.
TableIsNotLastOwner ==
  \A s \in table : ses[s].closed \/ HeldByHandler(ses[s]) \/ newcomer = s

\* A message that Send accepted is written or the session is closed, whether or
\* not the peer reads (the write timeout).
SendEnds ==
  \A s \in Sessions, m \in 1..MaxSends :
    (\E i \in 1..Len(ses[s].sent) : ses[s].sent[i] = m)
      ~> (ses[s].closed \/ \E i \in 1..Len(ses[s].wire) : ses[s].wire[i] = m)

\* A session does not wait for a silent peer for ever (the read timeout).
PendingReadEnds ==
  \A s \in Sessions :
    ses[s].readDone = "pending" ~> (ses[s].closed \/ ses[s].readDone # "pending")

\* A closed session is let go: Stop completes, the table drops it, and no
\* handler, not even one armed while Stop was running, holds it for ever.
ClosedIsReleased ==
  \A s \in Sessions :
    ses[s].closed ~> /\ ses[s].stop = "done"
                     /\ s \notin table
                     /\ ~HeldByHandler(ses[s])

\* No operation of a session waits for its peer for ever.
PendingOperationsEnd == SendEnds /\ PendingReadEnds

=============================================================================
