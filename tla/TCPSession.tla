----------------------------- MODULE TCPSession -----------------------------
(***************************************************************************)
(* bre::impl::v1::TCPSession (net/tcp/tcp_session_impl_v1.hpp), the        *)
(* session with callbacks.                                                 *)
(*                                                                         *)
(* One thread of the io_context pool runs the handlers of a session, one   *)
(* at a time; Start runs on the thread that accepted the connection, Send  *)
(* and Stop on any thread.  Each call into Asio is one step, so that the   *)
(* steps of a handler, of Start and of Stop interleave.  An asynchronous   *)
(* operation is pending, then done with a result whose handler is queued;  *)
(* what is queued cannot be recalled, neither by closing the socket nor by *)
(* cancelling a timer.  Handlers of cancelled timers do nothing and are    *)
(* left out.  A message is a number; the header is good, bad or of length  *)
(* zero by choice of the peer.                                             *)
(***************************************************************************)
EXTENDS Naturals, Sequences

CONSTANTS
  Sessions,      \* identifiers of sessions
  Timeouts       \* whether the configured timeouts are above zero

ASSUME TimeoutsAssumption == Timeouts \in BOOLEAN

VARIABLE ses     \* one record per session

\* A session as constructed, its socket not yet open.
NewSession ==
  [init |-> FALSE,          \* _is_init_socket
   closed |-> FALSE,        \* _is_closed
   started |-> FALSE,       \* _is_started
   stop |-> "no",           \* how far the call of Stop that closes has come
   socket |-> "new",
   at |-> "idle",           \* where the thread of the session is in a handler
   readTimer |-> FALSE,     \* _read_timer is armed
   readExpired |-> FALSE,   \* its handler is queued with no error
   writeTimer |-> FALSE,
   writeExpired |-> FALSE,
   reading |-> "none",      \* the outstanding async_read: "header" or "data"
   readDone |-> "none",     \* its result
   isWriting |-> FALSE,     \* _is_writing
   queue |-> <<>>,          \* _write_queue
   posts |-> <<>>,          \* enqueue_write handlers posted to _strand
   writes |-> <<>>,         \* outstanding async_writes
   writeDone |-> "none",    \* the result of the first of them
   sent |-> <<>>,           \* what Send accepted, in order
   wire |-> <<>>]           \* what was written in full, in order

Update(s, r) == ses' = [ses EXCEPT ![s] = r]

-----------------------------------------------------------------------------
(* The pieces that handlers are made of. *)

\* The result of an operation that is started now: a closed socket fails it.
Started(r) == IF r.socket = "open" THEN "pending" ELSE "failed"

\* Mutant: the timer is reset but not waited for.
ResetReadTimerOnly(r) == [r EXCEPT !.readTimer = FALSE]

\* reset_read_timer: a timeout of zero means no timer.
ResetReadTimer(r) == [r EXCEPT !.readTimer = Timeouts]

AsyncRead(r, what) == [r EXCEPT !.reading = what, !.readDone = Started(r)]

\* async_write of the front of the queue; operations are served in order.
AsyncWrite(r) ==
  [r EXCEPT !.writes = Append(@, Head(r.queue)),
            !.writeDone = IF @ = "none" THEN Started(r) ELSE @]

\* The compare_exchange of Stop: one caller goes on, the others return.
BeginStop(r) ==
  IF r.closed THEN r
              ELSE [r EXCEPT !.closed = TRUE, !.init = FALSE, !.stop = "flag"]

\* Stop called by a handler: the thread of the session runs the rest of it.
StopHere(r) ==
  [BeginStop(r) EXCEPT !.at = IF r.closed THEN "idle" ELSE "stopping"]

\* The post of a Send whose test of _is_closed found the session open.  A Stop may
\* come in between, so the session may be closed by now.
Sent(r, m) == [r EXCEPT !.posts = Append(@, m), !.sent = Append(@, m)]

\* Start, up to its first call into Asio.
StartFlags(r) ==
  IF r.init /\ ~r.closed /\ ~r.started THEN [r EXCEPT !.started = TRUE] ELSE r

-----------------------------------------------------------------------------
(* The rest of Stop, run by the caller that closed the session. *)

StopTimers(s) ==
  /\ ses[s].stop = "flag"
  /\ Update(s, [ses[s] EXCEPT !.stop = "timers", !.readTimer = FALSE,
                              !.writeTimer = FALSE])

\* shutdown and close: what is pending ends with an error, end of file or
\* operation_aborted.
StopSocket(s) ==
  /\ ses[s].stop = "timers"
  /\ \E r, w \in {"failed", "aborted"} :
       Update(s, [ses[s] EXCEPT !.stop = "socket", !.socket = "closed",
                                !.readDone = IF @ = "pending" THEN r ELSE @,
                                !.writeDone = IF @ = "pending" THEN w ELSE @])

\* _disconnect_callback has returned.
StopReturns(s) ==
  /\ ses[s].stop = "socket"
  /\ Update(s, [ses[s] EXCEPT !.stop = "done",
                              !.at = IF @ = "stopping" THEN "idle" ELSE @])

-----------------------------------------------------------------------------
(* Handlers, on the thread of the session. *)

Idle(s) == ses[s].at = "idle"

\* A header or the data has arrived: expires_after calls off the earlier wait,
\* so that a timer which is rearmed again and again need never expire.
ReadDone(s) ==
  /\ Idle(s) /\ ses[s].readDone = "ok"
  /\ Update(s, [ses[s] EXCEPT !.readTimer = FALSE, !.readDone = "none",
                              !.reading = "none",
                              !.at = IF ses[s].reading = "header" THEN "header"
                                                                  ELSE "data"])

\* A new wait; then parse the header: bad, of length 0, or with data to come.
ParseHeader(s) ==
  /\ ses[s].at = "header"
  /\ \E next \in {"badHeader", "readHeader", "readData"} :
       Update(s, [ResetReadTimer(ses[s]) EXCEPT !.at = next])

\* A new wait; then hand the message over and read the next header.
DeliverMessage(s) ==
  /\ ses[s].at = "data"
  /\ Update(s, [ResetReadTimer(ses[s]) EXCEPT !.at = "readHeader"])

\* Parse failed: report and stop.
BadHeader(s) == ses[s].at = "badHeader" /\ Update(s, StopHere(ses[s]))

ReadNext(s) ==
  \E what \in {"header", "data"} :
     /\ ses[s].at = (IF what = "header" THEN "readHeader" ELSE "readData")
     /\ Update(s, [AsyncRead(ses[s], what) EXCEPT !.at = "idle"])

\* A read that was aborted is left alone, any other error stops the session.
ReadFailed(s) ==
  LET r == [ses[s] EXCEPT !.reading = "none", !.readDone = "none"]
  IN  /\ Idle(s) /\ ses[s].readDone \in {"failed", "aborted"}
      /\ Update(s, IF ses[s].readDone = "failed" THEN StopHere(r) ELSE r)

ReadTimeout(s) ==
  /\ Idle(s) /\ ses[s].readExpired
  /\ Update(s, StopHere([ses[s] EXCEPT !.readExpired = FALSE]))

WriteTimeout(s) ==
  /\ Idle(s) /\ ses[s].writeExpired
  /\ Update(s, StopHere([ses[s] EXCEPT !.writeExpired = FALSE]))

\* Mutant: the queue is written although a write is outstanding.
EnqueueAndWrite(s) ==
  /\ Idle(s) /\ ses[s].posts # <<>>
  /\ Update(s, [ses[s] EXCEPT !.posts = Tail(@),
                              !.queue = Append(@, Head(ses[s].posts)),
                              !.isWriting = TRUE, !.at = "doWrite"])

EnqueueWrite(s) ==
  /\ Idle(s) /\ ses[s].posts # <<>>
  /\ Update(s, [ses[s] EXCEPT !.posts = Tail(@),
                              !.queue = Append(@, Head(ses[s].posts)),
                              !.isWriting = TRUE,
                              !.at = IF ses[s].isWriting THEN "idle" ELSE "doWrite"])

\* do_write up to async_write: stop at an empty queue, else arm the timer.
DoWrite(s) ==
  /\ ses[s].at = "doWrite"
  /\ Update(s, IF ses[s].queue = <<>>
                 THEN [ses[s] EXCEPT !.isWriting = FALSE, !.at = "idle"]
                 ELSE [ses[s] EXCEPT !.writeTimer = Timeouts, !.at = "asyncWrite"])

WriteNext(s) ==
  /\ ses[s].at = "asyncWrite"
  /\ Update(s, [AsyncWrite(ses[s]) EXCEPT !.at = "idle"])

\* The handler of async_write.  After an abort _is_writing stays set.
WriteHandler(s) ==
  LET done == ses[s].writeDone
      rest == Tail(ses[s].writes)
      r == [ses[s] EXCEPT !.writeTimer = FALSE, !.writes = rest,
                          !.writeDone = IF rest = <<>> THEN "none" ELSE "pending"]
  IN  /\ Idle(s) /\ done \in {"ok", "failed", "aborted"}
      /\ Update(s, CASE done = "ok" -> [r EXCEPT !.queue = Tail(@), !.at = "doWrite"]
                     [] done = "failed" -> StopHere([r EXCEPT !.isWriting = FALSE])
                     [] done = "aborted" -> r)

-----------------------------------------------------------------------------
(* The network and the clock. *)

ReadCompletes(s) ==
  /\ ses[s].readDone = "pending"
  /\ \E r \in {"ok", "failed"} : Update(s, [ses[s] EXCEPT !.readDone = r])

WriteCompletes(s) ==
  /\ ses[s].writeDone = "pending"
  /\ \/ Update(s, [ses[s] EXCEPT !.writeDone = "ok",
                                 !.wire = Append(@, Head(ses[s].writes))])
     \/ Update(s, [ses[s] EXCEPT !.writeDone = "failed"])

ReadTimerExpires(s) ==
  /\ ses[s].readTimer
  /\ Update(s, [ses[s] EXCEPT !.readTimer = FALSE, !.readExpired = TRUE])

WriteTimerExpires(s) ==
  /\ ses[s].writeTimer
  /\ Update(s, [ses[s] EXCEPT !.writeTimer = FALSE, !.writeExpired = TRUE])

-----------------------------------------------------------------------------
ReadHandler(s) == ReadDone(s) \/ ReadFailed(s)
Continue(s) ==
  \/ ParseHeader(s) \/ DeliverMessage(s) \/ BadHeader(s) \/ ReadNext(s)
  \/ DoWrite(s) \/ WriteNext(s)

\* The steps a session takes by itself; the owner adds Start, Send, Stop and
\* the return of Stop, which calls back into it.
SessionStep(s) ==
  \/ ReadHandler(s) \/ ReadTimeout(s) \/ WriteTimeout(s)
  \/ EnqueueWrite(s) \/ WriteHandler(s) \/ Continue(s)
  \/ StopTimers(s) \/ StopSocket(s)
  \/ ReadCompletes(s) \/ WriteCompletes(s)
  \/ ReadTimerExpires(s) \/ WriteTimerExpires(s)

\* A handler that is queued, pending or running holds the session.
HeldByHandler(r) ==
  \/ r.at # "idle" \/ r.reading # "none"
  \/ r.writes # <<>> \/ r.posts # <<>>
  \/ r.readTimer \/ r.readExpired \/ r.writeTimer \/ r.writeExpired

=============================================================================
