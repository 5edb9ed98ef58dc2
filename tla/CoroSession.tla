----------------------------- MODULE CoroSession -----------------------------
(***************************************************************************)
(* The coroutine implementation of TCPSession                              *)
(* (net/tcp/tcp_session_impl_v2.hpp, built with BRE_CORO): a read loop and *)
(* a write loop that take turns on the session's strand, the writes polled *)
(* from a queue that Send fills through the strand.  The timers of the     *)
(* read and write timeouts are set and cancelled and never waited for, so  *)
(* they change nothing.                                                    *)
(***************************************************************************)
EXTENDS Integers, Sequences, FiniteSets

CONSTANTS
  Messages,  \* messages, each sent once by a thread of its own
  NoMessage, \* no message
  MaxFrames  \* bound: headers that the peer sends

VARIABLES
  held,         \* the program holds the session
  initialised,  \* _is_init_socket
  isStarted,    \* _is_started
  isClosed,     \* _is_closed
  socket,       \* _socket is open
  sending,      \* Sends between the test of _is_closed and the post
  unsent,       \* messages Send was not called with
  strand,       \* what waits to run on _strand, in the order of posting
  loop,         \* what each loop was suspended for
  operations,   \* the operations of the loops that are not complete
  writeQueue,   \* _write_queue
  wire,         \* messages written
  frames,       \* headers the peer has sent
  freed         \* freed memory was used

programVars == <<held, initialised, isStarted, sending, unsent>>
networkVars == <<wire, frames>>
sessionVars == <<programVars, isClosed, socket, strand, loop, operations, writeQueue,
                 networkVars, freed>>

Push(m) == [task |-> "push", what |-> m]
Resume(l, ec) == [task |-> l, what |-> ec]
Suspended(at, m) == [at |-> at, m |-> m]
Loops == {"read", "write"}

SessionInit ==
  /\ held = TRUE /\ initialised = FALSE /\ isStarted = FALSE
  /\ sending = {} /\ unsent = Messages
  /\ isClosed = FALSE /\ socket = TRUE /\ strand = <<>>
  /\ loop = [l \in Loops |-> Suspended("none", NoMessage)]
  /\ operations = {} /\ writeQueue = <<>> /\ wire = <<>> /\ frames = 0 /\ freed = FALSE

Ended(l) == loop[l].at = "ended"

-----------------------------------------------------------------------------
(* Calls of the program.                                                   *)

\* SetInitSocket and Start, as the server and the client call them: the loops
\* are spawned on the strand.
StartSession ==
  /\ held /\ ~isClosed /\ ~isStarted
  /\ initialised' = TRUE /\ isStarted' = TRUE
  /\ loop' = [l \in Loops |-> Suspended("spawned", NoMessage)]
  /\ strand' = strand \o <<Resume("read", "ok"), Resume("write", "ok")>>
  /\ UNCHANGED <<held, sending, unsent, isClosed, socket, operations, writeQueue,
                 networkVars, freed>>

SendTest(m) ==
  /\ held /\ m \in unsent
  /\ unsent' = unsent \ {m}
  /\ sending' = IF isClosed THEN sending ELSE sending \cup {m}
  /\ UNCHANGED <<held, initialised, isStarted, isClosed, socket, strand, loop, operations,
                 writeQueue, networkVars, freed>>

SendPost(m) ==
  /\ m \in sending
  /\ sending' = sending \ {m}
  /\ strand' = Append(strand, Push(m))
  /\ UNCHANGED <<held, initialised, isStarted, unsent, isClosed, socket, loop, operations,
                 writeQueue, networkVars, freed>>

\* Closing the socket aborts the operations on it.
AbortedLoops ==
  LET Abort(l) == IF l \in operations THEN <<Resume(l, "aborted")>> ELSE <<>>
  IN  Abort("read") \o Abort("write")

\* Stop, on a thread of the program: the flags first, then the socket.
StopFlags ==
  /\ held /\ ~isClosed
  /\ isClosed' = TRUE /\ initialised' = FALSE
  /\ UNCHANGED <<held, isStarted, sending, unsent, socket, strand, loop, operations,
                 writeQueue, networkVars, freed>>

StopSocket ==
  /\ isClosed /\ socket
  /\ socket' = FALSE
  /\ strand' = strand \o AbortedLoops
  /\ operations' = operations \ Loops
  /\ UNCHANGED <<programVars, isClosed, loop, writeQueue, networkVars, freed>>

ReleaseSession ==
  /\ held
  /\ held' = FALSE
  /\ UNCHANGED <<initialised, isStarted, sending, unsent, isClosed, socket, strand, loop,
                 operations, writeQueue, networkVars, freed>>

-----------------------------------------------------------------------------
(* The strand.                                                             *)

\* A loop holds the session until it ends, a posted push does not.
Lives ==
  held \/ sending # {} \/ \E l \in Loops : loop[l].at \notin {"none", "ended"}

RunPush ==
  /\ strand # <<>> /\ Head(strand).task = "push"
  /\ strand' = Tail(strand)
  /\ IF Lives
       THEN writeQueue' = Append(writeQueue, Head(strand).what) /\ UNCHANGED freed
       ELSE freed' = TRUE /\ UNCHANGED writeQueue
  /\ UNCHANGED <<programVars, isClosed, socket, loop, operations, networkVars>>

Again == IF isClosed THEN "ended" ELSE "header"

\* What the read loop does with the end of the operation it was suspended for.
\* An abort of the header throws, one of the data goes on to the loop's test.
ReadGoesTo(ec) ==
  CASE loop["read"].at = "spawned" -> Again
    [] loop["read"].at = "header" ->
         IF isClosed THEN "ended"
         ELSE IF ec = "data" THEN "data" ELSE IF ec = "empty" THEN "header" ELSE "failed"
    [] OTHER -> IF ec = "error" THEN "failed" ELSE Again

\* Mutant: the loop ends when it has found the queue empty.
WriteGoesToOnce(ec) ==
  IF loop["write"].at = "writing" /\ ec = "error" THEN "failed"
  ELSE IF isClosed THEN "ended"
  ELSE IF writeQueue # <<>> THEN "writing"
  ELSE IF loop["write"].at = "waiting" THEN "ended" ELSE "waiting"

\* The write loop looks again every 10 ms, ten times and from the start again.
WriteGoesTo(ec) ==
  IF loop["write"].at = "writing" /\ ec = "error" THEN "failed"
  ELSE IF isClosed THEN "ended"
  ELSE IF writeQueue # <<>> THEN "writing" ELSE "waiting"

\* The loop is suspended for an operation: on a closed socket it fails at once.
Suspends(l, at, m) ==
  /\ loop' = [loop EXCEPT ![l] = Suspended(at, m)]
  /\ IF at = "waiting"
     THEN operations' = operations \cup {"timer"} /\ strand' = Tail(strand)
     ELSE IF socket THEN operations' = operations \cup {l} /\ strand' = Tail(strand)
     ELSE strand' = Append(Tail(strand), Resume(l, "error")) /\ UNCHANGED operations
  /\ UNCHANGED <<initialised, isClosed, socket>>

\* handle_error and Stop: the first Stop closes the socket.
Fails(l) ==
  /\ loop' = [loop EXCEPT ![l] = Suspended("ended", NoMessage)]
  /\ isClosed' = TRUE
  /\ initialised' = FALSE
  /\ IF isClosed
       THEN strand' = Tail(strand) /\ UNCHANGED <<socket, operations>>
       ELSE /\ socket' = FALSE
            /\ strand' = Tail(strand) \o AbortedLoops
            /\ operations' = operations \ Loops

Ends(l) ==
  /\ loop' = [loop EXCEPT ![l] = Suspended("ended", NoMessage)]
  /\ strand' = Tail(strand)
  /\ UNCHANGED <<initialised, isClosed, socket, operations>>

RunLoop(l, at, m) ==
  CASE at = "failed" -> Fails(l)
    [] at = "ended" -> Ends(l)
    [] OTHER -> Suspends(l, at, m)

RunRead ==
  /\ strand # <<>> /\ Head(strand).task = "read"
  /\ RunLoop("read", ReadGoesTo(Head(strand).what), NoMessage)
  /\ UNCHANGED <<held, isStarted, sending, unsent, writeQueue, networkVars, freed>>

RunWrite ==
  /\ strand # <<>> /\ Head(strand).task = "write"
  /\ LET at == WriteGoesTo(Head(strand).what) IN
       IF at = "writing"
         THEN /\ RunLoop("write", at, Head(writeQueue))
              /\ writeQueue' = Tail(writeQueue)
         ELSE /\ RunLoop("write", at, NoMessage)
              /\ UNCHANGED writeQueue
  /\ UNCHANGED <<held, isStarted, sending, unsent, networkVars, freed>>

-----------------------------------------------------------------------------
(* External: the ends of operations.  A header comes with data or without, *)
(* or is not one.                                                          *)

Completes(op, l, ec) ==
  /\ op \in operations
  /\ operations' = operations \ {op}
  /\ strand' = Append(strand, Resume(l, ec))
  /\ UNCHANGED <<programVars, isClosed, socket, loop, writeQueue, freed>>

HeaderArrives(ec) ==
  /\ loop["read"].at = "header" /\ frames < MaxFrames
  /\ frames' = frames + 1
  /\ Completes("read", "read", ec)
  /\ UNCHANGED wire

DataArrives ==
  /\ loop["read"].at = "data"
  /\ Completes("read", "read", "ok")
  /\ UNCHANGED networkVars

ReadFails == Completes("read", "read", "error") /\ UNCHANGED networkVars

Writes ==
  /\ Completes("write", "write", "ok")
  /\ wire' = Append(wire, loop["write"].m)
  /\ UNCHANGED frames

WriteFails == Completes("write", "write", "error") /\ UNCHANGED networkVars

TimerEnds == Completes("timer", "write", "ok") /\ UNCHANGED networkVars

RunStrand == RunPush \/ RunRead \/ RunWrite

SessionNext ==
  /\ ~freed
  /\ \/ StartSession \/ StopFlags \/ StopSocket \/ ReleaseSession
     \/ \E m \in Messages : SendTest(m) \/ SendPost(m)
     \/ RunStrand
     \/ \E ec \in {"data", "empty", "bad"} : HeaderArrives(ec)
     \/ DataArrives \/ ReadFails \/ Writes \/ WriteFails \/ TimerEnds

-----------------------------------------------------------------------------

Queued(m) == Push(m) \in {strand[i] : i \in 1..Len(strand)}

OnWire(m) == m \in {wire[i] : i \in 1..Len(wire)}

Turns(l) == {i \in 1..Len(strand) : strand[i].task = l}
OperationsOf(l) == operations \cap (IF l = "write" THEN {"write", "timer"} ELSE {l})

\* A loop that runs is suspended for one thing, an operation or its turn on the
\* strand: it is not lost, whatever closes the socket in between, and no two
\* writes are under way at a time.
SuspendedForOne ==
  \A l \in Loops :
    IF loop[l].at \in {"none", "ended"} THEN Turns(l) = {} /\ OperationsOf(l) = {}
    ELSE \/ OperationsOf(l) = {} /\ \E i \in 1..Len(strand) : Turns(l) = {i}
         \/ Turns(l) = {} /\ \E op \in operations : OperationsOf(l) = {op}

\* No message is written twice.
WrittenOnce == \A i, j \in 1..Len(wire) : wire[i] = wire[j] => i = j

\* A write that is under way: it ends when the peer reads, fails, or is aborted.
Writing == "write" \in operations

\* A message that Send has posted to a started session is written, or both loops
\* end, or some write is under way for ever because the peer does not read (no
\* timer ends it): no message stays in the queue of a loop that goes on, and no
\* loop is left behind by a Stop that comes between its test and its operation.
PostedIsWritten ==
  \A m \in Messages :
    (Queued(m) /\ isStarted) ~>
      (OnWire(m) \/ freed \/ (\A l \in Loops : Ended(l)) \/ []Writing)
=============================================================================
