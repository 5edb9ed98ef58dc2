--------------------------- MODULE TCPServerProofs --------------------------
(***************************************************************************)
(* Proofs about the TCP server and its callback sessions, for every set of *)
(* sessions, with and without timeouts, and for every bound on the calls   *)
(* of Send.                                                                *)
(*                                                                         *)
(* Two inductive invariants.  ServerInv is about each session by itself:   *)
(* at most one async_write is outstanding, it writes the front of the      *)
(* queue, and what Send accepted is spread in order over the wire, the     *)
(* queue and the posts.  OwnerInv is about the table: a session in it that *)
(* handle_accept has done with is closed, or is being read from.           *)
(***************************************************************************)
EXTENDS TCPServer, SequenceTheorems, TLAPS

Positions ==
  {"idle", "header", "data", "badHeader", "readHeader", "readData",
   "doWrite", "asyncWrite", "stopping"}

Results == {"none", "pending", "ok", "failed", "aborted"}

SessionType ==
  [init : BOOLEAN, closed : BOOLEAN, started : BOOLEAN,
   stop : {"no", "flag", "timers", "socket", "done"},
   socket : {"new", "open", "closed"},
   at : Positions,
   readTimer : BOOLEAN, readExpired : BOOLEAN,
   writeTimer : BOOLEAN, writeExpired : BOOLEAN,
   reading : {"none", "header", "data"}, readDone : Results,
   isWriting : BOOLEAN,
   queue : Seq(Nat), posts : Seq(Nat), writes : Seq(Nat),
   writeDone : Results,
   sent : Seq(Nat), wire : Seq(Nat)]

\* One write at a time: an outstanding async_write is of the front of the queue,
\* and do_write is entered only when none is outstanding.
OneWrite(r) ==
  /\ (r.writes = <<>>) <=> (r.writeDone = "none")
  /\ r.writes # <<>> =>
       r.isWriting /\ r.queue # <<>> /\ r.writes = <<Head(r.queue)>>
  /\ r.at \in {"doWrite", "asyncWrite"} => r.isWriting /\ r.writes = <<>>
  /\ r.at = "asyncWrite" => r.queue # <<>>

\* The part of the queue that is not yet written.
Unwritten(r) == IF r.writeDone = "ok" THEN Tail(r.queue) ELSE r.queue

\* Everything that Send accepted, in order.
Kept(r) == r.wire \o Unwritten(r) \o r.posts = r.sent

\* What only a closed session does.
OnlyClosed(r) ==
  r.stop # "no" \/ r.at = "stopping" \/ r.readDone = "aborted" => r.closed

Sound(r) == r \in SessionType /\ OneWrite(r) /\ Kept(r) /\ OnlyClosed(r)

\* Each session by itself.
ServerInv ==
  /\ sends \in Nat
  /\ ses \in [Sessions -> SessionType]
  /\ \A s \in Sessions : Sound(ses[s])

\* The chain of reads goes on, or the session is closed.
ReadSteps == {"header", "data", "badHeader", "readHeader", "readData"}
Served(r) == r.closed \/ r.reading # "none" \/ r.at \in ReadSteps

\* The table: handle_accept may not yet have started the newcomer.
OwnerInv ==
  /\ table \subseteq Sessions
  /\ accepting # "idle" => newcomer \in Sessions
  /\ accepting = "connected" => Served(ses[newcomer])
  /\ \A s \in table :
       \/ Served(ses[s])
       \/ newcomer = s /\ accepting \in {"start", "timer", "read"}

-----------------------------------------------------------------------------
(* Sequences of messages. *)

\* Concatenation of messages is associative.
LEMMA Associative ==
  ASSUME NEW x \in Seq(Nat), NEW y \in Seq(Nat), NEW z \in Seq(Nat)
  PROVE  x \o y \o z = x \o (y \o z)
BY ConcatAssociative, SMTT(30)

\* A message that is posted comes last.
LEMMA PostedIsLast ==
  ASSUME NEW a \in Seq(Nat), NEW b \in Seq(Nat), NEW c \in Seq(Nat), NEW m \in Nat
  PROVE  a \o b \o Append(c, m) = Append(a \o b \o c, m)
<1>1. /\ Append(c, m) = c \o <<m>>
      /\ <<m>> \in Seq(Nat)
      /\ a \o b \in Seq(Nat)
      /\ a \o b \o c \in Seq(Nat)
  BY AppendIsConcat, ConcatProperties
<1>2. (a \o b \o c) \o <<m>> = (a \o b) \o (c \o <<m>>)
  BY <1>1, Associative
<1>3. Append(a \o b \o c, m) = (a \o b \o c) \o <<m>>
  BY <1>1, AppendIsConcat, Zenon
<1> QED BY <1>1, <1>2, <1>3, Zenon

\* The first message moves from the front of one sequence to the end of the one
\* before it.
LEMMA FirstMovesOver ==
  ASSUME NEW a \in Seq(Nat), NEW b \in Seq(Nat), b # <<>>
  PROVE  /\ Head(b) \in Nat
         /\ Tail(b) \in Seq(Nat)
         /\ Append(a, Head(b)) \in Seq(Nat)
         /\ Append(a, Head(b)) \o Tail(b) = a \o b
<1>1. Head(b) \in Nat /\ Tail(b) \in Seq(Nat) /\ <<Head(b)>> \in Seq(Nat)
  BY HeadTailProperties
<1>2. b = <<Head(b)>> \o Tail(b)
  OBVIOUS
<1>3. (a \o <<Head(b)>>) \o Tail(b) = a \o (<<Head(b)>> \o Tail(b))
  BY <1>1, Associative
<1>4. Append(a, Head(b)) = a \o <<Head(b)>> /\ Append(a, Head(b)) \in Seq(Nat)
  BY <1>1, AppendIsConcat, AppendProperties
<1> QED BY <1>1, <1>2, <1>3, <1>4, Zenon

\* A message moves from the front of the last of three sequences to the end of
\* the second.
LEMMA FirstMovesOverInside ==
  ASSUME NEW a \in Seq(Nat), NEW b \in Seq(Nat), NEW c \in Seq(Nat), c # <<>>
  PROVE  a \o Append(b, Head(c)) \o Tail(c) = a \o b \o c
<1> DEFINE d == Append(b, Head(c))
           t == Tail(c)
<1>1. d \in Seq(Nat) /\ t \in Seq(Nat)
  BY FirstMovesOver
<1>4. d \o t = b \o c
  BY FirstMovesOver
<1> HIDE DEF d, t
<1>2. a \o d \o t = a \o (d \o t)
  BY <1>1, Associative, Zenon
<1>3. a \o b \o c = a \o (b \o c)
  BY Associative, Zenon
<1> QED BY <1>4, <1>2, <1>3, Zenon DEF d, t

\* A queue that a message is added to.
LEMMA AppendedQueue ==
  ASSUME NEW a \in Seq(Nat), NEW m \in Nat
  PROVE  /\ Append(a, m) \in Seq(Nat) /\ Append(a, m) # <<>>
         /\ a # <<>> => /\ Head(Append(a, m)) = Head(a)
                        /\ Tail(Append(a, m)) = Append(Tail(a), m)
<1>1. Append(a, m) \in Seq(Nat) /\ Append(a, m) # <<>>
  BY AppendProperties
<1>2. /\ Head(Append(a, m)) = IF a = <<>> THEN m ELSE Head(a)
      /\ Tail(Append(a, m)) = IF a = <<>> THEN <<>> ELSE Append(Tail(a), m)
  BY HeadTailAppend
<1> QED BY <1>1, <1>2

-----------------------------------------------------------------------------
(* What a step makes of one session. *)

\* The fields that say where the messages are.
Messages(r) == <<r.queue, r.posts, r.writes, r.writeDone, r.sent, r.wire>>

\* A step that moves no message and does not enter do_write.
LEMMA MessagesUntouched ==
  ASSUME NEW r, Sound(r), NEW q \in SessionType,
         Messages(q) = Messages(r), q.isWriting = r.isWriting,
         q.at \in {"doWrite", "asyncWrite"} => q.at = r.at,
         OnlyClosed(q)
  PROVE  Sound(q)
BY DEF Sound, OneWrite, Kept, Unwritten, Messages

\* Stop, by any thread or by a handler, loses no message.
LEMMA BeginStopKeeps ==
  ASSUME NEW r, Sound(r)
  PROVE  Sound(BeginStop(r)) /\ (Served(r) => Served(BeginStop(r)))
<1>1. BeginStop(r) \in SessionType
  <2>1. CASE r.closed
    BY <2>1 DEF BeginStop, Sound
  <2>2. CASE ~r.closed
    BY <2>2 DEF BeginStop, Sound, SessionType
  <2> QED BY <2>1, <2>2
<1>2. Messages(BeginStop(r)) = Messages(r) /\ BeginStop(r).isWriting = r.isWriting
      /\ BeginStop(r).at = r.at
  BY DEF BeginStop, Sound, SessionType, Messages
<1>3. OnlyClosed(BeginStop(r)) /\ BeginStop(r).closed
  BY DEF BeginStop, Sound, SessionType, OnlyClosed
<1>4. Sound(BeginStop(r))
  BY <1>1, <1>2, <1>3, MessagesUntouched
<1> QED BY <1>3, <1>4 DEF Served

\* Stop, as a step that calls it performs it, keeps what is said of the session.
LEMMA StopHereKeeps ==
  ASSUME NEW r, Sound(r)
  PROVE  Sound(StopHere(r)) /\ Served(StopHere(r))
<1>1. StopHere(r) \in SessionType
  <2>1. BeginStop(r) \in SessionType
    BY BeginStopKeeps DEF Sound
  <2>2. (IF r.closed THEN "idle" ELSE "stopping") \in Positions
    BY DEF Positions
  <2> QED BY <2>1, <2>2 DEF StopHere, SessionType
<1>2. /\ Messages(StopHere(r)) = Messages(r)
      /\ StopHere(r).isWriting = r.isWriting
      /\ StopHere(r).at \in {"idle", "stopping"}
  BY DEF StopHere, BeginStop, Sound, SessionType, Messages
<1>3. OnlyClosed(StopHere(r)) /\ StopHere(r).closed
  BY DEF StopHere, BeginStop, Sound, SessionType, OnlyClosed
<1>4. Sound(StopHere(r))
  BY <1>1, <1>2, <1>3, MessagesUntouched
<1> QED BY <1>3, <1>4 DEF Served

\* Send posts the message behind all others.
LEMMA SentKeeps ==
  ASSUME NEW r, Sound(r), NEW m \in Nat
  PROVE  Sound(Sent(r, m)) /\ (Served(r) => Served(Sent(r, m)))
<1> DEFINE q == Sent(r, m)
<1>1. q = [r EXCEPT !.posts = Append(@, m), !.sent = Append(@, m)]
  BY DEF Sent
<1>2. /\ r \in SessionType /\ r.posts \in Seq(Nat) /\ r.sent \in Seq(Nat)
      /\ r.wire \in Seq(Nat) /\ r.queue \in Seq(Nat)
  BY DEF Sound, SessionType
<1>3. Append(r.posts, m) \in Seq(Nat) /\ Append(r.sent, m) \in Seq(Nat)
  BY <1>2, AppendProperties
<1>4. q \in SessionType
  BY <1>1, <1>2, <1>3 DEF SessionType
<1>5. /\ q.posts = Append(r.posts, m) /\ q.sent = Append(r.sent, m)
      /\ q.queue = r.queue /\ q.writes = r.writes /\ q.wire = r.wire
      /\ q.writeDone = r.writeDone /\ q.isWriting = r.isWriting
      /\ q.at = r.at /\ q.stop = r.stop /\ q.readDone = r.readDone
      /\ q.closed = r.closed /\ q.reading = r.reading
  BY <1>1, <1>2 DEF SessionType
<1> HIDE DEF q
<1>6. OneWrite(q) /\ OnlyClosed(q) /\ (Served(r) => Served(q))
  BY <1>5 DEF Sound, OneWrite, OnlyClosed, Served
<1>7. Unwritten(r) \in Seq(Nat) /\ Unwritten(q) = Unwritten(r)
  <2>1. r.writeDone = "ok" => r.queue # <<>>
    BY DEF Sound, OneWrite
  <2>2. r.writeDone = "ok" => Tail(r.queue) \in Seq(Nat)
    BY <2>1, <1>2, HeadTailProperties
  <2> QED BY <2>2, <1>2, <1>5 DEF Unwritten
<1>8. Kept(q)
  <2>1. r.wire \o Unwritten(r) \o r.posts = r.sent
    BY DEF Sound, Kept
  <2>2. r.wire \o Unwritten(r) \o Append(r.posts, m)
           = Append(r.wire \o Unwritten(r) \o r.posts, m)
    <3>1. r.wire \in Seq(Nat) /\ Unwritten(r) \in Seq(Nat) /\ r.posts \in Seq(Nat)
      BY <1>2, <1>7
    <3> QED BY <3>1, PostedIsLast, Zenon
  <2> QED BY <2>1, <2>2, <1>5, <1>7, Zenon DEF Kept
<1> QED BY <1>4, <1>6, <1>8 DEF Sound, q

-----------------------------------------------------------------------------
(* Steps of a session by itself. *)

\* A session r may become q.
Becomes(r, q) == Sound(q) /\ (Served(r) => Served(q))

\* The reads and the timers.
LEMMA ReadingKeeps ==
  ASSUME NEW s \in Sessions, Sound(ses[s]),
         \/ ReadDone(s) \/ ParseHeader(s) \/ DeliverMessage(s) \/ BadHeader(s)
         \/ ReadNext(s) \/ ReadFailed(s) \/ ReadTimeout(s) \/ WriteTimeout(s)
         \/ ReadCompletes(s) \/ ReadTimerExpires(s) \/ WriteTimerExpires(s)
         \/ StopTimers(s)
  PROVE  \E q : Update(s, q) /\ Becomes(ses[s], q)
<1> DEFINE r == ses[s]
<1>a. r \in SessionType /\ OnlyClosed(r)
  BY DEF Sound
<1>b. ASSUME NEW q \in SessionType, Messages(q) = Messages(r),
             q.isWriting = r.isWriting,
             q.at \in {"doWrite", "asyncWrite"} => q.at = r.at, OnlyClosed(q)
      PROVE  Sound(q)
  BY <1>b, MessagesUntouched
<1>c. Positions = {"idle", "header", "data", "badHeader", "readHeader", "readData",
                   "doWrite", "asyncWrite", "stopping"}
  BY DEF Positions
<1>d. Results = {"none", "pending", "ok", "failed", "aborted"}
  BY DEF Results
<1> HIDE DEF r
<1>1. CASE ReadDone(s)
  <2> DEFINE q == [r EXCEPT !.readTimer = FALSE, !.readDone = "none",
                            !.reading = "none",
                            !.at = IF r.reading = "header" THEN "header" ELSE "data"]
  <2>1. Update(s, q)
    BY <1>1 DEF ReadDone, r
  <2>2. (IF r.reading = "header" THEN "header" ELSE "data") \in Positions
        /\ "none" \in Results
    BY <1>c, <1>d
  <2>3. q \in SessionType
    BY <1>a, <2>2 DEF SessionType
  <2>4. /\ Messages(q) = Messages(r) /\ q.isWriting = r.isWriting
        /\ q.at \in ReadSteps /\ q.readDone = "none" /\ q.stop = r.stop
        /\ q.closed = r.closed
    BY <1>a DEF SessionType, Messages, ReadSteps
  <2> HIDE DEF q
  <2>5. OnlyClosed(q) /\ Served(q)
        /\ q.at \notin {"doWrite", "asyncWrite"}
    BY <1>a, <2>4 DEF OnlyClosed, Served, ReadSteps
  <2>6. Sound(q)
    BY <2>3, <2>4, <2>5, <1>b
  <2> QED BY <2>1, <2>5, <2>6 DEF Becomes, r
<1>2. CASE ParseHeader(s) \/ DeliverMessage(s)
  <2>1. PICK next \in {"badHeader", "readHeader", "readData"} :
          Update(s, [ResetReadTimer(r) EXCEPT !.at = next])
    BY <1>2 DEF ParseHeader, DeliverMessage, r
  <2> DEFINE q == [ResetReadTimer(r) EXCEPT !.at = next]
  <2>2. next \in Positions
    BY <1>c
  <2>3. q \in SessionType
    BY <1>a, <2>2, TimeoutsAssumption DEF SessionType, ResetReadTimer
  <2>4. /\ Messages(q) = Messages(r) /\ q.isWriting = r.isWriting
        /\ q.at = next /\ q.readDone = r.readDone /\ q.stop = r.stop
        /\ q.closed = r.closed
    BY <1>a DEF SessionType, Messages, ResetReadTimer
  <2> HIDE DEF q
  <2>5. OnlyClosed(q) /\ Served(q)
        /\ q.at \notin {"doWrite", "asyncWrite"}
    BY <1>a, <2>4 DEF OnlyClosed, Served, ReadSteps
  <2>6. Sound(q)
    BY <2>3, <2>4, <2>5, <1>b
  <2> QED BY <2>1, <2>5, <2>6 DEF Becomes, r, q
<1>3. CASE BadHeader(s)
  BY <1>3, StopHereKeeps DEF BadHeader, Becomes
<1>4. CASE ReadNext(s)
  <2>1. PICK what \in {"header", "data"} :
          Update(s, [AsyncRead(r, what) EXCEPT !.at = "idle"])
    BY <1>4 DEF ReadNext, r
  <2> DEFINE q == [AsyncRead(r, what) EXCEPT !.at = "idle"]
  <2>2. "idle" \in Positions /\ Started(r) \in Results /\ Started(r) # "aborted"
    BY <1>c, <1>d DEF Started
  <2>3. q \in SessionType
    BY <1>a, <2>2 DEF SessionType, AsyncRead
  <2>4. /\ Messages(q) = Messages(r) /\ q.isWriting = r.isWriting
        /\ q.at = "idle" /\ q.readDone = Started(r) /\ q.stop = r.stop
        /\ q.closed = r.closed /\ q.reading = what
    BY <1>a DEF SessionType, Messages, AsyncRead
  <2> HIDE DEF q
  <2>5. OnlyClosed(q) /\ Served(q)
    BY <1>a, <2>2, <2>4 DEF OnlyClosed, Served
  <2>6. Sound(q)
    BY <2>3, <2>4, <2>5, <1>b
  <2> QED BY <2>1, <2>5, <2>6 DEF Becomes, r, q
<1>5. CASE ReadFailed(s)
  <2> DEFINE q == [r EXCEPT !.reading = "none", !.readDone = "none"]
  <2>1. /\ r.at = "idle" /\ r.readDone \in {"failed", "aborted"}
        /\ Update(s, IF r.readDone = "failed" THEN StopHere(q) ELSE q)
    BY <1>5 DEF ReadFailed, Idle, r
  <2>2. q \in SessionType
    BY <1>a, <1>d DEF SessionType
  <2>4. /\ Messages(q) = Messages(r) /\ q.isWriting = r.isWriting
        /\ q.at = r.at /\ q.readDone = "none" /\ q.stop = r.stop
        /\ q.closed = r.closed
    BY <1>a DEF SessionType, Messages
  <2> HIDE DEF q
  <2>5. OnlyClosed(q)
    BY <1>a, <2>4 DEF OnlyClosed
  <2>6. Sound(q)
    BY <2>2, <2>4, <2>5, <1>b
  <2>7. CASE r.readDone = "failed"
    BY <2>1, <2>6, <2>7, StopHereKeeps DEF Becomes, r
  <2>8. CASE r.readDone = "aborted"
    <3>1. Served(q)
      BY <1>a, <2>4, <2>8 DEF OnlyClosed, Served
    <3> QED BY <2>1, <2>6, <2>8, <3>1 DEF Becomes, r
  <2> QED BY <2>1, <2>7, <2>8
<1>6. CASE ReadTimeout(s) \/ WriteTimeout(s)
  <2>1. PICK q \in {[r EXCEPT !.readExpired = FALSE], [r EXCEPT !.writeExpired = FALSE]} :
          Update(s, StopHere(q))
    BY <1>6 DEF ReadTimeout, WriteTimeout, r
  <2>2. q \in SessionType
    <3>1. [r EXCEPT !.readExpired = FALSE] \in SessionType
      BY <1>a DEF SessionType
    <3>2. [r EXCEPT !.writeExpired = FALSE] \in SessionType
      BY <1>a DEF SessionType
    <3> HIDE DEF r
    <3> QED BY <2>1, <3>1, <3>2
  <2>3. /\ Messages(q) = Messages(r) /\ q.isWriting = r.isWriting
        /\ q.at = r.at /\ q.readDone = r.readDone /\ q.stop = r.stop
        /\ q.closed = r.closed
    BY <1>a DEF SessionType, Messages
  <2>4. OnlyClosed(q)
    BY <1>a, <2>3 DEF OnlyClosed
  <2>5. Sound(q)
    BY <2>2, <2>3, <2>4, <1>b
  <2> QED BY <2>1, <2>5, StopHereKeeps DEF Becomes
<1>7. CASE ReadCompletes(s)
  <2>1. PICK d \in {"ok", "failed"} : Update(s, [r EXCEPT !.readDone = d])
    BY <1>7 DEF ReadCompletes, r
  <2> DEFINE q == [r EXCEPT !.readDone = d]
  <2>2. q \in SessionType
    BY <1>a, <1>d DEF SessionType
  <2>3. /\ Messages(q) = Messages(r) /\ q.isWriting = r.isWriting
        /\ q.at = r.at /\ q.readDone = d /\ q.stop = r.stop
        /\ q.closed = r.closed /\ q.reading = r.reading
    BY <1>a DEF SessionType, Messages
  <2> HIDE DEF q
  <2>4. OnlyClosed(q) /\ (Served(r) => Served(q))
    BY <1>a, <2>3 DEF OnlyClosed, Served
  <2>5. Sound(q)
    BY <2>2, <2>3, <2>4, <1>b
  <2> QED BY <2>1, <2>4, <2>5 DEF Becomes, r, q
<1>8. CASE ReadTimerExpires(s) \/ WriteTimerExpires(s) \/ StopTimers(s)
  <2> DEFINE readOver == [r EXCEPT !.readTimer = FALSE, !.readExpired = TRUE]
             writeOver == [r EXCEPT !.writeTimer = FALSE, !.writeExpired = TRUE]
             cancelled == [r EXCEPT !.stop = "timers", !.readTimer = FALSE,
                                    !.writeTimer = FALSE]
  <2>a. readOver.stop = r.stop /\ writeOver.stop = r.stop
    BY <1>a DEF SessionType
  <2>b. \/ Update(s, readOver) \/ Update(s, writeOver)
        \/ Update(s, cancelled) /\ r.stop = "flag"
    BY <1>8 DEF ReadTimerExpires, WriteTimerExpires, StopTimers, r
  <2>1. PICK q \in {readOver, writeOver, cancelled} :
          Update(s, q) /\ (q.stop # r.stop => r.stop = "flag")
    <3> HIDE DEF readOver, writeOver, cancelled
    <3> QED BY <2>a, <2>b
  <2>2. q \in SessionType
    <3>1. readOver \in SessionType /\ writeOver \in SessionType
      BY <1>a DEF SessionType
    <3>2. cancelled \in SessionType
      BY <1>a DEF SessionType
    <3> HIDE DEF readOver, writeOver, cancelled
    <3> QED BY <3>1, <3>2
  <2>3. /\ Messages(q) = Messages(r) /\ q.isWriting = r.isWriting
        /\ q.at = r.at /\ q.readDone = r.readDone
        /\ q.closed = r.closed /\ q.reading = r.reading
    BY <1>a DEF SessionType, Messages
  <2>4. OnlyClosed(q) /\ (Served(r) => Served(q))
    BY <1>a, <2>1, <2>3 DEF OnlyClosed, Served
  <2>5. Sound(q)
    BY <2>2, <2>3, <2>4, <1>b
  <2> QED BY <2>1, <2>4, <2>5 DEF Becomes, r
<1> QED BY <1>1, <1>2, <1>3, <1>4, <1>5, <1>6, <1>7, <1>8

\* What the queue of messages can be.
LEMMA SessionSequences ==
  ASSUME NEW r, Sound(r)
  PROVE  /\ r \in SessionType
         /\ r.queue \in Seq(Nat) /\ r.posts \in Seq(Nat) /\ r.writes \in Seq(Nat)
         /\ r.sent \in Seq(Nat) /\ r.wire \in Seq(Nat)
         /\ r.queue # <<>> => Head(r.queue) \in Nat /\ Tail(r.queue) \in Seq(Nat)
         /\ r.writeDone # "none" =>
              r.isWriting /\ r.queue # <<>> /\ r.writes = <<Head(r.queue)>>
         /\ r.writeDone = "none" => r.writes = <<>>
         /\ Unwritten(r) \in Seq(Nat)
         /\ r.wire \o Unwritten(r) \o r.posts = r.sent
<1>1. r \in SessionType
  BY DEF Sound
<1>2. /\ r.queue \in Seq(Nat) /\ r.posts \in Seq(Nat) /\ r.writes \in Seq(Nat)
      /\ r.sent \in Seq(Nat) /\ r.wire \in Seq(Nat)
  BY <1>1 DEF SessionType
<1>3. r.queue # <<>> => Head(r.queue) \in Nat /\ Tail(r.queue) \in Seq(Nat)
  BY <1>2, HeadTailProperties
<1>4. /\ r.writeDone # "none" =>
           r.isWriting /\ r.queue # <<>> /\ r.writes = <<Head(r.queue)>>
      /\ r.writeDone = "none" => r.writes = <<>>
      /\ r.wire \o Unwritten(r) \o r.posts = r.sent
  BY DEF Sound, OneWrite, Kept
<1> QED BY <1>1, <1>2, <1>3, <1>4 DEF Unwritten

\* The handlers of the strand and of async_write, the completion of a write and
\* the closing of the socket.
LEMMA WritingKeeps ==
  ASSUME NEW s \in Sessions, Sound(ses[s]),
         \/ EnqueueWrite(s) \/ DoWrite(s) \/ WriteNext(s) \/ WriteHandler(s)
         \/ WriteCompletes(s) \/ StopSocket(s)
  PROVE  \E q : Update(s, q) /\ Becomes(ses[s], q)
<1> DEFINE r == ses[s]
<1>a. OneWrite(r) /\ OnlyClosed(r)
  BY DEF Sound
<1>b. /\ r \in SessionType
      /\ r.queue \in Seq(Nat) /\ r.posts \in Seq(Nat) /\ r.writes \in Seq(Nat)
      /\ r.sent \in Seq(Nat) /\ r.wire \in Seq(Nat)
      /\ r.queue # <<>> => Head(r.queue) \in Nat /\ Tail(r.queue) \in Seq(Nat)
      /\ r.writeDone # "none" =>
           r.isWriting /\ r.queue # <<>> /\ r.writes = <<Head(r.queue)>>
      /\ r.writeDone = "none" => r.writes = <<>>
      /\ Unwritten(r) \in Seq(Nat)
      /\ r.wire \o Unwritten(r) \o r.posts = r.sent
  BY SessionSequences
<1>c. Positions = {"idle", "header", "data", "badHeader", "readHeader", "readData",
                   "doWrite", "asyncWrite", "stopping"}
  BY DEF Positions
<1>d. Results = {"none", "pending", "ok", "failed", "aborted"}
  BY DEF Results
<1>e. /\ r.queue \in Seq(Nat) /\ r.posts \in Seq(Nat) /\ r.wire \in Seq(Nat)
      /\ Unwritten(r) \in Seq(Nat)
  BY <1>b
<1> HIDE DEF r
<1>1. CASE EnqueueWrite(s)
  <2> DEFINE h == Head(r.posts)
             p == Tail(r.posts)
             next == IF r.isWriting THEN "idle" ELSE "doWrite"
             q == [r EXCEPT !.posts = p, !.queue = Append(r.queue, h),
                            !.isWriting = TRUE, !.at = next]
  <2>1. r.at = "idle" /\ r.posts # <<>> /\ Update(s, q)
    BY <1>1 DEF EnqueueWrite, Idle, r
  <2>2. h \in Nat /\ p \in Seq(Nat)
    BY <1>b, <2>1, HeadTailProperties
  <2>3. /\ Append(r.queue, h) \in Seq(Nat) /\ Append(r.queue, h) # <<>>
        /\ r.queue # <<>> => /\ Head(Append(r.queue, h)) = Head(r.queue)
                             /\ Tail(Append(r.queue, h)) = Append(Tail(r.queue), h)
    <3> HIDE DEF h
    <3> QED BY <1>e, <2>2, AppendedQueue
  <2>4. next \in Positions
    BY <1>c
  <2> HIDE DEF h, p, next
  <2>5. q \in SessionType
    BY <1>b, <2>2, <2>3, <2>4 DEF SessionType
  <2>6. /\ q.posts = p /\ q.queue = Append(r.queue, h) /\ q.isWriting
        /\ q.at = next /\ q.writes = r.writes /\ q.writeDone = r.writeDone
        /\ q.sent = r.sent /\ q.wire = r.wire /\ q.closed = r.closed
        /\ q.stop = r.stop /\ q.readDone = r.readDone /\ q.reading = r.reading
    BY <1>b DEF SessionType
  <2> HIDE DEF q
  <2>7. OneWrite(q)
    <3>1. /\ (q.writes = <<>>) <=> (q.writeDone = "none")
          /\ q.writes # <<>> =>
                q.isWriting /\ q.queue # <<>> /\ q.writes = <<Head(q.queue)>>
      BY <1>a, <1>b, <2>3, <2>6 DEF OneWrite
    <3>2. q.at # "asyncWrite" /\ (q.at = "doWrite" => q.writes = <<>>)
      BY <1>b, <2>6 DEF next
    <3> QED BY <2>6, <3>1, <3>2 DEF OneWrite
  <2>8. Kept(q)
    <3>1. Unwritten(q) = Append(Unwritten(r), h)
      BY <1>b, <2>3, <2>6 DEF Unwritten
    <3>2. r.wire \o Append(Unwritten(r), h) \o p = r.wire \o Unwritten(r) \o r.posts
      BY <1>e, <2>1, FirstMovesOverInside DEF h, p
    <3> QED BY <1>b, <2>6, <3>1, <3>2 DEF Kept
  <2>9. OnlyClosed(q) /\ (Served(r) => Served(q))
    BY <1>a, <2>1, <2>6 DEF OnlyClosed, Served, ReadSteps, next
  <2> QED BY <2>1, <2>5, <2>7, <2>8, <2>9 DEF Becomes, Sound, r
<1>2. CASE DoWrite(s)
  <2>1. CASE r.queue = <<>>
    <3> DEFINE q == [r EXCEPT !.isWriting = FALSE, !.at = "idle"]
    <3>1. r.at = "doWrite" /\ Update(s, q)
      BY <1>2, <2>1 DEF DoWrite, r
    <3>2. q \in SessionType
      BY <1>b, <1>c DEF SessionType
    <3>3. /\ q.posts = r.posts /\ q.queue = r.queue /\ q.at = "idle"
          /\ q.writes = r.writes /\ q.writeDone = r.writeDone
          /\ q.sent = r.sent /\ q.wire = r.wire /\ q.closed = r.closed
          /\ q.stop = r.stop /\ q.readDone = r.readDone /\ q.reading = r.reading
      BY <1>b DEF SessionType
    <3> HIDE DEF q
    <3>4. OneWrite(q)
      BY <1>a, <2>1, <3>1, <3>3 DEF OneWrite
    <3>5. Kept(q)
      BY <1>b, <3>3 DEF Kept, Unwritten
    <3>6. OnlyClosed(q) /\ (Served(r) => Served(q))
      BY <1>a, <3>1, <3>3 DEF OnlyClosed, Served, ReadSteps
    <3> QED BY <3>1, <3>2, <3>4, <3>5, <3>6 DEF Becomes, Sound, r
  <2>2. CASE r.queue # <<>>
    <3> DEFINE q == [r EXCEPT !.writeTimer = Timeouts, !.at = "asyncWrite"]
    <3>1. r.at = "doWrite" /\ Update(s, q)
      BY <1>2, <2>2 DEF DoWrite, r
    <3>2. q \in SessionType
      BY <1>b, <1>c, TimeoutsAssumption DEF SessionType
    <3>3. /\ q.posts = r.posts /\ q.queue = r.queue /\ q.at = "asyncWrite"
          /\ q.writes = r.writes /\ q.writeDone = r.writeDone
          /\ q.isWriting = r.isWriting
          /\ q.sent = r.sent /\ q.wire = r.wire /\ q.closed = r.closed
          /\ q.stop = r.stop /\ q.readDone = r.readDone /\ q.reading = r.reading
      BY <1>b DEF SessionType
    <3> HIDE DEF q
    <3>4. OneWrite(q)
      BY <1>a, <2>2, <3>1, <3>3 DEF OneWrite
    <3>5. Kept(q)
      BY <1>b, <3>3 DEF Kept, Unwritten
    <3>6. OnlyClosed(q) /\ (Served(r) => Served(q))
      BY <1>a, <3>1, <3>3 DEF OnlyClosed, Served, ReadSteps
    <3> QED BY <3>1, <3>2, <3>4, <3>5, <3>6 DEF Becomes, Sound, r
  <2> QED BY <2>1, <2>2
<1>3. CASE WriteNext(s)
  <2> DEFINE q == [AsyncWrite(r) EXCEPT !.at = "idle"]
  <2>1. r.at = "asyncWrite" /\ Update(s, q)
    BY <1>3 DEF WriteNext, r
  <2>2. /\ r.isWriting /\ r.writes = <<>> /\ r.writeDone = "none" /\ r.queue # <<>>
        /\ Append(r.writes, Head(r.queue)) = <<Head(r.queue)>>
        /\ Append(r.writes, Head(r.queue)) \in Seq(Nat)
        /\ Started(r) \in {"pending", "failed"}
    <3>1. r.isWriting /\ r.writes = <<>> /\ r.writeDone = "none" /\ r.queue # <<>>
      BY <1>a, <2>1 DEF OneWrite
    <3>2. Append(r.writes, Head(r.queue)) = <<Head(r.queue)>>
      BY <3>1
    <3>3. Append(r.writes, Head(r.queue)) \in Seq(Nat)
      BY <3>1, <1>b, AppendProperties
    <3> QED BY <3>1, <3>2, <3>3 DEF Started
  <2>3. q = [r EXCEPT !.writes = <<Head(r.queue)>>, !.writeDone = Started(r),
                      !.at = "idle"]
    BY <1>b, <2>2 DEF AsyncWrite, SessionType
  <2>4. q \in SessionType
    <3>1. "idle" \in Positions /\ Started(r) \in Results
      BY <1>c, <1>d, <2>2
    <3>2. <<Head(r.queue)>> \in Seq(Nat) /\ r \in SessionType
      BY <1>b, <2>2
    <3> QED BY <2>3, <3>1, <3>2 DEF SessionType
  <2>5. /\ q.posts = r.posts /\ q.queue = r.queue /\ q.at = "idle"
        /\ q.writes = <<Head(r.queue)>> /\ q.writeDone = Started(r)
        /\ q.isWriting = r.isWriting
        /\ q.sent = r.sent /\ q.wire = r.wire /\ q.closed = r.closed
        /\ q.stop = r.stop /\ q.readDone = r.readDone /\ q.reading = r.reading
    BY <1>b, <2>3 DEF SessionType
  <2> HIDE DEF q
  <2>6. OneWrite(q)
    BY <2>2, <2>5 DEF OneWrite
  <2>7. Kept(q)
    BY <1>b, <2>2, <2>5 DEF Kept, Unwritten
  <2>8. OnlyClosed(q) /\ (Served(r) => Served(q))
    BY <1>a, <2>1, <2>5 DEF OnlyClosed, Served, ReadSteps
  <2> QED BY <2>1, <2>4, <2>6, <2>7, <2>8 DEF Becomes, Sound, r
<1>4. CASE WriteHandler(s)
  <2> DEFINE q == [r EXCEPT !.writeTimer = FALSE, !.writes = <<>>, !.writeDone = "none"]
             over == [q EXCEPT !.queue = Tail(r.queue), !.at = "doWrite"]
             broken == [q EXCEPT !.isWriting = FALSE]
  <2>1. r.at = "idle" /\ r.writeDone \in {"ok", "failed", "aborted"}
    BY <1>4 DEF WriteHandler, Idle, r
  <2>2. r.queue # <<>> /\ r.isWriting /\ Tail(r.writes) = <<>>
    <3>1. r.queue # <<>> /\ r.isWriting /\ r.writes = <<Head(r.queue)>>
      BY <1>b, <2>1
    <3>2. \A x : Tail(<<x>>) = <<>>
      OBVIOUS
    <3> QED BY <3>1, <3>2
  <2>3. \/ r.writeDone = "ok" /\ Update(s, over)
        \/ r.writeDone = "failed" /\ Update(s, StopHere(broken))
        \/ r.writeDone = "aborted" /\ Update(s, q)
    <3>1. [r EXCEPT !.writeTimer = FALSE, !.writes = Tail(r.writes),
                    !.writeDone = IF Tail(r.writes) = <<>> THEN "none" ELSE "pending"] = q
      BY <2>2
    <3>2. [q EXCEPT !.queue = Tail(@), !.at = "doWrite"] = over
      BY <1>b DEF SessionType
    <3> HIDE DEF q, over, broken
    <3> QED BY <1>4, <2>1, <3>1, <3>2 DEF WriteHandler, r, broken
  <2>4. q \in SessionType
    <3>1. "none" \in Results /\ <<>> \in Seq(Nat) /\ r \in SessionType
      BY <1>b, <1>d
    <3> QED BY <3>1 DEF SessionType
  <2>5. /\ q.posts = r.posts /\ q.queue = r.queue /\ q.at = r.at
        /\ q.writes = <<>> /\ q.writeDone = "none" /\ q.isWriting = r.isWriting
        /\ q.sent = r.sent /\ q.wire = r.wire /\ q.closed = r.closed
        /\ q.stop = r.stop /\ q.readDone = r.readDone /\ q.reading = r.reading
    BY <1>b DEF SessionType
  <2> HIDE DEF q
  <2>6. CASE r.writeDone = "ok"
    <3>1. over \in SessionType
      BY <1>b, <1>c, <2>2, <2>4 DEF SessionType
    <3>2. /\ over.posts = q.posts /\ over.queue = Tail(r.queue) /\ over.at = "doWrite"
          /\ over.writes = q.writes /\ over.writeDone = q.writeDone
          /\ over.isWriting = q.isWriting
          /\ over.sent = q.sent /\ over.wire = q.wire /\ over.closed = q.closed
          /\ over.stop = q.stop /\ over.readDone = q.readDone
          /\ over.reading = q.reading
      BY <2>4 DEF SessionType
    <3> HIDE DEF over
    <3>3. OneWrite(over)
      BY <2>2, <2>5, <3>2 DEF OneWrite
    <3>4. Kept(over)
      BY <1>b, <2>5, <2>6, <3>2 DEF Kept, Unwritten
    <3>5. OnlyClosed(over) /\ (Served(r) => Served(over))
      BY <1>a, <2>1, <2>5, <3>2 DEF OnlyClosed, Served, ReadSteps
    <3> QED BY <2>3, <2>6, <3>1, <3>3, <3>4, <3>5 DEF Becomes, Sound, r
  <2>7. CASE r.writeDone = "failed"
    <3>1. broken \in SessionType
      BY <2>4 DEF SessionType
    <3>2. /\ broken.posts = q.posts /\ broken.queue = q.queue /\ broken.at = q.at
          /\ broken.writes = q.writes /\ broken.writeDone = q.writeDone
          /\ broken.sent = q.sent /\ broken.wire = q.wire /\ broken.closed = q.closed
          /\ broken.stop = q.stop /\ broken.readDone = q.readDone
      BY <2>4 DEF SessionType
    <3> HIDE DEF broken
    <3>3. OneWrite(broken)
      BY <2>1, <2>5, <3>2 DEF OneWrite
    <3>4. Kept(broken)
      BY <1>b, <2>5, <2>7, <3>2 DEF Kept, Unwritten
    <3>5. OnlyClosed(broken)
      BY <1>a, <2>1, <2>5, <3>2 DEF OnlyClosed
    <3>6. Sound(broken)
      BY <3>1, <3>3, <3>4, <3>5 DEF Sound
    <3> QED BY <2>3, <2>7, <3>6, StopHereKeeps DEF Becomes
  <2>8. CASE r.writeDone = "aborted"
    <3>1. OneWrite(q)
      BY <2>1, <2>5 DEF OneWrite
    <3>2. Kept(q)
      BY <1>b, <2>5, <2>8 DEF Kept, Unwritten
    <3>3. OnlyClosed(q) /\ (Served(r) => Served(q))
      BY <1>a, <2>1, <2>5 DEF OnlyClosed, Served, ReadSteps
    <3> QED BY <2>3, <2>4, <2>8, <3>1, <3>2, <3>3 DEF Becomes, Sound, r
  <2> QED BY <2>1, <2>6, <2>7, <2>8
<1>5. CASE WriteCompletes(s)
  <2> DEFINE m == Head(r.queue)
             w == Append(r.wire, m)
             done == [r EXCEPT !.writeDone = "ok", !.wire = w]
             broken == [r EXCEPT !.writeDone = "failed"]
  <2>1. r.writeDone = "pending"
    BY <1>5 DEF WriteCompletes, r
  <2>2. r.queue # <<>> /\ r.isWriting /\ r.writes = <<m>> /\ Head(r.writes) = m
    BY <1>b, <2>1
  <2>3. Update(s, done) \/ Update(s, broken)
    BY <1>5, <2>2 DEF WriteCompletes, r
  <2>4. w \in Seq(Nat) /\ w \o Tail(r.queue) = r.wire \o r.queue
    BY <1>b, <2>2, FirstMovesOver
  <2>5. CASE Update(s, done)
    <3> HIDE DEF w
    <3>1. done \in SessionType
      BY <1>b, <1>d, <2>4 DEF SessionType
    <3>2. /\ done.posts = r.posts /\ done.queue = r.queue /\ done.at = r.at
          /\ done.writes = r.writes /\ done.writeDone = "ok" /\ done.wire = w
          /\ done.isWriting = r.isWriting /\ done.sent = r.sent
          /\ done.closed = r.closed /\ done.stop = r.stop
          /\ done.readDone = r.readDone /\ done.reading = r.reading
      BY <1>b DEF SessionType
    <3> HIDE DEF done
    <3>3. OneWrite(done)
      BY <1>a, <2>1, <3>2 DEF OneWrite
    <3>4. Kept(done)
      BY <1>b, <2>1, <2>4, <3>2 DEF Kept, Unwritten
    <3>5. OnlyClosed(done) /\ (Served(r) => Served(done))
      BY <1>a, <3>2 DEF OnlyClosed, Served
    <3> QED BY <2>5, <3>1, <3>3, <3>4, <3>5 DEF Becomes, Sound, r
  <2>6. CASE Update(s, broken)
    <3>1. broken \in SessionType
      BY <1>b, <1>d DEF SessionType
    <3>2. /\ broken.posts = r.posts /\ broken.queue = r.queue /\ broken.at = r.at
          /\ broken.writes = r.writes /\ broken.writeDone = "failed"
          /\ broken.wire = r.wire
          /\ broken.isWriting = r.isWriting /\ broken.sent = r.sent
          /\ broken.closed = r.closed /\ broken.stop = r.stop
          /\ broken.readDone = r.readDone /\ broken.reading = r.reading
      BY <1>b DEF SessionType
    <3> HIDE DEF broken
    <3>3. OneWrite(broken)
      BY <1>a, <2>1, <3>2 DEF OneWrite
    <3>4. Kept(broken)
      BY <1>b, <2>1, <3>2 DEF Kept, Unwritten
    <3>5. OnlyClosed(broken) /\ (Served(r) => Served(broken))
      BY <1>a, <3>2 DEF OnlyClosed, Served
    <3> QED BY <2>6, <3>1, <3>3, <3>4, <3>5 DEF Becomes, Sound, r
  <2> QED BY <2>3, <2>5, <2>6
<1>6. CASE StopSocket(s)
  <2>1. PICK a \in {"failed", "aborted"}, b \in {"failed", "aborted"} :
          Update(s, [r EXCEPT !.stop = "socket", !.socket = "closed",
                              !.readDone = IF @ = "pending" THEN a ELSE @,
                              !.writeDone = IF @ = "pending" THEN b ELSE @])
    BY <1>6 DEF StopSocket, r
  <2> DEFINE rd == IF r.readDone = "pending" THEN a ELSE r.readDone
             wd == IF r.writeDone = "pending" THEN b ELSE r.writeDone
             q == [r EXCEPT !.stop = "socket", !.socket = "closed",
                            !.readDone = rd, !.writeDone = wd]
  <2>2. r.stop = "timers" /\ Update(s, q)
    <3>1. r.stop = "timers"
      BY <1>6 DEF StopSocket, r
    <3> QED BY <2>1, <3>1, <1>b DEF SessionType
  <2>3. /\ rd \in Results /\ wd \in Results
        /\ (wd = "none") <=> (r.writeDone = "none")
        /\ (wd = "ok") <=> (r.writeDone = "ok")
    <3>1. r.readDone \in Results /\ r.writeDone \in Results
      BY <1>b DEF SessionType
    <3> QED BY <1>d, <3>1
  <2> HIDE DEF rd, wd
  <2>4. q \in SessionType
    BY <1>b, <2>3 DEF SessionType
  <2>5. /\ q.posts = r.posts /\ q.queue = r.queue /\ q.at = r.at
        /\ q.writes = r.writes /\ q.writeDone = wd /\ q.isWriting = r.isWriting
        /\ q.sent = r.sent /\ q.wire = r.wire /\ q.closed = r.closed
        /\ q.reading = r.reading
    BY <1>b DEF SessionType
  <2> HIDE DEF q
  <2>6. OneWrite(q)
    BY <1>a, <2>3, <2>5 DEF OneWrite
  <2>7. Kept(q)
    BY <1>b, <2>3, <2>5 DEF Kept, Unwritten
  <2>8. OnlyClosed(q) /\ Served(q)
    BY <1>a, <2>2, <2>5 DEF OnlyClosed, Served
  <2> QED BY <2>2, <2>4, <2>6, <2>7, <2>8 DEF Becomes, Sound, r
<1> QED BY <1>1, <1>2, <1>3, <1>4, <1>5, <1>6

\* The callback of Stop has returned.
LEMMA StopReturnsKeeps ==
  ASSUME NEW s \in Sessions, Sound(ses[s]), StopReturns(s)
  PROVE  \E q : Update(s, q) /\ Becomes(ses[s], q)
<1> DEFINE r == ses[s]
           at == IF r.at = "stopping" THEN "idle" ELSE r.at
           q == [r EXCEPT !.stop = "done", !.at = at]
<1>1. r \in SessionType /\ OnlyClosed(r) /\ r.at \in Positions
  BY DEF Sound, SessionType
<1>2. r.stop = "socket" /\ Update(s, q)
  BY <1>1 DEF StopReturns, SessionType
<1>3. at \in Positions
  BY <1>1 DEF Positions
<1> HIDE DEF r
<1>4. at \in {"doWrite", "asyncWrite"} => at = r.at
  OBVIOUS
<1> HIDE DEF at
<1>5. q \in SessionType
  BY <1>1, <1>3 DEF SessionType
<1>6. /\ Messages(q) = Messages(r) /\ q.isWriting = r.isWriting
      /\ q.at = at /\ q.closed = r.closed
  BY <1>1 DEF SessionType, Messages
<1> HIDE DEF q
<1>7. OnlyClosed(q) /\ Served(q)
  BY <1>1, <1>2, <1>6 DEF OnlyClosed, Served
<1>8. Sound(q)
  BY <1>4, <1>5, <1>6, <1>7, MessagesUntouched DEF r
<1> QED BY <1>2, <1>7, <1>8 DEF Becomes

\* Any step of a session by itself.
LEMMA SessionStepKeeps ==
  ASSUME NEW s \in Sessions, Sound(ses[s]), SessionStep(s)
  PROVE  \E q : Update(s, q) /\ Becomes(ses[s], q)
BY ReadingKeeps, WritingKeeps DEF SessionStep, ReadHandler, Continue

-----------------------------------------------------------------------------
(* Steps of the server. *)

\* What a step that changes the sessions at most makes of the invariants.
LEMMA SessionsChange ==
  ASSUME ServerInv, OwnerInv, sends' \in Nat,
         ses' \in [Sessions -> SessionType],
         \A s \in Sessions : Becomes(ses[s], ses'[s])
  PROVE  /\ ServerInv'
         /\ table' \subseteq table /\ UNCHANGED <<accepting, newcomer>> => OwnerInv'
<1>1. ServerInv'
  BY DEF ServerInv, Becomes
<1>2. ASSUME table' \subseteq table, UNCHANGED <<accepting, newcomer>>
      PROVE  OwnerInv'
  BY <1>2 DEF OwnerInv, Becomes
<1> QED BY <1>1, <1>2

\* The same, when one session changes.
LEMMA OneSessionChanges ==
  ASSUME ServerInv, OwnerInv, sends' \in Nat, NEW s \in Sessions, NEW q,
         Update(s, q), Becomes(ses[s], q)
  PROVE  /\ ServerInv'
         /\ table' \subseteq table /\ UNCHANGED <<accepting, newcomer>> => OwnerInv'
         /\ ses'[s] = q
         /\ \A t \in Sessions : Becomes(ses[t], ses'[t])
<1>1. ses \in [Sessions -> SessionType] /\ \A t \in Sessions : Sound(ses[t])
  BY DEF ServerInv
<1>2. q \in SessionType
  BY DEF Becomes, Sound
<1>3. ses' \in [Sessions -> SessionType] /\ ses'[s] = q
      /\ \A t \in Sessions \ {s} : ses'[t] = ses[t]
  BY <1>1, <1>2 DEF Update
<1>4. \A t \in Sessions : Becomes(ses[t], ses'[t])
  <2>1. TAKE t \in Sessions
  <2>2. CASE t = s
    BY <1>3, <2>2
  <2>3. CASE t # s
    BY <1>1, <1>3, <2>3 DEF Becomes
  <2> QED BY <2>2, <2>3
<1> QED BY <1>3, <1>4, SessionsChange

\* Calls of one session by the application and by Stop of the server.
LEMMA ApplicationKeeps ==
  ASSUME ServerInv, OwnerInv,
         \/ Broadcast \/ StopSessions
         \/ \E s \in Sessions : \/ Send(s) \/ Disconnect(s) \/ Disconnected(s)
                                \/ SessionStep(s) /\ Apart
  PROVE  ServerInv' /\ OwnerInv'
<1>a. /\ sends \in Nat /\ sends + 1 \in Nat
      /\ ses \in [Sessions -> SessionType] /\ \A t \in Sessions : Sound(ses[t])
  BY DEF ServerInv
<1>1. CASE Broadcast
  <2>1. PICK found \in SUBSET table :
          /\ ses' = [s \in Sessions |-> IF s \in found THEN Sent(ses[s], sends + 1)
                                                       ELSE ses[s]]
          /\ sends' = sends + 1 /\ UNCHANGED <<table, accepting, newcomer>>
    BY <1>1 DEF Broadcast, server
  <2>2. \A s \in Sessions : Becomes(ses[s], ses'[s])
    BY <1>a, <2>1, SentKeeps DEF Becomes
  <2>3. ses' \in [Sessions -> SessionType]
    BY <1>a, <2>1, <2>2 DEF Becomes, Sound
  <2> QED BY <1>a, <2>1, <2>2, <2>3, SessionsChange
<1>2. CASE StopSessions
  <2> DEFINE s == Min(snapshot)
             wins == s \in table /\ ~ses[s].closed
  <2>1. /\ Update(s, IF wins THEN BeginStop(ses[s]) ELSE ses[s])
        /\ UNCHANGED <<table, accepting, newcomer, sends>>
    BY <1>2 DEF StopSessions
  <2> HIDE DEF s, wins
  <2>2. CASE s \in Sessions
    <3>1. Becomes(ses[s], IF wins THEN BeginStop(ses[s]) ELSE ses[s])
      BY <1>a, <2>2, BeginStopKeeps DEF Becomes
    <3> QED BY <1>a, <2>1, <2>2, <3>1, OneSessionChanges
  <2>3. CASE s \notin Sessions
    <3>1. ses' = ses
      BY <1>a, <2>1, <2>3 DEF Update
    <3>2. \A t \in Sessions : Becomes(ses[t], ses'[t])
      BY <1>a, <3>1 DEF Becomes
    <3> QED BY <1>a, <2>1, <3>1, <3>2, SessionsChange
  <2> QED BY <2>2, <2>3
<1>3. ASSUME NEW s \in Sessions, Send(s)
      PROVE  ServerInv' /\ OwnerInv'
  <2>1. /\ Update(s, Sent(ses[s], sends + 1)) /\ sends' = sends + 1
        /\ UNCHANGED <<table, accepting, newcomer>>
    BY <1>3 DEF Send, server
  <2>2. Becomes(ses[s], Sent(ses[s], sends + 1))
    BY <1>a, SentKeeps DEF Becomes
  <2> QED BY <1>a, <2>1, <2>2, OneSessionChanges
<1>4. ASSUME NEW s \in Sessions, Disconnect(s)
      PROVE  ServerInv' /\ OwnerInv'
  <2>1. Update(s, BeginStop(ses[s])) /\ UNCHANGED <<table, accepting, newcomer, sends>>
    BY <1>4 DEF Disconnect, server
  <2>2. Becomes(ses[s], BeginStop(ses[s]))
    BY <1>a, BeginStopKeeps DEF Becomes
  <2> QED BY <1>a, <2>1, <2>2, OneSessionChanges
<1>5. ASSUME NEW s \in Sessions, Disconnected(s) \/ (SessionStep(s) /\ Apart)
      PROVE  ServerInv' /\ OwnerInv'
  <2>1. table' \subseteq table /\ UNCHANGED <<accepting, newcomer, sends>>
    BY <1>5 DEF Disconnected, Apart, server
  <2>2. PICK q : Update(s, q) /\ Becomes(ses[s], q)
    BY <1>a, <1>5, StopReturnsKeeps, SessionStepKeeps DEF Disconnected
  <2> QED BY <1>a, <2>1, <2>2, OneSessionChanges
<1> QED BY <1>1, <1>2, <1>3, <1>4, <1>5

\* handle_accept: SetInitSocket, and Start of the session.
LEMMA StartSessionKeeps ==
  ASSUME ServerInv, OwnerInv, StartSession \/ StartTimer \/ StartRead
  PROVE  ServerInv' /\ OwnerInv'
<1> DEFINE r == ses[newcomer]
<1>a. newcomer \in Sessions /\ sends' = sends /\ sends \in Nat
  BY DEF OwnerInv, ServerInv, StartSession, StartTimer, StartRead
<1>b. r \in SessionType /\ Sound(r) /\ OnlyClosed(r)
  BY <1>a DEF ServerInv, Sound
<1>c. UNCHANGED <<table, newcomer>> /\ table \subseteq Sessions
  BY DEF StartSession, StartTimer, StartRead, OwnerInv
<1>d. ASSUME NEW q, Update(newcomer, q), Becomes(r, q),
             \/ accepting \in {"start", "timer"} /\ accepting' \in {"timer", "read"}
             \/ accepting' = "connected" /\ Served(q)
      PROVE  ServerInv' /\ OwnerInv'
  <2>1. ServerInv' /\ ses'[newcomer] = q
        /\ \A t \in Sessions : Becomes(ses[t], ses'[t])
    BY <1>a, <1>d, OneSessionChanges
  <2>2. \A t \in Sessions : Served(ses[t]) => Served(ses'[t])
    BY <2>1 DEF Becomes
  <2>3. OwnerInv'
    BY <1>a, <1>c, <1>d, <2>1, <2>2 DEF OwnerInv
  <2> QED BY <2>1, <2>3
<1> HIDE DEF r
<1>1. CASE StartSession
  <2> DEFINE i == [r EXCEPT !.init = TRUE]
             q == StartFlags(i)
  <2>1. /\ accepting = "start" /\ Update(newcomer, q)
        /\ accepting' = IF ses'[newcomer].started THEN "timer" ELSE "connected"
    BY <1>1 DEF StartSession, r
  <2>2. i \in SessionType
    BY <1>b DEF SessionType
  <2>3. /\ Messages(i) = Messages(r) /\ i.isWriting = r.isWriting /\ i.at = r.at
        /\ i.closed = r.closed /\ i.reading = r.reading /\ i.stop = r.stop
        /\ i.readDone = r.readDone /\ i.init
    BY <1>b DEF SessionType, Messages
  <2> HIDE DEF i
  <2>4. q \in SessionType
    <3>1. [i EXCEPT !.started = TRUE] \in SessionType
      BY <2>2 DEF SessionType
    <3> QED BY <2>2, <3>1 DEF StartFlags
  <2>5. /\ Messages(q) = Messages(i) /\ q.isWriting = i.isWriting /\ q.at = i.at
        /\ q.closed = i.closed /\ q.reading = i.reading /\ q.stop = i.stop
        /\ q.readDone = i.readDone
    BY <2>2 DEF StartFlags, SessionType, Messages
  <2>6. ~q.started => i.closed
    BY <2>2, <2>3 DEF StartFlags, SessionType
  <2> HIDE DEF q
  <2>7. OnlyClosed(q) /\ (Served(r) => Served(q)) /\ (~q.started => Served(q))
    BY <1>b, <2>3, <2>5, <2>6 DEF OnlyClosed, Served
  <2>8. Sound(q)
    BY <1>b, <2>3, <2>4, <2>5, <2>7, MessagesUntouched
  <2>9. ses'[newcomer] = q
    BY <1>a, <2>1 DEF Update, ServerInv
  <2> QED BY <1>d, <2>1, <2>7, <2>8, <2>9 DEF Becomes
<1>2. CASE StartTimer
  <2> DEFINE q == ResetReadTimer(r)
  <2>1. accepting = "timer" /\ accepting' = "read" /\ Update(newcomer, q)
    BY <1>2 DEF StartTimer, r
  <2>2. q \in SessionType
    BY <1>b, TimeoutsAssumption DEF ResetReadTimer, SessionType
  <2>3. /\ Messages(q) = Messages(r) /\ q.isWriting = r.isWriting /\ q.at = r.at
        /\ q.closed = r.closed /\ q.reading = r.reading /\ q.stop = r.stop
        /\ q.readDone = r.readDone
    BY <1>b DEF ResetReadTimer, SessionType, Messages
  <2> HIDE DEF q
  <2>4. OnlyClosed(q) /\ (Served(r) => Served(q))
    BY <1>b, <2>3 DEF OnlyClosed, Served
  <2>5. Sound(q)
    BY <1>b, <2>2, <2>3, <2>4, MessagesUntouched
  <2> QED BY <1>d, <2>1, <2>4, <2>5 DEF Becomes
<1>3. CASE StartRead
  <2> DEFINE q == AsyncRead(r, "header")
  <2>1. accepting' = "connected" /\ Update(newcomer, q)
    BY <1>3 DEF StartRead, r
  <2>2. Started(r) \in Results /\ Started(r) # "aborted"
    BY DEF Started, Results
  <2>3. q \in SessionType
    BY <1>b, <2>2 DEF AsyncRead, SessionType
  <2>4. /\ Messages(q) = Messages(r) /\ q.isWriting = r.isWriting /\ q.at = r.at
        /\ q.closed = r.closed /\ q.reading = "header" /\ q.stop = r.stop
        /\ q.readDone = Started(r)
    BY <1>b DEF AsyncRead, SessionType, Messages
  <2> HIDE DEF q
  <2>5. OnlyClosed(q) /\ Served(q)
    BY <1>b, <2>2, <2>4 DEF OnlyClosed, Served
  <2>6. Sound(q)
    BY <1>b, <2>3, <2>4, <2>5, MessagesUntouched
  <2> QED BY <1>d, <2>1, <2>5, <2>6 DEF Becomes
<1> QED BY <1>1, <1>2, <1>3

\* Every step keeps both invariants.
LEMMA ServerStep ==
  ASSUME ServerInv, OwnerInv, [Next]_vars
  PROVE  ServerInv' /\ OwnerInv'
<1>a. ASSUME UNCHANGED <<ses, sends, table, accepting, newcomer>>
      PROVE  ServerInv' /\ OwnerInv'
  BY <1>a DEF ServerInv, OwnerInv
<1>b. UNCHANGED <<ses, sends>> => ServerInv'
  BY DEF ServerInv
<1>1. CASE Start \/ Stop \/ StopContext
  BY <1>a, <1>1 DEF Start, Stop, StopContext
<1>2. CASE ClearTable
  BY <1>b, <1>2 DEF ClearTable, OwnerInv
<1>3. ASSUME NEW s \in Sessions, HandleAccept(s)
      PROVE  ServerInv' /\ OwnerInv'
  <2>1. CASE accept[s] = "ok"
    <3>1. /\ accepting = "idle" /\ accepting' = "start" /\ newcomer' = s
          /\ table' = table \cup {s} /\ UNCHANGED <<ses, sends>>
      BY <1>3, <2>1 DEF HandleAccept
    <3>2. \A t \in table : Served(ses[t])
      BY <3>1 DEF OwnerInv
    <3>3. OwnerInv'
      BY <3>1, <3>2 DEF OwnerInv
    <3> QED BY <1>b, <3>1, <3>3
  <2>2. CASE accept[s] # "ok"
    BY <1>3, <1>a, <2>2 DEF HandleAccept
  <2> QED BY <2>1, <2>2
<1>4. CASE StartSession \/ StartTimer \/ StartRead
  BY <1>4, StartSessionKeeps
<1>5. CASE OnConnected
  <2>1. /\ accepting = "connected" /\ accepting' = "idle"
        /\ UNCHANGED <<ses, sends, table>>
    BY <1>5 DEF OnConnected
  <2>2. \A t \in table : Served(ses[t])
    BY <2>1 DEF OwnerInv
  <2>3. OwnerInv'
    BY <2>1, <2>2 DEF OwnerInv
  <2> QED BY <1>b, <2>1, <2>3
<1>6. ASSUME NEW s \in Sessions, AcceptCompletes(s)
      PROVE  ServerInv' /\ OwnerInv'
  <2>1. UNCHANGED <<sends, table, accepting, newcomer>>
        /\ (Update(s, [ses[s] EXCEPT !.socket = "open"]) \/ UNCHANGED ses)
    BY <1>6 DEF AcceptCompletes
  <2> DEFINE r == ses[s]
             q == [r EXCEPT !.socket = "open"]
  <2>2. r \in SessionType /\ Sound(r) /\ OnlyClosed(r) /\ sends \in Nat
    BY DEF ServerInv, Sound
  <2>3. Becomes(r, q)
    <3> HIDE DEF r
    <3>1. q \in SessionType
      BY <2>2 DEF SessionType
    <3>2. /\ Messages(q) = Messages(r) /\ q.isWriting = r.isWriting /\ q.at = r.at
          /\ q.closed = r.closed /\ q.reading = r.reading /\ q.stop = r.stop
          /\ q.readDone = r.readDone
      BY <2>2 DEF SessionType, Messages
    <3> HIDE DEF q
    <3>3. OnlyClosed(q) /\ (Served(r) => Served(q))
      BY <2>2, <3>2 DEF OnlyClosed, Served
    <3> QED BY <2>2, <3>1, <3>2, <3>3, MessagesUntouched DEF Becomes
  <2>4. CASE Update(s, q)
    BY <2>1, <2>2, <2>3, <2>4, OneSessionChanges
  <2> QED BY <1>a, <2>1, <2>4
<1>7. CASE \/ Broadcast \/ StopSessions
           \/ \E s \in Sessions : \/ Send(s) \/ Disconnect(s) \/ Disconnected(s)
                                  \/ SessionStep(s) /\ Apart
  BY <1>7, ApplicationKeeps
<1>8. CASE UNCHANGED vars
  BY <1>8, <1>a DEF vars, server
<1>9. CASE Stopping
  BY <1>1, <1>2, <1>7, <1>9 DEF Stopping
<1>10. CASE Accepting
  BY <1>3, <1>4, <1>5, <1>10 DEF Accepting
<1>11. CASE \E s \in Sessions : AcceptCompletes(s)
  BY <1>6, <1>11
<1> QED
  BY <1>1, <1>7, <1>8, <1>9, <1>10, <1>11 DEF Next

\* Both hold at first.
LEMMA ServerInit == Init => ServerInv /\ OwnerInv
<1> SUFFICES ASSUME Init PROVE ServerInv /\ OwnerInv
  OBVIOUS
<1>1. NewSession \in SessionType
  BY DEF NewSession, SessionType, Positions, Results
<1>2. <<>> \o <<>> \o <<>> = <<>>
  BY ConcatEmptySeq, EmptySeq
<1>3. OneWrite(NewSession) /\ OnlyClosed(NewSession)
  BY DEF NewSession, OneWrite, OnlyClosed
<1>4. Kept(NewSession)
  BY <1>2 DEF NewSession, Kept, Unwritten
<1>5. ses = [s \in Sessions |-> NewSession] /\ sends = 0
      /\ accepting = "idle" /\ table = {}
  BY DEF Init
<1>6. ServerInv
  BY <1>1, <1>3, <1>4, <1>5 DEF ServerInv, Sound
<1>7. OwnerInv
  BY <1>5 DEF OwnerInv
<1> QED BY <1>6, <1>7

\* Both always hold.
LEMMA ServerInvariant == Spec => [](ServerInv /\ OwnerInv)
<1>1. ServerInv /\ OwnerInv /\ [Next]_vars => (ServerInv /\ OwnerInv)'
  BY ServerStep
<1> QED BY <1>1, ServerInit, PTL DEF Spec

-----------------------------------------------------------------------------
(* Theorems. *)

\* Whatever becomes of a session, what Send accepted is on the wire, queued or
\* posted, each message once and in the order of the calls.
THEOREM NothingSentIsLost == Spec => []SentIsKept
<1>1. ServerInv /\ OwnerInv => SentIsKept
  BY DEF ServerInv, Sound, Kept, Unwritten, SentIsKept
<1> QED BY <1>1, ServerInvariant, PTL

\* Erasing an open session from the table never destroys it: a handler or
\* handle_accept holds it too.
THEOREM TableNeverLastOwner == Spec => []TableIsNotLastOwner
<1>1. ServerInv /\ OwnerInv => TableIsNotLastOwner
  <2> SUFFICES ASSUME ServerInv, OwnerInv, NEW s \in table
               PROVE  ses[s].closed \/ HeldByHandler(ses[s]) \/ newcomer = s
    BY DEF TableIsNotLastOwner
  <2>1. Served(ses[s]) \/ newcomer = s
    BY DEF OwnerInv
  <2> QED BY <2>1 DEF Served, ReadSteps, HeldByHandler
<1> QED BY <1>1, ServerInvariant, PTL

=============================================================================
