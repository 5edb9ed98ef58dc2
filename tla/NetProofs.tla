------------------------------ MODULE NetProofs ------------------------------
(***************************************************************************)
(* Proofs about the pool of io_contexts, for every size and every set of   *)
(* callers, and about the UDP server, for every set of datagrams and of    *)
(* callbacks and for all bounds.                                           *)
(***************************************************************************)
EXTENDS IOContextPool, UDP, TCPClient, CoroSession, SequenceTheorems, TLAPS

(* The pool of io_contexts. *)

PoolSpec == PoolInit /\ [][PoolNext]_poolVars

\* While the position is past the end some call has still to test or to reset it:
\* the one that moved it there comes to the test, and any reset puts it inside.
PoolInv ==
  /\ size \in Nat
  /\ next \in Nat
  /\ caller \in [Callers -> {"idle", "read", "written", "past", "got"}]
  /\ seen \in [Callers -> Nat]
  /\ next >= PoolSize => \E c \in Callers : caller[c] \in {"written", "past"}

\* Every step keeps the invariant.
LEMMA PoolStep ==
  ASSUME PoolInv, [PoolNext]_poolVars
  PROVE  PoolInv'
<1> USE DEF PoolInv, PoolSize
<1>a. ASSUME UNCHANGED <<size, next, caller, seen>>
      PROVE  PoolInv'
  BY <1>a
<1>1. ASSUME NEW c \in Callers, ReadNext(c)
      PROVE  PoolInv'
  BY <1>1 DEF ReadNext
<1>2. ASSUME NEW c \in Callers, WriteNext(c)
      PROVE  PoolInv'
  <2>1. next' \in Nat /\ caller'[c] = "written" /\ UNCHANGED <<size, seen>>
        /\ caller' \in [Callers -> {"idle", "read", "written", "past", "got"}]
    BY <1>2 DEF WriteNext
  <2> QED BY <2>1
<1>3. ASSUME NEW c \in Callers, TestNext(c)
      PROVE  PoolInv'
  BY <1>3 DEF TestNext, PastEnd
<1>4. ASSUME NEW c \in Callers, ResetNext(c)
      PROVE  PoolInv'
  BY <1>4 DEF ResetNext
<1>5. ASSUME NEW c \in Callers, Give(c)
      PROVE  PoolInv'
  BY <1>5 DEF Give
<1>6. ASSUME NEW i \in Contexts, Thread(i)
      PROVE  PoolInv'
  BY <1>6, <1>a DEF Thread, RunContext, RunHandler
<1>7. CASE StopContexts \/ JoinThreads
  BY <1>7, <1>a DEF StopContexts, JoinThreads
<1>8. CASE UNCHANGED poolVars
  BY <1>8, <1>a DEF poolVars
<1> QED
  BY <1>1, <1>2, <1>3, <1>4, <1>5, <1>6, <1>7, <1>8 DEF PoolNext, GetIOContext

\* Whenever no call of GetIOContext is under way its position is inside the pool,
\* whatever increments and resets racing calls have lost.
THEOREM PoolPositionIsInside ==
  ASSUME Sizes \subseteq Nat
  PROVE  PoolSpec => []QuietPositionIsInside
<1>1. PoolInit => PoolInv
  BY DEF PoolInit, PoolInv, PoolSize
<1>2. PoolInv => QuietPositionIsInside
  BY DEF PoolInv, QuietPositionIsInside, InCall, PoolSize
<1> QED BY <1>1, <1>2, PoolStep, PTL DEF PoolSpec

-----------------------------------------------------------------------------
(* The UDP server. *)

UdpSpec == UdpInit /\ [][UdpNext]_udpVars

Completions == [ec : {"ok", "error", "aborted"}, d : Datagrams \cup {Nothing}]

ServerType ==
  /\ open \in BOOLEAN /\ gone \in BOOLEAN
  /\ receives \in Nat /\ starts \in Nat
  /\ handlers \in Seq(Completions)
  /\ serving \in [on : BOOLEAN, d : Datagrams \cup {Nothing}, at : Int, end : Int]
  /\ callbacks \in Seq(Hosts)

\* The receives that are under way: with the reactor, completed, or in callbacks.
Ongoing == receives + Len(handlers) + (IF serving.on THEN 1 ELSE 0)

\* One for each Start while the socket is open, and never more.  No receive of an
\* open socket was aborted.
OnePerStart ==
  /\ Ongoing <= starts
  /\ open => ~gone /\ Ongoing = starts
  /\ open => \A i \in 1 .. Len(handlers) : handlers[i].ec # "aborted"

\* With one Start nothing is received between a receive and the end of its
\* callbacks, so the buffer still holds what was received.
BufferIsFresh ==
  starts <= 1 =>
    /\ \A i \in 1 .. Len(handlers) : handlers[i].ec = "ok" => handlers[i].d = buffer
    /\ serving.on => serving.d = buffer /\ serving.d.size > 0
    /\ \A e \in delivered : e[2] = e[3] /\ e[2].size > 0

UdpInv == ServerType /\ OnePerStart /\ BufferIsFresh

\* What queueing one more completed receive does.
LEMMA QueuedHandler ==
  ASSUME NEW q \in Seq(Completions), NEW c \in Completions
  PROVE  /\ Append(q, c) \in Seq(Completions)
         /\ Len(Append(q, c)) = Len(q) + 1
         /\ \A i \in 1 .. Len(q) + 1 :
              Append(q, c)[i] = IF i = Len(q) + 1 THEN c ELSE q[i]
<1>1. /\ Append(q, c) \in Seq(Completions)
      /\ Len(Append(q, c)) = Len(q) + 1
      /\ \A i \in 1 .. Len(q) : Append(q, c)[i] = q[i]
      /\ Append(q, c)[Len(q) + 1] = c
  BY AppendProperties
<1>2. Len(q) \in Nat
  BY LenProperties
<1> QED BY <1>1, <1>2

\* What running the first one does.
LEMMA RunHandlerFirst ==
  ASSUME NEW q \in Seq(Completions), q # <<>>
  PROVE  /\ Head(q) \in Completions /\ Head(q) = q[1]
         /\ Tail(q) \in Seq(Completions)
         /\ Len(q) \in Nat \ {0} /\ Len(Tail(q)) = Len(q) - 1
         /\ \A i \in 1 .. Len(q) - 1 : Tail(q)[i] = q[i + 1]
BY HeadTailProperties, EmptySeq

\* The results that the code makes up.
LEMMA EmptyCompletions ==
  /\ Done("error", Nothing) \in Completions
  /\ Done("error", Nothing).ec = "error"
  /\ Done("aborted", Nothing) \in Completions
  /\ Done("aborted", Nothing).ec = "aborted"
  /\ \A d \in Datagrams : /\ Done("ok", d) \in Completions
                          /\ Done("ok", d).ec = "ok" /\ Done("ok", d).d = d
BY DEF Done, Completions

\* do_receive adds one receive, with the reactor or, when the socket is closed,
\* failed.
LEMMA DoReceiveAddsOne ==
  ASSUME NEW q \in Seq(Completions), receives \in Nat, open \in BOOLEAN, DoReceive(q)
  PROVE  /\ receives' \in Nat /\ handlers' \in Seq(Completions)
         /\ receives' + Len(handlers') = receives + Len(q) + 1
         /\ open => handlers' = q
         /\ \A i \in 1 .. Len(handlers') :
              \/ i \in 1 .. Len(q) /\ handlers'[i] = q[i]
              \/ handlers'[i].ec = "error"
<1>1. Len(q) \in Nat
  BY LenProperties
<1>2. CASE open
  BY <1>1, <1>2 DEF DoReceive
<1>3. CASE ~open
  <2> DEFINE c == Done("error", Nothing)
  <2>1. c \in Completions /\ c.ec = "error"
    BY EmptyCompletions
  <2>2. handlers' = Append(q, c) /\ receives' = receives
    BY <1>3 DEF DoReceive
  <2> HIDE DEF c
  <2>3. /\ Append(q, c) \in Seq(Completions)
        /\ Len(Append(q, c)) = Len(q) + 1
        /\ \A i \in 1 .. Len(q) + 1 :
             Append(q, c)[i] = IF i = Len(q) + 1 THEN c ELSE q[i]
    BY <2>1, QueuedHandler
  <2> QED BY <1>1, <1>3, <2>1, <2>2, <2>3
<1> QED BY <1>2, <1>3

\* The calls of the program.
LEMMA ServerCalls ==
  ASSUME UdpInv, \/ Start \/ \E hosts \in Hosts : AddMessageCallback(hosts)
                 \/ \E last \in BOOLEAN : Close(last)
  PROVE  UdpInv'
<1>a. /\ open \in BOOLEAN /\ gone \in BOOLEAN /\ receives \in Nat /\ starts \in Nat
      /\ handlers \in Seq(Completions) /\ Len(handlers) \in Nat
  BY LenProperties DEF UdpInv, ServerType
<1>1. CASE Start
  <2>1. /\ ~gone /\ DoReceive(handlers) /\ starts' = starts + 1
        /\ UNCHANGED <<open, gone, buffer, serving, callbacks, delivered>>
    BY <1>1 DEF Start
  <2>2. /\ receives' \in Nat /\ handlers' \in Seq(Completions)
        /\ receives' + Len(handlers') = receives + Len(handlers) + 1
        /\ open => handlers' = handlers
        /\ \A i \in 1 .. Len(handlers') :
             \/ i \in 1 .. Len(handlers) /\ handlers'[i] = handlers[i]
             \/ handlers'[i].ec = "error"
    BY <1>a, <2>1, DoReceiveAddsOne
  <2>3. Len(handlers') \in Nat
    BY <2>2, LenProperties
  <2>4. ServerType'
    BY <1>a, <2>1, <2>2 DEF UdpInv, ServerType
  <2>5. OnePerStart'
    BY <1>a, <2>1, <2>2, <2>3 DEF UdpInv, OnePerStart, Ongoing
  <2>6. BufferIsFresh'
    BY <1>a, <2>1, <2>2 DEF UdpInv, OnePerStart, BufferIsFresh
  <2> QED BY <2>4, <2>5, <2>6 DEF UdpInv
<1>2. ASSUME NEW hosts \in Hosts, AddMessageCallback(hosts)
      PROVE  UdpInv'
  <2>1. /\ callbacks' = Append(callbacks, hosts)
        /\ UNCHANGED <<open, gone, buffer, receives, starts, handlers, serving, delivered>>
    BY <1>2 DEF AddMessageCallback
  <2>2. callbacks' \in Seq(Hosts)
    BY <2>1, AppendProperties DEF UdpInv, ServerType
  <2> QED BY <2>1, <2>2 DEF UdpInv, ServerType, OnePerStart, Ongoing, BufferIsFresh
<1>3. ASSUME NEW last \in BOOLEAN, Close(last)
      PROVE  UdpInv'
  <2> DEFINE a == Done("aborted", Nothing)
  <2>1. /\ open' = FALSE /\ gone' = last /\ receives' = 0
        /\ handlers' = handlers \o Aborted
        /\ UNCHANGED <<buffer, starts, serving, callbacks, delivered>>
    BY <1>3 DEF Close
  <2>2. a \in Completions /\ a.ec = "aborted"
    BY EmptyCompletions
  <2>3. Aborted = [i \in 1 .. receives |-> a]
    BY DEF Aborted
  <2> HIDE DEF a
  <2>4. Aborted \in Seq(Completions) /\ Len(Aborted) = receives
    BY <1>a, <2>2, <2>3
  <2>5. /\ handlers' \in Seq(Completions)
        /\ Len(handlers') = Len(handlers) + receives
        /\ \A i \in 1 .. Len(handlers) + receives :
             handlers'[i] = IF i <= Len(handlers) THEN handlers[i]
                            ELSE Aborted[i - Len(handlers)]
    BY <1>a, <2>1, <2>4, ConcatProperties
  <2>6. \A i \in 1 .. Len(handlers') :
          \/ i \in 1 .. Len(handlers) /\ handlers'[i] = handlers[i]
          \/ handlers'[i].ec = "aborted"
    <3>1. Len(handlers) \in Nat /\ receives \in Nat /\ Len(handlers') = Len(handlers) + receives
      BY <1>a, <2>5, LenProperties
    <3>2. \A j \in 1 .. receives : Aborted[j].ec = "aborted"
      BY <2>2, <2>3
    <3> SUFFICES ASSUME NEW i \in 1 .. Len(handlers) + receives
                 PROVE  \/ i \in 1 .. Len(handlers) /\ handlers'[i] = handlers[i]
                        \/ handlers'[i].ec = "aborted"
      BY <3>1
    <3>3. CASE i <= Len(handlers)
      BY <2>5, <3>1, <3>3
    <3>4. CASE ~(i <= Len(handlers))
      <4>1. i - Len(handlers) \in 1 .. receives
        BY <3>1, <3>4
      <4>2. handlers'[i] = Aborted[i - Len(handlers)]
        BY <2>5, <3>4
      <4> QED BY <3>2, <4>1, <4>2
    <3> QED BY <3>3, <3>4
  <2>7. ServerType'
    BY <1>a, <2>1, <2>5 DEF UdpInv, ServerType
  <2>8. OnePerStart'
    BY <1>a, <2>1, <2>5 DEF UdpInv, OnePerStart, Ongoing
  <2>9. BufferIsFresh'
    BY <1>a, <2>1, <2>6 DEF UdpInv, BufferIsFresh
  <2> QED BY <2>7, <2>8, <2>9 DEF UdpInv
<1> QED BY <1>1, <1>2, <1>3

\* The reactor.
LEMMA ReactorSteps ==
  ASSUME UdpInv, ReceiveFails \/ \E d \in Datagrams : Receive(d)
  PROVE  UdpInv'
<1>a. /\ open \in BOOLEAN /\ gone \in BOOLEAN /\ receives \in Nat /\ starts \in Nat
      /\ handlers \in Seq(Completions) /\ Len(handlers) \in Nat
  BY LenProperties DEF UdpInv, ServerType
<1>b. ASSUME NEW c \in Completions, c.ec # "aborted", receives > 0,
             handlers' = Append(handlers, c), receives' = receives - 1,
             UNCHANGED <<open, gone, starts, serving, callbacks, delivered>>
      PROVE  /\ ServerType' /\ OnePerStart'
             /\ Len(handlers') = Len(handlers) + 1
             /\ \A i \in 1 .. Len(handlers) + 1 :
                  handlers'[i] = IF i = Len(handlers) + 1 THEN c ELSE handlers[i]
  <2>1. /\ handlers' \in Seq(Completions)
        /\ Len(handlers') = Len(handlers) + 1
        /\ \A i \in 1 .. Len(handlers) + 1 :
             handlers'[i] = IF i = Len(handlers) + 1 THEN c ELSE handlers[i]
    BY <1>a, <1>b, QueuedHandler
  <2>2. ServerType'
    BY <1>a, <1>b, <2>1 DEF UdpInv, ServerType
  <2>3. OnePerStart'
    BY <1>a, <1>b, <2>1 DEF UdpInv, OnePerStart, Ongoing
  <2> QED BY <2>1, <2>2, <2>3
<1>1. CASE ReceiveFails
  <2> DEFINE c == Done("error", Nothing)
  <2>1. c \in Completions /\ c.ec = "error"
    BY EmptyCompletions
  <2>2. /\ receives > 0 /\ handlers' = Append(handlers, c) /\ receives' = receives - 1
        /\ UNCHANGED <<open, gone, starts, serving, callbacks, delivered, buffer>>
    BY <1>1 DEF ReceiveFails
  <2> HIDE DEF c
  <2>3. /\ ServerType' /\ OnePerStart'
        /\ Len(handlers') = Len(handlers) + 1
        /\ \A i \in 1 .. Len(handlers) + 1 :
             handlers'[i] = IF i = Len(handlers) + 1 THEN c ELSE handlers[i]
    BY <1>b, <2>1, <2>2
  <2>4. BufferIsFresh'
    BY <1>a, <2>1, <2>2, <2>3 DEF UdpInv, BufferIsFresh
  <2> QED BY <2>3, <2>4 DEF UdpInv
<1>2. ASSUME NEW d \in Datagrams, Receive(d)
      PROVE  UdpInv'
  <2> DEFINE c == Done("ok", d)
  <2>1. c \in Completions /\ c.ec = "ok" /\ c.d = d
    BY EmptyCompletions
  <2>2. /\ receives > 0 /\ handlers' = Append(handlers, c) /\ receives' = receives - 1
        /\ buffer' = d
        /\ UNCHANGED <<open, gone, starts, serving, callbacks, delivered>>
    BY <1>2 DEF Receive
  <2> HIDE DEF c
  <2>3. /\ ServerType' /\ OnePerStart'
        /\ Len(handlers') = Len(handlers) + 1
        /\ \A i \in 1 .. Len(handlers) + 1 :
             handlers'[i] = IF i = Len(handlers) + 1 THEN c ELSE handlers[i]
    BY <1>b, <2>1, <2>2
  <2>4. starts <= 1 => Len(handlers) = 0 /\ ~serving.on
    BY <1>a, <2>2 DEF UdpInv, OnePerStart, Ongoing, ServerType
  <2>5. BufferIsFresh'
    BY <1>a, <2>1, <2>2, <2>3, <2>4 DEF UdpInv, BufferIsFresh
  <2> QED BY <2>3, <2>5 DEF UdpInv
<1> QED BY <1>1, <1>2

\* The handler of a receive, up to its callbacks.
LEMMA HandleKeeps ==
  ASSUME UdpInv, Handle
  PROVE  UdpInv'
<1> DEFINE c == Head(handlers)
           t == Tail(handlers)
<1>a. /\ open \in BOOLEAN /\ gone \in BOOLEAN /\ receives \in Nat /\ starts \in Nat
      /\ handlers \in Seq(Completions) /\ Len(handlers) \in Nat
  BY LenProperties DEF UdpInv, ServerType
<1>b. /\ handlers # <<>> /\ ~serving.on
      /\ UNCHANGED <<open, gone, buffer, starts, callbacks, delivered>>
  BY DEF Handle
<1>c. /\ c \in Completions /\ c = handlers[1]
      /\ t \in Seq(Completions)
      /\ Len(handlers) \in Nat \ {0} /\ Len(t) = Len(handlers) - 1
      /\ \A i \in 1 .. Len(handlers) - 1 : t[i] = handlers[i + 1]
  BY <1>a, <1>b, RunHandlerFirst
<1>d. \A i \in 1 .. Len(t) : i + 1 \in 1 .. Len(handlers) /\ t[i] = handlers[i + 1]
  BY <1>a, <1>c
<1>e. Len(t) \in Nat /\ c.d \in Datagrams \cup {Nothing}
  BY <1>c DEF Completions
<1>1. CASE c.ec # "aborted" /\ gone
  <2>1. handlers' = t /\ UNCHANGED <<serving, receives>>
    BY <1>1 DEF Handle
  <2> HIDE DEF c, t
  <2>2. ServerType'
    BY <1>a, <1>b, <1>c, <2>1 DEF UdpInv, ServerType
  <2>3. OnePerStart'
    BY <1>a, <1>b, <1>c, <1>1, <2>1 DEF UdpInv, OnePerStart, Ongoing
  <2>4. BufferIsFresh'
    BY <1>b, <1>d, <2>1 DEF UdpInv, BufferIsFresh
  <2> QED BY <2>2, <2>3, <2>4 DEF UdpInv
<1>2. CASE ~(c.ec # "aborted" /\ gone) /\ c.ec = "ok" /\ c.d.size > 0
  <2>1. /\ serving' = [on |-> TRUE, d |-> c.d, at |-> 1, end |-> Len(callbacks)]
        /\ handlers' = t /\ UNCHANGED receives
    BY <1>2 DEF Handle
  <2>2. serving'.on /\ serving'.d = c.d
    BY <2>1
  <2> HIDE DEF c, t
  <2>3. ServerType'
    <3>1. Len(callbacks) \in Int
      BY LenProperties DEF UdpInv, ServerType
    <3> QED BY <1>a, <1>b, <1>c, <1>e, <2>1, <3>1 DEF UdpInv, ServerType
  <2>4. OnePerStart'
    <3>1. Ongoing' = receives + Len(t) + 1 /\ Ongoing = receives + Len(handlers) + 0
      BY <1>b, <2>1, <2>2 DEF Ongoing
    <3>2. Ongoing' = Ongoing
      BY <1>a, <1>c, <3>1
    <3>3. open => \A i \in 1 .. Len(t) : t[i].ec # "aborted"
      BY <1>d DEF UdpInv, OnePerStart
    <3> QED BY <1>b, <2>1, <3>2, <3>3 DEF UdpInv, OnePerStart
  <2>5. BufferIsFresh'
    BY <1>b, <1>c, <1>d, <1>2, <2>1, <2>2 DEF UdpInv, BufferIsFresh
  <2> QED BY <2>3, <2>4, <2>5 DEF UdpInv
<1>3. CASE ~(c.ec # "aborted" /\ gone) /\ ~(c.ec = "ok" /\ c.d.size > 0)
  <2>1. /\ IF Rearms(c) THEN DoReceive(t) ELSE handlers' = t /\ UNCHANGED receives
        /\ UNCHANGED serving
    BY <1>3 DEF Handle
  <2> HIDE DEF c, t
  <2>2. CASE Rearms(c)
    <3>1. /\ receives' \in Nat /\ handlers' \in Seq(Completions)
          /\ receives' + Len(handlers') = receives + Len(t) + 1
          /\ open => handlers' = t
          /\ \A i \in 1 .. Len(handlers') :
               \/ i \in 1 .. Len(t) /\ handlers'[i] = t[i]
               \/ handlers'[i].ec = "error"
      BY <1>a, <1>c, <2>1, <2>2, DoReceiveAddsOne
    <3>2. Len(handlers') \in Nat
      BY <3>1, LenProperties
    <3>3. ServerType'
      BY <1>a, <1>b, <2>1, <3>1 DEF UdpInv, ServerType
    <3>4. OnePerStart'
      <4>1. Ongoing' = receives' + Len(handlers') + 0 /\ Ongoing = receives + Len(handlers) + 0
        BY <1>b, <2>1 DEF Ongoing
      <4>2. Ongoing' = Ongoing
        BY <1>a, <1>c, <3>1, <3>2, <4>1
      <4>3. open => \A i \in 1 .. Len(t) : t[i].ec # "aborted"
        BY <1>d DEF UdpInv, OnePerStart
      <4>4. open' => \A i \in 1 .. Len(handlers') : handlers'[i].ec # "aborted"
        BY <1>b, <3>1, <4>3
      <4> QED BY <1>b, <4>2, <4>4 DEF UdpInv, OnePerStart
    <3>5. BufferIsFresh'
      <4>1. starts <= 1 => \A i \in 1 .. Len(t) :
              t[i].ec = "ok" => t[i].d = buffer
        BY <1>d DEF UdpInv, BufferIsFresh
      <4>2. starts <= 1 => \A i \in 1 .. Len(handlers') :
              handlers'[i].ec = "ok" => handlers'[i].d = buffer
        BY <3>1, <4>1
      <4> QED BY <1>b, <2>1, <4>2 DEF UdpInv, BufferIsFresh
    <3> QED BY <3>3, <3>4, <3>5 DEF UdpInv
  <2>3. CASE ~Rearms(c)
    <3>1. handlers' = t /\ UNCHANGED receives
      BY <2>1, <2>3
    <3>2. ~open
      BY <1>a, <1>c, <2>3 DEF Rearms, UdpInv, OnePerStart
    <3>3. ServerType'
      BY <1>a, <1>b, <1>c, <2>1, <3>1 DEF UdpInv, ServerType
    <3>4. OnePerStart'
      BY <1>a, <1>b, <1>c, <2>1, <3>1, <3>2 DEF UdpInv, OnePerStart, Ongoing
    <3>5. BufferIsFresh'
      BY <1>b, <1>d, <2>1, <3>1 DEF UdpInv, BufferIsFresh
    <3> QED BY <3>3, <3>4, <3>5 DEF UdpInv
  <2> QED BY <2>2, <2>3
<1> QED BY <1>1, <1>2, <1>3

\* The callbacks of a handler, and do_receive behind the last.
LEMMA ServeKeeps ==
  ASSUME UdpInv, Serve
  PROVE  UdpInv'
<1>a. /\ open \in BOOLEAN /\ gone \in BOOLEAN /\ receives \in Nat /\ starts \in Nat
      /\ handlers \in Seq(Completions) /\ Len(handlers) \in Nat
  BY LenProperties DEF UdpInv, ServerType
<1>b. serving \in [on : BOOLEAN, d : Datagrams \cup {Nothing}, at : Int, end : Int]
  BY DEF UdpInv, ServerType
<1>c. serving.on /\ UNCHANGED <<open, gone, buffer, starts, callbacks>>
  BY DEF Serve
<1>d. /\ Idle \in [on : BOOLEAN, d : Datagrams \cup {Nothing}, at : Int, end : Int]
      /\ ~Idle.on
  BY DEF Idle
<1>1. CASE gone
  <2>1. serving' = Idle /\ UNCHANGED <<receives, handlers, delivered>>
    BY <1>1 DEF Serve
  <2>2. ServerType'
    BY <1>c, <1>d, <2>1 DEF UdpInv, ServerType
  <2>3. OnePerStart'
    BY <1>a, <1>c, <1>d, <1>1, <2>1 DEF UdpInv, OnePerStart, Ongoing
  <2>4. BufferIsFresh'
    BY <1>c, <1>d, <2>1 DEF UdpInv, BufferIsFresh
  <2> QED BY <2>2, <2>3, <2>4 DEF UdpInv
<1>2. CASE ~gone /\ serving.at <= serving.end
  <2>1. /\ serving' = [serving EXCEPT !.at = @ + 1]
        /\ \/ delivered' = delivered
           \/ delivered' = delivered \cup {<<serving.at, serving.d, buffer>>}
        /\ UNCHANGED <<receives, handlers>>
    BY <1>2 DEF Serve
  <2>2. /\ serving' \in [on : BOOLEAN, d : Datagrams \cup {Nothing}, at : Int, end : Int]
        /\ serving'.on = serving.on /\ serving'.d = serving.d
    BY <1>b, <2>1
  <2>3. ServerType'
    BY <1>c, <2>1, <2>2 DEF UdpInv, ServerType
  <2>4. OnePerStart'
    BY <1>a, <1>c, <2>1, <2>2 DEF UdpInv, OnePerStart, Ongoing
  <2>5. BufferIsFresh'
    BY <1>c, <2>1, <2>2 DEF UdpInv, BufferIsFresh
  <2> QED BY <2>3, <2>4, <2>5 DEF UdpInv
<1>3. CASE ~gone /\ ~(serving.at <= serving.end)
  <2>1. serving' = Idle /\ DoReceive(handlers) /\ UNCHANGED delivered
    BY <1>3 DEF Serve
  <2>2. /\ receives' \in Nat /\ handlers' \in Seq(Completions)
        /\ receives' + Len(handlers') = receives + Len(handlers) + 1
        /\ open => handlers' = handlers
        /\ \A i \in 1 .. Len(handlers') :
             \/ i \in 1 .. Len(handlers) /\ handlers'[i] = handlers[i]
             \/ handlers'[i].ec = "error"
    BY <1>a, <2>1, DoReceiveAddsOne
  <2>3. Len(handlers') \in Nat
    BY <2>2, LenProperties
  <2>4. ServerType'
    BY <1>c, <1>d, <2>1, <2>2 DEF UdpInv, ServerType
  <2>5. OnePerStart'
    BY <1>a, <1>c, <1>d, <2>1, <2>2, <2>3 DEF UdpInv, OnePerStart, Ongoing
  <2>6. BufferIsFresh'
    BY <1>c, <1>d, <2>1, <2>2 DEF UdpInv, BufferIsFresh
  <2> QED BY <2>4, <2>5, <2>6 DEF UdpInv
<1> QED BY <1>1, <1>2, <1>3

\* Each Start of UDPServer keeps one receive going while the socket is open, and
\* with one Start the callbacks are given the datagram that was received.
THEOREM UdpServerReceives == UdpSpec => []ServerReceives
<1>1. UdpInit => UdpInv
  <2> SUFFICES ASSUME UdpInit PROVE UdpInv
    OBVIOUS
  <2>1. ServerType
    <3>1. /\ Idle \in [on : BOOLEAN, d : Datagrams \cup {Nothing}, at : Int, end : Int]
          /\ <<>> \in Seq(Completions) /\ <<>> \in Seq(Hosts)
      BY DEF Idle
    <3> QED BY <3>1 DEF UdpInit, ServerType
  <2>2. OnePerStart
    BY DEF UdpInit, OnePerStart, Ongoing, Idle
  <2>3. BufferIsFresh
    BY DEF UdpInit, BufferIsFresh, Idle
  <2> QED BY <2>1, <2>2, <2>3 DEF UdpInv
<1>2. UdpInv /\ [UdpNext]_udpVars => UdpInv'
  <2> SUFFICES ASSUME UdpInv, [UdpNext]_udpVars PROVE UdpInv'
    OBVIOUS
  <2>1. CASE UNCHANGED serverVars
    BY <2>1 DEF serverVars, UdpInv, ServerType, OnePerStart, Ongoing, BufferIsFresh
  <2>2. CASE \/ CloseClient
             \/ \E d \in Datagrams : Send(d) \/ SendDone(d) \/ SendFails(d) \/ Lose(d)
    BY <2>1, <2>2 DEF CloseClient, Send, SendDone, SendFails, Lose
  <2>3. CASE UNCHANGED udpVars
    BY <2>1, <2>3 DEF udpVars
  <2> QED
    BY <2>2, <2>3, ServerCalls, ReactorSteps, HandleKeeps, ServeKeeps DEF UdpNext
<1>3. UdpInv => ServerReceives
  BY DEF UdpInv, OnePerStart, Ongoing, BufferIsFresh, ServerReceives, ReceptionGoesOn,
         DeliveredAsReceived
<1> QED BY <1>1, <1>2, <1>3, PTL DEF UdpSpec

-----------------------------------------------------------------------------
(* The TCP client. *)

ClientSpec == ClientInit /\ [][ClientNext]_connectVars

\* A connect in progress has a session that can still be stopped, and what ends
\* a session or aborts a connect has told the caller.
Answered(a) ==
  /\ connect[a] = "pending" => session[a] = "live"
  /\ connect[a] = "aborted" \/ session[a] = "closed" => told[a] # {}
  /\ attempt[a] \in {"connecting", "cancelled"} => connect[a] # "none"
  /\ attempt[a] \in {"idle", "resolving"} => connect[a] = "none" /\ session[a] = "none"
  /\ attempt[a] = "done" => told[a] # {} \/ misused

ClientInv ==
  /\ attempt \in [Attempts -> {"idle", "resolving", "connecting", "cancelled", "done"}]
  /\ wait \in [Attempts -> {"none", "waiting", "aborted", "expired", "stopped", "done"}]
  /\ connect \in [Attempts -> {"none", "pending", "ok", "error", "aborted"}]
  /\ session \in [Attempts -> {"none", "live", "started", "closed"}]
  /\ told \in [Attempts -> SUBSET {"on_failed", "on_connected", "on_disconnect"}]
  /\ \A a \in Attempts : Answered(a)

\* A Stop of its session ends an attempt's connect and tells the caller.
LEMMA StopKeeps ==
  ASSUME ClientInv, NEW a \in Attempts, AfterStop(a), UNCHANGED <<attempt, misused>>,
         wait' \in [Attempts -> {"none", "waiting", "aborted", "expired", "stopped", "done"}]
  PROVE  ClientInv'
<1>1. /\ connect' \in [Attempts -> {"none", "pending", "ok", "error", "aborted"}]
      /\ session' \in [Attempts -> {"none", "live", "started", "closed"}]
      /\ told' \in [Attempts -> SUBSET {"on_failed", "on_connected", "on_disconnect"}]
  BY DEF ClientInv, AfterStop
<1>2. ASSUME NEW b \in Attempts PROVE Answered(b)'
  BY DEF ClientInv, AfterStop, Stops, Answered
<1>. QED
  BY <1>1, <1>2 DEF ClientInv

\* The handler of a connect reports, or touches what is gone.
LEMMA ReportKeeps ==
  ASSUME ClientInv, NEW a \in Attempts, ConnectReport(a)
  PROVE  ClientInv'
<1>1. /\ attempt[a] = "cancelled" /\ attempt' = [attempt EXCEPT ![a] = "done"]
      /\ UNCHANGED <<wait, connect>>
  BY DEF ConnectReport
<1>2. CASE Breaks
  BY <1>1, <1>2 DEF Breaks, ClientInv, Answered
<1>3. CASE connect[a] # "ok" /\ ReportsError(a)
  BY <1>1, <1>3 DEF ReportsError, Tell, ClientInv, Answered
<1>4. CASE connect[a] = "ok" /\ ReportsSession(a)
  BY <1>1, <1>4 DEF ReportsSession, Tell, ClientInv, Answered
<1>. QED
  BY <1>2, <1>3, <1>4 DEF ConnectReport

LEMMA ClientStep == ClientInv /\ [ClientNext]_connectVars => ClientInv'
<1>. SUFFICES ASSUME ClientInv, [ClientNext]_connectVars PROVE ClientInv'
  OBVIOUS
<1>1. ASSUME NEW a \in Attempts, Connect(a) PROVE ClientInv'
  <2>1. PICK result \in {"nullptr", "session"}, s \in {"none", "live", "started"},
             callback \in {"on_failed", "on_connected"} : Connected(a, result, s, callback)
    BY <1>1 DEF Connect
  <2>. QED
    BY <2>1 DEF Connected, Tell, ClientInv, Answered
<1>2. ASSUME NEW a \in Attempts, ConnectAync(a) PROVE ClientInv'
  BY <1>2 DEF ConnectAync, ClientInv, Answered
<1>3. ASSUME NEW a \in Attempts, ResolveFails(a) PROVE ClientInv'
  BY <1>3 DEF ResolveFails, Tell, ClientInv, Answered
<1>4. ASSUME NEW a \in Attempts, Resolve(a) PROVE ClientInv'
  <2>1. CASE ~ClientLives
    BY <1>4, <2>1 DEF Resolve, ClientInv, Answered
  <2>2. CASE ClientLives /\ timeout
    <3>1. /\ attempt' = [attempt EXCEPT ![a] = "connecting"]
          /\ wait' = [Cancelled EXCEPT ![a] = "waiting"]
          /\ connect' = [connect EXCEPT ![a] = "pending"]
          /\ session' = [session EXCEPT ![a] = "live"]
          /\ told' = [told EXCEPT ![a] = @] /\ UNCHANGED misused
      BY <1>4, <2>2 DEF Resolve
    <3>2. told' = told
      BY <3>1 DEF ClientInv
    <3>. QED
      BY <1>4, <3>1, <3>2 DEF Resolve, Cancelled, ClientInv, Answered
  <2>3. CASE ClientLives /\ ~timeout
    <3>1. /\ attempt' = [attempt EXCEPT ![a] = "connecting"] /\ wait' = wait
          /\ connect' = [connect EXCEPT ![a] = "aborted"]
          /\ session' = [session EXCEPT ![a] = "closed"]
          /\ told' = [told EXCEPT ![a] = @ \cup {"on_disconnect"}] /\ UNCHANGED misused
      BY <1>4, <2>3 DEF Resolve
    <3>. QED
      BY <3>1 DEF ClientInv, Answered
  <2>. QED
    BY <2>1, <2>2, <2>3
<1>5. ASSUME NEW a \in Attempts, Expire(a) PROVE ClientInv'
  BY <1>5 DEF Expire, ClientInv, Answered
<1>6. ASSUME NEW a \in Attempts, TimeoutStop(a) PROVE ClientInv'
  <2>1. wait' \in [Attempts -> {"none", "waiting", "aborted", "expired", "stopped", "done"}]
    BY <1>6 DEF TimeoutStop, ClientInv
  <2>. QED
    BY <1>6, <2>1, StopKeeps DEF TimeoutStop
<1>7. ASSUME NEW a \in Attempts, TimeoutReport(a) PROVE ClientInv'
  BY <1>7 DEF TimeoutReport, Tell, ClientInv, Answered
<1>8. ASSUME NEW a \in Attempts, WaitAborted(a) PROVE ClientInv'
  <2>1. wait' \in [Attempts -> {"none", "waiting", "aborted", "expired", "stopped", "done"}]
    BY <1>8 DEF WaitAborted, ClientInv
  <2>2. CASE session[a] = "live"
    BY <1>8, <2>1, <2>2, StopKeeps DEF WaitAborted
  <2>3. CASE session[a] # "live"
    BY <1>8, <2>1, <2>3 DEF WaitAborted, ClientInv, Answered
  <2>. QED
    BY <2>2, <2>3
<1>9. ASSUME NEW a \in Attempts, NEW result \in {"ok", "error"}, ConnectEnds(a, result)
      PROVE  ClientInv'
  BY <1>9 DEF ConnectEnds, ClientInv, Answered
<1>10. ASSUME NEW a \in Attempts, ConnectHandler(a) PROVE ClientInv'
  BY <1>10 DEF ConnectHandler, Cancelled, ClientInv, Answered
<1>11. CASE ReleaseClient
  BY <1>11 DEF ReleaseClient, Cancelled, ClientInv, Answered
<1>12. CASE UNCHANGED connectVars
  BY <1>12 DEF connectVars, ClientInv, Answered
<1>. QED
  BY <1>1, <1>2, <1>3, <1>4, <1>5, <1>6, <1>7, <1>8, <1>9, <1>10, <1>11, <1>12, ReportKeeps
  DEF ClientNext, Handlers

\* An attempt to connect is over only when its caller has had a callback, for
\* any number of attempts: an aborted connect, which its handler passes over,
\* was aborted by a Stop that has called on_disconnect, although attempts cancel
\* each other's timer.
THEOREM ClientDoneIsTold == ClientSpec => []DoneIsTold
<1>1. ClientInit => ClientInv
  BY DEF ClientInit, ClientInv, Answered
<1>2. ClientInv => DoneIsTold
  BY DEF ClientInv, Answered, DoneIsTold
<1>. QED
  BY <1>1, <1>2, ClientStep, PTL DEF ClientSpec

-----------------------------------------------------------------------------
(* The coroutine session. *)

CoroSpec == SessionInit /\ [][SessionNext]_sessionVars

Codes == {"ok", "data", "empty", "bad", "error", "aborted"}
Entries == [task : {"push"}, what : Messages] \cup [task : Loops, what : Codes]
Kinds == {"read", "write", "timer"}
Stages == {"none", "spawned", "header", "data", "writing", "waiting", "ended"}

\* How often a sequence holds an element of K: not at all, once.
NoneOf(s, K) == \A i \in 1 .. Len(s) : s[i] \notin K
OneOf(s, K) == \E i \in 1 .. Len(s) : s[i] \in K /\ \A j \in 1 .. Len(s) : s[j] \in K => j = i

TurnsOf(l) == {e \in Entries : e.task = l}
Of(l, ops) == ops \cap (IF l = "write" THEN {"write", "timer"} ELSE {l})

\* What SuspendedForOne says of one loop at a stage, with the strand and the
\* operations given.
Waits(l, at, s, ops) ==
  IF at \in {"none", "ended"} THEN NoneOf(s, TurnsOf(l)) /\ Of(l, ops) = {}
  ELSE \/ Of(l, ops) = {} /\ OneOf(s, TurnsOf(l))
       \/ NoneOf(s, TurnsOf(l)) /\ \E op \in ops : Of(l, ops) = {op}

LEMMA AppendOne ==
  ASSUME NEW S, NEW s \in Seq(S), NEW e \in S, NEW K
  PROVE  /\ Append(s, e) \in Seq(S)
         /\ NoneOf(Append(s, e), K) <=> NoneOf(s, K) /\ e \notin K
         /\ e \notin K => (OneOf(s, K) => OneOf(Append(s, e), K))
         /\ e \in K /\ NoneOf(s, K) => OneOf(Append(s, e), K)
<1>. DEFINE t == Append(s, e)
<1>1. /\ t \in Seq(S) /\ Len(t) = Len(s) + 1 /\ Len(s) \in Nat
      /\ \A i \in 1 .. Len(s) : t[i] = s[i]
      /\ t[Len(s) + 1] = e
  OBVIOUS
<1>2. \A i \in 1 .. Len(t) : i \in 1 .. Len(s) \/ i = Len(s) + 1
  BY <1>1
<1>3. \A i \in 1 .. Len(s) : i \in 1 .. Len(t)
  BY <1>1
<1>4. Len(s) + 1 \in 1 .. Len(t) /\ Len(s) + 1 \notin 1 .. Len(s)
  BY <1>1
<1>. HIDE DEF t
<1>5. NoneOf(t, K) <=> NoneOf(s, K) /\ e \notin K
  BY <1>1, <1>2, <1>3, <1>4 DEF NoneOf
<1>6. e \notin K => (OneOf(s, K) => OneOf(t, K))
  BY <1>1, <1>2, <1>3 DEF OneOf
<1>7. e \in K /\ NoneOf(s, K) => OneOf(t, K)
  BY <1>1, <1>2, <1>4 DEF OneOf, NoneOf
<1>. QED
  BY <1>1, <1>5, <1>6, <1>7 DEF t

LEMMA TailOne ==
  ASSUME NEW S, NEW s \in Seq(S), s # <<>>, NEW K
  PROVE  /\ Tail(s) \in Seq(S) /\ Head(s) \in S
         /\ NoneOf(s, K) => NoneOf(Tail(s), K) /\ Head(s) \notin K
         /\ Head(s) \notin K => (OneOf(s, K) => OneOf(Tail(s), K))
         /\ Head(s) \notin K => (NoneOf(Tail(s), K) => NoneOf(s, K))
         /\ Head(s) \in K => (OneOf(s, K) => NoneOf(Tail(s), K))
<1>. DEFINE t == Tail(s)
<1>1. /\ t \in Seq(S) /\ Len(t) = Len(s) - 1 /\ Len(s) \in Nat /\ Len(s) > 0
      /\ \A i \in 1 .. Len(t) : t[i] = s[i + 1]
      /\ Head(s) = s[1] /\ Head(s) \in S
  OBVIOUS
<1>2. \A i \in 1 .. Len(s) : i = 1 \/ (i - 1 \in 1 .. Len(t) /\ t[i - 1] = s[i])
  BY <1>1
<1>3. \A i \in 1 .. Len(t) : i + 1 \in 1 .. Len(s) /\ i + 1 # 1
  BY <1>1
<1>4. 1 \in 1 .. Len(s)
  BY <1>1
<1>. HIDE DEF t
<1>5. NoneOf(s, K) => NoneOf(t, K) /\ Head(s) \notin K
  BY <1>1, <1>3, <1>4 DEF NoneOf
<1>6. ASSUME Head(s) \notin K, OneOf(s, K) PROVE OneOf(t, K)
  <2>1. PICK i \in 1 .. Len(s) : s[i] \in K /\ \A j \in 1 .. Len(s) : s[j] \in K => j = i
    BY <1>6 DEF OneOf
  <2>2. i - 1 \in 1 .. Len(t) /\ t[i - 1] \in K
    BY <1>6, <2>1, <1>1, <1>2
  <2>3. ASSUME NEW j \in 1 .. Len(t), t[j] \in K PROVE j = i - 1
    <3>1. j + 1 = i
      BY <2>1, <2>3, <1>1, <1>3
    <3>. QED
      BY <3>1
  <2>. QED
    BY <2>2, <2>3 DEF OneOf
<1>7. Head(s) \notin K => (NoneOf(t, K) => NoneOf(s, K))
  BY <1>1, <1>2 DEF NoneOf
<1>8. ASSUME Head(s) \in K, OneOf(s, K) PROVE NoneOf(t, K)
  <2>1. \A j \in 1 .. Len(s) : s[j] \in K => j = 1
    BY <1>1, <1>4, <1>8 DEF OneOf
  <2>. QED
    BY <2>1, <1>1, <1>3 DEF NoneOf
<1>. QED
  BY <1>1, <1>5, <1>6, <1>7, <1>8 DEF t

\* Closing the socket gives each loop that has an operation on it its turn.
LEMMA AbortedIsAppended ==
  ASSUME NEW s \in Seq(Entries), operations \subseteq Kinds
  PROVE  /\ "read" \notin operations /\ "write" \notin operations => s \o AbortedLoops = s
         /\ "read" \in operations /\ "write" \notin operations =>
              s \o AbortedLoops = Append(s, Resume("read", "aborted"))
         /\ "read" \notin operations /\ "write" \in operations =>
              s \o AbortedLoops = Append(s, Resume("write", "aborted"))
         /\ "read" \in operations /\ "write" \in operations =>
              s \o AbortedLoops =
                Append(Append(s, Resume("read", "aborted")), Resume("write", "aborted"))
BY DEF AbortedLoops

LEMMA EntryKinds ==
  /\ \A l \in Loops, c \in Codes :
       /\ Resume(l, c) \in Entries
       /\ \A k \in Loops : Resume(l, c) \in TurnsOf(k) <=> k = l
       /\ \A m : Resume(l, c) # Push(m)
  /\ \A m \in Messages :
       /\ Push(m) \in Entries
       /\ \A l \in Loops : Push(m) \notin TurnsOf(l)
       /\ \A n : Push(m) = Push(n) => m = n
  /\ \A e \in Entries :
       /\ e.task = "push" \/ e.task \in Loops
       /\ e.task = "push" => e.what \in Messages /\ e = Push(e.what)
       /\ e.task \in Loops => e.what \in Codes /\ \A m : e # Push(m)
       /\ \A k : e \in TurnsOf(k) <=> k = e.task
<1>1. ASSUME NEW l \in Loops, NEW c \in Codes
      PROVE  /\ Resume(l, c) \in Entries
             /\ \A k \in Loops : Resume(l, c) \in TurnsOf(k) <=> k = l
             /\ \A m : Resume(l, c) # Push(m)
  <2>1. Resume(l, c) \in Entries /\ Resume(l, c).task = l /\ l # "push"
    BY DEF Entries, Resume, Loops
  <2>. QED
    BY <2>1 DEF TurnsOf, Push
<1>2. ASSUME NEW m \in Messages
      PROVE  /\ Push(m) \in Entries
             /\ \A l \in Loops : Push(m) \notin TurnsOf(l)
             /\ \A n : Push(m) = Push(n) => m = n
  <2>1. Push(m) \in Entries /\ Push(m).task = "push"
    BY DEF Entries, Push
  <2>2. \A n : Push(n).what = n
    BY DEF Push
  <2>. QED
    BY <2>1, <2>2 DEF TurnsOf, Loops
<1>3. ASSUME NEW e \in Entries
      PROVE  /\ e.task = "push" \/ e.task \in Loops
             /\ e.task = "push" => e.what \in Messages /\ e = Push(e.what)
             /\ e.task \in Loops => e.what \in Codes /\ \A m : e # Push(m)
             /\ \A k : e \in TurnsOf(k) <=> k = e.task
  <2>1. \A k : e \in TurnsOf(k) <=> k = e.task
    BY DEF TurnsOf
  <2>2. CASE e \in [task : {"push"}, what : Messages]
    <3>1. e.task = "push" /\ e.what \in Messages /\ e = Push(e.what)
      BY <2>2 DEF Push
    <3>. QED
      BY <2>1, <3>1 DEF Loops
  <2>3. CASE e \in [task : Loops, what : Codes]
    <3>1. e.task \in Loops /\ e.what \in Codes /\ e.task # "push"
      BY <2>3 DEF Loops
    <3>2. \A m : Push(m).task = "push"
      BY DEF Push
    <3>. QED
      BY <2>1, <3>1, <3>2
  <2>. QED
    BY <2>2, <2>3 DEF Entries
<1>. QED
  BY <1>1, <1>2, <1>3

Unique(s, K) == NoneOf(s, K) \/ OneOf(s, K)

\* The messages on the strand are the same.
SamePushes(s, t) ==
  \A m : /\ NoneOf(t, {Push(m)}) <=> NoneOf(s, {Push(m)})
         /\ Unique(s, {Push(m)}) => Unique(t, {Push(m)})

\* The turns of a loop are the same, or more exactly those there were once.
SameTurns(l, s, t) ==
  /\ NoneOf(s, TurnsOf(l)) => NoneOf(t, TurnsOf(l))
  /\ OneOf(s, TurnsOf(l)) => OneOf(t, TurnsOf(l))

LEMMA TurnIsAppended ==
  ASSUME NEW s \in Seq(Entries), NEW l \in Loops, NEW c \in Codes
  PROVE  LET t == Append(s, Resume(l, c)) IN
         /\ t \in Seq(Entries)
         /\ SamePushes(s, t)
         /\ \A k \in Loops : k # l => SameTurns(k, s, t)
         /\ NoneOf(s, TurnsOf(l)) => OneOf(t, TurnsOf(l))
<1>. DEFINE e == Resume(l, c)
            t == Append(s, e)
<1>1. /\ e \in Entries /\ \A m : e \notin {Push(m)}
      /\ e \in TurnsOf(l) /\ \A k \in Loops : k # l => e \notin TurnsOf(k)
  BY EntryKinds
<1>. HIDE DEF e
<1>2. /\ t \in Seq(Entries)
      /\ \A K : NoneOf(t, K) <=> NoneOf(s, K) /\ e \notin K
      /\ \A K : e \notin K => (OneOf(s, K) => OneOf(t, K))
      /\ \A K : e \in K /\ NoneOf(s, K) => OneOf(t, K)
  BY <1>1, AppendOne
<1>. HIDE DEF t
<1>3. SamePushes(s, t)
  BY <1>1, <1>2 DEF SamePushes, Unique
<1>4. \A k \in Loops : k # l => SameTurns(k, s, t)
  BY <1>1, <1>2 DEF SameTurns
<1>. QED
  BY <1>1, <1>2, <1>3, <1>4 DEF t, e

LEMMA TurnIsTaken ==
  ASSUME NEW s \in Seq(Entries), s # <<>>, NEW l \in Loops, Head(s).task = l
  PROVE  /\ Tail(s) \in Seq(Entries) /\ Head(s).what \in Codes
         /\ SamePushes(s, Tail(s))
         /\ \A k \in Loops : k # l => SameTurns(k, s, Tail(s))
         /\ OneOf(s, TurnsOf(l)) => NoneOf(Tail(s), TurnsOf(l))
         /\ ~NoneOf(s, TurnsOf(l))
<1>. DEFINE e == Head(s)
            t == Tail(s)
<1>1. /\ t \in Seq(Entries) /\ e \in Entries
      /\ \A K : NoneOf(s, K) => NoneOf(t, K) /\ e \notin K
      /\ \A K : e \notin K => (OneOf(s, K) => OneOf(t, K))
      /\ \A K : e \notin K => (NoneOf(t, K) => NoneOf(s, K))
      /\ \A K : e \in K => (OneOf(s, K) => NoneOf(t, K))
  BY TailOne
<1>2. /\ e.what \in Codes /\ \A m : e \notin {Push(m)}
      /\ e \in TurnsOf(l) /\ \A k \in Loops : k # l => e \notin TurnsOf(k)
  BY <1>1, EntryKinds
<1>. HIDE DEF e, t
<1>3. SamePushes(s, t)
  BY <1>1, <1>2 DEF SamePushes, Unique
<1>4. \A k \in Loops : k # l => SameTurns(k, s, t)
  BY <1>1, <1>2 DEF SameTurns
<1>. QED
  BY <1>1, <1>2, <1>3, <1>4 DEF t, e

LEMMA PushIsAppended ==
  ASSUME NEW s \in Seq(Entries), NEW m \in Messages
  PROVE  LET t == Append(s, Push(m)) IN
         /\ t \in Seq(Entries)
         /\ \A k \in Loops : SameTurns(k, s, t)
         /\ \A n : n # m => /\ NoneOf(t, {Push(n)}) <=> NoneOf(s, {Push(n)})
                            /\ Unique(s, {Push(n)}) => Unique(t, {Push(n)})
         /\ NoneOf(s, {Push(m)}) => OneOf(t, {Push(m)})
         /\ ~NoneOf(t, {Push(m)})
<1>. DEFINE e == Push(m)
            t == Append(s, e)
<1>1. /\ e \in Entries /\ \A n : n # m => e \notin {Push(n)}
      /\ \A k \in Loops : e \notin TurnsOf(k)
  BY EntryKinds
<1>2. /\ t \in Seq(Entries)
      /\ \A K : NoneOf(t, K) <=> NoneOf(s, K) /\ e \notin K
      /\ \A K : e \notin K => (OneOf(s, K) => OneOf(t, K))
      /\ \A K : e \in K /\ NoneOf(s, K) => OneOf(t, K)
  BY <1>1, AppendOne
<1>. HIDE DEF t
<1>3. \A n : n # m => /\ NoneOf(t, {Push(n)}) <=> NoneOf(s, {Push(n)})
                      /\ Unique(s, {Push(n)}) => Unique(t, {Push(n)})
  BY <1>1, <1>2 DEF Unique
<1>4. \A k \in Loops : SameTurns(k, s, t)
  BY <1>1, <1>2 DEF SameTurns
<1>. QED
  BY <1>1, <1>2, <1>3, <1>4 DEF t

LEMMA PushIsTaken ==
  ASSUME NEW s \in Seq(Entries), s # <<>>, Head(s).task = "push"
  PROVE  LET t == Tail(s)
             m == Head(s).what IN
         /\ t \in Seq(Entries) /\ m \in Messages
         /\ \A k \in Loops : SameTurns(k, s, t)
         /\ \A n : n # m => /\ NoneOf(t, {Push(n)}) <=> NoneOf(s, {Push(n)})
                            /\ Unique(s, {Push(n)}) => Unique(t, {Push(n)})
         /\ OneOf(s, {Push(m)}) => NoneOf(t, {Push(m)})
         /\ ~NoneOf(s, {Push(m)})
<1>. DEFINE e == Head(s)
            t == Tail(s)
            m == Head(s).what
<1>1. /\ t \in Seq(Entries) /\ e \in Entries
      /\ \A K : NoneOf(s, K) => NoneOf(t, K) /\ e \notin K
      /\ \A K : e \notin K => (OneOf(s, K) => OneOf(t, K))
      /\ \A K : e \notin K => (NoneOf(t, K) => NoneOf(s, K))
      /\ \A K : e \in K => (OneOf(s, K) => NoneOf(t, K))
  BY TailOne
<1>2. /\ m \in Messages /\ e = Push(m) /\ \A n : n # m => e \notin {Push(n)}
      /\ \A k \in Loops : e \notin TurnsOf(k)
  BY <1>1, EntryKinds
<1>. HIDE DEF e, t, m
<1>3. \A n : n # m => /\ NoneOf(t, {Push(n)}) <=> NoneOf(s, {Push(n)})
                      /\ Unique(s, {Push(n)}) => Unique(t, {Push(n)})
  BY <1>1, <1>2 DEF Unique
<1>4. \A k \in Loops : SameTurns(k, s, t)
  BY <1>1, <1>2 DEF SameTurns
<1>. QED
  BY <1>1, <1>2, <1>3, <1>4 DEF t, m

LEMMA AbortKeeps ==
  ASSUME NEW s \in Seq(Entries), operations \subseteq Kinds
  PROVE  LET t == s \o AbortedLoops IN
         /\ t \in Seq(Entries)
         /\ SamePushes(s, t)
         /\ \A l \in Loops : \A stage : Waits(l, stage, s, operations) => Waits(l, stage, t, operations \ Loops)
<1>. DEFINE r == Append(s, Resume("read", "aborted"))
            t == s \o AbortedLoops
<1>0. "read" \in Loops /\ "write" \in Loops /\ "read" # "write" /\ "aborted" \in Codes
  BY DEF Loops, Codes
<1>1. CASE "read" \notin operations /\ "write" \notin operations
  <2>1. t = s /\ operations \ Loops = operations
    BY <1>1, AbortedIsAppended DEF Loops
  <2>. QED
    BY <2>1 DEF SamePushes
<1>2. CASE "read" \in operations /\ "write" \notin operations
  <2>1. t = r
    BY <1>2, AbortedIsAppended
  <2>2. /\ r \in Seq(Entries) /\ SamePushes(s, r) /\ SameTurns("write", s, r)
        /\ NoneOf(s, TurnsOf("read")) => OneOf(r, TurnsOf("read"))
    BY <1>0, TurnIsAppended
  <2>3. Of("write", operations \ Loops) = Of("write", operations) /\ Of("read", operations \ Loops) = {}
    BY <1>2 DEF Of, Loops
  <2>4. Of("read", operations) # {}
    BY <1>2 DEF Of
  <2>. QED
    BY <2>1, <2>2, <2>3, <2>4 DEF Waits, SameTurns, Loops, Of
<1>3. CASE "read" \notin operations /\ "write" \in operations
  <2>. DEFINE w == Append(s, Resume("write", "aborted"))
  <2>1. t = w
    BY <1>3, AbortedIsAppended
  <2>2. /\ w \in Seq(Entries) /\ SamePushes(s, w) /\ SameTurns("read", s, w)
        /\ NoneOf(s, TurnsOf("write")) => OneOf(w, TurnsOf("write"))
    BY <1>0, TurnIsAppended
  <2>3. Of("read", operations \ Loops) = Of("read", operations)
    BY <1>3 DEF Of, Loops
  <2>4. \A op : Of("write", operations) = {op} => Of("write", operations \ Loops) = {}
    BY <1>3 DEF Of, Loops
  <2>5. Of("write", operations) # {}
    BY <1>3 DEF Of
  <2>. QED
    BY <2>1, <2>2, <2>3, <2>4, <2>5 DEF Waits, SameTurns, Loops, Of
<1>4. CASE "read" \in operations /\ "write" \in operations
  <2>. DEFINE w == Append(r, Resume("write", "aborted"))
  <2>1. t = w
    BY <1>4, AbortedIsAppended
  <2>2. /\ r \in Seq(Entries) /\ SamePushes(s, r) /\ SameTurns("write", s, r)
        /\ NoneOf(s, TurnsOf("read")) => OneOf(r, TurnsOf("read"))
    BY <1>0, TurnIsAppended
  <2>. HIDE DEF r
  <2>3. /\ w \in Seq(Entries) /\ SamePushes(r, w) /\ SameTurns("read", r, w)
        /\ NoneOf(r, TurnsOf("write")) => OneOf(w, TurnsOf("write"))
    BY <1>0, <2>2, TurnIsAppended
  <2>4. \A op : Of("write", operations) = {op} => Of("write", operations \ Loops) = {}
    BY <1>4 DEF Of, Loops
  <2>5. Of("write", operations) # {} /\ Of("read", operations) # {} /\ Of("read", operations \ Loops) = {}
    BY <1>4 DEF Of, Loops
  <2>6. SamePushes(s, w)
    BY <2>2, <2>3 DEF SamePushes
  <2>. QED
    BY <2>1, <2>2, <2>3, <2>4, <2>5, <2>6 DEF Waits, SameTurns, Loops
<1>. QED
  BY <1>1, <1>2, <1>3, <1>4

\* The message that is being written.
Flying(m) == "write" \in operations /\ loop["write"].m = m

\* A message is in one of the places on its way, and once.
Placed(m) ==
  LET notSent == m \in unsent \/ m \in sending
      posted == ~NoneOf(strand, {Push(m)})
      queued == ~NoneOf(writeQueue, {m})
  IN  /\ Unique(strand, {Push(m)}) /\ Unique(writeQueue, {m}) /\ Unique(wire, {m})
      /\ ~(m \in unsent /\ m \in sending)
      /\ notSent => ~posted
      /\ notSent \/ posted => ~queued
      /\ notSent \/ posted \/ queued => ~Flying(m)
      /\ notSent \/ posted \/ queued \/ Flying(m) => NoneOf(wire, {m})

CoroType ==
  /\ unsent \subseteq Messages /\ sending \subseteq Messages
  /\ strand \in Seq(Entries) /\ writeQueue \in Seq(Messages) /\ wire \in Seq(Messages)
  /\ operations \subseteq Kinds
  /\ loop \in [Loops -> [at : Stages, m : Messages \cup {NoMessage}]]
  /\ "write" \in operations => loop["write"].m \in Messages
  /\ ~isStarted => \A l \in Loops : loop[l].at = "none"

LoopsWait == \A l \in Loops : Waits(l, loop[l].at, strand, operations)

CoroInv ==
  /\ CoroType
  /\ LoopsWait
  /\ \A m \in Messages : Placed(m)

\* A step that moves no message forward.
LEMMA PlacesKept ==
  ASSUME \A m \in Messages : Placed(m), SamePushes(strand, strand'),
         UNCHANGED <<unsent, sending, writeQueue, wire>>,
         \A m \in Messages : Flying(m)' => Flying(m)
  PROVE  \A m \in Messages : Placed(m)'
<1>. SUFFICES ASSUME NEW m \in Messages PROVE Placed(m)'
  OBVIOUS
<1>. Push(m)' = Push(m)
  BY DEF Push
<1>1. /\ NoneOf(strand, {Push(m)})' <=> NoneOf(strand, {Push(m)})
      /\ Unique(strand, {Push(m)}) => Unique(strand, {Push(m)})'
  BY DEF SamePushes
<1>2. /\ NoneOf(writeQueue, {m})' <=> NoneOf(writeQueue, {m})
      /\ NoneOf(wire, {m})' <=> NoneOf(wire, {m})
      /\ Unique(writeQueue, {m}) => Unique(writeQueue, {m})'
      /\ Unique(wire, {m}) => Unique(wire, {m})'
  OBVIOUS
<1>3. Placed(m) /\ (Flying(m)' => Flying(m))
  OBVIOUS
<1>. QED
  BY <1>1, <1>2, <1>3 DEF Placed

\* A loop takes its turn and is suspended again, ends or fails.
LEMMA LoopRuns ==
  ASSUME CoroType, LoopsWait, NEW l \in Loops, strand # <<>>, Head(strand).task = l,
         NEW stage \in {"failed", "ended", "header", "data", "writing", "waiting"},
         stage = "waiting" => l = "write",
         NEW m \in Messages \cup {NoMessage}, l = "write" /\ stage \notin {"failed", "ended", "waiting"} => m \in Messages,
         RunLoop(l, stage, m)
  PROVE  /\ strand' \in Seq(Entries) /\ operations' \subseteq Kinds
         /\ loop' \in [Loops -> [at : Stages, m : Messages \cup {NoMessage}]]
         /\ SamePushes(strand, strand')
         /\ LoopsWait'
         /\ l = "write" => "write" \notin operations
         /\ l # "write" /\ "write" \in operations' =>
              "write" \in operations /\ loop'["write"] = loop["write"]
         /\ l = "write" /\ "write" \in operations' => loop'["write"].m = m /\ m \in Messages
         /\ loop[l].at # "none"
<1>. DEFINE t == Tail(strand)
<1>1. /\ t \in Seq(Entries) /\ SamePushes(strand, t)
      /\ \A k \in Loops : k # l => SameTurns(k, strand, t)
      /\ OneOf(strand, TurnsOf(l)) => NoneOf(t, TurnsOf(l))
      /\ ~NoneOf(strand, TurnsOf(l))
  BY TurnIsTaken DEF CoroType
<1>2. /\ loop[l].at \notin {"none", "ended"} /\ Of(l, operations) = {}
      /\ NoneOf(t, TurnsOf(l))
  BY <1>1 DEF LoopsWait, Waits
<1>3. \A k \in Loops : k # l => Waits(k, loop[k].at, t, operations)
  BY <1>1 DEF LoopsWait, Waits, SameTurns
<1>. HIDE DEF t
<1>4. l = "write" => "write" \notin operations
  BY <1>2 DEF Of, CoroType
<1>5. /\ strand \in Seq(Entries) /\ operations \subseteq Kinds
      /\ loop \in [Loops -> [at : Stages, m : Messages \cup {NoMessage}]]
  BY DEF CoroType
<1>6. CASE stage = "failed" \/ stage = "ended"
  <2>1. /\ loop' = [loop EXCEPT ![l] = Suspended("ended", NoMessage)]
        /\ \/ strand' = t /\ operations' = operations
           \/ strand' = t \o AbortedLoops /\ operations' = operations \ Loops
    BY <1>6 DEF RunLoop, Fails, Ends, t
  <2>2. /\ loop'[l] = Suspended("ended", NoMessage) /\ \A k \in Loops : k # l => loop'[k] = loop[k]
        /\ loop' \in [Loops -> [at : Stages, m : Messages \cup {NoMessage}]]
    BY <1>5, <2>1 DEF Suspended, Stages
  <2>3. \A k \in Loops : Waits(k, loop'[k].at, t, operations)
    BY <2>2, <1>2, <1>3 DEF Waits, Suspended
  <2>4. CASE strand' = t /\ operations' = operations
    BY <1>1, <1>2, <1>4, <1>5, <2>2, <2>3, <2>4 DEF LoopsWait, Loops
  <2>5. CASE strand' = t \o AbortedLoops /\ operations' = operations \ Loops
    <3>1. /\ strand' \in Seq(Entries) /\ SamePushes(t, strand')
          /\ \A k \in Loops : Waits(k, loop'[k].at, strand', operations')
      BY <1>1, <1>5, <2>3, <2>5, AbortKeeps
    <3>2. SamePushes(strand, strand') /\ "write" \notin operations'
      BY <1>1, <3>1, <2>5 DEF SamePushes, Loops
    <3>. QED
      BY <1>2, <1>4, <1>5, <2>2, <2>5, <3>1, <3>2 DEF LoopsWait
  <2>. QED
    BY <2>1, <2>4, <2>5
<1>7. CASE stage \notin {"failed", "ended"}
  <2>1. /\ loop' = [loop EXCEPT ![l] = Suspended(stage, m)]
        /\ \/ stage = "waiting" /\ operations' = operations \cup {"timer"} /\ strand' = t
           \/ stage # "waiting" /\ operations' = operations \cup {l} /\ strand' = t
           \/ stage # "waiting" /\ operations' = operations /\ strand' = Append(t, Resume(l, "error"))
    BY <1>7 DEF RunLoop, Suspends, t
  <2>2. /\ loop'[l] = Suspended(stage, m) /\ \A k \in Loops : k # l => loop'[k] = loop[k]
        /\ loop' \in [Loops -> [at : Stages, m : Messages \cup {NoMessage}]]
    BY <1>5, <1>7, <2>1 DEF Suspended, Stages
  <2>3. loop'[l].at = stage /\ loop'[l].m = m
    BY <2>2 DEF Suspended
  <2>4. ASSUME NEW op \in {"timer", l}, op = "timer" => l = "write",
               operations' = operations \cup {op}, strand' = t
        PROVE  operations' \subseteq Kinds /\ LoopsWait'
    <3>1. Of(l, operations') = {op} /\ \A k \in Loops : k # l => Of(k, operations') = Of(k, operations)
      BY <1>2, <2>4 DEF Of, Loops
    <3>2. Waits(l, loop'[l].at, strand', operations')
      BY <3>1, <1>2, <1>7, <2>3, <2>4 DEF Waits
    <3>3. \A k \in Loops : k # l => Waits(k, loop'[k].at, strand', operations')
      BY <3>1, <1>3, <2>2, <2>4 DEF Waits
    <3>. QED
      BY <3>2, <3>3, <1>5, <2>4 DEF LoopsWait, Kinds, Loops
  <2>5. CASE stage = "waiting" /\ operations' = operations \cup {"timer"} /\ strand' = t
    BY <2>4, <2>5, <1>1, <1>2, <1>4, <2>2, <2>3
  <2>6. CASE stage # "waiting" /\ operations' = operations \cup {l} /\ strand' = t
    <3>1. operations' \subseteq Kinds /\ LoopsWait'
      BY <2>4, <2>6 DEF Loops
    <3>. QED
      BY <3>1, <2>6, <1>1, <1>2, <1>4, <1>7, <2>2, <2>3 DEF Loops
  <2>7. CASE stage # "waiting" /\ operations' = operations /\ strand' = Append(t, Resume(l, "error"))
    <3>1. /\ strand' \in Seq(Entries) /\ SamePushes(t, strand')
          /\ \A k \in Loops : k # l => SameTurns(k, t, strand')
          /\ OneOf(strand', TurnsOf(l))
      BY <1>1, <1>2, <2>7, TurnIsAppended DEF Codes
    <3>2. \A k \in Loops : Waits(k, loop'[k].at, strand', operations')
      BY <3>1, <1>2, <1>3, <1>7, <2>2, <2>3, <2>7 DEF Waits, SameTurns
    <3>3. SamePushes(strand, strand')
      BY <1>1, <3>1 DEF SamePushes
    <3>. QED
      BY <3>1, <3>2, <3>3, <1>2, <1>4, <1>5, <2>2, <2>7 DEF LoopsWait, Loops
  <2>. QED
    BY <2>1, <2>5, <2>6, <2>7
<1>. QED
  BY <1>6, <1>7

LEMMA ReadLoopKeeps ==
  ASSUME CoroInv, RunRead
  PROVE  CoroInv'
<1>. DEFINE stage == ReadGoesTo(Head(strand).what)
<1>1. stage \in {"failed", "ended", "header", "data"}
  BY DEF ReadGoesTo, Again
<1>2. /\ strand # <<>> /\ Head(strand).task = "read" /\ RunLoop("read", stage, NoMessage)
      /\ UNCHANGED <<held, isStarted, sending, unsent, writeQueue, wire>>
  BY DEF RunRead, networkVars
<1>. HIDE DEF stage
<1>3. /\ strand' \in Seq(Entries) /\ operations' \subseteq Kinds
      /\ loop' \in [Loops -> [at : Stages, m : Messages \cup {NoMessage}]]
      /\ SamePushes(strand, strand') /\ LoopsWait'
      /\ "write" \in operations' => "write" \in operations /\ loop'["write"] = loop["write"]
      /\ loop["read"].at # "none"
  <2>1. "read" \in Loops /\ "read" # "write"
    BY DEF Loops
  <2>. QED
    BY <1>1, <1>2, <2>1, LoopRuns DEF CoroInv
<1>4. \A m \in Messages : Placed(m)'
  BY <1>2, <1>3, PlacesKept DEF CoroInv, Flying
<1>5. CoroType'
  BY <1>2, <1>3 DEF CoroInv, CoroType, Loops
<1>. QED
  BY <1>3, <1>4, <1>5 DEF CoroInv

\* The write loop takes the first message of the queue, when there is one.
LEMMA WriteLoopKeeps ==
  ASSUME CoroInv, RunWrite
  PROVE  CoroInv'
<1>. DEFINE stage == WriteGoesTo(Head(strand).what)
<1>0. CoroType /\ LoopsWait /\ writeQueue \in Seq(Messages)
  BY DEF CoroInv, CoroType
<1>1. /\ stage \in {"failed", "ended", "writing", "waiting"}
      /\ stage = "writing" => writeQueue # <<>>
  BY DEF WriteGoesTo
<1>2. /\ strand # <<>> /\ Head(strand).task = "write"
      /\ UNCHANGED <<isStarted, sending, unsent, wire>>
      /\ stage = "writing" =>
           RunLoop("write", stage, Head(writeQueue)) /\ writeQueue' = Tail(writeQueue)
      /\ stage # "writing" => RunLoop("write", stage, NoMessage) /\ UNCHANGED writeQueue
  BY DEF RunWrite, networkVars
<1>. HIDE DEF stage
<1>3. PICK m \in Messages \cup {NoMessage} :
        /\ RunLoop("write", stage, m)
        /\ stage = "writing" => m \in Messages /\ m = Head(writeQueue)
  <2>1. stage = "writing" => Head(writeQueue) \in Messages
    BY <1>0, <1>1
  <2>. QED
    BY <1>2, <2>1
<1>4. /\ strand' \in Seq(Entries) /\ operations' \subseteq Kinds
      /\ loop' \in [Loops -> [at : Stages, m : Messages \cup {NoMessage}]]
      /\ SamePushes(strand, strand') /\ LoopsWait'
      /\ "write" \notin operations
      /\ "write" \in operations' => loop'["write"].m = m /\ m \in Messages
      /\ loop["write"].at # "none"
  <2>1. "write" \in Loops
    BY DEF Loops
  <2>2. stage \notin {"failed", "ended", "waiting"} => m \in Messages
    BY <1>1, <1>3
  <2>. QED
    BY <1>0, <1>1, <1>2, <1>3, <2>1, <2>2, LoopRuns
<1>5. CASE stage # "writing"
  <2>1. "write" \notin operations'
    <3>1. stage \in {"failed", "ended"} => operations' \in {operations, operations \ Loops}
      BY <1>3 DEF RunLoop, Fails, Ends
    <3>2. stage = "waiting" => operations' = operations \cup {"timer"}
      BY <1>3 DEF RunLoop, Suspends
    <3>. QED
      BY <3>1, <3>2, <1>1, <1>4, <1>5
  <2>2. \A n \in Messages : Placed(n)'
    BY <1>2, <1>4, <1>5, <2>1, PlacesKept DEF CoroInv, Flying
  <2>3. CoroType'
    BY <1>0, <1>2, <1>4, <1>5, <2>1 DEF CoroType, Loops
  <2>. QED
    BY <1>4, <2>2, <2>3 DEF CoroInv
<1>6. CASE stage = "writing"
  <2>1. /\ writeQueue # <<>> /\ writeQueue' = Tail(writeQueue) /\ m = Head(writeQueue)
        /\ m \in Messages
    BY <1>1, <1>2, <1>3, <1>6
  <2>2. /\ writeQueue' \in Seq(Messages)
        /\ \A K : NoneOf(writeQueue, K) => NoneOf(writeQueue', K) /\ m \notin K
        /\ \A K : m \notin K => (OneOf(writeQueue, K) => OneOf(writeQueue', K))
        /\ \A K : m \notin K => (NoneOf(writeQueue', K) => NoneOf(writeQueue, K))
        /\ \A K : m \in K => (OneOf(writeQueue, K) => NoneOf(writeQueue', K))
    BY <1>0, <2>1, TailOne
  <2>3. ASSUME NEW n \in Messages PROVE Placed(n)'
    <3>1. Placed(n) /\ ~Flying(n)
      BY <1>4 DEF CoroInv, Flying
    <3>2. Flying(n)' => n = m
      BY <1>4 DEF Flying
    <3>3. /\ NoneOf(strand, {Push(n)})' <=> NoneOf(strand, {Push(n)})
          /\ Unique(strand, {Push(n)}) => Unique(strand, {Push(n)})'
      BY <1>4 DEF SamePushes, Push
    <3>4. /\ NoneOf(wire, {n})' <=> NoneOf(wire, {n})
          /\ Unique(wire, {n}) => Unique(wire, {n})'
      BY <1>2
    <3>5. CASE n = m
      <4>1. ~NoneOf(writeQueue, {n})
        BY <2>2, <3>5
      <4>2. OneOf(writeQueue, {n})
        BY <3>1, <4>1 DEF Placed, Unique
      <4>3. NoneOf(writeQueue, {n})' /\ Unique(writeQueue, {n})'
        BY <2>2, <3>5, <4>2 DEF Unique
      <4>. QED
        BY <1>2, <3>1, <3>3, <3>4, <4>1, <4>3 DEF Placed
    <3>6. CASE n # m
      <4>1. NoneOf(writeQueue, {n})' <=> NoneOf(writeQueue, {n})
        BY <2>2, <3>6
      <4>2. Unique(writeQueue, {n}) => Unique(writeQueue, {n})'
        BY <2>2, <3>6 DEF Unique
      <4>. QED
        BY <1>2, <3>1, <3>2, <3>3, <3>4, <3>6, <4>1, <4>2 DEF Placed
    <3>. QED
      BY <3>5, <3>6
  <2>4. CoroType'
    BY <1>0, <1>2, <1>4, <2>2 DEF CoroType, Loops
  <2>. QED
    BY <1>4, <2>3, <2>4 DEF CoroInv
<1>. QED
  BY <1>5, <1>6

\* A posted push appends its message, or finds the session gone.
LEMMA PushKeeps ==
  ASSUME CoroInv, RunPush
  PROVE  CoroInv'
<1>. DEFINE m == Head(strand).what
<1>0. CoroType /\ LoopsWait /\ writeQueue \in Seq(Messages) /\ strand \in Seq(Entries)
  BY DEF CoroInv, CoroType
<1>1. /\ strand # <<>> /\ Head(strand).task = "push" /\ strand' = Tail(strand)
      /\ writeQueue' = Append(writeQueue, m) \/ writeQueue' = writeQueue
      /\ UNCHANGED <<isStarted, sending, unsent, loop, operations, wire>>
  BY DEF RunPush, programVars, networkVars
<1>2. /\ strand' \in Seq(Entries) /\ m \in Messages
      /\ \A k \in Loops : SameTurns(k, strand, strand')
      /\ \A n : n # m => /\ NoneOf(strand', {Push(n)}) <=> NoneOf(strand, {Push(n)})
                         /\ Unique(strand, {Push(n)}) => Unique(strand', {Push(n)})
      /\ OneOf(strand, {Push(m)}) => NoneOf(strand', {Push(m)})
      /\ ~NoneOf(strand, {Push(m)})
  BY <1>0, <1>1, PushIsTaken
<1>. HIDE DEF m
<1>3. LoopsWait'
  BY <1>0, <1>1, <1>2 DEF LoopsWait, Waits, SameTurns
<1>4. /\ writeQueue' \in Seq(Messages)
      /\ \A n : n # m => /\ NoneOf(writeQueue', {n}) <=> NoneOf(writeQueue, {n})
                         /\ Unique(writeQueue, {n}) => Unique(writeQueue', {n})
      /\ NoneOf(writeQueue, {m}) => Unique(writeQueue', {m})
  <2>1. CASE writeQueue' = writeQueue
    BY <1>0, <2>1 DEF Unique
  <2>2. CASE writeQueue' = Append(writeQueue, m)
    <3>1. /\ writeQueue' \in Seq(Messages)
          /\ \A K : NoneOf(writeQueue', K) <=> NoneOf(writeQueue, K) /\ m \notin K
          /\ \A K : m \notin K => (OneOf(writeQueue, K) => OneOf(writeQueue', K))
          /\ \A K : m \in K /\ NoneOf(writeQueue, K) => OneOf(writeQueue', K)
      BY <1>0, <1>2, <2>2, AppendOne
    <3>. QED
      BY <3>1 DEF Unique
  <2>. QED
    BY <1>1, <2>1, <2>2
<1>5. ASSUME NEW n \in Messages PROVE Placed(n)'
  <2>1. Placed(n) /\ (Flying(n)' <=> Flying(n))
    BY <1>1 DEF CoroInv, Flying
  <2>2. Push(n)' = Push(n)
    BY DEF Push
  <2>3. /\ NoneOf(wire, {n})' <=> NoneOf(wire, {n})
        /\ Unique(wire, {n}) => Unique(wire, {n})'
    BY <1>1
  <2>4. CASE n = m
    <3>1. NoneOf(writeQueue, {m}) /\ OneOf(strand, {Push(m)}) /\ ~Flying(m) /\ NoneOf(wire, {m})
          /\ m \notin unsent /\ m \notin sending
      BY <1>2, <2>1, <2>4 DEF Placed, Unique
    <3>2. NoneOf(strand', {Push(m)}) /\ Unique(writeQueue', {m})
      BY <1>2, <1>4, <3>1
    <3>. QED
      BY <1>1, <2>1, <2>2, <2>3, <2>4, <3>1, <3>2 DEF Placed, Unique
  <2>5. CASE n # m
    BY <1>1, <1>2, <1>4, <2>1, <2>2, <2>3, <2>5 DEF Placed
  <2>. QED
    BY <2>4, <2>5
<1>6. CoroType'
  BY <1>0, <1>1, <1>2, <1>4 DEF CoroType
<1>. QED
  BY <1>3, <1>5, <1>6 DEF CoroInv

\* Start gives both loops their first turn.
LEMMA StartKeeps ==
  ASSUME CoroInv, StartSession
  PROVE  CoroInv'
<1>. DEFINE r == Append(strand, Resume("read", "ok"))
<1>0. CoroType /\ LoopsWait /\ strand \in Seq(Entries)
  BY DEF CoroInv, CoroType
<1>1. /\ ~isStarted /\ isStarted'
      /\ loop' = [l \in Loops |-> Suspended("spawned", NoMessage)]
      /\ strand' = Append(r, Resume("write", "ok"))
      /\ UNCHANGED <<sending, unsent, operations, writeQueue, wire>>
  BY <1>0 DEF StartSession, networkVars
<1>2. \A l \in Loops : NoneOf(strand, TurnsOf(l)) /\ Of(l, operations) = {}
  BY <1>0, <1>1 DEF CoroType, LoopsWait, Waits
<1>3. "read" \in Loops /\ "write" \in Loops /\ "read" # "write" /\ "ok" \in Codes
  BY DEF Loops, Codes
<1>4. /\ r \in Seq(Entries) /\ SamePushes(strand, r)
      /\ OneOf(r, TurnsOf("read")) /\ NoneOf(r, TurnsOf("write"))
  BY <1>0, <1>2, <1>3, TurnIsAppended DEF SameTurns
<1>. HIDE DEF r
<1>5. /\ strand' \in Seq(Entries) /\ SamePushes(r, strand')
      /\ OneOf(strand', TurnsOf("read")) /\ OneOf(strand', TurnsOf("write"))
  BY <1>1, <1>3, <1>4, TurnIsAppended DEF SameTurns
<1>6. LoopsWait'
  BY <1>1, <1>2, <1>5 DEF LoopsWait, Waits, Suspended, Loops
<1>7. SamePushes(strand, strand')
  BY <1>4, <1>5 DEF SamePushes
<1>8. "write" \notin operations
  BY <1>2, <1>3 DEF Of
<1>9. \A m \in Messages : Placed(m)'
  BY <1>1, <1>7, <1>8, PlacesKept DEF CoroInv, Flying
<1>10. CoroType'
  BY <1>0, <1>1, <1>5, <1>8 DEF CoroType, Suspended, Stages
<1>. QED
  BY <1>6, <1>9, <1>10 DEF CoroInv

\* A thread of the program sends a message: it tests, and posts a push.
LEMMA SendKeeps ==
  ASSUME CoroInv, NEW m \in Messages, SendTest(m) \/ SendPost(m)
  PROVE  CoroInv'
<1>0. CoroType /\ LoopsWait /\ strand \in Seq(Entries) /\ \A n : Push(n)' = Push(n)
  BY DEF CoroInv, CoroType, Push
<1>1. CASE SendTest(m)
  <2>1. /\ m \in unsent /\ unsent' = unsent \ {m} /\ sending' \in {sending, sending \cup {m}}
        /\ UNCHANGED <<isStarted, strand, loop, operations, writeQueue, wire>>
    BY <1>1 DEF SendTest, networkVars
  <2>2. ASSUME NEW n \in Messages PROVE Placed(n)'
    <3>1. /\ NoneOf(strand, {Push(n)})' <=> NoneOf(strand, {Push(n)})
          /\ Unique(strand, {Push(n)})' <=> Unique(strand, {Push(n)})
          /\ NoneOf(writeQueue, {n})' <=> NoneOf(writeQueue, {n})
          /\ Unique(writeQueue, {n})' <=> Unique(writeQueue, {n})
          /\ NoneOf(wire, {n})' <=> NoneOf(wire, {n})
          /\ Unique(wire, {n})' <=> Unique(wire, {n})
          /\ Flying(n)' <=> Flying(n)
      BY <1>0, <2>1 DEF Flying
    <3>2. Placed(n) /\ Placed(m)
      BY DEF CoroInv
    <3>3. /\ n \in unsent' => n \in unsent /\ n # m
          /\ n \in sending' => n \in sending \/ n = m
      BY <2>1
    <3>. QED
      BY <2>1, <3>1, <3>2, <3>3 DEF Placed
  <2>3. CoroType' /\ LoopsWait'
    BY <1>0, <2>1 DEF CoroType, LoopsWait
  <2>. QED
    BY <2>2, <2>3 DEF CoroInv
<1>2. CASE SendPost(m)
  <2>1. /\ m \in sending /\ sending' = sending \ {m} /\ strand' = Append(strand, Push(m))
        /\ UNCHANGED <<isStarted, unsent, loop, operations, writeQueue, wire>>
    BY <1>2 DEF SendPost, networkVars
  <2>2. /\ strand' \in Seq(Entries)
        /\ \A k \in Loops : SameTurns(k, strand, strand')
        /\ \A n : n # m => /\ NoneOf(strand', {Push(n)}) <=> NoneOf(strand, {Push(n)})
                           /\ Unique(strand, {Push(n)}) => Unique(strand', {Push(n)})
        /\ NoneOf(strand, {Push(m)}) => OneOf(strand', {Push(m)})
    BY <1>0, <2>1, PushIsAppended
  <2>3. ASSUME NEW n \in Messages PROVE Placed(n)'
    <3>1. /\ NoneOf(writeQueue, {n})' <=> NoneOf(writeQueue, {n})
          /\ Unique(writeQueue, {n})' <=> Unique(writeQueue, {n})
          /\ NoneOf(wire, {n})' <=> NoneOf(wire, {n})
          /\ Unique(wire, {n})' <=> Unique(wire, {n})
          /\ Flying(n)' <=> Flying(n)
      BY <2>1 DEF Flying
    <3>2. Placed(n)
      BY DEF CoroInv
    <3>3. CASE n = m
      <4>1. n \notin unsent' /\ n \notin sending' /\ Unique(strand', {Push(n)})
        BY <2>1, <2>2, <3>2, <3>3 DEF Placed, Unique
      <4>2. NoneOf(writeQueue, {n}) /\ ~Flying(n) /\ NoneOf(wire, {n})
        BY <2>1, <3>2, <3>3 DEF Placed
      <4>. QED
        BY <1>0, <3>1, <3>2, <4>1, <4>2 DEF Placed
    <3>4. CASE n # m
      BY <1>0, <2>1, <2>2, <3>1, <3>2, <3>4 DEF Placed
    <3>. QED
      BY <3>3, <3>4
  <2>4. LoopsWait'
    BY <1>0, <2>1, <2>2 DEF LoopsWait, Waits, SameTurns
  <2>5. CoroType'
    BY <1>0, <2>1, <2>2 DEF CoroType
  <2>. QED
    BY <2>3, <2>4, <2>5 DEF CoroInv
<1>. QED
  BY <1>1, <1>2

\* An operation completes, and its loop has its turn.
LEMMA CompletionGivesTurn ==
  ASSUME CoroType, LoopsWait, NEW op \in Kinds, NEW l \in Loops, NEW ec \in Codes,
         op \in Of(l, operations), Completes(op, l, ec)
  PROVE  /\ strand' \in Seq(Entries) /\ SamePushes(strand, strand')
         /\ operations' = operations \ {op} /\ LoopsWait'
         /\ UNCHANGED <<isStarted, sending, unsent, loop, writeQueue>>
<1>1. /\ operations' = operations \ {op} /\ strand' = Append(strand, Resume(l, ec))
      /\ UNCHANGED <<isStarted, sending, unsent, loop, writeQueue>>
  BY DEF Completes, programVars
<1>2. /\ strand' \in Seq(Entries) /\ SamePushes(strand, strand')
      /\ \A k \in Loops : k # l => SameTurns(k, strand, strand')
      /\ NoneOf(strand, TurnsOf(l)) => OneOf(strand', TurnsOf(l))
  BY <1>1, TurnIsAppended DEF CoroType
<1>3. /\ Of(l, operations) = {op} /\ NoneOf(strand, TurnsOf(l))
      /\ loop[l].at \notin {"none", "ended"}
  BY DEF LoopsWait, Waits
<1>4. /\ Of(l, operations') = {}
      /\ \A k \in Loops : k # l => Of(k, operations') = Of(k, operations)
  BY <1>1, <1>3 DEF Of, Loops
<1>5. LoopsWait'
  BY <1>1, <1>2, <1>3, <1>4 DEF LoopsWait, Waits, SameTurns, Of
<1>. QED
  BY <1>1, <1>2, <1>5

LEMMA CompletionKeeps ==
  ASSUME CoroInv,
         \/ \E ec \in {"data", "empty", "bad"} : HeaderArrives(ec)
         \/ DataArrives \/ ReadFails \/ WriteFails \/ TimerEnds
  PROVE  CoroInv'
<1>1. PICK op \in Kinds, l \in Loops, ec \in Codes :
        op \in Of(l, operations) /\ Completes(op, l, ec) /\ wire' = wire
  BY DEF HeaderArrives, DataArrives, ReadFails, WriteFails, TimerEnds, Completes, networkVars,
         Kinds, Loops, Codes, Of
<1>2. /\ strand' \in Seq(Entries) /\ SamePushes(strand, strand')
      /\ operations' = operations \ {op} /\ LoopsWait'
      /\ UNCHANGED <<isStarted, sending, unsent, loop, writeQueue, wire>>
  BY <1>1, CompletionGivesTurn DEF CoroInv
<1>3. \A m \in Messages : Placed(m)'
  BY <1>2, PlacesKept DEF CoroInv, Flying
<1>4. CoroType'
  BY <1>2 DEF CoroInv, CoroType
<1>. QED
  BY <1>2, <1>3, <1>4 DEF CoroInv

\* A message is written, and no longer the one that is being written.
LEMMA WritesKeeps ==
  ASSUME CoroInv, Writes
  PROVE  CoroInv'
<1>. DEFINE m == loop["write"].m
<1>0. CoroType /\ LoopsWait /\ wire \in Seq(Messages)
  BY DEF CoroInv, CoroType
<1>1. "write" \in operations /\ Completes("write", "write", "ok") /\ wire' = Append(wire, m)
  BY DEF Writes, Completes
<1>2. /\ strand' \in Seq(Entries) /\ SamePushes(strand, strand')
      /\ operations' = operations \ {"write"} /\ LoopsWait'
      /\ UNCHANGED <<isStarted, sending, unsent, loop, writeQueue>>
  <2>1. "write" \in Kinds /\ "write" \in Loops /\ "ok" \in Codes /\ "write" \in Of("write", operations)
    BY <1>1 DEF Kinds, Loops, Codes, Of
  <2>. QED
    BY <1>0, <1>1, <2>1, CompletionGivesTurn
<1>3. m \in Messages /\ Flying(m) /\ \A n : n # m => ~Flying(n)
  BY <1>0, <1>1 DEF CoroType, Flying
<1>. HIDE DEF m
<1>4. /\ wire' \in Seq(Messages)
      /\ \A n : n # m => /\ NoneOf(wire', {n}) <=> NoneOf(wire, {n})
                         /\ Unique(wire, {n}) => Unique(wire', {n})
      /\ NoneOf(wire, {m}) => Unique(wire', {m})
  <2>1. /\ wire' \in Seq(Messages)
        /\ \A K : NoneOf(wire', K) <=> NoneOf(wire, K) /\ m \notin K
        /\ \A K : m \notin K => (OneOf(wire, K) => OneOf(wire', K))
        /\ \A K : m \in K /\ NoneOf(wire, K) => OneOf(wire', K)
    BY <1>0, <1>1, <1>3, AppendOne
  <2>. QED
    BY <2>1 DEF Unique
<1>5. ASSUME NEW n \in Messages PROVE Placed(n)'
  <2>1. Placed(n) /\ ~Flying(n)'
    BY <1>2 DEF CoroInv, Flying
  <2>2. /\ NoneOf(strand, {Push(n)})' <=> NoneOf(strand, {Push(n)})
        /\ Unique(strand, {Push(n)}) => Unique(strand, {Push(n)})'
        /\ NoneOf(writeQueue, {n})' <=> NoneOf(writeQueue, {n})
        /\ Unique(writeQueue, {n}) => Unique(writeQueue, {n})'
    BY <1>2 DEF SamePushes, Push
  <2>3. CASE n = m
    <3>1. /\ NoneOf(wire, {n}) /\ NoneOf(strand, {Push(n)}) /\ NoneOf(writeQueue, {n})
          /\ n \notin unsent /\ n \notin sending
      BY <1>3, <2>1, <2>3 DEF Placed
    <3>2. Unique(wire', {n})
      BY <1>4, <2>3, <3>1
    <3>. QED
      BY <1>2, <2>1, <2>2, <3>1, <3>2 DEF Placed
  <2>4. CASE n # m
    BY <1>2, <1>4, <2>1, <2>2, <2>4 DEF Placed
  <2>. QED
    BY <2>3, <2>4
<1>6. CoroType'
  BY <1>0, <1>2, <1>4 DEF CoroType
<1>. QED
  BY <1>2, <1>5, <1>6 DEF CoroInv

\* What the threads of the program do to a session that is stopped or released.
LEMMA StopOrReleaseKeeps ==
  ASSUME CoroInv, StopFlags \/ StopSocket \/ ReleaseSession \/ UNCHANGED sessionVars
  PROVE  CoroInv'
<1>0. CoroType /\ LoopsWait /\ operations \subseteq Kinds /\ strand \in Seq(Entries)
  BY DEF CoroInv, CoroType
<1>1. CASE StopSocket
  <2>1. /\ strand' = strand \o AbortedLoops /\ operations' = operations \ Loops
        /\ UNCHANGED <<isStarted, sending, unsent, loop, writeQueue, wire>>
    BY <1>1 DEF StopSocket, programVars, networkVars
  <2>2. /\ strand' \in Seq(Entries) /\ SamePushes(strand, strand')
        /\ LoopsWait'
    BY <1>0, <2>1, AbortKeeps DEF LoopsWait
  <2>3. \A m \in Messages : Placed(m)'
    BY <2>1, <2>2, PlacesKept DEF CoroInv, Flying
  <2>4. CoroType'
    BY <1>0, <2>1, <2>2 DEF CoroType
  <2>. QED
    BY <2>2, <2>3, <2>4 DEF CoroInv
<1>2. CASE StopFlags \/ ReleaseSession \/ UNCHANGED sessionVars
  <2>1. UNCHANGED <<isStarted, sending, unsent, strand, loop, operations, writeQueue, wire>>
    BY <1>2 DEF StopFlags, ReleaseSession, sessionVars, programVars, networkVars
  <2>2. CoroType' /\ LoopsWait' /\ SamePushes(strand, strand')
    BY <1>0, <2>1 DEF CoroType, LoopsWait, SamePushes
  <2>3. \A m \in Messages : Placed(m)'
    BY <2>1, <2>2, PlacesKept DEF CoroInv, Flying
  <2>. QED
    BY <2>2, <2>3 DEF CoroInv
<1>. QED
  BY <1>1, <1>2

LEMMA CoroInvariant == CoroSpec => []CoroInv
<1>1. SessionInit => CoroInv
  <2>. SUFFICES ASSUME SessionInit PROVE CoroInv
    OBVIOUS
  <2>1. \A K : NoneOf(<<>>, K)
    BY DEF NoneOf
  <2>2. CoroType
    BY DEF SessionInit, CoroType, Suspended, Stages
  <2>3. LoopsWait
    BY <2>1 DEF SessionInit, LoopsWait, Waits, Of, Suspended
  <2>4. \A m \in Messages : Placed(m)
    BY <2>1 DEF SessionInit, Placed, Unique, Flying
  <2>. QED
    BY <2>2, <2>3, <2>4 DEF CoroInv
<1>2. CoroInv /\ [SessionNext]_sessionVars => CoroInv'
  BY StartKeeps, SendKeeps, ReadLoopKeeps, WriteLoopKeeps, PushKeeps, CompletionKeeps, WritesKeeps,
     StopOrReleaseKeeps
  DEF SessionNext, RunStrand
<1>. QED
  BY <1>1, <1>2, PTL DEF CoroSpec

\* A loop of the coroutine session that has begun and not ended waits for one
\* operation or for its turn, whatever Stop, the peer and the timer do and in
\* whatever order their completions reach the strand: it is never forgotten, and
\* never has two reads or two writes under way.
THEOREM CoroSuspendedForOne == CoroSpec => []SuspendedForOne
<1>1. CoroInv => SuspendedForOne
  <2>. SUFFICES ASSUME CoroInv, NEW l \in Loops
                PROVE  IF loop[l].at \in {"none", "ended"} THEN Turns(l) = {} /\ OperationsOf(l) = {}
                       ELSE \/ OperationsOf(l) = {} /\ \E i \in 1..Len(strand) : Turns(l) = {i}
                            \/ Turns(l) = {} /\ \E op \in operations : OperationsOf(l) = {op}
    BY DEF SuspendedForOne
  <2>1. Waits(l, loop[l].at, strand, operations) /\ Of(l, operations) = OperationsOf(l)
    BY DEF CoroInv, LoopsWait, Of, OperationsOf
  <2>2. \A i \in 1 .. Len(strand) : strand[i] \in TurnsOf(l) <=> strand[i].task = l
    BY DEF CoroInv, CoroType, TurnsOf
  <2>3. /\ NoneOf(strand, TurnsOf(l)) => Turns(l) = {}
        /\ OneOf(strand, TurnsOf(l)) => \E i \in 1..Len(strand) : Turns(l) = {i}
    BY <2>2 DEF NoneOf, OneOf, Turns
  <2>. QED
    BY <2>1, <2>3 DEF Waits
<1>. QED
  BY <1>1, CoroInvariant, PTL

\* No message that Send takes is written twice, for any number of messages:
\* each is in one place on its way over the strand, the queue and the write.
THEOREM CoroWrittenOnce == CoroSpec => []WrittenOnce
<1>1. CoroInv => WrittenOnce
  <2>. SUFFICES ASSUME CoroInv, NEW i \in 1 .. Len(wire), NEW j \in 1 .. Len(wire), wire[i] = wire[j]
                PROVE  i = j
    BY DEF WrittenOnce
  <2>1. wire[i] \in Messages
    BY DEF CoroInv, CoroType
  <2>2. Unique(wire, {wire[i]})
    BY <2>1 DEF CoroInv, Placed
  <2>. QED
    BY <2>2 DEF Unique, NoneOf, OneOf
<1>. QED
  BY <1>1, CoroInvariant, PTL

=============================================================================
