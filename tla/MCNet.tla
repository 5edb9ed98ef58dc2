------------------------------- MODULE MCNet -------------------------------
(***************************************************************************)
(* Model-checking instance for the parts of net/ around the TCP sessions:  *)
(* the pool of io_contexts, the TCP client, the UDP client and server and  *)
(* the coroutine session.  A behaviour is about one of them, its part, and *)
(* the others keep their initial state.                                    *)
(***************************************************************************)
EXTENDS IOContextPool, UDP, TCPClient, CoroSession

VARIABLE part  \* which one

\* Datagrams of one sender, an empty one among them, and callbacks that match it or not.
ThreeDatagrams == {[from |-> "h1", size |-> n, id |-> n + 1] : n \in 0..2}
MatchOrNot == {{"h1"}, {}}

vars == <<part, poolVars, connectVars, udpVars, sessionVars>>

Init ==
  /\ part \in {"pool", "client", "udp", "session"}
  /\ PoolInit /\ ClientInit /\ UdpInit /\ SessionInit
  /\ part # "pool" => size = 2
  /\ part # "client" => timeout = TRUE

Pool == part = "pool" /\ UNCHANGED <<part, connectVars, udpVars, sessionVars>>
Client == part = "client" /\ UNCHANGED <<part, poolVars, udpVars, sessionVars>>
Udp == part = "udp" /\ UNCHANGED <<part, poolVars, connectVars, sessionVars>>
Session == part = "session" /\ UNCHANGED <<part, poolVars, connectVars, udpVars>>

Next ==
  \/ Pool /\ PoolNext
  \/ Client /\ ClientNext
  \/ Udp /\ UdpNext
  \/ Session /\ SessionNext

\* io_contexts run what they have until they are stopped.  The resolver and the
\* system's connect end.  The program ends a Stop it has begun; the strand runs
\* and timers end.  Of the peer nothing is assumed: it need not send nor read.
Fairness ==
  /\ \A i \in 0..1 : WF_vars(Pool /\ i \in Contexts /\ Thread(i))
  /\ \A a \in Attempts : WF_vars(Client /\ ~misused /\ Handlers(a))
  /\ WF_vars(Session /\ ~freed /\ RunStrand)
  /\ WF_vars(Session /\ ~freed /\ StopSocket)
  /\ WF_vars(Session /\ ~freed /\ TimerEnds)

Spec == Init /\ [][Next]_vars /\ Fairness
=============================================================================
