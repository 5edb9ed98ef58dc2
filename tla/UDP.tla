--------------------------------- MODULE UDP ---------------------------------
(***************************************************************************)
(* A UDPClient (net/udp/udp_client.hpp) that sends to a UDPServer          *)
(* (net/udp/udp_server.hpp) over a network that loses, repeats and         *)
(* reorders.  A receive is done by the reactor, which writes the server's  *)
(* only buffer, before the handler it queues is run.                       *)
(***************************************************************************)
EXTENDS Integers, Sequences

CONSTANTS
  Datagrams,  \* records [from, size, id]
  Hosts,      \* sets of senders, the ones a callback's regular expressions match
  MaxStarts,     \* bound: calls of Start
  MaxCallbacks,  \* bound: calls of AddMessageCallback
  MaxSends       \* bound: calls of Send

VARIABLES
  client,     \* the client's socket is open
  sends,      \* its sends that are not complete
  sent,       \* calls of Send so far
  network,    \* datagrams on their way
  terminated, \* an exception has left a handler: the process ends
  open, gone, \* the server's _socket; whether ~UDPServer is done
  buffer,     \* _recv_buffer and _remote_endpoint
  receives,   \* receives the reactor has not done
  starts,     \* calls of Start
  handlers,   \* completed receives whose handlers wait to be run
  serving,    \* the handler that calls the callbacks
  callbacks,  \* _callback_regexs
  delivered,  \* what the callbacks were given for what was received
  broken      \* freed memory was used

clientVars == <<client, sends, sent, network, terminated>>
serverVars == <<open, gone, buffer, receives, starts, handlers, serving,
                callbacks, delivered, broken>>
udpVars == <<clientVars, serverVars>>

Nothing == [from |-> "nobody", size |-> 0, id |-> 0]
Done(ec, d) == [ec |-> ec, d |-> d]
Idle == [on |-> FALSE, d |-> Nothing, at |-> 1, end |-> 0]

UdpInit ==
  /\ client = TRUE /\ sends = {} /\ sent = 0 /\ network = {} /\ terminated = FALSE
  /\ open = TRUE /\ gone = FALSE /\ buffer = Nothing
  /\ receives = 0 /\ starts = 0 /\ handlers = <<>> /\ serving = Idle
  /\ callbacks = <<>> /\ delivered = {} /\ broken = FALSE

-----------------------------------------------------------------------------
(* The client.                                                             *)

Send(d) ==
  /\ client /\ sent < MaxSends
  /\ sends' = sends \cup {d}
  /\ sent' = sent + 1
  /\ UNCHANGED <<client, network, terminated, serverVars>>

SendDone(d) ==
  /\ d \in sends
  /\ sends' = sends \ {d}
  /\ network' = network \cup {d}
  /\ UNCHANGED <<client, sent, terminated, serverVars>>

\* The handler throws: after an error, and after ~UDPClient closed the socket.
SendFails(d) ==
  /\ d \in sends
  /\ sends' = sends \ {d}
  /\ terminated' = TRUE
  /\ UNCHANGED <<client, sent, network, serverVars>>

CloseClient ==
  /\ client
  /\ client' = FALSE
  /\ UNCHANGED <<sends, sent, network, terminated, serverVars>>

\* External: the network loses a datagram.
Lose(d) ==
  /\ d \in network
  /\ network' = network \ {d}
  /\ UNCHANGED <<client, sends, sent, terminated, serverVars>>

-----------------------------------------------------------------------------
(* The server.                                                             *)

\* do_receive: on a closed socket the receive fails at once.
DoReceive(queue) ==
  IF open
    THEN receives' = receives + 1 /\ handlers' = queue
    ELSE handlers' = Append(queue, Done("error", Nothing)) /\ UNCHANGED receives

Start ==
  /\ ~gone /\ starts < MaxStarts
  /\ DoReceive(handlers)
  /\ starts' = starts + 1
  /\ UNCHANGED <<clientVars, open, gone, buffer, serving, callbacks, delivered, broken>>

\* push_back in a vector that the handler may be reading: the handler keeps to
\* the end it knows, or reads what the vector has left.
AddMessageCallback(hosts) ==
  /\ ~gone /\ Len(callbacks) < MaxCallbacks
  /\ callbacks' = Append(callbacks, hosts)
  /\ broken' \in {broken, broken \/ serving.on}
  /\ UNCHANGED <<clientVars, open, gone, buffer, receives, starts, handlers,
                 serving, delivered>>

Aborted == [i \in 1..receives |-> Done("aborted", Nothing)]

\* Stop, and ~UDPServer, which calls it.
Close(last) ==
  /\ ~gone /\ (open \/ last)
  /\ gone' = last
  /\ open' = FALSE
  /\ handlers' = handlers \o Aborted
  /\ receives' = 0
  /\ UNCHANGED <<clientVars, buffer, starts, serving, callbacks, delivered, broken>>

\* The reactor receives a datagram, which the network may deliver again.
Receive(d) ==
  /\ receives > 0 /\ d \in network
  /\ buffer' = d
  /\ handlers' = Append(handlers, Done("ok", d))
  /\ receives' = receives - 1
  /\ network' \in {network, network \ {d}}
  /\ UNCHANGED <<client, sends, sent, terminated, open, gone, starts, serving, callbacks,
                 delivered, broken>>

ReceiveFails ==
  /\ receives > 0
  /\ handlers' = Append(handlers, Done("error", Nothing))
  /\ receives' = receives - 1
  /\ UNCHANGED <<clientVars, open, gone, buffer, starts, serving, callbacks, delivered, broken>>

\* Mutant: a datagram without a byte is taken for the end.
RearmsOnError(c) == c.ec = "error" /\ open

\* Errors, and datagrams without a byte, take the branch that only tests for the
\* abort and for the open socket.
Rearms(c) == c.ec # "aborted" /\ open

\* A handler keeps only this: on a server that is gone all but the abort's is
\* a use of freed memory.
Handle ==
  /\ handlers # <<>> /\ ~serving.on
  /\ LET c == Head(handlers) IN
       IF c.ec # "aborted" /\ gone
         THEN /\ broken' = TRUE /\ handlers' = Tail(handlers)
              /\ UNCHANGED <<serving, receives>>
       ELSE IF c.ec = "ok" /\ c.d.size > 0
         THEN /\ serving' = [on |-> TRUE, d |-> c.d, at |-> 1, end |-> Len(callbacks)]
              /\ handlers' = Tail(handlers)
              /\ UNCHANGED <<receives, broken>>
         ELSE /\ IF Rearms(c) THEN DoReceive(Tail(handlers))
                              ELSE handlers' = Tail(handlers) /\ UNCHANGED receives
              /\ UNCHANGED <<serving, broken>>
  /\ UNCHANGED <<clientVars, open, gone, buffer, starts, callbacks, delivered>>

\* One callback of the loop, or do_receive behind the last.  Exceptions, of a
\* callback or of std::regex for an ill-formed expression, are left out: they pass
\* do_receive by and leave io_context::run, and the server receives no more.
Serve ==
  /\ serving.on
  /\ IF gone
       THEN /\ broken' = TRUE /\ serving' = Idle
            /\ UNCHANGED <<receives, handlers, delivered>>
     ELSE IF serving.at <= serving.end
       THEN /\ serving' = [serving EXCEPT !.at = @ + 1]
            /\ delivered' = IF buffer.from \in callbacks[serving.at]
                              THEN delivered \cup {<<serving.at, serving.d, buffer>>}
                              ELSE delivered
            /\ UNCHANGED <<receives, handlers, broken>>
       ELSE /\ serving' = Idle
            /\ DoReceive(handlers)
            /\ UNCHANGED <<delivered, broken>>
  /\ UNCHANGED <<clientVars, open, gone, buffer, starts, callbacks>>

UdpNext ==
  /\ ~terminated /\ ~broken
  /\ \/ \E d \in Datagrams : Send(d) \/ SendDone(d) \/ SendFails(d) \/ Lose(d) \/ Receive(d)
     \/ CloseClient
     \/ Start \/ ReceiveFails \/ Handle \/ Serve
     \/ \E hosts \in Hosts : AddMessageCallback(hosts)
     \/ \E last \in BOOLEAN : Close(last)

-----------------------------------------------------------------------------

\* Each Start keeps one receive going as long as the socket is open, pending or
\* completed or in the callbacks: errors and empty datagrams do not end the
\* reception, and nothing doubles it.
ReceptionGoesOn ==
  open => receives + Len(handlers) + (IF serving.on THEN 1 ELSE 0) = starts

\* With one Start the callbacks are given the datagram that was received, as the
\* client sent it, whatever arrives while they run.
DeliveredAsReceived ==
  starts <= 1 => \A e \in delivered : e[2] = e[3] /\ e[2].size > 0

\* What a started server owes its callbacks.
ServerReceives == ReceptionGoesOn /\ DeliveredAsReceived
=============================================================================
