--------------------------- MODULE BoundedChannel ---------------------------
(***************************************************************************)
(* What BlockQueue (src/breutil/block_queue.hpp) promises its clients,     *)
(* with threads, the mutex and the condition variables left out: a FIFO    *)
(* channel of bounded capacity that can be closed once.  A send never      *)
(* happens on a closed channel and never takes the channel above the       *)
(* capacity in force; a receive takes the oldest items; closing keeps the  *)
(* items that are already there.                                           *)
(***************************************************************************)
EXTENDS Naturals, Sequences

VARIABLES chan, cap, closed

chanVars == <<chan, cap, closed>>

Send(s) ==
  /\ ~closed
  /\ Len(chan) + Len(s) <= cap
  /\ chan' = chan \o s
  /\ UNCHANGED <<cap, closed>>

Receive(k) ==
  /\ chan' = SubSeq(chan, k + 1, Len(chan))
  /\ UNCHANGED <<cap, closed>>

Discard ==
  /\ chan' = <<>>
  /\ UNCHANGED <<cap, closed>>

Resize ==
  /\ cap' \in Nat
  /\ UNCHANGED <<chan, closed>>

Shut ==
  /\ closed' = TRUE
  /\ UNCHANGED <<chan, cap>>

ChanInit ==
  /\ chan = <<>>
  /\ cap \in Nat
  /\ closed = FALSE

\* The items that a sending step adds: those by which chan' exceeds chan.
Added == SubSeq(chan', Len(chan) + 1, Len(chan'))

ChanNext ==
  \/ Send(Added)
  \/ \E k \in 1 .. Len(chan) : Receive(k)
  \/ Discard
  \/ Resize
  \/ Shut

ChanSpec == ChanInit /\ [][ChanNext]_chanVars

=============================================================================
