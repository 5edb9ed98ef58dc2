----------------------------- MODULE ByteQueue -----------------------------
(***************************************************************************)
(* What Buffer (src/breutil/buffer.hpp) promises its clients, with the     *)
(* storage and its indices left out.  Each buffer is a sequence of bytes,  *)
(* and the call a client makes, with its arguments, decides what becomes   *)
(* of it: Append and HasWritten put the client's bytes at its end, Prepend *)
(* at its front, the Retrieve calls take from its front exactly what they  *)
(* are asked for, Shrink and EnsureWritableBytes change nothing, a move    *)
(* hands the whole sequence over.  A buffer that was moved from is empty   *)
(* and may not be written to until it is given storage again.              *)
(***************************************************************************)
EXTENDS Naturals, Sequences

CONSTANTS Buffers, Bytes, CR, LF, MaxLen

VARIABLES
  content,  \* the readable bytes of each buffer
  usable,   \* the buffers that were not moved from
  called    \* the last call: its name, its buffer and its argument

Args == UNION {[1 .. n -> Bytes] : n \in 0 .. MaxLen}

Does(b, q, call) ==
  /\ called' = call
  /\ content' = [content EXCEPT ![b] = q]

\* The sequence q without its first n bytes.
Drop(q, n) == SubSeq(q, n + 1, Len(q))

\* Bytes are written to buffers with storage only.
Writable(b, s) == b \in usable \/ s = <<>>

Extend(b, s) ==
  Does(b, content[b] \o s, <<"append", b, s>>) /\ Writable(b, s) /\ UNCHANGED usable

Written(b, s) ==
  Does(b, content[b] \o s, <<"written", b, s>>) /\ Writable(b, s) /\ UNCHANGED usable

\* A report of n bytes is turned down only if there was no room for them: not
\* right after EnsureWritableBytes for as many.
Refused(b, n) ==
  /\ Does(b, content[b], <<"refused", b, n>>)
  /\ ~(called[1] = "ensure" /\ called[2] = b /\ n <= called[3])
  /\ UNCHANGED usable

Prepend(b, s) ==
  Does(b, s \o content[b], <<"prepend", b, s>>) /\ Writable(b, s) /\ UNCHANGED usable

Retrieve(b, n) ==
  Does(b, Drop(content[b], n), <<"retrieve", b, n>>) /\ UNCHANGED usable

RetrieveAll(b) == Does(b, <<>>, <<"all", b>>) /\ UNCHANGED usable

\* The first line goes, with its end: the first LF, or the first CR before LF.
EndsAt(q, eol, p) ==
  IF eol = "LF" THEN p <= Len(q) /\ q[p] = LF
                ELSE p < Len(q) /\ q[p] = CR /\ q[p + 1] = LF

TakeLine(b, eol) ==
  /\ \E p \in 1 .. Len(content[b]) :
       /\ EndsAt(content[b], eol, p)
       /\ \A o \in 1 .. p - 1 : ~EndsAt(content[b], eol, o)
       /\ Does(b, Drop(content[b], IF eol = "LF" THEN p ELSE p + 1), <<"line", b, eol>>)
  /\ UNCHANGED usable

Ensure(b, n) == Does(b, content[b], <<"ensure", b, n>>) /\ UNCHANGED usable

Shrink(b, n) ==
  Does(b, content[b], <<"shrink", b, n>>) /\ usable' = usable \cup {b}

Move(b, c) ==
  /\ called' = <<"move", b, c>> /\ b # c
  /\ content' = [content EXCEPT ![b] = content[c], ![c] = <<>>]
  /\ usable' = (usable \ {b, c}) \cup IF c \in usable THEN {b} ELSE {}

\* The process ends where a client writes to a buffer that was moved from.
Crash(b) ==
  /\ called' = <<"crash", b>>
  /\ b \notin usable
  /\ UNCHANGED <<content, usable>>

ByteInit ==
  /\ content = [b \in Buffers |-> <<>>]
  /\ usable = Buffers
  /\ called = <<"none">>

ByteNext ==
  /\ called[1] # "crash"
  /\ \/ \E b \in Buffers :
          \/ \E s \in Args : Extend(b, s) \/ Written(b, s) \/ Prepend(b, s)
          \/ \E n \in 0 .. MaxLen :
               Refused(b, n) \/ Retrieve(b, n) \/ Ensure(b, n) \/ Shrink(b, n)
          \/ RetrieveAll(b) \/ Crash(b)
          \/ \E eol \in {"LF", "CRLF"} : TakeLine(b, eol)
     \/ \E b, c \in Buffers : Move(b, c)

ByteSpec == ByteInit /\ [][ByteNext]_<<content, usable, called>>

=============================================================================
