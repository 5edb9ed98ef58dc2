------------------------------- MODULE Buffer -------------------------------
(***************************************************************************)
(* src/breutil/buffer.hpp: a growing byte buffer with a read and a write   *)
(* index and kPrependSize reserved bytes at the front.  The readable bytes *)
(* are those between the indices; what lies outside is stale or fresh.     *)
(*                                                                         *)
(* The operations are operators on one buffer, the record x; the actions   *)
(* apply them to buffers that can be moved into each other.  Sizes are     *)
(* size_t: a difference is taken modulo Word.  A buffer that was moved     *)
(* from has an empty vector but indices at kPrependSize, and believes to   *)
(* have room for Word - kPrependSize bytes: bytes that are written to it   *)
(* go through the vector's null pointer and end the process, until an      *)
(* assignment or Shrink gives it storage again.                            *)
(***************************************************************************)
EXTENDS Integers, Sequences

CONSTANTS
  Buffers,      \* the Buffer objects
  Bytes,        \* bytes that clients write
  CR, LF,       \* two of them
  Zero,         \* what resize fills a vector with
  kPrependSize, \* kPrependSize
  InitialSize,  \* initialSize
  Word,         \* 2^64, the modulus of size_t
  MaxLen,       \* bound: the length given to an operation
  MaxReadable   \* bound: the bytes that clients leave in a buffer

ASSUME BufferAssumption ==
  /\ {CR, LF} \subseteq Bytes /\ CR # LF
  /\ kPrependSize \in Nat \ {0} /\ InitialSize \in Nat
  /\ MaxLen \in Nat /\ MaxReadable \in Nat
  /\ Word \in Nat /\ Word > kPrependSize + InitialSize + MaxReadable + 2 * MaxLen

VARIABLES
  bufs,   \* the members _buffer, _readIndex and _writeIndex of each
  called  \* history: the last call, its buffer and its argument

bufferVars == <<bufs, called>>

Lens == 0 .. MaxLen
Strings(n) == [1 .. n -> Bytes]

Members == [data : Seq(Bytes \cup {Zero}), readIndex : Nat, writeIndex : Nat]

\* Storage that was not handed over by a move.
Owns(x) == Len(x.data) >= kPrependSize

TypeOK ==
  /\ bufs \in [Buffers -> Members]
  /\ \A b \in Buffers :
       /\ bufs[b].readIndex <= bufs[b].writeIndex
       /\ Owns(bufs[b]) => bufs[b].writeIndex <= Len(bufs[b].data)
       /\ ~Owns(bufs[b]) => bufs[b].readIndex = bufs[b].writeIndex

-----------------------------------------------------------------------------
(* Vectors. *)

Fresh(n) == [i \in 1 .. n |-> Zero]
Grown(v, n) == v \o Fresh(n - Len(v))

\* v with the bytes s copied to the positions after the first at bytes.
Overwrite(v, at, s) ==
  [i \in 1 .. Len(v) |-> IF i \in at + 1 .. at + Len(s) THEN s[i - at] ELSE v[i]]

-----------------------------------------------------------------------------
(* The operations on one buffer. *)

New(n) == [data |-> Fresh(kPrependSize + n),
           readIndex |-> kPrependSize, writeIndex |-> kPrependSize]

ReadableBytes(x) == (x.writeIndex - x.readIndex) % Word
WritableBytes(x) == (Len(x.data) - x.writeIndex) % Word
PrependableBytes(x) == x.readIndex
Content(x) == SubSeq(x.data, x.readIndex + 1, x.writeIndex)

RetrieveAll(x) ==
  [x EXCEPT !.readIndex = kPrependSize, !.writeIndex = kPrependSize]

Retrieve(x, len) ==
  IF len < ReadableBytes(x) THEN [x EXCEPT !.readIndex = @ + len]
                            ELSE RetrieveAll(x)

\* end is the number of bytes in front of the pointer.
RetrieveUntil(x, end) ==
  IF end >= x.readIndex /\ end <= x.writeIndex THEN Retrieve(x, end - x.readIndex)
                                               ELSE x

\* Mutant: the reserved bytes are forgotten.
MustGrowUnreserved(x, len) == WritableBytes(x) + PrependableBytes(x) < len

MustGrow(x, len) ==
  WritableBytes(x) + PrependableBytes(x) < len + kPrependSize

makeSpace(x, len) ==
  IF MustGrow(x, len)
    THEN [x EXCEPT !.data = Grown(@, x.writeIndex + len)]
    ELSE [data |-> Overwrite(x.data, kPrependSize, Content(x)),
          readIndex |-> kPrependSize,
          writeIndex |-> kPrependSize + ReadableBytes(x)]

EnsureWritableBytes(x, len) ==
  IF WritableBytes(x) < len THEN makeSpace(x, len) ELSE x

HasWritten(x, len) ==
  IF len <= WritableBytes(x) THEN [x EXCEPT !.writeIndex = @ + len] ELSE x

\* The client copies s to BeginWrite().
WriteAt(x, s) == [x EXCEPT !.data = Overwrite(@, x.writeIndex, s)]

Appended(x, s) ==
  HasWritten(WriteAt(EnsureWritableBytes(x, Len(s)), s), Len(s))

Prepend(x, s) ==
  [x EXCEPT !.readIndex = @ - Len(s),
            !.data = Overwrite(@, x.readIndex - Len(s), s)]

\* Mutant: _readIndex is reset before _writeIndex is computed from it.
ShrinkReadIndexFirst(x, reserve) ==
  [data |-> Overwrite(Fresh(kPrependSize + ReadableBytes(x) + reserve),
                      kPrependSize, Content(x)),
   readIndex |-> kPrependSize,
   writeIndex |-> kPrependSize + (x.writeIndex - kPrependSize)]

Shrink(x, reserve) ==
  [data |-> Overwrite(Fresh(kPrependSize + ReadableBytes(x) + reserve),
                      kPrependSize, Content(x)),
   readIndex |-> kPrependSize,
   writeIndex |-> kPrependSize + ReadableBytes(x)]

MovedFrom == [data |-> <<>>, readIndex |-> kPrependSize, writeIndex |-> kPrependSize]

\* The positions from start on at which FindCRLF finds a line end.
CRLFs(x, start) ==
  {p \in start .. x.writeIndex - 2 : x.data[p + 1] = CR /\ x.data[p + 2] = LF}

\* FindCRLF(start), and FindCRLF() with start = Peek(): the first line end, as
\* a set that is empty for nullptr.
FindCRLF(x, start) ==
  IF start < x.readIndex \/ start >= x.writeIndex THEN {}
  ELSE {p \in CRLFs(x, start) : \A q \in CRLFs(x, start) : p <= q}

\* FindEOL: the first LF.
EOLs(x) == {p \in x.readIndex .. x.writeIndex - 1 : x.data[p + 1] = LF}
FindEOL(x) == {p \in EOLs(x) : \A q \in EOLs(x) : p <= q}

-----------------------------------------------------------------------------
(* The actions. *)

Init ==
  /\ bufs = [b \in Buffers |-> New(InitialSize)]
  /\ called = <<"none">>

\* A buffer as it was constructed or as a move leaves it.
Idle(x) == x = MovedFrom \/ x = New(InitialSize)

\* The buffers share nothing, so a bound on clients is that they work on one
\* at a time: the others are as constructed or moved from.
Put(b, y, call) ==
  /\ Idle(y) \/ \A c \in Buffers \ {b} : Idle(bufs[c])
  /\ bufs' = [bufs EXCEPT ![b] = y]
  /\ called' = call

\* A call that copies the bytes s to the storage of b.
Write(b, s, y, call) ==
  \/ (Owns(bufs[b]) \/ s = <<>>) /\ Put(b, y, call)
  \/ ~Owns(bufs[b]) /\ s # <<>> /\ called' = <<"crash", b>> /\ UNCHANGED bufs

\* Lengths that a client may add under the bound MaxReadable.
Adds(b) == {n \in Lens : ReadableBytes(bufs[b]) + n <= MaxReadable}

DoAppend(b) ==
  \E n \in Adds(b) : \E s \in Strings(n) :
    Write(b, s, Appended(bufs[b], s), <<"append", b, s>>)

DoEnsure(b) ==
  \E n \in Lens : Put(b, EnsureWritableBytes(bufs[b], n), <<"ensure", b, n>>)

\* The client writes s behind BeginWrite() by itself, if WritableBytes() says
\* that there is room, and reports its length in any case.
DoHasWritten(b) ==
  \E n \in Adds(b) :
    \/ /\ n <= WritableBytes(bufs[b])
       /\ \E s \in Strings(n) :
            Write(b, s, HasWritten(WriteAt(bufs[b], s), n), <<"written", b, s>>)
    \/ /\ n > WritableBytes(bufs[b])
       /\ Put(b, HasWritten(bufs[b], n), <<"refused", b, n>>)

\* Prepend throws, and changes nothing, when the data does not fit.
DoPrepend(b) ==
  \E n \in Adds(b) :
    /\ n <= PrependableBytes(bufs[b])
    /\ \E s \in Strings(n) : Write(b, s, Prepend(bufs[b], s), <<"prepend", b, s>>)

\* Retrieve, HasRead and RetrieveAsString, which caps the length first.
DoRetrieve(b) ==
  \E n \in Lens : Put(b, Retrieve(bufs[b], n), <<"retrieve", b, n>>)

DoRetrieveAll(b) == Put(b, RetrieveAll(bufs[b]), <<"all", b>>)

\* A line reader: RetrieveUntil behind the line end that was found.
DoTakeLine(b) ==
  \/ \E p \in FindCRLF(bufs[b], bufs[b].readIndex) :
       Put(b, RetrieveUntil(bufs[b], p + 2), <<"line", b, "CRLF">>)
  \/ \E p \in FindEOL(bufs[b]) :
       Put(b, RetrieveUntil(bufs[b], p + 1), <<"line", b, "LF">>)

DoShrink(b) ==
  \E n \in Lens : Put(b, Shrink(bufs[b], n), <<"shrink", b, n>>)

\* Move construction and move assignment.
DoMove(b, c) ==
  /\ b # c
  /\ bufs' = [bufs EXCEPT ![b] = bufs[c], ![c] = MovedFrom]
  /\ called' = <<"move", b, c>>

Next ==
  /\ called[1] # "crash"
  /\ \/ \E b \in Buffers :
          \/ DoAppend(b) \/ DoEnsure(b) \/ DoHasWritten(b) \/ DoPrepend(b)
          \/ DoRetrieve(b) \/ DoRetrieveAll(b) \/ DoTakeLine(b) \/ DoShrink(b)
     \/ \E b, c \in Buffers : DoMove(b, c)

Spec == Init /\ [][Next]_bufferVars

-----------------------------------------------------------------------------
(* Properties. *)

\* Whatever growing, compacting, shrinking and moving happens underneath, every
\* call has on the readable bytes exactly the effect that its name and arguments
\* stand for: the bytes the client gave are appended, or put in front, and no
\* stale ones; as many as it asked for are taken; and the other calls, Shrink and
\* EnsureWritableBytes, lose nothing.  Room that EnsureWritableBytes made is
\* there for HasWritten, and only writing to a buffer that was moved from ends
\* the process.
Queue == INSTANCE ByteQueue
           WITH content <- [b \in Buffers |-> Content(bufs[b])],
                usable <- {b \in Buffers : Owns(bufs[b])}
ImplementsByteQueue == Queue!ByteSpec

\* makeSpace compacts only towards the front: std::copy would be undefined if
\* the target began inside the source, which Prepend, by using reserved bytes,
\* seems to make possible.
CompactionIsForward ==
  \A b \in Buffers, len \in Lens :
    LET x == bufs[b] IN
    Owns(x) /\ WritableBytes(x) < len /\ ~MustGrow(x, len)
      => x.readIndex >= kPrependSize

\* A buffer that never holds more than MaxReadable bytes and is asked for at
\* most MaxLen at a time does not grow for ever, although growing leaves the
\* space in front of the readable bytes as it is.
CapacityIsBounded ==
  \A b \in Buffers :
    \/ Len(bufs[b].data) <= kPrependSize + InitialSize
    \/ Len(bufs[b].data) <= kPrependSize + MaxReadable + 2 * MaxLen

\* A line end is found inside the readable bytes only: a CR at the end is not
\* joined with a stale LF behind it.
LineEndIsReadable ==
  \A b \in Buffers : \A p \in FindCRLF(bufs[b], bufs[b].readIndex) :
    p + 2 <= bufs[b].writeIndex

\* The storage serves any sequence of calls: the indices stay in order, so that
\* no size wraps around, compaction copies a range nowhere onto itself, the
\* capacity is bounded, and stale bytes are not read.
StorageIsSound ==
  TypeOK /\ CompactionIsForward /\ CapacityIsBounded /\ LineEndIsReadable

=============================================================================
