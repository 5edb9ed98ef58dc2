----------------------------- MODULE PartsProofs -----------------------------
(***************************************************************************)
(* Theorems about the parts that stand alone, for every value of their     *)
(* constants: the buffer's storage is sound and buffers implement byte     *)
(* queues; Timer calls back at most once after Cancel; MultiTaskTimer      *)
(* watches the earliest task and takes the tasks in the order they are     *)
(* due; Base64 and hexadecimal texts are read back as the bytes they were  *)
(* made of, whatever these are.                                            *)
(***************************************************************************)
EXTENDS Buffer, Timer, MultiTaskTimer, SequenceTheorems, TLAPS

-----------------------------------------------------------------------------
(* The buffer. *)

Cells == Bytes \cup {Zero}

\* One buffer in order: its indices, how much it holds, how large it is.
Good(x) ==
  /\ x \in Members
  /\ x.readIndex <= x.writeIndex
  /\ Owns(x) => x.writeIndex <= Len(x.data)
  /\ ~Owns(x) => x = MovedFrom
  /\ x.writeIndex - x.readIndex <= MaxReadable
  /\ \/ Len(x.data) <= kPrependSize + InitialSize
     \/ Len(x.data) <= kPrependSize + MaxReadable + 2 * MaxLen

\* The room that EnsureWritableBytes made is there as long as nothing else is
\* called.
Ensured ==
  called[1] = "ensure" =>
    /\ called[2] \in Buffers /\ called[3] \in Nat
    /\ called[3] <= WritableBytes(bufs[called[2]])

\* The inductive invariant: every buffer is in order and has the room it promised.
BufInv ==
  /\ bufs \in [Buffers -> Members]
  /\ \A b \in Buffers : Good(bufs[b])
  /\ Ensured

-----------------------------------------------------------------------------
(* Sizes and vectors. *)

\* The members of a buffer in order, for the provers.
LEMMA MembersOf ==
  ASSUME NEW x, Good(x)
  PROVE  /\ x.data \in Seq(Cells) /\ Len(x.data) \in Nat
         /\ \A i \in 1 .. Len(x.data) : x.data[i] \in Cells
         /\ x.readIndex \in Nat /\ x.writeIndex \in Nat
         /\ x = [data |-> x.data, readIndex |-> x.readIndex, writeIndex |-> x.writeIndex]
<1>1. /\ x.data \in Seq(Cells) /\ x.readIndex \in Nat /\ x.writeIndex \in Nat
      /\ x = [data |-> x.data, readIndex |-> x.readIndex, writeIndex |-> x.writeIndex]
  BY DEF Good, Members, Cells
<1>. QED
  BY <1>1, LenProperties, ElementOfSeq

\* The differences of the indices do not wrap around.
LEMMA SizesDoNotWrap ==
  ASSUME NEW x, Good(x)
  PROVE  /\ ReadableBytes(x) = x.writeIndex - x.readIndex
         /\ Owns(x) => WritableBytes(x) = Len(x.data) - x.writeIndex
<1>1. /\ x.readIndex \in Nat /\ x.writeIndex \in Nat /\ Len(x.data) \in Nat
  BY MembersOf
<1>2. ASSUME NEW n \in Int, 0 <= n, n < Word PROVE n % Word = n
  BY <1>2, BufferAssumption
<1>3. /\ x.writeIndex - x.readIndex \in Int /\ 0 <= x.writeIndex - x.readIndex
      /\ x.writeIndex - x.readIndex < Word
  BY <1>1, BufferAssumption DEF Good
<1>4. Owns(x) => /\ Len(x.data) - x.writeIndex \in Int /\ 0 <= Len(x.data) - x.writeIndex
                 /\ Len(x.data) - x.writeIndex < Word
  BY <1>1, BufferAssumption DEF Good
<1>. QED
  BY <1>2, <1>3, <1>4 DEF ReadableBytes, WritableBytes

\* What the readable bytes are.
LEMMA ContentElements ==
  ASSUME NEW x, Good(x)
  PROVE  /\ Content(x) \in Seq(Cells)
         /\ Len(Content(x)) = x.writeIndex - x.readIndex
         /\ \A i \in 1 .. x.writeIndex - x.readIndex :
              Content(x)[i] = x.data[x.readIndex + i]
<1>1. /\ x.readIndex \in Nat /\ x.writeIndex \in Nat /\ x.data \in Seq(Cells)
      /\ Len(x.data) \in Nat /\ \A i \in 1 .. Len(x.data) : x.data[i] \in Cells
  BY MembersOf
<1>2. \A i \in x.readIndex + 1 .. x.writeIndex : x.data[i] \in Cells
  <2>1. CASE Owns(x)
    BY <1>1, <2>1 DEF Good
  <2>2. CASE ~Owns(x)
    <3>1. x.readIndex = x.writeIndex
      BY <2>2 DEF Good, MovedFrom
    <3>. QED
      BY <1>1, <3>1
  <2>. QED
    BY <2>1, <2>2
<1>3. x.readIndex <= x.writeIndex
  BY DEF Good
<1>4. /\ Content(x) \in Seq(Cells)
      /\ Len(Content(x)) = IF x.readIndex + 1 <= x.writeIndex
                             THEN x.writeIndex - (x.readIndex + 1) + 1 ELSE 0
      /\ \A i \in 1 .. x.writeIndex - (x.readIndex + 1) + 1 :
           Content(x)[i] = x.data[(x.readIndex + 1) + i - 1]
  <2>1. x.readIndex + 1 \in Int /\ x.writeIndex \in Int
    BY <1>1
  <2>. QED
    BY <1>2, <2>1, SubSeqProperties DEF Content
<1>5. Len(Content(x)) = x.writeIndex - x.readIndex
  BY <1>1, <1>3, <1>4
<1>6. ASSUME NEW i \in 1 .. x.writeIndex - x.readIndex
      PROVE  Content(x)[i] = x.data[x.readIndex + i]
  <2>1. /\ i \in 1 .. x.writeIndex - (x.readIndex + 1) + 1
        /\ (x.readIndex + 1) + i - 1 = x.readIndex + i
    BY <1>1
  <2>. QED
    BY <1>4, <2>1
<1>. QED
  BY <1>4, <1>5, <1>6

\* resize fills a vector with zeros, behind what it held.
LEMMA FreshElements ==
  ASSUME NEW n \in Nat
  PROVE  Fresh(n) \in Seq(Cells) /\ Len(Fresh(n)) = n
<1>1. \A i \in 1 .. n : Zero \in Cells
  BY DEF Cells
<1>2. [i \in 1 .. n |-> Zero] \in Seq(Cells)
  BY <1>1
<1>3. Len([i \in 1 .. n |-> Zero]) = n
  OBVIOUS
<1>. QED
  BY <1>2, <1>3 DEF Fresh

\* What the grown storage holds.
LEMMA GrownElements ==
  ASSUME NEW v \in Seq(Cells), NEW n \in Nat, n >= Len(v)
  PROVE  /\ Grown(v, n) \in Seq(Cells) /\ Len(Grown(v, n)) = n
         /\ \A i \in 1 .. Len(v) : Grown(v, n)[i] = v[i]
<1>1. Len(v) \in Nat /\ n - Len(v) \in Nat
  BY LenProperties
<1>2. Fresh(n - Len(v)) \in Seq(Cells) /\ Len(Fresh(n - Len(v))) = n - Len(v)
  BY <1>1, FreshElements
<1>3. /\ v \o Fresh(n - Len(v)) \in Seq(Cells)
      /\ Len(v \o Fresh(n - Len(v))) = Len(v) + (n - Len(v))
      /\ \A i \in 1 .. Len(v) + (n - Len(v)) :
           (v \o Fresh(n - Len(v)))[i] =
             IF i <= Len(v) THEN v[i] ELSE Fresh(n - Len(v))[i - Len(v)]
  BY <1>2, ConcatProperties
<1>. QED
  BY <1>1, <1>3 DEF Grown

\* A copy into a vector changes the target range and nothing else.
LEMMA OverwriteElements ==
  ASSUME NEW v \in Seq(Cells), NEW at \in Nat, NEW s \in Seq(Cells)
  PROVE  /\ Overwrite(v, at, s) \in Seq(Cells) /\ Len(Overwrite(v, at, s)) = Len(v)
         /\ \A i \in 1 .. Len(v) :
              Overwrite(v, at, s)[i] =
                IF i \in at + 1 .. at + Len(s) THEN s[i - at] ELSE v[i]
<1>1. Len(v) \in Nat /\ Len(s) \in Nat
  BY LenProperties
<1>2. ASSUME NEW i \in 1 .. Len(v)
      PROVE  (IF i \in at + 1 .. at + Len(s) THEN s[i - at] ELSE v[i]) \in Cells
  <2>1. CASE i \in at + 1 .. at + Len(s)
    <3>1. i - at \in 1 .. Len(s)
      BY <1>1, <2>1
    <3>. QED
      BY <2>1, <3>1, ElementOfSeq
  <2>2. CASE i \notin at + 1 .. at + Len(s)
    BY <2>2, ElementOfSeq
  <2>. QED
    BY <2>1, <2>2
<1>. QED
  BY <1>1, <1>2 DEF Overwrite

\* Two buffers with the same bytes between their indices have the same content.
LEMMA SameContent ==
  ASSUME NEW x, NEW y, Good(x), Good(y),
         y.writeIndex - y.readIndex = x.writeIndex - x.readIndex,
         \A i \in 1 .. x.writeIndex - x.readIndex :
           y.data[y.readIndex + i] = x.data[x.readIndex + i]
  PROVE  Content(y) = Content(x)
<1>1. /\ Content(x) \in Seq(Cells) /\ Content(y) \in Seq(Cells)
      /\ Len(Content(x)) = x.writeIndex - x.readIndex
      /\ Len(Content(x)) = Len(Content(y))
  BY ContentElements
<1>2. \A i \in 1 .. Len(Content(x)) : Content(x)[i] = Content(y)[i]
  BY <1>1, ContentElements
<1>. QED
  BY <1>1, <1>2, SeqEqual

-----------------------------------------------------------------------------
(* What each operation keeps and what it does to the readable bytes. *)

Capacity(n) ==
  \/ n <= kPrependSize + InitialSize
  \/ n <= kPrependSize + MaxReadable + 2 * MaxLen

Built(d, r, w) == [data |-> d, readIndex |-> r, writeIndex |-> w]

\* A buffer with storage and its indices in order.
LEMMA GoodBuilt ==
  ASSUME NEW d \in Seq(Cells), NEW r \in Nat, NEW w \in Nat,
         r <= w, w <= Len(d), kPrependSize <= Len(d), w - r <= MaxReadable,
         Capacity(Len(d))
  PROVE  Good(Built(d, r, w)) /\ Owns(Built(d, r, w))
BY DEF Good, Owns, Built, Members, Cells, Capacity

\* The facts about a buffer with storage that the operations start from.
LEMMA OwnedBuffer ==
  ASSUME NEW x, Good(x), Owns(x)
  PROVE  /\ x = Built(x.data, x.readIndex, x.writeIndex)
         /\ x.data \in Seq(Cells) /\ Len(x.data) \in Nat
         /\ x.readIndex \in Nat /\ x.writeIndex \in Nat
         /\ x.readIndex <= x.writeIndex /\ x.writeIndex <= Len(x.data)
         /\ kPrependSize <= Len(x.data) /\ Capacity(Len(x.data))
         /\ x.writeIndex - x.readIndex <= MaxReadable
         /\ kPrependSize \in Nat /\ InitialSize \in Nat /\ MaxLen \in Nat
         /\ MaxReadable \in Nat
<1>1. /\ x = Built(x.data, x.readIndex, x.writeIndex)
      /\ x.data \in Seq(Cells) /\ Len(x.data) \in Nat
      /\ x.readIndex \in Nat /\ x.writeIndex \in Nat
  BY MembersOf DEF Built
<1>2. /\ x.readIndex <= x.writeIndex /\ x.writeIndex <= Len(x.data)
      /\ Capacity(Len(x.data)) /\ x.writeIndex - x.readIndex <= MaxReadable
  BY DEF Good, Capacity
<1>3. kPrependSize <= Len(x.data) /\ kPrependSize \in Nat
  BY <1>1, BufferAssumption DEF Owns
<1>. QED
  BY <1>1, <1>2, <1>3, BufferAssumption

\* EnsureWritableBytes makes room and keeps the readable bytes, whether it
\* grows the vector or moves the bytes to the front.
LEMMA EnsureKeeps ==
  ASSUME NEW x, Good(x), Owns(x), NEW len \in Lens
  PROVE  LET y == EnsureWritableBytes(x, len) IN
         /\ Good(y) /\ Owns(y) /\ Content(y) = Content(x)
         /\ y.writeIndex + len <= Len(y.data)
         /\ y.writeIndex - y.readIndex = x.writeIndex - x.readIndex
<1>. DEFINE y == EnsureWritableBytes(x, len)
            d == x.data
            r == x.readIndex
            w == x.writeIndex
            Goal == /\ Good(y) /\ Owns(y) /\ Content(y) = Content(x)
                    /\ y.writeIndex + len <= Len(y.data)
                    /\ y.writeIndex - y.readIndex = w - r
<1>0. /\ len \in Nat /\ len <= MaxLen /\ x = Built(d, r, w)
      /\ d \in Seq(Cells) /\ Len(d) \in Nat /\ r \in Nat /\ w \in Nat
      /\ r <= w /\ w <= Len(d) /\ kPrependSize <= Len(d) /\ Capacity(Len(d))
      /\ w - r <= MaxReadable /\ kPrependSize \in Nat /\ InitialSize \in Nat
      /\ MaxLen \in Nat /\ MaxReadable \in Nat
  BY OwnedBuffer, BufferAssumption DEF Lens
<1>1. ReadableBytes(x) = w - r /\ WritableBytes(x) = Len(d) - w
  BY SizesDoNotWrap
<1>2. CASE ~(WritableBytes(x) < len)
  <2>1. y = x
    BY <1>2 DEF EnsureWritableBytes
  <2>. QED
    BY <1>0, <1>1, <1>2, <2>1
<1>3. CASE WritableBytes(x) < len /\ MustGrow(x, len)
  <2>1. y = Built(Grown(d, w + len), r, w)
    <3>1. y = [x EXCEPT !.data = Grown(@, x.writeIndex + len)]
      BY <1>3 DEF EnsureWritableBytes, makeSpace
    <3>. QED
      BY <1>0, <3>1 DEF Built
  <2>2. w + len \in Nat /\ w + len >= Len(d)
    BY <1>0, <1>1, <1>3
  <2>3. /\ Grown(d, w + len) \in Seq(Cells) /\ Len(Grown(d, w + len)) = w + len
        /\ \A i \in 1 .. Len(d) : Grown(d, w + len)[i] = d[i]
    BY <1>0, <2>2, GrownElements
  <2>4. Capacity(w + len)
    <3>1. (Len(d) - w) + r < len + kPrependSize
      BY <1>1, <1>3 DEF MustGrow, PrependableBytes
    <3>2. w + len <= kPrependSize + MaxReadable + 2 * MaxLen
      BY <1>0, <3>1
    <3>. QED
      BY <3>2 DEF Capacity
  <2>5. Good(y) /\ Owns(y)
    BY <1>0, <2>1, <2>2, <2>3, <2>4, GoodBuilt
  <2>6. y.writeIndex = w /\ y.readIndex = r /\ y.data = Grown(d, w + len)
    BY <2>1 DEF Built
  <2>7. ASSUME NEW i \in 1 .. w - r PROVE y.data[y.readIndex + i] = d[r + i]
    <3>1. r + i \in 1 .. Len(d)
      BY <1>0
    <3>. QED
      BY <2>3, <2>6, <3>1
  <2>8. Content(y) = Content(x)
    BY <2>5, <2>6, <2>7, SameContent
  <2>. QED
    BY <1>0, <2>3, <2>5, <2>6, <2>8
<1>4. CASE WritableBytes(x) < len /\ ~MustGrow(x, len)
  <2>. DEFINE e == Overwrite(d, kPrependSize, Content(x))
  <2>1. y = Built(e, kPrependSize, kPrependSize + (w - r))
    BY <1>1, <1>4 DEF EnsureWritableBytes, makeSpace, Built
  <2>2. (Len(d) - w) + r >= len + kPrependSize
    BY <1>0, <1>1, <1>4 DEF MustGrow, PrependableBytes
  <2>3. /\ Content(x) \in Seq(Cells) /\ Len(Content(x)) = w - r
        /\ \A i \in 1 .. w - r : Content(x)[i] = d[r + i]
    BY ContentElements
  <2>4. /\ e \in Seq(Cells) /\ Len(e) = Len(d)
        /\ \A i \in 1 .. Len(d) :
             e[i] = IF i \in kPrependSize + 1 .. kPrependSize + (w - r)
                      THEN Content(x)[i - kPrependSize] ELSE d[i]
    BY <1>0, <2>3, OverwriteElements
  <2>. HIDE DEF e
  <2>5. kPrependSize + (w - r) \in Nat /\ kPrependSize + (w - r) + len <= Len(d)
    BY <1>0, <2>2
  <2>6. Good(y) /\ Owns(y)
    <3>. DEFINE top == kPrependSize + (w - r)
    <3>1. e \in Seq(Cells) /\ Len(e) = Len(d)
      BY <2>4
    <3>2. /\ kPrependSize \in Nat /\ top \in Nat /\ kPrependSize <= top
          /\ top <= Len(d) /\ top - kPrependSize <= MaxReadable
      BY <1>0, <2>5
    <3>3. kPrependSize <= Len(d) /\ Capacity(Len(d))
      BY <1>0
    <3>4. y = Built(e, kPrependSize, top)
      BY <2>1
    <3>. HIDE DEF top, y, d
    <3>. QED
      BY <3>1, <3>2, <3>3, <3>4, GoodBuilt
  <2>7. /\ y.writeIndex = kPrependSize + (w - r) /\ y.readIndex = kPrependSize
        /\ y.data = e
    BY <2>1 DEF Built
  <2>8. ASSUME NEW i \in 1 .. w - r PROVE y.data[y.readIndex + i] = d[r + i]
    <3>1. /\ kPrependSize + i \in 1 .. Len(d)
          /\ kPrependSize + i \in kPrependSize + 1 .. kPrependSize + (w - r)
          /\ (kPrependSize + i) - kPrependSize = i
      BY <1>0, <2>5
    <3>. QED
      BY <2>3, <2>4, <2>7, <3>1
  <2>9. Content(y) = Content(x)
    <3>1. y.writeIndex - y.readIndex = w - r
      BY <1>0, <2>7
    <3>. QED
      BY <2>6, <2>8, <3>1, SameContent
  <2>. QED
    BY <1>0, <2>4, <2>5, <2>6, <2>7, <2>9
<1>5. Goal
  BY <1>2, <1>3, <1>4
<1>. QED
  BY <1>5

\* Writing s behind the readable bytes and reporting its length appends s.
LEMMA WriteAppends ==
  ASSUME NEW x, Good(x), Owns(x), NEW s \in Seq(Bytes),
         x.writeIndex + Len(s) <= Len(x.data),
         x.writeIndex - x.readIndex + Len(s) <= MaxReadable
  PROVE  LET y == HasWritten(WriteAt(x, s), Len(s)) IN
         Good(y) /\ Owns(y) /\ Content(y) = Content(x) \o s
<1>. DEFINE y == HasWritten(WriteAt(x, s), Len(s))
            z == WriteAt(x, s)
            d == x.data
            r == x.readIndex
            w == x.writeIndex
            e == Overwrite(d, w, s)
<1>0. /\ x = Built(d, r, w)
      /\ d \in Seq(Cells) /\ Len(d) \in Nat /\ r \in Nat /\ w \in Nat
      /\ r <= w /\ w <= Len(d) /\ kPrependSize <= Len(d) /\ Capacity(Len(d))
      /\ w - r <= MaxReadable /\ kPrependSize \in Nat /\ MaxReadable \in Nat
  BY OwnedBuffer
<1>1. s \in Seq(Cells) /\ Len(s) \in Nat
  BY LenProperties DEF Cells
<1>2. /\ e \in Seq(Cells) /\ Len(e) = Len(d)
      /\ \A i \in 1 .. Len(d) : e[i] = IF i \in w + 1 .. w + Len(s) THEN s[i - w] ELSE d[i]
  BY <1>0, <1>1, OverwriteElements
<1>3. z = Built(e, r, w)
  BY <1>0 DEF WriteAt, Built
<1>4. Good(z) /\ Owns(z)
  BY <1>0, <1>2, <1>3, GoodBuilt
<1>5. WritableBytes(z) = Len(d) - w
  <2>1. z.data = e /\ z.writeIndex = w
    BY <1>3 DEF Built
  <2>. QED
    BY <1>2, <1>4, <2>1, SizesDoNotWrap
<1>6. y = Built(e, r, w + Len(s))
  <2>1. Len(s) <= WritableBytes(z)
    BY <1>0, <1>1, <1>5
  <2>2. y = [z EXCEPT !.writeIndex = @ + Len(s)]
    BY <2>1 DEF HasWritten
  <2>. QED
    BY <1>3, <2>2 DEF Built
<1>7. Good(y) /\ Owns(y)
  <2>1. w + Len(s) \in Nat /\ r <= w + Len(s) /\ (w + Len(s)) - r <= MaxReadable
    BY <1>0, <1>1
  <2>. QED
    BY <1>0, <1>2, <1>6, <2>1, GoodBuilt
<1>8. Content(y) = Content(x) \o s
  <2>1. /\ Content(y) \in Seq(Cells) /\ Len(Content(y)) = (w + Len(s)) - r
        /\ \A i \in 1 .. (w + Len(s)) - r : Content(y)[i] = e[r + i]
    <3>1. y.data = e /\ y.readIndex = r /\ y.writeIndex = w + Len(s)
      BY <1>6 DEF Built
    <3>. QED
      BY <1>7, <3>1, ContentElements
  <2>2. /\ Content(x) \in Seq(Cells) /\ Len(Content(x)) = w - r
        /\ \A i \in 1 .. w - r : Content(x)[i] = d[r + i]
    BY ContentElements
  <2>3. /\ Content(x) \o s \in Seq(Cells) /\ Len(Content(x) \o s) = (w - r) + Len(s)
        /\ \A i \in 1 .. (w - r) + Len(s) :
             (Content(x) \o s)[i] = IF i <= w - r THEN Content(x)[i] ELSE s[i - (w - r)]
    <3>. HIDE DEF r, w
    <3>1. /\ Content(x) \o s \in Seq(Cells)
          /\ Len(Content(x) \o s) = Len(Content(x)) + Len(s)
          /\ \A i \in 1 .. Len(Content(x)) + Len(s) :
               (Content(x) \o s)[i] =
                 IF i <= Len(Content(x)) THEN Content(x)[i] ELSE s[i - Len(Content(x))]
      BY <1>1, <2>2, ConcatProperties
    <3>. QED
      BY <2>2, <3>1
  <2>4. ASSUME NEW i \in 1 .. (w + Len(s)) - r PROVE Content(y)[i] = (Content(x) \o s)[i]
    <3>1. r + i \in 1 .. Len(d) /\ i \in 1 .. (w - r) + Len(s) /\ i \in Int
      BY <1>0, <1>1
    <3>2. CASE i <= w - r
      <4>1. i \in 1 .. w - r /\ r + i \notin w + 1 .. w + Len(s)
        BY <1>0, <1>1, <3>1, <3>2
      <4>. QED
        BY <1>2, <2>1, <2>2, <2>3, <3>1, <3>2, <4>1
    <3>3. CASE ~(i <= w - r)
      <4>1. r + i \in w + 1 .. w + Len(s) /\ (r + i) - w = i - (w - r)
        BY <1>0, <1>1, <3>1, <3>3
      <4>. QED
        BY <1>2, <2>1, <2>3, <3>1, <3>3, <4>1
    <3>. QED
      BY <3>2, <3>3
  <2>5. Len(Content(y)) = Len(Content(x) \o s)
    BY <1>0, <1>1, <2>1, <2>3
  <2>. QED
    BY <2>1, <2>3, <2>4, <2>5, SeqEqual
<1>. QED
  BY <1>7, <1>8

\* Append appends.
LEMMA AppendAppends ==
  ASSUME NEW x, Good(x), Owns(x), NEW s \in Seq(Bytes), Len(s) \in Lens,
         x.writeIndex - x.readIndex + Len(s) <= MaxReadable
  PROVE  /\ Good(Appended(x, s)) /\ Owns(Appended(x, s))
         /\ Content(Appended(x, s)) = Content(x) \o s
<1>. DEFINE y == EnsureWritableBytes(x, Len(s))
<1>1. /\ Good(y) /\ Owns(y) /\ Content(y) = Content(x)
      /\ y.writeIndex + Len(s) <= Len(y.data)
      /\ y.writeIndex - y.readIndex = x.writeIndex - x.readIndex
  BY EnsureKeeps
<1>. HIDE DEF y
<1>2. LET z == HasWritten(WriteAt(y, s), Len(s)) IN
      Good(z) /\ Owns(z) /\ Content(z) = Content(y) \o s
  BY <1>1, WriteAppends
<1>. QED
  BY <1>1, <1>2 DEF Appended, y

\* Prepend puts s in front, into the reserved bytes or what was retrieved.
LEMMA PrependPrepends ==
  ASSUME NEW x, Good(x), Owns(x), NEW s \in Seq(Bytes), Len(s) <= x.readIndex,
         x.writeIndex - x.readIndex + Len(s) <= MaxReadable
  PROVE  /\ Good(Prepend(x, s)) /\ Owns(Prepend(x, s))
         /\ Content(Prepend(x, s)) = s \o Content(x)
<1>. DEFINE y == Prepend(x, s)
            d == x.data
            r == x.readIndex
            w == x.writeIndex
            n == Len(s)
            e == Overwrite(d, r - n, s)
<1>0. /\ x = Built(d, r, w)
      /\ d \in Seq(Cells) /\ Len(d) \in Nat /\ r \in Nat /\ w \in Nat
      /\ r <= w /\ w <= Len(d) /\ kPrependSize <= Len(d) /\ Capacity(Len(d))
      /\ w - r <= MaxReadable /\ kPrependSize \in Nat /\ MaxReadable \in Nat
  BY OwnedBuffer
<1>1. s \in Seq(Cells) /\ n \in Nat /\ r - n \in Nat
  <2>1. s \in Seq(Cells) /\ n \in Nat
    BY LenProperties DEF Cells
  <2>. QED
    BY <1>0, <2>1
<1>2. /\ e \in Seq(Cells) /\ Len(e) = Len(d)
      /\ \A i \in 1 .. Len(d) :
           e[i] = IF i \in (r - n) + 1 .. (r - n) + n THEN s[i - (r - n)] ELSE d[i]
  BY <1>0, <1>1, OverwriteElements
<1>3. y = Built(e, r - n, w)
  <2>1. y = [x EXCEPT !.readIndex = r - n, !.data = e]
    BY DEF Prepend
  <2>2. x.data = d /\ x.readIndex = r /\ x.writeIndex = w
    OBVIOUS
  <2>. HIDE DEF d, r, w, e, n, y
  <2>. QED
    BY <1>0, <2>1, <2>2 DEF Built
<1>4. Good(y) /\ Owns(y)
  <2>1. r - n <= w /\ w - (r - n) <= MaxReadable
    BY <1>0, <1>1
  <2>. QED
    BY <1>0, <1>1, <1>2, <1>3, <2>1, GoodBuilt
<1>5. Content(y) = s \o Content(x)
  <2>1. /\ Content(y) \in Seq(Cells) /\ Len(Content(y)) = w - (r - n)
        /\ \A i \in 1 .. w - (r - n) : Content(y)[i] = e[(r - n) + i]
    <3>1. y.data = e /\ y.readIndex = r - n /\ y.writeIndex = w
      BY <1>3 DEF Built
    <3>. QED
      BY <1>4, <3>1, ContentElements
  <2>2. /\ Content(x) \in Seq(Cells) /\ Len(Content(x)) = w - r
        /\ \A i \in 1 .. w - r : Content(x)[i] = d[r + i]
    BY ContentElements
  <2>3. /\ s \o Content(x) \in Seq(Cells) /\ Len(s \o Content(x)) = n + (w - r)
        /\ \A i \in 1 .. n + (w - r) :
             (s \o Content(x))[i] = IF i <= n THEN s[i] ELSE Content(x)[i - n]
    <3>. HIDE DEF r, w, n
    <3>1. Len(s) = n
      BY DEF n
    <3>2. /\ s \o Content(x) \in Seq(Cells)
          /\ Len(s \o Content(x)) = Len(s) + Len(Content(x))
          /\ \A i \in 1 .. Len(s) + Len(Content(x)) :
               (s \o Content(x))[i] = IF i <= Len(s) THEN s[i] ELSE Content(x)[i - Len(s)]
      BY <1>1, <2>2, ConcatProperties
    <3>. QED
      BY <2>2, <3>1, <3>2
  <2>4. ASSUME NEW i \in 1 .. w - (r - n) PROVE Content(y)[i] = (s \o Content(x))[i]
    <3>. HIDE DEF d, r, w, n, e, y
    <3>1. (r - n) + i \in 1 .. Len(d) /\ i \in 1 .. n + (w - r) /\ i \in Int
      BY <1>0, <1>1
    <3>2. CASE i <= n
      <4>1. (r - n) + i \in (r - n) + 1 .. (r - n) + n /\ ((r - n) + i) - (r - n) = i
        BY <1>0, <1>1, <3>1, <3>2
      <4>. QED
        BY <1>2, <2>1, <2>3, <3>1, <3>2, <4>1
    <3>3. CASE ~(i <= n)
      <4>1. /\ i - n \in 1 .. w - r /\ r + (i - n) = (r - n) + i
            /\ (r - n) + i \notin (r - n) + 1 .. (r - n) + n
        BY <1>0, <1>1, <3>1, <3>3
      <4>. QED
        BY <1>2, <2>1, <2>2, <2>3, <3>1, <3>3, <4>1
    <3>. QED
      BY <3>2, <3>3
  <2>5. Len(Content(y)) = Len(s \o Content(x))
    BY <1>0, <1>1, <2>1, <2>3
  <2>. QED
    BY <2>1, <2>3, <2>4, <2>5, SeqEqual
<1>. QED
  BY <1>4, <1>5

\* The new content y of a buffer with content x: more at the end, more at the
\* front, or less at the front.
\* The sequence c without its first n elements.
Dropped(c, n) == SubSeq(c, n + 1, Len(c))

\* An empty buffer, owned or moved from.
LEMMA RetrieveAllEmpties ==
  ASSUME NEW x, Good(x)
  PROVE  /\ Good(RetrieveAll(x)) /\ Content(RetrieveAll(x)) = <<>>
         /\ Owns(RetrieveAll(x)) <=> Owns(x)
<1>. DEFINE y == RetrieveAll(x)
            d == x.data
<1>1. y = Built(d, kPrependSize, kPrependSize)
  <2>1. PICK v, r, w : x = Built(v, r, w)
    BY MembersOf DEF Built
  <2>2. d = v
    BY <2>1 DEF Built
  <2>3. y = [Built(v, r, w) EXCEPT !.readIndex = kPrependSize, !.writeIndex = kPrependSize]
    BY <2>1 DEF RetrieveAll
  <2>. HIDE DEF d, y
  <2>. QED
    BY <2>2, <2>3 DEF Built
<1>2. d \in Seq(Cells) /\ Len(d) \in Nat /\ kPrependSize \in Nat
  BY MembersOf, BufferAssumption
<1>3. Capacity(Len(d))
  BY DEF Good, Capacity
<1>4. /\ y.data = d /\ y.readIndex = kPrependSize /\ y.writeIndex = kPrependSize
      /\ y \in Members
  BY <1>1, <1>2 DEF Built, Members, Cells
<1>a. Owns(y) <=> Owns(x)
  BY <1>4 DEF Owns
<1>5. Good(y)
  <2>1. ~Owns(y) => y = MovedFrom
    <3>1. ~Owns(x) => d = <<>>
      BY DEF Good, MovedFrom
    <3>. HIDE DEF d, y
    <3>. QED
      BY <1>1, <1>a, <3>1 DEF MovedFrom, Built
  <2>2. Owns(y) => y.writeIndex <= Len(y.data)
    BY <1>4 DEF Owns
  <2>. QED
    BY <1>2, <1>3, <1>4, <2>1, <2>2, BufferAssumption DEF Good, Capacity
<1>6. Content(y) = <<>>
  <2>1. kPrependSize + 1 \in Int /\ kPrependSize \in Int /\ kPrependSize < kPrependSize + 1
    BY <1>2
  <2>. QED
    BY <1>4, <2>1, SubSeqEmpty DEF Content
<1>. QED
  BY <1>5, <1>6, <1>a

\* Retrieve takes bytes from the front, all of them if it is asked for more.
LEMMA RetrieveConsumes ==
  ASSUME NEW x, Good(x), NEW n \in Nat
  PROVE  /\ Good(Retrieve(x, n)) /\ Content(Retrieve(x, n)) = Dropped(Content(x), n)
         /\ Owns(Retrieve(x, n)) <=> Owns(x)
<1>. DEFINE y == Retrieve(x, n)
            d == x.data
            r == x.readIndex
            w == x.writeIndex
            c == Content(x)
<1>0. /\ d \in Seq(Cells) /\ Len(d) \in Nat /\ r \in Nat /\ w \in Nat /\ r <= w
      /\ x = Built(d, r, w) /\ ReadableBytes(x) = w - r
  BY MembersOf, SizesDoNotWrap DEF Good, Built
<1>1. /\ c \in Seq(Cells) /\ Len(c) = w - r
      /\ \A i \in 1 .. w - r : c[i] = d[r + i]
  BY ContentElements
<1>2. CASE ~(n < ReadableBytes(x))
  <2>1. y = RetrieveAll(x)
    BY <1>2 DEF Retrieve
  <2>2. Dropped(c, n) = <<>>
    <3>1. n + 1 \in Int /\ Len(c) \in Int /\ Len(c) < n + 1
      BY <1>0, <1>1, <1>2
    <3>. QED
      BY <3>1, SubSeqEmpty DEF Dropped
  <2>. QED
    BY <1>1, <2>1, <2>2, RetrieveAllEmpties
<1>3. CASE n < ReadableBytes(x)
  <2>1. y = Built(d, r + n, w)
    <3>1. y = [x EXCEPT !.readIndex = r + n]
      BY <1>3 DEF Retrieve
    <3>2. x.data = d /\ x.readIndex = r /\ x.writeIndex = w
      OBVIOUS
    <3>. HIDE DEF d, r, w, y
    <3>. QED
      BY <1>0, <3>1, <3>2 DEF Built
  <2>2. Owns(x)
    BY <1>0, <1>3, BufferAssumption DEF Good, MovedFrom
  <2>3. /\ w <= Len(d) /\ kPrependSize <= Len(d) /\ Capacity(Len(d))
        /\ w - r <= MaxReadable /\ MaxReadable \in Nat
    BY <2>2, OwnedBuffer
  <2>4. r + n \in Nat /\ r + n <= w /\ w - (r + n) <= MaxReadable
    BY <1>0, <1>3, <2>3
  <2>5. Good(y) /\ Owns(y)
    BY <1>0, <2>1, <2>3, <2>4, GoodBuilt
  <2>6. /\ Content(y) \in Seq(Cells) /\ Len(Content(y)) = w - (r + n)
        /\ \A i \in 1 .. w - (r + n) : Content(y)[i] = d[(r + n) + i]
    <3>1. y.data = d /\ y.readIndex = r + n /\ y.writeIndex = w
      BY <2>1 DEF Built
    <3>. QED
      BY <2>5, <3>1, ContentElements
  <2>. DEFINE z == SubSeq(c, n + 1, Len(c))
  <2>. HIDE DEF d, r, w, c, y
  <2>7. /\ z \in Seq(Cells) /\ Len(z) = Len(c) - n
        /\ \A i \in 1 .. Len(c) - n : z[i] = c[n + i]
    <3>1. n <= Len(c) /\ Len(c) \in Nat
      BY <1>0, <1>1, <1>3
    <3>. QED
      BY <1>1, <3>1
  <2>8. Len(Content(y)) = Len(z)
    BY <1>0, <1>1, <2>6, <2>7
  <2>9. ASSUME NEW i \in 1 .. Len(Content(y)) PROVE Content(y)[i] = z[i]
    <3>0. i \in Int /\ 1 <= i /\ i <= w - (r + n)
      BY <1>0, <2>6
    <3>1. /\ i \in 1 .. Len(c) - n /\ n + i \in 1 .. w - r
          /\ i \in 1 .. w - (r + n) /\ (r + n) + i = r + (n + i)
      <4>1. Len(c) = w - r
        BY <1>1
      <4>. QED
        BY <1>0, <3>0, <4>1
    <3>. QED
      BY <1>1, <2>6, <2>7, <3>1
  <2>10. Content(y) = z
    <3>. HIDE DEF z
    <3>. QED
      BY <2>6, <2>7, <2>8, <2>9, SeqEqual
  <2>. QED
    BY <2>2, <2>5, <2>10 DEF c, y, Dropped
<1>. QED
  BY <1>2, <1>3

\* RetrieveUntil takes the bytes before a pointer into the readable ones.
LEMMA RetrieveUntilConsumes ==
  ASSUME NEW x, Good(x), NEW end \in Int, x.readIndex <= end, end <= x.writeIndex
  PROVE  /\ Good(RetrieveUntil(x, end))
         /\ Content(RetrieveUntil(x, end)) = Dropped(Content(x), end - x.readIndex)
         /\ Owns(RetrieveUntil(x, end)) <=> Owns(x)
<1>1. end - x.readIndex \in Nat
  BY MembersOf
<1>2. RetrieveUntil(x, end) = Retrieve(x, end - x.readIndex)
  BY <1>1, MembersOf DEF RetrieveUntil
<1>. QED
  BY <1>1, <1>2, RetrieveConsumes

\* Shrink gives the readable bytes, and nothing else, new storage; a buffer
\* that was moved from owns storage again.
LEMMA ShrinkKeeps ==
  ASSUME NEW x, Good(x), NEW n \in Lens
  PROVE  /\ Good(Shrink(x, n)) /\ Content(Shrink(x, n)) = Content(x)
         /\ Owns(Shrink(x, n))
<1>. DEFINE y == Shrink(x, n)
            d == x.data
            r == x.readIndex
            w == x.writeIndex
            c == Content(x)
            f == Fresh(kPrependSize + (w - r) + n)
            e == Overwrite(f, kPrependSize, c)
<1>0. /\ r \in Nat /\ w \in Nat /\ r <= w /\ w - r <= MaxReadable
      /\ ReadableBytes(x) = w - r
      /\ n \in Nat /\ n <= MaxLen /\ MaxLen \in Nat /\ MaxReadable \in Nat
      /\ kPrependSize \in Nat /\ InitialSize \in Nat
  BY MembersOf, SizesDoNotWrap, BufferAssumption DEF Good, Lens
<1>1. /\ c \in Seq(Cells) /\ Len(c) = w - r
      /\ \A i \in 1 .. w - r : c[i] = d[r + i]
  BY ContentElements
<1>2. y = Built(e, kPrependSize, kPrependSize + (w - r))
  BY <1>0 DEF Shrink, Built
<1>3. f \in Seq(Cells) /\ Len(f) = kPrependSize + (w - r) + n
  <2>1. kPrependSize + (w - r) + n \in Nat
    BY <1>0
  <2>. QED
    BY <2>1, FreshElements
<1>4. /\ e \in Seq(Cells) /\ Len(e) = Len(f)
      /\ \A i \in 1 .. Len(f) :
           e[i] = IF i \in kPrependSize + 1 .. kPrependSize + Len(c)
                    THEN c[i - kPrependSize] ELSE f[i]
  <2>1. c \in Seq(Cells) /\ kPrependSize \in Nat
    BY <1>0, <1>1
  <2>. HIDE DEF c, f
  <2>. QED
    BY <1>3, <2>1, OverwriteElements
<1>. HIDE DEF e, f
<1>5. Good(y) /\ Owns(y)
  <2>1. /\ kPrependSize + (w - r) \in Nat /\ kPrependSize + (w - r) <= Len(e)
        /\ kPrependSize <= kPrependSize + (w - r) /\ kPrependSize <= Len(e)
        /\ (kPrependSize + (w - r)) - kPrependSize <= MaxReadable
    BY <1>0, <1>3, <1>4
  <2>2. Capacity(Len(e))
    BY <1>0, <1>3, <1>4 DEF Capacity
  <2>. QED
    BY <1>0, <1>2, <1>4, <2>1, <2>2, GoodBuilt
<1>6. /\ y.data = e /\ y.readIndex = kPrependSize
      /\ y.writeIndex = kPrependSize + (w - r)
  BY <1>2 DEF Built
<1>7. ASSUME NEW i \in 1 .. w - r PROVE y.data[y.readIndex + i] = d[r + i]
  <2>. HIDE DEF y, d, r, w, c
  <2>1. /\ kPrependSize + i \in 1 .. Len(f)
        /\ kPrependSize + i \in kPrependSize + 1 .. kPrependSize + Len(c)
        /\ (kPrependSize + i) - kPrependSize = i
    <3>1. /\ i \in Nat /\ 1 <= i /\ i <= w - r /\ w - r \in Nat
          /\ kPrependSize \in Nat /\ n \in Nat
      BY <1>0
    <3>2. Len(f) = kPrependSize + (w - r) + n /\ Len(c) = w - r
      BY <1>1, <1>3
    <3>. QED
      BY <3>1, <3>2
  <2>. QED
    BY <1>1, <1>4, <1>6, <2>1
<1>8. y.writeIndex - y.readIndex = w - r
  BY <1>0, <1>6
<1>9. Content(y) = Content(x)
  <2>. HIDE DEF y
  <2>. QED
    BY <1>5, <1>7, <1>8, SameContent
<1>. QED
  BY <1>5, <1>9

\* A new buffer and one that was moved from are empty.
LEMMA NewAndMovedFrom ==
  /\ Good(New(InitialSize)) /\ Content(New(InitialSize)) = <<>> /\ Owns(New(InitialSize))
  /\ Good(MovedFrom) /\ Content(MovedFrom) = <<>> /\ ~Owns(MovedFrom)
<1>0. kPrependSize \in Nat /\ InitialSize \in Nat /\ MaxReadable \in Nat /\ MaxLen \in Nat
  BY BufferAssumption
<1>1. SubSeq(Fresh(kPrependSize + InitialSize), kPrependSize + 1, kPrependSize) = <<>>
      /\ SubSeq(<<>>, kPrependSize + 1, kPrependSize) = <<>>
  BY <1>0, SubSeqEmpty
<1>2. Content(New(InitialSize)) = <<>> /\ Content(MovedFrom) = <<>>
  BY <1>1 DEF Content, New, MovedFrom
<1>3. Good(New(InitialSize)) /\ Owns(New(InitialSize))
  <2>1. kPrependSize + InitialSize \in Nat
    BY <1>0
  <2>2. /\ Fresh(kPrependSize + InitialSize) \in Seq(Cells)
        /\ Len(Fresh(kPrependSize + InitialSize)) = kPrependSize + InitialSize
    BY <2>1, FreshElements
  <2>3. New(InitialSize) = Built(Fresh(kPrependSize + InitialSize), kPrependSize, kPrependSize)
    BY DEF New, Built
  <2>. QED
    BY <1>0, <2>1, <2>2, <2>3, GoodBuilt DEF Capacity
<1>4. Good(MovedFrom) /\ ~Owns(MovedFrom)
  <2>1. <<>> \in Seq(Cells) /\ Len(<<>>) = 0
    BY EmptySeq
  <2>. QED
    BY <1>0, <2>1, BufferAssumption DEF Good, Owns, MovedFrom, Members, Cells
<1>. QED
  BY <1>2, <1>3, <1>4

-----------------------------------------------------------------------------
(* The steps. *)

\* A call that leaves buffer b as y.
Done(b, y, call) ==
  /\ Good(y) /\ bufs' = [bufs EXCEPT ![b] = y] /\ called' = call

\* What a call is for the byte queues: it has the effect that its name and its
\* arguments stand for, and leaves the buffers in order.
Serves == BufInv' /\ Queue!ByteNext

\* A call on one buffer changes that buffer's bytes only.
LEMMA DoneOnQueue ==
  ASSUME BufInv, NEW b \in Buffers, NEW y, NEW call, Done(b, y, call)
  PROVE  /\ Queue!Does(b, Content(y), call)
         /\ Owns(y) => {c \in Buffers : Owns(bufs[c])}'
                         = {c \in Buffers : Owns(bufs[c])} \cup {b}
         /\ (Owns(y) <=> Owns(bufs[b])) => UNCHANGED {c \in Buffers : Owns(bufs[c])}
<1>1. /\ bufs'[b] = y /\ \A c \in Buffers : c # b => bufs'[c] = bufs[c]
      /\ DOMAIN bufs = Buffers /\ called' = call
  BY DEF Done, BufInv
<1>2. [c \in Buffers |-> Content(bufs'[c])]
        = [[c \in Buffers |-> Content(bufs[c])] EXCEPT ![b] = Content(y)]
  BY <1>1
<1>3. \A c \in Buffers : c # b => (Owns(bufs'[c]) <=> Owns(bufs[c]))
  BY <1>1
<1>4. Owns(y) => {c \in Buffers : Owns(bufs'[c])}
                   = {c \in Buffers : Owns(bufs[c])} \cup {b}
  BY <1>1, <1>3
<1>5. (Owns(y) <=> Owns(bufs[b]))
        => {c \in Buffers : Owns(bufs'[c])} = {c \in Buffers : Owns(bufs[c])}
  BY <1>1, <1>3
<1>. QED
  BY <1>1, <1>2, <1>4, <1>5 DEF Queue!Does

\* A call other than EnsureWritableBytes promises nothing.
LEMMA DoneKeepsOrder ==
  ASSUME BufInv, NEW b \in Buffers, NEW y, NEW call, Done(b, y, call),
         \/ call[1] # "ensure"
         \/ call[2] = b /\ call[3] \in Nat /\ call[3] <= WritableBytes(y)
  PROVE  BufInv'
<1>1. /\ bufs'[b] = y /\ \A c \in Buffers : c # b => bufs'[c] = bufs[c]
      /\ bufs' \in [Buffers -> Members]
  BY DEF Done, BufInv, Good
<1>2. \A c \in Buffers : Good(bufs'[c])
  BY <1>1 DEF Done, BufInv
<1>3. Ensured'
  BY <1>1 DEF Done, Ensured
<1>. QED
  BY <1>1, <1>2, <1>3 DEF BufInv

\* The lengths and strings that clients pass.
LEMMA StringsAreSequences ==
  ASSUME NEW n \in Nat, NEW s \in Strings(n)
  PROVE  s \in Seq(Bytes) /\ Len(s) = n
BY DEF Strings

\* The strings that clients pass are arguments of the byte queues' operations.
LEMMA StringsAreArguments ==
  ASSUME NEW n \in Lens, NEW s \in Strings(n)
  PROVE  s \in Queue!Args
BY DEF Strings, Lens, Queue!Args

\* A buffer without storage has room for more than a client ever writes.
LEMMA MovedFromBelievesInRoom ==
  ASSUME NEW x, Good(x), ~Owns(x), NEW n \in Lens
  PROVE  /\ x = MovedFrom /\ ReadableBytes(x) = 0 /\ ~(WritableBytes(x) < n)
         /\ WritableBytes(x) \in Nat
<1>1. x = MovedFrom
  BY DEF Good
<1>2. Len(<<>>) = 0
  OBVIOUS
<1>3. x.data = <<>> /\ x.readIndex = kPrependSize /\ x.writeIndex = kPrependSize
  BY <1>1 DEF MovedFrom
<1>4. WritableBytes(x) = (0 - kPrependSize) % Word
  BY <1>2, <1>3 DEF WritableBytes
<1>5. /\ kPrependSize \in Nat /\ kPrependSize > 0 /\ Word \in Nat
      /\ Word > kPrependSize + MaxLen /\ n \in Nat /\ n <= MaxLen /\ MaxLen \in Nat
  BY BufferAssumption DEF Lens
<1>6. (0 - kPrependSize) % Word = Word - kPrependSize
  BY <1>5, SMT
<1>7. (kPrependSize - kPrependSize) % Word = 0
  BY <1>5, SMT
<1>. QED
  BY <1>1, <1>3, <1>4, <1>5, <1>6, <1>7 DEF ReadableBytes

\* Writing nothing changes nothing.
LEMMA WriteNothing ==
  ASSUME NEW x, Good(x), NEW s \in Seq(Cells), Len(s) = 0
  PROVE  WriteAt(x, s) = x
<1>1. PICK d, r, w : x = Built(d, r, w)
  BY MembersOf DEF Built
<1>2. x.data = d /\ x.writeIndex = w
  BY <1>1 DEF Built
<1>3. d \in Seq(Cells) /\ w \in Nat /\ Len(d) \in Nat
  BY <1>2, MembersOf
<1>. DEFINE e == Overwrite(d, w, s)
<1>4. /\ e \in Seq(Cells) /\ Len(e) = Len(d)
      /\ \A i \in 1 .. Len(d) : e[i] = IF i \in w + 1 .. w + Len(s) THEN s[i - w] ELSE d[i]
  BY <1>3, OverwriteElements
<1>. HIDE DEF e
<1>5. \A i \in 1 .. Len(e) : e[i] = d[i]
  BY <1>3, <1>4
<1>6. e = d
  BY <1>3, <1>4, <1>5, SeqEqual
<1>7. WriteAt(x, s) = [Built(d, r, w) EXCEPT !.data = d]
  BY <1>1, <1>2, <1>6 DEF WriteAt, e
<1>. QED
  BY <1>1, <1>7 DEF Built

\* An empty string given to a buffer without storage.
LEMMA NothingToMovedFrom ==
  ASSUME NEW x, Good(x), ~Owns(x), NEW s \in Seq(Bytes), s = <<>>
  PROVE  /\ Appended(x, s) = x /\ HasWritten(WriteAt(x, s), 0) = x /\ Prepend(x, s) = x
         /\ Content(x) = <<>> /\ Content(x) \o s = Content(x) /\ s \o Content(x) = Content(x)
<1>1. s \in Seq(Cells) /\ Len(s) = 0 /\ 0 \in Lens
  BY BufferAssumption DEF Cells, Lens
<1>2. /\ x = MovedFrom /\ ~(WritableBytes(x) < 0) /\ WritableBytes(x) \in Nat
  BY <1>1, MovedFromBelievesInRoom
<1>3. Content(x) = <<>>
  BY <1>2, NewAndMovedFrom
<1>4. EnsureWritableBytes(x, 0) = x
  BY <1>2 DEF EnsureWritableBytes
<1>5. WriteAt(x, s) = x
  BY <1>1, WriteNothing
<1>6. HasWritten(x, 0) = x
  <2>1. HasWritten(x, 0) = [x EXCEPT !.writeIndex = @ + 0]
    BY <1>2 DEF HasWritten
  <2>. QED
    BY <1>2, <2>1, BufferAssumption DEF MovedFrom
<1>7. Appended(x, s) = x
  BY <1>1, <1>4, <1>5, <1>6 DEF Appended
<1>8. Prepend(x, s) = x
  <2>1. Overwrite(<<>>, kPrependSize - Len(s), s) = <<>>
    BY <1>1, BufferAssumption DEF Overwrite
  <2>2. kPrependSize - Len(s) = kPrependSize
    BY <1>1, BufferAssumption
  <2>3. x = Built(<<>>, kPrependSize, kPrependSize)
    BY <1>2 DEF MovedFrom, Built
  <2>4. Prepend(x, s) = [Built(<<>>, kPrependSize, kPrependSize) EXCEPT
                           !.readIndex = kPrependSize, !.data = <<>>]
    BY <2>1, <2>2, <2>3 DEF Prepend, Built
  <2>. QED
    BY <2>3, <2>4 DEF Built
<1>. QED
  BY <1>1, <1>3, <1>5, <1>6, <1>7, <1>8

\* Append appends its bytes, or ends the process.
LEMMA AppendServes ==
  ASSUME BufInv, called[1] # "crash", NEW b \in Buffers, DoAppend(b)
  PROVE  Serves
<1>. DEFINE x == bufs[b]
            c == Content(x)
<1>0. PICK n \in Adds(b) : \E s \in Strings(n) :
        Write(b, s, Appended(x, s), <<"append", b, s>>)
  BY DEF DoAppend
<1>1. PICK s \in Strings(n) : Write(b, s, Appended(x, s), <<"append", b, s>>)
  BY <1>0
<1>2. Good(x) /\ ReadableBytes(x) = x.writeIndex - x.readIndex
  BY SizesDoNotWrap DEF BufInv
<1>3. n \in Lens /\ n \in Nat /\ x.writeIndex - x.readIndex + n <= MaxReadable
  BY <1>2, BufferAssumption DEF Adds, Lens
<1>4. s \in Seq(Bytes) /\ Len(s) = n /\ s \in Queue!Args
  BY <1>3, StringsAreSequences, StringsAreArguments
<1>5. CASE called' = <<"crash", b>> /\ UNCHANGED bufs /\ ~Owns(x)
  <2>1. BufInv'
    BY <1>5 DEF BufInv, Ensured
  <2>2. Queue!Crash(b)
    BY <1>5 DEF Queue!Crash
  <2>. QED
    BY <2>1, <2>2 DEF Serves, Queue!ByteNext
<1>6. CASE (Owns(x) \/ s = <<>>) /\ Put(b, Appended(x, s), <<"append", b, s>>)
  <2>1. /\ Good(Appended(x, s)) /\ Content(Appended(x, s)) = c \o s
        /\ Owns(Appended(x, s)) <=> Owns(x)
    <3>1. CASE Owns(x)
      BY <1>2, <1>3, <1>4, <3>1, AppendAppends
    <3>2. CASE ~Owns(x)
      BY <1>2, <1>4, <1>6, <3>2, NothingToMovedFrom
    <3>. QED
      BY <3>1, <3>2
  <2>2. Done(b, Appended(x, s), <<"append", b, s>>)
    BY <1>6, <2>1 DEF Done, Put
  <2>3. BufInv'
    BY <2>2, DoneKeepsOrder
  <2>4. Queue!Extend(b, s)
    BY <1>6, <2>1, <2>2, DoneOnQueue DEF Queue!Extend, Queue!Writable
  <2>. QED
    BY <1>4, <2>3, <2>4 DEF Serves, Queue!ByteNext
<1>. QED
  BY <1>1, <1>5, <1>6 DEF Write

\* HasWritten takes the bytes that the client wrote, and turns a report down only
\* when there is no room for it.
LEMMA WrittenServes ==
  ASSUME BufInv, called[1] # "crash", NEW b \in Buffers, DoHasWritten(b)
  PROVE  Serves
<1>. DEFINE x == bufs[b]
            c == Content(x)
            y(s) == HasWritten(WriteAt(x, s), Len(s))
<1>0. PICK n \in Adds(b) :
        \/ /\ n <= WritableBytes(x)
           /\ \E s \in Strings(n) :
                Write(b, s, HasWritten(WriteAt(x, s), n), <<"written", b, s>>)
        \/ /\ n > WritableBytes(x)
           /\ Put(b, HasWritten(x, n), <<"refused", b, n>>)
  BY DEF DoHasWritten
<1>2. Good(x) /\ ReadableBytes(x) = x.writeIndex - x.readIndex
  BY SizesDoNotWrap DEF BufInv
<1>3. n \in Lens /\ n \in Nat /\ x.writeIndex - x.readIndex + n <= MaxReadable
  BY <1>2, BufferAssumption DEF Adds, Lens
<1>4. WritableBytes(x) \in Int /\ (Owns(x) => WritableBytes(x) = Len(x.data) - x.writeIndex)
  BY <1>2, MembersOf, SizesDoNotWrap, BufferAssumption DEF WritableBytes
<1>5. ASSUME NEW s \in Strings(n), n <= WritableBytes(x),
             Write(b, s, HasWritten(WriteAt(x, s), n), <<"written", b, s>>)
      PROVE  Serves
  <2>1. s \in Seq(Bytes) /\ Len(s) = n /\ s \in Queue!Args
    BY <1>3, StringsAreSequences, StringsAreArguments
  <2>2. CASE called' = <<"crash", b>> /\ UNCHANGED bufs /\ ~Owns(x)
    <3>1. BufInv'
      BY <2>2 DEF BufInv, Ensured
    <3>2. Queue!Crash(b)
      BY <2>2 DEF Queue!Crash
    <3>. QED
      BY <3>1, <3>2 DEF Serves, Queue!ByteNext
  <2>3. CASE (Owns(x) \/ s = <<>>) /\ Put(b, y(s), <<"written", b, s>>)
    <3>1. Good(y(s)) /\ Content(y(s)) = c \o s /\ (Owns(y(s)) <=> Owns(x))
      <4>1. CASE Owns(x)
        <5>1. x.writeIndex + Len(s) <= Len(x.data)
          BY <1>2, <1>3, <1>4, <1>5, <2>1, <4>1, MembersOf
        <5>. QED
          BY <1>2, <1>3, <2>1, <4>1, <5>1, WriteAppends
      <4>2. CASE ~Owns(x)
        BY <1>2, <2>1, <2>3, <4>2, NothingToMovedFrom
      <4>. QED
        BY <4>1, <4>2
    <3>. HIDE DEF y
    <3>2. Done(b, y(s), <<"written", b, s>>)
      BY <2>3, <3>1 DEF Done, Put
    <3>3. BufInv'
      BY <3>2, DoneKeepsOrder
    <3>4. Queue!Written(b, s)
      BY <2>3, <3>1, <3>2, DoneOnQueue DEF Queue!Written, Queue!Writable
    <3>. QED
      BY <2>1, <3>3, <3>4 DEF Serves, Queue!ByteNext
  <2>. QED
    BY <1>5, <2>1, <2>2, <2>3 DEF Write
<1>6. ASSUME n > WritableBytes(x), Put(b, HasWritten(x, n), <<"refused", b, n>>)
      PROVE  Serves
  <2>1. HasWritten(x, n) = x
    BY <1>3, <1>4, <1>6 DEF HasWritten
  <2>2. Done(b, x, <<"refused", b, n>>)
    BY <1>2, <1>6, <2>1 DEF Done, Put
  <2>3. BufInv'
    BY <2>2, DoneKeepsOrder
  <2>4. ~(called[1] = "ensure" /\ called[2] = b /\ n <= called[3])
    BY <1>3, <1>4, <1>6 DEF BufInv, Ensured
  <2>5. Queue!Refused(b, n)
    BY <2>2, <2>4, DoneOnQueue DEF Queue!Refused
  <2>. QED
    BY <1>3, <2>3, <2>5 DEF Serves, Queue!ByteNext, Lens
<1>. QED
  BY <1>0, <1>5, <1>6

\* Prepend puts its bytes in front, or ends the process.
LEMMA PrependServes ==
  ASSUME BufInv, called[1] # "crash", NEW b \in Buffers, DoPrepend(b)
  PROVE  Serves
<1>. DEFINE x == bufs[b]
            c == Content(x)
<1>0. PICK n \in Adds(b) :
        /\ n <= PrependableBytes(x)
        /\ \E s \in Strings(n) : Write(b, s, Prepend(x, s), <<"prepend", b, s>>)
  BY DEF DoPrepend
<1>1. PICK s \in Strings(n) : Write(b, s, Prepend(x, s), <<"prepend", b, s>>)
  BY <1>0
<1>2. Good(x) /\ ReadableBytes(x) = x.writeIndex - x.readIndex
  BY SizesDoNotWrap DEF BufInv
<1>3. n \in Lens /\ n \in Nat /\ x.writeIndex - x.readIndex + n <= MaxReadable
  BY <1>2, BufferAssumption DEF Adds, Lens
<1>4. s \in Seq(Bytes) /\ Len(s) = n /\ s \in Queue!Args /\ Len(s) <= x.readIndex
  BY <1>0, <1>3, StringsAreSequences, StringsAreArguments DEF PrependableBytes
<1>5. CASE called' = <<"crash", b>> /\ UNCHANGED bufs /\ ~Owns(x)
  <2>1. BufInv'
    BY <1>5 DEF BufInv, Ensured
  <2>2. Queue!Crash(b)
    BY <1>5 DEF Queue!Crash
  <2>. QED
    BY <2>1, <2>2 DEF Serves, Queue!ByteNext
<1>6. CASE (Owns(x) \/ s = <<>>) /\ Put(b, Prepend(x, s), <<"prepend", b, s>>)
  <2>1. /\ Good(Prepend(x, s)) /\ Content(Prepend(x, s)) = s \o c
        /\ Owns(Prepend(x, s)) <=> Owns(x)
    <3>1. CASE Owns(x)
      BY <1>2, <1>3, <1>4, <3>1, PrependPrepends
    <3>2. CASE ~Owns(x)
      BY <1>2, <1>4, <1>6, <3>2, NothingToMovedFrom
    <3>. QED
      BY <3>1, <3>2
  <2>2. Done(b, Prepend(x, s), <<"prepend", b, s>>)
    BY <1>6, <2>1 DEF Done, Put
  <2>3. BufInv'
    BY <2>2, DoneKeepsOrder
  <2>4. Queue!Prepend(b, s)
    BY <1>6, <2>1, <2>2, DoneOnQueue DEF Queue!Prepend, Queue!Writable
  <2>. QED
    BY <1>4, <2>3, <2>4 DEF Serves, Queue!ByteNext
<1>. QED
  BY <1>1, <1>5, <1>6 DEF Write

\* Making room and giving new storage change no byte; the room is there.
LEMMA StorageServes ==
  ASSUME BufInv, called[1] # "crash", NEW b \in Buffers, DoEnsure(b) \/ DoShrink(b)
  PROVE  Serves
<1>. DEFINE x == bufs[b]
            c == Content(x)
<1>0. Good(x) /\ Lens \subseteq Nat /\ Lens = 0 .. MaxLen
  BY BufferAssumption DEF BufInv, Lens
<1>1. CASE DoEnsure(b)
  <2>0. PICK n \in Lens : Put(b, EnsureWritableBytes(x, n), <<"ensure", b, n>>)
    BY <1>1 DEF DoEnsure
  <2>. DEFINE y == EnsureWritableBytes(x, n)
  <2>1. /\ Good(y) /\ Content(y) = c /\ (Owns(y) <=> Owns(x)) /\ n <= WritableBytes(y)
    <3>1. CASE Owns(x)
      <4>1. /\ Good(y) /\ Owns(y) /\ Content(y) = c /\ y.writeIndex + n <= Len(y.data)
        BY <1>0, <3>1, EnsureKeeps
      <4>. HIDE DEF y
      <4>2. /\ WritableBytes(y) = Len(y.data) - y.writeIndex
            /\ Len(y.data) \in Nat /\ y.writeIndex \in Nat /\ n \in Nat
        BY <1>0, <4>1, SizesDoNotWrap, MembersOf
      <4>. QED
        BY <3>1, <4>1, <4>2
    <3>2. CASE ~Owns(x)
      <4>1. ~(WritableBytes(x) < n) /\ WritableBytes(x) \in Nat /\ n \in Nat
        BY <1>0, <3>2, MovedFromBelievesInRoom
      <4>2. y = x
        BY <4>1 DEF EnsureWritableBytes
      <4>. QED
        BY <1>0, <4>1, <4>2
    <3>. QED
      BY <3>1, <3>2
  <2>. HIDE DEF y
  <2>2. Done(b, y, <<"ensure", b, n>>)
    BY <2>0, <2>1 DEF Done, Put, y
  <2>3. BufInv'
    BY <1>0, <2>1, <2>2, DoneKeepsOrder
  <2>4. Queue!Ensure(b, n)
    BY <2>1, <2>2, DoneOnQueue DEF Queue!Ensure
  <2>. QED
    BY <1>0, <2>3, <2>4 DEF Serves, Queue!ByteNext
<1>2. CASE DoShrink(b)
  <2>0. PICK n \in Lens : Put(b, Shrink(x, n), <<"shrink", b, n>>)
    BY <1>2 DEF DoShrink
  <2>1. Good(Shrink(x, n)) /\ Content(Shrink(x, n)) = c /\ Owns(Shrink(x, n))
    BY <1>0, ShrinkKeeps
  <2>2. Done(b, Shrink(x, n), <<"shrink", b, n>>)
    BY <2>0, <2>1 DEF Done, Put
  <2>3. BufInv'
    BY <2>2, DoneKeepsOrder
  <2>4. Queue!Shrink(b, n)
    BY <2>1, <2>2, DoneOnQueue DEF Queue!Shrink
  <2>. QED
    BY <1>0, <2>3, <2>4 DEF Serves, Queue!ByteNext
<1>. QED
  BY <1>1, <1>2

\* The calls that take bytes take those in front, as many as they are asked for.
LEMMA RetrieveServes ==
  ASSUME BufInv, called[1] # "crash", NEW b \in Buffers, DoRetrieve(b) \/ DoRetrieveAll(b)
  PROVE  Serves
<1>. DEFINE x == bufs[b]
            c == Content(x)
<1>0. Good(x) /\ Lens \subseteq Nat /\ Lens = 0 .. MaxLen
  BY BufferAssumption DEF BufInv, Lens
<1>1. CASE DoRetrieve(b)
  <2>0. PICK n \in Lens : Put(b, Retrieve(x, n), <<"retrieve", b, n>>)
    BY <1>1 DEF DoRetrieve
  <2>1. /\ Good(Retrieve(x, n)) /\ Content(Retrieve(x, n)) = Queue!Drop(c, n)
        /\ Owns(Retrieve(x, n)) <=> Owns(x)
    BY <1>0, RetrieveConsumes DEF Dropped, Queue!Drop
  <2>2. Done(b, Retrieve(x, n), <<"retrieve", b, n>>)
    BY <2>0, <2>1 DEF Done, Put
  <2>3. BufInv'
    BY <2>2, DoneKeepsOrder
  <2>4. Queue!Retrieve(b, n)
    BY <2>1, <2>2, DoneOnQueue DEF Queue!Retrieve
  <2>. QED
    BY <1>0, <2>3, <2>4 DEF Serves, Queue!ByteNext
<1>2. CASE DoRetrieveAll(b)
  <2>1. /\ Good(RetrieveAll(x)) /\ Content(RetrieveAll(x)) = <<>>
        /\ Owns(RetrieveAll(x)) <=> Owns(x)
    BY <1>0, RetrieveAllEmpties
  <2>2. Done(b, RetrieveAll(x), <<"all", b>>)
    BY <1>2, <2>1 DEF Done, Put, DoRetrieveAll
  <2>3. BufInv'
    BY <2>2, DoneKeepsOrder
  <2>4. Queue!RetrieveAll(b)
    BY <2>1, <2>2, DoneOnQueue DEF Queue!RetrieveAll
  <2>. QED
    BY <2>3, <2>4 DEF Serves, Queue!ByteNext
<1>. QED
  BY <1>1, <1>2

\* The line that is taken ends at the first line end of the readable bytes.
LEMMA TakeLineServes ==
  ASSUME BufInv, called[1] # "crash", NEW b \in Buffers, DoTakeLine(b)
  PROVE  Serves
<1>. DEFINE x == bufs[b]
            c == Content(x)
            r == x.readIndex
            w == x.writeIndex
            d == x.data
<1>0. /\ Good(x) /\ r \in Nat /\ w \in Nat /\ r <= w
      /\ Len(c) = w - r /\ \A i \in 1 .. w - r : c[i] = d[r + i]
  BY MembersOf, ContentElements DEF BufInv, Good
<1>. HIDE DEF c, r, w, d
<1>a. ASSUME NEW i \in 1 .. w - r, NEW k \in {0, 1}, NEW eol \in {"LF", "CRLF"},
             i + k <= w - r, k = 0 <=> eol = "LF",
             Queue!EndsAt(c, eol, i), \A o \in 1 .. i - 1 : ~Queue!EndsAt(c, eol, o),
             Put(b, RetrieveUntil(x, r + i + k), <<"line", b, eol>>)
      PROVE  Serves
  <2>. DEFINE y == RetrieveUntil(x, r + i + k)
  <2>1. /\ r + i + k \in Int /\ r <= r + i + k /\ r + i + k <= w
        /\ (r + i + k) - r = IF eol = "LF" THEN i ELSE i + 1
        /\ i \in 1 .. Len(c)
    BY <1>0, <1>a
  <2>2. /\ Good(y) /\ (Owns(y) <=> Owns(x))
        /\ Content(y) = Queue!Drop(c, IF eol = "LF" THEN i ELSE i + 1)
    <3>1. /\ Good(y) /\ (Owns(y) <=> Owns(x))
          /\ Content(y) = Dropped(c, (r + i + k) - r)
      BY <1>0, <2>1, RetrieveUntilConsumes DEF c, r, w
    <3>. QED
      BY <2>1, <3>1 DEF Dropped, Queue!Drop
  <2>. HIDE DEF y
  <2>3. Done(b, y, <<"line", b, eol>>)
    BY <1>a, <2>2 DEF Done, Put, y
  <2>4. BufInv'
    BY <2>3, DoneKeepsOrder
  <2>5. Queue!Does(b, Queue!Drop(c, IF eol = "LF" THEN i ELSE i + 1), <<"line", b, eol>>)
    BY <2>2, <2>3, DoneOnQueue
  <2>6. Queue!TakeLine(b, eol)
    BY <1>a, <2>1, <2>2, <2>3, <2>5, DoneOnQueue DEF Queue!TakeLine, c
  <2>. QED
    BY <1>a, <2>4, <2>6 DEF Serves, Queue!ByteNext
<1>1. ASSUME NEW p \in FindCRLF(x, r),
             Put(b, RetrieveUntil(x, p + 2), <<"line", b, "CRLF">>)
      PROVE  Serves
  <2>. DEFINE i == p - r + 1
  <2>1. /\ p \in r .. w - 2 /\ d[p + 1] = CR /\ d[p + 2] = LF
        /\ \A q \in r .. w - 2 : d[q + 1] = CR /\ d[q + 2] = LF => p <= q
    BY <1>1 DEF FindCRLF, CRLFs, r, w, d
  <2>2. /\ i \in 1 .. w - r /\ i + 1 \in 1 .. w - r /\ r + i + 1 = p + 2
        /\ r + i = p + 1 /\ r + (i + 1) = p + 2 /\ i < Len(c) /\ i + 1 <= w - r
    BY <1>0, <2>1
  <2>3. Queue!EndsAt(c, "CRLF", i)
    BY <1>0, <2>1, <2>2 DEF Queue!EndsAt
  <2>4. ASSUME NEW o \in 1 .. i - 1 PROVE ~Queue!EndsAt(c, "CRLF", o)
    <3>1. /\ o \in 1 .. w - r /\ o + 1 \in 1 .. w - r /\ r + o - 1 \in r .. w - 2
          /\ ~(p <= r + o - 1) /\ (r + o - 1) + 1 = r + o /\ (r + o - 1) + 2 = r + (o + 1)
      BY <1>0, <2>1, <2>2
    <3>2. ~(d[r + o] = CR /\ d[r + (o + 1)] = LF)
      BY <2>1, <3>1
    <3>. QED
      BY <1>0, <3>1, <3>2 DEF Queue!EndsAt
  <2>. HIDE DEF i
  <2>. QED
    BY <1>1, <1>a, <2>2, <2>3, <2>4
<1>2. ASSUME NEW p \in FindEOL(x), Put(b, RetrieveUntil(x, p + 1), <<"line", b, "LF">>)
      PROVE  Serves
  <2>. DEFINE i == p - r + 1
  <2>1. /\ p \in r .. w - 1 /\ d[p + 1] = LF
        /\ \A q \in r .. w - 1 : d[q + 1] = LF => p <= q
    BY <1>2 DEF FindEOL, EOLs, r, w, d
  <2>2. /\ i \in 1 .. w - r /\ r + i + 0 = p + 1 /\ r + i = p + 1 /\ i <= Len(c)
        /\ i + 0 <= w - r
    BY <1>0, <2>1
  <2>3. Queue!EndsAt(c, "LF", i)
    BY <1>0, <2>1, <2>2 DEF Queue!EndsAt
  <2>4. ASSUME NEW o \in 1 .. i - 1 PROVE ~Queue!EndsAt(c, "LF", o)
    <3>1. /\ o \in 1 .. w - r /\ r + o - 1 \in r .. w - 1
          /\ ~(p <= r + o - 1) /\ (r + o - 1) + 1 = r + o
      BY <1>0, <2>1, <2>2
    <3>2. d[r + o] # LF
      BY <2>1, <3>1
    <3>. QED
      BY <1>0, <3>1, <3>2 DEF Queue!EndsAt
  <2>. HIDE DEF i
  <2>. QED
    BY <1>2, <1>a, <2>2, <2>3, <2>4
<1>. QED
  BY <1>1, <1>2 DEF DoTakeLine, r

\* A move hands the bytes and the storage over.
LEMMA MoveServes ==
  ASSUME BufInv, called[1] # "crash", NEW b \in Buffers, NEW c \in Buffers, DoMove(b, c)
  PROVE  Serves
<1>1. /\ b # c /\ called' = <<"move", b, c>>
      /\ bufs' \in [Buffers -> Members]
      /\ bufs'[b] = bufs[c] /\ bufs'[c] = MovedFrom
      /\ \A a \in Buffers \ {b, c} : bufs'[a] = bufs[a]
  BY NewAndMovedFrom DEF DoMove, BufInv, Good
<1>2. BufInv'
  <2>1. \A a \in Buffers : Good(bufs'[a])
    BY <1>1, NewAndMovedFrom DEF BufInv
  <2>2. Ensured'
    BY <1>1 DEF Ensured
  <2>. QED
    BY <1>1, <2>1, <2>2 DEF BufInv
<1>3. [a \in Buffers |-> Content(bufs'[a])]
        = [[a \in Buffers |-> Content(bufs[a])] EXCEPT ![b] = Content(bufs[c]), ![c] = <<>>]
  BY <1>1, NewAndMovedFrom
<1>4. {a \in Buffers : Owns(bufs'[a])}
        = ({a \in Buffers : Owns(bufs[a])} \ {b, c})
            \cup IF c \in {a \in Buffers : Owns(bufs[a])} THEN {b} ELSE {}
  <2>1. /\ Owns(bufs'[b]) <=> Owns(bufs[c])
        /\ ~Owns(bufs'[c])
        /\ \A a \in Buffers \ {b, c} : Owns(bufs'[a]) <=> Owns(bufs[a])
    BY <1>1, NewAndMovedFrom
  <2>. QED
    BY <1>1, <2>1
<1>5. Queue!Move(b, c)
  BY <1>1, <1>3, <1>4 DEF Queue!Move
<1>. QED
  BY <1>2, <1>5 DEF Serves, Queue!ByteNext

\* Every step is a call that serves its client.
LEMMA EveryCallServes == BufInv /\ Next => Serves
BY AppendServes, WrittenServes, PrependServes, StorageServes, RetrieveServes,
   TakeLineServes, MoveServes DEF Next

\* Every call leaves every buffer in order.
LEMMA BufInvStep == BufInv /\ [Next]_bufferVars => BufInv'
<1>1. BufInv /\ UNCHANGED bufferVars => BufInv'
  BY DEF BufInv, Ensured, bufferVars
<1>. QED
  BY <1>1, EveryCallServes DEF Serves

\* A new buffer satisfies the invariant.
LEMMA BufInvInit == Init => BufInv
<1>1. Good(New(InitialSize)) /\ New(InitialSize) \in Members
  BY NewAndMovedFrom DEF Good
<1>. QED
  BY <1>1 DEF Init, BufInv, Ensured

\* The invariant holds of every behaviour.
LEMMA BufInvariant == Spec => []BufInv
BY BufInvInit, BufInvStep, PTL DEF Spec

\* Whatever is written, prepended, read, shrunk and moved, the indices stay in
\* order and no size wraps around, makeSpace copies towards the front only, the
\* storage stays within its bound, and no stale byte is taken for a line end:
\* for any sizes that a size_t can hold.
THEOREM StorageSound == Spec => []StorageIsSound
<1>1. BufInv => StorageIsSound
  <2>. SUFFICES ASSUME BufInv PROVE StorageIsSound
    OBVIOUS
  <2>1. TypeOK
    BY DEF BufInv, Good, TypeOK, MovedFrom
  <2>2. CompactionIsForward
    <3>. SUFFICES ASSUME NEW b \in Buffers, NEW len \in Lens, Owns(bufs[b]),
                         WritableBytes(bufs[b]) < len, ~MustGrow(bufs[b], len)
                  PROVE  bufs[b].readIndex >= kPrependSize
      BY DEF CompactionIsForward
    <3>1. Good(bufs[b])
      BY DEF BufInv
    <3>2. WritableBytes(bufs[b]) = Len(bufs[b].data) - bufs[b].writeIndex
      BY <3>1, SizesDoNotWrap
    <3>3. /\ Len(bufs[b].data) \in Nat /\ bufs[b].writeIndex \in Nat
          /\ bufs[b].readIndex \in Nat /\ len \in Nat /\ kPrependSize \in Nat
      BY <3>1, MembersOf, BufferAssumption DEF Lens
    <3>. QED
      BY <3>2, <3>3 DEF MustGrow, PrependableBytes
  <2>3. CapacityIsBounded
    BY DEF BufInv, Good, CapacityIsBounded
  <2>4. LineEndIsReadable
    <3>. SUFFICES ASSUME NEW b \in Buffers,
                         NEW p \in FindCRLF(bufs[b], bufs[b].readIndex)
                  PROVE  p + 2 <= bufs[b].writeIndex
      BY DEF LineEndIsReadable
    <3>1. bufs[b].readIndex \in Nat /\ bufs[b].writeIndex \in Nat
      BY MembersOf DEF BufInv
    <3>2. p \in bufs[b].readIndex .. bufs[b].writeIndex - 2
      BY DEF FindCRLF, CRLFs
    <3>. QED
      BY <3>1, <3>2
  <2>. QED
    BY <2>1, <2>2, <2>3, <2>4 DEF StorageIsSound
<1>. QED
  BY <1>1, BufInvariant, PTL

-----------------------------------------------------------------------------
(* The refinement. *)

\* The buffers implement byte queues: every call does to the readable bytes what
\* its name and arguments stand for, whatever growing, compacting, shrinking and
\* moving happens underneath, so nothing a client wrote is lost, doubled,
\* reordered or mixed with the stale bytes around it.
THEOREM BufferImplementsByteQueue == Spec => ImplementsByteQueue
<1>. DEFINE content == [b \in Buffers |-> Content(bufs[b])]
            usable == {b \in Buffers : Owns(bufs[b])}
<1>1. Init => Queue!ByteInit
  BY NewAndMovedFrom DEF Init, Queue!ByteInit
<1>2. BufInv /\ [Next]_bufferVars => [Queue!ByteNext]_<<content, usable, called>>
  <2>1. UNCHANGED bufferVars => UNCHANGED <<content, usable, called>>
    BY DEF bufferVars
  <2>. QED
    BY <2>1, EveryCallServes DEF Serves
<1>. QED
  BY <1>1, <1>2, BufInvariant, PTL DEF Spec, ImplementsByteQueue, Queue!ByteSpec

-----------------------------------------------------------------------------
(* The timers. *)

Positions == {"none", "test", "arm", "asleep", "woken", "expired", "fire",
              "calling", "done"}

TypeInv ==
  /\ mStop \in BOOLEAN
  /\ thread \in Positions
  /\ isLoop \in BOOLEAN
  /\ terminated \in BOOLEAN
  /\ calls \in 0 .. Cap /\ cancelled \in BOOLEAN /\ lateCalls \in 0 .. Cap

\* Once Cancel has returned m_Stop stays set as long as the process runs: only
\* AsyncWait resets it, which then ends the process or starts a new thread.
CancelLasts == cancelled /\ ~terminated => mStop

\* A late call was begun by a thread that was between its last test and the call;
\* from then on it only finds m_Stop set.
LateIsLast ==
  /\ lateCalls <= 1
  /\ lateCalls > 0 => cancelled /\ thread \in {"calling", "test", "done"}

TimerInv == TypeInv /\ CancelLasts /\ LateIsLast

\* What the owner does keeps the invariant.
LEMMA OwnerKeeps ==
  ASSUME TimerInv, \/ \E loop \in BOOLEAN : AsyncWait(loop)
                   \/ Cancel \/ Wait \/ WaitEnd \/ Destroy \/ DestroyJoin
  PROVE  TimerInv'
<1> USE DEF TimerInv, TypeInv, CancelLasts, LateIsLast, Positions, Cap
<1>1. ASSUME NEW loop \in BOOLEAN, AsyncWait(loop)
      PROVE  TimerInv'
  <2>1. CASE thread = "none"
    <3>1. /\ mStop' = FALSE /\ thread' = "test" /\ isLoop' = loop /\ calls' = 0
          /\ cancelled' = FALSE /\ lateCalls' = 0 /\ UNCHANGED terminated
      BY <1>1, <2>1 DEF AsyncWait
    <3>2. 0 \in 0 .. Cap /\ terminated \in BOOLEAN
      OBVIOUS
    <3>3. TypeInv'
      <4> HIDE DEF Cap
      <4> QED BY <3>1, <3>2, Zenon
    <3>4. CancelLasts' /\ LateIsLast'
      BY <3>1
    <3> QED BY <3>3, <3>4
  <2>2. CASE thread # "none"
    BY <1>1, <2>2 DEF AsyncWait, InUse
  <2> QED BY <2>1, <2>2
<1>2. CASE Cancel
  BY <1>2 DEF Cancel, StopAndNotify, Notified
<1>3. CASE Wait
  BY <1>3 DEF Wait
<1>4. CASE WaitEnd
  BY <1>4 DEF WaitEnd, history
<1>5. CASE Destroy
  BY <1>5 DEF Destroy, StopAndNotify, Notified
<1>6. CASE DestroyJoin
  BY <1>6 DEF DestroyJoin, history
<1> QED BY <1>1, <1>2, <1>3, <1>4, <1>5, <1>6

\* What the thread does keeps the invariant.
LEMMA ThreadKeeps ==
  ASSUME TimerInv, ThreadStep \/ Expire \/ SpuriousWakeup
  PROVE  TimerInv'
<1> USE DEF TimerInv, TypeInv, CancelLasts, LateIsLast, Positions, Cap, Go
<1>1. CASE ThreadTest
  BY <1>1 DEF ThreadTest
<1>2. CASE ThreadWait
  BY <1>2 DEF ThreadWait
<1>3. CASE Expire \/ SpuriousWakeup
  BY <1>3 DEF Expire, SpuriousWakeup
<1>4. CASE ThreadExpired
  BY <1>4 DEF ThreadExpired
<1>5. CASE ThreadFire
  <2>1. lateCalls = 0
    BY <1>5 DEF ThreadFire
  <2> QED BY <1>5, <2>1 DEF ThreadFire, Inc
<1>6. CASE ThreadReturn
  BY <1>6 DEF ThreadReturn
<1> QED BY <1>1, <1>2, <1>3, <1>4, <1>5, <1>6 DEF ThreadStep

\* After Cancel has returned func is begun at most once more, in a loop or not.
THEOREM TimerAtMostOneLateCall == TimerSpec => []AtMostOneLateCall
<1>1. TimerInit => TimerInv
  <2> SUFFICES ASSUME TimerInit PROVE TimerInv
    OBVIOUS
  <2>1. TypeInv
    <3>1. /\ mStop = TRUE /\ thread = "none" /\ isLoop = FALSE /\ terminated = FALSE
          /\ calls = 0 /\ cancelled = FALSE /\ lateCalls = 0
      BY DEF TimerInit
    <3>2. 0 \in 0 .. Cap
      BY DEF Cap
    <3> QED BY <3>1, <3>2, Zenon DEF TypeInv, Positions
  <2>2. CancelLasts /\ LateIsLast
    BY DEF TimerInit, CancelLasts, LateIsLast
  <2> QED BY <2>1, <2>2 DEF TimerInv
<1>2. TimerInv /\ [TimerNext]_timerVars => TimerInv'
  <2> SUFFICES ASSUME TimerInv, [TimerNext]_timerVars PROVE TimerInv'
    OBVIOUS
  <2>1. CASE UNCHANGED timerVars
    BY <2>1 DEF timerVars, TimerInv, TypeInv, CancelLasts, LateIsLast
  <2> QED BY <2>1, OwnerKeeps, ThreadKeeps DEF TimerNext
<1>3. TimerInv => AtMostOneLateCall
  BY DEF TimerInv, LateIsLast, AtMostOneLateCall
<1> QED BY <1>1, <1>2, <1>3, PTL DEF TimerSpec

-----------------------------------------------------------------------------
(* MultiTaskTimer. *)

MultiType ==
  /\ tasks \subseteq Tasks
  /\ DOMAIN due = Tasks
  /\ runner \in [Runners -> {"out", "loop", "asleep", "calling", "after"}]
  /\ DOMAIN until = Runners
  /\ job \in [Runners -> SUBSET Tasks]

\* The type of the state, and the property itself: a runner goes to sleep only
\* with the earliest due time at hand, and one that sleeps is woken by Add.
MultiInv == MultiType /\ EarliestIsWatched

\* Every step keeps the invariant: a runner that is at work leaves nothing to
\* watch, and one that goes to sleep has the earliest due time at hand.
LEMMA MultiStep ==
  ASSUME MultiInv, [MultiNext]_multiVars
  PROVE  MultiInv'
<1> USE DEF MultiInv, MultiType
<1>a. ASSUME UNCHANGED <<tasks, due, runner, until, job>>
      PROVE  MultiInv'
  BY <1>a DEF EarliestIsWatched, Active
<1>b. ASSUME NEW r \in Runners, runner'[r] \notin {"out", "asleep"}
      PROVE  EarliestIsWatched'
  BY <1>b DEF EarliestIsWatched
<1>1. CASE Tick
  BY <1>a, <1>1 DEF Tick
<1>2. ASSUME NEW k \in Tasks, NEW d \in Delays, Add(k, d)
      PROVE  MultiInv'
  <2>1. MultiType'
    BY <1>2 DEF Add, NotifyOne
  <2>2. EarliestIsWatched'
    <3>1. CASE \E r \in Runners : runner'[r] = "loop"
      BY <3>1, <1>b
    <3>2. CASE UNCHANGED runner /\ \A r \in Runners : runner[r] # "asleep"
      BY <3>2 DEF EarliestIsWatched, Active
    <3> QED BY <1>2, <3>1, <3>2 DEF Add, NotifyOne
  <2> QED BY <2>1, <2>2
<1>3. ASSUME NEW r \in Runners,
             Run(r) \/ WakeUp(r) \/ WakeSpuriously(r) \/ Callback(r)
      PROVE  MultiInv'
  <2>1. MultiType' /\ runner'[r] \in {"loop", "after"}
    BY <1>3 DEF Run, WakeUp, WakeSpuriously, Callback
  <2> QED BY <1>b, <2>1
<1>4. ASSUME NEW r \in Runners, RunTest(r)
      PROVE  MultiInv'
  <2>1. MultiType' /\ (tasks' = {} \/ runner'[r] = "loop")
    BY <1>4 DEF RunTest
  <2>2. tasks' = {} => EarliestIsWatched'
    BY DEF EarliestIsWatched
  <2> QED BY <1>b, <2>1, <2>2
<1>5. ASSUME NEW r \in Runners, RunLocked(r)
      PROVE  MultiInv'
  <2>1. CASE \E k \in Top : /\ tasks' = tasks \ {k}
                              /\ job' = [job EXCEPT ![r] = {k}]
                              /\ runner' = [runner EXCEPT ![r] = "calling"]
                              /\ UNCHANGED <<until, due>>
    <3>1. MultiType' /\ runner'[r] = "calling"
      BY <2>1 DEF Top
    <3> QED BY <1>b, <3>1
  <2>2. CASE \E k \in Top : /\ until' = [until EXCEPT ![r] = due[k]]
                              /\ runner' = [runner EXCEPT ![r] = "asleep"]
                              /\ UNCHANGED <<tasks, job, due>>
    <3>1. PICK k \in Top : /\ until' = [until EXCEPT ![r] = due[k]]
                             /\ runner' = [runner EXCEPT ![r] = "asleep"]
                             /\ UNCHANGED <<tasks, job, due>>
      BY <2>2
    <3>2. MultiType'
      BY <3>1
    <3>3. runner'[r] = "asleep" /\ until'[r] = due[k]
      BY <3>1
    <3>4. \A j \in tasks' : until'[r] <= due'[j]
      BY <3>1, <3>3 DEF Top
    <3>5. EarliestIsWatched'
      BY <3>3, <3>4 DEF EarliestIsWatched
    <3> QED BY <3>2, <3>5
  <2>3. CASE /\ tasks = {}
             /\ until' = [until EXCEPT ![r] = Never]
             /\ runner' = [runner EXCEPT ![r] = "asleep"]
             /\ UNCHANGED <<tasks, job, due>>
    BY <2>3 DEF EarliestIsWatched
  <2> QED BY <1>5, <2>1, <2>2, <2>3 DEF RunLocked
<1>6. CASE UNCHANGED multiVars
  BY <1>a, <1>6 DEF multiVars
<1> QED
  BY <1>1, <1>2, <1>3, <1>4, <1>5, <1>6 DEF MultiNext, RunStep

\* The type and the property hold at first and always.
LEMMA MultiInvariant == MultiSpec => []MultiInv
<1>1. MultiInit => MultiInv
  BY DEF MultiInit, MultiInv, MultiType, EarliestIsWatched
<1> QED BY <1>1, MultiStep, PTL DEF MultiSpec

\* When all runners of MultiTaskTimer sleep beside queued tasks, one of them
\* sleeps no longer than until the earliest due time.
THEOREM TimerEarliestIsWatched == MultiSpec => []EarliestIsWatched
BY MultiInvariant, PTL DEF MultiInv

\* No callback of MultiTaskTimer is called before its time, and of the queued
\* tasks the one that is due first is taken first.
THEOREM TimerTakesInDueOrder == MultiSpec => TakenInDueOrder
<1>1. MultiInv /\ [MultiNext]_multiVars =>
        [\A r \in Runners : \A k \in job'[r] \ job[r] :
           due[k] <= now /\ \A j \in tasks : due[k] <= due[j]]_multiVars
  <2> SUFFICES ASSUME MultiInv, MultiNext, NEW r \in Runners, NEW k \in job'[r] \ job[r]
               PROVE  due[k] <= now /\ \A j \in tasks : due[k] <= due[j]
    OBVIOUS
  <2>1. PICK s \in Runners : RunLocked(s) \/ Callback(s)
    BY DEF MultiNext, Tick, Add, Run, RunStep, WakeUp, RunTest,
           WakeSpuriously
  <2>2. job'[r] \ job[r] = {} \/ \E t \in Top : IsDue(t) /\ job'[r] \subseteq {t}
    BY <2>1 DEF RunLocked, Callback, MultiInv, MultiType
  <2> QED BY <2>2 DEF Top, IsDue
<1> QED BY <1>1, MultiInvariant, PTL DEF MultiSpec, TakenInDueOrder

-----------------------------------------------------------------------------
(* Base64: the encoders of Codecs, whose integers the theorems leave open. *)
CONSTANTS ByteBase, Width, HeaderSize

C == INSTANCE Codecs

Byte == 0 .. 255
Value == 0 .. 63
Nibble == 0 .. 15

\* The number that four digits make, or three bytes.
Number64(d1, d2, d3, d4) ==
  d1 * C!Weights64[1] + d2 * C!Weights64[2] + d3 * C!Weights64[3] + d4
Number256(a, b, c) == a * C!Weights256[1] + b * C!Weights256[2] + c

\* Every value has a digit, which is not the padding, and only one.
LEMMA DigitOfValue ==
  ASSUME NEW v \in Value
  PROVE  /\ C!Alphabet[v] \in Byte
         /\ C!decode_value(C!Alphabet[v]) = v
         /\ C!Alphabet[v] # C!Pad
<1>1. \E c \in 0 .. 255 : C!decode_value(c) = v
  <2>1. CASE v < 26
    <3>1. C!decode_value(v + 65) = v BY <2>1 DEF C!decode_value, Value
    <3>. QED BY <2>1, <3>1 DEF Value
  <2>2. CASE 26 <= v /\ v < 52
    <3>1. C!decode_value(v + 71) = v BY <2>2 DEF C!decode_value, Value
    <3>. QED BY <2>2, <3>1 DEF Value
  <2>3. CASE 52 <= v /\ v < 62
    <3>1. C!decode_value(v - 4) = v BY <2>3 DEF C!decode_value, Value
    <3>. QED BY <2>3, <3>1 DEF Value
  <2>4. CASE v = 62
    <3>1. C!decode_value(43) = v BY <2>4 DEF C!decode_value, Value
    <3>. QED BY <3>1
  <2>5. CASE v = 63
    <3>1. C!decode_value(47) = v BY <2>5 DEF C!decode_value, Value
    <3>. QED BY <3>1
  <2>. QED BY <2>1, <2>2, <2>3, <2>4, <2>5 DEF Value
<1>2. C!Alphabet[v] = CHOOSE c \in 0 .. 255 : C!decode_value(c) = v
  BY DEF C!Alphabet, Value
<1>3. C!Alphabet[v] \in 0 .. 255 /\ C!decode_value(C!Alphabet[v]) = v
  BY <1>1, <1>2
<1>4. C!decode_value(C!Pad) = C!Invalid
  BY DEF C!decode_value, C!Pad
<1>. QED
  BY <1>3, <1>4 DEF C!Invalid, Byte, Value

\* Every digit has a value, and is the digit of that value.
LEMMA ValueOfDigit ==
  ASSUME NEW c \in Byte, C!IsBase64Char(c)
  PROVE  /\ C!decode_value(c) \in Value
         /\ C!Alphabet[C!decode_value(c)] = c
         /\ c # C!Pad
<1>1. C!decode_value(c) \in Value
  BY DEF C!IsBase64Char, C!decode_value, C!Invalid, Byte, Value
<1>2. ASSUME NEW d \in Byte, C!decode_value(d) = C!decode_value(c) PROVE d = c
  BY <1>1, <1>2 DEF C!decode_value, C!Invalid, Byte, Value
<1>3. c # C!Pad
  BY DEF C!IsBase64Char, C!decode_value, C!Invalid, C!Pad
<1>. QED
  BY <1>1, <1>2, <1>3, DigitOfValue

\* A number of 24 bits in digits of 64.
LEMMA DigitsOf24 ==
  ASSUME NEW v \in Nat, v < 64 * 64 * 64 * 64
  PROVE  /\ \A k \in 1 .. 4 : C!Digit64(v, k) \in Value
         /\ Number64(C!Digit64(v, 1), C!Digit64(v, 2), C!Digit64(v, 3), C!Digit64(v, 4)) = v
<1>1. /\ C!Weights64[1] = 64 * 64 * 64 /\ C!Weights64[2] = 64 * 64
      /\ C!Weights64[3] = 64 /\ C!Weights64[4] = 1
  BY DEF C!Weights64
<1>2. /\ C!Digit64(v, 1) = (v \div (64 * 64 * 64)) % 64 /\ C!Digit64(v, 2) = (v \div (64 * 64)) % 64
      /\ C!Digit64(v, 3) = (v \div 64) % 64 /\ C!Digit64(v, 4) = (v \div 1) % 64
  BY <1>1 DEF C!Digit64
<1>3. \A k \in 1 .. 4 : C!Digit64(v, k) \in Value
  BY <1>2 DEF Value
<1>4. PICK a, b, c \in Nat, d \in Value :
        /\ a = v \div (64 * 64 * 64) /\ b = v \div (64 * 64)
        /\ c = v \div 64 /\ d = v % 64
  BY SMT DEF Value
<1>5. v = c * 64 + d
  BY <1>4 DEF Value
<1>6. b = c \div 64 /\ a = b \div 64 /\ v \div 1 = v
  BY <1>4, SMT DEF Value
<1>7. c = b * 64 + (c % 64) /\ b = a * 64 + (b % 64) /\ a % 64 = a
  BY <1>4, <1>6, SMT DEF Value
<1>8. PICK b1 \in Value, c1 \in Value : b1 = b % 64 /\ c1 = c % 64
  BY SMT DEF Value
<1>9. a * (64 * 64 * 64) + b1 * (64 * 64) + c1 * 64 + d = v
  BY <1>5, <1>7, <1>8, SMT DEF Value
<1>10. /\ C!Digit64(v, 1) = a /\ C!Digit64(v, 2) = b1 /\ C!Digit64(v, 3) = c1 /\ C!Digit64(v, 4) = d
  BY <1>2, <1>4, <1>6, <1>7, <1>8
<1>. QED
  BY <1>1, <1>3, <1>9, <1>10 DEF Number64

\* Four digits of 64 make a number of 24 bits.
LEMMA DigitsMake24 ==
  ASSUME NEW d1 \in Value, NEW d2 \in Value, NEW d3 \in Value, NEW d4 \in Value
  PROVE  /\ Number64(d1, d2, d3, d4) \in Nat
         /\ Number64(d1, d2, d3, d4) < 64 * 64 * 64 * 64
         /\ Number64(d1, d2, d3, d4) = ((d1 * 64 + d2) * 64 + d3) * 64 + d4
<1>1. C!Weights64[1] = 64 * 64 * 64 /\ C!Weights64[2] = 64 * 64 /\ C!Weights64[3] = 64
  BY DEF C!Weights64
<1>2. Number64(d1, d2, d3, d4) = d1 * (64 * 64 * 64) + d2 * (64 * 64) + d3 * 64 + d4
  BY <1>1 DEF Number64, Value
<1>. QED
  BY <1>2, SMT DEF Value

\* The digits of that number are the ones it was made of.
LEMMA DigitsAreRead ==
  ASSUME NEW d1 \in Value, NEW d2 \in Value, NEW d3 \in Value, NEW d4 \in Value
  PROVE  /\ C!Digit64(Number64(d1, d2, d3, d4), 1) = d1
         /\ C!Digit64(Number64(d1, d2, d3, d4), 2) = d2
         /\ C!Digit64(Number64(d1, d2, d3, d4), 3) = d3
         /\ C!Digit64(Number64(d1, d2, d3, d4), 4) = d4
<1>. DEFINE v == Number64(d1, d2, d3, d4)
<1>1. /\ C!Weights64[1] = 64 * 64 * 64 /\ C!Weights64[2] = 64 * 64
      /\ C!Weights64[3] = 64 /\ C!Weights64[4] = 1
  BY DEF C!Weights64
<1>2. v \in Nat /\ v = ((d1 * 64 + d2) * 64 + d3) * 64 + d4
  BY DigitsMake24
<1>. HIDE DEF v
<1>3. PICK a, b, c \in Nat : a = d1 /\ b = a * 64 + d2 /\ c = b * 64 + d3 /\ v = c * 64 + d4
  BY <1>2, SMT DEF Value
<1>4. /\ v \div 64 = c /\ v \div (64 * 64) = b /\ v \div (64 * 64 * 64) = a /\ v \div 1 = v
      /\ v % 64 = d4 /\ c % 64 = d3 /\ b % 64 = d2 /\ a % 64 = d1
  BY <1>3, SMT DEF Value
<1>5. /\ C!Digit64(v, 1) = d1 /\ C!Digit64(v, 2) = d2
      /\ C!Digit64(v, 3) = d3 /\ C!Digit64(v, 4) = d4
  BY <1>1, <1>4 DEF C!Digit64
<1>. QED
  BY <1>5 DEF v

\* Three bytes are the bytes of the number they make.
LEMMA BytesAreRead ==
  ASSUME NEW a \in Byte, NEW b \in Byte, NEW c \in Byte
  PROVE  LET v == Number256(a, b, c) IN
         /\ v \in Nat /\ v < 64 * 64 * 64 * 64
         /\ (v \div C!Weights256[1]) % 256 = a
         /\ (v \div C!Weights256[2]) % 256 = b
         /\ (v \div C!Weights256[3]) % 256 = c
<1>. DEFINE v == Number256(a, b, c)
<1>1. C!Weights256[1] = 256 * 256 /\ C!Weights256[2] = 256 /\ C!Weights256[3] = 1
  BY DEF C!Weights256
<1>2. v \in Nat /\ v = (a * 256 + b) * 256 + c /\ v < 64 * 64 * 64 * 64
  BY <1>1 DEF Byte, Number256
<1>. HIDE DEF v
<1>3. PICK h \in Nat : h = a * 256 + b
  BY DEF Byte
<1>4. v \div (256 * 256) = a /\ v \div 256 = h /\ v % 256 = c /\ h % 256 = b /\ v \div 1 = v
  BY <1>2, <1>3, SMT DEF Byte
<1>5. a % 256 = a
  BY SMT DEF Byte
<1>. QED
  BY <1>1, <1>2, <1>4, <1>5 DEF v

\* The digits behind the last byte are zero, but for the bits of that byte.
LEMMA SpareBits ==
  ASSUME NEW a \in Byte, NEW b \in Byte, NEW c \in Byte
  PROVE  /\ c = 0 => /\ C!Digit64(Number256(a, b, c), 4) = 0
                     /\ C!Digit64(Number256(a, b, c), 3) % 4 = 0
         /\ b = 0 /\ c = 0 => /\ C!Digit64(Number256(a, b, c), 3) = 0
                              /\ C!Digit64(Number256(a, b, c), 2) % 16 = 0
<1>. DEFINE v == Number256(a, b, c)
<1>1. C!Weights256[1] = 256 * 256 /\ C!Weights256[2] = 256
  BY DEF C!Weights256
<1>2. /\ C!Weights64[2] = 64 * 64 /\ C!Weights64[3] = 64 /\ C!Weights64[4] = 1
  BY DEF C!Weights64
<1>3. v \in Nat /\ v = (a * 256 + b) * 256 + c
  BY <1>1 DEF Byte, Number256
<1>. HIDE DEF v
<1>4. /\ C!Digit64(v, 4) = v % 64 /\ C!Digit64(v, 3) = (v \div 64) % 64
      /\ C!Digit64(v, 2) = (v \div (64 * 64)) % 64
  <2>1. v \div 1 = v
    BY <1>3, SMT
  <2>. QED
    BY <1>2, <2>1 DEF C!Digit64
<1>5. c = 0 => v % 64 = 0 /\ ((v \div 64) % 64) % 4 = 0
  <2>1. PICK h \in Nat : h = a * 256 + b
    BY DEF Byte
  <2>2. c = 0 => v = 64 * (h * 4)
    BY <1>3, <2>1
  <2>3. c = 0 => v % 64 = 0 /\ v \div 64 = h * 4
    BY <2>2, SMT
  <2>4. (h * 4) % 64 = (h % 16) * 4 /\ ((h % 16) * 4) % 4 = 0
    BY SMT
  <2>. QED
    BY <2>3, <2>4
<1>6. b = 0 /\ c = 0 => (v \div 64) % 64 = 0 /\ ((v \div (64 * 64)) % 64) % 16 = 0
  BY <1>3, SMT DEF Byte
<1>. QED
  BY <1>4, <1>5, <1>6 DEF v

\* The bytes of a number of 24 bits make it; those whose digits are zero are zero.
LEMMA BytesOf24 ==
  ASSUME NEW v \in Nat, v < 64 * 64 * 64 * 64,
         NEW a, NEW b, NEW c,
         a = (v \div C!Weights256[1]) % 256,
         b = (v \div C!Weights256[2]) % 256,
         c = (v \div C!Weights256[3]) % 256
  PROVE  /\ a \in Byte /\ b \in Byte /\ c \in Byte
         /\ v = Number256(a, b, c)
         /\ C!Digit64(v, 4) = 0 /\ C!Digit64(v, 3) % 4 = 0 => c = 0
         /\ C!Digit64(v, 4) = 0 /\ C!Digit64(v, 3) = 0 /\ C!Digit64(v, 2) % 16 = 0
              => b = 0 /\ c = 0
<1>1. C!Weights256[1] = 256 * 256 /\ C!Weights256[2] = 256 /\ C!Weights256[3] = 1
  BY DEF C!Weights256
<1>2. /\ C!Weights64[1] = 64 * 64 * 64 /\ C!Weights64[2] = 64 * 64
      /\ C!Weights64[3] = 64 /\ C!Weights64[4] = 1
  BY DEF C!Weights64
<1>3. a = (v \div (256 * 256)) % 256 /\ b = (v \div 256) % 256 /\ c = v % 256
  BY <1>1, SMT
<1>4. /\ (v \div (256 * 256)) % 256 \in Byte /\ (v \div 256) % 256 \in Byte
      /\ v % 256 \in Byte
  BY SMT DEF Byte
<1>5. a = v \div (256 * 256)
  BY <1>3, SMT
<1>6. PICK h \in Nat : h = v \div 256
  BY SMT
<1>7. /\ v = h * 256 + (v % 256) /\ h = (h \div 256) * 256 + (h % 256)
      /\ h \div 256 = v \div (256 * 256)
  BY <1>6, SMT
<1>8. v = a * (256 * 256) + b * 256 + c
  <2>1. a \in Nat /\ b \in Nat /\ c \in Nat
    BY <1>3, <1>4 DEF Byte
  <2>2. v = h * 256 + c /\ h = a * 256 + b
    BY <1>3, <1>5, <1>6, <1>7
  <2>. QED
    BY <2>1, <2>2
<1>9. v % 64 = 0 /\ ((v \div 64) % 64) % 4 = 0 => c = 0
  BY <1>3, SMT
<1>10. v % 64 = 0 /\ (v \div 64) % 64 = 0 /\ ((v \div (64 * 64)) % 64) % 16 = 0 => b = 0 /\ c = 0
  BY <1>3, SMT
<1>11. /\ C!Digit64(v, 4) = v % 64 /\ C!Digit64(v, 3) = (v \div 64) % 64
       /\ C!Digit64(v, 2) = (v \div (64 * 64)) % 64
  BY <1>2, SMT DEF C!Digit64
<1>. QED
  BY <1>1, <1>3, <1>4, <1>8, <1>9, <1>10, <1>11 DEF Number256

\* What a position of a text contributes, and the number of a group of four.
DigitAt(t, i) == IF t[i] = C!Pad THEN 0 ELSE C!decode_value(t[i])
GroupOf(t, g) == Number64(DigitAt(t, 4*g + 1), DigitAt(t, 4*g + 2),
                          DigitAt(t, 4*g + 3), DigitAt(t, 4*g + 4))
ByteAt(data, i) == IF i <= Len(data) THEN data[i] ELSE 0

\* The text of a byte string, group by group.
LEMMA EncodeByGroups ==
  ASSUME NEW data \in Seq(Byte), NEW q \in Nat,
         3*q - 2 <= Len(data), Len(data) <= 3*q
  PROVE  /\ C!Encode(data) \in Seq(Byte) /\ Len(C!Encode(data)) = 4*q
         /\ \A g \in 0 .. (q - 1) :
              /\ C!Group24(data, 3*g + 1) \in Nat
              /\ C!Group24(data, 3*g + 1)
                   = Number256(ByteAt(data, 3*g + 1), ByteAt(data, 3*g + 2), ByteAt(data, 3*g + 3))
              /\ ByteAt(data, 3*g + 1) \in Byte /\ ByteAt(data, 3*g + 2) \in Byte
              /\ ByteAt(data, 3*g + 3) \in Byte
              /\ \A k \in 1 .. 4 :
                   C!Encode(data)[4*g + k] =
                     IF k > Len(data) - 3*g + 1 THEN C!Pad
                     ELSE C!Alphabet[C!Digit64(C!Group24(data, 3*g + 1), k)]
<1>1. Len(data) \in Nat /\ \A i \in 1 .. Len(data) : data[i] \in Byte
  OBVIOUS
<1>2. (Len(data) + 2) \div 3 = q
  BY <1>1, SMT
<1>. DEFINE digit(g, k) == IF k > Len(data) - 3*g + 1 THEN C!Pad
                           ELSE C!Alphabet[C!Digit64(C!Group24(data, 3*g + 1), k)]
<1>3. C!Encode(data) = [j \in 1 .. (4*q) |-> digit((j - 1) \div 4, ((j - 1) % 4) + 1)]
  BY <1>2 DEF C!Encode
<1>4. ASSUME NEW g \in 0 .. (q - 1)
      PROVE  /\ C!Group24(data, 3*g + 1) \in Nat
             /\ C!Group24(data, 3*g + 1)
                  = Number256(ByteAt(data, 3*g + 1), ByteAt(data, 3*g + 2), ByteAt(data, 3*g + 3))
             /\ ByteAt(data, 3*g + 1) \in Byte /\ ByteAt(data, 3*g + 2) \in Byte
             /\ ByteAt(data, 3*g + 3) \in Byte
             /\ \A k \in 1 .. 4 : digit(g, k) \in Byte
  <2>1. /\ ByteAt(data, 3*g + 1) \in Byte /\ ByteAt(data, 3*g + 2) \in Byte
        /\ ByteAt(data, 3*g + 3) \in Byte
    BY <1>1 DEF ByteAt, Byte
  <2>2. 3*g + 1 + 1 = 3*g + 2 /\ 3*g + 1 + 2 = 3*g + 3
    OBVIOUS
  <2>3. C!Group24(data, 3*g + 1)
          = Number256(ByteAt(data, 3*g + 1), ByteAt(data, 3*g + 2), ByteAt(data, 3*g + 3))
    BY <2>2 DEF C!Group24, ByteAt, Number256
  <2>5. /\ C!Group24(data, 3*g + 1) \in Nat
        /\ C!Group24(data, 3*g + 1) < 64 * 64 * 64 * 64
    BY <2>1, <2>3, BytesAreRead
  <2>7. ASSUME NEW k \in 1 .. 4 PROVE digit(g, k) \in Byte
    <3>1. C!Digit64(C!Group24(data, 3*g + 1), k) \in Value
      BY <2>5, DigitsOf24
    <3>2. C!Alphabet[C!Digit64(C!Group24(data, 3*g + 1), k)] \in Byte
      BY <3>1, DigitOfValue
    <3>3. C!Pad \in Byte
      BY DEF C!Pad, Byte
    <3>. QED
      BY <3>2, <3>3
  <2>. QED
    BY <2>1, <2>3, <2>5, <2>7
<1>5. \A j \in 1 .. (4*q) : (j - 1) \div 4 \in 0 .. (q - 1) /\ ((j - 1) % 4) + 1 \in 1 .. 4
  BY SMT
<1>. HIDE DEF digit
<1>6. C!Encode(data) \in Seq(Byte) /\ Len(C!Encode(data)) = 4*q
  <2>1. \A j \in 1 .. (4*q) : digit((j - 1) \div 4, ((j - 1) % 4) + 1) \in Byte
    BY <1>4, <1>5
  <2>2. C!Encode(data) \in [1 .. (4*q) -> Byte]
    BY <1>3, <2>1
  <2>. QED
    BY <2>2, IsASeq, LenProperties
<1>7. ASSUME NEW g \in 0 .. (q - 1), NEW k \in 1 .. 4
      PROVE  C!Encode(data)[4*g + k] = digit(g, k)
  <2>1. /\ 4*g + k \in 1 .. (4*q) /\ ((4*g + k) - 1) \div 4 = g
        /\ (((4*g + k) - 1) % 4) + 1 = k
    BY SMT
  <2>. QED
    BY <1>3, <2>1
<1>. QED
  BY <1>4, <1>6, <1>7 DEF digit

\* An accepted text, group by group: q groups of digits, p of them padding, at
\* its end only; the spare bits are zero; and the bytes it stands for.
PaddedAtEnd(t, q, p) ==
  \A g \in 0 .. (q - 1), k \in 1 .. 4 :
    IF 4*g + k <= 4*q - p THEN C!IsBase64Char(t[4*g + k]) ELSE t[4*g + k] = C!Pad
SpareIsZero(t, q, p) ==
  /\ p = 1 => DigitAt(t, 4*q - 1) % 4 = 0
  /\ p = 2 => DigitAt(t, 4*q - 2) % 16 = 0
AllDigits(t, q) == \A i \in 1 .. (4*q) : DigitAt(t, i) \in Value
StandsFor(t, q, p, bytes) ==
  /\ C!Decode(t) = [ok |-> TRUE, result |-> bytes]
  /\ bytes \in Seq(Byte) /\ Len(bytes) = 3*q - p
  /\ \A g \in 0 .. (q - 1), r \in 1 .. 3 :
       3*g + r <= 3*q - p => bytes[3*g + r] = (GroupOf(t, g) \div C!Weights256[r]) % 256

\* A text that IsBase64Encoded accepts has that form.
LEMMA AcceptedByGroups ==
  ASSUME NEW t \in Seq(Byte), t # <<>>, C!IsBase64Encoded(t)
  PROVE  \E q \in Nat \ {0}, p \in 0 .. 2 :
           /\ Len(t) = 4*q /\ p = C!Padding64(t)
           /\ PaddedAtEnd(t, q, p) /\ SpareIsZero(t, q, p) /\ AllDigits(t, q)
           /\ StandsFor(t, q, p, C!Decode(t).result)
<1>0. PICK p \in 0 .. 2 : p = C!Padding64(t)
  BY DEF C!Padding64
<1>1. /\ Len(t) \in Nat \ {0} /\ Len(t) % 4 = 0 /\ Len(t) > p
      /\ \A i \in 1 .. (Len(t) - p) : C!IsBase64Char(t[i])
      /\ C!CanonicalPad(t, p)
  BY <1>0, EmptySeq DEF C!IsBase64Encoded
<1>2. PICK q \in Nat \ {0} : Len(t) = 4*q /\ q = Len(t) \div 4
  BY <1>1, SMT
<1>3. /\ p >= 1 => t[4*q] = C!Pad
      /\ p = 2 => t[4*q - 1] = C!Pad
  BY <1>0, <1>2 DEF C!Padding64
<1>4. \A i \in 1 .. (4*q) : t[i] \in Byte
  BY <1>2
<1>5. \A i \in 1 .. (4*q - p) : C!IsBase64Char(t[i]) /\ t[i] # C!Pad
  BY <1>1, <1>2, <1>3, <1>4, ValueOfDigit
<1>6. ASSUME NEW g \in 0 .. (q - 1), NEW k \in 1 .. 4
      PROVE  IF 4*g + k <= 4*q - p THEN C!IsBase64Char(t[4*g + k]) ELSE t[4*g + k] = C!Pad
  <2>1. CASE 4*g + k <= 4*q - p
    BY <1>5, <2>1, <1>3
  <2>2. CASE 4*g + k > 4*q - p
    <3>1. 4*g + k = 4*q \/ (p = 2 /\ 4*g + k = 4*q - 1)
      BY <1>3, <2>2
    <3>. QED
      BY <1>3, <2>2, <3>1
  <2>. QED
    BY <2>1, <2>2, <1>3
<1>7. /\ p = 1 => DigitAt(t, 4*q - 1) % 4 = 0
      /\ p = 2 => DigitAt(t, 4*q - 2) % 16 = 0
  BY <1>1, <1>2, <1>5 DEF C!CanonicalPad, DigitAt
<1>. DEFINE byteof(j) == (GroupOf(t, (j - 1) \div 3) \div C!Weights256[((j - 1) % 3) + 1]) % 256
<1>8. C!Decode(t) = [ok |-> TRUE, result |-> [j \in 1 .. (3*q - p) |-> byteof(j)]]
  BY <1>0, <1>2 DEF C!Decode, GroupOf, DigitAt, Number64
<1>9. \A i \in 1 .. (4*q) : DigitAt(t, i) \in Value
  <2>1. ASSUME NEW i \in 1 .. (4*q) PROVE DigitAt(t, i) \in Value
    <3>1. CASE i <= 4*q - p
      <4>1. i \in 1 .. (4*q - p)
        BY <3>1
      <4>2. t[i] \in Byte /\ C!IsBase64Char(t[i]) /\ t[i] # C!Pad
        BY <1>4, <1>5, <4>1
      <4>. QED
        BY <4>2, ValueOfDigit DEF DigitAt
    <3>2. CASE i > 4*q - p
      <4>1. i = 4*q \/ (p = 2 /\ i = 4*q - 1)
        BY <3>2
      <4>2. t[i] = C!Pad
        BY <1>3, <3>2, <4>1
      <4>. QED
        BY <4>2 DEF DigitAt, Value
    <3>. QED
      BY <3>1, <3>2
  <2>. QED
    BY <2>1
<1>10. ASSUME NEW g \in 0 .. (q - 1), NEW r \in 1 .. 3
       PROVE  (GroupOf(t, g) \div C!Weights256[r]) % 256 \in Byte
  <2>1. /\ 4*g + 1 \in 1 .. (4*q) /\ 4*g + 2 \in 1 .. (4*q)
        /\ 4*g + 3 \in 1 .. (4*q) /\ 4*g + 4 \in 1 .. (4*q)
    OBVIOUS
  <2>2. /\ DigitAt(t, 4*g + 1) \in Value /\ DigitAt(t, 4*g + 2) \in Value
        /\ DigitAt(t, 4*g + 3) \in Value /\ DigitAt(t, 4*g + 4) \in Value
    BY <1>9, <2>1
  <2>3. GroupOf(t, g) \in Nat /\ GroupOf(t, g) < 64 * 64 * 64 * 64
    BY <2>2, DigitsMake24 DEF GroupOf
  <2>4. /\ (GroupOf(t, g) \div C!Weights256[1]) % 256 \in Byte
        /\ (GroupOf(t, g) \div C!Weights256[2]) % 256 \in Byte
        /\ (GroupOf(t, g) \div C!Weights256[3]) % 256 \in Byte
    BY <2>3, BytesOf24
  <2>. QED
    BY <2>4
<1>11. \A j \in 1 .. (3*q - p) : byteof(j) \in Byte
  <2>1. \A j \in 1 .. (3*q - p) : (j - 1) \div 3 \in 0 .. (q - 1) /\ ((j - 1) % 3) + 1 \in 1 .. 3
    BY SMT
  <2>. QED
    BY <1>10, <2>1
<1>12. ASSUME NEW g \in 0 .. (q - 1), NEW r \in 1 .. 3, 3*g + r <= 3*q - p
       PROVE  C!Decode(t).result[3*g + r] = (GroupOf(t, g) \div C!Weights256[r]) % 256
  <2>1. /\ 3*g + r \in 1 .. (3*q - p) /\ ((3*g + r) - 1) \div 3 = g
        /\ (((3*g + r) - 1) % 3) + 1 = r
    BY <1>12, SMT
  <2>2. byteof(3*g + r) = (GroupOf(t, g) \div C!Weights256[r]) % 256
    BY <2>1
  <2>. HIDE DEF byteof
  <2>. QED
    BY <1>8, <2>1, <2>2
<1>. HIDE DEF byteof
<1>13. C!Decode(t).result \in Seq(Byte) /\ Len(C!Decode(t).result) = 3*q - p
  <2>1. C!Decode(t).result \in [1 .. (3*q - p) -> Byte]
    BY <1>8, <1>11
  <2>2. 3*q - p \in Nat
    OBVIOUS
  <2>. QED
    BY <2>1, <2>2, IsASeq, LenProperties
<1>14. C!Decode(t) = [ok |-> TRUE, result |-> C!Decode(t).result]
  BY <1>8
<1>. QED
  <2>. WITNESS q \in Nat \ {0}, p \in 0 .. 2
  <2>. QED
    <3>1. PaddedAtEnd(t, q, p)
      BY <1>6 DEF PaddedAtEnd
    <3>2. SpareIsZero(t, q, p) /\ AllDigits(t, q)
      BY <1>7, <1>9 DEF SpareIsZero, AllDigits
    <3>3. StandsFor(t, q, p, C!Decode(t).result)
      BY <1>12, <1>13, <1>14 DEF StandsFor
    <3>. QED
      BY <1>0, <1>2, <3>1, <3>2, <3>3

\* How many groups a byte string has.
LEMMA GroupsOfBytes ==
  ASSUME NEW data \in Seq(Byte)
  PROVE  \E q \in Nat : 3*q - 2 <= Len(data) /\ Len(data) <= 3*q
<1>1. Len(data) \in Nat
  OBVIOUS
<1>2. PICK q \in Nat : q = (Len(data) + 2) \div 3
  BY <1>1, SMT
<1>. QED
  BY <1>1, <1>2, SMT

\* The digits of the text of a byte string, behind the last byte too.
LEMMA DigitsOfText ==
  ASSUME NEW data \in Seq(Byte), NEW q \in Nat,
         3*q - 2 <= Len(data), Len(data) <= 3*q,
         NEW g \in 0 .. (q - 1)
  PROVE  LET t == C!Encode(data)
             v == C!Group24(data, 3*g + 1)
         IN  /\ \A k \in 1 .. 4 :
                  /\ IF k > Len(data) - 3*g + 1 THEN t[4*g + k] = C!Pad
                     ELSE C!IsBase64Char(t[4*g + k])
                  /\ DigitAt(t, 4*g + k) = C!Digit64(v, k)
             /\ GroupOf(t, g) = v
<1>. DEFINE t == C!Encode(data)
            v == C!Group24(data, 3*g + 1)
            x1 == ByteAt(data, 3*g + 1)
            x2 == ByteAt(data, 3*g + 2)
            x3 == ByteAt(data, 3*g + 3)
<1>1. /\ v = Number256(x1, x2, x3) /\ v \in Nat
      /\ x1 \in Byte /\ x2 \in Byte /\ x3 \in Byte
      /\ \A k \in 1 .. 4 : t[4*g + k] = IF k > Len(data) - 3*g + 1 THEN C!Pad
                                        ELSE C!Alphabet[C!Digit64(v, k)]
  BY EncodeByGroups
<1>2. Len(data) \in Nat
  OBVIOUS
<1>3. Len(data) - 3*g < 3 => x3 = 0
  BY <1>2 DEF ByteAt
<1>4. Len(data) - 3*g < 2 => x2 = 0 /\ x3 = 0
  BY <1>2 DEF ByteAt
<1>5. Len(data) - 3*g >= 1
  BY <1>2
<1>. HIDE DEF t, v, x1, x2, x3
<1>6. /\ v < 64 * 64 * 64 * 64
      /\ x3 = 0 => C!Digit64(v, 4) = 0
      /\ x2 = 0 /\ x3 = 0 => C!Digit64(v, 3) = 0
  <2>1. /\ Number256(x1, x2, x3) < 64 * 64 * 64 * 64
    BY <1>1, BytesAreRead
  <2>2. /\ x3 = 0 => C!Digit64(Number256(x1, x2, x3), 4) = 0
        /\ x2 = 0 /\ x3 = 0 => C!Digit64(Number256(x1, x2, x3), 3) = 0
    BY <1>1, SpareBits
  <2>. QED
    BY <1>1, <2>1, <2>2
<1>7. \A k \in 1 .. 4 : C!Digit64(v, k) \in Value
  BY <1>1, <1>6, DigitsOf24
<1>8. ASSUME NEW k \in 1 .. 4
      PROVE  /\ IF k > Len(data) - 3*g + 1 THEN t[4*g + k] = C!Pad
                ELSE C!IsBase64Char(t[4*g + k])
             /\ DigitAt(t, 4*g + k) = C!Digit64(v, k)
  <2>1. CASE k > Len(data) - 3*g + 1
    <3>1. t[4*g + k] = C!Pad
      BY <1>1, <2>1
    <3>2. C!Digit64(v, k) = 0
      <4>1. k = 4 \/ k = 3
        BY <1>2, <1>5, <2>1
      <4>2. k = 4 => C!Digit64(v, 4) = 0
        BY <1>2, <1>3, <1>6, <2>1
      <4>3. k = 3 => C!Digit64(v, 3) = 0
        BY <1>2, <1>4, <1>6, <2>1
      <4>. QED
        BY <4>1, <4>2, <4>3
    <3>. QED
      BY <2>1, <3>1, <3>2 DEF DigitAt
  <2>2. CASE ~(k > Len(data) - 3*g + 1)
    <3>1. t[4*g + k] = C!Alphabet[C!Digit64(v, k)]
      BY <1>1, <2>2
    <3>2. /\ t[4*g + k] # C!Pad /\ C!decode_value(t[4*g + k]) = C!Digit64(v, k)
          /\ C!Digit64(v, k) \in Value
      BY <1>7, <3>1, DigitOfValue
    <3>3. C!IsBase64Char(t[4*g + k])
      <4>1. \A d \in Value : d # C!Invalid
        BY DEF C!Invalid, Value
      <4>. QED
        BY <3>2, <4>1 DEF C!IsBase64Char
    <3>4. DigitAt(t, 4*g + k) = C!Digit64(v, k)
      BY <3>2 DEF DigitAt
    <3>. QED
      BY <2>2, <3>3, <3>4
  <2>. QED
    BY <2>1, <2>2
<1>9. GroupOf(t, g) = v
  <2>1. /\ DigitAt(t, 4*g + 1) = C!Digit64(v, 1) /\ DigitAt(t, 4*g + 2) = C!Digit64(v, 2)
        /\ DigitAt(t, 4*g + 3) = C!Digit64(v, 3) /\ DigitAt(t, 4*g + 4) = C!Digit64(v, 4)
    BY <1>8
  <2>. QED
    BY <1>1, <1>6, <2>1, DigitsOf24 DEF GroupOf
<1>. QED
  BY <1>8, <1>9 DEF t, v

\* A position of a text is one of the four of a group.
LEMMA DigitInGroup ==
  ASSUME NEW q \in Nat, NEW i \in 1 .. (4*q)
  PROVE  \E g \in 0 .. (q - 1), k \in 1 .. 4 : i = 4*g + k
<1>1. PICK g \in Int, k \in Int : g = (i - 1) \div 4 /\ k = ((i - 1) % 4) + 1
  BY SMT
<1>2. g \in 0 .. (q - 1) /\ k \in 1 .. 4 /\ i = 4*g + k
  BY <1>1, SMT
<1>. QED
  BY <1>2

\* The text of a byte string is accepted: it is padded at its end, and the bits
\* behind the last byte are zero.
LEMMA TextIsAccepted ==
  ASSUME NEW data \in Seq(Byte), NEW q \in Nat \ {0},
         3*q - 2 <= Len(data), Len(data) <= 3*q
  PROVE  /\ C!IsBase64Encoded(C!Encode(data))
         /\ C!Padding64(C!Encode(data)) = 3*q - Len(data)
<1>. DEFINE t == C!Encode(data)
            v == C!Group24(data, 3*(q - 1) + 1)
<1>1. t \in Seq(Byte) /\ Len(t) = 4*q /\ Len(data) \in Nat
  BY EncodeByGroups
<1>2. q - 1 \in 0 .. (q - 1)
  OBVIOUS
<1>3. ASSUME NEW g \in 0 .. (q - 1), NEW k \in 1 .. 4
      PROVE  /\ IF k > Len(data) - 3*g + 1 THEN t[4*g + k] = C!Pad
                ELSE C!IsBase64Char(t[4*g + k])
             /\ DigitAt(t, 4*g + k) = C!Digit64(C!Group24(data, 3*g + 1), k)
  BY DigitsOfText
<1>4. /\ v = Number256(ByteAt(data, 3*(q - 1) + 1), ByteAt(data, 3*(q - 1) + 2),
                       ByteAt(data, 3*(q - 1) + 3))
      /\ ByteAt(data, 3*(q - 1) + 1) \in Byte /\ ByteAt(data, 3*(q - 1) + 2) \in Byte
      /\ ByteAt(data, 3*(q - 1) + 3) \in Byte
  BY <1>2, EncodeByGroups
<1>5. /\ Len(data) < 3*q => C!Digit64(v, 3) % 4 = 0
      /\ Len(data) < 3*q - 1 => C!Digit64(v, 2) % 16 = 0
  <2>1. /\ Len(data) < 3*q => ByteAt(data, 3*(q - 1) + 3) = 0
        /\ Len(data) < 3*q - 1 => ByteAt(data, 3*(q - 1) + 2) = 0
    BY <1>1 DEF ByteAt
  <2>2. Len(data) < 3*q - 1 => Len(data) < 3*q
    BY <1>1
  <2>. HIDE DEF v
  <2>. QED
    BY <1>4, <2>1, <2>2, SpareBits
<1>. HIDE DEF t, v
<1>6. \A i \in 1 .. (4*q - (3*q - Len(data))) : C!IsBase64Char(t[i]) /\ t[i] # C!Pad
  <2>. SUFFICES ASSUME NEW i \in 1 .. (4*q - (3*q - Len(data)))
                PROVE  C!IsBase64Char(t[i]) /\ t[i] # C!Pad
    OBVIOUS
  <2>1. PICK g \in 0 .. (q - 1), k \in 1 .. 4 : i = 4*g + k
    <3>1. i \in 1 .. (4*q)
      BY <1>1
    <3>. QED
      BY <3>1, DigitInGroup
  <2>2. ~(k > Len(data) - 3*g + 1)
    BY <1>1, <2>1
  <2>3. C!IsBase64Char(t[i])
    BY <1>3, <2>1, <2>2
  <2>4. t[i] \in Byte
    BY <1>1, <2>1, ElementOfSeq
  <2>. QED
    BY <2>3, <2>4, ValueOfDigit
<1>7. /\ Len(data) < 3*q => t[4*q] = C!Pad
      /\ Len(data) < 3*q - 1 => t[4*q - 1] = C!Pad
      /\ DigitAt(t, 4*q - 1) = C!Digit64(v, 3)
      /\ DigitAt(t, 4*q - 2) = C!Digit64(v, 2)
  <2>1. 4*(q - 1) + 4 = 4*q /\ 4*(q - 1) + 3 = 4*q - 1 /\ 4*(q - 1) + 2 = 4*q - 2
    OBVIOUS
  <2>2. /\ Len(data) < 3*q => 4 > Len(data) - 3*(q - 1) + 1
        /\ Len(data) < 3*q - 1 => 3 > Len(data) - 3*(q - 1) + 1
    BY <1>1
  <2>3. /\ 4 > Len(data) - 3*(q - 1) + 1 => t[4*(q - 1) + 4] = C!Pad
        /\ 3 > Len(data) - 3*(q - 1) + 1 => t[4*(q - 1) + 3] = C!Pad
        /\ DigitAt(t, 4*(q - 1) + 3) = C!Digit64(v, 3)
        /\ DigitAt(t, 4*(q - 1) + 2) = C!Digit64(v, 2)
    <3>1. PICK g \in 0 .. (q - 1) : g = q - 1
      BY <1>2
    <3>2. /\ 4 > Len(data) - 3*g + 1 => t[4*g + 4] = C!Pad
          /\ 3 > Len(data) - 3*g + 1 => t[4*g + 3] = C!Pad
          /\ DigitAt(t, 4*g + 3) = C!Digit64(C!Group24(data, 3*g + 1), 3)
          /\ DigitAt(t, 4*g + 2) = C!Digit64(C!Group24(data, 3*g + 1), 2)
      BY <1>3
    <3>. QED
      BY <3>1, <3>2 DEF v
  <2>. QED
    BY <2>1, <2>2, <2>3
<1>8. C!Padding64(t) = 3*q - Len(data)
  <2>1. CASE Len(data) = 3*q
    BY <1>1, <1>6, <2>1 DEF C!Padding64
  <2>2. CASE Len(data) = 3*q - 1
    BY <1>1, <1>6, <1>7, <2>2 DEF C!Padding64
  <2>3. CASE Len(data) = 3*q - 2
    BY <1>1, <1>6, <1>7, <2>3 DEF C!Padding64
  <2>. QED
    BY <1>1, <2>1, <2>2, <2>3
<1>9. C!CanonicalPad(t, 3*q - Len(data))
  <2>1. 3*q - Len(data) = 1 => C!decode_value(t[4*q - 1]) % 4 = 0
    BY <1>1, <1>5, <1>6, <1>7 DEF DigitAt
  <2>2. 3*q - Len(data) = 2 => C!decode_value(t[4*q - 2]) % 16 = 0
    BY <1>1, <1>5, <1>6, <1>7 DEF DigitAt
  <2>. QED
    BY <1>1, <2>1, <2>2 DEF C!CanonicalPad
<1>10. C!IsBase64Encoded(t)
  <2>1. Len(t) % 4 = 0 /\ Len(t) > 3*q - Len(data)
    BY <1>1
  <2>. QED
    BY <1>1, <1>6, <1>8, <1>9, <2>1 DEF C!IsBase64Encoded
<1>. QED
  BY <1>8, <1>10 DEF t

\* The texts of the empty byte string.
LEMMA EmptyText ==
  /\ C!Encode(<<>>) = <<>>
  /\ C!Decode(<<>>) = [ok |-> TRUE, result |-> <<>>]
  /\ C!IsBase64Encoded(<<>>)
<1>1. <<>> \in Seq(Byte) /\ Len(<<>>) = 0
  BY EmptySeq
<1>2. 3*0 - 2 <= 0 /\ 0 <= 3*0 /\ 4*0 = 0
  OBVIOUS
<1>3. C!Encode(<<>>) \in Seq(Byte) /\ Len(C!Encode(<<>>)) = 0
  BY <1>1, <1>2, EncodeByGroups
<1>4. C!Encode(<<>>) = <<>>
  BY <1>3, EmptySeq
<1>. QED
  BY <1>4 DEF C!Decode, C!IsBase64Encoded

\* A position of a byte string is one of the three of a group.
LEMMA PositionInGroup ==
  ASSUME NEW q \in Nat, NEW j \in 1 .. (3*q)
  PROVE  \E g \in 0 .. (q - 1), r \in 1 .. 3 : j = 3*g + r
<1>1. PICK g \in Int, r \in Int : g = (j - 1) \div 3 /\ r = ((j - 1) % 3) + 1
  BY SMT
<1>2. g \in 0 .. (q - 1) /\ r \in 1 .. 3 /\ j = 3*g + r
  BY <1>1, SMT
<1>. QED
  BY <1>2

\* Base64 decoding undoes encoding, for every byte string (Base64::Encode and
\* Base64::Decode of base64.hpp).
THEOREM Base64RoundTrip ==
  ASSUME NEW data \in Seq(0 .. 255)
  PROVE  C!Decode(C!Encode(data)) = [ok |-> TRUE, result |-> data]
<1>0. data \in Seq(Byte)
  BY DEF Byte
<1>1. CASE data = <<>>
  BY <1>1, EmptyText
<1>2. CASE data # <<>>
  <2>. DEFINE t == C!Encode(data)
              got == C!Decode(t).result
  <2>1. Len(data) \in Nat \ {0}
    BY <1>0, <1>2, EmptySeq
  <2>2. PICK q \in Nat : 3*q - 2 <= Len(data) /\ Len(data) <= 3*q
    BY <1>0, GroupsOfBytes
  <2>3. q \in Nat \ {0}
    BY <2>1, <2>2
  <2>4. t \in Seq(Byte) /\ Len(t) = 4*q
    BY <1>0, <2>2, EncodeByGroups
  <2>5. C!IsBase64Encoded(t) /\ C!Padding64(t) = 3*q - Len(data)
    BY <1>0, <2>2, <2>3, TextIsAccepted
  <2>6. t # <<>>
    BY <2>3, <2>4, EmptySeq
  <2>. HIDE DEF t
  <2>7. PICK n \in Nat \ {0}, p \in 0 .. 2 :
          Len(t) = 4*n /\ p = C!Padding64(t) /\ StandsFor(t, n, p, got)
    BY <2>4, <2>5, <2>6, AcceptedByGroups
  <2>. HIDE DEF got
  <2>8. n = q /\ Len(got) = Len(data) /\ 3*q - p = Len(data)
    <3>1. n = q
      BY <2>3, <2>4, <2>7
    <3>2. Len(got) = 3*n - p
      BY <2>7 DEF StandsFor
    <3>. QED
      BY <2>1, <2>5, <2>7, <3>1, <3>2
  <2>9. ASSUME NEW j \in 1 .. Len(got) PROVE got[j] = data[j]
    <3>1. j \in 1 .. (3*q) /\ j <= Len(data)
      BY <2>1, <2>2, <2>8
    <3>2. PICK g \in 0 .. (q - 1), r \in 1 .. 3 : j = 3*g + r
      BY <3>1, PositionInGroup
    <3>3. got[j] = (GroupOf(t, g) \div C!Weights256[r]) % 256
      <4>1. 3*g + r <= 3*q - p
        BY <2>8, <3>1, <3>2
      <4>2. StandsFor(t, q, p, got)
        BY <2>7, <2>8
      <4>. QED
        BY <3>2, <4>1, <4>2 DEF StandsFor
    <3>4. GroupOf(t, g) = C!Group24(data, 3*g + 1)
      BY <1>0, <2>2, DigitsOfText DEF t
    <3>5. /\ C!Group24(data, 3*g + 1)
               = Number256(ByteAt(data, 3*g + 1), ByteAt(data, 3*g + 2), ByteAt(data, 3*g + 3))
          /\ ByteAt(data, 3*g + 1) \in Byte /\ ByteAt(data, 3*g + 2) \in Byte
          /\ ByteAt(data, 3*g + 3) \in Byte
      BY <1>0, <2>2, EncodeByGroups
    <3>6. got[j] = ByteAt(data, 3*g + r)
      <4>1. /\ (C!Group24(data, 3*g + 1) \div C!Weights256[1]) % 256 = ByteAt(data, 3*g + 1)
            /\ (C!Group24(data, 3*g + 1) \div C!Weights256[2]) % 256 = ByteAt(data, 3*g + 2)
            /\ (C!Group24(data, 3*g + 1) \div C!Weights256[3]) % 256 = ByteAt(data, 3*g + 3)
        BY <3>5, BytesAreRead
      <4>2. r = 1 \/ r = 2 \/ r = 3
        OBVIOUS
      <4>. QED
        BY <3>3, <3>4, <4>1, <4>2
    <3>. QED
      BY <3>1, <3>2, <3>6 DEF ByteAt
  <2>10. got = data
    BY <1>0, <2>7, <2>8, <2>9, SeqEqual DEF StandsFor
  <2>. QED
    BY <2>7, <2>10 DEF t, StandsFor
<1>. QED
  BY <1>1, <1>2

\* IsBase64Encoded accepts exactly the texts that encoding their own decoding
\* gives back: every byte string has one accepted text, however long it is
\* (Base64::validate of base64.hpp, which rejects spare bits that are set).
THEOREM Base64IsCanonical ==
  ASSUME NEW text \in Seq(0 .. 255)
  PROVE  C!IsBase64Encoded(text) <=>
           C!Decode(text).ok /\ C!Encode(C!Decode(text).result) = text
<1>0. text \in Seq(Byte)
  BY DEF Byte
<1>1. CASE text = <<>>
  BY <1>1, EmptyText
<1>2. CASE ~C!IsBase64Encoded(text)
  BY <1>2 DEF C!Decode
<1>3. CASE C!IsBase64Encoded(text) /\ text # <<>>
  <2>. DEFINE got == C!Decode(text).result
  <2>1. PICK q \in Nat \ {0}, p \in 0 .. 2 :
          /\ Len(text) = 4*q
          /\ PaddedAtEnd(text, q, p) /\ SpareIsZero(text, q, p) /\ AllDigits(text, q)
          /\ StandsFor(text, q, p, got)
    BY <1>0, <1>3, AcceptedByGroups
  <2>0. got \in Seq(Byte) /\ Len(got) = 3*q - p
    BY <2>1 DEF StandsFor
  <2>. HIDE DEF got
  <2>2. /\ C!Encode(got) \in Seq(Byte) /\ Len(C!Encode(got)) = 4*q
        /\ \A g \in 0 .. (q - 1), k \in 1 .. 4 :
             C!Encode(got)[4*g + k] =
               IF k > Len(got) - 3*g + 1 THEN C!Pad
               ELSE C!Alphabet[C!Digit64(C!Group24(got, 3*g + 1), k)]
        /\ \A g \in 0 .. (q - 1) :
             C!Group24(got, 3*g + 1)
               = Number256(ByteAt(got, 3*g + 1), ByteAt(got, 3*g + 2), ByteAt(got, 3*g + 3))
    <3>1. 3*q - 2 <= Len(got) /\ Len(got) <= 3*q
      BY <2>0
    <3>. QED
      BY <2>0, <3>1, EncodeByGroups
  <2>3. ASSUME NEW g \in 0 .. (q - 1)
        PROVE  /\ C!Group24(got, 3*g + 1) = GroupOf(text, g)
               /\ \A k \in 1 .. 4 : C!Digit64(GroupOf(text, g), k) = DigitAt(text, 4*g + k)
    <3>. DEFINE w == GroupOf(text, g)
                w1 == (w \div C!Weights256[1]) % 256
                w2 == (w \div C!Weights256[2]) % 256
                w3 == (w \div C!Weights256[3]) % 256
    <3>1. /\ 4*g + 1 \in 1 .. (4*q) /\ 4*g + 2 \in 1 .. (4*q)
          /\ 4*g + 3 \in 1 .. (4*q) /\ 4*g + 4 \in 1 .. (4*q)
      OBVIOUS
    <3>2. /\ DigitAt(text, 4*g + 1) \in Value /\ DigitAt(text, 4*g + 2) \in Value
          /\ DigitAt(text, 4*g + 3) \in Value /\ DigitAt(text, 4*g + 4) \in Value
      BY <2>1, <3>1 DEF AllDigits
    <3>3. /\ w \in Nat /\ w < 64 * 64 * 64 * 64
          /\ C!Digit64(w, 1) = DigitAt(text, 4*g + 1) /\ C!Digit64(w, 2) = DigitAt(text, 4*g + 2)
          /\ C!Digit64(w, 3) = DigitAt(text, 4*g + 3) /\ C!Digit64(w, 4) = DigitAt(text, 4*g + 4)
      <4>1. w = Number64(DigitAt(text, 4*g + 1), DigitAt(text, 4*g + 2),
                         DigitAt(text, 4*g + 3), DigitAt(text, 4*g + 4))
        BY DEF GroupOf
      <4>. HIDE DEF w
      <4>2. /\ C!Digit64(w, 1) = DigitAt(text, 4*g + 1)
            /\ C!Digit64(w, 2) = DigitAt(text, 4*g + 2)
            /\ C!Digit64(w, 3) = DigitAt(text, 4*g + 3)
            /\ C!Digit64(w, 4) = DigitAt(text, 4*g + 4)
        BY <3>2, <4>1, DigitsAreRead
      <4>3. w \in Nat /\ w < 64 * 64 * 64 * 64
        BY <3>2, <4>1, DigitsMake24
      <4>. QED
        BY <4>2, <4>3
    <3>. HIDE DEF w
    <3>4. /\ w = Number256(w1, w2, w3)
          /\ C!Digit64(w, 4) = 0 /\ C!Digit64(w, 3) % 4 = 0 => w3 = 0
          /\ C!Digit64(w, 4) = 0 /\ C!Digit64(w, 3) = 0 /\ C!Digit64(w, 2) % 16 = 0
               => w2 = 0 /\ w3 = 0
      BY <3>3, BytesOf24
    <3>5. /\ 3*g + 1 <= 3*q - p => got[3*g + 1] = w1
          /\ 3*g + 2 <= 3*q - p => got[3*g + 2] = w2
          /\ 3*g + 3 <= 3*q - p => got[3*g + 3] = w3
      BY <2>1 DEF StandsFor, w
    <3>. HIDE DEF w1, w2, w3
    <3>9. \A k \in 1 .. 4 : C!Digit64(w, k) = DigitAt(text, 4*g + k)
      BY <3>3
    <3>. SUFFICES C!Group24(got, 3*g + 1) = w
      BY <3>9 DEF w
    <3>6. CASE g < q - 1 \/ p = 0
      <4>1. 3*g + 1 <= 3*q - p /\ 3*g + 2 <= 3*q - p /\ 3*g + 3 <= 3*q - p
        BY <3>6
      <4>2. ByteAt(got, 3*g + 1) = w1 /\ ByteAt(got, 3*g + 2) = w2 /\ ByteAt(got, 3*g + 3) = w3
        BY <2>0, <3>5, <4>1 DEF ByteAt
      <4>. QED
        BY <2>2, <3>4, <4>2
    <3>7. CASE g = q - 1 /\ p = 1
      <4>1. /\ 3*g + 1 <= 3*q - p /\ 3*g + 2 <= 3*q - p /\ ~(3*g + 3 <= 3*q - p)
            /\ ~(4*g + 4 <= 4*q - p) /\ 4*q - 1 = 4*g + 3
        BY <3>7
      <4>2. text[4*g + 4] = C!Pad
        BY <2>1, <4>1 DEF PaddedAtEnd
      <4>3. DigitAt(text, 4*g + 4) = 0 /\ DigitAt(text, 4*g + 3) % 4 = 0
        BY <2>1, <3>7, <4>1, <4>2 DEF DigitAt, SpareIsZero
      <4>4. w3 = 0
        BY <3>3, <3>4, <4>3
      <4>5. ByteAt(got, 3*g + 1) = w1 /\ ByteAt(got, 3*g + 2) = w2 /\ ByteAt(got, 3*g + 3) = w3
        BY <2>0, <3>5, <4>1, <4>4 DEF ByteAt
      <4>. QED
        BY <2>2, <3>4, <4>5
    <3>8. CASE g = q - 1 /\ p = 2
      <4>1. /\ 3*g + 1 <= 3*q - p /\ ~(3*g + 2 <= 3*q - p) /\ ~(3*g + 3 <= 3*q - p)
            /\ ~(4*g + 4 <= 4*q - p) /\ ~(4*g + 3 <= 4*q - p) /\ 4*q - 2 = 4*g + 2
        BY <3>8
      <4>2. text[4*g + 4] = C!Pad /\ text[4*g + 3] = C!Pad
        BY <2>1, <4>1 DEF PaddedAtEnd
      <4>3. /\ DigitAt(text, 4*g + 4) = 0 /\ DigitAt(text, 4*g + 3) = 0
            /\ DigitAt(text, 4*g + 2) % 16 = 0
        BY <2>1, <3>8, <4>1, <4>2 DEF DigitAt, SpareIsZero
      <4>4. w2 = 0 /\ w3 = 0
        BY <3>3, <3>4, <4>3
      <4>5. ByteAt(got, 3*g + 1) = w1 /\ ByteAt(got, 3*g + 2) = w2 /\ ByteAt(got, 3*g + 3) = w3
        BY <2>0, <3>5, <4>1, <4>4 DEF ByteAt
      <4>. QED
        BY <2>2, <3>4, <4>5
    <3>. QED
      BY <3>6, <3>7, <3>8
  <2>4. ASSUME NEW i \in 1 .. Len(text) PROVE C!Encode(got)[i] = text[i]
    <3>1. PICK g \in 0 .. (q - 1), k \in 1 .. 4 : i = 4*g + k
      BY <2>1, DigitInGroup
    <3>2. k > Len(got) - 3*g + 1 <=> ~(4*g + k <= 4*q - p)
      <4>1. Len(got) = 3*q - p
        BY <2>0
      <4>2. CASE g = q - 1
        BY <4>1, <4>2
      <4>3. CASE g < q - 1
        BY <4>1, <4>3
      <4>. QED
        BY <4>2, <4>3
    <3>3. CASE 4*g + k <= 4*q - p
      <4>1. C!Encode(got)[i] = C!Alphabet[DigitAt(text, i)]
        BY <2>2, <2>3, <3>1, <3>2, <3>3
      <4>2. C!IsBase64Char(text[i]) /\ text[i] \in Byte
        BY <1>0, <2>1, <3>1, <3>3, ElementOfSeq DEF PaddedAtEnd
      <4>. QED
        BY <4>1, <4>2, ValueOfDigit DEF DigitAt
    <3>4. CASE ~(4*g + k <= 4*q - p)
      <4>1. text[i] = C!Pad
        BY <2>1, <3>1, <3>4 DEF PaddedAtEnd
      <4>. QED
        BY <2>2, <3>1, <3>2, <3>4, <4>1
    <3>. QED
      BY <3>3, <3>4
  <2>5. C!Encode(got) = text
    BY <1>0, <2>1, <2>2, <2>4, SeqEqual
  <2>. QED
    BY <1>3, <2>1, <2>5 DEF got, StandsFor
<1>. QED
  BY <1>1, <1>2, <1>3

-----------------------------------------------------------------------------
(* Hexadecimal. *)

\* A hexadecimal digit is read as its value, and is no sign and no blank.
LEMMA HexCharIsRead ==
  ASSUME NEW v \in Nibble, NEW upper \in BOOLEAN
  PROVE  /\ C!HexChar(v, upper) \in Byte
         /\ C!HexValue(C!HexChar(v, upper)) = v
         /\ C!HexChar(v, upper) \notin {43, 45}
         /\ C!HexChar(v, upper) \notin {9, 10, 11, 12, 13, 32}
  BY DEF C!HexChar, C!HexValue, Byte, Nibble

\* Two digits are read as the byte they show.
LEMMA PairIsRead ==
  ASSUME NEW byte \in Byte, NEW upper \in BOOLEAN
  PROVE  C!StoiHex(<<C!HexChar(byte \div 16, upper), C!HexChar(byte % 16, upper)>>) = byte
<1>. DEFINE hi == byte \div 16
            lo == byte % 16
            two == <<C!HexChar(hi, upper), C!HexChar(lo, upper)>>
<1>1. hi \in Nibble /\ lo \in Nibble /\ byte = 16 * hi + lo
  BY SMT DEF Byte, Nibble
<1>. HIDE DEF hi, lo
<1>2. /\ two[1] \notin {43, 45} /\ two[1] \notin {9, 10, 11, 12, 13, 32}
      /\ C!HexValue(two[1]) = hi /\ C!HexValue(two[2]) = lo /\ Len(two) = 2
  BY <1>1, HexCharIsRead
<1>. HIDE DEF two
<1>3. two[1] # 45
  BY <1>2
<1>4. C!StoiHex(two) = 16 * hi + lo
  BY <1>1, <1>2, <1>3 DEF C!StoiHex, Nibble
<1>. QED
  BY <1>1, <1>4 DEF two, hi, lo

\* Reading hexadecimal digits undoes writing them, in either case, for every byte
\* string (Hex::FromBytes and Hex::ToBytes of hex.hpp).
THEOREM HexRoundTrip ==
  ASSUME NEW data \in Seq(0 .. 255), NEW upper \in BOOLEAN
  PROVE  C!ToBytes(C!FromBytes(data, upper)) = data
<1>. DEFINE n == Len(data)
            hex == C!FromBytes(data, upper)
<1>0. data \in Seq(Byte)
  BY DEF Byte
<1>1. n \in Nat /\ data \in [1 .. n -> Byte] /\ \A k \in 1 .. n : data[k] \in Byte
  BY <1>0, LenProperties, ElementOfSeq
<1>2. \A b \in Byte : b \div 16 \in Nibble /\ b % 16 \in Nibble
  BY SMT DEF Byte, Nibble
<1>. HIDE DEF n
<1>3. \A j \in 1 .. (2*n) : (j + 1) \div 2 \in 1 .. n
  BY <1>1, SMT
<1>4. hex = [j \in 1 .. (2*n) |->
               C!HexChar(IF j % 2 = 1 THEN data[(j + 1) \div 2] \div 16
                         ELSE data[(j + 1) \div 2] % 16, upper)]
  BY DEF C!FromBytes, n
<1>. HIDE DEF hex
<1>5. hex \in Seq(Byte) /\ Len(hex) = 2*n
  <2>1. \A j \in 1 .. (2*n) :
          C!HexChar(IF j % 2 = 1 THEN data[(j + 1) \div 2] \div 16
                    ELSE data[(j + 1) \div 2] % 16, upper) \in Byte
    BY <1>1, <1>2, <1>3, HexCharIsRead
  <2>2. hex \in [1 .. (2*n) -> Byte]
    BY <1>4, <2>1
  <2>3. 2*n \in Nat
    BY <1>1
  <2>. QED
    BY <2>2, <2>3, IsASeq, LenProperties
<1>6. ASSUME NEW k \in 1 .. n
      PROVE  /\ hex[2*k - 1] = C!HexChar(data[k] \div 16, upper)
             /\ hex[2*k] = C!HexChar(data[k] % 16, upper)
  <2>1. /\ 2*k - 1 \in 1 .. (2*n) /\ 2*k \in 1 .. (2*n)
        /\ (2*k - 1) % 2 = 1 /\ ~((2*k) % 2 = 1)
        /\ ((2*k - 1) + 1) \div 2 = k /\ (2*k + 1) \div 2 = k
    BY <1>1, SMT
  <2>. QED
    BY <1>4, <2>1
<1>7. ASSUME NEW k \in 1 .. n
      PROVE  C!StoiHex(SubSeq(hex, 2*k - 1, IF 2*k <= Len(hex) THEN 2*k ELSE Len(hex))) = data[k]
  <2>1. 2*k <= Len(hex) /\ 2*k - 1 \in 1 .. Len(hex) /\ 2*k \in 1 .. Len(hex)
    BY <1>1, <1>5
  <2>2. SubSeq(hex, 2*k - 1, 2*k) = <<hex[2*k - 1], hex[2*k]>>
    <3>. DEFINE part == SubSeq(hex, 2*k - 1, 2*k)
                pair == <<hex[2*k - 1], hex[2*k]>>
    <3>1. hex[2*k - 1] \in Byte /\ hex[2*k] \in Byte
      BY <1>5, <2>1, ElementOfSeq
    <3>2. pair \in Seq(Byte) /\ Len(pair) = 2
      BY <3>1
    <3>3. part = [i \in 1 .. ((2*k - (2*k - 1)) + 1) |-> hex[((2*k - 1) + i) - 1]]
      BY <1>5, <2>1
    <3>4. (2*k - (2*k - 1)) + 1 = 2 /\ ((2*k - 1) + 1) - 1 = 2*k - 1 /\ ((2*k - 1) + 2) - 1 = 2*k
      BY <1>1
    <3>5. part = [i \in 1 .. 2 |-> hex[((2*k - 1) + i) - 1]]
      BY <3>3, <3>4
    <3>6. part \in Seq(Byte) /\ Len(part) = 2
      BY <1>5, <2>1, SubSeqProperties
    <3>7. part[1] = pair[1] /\ part[2] = pair[2]
      BY <3>4, <3>5
    <3>. HIDE DEF part, pair
    <3>8. \A i \in 1 .. Len(part) : part[i] = pair[i]
      <4>1. \A i \in 1 .. 2 : i = 1 \/ i = 2
        OBVIOUS
      <4>. QED
        BY <3>6, <3>7, <4>1
    <3>9. part = pair
      BY <3>2, <3>6, <3>8, SeqEqual
    <3>. QED
      BY <3>9 DEF part, pair
  <2>3. C!StoiHex(<<hex[2*k - 1], hex[2*k]>>) = data[k]
    BY <1>1, <1>6, PairIsRead
  <2>. QED
    BY <2>1, <2>2, <2>3
<1>8. (Len(hex) + 1) \div 2 = n
  BY <1>1, <1>5, SMT
<1>. DEFINE read == [k \in 1 .. n |->
               C!StoiHex(SubSeq(hex, 2*k - 1, IF 2*k <= Len(hex) THEN 2*k ELSE Len(hex)))]
<1>9. read = data
  BY <1>1, <1>7
<1>10. ~\E k \in DOMAIN read : read[k] = -1
  <2>1. DOMAIN data = 1 .. n
    BY <1>1
  <2>2. \A b \in Byte : b # -1
    BY DEF Byte
  <2>. HIDE DEF read
  <2>. QED
    BY <1>1, <1>9, <2>1, <2>2
<1>11. C!ToBytes(hex) = IF \E k \in DOMAIN read : read[k] = -1 THEN <<-1>> ELSE read
  BY <1>8 DEF C!ToBytes
<1>. QED
  BY <1>9, <1>10, <1>11 DEF hex
=============================================================================
