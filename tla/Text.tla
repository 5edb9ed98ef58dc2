-------------------------------- MODULE Text --------------------------------
(***************************************************************************)
(* The string helpers of src/breutil/string_util.hpp.  A string is a       *)
(* sequence of characters, a character is its code; positions count from   *)
(* 1 and NPos stands for std::string::npos.  The in-place functions of the *)
(* header return here what they leave in their argument.                   *)
(***************************************************************************)
EXTENDS Integers, Sequences, FiniteSets

LOCAL SE == INSTANCE SequencesExt

NPos == 0
Space == 32

\* " \t\n\r\f\v"
Blanks == {Space, 9, 10, 13, 12, 11}

Occurs(str, sub, p) ==
    /\ p + Len(sub) - 1 <= Len(str)
    /\ SubSeq(str, p, p + Len(sub) - 1) = sub

Least(S) == IF S = {} THEN NPos ELSE CHOOSE p \in S : \A q \in S : p <= q
Greatest(S) == IF S = {} THEN NPos ELSE CHOOSE p \in S : \A q \in S : q <= p

\* std::string::find
Find(str, sub, from) ==
    Least({p \in from..(Len(str) + 1) : Occurs(str, sub, p)})

Rest(str, from) == SubSeq(str, from, Len(str))

\* The loops below advance by the length of what they look for: it is not empty.
Split(str, delimiter) ==
    LET from[start \in 1..(Len(str) + 1)] ==
          LET end == Find(str, delimiter, start)
          IN  IF end = NPos
              THEN <<Rest(str, start)>>
              ELSE <<SubSeq(str, start, end - 1)>> \o from[end + Len(delimiter)]
    IN  from[1]

Join(strings, separator) ==
    IF strings = <<>>
    THEN <<>>
    ELSE SE!FoldLeft(LAMBDA acc, s : acc \o separator \o s,
                     Head(strings), Tail(strings))

FindAll(str, sub) ==
    LET from[start \in 1..(Len(str) + 1)] ==
          LET pos == Find(str, sub, start)
          IN  IF pos = NPos THEN <<>> ELSE <<pos>> \o from[pos + Len(sub)]
    IN  from[1]

Replaced(str, pos, old, new) ==
    SubSeq(str, 1, pos - 1) \o new \o Rest(str, pos + Len(old))

\* In place: the text and the position behind the last replacement, after n rounds
\* of the loop.  Each replacement takes a character of the given text at least.
ReplaceAll(str, old, new) ==
    LET loop[n \in 0..Len(str)] ==
          IF n = 0 THEN [text |-> str, at |-> 1]
          ELSE LET st == loop[n - 1]
                   pos == Find(st.text, old, st.at)
               IN  IF pos = NPos THEN st
                   ELSE [text |-> Replaced(st.text, pos, old, new), at |-> pos + Len(new)]
    IN  loop[Len(str)].text

ReplaceFirst(str, old, new) ==
    LET pos == Find(str, old, 1)
    IN  IF pos = NPos THEN str ELSE Replaced(str, pos, old, new)

StartsWith(str, prefix) == Occurs(str, prefix, 1)

EndsWith(str, suffix) ==
    /\ Len(str) >= Len(suffix)
    /\ Occurs(str, suffix, Len(str) - Len(suffix) + 1)

Contains(str, sub) == Find(str, sub, 1) # NPos

NotOf(str, chars) == {p \in DOMAIN str : str[p] \notin chars}

LTrim(str) ==
    LET first == Least(NotOf(str, Blanks))
    IN  IF first = NPos THEN <<>> ELSE Rest(str, first)

RTrim(str) == SubSeq(str, 1, Greatest(NotOf(str, Blanks)))

Trim(str) == RTrim(LTrim(str))

TrimCopy(str) ==
    LET first == Least(NotOf(str, Blanks))
        last == Greatest(NotOf(str, Blanks))
    IN  IF first = NPos THEN <<>> ELSE SubSeq(str, first, last)

Padding(str, width, pad) ==
    [i \in 1..(IF Len(str) < width THEN width - Len(str) ELSE 0) |-> pad]

LPad(str, width, pad) == Padding(str, width, pad) \o str
RPad(str, width, pad) == str \o Padding(str, width, pad)

ToUpper(str) == [i \in DOMAIN str |->
                   IF str[i] \in 97..122 THEN str[i] - 32 ELSE str[i]]
ToLower(str) == [i \in DOMAIN str |->
                   IF str[i] \in 65..90 THEN str[i] + 32 ELSE str[i]]

Reverse(str) == [i \in DOMAIN str |-> str[Len(str) + 1 - i]]

=============================================================================
