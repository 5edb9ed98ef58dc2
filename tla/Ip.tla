--------------------------------- MODULE Ip ---------------------------------
(***************************************************************************)
(* src/breutil/net/ip.hpp: addresses as text, bytes and integers.  A text  *)
(* is a sequence of tokens: a number (the decimal of an IPv4 text, the     *)
(* hexadecimal group of an IPv6 text), Dot, Colon, or Junk for a run of    *)
(* characters that is no number.  An IPv6 address is its sequence of       *)
(* Groups groups (8 in the code), an IPv4 address its four octets;         *)
(* OctetBase is the number of values of an octet in the conversions to and *)
(* from an integer (256 in the code).  NoAddress is the empty vector the   *)
(* parsers answer for a bad text.                                          *)
(***************************************************************************)
EXTENDS Text

LOCAL SI == INSTANCE SequencesExt

CONSTANTS Groups, GroupMax, OctetBase

Dot == -1
Colon == -2
Junk == -3
NoAddress == <<>>

\* One to four hexadecimal digits.
parseIPv6Group(group) == Len(group) = 1 /\ group[1] \in 0..GroupMax
-----------------------------------------------------------------------------
(* Text to bytes *)
toBytesV4(text) ==
    IF /\ Len(text) = 7
       /\ \A i \in 1..7 : IF i % 2 = 0 THEN text[i] = Dot ELSE text[i] \in 0..255
    THEN [i \in 1..4 |-> text[2 * i - 1]]
    ELSE NoAddress

\* The groups between colons.  The loop ends where the text does: a colon in
\* the last place is passed over.
GroupTexts(text) ==
    IF text = <<>> THEN <<>>
    ELSE LET parts == Split(text, <<Colon>>)
         IN  IF parts[Len(parts)] = <<>> THEN SI!Front(parts) ELSE parts

AllGroups(parts) == \A i \in DOMAIN parts : parseIPv6Group(parts[i])
Values(parts) == [i \in DOMAIN parts |-> parts[i][1]]

MustCompress(left, right) == Len(left) + Len(right) < Groups

toBytesV6(text) ==
    LET p == Find(text, <<Colon, Colon>>, 1)
        left == GroupTexts(SubSeq(text, 1, p - 1))
        right == GroupTexts(Rest(text, p + 2))
        whole == GroupTexts(text)
    IN  IF p = NPos
        THEN IF Len(whole) = Groups /\ AllGroups(whole)
             THEN Values(whole) ELSE NoAddress
        ELSE IF /\ Find(text, <<Colon, Colon>>, p + 2) = NPos
                /\ AllGroups(left) /\ AllGroups(right)
                /\ MustCompress(left, right)
             THEN [i \in 1..Groups |->
                     LET fromEnd == Len(right) - (Groups - i)
                     IN  IF i <= Len(left) THEN left[i][1]
                         ELSE IF fromEnd > 0 THEN right[fromEnd][1] ELSE 0]
             ELSE NoAddress

ToBytes(text) == IF text = <<>> THEN NoAddress
                 ELSE IF Contains(text, <<Colon>>) THEN toBytesV6(text)
                 ELSE toBytesV4(text)
-----------------------------------------------------------------------------
(* Bytes to text *)
ToStringV4(bytes) == Join([i \in 1..4 |-> <<bytes[i]>>], <<Dot>>)

\* The loop that looks for the longest run of zero groups: st holds the best
\* run so far and the current one.
BetterRun(st) == IF st.len > st.maxLen /\ st.len > 1
                 THEN [st EXCEPT !.maxStart = st.start, !.maxLen = st.len]
                 ELSE st

ZeroRun(groups) ==
    LET step(st, i) ==
          IF groups[i] = 0
          THEN [st EXCEPT !.start = IF st.len = 0 THEN i ELSE @, !.len = @ + 1]
          ELSE [BetterRun(st) EXCEPT !.len = 0]
    IN  BetterRun(SI!FoldLeft(step, [maxStart |-> 0, maxLen |-> 0,
                                     start |-> 0, len |-> 0],
                              [i \in 1..Groups |-> i]))

ToStringV6(groups) ==
    LET run == ZeroRun(groups)
        text(i) == <<groups[i]>>
                   \o IF i < Groups /\ (run.maxLen = 0 \/ i + 1 # run.maxStart)
                      THEN <<Colon>> ELSE <<>>
    IN  SI!FlattenSeq([i \in 1..Groups |->
          CASE run.maxLen > 0 /\ i = run.maxStart -> <<Colon, Colon>>
            [] run.maxLen > 0 /\ i > run.maxStart
                              /\ i < run.maxStart + run.maxLen -> <<>>
            [] OTHER -> text(i)])
-----------------------------------------------------------------------------
(* IPv4 addresses as integers *)
ToInt(bytes) == SI!FoldLeft(LAMBDA val, b : val * OctetBase + b, 0, bytes)

BytesOfInt(n) == [i \in 1..4 |-> (n \div (OctetBase ^ (4 - i))) % OctetBase]

=============================================================================
