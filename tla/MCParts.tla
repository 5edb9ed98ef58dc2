------------------------------ MODULE MCParts -------------------------------
(***************************************************************************)
(* Model-checking instance for the parts of the library that stand alone:  *)
(* the byte buffer, JSON values and message headers as their operations    *)
(* change them, the two timers, and the stateless conversions over every   *)
(* short input.  They share nothing: a behaviour is about one of them, its *)
(* kind, and the rest of the state keeps its initial value.  An input is   *)
(* typed one character, byte, token or number at a time.                   *)
(***************************************************************************)
EXTENDS Buffer, Timer, MultiTaskTimer, TLC

VARIABLES
  kind,   \* what the behaviour is about
  input,  \* the text, bytes or numbers given to the conversions
  doc,    \* a JSON value
  hdr     \* a NetHeader

S == INSTANCE SequencesExt
T == INSTANCE Text
J == INSTANCE JsonText WITH MaxInt <- 99, Decimals <- 2
C == INSTANCE Codecs WITH ByteBase <- 4, Width <- 2, HeaderSize <- 8
N == INSTANCE StrConv WITH Bits <- 5, HalfBits <- 3
I3 == INSTANCE Ip WITH Groups <- 3, GroupMax <- 1, OctetBase <- 4
I6 == INSTANCE Ip WITH Groups <- 6, GroupMax <- 1, OctetBase <- 4

clocks == <<timerVars, multiVars>>

\* The input alphabets: a, b and a blank; Base64 digits, padding and a stranger;
\* integers; numerals; characters that are escaped in every way; address tokens.
Alphabet ==
  [text    |-> {97, 98, 32},
   base64  |-> {65, 66, 103, 47, 61, 33},
   ints    |-> C!SignedInts,
   numeral |-> {48, 49, 51, 57, 43, 45, 98, 111, 120},
   quoted  |-> {34, 92, 97, 120, 7, 10, 0, 127, 200, 32},
   address |-> {0, 1, I3!Colon, I3!Junk},
   groups  |-> {0, 1},
   octets  |-> {0, 1, 3}]

MaxInput == [text |-> 5, base64 |-> 4, ints |-> 2, numeral |-> 4, quoted |-> 3,
             address |-> 6, groups |-> 6, octets |-> 4]

Type ==
  /\ kind \in DOMAIN Alphabet /\ Len(input) < MaxInput[kind]
  /\ \E c \in Alphabet[kind] : input' = Append(input, c)
  /\ UNCHANGED <<doc, hdr, bufferVars, clocks>>

Clear ==
  /\ kind \in DOMAIN Alphabet /\ input # <<>>
  /\ input' = <<>>
  /\ UNCHANGED <<doc, hdr, bufferVars, clocks>>

\* The strings are ones that the lenient passes could take for syntax; the
\* doubles have as many decimals as are written, more, and none.
Strs == {<<97>>, <<J!Quote>>, <<97, J!Backslash>>, <<J!Backslash, J!Quote>>,
         <<J!Slash, J!Slash>>, <<J!Comma, J!CloseArr>>, <<J!NewLine, 32>>}
Doubles == {J!DoubleOf(11, 2), J!DoubleOf(-1996, 3), J!DoubleOf(4, 3), J!DoubleOf(3, -2)}
Atoms == {J!Null, J!Bool(TRUE), J!IntOf(-11), J!NotFinite} \cup Doubles
         \cup {J!Str(s) : s \in Strs}
Keys == {<<>>, <<J!Quote>>, <<J!Slash, J!Star>>}

\* A throwing accessor leaves the value as it was; at most one level is wrapped
\* around a value of at most two entries.
Edited ==
  {J!AppendItem(doc, x) : x \in Atoms}
  \cup {J!Put(doc, k, x) : k \in Keys, x \in Atoms}
  \cup {J!Index(doc, 2)} \cup {J!RemoveAt(doc, i) : i \in 1..2}
  \cup {J!RemoveMember(doc, k) : k \in Keys}

Nested == doc.t = "array" /\ J!Size(doc) = 1 /\ doc.v[1].t \in {"array", "object"}

EditJson ==
  /\ kind = "json" /\ ~Nested
  /\ \E x \in Edited : x # J!Failure /\ J!Size(x) <= 2 /\ doc' = x
  /\ UNCHANGED <<input, hdr, bufferVars, clocks>>

WrapJson ==
  /\ kind = "json" /\ doc.t \in {"array", "object"} /\ ~Nested
  /\ doc' = J!Arr(<<doc>>)
  /\ UNCHANGED <<input, hdr, bufferVars, clocks>>

UnwrapJson ==
  /\ kind = "json" /\ Nested
  /\ doc' = doc.v[1]
  /\ UNCHANGED <<input, hdr, bufferVars, clocks>>

Sizes == 0 .. C!Range2 - 1

\* A header is filled for sending, parsed from what another one sends, or reset.
EditHeader ==
  /\ kind = "header"
  /\ \/ \E n \in Sizes : hdr' = C!GetHeaderData(hdr, n)
     \/ \E n \in Sizes :
          hdr' = C!ParseHeader(hdr, C!GetHeaderData(C!NewHeader, n).Data).hdr
     \/ hdr' = C!ParseHeader(hdr, C!Magic).hdr
     \/ hdr' = C!ResetHeader(hdr)
  /\ UNCHANGED <<input, doc, bufferVars, clocks>>

UseBuffer == kind = "buffer" /\ Next /\ UNCHANGED <<input, doc, hdr, clocks>>

UseTimer ==
  /\ \/ kind = "timer" /\ TimerNext /\ UNCHANGED multiVars
     \/ kind = "multi" /\ MultiNext /\ UNCHANGED timerVars
  /\ UNCHANGED <<input, doc, hdr, bufferVars>>

PartsInit ==
  /\ kind \in DOMAIN Alphabet \cup {"json", "header", "buffer", "timer", "multi"}
  /\ input = <<>>
  /\ doc \in IF kind = "json" THEN {J!Null, J!Arr(<<>>)} ELSE {J!Null}
  /\ hdr = C!NewHeader
  /\ Init
  /\ TimerInit /\ MultiInit

PartsNext ==
  /\ \/ Type \/ Clear \/ EditJson \/ WrapJson \/ UnwrapJson \/ EditHeader
     \/ UseBuffer \/ UseTimer
  /\ UNCHANGED kind

\* The threads of the timers run and time passes.
PartsSpec ==
  /\ PartsInit /\ [][PartsNext]_<<kind, input, doc, hdr, bufferVars, clocks>>
  /\ WF_timerVars(kind = "timer" /\ ThreadStep)
  /\ WF_timerVars(kind = "timer" /\ DestroyJoin)
  /\ WF_multiVars(kind = "multi" /\ Tick)
  /\ \A r \in Runners : WF_multiVars(kind = "multi" /\ RunStep(r))

-----------------------------------------------------------------------------
(* Properties. *)

\* string_util.hpp: Split, FindAll, ReplaceAll and ReplaceFirst walk over a text
\* in the same way (the parts hold no delimiter and join to the text, there is
\* one position per gap, replacing is joining with the new text, also when that
\* contains the old one), and the two ways of trimming agree.
TextHelpersAgree ==
  kind = "text" =>
    /\ \A sub \in {<<97>>, <<97, 98>>, <<97, 97>>}, new \in {<<>>, <<98>>, <<97, 97>>} :
         LET parts == T!Split(input, sub)
         IN  /\ T!Join(parts, sub) = input
             /\ \A i \in DOMAIN parts : ~T!Contains(parts[i], sub)
             /\ Len(T!FindAll(input, sub)) = Len(parts) - 1
             /\ T!ReplaceAll(input, sub, new) = T!Join(parts, new)
             /\ Len(parts) <= 2 =>
                  T!ReplaceFirst(input, sub, new) = T!ReplaceAll(input, sub, new)
    /\ LET trimmed == T!Trim(input)
       IN  /\ trimmed = T!TrimCopy(input)
           /\ T!Trim(T!Reverse(input)) = T!Reverse(trimmed)
           /\ T!EndsWith(T!RTrim(input), trimmed) /\ T!StartsWith(T!LTrim(input), trimmed)
           /\ T!Trim(T!LPad(trimmed, 6, 32)) = trimmed
           /\ T!ToLower(T!ToUpper(T!RPad(trimmed, 6, 32))) = T!RPad(trimmed, 6, 32)

\* base64.hpp and hex.hpp: decoding undoes encoding, and IsBase64Encoded accepts
\* exactly the texts that encoding their own decoding gives back, so every byte
\* string has one accepted text (padding bits and padding in the middle included).
EncodingIsCanonical ==
  kind = "base64" =>
    /\ C!Decode(C!Encode(input)) = [ok |-> TRUE, result |-> input]
    /\ \A u \in BOOLEAN : C!ToBytes(C!FromBytes(input, u)) = input
    /\ \A t \in {input, <<65, 65, 65, 65>> \o input, input \o <<65, 65, 65, 65>>} :
         C!IsBase64Encoded(t) <=>
           /\ C!Decode(t).ok
           /\ C!Encode(C!Decode(t).result) = t

\* binary_io.hpp and net_header.hpp: integers appended one after the other are
\* read back with one cursor, negative ones too, and an incomplete one moves
\* nothing; and whatever was done to a header before, the size it is filled
\* with is the size its receiver parses.
WireRoundTrip ==
  /\ kind = "ints" =>
       LET wire == S!FoldLeft(C!AppendInteger, <<>>, input)
           reads[i \in 0 .. Len(input)] ==
             IF i = 0 THEN [ok |-> TRUE, offset |-> 0, value |-> 0]
             ELSE C!ReadInteger(wire, reads[i - 1].offset, 0)
       IN  /\ \A i \in DOMAIN input : reads[i].ok /\ reads[i].value = input[i]
           /\ C!ReadInteger(wire, reads[Len(input)].offset, 5)
                = [ok |-> FALSE, offset |-> Len(wire), value |-> 5]
  /\ kind = "header" =>
       \A n \in Sizes :
         LET got == C!ParseHeader(C!NewHeader, C!GetHeaderData(hdr, n).Data)
         IN  got.ok /\ got.hdr.FileSize = n

\* A value with what is in it, two levels down, and its strings and keys.
Parts(val) == IF val.t \in {"array", "object"}
              THEN {val.v[i] : i \in DOMAIN val.v} ELSE {}
AllParts(val) == {val} \cup Parts(val) \cup UNION {Parts(y) : y \in Parts(val)}
AllStrings(val) == {x.v : x \in {y \in AllParts(val) : y.t = "string"}}
                   \cup UNION {DOMAIN x.v : x \in {y \in AllParts(val) : y.t = "object"}}

\* A string that has a backslash in front of a quote or of its end, and one that
\* has what looks like a comment or a trailing comma.
EndsEscaped(s) == T!Contains(Append(s, J!Quote), <<J!Backslash, J!Quote>>)
LooksLikeSyntax(s) ==
  \E like \in {<<J!Slash, J!Slash>>, <<J!Slash, J!Star>>, <<J!Comma, J!CloseArr>>} :
    T!Contains(s, like)
LenientIsLost(val) ==
  /\ \E s \in AllStrings(val) : EndsEscaped(s)
  /\ \E s \in AllStrings(val) : LooksLikeSyntax(s)

\* y is the number with J!Decimals = 2 decimals that is nearest to x.
Rounded(x, y) ==
  LET Thousandths(z) == z[1] * 10^(3 - z[2])
      apart == Thousandths(x) - Thousandths(y)
  IN  y[2] <= 2 /\ 2 * apart \in -10 .. 10

RECURSIVE ReadsAs(_, _)
ReadsAs(val, read) ==
  /\ read.t = val.t
  /\ CASE val.t = "double" -> Rounded(val.v, read.v)
       [] val.t \in {"array", "object"} ->
            /\ DOMAIN read.v = DOMAIN val.v
            /\ \A i \in DOMAIN val.v : ReadsAs(val.v[i], read.v[i])
       [] OTHER -> read = val

\* The UTF-16 units of a code point, and the code point of UTF-8 bytes.
Utf16(cp) ==
  IF cp < 65536 THEN <<cp>>
  ELSE <<55296 + (cp - 65536) \div 1024, 56320 + ((cp - 65536) % 1024)>>
CodePoint(bytes) ==
  S!FoldLeft(LAMBDA n, b : 64 * n + (b % 64),
             bytes[1] % <<128, 32, 16, 8>>[Len(bytes)], Tail(bytes))

\* \u escapes and surrogate pairs are read as the UTF-8 of their code point, the
\* first and the last of each length included.
EscapesAreUtf8 ==
  \A cp \in {0, 127, 128, 2047, 2048, 65535, 65536, 1114111} :
    LET Written(unit) == <<J!Backslash, J!LetterU, J!Hex4(unit)>>
        units == Utf16(cp)
        text == S!FlattenSeq([i \in DOMAIN units |-> Written(units[i])])
        read == J!Parse(<<J!Quote>> \o text \o <<J!Quote>>, TRUE).val
    IN  read.t = "string" /\ CodePoint(read.v) = cp

\* json_generator.hpp and json_parse.hpp: what Generator writes, pretty or not,
\* Parser reads back as the same value, a double as the nearest number with the
\* decimals that std::to_string keeps; infinities and NaN are refused.  So does
\* the lenient mode with comments around the text, except when one string has a
\* backslash in front of a quote or its end, after which its passes take strings
\* for code, and a string looks like a comment or a trailing comma.
JsonRoundTrip ==
  kind = "json" =>
    /\ EscapesAreUtf8
    /\ \A pretty \in BOOLEAN :
         LET text == J!Generate(doc, pretty)
             comment == <<J!Slash, J!Star, J!Slash, J!Star, J!Slash>>
             strict == J!Parse(text, TRUE)
             lenient == J!Parse(comment \o text \o <<J!Slash, J!Slash>>, FALSE)
         IN  IF J!NotFinite \in AllParts(doc) THEN ~strict.ok
             ELSE /\ strict.ok /\ ReadsAs(doc, strict.val)
                  /\ LenientIsLost(doc) \/ (lenient.ok /\ ReadsAs(doc, lenient.val))

\* The numerals without a sign, with the base and the digits they stand for: in a
\* base, digits of it; in base 0, digits behind a prefix, and decimals without one.
Prefixes == {[mark |-> <<48, 120>>, base |-> 16], [mark |-> <<48, 98>>, base |-> 2],
             [mark |-> <<48, 111>>, base |-> 8], [mark |-> <<48>>, base |-> 8]}
IsZero(t) == t = <<48>>
Spellings(t, base) ==
  IF base # 0 THEN {<<base, t>>}
  ELSE {<<p.base, T!Rest(t, Len(p.mark) + 1)>> :
          p \in {q \in Prefixes : T!StartsWith(t, q.mark)}}
       \cup {<<10, d>> : d \in {u \in {t} : IsZero(u) \/ ~T!StartsWith(u, <<48>>)}}
Numerals(t, base) ==
  {n \in Spellings(t, base) :
     n[2] # <<>> /\ \A i \in DOMAIN n[2] : N!DigitOf(n[2][i]) < n[1]}

\* strconv.hpp: a numeral is read as the number it stands for, or refused when
\* that is out of range, at every bound of both widths, in every base and with
\* every prefix, and what is no numeral is refused; ParseInt only as long as the
\* number is below 2^Bits, where its accumulator wraps.  One numeral is refused:
\* "0" in base 0, whose digit is taken for a prefix.  What the formatters write
\* is read back.
NumbersAreExact ==
  kind = "numeral" =>
    \A base \in {0, 2, 10, 16} :
      LET body == IF input # <<>> /\ input[1] \in {43, 45} THEN Tail(input) ELSE input
          numerals == IF base = 0 /\ IsZero(body) THEN {} ELSE Numerals(body, base)
          sizes == {N!Exact(n[2], n[1]) : n \in numerals}
          values == {IF input[1] = 45 THEN -size ELSE size : size \in sizes}
          readable == {v \in values : input[1] # 45}
      IN  /\ Cardinality(numerals) <= 1
          /\ N!ParseUint(input, base, 5) = readable \cap 0 .. N!MaxUint
          /\ N!ParseUint(input, base, 3) = readable \cap 0 .. N!MaxUhalf
          /\ (\A size \in sizes : size <= N!MaxUint) =>
               /\ N!ParseInt(input, base, 5) = values \cap N!MinInt .. N!MaxInt
               /\ N!ParseInt(input, base, 3) = values \cap N!MinHalf .. N!MaxHalf
          /\ base = 10 => N!Atoi(input) = values \cap N!MinHalf .. N!MaxHalf
          /\ \A v \in N!ParseInt(input, base, 5), b \in {2, 10, 36} :
               N!ParseInt(N!FormatInt(v, b), b, 5) = {v}
          /\ \A b \in BOOLEAN : N!ParseBool(T!ToUpper(N!FormatBool(b))) = {b}

\* strconv.hpp: Unquote undoes Quote, QuoteToASCII and QuoteToGraphic for every
\* text, control characters, quotes, backslashes and bytes above 127 included,
\* UnquoteChar takes a text that Quote wrote apart unit by unit, and QuotedPrefix
\* finds one without quotes in front of other text.
QuoteRoundTrip ==
  kind = "quoted" =>
    /\ N!Unquote(N!Quote(input)) = {input}
    /\ N!Unquote(N!QuoteToASCII(input)) = {input}
    /\ N!Unquote(N!QuoteToGraphic(input)) = {input}
    /\ input # <<>> /\ input[1] < 128 =>
         N!UnquoteChar(Tail(N!Quote(input)), 34)
           = {[char |-> input[1], rest |-> Tail(N!Quote(Tail(input)))]}
    /\ ~T!Contains(input, <<34>>) =>
         N!QuotedPrefix(N!Quote(input) \o <<97, 34>>) = N!Quote(input)

\* The texts of an IPv6 address: all groups, or "::" for one run of zeros.
Forms(g) ==
  LET run(a, b) == T!Join([i \in 1 .. a - 1 |-> <<g[i]>>], <<I3!Colon>>)
                   \o <<I3!Colon, I3!Colon>>
                   \o T!Join([i \in 1 .. 3 - b |-> <<g[b + i]>>], <<I3!Colon>>)
  IN  {T!Join([i \in 1 .. 3 |-> <<g[i]>>], <<I3!Colon>>)}
      \cup {run(a, b) : <<a, b>> \in
              {p \in (1..3) \X (1..3) :
                 p[1] <= p[2] /\ \A i \in p[1]..p[2] : g[i] = 0}}

\* One colon behind a last group, which the parser passes over.
WithoutColon(t) ==
  LET n == Len(t)
  IN  IF n > 1 /\ t[n] = I3!Colon /\ t[n - 1] # I3!Colon THEN S!Front(t) ELSE t

\* ip.hpp: ToBytes reads what ToString writes, the choice of the zero run
\* included; it accepts the forms of an address, and of other texts only a form
\* with one colon too many behind its last group; and IPv4 addresses survive the
\* way through text and through an integer.
AddressRoundTrip ==
  /\ kind = "groups" /\ Len(input) = 6 => I6!ToBytes(I6!ToStringV6(input)) = input
  /\ kind = "address" /\ T!Contains(input, <<I3!Colon>>) =>
       LET read == I3!ToBytes(input)
           matching == {g \in [1..3 -> 0..1] : WithoutColon(input) \in Forms(g)}
       IN  IF matching = {} THEN read = I3!NoAddress ELSE matching = {read}
  /\ kind = "octets" /\ Len(input) = 4 =>
       /\ I3!ToBytes(I3!ToStringV4(input)) = input
       /\ I3!BytesOfInt(I3!ToInt(input)) = input

\* What is encoded for a wire or a file is decoded to what it was.
EncodersRoundTrip == EncodingIsCanonical /\ WireRoundTrip /\ AddressRoundTrip

\* The string helpers and the number and quoting conversions agree with one
\* another and with what they stand for.
StringsAgree == TextHelpersAgree /\ NumbersAreExact /\ QuoteRoundTrip

\* timer.hpp: tasks of MultiTaskTimer are run, in the order in which they are due,
\* unless all runners have left Run.
TasksRunInTime == TakenInDueOrder /\ QueuedIsRun

=============================================================================
