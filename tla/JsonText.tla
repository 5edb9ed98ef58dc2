------------------------------ MODULE JsonText ------------------------------
(***************************************************************************)
(* JSON values, the text Generator writes for them and the value Parser    *)
(* reads from a text: src/breutil/json/json_value.hpp, json_generator.hpp, *)
(* json_parse.hpp and json_tool.hpp.                                       *)
(*                                                                         *)
(* A text is a sequence of character codes.  Two things are one character  *)
(* each: the words null, true and false, and the four hexadecimal digits   *)
(* of a \u escape.  A double is a decimal number m * 10^-k, no trailing    *)
(* zero in m, or not finite.  Objects are functions from strings to        *)
(* values; the hash order in which the generator walks them is some order. *)
(* All whitespace is Space or NewLine.                                     *)
(***************************************************************************)
EXTENDS Text

LOCAL SX == INSTANCE SequencesExt

CONSTANTS
  MaxInt,     \* the largest int
  Decimals    \* digits std::to_string writes behind the point

Quote == 34
Backslash == 92
Slash == 47
Star == 42
Comma == 44
Colon == 58
Minus == 45
Plus == 43
Dot == 46
ExpE == 101
NewLine == 10
LetterU == 117
LetterN == 110
OpenArr == 91
CloseArr == 93
OpenObj == 123
CloseObj == 125
Digits == 48..57
WordNull == 1001
WordTrue == 1002
WordFalse == 1003
WordNaN == 1004     \* "nan", "inf" and "-inf"
Hex4(unit) == 100000 + unit
IsHex4(c) == c \in 100000..165535
White == {Space, NewLine}

Null == [t |-> "null", v |-> <<>>]
Bool(b) == [t |-> "bool", v |-> <<b>>]
IntOf(n) == [t |-> "int", v |-> n]
NotFinite == [t |-> "double", v |-> <<>>]
DoubleOf(m, k) ==
    LET zeros == Greatest({z \in 0..9 : m % 10^z = 0})
    IN  [t |-> "double",
         v |-> IF m = 0 THEN <<0, 0>> ELSE <<m \div 10^zeros, k - zeros>>]
Str(s) == [t |-> "string", v |-> s]
Arr(items) == [t |-> "array", v |-> items]
Obj(members) == [t |-> "object", v |-> members]
-----------------------------------------------------------------------------
(* Value: what the accessors that change it do; Failure stands for a throw. *)
Failure == [t |-> "throw", v |-> <<>>]

Index(val, i) ==        \* operator[](size_t): grows the array
    IF val.t # "array" THEN Failure
    ELSE Arr([j \in 1..(IF i > Len(val.v) THEN i ELSE Len(val.v)) |->
                IF j <= Len(val.v) THEN val.v[j] ELSE Null])

Put(val, key, x) ==     \* val[key] = x: a null becomes an object
    IF val.t \notin {"null", "object"} THEN Failure
    ELSE LET old == IF val.t = "null" THEN [k \in {} |-> Null] ELSE val.v
         IN  Obj([k \in DOMAIN old \union {key} |->
                    IF k = key THEN x ELSE old[k]])

AppendItem(val, x) ==
    IF val.t # "array" THEN Failure ELSE Arr(Append(val.v, x))

RemoveAt(val, i) ==
    IF val.t # "array" \/ i \notin 1..Len(val.v) THEN Failure
    ELSE Arr(SubSeq(val.v, 1, i - 1) \o Rest(val.v, i + 1))

RemoveMember(val, key) ==
    IF val.t # "object" THEN Failure
    ELSE Obj([k \in DOMAIN val.v \ {key} |-> val.v[k]])

Size(val) == CASE val.t = "array"  -> Len(val.v)
               [] val.t = "object" -> Cardinality(DOMAIN val.v)
               [] OTHER            -> 0
-----------------------------------------------------------------------------
(* Generator *)
Sign(n) == IF n < 0 THEN <<Minus>> ELSE <<>>
Abs(n) == IF n < 0 THEN -n ELSE n

\* The digits of a natural number, at least w of them.
DigitsOf(n, w) ==
    LET size == Least({d \in w..9 : n < 10^d})
    IN  [i \in 1..size |-> 48 + ((n \div 10^(size - i)) % 10)]

\* std::to_chars for an int.
IntText(n) == Sign(n) \o DigitsOf(Abs(n), 1)

\* n / d to the nearest integer, a tie to the even one.
Nearest(n, d) ==
    LET up == 2 * (n % d) > d \/ (2 * (n % d) = d /\ (n \div d) % 2 = 1)
    IN  IF up THEN (n \div d) + 1 ELSE n \div d

\* std::to_string for a double: fixed notation, Decimals digits.
DoubleText(x) ==
    LET m == Abs(x[1])
        scaled == IF x[2] <= Decimals THEN m * 10^(Decimals - x[2])
                  ELSE Nearest(m, 10^(x[2] - Decimals))
    IN  Sign(x[1]) \o DigitsOf(scaled \div 10^Decimals, 1)
          \o <<Dot>> \o DigitsOf(scaled % 10^Decimals, Decimals)

Escape(c) == CASE c \in {Quote, Backslash} -> <<Backslash, c>>
               [] c = NewLine              -> <<Backslash, LetterN>>
               [] OTHER                    -> <<c>>

QuotedString(s) ==
    <<Quote>> \o SX!FlattenSeq([i \in DOMAIN s |-> Escape(s[i])]) \o <<Quote>>

\* A line break and the indent of a level, when pretty.
Break(pretty, level) ==
    IF pretty THEN <<NewLine>> \o [i \in 1..level |-> Space] ELSE <<>>

Bracketed(open, items, close, pretty, level) ==
    IF items = <<>> THEN <<open, close>>
    ELSE <<open>> \o Break(pretty, level)
         \o Join(items, <<Comma>> \o Break(pretty, level))
         \o Break(pretty, level - 1) \o <<close>>

RECURSIVE ValueText(_, _, _)
ValueText(val, pretty, level) ==
    CASE val.t = "null"   -> <<WordNull>>
      [] val.t = "bool"   -> <<IF val.v[1] THEN WordTrue ELSE WordFalse>>
      [] val.t = "int"    -> IntText(val.v)
      [] val = NotFinite  -> <<WordNaN>>
      [] val.t = "double" -> DoubleText(val.v)
      [] val.t = "string" -> QuotedString(val.v)
      [] val.t = "array"  ->
           Bracketed(OpenArr, [i \in DOMAIN val.v |->
                                 ValueText(val.v[i], pretty, level + 1)],
                     CloseArr, pretty, level + 1)
      [] val.t = "object" ->
           LET keys == SX!SetToSeq(DOMAIN val.v)
           IN  Bracketed(OpenObj,
                 [i \in DOMAIN keys |->
                    QuotedString(keys[i])
                      \o (IF pretty THEN <<Colon, Space>> ELSE <<Colon>>)
                      \o ValueText(val.v[keys[i]], pretty, level + 1)],
                 CloseObj, pretty, level + 1)

Generate(val, pretty) == ValueText(val, pretty, 0)
-----------------------------------------------------------------------------
(* Parser: the two passes over the text that lenient mode puts in front.   *)
CharAt(s, i) == IF i \in DOMAIN s THEN s[i] ELSE 0

SkipWhite(s, i) ==
    LET P == {p \in i..Len(s) : s[p] \notin White}
    IN  IF P = {} THEN Len(s) + 1 ELSE Least(P)

\* One character of removeTailComma; st is the state of its loop.
CommaStep(s, st, i) ==
    LET c == s[i]
        inString == st.inString # (c = Quote /\ CharAt(s, i - 1) # Backslash)
        inArray == IF inString THEN st.inArray
                   ELSE (st.inArray /\ c # CloseArr) \/ c = OpenArr
        inObject == IF inString THEN st.inObject
                    ELSE (st.inObject /\ c # CloseObj) \/ c = OpenObj
        drop == /\ ~inString /\ (inArray \/ inObject) /\ c = Comma
                /\ CharAt(s, SkipWhite(s, i + 1)) \in {CloseArr, CloseObj}
    IN  [inString |-> inString, inArray |-> inArray, inObject |-> inObject,
         out |-> IF drop THEN st.out ELSE Append(st.out, c)]

removeTailComma(s) ==
    SX!FoldLeft(LAMBDA st, i : CommaStep(s, st, i),
                [inString |-> FALSE, inArray |-> FALSE, inObject |-> FALSE,
                 out |-> <<>>],
                [i \in DOMAIN s |-> i]).out

\* Mutant: an escaped quote ends a string.
TogglesUnescaped(s, i) == s[i] = Quote

TogglesString(s, i) ==
    /\ s[i] = Quote
    /\ \/ CharAt(s, i - 1) # Backslash
       \/ CharAt(s, i - 2) = Backslash

\* removeComments: mode is "code", "string", "line" or "block".
RECURSIVE CommentsFrom(_, _, _)
CommentsFrom(s, i, mode) ==
    IF i > Len(s) THEN <<>>
    ELSE LET c == s[i]
             next == CharAt(s, i + 1)
         IN CASE mode = "line" ->
                   IF c = NewLine THEN <<c>> \o CommentsFrom(s, i + 1, "code")
                                  ELSE CommentsFrom(s, i + 1, "line")
              [] mode = "block" ->
                   IF c = Star /\ next = Slash
                   THEN CommentsFrom(s, i + 2, "code")
                   ELSE CommentsFrom(s, i + 1, "block")
              [] mode \in {"code", "string"} /\ TogglesString(s, i) ->
                   <<c>> \o CommentsFrom(s, i + 1,
                              IF mode = "code" THEN "string" ELSE "code")
              [] mode = "code" /\ c = Slash /\ next = Slash ->
                   CommentsFrom(s, i + 2, "line")
              [] mode = "code" /\ c = Slash /\ next = Star ->
                   CommentsFrom(s, i + 2, "block")
              [] OTHER -> <<c>> \o CommentsFrom(s, i + 1, mode)

removeComments(s) == CommentsFrom(s, 1, "code")
-----------------------------------------------------------------------------
(* Parser proper.  A result is a value and the position behind it, or      *)
(* Failed for the exception.                                               *)
Result(val, i) == [ok |-> TRUE, val |-> val, i |-> i]
Failed == [ok |-> FALSE, val |-> Null, i |-> 0]

SkipDigits(s, i) ==
    LET P == {p \in i..Len(s) : s[p] \notin Digits}
    IN  IF P = {} THEN Len(s) + 1 ELSE Least(P)

\* The number digits stand for.
NatOf(digits) == SX!FoldLeft(LAMBDA n, c : 10 * n + (c - 48), 0, digits)

parseNumber(s, i) ==
    LET sign == IF CharAt(s, i) = Minus THEN -1 ELSE 1
        int0 == IF CharAt(s, i) \in {Minus, Plus} THEN i + 1 ELSE i
        int1 == SkipDigits(s, int0)
        frac == CharAt(s, int1) = Dot
        frac1 == IF frac THEN SkipDigits(s, int1 + 1) ELSE int1
        exp == CharAt(s, frac1) = ExpE
        exp0 == IF CharAt(s, frac1 + 1) \in {Plus, Minus}
                THEN frac1 + 2 ELSE frac1 + 1
        end == IF exp THEN SkipDigits(s, exp0) ELSE frac1
        fraction == SubSeq(s, int1 + 1, frac1 - 1)
        digits == SubSeq(s, int0, int1 - 1) \o fraction
        n == sign * NatOf(digits)
        e == (IF CharAt(s, frac1 + 1) = Minus THEN -1 ELSE 1)
                * NatOf(SubSeq(s, exp0, end - 1))
    IN  IF ~frac /\ ~exp /\ digits # <<>> /\ n \in -MaxInt - 1 .. MaxInt
        THEN Result(IntOf(n), end)
        ELSE IF digits # <<>> /\ (exp => end > exp0)    \* std::from_chars
             THEN Result(DoubleOf(n, Len(fraction) - (IF exp THEN e ELSE 0)), end)
             ELSE Failed

\* The bytes of a code point, and the code point of a surrogate pair.
Low6(x) == 128 + (x % 64)
Utf8(cp) ==
    CASE cp <= 127   -> <<cp>>
      [] cp <= 2047  -> <<192 + (cp \div 64), Low6(cp)>>
      [] cp <= 65535 -> <<224 + (cp \div 4096), Low6(cp \div 64), Low6(cp)>>
      [] OTHER       -> <<240 + (cp \div 262144), Low6(cp \div 4096),
                          Low6(cp \div 64), Low6(cp)>>

IsHigh(u) == u \in 55296..56319
IsLow(u) == u \in 56320..57343
Pair(high, low) == 65536 + (high - 55296) * 1024 + (low - 56320)

\* s[i] is the 'u' of an escape; a character must follow the digits.
ParseUnicode(s, i) ==
    LET unit == CharAt(s, i + 1) - 100000
        low == CharAt(s, i + 4) - 100000
    IN  IF ~IsHex4(CharAt(s, i + 1)) \/ i + 1 >= Len(s) THEN Failed
        ELSE IF ~IsHigh(unit) THEN Result(Utf8(unit), i + 2)
        ELSE IF /\ i + 4 < Len(s) /\ IsLow(low)
                /\ s[i + 2] = Backslash /\ s[i + 3] = LetterU
             THEN Result(Utf8(Pair(unit, low)), i + 5)
             ELSE Failed

\* s[i] is behind the opening quote; acc is what has been read.
RECURSIVE StringFrom(_, _, _)
StringFrom(s, i, acc) ==
    LET c == CharAt(s, i)
        e == CharAt(s, i + 1)
    IN CASE i > Len(s)      -> Failed
         [] c = Quote       -> Result(acc, i + 1)
         [] c = Backslash ->
              IF e \in {Quote, Backslash, Slash}
              THEN StringFrom(s, i + 2, Append(acc, e))
              ELSE IF e = LetterN THEN StringFrom(s, i + 2, Append(acc, NewLine))
              ELSE IF e # LetterU THEN Failed
              ELSE LET u == ParseUnicode(s, i + 1)
                   IN IF u.ok THEN StringFrom(s, u.i, acc \o u.val) ELSE Failed
         [] OTHER           -> StringFrom(s, i + 1, Append(acc, c))

RECURSIVE parseValue(_, _), ItemsFrom(_, _, _), MembersFrom(_, _, _)

parseArray(s, i) ==
    LET j == SkipWhite(s, i)
    IN  IF CharAt(s, j) = CloseArr THEN Result(Arr(<<>>), j + 1)
        ELSE ItemsFrom(s, j, <<>>)

ItemsFrom(s, i, items) ==
    LET item == parseValue(s, i)
        j == SkipWhite(s, item.i)
    IN CASE ~item.ok -> Failed
         [] CharAt(s, j) = Comma ->
              ItemsFrom(s, SkipWhite(s, j + 1), Append(items, item.val))
         [] CharAt(s, j) = CloseArr ->
              Result(Arr(Append(items, item.val)), j + 1)
         [] OTHER -> Failed

parseObject(s, i) ==
    LET j == SkipWhite(s, i)
    IN  IF CharAt(s, j) = CloseObj THEN Result(Obj([k \in {} |-> Null]), j + 1)
        ELSE MembersFrom(s, j, Obj([k \in {} |-> Null]))

MembersFrom(s, i, obj) ==
    LET key == IF CharAt(s, i) = Quote THEN StringFrom(s, i + 1, <<>>)
               ELSE Failed
        colon == SkipWhite(s, key.i)
        value == IF key.ok /\ CharAt(s, colon) = Colon
                 THEN parseValue(s, colon + 1) ELSE Failed
        j == SkipWhite(s, value.i)
        more == Put(obj, key.val, value.val)
    IN CASE ~value.ok -> Failed
         [] CharAt(s, j) = Comma -> MembersFrom(s, SkipWhite(s, j + 1), more)
         [] CharAt(s, j) = CloseObj -> Result(more, j + 1)
         [] OTHER -> Failed

parseValue(s, i0) ==
    LET i == SkipWhite(s, i0)
        c == CharAt(s, i)
        str == StringFrom(s, i + 1, <<>>)
    IN CASE c = WordNull  -> Result(Null, i + 1)
         [] c = WordTrue  -> Result(Bool(TRUE), i + 1)
         [] c = WordFalse -> Result(Bool(FALSE), i + 1)
         [] c = Quote     -> IF str.ok THEN Result(Str(str.val), str.i)
                             ELSE Failed
         [] c = OpenArr   -> parseArray(s, i + 1)
         [] c = OpenObj   -> parseObject(s, i + 1)
         [] c \in Digits \union {Minus} -> parseNumber(s, i)
         [] OTHER         -> Failed

\* What stands behind the value is not looked at.
Parse(s, strict) ==
    parseValue(IF strict THEN s ELSE removeComments(removeTailComma(s)), 1)
=============================================================================
