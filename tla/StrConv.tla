------------------------------- MODULE StrConv -------------------------------
(***************************************************************************)
(* src/breutil/strconv.hpp: numbers and quoted strings.  The integers have *)
(* Bits bits where the code has 64 and HalfBits where it has 32, so that   *)
(* every boundary is within reach.  A std::optional is a set with at most  *)
(* one element.                                                            *)
(***************************************************************************)
EXTENDS Text

LOCAL SC == INSTANCE SequencesExt

CONSTANTS Bits, HalfBits

Nullopt == {}
MaxInt == 2 ^ (Bits - 1) - 1
MinInt == -(2 ^ (Bits - 1))
MaxUint == 2 ^ Bits - 1
MaxHalf == 2 ^ (HalfBits - 1) - 1
MinHalf == -(2 ^ (HalfBits - 1))
MaxUhalf == 2 ^ HalfBits - 1
PlusSign == 43
MinusSign == 45
CharZero == 48
-----------------------------------------------------------------------------
(* Numbers *)
DigitOf(c) == CASE c \in 48..57  -> c - 48
                [] c \in 97..122 -> c - 87
                [] c \in 65..90  -> c - 55
                [] OTHER         -> 99

CharOf(d) == IF d < 10 THEN 48 + d ELSE 87 + d

RECURSIVE Numeral(_, _)
Numeral(n, base) ==
    IF n < base THEN <<CharOf(n)>>
    ELSE Append(Numeral(n \div base, base), CharOf(n % base))

\* FormatInt and FormatUint: the sign, then std::to_chars.
FormatInt(value, base) ==
    IF base \notin 2..36 THEN <<>>
    ELSE IF value < 0 THEN <<MinusSign>> \o Numeral(-value, base)
    ELSE Numeral(value, base)

\* What base 0 reads from a prefix: the base, and the digits behind it.
Prefixed(sv, base) ==
    LET marked(c) == Len(sv) > 1 /\ sv[1] = CharZero /\ sv[2] \in {c, c - 32}
    IN  CASE base # 0    -> [base |-> base, digits |-> sv]
          [] marked(120) -> [base |-> 16, digits |-> Rest(sv, 3)]
          [] marked(98)  -> [base |-> 2, digits |-> Rest(sv, 3)]
          [] marked(111) -> [base |-> 8, digits |-> Rest(sv, 3)]
          [] OTHER -> IF Len(sv) > 0 /\ sv[1] = CharZero
                      THEN [base |-> 8, digits |-> Rest(sv, 2)]
                      ELSE [base |-> 10, digits |-> sv]

HasSign(s) == s # <<>> /\ s[1] \in {PlusSign, MinusSign}
Unsigned(s) == IF HasSign(s) THEN Tail(s) ELSE s

Scannable(s, base) ==
    LET n == Prefixed(Unsigned(s), base)
    IN  /\ s # <<>> /\ n.base \in 2..36 /\ n.digits # <<>>
        /\ \A i \in DOMAIN n.digits : DigitOf(n.digits[i]) < n.base

\* static_cast<int64_t> of an unsigned number.
AsSigned(u) == IF u > MaxInt THEN u - 2 ^ Bits ELSE u

\* The product of the code is unsigned: it wraps at 2^Bits.  For a negative
\* number 2^(Bits - 1) passes and is MinInt as a signed value.
SignedLimit(negative) == IF negative THEN MaxInt + 1 ELSE MaxInt

AddSigned(acc, digit, base, negative) ==
    LET next == ((acc.value % (2 ^ Bits)) * base + digit) % (2 ^ Bits)
    IN  IF ~acc.ok \/ next > SignedLimit(negative)
        THEN [ok |-> FALSE, value |-> 0]
        ELSE [ok |-> TRUE, value |-> AsSigned(next)]

\* value = -value: of MinInt it is undefined, and MinInt again on the machines
\* the library is built for.
Negated(value) == AsSigned((-value) % (2 ^ Bits))

ParseInt(s, base, bitSize) ==
    LET n == Prefixed(Unsigned(s), base)
        negative == s[1] = MinusSign
        acc == SC!FoldLeft(LAMBDA a, c : AddSigned(a, DigitOf(c), n.base, negative),
                        [ok |-> TRUE, value |-> 0], n.digits)
        value == IF negative THEN Negated(acc.value) ELSE acc.value
    IN  IF ~Scannable(s, base) \/ ~acc.ok THEN Nullopt
        ELSE IF bitSize = HalfBits /\ value \notin MinHalf..MaxHalf THEN Nullopt
        ELSE {value}

AddUnsigned(acc, digit, base) ==
    IF ~acc.ok \/ acc.value > (MaxUint - digit) \div base
    THEN [ok |-> FALSE, value |-> 0]
    ELSE [ok |-> TRUE, value |-> acc.value * base + digit]

\* Mutant: the bound forgets the digit that is added.
AddUnsignedShort(acc, digit, base) ==
    IF ~acc.ok \/ acc.value > MaxUint \div base
    THEN [ok |-> FALSE, value |-> 0]
    ELSE [ok |-> TRUE, value |-> (acc.value * base + digit) % (2 ^ Bits)]

AddDigit(acc, digit, base) == AddUnsigned(acc, digit, base)

ParseUint(s, base, bitSize) ==
    LET n == Prefixed(Unsigned(s), base)
        acc == SC!FoldLeft(LAMBDA a, c : AddDigit(a, DigitOf(c), n.base),
                        [ok |-> TRUE, value |-> 0], n.digits)
    IN  IF ~Scannable(s, base) \/ s[1] = MinusSign \/ ~acc.ok THEN Nullopt
        ELSE IF bitSize = HalfBits /\ acc.value > MaxUhalf THEN Nullopt
        ELSE {acc.value}

\* The number a row of digits stands for.
Exact(digits, base) ==
    SC!FoldLeft(LAMBDA n, c : n * base + DigitOf(c), 0, digits)

ExactSigned(s, digits, base) ==
    IF s[1] = MinusSign THEN -Exact(digits, base) ELSE Exact(digits, base)

\* Atoi: an optional '+', then std::from_chars of an int to the very end.
Atoi(s) ==
    LET t == IF s # <<>> /\ s[1] = PlusSign THEN Tail(s) ELSE s
    IN  IF ~Scannable(t, 10) \/ (t # s /\ HasSign(t)) THEN Nullopt
        ELSE {ExactSigned(t, Unsigned(t), 10)} \intersect (MinHalf..MaxHalf)

ParseBool(s) ==
    LET lower == ToLower(s)
    IN  CASE lower \in {<<116, 114, 117, 101>>, <<49>>, <<116>>,
                        <<121, 101, 115>>} -> {TRUE}
          [] lower \in {<<102, 97, 108, 115, 101>>, <<48>>, <<102>>,
                        <<110, 111>>} -> {FALSE}
          [] OTHER -> Nullopt

FormatBool(b) == IF b THEN <<116, 114, 117, 101>> ELSE <<102, 97, 108, 115, 101>>
-----------------------------------------------------------------------------
(* Quoted strings *)
DQuote == 34
SQuote == 39
Backtick == 96
BackSlash == 92
LetterX == 120

\* \a \b \f \n \r \t \v: the control character of each letter.
ControlOf == [c \in {97, 98, 102, 110, 114, 116, 118} |->
                CASE c = 97 -> 7 [] c = 98 -> 8 [] c = 102 -> 12 [] c = 110 -> 10
                  [] c = 114 -> 13 [] c = 116 -> 9 [] OTHER -> 11]

Controls == {ControlOf[c] : c \in DOMAIN ControlOf}
LetterOf(ctl) == CHOOSE c \in DOMAIN ControlOf : ControlOf[c] = ctl

HexEscape(b) == <<BackSlash, LetterX, CharOf(b \div 16), CharOf(b % 16)>>

IsPrint(r) == r >= 32 /\ r # 127 /\ r \notin 55296..57343
IsGraphic(r) == IsPrint(r) /\ r # 32

Quoted(s, Escaped(_)) ==
    <<DQuote>> \o SC!FlattenSeq([i \in DOMAIN s |-> Escaped(s[i])]) \o <<DQuote>>

Escape(c) ==
    CASE c \in {BackSlash, DQuote} -> <<BackSlash, c>>
      [] c \in Controls            -> <<BackSlash, LetterOf(c)>>
      [] c < 32 \/ c = 127         -> HexEscape(c)
      [] OTHER                     -> <<c>>

EscapeAscii(c) ==
    CASE c < 32 \/ c = 127 \/ c >= 128 -> HexEscape(c)
      [] c \in {BackSlash, DQuote}     -> <<BackSlash, c>>
      [] OTHER                         -> <<c>>

EscapeGraphic(c) ==
    CASE ~IsGraphic(c)             -> HexEscape(c)
      [] c \in {BackSlash, DQuote} -> <<BackSlash, c>>
      [] OTHER                     -> <<c>>

Quote(s) == Quoted(s, Escape)
QuoteToASCII(s) == Quoted(s, EscapeAscii)
QuoteToGraphic(s) == Quoted(s, EscapeGraphic)

\* The text up to the next quote character, or nothing when there is none.
QuotedPrefix(s) ==
    IF s = <<>> \/ s[1] \notin {DQuote, SQuote} THEN <<>>
    ELSE SubSeq(s, 1, Find(s, <<s[1]>>, 2))

\* One unit of a quoted text: its byte and the position behind it, or 0 when
\* the text must not end there.  end is the position of the closing quote.
\* s[p] is an 'x': sscanf("%2x") needs one digit, the code passes over two.
\* (The blanks and signs sscanf would also take do not come from Quote.)
HexUnit(s, p, end) ==
    LET d1 == DigitOf(s[p + 1])
        d2 == DigitOf(s[p + 2])
    IN  IF p + 2 >= end \/ d1 > 15 THEN [byte |-> 0, next |-> 0]
        ELSE [byte |-> IF d2 > 15 THEN d1 ELSE 16 * d1 + d2, next |-> p + 3]

Unit(s, p, end) ==
    LET nxt == s[p + 1]
    IN  CASE s[p] # BackSlash -> [byte |-> s[p], next |-> p + 1]
          [] s[p] = BackSlash /\ p + 1 >= end -> [byte |-> 0, next |-> 0]
          [] s[p] = BackSlash /\ p + 1 < end ->
               IF nxt = LetterX THEN HexUnit(s, p + 1, end)
               ELSE [byte |-> IF nxt \in DOMAIN ControlOf THEN ControlOf[nxt] ELSE nxt,
                     next |-> p + 2]

RECURSIVE UnquoteFrom(_, _, _)
UnquoteFrom(s, p, out) ==
    IF p >= Len(s) THEN {out}
    ELSE LET u == Unit(s, p, Len(s))
         IN  IF u.next = 0 THEN Nullopt ELSE UnquoteFrom(s, u.next, Append(out, u.byte))

Unquote(s) ==
    IF Len(s) < 2 THEN Nullopt
    ELSE IF s[Len(s)] # s[1] THEN Nullopt
    ELSE IF s[1] = Backtick THEN {SubSeq(s, 2, Len(s) - 1)}
    ELSE UnquoteFrom(s, 2, <<>>)

\* UnquoteChar: the same unit at the head of a text without closing quote.  A
\* char above 127 is negative; its char32_t is that number modulo 2^32.
UnquoteChar(s, quote) ==
    IF s = <<>> THEN Nullopt
    ELSE IF s[1] = quote THEN Nullopt
    ELSE LET u == Unit(s, 1, Len(s) + 1)
             hex == s[1] = BackSlash /\ Len(s) > 1 /\ s[2] = LetterX
         IN  IF u.next = 0 THEN Nullopt
             ELSE {[char |-> IF u.byte > 127 /\ ~hex THEN u.byte - 256 ELSE u.byte,
                    rest |-> Rest(s, u.next)]}
=============================================================================
