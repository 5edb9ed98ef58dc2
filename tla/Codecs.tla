------------------------------- MODULE Codecs -------------------------------
(***************************************************************************)
(* The byte codecs: Base64 (encoding/base64.hpp), Hex (encoding/hex.hpp),  *)
(* the fixed-width integers of binary_io.hpp and NetHeader                 *)
(* (net/net_header.hpp).  Bytes and characters are numbers; positions      *)
(* count from 1.  ByteBase is the number of values of a byte in the        *)
(* fixed-width integers (256 in the code): a small base keeps the range of *)
(* an integer of Width bytes small enough to enumerate.                    *)
(***************************************************************************)
EXTENDS Integers, Sequences

CONSTANTS ByteBase, Width, HeaderSize

-----------------------------------------------------------------------------
(* Base64 *)
Pad == 61
Invalid == 255

decode_value(c) == IF c \in 65..90 THEN c - 65
                   ELSE IF c \in 97..122 THEN c - 71
                   ELSE IF c \in 48..57 THEN c + 4
                   ELSE IF c = 43 THEN 62
                   ELSE IF c = 47 THEN 63
                   ELSE Invalid

Alphabet == [v \in 0..63 |-> CHOOSE c \in 0..255 : decode_value(c) = v]

IsBase64Char(c) == decode_value(c) # Invalid

Padding64(data) ==
    LET n == Len(data)
    IN  IF data[n] # Pad THEN 0 ELSE IF data[n - 1] # Pad THEN 1 ELSE 2

\* Mutant: the bits behind the last byte are not looked at.
AnyPad(data, padding) == TRUE

CanonicalPad(data, padding) ==
    /\ padding = 1 => decode_value(data[Len(data) - 1]) % 4 = 0
    /\ padding = 2 => decode_value(data[Len(data) - 2]) % 16 = 0

IsBase64Encoded(data) ==
    \/ data = <<>>
    \/ /\ Len(data) % 4 = 0
       /\ LET padding == Padding64(data)
          IN  /\ Len(data) > padding
              /\ \A i \in 1..(Len(data) - padding) : IsBase64Char(data[i])
              /\ CanonicalPad(data, padding)

\* What the digits of a group and its bytes weigh: 64 and 256 to the power of
\* what follows them.
Weights64 == <<64 * 64 * 64, 64 * 64, 64, 1>>
Weights256 == <<256 * 256, 256, 1>>

\* A group of up to three bytes, missing ones zero, and its four digits.
Group24(data, i) ==
    LET byte(k) == IF k <= Len(data) THEN data[k] ELSE 0
    IN  byte(i) * Weights256[1] + byte(i + 1) * Weights256[2] + byte(i + 2)

Digit64(value, k) == (value \div Weights64[k]) % 64

Encode(data) ==
    [j \in 1..(4 * ((Len(data) + 2) \div 3)) |->
       LET group == (j - 1) \div 4
           k == ((j - 1) % 4) + 1
           left == Len(data) - 3 * group
       IN  IF k > left + 1 THEN Pad
           ELSE Alphabet[Digit64(Group24(data, 3 * group + 1), k)]]

\* Decode answers a Boolean and leaves the bytes in result.
Decode(data) ==
    IF ~IsBase64Encoded(data) THEN [ok |-> FALSE, result |-> <<>>]
    ELSE IF data = <<>> THEN [ok |-> TRUE, result |-> <<>>]
    ELSE LET size == 3 * (Len(data) \div 4) - Padding64(data)
             digit(i) == IF data[i] = Pad THEN 0 ELSE decode_value(data[i])
             value(g) == digit(4*g + 1) * Weights64[1] + digit(4*g + 2) * Weights64[2]
                         + digit(4*g + 3) * Weights64[3] + digit(4*g + 4)
         IN  [ok |-> TRUE,
              result |-> [j \in 1..size |->
                 (value((j - 1) \div 3) \div Weights256[((j - 1) % 3) + 1]) % 256]]
-----------------------------------------------------------------------------
(* Hex *)
HexChar(v, uppercase) ==
    IF v < 10 THEN 48 + v ELSE (IF uppercase THEN 55 ELSE 87) + v

FromBytes(data, uppercase) ==
    [j \in 1..(2 * Len(data)) |->
       LET byte == data[(j + 1) \div 2]
       IN  HexChar(IF j % 2 = 1 THEN byte \div 16 ELSE byte % 16, uppercase)]

HexValue(c) == IF c \in 48..57 THEN c - 48
               ELSE IF c \in 65..70 THEN c - 55
               ELSE IF c \in 97..102 THEN c - 87
               ELSE -1

\* std::stoi(two, nullptr, 16) & 0xFF, or -1 for the exception.
StoiHex(two) ==
    LET signed == two[1] \in {43, 45}
        blank == two[1] \in {9, 10, 11, 12, 13, 32}
        from == IF signed \/ blank THEN 2 ELSE 1
        first == IF from <= Len(two) THEN HexValue(two[from]) ELSE -1
        second == IF from < Len(two) THEN HexValue(two[from + 1]) ELSE -1
        value == IF second = -1 THEN first ELSE 16 * first + second
    IN  IF first = -1 THEN -1
        ELSE IF two[1] = 45 THEN (256 - value) % 256 ELSE value

\* The bytes of a hex string, or <<-1>> when a pair is no number.
ToBytes(hex) ==
    LET byte == [k \in 1..((Len(hex) + 1) \div 2) |->
                   StoiHex(SubSeq(hex, 2*k - 1,
                     IF 2*k <= Len(hex) THEN 2*k ELSE Len(hex)))]
    IN  IF \E k \in DOMAIN byte : byte[k] = -1 THEN <<-1>> ELSE byte
-----------------------------------------------------------------------------
(* Fixed-width integers: two's complement, most significant byte first.    *)
Range2 == ByteBase ^ Width
SignedInts == (-(Range2 \div 2))..((Range2 \div 2) - 1)

BigEndian(bits) ==
    [i \in 1..Width |-> (bits \div (ByteBase ^ (Width - i))) % ByteBase]

WireBytes(bits) == BigEndian(bits)

AppendInteger(output, value) == output \o WireBytes(value % Range2)

\* The bits of the Width bytes behind offset.
BitsOf(bytes, offset) ==
    LET bits[n \in 0..Width] ==
          IF n = 0 THEN 0
          ELSE (bits[n - 1] * ByteBase + bytes[offset + n]) % Range2
    IN  bits[Width]

\* offset counts the bytes before the cursor; an incomplete input moves nothing.
ReadInteger(bytes, offset, value) ==
    IF offset > Len(bytes) \/ Len(bytes) - offset < Width
    THEN [ok |-> FALSE, offset |-> offset, value |-> value]
    ELSE LET bits == BitsOf(bytes, offset)
         IN  [ok |-> TRUE, offset |-> offset + Width,
              value |-> IF bits >= Range2 \div 2 THEN bits - Range2 ELSE bits]
-----------------------------------------------------------------------------
(* NetHeader: hdr has the fields Data and FileSize.  The size is stored in *)
(* the byte order of the machine, little endian.                           *)
Magic == <<66, 82, 69, 90>>

NewHeader == [Data |-> Magic \o [i \in 1..(HeaderSize - 4) |-> 0],
              FileSize |-> 0]

SizeField(data) ==
    LET sum[n \in 0..Width] ==
          IF n = 0 THEN 0
          ELSE data[4 + n] * (ByteBase ^ (n - 1)) + sum[n - 1]
    IN  sum[Width]

ParseHeader(hdr, data) ==
    IF Len(data) < HeaderSize \/ SubSeq(data, 1, 4) # Magic
    THEN [ok |-> FALSE, hdr |-> hdr]
    ELSE [ok |-> TRUE, hdr |-> [Data |-> data, FileSize |-> SizeField(data)]]

GetHeaderData(hdr, size) ==
    [Data |-> [i \in DOMAIN hdr.Data |->
                 IF i \in 5..(4 + Width)
                 THEN (size \div (ByteBase ^ (i - 5))) % ByteBase
                 ELSE hdr.Data[i]],
     FileSize |-> size % Range2]

\* FileSize goes to 0, the size bytes of Data stay as they are.
ResetHeader(hdr) ==
    [Data |-> Magic \o SubSeq(hdr.Data, 5, Len(hdr.Data)), FileSize |-> 0]
=============================================================================
