------------------------------ MODULE TextCodecs ------------------------------
(***************************************************************************)
(* The functions on text of StringUtils and Conversions.  A character is   *)
(* its code, a string a sequence of codes; a pointer into a string is the  *)
(* position in it, the null pointer is 0.                                  *)
(***************************************************************************)
EXTENDS Naturals, Sequences

Byte == 0 .. 255
Least(S) == CHOOSE n \in S : \A m \in S : n <= m

CR == 13
Percent == 37
Plus == 43
Space == 32

Digits == 48 .. 57
Lowercase == 97 .. 122
Uppercase == 65 .. 90

-----------------------------------------------------------------------------
(***************************************************************************)
(* Looking for the end of a line.                                          *)
(***************************************************************************)

Returns(data, from, to) == {p \in from .. to : data[p] = CR}

(* Chunks of the width of a vector register, then what is left.  It is the *)
(* CR that is found, whatever stands behind it.                            *)
FindCrlf(data, width) ==
    LET full == Len(data) \div width
        InChunk(k) == Returns(data, k * width + 1, (k + 1) * width)
        hits == {k \in 0 .. full - 1 : InChunk(k) # {}}
        tail == Returns(data, full * width + 1, Len(data))
    IN  IF full > 0 /\ hits # {} THEN Least(InChunk(Least(hits)))
        ELSE IF tail # {} THEN Least(tail) ELSE 0

-----------------------------------------------------------------------------
(***************************************************************************)
(* Numbers.                                                                *)
(***************************************************************************)

(* Stops at the first character that is no digit.  A size_t wraps.         *)
FastAtoi(str, modulus) ==
    LET others == {p \in DOMAIN str : str[p] \notin Digits}
        last == IF others = {} THEN Len(str) ELSE Least(others) - 1
        value[n \in 0 .. Len(str)] ==
            IF n = 0 THEN 0 ELSE (value[n - 1] * 10 + (str[n] - 48)) % modulus
    IN  value[last]

(* std::to_chars: the digits, or nothing if the buffer is too short.       *)
FastItoa(number, room) ==
    LET digits[n \in 0 .. number] ==
            IF n < 10 THEN <<48 + n>> ELSE Append(digits[n \div 10], 48 + (n % 10))
    IN  IF Len(digits[number]) <= room THEN digits[number] ELSE <<>>

-----------------------------------------------------------------------------
(***************************************************************************)
(* Comparing without case.                                                 *)
(***************************************************************************)

(* c | 32                                                                  *)
WithBit32(c) == IF (c \div 32) % 2 = 1 THEN c ELSE c + 32

IequalsSmall(a, b) ==
    Len(a) = Len(b) /\ \A p \in DOMAIN a : WithBit32(a[p]) = WithBit32(b[p])

-----------------------------------------------------------------------------
(***************************************************************************)
(* Base 64.  A character is its place in kBase64Table, "=" is Pad.         *)
(***************************************************************************)

Pad == 64

(* The bytes of the group that character k belongs to, and its chunk.      *)
InGroup(data, k, j) ==
    LET p == 3 * ((k - 1) \div 4) + j IN IF p <= Len(data) THEN data[p] ELSE 0
Chunk(data, k) ==
    256 * (256 * InGroup(data, k, 1) + InGroup(data, k, 2)) + InGroup(data, k, 3)

(* Character k: six bits of the chunk, or a Pad where there is no byte.    *)
Sextet(data, k) ==
    LET rank == (k - 1) % 4 IN
    IF rank = 0 THEN (Chunk(data, k) \div 4096) \div 64
    ELSE IF rank = 1 THEN (Chunk(data, k) \div 4096) % 64
    ELSE IF 3 * ((k - 1) \div 4) + rank > Len(data) THEN Pad
    ELSE IF rank = 2 THEN (Chunk(data, k) \div 64) % 64
    ELSE Chunk(data, k) % 64

Base64Encode(data) ==
    [k \in 1 .. 4 * ((Len(data) + 2) \div 3) |-> Sextet(data, k)]

(* What byte i of the data is to one who decodes.                          *)
Decoded(code, i) ==
    LET rank == (i - 1) % 3
        c(j) == code[4 * ((i - 1) \div 3) + j]
    IN  IF rank = 0 THEN 4 * c(1) + c(2) \div 16
        ELSE IF rank = 1 THEN 16 * (c(2) % 16) + c(3) \div 4
        ELSE 64 * (c(3) % 4) + c(4)

-----------------------------------------------------------------------------
(***************************************************************************)
(* URLs.                                                                   *)
(***************************************************************************)

Unreserved == Digits \cup Lowercase \cup Uppercase \cup {45, 46, 95, 126}

(* The hex digit for n < 16.                                               *)
HexDigit(n) == IF n < 10 THEN 48 + n ELSE 55 + n

UrlEncode(str) ==
    LET encoded[n \in 0 .. Len(str)] ==
            IF n = 0 THEN <<>>
            ELSE encoded[n - 1] \o (IF str[n] \in Unreserved THEN <<str[n]>>
                                    ELSE <<Percent, HexDigit(str[n] \div 16),
                                           HexDigit(str[n] % 16)>>)
    IN  encoded[Len(str)]

(* hexval as it stands in the source: its digits are not at the places of  *)
(* the characters, and all else is 0 and passes for a digit.               *)
HexVal(c) ==
    IF c \in 80 .. 89 THEN c - 80
    ELSE IF c \in 96 .. 101 THEN c - 86
    ELSE IF c \in 129 .. 134 THEN c - 119 ELSE 0

(* A "%" without two characters behind it is left out.                     *)
UrlDecode(str) ==
    LET decoded[n \in 1 .. Len(str) + 1] ==
            IF n > Len(str) THEN <<>>
            ELSE IF str[n] = Percent /\ n + 2 <= Len(str)
            THEN <<16 * HexVal(str[n + 1]) + HexVal(str[n + 2])>> \o decoded[n + 3]
            ELSE IF str[n] = Percent THEN decoded[n + 1]
            ELSE <<IF str[n] = Plus THEN Space ELSE str[n]>> \o decoded[n + 1]
    IN  decoded[1]
=============================================================================
