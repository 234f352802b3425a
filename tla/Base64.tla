------------------------------- MODULE Base64 -------------------------------
(***************************************************************************)
(* cso_b64.h: the encoder and the decoder, written in Lua with patterns    *)
(* over strings of binary digits, through which cso.lua gets into the      *)
(* program: cso_script.h holds it encoded, lua_init decodes and loads it.  *)
(* A text is a sequence of digits 0 .. 63, "=" is Equals, and any other    *)
(* character is Foreign.                                                   *)
(***************************************************************************)
EXTENDS Integers, Sequences

Byte == 0 .. 255
Digit == 0 .. 63
Equals == 64
Foreign == 65

Bit(x, n) == (x \div 2 ^ n) % 2

\* The binary digits of all numbers in s, w of each, the first one first.
Bits(s, w) ==
  [k \in 1 .. w * Len(s) |-> Bit(s[(k - 1) \div w + 1], w - 1 - ((k - 1) % w))]

\* The numbers that groups of six, or of eight, binary digits stand for.  A group
\* that is not full is dropped: '%d%d%d?...' takes what is left, and the function
\* returns ''.  (One digit alone would not match and stay; their number is even.)
Sextets(bits) ==
  [g \in 1 .. Len(bits) \div 6 |->
     LET d(k) == bits[6 * (g - 1) + k]
     IN  32 * d(1) + 16 * d(2) + 8 * d(3) + 4 * d(4) + 2 * d(5) + d(6)]

Octets(bits) ==
  [g \in 1 .. Len(bits) \div 8 |->
     LET d(k) == bits[8 * (g - 1) + k]
     IN  128 * d(1) + 64 * d(2) + 32 * d(3) + 16 * d(4) + 8 * d(5) + 4 * d(6) + 2 * d(7) + d(8)]

Pad(n) == <<<<>>, <<Equals, Equals>>, <<Equals>>>>[(n % 3) + 1]

\* cso_base64_enc.  Four zeros fill up the last group, if one is open.
Enc(data) == Sextets(Bits(data, 8) \o <<0, 0, 0, 0>>) \o Pad(Len(data))

\* Mutant: "=" is taken for the digit 0.
TakenEquals(c) == IF c = Equals THEN <<0>> ELSE IF c \in Digit THEN <<c>> ELSE <<>>

\* Other characters are removed first, "=" while the digits are written out.
Taken(c) == IF c \in Digit THEN <<c>> ELSE <<>>

\* The digits of a text.
DigitsOf(text) ==
  LET digits[n \in 0 .. Len(text)] ==
        IF n = 0 THEN <<>> ELSE digits[n - 1] \o Taken(text[n])
  IN  digits[Len(text)]

\* cso_base64_dec.
Dec(text) == Octets(Bits(DigitsOf(text), 6))

-----------------------------------------------------------------------------
(* Base64 as RFC 4648 defines it, by arithmetic on groups of three bytes.  *)

Block(data, g) ==
  LET n == Len(data) - 3 * (g - 1)
      a == data[3 * g - 2]
      b == IF n > 1 THEN data[3 * g - 1] ELSE 0
      c == IF n > 2 THEN data[3 * g] ELSE 0
  IN << a \div 4, (a % 4) * 16 + b \div 16,
        IF n > 1 THEN (b % 16) * 4 + c \div 64 ELSE Equals,
        IF n > 2 THEN c % 64 ELSE Equals >>

Base64(data) ==
  [k \in 1 .. 4 * ((Len(data) + 2) \div 3) |-> Block(data, (k - 1) \div 4 + 1)[((k - 1) % 4) + 1]]

Broken(text, k) == SubSeq(text, 1, k) \o <<Foreign>> \o SubSeq(text, k + 1, Len(text))

\* The encoder writes Base64, whatever the length of the data leaves for the
\* last group, and the decoder gives back the data, byte for byte, also when the
\* padding is missing, or a line is broken anywhere.
Survives(data) ==
  LET text == Base64(data)
  IN  /\ Enc(data) = text
      /\ \A n \in Len(text) - Len(Pad(Len(data))) .. Len(text) : Dec(SubSeq(text, 1, n)) = data
      /\ \A k \in 0 .. Len(text) : Dec(Broken(text, k)) = data
=============================================================================
