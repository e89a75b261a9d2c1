------------------------------ MODULE DefBytes ------------------------------
(***************************************************************************)
(* Bytes and the byte-level functions of DEF: the literal class, ASCII     *)
(* case folding, the "-hh" escape and strict UTF-8.  A string is the       *)
(* sequence of its bytes; sequences are indexed from 1, the C arrays they  *)
(* stand for from 0.                                                       *)
(***************************************************************************)
EXTENDS Integers, Sequences

Byte   == 0..255
NUL    == 0
HYPHEN == 45

IsDigit(b) == b \in 48..57

\* a byte that stands for itself in a representation: a-z and 0-9
IsLiteralByte(b) == b \in 97..122 \/ IsDigit(b)

\* ASCII upper case folds to lower case, every other byte is kept
Canonical(b) == IF b \in 65..90 THEN b + 32 ELSE b

\* mutant: 10 is taken for a decimal digit
MutHexDigit(n) == IF n <= 10 THEN 48 + n ELSE 87 + n

HexDigit(n) == IF n < 10 THEN 48 + n ELSE 87 + n

\* mutant: '-' is taken for a literal byte
MutEncodeByte(b) == IF IsLiteralByte(b) \/ b = HYPHEN THEN <<b>>
                    ELSE <<HYPHEN, HexDigit(b \div 16), HexDigit(b % 16)>>

\* what one canonical byte is emitted as: itself, or '-' and two hex digits
EncodeByte(b) == IF IsLiteralByte(b) THEN <<b>>
                 ELSE <<HYPHEN, HexDigit(b \div 16), HexDigit(b % 16)>>

\* only lower-case hexadecimal digits are digits of an escape
IsHexDigit(b) == IsDigit(b) \/ b \in 97..102

\* mutant: 'a' counts as 11
MutNibble(b) == IF IsDigit(b) THEN b - 48 ELSE b - 86

Nibble(b)     == IF IsDigit(b) THEN b - 48 ELSE b - 87
HexByte(h, l) == Nibble(h) * 16 + Nibble(l)

-----------------------------------------------------------------------------
Continues(s, i) == i <= Len(s) /\ s[i] \in 128..191

\* Bytes the well-formed character at position i of s takes, 0 if there is none:
\* over-long forms, surrogates and code points past U+10FFFF are malformed.
Utf8Width(s, i) ==
  LET b == s[i] IN
  CASE b <= 127 -> 1
    [] b \in 194..223 /\ Continues(s, i + 1) -> 2
    [] /\ b \in 224..239 /\ \A d \in 1..2 : Continues(s, i + d)
       /\ b = 224 => s[i + 1] >= 160
       /\ b = 237 => s[i + 1] < 160 -> 3
    [] /\ b \in 240..244 /\ \A d \in 1..3 : Continues(s, i + d)
       /\ b = 240 => s[i + 1] >= 144
       /\ b = 244 => s[i + 1] <= 143 -> 4
    [] OTHER -> 0

\* s is a sequence of well-formed characters
Utf8Validate(s) ==
  LET valid[i \in 1..(Len(s) + 1)] ==
        \/ i = Len(s) + 1
        \/ LET w == Utf8Width(s, i) IN w > 0 /\ valid[i + w]
  IN  valid[1]
=============================================================================
