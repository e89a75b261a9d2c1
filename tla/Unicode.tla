------------------------------ MODULE Unicode ------------------------------
(***************************************************************************)
(* The encodings of Unicode that the ports' platforms convert between: a   *)
(* text is a sequence of code points, which may be surrogates that are not *)
(* paired, and a port sees it as UTF-8 bytes, as UTF-16 units or as it is. *)
(***************************************************************************)
EXTENDS DefBytes
LOCAL INSTANCE SequencesExt

CodePoint     == {c \in Nat : c <= 1114111}
HighSurrogate == 55296..56319
LowSurrogate  == 56320..57343
Surrogate     == HighSurrogate \cup LowSurrogate

\* the last six bits of c \div d as a continuation byte
Tail6(c, d) == 128 + ((c \div d) % 64)

Utf8Char(c) ==
  IF c <= 127 THEN <<c>>
  ELSE IF c <= 2047 THEN <<192 + (c \div 64), Tail6(c, 1)>>
  ELSE IF c <= 65535 THEN <<224 + (c \div 4096), Tail6(c, 64), Tail6(c, 1)>>
  ELSE <<240 + (c \div 262144), Tail6(c, 4096), Tail6(c, 64), Tail6(c, 1)>>

Utf16Char(c) ==
  IF c <= 65535 THEN <<c>>
  ELSE <<55296 + ((c - 65536) \div 1024), 56320 + (c % 1024)>>

\* a surrogate that is not paired gets the three bytes of its code point,
\* which no strict decoder takes for UTF-8
Utf8(text)  == FlattenSeq([j \in DOMAIN text |-> Utf8Char(text[j])])
Utf16(text) == FlattenSeq([j \in DOMAIN text |-> Utf16Char(text[j])])

\* the code points of a string of UTF-16 units
FromUtf16(s) ==
  LET isPair(i) == i < Len(s) /\ s[i] \in HighSurrogate /\ s[i + 1] \in LowSurrogate
      text[i \in 1..(Len(s) + 1)] ==
        IF i > Len(s) THEN <<>>
        ELSE IF isPair(i)
        THEN <<65536 + ((s[i] - 55296) * 1024) + (s[i + 1] - 56320)>> \o text[i + 2]
        ELSE <<s[i]>> \o text[i + 1]
  IN  text[1]

\* the code points of UTF-8, as far as it is well-formed
FromUtf8(s) ==
  LET tail(i) == s[i] % 64
      codePoint(i, w) ==
        CASE w = 1 -> s[i]
          [] w = 2 -> ((s[i] % 32) * 64) + tail(i + 1)
          [] w = 3 -> ((s[i] % 16) * 4096) + (tail(i + 1) * 64) + tail(i + 2)
          [] w = 4 -> ((s[i] % 8) * 262144) + (tail(i + 1) * 4096) + (tail(i + 2) * 64)
                      + tail(i + 3)
      text[i \in 1..(Len(s) + 1)] ==
        IF i > Len(s) THEN <<>>
        ELSE LET w == Utf8Width(s, i)
             IN  IF w = 0 THEN <<>> ELSE <<codePoint(i, w)>> \o text[i + w]
  IN  text[1]

\* each surrogate that is not paired becomes c
Substituted(text, c) ==
  [j \in DOMAIN text |-> IF text[j] \in Surrogate THEN c ELSE text[j]]
=============================================================================
