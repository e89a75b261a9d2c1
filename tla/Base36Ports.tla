----------------------------- MODULE Base36Ports -----------------------------
(***************************************************************************)
(* The base36 conversions of the other ports, on big integers, beside the  *)
(* division in place of CHashLabel (which is also Rust's).                 *)
(***************************************************************************)
EXTENDS CHashLabel

\* Go and Java divide once for each place of the label, from the last to the first.
FixedDigits(bytes) ==
  LET left[d \in 0..HashBodyLength] ==
        IF d = HashBodyLength THEN Number(bytes) ELSE left[d + 1] \div 36
  IN  [d \in 1..HashBodyLength |-> Alphabet(left[d] % 36)]

\* divided until nothing is left, the digits put in order
SignificantDigits[n \in Nat] ==
  IF n = 0 THEN <<>> ELSE Append(SignificantDigits[n \div 36], Alphabet(n % 36))

\* mutant: the digits are not padded
MutPaddedDigits(bytes) == SignificantDigits[Number(bytes)]

\* JavaScript, Python and .NET divide until nothing is left, and pad with '0'.
PaddedDigits(bytes) ==
  LET digits == SignificantDigits[Number(bytes)]
  IN  [z \in 1..(HashBodyLength - Len(digits)) |-> Alphabet(0)] \o digits

-----------------------------------------------------------------------------
\* The three ways to write a digest give the same digits, leading zeros included:
\* otherwise a text whose digest is small would have two hash labels, one of them
\* too short to be recognised (packages/js/src/index.ts:140-157, def.c:268-276).
PortsDigits ==
  status = "OK" =>
    LET digits == [d \in 1..HashBodyLength |-> output[Len(marker) + d - 1]]
    IN  digits = FixedDigits(digest) /\ digits = PaddedDigits(digest)
=============================================================================
