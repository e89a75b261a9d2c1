----------------------------- MODULE CHashLabel -----------------------------
(***************************************************************************)
(* encode_profile_hash of packages/c/src/def.c with the base36_encode it   *)
(* calls: a digest is divided by 36 in place, byte by byte, once for every *)
(* digit of the label, and the digits are stored from the last to the      *)
(* first behind the marker.  The digest is any sequence of DigestLength    *)
(* bytes.                                                                  *)
(***************************************************************************)
EXTENDS Integers, Sequences

CONSTANTS
  DigestLength,       \* 32
  HashBodyLength,     \* 50
  MaxLabelLength,     \* 63
  Digests, Markers,   \* byte sequences
  Capacities          \* values of output_capacity

Byte == 0..255

ASSUME LengthsAssumption ==
  /\ DigestLength \in Nat /\ HashBodyLength \in Nat /\ MaxLabelLength \in Nat
  /\ Capacities \subseteq Nat
ASSUME DigestsAssumption ==
  /\ Digests \subseteq Seq(Byte) /\ Markers \subseteq Seq(Byte)
  /\ \A d \in Digests : Len(d) = DigestLength

VARIABLES
  marker, digest, cap,   \* the call, and what SHA-256 gave
  pc,
  buf,                   \* the number that is left to divide
  i, j, rem,             \* digits left to store, byte divided, remainder so far
  output,                \* the caller's buffer: offset stored to -> byte
  status, length         \* the value returned and *output_length

call   == <<marker, digest, cap>>
locals == <<buf, i, j, rem>>
vars   == <<call, pc, locals, output, status, length>>

NotSet == -1

\* the local array of base36_encode, which is not read before it is written
NotWritten == [d \in 1..DigestLength |-> 0]

Return(s) == pc' = "done" /\ status' = s

Init ==
  /\ marker \in Markers /\ digest \in Digests /\ cap \in Capacities
  /\ pc = "enter"
  /\ buf = NotWritten /\ i = 0 /\ j = 0 /\ rem = 0
  /\ output = [o \in {} |-> 0]
  /\ status = "PENDING" /\ length = NotSet

-----------------------------------------------------------------------------
Store(bytes, at) ==
  output' = [o \in DOMAIN output \cup at..(at + Len(bytes) - 1) |->
               IF o \in at..(at + Len(bytes) - 1) THEN bytes[o - at + 1] ELSE output[o]]

LabelLength == Len(marker) + HashBodyLength

NoRoom == cap < LabelLength + 1

Enter ==
  /\ pc = "enter"
  /\ IF LabelLength > MaxLabelLength THEN Return("LABEL_TOO_LONG")
     ELSE IF NoRoom THEN Return("BUFFER_TOO_SMALL")
     ELSE pc' = "marker" /\ UNCHANGED status
  /\ UNCHANGED <<call, locals, output, length>>

CopyMarker ==
  /\ pc = "marker"
  /\ Store(marker, 0)
  /\ pc' = "base36"
  /\ UNCHANGED <<call, locals, status, length>>

\* mutant: the marker is counted twice
MutDigitsRoom == cap - 2 * Len(marker)

\* the capacity base36_encode is given
DigitsRoom == cap - Len(marker)

EnterBase36 ==
  /\ pc = "base36"
  /\ IF DigitsRoom < HashBodyLength + 1
     THEN Return("BUFFER_TOO_SMALL") /\ UNCHANGED <<buf, i>>
     ELSE /\ pc' = "digit" /\ buf' = digest /\ i' = HashBodyLength
          /\ UNCHANGED status
  /\ UNCHANGED <<call, j, rem, output, length>>

NextDigit ==
  /\ pc = "digit" /\ i > 0
  /\ j' = 0 /\ rem' = 0
  /\ pc' = "divide"
  /\ UNCHANGED <<call, buf, i, output, status, length>>

\* the remainder so far, shifted by a byte, and the next byte
Current == rem * 256 + buf[j + 1]

\* mutant: the remainder of the wrong divisor
MutRemainder(n) == n % 37

Remainder(n) == n % 36

\* mutant: the quotient is rounded up
MutQuotient(n) == (n + 35) \div 36

Quotient(n) == n \div 36

\* one byte of the quotient; it is stored in an unsigned char
DivideByte ==
  /\ pc = "divide" /\ j < DigestLength
  /\ buf' = [buf EXCEPT ![j + 1] = Quotient(Current) % 256]
  /\ rem' = Remainder(Current)
  /\ j' = j + 1
  /\ UNCHANGED <<call, pc, i, output, status, length>>

\* mutant: 10 is taken for a decimal digit
MutAlphabet(n) == IF n <= 10 THEN 48 + n ELSE 87 + n

\* BASE36_ALPHABET
Alphabet(n) == IF n < 10 THEN 48 + n ELSE 87 + n

StoreDigit ==
  /\ pc = "divide" /\ j = DigestLength
  /\ Store(<<Alphabet(rem)>>, Len(marker) + i - 1)
  /\ i' = i - 1
  /\ pc' = "digit"
  /\ UNCHANGED <<call, buf, j, rem, status, length>>

\* mutant: one byte behind the terminator
MutTerminatorAt == LabelLength + 1

\* the terminator of the digits is that of the label
TerminatorAt == LabelLength

Finish ==
  /\ pc = "digit" /\ i = 0
  /\ Store(<<0>>, TerminatorAt)
  /\ length' = LabelLength
  /\ Return("OK")
  /\ UNCHANGED <<call, locals>>

Next == \/ Enter \/ CopyMarker \/ EnterBase36 \/ NextDigit
        \/ DivideByte \/ StoreDigit \/ Finish

Spec == Init /\ [][Next]_vars

-----------------------------------------------------------------------------
\* the number that is read when digits of a base follow the number n
ReadOn(base, n, digits) ==
  LET upTo[d \in 0..Len(digits)] ==
        IF d = 0 THEN n ELSE upTo[d - 1] * base + digits[d]
  IN  upTo[Len(digits)]

\* the number a sequence of bytes stands for, most significant first
Number(bytes) == ReadOn(256, 0, bytes)

\* the values of the digits stored so far
DigitValue(c) == IF c < 58 THEN c - 48 ELSE c - 87
StoredDigits  == [d \in 1..(HashBodyLength - i) |-> DigitValue(output[Len(marker) + i + d - 1])]

TypeOK ==
  /\ marker \in Markers /\ digest \in Digests /\ cap \in Capacities
  /\ pc \in {"enter", "marker", "base36", "digit", "divide", "done"}
  /\ buf \in [1..DigestLength -> Byte]
  /\ i \in 0..HashBodyLength /\ j \in 0..DigestLength /\ rem \in 0..35
  /\ output \in [DOMAIN output -> Byte]
  /\ DOMAIN output \subseteq Nat
  /\ status \in {"PENDING", "OK", "LABEL_TOO_LONG", "BUFFER_TOO_SMALL"}
  /\ length \in Nat \cup {NotSet}

\* No store leaves the caller's buffer, although the digits are stored from
\* the last to the first (def.c:275, 278, 419, 432).
StoresInLabel == DOMAIN output \subseteq 0..(cap - 1)

\* A quotient fits the unsigned char it is stored in: the cast loses nothing
\* (def.c:271-272).
QuotientFits ==
  pc = "divide" /\ j < DigestLength => Quotient(Current) \in Byte

\* Between two digits, what is left and the digits stored, read on from it, are
\* the digest: what is left is the quotient of the digest by the power of 36
\* divided out, and the digits are the remainder.  After the last digit nothing
\* is left, so two digests never share a label (def.c:268-276).
NothingLost ==
  /\ pc = "digit" => /\ StoredDigits \in [1..(HashBodyLength - i) -> 0..35]
                     /\ ReadOn(36, Number(buf), StoredDigits) = Number(digest)
  /\ status = "OK" => ReadOn(36, 0, StoredDigits) = Number(digest)

\* A label is the marker, HashBodyLength base36 digits and a terminator, all of
\* them stored.
WholeLabel ==
  status = "OK" =>
    /\ length = Len(marker) + HashBodyLength /\ DOMAIN output = 0..length
    /\ \A o \in 0..(length - 1) :
         IF o < Len(marker) THEN output[o] = marker[o + 1]
         ELSE output[o] \in 48..57 \cup 97..122
    /\ output[length] = 0

\* A refusal comes before anything is stored: once the label is begun, the
\* check inside base36_encode does not fail (def.c:262-264, 414-416).
RefusedUntouched == status \in {"LABEL_TOO_LONG", "BUFFER_TOO_SMALL"} => DOMAIN output = {}
=============================================================================
