-------------------------- MODULE CHashLabelProofs --------------------------
(***************************************************************************)
(* Proofs about CHashLabel and Base36Ports, for all digests, markers,      *)
(* capacities and lengths: the division never overflows its byte, no store *)
(* leaves the caller's buffer, a refusal comes before any store, a label   *)
(* that is returned is whole, its digits stand for the digest, and the     *)
(* other ports write the same digits.                                      *)
(***************************************************************************)
EXTENDS Base36Ports, DataInduction

DigitBytes == 48..57 \cup 97..122

MarkerEnd == Len(marker)

\* the room the label needs has been checked
RoomInv == pc \in {"marker", "base36", "digit", "divide"} => LabelLength < cap

\* nothing is stored before the checks have passed
EmptyInv == pc \in {"enter", "marker"} => DOMAIN output = {}

MarkerInv ==
  pc \in {"base36", "digit", "divide"} =>
    \A o \in 0..(MarkerEnd - 1) : output[o] = marker[o + 1]

\* the marker, and digits from the end of the label down to the place reached
DigitsInv ==
  /\ pc = "base36" => DOMAIN output = 0..(MarkerEnd - 1)
  /\ pc = "divide" => i > 0
  /\ pc \in {"digit", "divide"} =>
       /\ DOMAIN output = 0..(MarkerEnd - 1) \cup (MarkerEnd + i)..(LabelLength - 1)
       /\ \A o \in (MarkerEnd + i)..(LabelLength - 1) : output[o] \in DigitBytes

Inv ==
  /\ TypeOK /\ StoresInLabel
  /\ RoomInv /\ EmptyInv /\ MarkerInv /\ DigitsInv
  /\ WholeLabel /\ RefusedUntouched
  /\ pc # "done" => status = "PENDING"

-----------------------------------------------------------------------------
\* what the call gives the function
LEMMA CallFacts ==
  ASSUME TypeOK
  PROVE  /\ marker \in Seq(Byte) /\ MarkerEnd \in Nat /\ Len(marker) = MarkerEnd
         /\ digest \in [1..DigestLength -> Byte]
         /\ cap \in Nat /\ LabelLength \in Nat
         /\ LabelLength = MarkerEnd + HashBodyLength
         /\ \A o \in 0..(MarkerEnd - 1) : marker[o + 1] \in Byte
<1>1. marker \in Seq(Byte) /\ digest \in Seq(Byte) /\ Len(digest) = DigestLength
  BY DigestsAssumption DEF TypeOK
<1> QED
  BY <1>1, LengthsAssumption DEF TypeOK, LabelLength, MarkerEnd

\* what Store does to the buffer
LEMMA StoreFacts ==
  ASSUME NEW bytes \in Seq(Byte), NEW at \in Nat,
         output \in [DOMAIN output -> Byte], DOMAIN output \subseteq Nat,
         Store(bytes, at)
  PROVE  /\ output' \in [DOMAIN output' -> Byte]
         /\ DOMAIN output' = DOMAIN output \cup at..(at + Len(bytes) - 1)
         /\ DOMAIN output' \subseteq Nat
         /\ \A o \in at..(at + Len(bytes) - 1) : output'[o] = bytes[o - at + 1]
         /\ \A o \in DOMAIN output \ (at..(at + Len(bytes) - 1)) : output'[o] = output[o]
<1> DEFINE S == at..(at + Len(bytes) - 1)
<1>1. output' = [o \in DOMAIN output \cup S |-> IF o \in S THEN bytes[o - at + 1] ELSE output[o]]
  BY DEF Store
<1>2. \A o \in S : o - at + 1 \in 1..Len(bytes) /\ o \in Nat
  OBVIOUS
<1>3. \A o \in S : bytes[o - at + 1] \in Byte
  BY <1>2
<1> QED
  BY <1>1, <1>2, <1>3

\* the invariant holds when the function is entered
LEMMA InvInit == Init => Inv
<1> SUFFICES ASSUME Init PROVE Inv
  OBVIOUS
<1>1. buf \in [1..DigestLength -> Byte]
  BY DEF Init, NotWritten, Byte
<1>2. DOMAIN output = {} /\ output \in [DOMAIN output -> Byte]
  BY DEF Init
<1>3. TypeOK
  BY <1>1, <1>2, LengthsAssumption DEF Init, TypeOK, NotSet
<1> QED
  BY <1>2, <1>3 DEF Init, Inv, StoresInLabel, RoomInv, EmptyInv, MarkerInv, DigitsInv,
                    WholeLabel, RefusedUntouched

\* Enter: a refusal stores nothing, otherwise there is room for the label.
LEMMA EnterStep ==
  ASSUME Inv, Enter
  PROVE  Inv'
<1>1. UNCHANGED <<marker, digest, cap, buf, i, j, rem, output, length>> /\ pc = "enter"
  BY DEF Enter, call, locals
<1>2. LabelLength \in Nat /\ cap \in Nat /\ DOMAIN output = {}
  BY <1>1, CallFacts DEF Inv, EmptyInv
<1>3. \/ pc' = "done" /\ status' \in {"LABEL_TOO_LONG", "BUFFER_TOO_SMALL"}
      \/ pc' = "marker" /\ status' = status /\ LabelLength < cap
  BY <1>2 DEF Enter, Return, NoRoom
<1>4. TypeOK'
  BY <1>1, <1>3 DEF Inv, TypeOK
<1> QED
  BY <1>1, <1>2, <1>3, <1>4 DEF Inv, StoresInLabel, RoomInv, EmptyInv, MarkerInv, DigitsInv,
     WholeLabel, RefusedUntouched, LabelLength, MarkerEnd

\* CopyMarker: the marker is stored from the start of an empty buffer.
LEMMA CopyMarkerStep ==
  ASSUME Inv, CopyMarker
  PROVE  Inv'
<1>1. /\ UNCHANGED <<marker, digest, cap, buf, i, j, rem, status, length>>
      /\ pc = "marker" /\ pc' = "base36" /\ Store(marker, 0)
  BY DEF CopyMarker, call, locals
<1>2. /\ marker \in Seq(Byte) /\ MarkerEnd = Len(marker) /\ MarkerEnd \in Nat
      /\ LabelLength = MarkerEnd + HashBodyLength /\ LabelLength < cap /\ cap \in Nat
      /\ HashBodyLength \in Nat
  BY <1>1, CallFacts, LengthsAssumption DEF Inv, RoomInv
<1>3. DOMAIN output = {} /\ output \in [DOMAIN output -> Byte] /\ status = "PENDING"
  BY <1>1 DEF Inv, EmptyInv, TypeOK
<1>4. /\ output' \in [DOMAIN output' -> Byte]
      /\ DOMAIN output' = 0..(MarkerEnd - 1)
      /\ \A o \in 0..(MarkerEnd - 1) : output'[o] = marker[o + 1]
  BY <1>1, <1>2, <1>3, StoreFacts
<1>5. TypeOK'
  BY <1>1, <1>4 DEF Inv, TypeOK
<1>6. StoresInLabel'
  BY <1>1, <1>2, <1>4 DEF StoresInLabel
<1> QED
  BY <1>1, <1>2, <1>3, <1>4, <1>5, <1>6 DEF Inv, RoomInv, EmptyInv, MarkerInv, DigitsInv,
     WholeLabel, RefusedUntouched, LabelLength, MarkerEnd

\* EnterBase36: the room it is given is what Enter has checked.
LEMMA EnterBase36Step ==
  ASSUME Inv, EnterBase36
  PROVE  Inv'
<1>1. UNCHANGED <<marker, digest, cap, j, rem, output, length>> /\ pc = "base36"
  BY DEF EnterBase36, call
<1>2. /\ MarkerEnd \in Nat /\ Len(marker) = MarkerEnd /\ HashBodyLength \in Nat
      /\ LabelLength = MarkerEnd + HashBodyLength /\ LabelLength < cap /\ cap \in Nat
  BY <1>1, CallFacts, LengthsAssumption DEF Inv, RoomInv
<1>3. pc' = "digit" /\ buf' = digest /\ i' = HashBodyLength /\ status' = status
  BY <1>2 DEF EnterBase36, DigitsRoom
<1>4. (MarkerEnd + i')..(LabelLength - 1) = {}
  BY <1>2, <1>3
<1>5. TypeOK'
  <2>1. buf' \in [1..DigestLength -> Byte]
    BY <1>3, CallFacts DEF Inv
  <2> QED
    BY <1>1, <1>2, <1>3, <2>1 DEF Inv, TypeOK
<1>6. DOMAIN output = 0..(MarkerEnd - 1) /\ UNCHANGED <<MarkerEnd, LabelLength>>
  BY <1>1 DEF Inv, DigitsInv, MarkerEnd, LabelLength
<1>7. DigitsInv'
  BY <1>1, <1>3, <1>4, <1>6 DEF DigitsInv
<1>8. MarkerInv'
  BY <1>1, <1>3, <1>6 DEF Inv, MarkerInv
<1> QED
  BY <1>1, <1>2, <1>3, <1>5, <1>6, <1>7, <1>8 DEF Inv, StoresInLabel, RoomInv, EmptyInv,
     WholeLabel, RefusedUntouched

\* NextDigit: the remainder starts at zero.
LEMMA NextDigitStep ==
  ASSUME Inv, NextDigit
  PROVE  Inv'
<1>1. /\ UNCHANGED <<marker, digest, cap, buf, i, output, status, length>>
      /\ pc = "digit" /\ pc' = "divide" /\ j' = 0 /\ rem' = 0 /\ i > 0
  BY DEF NextDigit, call
<1>2. TypeOK'
  BY <1>1, LengthsAssumption DEF Inv, TypeOK
<1> QED
  BY <1>1, <1>2 DEF Inv, StoresInLabel, RoomInv, EmptyInv, MarkerInv, DigitsInv,
     WholeLabel, RefusedUntouched, LabelLength, MarkerEnd

\* A remainder below 36 and a byte: the quotient is a byte.
LEMMA DivisionFacts ==
  ASSUME NEW r \in 0..35, NEW b \in Byte
  PROVE  /\ (r * 256 + b) \div 36 \in Byte
         /\ (r * 256 + b) % 36 \in 0..35
  BY DEF Byte

\* DivideByte: the quotient and the remainder keep their ranges.
LEMMA DivideByteStep ==
  ASSUME Inv, DivideByte
  PROVE  Inv'
<1>1. /\ UNCHANGED <<marker, digest, cap, i, output, status, length>>
      /\ pc = "divide" /\ pc' = "divide" /\ j < DigestLength /\ j' = j + 1
      /\ rem' = Remainder(Current)
      /\ buf' = [buf EXCEPT ![j + 1] = Quotient(Current) % 256]
  BY DEF DivideByte, call
<1>2. j + 1 \in 1..DigestLength /\ j' \in 0..DigestLength
  BY <1>1, LengthsAssumption DEF Inv, TypeOK
<1>3. buf[j + 1] \in Byte /\ rem \in 0..35
  BY <1>2 DEF Inv, TypeOK
<1>4. rem' \in 0..35 /\ Quotient(Current) \in Byte
  BY <1>1, <1>3, DivisionFacts DEF Remainder, Quotient, Current
<1>5. Quotient(Current) % 256 \in Byte
  BY <1>4 DEF Byte
<1>6. TypeOK'
  BY <1>1, <1>2, <1>4, <1>5 DEF Inv, TypeOK
<1> QED
  BY <1>1, <1>6 DEF Inv, StoresInLabel, RoomInv, EmptyInv, MarkerInv, DigitsInv,
     WholeLabel, RefusedUntouched, LabelLength, MarkerEnd

\* StoreDigit: the digits grow by one towards the marker.
LEMMA StoreDigitStep ==
  ASSUME Inv, StoreDigit
  PROVE  Inv'
<1>1. /\ UNCHANGED <<marker, digest, cap, buf, j, rem, status, length>>
      /\ pc = "divide" /\ pc' = "digit" /\ i' = i - 1
      /\ Store(<<Alphabet(rem)>>, Len(marker) + i - 1)
  BY DEF StoreDigit, call
<1>2. /\ MarkerEnd \in Nat /\ Len(marker) = MarkerEnd /\ HashBodyLength \in Nat
      /\ LabelLength = MarkerEnd + HashBodyLength /\ LabelLength < cap /\ cap \in Nat
      /\ i \in 1..HashBodyLength /\ rem \in 0..35 /\ status = "PENDING"
  BY <1>1, CallFacts, LengthsAssumption DEF Inv, RoomInv, DigitsInv, TypeOK
<1>3. Alphabet(rem) \in DigitBytes /\ Alphabet(rem) \in Byte
  BY <1>2 DEF Alphabet, DigitBytes, Byte
<1> DEFINE at == MarkerEnd + i - 1
<1>4. at \in Nat /\ at = Len(marker) + i - 1 /\ <<Alphabet(rem)>> \in Seq(Byte)
      /\ at..(at + Len(<<Alphabet(rem)>>) - 1) = {at} /\ at = MarkerEnd + i'
      /\ at < LabelLength /\ i' \in 0..HashBodyLength
  BY <1>1, <1>2, <1>3
<1>5. output \in [DOMAIN output -> Byte] /\ DOMAIN output \subseteq Nat
  BY DEF Inv, TypeOK
<1>6. /\ output' \in [DOMAIN output' -> Byte] /\ DOMAIN output' \subseteq Nat
      /\ DOMAIN output' = DOMAIN output \cup {at}
      /\ output'[at] = Alphabet(rem)
      /\ \A o \in DOMAIN output \ {at} : output'[o] = output[o]
  <2>1. Store(<<Alphabet(rem)>>, at)
    BY <1>1, <1>4
  <2>2. <<Alphabet(rem)>>[at - at + 1] = Alphabet(rem)
    BY <1>4
  <2> QED
    BY <1>4, <1>5, <2>1, <2>2, StoreFacts
<1>7. UNCHANGED <<MarkerEnd, LabelLength>>
  BY <1>1 DEF MarkerEnd, LabelLength
<1>8. DOMAIN output = 0..(MarkerEnd - 1) \cup (MarkerEnd + i)..(LabelLength - 1)
  BY <1>1 DEF Inv, DigitsInv
<1>9. DOMAIN output' = 0..(MarkerEnd - 1) \cup (MarkerEnd + i')..(LabelLength - 1)
  BY <1>2, <1>4, <1>6, <1>8
<1>10. \A o \in (MarkerEnd + i')..(LabelLength - 1) : output'[o] \in DigitBytes
  <2> SUFFICES ASSUME NEW o \in (MarkerEnd + i')..(LabelLength - 1)
               PROVE  output'[o] \in DigitBytes
    OBVIOUS
  <2>1. CASE o = at
    BY <2>1, <1>3, <1>6
  <2>2. CASE o # at
    <3>1. i \in Nat /\ i' = i - 1
      BY <1>1, <1>2
    <3>2. o \in (MarkerEnd + i)..(LabelLength - 1)
      BY <2>2, <3>1, <1>2
    <3>3. o \in DOMAIN output \ {at}
      BY <2>2, <3>2, <1>8
    <3> QED
      BY <3>2, <3>3, <1>1, <1>6 DEF Inv, DigitsInv
  <2> QED
    BY <2>1, <2>2
<1>11. \A o \in 0..(MarkerEnd - 1) : output'[o] = marker[o + 1]
  <2> SUFFICES ASSUME NEW o \in 0..(MarkerEnd - 1) PROVE output'[o] = marker[o + 1]
    OBVIOUS
  <2>1. o \in DOMAIN output \ {at}
    BY <1>2, <1>4, <1>8
  <2> QED
    BY <2>1, <1>1, <1>6 DEF Inv, MarkerInv
<1>12. TypeOK'
  BY <1>1, <1>4, <1>6 DEF Inv, TypeOK
<1>13. StoresInLabel'
  BY <1>1, <1>2, <1>4, <1>6 DEF Inv, StoresInLabel
<1> QED
  BY <1>1, <1>2, <1>7, <1>9, <1>10, <1>11, <1>12, <1>13 DEF Inv, RoomInv, EmptyInv, MarkerInv,
     DigitsInv, WholeLabel, RefusedUntouched

\* Finish: the terminator is the last byte the label was given room for.
LEMMA FinishStep ==
  ASSUME Inv, Finish
  PROVE  Inv'
<1>1. /\ UNCHANGED <<marker, digest, cap, buf, i, j, rem>>
      /\ pc = "digit" /\ pc' = "done" /\ i = 0 /\ status' = "OK" /\ length' = LabelLength
      /\ Store(<<0>>, LabelLength)
  BY DEF Finish, call, locals, Return, TerminatorAt
<1>2. /\ MarkerEnd \in Nat /\ Len(marker) = MarkerEnd /\ HashBodyLength \in Nat
      /\ LabelLength = MarkerEnd + HashBodyLength /\ LabelLength < cap /\ cap \in Nat
      /\ LabelLength \in Nat
  BY <1>1, CallFacts, LengthsAssumption DEF Inv, RoomInv
<1>3. /\ DOMAIN output = 0..(LabelLength - 1)
      /\ output \in [DOMAIN output -> Byte] /\ DOMAIN output \subseteq Nat
  BY <1>1, <1>2 DEF Inv, DigitsInv, TypeOK
<1>4. /\ output' \in [DOMAIN output' -> Byte] /\ DOMAIN output' \subseteq Nat
      /\ DOMAIN output' = 0..LabelLength
      /\ output'[LabelLength] = 0
      /\ \A o \in 0..(LabelLength - 1) : output'[o] = output[o]
  <2>1. /\ <<0>> \in Seq(Byte)
        /\ LabelLength..(LabelLength + Len(<<0>>) - 1) = {LabelLength}
        /\ <<0>>[LabelLength - LabelLength + 1] = 0
    BY <1>2 DEF Byte
  <2>2. /\ output' \in [DOMAIN output' -> Byte] /\ DOMAIN output' \subseteq Nat
        /\ DOMAIN output' = DOMAIN output \cup {LabelLength}
        /\ output'[LabelLength] = 0
        /\ \A o \in DOMAIN output \ {LabelLength} : output'[o] = output[o]
    <3>1. /\ output' \in [DOMAIN output' -> Byte] /\ DOMAIN output' \subseteq Nat
          /\ DOMAIN output' = DOMAIN output \cup LabelLength..(LabelLength + Len(<<0>>) - 1)
          /\ \A o \in LabelLength..(LabelLength + Len(<<0>>) - 1) :
               output'[o] = <<0>>[o - LabelLength + 1]
          /\ \A o \in DOMAIN output \ (LabelLength..(LabelLength + Len(<<0>>) - 1)) :
               output'[o] = output[o]
      BY <1>1, <1>2, <1>3, <2>1, StoreFacts, Zenon
    <3> QED
      BY <2>1, <3>1
  <2>3. 0..(LabelLength - 1) \cup {LabelLength} = 0..LabelLength
    BY <1>2
  <2>4. \A o \in 0..(LabelLength - 1) : o # LabelLength
    BY <1>2
  <2> QED
    BY <1>3, <2>2, <2>3, <2>4
<1>5. \A o \in 0..(LabelLength - 1) : IF o < MarkerEnd THEN output'[o] = marker[o + 1]
                                      ELSE output'[o] \in DigitBytes
  <2> SUFFICES ASSUME NEW o \in 0..(LabelLength - 1)
               PROVE  IF o < MarkerEnd THEN output'[o] = marker[o + 1]
                      ELSE output'[o] \in DigitBytes
    OBVIOUS
  <2>1. CASE o < MarkerEnd
    <3>1. o \in 0..(MarkerEnd - 1)
      BY <2>1, <1>2
    <3> QED
      BY <2>1, <3>1, <1>1, <1>4 DEF Inv, MarkerInv
  <2>2. CASE ~(o < MarkerEnd)
    <3>1. o \in (MarkerEnd + i)..(LabelLength - 1)
      BY <2>2, <1>1, <1>2
    <3> QED
      BY <2>2, <3>1, <1>1, <1>4 DEF Inv, DigitsInv
  <2> QED
    BY <2>1, <2>2
<1>6. TypeOK'
  BY <1>1, <1>2, <1>4 DEF Inv, TypeOK
<1>7. StoresInLabel'
  BY <1>1, <1>2, <1>4 DEF StoresInLabel
<1>8. WholeLabel'
  BY <1>1, <1>2, <1>4, <1>5 DEF WholeLabel, DigitBytes
<1> QED
  BY <1>1, <1>6, <1>7, <1>8 DEF Inv, RoomInv, EmptyInv, MarkerInv, DigitsInv,
     RefusedUntouched

\* stuttering
LEMMA StutterStep ==
  ASSUME Inv, UNCHANGED vars
  PROVE  Inv'
  BY DEF vars, call, locals, Inv, TypeOK, StoresInLabel, RoomInv, EmptyInv, MarkerInv,
     DigitsInv, WholeLabel, RefusedUntouched, MarkerEnd, LabelLength

-----------------------------------------------------------------------------
\* The inductive invariant of encode_profile_hash.
THEOREM Invariance == Spec => []Inv
<1>1. Inv /\ [Next]_vars => Inv'
  BY EnterStep, CopyMarkerStep, EnterBase36Step, NextDigitStep, DivideByteStep,
     StoreDigitStep, FinishStep, StutterStep DEF Next
<1> QED
  BY <1>1, InvInit, PTL DEF Spec

\* TypeOK: remainders stay below 36 and every byte of the buffers is a byte.
THEOREM TypeCorrect == Spec => []TypeOK
<1>1. Inv => TypeOK
  BY DEF Inv
<1> QED
  BY <1>1, Invariance, PTL

\* StoresInLabel: marker, digits and terminator are stored in the caller's
\* buffer, for every capacity and every marker (def.c:249-281, 398-434).
THEOREM LabelInBuffer == Spec => []StoresInLabel
<1>1. Inv => StoresInLabel
  BY DEF Inv
<1> QED
  BY <1>1, Invariance, PTL

\* QuotientFits: the cast to unsigned char of base36_encode loses nothing,
\* however long the digest is (def.c:271-272).
THEOREM NoQuotientLost == Spec => []QuotientFits
<1>1. Inv => QuotientFits
  <2> SUFFICES ASSUME Inv, pc = "divide", j < DigestLength
               PROVE  Quotient(Current) \in Byte
    BY DEF QuotientFits
  <2>1. j + 1 \in 1..DigestLength
    BY LengthsAssumption DEF Inv, TypeOK
  <2>2. buf[j + 1] \in Byte /\ rem \in 0..35
    BY <2>1 DEF Inv, TypeOK
  <2> QED
    BY <2>2, DivisionFacts DEF Quotient, Current
<1> QED
  BY <1>1, Invariance, PTL

\* WholeLabel: a label that is returned is marker, digits and terminator.
THEOREM LabelIsWhole == Spec => []WholeLabel
<1>1. Inv => WholeLabel
  BY DEF Inv
<1> QED
  BY <1>1, Invariance, PTL

\* RefusedUntouched: the two checks of the room agree.
THEOREM RefusesFirst == Spec => []RefusedUntouched
<1>1. Inv => RefusedUntouched
  BY DEF Inv
<1> QED
  BY <1>1, Invariance, PTL

-----------------------------------------------------------------------------
\* the recursive function of ReadOn, and what is said of it
Reading(base, n, s) ==
  CHOOSE g : g = [d \in 0..Len(s) |-> IF d = 0 THEN n ELSE g[d - 1] * base + s[d]]

Reads(base, n, s, f) ==
  /\ f \in [0..Len(s) -> Nat]
  /\ f[0] = n
  /\ \A d \in 1..Len(s) : f[d] = f[d - 1] * base + s[d]

\* The recursive function exists.
LEMMA ReadingDef ==
  ASSUME NEW base \in Nat, NEW n \in Nat, NEW s \in Seq(Nat)
  PROVE  Reads(base, n, s, Reading(base, n, s))
<1> DEFINE D == 0..Len(s)
           mu == [d \in D |-> d]
           Rhs == [d \in D |-> [g \in [D -> Nat] |->
                     IF d = 0 THEN n ELSE g[d - 1] * base + s[d]]]
<1>0. Len(s) \in Nat /\ \A d \in D : d # 0 => d - 1 \in D /\ s[d] \in Nat
  OBVIOUS
<1>1. mu \in [D -> Nat]
  BY <1>0
<1>2. Rhs \in [D -> [[D -> Nat] -> Nat]]
  <2> SUFFICES ASSUME NEW d \in D, NEW g \in [D -> Nat]
               PROVE  (IF d = 0 THEN n ELSE g[d - 1] * base + s[d]) \in Nat
    BY Zenon
  <2>1. CASE d = 0
    BY <2>1
  <2>2. CASE d # 0
    <3>1. g[d - 1] \in Nat /\ s[d] \in Nat
      BY <1>0, <2>2
    <3>2. g[d - 1] * base \in Nat
      BY <3>1
    <3> QED
      BY <2>2, <3>1, <3>2
  <2> QED
    BY <2>1, <2>2
<1>3. LooksBack(D, Nat, mu, Rhs)
  <2> USE DEF LooksBack
  <2> TAKE d \in D
  <2> TAKE g, h \in [D -> Nat]
  <2> HAVE \A y \in D : mu[y] < mu[d] => g[y] = h[y]
  <2>1. d # 0 => d - 1 \in D /\ mu[d - 1] < mu[d]
    BY <1>0
  <2>2. d # 0 => g[d - 1] = h[d - 1]
    BY <2>1
  <2> QED
    BY <2>2
<1>4. Nat # {}
  OBVIOUS
<1>5. Solutions(D, Nat, Rhs) # {}
  <2> HIDE DEF D, mu, Rhs
  <2> QED
    BY <1>1, <1>2, <1>3, <1>4, Recursion
<1>6. PICK g \in [D -> Nat] : \A d \in D : g[d] = Rhs[d][g]
  BY <1>5 DEF Solutions
<1>7. \A d \in D : g[d] = IF d = 0 THEN n ELSE g[d - 1] * base + s[d]
  BY <1>6
<1>8. g = [d \in D |-> IF d = 0 THEN n ELSE g[d - 1] * base + s[d]]
  BY <1>7
<1> DEFINE f == Reading(base, n, s)
<1>9. f = [d \in D |-> IF d = 0 THEN n ELSE f[d - 1] * base + s[d]]
  BY <1>8 DEF Reading
<1> HIDE DEF f
<1>10. \A d \in D : f[d] = IF d = 0 THEN n ELSE f[d - 1] * base + s[d]
  BY <1>9
<1>11. f \in [D -> Nat]
  <2> DEFINE S == {d \in D : f[d] \in Nat}
  <2>1. \A d \in D : (\A y \in D : mu[y] < mu[d] => y \in S) => d \in S
    <3> TAKE d \in D
    <3> HAVE \A y \in D : mu[y] < mu[d] => y \in S
    <3>1. CASE d = 0
      BY <1>10, <3>1
    <3>2. CASE d # 0
      <4>1. d - 1 \in D /\ mu[d - 1] < mu[d]
        BY <1>0, <3>2
      <4>2. f[d - 1] \in Nat /\ s[d] \in Nat
        BY <1>0, <3>2, <4>1
      <4>3. f[d - 1] * base \in Nat
        BY <4>2
      <4>4. f[d] = f[d - 1] * base + s[d]
        BY <1>10, <3>2
      <4> QED
        BY <4>2, <4>3, <4>4
    <3> QED
      BY <3>1, <3>2
  <2>2. D \subseteq S
    <3> HIDE DEF D, mu, S
    <3> QED
      BY <1>1, <2>1, MeasureInduction
  <2> QED
    BY <1>9, <2>2
<1>12. f[0] = n /\ \A d \in 1..Len(s) : f[d] = f[d - 1] * base + s[d]
  <2>1. 0 \in D /\ \A d \in 1..Len(s) : d \in D /\ d # 0
    BY <1>0
  <2> QED
    BY <1>10, <2>1
<1> QED
  BY <1>11, <1>12 DEF f, Reads

\* ReadOn in terms of the recursive function
LEMMA ReadOnDef ==
  ASSUME NEW base, NEW n, NEW s
  PROVE  ReadOn(base, n, s) = Reading(base, n, s)[Len(s)]
  BY DEF ReadOn, Reading

\* No digits change nothing.
LEMMA ReadOnEmpty ==
  ASSUME NEW base \in Nat, NEW n \in Nat
  PROVE  ReadOn(base, n, <<>>) = n
<1>1. <<>> \in Seq(Nat) /\ Len(<<>>) = 0
  OBVIOUS
<1>2. Reads(base, n, <<>>, Reading(base, n, <<>>))
  BY <1>1, ReadingDef
<1> QED
  BY <1>1, <1>2, ReadOnDef DEF Reads

\* What is read is a number.
LEMMA ReadOnType ==
  ASSUME NEW base \in Nat, NEW n \in Nat, NEW s \in Seq(Nat)
  PROVE  ReadOn(base, n, s) \in Nat
<1>1. Reads(base, n, s, Reading(base, n, s)) /\ Len(s) \in Nat
  BY ReadingDef
<1> QED
  BY <1>1, ReadOnDef, SMTT(30) DEF Reads

\* The last digit is read last.
LEMMA ReadOnAppend ==
  ASSUME NEW base \in Nat, NEW n \in Nat, NEW s \in Seq(Nat), NEW e \in Nat
  PROVE  ReadOn(base, n, Append(s, e)) = ReadOn(base, n, s) * base + e
<1> DEFINE t == Append(s, e)
           m == Len(s)
           f == Reading(base, n, s)
           g == Reading(base, n, t)
<1>1. /\ t \in Seq(Nat) /\ m \in Nat /\ Len(t) = m + 1 /\ t[m + 1] = e
      /\ \A d \in 1..m : s[d] = t[d]
  OBVIOUS
<1> HIDE DEF t
<1>2. Reads(base, n, s, f) /\ Reads(base, n, t, g)
  BY <1>1, ReadingDef
<1>5. ReadOn(base, n, t) = g[m + 1] /\ ReadOn(base, n, s) = f[m]
  BY <1>1, ReadOnDef
<1>6. m <= Len(s) /\ m <= Len(t)
  BY <1>1
<1> HIDE DEF f, g, m
<1>3. f[m] = g[m]
  <2> DEFINE S == {d \in Nat : d <= m => f[d] = g[d]}
  <2>1. 0 \in S
    BY <1>2 DEF Reads
  <2>2. \A d \in Nat : d \in S => d + 1 \in S
    <3> SUFFICES ASSUME NEW d \in Nat, d <= m => f[d] = g[d], d + 1 <= m
                 PROVE  f[d + 1] = g[d + 1]
      OBVIOUS
    <3>1. /\ d + 1 \in 1..m /\ d + 1 \in 1..Len(s) /\ d + 1 \in 1..Len(t)
          /\ (d + 1) - 1 = d /\ d <= m
      BY <1>1, <1>6
    <3>2. f[d + 1] = f[d] * base + s[d + 1] /\ g[d + 1] = g[d] * base + t[d + 1]
      BY <1>2, <3>1 DEF Reads
    <3> QED
      BY <1>1, <3>1, <3>2
  <2> HIDE DEF S
  <2>3. Nat \subseteq S
    BY <2>1, <2>2, Induction
  <2> QED
    BY <1>1, <2>3 DEF S
<1>4. g[m + 1] = g[m] * base + e
  <2>1. m + 1 \in 1..Len(t) /\ (m + 1) - 1 = m
    BY <1>1
  <2>2. g[m + 1] = g[(m + 1) - 1] * base + t[m + 1]
    BY <1>2, <2>1 DEF Reads
  <2> QED
    BY <1>1, <2>1, <2>2
<1> QED
  BY <1>3, <1>4, <1>5 DEF t

\* Digits may be read in two parts.
LEMMA ReadOnConcat ==
  ASSUME NEW base \in Nat, NEW n \in Nat, NEW s \in Seq(Nat), NEW t \in Seq(Nat)
  PROVE  ReadOn(base, n, s \o t) = ReadOn(base, ReadOn(base, n, s), t)
<1> DEFINE p == ReadOn(base, n, s)
           S == {u \in Seq(Nat) : ReadOn(base, n, s \o u) = ReadOn(base, p, u)}
<1>1. p \in Nat
  BY ReadOnType
<1>2. <<>> \in S
  <2>1. s \o <<>> = s
    OBVIOUS
  <2>2. <<>> \in Seq(Nat)
    OBVIOUS
  <2> HIDE DEF p
  <2>3. ReadOn(base, p, <<>>) = p
    BY <1>1, ReadOnEmpty
  <2> QED
    BY <2>1, <2>2, <2>3 DEF p
<1>3. \A u \in Seq(Nat) : \A e \in Nat : u \in S => Append(u, e) \in S
  <2> HIDE DEF p
  <2> TAKE u \in Seq(Nat)
  <2> TAKE e \in Nat
  <2> HAVE u \in S
  <2>1. Append(u, e) \in Seq(Nat) /\ s \o Append(u, e) = Append(s \o u, e) /\ s \o u \in Seq(Nat)
    BY SMTT(30)
  <2>2. ReadOn(base, n, Append(s \o u, e)) = ReadOn(base, n, s \o u) * base + e
    BY <2>1, ReadOnAppend, ZenonT(30)
  <2>3. ReadOn(base, p, Append(u, e)) = ReadOn(base, p, u) * base + e
    BY <1>1, ReadOnAppend
  <2> QED
    BY <2>1, <2>2, <2>3
<1>4. Seq(Nat) \subseteq S
  <2> HIDE DEF S
  <2> QED
    BY <1>2, <1>3, AppendInduction
<1> QED
  BY <1>4

\* The first digit is read first.
LEMMA ReadOnCons ==
  ASSUME NEW base \in Nat, NEW n \in Nat, NEW e \in Nat, NEW t \in Seq(Nat)
  PROVE  ReadOn(base, n, <<e>> \o t) = ReadOn(base, n * base + e, t)
<1>1. <<e>> \in Seq(Nat) /\ <<>> \in Seq(Nat) /\ <<e>> = Append(<<>>, e)
  OBVIOUS
<1> DEFINE one == <<e>>
           nil == <<>>
<1>3. one \in Seq(Nat) /\ nil \in Seq(Nat) /\ one = Append(nil, e)
  BY <1>1
<1>4. ReadOn(base, n, nil) = n
  BY ReadOnEmpty
<1> HIDE DEF one, nil
<1>2. ReadOn(base, n, one) = n * base + e
  <2>1. ReadOn(base, n, Append(nil, e)) = ReadOn(base, n, nil) * base + e
    BY <1>3, ReadOnAppend
  <2> QED
    BY <1>3, <1>4, <2>1
<1>5. ReadOn(base, n, one \o t) = ReadOn(base, ReadOn(base, n, one), t)
  <2>1. one \in Seq(Nat)
    BY <1>3
  <2> QED
    BY <2>1, ReadOnConcat, ZenonT(30)
<1> QED
  BY <1>2, <1>5 DEF one

\* A number that begins with a digit that is not zero is greater than every
\* number of fewer digits: here those are the largest ones.
LEMMA LongerIsGreater ==
  ASSUME NEW n \in Nat \ {0}, NEW s \in Seq(Nat)
  PROVE  ReadOn(36, n, s) > ReadOn(36, 0, [d \in 1..Len(s) |-> 35])
<1> DEFINE Top(u) == [d \in 1..Len(u) |-> 35]
           S == {u \in Seq(Nat) : ReadOn(36, n, u) > ReadOn(36, 0, Top(u))}
<1>1. <<>> \in S
  <2>1. <<>> \in Seq(Nat) /\ Top(<<>>) = <<>>
    OBVIOUS
  <2>2. ReadOn(36, n, <<>>) = n /\ ReadOn(36, 0, <<>>) = 0
    BY ReadOnEmpty
  <2> HIDE DEF Top
  <2> QED
    BY <2>1, <2>2
<1>2. \A u \in Seq(Nat) : \A e \in Nat : u \in S => Append(u, e) \in S
  <2> TAKE u \in Seq(Nat)
  <2> TAKE e \in Nat
  <2> HAVE u \in S
  <2>1. Append(u, e) \in Seq(Nat) /\ Top(u) \in Seq(Nat)
    OBVIOUS
  <2>2. Top(Append(u, e)) = Append(Top(u), 35)
    OBVIOUS
  <2> HIDE DEF Top
  <2>3. ReadOn(36, n, Append(u, e)) = ReadOn(36, n, u) * 36 + e
    BY ReadOnAppend
  <2>4. ReadOn(36, 0, Append(Top(u), 35)) = ReadOn(36, 0, Top(u)) * 36 + 35
    BY <2>1, ReadOnAppend
  <2>5. ReadOn(36, n, u) \in Nat /\ ReadOn(36, 0, Top(u)) \in Nat
    BY <2>1, ReadOnType
  <2>6. ReadOn(36, n, u) > ReadOn(36, 0, Top(u))
    OBVIOUS
  <2>7. ReadOn(36, n, Append(u, e)) > ReadOn(36, 0, Append(Top(u), 35))
    <3> DEFINE x == ReadOn(36, n, u)
               y == ReadOn(36, 0, Top(u))
    <3>1. x \in Nat /\ y \in Nat /\ x > y
      BY <2>5, <2>6
    <3> HIDE DEF x, y
    <3>2. x * 36 + e > y * 36 + 35
      BY <3>1
    <3> QED
      BY <2>3, <2>4, <3>2 DEF x, y
  <2> QED
    BY <2>1, <2>2, <2>7
<1>3. Seq(Nat) \subseteq S
  <2> HIDE DEF S
  <2> QED
    BY <1>1, <1>2, AppendInduction
<1> QED
  BY <1>3

\* sequences over a set are sequences over a larger one
LEMMA SeqGrows ==
  ASSUME NEW A, NEW B, A \subseteq B
  PROVE  Seq(A) \subseteq Seq(B)
<1> SUFFICES ASSUME NEW w \in Seq(A) PROVE w \in Seq(B)
  OBVIOUS
<1>1. Len(w) \in Nat /\ w \in [1..Len(w) -> A]
  OBVIOUS
<1>2. w \in [1..Len(w) -> B]
  BY <1>1
<1> QED
  BY <1>1, <1>2

\* bytes are numbers
LEMMA BytesAreNumbers == Seq(Byte) \subseteq Seq(Nat)
<1>1. Byte \subseteq Nat
  BY DEF Byte
<1> QED
  BY <1>1, SeqGrows

\* Nothing is before the first byte or behind the last.
LEMMA WholePart ==
  ASSUME NEW w \in Seq(Byte), NEW n, n = Len(w)
  PROVE  SubSeq(w, 1, 0) = <<>> /\ SubSeq(w, 1, n) = w /\ SubSeq(w, n + 1, n) = <<>>
<1>0. Len(w) \in Nat
  OBVIOUS
<1>1. SubSeq(w, 1, 0) = <<>>
  BY <1>0
<1>2. SubSeq(w, 1, n) = w
  BY <1>0
<1>3. SubSeq(w, n + 1, n) = <<>>
  BY <1>0
<1> QED
  BY <1>1, <1>2, <1>3

\* The part in front of a byte, and the byte.
LEMMA FrontGrows ==
  ASSUME NEW w \in Seq(Byte), NEW c \in Nat, NEW k, c < Len(w), k = c + 1
  PROVE  SubSeq(w, 1, k) = Append(SubSeq(w, 1, c), w[k])
<1> DEFINE u == SubSeq(w, 1, k)
           h == SubSeq(w, 1, c)
           v == Append(h, w[k])
<1>0. Len(w) \in Nat /\ k \in 1..Len(w) /\ w[k] \in Byte
  OBVIOUS
<1>1. u \in Seq(Byte) /\ Len(u) = k /\ \A d \in 1..k : u[d] = w[d]
  BY <1>0
<1>2. h \in Seq(Byte) /\ Len(h) = c /\ \A d \in 1..c : h[d] = w[d]
  BY <1>0
<1> HIDE DEF u, h
<1>3. v \in Seq(Byte) /\ Len(v) = k /\ v[k] = w[k] /\ \A d \in 1..c : v[d] = h[d]
  BY <1>0, <1>2
<1> HIDE DEF v
<1>4. \A d \in 1..k : u[d] = v[d]
  <2> TAKE d \in 1..k
  <2>1. d = k \/ d \in 1..c
    BY <1>0
  <2> QED
    BY <1>1, <1>2, <1>3, <2>1
<1>5. u = v
  BY <1>1, <1>3, <1>4, SeqEqual
<1> QED
  BY <1>5 DEF u, v, h

\* A byte, and the part behind it.
LEMMA RestShrinks ==
  ASSUME NEW w \in Seq(Byte), NEW c \in Nat, NEW k, NEW n, c < Len(w), k = c + 1, n = Len(w)
  PROVE  SubSeq(w, k, n) = <<w[k]>> \o SubSeq(w, k + 1, n)
<1> DEFINE u == SubSeq(w, k, n)
           h == SubSeq(w, k + 1, n)
           e == <<w[k]>>
           v == e \o h
<1>0. n \in Nat /\ k \in 1..n /\ w[k] \in Byte
  OBVIOUS
<1>1. u \in Seq(Byte) /\ Len(u) = n - c /\ \A d \in 1..(n - c) : u[d] = w[c + d]
  BY <1>0
<1>2. h \in Seq(Byte) /\ Len(h) = n - k /\ \A d \in 1..(n - k) : h[d] = w[k + d]
  BY <1>0
<1>6. e \in Seq(Byte) /\ Len(e) = 1 /\ e[1] = w[k]
  BY <1>0
<1> HIDE DEF u, h, e
<1>3. v \in Seq(Byte) /\ Len(v) = 1 + Len(h) /\ v[1] = w[k] /\ \A d \in 1..Len(h) : v[d + 1] = h[d]
  <2>1. /\ v \in Seq(Byte) /\ Len(v) = Len(e) + Len(h)
        /\ \A d \in 1..(Len(e) + Len(h)) : v[d] = IF d <= Len(e) THEN e[d] ELSE h[d - Len(e)]
    <3>1. e \in Seq(Byte) /\ h \in Seq(Byte)
      BY <1>2, <1>6
    <3> QED
      BY <3>1, ConcatProperties
  <2> HIDE DEF v
  <2>2. Len(h) \in Nat /\ Len(v) = 1 + Len(h)
    BY <1>0, <1>2, <1>6, <2>1
  <2>3. v[1] = w[k]
    BY <1>6, <2>1, <2>2
  <2>4. \A d \in 1..Len(h) : v[d + 1] = h[d]
    BY <1>6, <2>1, <2>2
  <2> QED
    BY <2>1, <2>2, <2>3, <2>4
<1> HIDE DEF v
<1>4. \A d \in 1..(n - c) : u[d] = v[d]
  <2> TAKE d \in 1..(n - c)
  <2>1. CASE d = 1
    BY <1>1, <1>3, <2>1
  <2>2. CASE d # 1
    <3>1. d - 1 \in 1..(n - k) /\ (d - 1) + 1 = d /\ k + (d - 1) = c + d
      BY <1>0, <2>2
    <3>2. v[d] = h[d - 1]
      BY <1>2, <1>3, <3>1
    <3>3. h[d - 1] = w[c + d]
      BY <1>2, <3>1
    <3> QED
      BY <1>1, <3>2, <3>3
  <2> QED
    BY <2>1, <2>2
<1>7. Len(u) = Len(v) /\ Len(u) = n - c
  BY <1>0, <1>1, <1>2, <1>3
<1>5. u = v
  BY <1>1, <1>3, <1>4, <1>7, SeqEqual
<1> QED
  BY <1>5 DEF u, v, h, e

\* Other parts do not see a byte that changes.
LEMMA OtherParts ==
  ASSUME NEW w \in Seq(Byte), NEW c \in Nat, NEW k, NEW n, NEW q \in Byte,
         c < Len(w), k = c + 1, n = Len(w), NEW x, x = [w EXCEPT ![k] = q]
  PROVE  /\ x \in Seq(Byte) /\ Len(x) = n /\ x[k] = q
         /\ SubSeq(x, 1, c) = SubSeq(w, 1, c)
         /\ SubSeq(x, k + 1, n) = SubSeq(w, k + 1, n)
<1>0. n \in Nat /\ k \in 1..n
  OBVIOUS
<1>1. x \in Seq(Byte) /\ Len(x) = n /\ x[k] = q /\ \A d \in 1..n : d # k => x[d] = w[d]
  BY <1>0
<1>2. SubSeq(x, 1, c) = SubSeq(w, 1, c)
  <2> DEFINE u == SubSeq(x, 1, c)
             v == SubSeq(w, 1, c)
  <2>1. u \in Seq(Byte) /\ Len(u) = c /\ \A d \in 1..c : u[d] = x[d]
    BY <1>0, <1>1
  <2>2. v \in Seq(Byte) /\ Len(v) = c /\ \A d \in 1..c : v[d] = w[d]
    BY <1>0
  <2> HIDE DEF u, v
  <2>3. \A d \in 1..c : u[d] = v[d]
    BY <1>0, <1>1, <2>1, <2>2
  <2>4. u = v
    BY <2>1, <2>2, <2>3, SeqEqual
  <2> QED
    BY <2>4 DEF u, v
<1>3. SubSeq(x, k + 1, n) = SubSeq(w, k + 1, n)
  <2> DEFINE u == SubSeq(x, k + 1, n)
             v == SubSeq(w, k + 1, n)
             m == n - k
  <2>0. m \in Nat
    BY <1>0
  <2>1. u \in Seq(Byte) /\ Len(u) = m /\ \A d \in 1..m : u[d] = x[k + d]
    BY <1>0, <1>1
  <2>2. v \in Seq(Byte) /\ Len(v) = m /\ \A d \in 1..m : v[d] = w[k + d]
    BY <1>0
  <2>5. \A d \in 1..m : k + d \in 1..n /\ k + d # k
    BY <1>0
  <2> HIDE DEF u, v, m
  <2>3. \A d \in 1..m : u[d] = v[d]
    BY <1>1, <2>1, <2>2, <2>5
  <2>4. u = v
    BY <2>0, <2>1, <2>2, <2>3, SeqEqual
  <2> QED
    BY <2>4 DEF u, v
<1> QED
  BY <1>1, <1>2, <1>3

\* the number that is left in the middle of a division: the quotient so far is
\* in the bytes before c, and the remainder stands before the other bytes
LeftOf(w, c, r) == ReadOn(256, Number(SubSeq(w, 1, c)) * 36 + r, SubSeq(w, c + 1, Len(w)))

\* x is w with the byte k behind the first c divided: the remainder r stands
\* before the byte, q is the quotient and p the new remainder
DividesByte(w, c, k, r, q, p, x) ==
  /\ w \in Seq(Byte) /\ c \in Nat /\ c < Len(w) /\ k = c + 1
  /\ r \in 0..35 /\ q \in Byte /\ p \in 0..35
  /\ r * 256 + w[k] = 36 * q + p
  /\ x = [w EXCEPT ![k] = q]

\* Dividing a byte does not change the number that is left.
LEMMA DividedByte ==
  ASSUME NEW w, NEW c, NEW k, NEW r, NEW q, NEW p, NEW x, DividesByte(w, c, k, r, q, p, x)
  PROVE  LeftOf(x, k, p) = LeftOf(w, c, r)
<1> SUFFICES ASSUME w \in Seq(Byte), c \in Nat, c < Len(w), k = c + 1,
                    r \in 0..35, q \in Byte, p \in 0..35,
                    r * 256 + w[k] = 36 * q + p, x = [w EXCEPT ![k] = q]
             PROVE  LeftOf(x, k, p) = LeftOf(w, c, r)
  BY DEF DividesByte
<1> DEFINE n == Len(w)
           h == SubSeq(w, 1, c)
           t == SubSeq(w, k + 1, n)
           b == w[k]
<1>0. n \in Nat /\ k \in 1..n /\ b \in Byte /\ Byte \subseteq Nat
  <2>1. n \in Nat /\ k \in 1..n
    OBVIOUS
  <2>2. w[k] \in Byte
    BY <2>1
  <2> QED
    BY <2>1, <2>2 DEF Byte
<1>1. /\ x \in Seq(Byte) /\ Len(x) = n /\ x[k] = q
      /\ SubSeq(x, 1, c) = h /\ SubSeq(x, k + 1, n) = t
  <2> DEFINE m == Len(w)
  <2>1. n = m
    OBVIOUS
  <2> HIDE DEF n
  <2>2. /\ x \in Seq(Byte) /\ Len(x) = n /\ x[k] = q
        /\ SubSeq(x, 1, c) = SubSeq(w, 1, c)
        /\ SubSeq(x, k + 1, n) = SubSeq(w, k + 1, n)
    BY <2>1, OtherParts
  <2> QED
    BY <2>2
<1>2. SubSeq(x, 1, k) = Append(h, q)
  <2>1. c < Len(x)
    BY <1>1
  <2>2. SubSeq(x, 1, k) = Append(SubSeq(x, 1, c), x[k])
    BY <1>1, <2>1, FrontGrows
  <2> QED
    BY <1>1, <2>2
<1>3. SubSeq(w, k, n) = <<b>> \o t
  <2> DEFINE m == Len(w)
  <2>1. n = m
    OBVIOUS
  <2> HIDE DEF n
  <2>2. SubSeq(w, k, n) = <<w[k]>> \o SubSeq(w, k + 1, n)
    BY <2>1, RestShrinks
  <2> QED
    BY <2>2
<1>4. h \in Seq(Nat) /\ t \in Seq(Nat) /\ b \in Nat /\ q \in Nat
  <2>1. h \in Seq(Byte) /\ t \in Seq(Byte)
    BY <1>0
  <2> HIDE DEF h, t
  <2> QED
    BY <1>0, <2>1, BytesAreNumbers
<1> HIDE DEF n, h, t, b
<1> DEFINE y == ReadOn(256, 0, h)
<1>5. y \in Nat /\ ReadOn(256, 0, Append(h, q)) = y * 256 + q
  <2>1. ReadOn(256, 0, h) \in Nat
    <3>1. 256 \in Nat /\ 0 \in Nat /\ h \in Seq(Nat)
      BY <1>4
    <3> QED
      BY <3>1, ReadOnType, ZenonT(30)
  <2>2. ReadOn(256, 0, Append(h, q)) = ReadOn(256, 0, h) * 256 + q
    BY <1>4, ReadOnAppend
  <2> QED
    BY <2>1, <2>2
<1>10. Number(h) = y /\ Number(Append(h, q)) = y * 256 + q
  BY <1>5 DEF Number
<1> HIDE DEF y
<1>6. (y * 256 + q) * 36 + p = (y * 36 + r) * 256 + b /\ y * 36 + r \in Nat
  <2>1. r * 256 + b = 36 * q + p
    BY DEF b
  <2> QED
    BY <1>0, <1>4, <1>5, <2>1
<1>7. LeftOf(x, k, p) = ReadOn(256, (y * 256 + q) * 36 + p, t)
  <2>1. LeftOf(x, k, p) = ReadOn(256, Number(SubSeq(x, 1, k)) * 36 + p, SubSeq(x, k + 1, Len(x)))
    BY DEF LeftOf
  <2>2. Number(SubSeq(x, 1, k)) = y * 256 + q
    BY <1>2, <1>10
  <2>3. SubSeq(x, k + 1, Len(x)) = t
    BY <1>1
  <2> QED
    BY <2>1, <2>2, <2>3, ZenonT(30)
<1>8. LeftOf(w, c, r) = ReadOn(256, y * 36 + r, <<b>> \o t)
  BY <1>3, <1>10 DEF LeftOf, h, n
<1>9. ReadOn(256, y * 36 + r, <<b>> \o t) = ReadOn(256, (y * 36 + r) * 256 + b, t)
  <2> DEFINE v == y * 36 + r
  <2>1. 256 \in Nat /\ v \in Nat /\ b \in Nat /\ t \in Seq(Nat)
    BY <1>4, <1>6
  <2> HIDE DEF v
  <2>2. ReadOn(256, v, <<b>> \o t) = ReadOn(256, v * 256 + b, t)
    BY <2>1, ReadOnCons, SMTT(30)
  <2> QED
    BY <2>2 DEF v
<1> QED
  BY <1>6, <1>7, <1>8, <1>9

\* Before the first byte it is the number divided, behind the last one it is
\* put together from quotient and remainder.
LEMMA DivisionEnds ==
  ASSUME NEW w \in Seq(Byte), NEW r \in 0..35
  PROVE  LeftOf(w, 0, 0) = Number(w) /\ LeftOf(w, Len(w), r) = Number(w) * 36 + r
<1> DEFINE n == Len(w)
           nil == <<>>
<1>1. SubSeq(w, 1, 0) = nil /\ SubSeq(w, 1, n) = w /\ SubSeq(w, n + 1, n) = nil
  BY WholePart
<1>2. w \in Seq(Nat) /\ n \in Nat
  BY BytesAreNumbers
<1> HIDE DEF n, nil
<1>3. Number(nil) = 0
  BY ReadOnEmpty DEF Number, nil
<1>4. Number(w) \in Nat
  <2>1. ReadOn(256, 0, w) \in Nat
    <3>1. 256 \in Nat /\ 0 \in Nat /\ w \in Seq(Nat)
      BY <1>2
    <3> QED
      BY <3>1, ReadOnType, ZenonT(30)
  <2> QED
    BY <2>1 DEF Number
<1>5. LeftOf(w, 0, 0) = ReadOn(256, 0, SubSeq(w, 1, n))
  <2>1. LeftOf(w, 0, 0) = ReadOn(256, Number(nil) * 36 + 0, SubSeq(w, 0 + 1, n))
    BY <1>1 DEF LeftOf, n
  <2>2. Number(nil) * 36 + 0 = 0 /\ 0 + 1 = 1
    BY <1>3
  <2> QED
    BY <2>1, <2>2
<1>6. LeftOf(w, n, r) = ReadOn(256, Number(w) * 36 + r, nil)
  BY <1>1 DEF LeftOf, n
<1>7. Number(w) * 36 + r \in Nat
  BY <1>4
<1>8. ReadOn(256, Number(w) * 36 + r, nil) = Number(w) * 36 + r
  BY <1>7, ReadOnEmpty DEF nil
<1> QED
  BY <1>1, <1>5, <1>6, <1>8 DEF Number, n

\* bytes and digits are numbers, and stand for one
LEMMA DigitsAreNumbers == Seq(0..35) \subseteq Seq(Nat)
<1> DEFINE A == 0..35
<1>1. A \subseteq Nat
  OBVIOUS
<1> HIDE DEF A
<1>2. Seq(A) \subseteq Seq(Nat)
  BY <1>1, SeqGrows
<1> QED
  BY <1>2 DEF A

LEMMA NumberType ==
  ASSUME NEW w \in Seq(Byte)
  PROVE  Number(w) \in Nat
<1>1. 256 \in Nat /\ 0 \in Nat /\ w \in Seq(Nat)
  BY BytesAreNumbers
<1>2. ReadOn(256, 0, w) \in Nat
  BY <1>1, ReadOnType, ZenonT(30)
<1> QED
  BY <1>2 DEF Number

-----------------------------------------------------------------------------
\* every number of n bytes is below x, and the greatest number of n digits in
\* base 36 is not below y - 1
BytesBelow(n, x) == \A s \in Seq(Byte) : Len(s) = n => Number(s) < x
DigitsReach(n, y) == y <= ReadOn(36, 0, [z \in 1..n |-> 35]) + 1

\* one byte more
LEMMA OneByteMore ==
  ASSUME NEW n \in Nat, NEW x \in Nat, BytesBelow(n, x)
  PROVE  BytesBelow(n + 1, 256 * x)
<1> SUFFICES ASSUME NEW s \in Seq(Byte), Len(s) = n + 1 PROVE Number(s) < 256 * x
  BY DEF BytesBelow
<1> DEFINE k == n + 1
           h == SubSeq(s, 1, n)
           e == s[k]
<1>1. n < Len(s) /\ Len(s) = k /\ e \in Byte /\ h \in Seq(Byte) /\ Len(h) = n
  OBVIOUS
<1>2. s = Append(h, e)
  <2>1. k = n + 1
    OBVIOUS
  <2>2. n < Len(s) /\ k = Len(s)
    BY <1>1
  <2> HIDE DEF k
  <2>3. SubSeq(s, 1, k) = Append(SubSeq(s, 1, n), s[k])
    BY <2>1, <2>2, FrontGrows
  <2>4. SubSeq(s, 1, k) = s
    BY <2>2, WholePart
  <2> QED
    BY <2>3, <2>4
<1> HIDE DEF h, e, k
<1>3. h \in Seq(Nat) /\ e \in Nat /\ e < 256
  BY <1>1, BytesAreNumbers DEF Byte
<1>4. Number(h) \in Nat /\ Number(h) < x
  BY <1>1, NumberType DEF BytesBelow
<1>5. Number(s) = Number(h) * 256 + e
  <2>1. ReadOn(256, 0, Append(h, e)) = ReadOn(256, 0, h) * 256 + e
    BY <1>3, ReadOnAppend
  <2> QED
    BY <1>2, <2>1 DEF Number
<1> DEFINE m == Number(h)
<1>6. m \in Nat /\ m < x /\ Number(s) = m * 256 + e
  BY <1>4, <1>5
<1> HIDE DEF m
<1> QED
  BY <1>3, <1>6

\* one digit more
LEMMA OneDigitMore ==
  ASSUME NEW n \in Nat, NEW y \in Nat, DigitsReach(n, y)
  PROVE  DigitsReach(n + 1, 36 * y)
<1> DEFINE s == [z \in 1..n |-> 35]
           t == [z \in 1..(n + 1) |-> 35]
           m == ReadOn(36, 0, s)
<1>1. s \in Seq(Nat) /\ t = Append(s, 35)
  OBVIOUS
<1> HIDE DEF s, t
<1>2. m \in Nat /\ ReadOn(36, 0, t) = m * 36 + 35
  <2>1. m \in Nat
    BY <1>1, ReadOnType
  <2>2. ReadOn(36, 0, Append(s, 35)) = m * 36 + 35
    BY <1>1, ReadOnAppend
  <2> QED
    BY <1>1, <2>1, <2>2
<1>3. y <= m + 1
  BY DEF DigitsReach, s
<1> HIDE DEF m
<1>4. 36 * y <= (m * 36 + 35) + 1
  BY <1>2, <1>3
<1> QED
  BY <1>2, <1>4 DEF DigitsReach, t

\* four bytes and five digits more, and how the bounds grow
Grown256(x) == 256 * (256 * (256 * (256 * x)))
Grown36(y)  == 36 * (36 * (36 * (36 * (36 * y))))

\* four bytes more
LEMMA FourBytesMore ==
  ASSUME NEW n \in Nat, NEW x \in Nat, BytesBelow(n, x)
  PROVE  Grown256(x) \in Nat /\ BytesBelow(n + 4, Grown256(x))
<1> DEFINE x0 == x
           x1 == 256 * x0
           x2 == 256 * x1
           x3 == 256 * x2
           x4 == 256 * x3
<1>0. /\ x0 \in Nat /\ n + 0 \in Nat
      /\ x1 \in Nat /\ n + 1 \in Nat
      /\ x2 \in Nat /\ n + 2 \in Nat
      /\ x3 \in Nat /\ n + 3 \in Nat
      /\ x4 \in Nat /\ n + 4 \in Nat
  OBVIOUS
<1>1. BytesBelow(n + 1, x1)
  <2> DEFINE m == n + 0
  <2>1. m + 1 = n + 1 /\ m \in Nat
    OBVIOUS
  <2>2. BytesBelow(m, x0)
    OBVIOUS
  <2> HIDE DEF m, x0, x1, x2, x3, x4
  <2>3. BytesBelow(m + 1, 256 * x0)
    BY <1>0, <2>1, <2>2, OneByteMore
  <2> QED
    BY <2>1, <2>3 DEF x1
<1>2. BytesBelow(n + 2, x2)
  <2> DEFINE m == n + 1
  <2>1. m + 1 = n + 2 /\ m \in Nat
    OBVIOUS
  <2>2. BytesBelow(m, x1)
    BY <1>1
  <2> HIDE DEF m, x0, x1, x2, x3, x4
  <2>3. BytesBelow(m + 1, 256 * x1)
    BY <1>0, <2>1, <2>2, OneByteMore
  <2> QED
    BY <2>1, <2>3 DEF x2
<1>3. BytesBelow(n + 3, x3)
  <2> DEFINE m == n + 2
  <2>1. m + 1 = n + 3 /\ m \in Nat
    OBVIOUS
  <2>2. BytesBelow(m, x2)
    BY <1>2
  <2> HIDE DEF m, x0, x1, x2, x3, x4
  <2>3. BytesBelow(m + 1, 256 * x2)
    BY <1>0, <2>1, <2>2, OneByteMore
  <2> QED
    BY <2>1, <2>3 DEF x3
<1>4. BytesBelow(n + 4, x4)
  <2> DEFINE m == n + 3
  <2>1. m + 1 = n + 4 /\ m \in Nat
    OBVIOUS
  <2>2. BytesBelow(m, x3)
    BY <1>3
  <2> HIDE DEF m, x0, x1, x2, x3, x4
  <2>3. BytesBelow(m + 1, 256 * x3)
    BY <1>0, <2>1, <2>2, OneByteMore
  <2> QED
    BY <2>1, <2>3 DEF x4
<1>5. x4 = Grown256(x)
  BY DEF Grown256
<1> QED
  BY <1>0, <1>4, <1>5

\* five digits more
LEMMA FiveDigitsMore ==
  ASSUME NEW n \in Nat, NEW x \in Nat, DigitsReach(n, x)
  PROVE  Grown36(x) \in Nat /\ DigitsReach(n + 5, Grown36(x))
<1> DEFINE x0 == x
           x1 == 36 * x0
           x2 == 36 * x1
           x3 == 36 * x2
           x4 == 36 * x3
           x5 == 36 * x4
<1>0. /\ x0 \in Nat /\ n + 0 \in Nat
      /\ x1 \in Nat /\ n + 1 \in Nat
      /\ x2 \in Nat /\ n + 2 \in Nat
      /\ x3 \in Nat /\ n + 3 \in Nat
      /\ x4 \in Nat /\ n + 4 \in Nat
      /\ x5 \in Nat /\ n + 5 \in Nat
  OBVIOUS
<1>1. DigitsReach(n + 1, x1)
  <2> DEFINE m == n + 0
  <2>1. m + 1 = n + 1 /\ m \in Nat
    OBVIOUS
  <2>2. DigitsReach(m, x0)
    OBVIOUS
  <2> HIDE DEF m, x0, x1, x2, x3, x4, x5
  <2>3. DigitsReach(m + 1, 36 * x0)
    BY <1>0, <2>1, <2>2, OneDigitMore
  <2> QED
    BY <2>1, <2>3 DEF x1
<1>2. DigitsReach(n + 2, x2)
  <2> DEFINE m == n + 1
  <2>1. m + 1 = n + 2 /\ m \in Nat
    OBVIOUS
  <2>2. DigitsReach(m, x1)
    BY <1>1
  <2> HIDE DEF m, x0, x1, x2, x3, x4, x5
  <2>3. DigitsReach(m + 1, 36 * x1)
    BY <1>0, <2>1, <2>2, OneDigitMore
  <2> QED
    BY <2>1, <2>3 DEF x2
<1>3. DigitsReach(n + 3, x3)
  <2> DEFINE m == n + 2
  <2>1. m + 1 = n + 3 /\ m \in Nat
    OBVIOUS
  <2>2. DigitsReach(m, x2)
    BY <1>2
  <2> HIDE DEF m, x0, x1, x2, x3, x4, x5
  <2>3. DigitsReach(m + 1, 36 * x2)
    BY <1>0, <2>1, <2>2, OneDigitMore
  <2> QED
    BY <2>1, <2>3 DEF x3
<1>4. DigitsReach(n + 4, x4)
  <2> DEFINE m == n + 3
  <2>1. m + 1 = n + 4 /\ m \in Nat
    OBVIOUS
  <2>2. DigitsReach(m, x3)
    BY <1>3
  <2> HIDE DEF m, x0, x1, x2, x3, x4, x5
  <2>3. DigitsReach(m + 1, 36 * x3)
    BY <1>0, <2>1, <2>2, OneDigitMore
  <2> QED
    BY <2>1, <2>3 DEF x4
<1>5. DigitsReach(n + 5, x5)
  <2> DEFINE m == n + 4
  <2>1. m + 1 = n + 5 /\ m \in Nat
    OBVIOUS
  <2>2. DigitsReach(m, x4)
    BY <1>4
  <2> HIDE DEF m, x0, x1, x2, x3, x4, x5
  <2>3. DigitsReach(m + 1, 36 * x4)
    BY <1>0, <2>1, <2>2, OneDigitMore
  <2> QED
    BY <2>1, <2>3 DEF x5
<1>6. x5 = Grown36(x)
  BY DEF Grown36
<1> QED
  BY <1>0, <1>5, <1>6

\* HashBodyLength digits are enough for every digest: it is no greater than the
\* number with all digits 'z'.
DigestsFit == \A d \in Digests : Number(d) <= ReadOn(36, 0, [z \in 1..HashBodyLength |-> 35])

\* 256^32 <= 36^50: with the lengths of def.h every digest fits.
LEMMA RealLengthsFit ==
  ASSUME DigestLength = 32, HashBodyLength = 50
  PROVE  DigestsFit
<1> DEFINE b0 == 1
           b1 == Grown256(b0)
           b2 == Grown256(b1)
           b3 == Grown256(b2)
           b4 == Grown256(b3)
           b5 == Grown256(b4)
           b6 == Grown256(b5)
           b7 == Grown256(b6)
           b8 == Grown256(b7)
<1> DEFINE d0 == 1
           d1 == Grown36(d0)
           d2 == Grown36(d1)
           d3 == Grown36(d2)
           d4 == Grown36(d3)
           d5 == Grown36(d4)
           d6 == Grown36(d5)
           d7 == Grown36(d6)
           d8 == Grown36(d7)
           d9 == Grown36(d8)
           d10 == Grown36(d9)
<1>1. b0 \in Nat /\ BytesBelow(0, b0)
  <2>1. Number(<<>>) = 0
    BY ReadOnEmpty DEF Number
  <2>2. \A s \in Seq(Byte) : Len(s) = 0 => s = <<>>
    OBVIOUS
  <2> QED
    BY <2>1, <2>2 DEF BytesBelow
<1>2. d0 \in Nat /\ DigitsReach(0, d0)
  <2>1. [z \in 1..0 |-> 35] = <<>> /\ ReadOn(36, 0, <<>>) = 0
    BY ReadOnEmpty
  <2> QED
    BY <2>1 DEF DigitsReach
<1>3. b8 < d10 + 1
  BY SMT DEF Grown256, Grown36
<1> HIDE DEF b0, b1, b2, b3, b4, b5, b6, b7, b8, d0, d1, d2, d3, d4, d5, d6, d7, d8, d9, d10
<1>b1. b1 \in Nat /\ BytesBelow(4, b1)
  <2>1. Grown256(b0) \in Nat /\ BytesBelow(0 + 4, Grown256(b0))
    BY <1>1, FourBytesMore
  <2>2. 0 + 4 = 4
    OBVIOUS
  <2> QED
    BY <2>1, <2>2 DEF b1
<1>b2. b2 \in Nat /\ BytesBelow(8, b2)
  <2>1. Grown256(b1) \in Nat /\ BytesBelow(4 + 4, Grown256(b1))
    BY <1>b1, FourBytesMore
  <2>2. 4 + 4 = 8
    OBVIOUS
  <2> QED
    BY <2>1, <2>2 DEF b2
<1>b3. b3 \in Nat /\ BytesBelow(12, b3)
  <2>1. Grown256(b2) \in Nat /\ BytesBelow(8 + 4, Grown256(b2))
    BY <1>b2, FourBytesMore
  <2>2. 8 + 4 = 12
    OBVIOUS
  <2> QED
    BY <2>1, <2>2 DEF b3
<1>b4. b4 \in Nat /\ BytesBelow(16, b4)
  <2>1. Grown256(b3) \in Nat /\ BytesBelow(12 + 4, Grown256(b3))
    BY <1>b3, FourBytesMore
  <2>2. 12 + 4 = 16
    OBVIOUS
  <2> QED
    BY <2>1, <2>2 DEF b4
<1>b5. b5 \in Nat /\ BytesBelow(20, b5)
  <2>1. Grown256(b4) \in Nat /\ BytesBelow(16 + 4, Grown256(b4))
    BY <1>b4, FourBytesMore
  <2>2. 16 + 4 = 20
    OBVIOUS
  <2> QED
    BY <2>1, <2>2 DEF b5
<1>b6. b6 \in Nat /\ BytesBelow(24, b6)
  <2>1. Grown256(b5) \in Nat /\ BytesBelow(20 + 4, Grown256(b5))
    BY <1>b5, FourBytesMore
  <2>2. 20 + 4 = 24
    OBVIOUS
  <2> QED
    BY <2>1, <2>2 DEF b6
<1>b7. b7 \in Nat /\ BytesBelow(28, b7)
  <2>1. Grown256(b6) \in Nat /\ BytesBelow(24 + 4, Grown256(b6))
    BY <1>b6, FourBytesMore
  <2>2. 24 + 4 = 28
    OBVIOUS
  <2> QED
    BY <2>1, <2>2 DEF b7
<1>b8. b8 \in Nat /\ BytesBelow(32, b8)
  <2>1. Grown256(b7) \in Nat /\ BytesBelow(28 + 4, Grown256(b7))
    BY <1>b7, FourBytesMore
  <2>2. 28 + 4 = 32
    OBVIOUS
  <2> QED
    BY <2>1, <2>2 DEF b8
<1>d1. d1 \in Nat /\ DigitsReach(5, d1)
  <2>1. Grown36(d0) \in Nat /\ DigitsReach(0 + 5, Grown36(d0))
    BY <1>2, FiveDigitsMore
  <2>2. 0 + 5 = 5
    OBVIOUS
  <2> QED
    BY <2>1, <2>2 DEF d1
<1>d2. d2 \in Nat /\ DigitsReach(10, d2)
  <2>1. Grown36(d1) \in Nat /\ DigitsReach(5 + 5, Grown36(d1))
    BY <1>d1, FiveDigitsMore
  <2>2. 5 + 5 = 10
    OBVIOUS
  <2> QED
    BY <2>1, <2>2 DEF d2
<1>d3. d3 \in Nat /\ DigitsReach(15, d3)
  <2>1. Grown36(d2) \in Nat /\ DigitsReach(10 + 5, Grown36(d2))
    BY <1>d2, FiveDigitsMore
  <2>2. 10 + 5 = 15
    OBVIOUS
  <2> QED
    BY <2>1, <2>2 DEF d3
<1>d4. d4 \in Nat /\ DigitsReach(20, d4)
  <2>1. Grown36(d3) \in Nat /\ DigitsReach(15 + 5, Grown36(d3))
    BY <1>d3, FiveDigitsMore
  <2>2. 15 + 5 = 20
    OBVIOUS
  <2> QED
    BY <2>1, <2>2 DEF d4
<1>d5. d5 \in Nat /\ DigitsReach(25, d5)
  <2>1. Grown36(d4) \in Nat /\ DigitsReach(20 + 5, Grown36(d4))
    BY <1>d4, FiveDigitsMore
  <2>2. 20 + 5 = 25
    OBVIOUS
  <2> QED
    BY <2>1, <2>2 DEF d5
<1>d6. d6 \in Nat /\ DigitsReach(30, d6)
  <2>1. Grown36(d5) \in Nat /\ DigitsReach(25 + 5, Grown36(d5))
    BY <1>d5, FiveDigitsMore
  <2>2. 25 + 5 = 30
    OBVIOUS
  <2> QED
    BY <2>1, <2>2 DEF d6
<1>d7. d7 \in Nat /\ DigitsReach(35, d7)
  <2>1. Grown36(d6) \in Nat /\ DigitsReach(30 + 5, Grown36(d6))
    BY <1>d6, FiveDigitsMore
  <2>2. 30 + 5 = 35
    OBVIOUS
  <2> QED
    BY <2>1, <2>2 DEF d7
<1>d8. d8 \in Nat /\ DigitsReach(40, d8)
  <2>1. Grown36(d7) \in Nat /\ DigitsReach(35 + 5, Grown36(d7))
    BY <1>d7, FiveDigitsMore
  <2>2. 35 + 5 = 40
    OBVIOUS
  <2> QED
    BY <2>1, <2>2 DEF d8
<1>d9. d9 \in Nat /\ DigitsReach(45, d9)
  <2>1. Grown36(d8) \in Nat /\ DigitsReach(40 + 5, Grown36(d8))
    BY <1>d8, FiveDigitsMore
  <2>2. 40 + 5 = 45
    OBVIOUS
  <2> QED
    BY <2>1, <2>2 DEF d9
<1>d10. d10 \in Nat /\ DigitsReach(50, d10)
  <2>1. Grown36(d9) \in Nat /\ DigitsReach(45 + 5, Grown36(d9))
    BY <1>d9, FiveDigitsMore
  <2>2. 45 + 5 = 50
    OBVIOUS
  <2> QED
    BY <2>1, <2>2 DEF d10
<1>4. ASSUME NEW d \in Digests PROVE Number(d) < b8 /\ Number(d) \in Nat
  <2>1. d \in Seq(Byte) /\ Len(d) = 32
    BY DigestsAssumption
  <2> QED
    BY <1>b8, <2>1, NumberType DEF BytesBelow
<1>5. d10 <= ReadOn(36, 0, [z \in 1..50 |-> 35]) + 1 /\ ReadOn(36, 0, [z \in 1..50 |-> 35]) \in Nat
  <2>1. [z \in 1..50 |-> 35] \in Seq(Nat)
    OBVIOUS
  <2> QED
    BY <1>d10, <2>1, ReadOnType DEF DigitsReach
<1>6. b8 \in Nat /\ d10 \in Nat
  BY <1>b8, <1>d10
<1> QED
  BY <1>3, <1>4, <1>5, <1>6 DEF DigestsFit

-----------------------------------------------------------------------------
\* The digits stored so far, read on from what is left, are the digest: between
\* two digits, in the middle of a division, and in the end.
NumberInv ==
  /\ pc \in {"digit", "divide"} \/ status = "OK" =>
       /\ i \in 0..HashBodyLength
       /\ StoredDigits \in [1..(HashBodyLength - i) -> 0..35]
  /\ pc = "digit" => ReadOn(36, Number(buf), StoredDigits) = Number(digest)
  /\ pc = "divide" => ReadOn(36, LeftOf(buf, j, rem), StoredDigits) = Number(digest)
  /\ status = "OK" => i = 0 /\ ReadOn(36, Number(buf), StoredDigits) = Number(digest)

\* the bytes left to divide, as a sequence
LEMMA BufferFacts ==
  ASSUME Inv
  PROVE  /\ buf \in Seq(Byte) /\ Len(buf) = DigestLength
         /\ i \in Nat /\ j \in Nat /\ rem \in 0..35
         /\ HashBodyLength \in Nat /\ DigestLength \in Nat /\ MarkerEnd \in Nat
         /\ Len(marker) = MarkerEnd
<1>1. DigestLength \in Nat /\ HashBodyLength \in Nat
  BY LengthsAssumption
<1>2. MarkerEnd \in Nat /\ Len(marker) = MarkerEnd
  BY CallFacts DEF Inv
<1>3. i \in Nat /\ j \in Nat /\ rem \in 0..35 /\ buf \in [1..DigestLength -> Byte]
  BY <1>1 DEF Inv, TypeOK
<1> QED
  BY <1>1, <1>2, <1>3

\* a sequence that is a digit and then another sequence
LEMMA ConsIs ==
  ASSUME NEW B, NEW e \in B, NEW s \in Seq(B), NEW n \in Nat, Len(s) = n - 1,
         NEW t \in [1..n -> B], \A d \in 1..n : t[d] = IF d = 1 THEN e ELSE s[d - 1]
  PROVE  t = <<e>> \o s
<1> DEFINE u == <<e>>
           v == u \o s
<1>1. u \in Seq(B) /\ Len(u) = 1 /\ u[1] = e
  OBVIOUS
<1> HIDE DEF u
<1>2. /\ v \in Seq(B) /\ Len(v) = Len(u) + Len(s)
      /\ \A d \in 1..(Len(u) + Len(s)) : v[d] = IF d <= Len(u) THEN u[d] ELSE s[d - Len(u)]
  BY <1>1, ConcatProperties
<1> HIDE DEF v
<1>3. Len(v) = n /\ Len(t) = n /\ t \in Seq(B)
  BY <1>1, <1>2
<1>4. \A d \in 1..n : t[d] = v[d]
  <2> TAKE d \in 1..n
  <2>1. d <= 1 <=> d = 1
    OBVIOUS
  <2>2. v[d] = IF d = 1 THEN e ELSE s[d - 1]
    BY <1>1, <1>2, <1>3, <2>1
  <2> QED
    BY <2>2
<1>5. t = v
  BY <1>2, <1>3, <1>4, SeqEqual
<1> QED
  BY <1>5 DEF v, u

\* Init: nothing is stored and nothing is divided.
LEMMA NumberInit == Init => NumberInv
  BY DEF Init, NumberInv

\* The digits are what they were when the buffer behind the marker is.
LEMMA StoredSame ==
  ASSUME UNCHANGED <<i, marker>>, i \in Nat, HashBodyLength \in Nat, MarkerEnd \in Nat,
         Len(marker) = MarkerEnd,
         \A o \in (MarkerEnd + i)..(MarkerEnd + HashBodyLength - 1) : output'[o] = output[o]
  PROVE  StoredDigits' = StoredDigits
<1>1. \A d \in 1..(HashBodyLength - i) : output'[Len(marker) + i + d - 1] = output[Len(marker) + i + d - 1]
  OBVIOUS
<1> QED
  BY <1>1 DEF StoredDigits

\* EnterBase36: the number to divide is the digest, and nothing is stored.
LEMMA NumberEnters ==
  ASSUME Inv, NumberInv, EnterBase36, Inv'
  PROVE  NumberInv'
<1>1. /\ pc = "base36" /\ status = "PENDING"
      /\ UNCHANGED <<marker, digest, cap, output>>
  BY DEF EnterBase36, call, Inv
<1>2. /\ MarkerEnd \in Nat /\ Len(marker) = MarkerEnd /\ HashBodyLength \in Nat
      /\ LabelLength = MarkerEnd + HashBodyLength /\ LabelLength < cap /\ cap \in Nat
  BY <1>1, CallFacts, LengthsAssumption DEF Inv, RoomInv
<1>3. pc' = "digit" /\ buf' = digest /\ i' = HashBodyLength /\ status' = status
  BY <1>2 DEF EnterBase36, DigitsRoom
<1>4. StoredDigits' = <<>>
  <2>1. HashBodyLength - i' = 0
    BY <1>2, <1>3
  <2>2. 1..(HashBodyLength - i') = {}
    BY <2>1
  <2> QED
    BY <2>2 DEF StoredDigits
<1>5. buf' \in Seq(Byte)
  <2>1. digest \in [1..DigestLength -> Byte]
    BY CallFacts DEF Inv
  <2> QED
    BY <1>3, <2>1, LengthsAssumption
<1>6. Number(buf') \in Nat
  BY <1>5, NumberType
<1>7. ReadOn(36, Number(buf'), <<>>) = Number(buf')
  BY <1>6, ReadOnEmpty
<1>8. StoredDigits' \in [1..(HashBodyLength - i') -> 0..35]
  BY <1>2, <1>3, <1>4
<1> QED
  BY <1>1, <1>2, <1>3, <1>4, <1>7, <1>8 DEF NumberInv

\* NextDigit: a division begins with the number that is left.
LEMMA NumberNext ==
  ASSUME Inv, NumberInv, NextDigit
  PROVE  NumberInv'
<1>1. /\ UNCHANGED <<marker, digest, buf, i, output, status>>
      /\ pc = "digit" /\ pc' = "divide" /\ j' = 0 /\ rem' = 0 /\ status = "PENDING"
  BY DEF NextDigit, call, Inv
<1>2. StoredDigits' = StoredDigits
  BY <1>1 DEF StoredDigits
<1>3. LeftOf(buf, 0, 0) = Number(buf)
  BY BufferFacts, DivisionEnds
<1> QED
  BY <1>1, <1>2, <1>3 DEF NumberInv

\* DivideByte: dividing a byte does not change what is left.
LEMMA NumberDivided ==
  ASSUME Inv, NumberInv, DivideByte
  PROVE  NumberInv'
<1>1. /\ UNCHANGED <<marker, digest, i, output, status>>
      /\ pc = "divide" /\ pc' = "divide" /\ j < DigestLength /\ j' = j + 1
      /\ rem' = Remainder(Current) /\ status = "PENDING"
      /\ buf' = [buf EXCEPT ![j + 1] = Quotient(Current) % 256]
  BY DEF DivideByte, call, Inv
<1>2. StoredDigits' = StoredDigits
  BY <1>1 DEF StoredDigits
<1> DEFINE k == j + 1
           b == buf[k]
           q == Quotient(Current)
           p == Remainder(Current)
<1>3. buf \in Seq(Byte) /\ j \in Nat /\ rem \in 0..35 /\ j < Len(buf) /\ b \in Byte
  BY <1>1, BufferFacts
<1>4. q \in Byte /\ p \in 0..35
  BY <1>3, DivisionFacts DEF Quotient, Remainder, Current
<1>5. rem * 256 + b = 36 * q + p
  <2>1. rem * 256 + b \in Nat
    <3> HIDE DEF b
    <3>1. b \in Nat
      BY <1>3 DEF Byte
    <3> QED
      BY <1>3, <3>1
  <2>2. q = (rem * 256 + b) \div 36 /\ p = (rem * 256 + b) % 36
    BY DEF Quotient, Remainder, Current
  <2> HIDE DEF q, p, b
  <2> QED
    BY <2>1, <2>2
<1>6. q % 256 = q
  BY <1>4 DEF Byte
<1>7. buf' = [buf EXCEPT ![k] = q]
  BY <1>1, <1>6
<1>8. LeftOf(buf', k, p) = LeftOf(buf, j, rem)
  <2> DEFINE w == buf
             x == buf'
             r == rem
             c == j
  <2>1. DividesByte(w, c, k, r, q, p, x)
    BY <1>3, <1>4, <1>5, <1>7 DEF DividesByte
  <2> HIDE DEF q, p, k, w, x, r, c
  <2>2. LeftOf(x, k, p) = LeftOf(w, c, r)
    BY <2>1, DividedByte
  <2> QED
    BY <2>2 DEF w, x, r, c
<1>9. LeftOf(buf', j', rem') = LeftOf(buf, j, rem)
  BY <1>1, <1>8
<1> QED
  BY <1>1, <1>2, <1>9 DEF NumberInv

\* StoreDigit: the remainder becomes the first of the digits.
LEMMA NumberStored ==
  ASSUME Inv, NumberInv, StoreDigit, Inv'
  PROVE  NumberInv'
<1>1. /\ UNCHANGED <<marker, digest, cap, buf, j, rem, status>>
      /\ pc = "divide" /\ pc' = "digit" /\ i' = i - 1 /\ j = DigestLength
      /\ Store(<<Alphabet(rem)>>, Len(marker) + i - 1) /\ status = "PENDING"
  BY DEF StoreDigit, call, Inv
<1>2. /\ MarkerEnd \in Nat /\ Len(marker) = MarkerEnd /\ HashBodyLength \in Nat
      /\ LabelLength = MarkerEnd + HashBodyLength
      /\ i \in 1..HashBodyLength /\ rem \in 0..35 /\ buf \in Seq(Byte) /\ Len(buf) = j
      /\ StoredDigits \in [1..(HashBodyLength - i) -> 0..35]
  <2>1. i \in 1..HashBodyLength /\ rem \in 0..35 /\ Len(buf) = j /\ buf \in Seq(Byte)
    BY <1>1, BufferFacts DEF Inv, DigitsInv, TypeOK
  <2>2. StoredDigits \in [1..(HashBodyLength - i) -> 0..35]
    BY <1>1 DEF NumberInv
  <2>3. HashBodyLength \in Nat
    BY LengthsAssumption
  <2>4. /\ MarkerEnd \in Nat /\ Len(marker) = MarkerEnd
        /\ LabelLength = MarkerEnd + HashBodyLength
    BY CallFacts DEF Inv
  <2> QED
    BY <2>1, <2>2, <2>3, <2>4
<1>3. DigitValue(Alphabet(rem)) = rem
  BY <1>2 DEF DigitValue, Alphabet
<1> DEFINE at == MarkerEnd + i'
           n == HashBodyLength - i'
           s == StoredDigits
           t == StoredDigits'
           e == <<rem>>
<1>4. /\ output'[at] = Alphabet(rem)
      /\ \A o \in DOMAIN output \ {at} : output'[o] = output[o]
  <2> DEFINE w == <<Alphabet(rem)>>
  <2>1. Store(w, at)
    <3>1. Len(marker) + i - 1 = at
      BY <1>1, <1>2
    <3> QED
      BY <1>1, <3>1
  <2>2. at \in Nat
    BY <1>1, <1>2
  <2>3. w \in Seq(Byte) /\ Len(w) = 1 /\ w[1] = Alphabet(rem)
    BY <1>2 DEF Alphabet, Byte
  <2>4. output \in [DOMAIN output -> Byte] /\ DOMAIN output \subseteq Nat
    BY DEF Inv, TypeOK
  <2> HIDE DEF at, w
  <2>5. /\ \A o \in at..(at + Len(w) - 1) : output'[o] = w[o - at + 1]
        /\ \A o \in DOMAIN output \ (at..(at + Len(w) - 1)) : output'[o] = output[o]
    BY <2>1, <2>2, <2>3, <2>4, StoreFacts
  <2>6. at..(at + Len(w) - 1) = {at} /\ at - at + 1 = 1
    BY <2>2, <2>3
  <2> QED
    BY <2>3, <2>5, <2>6
<1>5. DOMAIN output = 0..(MarkerEnd - 1) \cup (MarkerEnd + i)..(LabelLength - 1)
  BY <1>1 DEF Inv, DigitsInv
<1>6. \A d \in 1..n : t[d] = IF d = 1 THEN rem ELSE s[d - 1]
  <2> TAKE d \in 1..n
  <2>1. t[d] = DigitValue(output'[MarkerEnd + i' + d - 1])
    BY <1>1, <1>2 DEF StoredDigits
  <2>2. CASE d = 1
    <3>1. MarkerEnd + i' + d - 1 = at
      BY <1>1, <1>2, <2>2
    <3> QED
      BY <1>3, <1>4, <2>1, <2>2, <3>1
  <2>3. CASE d # 1
    <3>1. /\ d - 1 \in 1..(HashBodyLength - i)
          /\ MarkerEnd + i' + d - 1 = MarkerEnd + i + (d - 1) - 1
      BY <1>1, <1>2, <2>3
    <3>2. MarkerEnd + i' + d - 1 \in DOMAIN output \ {at}
      BY <1>1, <1>2, <1>5, <2>3, <3>1
    <3>3. s[d - 1] = DigitValue(output[MarkerEnd + i + (d - 1) - 1])
      BY <1>2, <3>1 DEF StoredDigits
    <3>4. output'[MarkerEnd + i' + d - 1] = output[MarkerEnd + i' + d - 1]
      BY <1>4, <3>2
    <3>5. t[d] = s[d - 1]
      BY <2>1, <3>1, <3>3, <3>4
    <3> QED
      BY <2>3, <3>5
  <2> QED
    BY <2>2, <2>3
<1>7. n \in Nat /\ n = (HashBodyLength - i) + 1 /\ HashBodyLength - i \in Nat
  BY <1>1, <1>2
<1>8. t = [d \in 1..n |-> t[d]]
  BY <1>1, <1>2 DEF StoredDigits
<1>9. s \in Seq(0..35) /\ Len(s) = n - 1
  BY <1>2, <1>7
<1> HIDE DEF s, t, n, at
<1>10. t \in [1..n -> 0..35]
  <2>1. \A d \in 1..n : t[d] \in 0..35
    <3> TAKE d \in 1..n
    <3>1. CASE d = 1
      BY <1>2, <1>6, <3>1
    <3>2. CASE d # 1
      <4>1. d - 1 \in 1..Len(s)
        BY <1>7, <1>9, <3>2
      <4> QED
        BY <1>6, <1>9, <3>2, <4>1
    <3> QED
      BY <3>1, <3>2
  <2> QED
    BY <1>8, <2>1
<1>11. t = e \o s
  BY <1>2, <1>6, <1>7, <1>9, <1>10, ConsIs
<1>12. s \in Seq(Nat) /\ rem \in Nat /\ Number(buf) \in Nat
  BY <1>2, <1>9, DigitsAreNumbers, NumberType
<1>13. ReadOn(36, Number(buf), t) = ReadOn(36, Number(buf) * 36 + rem, s)
  BY <1>11, <1>12, ReadOnCons
<1>14. LeftOf(buf, j, rem) = Number(buf) * 36 + rem
  BY <1>2, DivisionEnds
<1>15. ReadOn(36, LeftOf(buf, j, rem), s) = Number(digest)
  BY <1>1 DEF NumberInv, s
<1> QED
  BY <1>1, <1>2, <1>10, <1>13, <1>14, <1>15 DEF NumberInv, t, n

\* Finish: the digits stay.
LEMMA NumberFinished ==
  ASSUME Inv, NumberInv, Finish
  PROVE  NumberInv'
<1>1. /\ UNCHANGED <<marker, digest, cap, buf, i, j, rem>>
      /\ pc = "digit" /\ pc' = "done" /\ i = 0 /\ status' = "OK"
      /\ Store(<<0>>, LabelLength)
  BY DEF Finish, call, locals, Return, TerminatorAt
<1>2. /\ MarkerEnd \in Nat /\ Len(marker) = MarkerEnd /\ HashBodyLength \in Nat
      /\ LabelLength = MarkerEnd + HashBodyLength /\ LabelLength \in Nat
  BY CallFacts, LengthsAssumption DEF Inv
<1>3. DOMAIN output = 0..(LabelLength - 1)
  BY <1>1, <1>2 DEF Inv, DigitsInv
<1>4. \A o \in 0..(LabelLength - 1) : output'[o] = output[o]
  <2>1. Len(<<0>>) = 1
    OBVIOUS
  <2>2. output' = [o \in DOMAIN output \cup LabelLength..(LabelLength + 1 - 1) |->
                     IF o \in LabelLength..(LabelLength + 1 - 1)
                       THEN <<0>>[o - LabelLength + 1] ELSE output[o]]
    BY <1>1, <2>1 DEF Store
  <2>3. \A o \in 0..(LabelLength - 1) : o \notin LabelLength..(LabelLength + 1 - 1)
    BY <1>2
  <2> QED
    BY <1>3, <2>2, <2>3
<1>5. \A o \in (MarkerEnd + i)..(MarkerEnd + HashBodyLength - 1) : output'[o] = output[o]
  BY <1>1, <1>2, <1>4
<1>6. StoredDigits' = StoredDigits
  BY <1>1, <1>2, <1>5, StoredSame
<1> QED
  BY <1>1, <1>2, <1>6 DEF NumberInv

\* A step that does not concern the digits.
LEMMA NumberElsewhere ==
  ASSUME Inv, NumberInv, Inv', Enter \/ CopyMarker \/ UNCHANGED vars
  PROVE  NumberInv'
<1>1. CASE Enter
  <2>1. pc' \in {"done", "marker"} /\ status' # "OK"
    BY <1>1 DEF Enter, Return, Inv
  <2> QED
    BY <2>1 DEF NumberInv
<1>2. CASE CopyMarker
  <2>1. pc' = "base36" /\ status' # "OK"
    BY <1>2 DEF CopyMarker, Inv
  <2> QED
    BY <2>1 DEF NumberInv
<1>3. CASE UNCHANGED vars
  <2>1. UNCHANGED <<marker, digest, pc, buf, i, j, rem, output, status>>
    BY <1>3 DEF vars, call, locals
  <2>2. StoredDigits' = StoredDigits
    BY <2>1 DEF StoredDigits
  <2> QED
    BY <2>1, <2>2 DEF NumberInv
<1> QED
  BY <1>1, <1>2, <1>3

\* The numbers are kept along every behaviour.
LEMMA NumbersKept == Spec => []NumberInv
<1>1. Inv /\ Inv' /\ NumberInv /\ [Next]_vars => NumberInv'
  BY NumberEnters, NumberNext, NumberDivided, NumberStored, NumberFinished, NumberElsewhere
  DEF Next
<1> QED
  BY <1>1, NumberInit, Invariance, PTL DEF Spec

\* NothingLost: the division by 36 in place loses nothing of the digest, and when
\* the label has room for it nothing is left: the digits of a label are the digest
\* (def.c:268-276).
THEOREM DigitsAreTheDigest ==
  ASSUME DigestsFit
  PROVE  Spec => []NothingLost
<1>1. Inv /\ NumberInv => NothingLost
  <2> SUFFICES ASSUME Inv, NumberInv PROVE NothingLost
    OBVIOUS
  <2>1. ASSUME status = "OK" PROVE ReadOn(36, 0, StoredDigits) = Number(digest)
    <3>1. /\ i = 0 /\ ReadOn(36, Number(buf), StoredDigits) = Number(digest)
          /\ StoredDigits \in [1..HashBodyLength -> 0..35]
      <4>1. i = 0 /\ StoredDigits \in [1..(HashBodyLength - i) -> 0..35]
        BY <2>1 DEF NumberInv
      <4>2. HashBodyLength - 0 = HashBodyLength
        BY LengthsAssumption
      <4> QED
        BY <2>1, <4>1, <4>2 DEF NumberInv
    <3>2. /\ StoredDigits \in Seq(0..35) /\ Len(StoredDigits) = HashBodyLength
          /\ Number(buf) \in Nat /\ digest \in Digests
      <4>1. StoredDigits \in Seq(0..35) /\ Len(StoredDigits) = HashBodyLength
        BY <3>1, LengthsAssumption
      <4>2. Number(buf) \in Nat
        BY BufferFacts, NumberType
      <4> QED
        BY <4>1, <4>2 DEF Inv, TypeOK
    <3> DEFINE s == StoredDigits
               m == Number(buf)
    <3>3. s \in Seq(Nat) /\ Len(s) = HashBodyLength
      BY <3>2, DigitsAreNumbers
    <3>4. Number(digest) <= ReadOn(36, 0, [z \in 1..HashBodyLength |-> 35])
      BY <3>2 DEF DigestsFit
    <3> HIDE DEF s, m
    <3>5. ASSUME m # 0 PROVE FALSE
      <4>1. m \in Nat \ {0}
        BY <3>2, <3>5 DEF m
      <4>2. ReadOn(36, m, s) > ReadOn(36, 0, [z \in 1..Len(s) |-> 35])
        BY <3>3, <4>1, LongerIsGreater
      <4>3. ReadOn(36, m, s) = Number(digest)
        BY <3>1 DEF m, s
      <4>4. Number(digest) \in Nat /\ ReadOn(36, 0, [z \in 1..HashBodyLength |-> 35]) \in Nat
        <5>1. digest \in Seq(Byte)
          BY <3>2, DigestsAssumption
        <5>2. [z \in 1..HashBodyLength |-> 35] \in Seq(Nat)
          BY LengthsAssumption
        <5> QED
          BY <5>1, <5>2, NumberType, ReadOnType
      <4> QED
        BY <3>3, <3>4, <4>2, <4>3, <4>4
    <3> QED
      BY <3>1, <3>5 DEF m, s
  <2> QED
    BY <2>1 DEF NothingLost, NumberInv
<1> QED
  BY <1>1, Invariance, NumbersKept, PTL

-----------------------------------------------------------------------------
\* the recursive function of FixedDigits
Lefts(n) ==
  CHOOSE g : g = [d \in 0..HashBodyLength |-> IF d = HashBodyLength THEN n ELSE g[d + 1] \div 36]

LEMMA FixedDigitsDef ==
  ASSUME NEW w
  PROVE  FixedDigits(w) = [d \in 1..HashBodyLength |-> Alphabet(Lefts(Number(w))[d] % 36)]
  BY DEF FixedDigits, Lefts

\* the elements of a sequence
LEMMA ElementsIn ==
  ASSUME NEW A, NEW s \in Seq(A)
  PROVE  \A d \in 1..Len(s) : s[d] \in A
  OBVIOUS

\* The numbers that are left when the number that digits stand for is divided are
\* what is read of the digits.
LEMMA LeftsAre ==
  ASSUME NEW s \in Seq(0..35), Len(s) = HashBodyLength
  PROVE  \A d \in 1..HashBodyLength : Lefts(ReadOn(36, 0, s))[d] % 36 = s[d]
<1> DEFINE H == HashBodyLength
           f == Reading(36, 0, s)
           n == ReadOn(36, 0, s)
<1>0. H \in Nat /\ Len(s) = H /\ \A d \in 1..H : s[d] \in 0..35
  <2>1. \A d \in 1..Len(s) : s[d] \in 0..35
    BY ElementsIn
  <2> QED
    BY <2>1, LengthsAssumption
<1>1. Reads(36, 0, s, f) /\ n = f[H]
  <2>1. s \in Seq(Nat)
    BY DigitsAreNumbers
  <2> QED
    BY <2>1, ReadingDef, ReadOnDef
<1> HIDE DEF f
<1>2. f \in [0..H -> Nat] /\ \A d \in 1..H : f[d] = f[d - 1] * 36 + s[d]
  BY <1>0, <1>1 DEF Reads
<1>3. \A d \in 1..H : f[d] \div 36 = f[d - 1] /\ f[d] % 36 = s[d]
  <2> TAKE d \in 1..H
  <2> DEFINE x == f[d - 1]
             y == f[d]
             e == s[d]
  <2>1. x \in Nat /\ e \in 0..35 /\ y = x * 36 + e
    BY <1>0, <1>2
  <2> HIDE DEF x, y, e
  <2>2. y \div 36 = x /\ y % 36 = e
    BY <2>1
  <2> QED
    BY <2>2 DEF x, y, e
<1>4. \A d \in 0..H : d # H => f[d + 1] \div 36 = f[d]
  <2> TAKE d \in 0..H
  <2> HAVE d # H
  <2>1. d + 1 \in 1..H /\ (d + 1) - 1 = d
    BY <1>0
  <2> QED
    BY <1>3, <2>1
<1>5. f = [d \in 0..H |-> IF d = H THEN n ELSE f[d + 1] \div 36]
  BY <1>1, <1>2, <1>4
<1> DEFINE g == Lefts(n)
<1>6. g = [d \in 0..H |-> IF d = H THEN n ELSE g[d + 1] \div 36]
  BY <1>5 DEF Lefts
<1> HIDE DEF g, n, H
<1>7. \A d \in 0..H : g[d] = IF d = H THEN n ELSE g[d + 1] \div 36
  BY <1>6
<1> DEFINE S == {c \in Nat : c <= H => g[H - c] = f[H - c]}
<1>8. 0 \in S
  <2>1. H - 0 = H /\ H \in 0..H
    BY <1>0
  <2> QED
    BY <1>1, <1>7, <2>1
<1>9. \A c \in Nat : c \in S => c + 1 \in S
  <2> SUFFICES ASSUME NEW c \in Nat, c <= H => g[H - c] = f[H - c], c + 1 <= H
               PROVE  g[H - (c + 1)] = f[H - (c + 1)]
    OBVIOUS
  <2> DEFINE d == H - (c + 1)
  <2>1. d \in 0..H /\ d # H /\ d + 1 = H - c /\ c <= H
    BY <1>0
  <2> HIDE DEF d
  <2>2. g[d + 1] = f[d + 1]
    BY <2>1
  <2>3. g[d] = f[d]
    BY <1>4, <1>7, <2>1, <2>2
  <2> QED
    BY <2>3 DEF d
<1>10. Nat \subseteq S
  <2> HIDE DEF S
  <2> QED
    BY <1>8, <1>9, Induction
<1>11. \A d \in 1..H : g[d] % 36 = s[d]
  <2> TAKE d \in 1..H
  <2>1. H - d \in Nat /\ H - d <= H /\ H - (H - d) = d
    BY <1>0
  <2>2. g[d] = f[d]
    BY <1>10, <2>1
  <2> QED
    BY <1>3, <2>2
<1> QED
  BY <1>11 DEF g, n, H

-----------------------------------------------------------------------------
\* The recursive function of JavaScript, Python and .NET exists.
LEMMA SignificantDef ==
  /\ SignificantDigits \in [Nat -> Seq(Byte)]
  /\ \A n \in Nat : SignificantDigits[n] =
       IF n = 0 THEN <<>> ELSE Append(SignificantDigits[n \div 36], Alphabet(n % 36))
<1> DEFINE V == Seq(Byte)
           mu == [n \in Nat |-> n]
           Rhs == [n \in Nat |-> [g \in [Nat -> V] |->
                     IF n = 0 THEN <<>> ELSE Append(g[n \div 36], Alphabet(n % 36))]]
<1>0. \A n \in Nat : n # 0 => n \div 36 \in Nat /\ n \div 36 < n /\ Alphabet(n % 36) \in Byte
  <2> TAKE n \in Nat
  <2> HAVE n # 0
  <2>1. n % 36 \in 0..35
    OBVIOUS
  <2>2. Alphabet(n % 36) \in Byte
    BY <2>1 DEF Alphabet, Byte
  <2>3. n \div 36 \in Nat /\ n \div 36 < n
    OBVIOUS
  <2> QED
    BY <2>2, <2>3
<1>1. mu \in [Nat -> Nat]
  OBVIOUS
<1>2. Rhs \in [Nat -> [[Nat -> V] -> V]]
  <2> SUFFICES ASSUME NEW n \in Nat, NEW g \in [Nat -> V]
               PROVE  (IF n = 0 THEN <<>> ELSE Append(g[n \div 36], Alphabet(n % 36))) \in V
    BY Zenon
  <2>1. CASE n = 0
    BY <2>1
  <2>2. CASE n # 0
    <3>1. g[n \div 36] \in V /\ Alphabet(n % 36) \in Byte
      BY <1>0, <2>2
    <3> QED
      BY <2>2, <3>1, AppendProperties
  <2> QED
    BY <2>1, <2>2
<1>3. LooksBack(Nat, V, mu, Rhs)
  <2> USE DEF LooksBack
  <2> TAKE n \in Nat
  <2> TAKE g, h \in [Nat -> V]
  <2> HAVE \A y \in Nat : mu[y] < mu[n] => g[y] = h[y]
  <2>1. n # 0 => g[n \div 36] = h[n \div 36]
    BY <1>0
  <2> QED
    BY <2>1
<1>4. V # {}
  <2>1. <<>> \in V
    OBVIOUS
  <2> QED
    BY <2>1
<1>5. Solutions(Nat, V, Rhs) # {}
  <2> HIDE DEF V, mu, Rhs
  <2> QED
    BY <1>1, <1>2, <1>3, <1>4, Recursion
<1>6. PICK g \in [Nat -> V] : \A n \in Nat : g[n] = Rhs[n][g]
  BY <1>5 DEF Solutions
<1>7. \A n \in Nat : g[n] = IF n = 0 THEN <<>> ELSE Append(g[n \div 36], Alphabet(n % 36))
  BY <1>6
<1>8. g = [n \in Nat |-> IF n = 0 THEN <<>> ELSE Append(g[n \div 36], Alphabet(n % 36))]
  BY <1>7
<1> DEFINE f == SignificantDigits
<1>9. f = [n \in Nat |-> IF n = 0 THEN <<>> ELSE Append(f[n \div 36], Alphabet(n % 36))]
  BY <1>8 DEF SignificantDigits
<1> HIDE DEF f
<1>10. \A n \in Nat : f[n] = IF n = 0 THEN <<>> ELSE Append(f[n \div 36], Alphabet(n % 36))
  BY <1>9
<1>11. f \in [Nat -> V]
  <2> DEFINE S == {n \in Nat : f[n] \in V}
  <2>1. \A n \in Nat : (\A y \in Nat : mu[y] < mu[n] => y \in S) => n \in S
    <3> TAKE n \in Nat
    <3> HAVE \A y \in Nat : mu[y] < mu[n] => y \in S
    <3>1. CASE n = 0
      <4>1. f[n] = <<>> /\ <<>> \in V
        BY <1>10, <3>1
      <4>2. f[n] \in V
        BY <4>1
      <4> QED
        BY <4>2
    <3>2. CASE n # 0
      <4>1. f[n \div 36] \in V /\ Alphabet(n % 36) \in Byte
        BY <1>0, <3>2
      <4>2. Append(f[n \div 36], Alphabet(n % 36)) \in V
        BY <4>1, AppendProperties
      <4>3. f[n] \in V
        BY <1>10, <3>2, <4>2
      <4> QED
        BY <4>3
    <3> QED
      BY <3>1, <3>2
  <2>2. Nat \subseteq S
    <3> HIDE DEF mu, S
    <3> QED
      BY <1>1, <2>1, MeasureInduction
  <2> QED
    BY <1>9, <2>2
<1> QED
  BY <1>10, <1>11 DEF f, V

\* the bytes of digits, and of n zeros
Written36(s) == [d \in 1..Len(s) |-> Alphabet(s[d])]
Zeros(n)     == [z \in 1..n |-> Alphabet(0)]

\* The significant digits of the number that digits stand for are the digits
\* without the zeros they begin with.
LEMMA SignificantAre ==
  ASSUME NEW s \in Seq(0..35)
  PROVE  LET v == SignificantDigits[ReadOn(36, 0, s)]
         IN  Len(v) <= Len(s) /\ Zeros(Len(s) - Len(v)) \o v = Written36(s)
<1> DEFINE D == 0..35
           Sig(u) == SignificantDigits[ReadOn(36, 0, u)]
           S == {u \in Seq(D) : Len(Sig(u)) <= Len(u)
                                /\ Zeros(Len(u) - Len(Sig(u))) \o Sig(u) = Written36(u)}
<1>0. \A u \in Seq(D) : ReadOn(36, 0, u) \in Nat /\ Sig(u) \in Seq(Byte)
  <2> TAKE u \in Seq(D)
  <2>1. u \in Seq(Nat)
    BY DigitsAreNumbers
  <2>2. ReadOn(36, 0, u) \in Nat
    BY <2>1, ReadOnType
  <2> QED
    BY <2>2, SignificantDef
<1>1. <<>> \in S
  <2>1. ReadOn(36, 0, <<>>) = 0 /\ SignificantDigits[0] = <<>>
    BY ReadOnEmpty, SignificantDef
  <2>2. Zeros(0 - 0) \o <<>> = <<>> /\ Written36(<<>>) = <<>> /\ Len(<<>>) = 0
    BY DEF Zeros, Written36
  <2>3. <<>> \in Seq(D)
    OBVIOUS
  <2>4. Sig(<<>>) = <<>> /\ Written36(<<>>) = <<>>
    BY <2>1, <2>2
  <2>5. Zeros(Len(<<>>) - Len(Sig(<<>>))) \o Sig(<<>>) = <<>> /\ Len(Sig(<<>>)) <= Len(<<>>)
    BY <2>2, <2>4
  <2> HIDE DEF Sig
  <2> QED
    BY <2>3, <2>4, <2>5
<1>2. \A u \in Seq(D) : \A e \in D : u \in S => Append(u, e) \in S
  <2> TAKE u \in Seq(D)
  <2> TAKE e \in D
  <2> HAVE u \in S
  <2> DEFINE x == ReadOn(36, 0, u)
             t == Append(u, e)
             y == ReadOn(36, 0, t)
             v == Sig(u)
             n == Len(u) - Len(v)
  <2>1. /\ t \in Seq(D) /\ Len(t) = Len(u) + 1 /\ Len(u) \in Nat /\ e \in Nat
        /\ u \in Seq(Nat) /\ x \in Nat /\ v \in Seq(Byte) /\ Len(v) \in Nat
    BY <1>0, DigitsAreNumbers
  <2>2. y = x * 36 + e
    BY <2>1, ReadOnAppend
  <2>3. Len(v) <= Len(u) /\ Zeros(n) \o v = Written36(u) /\ n \in Nat
    <3>1. Len(v) <= Len(u) /\ Zeros(n) \o v = Written36(u)
      OBVIOUS
    <3>2. n \in Nat
      <4> DEFINE a == Len(u)
                 b == Len(v)
      <4>1. a \in Nat /\ b \in Nat /\ b <= a
        BY <2>1, <3>1
      <4> HIDE DEF a, b
      <4>2. a - b \in Nat
        BY <4>1
      <4> QED
        BY <4>2 DEF a, b
    <3> QED
      BY <3>1, <3>2
  <2>4. Written36(t) = Append(Written36(u), Alphabet(e))
    BY <2>1 DEF Written36
  <2>5. Alphabet(e) \in Byte /\ Alphabet(0) \in Byte
    BY DEF Alphabet, Byte
  <2>6. Zeros(n) \in Seq(Byte) /\ Zeros(n + 1) = Append(Zeros(n), Alphabet(0))
    <3>1. n \in Nat
      BY <2>3
    <3> HIDE DEF n
    <3> QED
      BY <2>5, <3>1 DEF Zeros
  <2>7. CASE y = 0
    <3>1. x = 0 /\ e = 0
      BY <2>1, <2>2, <2>7
    <3>2. v = <<>> /\ Sig(t) = <<>>
      BY <2>7, <3>1, SignificantDef
    <3>3. n = Len(u) /\ Len(t) - Len(Sig(t)) = n + 1 /\ Len(Sig(t)) <= Len(t)
      BY <2>1, <3>2
    <3>4. Zeros(n) = Written36(u)
      BY <2>3, <2>6, <3>2, ConcatEmptySeq
    <3>5. Zeros(n + 1) = Written36(t) /\ Zeros(n + 1) \in Seq(Byte)
      <4>1. Append(Zeros(n), Alphabet(0)) \in Seq(Byte)
        BY <2>5, <2>6, AppendProperties
      <4>2. Written36(t) = Append(Zeros(n), Alphabet(0))
        BY <2>4, <3>1, <3>4
      <4> QED
        BY <2>6, <4>1, <4>2
    <3>6. Zeros(n + 1) \o <<>> = Zeros(n + 1)
      BY <3>5, ConcatEmptySeq
    <3> QED
      BY <2>1, <3>2, <3>3, <3>5, <3>6
  <2>8. CASE y # 0
    <3>1. y \div 36 = x /\ y % 36 = e /\ y \in Nat
      <4>1. x \in Nat /\ e \in 0..35 /\ y = x * 36 + e
        BY <2>1, <2>2
      <4> HIDE DEF x, y
      <4> QED
        BY <4>1
    <3>2. Sig(t) = Append(v, Alphabet(e))
      BY <2>8, <3>1, SignificantDef
    <3>3. Len(Sig(t)) = Len(v) + 1
      BY <2>1, <2>5, <3>2, AppendProperties
    <3>4. Len(t) - Len(Sig(t)) = n /\ Len(Sig(t)) <= Len(t)
      BY <2>1, <2>3, <3>3
    <3>5. Zeros(n) \o Append(v, Alphabet(e)) = Append(Zeros(n) \o v, Alphabet(e))
      <4> DEFINE p == Zeros(n)
                 a == Alphabet(e)
      <4>1. p \in Seq(Byte) /\ a \in Byte /\ v \in Seq(Byte)
        BY <2>1, <2>5, <2>6
      <4> HIDE DEF p, a, v
      <4>2. p \o Append(v, a) = Append(p \o v, a)
        BY <4>1, SMTT(30)
      <4> QED
        BY <4>2 DEF p, a
    <3> QED
      BY <2>1, <2>3, <2>4, <3>2, <3>4, <3>5
  <2> QED
    BY <2>7, <2>8
<1>3. Seq(D) \subseteq S
  <2> HIDE DEF S, D
  <2> QED
    BY <1>1, <1>2, AppendInduction
<1> QED
  BY <1>3

\* PortsDigits: the division in place of C and Rust, the division once for each
\* place of Go and Java and the division until nothing is left of the other ports
\* write every digest with the same digits (packages/js/src/index.ts:140-157,
\* def.c:268-276).
THEOREM PortsWriteTheDigest ==
  ASSUME DigestsFit
  PROVE  Spec => []PortsDigits
<1>1. Inv /\ NumberInv /\ NothingLost => PortsDigits
  <2> SUFFICES ASSUME Inv, NumberInv, NothingLost, status = "OK"
               PROVE  LET digits == [d \in 1..HashBodyLength |-> output[Len(marker) + d - 1]]
                      IN  digits = FixedDigits(digest) /\ digits = PaddedDigits(digest)
    BY DEF PortsDigits
  <2> DEFINE s == StoredDigits
             H == HashBodyLength
             digits == [d \in 1..H |-> output[Len(marker) + d - 1]]
  <2>1. /\ i = 0 /\ s \in [1..H -> 0..35] /\ H \in Nat
        /\ Number(digest) = ReadOn(36, 0, s)
    <3>1. i = 0 /\ s \in [1..(H - i) -> 0..35] /\ Number(digest) = ReadOn(36, 0, s)
      BY DEF NumberInv, NothingLost
    <3>2. H \in Nat /\ H - 0 = H
      BY LengthsAssumption
    <3> QED
      BY <3>1, <3>2
  <2>2. \A d \in 1..H : digits[d] = Alphabet(s[d])
    <3> TAKE d \in 1..H
    <3>1. /\ Len(marker) \in Nat /\ length = Len(marker) + H
          /\ \A o \in 0..(length - 1) :
               ~(o < Len(marker)) => output[o] \in 48..57 \cup 97..122
      BY CallFacts DEF Inv, WholeLabel
    <3> DEFINE o == Len(marker) + d - 1
    <3>2. o \in 0..(length - 1) /\ ~(o < Len(marker)) /\ Len(marker) + i + d - 1 = o
      BY <2>1, <3>1
    <3>3. output[o] \in 48..57 \cup 97..122
      BY <3>1, <3>2
    <3>4. s[d] = DigitValue(output[o])
      BY <2>1, <3>2 DEF StoredDigits
    <3> HIDE DEF o, s
    <3>5. Alphabet(s[d]) = output[o]
      BY <3>3, <3>4 DEF Alphabet, DigitValue
    <3> QED
      BY <3>5 DEF o
  <2>3. s \in Seq(0..35) /\ Len(s) = H
    BY <2>1
  <2>4. digits = FixedDigits(digest)
    <3>1. \A d \in 1..H : Lefts(Number(digest))[d] % 36 = s[d]
      BY <2>1, <2>3, LeftsAre
    <3>2. FixedDigits(digest) = [d \in 1..H |-> Alphabet(Lefts(Number(digest))[d] % 36)]
      BY FixedDigitsDef
    <3> QED
      BY <2>2, <3>1, <3>2
  <2>5. digits = PaddedDigits(digest)
    <3> DEFINE v == SignificantDigits[Number(digest)]
    <3>1. Zeros(H - Len(v)) \o v = Written36(s)
      <4>1. Zeros(Len(s) - Len(SignificantDigits[ReadOn(36, 0, s)]))
              \o SignificantDigits[ReadOn(36, 0, s)] = Written36(s)
        BY <2>3, SignificantAre
      <4> QED
        BY <2>1, <2>3, <4>1
    <3>2. PaddedDigits(digest) = Zeros(H - Len(v)) \o v
      BY DEF PaddedDigits, Zeros
    <3>3. Written36(s) = digits
      BY <2>2, <2>3 DEF Written36
    <3> QED
      BY <3>1, <3>2, <3>3
  <2> QED
    BY <2>4, <2>5
<1> QED
  BY <1>1, Invariance, NumbersKept, DigitsAreTheDigest, PTL
=============================================================================
