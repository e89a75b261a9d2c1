---------------------------- MODULE CCodecProofs ----------------------------
(***************************************************************************)
(* Proofs about CCodec and its caller CRoundTrip, for all texts,           *)
(* capacities and widths of size_t: the C functions never store outside    *)
(* the caller's buffer, read an escape's digits from its own component,    *)
(* honour their return contract, never emit a raw "--" in a component,     *)
(* never refuse the worst-case capacity, and answer as CodecContract       *)
(* defines; and what they encode they decode again.                        *)
(***************************************************************************)
EXTENDS CRoundTrip, CCodecRefinement, DefCoreProofs, TLAPS

\* the most bytes of output that n bytes of input can give
Widest(n) == IF fn \in Encoders THEN 3 * n ELSE n

\* output position and input position of the inner loop
Written  == outLen + len
Consumed == segmentStart + k

\* what holds while the scanner looks for the end of a component
ScanInv ==
  pc = "scan" =>
    /\ outLen = 0 \/ outLen < cap
    /\ fn \in Decoders => outLen < cap
    /\ outLen <= Widest(segmentStart)
    /\ 0..(outLen - 1) \subseteq DOMAIN out

\* what holds in the loops over the bytes of a component
LoopInv ==
  pc \in {"emit", "take", "hex"} =>
    /\ fn \in Encoders <=> pc = "emit"
    /\ k <= ComponentLen
    /\ pc = "hex" => k + 3 <= ComponentLen
    /\ outLen = 0 \/ outLen < cap
    /\ len = 0 \/ Written < cap
    /\ fn \in Decoders => Written < cap
    /\ Written <= Widest(Consumed)
    /\ len <= Widest(k)
    /\ 0..(Written - 1) \subseteq DOMAIN out

\* what holds when a component has been terminated
AppendInv ==
  pc = "append" =>
    /\ Written < cap
    /\ Written <= Widest(i)
    /\ 0..Written \subseteq DOMAIN out
    /\ out[Written] = NUL

EnterInv == pc = "enter" => outLen = 0 /\ segmentStart = 0 /\ i = 0

PendingInv == pc # "done" => length = NotSet

Inv ==
  /\ TypeOK /\ Disjoint(input, cap) /\ StoresInBuffer
  /\ EnterInv /\ ScanInv /\ LoopInv /\ AppendInv /\ PendingInv
  /\ ReturnContract /\ WorstCaseCapacity

-----------------------------------------------------------------------------
\* size_t addition that does not wrap is addition
LEMMA PlusIsSum ==
  ASSUME NEW a \in Nat, NEW b \in Nat, a + b < SizeModulus
  PROVE  Plus(a, b) = a + b
  BY SizeAssumption DEF Plus

\* Widest is linear and monotonic
LEMMA WidestFacts ==
  ASSUME NEW m \in Nat, NEW n \in Nat
  PROVE  /\ Widest(m) \in Nat
         /\ m <= Widest(m)
         /\ Widest(m + n) = Widest(m) + Widest(n)
         /\ m <= n => Widest(m) <= Widest(n)
  BY DEF Widest

\* folding a byte gives a byte
LEMMA CanonicalIsByte ==
  ASSUME NEW b \in Byte
  PROVE  Canonical(b) \in Byte
  BY DEF Canonical, Byte

\* A byte is emitted as one byte or as three, never starting a "--" inside and
\* never ending in '-'.
LEMMA EncodeByteFacts ==
  ASSUME NEW b \in Byte
  PROVE  /\ EncodeByte(b) \in Seq(Byte)
         /\ Len(EncodeByte(b)) <= 3
         /\ EncodeByte(b)[Len(EncodeByte(b))] # HYPHEN
         /\ Len(EncodeByte(b)) = 3 => EncodeByte(b)[2] # HYPHEN
<1>1. CASE IsLiteralByte(b)
  <2>1. EncodeByte(b) = <<b>>
    BY <1>1 DEF EncodeByte
  <2>2. b # HYPHEN
    BY <1>1 DEF IsLiteralByte, IsDigit, HYPHEN, Byte
  <2> QED
    BY <2>1, <2>2
<1>2. CASE ~IsLiteralByte(b)
  <2>1. b \div 16 \in 0..15 /\ b % 16 \in 0..15
    BY DEF Byte
  <2>2. \A n \in 0..15 : HexDigit(n) \in Byte /\ HexDigit(n) # HYPHEN
    BY DEF HexDigit, Byte, HYPHEN
  <2>3. EncodeByte(b) = <<HYPHEN, HexDigit(b \div 16), HexDigit(b % 16)>>
    BY <1>2 DEF EncodeByte
  <2>4. HYPHEN \in Byte
    BY DEF HYPHEN, Byte
  <2> QED
    BY <2>1, <2>2, <2>3, <2>4
<1> QED
  BY <1>1, <1>2

\* two hexadecimal digits make a byte
LEMMA HexByteIsByte ==
  ASSUME NEW h \in Byte, NEW l \in Byte, IsHexDigit(h), IsHexDigit(l)
  PROVE  HexByte(h, l) \in Byte
  BY DEF HexByte, Nibble, IsHexDigit, IsDigit, Byte

\* what Store does to the buffer
LEMMA StoreFacts ==
  ASSUME NEW bytes \in Seq(Byte), NEW at \in Nat,
         out \in [DOMAIN out -> Byte], DOMAIN out \subseteq Nat,
         Store(bytes, at)
  PROVE  /\ out' \in [DOMAIN out' -> Byte]
         /\ DOMAIN out' = DOMAIN out \cup at..(at + Len(bytes) - 1)
         /\ DOMAIN out' \subseteq Nat
         /\ \A o \in at..(at + Len(bytes) - 1) : out'[o] = bytes[o - at + 1]
         /\ \A o \in DOMAIN out \ at..(at + Len(bytes) - 1) : out'[o] = out[o]
  BY DEF Store

\* the bytes of the text, by their offsets
LEMMA AtIsByte ==
  ASSUME TypeOK, NEW p \in Nat, p < Len(input)
  PROVE  At(p) \in Byte
  BY DEF TypeOK, At

-----------------------------------------------------------------------------
\* a call of any of the four functions, before its first step
Fresh ==
  /\ fn \in Encoders \cup Decoders /\ input \in Seq(Byte \ {NUL}) /\ cap \in Capacities
  /\ Disjoint(input, cap)
  /\ pc = "enter"
  /\ i = 0 /\ segmentStart = 0 /\ outLen = 0
  /\ k = 0 /\ len = 0
  /\ out = [o \in {} |-> NUL]
  /\ status = "PENDING" /\ length = NotSet

\* The first call is such a call.
LEMMA InitIsFresh == Init => Fresh
  BY FunctionsAssumption, InputsAssumption DEF Init, Fresh

\* A call starts in the invariant.
LEMMA InvFresh == Fresh => Inv
<1> SUFFICES ASSUME Fresh PROVE Inv
  OBVIOUS
<1>1. TypeOK
  BY DEF Fresh, TypeOK, Encoders, Decoders, NotSet
<1>2. StoresInBuffer
  BY DEF Fresh, StoresInBuffer
<1> QED
  BY <1>1, <1>2
  DEF Fresh, Inv, EnterInv, ScanInv, LoopInv, AppendInv, PendingInv,
      ReturnContract, WorstCaseCapacity

\* The first call starts in the invariant.
LEMMA InvInit == Init => Inv
  BY InitIsFresh, InvFresh

\* A call that returns an error keeps the invariant, if it refuses for space
\* only what is below the worst case.
LEMMA ErrorStep ==
  ASSUME Inv, pc # "done", pc' = "done",
         status' \in {"BUFFER_TOO_SMALL", "INVALID_ESCAPE", "INVALID_UTF8"},
         UNCHANGED <<fn, input, cap, i, segmentStart, out, length>>,
         outLen' \in Nat, len' \in Nat, k' \in 0..Len(input),
         status' = "BUFFER_TOO_SMALL" => cap < Widest(Len(input)) + 1
  PROVE  Inv'
<1>1. TypeOK' /\ StoresInBuffer' /\ Disjoint(input, cap)'
  BY DEF Inv, TypeOK, StoresInBuffer, Disjoint
<1>2. WorstCaseCapacity'
  BY DEF WorstCaseCapacity, Widest
<1> QED
  BY <1>1, <1>2
  DEF Inv, EnterInv, ScanInv, LoopInv, AppendInv, PendingInv, ReturnContract

\* Inside a component, room for n more bytes is room in the caller's buffer:
\* neither the sum nor the difference of sizes wraps.
LEMMA FitsIsRoomInBuffer ==
  ASSUME Inv, pc \in {"emit", "take", "hex"}, k < ComponentLen,
         NEW n \in Nat, n <= 3
  PROVE  Fits(len, n, Room) <=> Written + n < cap
<1>1. /\ len \in Nat /\ k \in Nat /\ outLen \in Nat /\ cap \in Nat
      /\ i \in 0..Len(input) /\ segmentStart \in 0..i /\ Len(input) \in Nat
      /\ SizeModulus \in Nat /\ SizeModulus >= 8
  BY SizeAssumption DEF Inv, TypeOK
<1>2. Len(input) + 1 + cap <= SizeModulus /\ k < Len(input)
  BY <1>1 DEF Inv, Disjoint, ComponentLen
<1>3. /\ outLen = 0 \/ outLen < cap
      /\ len = 0 \/ outLen + len < cap
      /\ k = 0 => len = 0
      /\ fn \in Decoders => outLen < cap
  BY <1>1 DEF Inv, LoopInv, Written, Widest
<1>4. len + n < SizeModulus
  BY <1>1, <1>2, <1>3
<1>5. Plus(len, n) = len + n
  BY <1>1, <1>4, PlusIsSum
<1>6. fn \in Encoders \/ fn \in Decoders
  BY DEF Inv, TypeOK
<1>7. Room = IF cap <= outLen THEN 0 ELSE cap - outLen
  BY <1>1, <1>3, <1>6 DEF Room, Minus
<1> QED
  BY <1>1, <1>3, <1>5, <1>7 DEF Fits, Written

\* The two outcomes of AppendByte: bytes are added and there is still room for
\* the terminator, or the buffer is smaller than the worst case.
LEMMA AppendByteStep ==
  ASSUME Inv, pc \in {"emit", "take", "hex"}, k < ComponentLen,
         NEW bytes \in Seq(Byte), NEW consumed \in 1..3, NEW loop \in {"emit", "take"},
         Len(bytes) <= 3, Len(bytes) <= Widest(consumed),
         k + consumed <= ComponentLen,
         fn \in Encoders <=> loop = "emit",
         AppendByte(bytes, consumed, loop),
         UNCHANGED <<call, outer, length>>
  PROVE  Inv'
<1>1. /\ len \in Nat /\ k \in Nat /\ outLen \in Nat /\ cap \in Nat
      /\ i \in 0..Len(input) /\ segmentStart \in 0..i /\ Len(input) \in Nat
  BY SizeAssumption DEF Inv, TypeOK
<1>9. /\ out \in [DOMAIN out -> Byte] /\ DOMAIN out \subseteq 0..(cap - 1)
      /\ length = NotSet /\ pc # "done"
  BY DEF Inv, TypeOK, StoresInBuffer, PendingInv
<1>2. /\ outLen = 0 \/ outLen < cap
      /\ outLen + len <= Widest(segmentStart + k)
      /\ len <= Widest(k)
  BY <1>1 DEF Inv, LoopInv, Written, Consumed, Widest
<1>10. 0..(outLen + len - 1) \subseteq DOMAIN out
  <2>1. LoopInv
    BY DEF Inv
  <2>2. 0..(Written - 1) \subseteq DOMAIN out
    BY <2>1 DEF LoopInv
  <2>3. Written - 1 = outLen + len - 1
    BY <1>1 DEF Written
  <2> QED
    BY <2>2, <2>3
<1>3. /\ UNCHANGED <<fn, input, cap, i, segmentStart, outLen, length>>
      /\ ComponentLen = i - segmentStart
  BY DEF call, outer, ComponentLen
<1>4. ComponentLen' = ComponentLen
  BY <1>3 DEF ComponentLen
<1>7. /\ segmentStart + k \in Nat /\ consumed \in Nat /\ Len(bytes) \in Nat
      /\ segmentStart + k + consumed \in Nat
      /\ segmentStart + k + consumed <= Len(input)
  BY <1>1, <1>3
<1>8. /\ Widest(segmentStart + k + consumed) = Widest(segmentStart + k) + Widest(consumed)
      /\ Widest(k + consumed) = Widest(k) + Widest(consumed)
      /\ Widest(segmentStart + k + consumed) <= Widest(Len(input))
      /\ Widest(segmentStart + k) \in Nat /\ Widest(consumed) \in Nat
      /\ Widest(k) \in Nat /\ Widest(Len(input)) \in Nat
  BY <1>1, <1>7, WidestFacts
<1>5. CASE outLen + len + Len(bytes) < cap
  <2>1. Fits(len, Len(bytes), Room)
    BY <1>5, FitsIsRoomInBuffer DEF Written
  <2>2. /\ Store(bytes, outLen + len)
        /\ len' = len + Len(bytes) /\ k' = k + consumed
        /\ pc' = loop /\ status' = status
    BY <2>1 DEF AppendByte
  <2>3. /\ out' \in [DOMAIN out' -> Byte]
        /\ DOMAIN out' = DOMAIN out \cup (outLen + len)..(outLen + len + Len(bytes) - 1)
    <3>1. outLen + len \in Nat /\ DOMAIN out \subseteq Nat
      BY <1>1, <1>9
    <3> QED
      BY <1>9, <2>2, <3>1, StoreFacts
  <2>4. TypeOK'
    <3>1. len' \in Nat /\ k' \in 0..Len(input)
      BY <1>1, <1>7, <2>2
    <3> QED
      BY <1>3, <1>9, <2>2, <2>3, <3>1 DEF Inv, TypeOK
  <2>5. StoresInBuffer'
    BY <1>1, <1>3, <1>5, <1>9, <2>3, SMTT(30) DEF StoresInBuffer
  <2>6. LoopInv'
    <3>1. len' \in Nat /\ k' \in Nat /\ k' <= ComponentLen /\ outLen + len' < cap
      BY <1>1, <1>5, <2>2
    <3>4. outLen + len' <= Widest(segmentStart + k') /\ len' <= Widest(k')
      <4>1. segmentStart + k' = segmentStart + k + consumed
        BY <1>1, <2>2
      <4>2. /\ outLen + len + Len(bytes) <= Widest(segmentStart + k + consumed)
            /\ len + Len(bytes) <= Widest(k + consumed)
        BY <1>1, <1>2, <1>7, <1>8, SMTT(30)
      <4> QED
        BY <1>1, <1>7, <2>2, <4>1, <4>2
    <3>2. 0..(outLen + len' - 1) \subseteq DOMAIN out'
      BY <1>1, <1>10, <2>2, <2>3, SMTT(30)
    <3>3. pc' \in {"emit", "take"} /\ (fn' \in Encoders <=> pc' = "emit")
      BY <1>3, <2>2
    <3>5. /\ Written' = outLen + len' /\ Consumed' = segmentStart + k'
          /\ Written' - 1 = outLen + len' - 1
      BY <1>1, <1>3, <3>1 DEF Written, Consumed
    <3>6. /\ Written' <= Widest(Consumed)' /\ len' <= Widest(k)'
      BY <1>3, <3>4, <3>5 DEF Widest
    <3>7. /\ fn' \in Encoders <=> pc' = "emit"
          /\ pc' # "hex" /\ k' <= ComponentLen'
          /\ outLen' = 0 \/ outLen' < cap'
          /\ Written' < cap'
          /\ 0..(Written' - 1) \subseteq DOMAIN out'
      BY <1>2, <1>3, <1>4, <3>1, <3>2, <3>3, <3>5
    <3> QED
      BY <3>6, <3>7 DEF LoopInv
  <2> QED
    BY <1>3, <1>9, <2>2, <2>4, <2>5, <2>6
    DEF Inv, Disjoint, EnterInv, ScanInv, AppendInv, PendingInv, ReturnContract,
        WorstCaseCapacity
<1>6. CASE ~(outLen + len + Len(bytes) < cap)
  <2>1. ~Fits(len, Len(bytes), Room)
    BY <1>6, FitsIsRoomInBuffer DEF Written
  <2>2. /\ pc' = "done" /\ status' = "BUFFER_TOO_SMALL"
        /\ UNCHANGED <<k, len, out>>
    BY <2>1 DEF AppendByte, Return, inner
  <2>3. cap < Widest(Len(input)) + 1
    BY <1>1, <1>2, <1>6, <1>7, <1>8, SMTT(30)
  <2> QED
    BY <1>1, <1>3, <1>9, <2>2, <2>3, ErrorStep DEF Inv, TypeOK
<1> QED
  BY <1>5, <1>6

\* Enter: a refused buffer is empty, an accepted one may be scanned.
LEMMA EnterStep ==
  ASSUME Inv, Enter
  PROVE  Inv'
<1>1. /\ pc = "enter" /\ outLen = 0 /\ segmentStart = 0 /\ i = 0
      /\ UNCHANGED <<fn, input, cap, segmentStart, outLen, k, len, out, length>>
  BY DEF Enter, Inv, EnterInv, call, inner
<1>2. /\ cap \in Nat /\ Len(input) \in Nat /\ Widest(Len(input)) \in Nat
      /\ k \in 0..Len(input) /\ len \in Nat
  BY SizeAssumption, WidestFacts DEF Inv, TypeOK
<1>3. CASE RefusesBuffer
  <2>1. pc' = "done" /\ status' = "BUFFER_TOO_SMALL" /\ i' = i /\ cap = 0
    BY <1>3 DEF Enter, RefusesBuffer, Return
  <2> QED
    BY <1>1, <1>2, <2>1, ErrorStep
<1>4. CASE ~RefusesBuffer
  <2>1. pc' = "scan" /\ status' = status /\ i' \in 0..Len(input)
    BY <1>2, <1>4 DEF Enter
  <2>2. fn \in Decoders => cap > 0
    BY <1>2, <1>4 DEF RefusesBuffer
  <2>3. TypeOK' /\ StoresInBuffer' /\ Disjoint(input, cap)'
    BY <1>1, <1>2, <2>1 DEF Inv, TypeOK, StoresInBuffer, Disjoint
  <2>4. ScanInv'
    BY <1>1, <1>2, <2>2 DEF ScanInv, Widest
  <2> QED
    BY <1>1, <2>1, <2>3, <2>4
    DEF Inv, EnterInv, LoopInv, AppendInv, PendingInv, ReturnContract, WorstCaseCapacity
<1> QED
  BY <1>3, <1>4

\* Scan: only the position moves, and it stays inside the text.
LEMMA ScanStep ==
  ASSUME Inv, Scan
  PROVE  Inv'
<1>1. /\ pc = "scan" /\ i < Len(input) /\ i' = i + 1
      /\ UNCHANGED <<fn, input, cap, pc, segmentStart, outLen, k, len, out, status, length>>
  BY DEF Scan, call, inner, result
<1>2. TypeOK' /\ StoresInBuffer' /\ Disjoint(input, cap)'
  BY <1>1 DEF Inv, TypeOK, StoresInBuffer, Disjoint
<1>3. ScanInv'
  BY <1>1 DEF Inv, ScanInv, Widest
<1> QED
  BY <1>1, <1>2, <1>3
  DEF Inv, EnterInv, LoopInv, AppendInv, PendingInv, ReturnContract, WorstCaseCapacity

\* BeginComponent: the loop over the component starts with nothing written.
LEMMA BeginComponentStep ==
  ASSUME Inv, BeginComponent
  PROVE  Inv'
<1>1. /\ pc = "scan" /\ k' = 0 /\ len' = 0
      /\ UNCHANGED <<fn, input, cap, i, segmentStart, outLen, out, length>>
  BY DEF BeginComponent, call, outer
<1>2. /\ cap \in Nat /\ outLen \in Nat /\ Len(input) \in Nat
      /\ i \in 0..Len(input) /\ segmentStart \in 0..i
  BY SizeAssumption DEF Inv, TypeOK
<1>3. CASE fn \in Encoders /\ ~Utf8Validate(Component)
  <2>1. pc' = "done" /\ status' = "INVALID_UTF8"
    BY <1>3 DEF BeginComponent, Return
  <2> QED
    BY <1>1, <1>2, <2>1, ErrorStep
<1>4. CASE ~(fn \in Encoders /\ ~Utf8Validate(Component))
  <2>1. pc' = (IF fn \in Encoders THEN "emit" ELSE "take") /\ status' = status
    BY <1>4 DEF BeginComponent
  <2>2. TypeOK' /\ StoresInBuffer' /\ Disjoint(input, cap)'
    BY <1>1, <1>2, <2>1 DEF Inv, TypeOK, StoresInBuffer, Disjoint
  <2>3. /\ outLen = 0 \/ outLen < cap
        /\ fn \in Decoders => outLen < cap
        /\ outLen <= Widest(segmentStart)
        /\ 0..(outLen - 1) \subseteq DOMAIN out
    BY <1>1 DEF Inv, ScanInv
  <2>4. Written' = outLen /\ Consumed' = segmentStart /\ ComponentLen' = i - segmentStart
    BY <1>1, <1>2 DEF Written, Consumed, ComponentLen
  <2>5. Widest(Consumed)' = Widest(segmentStart) /\ Widest(k)' = 0
    BY <1>1, <2>4 DEF Widest
  <2>6. LoopInv'
    BY <1>1, <1>2, <2>1, <2>3, <2>4, <2>5 DEF LoopInv
  <2> QED
    BY <1>1, <2>1, <2>2, <2>6
    DEF Inv, EnterInv, ScanInv, AppendInv, PendingInv, ReturnContract, WorstCaseCapacity
<1> QED
  BY <1>3, <1>4

\* Emit: one byte becomes at most three, as the worst case allows.
LEMMA EmitStep ==
  ASSUME Inv, Emit
  PROVE  Inv'
<1> DEFINE b == Canonical(At(segmentStart + k))
           bytes == EncodeByte(b)
<1>1. /\ pc = "emit" /\ k < ComponentLen /\ fn \in Encoders
      /\ AppendByte(bytes, 1, "emit") /\ UNCHANGED <<call, outer, length>>
  BY DEF Emit, Inv, LoopInv
<1>2. /\ k \in Nat /\ segmentStart \in Nat /\ segmentStart + k < Len(input)
      /\ ComponentLen \in Nat
  BY <1>1 DEF Inv, TypeOK, ComponentLen
<1>3. b \in Byte
  BY <1>2, AtIsByte, CanonicalIsByte DEF Inv
<1>4. bytes \in Seq(Byte) /\ Len(bytes) <= 3
  BY <1>3, EncodeByteFacts
<1> HIDE DEF bytes, b
<1>5. Len(bytes) <= 3 /\ Len(bytes) <= Widest(1)
  <2>1. fn \in Encoders
    BY <1>1
  <2> QED
    BY <1>4, <2>1 DEF Widest
<1> QED
  BY <1>1, <1>2, <1>4, <1>5, AppendByteStep

\* The component is terminated: there is room, and the bytes stored before it
\* are all of the component.
LEMMA TerminateStep ==
  ASSUME Inv, pc \in {"emit", "take"}, k >= ComponentLen, Written < cap, Terminate,
         UNCHANGED <<call, outer, inner, length>>
  PROVE  Inv'
<1>1. /\ pc' = "append" /\ status' = status /\ Store(<<NUL>>, Written)
      /\ UNCHANGED <<fn, input, cap, i, segmentStart, outLen, k, len, length>>
  BY DEF Terminate, Written, call, outer, inner
<1>2. /\ cap \in Nat /\ outLen \in Nat /\ len \in Nat /\ Len(input) \in Nat
      /\ i \in 0..Len(input) /\ segmentStart \in 0..i /\ k \in Nat
  BY SizeAssumption DEF Inv, TypeOK
<1>3. /\ out \in [DOMAIN out -> Byte] /\ DOMAIN out \subseteq Nat
      /\ DOMAIN out \subseteq 0..(cap - 1)
  BY DEF Inv, TypeOK, StoresInBuffer
<1>4. /\ k <= ComponentLen /\ Written <= Widest(Consumed)
      /\ 0..(Written - 1) \subseteq DOMAIN out
  BY DEF Inv, LoopInv
<1>5. Written \in Nat /\ Written' = Written
  BY <1>1, <1>2 DEF Written
<1>6. /\ out' \in [DOMAIN out' -> Byte]
      /\ DOMAIN out' = DOMAIN out \cup {Written}
      /\ out'[Written] = NUL
  <2>1. /\ <<NUL>> \in Seq(Byte) /\ Len(<<NUL>>) = 1 /\ <<NUL>>[1] = NUL
    BY DEF NUL, Byte
  <2>2. /\ Written..(Written + Len(<<NUL>>) - 1) = {Written}
        /\ Written - Written + 1 = 1
    BY <1>5, <2>1
  <2>3. /\ out' \in [DOMAIN out' -> Byte]
        /\ DOMAIN out' = DOMAIN out \cup {Written}
        /\ \A o \in {Written} : out'[o] = <<NUL>>[o - Written + 1]
    BY <1>1, <1>3, <1>5, <2>1, <2>2, StoreFacts, ZenonT(30)
  <2> QED
    BY <2>1, <2>2, <2>3
<1>7. Consumed = i
  BY <1>2, <1>4 DEF Consumed, ComponentLen
<1>8. AppendInv'
  <2>1. Written' <= Widest(i)'
    BY <1>1, <1>4, <1>5, <1>7 DEF Widest
  <2>2. 0..Written' \subseteq DOMAIN out'
    BY <1>4, <1>5, <1>6
  <2> QED
    BY <1>1, <1>5, <1>6, <2>1, <2>2 DEF AppendInv
<1>9. TypeOK' /\ StoresInBuffer' /\ Disjoint(input, cap)'
  BY <1>1, <1>2, <1>3, <1>5, <1>6 DEF Inv, TypeOK, StoresInBuffer, Disjoint
<1> QED
  BY <1>1, <1>8, <1>9
  DEF Inv, EnterInv, ScanInv, LoopInv, PendingInv, ReturnContract, WorstCaseCapacity

\* EndEncode: the terminator is stored only where there is room for it.
LEMMA EndEncodeStep ==
  ASSUME Inv, EndEncode
  PROVE  Inv'
<1>1. /\ pc = "emit" /\ k >= ComponentLen /\ fn \in Encoders
      /\ UNCHANGED <<call, outer, inner, length>>
  BY DEF EndEncode, Inv, LoopInv
<1>2. /\ cap \in Nat /\ outLen \in Nat /\ len \in Nat /\ Len(input) \in Nat
      /\ i \in 0..Len(input) /\ segmentStart \in 0..i /\ k \in 0..Len(input)
  BY SizeAssumption DEF Inv, TypeOK
<1>3. Room = IF cap <= outLen THEN 0 ELSE cap - outLen
  BY <1>1, <1>2 DEF Room, Minus
<1>4. CASE len < Room
  <2>1. Written < cap
    BY <1>2, <1>3, <1>4 DEF Written
  <2> QED
    BY <1>1, <1>4, <2>1, TerminateStep DEF EndEncode, TerminatorFits
<1>5. CASE ~(len < Room)
  <2>1. pc' = "done" /\ status' = "BUFFER_TOO_SMALL" /\ out' = out
    BY <1>5 DEF EndEncode, TerminatorFits, Return
  <2>2. /\ UNCHANGED <<fn, input, cap, i, segmentStart, length>>
        /\ outLen' = outLen /\ len' = len /\ k' = k
    BY <1>1 DEF call, outer, inner
  <2>3. cap <= Written /\ Written \in Nat
    BY <1>2, <1>3, <1>5 DEF Written
  <2>4. /\ Consumed \in Nat /\ Consumed <= Len(input) /\ Written <= Widest(Consumed)
    BY <1>1, <1>2 DEF Inv, LoopInv, Consumed, ComponentLen
  <2>5. /\ Widest(Consumed) <= Widest(Len(input))
        /\ Widest(Consumed) \in Nat /\ Widest(Len(input)) \in Nat
    BY <1>2, <2>4, WidestFacts
  <2>6. cap < Widest(Len(input)) + 1
    BY <1>2, <2>3, <2>4, <2>5
  <2> QED
    BY <1>1, <1>2, <2>1, <2>2, <2>6, ErrorStep
<1> QED
  BY <1>4, <1>5

\* TakeLiteral: one byte is decoded from one.
LEMMA TakeLiteralStep ==
  ASSUME Inv, TakeLiteral
  PROVE  Inv'
<1> DEFINE bytes == <<At(segmentStart + k)>>
<1>1. /\ pc = "take" /\ k < ComponentLen /\ ~(fn \in Encoders)
      /\ AppendByte(bytes, 1, "take") /\ UNCHANGED <<call, outer, length>>
  BY DEF TakeLiteral, Inv, LoopInv
<1>2. /\ k \in Nat /\ segmentStart \in Nat /\ segmentStart + k < Len(input)
      /\ ComponentLen \in Nat
  BY <1>1 DEF Inv, TypeOK, ComponentLen
<1>3. At(segmentStart + k) \in Byte
  BY <1>2, AtIsByte DEF Inv
<1>4. bytes \in Seq(Byte) /\ Len(bytes) = 1
  BY <1>3
<1> HIDE DEF bytes
<1>5. Len(bytes) <= 3 /\ Len(bytes) <= Widest(1)
  BY <1>4 DEF Widest
<1>6. (fn \in Encoders <=> "take" = "emit") /\ k + 1 <= ComponentLen /\ 1 \in 1..3
  BY <1>1, <1>2
<1> QED
  BY <1>1, <1>2, <1>4, <1>5, <1>6, AppendByteStep

\* TakeHyphen: an escape is begun only when all of it is there.
LEMMA TakeHyphenStep ==
  ASSUME Inv, TakeHyphen
  PROVE  Inv'
<1>1. /\ pc = "take"
      /\ UNCHANGED <<fn, input, cap, i, segmentStart, outLen, k, len, out, length>>
  BY DEF TakeHyphen, call, outer, inner
<1>2. /\ outLen \in Nat /\ len \in Nat /\ k \in 0..Len(input)
  BY DEF Inv, TypeOK
<1>3. CASE At(segmentStart + k) = HYPHEN /\ EscapeComplete
  <2>1. pc' = "hex" /\ status' = status /\ k + 3 <= ComponentLen
    BY <1>3 DEF TakeHyphen, EscapeComplete
  <2>2. TypeOK' /\ StoresInBuffer' /\ Disjoint(input, cap)'
    BY <1>1, <2>1 DEF Inv, TypeOK, StoresInBuffer, Disjoint
  <2>3. LoopInv'
    BY <1>1, <2>1 DEF Inv, LoopInv, Written, Consumed, ComponentLen, Widest
  <2> QED
    BY <1>1, <2>1, <2>2, <2>3
    DEF Inv, EnterInv, ScanInv, AppendInv, PendingInv, ReturnContract, WorstCaseCapacity
<1>4. CASE ~(At(segmentStart + k) = HYPHEN /\ EscapeComplete)
  <2>1. pc' = "done" /\ status' = "INVALID_ESCAPE"
    BY <1>4 DEF TakeHyphen, Return
  <2> QED
    BY <1>1, <1>2, <2>1, ErrorStep
<1> QED
  BY <1>3, <1>4

\* TakeEscape: one byte is decoded from three.
LEMMA TakeEscapeStep ==
  ASSUME Inv, TakeEscape
  PROVE  Inv'
<1> DEFINE h == At(segmentStart + k + 1)
           l == At(segmentStart + k + 2)
           bytes == <<HexByte(h, l)>>
<1>1. /\ pc = "hex" /\ k + 3 <= ComponentLen /\ ~(fn \in Encoders)
      /\ UNCHANGED <<call, outer, length>>
  BY DEF TakeEscape, Inv, LoopInv
<1>2. /\ k \in Nat /\ segmentStart \in Nat /\ segmentStart + k + 2 < Len(input)
      /\ ComponentLen \in Nat /\ k < ComponentLen
      /\ outLen \in Nat /\ len \in Nat /\ k \in 0..Len(input)
  BY <1>1 DEF Inv, TypeOK, ComponentLen
<1>3. h \in Byte /\ l \in Byte
  BY <1>2, AtIsByte DEF Inv
<1>4. CASE IsHexDigit(h) /\ IsHexDigit(l)
  <2>1. AppendByte(bytes, 3, "take")
    BY <1>4 DEF TakeEscape
  <2>2. HexByte(h, l) \in Byte
    BY <1>3, <1>4, HexByteIsByte
  <2>3. bytes \in Seq(Byte) /\ Len(bytes) = 1
    BY <2>2
  <2> HIDE DEF bytes, h, l
  <2>4. Len(bytes) <= 3 /\ Len(bytes) <= Widest(3)
    BY <2>3 DEF Widest
  <2>5. (fn \in Encoders <=> "take" = "emit") /\ 3 \in 1..3
    BY <1>1
  <2> QED
    BY <1>1, <1>2, <2>1, <2>3, <2>4, <2>5, AppendByteStep
<1>5. CASE ~(IsHexDigit(h) /\ IsHexDigit(l))
  <2>1. pc' = "done" /\ status' = "INVALID_ESCAPE" /\ UNCHANGED <<k, len, out>>
    BY <1>5 DEF TakeEscape, Return, inner
  <2>2. UNCHANGED <<fn, input, cap, i, segmentStart, outLen, length>>
    BY <1>1 DEF call, outer
  <2> QED
    BY <1>1, <1>2, <2>1, <2>2, ErrorStep
<1> QED
  BY <1>4, <1>5

\* EndDecode: the loop kept the room for the terminator.
LEMMA EndDecodeStep ==
  ASSUME Inv, EndDecode
  PROVE  Inv'
<1>1. /\ pc = "take" /\ k >= ComponentLen /\ Written < cap
      /\ UNCHANGED <<call, outer, inner, length>>
  <2>1. fn \in Decoders
    BY DEF EndDecode, Inv, LoopInv, TypeOK
  <2> QED
    BY <2>1 DEF EndDecode, Inv, LoopInv
<1>2. CASE Utf8Validate(Payload)
  BY <1>1, <1>2, TerminateStep DEF EndDecode
<1>3. CASE ~Utf8Validate(Payload)
  <2>1. pc' = "done" /\ status' = "INVALID_UTF8" /\ out' = out
    BY <1>3 DEF EndDecode, Return
  <2>2. /\ UNCHANGED <<fn, input, cap, i, segmentStart, length>>
        /\ outLen' = outLen /\ len' = len /\ k' = k
    BY <1>1 DEF call, outer, inner
  <2> QED
    BY <1>1, <2>1, <2>2, ErrorStep DEF Inv, TypeOK
<1> QED
  BY <1>2, <1>3

\* The room for a separator is what is left of the buffer.
LEMMA SeparatorRoom ==
  ASSUME Inv, pc = "append", AtSeparator
  PROVE  SeparatorFits(Total) <=> Total + 2 < cap
<1>1. /\ cap \in Nat /\ outLen \in Nat /\ len \in Nat /\ Len(input) \in Nat
      /\ i \in Nat /\ Total = outLen + len /\ Total < cap
      /\ Len(input) + 1 + cap <= SizeModulus
  BY SizeAssumption DEF Inv, TypeOK, AppendInv, Written, Total, Disjoint
<1>2. Total \in Nat /\ Total + 2 < SizeModulus
  <2>1. i + 1 < Len(input)
    BY DEF AtSeparator
  <2> DEFINE n == Len(input)
  <2>2. n \in Nat /\ i + 1 < n /\ n + 1 + cap <= SizeModulus
    BY <1>1, <2>1
  <2> HIDE DEF n
  <2> QED
    BY <1>1, <2>2, SizeAssumption
<1>3. Plus(Total, 2) = Total + 2
  BY <1>2, PlusIsSum
<1> QED
  BY <1>3 DEF SeparatorFits

\* EndComponent: the separator keeps the output contiguous and within the
\* worst case for the text up to it.
LEMMA EndComponentStep ==
  ASSUME Inv, EndComponent
  PROVE  Inv'
<1>1. /\ pc = "append" /\ UNCHANGED <<fn, input, cap, k, len>>
  BY DEF EndComponent, call, inner
<1>2. /\ cap \in Nat /\ outLen \in Nat /\ len \in Nat /\ Len(input) \in Nat
      /\ i \in 0..Len(input) /\ segmentStart \in 0..i /\ k \in 0..Len(input)
      /\ SizeModulus \in Nat /\ SizeModulus >= 8
  BY SizeAssumption DEF Inv, TypeOK
<1>3. /\ out \in [DOMAIN out -> Byte] /\ DOMAIN out \subseteq Nat
      /\ DOMAIN out \subseteq 0..(cap - 1)
      /\ length = NotSet
  BY <1>1 DEF Inv, TypeOK, StoresInBuffer, PendingInv
<1>4. /\ Written < cap /\ Written <= Widest(i)
      /\ 0..Written \subseteq DOMAIN out
      /\ out[Written] = NUL
  BY <1>1 DEF Inv, AppendInv
<1>5. Written \in Nat /\ Written = Total /\ Total = outLen + len
  BY <1>2 DEF Written, Total
<1>6. CASE AtSeparator
  <2>1. i + 2 <= Len(input) /\ Len(input) + 1 + cap <= SizeModulus
    BY <1>2, <1>6 DEF AtSeparator, Inv, Disjoint
  <2>2. SeparatorFits(Total) <=> Written + 2 < cap
    BY <1>1, <1>5, <1>6, SeparatorRoom
  <2>3. Widest(i + 2) = Widest(i) + Widest(2) /\ Widest(i) \in Nat
    BY <1>2, WidestFacts
  <2>4. Widest(2) \in Nat /\ Widest(2) >= 2
    BY DEF Widest
  <2>5. CASE Written + 2 < cap
    <3> DEFINE sep == <<HYPHEN, HYPHEN, NUL>>
    <3>1. /\ Store(sep, Written)
          /\ outLen' = Written + 2 /\ i' = i + 2 /\ segmentStart' = i + 2
          /\ pc' = "scan" /\ status' = status /\ length' = length
      BY <1>5, <1>6, <2>2, <2>5 DEF EndComponent, AfterSeparator, result
    <3>2. sep \in Seq(Byte) /\ Len(sep) = 3
      BY DEF HYPHEN, NUL, Byte
    <3> HIDE DEF sep
    <3>3. /\ out' \in [DOMAIN out' -> Byte]
          /\ DOMAIN out' = DOMAIN out \cup Written..(Written + 3 - 1)
      BY <1>3, <1>5, <3>1, <3>2, StoreFacts
    <3>4. TypeOK'
      <4>1. /\ outLen' \in Nat
            /\ i' \in 0..Len(input) /\ segmentStart' \in 0..i'
        BY <1>2, <1>5, <2>1, <3>1
      <4>2. DOMAIN out' \subseteq Nat
        BY <1>3, <1>5, <3>3
      <4> QED
        BY <1>1, <3>1, <3>3, <4>1, <4>2 DEF Inv, TypeOK
    <3>5. StoresInBuffer'
      BY <1>1, <1>2, <1>3, <1>5, <2>5, <3>3 DEF StoresInBuffer
    <3>6. ScanInv'
      <4>1. outLen' <= Widest(i + 2)
        BY <1>4, <1>5, <2>3, <2>4, <3>1
      <4>2. outLen' <= Widest(segmentStart)'
        BY <1>1, <3>1, <4>1 DEF Widest
      <4>3. 0..(outLen' - 1) \subseteq DOMAIN out'
        BY <1>4, <1>5, <3>1, <3>3
      <4> QED
        BY <1>1, <2>5, <3>1, <4>2, <4>3 DEF ScanInv
    <3> QED
      BY <1>1, <1>3, <3>1, <3>4, <3>5, <3>6
      DEF Inv, Disjoint, EnterInv, LoopInv, AppendInv, PendingInv, ReturnContract,
          WorstCaseCapacity
  <2>6. CASE ~(Written + 2 < cap)
    <3>1. /\ pc' = "done" /\ status' = "BUFFER_TOO_SMALL" /\ outLen' = Written
          /\ UNCHANGED <<i, segmentStart, out, length>>
      BY <1>5, <1>6, <2>2, <2>6 DEF EndComponent, Return
    <3>2. Widest(i + 2) <= Widest(Len(input)) /\ Widest(Len(input)) \in Nat
      BY <1>2, <2>1, WidestFacts
    <3>3. cap < Widest(Len(input)) + 1
      BY <1>2, <1>4, <1>5, <2>3, <2>4, <2>6, <3>2
    <3> QED
      BY <1>1, <1>2, <1>5, <3>1, <3>3, ErrorStep
  <2> QED
    BY <2>5, <2>6
<1>7. CASE ~AtSeparator
  <2>1. /\ pc' = "done" /\ status' = "OK" /\ outLen' = Written /\ length' = Written
        /\ UNCHANGED <<i, segmentStart, out>>
    BY <1>5, <1>7 DEF EndComponent, Return
  <2>2. TypeOK' /\ StoresInBuffer' /\ Disjoint(input, cap)'
    BY <1>1, <1>5, <2>1 DEF Inv, TypeOK, StoresInBuffer, Disjoint
  <2>3. ReturnContract'
    BY <1>4, <1>5, <2>1 DEF ReturnContract
  <2> QED
    BY <2>1, <2>2, <2>3
    DEF Inv, EnterInv, ScanInv, LoopInv, AppendInv, PendingInv, WorstCaseCapacity
<1> QED
  BY <1>6, <1>7

\* stuttering
LEMMA StutterStep ==
  ASSUME Inv, UNCHANGED vars
  PROVE  Inv'
<1>1. UNCHANGED <<fn, input, cap, pc, i, segmentStart, outLen, k, len, out, status, length>>
  BY DEF vars, call, outer, inner, result
<1> QED
  BY <1>1
  DEF Inv, TypeOK, Disjoint, StoresInBuffer, EnterInv, ScanInv, LoopInv, AppendInv,
      PendingInv, ReturnContract, WorstCaseCapacity, Written, Consumed, ComponentLen, Widest

-----------------------------------------------------------------------------
\* Every step keeps the invariant.
LEMMA InvStep ==
  ASSUME Inv, [Next]_vars
  PROVE  Inv'
  BY EnterStep, ScanStep, BeginComponentStep, EmitStep, EndEncodeStep, TakeLiteralStep,
     TakeHyphenStep, TakeEscapeStep, EndDecodeStep, EndComponentStep, StutterStep
  DEF Next

\* The inductive invariant holds in every reachable state.
THEOREM Invariance == Spec => []Inv
<1>1. Inv /\ [Next]_vars => Inv'
  BY InvStep
<1> QED
  BY <1>1, InvInit, PTL DEF Spec

\* TypeOK (def.c:436-559): every variable keeps its type; the scanner's
\* position never passes the text, so the loop of the body functions is left
\* only by a return inside it.
THEOREM TypeCorrect == Spec => []TypeOK
<1>1. Inv => TypeOK
  BY DEF Inv
<1> QED
  BY <1>1, Invariance, PTL

\* StoresInBuffer: for every text and capacity, and although sizes wrap, no
\* store of def.c is outside the caller's buffer.
THEOREM BufferSafety == Spec => []StoresInBuffer
<1>1. Inv => StoresInBuffer
  BY DEF Inv
<1> QED
  BY <1>1, Invariance, PTL

\* ReadsInComponent: the decoder reads and steps inside its component.
THEOREM ReadSafety == Spec => []ReadsInComponent
<1>1. Inv => ReadsInComponent
  <2> SUFFICES ASSUME Inv, pc \in {"hex", "take"}
               PROVE  /\ pc = "hex" => segmentStart + k + 2 < i
                      /\ pc = "take" => segmentStart + k <= i
    BY DEF ReadsInComponent
  <2>1. i \in Nat /\ segmentStart \in 0..i /\ k \in Nat
    BY DEF Inv, TypeOK
  <2>2. k <= i - segmentStart
    BY DEF Inv, LoopInv, ComponentLen
  <2>3. pc = "hex" => k + 3 <= i - segmentStart
    BY DEF Inv, LoopInv, ComponentLen
  <2> QED
    BY <2>1, <2>2, <2>3
<1> QED
  BY <1>1, Invariance, PTL

\* ReturnContract: a successful call has stored and terminated what it reports,
\* a failed one has not touched *output_length.
THEOREM ReturnsHonestly == Spec => []ReturnContract
<1>1. Inv => ReturnContract
  BY DEF Inv
<1> QED
  BY <1>1, Invariance, PTL

\* WorstCaseCapacity: the temporary buffers of def_encode_profile
\* (def.c:390-396) are large enough for every text.
THEOREM WorstCaseSuffices == Spec => []WorstCaseCapacity
<1>1. Inv => WorstCaseCapacity
  BY DEF Inv
<1> QED
  BY <1>1, Invariance, PTL

-----------------------------------------------------------------------------
\* NoRawSeparator with what makes it inductive: no byte or escape ends in '-',
\* so the '-' that starts the next escape never meets one.
NoRawInv ==
  /\ NoRawSeparator
  /\ pc = "emit" /\ len > 0 => out[Written - 1] # HYPHEN

\* Emit: what is appended neither ends in '-' nor holds "--".
LEMMA NoRawEmit ==
  ASSUME Inv, NoRawInv, Emit
  PROVE  NoRawInv'
<1> DEFINE bytes == EncodeByte(Canonical(At(segmentStart + k)))
           n == Len(bytes)
<1>1. /\ pc = "emit" /\ k < ComponentLen /\ fn \in Encoders
      /\ AppendByte(bytes, 1, "emit") /\ UNCHANGED <<fn, outLen>>
  BY DEF Emit, Inv, LoopInv, call, outer
<1>2. /\ k \in Nat /\ segmentStart \in Nat /\ segmentStart + k < Len(input)
      /\ outLen \in Nat /\ len \in Nat
  BY <1>1 DEF Inv, TypeOK, ComponentLen
<1>3. /\ out \in [DOMAIN out -> Byte] /\ DOMAIN out \subseteq Nat
      /\ 0..(Written - 1) \subseteq DOMAIN out
  BY <1>1 DEF Inv, TypeOK, LoopInv
<1>4. /\ bytes \in Seq(Byte) /\ n <= 3
      /\ bytes[n] # HYPHEN
      /\ n = 3 => bytes[2] # HYPHEN
  BY <1>2, AtIsByte, CanonicalIsByte, EncodeByteFacts DEF Inv
<1>5. n \in Nat /\ n >= 1
  BY DEF EncodeByte
<1>8. n = Len(bytes)
  OBVIOUS
<1> HIDE DEF bytes, n
<1>6. CASE ~Fits(len, n, Room)
  BY <1>1, <1>6, <1>8 DEF AppendByte, Return, NoRawInv, NoRawSeparator
<1>7. CASE Fits(len, n, Room)
  <2>1. /\ Store(bytes, Written) /\ len' = len + n /\ pc' = "emit"
        /\ outLen' = outLen /\ Written \in Nat /\ Written = outLen + len
    BY <1>1, <1>2, <1>7, <1>8 DEF AppendByte, Written
  <2>2. /\ \A o \in Written..(Written + n - 1) : out'[o] = bytes[o - Written + 1]
        /\ \A o \in DOMAIN out \ Written..(Written + n - 1) : out'[o] = out[o]
    BY <1>3, <1>4, <1>8, <2>1, StoreFacts
  <2>3. /\ out'[Written + n - 1] # HYPHEN
        /\ n = 3 => out'[Written + 1] # HYPHEN
    <3>1. out'[Written + n - 1] = bytes[Written + n - 1 - Written + 1]
      BY <1>5, <2>1, <2>2
    <3>2. n = 3 => out'[Written + 1] = bytes[Written + 1 - Written + 1]
      BY <1>5, <2>1, <2>2
    <3>3. Written + n - 1 - Written + 1 = n /\ Written + 1 - Written + 1 = 2
      BY <1>5, <2>1
    <3> QED
      BY <1>4, <3>1, <3>2, <3>3
  <2>4. \A o \in outLen..(Written - 1) : out'[o] = out[o]
    BY <1>2, <1>3, <2>1, <2>2
  <2>5. \A o \in outLen..(Written + n - 2) : ~(out'[o] = HYPHEN /\ out'[o + 1] = HYPHEN)
    <3> TAKE o \in outLen..(Written + n - 2)
    <3>1. CASE o + 1 <= Written - 1
      <4>1. o \in outLen..(Written - 2) /\ o + 1 \in outLen..(Written - 1)
        BY <1>2, <1>5, <2>1, <3>1
      <4>2. ~(out[o] = HYPHEN /\ out[o + 1] = HYPHEN)
        BY <1>1, <1>2, <2>1, <4>1 DEF NoRawInv, NoRawSeparator
      <4>3. o \in outLen..(Written - 1)
        BY <1>2, <2>1, <4>1
      <4> QED
        BY <2>4, <4>1, <4>2, <4>3
    <3>2. CASE o = Written - 1
      <4>1. out'[o] = out[Written - 1] /\ len > 0
        BY <1>2, <2>1, <2>4, <3>2
      <4> QED
        BY <1>1, <4>1 DEF NoRawInv
    <3>3. CASE o >= Written
      <4>1. \/ o = Written /\ n = 3
            \/ o + 1 = Written + n - 1
        BY <1>2, <1>4, <1>5, <2>1, <3>3
      <4> QED
        BY <2>3, <4>1
    <3> QED
      BY <1>2, <1>5, <2>1, <3>1, <3>2, <3>3
  <2>6. /\ outLen' + len' - 2 = Written + n - 2
        /\ Written' - 1 = Written + n - 1
    BY <1>2, <1>5, <2>1 DEF Written
  <2> QED
    BY <1>1, <2>1, <2>3, <2>5, <2>6 DEF NoRawInv, NoRawSeparator
<1> QED
  BY <1>6, <1>7

\* EndEncode: the terminator is no '-'.
LEMMA NoRawEndEncode ==
  ASSUME Inv, NoRawInv, EndEncode
  PROVE  NoRawInv'
<1>1. pc = "emit" /\ fn \in Encoders /\ UNCHANGED <<fn, outLen, len>>
  BY DEF EndEncode, Inv, LoopInv, call, outer, inner
<1>2. CASE pc' = "done"
  BY <1>2 DEF NoRawInv, NoRawSeparator
<1>3. CASE pc' # "done"
  <2>1. pc' = "append" /\ Store(<<NUL>>, Written)
    BY <1>3 DEF EndEncode, Terminate, Return, Written
  <2>2. /\ outLen \in Nat /\ len \in Nat /\ Written = outLen + len /\ Written \in Nat
        /\ out \in [DOMAIN out -> Byte] /\ DOMAIN out \subseteq Nat
        /\ 0..(Written - 1) \subseteq DOMAIN out
    BY <1>1 DEF Inv, TypeOK, LoopInv, Written
  <2>3. <<NUL>> \in Seq(Byte) /\ Len(<<NUL>>) = 1
    BY DEF NUL, Byte
  <2>4. \A o \in DOMAIN out \ Written..(Written + Len(<<NUL>>) - 1) : out'[o] = out[o]
    BY <2>1, <2>2, <2>3, StoreFacts
  <2>5. \A o \in outLen..(Written - 1) : out'[o] = out[o]
    BY <2>2, <2>3, <2>4
  <2>6. \A o \in outLen..(outLen + len - 2) : ~(out'[o] = HYPHEN /\ out'[o + 1] = HYPHEN)
    <3> TAKE o \in outLen..(outLen + len - 2)
    <3>1. o \in outLen..(Written - 1) /\ o + 1 \in outLen..(Written - 1)
      BY <2>2
    <3> QED
      BY <1>1, <2>5, <3>1 DEF NoRawInv, NoRawSeparator
  <2> QED
    BY <1>1, <2>1, <2>6 DEF NoRawInv, NoRawSeparator
<1> QED
  BY <1>2, <1>3

\* the steps that leave the encoder's loop alone
LEMMA NoRawOther ==
  ASSUME Inv, NoRawInv,
         \/ Enter \/ Scan \/ BeginComponent
         \/ TakeLiteral \/ TakeHyphen \/ TakeEscape \/ EndDecode
         \/ EndComponent \/ UNCHANGED vars
  PROVE  NoRawInv'
<1>1. CASE Enter \/ Scan
  BY <1>1 DEF Enter, Scan, Return, NoRawInv, NoRawSeparator
<1>2. CASE BeginComponent
  <2>1. len' = 0 /\ outLen' \in Nat /\ pc' # "append"
    BY <1>2 DEF BeginComponent, Return, Inv, TypeOK, outer
  <2>5. \A a \in Nat : a..(a + 0 - 2) = {}
    OBVIOUS
  <2>2. outLen'..(outLen' + len' - 2) = {}
    BY <2>1, <2>5
  <2>3. NoRawSeparator'
    BY <2>2 DEF NoRawSeparator
  <2>4. ~(len' > 0)
    BY <2>1
  <2> QED
    BY <2>1, <2>3, <2>4 DEF NoRawInv
<1>3. CASE TakeLiteral \/ TakeHyphen \/ TakeEscape
  BY <1>3
  DEF TakeLiteral, TakeHyphen, TakeEscape, AppendByte, Return, NoRawInv, NoRawSeparator
<1>4. CASE EndDecode
  <2>1. ~(fn' \in Encoders) /\ pc' # "emit"
    BY <1>4 DEF EndDecode, Terminate, Return, Inv, LoopInv, call
  <2> QED
    BY <2>1 DEF NoRawInv, NoRawSeparator
<1>5. CASE EndComponent
  BY <1>5 DEF EndComponent, Return, NoRawInv, NoRawSeparator
<1>6. CASE UNCHANGED vars
  BY <1>6 DEF vars, call, outer, inner, result, NoRawInv, NoRawSeparator, Written
<1> QED
  BY <1>1, <1>2, <1>3, <1>4, <1>5, <1>6

\* NoRawSeparator: an encoded component holds no "--", so that a decoder finds
\* the components of a representation where the encoder put them.
THEOREM ComponentsStayWhole == Spec => []NoRawSeparator
<1>1. Init => NoRawInv
  BY DEF Init, NoRawInv, NoRawSeparator
<1>2. Inv /\ NoRawInv /\ [Next]_vars => NoRawInv'
  BY NoRawEmit, NoRawEndEncode, NoRawOther DEF Next
<1>3. NoRawInv => NoRawSeparator
  BY DEF NoRawInv
<1> QED
  BY <1>1, <1>2, <1>3, Invariance, PTL DEF Spec

-----------------------------------------------------------------------------
\* What the functions compute.  The buffer is compared with what DefCore defines
\* for the text: what is stored of it so far, and behind it what is defined for
\* the part of the text that is left.
\* n bytes of a buffer from offset a on
Bytes(o, a, n) == [b \in 1..n |-> o[a + b - 1]]

\* a part of the buffer that is stored to is a text
LEMMA BytesType ==
  ASSUME NEW o, NEW a \in Nat, NEW n \in Nat,
         o \in [DOMAIN o -> Byte], a..(a + n - 1) \subseteq DOMAIN o
  PROVE  /\ Bytes(o, a, n) \in Seq(Byte) /\ Len(Bytes(o, a, n)) = n
         /\ \A b \in 1..n : Bytes(o, a, n)[b] = o[a + b - 1]
<1>1. \A b \in 1..n : o[a + b - 1] \in Byte
  <2> TAKE b \in 1..n
  <2>1. a + b - 1 \in a..(a + n - 1)
    OBVIOUS
  <2>2. a + b - 1 \in DOMAIN o
    BY <2>1
  <2> QED
    BY <2>2
<1> QED
  BY <1>1 DEF Bytes

\* a buffer of bytes, and the offsets from a up to e - 1 are stored to
IsBuffer(o) == o \in [DOMAIN o -> Byte]
Covers(o, a, e) == a..(e - 1) \subseteq DOMAIN o

\* Adjacent parts of a buffer are a part.
LEMMA BytesConcat ==
  ASSUME NEW o, NEW a \in Nat, NEW m \in Nat, NEW n \in Nat, NEW p, NEW t, NEW e,
         IsBuffer(o), Covers(o, a, e), e = a + m + n, p = a + m, t = m + n
  PROVE  Bytes(o, a, t) = Bytes(o, a, m) \o Bytes(o, p, n)
<1>0. o \in [DOMAIN o -> Byte] /\ a..(a + m + n - 1) \subseteq DOMAIN o
  BY DEF IsBuffer, Covers
<1> DEFINE w == Bytes(o, a, m + n)
           u == Bytes(o, a, m)
           v == Bytes(o, a + m, n)
           x == u \o v
<1>1. w \in Seq(Byte) /\ Len(w) = m + n /\ \A b \in 1..(m + n) : w[b] = o[a + b - 1]
  <2>1. m + n \in Nat /\ a..(a + (m + n) - 1) \subseteq DOMAIN o
    BY <1>0
  <2> QED
    BY <1>0, <2>1, BytesType
<1>2. u \in Seq(Byte) /\ Len(u) = m /\ \A b \in 1..m : u[b] = o[a + b - 1]
  <2>1. a..(a + m - 1) \subseteq DOMAIN o
    <3>1. a..(a + m - 1) \subseteq a..(a + m + n - 1)
      OBVIOUS
    <3> QED
      BY <1>0, <3>1
  <2> QED
    BY <1>0, <2>1, BytesType
<1>3. v \in Seq(Byte) /\ Len(v) = n /\ \A b \in 1..n : v[b] = o[a + m + b - 1]
  <2> DEFINE c == a + m
  <2>1. c \in Nat /\ c..(c + n - 1) \subseteq DOMAIN o
    <3>1. (a + m)..(a + m + n - 1) \subseteq a..(a + m + n - 1)
      OBVIOUS
    <3> QED
      BY <1>0, <3>1
  <2> HIDE DEF c
  <2>2. /\ Bytes(o, c, n) \in Seq(Byte) /\ Len(Bytes(o, c, n)) = n
        /\ \A b \in 1..n : Bytes(o, c, n)[b] = o[c + b - 1]
    BY <1>0, <2>1, BytesType
  <2> QED
    BY <2>2 DEF c
<1> HIDE DEF w, u, v
<1>4. /\ x \in Seq(Byte) /\ Len(x) = Len(u) + Len(v)
      /\ \A j \in 1..(Len(u) + Len(v)) : x[j] = IF j <= Len(u) THEN u[j] ELSE v[j - Len(u)]
  <2>1. u \in Seq(Byte) /\ v \in Seq(Byte)
    BY <1>2, <1>3
  <2> QED
    BY <2>1, ConcatProperties
<1> HIDE DEF x
<1>5. ASSUME NEW j \in 1..(m + n) PROVE w[j] = x[j]
  <2>1. x[j] = IF j <= m THEN u[j] ELSE v[j - m]
    BY <1>2, <1>3, <1>4
  <2>4. w[j] = o[a + j - 1]
    BY <1>1
  <2>2. CASE j <= m
    <3>1. j \in 1..m
      BY <2>2
    <3>2. \A b \in 1..m : u[b] = o[a + b - 1]
      BY <1>2
    <3>3. u[j] = o[a + j - 1]
      BY <3>1, <3>2
    <3>4. x[j] = u[j]
      BY <2>1, <2>2
    <3> QED
      BY <2>4, <3>3, <3>4
  <2>3. CASE ~(j <= m)
    <3>1. j - m \in 1..n /\ a + m + (j - m) - 1 = a + j - 1
      BY <2>3
    <3>2. \A b \in 1..n : v[b] = o[a + m + b - 1]
      BY <1>3
    <3>3. v[j - m] = o[a + m + (j - m) - 1]
      BY <3>1, <3>2
    <3>4. x[j] = v[j - m]
      BY <2>1, <2>3
    <3> QED
      BY <2>4, <3>1, <3>3, <3>4
  <2> QED
    BY <2>2, <2>3
<1>6. Len(w) = Len(x) /\ Len(w) = m + n
  BY <1>1, <1>2, <1>3, <1>4
<1>7. w \in Seq(Byte) /\ x \in Seq(Byte) /\ \A j \in 1..Len(w) : w[j] = x[j]
  BY <1>1, <1>4, <1>5, <1>6
<1>8. w = x
  BY <1>6, <1>7, SeqEqual
<1>9. w = u \o v
  BY <1>8 DEF x
<1> QED
  BY <1>9 DEF w, u, v

\* What is stored is in the buffer, and what was there before it still is.
LEMMA BytesStored ==
  ASSUME NEW bytes \in Seq(Byte), NEW at \in Nat,
         out \in [DOMAIN out -> Byte], DOMAIN out \subseteq Nat, Store(bytes, at)
  PROVE  /\ Bytes(out', at, Len(bytes)) = bytes
         /\ \A a, n \in Nat : a + n <= at /\ a..(a + n - 1) \subseteq DOMAIN out =>
              Bytes(out', a, n) = Bytes(out, a, n)
<1> DEFINE m == Len(bytes)
<1>1. /\ out' \in [DOMAIN out' -> Byte]
      /\ DOMAIN out' = DOMAIN out \cup at..(at + m - 1)
      /\ \A o \in at..(at + m - 1) : out'[o] = bytes[o - at + 1]
      /\ \A o \in DOMAIN out \ at..(at + m - 1) : out'[o] = out[o]
  BY StoreFacts
<1>2. m \in Nat /\ m = Len(bytes)
  OBVIOUS
<1> HIDE DEF m
<1>3. Bytes(out', at, m) = bytes
  <2> DEFINE w == Bytes(out', at, m)
  <2>1. w \in Seq(Byte) /\ Len(w) = m /\ \A b \in 1..m : w[b] = out'[at + b - 1]
    BY <1>1, <1>2, BytesType
  <2> HIDE DEF w
  <2>2. ASSUME NEW b \in 1..m PROVE w[b] = bytes[b]
    <3>1. at + b - 1 \in at..(at + m - 1) /\ at + b - 1 - at + 1 = b
      BY <1>2
    <3> QED
      BY <1>1, <2>1, <3>1
  <2>3. Len(w) = Len(bytes) /\ \A b \in 1..Len(w) : w[b] = bytes[b]
    BY <1>2, <2>1, <2>2
  <2>4. w \in Seq(Byte)
    BY <2>1
  <2>5. w = bytes
    BY <2>3, <2>4, SeqEqual
  <2> QED
    BY <2>5 DEF w
<1>4. ASSUME NEW a \in Nat, NEW n \in Nat, a + n <= at, a..(a + n - 1) \subseteq DOMAIN out
      PROVE  Bytes(out', a, n) = Bytes(out, a, n)
  <2>1. ASSUME NEW b \in 1..n PROVE out'[a + b - 1] = out[a + b - 1]
    <3>1. a + b - 1 \in a..(a + n - 1) /\ a + b - 1 \notin at..(at + m - 1)
      BY <1>2, <1>4
    <3>2. a + b - 1 \in DOMAIN out \ at..(at + m - 1)
      BY <1>4, <3>1
    <3> QED
      BY <1>1, <3>2
  <2> QED
    BY <2>1 DEF Bytes
<1> QED
  BY <1>2, <1>3, <1>4

-----------------------------------------------------------------------------
\* Two texts in front of an outcome are one text in front of it.
LEMMA BehindBehind ==
  ASSUME NEW p \in Seq(Byte), NEW q \in Seq(Byte), NEW r \in Outcomes
  PROVE  Behind(p, Behind(q, r)) = Behind(p \o q, r)
<1>1. r.text \in Seq(Byte)
  BY OutcomeFacts
<1> DEFINE t == r.text
<1>3. t \in Seq(Byte)
  BY <1>1
<1> HIDE DEF t
<1>2. p \o (q \o t) = (p \o q) \o t
  BY <1>3, Associative
<1> QED
  BY <1>2 DEF Behind, Success, t

\* An outcome behind nothing is the outcome.
LEMMA BehindNothing ==
  ASSUME NEW r \in Outcomes
  PROVE  Behind(<<>>, r) = r
<1>1. r.text \in Seq(Byte)
  BY OutcomeFacts
<1>2. <<>> \o r.text = r.text
  BY <1>1, ConcatEmptySeq
<1> QED
  BY <1>2, OutcomeIsText DEF Behind

\* A text in front of an outcome adds its length to a result.
LEMMA BehindType ==
  ASSUME NEW p \in Seq(Byte), NEW r \in Outcomes
  PROVE  /\ Behind(p, r).status = r.status
         /\ r.status = "OK" => Len(Behind(p, r).text) = Len(p) + Len(r.text)
         /\ r.status # "OK" => Behind(p, r) = r
<1>1. r.text \in Seq(Byte)
  BY OutcomeFacts
<1>2. r.status = "OK" => Behind(p, r).text = p \o r.text /\ Behind(p, r).status = "OK"
  BY DEF Behind, Success
<1>3. Len(p \o r.text) = Len(p) + Len(r.text)
  BY <1>1
<1> QED
  BY <1>2, <1>3 DEF Behind

\* the outcome of one component
CodeOutcome(f, u) ==
  IF f \in Encoders THEN Encoded(u, EncodeComponent(u)) ELSE DecodeComponent(u)

\* an encoder answers with a text or with an error
LEMMA EncodedType ==
  ASSUME NEW s, NEW t \in Seq(Byte)
  PROVE  Encoded(s, t) \in Outcomes
  BY DEF Encoded, Outcomes

\* what is defined for a text is a text or one of the two errors
LEMMA DefinedType ==
  ASSUME NEW f, NEW s \in Seq(Byte)
  PROVE  Defined(f, s) \in Outcomes /\ CodeOutcome(f, s) \in Outcomes
<1>1. EncodeBody(s) \in Seq(Byte) /\ EncodeComponent(s) \in Seq(Byte)
  BY BodyType, EncodeType
<1> QED
  BY <1>1, EncodedType, ComponentOutcomes, BodyOutcomes DEF Defined, CodeOutcome

\* a text that is one component
LEMMA DefinedWhole ==
  ASSUME NEW f \in Encoders \cup Decoders, NEW s \in Seq(Byte), f \in Bodies => Whole(s)
  PROVE  Defined(f, s) = CodeOutcome(f, s)
<1>1. CASE f = "encode_body"
  BY <1>1, BodyWhole DEF Defined, CodeOutcome, Bodies, Encoders
<1>2. CASE f = "decode_body"
  BY <1>2, DecodeWhole DEF Defined, CodeOutcome, Bodies, Encoders
<1>3. CASE f \notin Bodies
  BY <1>3 DEF Defined, CodeOutcome, Bodies, Encoders
<1> QED
  BY <1>1, <1>2, <1>3 DEF Bodies

\* a body that begins with a component and a separator
LEMMA DefinedFirst ==
  ASSUME NEW f \in Bodies, NEW u \in Seq(Byte), NEW v \in Seq(Byte), Leads(u)
  PROVE  Defined(f, (u \o Separator) \o v) =
           IF CodeOutcome(f, u).status = "OK"
           THEN Behind(CodeOutcome(f, u).text \o Separator, Defined(f, v))
           ELSE CodeOutcome(f, u)
<1> DEFINE s == (u \o Separator) \o v
<1>1. CASE f = "encode_body"
  <2> DEFINE e == EncodeComponent(u)
             b == EncodeBody(v)
  <2>1. EncodeBody(s) = (e \o Separator) \o b
    BY BodyFirst
  <2>2. Utf8Validate(s) = (Utf8Validate(u) /\ Utf8Validate(v))
    BY ValidAround
  <2>3. /\ Defined(f, s) = Encoded(s, EncodeBody(s))
        /\ Defined(f, v) = Encoded(v, b)
        /\ CodeOutcome(f, u) = Encoded(u, e)
    BY <1>1 DEF Defined, CodeOutcome, Encoders
  <2> HIDE DEF s, e, b
  <2>4. CASE ~Utf8Validate(u)
    <3>1. ~Utf8Validate(s)
      BY <2>2, <2>4
    <3>2. Defined(f, s) = Failure("INVALID_UTF8") /\ CodeOutcome(f, u) = Failure("INVALID_UTF8")
      BY <2>3, <2>4, <3>1 DEF Encoded
    <3> QED
      BY <3>2 DEF Failure, s
  <2>5. CASE Utf8Validate(u) /\ ~Utf8Validate(v)
    <3>1. ~Utf8Validate(s)
      BY <2>2, <2>5
    <3>2. /\ Defined(f, s) = Failure("INVALID_UTF8") /\ Defined(f, v) = Failure("INVALID_UTF8")
          /\ CodeOutcome(f, u) = Success(e)
      BY <2>3, <2>5, <3>1 DEF Encoded
    <3> QED
      BY <3>2 DEF Behind, Success, Failure, s
  <2>6. CASE Utf8Validate(u) /\ Utf8Validate(v)
    <3>1. Utf8Validate(s)
      BY <2>2, <2>6
    <3>2. /\ Defined(f, s) = Success((e \o Separator) \o b) /\ Defined(f, v) = Success(b)
          /\ CodeOutcome(f, u) = Success(e)
      BY <2>1, <2>3, <2>6, <3>1 DEF Encoded
    <3> QED
      BY <3>2 DEF Behind, Success, s
  <2> QED
    BY <2>4, <2>5, <2>6
<1>2. CASE f = "decode_body"
  BY <1>2, DecodeFirst DEF Defined, CodeOutcome, Encoders
<1> QED
  BY <1>1, <1>2 DEF Bodies
-----------------------------------------------------------------------------
\* what is defined for the text from offset p on
RestOutcome(p) == Defined(fn, Slice(input, p, Len(input)))

\* what is left gives, behind what is stored, what is defined for the text
RestInv ==
  pc # "done" =>
    Defined(fn, input) = Behind(Bytes(out, 0, outLen), RestOutcome(segmentStart))

\* no separator has been passed
PassedInv ==
  pc \notin {"enter", "done"} =>
    IF fn \in Bodies
    THEN \A q \in (segmentStart + 1)..i : q < Len(input) => ~IsSeparator(input, q)
    ELSE segmentStart = 0 /\ i = Len(input)

\* the component ends where the scanner has stopped
FoundInv == pc \in {"emit", "take", "hex", "append"} => i = Len(input) \/ AtSeparator

\* what the encoder has stored of the component is what it has passed, encoded
EmittedInv ==
  pc = "emit" =>
    /\ Utf8Validate(Component)
    /\ Payload = EncodeComponent(Slice(input, segmentStart, Consumed))

\* the decoder has stored the beginning of what the component decodes to
TakenInv ==
  pc \in {"take", "hex"} =>
    DecodeTexts(Component) = Prefixed(Payload, DecodeTexts(Slice(input, Consumed, i)))

HexInv == pc = "hex" => At(Consumed) = HYPHEN

PieceInv == pc = "append" => CodeOutcome(fn, Component) = Success(Payload)

\* what has been answered
StatusInv == pc = "done" <=> status # "PENDING"

AnswerInv ==
  pc = "done" =>
    LET r == Defined(fn, input) IN
    /\ status = "OK" => r = Success(Bytes(out, 0, length)) /\ length < cap
    /\ status \in {"INVALID_ESCAPE", "INVALID_UTF8"} => r = Failure(status)
    /\ status = "BUFFER_TOO_SMALL" /\ r.status = "OK" => cap <= Len(r.text)

CodeInv ==
  /\ RestInv /\ PassedInv /\ FoundInv /\ EmittedInv /\ TakenInv /\ HexInv /\ PieceInv
  /\ StatusInv /\ AnswerInv

-----------------------------------------------------------------------------
\* sizes and the buffer, from the invariant
LEMMA SizesOf ==
  ASSUME Inv
  PROVE  /\ fn \in Encoders \cup Decoders /\ input \in Seq(Byte) /\ Len(input) \in Nat
         /\ i \in 0..Len(input) /\ segmentStart \in 0..i /\ k \in Nat
         /\ outLen \in Nat /\ len \in Nat /\ cap \in Nat
         /\ out \in [DOMAIN out -> Byte] /\ DOMAIN out \subseteq Nat
  BY SizeAssumption DEF Inv, TypeOK

\* A component has been found: what is defined for the text from its start on is
\* the component's error, or what it is coded to and what is defined for the rest.
LEMMA ComponentFound ==
  ASSUME Inv, PassedInv, pc \notin {"enter", "done"}, i = Len(input) \/ AtSeparator
  PROVE  /\ Component \in Seq(Byte) /\ CodeOutcome(fn, Component) \in Outcomes
         /\ RestOutcome(segmentStart) \in Outcomes
         /\ ~AtSeparator => RestOutcome(segmentStart) = CodeOutcome(fn, Component)
         /\ AtSeparator =>
              /\ fn \in Bodies /\ i + 2 <= Len(input) /\ RestOutcome(i + 2) \in Outcomes
              /\ RestOutcome(segmentStart) =
                   IF CodeOutcome(fn, Component).status = "OK"
                   THEN Behind(CodeOutcome(fn, Component).text \o Separator, RestOutcome(i + 2))
                   ELSE CodeOutcome(fn, Component)
<1> DEFINE s == input
           n == Len(input)
           a == segmentStart
           u == Slice(s, a, i)
<1>1. /\ fn \in Encoders \cup Decoders /\ s \in Seq(Byte) /\ n \in Nat /\ n = Len(s)
      /\ i \in Nat /\ i <= n /\ a \in Nat /\ a <= i /\ a <= n
  BY SizesOf
<1>2. Component = u
  BY DEF Component, Slice
<1> HIDE DEF s, n, a
<1>3. u \in Seq(Byte) /\ Slice(s, a, n) \in Seq(Byte)
  <2>1. i <= Len(s) /\ n <= Len(s)
    BY <1>1
  <2>2. u \in Seq(Byte)
    BY <1>1, <2>1, SliceType
  <2>3. Slice(s, a, n) \in Seq(Byte)
    BY <1>1, <2>1, SliceType
  <2> QED
    BY <2>2, <2>3
<1>4. RestOutcome(a) = Defined(fn, Slice(s, a, n))
  BY DEF RestOutcome, s, n
<1>5. CodeOutcome(fn, u) \in Outcomes /\ RestOutcome(a) \in Outcomes
  BY <1>3, <1>4, DefinedType
<1>6. CASE ~AtSeparator
  <2>1. i = n
    BY <1>6 DEF n
  <2>2. ASSUME fn \in Bodies PROVE Whole(u)
    <3>1. \A q \in (a + 1)..(n - 1) : ~IsSeparator(s, q)
      <4> TAKE q \in (a + 1)..(n - 1)
      <4>1. q \in (a + 1)..i /\ q < n
        BY <1>1, <2>1
      <4> QED
        BY <2>2, <4>1 DEF PassedInv, a, n, s
    <3> QED
      BY <1>1, <2>1, <3>1, CutAtEnd
  <2>3. Defined(fn, u) = CodeOutcome(fn, u)
    <3> HIDE DEF u
    <3> QED
      BY <1>1, <1>3, <2>2, DefinedWhole
  <2> QED
    BY <1>2, <1>3, <1>4, <1>5, <1>6, <2>1, <2>3 DEF a
<1>7. CASE AtSeparator
  <2>1. i + 1 < n /\ s[i + 1] = HYPHEN /\ s[(i + 1) + 1] = HYPHEN
    BY <1>1, <1>7 DEF AtSeparator, At, n, s
  <2>2. i + 2 <= n /\ i + 2 \in Nat
    BY <1>1, <2>1
  <2>3. fn \in Bodies
    BY <1>1, <2>1 DEF PassedInv, n
  <2>4. \A q \in (a + 1)..i : ~IsSeparator(s, q)
    <3> TAKE q \in (a + 1)..i
    <3>1. q < n
      BY <1>1, <2>1
    <3> QED
      BY <2>3, <3>1 DEF PassedInv, a, n, s
  <2>5. IsSeparator(s, i + 1)
    BY <2>1 DEF IsSeparator
  <2> DEFINE v == Slice(s, i + 2, n)
  <2>6. Leads(u) /\ Slice(s, a, n) = (u \o Separator) \o v
    BY <1>1, <2>2, <2>4, <2>5, CutAtSeparator
  <2>7. v \in Seq(Byte)
    <3> DEFINE e == i + 2
    <3>1. e \in Nat /\ e <= n /\ n <= Len(s)
      BY <1>1, <2>2
    <3> HIDE DEF e
    <3>2. Slice(s, e, n) \in Seq(Byte)
      BY <1>1, <3>1, SliceType
    <3> QED
      BY <3>2 DEF e
  <2>8. RestOutcome(i + 2) = Defined(fn, v)
    BY DEF RestOutcome, s, n
  <2> HIDE DEF u, v
  <2>9. Defined(fn, v) \in Outcomes
    BY <2>7, DefinedType
  <2>10. Defined(fn, (u \o Separator) \o v) =
           IF CodeOutcome(fn, u).status = "OK"
           THEN Behind(CodeOutcome(fn, u).text \o Separator, Defined(fn, v))
           ELSE CodeOutcome(fn, u)
    BY <1>3, <2>3, <2>6, <2>7, DefinedFirst
  <2> QED
    BY <1>2, <1>3, <1>4, <1>5, <1>7, <2>2, <2>3, <2>6, <2>8, <2>9, <2>10 DEF a, n
<1> QED
  BY <1>6, <1>7

\* what has been stored before the component is being coded
LEMMA StoredBefore ==
  ASSUME Inv, pc \notin {"enter", "done"}
  PROVE  Bytes(out, 0, outLen) \in Seq(Byte) /\ Len(Bytes(out, 0, outLen)) = outLen
<1>1. /\ outLen \in Nat /\ len \in Nat
      /\ out \in [DOMAIN out -> Byte]
  BY SizesOf
<1>2. 0..(outLen - 1) \subseteq DOMAIN out
  <2>1. CASE pc = "scan"
    BY <2>1 DEF Inv, ScanInv
  <2>2. CASE pc \in {"emit", "take", "hex"}
    <3>1. 0..(Written - 1) \subseteq DOMAIN out
      BY <2>2 DEF Inv, LoopInv
    <3> QED
      BY <1>1, <3>1 DEF Written
  <2>3. CASE pc = "append"
    <3>1. 0..(outLen + len) \subseteq DOMAIN out
      BY <2>3 DEF Inv, AppendInv, Written
    <3> QED
      BY <1>1, <3>1
  <2> QED
    BY <2>1, <2>2, <2>3 DEF Inv, TypeOK
<1> DEFINE a == 0
<1>3. a \in Nat /\ a..(a + outLen - 1) \subseteq DOMAIN out
  BY <1>1, <1>2
<1> HIDE DEF a
<1>4. Bytes(out, a, outLen) \in Seq(Byte) /\ Len(Bytes(out, a, outLen)) = outLen
  BY <1>1, <1>3, BytesType
<1> QED
  BY <1>4 DEF a

\* The error of a component is the error of the call.
LEMMA ErrorOfComponent ==
  ASSUME Inv, PassedInv, RestInv, pc \notin {"enter", "done"}, i = Len(input) \/ AtSeparator,
         CodeOutcome(fn, Component).status # "OK"
  PROVE  Defined(fn, input) = CodeOutcome(fn, Component)
<1> DEFINE p == Bytes(out, 0, outLen)
           c == CodeOutcome(fn, Component)
<1>1. c \in Outcomes /\ RestOutcome(segmentStart) = c
  BY ComponentFound
<1>2. Defined(fn, input) = Behind(p, c)
  BY <1>1 DEF RestInv
<1>3. p \in Seq(Byte)
  BY StoredBefore
<1> HIDE DEF p, c
<1>4. c.status # "OK"
  BY DEF c
<1> QED
  BY <1>1, <1>2, <1>3, <1>4, BehindType DEF c

\* What a component is coded to is at most as long as the whole.
LEMMA LengthOfComponent ==
  ASSUME Inv, PassedInv, RestInv, pc \notin {"enter", "done"}, i = Len(input) \/ AtSeparator,
         NEW m \in Nat,
         CodeOutcome(fn, Component).status = "OK" => m <= Len(CodeOutcome(fn, Component).text),
         Defined(fn, input).status = "OK"
  PROVE  /\ outLen + m <= Len(Defined(fn, input).text)
         /\ AtSeparator => outLen + (m + 2) <= Len(Defined(fn, input).text)
<1> DEFINE p == Bytes(out, 0, outLen)
           c == CodeOutcome(fn, Component)
           r == RestOutcome(segmentStart)
           d == Defined(fn, input)
<1>1. p \in Seq(Byte) /\ Len(p) = outLen /\ outLen \in Nat
  BY StoredBefore, SizesOf
<1>2. c \in Outcomes /\ r \in Outcomes /\ (~AtSeparator => r = c)
  BY ComponentFound
<1>3. d = Behind(p, r)
  BY DEF RestInv
<1>4. c.status = "OK" => m <= Len(c.text)
  OBVIOUS
<1>5. d.status = "OK"
  OBVIOUS
<1>6. AtSeparator => /\ RestOutcome(i + 2) \in Outcomes
                     /\ r = IF c.status = "OK" THEN Behind(c.text \o Separator, RestOutcome(i + 2)) ELSE c
  BY ComponentFound
<1> DEFINE t == RestOutcome(i + 2)
<1> HIDE DEF p, c, r, d, t
<1>7. r.status = "OK" /\ Len(d.text) = outLen + Len(r.text) /\ Len(r.text) \in Nat
  <2>1. r.status = "OK" /\ Len(d.text) = outLen + Len(r.text)
    BY <1>1, <1>2, <1>3, <1>5, BehindType
  <2>2. r.text \in Seq(Byte)
    BY <1>2, OutcomeFacts
  <2> QED
    BY <2>1, <2>2
<1>8. CASE ~AtSeparator
  <2>1. m <= Len(r.text)
    BY <1>2, <1>4, <1>7, <1>8
  <2> QED
    BY <1>1, <1>7, <1>8, <2>1 DEF d
<1>9. CASE AtSeparator
  <2>1. c.status = "OK"
    BY <1>6, <1>7, <1>9
  <2>2. r = Behind(c.text \o Separator, t) /\ t \in Outcomes
    BY <1>6, <1>9, <2>1 DEF t
  <2>3. c.text \in Seq(Byte) /\ t.text \in Seq(Byte)
    BY <1>2, <2>2, OutcomeFacts
  <2> DEFINE x == c.text
             y == x \o Separator
  <2>4. y \in Seq(Byte) /\ Len(y) = Len(x) + 2 /\ Len(x) \in Nat /\ Len(t.text) \in Nat
    <3>1. x \in Seq(Byte)
      BY <2>3
    <3> HIDE DEF x
    <3>2. y \in Seq(Byte) /\ Len(y) = Len(x) + 2
      BY <3>1, AroundSeparator
    <3> QED
      BY <2>3, <3>1, <3>2
  <2> HIDE DEF y
  <2>5. r = Behind(y, t)
    BY <2>2 DEF y
  <2>6. Len(r.text) = Len(y) + Len(t.text)
    BY <1>7, <2>2, <2>4, <2>5, BehindType
  <2>7. m + 2 <= Len(r.text)
    <3>1. m <= Len(x)
      BY <1>4, <2>1
    <3> DEFINE a == Len(x)
               b == Len(t.text)
    <3>2. a \in Nat /\ b \in Nat /\ m <= a /\ Len(r.text) = (a + 2) + b
      BY <2>4, <2>6, <3>1
    <3> HIDE DEF a, b
    <3> QED
      BY <3>2
  <2> QED
    BY <1>1, <1>7, <2>7 DEF d
<1> QED
  BY <1>8, <1>9

\* A call that returns an error.
LEMMA DoneStep ==
  ASSUME Inv, CodeInv, pc' = "done", UNCHANGED <<fn, input, cap>>,
         status' \in {"BUFFER_TOO_SMALL", "INVALID_ESCAPE", "INVALID_UTF8"},
         status' # "BUFFER_TOO_SMALL" => Defined(fn, input) = Failure(status'),
         status' = "BUFFER_TOO_SMALL" /\ Defined(fn, input).status = "OK" =>
           cap <= Len(Defined(fn, input).text)
  PROVE  CodeInv'
<1>1. Defined(fn, input)' = Defined(fn, input)
  BY DEF Defined
<1>2. StatusInv' /\ AnswerInv'
  BY <1>1 DEF StatusInv, AnswerInv
<1>3. PassedInv' /\ FoundInv' /\ EmittedInv' /\ TakenInv' /\ HexInv' /\ PieceInv' /\ RestInv'
  BY DEF PassedInv, FoundInv, EmittedInv, TakenInv, HexInv, PieceInv, RestInv
<1> QED
  BY <1>2, <1>3 DEF CodeInv

\* Nothing is stored of a call that starts, and all of the text is left.
LEMMA CodeFresh == Fresh => CodeInv
<1> SUFFICES ASSUME Fresh PROVE CodeInv
  OBVIOUS
<1>1. input \in Seq(Byte) /\ outLen = 0 /\ segmentStart = 0 /\ pc = "enter" /\ status = "PENDING"
  BY DEF Fresh
<1>2. Bytes(out, 0, outLen) = <<>>
  BY <1>1 DEF Bytes
<1>3. RestOutcome(segmentStart) = Defined(fn, input)
  BY <1>1, SliceAll DEF RestOutcome
<1>4. RestInv
  BY <1>1, <1>2, <1>3, DefinedType, BehindNothing DEF RestInv
<1> QED
  BY <1>1, <1>4 DEF CodeInv, PassedInv, FoundInv, EmittedInv, TakenInv, HexInv, PieceInv,
                    StatusInv, AnswerInv

\* The first call starts in the invariant.
LEMMA CodeInit == Init => CodeInv
  BY InitIsFresh, CodeFresh

\* Enter: everything is left to do, and no position has been passed.
LEMMA EnterCode ==
  ASSUME Inv, CodeInv, Enter
  PROVE  CodeInv'
<1>1. /\ pc = "enter" /\ segmentStart = 0
      /\ UNCHANGED <<fn, input, cap, segmentStart, outLen, k, len, out, length>>
  BY DEF Enter, Inv, EnterInv, call, inner
<1>2. CASE RefusesBuffer
  <2>1. pc' = "done" /\ status' = "BUFFER_TOO_SMALL" /\ cap = 0
    BY <1>2 DEF Enter, RefusesBuffer, Return
  <2>2. Defined(fn, input).text \in Seq(Byte)
    BY SizesOf, DefinedType, OutcomeFacts
  <2> DEFINE d == Defined(fn, input).text
  <2> HIDE DEF d
  <2>3. 0 <= Len(d)
    BY <2>2 DEF d
  <2> QED
    BY <1>1, <2>1, <2>3, DoneStep DEF d
<1>3. CASE ~RefusesBuffer
  <2>1. pc' = "scan" /\ status' = status /\ i' = IF fn \in Bodies THEN 0 ELSE Len(input)
    BY <1>3 DEF Enter
  <2>2. RestInv'
    BY <1>1 DEF CodeInv, RestInv, RestOutcome, Defined, Bytes
  <2>3. PassedInv'
    BY <1>1, <2>1 DEF PassedInv
  <2> QED
    BY <1>1, <2>1, <2>2, <2>3
    DEF CodeInv, FoundInv, EmittedInv, TakenInv, HexInv, PieceInv, StatusInv, AnswerInv
<1> QED
  BY <1>2, <1>3

\* Scan: the position that is passed is not at a separator.
LEMMA ScanCode ==
  ASSUME Inv, CodeInv, Scan
  PROVE  CodeInv'
<1>1. /\ pc = "scan" /\ pc' = "scan" /\ i < Len(input) /\ i' = i + 1 /\ ~AtSeparator
      /\ UNCHANGED <<fn, input, cap, segmentStart, outLen, k, len, out, status, length>>
  BY DEF Scan, call, inner, result
<1>2. RestInv'
  BY <1>1 DEF CodeInv, RestInv, RestOutcome, Defined, Bytes
<1>3. PassedInv'
  <2>1. /\ i \in Nat /\ segmentStart \in Nat /\ Len(input) \in Nat
        /\ PassedInv
    BY SizesOf DEF CodeInv
  <2>2. fn \in Bodies
    BY <1>1, <2>1 DEF PassedInv
  <2>3. ASSUME NEW q \in (segmentStart + 1)..(i + 1), q < Len(input)
        PROVE  ~IsSeparator(input, q)
    <3>1. CASE q \in (segmentStart + 1)..i
      BY <1>1, <2>1, <2>2, <2>3, <3>1 DEF PassedInv
    <3>2. CASE q = i + 1
      BY <1>1, <2>1, <2>3, <3>2 DEF AtSeparator, At, IsSeparator
    <3> QED
      BY <2>1, <3>1, <3>2
  <2> QED
    BY <1>1, <2>2, <2>3 DEF PassedInv
<1> QED
  BY <1>1, <1>2, <1>3
  DEF CodeInv, FoundInv, EmittedInv, TakenInv, HexInv, PieceInv, StatusInv, AnswerInv

\* A step inside a component keeps what holds around the component.
LEMMA InsideStep ==
  ASSUME Inv, CodeInv, pc \in {"scan", "emit", "take", "hex"},
         pc' \in {"emit", "take", "hex", "append"},
         i = Len(input) \/ AtSeparator,
         UNCHANGED <<fn, input, cap, i, segmentStart, outLen, status>>,
         Bytes(out', 0, outLen) = Bytes(out, 0, outLen),
         EmittedInv', TakenInv', HexInv', PieceInv'
  PROVE  CodeInv'
<1>1. RestInv'
  <2>1. Defined(fn, input)' = Defined(fn, input) /\ RestOutcome(segmentStart)' = RestOutcome(segmentStart)
    BY DEF Defined, RestOutcome
  <2> QED
    BY <2>1 DEF CodeInv, RestInv
<1>2. PassedInv' /\ FoundInv' /\ StatusInv' /\ AnswerInv'
  <2>1. AtSeparator' = AtSeparator
    BY DEF AtSeparator, At
  <2> QED
    BY <2>1 DEF CodeInv, PassedInv, FoundInv, StatusInv, AnswerInv
<1> QED
  BY <1>1, <1>2 DEF CodeInv

\* BeginComponent: nothing is stored of the component, all of it is left.
LEMMA BeginCode ==
  ASSUME Inv, CodeInv, BeginComponent
  PROVE  CodeInv'
<1>1. /\ pc = "scan" /\ (i = Len(input) \/ AtSeparator) /\ k' = 0 /\ len' = 0
      /\ UNCHANGED <<fn, input, cap, i, segmentStart, outLen, out, length>>
  BY DEF BeginComponent, call, outer
<1>2. Component \in Seq(Byte)
  BY <1>1, ComponentFound DEF CodeInv
<1>3. CASE fn \in Encoders /\ ~Utf8Validate(Component)
  <2>1. pc' = "done" /\ status' = "INVALID_UTF8"
    BY <1>3 DEF BeginComponent, Return
  <2>2. CodeOutcome(fn, Component) = Failure("INVALID_UTF8")
    BY <1>3 DEF CodeOutcome, Encoded
  <2>3. Failure("INVALID_UTF8").status # "OK"
    BY DEF Failure
  <2>4. Defined(fn, input) = Failure("INVALID_UTF8")
    BY <1>1, <2>2, <2>3, ErrorOfComponent DEF CodeInv
  <2> QED
    BY <1>1, <2>1, <2>4, DoneStep
<1>4. CASE ~(fn \in Encoders /\ ~Utf8Validate(Component))
  <2>1. pc' = (IF fn \in Encoders THEN "emit" ELSE "take") /\ status' = status
    BY <1>4 DEF BeginComponent
  <2>2. /\ input \in Seq(Byte) /\ segmentStart \in Nat /\ i \in Nat /\ i <= Len(input)
        /\ segmentStart <= i /\ outLen \in Nat
    BY SizesOf
  <2>3. Consumed' = segmentStart /\ Payload' = <<>> /\ Component' = Component
    BY <1>1, <2>2 DEF Consumed, Payload, Component
  <2>4. EmittedInv'
    <3>1. Slice(input, segmentStart, segmentStart) = <<>>
      BY <2>2, SliceEmpty
    <3> QED
      BY <1>1, <1>4, <2>1, <2>3, <3>1, EncodeEmpty DEF EmittedInv
  <2>5. TakenInv'
    <3>1. DecodeTexts(Component) = Prefixed(<<>>, DecodeTexts(Component))
      BY <1>2, DecodeTextsType, PrefixedNone
    <3>2. Component = Slice(input, segmentStart, i)
      BY DEF Component, Slice
    <3> QED
      BY <1>1, <2>3, <3>1, <3>2 DEF TakenInv
  <2>6. HexInv' /\ PieceInv'
    BY <2>1 DEF HexInv, PieceInv
  <2> QED
    BY <1>1, <2>1, <2>4, <2>5, <2>6, InsideStep
<1> QED
  BY <1>3, <1>4

\* what has been stored of the component
LEMMA PayloadType ==
  ASSUME Inv, pc \in {"emit", "take", "hex", "append"}
  PROVE  /\ Payload \in Seq(Byte) /\ Len(Payload) = len /\ Payload = Bytes(out, outLen, len)
         /\ 0..(outLen + len - 1) \subseteq DOMAIN out
         /\ 0..(outLen - 1) \subseteq DOMAIN out
<1>1. /\ outLen \in Nat /\ len \in Nat /\ out \in [DOMAIN out -> Byte]
  BY SizesOf
<1>2. 0..(outLen + len - 1) \subseteq DOMAIN out
  <2>1. CASE pc \in {"emit", "take", "hex"}
    <3>1. 0..(Written - 1) \subseteq DOMAIN out
      BY <2>1 DEF Inv, LoopInv
    <3> QED
      BY <1>1, <3>1 DEF Written
  <2>2. CASE pc = "append"
    <3>1. 0..Written \subseteq DOMAIN out
      BY <2>2 DEF Inv, AppendInv
    <3>2. 0..(outLen + len - 1) \subseteq 0..(outLen + len)
      BY <1>1
    <3> QED
      BY <3>1, <3>2 DEF Written
  <2> QED
    BY <2>1, <2>2
<1>3. 0..(outLen - 1) \subseteq DOMAIN out /\ outLen..(outLen + len - 1) \subseteq DOMAIN out
  <2>1. /\ 0..(outLen - 1) \subseteq 0..(outLen + len - 1)
        /\ outLen..(outLen + len - 1) \subseteq 0..(outLen + len - 1)
    BY <1>1
  <2> QED
    BY <1>2, <2>1
<1>4. Payload = Bytes(out, outLen, len)
  BY DEF Payload, Bytes
<1>5. Bytes(out, outLen, len) \in Seq(Byte) /\ Len(Bytes(out, outLen, len)) = len
  BY <1>1, <1>3, BytesType
<1> QED
  BY <1>2, <1>3, <1>4, <1>5

\* What is stored behind the component so far leaves all before it in place, and
\* is appended to the component if it is counted.
LEMMA StoredBehind ==
  ASSUME Inv, pc \in {"emit", "take", "hex", "append"},
         NEW bytes \in Seq(Byte), Store(bytes, outLen + len)
  PROVE  /\ Bytes(out', 0, outLen) = Bytes(out, 0, outLen)
         /\ Bytes(out', outLen, len) = Payload
         /\ Bytes(out', outLen, len + Len(bytes)) = Payload \o bytes
<1> DEFINE n == outLen + len
           m == Len(bytes)
<1>1. /\ outLen \in Nat /\ len \in Nat /\ n \in Nat /\ m \in Nat
      /\ out \in [DOMAIN out -> Byte] /\ DOMAIN out \subseteq Nat
  BY SizesOf
<1>2. /\ Payload = Bytes(out, outLen, len)
      /\ 0..(outLen + len - 1) \subseteq DOMAIN out
      /\ 0..(0 + outLen - 1) \subseteq DOMAIN out
      /\ outLen..(outLen + len - 1) \subseteq DOMAIN out
  BY <1>1, PayloadType
<1>3. /\ Bytes(out', n, m) = bytes
      /\ \A a, c \in Nat : a + c <= n /\ a..(a + c - 1) \subseteq DOMAIN out =>
           Bytes(out', a, c) = Bytes(out, a, c)
  BY <1>1, BytesStored
<1>4. Bytes(out', 0, outLen) = Bytes(out, 0, outLen)
  <2>1. 0 \in Nat /\ 0 + outLen <= n
    BY <1>1
  <2> QED
    BY <1>1, <1>2, <1>3, <2>1
<1>5. Bytes(out', outLen, len) = Payload
  BY <1>1, <1>2, <1>3
<1>6. /\ out' \in [DOMAIN out' -> Byte]
      /\ DOMAIN out' = DOMAIN out \cup n..(n + m - 1)
  BY <1>1, StoreFacts
<1>7. Bytes(out', outLen, len + m) = Bytes(out', outLen, len) \o Bytes(out', outLen + len, m)
  <2> DEFINE t == len + m
             e == outLen + len + m
             o == out'
  <2>1. IsBuffer(o)
    BY <1>6 DEF IsBuffer
  <2>2. Covers(o, outLen, e)
    <3>1. outLen..(e - 1) \subseteq (outLen..(outLen + len - 1)) \cup (n..(n + m - 1))
      BY <1>1
    <3>2. DOMAIN o = DOMAIN out \cup n..(n + m - 1)
      BY <1>6
    <3> HIDE DEF o, e
    <3>3. outLen..(e - 1) \subseteq DOMAIN o
      BY <1>2, <3>1, <3>2
    <3> QED
      BY <3>3 DEF Covers
  <2>3. /\ t = len + m /\ n = outLen + len /\ e = outLen + len + m
        /\ outLen \in Nat /\ len \in Nat /\ m \in Nat
    BY <1>1
  <2> HIDE DEF m, t, n, e, o
  <2>4. Bytes(o, outLen, t) = Bytes(o, outLen, len) \o Bytes(o, n, m)
    BY <2>1, <2>2, <2>3, BytesConcat
  <2> QED
    BY <2>4 DEF t, n, o
<1> QED
  BY <1>3, <1>4, <1>5, <1>7

\* The two outcomes of AppendByte.
LEMMA AppendCode ==
  ASSUME Inv, CodeInv, pc \in {"emit", "take", "hex"}, k < ComponentLen,
         NEW bytes \in Seq(Byte), Len(bytes) <= 3,
         NEW consumed \in 1..3, NEW loop \in {"emit", "take"},
         AppendByte(bytes, consumed, loop), UNCHANGED <<call, outer, length>>,
         CodeOutcome(fn, Component).status = "OK" =>
           len + Len(bytes) <= Len(CodeOutcome(fn, Component).text),
         EmittedInv', TakenInv', HexInv', PieceInv'
  PROVE  CodeInv'
<1>1. /\ len \in Nat /\ outLen \in Nat /\ cap \in Nat /\ Len(bytes) \in Nat
      /\ UNCHANGED <<fn, input, cap, i, segmentStart, outLen, length>>
      /\ i = Len(input) \/ AtSeparator
  BY SizesOf DEF call, outer, CodeInv, FoundInv
<1>2. CASE Fits(len, Len(bytes), Room)
  <2>1. Store(bytes, outLen + len) /\ pc' = loop /\ status' = status
    BY <1>2 DEF AppendByte
  <2>2. Bytes(out', 0, outLen) = Bytes(out, 0, outLen)
    BY <2>1, StoredBehind
  <2> QED
    BY <1>1, <2>1, <2>2, InsideStep
<1>3. CASE ~Fits(len, Len(bytes), Room)
  <2>1. pc' = "done" /\ status' = "BUFFER_TOO_SMALL"
    BY <1>3 DEF AppendByte, Return
  <2>2. cap <= outLen + (len + Len(bytes))
    <3>1. ~(Written + Len(bytes) < cap)
      BY <1>1, <1>3, FitsIsRoomInBuffer
    <3> QED
      BY <1>1, <3>1 DEF Written
  <2> DEFINE d == Defined(fn, input)
             m == len + Len(bytes)
  <2>3. ASSUME d.status = "OK" PROVE cap <= Len(d.text)
    <3>1. m \in Nat
      BY <1>1
    <3>2. CodeOutcome(fn, Component).status = "OK" => m <= Len(CodeOutcome(fn, Component).text)
      OBVIOUS
    <3> HIDE DEF m
    <3>3. outLen + m <= Len(d.text)
      BY <1>1, <2>3, <3>1, <3>2, LengthOfComponent DEF CodeInv
    <3>4. d.text \in Seq(Byte)
      BY SizesOf, DefinedType, OutcomeFacts
    <3> DEFINE t == Len(d.text)
    <3>5. t \in Nat
      BY <3>4
    <3> HIDE DEF t, d
    <3>6. cap <= t
      BY <1>1, <2>2, <3>1, <3>3, <3>5 DEF m, t
    <3> QED
      BY <3>6 DEF t
  <2> QED
    BY <1>1, <2>1, <2>3, DoneStep
<1> QED
  BY <1>2, <1>3

\* where the loops are in the text
LEMMA LoopPlace ==
  ASSUME Inv, pc \in {"emit", "take", "hex"}
  PROVE  /\ input \in Seq(Byte) /\ Len(input) \in Nat
         /\ segmentStart \in Nat /\ i \in Nat /\ i <= Len(input) /\ k \in Nat
         /\ Consumed = segmentStart + k /\ Consumed \in Nat
         /\ segmentStart <= Consumed /\ Consumed <= i
         /\ k < ComponentLen <=> Consumed + 1 <= i
         /\ k >= ComponentLen <=> Consumed = i
         /\ k + 3 <= ComponentLen <=> Consumed + 3 <= i
         /\ Component = Slice(input, segmentStart, i)
<1>1. /\ input \in Seq(Byte) /\ Len(input) \in Nat
      /\ i \in 0..Len(input) /\ segmentStart \in 0..i /\ k \in Nat
  BY SizesOf
<1>2. k <= i - segmentStart
  BY DEF Inv, LoopInv, ComponentLen
<1> QED
  BY <1>1, <1>2 DEF Consumed, ComponentLen, Component, Slice

\* Emit: the next byte is encoded behind those before it.
LEMMA EmitCode ==
  ASSUME Inv, CodeInv, Emit
  PROVE  CodeInv'
<1> DEFINE a == segmentStart
           c == Consumed
           b == input[c + 1]
           bytes == EncodeByte(Canonical(b))
           e == EncodeComponent(Component)
<1>1. /\ pc = "emit" /\ k < ComponentLen /\ fn \in Encoders
      /\ UNCHANGED <<call, outer, length>>
  BY DEF Emit, Inv, LoopInv
<1>2. /\ input \in Seq(Byte) /\ a \in Nat /\ i \in Nat /\ i <= Len(input) /\ Len(input) \in Nat
      /\ c = segmentStart + k /\ c \in Nat /\ a <= c /\ c + 1 <= i
      /\ Component = Slice(input, a, i) /\ k \in Nat
  BY <1>1, LoopPlace
<1>3. b \in Byte /\ Slice(input, c, c + 1) = <<b>>
  <2>1. c + 1 <= Len(input)
    BY <1>2
  <2> HIDE DEF c
  <2> QED
    BY <1>2, <2>1, SliceSingle
<1>4. At(segmentStart + k) = b
  BY <1>2 DEF At
<1>5. AppendByte(bytes, 1, "emit")
  BY <1>4 DEF Emit
<1>6. bytes \in Seq(Byte) /\ Len(bytes) \in Nat /\ Len(bytes) <= 3
  <2>1. Canonical(b) \in Byte
    BY <1>3, CanonicalByte
  <2>2. bytes \in Seq(Byte) /\ Len(bytes) \in {1, 3}
    BY <2>1, EncodeByteType
  <2> DEFINE x == Len(bytes)
  <2>3. x \in {1, 3}
    BY <2>2
  <2> HIDE DEF x
  <2>4. x \in Nat /\ x <= 3
    BY <2>3
  <2> HIDE DEF bytes
  <2> QED
    BY <2>2, <2>4 DEF x
<1>7. /\ Utf8Validate(Component)
      /\ Payload = EncodeComponent(Slice(input, a, c))
      /\ Payload \in Seq(Byte) /\ Len(Payload) = len /\ len \in Nat
  BY <1>1, PayloadType, SizesOf DEF CodeInv, EmittedInv
<1> HIDE DEF a, c
<1>8. EncodeComponent(Slice(input, a, c + 1)) = Payload \o bytes
  <2> DEFINE u == Slice(input, a, c)
             v == <<b>>
  <2>1. u \in Seq(Byte) /\ v \in Seq(Byte)
    <3>1. c <= Len(input)
      BY <1>2
    <3> QED
      BY <1>2, <1>3, <3>1, SliceType
  <2>2. Slice(input, a, c + 1) = u \o v
    <3> DEFINE d == c + 1
    <3>1. d \in Nat /\ c <= d /\ d <= Len(input)
      BY <1>2
    <3>2. Slice(input, c, d) = v
      BY <1>3
    <3>3. input \in Seq(Byte) /\ a \in Nat /\ c \in Nat /\ a <= c
      BY <1>2
    <3> HIDE DEF d, v
    <3>4. Slice(input, a, d) = Slice(input, a, c) \o Slice(input, c, d)
      BY <3>1, <3>3, SliceConcat
    <3> QED
      BY <3>2, <3>4 DEF d
  <2>3. EncodeComponent(v) = bytes
    BY <1>3, EncodeSingle
  <2> HIDE DEF u, v, bytes
  <2>4. EncodeComponent(u \o v) = EncodeComponent(u) \o EncodeComponent(v)
    BY <2>1, EncodeConcat
  <2> QED
    BY <1>7, <2>2, <2>3, <2>4 DEF u
<1>9. len + Len(bytes) <= Len(e)
  <2> DEFINE u == Slice(input, a, c + 1)
             v == Slice(input, c + 1, i)
  <2>2. u \in Seq(Byte) /\ v \in Seq(Byte) /\ Component = u \o v
    <3> DEFINE d == c + 1
    <3>1. d \in Nat /\ a <= d /\ d <= Len(input) /\ d <= i
      BY <1>2
    <3> HIDE DEF d
    <3>2. Slice(input, a, d) \in Seq(Byte) /\ Slice(input, d, i) \in Seq(Byte)
      BY <1>2, <3>1, SliceType
    <3>4. input \in Seq(Byte) /\ a \in Nat /\ i \in Nat /\ i <= Len(input)
      BY <1>2
    <3>3. Slice(input, a, i) = Slice(input, a, d) \o Slice(input, d, i)
      BY <3>1, <3>4, SliceConcat
    <3> QED
      BY <1>2, <3>2, <3>3 DEF d
  <2> HIDE DEF u, v
  <2>3. e = EncodeComponent(u) \o EncodeComponent(v)
    BY <2>2, EncodeConcat
  <2> DEFINE x == EncodeComponent(u)
             y == EncodeComponent(v)
  <2>4. x \in Seq(Byte) /\ y \in Seq(Byte)
    BY <2>2, EncodeType
  <2>5. x = Payload \o bytes
    BY <1>8 DEF u
  <2> HIDE DEF x, y, e, bytes
  <2>6. Len(x) = len + Len(bytes)
    BY <1>6, <1>7, <2>5
  <2>7. Len(e) = Len(x) + Len(y) /\ Len(y) \in Nat
    BY <2>3, <2>4 DEF x, y
  <2> QED
    BY <1>6, <1>7, <2>6, <2>7
<1>10. CodeOutcome(fn, Component) = Success(e)
  BY <1>1, <1>7 DEF CodeOutcome, Encoded
<1>11. CodeOutcome(fn, Component).text = e
  BY <1>10 DEF Success
<1>12. pc' # "append" /\ pc' # "take" /\ pc' # "hex"
  BY <1>5 DEF AppendByte, Return
<1>13. EmittedInv'
  <2> SUFFICES ASSUME pc' = "emit" PROVE EmittedInv'
    BY DEF EmittedInv
  <2>1. /\ Store(bytes, outLen + len) /\ len' = len + Len(bytes) /\ k' = k + 1
    BY <1>5 DEF AppendByte, Return
  <2>2. /\ UNCHANGED <<fn, input, i, segmentStart, outLen>>
    BY <1>1 DEF call, outer
  <2>3. Bytes(out', outLen, len + Len(bytes)) = Payload \o bytes
    <3> HIDE DEF bytes
    <3> QED
      BY <1>1, <1>6, <2>1, StoredBehind
  <2>4. Payload' = Bytes(out', outLen, len + Len(bytes))
    BY <2>1, <2>2 DEF Payload, Bytes
  <2>5. Consumed' = c + 1 /\ Component' = Component /\ segmentStart' = a
    BY <1>2, <2>1, <2>2 DEF Consumed, Component, c, a
  <2> QED
    BY <1>7, <1>8, <2>2, <2>3, <2>4, <2>5 DEF EmittedInv
<1>14. TakenInv' /\ HexInv' /\ PieceInv'
  BY <1>12 DEF TakenInv, HexInv, PieceInv
<1> HIDE DEF bytes, e
<1> QED
  BY <1>1, <1>5, <1>6, <1>9, <1>11, <1>13, <1>14, AppendCode

\* The component is terminated: what is stored of it stays.
LEMMA TerminateCode ==
  ASSUME Inv, CodeInv, pc \in {"emit", "take"}, Terminate,
         UNCHANGED <<call, outer, inner, length>>,
         CodeOutcome(fn, Component) = Success(Payload)
  PROVE  CodeInv'
<1> DEFINE z == <<NUL>>
<1>1. /\ UNCHANGED <<fn, input, cap, i, segmentStart, outLen, k, len, length>>
      /\ UNCHANGED <<fn, input, cap, i, segmentStart, outLen, status>>
      /\ Store(z, outLen + len) /\ pc' = "append" /\ status' = status
      /\ i = Len(input) \/ AtSeparator
  BY DEF call, outer, inner, Terminate, CodeInv, FoundInv
<1>2. z \in Seq(Byte)
  BY DEF NUL, Byte
<1> HIDE DEF z
<1>3. /\ Bytes(out', 0, outLen) = Bytes(out, 0, outLen)
      /\ Bytes(out', outLen, len) = Payload
  BY <1>1, <1>2, StoredBehind
<1>4. Payload' = Payload /\ Component' = Component
  BY <1>1, <1>3 DEF Payload, Bytes, Component
<1>5. PieceInv' /\ EmittedInv' /\ TakenInv' /\ HexInv'
  BY <1>1, <1>4 DEF PieceInv, EmittedInv, TakenInv, HexInv, CodeOutcome
<1> QED
  BY <1>1, <1>3, <1>5, InsideStep

\* EndEncode: all of the component is encoded.
LEMMA EndEncodeCode ==
  ASSUME Inv, CodeInv, EndEncode
  PROVE  CodeInv'
<1>1. /\ pc = "emit" /\ k >= ComponentLen /\ fn \in Encoders
      /\ UNCHANGED <<call, outer, inner, length>>
  BY DEF EndEncode, Inv, LoopInv
<1>2. /\ Consumed = i /\ Component = Slice(input, segmentStart, i)
  BY <1>1, LoopPlace
<1>3. /\ Utf8Validate(Component) /\ Payload = EncodeComponent(Component)
      /\ Payload \in Seq(Byte) /\ Len(Payload) = len
  BY <1>1, <1>2, PayloadType DEF CodeInv, EmittedInv
<1>4. CodeOutcome(fn, Component) = Success(Payload)
  BY <1>1, <1>3 DEF CodeOutcome, Encoded
<1>5. CASE TerminatorFits
  BY <1>1, <1>4, <1>5, TerminateCode DEF EndEncode
<1>6. CASE ~TerminatorFits
  <2>1. pc' = "done" /\ status' = "BUFFER_TOO_SMALL"
    BY <1>6 DEF EndEncode, Return
  <2>2. /\ UNCHANGED <<fn, input, cap>>
        /\ i = Len(input) \/ AtSeparator
        /\ outLen \in Nat /\ len \in Nat /\ cap \in Nat
    BY <1>1, SizesOf DEF call, CodeInv, FoundInv
  <2>3. cap <= outLen + len
    <3>1. Room = IF cap <= outLen THEN 0 ELSE cap - outLen
      BY <1>1, <2>2 DEF Room, Minus
    <3> QED
      BY <1>6, <2>2, <3>1 DEF TerminatorFits
  <2> DEFINE d == Defined(fn, input)
  <2>4. ASSUME d.status = "OK" PROVE cap <= Len(d.text)
    <3>1. CodeOutcome(fn, Component).status = "OK" => len <= Len(CodeOutcome(fn, Component).text)
      BY <1>3, <1>4, <2>2 DEF Success
    <3>2. outLen + len <= Len(d.text)
      BY <1>1, <2>2, <2>4, <3>1, LengthOfComponent DEF CodeInv
    <3>3. d.text \in Seq(Byte)
      BY SizesOf, DefinedType, OutcomeFacts
    <3> DEFINE t == Len(d.text)
    <3>4. t \in Nat
      BY <3>3
    <3> HIDE DEF t, d
    <3>5. cap <= t
      BY <2>2, <2>3, <3>2, <3>4 DEF t
    <3> QED
      BY <3>5 DEF t
  <2>5. /\ status' \in {"BUFFER_TOO_SMALL", "INVALID_ESCAPE", "INVALID_UTF8"}
        /\ status' # "BUFFER_TOO_SMALL" => Defined(fn, input) = Failure(status')
        /\ status' = "BUFFER_TOO_SMALL" /\ Defined(fn, input).status = "OK" =>
             cap <= Len(Defined(fn, input).text)
        /\ UNCHANGED <<fn, input, cap>> /\ pc' = "done"
    <3>1. d.status = "OK" => cap <= Len(d.text)
      BY <2>4
    <3> QED
      BY <2>1, <2>2, <3>1
  <2> QED
    BY <2>5, DoneStep
<1> QED
  BY <1>5, <1>6

\* A byte is decoded: it stands behind those before it, and the rest is left.
LEMMA TakenCode ==
  ASSUME Inv, CodeInv, pc \in {"take", "hex"}, k < ComponentLen,
         NEW b \in Byte, NEW n \in 1..3, NEW c \in Nat, c = Consumed + n, c <= i,
         DecodeTexts(Slice(input, Consumed, i)) = Before(b, DecodeTexts(Slice(input, c, i))),
         AppendByte(<<b>>, n, "take"), UNCHANGED <<call, outer, length>>
  PROVE  CodeInv'
<1> DEFINE bytes == <<b>>
           left == DecodeTexts(Slice(input, c, i))
           p == Payload \o bytes
<1>1. /\ fn \in Decoders /\ fn \notin Encoders
      /\ UNCHANGED <<fn, input, i, segmentStart, outLen>>
  BY DEF Inv, LoopInv, TypeOK, call, outer, Encoders, Decoders
<1>2. /\ input \in Seq(Byte) /\ i \in Nat /\ i <= Len(input) /\ len \in Nat /\ outLen \in Nat
      /\ Consumed = segmentStart + k /\ segmentStart \in Nat /\ k \in Nat
  BY LoopPlace, SizesOf
<1>3. left \in SUBSET Seq(Byte)
  <2>1. Slice(input, c, i) \in Seq(Byte)
    BY <1>2, SliceType
  <2> QED
    BY <2>1, DecodeTextsType
<1>4. bytes \in Seq(Byte) /\ Len(bytes) = 1
  OBVIOUS
<1>5. Payload \in Seq(Byte) /\ Len(Payload) = len
  BY PayloadType
<1>6. p \in Seq(Byte) /\ Len(p) = len + 1
  BY <1>2, <1>4, <1>5
<1>7. DecodeTexts(Component) = Prefixed(p, left)
  <2>1. DecodeTexts(Component) = Prefixed(Payload, Before(b, left))
    BY DEF CodeInv, TakenInv
  <2> HIDE DEF left
  <2> QED
    BY <1>3, <1>5, <2>1, PrefixedBefore
<1>8. Component \in Seq(Byte)
  BY ComponentFound DEF CodeInv, FoundInv
<1>9. CodeOutcome(fn, Component) = DecodeComponent(Component)
  BY <1>1 DEF CodeOutcome
<1> HIDE DEF left, p, bytes
<1>10. ASSUME CodeOutcome(fn, Component).status = "OK"
       PROVE  len + Len(bytes) <= Len(CodeOutcome(fn, Component).text)
  <2> DEFINE r == CodeOutcome(fn, Component).text
  <2>1. r \in Prefixed(p, left)
    BY <1>7, <1>8, <1>9, <1>10, DecodeByTexts
  <2> HIDE DEF r
  <2>2. PICK t \in left : r = p \o t
    BY <2>1 DEF Prefixed
  <2>3. t \in Seq(Byte)
    BY <1>3, <2>2
  <2>4. Len(r) = Len(p) + Len(t) /\ Len(t) \in Nat
    <3>1. p \in Seq(Byte) /\ r = p \o t
      BY <1>6, <2>2
    <3> QED
      BY <2>3, <3>1
  <2> QED
    BY <1>2, <1>4, <1>6, <2>4 DEF r
<1>11. pc' \in {"take", "done"}
  BY DEF AppendByte, Return
<1>12. TakenInv'
  <2> SUFFICES ASSUME pc' = "take" PROVE TakenInv'
    BY <1>11 DEF TakenInv
  <2>1. /\ Store(bytes, outLen + len) /\ len' = len + Len(bytes) /\ k' = k + n
    BY DEF AppendByte, Return, bytes
  <2>2. Bytes(out', outLen, len + Len(bytes)) = p
    BY <1>4, <2>1, StoredBehind DEF p
  <2>3. Payload' = p
    BY <1>1, <2>1, <2>2 DEF Payload, Bytes
  <2>4. Consumed' = c /\ Component' = Component
    BY <1>1, <1>2, <2>1 DEF Consumed, Component
  <2> QED
    BY <1>1, <1>7, <2>3, <2>4 DEF TakenInv, left
<1>13. EmittedInv' /\ HexInv' /\ PieceInv'
  BY <1>11 DEF EmittedInv, HexInv, PieceInv
<1>14. AppendByte(bytes, n, "take") /\ Len(bytes) <= 3
  BY <1>4 DEF bytes
<1> QED
  BY <1>4, <1>10, <1>12, <1>13, <1>14, AppendCode

\* TakeLiteral: a literal byte stands for itself.
LEMMA TakeLiteralCode ==
  ASSUME Inv, CodeInv, TakeLiteral
  PROVE  CodeInv'
<1> DEFINE c == Consumed
           b == input[c + 1]
           d == c + 1
<1>1. /\ pc = "take" /\ k < ComponentLen /\ UNCHANGED <<call, outer, length>>
  BY DEF TakeLiteral
<1>2. /\ input \in Seq(Byte) /\ i \in Nat /\ i <= Len(input) /\ Len(input) \in Nat
      /\ c = segmentStart + k /\ c \in Nat /\ d = c + 1 /\ d \in Nat /\ d <= i
  BY <1>1, LoopPlace
<1>3. At(segmentStart + k) = b /\ b \in Byte
  <2>1. c + 1 \in 1..Len(input)
    BY <1>2
  <2>2. b \in Byte
    BY <1>2, <2>1
  <2> QED
    BY <1>2, <2>1, <2>2 DEF At
<1>4. IsLiteralByte(b) /\ AppendByte(<<b>>, 1, "take")
  BY <1>3 DEF TakeLiteral
<1>5. DecodeTexts(Slice(input, c, i)) = Before(b, DecodeTexts(Slice(input, d, i)))
  <2> HIDE DEF c
  <2> QED
    BY <1>2, <1>4, TakeOne
<1> HIDE DEF b, d
<1> QED
  BY <1>1, <1>2, <1>3, <1>4, <1>5, TakenCode

\* A component in which the decoder has met no literal and no escape is refused.
LEMMA NoEscape ==
  ASSUME Inv, CodeInv, pc \in {"take", "hex"}, k < ComponentLen,
         NEW c, c = Consumed, ~IsLiteralByte(input[c + 1]),
         ~(/\ input[c + 1] = HYPHEN /\ c + 3 <= i
           /\ IsHexDigit(input[c + 2]) /\ IsHexDigit(input[c + 3])),
         pc' = "done", status' = "INVALID_ESCAPE", UNCHANGED <<fn, input, cap>>
  PROVE  CodeInv'
<1>1. fn \in Decoders /\ fn \notin Encoders
  BY DEF Inv, LoopInv, TypeOK, Encoders, Decoders
<1>2. /\ input \in Seq(Byte) /\ i \in Nat /\ i <= Len(input) /\ c \in Nat /\ c + 1 <= i
  BY LoopPlace
<1>3. DecodeTexts(Slice(input, c, i)) = {}
  BY <1>2, TakeNone
<1>4. Payload \in Seq(Byte)
  BY PayloadType
<1>5. DecodeTexts(Component) = Prefixed(Payload, {})
  BY <1>3 DEF CodeInv, TakenInv
<1>6. DecodeTexts(Component) = {}
  BY <1>4, <1>5, PrefixedEmpty
<1>7. /\ i = Len(input) \/ AtSeparator
      /\ PassedInv /\ RestInv
  BY DEF CodeInv, FoundInv
<1>8. Component \in Seq(Byte)
  BY <1>7, ComponentFound
<1>9. CodeOutcome(fn, Component) = Failure("INVALID_ESCAPE")
  BY <1>1, <1>6, <1>8, DecodeByTexts DEF CodeOutcome
<1>10. Failure("INVALID_ESCAPE").status # "OK"
  BY DEF Failure
<1>11. Defined(fn, input) = Failure("INVALID_ESCAPE")
  BY <1>7, <1>9, <1>10, ErrorOfComponent
<1> QED
  BY <1>11, DoneStep

\* TakeHyphen: an escape follows, or what is there is none.
LEMMA TakeHyphenCode ==
  ASSUME Inv, CodeInv, TakeHyphen
  PROVE  CodeInv'
<1> DEFINE c == Consumed
<1>1. /\ pc = "take" /\ k < ComponentLen
      /\ UNCHANGED <<fn, input, cap, i, segmentStart, outLen, k, len, out, length>>
      /\ ~IsLiteralByte(At(segmentStart + k))
      /\ i = Len(input) \/ AtSeparator
  BY DEF TakeHyphen, call, outer, inner, CodeInv, FoundInv
<1>2. /\ input \in Seq(Byte) /\ i \in Nat /\ i <= Len(input) /\ Len(input) \in Nat
      /\ c = segmentStart + k /\ c \in Nat /\ c + 1 <= i
      /\ k + 3 <= ComponentLen <=> c + 3 <= i
  BY <1>1, LoopPlace
<1>3. At(segmentStart + k) = input[c + 1] /\ At(c) = input[c + 1]
  BY <1>2 DEF At
<1>4. CASE At(segmentStart + k) = HYPHEN /\ EscapeComplete
  <2>1. pc' = "hex" /\ status' = status
    BY <1>4 DEF TakeHyphen
  <2>2. Payload' = Payload /\ Component' = Component /\ Consumed' = Consumed
    BY <1>1 DEF Payload, Component, Consumed
  <2>3. TakenInv'
    BY <1>1, <2>2 DEF CodeInv, TakenInv
  <2>4. HexInv'
    <3>1. At(Consumed)' = At(Consumed)
      BY <1>1, <2>2 DEF At
    <3> QED
      BY <1>2, <1>4, <3>1 DEF HexInv
  <2>5. EmittedInv' /\ PieceInv'
    BY <2>1 DEF EmittedInv, PieceInv
  <2>6. Bytes(out', 0, outLen) = Bytes(out, 0, outLen)
    BY <1>1
  <2> QED
    BY <1>1, <2>1, <2>3, <2>4, <2>5, <2>6, InsideStep
<1>5. CASE ~(At(segmentStart + k) = HYPHEN /\ EscapeComplete)
  <2>1. pc' = "done" /\ status' = "INVALID_ESCAPE"
    BY <1>5 DEF TakeHyphen, Return
  <2>2. ~IsLiteralByte(input[c + 1]) /\ ~(input[c + 1] = HYPHEN /\ c + 3 <= i)
    BY <1>1, <1>2, <1>3, <1>5 DEF EscapeComplete
  <2> HIDE DEF c
  <2>3. c = Consumed
    BY DEF c
  <2> QED
    BY <1>1, <2>1, <2>2, <2>3, NoEscape
<1> QED
  BY <1>4, <1>5

\* TakeEscape: the two digits stand for a byte.
LEMMA TakeEscapeCode ==
  ASSUME Inv, CodeInv, TakeEscape
  PROVE  CodeInv'
<1> DEFINE c == Consumed
           h == input[c + 2]
           l == input[c + 3]
           b == HexByte(h, l)
           d == c + 3
<1>1. /\ pc = "hex" /\ UNCHANGED <<call, outer, length>>
      /\ UNCHANGED <<fn, input, cap>>
  BY DEF TakeEscape, call
<1>2. k + 3 <= ComponentLen /\ k < ComponentLen
  <2>1. k \in Nat /\ i \in Nat /\ segmentStart \in Nat
    BY <1>1, LoopPlace
  <2>2. k + 3 <= ComponentLen
    BY <1>1, <2>1 DEF Inv, LoopInv, ComponentLen
  <2> QED
    BY <2>1, <2>2 DEF ComponentLen
<1>3. /\ input \in Seq(Byte) /\ i \in Nat /\ i <= Len(input) /\ Len(input) \in Nat
      /\ c = segmentStart + k /\ c \in Nat /\ d = c + 3 /\ d \in Nat /\ d <= i
      /\ segmentStart \in Nat /\ k \in Nat
  BY <1>1, <1>2, LoopPlace
<1>4. At(c) = input[c + 1] /\ At(segmentStart + k + 1) = h /\ At(segmentStart + k + 2) = l
  BY <1>3 DEF At
<1>5. input[c + 1] = HYPHEN
  BY <1>1, <1>4 DEF CodeInv, HexInv
<1>6. ~IsLiteralByte(HYPHEN)
  BY DEF IsLiteralByte, IsDigit, HYPHEN
<1>7. CASE IsHexDigit(h) /\ IsHexDigit(l)
  <2>1. AppendByte(<<b>>, 3, "take")
    BY <1>4, <1>7 DEF TakeEscape
  <2>2. b \in Byte
    <3>1. h \in Byte /\ l \in Byte
      <4>1. c + 2 \in 1..Len(input) /\ c + 3 \in 1..Len(input)
        BY <1>3
      <4> QED
        BY <1>3, <4>1
    <3> QED
      BY <1>7, <3>1, HexByteType
  <2>3. DecodeTexts(Slice(input, c, i)) = Before(b, DecodeTexts(Slice(input, d, i)))
    <3> HIDE DEF c
    <3> QED
      BY <1>3, <1>5, <1>7, TakeThree
  <2> HIDE DEF b, d
  <2> QED
    BY <1>1, <1>2, <1>3, <2>1, <2>2, <2>3, TakenCode
<1>8. CASE ~(IsHexDigit(h) /\ IsHexDigit(l))
  <2>1. pc' = "done" /\ status' = "INVALID_ESCAPE"
    BY <1>4, <1>8 DEF TakeEscape, Return
  <2>2. ~IsLiteralByte(input[c + 1])
    BY <1>5, <1>6
  <2> HIDE DEF c
  <2>3. c = Consumed
    BY DEF c
  <2> QED
    BY <1>1, <1>2, <1>8, <2>1, <2>2, <2>3, NoEscape
<1> QED
  BY <1>7, <1>8

\* EndDecode: all of the component is decoded.
LEMMA EndDecodeCode ==
  ASSUME Inv, CodeInv, EndDecode
  PROVE  CodeInv'
<1>1. /\ pc = "take" /\ k >= ComponentLen /\ fn \in Decoders /\ fn \notin Encoders
      /\ UNCHANGED <<call, outer, inner, length>> /\ UNCHANGED <<fn, input, cap>>
  BY DEF EndDecode, Inv, LoopInv, TypeOK, Encoders, Decoders, call
<1>2. /\ input \in Seq(Byte) /\ Consumed = i /\ i \in Nat /\ i <= Len(input)
  BY <1>1, LoopPlace
<1>3. Slice(input, Consumed, i) = <<>>
  BY <1>2, SliceEmpty
<1>4. Payload \in Seq(Byte)
  BY <1>1, PayloadType
<1>5. DecodeTexts(Component) = {Payload}
  <2>1. DecodeTexts(Component) = Prefixed(Payload, {<<>>})
    BY <1>1, <1>3, DecodeEmpty DEF CodeInv, TakenInv
  <2> QED
    BY <1>4, <2>1, PrefixedEmpty
<1>6. /\ i = Len(input) \/ AtSeparator
      /\ PassedInv /\ RestInv
  BY <1>1 DEF CodeInv, FoundInv
<1>7. Component \in Seq(Byte)
  BY <1>1, <1>6, ComponentFound
<1>8. CodeOutcome(fn, Component) = IF Utf8Validate(Payload) THEN Success(Payload)
                                   ELSE Failure("INVALID_UTF8")
  BY <1>1, <1>5, <1>7, DecodeByTexts DEF CodeOutcome
<1>9. CASE Utf8Validate(Payload)
  BY <1>1, <1>8, <1>9, TerminateCode DEF EndDecode
<1>10. CASE ~Utf8Validate(Payload)
  <2>1. pc' = "done" /\ status' = "INVALID_UTF8"
    BY <1>10 DEF EndDecode, Return
  <2>2. CodeOutcome(fn, Component) = Failure("INVALID_UTF8")
    BY <1>8, <1>10
  <2>3. Failure("INVALID_UTF8").status # "OK"
    BY DEF Failure
  <2>4. Defined(fn, input) = Failure("INVALID_UTF8")
    BY <1>1, <1>6, <2>2, <2>3, ErrorOfComponent
  <2> QED
    BY <1>1, <2>1, <2>4, DoneStep
<1> QED
  BY <1>9, <1>10

\* a text followed by a separator and by what an outcome holds
LEMMA BehindSeparator ==
  ASSUME NEW p \in Seq(Byte), NEW u \in Seq(Byte), NEW r \in Outcomes
  PROVE  Behind(p, Behind(u \o Separator, r)) = Behind((p \o u) \o Separator, r)
<1> DEFINE v == u \o Separator
           w == (p \o u) \o Separator
<1>1. v \in Seq(Byte)
  BY AroundSeparator
<1>2. p \o v = w
  <2> DEFINE x == Separator
  <2>1. x \in Seq(Byte)
    BY SeparatorType
  <2> HIDE DEF x
  <2>2. p \o (u \o x) = (p \o u) \o x
    BY <2>1, Associative
  <2> QED
    BY <2>2 DEF x
<1> HIDE DEF v, w
<1>3. Behind(p, Behind(v, r)) = Behind(p \o v, r)
  BY <1>1, BehindBehind
<1> QED
  BY <1>2, <1>3 DEF v, w

\* what is stored of the whole text when a component has been coded
LEMMA StoredAll ==
  ASSUME Inv, pc = "append"
  PROVE  Bytes(out, 0, outLen) \o Payload = Bytes(out, 0, Total)
<1> DEFINE a == 0
           n == Total
           o == out
<1>1. /\ outLen \in Nat /\ len \in Nat /\ n = outLen + len
      /\ out \in [DOMAIN out -> Byte]
  BY SizesOf DEF Total
<1>2. Payload = Bytes(out, outLen, len) /\ 0..(n - 1) \subseteq DOMAIN out
  BY PayloadType, <1>1
<1>3. IsBuffer(o) /\ Covers(o, a, n)
  BY <1>1, <1>2 DEF IsBuffer, Covers
<1>4. /\ a \in Nat /\ n = a + outLen + len /\ outLen = a + outLen /\ n = outLen + len
      /\ outLen \in Nat /\ len \in Nat
  BY <1>1
<1> HIDE DEF a, n, o
<1>5. Bytes(o, a, n) = Bytes(o, a, outLen) \o Bytes(o, outLen, len)
  BY <1>3, <1>4, BytesConcat
<1> QED
  BY <1>2, <1>5 DEF a, n, o

\* The separator and a terminator are stored behind what is there.
LEMMA SeparatorStored ==
  ASSUME Inv, pc = "append", Store(<<HYPHEN, HYPHEN, NUL>>, Total)
  PROVE  Bytes(out', 0, Total + 2) = Bytes(out, 0, Total) \o Separator
<1> DEFINE a == 0
           n == Total
           m == 2
           t == Total + 2
           o == out'
           bytes == <<HYPHEN, HYPHEN, NUL>>
<1>1. /\ outLen \in Nat /\ len \in Nat /\ n = outLen + len /\ n \in Nat
      /\ out \in [DOMAIN out -> Byte] /\ DOMAIN out \subseteq Nat
      /\ 0..(n - 1) \subseteq DOMAIN out
  <2>1. /\ outLen \in Nat /\ len \in Nat /\ n = outLen + len
        /\ out \in [DOMAIN out -> Byte] /\ DOMAIN out \subseteq Nat
    BY SizesOf DEF Total
  <2>2. 0..(n - 1) \subseteq DOMAIN out
    BY <2>1, PayloadType
  <2> QED
    BY <2>1, <2>2
<1>2. bytes \in Seq(Byte) /\ Len(bytes) = 3 /\ bytes[1] = HYPHEN /\ bytes[2] = HYPHEN
  BY DEF NUL, HYPHEN, Byte
<1>3. Store(bytes, n)
  OBVIOUS
<1> HIDE DEF bytes, n
<1>4. /\ out' \in [DOMAIN out' -> Byte] /\ DOMAIN out' = DOMAIN out \cup n..(n + 3 - 1)
      /\ \A q \in n..(n + 3 - 1) : out'[q] = bytes[q - n + 1]
  BY <1>1, <1>2, <1>3, StoreFacts, ZenonT(30)
<1>5. Bytes(out', 0, n) = Bytes(out, 0, n)
  <2>1. \A x, c \in Nat : x + c <= n /\ x..(x + c - 1) \subseteq DOMAIN out =>
           Bytes(out', x, c) = Bytes(out, x, c)
    BY <1>1, <1>2, <1>3, BytesStored
  <2>2. 0 \in Nat /\ 0 + n <= n /\ 0..(0 + n - 1) \subseteq DOMAIN out
    BY <1>1
  <2> QED
    BY <1>1, <2>1, <2>2
<1>6. Bytes(out', n, 2) = Separator
  <2>1. out'[n] = HYPHEN /\ out'[n + 1] = HYPHEN
    <3>1. n \in n..(n + 3 - 1) /\ n + 1 \in n..(n + 3 - 1) /\ n - n + 1 = 1 /\ n + 1 - n + 1 = 2
      BY <1>1
    <3> QED
      BY <1>2, <1>4, <3>1
  <2>2. \A b \in 1..2 : out'[n + b - 1] = HYPHEN
    <3> TAKE b \in 1..2
    <3>1. CASE b = 1
      BY <1>1, <2>1, <3>1
    <3>2. CASE b = 2
      BY <1>1, <2>1, <3>2
    <3> QED
      BY <3>1, <3>2
  <2> DEFINE w == Bytes(out', n, 2)
  <2>3. w = [b \in 1..2 |-> HYPHEN]
    BY <2>2 DEF Bytes
  <2> HIDE DEF w
  <2>4. w = <<HYPHEN, HYPHEN>>
    BY <2>3
  <2> QED
    BY <2>4 DEF w, Separator
<1>7. IsBuffer(o) /\ Covers(o, a, t)
  <2>1. IsBuffer(o)
    BY <1>4 DEF IsBuffer
  <2>2. 0..(t - 1) \subseteq (0..(n - 1)) \cup (n..(n + 3 - 1))
    BY <1>1 DEF n
  <2>3. 0..(t - 1) \subseteq DOMAIN o
    BY <1>1, <1>4, <2>2
  <2> HIDE DEF t, o
  <2> QED
    BY <2>1, <2>3 DEF Covers
<1>8. a \in Nat /\ n \in Nat /\ m \in Nat /\ t = a + n + m /\ n = a + n /\ t = n + m
  BY <1>1 DEF n
<1> HIDE DEF a, m, t, o
<1>9. Bytes(o, a, t) = Bytes(o, a, n) \o Bytes(o, n, m)
  BY <1>7, <1>8, BytesConcat
<1> QED
  BY <1>5, <1>6, <1>9 DEF a, m, t, o, n

\* EndComponent: the separator is copied, and what follows it is left; or all is
\* done, and what is stored is what is defined.
LEMMA EndComponentCode ==
  ASSUME Inv, CodeInv, EndComponent
  PROVE  CodeInv'
<1> DEFINE c == CodeOutcome(fn, Component)
           p == Bytes(out, 0, outLen)
           r == RestOutcome(i + 2)
           d == Defined(fn, input)
           w == Bytes(out, 0, Total)
<1>1. /\ pc = "append" /\ UNCHANGED <<fn, input, cap, k, len>>
      /\ i = Len(input) \/ AtSeparator
      /\ PassedInv /\ RestInv /\ c = Success(Payload)
  BY DEF EndComponent, call, inner, CodeInv, FoundInv, PieceInv
<1>2. /\ outLen \in Nat /\ len \in Nat /\ cap \in Nat /\ i \in Nat /\ Len(input) \in Nat
      /\ Total = outLen + len /\ Total \in Nat /\ Total < cap
  <2>1. outLen \in Nat /\ len \in Nat /\ cap \in Nat /\ i \in Nat /\ Len(input) \in Nat
    BY SizesOf
  <2> QED
    BY <1>1, <2>1 DEF Total, Inv, AppendInv, Written
<1>3. Payload \in Seq(Byte) /\ Len(Payload) = len /\ p \in Seq(Byte) /\ Len(p) = outLen
  BY <1>1, PayloadType, StoredBefore
<1>4. c.status = "OK" /\ c.text = Payload
  BY <1>1 DEF Success
<1>5. p \o Payload = w
  BY <1>1, StoredAll
<1>6. /\ RestOutcome(segmentStart) \in Outcomes
      /\ ~AtSeparator => RestOutcome(segmentStart) = c
      /\ AtSeparator => r \in Outcomes /\ RestOutcome(segmentStart) = Behind(c.text \o Separator, r)
  BY <1>1, <1>4, ComponentFound
<1>7. d = Behind(p, RestOutcome(segmentStart))
  BY <1>1 DEF RestInv
<1>8. CASE ~AtSeparator
  <2>1. d = Success(w)
    <3>1. d = Behind(p, c)
      BY <1>6, <1>7, <1>8
    <3> QED
      BY <1>4, <1>5, <3>1 DEF Behind
  <2>2. pc' = "done" /\ status' = "OK" /\ length' = Total /\ out' = out
    BY <1>8 DEF EndComponent, Return
  <2>3. d' = d
    BY <1>1 DEF Defined
  <2>4. w = Bytes(out', 0, length')
    BY <2>2
  <2> HIDE DEF w, d
  <2>5. StatusInv' /\ AnswerInv'
    <3>1. StatusInv'
      BY <2>2 DEF StatusInv
    <3>2. d' = Success(Bytes(out', 0, length')) /\ length' < cap'
      BY <1>1, <1>2, <2>1, <2>2, <2>3, <2>4
    <3>3. AnswerInv'
      BY <2>2, <3>2 DEF AnswerInv, d
    <3> QED
      BY <3>1, <3>3
  <2>6. PassedInv' /\ FoundInv' /\ EmittedInv' /\ TakenInv' /\ HexInv' /\ PieceInv' /\ RestInv'
    BY <2>2 DEF PassedInv, FoundInv, EmittedInv, TakenInv, HexInv, PieceInv, RestInv
  <2> QED
    BY <2>5, <2>6 DEF CodeInv
<1>9. CASE AtSeparator /\ ~SeparatorFits(Total)
  <2>1. pc' = "done" /\ status' = "BUFFER_TOO_SMALL"
    BY <1>9 DEF EndComponent, Return
  <2>2. cap <= outLen + (len + 2)
    <3>1. ~(Total + 2 < cap)
      BY <1>1, <1>9, SeparatorRoom
    <3> QED
      BY <1>2, <3>1
  <2>3. ASSUME d.status = "OK" PROVE cap <= Len(d.text)
    <3>1. c.status = "OK" => len <= Len(c.text)
      BY <1>2, <1>3, <1>4
    <3> HIDE DEF c, d
    <3>2. outLen + (len + 2) <= Len(d.text)
      BY <1>1, <1>2, <1>9, <2>3, <3>1, LengthOfComponent DEF c, d
    <3>3. d.text \in Seq(Byte)
      BY SizesOf, DefinedType, OutcomeFacts DEF d
    <3> DEFINE t == Len(d.text)
    <3>4. t \in Nat
      BY <3>3
    <3> HIDE DEF t
    <3>5. cap <= t
      BY <1>2, <2>2, <3>2, <3>4 DEF t
    <3> QED
      BY <3>5 DEF t
  <2> QED
    BY <1>1, <2>1, <2>3, DoneStep
<1>10. CASE AtSeparator /\ SeparatorFits(Total)
  <2>1. /\ Store(<<HYPHEN, HYPHEN, NUL>>, Total) /\ outLen' = Total + 2
        /\ i' = i + 2 /\ segmentStart' = i + 2 /\ pc' = "scan" /\ status' = status
    BY <1>10 DEF EndComponent, AfterSeparator, result
  <2>2. Bytes(out', 0, outLen') = w \o Separator
    BY <1>1, <2>1, SeparatorStored
  <2>3. d = Behind(w \o Separator, r)
    <3>1. RestOutcome(segmentStart) = Behind(Payload \o Separator, r) /\ r \in Outcomes
      BY <1>4, <1>6, <1>10
    <3> HIDE DEF p, r, d, w
    <3>2. d = Behind((p \o Payload) \o Separator, r)
      BY <1>3, <1>7, <3>1, BehindSeparator
    <3> QED
      BY <1>5, <3>2
  <2>4. RestOutcome(segmentStart)' = r /\ d' = d
    BY <1>1, <2>1 DEF RestOutcome, Defined
  <2>5. RestInv'
    BY <2>2, <2>3, <2>4 DEF RestInv
  <2>6. PassedInv'
    <3>1. fn \in Bodies
      BY <1>1, <1>10, ComponentFound
    <3>2. \A q \in (segmentStart' + 1)..i' : FALSE
      BY <1>2, <2>1
    <3> QED
      BY <1>1, <3>1, <3>2 DEF PassedInv
  <2> QED
    BY <1>1, <2>1, <2>5, <2>6
    DEF CodeInv, FoundInv, EmittedInv, TakenInv, HexInv, PieceInv, StatusInv, AnswerInv
<1> QED
  BY <1>8, <1>9, <1>10

\* A step that changes nothing keeps the invariant.
LEMMA StutterCode ==
  ASSUME CodeInv, UNCHANGED vars
  PROVE  CodeInv'
  BY DEF CodeInv, RestInv, PassedInv, FoundInv, EmittedInv, TakenInv, HexInv, PieceInv, StatusInv,
         AnswerInv, RestOutcome, Defined, Bytes, AtSeparator, At, Component, Payload, Consumed,
         CodeOutcome, vars, call, outer, inner, result

\* Every step keeps the invariant.
LEMMA CodeStep ==
  ASSUME Inv, CodeInv, [Next]_vars
  PROVE  CodeInv'
<1>1. CASE Next
  BY <1>1, EnterCode, ScanCode, BeginCode, EmitCode, EndEncodeCode, TakeLiteralCode,
     TakeHyphenCode, TakeEscapeCode, EndDecodeCode, EndComponentCode DEF Next
<1>2. CASE UNCHANGED vars
  BY <1>2, StutterCode
<1> QED
  BY <1>1, <1>2

\* The answers are right in every reachable state.
LEMMA CodeInvariance == Spec => [](Inv /\ CodeInv)
<1>1. Inv /\ CodeInv /\ [Next]_vars => CodeInv'
  BY CodeStep
<1> QED
  BY <1>1, CodeInit, Invariance, PTL DEF Spec

-----------------------------------------------------------------------------
\* the safety part of ImplementsContract
AnswersAsDefined == Contract!Init /\ [][Contract!Answer]_(Contract!contractVars)

\* what a call has answered, and how much room is enough for it
Answered  == [status |-> status,
              text |-> IF status = "OK" THEN [b \in 1..length |-> out[b - 1]] ELSE <<>>]
WorstCase == IF fn \in Encoders THEN 3 * Len(input) + 1 ELSE Len(input) + 1

AnswerAllowed == pc = "done" => Answered \in Answers(Defined(fn, input), cap, WorstCase)

\* A call that has returned has answered what the contract allows.
LEMMA AnswersAreAllowed == Inv /\ CodeInv => AnswerAllowed
<1> SUFFICES ASSUME Inv, CodeInv, pc = "done"
             PROVE  Answered \in Answers(Defined(fn, input), cap, WorstCase)
  BY DEF AnswerAllowed
<1> DEFINE u == IF status = "OK" THEN [b \in 1..length |-> out[b - 1]] ELSE <<>>
           r == Defined(fn, input)
<1>1. /\ status # "PENDING"
      /\ status \in {"OK", "BUFFER_TOO_SMALL", "INVALID_ESCAPE", "INVALID_UTF8"}
  BY DEF CodeInv, StatusInv, Inv, TypeOK
<1>2. Answered = [status |-> status, text |-> u]
  BY DEF Answered
<1>3. CASE status = "OK"
  <2>1. /\ r = Success(Bytes(out, 0, length)) /\ length < cap
    BY <1>3 DEF CodeInv, AnswerInv
  <2>2. length \in Nat
    BY <1>3 DEF Inv, ReturnContract
  <2>3. u = Bytes(out, 0, length)
    <3>1. \A b \in 1..length : out[b - 1] = out[0 + b - 1]
      <4> TAKE b \in 1..length
      <4>1. b - 1 = 0 + b - 1
        BY <2>2
      <4> QED
        BY <4>1
    <3> QED
      BY <1>3, <3>1 DEF Bytes
  <2>4. Len(u) = length
    BY <1>3, <2>2
  <2> HIDE DEF u
  <2>5. r = [status |-> "OK", text |-> u] /\ r.status = "OK" /\ r.text = u
    BY <2>1, <2>3 DEF Success
  <2>6. Answered = r /\ Len(r.text) < cap
    BY <1>2, <1>3, <2>1, <2>4, <2>5
  <2> QED
    BY <2>5, <2>6 DEF Answers
<1>4. CASE status \in {"INVALID_ESCAPE", "INVALID_UTF8"}
  <2>1. r = Failure(status)
    BY <1>4 DEF CodeInv, AnswerInv
  <2>2. u = <<>>
    BY <1>4
  <2>3. Answered = r /\ r.status # "OK"
    BY <1>2, <1>4, <2>1, <2>2 DEF Failure
  <2> QED
    BY <2>3 DEF Answers
<1>5. CASE status = "BUFFER_TOO_SMALL"
  <2>1. Answered = Failure("BUFFER_TOO_SMALL")
    BY <1>2, <1>5 DEF Failure
  <2>2. r.status = "OK" => cap <= Len(r.text)
    BY <1>5 DEF CodeInv, AnswerInv
  <2>3. cap < WorstCase
    BY <1>5 DEF Inv, WorstCaseCapacity, WorstCase
  <2>4. r.status = "OK" => ~(Len(r.text) < cap)
    <3>1. r.text \in Seq(Byte) /\ cap \in Nat
      BY SizesOf, DefinedType, OutcomeFacts
    <3> DEFINE n == Len(r.text)
    <3>2. n \in Nat
      BY <3>1
    <3>3. r.status = "OK" => cap <= n
      BY <2>2
    <3> HIDE DEF n
    <3>4. r.status = "OK" => ~(n < cap)
      BY <3>1, <3>2, <3>3
    <3> QED
      BY <3>4 DEF n
  <2> QED
    BY <2>1, <2>3, <2>4 DEF Answers
<1> QED
  BY <1>1, <1>3, <1>4, <1>5

LEMMA NextAnswerAllowed == (Inv /\ CodeInv)' => AnswerAllowed'
<1>1. Inv /\ CodeInv => AnswerAllowed
  BY AnswersAreAllowed
<1> QED
  BY <1>1, PTL

\* When a call returns, the contract answers.
LEMMA ReturnAnswers ==
  ASSUME Inv, CodeInv, Inv', CodeInv', UNCHANGED call, pc # "done", pc' = "done"
  PROVE  Contract!Answer
<1> DEFINE t == IF status = "OK" THEN [b \in 1..length |-> out[b - 1]] ELSE <<>>
<1>1. status = "PENDING" /\ t = <<>> /\ status' # "PENDING"
  BY DEF CodeInv, StatusInv
<1>2. UNCHANGED <<fn, input, cap>>
  BY DEF call
<1>3. Contract!WorstCase = WorstCase
  BY DEF Contract!WorstCase, WorstCase, Encoders
<1>4. Answered' \in Answers(Defined(fn, input), cap, WorstCase)
  BY <1>2, NextAnswerAllowed DEF AnswerAllowed, Defined, WorstCase
<1>5. Answered' \in Contract!Answers(Defined(fn, input), cap, Contract!WorstCase)
  BY <1>3, <1>4 DEF Answers, Failure, Contract!Answers, Contract!Failure
<1>6. [status |-> status, text |-> t] = [status |-> "PENDING", text |-> <<>>]
  BY <1>1
<1>7. Answered' # [status |-> "PENDING", text |-> <<>>]
  BY <1>1 DEF Answered
<1> QED
  BY <1>2, <1>5, <1>6, <1>7 DEF Contract!Answer, Contract!Pending, Answered

\* The refinement of CodecContract, but for its liveness: each of the four
\* functions answers a call once, with what split, code and join define for the
\* text, or refuses it for a capacity that the contract allows it to refuse.
THEOREM CodecImplementsContract == Spec => AnswersAsDefined
<1>1. Init => Contract!Init
  BY DEF Init, Contract!Init, Contract!Pending
<1>2. Inv /\ CodeInv /\ (Inv /\ CodeInv)' /\ [Next]_vars => [Contract!Answer]_(Contract!contractVars)
  <2> SUFFICES ASSUME Inv, CodeInv, Inv', CodeInv', [Next]_vars
               PROVE  Contract!Answer \/ UNCHANGED Contract!contractVars
    OBVIOUS
  <2>1. UNCHANGED call
    BY DEF Next, Enter, Scan, BeginComponent, Emit, EndEncode, TakeLiteral, TakeHyphen, TakeEscape,
           EndDecode, EndComponent, vars
  <2>2. CASE pc # "done" /\ pc' = "done"
    BY <2>1, <2>2, ReturnAnswers
  <2>3. CASE pc' # "done"
    <3>1. pc # "done"
      BY <2>3 DEF Next, Enter, Scan, BeginComponent, Emit, EndEncode, TakeLiteral, TakeHyphen,
                  TakeEscape, EndDecode, EndComponent, vars
    <3>2. status = "PENDING" /\ status' = "PENDING"
      BY <2>3, <3>1 DEF CodeInv, StatusInv
    <3> QED
      BY <2>1, <3>2 DEF Contract!contractVars, call
  <2>4. CASE pc = "done"
    <3>1. UNCHANGED vars
      BY <2>4 DEF Next, Enter, Scan, BeginComponent, Emit, EndEncode, TakeLiteral, TakeHyphen,
                  TakeEscape, EndDecode, EndComponent
    <3> QED
      BY <3>1 DEF vars, call, outer, inner, result, Contract!contractVars
  <2> QED
    BY <2>2, <2>3, <2>4
<1> QED
  BY <1>1, <1>2, CodeInvariance, PTL DEF Spec, AnswersAsDefined

-----------------------------------------------------------------------------
\* The caller that encodes, decodes and encodes again.
\* what an encoder, or the decoder that belongs to it, is about
Representation(f, text) ==
  IF f \in Bodies THEN EncodeBody(text) ELSE EncodeComponent(text)

\* where the caller is: at the first encoding, decoding it, or encoding again
CallerInv ==
  /\ original \in Seq(Byte \ {NUL})
  /\ fn \in Encoders =>
       \/ input = original /\ first = <<>>
       \/ input = Lowercase(original) /\ first = Representation(fn, original)
  /\ fn \in Decoders =>
       input = first /\ first = Representation(fn, original) /\ Utf8Validate(original)

CallsInv == Inv /\ CodeInv /\ CallerInv

\* texts without NUL, folded or encoded, hold none
LEMMA NoNul ==
  ASSUME NEW s \in Seq(Byte \ {NUL})
  PROVE  Lowercase(s) \in Seq(Byte \ {NUL})
<1>1. s \in Seq(Byte) /\ \A j \in 1..Len(s) : s[j] # NUL
  OBVIOUS
<1>2. /\ Lowercase(s) \in Seq(Byte) /\ Len(Lowercase(s)) = Len(s)
      /\ \A j \in 1..Len(s) : Lowercase(s)[j] = Canonical(s[j])
  BY <1>1, LowercaseType
<1>3. \A j \in 1..Len(s) : Lowercase(s)[j] # NUL
  <2> TAKE j \in 1..Len(s)
  <2>1. s[j] \in Byte /\ s[j] # NUL
    BY <1>1
  <2>2. \A b \in Byte : b # NUL => Canonical(b) # NUL
    BY DEF Canonical, NUL, Byte
  <2> QED
    BY <1>2, <2>1, <2>2
<1> DEFINE t == Lowercase(s)
<1>4. t \in Seq(Byte) /\ \A j \in 1..Len(t) : t[j] # NUL
  BY <1>2, <1>3
<1> HIDE DEF t
<1>5. t \in Seq(Byte \ {NUL})
  BY <1>4
<1> QED
  BY <1>5 DEF t

\* A representation holds no NUL.
LEMMA RepresentationType ==
  ASSUME NEW f, NEW s \in Seq(Byte)
  PROVE  Representation(f, s) \in Seq(Byte \ {NUL})
<1> DEFINE t == Representation(f, s)
<1>1. t \in Seq(Byte) /\ Spelled(t)
  BY BodyType, EncodeType, BodyShape, EncodedShape DEF Representation
<1> HIDE DEF t
<1>2. \A j \in 1..Len(t) : t[j] # NUL
  <2>1. ~IsLiteralByte(NUL) /\ HYPHEN # NUL
    BY DEF IsLiteralByte, IsDigit, HYPHEN, NUL
  <2> QED
    BY <1>1, <2>1 DEF Spelled
<1>3. t \in Seq(Byte \ {NUL})
  BY <1>1, <1>2
<1> QED
  BY <1>3 DEF t

\* The buffer read as a C string is the result, if the result holds no NUL.
LEMMA CStringIs ==
  ASSUME NEW n \in Nat, out[n] = NUL, 0..n \subseteq DOMAIN out, DOMAIN out \subseteq Nat,
         NEW t \in Seq(Byte \ {NUL}), t = Bytes(out, 0, n)
  PROVE  CString = t /\ Len(t) = n
<1>1. \A o \in 0..(n - 1) : out[o] # NUL
  <2> TAKE o \in 0..(n - 1)
  <2> DEFINE b == o + 1
  <2>1. b \in 1..n /\ 0 + b - 1 = o
    OBVIOUS
  <2>2. DOMAIN t = 1..n
    BY DEF Bytes
  <2>3. t[b] \in Byte \ {NUL}
    BY <2>1, <2>2
  <2>4. t[b] = out[0 + b - 1]
    BY <2>1 DEF Bytes
  <2> QED
    BY <2>1, <2>3, <2>4
<1> DEFINE P(o) == out[o] = NUL /\ \A p \in 0..(o - 1) : out[p] # NUL
           m == CHOOSE o \in DOMAIN out : P(o)
<1>2. n \in DOMAIN out /\ P(n)
  BY <1>1
<1>3. m \in DOMAIN out /\ P(m)
  <2> HIDE DEF P
  <2> QED
    BY <1>2
<1>4. CString = [b \in 1..m |-> out[b - 1]]
  BY DEF CString
<1> HIDE DEF m
<1>5. m = n
  <2>1. m \in Nat
    BY <1>3
  <2>2. ~(m < n)
    BY <1>1, <1>3, <2>1
  <2>3. ~(n < m)
    BY <1>3, <2>1
  <2> QED
    BY <2>1, <2>2, <2>3
<1>6. \A b \in 1..n : out[b - 1] = out[0 + b - 1]
  <2> TAKE b \in 1..n
  <2>1. b - 1 = 0 + b - 1
    OBVIOUS
  <2> QED
    BY <2>1
<1>7. CString = t
  BY <1>4, <1>5, <1>6 DEF Bytes
<1>8. DOMAIN t = 1..n
  BY DEF Bytes
<1> QED
  BY <1>7, <1>8

\* A call that succeeded has left what is defined for its text.
LEMMA ResultOf ==
  ASSUME Inv, CodeInv, Succeeded, NEW t \in Seq(Byte \ {NUL}),
         Defined(fn, input).status = "OK" => Defined(fn, input).text = t
  PROVE  CString = t /\ length = Len(t) /\ Defined(fn, input).status = "OK"
<1>1. Defined(fn, input) = Success(Bytes(out, 0, length))
  BY DEF CodeInv, AnswerInv, Succeeded
<1>2. Defined(fn, input).status = "OK" /\ Defined(fn, input).text = Bytes(out, 0, length)
  BY <1>1 DEF Success
<1>3. length \in Nat /\ 0..length \subseteq DOMAIN out /\ out[length] = NUL /\ DOMAIN out \subseteq Nat
  BY DEF Inv, ReturnContract, Succeeded, TypeOK
<1>4. t = Bytes(out, 0, length)
  BY <1>2
<1> QED
  BY <1>2, <1>3, <1>4, CStringIs

\* What an encoder leaves.
LEMMA EncoderLeaves ==
  ASSUME Inv, CodeInv, Succeeded, fn \in Encoders
  PROVE  CString = Representation(fn, input) /\ Utf8Validate(input)
<1>1. input \in Seq(Byte)
  BY SizesOf
<1>2. Defined(fn, input) = Encoded(input, Representation(fn, input))
  BY DEF Defined, Representation, Bodies, Encoders
<1> DEFINE t == Representation(fn, input)
<1>3. t \in Seq(Byte \ {NUL})
  BY <1>1, RepresentationType
<1> HIDE DEF t
<1>4. Defined(fn, input).status = "OK" => Defined(fn, input).text = t /\ Utf8Validate(input)
  BY <1>2 DEF Encoded, Success, Failure, t
<1> QED
  BY <1>3, <1>4, ResultOf DEF t

\* What is defined for a representation is the text in lower case.
LEMMA DecoderDefined ==
  ASSUME CallsInv, fn \in Decoders
  PROVE  Defined(fn, input) = Success(Lowercase(original)) /\ Lowercase(original) \in Seq(Byte \ {NUL})
<1>1. original \in Seq(Byte \ {NUL}) /\ original \in Seq(Byte) /\ Utf8Validate(original)
      /\ input = Representation(fn, original)
  BY DEF CallsInv, CallerInv
<1>2. fn \notin Encoders
  BY DEF Encoders, Decoders
<1>3. CASE fn = "decode_body"
  BY <1>1, <1>2, <1>3, NoNul, BodyRoundTrip DEF Defined, Representation, Bodies
<1>4. CASE fn = "decode_component"
  BY <1>1, <1>2, <1>4, NoNul, ComponentRoundTrip DEF Defined, Representation, Bodies
<1> QED
  BY <1>3, <1>4 DEF Decoders

\* What a decoder leaves of a representation.
LEMMA DecoderLeaves ==
  ASSUME CallsInv, Succeeded, fn \in Decoders
  PROVE  CString = Lowercase(original) /\ length = Len(original)
<1> DEFINE t == Lowercase(original)
<1>1. Defined(fn, input) = Success(t) /\ t \in Seq(Byte \ {NUL})
  BY DecoderDefined
<1>2. Len(t) = Len(original)
  <2>1. original \in Seq(Byte)
    BY DEF CallsInv, CallerInv
  <2> QED
    BY <2>1, LowercaseType
<1> HIDE DEF t
<1>3. Defined(fn, input).text = t
  BY <1>1 DEF Success
<1>4. CString = t /\ length = Len(t)
  BY <1>1, <1>3, ResultOf DEF CallsInv
<1> QED
  BY <1>2, <1>4 DEF t

-----------------------------------------------------------------------------
\* A new call starts in the invariants of a call.
LEMMA FreshNext == Fresh' => (Inv /\ CodeInv)'
<1>1. Fresh => Inv /\ CodeInv
  BY InvFresh, CodeFresh
<1> QED
  BY <1>1, PTL

\* A call of the caller is a call before its first step.
LEMMA CallIsFresh ==
  ASSUME NEW f \in Encoders \cup Decoders, NEW text \in Seq(Byte \ {NUL}), Call(f, text)
  PROVE  Fresh'
  BY DEF Call, Fresh, Disjoint

\* What the encoder has left is decoded.
LEMMA DecodeResultCall ==
  ASSUME CallsInv, DecodeResult
  PROVE  CallsInv'
<1> DEFINE t == Representation(fn, original)
           f == IF fn = "encode_body" THEN "decode_body" ELSE "decode_component"
<1>1. /\ Succeeded /\ fn \in Encoders /\ input = original /\ first' = CString
      /\ Call(f, CString) /\ original' = original /\ original \in Seq(Byte \ {NUL})
      /\ original \in Seq(Byte)
  BY DEF DecodeResult, CallsInv, CallerInv
<1>2. CString = t /\ Utf8Validate(original)
  BY <1>1, EncoderLeaves DEF CallsInv
<1>3. t \in Seq(Byte \ {NUL})
  BY <1>1, RepresentationType
<1>4. f \in Decoders /\ f \notin Encoders /\ (f \in Bodies <=> fn \in Bodies)
  BY <1>1 DEF Encoders, Decoders, Bodies
<1>5. fn' = f /\ input' = t
  BY <1>1, <1>2 DEF Call
<1> HIDE DEF t, f
<1>6. Call(f, t)
  BY <1>1, <1>2
<1>7. (Inv /\ CodeInv)'
  BY <1>3, <1>4, <1>6, CallIsFresh, FreshNext
<1>8. CallerInv'
  <2>1. t = Representation(fn', original')
    BY <1>1, <1>4, <1>5 DEF Representation, t
  <2> QED
    BY <1>1, <1>2, <1>4, <1>5, <2>1 DEF CallerInv
<1> QED
  BY <1>7, <1>8 DEF CallsInv

\* What the decoder has left is encoded.
LEMMA EncodeAgainCall ==
  ASSUME CallsInv, EncodeAgain
  PROVE  CallsInv'
<1> DEFINE t == Lowercase(original)
           f == IF fn = "decode_body" THEN "encode_body" ELSE "encode_component"
<1>1. /\ Succeeded /\ fn \in Decoders /\ Call(f, CString)
      /\ original' = original /\ first' = first
      /\ original \in Seq(Byte \ {NUL}) /\ first = Representation(fn, original)
  BY DEF EncodeAgain, CallsInv, CallerInv
<1>2. CString = t
  BY <1>1, DecoderLeaves
<1>3. t \in Seq(Byte \ {NUL})
  BY <1>1, NoNul
<1>4. f \in Encoders /\ f \notin Decoders /\ (f \in Bodies <=> fn \in Bodies)
  BY <1>1 DEF Encoders, Decoders, Bodies
<1>5. fn' = f /\ input' = t
  BY <1>1, <1>2 DEF Call
<1> HIDE DEF f
<1>6. Call(f, t)
  BY <1>1, <1>2
<1>7. (Inv /\ CodeInv)'
  <2> HIDE DEF t
  <2> QED
    BY <1>3, <1>4, <1>6, CallIsFresh, FreshNext
<1>8. CallerInv'
  <2>1. first' = Representation(fn', original') /\ input' = Lowercase(original')
    BY <1>1, <1>4, <1>5 DEF Representation
  <2> QED
    BY <1>1, <1>4, <1>5, <2>1 DEF CallerInv
<1> QED
  BY <1>7, <1>8 DEF CallsInv

\* A step of a call leaves the caller where it is.
LEMMA RunCall ==
  ASSUME CallsInv, [Next]_vars, UNCHANGED <<original, first>>
  PROVE  CallsInv'
<1>1. Inv' /\ CodeInv'
  BY InvStep, CodeStep DEF CallsInv
<1>2. fn' = fn /\ input' = input
  BY DEF Next, Enter, Scan, BeginComponent, Emit, EndEncode, TakeLiteral, TakeHyphen, TakeEscape,
         EndDecode, EndComponent, vars, call
<1>3. CallerInv'
  BY <1>2 DEF CallsInv, CallerInv
<1> QED
  BY <1>1, <1>3 DEF CallsInv

\* The invariant of the caller holds in every reachable state.
LEMMA CallsInvariant == RoundTripSpec => []CallsInv
<1>1. Start => CallsInv
  <2> SUFFICES ASSUME Start PROVE CallsInv
    OBVIOUS
  <2>1. Inv /\ CodeInv
    BY InvInit, CodeInit DEF Start
  <2>2. CallerInv
    BY InputsAssumption DEF Start, Init, CallerInv, Encoders, Decoders
  <2> QED
    BY <2>1, <2>2 DEF CallsInv
<1>2. CallsInv /\ [RoundTripNext]_callerVars => CallsInv'
  BY RunCall, DecodeResultCall, EncodeAgainCall DEF RoundTripNext, Run, callerVars
<1> QED
  BY <1>1, <1>2, PTL DEF RoundTripSpec

-----------------------------------------------------------------------------
\* RoundTrip (test_vectors.c:589-617): a decoder never rejects what an encoder
\* has left in the caller's buffer, and gives the text in lower case.
THEOREM DecodesWhatItEncoded == RoundTripSpec => []RoundTrip
<1>1. CallsInv => RoundTrip
  <2> SUFFICES ASSUME CallsInv, pc = "done", fn \in Decoders
               PROVE  /\ status \in {"OK", "BUFFER_TOO_SMALL"}
                      /\ status = "OK" => CString = Lowercase(original) /\ length = Len(original)
    BY DEF RoundTrip
  <2>1. Defined(fn, input).status = "OK"
    BY DecoderDefined DEF Success
  <2>2. status \in {"OK", "BUFFER_TOO_SMALL", "INVALID_ESCAPE", "INVALID_UTF8"}
    BY DEF CallsInv, CodeInv, StatusInv, Inv, TypeOK
  <2>3. status \notin {"INVALID_ESCAPE", "INVALID_UTF8"}
    <3>1. status \in {"INVALID_ESCAPE", "INVALID_UTF8"} => Defined(fn, input).status = status
      BY DEF CallsInv, CodeInv, AnswerInv, Failure
    <3> QED
      BY <2>1, <3>1
  <2> QED
    BY <2>2, <2>3, DecoderLeaves DEF Succeeded
<1> QED
  BY <1>1, CallsInvariant, PTL

\* StableRepresentation (RFC section 4, def.c:297-301): encoding what a
\* representation decodes to gives the representation again.
THEOREM RepresentationIsStable == RoundTripSpec => []StableRepresentation
<1>1. CallsInv => StableRepresentation
  <2> SUFFICES ASSUME CallsInv, Succeeded, fn \in Encoders, first # <<>>
               PROVE  CString = first
    BY DEF StableRepresentation
  <2>1. input = Lowercase(original) /\ first = Representation(fn, original) /\ original \in Seq(Byte)
    BY DEF CallsInv, CallerInv
  <2>2. CString = Representation(fn, input)
    BY EncoderLeaves DEF CallsInv
  <2> QED
    BY <2>1, <2>2, SameRepresentation DEF Representation
<1> QED
  BY <1>1, CallsInvariant, PTL

\* KeepsHierarchy (def.c:463-508): an encoded body has the components of the
\* text, and the same ones are empty.
THEOREM HierarchyIsKept == RoundTripSpec => []KeepsHierarchy
<1>1. CallsInv => KeepsHierarchy
  <2> SUFFICES ASSUME CallsInv, Succeeded, fn = "encode_body" PROVE KeepsHierarchy
    BY DEF KeepsHierarchy
  <2> DEFINE plain == Split(input)
             coded == Split(CString)
  <2>1. input \in Seq(Byte)
    BY SizesOf DEF CallsInv
  <2>2. CString = EncodeBody(input)
    BY EncoderLeaves DEF CallsInv, Encoders, Representation, Bodies
  <2>3. coded = Mapped(Encoder, plain)
    BY <2>1, <2>2, SplitBody
  <2>4. plain \in Seq(Seq(Byte))
    BY <2>1, SplitType, ComponentsType
  <2> HIDE DEF plain, coded
  <2>5. /\ DOMAIN coded = DOMAIN plain
        /\ \A j \in DOMAIN plain : coded[j] = Encoder[plain[j]]
    BY <2>3 DEF Mapped
  <2>6. ASSUME NEW j \in DOMAIN plain PROVE plain[j] = <<>> <=> coded[j] = <<>>
    <3> DEFINE u == plain[j]
    <3>1. u \in Seq(Byte)
      BY <2>4
    <3>2. coded[j] = EncodeComponent(u)
      BY <2>5, <3>1 DEF Encoder
    <3> HIDE DEF u
    <3>3. u = <<>> => EncodeComponent(u) = <<>>
      BY EncodeEmpty
    <3>4. u # <<>> => EncodeComponent(u) # <<>>
      <4>1. u # <<>> => Len(u) > 0
        BY <3>1
      <4>2. Len(u) > 0 => Len(EncodeComponent(u)) > 0
        BY <3>1, EncodedShape
      <4>3. Len(<<>>) = 0
        OBVIOUS
      <4> QED
        BY <4>1, <4>2, <4>3
    <3> QED
      BY <3>2, <3>3, <3>4 DEF u
  <2>7. Len(plain) = Len(coded)
    <3>1. coded \in Seq(Seq(Byte))
      BY <2>3, <2>4, MappedType, CoderTypes
    <3> QED
      BY <2>4, <2>5, <3>1
  <2> QED
    BY <2>6, <2>7 DEF KeepsHierarchy, plain, coded
<1> QED
  BY <1>1, CallsInvariant, PTL
=============================================================================
