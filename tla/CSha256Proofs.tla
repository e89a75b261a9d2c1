---------------------------- MODULE CSha256Proofs ----------------------------
(***************************************************************************)
(* Proofs about CSha256, for all messages and every modulus of the bit     *)
(* counter that is a whole number of blocks: no copy leaves the block      *)
(* buffer, no read leaves the array pad, no byte that was never written is *)
(* compressed; and the blocks that are compressed are the padded message,  *)
(* nothing lost, doubled or out of order on the way through the buffer.    *)
(***************************************************************************)
EXTENDS CSha256, DataInduction
LOCAL INSTANCE SequencesExt

Offsets == 0..(BlockSize - 1)

\* how much of the buffer has been written for the block being collected
Filled == IF pc \in {"fill", "tail"} THEN idx ELSE IF pc = "whole" THEN 0 ELSE Pending

BufferInv == \A o \in Offsets : o < Filled => buffer[o] \in Byte

\* The bit counter was advanced when sha256_update was entered: it is ahead of
\* the buffer by the bytes that are still to be copied.
AheadInv ==
  /\ pc = "tail" => /\ i = 0 /\ idx + Len(data) < BlockSize
                    /\ Pending = idx + Len(data)
  /\ pc = "fill" => /\ i = 0 /\ idx > 0 /\ idx + Len(data) >= BlockSize
                    /\ Pending = (idx + Len(data)) % BlockSize
  /\ pc = "whole" => idx = 0 /\ Pending = (Len(data) - i) % BlockSize
  /\ pc = "returned" => i = 0 /\ idx = 0

Inv ==
  /\ TypeOK /\ count % 8 = 0
  /\ BufferInv /\ AheadInv
  /\ \A b \in DOMAIN blocks : blocks[b] \in [1..BlockSize -> Byte]
  /\ blocks \in Seq([1..BlockSize -> Byte])

-----------------------------------------------------------------------------
\* the wrapping counter says where the buffer ends
LEMMA CountFacts ==
  ASSUME NEW c \in Nat, c % 8 = 0, NEW n \in Nat
  PROVE  LET d == (c + 8 * n) % CountModulus
         IN  /\ d \in 0..(CountModulus - 1) /\ d % 8 = 0
             /\ (d \div 8) % 64 = (((c \div 8) % 64) + n) % 64
<1> DEFINE d == (c + 8 * n) % CountModulus
<1>1. PICK m \in 1..CountModulus : CountModulus = 8 * BlockSize * m
  BY CountAssumption
<1>2. CountModulus \in Nat /\ m \in Nat /\ CountModulus = 512 * m /\ CountModulus > 0
  BY <1>1, CountAssumption DEF BlockSize
<1> DEFINE s == c + 8 * n
<1> DEFINE q == s \div CountModulus
<1>3. s \in Nat /\ q \in Nat
  BY <1>2
<1>4. d \in 0..(CountModulus - 1) /\ s = CountModulus * q + d
  BY <1>2, <1>3
<1> DEFINE t == m * q
<1>5. t \in Nat /\ CountModulus * q = 512 * t
  BY <1>2, <1>3
<1>6. d \in Nat /\ c + 8 * n = 512 * t + d
  BY <1>2, <1>4, <1>5
<1> HIDE DEF t, q, s, d
<1>7. PICK e \in Nat : c = 8 * e
  BY Z3
<1> DEFINE f == e + n - 64 * t
<1>8. f \in Nat /\ d = 8 * f
  <2>1. f \in Int /\ 8 * f = 8 * e + 8 * n - 512 * t
    BY <1>5, <1>7
  <2>2. d = 8 * e + 8 * n - 512 * t
    <3>1. 8 * e + 8 * n = 512 * t + d
      BY <1>6, <1>7
    <3> QED
      BY <3>1, <1>5, <1>6, <1>7
  <2> HIDE DEF f
  <2> QED
    BY <1>6, <2>1, <2>2
<1>9. d % 8 = 0 /\ d \div 8 = f /\ c \div 8 = e
  <2> HIDE DEF f
  <2> QED
    BY <1>7, <1>8
<1>10. f % 64 = ((e % 64) + n) % 64
  BY <1>5, <1>7, <1>8
<1>11. /\ d \in 0..(CountModulus - 1) /\ d % 8 = 0
       /\ (d \div 8) % 64 = (((c \div 8) % 64) + n) % 64
  BY <1>4, <1>9, <1>10
<1> QED
  BY <1>11 DEF d

\* what a memcpy into the buffer does
LEMMA CopiedFacts ==
  ASSUME NEW bytes \in Seq(Byte), NEW at \in Nat, at + Len(bytes) <= 64,
         buffer \in [Offsets -> Byte \cup {Undefined}]
  PROVE  /\ Copied(at, bytes) \in [Offsets -> Byte \cup {Undefined}]
         /\ \A o \in Offsets : o >= at /\ o < at + Len(bytes) => Copied(at, bytes)[o] \in Byte
         /\ \A o \in Offsets : o < at => Copied(at, bytes)[o] = buffer[o]
<1> DEFINE S == at..(at + Len(bytes) - 1)
<1>0. Len(bytes) \in Nat
  OBVIOUS
<1>1. DOMAIN buffer = Offsets /\ Offsets \cup S = Offsets
  <2>1. \A o \in S : o \in 0..63
    BY <1>0
  <2>2. Offsets = 0..63
    BY DEF Offsets, BlockSize
  <2> HIDE DEF S
  <2> QED
    BY <2>1, <2>2
<1>2. Copied(at, bytes) = [o \in Offsets |-> IF o \in S THEN bytes[o - at + 1] ELSE buffer[o]]
  BY <1>1 DEF Copied
<1>3. \A o \in S : o - at + 1 \in 1..Len(bytes)
  BY <1>0
<1>4. \A o \in S : bytes[o - at + 1] \in Byte
  BY <1>3
<1>5. \A o \in Offsets : o \in S <=> (o >= at /\ o < at + Len(bytes))
  <2> SUFFICES ASSUME NEW o \in Offsets
               PROVE  o \in S <=> (o >= at /\ o < at + Len(bytes))
    OBVIOUS
  <2>1. o \in Nat
    BY DEF Offsets, BlockSize
  <2> DEFINE n == Len(bytes)
  <2> HIDE DEF n
  <2>2. n \in Nat /\ S = at..(at + n - 1)
    BY <1>0 DEF n
  <2> HIDE DEF S
  <2>3. o \in S <=> (o >= at /\ o < at + n)
    BY <2>1, <2>2
  <2> QED
    BY <2>3 DEF n
<1> QED
  BY <1>2, <1>4, <1>5

\* a part of a byte sequence
LEMMA PartFacts ==
  ASSUME NEW s \in Seq(Byte), NEW a \in Nat, NEW b \in Nat, a <= b, b <= Len(s)
  PROVE  SubSeq(s, a + 1, b) \in Seq(Byte) /\ Len(SubSeq(s, a + 1, b)) = b - a
  OBVIOUS

\* where the next byte goes
LEMMA PendingFacts ==
  ASSUME Inv
  PROVE  /\ Pending \in Nat /\ Pending < 64 /\ count \in Nat
         /\ idx \in Nat /\ idx < 64 /\ i \in Nat /\ i <= Len(data)
         /\ data \in Seq(Byte) /\ Len(data) \in Nat
         /\ buffer \in [Offsets -> Byte \cup {Undefined}]
<1>1. count \in Nat
  BY CountAssumption DEF Inv, TypeOK
<1>2. Pending \in Nat /\ Pending < 64
  BY <1>1 DEF Pending, BlockSize
<1>3. data \in Seq(Byte) /\ Len(data) \in Nat
  BY DEF Inv, TypeOK
<1>4. idx \in Nat /\ idx < 64
  <2>1. idx \in 0..(BlockSize - 1)
    BY DEF Inv, TypeOK
  <2> QED
    BY <2>1 DEF BlockSize
<1>5. i \in Nat /\ i <= Len(data)
  <2>1. i \in 0..Len(data)
    BY DEF Inv, TypeOK
  <2> DEFINE n == Len(data)
  <2>2. n \in Nat /\ i \in 0..n
    BY <1>3, <2>1
  <2> HIDE DEF n
  <2>3. i \in Nat /\ i <= n
    BY <2>2
  <2> QED
    BY <2>3 DEF n
<1>6. buffer \in [Offsets -> Byte \cup {Undefined}]
  BY DEF Inv, TypeOK, Offsets
<1> QED
  BY <1>1, <1>2, <1>3, <1>4, <1>5, <1>6

\* the invariant holds when sha256_digest is entered
LEMMA InvInit == Init => Inv
<1> SUFFICES ASSUME Init PROVE Inv
  OBVIOUS
<1>1. CountModulus \in Nat /\ CountModulus > 0
  BY CountAssumption DEF BlockSize
<1>2. data \in Seq(Byte)
  BY MessagesAssumption DEF Init
<1>3. TypeOK
  <2>1. buffer \in [0..(BlockSize - 1) -> Byte \cup {Undefined}]
    BY DEF Init
  <2>2. i \in 0..Len(data) /\ idx \in 0..(BlockSize - 1)
    <3>1. Len(data) \in Nat /\ i = 0 /\ idx = 0
      BY <1>2 DEF Init
    <3>2. ASSUME NEW n \in Nat PROVE 0 \in 0..n
      OBVIOUS
    <3> QED
      BY <3>1, <3>2 DEF BlockSize
  <2>3. count \in 0..(CountModulus - 1) /\ bitcount \in 0..(CountModulus - 1)
    BY <1>1 DEF Init
  <2> QED
    BY <1>2, <2>1, <2>2, <2>3 DEF Init, TypeOK
<1>4. count % 8 = 0 /\ Pending = 0 /\ pc = "update"
  BY DEF Init, Pending, BlockSize
<1>5. blocks = <<>>
  BY DEF Init
<1> QED
  BY <1>3, <1>4, <1>5 DEF Inv, BufferInv, Filled, AheadInv, Offsets, BlockSize

\* A block of bytes is compressed.
LEMMA CompressFacts ==
  ASSUME Inv, NEW block \in [1..BlockSize -> Byte], Compress(block)
  PROVE  /\ \A b \in DOMAIN blocks' : blocks'[b] \in [1..BlockSize -> Byte]
         /\ blocks' \in Seq([1..BlockSize -> Byte])
<1>1. blocks \in Seq([1..BlockSize -> Byte]) /\ blocks' = Append(blocks, block)
  BY DEF Inv, Compress
<1>2. blocks' \in Seq([1..BlockSize -> Byte])
  BY <1>1
<1> QED
  BY <1>2

\* Update: the counter moves ahead of the buffer.
LEMMA UpdateStep ==
  ASSUME Inv, Update
  PROVE  Inv'
<1>1. /\ UNCHANGED <<message, phase, data, buffer, blocks, bitcount>>
      /\ pc = "update" /\ i' = 0 /\ idx' = Pending
      /\ count' = (count + 8 * Len(data)) % CountModulus
      /\ pc' = IF Pending + Len(data) < 64 THEN "tail"
               ELSE IF Pending > 0 THEN "fill" ELSE "whole"
  BY DEF Update, BlockSize
<1>2. /\ Pending \in Nat /\ Pending < 64 /\ count \in Nat /\ count % 8 = 0
      /\ Len(data) \in Nat /\ Pending = (count \div 8) % 64
  BY PendingFacts DEF Inv, Pending, BlockSize
<1>3. /\ count' \in 0..(CountModulus - 1) /\ count' % 8 = 0
      /\ Pending' = (Pending + Len(data)) % 64
  <2>1. /\ count' \in 0..(CountModulus - 1) /\ count' % 8 = 0
        /\ (count' \div 8) % 64 = (((count \div 8) % 64) + Len(data)) % 64
    <3> DEFINE d == (count + 8 * Len(data)) % CountModulus
    <3>1. /\ d \in 0..(CountModulus - 1) /\ d % 8 = 0
          /\ (d \div 8) % 64 = (((count \div 8) % 64) + Len(data)) % 64
      BY <1>2, CountFacts
    <3> QED
      BY <1>1, <3>1
  <2>2. Pending' = (count' \div 8) % 64
    BY DEF Pending, BlockSize
  <2> QED
    BY <1>2, <2>1, <2>2
<1>4. idx' \in 0..(BlockSize - 1) /\ i' \in 0..Len(data')
  BY <1>1, <1>2 DEF BlockSize
<1>5. TypeOK'
  BY <1>1, <1>3, <1>4 DEF Inv, TypeOK
<1>6. AheadInv'
  BY <1>1, <1>2, <1>3, SMTT(30) DEF AheadInv, BlockSize
<1>7. Filled' <= Filled
  <2>1. Filled = Pending
    BY <1>1 DEF Filled
  <2>2. Filled' = IF pc' = "whole" THEN 0 ELSE idx'
    BY <1>1 DEF Filled
  <2> QED
    BY <1>1, <1>2, <2>1, <2>2
<1>8. BufferInv'
  <2> SUFFICES ASSUME NEW o \in Offsets, o < Filled' PROVE buffer'[o] \in Byte
    BY DEF BufferInv
  <2>1. o < Filled
    <3>1. Filled \in Nat /\ Filled' \in Nat
      BY <1>1, <1>2 DEF Filled
    <3> QED
      BY <1>7, <3>1 DEF Offsets, BlockSize
  <2> QED
    BY <1>1, <2>1 DEF Inv, BufferInv
<1> QED
  BY <1>1, <1>3, <1>5, <1>6, <1>8 DEF Inv

\* Fill: the part of the buffer that was not written is filled from the data.
LEMMA FillStep ==
  ASSUME Inv, Fill
  PROVE  Inv'
<1> DEFINE part == SubSeq(data, 1, 64 - idx)
<1> DEFINE filled == Copied(idx, part)
<1>1. /\ UNCHANGED <<message, phase, data, count, bitcount>>
      /\ pc = "fill" /\ pc' = "whole" /\ buffer' = filled
      /\ Compress([o \in 1..BlockSize |-> filled[o - 1]])
      /\ i' = 64 - idx /\ idx' = 0
  BY DEF Fill, AfterFill, BlockSize
<1>2. /\ idx \in Nat /\ idx > 0 /\ idx < 64 /\ idx + Len(data) >= 64
      /\ Pending = (idx + Len(data)) % 64
      /\ data \in Seq(Byte) /\ Len(data) \in Nat /\ count \in Nat
      /\ buffer \in [Offsets -> Byte \cup {Undefined}]
  BY <1>1, PendingFacts DEF Inv, AheadInv, BlockSize
<1>3. part \in Seq(Byte) /\ Len(part) = 64 - idx
  <2>1. 64 - idx \in Nat /\ 64 - idx <= Len(data)
    BY <1>2
  <2>2. SubSeq(data, 0 + 1, 64 - idx) \in Seq(Byte) /\ Len(SubSeq(data, 0 + 1, 64 - idx)) = 64 - idx - 0
    BY <1>2, <2>1, PartFacts
  <2> QED
    BY <1>2, <2>2
<1>4. /\ filled \in [Offsets -> Byte \cup {Undefined}]
      /\ \A o \in Offsets : o >= idx /\ o < 64 => filled[o] \in Byte
      /\ \A o \in Offsets : o < idx => filled[o] = buffer[o]
  <2> HIDE DEF part
  <2>1. idx + Len(part) = 64
    BY <1>2, <1>3
  <2> QED
    BY <1>2, <1>3, <2>1, CopiedFacts
<1> HIDE DEF filled, part
<1>5. \A o \in Offsets : filled[o] \in Byte
  <2> SUFFICES ASSUME NEW o \in Offsets PROVE filled[o] \in Byte
    OBVIOUS
  <2>1. CASE o < idx
    <3>1. Filled = idx
      BY <1>1 DEF Filled
    <3> QED
      BY <2>1, <3>1, <1>4 DEF Inv, BufferInv
  <2>2. CASE ~(o < idx)
    <3>1. o >= idx /\ o < 64
      BY <2>2, <1>2 DEF Offsets, BlockSize
    <3> QED
      BY <3>1, <1>4
  <2> QED
    BY <2>1, <2>2
<1>6. [o \in 1..BlockSize |-> filled[o - 1]] \in [1..BlockSize -> Byte]
  BY <1>5 DEF Offsets, BlockSize
<1>7. /\ \A b \in DOMAIN blocks' : blocks'[b] \in [1..BlockSize -> Byte]
      /\ blocks' \in Seq([1..BlockSize -> Byte])
  BY <1>1, <1>6, CompressFacts
<1>8. i' \in 0..Len(data') /\ idx' \in 0..(BlockSize - 1)
  BY <1>1, <1>2 DEF BlockSize
<1>9. TypeOK'
  BY <1>1, <1>4, <1>7, <1>8 DEF Inv, TypeOK, Offsets
<1>10. Pending' = Pending /\ (idx + Len(data)) % 64 = (Len(data) - (64 - idx)) % 64
  BY <1>1, <1>2 DEF Pending
<1>11. AheadInv'
  BY <1>1, <1>2, <1>10 DEF AheadInv, BlockSize
<1>12. BufferInv'
  BY <1>1 DEF BufferInv, Filled, Offsets
<1> QED
  BY <1>1, <1>7, <1>9, <1>11, <1>12 DEF Inv

\* Whole: a block of the data is compressed, the buffer is not used.
LEMMA WholeStep ==
  ASSUME Inv, Whole
  PROVE  Inv'
<1>1. /\ UNCHANGED <<message, pc, phase, data, idx, count, buffer, bitcount>>
      /\ pc = "whole" /\ i + 64 <= Len(data) /\ i' = i + 64
      /\ Compress(SubSeq(data, i + 1, i + 64))
  BY DEF Whole, BlockLeft, BlockSize
<1>2. /\ i \in Nat /\ Len(data) \in Nat /\ data \in Seq(Byte) /\ count \in Nat
      /\ Pending = (Len(data) - i) % 64 /\ idx = 0
  BY <1>1, PendingFacts DEF Inv, AheadInv, BlockSize
<1>3. SubSeq(data, i + 1, i + 64) \in [1..BlockSize -> Byte]
  <2>1. /\ SubSeq(data, i + 1, i + 64) \in Seq(Byte)
        /\ Len(SubSeq(data, i + 1, i + 64)) = i + 64 - i
    BY <1>1, <1>2, PartFacts
  <2>2. Len(SubSeq(data, i + 1, i + 64)) = 64
    BY <1>2, <2>1
  <2>3. ASSUME NEW s \in Seq(Byte), Len(s) = 64 PROVE s \in [1..64 -> Byte]
    <3>1. s \in [1..Len(s) -> Byte]
      OBVIOUS
    <3> QED
      BY <2>3, <3>1
  <2> QED
    BY <2>1, <2>2, <2>3 DEF BlockSize
<1>4. /\ \A b \in DOMAIN blocks' : blocks'[b] \in [1..BlockSize -> Byte]
      /\ blocks' \in Seq([1..BlockSize -> Byte])
  BY <1>1, <1>3, CompressFacts
<1>5. i' \in 0..Len(data')
  BY <1>1, <1>2
<1>6. TypeOK'
  BY <1>1, <1>4, <1>5 DEF Inv, TypeOK
<1>7. Pending' = Pending /\ (Len(data) - i) % 64 = (Len(data) - (i + 64)) % 64
  BY <1>1, <1>2 DEF Pending
<1>8. AheadInv'
  BY <1>1, <1>2, <1>7 DEF AheadInv, BlockSize
<1>9. BufferInv'
  BY <1>1 DEF BufferInv, Filled, Offsets
<1> QED
  BY <1>1, <1>4, <1>6, <1>8, <1>9 DEF Inv

\* Rest: what is left of the data is less than the room in the buffer.
LEMMA RestStep ==
  ASSUME Inv, Rest
  PROVE  Inv'
<1> DEFINE part == SubSeq(data, i + 1, Len(data))
<1>1. /\ UNCHANGED <<message, phase, data, count, blocks, bitcount>>
      /\ pc = "tail" \/ (pc = "whole" /\ i + 64 > Len(data))
      /\ pc' = "returned" /\ i' = 0 /\ idx' = 0
      /\ buffer' = Copied(idx, part)
  <2>1. i \in Nat /\ Len(data) \in Nat
    BY PendingFacts
  <2> QED
    BY <2>1 DEF Rest, BlockLeft, BlockSize
<1>2. /\ idx \in Nat /\ i \in Nat /\ i <= Len(data) /\ Len(data) \in Nat
      /\ data \in Seq(Byte) /\ count \in Nat
      /\ buffer \in [Offsets -> Byte \cup {Undefined}]
  BY PendingFacts
<1>3. part \in Seq(Byte) /\ Len(part) = Len(data) - i
  BY <1>2, PartFacts
<1>4. Pending = idx + Len(data) - i /\ Pending < 64
  <2>1. CASE pc = "tail"
    BY <2>1, <1>2, PendingFacts DEF Inv, AheadInv
  <2>2. CASE pc = "whole" /\ i + 64 > Len(data)
    <3>1. idx = 0 /\ Pending = (Len(data) - i) % 64
      BY <2>2 DEF Inv, AheadInv, BlockSize
    <3> QED
      BY <2>2, <3>1, <1>2
  <2> QED
    BY <1>1, <2>1, <2>2
<1> HIDE DEF part
<1>5. /\ Copied(idx, part) \in [Offsets -> Byte \cup {Undefined}]
      /\ \A o \in Offsets : o >= idx /\ o < idx + Len(part) => Copied(idx, part)[o] \in Byte
      /\ \A o \in Offsets : o < idx => Copied(idx, part)[o] = buffer[o]
  <2>1. idx + Len(part) <= 64
    BY <1>2, <1>3, <1>4
  <2> QED
    BY <1>2, <1>3, <2>1, CopiedFacts
<1>6. Pending' = Pending
  BY <1>1 DEF Pending
<1>7. BufferInv'
  <2> SUFFICES ASSUME NEW o \in Offsets, o < Pending PROVE buffer'[o] \in Byte
    BY <1>1, <1>6 DEF BufferInv, Filled, Offsets
  <2>1. CASE o < idx
    <3>1. Filled = idx
      BY <2>1, <1>1 DEF Filled, Offsets, BlockSize, Inv, AheadInv
    <3> QED
      BY <2>1, <3>1, <1>1, <1>5 DEF Inv, BufferInv
  <2>2. CASE ~(o < idx)
    <3>1. o >= idx /\ o < idx + Len(part)
      BY <2>2, <1>2, <1>3, <1>4 DEF Offsets, BlockSize
    <3> QED
      BY <3>1, <1>1, <1>5
  <2> QED
    BY <2>1, <2>2
<1>8. i' \in 0..Len(data') /\ idx' \in 0..(BlockSize - 1)
  BY <1>1, <1>2 DEF BlockSize
<1>9. TypeOK'
  BY <1>1, <1>5, <1>8 DEF Inv, TypeOK, Offsets
<1>10. AheadInv'
  BY <1>1 DEF AheadInv
<1> QED
  BY <1>1, <1>7, <1>9, <1>10 DEF Inv

\* The array pad is read no further than its 64 bytes.
LEMMA PadFacts ==
  ASSUME Inv
  PROVE  Pad(PadLength) \in Seq(Byte)
<1>1. Pending \in Nat /\ Pending < 64
  BY PendingFacts
<1>2. PadLength \in Nat /\ PadLength <= 64
  BY <1>1 DEF PadLength
<1>3. \A o \in 1..PadLength : ~(o > 64)
  BY <1>2
<1>4. Pad(PadLength) = [o \in 1..PadLength |-> IF o = 1 THEN 128 ELSE 0]
  BY <1>3 DEF Pad, BlockSize
<1>5. 128 \in Byte /\ 0 \in Byte
  BY DEF Byte
<1> QED
  BY <1>2, <1>4, <1>5

\* the length of the message is eight bytes
LEMMA BigEndianFacts ==
  ASSUME NEW n \in Nat
  PROVE  BigEndian(n) \in Seq(Byte)
<1> DEFINE weight == <<16777216, 65536, 256, 1>>
<1> DEFINE word(w) == [b \in 1..4 |-> (w \div weight[b]) % 256]
<1>1. \A b \in 1..4 : weight[b] \in Nat /\ weight[b] > 0
  OBVIOUS
<1>2. ASSUME NEW w \in Nat PROVE word(w) \in Seq(Byte)
  <2>1. \A b \in 1..4 : (w \div weight[b]) % 256 \in Byte
    BY <1>1 DEF Byte
  <2> HIDE DEF weight
  <2> QED
    BY <2>1
<1>3. (n \div 65536) \div 65536 \in Nat
  OBVIOUS
<1>4. BigEndian(n) = word((n \div 65536) \div 65536) \o word(n)
  BY DEF BigEndian
<1> HIDE DEF word
<1> QED
  BY <1>2, <1>3, <1>4

\* The steps of sha256_final give sha256_update the padding and the length.
LEMMA FinalStep ==
  ASSUME Inv, FinalPadding \/ FinalLength \/ FinalDigest
  PROVE  Inv'
<1>1. /\ UNCHANGED <<message, i, idx, count, buffer, blocks>>
      /\ pc = "returned" /\ pc' \in {"update", "done"}
      /\ phase' \in {"text", "padding", "length"}
  BY DEF FinalPadding, FinalLength, FinalDigest, locals, context, Inv, TypeOK
<1>2. /\ data' \in Seq(Byte)
      /\ bitcount' \in 0..(CountModulus - 1)
  <2>1. CASE FinalPadding
    BY <2>1, PadFacts DEF FinalPadding, Inv, TypeOK
  <2>2. CASE FinalLength
    <3>1. bitcount \in Nat
      BY CountAssumption DEF Inv, TypeOK
    <3> QED
      BY <2>2, <3>1, BigEndianFacts DEF FinalLength, Inv, TypeOK
  <2>3. CASE FinalDigest
    BY <2>3 DEF FinalDigest, locals, Inv, TypeOK
  <2> QED
    BY <2>1, <2>2, <2>3
<1>3. i = 0 /\ idx = 0
  BY <1>1 DEF Inv, AheadInv
<1> QED
  BY <1>1, <1>2, <1>3 DEF Inv, TypeOK, BufferInv, Filled, AheadInv, Pending, Offsets

\* stuttering
LEMMA StutterStep ==
  ASSUME Inv, UNCHANGED vars
  PROVE  Inv'
  BY DEF vars, locals, context, Inv, TypeOK, BufferInv, Filled, AheadInv, Pending, Offsets

-----------------------------------------------------------------------------
\* The inductive invariant of sha256_update and sha256_final.
THEOREM Invariance == Spec => []Inv
<1>1. Inv /\ [Next]_vars => Inv'
  BY UpdateStep, FillStep, WholeStep, RestStep, FinalStep, StutterStep DEF Next
<1> QED
  BY <1>1, InvInit, PTL DEF Spec

\* TypeOK: the locals of sha256_update never pass the data or the block.
THEOREM TypeCorrect == Spec => []TypeOK
<1>1. Inv => TypeOK
  BY DEF Inv
<1> QED
  BY <1>1, Invariance, PTL

\* NothingUndefined: for every message and although the bit counter wraps,
\* only bytes that were written are compressed (def.c:188-240).
THEOREM CompressesDefined == Spec => []NothingUndefined
<1>1. Inv => NothingUndefined
  <2>1. Undefined \notin Byte
    BY DEF Undefined, Byte
  <2>2. ASSUME Inv PROVE /\ DOMAIN buffer = 0..(BlockSize - 1)
                         /\ \A o \in DOMAIN data : data[o] \in Byte
                         /\ \A b \in DOMAIN blocks : blocks[b] \in [1..BlockSize -> Byte]
    <3>1. data \in Seq(Byte)
      BY <2>2 DEF Inv, TypeOK
    <3>2. \A o \in DOMAIN data : data[o] \in Byte
      BY <3>1
    <3> QED
      BY <2>2, <3>2 DEF Inv, TypeOK
  <2> QED
    BY <2>1, <2>2 DEF NothingUndefined
<1> QED
  BY <1>1, Invariance, PTL

-----------------------------------------------------------------------------
\* the first n bytes of a block buffer
Kept(n, buf) == [o \in 1..n |-> buf[o - 1]]

\* what the context holds: the blocks, and the bytes waiting in the buffer
Collected == FlattenSeq(blocks) \o Kept(Filled, buffer)

\* what was given in the earlier calls of sha256_update
Padding == <<128>> \o [z \in 1..Zeros |-> 0]
Before  == IF phase = "text" THEN <<>> ELSE IF phase = "padding" THEN message
           ELSE message \o Padding

\* how much of the data of this call the context has
Taken == IF pc \in {"returned", "done"} THEN Len(data) ELSE IF pc = "whole" THEN i ELSE 0

Bits == (8 * Len(message)) % CountModulus
Size == Len(message) % 64

DataInv ==
  /\ phase = "text" => data = message
  /\ phase = "padding" => data = Padding /\ bitcount = Bits
  /\ phase = "length" => data = BigEndian(Bits)

\* the counter before the call is entered, and after
CountInv ==
  /\ phase = "text" => count = IF pc = "update" THEN 0 ELSE Bits
  /\ phase = "padding" => Pending = IF pc = "update" THEN Size ELSE 56
  /\ phase = "length" => Pending = IF pc = "update" THEN 56 ELSE 0

CollectedInv == Collected = Before \o SubSeq(data, 1, Taken)

HashInv == Inv /\ DataInv /\ CountInv /\ CollectedInv /\ (pc = "done" => phase = "length")

-----------------------------------------------------------------------------
\* the first bytes of a buffer whose first bytes were written
LEMMA KeptFacts ==
  ASSUME NEW n \in Nat, n <= 64, NEW buf, \A o \in Offsets : o < n => buf[o] \in Byte
  PROVE  /\ Kept(n, buf) \in Seq(Byte) /\ Len(Kept(n, buf)) = n
         /\ \A j \in 1..n : Kept(n, buf)[j] = buf[j - 1]
<1>1. \A j \in 1..n : buf[j - 1] \in Byte
  <2> TAKE j \in 1..n
  <2>1. j - 1 \in Offsets /\ j - 1 < n
    BY DEF Offsets, BlockSize
  <2> QED
    BY <2>1
<1> QED
  BY <1>1 DEF Kept

\* where the bytes of a memcpy into the buffer are
LEMMA CopiedBytes ==
  ASSUME NEW bytes \in Seq(Byte), NEW at \in Nat, at + Len(bytes) <= 64,
         buffer \in [Offsets -> Byte \cup {Undefined}]
  PROVE  \A j \in 1..Len(bytes) : Copied(at, bytes)[(at + j) - 1] = bytes[j]
<1> DEFINE n == Len(bytes)
<1>1. n \in Nat /\ at + n <= 64
  OBVIOUS
<1> HIDE DEF n
<1>2. ASSUME NEW j \in 1..n PROVE Copied(at, bytes)[(at + j) - 1] = bytes[j]
  <2> DEFINE o == (at + j) - 1
  <2>1. o \in at..(at + n - 1) /\ o - at + 1 = j
    BY <1>1
  <2> HIDE DEF o
  <2>2. Copied(at, bytes)[o] = bytes[o - at + 1]
    BY <2>1 DEF Copied, n
  <2> QED
    BY <2>1, <2>2 DEF o
<1> QED
  BY <1>2 DEF n

\* A memcpy appends to what the buffer keeps.
LEMMA CopiedKept ==
  ASSUME NEW bytes \in Seq(Byte), NEW at \in Nat, at + Len(bytes) <= 64,
         buffer \in [Offsets -> Byte \cup {Undefined}],
         \A o \in Offsets : o < at => buffer[o] \in Byte
  PROVE  Kept(at + Len(bytes), Copied(at, bytes)) = Kept(at, buffer) \o bytes
<1> DEFINE n == Len(bytes)
           c == Copied(at, bytes)
           u == Kept(at, buffer)
           v == Kept(at + n, c)
<1>1. n \in Nat /\ at + n \in Nat /\ at + n <= 64 /\ at <= 64
  OBVIOUS
<1>2. /\ \A o \in Offsets : o >= at /\ o < at + n => c[o] \in Byte
      /\ \A o \in Offsets : o < at => c[o] = buffer[o]
      /\ \A j \in 1..n : c[(at + j) - 1] = bytes[j]
  BY CopiedFacts, CopiedBytes
<1> HIDE DEF c
<1>3. \A o \in Offsets : o < at + n => c[o] \in Byte
  <2> TAKE o \in Offsets
  <2> HAVE o < at + n
  <2>1. o \in Nat
    BY DEF Offsets, BlockSize
  <2>2. CASE o < at
    BY <1>2, <2>2
  <2>3. CASE ~(o < at)
    BY <1>2, <2>1, <2>3
  <2> QED
    BY <2>2, <2>3
<1> HIDE DEF n
<1>4. /\ u \in Seq(Byte) /\ Len(u) = at /\ \A j \in 1..at : u[j] = buffer[j - 1]
      /\ v \in Seq(Byte) /\ Len(v) = at + n /\ \A j \in 1..(at + n) : v[j] = c[j - 1]
  BY <1>1, <1>3, KeptFacts
<1> HIDE DEF u, v
<1>5. /\ u \o bytes \in Seq(Byte) /\ Len(u \o bytes) = Len(u) + n
      /\ \A j \in 1..(Len(u) + n) : (u \o bytes)[j] = IF j <= Len(u) THEN u[j] ELSE bytes[j - Len(u)]
  BY <1>4, ConcatProperties DEF n
<1> DEFINE w == u \o bytes
<1> HIDE DEF w
<1>6. \A j \in 1..(at + n) : v[j] = w[j]
  <2> TAKE j \in 1..(at + n)
  <2>1. w[j] = IF j <= at THEN u[j] ELSE bytes[j - at]
    BY <1>4, <1>5 DEF w
  <2>2. CASE j <= at
    <3>1. j \in 1..at /\ j - 1 \in Offsets /\ j - 1 < at
      BY <1>1, <2>2 DEF Offsets, BlockSize
    <3>2. v[j] = c[j - 1] /\ c[j - 1] = buffer[j - 1] /\ u[j] = buffer[j - 1]
      BY <1>2, <1>4, <3>1
    <3> QED
      BY <2>1, <2>2, <3>2
  <2>3. CASE ~(j <= at)
    <3> DEFINE d == j - at
    <3>1. d \in 1..n /\ (at + d) - 1 = j - 1
      BY <1>1, <2>3
    <3>2. c[(at + d) - 1] = bytes[d]
      BY <1>2, <3>1 DEF n
    <3>3. v[j] = c[j - 1]
      BY <1>4
    <3> QED
      BY <2>1, <2>3, <3>1, <3>2, <3>3
  <2> QED
    BY <2>2, <2>3
<1>7. w \in Seq(Byte) /\ Len(w) = at + n
  BY <1>4, <1>5 DEF w
<1>8. v = w
  BY <1>4, <1>6, <1>7, SeqEqual
<1> QED
  BY <1>8 DEF v, w, u, c, n

\* the texts an invariant speaks of
LEMMA HashTypes ==
  ASSUME Inv
  PROVE  /\ blocks \in Seq(Seq(Byte)) /\ FlattenSeq(blocks) \in Seq(Byte)
         /\ message \in Seq(Byte) /\ Len(message) \in Nat /\ Size \in 0..63
         /\ Bits \in Nat /\ Zeros \in Nat /\ Padding \in Seq(Byte)
         /\ Len(Padding) = 1 + Zeros /\ Before \in Seq(Byte)
<1>1. blocks \in Seq(Seq(Byte))
  <2>1. [1..BlockSize -> Byte] \subseteq Seq(Byte)
    <3>1. 64 \in Nat /\ Seq(Byte) = UNION {[1..n -> Byte] : n \in Nat}
      BY SeqDef
    <3>2. [1..64 -> Byte] \subseteq Seq(Byte)
      BY <3>1, Zenon
    <3> QED
      BY <3>2 DEF BlockSize
  <2>2. blocks \in Seq([1..BlockSize -> Byte])
    BY DEF Inv
  <2> HIDE DEF Byte
  <2> QED
    BY <2>1, <2>2, SeqMonotonic
<1>2. FlattenSeq(blocks) \in Seq(Byte)
  BY <1>1, FlattenType
<1>3. message \in Seq(Byte) /\ Len(message) \in Nat
  BY MessagesAssumption DEF Inv, TypeOK
<1>4. Size \in 0..63 /\ Zeros \in Nat
  <2> DEFINE n == Len(message)
  <2>1. n \in Nat
    BY <1>3
  <2> HIDE DEF n
  <2>2. n % 64 \in 0..63
    BY <2>1
  <2>3. (119 - (n % 64)) % 64 \in Nat
    BY <2>2
  <2> QED
    BY <2>2, <2>3 DEF Size, Zeros, BlockSize, n
<1>5. Bits \in Nat
  <2>1. CountModulus \in Nat \ {0} /\ 8 * Len(message) \in Nat
    BY <1>3, CountAssumption DEF BlockSize
  <2> DEFINE b == 8 * Len(message)
  <2> HIDE DEF b
  <2>2. b % CountModulus \in Nat
    BY <2>1 DEF b
  <2> QED
    BY <2>2 DEF b, Bits
<1>6. Padding \in Seq(Byte) /\ Len(Padding) = 1 + Zeros
  <2> DEFINE z == [k \in 1..Zeros |-> 0]
  <2>1. 0 \in Byte /\ 128 \in Byte
    BY DEF Byte
  <2>2. z \in Seq(Byte) /\ Len(z) = Zeros
    BY <1>4, <2>1
  <2>3. <<128>> \in Seq(Byte) /\ Len(<<128>>) = 1
    BY <2>1
  <2> HIDE DEF z
  <2>4. <<128>> \o z \in Seq(Byte) /\ Len(<<128>> \o z) = 1 + Zeros
    BY <2>2, <2>3, ConcatProperties
  <2> QED
    BY <2>4 DEF Padding, z
<1>7. message \o Padding \in Seq(Byte)
  BY <1>3, <1>6, ConcatProperties
<1>8. Before \in Seq(Byte)
  <2>1. <<>> \in Seq(Byte)
    OBVIOUS
  <2> QED
    BY <1>3, <1>7, <2>1 DEF Before
<1> QED
  BY <1>1, <1>2, <1>3, <1>4, <1>5, <1>6, <1>8

\* what is kept of the buffer
LEMMA FilledFacts ==
  ASSUME Inv
  PROVE  /\ Filled \in Nat /\ Filled <= 64
         /\ Kept(Filled, buffer) \in Seq(Byte) /\ Len(Kept(Filled, buffer)) = Filled
<1>1. Filled \in Nat /\ Filled <= 64
  BY PendingFacts DEF Filled
<1> QED
  BY <1>1, KeptFacts DEF Inv, BufferInv

-----------------------------------------------------------------------------
\* a step inside a call of sha256_update
LEMMA SameCall ==
  ASSUME DataInv, UNCHANGED <<message, phase, data, bitcount>>
  PROVE  /\ DataInv' /\ Before' = Before /\ Bits' = Bits /\ Size' = Size
         /\ CountInv /\ count' = count /\ pc # "update" /\ pc' # "update" => CountInv'
<1>1. Bits' = Bits /\ Size' = Size /\ Zeros' = Zeros
  BY DEF Bits, Size, Zeros
<1>2. Padding' = Padding
  BY <1>1 DEF Padding
<1>3. DataInv' /\ Before' = Before
  BY <1>1, <1>2 DEF DataInv, Before
<1>4. ASSUME CountInv, count' = count, pc # "update", pc' # "update" PROVE CountInv'
  BY <1>1, <1>4 DEF CountInv, Pending
<1> QED
  BY <1>1, <1>3, <1>4

\* the padding ends 8 bytes before the end of a block
LEMMA PaddingEnds ==
  ASSUME Inv
  PROVE  (Size + Len(Padding)) % 64 = 56
<1>1. Size \in 0..63 /\ Len(Padding) = 1 + Zeros /\ Zeros = (119 - Size) % 64
  BY HashTypes DEF Zeros, Size, BlockSize
<1> DEFINE s == Size
<1> HIDE DEF s
<1>2. ASSUME s \in 0..63 PROVE (s + (1 + ((119 - s) % 64))) % 64 = 56
  BY <1>2
<1> QED
  BY <1>1, <1>2 DEF s

\* how the counter moves when a call is entered
LEMMA UpdateCount ==
  ASSUME HashInv, Update
  PROVE  CountInv'
<1>1. /\ UNCHANGED <<message, phase, data, bitcount>>
      /\ pc = "update" /\ count' = (count + 8 * Len(data)) % CountModulus
      /\ pc' # "update"
  BY DEF Update
<1>2. /\ Inv /\ DataInv /\ CountInv /\ count \in Nat /\ count % 8 = 0 /\ Len(data) \in Nat
      /\ Pending = (count \div 8) % 64 /\ Pending' = (count' \div 8) % 64
  BY PendingFacts DEF HashInv, Inv, Pending, BlockSize
<1>3. Pending' = (Pending + Len(data)) % 64
  <2> DEFINE d == (count + 8 * Len(data)) % CountModulus
  <2>1. (d \div 8) % 64 = (((count \div 8) % 64) + Len(data)) % 64
    BY <1>2, CountFacts
  <2> QED
    BY <1>1, <1>2, <2>1
<1>4. Bits' = Bits /\ Size' = Size
  BY <1>1, <1>2, SameCall
<1>5. CASE phase = "text"
  <2>1. count = 0 /\ data = message /\ Len(message) \in Nat
    BY <1>1, <1>2, <1>5, HashTypes DEF CountInv, DataInv
  <2>2. count' = (0 + 8 * Len(message)) % CountModulus
    BY <1>1, <2>1
  <2>3. 0 + 8 * Len(message) = 8 * Len(message)
    BY <2>1
  <2>4. count' = Bits
    BY <2>2, <2>3 DEF Bits
  <2> QED
    BY <1>1, <1>4, <1>5, <2>4 DEF CountInv
<1>6. CASE phase = "padding"
  <2>1. Pending = Size /\ data = Padding
    BY <1>1, <1>2, <1>6 DEF CountInv, DataInv
  <2>2. Pending' = 56
    BY <1>2, <1>3, <2>1, PaddingEnds
  <2> QED
    BY <1>1, <1>6, <2>2 DEF CountInv
<1>7. CASE phase = "length"
  <2>1. Pending = 56 /\ data = BigEndian(Bits)
    BY <1>1, <1>2, <1>7 DEF CountInv, DataInv
  <2>2. Len(data) = 8
    <3> DEFINE weight == <<16777216, 65536, 256, 1>>
               word(w) == [b \in 1..4 |-> (w \div weight[b]) % 256]
    <3>1. ASSUME NEW w \in Nat PROVE word(w) \in Seq(Byte) /\ Len(word(w)) = 4
      <4>1. \A b \in 1..4 : (w \div weight[b]) % 256 \in Byte
        <5>1. \A b \in 1..4 : weight[b] \in Nat /\ weight[b] > 0
          OBVIOUS
        <5> QED
          BY <5>1 DEF Byte
      <4> HIDE DEF weight
      <4> QED
        BY <4>1
    <3>2. Bits \in Nat /\ (Bits \div 65536) \div 65536 \in Nat
      BY <1>2, HashTypes, SMTT(30)
    <3>3. BigEndian(Bits) = word((Bits \div 65536) \div 65536) \o word(Bits)
      BY DEF BigEndian
    <3> HIDE DEF word
    <3>4. /\ word(Bits) \in Seq(Byte) /\ Len(word(Bits)) = 4
          /\ word((Bits \div 65536) \div 65536) \in Seq(Byte)
          /\ Len(word((Bits \div 65536) \div 65536)) = 4
      BY <3>1, <3>2
    <3> DEFINE h == word((Bits \div 65536) \div 65536)
               l == word(Bits)
    <3> HIDE DEF h, l
    <3>5. Len(h \o l) = Len(h) + Len(l)
      BY <3>4, ConcatProperties DEF h, l
    <3> QED
      BY <2>1, <3>3, <3>4, <3>5 DEF h, l
  <2>3. Pending' = 0
    BY <1>3, <2>1, <2>2
  <2> QED
    BY <1>1, <1>7, <2>3 DEF CountInv
<1> QED
  BY <1>2, <1>5, <1>6, <1>7 DEF Inv, TypeOK

\* Entering sha256_update moves no byte.
LEMMA UpdateHash ==
  ASSUME HashInv, Update
  PROVE  HashInv'
<1>1. /\ UNCHANGED <<message, phase, data, buffer, blocks, bitcount>>
      /\ pc = "update" /\ i' = 0 /\ idx' = Pending
      /\ pc' = IF Pending + Len(data) < 64 THEN "tail"
               ELSE IF Pending > 0 THEN "fill" ELSE "whole"
  BY DEF Update, BlockSize
<1>2. Inv /\ Inv' /\ DataInv /\ CollectedInv /\ Pending \in Nat
  BY UpdateStep, PendingFacts DEF HashInv
<1>3. DataInv' /\ CountInv' /\ Before' = Before
  BY <1>1, <1>2, SameCall, UpdateCount
<1>4. Filled = Pending /\ Filled' = Pending
  BY <1>1, <1>2 DEF Filled
<1>5. Collected' = Collected
  BY <1>1, <1>4 DEF Collected, Kept
<1>6. Taken = 0 /\ Taken' = 0
  BY <1>1 DEF Taken
<1>7. CollectedInv'
  BY <1>1, <1>2, <1>3, <1>5, <1>6 DEF CollectedInv
<1> QED
  BY <1>1, <1>2, <1>3, <1>7 DEF HashInv

\* three pieces of a text, the last two put together
LEMMA Regroup ==
  ASSUME NEW p \in Seq(Byte), NEW q \in Seq(Byte), NEW r \in Seq(Byte)
  PROVE  (p \o q) \o r = p \o (q \o r)
  BY Associative, SMTT(30)

\* an empty buffer
LEMMA NothingKept == \A buf : Kept(0, buf) = <<>>
  BY DEF Kept

\* The block that is filled up is what was kept and the first of the data.
LEMMA FillHash ==
  ASSUME HashInv, Fill
  PROVE  HashInv'
<1> DEFINE part == SubSeq(data, 1, 64 - idx)
           filled == Copied(idx, part)
           block == [o \in 1..64 |-> filled[o - 1]]
           f == FlattenSeq(blocks)
           u == Kept(idx, buffer)
<1>1. /\ UNCHANGED <<message, phase, data, count, bitcount>>
      /\ pc = "fill" /\ pc' = "whole" /\ blocks' = Append(blocks, block)
      /\ i' = 64 - idx
  BY DEF Fill, Compress, BlockSize
<1>2. Inv /\ Inv' /\ DataInv /\ CountInv /\ CollectedInv
  BY FillStep DEF HashInv
<1>3. DataInv' /\ CountInv' /\ Before' = Before
  BY <1>1, <1>2, SameCall
<1>4. /\ idx \in Nat /\ idx < 64 /\ idx + Len(data) >= 64
      /\ data \in Seq(Byte) /\ Len(data) \in Nat
      /\ buffer \in [Offsets -> Byte \cup {Undefined}]
  BY <1>1, <1>2, PendingFacts DEF Inv, AheadInv, BlockSize
<1>5. part \in Seq(Byte) /\ Len(part) = 64 - idx
  <2>1. 64 - idx \in Nat /\ 64 - idx <= Len(data)
    BY <1>4
  <2>2. SubSeq(data, 0 + 1, 64 - idx) \in Seq(Byte) /\ Len(SubSeq(data, 0 + 1, 64 - idx)) = 64 - idx - 0
    BY <1>4, <2>1, PartFacts
  <2> QED
    BY <1>4, <2>2
<1>6. Filled = idx /\ Filled' = 0 /\ Taken = 0 /\ Taken' = 64 - idx
  BY <1>1 DEF Filled, Taken
<1>7. \A o \in Offsets : o < idx => buffer[o] \in Byte
  BY <1>2, <1>6 DEF Inv, BufferInv
<1>8. block = u \o part /\ u \in Seq(Byte)
  <2> HIDE DEF part
  <2>1. idx + Len(part) = 64
    BY <1>4, <1>5
  <2>2. Kept(idx + Len(part), filled) = u \o part
    BY <1>4, <1>5, <1>7, <2>1, CopiedKept, SMTT(30)
  <2>3. Kept(64, filled) = block
    BY DEF Kept
  <2>4. u \in Seq(Byte)
    BY <1>4, <1>7, KeptFacts
  <2> QED
    BY <2>1, <2>2, <2>3, <2>4
<1> HIDE DEF part, block, filled
<1>9. f \in Seq(Byte) /\ blocks \in Seq(Seq(Byte)) /\ Before \in Seq(Byte)
  BY <1>2, HashTypes
<1>10. block \in Seq(Byte)
  BY <1>5, <1>8, ConcatProperties
<1>11. FlattenSeq(blocks') = f \o block
  BY <1>1, <1>9, <1>10, FlattenAppend
<1>12. Collected' = f \o block
  <2>1. f \o block \in Seq(Byte)
    BY <1>9, <1>10, ConcatProperties
  <2>2. Collected' = FlattenSeq(blocks') \o Kept(Filled', buffer')
    BY DEF Collected
  <2> HIDE DEF f
  <2>3. (f \o block) \o <<>> = f \o block
    BY <2>1, ConcatEmptySeq
  <2> QED
    BY <1>6, <1>11, <2>2, <2>3, NothingKept
<1>13. f \o u = Before
  <2>1. f \o u = Before \o SubSeq(data, 1, 0)
    BY <1>2, <1>6 DEF CollectedInv, Collected
  <2>2. SubSeq(data, 1, 0) = <<>>
    BY SubSeqEmpty
  <2> QED
    BY <1>9, <2>1, <2>2, ConcatEmptySeq
<1> HIDE DEF f, u
<1>14. f \o block = Before \o part
  BY <1>5, <1>8, <1>9, <1>13, Regroup, ZenonT(30)
<1>15. CollectedInv'
  BY <1>1, <1>3, <1>6, <1>12, <1>14 DEF CollectedInv, part
<1> QED
  BY <1>1, <1>2, <1>3, <1>15 DEF HashInv

\* the data before i and a part that begins there
LEMMA Adjacent ==
  ASSUME NEW s \in Seq(Byte), NEW a \in Nat, NEW b \in Nat, a <= b, b <= Len(s)
  PROVE  /\ SubSeq(s, 1, a) \in Seq(Byte) /\ SubSeq(s, a + 1, b) \in Seq(Byte)
         /\ SubSeq(s, 1, a) \o SubSeq(s, a + 1, b) = SubSeq(s, 1, b)
<1>1. SubSeq(s, a + 1, b) \in Seq(Byte)
  BY PartFacts
<1>2. SubSeq(s, 1, a) \in Seq(Byte)
  <2>1. 0 \in Nat /\ 0 <= a /\ 0 + 1 = 1 /\ a <= Len(s)
    OBVIOUS
  <2>2. SubSeq(s, 0 + 1, a) \in Seq(Byte)
    BY <2>1, PartFacts
  <2> QED
    BY <2>1, <2>2
<1>3. 1 \in 1..(Len(s) + 1) /\ a \in (1 - 1)..Len(s) /\ b \in a..Len(s)
  OBVIOUS
<1> QED
  BY <1>1, <1>2, <1>3, ConcatAdjacentSubSeq

\* The next block of the data follows the ones before it.
LEMMA WholeHash ==
  ASSUME HashInv, Whole
  PROVE  HashInv'
<1> DEFINE part == SubSeq(data, i + 1, i + 64)
           front == SubSeq(data, 1, i)
           f == FlattenSeq(blocks)
<1>1. /\ UNCHANGED <<message, phase, data, count, bitcount, pc>>
      /\ pc = "whole" /\ blocks' = Append(blocks, part)
      /\ i + 64 <= Len(data) /\ i' = i + 64
  BY DEF Whole, Compress, BlockLeft, BlockSize
<1>2. Inv /\ Inv' /\ DataInv /\ CountInv /\ CollectedInv
  BY WholeStep DEF HashInv
<1>3. DataInv' /\ CountInv' /\ Before' = Before
  BY <1>1, <1>2, SameCall
<1>4. i \in Nat /\ data \in Seq(Byte) /\ Len(data) \in Nat
  BY <1>2, PendingFacts
<1>5. part \in Seq(Byte) /\ front \in Seq(Byte) /\ front \o part = SubSeq(data, 1, i + 64)
  <2>1. i + 64 \in Nat /\ i <= i + 64
    BY <1>4
  <2> QED
    BY <1>1, <1>4, <2>1, Adjacent
<1>6. Filled = 0 /\ Filled' = 0 /\ Taken = i /\ Taken' = i + 64
  BY <1>1 DEF Filled, Taken
<1> HIDE DEF part, front
<1>7. f \in Seq(Byte) /\ blocks \in Seq(Seq(Byte)) /\ Before \in Seq(Byte)
  BY <1>2, HashTypes
<1>8. FlattenSeq(blocks') = f \o part
  BY <1>1, <1>5, <1>7, FlattenAppend
<1>9. Collected = f \o <<>> /\ Collected' = (f \o part) \o <<>>
  BY <1>6, <1>8, NothingKept DEF Collected
<1> HIDE DEF f
<1>10. Collected = f /\ Collected' = f \o part
  <2>1. f \o part \in Seq(Byte)
    BY <1>5, <1>7, ConcatProperties
  <2> QED
    BY <1>7, <1>9, <2>1, ConcatEmptySeq
<1>11. f = Before \o front
  BY <1>2, <1>6, <1>10 DEF CollectedInv, front
<1>12. Collected' = Before \o SubSeq(data, 1, i + 64)
  <2>1. (Before \o front) \o part = Before \o (front \o part)
    BY <1>5, <1>7, Regroup
  <2> QED
    BY <1>5, <1>10, <1>11, <2>1
<1>13. CollectedInv'
  BY <1>1, <1>3, <1>6, <1>12 DEF CollectedInv
<1> QED
  BY <1>1, <1>2, <1>3, <1>13 DEF HashInv

\* What is left of the data is kept behind what was kept before.
LEMMA RestHash ==
  ASSUME HashInv, Rest
  PROVE  HashInv'
<1> DEFINE part == SubSeq(data, i + 1, Len(data))
           front == SubSeq(data, 1, i)
           f == FlattenSeq(blocks)
           u == Kept(idx, buffer)
<1>0. Inv /\ i \in Nat /\ Len(data) \in Nat /\ data \in Seq(Byte) /\ i <= Len(data)
  BY PendingFacts DEF HashInv
<1>1. /\ UNCHANGED <<message, phase, data, count, blocks, bitcount>>
      /\ pc = "tail" \/ (pc = "whole" /\ i + 64 > Len(data))
      /\ pc' = "returned" /\ buffer' = Copied(idx, part)
  BY <1>0 DEF Rest, BlockLeft, BlockSize
<1>2. Inv /\ Inv' /\ DataInv /\ CountInv /\ CollectedInv
  BY RestStep DEF HashInv
<1>3. DataInv' /\ CountInv' /\ Before' = Before
  BY <1>1, <1>2, SameCall
<1>4. /\ idx \in Nat /\ idx < 64 /\ buffer \in [Offsets -> Byte \cup {Undefined}]
  BY <1>2, PendingFacts
<1>5. part \in Seq(Byte) /\ Len(part) = Len(data) - i /\ front \in Seq(Byte)
      /\ front \o part = SubSeq(data, 1, Len(data))
  <2>1. Len(data) <= Len(data)
    BY <1>0
  <2>2. part \in Seq(Byte) /\ Len(part) = Len(data) - i
    BY <1>0, <2>1, PartFacts
  <2>3. front \in Seq(Byte) /\ front \o part = SubSeq(data, 1, Len(data))
    BY <1>0, <2>1, Adjacent
  <2> QED
    BY <2>2, <2>3
<1>6. Filled = idx /\ Taken = i
  BY <1>1, <1>2 DEF Filled, Taken, Inv, AheadInv
<1>7. Pending = idx + (Len(data) - i) /\ Pending < 64 /\ Pending' = Pending
  <2>1. Pending < 64 /\ Pending' = Pending
    BY <1>1, <1>2, PendingFacts DEF Pending
  <2>2. CASE pc = "tail"
    <3>1. i = 0 /\ Pending = idx + Len(data)
      BY <1>2, <2>2 DEF Inv, AheadInv
    <3> QED
      BY <1>0, <1>4, <2>1, <3>1
  <2>3. CASE pc = "whole" /\ i + 64 > Len(data)
    <3>1. idx = 0 /\ Pending = (Len(data) - i) % 64
      BY <1>2, <2>3 DEF Inv, AheadInv, BlockSize
    <3> QED
      BY <1>0, <2>1, <2>3, <3>1
  <2> QED
    BY <1>1, <2>2, <2>3
<1>8. \A o \in Offsets : o < idx => buffer[o] \in Byte
  BY <1>2, <1>6 DEF Inv, BufferInv
<1> HIDE DEF part, front
<1>9. Kept(Pending, buffer') = u \o part /\ u \in Seq(Byte)
  <2>1. idx + Len(part) = Pending /\ idx + Len(part) <= 64
    BY <1>0, <1>4, <1>5, <1>7
  <2>2. Kept(idx + Len(part), Copied(idx, part)) = u \o part
    BY <1>4, <1>5, <1>8, <2>1, CopiedKept
  <2>3. u \in Seq(Byte)
    BY <1>4, <1>8, KeptFacts
  <2> QED
    BY <1>1, <2>1, <2>2, <2>3
<1>10. f \in Seq(Byte) /\ Before \in Seq(Byte)
  BY <1>2, HashTypes
<1>11. Filled' = Pending /\ Taken' = Len(data)
  BY <1>1, <1>7 DEF Filled, Taken
<1>12. Collected' = f \o (u \o part)
  BY <1>1, <1>9, <1>11 DEF Collected
<1>13. f \o u = Before \o front
  BY <1>2, <1>6 DEF CollectedInv, Collected, front
<1> HIDE DEF f, u
<1>14. Collected' = Before \o (front \o part)
  <2>1. f \o (u \o part) = (f \o u) \o part
    BY <1>5, <1>9, <1>10, Regroup, ZenonT(30)
  <2>2. (Before \o front) \o part = Before \o (front \o part)
    BY <1>5, <1>10, Regroup
  <2> QED
    BY <1>12, <1>13, <2>1, <2>2
<1>15. CollectedInv'
  BY <1>1, <1>3, <1>5, <1>11, <1>14 DEF CollectedInv
<1> QED
  BY <1>1, <1>2, <1>3, <1>15 DEF HashInv

-----------------------------------------------------------------------------
\* The array pad, as far as it is read, is a one bit and the zeros that are missing.
LEMMA PadIsPadding ==
  ASSUME Inv, Pending = Size
  PROVE  Pad(PadLength) = Padding
<1> DEFINE n == PadLength
           z == [k \in 1..Zeros |-> 0]
           p == Pad(n)
<1>1. Size \in 0..63 /\ Zeros \in Nat /\ Padding \in Seq(Byte) /\ Len(Padding) = 1 + Zeros
  BY HashTypes
<1>2. n \in Nat /\ n <= 64 /\ n = 1 + Zeros
  <2> DEFINE s == Size
  <2>1. s \in 0..63 /\ Pending = s
    BY <1>1
  <2>2. Zeros = (119 - s) % 64
    BY DEF Zeros, Size, BlockSize
  <2>3. n = IF s < 56 THEN 56 - s ELSE 120 - s
    BY <2>1 DEF PadLength
  <2> HIDE DEF s, n
  <2>4. (119 - s) % 64 = IF s < 56 THEN 55 - s ELSE 119 - s
    BY <2>1
  <2> QED
    BY <2>1, <2>2, <2>3, <2>4
<1> HIDE DEF n
<1>3. p = [o \in 1..n |-> IF o = 1 THEN 128 ELSE 0]
  <2>1. \A o \in 1..n : ~(o > 64)
    BY <1>2
  <2> QED
    BY <2>1 DEF Pad, BlockSize
<1>4. p \in Seq(Byte) /\ Len(p) = n /\ \A o \in 1..n : p[o] = IF o = 1 THEN 128 ELSE 0
  <2>1. 128 \in Byte /\ 0 \in Byte
    BY DEF Byte
  <2> HIDE DEF p
  <2> QED
    BY <1>2, <1>3, <2>1
<1> HIDE DEF p
<1>5. \A o \in 1..n : Padding[o] = IF o = 1 THEN 128 ELSE 0
  <2>1. z \in Seq({0}) /\ Len(z) = Zeros /\ \A k \in 1..Zeros : z[k] = 0
    BY <1>1
  <2>2. z \in Seq(Byte) /\ <<128>> \in Seq(Byte) /\ Len(<<128>>) = 1 /\ <<128>>[1] = 128
    <3>1. 128 \in Byte /\ 0 \in Byte
      BY DEF Byte
    <3> QED
      BY <1>1, <3>1
  <2> HIDE DEF z
  <2>3. \A o \in 1..(Len(<<128>>) + Len(z)) :
          (<<128>> \o z)[o] = IF o <= Len(<<128>>) THEN <<128>>[o] ELSE z[o - Len(<<128>>)]
    BY <2>2, ConcatProperties
  <2>4. \A o \in 1..(1 + Zeros) :
          (<<128>> \o z)[o] = IF o <= 1 THEN <<128>>[o] ELSE z[o - 1]
    BY <2>1, <2>2, <2>3
  <2>5. ASSUME NEW o \in 1..n PROVE Padding[o] = IF o = 1 THEN 128 ELSE 0
    <3>1. Padding[o] = IF o <= 1 THEN <<128>>[o] ELSE z[o - 1]
      BY <1>2, <2>4 DEF Padding, z
    <3>2. CASE o = 1
      BY <2>2, <3>1, <3>2
    <3>3. CASE o # 1
      <4>1. o - 1 \in 1..Zeros /\ ~(o <= 1)
        BY <1>1, <1>2, <3>3
      <4>2. z[o - 1] = 0
        BY <2>1, <4>1
      <4> QED
        BY <3>1, <3>3, <4>1, <4>2
    <3> QED
      BY <3>2, <3>3
  <2> QED
    BY <2>5
<1>6. p = Padding
  BY <1>1, <1>2, <1>4, <1>5, SeqEqual
<1> QED
  BY <1>6 DEF p, n

\* when sha256_update returns, the context holds all it was given
LEMMA ReturnedHolds ==
  ASSUME HashInv, pc \in {"returned", "done"}
  PROVE  Collected = Before \o data /\ Filled = Pending /\ data \in Seq(Byte)
<1>1. data \in Seq(Byte) /\ Filled = Pending /\ Taken = Len(data)
  BY PendingFacts DEF HashInv, Filled, Taken
<1>2. SubSeq(data, 1, Len(data)) = data
  BY <1>1, SubSeqFull
<1> QED
  BY <1>1, <1>2 DEF HashInv, CollectedInv

\* sha256_update is called again
LEMMA NextCall ==
  ASSUME HashInv, UNCHANGED <<message, buffer, blocks, count>>,
         pc = "returned", pc' = "update", Before' = Before \o data
  PROVE  CollectedInv'
<1>1. Collected = Before \o data /\ Filled = Pending
  BY ReturnedHolds
<1>2. Pending' = Pending /\ Filled' = Pending'
  BY DEF Pending, Filled
<1>3. Collected' = Collected
  BY <1>1, <1>2 DEF Collected, Kept
<1>4. Taken' = 0
  BY DEF Taken
<1>5. SubSeq(data', 1, 0) = <<>>
  BY SubSeqEmpty
<1>6. Before' \in Seq(Byte)
  <2>1. Before \in Seq(Byte) /\ data \in Seq(Byte)
    BY HashTypes, ReturnedHolds DEF HashInv
  <2> QED
    BY <2>1, ConcatProperties
<1>7. Before' \o <<>> = Before'
  BY <1>6, ConcatEmptySeq
<1> QED
  BY <1>1, <1>3, <1>4, <1>5, <1>7 DEF CollectedInv

\* The padding follows the text.
LEMMA PaddingHash ==
  ASSUME HashInv, FinalPadding
  PROVE  HashInv'
<1>1. /\ UNCHANGED <<message, i, idx, count, buffer, blocks>>
      /\ pc = "returned" /\ pc' = "update" /\ phase = "text" /\ phase' = "padding"
      /\ data' = Pad(PadLength) /\ bitcount' = count
  BY DEF FinalPadding, context
<1>2. Inv /\ Inv' /\ data = message /\ count = Bits /\ message \in Seq(Byte) /\ Len(message) \in Nat
  BY <1>1, FinalStep, HashTypes DEF HashInv, DataInv, CountInv
<1>3. Pending = Size
  <2>1. 0 \in Nat /\ 0 % 8 = 0 /\ (0 \div 8) % 64 = 0
    OBVIOUS
  <2> DEFINE n == Len(message)
             d == (0 + 8 * n) % CountModulus
  <2>2. (d \div 8) % 64 = (((0 \div 8) % 64) + n) % 64
    BY <1>2, <2>1, CountFacts
  <2>3. d = Bits
    <3>1. 0 + 8 * n = 8 * n
      BY <1>2
    <3> QED
      BY <3>1 DEF Bits
  <2>4. Pending = (count \div 8) % 64
    BY DEF Pending, BlockSize
  <2> HIDE DEF d
  <2>5. (0 + n) % 64 = n % 64
    BY <1>2
  <2> QED
    BY <1>2, <2>1, <2>2, <2>3, <2>4, <2>5 DEF Size
<1>4. data' = Padding
  BY <1>1, <1>2, <1>3, PadIsPadding
<1>5. Padding' = Padding /\ Bits' = Bits /\ Size' = Size /\ Pending' = Pending
  BY <1>1 DEF Padding, Zeros, Bits, Size, Pending
<1>6. DataInv' /\ CountInv'
  BY <1>1, <1>2, <1>3, <1>4, <1>5 DEF DataInv, CountInv
<1>7. Before' = Before \o data
  <2>1. <<>> \o message = message
    BY <1>2, ConcatEmptySeq
  <2> QED
    BY <1>1, <1>2, <2>1 DEF Before
<1>8. CollectedInv'
  BY <1>1, <1>2, <1>7, NextCall
<1> QED
  BY <1>1, <1>2, <1>6, <1>8 DEF HashInv

\* The length follows the padding.
LEMMA LengthHash ==
  ASSUME HashInv, FinalLength
  PROVE  HashInv'
<1>1. /\ UNCHANGED <<message, i, idx, count, buffer, blocks, bitcount>>
      /\ pc = "returned" /\ pc' = "update" /\ phase = "padding" /\ phase' = "length"
      /\ data' = BigEndian(bitcount)
  BY DEF FinalLength, context
<1>2. Inv /\ Inv' /\ data = Padding /\ bitcount = Bits /\ Pending = 56
  BY <1>1, FinalStep DEF HashInv, DataInv, CountInv
<1>3. Padding' = Padding /\ Bits' = Bits /\ Pending' = Pending
  BY <1>1 DEF Padding, Zeros, Bits, Pending
<1>4. DataInv' /\ CountInv'
  BY <1>1, <1>2, <1>3 DEF DataInv, CountInv
<1>5. Before' = Before \o data
  BY <1>1, <1>2, <1>3 DEF Before
<1>6. CollectedInv'
  BY <1>1, <1>2, <1>5, NextCall
<1> QED
  BY <1>1, <1>2, <1>4, <1>6 DEF HashInv

\* a step that changes nothing, or only leaves sha256_final
LEMMA QuietHash ==
  ASSUME HashInv, Inv', FinalDigest \/ UNCHANGED vars
  PROVE  HashInv'
<1>1. /\ UNCHANGED <<message, phase, data, i, idx, count, buffer, blocks, bitcount>>
      /\ \/ pc = "returned" /\ pc' = "done" /\ phase = "length"
         \/ pc' = pc
  BY DEF FinalDigest, vars, locals, context
<1>2. Padding' = Padding /\ Bits' = Bits /\ Size' = Size /\ Pending' = Pending
  BY <1>1 DEF Padding, Zeros, Bits, Size, Pending
<1>3. Before' = Before /\ DataInv' /\ CountInv'
  BY <1>1, <1>2 DEF Before, HashInv, DataInv, CountInv
<1>4. Filled' = Filled /\ Taken' = Taken
  BY <1>1, <1>2 DEF Filled, Taken
<1>5. Collected' = Collected
  BY <1>1, <1>4 DEF Collected, Kept
<1>6. CollectedInv'
  BY <1>1, <1>3, <1>4, <1>5 DEF HashInv, CollectedInv
<1> QED
  BY <1>1, <1>3, <1>6 DEF HashInv

\* The context is empty when sha256_digest is entered.
LEMMA HashInit == Init => HashInv
<1> SUFFICES ASSUME Init PROVE HashInv
  OBVIOUS
<1>1. /\ pc = "update" /\ phase = "text" /\ data = message /\ i = 0 /\ count = 0
      /\ blocks = <<>> /\ Inv
  BY InvInit DEF Init
<1>2. Filled = 0 /\ Taken = 0 /\ Before = <<>>
  BY <1>1 DEF Filled, Taken, Before, Pending, BlockSize
<1>3. Collected = <<>> \o <<>>
  BY <1>1, <1>2, FlattenEmpty, NothingKept DEF Collected
<1>4. SubSeq(data, 1, 0) = <<>>
  BY SubSeqEmpty
<1> QED
  BY <1>1, <1>2, <1>3, <1>4 DEF HashInv, DataInv, CountInv, CollectedInv

\* The context holds what it was given, in every reachable state.
LEMMA HashInvariant == Spec => []HashInv
<1>1. HashInv /\ [Next]_vars => HashInv'
  BY UpdateHash, FillHash, WholeHash, RestHash, PaddingHash, LengthHash, QuietHash,
     FinalStep, StutterStep DEF Next, HashInv
<1> QED
  BY <1>1, HashInit, PTL DEF Spec

\* all that was given, in the order it was given
LEMMA BeforeGiven ==
  ASSUME HashInv
  PROVE  Before \o data = Given
<1>1. /\ message \in Seq(Byte) /\ Padding \in Seq(Byte) /\ data \in Seq(Byte)
      /\ phase \in {"text", "padding", "length"} /\ Zeros \in Nat
  BY HashTypes, PendingFacts DEF HashInv, Inv, TypeOK
<1>2. CASE phase = "text"
  <2>1. data = message /\ <<>> \o message = message
    BY <1>1, <1>2, ConcatEmptySeq DEF HashInv, DataInv
  <2> QED
    BY <1>2, <2>1 DEF Before, Given
<1>3. CASE phase = "padding"
  BY <1>3 DEF Before, Given
<1>4. CASE phase = "length"
  <2> DEFINE z == [k \in 1..Zeros |-> 0]
  <2>1. data = BigEndian((8 * Len(message)) % CountModulus)
    BY <1>4 DEF HashInv, DataInv, Bits
  <2>2. z \in Seq(Byte) /\ <<128>> \in Seq(Byte)
    <3>1. 128 \in Byte /\ 0 \in Byte
      BY DEF Byte
    <3> QED
      BY <1>1, <3>1
  <2>3. Padding = <<128>> \o z
    BY DEF Padding
  <2>4. Padded = ((message \o <<128>>) \o z) \o data
    BY <2>1 DEF Padded
  <2> HIDE DEF z
  <2>5. (message \o <<128>>) \o z = message \o (<<128>> \o z)
    BY <1>1, <2>2, Regroup
  <2> QED
    BY <1>4, <2>3, <2>4, <2>5 DEF Before, Given
<1> QED
  BY <1>1, <1>2, <1>3, <1>4

\* NothingLost: however a text is cut into blocks, when sha256_update returns
\* the blocks and the pending part of the buffer are what was given so far, in
\* order, and the wrapping bit counter says where the buffer ends (def.c:188-211).
THEOREM UpdateLosesNothing == Spec => []NothingLost
<1>1. HashInv => NothingLost
  <2> SUFFICES ASSUME HashInv, pc = "returned"
               PROVE  FlattenSeq(blocks) \o [o \in 1..Pending |-> buffer[o - 1]] = Given
    BY DEF NothingLost
  <2>1. Collected = Given /\ Filled = Pending
    BY ReturnedHolds, BeforeGiven
  <2> QED
    BY <2>1 DEF Collected, Kept
<1> QED
  BY <1>1, HashInvariant, PTL

\* CompressesPadded: what sha256_digest compresses is the padded message, for
\* every length of the text (def.c:213-240).
THEOREM PaddedIsCompressed == Spec => []CompressesPadded
<1>1. HashInv => CompressesPadded
  <2> SUFFICES ASSUME HashInv, pc = "done" PROVE FlattenSeq(blocks) = Padded
    BY DEF CompressesPadded
  <2>1. Collected = Given /\ Filled = Pending /\ phase = "length"
    BY ReturnedHolds, BeforeGiven DEF HashInv
  <2>2. Pending = 0
    BY <2>1 DEF HashInv, CountInv
  <2>3. FlattenSeq(blocks) \in Seq(Byte)
    BY HashTypes DEF HashInv
  <2> DEFINE f == FlattenSeq(blocks)
  <2>4. Collected = f \o <<>>
    BY <2>1, <2>2, NothingKept DEF Collected
  <2> HIDE DEF f
  <2>5. f \o <<>> = f
    BY <2>3, ConcatEmptySeq DEF f
  <2> QED
    BY <2>1, <2>4, <2>5 DEF Given, f
<1> QED
  BY <1>1, HashInvariant, PTL
=============================================================================
