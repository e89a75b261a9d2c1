------------------------------ MODULE CSha256 ------------------------------
(***************************************************************************)
(* sha256_digest of packages/c/src/def.c: how a text is cut into blocks    *)
(* and padded.  The compression function is not interpreted: the state of  *)
(* the hash is represented by the blocks it was compressed from, in order. *)
(* A step is one memcpy, one block or one call of sha256_update.           *)
(***************************************************************************)
EXTENDS Integers, Sequences
LOCAL INSTANCE SequencesExt

CONSTANTS
  Messages,       \* the texts hashed
  CountModulus    \* where the bit counter wraps: 2^64

Byte      == 0..255
BlockSize == 64

ASSUME MessagesAssumption == Messages \subseteq Seq(Byte)
ASSUME CountAssumption ==
  CountModulus \in Nat /\ \E n \in 1..CountModulus : CountModulus = 8 * BlockSize * n

Undefined == -1   \* a byte that was never written, or is not there

VARIABLES
  message,            \* the text being hashed
  pc,
  phase,              \* what is being added: "text", "padding" or "length"
  data,               \* the bytes given to this call of sha256_update
  i, idx,             \* its locals
  count, buffer,      \* the context: bits so far and bytes not yet compressed
  blocks,             \* the blocks compressed into the context
  bitcount            \* the local of sha256_final

locals  == <<phase, data, i, idx>>
context == <<count, buffer, blocks>>
vars    == <<message, pc, locals, context, bitcount>>

Init ==
  /\ message \in Messages
  /\ pc = "update" /\ phase = "text" /\ data = message
  /\ i = 0 /\ idx = 0
  /\ count = 0 /\ buffer = [o \in 0..(BlockSize - 1) |-> Undefined]
  /\ blocks = <<>>
  /\ bitcount = 0

-----------------------------------------------------------------------------
\* bytes waiting in the buffer
Pending == (count \div 8) % BlockSize

\* memcpy(ctx->buffer + at, bytes, Len(bytes))
Copied(at, bytes) ==
  [o \in DOMAIN buffer \cup at..(at + Len(bytes) - 1) |->
     IF o \in at..(at + Len(bytes) - 1) THEN bytes[o - at + 1] ELSE buffer[o]]

Compress(block) == blocks' = Append(blocks, block)

\* sha256_update is entered: is there enough for a block?
Update ==
  /\ pc = "update"
  /\ i' = 0 /\ idx' = Pending
  /\ count' = (count + 8 * Len(data)) % CountModulus
  /\ pc' = IF Pending + Len(data) < BlockSize THEN "tail"
           ELSE IF Pending > 0 THEN "fill" ELSE "whole"
  /\ UNCHANGED <<message, phase, data, buffer, blocks, bitcount>>

\* mutant: the bytes left over are stored behind the block
MutAfterFill == idx

AfterFill == 0

\* the buffer is filled up and compressed
Fill ==
  /\ pc = "fill"
  /\ LET filled == Copied(idx, SubSeq(data, 1, BlockSize - idx))
     IN  /\ buffer' = filled
         /\ Compress([o \in 1..BlockSize |-> filled[o - 1]])
  /\ i' = BlockSize - idx /\ idx' = AfterFill
  /\ pc' = "whole"
  /\ UNCHANGED <<message, phase, data, count, bitcount>>

\* mutant: off by one, a last whole block is not taken
MutBlockLeft == i + BlockSize < Len(data)

BlockLeft == i + BlockSize <= Len(data)

\* a block is compressed where it is
Whole ==
  /\ pc = "whole" /\ BlockLeft
  /\ Compress(SubSeq(data, i + 1, i + BlockSize))
  /\ i' = i + BlockSize
  /\ UNCHANGED <<message, pc, phase, data, idx, count, buffer, bitcount>>

\* what is left goes to the buffer, and sha256_update returns
Rest ==
  /\ pc = "tail" \/ (pc = "whole" /\ ~BlockLeft)
  /\ buffer' = Copied(idx, SubSeq(data, i + 1, Len(data)))
  /\ pc' = "returned" /\ i' = 0 /\ idx' = 0
  /\ UNCHANGED <<message, phase, data, count, blocks, bitcount>>

-----------------------------------------------------------------------------
\* mutant: no second block when the length just does not fit
MutPadLength == IF Pending <= 56 THEN 56 - Pending ELSE 120 - Pending

\* mutant: always into the next block
LongPadLength == 120 - Pending

\* up to the place of the length, in this block or in the next one
PadLength == IF Pending < 56 THEN 56 - Pending ELSE 120 - Pending

\* the local array pad of 64 bytes, read from its start
Pad(n) == [o \in 1..n |-> IF o > BlockSize THEN Undefined ELSE IF o = 1 THEN 128 ELSE 0]

\* the eight bytes of the bit count, most significant first
BigEndian(n) ==
  LET weight  == <<16777216, 65536, 256, 1>>
      word(w) == [b \in 1..4 |-> (w \div weight[b]) % 256]
  IN  word((n \div 65536) \div 65536) \o word(n)

FinalPadding ==
  /\ pc = "returned" /\ phase = "text"
  /\ phase' = "padding" /\ data' = Pad(PadLength) /\ bitcount' = count
  /\ pc' = "update"
  /\ UNCHANGED <<message, i, idx, context>>

FinalLength ==
  /\ pc = "returned" /\ phase = "padding"
  /\ phase' = "length" /\ data' = BigEndian(bitcount)
  /\ pc' = "update"
  /\ UNCHANGED <<message, i, idx, context, bitcount>>

FinalDigest ==
  /\ pc = "returned" /\ phase = "length"
  /\ pc' = "done"
  /\ UNCHANGED <<message, locals, context, bitcount>>

Next == \/ Update \/ Fill \/ Whole \/ Rest
        \/ FinalPadding \/ FinalLength \/ FinalDigest

Spec == Init /\ [][Next]_vars

-----------------------------------------------------------------------------
\* What SHA-256 hashes for a message: the message, a one bit, zeros up to 8
\* bytes before the end of a block, the length in bits.
Zeros  == (119 - (Len(message) % BlockSize)) % BlockSize
Padded == message \o <<128>> \o [z \in 1..Zeros |-> 0]
          \o BigEndian((8 * Len(message)) % CountModulus)

\* What the context was given in the calls of sha256_update so far.
Given ==
  IF phase = "text" THEN message
  ELSE IF phase = "padding" THEN message \o data
  ELSE Padded

TypeOK ==
  /\ message \in Messages
  /\ pc \in {"update", "fill", "whole", "tail", "returned", "done"}
  /\ phase \in {"text", "padding", "length"}
  /\ data \in Seq(Byte)
  /\ i \in 0..Len(data) /\ idx \in 0..(BlockSize - 1)
  /\ count \in 0..(CountModulus - 1) /\ bitcount \in 0..(CountModulus - 1)
  /\ buffer \in [0..(BlockSize - 1) -> Byte \cup {Undefined}]
  /\ \A b \in DOMAIN blocks : blocks[b] \in [1..BlockSize -> Byte \cup {Undefined}]

\* Between two calls nothing is lost, doubled or out of order: the blocks and
\* then the pending part of the buffer are what was given, and the bit count
\* says where the buffer ends although it wraps (def.c:188-211).
NothingLost ==
  pc = "returned" =>
    FlattenSeq(blocks) \o [o \in 1..Pending |-> buffer[o - 1]] = Given

\* What has been compressed in the end is the padded message, whichever side
\* of a block boundary the text ends on (def.c:213-240).
CompressesPadded == pc = "done" => FlattenSeq(blocks) = Padded

\* No copy leaves the block buffer, no read leaves the local array pad, and no
\* byte that was never written is compressed.
NothingUndefined ==
  /\ DOMAIN buffer = 0..(BlockSize - 1)
  /\ \A o \in DOMAIN data : data[o] # Undefined
  /\ \A b \in DOMAIN blocks : \A o \in DOMAIN blocks[b] : blocks[b][o] # Undefined
=============================================================================
