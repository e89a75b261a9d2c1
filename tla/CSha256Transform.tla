-------------------------- MODULE CSha256Transform --------------------------
(***************************************************************************)
(* sha256_transform of packages/c/src/def.c: one block is compressed into  *)
(* the eight words of the context.  A word is the set of its bits that are *)
(* set, 0 the least significant.  A step is one iteration of a loop.       *)
(***************************************************************************)
EXTENDS Integers, Sequences
LOCAL INSTANCE SequencesExt
LOCAL INSTANCE FiniteSetsExt

VARIABLES
  state,      \* the words of the context
  stage,      \* the loop: "idle" when no block is being compressed
  t, w, r     \* the locals: i, the message schedule, and a to h

vars == <<state, stage, t, w, r>>

-----------------------------------------------------------------------------
(* uint32_t                                                                *)

Word == SUBSET (0..31)

\* the word of two numbers of 16 bits
Bits(high, low) ==
  { b \in 0..31 : (IF b < 16 THEN low \div 2^b ELSE high \div 2^(b - 16)) % 2 = 1 }

Xor(x, y) == (x \cup y) \ (x \cap y)

\* mutant: what is shifted out comes back at the other end
MutShr(x, n) == { (b - n) % 32 : b \in x }

Shr(x, n)  == { b - n : b \in { c \in x : c >= n } }
Rotr(x, n) == { (b - n) % 32 : b \in x }

\* the sum: bit b is set when one or all three of x, y and the carry have it
Add[x \in Word, y \in Word] ==
  LET carry[b \in 0..31] ==
        /\ b > 0
        /\ \/ b - 1 \in x \cap y
           \/ b - 1 \in x \cup y /\ carry[b - 1]
  IN  { b \in 0..31 : ((b \in x) # (b \in y)) # carry[b] }

Sum(words) == FoldLeft(LAMBDA x, y : Add[x, y], {}, words)

-----------------------------------------------------------------------------
\* the big-endian word of four bytes
WordAt(bytes, j) ==
  Bits((bytes[j] * 256) + bytes[j + 1], (bytes[j + 2] * 256) + bytes[j + 3])

\* sha256_init
InitialState ==
  <<Bits(\h6a09, \he667), Bits(\hbb67, \hae85), Bits(\h3c6e, \hf372), Bits(\ha54f, \hf53a),
    Bits(\h510e, \h527f), Bits(\h9b05, \h688c), Bits(\h1f83, \hd9ab), Bits(\h5be0, \hcd19)>>

Init ==
  /\ state = InitialState
  /\ stage = "idle" /\ t = 0 /\ w = <<>> /\ r = <<>>

\* sha256_transform is called, and the block is taken for the first 16 words
Load(bytes) ==
  /\ stage = "idle"
  /\ w' = [j \in 1..16 |-> WordAt(bytes, (4 * j) - 3)]
  /\ t' = 16 /\ stage' = "schedule"
  /\ UNCHANGED <<state, r>>

Sigma(x, m, n, rest) == Xor(Xor(Rotr(x, m), Rotr(x, n)), rest)

Schedule ==
  /\ stage = "schedule" /\ t < 64
  /\ LET s0 == Sigma(w[t - 14], 7, 18, Shr(w[t - 14], 3))
         s1 == Sigma(w[t - 1], 17, 19, Shr(w[t - 1], 10))
     IN  w' = Append(w, Sum(<<w[t - 15], s0, w[t - 6], s1>>))
  /\ t' = t + 1
  /\ UNCHANGED <<state, stage, r>>

BeginRounds ==
  /\ stage = "schedule" /\ t = 64
  /\ r' = state /\ t' = 0 /\ stage' = "rounds"
  /\ UNCHANGED <<state, w>>

SHA256_K ==
  <<Bits(\h428a, \h2f98), Bits(\h7137, \h4491), Bits(\hb5c0, \hfbcf), Bits(\he9b5, \hdba5),
    Bits(\h3956, \hc25b), Bits(\h59f1, \h11f1), Bits(\h923f, \h82a4), Bits(\hab1c, \h5ed5),
    Bits(\hd807, \haa98), Bits(\h1283, \h5b01), Bits(\h2431, \h85be), Bits(\h550c, \h7dc3),
    Bits(\h72be, \h5d74), Bits(\h80de, \hb1fe), Bits(\h9bdc, \h06a7), Bits(\hc19b, \hf174),
    Bits(\he49b, \h69c1), Bits(\hefbe, \h4786), Bits(\h0fc1, \h9dc6), Bits(\h240c, \ha1cc),
    Bits(\h2de9, \h2c6f), Bits(\h4a74, \h84aa), Bits(\h5cb0, \ha9dc), Bits(\h76f9, \h88da),
    Bits(\h983e, \h5152), Bits(\ha831, \hc66d), Bits(\hb003, \h27c8), Bits(\hbf59, \h7fc7),
    Bits(\hc6e0, \h0bf3), Bits(\hd5a7, \h9147), Bits(\h06ca, \h6351), Bits(\h1429, \h2967),
    Bits(\h27b7, \h0a85), Bits(\h2e1b, \h2138), Bits(\h4d2c, \h6dfc), Bits(\h5338, \h0d13),
    Bits(\h650a, \h7354), Bits(\h766a, \h0abb), Bits(\h81c2, \hc92e), Bits(\h9272, \h2c85),
    Bits(\ha2bf, \he8a1), Bits(\ha81a, \h664b), Bits(\hc24b, \h8b70), Bits(\hc76c, \h51a3),
    Bits(\hd192, \he819), Bits(\hd699, \h0624), Bits(\hf40e, \h3585), Bits(\h106a, \ha070),
    Bits(\h19a4, \hc116), Bits(\h1e37, \h6c08), Bits(\h2748, \h774c), Bits(\h34b0, \hbcb5),
    Bits(\h391c, \h0cb3), Bits(\h4ed8, \haa4a), Bits(\h5b9c, \hca4f), Bits(\h682e, \h6ff3),
    Bits(\h748f, \h82ee), Bits(\h78a5, \h636f), Bits(\h84c8, \h7814), Bits(\h8cc7, \h0208),
    Bits(\h90be, \hfffa), Bits(\ha450, \h6ceb), Bits(\hbef9, \ha3f7), Bits(\hc671, \h78f2)>>

Round ==
  LET a == r[1]  b == r[2]  c == r[3]  d == r[4]
      e == r[5]  f == r[6]  g == r[7]  h == r[8]
      choice   == Xor(e \cap f, g \ e)
      majority == Xor(Xor(a \cap b, a \cap c), b \cap c)
      temp1 == Sum(<<h, Sigma(e, 6, 11, Rotr(e, 25)), choice, SHA256_K[t + 1], w[t + 1]>>)
      temp2 == Add[Sigma(a, 2, 13, Rotr(a, 22)), majority]
  IN  /\ stage = "rounds" /\ t < 64
      /\ r' = <<Add[temp1, temp2], a, b, c, Add[d, temp1], e, f, g>>
      /\ t' = t + 1
      /\ UNCHANGED <<state, stage, w>>

AddToState ==
  /\ stage = "rounds" /\ t = 64
  /\ state' = [j \in 1..8 |-> Add[state[j], r[j]]]
  /\ stage' = "idle" /\ t' = 0 /\ w' = <<>> /\ r' = <<>>

Compressing == Schedule \/ BeginRounds \/ Round \/ AddToState

\* the 32 bytes of the state, each word from its most significant byte on
StateBytes ==
  LET value(x) == MapThenSumSet(LAMBDA b : 2^b, x \cap 0..7) IN
  [j \in 1..32 |-> value(Shr(state[((j - 1) \div 4) + 1], 24 - (8 * ((j - 1) % 4))))]
=============================================================================
