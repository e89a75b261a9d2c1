---------------------------- MODULE DefCoreProofs ----------------------------
(***************************************************************************)
(* Proofs about DefBytes and DefCore, for all texts: what the encoder      *)
(* emits for a byte, a component and a whole text, and that the decoder    *)
(* takes it back.  The recursive definitions of DefCore are reasoned about *)
(* with the inductions of DataInduction: along the bytes, as the scans     *)
(* run, and along the components of a text.                                *)
(***************************************************************************)
EXTENDS DefCore, DataInduction
LOCAL INSTANCE SequencesExt

\* the two digits of a byte are hex digits the decoder knows
LEMMA HexDigits ==
  ASSUME NEW n \in 0..15
  PROVE  IsHexDigit(HexDigit(n)) /\ Nibble(HexDigit(n)) = n
  BY DEF IsHexDigit, IsDigit, HexDigit, Nibble

\* a byte is put together from its two digits
LEMMA TwoDigits ==
  ASSUME NEW b \in Byte
  PROVE  /\ b \div 16 \in 0..15 /\ b % 16 \in 0..15
         /\ (b \div 16) * 16 + (b % 16) = b
  BY DEF Byte

\* parse_hex_byte undoes append_body_escape: an escape has two digits that the
\* decoder accepts, and stands for the byte it was made of (def.c:31-55).
THEOREM EscapesInvert ==
  \A b \in Byte : ~IsLiteralByte(b) =>
    /\ EncodeByte(b)[1] = HYPHEN
    /\ IsHexDigit(EncodeByte(b)[2]) /\ IsHexDigit(EncodeByte(b)[3])
    /\ HexByte(EncodeByte(b)[2], EncodeByte(b)[3]) = b
<1> SUFFICES ASSUME NEW b \in Byte, ~IsLiteralByte(b)
             PROVE  /\ EncodeByte(b)[1] = HYPHEN
                    /\ IsHexDigit(EncodeByte(b)[2]) /\ IsHexDigit(EncodeByte(b)[3])
                    /\ HexByte(EncodeByte(b)[2], EncodeByte(b)[3]) = b
  OBVIOUS
<1>1. EncodeByte(b) = <<HYPHEN, HexDigit(b \div 16), HexDigit(b % 16)>>
  BY DEF EncodeByte
<1>2. HexByte(HexDigit(b \div 16), HexDigit(b % 16)) = b
  BY HexDigits, TwoDigits DEF HexByte
<1> QED
  BY <1>1, <1>2, HexDigits, TwoDigits

\* Folding is idempotent, and only folds upper case: encoding what was decoded
\* gives the same representation byte by byte (def.c:297-301).
THEOREM FoldingIsIdempotent ==
  \A b \in Byte : /\ Canonical(b) \in Byte /\ Canonical(Canonical(b)) = Canonical(b)
                  /\ Canonical(b) \notin 65..90
  BY DEF Canonical, Byte

\* the encoding of a byte is one byte, or a hyphen and two more
LEMMA EncodingShape ==
  ASSUME NEW b \in Byte
  PROVE  \/ IsLiteralByte(b) /\ EncodeByte(b) = <<b>> /\ b # HYPHEN
         \/ ~IsLiteralByte(b) /\ \E h, l \in Nat : EncodeByte(b) = <<HYPHEN, h, l>>
<1>1. CASE IsLiteralByte(b)
  BY <1>1 DEF EncodeByte, IsLiteralByte, IsDigit, HYPHEN
<1>2. CASE ~IsLiteralByte(b)
  <2>1. HexDigit(b \div 16) \in Nat /\ HexDigit(b % 16) \in Nat
    BY TwoDigits DEF HexDigit
  <2> QED
    BY <1>2, <2>1 DEF EncodeByte
<1> QED
  BY <1>1, <1>2

\* The encoding of a byte is not the beginning of that of another: behind any
\* byte the decoder finds the next one where the encoder began it (def.c:328-358).
THEOREM PrefixFree ==
  \A b, c \in Byte :
    /\ Len(EncodeByte(b)) <= Len(EncodeByte(c))
    /\ \A p \in 1..Len(EncodeByte(b)) : EncodeByte(b)[p] = EncodeByte(c)[p]
    => b = c
<1> SUFFICES ASSUME NEW b \in Byte, NEW c \in Byte,
                    Len(EncodeByte(b)) <= Len(EncodeByte(c)),
                    \A p \in 1..Len(EncodeByte(b)) : EncodeByte(b)[p] = EncodeByte(c)[p]
             PROVE  b = c
  OBVIOUS
<1>1. EncodeByte(b)[1] = EncodeByte(c)[1]
  <2>1. Len(EncodeByte(b)) \in {1, 3}
    BY DEF EncodeByte
  <2> QED
    BY <2>1
<1>2. CASE IsLiteralByte(b)
  <2>1. EncodeByte(b)[1] = b /\ b # HYPHEN
    BY <1>2, EncodingShape
  <2>2. IsLiteralByte(c)
    BY <1>1, <2>1, EscapesInvert
  <2> QED
    BY <1>1, <2>1, <2>2 DEF EncodeByte
<1>3. CASE ~IsLiteralByte(b)
  <2>1. EncodeByte(b)[1] = HYPHEN /\ Len(EncodeByte(b)) = 3
    BY <1>3, EncodingShape
  <2>2. ~IsLiteralByte(c)
    BY <1>1, <2>1, EncodingShape
  <2>3. EncodeByte(b)[2] = EncodeByte(c)[2] /\ EncodeByte(b)[3] = EncodeByte(c)[3]
    BY <2>1
  <2> QED
    BY <1>3, <2>2, <2>3, EscapesInvert
<1> QED
  BY <1>2, <1>3
-----------------------------------------------------------------------------

\* folding a byte gives a byte
LEMMA CanonicalByte ==
  ASSUME NEW b \in Byte
  PROVE  Canonical(b) \in Byte
  BY DEF Canonical, Byte

\* one byte is emitted as one or three bytes
LEMMA EncodeByteType ==
  ASSUME NEW b \in Byte
  PROVE  EncodeByte(b) \in Seq(Byte) /\ Len(EncodeByte(b)) \in {1, 3}
<1>1. b \div 16 \in 0..15 /\ b % 16 \in 0..15
  BY DEF Byte
<1>2. HexDigit(b \div 16) \in Byte /\ HexDigit(b % 16) \in Byte /\ HYPHEN \in Byte
  BY <1>1 DEF HexDigit, Byte, HYPHEN
<1> QED
  BY <1>2 DEF EncodeByte

Coded(s) == [j \in DOMAIN s |-> EncodeByte(Canonical(s[j]))]

\* what the bytes of a text are emitted as
LEMMA CodedType ==
  ASSUME NEW s \in Seq(Byte)
  PROVE  /\ Coded(s) \in Seq(Seq(Byte)) /\ Len(Coded(s)) = Len(s)
         /\ \A j \in 1..Len(s) : Coded(s)[j] = EncodeByte(Canonical(s[j]))
<1>1. \A j \in 1..Len(s) : EncodeByte(Canonical(s[j])) \in Seq(Byte)
  BY CanonicalByte, EncodeByteType
<1>2. DOMAIN s = 1..Len(s) /\ Len(s) \in Nat
  OBVIOUS
<1> QED
  BY <1>1, <1>2 DEF Coded

\* two texts after one another are emitted one after the other
LEMMA CodedConcat ==
  ASSUME NEW s \in Seq(Byte), NEW t \in Seq(Byte)
  PROVE  Coded(s \o t) = Coded(s) \o Coded(t)
<1> DEFINE B == Seq(Byte)
<1>0. /\ s \o t \in Seq(Byte) /\ Len(s \o t) = Len(s) + Len(t)
      /\ Len(s) \in Nat /\ Len(t) \in Nat
  BY ConcatProperties
<1>1. /\ Coded(s) \in Seq(B) /\ Len(Coded(s)) = Len(s)
      /\ Coded(t) \in Seq(B) /\ Len(Coded(t)) = Len(t)
      /\ Coded(s \o t) \in Seq(B) /\ Len(Coded(s \o t)) = Len(s \o t)
  BY <1>0, CodedType
<1> HIDE DEF B
<1>2. Len(Coded(s \o t)) = Len(Coded(s) \o Coded(t)) /\ Coded(s) \o Coded(t) \in Seq(B)
  BY <1>0, <1>1, ConcatProperties
<1>3. ASSUME NEW j \in 1..Len(Coded(s \o t))
      PROVE  Coded(s \o t)[j] = (Coded(s) \o Coded(t))[j]
  <2>1. j \in 1..(Len(s) + Len(t)) /\ Len(Coded(s)) = Len(s) /\ Len(Coded(t)) = Len(t)
    BY <1>0, <1>1
  <2>2. Coded(s \o t)[j] = EncodeByte(Canonical((s \o t)[j]))
    BY <1>0, <1>1, <2>1, CodedType
  <2>3. (s \o t)[j] = IF j <= Len(s) THEN s[j] ELSE t[j - Len(s)]
    BY <1>0, <2>1, ConcatProperties
  <2>4. (Coded(s) \o Coded(t))[j] = IF j <= Len(s) THEN Coded(s)[j] ELSE Coded(t)[j - Len(s)]
    BY <1>1, <2>1, ConcatProperties
  <2>5. CASE j <= Len(s)
    BY <2>1, <2>2, <2>3, <2>4, <2>5, CodedType
  <2>6. CASE ~(j <= Len(s))
    <3>1. j - Len(s) \in 1..Len(t)
      BY <1>0, <2>1, <2>6
    <3> QED
      BY <2>2, <2>3, <2>4, <2>6, <3>1, CodedType
  <2> QED
    BY <2>5, <2>6
<1> QED
  BY <1>1, <1>2, <1>3, SeqEqual

\* EncodeComponent puts the emitted bytes together
LEMMA EncodeIsFlatten ==
  ASSUME NEW s PROVE EncodeComponent(s) = FlattenSeq(Coded(s))
  BY DEF EncodeComponent, Coded

\* an encoded component is a byte sequence
LEMMA EncodeType ==
  ASSUME NEW s \in Seq(Byte)
  PROVE  EncodeComponent(s) \in Seq(Byte)
  BY CodedType, FlattenType, EncodeIsFlatten

\* Two texts after one another are encoded one after the other.
LEMMA EncodeConcat ==
  ASSUME NEW s \in Seq(Byte), NEW t \in Seq(Byte)
  PROVE  EncodeComponent(s \o t) = EncodeComponent(s) \o EncodeComponent(t)
<1>1. Coded(s) \in Seq(Seq(Byte)) /\ Coded(t) \in Seq(Seq(Byte))
  BY CodedType
<1> QED
  BY <1>1, CodedConcat, FlattenConcat, EncodeIsFlatten

\* the empty component
LEMMA EncodeEmpty == EncodeComponent(<<>>) = <<>>
  BY FlattenEmpty DEF EncodeComponent

\* a component of one byte
LEMMA EncodeSingle ==
  ASSUME NEW b \in Byte
  PROVE  EncodeComponent(<<b>>) = EncodeByte(Canonical(b))
<1>1. Coded(<<b>>) = <<EncodeByte(Canonical(b))>>
  BY DEF Coded
<1>2. EncodeByte(Canonical(b)) \in Seq(Byte)
  BY CanonicalByte, EncodeByteType
<1> QED
  BY <1>1, <1>2, FlattenSingle, EncodeIsFlatten

-----------------------------------------------------------------------------
IsEscape(c, i) == /\ c[i] = HYPHEN
                  /\ i + 2 <= Len(c)
                  /\ IsHexDigit(c[i + 1]) /\ IsHexDigit(c[i + 2])

\* one byte in front of every text of a set
Before(b, texts) == {<<b>> \o t : t \in texts}

DecodeRest(c, i, g) ==
  IF i > Len(c) THEN {<<>>}
  ELSE IF IsLiteralByte(c[i]) THEN Before(c[i], g[i + 1])
  ELSE IF IsEscape(c, i) THEN Before(HexByte(c[i + 1], c[i + 2]), g[i + 3])
  ELSE {}

Decoding(c) == CHOOSE g : g = [i \in 1..(Len(c) + 1) |-> DecodeRest(c, i, g)]

\* DecodeComponent in terms of the scan
LEMMA DecodeDef ==
  ASSUME NEW c
  PROVE  DecodeComponent(c) =
           LET texts == Decoding(c)[1]
           IN  IF texts = {} THEN Failure("INVALID_ESCAPE")
               ELSE IF \E t \in texts : ~Utf8Validate(t) THEN Failure("INVALID_UTF8")
               ELSE Success(CHOOSE t \in texts : TRUE)
  BY DEF DecodeComponent, Decoding, DecodeRest, Before, IsEscape

\* two nibbles are a byte
LEMMA HexByteType ==
  ASSUME NEW h \in Byte, NEW l \in Byte, IsHexDigit(h), IsHexDigit(l)
  PROVE  HexByte(h, l) \in Byte
  BY DEF HexByte, Nibble, IsHexDigit, IsDigit, Byte

\* a byte in front of every decoded text
LEMMA BeforeType ==
  ASSUME NEW b \in Byte, NEW texts \in SUBSET Seq(Byte)
  PROVE  Before(b, texts) \in SUBSET Seq(Byte)
<1>1. ASSUME NEW t \in texts PROVE <<b>> \o t \in Seq(Byte)
  <2>1. t \in Seq(Byte)
    OBVIOUS
  <2> QED
    BY <2>1
<1> QED
  BY <1>1 DEF Before

\* The scan when the literal bytes are taken from d: in every port but one d is c.
TakeRest(c, d, i, g) ==
  IF i > Len(c) THEN {<<>>}
  ELSE IF IsLiteralByte(d[i]) THEN Before(d[i], g[i + 1])
  ELSE IF IsEscape(c, i) THEN Before(HexByte(c[i + 1], c[i + 2]), g[i + 3])
  ELSE {}

Taking(c, d) == CHOOSE g : g = [i \in 1..(Len(c) + 1) |-> TakeRest(c, d, i, g)]

\* one step of the scan gives sets of texts
LEMMA TakeRestType ==
  ASSUME NEW c \in Seq(Nat), NEW d \in Seq(Nat), Len(d) = Len(c),
         NEW i \in 1..(Len(c) + 1), NEW g,
         \A j \in 1..(Len(c) + 1) : j > i => g[j] \in SUBSET Seq(Byte)
  PROVE  TakeRest(c, d, i, g) \in SUBSET Seq(Byte)
<1>0. Len(c) \in Nat
  OBVIOUS
<1>1. CASE i > Len(c)
  BY <1>1 DEF TakeRest
<1>2. CASE ~(i > Len(c)) /\ IsLiteralByte(d[i])
  <2>0. d[i] \in Byte
    BY <1>2 DEF IsLiteralByte, IsDigit, Byte
  <2>1. d[i] \in Byte /\ g[i + 1] \in SUBSET Seq(Byte)
    <3>1. i + 1 \in 1..(Len(c) + 1) /\ i + 1 > i
      BY <1>0, <1>2
    <3> QED
      BY <2>0, <3>1
  <2>2. Before(d[i], g[i + 1]) \in SUBSET Seq(Byte)
    BY <2>1, BeforeType
  <2> QED
    BY <1>2, <2>2 DEF TakeRest
<1>3. CASE ~(i > Len(c)) /\ ~IsLiteralByte(d[i]) /\ IsEscape(c, i)
  <2> DEFINE b == HexByte(c[i + 1], c[i + 2])
  <2>0. c[i + 1] \in Byte /\ c[i + 2] \in Byte
    BY <1>3 DEF IsEscape, IsHexDigit, IsDigit, Byte
  <2>1. c[i + 1] \in Byte /\ c[i + 2] \in Byte /\ g[i + 3] \in SUBSET Seq(Byte)
    BY <1>0, <1>3, <2>0, SMTT(30) DEF IsEscape
  <2>2. b \in Byte
    BY <1>3, <2>1, HexByteType DEF IsEscape
  <2> HIDE DEF b
  <2>3. Before(b, g[i + 3]) \in SUBSET Seq(Byte)
    BY <2>1, <2>2, BeforeType
  <2> QED
    BY <1>3, <2>3 DEF TakeRest, b
<1>4. CASE ~(i > Len(c)) /\ ~IsLiteralByte(d[i]) /\ ~IsEscape(c, i)
  BY <1>4 DEF TakeRest
<1> QED
  BY <1>1, <1>2, <1>3, <1>4

\* The scan exists and is a function of its positions.
LEMMA TakingDef ==
  ASSUME NEW c \in Seq(Nat), NEW d \in Seq(Nat), Len(d) = Len(c)
  PROVE  \A i \in 1..(Len(c) + 1) :
           /\ Taking(c, d)[i] \in SUBSET Seq(Byte)
           /\ Taking(c, d)[i] = TakeRest(c, d, i, Taking(c, d))
<1> DEFINE n == Len(c)
           D == 1..(n + 1)
           V == SUBSET Seq(Byte)
           Rhs == [i \in D |-> [g \in [D -> V] |-> TakeRest(c, d, i, g)]]
<1>0. n \in Nat
  OBVIOUS
<1>1. n \in Nat /\ V # {}
  BY <1>0
<1>2. Rhs \in [D -> [[D -> V] -> V]]
  BY TakeRestType
<1>3. LooksAhead(n, V, Rhs)
  <2> SUFFICES ASSUME NEW i \in D, NEW g \in [D -> V], NEW h \in [D -> V],
                      \A j \in D : j > i => g[j] = h[j]
               PROVE  TakeRest(c, d, i, g) = TakeRest(c, d, i, h)
    BY DEF LooksAhead
  <2>1. ~(i > n) => g[i + 1] = h[i + 1]
    BY <1>0
  <2>2. IsEscape(c, i) => g[i + 3] = h[i + 3]
    BY <1>0 DEF IsEscape
  <2> QED
    BY <2>1, <2>2 DEF TakeRest
<1>4. Solutions(D, V, Rhs) # {}
  <2> HIDE DEF V, n, Rhs
  <2> QED
    BY <1>1, <1>2, <1>3, ScanRecursion
<1>5. PICK g \in [D -> V] : \A i \in D : g[i] = TakeRest(c, d, i, g)
  BY <1>4 DEF Solutions
<1>6. g = [i \in D |-> TakeRest(c, d, i, g)]
  BY <1>5
<1> DEFINE f == Taking(c, d)
<1>7. f = [i \in D |-> TakeRest(c, d, i, f)]
  BY <1>6 DEF Taking
<1> HIDE DEF f
<1>8. \A i \in D : f[i] = TakeRest(c, d, i, f)
  BY <1>7
<1> DEFINE S == {i \in D : f[i] \in V}
<1>9. \A i \in D : (\A j \in D : j > i => j \in S) => i \in S
  <2> TAKE i \in D
  <2> HAVE \A j \in D : j > i => j \in S
  <2>1. TakeRest(c, d, i, f) \in V
    BY TakeRestType
  <2> QED
    BY <1>8, <2>1
<1>10. D \subseteq S
  <2> HIDE DEF n, S
  <2> QED
    BY <1>1, <1>9, ScanInduction
<1> QED
  BY <1>8, <1>10 DEF f

\* The scan of a component, of bytes or of wider units.
LEMMA DecodingOf ==
  ASSUME NEW c \in Seq(Nat)
  PROVE  \A i \in 1..(Len(c) + 1) :
           /\ Decoding(c)[i] \in SUBSET Seq(Byte)
           /\ Decoding(c)[i] = DecodeRest(c, i, Decoding(c))
<1>1. Decoding(c) = Taking(c, c)
  BY DEF Decoding, Taking, DecodeRest, TakeRest
<1>2. \A i \in 1..(Len(c) + 1) : /\ Taking(c, c)[i] \in SUBSET Seq(Byte)
                                /\ Taking(c, c)[i] = TakeRest(c, c, i, Taking(c, c))
  BY TakingDef
<1> QED
  BY <1>1, <1>2 DEF DecodeRest, TakeRest

\* the scan of bytes
LEMMA DecodingDef ==
  ASSUME NEW c \in Seq(Byte)
  PROVE  \A i \in 1..(Len(c) + 1) :
           /\ Decoding(c)[i] \in SUBSET Seq(Byte)
           /\ Decoding(c)[i] = DecodeRest(c, i, Decoding(c))
<1>1. Byte \subseteq Nat
  BY DEF Byte
<1>2. c \in Seq(Nat)
  BY <1>1, SeqMonotonic
<1> QED
  BY <1>2, DecodingOf

\* What is decoded from a position on is decided by the bytes from there on.
LEMMA DecodingShift ==
  ASSUME NEW u \in Seq(Byte), NEW v \in Seq(Byte)
  PROVE  \A i \in 1..(Len(v) + 1) : Decoding(u \o v)[Len(u) + i] = Decoding(v)[i]
<1> DEFINE n == Len(v)
           m == Len(u)
           w == u \o v
           f == Decoding(w)
           g == Decoding(v)
           S == {i \in 1..(n + 1) : f[m + i] = g[i]}
<1>1. /\ n \in Nat /\ m \in Nat /\ w \in Seq(Byte) /\ Len(w) = m + n
      /\ \A i \in 1..n : w[m + i] = v[i]
  BY ConcatProperties
<1>2. \A i \in 1..(n + 1) : g[i] = DecodeRest(v, i, g)
  BY DecodingDef
<1> HIDE DEF w
<1>3. \A i \in 1..(m + n + 1) : f[i] = DecodeRest(w, i, f)
  BY <1>1, DecodingDef
<1> HIDE DEF f, g, n, m
<1>4. ASSUME NEW i \in 1..(n + 1), \A j \in 1..(n + 1) : j > i => f[m + j] = g[j]
      PROVE  f[m + i] = g[i]
  <2>1. m + i \in 1..(m + n + 1)
    BY <1>1
  <2>2. f[m + i] = DecodeRest(w, m + i, f) /\ g[i] = DecodeRest(v, i, g)
    BY <1>2, <1>3, <2>1
  <2>3. CASE i > n
    <3>1. m + i > Len(w) /\ i > Len(v)
      BY <1>1, <2>3 DEF n
    <3> QED
      BY <2>2, <3>1 DEF DecodeRest
  <2>4. CASE ~(i > n)
    <3>1. /\ ~(m + i > Len(w)) /\ ~(i > Len(v))
          /\ w[m + i] = v[i] /\ f[m + i + 1] = g[i + 1]
      <4>1. i \in 1..n /\ i + 1 \in 1..(n + 1) /\ i + 1 > i /\ m + i + 1 = m + (i + 1)
        BY <1>1, <2>4
      <4>2. w[m + i] = v[i] /\ f[m + i + 1] = g[i + 1]
        BY <1>1, <1>4, <4>1
      <4>3. ~(m + i > m + n)
        BY <1>1, <4>1
      <4> QED
        BY <1>1, <2>4, <4>2, <4>3 DEF n
    <3>2. (m + i + 2 <= Len(w)) <=> (i + 2 <= Len(v))
      BY <1>1, <2>4 DEF n
    <3>3. ASSUME i + 2 <= Len(v)
          PROVE  /\ w[m + i + 1] = v[i + 1] /\ w[m + i + 2] = v[i + 2]
                 /\ f[m + i + 3] = g[i + 3]
      <4>1. /\ i + 1 \in 1..n /\ i + 2 \in 1..n
            /\ i + 3 \in 1..(n + 1) /\ i + 3 > i
            /\ m + i + 1 = m + (i + 1) /\ m + i + 2 = m + (i + 2) /\ m + i + 3 = m + (i + 3)
        BY <1>1, <2>4, <3>3 DEF n
      <4> QED
        BY <1>1, <1>4, <4>1
    <3>4. IsEscape(w, m + i) <=> IsEscape(v, i)
      BY <3>1, <3>2, <3>3 DEF IsEscape
    <3>5. IsEscape(v, i) => /\ HexByte(w[m + i + 1], w[m + i + 2]) = HexByte(v[i + 1], v[i + 2])
                            /\ f[m + i + 3] = g[i + 3]
      BY <3>3 DEF IsEscape
    <3> QED
      BY <2>2, <3>1, <3>4, <3>5 DEF DecodeRest
  <2> QED
    BY <2>3, <2>4
<1>5. 1..(n + 1) \subseteq S
  <2>1. \A i \in 1..(n + 1) : (\A j \in 1..(n + 1) : j > i => j \in S) => i \in S
    BY <1>4
  <2> HIDE DEF S
  <2> QED
    BY <1>1, <2>1, ScanInduction
<1> QED
  BY <1>5 DEF f, g, n, m, w

\* what c decodes to: one text, or none
DecodeTexts(c) == Decoding(c)[1]

\* nothing is left to decode
LEMMA DecodeEmpty == DecodeTexts(<<>>) = {<<>>}
<1>1. <<>> \in Seq(Byte) /\ Len(<<>>) = 0 /\ 1 \in 1..(0 + 1)
  OBVIOUS
<1>2. Decoding(<<>>)[1] = DecodeRest(<<>>, 1, Decoding(<<>>))
  BY <1>1, DecodingDef
<1> QED
  BY <1>1, <1>2 DEF DecodeRest, DecodeTexts

\* A literal byte decodes to itself.
LEMMA DecodeLiteral ==
  ASSUME NEW b \in Byte, IsLiteralByte(b), NEW v \in Seq(Byte)
  PROVE  DecodeTexts(<<b>> \o v) = Before(b, DecodeTexts(v))
<1> DEFINE e == <<b>>
           w == e \o v
<1>1. e \in Seq(Byte) /\ Len(e) = 1 /\ e[1] = b
  OBVIOUS
<1> HIDE DEF e
<1>a. e \in Seq(Byte)
  BY <1>1
<1>b. /\ w \in Seq(Byte) /\ Len(w) = Len(e) + Len(v) /\ Len(v) \in Nat
      /\ \A p \in 1..(Len(e) + Len(v)) : w[p] = IF p <= Len(e) THEN e[p] ELSE v[p - Len(e)]
  BY <1>a, ConcatProperties
<1>2. w \in Seq(Byte) /\ Len(w) = 1 + Len(v) /\ Len(v) \in Nat
  BY <1>1, <1>b
<1>3. w[1] = b
  BY <1>1, <1>b
<1>4. Decoding(w)[1 + 1] = Decoding(v)[1]
  BY <1>1, <1>2, DecodingShift
<1> HIDE DEF w
<1>5. Decoding(w)[1] = DecodeRest(w, 1, Decoding(w))
  BY <1>2, DecodingDef
<1>6. DecodeRest(w, 1, Decoding(w)) = Before(w[1], Decoding(w)[1 + 1])
  BY <1>2, <1>3 DEF DecodeRest
<1> QED
  BY <1>3, <1>4, <1>5, <1>6 DEF DecodeTexts, w, e

\* An escape decodes to its byte.
LEMMA DecodeEscape ==
  ASSUME NEW h \in Byte, NEW l \in Byte, IsHexDigit(h), IsHexDigit(l), NEW v \in Seq(Byte)
  PROVE  DecodeTexts(<<HYPHEN, h, l>> \o v) = Before(HexByte(h, l), DecodeTexts(v))
<1> DEFINE e == <<HYPHEN, h, l>>
           w == e \o v
<1>1. e \in Seq(Byte) /\ Len(e) = 3 /\ e[1] = HYPHEN /\ e[2] = h /\ e[3] = l
  BY DEF HYPHEN, Byte
<1> HIDE DEF e
<1>2. /\ w \in Seq(Byte) /\ Len(w) = 3 + Len(v) /\ Len(v) \in Nat
      /\ w[1] = HYPHEN /\ w[1 + 1] = h /\ w[1 + 2] = l
  <2>1. /\ w \in Seq(Byte) /\ Len(w) = 3 + Len(v) /\ Len(v) \in Nat
        /\ \A p \in 1..(3 + Len(v)) : w[p] = IF p <= 3 THEN e[p] ELSE v[p - 3]
    <3>1. e \in Seq(Byte)
      BY <1>1
    <3>2. /\ w \in Seq(Byte) /\ Len(w) = Len(e) + Len(v) /\ Len(v) \in Nat
          /\ \A p \in 1..(Len(e) + Len(v)) : w[p] = IF p <= Len(e) THEN e[p] ELSE v[p - Len(e)]
      BY <3>1, ConcatProperties
    <3> QED
      BY <1>1, <3>2
  <2>2. 1 \in 1..(3 + Len(v)) /\ 2 \in 1..(3 + Len(v)) /\ 3 \in 1..(3 + Len(v))
    BY <2>1
  <2> HIDE DEF w
  <2> QED
    BY <1>1, <2>1, <2>2
<1>3. Decoding(w)[1 + 3] = Decoding(v)[1]
  BY <1>1, <1>2, DecodingShift
<1> HIDE DEF w
<1>4. Decoding(w)[1] = DecodeRest(w, 1, Decoding(w))
  BY <1>2, DecodingDef
<1>5. IsEscape(w, 1) /\ ~IsLiteralByte(w[1]) /\ ~(1 > Len(w))
  BY <1>2 DEF IsEscape, IsLiteralByte, IsDigit, HYPHEN
<1>6. DecodeRest(w, 1, Decoding(w)) = Before(HexByte(h, l), Decoding(w)[1 + 3])
  BY <1>2, <1>5 DEF DecodeRest
<1> QED
  BY <1>3, <1>4, <1>6 DEF DecodeTexts, w, e

-----------------------------------------------------------------------------
\* folding a text byte by byte
LEMMA LowercaseType ==
  ASSUME NEW s \in Seq(Byte)
  PROVE  /\ Lowercase(s) \in Seq(Byte) /\ Len(Lowercase(s)) = Len(s)
         /\ \A j \in 1..Len(s) : Lowercase(s)[j] = Canonical(s[j])
<1>1. \A j \in 1..Len(s) : Canonical(s[j]) \in Byte
  BY CanonicalByte
<1>2. DOMAIN s = 1..Len(s) /\ Len(s) \in Nat
  OBVIOUS
<1> QED
  BY <1>1, <1>2 DEF Lowercase

\* folding goes byte by byte
LEMMA LowercaseConcat ==
  ASSUME NEW s \in Seq(Byte), NEW t \in Seq(Byte)
  PROVE  Lowercase(s \o t) = Lowercase(s) \o Lowercase(t)
<1> DEFINE a == Lowercase(s)
           b == Lowercase(t)
           w == s \o t
           c == Lowercase(w)
           m == Len(s)
           n == Len(t)
<1>1. /\ w \in Seq(Byte) /\ Len(w) = m + n /\ m \in Nat /\ n \in Nat
      /\ \A j \in 1..(m + n) : w[j] = IF j <= m THEN s[j] ELSE t[j - m]
  BY ConcatProperties
<1> HIDE DEF w
<1>2. /\ a \in Seq(Byte) /\ Len(a) = m /\ \A j \in 1..m : a[j] = Canonical(s[j])
      /\ b \in Seq(Byte) /\ Len(b) = n /\ \A j \in 1..n : b[j] = Canonical(t[j])
  BY LowercaseType
<1>3. /\ c \in Seq(Byte) /\ Len(c) = m + n
      /\ \A j \in 1..(m + n) : c[j] = Canonical(w[j])
  BY <1>1, LowercaseType
<1> HIDE DEF a, b, c
<1>4. a \in Seq(Byte) /\ b \in Seq(Byte)
  BY <1>2
<1>5. /\ a \o b \in Seq(Byte) /\ Len(a \o b) = Len(a) + Len(b)
      /\ \A j \in 1..(Len(a) + Len(b)) : (a \o b)[j] = IF j <= Len(a) THEN a[j] ELSE b[j - Len(a)]
  BY <1>4, ConcatProperties
<1>6. ASSUME NEW j \in 1..(m + n) PROVE c[j] = (a \o b)[j]
  <2>1. j <= m => j \in 1..m
    BY <1>1
  <2>2. ~(j <= m) => j - m \in 1..n
    BY <1>1
  <2>3. (a \o b)[j] = IF j <= m THEN a[j] ELSE b[j - m]
    BY <1>2, <1>5
  <2>4. c[j] = Canonical(IF j <= m THEN s[j] ELSE t[j - m])
    BY <1>1, <1>3
  <2> QED
    BY <1>2, <2>1, <2>2, <2>3, <2>4
<1>7. c = a \o b
  BY <1>2, <1>3, <1>5, <1>6, SeqEqual
<1> QED
  BY <1>7 DEF a, b, c, w

\* folding one byte
LEMMA LowercaseSingle ==
  ASSUME NEW b \in Byte
  PROVE  Lowercase(<<b>>) = <<Canonical(b)>>
  BY DEF Lowercase

\* folding the empty text
LEMMA LowercaseEmpty == Lowercase(<<>>) = <<>>
  BY DEF Lowercase

\* def_decode_component undoes def_encode_component up to case, byte by byte:
\* what the encoder emitted for a text decodes to that text in lower case and
\* to nothing else, wherever escapes and literal bytes meet.
LEMMA DecodesEncoded ==
  ASSUME NEW s \in Seq(Byte)
  PROVE  DecodeTexts(EncodeComponent(s)) = {Lowercase(s)}
<1> DEFINE S == {x \in Seq(Byte) : DecodeTexts(EncodeComponent(x)) = {Lowercase(x)}}
<1>1. <<>> \in S
  BY EncodeEmpty, DecodeEmpty, LowercaseEmpty
<1>2. ASSUME NEW x \in Seq(Byte), NEW b \in Byte,
             DecodeTexts(EncodeComponent(x)) = {Lowercase(x)}
      PROVE  DecodeTexts(EncodeComponent(<<b>> \o x)) = {Lowercase(<<b>> \o x)}
  <2> DEFINE c == Canonical(b)
             v == EncodeComponent(x)
             l == Lowercase(x)
             e == <<b>>
  <2>1. c \in Byte /\ v \in Seq(Byte) /\ e \in Seq(Byte)
    BY CanonicalByte, EncodeType
  <2>0. EncodeComponent(e) = EncodeByte(c) /\ Lowercase(e) = <<c>>
    BY EncodeSingle, LowercaseSingle
  <2>4. DecodeTexts(v) = {l}
    BY <1>2
  <2> HIDE DEF e
  <2>2. EncodeComponent(e \o x) = EncodeByte(c) \o v
    BY <2>0, <2>1, EncodeConcat
  <2>3. Lowercase(e \o x) = <<c>> \o l
    BY <2>0, <2>1, LowercaseConcat, ZenonT(30)
  <2> HIDE DEF c, v, l
  <2>5. Before(c, DecodeTexts(v)) = {<<c>> \o l}
    BY <2>4 DEF Before
  <2>6. CASE IsLiteralByte(c)
    <3>1. EncodeByte(c) = <<c>>
      BY <2>6 DEF EncodeByte
    <3>2. DecodeTexts(<<c>> \o v) = Before(c, DecodeTexts(v))
      BY <2>1, <2>6, DecodeLiteral
    <3> QED
      BY <2>2, <2>3, <2>5, <3>1, <3>2 DEF e
  <2>7. CASE ~IsLiteralByte(c)
    <3> DEFINE h == HexDigit(c \div 16)
               k == HexDigit(c % 16)
    <3>1. EncodeByte(c) = <<HYPHEN, h, k>>
      BY <2>7 DEF EncodeByte
    <3>2. IsHexDigit(h) /\ IsHexDigit(k) /\ HexByte(h, k) = c
      BY <2>1, HexDigits, TwoDigits DEF HexByte
    <3>3. h \in Byte /\ k \in Byte
      BY <2>1, TwoDigits, SMTT(30) DEF HexDigit, Byte
    <3> HIDE DEF h, k
    <3>4. DecodeTexts(<<HYPHEN, h, k>> \o v) = Before(HexByte(h, k), DecodeTexts(v))
      BY <2>1, <3>2, <3>3, DecodeEscape
    <3> QED
      BY <2>2, <2>3, <2>5, <3>1, <3>2, <3>4 DEF e
  <2> QED
    BY <2>6, <2>7
<1>3. \A x \in Seq(Byte) : \A b \in Byte : x \in S => <<b>> \o x \in S
  <2> SUFFICES ASSUME NEW x \in Seq(Byte), NEW b \in Byte, x \in S
               PROVE  <<b>> \o x \in S
    OBVIOUS
  <2>1. <<b>> \o x \in Seq(Byte)
    OBVIOUS
  <2> QED
    BY <1>2, <2>1
<1>4. Seq(Byte) \subseteq S
  <2> HIDE DEF S
  <2> QED
    BY <1>1, <1>3, ConsInduction
<1> QED
  BY <1>4

-----------------------------------------------------------------------------
\* Well-formedness of a character depends on nothing but its bytes.
LEMMA WidthOfOne ==
  ASSUME NEW s, NEW i, s[i] \in Nat
  PROVE  /\ s[i] <= 127 => Utf8Width(s, i) = 1
         /\ s[i] > 127 /\ ~Continues(s, i + 1) => Utf8Width(s, i) = 0
<1>1. s[i] <= 127 => Utf8Width(s, i) = 1
  BY DEF Utf8Width
<1>2. ASSUME s[i] > 127, ~Continues(s, i + 1)
      PROVE  Utf8Width(s, i) = 0
  <2>1. ~(\A d \in 1..2 : Continues(s, i + d)) /\ ~(\A d \in 1..3 : Continues(s, i + d))
    BY <1>2
  <2> QED
    BY <1>2, <2>1 DEF Utf8Width
<1> QED
  BY <1>1, <1>2

\* Folding ASCII case does not change where characters end.
LEMMA WidthSame ==
  ASSUME NEW s, NEW t, NEW i, NEW j, s[i] \in Nat, t[j] \in Nat,
         s[i] <= 127 <=> t[j] <= 127,
         s[i] > 127 => s[i] = t[j],
         \A n \in 1..3 : (\A d \in 1..n : Continues(s, i + d)) <=>
                           (\A d \in 1..n : Continues(t, j + d)),
         Continues(s, i + 1) => s[i + 1] = t[j + 1]
  PROVE  Utf8Width(s, i) = Utf8Width(t, j)
<1>2. Continues(s, i + 1) <=> Continues(t, j + 1)
  <2>1. (\A d \in 1..1 : Continues(s, i + d)) <=> (\A d \in 1..1 : Continues(t, j + d))
    OBVIOUS
  <2> QED
    BY <2>1
<1>3. CASE s[i] <= 127
  BY <1>3, WidthOfOne
<1>4. CASE s[i] > 127 /\ ~Continues(s, i + 1)
  <2>1. t[j] > 127 /\ ~Continues(t, j + 1)
    BY <1>2, <1>4
  <2> QED
    BY <1>4, <2>1, WidthOfOne
<1>5. CASE s[i] > 127 /\ Continues(s, i + 1)
  <2>1. s[i] = t[j] /\ s[i + 1] = t[j + 1]
    BY <1>5
  <2>2. (\A d \in 1..2 : Continues(s, i + d)) <=> (\A d \in 1..2 : Continues(t, j + d))
    OBVIOUS
  <2>3. (\A d \in 1..3 : Continues(s, i + d)) <=> (\A d \in 1..3 : Continues(t, j + d))
    OBVIOUS
  <2> QED
    BY <1>2, <2>1, <2>2, <2>3 DEF Utf8Width
<1> QED
  BY <1>3, <1>4, <1>5

\* A character does not reach past the end of the text.
LEMMA WidthBound ==
  ASSUME NEW s \in Seq(Byte), NEW i \in 1..Len(s)
  PROVE  Utf8Width(s, i) \in 0..4 /\ i + Utf8Width(s, i) <= Len(s) + 1
<1>1. s[i] \in Byte /\ Len(s) \in Nat
  OBVIOUS
<1> QED
  BY <1>1, SMTT(30) DEF Utf8Width, Continues

\* bytes are numbers
LEMMA ByteNat == \A b \in Byte : b \in Nat
  BY DEF Byte

\* a continuation byte is no ASCII byte
LEMMA HighByte == \A b \in 128..191 : b > 127
  OBVIOUS

ValidFrom(s, i, g) ==
  \/ i = Len(s) + 1
  \/ LET w == Utf8Width(s, i) IN w > 0 /\ g[i + w]

Validity(s) == CHOOSE g : g = [i \in 1..(Len(s) + 1) |-> ValidFrom(s, i, g)]

\* Utf8Validate in terms of the scan
LEMMA ValidateDef ==
  ASSUME NEW s
  PROVE  Utf8Validate(s) = Validity(s)[1]
  BY DEF Utf8Validate, Validity, ValidFrom

\* The scan for well-formed characters exists.
LEMMA ValidityDef ==
  ASSUME NEW s \in Seq(Byte)
  PROVE  \A i \in 1..(Len(s) + 1) :
           /\ Validity(s)[i] \in BOOLEAN
           /\ Validity(s)[i] = ValidFrom(s, i, Validity(s))
<1> DEFINE n == Len(s)
           D == 1..(n + 1)
           V == BOOLEAN
           Rhs == [i \in D |-> [g \in [D -> V] |-> ValidFrom(s, i, g)]]
<1>0. V # {}
  OBVIOUS
<1>1. n \in Nat
  OBVIOUS
<1>2. Rhs \in [D -> [[D -> V] -> V]]
  BY DEF ValidFrom
<1>3. LooksAhead(n, V, Rhs)
  <2> SUFFICES ASSUME NEW i \in D, NEW g \in [D -> V], NEW h \in [D -> V],
                      \A j \in D : j > i => g[j] = h[j]
               PROVE  ValidFrom(s, i, g) = ValidFrom(s, i, h)
    BY DEF LooksAhead
  <2>1. CASE i = n + 1
    BY <2>1 DEF ValidFrom
  <2>2. CASE i # n + 1
    <3> DEFINE w == Utf8Width(s, i)
    <3>1. i \in 1..n /\ w \in 0..4 /\ i + w <= n + 1
      BY <1>1, <2>2, WidthBound
    <3>2. w > 0 => g[i + w] = h[i + w]
      BY <1>1, <3>1
    <3> QED
      BY <3>2 DEF ValidFrom
  <2> QED
    BY <2>1, <2>2
<1>4. Solutions(D, V, Rhs) # {}
  <2> HIDE DEF V, n, Rhs
  <2> QED
    BY <1>0, <1>1, <1>2, <1>3, ScanRecursion
<1>5. PICK g \in [D -> V] : \A i \in D : g[i] = ValidFrom(s, i, g)
  BY <1>4 DEF Solutions
<1>6. g = [i \in D |-> ValidFrom(s, i, g)]
  BY <1>5
<1> DEFINE f == Validity(s)
<1>7. f = [i \in D |-> ValidFrom(s, i, f)]
  BY <1>6 DEF Validity
<1> HIDE DEF f
<1>8. \A i \in D : f[i] = ValidFrom(s, i, f)
  BY <1>7
<1>9. \A i \in D : ValidFrom(s, i, f) \in BOOLEAN
  BY DEF ValidFrom
<1> QED
  BY <1>8, <1>9 DEF f

\* Folding to lower case keeps the characters: a text and its lower case are
\* both well-formed or both not.
LEMMA ValidLowercase ==
  ASSUME NEW s \in Seq(Byte)
  PROVE  Utf8Validate(Lowercase(s)) = Utf8Validate(s)
<1> DEFINE t == Lowercase(s)
           n == Len(s)
           f == Validity(s)
           g == Validity(t)
           S == {i \in 1..(n + 1) : g[i] = f[i]}
<1>1. /\ n \in Nat /\ t \in Seq(Byte) /\ Len(t) = n
      /\ \A i \in 1..n : s[i] \in Byte /\ t[i] = Canonical(s[i])
  BY LowercaseType
<1>2. \A i \in 1..(n + 1) : f[i] = ValidFrom(s, i, f)
  BY ValidityDef
<1> HIDE DEF t
<1>3. \A i \in 1..(n + 1) : g[i] = ValidFrom(t, i, g)
  BY <1>1, ValidityDef
<1>4. \A i \in 1..n : /\ s[i] \in Nat /\ t[i] \in Nat
                      /\ s[i] <= 127 <=> t[i] <= 127
                      /\ s[i] > 127 => s[i] = t[i]
  <2> TAKE i \in 1..n
  <2> DEFINE b == s[i]
  <2>1. b \in Byte /\ t[i] = Canonical(b)
    BY <1>1
  <2> HIDE DEF b
  <2>2. /\ b \in Nat /\ Canonical(b) \in Nat
        /\ b <= 127 <=> Canonical(b) <= 127
        /\ b > 127 => b = Canonical(b)
    BY <2>1 DEF Byte, Canonical
  <2> DEFINE x == t[i]
  <2>3. x = Canonical(b)
    BY <2>1
  <2> HIDE DEF x
  <2>4. b \in Nat /\ x \in Nat /\ (b <= 127 <=> x <= 127) /\ (b > 127 => b = x)
    BY <2>2, <2>3
  <2> QED
    BY <2>4 DEF b, x
<1>5. \A p \in Nat \ {0} : Continues(s, p) <=> Continues(t, p)
  <2> TAKE p \in Nat \ {0}
  <2>1. CASE p \in 1..n
    <3> DEFINE a == s[p]
               b == t[p]
    <3>0. a \in Nat /\ b \in Nat /\ (a <= 127 <=> b <= 127) /\ (a > 127 => a = b)
      BY <1>4, <2>1
    <3> HIDE DEF a, b
    <3>a. a \in 128..191 <=> b \in 128..191
      BY <3>0
    <3>1. s[p] \in 128..191 <=> t[p] \in 128..191
      BY <3>a DEF a, b
    <3> QED
      BY <1>1, <3>1 DEF Continues
  <2>2. CASE p \notin 1..n
    BY <1>1, <2>2 DEF Continues
  <2> QED
    BY <2>1, <2>2
<1>6. \A i \in 1..n : Utf8Width(t, i) = Utf8Width(s, i)
  <2> TAKE i \in 1..n
  <2>0. \A d \in 1..3 : Continues(s, i + d) <=> Continues(t, i + d)
    <3> TAKE d \in 1..3
    <3>1. i + d \in Nat \ {0}
      BY <1>1
    <3> QED
      BY <1>5, <3>1
  <2>1. \A m \in 1..3 : (\A d \in 1..m : Continues(s, i + d)) <=>
                        (\A d \in 1..m : Continues(t, i + d))
    BY <2>0
  <2>2. ASSUME Continues(s, i + 1) PROVE s[i + 1] = t[i + 1]
    <3>1. i + 1 \in 1..n /\ s[i + 1] \in 128..191
      BY <1>1, <2>2 DEF Continues
    <3>2. s[i + 1] > 127
      BY <3>1, HighByte, Zenon
    <3> QED
      BY <1>4, <3>1, <3>2
  <2> QED
    BY <1>4, <2>1, <2>2, WidthSame
<1> HIDE DEF f, g
<1>7. ASSUME NEW i \in 1..(n + 1), \A j \in 1..(n + 1) : j > i => g[j] = f[j]
      PROVE  g[i] = f[i]
  <2>1. CASE i = n + 1
    BY <1>1, <1>2, <1>3, <2>1 DEF ValidFrom
  <2>2. CASE i # n + 1
    <3> DEFINE w == Utf8Width(s, i)
    <3>1. i \in 1..n
      BY <1>1, <2>2
    <3>2. w \in 0..4 /\ i + w <= n + 1 /\ Utf8Width(t, i) = w
      BY <1>1, <1>6, <3>1, WidthBound
    <3> HIDE DEF w
    <3>3. w > 0 => g[i + w] = f[i + w]
      BY <1>1, <1>7, <3>2
    <3>4. g[i] = (w > 0 /\ g[i + w])
      BY <1>1, <1>3, <2>2, <3>2 DEF ValidFrom
    <3>5. f[i] = (w > 0 /\ f[i + w])
      BY <1>1, <1>2, <2>2, <3>2 DEF ValidFrom, w
    <3> QED
      BY <3>3, <3>4, <3>5
  <2> QED
    BY <2>1, <2>2
<1>8. 1..(n + 1) \subseteq S
  <2>1. \A i \in 1..(n + 1) : (\A j \in 1..(n + 1) : j > i => j \in S) => i \in S
    BY <1>7
  <2> HIDE DEF S, n
  <2> QED
    BY <1>1, <2>1, ScanInduction, ZenonT(30)
<1>9. g[1] = f[1]
  BY <1>1, <1>8
<1> QED
  BY <1>9, ValidateDef DEF f, g, t

\* What is well-formed from a position on is decided by the bytes from there on.
LEMMA ValidityShift ==
  ASSUME NEW u \in Seq(Byte), NEW v \in Seq(Byte)
  PROVE  \A i \in 1..(Len(v) + 1) : Validity(u \o v)[Len(u) + i] = Validity(v)[i]
<1> DEFINE n == Len(v)
           m == Len(u)
           w == u \o v
           f == Validity(w)
           g == Validity(v)
           S == {i \in 1..(n + 1) : f[m + i] = g[i]}
<1>1. /\ n \in Nat /\ m \in Nat /\ w \in Seq(Byte) /\ Len(w) = m + n
      /\ \A i \in 1..n : w[m + i] = v[i] /\ v[i] \in Byte
  BY ConcatProperties
<1>2. \A i \in 1..(n + 1) : g[i] = ValidFrom(v, i, g)
  BY ValidityDef
<1> HIDE DEF w
<1>3. \A i \in 1..(m + n + 1) : f[i] = ValidFrom(w, i, f)
  BY <1>1, ValidityDef
<1>4. \A p \in Nat \ {0} : Continues(w, m + p) <=> Continues(v, p)
  <2> TAKE p \in Nat \ {0}
  <2>1. CASE p \in 1..n
    <3>1. w[m + p] = v[p] /\ m + p <= Len(w) /\ p <= Len(v)
      BY <1>1, <2>1
    <3> QED
      BY <3>1 DEF Continues
  <2>2. CASE p \notin 1..n
    <3>1. ~(m + p <= Len(w)) /\ ~(p <= Len(v))
      BY <1>1, <2>2
    <3> QED
      BY <3>1 DEF Continues
  <2> QED
    BY <2>1, <2>2
<1>5. \A i \in 1..n : Utf8Width(w, m + i) = Utf8Width(v, i)
  <2> TAKE i \in 1..n
  <2>0. w[m + i] = v[i] /\ v[i] \in Byte
    BY <1>1
  <2>1. w[m + i] = v[i] /\ v[i] \in Nat
    BY <2>0, ByteNat, Zenon
  <2>2. \A d \in 1..3 : Continues(w, (m + i) + d) <=> Continues(v, i + d)
    <3> TAKE d \in 1..3
    <3>1. (m + i) + d = m + (i + d) /\ i + d \in Nat \ {0}
      BY <1>1
    <3> QED
      BY <1>4, <3>1
  <2>3. \A k \in 1..3 : (\A d \in 1..k : Continues(w, (m + i) + d)) <=>
                        (\A d \in 1..k : Continues(v, i + d))
    BY <2>2, SMTT(30)
  <2>4. Continues(w, (m + i) + 1) => w[(m + i) + 1] = v[i + 1]
    <3>1. Continues(v, i + 1) => i + 1 \in 1..n
      BY <1>1 DEF Continues
    <3>2. (m + i) + 1 = m + (i + 1)
      BY <1>1
    <3> QED
      BY <1>1, <2>2, <3>1, <3>2
  <2> QED
    BY <2>1, <2>3, <2>4, WidthSame
<1> HIDE DEF f, g
<1>6. ASSUME NEW i \in 1..(n + 1), \A j \in 1..(n + 1) : j > i => f[m + j] = g[j]
      PROVE  f[m + i] = g[i]
  <2>0. m + i \in 1..(m + n + 1)
    BY <1>1
  <2>1. CASE i = n + 1
    <3>1. g[i] = TRUE
      BY <1>2, <2>1 DEF ValidFrom
    <3>2. f[m + i] = TRUE
      <4>1. m + i = Len(w) + 1
        BY <1>1, <2>1
      <4>2. f[m + i] = ValidFrom(w, m + i, f)
        BY <1>3, <2>0
      <4> QED
        BY <4>1, <4>2 DEF ValidFrom
    <3> QED
      BY <3>1, <3>2
  <2>2. CASE i # n + 1
    <3> DEFINE x == Utf8Width(v, i)
    <3>1. i \in 1..n
      BY <1>1, <2>2
    <3>2. x \in 0..4 /\ i + x <= n + 1 /\ Utf8Width(w, m + i) = x
      BY <1>5, <3>1, WidthBound
    <3>3. g[i] = (x > 0 /\ g[i + x])
      BY <1>1, <1>2, <2>2, <3>2 DEF ValidFrom
    <3> HIDE DEF x
    <3>4. x > 0 => f[m + (i + x)] = g[i + x]
      BY <1>1, <1>6, <3>2
    <3>5. f[m + i] = (x > 0 /\ f[m + (i + x)])
      <4>1. m + i # Len(w) + 1 /\ (m + i) + x = m + (i + x)
        BY <1>1, <2>2, <3>2
      <4>2. f[m + i] = ValidFrom(w, m + i, f)
        BY <1>3, <2>0
      <4> QED
        BY <3>2, <4>1, <4>2 DEF ValidFrom
    <3> QED
      BY <3>3, <3>4, <3>5
  <2> QED
    BY <2>1, <2>2
<1>7. 1..(n + 1) \subseteq S
  <2>1. \A i \in 1..(n + 1) : (\A j \in 1..(n + 1) : j > i => j \in S) => i \in S
    BY <1>6
  <2> HIDE DEF S, n
  <2> QED
    BY <1>1, <2>1, ScanInduction
<1> QED
  BY <1>7 DEF f, g, w

\* In front of an ASCII byte, or of nothing, a text can be cut: it is
\* well-formed exactly if both parts are.
LEMMA ValidCut ==
  ASSUME NEW u \in Seq(Byte), NEW v \in Seq(Byte), Len(v) > 0 => v[1] <= 127
  PROVE  Utf8Validate(u \o v) = (Utf8Validate(u) /\ Utf8Validate(v))
<1> DEFINE n == Len(v)
           m == Len(u)
           w == u \o v
           f == Validity(w)
           g == Validity(u)
           h == Validity(v)[1]
           S == {i \in 1..(m + 1) : f[i] = (g[i] /\ h)}
<1>1. /\ n \in Nat /\ m \in Nat /\ w \in Seq(Byte) /\ Len(w) = m + n
      /\ \A i \in 1..m : w[i] = u[i] /\ u[i] \in Byte
  BY ConcatProperties
<1>2. \A i \in 1..(m + 1) : g[i] = ValidFrom(u, i, g)
  BY ValidityDef
<1>3. f[m + 1] = h
  <2>1. 1 \in 1..(n + 1)
    BY <1>1
  <2> QED
    BY <2>1, ValidityShift
<1>4. ~Continues(w, m + 1) /\ ~Continues(u, m + 1)
  <2>1. m + 1 <= Len(w) => w[m + 1] = v[1] /\ Len(v) > 0
    BY <1>1, ConcatProperties
  <2>2. ~(v[1] \in 128..191) \/ ~(Len(v) > 0)
    <3>1. \A b \in 128..191 : ~(b <= 127)
      OBVIOUS
    <3> QED
      BY <3>1, Zenon
  <2> HIDE DEF w
  <2> QED
    BY <1>1, <2>1, <2>2 DEF Continues
<1> HIDE DEF w
<1>5. \A i \in 1..(m + n + 1) : f[i] = ValidFrom(w, i, f)
  BY <1>1, ValidityDef
<1>6. \A p \in 1..m : Continues(w, p) <=> Continues(u, p)
  <2> TAKE p \in 1..m
  <2>1. w[p] = u[p] /\ p <= Len(w) /\ p <= Len(u)
    BY <1>1
  <2> QED
    BY <2>1 DEF Continues
<1>7. \A i \in 1..m : Utf8Width(w, i) = Utf8Width(u, i)
  <2> TAKE i \in 1..m
  <2>1. w[i] = u[i] /\ u[i] \in Byte
    BY <1>1
  <2>2. w[i] = u[i] /\ u[i] \in Nat
    BY <2>1, ByteNat, Zenon
  <2>3. \A k \in 1..3 : (\A d \in 1..k : Continues(w, i + d)) <=>
                        (\A d \in 1..k : Continues(u, i + d))
    <3> TAKE k \in 1..3
    <3>1. CASE i + k <= m
      <4>1. \A d \in 1..k : i + d \in 1..m
        BY <1>1, <3>1
      <4> QED
        BY <1>6, <4>1
    <3>2. CASE ~(i + k <= m)
      <4>1. (m + 1) - i \in 1..k /\ i + ((m + 1) - i) = m + 1
        BY <1>1, <3>2
      <4> QED
        BY <1>4, <4>1
    <3> QED
      BY <3>1, <3>2
  <2>4. ASSUME Continues(w, i + 1) PROVE w[i + 1] = u[i + 1]
    <3>1. i + 1 # m + 1
      BY <1>4, <2>4
    <3>2. i + 1 \in 1..m
      BY <1>1, <3>1
    <3> QED
      BY <1>1, <3>2
  <2> QED
    BY <2>2, <2>3, <2>4, WidthSame
<1> HIDE DEF f, g, h
<1>8. ASSUME NEW i \in 1..(m + 1), \A j \in 1..(m + 1) : j > i => f[j] = (g[j] /\ h)
      PROVE  f[i] = (g[i] /\ h)
  <2>0. h \in BOOLEAN
    BY <1>1, ValidityDef DEF h
  <2>1. CASE i = m + 1
    <3>1. g[i] = TRUE
      BY <1>2, <2>1 DEF ValidFrom
    <3> QED
      BY <1>3, <2>0, <2>1, <3>1
  <2>2. CASE i # m + 1
    <3> DEFINE x == Utf8Width(u, i)
    <3>1. i \in 1..m
      BY <1>1, <2>2
    <3>2. x \in 0..4 /\ i + x <= m + 1 /\ Utf8Width(w, i) = x
      BY <1>7, <3>1, WidthBound
    <3>3. g[i] = (x > 0 /\ g[i + x])
      BY <1>1, <1>2, <2>2, <3>2 DEF ValidFrom
    <3> HIDE DEF x
    <3>4. x > 0 => f[i + x] = (g[i + x] /\ h)
      BY <1>1, <1>8, <3>2
    <3>5. f[i] = (x > 0 /\ f[i + x])
      <4>1. i # Len(w) + 1
        BY <1>1, <3>1
      <4>2. f[i] = ValidFrom(w, i, f)
        BY <1>1, <1>5, <3>1
      <4> QED
        BY <3>2, <4>1, <4>2 DEF ValidFrom
    <3> QED
      BY <3>3, <3>4, <3>5
  <2> QED
    BY <2>1, <2>2
<1>9. 1..(m + 1) \subseteq S
  <2>1. \A i \in 1..(m + 1) : (\A j \in 1..(m + 1) : j > i => j \in S) => i \in S
    BY <1>8
  <2> HIDE DEF S, m
  <2> QED
    BY <1>1, <2>1, ScanInduction
<1>10. f[1] = (g[1] /\ h)
  BY <1>1, <1>9
<1> QED
  BY <1>10, ValidateDef DEF f, g, h, w

\* the empty text is well-formed
LEMMA ValidEmpty == Utf8Validate(<<>>)
<1>1. <<>> \in Seq(Byte) /\ Len(<<>>) = 0 /\ 1 \in 1..(0 + 1)
  OBVIOUS
<1>2. Validity(<<>>)[1] = ValidFrom(<<>>, 1, Validity(<<>>))
  BY <1>1, ValidityDef
<1>3. ValidFrom(<<>>, 1, Validity(<<>>))
  BY <1>1 DEF ValidFrom
<1> QED
  BY <1>2, <1>3, ValidateDef

\* an ASCII byte is a character of its own
LEMMA ValidAscii ==
  ASSUME NEW a \in Byte, a <= 127, NEW v \in Seq(Byte)
  PROVE  Utf8Validate(<<a>> \o v) = Utf8Validate(v)
<1> DEFINE e == <<a>>
           w == e \o v
<1>1. e \in Seq(Byte) /\ Len(e) = 1 /\ e[1] = a
  OBVIOUS
<1> HIDE DEF e
<1>2. e \in Seq(Byte)
  BY <1>1
<1>3. /\ w \in Seq(Byte) /\ Len(w) = Len(e) + Len(v) /\ Len(v) \in Nat
      /\ \A p \in 1..(Len(e) + Len(v)) : w[p] = IF p <= Len(e) THEN e[p] ELSE v[p - Len(e)]
  BY <1>2, ConcatProperties
<1>4. Len(w) = 1 + Len(v) /\ w[1] = a
  BY <1>1, <1>3
<1>5. Validity(w)[1 + 1] = Validity(v)[1]
  BY <1>1, <1>3, ValidityShift, SMTT(30)
<1> HIDE DEF w
<1>6. Validity(w)[1] = ValidFrom(w, 1, Validity(w)) /\ Validity(v)[1] \in BOOLEAN
  BY <1>3, <1>4, ValidityDef
<1>7. Utf8Width(w, 1) = 1
  <2>1. w[1] \in Nat /\ w[1] <= 127
    BY <1>4, ByteNat, Zenon
  <2> QED
    BY <2>1, WidthOfOne
<1>8. ValidFrom(w, 1, Validity(w)) = Validity(w)[1 + 1]
  <2>1. 1 # Len(w) + 1
    BY <1>3, <1>4
  <2>2. ValidFrom(w, 1, Validity(w)) = (1 > 0 /\ Validity(w)[1 + 1])
    BY <1>7, <2>1 DEF ValidFrom
  <2>3. Validity(w)[1 + 1] \in BOOLEAN
    BY <1>5, <1>6
  <2> QED
    BY <2>2, <2>3
<1> QED
  BY <1>5, <1>6, <1>8, ValidateDef DEF w, e

-----------------------------------------------------------------------------
\* the least of some positions
LEMMA MinOf ==
  ASSUME NEW T \in SUBSET Nat, NEW n \in T, \A m \in T : n <= m
  PROVE  Min(T) = n
<1> DEFINE x == Min(T)
<1>1. x \in T /\ \A m \in T : x <= m
  BY DEF Min
<1> HIDE DEF x
<1>2. x <= n /\ n <= x /\ x \in Nat /\ n \in Nat
  BY <1>1
<1> QED
  BY <1>2 DEF x

\* the first of some positions is one of them
LEMMA MinIn ==
  ASSUME NEW T \in SUBSET Nat, T # {}
  PROVE  Min(T) \in T /\ \A m \in T : Min(T) <= m
<1>1. PICK n \in T : \A m \in T : n <= m
  BY Least
<1>2. Min(T) = n
  BY <1>1, MinOf
<1> QED
  BY <1>1, <1>2

\* s[q] and s[q + 1] are a "--"
IsSeparator(s, q) == s[q] = HYPHEN /\ s[q + 1] = HYPHEN

Found(s, p) == {q \in p..(Len(s) - 1) : IsSeparator(s, q)}

SplitFrom(s, p, g) ==
  IF Found(s, p) = {} THEN <<SubSeq(s, p, Len(s))>>
  ELSE <<SubSeq(s, p, Min(Found(s, p)) - 1)>> \o g[Min(Found(s, p)) + 2]

Splitting(s) == CHOOSE g : g = [p \in 1..(Len(s) + 1) |-> SplitFrom(s, p, g)]

\* Split in terms of the scan
LEMMA SplitDef ==
  ASSUME NEW s
  PROVE  Split(s) = Splitting(s)[1]
  BY DEF Split, Splitting, SplitFrom, Found, IsSeparator

\* a part of a sequence
LEMMA SubSeqType ==
  ASSUME NEW A, NEW s \in Seq(A), NEW p \in Nat \ {0}, NEW q \in Int, q <= Len(s)
  PROVE  /\ SubSeq(s, p, q) \in Seq(A)
         /\ Len(SubSeq(s, p, q)) = IF p <= q THEN (q - p) + 1 ELSE 0
         /\ \A j \in 1..((q - p) + 1) : SubSeq(s, p, q)[j] = s[(p + j) - 1]
<1>1. \A j \in p..q : s[j] \in A
  OBVIOUS
<1> QED
  BY <1>1, SubSeqProperties

\* where the first separator is, if there is one
LEMMA FoundFirst ==
  ASSUME NEW A, NEW s \in Seq(A), NEW p \in 1..(Len(s) + 1), Found(s, p) # {}
  PROVE  /\ Min(Found(s, p)) \in p..(Len(s) - 1)
         /\ IsSeparator(s, Min(Found(s, p)))
         /\ \A q \in Found(s, p) : Min(Found(s, p)) <= q
<1>1. Found(s, p) \in SUBSET Nat
  BY DEF Found
<1>2. Min(Found(s, p)) \in Found(s, p)
  BY <1>1, MinIn
<1> QED
  BY <1>1, <1>2, MinIn DEF Found

\* the components of a text: at least one
Parts(A) == Seq(Seq(A)) \ {<<>>}

\* one step of the scan gives components
LEMMA SplitFromType ==
  ASSUME NEW A, NEW s \in Seq(A), NEW p \in 1..(Len(s) + 1), NEW g,
         \A j \in 1..(Len(s) + 1) : j > p => g[j] \in Parts(A)
  PROVE  SplitFrom(s, p, g) \in Parts(A)
<1>0. Len(s) \in Nat
  OBVIOUS
<1>1. CASE Found(s, p) = {}
  <2>1. SubSeq(s, p, Len(s)) \in Seq(A)
    BY <1>0, SubSeqType
  <2> QED
    BY <1>1, <2>1 DEF SplitFrom, Parts
<1>2. CASE Found(s, p) # {}
  <2> DEFINE q == Min(Found(s, p))
             u == SubSeq(s, p, q - 1)
  <2>1. q \in p..(Len(s) - 1)
    BY <1>2, FoundFirst
  <2> HIDE DEF q
  <2>2. u \in Seq(A)
    BY <1>0, <2>1, SubSeqType
  <2>3. q + 2 \in 1..(Len(s) + 1) /\ q + 2 > p
    BY <1>0, <2>1
  <2>4. g[q + 2] \in Parts(A)
    BY <2>3
  <2> HIDE DEF u
  <2>5. <<u>> \o g[q + 2] \in Parts(A)
    BY <2>2, <2>4 DEF Parts
  <2> QED
    BY <1>2, <2>5 DEF SplitFrom, u, q
<1> QED
  BY <1>1, <1>2

\* the scan only uses what comes after
LEMMA SplitFromLooksAhead ==
  ASSUME NEW A, NEW s \in Seq(A), NEW p \in 1..(Len(s) + 1), NEW g, NEW h,
         \A j \in 1..(Len(s) + 1) : j > p => g[j] = h[j]
  PROVE  SplitFrom(s, p, g) = SplitFrom(s, p, h)
<1>1. CASE Found(s, p) # {}
  <2> DEFINE q == Min(Found(s, p))
  <2>1. q \in p..(Len(s) - 1) /\ Len(s) \in Nat
    BY <1>1, FoundFirst
  <2> HIDE DEF q
  <2>2. q + 2 \in 1..(Len(s) + 1) /\ q + 2 > p
    BY <2>1
  <2>3. g[q + 2] = h[q + 2]
    BY <2>2
  <2> QED
    BY <1>1, <2>3 DEF SplitFrom, q
<1> QED
  BY <1>1 DEF SplitFrom

\* The scan for separators exists.
LEMMA SplittingDef ==
  ASSUME NEW A, NEW s \in Seq(A)
  PROVE  \A p \in 1..(Len(s) + 1) :
           /\ Splitting(s)[p] \in Parts(A)
           /\ Splitting(s)[p] = SplitFrom(s, p, Splitting(s))
<1> DEFINE n == Len(s)
           D == 1..(n + 1)
           V == Parts(A)
           Rhs == [p \in D |-> [g \in [D -> V] |-> SplitFrom(s, p, g)]]
<1>0. V # {}
  <2>1. << <<>> >> \in V
    BY DEF Parts
  <2> QED
    BY <2>1
<1>1. n \in Nat
  OBVIOUS
<1>2. Rhs \in [D -> [[D -> V] -> V]]
  <2> HIDE DEF V
  <2> SUFFICES ASSUME NEW p \in D, NEW g \in [D -> V] PROVE SplitFrom(s, p, g) \in V
    OBVIOUS
  <2>1. \A j \in D : g[j] \in V
    OBVIOUS
  <2> QED
    BY <2>1, SplitFromType DEF V
<1>3. LooksAhead(n, V, Rhs)
  <2> SUFFICES ASSUME NEW p \in D, NEW g \in [D -> V], NEW h \in [D -> V],
                      \A j \in D : j > p => g[j] = h[j]
               PROVE  SplitFrom(s, p, g) = SplitFrom(s, p, h)
    BY DEF LooksAhead
  <2> QED
    BY SplitFromLooksAhead
<1>4. Solutions(D, V, Rhs) # {}
  <2> HIDE DEF V, n, Rhs
  <2> QED
    BY <1>0, <1>1, <1>2, <1>3, ScanRecursion
<1>5. PICK g \in [D -> V] : \A p \in D : g[p] = SplitFrom(s, p, g)
  BY <1>4 DEF Solutions
<1>6. g = [p \in D |-> SplitFrom(s, p, g)]
  BY <1>5
<1> DEFINE f == Splitting(s)
<1>7. f = [p \in D |-> SplitFrom(s, p, f)]
  BY <1>6 DEF Splitting
<1> HIDE DEF f
<1>8. \A p \in D : f[p] = SplitFrom(s, p, f)
  BY <1>7
<1> DEFINE S == {p \in D : f[p] \in V}
<1>9. \A p \in D : (\A j \in D : j > p => j \in S) => p \in S
  <2> TAKE p \in D
  <2> HAVE \A j \in D : j > p => j \in S
  <2>1. \A j \in D : j > p => f[j] \in V
    OBVIOUS
  <2>2. SplitFrom(s, p, f) \in V
    BY <2>1, SplitFromType
  <2> QED
    BY <1>8, <2>2
<1>10. D \subseteq S
  <2> HIDE DEF n, S
  <2> QED
    BY <1>1, <1>9, ScanInduction
<1> QED
  BY <1>8, <1>10 DEF f
-----------------------------------------------------------------------------
\* What is split from a position on is decided by the bytes from there on.
LEMMA SplittingShift ==
  ASSUME NEW A, NEW u \in Seq(A), NEW v \in Seq(A)
  PROVE  \A p \in 1..(Len(v) + 1) : Splitting(u \o v)[Len(u) + p] = Splitting(v)[p]
<1> DEFINE n == Len(v)
           m == Len(u)
           w == u \o v
           f == Splitting(w)
           g == Splitting(v)
           S == {p \in 1..(n + 1) : f[m + p] = g[p]}
<1>1. /\ n \in Nat /\ m \in Nat /\ w \in Seq(A) /\ Len(w) = m + n
      /\ \A p \in 1..n : w[m + p] = v[p]
  BY ConcatProperties
<1>2. \A p \in 1..(n + 1) : g[p] = SplitFrom(v, p, g)
  BY SplittingDef
<1> HIDE DEF w
<1>3. \A p \in 1..(m + n + 1) : f[p] = SplitFrom(w, p, f)
  BY <1>1, SplittingDef
<1> HIDE DEF f, g
<1>4. \A p \in 1..(n - 1) : IsSeparator(w, m + p) <=> IsSeparator(v, p)
  <2> TAKE p \in 1..(n - 1)
  <2>1. p \in 1..n /\ p + 1 \in 1..n /\ (m + p) + 1 = m + (p + 1)
    BY <1>1
  <2>2. w[m + p] = v[p] /\ w[(m + p) + 1] = v[p + 1]
    BY <1>1, <2>1
  <2> QED
    BY <2>2 DEF IsSeparator
<1>5. ASSUME NEW p \in 1..(n + 1), NEW q \in Int, q <= n
      PROVE  SubSeq(w, m + p, m + q) = SubSeq(v, p, q)
  <2> DEFINE x == SubSeq(w, m + p, m + q)
             y == SubSeq(v, p, q)
             k == IF p <= q THEN (q - p) + 1 ELSE 0
  <2>1. y \in Seq(A) /\ Len(y) = k /\ \A j \in 1..((q - p) + 1) : y[j] = v[(p + j) - 1]
    <3>1. v \in Seq(A) /\ p \in Nat \ {0} /\ q \in Int /\ q <= Len(v)
      BY <1>1, <1>5
    <3> QED
      BY <3>1, SubSeqType
  <2>2. /\ x \in Seq(A)
        /\ Len(x) = IF m + p <= m + q THEN ((m + q) - (m + p)) + 1 ELSE 0
        /\ \A j \in 1..(((m + q) - (m + p)) + 1) : x[j] = w[((m + p) + j) - 1]
    <3> DEFINE a == m + p
               b == m + q
    <3>1. a \in Nat \ {0} /\ b \in Int /\ b <= Len(w)
      BY <1>1, <1>5
    <3> HIDE DEF a, b
    <3>2. /\ SubSeq(w, a, b) \in Seq(A)
          /\ Len(SubSeq(w, a, b)) = IF a <= b THEN (b - a) + 1 ELSE 0
          /\ \A j \in 1..((b - a) + 1) : SubSeq(w, a, b)[j] = w[(a + j) - 1]
      BY <1>1, <3>1, SubSeqType, SMTT(30)
    <3> QED
      BY <3>2 DEF a, b
  <2>3. Len(x) = k /\ (m + q) - (m + p) = q - p
    BY <1>1, <1>5, <2>2
  <2> HIDE DEF x, y
  <2>4. ASSUME NEW j \in 1..k PROVE x[j] = y[j]
    <3>1. /\ j \in 1..((q - p) + 1) /\ ((m + p) + j) - 1 = m + ((p + j) - 1)
          /\ (p + j) - 1 \in 1..n
      BY <1>1, <1>5
    <3>2. x[j] = w[((m + p) + j) - 1] /\ y[j] = v[(p + j) - 1]
      BY <2>1, <2>2, <2>3, <3>1
    <3> QED
      BY <1>1, <3>1, <3>2
  <2>5. x \in Seq(A) /\ y \in Seq(A) /\ Len(x) = Len(y)
    BY <2>1, <2>2, <2>3
  <2>6. \A j \in 1..Len(x) : x[j] = y[j]
    BY <2>3, <2>4
  <2>7. x = y
    BY <2>5, <2>6, SeqEqual
  <2> QED
    BY <2>7 DEF x, y
<1>6. ASSUME NEW p \in 1..(n + 1), \A j \in 1..(n + 1) : j > p => f[m + j] = g[j]
      PROVE  f[m + p] = g[p]
  <2>0. m + p \in 1..(m + n + 1)
    BY <1>1
  <2>a. f[m + p] = SplitFrom(w, m + p, f) /\ g[p] = SplitFrom(v, p, g)
    BY <1>2, <1>3, <2>0
  <2>b. \A q \in p..(n - 1) : m + q \in Found(w, m + p) <=> q \in Found(v, p)
    <3> TAKE q \in p..(n - 1)
    <3>1. q \in 1..(n - 1) /\ m + q \in (m + p)..(Len(w) - 1) /\ q \in p..(Len(v) - 1)
      BY <1>1
    <3> QED
      BY <1>4, <3>1 DEF Found
  <2>c. \A r \in Found(w, m + p) : r - m \in p..(n - 1) /\ m + (r - m) = r
    <3> TAKE r \in Found(w, m + p)
    <3>1. r \in (m + p)..((m + n) - 1)
      BY <1>1 DEF Found
    <3> QED
      BY <1>1, <3>1
  <2>1. CASE Found(v, p) = {}
    <3>1. Found(w, m + p) = {}
      BY <2>1, <2>b, <2>c
    <3>2. SubSeq(w, m + p, m + n) = SubSeq(v, p, n)
      <4>1. n \in Int /\ n <= n
        BY <1>1
      <4> QED
        BY <1>5, <4>1
    <3> QED
      BY <1>1, <2>1, <2>a, <3>1, <3>2 DEF SplitFrom
  <2>2. CASE Found(v, p) # {}
    <3> DEFINE q == Min(Found(v, p))
               r == Min(Found(w, m + p))
    <3>1. q \in p..(n - 1) /\ q \in Found(v, p) /\ \A i \in Found(v, p) : q <= i
      <4>1. q \in p..(n - 1) /\ IsSeparator(v, q) /\ \A i \in Found(v, p) : q <= i
        BY <2>2, FoundFirst
      <4> QED
        BY <4>1 DEF Found
    <3> HIDE DEF q
    <3>2. m + q \in Found(w, m + p)
      BY <2>b, <3>1
    <3>3. \A i \in Found(w, m + p) : m + q <= i
      <4> TAKE i \in Found(w, m + p)
      <4>1. i - m \in p..(n - 1) /\ m + (i - m) = i
        BY <2>c
      <4>2. i - m \in Found(v, p)
        BY <2>b, <4>1
      <4> DEFINE k == i - m
      <4>3. q <= k /\ k \in Int /\ q \in Int /\ i = m + k
        BY <3>1, <4>1, <4>2
      <4> HIDE DEF k
      <4> QED
        BY <1>1, <4>3
    <3>4. Found(w, m + p) \in SUBSET Nat
      BY <1>1 DEF Found
    <3>5. r = m + q
      BY <3>2, <3>3, <3>4, MinOf
    <3> HIDE DEF r
    <3>6. SubSeq(w, m + p, r - 1) = SubSeq(v, p, q - 1)
      <4>1. r - 1 = m + (q - 1) /\ q - 1 \in Int /\ q - 1 <= n
        BY <1>1, <3>1, <3>5
      <4> QED
        BY <1>5, <4>1
    <3>7. f[r + 2] = g[q + 2]
      <4>1. r + 2 = m + (q + 2) /\ q + 2 \in 1..(n + 1) /\ q + 2 > p
        BY <1>1, <3>1, <3>5
      <4> QED
        BY <1>6, <4>1
    <3>8. Found(w, m + p) # {}
      BY <3>2
    <3> QED
      BY <2>2, <2>a, <3>6, <3>7, <3>8 DEF SplitFrom, q, r
  <2> QED
    BY <2>1, <2>2
<1>7. 1..(n + 1) \subseteq S
  <2>1. \A i \in 1..(n + 1) : (\A j \in 1..(n + 1) : j > i => j \in S) => i \in S
    BY <1>6
  <2> HIDE DEF S, n
  <2> QED
    BY <1>1, <2>1, ScanInduction
<1> QED
  BY <1>7 DEF f, g, w

\* no separator lies wholly in s
Whole(s) == \A q \in 1..(Len(s) - 1) : ~IsSeparator(s, q)

\* A text without a separator is its own only component.
LEMMA WholeSplits ==
  ASSUME NEW A, NEW s \in Seq(A), Whole(s)
  PROVE  Split(s) = <<s>>
<1>1. Found(s, 1) = {}
  BY DEF Whole, Found
<1>2. Splitting(s)[1] = SplitFrom(s, 1, Splitting(s))
  <2>1. 1 \in 1..(Len(s) + 1)
    OBVIOUS
  <2> QED
    BY <2>1, SplittingDef
<1>3. SubSeq(s, 1, Len(s)) = s
  <2>1. Len(s) \in Nat /\ Len(s) <= Len(s) /\ Len(s) \in Int /\ 1 \in Nat \ {0}
    OBVIOUS
  <2>2. /\ SubSeq(s, 1, Len(s)) \in Seq(A)
        /\ Len(SubSeq(s, 1, Len(s))) = IF 1 <= Len(s) THEN (Len(s) - 1) + 1 ELSE 0
        /\ \A j \in 1..((Len(s) - 1) + 1) : SubSeq(s, 1, Len(s))[j] = s[(1 + j) - 1]
    BY <2>1, SubSeqType
  <2>3. Len(SubSeq(s, 1, Len(s))) = Len(s)
    BY <2>1, <2>2
  <2>4. \A j \in 1..Len(s) : SubSeq(s, 1, Len(s))[j] = s[j]
    <3> TAKE j \in 1..Len(s)
    <3>1. j \in 1..((Len(s) - 1) + 1) /\ (1 + j) - 1 = j
      BY <2>1
    <3> QED
      BY <2>2, <3>1
  <2> QED
    BY <2>2, <2>3, <2>4, SeqEqual
<1> QED
  BY <1>1, <1>2, <1>3, SplitDef DEF SplitFrom

\* Split gives at least one component.
LEMMA PartsType ==
  ASSUME NEW A, NEW s \in Seq(A)
  PROVE  Split(s) \in Parts(A)
<1>1. 1 \in 1..(Len(s) + 1)
  OBVIOUS
<1> QED
  BY <1>1, SplittingDef, SplitDef

\* u is followed by the first separator of u \o Separator \o v
Leads(u) == Whole(u \o <<HYPHEN>>)

\* the separator is two bytes
LEMMA SeparatorIn ==
  ASSUME NEW A, HYPHEN \in A
  PROVE  /\ Separator \in Seq(A) /\ Len(Separator) = 2
         /\ Separator[1] = HYPHEN /\ Separator[2] = HYPHEN
  BY DEF Separator

\* the bytes of u \o Separator \o v
LEMMA Around ==
  ASSUME NEW A, HYPHEN \in A, NEW u \in Seq(A), NEW v \in Seq(A)
  PROVE  /\ (u \o Separator) \o v \in Seq(A)
         /\ u \o Separator \in Seq(A) /\ Len(u \o Separator) = Len(u) + 2
         /\ Len((u \o Separator) \o v) = (Len(u) + 2) + Len(v)
         /\ \A p \in 1..((Len(u) + 2) + Len(v)) :
              ((u \o Separator) \o v)[p] = IF p <= Len(u) THEN u[p]
                                           ELSE IF p <= Len(u) + 2 THEN HYPHEN
                                           ELSE v[p - (Len(u) + 2)]
<1> DEFINE e == Separator
           x == u \o e
           w == x \o v
<1>1. e \in Seq(A) /\ Len(e) = 2 /\ e[1] = HYPHEN /\ e[2] = HYPHEN
  BY SeparatorIn
<1> HIDE DEF e
<1>a. e \in Seq(A)
  BY <1>1
<1>2. /\ x \in Seq(A) /\ Len(x) = Len(u) + Len(e) /\ Len(u) \in Nat
      /\ \A p \in 1..(Len(u) + Len(e)) : x[p] = IF p <= Len(u) THEN u[p] ELSE e[p - Len(u)]
  BY <1>a, ConcatProperties
<1>3. /\ Len(x) = Len(u) + 2
      /\ \A p \in 1..(Len(u) + 2) : x[p] = IF p <= Len(u) THEN u[p] ELSE HYPHEN
  <2>1. Len(x) = Len(u) + 2
    BY <1>1, <1>2
  <2>2. ASSUME NEW p \in 1..(Len(u) + 2) PROVE x[p] = IF p <= Len(u) THEN u[p] ELSE HYPHEN
    <3>1. ~(p <= Len(u)) => p - Len(u) = 1 \/ p - Len(u) = 2
      BY <1>2, SMTT(30)
    <3>2. x[p] = IF p <= Len(u) THEN u[p] ELSE e[p - Len(u)]
      BY <1>1, <1>2
    <3> QED
      BY <1>1, <3>1, <3>2
  <2> QED
    BY <2>1, <2>2
<1>b. x \in Seq(A)
  BY <1>2
<1> HIDE DEF x
<1>4. /\ w \in Seq(A) /\ Len(w) = Len(x) + Len(v) /\ Len(v) \in Nat
      /\ \A p \in 1..(Len(x) + Len(v)) : w[p] = IF p <= Len(x) THEN x[p] ELSE v[p - Len(x)]
  BY <1>b, ConcatProperties
<1> HIDE DEF w
<1>5. ASSUME NEW p \in 1..((Len(u) + 2) + Len(v))
      PROVE  w[p] = IF p <= Len(u) THEN u[p] ELSE IF p <= Len(u) + 2 THEN HYPHEN
                    ELSE v[p - (Len(u) + 2)]
  <2>1. w[p] = IF p <= Len(u) + 2 THEN x[p] ELSE v[p - (Len(u) + 2)]
    BY <1>3, <1>4
  <2>2. p <= Len(u) + 2 => x[p] = IF p <= Len(u) THEN u[p] ELSE HYPHEN
    BY <1>2, <1>3
  <2>3. p <= Len(u) => p <= Len(u) + 2
    BY <1>2
  <2> QED
    BY <2>1, <2>2, <2>3
<1> QED
  BY <1>2, <1>3, <1>4, <1>5 DEF e, x, w

\* The component before the first separator, then those of the rest.
LEMMA FirstSplits ==
  ASSUME NEW A, HYPHEN \in A, NEW u \in Seq(A), NEW v \in Seq(A), Leads(u)
  PROVE  Split((u \o Separator) \o v) = <<u>> \o Split(v)
<1> DEFINE m == Len(u)
           n == Len(v)
           x == u \o Separator
           w == x \o v
           y == u \o <<HYPHEN>>
<1>1. /\ m \in Nat /\ n \in Nat
      /\ x \in Seq(A) /\ Len(x) = m + 2
      /\ w \in Seq(A) /\ Len(w) = (m + 2) + n
      /\ \A p \in 1..((m + 2) + n) :
           w[p] = IF p <= m THEN u[p] ELSE IF p <= m + 2 THEN HYPHEN ELSE v[p - (m + 2)]
  BY Around, SMTT(30)
<1>2. /\ y \in Seq(A) /\ Len(y) = m + 1
      /\ \A p \in 1..(m + 1) : y[p] = IF p <= m THEN u[p] ELSE HYPHEN
  <2>1. <<HYPHEN>> \in Seq(A)
    OBVIOUS
  <2> QED
    BY <2>1
<1>x. x \in Seq(A)
  BY <1>1
<1>3. \A p \in 1..(n + 1) : Splitting(w)[Len(x) + p] = Splitting(v)[p]
  <2> HIDE DEF x
  <2> QED
    BY <1>x, SplittingShift
<1> HIDE DEF w, x, y
<1>4. \A p \in 1..(m + 1) : w[p] = y[p]
  BY <1>1, <1>2
<1>5. \A q \in 1..m : ~IsSeparator(w, q)
  <2> TAKE q \in 1..m
  <2>1. q \in 1..(m + 1) /\ q + 1 \in 1..(m + 1) /\ q \in 1..(Len(y) - 1)
    BY <1>1, <1>2
  <2>2. ~IsSeparator(y, q)
    BY <2>1 DEF Leads, Whole, y
  <2> QED
    BY <1>4, <2>1, <2>2 DEF IsSeparator
<1>6. m + 1 \in Found(w, 1) /\ \A q \in Found(w, 1) : m + 1 <= q
  <2>1. w[m + 1] = HYPHEN /\ w[(m + 1) + 1] = HYPHEN
    <3>1. m + 1 \in 1..((m + 2) + n) /\ ~(m + 1 <= m) /\ m + 1 <= m + 2
      BY <1>1
    <3>2. (m + 1) + 1 \in 1..((m + 2) + n) /\ ~((m + 1) + 1 <= m) /\ (m + 1) + 1 <= m + 2
      BY <1>1
    <3> QED
      BY <1>1, <3>1, <3>2
  <2>2. m + 1 \in 1..(Len(w) - 1)
    BY <1>1
  <2>3. ASSUME NEW q \in Found(w, 1) PROVE m + 1 <= q
    <3>1. q \in Nat \ {0} /\ q \notin 1..m
      BY <1>5 DEF Found
    <3> QED
      BY <1>1, <3>1
  <2> QED
    BY <2>1, <2>2, <2>3 DEF Found, IsSeparator
<1>7. Min(Found(w, 1)) = m + 1
  <2>1. Found(w, 1) \in SUBSET Nat
    BY DEF Found
  <2> QED
    BY <1>6, <2>1, MinOf
<1>8. SubSeq(w, 1, m) = u
  <2>1. 1 \in Nat \ {0} /\ m \in Int /\ m <= Len(w)
    BY <1>1
  <2>2. /\ SubSeq(w, 1, m) \in Seq(A)
        /\ Len(SubSeq(w, 1, m)) = IF 1 <= m THEN (m - 1) + 1 ELSE 0
        /\ \A j \in 1..((m - 1) + 1) : SubSeq(w, 1, m)[j] = w[(1 + j) - 1]
    BY <1>1, <2>1, SubSeqType
  <2>3. Len(SubSeq(w, 1, m)) = m
    BY <1>1, <2>2
  <2>4. ASSUME NEW j \in 1..m PROVE SubSeq(w, 1, m)[j] = u[j]
    <3>1. j \in 1..((m - 1) + 1) /\ (1 + j) - 1 = j /\ j \in 1..((m + 2) + n) /\ j <= m
      BY <1>1
    <3> QED
      BY <1>1, <2>2, <3>1
  <2> QED
    BY <2>2, <2>3, <2>4, SeqEqual
<1>9. Splitting(w)[1] = SplitFrom(w, 1, Splitting(w))
  <2>1. 1 \in 1..(Len(w) + 1)
    BY <1>1
  <2> QED
    BY <1>1, <2>1, SplittingDef
<1>10. SplitFrom(w, 1, Splitting(w)) = <<u>> \o Splitting(w)[(m + 1) + 2]
  <2>1. Found(w, 1) # {} /\ (m + 1) - 1 = m
    BY <1>1, <1>6
  <2> QED
    BY <1>7, <1>8, <2>1 DEF SplitFrom
<1>11. Splitting(w)[(m + 1) + 2] = Splitting(v)[1]
  <2>1. (m + 1) + 2 = Len(x) + 1 /\ 1 \in 1..(n + 1)
    BY <1>1
  <2> QED
    BY <1>3, <2>1
<1> QED
  BY <1>9, <1>10, <1>11, SplitDef DEF w, x

\* A text is one component, or a component, a separator and the rest.
LEMMA PeelOff ==
  ASSUME NEW A, HYPHEN \in A, NEW s \in Seq(A), ~Whole(s)
  PROVE  \E u, v \in Seq(A) : /\ Leads(u) /\ s = (u \o Separator) \o v
                                 /\ Len(v) < Len(s)
<1> DEFINE n == Len(s)
           q == Min(Found(s, 1))
           u == SubSeq(s, 1, q - 1)
           v == SubSeq(s, q + 2, n)
           w == (u \o Separator) \o v
           y == u \o <<HYPHEN>>
<1>1. n \in Nat /\ Found(s, 1) # {}
  BY DEF Whole, Found
<1>2. /\ q \in 1..(n - 1) /\ s[q] = HYPHEN /\ s[q + 1] = HYPHEN
      /\ \A i \in Found(s, 1) : q <= i
  <2>1. 1 \in 1..(n + 1)
    BY <1>1
  <2> QED
    BY <1>1, <2>1, FoundFirst DEF IsSeparator
<1> HIDE DEF q
<1>3. /\ u \in Seq(A) /\ Len(u) = q - 1 /\ \A j \in 1..(q - 1) : u[j] = s[j]
  <2>1. 1 \in Nat \ {0} /\ q - 1 \in Int /\ q - 1 <= Len(s)
    BY <1>1, <1>2
  <2>2. /\ u \in Seq(A) /\ Len(u) = IF 1 <= q - 1 THEN ((q - 1) - 1) + 1 ELSE 0
        /\ \A j \in 1..(((q - 1) - 1) + 1) : u[j] = s[(1 + j) - 1]
    BY <2>1, SubSeqType
  <2>3. ((q - 1) - 1) + 1 = q - 1 /\ Len(u) = q - 1
    BY <1>2, <2>2
  <2>4. ASSUME NEW j \in 1..(q - 1) PROVE u[j] = s[j]
    <3>1. (1 + j) - 1 = j
      OBVIOUS
    <3> QED
      BY <2>2, <2>3, <3>1
  <2> QED
    BY <2>2, <2>3, <2>4
<1>4. /\ v \in Seq(A) /\ Len(v) = (n - q) - 1
      /\ \A j \in 1..((n - q) - 1) : v[j] = s[(q + 1) + j]
  <2>1. q + 2 \in Nat \ {0} /\ n \in Int /\ n <= Len(s)
    BY <1>1, <1>2
  <2>2. /\ v \in Seq(A) /\ Len(v) = IF q + 2 <= n THEN (n - (q + 2)) + 1 ELSE 0
        /\ \A j \in 1..((n - (q + 2)) + 1) : v[j] = s[((q + 2) + j) - 1]
    BY <2>1, SubSeqType
  <2>3. (n - (q + 2)) + 1 = (n - q) - 1 /\ Len(v) = (n - q) - 1
    BY <1>1, <1>2, <2>2
  <2>4. ASSUME NEW j \in 1..((n - q) - 1) PROVE v[j] = s[(q + 1) + j]
    <3>1. ((q + 2) + j) - 1 = (q + 1) + j
      BY <1>2
    <3> QED
      BY <2>2, <2>3, <3>1
  <2> QED
    BY <2>2, <2>3, <2>4
<1> HIDE DEF u, v
<1>5. /\ w \in Seq(A) /\ Len(w) = (Len(u) + 2) + Len(v)
      /\ \A p \in 1..((Len(u) + 2) + Len(v)) :
           w[p] = IF p <= Len(u) THEN u[p] ELSE IF p <= Len(u) + 2 THEN HYPHEN
                  ELSE v[p - (Len(u) + 2)]
  <2>1. u \in Seq(A) /\ v \in Seq(A)
    BY <1>3, <1>4
  <2>2. HYPHEN \in A
    OBVIOUS
  <2> QED
    BY <2>1, <2>2, Around, SMTT(30)
<1>6. /\ y \in Seq(A) /\ Len(y) = Len(u) + 1
      /\ \A p \in 1..(Len(u) + 1) : y[p] = IF p <= Len(u) THEN u[p] ELSE HYPHEN
  <2>1. <<HYPHEN>> \in Seq(A) /\ u \in Seq(A)
    BY <1>3
  <2> QED
    BY <2>1
<1> HIDE DEF w, y
<1>7. Len(w) = n /\ (Len(u) + 2) + Len(v) = n /\ Len(u) + 2 = q + 1
  BY <1>1, <1>2, <1>3, <1>4, <1>5
<1>8. ASSUME NEW p \in 1..n PROVE w[p] = s[p]
  <2>1. w[p] = IF p <= q - 1 THEN u[p] ELSE IF p <= q + 1 THEN HYPHEN ELSE v[p - (q + 1)]
    BY <1>3, <1>5, <1>7
  <2>2. CASE p <= q - 1
    BY <1>2, <1>3, <2>1, <2>2
  <2>3. CASE ~(p <= q - 1) /\ p <= q + 1
    <3>1. p = q \/ p = q + 1
      BY <1>2, <2>3
    <3> QED
      BY <1>2, <2>1, <2>3, <3>1
  <2>4. CASE ~(p <= q + 1)
    <3>1. /\ p - (q + 1) \in 1..((n - q) - 1) /\ (q + 1) + (p - (q + 1)) = p
          /\ ~(p <= q - 1)
      BY <1>1, <1>2, <2>4
    <3> QED
      BY <1>4, <2>1, <2>4, <3>1
  <2> QED
    BY <2>2, <2>3, <2>4
<1>9. s = w
  BY <1>5, <1>7, <1>8, SeqEqual
<1>10. Leads(u)
  <2>1. SUFFICES ASSUME NEW i \in 1..(Len(y) - 1), IsSeparator(y, i) PROVE FALSE
    BY DEF Leads, Whole, y
  <2>2. i \in 1..(q - 1) /\ i + 1 \in 1..q
    BY <1>2, <1>3, <1>6
  <2>3. \A p \in 1..q : y[p] = s[p]
    <3> TAKE p \in 1..q
    <3>1. y[p] = IF p <= q - 1 THEN u[p] ELSE HYPHEN
      BY <1>2, <1>3, <1>6
    <3>2. p <= q - 1 \/ p = q
      BY <1>2
    <3> QED
      BY <1>2, <1>3, <3>1, <3>2
  <2>4. IsSeparator(s, i)
    <3>1. i \in 1..q
      BY <1>2, <2>2
    <3>2. y[i] = s[i] /\ y[i + 1] = s[i + 1]
      BY <2>2, <2>3, <3>1
    <3> QED
      BY <2>1, <3>2 DEF IsSeparator
  <2>5. i \in 1..(n - 1) /\ ~(q <= i)
    BY <1>1, <1>2, <2>2
  <2> QED
    BY <1>2, <2>4, <2>5 DEF Found
<1>11. Len(v) < Len(s) /\ u \in Seq(A) /\ v \in Seq(A)
  BY <1>1, <1>2, <1>3, <1>4
<1> QED
  BY <1>9, <1>10, <1>11 DEF w

\* Induction along the components of a text.
LEMMA InductionOnParts ==
  ASSUME NEW A, HYPHEN \in A, NEW S, \A s \in Seq(A) : Whole(s) => s \in S,
         \A u, v \in Seq(A) : Leads(u) /\ v \in S => (u \o Separator) \o v \in S
  PROVE  Seq(A) \subseteq S
<1> DEFINE D == Seq(A)
           mu == [s \in D |-> Len(s)]
<1>1. mu \in [D -> Nat]
  OBVIOUS
<1>2. \A s \in D : (\A t \in D : mu[t] < mu[s] => t \in S) => s \in S
  <2> TAKE s \in D
  <2> HAVE \A t \in D : mu[t] < mu[s] => t \in S
  <2>1. CASE ~Whole(s)
    <3>1. PICK u \in Seq(A), v \in Seq(A) :
            Leads(u) /\ s = (u \o Separator) \o v /\ Len(v) < Len(s)
      BY <2>1, PeelOff
    <3>2. v \in S
      BY <3>1
    <3> QED
      BY <3>1, <3>2
  <2> QED
    BY <2>1
<1> HIDE DEF mu, D
<1>3. D \subseteq S
  BY <1>1, <1>2, MeasureInduction
<1> QED
  BY <1>3 DEF D

-----------------------------------------------------------------------------
(* The same for texts of bytes.                                            *)

Components == Parts(Byte)

\* the hyphen is a byte
LEMMA HyphenByte == HYPHEN \in Byte
  BY DEF HYPHEN, Byte

\* A text without a separator is its own only component.
LEMMA SplitWhole ==
  ASSUME NEW s \in Seq(Byte), Whole(s)
  PROVE  Split(s) = <<s>>
  BY WholeSplits

\* Split gives at least one component.
LEMMA SplitType ==
  ASSUME NEW s \in Seq(Byte)
  PROVE  Split(s) \in Components
  BY PartsType DEF Components

\* the separator is two bytes
LEMMA SeparatorType ==
  /\ Separator \in Seq(Byte) /\ Len(Separator) = 2
  /\ Separator[1] = HYPHEN /\ Separator[2] = HYPHEN
  BY HyphenByte, SeparatorIn

\* the bytes of u \o Separator \o v
LEMMA AroundSeparator ==
  ASSUME NEW u \in Seq(Byte), NEW v \in Seq(Byte)
  PROVE  /\ (u \o Separator) \o v \in Seq(Byte)
         /\ u \o Separator \in Seq(Byte) /\ Len(u \o Separator) = Len(u) + 2
         /\ Len((u \o Separator) \o v) = (Len(u) + 2) + Len(v)
         /\ \A p \in 1..((Len(u) + 2) + Len(v)) :
              ((u \o Separator) \o v)[p] = IF p <= Len(u) THEN u[p]
                                           ELSE IF p <= Len(u) + 2 THEN HYPHEN
                                           ELSE v[p - (Len(u) + 2)]
<1>1. HYPHEN \in Byte
  BY HyphenByte
<1> QED
  BY <1>1, Around, SMTT(30)

\* The component before the first separator, then those of the rest.
LEMMA SplitFirst ==
  ASSUME NEW u \in Seq(Byte), NEW v \in Seq(Byte), Leads(u)
  PROVE  Split((u \o Separator) \o v) = <<u>> \o Split(v)
  BY HyphenByte, FirstSplits, Zenon

\* Induction along the components of a text.
LEMMA SplitInduction ==
  ASSUME NEW S, \A s \in Seq(Byte) : Whole(s) => s \in S,
         \A u, v \in Seq(Byte) : Leads(u) /\ v \in S => (u \o Separator) \o v \in S
  PROVE  Seq(Byte) \subseteq S
  BY HyphenByte, InductionOnParts, Zenon

-----------------------------------------------------------------------------
\* what Join puts together: every component but the first behind a separator
Pieces(c) == [j \in DOMAIN c |-> IF j = 1 THEN c[j] ELSE Separator \o c[j]]

\* Join in terms of its pieces
LEMMA JoinDef == ASSUME NEW c PROVE Join(c) = FlattenSeq(Pieces(c))
  BY DEF Join, Pieces

\* the pieces are byte sequences
LEMMA PiecesType ==
  ASSUME NEW c \in Seq(Seq(Byte))
  PROVE  /\ Pieces(c) \in Seq(Seq(Byte)) /\ Len(Pieces(c)) = Len(c)
         /\ \A j \in 1..Len(c) : Pieces(c)[j] = IF j = 1 THEN c[j] ELSE Separator \o c[j]
<1>1. \A j \in 1..Len(c) : (IF j = 1 THEN c[j] ELSE Separator \o c[j]) \in Seq(Byte)
  <2> TAKE j \in 1..Len(c)
  <2>1. c[j] \in Seq(Byte) /\ Separator \in Seq(Byte)
    BY SeparatorType
  <2> QED
    BY <2>1
<1>2. DOMAIN c = 1..Len(c) /\ Len(c) \in Nat
  OBVIOUS
<1> QED
  BY <1>1, <1>2 DEF Pieces

\* what is joined is a byte sequence
LEMMA JoinType ==
  ASSUME NEW c \in Seq(Seq(Byte))
  PROVE  Join(c) \in Seq(Byte)
  BY PiecesType, FlattenType, JoinDef

\* one component is joined to itself
LEMMA JoinSingle ==
  ASSUME NEW u \in Seq(Byte)
  PROVE  Join(<<u>>) = u
<1>1. Pieces(<<u>>) = <<u>>
  BY DEF Pieces
<1> QED
  BY <1>1, FlattenSingle, JoinDef

\* The first component, a separator, and the rest joined.
LEMMA JoinFirst ==
  ASSUME NEW u \in Seq(Byte), NEW c \in Components
  PROVE  Join(<<u>> \o c) = (u \o Separator) \o Join(c)
<1> DEFINE B == Seq(Byte)
           d == <<u>> \o c
           n == Len(c)
           p == Pieces(c)
           q == Pieces(d)
           rest == Tail(p)
           e == <<Separator \o c[1]>>
           x == <<c[1]>>
<1>1. /\ c \in Seq(Seq(Byte)) /\ n \in Nat \ {0} /\ c[1] \in Seq(Byte)
      /\ d \in Seq(Seq(Byte)) /\ Len(d) = n + 1
      /\ d[1] = u /\ \A j \in 1..n : d[j + 1] = c[j]
  <2>1. c \in Seq(Seq(Byte)) /\ c # <<>> /\ <<u>> \in Seq(Seq(Byte))
    BY DEF Components, Parts
  <2> QED
    BY <2>1
<1> HIDE DEF d
<1>2. /\ p \in Seq(B) /\ Len(p) = n
      /\ \A j \in 1..n : p[j] = IF j = 1 THEN c[j] ELSE Separator \o c[j]
  BY <1>1, PiecesType
<1>3. /\ q \in Seq(B) /\ Len(q) = n + 1
      /\ \A j \in 1..(n + 1) : q[j] = IF j = 1 THEN d[j] ELSE Separator \o d[j]
  BY <1>1, PiecesType
<1>s. Separator \in Seq(Byte) /\ Separator \o c[1] \in Seq(Byte)
  <2>1. Separator \in Seq(Byte)
    BY SeparatorType
  <2> QED
    BY <1>1, <2>1
<1>4. x \in Seq(B) /\ e \in Seq(B) /\ <<u>> \in Seq(B)
  BY <1>1, <1>s
<1>5. e[1] = Separator \o c[1] /\ Len(e) = 1 /\ x[1] = c[1] /\ Len(x) = 1
  OBVIOUS
<1> HIDE DEF B, p, q, e, x, n
<1>6. /\ rest \in Seq(B) /\ Len(rest) = n - 1
      /\ \A j \in 1..(n - 1) : rest[j] = Separator \o c[j + 1]
  <2>1. p # <<>>
    BY <1>1, <1>2
  <2>2. rest \in Seq(B) /\ Len(rest) = n - 1 /\ \A j \in 1..(n - 1) : rest[j] = p[j + 1]
    BY <1>1, <1>2, <2>1
  <2>3. \A j \in 1..(n - 1) : j + 1 \in 1..n /\ j + 1 # 1
    BY <1>1
  <2> QED
    BY <1>2, <2>2, <2>3
<1> HIDE DEF rest
<1>7. p = x \o rest
  <2>0. x \in Seq(B) /\ rest \in Seq(B)
    BY <1>4, <1>6
  <2>a. /\ x \o rest \in Seq(B) /\ Len(x \o rest) = Len(x) + Len(rest)
        /\ \A j \in 1..(Len(x) + Len(rest)) :
             (x \o rest)[j] = IF j <= Len(x) THEN x[j] ELSE rest[j - Len(x)]
    BY <2>0, ConcatProperties
  <2>1. /\ x \o rest \in Seq(B) /\ Len(x \o rest) = n
        /\ \A j \in 1..n : (x \o rest)[j] = IF j <= 1 THEN x[j] ELSE rest[j - 1]
    <3>1. Len(x) = 1 /\ Len(x) + Len(rest) = n
      BY <1>1, <1>5, <1>6
    <3> QED
      BY <2>a, <3>1
  <2>2. ASSUME NEW j \in 1..n PROVE p[j] = (x \o rest)[j]
    <3>1. CASE j = 1
      <4>1. p[j] = c[1]
        BY <1>2, <3>1
      <4>2. (x \o rest)[j] = x[1]
        BY <2>1, <3>1
      <4> QED
        BY <1>5, <4>1, <4>2
    <3>2. CASE j # 1
      <4>1. j - 1 \in 1..(n - 1) /\ (j - 1) + 1 = j
        BY <1>1, <3>2
      <4>2. (x \o rest)[j] = rest[j - 1]
        BY <2>1, <3>2, <4>1
      <4> QED
        BY <1>2, <1>6, <3>2, <4>1, <4>2, ZenonT(30)
    <3> QED
      BY <3>1, <3>2
  <2> QED
    BY <1>2, <2>1, <2>2, SeqEqual
<1>8. q = (<<u>> \o e) \o rest
  <2> DEFINE y == <<u>> \o e
             z == <<u>>
  <2>0. z \in Seq(B) /\ e \in Seq(B) /\ Len(z) = 1 /\ z[1] = u
    BY <1>4
  <2> HIDE DEF z
  <2>a. /\ y \in Seq(B) /\ Len(y) = Len(z) + Len(e)
        /\ \A j \in 1..(Len(z) + Len(e)) : y[j] = IF j <= Len(z) THEN z[j] ELSE e[j - Len(z)]
    <3>1. z \in Seq(B) /\ e \in Seq(B)
      BY <2>0
    <3>2. /\ z \o e \in Seq(B) /\ Len(z \o e) = Len(z) + Len(e)
          /\ \A j \in 1..(Len(z) + Len(e)) :
               (z \o e)[j] = IF j <= Len(z) THEN z[j] ELSE e[j - Len(z)]
      BY <3>1, ConcatProperties
    <3> QED
      BY <3>2 DEF z
  <2> HIDE DEF y
  <2>1. y \in Seq(B) /\ Len(y) = 2 /\ y[1] = u /\ y[2] = e[1]
    BY <1>5, <2>0, <2>a
  <2>b. y \in Seq(B) /\ rest \in Seq(B)
    BY <1>6, <2>1
  <2>c. /\ y \o rest \in Seq(B) /\ Len(y \o rest) = Len(y) + Len(rest)
        /\ \A j \in 1..(Len(y) + Len(rest)) :
             (y \o rest)[j] = IF j <= Len(y) THEN y[j] ELSE rest[j - Len(y)]
    BY <2>b, ConcatProperties
  <2>2. /\ y \o rest \in Seq(B) /\ Len(y \o rest) = n + 1
        /\ \A j \in 1..(n + 1) : (y \o rest)[j] = IF j <= 2 THEN y[j] ELSE rest[j - 2]
    <3>1. Len(y) = 2 /\ Len(y) + Len(rest) = n + 1
      BY <1>1, <1>6, <2>1
    <3> QED
      BY <2>c, <3>1
  <2>3. ASSUME NEW j \in 1..(n + 1) PROVE q[j] = (y \o rest)[j]
    <3>1. CASE j = 1
      <4>1. q[j] = d[1]
        BY <1>3, <3>1
      <4>2. (y \o rest)[j] = y[1]
        BY <2>2, <3>1
      <4> QED
        BY <1>1, <2>1, <4>1, <4>2
    <3>2. CASE j = 2
      <4>1. d[1 + 1] = c[1]
        BY <1>1
      <4>2. (y \o rest)[2] = y[2]
        BY <2>2, <3>2
      <4>3. 2 \in 1..(n + 1) /\ 1 + 1 = 2 /\ 2 # 1
        BY <1>1
      <4>4. q[2] = Separator \o d[2]
        BY <1>3, <4>3
      <4> QED
        BY <1>5, <2>1, <3>2, <4>1, <4>2, <4>3, <4>4
    <3>3. CASE j # 1 /\ j # 2
      <4>1. j - 2 \in 1..(n - 1) /\ (j - 2) + 1 = j - 1 /\ j - 1 \in 1..n /\ (j - 1) + 1 = j
        BY <1>1, <3>3
      <4>2. (y \o rest)[j] = rest[j - 2]
        BY <2>2, <3>3
      <4>3. q[j] = Separator \o c[j - 1]
        BY <1>1, <1>3, <3>3, <4>1
      <4> QED
        BY <1>6, <4>1, <4>2, <4>3
    <3> QED
      BY <3>1, <3>2, <3>3
  <2>4. q = y \o rest
    BY <1>3, <2>2, <2>3, SeqEqual
  <2> QED
    BY <2>4 DEF y
<1> DEFINE r == FlattenSeq(rest)
<1>9. r \in Seq(Byte)
  BY <1>6, FlattenType DEF B
<1>10. Join(c) = c[1] \o r
  <2>1. FlattenSeq(x) = c[1]
    BY <1>1, FlattenSingle DEF x
  <2>2. FlattenSeq(x \o rest) = FlattenSeq(x) \o r
    BY <1>4, <1>6, FlattenConcat DEF B
  <2> QED
    BY <1>7, <2>1, <2>2, JoinDef DEF p
<1>11. Join(d) = (u \o (Separator \o c[1])) \o r
  <2>1. FlattenSeq(<<u>>) = u
    BY FlattenSingle
  <2>2. FlattenSeq(e) = Separator \o c[1]
    BY <1>s, FlattenSingle DEF e
  <2>3. FlattenSeq(<<u>> \o e) = FlattenSeq(<<u>>) \o FlattenSeq(e)
    BY <1>4, FlattenConcat DEF B
  <2>4. <<u>> \o e \in Seq(B)
    BY <1>4
  <2>5. FlattenSeq((<<u>> \o e) \o rest) = FlattenSeq(<<u>> \o e) \o r
    BY <1>6, <2>4, FlattenConcat DEF B
  <2> QED
    BY <1>8, <2>1, <2>2, <2>3, <2>5, JoinDef DEF q
<1> HIDE DEF r
<1>12. (u \o (Separator \o c[1])) \o r = (u \o Separator) \o (c[1] \o r)
  <2> DEFINE f == c[1]
             g == Separator
  <2>1. f \in Seq(Byte) /\ g \in Seq(Byte)
    BY <1>1, <1>s
  <2> HIDE DEF f, g
  <2>2. u \o (g \o f) = (u \o g) \o f
    BY <2>1, Associative
  <2> DEFINE k == u \o g
  <2>3. k \in Seq(Byte)
    BY <2>1
  <2> HIDE DEF k
  <2>4. (k \o f) \o r = k \o (f \o r)
    <3>1. k \in Seq(Byte) /\ f \in Seq(Byte) /\ r \in Seq(Byte)
      BY <1>9, <2>1, <2>3
    <3> QED
      BY <3>1, Associative
  <2> QED
    BY <2>2, <2>4 DEF f, g, k
<1> QED
  BY <1>10, <1>11, <1>12 DEF d

-----------------------------------------------------------------------------
\* a function applied to every component
Mapped(f, c) == [j \in DOMAIN c |-> f[c[j]]]

\* a function applied to every element
LEMMA EachType ==
  ASSUME NEW A, NEW V, NEW f, \A a \in A : f[a] \in V, NEW c \in Seq(A)
  PROVE  /\ Mapped(f, c) \in Seq(V) /\ Len(Mapped(f, c)) = Len(c)
         /\ \A j \in 1..Len(c) : Mapped(f, c)[j] = f[c[j]]
<1>1. \A j \in 1..Len(c) : c[j] \in A
  OBVIOUS
<1>2. \A j \in 1..Len(c) : f[c[j]] \in V
  BY <1>1
<1>3. DOMAIN c = 1..Len(c) /\ Len(c) \in Nat
  OBVIOUS
<1> QED
  BY <1>2, <1>3 DEF Mapped

\* to one element
LEMMA MappedSingle ==
  ASSUME NEW f, NEW u
  PROVE  Mapped(f, <<u>>) = <<f[u]>>
  BY DEF Mapped

\* an element and the rest of a sequence
Headed(u, c) == <<u>> \o c

\* to the first element and the others
LEMMA EachFirst ==
  ASSUME NEW A, NEW f, NEW u \in A, NEW c \in Seq(A)
  PROVE  Mapped(f, Headed(u, c)) = Headed(f[u], Mapped(f, c))
<1> DEFINE V == {f[a] : a \in A}
           n == Len(c)
           d == <<u>> \o c
           x == Mapped(f, d)
           y == Mapped(f, c)
           v == f[u]
<1>1. /\ n \in Nat /\ d \in Seq(A) /\ Len(d) = n + 1
      /\ d[1] = u /\ \A j \in 1..n : d[j + 1] = c[j]
  OBVIOUS
<1>a. \A a \in A : f[a] \in V
  OBVIOUS
<1> HIDE DEF d, V
<1>2. x \in Seq(V) /\ Len(x) = n + 1 /\ \A j \in 1..(n + 1) : x[j] = f[d[j]]
  <2>1. d \in Seq(A)
    BY <1>1
  <2>2. Mapped(f, d) \in Seq(V)
    BY <1>a, <2>1, EachType
  <2>3. Len(Mapped(f, d)) = Len(d) /\ \A j \in 1..Len(d) : Mapped(f, d)[j] = f[d[j]]
    BY <2>1 DEF Mapped
  <2> HIDE DEF n
  <2> QED
    BY <1>1, <2>2, <2>3
<1>3. y \in Seq(V) /\ Len(y) = n /\ \A j \in 1..n : y[j] = f[c[j]]
  <2>1. y \in Seq(V)
    BY <1>a, EachType
  <2>2. Len(y) = n /\ \A j \in 1..n : y[j] = f[c[j]]
    BY DEF Mapped
  <2> QED
    BY <2>1, <2>2
<1>4. v \in V
  BY <1>a
<1> HIDE DEF x, y, n
<1>5. /\ <<v>> \o y \in Seq(V) /\ Len(<<v>> \o y) = n + 1
      /\ (<<v>> \o y)[1] = v /\ \A j \in 1..n : (<<v>> \o y)[j + 1] = y[j]
  <2> HIDE DEF v
  <2> QED
    BY <1>1, <1>3, <1>4
<1>6. ASSUME NEW j \in 1..(n + 1) PROVE x[j] = (<<v>> \o y)[j]
  <2>1. CASE j = 1
    BY <1>1, <1>2, <1>5, <2>1
  <2>2. CASE j # 1
    <3>1. j - 1 \in 1..n /\ (j - 1) + 1 = j
      BY <1>1, <2>2
    <3>2. d[(j - 1) + 1] = c[j - 1] /\ (<<v>> \o y)[(j - 1) + 1] = y[j - 1]
      BY <1>1, <1>5, <3>1
    <3> QED
      BY <1>2, <1>3, <3>1, <3>2
  <2> QED
    BY <2>1, <2>2
<1>7. x = <<v>> \o y
  BY <1>2, <1>5, <1>6, SeqEqual
<1> QED
  BY <1>7 DEF x, y, v, d, Headed

\* and to texts of bytes
LEMMA MappedType ==
  ASSUME NEW V, NEW f \in [Seq(Byte) -> V], NEW c \in Seq(Seq(Byte))
  PROVE  /\ Mapped(f, c) \in Seq(V) /\ Len(Mapped(f, c)) = Len(c)
         /\ \A j \in 1..Len(c) : Mapped(f, c)[j] = f[c[j]]
<1>1. \A a \in Seq(Byte) : f[a] \in V
  OBVIOUS
<1>2. Mapped(f, c) \in Seq(V)
  BY <1>1, EachType
<1>3. Len(Mapped(f, c)) = Len(c) /\ \A j \in 1..Len(c) : Mapped(f, c)[j] = f[c[j]]
  <2>1. DOMAIN c = 1..Len(c) /\ Len(c) \in Nat
    OBVIOUS
  <2> QED
    BY <2>1 DEF Mapped
<1> QED
  BY <1>2, <1>3

\* the first text and the others
LEMMA MappedFirst ==
  ASSUME NEW V, NEW f \in [Seq(Byte) -> V], NEW u \in Seq(Byte), NEW c \in Seq(Seq(Byte))
  PROVE  Mapped(f, <<u>> \o c) = <<f[u]>> \o Mapped(f, c)
<1>1. Mapped(f, Headed(u, c)) = Headed(f[u], Mapped(f, c))
  BY EachFirst
<1> QED
  BY <1>1 DEF Headed

-----------------------------------------------------------------------------
Encoder == [u \in Seq(Byte) |-> EncodeComponent(u)]
Folder  == [u \in Seq(Byte) |-> Lowercase(u)]

\* the two functions applied are functions on texts
LEMMA CoderTypes ==
  Encoder \in [Seq(Byte) -> Seq(Byte)] /\ Folder \in [Seq(Byte) -> Seq(Byte)]
  BY EncodeType, LowercaseType DEF Encoder, Folder

\* components are byte sequences
LEMMA ComponentsType ==
  ASSUME NEW c \in Components
  PROVE  c \in Seq(Seq(Byte)) /\ Len(c) \in Nat \ {0}
  BY DEF Components, Parts

\* what components are mapped to are components
LEMMA MappedComponents ==
  ASSUME NEW f \in [Seq(Byte) -> Seq(Byte)], NEW c \in Components
  PROVE  Mapped(f, c) \in Components
<1>1. c \in Seq(Seq(Byte)) /\ Len(c) \in Nat \ {0}
  BY ComponentsType
<1>2. Mapped(f, c) \in Seq(Seq(Byte)) /\ Len(Mapped(f, c)) = Len(c)
  BY <1>1, MappedType
<1>3. Mapped(f, c) # <<>>
  BY <1>1, <1>2
<1> QED
  BY <1>2, <1>3 DEF Components, Parts

\* a component in front of components
LEMMA ConsComponents ==
  ASSUME NEW u \in Seq(Byte), NEW c \in Components
  PROVE  <<u>> \o c \in Components
<1>1. c \in Seq(Seq(Byte)) /\ <<u>> \in Seq(Seq(Byte)) /\ Len(c) \in Nat \ {0}
  BY ComponentsType
<1>2. <<u>> \o c \in Seq(Seq(Byte)) /\ Len(<<u>> \o c) = 1 + Len(c)
  BY <1>1
<1>3. <<u>> \o c # <<>>
  BY <1>1, <1>2
<1> QED
  BY <1>2, <1>3 DEF Components, Parts

\* EncodeBody in terms of Mapped
LEMMA BodyDef ==
  ASSUME NEW s \in Seq(Byte)
  PROVE  EncodeBody(s) = Join(Mapped(Encoder, Split(s)))
<1> DEFINE c == Split(s)
<1>1. c \in Seq(Seq(Byte)) /\ Len(c) \in Nat \ {0}
  BY SplitType, ComponentsType
<1>2. EncodeBody(s) = Join([j \in DOMAIN c |-> EncodeComponent(c[j])])
  BY DEF EncodeBody
<1> HIDE DEF c
<1>3. \A j \in DOMAIN c : Encoder[c[j]] = EncodeComponent(c[j])
  <2> TAKE j \in DOMAIN c
  <2>1. c[j] \in Seq(Byte)
    BY <1>1
  <2> QED
    BY <2>1 DEF Encoder
<1>4. Mapped(Encoder, c) = [j \in DOMAIN c |-> EncodeComponent(c[j])]
  BY <1>3 DEF Mapped
<1> QED
  BY <1>2, <1>4 DEF c

\* an encoded body is a byte sequence
LEMMA BodyType ==
  ASSUME NEW s \in Seq(Byte)
  PROVE  EncodeBody(s) \in Seq(Byte)
<1>1. Mapped(Encoder, Split(s)) \in Components
  BY SplitType, CoderTypes, MappedComponents
<1>2. Mapped(Encoder, Split(s)) \in Seq(Seq(Byte))
  BY <1>1, ComponentsType
<1> QED
  BY <1>2, BodyDef, JoinType

\* The body of a single component, and that of a text cut at its first separator.
LEMMA BodyWhole ==
  ASSUME NEW s \in Seq(Byte), Whole(s)
  PROVE  EncodeBody(s) = EncodeComponent(s)
<1>1. Split(s) = <<s>>
  BY SplitWhole
<1>2. Encoder[s] = EncodeComponent(s) /\ EncodeComponent(s) \in Seq(Byte)
  BY EncodeType DEF Encoder
<1> QED
  BY <1>1, <1>2, BodyDef, MappedSingle, JoinSingle

\* a body is encoded up to its first separator, and then the rest
LEMMA BodyFirst ==
  ASSUME NEW u \in Seq(Byte), NEW v \in Seq(Byte), Leads(u)
  PROVE  EncodeBody((u \o Separator) \o v) = (EncodeComponent(u) \o Separator) \o EncodeBody(v)
<1> DEFINE w == (u \o Separator) \o v
           c == Split(v)
<1>1. w \in Seq(Byte)
  BY AroundSeparator
<1>2. Split(w) = <<u>> \o c
  BY SplitFirst
<1>3. c \in Seq(Seq(Byte)) /\ Mapped(Encoder, c) \in Components
  BY SplitType, ComponentsType, CoderTypes, MappedComponents
<1>4. EncodeBody(v) = Join(Mapped(Encoder, c))
  BY BodyDef
<1> HIDE DEF w, c
<1>5. Mapped(Encoder, <<u>> \o c) = <<Encoder[u]>> \o Mapped(Encoder, c)
  BY <1>3, CoderTypes, MappedFirst
<1>6. Encoder[u] = EncodeComponent(u) /\ EncodeComponent(u) \in Seq(Byte)
  BY EncodeType DEF Encoder
<1>7. EncodeBody(w) = Join(<<EncodeComponent(u)>> \o Mapped(Encoder, c))
  BY <1>1, <1>2, <1>5, <1>6, BodyDef
<1>8. Join(<<EncodeComponent(u)>> \o Mapped(Encoder, c)) =
        (EncodeComponent(u) \o Separator) \o Join(Mapped(Encoder, c))
  <2> DEFINE e == EncodeComponent(u)
             d == Mapped(Encoder, c)
  <2>1. e \in Seq(Byte) /\ d \in Components
    BY <1>3, <1>6
  <2> HIDE DEF e, d
  <2>2. Join(<<e>> \o d) = (e \o Separator) \o Join(d)
    BY <2>1, JoinFirst
  <2> QED
    BY <2>2 DEF e, d
<1> QED
  BY <1>4, <1>7, <1>8 DEF w

\* Joining undoes splitting.
LEMMA JoinSplit ==
  ASSUME NEW s \in Seq(Byte)
  PROVE  Join(Split(s)) = s
<1> DEFINE S == {x \in Seq(Byte) : Join(Split(x)) = x}
<1>1. \A x \in Seq(Byte) : Whole(x) => x \in S
  BY SplitWhole, JoinSingle
<1>2. \A u, v \in Seq(Byte) : Leads(u) /\ v \in S => (u \o Separator) \o v \in S
  <2> TAKE u, v \in Seq(Byte)
  <2> HAVE Leads(u) /\ v \in S
  <2> DEFINE w == (u \o Separator) \o v
  <2>1. w \in Seq(Byte)
    BY AroundSeparator
  <2>2. Split(w) = <<u>> \o Split(v)
    BY SplitFirst
  <2>3. Join(<<u>> \o Split(v)) = (u \o Separator) \o Join(Split(v))
    BY SplitType, JoinFirst
  <2> QED
    BY <2>1, <2>2, <2>3
<1>3. Seq(Byte) \subseteq S
  <2> HIDE DEF S
  <2> QED
    BY <1>1, <1>2, SplitInduction
<1> QED
  BY <1>3

-----------------------------------------------------------------------------
\* Folding keeps the hyphens where they are, and so the components.
LEMMA FoldHyphen ==
  ASSUME NEW b \in Byte
  PROVE  Canonical(b) = HYPHEN <=> b = HYPHEN
  BY DEF Canonical, HYPHEN, Byte

\* folding makes no separator
LEMMA FoldWhole ==
  ASSUME NEW s \in Seq(Byte), Whole(s)
  PROVE  Whole(Lowercase(s))
<1> DEFINE t == Lowercase(s)
<1>1. /\ t \in Seq(Byte) /\ Len(t) = Len(s) /\ Len(s) \in Nat
      /\ \A j \in 1..Len(s) : t[j] = Canonical(s[j]) /\ s[j] \in Byte
  BY LowercaseType
<1> HIDE DEF t
<1>2. ASSUME NEW q \in 1..(Len(t) - 1), IsSeparator(t, q) PROVE FALSE
  <2>1. q \in 1..Len(s) /\ q + 1 \in 1..Len(s) /\ q \in 1..(Len(s) - 1)
    BY <1>1
  <2>2. Canonical(s[q]) = HYPHEN /\ Canonical(s[q + 1]) = HYPHEN
    BY <1>1, <1>2, <2>1 DEF IsSeparator
  <2>3. s[q] = HYPHEN /\ s[q + 1] = HYPHEN
    BY <1>1, <2>1, <2>2, FoldHyphen
  <2> QED
    BY <2>1, <2>3 DEF Whole, IsSeparator
<1> QED
  BY <1>2 DEF Whole, t

\* a hyphen is a byte that folds to itself
LEMMA HyphenType == HYPHEN \in Byte /\ <<HYPHEN>> \in Seq(Byte) /\ Canonical(HYPHEN) = HYPHEN
<1>1. HYPHEN \in Byte /\ Canonical(HYPHEN) = HYPHEN
  BY DEF HYPHEN, Byte, Canonical
<1> QED
  BY <1>1

\* folding keeps where the first separator is
LEMMA FoldLeads ==
  ASSUME NEW u \in Seq(Byte), Leads(u)
  PROVE  Leads(Lowercase(u))
<1> DEFINE y == u \o <<HYPHEN>>
<1>1. y \in Seq(Byte) /\ Whole(y)
  BY HyphenType DEF Leads
<1>2. Lowercase(y) = Lowercase(u) \o <<HYPHEN>>
  BY HyphenType, LowercaseConcat, LowercaseSingle
<1> HIDE DEF y
<1> QED
  BY <1>1, <1>2, FoldWhole DEF Leads

\* folding keeps the separator between two texts
LEMMA FoldAround ==
  ASSUME NEW u \in Seq(Byte), NEW v \in Seq(Byte)
  PROVE  Lowercase((u \o Separator) \o v) = (Lowercase(u) \o Separator) \o Lowercase(v)
<1> DEFINE x == u \o Separator
<1>1. x \in Seq(Byte) /\ Separator \in Seq(Byte)
  BY AroundSeparator, SeparatorType
<1>2. Lowercase(Separator) = Separator
  <2>1. Separator = <<HYPHEN, HYPHEN>>
    BY DEF Separator
  <2>2. Lowercase(<<HYPHEN, HYPHEN>>) = <<HYPHEN, HYPHEN>>
    BY HyphenType DEF Lowercase
  <2> QED
    BY <2>1, <2>2
<1>3. Lowercase(x) = Lowercase(u) \o Separator
  BY <1>1, <1>2, LowercaseConcat, ZenonT(30)
<1> HIDE DEF x
<1>4. Lowercase(x \o v) = Lowercase(x) \o Lowercase(v)
  BY <1>1, LowercaseConcat
<1> QED
  BY <1>3, <1>4 DEF x

\* Folding goes component by component.
LEMMA FoldSplit ==
  ASSUME NEW s \in Seq(Byte)
  PROVE  Split(Lowercase(s)) = Mapped(Folder, Split(s))
<1> DEFINE S == {x \in Seq(Byte) : Split(Lowercase(x)) = Mapped(Folder, Split(x))}
<1>1. \A x \in Seq(Byte) : Whole(x) => x \in S
  <2> TAKE x \in Seq(Byte)
  <2> HAVE Whole(x)
  <2>1. Lowercase(x) \in Seq(Byte) /\ Whole(Lowercase(x)) /\ Folder[x] = Lowercase(x)
    BY LowercaseType, FoldWhole DEF Folder
  <2>2. Split(x) = <<x>> /\ Split(Lowercase(x)) = <<Lowercase(x)>>
    BY <2>1, SplitWhole
  <2> QED
    BY <2>1, <2>2, MappedSingle
<1>2. \A u, v \in Seq(Byte) : Leads(u) /\ v \in S => (u \o Separator) \o v \in S
  <2> TAKE u, v \in Seq(Byte)
  <2> HAVE Leads(u) /\ v \in S
  <2> DEFINE w == (u \o Separator) \o v
             c == Split(v)
             a == Lowercase(u)
             b == Lowercase(v)
  <2>1. w \in Seq(Byte) /\ c \in Seq(Seq(Byte))
    BY AroundSeparator, SplitType, ComponentsType
  <2>2. Split(w) = <<u>> \o c
    BY SplitFirst
  <2>3. Split(b) = Mapped(Folder, c)
    OBVIOUS
  <2>4. Lowercase(w) = (a \o Separator) \o b
    BY FoldAround
  <2>5. a \in Seq(Byte) /\ b \in Seq(Byte) /\ Leads(a) /\ Folder[u] = a
    BY LowercaseType, FoldLeads DEF Folder
  <2> HIDE DEF a, b, c, w
  <2>6. Split((a \o Separator) \o b) = <<a>> \o Split(b)
    BY <2>5, SplitFirst
  <2>7. Mapped(Folder, <<u>> \o c) = <<Folder[u]>> \o Mapped(Folder, c)
    BY <2>1, CoderTypes, MappedFirst
  <2>8. Split(Lowercase(w)) = Mapped(Folder, Split(w))
    BY <2>2, <2>3, <2>4, <2>5, <2>6, <2>7
  <2> QED
    BY <2>1, <2>8 DEF w
<1>3. Seq(Byte) \subseteq S
  <2> HIDE DEF S
  <2> QED
    BY <1>1, <1>2, SplitInduction
<1> QED
  BY <1>3

-----------------------------------------------------------------------------
\* Behind every hyphen of an encoded component there is another byte, and it is
\* not a hyphen.
Clean(e) == \A q \in 1..Len(e) : e[q] = HYPHEN => q + 1 <= Len(e) /\ e[q + 1] # HYPHEN

\* texts without a raw separator, one after the other
LEMMA CleanConcat ==
  ASSUME NEW d \in Seq(Byte), NEW e \in Seq(Byte), Clean(d), Clean(e)
  PROVE  Clean(d \o e)
<1> DEFINE m == Len(d)
           n == Len(e)
           w == d \o e
<1>1. /\ m \in Nat /\ n \in Nat /\ Len(w) = m + n
      /\ \A p \in 1..(m + n) : w[p] = IF p <= m THEN d[p] ELSE e[p - m]
  BY ConcatProperties
<1> HIDE DEF w
<1>2. ASSUME NEW q \in 1..Len(w), w[q] = HYPHEN
      PROVE  q + 1 <= Len(w) /\ w[q + 1] # HYPHEN
  <2>0. q \in 1..(m + n)
    BY <1>1
  <2>1. CASE q <= m
    <3>1. q \in 1..m /\ d[q] = HYPHEN
      BY <1>1, <1>2, <2>0, <2>1
    <3>2. q + 1 <= m /\ d[q + 1] # HYPHEN
      BY <3>1 DEF Clean
    <3>3. q + 1 \in 1..(m + n)
      BY <1>1, <2>0, <3>2
    <3> QED
      BY <1>1, <3>2, <3>3
  <2>2. CASE ~(q <= m)
    <3>1. q - m \in 1..n /\ e[q - m] = HYPHEN
      BY <1>1, <1>2, <2>0, <2>2
    <3>2. (q - m) + 1 <= n /\ e[(q - m) + 1] # HYPHEN
      BY <3>1 DEF Clean
    <3>3. q + 1 \in 1..(m + n) /\ (q + 1) - m = (q - m) + 1 /\ ~(q + 1 <= m)
      BY <1>1, <2>0, <2>2, <3>2
    <3> QED
      BY <1>1, <3>2, <3>3
  <2> QED
    BY <2>1, <2>2
<1> QED
  BY <1>2 DEF Clean, w

\* the digits of an escape are literal bytes
LEMMA DigitsAreLiteral ==
  ASSUME NEW n \in 0..15
  PROVE  IsLiteralByte(HexDigit(n)) /\ HexDigit(n) # HYPHEN
  BY DEF HexDigit, IsLiteralByte, IsDigit, HYPHEN

\* what one byte is emitted as
LEMMA CleanByte ==
  ASSUME NEW b \in Byte
  PROVE  Clean(EncodeByte(b))
<1>1. CASE IsLiteralByte(b)
  <2>1. EncodeByte(b) = <<b>> /\ b # HYPHEN
    BY <1>1 DEF EncodeByte, IsLiteralByte, IsDigit, HYPHEN
  <2> QED
    BY <2>1 DEF Clean
<1>2. CASE ~IsLiteralByte(b)
  <2> DEFINE h == HexDigit(b \div 16)
             l == HexDigit(b % 16)
  <2>1. h # HYPHEN /\ l # HYPHEN
    BY TwoDigits, DigitsAreLiteral
  <2>2. EncodeByte(b) = <<HYPHEN, h, l>>
    BY <1>2 DEF EncodeByte
  <2> HIDE DEF h, l
  <2>3. ASSUME NEW q \in 1..3, <<HYPHEN, h, l>>[q] = HYPHEN PROVE q = 1
    <3>1. CASE q = 2
      BY <2>1, <2>3, <3>1
    <3>2. CASE q = 3
      BY <2>1, <2>3, <3>2
    <3> QED
      BY <3>1, <3>2
  <2> QED
    BY <2>1, <2>2, <2>3 DEF Clean
<1> QED
  BY <1>1, <1>2

\* the bytes of a representation
Spelled(e) == \A p \in 1..Len(e) : IsLiteralByte(e[p]) \/ e[p] = HYPHEN

\* what one byte is emitted as is spelled in the label alphabet
LEMMA SpelledByte ==
  ASSUME NEW b \in Byte
  PROVE  Spelled(EncodeByte(b))
<1>1. CASE IsLiteralByte(b)
  BY <1>1 DEF EncodeByte, Spelled
<1>2. CASE ~IsLiteralByte(b)
  <2> DEFINE h == HexDigit(b \div 16)
             l == HexDigit(b % 16)
  <2>1. IsLiteralByte(h) /\ IsLiteralByte(l)
    BY TwoDigits, DigitsAreLiteral
  <2>2. EncodeByte(b) = <<HYPHEN, h, l>>
    BY <1>2 DEF EncodeByte
  <2> HIDE DEF h, l
  <2> QED
    BY <2>1, <2>2 DEF Spelled
<1> QED
  BY <1>1, <1>2

\* and so are two texts after one another
LEMMA SpelledConcat ==
  ASSUME NEW d \in Seq(Byte), NEW e \in Seq(Byte), Spelled(d), Spelled(e)
  PROVE  Spelled(d \o e)
<1> DEFINE m == Len(d)
           n == Len(e)
           w == d \o e
<1>1. /\ m \in Nat /\ n \in Nat /\ Len(w) = m + n
      /\ \A p \in 1..(m + n) : w[p] = IF p <= m THEN d[p] ELSE e[p - m]
  BY ConcatProperties
<1> HIDE DEF w
<1>2. ASSUME NEW p \in 1..Len(w) PROVE IsLiteralByte(w[p]) \/ w[p] = HYPHEN
  <2>0. p \in 1..(m + n)
    BY <1>1
  <2>1. CASE p <= m
    <3>1. p \in 1..m /\ w[p] = d[p]
      BY <1>1, <2>0, <2>1
    <3> QED
      BY <3>1 DEF Spelled
  <2>2. CASE ~(p <= m)
    <3>1. p - m \in 1..n /\ w[p] = e[p - m]
      BY <1>1, <2>0, <2>2
    <3> QED
      BY <3>1 DEF Spelled
  <2> QED
    BY <2>1, <2>2
<1> QED
  BY <1>2 DEF Spelled, w

\* An encoded component is clean, made of letters, digits and hyphens, and at
\* most three times as long as the component.
LEMMA EncodedShape ==
  ASSUME NEW s \in Seq(Byte)
  PROVE  /\ Clean(EncodeComponent(s)) /\ Spelled(EncodeComponent(s))
         /\ Len(EncodeComponent(s)) <= 3 * Len(s)
         /\ Len(s) > 0 => Len(EncodeComponent(s)) > 0
<1> DEFINE Good(x) == /\ Clean(EncodeComponent(x)) /\ Spelled(EncodeComponent(x))
                      /\ Len(EncodeComponent(x)) <= 3 * Len(x)
                      /\ Len(x) > 0 => Len(EncodeComponent(x)) > 0
           S == {x \in Seq(Byte) : Good(x)}
<1>1. <<>> \in S
  <2>1. Len(<<>>) = 0 /\ <<>> \in Seq(Byte)
    OBVIOUS
  <2>2. Clean(<<>>) /\ Spelled(<<>>)
    BY <2>1 DEF Clean, Spelled
  <2> QED
    BY <2>1, <2>2, EncodeEmpty
<1>2. ASSUME NEW x \in Seq(Byte), NEW b \in Byte, Good(x)
      PROVE  Good(<<b>> \o x)
  <2> DEFINE c == Canonical(b)
             e == <<b>>
             d == EncodeByte(c)
             v == EncodeComponent(x)
  <2>1. c \in Byte /\ e \in Seq(Byte) /\ v \in Seq(Byte)
    BY CanonicalByte, EncodeType
  <2>2. d \in Seq(Byte) /\ (Len(d) = 1 \/ Len(d) = 3) /\ Clean(d) /\ Spelled(d)
    <3> HIDE DEF c
    <3> QED
      BY <2>1, EncodeByteType, CleanByte, SpelledByte
  <2>3. EncodeComponent(e) = d
    BY EncodeSingle
  <2>4. Clean(v) /\ Spelled(v) /\ Len(v) <= 3 * Len(x) /\ Len(e) = 1
    BY <1>2
  <2> HIDE DEF e, d, v
  <2>5. EncodeComponent(e \o x) = d \o v
    BY <2>1, <2>3, EncodeConcat DEF v
  <2>6. Clean(d \o v) /\ Spelled(d \o v)
    BY <2>1, <2>2, <2>4, CleanConcat, SpelledConcat
  <2>7. Len(e \o x) = 1 + Len(x) /\ Len(d \o v) = Len(d) + Len(v) /\ Len(x) \in Nat /\ Len(v) \in Nat
    <3>1. e \in Seq(Byte) /\ d \in Seq(Byte) /\ v \in Seq(Byte) /\ x \in Seq(Byte)
      BY <2>1, <2>2
    <3>2. Len(e \o x) = Len(e) + Len(x) /\ Len(d \o v) = Len(d) + Len(v)
      BY <3>1, ConcatProperties
    <3>3. Len(x) \in Nat /\ Len(v) \in Nat
      BY <3>1
    <3> QED
      BY <2>4, <3>2, <3>3
  <2>8. Len(d \o v) <= 3 * Len(e \o x) /\ Len(d \o v) > 0
    <3> DEFINE i == Len(x)
               j == Len(v)
               k == Len(d)
    <3>1. i \in Nat /\ j \in Nat /\ (k = 1 \/ k = 3) /\ j <= 3 * i
      BY <2>2, <2>4, <2>7
    <3> HIDE DEF i, j, k
    <3>2. k + j <= 3 * (1 + i) /\ k + j > 0
      BY <3>1
    <3> QED
      BY <2>7, <3>2 DEF i, j, k
  <2> QED
    BY <2>5, <2>6, <2>8 DEF e
<1>3. \A x \in Seq(Byte) : \A b \in Byte : x \in S => <<b>> \o x \in S
  <2> SUFFICES ASSUME NEW x \in Seq(Byte), NEW b \in Byte, x \in S
               PROVE  <<b>> \o x \in S
    OBVIOUS
  <2>1. <<b>> \o x \in Seq(Byte)
    OBVIOUS
  <2>2. Good(x)
    OBVIOUS
  <2> HIDE DEF Good
  <2> QED
    BY <1>2, <2>1, <2>2
<1>4. Seq(Byte) \subseteq S
  <2> HIDE DEF S
  <2> QED
    BY <1>1, <1>3, ConsInduction
<1> QED
  BY <1>4

-----------------------------------------------------------------------------
\* an encoded component holds no separator
LEMMA CleanWhole ==
  ASSUME NEW e \in Seq(Byte), Clean(e)
  PROVE  Whole(e) /\ Leads(e)
<1> DEFINE n == Len(e)
           y == e \o <<HYPHEN>>
<1>1. n \in Nat
  OBVIOUS
<1>2. Whole(e)
  BY <1>1 DEF Whole, Clean, IsSeparator
<1>3. Len(y) = n + 1 /\ \A p \in 1..n : y[p] = e[p]
  BY HyphenType
<1> HIDE DEF y
<1>4. ASSUME NEW q \in 1..(Len(y) - 1), IsSeparator(y, q) PROVE FALSE
  <2>1. q \in 1..n /\ e[q] = HYPHEN
    BY <1>1, <1>3, <1>4 DEF IsSeparator
  <2>2. q + 1 <= n /\ e[q + 1] # HYPHEN
    BY <2>1 DEF Clean
  <2>3. y[q + 1] = e[q + 1]
    BY <1>1, <1>3, <2>1, <2>2
  <2> QED
    BY <1>4, <2>2, <2>3 DEF IsSeparator
<1> QED
  BY <1>2, <1>4 DEF Leads, Whole, y

\* def_decode_body finds the components where def_encode_body put them: no
\* escape, and no two escapes side by side, spell a separator.
LEMMA SplitBody ==
  ASSUME NEW s \in Seq(Byte)
  PROVE  Split(EncodeBody(s)) = Mapped(Encoder, Split(s))
<1> DEFINE S == {x \in Seq(Byte) : Split(EncodeBody(x)) = Mapped(Encoder, Split(x))}
<1>1. \A x \in Seq(Byte) : Whole(x) => x \in S
  <2> TAKE x \in Seq(Byte)
  <2> HAVE Whole(x)
  <2> DEFINE e == EncodeComponent(x)
  <2>1. e \in Seq(Byte) /\ Clean(e) /\ Encoder[x] = e
    BY EncodeType, EncodedShape DEF Encoder
  <2>2. EncodeBody(x) = e /\ Split(x) = <<x>>
    BY BodyWhole, SplitWhole
  <2> HIDE DEF e
  <2>3. Split(e) = <<e>>
    BY <2>1, CleanWhole, SplitWhole
  <2> QED
    BY <2>1, <2>2, <2>3, MappedSingle
<1>2. \A u, v \in Seq(Byte) : Leads(u) /\ v \in S => (u \o Separator) \o v \in S
  <2> TAKE u, v \in Seq(Byte)
  <2> HAVE Leads(u) /\ v \in S
  <2> DEFINE w == (u \o Separator) \o v
             c == Split(v)
             a == EncodeComponent(u)
             b == EncodeBody(v)
  <2>1. w \in Seq(Byte) /\ c \in Seq(Seq(Byte))
    BY AroundSeparator, SplitType, ComponentsType
  <2>2. Split(w) = <<u>> \o c
    BY SplitFirst
  <2>3. Split(b) = Mapped(Encoder, c)
    OBVIOUS
  <2>4. EncodeBody(w) = (a \o Separator) \o b
    BY BodyFirst
  <2>5. a \in Seq(Byte) /\ b \in Seq(Byte) /\ Clean(a) /\ Encoder[u] = a
    BY EncodeType, BodyType, EncodedShape DEF Encoder
  <2> HIDE DEF a, b, c, w
  <2>6. Split((a \o Separator) \o b) = <<a>> \o Split(b)
    BY <2>5, CleanWhole, SplitFirst
  <2>7. Mapped(Encoder, <<u>> \o c) = <<Encoder[u]>> \o Mapped(Encoder, c)
    BY <2>1, CoderTypes, MappedFirst
  <2>8. Split(EncodeBody(w)) = Mapped(Encoder, Split(w))
    BY <2>2, <2>3, <2>4, <2>5, <2>6, <2>7
  <2> QED
    BY <2>1, <2>8 DEF w
<1>3. Seq(Byte) \subseteq S
  <2> HIDE DEF S
  <2> QED
    BY <1>1, <1>2, SplitInduction
<1> QED
  BY <1>3

ValidTexts == {u \in Seq(Byte) : Utf8Validate(u)}

\* A text is UTF-8 exactly if each of its components is: a separator never cuts
\* a character in two.
LEMMA ValidAround ==
  ASSUME NEW u \in Seq(Byte), NEW v \in Seq(Byte)
  PROVE  Utf8Validate((u \o Separator) \o v) = (Utf8Validate(u) /\ Utf8Validate(v))
<1> DEFINE h == <<HYPHEN>>
           y == h \o v
           z == h \o y
<1>1. h \in Seq(Byte) /\ HYPHEN \in Byte /\ HYPHEN <= 127 /\ Separator \in Seq(Byte)
  BY HyphenType, SeparatorType DEF HYPHEN
<1>2. y \in Seq(Byte) /\ Utf8Validate(y) = Utf8Validate(v)
  <2>1. <<HYPHEN>> \o v \in Seq(Byte)
    BY <1>1
  <2> QED
    BY <1>1, <2>1, ValidAscii
<1>3. Separator = h \o h
  BY DEF Separator
<1>4. (h \o h) \o v = h \o (h \o v)
  <2> HIDE DEF h
  <2> QED
    BY <1>1, Associative
<1> HIDE DEF y
<1>5. z \in Seq(Byte) /\ Utf8Validate(z) = Utf8Validate(y) /\ z[1] = HYPHEN
  <2>1. <<HYPHEN>> \o y \in Seq(Byte) /\ (<<HYPHEN>> \o y)[1] = HYPHEN
    BY <1>1, <1>2
  <2> QED
    BY <1>1, <1>2, <2>1, ValidAscii
<1>6. Separator \o v = z
  BY <1>3, <1>4 DEF y
<1> HIDE DEF z
<1>7. (u \o Separator) \o v = u \o (Separator \o v)
  <2> DEFINE g == Separator
  <2>1. g \in Seq(Byte)
    BY <1>1
  <2> HIDE DEF g
  <2>2. (u \o g) \o v = u \o (g \o v)
    BY <2>1, Associative
  <2> QED
    BY <2>2 DEF g
<1>8. Utf8Validate(u \o z) = (Utf8Validate(u) /\ Utf8Validate(z))
  <2>1. z \in Seq(Byte) /\ z[1] <= 127
    BY <1>1, <1>5
  <2> QED
    BY <2>1, ValidCut
<1> QED
  BY <1>2, <1>5, <1>6, <1>7, <1>8

\* The components of a well-formed text are well-formed: '-' is never inside a character.
LEMMA ValidComponents ==
  ASSUME NEW s \in ValidTexts
  PROVE  Split(s) \in Seq(ValidTexts)
<1> DEFINE S == {x \in Seq(Byte) : Utf8Validate(x) => Split(x) \in Seq(ValidTexts)}
<1>1. \A x \in Seq(Byte) : Whole(x) => x \in S
  <2> TAKE x \in Seq(Byte)
  <2> HAVE Whole(x)
  <2>1. Split(x) = <<x>>
    BY SplitWhole
  <2>2. Utf8Validate(x) => x \in ValidTexts
    BY DEF ValidTexts
  <2>3. x \in ValidTexts => <<x>> \in Seq(ValidTexts)
    OBVIOUS
  <2> QED
    BY <2>1, <2>2, <2>3
<1>2. \A u, v \in Seq(Byte) : Leads(u) /\ v \in S => (u \o Separator) \o v \in S
  <2> TAKE u, v \in Seq(Byte)
  <2> HAVE Leads(u) /\ v \in S
  <2> DEFINE w == (u \o Separator) \o v
             c == Split(v)
  <2>1. w \in Seq(Byte)
    BY AroundSeparator
  <2>2. Split(w) = <<u>> \o c
    BY SplitFirst
  <2>3. Utf8Validate(w) = (Utf8Validate(u) /\ Utf8Validate(v))
    BY ValidAround
  <2>4. Utf8Validate(v) => c \in Seq(ValidTexts)
    OBVIOUS
  <2>5. Utf8Validate(u) => u \in ValidTexts
    BY DEF ValidTexts
  <2> HIDE DEF w, c
  <2>6. ASSUME u \in ValidTexts, c \in Seq(ValidTexts) PROVE <<u>> \o c \in Seq(ValidTexts)
    <3> DEFINE T == ValidTexts
    <3>1. u \in T /\ c \in Seq(T)
      BY <2>6
    <3> HIDE DEF T
    <3>2. <<u>> \o c \in Seq(T)
      BY <3>1
    <3> QED
      BY <3>2 DEF T
  <2>7. Utf8Validate(w) => Split(w) \in Seq(ValidTexts)
    BY <2>2, <2>3, <2>4, <2>5, <2>6
  <2> QED
    BY <2>1, <2>7 DEF w
<1>3. Seq(Byte) \subseteq S
  <2> HIDE DEF S
  <2> QED
    BY <1>1, <1>2, SplitInduction
<1> QED
  BY <1>3 DEF ValidTexts

-----------------------------------------------------------------------------
\* def_decode_component undoes def_encode_component up to ASCII case: what was
\* encoded is decoded, to the text in lower case (def.c:283-367).
THEOREM ComponentRoundTrip ==
  \A s \in Seq(Byte) : Utf8Validate(s) =>
    DecodeComponent(EncodeComponent(s)) = Success(Lowercase(s))
<1> SUFFICES ASSUME NEW s \in Seq(Byte), Utf8Validate(s)
             PROVE  DecodeComponent(EncodeComponent(s)) = Success(Lowercase(s))
  OBVIOUS
<1> DEFINE e == EncodeComponent(s)
           l == Lowercase(s)
<1>1. Decoding(e)[1] = {l}
  BY DecodesEncoded DEF DecodeTexts
<1>2. Utf8Validate(l)
  BY ValidLowercase
<1> HIDE DEF e, l
<1>3. (CHOOSE t \in {l} : TRUE) = l
  OBVIOUS
<1> QED
  BY <1>1, <1>2, <1>3, DecodeDef DEF e, l

\* What is put together from components that all decode.
LEMMA AllDecoded ==
  ASSUME NEW c \in Seq(ValidTexts), c # <<>>
  PROVE  LET d == Mapped(Encoder, c)
         IN  FirstErrorOrJoin([j \in DOMAIN d |-> DecodeComponent(d[j])]) =
               Success(Join(Mapped(Folder, c)))
<1> DEFINE d == Mapped(Encoder, c)
           f == Mapped(Folder, c)
           r == [j \in DOMAIN d |-> DecodeComponent(d[j])]
<1>1. \A j \in DOMAIN c : c[j] \in Seq(Byte) /\ Utf8Validate(c[j])
  <2> TAKE j \in DOMAIN c
  <2>1. c[j] \in ValidTexts
    OBVIOUS
  <2> QED
    BY <2>1 DEF ValidTexts
<1>2. DOMAIN d = DOMAIN c /\ \A j \in DOMAIN c : d[j] = EncodeComponent(c[j])
  BY <1>1 DEF Mapped, Encoder
<1>3. DOMAIN f = DOMAIN c /\ \A j \in DOMAIN c : f[j] = Lowercase(c[j])
  BY <1>1 DEF Mapped, Folder
<1>4. f = [j \in DOMAIN c |-> f[j]]
  BY DEF Mapped
<1> HIDE DEF d, f
<1>5. \A j \in DOMAIN c : r[j] = Success(f[j])
  <2> TAKE j \in DOMAIN c
  <2>1. r[j] = DecodeComponent(EncodeComponent(c[j]))
    BY <1>2
  <2> DEFINE x == c[j]
  <2>2. x \in Seq(Byte) /\ Utf8Validate(x)
    BY <1>1
  <2> HIDE DEF x, r
  <2>3. DecodeComponent(EncodeComponent(x)) = Success(Lowercase(x))
    BY <2>2, ComponentRoundTrip
  <2> QED
    BY <1>3, <2>1, <2>3 DEF x
<1>6. DOMAIN r = DOMAIN c
  BY <1>2
<1> HIDE DEF r
<1>7. \A j \in DOMAIN r : r[j].status = "OK" /\ r[j].text = f[j]
  BY <1>5, <1>6 DEF Success
<1>8. [j \in DOMAIN r |-> r[j].text] = f
  BY <1>4, <1>6, <1>7
<1>9. {j \in DOMAIN r : r[j].status # "OK"} = {}
  BY <1>7
<1>10. FirstErrorOrJoin(r) = Success(Join([j \in DOMAIN r |-> r[j].text]))
  BY <1>9 DEF FirstErrorOrJoin
<1> QED
  BY <1>8, <1>10 DEF d, f, r

\* def_decode_body undoes def_encode_body up to ASCII case: the separators that
\* are found in the encoded body are those of the text, wherever they are, and
\* every component between them is decoded (def.c:463-559).
THEOREM BodyRoundTrip ==
  \A s \in Seq(Byte) : Utf8Validate(s) =>
    DecodeBody(EncodeBody(s)) = Success(Lowercase(s))
<1> SUFFICES ASSUME NEW s \in Seq(Byte), Utf8Validate(s)
             PROVE  DecodeBody(EncodeBody(s)) = Success(Lowercase(s))
  OBVIOUS
<1> DEFINE c == Split(s)
           d == Mapped(Encoder, c)
<1>1. Split(EncodeBody(s)) = d
  BY SplitBody
<1>2. c \in Seq(ValidTexts) /\ c # <<>>
  BY ValidComponents, SplitType DEF ValidTexts, Components, Parts
<1>3. Join(Mapped(Folder, c)) = Lowercase(s)
  BY FoldSplit, LowercaseType, JoinSplit
<1>4. DecodeBody(EncodeBody(s)) = FirstErrorOrJoin([j \in DOMAIN d |-> DecodeComponent(d[j])])
  BY <1>1 DEF DecodeBody
<1> HIDE DEF c
<1>5. FirstErrorOrJoin([j \in DOMAIN d |-> DecodeComponent(d[j])]) = Success(Join(Mapped(Folder, c)))
  BY <1>2, AllDecoded
<1> QED
  BY <1>3, <1>4, <1>5

-----------------------------------------------------------------------------
\* A folded component is encoded as the component itself.
LEMMA FoldTwice ==
  ASSUME NEW s \in Seq(Byte)
  PROVE  EncodeComponent(Lowercase(s)) = EncodeComponent(s)
<1> DEFINE t == Lowercase(s)
<1>1. t \in Seq(Byte) /\ Len(t) = Len(s) /\ \A j \in 1..Len(s) : t[j] = Canonical(s[j])
  BY LowercaseType
<1> HIDE DEF t
<1>2. DOMAIN t = 1..Len(s) /\ DOMAIN s = 1..Len(s)
  BY <1>1
<1>3. \A j \in 1..Len(s) : Canonical(t[j]) = Canonical(s[j])
  BY <1>1, FoldingIsIdempotent
<1>4. Coded(t) = Coded(s)
  BY <1>2, <1>3 DEF Coded
<1> QED
  BY <1>4, EncodeIsFlatten DEF t

\* Texts that differ in ASCII case only have the same representation, as one
\* component and as a body (def.c:297-301, 463-508).
THEOREM SameRepresentation ==
  \A s \in Seq(Byte) : /\ EncodeComponent(Lowercase(s)) = EncodeComponent(s)
                       /\ EncodeBody(Lowercase(s)) = EncodeBody(s)
<1> SUFFICES ASSUME NEW s \in Seq(Byte)
             PROVE  EncodeBody(Lowercase(s)) = EncodeBody(s)
  BY FoldTwice
<1> DEFINE c == Split(s)
           t == Lowercase(s)
<1>1. c \in Seq(Seq(Byte)) /\ t \in Seq(Byte)
  BY SplitType, ComponentsType, LowercaseType
<1>2. Split(t) = Mapped(Folder, c)
  BY FoldSplit
<1> HIDE DEF c, t
<1>3. Mapped(Encoder, Mapped(Folder, c)) = Mapped(Encoder, c)
  <2>1. DOMAIN Mapped(Folder, c) = DOMAIN c
    BY DEF Mapped
  <2>2. \A j \in DOMAIN c : Encoder[Mapped(Folder, c)[j]] = Encoder[c[j]]
    <3> TAKE j \in DOMAIN c
    <3> DEFINE u == c[j]
    <3>1. u \in Seq(Byte)
      BY <1>1
    <3>2. Mapped(Folder, c)[j] = Folder[u]
      BY DEF Mapped
    <3> HIDE DEF u
    <3>3. Folder[u] = Lowercase(u) /\ Lowercase(u) \in Seq(Byte)
      BY <3>1, LowercaseType DEF Folder
    <3>4. Encoder[Lowercase(u)] = Encoder[u]
      BY <3>1, <3>3, FoldTwice DEF Encoder
    <3> QED
      BY <3>2, <3>3, <3>4 DEF u
  <2> DEFINE p == Mapped(Folder, c)
  <2>3. DOMAIN p = DOMAIN c /\ \A j \in DOMAIN c : Encoder[p[j]] = Encoder[c[j]]
    BY <2>1, <2>2
  <2> HIDE DEF p
  <2>4. Mapped(Encoder, p) = Mapped(Encoder, c)
    BY <2>3 DEF Mapped
  <2> QED
    BY <2>4 DEF p
<1>4. EncodeBody(t) = Join(Mapped(Encoder, Mapped(Folder, c)))
  BY <1>1, <1>2, BodyDef
<1>5. EncodeBody(s) = Join(Mapped(Encoder, c))
  BY BodyDef DEF c
<1> QED
  BY <1>3, <1>4, <1>5 DEF t

\* A body is spelled in lower case letters, digits and hyphens, and is at most
\* three times as long as the text: def_encode_body never needs more than the
\* capacity def_encode_profile computes (def.c:390-396).
THEOREM BodyShape ==
  \A s \in Seq(Byte) : Spelled(EncodeBody(s)) /\ Len(EncodeBody(s)) <= 3 * Len(s)
<1> DEFINE Good(x) == Spelled(EncodeBody(x)) /\ Len(EncodeBody(x)) <= 3 * Len(x)
           S == {x \in Seq(Byte) : Good(x)}
<1>1. \A x \in Seq(Byte) : Whole(x) => x \in S
  BY BodyWhole, EncodedShape
<1>2. \A u, v \in Seq(Byte) : Leads(u) /\ v \in S => (u \o Separator) \o v \in S
  <2> TAKE u, v \in Seq(Byte)
  <2> HAVE Leads(u) /\ v \in S
  <2> DEFINE w == (u \o Separator) \o v
             a == EncodeComponent(u)
             b == EncodeBody(v)
             x == a \o Separator
  <2>1. w \in Seq(Byte) /\ Len(w) = (Len(u) + 2) + Len(v)
    BY AroundSeparator
  <2>2. EncodeBody(w) = x \o b
    BY BodyFirst
  <2>3. /\ a \in Seq(Byte) /\ b \in Seq(Byte) /\ Spelled(a) /\ Spelled(b)
        /\ Len(a) <= 3 * Len(u) /\ Len(b) <= 3 * Len(v)
    BY EncodeType, BodyType, EncodedShape
  <2> HIDE DEF a, b, w
  <2>4. x \in Seq(Byte) /\ Len(x \o b) = (Len(a) + 2) + Len(b)
    BY <2>3, AroundSeparator
  <2>5. Spelled(x \o b)
    <3>1. Separator \in Seq(Byte) /\ Spelled(Separator)
      BY SeparatorType DEF Spelled, Separator
    <3>2. Spelled(x)
      BY <2>3, <3>1, SpelledConcat
    <3> HIDE DEF x
    <3> QED
      BY <2>3, <2>4, <3>2, SpelledConcat
  <2>6. Len(x \o b) <= 3 * Len(w)
    <3> DEFINE i == Len(u)
               j == Len(v)
               k == Len(a)
               l == Len(b)
    <3>1. i \in Nat /\ j \in Nat /\ k \in Nat /\ l \in Nat /\ k <= 3 * i /\ l <= 3 * j
      BY <2>3
    <3> HIDE DEF i, j, k, l
    <3>2. (k + 2) + l <= 3 * ((i + 2) + j)
      BY <3>1
    <3> QED
      BY <2>1, <2>4, <3>2 DEF i, j, k, l
  <2> HIDE DEF x
  <2> QED
    BY <2>1, <2>2, <2>5, <2>6 DEF w
<1>3. Seq(Byte) \subseteq S
  <2> HIDE DEF S
  <2> QED
    BY <1>1, <1>2, SplitInduction
<1> QED
  BY <1>3

-----------------------------------------------------------------------------
\* what a decoder may return
Outcomes == {Success(t) : t \in Seq(Byte)}
              \cup {Failure("INVALID_ESCAPE"), Failure("INVALID_UTF8")}

\* A component decodes to a text, or is refused with one of the two errors.
LEMMA ComponentOutcomes ==
  ASSUME NEW c \in Seq(Byte)
  PROVE  DecodeComponent(c) \in Outcomes
<1> DEFINE texts == Decoding(c)[1]
<1>1. texts \in SUBSET Seq(Byte)
  <2>1. 1 \in 1..(Len(c) + 1)
    OBVIOUS
  <2> QED
    BY <2>1, DecodingDef
<1> HIDE DEF texts
<1>2. CASE texts = {}
  BY <1>2, DecodeDef DEF Outcomes, texts
<1>3. CASE texts # {} /\ \E t \in texts : ~Utf8Validate(t)
  BY <1>3, DecodeDef DEF Outcomes, texts
<1>4. CASE texts # {} /\ ~(\E t \in texts : ~Utf8Validate(t))
  <2> DEFINE t == CHOOSE t \in texts : TRUE
  <2>1. t \in Seq(Byte)
    BY <1>1, <1>4
  <2>2. DecodeComponent(c) = Success(t)
    BY <1>4, DecodeDef DEF texts
  <2> HIDE DEF t
  <2> QED
    BY <2>1, <2>2 DEF Outcomes
<1> QED
  BY <1>2, <1>3, <1>4

\* An error comes with no text.
LEMMA OutcomeFacts ==
  ASSUME NEW r \in Outcomes
  PROVE  /\ r.status \in {"OK", "INVALID_ESCAPE", "INVALID_UTF8"}
         /\ r.text \in Seq(Byte)
         /\ r.status # "OK" => r.text = <<>>
<1>1. CASE \E t \in Seq(Byte) : r = Success(t)
  BY <1>1 DEF Success
<1>2. CASE r \in {Failure("INVALID_ESCAPE"), Failure("INVALID_UTF8")}
  <2>1. <<>> \in Seq(Byte)
    OBVIOUS
  <2>2. PICK e \in {"INVALID_ESCAPE", "INVALID_UTF8"} : r = Failure(e)
    BY <1>2
  <2>3. r.status = e /\ r.text = <<>>
    BY <2>2 DEF Failure
  <2> QED
    BY <2>1, <2>2, <2>3
<1>3. \/ r \in {Success(t) : t \in Seq(Byte)}
      \/ r \in {Failure("INVALID_ESCAPE"), Failure("INVALID_UTF8")}
  BY DEF Outcomes
<1>4. (r \in {Success(t) : t \in Seq(Byte)}) => (\E t \in Seq(Byte) : r = Success(t))
  OBVIOUS
<1> QED
  BY <1>1, <1>2, <1>3, <1>4

\* So does a body.
LEMMA BodyOutcomes ==
  ASSUME NEW s \in Seq(Byte)
  PROVE  DecodeBody(s) \in Outcomes
<1> DEFINE c == Split(s)
           r == [j \in DOMAIN c |-> DecodeComponent(c[j])]
           failed == {j \in DOMAIN r : r[j].status # "OK"}
           texts == [j \in DOMAIN r |-> r[j].text]
<1>1. c \in Seq(Seq(Byte))
  BY SplitType, ComponentsType
<1>2. DecodeBody(s) = FirstErrorOrJoin(r)
  BY DEF DecodeBody
<1> HIDE DEF c
<1>3. DOMAIN c = 1..Len(c) /\ Len(c) \in Nat
  BY <1>1
<1>4. \A j \in 1..Len(c) : r[j] \in Outcomes
  <2> TAKE j \in 1..Len(c)
  <2>1. c[j] \in Seq(Byte)
    BY <1>1
  <2> QED
    BY <1>3, <2>1, ComponentOutcomes
<1>5. DOMAIN r = 1..Len(c)
  BY <1>3
<1> HIDE DEF r
<1>6. CASE failed # {}
  <2>1. failed \in SUBSET Nat /\ failed \subseteq 1..Len(c)
    BY <1>3, <1>5
  <2>2. Min(failed) \in 1..Len(c)
    <3> HIDE DEF failed
    <3>1. Min(failed) \in failed
      BY <1>6, <2>1, MinIn
    <3> QED
      BY <2>1, <3>1
  <2>3. FirstErrorOrJoin(r) = r[Min(failed)]
    BY <1>6 DEF FirstErrorOrJoin
  <2> QED
    BY <1>2, <1>4, <2>2, <2>3
<1>7. CASE failed = {}
  <2>1. FirstErrorOrJoin(r) = Success(Join(texts))
    BY <1>7 DEF FirstErrorOrJoin
  <2>2. texts \in Seq(Seq(Byte))
    <3>1. \A j \in 1..Len(c) : r[j].text \in Seq(Byte)
      BY <1>4, OutcomeFacts
    <3> QED
      BY <1>3, <1>5, <3>1
  <2> HIDE DEF texts
  <2>3. Join(texts) \in Seq(Byte)
    BY <2>2, JoinType
  <2> QED
    BY <1>2, <2>1, <2>3 DEF Outcomes
<1> QED
  BY <1>6, <1>7

-----------------------------------------------------------------------------
\* How an outcome is put together, component by component.
\* r behind a text that is there already: an error stays what it is
Behind(t, r) == IF r.status = "OK" THEN Success(t \o r.text) ELSE r

\* an outcome that is "OK" is its text
LEMMA OutcomeIsText ==
  ASSUME NEW r \in Outcomes, r.status = "OK"
  PROVE  r = Success(r.text)
<1>1. r # Failure("INVALID_ESCAPE") /\ r # Failure("INVALID_UTF8")
  BY DEF Failure
<1>2. PICK t \in Seq(Byte) : r = Success(t)
  BY <1>1 DEF Outcomes
<1>3. r.text = t
  BY <1>2 DEF Success
<1> QED
  BY <1>2, <1>3

\* The outcome of a single component is the component's.
LEMMA OutcomeSingle ==
  ASSUME NEW r \in Outcomes
  PROVE  FirstErrorOrJoin(<<r>>) = r
<1> DEFINE failed == {j \in DOMAIN <<r>> : <<r>>[j].status # "OK"}
           texts == [j \in DOMAIN <<r>> |-> <<r>>[j].text]
<1>1. CASE r.status = "OK"
  <2>1. failed = {}
    BY <1>1
  <2>2. FirstErrorOrJoin(<<r>>) = Success(Join(texts))
    BY <2>1 DEF FirstErrorOrJoin
  <2>3. texts = <<r.text>>
    OBVIOUS
  <2>4. r.text \in Seq(Byte)
    BY OutcomeFacts
  <2> HIDE DEF texts
  <2>5. Join(texts) = r.text
    BY <2>3, <2>4, JoinSingle
  <2> QED
    BY <1>1, <2>2, <2>5, OutcomeIsText
<1>2. CASE r.status # "OK"
  <2>1. failed = {1}
    BY <1>2
  <2>2. FirstErrorOrJoin(<<r>>) = <<r>>[Min(failed)]
    BY <2>1 DEF FirstErrorOrJoin
  <2> HIDE DEF failed
  <2>3. Min(failed) = 1
    BY <2>1, MinOf
  <2> QED
    BY <2>2, <2>3
<1> QED
  BY <1>1, <1>2

\* The outcome of a first component and others: its error, or its text, the
\* separator, and what the others give.
LEMMA OutcomeFirst ==
  ASSUME NEW r \in Outcomes, NEW rest \in Seq(Outcomes), rest # <<>>
  PROVE  FirstErrorOrJoin(<<r>> \o rest) =
           IF r.status = "OK" THEN Behind(r.text \o Separator, FirstErrorOrJoin(rest)) ELSE r
<1> DEFINE all == <<r>> \o rest
           n == Len(rest)
           failed == {j \in DOMAIN all : all[j].status # "OK"}
           later == {j \in DOMAIN rest : rest[j].status # "OK"}
           texts == [j \in DOMAIN all |-> all[j].text]
           others == [j \in DOMAIN rest |-> rest[j].text]
<1>1. n \in Nat /\ n > 0 /\ DOMAIN rest = 1..n
  OBVIOUS
<1>2. /\ all \in Seq(Outcomes) /\ DOMAIN all = 1..(n + 1) /\ all[1] = r
      /\ \A j \in 1..n : all[j + 1] = rest[j]
  <2>1. <<r>> \in Seq(Outcomes) /\ Len(<<r>>) = 1
    OBVIOUS
  <2>2. all \in Seq(Outcomes) /\ Len(all) = n + 1
    BY <2>1
  <2>3. \A j \in 1..n : all[j + 1] = rest[j]
    BY <1>1, <2>1
  <2> QED
    BY <2>2, <2>3
<1>3. FirstErrorOrJoin(all) = IF failed # {} THEN all[Min(failed)] ELSE Success(Join(texts))
  BY DEF FirstErrorOrJoin
<1>4. FirstErrorOrJoin(rest) = IF later # {} THEN rest[Min(later)] ELSE Success(Join(others))
  BY DEF FirstErrorOrJoin
<1> HIDE DEF all, n
<1>5. failed \subseteq Nat /\ later \subseteq Nat
  BY <1>1, <1>2
<1>6. CASE r.status # "OK"
  <2>1. 1 \in failed /\ \A m \in failed : 1 <= m
    BY <1>1, <1>2, <1>6
  <2> HIDE DEF failed
  <2>2. Min(failed) = 1
    BY <1>5, <2>1, MinOf
  <2> QED
    BY <1>2, <1>3, <1>6, <2>1, <2>2 DEF all
<1>7. CASE r.status = "OK" /\ later # {}
  <2>1. Min(later) \in later /\ \A m \in later : Min(later) <= m
    <3> HIDE DEF later
    <3> QED
      BY <1>5, <1>7, MinIn
  <2> DEFINE q == Min(later)
  <2> HIDE DEF q
  <2>2. q \in 1..n /\ rest[q].status # "OK" /\ \A m \in later : q <= m
    BY <1>1, <2>1 DEF q
  <2>3. q + 1 \in failed
    BY <1>1, <1>2, <2>2
  <2>4. \A m \in failed : q + 1 <= m
    <3> TAKE m \in failed
    <3>1. m # 1 /\ m \in 1..(n + 1)
      BY <1>2, <1>7
    <3>2. m - 1 \in 1..n /\ (m - 1) + 1 = m
      BY <1>1, <3>1
    <3>3. m - 1 \in later
      BY <1>1, <1>2, <3>2
    <3> QED
      BY <1>1, <2>2, <3>1, <3>3
  <2>5. failed # {}
    BY <2>3
  <2> HIDE DEF failed, later
  <2>6. Min(failed) = q + 1
    BY <1>5, <2>3, <2>4, MinOf
  <2>7. FirstErrorOrJoin(all) = rest[q]
    BY <1>2, <1>3, <2>2, <2>5, <2>6
  <2>8. FirstErrorOrJoin(rest) = rest[q]
    BY <1>4, <1>7 DEF q
  <2> QED
    BY <1>7, <2>2, <2>7, <2>8 DEF Behind, all
<1>8. CASE r.status = "OK" /\ later = {}
  <2>1. failed = {}
    <3> SUFFICES ASSUME NEW m \in failed PROVE FALSE
      OBVIOUS
    <3>1. m # 1 /\ m \in 1..(n + 1)
      BY <1>2, <1>8
    <3>2. m - 1 \in 1..n /\ (m - 1) + 1 = m
      BY <1>1, <3>1
    <3>3. m - 1 \in later
      BY <1>1, <1>2, <3>2
    <3> QED
      BY <1>8, <3>3
  <2>2. \A j \in 1..n : rest[j].text \in Seq(Byte)
    BY <1>1, OutcomeFacts
  <2>3. r.text \in Seq(Byte)
    BY OutcomeFacts
  <2>4. others \in Components
    <3>1. others \in Seq(Seq(Byte)) /\ Len(others) = n
      BY <1>1, <2>2
    <3> QED
      BY <1>1, <3>1 DEF Components, Parts
  <2>5. texts = <<r.text>> \o others
    <3> DEFINE x == r.text
               b == <<x>> \o others
    <3>1. Len(others) = n /\ others \in Seq(Seq(Byte))
      BY <1>1, <2>2
    <3>2. \A j \in 1..n : others[j] = rest[j].text
      BY <1>1
    <3>3. DOMAIN texts = 1..(n + 1) /\ texts[1] = x /\ \A j \in 1..n : texts[j + 1] = rest[j].text
      BY <1>1, <1>2
    <3> HIDE DEF others, x
    <3>4. Len(b) = n + 1 /\ b[1] = x /\ \A j \in 1..n : b[j + 1] = others[j]
      BY <1>1, <3>1
    <3>5. DOMAIN b = 1..(n + 1)
      BY <1>1, <3>1
    <3>6. \A m \in 1..(n + 1) : texts[m] = b[m]
      <4> TAKE m \in 1..(n + 1)
      <4>1. m = 1 \/ (m - 1 \in 1..n /\ (m - 1) + 1 = m)
        BY <1>1
      <4> QED
        BY <3>2, <3>3, <3>4, <4>1
    <3>7. texts = [m \in 1..(n + 1) |-> texts[m]] /\ b = [m \in 1..(n + 1) |-> b[m]]
      BY <3>1, <3>3, <3>5
    <3> QED
      BY <3>6, <3>7 DEF x
  <2> HIDE DEF texts, others, failed, later
  <2>6. Join(texts) = (r.text \o Separator) \o Join(others)
    BY <2>3, <2>4, <2>5, JoinFirst
  <2>7. FirstErrorOrJoin(all) = Success(Join(texts))
    BY <1>3, <2>1
  <2>8. FirstErrorOrJoin(rest) = Success(Join(others))
    BY <1>4, <1>8
  <2>9. Behind(r.text \o Separator, Success(Join(others))) = Success((r.text \o Separator) \o Join(others))
    BY DEF Behind, Success
  <2> QED
    BY <1>8, <2>6, <2>7, <2>8, <2>9 DEF all
<1> QED
  BY <1>6, <1>7, <1>8

Decoder == [u \in Seq(Byte) |-> DecodeComponent(u)]

\* Decoding a body is decoding its components.
LEMMA DecodeBodyDef ==
  ASSUME NEW s \in Seq(Byte)
  PROVE  DecodeBody(s) = FirstErrorOrJoin(Mapped(Decoder, Split(s)))
<1> DEFINE c == Split(s)
<1>1. c \in Seq(Seq(Byte))
  BY SplitType, ComponentsType
<1> HIDE DEF c
<1>2. \A j \in DOMAIN c : Decoder[c[j]] = DecodeComponent(c[j])
  BY <1>1 DEF Decoder
<1>3. Mapped(Decoder, c) = [j \in DOMAIN c |-> DecodeComponent(c[j])]
  BY <1>2 DEF Mapped
<1> QED
  BY <1>3 DEF DecodeBody, c

\* a component has an outcome
LEMMA DecoderType == Decoder \in [Seq(Byte) -> Outcomes]
  BY ComponentOutcomes DEF Decoder

\* A body that is one component decodes as the component.
LEMMA DecodeWhole ==
  ASSUME NEW s \in Seq(Byte), Whole(s)
  PROVE  DecodeBody(s) = DecodeComponent(s)
<1>1. DecodeBody(s) = FirstErrorOrJoin(<<Decoder[s]>>)
  BY DecodeBodyDef, SplitWhole, MappedSingle
<1>2. Decoder[s] = DecodeComponent(s)
  BY DEF Decoder
<1> QED
  BY <1>1, <1>2, ComponentOutcomes, OutcomeSingle

\* A body that begins with u and a separator decodes to the error of u, or to
\* what u decodes to, the separator, and what the rest decodes to.
LEMMA DecodeFirst ==
  ASSUME NEW u \in Seq(Byte), NEW v \in Seq(Byte), Leads(u)
  PROVE  DecodeBody((u \o Separator) \o v) =
           IF DecodeComponent(u).status = "OK"
           THEN Behind(DecodeComponent(u).text \o Separator, DecodeBody(v))
           ELSE DecodeComponent(u)
<1> DEFINE s == (u \o Separator) \o v
           rest == Mapped(Decoder, Split(v))
<1>1. s \in Seq(Byte)
  BY AroundSeparator
<1>2. Split(s) = <<u>> \o Split(v)
  BY SplitFirst
<1>3. Split(v) \in Seq(Seq(Byte)) /\ Len(Split(v)) \in Nat \ {0}
  BY SplitType, ComponentsType
<1> HIDE DEF s
<1>4. DecodeBody(s) = FirstErrorOrJoin(<<Decoder[u]>> \o rest)
  BY <1>1, <1>2, <1>3, DecodeBodyDef, DecoderType, MappedFirst
<1>5. rest \in Seq(Outcomes) /\ Len(rest) = Len(Split(v))
  BY <1>3, DecoderType, MappedType
<1>6. rest # <<>>
  BY <1>3, <1>5
<1>7. Decoder[u] = DecodeComponent(u) /\ DecodeComponent(u) \in Outcomes
  BY ComponentOutcomes DEF Decoder
<1>8. DecodeBody(v) = FirstErrorOrJoin(rest)
  BY DecodeBodyDef
<1> HIDE DEF rest
<1> QED
  BY <1>4, <1>5, <1>6, <1>7, <1>8, OutcomeFirst DEF s

-----------------------------------------------------------------------------
\* the part of s between two offsets
Slice(s, a, e) == SubSeq(s, a + 1, e)

\* a part is a text of its length
LEMMA SliceType ==
  ASSUME NEW s \in Seq(Byte), NEW a \in Nat, NEW e \in Nat, a <= e, e <= Len(s)
  PROVE  /\ Slice(s, a, e) \in Seq(Byte) /\ Len(Slice(s, a, e)) = e - a
         /\ \A j \in 1..(e - a) : Slice(s, a, e)[j] = s[a + j]
<1> DEFINE u == SubSeq(s, a + 1, e)
<1>1. a + 1 \in Nat \ {0} /\ e \in Int
  OBVIOUS
<1>2. /\ u \in Seq(Byte) /\ Len(u) = IF a + 1 <= e THEN (e - (a + 1)) + 1 ELSE 0
      /\ \A j \in 1..((e - (a + 1)) + 1) : u[j] = s[((a + 1) + j) - 1]
  BY <1>1, SubSeqType
<1>3. (e - (a + 1)) + 1 = e - a /\ Len(u) = e - a
  BY <1>2
<1>4. ASSUME NEW j \in 1..(e - a) PROVE u[j] = s[a + j]
  <2>1. ((a + 1) + j) - 1 = a + j
    OBVIOUS
  <2> QED
    BY <1>2, <1>3, <2>1
<1> QED
  BY <1>2, <1>3, <1>4 DEF Slice

\* Parts that meet are a part.
LEMMA SliceConcat ==
  ASSUME NEW s \in Seq(Byte), NEW a \in Nat, NEW m \in Nat, NEW e \in Nat,
         a <= m, m <= e, e <= Len(s)
  PROVE  Slice(s, a, e) = Slice(s, a, m) \o Slice(s, m, e)
<1> DEFINE w == Slice(s, a, e)
           u == Slice(s, a, m)
           v == Slice(s, m, e)
           x == u \o v
<1>1. w \in Seq(Byte) /\ Len(w) = e - a /\ \A j \in 1..(e - a) : w[j] = s[a + j]
  <2>1. a <= e
    OBVIOUS
  <2> QED
    BY <2>1, SliceType
<1>2. u \in Seq(Byte) /\ Len(u) = m - a /\ \A j \in 1..(m - a) : u[j] = s[a + j]
  <2>1. m <= Len(s)
    OBVIOUS
  <2> QED
    BY <2>1, SliceType
<1>3. v \in Seq(Byte) /\ Len(v) = e - m /\ \A j \in 1..(e - m) : v[j] = s[m + j]
  BY SliceType
<1> HIDE DEF w, u, v
<1>4. /\ x \in Seq(Byte) /\ Len(x) = Len(u) + Len(v)
      /\ \A j \in 1..(Len(u) + Len(v)) : x[j] = IF j <= Len(u) THEN u[j] ELSE v[j - Len(u)]
  <2>1. u \in Seq(Byte) /\ v \in Seq(Byte)
    BY <1>2, <1>3
  <2> QED
    BY <2>1, ConcatProperties
<1> HIDE DEF x
<1>5. ASSUME NEW j \in 1..(e - a) PROVE w[j] = x[j]
  <2>1. x[j] = IF j <= m - a THEN u[j] ELSE v[j - (m - a)]
    BY <1>2, <1>3, <1>4
  <2>2. CASE j <= m - a
    BY <1>1, <1>2, <2>1, <2>2
  <2>3. CASE ~(j <= m - a)
    <3>1. j - (m - a) \in 1..(e - m) /\ m + (j - (m - a)) = a + j
      BY <2>3
    <3> QED
      BY <1>1, <1>3, <2>1, <2>3, <3>1
  <2> QED
    BY <2>2, <2>3
<1>6. Len(w) = Len(x) /\ Len(w) = e - a
  BY <1>1, <1>2, <1>3, <1>4
<1>7. w \in Seq(Byte) /\ x \in Seq(Byte) /\ \A j \in 1..Len(w) : w[j] = x[j]
  BY <1>1, <1>4, <1>5, <1>6
<1>8. w = x
  BY <1>6, <1>7, SeqEqual
<1> QED
  BY <1>8 DEF x, w, u, v

\* nothing lies between an offset and itself
LEMMA SliceEmpty ==
  ASSUME NEW s \in Seq(Byte), NEW a \in Nat, a <= Len(s)
  PROVE  Slice(s, a, a) = <<>>
<1>1. Slice(s, a, a) \in Seq(Byte) /\ Len(Slice(s, a, a)) = a - a
  BY SliceType
<1> QED
  BY <1>1

\* all of a text
LEMMA SliceAll ==
  ASSUME NEW s \in Seq(Byte)
  PROVE  Slice(s, 0, Len(s)) = s
<1> DEFINE n == Len(s)
           w == Slice(s, 0, n)
<1>1. n \in Nat
  OBVIOUS
<1>2. w \in Seq(Byte) /\ Len(w) = n - 0 /\ \A j \in 1..(n - 0) : w[j] = s[0 + j]
  <2>1. 0 \in Nat /\ 0 <= n /\ n <= Len(s)
    OBVIOUS
  <2> HIDE DEF n
  <2> QED
    BY <1>1, <2>1, SliceType
<1> HIDE DEF w
<1>3. Len(w) = Len(s) /\ \A j \in 1..Len(w) : w[j] = s[j]
  BY <1>1, <1>2
<1>4. w \in Seq(Byte)
  BY <1>2
<1>5. w = s
  BY <1>3, <1>4, SeqEqual
<1> QED
  BY <1>5 DEF w

\* a part of one byte
LEMMA SliceSingle ==
  ASSUME NEW s \in Seq(Byte), NEW a \in Nat, a + 1 <= Len(s)
  PROVE  Slice(s, a, a + 1) = <<s[a + 1]>> /\ s[a + 1] \in Byte
<1> DEFINE w == Slice(s, a, a + 1)
           b == s[a + 1]
<1>1. w \in Seq(Byte) /\ Len(w) = (a + 1) - a /\ \A j \in 1..((a + 1) - a) : w[j] = s[a + j]
  <2>1. a + 1 \in Nat /\ a <= a + 1
    OBVIOUS
  <2> QED
    BY <2>1, SliceType
<1>2. (a + 1) - a = 1
  OBVIOUS
<1>3. b \in Byte
  OBVIOUS
<1> HIDE DEF w
<1>4. Len(w) = 1 /\ w[1] = b
  BY <1>1, <1>2
<1>5. w = <<b>>
  BY <1>1, <1>4
<1> QED
  BY <1>3, <1>5 DEF w

\* The component that ends at a separator, the first that was met, and the rest.
LEMMA CutAtSeparator ==
  ASSUME NEW s \in Seq(Byte), NEW a \in Nat, NEW e \in Nat, a <= e, e + 2 <= Len(s),
         IsSeparator(s, e + 1), \A q \in (a + 1)..e : ~IsSeparator(s, q)
  PROVE  /\ Leads(Slice(s, a, e))
         /\ Slice(s, a, Len(s)) = (Slice(s, a, e) \o Separator) \o Slice(s, e + 2, Len(s))
<1> DEFINE n == Len(s)
           u == Slice(s, a, e)
           y == u \o <<HYPHEN>>
           h == Slice(s, e, e + 2)
<1>1. n \in Nat /\ e <= n /\ a <= e + 2 /\ e <= e + 2 /\ e + 2 \in Nat /\ (e + 2) - e = 2
  OBVIOUS
<1>2. u \in Seq(Byte) /\ Len(u) = e - a /\ \A j \in 1..(e - a) : u[j] = s[a + j]
  BY <1>1, SliceType
<1>3. h = Separator
  <2>1. h \in Seq(Byte) /\ Len(h) = 2 /\ \A j \in 1..2 : h[j] = s[e + j]
    <3>1. h \in Seq(Byte) /\ Len(h) = (e + 2) - e /\ \A j \in 1..((e + 2) - e) : h[j] = s[e + j]
      <4>1. e + 2 \in Nat /\ e <= e + 2 /\ e + 2 <= Len(s)
        OBVIOUS
      <4> HIDE DEF n
      <4> QED
        BY <4>1, SliceType
    <3> HIDE DEF h
    <3> QED
      BY <1>1, <3>1
  <2> HIDE DEF h
  <2>2. h[1] = HYPHEN /\ h[2] = HYPHEN
    <3>1. (e + 1) + 1 = e + 2
      OBVIOUS
    <3> QED
      BY <2>1, <3>1 DEF IsSeparator
  <2>3. \A j \in 1..Len(h) : h[j] = Separator[j]
    <3>1. \A j \in 1..2 : j = 1 \/ j = 2
      OBVIOUS
    <3> QED
      BY <2>1, <2>2, <3>1, SeparatorType
  <2>4. h \in Seq(Byte) /\ Separator \in Seq(Byte) /\ Len(h) = Len(Separator)
    BY <2>1, SeparatorType
  <2> QED
    BY <2>3, <2>4, SeqEqual
<1>4. Slice(s, a, n) = (u \o Separator) \o Slice(s, e + 2, n)
  <2>1. Slice(s, a, n) = Slice(s, a, e + 2) \o Slice(s, e + 2, n)
    <3>1. n \in Nat /\ e + 2 \in Nat /\ a <= e + 2 /\ e + 2 <= n /\ n <= Len(s)
      BY <1>1
    <3> HIDE DEF n
    <3> QED
      BY <3>1, SliceConcat
  <2>2. Slice(s, a, e + 2) = u \o h
    BY <1>1, SliceConcat
  <2> QED
    BY <1>3, <2>1, <2>2
<1> HIDE DEF u, h
<1>5. /\ y \in Seq(Byte) /\ Len(y) = Len(u) + 1
      /\ \A p \in 1..(Len(u) + 1) : y[p] = IF p <= Len(u) THEN u[p] ELSE HYPHEN
  <2>1. <<HYPHEN>> \in Seq(Byte) /\ u \in Seq(Byte)
    BY <1>2 DEF HYPHEN, Byte
  <2> QED
    BY <2>1
<1> HIDE DEF y
<1>6. ASSUME NEW p \in 1..((e - a) + 1) PROVE y[p] = s[a + p]
  <2>1. y[p] = IF p <= e - a THEN u[p] ELSE HYPHEN
    BY <1>2, <1>5
  <2>2. p <= e - a => p \in 1..(e - a)
    OBVIOUS
  <2>3. ~(p <= e - a) => a + p = e + 1
    OBVIOUS
  <2> QED
    BY <1>2, <2>1, <2>2, <2>3 DEF IsSeparator
<1>7. Leads(u)
  <2>1. SUFFICES ASSUME NEW q \in 1..(Len(y) - 1), IsSeparator(y, q) PROVE FALSE
    BY DEF Leads, Whole, y
  <2>2. q \in 1..((e - a) + 1) /\ q + 1 \in 1..((e - a) + 1) /\ a + q \in (a + 1)..e
    BY <1>2, <1>5
  <2>3. y[q] = s[a + q] /\ y[q + 1] = s[a + (q + 1)]
    BY <1>6, <2>2
  <2>4. a + (q + 1) = (a + q) + 1
    BY <2>2
  <2>5. IsSeparator(s, a + q)
    BY <2>1, <2>3, <2>4 DEF IsSeparator
  <2> QED
    BY <2>2, <2>5
<1> QED
  BY <1>4, <1>7 DEF u

\* The component that ends with the text.
LEMMA CutAtEnd ==
  ASSUME NEW s \in Seq(Byte), NEW a \in Nat, a <= Len(s),
         \A q \in (a + 1)..(Len(s) - 1) : ~IsSeparator(s, q)
  PROVE  Whole(Slice(s, a, Len(s)))
<1> DEFINE n == Len(s)
           u == Slice(s, a, n)
<1>1. n \in Nat /\ u \in Seq(Byte) /\ Len(u) = n - a /\ \A j \in 1..(n - a) : u[j] = s[a + j]
  <2>1. n \in Nat /\ a <= n /\ n <= Len(s)
    OBVIOUS
  <2> HIDE DEF n
  <2> QED
    BY <2>1, SliceType
<1> HIDE DEF u
<1>2. SUFFICES ASSUME NEW q \in 1..(Len(u) - 1), IsSeparator(u, q) PROVE FALSE
  BY DEF Whole, u
<1>3. q \in 1..(n - a) /\ q + 1 \in 1..(n - a) /\ a + q \in (a + 1)..(n - 1)
  BY <1>1
<1>4. u[q] = s[a + q] /\ u[q + 1] = s[(a + q) + 1]
  <2>1. a + (q + 1) = (a + q) + 1
    BY <1>3
  <2> QED
    BY <1>1, <1>3, <2>1
<1>5. IsSeparator(s, a + q)
  BY <1>2, <1>4 DEF IsSeparator
<1> QED
  BY <1>3, <1>5

-----------------------------------------------------------------------------
\* what a component decodes to are texts
LEMMA DecodeTextsType ==
  ASSUME NEW c \in Seq(Byte)
  PROVE  DecodeTexts(c) \in SUBSET Seq(Byte)
<1>1. 1 \in 1..(Len(c) + 1)
  OBVIOUS
<1> QED
  BY <1>1, DecodingDef DEF DecodeTexts

\* what a component decodes to, by the texts its escapes stand for
LEMMA DecodeByTexts ==
  ASSUME NEW c \in Seq(Byte)
  PROVE  /\ DecodeTexts(c) = {} => DecodeComponent(c) = Failure("INVALID_ESCAPE")
         /\ \A p : DecodeTexts(c) = {p} =>
              DecodeComponent(c) = IF Utf8Validate(p) THEN Success(p)
                                   ELSE Failure("INVALID_UTF8")
         /\ DecodeComponent(c).status = "OK" => DecodeComponent(c).text \in DecodeTexts(c)
<1> DEFINE texts == DecodeTexts(c)
<1>1. DecodeComponent(c) =
        IF texts = {} THEN Failure("INVALID_ESCAPE")
        ELSE IF \E t \in texts : ~Utf8Validate(t) THEN Failure("INVALID_UTF8")
        ELSE Success(CHOOSE t \in texts : TRUE)
  BY DecodeDef DEF DecodeTexts
<1> HIDE DEF texts
<1>2. ASSUME NEW p, texts = {p}
      PROVE  DecodeComponent(c) = IF Utf8Validate(p) THEN Success(p)
                                  ELSE Failure("INVALID_UTF8")
  <2>1. (CHOOSE t \in texts : TRUE) = p
    BY <1>2
  <2>2. (\E t \in texts : ~Utf8Validate(t)) <=> ~Utf8Validate(p)
    BY <1>2
  <2>3. texts # {}
    BY <1>2
  <2> QED
    BY <1>1, <2>1, <2>2, <2>3
<1>3. ASSUME DecodeComponent(c).status = "OK"
      PROVE  DecodeComponent(c).text \in texts
  <2>1. Failure("INVALID_ESCAPE").status # "OK" /\ Failure("INVALID_UTF8").status # "OK"
    BY DEF Failure
  <2>2. texts # {} /\ DecodeComponent(c) = Success(CHOOSE t \in texts : TRUE)
    BY <1>1, <1>3, <2>1
  <2> DEFINE t == CHOOSE t \in texts : TRUE
  <2>3. t \in texts
    BY <2>2
  <2> HIDE DEF t
  <2>4. DecodeComponent(c) = Success(t)
    BY <2>2 DEF t
  <2> QED
    BY <2>3, <2>4 DEF Success
<1> QED
  BY <1>1, <1>2, <1>3 DEF texts

\* A literal byte is decoded from itself.
LEMMA TakeOne ==
  ASSUME NEW s \in Seq(Byte), NEW a \in Nat, NEW e \in Nat, a + 1 <= e, e <= Len(s),
         IsLiteralByte(s[a + 1])
  PROVE  DecodeTexts(Slice(s, a, e)) = Before(s[a + 1], DecodeTexts(Slice(s, a + 1, e)))
<1> DEFINE v == Slice(s, a + 1, e)
           b == s[a + 1]
<1>1. a + 1 \in Nat /\ a <= a + 1 /\ a + 1 <= Len(s)
  OBVIOUS
<1>2. Slice(s, a, e) = Slice(s, a, a + 1) \o v
  BY <1>1, SliceConcat
<1>3. Slice(s, a, a + 1) = <<b>> /\ b \in Byte
  BY <1>1, SliceSingle
<1>4. v \in Seq(Byte)
  BY <1>1, SliceType
<1> HIDE DEF v
<1>5. IsLiteralByte(b)
  OBVIOUS
<1> HIDE DEF b
<1>6. DecodeTexts(<<b>> \o v) = Before(b, DecodeTexts(v))
  BY <1>3, <1>4, <1>5, DecodeLiteral
<1> QED
  BY <1>2, <1>3, <1>6 DEF v, b

\* A byte is decoded from an escape.
LEMMA TakeThree ==
  ASSUME NEW s \in Seq(Byte), NEW a \in Nat, NEW e \in Nat, a + 3 <= e, e <= Len(s),
         s[a + 1] = HYPHEN, IsHexDigit(s[a + 2]), IsHexDigit(s[a + 3])
  PROVE  DecodeTexts(Slice(s, a, e)) =
           Before(HexByte(s[a + 2], s[a + 3]), DecodeTexts(Slice(s, a + 3, e)))
<1> DEFINE v == Slice(s, a + 3, e)
           h == s[a + 2]
           l == s[a + 3]
           u == Slice(s, a, a + 3)
           x == <<HYPHEN, h, l>>
<1>1. a + 3 \in Nat /\ a <= a + 3 /\ a + 3 <= Len(s) /\ (a + 3) - a = 3
  OBVIOUS
<1>2. Slice(s, a, e) = u \o v
  BY <1>1, SliceConcat
<1>3. v \in Seq(Byte)
  BY <1>1, SliceType
<1>4. h \in Byte /\ l \in Byte /\ IsHexDigit(h) /\ IsHexDigit(l)
  <2>1. a + 2 \in 1..Len(s) /\ a + 3 \in 1..Len(s)
    BY <1>1
  <2> QED
    BY <2>1
<1>5. u = x
  <2>1. u \in Seq(Byte) /\ Len(u) = (a + 3) - a /\ \A j \in 1..((a + 3) - a) : u[j] = s[a + j]
    BY <1>1, SliceType
  <2> HIDE DEF u
  <2>2. Len(u) = 3 /\ u[1] = HYPHEN /\ u[2] = h /\ u[3] = l
    BY <1>1, <2>1
  <2> HIDE DEF h, l
  <2>7. HYPHEN \in Byte
    BY DEF HYPHEN, Byte
  <2>3. x \in Seq(Byte) /\ Len(x) = 3 /\ x[1] = HYPHEN /\ x[2] = h /\ x[3] = l
    BY <1>4, <2>7
  <2>4. \A j \in 1..3 : j = 1 \/ j = 2 \/ j = 3
    OBVIOUS
  <2> HIDE DEF x
  <2>5. Len(u) = Len(x) /\ \A j \in 1..Len(u) : u[j] = x[j]
    BY <2>2, <2>3, <2>4
  <2>6. u \in Seq(Byte) /\ x \in Seq(Byte)
    BY <2>1, <2>3
  <2> QED
    BY <2>5, <2>6, SeqEqual
<1> HIDE DEF v, h, l, u
<1>6. DecodeTexts(x \o v) = Before(HexByte(h, l), DecodeTexts(v))
  BY <1>3, <1>4, DecodeEscape
<1> QED
  BY <1>2, <1>5, <1>6 DEF v, h, l

\* Nothing is decoded from anything else.
LEMMA TakeNone ==
  ASSUME NEW s \in Seq(Byte), NEW a \in Nat, NEW e \in Nat, a + 1 <= e, e <= Len(s),
         ~IsLiteralByte(s[a + 1]),
         ~(/\ s[a + 1] = HYPHEN /\ a + 3 <= e
           /\ IsHexDigit(s[a + 2]) /\ IsHexDigit(s[a + 3]))
  PROVE  DecodeTexts(Slice(s, a, e)) = {}
<1> DEFINE w == Slice(s, a, e)
<1>1. w \in Seq(Byte) /\ Len(w) = e - a /\ \A j \in 1..(e - a) : w[j] = s[a + j]
  <2>1. a <= e
    OBVIOUS
  <2> QED
    BY <2>1, SliceType
<1> HIDE DEF w
<1>2. Len(w) \in Nat /\ 1 \in 1..(Len(w) + 1) /\ ~(1 > Len(w)) /\ 1 \in 1..(e - a)
  BY <1>1
<1>3. Decoding(w)[1] = DecodeRest(w, 1, Decoding(w))
  BY <1>1, <1>2, DecodingDef
<1>4. w[1] = s[a + 1]
  BY <1>1, <1>2
<1>5. ~IsEscape(w, 1)
  <2>1. SUFFICES ASSUME IsEscape(w, 1) PROVE FALSE
    OBVIOUS
  <2>2. w[1] = HYPHEN /\ 1 + 2 <= Len(w) /\ IsHexDigit(w[1 + 1]) /\ IsHexDigit(w[1 + 2])
    BY <2>1 DEF IsEscape
  <2>3. a + 3 <= e /\ 2 \in 1..(e - a) /\ 3 \in 1..(e - a) /\ 1 + 1 = 2 /\ 1 + 2 = 3
    BY <1>1, <2>2
  <2>4. w[2] = s[a + 2] /\ w[3] = s[a + 3]
    BY <1>1, <2>3
  <2> QED
    BY <1>4, <2>2, <2>3, <2>4
<1> QED
  BY <1>2, <1>3, <1>4, <1>5 DEF DecodeRest, DecodeTexts, w

\* p before each of some texts
Prefixed(p, texts) == {p \o t : t \in texts}

\* A byte behind the prefix goes to the prefix.
LEMMA PrefixedBefore ==
  ASSUME NEW p \in Seq(Byte), NEW b \in Byte, NEW texts \in SUBSET Seq(Byte)
  PROVE  Prefixed(p, Before(b, texts)) = Prefixed(p \o <<b>>, texts)
<1> DEFINE x == <<b>>
<1>1. x \in Seq(Byte)
  OBVIOUS
<1> HIDE DEF x
<1>2. \A t \in texts : p \o (x \o t) = (p \o x) \o t
  BY <1>1, Associative, SMTT(30)
<1>3. Prefixed(p, Before(b, texts)) = {p \o (x \o t) : t \in texts}
  BY DEF Prefixed, Before, x
<1> QED
  BY <1>2, <1>3 DEF Prefixed, x

\* in front of the empty text, and of none
LEMMA PrefixedEmpty ==
  ASSUME NEW p \in Seq(Byte)
  PROVE  Prefixed(p, {<<>>}) = {p} /\ Prefixed(p, {}) = {}
<1>1. p \o <<>> = p
  BY ConcatEmptySeq
<1> QED
  BY <1>1 DEF Prefixed

\* nothing in front
LEMMA PrefixedNone ==
  ASSUME NEW texts \in SUBSET Seq(Byte)
  PROVE  Prefixed(<<>>, texts) = texts
<1>1. \A t \in texts : <<>> \o t = t
  BY ConcatEmptySeq
<1> QED
  BY <1>1 DEF Prefixed
=============================================================================
