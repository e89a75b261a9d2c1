--------------------------- MODULE CProfileProofs ---------------------------
(***************************************************************************)
(* Proofs about CProfile, for all texts, labels, markers, capacities and   *)
(* lengths: the temporary buffers are freed exactly once on every path,    *)
(* what is returned respects the caller's buffer and the label limit, and  *)
(* every call is answered as the profile defines; so labels are DNS        *)
(* labels, do not depend on case, and decode to the text they were made    *)
(* for.                                                                    *)
(***************************************************************************)
EXTENDS CProfileRefinement, DefCoreProofs
LOCAL INSTANCE SequencesExt

\* the buffers are allocated together, and in use until the function returns
HeapInv ==
  /\ heap \in [Pointers -> {"unset", "null", "live", "freed"}]
  /\ pc = "release" => \A p \in Pointers : heap[p] \in {"live", "null"}
  /\ pc \in {"body", "choose", "copied", "hash"} => \A p \in Pointers : heap[p] = "live"
  /\ pc = "done" => \A p \in Pointers : heap[p] # "live"
  /\ pc \in {"enter", "malloc", "dispatch"} => \A p \in Pointers : heap[p] = "unset"

\* Freeing both buffers leaves none allocated, and misuses none, when each is
\* either allocated or null.
LEMMA FreeBoth ==
  ASSUME heap \in [Pointers -> {"unset", "null", "live", "freed"}],
         \A p \in Pointers : heap[p] \in {"live", "null"},
         Free(Released)
  PROVE  /\ heap' \in [Pointers -> {"unset", "null", "live", "freed"}]
         /\ \A p \in Pointers : heap'[p] # "live"
  BY DEF Free, Released, Pointers

\* Every step keeps the two pointers in step with the place in the code, whatever
\* the Core functions answer.
LEMMA HeapAction ==
  ASSUME NEW answers, HeapInv,
         \/ EnterEncode \/ Malloc \/ Release \/ EncodeToCore(answers)
         \/ RefuseCore \/ CopyCore \/ EndCopy
         \/ EncodeToCanonical(answers) \/ EnterDecode \/ DecodeHashed
         \/ DecodeReversible(answers) \/ Send
  PROVE  HeapInv'
<1>1. CASE EnterEncode
  BY <1>1 DEF EnterEncode, HeapInv, Return
<1>2. CASE Malloc
  BY <1>2 DEF Malloc, HeapInv, Pointers
<1>3. CASE Release
  BY <1>3, FreeBoth DEF Release, HeapInv, Return
<1>4. CASE EncodeToCore(answers)
  <2>1. (pc' = "done" /\ Free(Released)) \/ (pc' = "choose" /\ heap' = heap)
    BY <1>4 DEF EncodeToCore, Return
  <2>2. pc = "body"
    BY <1>4 DEF EncodeToCore
  <2> QED
    BY <2>1, <2>2, FreeBoth DEF HeapInv
<1>5. CASE CopyCore
  BY <1>5 DEF CopyCore, HeapInv, locals
<1>6. CASE EncodeToCanonical(answers)
  <2>1. (pc' = "done" /\ Free(Released)) \/ (pc' = "hash" /\ heap' = heap)
    BY <1>6 DEF EncodeToCanonical, Return
  <2>2. pc = "choose"
    BY <1>6 DEF EncodeToCanonical
  <2> QED
    BY <2>1, <2>2, FreeBoth DEF HeapInv
<1>7. CASE EnterDecode
  BY <1>7 DEF EnterDecode, HeapInv, Return, locals
<1>8. CASE DecodeHashed
  BY <1>8 DEF DecodeHashed, HeapInv, Return, locals
<1>9. CASE DecodeReversible(answers)
  <2>1. pc = "dispatch" /\ pc' = "done" /\ heap' = heap
    BY <1>9 DEF DecodeReversible, Deliver, Refuse, Return, locals
  <2> QED
    BY <2>1 DEF HeapInv
<1>10. CASE Send
  <2>1. pc' = "enter" /\ heap' = [p \in Pointers |-> "unset"]
    BY <1>10 DEF Send
  <2> QED
    BY <2>1 DEF HeapInv
<1>11. CASE RefuseCore
  BY <1>11, FreeBoth DEF RefuseCore, HeapInv, Return
<1>12. CASE EndCopy
  BY <1>12, FreeBoth DEF EndCopy, HeapInv, Return
<1> QED
  BY <1>1, <1>2, <1>3, <1>4, <1>5, <1>6, <1>7, <1>8, <1>9, <1>10, <1>11, <1>12

\* The hash is the last use of both buffers.
LEMMA HeapAfterHash ==
  ASSUME HeapInv, pc = "hash", pc' = "done", Free(Released)
  PROVE  HeapInv'
  BY FreeBoth DEF HeapInv

\* Every step of the two functions keeps the heap discipline.
LEMMA HeapStep ==
  ASSUME HeapInv, [Step \/ Send]_vars
  PROVE  HeapInv'
<1>1. CASE HashCanonical
  <2>1. pc = "hash" /\ pc' = "done" /\ Free(Released)
    BY <1>1 DEF HashCanonical, Deliver, Refuse, Return
  <2> QED
    BY <2>1, HeapAfterHash
<1>2. CASE UNCHANGED vars
  BY <1>2 DEF vars, locals, HeapInv
<1> QED
  BY <1>1, <1>2, HeapAction DEF Step

\* HeapDiscipline: no path of def_encode_profile leaks a temporary buffer,
\* frees one twice or frees a pointer it never got, whatever malloc answers.
THEOREM HeapSafety == Spec => []HeapDiscipline
<1>1. Init => HeapInv
  BY DEF Init, HeapInv
<1>2. HeapInv /\ [Step \/ Send]_vars => HeapInv'
  BY HeapStep
<1>3. HeapInv => HeapDiscipline
  BY DEF HeapInv, HeapDiscipline
<1> QED
  BY <1>1, <1>2, <1>3, PTL DEF Spec

-----------------------------------------------------------------------------
\* LabelBounds with what makes it inductive: the status is OK only after the
\* return, the steps of an encoding belong to an encoding of one of the texts,
\* the label that has been copied fits, and the hash input is that of the text
\* being encoded.
BoundsInv ==
  /\ LabelBounds
  /\ marker \in Markers
  /\ pc # "done" => status # "OK"
  /\ op = "encode" => input \in Texts
  /\ pc \in {"malloc", "release", "body", "choose", "copied", "hash"} => op = "encode"
  /\ pc = "dispatch" => op = "decode"
  /\ pc = "copied" =>
       length = Len(output) /\ length + 1 <= cap /\ length <= MaxLabelLength
  /\ pc = "hash" => canonical = EncodeComponent(input)

\* an answer that is OK is the result itself, and it fits
LEMMA AnswerFits ==
  ASSUME NEW r, NEW capacity, NEW worstCase,
         NEW a \in Answers(r, capacity, worstCase), a.status = "OK"
  PROVE  a = r /\ Len(a.text) < capacity
  BY DEF Answers, Failure

\* a Core encoder that succeeds returns the encoded text
LEMMA CoreEncodes ==
  ASSUME NEW text, NEW a \in CoreAnswers(text), a.status = "OK"
  PROVE  a.text = text
<1>1. a = Encoded(input, text)
  BY AnswerFits DEF CoreAnswers
<1> QED
  BY <1>1 DEF Encoded, Success, Failure

\* a step that returns nothing, or an error
LEMMA QuietStep ==
  ASSUME BoundsInv, UNCHANGED <<op, input, marker>>,
         status' # "OK",
         pc' \in {"malloc", "release", "body", "choose"} => op = "encode",
         pc' = "dispatch" => op = "decode",
         pc' \notin {"copied", "hash"}
  PROVE  BoundsInv'
  BY DEF BoundsInv, LabelBounds

\* Every step keeps what is delivered within the buffer and the label limit.
LEMMA BoundsStep ==
  ASSUME BoundsInv, [Step \/ Send]_vars
  PROVE  BoundsInv'
<1>1. CASE EnterEncode
  BY <1>1, QuietStep DEF EnterEncode, Return, call, BoundsInv
<1>2. CASE Malloc
  BY <1>2, QuietStep DEF Malloc, call, result, BoundsInv
<1>3. CASE Release
  BY <1>3, QuietStep DEF Release, Return, call
<1>4. CASE EncodeToCore(CoreAnswers(EncodeBody(input)))
  BY <1>4, QuietStep DEF EncodeToCore, Return, call, BoundsInv
<1>5. CASE CopyCore
  <2>1. /\ pc = "choose" /\ pc' = "copied" /\ UNCHANGED <<op, input, marker, cap, status>>
        /\ output' = core /\ length' = Len(core)
    BY <1>5 DEF CopyCore, call
  <2>2. Len(core) + 1 <= cap /\ Len(core) <= MaxLabelLength
    BY <1>5 DEF CopyCore, LabelFits, Reversible
  <2> QED
    BY <2>1, <2>2 DEF BoundsInv, LabelBounds
<1>6. CASE EncodeToCanonical(CoreAnswers(HashInput))
  <2>1. pc = "choose" /\ op = "encode" /\ UNCHANGED <<op, input, marker, cap>>
    BY <1>6 DEF EncodeToCanonical, call, BoundsInv
  <2>2. PICK r \in CoreAnswers(HashInput) :
          /\ canonical' = r.text
          /\ IF r.status = "OK" THEN pc' = "hash" /\ UNCHANGED <<heap, status>>
             ELSE Return(r.status) /\ Free(Released)
    BY <1>6 DEF EncodeToCanonical
  <2>3. CASE r.status = "OK"
    <3>1. canonical' = EncodeComponent(input)
      BY <2>2, <2>3, CoreEncodes DEF HashInput
    <3> QED
      BY <2>1, <2>2, <2>3, <3>1 DEF BoundsInv, LabelBounds
  <2>4. CASE r.status # "OK"
    BY <2>1, <2>2, <2>4, QuietStep DEF Return
  <2> QED
    BY <2>3, <2>4
<1>7. CASE HashCanonical
  <2> DEFINE label == marker \o Digest(canonical)
  <2>1. /\ pc = "hash" /\ pc' = "done" /\ UNCHANGED <<op, input, marker, cap>>
        /\ op = "encode" /\ canonical = EncodeComponent(input)
        /\ input \in Texts /\ marker \in Markers
    BY <1>7 DEF HashCanonical, Deliver, Refuse, Return, call, BoundsInv
  <2>2. CASE /\ ~(Len(marker) + HashBodyLength > MaxLabelLength)
             /\ LabelFits(Len(marker) + HashBodyLength)
    <3>1. output' = label /\ length' = Len(label)
      BY <1>7, <2>2 DEF HashCanonical, Deliver
    <3>2. /\ marker \in Seq(Byte \ {NUL}) /\ Digest(canonical) \in Seq(Byte)
          /\ Len(Digest(canonical)) = HashBodyLength
      BY <2>1, CallsAssumption, DigestAssumption DEF IsDigest
    <3>3. Len(label) = Len(marker) + HashBodyLength /\ Len(label) \in Nat
      BY <3>2
    <3>4. Len(label) <= MaxLabelLength /\ Len(label) + 1 <= cap
      BY <2>2, <3>3, LengthsAssumption DEF LabelFits
    <3> HIDE DEF label
    <3> QED
      BY <2>1, <3>1, <3>4 DEF BoundsInv, LabelBounds
  <2>3. CASE ~(/\ ~(Len(marker) + HashBodyLength > MaxLabelLength)
               /\ LabelFits(Len(marker) + HashBodyLength))
    <3>1. status' # "OK"
      BY <1>7, <2>3 DEF HashCanonical, Refuse, Return
    <3> QED
      BY <2>1, <3>1, QuietStep
  <2> QED
    BY <2>2, <2>3
<1>8. CASE EnterDecode
  BY <1>8, QuietStep DEF EnterDecode, Return, call, BoundsInv
<1>9. CASE DecodeHashed
  BY <1>9, QuietStep DEF DecodeHashed, Return, call, BoundsInv
<1>10. CASE DecodeReversible(Answers(DecodeBody(input), cap, Len(input) + 1))
  <2>1. /\ pc = "dispatch" /\ pc' = "done" /\ op = "decode"
        /\ UNCHANGED <<op, input, marker, cap>>
    BY <1>10 DEF DecodeReversible, Deliver, Refuse, Return, call, BoundsInv
  <2>2. CASE status' = "OK"
    <3>1. PICK r \in Answers(DecodeBody(input), cap, Len(input) + 1) :
            r.status = "OK" /\ Deliver(r.text)
      BY <1>10, <2>2 DEF DecodeReversible, Refuse, Return
    <3>2. Len(r.text) < cap
      BY <3>1, AnswerFits
    <3> QED
      BY <2>1, <3>1, <3>2 DEF Deliver, BoundsInv, LabelBounds
  <2>3. CASE status' # "OK"
    BY <2>1, <2>3, QuietStep
  <2> QED
    BY <2>2, <2>3
<1>11. CASE Send
  BY <1>11 DEF Send, BoundsInv, LabelBounds
<1>12. CASE UNCHANGED vars
  BY <1>12 DEF vars, call, locals, result, BoundsInv, LabelBounds
<1>13. CASE RefuseCore
  BY <1>13, QuietStep DEF RefuseCore, Return, call
<1>14. CASE EndCopy
  <2>1. /\ pc = "copied" /\ pc' = "done" /\ status' = "OK"
        /\ UNCHANGED <<op, input, marker, cap, output, length>>
    BY <1>14 DEF EndCopy, Return, call
  <2> QED
    BY <2>1 DEF BoundsInv, LabelBounds
<1> QED
  BY <1>1, <1>2, <1>3, <1>4, <1>5, <1>6, <1>7, <1>8, <1>9, <1>10, <1>11, <1>12, <1>13, <1>14
     DEF Step

\* LabelBounds: a label is never longer than MaxLabelLength, and neither a
\* label nor a decoded text is delivered without room for its terminator.
THEOREM LabelsFit == Spec => []LabelBounds
<1>1. Init => BoundsInv
  BY DEF Init, BoundsInv, LabelBounds
<1>2. BoundsInv /\ [Step \/ Send]_vars => BoundsInv'
  BY BoundsStep
<1>3. BoundsInv => LabelBounds
  BY DEF BoundsInv
<1> QED
  BY <1>1, <1>2, <1>3, PTL DEF Spec

-----------------------------------------------------------------------------
\* what has been established at each place in the code
WorkInv ==
  /\ pc \in {"malloc", "release", "body", "choose", "copied", "hash"} =>
       /\ ValidMarker(marker) /\ ~Overflows(Len(input))
       /\ temporary = 3 * Len(input) + 1
  /\ pc = "release" => \E p \in Pointers : heap[p] = "null"
  /\ pc \in {"choose", "copied", "hash"} =>
       /\ Utf8Validate(input) /\ core = EncodeBody(input) /\ ~BadEdges(core)
  /\ pc = "copied" => Reversible /\ LabelFits(Len(core)) /\ output = core
  /\ pc = "hash" => ~Reversible /\ canonical = EncodeComponent(input)
  /\ pc = "dispatch" => ValidMarker(marker)
  /\ pc # "done" => status = "PENDING"
  /\ pc \notin {"copied", "done"} => output = <<>>

\* the reasons a caller can see for a refusal
OutOfSpace ==
  \/ Overflows(Len(input)) \/ \E p \in Pointers : heap[p] = "null"
  \/ LET r == EncodeProfile(input, marker) IN r.status = "OK" /\ Len(r.text) >= cap

\* what def_encode_profile returns
EncodedInv ==
  pc = "done" /\ op = "encode" =>
    LET r == EncodeProfile(input, marker) IN
    \/ status = "BUFFER_TOO_SMALL" /\ output = <<>> /\ ValidMarker(marker) /\ OutOfSpace
    \/ status = r.status /\ output = r.text /\ (status = "OK" => Len(r.text) < cap)

\* what def_decode_profile returns
DecodedInv ==
  pc = "done" /\ op = "decode" =>
    LET r == DecodeProfile(input, marker) IN
    [status |-> status, text |-> output]
      \in Answers(r, cap, IF r.status \in {"INVALID_ESCAPE", "INVALID_UTF8"}
                          THEN Len(input) + 1 ELSE 0)

\* the label being decoded, if it was made by the encoder
SentInv ==
  sent # Nothing =>
    /\ op = "decode" /\ marker = sent.marker /\ sent.text \in Texts
    /\ EncodeProfile(sent.text, sent.marker) = Success(input)

\* the inductive invariant
ProfileInv ==
  /\ TypeOK /\ HeapInv /\ BoundsInv
  /\ WorkInv /\ EncodedInv /\ DecodedInv /\ SentInv
-----------------------------------------------------------------------------
\* the texts of a call
LEMMA CallTypes ==
  ASSUME TypeOK
  PROVE  /\ input \in Seq(Byte) /\ marker \in Seq(Byte)
         /\ Len(input) \in Nat /\ Len(marker) \in Nat /\ cap \in Nat /\ cap <= SizeMax
<1>1. input \in Seq(Byte \ {NUL}) /\ marker \in Seq(Byte \ {NUL})
  BY CallsAssumption DEF TypeOK
<1>2. cap \in 0..SizeMax /\ SizeMax \in Nat
  BY CallsAssumption DEF TypeOK
<1> QED
  BY <1>1, <1>2

\* With the worst-case capacity a Core encoder is never refused for space.
LEMMA CoreNeverRefused ==
  ASSUME TypeOK, temporary = 3 * Len(input) + 1,
         NEW text \in Seq(Byte), Len(text) <= 3 * Len(input),
         NEW a \in CoreAnswers(text)
  PROVE  a = Encoded(input, text)
<1>1. Len(input) \in Nat /\ Len(text) \in Nat
  BY CallTypes
<1>2. Len(text) < temporary /\ ~(temporary < 3 * Len(input) + 1)
  BY <1>1
<1>3. CASE Utf8Validate(input)
  BY <1>2, <1>3 DEF CoreAnswers, Answers, Encoded, Success
<1>4. CASE ~Utf8Validate(input)
  BY <1>2, <1>4 DEF CoreAnswers, Answers, Encoded, Failure
<1> QED
  BY <1>3, <1>4

\* the two texts of an encoding need at most three bytes for one
LEMMA EncodedBodies ==
  ASSUME TypeOK
  PROVE  /\ EncodeBody(input) \in Seq(Byte) /\ Len(EncodeBody(input)) <= 3 * Len(input)
         /\ Spelled(EncodeBody(input))
         /\ EncodeComponent(input) \in Seq(Byte)
         /\ Len(EncodeComponent(input)) <= 3 * Len(input)
  BY CallTypes, BodyType, BodyShape, EncodeType, EncodedShape

\* A hash label begins with the marker, and the digest is what follows.
LEMMA HashLabelParts ==
  ASSUME NEW m \in Seq(Byte), NEW d \in Seq(Byte)
  PROVE  /\ m \o d \in Seq(Byte) /\ Len(m \o d) = Len(m) + Len(d)
         /\ IsPrefix(m, m \o d)
         /\ SubSeq(m \o d, Len(m) + 1, Len(m \o d)) = d
<1> DEFINE w == m \o d
           x == SubSeq(w, Len(m) + 1, Len(w))
           y == SubSeq(w, 1, Len(m))
<1>1. /\ w \in Seq(Byte) /\ Len(w) = Len(m) + Len(d) /\ Len(m) \in Nat /\ Len(d) \in Nat
      /\ \A p \in 1..(Len(m) + Len(d)) : w[p] = IF p <= Len(m) THEN m[p] ELSE d[p - Len(m)]
  BY ConcatProperties
<1> HIDE DEF w
<1>2. y = m
  <2>1. 1 \in Nat \ {0} /\ Len(m) \in Int /\ Len(m) <= Len(w)
    BY <1>1
  <2>2. /\ y \in Seq(Byte) /\ Len(y) = IF 1 <= Len(m) THEN (Len(m) - 1) + 1 ELSE 0
        /\ \A j \in 1..((Len(m) - 1) + 1) : y[j] = w[(1 + j) - 1]
    BY <1>1, <2>1, SubSeqType
  <2>3. Len(y) = Len(m)
    BY <1>1, <2>2
  <2>4. ASSUME NEW j \in 1..Len(m) PROVE y[j] = m[j]
    <3>1. j \in 1..((Len(m) - 1) + 1) /\ (1 + j) - 1 = j /\ j \in 1..(Len(m) + Len(d)) /\ j <= Len(m)
      BY <1>1
    <3> QED
      BY <1>1, <2>2, <3>1
  <2> QED
    BY <2>2, <2>3, <2>4, SeqEqual
<1>3. x = d
  <2>1. Len(m) + 1 \in Nat \ {0} /\ Len(w) \in Int /\ Len(w) <= Len(w)
    BY <1>1
  <2>2. /\ x \in Seq(Byte)
        /\ Len(x) = IF Len(m) + 1 <= Len(w) THEN (Len(w) - (Len(m) + 1)) + 1 ELSE 0
        /\ \A j \in 1..((Len(w) - (Len(m) + 1)) + 1) : x[j] = w[((Len(m) + 1) + j) - 1]
    BY <1>1, <2>1, SubSeqType
  <2>3. (Len(w) - (Len(m) + 1)) + 1 = Len(d) /\ Len(x) = Len(d)
    BY <1>1, <2>2
  <2>4. ASSUME NEW j \in 1..Len(d) PROVE x[j] = d[j]
    <3>1. /\ ((Len(m) + 1) + j) - 1 = Len(m) + j /\ Len(m) + j \in 1..(Len(m) + Len(d))
          /\ ~(Len(m) + j <= Len(m)) /\ (Len(m) + j) - Len(m) = j
      BY <1>1
    <3>2. x[j] = w[((Len(m) + 1) + j) - 1]
      BY <2>2, <2>3
    <3> QED
      BY <1>1, <3>1, <3>2
  <2> QED
    BY <2>2, <2>3, <2>4, SeqEqual
<1>4. SubSeq(m, 1, Len(m)) = m
  <2>1. 1 \in Nat \ {0} /\ Len(m) \in Int /\ Len(m) <= Len(m)
    BY <1>1
  <2> DEFINE z == SubSeq(m, 1, Len(m))
  <2>2. /\ z \in Seq(Byte) /\ Len(z) = IF 1 <= Len(m) THEN (Len(m) - 1) + 1 ELSE 0
        /\ \A j \in 1..((Len(m) - 1) + 1) : z[j] = m[(1 + j) - 1]
    BY <2>1, SubSeqType
  <2>3. Len(z) = Len(m)
    BY <1>1, <2>2
  <2>4. ASSUME NEW j \in 1..Len(m) PROVE z[j] = m[j]
    <3>1. j \in 1..((Len(m) - 1) + 1) /\ (1 + j) - 1 = j
      BY <1>1
    <3> QED
      BY <2>2, <3>1
  <2> HIDE DEF z
  <2>5. z = m
    BY <2>2, <2>3, <2>4, SeqEqual
  <2> QED
    BY <2>5 DEF z
<1>5. IsPrefix(m, w)
  BY <1>1, <1>2, <1>4 DEF IsPrefix
<1> QED
  BY <1>1, <1>3, <1>5 DEF w

\* A label is spelled in letters, digits and hyphens, not empty, does not end
\* in a hyphen, and begins with one only when it begins with the marker; it is
\* the body or a hash label.
LEMMA EncodedLabel ==
  ASSUME NEW s \in Texts, NEW m \in Markers, EncodeProfile(s, m).status = "OK"
  PROVE  LET l == EncodeProfile(s, m).text
             d == Digest(EncodeComponent(s))
         IN  /\ EncodeProfile(s, m) = Success(l)
             /\ ValidMarker(m) /\ Utf8Validate(s)
             /\ l \in Seq(Byte \ {NUL}) /\ Spelled(l)
             /\ l # <<>> /\ l[Len(l)] # HYPHEN
             /\ l[1] = HYPHEN => IsPrefix(m, l)
             /\ \/ l = EncodeBody(s) /\ ~IsPrefix(m, l) /\ Len(l) <= MaxLabelLength /\ ~BadEdges(l)
                \/ l = m \o d /\ IsPrefix(m, l) /\ IsDigest(SubSeq(l, Len(m) + 1, Len(l)))
<1> DEFINE l == EncodeProfile(s, m).text
           d == Digest(EncodeComponent(s))
           body == EncodeBody(s)
<1>1. s \in Seq(Byte) /\ m \in Seq(Byte)
  <2>1. s \in Seq(Byte \ {NUL}) /\ m \in Seq(Byte \ {NUL})
    BY CallsAssumption
  <2> QED
    BY <2>1
<1>2. d \in Seq(Byte) /\ IsDigest(d)
  BY DigestAssumption
<1>3. body \in Seq(Byte) /\ Spelled(body)
  BY <1>1, BodyType, BodyShape
<1>4. /\ ValidMarker(m) /\ Utf8Validate(s) /\ ~BadEdges(body)
      /\ \/ l = body /\ Len(body) <= MaxLabelLength /\ ~IsPrefix(m, body)
         \/ l = m \o d
      /\ EncodeProfile(s, m) = Success(l)
  BY DEF EncodeProfile, LabelOf, Failure, Success
<1> HIDE DEF l, d, body
<1>5. \A t \in Seq(Byte) : Spelled(t) => t \in Seq(Byte \ {NUL})
  <2> TAKE t \in Seq(Byte)
  <2> HAVE Spelled(t)
  <2>1. \A j \in 1..Len(t) : t[j] \in Byte \ {NUL}
    <3> TAKE j \in 1..Len(t)
    <3> DEFINE b == t[j]
    <3>1. b \in Byte /\ (IsLiteralByte(b) \/ b = HYPHEN)
      BY DEF Spelled
    <3> HIDE DEF b
    <3>2. b \in Byte \ {NUL}
      BY <3>1 DEF IsLiteralByte, IsDigit, HYPHEN, NUL, Byte
    <3> QED
      BY <3>2 DEF b
  <2>2. t = [j \in 1..Len(t) |-> t[j]] /\ Len(t) \in Nat
    OBVIOUS
  <2> QED
    BY <2>1, <2>2
<1>6. CASE l = body /\ Len(body) <= MaxLabelLength /\ ~IsPrefix(m, body)
  <2>1. l # <<>> /\ l[1] # HYPHEN /\ l[Len(l)] # HYPHEN
    BY <1>4, <1>6 DEF BadEdges
  <2> QED
    BY <1>3, <1>4, <1>5, <1>6, <2>1 DEF l, d, body
<1>7. CASE l = m \o d
  <2>1. /\ l \in Seq(Byte) /\ Len(l) = Len(m) + Len(d) /\ IsPrefix(m, l)
        /\ SubSeq(l, Len(m) + 1, Len(l)) = d
    BY <1>1, <1>2, <1>7, HashLabelParts
  <2>2. Spelled(m)
    <3>1. \A j \in DOMAIN m : IsLiteralByte(m[j]) \/ m[j] = HYPHEN
      BY <1>4 DEF ValidMarker
    <3>2. DOMAIN m = 1..Len(m)
      BY <1>1
    <3> QED
      BY <3>1, <3>2 DEF Spelled
  <2>3. /\ Len(d) = HashBodyLength
        /\ \A j \in 1..Len(d) : IsLiteralByte(d[j]) /\ d[j] # HYPHEN
    <3>1. DOMAIN d = 1..Len(d) /\ \A j \in DOMAIN d : IsBase36Byte(d[j])
      BY <1>2 DEF IsDigest
    <3>2. \A b : IsBase36Byte(b) => IsLiteralByte(b) /\ b # HYPHEN
      BY DEF IsBase36Byte, IsLiteralByte, IsDigit, HYPHEN
    <3> QED
      BY <1>2, <3>1, <3>2 DEF IsDigest
  <2>4. Spelled(l)
    <3>1. Spelled(d)
      BY <2>3 DEF Spelled
    <3> QED
      BY <1>1, <1>2, <1>7, <2>2, <3>1, SpelledConcat
  <2>5. l # <<>> /\ l[Len(l)] # HYPHEN
    <3>1. /\ Len(d) \in Nat \ {0} /\ Len(m) \in Nat
      BY <1>1, <2>3, LengthsAssumption
    <3>2. \A p \in 1..(Len(m) + Len(d)) : l[p] = IF p <= Len(m) THEN m[p] ELSE d[p - Len(m)]
      BY <1>1, <1>2, <1>7, ConcatProperties
    <3>3. /\ Len(l) \in 1..(Len(m) + Len(d)) /\ ~(Len(l) <= Len(m))
          /\ Len(l) - Len(m) = Len(d) /\ Len(d) \in 1..Len(d)
      BY <2>1, <3>1
    <3>4. l[Len(l)] = d[Len(d)]
      BY <3>2, <3>3
    <3>5. l # <<>>
      BY <2>1, <3>1
    <3> QED
      BY <2>3, <3>3, <3>4, <3>5
  <2> QED
    BY <1>2, <1>4, <1>5, <1>7, <2>1, <2>4, <2>5 DEF l, d
<1> QED
  BY <1>4, <1>6, <1>7

-----------------------------------------------------------------------------
\* what an answer of def_decode_body is
LEMMA DecodeAnswers ==
  ASSUME TypeOK, NEW a \in Answers(DecodeBody(input), cap, Len(input) + 1)
  PROVE  LET r == DecodeBody(input) IN
         /\ a \in Answers(r, cap, IF r.status \in {"INVALID_ESCAPE", "INVALID_UTF8"}
                                  THEN Len(input) + 1 ELSE 0)
         /\ a = [status |-> a.status, text |-> a.text]
         /\ a.status \in {"OK", "INVALID_ESCAPE", "INVALID_UTF8", "BUFFER_TOO_SMALL"}
         /\ a.text \in Seq(Byte)
         /\ a.status # "OK" => a.text = <<>>
<1> DEFINE r == DecodeBody(input)
<1>1. r \in Outcomes
  BY CallTypes, BodyOutcomes
<1>2. a \in Answers(r, cap, Len(input) + 1)
  OBVIOUS
<1> HIDE DEF r
<1>3. /\ r.status \in {"OK", "INVALID_ESCAPE", "INVALID_UTF8"} /\ r.text \in Seq(Byte)
      /\ r.status # "OK" => r.text = <<>>
      /\ r = [status |-> r.status, text |-> r.text]
  <2>1. \E e, t : r = [status |-> e, text |-> t]
    <3>1. CASE \E t \in Seq(Byte) : r = Success(t)
      BY <3>1 DEF Success
    <3>2. CASE r \in {Failure("INVALID_ESCAPE"), Failure("INVALID_UTF8")}
      BY <3>2 DEF Failure
    <3>3. (r \in {Success(t) : t \in Seq(Byte)}) => (\E t \in Seq(Byte) : r = Success(t))
      OBVIOUS
    <3> QED
      BY <1>1, <3>1, <3>2, <3>3 DEF Outcomes
  <2> QED
    BY <1>1, <2>1, OutcomeFacts
<1>4. <<>> \in Seq(Byte)
  OBVIOUS
<1>5. CASE a = r
  <2>1. a \in Answers(r, cap, IF r.status \in {"INVALID_ESCAPE", "INVALID_UTF8"}
                              THEN Len(input) + 1 ELSE 0)
    BY <1>2, <1>3, <1>5 DEF Answers
  <2> QED
    BY <1>3, <1>5, <2>1 DEF r
<1>6. CASE a = Failure("BUFFER_TOO_SMALL")
  <2>1. a \in Answers(r, cap, IF r.status \in {"INVALID_ESCAPE", "INVALID_UTF8"}
                              THEN Len(input) + 1 ELSE 0)
    BY <1>2, <1>3, <1>6 DEF Answers
  <2>2. a.status = "BUFFER_TOO_SMALL" /\ a.text = <<>> /\ a = [status |-> a.status, text |-> a.text]
    BY <1>6 DEF Failure
  <2> QED
    BY <1>4, <2>1, <2>2 DEF r
<1> QED
  BY <1>2, <1>5, <1>6 DEF Answers

\* free() keeps the two pointers what they can be, and a null pointer null
LEMMA FreeType ==
  ASSUME heap \in [Pointers -> {"unset", "null", "live", "freed", "misused"}], Free(Released)
  PROVE  /\ heap' \in [Pointers -> {"unset", "null", "live", "freed", "misused"}]
         /\ \A p \in Pointers : heap[p] = "null" => heap'[p] = "null"
  BY DEF Free, Released, Pointers

\* a step inside the function
LEMMA InsideStep ==
  ASSUME ProfileInv, UNCHANGED <<op, input, marker, cap, sent>>, pc' # "done"
  PROVE  EncodedInv' /\ DecodedInv' /\ SentInv'
  BY DEF ProfileInv, EncodedInv, DecodedInv, SentInv

\* a return of def_encode_profile
LEMMA EncodeReturns ==
  ASSUME ProfileInv, UNCHANGED <<op, input, marker, cap, sent>>, pc' = "done", op = "encode",
         LET r == EncodeProfile(input, marker) IN
         \/ status' = "BUFFER_TOO_SMALL" /\ output' = <<>> /\ ValidMarker(marker) /\ OutOfSpace'
         \/ status' = r.status /\ output' = r.text /\ (status' = "OK" => Len(r.text) < cap)
  PROVE  WorkInv' /\ EncodedInv' /\ DecodedInv' /\ SentInv'
  BY DEF ProfileInv, WorkInv, EncodedInv, DecodedInv, SentInv

\* EnterEncode: the marker and the capacity are checked.
LEMMA EnterEncodeStep ==
  ASSUME ProfileInv, EnterEncode
  PROVE  TypeOK' /\ WorkInv' /\ EncodedInv' /\ DecodedInv' /\ SentInv'
<1>1. TypeOK /\ Len(input) \in Nat /\ SizeMax \in Nat
  BY CallTypes, CallsAssumption DEF ProfileInv
<1>2. /\ UNCHANGED <<op, input, marker, cap, sent>> /\ UNCHANGED <<heap, core, canonical, output, length>>
      /\ op = "encode" /\ pc = "enter" /\ output = <<>> /\ status = "PENDING"
  BY DEF EnterEncode, call, ProfileInv, WorkInv
<1>3. CASE ~ValidMarker(marker)
  <2>1. pc' = "done" /\ status' = "INVALID_ENCODING" /\ temporary' = temporary
    BY <1>3 DEF EnterEncode, Return
  <2>2. EncodeProfile(input, marker) = Failure("INVALID_ENCODING")
    BY <1>3 DEF EncodeProfile
  <2>3. WorkInv' /\ EncodedInv' /\ DecodedInv' /\ SentInv'
    BY <1>2, <2>1, <2>2, EncodeReturns DEF Failure
  <2> QED
    BY <1>1, <1>2, <2>1, <2>3 DEF TypeOK
<1>4. CASE ValidMarker(marker) /\ Overflows(Len(input))
  <2>1. pc' = "done" /\ status' = "BUFFER_TOO_SMALL" /\ temporary' = temporary
    BY <1>4 DEF EnterEncode, Return
  <2>2. OutOfSpace'
    BY <1>2, <1>4 DEF OutOfSpace
  <2>3. WorkInv' /\ EncodedInv' /\ DecodedInv' /\ SentInv'
    BY <1>2, <1>4, <2>1, <2>2, EncodeReturns
  <2> QED
    BY <1>1, <1>2, <2>1, <2>3 DEF TypeOK
<1>5. CASE ValidMarker(marker) /\ ~Overflows(Len(input))
  <2>1. pc' = "malloc" /\ status' = status /\ temporary' = 3 * Len(input) + 1
    BY <1>1, <1>5 DEF EnterEncode, EncodedCapacity
  <2>2. temporary' \in 0..SizeMax
    <3> DEFINE n == Len(input)
    <3>1. n \in Nat /\ ~(n > (SizeMax - 1) \div 3)
      BY <1>1, <1>5 DEF Overflows
    <3> HIDE DEF n
    <3>2. 3 * n + 1 \in 0..SizeMax
      BY <1>1, <3>1
    <3> QED
      BY <2>1, <3>2 DEF n
  <2>3. EncodedInv' /\ DecodedInv' /\ SentInv'
    BY <1>2, <2>1, InsideStep
  <2>4. WorkInv'
    BY <1>2, <1>5, <2>1 DEF WorkInv
  <2>5. TypeOK'
    BY <1>1, <1>2, <2>1, <2>2 DEF TypeOK
  <2> QED
    BY <2>3, <2>4, <2>5
<1> QED
  BY <1>3, <1>4, <1>5

\* Malloc: both buffers, or the exit that frees them.
LEMMA MallocStep ==
  ASSUME ProfileInv, Malloc
  PROVE  TypeOK' /\ WorkInv' /\ EncodedInv' /\ DecodedInv' /\ SentInv'
<1>1. /\ UNCHANGED <<op, input, marker, cap, sent>> /\ pc = "malloc"
      /\ UNCHANGED <<temporary, core, canonical, output, status, length>>
      /\ heap' \in [Pointers -> {"live", "null"}]
      /\ pc' \in {"release", "body"}
      /\ pc' = "release" => \E p \in Pointers : heap'[p] = "null"
  BY DEF Malloc, call, result
<1>2. EncodedInv' /\ DecodedInv' /\ SentInv'
  BY <1>1, InsideStep
<1>3. TypeOK'
  BY <1>1 DEF ProfileInv, TypeOK
<1>4. WorkInv'
  BY <1>1 DEF ProfileInv, WorkInv
<1> QED
  BY <1>2, <1>3, <1>4

\* Release: a malloc failed, and its null pointer shows it did.
LEMMA ReleaseStep ==
  ASSUME ProfileInv, Release
  PROVE  TypeOK' /\ WorkInv' /\ EncodedInv' /\ DecodedInv' /\ SentInv'
<1>1. /\ UNCHANGED <<op, input, marker, cap, sent>> /\ pc = "release" /\ pc' = "done"
      /\ UNCHANGED <<temporary, core, canonical, output, length>>
      /\ Free(Released) /\ status' = "BUFFER_TOO_SMALL"
  BY DEF Release, call, Return
<1>2. /\ heap' \in [Pointers -> {"unset", "null", "live", "freed", "misused"}]
      /\ \E p \in Pointers : heap'[p] = "null"
  BY <1>1, FreeType DEF ProfileInv, TypeOK, WorkInv
<1>3. op = "encode" /\ output' = <<>> /\ ValidMarker(marker)
  BY <1>1 DEF ProfileInv, BoundsInv, WorkInv
<1>4. OutOfSpace'
  BY <1>2 DEF OutOfSpace
<1>5. WorkInv' /\ EncodedInv' /\ DecodedInv' /\ SentInv'
  BY <1>1, <1>3, <1>4, EncodeReturns
<1> QED
  BY <1>1, <1>2, <1>5 DEF ProfileInv, TypeOK

\* EncodeToCore: the first buffer holds the body, or the text is refused.
LEMMA EncodeToCoreStep ==
  ASSUME ProfileInv, EncodeToCore(CoreAnswers(EncodeBody(input)))
  PROVE  TypeOK' /\ WorkInv' /\ EncodedInv' /\ DecodedInv' /\ SentInv'
<1> DEFINE body == EncodeBody(input)
<1>1. PICK a \in CoreAnswers(body) :
        /\ core' = a.text
        /\ IF a.status # "OK" THEN Return(a.status) /\ Free(Released)
           ELSE IF BadEdges(a.text) THEN Return("INVALID_ENCODING") /\ Free(Released)
           ELSE pc' = "choose" /\ UNCHANGED <<heap, status>>
  BY DEF EncodeToCore
<1>2. /\ UNCHANGED <<op, input, marker, cap, sent>> /\ pc = "body"
      /\ UNCHANGED <<temporary, canonical, output, length>>
  BY DEF EncodeToCore, call
<1>3. /\ op = "encode" /\ output = <<>> /\ ValidMarker(marker) /\ ~Overflows(Len(input))
      /\ temporary = 3 * Len(input) + 1 /\ TypeOK /\ status = "PENDING"
  BY <1>2 DEF ProfileInv, BoundsInv, WorkInv
<1>4. body \in Seq(Byte) /\ Len(body) <= 3 * Len(input)
  BY <1>3, EncodedBodies
<1> HIDE DEF body
<1>5. a = Encoded(input, body)
  BY <1>3, <1>4, CoreNeverRefused
<1>6. Free(Released) => heap' \in [Pointers -> {"unset", "null", "live", "freed", "misused"}]
  BY <1>3, FreeType DEF TypeOK
<1>7. CASE ~Utf8Validate(input)
  <2>1. a.status = "INVALID_UTF8" /\ a.text = <<>>
    BY <1>5, <1>7 DEF Encoded, Failure
  <2>2. pc' = "done" /\ status' = "INVALID_UTF8" /\ core' = <<>> /\ Free(Released)
    BY <1>1, <2>1 DEF Return
  <2>3. EncodeProfile(input, marker) = Failure("INVALID_UTF8")
    BY <1>3, <1>7 DEF EncodeProfile
  <2>4. WorkInv' /\ EncodedInv' /\ DecodedInv' /\ SentInv'
    BY <1>2, <1>3, <2>2, <2>3, EncodeReturns DEF Failure
  <2>5. <<>> \in Seq(Byte)
    OBVIOUS
  <2> QED
    BY <1>2, <1>3, <1>6, <2>2, <2>4, <2>5 DEF TypeOK
<1>8. CASE Utf8Validate(input) /\ BadEdges(body)
  <2>1. a.status = "OK" /\ a.text = body
    BY <1>5, <1>8 DEF Encoded, Success
  <2>2. pc' = "done" /\ status' = "INVALID_ENCODING" /\ core' = body /\ Free(Released)
    BY <1>1, <1>8, <2>1 DEF Return
  <2>3. EncodeProfile(input, marker) = Failure("INVALID_ENCODING")
    BY <1>3, <1>8 DEF EncodeProfile, LabelOf, body
  <2>4. WorkInv' /\ EncodedInv' /\ DecodedInv' /\ SentInv'
    BY <1>2, <1>3, <2>2, <2>3, EncodeReturns DEF Failure
  <2> QED
    BY <1>2, <1>3, <1>4, <1>6, <2>2, <2>4 DEF TypeOK
<1>9. CASE Utf8Validate(input) /\ ~BadEdges(body)
  <2>1. a.status = "OK" /\ a.text = body
    BY <1>5, <1>9 DEF Encoded, Success
  <2>2. pc' = "choose" /\ status' = status /\ heap' = heap /\ core' = body
    BY <1>1, <1>9, <2>1
  <2>3. EncodedInv' /\ DecodedInv' /\ SentInv'
    BY <1>2, <2>2, InsideStep
  <2>4. WorkInv'
    BY <1>2, <1>3, <1>9, <2>2 DEF WorkInv, body
  <2>5. TypeOK'
    BY <1>2, <1>3, <1>4, <2>2 DEF TypeOK
  <2> QED
    BY <2>3, <2>4, <2>5
<1> QED
  BY <1>7, <1>8, <1>9

\* RefuseCore: the body is the label, and there is no room for it.
LEMMA RefuseCoreStep ==
  ASSUME ProfileInv, RefuseCore
  PROVE  TypeOK' /\ WorkInv' /\ EncodedInv' /\ DecodedInv' /\ SentInv'
<1>1. /\ UNCHANGED <<op, input, marker, cap, sent>> /\ pc = "choose" /\ pc' = "done"
      /\ UNCHANGED <<temporary, core, canonical, output, length>> /\ Free(Released)
      /\ Reversible /\ ~LabelFits(Len(core)) /\ status' = "BUFFER_TOO_SMALL"
  BY DEF RefuseCore, call, Return
<1>2. /\ op = "encode" /\ output = <<>> /\ ValidMarker(marker) /\ TypeOK
      /\ Utf8Validate(input) /\ core = EncodeBody(input) /\ ~BadEdges(core)
  BY <1>1 DEF ProfileInv, BoundsInv, WorkInv
<1>3. Len(core) \in Nat /\ cap \in Nat
  BY <1>2, CallTypes DEF TypeOK
<1>4. EncodeProfile(input, marker) = Success(core)
  BY <1>1, <1>2 DEF EncodeProfile, LabelOf, Reversible
<1>5. Len(core) >= cap
  BY <1>1, <1>3 DEF LabelFits
<1>6. OutOfSpace'
  BY <1>1, <1>4, <1>5 DEF OutOfSpace, Success
<1>7. WorkInv' /\ EncodedInv' /\ DecodedInv' /\ SentInv'
  BY <1>1, <1>2, <1>6, EncodeReturns
<1>8. heap' \in [Pointers -> {"unset", "null", "live", "freed", "misused"}]
  BY <1>1, <1>2, FreeType DEF TypeOK
<1> QED
  BY <1>1, <1>2, <1>7, <1>8 DEF TypeOK

\* CopyCore: the body is in the caller's buffer.
LEMMA CopyCoreStep ==
  ASSUME ProfileInv, CopyCore
  PROVE  TypeOK' /\ WorkInv' /\ EncodedInv' /\ DecodedInv' /\ SentInv'
<1>1. /\ UNCHANGED <<op, input, marker, cap, sent>> /\ pc = "choose" /\ pc' = "copied"
      /\ UNCHANGED <<temporary, heap, core, canonical, status>>
      /\ Reversible /\ LabelFits(Len(core)) /\ output' = core /\ length' = Len(core)
  BY DEF CopyCore, call, locals
<1>2. TypeOK /\ WorkInv /\ core \in Seq(Byte) /\ Len(core) \in Nat
  BY DEF ProfileInv, TypeOK
<1>3. EncodedInv' /\ DecodedInv' /\ SentInv'
  BY <1>1, InsideStep
<1>4. WorkInv'
  BY <1>1, <1>2 DEF WorkInv, Reversible, LabelFits
<1>5. TypeOK'
  BY <1>1, <1>2 DEF TypeOK
<1> QED
  BY <1>3, <1>4, <1>5

\* EndCopy: the label that was copied is the answer.
LEMMA EndCopyStep ==
  ASSUME ProfileInv, EndCopy
  PROVE  TypeOK' /\ WorkInv' /\ EncodedInv' /\ DecodedInv' /\ SentInv'
<1>1. /\ UNCHANGED <<op, input, marker, cap, sent>> /\ pc = "copied" /\ pc' = "done"
      /\ UNCHANGED <<temporary, core, canonical, output, length>> /\ Free(Released)
      /\ status' = "OK"
  BY DEF EndCopy, call, Return
<1>2. /\ op = "encode" /\ ValidMarker(marker) /\ TypeOK
      /\ Utf8Validate(input) /\ core = EncodeBody(input) /\ ~BadEdges(core)
      /\ Reversible /\ LabelFits(Len(core)) /\ output = core
  BY <1>1 DEF ProfileInv, BoundsInv, WorkInv
<1>3. Len(core) \in Nat /\ cap \in Nat
  BY <1>2, CallTypes DEF TypeOK
<1>4. EncodeProfile(input, marker) = Success(core)
  BY <1>2 DEF EncodeProfile, LabelOf, Reversible
<1>5. Len(core) < cap
  BY <1>2, <1>3 DEF LabelFits
<1>6. WorkInv' /\ EncodedInv' /\ DecodedInv' /\ SentInv'
  BY <1>1, <1>2, <1>4, <1>5, EncodeReturns DEF Success
<1>7. heap' \in [Pointers -> {"unset", "null", "live", "freed", "misused"}]
  BY <1>1, <1>2, FreeType DEF TypeOK
<1> QED
  BY <1>1, <1>2, <1>6, <1>7 DEF TypeOK

\* EncodeToCanonical: the second buffer holds the hash input.
LEMMA EncodeToCanonicalStep ==
  ASSUME ProfileInv, EncodeToCanonical(CoreAnswers(HashInput))
  PROVE  TypeOK' /\ WorkInv' /\ EncodedInv' /\ DecodedInv' /\ SentInv'
<1> DEFINE text == EncodeComponent(input)
<1>1. PICK a \in CoreAnswers(text) :
        /\ canonical' = a.text
        /\ IF a.status = "OK" THEN pc' = "hash" /\ UNCHANGED <<heap, status>>
           ELSE Return(a.status) /\ Free(Released)
  BY DEF EncodeToCanonical, HashInput
<1>2. /\ UNCHANGED <<op, input, marker, cap, sent>> /\ pc = "choose" /\ ~Reversible
      /\ UNCHANGED <<temporary, core, output, length>>
  BY DEF EncodeToCanonical, call
<1>3. /\ op = "encode" /\ output = <<>> /\ ValidMarker(marker) /\ ~Overflows(Len(input))
      /\ temporary = 3 * Len(input) + 1 /\ TypeOK /\ status = "PENDING"
      /\ Utf8Validate(input) /\ core = EncodeBody(input) /\ ~BadEdges(core)
  BY <1>2 DEF ProfileInv, BoundsInv, WorkInv
<1>4. text \in Seq(Byte) /\ Len(text) <= 3 * Len(input)
  BY <1>3, EncodedBodies
<1> HIDE DEF text
<1>5. a = Encoded(input, text)
  BY <1>3, <1>4, CoreNeverRefused
<1>6. a.status = "OK" /\ a.text = text
  BY <1>3, <1>5 DEF Encoded, Success
<1>7. pc' = "hash" /\ status' = status /\ heap' = heap /\ canonical' = text
  BY <1>1, <1>6
<1>8. EncodedInv' /\ DecodedInv' /\ SentInv'
  BY <1>2, <1>7, InsideStep
<1>9. WorkInv'
  BY <1>2, <1>3, <1>7 DEF WorkInv, Reversible, text
<1>10. TypeOK'
  BY <1>2, <1>3, <1>4, <1>7 DEF TypeOK
<1> QED
  BY <1>8, <1>9, <1>10

\* HashCanonical: the label is the marker and the digest; it is never too long.
LEMMA HashCanonicalStep ==
  ASSUME ProfileInv, HashCanonical
  PROVE  TypeOK' /\ WorkInv' /\ EncodedInv' /\ DecodedInv' /\ SentInv'
<1> DEFINE d == Digest(canonical)
           l == marker \o d
           n == Len(marker) + HashBodyLength
<1>1. /\ UNCHANGED <<op, input, marker, cap, sent>> /\ pc = "hash" /\ pc' = "done"
      /\ UNCHANGED <<temporary, core, canonical>> /\ Free(Released)
      /\ \/ n > MaxLabelLength
         \/ ~LabelFits(n) /\ status' = "BUFFER_TOO_SMALL" /\ UNCHANGED <<output, length>>
         \/ LabelFits(n) /\ status' = "OK" /\ output' = l /\ length' = Len(l)
  BY DEF HashCanonical, call, Deliver, Refuse, Return
<1>2. /\ op = "encode" /\ output = <<>> /\ ValidMarker(marker) /\ TypeOK
      /\ Utf8Validate(input) /\ core = EncodeBody(input) /\ ~BadEdges(core)
      /\ ~Reversible /\ canonical = EncodeComponent(input) /\ input \in Texts
  BY <1>1 DEF ProfileInv, BoundsInv, WorkInv
<1>3. d \in Seq(Byte) /\ Len(d) = HashBodyLength
  BY <1>2, DigestAssumption DEF IsDigest
<1>4. marker \in Seq(Byte) /\ Len(marker) \in Nat /\ cap \in Nat
  BY <1>2, CallTypes
<1> HIDE DEF d
<1>5. l \in Seq(Byte) /\ Len(l) = n
  BY <1>3, <1>4, ConcatProperties
<1>6. n \in Nat /\ n <= MaxLabelLength
  BY <1>2, <1>4, LengthsAssumption DEF ValidMarker
<1>7. EncodeProfile(input, marker) = Success(l)
  BY <1>2, <1>5, <1>6, LengthsAssumption DEF EncodeProfile, LabelOf, Reversible, d
<1>8. heap' \in [Pointers -> {"unset", "null", "live", "freed", "misused"}]
  BY <1>1, <1>2, FreeType DEF TypeOK
<1> HIDE DEF l
<1>9. ~(n > MaxLabelLength)
  BY <1>6, LengthsAssumption
<1> HIDE DEF n
<1>10. CASE LabelFits(n) /\ status' = "OK" /\ output' = l /\ length' = Len(l)
  <2>1. Len(l) < cap
    BY <1>4, <1>5, <1>6, <1>10 DEF LabelFits
  <2>2. WorkInv' /\ EncodedInv' /\ DecodedInv' /\ SentInv'
    BY <1>1, <1>2, <1>7, <1>10, <2>1, EncodeReturns DEF Success
  <2>3. Len(l) \in Nat
    BY <1>5, <1>6
  <2> QED
    BY <1>1, <1>2, <1>5, <1>8, <1>10, <2>2, <2>3 DEF TypeOK
<1>11. CASE ~LabelFits(n) /\ status' = "BUFFER_TOO_SMALL" /\ UNCHANGED <<output, length>>
  <2>1. Len(l) >= cap
    BY <1>4, <1>5, <1>6, <1>11 DEF LabelFits
  <2>2. OutOfSpace'
    BY <1>1, <1>7, <2>1 DEF OutOfSpace, Success
  <2>3. WorkInv' /\ EncodedInv' /\ DecodedInv' /\ SentInv'
    BY <1>1, <1>2, <1>11, <2>2, EncodeReturns
  <2> QED
    BY <1>1, <1>2, <1>8, <1>11, <2>3 DEF TypeOK
<1> QED
  BY <1>1, <1>9, <1>10, <1>11

-----------------------------------------------------------------------------
\* a return of def_decode_profile
LEMMA DecodeReturns ==
  ASSUME ProfileInv, UNCHANGED <<op, input, marker, cap, sent>>, pc' = "done", op = "decode",
         LET r == DecodeProfile(input, marker) IN
         [status |-> status', text |-> output']
           \in Answers(r, cap, IF r.status \in {"INVALID_ESCAPE", "INVALID_UTF8"}
                               THEN Len(input) + 1 ELSE 0)
  PROVE  WorkInv' /\ EncodedInv' /\ DecodedInv' /\ SentInv'
  BY DEF ProfileInv, WorkInv, EncodedInv, DecodedInv, SentInv

\* an error that def_decode_profile finds itself
LEMMA DecodeRefuses ==
  ASSUME ProfileInv, UNCHANGED <<op, input, marker, cap, sent>>, UNCHANGED <<locals, output, length>>,
         pc # "done", pc' = "done", op = "decode",
         status' \in {"LABEL_TOO_LONG", "INVALID_ENCODING", "NOT_DECODABLE"},
         DecodeProfile(input, marker) = Failure(status')
  PROVE  TypeOK' /\ WorkInv' /\ EncodedInv' /\ DecodedInv' /\ SentInv'
<1>1. output' = <<>>
  BY DEF ProfileInv, BoundsInv, WorkInv
<1>2. [status |-> status', text |-> output'] = DecodeProfile(input, marker)
  BY <1>1 DEF Failure
<1>3. DecodeProfile(input, marker).status # "OK"
  BY DEF Failure
<1>4. WorkInv' /\ EncodedInv' /\ DecodedInv' /\ SentInv'
  BY <1>2, <1>3, DecodeReturns DEF Answers
<1> QED
  BY <1>4 DEF ProfileInv, TypeOK, locals

\* EnterDecode: the marker is checked first.
LEMMA EnterDecodeStep ==
  ASSUME ProfileInv, EnterDecode
  PROVE  TypeOK' /\ WorkInv' /\ EncodedInv' /\ DecodedInv' /\ SentInv'
<1>1. /\ UNCHANGED <<op, input, marker, cap, sent>> /\ UNCHANGED <<locals, output, length>>
      /\ op = "decode" /\ pc = "enter"
      /\ IF ValidMarker(marker) THEN pc' = "dispatch" /\ UNCHANGED status
         ELSE pc' = "done" /\ status' = "INVALID_ENCODING"
  BY DEF EnterDecode, call, Return
<1>2. CASE ValidMarker(marker)
  <2>1. EncodedInv' /\ DecodedInv' /\ SentInv'
    BY <1>1, <1>2, InsideStep
  <2>2. WorkInv'
    BY <1>1, <1>2 DEF ProfileInv, WorkInv
  <2>3. TypeOK'
    BY <1>1, <1>2 DEF ProfileInv, TypeOK, locals
  <2> QED
    BY <2>1, <2>2, <2>3
<1>3. CASE ~ValidMarker(marker)
  <2>1. DecodeProfile(input, marker) = Failure("INVALID_ENCODING")
    BY <1>3 DEF DecodeProfile, Dispatched
  <2> QED
    BY <1>1, <1>3, <2>1, DecodeRefuses
<1> QED
  BY <1>2, <1>3

\* DecodeHashed: a label with the marker is refused.
LEMMA DecodeHashedStep ==
  ASSUME ProfileInv, DecodeHashed
  PROVE  TypeOK' /\ WorkInv' /\ EncodedInv' /\ DecodedInv' /\ SentInv'
<1>1. /\ UNCHANGED <<op, input, marker, cap, sent>> /\ UNCHANGED <<locals, output, length>>
      /\ pc = "dispatch" /\ pc' = "done" /\ IsPrefix(marker, input)
      /\ status' = HashLabelError(input, marker)
  BY DEF DecodeHashed, call, Return, HashLabelError
<1>2. op = "decode" /\ ValidMarker(marker)
  BY <1>1 DEF ProfileInv, BoundsInv, WorkInv
<1>3. status' \in {"INVALID_ENCODING", "NOT_DECODABLE"}
  BY <1>1 DEF HashLabelError
<1>4. DecodeProfile(input, marker) = Failure(status')
  BY <1>1, <1>2 DEF DecodeProfile, Dispatched
<1> QED
  BY <1>1, <1>2, <1>3, <1>4, DecodeRefuses

\* DecodeReversible: any other label is decoded as a body.
LEMMA DecodeReversibleStep ==
  ASSUME ProfileInv, DecodeReversible(Answers(DecodeBody(input), cap, Len(input) + 1))
  PROVE  TypeOK' /\ WorkInv' /\ EncodedInv' /\ DecodedInv' /\ SentInv'
<1>1. /\ UNCHANGED <<op, input, marker, cap, sent>> /\ UNCHANGED locals
      /\ pc = "dispatch" /\ pc' = "done" /\ ~IsPrefix(marker, input)
  BY DEF DecodeReversible, call, Deliver, Refuse, Return
<1>2. op = "decode" /\ ValidMarker(marker) /\ TypeOK /\ output = <<>>
  BY <1>1 DEF ProfileInv, BoundsInv, WorkInv
<1>3. DecodeProfile(input, marker) = LengthThenEdges(input, DecodeBody(input))
  BY <1>1, <1>2 DEF DecodeProfile, Dispatched
<1>4. CASE Len(input) > MaxLabelLength
  <2>1. status' = "LABEL_TOO_LONG" /\ UNCHANGED <<output, length>>
    BY <1>4 DEF DecodeReversible, Refuse, Return
  <2>2. DecodeProfile(input, marker) = Failure(status')
    BY <1>3, <1>4, <2>1 DEF LengthThenEdges
  <2> QED
    BY <1>1, <1>2, <2>1, <2>2, DecodeRefuses
<1>5. CASE ~(Len(input) > MaxLabelLength) /\ BadEdges(input)
  <2>1. status' = "INVALID_ENCODING" /\ UNCHANGED <<output, length>>
    BY <1>5 DEF DecodeReversible, Refuse, Return
  <2>2. DecodeProfile(input, marker) = Failure(status')
    BY <1>3, <1>5, <2>1 DEF LengthThenEdges
  <2> QED
    BY <1>1, <1>2, <2>1, <2>2, DecodeRefuses
<1>6. CASE ~(Len(input) > MaxLabelLength) /\ ~BadEdges(input)
  <2>1. PICK a \in Answers(DecodeBody(input), cap, Len(input) + 1) :
          IF a.status = "OK" THEN Deliver(a.text) ELSE Refuse(a.status)
    BY <1>6 DEF DecodeReversible
  <2> DEFINE r == DecodeBody(input)
  <2>2. DecodeProfile(input, marker) = r
    BY <1>3, <1>6 DEF LengthThenEdges
  <2>3. /\ a \in Answers(r, cap, IF r.status \in {"INVALID_ESCAPE", "INVALID_UTF8"}
                                 THEN Len(input) + 1 ELSE 0)
        /\ a = [status |-> a.status, text |-> a.text]
        /\ a.status \in {"OK", "INVALID_ESCAPE", "INVALID_UTF8", "BUFFER_TOO_SMALL"}
        /\ a.text \in Seq(Byte) /\ (a.status # "OK" => a.text = <<>>)
    BY <1>2, <2>1, DecodeAnswers
  <2> HIDE DEF r
  <2>4. status' = a.status /\ output' = a.text /\ length' \in {length, Len(a.text)}
    BY <1>2, <2>1, <2>3 DEF Deliver, Refuse, Return
  <2>5. Len(a.text) \in Nat
    BY <2>3
  <2>6. [status |-> status', text |-> output']
          \in Answers(r, cap, IF r.status \in {"INVALID_ESCAPE", "INVALID_UTF8"}
                              THEN Len(input) + 1 ELSE 0)
    BY <2>3, <2>4
  <2>7. WorkInv' /\ EncodedInv' /\ DecodedInv' /\ SentInv'
    BY <1>1, <1>2, <2>2, <2>6, DecodeReturns
  <2>8. TypeOK'
    BY <1>1, <1>2, <2>3, <2>4, <2>5 DEF TypeOK, locals
  <2> QED
    BY <2>7, <2>8
<1> QED
  BY <1>4, <1>5, <1>6

\* Send: the label that was returned becomes the input.
LEMMA SendStep ==
  ASSUME ProfileInv, Send
  PROVE  TypeOK' /\ WorkInv' /\ EncodedInv' /\ DecodedInv' /\ SentInv'
<1>1. /\ pc = "done" /\ op = "encode" /\ status = "OK" /\ TypeOK
      /\ input \in Texts /\ marker \in Markers
  BY DEF Send, ProfileInv, BoundsInv
<1>2. /\ sent' = [text |-> input, marker |-> marker] /\ op' = "decode" /\ input' = output
      /\ marker' = marker /\ cap' \in Capacities /\ pc' = "enter" /\ temporary' = 0
      /\ heap' = [p \in Pointers |-> "unset"] /\ core' = <<>> /\ canonical' = <<>>
      /\ output' = <<>> /\ status' = "PENDING" /\ length' = NotSet
  BY DEF Send
<1>3. /\ EncodeProfile(input, marker).status = "OK"
      /\ output = EncodeProfile(input, marker).text
  BY <1>1 DEF ProfileInv, EncodedInv
<1>4. EncodeProfile(input, marker) = Success(output) /\ output \in Seq(Byte \ {NUL})
  BY <1>1, <1>3, EncodedLabel
<1>5. SentInv'
  BY <1>1, <1>2, <1>4 DEF SentInv
<1>6. WorkInv' /\ EncodedInv' /\ DecodedInv'
  BY <1>2 DEF WorkInv, EncodedInv, DecodedInv
<1>7. <<>> \in Seq(Byte) /\ SizeMax \in Nat
  BY CallsAssumption
<1>8. TypeOK'
  BY <1>1, <1>2, <1>4, <1>7 DEF TypeOK, Pointers
<1> QED
  BY <1>5, <1>6, <1>8

-----------------------------------------------------------------------------
\* The invariant holds when a function is entered.
LEMMA ProfileInit ==
  ASSUME Init
  PROVE  ProfileInv
<1>1. /\ op \in {"encode", "decode"} /\ input \in Texts \cup Labels
      /\ op = "encode" => input \in Texts
      /\ marker \in Markers /\ cap \in Capacities /\ pc = "enter" /\ temporary = 0
      /\ heap = [p \in Pointers |-> "unset"] /\ core = <<>> /\ canonical = <<>>
      /\ output = <<>> /\ status = "PENDING" /\ length = NotSet /\ sent = Nothing
  BY DEF Init
<1>2. <<>> \in Seq(Byte) /\ SizeMax \in Nat /\ input \in Seq(Byte \ {NUL})
  BY <1>1, CallsAssumption
<1>3. TypeOK
  BY <1>1, <1>2 DEF TypeOK, Pointers
<1>4. HeapInv
  BY <1>1 DEF HeapInv
<1>5. BoundsInv
  BY <1>1 DEF BoundsInv, LabelBounds
<1>6. WorkInv /\ EncodedInv /\ DecodedInv /\ SentInv
  BY <1>1 DEF WorkInv, EncodedInv, DecodedInv, SentInv
<1> QED
  BY <1>3, <1>4, <1>5, <1>6 DEF ProfileInv

\* Every step keeps it.
LEMMA ProfileStep ==
  ASSUME ProfileInv, [Step \/ Send]_vars
  PROVE  ProfileInv'
<1>1. HeapInv' /\ BoundsInv'
  BY HeapStep, BoundsStep DEF ProfileInv
<1>2. CASE Step \/ Send
  <2>1. TypeOK' /\ WorkInv' /\ EncodedInv' /\ DecodedInv' /\ SentInv'
    BY <1>2, EnterEncodeStep, MallocStep, ReleaseStep, EncodeToCoreStep,
       RefuseCoreStep, CopyCoreStep, EndCopyStep,
       EncodeToCanonicalStep, HashCanonicalStep, EnterDecodeStep, DecodeHashedStep,
       DecodeReversibleStep, SendStep DEF Step
  <2> QED
    BY <1>1, <2>1 DEF ProfileInv
<1>3. CASE UNCHANGED vars
  <2>1. UNCHANGED <<op, input, marker, cap, pc, temporary, heap, core, canonical,
                    output, status, length, sent>>
    BY <1>3 DEF vars, call, locals, result
  <2>2. TypeOK' /\ WorkInv'
    BY <2>1 DEF ProfileInv, TypeOK, WorkInv, Reversible, LabelFits
  <2>3. EncodedInv' /\ DecodedInv' /\ SentInv'
    BY <2>1 DEF ProfileInv, EncodedInv, DecodedInv, SentInv, OutOfSpace
  <2> QED
    BY <1>1, <2>2, <2>3 DEF ProfileInv
<1> QED
  BY <1>2, <1>3

\* The inductive invariant of the two profile functions.
LEMMA ProfileInvariant == Spec => []ProfileInv
<1>1. Init => ProfileInv
  BY ProfileInit
<1>2. ProfileInv /\ [Step \/ Send]_vars => ProfileInv'
  BY ProfileStep
<1> QED
  BY <1>1, <1>2, PTL DEF Spec

\* TypeOK: the temporary capacity is a size_t, texts are bytes, statuses are
\* those of def.h.
THEOREM ProfileTypes == Spec => []TypeOK
<1>1. ProfileInv => TypeOK
  BY DEF ProfileInv
<1> QED
  BY <1>1, ProfileInvariant, PTL

\* the outcomes of def_encode_profile
LEMMA EncodeProfileOutcomes ==
  ASSUME NEW s, NEW m
  PROVE  LET r == EncodeProfile(s, m) IN
         /\ r.status \in {"OK", "INVALID_ENCODING", "INVALID_UTF8", "LABEL_TOO_LONG"}
         /\ r = IF r.status = "OK" THEN Success(r.text) ELSE Failure(r.status)
<1> DEFINE r == EncodeProfile(s, m)
<1>1. \/ \E t : r = Success(t)
      \/ \E e \in {"INVALID_ENCODING", "INVALID_UTF8", "LABEL_TOO_LONG"} : r = Failure(e)
  BY DEF EncodeProfile, LabelOf
<1> HIDE DEF r
<1>2. CASE \E t : r = Success(t)
  BY <1>2 DEF Success, r
<1>3. CASE \E e \in {"INVALID_ENCODING", "INVALID_UTF8", "LABEL_TOO_LONG"} : r = Failure(e)
  BY <1>3 DEF Failure, r
<1> QED
  BY <1>1, <1>2, <1>3

\* what is known of an encoding that returned a label
LEMMA Delivered ==
  ASSUME ProfileInv, op = "encode", status = "OK"
  PROVE  /\ pc = "done" /\ input \in Texts /\ marker \in Markers
         /\ EncodeProfile(input, marker).status = "OK"
         /\ output = EncodeProfile(input, marker).text
<1>1. pc = "done" /\ input \in Texts /\ marker \in Markers
  BY DEF ProfileInv, BoundsInv
<1>2. /\ EncodeProfile(input, marker).status = "OK"
      /\ output = EncodeProfile(input, marker).text
  BY <1>1 DEF ProfileInv, EncodedInv
<1> QED
  BY <1>1, <1>2

\* What ProfileInv says of the shape of a delivered label.
LEMMA LabelShapeHolds == ProfileInv => LabelShape
<1> SUFFICES ASSUME ProfileInv, op = "encode", status = "OK"
             PROVE  /\ \A j \in DOMAIN output : IsLiteralByte(output[j]) \/ output[j] = HYPHEN
                    /\ output # <<>> /\ output[Len(output)] # HYPHEN
                    /\ output[1] = HYPHEN => IsPrefix(marker, output)
  BY DEF LabelShape
<1>1. /\ output \in Seq(Byte \ {NUL}) /\ Spelled(output) /\ output # <<>>
      /\ output[Len(output)] # HYPHEN /\ (output[1] = HYPHEN => IsPrefix(marker, output))
  BY Delivered, EncodedLabel
<1>2. DOMAIN output = 1..Len(output)
  BY <1>1
<1> QED
  BY <1>1, <1>2 DEF Spelled

\* LabelShape: every label def_encode_profile returns is spelled in lower case
\* letters, digits and hyphens, is not empty, does not end in a hyphen, and
\* begins with one only with the marker (def.c:583-630).
THEOREM LabelsWellFormed == Spec => []LabelShape
  BY LabelShapeHolds, ProfileInvariant, PTL

\* What ProfileInv says of a refusal for space.
LEMMA RefusedForSpaceHolds == ProfileInv => RefusedForSpace
<1> SUFFICES ASSUME ProfileInv, op = "encode", status = "BUFFER_TOO_SMALL"
             PROVE  OutOfSpace
  BY DEF RefusedForSpace, OutOfSpace
<1>1. pc = "done"
  BY DEF ProfileInv, WorkInv
<1>2. EncodeProfile(input, marker).status # "BUFFER_TOO_SMALL"
  BY EncodeProfileOutcomes
<1> QED
  BY <1>1, <1>2 DEF ProfileInv, EncodedInv

\* RefusedForSpace: the temporary buffers are always large enough, so a text is
\* refused for space only for the reasons the caller can see (def.c:390-396).
THEOREM RefusedOnlyForSpace == Spec => []RefusedForSpace
  BY RefusedForSpaceHolds, ProfileInvariant, PTL

\* What ProfileInv says of a text in lower case.
LEMMA CaseBlindHolds == ProfileInv => CaseBlind
<1> SUFFICES ASSUME ProfileInv, op = "encode", status = "OK"
             PROVE  output = EncodeProfile(Lowercase(input), marker).text
  BY DEF CaseBlind
<1>1. /\ output = EncodeProfile(input, marker).text
      /\ input \in Seq(Byte) /\ Utf8Validate(input)
  BY Delivered, EncodedLabel, CallTypes DEF ProfileInv
<1> DEFINE l == Lowercase(input)
<1>2. /\ Utf8Validate(l) /\ EncodeBody(l) = EncodeBody(input)
      /\ EncodeComponent(l) = EncodeComponent(input)
  BY <1>1, ValidLowercase, SameRepresentation
<1> HIDE DEF l
<1>3. EncodeProfile(l, marker) = EncodeProfile(input, marker)
  BY <1>1, <1>2 DEF EncodeProfile
<1> QED
  BY <1>1, <1>3 DEF l

\* CaseBlind: texts that differ in ASCII case only get the same label, also
\* when it is the hash of the text that goes into it (def.c:592-617).
THEOREM CaseIsIgnored == Spec => []CaseBlind
  BY CaseBlindHolds, ProfileInvariant, PTL

\* what def_decode_profile defines for a label that was made for s
LEMMA DecodeLabel ==
  ASSUME NEW s \in Texts, NEW m \in Markers, NEW l, EncodeProfile(s, m) = Success(l)
  PROVE  DecodeProfile(l, m) = IF IsPrefix(m, l) THEN Failure("NOT_DECODABLE")
                               ELSE Success(Lowercase(s))
<1>1. EncodeProfile(s, m).status = "OK" /\ EncodeProfile(s, m).text = l
  BY DEF Success
<1>2. /\ ValidMarker(m) /\ Utf8Validate(s)
      /\ \/ l = EncodeBody(s) /\ ~IsPrefix(m, l) /\ Len(l) <= MaxLabelLength /\ ~BadEdges(l)
         \/ IsPrefix(m, l) /\ IsDigest(SubSeq(l, Len(m) + 1, Len(l)))
      /\ l \in Seq(Byte \ {NUL})
  BY <1>1, EncodedLabel
<1>3. CASE IsPrefix(m, l) /\ IsDigest(SubSeq(l, Len(m) + 1, Len(l)))
  BY <1>2, <1>3 DEF DecodeProfile, Dispatched, HashLabelError
<1>4. CASE l = EncodeBody(s) /\ ~IsPrefix(m, l) /\ Len(l) <= MaxLabelLength /\ ~BadEdges(l)
  <2>1. s \in Seq(Byte)
    <3>1. s \in Seq(Byte \ {NUL})
      BY CallsAssumption
    <3> QED
      BY <3>1
  <2>2. DecodeBody(l) = Success(Lowercase(s))
    BY <1>2, <1>4, <2>1, BodyRoundTrip
  <2>3. Len(l) \in Nat /\ MaxLabelLength \in Nat
    BY <1>2, LengthsAssumption
  <2>4. ~(Len(l) > MaxLabelLength)
    BY <1>4, <2>3
  <2> QED
    BY <1>2, <1>4, <2>2, <2>4 DEF DecodeProfile, Dispatched, LengthThenEdges
<1> QED
  BY <1>2, <1>3, <1>4

\* What ProfileInv says of a label that is decoded.
LEMMA LabelDecodesHolds == ProfileInv => LabelDecodes
<1> SUFFICES ASSUME ProfileInv, sent # Nothing, pc = "done"
             PROVE  IF IsPrefix(sent.marker, input) THEN status = "NOT_DECODABLE"
                    ELSE /\ status \in {"OK", "BUFFER_TOO_SMALL"}
                         /\ status = "OK" => output = Lowercase(sent.text)
  BY DEF LabelDecodes
<1> DEFINE s == sent.text
           r == DecodeProfile(input, marker)
<1>1. /\ op = "decode" /\ marker = sent.marker /\ s \in Texts /\ marker \in Markers
      /\ EncodeProfile(s, marker) = Success(input)
  BY DEF ProfileInv, SentInv, TypeOK
<1>2. r = IF IsPrefix(marker, input) THEN Failure("NOT_DECODABLE") ELSE Success(Lowercase(s))
  BY <1>1, DecodeLabel
<1>3. [status |-> status, text |-> output]
        \in Answers(r, cap, IF r.status \in {"INVALID_ESCAPE", "INVALID_UTF8"}
                            THEN Len(input) + 1 ELSE 0)
  BY <1>1 DEF ProfileInv, DecodedInv
<1>4. cap \in Nat
  BY CallTypes DEF ProfileInv
<1> HIDE DEF s, r
<1>5. CASE IsPrefix(marker, input)
  <2>1. r = Failure("NOT_DECODABLE") /\ r.status = "NOT_DECODABLE"
    BY <1>2, <1>5 DEF Failure
  <2>2. ~(cap < 0)
    BY <1>4
  <2>3. [status |-> status, text |-> output] = r
    BY <1>3, <2>1, <2>2 DEF Answers
  <2>4. status = "NOT_DECODABLE"
    BY <2>1, <2>3
  <2> QED
    BY <1>1, <1>5, <2>4
<1>6. CASE ~IsPrefix(marker, input)
  <2>1. r = Success(Lowercase(s)) /\ r.status = "OK" /\ r.text = Lowercase(s)
    BY <1>2, <1>6 DEF Success
  <2>2. [status |-> status, text |-> output] \in {r, Failure("BUFFER_TOO_SMALL")}
    BY <1>3, <2>1 DEF Answers
  <2>3. \/ status = "OK" /\ output = Lowercase(s)
        \/ status = "BUFFER_TOO_SMALL"
    BY <2>1, <2>2 DEF Failure
  <2> QED
    BY <1>1, <1>6, <2>3 DEF s
<1> QED
  BY <1>5, <1>6

\* LabelDecodes: a label that def_encode_profile returned is never rejected as
\* malformed: it is reported as a hash label, or decodes to the text in lower
\* case (def.c:561-671).
THEOREM LabelsDecode == Spec => []LabelDecodes
  BY LabelDecodesHolds, ProfileInvariant, PTL

-----------------------------------------------------------------------------
\* the safety part of ImplementsProfile
AnswersAsDefined ==
  Contract!Init /\ [][Contract!Answer \/ Contract!NewCall]_(Contract!contractVars)

\* when a call returns, the contract answers
LEMMA ReturnAnswers ==
  ASSUME ProfileInv, ProfileInv', UNCHANGED <<op, input, marker, cap>>,
         pc # "done", pc' = "done"
  PROVE  Contract!Answer
<1> DEFINE a == [status |-> status', text |-> output']
           e == EncodeProfile(input, marker)
           d == DecodeProfile(input, marker)
<1>1. Given = [status |-> "PENDING", text |-> <<>>]
  BY DEF ProfileInv, WorkInv, Given
<1>g. status' # "PENDING" => Given' = a
  BY DEF Given
<1>2. op \in {"encode", "decode"}
  BY DEF ProfileInv, TypeOK
<1>3. CASE op = "encode"
  <2>1. /\ op' = "encode" /\ input' = input /\ marker' = marker /\ cap' = cap /\ EncodedInv'
    BY <1>3 DEF ProfileInv
  <2>2. \/ status' = "BUFFER_TOO_SMALL" /\ output' = <<>> /\ ValidMarker(marker)
        \/ status' = e.status /\ output' = e.text /\ (status' = "OK" => Len(e.text) < cap)
    BY <2>1 DEF EncodedInv
  <2>3. e.status # "PENDING" /\ e = IF e.status = "OK" THEN Success(e.text) ELSE Failure(e.status)
    BY EncodeProfileOutcomes
  <2> HIDE DEF e
  <2>4. a # [status |-> "PENDING", text |-> <<>>] /\ Given' = a
    BY <1>g, <2>2, <2>3
  <2>5. CASE status' = "BUFFER_TOO_SMALL" /\ output' = <<>> /\ ValidMarker(marker)
    <3>1. a \in Contract!OutOfMemory
      BY <1>3, <2>5 DEF Contract!OutOfMemory, Contract!Failure
    <3> QED
      BY <1>1, <2>4, <3>1 DEF Contract!Answer, Contract!Pending
  <2>6. CASE status' = e.status /\ output' = e.text /\ (status' = "OK" => Len(e.text) < cap)
    <3>1. a = e
      BY <2>3, <2>6 DEF Success, Failure
    <3>2. Contract!Reference = e
      BY <1>3 DEF Contract!Reference, e
    <3>3. a \in Contract!Answers(e, cap, Contract!WorstCase(e))
      BY <2>6, <3>1 DEF Contract!Answers
    <3> QED
      BY <1>1, <2>4, <3>2, <3>3 DEF Contract!Answer, Contract!Pending
  <2> QED
    BY <2>2, <2>5, <2>6
<1>4. CASE op = "decode"
  <2>1. /\ op' = "decode" /\ input' = input /\ marker' = marker /\ cap' = cap /\ DecodedInv'
    BY <1>4 DEF ProfileInv
  <2>2. a \in Answers(d, cap, IF d.status \in {"INVALID_ESCAPE", "INVALID_UTF8"}
                              THEN Len(input) + 1 ELSE 0)
    BY <2>1 DEF DecodedInv
  <2>3. d.status # "PENDING"
    <3>1. DecodeBody(input).status \in {"OK", "INVALID_ESCAPE", "INVALID_UTF8"}
      BY CallTypes, BodyOutcomes, OutcomeFacts DEF ProfileInv
    <3> QED
      BY <3>1 DEF DecodeProfile, Dispatched, LengthThenEdges, HashLabelError, Failure
  <2> HIDE DEF d
  <2>4. status' # "PENDING"
    <3>1. a = d \/ a = Failure("BUFFER_TOO_SMALL")
      BY <2>2 DEF Answers
    <3>2. a.status # "PENDING"
      BY <2>3, <3>1 DEF Failure
    <3> QED
      BY <3>2
  <2>5. Contract!Reference = d
    BY <1>4 DEF Contract!Reference, d
  <2>6. Contract!WorstCase(d) = IF d.status \in {"INVALID_ESCAPE", "INVALID_UTF8"}
                                THEN Len(input) + 1 ELSE 0
    BY <1>4 DEF Contract!WorstCase
  <2>7. a \in Contract!Answers(d, cap, Contract!WorstCase(d))
    BY <2>2, <2>6 DEF Answers, Failure, Contract!Answers, Contract!Failure
  <2>8. a # [status |-> "PENDING", text |-> <<>>] /\ Given' = a
    BY <1>g, <2>4
  <2> QED
    BY <1>1, <2>5, <2>7, <2>8 DEF Contract!Answer, Contract!Pending
<1> QED
  BY <1>2, <1>3, <1>4

\* a new call begins only after the last one was answered
LEMMA SendIsNewCall ==
  ASSUME ProfileInv, Send
  PROVE  Contract!NewCall
<1>1. status = "OK" /\ status' = "PENDING" /\ output' = <<>>
  BY DEF Send
<1>2. /\ Given # [status |-> "PENDING", text |-> <<>>]
      /\ Given' = [status |-> "PENDING", text |-> <<>>]
  BY <1>1 DEF Given
<1> QED
  BY <1>1, <1>2 DEF Contract!NewCall, Contract!Pending

\* which steps return
LEMMA StepReturns ==
  ASSUME ProfileInv, ProfileInv', Step
  PROVE  /\ UNCHANGED <<op, input, marker, cap>> /\ pc # "done"
         /\ pc' # "done" => Given' = Given
<1>1. UNCHANGED <<op, input, marker, cap>> /\ pc # "done"
  BY DEF Step, EnterEncode, Malloc, Release, EncodeToCore, RefuseCore, CopyCore, EndCopy,
         EncodeToCanonical, HashCanonical, EnterDecode, DecodeHashed, DecodeReversible, call
<1>2. ASSUME pc' # "done" PROVE Given' = Given
  BY <1>1, <1>2 DEF ProfileInv, WorkInv, Given
<1> QED
  BY <1>1, <1>2

\* A step is a step of the contract, or leaves its variables alone.
LEMMA ContractStep ==
  ASSUME ProfileInv, ProfileInv', [Step \/ Send]_vars
  PROVE  [Contract!Answer \/ Contract!NewCall]_(Contract!contractVars)
<1>1. CASE Step
  <2>1. CASE pc' = "done"
    BY <1>1, <2>1, StepReturns, ReturnAnswers
  <2>2. CASE pc' # "done"
    BY <1>1, <2>2, StepReturns DEF Contract!contractVars
  <2> QED
    BY <2>1, <2>2
<1>2. CASE Send
  BY <1>2, SendIsNewCall
<1>3. CASE UNCHANGED vars
  BY <1>3 DEF vars, call, locals, result, Given, Contract!contractVars
<1> QED
  BY <1>1, <1>2, <1>3

\* at the start
LEMMA ContractInit == Init => Contract!Init
  BY DEF Init, Given, Contract!Init, Contract!Pending

\* The refinement of ProfileContract, but for its liveness: the answer to a call
\* changes once, to one the contract allows, and a new call begins only after.
THEOREM ProfileImplementsContract == Spec => AnswersAsDefined
<1>1. ProfileInv /\ ProfileInv' /\ [Step \/ Send]_vars
        => [Contract!Answer \/ Contract!NewCall]_(Contract!contractVars)
  BY ContractStep
<1> QED
  BY <1>1, ContractInit, ProfileInvariant, PTL DEF Spec, AnswersAsDefined
=============================================================================
