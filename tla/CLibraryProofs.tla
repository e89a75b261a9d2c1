--------------------------- MODULE CLibraryProofs ---------------------------
(***************************************************************************)
(* Proofs about the whole C library, for all texts, labels, markers,       *)
(* capacities and lengths: the temporary buffers live as long as the calls *)
(* that use them; what one function has checked of the room is what the    *)
(* next needs; and with the Core functions and the hash in place of their  *)
(* contracts the library takes the steps of CProfile and keeps all that is *)
(* proved there.                                                           *)
(***************************************************************************)
EXTENDS CLibrary, CProfileProofs
LOCAL INSTANCE SequencesExt

\* A step of the library is a step of a profile function, or leaves its
\* variables alone, or is the end of the hash.
LEMMA LibrarySteps ==
  ASSUME [LibraryStep \/ LibrarySend]_libraryVars
  PROVE  \/ EnterEncode \/ Malloc \/ Release \/ RefuseCore \/ CopyCore \/ EndCopy
         \/ EnterDecode \/ DecodeHashed \/ DecodeReversible({}) \/ Send
         \/ CoreReturns \/ HashReturns
         \/ UNCHANGED vars
  BY DEF LibraryStep, LibrarySend, libraryVars, OwnStep, CallEncodeBody, CallEncodeComponent,
         CallDecodeBody, CallCore, CoreStep, HashStep

\* HeapInv is kept by every step of the library.
LEMMA LibraryHeapStep ==
  ASSUME HeapInv, [LibraryStep \/ LibrarySend]_libraryVars
  PROVE  HeapInv'
<1>1. CASE CoreReturns
  <2>1. \/ EncodeToCore({CoreAnswer}) \/ EncodeToCanonical({CoreAnswer})
        \/ DecodeReversible({CoreAnswer})
    BY <1>1 DEF CoreReturns
  <2> QED
    BY <2>1, HeapAction
<1>2. CASE HashReturns
  <2>1. pc = "hash" /\ pc' = "done" /\ Free(Released)
    BY <1>2 DEF HashReturns, Deliver, Refuse, Return
  <2> QED
    BY <2>1, HeapAfterHash
<1>3. CASE UNCHANGED vars
  BY <1>3 DEF vars, locals, HeapInv
<1> QED
  BY <1>1, <1>2, <1>3, LibrarySteps, HeapAction

\* HeapDiscipline: with the Core functions and the hash in place, and whatever
\* they answer, the temporary buffers are there until the last of them has
\* returned, and are freed once on every way out.
THEOREM LibraryHeap == LibrarySpec => []HeapDiscipline
<1>1. LibraryInit => HeapInv
  BY DEF LibraryInit, Init, HeapInv
<1>2. HeapInv /\ [LibraryStep \/ LibrarySend]_libraryVars => HeapInv'
  BY LibraryHeapStep
<1>3. HeapInv => HeapDiscipline
  BY DEF HeapInv, HeapDiscipline
<1> QED
  BY <1>1, <1>2, <1>3, PTL DEF LibrarySpec

-----------------------------------------------------------------------------
(* LabelsInBuffer.  The call of the hash is the only place where its label *)
(* is stored to, so the invariant follows it from the call to the return.  *)

\* bytes of a hash label
HashLength == Len(marker) + HashBodyLength

\* the hash runs, or has run, for this call
CalledInv ==
  /\ labelPc \notin {"idle", "done"} => pc = "hash"
  /\ labelPc \in {"idle", "enter", "marker"} => DOMAIN label = {}

\* the room has been checked
CheckedInv ==
  labelPc \in {"marker", "base36", "digit", "divide"} =>
    HashLength < cap /\ HashLength <= MaxLabelLength

DigitsLeftInv ==
  /\ labelPc \in {"digit", "divide"} => left \in 0..HashBodyLength
  /\ labelPc = "divide" => left > 0

\* what the hash has stored and reported
StoredInv ==
  pc = "hash" =>
    /\ DOMAIN label \subseteq 0..(cap - 1)
    /\ labelPc = "done" /\ labelStatus = "OK" =>
         labelLength = HashLength /\ HashLength < cap /\ HashLength <= MaxLabelLength

\* what the profile function has delivered
DeliveredInv ==
  /\ pc # "done" => status # "OK"
  /\ pc = "dispatch" => op = "decode"
  /\ pc = "copied" \/ (op = "encode" /\ status = "OK") =>
       length = Len(output) /\ length < cap /\ length <= MaxLabelLength

HashInv == CalledInv /\ CheckedInv /\ DigitsLeftInv /\ StoredInv

LabelInv ==
  /\ marker \in Markers /\ cap \in Capacities
  /\ HashInv /\ DeliveredInv

LEMMA RoomTypes ==
  ASSUME marker \in Markers, cap \in Capacities
  PROVE  /\ marker \in Seq(Byte \ {NUL}) /\ Len(marker) \in Nat
         /\ cap \in Nat /\ HashBodyLength \in Nat /\ MaxLabelLength \in Nat
         /\ HashLength \in Nat /\ HashLength = Len(marker) + HashBodyLength
<1>1. marker \in Seq(Byte \ {NUL}) /\ cap \in Nat
  BY CallsAssumption
<1> QED
  BY <1>1, LengthsAssumption DEF HashLength

\* Every step of encode_profile_hash and base36_encode keeps HashInv.
LEMMA LabelSteps ==
  ASSUME LabelInv, Hash!Label!Next, UNCHANGED vars
  PROVE  HashInv'
<1> UNCHANGED <<pc, marker, cap>> /\ HashLength' = HashLength
  BY DEF vars, call, HashLength
<1> /\ marker \in Seq(Byte \ {NUL}) /\ Len(marker) \in Nat
    /\ cap \in Nat /\ HashBodyLength \in Nat /\ MaxLabelLength \in Nat
    /\ HashLength \in Nat /\ HashLength = Len(marker) + HashBodyLength
  BY RoomTypes DEF LabelInv
<1> USE DEF Hash!Label!Return, Hash!Label!LabelLength
<1>1. CASE Hash!Label!Enter
  BY <1>1 DEF Hash!Label!Enter, Hash!Label!NoRoom, LabelInv, HashInv,
     CalledInv, CheckedInv, DigitsLeftInv, StoredInv
<1>2. CASE Hash!Label!CopyMarker
  <2>1. labelPc = "marker" /\ labelPc' = "base36" /\ DOMAIN label = {}
    BY <1>2 DEF Hash!Label!CopyMarker, LabelInv, HashInv, CalledInv
  <2>2. DOMAIN label' = 0..(Len(marker) - 1)
    BY <1>2, <2>1 DEF Hash!Label!CopyMarker, Hash!Label!Store
  <2> QED
    BY <2>1, <2>2 DEF LabelInv, HashInv, CalledInv, CheckedInv, DigitsLeftInv, StoredInv
<1>3. CASE Hash!Label!EnterBase36
  <2>1. /\ labelPc = "base36" /\ labelPc' = "digit" /\ left' = HashBodyLength
        /\ label' = label
    BY <1>3 DEF Hash!Label!EnterBase36, Hash!Label!DigitsRoom, LabelInv, HashInv, CheckedInv
  <2> QED
    BY <2>1 DEF LabelInv, HashInv, CalledInv, CheckedInv, DigitsLeftInv, StoredInv
<1>4. CASE Hash!Label!NextDigit
  BY <1>4 DEF Hash!Label!NextDigit, LabelInv, HashInv,
     CalledInv, CheckedInv, DigitsLeftInv, StoredInv
<1>5. CASE Hash!Label!DivideByte
  BY <1>5 DEF Hash!Label!DivideByte, LabelInv, HashInv,
     CalledInv, CheckedInv, DigitsLeftInv, StoredInv
<1>6. CASE Hash!Label!StoreDigit
  <2> DEFINE at == Len(marker) + left - 1
  <2>1. /\ labelPc = "divide" /\ labelPc' = "digit" /\ left' = left - 1
        /\ left \in 1..HashBodyLength /\ HashLength < cap /\ HashLength <= MaxLabelLength
        /\ DOMAIN label \subseteq 0..(cap - 1) /\ pc = "hash"
    BY <1>6 DEF Hash!Label!StoreDigit, LabelInv, HashInv,
       CalledInv, CheckedInv, DigitsLeftInv, StoredInv
  <2>2. DOMAIN label' = DOMAIN label \cup at..at
    BY <1>6 DEF Hash!Label!StoreDigit, Hash!Label!Store
  <2>3. at \in 0..(cap - 1)
    BY <2>1
  <2> QED
    BY <2>1, <2>2, <2>3 DEF HashInv, CalledInv, CheckedInv, DigitsLeftInv, StoredInv
<1>7. CASE Hash!Label!Finish
  <2>1. /\ labelPc = "digit" /\ labelPc' = "done" /\ labelLength' = HashLength
        /\ HashLength < cap /\ HashLength <= MaxLabelLength
        /\ DOMAIN label \subseteq 0..(cap - 1) /\ pc = "hash"
    BY <1>7 DEF Hash!Label!Finish, LabelInv, HashInv, CalledInv, CheckedInv, StoredInv
  <2>2. DOMAIN label' = DOMAIN label \cup HashLength..HashLength
    BY <1>7 DEF Hash!Label!Finish, Hash!Label!Store, Hash!Label!TerminatorAt
  <2> QED
    BY <2>1, <2>2 DEF HashInv, CalledInv, CheckedInv, DigitsLeftInv, StoredInv
<1> QED
  BY <1>1, <1>2, <1>3, <1>4, <1>5, <1>6, <1>7 DEF Hash!Label!Next

\* a step that leaves the label of the hash alone, and does not enter it
LEMMA HashUntouched ==
  ASSUME HashInv, UNCHANGED <<marker, cap, labelPc, left, label, labelStatus, labelLength>>,
         pc' = pc \/ (pc # "hash" /\ pc' # "hash")
  PROVE  HashInv'
  BY DEF HashInv, HashLength, CalledInv, CheckedInv, DigitsLeftInv, StoredInv

\* HashInv is kept while the library is in the hash.
LEMMA HashSteps ==
  ASSUME LabelInv, HashStep
  PROVE  LabelInv'
<1>1. UNCHANGED vars /\ Hash!Step
  BY DEF HashStep
<1>2. HashInv'
  <2>1. CASE Hash!LabelStep
    BY <1>1, <2>1, LabelSteps DEF Hash!LabelStep
  <2>2. CASE Hash!CallSha \/ Hash!ShaStep \/ Hash!TransformStep
    <3>1. UNCHANGED <<labelPc, left, label, labelStatus, labelLength>>
      BY <2>2 DEF Hash!CallSha, Hash!ShaStep, Hash!TransformStep, Hash!labelVars
    <3> QED
      BY <1>1, <3>1, HashUntouched DEF vars, call, LabelInv
  <2> QED
    BY <1>1, <2>1, <2>2 DEF Hash!Step
<1> QED
  BY <1>1, <1>2 DEF LabelInv, DeliveredInv, vars, call, result

\* a step of a profile function that delivers nothing and calls no hash
LEMMA QuietLibraryStep ==
  ASSUME LabelInv, UNCHANGED <<op, marker, cap>>, UNCHANGED hashVars,
         pc # "hash", pc' \notin {"copied", "hash"}, status' # "OK",
         pc' = "dispatch" => op = "decode"
  PROVE  LabelInv'
<1>1. HashInv'
  BY HashUntouched DEF LabelInv, hashVars
<1> QED
  BY <1>1 DEF LabelInv, DeliveredInv

\* What the profile functions do themselves keeps LabelInv.
LEMMA OwnSteps ==
  ASSUME LabelInv, OwnStep
  PROVE  LabelInv'
<1> UNCHANGED hashVars
  BY DEF OwnStep
<1>1. CASE EnterEncode
  BY <1>1, QuietLibraryStep DEF EnterEncode, Return, call, LabelInv, DeliveredInv
<1>2. CASE Malloc
  BY <1>2, QuietLibraryStep DEF Malloc, call, result, LabelInv, DeliveredInv
<1>3. CASE Release
  BY <1>3, QuietLibraryStep DEF Release, Return, call
<1>4. CASE CopyCore
  <2>1. /\ pc = "choose" /\ pc' = "copied" /\ UNCHANGED <<op, marker, cap, status>>
        /\ output' = core /\ length' = Len(core) /\ Len(core) <= MaxLabelLength
        /\ Len(core) + 1 <= cap
    BY <1>4 DEF CopyCore, LabelFits, Reversible, call
  <2>2. HashInv'
    BY <2>1, HashUntouched DEF LabelInv, hashVars
  <2>3. length' = Len(output') /\ length' < cap
    <3>1. cap \in Nat
      BY RoomTypes DEF LabelInv
    <3> QED
      BY <2>1, <3>1
  <2> QED
    BY <2>1, <2>2, <2>3 DEF LabelInv, DeliveredInv
<1>5. CASE EnterDecode
  BY <1>5, QuietLibraryStep DEF EnterDecode, Return, call, LabelInv, DeliveredInv
<1>6. CASE DecodeHashed
  BY <1>6, QuietLibraryStep DEF DecodeHashed, Return, call
<1>7. CASE DecodeReversible({})
  <2>1. pc = "dispatch" /\ pc' = "done" /\ status' # "OK" /\ UNCHANGED <<op, marker, cap>>
    BY <1>7 DEF DecodeReversible, Deliver, Refuse, Return, call
  <2> QED
    BY <2>1, QuietLibraryStep
<1>8. CASE RefuseCore
  BY <1>8, QuietLibraryStep DEF RefuseCore, Return, call
<1>9. CASE EndCopy
  <2>1. /\ pc = "copied" /\ pc' = "done" /\ status' = "OK"
        /\ UNCHANGED <<op, marker, cap, output, length>>
    BY <1>9 DEF EndCopy, Return, call
  <2>2. HashInv'
    BY <2>1, HashUntouched DEF LabelInv, hashVars
  <2> QED
    BY <2>1, <2>2 DEF LabelInv, DeliveredInv
<1> QED
  BY <1>1, <1>2, <1>3, <1>4, <1>5, <1>6, <1>7, <1>8, <1>9 DEF OwnStep

\* The answer of a Core function returns, or the hash is called.
LEMMA ReturnSteps ==
  ASSUME LabelInv, CoreReturns
  PROVE  LabelInv'
<1>1. CASE EncodeToCore({CoreAnswer})
  <2>1. /\ pc = "body" /\ pc' \in {"done", "choose"} /\ status' # "OK"
        /\ UNCHANGED <<op, marker, cap>>
    BY <1>1 DEF EncodeToCore, Return, call, LabelInv, DeliveredInv
  <2> QED
    BY <2>1, QuietLibraryStep DEF CoreReturns
<1>2. CASE EncodeToCanonical({CoreAnswer})
  <2>1. /\ pc = "choose" /\ pc' \in {"done", "hash"} /\ status' # "OK"
        /\ UNCHANGED <<op, marker, cap>>
    BY <1>2 DEF EncodeToCanonical, Return, call, LabelInv, DeliveredInv
  <2>2. CASE pc' = "hash"
    <3>1. Hash!Start
      BY <2>2 DEF CoreReturns
    <3>2. /\ labelPc = "idle" /\ labelPc' = "enter" /\ UNCHANGED <<left, label>>
      BY <3>1 DEF Hash!Start
    <3>3. HashInv'
      BY <2>1, <2>2, <3>2 DEF LabelInv, HashInv, CalledInv, CheckedInv, DigitsLeftInv, StoredInv
    <3> QED
      BY <2>1, <2>2, <3>3 DEF LabelInv, DeliveredInv
  <2>3. CASE pc' # "hash"
    BY <2>1, <2>3, QuietLibraryStep DEF CoreReturns
  <2> QED
    BY <2>2, <2>3
<1>3. CASE DecodeReversible({CoreAnswer})
  <2>1. /\ pc = "dispatch" /\ pc' = "done" /\ op = "decode"
        /\ UNCHANGED <<op, marker, cap>>
    BY <1>3 DEF DecodeReversible, Deliver, Refuse, Return, call, LabelInv, DeliveredInv
  <2>2. HashInv'
    BY <2>1, HashUntouched DEF CoreReturns, hashVars, LabelInv
  <2> QED
    BY <2>1, <2>2 DEF LabelInv, DeliveredInv
<1> QED
  BY <1>1, <1>2, <1>3 DEF CoreReturns

\* The label of the hash is delivered as it was stored.
LEMMA HashReturnsStep ==
  ASSUME LabelInv, HashReturns
  PROVE  LabelInv'
<1>1. /\ pc = "hash" /\ labelPc = "done" /\ pc' = "done"
      /\ UNCHANGED <<op, marker, cap>> /\ UNCHANGED hashVars
  BY DEF HashReturns, Deliver, Refuse, Return, call
<1>2. HashInv'
  BY <1>1 DEF LabelInv, HashInv, HashLength, CalledInv, CheckedInv, DigitsLeftInv, StoredInv,
              hashVars
<1>3. CASE labelStatus = "OK"
  <2>1. /\ labelLength = HashLength /\ HashLength < cap /\ HashLength <= MaxLabelLength
        /\ HashLength \in Nat
    BY <1>1, <1>3, RoomTypes DEF LabelInv, HashInv, StoredInv
  <2>2. length' = Len(output') /\ output' = [b \in 1..labelLength |-> label[b - 1]]
    BY <1>3 DEF HashReturns, Deliver
  <2>3. Len(output') = labelLength
    BY <2>1, <2>2
  <2> QED
    BY <1>1, <1>2, <2>1, <2>2, <2>3 DEF LabelInv, DeliveredInv
<1>4. CASE labelStatus # "OK"
  <2>1. status' # "OK"
    BY <1>4 DEF HashReturns, Refuse, Return
  <2> QED
    BY <1>1, <1>2, <2>1 DEF LabelInv, DeliveredInv
<1> QED
  BY <1>3, <1>4

\* LabelInv is kept by every step of the library.
LEMMA LabelStepKeeps ==
  ASSUME LabelInv, [LibraryStep \/ LibrarySend]_libraryVars
  PROVE  LabelInv'
<1>1. CASE CallEncodeBody \/ CallEncodeComponent \/ CallDecodeBody \/ CoreStep
           \/ UNCHANGED libraryVars
  <2>1. UNCHANGED vars /\ UNCHANGED hashVars
    BY <1>1 DEF CallEncodeBody, CallEncodeComponent, CallDecodeBody, CallCore, CoreStep,
                libraryVars
  <2>2. HashInv'
    BY <2>1, HashUntouched DEF vars, call, hashVars, LabelInv
  <2> QED
    BY <2>1, <2>2 DEF LabelInv, DeliveredInv, vars, call, result
<1>2. CASE LibrarySend
  <2>1. /\ UNCHANGED hashVars /\ pc = "done" /\ pc' = "enter" /\ marker' = marker
        /\ cap' \in Capacities /\ status' = "PENDING"
    BY <1>2 DEF LibrarySend, Send
  <2>2. HashInv'
    BY <2>1 DEF LabelInv, HashInv, CalledInv, CheckedInv, DigitsLeftInv, StoredInv, hashVars
  <2> QED
    BY <2>1, <2>2 DEF LabelInv, DeliveredInv
<1> QED
  BY <1>1, <1>2, OwnSteps, ReturnSteps, HashSteps, HashReturnsStep DEF LibraryStep

\* Before the first call no label has been stored.
LEMMA LabelInvInit == LibraryInit => LabelInv
<1> SUFFICES ASSUME LibraryInit PROVE LabelInv
  OBVIOUS
<1>1. /\ labelPc = "idle" /\ DOMAIN label = {} /\ pc = "enter" /\ status = "PENDING"
      /\ marker \in Markers /\ cap \in Capacities
  BY DEF LibraryInit, Init, Hash!Init
<1> QED
  BY <1>1 DEF LabelInv, DeliveredInv, HashInv, CalledInv, CheckedInv, DigitsLeftInv, StoredInv

\* LabelsInBuffer: the checks of the profile function and those of the hash add
\* up; no store of the hash leaves the caller's buffer, and no label is longer
\* than it or than DNS allows.
THEOREM LibraryLabels == LibrarySpec => []LabelsInBuffer
<1>1. LabelInv /\ [LibraryStep \/ LibrarySend]_libraryVars => LabelInv'
  BY LabelStepKeeps
<1>2. LabelInv => LabelsInBuffer
  BY DEF LabelInv, HashInv, StoredInv, DeliveredInv, LabelsInBuffer, Hash!Label!StoresInLabel
<1> QED
  BY <1>1, <1>2, LabelInvInit, PTL DEF LibrarySpec

-----------------------------------------------------------------------------
(* The steps of CProfile.  The scanner's invariants of CCodecProofs hold   *)
(* while a Core function runs.                                             *)

Scanner == INSTANCE CCodecProofs WITH
  Functions <- {"encode_body", "encode_component", "decode_body"},
  Inputs <- Seq(Byte \ {NUL}), Capacities <- 0..SizeMax, SizeModulus <- SizeMax + 1,
  input <- text, cap <- room, pc <- codecPc, status <- codecStatus, length <- codecLength,
  original <- text, first <- <<>>

\* A text, its terminator and the buffer a Core function is given lie side by
\* side in the address space: otherwise malloc has failed, or the caller has no
\* such buffer.
AddressSpace ==
  /\ SizeMax >= 7
  /\ \A s \in Texts : Overflows(Len(s)) \/ Len(s) + 1 + EncodedCapacity(Len(s)) <= SizeMax + 1
  /\ \A c \in Capacities : MaxLabelLength + 1 + c <= SizeMax + 1

LEMMA ScannerAssumptions ==
  ASSUME AddressSpace
  PROVE  /\ Scanner!FunctionsAssumption /\ Scanner!InputsAssumption
         /\ Scanner!SizeAssumption
<1>1. SizeMax \in Nat /\ SizeMax >= 7
  BY CallsAssumption DEF AddressSpace
<1> QED
  BY <1>1 DEF Scanner!FunctionsAssumption, Scanner!InputsAssumption, Scanner!SizeAssumption,
              Scanner!Encoders, Scanner!Decoders, Scanner!Byte, Scanner!NUL, Byte, NUL

\* The scanner of these theorems is the one of the library.
LEMMA SameScanner == Codec!Next <=> Scanner!Next
<1> USE DEF Codec!Encoders, Scanner!Encoders, Codec!Decoders, Scanner!Decoders,
            Codec!Bodies, Scanner!Bodies, Codec!call, Scanner!call, Codec!outer, Scanner!outer,
            Codec!inner, Scanner!inner, Codec!result, Scanner!result,
            Codec!Return, Scanner!Return, Codec!AtSeparator, Scanner!AtSeparator,
            Codec!At, Scanner!At, Codec!HYPHEN, Scanner!HYPHEN, Codec!NUL, Scanner!NUL
<1>1. Codec!Enter <=> Scanner!Enter
  BY DEF Codec!Enter, Scanner!Enter, Codec!RefusesBuffer, Scanner!RefusesBuffer
<1>2. Codec!Scan <=> Scanner!Scan
  BY DEF Codec!Scan, Scanner!Scan, Codec!vars, Scanner!vars
<1>v. \A s : Codec!Utf8Validate(s) <=> Scanner!Utf8Validate(s)
  BY Zenon DEF Codec!Utf8Validate, Scanner!Utf8Validate, Codec!Utf8Width, Scanner!Utf8Width,
               Codec!Continues, Scanner!Continues
<1>3. Codec!BeginComponent <=> Scanner!BeginComponent
  BY <1>v DEF Codec!BeginComponent, Scanner!BeginComponent, Codec!Component, Scanner!Component
<1>s. \A b, at : Codec!Store(b, at) <=> Scanner!Store(b, at)
  BY DEF Codec!Store, Scanner!Store
<1>a. \A b, n, l : Codec!AppendByte(b, n, l) <=> Scanner!AppendByte(b, n, l)
  BY <1>s DEF Codec!AppendByte, Scanner!AppendByte, Codec!Fits, Scanner!Fits, Codec!Plus, Scanner!Plus,
         Codec!Room, Scanner!Room, Codec!Minus, Scanner!Minus
<1>e. \A b : /\ Codec!EncodeByte(Codec!Canonical(b)) = Scanner!EncodeByte(Scanner!Canonical(b))
             /\ Codec!IsLiteralByte(b) <=> Scanner!IsLiteralByte(b)
             /\ Codec!IsHexDigit(b) <=> Scanner!IsHexDigit(b)
  BY Zenon DEF Codec!EncodeByte, Scanner!EncodeByte, Codec!Canonical, Scanner!Canonical, Codec!IsLiteralByte,
         Scanner!IsLiteralByte, Codec!IsDigit, Scanner!IsDigit, Codec!HexDigit, Scanner!HexDigit,
         Codec!IsHexDigit, Scanner!IsHexDigit
<1>4. Codec!Emit <=> Scanner!Emit
  BY <1>a, <1>e DEF Codec!Emit, Scanner!Emit, Codec!ComponentLen, Scanner!ComponentLen
<1>t. Codec!Terminate <=> Scanner!Terminate
  BY <1>s DEF Codec!Terminate, Scanner!Terminate
<1>5. Codec!EndEncode <=> Scanner!EndEncode
  BY <1>t DEF Codec!EndEncode, Scanner!EndEncode, Codec!ComponentLen, Scanner!ComponentLen,
              Codec!TerminatorFits, Scanner!TerminatorFits, Codec!Room, Scanner!Room,
              Codec!Minus, Scanner!Minus
<1>6. Codec!TakeLiteral <=> Scanner!TakeLiteral
  BY <1>a, <1>e DEF Codec!TakeLiteral, Scanner!TakeLiteral, Codec!ComponentLen, Scanner!ComponentLen
<1>7. Codec!TakeHyphen <=> Scanner!TakeHyphen
  BY <1>e DEF Codec!TakeHyphen, Scanner!TakeHyphen, Codec!ComponentLen, Scanner!ComponentLen,
              Codec!EscapeComplete, Scanner!EscapeComplete
<1>h. \A h, l : Codec!HexByte(h, l) = Scanner!HexByte(h, l)
  BY DEF Codec!HexByte, Scanner!HexByte, Codec!Nibble, Scanner!Nibble, Codec!IsDigit, Scanner!IsDigit
<1>8. Codec!TakeEscape <=> Scanner!TakeEscape
  BY <1>a, <1>e, <1>h DEF Codec!TakeEscape, Scanner!TakeEscape
<1>9. Codec!EndDecode <=> Scanner!EndDecode
  BY <1>t, <1>v DEF Codec!EndDecode, Scanner!EndDecode, Codec!ComponentLen, Scanner!ComponentLen,
              Codec!Payload, Scanner!Payload
<1>10. Codec!EndComponent <=> Scanner!EndComponent
  BY <1>s DEF Codec!EndComponent, Scanner!EndComponent, Codec!Total, Scanner!Total,
     Codec!SeparatorFits, Scanner!SeparatorFits, Codec!Plus, Scanner!Plus,
     Codec!AfterSeparator, Scanner!AfterSeparator
<1> QED
  BY <1>1, <1>2, <1>3, <1>4, <1>5, <1>6, <1>7, <1>8, <1>9, <1>10 DEF Codec!Next, Scanner!Next

\* and what it is compared with is what CProfile is defined by
LEMMA SameBytes ==
  /\ Scanner!Byte = Byte /\ Scanner!NUL = NUL /\ Scanner!HYPHEN = HYPHEN
  /\ Scanner!Separator = Separator
  /\ \A b : Scanner!EncodeByte(b) = EncodeByte(b) /\ Scanner!Canonical(b) = Canonical(b)
  /\ \A s : Scanner!Utf8Validate(s) <=> Utf8Validate(s)
  /\ \A s : Scanner!Whole(s) <=> Whole(s)
  /\ \A s : Scanner!Leads(s) <=> Leads(s)
  /\ \A u, v : Scanner!Behind(u, v) = Behind(u, v)
<1>1. \A s : Scanner!Utf8Validate(s) <=> Utf8Validate(s)
  BY Zenon DEF Utf8Validate, Scanner!Utf8Validate, Utf8Width, Scanner!Utf8Width,
               Continues, Scanner!Continues
<1>2. \A s : Scanner!Whole(s) <=> Whole(s)
  BY DEF Whole, Scanner!Whole, IsSeparator, Scanner!IsSeparator, HYPHEN, Scanner!HYPHEN
<1>3. \A b : Scanner!EncodeByte(b) = EncodeByte(b) /\ Scanner!Canonical(b) = Canonical(b)
  BY Zenon DEF EncodeByte, Scanner!EncodeByte, Canonical, Scanner!Canonical, IsLiteralByte,
         Scanner!IsLiteralByte, IsDigit, Scanner!IsDigit, HexDigit, Scanner!HexDigit,
         HYPHEN, Scanner!HYPHEN
<1>4. \A u, v : Scanner!Behind(u, v) = Behind(u, v)
  BY DEF Scanner!Behind, Behind, Scanner!Success, Success
<1> QED
  BY <1>1, <1>2, <1>3, <1>4 DEF Scanner!Byte, Byte, Scanner!NUL, NUL, Scanner!HYPHEN, HYPHEN,
     Scanner!Separator, Separator, Scanner!Leads, Leads

\* what CCodecProofs knows of the encoding, in the words of its instance
LEMMA ScannerLaws ==
  ASSUME AddressSpace
  PROVE  /\ Scanner!EncodeComponent(<<>>) = <<>>
         /\ \A b \in Scanner!Byte :
              Scanner!EncodeComponent(<<b>>) = Scanner!EncodeByte(Scanner!Canonical(b))
         /\ \A s, t1 \in Seq(Scanner!Byte) :
              Scanner!EncodeComponent(s \o t1)
                = Scanner!EncodeComponent(s) \o Scanner!EncodeComponent(t1)
         /\ \A s \in Seq(Scanner!Byte) : Scanner!Whole(s) =>
              /\ Scanner!EncodeBody(s) = Scanner!EncodeComponent(s)
              /\ Scanner!DecodeBody(s) = Scanner!DecodeComponent(s)
         /\ \A u, v \in Seq(Scanner!Byte) : Scanner!Leads(u) =>
              /\ Scanner!EncodeBody((u \o Scanner!Separator) \o v)
                   = (Scanner!EncodeComponent(u) \o Scanner!Separator) \o Scanner!EncodeBody(v)
              /\ Scanner!DecodeBody((u \o Scanner!Separator) \o v) =
                   IF Scanner!DecodeComponent(u).status = "OK"
                   THEN Scanner!Behind(Scanner!DecodeComponent(u).text \o Scanner!Separator,
                                       Scanner!DecodeBody(v))
                   ELSE Scanner!DecodeComponent(u)
<1>1. Scanner!EncodeComponent(<<>>) = <<>>
  BY ScannerAssumptions, Scanner!EncodeEmpty
<1>2. \A b \in Scanner!Byte :
        Scanner!EncodeComponent(<<b>>) = Scanner!EncodeByte(Scanner!Canonical(b))
  BY ScannerAssumptions, Scanner!EncodeSingle
<1>3. \A s, t1 \in Seq(Scanner!Byte) :
        Scanner!EncodeComponent(s \o t1)
          = Scanner!EncodeComponent(s) \o Scanner!EncodeComponent(t1)
  BY ScannerAssumptions, Scanner!EncodeConcat
<1>4. \A s \in Seq(Scanner!Byte) : Scanner!Whole(s) =>
        /\ Scanner!EncodeBody(s) = Scanner!EncodeComponent(s)
        /\ Scanner!DecodeBody(s) = Scanner!DecodeComponent(s)
  BY ScannerAssumptions, Scanner!BodyWhole, Scanner!DecodeWhole
<1>5. \A u, v \in Seq(Scanner!Byte) : Scanner!Leads(u) =>
        Scanner!EncodeBody((u \o Scanner!Separator) \o v)
          = (Scanner!EncodeComponent(u) \o Scanner!Separator) \o Scanner!EncodeBody(v)
  BY ScannerAssumptions, Scanner!BodyFirst
<1>6. \A u, v \in Seq(Scanner!Byte) : Scanner!Leads(u) =>
        Scanner!DecodeBody((u \o Scanner!Separator) \o v) =
          IF Scanner!DecodeComponent(u).status = "OK"
          THEN Scanner!Behind(Scanner!DecodeComponent(u).text \o Scanner!Separator,
                              Scanner!DecodeBody(v))
          ELSE Scanner!DecodeComponent(u)
  BY ScannerAssumptions, Scanner!DecodeFirst
<1> QED
  BY <1>1, <1>2, <1>3, <1>4, <1>5, <1>6

LEMMA SameComponents ==
  ASSUME AddressSpace
  PROVE  \A s \in Seq(Byte) : Scanner!EncodeComponent(s) = EncodeComponent(s)
<1> DEFINE S == {s \in Seq(Byte) : Scanner!EncodeComponent(s) = EncodeComponent(s)}
<1>1. <<>> \in S
  BY EncodeEmpty, ScannerLaws
<1>2. ASSUME NEW s \in S, NEW b \in Byte PROVE Append(s, b) \in S
  <2>1. /\ s \in Seq(Byte) /\ <<b>> \in Seq(Byte)
        /\ Scanner!EncodeComponent(s) = EncodeComponent(s)
    OBVIOUS
  <2>2. Append(s, b) = s \o <<b>>
    BY <2>1
  <2>3. EncodeComponent(<<b>>) = Scanner!EncodeComponent(<<b>>)
    BY EncodeSingle, ScannerLaws, SameBytes
  <2>4. EncodeComponent(s \o <<b>>) = Scanner!EncodeComponent(s \o <<b>>)
    <3>1. EncodeComponent(s \o <<b>>) = EncodeComponent(s) \o EncodeComponent(<<b>>)
      BY <2>1, EncodeConcat
    <3>2. s \in Seq(Scanner!Byte) /\ <<b>> \in Seq(Scanner!Byte)
      BY <2>1, SameBytes
    <3> QED
      BY <2>1, <2>3, <3>1, <3>2, ScannerLaws
  <2>5. Append(s, b) \in Seq(Byte)
    BY <2>1
  <2> QED
    BY <2>2, <2>4, <2>5
<1> HIDE DEF S
<1>3. Seq(Byte) \subseteq S
  BY <1>1, <1>2, AppendInduction
<1> QED
  BY <1>3 DEF S

LEMMA SameDecoding ==
  \A s : Scanner!DecodeComponent(s) = DecodeComponent(s)
  BY Zenon DEF DecodeComponent, Scanner!DecodeComponent,
     Scanner!Utf8Validate, Utf8Validate, Scanner!Utf8Width, Utf8Width,
     Scanner!Continues, Continues, Scanner!IsLiteralByte, IsLiteralByte,
     Scanner!IsHexDigit, IsHexDigit, Scanner!HexByte, HexByte, Scanner!Nibble, Nibble,
     Scanner!IsDigit, IsDigit, Scanner!Failure, Failure, Scanner!Success, Success,
     Scanner!HYPHEN, HYPHEN

LEMMA SameBodies ==
  ASSUME AddressSpace
  PROVE  \A s \in Seq(Byte) : /\ Scanner!EncodeBody(s) = EncodeBody(s)
                              /\ Scanner!DecodeBody(s) = DecodeBody(s)
<1> DEFINE S == {s \in Seq(Byte) : /\ Scanner!EncodeBody(s) = EncodeBody(s)
                                   /\ Scanner!DecodeBody(s) = DecodeBody(s)}
<1>1. ASSUME NEW s \in Seq(Byte), Whole(s) PROVE s \in S
  <2>1. Scanner!Whole(s) /\ s \in Seq(Scanner!Byte)
    BY <1>1, SameBytes
  <2>2. Scanner!EncodeBody(s) = Scanner!EncodeComponent(s) /\ Scanner!DecodeBody(s) = Scanner!DecodeComponent(s)
    BY <2>1, ScannerLaws
  <2>3. EncodeBody(s) = EncodeComponent(s) /\ DecodeBody(s) = DecodeComponent(s)
    BY <1>1, BodyWhole, DecodeWhole
  <2> QED
    BY <2>2, <2>3, SameComponents, SameDecoding
<1>2. ASSUME NEW u \in Seq(Byte), NEW v \in Seq(Byte), Leads(u), v \in S
      PROVE  (u \o Separator) \o v \in S
  <2> DEFINE s == (u \o Separator) \o v
  <2>1. s \in Seq(Byte)
    BY AroundSeparator
  <2>2. /\ Scanner!Leads(u) /\ u \in Seq(Scanner!Byte) /\ v \in Seq(Scanner!Byte)
        /\ Scanner!Separator = Separator
    BY <1>2, SameBytes
  <2>3. Scanner!EncodeBody(s) = (Scanner!EncodeComponent(u) \o Separator) \o Scanner!EncodeBody(v)
    BY <2>2, ScannerLaws
  <2>4. EncodeBody(s) = (EncodeComponent(u) \o Separator) \o EncodeBody(v)
    BY <1>2, BodyFirst
  <2>5. DecodeBody(s) = IF DecodeComponent(u).status = "OK"
                        THEN Behind(DecodeComponent(u).text \o Separator, DecodeBody(v))
                        ELSE DecodeComponent(u)
    BY <1>2, DecodeFirst
  <2>6. Scanner!DecodeBody(s) =
          IF Scanner!DecodeComponent(u).status = "OK"
          THEN Scanner!Behind(Scanner!DecodeComponent(u).text \o Separator, Scanner!DecodeBody(v))
          ELSE Scanner!DecodeComponent(u)
    BY <2>2, ScannerLaws
  <2>7. Scanner!DecodeComponent(u) = DecodeComponent(u)
    BY SameDecoding
  <2>8. \A a, b : Scanner!Behind(a, b) = Behind(a, b)
    BY SameBytes
  <2> HIDE DEF s
  <2>9. Scanner!DecodeBody(s) = DecodeBody(s)
    BY <1>2, <2>5, <2>6, <2>7, <2>8
  <2>10. Scanner!EncodeBody(s) = EncodeBody(s)
    BY <1>2, <2>3, <2>4, SameComponents
  <2>11. s \in S
    BY <2>1, <2>9, <2>10
  <2> QED
    BY <2>11 DEF s
<1> HIDE DEF S
<1>3. Seq(Byte) \subseteq S
  BY <1>1, <1>2, SplitInduction
<1> QED
  BY <1>3 DEF S

-----------------------------------------------------------------------------
\* A Core function runs only where CProfile takes its answer, on the text and
\* the buffer of that step, and in the invariants of the scanner.
CoreInv ==
  codecPc # "idle" =>
    /\ Scanner!Inv /\ Scanner!CodeInv
    /\ text = input
    /\ \/ pc = "body" /\ fn = "encode_body" /\ room = temporary
       \/ pc = "choose" /\ ~Reversible /\ fn = "encode_component" /\ room = temporary
       \/ /\ pc = "dispatch" /\ fn = "decode_body" /\ room = cap
          /\ ~IsPrefix(marker, input) /\ Len(input) <= MaxLabelLength /\ ~BadEdges(input)

\* what the profile function knows when it calls
LEMMA CallerFacts ==
  ASSUME ProfileInv, AddressSpace
  PROVE  /\ input \in Seq(Byte \ {NUL}) /\ Len(input) \in Nat
         /\ cap \in 0..SizeMax /\ temporary \in 0..SizeMax /\ SizeMax \in Nat
         /\ pc \in {"body", "choose"} => Len(input) + 1 + temporary <= SizeMax + 1
         /\ Len(input) <= MaxLabelLength => Len(input) + 1 + cap <= SizeMax + 1
         /\ pc \in {"body", "choose"} => temporary = 3 * Len(input) + 1
<1>1. /\ input \in Seq(Byte \ {NUL}) /\ cap \in Capacities /\ temporary \in 0..SizeMax
  BY DEF ProfileInv, TypeOK
<1>2. SizeMax \in Nat /\ Capacities \subseteq 0..SizeMax /\ MaxLabelLength \in Nat
  BY CallsAssumption, LengthsAssumption
<1>3. ASSUME pc \in {"body", "choose"}
      PROVE  /\ Len(input) + 1 + temporary <= SizeMax + 1
             /\ temporary = 3 * Len(input) + 1
  <2>1. ~Overflows(Len(input)) /\ temporary = 3 * Len(input) + 1
    BY <1>3 DEF ProfileInv, WorkInv
  <2>2. input \in Texts
    BY <1>3 DEF ProfileInv, BoundsInv
  <2> QED
    BY <2>1, <2>2, <1>1 DEF AddressSpace, EncodedCapacity
<1>4. Len(input) <= MaxLabelLength => Len(input) + 1 + cap <= SizeMax + 1
  <2>1. MaxLabelLength + 1 + cap <= SizeMax + 1 /\ cap \in Nat /\ Len(input) \in Nat
    BY <1>1, <1>2 DEF AddressSpace
  <2> QED
    BY <2>1, <1>2
<1> QED
  BY <1>1, <1>2, <1>3, <1>4

\* The call of a Core function starts a scan.
LEMMA CallStarts ==
  ASSUME ProfileInv, AddressSpace, NEW f, NEW capacity, CallCore(f, input, capacity),
         \/ pc = "body" /\ f = "encode_body" /\ capacity = temporary
         \/ pc = "choose" /\ ~Reversible /\ f = "encode_component" /\ capacity = temporary
         \/ /\ pc = "dispatch" /\ f = "decode_body" /\ capacity = cap
            /\ ~IsPrefix(marker, input) /\ Len(input) <= MaxLabelLength /\ ~BadEdges(input)
  PROVE  CoreInv'
<1>1. /\ codecPc' = "enter" /\ fn' = f /\ text' = input /\ room' = capacity
      /\ i' = 0 /\ segmentStart' = 0 /\ outLen' = 0 /\ k' = 0 /\ len' = 0
      /\ out' = [o \in {} |-> NUL] /\ codecStatus' = "PENDING" /\ codecLength' = NotSet
      /\ UNCHANGED vars
  BY DEF CallCore
<1>2. UNCHANGED <<input, marker, cap, pc, temporary, core>>
  BY <1>1 DEF vars, call, locals
<1>3. /\ input \in Seq(Byte \ {NUL}) /\ capacity \in 0..SizeMax
      /\ Len(input) + 1 + capacity <= SizeMax + 1
  BY CallerFacts
<1>4. Scanner!Fresh'
  BY <1>1, <1>3, SameBytes DEF Scanner!Fresh, Scanner!Encoders, Scanner!Decoders, Scanner!Disjoint, Scanner!NotSet, NotSet
<1>5. (Scanner!Inv /\ Scanner!CodeInv)'
  BY <1>4, ScannerAssumptions, Scanner!FreshNext
<1> QED
  BY <1>1, <1>2, <1>5 DEF CoreInv, Reversible

\* Its steps keep the scanner's invariants.
LEMMA ScannerSteps ==
  ASSUME AddressSpace, CoreInv, UNCHANGED vars, Codec!Next \/ UNCHANGED codecVars
  PROVE  CoreInv'
<1>1. UNCHANGED <<input, marker, cap, pc, temporary, core>>
  BY DEF vars, call, locals
<1>2. CASE codecPc = "idle"
  <2>1. codecPc' = "idle"
    BY <1>2 DEF Codec!Next, Codec!Enter, Codec!Scan, Codec!BeginComponent, Codec!Emit, Codec!EndEncode,
           Codec!TakeLiteral, Codec!TakeHyphen, Codec!TakeEscape, Codec!EndDecode, Codec!EndComponent,
           codecVars
  <2> QED
    BY <2>1 DEF CoreInv
<1>3. CASE codecPc # "idle"
  <2>1. Scanner!Inv /\ Scanner!CodeInv
    BY <1>3 DEF CoreInv
  <2>2. Scanner!Next \/ UNCHANGED Scanner!vars
    BY SameScanner DEF codecVars, Scanner!vars, Scanner!call, Scanner!outer, Scanner!inner, Scanner!result
  <2>3. Scanner!Inv'
    BY <2>1, <2>2, ScannerAssumptions, Scanner!InvStep
  <2>4. Scanner!CodeInv'
    BY <2>1, <2>2, ScannerAssumptions, Scanner!CodeStep
  <2>5. UNCHANGED <<fn, text, room>>
    BY DEF Codec!Next, Codec!Enter, Codec!Scan, Codec!BeginComponent, Codec!Emit, Codec!EndEncode,
           Codec!TakeLiteral, Codec!TakeHyphen, Codec!TakeEscape, Codec!EndDecode, Codec!EndComponent,
           codecVars, Codec!call
  <2> QED
    BY <1>1, <1>3, <2>3, <2>4, <2>5 DEF CoreInv, Reversible
<1> QED
  BY <1>2, <1>3

\* What it answers is what CProfile takes from it.
LEMMA CoreAnswerAllowed ==
  ASSUME ProfileInv, AddressSpace, CoreInv, codecPc = "done"
  PROVE  /\ pc = "body" => CoreAnswer \in CoreAnswers(EncodeBody(input))
         /\ pc = "choose" => ~Reversible /\ CoreAnswer \in CoreAnswers(HashInput)
         /\ pc = "dispatch" => CoreAnswer \in Answers(DecodeBody(input), cap, Len(input) + 1)
         /\ pc \in {"body", "choose", "dispatch"}
<1>1. /\ Scanner!Inv /\ Scanner!CodeInv /\ text = input
      /\ \/ pc = "body" /\ fn = "encode_body" /\ room = temporary
         \/ pc = "choose" /\ ~Reversible /\ fn = "encode_component" /\ room = temporary
         \/ pc = "dispatch" /\ fn = "decode_body" /\ room = cap
  BY DEF CoreInv
<1>2. Scanner!Answered \in Scanner!Answers(Scanner!Defined(fn, text), room, Scanner!WorstCase)
  BY <1>1, ScannerAssumptions, Scanner!AnswersAreAllowed DEF Scanner!AnswerAllowed
<1>3. Scanner!Answered = CoreAnswer
  BY DEF Scanner!Answered, CoreAnswer
<1>4. \A u, v, n : Scanner!Answers(u, v, n) = Answers(u, v, n)
  BY DEF Scanner!Answers, Answers, Scanner!Failure, Failure
<1>5. CoreAnswer \in Answers(Scanner!Defined(fn, input), room, Scanner!WorstCase)
  BY <1>1, <1>2, <1>3, <1>4
<1>6. input \in Seq(Byte)
  BY CallTypes DEF ProfileInv
<1>7. \A u, v : Scanner!Encoded(u, v) = Encoded(u, v)
  BY SameBytes DEF Scanner!Encoded, Encoded, Scanner!Success, Success, Scanner!Failure, Failure
<1>8. Scanner!WorstCase = IF fn = "decode_body" THEN Len(input) + 1 ELSE 3 * Len(input) + 1
  BY <1>1 DEF Scanner!WorstCase, Scanner!Encoders
<1>9. CASE pc = "body"
  <2>1. Scanner!Defined(fn, input) = Encoded(input, EncodeBody(input))
    BY <1>1, <1>6, <1>7, <1>9, SameBodies DEF Scanner!Defined, Scanner!Encoders
  <2> QED
    BY <1>1, <1>5, <1>8, <1>9, <2>1 DEF CoreAnswers
<1>10. CASE pc = "choose"
  <2>1. Scanner!Defined(fn, input) = Encoded(input, HashInput)
    BY <1>1, <1>6, <1>7, <1>10, SameComponents DEF Scanner!Defined, Scanner!Encoders, HashInput
  <2> QED
    BY <1>1, <1>5, <1>8, <1>10, <2>1 DEF CoreAnswers
<1>11. CASE pc = "dispatch"
  <2>1. Scanner!Defined(fn, input) = DecodeBody(input)
    BY <1>1, <1>6, <1>11, SameBodies DEF Scanner!Defined, Scanner!Encoders
  <2> QED
    BY <1>1, <1>5, <1>8, <1>11, <2>1
<1> QED
  BY <1>1, <1>9, <1>10, <1>11

-----------------------------------------------------------------------------
(* The hash.  Digest is a constant; the theorems below are about a Digest   *)
(* that is what SHA-256 and base36 give.                                   *)

DigestComputed ==
  pc = "hash" /\ labelPc = "done" /\ labelStatus = "OK" =>
    [d \in 1..HashBodyLength |-> label[Len(marker) + d - 1]] = Digest(canonical)

\* the hash refuses what the step of CProfile refuses
RefusalInv ==
  pc = "hash" /\ labelPc = "done" =>
    labelStatus = IF HashLength > MaxLabelLength THEN "LABEL_TOO_LONG"
                  ELSE IF HashLength >= cap THEN "BUFFER_TOO_SMALL" ELSE "OK"

\* and puts the digits behind the marker
MarkerInv ==
  pc = "hash" /\ (labelPc \in {"base36", "digit", "divide"} \/ labelStatus = "OK") =>
    \A o \in 0..(Len(marker) - 1) : o \in DOMAIN label /\ label[o] = marker[o + 1]

\* labelStatus is set by the return
ReturnedInv == labelPc # "done" => labelStatus = "PENDING"

AnswerInv == RefusalInv /\ MarkerInv /\ ReturnedInv

LEMMA AnswerSteps ==
  ASSUME LabelInv, AnswerInv, Hash!Label!Next, UNCHANGED vars
  PROVE  AnswerInv'
<1> UNCHANGED <<pc, marker, cap>> /\ HashLength' = HashLength
  BY DEF vars, call, HashLength
<1> /\ marker \in Seq(Byte \ {NUL}) /\ Len(marker) \in Nat
    /\ cap \in Nat /\ HashBodyLength \in Nat /\ MaxLabelLength \in Nat
    /\ HashLength \in Nat /\ HashLength = Len(marker) + HashBodyLength
  BY RoomTypes DEF LabelInv
<1> USE DEF Hash!Label!Return, Hash!Label!LabelLength
<1>s. ASSUME NEW bytes, NEW at \in Nat, Hash!Label!Store(bytes, at), Len(bytes) \in Nat,
             Len(marker) <= at,
             \A o \in 0..(Len(marker) - 1) : o \in DOMAIN label /\ label[o] = marker[o + 1]
      PROVE  \A o \in 0..(Len(marker) - 1) : o \in DOMAIN label' /\ label'[o] = marker[o + 1]
  BY <1>s DEF Hash!Label!Store
<1>1. CASE Hash!Label!Enter
  BY <1>1 DEF Hash!Label!Enter, Hash!Label!NoRoom, AnswerInv, RefusalInv, MarkerInv, ReturnedInv
<1>2. CASE Hash!Label!CopyMarker
  <2>1. labelPc = "marker" /\ labelPc' = "base36" /\ labelStatus' = labelStatus
    BY <1>2 DEF Hash!Label!CopyMarker
  <2>2. \A o \in 0..(Len(marker) - 1) : o \in DOMAIN label' /\ label'[o] = marker[o + 1]
    BY <1>2, <2>1 DEF Hash!Label!CopyMarker, Hash!Label!Store
  <2> QED
    BY <2>1, <2>2 DEF AnswerInv, RefusalInv, MarkerInv, ReturnedInv
<1>3. CASE Hash!Label!EnterBase36
  <2>1. /\ labelPc = "base36" /\ labelPc' = "digit" /\ label' = label
        /\ labelStatus' = labelStatus
    BY <1>3 DEF Hash!Label!EnterBase36, Hash!Label!DigitsRoom, LabelInv, HashInv, CheckedInv
  <2> QED
    BY <2>1 DEF AnswerInv, RefusalInv, MarkerInv, ReturnedInv
<1>4. CASE Hash!Label!NextDigit
  BY <1>4 DEF Hash!Label!NextDigit, AnswerInv, RefusalInv, MarkerInv, ReturnedInv
<1>5. CASE Hash!Label!DivideByte
  BY <1>5 DEF Hash!Label!DivideByte, AnswerInv, RefusalInv, MarkerInv, ReturnedInv
<1>6. CASE Hash!Label!StoreDigit
  <2> DEFINE at == Len(marker) + left - 1
             digit == <<Hash!Label!Alphabet(rem)>>
  <2>1. /\ labelPc = "divide" /\ labelPc' = "digit" /\ left \in 1..HashBodyLength
        /\ pc = "hash" /\ labelStatus' = labelStatus /\ Hash!Label!Store(digit, at)
    BY <1>6 DEF Hash!Label!StoreDigit, LabelInv, HashInv, CalledInv, DigitsLeftInv
  <2>2. at \in Nat /\ Len(marker) <= at /\ Len(digit) \in Nat
    BY <2>1
  <2>3. \A o \in 0..(Len(marker) - 1) : o \in DOMAIN label /\ label[o] = marker[o + 1]
    BY <2>1 DEF AnswerInv, MarkerInv
  <2> HIDE DEF at, digit
  <2>4. \A o \in 0..(Len(marker) - 1) : o \in DOMAIN label' /\ label'[o] = marker[o + 1]
    BY <1>s, <2>1, <2>2, <2>3
  <2> QED
    BY <2>1, <2>4 DEF AnswerInv, RefusalInv, MarkerInv, ReturnedInv
<1>7. CASE Hash!Label!Finish
  <2>1. /\ labelPc = "digit" /\ labelPc' = "done" /\ labelStatus' = "OK"
        /\ HashLength < cap /\ HashLength <= MaxLabelLength /\ pc = "hash"
        /\ Hash!Label!Store(<<0>>, HashLength)
    BY <1>7 DEF Hash!Label!Finish, Hash!Label!TerminatorAt, LabelInv, HashInv, CalledInv, CheckedInv
  <2>2. HashLength \in Nat /\ Len(marker) <= HashLength /\ Len(<<0>>) \in Nat
    OBVIOUS
  <2>3. \A o \in 0..(Len(marker) - 1) : o \in DOMAIN label /\ label[o] = marker[o + 1]
    BY <2>1 DEF AnswerInv, MarkerInv
  <2>4. \A o \in 0..(Len(marker) - 1) : o \in DOMAIN label' /\ label'[o] = marker[o + 1]
    BY <1>s, <2>1, <2>2, <2>3
  <2> QED
    BY <2>1, <2>4 DEF AnswerInv, RefusalInv, MarkerInv, ReturnedInv
<1> QED
  BY <1>1, <1>2, <1>3, <1>4, <1>5, <1>6, <1>7 DEF Hash!Label!Next

\* The return of the hash is the step of CProfile that makes the hash label.
LEMMA HashAnswers ==
  ASSUME LabelInv, AnswerInv, DigestComputed, HashReturns
  PROVE  HashCanonical
<1>1. /\ pc = "hash" /\ labelPc = "done" /\ Free(Released)
      /\ UNCHANGED <<call, temporary, core, canonical, sent>>
  BY DEF HashReturns
<1>2. /\ marker \in Seq(Byte \ {NUL}) /\ Len(marker) \in Nat
      /\ cap \in Nat /\ HashBodyLength \in Nat /\ MaxLabelLength \in Nat
      /\ HashLength \in Nat /\ HashLength = Len(marker) + HashBodyLength
  BY RoomTypes DEF LabelInv
<1>3. labelStatus = IF HashLength > MaxLabelLength THEN "LABEL_TOO_LONG"
                    ELSE IF HashLength >= cap THEN "BUFFER_TOO_SMALL" ELSE "OK"
  BY <1>1 DEF AnswerInv, RefusalInv
<1>4. LabelFits(Len(marker) + HashBodyLength) <=> ~(HashLength >= cap)
  BY <1>2 DEF LabelFits
<1>5. CASE labelStatus = "OK"
  <2>1. labelLength = Len(marker) + HashBodyLength
    BY <1>1, <1>2, <1>5 DEF LabelInv, HashInv, StoredInv
  <2>2. \A o \in 0..(Len(marker) - 1) : label[o] = marker[o + 1]
    BY <1>1, <1>5 DEF AnswerInv, MarkerInv
  <2>3. Places(label, Len(marker), HashBodyLength) = Digest(canonical)
    BY <1>1, <1>5 DEF DigestComputed, Places
  <2>4. [b \in 1..labelLength |-> label[b - 1]] = marker \o Digest(canonical)
    <3>1. marker \in Seq(Byte \ {NUL}) /\ HashBodyLength \in Nat
      BY <1>2
    <3>2. Places(label, 0, Len(marker) + HashBodyLength)
            = marker \o Places(label, Len(marker), HashBodyLength)
      BY <2>2, <3>1, ReadBack
    <3>3. [b \in 1..labelLength |-> label[b - 1]] = Places(label, 0, labelLength)
      <4>1. labelLength \in Nat
        BY <1>2, <2>1
      <4>2. \A b \in 1..labelLength : 0 + b - 1 = b - 1
        BY <4>1
      <4> QED
        BY <4>2 DEF Places
    <3> QED
      BY <2>1, <2>3, <3>2, <3>3, Zenon
  <2>5. Deliver(marker \o Digest(canonical))
    BY <1>5, <2>4, Zenon DEF HashReturns
  <2> QED
    BY <1>1, <1>2, <1>3, <1>4, <1>5, <2>5 DEF HashCanonical
<1>6. CASE labelStatus # "OK"
  <2>1. Refuse(labelStatus)
    BY <1>6 DEF HashReturns
  <2> QED
    BY <1>1, <1>2, <1>3, <1>4, <1>6, <2>1 DEF HashCanonical
<1> QED
  BY <1>5, <1>6

-----------------------------------------------------------------------------
\* The inductive invariant of the library: that of CProfile, and what holds in
\* the functions it calls.
LibraryInv == ProfileInv /\ LabelInv /\ CoreInv /\ AnswerInv

\* A step of the library is a step of CProfile, or leaves its variables alone.
LEMMA LibraryTakesSteps ==
  ASSUME AddressSpace, LibraryInv, DigestComputed, [LibraryStep \/ LibrarySend]_libraryVars
  PROVE  [Step \/ Send]_vars
<1>1. CASE CoreReturns
  <2>1. codecPc = "done"
    BY <1>1 DEF CoreReturns
  <2>2. CASE EncodeToCore({CoreAnswer})
    <3>1. pc = "body"
      BY <2>2 DEF EncodeToCore
    <3>2. CoreAnswer \in CoreAnswers(EncodeBody(input))
      BY <2>1, <3>1, CoreAnswerAllowed DEF LibraryInv
    <3>3. EncodeToCore(CoreAnswers(EncodeBody(input)))
      BY <2>2, <3>2 DEF EncodeToCore
    <3> QED
      BY <3>3 DEF Step
  <2>3. CASE EncodeToCanonical({CoreAnswer})
    <3>1. pc = "choose"
      BY <2>3 DEF EncodeToCanonical
    <3>2. CoreAnswer \in CoreAnswers(HashInput)
      BY <2>1, <3>1, CoreAnswerAllowed DEF LibraryInv
    <3>3. EncodeToCanonical(CoreAnswers(HashInput))
      BY <2>3, <3>2 DEF EncodeToCanonical
    <3> QED
      BY <3>3 DEF Step
  <2>4. CASE DecodeReversible({CoreAnswer})
    <3>1. pc = "dispatch"
      BY <2>4 DEF DecodeReversible
    <3>2. CoreAnswer \in Answers(DecodeBody(input), cap, Len(input) + 1)
      BY <2>1, <3>1, CoreAnswerAllowed DEF LibraryInv
    <3>3. DecodeReversible(Answers(DecodeBody(input), cap, Len(input) + 1))
      BY <2>4, <3>2 DEF DecodeReversible
    <3> QED
      BY <3>3 DEF Step
  <2> QED
    BY <1>1, <2>2, <2>3, <2>4 DEF CoreReturns
<1>2. CASE HashReturns
  BY <1>2, HashAnswers DEF LibraryInv, Step
<1>3. CASE DecodeReversible({})
  <2>1. DecodeReversible(Answers(DecodeBody(input), cap, Len(input) + 1))
    BY <1>3 DEF DecodeReversible
  <2> QED
    BY <2>1 DEF Step
<1> QED
  BY <1>1, <1>2, <1>3, LibrarySteps DEF Step

\* CoreInv is kept by every step.
LEMMA CoreSteps ==
  ASSUME AddressSpace, LibraryInv, [LibraryStep \/ LibrarySend]_libraryVars
  PROVE  CoreInv'
<1> CoreInv /\ ProfileInv
  BY DEF LibraryInv
<1>1. CASE CallEncodeBody \/ CallEncodeComponent \/ CallDecodeBody
  BY <1>1, CallStarts DEF CallEncodeBody, CallEncodeComponent, CallDecodeBody
<1>2. CASE CoreStep \/ HashStep \/ UNCHANGED libraryVars
  <2>1. UNCHANGED vars /\ (Codec!Next \/ UNCHANGED codecVars)
    BY <1>2 DEF CoreStep, HashStep, libraryVars
  <2> QED
    BY <2>1, ScannerSteps
<1>3. CASE CoreReturns
  BY <1>3 DEF CoreReturns, CoreInv
<1>4. CASE OwnStep \/ HashReturns \/ LibrarySend
  <2>1. codecPc = "idle"
    BY <1>4 DEF CoreInv, OwnStep, HashReturns, LibrarySend, EnterEncode, Malloc, Release,
                RefuseCore, CopyCore, EndCopy, EnterDecode, DecodeHashed, Send
  <2>2. UNCHANGED codecVars
    BY <1>4 DEF OwnStep, HashReturns, LibrarySend
  <2> QED
    BY <2>1, <2>2 DEF codecVars, CoreInv
<1> QED
  BY <1>1, <1>2, <1>3, <1>4 DEF LibraryStep

\* AnswerInv is kept by every step.
LEMMA AnswerKept ==
  ASSUME LabelInv, AnswerInv, [LibraryStep \/ LibrarySend]_libraryVars
  PROVE  AnswerInv'
<1>1. CASE UNCHANGED vars /\ UNCHANGED hashVars
  <2>1. UNCHANGED <<pc, marker, cap, labelPc, label, labelStatus>>
    BY <1>1 DEF vars, call, hashVars
  <2> QED
    BY <2>1 DEF AnswerInv, RefusalInv, MarkerInv, ReturnedInv, HashLength
<1>2. CASE HashStep
  <2>1. UNCHANGED vars /\ Hash!Step
    BY <1>2 DEF HashStep
  <2>2. CASE Hash!LabelStep
    BY <2>1, <2>2, AnswerSteps DEF Hash!LabelStep
  <2>3. CASE Hash!CallSha \/ Hash!ShaStep \/ Hash!TransformStep
    <3>1. UNCHANGED <<pc, marker, cap, labelPc, label, labelStatus>>
      BY <2>1, <2>3 DEF Hash!CallSha, Hash!ShaStep, Hash!TransformStep, Hash!labelVars, vars, call
    <3> QED
      BY <3>1 DEF AnswerInv, RefusalInv, MarkerInv, ReturnedInv, HashLength
  <2> QED
    BY <2>1, <2>2, <2>3 DEF Hash!Step
<1>3. CASE pc' = "hash" /\ CoreReturns
  <2>1. labelPc' = "enter" /\ labelPc = "idle" /\ labelStatus' = labelStatus
    BY <1>3 DEF CoreReturns, Hash!Start
  <2> QED
    BY <2>1 DEF AnswerInv, RefusalInv, MarkerInv, ReturnedInv
<1>4. CASE pc' # "hash" /\ UNCHANGED hashVars
  BY <1>4 DEF hashVars, AnswerInv, RefusalInv, MarkerInv, ReturnedInv
<1>5. CASE CallEncodeBody \/ CallEncodeComponent \/ CallDecodeBody \/ CoreStep
           \/ UNCHANGED libraryVars
  BY <1>1, <1>5 DEF CallEncodeBody, CallEncodeComponent, CallDecodeBody, CallCore, CoreStep,
                    libraryVars
<1>6. CASE OwnStep \/ LibrarySend \/ HashReturns
  <2>1. pc' # "hash" /\ UNCHANGED hashVars
    BY <1>6 DEF OwnStep, LibrarySend, HashReturns, EnterEncode, Malloc, Release,
                RefuseCore, CopyCore, EndCopy, EnterDecode, DecodeHashed, DecodeReversible, Send, Deliver, Refuse, Return
  <2> QED
    BY <1>4, <2>1
<1>7. CASE CoreReturns
  BY <1>3, <1>4, <1>7 DEF CoreReturns
<1> QED
  BY <1>2, <1>5, <1>6, <1>7 DEF LibraryStep

LEMMA LibraryInvStep ==
  ASSUME AddressSpace, LibraryInv, DigestComputed, [LibraryStep \/ LibrarySend]_libraryVars
  PROVE  LibraryInv'
<1>1. [Step \/ Send]_vars
  BY LibraryTakesSteps
<1> QED
  BY <1>1, ProfileStep, LabelStepKeeps, CoreSteps, AnswerKept DEF LibraryInv

LEMMA LibraryInvInit == LibraryInit => LibraryInv
<1> SUFFICES ASSUME LibraryInit PROVE LibraryInv
  OBVIOUS
<1>1. ProfileInv
  BY ProfileInit DEF LibraryInit
<1>2. LabelInv
  BY LabelInvInit
<1>3. CoreInv /\ AnswerInv
  BY DEF LibraryInit, Hash!Init, Init, CoreInv, AnswerInv, RefusalInv, MarkerInv, ReturnedInv
<1> QED
  BY <1>1, <1>2, <1>3 DEF LibraryInv

\* It holds in every state the library reaches, and every step is one of CProfile.
LEMMA LibraryInvariant ==
  ASSUME AddressSpace
  PROVE  LibrarySpec /\ []DigestComputed => [](ProfileInv) /\ [][Step \/ Send]_vars
<1>1. LibraryInv /\ DigestComputed /\ [LibraryStep \/ LibrarySend]_libraryVars => LibraryInv'
  BY LibraryInvStep
<1>2. LibraryInv /\ DigestComputed /\ [LibraryStep \/ LibrarySend]_libraryVars
        => [Step \/ Send]_vars
  BY LibraryTakesSteps
<1>3. LibraryInv => ProfileInv
  BY DEF LibraryInv
<1> QED
  BY <1>1, <1>2, <1>3, LibraryInvInit, PTL DEF LibrarySpec

\* the safety part of ImplementsSteps
TakesSteps == Init /\ [][Step \/ Send]_vars

\* ImplementsSteps, but for its liveness: with the Core functions and the hash
\* in place, on the buffers they are really given, the profile functions take
\* the steps CProfile describes with what those are defined to answer.
THEOREM LibraryImplementsSteps ==
  ASSUME AddressSpace
  PROVE  LibrarySpec /\ []DigestComputed => TakesSteps
<1>1. LibraryInit => Init
  BY DEF LibraryInit
<1> QED
  BY <1>1, LibraryInvariant, PTL DEF LibrarySpec, TakesSteps

\* So what CProfile promises of the profile functions holds of the library: the
\* shape of a label, what it decodes to, that case is ignored, and that a text
\* is refused for space only when there is none.
THEOREM LibraryKeepsPromises ==
  ASSUME AddressSpace
  PROVE  LibrarySpec /\ []DigestComputed
           => [](LabelShape /\ RefusedForSpace /\ LabelDecodes /\ CaseBlind)
<1>1. ProfileInv => LabelShape /\ RefusedForSpace /\ LabelDecodes /\ CaseBlind
  BY LabelShapeHolds, RefusedForSpaceHolds, LabelDecodesHolds, CaseBlindHolds
<1> QED
  BY <1>1, LibraryInvariant, PTL

\* And the library answers every call as ProfileContract allows, once.
THEOREM LibraryImplementsContract ==
  ASSUME AddressSpace
  PROVE  LibrarySpec /\ []DigestComputed => AnswersAsDefined
<1>1. ProfileInv /\ ProfileInv' /\ [Step \/ Send]_vars
        => [Contract!Answer \/ Contract!NewCall]_(Contract!contractVars)
  BY ContractStep
<1>2. LibraryInit => Contract!Init
  BY ContractInit DEF LibraryInit
<1> QED
  BY <1>1, <1>2, LibraryInvariant, PTL DEF LibrarySpec, AnswersAsDefined
=============================================================================
