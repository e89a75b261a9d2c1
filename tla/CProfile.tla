------------------------------ MODULE CProfile ------------------------------
(***************************************************************************)
(* def_encode_profile and def_decode_profile of packages/c/src/def.c, and  *)
(* a caller that decodes the label it was given.  A step is one call that  *)
(* the function makes, or one of its exits.  The Core functions it calls   *)
(* are taken by their contract, which CCodec is shown to implement: the    *)
(* three steps that call one are given the answers it may have.            *)
(* malloc may fail; the heap records what becomes of the two temporary     *)
(* buffers.                                                                *)
(***************************************************************************)
EXTENDS DefProfile
LOCAL INSTANCE SequencesExt

CONSTANTS
  Texts,         \* texts encoded
  Labels,        \* labels decoded
  Markers,       \* hash markers, valid or not
  Capacities,    \* values of output_capacity
  SizeMax        \* SIZE_MAX

ASSUME CallsAssumption ==
  /\ Texts \cup Labels \cup Markers \subseteq Seq(Byte \ {NUL})
  /\ SizeMax \in Nat /\ Capacities \subseteq 0..SizeMax
ASSUME DigestAssumption ==
  \A s \in Texts : /\ Digest(EncodeComponent(s)) \in Seq(Byte)
                   /\ IsDigest(Digest(EncodeComponent(s)))

VARIABLES
  op, input, marker, cap,   \* the call
  pc,
  temporary,                \* temporary_capacity
  heap,                     \* the two pointers, and what they point to
  core, canonical,          \* the texts in the two temporary buffers
  output, status, length,   \* the caller's buffer, the status and *output_length
  sent                      \* the call whose label is being decoded

call   == <<op, input, marker, cap>>
locals == <<temporary, heap, core, canonical>>
result == <<output, status, length>>
vars   == <<call, pc, locals, result, sent>>

NotSet   == -1
Nothing  == [text |-> <<>>, marker |-> <<>>]
Pointers == {"core", "canonical"}

\* free(): a null pointer is left alone; freeing what is not allocated is misuse
Free(pointers) ==
  heap' = [p \in Pointers |->
             IF p \notin pointers \/ heap[p] = "null" THEN heap[p]
             ELSE IF heap[p] = "live" THEN "freed" ELSE "misused"]

Return(s) == pc' = "done" /\ status' = s

Init ==
  /\ \/ op = "encode" /\ input \in Texts
     \/ op = "decode" /\ input \in Labels
  /\ marker \in Markers /\ cap \in Capacities
  /\ pc = "enter"
  /\ temporary = 0 /\ heap = [p \in Pointers |-> "unset"]
  /\ core = <<>> /\ canonical = <<>>
  /\ output = <<>> /\ status = "PENDING" /\ length = NotSet
  /\ sent = Nothing

-----------------------------------------------------------------------------
\* mutant: no room for the terminator
MutEncodedCapacity(n) == n * 3

\* checked_encoded_capacity: the worst case for n bytes, when it is a size_t
EncodedCapacity(n) == n * 3 + 1

\* mutant: the terminator is not counted
MutOverflows(n) == n > SizeMax \div 3

Overflows(n) == n > (SizeMax - 1) \div 3

EnterEncode ==
  /\ pc = "enter" /\ op = "encode"
  /\ IF ~ValidMarker(marker)
     THEN Return("INVALID_ENCODING") /\ UNCHANGED temporary
     ELSE IF Overflows(Len(input))
     THEN Return("BUFFER_TOO_SMALL") /\ UNCHANGED temporary
     ELSE /\ temporary' = EncodedCapacity(Len(input))
          /\ pc' = "malloc" /\ UNCHANGED status
  /\ UNCHANGED <<call, heap, core, canonical, output, length, sent>>

\* Both buffers are asked for before either answer is looked at.
Malloc ==
  /\ pc = "malloc"
  /\ heap' \in [Pointers -> {"live", "null"}]
  /\ pc' = IF \E p \in Pointers : heap'[p] = "null" THEN "release" ELSE "body"
  /\ UNCHANGED <<call, temporary, core, canonical, result, sent>>

\* mutant: the second buffer is forgotten
MutReleased == {"core"}

\* what is freed on every way out
Released == {"core", "canonical"}

Release ==
  /\ pc = "release"
  /\ Free(Released) /\ Return("BUFFER_TOO_SMALL")
  /\ UNCHANGED <<call, temporary, core, canonical, output, length, sent>>

\* a Core encoder's answer for one of the temporary buffers
CoreAnswers(text) ==
  Answers(Encoded(input, text), temporary, 3 * Len(input) + 1)

\* def_encode_body into the first buffer, then the edges of what it gave
EncodeToCore(answers) ==
  /\ pc = "body"
  /\ \E r \in answers :
       /\ core' = r.text
       /\ IF r.status # "OK" THEN Return(r.status) /\ Free(Released)
          ELSE IF BadEdges(r.text) THEN Return("INVALID_ENCODING") /\ Free(Released)
          ELSE pc' = "choose" /\ UNCHANGED <<heap, status>>
  /\ UNCHANGED <<call, temporary, canonical, output, length, sent>>

\* mutant: a body that begins with the marker is sent as it is
MutReversible == Len(core) <= MaxLabelLength

\* the body is short enough and cannot be mistaken for a hash label
Reversible == Len(core) <= MaxLabelLength /\ ~IsPrefix(marker, core)

Deliver(text) ==
  /\ Return("OK")
  /\ output' = text /\ length' = Len(text)

Refuse(s) == Return(s) /\ UNCHANGED <<output, length>>

\* mutant: the terminator is forgotten
MutLabelFits(n) == n <= cap

\* a label of n bytes and its terminator fit in the caller's buffer
LabelFits(n) == n + 1 <= cap

RefuseCore ==
  /\ pc = "choose" /\ Reversible /\ ~LabelFits(Len(core))
  /\ Free(Released) /\ Return("BUFFER_TOO_SMALL")
  /\ UNCHANGED <<call, temporary, core, canonical, output, length, sent>>

\* memcpy of the first buffer, and *output_length
CopyCore ==
  /\ pc = "choose" /\ Reversible /\ LabelFits(Len(core))
  /\ output' = core /\ length' = Len(core)
  /\ pc' = "copied"
  /\ UNCHANGED <<call, locals, status, sent>>

\* the frees and the return, after the copy
EndCopy ==
  /\ pc = "copied"
  /\ Free(Released) /\ Return("OK")
  /\ UNCHANGED <<call, temporary, core, canonical, output, length, sent>>

\* mutant: the text is hashed as it was given
MutHashInput == input

\* the hash input: the whole text as one component, in lower case
HashInput == EncodeComponent(input)

\* def_encode_component of the text into the second buffer
EncodeToCanonical(answers) ==
  /\ pc = "choose" /\ ~Reversible
  /\ \E r \in answers :
       /\ canonical' = r.text
       /\ IF r.status = "OK" THEN pc' = "hash" /\ UNCHANGED <<heap, status>>
          ELSE Return(r.status) /\ Free(Released)
  /\ UNCHANGED <<call, temporary, core, output, length, sent>>

\* encode_profile_hash: lengths first, then the digest behind the marker
HashCanonical ==
  /\ pc = "hash"
  /\ IF Len(marker) + HashBodyLength > MaxLabelLength THEN Refuse("LABEL_TOO_LONG")
     ELSE IF ~LabelFits(Len(marker) + HashBodyLength) THEN Refuse("BUFFER_TOO_SMALL")
     ELSE Deliver(marker \o Digest(canonical))
  /\ Free(Released)
  /\ UNCHANGED <<call, temporary, core, canonical, sent>>

-----------------------------------------------------------------------------
EnterDecode ==
  /\ pc = "enter" /\ op = "decode"
  /\ IF ValidMarker(marker) THEN pc' = "dispatch" /\ UNCHANGED status
     ELSE Return("INVALID_ENCODING")
  /\ UNCHANGED <<call, locals, output, length, sent>>

\* A label that begins with the marker is never decoded, digest or not.
DecodeHashed ==
  /\ pc = "dispatch" /\ IsPrefix(marker, input)
  /\ Return(IF IsDigest(SubSeq(input, Len(marker) + 1, Len(input)))
            THEN "NOT_DECODABLE" ELSE "INVALID_ENCODING")
  /\ UNCHANGED <<call, locals, output, length, sent>>

DecodeReversible(answers) ==
  /\ pc = "dispatch" /\ ~IsPrefix(marker, input)
  /\ IF Len(input) > MaxLabelLength THEN Refuse("LABEL_TOO_LONG")
     ELSE IF BadEdges(input) THEN Refuse("INVALID_ENCODING")
     ELSE \E r \in answers :
            IF r.status = "OK" THEN Deliver(r.text) ELSE Refuse(r.status)
  /\ UNCHANGED <<call, locals, sent>>

-----------------------------------------------------------------------------
\* The caller hands the label it was given to the decoder.
Send ==
  /\ pc = "done" /\ op = "encode" /\ status = "OK"
  /\ sent' = [text |-> input, marker |-> marker]
  /\ op' = "decode" /\ input' = output
  /\ marker' = marker /\ cap' \in Capacities
  /\ pc' = "enter"
  /\ temporary' = 0 /\ heap' = [p \in Pointers |-> "unset"]
  /\ core' = <<>> /\ canonical' = <<>>
  /\ output' = <<>> /\ status' = "PENDING" /\ length' = NotSet

Step == \/ EnterEncode \/ Malloc \/ Release
        \/ EncodeToCore(CoreAnswers(EncodeBody(input)))
        \/ RefuseCore \/ CopyCore \/ EndCopy
        \/ EncodeToCanonical(CoreAnswers(HashInput)) \/ HashCanonical
        \/ EnterDecode \/ DecodeHashed
        \/ DecodeReversible(Answers(DecodeBody(input), cap, Len(input) + 1))

Spec == Init /\ [][Step \/ Send]_vars /\ WF_vars(Step)

-----------------------------------------------------------------------------
TypeOK ==
  /\ op \in {"encode", "decode"} /\ marker \in Markers /\ cap \in Capacities
  /\ input \in Seq(Byte \ {NUL})
  /\ pc \in {"enter", "malloc", "release", "body", "choose", "copied", "hash",
            "dispatch", "done"}
  /\ temporary \in 0..SizeMax
  /\ heap \in [Pointers -> {"unset", "null", "live", "freed", "misused"}]
  /\ core \in Seq(Byte) /\ canonical \in Seq(Byte) /\ output \in Seq(Byte)
  /\ status \in {"PENDING", "OK", "LABEL_TOO_LONG", "INVALID_ESCAPE", "INVALID_UTF8",
                  "BUFFER_TOO_SMALL", "INVALID_ENCODING", "NOT_DECODABLE"}
  /\ length \in Nat \cup {NotSet}

\* Every way out of def_encode_profile frees what was allocated, exactly once,
\* and frees nothing else: whichever malloc failed, whichever check refused
\* the text; and not before the Core functions, the copy and the hash have
\* written and read the two buffers: both are there when the label has been
\* copied out of the first (def.c:583-630).
HeapDiscipline ==
  /\ \A p \in Pointers : heap[p] # "misused"
  /\ pc \in {"body", "choose", "copied", "hash"} => \A p \in Pointers : heap[p] = "live"
  /\ pc = "done" => \A p \in Pointers : heap[p] # "live"

\* A label that is returned is a DNS label of lower case letters, digits and
\* hyphens, not empty and not ending in a hyphen, and it begins with a hyphen
\* only when the configured marker does.
LabelShape ==
  op = "encode" /\ status = "OK" =>
    /\ \A j \in DOMAIN output : IsLiteralByte(output[j]) \/ output[j] = HYPHEN
    /\ output # <<>> /\ output[Len(output)] # HYPHEN
    /\ output[1] = HYPHEN => IsPrefix(marker, output)

\* What is returned fits the caller's buffer with its terminator, and a label
\* is never longer than DNS allows, whichever of the two forms it has.
LabelBounds ==
  status = "OK" =>
    /\ length = Len(output)
    /\ IF op = "encode" THEN length + 1 <= cap /\ length <= MaxLabelLength
       ELSE length < cap

\* An encoding is refused for space only when a malloc failed, the temporary
\* capacity is no size_t, or the label does not fit the caller's buffer: the
\* temporary buffers are never the reason.
RefusedForSpace ==
  op = "encode" /\ status = "BUFFER_TOO_SMALL" =>
    \/ Overflows(Len(input))
    \/ \E p \in Pointers : heap[p] = "null"
    \/ LET r == EncodeProfile(input, marker)
       IN  r.status = "OK" /\ Len(r.text) >= cap

\* The decoder takes a label it is sent for what the encoder made it: a label
\* with the marker is reported as a hash label, any other gives the original
\* text in lower case, and neither is rejected (RFC sections 4 and 12.2).
LabelDecodes ==
  sent # Nothing /\ pc = "done" =>
    IF IsPrefix(sent.marker, input) THEN status = "NOT_DECODABLE"
    ELSE /\ status \in {"OK", "BUFFER_TOO_SMALL"}
         /\ status = "OK" => output = Lowercase(sent.text)

\* Texts that differ in ASCII case only get the same label, hashed or not.
CaseBlind ==
  op = "encode" /\ status = "OK" =>
    output = EncodeProfile(Lowercase(input), marker).text
=============================================================================
