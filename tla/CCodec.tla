------------------------------- MODULE CCodec -------------------------------
(***************************************************************************)
(* The four Core functions of packages/c/src/def.c as one step machine:    *)
(* def_encode_component, def_decode_component, def_encode_body and         *)
(* def_decode_body, called with a NUL-terminated text and a caller's       *)
(* buffer of a given capacity.  A step is one iteration of a loop of the   *)
(* C code.  The caller's buffer is the function `out' from the offsets     *)
(* stored to so far to the bytes stored there, so that a store past the    *)
(* buffer and a byte that was never stored can both be seen.               *)
(***************************************************************************)
EXTENDS DefBytes

CONSTANTS
  Functions,     \* the API functions called
  Inputs,        \* the texts they are called with
  Capacities,    \* the values of output_capacity
  SizeModulus    \* SIZE_MAX + 1: where size_t arithmetic wraps

Encoders == {"encode_component", "encode_body"}
Decoders == {"decode_component", "decode_body"}
Bodies   == {"encode_body", "decode_body"}

ASSUME FunctionsAssumption == Functions \subseteq Encoders \cup Decoders
ASSUME InputsAssumption == Inputs \subseteq Seq(Byte \ {NUL})
ASSUME SizeAssumption ==
  /\ SizeModulus \in Nat /\ SizeModulus >= 8
  /\ Capacities \subseteq 0..(SizeModulus - 1)

VARIABLES
  fn, input, cap,          \* the call: function, text, output_capacity
  pc,                      \* the loop or check the call is at
  i, segmentStart, outLen, \* the locals of def_encode_body / def_decode_body
  k, len,                  \* position and length of encode_bytes / decode_bytes
  out,                     \* the caller's buffer: offset stored to -> byte
  status, length           \* the value returned and *output_length

call   == <<fn, input, cap>>
outer  == <<i, segmentStart, outLen>>
inner  == <<k, len>>
result == <<status, length>>
vars   == <<call, pc, outer, inner, out, result>>

NotSet == -1   \* *output_length as the caller left it

-----------------------------------------------------------------------------
\* a byte of the text or its terminator
At(p) == IF p < Len(input) THEN input[p + 1] ELSE NUL

\* mutant: off by one, a separator that ends the text is not seen
MutAtSeparator == i + 2 < Len(input) /\ At(i) = HYPHEN /\ At(i + 1) = HYPHEN

AtSeparator == i + 1 < Len(input) /\ At(i) = HYPHEN /\ At(i + 1) = HYPHEN

\* the component found: input[segment_start] up to input[i - 1]
Component    == SubSeq(input, segmentStart + 1, i)
ComponentLen == i - segmentStart

\* size_t arithmetic
Plus(a, b)  == (a + b) % SizeModulus
Minus(a, b) == IF b <= a THEN a - b ELSE a - b + SizeModulus

\* the capacity encode_bytes and decode_bytes are called with
Room == IF fn \in Encoders /\ cap <= outLen THEN 0 ELSE Minus(cap, outLen)

\* mutant: one byte more than needed is asked for
StrictFits(l, n, room) == Plus(l, n + 1) < room

\* n more bytes and a terminator fit in room when l bytes are there already
Fits(l, n, room) == Plus(l, n) < room

\* mutant: the terminator is counted twice
MutSeparatorFits(l) == Plus(l, 3) < cap

\* the separator and a terminator fit in the caller's buffer
SeparatorFits(l) == Plus(l, 2) < cap

\* The text with its terminator and the caller's buffer are two objects in one
\* address space: what the caller of a C function has to provide.
Disjoint(text, capacity) == Len(text) + 1 + capacity <= SizeModulus

Store(bytes, at) ==
  out' = [o \in DOMAIN out \cup at..(at + Len(bytes) - 1) |->
            IF o \in at..(at + Len(bytes) - 1) THEN bytes[o - at + 1] ELSE out[o]]

Return(s) == pc' = "done" /\ status' = s

Init ==
  /\ fn \in Functions /\ input \in Inputs /\ cap \in Capacities
  /\ Disjoint(input, cap)
  /\ pc = "enter"
  /\ i = 0 /\ segmentStart = 0 /\ outLen = 0
  /\ k = 0 /\ len = 0
  /\ out = [o \in {} |-> NUL]
  /\ status = "PENDING" /\ length = NotSet

-----------------------------------------------------------------------------
\* mutant: no function looks at the capacity on entry
MutRefusesBuffer == FALSE

\* a decoder refuses an empty buffer, an encoder finds out when it stores
RefusesBuffer == fn \in Decoders /\ cap = 0

\* The component functions hand the whole text to encode_bytes / decode_bytes,
\* the body functions scan it first.
Enter ==
  /\ pc = "enter"
  /\ IF RefusesBuffer
     THEN Return("BUFFER_TOO_SMALL") /\ UNCHANGED i
     ELSE /\ pc' = "scan"
          /\ i' = IF fn \in Bodies THEN 0 ELSE Len(input)
          /\ UNCHANGED status
  /\ UNCHANGED <<call, segmentStart, outLen, inner, out, length>>

Scan ==
  /\ pc = "scan"
  /\ i < Len(input) /\ ~AtSeparator
  /\ i' = i + 1
  /\ UNCHANGED <<call, pc, segmentStart, outLen, inner, out, result>>

\* A component ends here: encode_bytes or decode_bytes is called on it.  The
\* encoder validates the component before it stores anything.
BeginComponent ==
  /\ pc = "scan"
  /\ i = Len(input) \/ AtSeparator
  /\ k' = 0 /\ len' = 0
  /\ IF fn \in Encoders /\ ~Utf8Validate(Component)
     THEN Return("INVALID_UTF8")
     ELSE /\ pc' = IF fn \in Encoders THEN "emit" ELSE "take"
          /\ UNCHANGED status
  /\ UNCHANGED <<call, outer, out, length>>

-----------------------------------------------------------------------------
\* One byte of the component, or one escape, is appended to the output; the
\* loop is left when there is no room.
AppendByte(bytes, consumed, loop) ==
  IF Fits(len, Len(bytes), Room)
  THEN /\ Store(bytes, outLen + len)
       /\ len' = len + Len(bytes)
       /\ k' = k + consumed
       /\ pc' = loop
       /\ UNCHANGED status
  ELSE /\ Return("BUFFER_TOO_SMALL")
       /\ UNCHANGED <<inner, out>>

Emit ==
  /\ pc = "emit" /\ k < ComponentLen
  /\ AppendByte(EncodeByte(Canonical(At(segmentStart + k))), 1, "emit")
  /\ UNCHANGED <<call, outer, length>>

\* the component is terminated at its end
Terminate ==
  /\ Store(<<NUL>>, outLen + len)
  /\ pc' = "append"
  /\ UNCHANGED status

\* mutant: off by one
MutTerminatorFits == len <= Room

TerminatorFits == len < Room

EndEncode ==
  /\ pc = "emit" /\ k >= ComponentLen
  /\ IF TerminatorFits THEN Terminate
     ELSE Return("BUFFER_TOO_SMALL") /\ UNCHANGED out
  /\ UNCHANGED <<call, outer, inner, length>>

\* mutant: off by one, as if the digits were at k and k + 1
MutEscapeComplete == k + 2 <= ComponentLen

\* an escape of three characters starts at position k of the component
EscapeComplete == k + 3 <= ComponentLen

TakeLiteral ==
  /\ pc = "take" /\ k < ComponentLen
  /\ IsLiteralByte(At(segmentStart + k))
  /\ AppendByte(<<At(segmentStart + k)>>, 1, "take")
  /\ UNCHANGED <<call, outer, length>>

TakeHyphen ==
  /\ pc = "take" /\ k < ComponentLen
  /\ ~IsLiteralByte(At(segmentStart + k))
  /\ IF At(segmentStart + k) = HYPHEN /\ EscapeComplete
     THEN pc' = "hex" /\ UNCHANGED status
     ELSE Return("INVALID_ESCAPE")
  /\ UNCHANGED <<call, outer, inner, out, length>>

TakeEscape ==
  LET h == At(segmentStart + k + 1)
      l == At(segmentStart + k + 2)
  IN  /\ pc = "hex"
      /\ IF IsHexDigit(h) /\ IsHexDigit(l)
         THEN AppendByte(<<HexByte(h, l)>>, 3, "take")
         ELSE Return("INVALID_ESCAPE") /\ UNCHANGED <<inner, out>>
      /\ UNCHANGED <<call, outer, length>>

\* the bytes decoded from this component
Payload == [b \in 1..len |-> out[outLen + b - 1]]

\* The decoder validates what it stored, then terminates it.
EndDecode ==
  /\ pc = "take" /\ k >= ComponentLen
  /\ IF Utf8Validate(Payload) THEN Terminate
     ELSE Return("INVALID_UTF8") /\ UNCHANGED out
  /\ UNCHANGED <<call, outer, inner, length>>

-----------------------------------------------------------------------------
\* mutant: the separator is taken to be three bytes
MutAfterSeparator == i + 3

AfterSeparator == i + 2

\* mutant: the length of the last component only
MutTotal == len

\* the length of the output up to the end of this component
Total == outLen + len

\* The component is in the output: copy the separator that follows it and go
\* on behind it, or return.
EndComponent ==
  /\ pc = "append"
  /\ IF AtSeparator
     THEN IF SeparatorFits(Total)
          THEN /\ Store(<<HYPHEN, HYPHEN, NUL>>, Total)
               /\ outLen' = Total + 2
               /\ i' = AfterSeparator /\ segmentStart' = AfterSeparator
               /\ pc' = "scan"
               /\ UNCHANGED result
          ELSE /\ Return("BUFFER_TOO_SMALL")
               /\ outLen' = Total
               /\ UNCHANGED <<i, segmentStart, out, length>>
     ELSE /\ Return("OK")
          /\ outLen' = Total
          /\ length' = Total
          /\ UNCHANGED <<i, segmentStart, out>>
  /\ UNCHANGED <<call, inner>>

Next == \/ Enter \/ Scan \/ BeginComponent
        \/ Emit \/ EndEncode
        \/ TakeLiteral \/ TakeHyphen \/ TakeEscape \/ EndDecode
        \/ EndComponent

Spec == Init /\ [][Next]_vars /\ WF_vars(Next)

-----------------------------------------------------------------------------
TypeOK ==
  /\ fn \in Encoders \cup Decoders /\ input \in Seq(Byte \ {NUL}) /\ cap \in Capacities
  /\ pc \in {"enter", "scan", "emit", "take", "hex", "append", "done"}
  /\ i \in 0..Len(input) /\ segmentStart \in 0..i
  /\ k \in 0..Len(input)
  /\ outLen \in Nat /\ len \in Nat
  /\ out \in [DOMAIN out -> Byte] /\ DOMAIN out \subseteq Nat
  /\ status \in {"PENDING", "OK", "BUFFER_TOO_SMALL", "INVALID_ESCAPE", "INVALID_UTF8"}
  /\ length \in Nat \cup {NotSet}

\* No function stores outside the caller's buffer, whatever its capacity.
\* (Every store in def.c: 26, 36-38, 316, 336, 356, 364, 493-495, 544-546.)
StoresInBuffer == DOMAIN out \subseteq 0..(cap - 1)

\* The decoder stays in the component it was called on: the two digits of an
\* escape are read neither past the text nor across a separator, and stepping
\* over an escape never leaves the component behind (def.c:344-349, 357).
ReadsInComponent ==
  /\ pc = "hex" => segmentStart + k + 2 < i
  /\ pc = "take" => segmentStart + k <= i

\* A call that returns OK has stored every byte it reports and terminated
\* them; a call that fails leaves *output_length alone.
ReturnContract ==
  pc = "done" =>
    IF status = "OK"
    THEN /\ length \in Nat
         /\ 0..length \subseteq DOMAIN out
         /\ out[length] = NUL
    ELSE length = NotSet

\* What encode_bytes emits for a component never holds a raw "--": neither
\* inside one escape nor where two of them meet (RFC section 10, invariant 5).
NoRawSeparator ==
  pc \in {"emit", "append"} /\ fn \in Encoders =>
    \A o \in outLen..(outLen + len - 2) : ~(out[o] = HYPHEN /\ out[o + 1] = HYPHEN)

\* The capacity def_encode_profile computes for its temporary buffers,
\* 3 * strlen + 1, is never refused as too small (def.c:390-396), and neither
\* is strlen + 1 by a decoder.
WorstCaseCapacity ==
  pc = "done" /\ status = "BUFFER_TOO_SMALL" =>
    cap < IF fn \in Encoders THEN 3 * Len(input) + 1 ELSE Len(input) + 1
=============================================================================
