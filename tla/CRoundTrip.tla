----------------------------- MODULE CRoundTrip -----------------------------
(***************************************************************************)
(* A caller of the C functions, as in packages/c/tests/test_vectors.c:     *)
(* the text it encodes is handed as a C string to the matching decoder,    *)
(* and what comes back is encoded a second time.  The three calls share    *)
(* nothing but the bytes in the caller's buffers.                          *)
(***************************************************************************)
EXTENDS CCodec, DefCore

VARIABLES
  original,   \* the text of the first call
  first       \* the representation it was encoded to, <<>> until then

callerVars == <<vars, original, first>>

\* the caller's buffer as strlen sees it: the bytes before the first NUL
CString ==
  LET n == CHOOSE o \in DOMAIN out :
             out[o] = NUL /\ \A p \in 0..(o - 1) : out[p] # NUL
  IN  [b \in 1..n |-> out[b - 1]]

\* A new call, with a buffer of its own.
Call(f, text) ==
  /\ fn' = f /\ input' = text
  /\ cap' \in Capacities /\ Disjoint(text, cap')
  /\ pc' = "enter"
  /\ i' = 0 /\ segmentStart' = 0 /\ outLen' = 0
  /\ k' = 0 /\ len' = 0
  /\ out' = [o \in {} |-> NUL]
  /\ status' = "PENDING" /\ length' = NotSet

Succeeded == pc = "done" /\ status = "OK"

Start == Init /\ fn \in Encoders /\ original = input /\ first = <<>>

Run == Next /\ UNCHANGED <<original, first>>

DecodeResult ==
  /\ Succeeded /\ fn \in Encoders /\ input = original /\ first = <<>>
  /\ first' = CString
  /\ Call(IF fn = "encode_body" THEN "decode_body" ELSE "decode_component", CString)
  /\ UNCHANGED original

EncodeAgain ==
  /\ Succeeded /\ fn \in Decoders
  /\ Call(IF fn = "decode_body" THEN "encode_body" ELSE "encode_component", CString)
  /\ UNCHANGED <<original, first>>

RoundTripNext == Run \/ DecodeResult \/ EncodeAgain

RoundTripSpec == Start /\ [][RoundTripNext]_callerVars

-----------------------------------------------------------------------------
\* What an encoder produced, the decoder never rejects as malformed, and it
\* decodes to the original text in ASCII lower case (RFC section 4:
\* decode(encode(x)) == lowercase_ascii(x); test_vectors.c:589-617).
RoundTrip ==
  pc = "done" /\ fn \in Decoders =>
    /\ status \in {"OK", "BUFFER_TOO_SMALL"}
    /\ status = "OK" => CString = Lowercase(original) /\ length = Len(original)

\* The representation is stable: encoding what a representation decodes to
\* gives the same representation, whichever buffers the calls were given.
StableRepresentation ==
  Succeeded /\ fn \in Encoders /\ first # <<>> => CString = first

\* The hierarchy survives encoding: the text and its representation have the
\* same number of components, and an empty component is empty in both.
KeepsHierarchy ==
  Succeeded /\ fn = "encode_body" =>
    LET plain == Split(input)  coded == Split(CString)
    IN  /\ Len(plain) = Len(coded)
        /\ \A j \in DOMAIN plain : plain[j] = <<>> <=> coded[j] = <<>>
=============================================================================
