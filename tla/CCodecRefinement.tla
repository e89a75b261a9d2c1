-------------------------- MODULE CCodecRefinement --------------------------
(***************************************************************************)
(* The C functions implement the contract of a codec call: the answer is   *)
(* pending until the call returns, and is then the status with the first   *)
(* *output_length bytes of the caller's buffer.                            *)
(***************************************************************************)
EXTENDS CCodec, DefCore

\* the outcome of each function for a text
Defined(f, text) ==
  IF f \in Encoders
  THEN Encoded(text, IF f = "encode_body" THEN EncodeBody(text) ELSE EncodeComponent(text))
  ELSE IF f = "decode_body" THEN DecodeBody(text) ELSE DecodeComponent(text)

Contract == INSTANCE CodecContract WITH
  answer <- [status |-> status,
             text   |-> IF status = "OK" THEN [b \in 1..length |-> out[b - 1]]
                        ELSE <<>>]

\* Every call is answered, exactly once, with the answer the contract allows:
\* the C scanner computes what split, code and join compute in the other
\* ports (packages/go/def/def.go:67-73, 122-132) and uses the whole capacity.
ImplementsContract == Contract!Spec
=============================================================================
