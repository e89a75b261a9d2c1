------------------------------ MODULE MCCCodec ------------------------------
(***************************************************************************)
(* Small instances of CCodec: texts are concatenations of a few tokens.    *)
(***************************************************************************)
EXTENDS CCodecRefinement
LOCAL INSTANCE SequencesExt

Texts(tokens, n) == {FlattenSeq(s) : s \in BoundedSeq(tokens, n)}

\* '-', 'Z', U+00E9 and its first byte alone
PlainTokens == {<<45>>, <<90>>, <<195, 169>>, <<195>>}
PlainTexts  == Texts(PlainTokens, 5)

\* '-', 'a', '2', 'A', and the escapes of '-', of NUL and of U+00E9's bytes
EncodedTokens == {<<45>>, <<97>>, <<50>>, <<65>>, <<45, 50, 100>>, <<45, 48, 48>>,
                  <<45, 99, 51>>, <<45, 97, 57>>}
EncodedTexts  == Texts(EncodedTokens, 4)

EncodeCapacities == 0..12 \cup {16, 31}
DecodeCapacities == 0..7 \cup {13}
=============================================================================
