----------------------------- MODULE MCRoundTrip -----------------------------
(***************************************************************************)
(* Small instances of CRoundTrip: texts are concatenations of a few tokens.*)
(***************************************************************************)
EXTENDS CRoundTrip
LOCAL INSTANCE SequencesExt

\* '-', 'a', '2', 'D', 'Z', '@', U+00E9 and the first byte of it alone
Tokens == {<<45>>, <<97>>, <<50>>, <<68>>, <<90>>, <<64>>, <<195, 169>>, <<195>>}
Texts  == {FlattenSeq(s) : s \in BoundedSeq(Tokens, 4)}

CallCapacities == {2, 8, 25}
=============================================================================
