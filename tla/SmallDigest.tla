----------------------------- MODULE SmallDigest -----------------------------
(***************************************************************************)
(* What the small instances share: texts made of tokens, and a digest of   *)
(* five bytes that stands for SHA-256 in base36.                           *)
(***************************************************************************)
EXTENDS Integers, Sequences
LOCAL INSTANCE SequencesExt

Strings(tokens, n) == {FlattenSeq(s) : s \in BoundedSeq(tokens, n)}

\* five base36 digits that depend on every byte and its place
Checksum(s) ==
  LET sum(m) == FoldLeft(LAMBDA acc, b : (acc * m + b) % 36, 7, s)
  IN  [j \in 1..5 |-> IF sum(j + 1) < 10 THEN 48 + sum(j + 1) ELSE 87 + sum(j + 1)]
=============================================================================
