------------------------------- MODULE CHash -------------------------------
(***************************************************************************)
(* encode_profile_hash of packages/c/src/def.c with all it calls: the      *)
(* checks and the marker of CHashLabel, then SHA-256 as CSha256 cuts it in *)
(* blocks and CSha256Transform compresses each of them, then the division  *)
(* of the digest in CHashLabel.                                            *)
(***************************************************************************)
EXTENDS Integers, Sequences

CONSTANTS
  Canonicals,         \* the texts hashed
  Markers, Capacities,
  HashBodyLength, MaxLabelLength,
  CountModulus

DigestLength == 32

VARIABLES
  canonical, marker, cap,               \* the call
  labelPc, buf, left, j, rem,           \* encode_profile_hash, base36_encode
  label, labelStatus, labelLength,
  shaPc, phase, data, taken, idx,       \* sha256_digest and what it calls
  count, buffer, blocks, bitcount,
  state, stage, t, w, r                 \* sha256_transform

labelVars     == <<labelPc, buf, left, j, rem, label, labelStatus, labelLength>>
shaVars       == <<shaPc, phase, data, taken, idx, count, buffer, blocks, bitcount>>
transformVars == <<state, stage, t, w, r>>
hashVars      == <<labelVars, shaVars, transformVars>>

Transform == INSTANCE CSha256Transform

Sha == INSTANCE CSha256 WITH
  Messages <- Canonicals, message <- canonical, pc <- shaPc, i <- taken

Label == INSTANCE CHashLabel WITH
  Digests <- {}, digest <- Transform!StateBytes,
  pc <- labelPc, i <- left, output <- label, status <- labelStatus, length <- labelLength

Init ==
  /\ labelPc = "idle" /\ buf = Label!NotWritten /\ left = 0 /\ j = 0 /\ rem = 0
  /\ label = [o \in {} |-> 0] /\ labelStatus = "PENDING" /\ labelLength = Label!NotSet
  /\ shaPc = "idle" /\ phase = "text" /\ data = <<>> /\ taken = 0 /\ idx = 0
  /\ count = 0 /\ blocks = <<>> /\ bitcount = 0
  /\ buffer = [o \in 0..(Sha!BlockSize - 1) |-> Sha!Undefined]
  /\ Transform!Init

\* the function is called
Start ==
  /\ labelPc = "idle" /\ labelPc' = "enter"
  /\ UNCHANGED <<buf, left, j, rem, label, labelStatus, labelLength, shaVars, transformVars>>

\* the checks have passed, and the digest is not there yet
Digesting == labelPc = "marker" /\ shaPc # "done"

\* sha256_digest is called with the whole text
CallSha ==
  /\ Digesting /\ shaPc = "idle"
  /\ shaPc' = "update" /\ data' = canonical
  /\ UNCHANGED <<labelVars, phase, taken, idx, count, buffer, blocks, bitcount, transformVars>>

\* every block that is compressed into the context goes through the transform
ShaStep ==
  /\ Digesting /\ stage = "idle"
  /\ Sha!Next
  /\ IF blocks' = blocks THEN UNCHANGED transformVars
     ELSE Transform!Load(blocks'[Len(blocks')])
  /\ UNCHANGED labelVars

TransformStep ==
  /\ Digesting /\ Transform!Compressing
  /\ UNCHANGED <<labelVars, shaVars>>

LabelStep ==
  /\ ~Digesting
  /\ UNCHANGED <<shaVars, transformVars>>
  /\ Label!Next

Step == CallSha \/ ShaStep \/ TransformStep \/ LabelStep
=============================================================================
