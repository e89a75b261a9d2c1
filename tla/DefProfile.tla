----------------------------- MODULE DefProfile -----------------------------
(***************************************************************************)
(* The DNS profile as functions on whole strings: a text becomes one DNS   *)
(* label, reversible when it is short enough, and otherwise a marker and a *)
(* digest.  SHA-256 followed by base36 is the constant Digest; the lengths *)
(* are constants so that small instances reach them.                       *)
(***************************************************************************)
EXTENDS DefCore
LOCAL INSTANCE SequencesExt

CONSTANTS
  MaxLabelLength,     \* 63
  HashBodyLength,     \* 50
  MaxMarkerLength,    \* 13
  Digest(_)           \* what is appended to the marker for a hash input

ASSUME LengthsAssumption ==
  /\ MaxLabelLength \in Nat /\ HashBodyLength \in Nat \ {0}
  /\ MaxMarkerLength \in 3..MaxLabelLength
  /\ MaxMarkerLength + HashBodyLength = MaxLabelLength

\* a byte of a base36 digest; the literal bytes of DEF are the same set
IsBase36Byte(b) == IsDigit(b) \/ b \in 97..122

ReservedPrefix == <<120, 110, 45, 45>>   \* "xn--"

ValidMarker(m) ==
  /\ Len(m) \in 3..MaxMarkerLength
  /\ IsSuffix(Separator, m)
  /\ ~IsPrefix(ReservedPrefix, m)
  /\ \A j \in DOMAIN m : IsLiteralByte(m[j]) \/ m[j] = HYPHEN

\* mutant: the last byte is not looked at
MutBadEdges(label) == label = <<>> \/ label[1] = HYPHEN

\* empty, or a hyphen at an edge
BadEdges(label) ==
  \/ label = <<>>
  \/ label[1] = HYPHEN
  \/ label[Len(label)] = HYPHEN

\* What every port does with an encoded body: it is the label when it is short
\* enough and cannot be taken for a hash label, otherwise hashInput is hashed.
LabelOf(body, hashInput, m) ==
  IF BadEdges(body) THEN Failure("INVALID_ENCODING")
  ELSE IF Len(body) <= MaxLabelLength /\ ~IsPrefix(m, body) THEN Success(body)
  ELSE IF Len(m \o Digest(hashInput)) > MaxLabelLength THEN Failure("LABEL_TOO_LONG")
  ELSE Success(m \o Digest(hashInput))

EncodeProfile(s, m) ==
  IF ~ValidMarker(m) THEN Failure("INVALID_ENCODING")
  ELSE IF ~Utf8Validate(s) THEN Failure("INVALID_UTF8")
  ELSE LabelOf(EncodeBody(s), EncodeComponent(s), m)

\* what follows the marker is a digest
IsDigest(d) == Len(d) = HashBodyLength /\ \A j \in DOMAIN d : IsBase36Byte(d[j])

\* a label that begins with the marker is never decoded
HashLabelError(label, m) ==
  IF IsDigest(SubSeq(label, Len(m) + 1, Len(label)))
  THEN "NOT_DECODABLE" ELSE "INVALID_ENCODING"

\* the marker decides before anything else of the label is looked at
Dispatched(label, m, reversible) ==
  IF ~ValidMarker(m) THEN Failure("INVALID_ENCODING")
  ELSE IF IsPrefix(m, label) THEN Failure(HashLabelError(label, m))
  ELSE reversible

LengthThenEdges(label, decoded) ==
  IF Len(label) > MaxLabelLength THEN Failure("LABEL_TOO_LONG")
  ELSE IF BadEdges(label) THEN Failure("INVALID_ENCODING")
  ELSE decoded

DecodeProfile(label, m) ==
  Dispatched(label, m, LengthThenEdges(label, DecodeBody(label)))
=============================================================================
