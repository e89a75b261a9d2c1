------------------------------- MODULE DefCore -------------------------------
(***************************************************************************)
(* DEF Core as functions on whole strings, in the form every port but C's  *)
(* has it: split at "--", code each component, join with "--".             *)
(* This is the reference the C scanner is compared with.                   *)
(***************************************************************************)
EXTENDS DefBytes, Outcome
LOCAL INSTANCE SequencesExt
LOCAL INSTANCE FiniteSetsExt

Separator == <<HYPHEN, HYPHEN>>

\* The components of s: greedy from left to right, empty ones kept.
Split(s) ==
  LET separators(p) ==
        { q \in p..(Len(s) - 1) : s[q] = HYPHEN /\ s[q + 1] = HYPHEN }
      split[p \in 1..(Len(s) + 1)] ==
        LET found == separators(p) IN
        IF found = {} THEN <<SubSeq(s, p, Len(s))>>
        ELSE LET q == Min(found)
             IN  <<SubSeq(s, p, q - 1)>> \o split[q + 2]
  IN  split[1]

Join(components) ==
  FlattenSeq([j \in DOMAIN components |->
                IF j = 1 THEN components[j] ELSE Separator \o components[j]])

Lowercase(s) == [j \in DOMAIN s |-> Canonical(s[j])]

EncodeComponent(s) ==
  FlattenSeq([j \in DOMAIN s |-> EncodeByte(Canonical(s[j]))])

EncodeBody(s) ==
  LET c == Split(s) IN Join([j \in DOMAIN c |-> EncodeComponent(c[j])])

-----------------------------------------------------------------------------
\* The encoders take UTF-8 text; C answers anything else with an error.
Encoded(s, text) ==
  IF Utf8Validate(s) THEN Success(text) ELSE Failure("INVALID_UTF8")

\* `decode' is the set of what the rest of c decodes to: one text, or none
DecodeComponent(c) ==
  LET isEscape(i) == /\ c[i] = HYPHEN
                     /\ i + 2 <= Len(c)
                     /\ IsHexDigit(c[i + 1]) /\ IsHexDigit(c[i + 2])
      decode[i \in 1..(Len(c) + 1)] ==
        IF i > Len(c) THEN {<<>>}
        ELSE IF IsLiteralByte(c[i])
        THEN {<<c[i]>> \o t : t \in decode[i + 1]}
        ELSE IF isEscape(i)
        THEN {<<HexByte(c[i + 1], c[i + 2])>> \o t : t \in decode[i + 3]}
        ELSE {}
      texts == decode[1]
  IN  IF texts = {} THEN Failure("INVALID_ESCAPE")
      ELSE IF \E t \in texts : ~Utf8Validate(t) THEN Failure("INVALID_UTF8")
      ELSE Success(CHOOSE t \in texts : TRUE)

\* every component is decoded on its own, in order; the first error is returned
FirstErrorOrJoin(r) ==
  LET failed == { j \in DOMAIN r : r[j].status # "OK" } IN
  IF failed # {} THEN r[Min(failed)]
  ELSE Success(Join([j \in DOMAIN r |-> r[j].text]))

DecodeBody(s) ==
  LET c == Split(s) IN FirstErrorOrJoin([j \in DOMAIN c |-> DecodeComponent(c[j])])
=============================================================================
