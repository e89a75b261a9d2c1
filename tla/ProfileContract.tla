--------------------------- MODULE ProfileContract ---------------------------
(***************************************************************************)
(* What the two profile functions promise a caller who calls them one      *)
(* after the other: every call is answered, with what the profile defines  *)
(* for the text and the marker, or refused because the result does not fit *)
(* the caller's buffer or memory for the temporary buffers is short.       *)
(* The profile itself, which DefProfile defines, is a parameter: the       *)
(* contract is the same for every profile.                                 *)
(***************************************************************************)
EXTENDS Outcome

CONSTANTS
  ValidMarker(_),        \* what a hash marker has to be
  EncodeProfile(_, _),   \* the outcome for a text and a marker
  DecodeProfile(_, _)    \* the outcome for a label and a marker

VARIABLES op, input, marker, cap, answer
contractVars == <<op, input, marker, cap, answer>>

Pending == [status |-> "PENDING", text |-> <<>>]

Reference ==
  IF op = "encode" THEN EncodeProfile(input, marker) ELSE DecodeProfile(input, marker)

\* only what def_decode_body itself rejects can be refused for space instead
WorstCase(r) ==
  IF r.status \in {"INVALID_ESCAPE", "INVALID_UTF8"} /\ op = "decode"
  THEN Len(input) + 1 ELSE 0

OutOfMemory ==
  IF op = "encode" /\ ValidMarker(marker) THEN {Failure("BUFFER_TOO_SMALL")} ELSE {}

Init == answer = Pending

Answer ==
  /\ answer = Pending /\ answer' # Pending
  /\ LET r == Reference IN answer' \in Answers(r, cap, WorstCase(r)) \cup OutOfMemory
  /\ UNCHANGED <<op, input, marker, cap>>

NewCall == answer # Pending /\ answer' = Pending

Answered == []<>(answer # Pending)

Spec == Init /\ [][Answer \/ NewCall]_contractVars /\ Answered
=============================================================================
