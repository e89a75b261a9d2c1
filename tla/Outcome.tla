------------------------------- MODULE Outcome -------------------------------
(***************************************************************************)
(* The outcome of a call, and what a C function may make of it for the     *)
(* caller's buffer.                                                        *)
(***************************************************************************)
EXTENDS Integers, Sequences

\* The outcome of a call: an error, or "OK" and the text it returns.
Failure(e) == [status |-> e, text |-> <<>>]
Success(s) == [status |-> "OK", text |-> s]

\* What a C function may answer for a caller's buffer: a result that fits with
\* its terminator is returned, one that does not is refused; a malformed text
\* may be refused too when the capacity is below the worst case.
Answers(r, capacity, worstCase) ==
  IF r.status = "OK"
  THEN {IF Len(r.text) < capacity THEN r ELSE Failure("BUFFER_TOO_SMALL")}
  ELSE {r} \cup (IF capacity < worstCase THEN {Failure("BUFFER_TOO_SMALL")} ELSE {})
=============================================================================
