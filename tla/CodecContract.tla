---------------------------- MODULE CodecContract ----------------------------
(***************************************************************************)
(* What one call of a codec function with a caller's buffer promises,      *)
(* abstracting from how it is computed: it is answered once, and the       *)
(* answer is a function of the text and the capacity.                      *)
(*   - a well-formed text whose result, with its terminator, fits is       *)
(*     answered "OK" with exactly the result that is defined for it;       *)
(*   - a well-formed text is refused only because its result does not fit; *)
(*   - a malformed text is answered with the error of its first malformed  *)
(*     component, or refused for space when the capacity is below the      *)
(*     worst case for its length.                                          *)
(* The outcomes themselves, which DefCore defines, are a parameter.        *)
(***************************************************************************)
EXTENDS Outcome

CONSTANT Defined(_, _)   \* the outcome of a function for a text

VARIABLES fn, input, cap, answer
contractVars == <<fn, input, cap, answer>>

Pending == [status |-> "PENDING", text |-> <<>>]

\* capacity that is enough for every text of this length
WorstCase == IF fn \in {"encode_component", "encode_body"}
             THEN 3 * Len(input) + 1 ELSE Len(input) + 1

Init == answer = Pending

Answer ==
  /\ answer = Pending /\ answer' # Pending
  /\ answer' \in Answers(Defined(fn, input), cap, WorstCase)
  /\ UNCHANGED <<fn, input, cap>>

Answered == <>(answer # Pending)

Spec == Init /\ [][Answer]_contractVars /\ Answered
=============================================================================
