------------------------- MODULE CProfileRefinement -------------------------
(***************************************************************************)
(* The C profile functions implement the contract of the profile: the      *)
(* answer is pending until the call returns, also while the label is in    *)
(* the caller's buffer already, and is then the status with that text.     *)
(***************************************************************************)
EXTENDS CProfile

Given == [status |-> status,
          text   |-> IF status = "PENDING" THEN <<>> ELSE output]

Contract == INSTANCE ProfileContract WITH answer <- Given

\* Every call is answered as the profile defines (packages/go/def/def.go:168-216),
\* whatever malloc answers, with nothing in the buffer unless the status is OK.
ImplementsProfile == Contract!Spec
=============================================================================
