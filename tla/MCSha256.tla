------------------------------ MODULE MCSha256 ------------------------------
(***************************************************************************)
(* Messages of every length up to three blocks.  Neighbouring bytes differ *)
(* and none is a byte of the padding, so a lost or misplaced byte shows.   *)
(***************************************************************************)
EXTENDS CSha256

AllMessages == {[j \in 1..n |-> 1 + ((j * 5) % 113)] : n \in 0..200}
=============================================================================
