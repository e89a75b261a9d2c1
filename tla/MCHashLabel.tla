----------------------------- MODULE MCHashLabel -----------------------------
(***************************************************************************)
(* Digests of three bytes: five digits are just enough for them, as 50 are *)
(* for 32 bytes (36^4 < 256^3 < 36^5; 36^49 < 256^32 < 36^50).             *)
(***************************************************************************)
EXTENDS Base36Ports

Bytes      == {0, 1, 35, 36, 127, 128, 219, 255}
AllDigests == {<<a, b, c>> : a \in Bytes, b \in Bytes, c \in Bytes}

\* "a--", "ab--" and one that is too long for the label
SomeMarkers == {<<97, 45, 45>>, <<97, 98, 45, 45>>, <<97, 97, 97, 45, 45>>}
=============================================================================
