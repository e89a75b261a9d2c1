------------------------------ MODULE MCInterop ------------------------------
(***************************************************************************)
(* A small profile, as in MCCProfile, and texts and labels of a few tokens,*)
(* among them the characters on which the ports' platforms differ.         *)
(***************************************************************************)
EXTENDS Interop, SmallDigest

SmallMarkers == {<<97, 45, 45>>, <<65, 45, 45>>}   \* "a--", and "A--", not valid

\* '-', 'a', 'A', U+00E9, U+1F60A, U+FEFF, NUL and a surrogate that is not paired;
\* a body that begins with the marker, and bodies of 9 and 10 bytes
SomeTexts ==
  Strings({<<45>>, <<97>>, <<65>>, <<233>>, <<128522>>, <<65279>>, <<0>>, <<55296>>}, 3)
  \cup {<<97, 45, 45, 97>>, <<97, 97, 64, 97, 64, 97>>, <<97, 97, 64, 97, 64, 97, 97>>}

\* '-', 'a', 'A', NUL, U+00E9 and U+0161, the escapes of '-', of the two bytes of
\* U+00E9 and of U+FEFF, a digest, and seven letters; a hash label, a malformed one,
\* and a label of 9 units but 12 bytes
SomeLabels ==
  Strings({<<45>>, <<97>>, <<65>>, <<0>>, <<233>>, <<353>>, <<45, 50, 100>>,
           <<45, 99, 51>>, <<45, 97, 57>>, <<45, 101, 102, 45, 98, 98, 45, 98, 102>>,
           <<97, 48, 122, 57, 98>>, <<97, 98, 99, 100, 101, 102, 103>>}, 3)
  \cup {<<97, 45, 45, 97, 48, 122, 57, 98>>, <<97, 45, 45, 97, 48, 122, 57, 45>>,
         <<97, 45, 99, 51, 45, 45, 233, 233, 233>>}

\* what a run about one disagreement is limited to
Nothing      == {}
MarkTexts    == Strings({<<97>>, <<65279>>}, 4)
NulTexts     == Strings({<<97>>, <<0>>}, 4)
IllTexts     == Strings({<<97>>, <<55296>>}, 4)
ForeignLabels == Strings({<<97>>, <<45>>, <<353>>}, 4)
=============================================================================
