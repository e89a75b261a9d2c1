----------------------------- MODULE MCCProfile -----------------------------
(***************************************************************************)
(* A small profile: labels of 9, digests of 5 and markers of at most 4     *)
(* bytes, so that a few tokens reach every limit.                          *)
(***************************************************************************)
EXTENDS CProfileRefinement, SmallDigest

\* '-', "a--", 'a', 'Z', U+00E9 and its first byte alone, and longer texts
PlainTexts ==
  Strings({<<45>>, <<97, 45, 45>>, <<97>>, <<90>>, <<195, 169>>, <<195>>}, 3)
  \cup {<<97, 97, 97, 97, 97, 97>>, <<97, 64, 97, 64, 97>>, <<97, 64, 97, 64, 97, 97>>}

\* '-', "a--", 'a', 'B', the escapes of '-' and of a lone UTF-8 byte, a digest
ReceivedLabels ==
  Strings({<<45>>, <<97, 45, 45>>, <<97>>, <<66>>, <<45, 50, 100>>, <<45, 99, 51>>,
           <<97, 48, 122, 57, 98>>}, 3)

\* "a--", "---", "ab--"; too short, too long, reserved, not ending in "--",
\* with an upper-case letter
MarkerChoices == {<<97, 45, 45>>, <<45, 45, 45>>, <<97, 98, 45, 45>>,
                  <<45, 45>>, <<97, 97, 97, 45, 45>>, <<120, 110, 45, 45>>,
                  <<97, 97, 45>>, <<65, 45, 45>>}

BufferSizes == {0, 1, 4, 5, 9, 10}
=============================================================================
