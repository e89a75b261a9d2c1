------------------------------ MODULE MCLibrary ------------------------------
(***************************************************************************)
(* The library with the lengths of def.h, on the texts and labels of       *)
(* vectors/test-vectors.json and on texts whose hash input ends around a   *)
(* block of SHA-256.                                                       *)
(***************************************************************************)
EXTENDS CLibrary
LOCAL INSTANCE SequencesExt

\* the bytes of a string
Chars == "-0123456789@.SACabcdefghijklmnopqrstuvwxyz"
Codes == <<45>> \o [d \in 1..10 |-> 47 + d] \o <<64, 46, 83, 65, 67>> \o [c \in 1..26 |-> 96 + c]
Bytes(string) ==
  [p \in 1..Len(string) |->
     Codes[CHOOSE c \in 1..Len(Chars) : SubSeq(Chars, c, c) = SubSeq(string, p, p)]]

Many(n, string) == FlattenSeq([p \in 1..n |-> Bytes(string)])

\* a text of 64 bytes, and what it is hashed as: 68 bytes
LongText      == Many(31, "a") \o Bytes("--") \o Many(31, "b")
LongCanonical == Many(31, "a") \o Bytes("-2d-2d") \o Many(31, "b")

\* The SHA-256 of some texts in base36, as the other ports compute it.  The
\* last but one begins with two zeros.
Digests ==
  << <<LongCanonical,              "3mug7fre5lope7l4qxk6cb7wrekhkhk0ey25dr5d9z3bg7tbqa">>,
     <<Bytes("abc-2d-2dvalue"),    "4m4m5nxk69e5ns787pvrann2ahmlnrzmjf4346fv35lw29wr4w">>,
     <<Bytes("abc-2d-2d") \o Many(46, "b"),
                                   "5v5ngifufvzblik9aweioij49xr0gckz4qv6rcvrvme74aijd9">>,
     <<Bytes("abc-2d-2d") \o Many(47, "b"),
                                   "13j0krc4ycdh3iujdskbd0sve6pusotvgmm3g75guzgam465he">>,
     <<Many(64, "a"),              "6dl5vt15rq84vholfyw8vfmqsogsg52nitlm62npyv8po233zf">>,
     <<Many(119, "x"),             "001f9b2b7f713qrjxlds8ycrepp48xacvt2t66dgrmdieid34c">>,
     <<Many(21, "-c3-a9"),         "2tu7brxfhxn162vrqbmgbqzxcatt7ac1kdgnnb0cygsdjgm3nr">> >>

\* any digest, for a text that is not hashed
KnownDigest(s) ==
  LET known == { n \in DOMAIN Digests : Digests[n][1] = s }
  IN  IF known = {} THEN Many(HashBodyLength, "0")
      ELSE Bytes(Digests[CHOOSE n \in known : TRUE][2])

ShortTexts ==
  {Bytes(s) : s \in {"", "--", "--component", "component--", "alpha", "s--acme", "S--Acme",
                     "alpha--beta--v1", "a----b", "laptop.us-east--user@example.com",
                     "abc--value"}}
  \cup {<<195>>, Many(55, "a"), Many(31, "a") \o Bytes("--") \o Many(30, "b")}

HashedTexts ==
  {LongText, Bytes("abc--") \o Many(46, "b"), Bytes("abc--") \o Many(47, "b"),
   Many(64, "a"), Many(119, "x"),
   FlattenSeq([p \in 1..21 |-> <<195, 169>>])}

VectorLabels ==
  {Bytes(s) : s \in {"", "--component", "component--", "abc---gg", "xn--abc", "alpha",
                     "s--acme", "alpha--beta--v1", "a----b",
                     "laptop-2eus-2deast--user-40example-2ecom",
                     "idrto-h1--3mug7fre5lope7l4qxk6cb7wrekhkhk0ey25dr5d9z3bg7tbqa"}}

AllTexts    == ShortTexts \cup HashedTexts
SomeMarkers == {DEF_IDRTO_HASH_MARKER, Bytes("abc--")}

-----------------------------------------------------------------------------
\* The answers vectors/test-vectors.json gives for the profile.
EncodeVectors ==
  {<<"alpha", "alpha">>, <<"s--acme", "s--acme">>, <<"S--Acme", "s--acme">>,
   <<"alpha--beta--v1", "alpha--beta--v1">>, <<"a----b", "a----b">>,
   <<"laptop.us-east--user@example.com", "laptop-2eus-2deast--user-40example-2ecom">>,
   <<"aaaaaaaaaaaaaaaaaaaaaaaaaaaaaaa--bbbbbbbbbbbbbbbbbbbbbbbbbbbbbb",
     "aaaaaaaaaaaaaaaaaaaaaaaaaaaaaaa--bbbbbbbbbbbbbbbbbbbbbbbbbbbbbb">>,
   <<"aaaaaaaaaaaaaaaaaaaaaaaaaaaaaaa--bbbbbbbbbbbbbbbbbbbbbbbbbbbbbbb",
     "idrto-h1--3mug7fre5lope7l4qxk6cb7wrekhkhk0ey25dr5d9z3bg7tbqa">>}
DecodeVectors ==
  {<<"alpha", "alpha">>, <<"s--acme", "s--acme">>, <<"alpha--beta--v1", "alpha--beta--v1">>,
   <<"a----b", "a----b">>,
   <<"laptop-2eus-2deast--user-40example-2ecom", "laptop.us-east--user@example.com">>}
ErrorVectors ==
  {<<"encode", "", "INVALID_ENCODING">>, <<"encode", "--component", "INVALID_ENCODING">>,
   <<"encode", "component--", "INVALID_ENCODING">>, <<"encode", "--", "INVALID_ENCODING">>,
   <<"decode", "", "INVALID_ENCODING">>, <<"decode", "--component", "INVALID_ENCODING">>,
   <<"decode", "component--", "INVALID_ENCODING">>, <<"decode", "abc---gg", "INVALID_ESCAPE">>,
   <<"decode", "idrto-h1--3mug7fre5lope7l4qxk6cb7wrekhkhk0ey25dr5d9z3bg7tbqa", "NOT_DECODABLE">>}

\* def_encode and def_decode, with room for a label and memory, answer every
\* profile vector as vectors/test-vectors.json:69-115 has it.
AnswersVectors ==
  pc = "done" /\ DefaultCall /\ cap > MaxLabelLength /\ (\A p \in Pointers : heap[p] # "null") =>
    /\ \A v \in IF op = "encode" THEN EncodeVectors ELSE DecodeVectors :
         input = Bytes(v[1]) => status = "OK" /\ output = Bytes(v[2])
    /\ \A v \in ErrorVectors : op = v[1] /\ input = Bytes(v[2]) => status = v[3]
=============================================================================
