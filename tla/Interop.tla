------------------------------- MODULE Interop -------------------------------
(***************************************************************************)
(* Programs that use different ports and exchange representations.  A text *)
(* is encoded by one port, decoded by another and encoded again by a       *)
(* third; or a label that no encoder made is decoded.  Each call is given  *)
(* to up to two ports, any two, so that their answers can be compared.     *)
(* A text or label is a sequence of code points; each port sees it in its  *)
(* own form.  An answer's text is ASCII for an encoder, UTF-8 for a decoder*)
(***************************************************************************)
EXTENDS TextPorts
LOCAL INSTANCE SequencesExt
LOCAL INSTANCE FiniteSetsExt

CONSTANTS
  Texts,             \* texts that are encoded first
  Labels,            \* labels that are decoded without having been encoded
  Markers,           \* hash markers, valid or not
  BufferSize,        \* of the C++ wrapper: 4096
  LabelBufferSize    \* of its encode_profile: 128

ASSUME BuffersAssumption ==
  /\ BufferSize \in Nat /\ BufferSize > MaxLabelLength
  /\ LabelBufferSize \in Nat /\ LabelBufferSize > MaxLabelLength

\* texts are Unicode, paired or not, and a marker is given as bytes
ASSUME CallsAssumption ==
  /\ Texts \subseteq Seq(CodePoint) /\ Labels \subseteq Seq(CodePoint)
  /\ Markers \subseteq Seq(Byte)

VARIABLES
  fn, dir, arg, marker,   \* the call
  webCrypto,              \* whether the JavaScript platform has crypto.subtle
  answers,                \* what the ports asked so far answered
  origin,                 \* the argument of the first call
  coded,                  \* the representation it was given, <<>> until then
  round                   \* calls before this one

call == <<fn, dir, arg, marker, webCrypto>>
vars == <<call, answers, origin, coded, round>>

Port      == {"c", "cpp", "go", "rust", "js", "python", "java", "dotnet"}
Nobody    == [p \in {} |-> Success(<<>>)]

\* the bound on the ports one call is given to: the one asked is the first or second
AtMostOne == \E q \in Port : DOMAIN answers \subseteq {q}
AtMostTwo == \E p, q \in Port : DOMAIN answers \subseteq {p, q}

Init ==
  /\ fn \in {"component", "body", "profile"}
  /\ \/ dir = "encode" /\ arg \in Texts
     \/ dir = "decode" /\ arg \in Labels
  /\ marker \in (IF fn = "profile" THEN Markers ELSE {<<>>})
  /\ webCrypto \in (IF fn = "profile" /\ dir = "encode" THEN BOOLEAN ELSE {TRUE})
  /\ answers = Nobody /\ origin = arg /\ coded = <<>> /\ round = 0

-----------------------------------------------------------------------------
Ask(p, possible) ==
  /\ p \notin DOMAIN answers /\ AtMostOne
  /\ \E a \in possible :
       answers' = [q \in DOMAIN answers \cup {p} |-> IF q = p THEN a ELSE answers[q]]
  /\ UNCHANGED <<call, origin, coded, round>>

\* the function that is called, of the six a port has
Called(encComponent, encBody, encProfile, decComponent, decBody, decProfile) ==
  IF dir = "encode"
  THEN IF fn = "component" THEN encComponent ELSE IF fn = "body" THEN encBody ELSE encProfile
  ELSE IF fn = "component" THEN decComponent ELSE IF fn = "body" THEN decBody ELSE decProfile

\* C, given a buffer that is large enough and memory
CAnswer(s) ==
  Called(Encoded(s, EncodeComponent(s)), Encoded(s, EncodeBody(s)),
         EncodeProfile(s, marker),
         DecodeComponent(s), DecodeBody(s), DecodeProfile(s, marker))

\* Go and Rust encode the bytes of a string as they are
WholeStringAnswer(s) ==
  Called(Success(EncodeComponent(s)), Success(EncodeBody(s)),
         IF ValidMarker(marker) THEN LabelOf(EncodeBody(s), EncodeComponent(s), marker)
         ELSE Failure("INVALID_ENCODING"),
         DecodeComponent(s), DecodeBody(s), DecodeProfile(s, marker))

\* c_str(): what C reads of a string that holds a NUL
CStr(s) ==
  SubSeq(s, 1, Min({ i \in DOMAIN s : s[i] = NUL } \cup {Len(s) + 1}) - 1)

\* the wrapper's answers: C's, for a buffer whose size is fixed
CppAnswers(s) ==
  Answers(CAnswer(s),
          IF dir = "encode" /\ fn = "profile" THEN LabelBufferSize ELSE BufferSize,
          IF fn = "profile" THEN 0 ELSE IF dir = "encode" THEN 3 * Len(s) + 1
          ELSE Len(s) + 1)

\* a C string holds no NUL, a Rust string no surrogate
AskC    == NUL \notin ToSet(arg) /\ Ask("c", {CAnswer(Utf8(arg))})
AskCpp  == Ask("cpp", CppAnswers(CStr(Utf8(arg))))
AskGo   == Ask("go", {WholeStringAnswer(Utf8(arg))})
AskRust == /\ ToSet(arg) \cap Surrogate = {}
           /\ Ask("rust", {WholeStringAnswer(Utf8(arg))})

AskJs ==
  LET s == Utf16(arg) IN
  Ask("js", {Called(Success(JsEncodeComponent(s)), Success(JsEncodeBody(s)),
                    JsEncodeProfile(s, marker, webCrypto),
                    JsDecodeComponent(s), JsDecodeBody(s), JsDecodeProfile(s, marker))})

AskPython ==
  LET s == arg IN
  Ask("python", {Called(PythonEncoded(s, PythonEncodeComponent(s)),
                        PythonEncoded(s, PythonEncodeBody(s)),
                        PythonEncodeProfile(s, marker),
                        PythonDecodeComponent(s), PythonDecodeBody(s),
                        PythonDecodeProfile(s, marker))})

AskJava ==
  LET s == Utf16(arg) IN
  Ask("java", {Called(Success(JavaEncodeComponent(s)), Success(JavaEncodeBody(s)),
                      JavaEncodeProfile(s, marker),
                      JavaDecodeComponent(s), JavaDecodeBody(s),
                      JavaDecodeProfile(s, marker))})

AskDotnet ==
  LET s == Utf16(arg) IN
  Ask("dotnet", {Called(Success(DotnetEncodeComponent(s)), Success(DotnetEncodeBody(s)),
                        DotnetEncodeProfile(s, marker),
                        DotnetDecodeComponent(s), DotnetDecodeBody(s),
                        DotnetDecodeProfile(s, marker))})

\* What one port answered is what the next call is made with: a representation
\* is decoded, the text it gives is encoded once more.
Forward ==
  /\ \E p \in DOMAIN answers :
       /\ answers[p].status = "OK"
       /\ arg' = IF dir = "encode" THEN answers[p].text ELSE FromUtf8(answers[p].text)
       /\ coded' = IF dir = "encode" THEN answers[p].text ELSE coded
  /\ \/ dir = "encode" /\ round = 0 /\ dir' = "decode"
     \/ dir = "decode" /\ round = 1 /\ dir' = "encode"
  /\ answers' = Nobody /\ round' = round + 1
  /\ UNCHANGED <<fn, marker, webCrypto, origin>>

Next == \/ AskC \/ AskCpp \/ AskGo \/ AskRust
        \/ AskJs \/ AskPython \/ AskJava \/ AskDotnet
        \/ Forward

Spec == Init /\ [][Next]_vars

-----------------------------------------------------------------------------
Statuses == {"OK", "INVALID_ESCAPE", "INVALID_UTF8", "INVALID_ENCODING", "LABEL_TOO_LONG",
             "NOT_DECODABLE", "BUFFER_TOO_SMALL", "UnicodeEncodeError"}

TypeOK ==
  /\ fn \in {"component", "body", "profile"} /\ dir \in {"encode", "decode"}
  /\ arg \in Seq(Nat) /\ origin \in Seq(Nat) /\ coded \in Seq(Byte)
  /\ marker \in Markers \cup {<<>>} /\ webCrypto \in BOOLEAN /\ round \in 0..2
  /\ DOMAIN answers \subseteq Port /\ AtMostTwo
  /\ \A p \in DOMAIN answers : /\ answers[p].status \in Statuses
                               /\ answers[p].text \in Seq(Byte)
                               /\ answers[p].status # "OK" => answers[p].text = <<>>

Mark == 65279   \* U+FEFF, the byte order mark

\* a text that every port can be given and gives back
Ordinary(text) == ToSet(text) \cap (Surrogate \cup {NUL, Mark}) = {}

\* the wrapper's buffer is too small for the result of a Core function
OverBuffer(p) == p = "cpp" /\ fn # "profile" /\ answers[p].status = "BUFFER_TOO_SMALL"

\* Where port p is known to answer otherwise than q.
CutAtNul(p)        == p = "cpp" /\ NUL \in ToSet(arg)
SubstitutesOrNot   == dir = "encode" /\ ToSet(arg) \cap Surrogate # {}
DropsMark(p, q)    == /\ p = "js" /\ dir = "decode" /\ answers[q].status = "OK"
                      /\ Mark \in ToSet(FromUtf8(answers[q].text))
CannotHash(p, q)   == /\ p = "js" /\ ~webCrypto /\ answers[q].status = "OK"
                      /\ fn = "profile" /\ IsPrefix(marker, answers[q].text)
TakesLowByte(p)    == p = "dotnet" /\ dir = "decode" /\ \E c \in ToSet(arg) : c > 127
OtherRefusal(p, q) == /\ fn = "profile" /\ dir = "decode"
                      /\ answers[p].status = "LABEL_TOO_LONG"
                      /\ answers[q].status \in {"INVALID_ENCODING", "INVALID_ESCAPE", "INVALID_UTF8"}

MayDiffer(p, q) == \/ OverBuffer(p) \/ CutAtNul(p) \/ SubstitutesOrNot \/ DropsMark(p, q)
                   \/ CannotHash(p, q) \/ TakesLowByte(p) \/ OtherRefusal(p, q)

\* Any two ports answer any call alike (RFC section 18: "identical results and
\* defined errors"), but for the cases above.  Two ports that look at edges and
\* length in another order, or count in another unit, still both refuse.
PortsAgree ==
  \A p, q \in DOMAIN answers :
    answers[p] = answers[q] \/ MayDiffer(p, q) \/ MayDiffer(q, p)

\* What one port encoded, every other port decodes to the text in ASCII lower case
\* (RFC section 4), or knows for a hash label.
RelayKeepsText ==
  round = 1 /\ Ordinary(origin) =>
    \A p \in DOMAIN answers :
      answers[p] = (IF fn = "profile" /\ IsPrefix(marker, coded) THEN Failure("NOT_DECODABLE")
                    ELSE Success(Utf8(Lowercase(origin))))
      \/ OverBuffer(p)

\* And from what it decoded, a third port makes the representation of the first.
RelayKeepsRepresentation ==
  round = 2 /\ Ordinary(origin) =>
    \A p \in DOMAIN answers : answers[p] = Success(coded) \/ OverBuffer(p)

-----------------------------------------------------------------------------
(* What the documents say of every implementation, and a port does not do. *)

\* decode(encode(x)) == lowercase_ascii(x) (docs/rfc.md:104), for every text that
\* is Unicode.
TextSurvives ==
  round = 1 /\ fn = "body" =>
    \A p \in DOMAIN answers : answers[p] = Success(Utf8(Lowercase(origin)))

\* "A decoder MUST reject ... characters outside literals, escapes, and structural
\* separators" (docs/rfc.md:394-397).
ForeignRejected ==
  dir = "decode" /\ (\E c \in ToSet(arg) : c > 127) =>
    \A p \in DOMAIN answers : answers[p].status # "OK"

\* "They MUST reject malformed escapes and invalid UTF-8 rather than substitute
\* data" (docs/rfc.md:418-419): a text that is not Unicode is refused by encoders.
IllFormedRefused ==
  dir = "encode" /\ ToSet(arg) \cap Surrogate # {} =>
    \A p \in DOMAIN answers : answers[p].status # "OK"
=============================================================================
