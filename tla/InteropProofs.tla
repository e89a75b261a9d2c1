---------------------------- MODULE InteropProofs ----------------------------
(***************************************************************************)
(* Theorems about Interop: any two ports answer any call alike but for the *)
(* differences MayDiffer names, and what one port encoded comes back from  *)
(* every other, for all texts, representations, markers and lengths.       *)
(*                                                                         *)
(* The ports work on different forms of a text: its UTF-8, its UTF-16, its *)
(* code points.  Each form is made character by character by a table that  *)
(* keeps ASCII and writes everything else without it (Faithful), and all   *)
(* the code looks for is ASCII; so splitting, prefixes, edges and digits   *)
(* are the same in every form, and what is not ASCII is refused in every   *)
(* form.  In order: the answers of a call; transcoding by a table; scans   *)
(* that read characters; UTF-8 and UTF-16 as such tables and scans; what   *)
(* the encoders and the decoders of each port make of its form; labels;    *)
(* types; agreement of any two ports; calls made with an earlier answer.   *)
(***************************************************************************)
EXTENDS Interop, DefCoreProofs
LOCAL INSTANCE SequencesExt
LOCAL INSTANCE FiniteSetsExt

\* what each port computes of the call, in its own view of the argument
JsAnswer(s) ==
  Called(Success(JsEncodeComponent(s)), Success(JsEncodeBody(s)),
         JsEncodeProfile(s, marker, webCrypto),
         JsDecodeComponent(s), JsDecodeBody(s), JsDecodeProfile(s, marker))

PythonAnswer(s) ==
  Called(PythonEncoded(s, PythonEncodeComponent(s)), PythonEncoded(s, PythonEncodeBody(s)),
         PythonEncodeProfile(s, marker),
         PythonDecodeComponent(s), PythonDecodeBody(s), PythonDecodeProfile(s, marker))

JavaAnswer(s) ==
  Called(Success(JavaEncodeComponent(s)), Success(JavaEncodeBody(s)),
         JavaEncodeProfile(s, marker),
         JavaDecodeComponent(s), JavaDecodeBody(s), JavaDecodeProfile(s, marker))

DotnetAnswer(s) ==
  Called(Success(DotnetEncodeComponent(s)), Success(DotnetEncodeBody(s)),
         DotnetEncodeProfile(s, marker),
         DotnetDecodeComponent(s), DotnetDecodeBody(s), DotnetDecodeProfile(s, marker))

Possible(p) ==
  CASE p = "c"              -> {CAnswer(Utf8(arg))}
    [] p = "cpp"            -> CppAnswers(CStr(Utf8(arg)))
    [] p \in {"go", "rust"} -> {WholeStringAnswer(Utf8(arg))}
    [] p = "js"             -> {JsAnswer(Utf16(arg))}
    [] p = "python"         -> {PythonAnswer(arg)}
    [] p = "java"           -> {JavaAnswer(Utf16(arg))}
    [] p = "dotnet"         -> {DotnetAnswer(Utf16(arg))}

\* At most two ports were asked, and answered what they compute of the call.
AskedInv ==
  /\ DOMAIN answers \subseteq Port /\ AtMostTwo
  /\ \A p \in DOMAIN answers : answers[p] \in Possible(p)

\* Every step is one port's answer, or the next call.
LEMMA StepIs ==
  ASSUME Next
  PROVE  Forward \/ \E p \in Port : Ask(p, Possible(p))
<1>1. \A p \in {"c", "cpp", "go", "rust", "js", "python", "java", "dotnet"} : p \in Port
  BY DEF Port
<1>2. /\ Possible("c") = {CAnswer(Utf8(arg))} /\ Possible("cpp") = CppAnswers(CStr(Utf8(arg)))
      /\ Possible("go") = {WholeStringAnswer(Utf8(arg))}
      /\ Possible("rust") = {WholeStringAnswer(Utf8(arg))}
      /\ Possible("js") = {JsAnswer(Utf16(arg))} /\ Possible("python") = {PythonAnswer(arg)}
      /\ Possible("java") = {JavaAnswer(Utf16(arg))}
      /\ Possible("dotnet") = {DotnetAnswer(Utf16(arg))}
  BY DEF Possible
<1>3. AskC => Ask("c", Possible("c"))
  BY <1>2 DEF AskC
<1>4. AskCpp => Ask("cpp", Possible("cpp"))
  BY <1>2 DEF AskCpp
<1>5. AskGo => Ask("go", Possible("go"))
  BY <1>2 DEF AskGo
<1>6. AskRust => Ask("rust", Possible("rust"))
  BY <1>2 DEF AskRust
<1>7. AskJs => Ask("js", Possible("js"))
  BY <1>2 DEF AskJs, JsAnswer
<1>8. AskPython => Ask("python", Possible("python"))
  BY <1>2 DEF AskPython, PythonAnswer
<1>9. AskJava => Ask("java", Possible("java"))
  BY <1>2 DEF AskJava, JavaAnswer
<1>10. AskDotnet => Ask("dotnet", Possible("dotnet"))
  BY <1>2 DEF AskDotnet, DotnetAnswer
<1> QED
  BY <1>1, <1>3, <1>4, <1>5, <1>6, <1>7, <1>8, <1>9, <1>10 DEF Next

\* What a port computes depends on the call alone.
LEMMA SameCall ==
  ASSUME UNCHANGED call, NEW p
  PROVE  Possible(p)' = Possible(p)
<1>1. fn' = fn /\ dir' = dir /\ arg' = arg /\ marker' = marker /\ webCrypto' = webCrypto
  BY DEF call
<1> QED
  BY <1>1 DEF Possible, CAnswer, CppAnswers, WholeStringAnswer, JsAnswer, PythonAnswer,
              JavaAnswer, DotnetAnswer, Called

\* One more port answers.
LEMMA AskStep ==
  ASSUME AskedInv, NEW p \in Port, Ask(p, Possible(p))
  PROVE  AskedInv'
<1> DEFINE D == DOMAIN answers
<1>1. p \notin D /\ AtMostOne /\ UNCHANGED call
  BY DEF Ask
<1>2. PICK a \in Possible(p) :
        answers' = [q \in D \cup {p} |-> IF q = p THEN a ELSE answers[q]]
  BY DEF Ask
<1>3. DOMAIN answers' = D \cup {p} /\ D \cup {p} \subseteq Port
  BY <1>2 DEF AskedInv
<1>4. AtMostTwo'
  BY <1>1, <1>3 DEF AtMostOne, AtMostTwo
<1>5. ASSUME NEW q \in D \cup {p} PROVE answers'[q] \in Possible(q)'
  <2>1. Possible(q)' = Possible(q)
    BY <1>1, SameCall
  <2>2. CASE q = p
    BY <1>2, <2>1, <2>2
  <2>3. CASE q # p
    <3>1. q \in D /\ answers'[q] = answers[q]
      BY <1>2, <2>3
    <3> QED
      BY <2>1, <3>1 DEF AskedInv
  <2> QED
    BY <2>2, <2>3
<1> QED
  BY <1>3, <1>4, <1>5 DEF AskedInv

\* A call that was just made has no answers, and a step that changes nothing none new.
LEMMA AskedInit == DOMAIN answers = {} => AskedInv
  BY DEF AskedInv, AtMostTwo, Port

\* A step keeps that every answer is what its port computes of the call.
LEMMA AskedStep == AskedInv /\ [Next]_vars => AskedInv'
<1> SUFFICES ASSUME AskedInv, [Next]_vars PROVE AskedInv'
  OBVIOUS
<1>1. CASE \E p \in Port : Ask(p, Possible(p))
  BY <1>1, AskStep
<1>2. CASE Forward
  <2>1. DOMAIN answers' = {}
    BY <1>2 DEF Forward, Nobody
  <2> QED
    BY <2>1 DEF AskedInv, AtMostTwo, Port
<1>3. CASE UNCHANGED vars
  <2>1. UNCHANGED call /\ answers' = answers
    BY <1>3 DEF vars
  <2> QED
    BY <2>1, SameCall DEF AskedInv, AtMostTwo
<1> QED
  BY <1>1, <1>2, <1>3, StepIs

\* The inductive invariant of what needs no assumption on the digest.
Inv == AskedInv /\ fn \in {"component", "body", "profile"}

\* Every answer is what the port computes of the call it was given, in every state.
THEOREM Invariance == Spec => []Inv
<1>1. Init => Inv
  BY AskedInit DEF Init, Inv, Nobody
<1>2. Inv /\ [Next]_vars => Inv'
  <2> SUFFICES ASSUME Inv, [Next]_vars PROVE fn' = fn
    BY AskedStep DEF Inv
  <2>1. CASE UNCHANGED vars
    BY <2>1 DEF vars, call
  <2>2. CASE Forward
    BY <2>2 DEF Forward
  <2>3. CASE \E p \in Port : Ask(p, Possible(p))
    BY <2>3 DEF Ask, call
  <2> QED
    BY <2>1, <2>2, <2>3, StepIs
<1> QED
  BY <1>1, <1>2, PTL DEF Spec

-----------------------------------------------------------------------------
(* Answers that are alike whatever a text decodes to.                      *)

\* C, Go and Rust answer every call with well-formed text alike, and every decoding
\* (packages/c/src/def.c, packages/go/def/def.go, packages/rust/src/lib.rs).
BytePortsAgree ==
  dir = "decode" \/ Utf8Validate(Utf8(arg)) =>
    \A p, q \in {"c", "go", "rust"} \cap DOMAIN answers : answers[p] = answers[q]

\* The encoders differ only in C's check, which well-formed text passes.
LEMMA CAnswersAsGo ==
  ASSUME NEW s, dir = "decode" \/ Utf8Validate(s)
  PROVE  CAnswer(s) = WholeStringAnswer(s)
  BY DEF CAnswer, WholeStringAnswer, Called, Encoded, EncodeProfile

\* Programs in C, Go and Rust can be mixed: they answer every call with well-formed
\* text, and every decoding, with the same text or error (BytePortsAgree).
THEOREM BytePortsAnswerAlike == Spec => []BytePortsAgree
<1>1. Inv => BytePortsAgree
  <2> SUFFICES ASSUME Inv, dir = "decode" \/ Utf8Validate(Utf8(arg)),
                      NEW p \in {"c", "go", "rust"} \cap DOMAIN answers
               PROVE  answers[p] = WholeStringAnswer(Utf8(arg))
    BY DEF BytePortsAgree
  <2>1. answers[p] \in Possible(p)
    BY DEF Inv, AskedInv
  <2> QED
    BY <2>1, CAnswersAsGo DEF Possible
<1> QED
  BY <1>1, Invariance, PTL

\* no component of s decodes to a text that begins with U+FEFF
NoLeadingMark(s) ==
  \A c \in {s} \cup {Split(s)[j] : j \in DOMAIN Split(s)} :
    ~BeginsWithMark(JavaDecodeComponent(c).text)

RefusedOtherwise ==
  /\ fn = "profile" /\ BadEdges(Utf16(arg)) /\ Len(Utf16(arg)) > MaxLabelLength
  /\ answers["js"] = Failure("INVALID_ENCODING")
  /\ answers["java"] = Failure("LABEL_TOO_LONG")

\* JavaScript and Java decode every representation alike, but for a byte order mark at
\* the front of a component (packages/js/src/index.ts:124) and for the error of a label
\* that is too long and has a hyphen at an edge (index.ts:236-245, Def.java:264-270).
JsAndJavaDecodeAlike ==
  /\ dir = "decode" /\ {"js", "java"} \subseteq DOMAIN answers
  /\ NoLeadingMark(Utf16(arg))
  => answers["js"] = answers["java"] \/ RefusedOtherwise

\* JavaScript's decoder of a component is Java's, but for the mark.
LEMMA JsComponentIsJava ==
  ASSUME NEW c, ~BeginsWithMark(JavaDecodeComponent(c).text)
  PROVE  JsDecodeComponent(c) = JavaDecodeComponent(c)
  BY DEF JsDecodeComponent, JavaDecodeComponent

\* And of a body.
LEMMA JsBodyIsJava ==
  ASSUME NEW s, NoLeadingMark(s)
  PROVE  JsDecodeBody(s) = JavaDecodeBody(s)
<1> DEFINE js   == [j \in DOMAIN Split(s) |-> JsDecodeComponent(Split(s)[j])]
           java == [j \in DOMAIN Split(s) |-> JavaDecodeComponent(Split(s)[j])]
<1>1. \A j \in DOMAIN Split(s) : JsDecodeComponent(Split(s)[j]) = JavaDecodeComponent(Split(s)[j])
  BY JsComponentIsJava DEF NoLeadingMark
<1>2. js = java
  BY <1>1
<1> QED
  BY <1>2 DEF JsDecodeBody, JavaDecodeBody

\* The two orders of the checks of a label differ in nothing but the error.
LEMMA OrdersOfChecks ==
  ASSUME NEW label, NEW decoded
  PROVE  \/ EdgesThenLength(label, decoded) = LengthThenEdges(label, decoded)
         \/ /\ BadEdges(label) /\ Len(label) > MaxLabelLength
            /\ EdgesThenLength(label, decoded) = Failure("INVALID_ENCODING")
            /\ LengthThenEdges(label, decoded) = Failure("LABEL_TOO_LONG")
  BY DEF EdgesThenLength, LengthThenEdges

\* Programs in JavaScript and Java can be mixed: they decode every representation
\* alike, but for a byte order mark and the order of two checks (JsAndJavaDecodeAlike).
THEOREM JsAndJavaAnswerAlike == Spec => []JsAndJavaDecodeAlike
<1>1. Inv => JsAndJavaDecodeAlike
  <2> SUFFICES ASSUME Inv, dir = "decode", {"js", "java"} \subseteq DOMAIN answers,
                      NoLeadingMark(Utf16(arg))
               PROVE  answers["js"] = answers["java"] \/ RefusedOtherwise
    BY DEF JsAndJavaDecodeAlike
  <2> DEFINE s == Utf16(arg)
  <2>1. answers["js"] = JsAnswer(s) /\ answers["java"] = JavaAnswer(s)
    BY DEF Inv, AskedInv, Possible
  <2>2. CASE fn = "component"
    <3>1. JsDecodeComponent(s) = JavaDecodeComponent(s)
      BY JsComponentIsJava DEF NoLeadingMark
    <3> QED
      BY <2>1, <2>2, <3>1 DEF JsAnswer, JavaAnswer, Called
  <2>3. CASE fn = "body"
    BY <2>1, <2>3, JsBodyIsJava DEF JsAnswer, JavaAnswer, Called
  <2>4. CASE fn = "profile"
    <3>1. answers["js"] = JsDecodeProfile(s, marker) /\ answers["java"] = JavaDecodeProfile(s, marker)
      BY <2>1, <2>4 DEF JsAnswer, JavaAnswer, Called
    <3>2. JsDecodeBody(s) = JavaDecodeBody(s)
      BY JsBodyIsJava
    <3> QED
      BY <2>4, <3>1, <3>2, OrdersOfChecks DEF JsDecodeProfile, JavaDecodeProfile, Dispatched,
                                                   RefusedOtherwise
  <2> QED
    BY <2>2, <2>3, <2>4 DEF Inv
<1> QED
  BY <1>1, Invariance, PTL

-----------------------------------------------------------------------------
(* A text is transcoded by a table that gives what each character becomes: *)
(* an ASCII character itself, any other one something that is not ASCII.   *)

Ascii == 0..127

Faithful(f) ==
  \A a \in CodePoint :
    /\ f[a] \in Seq(Nat)
    /\ a <= 127 => f[a] = <<a>>
    /\ a > 127 => Len(f[a]) > 0 /\ \A j \in 1..Len(f[a]) : f[a][j] > 127

Transcoded(f, t) == FlattenSeq(Mapped(f, t))

\* a function applied to every element of two sequences
LEMMA EachConcat ==
  ASSUME NEW A, NEW f, NEW u \in Seq(A), NEW v \in Seq(A)
  PROVE  Mapped(f, u \o v) = Mapped(f, u) \o Mapped(f, v)
<1> DEFINE V == {f[a] : a \in A}
           w == u \o v
           n == Len(u)
           m == Len(v)
           x == Mapped(f, w)
           y == Mapped(f, u)
           z == Mapped(f, v)
<1>1. /\ n \in Nat /\ m \in Nat /\ w \in Seq(A) /\ Len(w) = n + m
      /\ \A j \in 1..(n + m) : w[j] = IF j <= n THEN u[j] ELSE v[j - n]
  BY ConcatProperties
<1>2. \A a \in A : f[a] \in V
  OBVIOUS
<1> HIDE DEF w, V
<1>3. x \in Seq(V) /\ Len(x) = n + m /\ \A j \in 1..(n + m) : x[j] = f[w[j]]
  <2>1. x \in Seq(V)
    BY <1>1, <1>2, EachType
  <2>2. Len(x) = Len(w) /\ \A j \in 1..Len(w) : x[j] = f[w[j]]
    <3>1. DOMAIN w = 1..Len(w) /\ Len(w) \in Nat
      BY <1>1
    <3> QED
      BY <3>1 DEF Mapped
  <2> QED
    BY <1>1, <2>1, <2>2
<1>4. y \in Seq(V) /\ Len(y) = n /\ \A j \in 1..n : y[j] = f[u[j]]
  <2>1. y \in Seq(V)
    BY <1>2, EachType
  <2>2. Len(y) = n /\ \A j \in 1..n : y[j] = f[u[j]]
    BY DEF Mapped
  <2> QED
    BY <2>1, <2>2
<1>5. z \in Seq(V) /\ Len(z) = m /\ \A j \in 1..m : z[j] = f[v[j]]
  <2>1. z \in Seq(V)
    BY <1>2, EachType
  <2>2. Len(z) = m /\ \A j \in 1..m : z[j] = f[v[j]]
    BY DEF Mapped
  <2> QED
    BY <2>1, <2>2
<1> HIDE DEF x, y, z, n, m
<1>6. /\ y \o z \in Seq(V) /\ Len(y \o z) = n + m
      /\ \A j \in 1..(n + m) : (y \o z)[j] = IF j <= n THEN y[j] ELSE z[j - n]
  <2>1. y \in Seq(V) /\ z \in Seq(V) /\ Len(y) = n /\ Len(z) = m
    BY <1>4, <1>5
  <2>2. /\ y \o z \in Seq(V) /\ Len(y \o z) = Len(y) + Len(z)
        /\ \A j \in 1..(Len(y) + Len(z)) : (y \o z)[j] = IF j <= Len(y) THEN y[j] ELSE z[j - Len(y)]
    BY <2>1, ConcatProperties
  <2> QED
    BY <2>1, <2>2
<1>7. ASSUME NEW j \in 1..(n + m) PROVE x[j] = (y \o z)[j]
  <2>1. CASE j <= n
    <3>1. j \in 1..n
      BY <1>1, <2>1
    <3>2. x[j] = f[w[j]] /\ w[j] = u[j] /\ (y \o z)[j] = y[j] /\ y[j] = f[u[j]]
      BY <1>1, <1>3, <1>4, <1>6, <2>1, <3>1
    <3> QED
      BY <3>2
  <2>2. CASE ~(j <= n)
    <3>1. j - n \in 1..m
      BY <1>1, <2>2
    <3>2. x[j] = f[w[j]] /\ w[j] = v[j - n] /\ (y \o z)[j] = z[j - n] /\ z[j - n] = f[v[j - n]]
      BY <1>1, <1>3, <1>5, <1>6, <2>2, <3>1
    <3> QED
      BY <3>2
  <2> QED
    BY <2>1, <2>2
<1>8. x = y \o z
  BY <1>3, <1>6, <1>7, SeqEqual
<1> QED
  BY <1>8 DEF x, y, z, w

\* what the table gives for each character, for units out of V
LEMMA MappedChars ==
  ASSUME NEW V, NEW f, \A a \in CodePoint : f[a] \in Seq(V), NEW t \in Seq(CodePoint)
  PROVE  Mapped(f, t) \in Seq(Seq(V))
  BY EachType

\* transcoding is done character by character
LEMMA TranscodedType ==
  ASSUME NEW V, NEW f, \A a \in CodePoint : f[a] \in Seq(V), NEW t \in Seq(CodePoint)
  PROVE  Transcoded(f, t) \in Seq(V)
  BY MappedChars, FlattenType DEF Transcoded

\* and so of two texts in turn
LEMMA TranscodedConcat ==
  ASSUME NEW V, NEW f, \A a \in CodePoint : f[a] \in Seq(V),
         NEW u \in Seq(CodePoint), NEW v \in Seq(CodePoint)
  PROVE  Transcoded(f, u \o v) = Transcoded(f, u) \o Transcoded(f, v)
<1>1. Mapped(f, u) \in Seq(Seq(V)) /\ Mapped(f, v) \in Seq(Seq(V))
  BY MappedChars
<1>2. Mapped(f, u \o v) = Mapped(f, u) \o Mapped(f, v)
  BY EachConcat
<1> QED
  BY <1>1, <1>2, FlattenConcat DEF Transcoded

\* of no character
LEMMA TranscodedEmpty ==
  ASSUME NEW f
  PROVE  Transcoded(f, <<>>) = <<>>
<1>1. Mapped(f, <<>>) = <<>>
  BY DEF Mapped
<1> QED
  BY <1>1, FlattenEmpty DEF Transcoded

\* of one
LEMMA TranscodedSingle ==
  ASSUME NEW V, NEW f, \A a \in CodePoint : f[a] \in Seq(V), NEW e \in CodePoint
  PROVE  Transcoded(f, <<e>>) = f[e]
<1>1. Mapped(f, <<e>>) = <<f[e]>>
  BY MappedSingle
<1>2. FlattenSeq(<<f[e]>>) = f[e]
  BY FlattenSingle
<1> QED
  BY <1>1, <1>2 DEF Transcoded

\* what Faithful says of the types
LEMMA FaithfulType ==
  ASSUME NEW f, Faithful(f)
  PROVE  \A a \in CodePoint : f[a] \in Seq(Nat)
  BY DEF Faithful

\* A text and what it is transcoded to begin with the same ASCII characters, and
\* both end there, or go on with something that is not ASCII.
AlikeAfter(x, y) ==
  \/ x = <<>> /\ y = <<>>
  \/ x # <<>> /\ y # <<>> /\ x[1] > 127 /\ y[1] > 127

Fronts(f, t) ==
  \E u \in Seq(Ascii) : \E x \in Seq(CodePoint) : \E y \in Seq(Nat) :
    t = u \o x /\ Transcoded(f, t) = u \o y /\ AlikeAfter(x, y)

\* Characters are numbers, and the small ones are characters of every alphabet.
LEMMA CharNat ==
  /\ \A a \in CodePoint : a \in Nat
  /\ \A a \in Ascii : a \in CodePoint /\ a \in Nat /\ a \in Byte /\ a <= 127
  /\ \A a \in CodePoint : a <= 127 => a \in Ascii
  /\ \A a \in Byte : a \in CodePoint /\ a \in Nat
<1>1. \A a \in CodePoint : a \in Nat
  BY SMT DEF CodePoint
<1>2. \A a \in Ascii : a \in CodePoint
  BY SMT DEF CodePoint, Ascii
<1>3. \A a \in Ascii : a \in Nat /\ a \in Byte /\ a <= 127
  BY SMT DEF Ascii, Byte
<1>4. \A a \in CodePoint : a <= 127 => a \in Ascii
  BY SMT DEF CodePoint, Ascii
<1>5. \A a \in Byte : a \in CodePoint /\ a \in Nat
  BY SMT DEF CodePoint, Byte
<1> QED
  BY <1>1, <1>2, <1>3, <1>4, <1>5

\* Texts of a smaller alphabet are texts of a larger one.
LEMMA AsciiIsText ==
  /\ Seq(Ascii) \subseteq Seq(CodePoint) /\ Seq(Ascii) \subseteq Seq(Nat)
  /\ Seq(Ascii) \subseteq Seq(Byte) /\ Seq(Byte) \subseteq Seq(CodePoint)
  /\ Seq(CodePoint) \subseteq Seq(Nat) /\ Seq(Byte) \subseteq Seq(Nat)
<1>1. Ascii \subseteq CodePoint /\ Ascii \subseteq Nat /\ Ascii \subseteq Byte /\ Byte \subseteq CodePoint
      /\ CodePoint \subseteq Nat /\ Byte \subseteq Nat
  BY CharNat
<1> QED
  BY <1>1, SeqMonotonic

\* A text and what it is transcoded to begin with the same ASCII and go on alike.
LEMMA FrontsHold ==
  ASSUME NEW f, Faithful(f), NEW t \in Seq(CodePoint)
  PROVE  Fronts(f, t)
<1> DEFINE S == {r \in Seq(CodePoint) : Fronts(f, r)}
<1>1. <<>> \in S
  <2>1. Transcoded(f, <<>>) = <<>>
    BY TranscodedEmpty
  <2>2. <<>> \in Seq(Ascii) /\ <<>> \in Seq(CodePoint) /\ <<>> \in Seq(Nat) /\ <<>> = <<>> \o <<>>
    OBVIOUS
  <2> QED
    BY <2>1, <2>2 DEF Fronts, AlikeAfter
<1>2. ASSUME NEW s \in Seq(CodePoint), NEW e \in CodePoint, s \in S
      PROVE  <<e>> \o s \in S
  <2> DEFINE r == <<e>> \o s
             q == Transcoded(f, s)
  <2>0. \A a \in CodePoint : f[a] \in Seq(Nat)
    BY FaithfulType
  <2>1. r \in Seq(CodePoint) /\ <<e>> \in Seq(CodePoint) /\ r # <<>> /\ r[1] = e
    OBVIOUS
  <2>2. q \in Seq(Nat) /\ f[e] \in Seq(Nat)
    BY <2>0, TranscodedType
  <2>3. Transcoded(f, r) = f[e] \o q
    <3>1. Transcoded(f, <<e>>) = f[e]
      BY <2>0, TranscodedSingle
    <3>2. Transcoded(f, r) = Transcoded(f, <<e>>) \o Transcoded(f, s)
      BY <2>0, <2>1, TranscodedConcat
    <3> QED
      BY <3>1, <3>2
  <2>4. CASE e <= 127
    <3>1. f[e] = <<e>>
      BY <2>4 DEF Faithful
    <3>2. PICK u \in Seq(Ascii), x \in Seq(CodePoint), y \in Seq(Nat) :
            s = u \o x /\ q = u \o y /\ AlikeAfter(x, y)
      BY <1>2 DEF Fronts
    <3>3. e \in Ascii /\ <<e>> \o u \in Seq(Ascii)
      BY <2>4, CharNat
    <3>4. r = (<<e>> \o u) \o x
      <4>1. u \in Seq(CodePoint)
        BY AsciiIsText
      <4>2. (<<e>> \o u) \o x = <<e>> \o (u \o x)
        BY <2>1, <4>1, Associative
      <4> QED
        BY <3>2, <4>2
    <3>5. Transcoded(f, r) = (<<e>> \o u) \o y
      <4>1. u \in Seq(Nat) /\ <<e>> \in Seq(Nat)
        BY AsciiIsText, CharNat
      <4>2. (<<e>> \o u) \o y = <<e>> \o (u \o y)
        BY <4>1, Associative
      <4> QED
        BY <2>3, <3>1, <3>2, <4>2
    <3> QED
      BY <2>1, <3>2, <3>3, <3>4, <3>5 DEF Fronts
  <2>5. CASE ~(e <= 127)
    <3> DEFINE y == f[e] \o q
    <3>1. e > 127 /\ Len(f[e]) > 0 /\ f[e][1] > 127
      <4>1. e > 127
        BY <2>5, CharNat
      <4>2. Len(f[e]) > 0 /\ \A j \in 1..Len(f[e]) : f[e][j] > 127
        BY <4>1 DEF Faithful
      <4> QED
        BY <2>2, <4>1, <4>2
    <3>2. y \in Seq(Nat) /\ y # <<>> /\ y[1] > 127
      BY <2>2, <3>1
    <3>3. <<>> \in Seq(Ascii) /\ r = <<>> \o r /\ y = <<>> \o y
      BY <2>1, <3>2
    <3> HIDE DEF r, q, y
    <3>4. Transcoded(f, r) = <<>> \o y
      BY <2>3, <3>3 DEF y
    <3>5. AlikeAfter(r, y)
      BY <2>1, <3>1, <3>2 DEF AlikeAfter
    <3>6. Fronts(f, r)
      BY <2>1, <3>2, <3>3, <3>4, <3>5, Zenon DEF Fronts
    <3> QED
      BY <2>1, <3>6 DEF r
  <2> QED
    BY <2>4, <2>5
<1> HIDE DEF S
<1>3. Seq(CodePoint) \subseteq S
  BY <1>1, <1>2, ConsInduction
<1> QED
  BY <1>3 DEF S

\* ASCII texts are not changed, and of all others something is not ASCII.
Foreign(s) == \E j \in 1..Len(s) : s[j] > 127

\* An ASCII text is transcoded to itself, another one to a text that is not ASCII.
LEMMA AsciiOrForeign ==
  ASSUME NEW f, Faithful(f), NEW t \in Seq(CodePoint)
  PROVE  \/ t \in Seq(Ascii) /\ ~Foreign(t) /\ Transcoded(f, t) = t
         \/ Foreign(t) /\ Foreign(Transcoded(f, t)) /\ t \notin Seq(Ascii)
<1>1. PICK u \in Seq(Ascii), x \in Seq(CodePoint), y \in Seq(Nat) :
        t = u \o x /\ Transcoded(f, t) = u \o y /\ AlikeAfter(x, y)
  <2>1. Fronts(f, t)
    BY FrontsHold
  <2> QED
    BY <2>1 DEF Fronts
<1>2. u \in Seq(Nat) /\ u \in Seq(CodePoint)
  BY AsciiIsText
<1>3. CASE x = <<>>
  <2>1. y = <<>>
    BY <1>1, <1>3 DEF AlikeAfter
  <2>2. t = u /\ Transcoded(f, t) = u
    BY <1>1, <1>2, <1>3, <2>1
  <2>3. ~Foreign(u)
    <3>1. \A j \in 1..Len(u) : u[j] \in Ascii
      OBVIOUS
    <3>2. \A a \in Ascii : ~(a > 127)
      BY DEF Ascii
    <3> QED
      BY <3>1, <3>2 DEF Foreign
  <2> QED
    BY <2>2, <2>3
<1>4. CASE x # <<>>
  <2>1. y # <<>> /\ x[1] > 127 /\ y[1] > 127
    BY <1>1, <1>4 DEF AlikeAfter
  <2>2. ASSUME NEW z \in Seq(Nat), z # <<>>, z[1] > 127
        PROVE  /\ Len(u) + 1 \in 1..Len(u \o z) /\ (u \o z)[Len(u) + 1] > 127
    BY <1>2, <2>2
  <2>3. x \in Seq(Nat)
    BY AsciiIsText
  <2>4. Len(u) + 1 \in 1..Len(t) /\ t[Len(u) + 1] > 127
    BY <1>1, <1>4, <2>1, <2>2, <2>3
  <2>5. Foreign(Transcoded(f, t)) /\ Foreign(t)
    BY <1>1, <2>1, <2>2, <2>4 DEF Foreign
  <2>6. t \notin Seq(Ascii)
    <3>1. \A a \in Ascii : ~(a > 127)
      BY DEF Ascii
    <3>2. t \in Seq(Ascii) => t[Len(u) + 1] \in Ascii
      BY <2>4
    <3> QED
      BY <2>4, <3>1, <3>2
  <2> QED
    BY <2>5, <2>6
<1> QED
  BY <1>3, <1>4

\* the last character
LEMMA LastAlike ==
  ASSUME NEW f, Faithful(f), NEW t \in Seq(CodePoint), t # <<>>
  PROVE  LET r == Transcoded(f, t)
         IN  /\ r \in Seq(Nat) /\ r # <<>>
             /\ t[Len(t)] <= 127 => r[Len(r)] = t[Len(t)]
             /\ t[Len(t)] > 127 => r[Len(r)] > 127
<1> DEFINE n == Len(t)
           e == t[n]
           s == SubSeq(t, 1, n - 1)
           r == Transcoded(f, t)
<1>1. n \in Nat \ {0} /\ e \in CodePoint /\ s \in Seq(CodePoint) /\ t = s \o <<e>>
  OBVIOUS
<1>2. \A a \in CodePoint : f[a] \in Seq(Nat)
  BY FaithfulType
<1> HIDE DEF n, e, s, r
<1>3. f[e] \in Seq(Nat) /\ Transcoded(f, s) \in Seq(Nat)
  BY <1>1, <1>2, TranscodedType
<1>4. r = Transcoded(f, s) \o f[e]
  <2>1. <<e>> \in Seq(CodePoint)
    BY <1>1
  <2>2. Transcoded(f, <<e>>) = f[e]
    BY <1>1, <1>2, TranscodedSingle
  <2>3. Transcoded(f, s \o <<e>>) = Transcoded(f, s) \o Transcoded(f, <<e>>)
    BY <1>1, <1>2, <2>1, TranscodedConcat
  <2> QED
    BY <1>1, <2>2, <2>3 DEF r
<1>5. Len(f[e]) > 0 /\ (e <= 127 => f[e] = <<e>>) /\ (e > 127 => f[e][Len(f[e])] > 127)
  <2>0. e \in Nat
    BY <1>1, CharNat
  <2>1. CASE e <= 127
    <3>1. f[e] = <<e>>
      BY <1>1, <2>1 DEF Faithful
    <3>2. Len(<<e>>) = 1 /\ ~(e > 127)
      BY <2>0, <2>1
    <3> QED
      BY <2>1, <3>1, <3>2
  <2>2. CASE e > 127
    <3>1. Len(f[e]) > 0 /\ \A j \in 1..Len(f[e]) : f[e][j] > 127
      BY <1>1, <2>2 DEF Faithful
    <3>2. Len(f[e]) \in 1..Len(f[e]) /\ ~(e <= 127)
      BY <1>3, <2>0, <2>2, <3>1
    <3> QED
      BY <2>2, <3>1, <3>2
  <2> QED
    BY <2>0, <2>1, <2>2
<1> DEFINE g == f[e]
           q == Transcoded(f, s)
<1>6. g \in Seq(Nat) /\ q \in Seq(Nat) /\ Len(g) > 0
  BY <1>3, <1>5
<1> HIDE DEF g, q
<1>7. q \o g \in Seq(Nat) /\ q \o g # <<>> /\ (q \o g)[Len(q \o g)] = g[Len(g)]
  BY <1>6
<1>8. e <= 127 => g[Len(g)] = e
  BY <1>5 DEF g
<1> QED
  BY <1>4, <1>5, <1>7, <1>8 DEF r, g, q, e, n

\* the first character
LEMMA FirstAlike ==
  ASSUME NEW f, Faithful(f), NEW t \in Seq(CodePoint)
  PROVE  LET r == Transcoded(f, t)
         IN  /\ r \in Seq(Nat)
             /\ t = <<>> <=> r = <<>>
             /\ t # <<>> /\ t[1] <= 127 => r[1] = t[1]
             /\ t # <<>> /\ t[1] > 127 => r[1] > 127
<1> DEFINE r == Transcoded(f, t)
<1>1. r \in Seq(Nat)
  BY FaithfulType, TranscodedType
<1>2. PICK u \in Seq(Ascii), x \in Seq(CodePoint), y \in Seq(Nat) :
        t = u \o x /\ r = u \o y /\ AlikeAfter(x, y)
  <2>1. Fronts(f, t)
    BY FrontsHold
  <2> QED
    BY <2>1 DEF Fronts
<1> HIDE DEF r
<1>3. CASE u = <<>>
  <2>1. t = x /\ r = y
    BY <1>2, <1>3
  <2>2. CASE x = <<>> /\ y = <<>>
    BY <1>1, <2>1, <2>2 DEF r
  <2>3. CASE x # <<>> /\ y # <<>> /\ x[1] > 127 /\ y[1] > 127
    <3>1. x[1] \in CodePoint
      BY <2>3
    <3>2. ~(x[1] <= 127)
      BY <2>3, <3>1, CharNat
    <3> QED
      BY <1>1, <2>1, <2>3, <3>2 DEF r
  <2> QED
    BY <1>2, <2>2, <2>3 DEF AlikeAfter
<1>4. CASE u # <<>>
  <2>1. u \in Seq(CodePoint) /\ u \in Seq(Nat) /\ u[1] \in Ascii
    BY <1>4, AsciiIsText
  <2>2. t # <<>> /\ r # <<>> /\ t[1] = u[1] /\ r[1] = u[1]
    BY <1>2, <1>4, <2>1
  <2>3. u[1] <= 127 /\ ~(u[1] > 127)
    BY <2>1, CharNat
  <2> QED
    BY <1>1, <2>2, <2>3 DEF r
<1> QED
  BY <1>3, <1>4

\* No separator arises.
LEMMA WholeTranscoded ==
  ASSUME NEW f, Faithful(f), NEW t \in Seq(CodePoint), Whole(t)
  PROVE  Whole(Transcoded(f, t))
<1> DEFINE S == {r \in Seq(CodePoint) : Whole(r) => Whole(Transcoded(f, r))}
<1>0. \A a \in CodePoint : f[a] \in Seq(Nat)
  BY FaithfulType
<1>1. <<>> \in S
  BY TranscodedEmpty DEF Whole
<1>2. ASSUME NEW s \in Seq(CodePoint), NEW e \in CodePoint, s \in S, Whole(<<e>> \o s)
      PROVE  Whole(Transcoded(f, <<e>> \o s))
  <2> DEFINE r == <<e>> \o s
             g == f[e]
             q == Transcoded(f, s)
  <2>1. /\ r \in Seq(CodePoint) /\ <<e>> \in Seq(CodePoint) /\ Len(r) = Len(s) + 1
        /\ r[1] = e /\ \A j \in 1..Len(s) : r[j + 1] = s[j]
    OBVIOUS
  <2>2. q \in Seq(Nat) /\ g \in Seq(Nat)
    BY <1>0, TranscodedType
  <2>3. Transcoded(f, r) = g \o q
    <3>1. Transcoded(f, <<e>>) = f[e]
      BY <1>0, TranscodedSingle
    <3>2. Transcoded(f, r) = Transcoded(f, <<e>>) \o Transcoded(f, s)
      BY <1>0, <2>1, TranscodedConcat
    <3> QED
      BY <3>1, <3>2
  <2>4. Whole(r)
    BY <1>2
  <2> HIDE DEF r
  <2>5. Whole(s)
    <3>1. ASSUME NEW p \in 1..(Len(s) - 1), IsSeparator(s, p) PROVE FALSE
      <4>1. p + 1 \in 1..(Len(r) - 1) /\ r[p + 1] = s[p] /\ r[(p + 1) + 1] = s[p + 1]
        BY <2>1
      <4>2. IsSeparator(r, p + 1)
        BY <3>1, <4>1 DEF IsSeparator
      <4> QED
        BY <2>4, <4>1, <4>2 DEF Whole
    <3> QED
      BY <3>1 DEF Whole
  <2>6. Whole(q)
    BY <1>2, <2>5
  <2>7. /\ q = <<>> <=> s = <<>>
        /\ s # <<>> /\ s[1] <= 127 => q[1] = s[1]
        /\ s # <<>> /\ s[1] > 127 => q[1] > 127
    BY FirstAlike
  <2>8. e \in Nat /\ (e <= 127 => g = <<e>>)
        /\ (e > 127 => \A j \in 1..Len(g) : g[j] > 127)
    BY CharNat DEF Faithful
  <2> HIDE DEF g, q
  <2>9. ASSUME NEW p \in 1..(Len(g \o q) - 1), IsSeparator(g \o q, p) PROVE FALSE
    <3> DEFINE a == Len(g)
    <3>1. /\ a \in Nat /\ Len(q) \in Nat /\ p \in 1..((a + Len(q)) - 1)
          /\ \A j \in 1..(a + Len(q)) : (g \o q)[j] = IF j <= a THEN g[j] ELSE q[j - a]
      BY <2>2, <2>9, ConcatProperties
    <3>2. (g \o q)[p] = HYPHEN /\ (g \o q)[p + 1] = HYPHEN
      BY <2>9 DEF IsSeparator
    <3>3. CASE p > a
      <4>1. p - a \in 1..(Len(q) - 1) /\ q[p - a] = HYPHEN /\ q[(p - a) + 1] = HYPHEN
        BY <3>1, <3>2, <3>3
      <4> QED
        BY <2>6, <4>1 DEF Whole, IsSeparator
    <3>4. CASE ~(p > a)
      <4>1. p \in 1..a /\ g[p] = HYPHEN
        BY <3>1, <3>2, <3>4
      <4>2. e <= 127
        <5>1. e > 127 => g[p] > 127
          BY <2>8, <4>1
        <5> QED
          BY <2>8, <4>1, <5>1 DEF HYPHEN
      <4>3. g = <<e>> /\ a = 1 /\ p = 1 /\ e = HYPHEN
        <5>1. g = <<e>>
          BY <2>8, <4>2
        <5>2. Len(g) = 1 /\ g[1] = e
          BY <5>1
        <5>3. p = 1
          BY <4>1, <5>2
        <5> QED
          BY <4>1, <5>1, <5>2, <5>3
      <4>4. Len(q) > 0 /\ q[1] = HYPHEN
        BY <3>1, <3>2, <4>3
      <4>5. s # <<>>
        BY <2>7, <4>4
      <4>6. s[1] \in CodePoint /\ s[1] \in Nat
        BY <4>5, CharNat
      <4>7. s[1] = HYPHEN
        BY <2>7, <4>4, <4>5, <4>6 DEF HYPHEN
      <4>8. 1 \in 1..(Len(r) - 1) /\ r[1] = HYPHEN /\ r[2] = HYPHEN
        <5>1. Len(s) \in Nat /\ Len(s) >= 1
          BY <4>5
        <5>2. r[1 + 1] = s[1]
          BY <2>1, <5>1
        <5> QED
          BY <2>1, <4>3, <4>7, <5>1, <5>2
      <4> QED
        BY <2>4, <4>8 DEF Whole, IsSeparator
    <3> QED
      BY <3>1, <3>3, <3>4
  <2>10. Whole(g \o q)
    BY <2>9 DEF Whole
  <2> QED
    BY <2>3, <2>10 DEF r
<1>3. ASSUME NEW s \in Seq(CodePoint), NEW e \in CodePoint, s \in S
      PROVE  <<e>> \o s \in S
  <2>1. <<e>> \o s \in Seq(CodePoint)
    OBVIOUS
  <2>2. Whole(<<e>> \o s) => Whole(Transcoded(f, <<e>> \o s))
    BY <1>2, <1>3
  <2> QED
    BY <2>1, <2>2
<1> HIDE DEF S
<1>4. Seq(CodePoint) \subseteq S
  BY <1>1, <1>3, ConsInduction
<1> QED
  BY <1>4 DEF S

\* Hyphens, and so separators, are kept.
LEMMA HyphenChar == HYPHEN \in Ascii /\ HYPHEN \in CodePoint /\ HYPHEN \in Nat
  BY CharNat DEF HYPHEN, Ascii

\* Separators are transcoded to themselves.
LEMMA SeparatorKept ==
  ASSUME NEW f, Faithful(f)
  PROVE  /\ Transcoded(f, Separator) = Separator /\ Separator \in Seq(CodePoint)
         /\ Transcoded(f, <<HYPHEN>>) = <<HYPHEN>>
<1>1. Separator \in Seq(Ascii) /\ <<HYPHEN>> \in Seq(Ascii)
  BY HyphenChar DEF Separator
<1>2. Separator \in Seq(CodePoint) /\ <<HYPHEN>> \in Seq(CodePoint)
  BY HyphenChar DEF Separator
<1> QED
  BY <1>1, <1>2, AsciiOrForeign

\* What can stand before a separator is transcoded to what can.
LEMMA LeadsTranscoded ==
  ASSUME NEW f, Faithful(f), NEW u \in Seq(CodePoint), Leads(u)
  PROVE  Leads(Transcoded(f, u))
<1>1. <<HYPHEN>> \in Seq(CodePoint) /\ u \o <<HYPHEN>> \in Seq(CodePoint)
  BY HyphenChar
<1>2. Transcoded(f, u \o <<HYPHEN>>) = Transcoded(f, u) \o <<HYPHEN>>
  <2>1. \A a \in CodePoint : f[a] \in Seq(Nat)
    BY FaithfulType
  <2>2. Transcoded(f, u \o <<HYPHEN>>) = Transcoded(f, u) \o Transcoded(f, <<HYPHEN>>)
    BY <1>1, <2>1, TranscodedConcat
  <2> QED
    BY <2>2, SeparatorKept
<1>3. Whole(u \o <<HYPHEN>>)
  BY DEF Leads
<1>4. Whole(Transcoded(f, u \o <<HYPHEN>>))
  BY <1>1, <1>3, WholeTranscoded
<1> QED
  BY <1>2, <1>4 DEF Leads

\* Splitting and transcoding can be done in either order.
Transcoder(f) == [u \in Seq(CodePoint) |-> Transcoded(f, u)]

\* A transcoded text has the transcoded components.
LEMMA SplitTranscoded ==
  ASSUME NEW f, Faithful(f), NEW t \in Seq(CodePoint)
  PROVE  Split(Transcoded(f, t)) = Mapped(Transcoder(f), Split(t))
<1> DEFINE g == Transcoder(f)
           S == {r \in Seq(CodePoint) : Split(Transcoded(f, r)) = Mapped(g, Split(r))}
<1>0. \A a \in CodePoint : f[a] \in Seq(Nat)
  BY FaithfulType
<1>1. ASSUME NEW s \in Seq(CodePoint), Whole(s) PROVE s \in S
  <2>1. Transcoded(f, s) \in Seq(Nat)
    BY <1>0, TranscodedType
  <2>2. Whole(Transcoded(f, s))
    BY <1>1, WholeTranscoded
  <2>3. Split(Transcoded(f, s)) = <<Transcoded(f, s)>>
    BY <2>1, <2>2, WholeSplits
  <2>4. Split(s) = <<s>>
    BY <1>1, WholeSplits
  <2>5. Mapped(g, <<s>>) = <<g[s]>> /\ g[s] = Transcoded(f, s)
    BY MappedSingle DEF Transcoder
  <2> QED
    BY <2>3, <2>4, <2>5
<1>2. ASSUME NEW u \in Seq(CodePoint), NEW v \in Seq(CodePoint), Leads(u), v \in S
      PROVE  (u \o Separator) \o v \in S
  <2> DEFINE w == (u \o Separator) \o v
             x == Transcoded(f, u)
             y == Transcoded(f, v)
  <2>1. /\ Separator \in Seq(CodePoint) /\ u \o Separator \in Seq(CodePoint)
        /\ w \in Seq(CodePoint)
    BY SeparatorKept
  <2>2. x \in Seq(Nat) /\ y \in Seq(Nat) /\ Leads(x)
    BY <1>0, <1>2, TranscodedType, LeadsTranscoded
  <2>3. Transcoded(f, w) = (x \o Separator) \o y
    <3>1. Transcoded(f, w) = Transcoded(f, u \o Separator) \o y
      BY <1>0, <2>1, TranscodedConcat
    <3>2. Transcoded(f, u \o Separator) = x \o Transcoded(f, Separator)
      BY <1>0, <2>1, TranscodedConcat
    <3> QED
      BY <3>1, <3>2, SeparatorKept
  <2> HIDE DEF x, y
  <2>4. Split((x \o Separator) \o y) = <<x>> \o Split(y)
    BY <2>2, HyphenChar, FirstSplits, Zenon
  <2>5. Split(w) = <<u>> \o Split(v)
    BY <1>2, HyphenChar, FirstSplits, Zenon
  <2>6. Mapped(g, Headed(u, Split(v))) = Headed(g[u], Mapped(g, Split(v)))
    <3>1. Split(v) \in Seq(Seq(CodePoint))
      BY PartsType DEF Parts
    <3> HIDE DEF g
    <3> QED
      BY <3>1, EachFirst
  <2>7. g[u] = x
    BY DEF Transcoder, x
  <2>8. Split(y) = Mapped(g, Split(v))
    BY <1>2 DEF y
  <2> HIDE DEF g, w
  <2>9. Split(Transcoded(f, w)) = Mapped(g, Split(w))
    BY <2>3, <2>4, <2>5, <2>6, <2>7, <2>8 DEF Headed
  <2> QED
    BY <2>1, <2>9 DEF w
<1> HIDE DEF S
<1>3. Seq(CodePoint) \subseteq S
  BY <1>1, <1>2, HyphenChar, InductionOnParts
<1> QED
  BY <1>3 DEF S

\* the components, one by one
LEMMA ComponentsTranscoded ==
  ASSUME NEW f, Faithful(f), NEW t \in Seq(CodePoint)
  PROVE  /\ Split(t) \in Seq(Seq(CodePoint)) /\ Len(Split(t)) \in Nat \ {0}
         /\ DOMAIN Split(t) = 1..Len(Split(t))
         /\ DOMAIN Split(Transcoded(f, t)) = 1..Len(Split(t))
         /\ \A j \in 1..Len(Split(t)) :
              /\ Split(t)[j] \in Seq(CodePoint)
              /\ Split(Transcoded(f, t))[j] = Transcoded(f, Split(t)[j])
<1> DEFINE c == Split(t)
<1>1. c \in Seq(Seq(CodePoint)) /\ c # <<>>
  BY PartsType DEF Parts
<1>2. Split(Transcoded(f, t)) = Mapped(Transcoder(f), c)
  BY SplitTranscoded
<1> HIDE DEF c
<1>3. DOMAIN c = 1..Len(c) /\ Len(c) \in Nat \ {0}
  BY <1>1
<1>4. \A j \in 1..Len(c) : c[j] \in Seq(CodePoint)
  BY <1>1
<1>5. DOMAIN Mapped(Transcoder(f), c) = 1..Len(c)
  BY <1>3 DEF Mapped
<1>6. ASSUME NEW j \in 1..Len(c)
      PROVE  Mapped(Transcoder(f), c)[j] = Transcoded(f, c[j])
  BY <1>3, <1>4 DEF Mapped, Transcoder
<1> QED
  BY <1>1, <1>2, <1>3, <1>4, <1>5, <1>6 DEF c

-----------------------------------------------------------------------------
(* Reading: a scan over n units, where the character at unit i takes w[i]  *)
(* of them and is c[i]; it stops at a character that is none.              *)

ReadRest(w, c, n, i, g) ==
  IF i > n THEN <<>> ELSE IF w[i] = 0 THEN <<>> ELSE <<c[i]>> \o g[i + w[i]]

Widths(w, n) == \A i \in 1..n : w[i] \in Nat /\ i + w[i] <= n + 1

Reads(w, c, n, g) ==
  \A i \in 1..(n + 1) : g[i] \in Seq(CodePoint) /\ g[i] = ReadRest(w, c, n, i, g)

\* one step of the scan
LEMMA ReadRestType ==
  ASSUME NEW n \in Nat, NEW w, NEW c, NEW g, NEW i \in 1..(n + 1), Widths(w, n),
         \A j \in 1..n : c[j] \in CodePoint,
         \A j \in 1..(n + 1) : j > i => g[j] \in Seq(CodePoint)
  PROVE  ReadRest(w, c, n, i, g) \in Seq(CodePoint)
<1>1. CASE i > n
  BY <1>1 DEF ReadRest
<1>2. CASE ~(i > n)
  <2>1. w[i] \in Nat /\ i + w[i] <= n + 1 /\ c[i] \in CodePoint
    BY <1>2 DEF Widths
  <2>2. CASE w[i] = 0
    BY <1>2, <2>2 DEF ReadRest
  <2>3. CASE w[i] # 0
    <3>1. i + w[i] \in 1..(n + 1) /\ i + w[i] > i
      BY <2>1, <2>3
    <3>2. g[i + w[i]] \in Seq(CodePoint)
      BY <3>1
    <3> DEFINE t == g[i + w[i]]
    <3>3. <<c[i]>> \o t \in Seq(CodePoint)
      <4>1. t \in Seq(CodePoint)
        BY <3>2
      <4> HIDE DEF t
      <4> QED
        BY <2>1, <4>1
    <3> QED
      BY <1>2, <2>3, <3>3 DEF ReadRest
  <2> QED
    BY <2>2, <2>3
<1> QED
  BY <1>1, <1>2

\* it looks ahead only
LEMMA ReadRestAhead ==
  ASSUME NEW n \in Nat, NEW w, NEW c, NEW g, NEW h, NEW i \in 1..(n + 1), Widths(w, n),
         \A j \in 1..(n + 1) : j > i => g[j] = h[j]
  PROVE  ReadRest(w, c, n, i, g) = ReadRest(w, c, n, i, h)
<1>1. CASE i > n
  BY <1>1 DEF ReadRest
<1>2. CASE ~(i > n)
  <2>1. w[i] \in Nat /\ i + w[i] <= n + 1
    BY <1>2 DEF Widths
  <2>2. w[i] # 0 => g[i + w[i]] = h[i + w[i]]
    BY <2>1
  <2> QED
    BY <1>2, <2>2 DEF ReadRest
<1> QED
  BY <1>1, <1>2

\* The scan exists.
LEMMA ReaderExists ==
  ASSUME NEW n \in Nat, NEW w, NEW c, Widths(w, n), \A j \in 1..n : c[j] \in CodePoint
  PROVE  \E g : g = [i \in 1..(n + 1) |-> ReadRest(w, c, n, i, g)]
<1> DEFINE D == 1..(n + 1)
           V == Seq(CodePoint)
           Rhs == [i \in D |-> [g \in [D -> V] |-> ReadRest(w, c, n, i, g)]]
<1>1. V # {}
  <2>1. <<>> \in Seq(CodePoint)
    OBVIOUS
  <2> QED
    BY <2>1
<1>2. \A i \in D : \A g \in [D -> V] : ReadRest(w, c, n, i, g) \in V
  BY ReadRestType
<1>3. Rhs \in [D -> [[D -> V] -> V]]
  BY <1>2
<1>4. LooksAhead(n, V, Rhs)
  <2>1. ASSUME NEW i \in D, NEW g \in [D -> V], NEW h \in [D -> V],
               \A j \in D : j > i => g[j] = h[j]
        PROVE  Rhs[i][g] = Rhs[i][h]
    <3>1. ReadRest(w, c, n, i, g) = ReadRest(w, c, n, i, h)
      <4> HIDE DEF Rhs, V
      <4>1. \A j \in 1..(n + 1) : j > i => g[j] = h[j]
        BY <2>1
      <4> QED
        BY <4>1, ReadRestAhead
    <3> QED
      BY <3>1
  <2> HIDE DEF Rhs, V
  <2> QED
    BY <2>1 DEF LooksAhead
<1> HIDE DEF V, Rhs
<1>5. Solutions(D, V, Rhs) # {}
  BY <1>1, <1>3, <1>4, ScanRecursion
<1>6. PICK g \in [D -> V] : \A i \in D : g[i] = Rhs[i][g]
  BY <1>5 DEF Solutions
<1>7. \A i \in D : g[i] = ReadRest(w, c, n, i, g)
  BY <1>6 DEF Rhs
<1>8. g = [i \in D |-> ReadRest(w, c, n, i, g)]
  BY <1>6, <1>7
<1> QED
  BY <1>8

\* and gives a text at every place
LEMMA ReaderType ==
  ASSUME NEW n \in Nat, NEW w, NEW c, Widths(w, n), \A j \in 1..n : c[j] \in CodePoint,
         NEW g, g = [i \in 1..(n + 1) |-> ReadRest(w, c, n, i, g)]
  PROVE  Reads(w, c, n, g)
<1> DEFINE D == 1..(n + 1)
           S == {i \in D : g[i] \in Seq(CodePoint)}
<1>1. \A i \in D : g[i] = ReadRest(w, c, n, i, g)
  OBVIOUS
<1>2. ASSUME NEW i \in D, \A j \in D : j > i => j \in S PROVE i \in S
  <2>1. ReadRest(w, c, n, i, g) \in Seq(CodePoint)
    BY <1>2, ReadRestType
  <2> QED
    BY <1>1, <2>1
<1> HIDE DEF S
<1>3. D \subseteq S
  BY <1>2, ScanInduction
<1> QED
  BY <1>1, <1>3 DEF S, Reads

\* What is behind the first m units is read as if they were not there.
Beyond(m, n, w, c, ww, cc) == \A i \in 1..n : ww[m + i] = w[i] /\ cc[m + i] = c[i]

\* What is read behind m units is what is read of those alone.
LEMMA ReadsShift ==
  ASSUME NEW n \in Nat, NEW m \in Nat, NEW w, NEW c, NEW g, NEW ww, NEW cc, NEW gg,
         Widths(w, n), Reads(w, c, n, g), Reads(ww, cc, m + n, gg),
         Beyond(m, n, w, c, ww, cc)
  PROVE  \A i \in 1..(n + 1) : gg[m + i] = g[i]
<1> DEFINE D == 1..(n + 1)
           S == {i \in D : gg[m + i] = g[i]}
<1>1. ASSUME NEW i \in D, \A j \in D : j > i => j \in S PROVE i \in S
  <2>1. m + i \in 1..((m + n) + 1)
    OBVIOUS
  <2>2. g[i] = ReadRest(w, c, n, i, g) /\ gg[m + i] = ReadRest(ww, cc, m + n, m + i, gg)
    BY <2>1 DEF Reads
  <2>3. CASE i > n
    <3>1. m + i > m + n
      BY <2>3
    <3> QED
      BY <2>2, <2>3, <3>1 DEF ReadRest
  <2>4. CASE ~(i > n)
    <3>1. ~(m + i > m + n) /\ i \in 1..n
      BY <2>4
    <3>2. w[i] \in Nat /\ i + w[i] <= n + 1 /\ ww[m + i] = w[i] /\ cc[m + i] = c[i]
      BY <3>1 DEF Widths, Beyond
    <3>3. w[i] # 0 => gg[(m + i) + w[i]] = g[i + w[i]]
      <4>1. SUFFICES ASSUME w[i] # 0 PROVE gg[(m + i) + w[i]] = g[i + w[i]]
        OBVIOUS
      <4>2. i + w[i] \in D /\ i + w[i] > i /\ (m + i) + w[i] = m + (i + w[i])
        BY <3>2, <4>1
      <4> QED
        BY <1>1, <4>2
    <3> QED
      BY <2>2, <2>4, <3>1, <3>2, <3>3 DEF ReadRest
  <2> QED
    BY <2>3, <2>4
<1> HIDE DEF S
<1>2. D \subseteq S
  BY <1>1, ScanInduction
<1> QED
  BY <1>2 DEF S

\* Where every character up to unit m ends by there, what follows is read after it.
Within(K, m, w, c, ww, cc) ==
  \A i \in 1..m : i \in K =>
    w[i] > 0 /\ i + w[i] \in K /\ ww[i] = w[i] /\ cc[i] = c[i] /\ c[i] \in CodePoint

InFront(K, m, g, gg) == \A i \in 1..(m + 1) : i \in K => gg[i] = g[i] \o gg[m + 1]

\* What is read of a text whose front is whole characters begins with the front's.
LEMMA ReadsFront ==
  ASSUME NEW n \in Nat, NEW m \in Nat, NEW w, NEW c, NEW g, NEW ww, NEW cc, NEW gg,
         Widths(w, m), Reads(w, c, m, g), Reads(ww, cc, m + n, gg), NEW K,
         Within(K, m, w, c, ww, cc)
  PROVE  InFront(K, m, g, gg)
<1> DEFINE D == 1..(m + 1)
           S == {i \in D : i \in K => gg[i] = g[i] \o gg[m + 1]}
<1>0. m + 1 \in 1..((m + n) + 1) /\ gg[m + 1] \in Seq(CodePoint)
  BY DEF Reads
<1>1. ASSUME NEW i \in D, \A j \in D : j > i => j \in S PROVE i \in S
  <2>1. i \in 1..((m + n) + 1)
    OBVIOUS
  <2>2. g[i] = ReadRest(w, c, m, i, g) /\ gg[i] = ReadRest(ww, cc, m + n, i, gg)
    BY <2>1 DEF Reads
  <2>3. CASE i > m
    <3>1. i = m + 1 /\ g[i] = <<>>
      BY <2>2, <2>3 DEF ReadRest
    <3> DEFINE z == gg[m + 1]
    <3>2. z \in Seq(CodePoint)
      BY <1>0
    <3> HIDE DEF z
    <3>3. <<>> \o z = z
      BY <3>2
    <3>4. gg[i] = g[i] \o gg[m + 1]
      BY <3>1, <3>3 DEF z
    <3> QED
      BY <3>4
  <2>4. CASE ~(i > m) /\ i \in K
    <3>1. ~(i > m + n) /\ i \in 1..m
      BY <2>4
    <3>2. /\ w[i] > 0 /\ i + w[i] \in K /\ ww[i] = w[i] /\ cc[i] = c[i] /\ c[i] \in CodePoint
          /\ w[i] \in Nat /\ i + w[i] <= m + 1
      BY <2>4, <3>1 DEF Widths, Within
    <3> DEFINE t == g[i + w[i]]
               z == gg[m + 1]
               a == c[i]
    <3>3. i + w[i] \in D /\ i + w[i] > i
      BY <3>2
    <3>4. gg[i + w[i]] = t \o z
      BY <1>1, <3>2, <3>3
    <3>5. g[i] = <<a>> \o t /\ gg[i] = <<a>> \o (t \o z)
      <4>1. ~(i > m) /\ w[i] # 0
        BY <2>4, <3>2
      <4>2. g[i] = <<a>> \o t
        BY <2>2, <4>1 DEF ReadRest
      <4>3. gg[i] = <<cc[i]>> \o gg[i + ww[i]]
        BY <2>2, <3>1, <3>2, <4>1 DEF ReadRest
      <4>4. gg[i] = <<a>> \o gg[i + w[i]]
        BY <3>2, <4>3
      <4> QED
        BY <3>4, <4>2, <4>4
    <3>6. t \in Seq(CodePoint) /\ z \in Seq(CodePoint) /\ <<a>> \in Seq(CodePoint)
      BY <1>0, <3>2, <3>3 DEF Reads
    <3> HIDE DEF t, z, a
    <3>7. <<a>> \o (t \o z) = (<<a>> \o t) \o z
      BY <3>6, Associative
    <3> QED
      BY <3>5, <3>7 DEF z
  <2> QED
    BY <2>3, <2>4
<1> HIDE DEF S
<1>2. D \subseteq S
  BY <1>1, ScanInduction
<1> QED
  BY <1>2 DEF S, InFront

-----------------------------------------------------------------------------
(* UTF-8 is read by such a scan.                                           *)

TwoBytes(a, b)         == ((a % 32) * 64) + (b % 64)
ThreeBytes(a, b, c)    == ((a % 16) * 4096) + ((b % 64) * 64) + (c % 64)
FourBytes(a, b, c, d)  == ((a % 8) * 262144) + ((b % 64) * 4096) + ((c % 64) * 64) + (d % 64)

Point(s, i, w) ==
  CASE w = 1 -> s[i]
    [] w = 2 -> TwoBytes(s[i], s[i + 1])
    [] w = 3 -> ThreeBytes(s[i], s[i + 1], s[i + 2])
    [] w = 4 -> FourBytes(s[i], s[i + 1], s[i + 2], s[i + 3])

ByteRest(s, i, g) ==
  IF i > Len(s) THEN <<>>
  ELSE LET w == Utf8Width(s, i)
       IN  IF w = 0 THEN <<>> ELSE <<Point(s, i, w)>> \o g[i + w]

ByteReading(s) == CHOOSE g : g = [i \in 1..(Len(s) + 1) |-> ByteRest(s, i, g)]

\* FromUtf8 is such a scan.
LEMMA FromUtf8Def ==
  ASSUME NEW s
  PROVE  FromUtf8(s) = ByteReading(s)[1]
  BY SMT DEF FromUtf8, ByteReading, ByteRest, Point, TwoBytes, ThreeBytes, FourBytes

ByteWidths(s) == [i \in 1..Len(s) |-> Utf8Width(s, i)]
BytePoints(s) == [i \in 1..Len(s) |-> IF Utf8Width(s, i) = 0 THEN 0 ELSE Point(s, i, Utf8Width(s, i))]

\* What the bytes of a character are.
Trail(s, i) == i <= Len(s) /\ s[i] \in 128..191

CharOf(s, i, w) ==
  \/ w = 1 /\ s[i] <= 127
  \/ w = 2 /\ s[i] \in 194..223 /\ Trail(s, i + 1)
  \/ /\ w = 3 /\ s[i] \in 224..239 /\ Trail(s, i + 1) /\ Trail(s, i + 2)
     /\ (s[i] = 224 => s[i + 1] >= 160) /\ (s[i] = 237 => s[i + 1] < 160)
  \/ /\ w = 4 /\ s[i] \in 240..244 /\ Trail(s, i + 1) /\ Trail(s, i + 2) /\ Trail(s, i + 3)
     /\ (s[i] = 240 => s[i + 1] >= 144) /\ (s[i] = 244 => s[i + 1] <= 143)

\* What the bytes of a character of each width are.
LEMMA WidthCases ==
  ASSUME NEW s \in Seq(Byte), NEW i \in 1..Len(s), Utf8Width(s, i) # 0
  PROVE  CharOf(s, i, Utf8Width(s, i))
<1>1. s[i] \in Byte /\ i \in Nat
  OBVIOUS
<1>2. (\A d \in 1..2 : Continues(s, i + d)) => Trail(s, i + 1) /\ Trail(s, i + 2)
  BY DEF Continues, Trail
<1>3. (\A d \in 1..3 : Continues(s, i + d)) => Trail(s, i + 1) /\ Trail(s, i + 2) /\ Trail(s, i + 3)
  BY DEF Continues, Trail
<1>4. Continues(s, i + 1) => Trail(s, i + 1)
  BY DEF Continues, Trail
<1> QED
  BY <1>1, <1>2, <1>3, <1>4 DEF Utf8Width, CharOf

\* The numbers that characters of two, three and four bytes stand for.
LEMMA TwoType ==
  ASSUME NEW a \in 194..223, NEW b \in 128..191
  PROVE  TwoBytes(a, b) \in CodePoint
<1>1. a % 32 \in 0..31 /\ b % 64 \in 0..63
  BY SMT
<1>2. ASSUME NEW x \in 0..31, NEW y \in 0..63 PROVE (x * 64) + y \in CodePoint
  BY SMT DEF CodePoint
<1> QED
  BY <1>1, <1>2, SMT DEF TwoBytes

\* Three bytes are a code point.
LEMMA ThreeType ==
  ASSUME NEW a \in 224..239, NEW b \in 128..191, NEW c \in 128..191
  PROVE  ThreeBytes(a, b, c) \in CodePoint
<1>1. a % 16 \in 0..15 /\ b % 64 \in 0..63 /\ c % 64 \in 0..63
  BY SMT
<1> DEFINE x == a % 16
           y == b % 64
           z == c % 64
<1>2. x \in 0..15 /\ y \in 0..63 /\ z \in 0..63
  BY <1>1
<1>3. ThreeBytes(a, b, c) = (x * 4096) + (y * 64) + z
  BY SMT DEF ThreeBytes
<1> HIDE DEF x, y, z
<1> QED
  BY <1>2, <1>3, SMT DEF CodePoint

\* Four bytes are a code point, for the last leading byte up to U+10FFFF.
LEMMA FourType ==
  ASSUME NEW a \in 240..244, NEW b \in 128..191, NEW c \in 128..191, NEW d \in 128..191,
         a = 244 => b <= 143
  PROVE  FourBytes(a, b, c, d) \in CodePoint
<1>1. b % 64 \in 0..63 /\ c % 64 \in 0..63 /\ d % 64 \in 0..63
  BY SMT
<1>2. (a = 244 /\ a % 8 = 4 /\ b % 64 <= 15) \/ a % 8 \in 0..3
  BY SMT
<1> DEFINE x == a % 8
           y == b % 64
           z == c % 64
           q == d % 64
<1>3. y \in 0..63 /\ z \in 0..63 /\ q \in 0..63 /\ ((x = 4 /\ y <= 15) \/ x \in 0..3)
  BY <1>1, <1>2
<1>4. FourBytes(a, b, c, d) = (x * 262144) + (y * 4096) + (z * 64) + q
  BY SMT DEF FourBytes
<1> HIDE DEF x, y, z, q
<1>5. CASE x = 4 /\ y <= 15
  BY <1>3, <1>4, <1>5, SMT DEF CodePoint
<1>6. CASE x \in 0..3
  BY <1>3, <1>4, <1>6, SMT DEF CodePoint
<1> QED
  BY <1>3, <1>5, <1>6

\* A character that is read is a code point.
LEMMA PointType ==
  ASSUME NEW s \in Seq(Byte), NEW i \in 1..Len(s), Utf8Width(s, i) # 0
  PROVE  Point(s, i, Utf8Width(s, i)) \in CodePoint
<1>0. s[i] \in Byte
  OBVIOUS
<1>1. ASSUME NEW w, CharOf(s, i, w) PROVE Point(s, i, w) \in CodePoint
  <2>1. CASE w = 1
    <3>1. s[i] <= 127
      BY <1>1, <2>1 DEF CharOf
    <3>2. s[i] \in CodePoint
      BY <1>0, CharNat
    <3> QED
      BY <2>1, <3>2, SMT DEF Point
  <2>2. CASE w = 2
    <3>1. s[i] \in 194..223 /\ s[i + 1] \in 128..191
      BY <1>1, <2>2 DEF CharOf, Trail
    <3>2. TwoBytes(s[i], s[i + 1]) \in CodePoint
      BY <3>1, TwoType
    <3> QED
      BY <2>2, <3>2 DEF Point
  <2>3. CASE w = 3
    <3>1. s[i] \in 224..239 /\ s[i + 1] \in 128..191 /\ s[i + 2] \in 128..191
      BY <1>1, <2>3 DEF CharOf, Trail
    <3>2. ThreeBytes(s[i], s[i + 1], s[i + 2]) \in CodePoint
      BY <3>1, ThreeType
    <3> QED
      BY <2>3, <3>2 DEF Point
  <2>4. CASE w = 4
    <3>1. /\ s[i] \in 240..244 /\ s[i + 1] \in 128..191 /\ s[i + 2] \in 128..191
          /\ s[i + 3] \in 128..191 /\ (s[i] = 244 => s[i + 1] <= 143)
      BY <1>1, <2>4 DEF CharOf, Trail
    <3>2. FourBytes(s[i], s[i + 1], s[i + 2], s[i + 3]) \in CodePoint
      BY <3>1, FourType
    <3> QED
      BY <2>4, <3>2 DEF Point
  <2> QED
    BY <1>1, <2>1, <2>2, <2>3, <2>4 DEF CharOf
<1> QED
  BY <1>1, WidthCases

\* The scan reads code points, and stays in the text.
LEMMA ByteReads ==
  ASSUME NEW s \in Seq(Byte)
  PROVE  /\ Widths(ByteWidths(s), Len(s))
         /\ \A j \in 1..Len(s) : BytePoints(s)[j] \in CodePoint
         /\ Reads(ByteWidths(s), BytePoints(s), Len(s), ByteReading(s))
<1> DEFINE n == Len(s)
           w == ByteWidths(s)
           c == BytePoints(s)
           h == ByteReading(s)
<1>0. n \in Nat
  OBVIOUS
<1>1. Widths(w, n)
  <2>1. ASSUME NEW i \in 1..n PROVE w[i] \in Nat /\ i + w[i] <= n + 1
    <3>1. Utf8Width(s, i) \in 0..4 /\ i + Utf8Width(s, i) <= Len(s) + 1
      BY WidthBound
    <3> QED
      BY <3>1 DEF ByteWidths
  <2> QED
    BY <2>1 DEF Widths
<1>2. \A j \in 1..n : c[j] \in CodePoint
  <2>1. 0 \in CodePoint
    BY SMT DEF CodePoint
  <2> QED
    BY <2>1, PointType DEF BytePoints
<1>3. ASSUME NEW g, NEW i \in 1..(n + 1) PROVE ByteRest(s, i, g) = ReadRest(w, c, n, i, g)
  <2>1. CASE i > n
    BY <2>1 DEF ByteRest, ReadRest
  <2>2. CASE ~(i > n)
    <3>1. i \in 1..Len(s)
      BY <1>0, <2>2
    <3>2. w[i] = Utf8Width(s, i) /\ (w[i] # 0 => c[i] = Point(s, i, Utf8Width(s, i)))
      BY <3>1 DEF ByteWidths, BytePoints
    <3> HIDE DEF w, c
    <3> QED
      BY <2>2, <3>2 DEF ByteRest, ReadRest
  <2> QED
    BY <2>1, <2>2
<1> HIDE DEF w, c
<1>4. PICK g : g = [i \in 1..(n + 1) |-> ReadRest(w, c, n, i, g)]
  <2> HIDE DEF n
  <2> QED
    BY <1>0, <1>1, <1>2, ReaderExists
<1>5. g = [i \in 1..(n + 1) |-> ByteRest(s, i, g)]
  BY <1>3, <1>4
<1>6. h = [i \in 1..(n + 1) |-> ByteRest(s, i, h)]
  BY <1>5 DEF ByteReading
<1> HIDE DEF h
<1>7. h = [i \in 1..(n + 1) |-> ReadRest(w, c, n, i, h)]
  BY <1>3, <1>6
<1>8. Reads(w, c, n, h)
  <2> HIDE DEF n
  <2> QED
    BY <1>0, <1>1, <1>2, <1>7, ReaderType
<1> QED
  BY <1>1, <1>2, <1>8 DEF w, c, h

\* What UTF-8 is read as is a text.
LEMMA FromUtf8Type ==
  ASSUME NEW s \in Seq(Byte)
  PROVE  FromUtf8(s) \in Seq(CodePoint)
<1>1. ByteReading(s)[1] \in Seq(CodePoint)
  <2>1. 1 \in 1..(Len(s) + 1)
    OBVIOUS
  <2> QED
    BY <2>1, ByteReads DEF Reads
<1> QED
  BY <1>1, FromUtf8Def

\* and nothing else is one
LEMMA WidthIs ==
  ASSUME NEW s, NEW i \in Nat, NEW w, s[i] \in Nat, CharOf(s, i, w)
  PROVE  Utf8Width(s, i) = w
<1>1. Trail(s, i + 1) => Continues(s, i + 1) /\ s[i + 1] \in Nat
  <2>1. \A b \in 128..191 : b \in Nat
    OBVIOUS
  <2> QED
    BY <2>1, Zenon DEF Continues, Trail
<1>2. ASSUME Trail(s, i + 1), Trail(s, i + 2) PROVE \A d \in 1..2 : Continues(s, i + d)
  BY <1>2 DEF Continues, Trail
<1>3. ASSUME Trail(s, i + 1), Trail(s, i + 2), Trail(s, i + 3)
      PROVE \A d \in 1..3 : Continues(s, i + d)
  BY <1>3 DEF Continues, Trail
<1>4. CASE w = 1
  BY <1>4, WidthOfOne DEF CharOf
<1>5. CASE w = 2
  BY <1>1, <1>5 DEF CharOf, Utf8Width
<1>6. CASE w = 3
  BY <1>1, <1>2, <1>6 DEF CharOf, Utf8Width
<1>7. CASE w = 4
  BY <1>1, <1>3, <1>7 DEF CharOf, Utf8Width
<1> QED
  BY <1>4, <1>5, <1>6, <1>7 DEF CharOf

\* A character is the same one in a longer text.
LEMMA CharExtends ==
  ASSUME NEW u \in Seq(Byte), NEW v \in Seq(Byte), NEW i \in 1..Len(u), Utf8Width(u, i) # 0
  PROVE  /\ Utf8Width(u \o v, i) = Utf8Width(u, i)
         /\ Point(u \o v, i, Utf8Width(u, i)) = Point(u, i, Utf8Width(u, i))
<1> DEFINE z == u \o v
           w == Utf8Width(u, i)
<1>1. /\ i \in Nat /\ u[i] \in Byte /\ Len(u) \in Nat /\ Len(z) \in Nat /\ Len(z) >= Len(u)
      /\ \A j \in 1..Len(u) : z[j] = u[j]
  OBVIOUS
<1>2. CharOf(u, i, w)
  BY WidthCases
<1> HIDE DEF z, w
<1>3. z[i] = u[i] /\ z[i] \in Nat
  BY <1>1, ByteNat
<1>4. ASSUME NEW d \in 1..3, Trail(u, i + d) PROVE z[i + d] = u[i + d] /\ Trail(z, i + d)
  <2>1. i + d \in 1..Len(u)
    BY <1>1, <1>4 DEF Trail
  <2>2. z[i + d] = u[i + d] /\ i + d <= Len(z)
    BY <1>1, <2>1
  <2> QED
    BY <1>4, <2>2 DEF Trail
<1>5. /\ Trail(u, i + 1) => z[i + 1] = u[i + 1] /\ Trail(z, i + 1)
      /\ Trail(u, i + 2) => z[i + 2] = u[i + 2] /\ Trail(z, i + 2)
      /\ Trail(u, i + 3) => z[i + 3] = u[i + 3] /\ Trail(z, i + 3)
  BY <1>4
<1>6. CharOf(z, i, w)
  BY <1>2, <1>3, <1>5 DEF CharOf
<1>7. Point(z, i, w) = Point(u, i, w)
  BY <1>2, <1>3, <1>5 DEF CharOf, Point
<1> QED
  BY <1>1, <1>3, <1>6, <1>7, WidthIs DEF z, w

\* And so it is behind another text.
LEMMA CharShift ==
  ASSUME NEW u \in Seq(Byte), NEW v \in Seq(Byte), NEW i \in 1..Len(v)
  PROVE  /\ Utf8Width(u \o v, Len(u) + i) = Utf8Width(v, i)
         /\ Utf8Width(v, i) # 0 =>
              Point(u \o v, Len(u) + i, Utf8Width(v, i)) = Point(v, i, Utf8Width(v, i))
<1> DEFINE n == Len(v)
           m == Len(u)
           w == u \o v
           x == Utf8Width(v, i)
<1>1. /\ n \in Nat /\ m \in Nat /\ w \in Seq(Byte) /\ Len(w) = m + n
      /\ \A j \in 1..n : w[m + j] = v[j] /\ v[j] \in Byte
  BY ConcatProperties
<1> HIDE DEF w
<1>2. \A p \in Nat \ {0} : Continues(w, m + p) <=> Continues(v, p)
  <2> TAKE p \in Nat \ {0}
  <2>1. CASE p \in 1..n
    <3>1. w[m + p] = v[p] /\ m + p <= Len(w) /\ p <= Len(v)
      BY <1>1, <2>1
    <3> QED
      BY <3>1 DEF Continues
  <2>2. CASE p \notin 1..n
    <3>1. ~(m + p <= Len(w)) /\ ~(p <= Len(v))
      BY <1>1, <2>2
    <3> QED
      BY <3>1 DEF Continues
  <2> QED
    BY <2>1, <2>2
<1>3. w[m + i] = v[i] /\ v[i] \in Byte
  BY <1>1
<1>4. w[m + i] = v[i] /\ v[i] \in Nat
  BY <1>3, ByteNat, Zenon
<1>5. \A d \in 1..3 : Continues(w, (m + i) + d) <=> Continues(v, i + d)
  <2> TAKE d \in 1..3
  <2>1. (m + i) + d = m + (i + d) /\ i + d \in Nat \ {0}
    BY <1>1
  <2> QED
    BY <1>2, <2>1
<1>6. \A k \in 1..3 : (\A d \in 1..k : Continues(w, (m + i) + d)) <=>
                      (\A d \in 1..k : Continues(v, i + d))
  BY <1>5, SMTT(30)
<1>7. \A d \in 1..3 : Continues(v, i + d) => w[(m + i) + d] = v[i + d]
  <2> TAKE d \in 1..3
  <2>1. Continues(v, i + d) => i + d \in 1..n
    BY <1>1 DEF Continues
  <2>2. (m + i) + d = m + (i + d)
    BY <1>1
  <2> QED
    BY <1>1, <2>1, <2>2
<1>8. Utf8Width(w, m + i) = Utf8Width(v, i)
  <2>1. Continues(w, (m + i) + 1) => w[(m + i) + 1] = v[i + 1]
    BY <1>5, <1>7
  <2> QED
    BY <1>4, <1>6, <2>1, WidthSame
<1>9. ASSUME x # 0 PROVE Point(w, m + i, x) = Point(v, i, x)
  <2>1. CharOf(v, i, x)
    BY <1>9, WidthCases
  <2> HIDE DEF x
  <2>2. /\ Trail(v, i + 1) => w[(m + i) + 1] = v[i + 1]
        /\ Trail(v, i + 2) => w[(m + i) + 2] = v[i + 2]
        /\ Trail(v, i + 3) => w[(m + i) + 3] = v[i + 3]
    BY <1>7 DEF Continues, Trail
  <2> QED
    BY <1>4, <2>1, <2>2 DEF CharOf, Point
<1> QED
  BY <1>8, <1>9 DEF w, x

\* In front of anything a well-formed text is read as it is.
LEMMA ReadConcat ==
  ASSUME NEW u \in Seq(Byte), NEW v \in Seq(Byte), Utf8Validate(u)
  PROVE  FromUtf8(u \o v) = FromUtf8(u) \o FromUtf8(v)
<1> DEFINE n == Len(v)
           m == Len(u)
           z == u \o v
           w == ByteWidths(u)
           c == BytePoints(u)
           g == ByteReading(u)
           K == {i \in 1..(m + 1) : Validity(u)[i]}
<1>1. /\ n \in Nat /\ m \in Nat /\ z \in Seq(Byte) /\ Len(z) = m + n
  BY ConcatProperties
<1>2. Widths(w, m) /\ Reads(w, c, m, g) /\ \A j \in 1..m : c[j] \in CodePoint
  BY ByteReads
<1>3. Widths(ByteWidths(v), n) /\ Reads(ByteWidths(v), BytePoints(v), n, ByteReading(v))
  BY ByteReads
<1>4. Reads(ByteWidths(z), BytePoints(z), m + n, ByteReading(z))
  <2>1. Reads(ByteWidths(z), BytePoints(z), Len(z), ByteReading(z))
    BY <1>1, ByteReads
  <2> QED
    BY <1>1, <2>1
<1>5. ASSUME NEW i \in 1..m, i \in K
      PROVE  /\ w[i] > 0 /\ i + w[i] \in K /\ ByteWidths(z)[i] = w[i]
             /\ BytePoints(z)[i] = c[i] /\ c[i] \in CodePoint
  <2>1. Validity(u)[i] = ValidFrom(u, i, Validity(u)) /\ i # Len(u) + 1
    BY <1>1, ValidityDef
  <2>2. Utf8Width(u, i) > 0 /\ Validity(u)[i + Utf8Width(u, i)]
    BY <1>5, <2>1 DEF ValidFrom
  <2>3. i + Utf8Width(u, i) <= m + 1 /\ Utf8Width(u, i) \in 0..4
    BY WidthBound
  <2>4. Utf8Width(u, i) # 0
    BY <2>2, <2>3
  <2>5. Utf8Width(z, i) = Utf8Width(u, i)
        /\ Point(z, i, Utf8Width(u, i)) = Point(u, i, Utf8Width(u, i))
    BY <2>4, CharExtends
  <2>6. i \in 1..Len(z)
    BY <1>1
  <2>7. ByteWidths(z)[i] = w[i] /\ BytePoints(z)[i] = c[i]
    <3> HIDE DEF z
    <3> QED
      BY <2>5, <2>6 DEF ByteWidths, BytePoints
  <2>8. w[i] = Utf8Width(u, i)
    BY DEF ByteWidths
  <2>9. i + w[i] \in K
    BY <1>1, <2>2, <2>3, <2>8
  <2> QED
    BY <1>2, <2>2, <2>7, <2>8, <2>9
<1>6. \A i \in 1..n : /\ ByteWidths(z)[m + i] = ByteWidths(v)[i]
                      /\ BytePoints(z)[m + i] = BytePoints(v)[i]
  <2> TAKE i \in 1..n
  <2>1. /\ Utf8Width(z, m + i) = Utf8Width(v, i)
        /\ Utf8Width(v, i) # 0 =>
             Point(z, m + i, Utf8Width(v, i)) = Point(v, i, Utf8Width(v, i))
    BY CharShift
  <2>2. m + i \in 1..Len(z)
    BY <1>1
  <2> HIDE DEF z, m
  <2> QED
    BY <2>1, <2>2 DEF ByteWidths, BytePoints
<1>7. 1 \in K /\ 1 \in 1..(m + 1) /\ 1 \in 1..(n + 1)
  BY <1>1, ValidateDef
<1>10. Beyond(m, n, ByteWidths(v), BytePoints(v), ByteWidths(z), BytePoints(z))
  BY <1>6 DEF Beyond
<1>11. Within(K, m, w, c, ByteWidths(z), BytePoints(z))
  <2> HIDE DEF K, m, w, c, z
  <2> QED
    BY <1>5 DEF Within
<1>8. ByteReading(z)[m + 1] = ByteReading(v)[1]
  <2> HIDE DEF z, n, m
  <2>1. \A i \in 1..(n + 1) : ByteReading(z)[m + i] = ByteReading(v)[i]
    BY <1>1, <1>3, <1>4, <1>10, ReadsShift
  <2> QED
    BY <1>7, <2>1
<1>9. ByteReading(z)[1] = g[1] \o ByteReading(z)[m + 1]
  <2> HIDE DEF z, n, m, w, c, g, K
  <2>1. InFront(K, m, g, ByteReading(z))
    BY <1>1, <1>2, <1>4, <1>11, ReadsFront
  <2> QED
    BY <1>7, <2>1 DEF InFront
<1> QED
  BY <1>8, <1>9, FromUtf8Def

\* And whether the whole is well-formed, what follows decides.
LEMMA ValidFront ==
  ASSUME NEW u \in Seq(Byte), NEW v \in Seq(Byte), Utf8Validate(u)
  PROVE  Utf8Validate(u \o v) = Utf8Validate(v)
<1> DEFINE n == Len(v)
           m == Len(u)
           z == u \o v
           f == Validity(z)
           g == Validity(u)
           S == {i \in 1..(m + 1) : g[i] => f[i] = f[m + 1]}
<1>1. /\ n \in Nat /\ m \in Nat /\ z \in Seq(Byte) /\ Len(z) = m + n
  BY ConcatProperties
<1>2. ASSUME NEW i \in 1..(m + 1), \A j \in 1..(m + 1) : j > i => j \in S PROVE i \in S
  <2>1. CASE i = m + 1
    BY <2>1
  <2>2. CASE i # m + 1 /\ g[i]
    <3>1. i \in 1..m /\ i \in 1..Len(z) /\ i \in 1..(Len(z) + 1) /\ i # Len(z) + 1
      BY <1>1, <2>2
    <3>2. g[i] = ValidFrom(u, i, g) /\ i # Len(u) + 1
      BY <2>2, ValidityDef
    <3>3. f[i] = ValidFrom(z, i, f)
      BY <1>1, <3>1, ValidityDef
    <3>4. Utf8Width(u, i) > 0 /\ g[i + Utf8Width(u, i)]
      BY <2>2, <3>2 DEF ValidFrom
    <3>5. i + Utf8Width(u, i) <= m + 1 /\ Utf8Width(u, i) \in 0..4
      BY <3>1, WidthBound
    <3>6. Utf8Width(z, i) = Utf8Width(u, i)
      BY <3>1, <3>4, <3>5, CharExtends
    <3> DEFINE x == Utf8Width(u, i)
    <3>7. f[i] = f[i + x]
      <4>1. f[i + x] \in BOOLEAN
        <5>1. i + x \in 1..(Len(z) + 1)
          BY <1>1, <3>1, <3>4, <3>5
        <5> QED
          BY <1>1, <5>1, ValidityDef
      <4> HIDE DEF f, z
      <4> QED
        BY <3>1, <3>3, <3>4, <3>6, <4>1 DEF ValidFrom
    <3>8. i + x \in 1..(m + 1) /\ i + x > i
      BY <1>1, <3>4, <3>5
    <3> HIDE DEF x, f, g
    <3>9. f[i + x] = f[m + 1]
      BY <1>2, <3>4, <3>8 DEF x
    <3> QED
      BY <3>7, <3>9
  <2> QED
    BY <2>1, <2>2
<1>3. 1..(m + 1) \subseteq S
  <2> HIDE DEF S, m
  <2> QED
    BY <1>1, <1>2, ScanInduction
<1>4. 1 \in 1..(m + 1) /\ 1 \in 1..(n + 1)
  BY <1>1
<1>5. g[1]
  BY ValidateDef
<1>6. f[1] = f[m + 1]
  BY <1>3, <1>4, <1>5
<1>7. f[m + 1] = Validity(v)[1]
  BY <1>4, ValidityShift
<1> QED
  BY <1>6, <1>7, ValidateDef

-----------------------------------------------------------------------------
(* The characters that UTF-8 is written with.                              *)

\* ASCII is written in one byte.
LEMMA InOneByte ==
  ASSUME NEW c \in CodePoint, c <= 127
  PROVE  Utf8Char(c) = <<c>>
  BY SMT DEF Utf8Char

\* Up to U+07FF, two bytes are written, and read back.
LEMMA InTwoBytes ==
  ASSUME NEW c \in CodePoint, c > 127, c <= 2047
  PROVE  \E a \in 194..223 : \E b \in 128..191 : Utf8Char(c) = <<a, b>> /\ TwoBytes(a, b) = c
<1> DEFINE a == 192 + (c \div 64)
           b == 128 + ((c \div 1) % 64)
<1>0. c \in Nat
  BY SMT DEF CodePoint
<1>1. Utf8Char(c) = <<a, b>>
  BY <1>0, SMT DEF Utf8Char, Tail6
<1>2. a \in 194..223 /\ b \in 128..191
  BY <1>0, SMT
<1>3. TwoBytes(a, b) = c
  BY <1>0, SMT DEF TwoBytes
<1> HIDE DEF a, b
<1> QED
  BY <1>1, <1>2, <1>3

SpelledInThree(c, a, b, d) ==
  /\ a \in 224..239 /\ b \in 128..191 /\ d \in 128..191
  /\ Utf8Char(c) = <<a, b, d>> /\ ThreeBytes(a, b, d) = c
  /\ a = 224 => b >= 160
  /\ c \notin Surrogate => (a = 237 => b < 160)

\* Up to U+FFFF, three bytes.
LEMMA InThreeBytes ==
  ASSUME NEW c \in CodePoint, c > 2047, c <= 65535
  PROVE  \E a, b, d : SpelledInThree(c, a, b, d)
<1> DEFINE a == 224 + (c \div 4096)
           b == 128 + ((c \div 64) % 64)
           d == 128 + ((c \div 1) % 64)
<1>0. c \in Nat
  BY SMT DEF CodePoint
<1>1. Utf8Char(c) = <<a, b, d>>
  BY <1>0, SMT DEF Utf8Char, Tail6
<1>2. a \in 224..239 /\ b \in 128..191 /\ d \in 128..191
  BY <1>0, SMT
<1>3. ThreeBytes(a, b, d) = c
  BY <1>0, SMT DEF ThreeBytes
<1>4. a = 224 => b >= 160
  BY <1>0, SMT
<1>5. c \notin Surrogate => (a = 237 => b < 160)
  <2>1. c \notin Surrogate => c < 55296 \/ c > 57343
    BY <1>0, SMT DEF Surrogate, HighSurrogate, LowSurrogate
  <2> QED
    BY <1>0, <2>1, SMT
<1>6. SpelledInThree(c, a, b, d)
  <2> HIDE DEF a, b, d
  <2> QED
    BY <1>1, <1>2, <1>3, <1>4, <1>5 DEF SpelledInThree
<1> HIDE DEF a, b, d
<1> QED
  BY <1>6

SpelledInFour(c, a, b, d, e) ==
  /\ a \in 240..244 /\ b \in 128..191 /\ d \in 128..191 /\ e \in 128..191
  /\ Utf8Char(c) = <<a, b, d, e>> /\ FourBytes(a, b, d, e) = c
  /\ a = 240 => b >= 144
  /\ a = 244 => b <= 143

\* Beyond, four bytes.
LEMMA InFourBytes ==
  ASSUME NEW c \in CodePoint, c > 65535
  PROVE  \E a, b, d, e : SpelledInFour(c, a, b, d, e)
<1> DEFINE a == 240 + (c \div 262144)
           b == 128 + ((c \div 4096) % 64)
           d == 128 + ((c \div 64) % 64)
           e == 128 + ((c \div 1) % 64)
<1>0. c \in Nat /\ c <= 1114111
  BY SMT DEF CodePoint
<1>1. Utf8Char(c) = <<a, b, d, e>>
  BY <1>0, SMT DEF Utf8Char, Tail6
<1>2. a \in 240..244 /\ b \in 128..191 /\ d \in 128..191 /\ e \in 128..191
  BY <1>0, SMT
<1>3. FourBytes(a, b, d, e) = c
  BY <1>0, SMT DEF FourBytes
<1>4. (a = 240 => b >= 144) /\ (a = 244 => b <= 143)
  BY <1>0, SMT
<1>5. SpelledInFour(c, a, b, d, e)
  <2> HIDE DEF a, b, d, e
  <2> QED
    BY <1>1, <1>2, <1>3, <1>4 DEF SpelledInFour
<1> HIDE DEF a, b, d, e
<1> QED
  BY <1>5

\* Each is well-formed, unless it is a surrogate, and stands for what it was made of.
LEMMA CharFacts ==
  ASSUME NEW c \in CodePoint
  PROVE  LET x == Utf8Char(c)
         IN  /\ x \in Seq(Byte) /\ Len(x) \in 1..4
             /\ c <= 127 => x = <<c>>
             /\ c > 127 => \A j \in 1..Len(x) : x[j] > 127
             /\ c \notin Surrogate => CharOf(x, 1, Len(x)) /\ Point(x, 1, Len(x)) = c
<1> DEFINE x == Utf8Char(c)
<1>0. c \in Nat
  BY CharNat
<1>1. CASE c <= 127
  <2>1. x = <<c>> /\ c \in Byte
    BY <1>1, CharNat, InOneByte
  <2> HIDE DEF x
  <2>2. x \in Seq(Byte) /\ Len(x) = 1 /\ x[1] = c
    BY <2>1
  <2> QED
    BY <1>0, <1>1, <2>1, <2>2, SMT DEF CharOf, Point, x
<1>2. CASE c > 127 /\ c <= 2047
  <2>1. PICK a \in 194..223, b \in 128..191 : x = <<a, b>> /\ TwoBytes(a, b) = c
    BY <1>2, InTwoBytes
  <2>2. a \in Byte /\ b \in Byte
    BY DEF Byte
  <2> HIDE DEF x
  <2>3. x \in Seq(Byte) /\ Len(x) = 2 /\ x[1] = a /\ x[2] = b
    BY <2>1, <2>2
  <2>4. CharOf(x, 1, 2) /\ Point(x, 1, 2) = c
    BY <2>1, <2>3, SMT DEF CharOf, Trail, Point
  <2>5. \A j \in 1..2 : x[j] > 127
    BY <2>3
  <2> QED
    BY <1>0, <1>2, <2>3, <2>4, <2>5 DEF x
<1>3. CASE c > 2047 /\ c <= 65535
  <2>0. PICK a, b, d : SpelledInThree(c, a, b, d)
    BY <1>3, InThreeBytes
  <2>1. /\ a \in 224..239 /\ b \in 128..191 /\ d \in 128..191
        /\ x = <<a, b, d>> /\ ThreeBytes(a, b, d) = c
        /\ a = 224 => b >= 160
        /\ c \notin Surrogate => (a = 237 => b < 160)
    BY <2>0 DEF SpelledInThree
  <2>2. a \in Byte /\ b \in Byte /\ d \in Byte
    BY <2>1 DEF Byte
  <2> HIDE DEF x
  <2>3. x \in Seq(Byte) /\ Len(x) = 3 /\ x[1] = a /\ x[2] = b /\ x[3] = d
    BY <2>1, <2>2
  <2>4. Point(x, 1, 3) = c
    BY <2>1, <2>3, SMT DEF Point
  <2>5. c \notin Surrogate => CharOf(x, 1, 3)
    BY <2>1, <2>3, SMT DEF CharOf, Trail
  <2>6. \A j \in 1..3 : x[j] > 127
    BY <2>1, <2>3
  <2> QED
    BY <1>0, <1>3, <2>3, <2>4, <2>5, <2>6 DEF x
<1>4. CASE c > 65535
  <2>0. PICK a, b, d, e : SpelledInFour(c, a, b, d, e)
    BY <1>4, InFourBytes
  <2>1. /\ a \in 240..244 /\ b \in 128..191 /\ d \in 128..191 /\ e \in 128..191
        /\ x = <<a, b, d, e>> /\ FourBytes(a, b, d, e) = c
        /\ a = 240 => b >= 144
        /\ a = 244 => b <= 143
    BY <2>0 DEF SpelledInFour
  <2>2. a \in Byte /\ b \in Byte /\ d \in Byte /\ e \in Byte
    BY <2>1 DEF Byte
  <2> HIDE DEF x
  <2>3. x \in Seq(Byte) /\ Len(x) = 4 /\ x[1] = a /\ x[2] = b /\ x[3] = d /\ x[4] = e
    BY <2>1, <2>2
  <2>4. Point(x, 1, 4) = c
    BY <2>1, <2>3, SMT DEF Point
  <2>5. CharOf(x, 1, 4)
    BY <2>1, <2>3, SMT DEF CharOf, Trail
  <2>6. \A j \in 1..4 : x[j] > 127
    BY <2>1, <2>3
  <2> QED
    BY <1>0, <1>4, <2>3, <2>4, <2>5, <2>6, SMT DEF x
<1> QED
  BY <1>0, <1>1, <1>2, <1>3, <1>4, SMT

\* A single one is read as one.
LEMMA CharRead ==
  ASSUME NEW c \in CodePoint, c \notin Surrogate
  PROVE  Utf8Validate(Utf8Char(c)) /\ FromUtf8(Utf8Char(c)) = <<c>>
<1> DEFINE x == Utf8Char(c)
           n == Len(x)
<1>1. x \in Seq(Byte) /\ n \in 1..4 /\ CharOf(x, 1, n) /\ Point(x, 1, n) = c
  BY CharFacts
<1> HIDE DEF x
<1>2. x[1] \in Byte /\ 1 \in 1..Len(x) /\ 1 \in 1..(Len(x) + 1) /\ Len(x) + 1 \in 1..(Len(x) + 1)
  BY <1>1
<1>3. Utf8Width(x, 1) = n
  BY <1>1, <1>2, ByteNat, WidthIs
<1> HIDE DEF n
<1>4. Utf8Validate(x)
  <2>1. Validity(x)[Len(x) + 1] = ValidFrom(x, Len(x) + 1, Validity(x))
    BY <1>1, <1>2, ValidityDef
  <2>2. Validity(x)[Len(x) + 1]
    BY <2>1 DEF ValidFrom
  <2>3. Validity(x)[1] = ValidFrom(x, 1, Validity(x))
    BY <1>1, <1>2, ValidityDef
  <2>4. 1 + n = Len(x) + 1 /\ n > 0
    BY <1>1 DEF n
  <2>5. ValidFrom(x, 1, Validity(x))
    BY <1>3, <2>2, <2>4 DEF ValidFrom
  <2> QED
    BY <2>3, <2>5, ValidateDef
<1>5. FromUtf8(x) = <<c>>
  <2> DEFINE h == ByteReading(x)
  <2>1. Reads(ByteWidths(x), BytePoints(x), Len(x), h)
    BY <1>1, ByteReads
  <2>2. ByteWidths(x)[1] = n /\ BytePoints(x)[1] = c
    <3>1. n # 0
      BY <1>1
    <3> QED
      BY <1>1, <1>2, <1>3, <3>1 DEF ByteWidths, BytePoints
  <2> HIDE DEF h
  <2>3. h[1] = ReadRest(ByteWidths(x), BytePoints(x), Len(x), 1, h)
        /\ h[Len(x) + 1] = ReadRest(ByteWidths(x), BytePoints(x), Len(x), Len(x) + 1, h)
    BY <1>2, <2>1 DEF Reads
  <2>4. h[Len(x) + 1] = <<>>
    <3>1. Len(x) + 1 > Len(x)
      BY <1>1
    <3> QED
      BY <2>3, <3>1 DEF ReadRest
  <2>5. h[1] = <<c>> \o h[1 + n]
    <3>1. ~(1 > Len(x)) /\ n # 0
      BY <1>1 DEF n
    <3> QED
      BY <2>2, <2>3, <3>1 DEF ReadRest
  <2>6. 1 + n = Len(x) + 1
    BY <1>1 DEF n
  <2>7. <<c>> \o <<>> = <<c>>
    OBVIOUS
  <2> QED
    BY <2>4, <2>5, <2>6, <2>7, FromUtf8Def DEF h
<1> QED
  BY <1>4, <1>5 DEF x

\* the characters of Unicode text, without surrogates, and the units of UTF-16
Scalar == {c \in CodePoint : c \notin Surrogate}
Unit   == {c \in Nat : c <= 65535}

\* Texts without surrogates, and of units, are texts.
LEMMA ScalarIsText ==
  Seq(Scalar) \subseteq Seq(CodePoint) /\ Seq(Unit) \subseteq Seq(CodePoint) /\ Seq(Unit) \subseteq Seq(Nat)
<1>1. Scalar \subseteq CodePoint
  BY DEF Scalar
<1>2. Unit \subseteq CodePoint /\ Unit \subseteq Nat
  BY SMT DEF Unit, CodePoint
<1> QED
  BY <1>1, <1>2, SeqMonotonic

Utf8Table == [a \in CodePoint |-> Utf8Char(a)]

\* UTF-8 keeps ASCII and writes every other character with no byte of it.
LEMMA Utf8TableType ==
  Faithful(Utf8Table) /\ \A a \in CodePoint : Utf8Table[a] \in Seq(Byte)
<1>1. ASSUME NEW a \in CodePoint
      PROVE  /\ Utf8Table[a] \in Seq(Byte) /\ Utf8Table[a] \in Seq(Nat)
             /\ a <= 127 => Utf8Table[a] = <<a>>
             /\ a > 127 => Len(Utf8Table[a]) > 0 /\ \A j \in 1..Len(Utf8Table[a]) : Utf8Table[a][j] > 127
  <2>1. Utf8Table[a] = Utf8Char(a)
    BY DEF Utf8Table
  <2> DEFINE x == Utf8Char(a)
  <2>2. /\ x \in Seq(Byte) /\ Len(x) \in 1..4
        /\ a <= 127 => x = <<a>>
        /\ a > 127 => \A j \in 1..Len(x) : x[j] > 127
    BY CharFacts
  <2> HIDE DEF x
  <2>3. x \in Seq(Nat) /\ Len(x) > 0
    BY <2>2, AsciiIsText
  <2> QED
    BY <2>1, <2>2, <2>3 DEF x
<1> QED
  BY <1>1 DEF Faithful

\* Utf8 transcodes by that table.
LEMMA Utf8Def ==
  ASSUME NEW t \in Seq(CodePoint)
  PROVE  Utf8(t) = Transcoded(Utf8Table, t)
<1>1. \A j \in DOMAIN t : Utf8Table[t[j]] = Utf8Char(t[j])
  BY DEF Utf8Table
<1>2. Mapped(Utf8Table, t) = [j \in DOMAIN t |-> Utf8Char(t[j])]
  BY <1>1 DEF Mapped
<1> QED
  BY <1>2 DEF Utf8, Transcoded

\* It gives bytes.
LEMMA Utf8Type ==
  ASSUME NEW t \in Seq(CodePoint)
  PROVE  Utf8(t) \in Seq(Byte)
  BY Utf8TableType, Utf8Def, TranscodedType

\* UTF-8 of one character in front of others
LEMMA Utf8Cons ==
  ASSUME NEW c \in CodePoint, NEW t \in Seq(CodePoint)
  PROVE  /\ Utf8(<<c>> \o t) = Utf8Char(c) \o Utf8(t)
         /\ Utf8(<<>>) = <<>> /\ Utf8(<<c>>) = Utf8Char(c)
<1>1. <<c>> \in Seq(CodePoint) /\ <<c>> \o t \in Seq(CodePoint) /\ <<>> \in Seq(CodePoint)
  OBVIOUS
<1>2. Transcoded(Utf8Table, <<c>> \o t) = Transcoded(Utf8Table, <<c>>) \o Transcoded(Utf8Table, t)
  BY <1>1, Utf8TableType, TranscodedConcat
<1>3. Transcoded(Utf8Table, <<c>>) = Utf8Table[c] /\ Utf8Table[c] = Utf8Char(c)
  <2>1. Utf8Table[c] = Utf8Char(c)
    BY DEF Utf8Table
  <2> QED
    BY <2>1, Utf8TableType, TranscodedSingle
<1> QED
  BY <1>1, <1>2, <1>3, Utf8Def, TranscodedEmpty

\* Unicode text survives UTF-8.
LEMMA Utf8RoundTrip ==
  ASSUME NEW t \in Seq(Scalar)
  PROVE  Utf8Validate(Utf8(t)) /\ FromUtf8(Utf8(t)) = t
<1> DEFINE S == {r \in Seq(Scalar) : Utf8Validate(Utf8(r)) /\ FromUtf8(Utf8(r)) = r}
<1>1. <<>> \in S
  <2>1. Utf8(<<>>) = <<>>
    <3>1. 0 \in CodePoint /\ <<>> \in Seq(CodePoint)
      BY SMT DEF CodePoint
    <3> QED
      BY <3>1, Utf8Cons
  <2>2. FromUtf8(<<>>) = <<>>
    <3> DEFINE e == <<>>
               h == ByteReading(e)
    <3>1. e \in Seq(Byte) /\ Len(e) = 0 /\ 1 \in 1..(Len(e) + 1) /\ 1 > Len(e)
      OBVIOUS
    <3> HIDE DEF e
    <3>2. h[1] = ReadRest(ByteWidths(e), BytePoints(e), Len(e), 1, h)
      BY <3>1, ByteReads DEF Reads
    <3>3. h[1] = <<>>
      BY <3>1, <3>2 DEF ReadRest
    <3> QED
      BY <3>3, FromUtf8Def DEF e
  <2> QED
    BY <2>1, <2>2, ValidEmpty
<1>2. ASSUME NEW s \in Seq(Scalar), NEW c \in Scalar, s \in S
      PROVE  <<c>> \o s \in S
  <2> DEFINE x == Utf8Char(c)
             y == Utf8(s)
  <2>1. c \in CodePoint /\ c \notin Surrogate /\ s \in Seq(CodePoint)
    BY ScalarIsText DEF Scalar
  <2>2. Utf8(<<c>> \o s) = x \o y
    BY <2>1, Utf8Cons
  <2>3. x \in Seq(Byte) /\ y \in Seq(Byte)
    BY <2>1, CharFacts, Utf8Type
  <2>4. Utf8Validate(x) /\ FromUtf8(x) = <<c>>
    BY <2>1, CharRead
  <2>5. Utf8Validate(y) /\ FromUtf8(y) = s
    BY <1>2
  <2> HIDE DEF x, y
  <2>6. FromUtf8(x \o y) = <<c>> \o s
    BY <2>3, <2>4, <2>5, ReadConcat
  <2>7. Utf8Validate(x \o y)
    BY <2>3, <2>4, <2>5, ValidFront
  <2>8. <<c>> \o s \in Seq(Scalar)
    OBVIOUS
  <2> QED
    BY <2>2, <2>6, <2>7, <2>8
<1> HIDE DEF S
<1>3. Seq(Scalar) \subseteq S
  BY <1>1, <1>2, ConsInduction
<1> QED
  BY <1>3 DEF S

-----------------------------------------------------------------------------
(* UTF-16.                                                                 *)

\* A character is one unit or a pair of surrogates that stands for it.
LEMMA UnitCharFacts ==
  ASSUME NEW c \in CodePoint
  PROVE  LET x == Utf16Char(c)
         IN  \/ c <= 65535 /\ x = <<c>> /\ c \in Unit
             \/ /\ c > 65535 /\ x \in Seq(Unit) /\ Len(x) = 2
                /\ x[1] \in HighSurrogate /\ x[2] \in LowSurrogate
                /\ 65536 + ((x[1] - 55296) * 1024) + (x[2] - 56320) = c
<1>0. c \in Nat /\ c <= 1114111
  BY SMT DEF CodePoint
<1>1. CASE c <= 65535
  <2>1. Utf16Char(c) = <<c>>
    BY <1>1, SMT DEF Utf16Char
  <2>2. c \in Unit
    BY <1>0, <1>1, SMT DEF Unit
  <2> QED
    BY <1>1, <2>1, <2>2, SMT
<1>2. CASE ~(c <= 65535)
  <2> DEFINE a == 55296 + ((c - 65536) \div 1024)
             b == 56320 + (c % 1024)
             x == <<a, b>>
  <2>1. Utf16Char(c) = x
    BY <1>2, SMT DEF Utf16Char
  <2>2. a \in Nat /\ b \in Nat /\ a >= 55296 /\ a <= 56319 /\ b >= 56320 /\ b <= 57343
    BY <1>0, <1>2, SMT
  <2>3. 65536 + ((a - 55296) * 1024) + (b - 56320) = c
    BY <1>0, <1>2, SMT
  <2> HIDE DEF a, b
  <2>4. a \in HighSurrogate /\ b \in LowSurrogate /\ a \in Unit /\ b \in Unit
    BY <2>2, SMT DEF HighSurrogate, LowSurrogate, Unit
  <2>5. x \in Seq(Unit) /\ Len(x) = 2 /\ x[1] = a /\ x[2] = b
    BY <2>4, SMT
  <2> HIDE DEF x
  <2>6. c > 65535
    BY <1>0, <1>2, SMT
  <2> QED
    BY <2>1, <2>3, <2>4, <2>5, <2>6, SMT
<1> QED
  BY <1>1, <1>2, SMT

Utf16Table == [a \in CodePoint |-> Utf16Char(a)]

\* UTF-16 keeps ASCII and writes every other character with no unit of it.
LEMMA Utf16TableType ==
  Faithful(Utf16Table) /\ \A a \in CodePoint : Utf16Table[a] \in Seq(Unit)
<1>1. ASSUME NEW a \in CodePoint
      PROVE  /\ Utf16Table[a] \in Seq(Unit) /\ Utf16Table[a] \in Seq(Nat)
             /\ a <= 127 => Utf16Table[a] = <<a>>
             /\ a > 127 => Len(Utf16Table[a]) > 0 /\ \A j \in 1..Len(Utf16Table[a]) : Utf16Table[a][j] > 127
  <2> DEFINE x == Utf16Char(a)
  <2>1. Utf16Table[a] = x
    BY DEF Utf16Table
  <2>2. /\ x \in Seq(Unit) /\ Len(x) > 0
        /\ a <= 127 => x = <<a>>
        /\ a > 127 => \A j \in 1..Len(x) : x[j] > 127
    <3>1. CASE a <= 65535 /\ x = <<a>> /\ a \in Unit
      <4> HIDE DEF x
      <4>1. x \in Seq(Unit) /\ Len(x) = 1 /\ x[1] = a
        BY <3>1, SMT
      <4> QED
        BY <3>1, <4>1, SMT
    <3>2. CASE /\ a > 65535 /\ x \in Seq(Unit) /\ Len(x) = 2
               /\ x[1] \in HighSurrogate /\ x[2] \in LowSurrogate
      <4> HIDE DEF x
      <4>1. x[1] > 127 /\ x[2] > 127
        <5>1. \A u \in HighSurrogate : u > 127
          BY SMT DEF HighSurrogate
        <5>2. \A u \in LowSurrogate : u > 127
          BY SMT DEF LowSurrogate
        <5> QED
          BY <3>2, <5>1, <5>2
      <4>2. a \in Nat
        BY CharNat
      <4> QED
        BY <3>2, <4>1, <4>2, SMT
    <3> QED
      BY <3>1, <3>2, UnitCharFacts, SMT
  <2> HIDE DEF x
  <2>3. x \in Seq(Nat)
    BY <2>2, ScalarIsText
  <2> QED
    BY <2>1, <2>2, <2>3
<1> QED
  BY <1>1 DEF Faithful

\* Utf16 transcodes by that table.
LEMMA Utf16Def ==
  ASSUME NEW t \in Seq(CodePoint)
  PROVE  Utf16(t) = Transcoded(Utf16Table, t)
<1>1. \A j \in DOMAIN t : Utf16Table[t[j]] = Utf16Char(t[j])
  BY DEF Utf16Table
<1>2. Mapped(Utf16Table, t) = [j \in DOMAIN t |-> Utf16Char(t[j])]
  BY <1>1 DEF Mapped
<1> QED
  BY <1>2 DEF Utf16, Transcoded

\* It gives units.
LEMMA Utf16Type ==
  ASSUME NEW t \in Seq(CodePoint)
  PROVE  Utf16(t) \in Seq(Unit)
  BY Utf16TableType, Utf16Def, TranscodedType

\* UTF-16 of one character in front of others
LEMMA Utf16Cons ==
  ASSUME NEW c \in CodePoint, NEW t \in Seq(CodePoint)
  PROVE  Utf16(<<c>> \o t) = Utf16Char(c) \o Utf16(t) /\ Utf16(<<>>) = <<>>
<1>1. <<c>> \in Seq(CodePoint) /\ <<c>> \o t \in Seq(CodePoint) /\ <<>> \in Seq(CodePoint)
  OBVIOUS
<1>2. Transcoded(Utf16Table, <<c>> \o t) = Transcoded(Utf16Table, <<c>>) \o Transcoded(Utf16Table, t)
  BY <1>1, Utf16TableType, TranscodedConcat
<1>3. Transcoded(Utf16Table, <<c>>) = Utf16Table[c] /\ Utf16Table[c] = Utf16Char(c)
  <2>1. Utf16Table[c] = Utf16Char(c)
    BY DEF Utf16Table
  <2> QED
    BY <2>1, Utf16TableType, TranscodedSingle
<1> QED
  BY <1>1, <1>2, <1>3, Utf16Def, TranscodedEmpty

\* UTF-16 is read by a scan as well.
IsPair(s, i)    == i < Len(s) /\ s[i] \in HighSurrogate /\ s[i + 1] \in LowSurrogate
PairPoint(a, b) == 65536 + ((a - 55296) * 1024) + (b - 56320)

UnitRest(s, i, g) ==
  IF i > Len(s) THEN <<>>
  ELSE IF IsPair(s, i) THEN <<PairPoint(s[i], s[i + 1])>> \o g[i + 2]
  ELSE <<s[i]>> \o g[i + 1]

UnitReading(s) == CHOOSE g : g = [i \in 1..(Len(s) + 1) |-> UnitRest(s, i, g)]

\* FromUtf16 is a scan.
LEMMA FromUtf16Def ==
  ASSUME NEW s
  PROVE  FromUtf16(s) = UnitReading(s)[1]
  BY SMT DEF FromUtf16, UnitReading, UnitRest, IsPair, PairPoint

UnitWidths(s) == [i \in 1..Len(s) |-> IF IsPair(s, i) THEN 2 ELSE 1]
UnitPoints(s) == [i \in 1..Len(s) |-> IF IsPair(s, i) THEN PairPoint(s[i], s[i + 1]) ELSE s[i]]

\* A pair stands for a code point.
LEMMA PairType ==
  ASSUME NEW a \in HighSurrogate, NEW b \in LowSurrogate
  PROVE  PairPoint(a, b) \in CodePoint
<1>1. a \in Nat /\ b \in Nat /\ a >= 55296 /\ a <= 56319 /\ b >= 56320 /\ b <= 57343
  BY SMT DEF HighSurrogate, LowSurrogate
<1> QED
  BY <1>1, SMT DEF PairPoint, CodePoint

\* The scan of units reads code points, and stays in the text.
LEMMA UnitReads ==
  ASSUME NEW s \in Seq(Unit)
  PROVE  /\ Widths(UnitWidths(s), Len(s))
         /\ \A j \in 1..Len(s) : UnitPoints(s)[j] \in CodePoint
         /\ Reads(UnitWidths(s), UnitPoints(s), Len(s), UnitReading(s))
<1> DEFINE n == Len(s)
           w == UnitWidths(s)
           c == UnitPoints(s)
           h == UnitReading(s)
<1>0. n \in Nat
  OBVIOUS
<1>1. Widths(w, n)
  <2>1. ASSUME NEW i \in 1..n PROVE w[i] \in Nat /\ i + w[i] <= n + 1
    <3>1. IsPair(s, i) => i < n
      BY DEF IsPair
    <3>2. w[i] = IF IsPair(s, i) THEN 2 ELSE 1
      BY DEF UnitWidths
    <3> QED
      BY <1>0, <3>1, <3>2
  <2> QED
    BY <2>1 DEF Widths
<1>2. \A j \in 1..n : c[j] \in CodePoint
  <2> TAKE j \in 1..n
  <2>1. s[j] \in CodePoint
    BY ScalarIsText
  <2>2. IsPair(s, j) => PairPoint(s[j], s[j + 1]) \in CodePoint
    BY PairType DEF IsPair
  <2> QED
    BY <2>1, <2>2 DEF UnitPoints
<1>3. ASSUME NEW g, NEW i \in 1..(n + 1) PROVE UnitRest(s, i, g) = ReadRest(w, c, n, i, g)
  <2>1. CASE i > n
    BY <2>1 DEF UnitRest, ReadRest
  <2>2. CASE ~(i > n)
    <3>1. i \in 1..Len(s)
      BY <1>0, <2>2
    <3>2. /\ IsPair(s, i) => w[i] = 2 /\ c[i] = PairPoint(s[i], s[i + 1])
          /\ ~IsPair(s, i) => w[i] = 1 /\ c[i] = s[i]
      BY <3>1 DEF UnitWidths, UnitPoints
    <3> HIDE DEF w, c
    <3> QED
      BY <2>2, <3>2 DEF UnitRest, ReadRest
  <2> QED
    BY <2>1, <2>2
<1> HIDE DEF w, c
<1>4. PICK g : g = [i \in 1..(n + 1) |-> ReadRest(w, c, n, i, g)]
  <2> HIDE DEF n
  <2> QED
    BY <1>0, <1>1, <1>2, ReaderExists
<1>5. g = [i \in 1..(n + 1) |-> UnitRest(s, i, g)]
  BY <1>3, <1>4
<1>6. h = [i \in 1..(n + 1) |-> UnitRest(s, i, h)]
  BY <1>5 DEF UnitReading
<1> HIDE DEF h
<1>7. h = [i \in 1..(n + 1) |-> ReadRest(w, c, n, i, h)]
  BY <1>3, <1>6
<1>8. Reads(w, c, n, h)
  <2> HIDE DEF n
  <2> QED
    BY <1>0, <1>1, <1>2, <1>7, ReaderType
<1> QED
  BY <1>1, <1>2, <1>8 DEF w, c, h

\* It gives code points, whatever the units.
LEMMA FromUtf16Type ==
  ASSUME NEW s \in Seq(Unit)
  PROVE  FromUtf16(s) \in Seq(CodePoint)
<1>1. UnitReading(s)[1] \in Seq(CodePoint)
  <2>1. 1 \in 1..(Len(s) + 1)
    OBVIOUS
  <2> QED
    BY <2>1, UnitReads DEF Reads
<1> QED
  BY <1>1, FromUtf16Def

\* A unit or a pair in front of others is read as one character.
LEMMA UnitCons ==
  ASSUME NEW c \in Scalar, NEW v \in Seq(Unit)
  PROVE  FromUtf16(Utf16Char(c) \o v) = <<c>> \o FromUtf16(v)
<1> DEFINE x == Utf16Char(c)
           z == x \o v
           m == Len(x)
           n == Len(v)
<1>0. c \in CodePoint /\ c \notin Surrogate
  BY DEF Scalar
<1>1. \/ x = <<c>> /\ c \in Unit
      \/ /\ x \in Seq(Unit) /\ Len(x) = 2 /\ x[1] \in HighSurrogate /\ x[2] \in LowSurrogate
         /\ PairPoint(x[1], x[2]) = c
  BY <1>0, UnitCharFacts, SMT DEF PairPoint
<1> HIDE DEF x
<1>2. x \in Seq(Unit) /\ m \in 1..2
  <2>1. ASSUME x = <<c>>, c \in Unit PROVE x \in Seq(Unit) /\ Len(x) = 1
    BY <2>1
  <2> QED
    BY <1>1, <2>1
<1>3. /\ n \in Nat /\ m \in Nat /\ z \in Seq(Unit) /\ Len(z) = m + n
      /\ \A j \in 1..m : z[j] = x[j]
      /\ \A j \in 1..n : z[m + j] = v[j]
  BY <1>2, ConcatProperties
<1>4. UnitWidths(z)[1] = m /\ UnitPoints(z)[1] = c
  <2>0. 1 \in 1..Len(z)
    BY <1>2, <1>3
  <2>1. CASE x = <<c>> /\ c \in Unit
    <3>1. m = 1 /\ z[1] = c
      BY <1>3, <2>1
    <3>2. ~IsPair(z, 1)
      BY <1>0, <3>1 DEF IsPair, Surrogate
    <3> HIDE DEF z, m
    <3> QED
      BY <2>0, <3>1, <3>2 DEF UnitWidths, UnitPoints
  <2>2. CASE /\ x \in Seq(Unit) /\ Len(x) = 2 /\ x[1] \in HighSurrogate /\ x[2] \in LowSurrogate
             /\ PairPoint(x[1], x[2]) = c
    <3>1. m = 2 /\ z[1] = x[1] /\ z[2] = x[2] /\ 1 < Len(z)
      BY <1>3, <2>2
    <3>2. IsPair(z, 1) /\ PairPoint(z[1], z[1 + 1]) = c
      <4>1. 1 + 1 = 2
        OBVIOUS
      <4> QED
        BY <2>2, <3>1, <4>1 DEF IsPair
    <3> HIDE DEF z, m
    <3> QED
      BY <2>0, <3>1, <3>2 DEF UnitWidths, UnitPoints
  <2> QED
    BY <1>1, <2>1, <2>2
<1>5. Beyond(m, n, UnitWidths(v), UnitPoints(v), UnitWidths(z), UnitPoints(z))
  <2>1. ASSUME NEW i \in 1..n
        PROVE  UnitWidths(z)[m + i] = UnitWidths(v)[i] /\ UnitPoints(z)[m + i] = UnitPoints(v)[i]
    <3>1. m + i \in 1..Len(z) /\ z[m + i] = v[i] /\ (m + i < Len(z) <=> i < n)
      BY <1>3
    <3>2. i < n => z[(m + i) + 1] = v[i + 1]
      <4>1. i < n => i + 1 \in 1..n /\ (m + i) + 1 = m + (i + 1)
        BY <1>3
      <4> QED
        BY <1>3, <4>1
    <3> HIDE DEF z, m
    <3>3. IsPair(z, m + i) <=> IsPair(v, i)
      BY <3>1, <3>2 DEF IsPair
    <3>4. IsPair(v, i) => i < n
      BY DEF IsPair
    <3> QED
      BY <3>1, <3>2, <3>3, <3>4 DEF UnitWidths, UnitPoints
  <2> QED
    BY <2>1 DEF Beyond
<1>6. /\ Widths(UnitWidths(v), n) /\ Reads(UnitWidths(v), UnitPoints(v), n, UnitReading(v))
      /\ Reads(UnitWidths(z), UnitPoints(z), m + n, UnitReading(z))
  <2>1. Reads(UnitWidths(z), UnitPoints(z), Len(z), UnitReading(z))
    BY <1>3, UnitReads
  <2> QED
    BY <1>3, <2>1, UnitReads
<1>7. UnitReading(z)[m + 1] = UnitReading(v)[1]
  <2>1. 1 \in 1..(n + 1)
    BY <1>3
  <2> HIDE DEF z, n, m
  <2>2. \A i \in 1..(n + 1) : UnitReading(z)[m + i] = UnitReading(v)[i]
    BY <1>3, <1>5, <1>6, ReadsShift
  <2> QED
    BY <2>1, <2>2
<1>8. UnitReading(z)[1] = <<c>> \o UnitReading(z)[m + 1]
  <2> HIDE DEF z, n, m
  <2>1. 1 \in 1..((m + n) + 1) /\ ~(1 > m + n) /\ m # 0 /\ 1 + m = m + 1
    BY <1>2, <1>3
  <2>2. UnitReading(z)[1] = ReadRest(UnitWidths(z), UnitPoints(z), m + n, 1, UnitReading(z))
    BY <1>6, <2>1 DEF Reads
  <2> QED
    BY <1>4, <2>1, <2>2 DEF ReadRest
<1> QED
  BY <1>7, <1>8, FromUtf16Def DEF x

\* Unicode text survives UTF-16.
LEMMA Utf16RoundTrip ==
  ASSUME NEW t \in Seq(Scalar)
  PROVE  FromUtf16(Utf16(t)) = t
<1> DEFINE S == {r \in Seq(Scalar) : FromUtf16(Utf16(r)) = r}
<1>1. <<>> \in S
  <2> DEFINE e == <<>>
             h == UnitReading(e)
  <2>1. e \in Seq(Unit) /\ Len(e) = 0 /\ 1 \in 1..(Len(e) + 1) /\ 1 > Len(e)
    OBVIOUS
  <2> HIDE DEF e
  <2>2. h[1] = ReadRest(UnitWidths(e), UnitPoints(e), Len(e), 1, h)
    BY <2>1, UnitReads DEF Reads
  <2>3. h[1] = <<>>
    BY <2>1, <2>2 DEF ReadRest
  <2>4. Utf16(<<>>) = <<>>
    <3>1. 0 \in CodePoint /\ <<>> \in Seq(CodePoint)
      BY SMT DEF CodePoint
    <3> QED
      BY <3>1, Utf16Cons
  <2> QED
    BY <2>3, <2>4, FromUtf16Def DEF e
<1>2. ASSUME NEW s \in Seq(Scalar), NEW c \in Scalar, s \in S
      PROVE  <<c>> \o s \in S
  <2>1. c \in CodePoint /\ s \in Seq(CodePoint)
    BY ScalarIsText DEF Scalar
  <2>2. Utf16(<<c>> \o s) = Utf16Char(c) \o Utf16(s)
    BY <2>1, Utf16Cons
  <2>3. Utf16(s) \in Seq(Unit)
    BY <2>1, Utf16Type
  <2>4. FromUtf16(Utf16Char(c) \o Utf16(s)) = <<c>> \o FromUtf16(Utf16(s))
    BY <2>3, UnitCons
  <2>5. <<c>> \o s \in Seq(Scalar)
    OBVIOUS
  <2> QED
    BY <1>2, <2>2, <2>4, <2>5
<1> HIDE DEF S
<1>3. Seq(Scalar) \subseteq S
  BY <1>1, <1>2, ConsInduction
<1> QED
  BY <1>3 DEF S

\* Substituting changes surrogates only.
LEMMA SubstitutedFacts ==
  ASSUME NEW t \in Seq(CodePoint), NEW c \in CodePoint
  PROVE  /\ Substituted(t, c) \in Seq(CodePoint)
         /\ t \in Seq(Scalar) => Substituted(t, c) = t
<1>1. \A j \in 1..Len(t) : t[j] \in CodePoint
  OBVIOUS
<1>2. Substituted(t, c) \in Seq(CodePoint)
  <2>1. \A j \in 1..Len(t) : (IF t[j] \in Surrogate THEN c ELSE t[j]) \in CodePoint
    BY <1>1
  <2> QED
    BY <2>1 DEF Substituted
<1>3. ASSUME t \in Seq(Scalar) PROVE Substituted(t, c) = t
  <2>1. \A j \in 1..Len(t) : t[j] \notin Surrogate
    BY <1>3 DEF Scalar
  <2>2. \A j \in 1..Len(t) : Substituted(t, c)[j] = t[j]
    BY <2>1 DEF Substituted
  <2>3. Len(Substituted(t, c)) = Len(t)
    BY DEF Substituted
  <2> QED
    BY <1>2, <2>2, <2>3, SeqEqual
<1> QED
  BY <1>2, <1>3

-----------------------------------------------------------------------------
(* What the ports make of a text.                                          *)

\* Folding changes ASCII only, and makes no surrogate.
LEMMA CanonicalPoint ==
  ASSUME NEW c \in CodePoint
  PROVE  /\ Canonical(c) \in CodePoint /\ (c \in Scalar => Canonical(c) \in Scalar)
         /\ c > 127 => Canonical(c) = c
         /\ c <= 127 => Canonical(c) <= 127 /\ c \in Byte
<1>1. c \in Nat /\ c <= 1114111
  BY SMT DEF CodePoint
<1>2. c \in 65..90 => c \notin Surrogate /\ c + 32 \notin Surrogate /\ c + 32 \in CodePoint
  BY SMT DEF Surrogate, HighSurrogate, LowSurrogate, CodePoint
<1>3. c > 127 => Canonical(c) = c
  BY <1>1, SMT DEF Canonical
<1>4. c <= 127 => Canonical(c) <= 127 /\ c \in Byte
  BY <1>1, SMT DEF Canonical, Byte
<1> QED
  BY <1>2, <1>3, <1>4 DEF Canonical, Scalar

Fold == [a \in CodePoint |-> Canonical(a)]

\* A folded text, character by character.
LEMMA FoldedText ==
  ASSUME NEW t \in Seq(CodePoint)
  PROVE  /\ Lowercase(t) \in Seq(CodePoint) /\ Lowercase(t) = Mapped(Fold, t)
         /\ Len(Lowercase(t)) = Len(t)
         /\ \A j \in 1..Len(t) : Lowercase(t)[j] = Canonical(t[j])
         /\ t \in Seq(Scalar) => Lowercase(t) \in Seq(Scalar)
<1>1. Lowercase(t) = Mapped(Fold, t)
  <2>1. \A j \in DOMAIN t : Fold[t[j]] = Canonical(t[j])
    BY DEF Fold
  <2> QED
    BY <2>1 DEF Lowercase, Mapped
<1>2. Len(Lowercase(t)) = Len(t) /\ \A j \in 1..Len(t) : Lowercase(t)[j] = Canonical(t[j])
  BY DEF Lowercase
<1>3. Lowercase(t) \in Seq(CodePoint)
  <2>1. \A a \in CodePoint : Fold[a] \in CodePoint
    BY CanonicalPoint DEF Fold
  <2>2. Mapped(Fold, t) \in Seq(CodePoint)
    BY <2>1, EachType
  <2> QED
    BY <1>1, <2>2
<1>4. ASSUME t \in Seq(Scalar) PROVE Lowercase(t) \in Seq(Scalar)
  <2>1. \A a \in Scalar : Fold[a] \in Scalar
    <3>1. \A a \in Scalar : a \in CodePoint
      BY DEF Scalar
    <3> QED
      BY <3>1, CanonicalPoint DEF Fold
  <2>2. Mapped(Fold, t) \in Seq(Scalar)
    BY <1>4, <2>1, EachType
  <2> QED
    BY <1>1, <2>2
<1> QED
  BY <1>1, <1>2, <1>3, <1>4

\* Folding commutes with writing one character in UTF-8,
LEMMA FoldedChar ==
  ASSUME NEW c \in CodePoint
  PROVE  Lowercase(Utf8Char(c)) = Utf8Char(Canonical(c))
<1>1. CASE c <= 127
  <2>1. Utf8Char(c) = <<c>> /\ Canonical(c) <= 127 /\ c \in Byte /\ Canonical(c) \in CodePoint
    BY <1>1, CharFacts, CanonicalPoint
  <2>2. Utf8Char(Canonical(c)) = <<Canonical(c)>>
    BY <2>1, CharFacts
  <2> QED
    BY <2>1, <2>2, LowercaseSingle
<1>2. CASE ~(c <= 127)
  <2> DEFINE x == Utf8Char(c)
  <2>1. c > 127
    BY <1>2, CharNat
  <2>2. Canonical(c) = c /\ x \in Seq(Byte) /\ \A j \in 1..Len(x) : x[j] > 127
    BY <2>1, CharFacts, CanonicalPoint
  <2> HIDE DEF x
  <2>3. Lowercase(x) \in Seq(Byte) /\ Len(Lowercase(x)) = Len(x)
    BY <2>2, LowercaseType
  <2>4. ASSUME NEW j \in 1..Len(x) PROVE Lowercase(x)[j] = x[j]
    <3>1. Lowercase(x)[j] = Canonical(x[j]) /\ x[j] \in Byte /\ x[j] > 127
      BY <2>2, LowercaseType
    <3> QED
      BY <3>1, CharNat, CanonicalPoint
  <2>5. Lowercase(x) = x
    BY <2>2, <2>3, <2>4, SeqEqual
  <2> QED
    BY <2>2, <2>5 DEF x
<1> QED
  BY <1>1, <1>2

\* Folding a text and folding its UTF-8 is the same.
LEMMA FoldedUtf8 ==
  ASSUME NEW t \in Seq(CodePoint)
  PROVE  Lowercase(Utf8(t)) = Utf8(Lowercase(t))
<1> DEFINE S == {r \in Seq(CodePoint) : Lowercase(Utf8(r)) = Utf8(Lowercase(r))}
<1>1. <<>> \in S
  <2>1. Utf8(<<>>) = <<>>
    <3>1. 0 \in CodePoint /\ <<>> \in Seq(CodePoint)
      BY SMT DEF CodePoint
    <3> QED
      BY <3>1, Utf8Cons
  <2> QED
    BY <2>1, LowercaseEmpty
<1>2. ASSUME NEW s \in Seq(CodePoint), NEW c \in CodePoint, s \in S
      PROVE  <<c>> \o s \in S
  <2> DEFINE x == Utf8Char(c)
             y == Utf8(s)
             k == Canonical(c)
             l == Lowercase(s)
  <2>1. x \in Seq(Byte) /\ y \in Seq(Byte) /\ k \in CodePoint /\ l \in Seq(CodePoint)
    BY CharFacts, Utf8Type, CanonicalPoint, FoldedText
  <2>2. Utf8(<<c>> \o s) = x \o y
    BY Utf8Cons
  <2>3. Lowercase(x \o y) = Lowercase(x) \o Lowercase(y)
    <3> HIDE DEF x, y
    <3> QED
      BY <2>1, LowercaseConcat
  <2>4. Lowercase(x) = Utf8Char(k) /\ Lowercase(y) = Utf8(l)
    BY <1>2, FoldedChar
  <2>5. Lowercase(<<c>> \o s) = <<k>> \o l
    <3>1. <<c>> \in Seq(CodePoint) /\ <<c>> \o s \in Seq(CodePoint)
      OBVIOUS
    <3>2. Mapped(Fold, <<c>> \o s) = Mapped(Fold, <<c>>) \o Mapped(Fold, s)
      <4> DEFINE e == <<c>>
      <4>1. e \in Seq(CodePoint) /\ s \in Seq(CodePoint)
        BY <3>1
      <4> HIDE DEF e
      <4>2. Mapped(Fold, e \o s) = Mapped(Fold, e) \o Mapped(Fold, s)
        BY <4>1, EachConcat
      <4> QED
        BY <4>2 DEF e
    <3>3. Mapped(Fold, <<c>>) = <<Fold[c]>> /\ Fold[c] = k
      <4>1. Fold[c] = k
        BY DEF Fold
      <4> QED
        BY <4>1, MappedSingle
    <3> QED
      BY <3>1, <3>2, <3>3, FoldedText
  <2>6. Utf8(<<k>> \o l) = Utf8Char(k) \o Utf8(l)
    <3> HIDE DEF k, l
    <3> QED
      BY <2>1, Utf8Cons
  <2>7. <<c>> \o s \in Seq(CodePoint)
    OBVIOUS
  <2> QED
    BY <2>2, <2>3, <2>4, <2>5, <2>6, <2>7
<1> HIDE DEF S
<1>3. Seq(CodePoint) \subseteq S
  BY <1>1, <1>2, ConsInduction
<1> QED
  BY <1>3 DEF S

\* what the ports write as UTF-8
LEMMA PortUtf8 ==
  ASSUME NEW s \in Seq(Unit)
  PROVE  JsUtf8(s) \in Seq(Byte) /\ JavaUtf8(s) \in Seq(Byte) /\ DotnetUtf8(s) \in Seq(Byte)
<1>1. 65533 \in CodePoint /\ 63 \in CodePoint
  BY SMT DEF CodePoint
<1>2. FromUtf16(s) \in Seq(CodePoint)
  BY FromUtf16Type
<1>3. /\ Substituted(FromUtf16(s), 65533) \in Seq(CodePoint)
      /\ Substituted(FromUtf16(s), 63) \in Seq(CodePoint)
  BY <1>1, <1>2, SubstitutedFacts
<1> QED
  BY <1>3, Utf8Type DEF JsUtf8, JavaUtf8, DotnetUtf8

\* and of a text without unpaired surrogates, they write its UTF-8.
LEMMA PortUtf8OfText ==
  ASSUME NEW t \in Seq(Scalar)
  PROVE  /\ JsUtf8(Utf16(t)) = Utf8(t) /\ JavaUtf8(Utf16(t)) = Utf8(t)
         /\ DotnetUtf8(Utf16(t)) = Utf8(t)
<1>1. 65533 \in CodePoint /\ 63 \in CodePoint
  BY SMT DEF CodePoint
<1>2. FromUtf16(Utf16(t)) = t /\ t \in Seq(CodePoint)
  BY Utf16RoundTrip, ScalarIsText
<1>3. Substituted(t, 65533) = t /\ Substituted(t, 63) = t
  BY <1>1, <1>2, SubstitutedFacts
<1> QED
  BY <1>2, <1>3 DEF JsUtf8, JavaUtf8, DotnetUtf8

\* Every port splits its own form of a text at the same places.
LEMMA Views ==
  ASSUME NEW t \in Seq(CodePoint)
  PROVE  LET k == Split(t)
         IN  /\ Len(k) \in Nat \ {0} /\ DOMAIN k = 1..Len(k)
             /\ DOMAIN Split(Utf8(t)) = 1..Len(k) /\ DOMAIN Split(Utf16(t)) = 1..Len(k)
             /\ \A j \in 1..Len(k) :
                  /\ k[j] \in Seq(CodePoint) /\ (t \in Seq(Scalar) => k[j] \in Seq(Scalar))
                  /\ Split(Utf8(t))[j] = Utf8(k[j]) /\ Split(Utf16(t))[j] = Utf16(k[j])
<1> DEFINE k == Split(t)
           n == Len(k)
<1>1. /\ n \in Nat \ {0} /\ DOMAIN k = 1..n
      /\ DOMAIN Split(Transcoded(Utf8Table, t)) = 1..n
      /\ \A j \in 1..n : /\ k[j] \in Seq(CodePoint)
                         /\ Split(Transcoded(Utf8Table, t))[j] = Transcoded(Utf8Table, k[j])
  BY Utf8TableType, ComponentsTranscoded
<1>2. /\ DOMAIN Split(Transcoded(Utf16Table, t)) = 1..n
      /\ \A j \in 1..n : Split(Transcoded(Utf16Table, t))[j] = Transcoded(Utf16Table, k[j])
  BY Utf16TableType, ComponentsTranscoded
<1>3. ASSUME t \in Seq(Scalar) PROVE \A j \in 1..n : k[j] \in Seq(Scalar)
  <2>1. k \in Parts(Scalar)
    BY <1>3, PartsType
  <2> HIDE DEF k
  <2> QED
    BY <2>1 DEF Parts
<1> HIDE DEF k, n
<1>4. \A j \in 1..n : Transcoded(Utf8Table, k[j]) = Utf8(k[j]) /\ Transcoded(Utf16Table, k[j]) = Utf16(k[j])
  BY <1>1, Utf8Def, Utf16Def
<1> QED
  BY <1>1, <1>2, <1>3, <1>4, Utf8Def, Utf16Def DEF k, n

\* of the units of any string
LEMMA UnitParts ==
  ASSUME NEW A, NEW s \in Seq(A)
  PROVE  LET k == Split(s)
         IN  /\ Len(k) \in Nat \ {0} /\ DOMAIN k = 1..Len(k)
             /\ \A j \in 1..Len(k) : k[j] \in Seq(A)
<1>1. Split(s) \in Parts(A)
  BY PartsType
<1> DEFINE k == Split(s)
<1> HIDE DEF k
<1>2. k \in Seq(Seq(A)) /\ k # <<>>
  BY <1>1 DEF Parts, k
<1> QED
  BY <1>2 DEF k

\* Joined components of bytes are bytes.
LEMMA Joined ==
  ASSUME NEW n \in Nat, NEW r, r = [j \in 1..n |-> r[j]], \A j \in 1..n : r[j] \in Seq(Byte)
  PROVE  Join(r) \in Seq(Byte)
<1>1. r \in Seq(Seq(Byte))
  OBVIOUS
<1> QED
  BY <1>1, JoinType

\* JavaScript encodes any string to bytes,
LEMMA JsEncodes ==
  ASSUME NEW s \in Seq(Unit)
  PROVE  JsEncodeComponent(s) \in Seq(Byte) /\ JsEncodeBody(s) \in Seq(Byte)
<1>1. ASSUME NEW u \in Seq(Unit) PROVE JsEncodeComponent(u) \in Seq(Byte)
  BY PortUtf8, EncodeType DEF JsEncodeComponent
<1> DEFINE k == Split(s)
           n == Len(k)
           r == [j \in DOMAIN k |-> JsEncodeComponent(k[j])]
<1>2. n \in Nat /\ DOMAIN k = 1..n /\ \A j \in 1..n : k[j] \in Seq(Unit)
  BY UnitParts
<1>3. r = [j \in 1..n |-> r[j]] /\ \A j \in 1..n : r[j] \in Seq(Byte)
  <2> HIDE DEF k, n
  <2> QED
    BY <1>1, <1>2
<1>4. Join(r) \in Seq(Byte)
  <2> HIDE DEF r, n
  <2> QED
    BY <1>2, <1>3, Joined
<1> QED
  BY <1>1, <1>4 DEF JsEncodeBody

\* and a text to what its UTF-8 is encoded to.
LEMMA JsEncodesText ==
  ASSUME NEW t \in Seq(Scalar)
  PROVE  /\ JsEncodeComponent(Utf16(t)) = EncodeComponent(Utf8(t))
         /\ JsEncodeBody(Utf16(t)) = EncodeBody(Utf8(t))
<1>1. ASSUME NEW u \in Seq(Scalar) PROVE JsEncodeComponent(Utf16(u)) = EncodeComponent(Utf8(u))
  BY PortUtf8OfText DEF JsEncodeComponent
<1> DEFINE n == Len(Split(t))
           c == Split(Utf16(t))
           d == Split(Utf8(t))
<1>2. /\ DOMAIN c = 1..n /\ DOMAIN d = 1..n
      /\ \A j \in 1..n : \E u \in Seq(Scalar) : c[j] = Utf16(u) /\ d[j] = Utf8(u)
  <2>1. t \in Seq(CodePoint)
    BY ScalarIsText
  <2> QED
    BY <2>1, Views
<1> HIDE DEF n, c, d
<1>3. [j \in DOMAIN c |-> JsEncodeComponent(c[j])] = [j \in DOMAIN d |-> EncodeComponent(d[j])]
  <2>1. \A j \in 1..n : JsEncodeComponent(c[j]) = EncodeComponent(d[j])
    BY <1>1, <1>2
  <2> QED
    BY <1>2, <2>1
<1>4. JsEncodeBody(Utf16(t)) = EncodeBody(Utf8(t))
  BY <1>3 DEF JsEncodeBody, EncodeBody, c, d
<1> QED
  BY <1>1, <1>4

\* Java encodes any string to bytes,
LEMMA JavaEncodes ==
  ASSUME NEW s \in Seq(Unit)
  PROVE  JavaEncodeComponent(s) \in Seq(Byte) /\ JavaEncodeBody(s) \in Seq(Byte)
<1>1. ASSUME NEW u \in Seq(Unit) PROVE JavaEncodeComponent(u) \in Seq(Byte)
  BY PortUtf8, EncodeType DEF JavaEncodeComponent
<1> DEFINE k == Split(s)
           n == Len(k)
           r == [j \in DOMAIN k |-> JavaEncodeComponent(k[j])]
<1>2. n \in Nat /\ DOMAIN k = 1..n /\ \A j \in 1..n : k[j] \in Seq(Unit)
  BY UnitParts
<1>3. r = [j \in 1..n |-> r[j]] /\ \A j \in 1..n : r[j] \in Seq(Byte)
  <2> HIDE DEF k, n
  <2> QED
    BY <1>1, <1>2
<1>4. Join(r) \in Seq(Byte)
  <2> HIDE DEF r, n
  <2> QED
    BY <1>2, <1>3, Joined
<1> QED
  BY <1>1, <1>4 DEF JavaEncodeBody

\* and a text to what its UTF-8 is encoded to.
LEMMA JavaEncodesText ==
  ASSUME NEW t \in Seq(Scalar)
  PROVE  /\ JavaEncodeComponent(Utf16(t)) = EncodeComponent(Utf8(t))
         /\ JavaEncodeBody(Utf16(t)) = EncodeBody(Utf8(t))
<1>1. ASSUME NEW u \in Seq(Scalar) PROVE JavaEncodeComponent(Utf16(u)) = EncodeComponent(Utf8(u))
  BY PortUtf8OfText DEF JavaEncodeComponent
<1> DEFINE n == Len(Split(t))
           c == Split(Utf16(t))
           d == Split(Utf8(t))
<1>2. /\ DOMAIN c = 1..n /\ DOMAIN d = 1..n
      /\ \A j \in 1..n : \E u \in Seq(Scalar) : c[j] = Utf16(u) /\ d[j] = Utf8(u)
  <2>1. t \in Seq(CodePoint)
    BY ScalarIsText
  <2> QED
    BY <2>1, Views
<1> HIDE DEF n, c, d
<1>3. [j \in DOMAIN c |-> JavaEncodeComponent(c[j])] = [j \in DOMAIN d |-> EncodeComponent(d[j])]
  <2>1. \A j \in 1..n : JavaEncodeComponent(c[j]) = EncodeComponent(d[j])
    BY <1>1, <1>2
  <2> QED
    BY <1>2, <2>1
<1>4. JavaEncodeBody(Utf16(t)) = EncodeBody(Utf8(t))
  BY <1>3 DEF JavaEncodeBody, EncodeBody, c, d
<1> QED
  BY <1>1, <1>4

\* .NET encodes any string to bytes,
LEMMA DotnetEncodes ==
  ASSUME NEW s \in Seq(Unit)
  PROVE  DotnetEncodeComponent(s) \in Seq(Byte) /\ DotnetEncodeBody(s) \in Seq(Byte)
<1>1. ASSUME NEW u \in Seq(Unit) PROVE DotnetEncodeComponent(u) \in Seq(Byte)
  BY PortUtf8, EncodeType DEF DotnetEncodeComponent
<1> DEFINE k == Split(s)
           n == Len(k)
           r == [j \in DOMAIN k |-> DotnetEncodeComponent(k[j])]
<1>2. n \in Nat /\ DOMAIN k = 1..n /\ \A j \in 1..n : k[j] \in Seq(Unit)
  BY UnitParts
<1>3. r = [j \in 1..n |-> r[j]] /\ \A j \in 1..n : r[j] \in Seq(Byte)
  <2> HIDE DEF k, n
  <2> QED
    BY <1>1, <1>2
<1>4. Join(r) \in Seq(Byte)
  <2> HIDE DEF r, n
  <2> QED
    BY <1>2, <1>3, Joined
<1> QED
  BY <1>1, <1>4 DEF DotnetEncodeBody

\* and a text to what its UTF-8 is encoded to.
LEMMA DotnetEncodesText ==
  ASSUME NEW t \in Seq(Scalar)
  PROVE  /\ DotnetEncodeComponent(Utf16(t)) = EncodeComponent(Utf8(t))
         /\ DotnetEncodeBody(Utf16(t)) = EncodeBody(Utf8(t))
<1>1. ASSUME NEW u \in Seq(Scalar) PROVE DotnetEncodeComponent(Utf16(u)) = EncodeComponent(Utf8(u))
  BY PortUtf8OfText DEF DotnetEncodeComponent
<1> DEFINE n == Len(Split(t))
           c == Split(Utf16(t))
           d == Split(Utf8(t))
<1>2. /\ DOMAIN c = 1..n /\ DOMAIN d = 1..n
      /\ \A j \in 1..n : \E u \in Seq(Scalar) : c[j] = Utf16(u) /\ d[j] = Utf8(u)
  <2>1. t \in Seq(CodePoint)
    BY ScalarIsText
  <2> QED
    BY <2>1, Views
<1> HIDE DEF n, c, d
<1>3. [j \in DOMAIN c |-> DotnetEncodeComponent(c[j])] = [j \in DOMAIN d |-> EncodeComponent(d[j])]
  <2>1. \A j \in 1..n : DotnetEncodeComponent(c[j]) = EncodeComponent(d[j])
    BY <1>1, <1>2
  <2> QED
    BY <1>2, <2>1
<1>4. DotnetEncodeBody(Utf16(t)) = EncodeBody(Utf8(t))
  BY <1>3 DEF DotnetEncodeBody, EncodeBody, c, d
<1> QED
  BY <1>1, <1>4

\* Python, whose strings are the text, encodes every text like that.
LEMMA PythonEncodesText ==
  ASSUME NEW t \in Seq(CodePoint)
  PROVE  /\ PythonEncodeComponent(t) = EncodeComponent(Utf8(t))
         /\ PythonEncodeBody(t) = EncodeBody(Utf8(t))
<1>1. ASSUME NEW u PROVE PythonEncodeComponent(u) = EncodeComponent(Utf8(u))
  BY DEF PythonEncodeComponent
<1> DEFINE n == Len(Split(t))
           c == Split(t)
           d == Split(Utf8(t))
<1>2. DOMAIN c = 1..n /\ DOMAIN d = 1..n /\ \A j \in 1..n : d[j] = Utf8(c[j])
  BY Views
<1> HIDE DEF n, c, d
<1>3. [j \in DOMAIN c |-> PythonEncodeComponent(c[j])] = [j \in DOMAIN d |-> EncodeComponent(d[j])]
  <2>1. \A j \in 1..n : PythonEncodeComponent(c[j]) = EncodeComponent(d[j])
    BY <1>1, <1>2
  <2> QED
    BY <1>2, <2>1
<1>4. PythonEncodeBody(t) = EncodeBody(Utf8(t))
  BY <1>3 DEF PythonEncodeBody, EncodeBody, c, d
<1> QED
  BY <1>1, <1>4

\* Java and .NET fold a text before they split it.
LEMMA CanonicalType ==
  ASSUME NEW s \in Seq(Unit)
  PROVE  JavaCanonical(s) \in Seq(Unit) /\ DotnetCanonical(s) \in Seq(Unit)
<1>1. JavaUtf8(s) \in Seq(Byte) /\ DotnetUtf8(s) \in Seq(Byte)
  BY PortUtf8
<1>2. Lowercase(JavaUtf8(s)) \in Seq(Byte) /\ Lowercase(DotnetUtf8(s)) \in Seq(Byte)
  BY <1>1, LowercaseType
<1>3. FromUtf8(Lowercase(JavaUtf8(s))) \in Seq(CodePoint) /\ FromUtf8(Lowercase(DotnetUtf8(s))) \in Seq(CodePoint)
  BY <1>2, FromUtf8Type
<1> QED
  BY <1>3, Utf16Type DEF JavaCanonical, DotnetCanonical

\* The folded text, made a string again, is the text folded.
LEMMA CanonicalOfText ==
  ASSUME NEW t \in Seq(Scalar)
  PROVE  JavaCanonical(Utf16(t)) = Utf16(Lowercase(t)) /\ DotnetCanonical(Utf16(t)) = Utf16(Lowercase(t))
<1>1. t \in Seq(CodePoint) /\ Lowercase(t) \in Seq(Scalar)
  BY ScalarIsText, FoldedText
<1>2. FromUtf8(Lowercase(Utf8(t))) = Lowercase(t)
  BY <1>1, FoldedUtf8, Utf8RoundTrip
<1> QED
  BY <1>2, PortUtf8OfText DEF JavaCanonical, DotnetCanonical

\* and encode it no otherwise for that
LEMMA FoldedEncodes ==
  ASSUME NEW t \in Seq(CodePoint)
  PROVE  /\ EncodeComponent(Utf8(Lowercase(t))) = EncodeComponent(Utf8(t))
         /\ EncodeBody(Utf8(Lowercase(t))) = EncodeBody(Utf8(t))
<1>1. Utf8(Lowercase(t)) = Lowercase(Utf8(t)) /\ Utf8(t) \in Seq(Byte)
  BY FoldedUtf8, Utf8Type
<1> QED
  BY <1>1, SameRepresentation

-----------------------------------------------------------------------------
(* What the ports make of a component.                                     *)

OutcomeOf(texts) ==
  IF texts = {} THEN Failure("INVALID_ESCAPE")
  ELSE IF \E t \in texts : ~Utf8Validate(t) THEN Failure("INVALID_UTF8")
  ELSE Success(CHOOSE t \in texts : TRUE)

\* The outcome of decoded texts, and when it is a text.
LEMMA DecodedOutcome ==
  ASSUME NEW texts \in SUBSET Seq(Byte)
  PROVE  /\ OutcomeOf(texts) \in Outcomes
         /\ OutcomeOf(texts).status = "OK" =>
              OutcomeOf(texts).text \in texts /\ Utf8Validate(OutcomeOf(texts).text)
<1> DEFINE r == OutcomeOf(texts)
<1>1. CASE texts = {}
  <2>1. r = Failure("INVALID_ESCAPE")
    BY <1>1 DEF OutcomeOf
  <2> QED
    BY <2>1 DEF Outcomes, Failure
<1>2. CASE texts # {} /\ \E t \in texts : ~Utf8Validate(t)
  <2>1. r = Failure("INVALID_UTF8")
    BY <1>2 DEF OutcomeOf
  <2> QED
    BY <2>1 DEF Outcomes, Failure
<1>3. CASE texts # {} /\ ~(\E t \in texts : ~Utf8Validate(t))
  <2> DEFINE t == CHOOSE t \in texts : TRUE
  <2>1. t \in texts
    BY <1>3
  <2>2. r = Success(t)
    BY <1>3 DEF OutcomeOf
  <2> HIDE DEF t, r
  <2>3. t \in Seq(Byte) /\ Utf8Validate(t)
    BY <1>3, <2>1
  <2>4. r \in Outcomes
    BY <2>2, <2>3 DEF Outcomes
  <2>5. r.text = t
    BY <2>2 DEF Success
  <2> QED
    BY <2>1, <2>3, <2>4, <2>5 DEF r
<1> QED
  BY <1>1, <1>2, <1>3

\* A component's outcome, whatever the units it is written with.
LEMMA ComponentOutcome ==
  ASSUME NEW c \in Seq(Nat)
  PROVE  /\ DecodeComponent(c) = OutcomeOf(Decoding(c)[1])
         /\ Decoding(c)[1] \in SUBSET Seq(Byte)
         /\ DecodeComponent(c) \in Outcomes
<1>1. 1 \in 1..(Len(c) + 1)
  OBVIOUS
<1>2. Decoding(c)[1] \in SUBSET Seq(Byte)
  BY <1>1, DecodingOf
<1>3. DecodeComponent(c) = OutcomeOf(Decoding(c)[1])
  BY DecodeDef DEF OutcomeOf
<1> QED
  BY <1>2, <1>3, DecodedOutcome

\* Where nothing can be taken, neither an element nor an escape, nothing is decoded.
LEMMA Stuck ==
  ASSUME NEW c \in Seq(Nat), NEW d \in Seq(Nat), Len(d) = Len(c), NEW j \in 1..Len(c),
         ~IsLiteralByte(d[j]), ~IsHexDigit(c[j]), ~IsEscape(c, j)
  PROVE  Taking(c, d)[1] = {}
<1> DEFINE n == Len(c)
           f == Taking(c, d)
           S == {i \in 1..(n + 1) : i <= j => f[i] = {}}
<1>0. n \in Nat /\ j \in Nat /\ j <= n
  OBVIOUS
<1>1. \A i \in 1..(n + 1) : f[i] = TakeRest(c, d, i, f)
  BY TakingDef
<1> HIDE DEF f
<1>2. ASSUME NEW i \in 1..(n + 1), \A k \in 1..(n + 1) : k > i => k \in S, i <= j
      PROVE  f[i] = {}
  <2>0. ~(i > Len(c))
    BY <1>0, <1>2
  <2>1. CASE IsLiteralByte(d[i])
    <3>1. i # j /\ i + 1 \in 1..(n + 1) /\ i + 1 > i /\ i + 1 <= j
      BY <1>0, <1>2, <2>1
    <3>2. f[i + 1] = {}
      BY <1>2, <3>1
    <3>3. f[i] = Before(d[i], f[i + 1])
      BY <1>1, <2>0, <2>1 DEF TakeRest
    <3> QED
      BY <3>2, <3>3 DEF Before
  <2>2. CASE ~IsLiteralByte(d[i]) /\ IsEscape(c, i)
    <3>1. i + 2 <= n /\ i # j /\ i + 1 # j /\ i + 2 # j
      BY <2>2 DEF IsEscape
    <3>2. i + 3 \in 1..(n + 1) /\ i + 3 > i /\ i + 3 <= j
      BY <1>0, <1>2, <3>1
    <3>3. f[i + 3] = {}
      BY <1>2, <3>2
    <3>4. f[i] = Before(HexByte(c[i + 1], c[i + 2]), f[i + 3])
      BY <1>1, <2>0, <2>2 DEF TakeRest
    <3> QED
      BY <3>3, <3>4 DEF Before
  <2>3. CASE ~IsLiteralByte(d[i]) /\ ~IsEscape(c, i)
    BY <1>1, <2>0, <2>3 DEF TakeRest
  <2> QED
    BY <2>1, <2>2, <2>3
<1>3. 1..(n + 1) \subseteq S
  <2>1. \A i \in 1..(n + 1) : (\A k \in 1..(n + 1) : k > i => k \in S) => i \in S
    BY <1>2
  <2> HIDE DEF S, n
  <2> QED
    BY <1>0, <2>1, ScanInduction
<1>4. 1 \in 1..(n + 1) /\ 1 <= j
  BY <1>0
<1> QED
  BY <1>3, <1>4 DEF f

\* No unit that is not ASCII is a literal or a digit, and neither is a hyphen.
LEMMA NotTaken ==
  /\ \A a \in Nat : a > 127 => ~IsLiteralByte(a) /\ ~IsHexDigit(a) /\ a # HYPHEN
  /\ ~IsLiteralByte(HYPHEN) /\ ~IsHexDigit(HYPHEN)
  BY DEF IsLiteralByte, IsHexDigit, IsDigit, HYPHEN

\* No decoder takes a separator, or anything that is not ASCII.
LEMMA Refused ==
  ASSUME NEW c \in Seq(Nat), HasSeparator(c) \/ Foreign(c)
  PROVE  DecodeComponent(c) = Failure("INVALID_ESCAPE")
<1>1. \E j \in 1..Len(c) : ~IsLiteralByte(c[j]) /\ ~IsHexDigit(c[j]) /\ ~IsEscape(c, j)
  <2>1. CASE HasSeparator(c)
    <3>1. PICK i \in 1..(Len(c) - 1) : c[i] = HYPHEN /\ c[i + 1] = HYPHEN
      BY <2>1 DEF HasSeparator
    <3>2. i \in 1..Len(c)
      OBVIOUS
    <3> QED
      BY <3>1, <3>2, NotTaken DEF IsEscape
  <2>2. CASE Foreign(c)
    <3>1. PICK j \in 1..Len(c) : c[j] > 127
      BY <2>2 DEF Foreign
    <3>2. c[j] \in Nat
      OBVIOUS
    <3> QED
      BY <3>1, <3>2, NotTaken DEF IsEscape
  <2> QED
    BY <2>1, <2>2
<1>2. Taking(c, c)[1] = {}
  BY <1>1, Stuck
<1>3. Decoding(c) = Taking(c, c)
  BY DEF Decoding, Taking, DecodeRest, TakeRest
<1> QED
  BY <1>2, <1>3, ComponentOutcome DEF OutcomeOf

\* A component looks the same to every decoder, or is refused by all.
LEMMA ViewsDecode ==
  ASSUME NEW t \in Seq(CodePoint)
  PROVE  /\ t \in Seq(Nat) /\ Utf8(t) \in Seq(Nat) /\ Utf16(t) \in Seq(Nat)
         /\ DecodeComponent(Utf8(t)) = DecodeComponent(t)
         /\ DecodeComponent(Utf16(t)) = DecodeComponent(t)
<1>1. t \in Seq(Nat) /\ Utf8(t) \in Seq(Nat) /\ Utf16(t) \in Seq(Nat)
  BY Utf8Type, Utf16Type, AsciiIsText, ScalarIsText
<1>2. \/ Transcoded(Utf8Table, t) = t
      \/ Foreign(t) /\ Foreign(Transcoded(Utf8Table, t))
  BY Utf8TableType, AsciiOrForeign
<1>3. \/ Transcoded(Utf16Table, t) = t
      \/ Foreign(t) /\ Foreign(Transcoded(Utf16Table, t))
  BY Utf16TableType, AsciiOrForeign
<1>4. /\ Utf8(t) = t \/ (Foreign(t) /\ Foreign(Utf8(t)))
      /\ Utf16(t) = t \/ (Foreign(t) /\ Foreign(Utf16(t)))
  BY <1>2, <1>3, Utf8Def, Utf16Def
<1> QED
  BY <1>1, <1>4, Refused

\* The check for a separator refuses nothing that is not refused anyway.
LEMMA SeparatorChecked ==
  ASSUME NEW c \in Seq(Nat)
  PROVE  /\ PythonDecodeComponent(c) = DecodeComponent(c)
         /\ JavaDecodeComponent(c) = DecodeComponent(c)
  BY Refused DEF PythonDecodeComponent, JavaDecodeComponent

\* Python and Java decode as C does.
LEMMA PythonDecodesText ==
  ASSUME NEW t \in Seq(CodePoint)
  PROVE  /\ PythonDecodeComponent(t) = DecodeComponent(Utf8(t))
         /\ PythonDecodeBody(t) = DecodeBody(Utf8(t))
<1>1. ASSUME NEW u \in Seq(CodePoint) PROVE PythonDecodeComponent(u) = DecodeComponent(Utf8(u))
  BY ViewsDecode, SeparatorChecked
<1> DEFINE n == Len(Split(t))
           c == Split(t)
           d == Split(Utf8(t))
<1>2. /\ DOMAIN c = 1..n /\ DOMAIN d = 1..n
      /\ \A j \in 1..n : c[j] \in Seq(CodePoint) /\ d[j] = Utf8(c[j])
  BY Views
<1> HIDE DEF n, c, d
<1>3. [j \in DOMAIN c |-> PythonDecodeComponent(c[j])] = [j \in DOMAIN d |-> DecodeComponent(d[j])]
  <2>1. \A j \in 1..n : PythonDecodeComponent(c[j]) = DecodeComponent(d[j])
    BY <1>1, <1>2
  <2> QED
    BY <1>2, <2>1
<1>4. PythonDecodeBody(t) = DecodeBody(Utf8(t))
  BY <1>3 DEF PythonDecodeBody, DecodeBody, c, d
<1> QED
  BY <1>1, <1>4

\* Java decodes a string as its UTF-8 is decoded.
LEMMA JavaDecodesText ==
  ASSUME NEW t \in Seq(CodePoint)
  PROVE  /\ JavaDecodeComponent(Utf16(t)) = DecodeComponent(Utf8(t))
         /\ JavaDecodeBody(Utf16(t)) = DecodeBody(Utf8(t))
<1>1. ASSUME NEW u \in Seq(CodePoint) PROVE JavaDecodeComponent(Utf16(u)) = DecodeComponent(Utf8(u))
  BY ViewsDecode, SeparatorChecked
<1> DEFINE n == Len(Split(t))
           c == Split(Utf16(t))
           d == Split(Utf8(t))
<1>2. /\ DOMAIN c = 1..n /\ DOMAIN d = 1..n
      /\ \A j \in 1..n : \E u \in Seq(CodePoint) : c[j] = Utf16(u) /\ d[j] = Utf8(u)
  BY Views
<1> HIDE DEF n, c, d
<1>3. [j \in DOMAIN c |-> JavaDecodeComponent(c[j])] = [j \in DOMAIN d |-> DecodeComponent(d[j])]
  <2>1. \A j \in 1..n : JavaDecodeComponent(c[j]) = DecodeComponent(d[j])
    BY <1>1, <1>2
  <2> QED
    BY <1>2, <2>1
<1>4. JavaDecodeBody(Utf16(t)) = DecodeBody(Utf8(t))
  BY <1>3 DEF JavaDecodeBody, DecodeBody, c, d
<1> QED
  BY <1>1, <1>4

-----------------------------------------------------------------------------
(* Bodies: the outcomes of components put together.                        *)

\* The outcomes of components give an outcome.
LEMMA JoinedOutcome ==
  ASSUME NEW n \in Nat, NEW r, r = [j \in 1..n |-> r[j]], \A j \in 1..n : r[j] \in Outcomes
  PROVE  FirstErrorOrJoin(r) \in Outcomes
<1> DEFINE failed == {j \in DOMAIN r : r[j].status # "OK"}
           texts == [j \in DOMAIN r |-> r[j].text]
<1>1. DOMAIN r = 1..n
  OBVIOUS
<1>2. CASE failed # {}
  <2>1. failed \in SUBSET Nat /\ failed \subseteq 1..n
    BY <1>1
  <2>2. Min(failed) \in 1..n
    <3> HIDE DEF failed
    <3>1. Min(failed) \in failed
      BY <1>2, <2>1, MinIn
    <3> QED
      BY <2>1, <3>1
  <2>3. FirstErrorOrJoin(r) = r[Min(failed)]
    BY <1>2 DEF FirstErrorOrJoin
  <2> QED
    BY <2>2, <2>3
<1>3. CASE failed = {}
  <2>1. FirstErrorOrJoin(r) = Success(Join(texts))
    BY <1>3 DEF FirstErrorOrJoin
  <2>2. texts = [j \in 1..n |-> texts[j]] /\ \A j \in 1..n : texts[j] \in Seq(Byte)
    BY <1>1, OutcomeFacts
  <2> HIDE DEF texts
  <2>3. Join(texts) \in Seq(Byte)
    BY <2>2, Joined
  <2> QED
    BY <2>1, <2>3 DEF Outcomes
<1> QED
  BY <1>2, <1>3

\* a text whose front is cut off
LEMMA CutOutcome ==
  ASSUME NEW r \in Outcomes
  PROVE  Success(SubSeq(r.text, 4, Len(r.text))) \in Outcomes
<1>1. r.text \in Seq(Byte)
  BY OutcomeFacts
<1> DEFINE t == r.text
<1> HIDE DEF t
<1>2. t \in Seq(Byte)
  BY <1>1 DEF t
<1>3. SubSeq(t, 4, Len(t)) \in Seq(Byte)
  BY <1>2, SubSeqType
<1> QED
  BY <1>3 DEF Outcomes, t

\* the components of JavaScript
LEMMA JsComponents ==
  ASSUME NEW c \in Seq(Nat)
  PROVE  /\ JsDecodeComponent(c) \in Outcomes
         /\ JsDecodeComponent(c).status = DecodeComponent(c).status
         /\ \/ JsDecodeComponent(c) = DecodeComponent(c)
            \/ DecodeComponent(c).status = "OK" /\ BeginsWithMark(DecodeComponent(c).text)
<1> DEFINE r == DecodeComponent(c)
<1>1. r \in Outcomes
  BY ComponentOutcome
<1>2. HasSeparator(c) => r = Failure("INVALID_ESCAPE")
  BY Refused
<1> HIDE DEF r
<1>3. CASE HasSeparator(c)
  BY <1>1, <1>2, <1>3 DEF JsDecodeComponent, r
<1>4. CASE ~HasSeparator(c) /\ r.status = "OK" /\ BeginsWithMark(r.text)
  <2>1. JsDecodeComponent(c) = Success(SubSeq(r.text, 4, Len(r.text)))
    BY <1>4 DEF JsDecodeComponent, r
  <2>2. JsDecodeComponent(c).status = "OK"
    BY <2>1 DEF Success
  <2> QED
    BY <1>1, <1>4, <2>1, <2>2, CutOutcome DEF r
<1>5. CASE ~HasSeparator(c) /\ ~(r.status = "OK" /\ BeginsWithMark(r.text))
  BY <1>1, <1>5 DEF JsDecodeComponent, r
<1> QED
  BY <1>3, <1>4, <1>5

\* JavaScript's decoders give outcomes.
LEMMA JsDecodes ==
  ASSUME NEW s \in Seq(Nat)
  PROVE  JsDecodeComponent(s) \in Outcomes /\ JsDecodeBody(s) \in Outcomes
<1> DEFINE k == Split(s)
           n == Len(k)
           r == [j \in DOMAIN k |-> JsDecodeComponent(k[j])]
<1>1. n \in Nat /\ DOMAIN k = 1..n /\ \A j \in 1..n : k[j] \in Seq(Nat)
  BY UnitParts
<1>2. r = [j \in 1..n |-> r[j]] /\ \A j \in 1..n : r[j] \in Outcomes
  <2> HIDE DEF k, n
  <2> QED
    BY <1>1, JsComponents
<1>3. FirstErrorOrJoin(r) \in Outcomes
  <2> HIDE DEF r, n
  <2> QED
    BY <1>1, <1>2, JoinedOutcome
<1> QED
  BY <1>3, JsComponents DEF JsDecodeBody

-----------------------------------------------------------------------------
(* .NET, which takes a unit for its low byte.                              *)

Low(c) == [j \in DOMAIN c |-> Narrow(c[j])]

\* The low bytes of ASCII are itself.
LEMMA LowType ==
  ASSUME NEW c \in Seq(Nat)
  PROVE  /\ Low(c) \in Seq(Nat) /\ Len(Low(c)) = Len(c)
         /\ \A j \in 1..Len(c) : Low(c)[j] = Narrow(c[j])
         /\ c \in Seq(Ascii) => Low(c) = c
<1>1. \A j \in 1..Len(c) : c[j] \in Nat /\ Narrow(c[j]) \in Nat
  BY DEF Narrow
<1>2. Low(c) \in Seq(Nat) /\ Len(Low(c)) = Len(c) /\ \A j \in 1..Len(c) : Low(c)[j] = Narrow(c[j])
  BY <1>1 DEF Low
<1>3. ASSUME c \in Seq(Ascii) PROVE Low(c) = c
  <2>1. \A j \in 1..Len(c) : c[j] \in Ascii
    BY <1>3
  <2>2. \A a \in Ascii : Narrow(a) = a
    BY DEF Ascii, Narrow
  <2>3. \A j \in 1..Len(c) : Low(c)[j] = c[j]
    BY <1>2, <2>1, <2>2
  <2> QED
    BY <1>2, <2>3, SeqEqual
<1> QED
  BY <1>2, <1>3

\* .NET's decoder, by what it takes for the units it looks at.
LEMMA DotnetDef ==
  ASSUME NEW c \in Seq(Nat)
  PROVE  DotnetDecodeComponent(c) =
           IF HasSeparator(c) \/ Taking(c, Low(c))[1] = {} THEN Failure("INVALID_ESCAPE")
           ELSE OutcomeOf(Taking(c, Low(c))[1])
<1> DEFINE Rest(i, g) ==
             IF i > Len(c) THEN {<<>>}
             ELSE IF IsLiteralByte(Narrow(c[i]))
             THEN {<<Narrow(c[i])>> \o t : t \in g[i + 1]}
             ELSE IF IsEscape(c, i)
             THEN {<<HexByte(c[i + 1], c[i + 2])>> \o t : t \in g[i + 3]}
             ELSE {}
           Read == CHOOSE g : g = [i \in 1..(Len(c) + 1) |-> Rest(i, g)]
<1>1. DotnetDecodeComponent(c) =
        IF HasSeparator(c) \/ Read[1] = {} THEN Failure("INVALID_ESCAPE")
        ELSE IF \E t \in Read[1] : ~Utf8Validate(t) THEN Failure("INVALID_UTF8")
        ELSE Success(CHOOSE t \in Read[1] : TRUE)
  BY DEF DotnetDecodeComponent, IsEscape
<1>2. ASSUME NEW i \in 1..(Len(c) + 1), NEW g PROVE Rest(i, g) = TakeRest(c, Low(c), i, g)
  <2>1. CASE i > Len(c)
    BY <2>1 DEF TakeRest
  <2>2. CASE ~(i > Len(c))
    <3>1. Low(c)[i] = Narrow(c[i])
      BY <2>2, LowType
    <3> QED
      BY <2>2, <3>1 DEF TakeRest, Before
  <2> QED
    BY <2>1, <2>2
<1> HIDE DEF Rest
<1>3. \A g : [i \in 1..(Len(c) + 1) |-> Rest(i, g)] = [i \in 1..(Len(c) + 1) |-> TakeRest(c, Low(c), i, g)]
  BY <1>2
<1>4. Read = Taking(c, Low(c))
  BY <1>3 DEF Taking
<1> QED
  BY <1>1, <1>4 DEF OutcomeOf

\* .NET decodes ASCII components as the others do.
LEMMA DotnetComponents ==
  ASSUME NEW c \in Seq(Nat)
  PROVE  /\ DotnetDecodeComponent(c) \in Outcomes
         /\ c \in Seq(Ascii) => DotnetDecodeComponent(c) = DecodeComponent(c)
<1> DEFINE x == Taking(c, Low(c))[1]
<1>1. x \in SUBSET Seq(Byte)
  <2>1. 1 \in 1..(Len(c) + 1) /\ Low(c) \in Seq(Nat) /\ Len(Low(c)) = Len(c)
    BY LowType
  <2> QED
    BY <2>1, TakingDef
<1>2. DotnetDecodeComponent(c) =
        IF HasSeparator(c) \/ x = {} THEN Failure("INVALID_ESCAPE") ELSE OutcomeOf(x)
  BY DotnetDef
<1>3. c \in Seq(Ascii) => x = Decoding(c)[1]
  <2>1. Decoding(c) = Taking(c, c)
    BY DEF Decoding, Taking, DecodeRest, TakeRest
  <2> QED
    BY <2>1, LowType
<1> HIDE DEF x
<1>4. OutcomeOf(x) \in Outcomes /\ Failure("INVALID_ESCAPE") \in Outcomes
  BY <1>1, DecodedOutcome DEF Outcomes
<1>5. ASSUME c \in Seq(Ascii) PROVE DotnetDecodeComponent(c) = DecodeComponent(c)
  <2>1. DecodeComponent(c) = OutcomeOf(x)
    BY <1>3, <1>5, ComponentOutcome
  <2>2. x = {} => OutcomeOf(x) = Failure("INVALID_ESCAPE")
    BY DEF OutcomeOf
  <2>3. HasSeparator(c) => DecodeComponent(c) = Failure("INVALID_ESCAPE")
    BY Refused
  <2> QED
    BY <1>2, <2>1, <2>2, <2>3
<1> QED
  BY <1>2, <1>4, <1>5

\* And bodies.
LEMMA DotnetDecodes ==
  ASSUME NEW s \in Seq(Nat)
  PROVE  /\ DotnetDecodeComponent(s) \in Outcomes /\ DotnetDecodeBody(s) \in Outcomes
         /\ s \in Seq(Ascii) => DotnetDecodeComponent(s) = DecodeComponent(s)
         /\ s \in Seq(Ascii) => DotnetDecodeBody(s) = DecodeBody(s)
<1> DEFINE k == Split(s)
           n == Len(k)
           r == [j \in DOMAIN k |-> DotnetDecodeComponent(k[j])]
           q == [j \in DOMAIN k |-> DecodeComponent(k[j])]
<1>1. n \in Nat /\ DOMAIN k = 1..n /\ \A j \in 1..n : k[j] \in Seq(Nat)
  BY UnitParts
<1>2. s \in Seq(Ascii) => \A j \in 1..n : k[j] \in Seq(Ascii)
  BY UnitParts
<1>3. r = [j \in 1..n |-> r[j]] /\ \A j \in 1..n : r[j] \in Outcomes
  <2> HIDE DEF k, n
  <2> QED
    BY <1>1, DotnetComponents
<1>4. s \in Seq(Ascii) => r = q
  <2> HIDE DEF k, n
  <2> QED
    BY <1>1, <1>2, DotnetComponents
<1>5. FirstErrorOrJoin(r) \in Outcomes
  <2> HIDE DEF r, n
  <2> QED
    BY <1>1, <1>3, JoinedOutcome
<1>6. DotnetDecodeBody(s) = FirstErrorOrJoin(r) /\ DecodeBody(s) = FirstErrorOrJoin(q)
  BY DEF DotnetDecodeBody, DecodeBody
<1> QED
  BY <1>4, <1>5, <1>6, DotnetComponents

-----------------------------------------------------------------------------
(* The byte order mark, which JavaScript drops at the front of a component.*)

\* U+FEFF in UTF-8.
LEMMA MarkBytes ==
  /\ Mark \in CodePoint /\ Mark \notin Surrogate /\ Utf8Char(Mark) = ByteOrderMark
  /\ ByteOrderMark \in Seq(Byte) /\ Len(ByteOrderMark) = 3
<1>1. Mark \in CodePoint
  BY SMT DEF Mark, CodePoint
<1>2. Mark \notin Surrogate
  BY SMT DEF Mark, Surrogate, HighSurrogate, LowSurrogate
<1>3. /\ 224 + (Mark \div 4096) = 239 /\ 128 + ((Mark \div 64) % 64) = 187
      /\ 128 + ((Mark \div 1) % 64) = 191 /\ ~(Mark <= 127) /\ ~(Mark <= 2047) /\ Mark <= 65535
  BY SMT DEF Mark
<1>4. Utf8Char(Mark) = ByteOrderMark
  BY <1>3, SMT DEF Utf8Char, Tail6, ByteOrderMark
<1>5. ByteOrderMark \in Seq(Byte) /\ Len(ByteOrderMark) = 3
  <2>1. 239 \in Byte /\ 187 \in Byte /\ 191 \in Byte
    BY DEF Byte
  <2> QED
    BY <2>1 DEF ByteOrderMark
<1> QED
  BY <1>1, <1>2, <1>4, <1>5

\* what is read from a text after others is among what is read from all
LEMMA ReadAmong ==
  ASSUME NEW u \in Seq(Byte), NEW v \in Seq(Byte), Utf8Validate(u)
  PROVE  /\ ToSet(FromUtf8(u)) \subseteq ToSet(FromUtf8(u \o v))
         /\ ToSet(FromUtf8(v)) \subseteq ToSet(FromUtf8(u \o v))
<1> DEFINE x == FromUtf8(u)
           y == FromUtf8(v)
<1>1. FromUtf8(u \o v) = x \o y /\ x \in Seq(CodePoint) /\ y \in Seq(CodePoint)
  BY ReadConcat, FromUtf8Type
<1> HIDE DEF x, y
<1>2. /\ Len(x) \in Nat /\ Len(y) \in Nat /\ DOMAIN (x \o y) = 1..(Len(x) + Len(y))
      /\ \A j \in 1..Len(x) : (x \o y)[j] = x[j]
      /\ \A j \in 1..Len(y) : (x \o y)[Len(x) + j] = y[j]
  BY <1>1, ConcatProperties
<1>3. \A j \in DOMAIN x : x[j] \in ToSet(x \o y)
  <2> TAKE j \in DOMAIN x
  <2>1. j \in 1..Len(x) /\ j \in DOMAIN (x \o y)
    BY <1>1, <1>2
  <2> QED
    BY <1>2, <2>1 DEF ToSet
<1>4. \A j \in DOMAIN y : y[j] \in ToSet(x \o y)
  <2> TAKE j \in DOMAIN y
  <2>1. j \in 1..Len(y) /\ Len(x) + j \in DOMAIN (x \o y)
    BY <1>1, <1>2
  <2> QED
    BY <1>2, <2>1 DEF ToSet
<1>5. ToSet(x) \subseteq ToSet(x \o y) /\ ToSet(y) \subseteq ToSet(x \o y)
  BY <1>3, <1>4 DEF ToSet
<1> QED
  BY <1>1, <1>5 DEF x, y

\* A text that begins with a mark holds it.
LEMMA MarkFirst ==
  ASSUME NEW u \in Seq(Byte), BeginsWithMark(u)
  PROVE  Mark \in ToSet(FromUtf8(u))
<1> DEFINE v == SubSeq(u, 4, Len(u))
<1>1. Len(u) \in Nat /\ Len(u) >= 3 /\ u[1] = 239 /\ u[2] = 187 /\ u[3] = 191
  <2>1. Len(u) \in Nat /\ Len(u) >= 3 /\ \A j \in 1..3 : ByteOrderMark[j] = u[j]
    BY MarkBytes DEF BeginsWithMark, IsPrefix
  <2> QED
    BY <2>1 DEF ByteOrderMark
<1>2. v \in Seq(Byte) /\ Len(v) = Len(u) - 3 /\ \A j \in 1..(Len(u) - 3) : v[j] = u[j + 3]
  <2>1. v \in Seq(Byte) /\ Len(v) = (IF 4 <= Len(u) THEN (Len(u) - 4) + 1 ELSE 0)
        /\ \A j \in 1..((Len(u) - 4) + 1) : v[j] = u[(4 + j) - 1]
    BY <1>1, SubSeqType
  <2> HIDE DEF v
  <2>2. Len(v) = Len(u) - 3
    <3>1. CASE Len(u) = 3
      BY <2>1, <3>1
    <3>2. CASE Len(u) # 3
      <4> DEFINE n == Len(u)
      <4>1. n \in Nat /\ n >= 3 /\ n # 3
        BY <1>1, <3>2
      <4> HIDE DEF n
      <4>2. 4 <= n /\ (n - 4) + 1 = n - 3
        BY <4>1
      <4> QED
        BY <2>1, <4>2 DEF n
    <3> QED
      BY <3>1, <3>2
  <2>3. ASSUME NEW j \in 1..(Len(u) - 3) PROVE v[j] = u[j + 3]
    <3>1. j \in 1..((Len(u) - 4) + 1) /\ (4 + j) - 1 = j + 3
      BY <1>1
    <3>2. v[j] = u[(4 + j) - 1]
      BY <2>1, <3>1
    <3> QED
      BY <3>1, <3>2
  <2> QED
    BY <2>1, <2>2, <2>3
<1> HIDE DEF v
<1>3. u = ByteOrderMark \o v
  <2> DEFINE m == ByteOrderMark
  <2>1. m \in Seq(Byte) /\ Len(m) = 3 /\ m[1] = 239 /\ m[2] = 187 /\ m[3] = 191
    BY MarkBytes DEF ByteOrderMark
  <2> HIDE DEF m
  <2>2. /\ m \o v \in Seq(Byte) /\ Len(m \o v) = Len(m) + Len(v)
        /\ \A j \in 1..(Len(m) + Len(v)) : (m \o v)[j] = IF j <= Len(m) THEN m[j] ELSE v[j - Len(m)]
    <3>1. m \in Seq(Byte) /\ v \in Seq(Byte)
      BY <1>2, <2>1
    <3>2. \A x, y \in Seq(Byte) :
            /\ x \o y \in Seq(Byte) /\ Len(x \o y) = Len(x) + Len(y)
            /\ \A j \in 1..(Len(x) + Len(y)) :
                 (x \o y)[j] = IF j <= Len(x) THEN x[j] ELSE y[j - Len(x)]
      BY ConcatProperties
    <3> QED
      BY <3>1, <3>2
  <2>3. ASSUME NEW j \in 1..Len(u) PROVE u[j] = (m \o v)[j]
    <3>1. CASE j <= 3
      <4>1. j = 1 \/ j = 2 \/ j = 3
        BY <3>1
      <4>2. (m \o v)[j] = m[j]
        BY <1>1, <1>2, <2>1, <2>2, <3>1
      <4> QED
        BY <1>1, <2>1, <4>1, <4>2
    <3>2. CASE ~(j <= 3)
      <4>1. j - 3 \in 1..(Len(u) - 3) /\ (j - 3) + 3 = j
        BY <1>1, <3>2
      <4>2. (m \o v)[j] = v[j - 3]
        BY <1>1, <1>2, <2>1, <2>2, <3>2
      <4> QED
        BY <1>2, <4>1, <4>2
    <3> QED
      BY <3>1, <3>2
  <2>4. Len(m \o v) = Len(u)
    BY <1>1, <1>2, <2>1, <2>2
  <2>5. u = m \o v
    BY <2>2, <2>3, <2>4, SeqEqual
  <2> QED
    BY <2>5 DEF m
<1>4. Utf8Validate(ByteOrderMark) /\ FromUtf8(ByteOrderMark) = <<Mark>>
  BY MarkBytes, CharRead
<1>5. ToSet(FromUtf8(ByteOrderMark)) \subseteq ToSet(FromUtf8(ByteOrderMark \o v))
  BY <1>2, <1>4, MarkBytes, ReadAmong
<1>6. Mark \in ToSet(<<Mark>>)
  BY DEF ToSet
<1> QED
  BY <1>3, <1>4, <1>5, <1>6

\* So does a text with a component that begins with a mark.
LEMMA MarkInside ==
  ASSUME NEW c \in Seq(ValidTexts), NEW j \in 1..Len(c), BeginsWithMark(c[j])
  PROVE  Mark \in ToSet(FromUtf8(Join(c)))
<1> DEFINE Marked(d) == \E k \in 1..Len(d) : BeginsWithMark(d[k])
           S == {d \in Seq(ValidTexts) : Marked(d) => Mark \in ToSet(FromUtf8(Join(d)))}
<1>1. <<>> \in S
  OBVIOUS
<1>2. ASSUME NEW s \in Seq(ValidTexts), NEW u \in ValidTexts, s \in S
      PROVE  <<u>> \o s \in S
  <2> DEFINE d == <<u>> \o s
  <2>0. u \in Seq(Byte) /\ Utf8Validate(u) /\ d \in Seq(ValidTexts)
    BY DEF ValidTexts
  <2>1. CASE s = <<>>
    <3>1. d = <<u>>
      BY <2>1
    <3>2. Join(d) = u
      BY <2>0, <3>1, JoinSingle
    <3>3. Marked(d) => BeginsWithMark(u)
      BY <3>1
    <3> QED
      BY <2>0, <3>2, <3>3, MarkFirst
  <2>2. CASE s # <<>>
    <3> DEFINE z == Join(s)
    <3>1. s \in Components /\ z \in Seq(Byte)
      <4>1. ValidTexts \subseteq Seq(Byte)
        BY DEF ValidTexts
      <4>2. s \in Seq(Seq(Byte))
        BY <4>1, SeqMonotonic
      <4> QED
        BY <2>2, <4>2, JoinType DEF Components, Parts
    <3>2. Join(d) = (u \o Separator) \o z
      BY <2>0, <3>1, JoinFirst
    <3> HIDE DEF z
    <3>3. (u \o Separator) \o z = u \o (Separator \o z) /\ Separator \in Seq(Byte) /\ Separator \o z \in Seq(Byte)
      <4>1. Separator \in Seq(Byte)
        BY SeparatorType
      <4>2. (u \o Separator) \o z = u \o (Separator \o z)
        BY <2>0, <3>1, <4>1, Associative
      <4> QED
        BY <3>1, <4>1, <4>2
    <3>4. Utf8Validate(Separator)
      <4> DEFINE h == <<HYPHEN>>
      <4>1. HYPHEN \in Byte /\ HYPHEN <= 127 /\ <<>> \in Seq(Byte) /\ h \in Seq(Byte)
        BY DEF HYPHEN, Byte
      <4>2. h \o <<>> = h /\ Separator = h \o h
        BY DEF Separator
      <4>3. Utf8Validate(h \o <<>>)
        BY <4>1, ValidAscii, ValidEmpty
      <4>4. Utf8Validate(h \o h)
        <5> DEFINE g == h
        <5>1. g \in Seq(Byte) /\ Utf8Validate(g)
          BY <4>1, <4>2, <4>3
        <5> HIDE DEF g
        <5>2. Utf8Validate(<<HYPHEN>> \o g)
          BY <4>1, <5>1, ValidAscii
        <5> QED
          BY <5>2 DEF g
      <4> QED
        BY <4>2, <4>4
    <3>5. ToSet(FromUtf8(z)) \subseteq ToSet(FromUtf8(Separator \o z))
      BY <3>1, <3>3, <3>4, ReadAmong
    <3>6. /\ ToSet(FromUtf8(u)) \subseteq ToSet(FromUtf8(Join(d)))
          /\ ToSet(FromUtf8(Separator \o z)) \subseteq ToSet(FromUtf8(Join(d)))
      <4> DEFINE y == Separator \o z
      <4>1. y \in Seq(Byte)
        BY <3>3
      <4> HIDE DEF y
      <4>2. ToSet(FromUtf8(u)) \subseteq ToSet(FromUtf8(u \o y)) /\ ToSet(FromUtf8(y)) \subseteq ToSet(FromUtf8(u \o y))
        BY <2>0, <4>1, ReadAmong
      <4> QED
        BY <3>2, <3>3, <4>2 DEF y
    <3>7. Marked(d) => BeginsWithMark(u) \/ Marked(s)
      <4>1. ASSUME NEW k \in 1..Len(d), BeginsWithMark(d[k]) PROVE BeginsWithMark(u) \/ Marked(s)
        <5>1. CASE k = 1
          BY <4>1, <5>1
        <5>2. CASE k # 1
          <6>1. k - 1 \in 1..Len(s) /\ d[k] = s[k - 1]
            BY <5>2
          <6> QED
            BY <4>1, <6>1
        <5> QED
          BY <5>1, <5>2
      <4> QED
        BY <4>1
    <3>8. ASSUME BeginsWithMark(u) PROVE Mark \in ToSet(FromUtf8(Join(d)))
      BY <2>0, <3>6, <3>8, MarkFirst
    <3>9. ASSUME Marked(s) PROVE Mark \in ToSet(FromUtf8(Join(d)))
      BY <1>2, <3>5, <3>6, <3>9 DEF z
    <3> QED
      BY <2>0, <3>7, <3>8, <3>9
  <2> QED
    BY <2>1, <2>2
<1>3. Seq(ValidTexts) \subseteq S
  <2> HIDE DEF S
  <2> QED
    BY <1>1, <1>2, ConsInduction
<1> QED
  BY <1>3

\* an outcome that holds, and what is written with a mark
Dropped(j, r) == j = r \/ (r.status = "OK" /\ Mark \in ToSet(FromUtf8(r.text)))

\* What a component decodes to is UTF-8.
LEMMA ValidOutcome ==
  ASSUME NEW c \in Seq(Nat), DecodeComponent(c).status = "OK"
  PROVE  DecodeComponent(c).text \in ValidTexts
<1> DEFINE x == Decoding(c)[1]
<1>1. x \in SUBSET Seq(Byte) /\ DecodeComponent(c) = OutcomeOf(x)
  BY ComponentOutcome
<1> HIDE DEF x
<1> QED
  BY <1>1, DecodedOutcome DEF ValidTexts

\* JavaScript decodes a string as its UTF-8 is decoded, but for a mark.
LEMMA JsDecodesText ==
  ASSUME NEW t \in Seq(CodePoint)
  PROVE  /\ Dropped(JsDecodeComponent(Utf16(t)), DecodeComponent(Utf8(t)))
         /\ Dropped(JsDecodeBody(Utf16(t)), DecodeBody(Utf8(t)))
<1>1. ASSUME NEW u \in Seq(CodePoint)
      PROVE  LET j == JsDecodeComponent(Utf16(u))
                 r == DecodeComponent(Utf8(u))
             IN  /\ j.status = r.status
                 /\ j = r \/ (r.status = "OK" /\ BeginsWithMark(r.text))
                 /\ r.status = "OK" => r.text \in ValidTexts
  <2>1. DecodeComponent(Utf16(u)) = DecodeComponent(Utf8(u)) /\ Utf16(u) \in Seq(Nat) /\ Utf8(u) \in Seq(Nat)
    BY ViewsDecode
  <2> QED
    BY <2>1, JsComponents, ValidOutcome
<1>2. Dropped(JsDecodeComponent(Utf16(t)), DecodeComponent(Utf8(t)))
  <2> DEFINE j == JsDecodeComponent(Utf16(t))
             r == DecodeComponent(Utf8(t))
  <2>1. j = r \/ (r.status = "OK" /\ BeginsWithMark(r.text) /\ r.text \in ValidTexts)
    BY <1>1
  <2> HIDE DEF j, r
  <2> QED
    BY <2>1, MarkFirst DEF Dropped, ValidTexts, j, r
<1> DEFINE n == Len(Split(t))
           c == Split(Utf16(t))
           d == Split(Utf8(t))
           r == [j \in DOMAIN c |-> JsDecodeComponent(c[j])]
           q == [j \in DOMAIN d |-> DecodeComponent(d[j])]
           failed == {j \in DOMAIN q : q[j].status # "OK"}
<1>3. /\ DOMAIN c = 1..n /\ DOMAIN d = 1..n /\ n \in Nat \ {0}
      /\ \A j \in 1..n : \E u \in Seq(CodePoint) : c[j] = Utf16(u) /\ d[j] = Utf8(u)
  BY Views
<1>4. JsDecodeBody(Utf16(t)) = FirstErrorOrJoin(r) /\ DecodeBody(Utf8(t)) = FirstErrorOrJoin(q)
  BY DEF JsDecodeBody, DecodeBody
<1> HIDE DEF n, c, d
<1>5. /\ DOMAIN r = 1..n /\ DOMAIN q = 1..n
      /\ r = [j \in 1..n |-> r[j]] /\ q = [j \in 1..n |-> q[j]]
      /\ \A j \in 1..n : /\ r[j].status = q[j].status
                         /\ r[j] = q[j] \/ (q[j].status = "OK" /\ BeginsWithMark(q[j].text))
                         /\ q[j].status = "OK" => q[j].text \in ValidTexts
  <2>1. ASSUME NEW j \in 1..n
        PROVE  LET x == JsDecodeComponent(c[j])
                   y == DecodeComponent(d[j])
               IN  /\ x.status = y.status
                   /\ x = y \/ (y.status = "OK" /\ BeginsWithMark(y.text))
                   /\ y.status = "OK" => y.text \in ValidTexts
    BY <1>1, <1>3
  <2> QED
    BY <1>3, <2>1
<1> HIDE DEF r, q
<1>6. {j \in DOMAIN r : r[j].status # "OK"} = failed
  BY <1>5
<1>7. CASE failed # {}
  <2>1. failed \in SUBSET Nat
    BY <1>3, <1>5
  <2>2. Min(failed) \in failed
    <3> HIDE DEF failed
    <3> QED
      BY <1>7, <2>1, MinIn
  <2>3. FirstErrorOrJoin(r) = r[Min(failed)] /\ FirstErrorOrJoin(q) = q[Min(failed)]
    <3>1. FirstErrorOrJoin(q) = q[Min(failed)]
      BY <1>7 DEF FirstErrorOrJoin
    <3>2. FirstErrorOrJoin(r) = r[Min(failed)]
      <4> HIDE DEF failed
      <4> QED
        BY <1>6, <1>7 DEF FirstErrorOrJoin
    <3> QED
      BY <3>1, <3>2
  <2>4. r[Min(failed)] = q[Min(failed)]
    BY <1>5, <2>2
  <2> QED
    BY <1>2, <1>4, <2>3, <2>4 DEF Dropped
<1>8. CASE failed = {} /\ \A j \in 1..n : r[j] = q[j]
  <2>1. r = q
    BY <1>5, <1>8
  <2> QED
    BY <1>2, <1>4, <2>1 DEF Dropped
<1>9. CASE failed = {} /\ \E j \in 1..n : r[j] # q[j]
  <2> DEFINE texts == [j \in DOMAIN q |-> q[j].text]
  <2>1. FirstErrorOrJoin(q) = Success(Join(texts))
    BY <1>9 DEF FirstErrorOrJoin
  <2>2. \A j \in 1..n : q[j].status = "OK"
    BY <1>5, <1>9
  <2>3. PICK j \in 1..n : BeginsWithMark(q[j].text)
    BY <1>5, <1>9
  <2>4. texts \in Seq(ValidTexts) /\ Len(texts) = n /\ texts[j] = q[j].text
    BY <1>3, <1>5, <2>2
  <2> HIDE DEF texts
  <2>5. Mark \in ToSet(FromUtf8(Join(texts)))
    BY <2>3, <2>4, MarkInside
  <2>6. Success(Join(texts)).status = "OK" /\ Success(Join(texts)).text = Join(texts)
    BY DEF Success
  <2>7. Dropped(JsDecodeBody(Utf16(t)), DecodeBody(Utf8(t)))
    BY <1>4, <2>1, <2>5, <2>6 DEF Dropped
  <2> QED
    BY <1>2, <2>7
<1> QED
  BY <1>7, <1>8, <1>9

-----------------------------------------------------------------------------
(* Labels and markers, in any view of a text.                              *)

\* a prefix, place by place
LEMMA PrefixAt ==
  ASSUME NEW m \in Seq(Nat), NEW s \in Seq(Nat)
  PROVE  IsPrefix(m, s) <=> Len(m) <= Len(s) /\ \A j \in 1..Len(m) : m[j] = s[j]
<1>1. Len(m) \in Nat /\ Len(s) \in Nat
  OBVIOUS
<1>2. ASSUME NEW z \in Seq(Nat), Len(m) <= Len(z)
      PROVE  /\ SubSeq(z, 1, Len(m)) \in Seq(Nat) /\ Len(SubSeq(z, 1, Len(m))) = Len(m)
             /\ \A j \in 1..Len(m) : SubSeq(z, 1, Len(m))[j] = z[j]
  <2> DEFINE n == Len(m)
             y == SubSeq(z, 1, n)
  <2>1. n \in Nat /\ n <= Len(z) /\ n \in Int /\ 1 \in Nat \ {0}
    BY <1>1, <1>2
  <2> HIDE DEF n
  <2>2. y \in Seq(Nat) /\ Len(y) = (IF 1 <= n THEN (n - 1) + 1 ELSE 0)
        /\ \A j \in 1..((n - 1) + 1) : y[j] = z[(1 + j) - 1]
    BY <2>1, SubSeqType
  <2> HIDE DEF y
  <2>3. Len(y) = n
    BY <2>1, <2>2
  <2>4. ASSUME NEW j \in 1..n PROVE y[j] = z[j]
    <3>1. j \in 1..((n - 1) + 1) /\ (1 + j) - 1 = j
      BY <2>1
    <3>2. y[j] = z[(1 + j) - 1]
      BY <2>2, <3>1
    <3> QED
      BY <3>1, <3>2
  <2> QED
    BY <2>2, <2>3, <2>4 DEF y, n
<1>3. CASE ~(Len(m) <= Len(s))
  BY <1>3 DEF IsPrefix
<1>4. CASE Len(m) <= Len(s)
  <2> DEFINE p == SubSeq(m, 1, Len(m))
             q == SubSeq(s, 1, Len(m))
  <2>1. Len(m) <= Len(m)
    BY <1>1
  <2>2. p \in Seq(Nat) /\ Len(p) = Len(m) /\ \A j \in 1..Len(m) : p[j] = m[j]
    BY <1>2, <2>1
  <2>3. q \in Seq(Nat) /\ Len(q) = Len(m) /\ \A j \in 1..Len(m) : q[j] = s[j]
    BY <1>2, <1>4
  <2>4. IsPrefix(m, s) <=> p = q
    BY <1>4 DEF IsPrefix
  <2> HIDE DEF p, q
  <2>5. p = q => \A j \in 1..Len(m) : m[j] = s[j]
    BY <2>2, <2>3
  <2>6. ASSUME \A j \in 1..Len(m) : m[j] = s[j] PROVE p = q
    <3>1. \A j \in 1..Len(p) : p[j] = q[j]
      BY <2>2, <2>3, <2>6
    <3> QED
      BY <2>2, <2>3, <3>1, SeqEqual
  <2> QED
    BY <1>4, <2>4, <2>5, <2>6
<1> QED
  BY <1>3, <1>4

\* A label that begins with m is m and what follows it.
LEMMA PrefixParts ==
  ASSUME NEW m \in Seq(Nat), NEW d \in Seq(Nat)
  PROVE  /\ m \o d \in Seq(Nat) /\ Len(m \o d) = Len(m) + Len(d)
         /\ IsPrefix(m, m \o d)
         /\ SubSeq(m \o d, Len(m) + 1, Len(m \o d)) = d
<1> DEFINE w == m \o d
           x == SubSeq(w, Len(m) + 1, Len(w))
<1>1. /\ w \in Seq(Nat) /\ Len(w) = Len(m) + Len(d) /\ Len(m) \in Nat /\ Len(d) \in Nat
      /\ \A p \in 1..(Len(m) + Len(d)) : w[p] = IF p <= Len(m) THEN m[p] ELSE d[p - Len(m)]
  BY ConcatProperties
<1> HIDE DEF w
<1>2. IsPrefix(m, w)
  <2>1. ASSUME NEW j \in 1..Len(m) PROVE m[j] = w[j]
    <3>1. j \in 1..(Len(m) + Len(d)) /\ j <= Len(m)
      BY <1>1
    <3> QED
      BY <1>1, <3>1
  <2>2. Len(m) <= Len(w)
    BY <1>1
  <2>3. w \in Seq(Nat)
    BY <1>1
  <2> QED
    BY <2>1, <2>2, <2>3, PrefixAt
<1>3. x = d
  <2>0. w \in Seq(Nat) /\ Len(m) \in Nat /\ Len(w) \in Nat
    BY <1>1
  <2>1. Len(m) + 1 \in Nat \ {0} /\ Len(w) \in Int /\ Len(w) <= Len(w)
    BY <2>0
  <2>2. /\ x \in Seq(Nat)
        /\ Len(x) = IF Len(m) + 1 <= Len(w) THEN (Len(w) - (Len(m) + 1)) + 1 ELSE 0
        /\ \A j \in 1..((Len(w) - (Len(m) + 1)) + 1) : x[j] = w[((Len(m) + 1) + j) - 1]
    <3> DEFINE a == Len(m) + 1
               b == Len(w)
    <3>1. a \in Nat \ {0} /\ b \in Int /\ b <= Len(w)
      BY <2>1
    <3> HIDE DEF a, b
    <3>2. /\ SubSeq(w, a, b) \in Seq(Nat)
          /\ Len(SubSeq(w, a, b)) = IF a <= b THEN (b - a) + 1 ELSE 0
          /\ \A j \in 1..((b - a) + 1) : SubSeq(w, a, b)[j] = w[(a + j) - 1]
      BY <2>0, <3>1, SubSeqType
    <3> QED
      BY <3>2 DEF a, b
  <2> HIDE DEF x
  <2>3. (Len(w) - (Len(m) + 1)) + 1 = Len(d) /\ Len(x) = Len(d)
    BY <1>1, <2>2
  <2>4. ASSUME NEW j \in 1..Len(d) PROVE x[j] = d[j]
    <3>1. /\ ((Len(m) + 1) + j) - 1 = Len(m) + j /\ Len(m) + j \in 1..(Len(m) + Len(d))
          /\ ~(Len(m) + j <= Len(m)) /\ (Len(m) + j) - Len(m) = j
      BY <1>1
    <3>2. x[j] = w[((Len(m) + 1) + j) - 1]
      BY <2>2, <2>3
    <3> QED
      BY <1>1, <3>1, <3>2
  <2> QED
    BY <2>2, <2>3, <2>4, SeqEqual
<1> QED
  BY <1>1, <1>2, <1>3 DEF w, x

\* and nothing else begins with m
LEMMA PrefixCuts ==
  ASSUME NEW A, A \subseteq Nat, NEW m \in Seq(Nat), NEW s \in Seq(A), IsPrefix(m, s)
  PROVE  \E d \in Seq(A) : s = m \o d
<1> DEFINE d == SubSeq(s, Len(m) + 1, Len(s))
<1>1. s \in Seq(Nat)
  BY SeqMonotonic
<1>2. Len(m) \in Nat /\ Len(s) \in Nat /\ Len(m) <= Len(s) /\ \A j \in 1..Len(m) : m[j] = s[j]
  BY <1>1, PrefixAt
<1>3. Len(m) + 1 \in Nat \ {0} /\ Len(s) \in Int /\ Len(s) <= Len(s)
  BY <1>2
<1>4. /\ d \in Seq(A)
      /\ Len(d) = IF Len(m) + 1 <= Len(s) THEN (Len(s) - (Len(m) + 1)) + 1 ELSE 0
      /\ \A j \in 1..((Len(s) - (Len(m) + 1)) + 1) : d[j] = s[((Len(m) + 1) + j) - 1]
  BY <1>3, SubSeqType
<1> HIDE DEF d
<1>5. Len(d) = Len(s) - Len(m) /\ (Len(s) - (Len(m) + 1)) + 1 = Len(s) - Len(m)
  BY <1>2, <1>4
<1>6. d \in Seq(Nat)
  BY <1>4, SeqMonotonic
<1>7. /\ m \o d \in Seq(Nat) /\ Len(m \o d) = Len(m) + Len(d)
      /\ \A j \in 1..(Len(m) + Len(d)) : (m \o d)[j] = IF j <= Len(m) THEN m[j] ELSE d[j - Len(m)]
  BY <1>6, ConcatProperties
<1>8. ASSUME NEW j \in 1..Len(s) PROVE s[j] = (m \o d)[j]
  <2>1. j \in 1..(Len(m) + Len(d))
    BY <1>2, <1>5
  <2>2. CASE j <= Len(m)
    BY <1>2, <1>7, <2>1, <2>2
  <2>3. CASE ~(j <= Len(m))
    <3>1. j - Len(m) \in 1..(Len(s) - Len(m)) /\ ((Len(m) + 1) + (j - Len(m))) - 1 = j
      BY <1>2, <2>3
    <3>2. d[j - Len(m)] = s[((Len(m) + 1) + (j - Len(m))) - 1]
      BY <1>4, <1>5, <3>1
    <3> QED
      BY <1>7, <2>1, <2>3, <3>1, <3>2
  <2> QED
    BY <2>2, <2>3
<1>9. Len(m \o d) = Len(s)
  BY <1>2, <1>5, <1>7
<1>10. s = m \o d
  BY <1>1, <1>7, <1>8, <1>9, SeqEqual
<1> QED
  BY <1>4, <1>10

\* what an ASCII front of a text decides
LEMMA FrontPrefix ==
  ASSUME NEW m \in Seq(Ascii), NEW u \in Seq(Ascii), NEW x \in Seq(Nat),
         x = <<>> \/ x[1] > 127
  PROVE  IsPrefix(m, u \o x) <=> Len(m) <= Len(u) /\ \A j \in 1..Len(m) : m[j] = u[j]
<1>1. m \in Seq(Nat) /\ u \in Seq(Nat) /\ Len(m) \in Nat /\ Len(u) \in Nat /\ Len(x) \in Nat
  BY AsciiIsText
<1>2. /\ u \o x \in Seq(Nat) /\ Len(u \o x) = Len(u) + Len(x)
      /\ \A j \in 1..(Len(u) + Len(x)) : (u \o x)[j] = IF j <= Len(u) THEN u[j] ELSE x[j - Len(u)]
  BY <1>1, ConcatProperties
<1>3. IsPrefix(m, u \o x) <=> Len(m) <= Len(u \o x) /\ \A j \in 1..Len(m) : m[j] = (u \o x)[j]
  <2> DEFINE w == u \o x
  <2>1. w \in Seq(Nat)
    BY <1>2
  <2> HIDE DEF w
  <2>2. IsPrefix(m, w) <=> Len(m) <= Len(w) /\ \A j \in 1..Len(m) : m[j] = w[j]
    BY <1>1, <2>1, PrefixAt
  <2> QED
    BY <2>2 DEF w
<1>4. CASE Len(m) <= Len(u)
  <2>1. \A j \in 1..Len(m) : (u \o x)[j] = u[j]
    BY <1>1, <1>2, <1>4
  <2>2. Len(m) <= Len(u \o x)
    BY <1>1, <1>2, <1>4
  <2> QED
    BY <1>3, <1>4, <2>1, <2>2
<1>5. CASE ~(Len(m) <= Len(u))
  <2>1. SUFFICES ASSUME Len(m) <= Len(u \o x), \A j \in 1..Len(m) : m[j] = (u \o x)[j]
                 PROVE  FALSE
    BY <1>3, <1>5
  <2> DEFINE k == Len(u) + 1
  <2>2. k \in 1..Len(m) /\ k \in 1..(Len(u) + Len(x)) /\ ~(k <= Len(u)) /\ k - Len(u) = 1
        /\ Len(x) > 0
    BY <1>1, <1>2, <1>5, <2>1
  <2>3. (u \o x)[k] = x[1]
    BY <1>2, <2>2
  <2>4. x # <<>>
    BY <2>2
  <2>5. m[k] > 127
    BY <2>1, <2>2, <2>3, <2>4
  <2>6. m[k] \in Ascii
    BY <2>2
  <2> HIDE DEF k
  <2> DEFINE a == m[k]
  <2>7. a \in Ascii /\ a > 127
    BY <2>5, <2>6
  <2> HIDE DEF a
  <2> QED
    BY <2>7 DEF Ascii
<1> QED
  BY <1>4, <1>5

\* A marker is a prefix of a label in every view or in none.
LEMMA ViewPrefix ==
  ASSUME NEW f, Faithful(f), NEW t \in Seq(CodePoint), NEW m \in Seq(Ascii)
  PROVE  IsPrefix(m, Transcoded(f, t)) <=> IsPrefix(m, t)
<1>1. PICK u \in Seq(Ascii), x \in Seq(CodePoint), y \in Seq(Nat) :
        t = u \o x /\ Transcoded(f, t) = u \o y /\ AlikeAfter(x, y)
  BY FrontsHold DEF Fronts
<1>2. x \in Seq(Nat) /\ (x = <<>> \/ x[1] > 127) /\ (y = <<>> \/ y[1] > 127)
  BY <1>1, AsciiIsText DEF AlikeAfter
<1>3. IsPrefix(m, u \o x) <=> Len(m) <= Len(u) /\ \A j \in 1..Len(m) : m[j] = u[j]
  BY <1>2, FrontPrefix
<1>4. IsPrefix(m, u \o y) <=> Len(m) <= Len(u) /\ \A j \in 1..Len(m) : m[j] = u[j]
  BY <1>2, FrontPrefix
<1> QED
  BY <1>1, <1>3, <1>4

\* A digest is ASCII.
LEMMA DigestIsAscii ==
  ASSUME NEW d \in Seq(Nat), IsDigest(d)
  PROVE  ~Foreign(d) /\ d \in Seq(Ascii)
<1>1. \A b : IsBase36Byte(b) => b \in Ascii
  BY DEF IsBase36Byte, IsDigit, Ascii
<1>2. \A j \in 1..Len(d) : d[j] \in Ascii
  BY <1>1 DEF IsDigest
<1>3. \A a \in Ascii : ~(a > 127)
  BY DEF Ascii
<1>4. ~Foreign(d)
  BY <1>2, <1>3 DEF Foreign
<1>5. d \in Seq(Ascii)
  BY <1>2
<1> QED
  BY <1>4, <1>5

\* What follows the marker is a digest in every view or in none.
LEMMA ViewRest ==
  ASSUME NEW f, Faithful(f), NEW t \in Seq(CodePoint), NEW m \in Seq(Ascii), IsPrefix(m, t)
  PROVE  HashLabelError(Transcoded(f, t), m) = HashLabelError(t, m)
<1>1. m \in Seq(Nat) /\ m \in Seq(CodePoint) /\ CodePoint \subseteq Nat /\ t \in Seq(Nat)
  BY AsciiIsText, CharNat
<1>2. PICK d \in Seq(CodePoint) : t = m \o d
  BY <1>1, PrefixCuts
<1>3. \A a \in CodePoint : f[a] \in Seq(Nat)
  BY FaithfulType
<1>4. Transcoded(f, m) = m
  BY <1>1, AsciiOrForeign
<1> DEFINE e == Transcoded(f, d)
<1>5. e \in Seq(Nat) /\ d \in Seq(Nat)
  BY <1>2, <1>3, TranscodedType, AsciiIsText
<1>6. Transcoded(f, t) = m \o e
  <2>1. Transcoded(f, m \o d) = Transcoded(f, m) \o Transcoded(f, d)
    BY <1>1, <1>2, <1>3, TranscodedConcat
  <2> QED
    BY <1>2, <1>4, <2>1
<1>7. (d \in Seq(Ascii) /\ e = d) \/ (Foreign(d) /\ Foreign(e))
  BY <1>2, AsciiOrForeign
<1> HIDE DEF e
<1>8. IsDigest(e) <=> IsDigest(d)
  BY <1>5, <1>7, DigestIsAscii
<1>9. SubSeq(m \o e, Len(m) + 1, Len(m \o e)) = e /\ SubSeq(m \o d, Len(m) + 1, Len(m \o d)) = d
  BY <1>1, <1>5, PrefixParts
<1>10. IsDigest(SubSeq(Transcoded(f, t), Len(m) + 1, Len(Transcoded(f, t)))) <=> IsDigest(e)
  BY <1>6, <1>9
<1>11. IsDigest(SubSeq(t, Len(m) + 1, Len(t))) <=> IsDigest(d)
  BY <1>2, <1>9
<1> QED
  BY <1>8, <1>10, <1>11 DEF HashLabelError

\* A label has a hyphen at an edge in every view or in none.
LEMMA ViewEdges ==
  ASSUME NEW f, Faithful(f), NEW t \in Seq(CodePoint)
  PROVE  BadEdges(Transcoded(f, t)) <=> BadEdges(t)
<1> DEFINE r == Transcoded(f, t)
<1>1. t = <<>> <=> r = <<>>
  BY FirstAlike
<1>2. CASE t = <<>>
  BY <1>1, <1>2 DEF BadEdges
<1>3. CASE t # <<>>
  <2>1. Len(t) \in Nat \ {0} /\ 1 \in 1..Len(t) /\ Len(t) \in 1..Len(t)
    BY <1>3
  <2> DEFINE a == t[1]
             z == t[Len(t)]
  <2>2. a \in Nat /\ z \in Nat
    <3>1. a \in CodePoint /\ z \in CodePoint
      BY <2>1
    <3> QED
      BY <3>1, CharNat
  <2>3. /\ a <= 127 => r[1] = a
        /\ a > 127 => r[1] > 127
    BY <1>3, FirstAlike
  <2>4. /\ z <= 127 => r[Len(r)] = z
        /\ z > 127 => r[Len(r)] > 127
    BY <1>3, LastAlike
  <2>5. r # <<>>
    BY <1>1, <1>3
  <2> DEFINE b == r[1]
             y == r[Len(r)]
  <2>6. b = HYPHEN <=> a = HYPHEN
    <3> HIDE DEF a, b
    <3>1. (a <= 127 => b = a) /\ (a > 127 => b > 127)
      BY <2>3 DEF a, b
    <3> HIDE DEF r
    <3> QED
      BY <2>2, <3>1 DEF HYPHEN
  <2>7. y = HYPHEN <=> z = HYPHEN
    <3>1. (z <= 127 => y = z) /\ (z > 127 => y > 127)
      BY <2>4
    <3> HIDE DEF z, y, r
    <3> QED
      BY <2>2, <3>1 DEF HYPHEN
  <2> QED
    BY <1>3, <2>5, <2>6, <2>7 DEF BadEdges
<1> QED
  BY <1>2, <1>3

\* a marker is written in ASCII
LEMMA MarkerIsAscii ==
  ASSUME NEW m \in Seq(Byte), ValidMarker(m)
  PROVE  m \in Seq(Ascii) /\ Spelled(m)
<1>1. DOMAIN m = 1..Len(m) /\ \A j \in DOMAIN m : IsLiteralByte(m[j]) \/ m[j] = HYPHEN
  BY DEF ValidMarker
<1>2. \A b : IsLiteralByte(b) \/ b = HYPHEN => b \in Ascii
  BY DEF IsLiteralByte, IsDigit, HYPHEN, Ascii
<1>3. \A j \in 1..Len(m) : m[j] \in Ascii
  BY <1>1, <1>2
<1>4. m = [j \in 1..Len(m) |-> m[j]] /\ Len(m) \in Nat
  OBVIOUS
<1> QED
  BY <1>1, <1>3, <1>4 DEF Spelled

-----------------------------------------------------------------------------
(* Decoded bodies.                                                         *)

\* a text as a port sees it
View(r, t) == r = t \/ r = Utf8(t) \/ r = Utf16(t)

\* Edges, prefixes and what follows them are seen alike.
LEMMA ViewFacts ==
  ASSUME NEW t \in Seq(CodePoint), NEW r, View(r, t)
  PROVE  /\ r \in Seq(Nat) /\ (BadEdges(r) <=> BadEdges(t))
         /\ t \in Seq(Ascii) => r = t
         /\ \A m \in Seq(Ascii) :
              /\ IsPrefix(m, r) <=> IsPrefix(m, t)
              /\ IsPrefix(m, t) => HashLabelError(r, m) = HashLabelError(t, m)
<1>1. t \in Seq(Nat)
  BY AsciiIsText
<1>2. CASE r = t
  BY <1>1, <1>2
<1>3. ASSUME NEW f, Faithful(f), r = Transcoded(f, t)
      PROVE  /\ r \in Seq(Nat) /\ (BadEdges(r) <=> BadEdges(t))
             /\ t \in Seq(Ascii) => r = t
             /\ \A m \in Seq(Ascii) :
                  /\ IsPrefix(m, r) <=> IsPrefix(m, t)
                  /\ IsPrefix(m, t) => HashLabelError(r, m) = HashLabelError(t, m)
  <2>1. r \in Seq(Nat)
    BY <1>3, FirstAlike
  <2>2. BadEdges(r) <=> BadEdges(t)
    BY <1>3, ViewEdges
  <2>3. t \in Seq(Ascii) => r = t
    BY <1>3, AsciiOrForeign
  <2>4. ASSUME NEW m \in Seq(Ascii)
        PROVE  /\ IsPrefix(m, r) <=> IsPrefix(m, t)
               /\ IsPrefix(m, t) => HashLabelError(r, m) = HashLabelError(t, m)
    BY <1>3, ViewPrefix, ViewRest
  <2> QED
    BY <2>1, <2>2, <2>3, <2>4
<1>4. CASE r = Utf8(t)
  BY <1>3, <1>4, Utf8Def, Utf8TableType
<1>5. CASE r = Utf16(t)
  BY <1>3, <1>5, Utf16Def, Utf16TableType
<1> QED
  BY <1>2, <1>4, <1>5 DEF View

\* No text has more bytes than its representation.
LEMMA DecodedShorter ==
  ASSUME NEW c \in Seq(Byte), DecodeComponent(c).status = "OK"
  PROVE  Len(DecodeComponent(c).text) <= Len(c)
<1> DEFINE n == Len(c)
           D(i) == Decoding(c)[i]
           S == {i \in 1..(n + 1) : \A x \in D(i) : Len(x) <= (n + 1) - i}
<1>1. n \in Nat
  OBVIOUS
<1>2. \A i \in 1..(n + 1) : D(i) \in SUBSET Seq(Byte) /\ D(i) = DecodeRest(c, i, Decoding(c))
  BY DecodingDef
<1>3. ASSUME NEW b \in Byte, NEW texts \in SUBSET Seq(Byte), NEW k \in Nat,
             \A x \in texts : Len(x) <= k, NEW y \in Before(b, texts)
      PROVE  Len(y) <= k + 1
  <2>1. PICK x \in texts : y = <<b>> \o x
    BY <1>3 DEF Before
  <2>2. x \in Seq(Byte) /\ Len(x) <= k
    BY <1>3, <2>1
  <2>3. Len(<<b>> \o x) = 1 + Len(x)
    BY <2>2
  <2>4. Len(x) \in Nat
    BY <2>2
  <2> QED
    BY <2>1, <2>2, <2>3, <2>4
<1>4. ASSUME NEW i \in 1..(n + 1), \A j \in 1..(n + 1) : j > i => j \in S
      PROVE  i \in S
  <2> HIDE DEF D
  <2> SUFFICES ASSUME NEW x \in D(i) PROVE Len(x) <= (n + 1) - i
    OBVIOUS
  <2>1. CASE i > n
    <3>1. D(i) = {<<>>}
      BY <1>2, <2>1 DEF DecodeRest
    <3>2. x = <<>> /\ Len(<<>>) = 0 /\ 0 <= (n + 1) - i
      BY <1>1, <3>1
    <3> QED
      BY <3>2
  <2>2. CASE ~(i > n) /\ IsLiteralByte(c[i])
    <3>1. D(i) = Before(c[i], D(i + 1))
      BY <1>2, <2>2 DEF DecodeRest, D
    <3>2. i \in 1..n /\ i + 1 \in 1..(n + 1) /\ i + 1 > i /\ n - i \in Nat
          /\ (n + 1) - (i + 1) = n - i /\ (n - i) + 1 = (n + 1) - i
      BY <1>1, <2>2
    <3>3. c[i] \in Byte /\ D(i + 1) \in SUBSET Seq(Byte)
      BY <1>2, <3>2
    <3>4. \A z \in D(i + 1) : Len(z) <= n - i
      BY <1>4, <3>2
    <3>5. Len(x) <= (n - i) + 1
      BY <1>3, <3>1, <3>2, <3>3, <3>4
    <3> QED
      BY <3>2, <3>5
  <2>3. CASE ~(i > n) /\ ~IsLiteralByte(c[i]) /\ IsEscape(c, i)
    <3>1. D(i) = Before(HexByte(c[i + 1], c[i + 2]), D(i + 3))
      BY <1>2, <2>3 DEF DecodeRest, D
    <3>2. i + 2 <= n /\ IsHexDigit(c[i + 1]) /\ IsHexDigit(c[i + 2])
      BY <2>3 DEF IsEscape
    <3>3. i \in 1..n /\ i + 3 \in 1..(n + 1) /\ i + 3 > i /\ n - i - 2 \in Nat
          /\ (n + 1) - (i + 3) = n - i - 2 /\ (n - i - 2) + 1 <= (n + 1) - i
          /\ i + 1 \in 1..n /\ i + 2 \in 1..n
      BY <1>1, <2>3, <3>2
    <3>4. c[i + 1] \in Byte /\ c[i + 2] \in Byte /\ D(i + 3) \in SUBSET Seq(Byte)
      BY <1>2, <3>3
    <3> DEFINE b == HexByte(c[i + 1], c[i + 2])
    <3>5. b \in Byte
      BY <3>2, <3>4, HexByteType
    <3>6. \A z \in D(i + 3) : Len(z) <= n - i - 2
      BY <1>4, <3>3
    <3>7. D(i) = Before(b, D(i + 3))
      BY <3>1
    <3> HIDE DEF b
    <3>8. Len(x) <= (n - i - 2) + 1
      BY <1>3, <3>3, <3>4, <3>5, <3>6, <3>7
    <3>9. x \in Seq(Byte)
      BY <1>2
    <3>10. Len(x) \in Nat
      BY <3>9
    <3> QED
      BY <1>1, <3>3, <3>8, <3>10
  <2>4. CASE ~(i > n) /\ ~IsLiteralByte(c[i]) /\ ~IsEscape(c, i)
    <3>1. D(i) = {}
      BY <1>2, <2>4 DEF DecodeRest
    <3> QED
      BY <3>1
  <2> QED
    BY <2>1, <2>2, <2>3, <2>4
<1>5. 1 \in S
  <2> HIDE DEF S
  <2>1. 1..(n + 1) \subseteq S
    BY <1>1, <1>4, ScanInduction
  <2> QED
    BY <1>1, <2>1
<1>6. DecodeComponent(c).text \in D(1)
  <2>1. DecodeComponent(c).text \in DecodeTexts(c)
    BY DecodeByTexts
  <2> QED
    BY <2>1 DEF DecodeTexts
<1> QED
  BY <1>1, <1>5, <1>6

\* the outcome of a body that is put together of components that are decoded
LEMMA BehindFacts ==
  ASSUME NEW x \in Seq(Byte), NEW r \in Outcomes
  PROVE  /\ Behind(x, r).status = r.status
         /\ r.status = "OK" => Behind(x, r).text = x \o r.text /\ Len(x \o r.text) = Len(x) + Len(r.text)
<1>1. r.text \in Seq(Byte)
  BY OutcomeFacts
<1> QED
  BY <1>1 DEF Behind, Success

\* What decodes is ASCII, and no shorter than what it decodes to.
LEMMA BodyShorter ==
  ASSUME NEW s \in Seq(Byte)
  PROVE  DecodeBody(s).status = "OK" => ~Foreign(s) /\ Len(DecodeBody(s).text) <= Len(s)
<1> DEFINE S == {x \in Seq(Byte) : DecodeBody(x).status = "OK" =>
                                     ~Foreign(x) /\ Len(DecodeBody(x).text) <= Len(x)}
<1>0. \A u \in Seq(Byte) : DecodeComponent(u).status = "OK" => ~Foreign(u)
  <2> TAKE u \in Seq(Byte)
  <2>1. u \in Seq(Nat)
    BY AsciiIsText
  <2>2. Foreign(u) => DecodeComponent(u).status = "INVALID_ESCAPE"
    BY <2>1, Refused DEF Failure
  <2> QED
    BY <2>2
<1>1. ASSUME NEW u \in Seq(Byte), Whole(u) PROVE u \in S
  BY <1>0, <1>1, DecodeWhole, DecodedShorter
<1>2. ASSUME NEW u \in Seq(Byte), NEW v \in Seq(Byte), Leads(u), v \in S
      PROVE  (u \o Separator) \o v \in S
  <2> DEFINE w == (u \o Separator) \o v
             a == DecodeComponent(u)
             b == DecodeBody(v)
             x == a.text \o Separator
  <2>1. DecodeBody(w) = IF a.status = "OK" THEN Behind(x, b) ELSE a
    BY <1>2, DecodeFirst
  <2>2. /\ w \in Seq(Byte) /\ Len(w) = (Len(u) + 2) + Len(v)
        /\ \A p \in 1..((Len(u) + 2) + Len(v)) :
             w[p] = IF p <= Len(u) THEN u[p] ELSE IF p <= Len(u) + 2 THEN HYPHEN ELSE v[p - (Len(u) + 2)]
    BY AroundSeparator
  <2>3. a \in Outcomes /\ b \in Outcomes
    BY ComponentOutcomes, BodyOutcomes
  <2>4. a.text \in Seq(Byte) /\ b.text \in Seq(Byte)
    BY <2>3, OutcomeFacts
  <2>5. x \in Seq(Byte) /\ Len(x) = Len(a.text) + 2
    <3> DEFINE y == a.text
    <3>1. y \in Seq(Byte) /\ Separator \in Seq(Byte) /\ Len(Separator) = 2
      BY <2>4, SeparatorType
    <3> HIDE DEF y
    <3>2. y \o Separator \in Seq(Byte) /\ Len(y \o Separator) = Len(y) + Len(Separator)
      BY <3>1, ConcatProperties
    <3> QED
      BY <3>1, <3>2 DEF y
  <2>6. a.status = "OK" => ~Foreign(u) /\ Len(a.text) <= Len(u)
    BY <1>0, DecodedShorter
  <2>7. b.status = "OK" => ~Foreign(v) /\ Len(b.text) <= Len(v)
    BY <1>2
  <2> HIDE DEF w, a, b, x
  <2>8. ASSUME DecodeBody(w).status = "OK" PROVE ~Foreign(w) /\ Len(DecodeBody(w).text) <= Len(w)
    <3>1. a.status = "OK" /\ DecodeBody(w) = Behind(x, b)
      BY <2>1, <2>8
    <3>2. b.status = "OK" /\ DecodeBody(w).text = x \o b.text /\ Len(x \o b.text) = Len(x) + Len(b.text)
      <4>1. Behind(x, b).status = b.status
            /\ (b.status = "OK" => /\ Behind(x, b).text = x \o b.text
                                   /\ Len(x \o b.text) = Len(x) + Len(b.text))
        BY <2>3, <2>5, BehindFacts
      <4>2. b.status = "OK"
        BY <2>8, <3>1, <4>1
      <4> QED
        BY <3>1, <4>1, <4>2
    <3>3. Len(u) \in Nat /\ Len(v) \in Nat /\ Len(a.text) \in Nat /\ Len(b.text) \in Nat
      BY <2>4
    <3>4. Len(DecodeBody(w).text) <= Len(w)
      <4> DEFINE i == Len(u)
                 j == Len(v)
                 k == Len(a.text)
                 l == Len(b.text)
      <4>1. i \in Nat /\ j \in Nat /\ k \in Nat /\ l \in Nat /\ k <= i /\ l <= j
        BY <2>6, <2>7, <3>1, <3>2, <3>3
      <4>2. Len(DecodeBody(w).text) = Len(x) + l
        BY <3>2
      <4>3. Len(x) = k + 2
        BY <2>5
      <4>4. Len(w) = (i + 2) + j
        BY <2>2
      <4> HIDE DEF i, j, k, l
      <4> QED
        BY <4>1, <4>2, <4>3, <4>4
    <3>5. ASSUME NEW p \in 1..Len(w) PROVE ~(w[p] > 127)
      <4>1. p \in 1..((Len(u) + 2) + Len(v))
        BY <2>2
      <4>2. CASE p <= Len(u)
        <5>1. p \in 1..Len(u) /\ w[p] = u[p]
          BY <2>2, <3>3, <4>1, <4>2
        <5> QED
          BY <2>6, <3>1, <5>1 DEF Foreign
      <4>3. CASE ~(p <= Len(u)) /\ p <= Len(u) + 2
        <5>1. w[p] = HYPHEN
          BY <2>2, <4>1, <4>3
        <5> QED
          BY <5>1 DEF HYPHEN
      <4>4. CASE ~(p <= Len(u)) /\ ~(p <= Len(u) + 2)
        <5>1. p - (Len(u) + 2) \in 1..Len(v)
          BY <3>3, <4>1, <4>4
        <5>2. w[p] = v[p - (Len(u) + 2)]
          BY <2>2, <4>1, <4>4
        <5> QED
          BY <2>7, <3>2, <5>1, <5>2 DEF Foreign
      <4> QED
        BY <4>2, <4>3, <4>4
    <3> QED
      BY <3>4, <3>5 DEF Foreign
  <2> QED
    BY <2>2, <2>8 DEF w
<1>3. Seq(Byte) \subseteq S
  <2> HIDE DEF S
  <2> QED
    BY <1>1, <1>2, SplitInduction
<1> QED
  BY <1>3

-----------------------------------------------------------------------------
(* What a port answers is an outcome with a status and bytes.              *)

\* SHA-256 in base36 is a digest of every text.
DigestIsDigest == \A s \in Seq(Byte) : Digest(s) \in Seq(Byte) /\ IsDigest(Digest(s))

Typed(a) ==
  /\ a.status \in Statuses /\ a.text \in Seq(Byte)
  /\ a.status # "OK" => a.text = <<>>

\* What decoders answer,
LEMMA OutcomesTyped ==
  ASSUME NEW r \in Outcomes
  PROVE  Typed(r)
  BY OutcomeFacts DEF Typed, Statuses

\* a text that is returned,
LEMMA SuccessTyped ==
  ASSUME NEW s \in Seq(Byte)
  PROVE  Typed(Success(s))
  BY DEF Typed, Statuses, Success

\* and an error are such answers.
LEMMA FailureTyped ==
  ASSUME NEW e \in Statuses, e # "OK"
  PROVE  Typed(Failure(e))
<1>1. <<>> \in Seq(Byte)
  OBVIOUS
<1> QED
  BY <1>1 DEF Typed, Failure

\* A label is the body, or the marker and a digest of a known length.
LEMMA LabelParts ==
  ASSUME DigestIsDigest, NEW body \in Seq(Byte), NEW h \in Seq(Byte), NEW m \in Seq(Byte)
  PROVE  LET l == LabelOf(body, h, m)
         IN  /\ Typed(l)
             /\ l.status = "OK" =>
                  /\ l = Success(l.text) /\ Len(l.text) <= MaxLabelLength /\ ~BadEdges(body)
                  /\ \/ l.text = body /\ ~IsPrefix(m, body)
                     \/ /\ l.text = m \o Digest(h) /\ IsPrefix(m, l.text)
                        /\ IsDigest(SubSeq(l.text, Len(m) + 1, Len(l.text)))
<1> DEFINE d == Digest(h)
           w == m \o d
           l == LabelOf(body, h, m)
<1>1. d \in Seq(Byte) /\ IsDigest(d)
  BY DEF DigestIsDigest
<1> HIDE DEF d
<1>2. m \in Seq(Nat) /\ d \in Seq(Nat)
  BY <1>1, AsciiIsText
<1>3. /\ w \in Seq(Byte) /\ IsPrefix(m, w)
      /\ SubSeq(w, Len(m) + 1, Len(w)) = d
  BY <1>1, <1>2, PrefixParts
<1>4. Len(w) \in Nat /\ Len(body) \in Nat /\ MaxLabelLength \in Nat
  BY <1>3, LengthsAssumption
<1>5. /\ l = IF BadEdges(body) THEN Failure("INVALID_ENCODING")
             ELSE IF Len(body) <= MaxLabelLength /\ ~IsPrefix(m, body) THEN Success(body)
             ELSE IF Len(w) > MaxLabelLength THEN Failure("LABEL_TOO_LONG")
             ELSE Success(w)
  BY DEF LabelOf, d
<1> HIDE DEF w, l
<1>6. Typed(Success(body)) /\ Typed(Success(w))
  BY <1>3, SuccessTyped
<1>7. Typed(Failure("INVALID_ENCODING")) /\ Typed(Failure("LABEL_TOO_LONG"))
  BY FailureTyped DEF Statuses
<1>8. /\ Success(body).status = "OK" /\ Success(body).text = body
      /\ Success(w).status = "OK" /\ Success(w).text = w
      /\ Failure("INVALID_ENCODING").status # "OK" /\ Failure("LABEL_TOO_LONG").status # "OK"
  BY DEF Success, Failure
<1>9. Typed(l)
  BY <1>5, <1>6, <1>7
<1>10. ASSUME l.status = "OK"
       PROVE  /\ l = Success(l.text) /\ Len(l.text) <= MaxLabelLength /\ ~BadEdges(body)
              /\ \/ l.text = body /\ ~IsPrefix(m, body)
                 \/ /\ l.text = w /\ IsPrefix(m, l.text)
                    /\ IsDigest(SubSeq(l.text, Len(m) + 1, Len(l.text)))
  <2>1. CASE BadEdges(body)
    BY <1>5, <1>8, <1>10, <2>1
  <2>2. CASE ~BadEdges(body) /\ Len(body) <= MaxLabelLength /\ ~IsPrefix(m, body)
    BY <1>5, <1>8, <2>2
  <2>3. CASE ~BadEdges(body) /\ ~(Len(body) <= MaxLabelLength /\ ~IsPrefix(m, body))
    <3>1. CASE Len(w) > MaxLabelLength
      BY <1>5, <1>8, <1>10, <2>3, <3>1
    <3>2. CASE ~(Len(w) > MaxLabelLength)
      <4>1. l = Success(w)
        BY <1>5, <2>3, <3>2
      <4>2. Len(w) <= MaxLabelLength
        BY <1>4, <3>2
      <4>3. l.text = w
        BY <1>8, <4>1
      <4> QED
        BY <1>1, <1>3, <2>3, <4>1, <4>2, <4>3
    <3> QED
      BY <3>1, <3>2
  <2> QED
    BY <2>1, <2>2, <2>3
<1> QED
  BY <1>9, <1>10 DEF l, w, d

\* So is a label,
LEMMA LabelTyped ==
  ASSUME DigestIsDigest, NEW body \in Seq(Byte), NEW h \in Seq(Byte), NEW m \in Seq(Byte)
  PROVE  Typed(LabelOf(body, h, m))
  BY LabelParts

\* what a label is dispatched to,
LEMMA DispatchTyped ==
  ASSUME NEW l, NEW m, NEW d, Typed(d)
  PROVE  /\ Typed(Dispatched(l, m, EdgesThenLength(l, d)))
         /\ Typed(Dispatched(l, m, LengthThenEdges(l, d)))
<1>1. Typed(Failure("INVALID_ENCODING")) /\ Typed(Failure("LABEL_TOO_LONG"))
      /\ Typed(Failure("NOT_DECODABLE"))
  BY FailureTyped DEF Statuses
<1>2. HashLabelError(l, m) = "INVALID_ENCODING" \/ HashLabelError(l, m) = "NOT_DECODABLE"
  BY DEF HashLabelError
<1>3. Typed(EdgesThenLength(l, d)) /\ Typed(LengthThenEdges(l, d))
  BY <1>1 DEF EdgesThenLength, LengthThenEdges
<1> QED
  BY <1>1, <1>2, <1>3 DEF Dispatched

\* of the six functions of a port the one that was called
LEMMA CalledTyped ==
  ASSUME NEW a1, NEW a2, NEW a3, NEW a4, NEW a5, NEW a6,
         Typed(a1), Typed(a2), Typed(a3), Typed(a4), Typed(a5), Typed(a6)
  PROVE  Typed(Called(a1, a2, a3, a4, a5, a6))
  BY DEF Called

\* What the ports that work on bytes answer.
LEMMA BytesTyped ==
  ASSUME DigestIsDigest, marker \in Seq(Byte), NEW s \in Seq(Byte)
  PROVE  Typed(CAnswer(s)) /\ Typed(WholeStringAnswer(s))
<1>1. EncodeComponent(s) \in Seq(Byte) /\ EncodeBody(s) \in Seq(Byte)
  BY EncodeType, BodyType
<1>2. /\ Typed(Failure("INVALID_ENCODING")) /\ Typed(Failure("INVALID_UTF8"))
      /\ Typed(Success(EncodeComponent(s))) /\ Typed(Success(EncodeBody(s)))
      /\ Typed(LabelOf(EncodeBody(s), EncodeComponent(s), marker))
  <2>1. "INVALID_ENCODING" \in Statuses /\ "INVALID_UTF8" \in Statuses
    BY DEF Statuses
  <2> QED
    BY <1>1, <2>1, FailureTyped, SuccessTyped, LabelTyped
<1>3. Typed(DecodeComponent(s)) /\ Typed(DecodeBody(s))
  BY ComponentOutcomes, BodyOutcomes, OutcomesTyped
<1>4. Typed(DecodeProfile(s, marker))
  BY <1>3, DispatchTyped DEF DecodeProfile
<1>5. Typed(EncodeProfile(s, marker))
  BY <1>2 DEF EncodeProfile
<1>6. Typed(Encoded(s, EncodeComponent(s))) /\ Typed(Encoded(s, EncodeBody(s)))
  BY <1>2 DEF Encoded
<1>7. Typed(CAnswer(s))
  BY <1>3, <1>4, <1>5, <1>6, CalledTyped DEF CAnswer
<1>8. Typed(IF ValidMarker(marker) THEN LabelOf(EncodeBody(s), EncodeComponent(s), marker)
            ELSE Failure("INVALID_ENCODING"))
  BY <1>2
<1>9. Typed(WholeStringAnswer(s))
  BY <1>2, <1>3, <1>4, <1>8, CalledTyped DEF WholeStringAnswer
<1> QED
  BY <1>7, <1>9

\* What the ports that work on UTF-16 answer.
LEMMA UnitsTyped ==
  ASSUME DigestIsDigest, marker \in Seq(Byte), NEW s \in Seq(Unit)
  PROVE  Typed(JsAnswer(s)) /\ Typed(JavaAnswer(s)) /\ Typed(DotnetAnswer(s))
<1>0. s \in Seq(Nat)
  BY ScalarIsText
<1>1. Typed(Failure("INVALID_ENCODING"))
  BY FailureTyped DEF Statuses
<1>2. /\ Typed(Success(JsEncodeComponent(s))) /\ Typed(Success(JsEncodeBody(s)))
      /\ Typed(LabelOf(JsEncodeBody(s), JsEncodeComponent(s), marker))
      /\ Typed(JsDecodeComponent(s)) /\ Typed(JsDecodeBody(s))
  BY <1>0, JsEncodes, SuccessTyped, LabelTyped, JsDecodes, OutcomesTyped
<1>3. Typed(JsAnswer(s))
  <2>1. Typed(JsEncodeProfile(s, marker, webCrypto))
    BY <1>1, <1>2 DEF JsEncodeProfile
  <2>2. Typed(JsDecodeProfile(s, marker))
    BY <1>2, DispatchTyped DEF JsDecodeProfile
  <2> QED
    BY <1>2, <2>1, <2>2, CalledTyped DEF JsAnswer
<1>4. /\ Typed(Success(JavaEncodeComponent(s))) /\ Typed(Success(JavaEncodeBody(s)))
      /\ \A z \in Seq(Unit) : Typed(LabelOf(JavaEncodeBody(z), JavaEncodeComponent(z), marker))
      /\ JavaCanonical(s) \in Seq(Unit)
  BY JavaEncodes, SuccessTyped, LabelTyped, CanonicalType
<1>5. Typed(JavaDecodeComponent(s)) /\ Typed(JavaDecodeBody(s))
  <2>1. Typed(JavaDecodeComponent(s))
    <3>1. JavaDecodeComponent(s) = DecodeComponent(s) /\ DecodeComponent(s) \in Outcomes
      BY <1>0, SeparatorChecked, ComponentOutcome
    <3> QED
      BY <3>1, OutcomesTyped
  <2>2. JavaDecodeBody(s) \in Outcomes
    <3> DEFINE k == Split(s)
               n == Len(k)
               r == [j \in DOMAIN k |-> JavaDecodeComponent(k[j])]
    <3>1. n \in Nat /\ DOMAIN k = 1..n /\ \A j \in 1..n : k[j] \in Seq(Nat)
      BY <1>0, UnitParts
    <3>2. JavaDecodeBody(s) = FirstErrorOrJoin(r)
      BY DEF JavaDecodeBody
    <3> HIDE DEF n, k
    <3>3. \A j \in 1..n : JavaDecodeComponent(k[j]) \in Outcomes
      BY <3>1, SeparatorChecked, ComponentOutcome
    <3>4. r = [j \in 1..n |-> r[j]] /\ \A j \in 1..n : r[j] \in Outcomes
      BY <3>1, <3>3
    <3> HIDE DEF r
    <3> QED
      BY <3>1, <3>2, <3>4, JoinedOutcome
  <2> QED
    BY <2>1, <2>2, OutcomesTyped
<1>6. Typed(JavaAnswer(s))
  <2>1. Typed(JavaEncodeProfile(s, marker))
    BY <1>1, <1>4 DEF JavaEncodeProfile
  <2>2. Typed(JavaDecodeProfile(s, marker))
    BY <1>5, DispatchTyped DEF JavaDecodeProfile
  <2> QED
    BY <1>4, <1>5, <2>1, <2>2, CalledTyped DEF JavaAnswer
<1>7. /\ Typed(Success(DotnetEncodeComponent(s))) /\ Typed(Success(DotnetEncodeBody(s)))
      /\ \A z \in Seq(Unit) : Typed(LabelOf(DotnetEncodeBody(z), DotnetEncodeComponent(z), marker))
      /\ DotnetCanonical(s) \in Seq(Unit)
      /\ Typed(DotnetDecodeComponent(s)) /\ Typed(DotnetDecodeBody(s))
  BY <1>0, DotnetEncodes, SuccessTyped, LabelTyped, CanonicalType, DotnetDecodes, OutcomesTyped
<1>8. Typed(DotnetAnswer(s))
  <2>1. Typed(DotnetEncodeProfile(s, marker))
    BY <1>1, <1>7 DEF DotnetEncodeProfile
  <2>2. Typed(DotnetDecodeProfile(s, marker))
    BY <1>7, DispatchTyped DEF DotnetDecodeProfile
  <2> QED
    BY <1>7, <2>1, <2>2, CalledTyped DEF DotnetAnswer
<1> QED
  BY <1>3, <1>6, <1>8

\* What Python answers.
LEMMA PointsTyped ==
  ASSUME DigestIsDigest, marker \in Seq(Byte), NEW s \in Seq(CodePoint)
  PROVE  Typed(PythonAnswer(s))
<1> DEFINE u == Utf8(s)
           x == PythonEncodeComponent(s)
           y == PythonEncodeBody(s)
<1>1. u \in Seq(Byte)
  BY Utf8Type
<1>2. x = EncodeComponent(u) /\ y = EncodeBody(u)
  BY PythonEncodesText
<1>3. x \in Seq(Byte) /\ y \in Seq(Byte)
  <2> HIDE DEF x, y, u
  <2> QED
    BY <1>1, <1>2, EncodeType, BodyType
<1>4. PythonDecodeComponent(s) = DecodeComponent(u) /\ PythonDecodeBody(s) = DecodeBody(u)
  BY PythonDecodesText
<1> HIDE DEF u, x, y
<1>5. Typed(PythonDecodeComponent(s)) /\ Typed(PythonDecodeBody(s))
  BY <1>1, <1>4, ComponentOutcomes, BodyOutcomes, OutcomesTyped
<1>6. /\ Typed(Failure("INVALID_ENCODING")) /\ Typed(Failure("UnicodeEncodeError"))
      /\ Typed(Success(x)) /\ Typed(Success(y)) /\ Typed(LabelOf(y, x, marker))
  <2>1. "INVALID_ENCODING" \in Statuses /\ "UnicodeEncodeError" \in Statuses
    BY DEF Statuses
  <2> QED
    BY <1>3, <2>1, FailureTyped, SuccessTyped, LabelTyped
<1>7. Typed(PythonEncoded(s, x)) /\ Typed(PythonEncoded(s, y))
  BY <1>6 DEF PythonEncoded
<1>8. Typed(PythonEncodeProfile(s, marker))
  <2>1. PythonEncoded(s, y).status = "OK" => PythonEncoded(s, y).text = y
    BY DEF PythonEncoded, Success, Failure
  <2> QED
    BY <1>6, <1>7, <2>1 DEF PythonEncodeProfile, x, y
<1>9. Typed(PythonDecodeProfile(s, marker))
  BY <1>5, DispatchTyped DEF PythonDecodeProfile
<1> QED
  BY <1>5, <1>7, <1>8, <1>9, CalledTyped DEF PythonAnswer, x, y

\* The wrapper answers what C does, or that its buffer is too small.
LEMMA CppTyped ==
  ASSUME NEW s, Typed(CAnswer(s)), NEW a \in CppAnswers(s)
  PROVE  Typed(a) /\ (a = CAnswer(s) \/ a = Failure("BUFFER_TOO_SMALL"))
<1>1. Typed(Failure("BUFFER_TOO_SMALL"))
  BY FailureTyped DEF Statuses
<1>2. a = CAnswer(s) \/ a = Failure("BUFFER_TOO_SMALL")
  BY DEF CppAnswers, Answers
<1> QED
  BY <1>1, <1>2

-----------------------------------------------------------------------------
(* What C reads of a string.                                               *)

\* C reads bytes, and all of a string without a NUL.
LEMMA CStrFacts ==
  ASSUME NEW s \in Seq(Byte)
  PROVE  CStr(s) \in Seq(Byte) /\ (NUL \notin ToSet(s) => CStr(s) = s)
<1> DEFINE T == { i \in DOMAIN s : s[i] = NUL } \cup {Len(s) + 1}
           n == Min(T) - 1
<1>1. Len(s) \in Nat /\ DOMAIN s = 1..Len(s)
  OBVIOUS
<1>2. T \in SUBSET (1..(Len(s) + 1)) /\ T # {} /\ T \in SUBSET Nat
  BY <1>1
<1>3. CStr(s) = SubSeq(s, 1, n)
  BY DEF CStr
<1>4. Min(T) \in T /\ \A m \in T : Min(T) <= m
  <2> HIDE DEF T
  <2> QED
    BY <1>2, MinIn
<1>5. n \in 0..Len(s)
  <2> DEFINE k == Min(T)
  <2>1. k \in 1..(Len(s) + 1)
    BY <1>2, <1>4
  <2> HIDE DEF k, T
  <2>2. k - 1 \in 0..Len(s)
    BY <1>1, <2>1
  <2> QED
    BY <2>2 DEF k
<1>6. NUL \notin ToSet(s) => n = Len(s)
  <2> HAVE NUL \notin ToSet(s)
  <2>1. { i \in DOMAIN s : s[i] = NUL } = {}
    BY DEF ToSet
  <2>2. T = {Len(s) + 1}
    BY <2>1
  <2>3. Min(T) = Len(s) + 1
    BY <1>4, <2>2
  <2> DEFINE k == Min(T)
  <2>4. k = Len(s) + 1
    BY <2>3
  <2> HIDE DEF k, T
  <2>5. k - 1 = Len(s)
    BY <1>1, <2>4
  <2> QED
    BY <2>5 DEF k
<1> HIDE DEF n
<1>7. n \in Int /\ n <= Len(s) /\ 1 \in Nat \ {0} /\ n \in Nat
  BY <1>1, <1>5
<1>8. /\ SubSeq(s, 1, n) \in Seq(Byte)
      /\ Len(SubSeq(s, 1, n)) = IF 1 <= n THEN (n - 1) + 1 ELSE 0
      /\ \A j \in 1..((n - 1) + 1) : SubSeq(s, 1, n)[j] = s[(1 + j) - 1]
  BY <1>7, SubSeqType
<1>9. ASSUME n = Len(s) PROVE SubSeq(s, 1, n) = s
  <2> DEFINE z == SubSeq(s, 1, n)
  <2>1. z \in Seq(Byte) /\ Len(z) = (IF 1 <= n THEN (n - 1) + 1 ELSE 0)
        /\ \A j \in 1..((n - 1) + 1) : z[j] = s[(1 + j) - 1]
    BY <1>8
  <2> HIDE DEF z
  <2>2. Len(z) = Len(s)
    BY <1>7, <1>9, <2>1
  <2>3. ASSUME NEW j \in 1..Len(s) PROVE z[j] = s[j]
    <3>1. j \in 1..((n - 1) + 1) /\ (1 + j) - 1 = j
      BY <1>7, <1>9
    <3>2. z[j] = s[(1 + j) - 1]
      BY <2>1, <3>1
    <3> QED
      BY <3>1, <3>2
  <2>4. z = s
    BY <2>1, <2>2, <2>3, SeqEqual
  <2> QED
    BY <2>4 DEF z
<1> QED
  BY <1>3, <1>6, <1>8, <1>9

\* UTF-8 of a text without U+0000 holds no NUL.
LEMMA NoNul ==
  ASSUME NEW t \in Seq(CodePoint), NUL \notin ToSet(t)
  PROVE  NUL \notin ToSet(Utf8(t))
<1> DEFINE Free(s) == \A j \in 1..Len(s) : s[j] # NUL
           S == {s \in Seq(CodePoint) : Free(s) => Free(Utf8(s))}
<1>1. <<>> \in S
  <2>1. <<>> \in Seq(CodePoint) /\ Utf8(<<>>) = <<>>
    <3>1. HYPHEN \in CodePoint
      BY HyphenChar
    <3> DEFINE e == <<>>
    <3>2. e \in Seq(CodePoint)
      OBVIOUS
    <3> HIDE DEF e
    <3>3. Utf8(<<>>) = <<>>
      BY <3>1, <3>2, Utf8Cons
    <3> QED
      BY <3>2, <3>3 DEF e
  <2> QED
    BY <2>1
<1>2. ASSUME NEW s \in Seq(CodePoint), NEW c \in CodePoint, s \in S
      PROVE  <<c>> \o s \in S
  <2> DEFINE d == <<c>> \o s
             x == Utf8Char(c)
             y == Utf8(s)
  <2>1. d \in Seq(CodePoint) /\ Len(d) = 1 + Len(s) /\ d[1] = c
        /\ \A j \in 1..Len(s) : j + 1 \in 1..Len(d) /\ d[j + 1] = s[j]
    OBVIOUS
  <2>2. Utf8(d) = x \o y /\ x \in Seq(Byte) /\ y \in Seq(Byte)
    BY Utf8Cons, Utf8Type, CharFacts
  <2>3. c \in Nat
    BY CharNat
  <2>4. c # NUL => Free(x)
    <3>1. CASE c <= 127
      <4>1. x = <<c>>
        BY <3>1, CharFacts
      <4> HIDE DEF x
      <4>2. Len(x) = 1 /\ x[1] = c
        BY <4>1
      <4> QED
        BY <4>2
    <3>2. CASE c > 127
      <4>1. \A j \in 1..Len(x) : x[j] > 127
        BY <3>2, CharFacts
      <4> HIDE DEF x
      <4>2. \A j \in 1..Len(x) : x[j] \in Byte
        BY <2>2
      <4> QED
        BY <4>1, <4>2 DEF NUL, Byte
    <3> QED
      BY <2>3, <3>1, <3>2
  <2> HIDE DEF d, x, y
  <2>5. ASSUME Free(d) PROVE Free(x \o y)
    <3>1. 1 \in 1..Len(d) /\ c # NUL
      BY <2>1, <2>5
    <3>2. Free(s)
      BY <2>1, <2>5
    <3>3. Free(x) /\ Free(y)
      BY <1>2, <2>4, <3>1, <3>2 DEF y
    <3>4. /\ Len(x \o y) = Len(x) + Len(y) /\ Len(x) \in Nat /\ Len(y) \in Nat
          /\ \A j \in 1..(Len(x) + Len(y)) : (x \o y)[j] = IF j <= Len(x) THEN x[j] ELSE y[j - Len(x)]
      BY <2>2, ConcatProperties
    <3>5. ASSUME NEW j \in 1..(Len(x) + Len(y)) PROVE (x \o y)[j] # NUL
      <4>1. CASE j <= Len(x)
        <5>1. j \in 1..Len(x)
          BY <3>4, <4>1
        <5> QED
          BY <3>3, <3>4, <4>1, <5>1
      <4>2. CASE ~(j <= Len(x))
        <5>1. j - Len(x) \in 1..Len(y)
          BY <3>4, <4>2
        <5> QED
          BY <3>3, <3>4, <4>2, <5>1
      <4> QED
        BY <4>1, <4>2
    <3> QED
      BY <3>4, <3>5
  <2> QED
    BY <2>1, <2>2, <2>5 DEF d
<1>3. Seq(CodePoint) \subseteq S
  <2> HIDE DEF S
  <2> QED
    BY <1>1, <1>2, ConsInduction
<1>4. Free(t)
  BY DEF ToSet
<1>5. Free(Utf8(t)) /\ Utf8(t) \in Seq(Byte)
  BY <1>3, <1>4, Utf8Type
<1> QED
  BY <1>5 DEF ToSet

-----------------------------------------------------------------------------
(* Types.                                                                  *)

CallInv ==
  /\ fn \in {"component", "body", "profile"} /\ dir \in {"encode", "decode"}
  /\ arg \in Seq(CodePoint) /\ origin \in Seq(CodePoint) /\ coded \in Seq(Byte)
  /\ marker \in Markers \cup {<<>>} /\ webCrypto \in BOOLEAN /\ round \in 0..2

TypeInv == CallInv /\ AskedInv

\* A marker is bytes, also where there is none.
LEMMA MarkerBytes ==
  ASSUME CallInv
  PROVE  marker \in Seq(Byte) /\ marker \in Seq(Nat)
<1>1. <<>> \in Seq(Byte)
  OBVIOUS
<1>2. marker \in Seq(Byte)
  BY <1>1, CallsAssumption DEF CallInv
<1> QED
  BY <1>2, AsciiIsText

\* what any port answers
LEMMA PossibleTyped ==
  ASSUME DigestIsDigest, CallInv, NEW p \in Port, NEW a \in Possible(p)
  PROVE  Typed(a)
<1>1. marker \in Seq(Byte) /\ arg \in Seq(CodePoint)
  BY MarkerBytes DEF CallInv
<1>2. Utf8(arg) \in Seq(Byte) /\ Utf16(arg) \in Seq(Unit) /\ CStr(Utf8(arg)) \in Seq(Byte)
  BY <1>1, Utf8Type, Utf16Type, CStrFacts
<1>3. /\ Typed(CAnswer(Utf8(arg))) /\ Typed(WholeStringAnswer(Utf8(arg)))
      /\ Typed(CAnswer(CStr(Utf8(arg))))
  BY <1>1, <1>2, BytesTyped
<1>4. Typed(JsAnswer(Utf16(arg))) /\ Typed(JavaAnswer(Utf16(arg))) /\ Typed(DotnetAnswer(Utf16(arg)))
  BY <1>1, <1>2, UnitsTyped
<1>5. Typed(PythonAnswer(arg))
  BY <1>1, PointsTyped
<1>6. \A x \in CppAnswers(CStr(Utf8(arg))) : Typed(x)
  BY <1>3, CppTyped
<1> QED
  BY <1>3, <1>4, <1>5, <1>6 DEF Possible, Port

\* The first call is of these types.
LEMMA TypeInit == Init => TypeInv
<1> SUFFICES ASSUME Init PROVE TypeInv
  OBVIOUS
<1>1. /\ fn \in {"component", "body", "profile"} /\ dir \in {"encode", "decode"}
      /\ marker \in Markers \cup {<<>>} /\ webCrypto \in BOOLEAN /\ round \in 0..2
  <2>1. fn \in {"component", "body", "profile"} /\ dir \in {"encode", "decode"}
    BY DEF Init
  <2>2. /\ (IF fn = "profile" THEN Markers ELSE {<<>>}) \subseteq Markers \cup {<<>>}
        /\ (IF fn = "profile" /\ dir = "encode" THEN BOOLEAN ELSE {TRUE}) \subseteq BOOLEAN
    OBVIOUS
  <2>3. marker \in Markers \cup {<<>>} /\ webCrypto \in BOOLEAN
    BY <2>2 DEF Init
  <2>4. round \in 0..2
    BY DEF Init
  <2> QED
    BY <2>1, <2>3, <2>4
<1>2. arg \in Seq(CodePoint) /\ origin \in Seq(CodePoint) /\ coded \in Seq(Byte)
  BY CallsAssumption DEF Init
<1>3. AskedInv
  BY AskedInit DEF Init, Nobody
<1> QED
  BY <1>1, <1>2, <1>3 DEF TypeInv, CallInv

\* The next call is made with what a port answered.
LEMMA ForwardCall ==
  ASSUME DigestIsDigest, TypeInv, Forward
  PROVE  CallInv'
<1>1. PICK p \in DOMAIN answers :
        /\ answers[p].status = "OK"
        /\ arg' = IF dir = "encode" THEN answers[p].text ELSE FromUtf8(answers[p].text)
        /\ coded' = IF dir = "encode" THEN answers[p].text ELSE coded
  BY DEF Forward
<1>2. answers[p].text \in Seq(Byte)
  <2>1. p \in Port /\ answers[p] \in Possible(p) /\ CallInv
    BY DEF TypeInv, AskedInv
  <2> QED
    BY <2>1, PossibleTyped DEF Typed
<1>3. FromUtf8(answers[p].text) \in Seq(CodePoint) /\ answers[p].text \in Seq(CodePoint)
  BY <1>2, FromUtf8Type, AsciiIsText
<1>4. arg' \in Seq(CodePoint) /\ coded' \in Seq(Byte)
  BY <1>1, <1>2, <1>3 DEF TypeInv, CallInv
<1>5. /\ dir' \in {"encode", "decode"} /\ round' \in 0..2
      /\ UNCHANGED <<fn, marker, webCrypto, origin>>
  BY DEF Forward
<1> QED
  BY <1>4, <1>5 DEF TypeInv, CallInv

\* And so is every later one.
LEMMA TypeStep == DigestIsDigest => (TypeInv /\ [Next]_vars => TypeInv')
<1> SUFFICES ASSUME DigestIsDigest, TypeInv, [Next]_vars PROVE TypeInv'
  OBVIOUS
<1>1. AskedInv'
  BY AskedStep DEF TypeInv
<1>2. CASE Forward
  BY <1>1, <1>2, ForwardCall DEF TypeInv
<1>3. CASE (\E p \in Port : Ask(p, Possible(p))) \/ UNCHANGED vars
  <2>1. UNCHANGED <<call, origin, coded, round>>
    BY <1>3 DEF Ask, vars
  <2> QED
    BY <1>1, <2>1 DEF TypeInv, CallInv, call
<1> QED
  BY <1>2, <1>3, StepIs

\* The inductive invariant: what the call is made with, and what was answered.
LEMMA TypeInvariance ==
  ASSUME DigestIsDigest
  PROVE  Spec => []TypeInv
<1>1. TypeInv /\ [Next]_vars => TypeInv'
  BY TypeStep
<1> QED
  BY <1>1, TypeInit, PTL DEF Spec

\* It implies TypeOK.
LEMMA TypeInvImplies ==
  ASSUME DigestIsDigest, TypeInv
  PROVE  TypeOK
<1>1. CallInv /\ AskedInv
  BY DEF TypeInv
<1>2. Seq(CodePoint) \subseteq Seq(Nat)
  BY AsciiIsText
<1>3. \A p \in DOMAIN answers : Typed(answers[p])
  BY <1>1, PossibleTyped DEF AskedInv
<1> QED
  BY <1>1, <1>2, <1>3 DEF TypeOK, CallInv, AskedInv, Typed

\* Every port answers with bytes or with one of the errors and no text, and every call
\* made with such an answer is one the ports can be given (TypeOK).
THEOREM TypesHold ==
  ASSUME DigestIsDigest
  PROVE  Spec => []TypeOK
<1>1. TypeInv => TypeOK
  BY TypeInvImplies
<1> QED
  BY <1>1, TypeInvariance, PTL

-----------------------------------------------------------------------------
(* Encoders.                                                               *)

\* what encode_profile answers for a text, given as UTF-8
LabelAnswer(s) ==
  IF ValidMarker(marker) THEN LabelOf(EncodeBody(s), EncodeComponent(s), marker)
  ELSE Failure("INVALID_ENCODING")

\* Of six answers, the one of the encoder that was called.
LEMMA CalledEncode ==
  ASSUME dir = "encode", NEW a1, NEW a2, NEW a3, NEW a4, NEW a5, NEW a6
  PROVE  Called(a1, a2, a3, a4, a5, a6) =
           IF fn = "component" THEN a1 ELSE IF fn = "body" THEN a2 ELSE a3
  BY DEF Called

\* The same for decoders.
LEMMA CalledDecode ==
  ASSUME dir # "encode", NEW a1, NEW a2, NEW a3, NEW a4, NEW a5, NEW a6
  PROVE  Called(a1, a2, a3, a4, a5, a6) =
           IF fn = "component" THEN a4 ELSE IF fn = "body" THEN a5 ELSE a6
  BY DEF Called

\* an answer that was to be a hash label, on a platform that cannot hash
NoHash(g) ==
  /\ dir = "encode" /\ fn = "profile" /\ ~webCrypto
  /\ g.status = "OK" /\ IsPrefix(marker, g.text)

\* A marker is no prefix of the empty text.
LEMMA MarkerNotEmpty ==
  ASSUME NEW m \in Seq(Nat), ValidMarker(m)
  PROVE  ~IsPrefix(m, <<>>)
<1>1. Len(m) >= 3
  BY LengthsAssumption DEF ValidMarker
<1> DEFINE e == <<>>
<1>2. e \in Seq(Nat) /\ Len(e) = 0
  OBVIOUS
<1> HIDE DEF e
<1>3. IsPrefix(m, e) => Len(m) <= Len(e)
  BY <1>2, PrefixAt
<1> QED
  BY <1>1, <1>2, <1>3 DEF e

\* Every port encodes a text as Go does, but for JavaScript without Web Crypto.
LEMMA TextAnswers ==
  ASSUME DigestIsDigest, CallInv, dir = "encode", arg \in Seq(Scalar)
  PROVE  LET g == WholeStringAnswer(Utf8(arg))
         IN  /\ CAnswer(Utf8(arg)) = g /\ PythonAnswer(arg) = g
             /\ JavaAnswer(Utf16(arg)) = g /\ DotnetAnswer(Utf16(arg)) = g
             /\ JsAnswer(Utf16(arg)) = g \/ (NoHash(g) /\ JsAnswer(Utf16(arg)).status # "OK")
<1> DEFINE s == Utf8(arg)
           u == Utf16(arg)
           B == EncodeBody(s)
           K == EncodeComponent(s)
           L == LabelAnswer(s)
           g == IF fn = "component" THEN Success(K) ELSE IF fn = "body" THEN Success(B) ELSE L
<1>1. WholeStringAnswer(s) = g
  BY CalledEncode DEF WholeStringAnswer, LabelAnswer
<1>2. arg \in Seq(CodePoint) /\ s \in Seq(Byte) /\ marker \in Seq(Byte) /\ marker \in Seq(Nat)
  BY MarkerBytes, Utf8Type DEF CallInv
<1>3. B \in Seq(Byte) /\ K \in Seq(Byte)
  BY <1>2, BodyType, EncodeType
<1>4. CAnswer(s) = g
  <2>1. Utf8Validate(s)
    BY Utf8RoundTrip
  <2>2. /\ Encoded(s, K) = Success(K) /\ Encoded(s, B) = Success(B)
        /\ EncodeProfile(s, marker) = L
    BY <2>1 DEF Encoded, EncodeProfile, LabelAnswer
  <2> QED
    BY <2>2, CalledEncode DEF CAnswer
<1>5. PythonAnswer(arg) = g
  <2>1. PythonEncodeComponent(arg) = K /\ PythonEncodeBody(arg) = B
    BY <1>2, PythonEncodesText
  <2>2. ~ \E j \in DOMAIN arg : arg[j] \in Surrogate
    BY DEF Scalar
  <2>3. \A x : PythonEncoded(arg, x) = Success(x)
    BY <2>2 DEF PythonEncoded
  <2>4. Success(B).status = "OK" /\ Success(B).text = B
    BY DEF Success
  <2>5. PythonEncodeProfile(arg, marker) = L
    BY <2>1, <2>3, <2>4 DEF PythonEncodeProfile, LabelAnswer
  <2> QED
    BY <2>1, <2>3, <2>5, CalledEncode DEF PythonAnswer
<1>6. Lowercase(arg) \in Seq(Scalar) /\ EncodeComponent(Utf8(Lowercase(arg))) = K
      /\ EncodeBody(Utf8(Lowercase(arg))) = B
  BY <1>2, FoldedText, FoldedEncodes
<1>7. JavaAnswer(u) = g
  <2>1. JavaEncodeComponent(u) = K /\ JavaEncodeBody(u) = B
    BY JavaEncodesText
  <2>2. /\ JavaCanonical(u) = Utf16(Lowercase(arg))
        /\ JavaEncodeComponent(Utf16(Lowercase(arg))) = K
        /\ JavaEncodeBody(Utf16(Lowercase(arg))) = B
    BY <1>6, JavaEncodesText, CanonicalOfText
  <2>3. JavaEncodeProfile(u, marker) = L
    BY <2>2 DEF JavaEncodeProfile, LabelAnswer
  <2> QED
    BY <2>1, <2>3, CalledEncode DEF JavaAnswer
<1>8. DotnetAnswer(u) = g
  <2>1. DotnetEncodeComponent(u) = K /\ DotnetEncodeBody(u) = B
    BY DotnetEncodesText
  <2>2. /\ DotnetCanonical(u) = Utf16(Lowercase(arg))
        /\ DotnetEncodeComponent(Utf16(Lowercase(arg))) = K
        /\ DotnetEncodeBody(Utf16(Lowercase(arg))) = B
    BY <1>6, DotnetEncodesText, CanonicalOfText
  <2>3. DotnetEncodeProfile(u, marker) = L
    BY <2>2 DEF DotnetEncodeProfile, LabelAnswer
  <2> QED
    BY <2>1, <2>3, CalledEncode DEF DotnetAnswer
<1>9. JsAnswer(u) = g \/ (NoHash(g) /\ JsAnswer(u).status # "OK")
  <2>1. JsEncodeComponent(u) = K /\ JsEncodeBody(u) = B
    BY JsEncodesText
  <2> DEFINE l == LabelOf(B, K, marker)
  <2>2. JsEncodeProfile(u, marker, webCrypto) =
          IF ~ValidMarker(marker) THEN Failure("INVALID_ENCODING")
          ELSE IF IsPrefix(marker, l.text) /\ ~webCrypto THEN Failure("INVALID_ENCODING")
          ELSE l
    BY <2>1 DEF JsEncodeProfile
  <2>3. JsAnswer(u) = IF fn = "component" THEN Success(K) ELSE IF fn = "body" THEN Success(B)
                      ELSE JsEncodeProfile(u, marker, webCrypto)
    BY <2>1, CalledEncode DEF JsAnswer
  <2>4. CASE fn # "profile" \/ ~ValidMarker(marker) \/ ~IsPrefix(marker, l.text) \/ webCrypto
    <3>1. CASE fn = "component" \/ fn = "body"
      BY <2>3, <3>1
    <3>2. CASE fn = "profile" /\ (~ValidMarker(marker) \/ ~IsPrefix(marker, l.text) \/ webCrypto)
      BY <2>2, <2>3, <3>2 DEF LabelAnswer
    <3> QED
      BY <2>4, <3>1, <3>2 DEF CallInv
  <2>5. CASE fn = "profile" /\ ValidMarker(marker) /\ IsPrefix(marker, l.text) /\ ~webCrypto
    <3>1. g = l
      BY <2>5 DEF LabelAnswer
    <3>2. Typed(l)
      BY <1>2, <1>3, LabelTyped
    <3>3. l.status = "OK"
      BY <1>2, <2>5, <3>2, MarkerNotEmpty DEF Typed
    <3>4. JsAnswer(u) = Failure("INVALID_ENCODING")
      BY <2>2, <2>3, <2>5
    <3>5. JsAnswer(u).status # "OK"
      BY <3>4 DEF Failure
    <3> QED
      BY <2>5, <3>1, <3>3, <3>5 DEF NoHash
  <2> QED
    BY <2>4, <2>5
<1> HIDE DEF g
<1> QED
  BY <1>1, <1>4, <1>5, <1>7, <1>8, <1>9

-----------------------------------------------------------------------------
(* Decoders.                                                               *)

\* a label that is refused, and whose length may be looked at before or after the rest
Undecided(t, m) ==
  ValidMarker(m) /\ ~IsPrefix(m, t) /\ (BadEdges(t) \/ Foreign(t))

\* the answer of a port that does not find such a label too long
Refusal(t) == IF BadEdges(t) THEN Failure("INVALID_ENCODING") ELSE DecodeBody(Utf8(t))

\* UTF-8 of a text is as foreign as the text.
LEMMA Utf8Foreign ==
  ASSUME NEW t \in Seq(CodePoint)
  PROVE  \/ t \in Seq(Ascii) /\ ~Foreign(t) /\ Utf8(t) = t
         \/ Foreign(t) /\ Foreign(Utf8(t)) /\ t \notin Seq(Ascii)
<1>1. Faithful(Utf8Table) /\ Utf8(t) = Transcoded(Utf8Table, t)
  BY Utf8TableType, Utf8Def
<1> QED
  BY <1>1, AsciiOrForeign

\* Such a label is refused by either rule.
LEMMA RefusalFails ==
  ASSUME NEW t \in Seq(CodePoint), NEW m, Undecided(t, m)
  PROVE  Refusal(t).status \in {"INVALID_ENCODING", "INVALID_ESCAPE", "INVALID_UTF8"}
<1>1. CASE BadEdges(t)
  BY <1>1 DEF Refusal, Failure
<1>2. CASE ~BadEdges(t)
  <2>1. Foreign(Utf8(t)) /\ Utf8(t) \in Seq(Byte)
    BY <1>2, Utf8Foreign, Utf8Type DEF Undecided
  <2>2. DecodeBody(Utf8(t)) \in Outcomes /\ DecodeBody(Utf8(t)).status # "OK"
    BY <2>1, BodyOutcomes, BodyShorter
  <2>3. DecodeBody(Utf8(t)).status \in {"OK", "INVALID_ESCAPE", "INVALID_UTF8"}
    BY <2>2, OutcomeFacts
  <2> QED
    BY <1>2, <2>2, <2>3 DEF Refusal
<1> QED
  BY <1>1, <1>2

\* an answer that may, on a platform that drops byte order marks, lack one
Near(drops, j, r) == IF drops THEN Dropped(j, r) ELSE j = r

\* the two orders in which a port looks at a label
InOrder(x, r, d) == x = EdgesThenLength(r, d) \/ x = LengthThenEdges(r, d)

\* The two orders differ for a label that is too long and has a hyphen at an edge.
LEMMA OrderFacts ==
  ASSUME NEW x, NEW r \in Seq(Nat), NEW d, InOrder(x, r, d)
  PROVE  /\ x \in {Failure("LABEL_TOO_LONG"), IF BadEdges(r) THEN Failure("INVALID_ENCODING") ELSE d}
         /\ ~BadEdges(r) => x = IF Len(r) > MaxLabelLength THEN Failure("LABEL_TOO_LONG") ELSE d
  BY DEF InOrder, EdgesThenLength, LengthThenEdges

\* What any port answers for a label, in its own view r of it, when the body decodes
\* to d, which is what Go decodes or that without a byte order mark.
LEMMA ProfileDecoded ==
  ASSUME NEW t \in Seq(CodePoint), NEW r, View(r, t), NEW m \in Seq(Byte),
         NEW drops, NEW d, Near(drops, d, DecodeBody(Utf8(t))), NEW x, InOrder(x, r, d)
  PROVE  LET a == Dispatched(r, m, x)
         IN  \/ Near(drops, a, DecodeProfile(Utf8(t), m))
             \/ Undecided(t, m) /\ a \in {Failure("LABEL_TOO_LONG"), Refusal(t)}
<1> DEFINE s == Utf8(t)
           b == DecodeBody(s)
           a == Dispatched(r, m, x)
           g == DecodeProfile(s, m)
           y == LengthThenEdges(s, b)
<1>1. g = Dispatched(s, m, y) /\ InOrder(y, s, b)
  BY DEF DecodeProfile, InOrder
<1>2. s \in Seq(Byte) /\ s \in Seq(Nat) /\ View(s, t)
  BY Utf8Type, AsciiIsText DEF View
<1>3. CASE ~ValidMarker(m)
  BY <1>1, <1>3 DEF Dispatched, Dropped, Near
<1>4. CASE ValidMarker(m) /\ IsPrefix(m, t)
  <2>1. m \in Seq(Ascii)
    BY <1>4, MarkerIsAscii
  <2>2. /\ IsPrefix(m, r) /\ HashLabelError(r, m) = HashLabelError(t, m)
        /\ IsPrefix(m, s) /\ HashLabelError(s, m) = HashLabelError(t, m)
    BY <1>2, <1>4, <2>1, ViewFacts
  <2> QED
    BY <1>1, <1>4, <2>2 DEF Dispatched, Dropped, Near
<1>5. CASE ValidMarker(m) /\ ~IsPrefix(m, t)
  <2>1. m \in Seq(Ascii)
    BY <1>5, MarkerIsAscii
  <2>2. ~IsPrefix(m, r) /\ ~IsPrefix(m, s) /\ r \in Seq(Nat)
    BY <1>2, <1>5, <2>1, ViewFacts
  <2>3. a = x /\ g = y
    BY <1>1, <1>5, <2>2 DEF Dispatched
  <2>4. BadEdges(r) <=> BadEdges(t)
    BY ViewFacts
  <2>5. BadEdges(s) <=> BadEdges(t)
    BY <1>2, ViewFacts
  <2>6. CASE BadEdges(t)
    <3>1. x \in {Failure("LABEL_TOO_LONG"), Failure("INVALID_ENCODING")}
      BY <2>2, <2>4, <2>6, OrderFacts
    <3> QED
      BY <1>5, <2>3, <2>6, <3>1 DEF Undecided, Refusal
  <2>7. CASE ~BadEdges(t) /\ Foreign(t)
    <3>1. Foreign(s)
      BY <2>7, Utf8Foreign
    <3>2. b.status # "OK"
      BY <1>2, <3>1, BodyShorter
    <3>3. d = b
      BY <3>2 DEF Dropped, Near
    <3>4. x \in {Failure("LABEL_TOO_LONG"), b}
      BY <2>2, <2>4, <2>7, <3>3, OrderFacts
    <3> QED
      BY <1>5, <2>3, <2>7, <3>4 DEF Undecided, Refusal
  <2>8. CASE ~BadEdges(t) /\ ~Foreign(t)
    <3>1. r = t /\ s = t
      BY <1>2, <2>8, Utf8Foreign, ViewFacts
    <3>2. x = IF Len(t) > MaxLabelLength THEN Failure("LABEL_TOO_LONG") ELSE d
      BY <2>2, <2>8, <3>1, OrderFacts
    <3>3. y = IF Len(t) > MaxLabelLength THEN Failure("LABEL_TOO_LONG") ELSE b
      BY <1>1, <1>2, <2>8, <3>1, OrderFacts
    <3>4. Near(drops, x, y)
      BY <3>2, <3>3 DEF Dropped, Near
    <3> QED
      BY <2>3, <3>4
  <2> QED
    BY <2>6, <2>7, <2>8
<1> QED
  BY <1>3, <1>4, <1>5

\* what any port may answer when it decodes
Decoded(drops, a) ==
  \/ Near(drops, a, WholeStringAnswer(Utf8(arg)))
  \/ /\ fn = "profile" /\ Undecided(arg, marker)
     /\ a \in {Failure("LABEL_TOO_LONG"), Refusal(arg)}

\* An answer is near itself.
LEMMA SameNear == \A x : Near(FALSE, x, x)
  BY DEF Near

\* A port's three decoders, in its own view of the label.
LEMMA DecodedBy ==
  ASSUME CallInv, dir # "encode", NEW r, View(r, arg), NEW c, NEW d, NEW x, NEW a, NEW drops,
         Near(drops, c, DecodeComponent(Utf8(arg))), Near(drops, d, DecodeBody(Utf8(arg))),
         InOrder(x, r, d),
         a = IF fn = "component" THEN c ELSE IF fn = "body" THEN d ELSE Dispatched(r, marker, x)
  PROVE  Decoded(drops, a)
<1>1. arg \in Seq(CodePoint) /\ marker \in Seq(Byte) /\ fn \in {"component", "body", "profile"}
  BY MarkerBytes DEF CallInv
<1>2. WholeStringAnswer(Utf8(arg)) =
        IF fn = "component" THEN DecodeComponent(Utf8(arg))
        ELSE IF fn = "body" THEN DecodeBody(Utf8(arg)) ELSE DecodeProfile(Utf8(arg), marker)
  BY CalledDecode DEF WholeStringAnswer
<1>3. CASE fn = "component" \/ fn = "body"
  BY <1>2, <1>3 DEF Decoded
<1>4. CASE fn = "profile"
  <2>1. a = Dispatched(r, marker, x) /\ WholeStringAnswer(Utf8(arg)) = DecodeProfile(Utf8(arg), marker)
    BY <1>2, <1>4
  <2> QED
    BY <1>1, <1>4, <2>1, ProfileDecoded DEF Decoded
<1> QED
  BY <1>1, <1>3, <1>4

\* C, JavaScript, Java and Python decode what Go does, and so does .NET what is ASCII.
LEMMA LabelAnswers ==
  ASSUME CallInv, dir # "encode"
  PROVE  /\ CAnswer(Utf8(arg)) = WholeStringAnswer(Utf8(arg))
         /\ Decoded(TRUE, JsAnswer(Utf16(arg))) /\ Decoded(FALSE, JavaAnswer(Utf16(arg)))
         /\ Decoded(FALSE, PythonAnswer(arg))
         /\ arg \in Seq(Ascii) => Decoded(FALSE, DotnetAnswer(Utf16(arg)))
<1> DEFINE s == Utf8(arg)
           u == Utf16(arg)
<1>1. arg \in Seq(CodePoint) /\ u \in Seq(Nat) /\ View(u, arg) /\ View(arg, arg)
  BY ViewsDecode DEF CallInv, View
<1>2. CAnswer(s) = WholeStringAnswer(s)
  BY CalledDecode DEF CAnswer, WholeStringAnswer
<1>3. Decoded(TRUE, JsAnswer(u))
  <2>1. Near(TRUE, JsDecodeComponent(u), DecodeComponent(s)) /\ Near(TRUE, JsDecodeBody(u), DecodeBody(s))
    BY <1>1, JsDecodesText DEF Near
  <2> DEFINE x == EdgesThenLength(u, JsDecodeBody(u))
  <2>2. InOrder(x, u, JsDecodeBody(u))
    BY DEF InOrder
  <2>3. JsAnswer(u) = IF fn = "component" THEN JsDecodeComponent(u)
                      ELSE IF fn = "body" THEN JsDecodeBody(u) ELSE Dispatched(u, marker, x)
    BY CalledDecode DEF JsAnswer, JsDecodeProfile
  <2> HIDE DEF x
  <2> QED
    BY <1>1, <2>1, <2>2, <2>3, DecodedBy
<1>4. Decoded(FALSE, JavaAnswer(u))
  <2>1. Near(FALSE, JavaDecodeComponent(u), DecodeComponent(s)) /\ Near(FALSE, JavaDecodeBody(u), DecodeBody(s))
    BY <1>1, JavaDecodesText, SameNear
  <2> DEFINE x == LengthThenEdges(u, JavaDecodeBody(u))
  <2>2. InOrder(x, u, JavaDecodeBody(u))
    BY DEF InOrder
  <2>3. JavaAnswer(u) = IF fn = "component" THEN JavaDecodeComponent(u)
                        ELSE IF fn = "body" THEN JavaDecodeBody(u) ELSE Dispatched(u, marker, x)
    BY CalledDecode DEF JavaAnswer, JavaDecodeProfile
  <2> HIDE DEF x
  <2> QED
    BY <1>1, <2>1, <2>2, <2>3, DecodedBy
<1>5. Decoded(FALSE, PythonAnswer(arg))
  <2>1. /\ Near(FALSE, PythonDecodeComponent(arg), DecodeComponent(s))
        /\ Near(FALSE, PythonDecodeBody(arg), DecodeBody(s))
    BY <1>1, PythonDecodesText, SameNear
  <2> DEFINE x == EdgesThenLength(arg, PythonDecodeBody(arg))
  <2>2. InOrder(x, arg, PythonDecodeBody(arg))
    BY DEF InOrder
  <2>3. PythonAnswer(arg) =
          IF fn = "component" THEN PythonDecodeComponent(arg)
          ELSE IF fn = "body" THEN PythonDecodeBody(arg) ELSE Dispatched(arg, marker, x)
    BY CalledDecode DEF PythonAnswer, PythonDecodeProfile
  <2> HIDE DEF x
  <2> QED
    BY <1>1, <2>1, <2>2, <2>3, DecodedBy
<1>6. ASSUME arg \in Seq(Ascii) PROVE Decoded(FALSE, DotnetAnswer(u))
  <2>1. u = arg /\ s = arg
    BY <1>1, <1>6, ViewFacts, Utf8Foreign
  <2>2. /\ Near(FALSE, DotnetDecodeComponent(u), DecodeComponent(s))
        /\ Near(FALSE, DotnetDecodeBody(u), DecodeBody(s))
    BY <1>1, <1>6, <2>1, DotnetDecodes, SameNear
  <2> DEFINE x == LengthThenEdges(u, DotnetDecodeBody(u))
  <2>3. InOrder(x, u, DotnetDecodeBody(u))
    BY DEF InOrder
  <2>4. DotnetAnswer(u) = IF fn = "component" THEN DotnetDecodeComponent(u)
                          ELSE IF fn = "body" THEN DotnetDecodeBody(u) ELSE Dispatched(u, marker, x)
    BY CalledDecode DEF DotnetAnswer, DotnetDecodeProfile
  <2> HIDE DEF x
  <2> QED
    BY <1>1, <2>2, <2>3, <2>4, DecodedBy
<1> QED
  BY <1>2, <1>3, <1>4, <1>5, <1>6

-----------------------------------------------------------------------------
(* The C++ wrapper, whose buffers hold every label.                        *)

\* A label, and what is decoded from one, is no longer than a label may be.
LEMMA LabelLength ==
  ASSUME DigestIsDigest, CallInv, fn = "profile", NEW s \in Seq(Byte), CAnswer(s).status = "OK"
  PROVE  Len(CAnswer(s).text) \in Nat /\ Len(CAnswer(s).text) <= MaxLabelLength
<1>1. marker \in Seq(Byte)
  BY MarkerBytes
<1>2. CASE dir = "encode"
  <2>1. CAnswer(s) = EncodeProfile(s, marker)
    BY <1>2, CalledEncode DEF CAnswer
  <2> DEFINE l == LabelOf(EncodeBody(s), EncodeComponent(s), marker)
  <2>2. EncodeProfile(s, marker) = IF ~ValidMarker(marker) THEN Failure("INVALID_ENCODING")
                                   ELSE IF ~Utf8Validate(s) THEN Failure("INVALID_UTF8") ELSE l
    BY DEF EncodeProfile
  <2>3. CAnswer(s) = l
    BY <2>1, <2>2 DEF Failure
  <2>4. EncodeBody(s) \in Seq(Byte) /\ EncodeComponent(s) \in Seq(Byte)
    BY BodyType, EncodeType
  <2>5. Typed(l) /\ (l.status = "OK" => Len(l.text) <= MaxLabelLength)
    BY <1>1, <2>4, LabelParts
  <2> QED
    BY <2>3, <2>5 DEF Typed
<1>3. CASE dir # "encode"
  <2> DEFINE d == LengthThenEdges(s, DecodeBody(s))
  <2>1. CAnswer(s) = Dispatched(s, marker, d)
    BY <1>3, CalledDecode DEF CAnswer, DecodeProfile
  <2> DEFINE e == HashLabelError(s, marker)
  <2>9. CAnswer(s) = IF ~ValidMarker(marker) THEN Failure("INVALID_ENCODING")
                     ELSE IF IsPrefix(marker, s) THEN Failure(e) ELSE d
    BY <2>1 DEF Dispatched
  <2> HIDE DEF d, e
  <2>11. e # "OK" /\ Failure(e).status = e /\ Failure("INVALID_ENCODING").status # "OK"
    BY DEF e, HashLabelError, Failure
  <2>2. CAnswer(s) = d
    BY <2>9, <2>11
  <2>12. d.status = "OK"
    BY <2>2
  <2>13. d = IF Len(s) > MaxLabelLength THEN Failure("LABEL_TOO_LONG")
             ELSE IF BadEdges(s) THEN Failure("INVALID_ENCODING") ELSE DecodeBody(s)
    BY DEF d, LengthThenEdges
  <2>14. Failure("LABEL_TOO_LONG").status # "OK"
    BY DEF Failure
  <2>15. ~(Len(s) > MaxLabelLength) /\ d = DecodeBody(s)
    BY <2>11, <2>12, <2>13, <2>14
  <2>3. Len(s) <= MaxLabelLength /\ d = DecodeBody(s)
    BY <2>15, LengthsAssumption
  <2>4. DecodeBody(s) \in Outcomes /\ Len(DecodeBody(s).text) <= Len(s)
    BY <2>2, <2>3, BodyOutcomes, BodyShorter
  <2>5. DecodeBody(s).text \in Seq(Byte)
    BY <2>4, OutcomeFacts
  <2> DEFINE n == Len(DecodeBody(s).text)
             k == Len(s)
  <2>6. n \in Nat /\ k \in Nat /\ MaxLabelLength \in Nat
    BY <2>5, LengthsAssumption
  <2>7. n <= k /\ k <= MaxLabelLength
    BY <2>3, <2>4
  <2> HIDE DEF n, k, d
  <2>8. n <= MaxLabelLength
    BY <2>6, <2>7
  <2> QED
    BY <2>2, <2>3, <2>6, <2>8 DEF n
<1> QED
  BY <1>2, <1>3

\* The wrapper answers as C does, but for a string that holds a NUL and for a result
\* of a Core function that does not fit.
LEMMA CppAnswersAlike ==
  ASSUME DigestIsDigest, CallInv, NUL \notin ToSet(arg), NEW a \in CppAnswers(CStr(Utf8(arg)))
  PROVE  a = CAnswer(Utf8(arg)) \/ (fn # "profile" /\ a.status = "BUFFER_TOO_SMALL")
<1> DEFINE s == Utf8(arg)
<1>1. arg \in Seq(CodePoint) /\ s \in Seq(Byte) /\ marker \in Seq(Byte)
  BY Utf8Type, MarkerBytes DEF CallInv
<1>2. CStr(s) = s
  BY <1>1, CStrFacts, NoNul
<1>3. Typed(CAnswer(s)) /\ a \in CppAnswers(s)
  BY <1>1, <1>2, BytesTyped
<1>4. a = CAnswer(s) \/ a = Failure("BUFFER_TOO_SMALL")
  BY <1>3, CppTyped
<1>5. CASE fn # "profile"
  BY <1>4, <1>5 DEF Failure
<1>6. CASE fn = "profile"
  <2> DEFINE r == CAnswer(s)
             w == IF dir = "encode" THEN LabelBufferSize ELSE BufferSize
             v == IF dir = "encode" /\ fn = "profile" THEN LabelBufferSize ELSE BufferSize
             z == IF fn = "profile" THEN 0
                  ELSE IF dir = "encode" THEN 3 * Len(s) + 1 ELSE Len(s) + 1
  <2>1. w \in Nat /\ w > MaxLabelLength /\ MaxLabelLength \in Nat
    BY BuffersAssumption, LengthsAssumption
  <2>2. a \in Answers(r, v, z)
    BY <1>3 DEF CppAnswers
  <2>3. v = w /\ z = 0
    BY <1>6
  <2>4. a \in Answers(r, w, 0)
    BY <2>2, <2>3
  <2> HIDE DEF w, v, z
  <2>5. CASE r.status = "OK"
    <3>1. Len(r.text) \in Nat /\ Len(r.text) <= MaxLabelLength
      BY <1>1, <1>6, <2>5, LabelLength
    <3>2. Len(r.text) < w
      BY <2>1, <3>1
    <3> QED
      BY <2>4, <2>5, <3>2 DEF Answers
  <2>6. CASE r.status # "OK"
    <3>1. ~(w < 0)
      BY <2>1
    <3> QED
      BY <2>4, <2>6, <3>1 DEF Answers
  <2> QED
    BY <2>5, <2>6
<1> QED
  BY <1>5, <1>6

-----------------------------------------------------------------------------
(* Agreement.                                                              *)

\* what a port may answer instead of what Go does
Instead(p, a) ==
  LET g == WholeStringAnswer(Utf8(arg)) IN
  \/ p = "cpp" /\ NUL \in ToSet(arg)
  \/ p = "cpp" /\ fn # "profile" /\ a.status = "BUFFER_TOO_SMALL"
  \/ p = "dotnet" /\ dir = "decode" /\ \E c \in ToSet(arg) : c > 127
  \/ p = "js" /\ dir = "decode" /\ g.status = "OK" /\ Mark \in ToSet(FromUtf8(g.text))
  \/ p = "js" /\ NoHash(g) /\ a.status # "OK"

\* what a label that is refused either way may be answered
EitherRefusal(a) ==
  /\ fn = "profile" /\ dir = "decode" /\ Undecided(arg, marker)
  /\ a \in {Failure("LABEL_TOO_LONG"), Refusal(arg)}

Agrees(p, a) == a = WholeStringAnswer(Utf8(arg)) \/ Instead(p, a) \/ EitherRefusal(a)

\* A text that is not all ASCII has a character that is not.
LEMMA AsciiText ==
  ASSUME NEW t \in Seq(CodePoint), ~ \E c \in ToSet(t) : c > 127
  PROVE  t \in Seq(Ascii)
<1>1. \A j \in 1..Len(t) : t[j] \in ToSet(t)
  BY DEF ToSet
<1>2. ~Foreign(t)
  BY <1>1 DEF Foreign
<1> QED
  BY <1>2, Utf8Foreign

\* Every port answers any call as Go does, or has a reason to answer otherwise.
LEMMA PossibleAgrees ==
  ASSUME DigestIsDigest, CallInv, ~SubstitutesOrNot, NEW p \in Port, NEW a \in Possible(p)
  PROVE  Agrees(p, a)
<1> DEFINE g == WholeStringAnswer(Utf8(arg))
<1>1. arg \in Seq(CodePoint) /\ dir \in {"encode", "decode"}
  BY DEF CallInv
<1>2. CAnswer(Utf8(arg)) = g => (p = "cpp" => Agrees(p, a))
  <2> SUFFICES ASSUME CAnswer(Utf8(arg)) = g, p = "cpp" PROVE Agrees(p, a)
    OBVIOUS
  <2>1. a \in CppAnswers(CStr(Utf8(arg)))
    BY DEF Possible
  <2>2. CASE NUL \in ToSet(arg)
    BY <2>2 DEF Agrees, Instead
  <2>3. CASE NUL \notin ToSet(arg)
    BY <2>1, <2>3, CppAnswersAlike DEF Agrees, Instead
  <2> QED
    BY <2>2, <2>3
<1>3. CASE dir = "encode"
  <2>1. arg \in Seq(Scalar)
    <3>1. \A j \in 1..Len(arg) : arg[j] \in ToSet(arg)
      BY DEF ToSet
    <3>2. \A j \in 1..Len(arg) : arg[j] \in CodePoint /\ arg[j] \notin Surrogate
      BY <1>1, <1>3, <3>1 DEF SubstitutesOrNot
    <3>3. \A j \in 1..Len(arg) : arg[j] \in Scalar
      BY <3>2 DEF Scalar
    <3> QED
      BY <1>1, <3>3
  <2>2. /\ CAnswer(Utf8(arg)) = g /\ PythonAnswer(arg) = g
        /\ JavaAnswer(Utf16(arg)) = g /\ DotnetAnswer(Utf16(arg)) = g
        /\ JsAnswer(Utf16(arg)) = g \/ (NoHash(g) /\ JsAnswer(Utf16(arg)).status # "OK")
    BY <1>3, <2>1, TextAnswers
  <2>3. CASE p = "cpp"
    BY <1>2, <2>2, <2>3
  <2>4. CASE p = "js"
    <3>1. a = JsAnswer(Utf16(arg))
      BY <2>4 DEF Possible
    <3> QED
      BY <2>2, <2>4, <3>1 DEF Agrees, Instead
  <2>5. CASE p # "cpp" /\ p # "js"
    <3>1. a = g
      BY <2>2, <2>5 DEF Possible, Port
    <3> QED
      BY <3>1 DEF Agrees
  <2> QED
    BY <2>3, <2>4, <2>5
<1>4. CASE dir = "decode"
  <2>1. dir # "encode"
    BY <1>4
  <2>2. /\ CAnswer(Utf8(arg)) = g
        /\ Decoded(TRUE, JsAnswer(Utf16(arg))) /\ Decoded(FALSE, JavaAnswer(Utf16(arg)))
        /\ Decoded(FALSE, PythonAnswer(arg))
        /\ arg \in Seq(Ascii) => Decoded(FALSE, DotnetAnswer(Utf16(arg)))
    BY <2>1, LabelAnswers
  <2>3. Decoded(FALSE, a) => Agrees(p, a)
    BY <1>4 DEF Decoded, Near, Agrees, EitherRefusal
  <2>4. CASE p = "cpp"
    BY <1>2, <2>2, <2>4
  <2>5. CASE p = "js"
    <3>1. Decoded(TRUE, a)
      BY <2>2, <2>5 DEF Possible
    <3>2. Dropped(a, g) \/ EitherRefusal(a)
      BY <1>4, <3>1 DEF Decoded, Near, EitherRefusal
    <3> QED
      BY <1>4, <2>5, <3>2 DEF Dropped, Agrees, Instead
  <2>6. CASE p = "java" \/ p = "python"
    <3>1. Decoded(FALSE, a)
      BY <2>2, <2>6 DEF Possible
    <3> QED
      BY <2>3, <3>1
  <2>7. CASE p = "dotnet"
    <3>1. a = DotnetAnswer(Utf16(arg))
      BY <2>7 DEF Possible
    <3>2. CASE \E c \in ToSet(arg) : c > 127
      BY <1>4, <2>7, <3>2 DEF Agrees, Instead
    <3>3. CASE ~ \E c \in ToSet(arg) : c > 127
      <4>1. arg \in Seq(Ascii)
        BY <1>1, <3>3, AsciiText
      <4> QED
        BY <2>2, <2>3, <3>1, <4>1
    <3> QED
      BY <3>2, <3>3
  <2>8. CASE p \in {"c", "go", "rust"}
    <3>1. a = g
      BY <2>2, <2>8 DEF Possible
    <3> QED
      BY <3>1 DEF Agrees
  <2> QED
    BY <2>4, <2>5, <2>6, <2>7, <2>8 DEF Port
<1> QED
  BY <1>1, <1>3, <1>4

\* Go's answer to a label that is refused either way is one of the two.
LEMMA GoRefuses ==
  ASSUME CallInv, fn = "profile", dir = "decode", Undecided(arg, marker)
  PROVE  LET g == WholeStringAnswer(Utf8(arg))
         IN  EitherRefusal(g) /\ g.status # "OK"
<1> DEFINE s == Utf8(arg)
           b == DecodeBody(s)
           y == LengthThenEdges(s, b)
           g == WholeStringAnswer(s)
<1>1. arg \in Seq(CodePoint) /\ marker \in Seq(Byte) /\ s \in Seq(Nat) /\ View(s, arg)
  BY MarkerBytes, ViewsDecode DEF CallInv, View
<1>2. g = Dispatched(s, marker, y)
  BY CalledDecode DEF WholeStringAnswer, DecodeProfile
<1>3. ValidMarker(marker) /\ ~IsPrefix(marker, arg) /\ marker \in Seq(Ascii)
  BY <1>1, MarkerIsAscii DEF Undecided
<1>4. ~IsPrefix(marker, s) /\ (BadEdges(s) <=> BadEdges(arg))
  BY <1>1, <1>3, ViewFacts
<1>5. g = y /\ InOrder(y, s, b)
  BY <1>2, <1>3, <1>4 DEF Dispatched, InOrder
<1>6. g \in {Failure("LABEL_TOO_LONG"), Refusal(arg)}
  BY <1>1, <1>4, <1>5, OrderFacts DEF Refusal
<1>7. Refusal(arg).status # "OK" /\ Failure("LABEL_TOO_LONG").status # "OK"
  BY <1>1, RefusalFails DEF Failure
<1> QED
  BY <1>6, <1>7 DEF EitherRefusal

\* A port that answers something else than Go has an excuse, whatever another does.
LEMMA OneExcused ==
  ASSUME CallInv, NEW p \in DOMAIN answers, NEW q \in DOMAIN answers,
         Instead(p, answers[p]), Agrees(q, answers[q])
  PROVE  answers[p] = answers[q] \/ MayDiffer(p, q) \/ MayDiffer(q, p)
<1> DEFINE g == WholeStringAnswer(Utf8(arg))
<1>1. CASE \/ p = "cpp" /\ NUL \in ToSet(arg)
           \/ p = "cpp" /\ fn # "profile" /\ answers[p].status = "BUFFER_TOO_SMALL"
           \/ p = "dotnet" /\ dir = "decode" /\ \E c \in ToSet(arg) : c > 127
  BY <1>1 DEF MayDiffer, CutAtNul, OverBuffer, TakesLowByte
<1>2. CASE /\ p = "js" /\ g.status = "OK"
           /\ \/ dir = "decode" /\ Mark \in ToSet(FromUtf8(g.text))
              \/ NoHash(g)
  <2>1. CASE answers[q] = g
    BY <1>2, <2>1 DEF MayDiffer, DropsMark, CannotHash, NoHash
  <2>2. CASE \/ q = "cpp" /\ NUL \in ToSet(arg)
             \/ q = "cpp" /\ fn # "profile" /\ answers[q].status = "BUFFER_TOO_SMALL"
             \/ q = "dotnet" /\ dir = "decode" /\ \E c \in ToSet(arg) : c > 127
    BY <2>2 DEF MayDiffer, CutAtNul, OverBuffer, TakesLowByte
  <2>3. CASE q = "js"
    BY <1>2, <2>3
  <2>4. CASE EitherRefusal(answers[q])
    BY <1>2, <2>4, GoRefuses DEF EitherRefusal
  <2> QED
    BY <2>1, <2>2, <2>3, <2>4 DEF Agrees, Instead
<1> QED
  BY <1>1, <1>2 DEF Instead, NoHash

\* Any two ports agree, or differ for a reason that MayDiffer names.
LEMMA TwoAgree ==
  ASSUME CallInv, NEW p \in DOMAIN answers, NEW q \in DOMAIN answers,
         Agrees(p, answers[p]), Agrees(q, answers[q])
  PROVE  answers[p] = answers[q] \/ MayDiffer(p, q) \/ MayDiffer(q, p)
<1> DEFINE g == WholeStringAnswer(Utf8(arg))
<1>1. CASE Instead(p, answers[p]) \/ Instead(q, answers[q])
  BY <1>1, OneExcused
<1>2. CASE answers[p] = g /\ answers[q] = g
  BY <1>2
<1>3. CASE /\ answers[p] = g \/ EitherRefusal(answers[p])
           /\ answers[q] = g \/ EitherRefusal(answers[q])
           /\ EitherRefusal(answers[p]) \/ EitherRefusal(answers[q])
  <2>1. fn = "profile" /\ dir = "decode" /\ Undecided(arg, marker)
    BY <1>3 DEF EitherRefusal
  <2>2. EitherRefusal(g)
    BY <2>1, GoRefuses
  <2>3. /\ answers[p] \in {Failure("LABEL_TOO_LONG"), Refusal(arg)}
        /\ answers[q] \in {Failure("LABEL_TOO_LONG"), Refusal(arg)}
    BY <1>3, <2>2 DEF EitherRefusal
  <2>4. Refusal(arg).status \in {"INVALID_ENCODING", "INVALID_ESCAPE", "INVALID_UTF8"}
    BY <2>1, RefusalFails DEF CallInv
  <2>5. Failure("LABEL_TOO_LONG").status = "LABEL_TOO_LONG"
    BY DEF Failure
  <2> QED
    BY <2>1, <2>3, <2>4, <2>5 DEF MayDiffer, OtherRefusal
<1> QED
  BY <1>1, <1>2, <1>3 DEF Agrees

\* So do all that were asked,
LEMMA TypeInvAgrees ==
  ASSUME DigestIsDigest, TypeInv, ~SubstitutesOrNot, NEW p \in DOMAIN answers
  PROVE  Agrees(p, answers[p])
<1>1. p \in Port /\ answers[p] \in Possible(p) /\ CallInv
  BY DEF TypeInv, AskedInv
<1> QED
  BY <1>1, PossibleAgrees

\* in pairs.
LEMMA TypeInvPortsAgree ==
  ASSUME DigestIsDigest, TypeInv
  PROVE  PortsAgree
<1> SUFFICES ASSUME NEW p \in DOMAIN answers, NEW q \in DOMAIN answers
             PROVE  answers[p] = answers[q] \/ MayDiffer(p, q) \/ MayDiffer(q, p)
  BY DEF PortsAgree
<1>1. CASE SubstitutesOrNot
  BY <1>1 DEF MayDiffer
<1>2. CASE ~SubstitutesOrNot
  <2>1. Agrees(p, answers[p]) /\ Agrees(q, answers[q]) /\ CallInv
    BY <1>2, TypeInvAgrees DEF TypeInv
  <2> QED
    BY <2>1, TwoAgree
<1> QED
  BY <1>1, <1>2

\* Any two of the eight ports answer any call alike ("identical results and defined
\* errors", docs/rfc.md section 18), but for the differences that MayDiffer names.
THEOREM PortsAnswerAlike ==
  ASSUME DigestIsDigest
  PROVE  Spec => []PortsAgree
<1>1. TypeInv => PortsAgree
  BY TypeInvPortsAgree
<1> QED
  BY <1>1, TypeInvariance, PTL

-----------------------------------------------------------------------------
(* The relay: what an encoder gives, a decoder takes, and gives back.      *)

\* the representation of a text
Coding(t) ==
  IF fn = "component" THEN Success(EncodeComponent(Utf8(t)))
  ELSE IF fn = "body" THEN Success(EncodeBody(Utf8(t)))
  ELSE LabelAnswer(Utf8(t))

\* what is decoded from it
Returned(t, e) ==
  IF fn = "profile" /\ IsPrefix(marker, e) THEN Failure("NOT_DECODABLE")
  ELSE Success(Utf8(Lowercase(t)))

\* A text that every port can be given, folded or not.
LEMMA OrdinaryFacts ==
  ASSUME NEW t \in Seq(CodePoint), Ordinary(t)
  PROVE  /\ t \in Seq(Scalar) /\ Lowercase(t) \in Seq(Scalar)
         /\ NUL \notin ToSet(t) /\ NUL \notin ToSet(Lowercase(t))
         /\ Mark \notin ToSet(Lowercase(t))
<1>1. /\ Len(Lowercase(t)) = Len(t) /\ Lowercase(t) \in Seq(CodePoint)
      /\ \A j \in 1..Len(t) : Lowercase(t)[j] = Canonical(t[j])
      /\ t \in Seq(Scalar) => Lowercase(t) \in Seq(Scalar)
  BY FoldedText
<1>2. \A j \in 1..Len(t) : t[j] \in CodePoint /\ t[j] \in ToSet(t)
  BY DEF ToSet
<1>3. \A j \in 1..Len(t) : t[j] \notin Surrogate /\ t[j] # NUL /\ t[j] # Mark
  BY <1>2 DEF Ordinary
<1>4. \A j \in 1..Len(t) : t[j] \in Scalar
  BY <1>2, <1>3 DEF Scalar
<1>5. t \in Seq(Scalar)
  BY <1>4
<1>6. \A c \in CodePoint : c # NUL /\ c # Mark => Canonical(c) # NUL /\ Canonical(c) # Mark
  BY DEF CodePoint, Canonical, NUL, Mark
<1>7. \A j \in 1..Len(t) : Lowercase(t)[j] # NUL /\ Lowercase(t)[j] # Mark
  BY <1>1, <1>2, <1>3, <1>6
<1>8. ToSet(t) = {t[j] : j \in 1..Len(t)} /\ ToSet(Lowercase(t)) = {Lowercase(t)[j] : j \in 1..Len(t)}
  BY <1>1 DEF ToSet
<1>9. NUL \notin ToSet(t) /\ NUL \notin ToSet(Lowercase(t)) /\ Mark \notin ToSet(Lowercase(t))
  BY <1>3, <1>7, <1>8
<1> QED
  BY <1>1, <1>5, <1>9

\* A representation is ASCII, without a NUL.
LEMMA SpelledText ==
  ASSUME NEW e \in Seq(Byte), Spelled(e)
  PROVE  e \in Seq(Ascii) /\ NUL \notin ToSet(e)
<1>1. \A j \in 1..Len(e) : e[j] \in Ascii /\ e[j] # NUL
  <2>1. \A x \in Byte : IsLiteralByte(x) \/ x = HYPHEN => x \in Ascii /\ x # NUL
    BY DEF Byte, IsLiteralByte, IsDigit, HYPHEN, Ascii, NUL
  <2>2. \A j \in 1..Len(e) : e[j] \in Byte
    OBVIOUS
  <2> QED
    BY <2>1, <2>2 DEF Spelled
<1>2. ToSet(e) = {e[j] : j \in 1..Len(e)}
  BY DEF ToSet
<1> QED
  BY <1>1, <1>2

\* What a representation looks like.
LEMMA CodingFacts ==
  ASSUME DigestIsDigest, CallInv, NEW t \in Seq(CodePoint), Coding(t).status = "OK"
  PROVE  LET e == Coding(t).text
             s == Utf8(t)
         IN  /\ Coding(t) = Success(e) /\ e \in Seq(Byte) /\ Spelled(e)
             /\ fn = "profile" =>
                  /\ ValidMarker(marker) /\ Len(e) <= MaxLabelLength
                  /\ \/ e = EncodeBody(s) /\ ~IsPrefix(marker, e) /\ ~BadEdges(e)
                     \/ /\ IsPrefix(marker, e)
                        /\ IsDigest(SubSeq(e, Len(marker) + 1, Len(e)))
             /\ fn = "component" => e = EncodeComponent(s)
             /\ fn = "body" => e = EncodeBody(s)
<1> DEFINE s == Utf8(t)
           B == EncodeBody(s)
           K == EncodeComponent(s)
           l == LabelOf(B, K, marker)
<1>1. s \in Seq(Byte) /\ B \in Seq(Byte) /\ K \in Seq(Byte) /\ marker \in Seq(Byte)
  BY Utf8Type, BodyType, EncodeType, MarkerBytes
<1>2. Spelled(B) /\ Spelled(K)
  BY <1>1, BodyShape, EncodedShape
<1>3. CASE fn = "component" \/ fn = "body"
  BY <1>1, <1>2, <1>3 DEF Coding, Success
<1>4. CASE fn = "profile"
  <2>1. Coding(t) = IF ValidMarker(marker) THEN l ELSE Failure("INVALID_ENCODING")
    BY <1>4 DEF Coding, LabelAnswer
  <2>2. ValidMarker(marker) /\ Coding(t) = l /\ l.status = "OK"
    <3>1. Failure("INVALID_ENCODING").status # "OK"
      BY DEF Failure
    <3> HIDE DEF l
    <3> QED
      BY <2>1, <3>1
  <2>3. /\ Typed(l) /\ l = Success(l.text) /\ Len(l.text) <= MaxLabelLength /\ ~BadEdges(B)
        /\ \/ l.text = B /\ ~IsPrefix(marker, B)
           \/ /\ l.text = marker \o Digest(K) /\ IsPrefix(marker, l.text)
              /\ IsDigest(SubSeq(l.text, Len(marker) + 1, Len(l.text)))
    BY <1>1, <2>2, LabelParts
  <2>4. Spelled(l.text)
    <3>1. CASE l.text = B
      BY <1>2, <3>1
    <3>2. CASE l.text = marker \o Digest(K)
      <4>1. Digest(K) \in Seq(Byte) /\ IsDigest(Digest(K))
        BY <1>1 DEF DigestIsDigest
      <4>2. Spelled(Digest(K))
        <5> DEFINE d == Digest(K)
        <5>1. \A j \in DOMAIN d : IsBase36Byte(d[j])
          BY <4>1 DEF IsDigest
        <5>2. DOMAIN d = 1..Len(d)
          BY <4>1
        <5> HIDE DEF d
        <5>3. \A x : IsBase36Byte(x) => IsLiteralByte(x)
          BY DEF IsBase36Byte, IsLiteralByte
        <5> QED
          BY <5>1, <5>2, <5>3 DEF Spelled, d
      <4>3. Spelled(marker)
        BY <1>1, <2>2, MarkerIsAscii
      <4> QED
        BY <1>1, <3>2, <4>1, <4>2, <4>3, SpelledConcat
    <3> QED
      BY <2>3, <3>1, <3>2
  <2> HIDE DEF l
  <2> QED
    BY <1>4, <2>2, <2>3, <2>4 DEF Typed
<1> QED
  BY <1>3, <1>4 DEF CallInv

\* What is decoded from the representation of a text, and that no port has an excuse.
LEMMA CodingReturns ==
  ASSUME DigestIsDigest, CallInv, NEW t \in Seq(Scalar), Coding(t) = Success(arg),
         dir = "decode"
  PROVE  /\ WholeStringAnswer(Utf8(arg)) = Returned(t, arg)
         /\ arg \in Seq(Ascii) /\ NUL \notin ToSet(arg)
         /\ fn = "profile" => ~Undecided(arg, marker)
<1> DEFINE s == Utf8(t)
<1>1. t \in Seq(CodePoint) /\ marker \in Seq(Byte) /\ marker \in Seq(Nat)
  BY ScalarIsText, MarkerBytes
<1>2. Coding(t).status = "OK" /\ Coding(t).text = arg
  BY DEF Success
<1>3. /\ arg \in Seq(Byte) /\ Spelled(arg)
      /\ fn = "profile" =>
           /\ ValidMarker(marker) /\ Len(arg) <= MaxLabelLength
           /\ \/ arg = EncodeBody(s) /\ ~IsPrefix(marker, arg) /\ ~BadEdges(arg)
              \/ IsPrefix(marker, arg) /\ IsDigest(SubSeq(arg, Len(marker) + 1, Len(arg)))
      /\ fn = "component" => arg = EncodeComponent(s)
      /\ fn = "body" => arg = EncodeBody(s)
  BY <1>1, <1>2, CodingFacts
<1>4. arg \in Seq(Ascii) /\ NUL \notin ToSet(arg) /\ arg \in Seq(CodePoint)
  BY <1>3, SpelledText, AsciiIsText
<1>5. Utf8(arg) = arg /\ ~Foreign(arg)
  BY <1>4, Utf8Foreign
<1>6. /\ s \in Seq(Byte) /\ Utf8Validate(s) /\ Lowercase(s) = Utf8(Lowercase(t))
  BY <1>1, Utf8Type, Utf8RoundTrip, FoldedUtf8
<1>7. /\ DecodeComponent(EncodeComponent(s)) = Success(Utf8(Lowercase(t)))
      /\ DecodeBody(EncodeBody(s)) = Success(Utf8(Lowercase(t)))
  BY <1>6, ComponentRoundTrip, BodyRoundTrip
<1>8. WholeStringAnswer(arg) =
        IF fn = "component" THEN DecodeComponent(arg)
        ELSE IF fn = "body" THEN DecodeBody(arg) ELSE DecodeProfile(arg, marker)
  BY CalledDecode DEF WholeStringAnswer
<1>9. CASE fn = "component" \/ fn = "body"
  <2>1. WholeStringAnswer(arg) = Success(Utf8(Lowercase(t)))
    BY <1>3, <1>7, <1>8, <1>9
  <2> QED
    BY <1>4, <1>5, <1>9, <2>1 DEF Returned
<1>10. CASE fn = "profile" /\ IsPrefix(marker, arg)
  <2>1. ValidMarker(marker) /\ IsDigest(SubSeq(arg, Len(marker) + 1, Len(arg)))
    BY <1>3, <1>10
  <2>2. HashLabelError(arg, marker) = "NOT_DECODABLE"
    BY <2>1 DEF HashLabelError
  <2>3. DecodeProfile(arg, marker) = Failure("NOT_DECODABLE")
    BY <1>10, <2>1, <2>2 DEF DecodeProfile, Dispatched
  <2> QED
    BY <1>4, <1>5, <1>8, <1>10, <2>3 DEF Returned, Undecided
<1>11. CASE fn = "profile" /\ ~IsPrefix(marker, arg)
  <2>1. /\ ValidMarker(marker) /\ ~(Len(arg) > MaxLabelLength)
        /\ arg = EncodeBody(s) /\ ~BadEdges(arg)
    BY <1>3, <1>11, LengthsAssumption
  <2>2. DecodeProfile(arg, marker) = DecodeBody(arg)
    BY <1>11, <2>1 DEF DecodeProfile, Dispatched, LengthThenEdges
  <2>3. WholeStringAnswer(arg) = Success(Utf8(Lowercase(t)))
    BY <1>7, <1>8, <1>11, <2>1, <2>2
  <2> QED
    BY <1>4, <1>5, <1>11, <2>1, <2>3 DEF Returned, Undecided
<1> QED
  BY <1>9, <1>10, <1>11 DEF CallInv

\* A port that encodes an ordinary text does as Go does, unless it answers an error.
LEMMA EncodedAlike ==
  ASSUME DigestIsDigest, CallInv, dir = "encode", arg \in Seq(Scalar), NUL \notin ToSet(arg),
         NEW p, NEW a, Agrees(p, a), Typed(a)
  PROVE  \/ a = Coding(arg)
         \/ p = "cpp" /\ fn # "profile" /\ a.status = "BUFFER_TOO_SMALL"
         \/ p = "js" /\ NoHash(Coding(arg)) /\ a.status # "OK"
<1>1. WholeStringAnswer(Utf8(arg)) = Coding(arg)
  BY CalledEncode DEF WholeStringAnswer, Coding, LabelAnswer
<1> QED
  BY <1>1 DEF Agrees, Instead, EitherRefusal

\* A port that decodes what was encoded gives the text back, or knows a hash label.
LEMMA DecodedAlike ==
  ASSUME DigestIsDigest, CallInv, dir = "decode", NEW t \in Seq(CodePoint), Ordinary(t),
         Coding(t) = Success(arg), NEW p, NEW a, Agrees(p, a)
  PROVE  \/ a = Returned(t, arg)
         \/ p = "cpp" /\ fn # "profile" /\ a.status = "BUFFER_TOO_SMALL"
<1> DEFINE g == WholeStringAnswer(Utf8(arg))
<1>1. t \in Seq(Scalar) /\ Lowercase(t) \in Seq(Scalar) /\ Mark \notin ToSet(Lowercase(t))
  BY OrdinaryFacts
<1>2. /\ g = Returned(t, arg) /\ arg \in Seq(Ascii) /\ NUL \notin ToSet(arg)
      /\ fn = "profile" => ~Undecided(arg, marker)
  BY <1>1, CodingReturns
<1>3. ~EitherRefusal(a)
  BY <1>2 DEF EitherRefusal
<1>4. ~ \E c \in ToSet(arg) : c > 127
  <2>1. ToSet(arg) = {arg[j] : j \in 1..Len(arg)}
    BY <1>2 DEF ToSet
  <2>2. \A j \in 1..Len(arg) : arg[j] \in Ascii
    BY <1>2
  <2>3. \A c \in Ascii : ~(c > 127)
    BY DEF Ascii
  <2> QED
    BY <2>1, <2>2, <2>3
<1>5. g.status = "OK" => Mark \notin ToSet(FromUtf8(g.text))
  <2> SUFFICES ASSUME g.status = "OK" PROVE Mark \notin ToSet(FromUtf8(g.text))
    OBVIOUS
  <2>1. g.text = Utf8(Lowercase(t))
    BY <1>2 DEF Returned, Success, Failure
  <2>2. FromUtf8(g.text) = Lowercase(t)
    BY <1>1, <2>1, Utf8RoundTrip
  <2> QED
    BY <1>1, <2>2
<1>6. ~NoHash(g)
  BY DEF NoHash
<1> QED
  BY <1>2, <1>3, <1>4, <1>5, <1>6 DEF Agrees, Instead

\* how the call came about: see Forward
Relayed ==
  /\ round = 0 => arg = origin
  /\ round = 1 => dir = "decode" /\ arg = coded
  /\ round = 2 => dir = "encode"
  /\ round > 0 /\ Ordinary(origin) => Coding(origin) = Success(coded)
  /\ round = 2 /\ Ordinary(origin) =>
       arg = Lowercase(origin) /\ ~(fn = "profile" /\ IsPrefix(marker, coded))

RelayInv == TypeInv /\ Relayed

\* Who encodes an ordinary text with success gives its representation.
LEMMA FirstAnswer ==
  ASSUME DigestIsDigest, TypeInv, dir = "encode", NEW t \in Seq(CodePoint), arg = t,
         Ordinary(t), NEW p \in DOMAIN answers, answers[p].status = "OK"
  PROVE  Coding(t) = Success(answers[p].text)
<1> DEFINE a == answers[p]
<1>1. CallInv /\ p \in Port /\ a \in Possible(p)
  BY DEF TypeInv, AskedInv
<1>2. arg \in Seq(Scalar) /\ NUL \notin ToSet(arg)
  BY OrdinaryFacts
<1>3. ToSet(arg) \cap Surrogate = {}
  BY DEF Ordinary
<1>4. Agrees(p, a) /\ Typed(a)
  BY <1>1, <1>3, TypeInvAgrees, PossibleTyped DEF SubstitutesOrNot
<1>5. a = Coding(t)
  BY <1>1, <1>2, <1>4, EncodedAlike
<1>6. Coding(t) = Success(Coding(t).text)
  BY <1>1, <1>5, CodingFacts
<1> QED
  BY <1>5, <1>6

\* Who decodes it gives back the text, or knows the hash label.
LEMMA SecondAnswer ==
  ASSUME DigestIsDigest, RelayInv, round = 1, Ordinary(origin), NEW p \in DOMAIN answers
  PROVE  answers[p] = Returned(origin, coded) \/ OverBuffer(p)
<1> DEFINE a == answers[p]
<1>1. CallInv /\ TypeInv /\ dir = "decode" /\ arg = coded /\ Coding(origin) = Success(arg)
  BY DEF RelayInv, TypeInv, Relayed
<1>2. ~SubstitutesOrNot
  BY <1>1 DEF SubstitutesOrNot
<1>3. Agrees(p, a)
  BY <1>1, <1>2, TypeInvAgrees
<1>4. origin \in Seq(CodePoint)
  BY <1>1 DEF CallInv
<1>5. a = Returned(origin, arg) \/ (p = "cpp" /\ fn # "profile" /\ a.status = "BUFFER_TOO_SMALL")
  BY <1>1, <1>3, <1>4, DecodedAlike
<1> QED
  BY <1>1, <1>5 DEF OverBuffer

\* Who encodes that makes the same representation.
LEMMA ThirdAnswer ==
  ASSUME DigestIsDigest, RelayInv, round = 2, Ordinary(origin), NEW p \in DOMAIN answers
  PROVE  answers[p] = Success(coded) \/ OverBuffer(p)
<1> DEFINE a == answers[p]
<1>1. /\ CallInv /\ TypeInv /\ dir = "encode" /\ arg = Lowercase(origin)
      /\ Coding(origin) = Success(coded) /\ ~(fn = "profile" /\ IsPrefix(marker, coded))
  BY DEF RelayInv, TypeInv, Relayed
<1>2. p \in Port /\ a \in Possible(p) /\ origin \in Seq(CodePoint)
  BY <1>1 DEF TypeInv, AskedInv, CallInv
<1>3. arg \in Seq(Scalar) /\ NUL \notin ToSet(arg)
  BY <1>1, <1>2, OrdinaryFacts
<1>4. ~SubstitutesOrNot
  <2>1. ToSet(arg) = {arg[j] : j \in 1..Len(arg)}
    BY <1>3 DEF ToSet
  <2>2. \A j \in 1..Len(arg) : arg[j] \notin Surrogate
    BY <1>3 DEF Scalar
  <2> QED
    BY <2>1, <2>2 DEF SubstitutesOrNot
<1>5. Agrees(p, a) /\ Typed(a)
  BY <1>1, <1>2, <1>4, TypeInvAgrees, PossibleTyped
<1>6. Coding(arg) = Coding(origin)
  <2>1. /\ EncodeComponent(Utf8(arg)) = EncodeComponent(Utf8(origin))
        /\ EncodeBody(Utf8(arg)) = EncodeBody(Utf8(origin))
    BY <1>1, <1>2, FoldedEncodes
  <2> QED
    BY <2>1 DEF Coding, LabelAnswer
<1>7. ~NoHash(Coding(arg))
  <2>1. Coding(arg).text = coded
    BY <1>1, <1>6 DEF Success
  <2> QED
    BY <1>1, <2>1 DEF NoHash
<1>8. a = Coding(arg) \/ (p = "cpp" /\ fn # "profile" /\ a.status = "BUFFER_TOO_SMALL")
  BY <1>1, <1>3, <1>5, <1>7, EncodedAlike
<1> QED
  BY <1>1, <1>6, <1>8 DEF OverBuffer

\* Forward keeps Relayed.
LEMMA RelayForward ==
  ASSUME DigestIsDigest, RelayInv, Forward
  PROVE  Relayed'
<1>1. PICK p \in DOMAIN answers :
        /\ answers[p].status = "OK"
        /\ arg' = IF dir = "encode" THEN answers[p].text ELSE FromUtf8(answers[p].text)
        /\ coded' = IF dir = "encode" THEN answers[p].text ELSE coded
  BY DEF Forward
<1>2. UNCHANGED <<fn, marker, webCrypto, origin>> /\ TypeInv /\ origin \in Seq(CodePoint)
  BY DEF Forward, RelayInv, TypeInv, CallInv
<1>3. Ordinary(origin)' = Ordinary(origin) /\ Coding(origin)' = Coding(origin)
  BY <1>2 DEF Ordinary, Coding, LabelAnswer
<1>4. CASE dir = "encode" /\ round = 0 /\ dir' = "decode"
  <2>1. round' = 1 /\ arg' = answers[p].text /\ coded' = answers[p].text
    BY <1>1, <1>4 DEF Forward
  <2>2. Ordinary(origin) => Coding(origin) = Success(answers[p].text)
    BY <1>1, <1>2, <1>4, FirstAnswer DEF RelayInv, Relayed
  <2>3. Ordinary(origin)' => Coding(origin)' = Success(coded')
    BY <1>3, <2>1, <2>2
  <2> QED
    BY <1>2, <1>3, <1>4, <2>1, <2>2 DEF Relayed, Ordinary, Coding, LabelAnswer
<1>5. CASE dir = "decode" /\ round = 1 /\ dir' = "encode"
  <2>1. round' = 2 /\ arg' = FromUtf8(answers[p].text) /\ coded' = coded
    BY <1>1, <1>5 DEF Forward
  <2>2. ASSUME Ordinary(origin)
        PROVE  /\ Coding(origin) = Success(coded) /\ arg' = Lowercase(origin)
               /\ ~(fn = "profile" /\ IsPrefix(marker, coded))
    <3>1. answers[p] = Returned(origin, coded)
      BY <1>1, <1>5, <2>2, SecondAnswer DEF OverBuffer
    <3>2. /\ ~(fn = "profile" /\ IsPrefix(marker, coded))
          /\ answers[p].text = Utf8(Lowercase(origin))
      BY <1>1, <3>1 DEF Returned, Success, Failure
    <3>3. Lowercase(origin) \in Seq(Scalar)
      BY <1>2, <2>2, OrdinaryFacts
    <3>4. arg' = Lowercase(origin)
      BY <2>1, <3>2, <3>3, Utf8RoundTrip
    <3>5. Coding(origin) = Success(coded)
      BY <1>5, <2>2 DEF RelayInv, Relayed
    <3> QED
      BY <3>2, <3>4, <3>5
  <2> QED
    BY <1>2, <1>3, <1>5, <2>1, <2>2 DEF Relayed, Ordinary, Coding, LabelAnswer
<1> QED
  BY <1>4, <1>5 DEF Forward

\* While ports are asked, a call came about as it did.
LEMMA RelaySame ==
  ASSUME Relayed, UNCHANGED <<call, origin, coded, round>>
  PROVE  Relayed'
<1>1. /\ fn' = fn /\ dir' = dir /\ arg' = arg /\ marker' = marker
      /\ origin' = origin /\ coded' = coded /\ round' = round
  BY DEF call
<1> QED
  BY <1>1 DEF Relayed, Ordinary, Coding, LabelAnswer

\* RelayInv is inductive.
LEMMA RelayStep == DigestIsDigest => (RelayInv /\ [Next]_vars => RelayInv')
<1> SUFFICES ASSUME DigestIsDigest, RelayInv, [Next]_vars PROVE RelayInv'
  OBVIOUS
<1>1. TypeInv'
  BY TypeStep DEF RelayInv
<1>2. CASE Forward
  BY <1>1, <1>2, RelayForward DEF RelayInv
<1>3. CASE \E p \in Port : Ask(p, Possible(p))
  <2>1. UNCHANGED <<call, origin, coded, round>>
    BY <1>3 DEF Ask
  <2> QED
    BY <1>1, <2>1, RelaySame DEF RelayInv
<1>4. CASE UNCHANGED vars
  <2>1. UNCHANGED <<call, origin, coded, round>>
    BY <1>4 DEF vars
  <2> QED
    BY <1>1, <2>1, RelaySame DEF RelayInv
<1> QED
  BY <1>2, <1>3, <1>4, StepIs

\* A first call was not forwarded.
LEMMA RelayInit == Init => RelayInv
<1> SUFFICES ASSUME Init PROVE RelayInv
  OBVIOUS
<1>1. round = 0 /\ arg = origin
  BY DEF Init
<1> QED
  BY <1>1, TypeInit DEF RelayInv, Relayed

\* How every call came about.
LEMMA RelayInvariance ==
  ASSUME DigestIsDigest
  PROVE  Spec => []RelayInv
<1>1. RelayInv /\ [Next]_vars => RelayInv'
  BY RelayStep
<1> QED
  BY <1>1, RelayInit, PTL DEF Spec

\* What any port encoded of an ordinary text, any other decodes to that text in lower
\* case, or knows for a hash label (RelayKeepsText).
THEOREM RelayGivesTextBack ==
  ASSUME DigestIsDigest
  PROVE  Spec => []RelayKeepsText
<1>1. RelayInv => RelayKeepsText
  <2> SUFFICES ASSUME RelayInv, round = 1, Ordinary(origin), NEW p \in DOMAIN answers
               PROVE  answers[p] = Returned(origin, coded) \/ OverBuffer(p)
    BY DEF RelayKeepsText, Returned
  <2> QED
    BY SecondAnswer
<1> QED
  BY <1>1, RelayInvariance, PTL

\* And what that port decoded, a third encodes to the representation the first made
\* (RelayKeepsRepresentation).
THEOREM RelayGivesRepresentationBack ==
  ASSUME DigestIsDigest
  PROVE  Spec => []RelayKeepsRepresentation
<1>1. RelayInv => RelayKeepsRepresentation
  BY ThirdAnswer DEF RelayKeepsRepresentation
<1> QED
  BY <1>1, RelayInvariance, PTL

=============================================================================
