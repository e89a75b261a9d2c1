------------------------------ MODULE TextPorts ------------------------------
(***************************************************************************)
(* The ports whose strings are not bytes: JavaScript, Java and .NET work   *)
(* on UTF-16 units, Python on code points.  A string here is the sequence  *)
(* of those; lengths are counted in them.  What an encoder gives is ASCII  *)
(* and the same in every port; what a decoder gives is written as the      *)
(* UTF-8 of the text it returns.  The loops that all ports share are those *)
(* of DefCore; the definitions here keep what each port does differently.  *)
(***************************************************************************)
EXTENDS DefProfile, Unicode
LOCAL INSTANCE SequencesExt

HasSeparator(c) == \E i \in 1..(Len(c) - 1) : c[i] = HYPHEN /\ c[i + 1] = HYPHEN

\* the order of JavaScript and Python
EdgesThenLength(label, decoded) ==
  IF BadEdges(label) THEN Failure("INVALID_ENCODING")
  ELSE IF Len(label) > MaxLabelLength THEN Failure("LABEL_TOO_LONG")
  ELSE decoded

-----------------------------------------------------------------------------
(* JavaScript                                                              *)

\* mutant: UTF-16 units are taken for bytes
MutJsUtf8(s) == s

\* TextEncoder: a surrogate that is not paired becomes U+FFFD
JsUtf8(s) == Utf8(Substituted(FromUtf16(s), 65533))

JsEncodeComponent(s) == EncodeComponent(JsUtf8(s))
JsEncodeBody(s) ==
  LET c == Split(s) IN Join([j \in DOMAIN c |-> JsEncodeComponent(c[j])])

ByteOrderMark == <<239, 187, 191>>
BeginsWithMark(text) == IsPrefix(ByteOrderMark, text)

\* TextDecoder is fatal, and it drops a byte order mark
JsDecodeComponent(c) ==
  LET r == DecodeComponent(c) IN
  IF HasSeparator(c) THEN Failure("INVALID_ESCAPE")
  ELSE IF r.status = "OK" /\ BeginsWithMark(r.text)
  THEN Success(SubSeq(r.text, 4, Len(r.text)))
  ELSE r

JsDecodeBody(s) ==
  LET c == Split(s) IN FirstErrorOrJoin([j \in DOMAIN c |-> JsDecodeComponent(c[j])])

\* without Web Crypto only the labels that are not hashed can be made
JsEncodeProfile(s, m, webCrypto) ==
  LET label == LabelOf(JsEncodeBody(s), JsEncodeComponent(s), m) IN
  IF ~ValidMarker(m) THEN Failure("INVALID_ENCODING")
  ELSE IF IsPrefix(m, label.text) /\ ~webCrypto THEN Failure("INVALID_ENCODING")
  ELSE label

JsDecodeProfile(label, m) ==
  Dispatched(label, m, EdgesThenLength(label, JsDecodeBody(label)))

-----------------------------------------------------------------------------
(* Python                                                                  *)

\* str.encode raises for a surrogate, in any component, an error of its own
PythonEncoded(s, text) ==
  IF \E j \in DOMAIN s : s[j] \in Surrogate THEN Failure("UnicodeEncodeError")
  ELSE Success(text)

PythonEncodeComponent(s) == EncodeComponent(Utf8(s))
PythonEncodeBody(s) ==
  LET c == Split(s) IN Join([j \in DOMAIN c |-> PythonEncodeComponent(c[j])])

PythonDecodeComponent(c) ==
  IF HasSeparator(c) THEN Failure("INVALID_ESCAPE") ELSE DecodeComponent(c)

PythonDecodeBody(s) ==
  LET c == Split(s) IN FirstErrorOrJoin([j \in DOMAIN c |-> PythonDecodeComponent(c[j])])

PythonEncodeProfile(s, m) ==
  LET body == PythonEncoded(s, PythonEncodeBody(s)) IN
  IF ~ValidMarker(m) THEN Failure("INVALID_ENCODING")
  ELSE IF body.status # "OK" THEN body
  ELSE LabelOf(body.text, PythonEncodeComponent(s), m)

PythonDecodeProfile(label, m) ==
  Dispatched(label, m, EdgesThenLength(label, PythonDecodeBody(label)))

-----------------------------------------------------------------------------
(* Java                                                                    *)

\* String.getBytes: a surrogate that is not paired becomes '?'
JavaUtf8(s) == Utf8(Substituted(FromUtf16(s), 63))

JavaEncodeComponent(s) == EncodeComponent(JavaUtf8(s))
JavaEncodeBody(s) ==
  LET c == Split(s) IN Join([j \in DOMAIN c |-> JavaEncodeComponent(c[j])])

JavaDecodeComponent(c) ==
  IF HasSeparator(c) THEN Failure("INVALID_ESCAPE") ELSE DecodeComponent(c)

JavaDecodeBody(s) ==
  LET c == Split(s) IN FirstErrorOrJoin([j \in DOMAIN c |-> JavaDecodeComponent(c[j])])

\* the text is folded, and made a string again, before it is split
JavaCanonical(s) == Utf16(FromUtf8(Lowercase(JavaUtf8(s))))

\* mutant: the body is hashed, not the component
MutJavaEncodeProfile(s, m) ==
  LET body == JavaEncodeBody(JavaCanonical(s)) IN
  IF ~ValidMarker(m) THEN Failure("INVALID_ENCODING") ELSE LabelOf(body, body, m)

JavaEncodeProfile(s, m) ==
  LET canonical == JavaCanonical(s) IN
  IF ~ValidMarker(m) THEN Failure("INVALID_ENCODING")
  ELSE LabelOf(JavaEncodeBody(canonical), JavaEncodeComponent(canonical), m)

JavaDecodeProfile(label, m) ==
  Dispatched(label, m, LengthThenEdges(label, JavaDecodeBody(label)))

-----------------------------------------------------------------------------
(* .NET                                                                    *)

\* Encoding.UTF8: a surrogate that is not paired becomes U+FFFD
DotnetUtf8(s) == Utf8(Substituted(FromUtf16(s), 65533))

DotnetEncodeComponent(s) == EncodeComponent(DotnetUtf8(s))
DotnetEncodeBody(s) ==
  LET c == Split(s) IN Join([j \in DOMAIN c |-> DotnetEncodeComponent(c[j])])

\* what the cast (byte) makes of a UTF-16 unit
Narrow(unit) == unit % 256

\* The cast is taken before the unit is classified, so a unit that is no byte is
\* decoded as the literal its low byte is; '-' and digits are compared uncut.
DotnetDecodeComponent(c) ==
  LET isEscape(i) == /\ c[i] = HYPHEN /\ i + 2 <= Len(c)
                     /\ IsHexDigit(c[i + 1]) /\ IsHexDigit(c[i + 2])
      decode[i \in 1..(Len(c) + 1)] ==
        IF i > Len(c) THEN {<<>>}
        ELSE IF IsLiteralByte(Narrow(c[i]))
        THEN {<<Narrow(c[i])>> \o t : t \in decode[i + 1]}
        ELSE IF isEscape(i)
        THEN {<<HexByte(c[i + 1], c[i + 2])>> \o t : t \in decode[i + 3]}
        ELSE {}
  IN  IF HasSeparator(c) \/ decode[1] = {} THEN Failure("INVALID_ESCAPE")
      ELSE IF \E t \in decode[1] : ~Utf8Validate(t) THEN Failure("INVALID_UTF8")
      ELSE Success(CHOOSE t \in decode[1] : TRUE)

DotnetDecodeBody(s) ==
  LET c == Split(s) IN FirstErrorOrJoin([j \in DOMAIN c |-> DotnetDecodeComponent(c[j])])

\* the text is folded, and made a string again, before it is split
DotnetCanonical(s) == Utf16(FromUtf8(Lowercase(DotnetUtf8(s))))

DotnetEncodeProfile(s, m) ==
  LET canonical == DotnetCanonical(s) IN
  IF ~ValidMarker(m) THEN Failure("INVALID_ENCODING")
  ELSE LabelOf(DotnetEncodeBody(canonical), DotnetEncodeComponent(canonical), m)

DotnetDecodeProfile(label, m) ==
  Dispatched(label, m, LengthThenEdges(label, DotnetDecodeBody(label)))
=============================================================================
