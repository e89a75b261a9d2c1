# DEF (DNS Encoded Format) in TLA+

A verification development for this repository: models of the codec library,
configurations that check them with TLC, and proofs checked by TLAPS. Paths
are relative to `src/`; `def.c` is `packages/c/src/def.c`.

1. [The system](#1-the-system)
2. [Modules](#2-modules)
3. [What is checked](#3-what-is-checked)
4. [What is proved](#4-what-is-proved)
5. [What is not modelled](#5-what-is-not-modelled)
6. [Plan](#6-plan)

## 1. The system

DEF turns a text into lower-case ASCII that fits in a DNS label and back.
Lower-case letters and digits stand for themselves, upper-case ASCII is folded,
every other byte becomes `-hh`. A *body* is a list of components separated by
`--`, and the separator survives encoding, because a component never contains
it. The *profile* makes one DNS label of a body, or, when that is too long or
would be mistaken for one, a hash label: a configured marker and the SHA-256 of
the text in base36.

The repository holds eight ports of the same functions and one file of test
vectors. There is no shared state and no concurrency in any port, the
JavaScript encoder is asynchronous only because Web Crypto is.

| Component | State while it runs | Operations | Calls |
|---|---|---|---|
| C codec, `def.c:10-102, 283-367, 436-559` | loop positions, caller's buffer | `def_encode_component`, `def_decode_component`, `def_encode_body`, `def_decode_body` | the body functions call the byte loops once per component |
| C profile, `def.c:369-434, 561-689` | two heap buffers, caller's buffer | `def_encode_profile`, `def_decode_profile`, `def_encode`, `def_decode` | C codec, malloc/free, C hash |
| C hash, `def.c:104-281` | SHA-256 context, digest divided in place | `sha256_update`, `sha256_final`, `base36_encode`, `encode_profile_hash` | - |
| C++ wrapper, `packages/cpp/include/idrto/def.hpp` | a stack buffer | the C functions with exceptions | C codec and profile |
| Go, Rust, JavaScript, Python, Java, .NET ports | none | the same functions on whole strings | the platform's SHA-256 and UTF-8 decoder |
| Test vectors and tests | - | expected answers, round trips | every port |

What makes the components correct:

- **C codec.** It never stores outside the buffer or reads outside the text; it
  answers exactly what splitting, coding each component and joining define,
  although it scans in one pass and stores as it goes; a failed call reports no
  length; a buffer that is large enough is never refused. Decoding an encoding
  gives the lower-case text, and the hierarchy of components is kept.
- **C profile.** A label has DNS's shape and length; both temporary buffers are
  freed once on each of the exits, whichever malloc failed; the decoder can tell
  a hash label from a reversible one; texts that differ in case share a label.
- **Ports.** One call has one answer, whichever port is asked, and a
  representation can cross from any port to any other and back.
- **C hash.** SHA-256 compresses the padded message, whichever side of a block
  boundary the text ends on, and never a byte it has not written; the words of
  the hash are those of SHA-256; the division by 36 loses no carry and leaves
  nothing after the last digit.
- **C library.** Each function gives the next the room and the text it needs,
  and the temporary buffers live as long as the calls that use them.

What is hard to test, and so what the properties are aimed at: offsets and
capacities at their limits in five loops that each subtract by hand; runs of
hyphens; escapes at the end of a component; failures of a later component or of
one malloc after earlier work is done; `size_t` arithmetic near `SIZE_MAX`;
padding around 56 bytes; a body that begins with the marker; ports that
disagree. `PROJECT.json` lists each at its line ("hazards").

## 2. Modules

```
DefBytes        bytes, escapes, UTF-8                     (def.c:7-102)
  DefCore       split / code / join on whole strings      (Go port)
    DefCoreProofs   (and DataInduction)
    DefProfile  the profile on whole strings              (Go port)
  CCodec        the four Core functions of C, step by step
    CCodecRefinement    CCodec => CodecContract
    CRoundTrip          a caller: encode, decode, encode again
    CCodecProofs        about all three
CProfile        the two profile functions of C, step by step (on DefProfile)
  CProfileRefinement    CProfile => ProfileContract
  CProfileProofs        about both
Outcome         what a call with a text and a capacity may answer
  CodecContract         one codec call, for any codec
  ProfileContract       the profile calls, for any profile
CSha256         block buffering and padding of SHA-256
  CSha256Proofs
CSha256Transform  the compression function of SHA-256
CHashLabel      encode_profile_hash and base36_encode
  Base36Ports   base36 as the other ports compute it
  CHashLabelProofs      about both
CHash           CHashLabel, CSha256 and CSha256Transform composed
CLibrary        the whole of def.c: CProfile, CCodec and CHash composed
  CLibraryProofs
Unicode         UTF-8 and UTF-16, as the platforms convert them
  TextPorts     JavaScript, Python, Java and .NET     (on DefProfile)
    Interop     programs in eight languages that exchange representations
      InteropProofs
DataInduction   induction and recursion over data, and lemmas on sequences
SmallDigest     a digest of five bytes, for the small instances
MC*             values of the constants for TLC
```

**DefBytes** has the functions on single bytes of `def.c`: the literal class,
case folding, `-hh`, and UTF-8 validation. A string is the sequence of its
bytes, indexed from 1.

**DefCore, DefProfile** are the reference: the functions on whole strings as
the Go port (`packages/go/def/def.go`) writes them, with the errors of the C
API. `FirstErrorOrJoin` puts decoded components together, whichever port decoded
them; `LabelOf`, `Dispatched` and `LengthThenEdges` are the parts of the profile
that the ports share. The Go encoders do not validate UTF-8 and C's do; `Encoded`
adds C's check. In DefProfile the lengths 63, 50 and 13 are constants and SHA-256 with
base36 is the constant operator `Digest`.

**CCodec.** One process: a call of one of the four functions with a text and a
buffer of `cap` bytes. `pc` is the loop or check the call is at; `i`,
`segmentStart`, `outLen` are the locals of the body functions
(`def.c:463-559`), `k` and `len` the position and length of `encode_bytes` and
`decode_bytes` (283-367) called on the current component. An action is one
iteration or one exit:

| Action | Code |
|---|---|
| `Enter` | entry of the four functions; decoders refuse an empty buffer (457, 520) |
| `Scan` | `i++` (502-504, 553-555) |
| `BeginComponent` | a component ends; the encoder validates it (475-486, 293-295) |
| `Emit` | one byte or one escape appended (297-310, 22-41) |
| `EndEncode` | room for the terminator, terminator (312-318) |
| `TakeLiteral`, `TakeHyphen`, `TakeEscape` | the decoder's loop (330-358) |
| `EndDecode` | UTF-8 check of what was stored, terminator (360-366) |
| `EndComponent` | separator copied, or return (487-501, 538-552) |

The component functions are the same machine without the scan. The buffer
`out` is a function from the offsets stored to so far, so a store outside
0..cap-1 and a byte that is reported but was never stored are both visible.
`TakeHyphen` and `TakeEscape` are one `if` chain in the code; the step between
them is where the two digits are about to be read. The sums and differences
that the code compares with a capacity (`Fits`, `TerminatorFits`,
`SeparatorFits`, `Room`) wrap at `SizeModulus`. The one assumption about the
caller, `Disjoint`, is that the text and the buffer are two objects of one
address space, so their sizes add up to at most `SizeModulus`; with it none of
these wraps, which is proved and not assumed. Positions in the text, among them
the sums that `AtSeparator` and `EscapeComplete` compare with its length, are
plain naturals in the model: they exceed the length of the text by two at most,
and no object in memory comes that close to `SIZE_MAX`.

**CRoundTrip** is the caller of `packages/c/tests/test_vectors.c:589-640`: it
passes what an encoder stored, read as a C string, to the decoder, and the
decoder's result to the encoder again. Each call has a buffer of any capacity,
so refused calls occur at every position.

**CProfile.** A call of `def_encode_profile` or `def_decode_profile`, one step
per call they make or exit they take. `heap` follows the two temporary buffers:
unset, null, live, freed, or misused (freed twice or without being allocated).
`Malloc` lets either or both fail. The copy of a reversible label and the frees
after it are two steps (`CopyCore`, `EndCopy`; `RefuseCore` when there is no
room), so that `HeapDiscipline` sees in which order they are. The codec functions are taken by their
contract (`Answers`), which CCodec is checked to implement. `Send` is the
caller that decodes the label it was given, with a buffer of any capacity;
`sent` remembers the text. The three steps that call a Core function take the
set of its possible answers as a parameter: in `Step` that is the contract, in
CLibrary the answer that came.

**CSha256.** `sha256_digest` as calls of `sha256_update` for the text, the
padding and the length. The state of the hash is represented here by the
sequence of blocks compressed into it, which determines it. Bytes of the
uninitialised block buffer, and bytes past the array `pad`, are `Undefined`. The
bit counter wraps at `CountModulus`.

**CSha256Transform.** `sha256_transform`, one iteration of its loops per step:
`Load` the block, `Schedule` the words 16 to 63, 64 times `Round`, `AddToState`. A
`uint32_t` is the set of its bits that are set, so that shifts, rotations and
`^`, `&`, `~` are operations on sets, and `Add` ripples the carry and drops the last
one.

**CHashLabel.** `encode_profile_hash` with `base36_encode` inlined: `DivideByte`
is one iteration of the inner loop, `StoreDigit` the end of an outer one. The
digest is any sequence of `DigestLength` bytes. **Base36Ports** adds the
conversions of the other ports: Go and Java divide once for each place of the
label, JavaScript, Python and .NET divide until nothing is left and pad. Rust's
is the division of C.

**CHash.** `encode_profile_hash` with all it calls. When CHashLabel has passed
its checks, `CallSha` starts CSha256 on the text; every block CSha256 compresses
is loaded into CSha256Transform, which runs to its end before CSha256 goes on;
then CHashLabel divides the 32 bytes of the state.

**CLibrary.** The machine of CProfile with a call of CCodec and a call of CHash.
`CallCore` passes text and capacity and starts CCodec; `CoreReturns` is the step
of CProfile with the one answer CCodec gave, and starts the hash when that is
next; `HashReturns` delivers what the hash has stored. One process: while a Core
function or the hash runs, the profile function waits.

**TextPorts.** The four ports whose strings are not bytes, in their own units,
with what each does differently: what becomes of a lone surrogate, the order of
the edge and length checks, TextDecoder's byte order mark, the round through
bytes in the Java and .NET encoders, the cast in the .NET decoder. What the
platforms' converters do is in **Unicode** and marked external.

**Interop.** A call (`fn`, `dir`, `arg`, `marker`) is given to up to two ports,
any two (`Ask...`, one action per port; `AtMostOne`, `AtMostTwo` are that
bound); `Forward` takes what one of them answered and makes the next call with
it, so that a text is encoded by one port, decoded by another and encoded again
by a third. A text is a sequence of code points, and each port sees it in its
own form. C and C++ are taken by their contract, C with enough memory and
buffer, C++ with the buffers of the wrapper (`BufferSize`, `LabelBufferSize`).
`webCrypto` says whether the JavaScript platform has `crypto.subtle`. A C
string holds no NUL, a Rust string no lone surrogate; those ports are not asked
then.

**CodecContract, ProfileContract** are the abstract specifications: a call has
a text, a capacity and an answer, which is pending and becomes, once, one of
the answers it may have. What a text is defined to become is a parameter
(`Defined`; `EncodeProfile`, `DecodeProfile`), so the contracts know nothing of
the encoding; the refinements pass the reference. **Outcome** has the rule the
calls share: a result that fits with its terminator is
given; one that does not is refused; a malformed text is answered with the
error of its first malformed component, or refused for space when the capacity
is below the worst case for its length (the C functions stop at whichever they
meet first). Every call is answered.

## 3. What is checked

| Run | Instance | Distinct states |
|---|---|---|
| `codec_encode` | 1365 texts of up to 5 tokens: `-`, `Z`, `é`, and the first byte of `é` alone; capacities 0-12, 16, 31 | 275 148 |
| `codec_decode` | 4681 texts of up to 4 tokens: `-`, `a`, `2`, `A`, `-2d`, `-00`, and the escapes of the two bytes of `é`; capacities 0-7, 13 | 811 892 |
| `round_trip` | texts of up to 4 of 8 tokens, three calls, capacities 2, 8, 25 | 604 129 |
| `profile` | labels of 9 bytes, digests of 5, markers of up to 4; texts of up to 3 tokens and three longer ones; 8 markers, 5 of them invalid; capacities 0, 1, 4, 5, 9, 10; `SIZE_MAX` 18 | 107 216 |
| `library` | the lengths 63, 50 and 13 of `def.h`; 20 texts (those of the profile vectors, and texts whose hash input is 14, 55, 56, 64, 68, 119 and 126 bytes long), 11 labels, the default marker and `abc--`; capacities 55 and 64 | 27 985 |
| `interop` | the profile of `profile`; texts of up to 3 of 8 characters, labels of up to 3 of 12 tokens, two markers, wrapper buffers of 10 bytes | 568 985 |
| `interop_...` | the same, with the texts or labels the question needs | counterexamples |
| `sha256` | the block size of 64, one message of each length from 0 to 200; counter of 1024 bits | 2 454 |
| `hash_label` | digests of 3 bytes and 5 digits: 512 digests, 3 markers, 5 capacities | 87 040 |

**`codec_encode`, `codec_decode`.** `StoresInBuffer`, `ReadsInComponent`,
`ReturnContract` (OK means all that is reported has been stored and terminated;
an error leaves `*output_length` alone), `NoRawSeparator` (an encoded component
holds no `--`, also across two escapes), `WorstCaseCapacity` (3n+1 and n+1
bytes are never too few), and `ImplementsContract`, the refinement of
CodecContract with its liveness. The tokens make every run of hyphens up to
five, separators at both ends, escapes cut off by the end of the text and by a
separator, a character split by a separator, a decoded NUL, and every point at
which the buffer can run out. `SizeModulus` is 42, just above the largest text
with the largest buffer in either run, so any sum beyond what `Disjoint` gives
would wrap where the code compares it with a capacity.

**`round_trip`.** `RoundTrip` (decode(encode(x)) is x in lower case and is never
rejected), `StableRepresentation` (encoding the decoded text gives the same
representation), `KeepsHierarchy` (as many components, the same ones empty).

**`profile`.** `HeapDiscipline`, `LabelShape`, `LabelBounds`, `RefusedForSpace`
(space is refused only for the caller's buffer, a failed malloc or a capacity
that is no `size_t`), `LabelDecodes` (the decoder takes a label for what the
encoder made it), `CaseBlind`, and `ImplementsProfile`. The lengths are small so
that a few tokens reach every limit: bodies of 8, 9 and 10 bytes, marker and
digest together exactly the label length and one less, a body that begins with
the marker, `3n + 1` just below and above `SIZE_MAX`. `Checksum` stands for the
digest; it depends on every byte, so hashing the wrong text shows.

**`library`.** `AnswersVectors`: given memory and room for a label, `def_encode`
and `def_decode` answer the profile vectors of `vectors/test-vectors.json`.
`LabelsInBuffer`: what the profile function, `encode_profile_hash` and
`base36_encode` check of the room adds up. `ImplementsSteps`: every step of the
library is a step of CProfile or leaves its variables alone, and every call
returns. So the contract by which CProfile takes the Core functions is met with
the texts and capacities it really gives them, and the step `HashCanonical` with
`Digest` is what the hash does in some thousand steps. `Digest` is here a table
of the SHA-256 of the texts that are hashed, in base36, computed with a platform
library as the other ports do. The hash inputs end just before and behind the place
where the length no longer fits the block (55, 56, 119), on a block (64) and in a
second one; the digest of one begins with two zeros. Capacity 55 is one byte less than
a hash label with `abc--` and a plain label of 55 bytes need, 64 is enough for
all. malloc may fail. The run is one path per call but for malloc, so that a few
texts at the real lengths are in reach; the small lengths of the other runs give
the combinations.

**`interop`.** `PortsAgree`: two ports that are given one call answer alike,
except in the cases that `MayDiffer` names: a NUL or a full buffer in C++, a
lone surrogate in an encoder's text, a byte order mark in JavaScript, no Web
Crypto, a character beyond ASCII in a .NET decoder, and, between refusals, the
error for a label that is too long. Two of them are wider than the difference
they are for, and say nothing of the answers they let through: `DropsMark`
excuses the JavaScript decoder when the text another port decodes holds U+FEFF
anywhere, although only one at the front of a component is dropped;
`TakesLowByte` excuses the .NET decoder for every label or text with a
character beyond U+007F, although most are refused there as elsewhere. The
calls are those of any caller. They are not taken from the repository's vector
tests, which ask each port by itself and compare with expected answers; the
mapped lines of those tests show the calls, not their order. `RelayKeepsText` and
`RelayKeepsRepresentation`: for a text without NUL, lone surrogate and byte order
mark, what one port encodes every other decodes to the lower-case text, and a
third encodes that to the representation of the first. Two ports per call are
enough for an agreement of all, and three calls for every pair of steps.

**`interop_mark`, `interop_nul`, `interop_foreign`, `interop_ill_formed`.**
Expected to fail, one for each statement of the RFC that a port does not keep;
`PROJECT.json` quotes them ("findings"): JavaScript drops a byte order mark; C++
cuts a text at a NUL; .NET decodes U+0161 as `a`; Go, JavaScript, Java and .NET
encode text that is not Unicode. Two smaller differences have no run of their
own, only their case in `MayDiffer`: JavaScript and Python look at the edges of a
label before its length (`OtherRefusal`), and the C++ Core functions refuse a
result of more than 4096 bytes, which no document mentions (`OverBuffer`).

**`sha256`.** `NothingLost` (after each call of `sha256_update` the blocks and
the pending bytes are what was given), `CompressesPadded` (the blocks are the
message, 0x80, zeros, and the length), `NothingUndefined`. Messages of 0 to 200
bytes end at every offset of a block, with and without whole blocks before; the
counter wraps from 128 bytes on.

**`hash_label`.** `NothingLost` (after each digit, the digits stored, read on
from what is left, are the digest, so they are its quotient and remainder; in the
end nothing is left, so two digests never share digits), `QuotientFits`, `StoresInLabel`, `WholeLabel`,
`RefusedUntouched`, `PortsDigits` (the three ways to write a digest agree, leading
zeros included). Three bytes need five digits as 32 need 50: 36^4 < 256^3 <
36^5 and 36^49 < 256^32 < 36^50.

**Fairness.** CCodec, CProfile and CLibrary assume weak fairness of the steps of
the called function: it is sequential code that is running, no step waits for
anything, and malloc answers. The caller's `Send` is under no fairness; it may
never call again. CRoundTrip, CSha256, CHashLabel and Interop have no temporal
property.

**Deadlock** is not checked: a call that has returned does nothing more. That
calls do return is the liveness of the two contracts and of `ImplementsSteps`.

Every property has a mutant: an operator of the model changed in the way a slip
in the code would change it (`Mut...` beside the definition), under which TLC
finds the property violated.

## 4. What is proved

The theorems hold for all values of the constants: all texts, capacities,
markers, digests and lengths, and every width of `size_t` from 8 values up.
They use the named assumptions of the modules: texts are sequences of bytes
without NUL, capacities are sizes, the lengths are naturals, `CountModulus` is
a whole number of blocks; for CProfile, that a digest has `HashBodyLength`
base36 bytes, which is what `WholeLabel` proves of CHashLabel. `LibraryLabels`
below does not use that assumption. Some theorems have a hypothesis of their own,
named where they are described below. For two of CHashLabelProofs it is
`DigestsFit`: a digest is less than 36 to the power `HashBodyLength`. The lemma
`RealLengthsFit` proves it for the lengths of def.h, 32 bytes and 50 digits.

**DataInduction**: induction and recursion along naturals and sequences, stated
with the predicate as a set and the right-hand side of a recursion as a function,
since the provers cannot use a theorem whose parameter is an operator; and lemmas
on Append, FlattenSeq and the elements of sequences.

**DefCoreProofs**: the encoding as DefBytes and DefCore define it. Of a byte:
its escape has digits the decoder accepts and stands for it (`EscapesInvert`),
folding is idempotent (`FoldingIsIdempotent`), no encoding begins with another
(`PrefixFree`). Of a whole text, by induction along its bytes and then along its
components: `ComponentRoundTrip`, `BodyRoundTrip`, `SameRepresentation` (a text
and its lower case), `BodyShape`. The delicate step of `BodyRoundTrip` is that
splitting the joined components at `--` gives the components again, because no
encoded component holds a raw separator or ends in a hyphen that could make one.

**CCodecProofs** has three invariants.

- `Inv`, for `TypeCorrect`, `BufferSafety` (`StoresInBuffer`), `ReadSafety`
  (`ReadsInComponent`), `ReturnsHonestly` (`ReturnContract`) and
  `WorstCaseSuffices` (`WorstCaseCapacity`): what has been stored is contiguous
  from 0 up to the current end, so that a length that is returned covers stored
  bytes only; while a component is being coded, what has been written is below
  the capacity unless nothing has been written yet (a decoder keeps one byte
  free, and so stores its terminator without a check; an encoder does not, and
  so checks); what has been written is at most `Widest` of the input consumed
  (three bytes per byte for an encoder, one for a decoder; a separator is two
  for two), so that a refusal for space bounds the capacity by the worst case.
  From `Disjoint` and these bounds, `FitsIsRoomInBuffer` shows that no sum or
  difference that is compared with a capacity wraps. `ComponentsStayWhole` (`NoRawSeparator`) adds that
  what is written so far does not end in a hyphen.
- `CodeInv`: what is stored so far, followed by what DefCore defines for the rest
  of the text, is what DefCore defines for the text. Its parts say it at each
  place of the scanner: of the components done and those left (`RestInv`,
  `PassedInv`, `FoundInv`), of the component in hand (`EmittedInv`, `TakenInv`,
  `HexInv`, `PieceInv`), and of what is answered (`StatusInv`, `AnswerInv`).
- `CallsInv` (`Inv`, `CodeInv` and `CallerInv`) is about the caller of CRoundTrip,
  who passes the results on.

`CodecImplementsContract` follows from the first two: every step of CCodec is a
step of CodecContract or a stutter. With `BodyRoundTrip` and `SameRepresentation`
the third gives `DecodesWhatItEncoded` (`RoundTrip`), `RepresentationIsStable`
(`StableRepresentation`) and `HierarchyIsKept` (`KeepsHierarchy`).

**CProfileProofs**: `HeapSafety` (`HeapDiscipline`), since the state of the two
pointers is determined by the place in the code, and `LabelsFit` (`LabelBounds`).
`ProfileInv` adds what has been checked and computed at each place in the code
(`WorkInv`; among it, that the label in the caller's buffer is the body
and fits, before the frees), what the two functions return, refusals and their reasons included
(`EncodedInv`, `DecodedInv`), and that a label sent on to the decoder is what
DefProfile defines for its text (`SentInv`). From it come `ProfileTypes`, `LabelsWellFormed`
(`LabelShape`), `RefusedOnlyForSpace` (`RefusedForSpace`), `CaseIsIgnored`
(`CaseBlind`), `LabelsDecode` (`LabelDecodes`) and `ProfileImplementsContract`:
every step is a step of ProfileContract or a stutter. The answer is pending
until the call returns, also when the label has been copied already (`Given`). For `LabelDecodes` the
decoder must not take a reversible label for a hash label or the reverse; that
is a lemma on the first bytes of a body.

**CSha256Proofs**: `TypeCorrect` and `CompressesDefined` (`NothingUndefined`). The
bit counter is advanced on entry of `sha256_update`, before the bytes are
copied; `AheadInv` states by how much it is ahead of the buffer at each place.
`CountFacts` shows that a wrapping counter still gives the offset in the block.
`HashInv` adds what each call is given (`DataInv`), that the counter agrees with
it before and after the call (`CountInv`), and that the blocks and the pending
bytes are all that was given so far, in order (`CollectedInv`). From it `UpdateLosesNothing` (`NothingLost`) and `PaddedIsCompressed`
(`CompressesPadded`).

**CHashLabelProofs**: `TypeCorrect`, `LabelInBuffer` (`StoresInLabel`),
`NoQuotientLost` (`QuotientFits`), `LabelIsWhole` (`WholeLabel`), `RefusesFirst`
(`RefusedUntouched`). The invariant: the buffer holds the marker and the digits
from the end of the label down to the place reached, and nothing between.
`DigitsAreTheDigest` (`NothingLost`) needs `NumberInv`: amid a division the
quotient bytes, the remainder and the bytes still to divide make up the number
that was to be divided (`DividedByte`), and the digits stored read on from it
to the digest. With `DigestsFit` the quotient is 0 after the last digit.
`PortsWriteTheDigest` (`PortsDigits`): each port's digits read as the digest and
are as many, and `HashBodyLength` digits have one reading.

**CLibraryProofs**: `LibraryHeap` (`HeapDiscipline`) and `LibraryLabels`
(`LabelsInBuffer`) of the composed library. The first uses the invariant of
`HeapSafety` again: its lemma `HeapAction` is about the steps of CProfile with any
answers, and the steps inside a Core function or the hash leave CProfile's
variables alone. The invariant of the second, `LabelInv`, follows the hash from
its call to its return: it runs only while the profile function is at `hash`;
nothing is stored before its checks have passed; after them the whole label is
below the capacity and the limit; what it reports is the length it has checked.
Neither uses what a Core function or SHA-256 computes.

The other three do. `LibraryImplementsSteps` is the safety part of
`ImplementsSteps`: every step of the library is a step of CProfile or leaves its
variables alone. `LibraryInv` is `ProfileInv` and `LabelInv` with two more parts.
`CoreInv`: a Core function runs only at the place whose step takes its answer, on
the text and the buffer of that step, and there the invariants of CCodecProofs
hold, taken from an instance of that module (`Scanner`); so what it returns is
one of the `Answers` of its definition, and for the two temporary buffers,
which have the worst case of room, it is the definition itself. `AnswerInv`: the
hash refuses what the one step `HashCanonical` refuses, and its label begins
with the marker. From it all that is proved of CProfile by contract follows for
the library (`LibraryKeepsPromises`, `LibraryImplementsContract`). Two things are
their hypotheses. `AddressSpace`: a text, its terminator and the buffer beside it
fit the address space, as two objects of C do (in `library` texts have at most 126
bytes and `SizeMax` is 1000). `DigestComputed`: the digits the hash has written are
`Digest` of its text, which says what the constant `Digest` stands for; that the
transform computes it for real digests is what the run `library` shows.

**InteropProofs**. The first invariant, `AskedInv`, says that each answer on
record is one its port computes of the call (`Possible`), so that comparing ports
is comparing functions. It needs no hypothesis, and gives `BytePortsAnswerAlike` (C,
Go and Rust answer every call with well-formed text, and every decoding, alike) and
`JsAndJavaAnswerAlike` (the two decode alike but for the mark and the one error).
The four invariants of the run follow from four steps.

- *Transcoding.* UTF-8 and UTF-16 are made character by character by a table that
  keeps ASCII and writes nothing else with it (`Faithful`). All that the code looks
  for is ASCII. By induction along the text, every form of a text then has its
  separators, hyphens at the edges and prefixes at the same places, and splitting
  and transcoding can be done in either order (`SplitTranscoded`, `Views`,
  `ViewFacts`).
- *Reading.* `FromUtf8` and `FromUtf16` are scans that read a character and skip its
  width; what a scan reads of a text whose front is whole characters is what it
  reads of the front and then of the rest (`ReadsFront`). With the bytes and units
  of one character this gives `Utf8RoundTrip` and `Utf16RoundTrip`, and that a
  text with a byte order mark in front of a component holds one (`MarkInside`).
- *Ports.* Each port's encoders and decoders, applied to its form of a text, give what
  Go's give of the UTF-8 (`TextAnswers`, `LabelAnswers`), or it has one of the
  reasons of `MayDiffer` (`PossibleAgrees`, with `Instead` for the answer of such a
  port and `EitherRefusal` for a label that is refused in either order of the
  checks). A decoder refuses all that is not ASCII in any form (`Refused`), but for
  .NET's. `TypeInv` adds the types of the call: `TypesHold` (`TypeOK`) and
  `PortsAnswerAlike` (`PortsAgree`).
- *Calls with an earlier answer.* `RelayInv` adds to `TypeInv` how the call came
  about (`Relayed`): in the second round the argument is the representation of
  the first call's text, in the third what is decoded from it. With
  `ComponentRoundTrip`, `BodyRoundTrip` and `SameRepresentation` of DefCoreProofs:
  `RelayGivesTextBack` (`RelayKeepsText`) and `RelayGivesRepresentationBack`
  (`RelayKeepsRepresentation`).

These four have the hypothesis `DigestIsDigest`: the digest of every string of bytes is
`HashBodyLength` base36 digits, which is what `WholeLabel` proves of CHashLabel. The
assumption `CallsAssumption` of Interop says that texts and labels are sequences of
code points, surrogates included, and markers bytes. Without the hypothesis a hash label
need not be ASCII, nor fit, and `TypeOK` fails.

Only model-checked:

- liveness, that is, the fairness part of `ImplementsContract`,
  `ImplementsProfile` and `ImplementsSteps`, which the prover cannot do;
- `AnswersVectors`, whose expected digests come from running the transform.

## 5. What is not modelled

- SHA-256 of the ports other than C: the platform's or a library's, the
  constant `Digest`.
- The promise of the JavaScript `encodeProfile`: it shares no state with other
  calls, and its answer is one step.
- Strings with a NUL given to C: a C string cannot hold one.
- A caller that passes a null pointer, or a text or buffer that overlap: the C
  API does not allow it.
- One name in the Java port as it stands in the repository: `Def.java:152` calls
  `onUnmappedCharacter` of `CharsetDecoder`, which the JDK calls
  `onUnmappableCharacter`, so the file does not compile. The port is modelled as
  if it had the JDK's name; UTF-8 decoding has no unmappable character, so no
  property depends on it.
- The tests' vector file reader, build files and packaging.

## 6. Plan

Done: DefBytes, DefCore, DefProfile, CCodec, CRoundTrip, CProfile, CSha256,
CSha256Transform, CHashLabel, Base36Ports, CHash, CLibrary, Unicode, TextPorts,
Interop, the contracts, and the theorems above. Every function of the C library
and of the ports is modelled, and every invariant of a run is a theorem but
`AnswersVectors`, which is about the vectors only. Nothing of the plan is left.
