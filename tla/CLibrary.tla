------------------------------ MODULE CLibrary ------------------------------
(***************************************************************************)
(* The whole of packages/c/src/def.c: the profile functions of CProfile    *)
(* with the Core functions of CCodec and the hash of CHash in the place of *)
(* the contracts they are taken by there.  One process; at any time it is  *)
(* in one of the three.                                                    *)
(***************************************************************************)
EXTENDS CProfile
LOCAL INSTANCE SequencesExt

CONSTANT CountModulus   \* where the bit counter of SHA-256 wraps: 2^64

VARIABLES
  fn, text, room, codecPc,               \* the call of a Core function
  i, segmentStart, outLen, k, len, out,
  codecStatus, codecLength,
  labelPc, buf, left, j, rem,            \* encode_profile_hash and base36_encode
  label, labelStatus, labelLength,
  shaPc, phase, data, taken, idx,        \* SHA-256
  count, buffer, blocks, bitcount,
  state, stage, t, w, r

codecVars   == <<fn, text, room, codecPc, i, segmentStart, outLen, k, len, out,
                 codecStatus, codecLength>>
hashVars    == <<labelPc, buf, left, j, rem, label, labelStatus, labelLength,
                 shaPc, phase, data, taken, idx, count, buffer, blocks, bitcount,
                 state, stage, t, w, r>>
libraryVars == <<vars, codecVars, hashVars>>

Codec == INSTANCE CCodec WITH
  Functions <- {"encode_body", "encode_component", "decode_body"},
  Inputs <- Texts \cup Labels, SizeModulus <- SizeMax + 1,
  input <- text, cap <- room, pc <- codecPc, status <- codecStatus, length <- codecLength

Hash == INSTANCE CHash WITH Canonicals <- {EncodeComponent(s) : s \in Texts}

\* "idrto-h1--"
DEF_IDRTO_HASH_MARKER == <<105, 100, 114, 116, 111, 45, 104, 49, 45, 45>>

\* def_encode and def_decode: the profile functions with this marker
DefaultCall == marker = DEF_IDRTO_HASH_MARKER

LibraryInit ==
  /\ Init /\ Hash!Init
  /\ fn = "none" /\ text = <<>> /\ room = 0 /\ codecPc = "idle"
  /\ i = 0 /\ segmentStart = 0 /\ outLen = 0 /\ k = 0 /\ len = 0
  /\ out = [o \in {} |-> NUL]
  /\ codecStatus = "PENDING" /\ codecLength = NotSet

-----------------------------------------------------------------------------
(* The Core functions                                                      *)

CallCore(f, s, capacity) ==
  /\ codecPc = "idle" /\ codecPc' = "enter"
  /\ fn' = f /\ text' = s /\ room' = capacity
  /\ i' = 0 /\ segmentStart' = 0 /\ outLen' = 0 /\ k' = 0 /\ len' = 0
  /\ out' = [o \in {} |-> NUL]
  /\ codecStatus' = "PENDING" /\ codecLength' = NotSet
  /\ UNCHANGED <<vars, hashVars>>

CallEncodeBody == pc = "body" /\ CallCore("encode_body", input, temporary)

\* mutant: the body is hashed
MutCallEncodeComponent ==
  /\ pc = "choose" /\ ~Reversible
  /\ CallCore("encode_body", input, temporary)

CallEncodeComponent ==
  /\ pc = "choose" /\ ~Reversible
  /\ CallCore("encode_component", input, temporary)

CallDecodeBody ==
  /\ pc = "dispatch" /\ ~IsPrefix(marker, input)
  /\ Len(input) <= MaxLabelLength /\ ~BadEdges(input)
  /\ CallCore("decode_body", input, cap)

CoreStep == Codec!Next /\ UNCHANGED <<vars, hashVars>>

\* what the call has answered
CoreAnswer ==
  [status |-> codecStatus,
   text   |-> IF codecStatus = "OK" THEN [b \in 1..codecLength |-> out[b - 1]] ELSE <<>>]

CoreReturns ==
  /\ codecPc = "done" /\ codecPc' = "idle"
  /\ \/ EncodeToCore({CoreAnswer})
     \/ EncodeToCanonical({CoreAnswer})
     \/ DecodeReversible({CoreAnswer})
  /\ IF pc' = "hash" THEN Hash!Start ELSE UNCHANGED hashVars
  /\ UNCHANGED <<fn, text, room, i, segmentStart, outLen, k, len, out, codecStatus, codecLength>>

-----------------------------------------------------------------------------
(* The hash                                                                *)

HashStep == Hash!Step /\ UNCHANGED <<vars, codecVars>>

HashReturns ==
  /\ pc = "hash" /\ labelPc = "done"
  /\ IF labelStatus = "OK" THEN Deliver([b \in 1..labelLength |-> label[b - 1]])
     ELSE Refuse(labelStatus)
  /\ Free(Released)
  /\ UNCHANGED <<call, temporary, core, canonical, sent, codecVars, hashVars>>

-----------------------------------------------------------------------------
(* What the profile functions do themselves                                *)

OwnStep ==
  /\ \/ EnterEncode \/ Malloc \/ Release \/ RefuseCore \/ CopyCore \/ EndCopy
     \/ EnterDecode \/ DecodeHashed \/ (codecPc = "idle" /\ DecodeReversible({}))
  /\ UNCHANGED <<codecVars, hashVars>>

LibraryStep == \/ OwnStep
               \/ CallEncodeBody \/ CallEncodeComponent \/ CallDecodeBody
               \/ CoreStep \/ CoreReturns
               \/ HashStep \/ HashReturns

LibrarySend == Send /\ UNCHANGED <<codecVars, hashVars>>

LibrarySpec ==
  LibraryInit /\ [][LibraryStep \/ LibrarySend]_libraryVars /\ WF_libraryVars(LibraryStep)

-----------------------------------------------------------------------------
\* What the profile has checked of the room is what the hash needs of it: the
\* hash stores in the caller's buffer only, and a label, copied or hashed, is
\* returned whole, no longer than DNS allows and with its terminator.
LabelsInBuffer ==
  /\ pc = "hash" => Hash!Label!StoresInLabel
  /\ op = "encode" /\ status = "OK" =>
       length = Len(output) /\ length < cap /\ length <= MaxLabelLength

\* The library takes the steps of CProfile: the Core functions keep their
\* contract with the buffers they are really given, the hash is the digest
\* that every port's platform computes, and every call returns.
ImplementsSteps == Init /\ [][Step \/ Send]_vars /\ []<>(pc = "done")
=============================================================================
