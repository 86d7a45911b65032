---------------------------- MODULE MC_Decoders -----------------------------
(***************************************************************************)
(* The pure decoders of the protocol layer, each called on every input of  *)
(* a bounded domain: multi-part group message reassembly (GroupMessage),   *)
(* the proof-of-work solver (Pow), the login response decoder              *)
(* (LoginDecode) and the dispatch of an online push info (PushDispatch).  *)
(* A step is one call of one decoder; `input` holds the arguments of the  *)
(* last call, and the properties compare the code's result on them with   *)
(* the spec's reference definition or its error policy.                   *)
(***************************************************************************)
EXTENDS Naturals, Sequences, FiniteSets, TLC

GM == INSTANCE GroupMessage
PW == INSTANCE Pow
LD == INSTANCE LoginDecode
PD == INSTANCE PushDispatch

VARIABLE input

\* Messages of up to three parts; a part's elems are up to two Elems, each
\* with its inner elem Some (TRUE) or None (FALSE).
MaxParts == 3
Shapes == {<<>>, <<TRUE>>, <<FALSE>>, <<TRUE, FALSE>>}

\* SHA-256 as any function from the integers 0..3 to two digests; every
\* source in 0..3, both type bytes, both target lengths, both flags.
Digests == {"d1", "d2"}
Hashes == [0..3 -> Digests]
Challenges == [typ : {1, 2}, ok : BOOLEAN, src : 0..3, tgt : Digests,
               tgtLen : {31, 32}, rest : {"hdr"}]

\* Every status class of the match, and every TLV map over the tags that
\* matter, a tag "short" only where some reader of it can panic.
Statuses == {0, 1, 2, 40, 160, 162, 204, 239}
Shortable == {\h165, \h546, \h178, \h146}
TlvMaps == UNION {[S -> {"ok"}] : S \in SUBSET (LD!Tags \ Shortable)}
Tlvs == {f @@ g : f \in TlvMaps,
                  g \in UNION {[S -> {"ok", "short"}] : S \in SUBSET Shortable}}

\* Push infos of both decoded types and one other; every sub-type with a
\* decoder, 0x44, and a code unknown to both; envelope and body readable
\* or short; up to two items giving events.
SubCodes == {\h0c, \h10, \h15, \h20, \h8A, \hB3, \hD4, \h122, \h27, \h44}
PushInfos == [type : {732, 528, 7}, hdr : {"ok", "short"}, sub : SubCodes,
              body : {"ok", "short"}, self : BOOLEAN, n : 0..2, m : 0..1]

Init == input = [kind |-> "none"]

CallParseGroupMessage ==
    \E n \in 0..MaxParts : \E parts \in GM!PartArrivals(n, Shapes) :
        input' = [kind |-> "group", parts |-> parts]

CallT546ToT547 ==
    \E ch \in Challenges, H \in Hashes :
        input' = [kind |-> "pow", ch |-> ch, H |-> H]

CallDecode ==
    \E status \in Statuses, tlv \in Tlvs :
        input' = [kind |-> "login", status |-> status, tlv |-> tlv]

CallProcessPushReq ==
    \E info \in PushInfos : input' = [kind |-> "push", info |-> info]

Next == CallParseGroupMessage \/ CallT546ToT547 \/ CallDecode \/ CallProcessPushReq

Spec == Init /\ [][Next]_input

IsPow == input.kind = "pow"
Solvable == input.ch.typ = 2 /\ input.ch.tgtLen = 32

(***************************************************************************)
(* Reassembly is order-independent: whatever order the parts of a message *)
(* arrive in, parse_group_message (the sort_by on pkg_index, the first     *)
(* part's metadata, the elems appended in turn) yields the spec's message: *)
(* the parts in increasing index, metadata from part 0.                    *)
(***************************************************************************)
GroupMessageMatchesSpec ==
    input.kind = "group" =>
        GM!ParseGroupMessage(input.parts) = GM!SpecGroupMessage(input.parts)

(***************************************************************************)
(* t546_to_t547 on a solvable challenge (type 2, 32-byte target) finds the *)
(* smallest value at or above src whose hash is the target, reports the   *)
(* number of increments, and sets ok; it loops forever exactly when there  *)
(* is no such value.                                                       *)
(***************************************************************************)
PowSolveMatchesSpec ==
    IsPow /\ Solvable => PW!T546ToT547(input.ch, input.H) = PW!SpecSolve(input.ch, input.H)

(***************************************************************************)
(* t546_to_t547 on any other challenge returns it with the success flag    *)
(* false and no solved extension (spec 8).                                 *)
(***************************************************************************)
PowPassthroughMatchesSpec ==
    IsPow /\ ~Solvable => PW!T546ToT547(input.ch, input.H) = PW!SpecSolve(input.ch, input.H)

(***************************************************************************)
(* LoginResponse::decode follows the dispatch table: it panics exactly     *)
(* when a TLV it reads is too short (the field that TLV fills is one the   *)
(* row carries), and otherwise returns the row's variant with a field Some *)
(* iff its tag is present (sms_phone only with 0x174), Err for status 0    *)
(* without 0x119, and UnknownStatus keeping every tag but 0x146.           *)
(***************************************************************************)
LoginDecodeMatchesTable ==
    input.kind = "login" =>
        LET d == LD!Decode(input.status, input.tlv)
            shortTags == {t \in DOMAIN input.tlv : input.tlv[t] = "short"}
            carried == LD!SpecDecode(input.status, LD!Repaired(input.tlv)).fields
        IN /\ d.variant = "Panic" <=> \E t \in shortTags : LD!FieldOf[t] \in carried
           /\ d.variant # "Panic" => d = LD!SpecDecode(input.status, input.tlv)

(***************************************************************************)
(* The dispatch of an admitted push info follows the error policy of the  *)
(* spec (4.7, 7): a decode that fails is fatal to the info and never      *)
(* partially applied (no event reaches the handler before the panic); it  *)
(* fails exactly when the envelope of a 732 or 528 is short, or the body  *)
(* of a sub-type that has a decoder is; an unknown type or sub-type code   *)
(* is ignored: no event, and no failure beyond reading its envelope.      *)
(***************************************************************************)
PushDispatchMatchesSpec ==
    input.kind = "push" =>
        LET i == input.info
            out == PD!DispatchInfo(i)
            envelope == i.type \in {732, 528}
        IN /\ out.panic => out.events = <<>>
           /\ out.panic <=> envelope /\ (i.hdr = "short" \/ (PD!Known(i) /\ i.body = "short"))
           /\ ~PD!Known(i) => out.events = <<>>
=============================================================================
