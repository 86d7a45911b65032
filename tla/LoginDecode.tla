---------------------------- MODULE LoginDecode ----------------------------
(***************************************************************************)
(* LoginResponse::decode (src/ricq-core/src/command/wtlogin/mod.rs). The  *)
(* input is the status byte and the TLV map, as a function from the tags   *)
(* present to "ok" (a value its readers can read in full) or "short" (a   *)
(* value shorter than its readers need: get_u16, copy_to_bytes, advance,   *)
(* read_string_short and read_bytes_short then panic). The output is the  *)
(* variant, the set of its optional fields that are Some, and, for         *)
(* UnknownStatus, the tags left in the map; or Err, or Panic. The contents *)
(* of the 0x119 block (decrypted outside src/) are not modelled.           *)
(***************************************************************************)
EXTENDS Naturals, FiniteSets

\* The tags whose presence or shape changes the outcome.
Tags == {\h119, \h165, \h546, \h174, \h178, \h146, \h104}

\* The optional field each tag fills.
FieldOf == [t \in Tags |->
              CASE t = \h165 -> "image_captcha" [] t = \h546 -> "t547"
                [] t = \h174 -> "t174" [] t = \h178 -> "sms_phone"
                [] t = \h146 -> "message" [] t = \h104 -> "t104"
                [] t = \h119 -> "t119"]

Err == [variant |-> "Err", fields |-> {}, rest |-> {}]
Panic == [variant |-> "Panic", fields |-> {}, rest |-> {}]
Response(v, fields) == [variant |-> v, fields |-> fields, rest |-> {}]

\* Mutant: the sms phone is read from 0x178 without checking for 0x174.
DeviceLockedNoT174Check(tlv) ==
    LET has(t) == t \in DOMAIN tlv IN
    IF has(\h178) /\ tlv[\h178] = "short" THEN Panic
    ELSE Response("DeviceLocked",
                  {FieldOf[t] : t \in {x \in {\h174, \h104, \h178} : has(x)}})

\* status 160 | 239: sms_phone is read from 0x178 only if 0x174 is present.
DeviceLocked(tlv) ==
    LET has(t) == t \in DOMAIN tlv IN
    IF has(\h174) /\ has(\h178) /\ tlv[\h178] = "short" THEN Panic
    ELSE Response("DeviceLocked",
                  {FieldOf[t] : t \in {x \in {\h174, \h104} : has(x)}}
                  \cup (IF has(\h174) /\ has(\h178) THEN {"sms_phone"} ELSE {}))

\* decode: the match on status. 0 requires 0x119 (ok_or_else(..)?); 2
\* splits 0x165 and runs t546_to_t547 on 0x546; 40 and 162 carry nothing;
\* 160 | 239 is DeviceLocked; 204 reads only optional tags; any other
\* status removes 0x146 (advance(4), two read_string_short) and keeps the
\* rest of the map.
Decode(status, tlv) ==
    LET has(t) == t \in DOMAIN tlv
        short(t) == has(t) /\ tlv[t] = "short"
        Some(ts) == {FieldOf[t] : t \in {x \in ts : has(x)}}
    IN CASE status = 0 -> IF has(\h119) THEN Response("Success", {}) ELSE Err
         [] status = 2 -> IF short(\h165) \/ short(\h546) THEN Panic
                          ELSE Response("NeedCaptcha", Some({\h104, \h165, \h546}))
         [] status = 40 -> Response("AccountFrozen", {})
         [] status \in {160, 239} -> DeviceLocked(tlv)
         [] status = 162 -> Response("TooManySMSRequest", {})
         [] status = 204 -> Response("DeviceLockLogin", Some({\h104}))
         [] OTHER -> IF short(\h146) THEN Panic
                     ELSE [variant |-> "UnknownStatus", fields |-> Some({\h146}),
                           rest |-> DOMAIN tlv \ {\h146}]

(***************************************************************************)
(* The dispatch table of the spec (4.2), one row per status class: the    *)
(* variant and the tags whose fields it carries. A field is Some iff its  *)
(* tag is present, except that sms_phone also needs 0x174.                 *)
(***************************************************************************)
DispatchTable ==
    { [codes |-> {0}, variant |-> "Success", tags |-> {}],
      [codes |-> {2}, variant |-> "NeedCaptcha", tags |-> {\h104, \h165, \h546}],
      [codes |-> {40}, variant |-> "AccountFrozen", tags |-> {}],
      [codes |-> {160, 239}, variant |-> "DeviceLocked", tags |-> {\h174, \h178, \h104}],
      [codes |-> {162}, variant |-> "TooManySMSRequest", tags |-> {}],
      [codes |-> {204}, variant |-> "DeviceLockLogin", tags |-> {\h104}] }

SpecDecode(status, tlv) ==
    LET rows == {r \in DispatchTable : status \in r.codes}
        present == {t \in DOMAIN tlv : t # \h178 \/ \h174 \in DOMAIN tlv}
    IN IF status = 0 /\ \h119 \notin DOMAIN tlv THEN Err
       ELSE IF rows = {}
       THEN [variant |-> "UnknownStatus",
             fields |-> IF \h146 \in DOMAIN tlv THEN {"message"} ELSE {},
             rest |-> DOMAIN tlv \ {\h146}]
       ELSE LET r == CHOOSE r \in rows : TRUE IN
            Response(r.variant, {FieldOf[t] : t \in r.tags \cap present})

\* The same map with every value readable in full.
Repaired(tlv) == [t \in DOMAIN tlv |-> "ok"]
=============================================================================
