--------------------------- MODULE ImgStoreDecode ---------------------------
(***************************************************************************)
(* Engine::decode_group_image_store_response                               *)
(* (src/ricq-core/src/command/img_store/decoder.rs). The protobuf body is *)
(* its tryup_img_rsp list; each entry is its result code, file_exit, and   *)
(* the up_ip and up_port lists (ports as the u32 the protobuf carries).   *)
(* The file id, upload key and fail message are byte strings copied        *)
(* through and are left out.                                               *)
(***************************************************************************)
EXTENDS Naturals, Sequences, SequencesExt

\* `port as u16`: the low 16 bits of the u32.
AsU16(port) == port % 65536

\* tryup_img_rsp.pop(): the last entry.
Popped(tryup) == Last(tryup)

\* up_ip.into_iter().zip(up_port).map(|(ip, port)| RQAddr(ip, port as u16)):
\* zip stops at the shorter list.
Addrs(rsp) ==
    LET z == Zip(rsp.ips, rsp.ports) IN [i \in DOMAIN z |-> <<z[i][1], AsU16(z[i][2])>>]

\* The decoder: Err when the list is empty (ok_or_else(..)?) or the popped
\* entry's result is not 0; otherwise Exist or NotExist by file_exit, with
\* the addresses.
DecodeGroupImageStoreResponse(tryup) ==
    IF tryup = <<>> THEN [variant |-> "Err", addrs |-> <<>>]
    ELSE LET rsp == Popped(tryup) IN
         IF rsp.result # 0 THEN [variant |-> "Err", addrs |-> <<>>]
         ELSE [variant |-> IF rsp.fileExit THEN "Exist" ELSE "NotExist",
               addrs |-> Addrs(rsp)]
=============================================================================
