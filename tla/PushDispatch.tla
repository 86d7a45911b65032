---------------------------- MODULE PushDispatch ----------------------------
(***************************************************************************)
(* The decode and dispatch of one admitted PushMessageInfo in              *)
(* Client::process_push_req (src/ricq/src/client/processor/online_push.rs),*)
(* as an operator from the info to what the handler is given: the events, *)
(* in order, and whether an .unwrap() or a Buf read panicked. An info is   *)
(* its msg_type, its sub-type code, whether the envelope (the 6 header     *)
(* bytes of a 732, the jce MsgType0x210 of a 528) and the sub-body can be  *)
(* read, whether a mute's operator is the client itself, and how many of   *)
(* its items give an event (n) and, for 0x27, how many friends it deletes  *)
(* (m). Field values (uins, names, durations) are copied through and left *)
(* out.                                                                    *)
(***************************************************************************)
EXTENDS Naturals, Sequences

Emit(evs) == [events |-> evs, panic |-> FALSE]
Panicked == [events |-> <<>>, panic |-> TRUE]
Nothing == Emit(<<>>)

\* n handler calls of one event kind (stream::iter(..).for_each, for loops).
Repeat(e, n) == [i \in 1..n |-> e]

\* 732 sub-types 0x10 | 0x11 | 0x14 | 0x15: group notify messages.
GroupNotifyTypes == {\h10, \h11, \h14, \h15}

\* 0x0c, group mute: the operator is read first; the client's own mute is
\* skipped with `continue`; otherwise advance(6) and two get_u32.
GroupMute(info) ==
    IF info.body = "short" THEN Panicked
    ELSE IF info.self THEN Nothing
    ELSE Emit(<<"GroupMute">>)

\* Mutant: the recalls are handed to the handler before the body is known
\* to decode (a decode per recalled message, failing on the last).
GroupNotifyLazy(info) ==
    IF info.body = "short"
    THEN [events |-> Repeat("GroupMessageRecall", info.n), panic |-> TRUE]
    ELSE Emit(Repeat("GroupMessageRecall", info.n))

\* advance(1), NotifyMsgBody::from_bytes(..).unwrap(), then one
\* GroupMessageRecall per recalled message whose msg_type is not 2.
GroupNotify(info) ==
    IF info.body = "short" THEN Panicked
    ELSE Emit(Repeat("GroupMessageRecall", info.n))

\* msg_type 732: get_u32 (group code), get_u8 (i_type), get_u8, then the
\* match on i_type; any other i_type is ignored.
Process732(info) ==
    IF info.hdr = "short" THEN Panicked
    ELSE IF info.sub = \h0c THEN GroupMute(info)
    ELSE IF info.sub \in GroupNotifyTypes THEN GroupNotify(info)
    ELSE Nothing

\* The 528 sub-types with a decoder, and the events one decoded body gives:
\* a FriendMessageRecall per recalled message; a NewFriend if the notify
\* is Some; a GroupLeave; a FriendPoke if uin_str1 parses to a non-zero
\* sender; a GroupNameUpdate per profile field 1, then a DeleteFriend per
\* deleted uin. 0x44 (group and friend sync) does nothing.
Sub528Events(info) ==
    LET one == IF info.n > 0 THEN 1 ELSE 0 IN
    CASE info.sub \in {\h8A, \h8B} -> Repeat("FriendMessageRecall", info.n)
      [] info.sub = \hB3 -> Repeat("NewFriend", one)
      [] info.sub = \hD4 -> <<"GroupLeave">>
      [] info.sub \in {\h122, \h123} -> Repeat("FriendPoke", one)
      [] info.sub = \h27 -> Repeat("GroupNameUpdate", info.n) \o Repeat("DeleteFriend", info.m)

Sub528Decoded == {\h8A, \h8B, \hB3, \hD4, \h122, \h123, \h27}

\* Mutant: the sub-body is decoded before the match on sub_msg_type, so an
\* unknown or undecoded sub-type with a malformed body panics.
Process528DecodeFirst(info) ==
    IF info.hdr = "short" \/ info.body = "short" THEN Panicked
    ELSE IF info.sub \notin Sub528Decoded THEN Nothing
    ELSE Emit(Sub528Events(info))

\* msg_type 528: jcers::from_buf(..).unwrap(), then the match on
\* sub_msg_type: each decoder's from_bytes(..).unwrap() before any event.
Process528(info) ==
    IF info.hdr = "short" THEN Panicked
    ELSE IF info.sub \notin Sub528Decoded THEN Nothing
    ELSE IF info.body = "short" THEN Panicked
    ELSE Emit(Sub528Events(info))

\* match info.msg_type; any other msg_type is ignored.
DispatchInfo(info) ==
    CASE info.type = 732 -> Process732(info)
      [] info.type = 528 -> Process528(info)
      [] OTHER -> Nothing

(***************************************************************************)
(* The type and sub-type codes that have a decoder (spec 4.7: "branch by  *)
(* an integer message-type code into one of several sub-decoders"); every *)
(* other code is to be ignored.                                            *)
(***************************************************************************)
Known(info) ==
    \/ info.type = 732 /\ info.sub \in GroupNotifyTypes \cup {\h0c}
    \/ info.type = 528 /\ info.sub \in Sub528Decoded
=============================================================================
