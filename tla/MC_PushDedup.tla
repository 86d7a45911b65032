--------------------------- MODULE MC_PushDedup ----------------------------
(* Model values for checking PushDedup with TLC.                           *)
EXTENDS PushDedup

\* Eleven keys: eleven distinct misses are needed before the first flush.
MC_NKeys == 11
\* A connection started at time 2; pushes stamped 0, before (1), at (2).
MC_StartTime == 2
MC_Times == {0, 1, 2}
MC_OnlyNow == {2}
\* online_push.rs: cache_misses().unwrap_or_default() > 10
MC_MissLimit == 10
\* The threshold is a parameter of the model: the exhaustive run over both
\* streams, all times and payloads uses 2 (four keys and five pushes reach
\* a flush and a retransmission after it).
MC_SmallMissLimit == 2
MC_SmallNKeys == 4
\* Both streams with a few pushes each.
MC_FewPushes == [s \in {"req", "trans"} |-> 3]
\* The flushing stream next to a short second stream.
MC_MixedPushes == [s \in {"req", "trans"} |-> IF s = "req" THEN 4 ELSE 2]
\* Two handler tasks pending at once.
MC_MaxInflight == 2
\* Push-request packets of up to two infos, so that a panic can leave the
\* rest of a batch, and batches of one where the batch does not matter.
MC_BatchLen == 2
\* A 528 GroupLeave that decodes, and a 732 whose header is short.
MC_GroupLeave == [type |-> 528, hdr |-> "ok", sub |-> \hD4, body |-> "ok",
                  self |-> FALSE, n |-> 0, m |-> 0]
MC_ShortHeader == [MC_GroupLeave EXCEPT !.type = 732, !.hdr = "short"]
MC_OkPayloads == {MC_GroupLeave}
MC_AllPayloads == {MC_GroupLeave, MC_ShortHeader}
=============================================================================
