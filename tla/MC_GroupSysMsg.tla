--------------------------- MODULE MC_GroupSysMsg --------------------------
(* Model values for checking GroupSysMsg with TLC.                         *)
EXTENDS GroupSysMsg

CONSTANTS t1, t2

\* One task: passes run one after another; two tasks: they may overlap.
MC_OneTask == {t1}
MC_TwoTasks == {t1, t2}
\* Two requests per kind: one from before the connection started (seq 1)
\* and one after (seq 2).
MC_Seqs == {1, 2}
MC_MsgTime == [q \in MC_Seqs |-> q]
MC_StartTime == 2
\* Three passes: enough for a request to be listed, dropped and listed again.
MC_MaxPasses == 3
=============================================================================
