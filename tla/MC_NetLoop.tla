---------------------------- MODULE MC_NetLoop -----------------------------
(* Model values for checking NetLoop with TLC.                             *)
EXTENDS NetLoop

\* Two application frames and the MSF offline response: enough for two
\* frames to be queued at once and for the response to race them.
MC_MaxAppFrames == 2
\* Two inbound packets: an ordinary push and an MSF force-offline push.
MC_MaxInbound == 2
\* A channel large enough for every frame (no lag) ...
MC_Capacity == 3
\* ... and one that two queued frames overflow.
MC_SmallCapacity == 1
=============================================================================
