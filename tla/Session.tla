------------------------------ MODULE Session ------------------------------
(***************************************************************************)
(* What one connection of the client promises, abstractly: it is opened   *)
(* once and closed once; while it is open, frames published on the        *)
(* outbound channel reach the wire in publish order, possibly with gaps,  *)
(* never twice and never after the close; and a close that has been       *)
(* requested while the connection is open (a disconnect signal) happens.  *)
(* NetLoop implements it (see NetLoopSession).                             *)
(***************************************************************************)
EXTENDS Naturals, Sequences

CONSTANT MaxFrames     \* frames published over the connection's lifetime

VARIABLES
    conn,       \* "idle", "open" or "closed"
    closing,    \* a close has been requested and not yet carried out
    sent,       \* frames published so far (ids 1..sent)
    wire        \* frames written, in order

svars == <<conn, closing, sent, wire>>

SInit == conn = "idle" /\ closing = FALSE /\ sent = 0 /\ wire = <<>>

Open ==
    /\ conn = "idle" /\ conn' = "open"
    /\ UNCHANGED <<closing, sent, wire>>

Publish ==
    /\ sent < MaxFrames /\ sent' = sent + 1
    /\ UNCHANGED <<conn, closing, wire>>

\* Only a frame newer than every frame already written may follow them.
Transmit ==
    /\ conn = "open"
    /\ \E f \in 1..sent :
          /\ \A i \in 1..Len(wire) : wire[i] < f
          /\ wire' = Append(wire, f)
    /\ UNCHANGED <<conn, closing, sent>>

RequestClose ==
    /\ conn = "open" /\ ~closing /\ closing' = TRUE
    /\ UNCHANGED <<conn, sent, wire>>

Close ==
    /\ conn = "open" /\ conn' = "closed" /\ closing' = FALSE
    /\ UNCHANGED <<sent, wire>>

SNext == Open \/ Publish \/ Transmit \/ RequestClose \/ Close

\* A requested close is carried out; nothing else has to happen.
SSpec == SInit /\ [][SNext]_svars /\ WF_svars(closing /\ Close)
=============================================================================
