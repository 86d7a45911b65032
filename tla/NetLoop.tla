------------------------------ MODULE NetLoop ------------------------------
(***************************************************************************)
(* Client::start / stop / disconnect / net_loop (src/ricq/src/client/     *)
(* net.rs) and the MSF force-offline handler (processor/stat_svc.rs).     *)
(* Actors: the task running start(); callers of stop() (the user, and the *)
(* handler spawned for an MSF force-offline push); the application        *)
(* publishing outbound frames; the server. status and online are Relaxed  *)
(* atomics, so each load or store is a step of its own.                   *)
(***************************************************************************)
EXTENDS Naturals, Sequences

CONSTANTS
    MaxAppFrames,   \* outbound frames the application publishes
    MaxInbound,     \* inbound frames the server sends
    Capacity        \* capacity of the out_pkt_sender broadcast channel

ASSUME MaxAppFrames \in Nat /\ MaxInbound \in Nat /\ Capacity \in Nat \ {0}

VARIABLES
    status,       \* Client.status (NetworkStatus in an AtomicU8)
    online,       \* Client.online
    lpc,          \* program counter of the task running start()
    sub,          \* net_loop's receivers of out_pkt_sender and disconnect_signal exist
    rxQ,          \* frames queued for net_loop's out_pkt receiver
    lagged,       \* that receiver fell behind: its next recv() is Err(Lagged)
    discPending,  \* a disconnect signal is queued for net_loop's receiver
    spc,          \* program counter of each stop() caller
    sent,         \* outbound frames published so far (frame ids 1..sent)
    accepted,     \* ids of frames net_loop's receiver accepted (history)
    skipped,      \* accepted frames overwritten in the ring buffer (history)
    wire,         \* frames written to the socket, in order (history)
    inCount       \* inbound frames processed

chan == <<sub, rxQ, lagged, discPending>>
hist == <<sent, accepted, skipped, wire>>
vars == <<status, online, lpc, chan, spc, hist, inCount>>

NetworkStatus == {"Unknown", "Running", "Stop", "NetworkOffline", "MsfOffline"}
Callers == {"user", "msf"}
Reason == [c \in Callers |-> IF c = "msf" THEN "MsfOffline" ELSE "Stop"]
FrameId == 1..(MaxAppFrames + 1)   \* the application's frames and the offline rsp

TypeOK ==
    /\ status \in NetworkStatus /\ online \in BOOLEAN
    /\ lpc \in {"idle", "subscribe", "loop", "exited", "check", "store", "done"}
    /\ sub \in BOOLEAN /\ lagged \in BOOLEAN /\ discPending \in BOOLEAN
    /\ rxQ \in Seq(FrameId) /\ Len(rxQ) <= Capacity
    /\ spc \in [Callers -> {"idle", "rsp", "signal", "status", "online", "event", "done"}]
    /\ sent \in 0..(MaxAppFrames + 1) /\ accepted \subseteq FrameId /\ skipped \subseteq FrameId
    /\ wire \in Seq(FrameId) /\ inCount \in 0..MaxInbound

Init ==
    /\ status = "Unknown" /\ online = FALSE /\ lpc = "idle"
    /\ sub = FALSE /\ rxQ = <<>> /\ lagged = FALSE /\ discPending = FALSE
    \* the user may call stop() at any time; no MSF handler is spawned yet
    /\ spc = [c \in Callers |-> IF c = "user" THEN "signal" ELSE "idle"]
    /\ sent = 0 /\ accepted = {} /\ skipped = {} /\ wire = <<>> /\ inCount = 0

\* Mutant: the channel never overwrites; the buffer grows past capacity.
BroadcastFrameUnbounded ==
    LET f == sent + 1 IN
    /\ sent' = f
    /\ IF sub
         THEN accepted' = accepted \cup {f} /\ rxQ' = Append(rxQ, f) /\ UNCHANGED lagged
         ELSE UNCHANGED <<accepted, rxQ, lagged>>
    /\ UNCHANGED skipped

\* broadcast::Sender::send of the next frame: with no receiver it returns
\* Err and the frame is gone; a full ring buffer overwrites its oldest frame
\* and the receiver lags.
BroadcastFrame ==
    LET f == sent + 1 IN
    /\ sent' = f
    /\ IF sub
         THEN /\ accepted' = accepted \cup {f}
              /\ IF Len(rxQ) = Capacity
                   THEN /\ rxQ' = Append(Tail(rxQ), f) /\ lagged' = TRUE
                        /\ skipped' = skipped \cup {Head(rxQ)}
                   ELSE rxQ' = Append(rxQ, f) /\ UNCHANGED <<lagged, skipped>>
         ELSE UNCHANGED <<accepted, rxQ, lagged, skipped>>

\* Client::disconnect: disconnect_signal.send(()).ok(), lost with no receiver.
disconnect == discPending' = (sub \/ discPending)

\* start: status.store(Running).
Start ==
    /\ lpc = "idle"
    /\ status' = "Running" /\ lpc' = "subscribe"
    /\ UNCHANGED <<online, chan, spc, hist, inCount>>

\* net_loop: frame the stream, subscribe() to both channels; nothing sent
\* before this reaches the new receivers.
NetLoopSubscribe ==
    /\ lpc = "subscribe"
    /\ sub' = TRUE /\ rxQ' = <<>> /\ lagged' = FALSE /\ discPending' = FALSE
    /\ lpc' = "loop"
    /\ UNCHANGED <<status, online, spc, hist, inCount>>

\* Leaving the loop drops both receivers.
ExitLoop ==
    /\ lpc' = "exited"
    /\ sub' = FALSE /\ rxQ' = <<>> /\ lagged' = FALSE /\ discPending' = FALSE

\* select! branch 1: read_half.next(). A decoded packet goes to
\* process_income_packet, which spawns the MSF handler for a force-offline
\* push (one per connection); EOF, a read or a decode error breaks.
NetLoopRecvInput ==
    /\ lpc = "loop"
    /\ \/ /\ inCount < MaxInbound
          /\ inCount' = inCount + 1
          /\ \/ UNCHANGED spc
             \/ spc["msf"] = "idle" /\ spc' = [spc EXCEPT !["msf"] = "rsp"]
          /\ UNCHANGED <<lpc, chan>>
       \/ ExitLoop /\ UNCHANGED <<spc, inCount>>
    /\ UNCHANGED <<status, online, hist>>

\* Mutant: the frame is written but the receiver does not advance past it.
NetLoopRecvOutputNoAdvance ==
    /\ lpc = "loop" /\ rxQ # <<>> /\ ~lagged
    /\ wire' = Append(wire, Head(rxQ))
    /\ UNCHANGED <<status, online, lpc, chan, spc, sent, accepted, skipped, inCount>>

\* Mutant: a failed write is ignored instead of breaking the loop.
NetLoopRecvOutputIgnoreWriteErr ==
    /\ lpc = "loop" /\ rxQ # <<>> /\ ~lagged
    /\ wire' \in {wire, Append(wire, Head(rxQ))}
    /\ rxQ' = Tail(rxQ)
    /\ UNCHANGED <<status, online, lpc, sub, lagged, discPending, spc, sent,
                   accepted, skipped, inCount>>

\* select! branch 2: rx.recv() returned Ok(output): write_half.send(output);
\* a failed write breaks.
NetLoopRecvOutput ==
    /\ lpc = "loop" /\ rxQ # <<>> /\ ~lagged
    /\ \/ /\ wire' = Append(wire, Head(rxQ)) /\ rxQ' = Tail(rxQ)
          /\ UNCHANGED <<lpc, sub, lagged, discPending>>
       \/ ExitLoop /\ UNCHANGED wire
    /\ UNCHANGED <<status, online, spc, sent, accepted, skipped, inCount>>

\* select! branch 2: rx.recv() returned Err(Lagged); `if let Ok` ignores it,
\* and the frames the receiver skipped are never written.
NetLoopRecvLagged ==
    /\ lpc = "loop" /\ lagged
    /\ lagged' = FALSE
    /\ UNCHANGED <<status, online, lpc, sub, rxQ, discPending, spc, hist, inCount>>

\* select! branch 3: disconnect_signal.recv() breaks.
NetLoopRecvDisconnect ==
    /\ lpc = "loop" /\ discPending
    /\ ExitLoop
    /\ UNCHANGED <<status, online, spc, hist, inCount>>

\* start, after net_loop returns: self.disconnect().
StartDisconnect ==
    /\ lpc = "exited"
    /\ disconnect /\ lpc' = "check"
    /\ UNCHANGED <<status, online, sub, rxQ, lagged, spc, hist, inCount>>

\* Mutant: start returns without the check-then-store of NetworkOffline.
StartCheckStatusNoStore ==
    /\ lpc = "check" /\ lpc' = "done"
    /\ UNCHANGED <<status, online, chan, spc, hist, inCount>>

\* start: if self.get_status() == Running { ... }
StartCheckStatus ==
    /\ lpc = "check"
    /\ lpc' = IF status = "Running" THEN "store" ELSE "done"
    /\ UNCHANGED <<status, online, chan, spc, hist, inCount>>

\* ... status.store(NetworkOffline), a separate atomic store.
StartStoreOffline ==
    /\ lpc = "store"
    /\ status' = "NetworkOffline" /\ lpc' = "done"
    /\ UNCHANGED <<online, chan, spc, hist, inCount>>

\* stop: self.disconnect().
StopDisconnect(c) ==
    /\ spc[c] = "signal"
    /\ disconnect /\ spc' = [spc EXCEPT ![c] = "status"]
    /\ UNCHANGED <<status, online, lpc, sub, rxQ, lagged, hist, inCount>>

\* stop: self.status.store(status).
StopStoreStatus(c) ==
    /\ spc[c] = "status"
    /\ status' = Reason[c] /\ spc' = [spc EXCEPT ![c] = "online"]
    /\ UNCHANGED <<online, lpc, chan, hist, inCount>>

\* stop: self.online.store(false); the MSF handler goes on to its event.
StopStoreOnline(c) ==
    /\ spc[c] = "online"
    /\ online' = FALSE
    /\ spc' = [spc EXCEPT ![c] = IF c = "msf" THEN "event" ELSE "done"]
    /\ UNCHANGED <<status, lpc, chan, hist, inCount>>

\* process_msf_force_offline: send_msg_offline_rsp(..).await.ok() publishes
\* the response frame; stop(MsfOffline) follows.
MsfSendOfflineRsp ==
    /\ spc["msf"] = "rsp"
    /\ BroadcastFrame /\ spc' = [spc EXCEPT !["msf"] = "signal"]
    /\ UNCHANGED <<status, online, lpc, sub, discPending, wire, inCount>>

\* process_msf_force_offline: handler.handle(QEvent::MSFOffline(..)).
MsfHandleEvent ==
    /\ spc["msf"] = "event"
    /\ spc' = [spc EXCEPT !["msf"] = "done"]
    /\ UNCHANGED <<status, online, lpc, chan, hist, inCount>>

\* Outside src/: the application publishes a frame (Client::send) ...
PublishFrame ==
    /\ sent < MaxAppFrames
    /\ BroadcastFrame
    /\ UNCHANGED <<status, online, lpc, sub, discPending, spc, wire, inCount>>

\* ... and a completed login sets the online flag.
MarkOnline ==
    /\ lpc = "loop" /\ ~online
    /\ online' = TRUE
    /\ UNCHANGED <<status, lpc, chan, spc, hist, inCount>>

\* start() has returned and no stop() is under way: the system has stopped.
Terminated ==
    /\ lpc = "done" /\ spc["msf"] \in {"idle", "done"}
    /\ spc["user"] \in {"signal", "done"}
    /\ UNCHANGED vars

Next ==
    \/ Start \/ NetLoopSubscribe \/ NetLoopRecvInput \/ NetLoopRecvOutput
    \/ NetLoopRecvLagged \/ NetLoopRecvDisconnect
    \/ StartDisconnect \/ StartCheckStatus \/ StartStoreOffline
    \/ \E c \in Callers : StopDisconnect(c) \/ StopStoreStatus(c) \/ StopStoreOnline(c)
    \/ MsfSendOfflineRsp \/ MsfHandleEvent \/ PublishFrame \/ MarkOnline
    \/ Terminated

(***************************************************************************)
(* Fairness. tokio polls the start() task whenever a select! branch is    *)
(* ready and picks among ready branches at random, so its steps are       *)
(* weakly fair; a stop() call once begun, and a spawned MSF handler, run  *)
(* to the end. The server, the application and the user's decision to    *)
(* call stop() are not fair: they may never act.                           *)
(***************************************************************************)
Fairness ==
    /\ WF_vars(Start) /\ WF_vars(NetLoopSubscribe) /\ WF_vars(NetLoopRecvOutput)
    /\ WF_vars(NetLoopRecvLagged) /\ WF_vars(NetLoopRecvDisconnect)
    /\ WF_vars(StartDisconnect) /\ WF_vars(StartCheckStatus) /\ WF_vars(StartStoreOffline)
    /\ WF_vars(StopStoreStatus("user")) /\ WF_vars(StopStoreOnline("user"))
    /\ WF_vars(StopDisconnect("msf")) /\ WF_vars(StopStoreStatus("msf"))
    /\ WF_vars(StopStoreOnline("msf"))
    /\ WF_vars(MsfSendOfflineRsp) /\ WF_vars(MsfHandleEvent)

Spec == Init /\ [][Next]_vars /\ Fairness

StopStored(c) == spc[c] \in {"online", "event", "done"}

\* Refinement: a connection as Session describes it. The loop task is the
\* connection (idle before start, open from start until net_loop breaks,
\* closed after); a close is requested while a disconnect signal waits
\* for the running loop.
SessionConn ==
    IF lpc = "idle" THEN "idle"
    ELSE IF lpc \in {"subscribe", "loop"} THEN "open" ELSE "closed"

AbstractSession == INSTANCE Session
    WITH MaxFrames <- MaxAppFrames + 1, conn <- SessionConn,
         closing <- (lpc = "loop" /\ discPending), sent <- sent, wire <- wire

\* net_loop implements Session: frames reach the socket in publish order,
\* at most once, only while the loop runs, and a disconnect signal
\* received by the running loop always ends it.
SessionRefined == AbstractSession!SSpec

\* The only way an accepted outbound frame goes missing is a lag: once the
\* running loop has drained its receiver, every frame the channel accepted
\* for it was written or was overwritten in the full ring buffer (the
\* rx.recv() Err(Lagged) that `if let Ok` drops). A write error, or any
\* other step of net_loop, never loses one.
LossOnlyByLag ==
    (lpc = "loop" /\ rxQ = <<>> /\ ~lagged)
        => accepted = {wire[i] : i \in 1..Len(wire)} \cup skipped

\* No outbound frame is lost while the connection lives: when net_loop is
\* still running and has drained its receiver, every frame the channel
\* accepted for it is on the wire (spec: "no message loss").
NoAcceptedFrameLost ==
    (lpc = "loop" /\ rxQ = <<>> /\ ~lagged)
        => accepted = {wire[i] : i \in 1..Len(wire)}

\* When start() returns the status is not Running: it is NetworkOffline or
\* the status a completed stop() stored.
StartEndsOffline ==
    lpc = "done" =>
        \/ status = "NetworkOffline"
        \/ \E c \in Callers : StopStored(c) /\ status = Reason[c]

\* The MsfOffline reason that the MSF handler's stop() stored is never
\* replaced by NetworkOffline: start()'s check-then-store after net_loop
\* returns must not overwrite it (spec: an explicit stop(MsfOffline) during
\* Running leaves status exactly MsfOffline). A stop() that finished before
\* start() stored Running is not concerned: that store is Running.
StopReasonPersists ==
    [][status' = "NetworkOffline" => status # "MsfOffline"]_vars

\* Every stop() that has sent its signal and stored its status ends the
\* connection: start() eventually returns.
StopEndsLoop ==
    \A c \in Callers : StopStored(c) ~> (lpc = "done")
=============================================================================
