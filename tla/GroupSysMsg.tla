---------------------------- MODULE GroupSysMsg ----------------------------
(***************************************************************************)
(* Client::process_group_system_messages and its two exists checks        *)
(* (src/ricq/src/client/processor/c2c/group_system_msg.rs). A pass takes  *)
(* a fetched GroupSystemMessages batch, checks every self-invited request *)
(* and then every join-group request against group_sys_message_cache      *)
(* (under its read lock, by msg_seq), hands the unseen ones to the        *)
(* handler, and at the end replaces the whole cache with the batch (under *)
(* the write lock). Several passes may run at once, one per fetched       *)
(* batch; the server's list of pending requests changes between fetches.  *)
(***************************************************************************)
EXTENDS Naturals, FiniteSets

CONSTANTS
    Tasks,       \* tasks that run a pass (concurrently)
    Seqs,        \* msg_seq values of requests
    MsgTime,     \* MsgTime[q]: msg_time of the request with msg_seq q
    StartTime,   \* Client.start_time
    MaxPasses,   \* passes run in total
    Reappear     \* the server may list a request again after dropping it

Kinds == {"invited", "join"}    \* self_invited, join_group_requests
Request == Kinds \X Seqs

ASSUME /\ MsgTime \in [Seqs -> Nat] /\ StartTime \in Nat
       /\ MaxPasses \in Nat /\ Reappear \in BOOLEAN

VARIABLES
    cache,       \* group_sys_message_cache: the last batch written
    pending,     \* requests the server currently lists
    dropped,     \* requests the server listed once and then dropped
    phase,       \* phase[t] of task t
    batch,       \* batch[t]: the GroupSystemMessages task t is processing
    todo,        \* todo[t]: requests of batch[t] not yet checked
    deliveries,  \* deliveries[r]: handler calls for r (capped at 2)
    passes       \* passes started

vars == <<cache, pending, dropped, phase, batch, todo, deliveries, passes>>

TypeOK ==
    /\ cache \subseteq Request /\ pending \subseteq Request
    /\ dropped \subseteq Request
    /\ phase \in [Tasks -> {"idle", "check", "replace"}]
    /\ batch \in [Tasks -> SUBSET Request] /\ todo \in [Tasks -> SUBSET Request]
    /\ deliveries \in [Request -> 0..2]
    /\ passes \in 0..MaxPasses

Init ==
    /\ cache = {} /\ pending = {} /\ dropped = {}
    /\ phase = [t \in Tasks |-> "idle"]
    /\ batch = [t \in Tasks |-> {}] /\ todo = [t \in Tasks |-> {}]
    /\ deliveries = [r \in Request |-> 0]
    /\ passes = 0

\* The server lists a new request, or lists again one it dropped.
ServerAdd(r) ==
    /\ r \notin pending
    /\ r \in dropped => Reappear
    /\ pending' = pending \cup {r}
    /\ UNCHANGED <<cache, dropped, phase, batch, todo, deliveries, passes>>

\* The server stops listing a request.
ServerDrop(r) ==
    /\ r \in pending
    /\ pending' = pending \ {r} /\ dropped' = dropped \cup {r}
    /\ UNCHANGED <<cache, phase, batch, todo, deliveries, passes>>

\* A pass starts on the batch fetched now (the fetch is outside src/).
StartPass(t) ==
    /\ phase[t] = "idle" /\ passes < MaxPasses
    /\ phase' = [phase EXCEPT ![t] = "check"]
    /\ batch' = [batch EXCEPT ![t] = pending]
    /\ todo' = [todo EXCEPT ![t] = pending]
    /\ passes' = passes + 1
    /\ UNCHANGED <<cache, pending, dropped, deliveries>>

\* Mutant: the time gate also suppresses requests stamped at start_time.
ExistsGateInclusive(r) ==
    \/ StartTime >= MsgTime[r[2]]
    \/ \E c \in cache : c[1] = r[1] /\ c[2] = r[2]

\* self_invited_exists / join_group_request_exists: older than start_time,
\* or a request of the same kind with the same msg_seq in the cache.
Exists(r) ==
    \/ StartTime > MsgTime[r[2]]
    \/ \E c \in cache : c[1] = r[1] /\ c[2] = r[2]

\* One iteration of the two for loops: self-invited requests first, then
\* join requests; `continue` if the request exists, else the handler.
CheckRequest(t, r) ==
    /\ phase[t] = "check" /\ r \in todo[t]
    /\ r[1] = "join" => \A x \in todo[t] : x[1] = "join"
    /\ todo' = [todo EXCEPT ![t] = @ \ {r}]
    /\ deliveries' = IF Exists(r) THEN deliveries
                     ELSE [deliveries EXCEPT ![r] = IF @ < 2 THEN @ + 1 ELSE 2]
    /\ UNCHANGED <<cache, pending, dropped, phase, batch, passes>>

\* Every request checked: the loops end and the pass moves to the write.
EndChecks(t) ==
    /\ phase[t] = "check" /\ todo[t] = {}
    /\ phase' = [phase EXCEPT ![t] = "replace"]
    /\ UNCHANGED <<cache, pending, dropped, batch, todo, deliveries, passes>>

\* *self.group_sys_message_cache.write().await = msgs
ReplaceCache(t) ==
    /\ phase[t] = "replace"
    /\ cache' = batch[t]
    /\ phase' = [phase EXCEPT ![t] = "idle"]
    /\ UNCHANGED <<pending, dropped, batch, todo, deliveries, passes>>

Done ==
    /\ passes = MaxPasses /\ \A t \in Tasks : phase[t] = "idle"
    /\ UNCHANGED vars

Next ==
    \/ \E r \in Request : ServerAdd(r) \/ ServerDrop(r)
    \/ \E t \in Tasks : \/ StartPass(t) \/ EndChecks(t) \/ ReplaceCache(t)
                        \/ \E r \in Request : CheckRequest(t, r)
    \/ Done

Spec == Init /\ [][Next]_vars

\* Each request reaches the handler at most once (spec: at-most-once
\* invocation per admitted, non-duplicate occurrence).
AtMostOnceDelivery ==
    \A r \in Request : deliveries[r] <= 1

\* A pass drops no new request: once a pass has checked its whole batch,
\* every request in it stamped at or after start_time has reached the
\* handler, in this pass or an earlier one.
PassDeliversNew ==
    \A t \in Tasks :
        phase[t] = "replace" =>
            \A r \in batch[t] : MsgTime[r[2]] >= StartTime => deliveries[r] >= 1
=============================================================================
