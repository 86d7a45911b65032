----------------------------- MODULE PushDedup -----------------------------
(***************************************************************************)
(* Duplicate suppression of online pushes (src/ricq/src/client/processor/ *)
(* online_push.rs): process_push_req / push_req_exists for the push-       *)
(* request stream ("req") and process_push_trans / push_trans_exists for   *)
(* the push-transaction stream ("trans"). Each stream has its own cache   *)
(* behind a write lock; the check, the insert and the flush happen under  *)
(* that lock, so a lookup is one step. A push-request packet carries a     *)
(* batch of PushMessageInfos that one task handles in order: look the      *)
(* info up, and, if it is new, decode and dispatch it before the next      *)
(* lookup. Its payload is decoded with .unwrap(), so a malformed payload   *)
(* panics the task and the rest of the batch is never looked at. A push-   *)
(* transaction packet is one push, decoded before its task starts.        *)
(***************************************************************************)
EXTENDS Naturals, FiniteSets

PD == INSTANCE PushDispatch

\* The decode and dispatch of an info panics (PushDispatch.DispatchInfo).
Panics(p) == PD!DispatchInfo(p).panic

CONSTANTS
    NKeys,       \* number of distinct (msg_seq, msg_uid) pairs the server uses
    Times,       \* msg_time values of pushes
    StartTime,   \* Client.start_time
    MissLimit,   \* the cache is flushed when cache_misses() > MissLimit
    MaxPushes,   \* MaxPushes[s]: pushes (infos) the server sends in stream s
    MaxInflight, \* packets whose handler task may be running at once
    BatchLen,    \* most PushMessageInfos in one push-request packet
    Payloads     \* the PushMessageInfo bodies pushes carry (PushDispatch infos)

Streams == {"req", "trans"}

ASSUME /\ NKeys \in Nat /\ Times \subseteq Nat /\ StartTime \in Nat
       /\ MissLimit \in Nat /\ MaxInflight \in Nat /\ MaxPushes \in [Streams -> Nat]
       /\ BatchLen \in Nat \ {0}
       /\ \E p \in Payloads : ~Panics(p)

\* Keys are only compared for equality, so the server's choice of key is
\* taken up to renaming: a key not used before is always the next number.
\* Nothing reads an info before its lookup, so its key, time and payload
\* are chosen when it is looked up.
Keys == 1..NKeys
NoKey == 0

\* The task slots; a task is its stream, the infos of its batch not yet
\* finished (the current one included) and the current info once it has
\* been admitted.
Slots == 1..MaxInflight
Info == [k : Keys, payload : Payloads]
\* A body that decodes; also the payload of a transaction, whose
\* OnlinePushTrans was decoded before its task started.
WellFormed == CHOOSE p \in Payloads : ~Panics(p)
NoInfo == [k |-> NoKey, payload |-> WellFormed]
Idle == [s |-> "none", left |-> 0, cur |-> NoInfo]
Task == [s : Streams, left : 1..BatchLen, cur : Info \cup {NoInfo}]

VARIABLES
    cache,      \* cache[s]: keys in push_req_cache / push_trans_cache
    misses,     \* misses[s]: cache_misses() of that cache
    task,       \* task[i]: the packet task in slot i, or Idle
    lost,       \* lost[s]: keys whose task panicked and were not handled since
    lastAdmitted, \* lastAdmitted[s]: key the latest lookup in s admitted, or NoKey
    pushes,     \* pushes[s]: pushes received in stream s
    fresh       \* keys 1..fresh have been used by the server

vars == <<cache, misses, task, lost, lastAdmitted, pushes, fresh>>

TypeOK ==
    /\ cache \in [Streams -> SUBSET Keys]
    /\ misses \in [Streams -> 0..MissLimit]
    /\ task \in [Slots -> Task \cup {Idle}]
    /\ lost \in [Streams -> SUBSET Keys]
    /\ lastAdmitted \in [Streams -> Keys \cup {NoKey}]
    /\ \A s \in Streams : pushes[s] \in 0..MaxPushes[s]
    /\ fresh \in 0..NKeys

Init ==
    /\ cache = [s \in Streams |-> {}]
    /\ misses = [s \in Streams |-> 0]
    /\ task = [i \in Slots |-> Idle]
    /\ lost = [s \in Streams |-> {}]
    /\ lastAdmitted = [s \in Streams |-> NoKey]
    /\ pushes = [s \in Streams |-> 0]
    /\ fresh = 0

\* Mutant: cache_reset_metrics() is missing; the miss count keeps growing.
CacheAdmitNoResetMetrics(s, k) ==
    LET flush == misses[s] + 1 > MissLimit IN
    /\ cache' = [cache EXCEPT ![s] = IF flush THEN {} ELSE @ \cup {k}]
    /\ misses' = [misses EXCEPT ![s] = @ + 1]

\* Mutant: the flush is missing; the cache grows without bound.
CacheAdmitNoFlush(s, k) ==
    /\ cache' = [cache EXCEPT ![s] = @ \cup {k}]
    /\ misses' = [misses EXCEPT ![s] = IF @ < MissLimit THEN @ + 1 ELSE @]

\* A cache miss: cache_set(key, ()), then flush() and cache_reset_metrics()
\* when cache_misses() > 10 -- which also drops the key just inserted.
CacheAdmit(s, k) ==
    LET flush == misses[s] + 1 > MissLimit IN
    /\ cache' = [cache EXCEPT ![s] = IF flush THEN {} ELSE @ \cup {k}]
    /\ misses' = [misses EXCEPT ![s] = IF flush THEN 0 ELSE @ + 1]

\* The loop goes on to the next info of the batch, or the task returns.
Advance(x) == IF x.left = 1 THEN Idle ELSE [x EXCEPT !.left = @ - 1, !.cur = NoInfo]

\* The lookup both functions make for the current info of the task in slot
\* i, with key k: under the cache's write lock, `return true` when the time
\* gate holds or cache_get finds the key (the batch loop goes on with
\* `continue`, a transaction task returns); otherwise cache_set admits the
\* key and the task goes on to dispatch `info`.
Exists(i, k, gated, info) ==
    LET x == task[i] IN
    /\ x # Idle /\ x.cur = NoInfo
    /\ k <= fresh + 1 /\ fresh' = IF k > fresh THEN k ELSE fresh
    /\ \/ /\ gated \/ k \in cache[x.s]
          /\ lastAdmitted' = [lastAdmitted EXCEPT ![x.s] = NoKey]
          /\ task' = [task EXCEPT ![i] = Advance(x)]
          /\ UNCHANGED <<cache, misses>>
       \/ /\ ~gated /\ k \notin cache[x.s]
          /\ CacheAdmit(x.s, k)
          /\ lastAdmitted' = [lastAdmitted EXCEPT ![x.s] = k]
          /\ task' = [task EXCEPT ![i].cur = info]
    /\ UNCHANGED <<lost, pushes>>

\* push_req_exists(info) at time t: `msg_time as i32`, and a time of 0 is
\* let through the start_time gate ("可能是0，不过滤").
PushReqExists(i, k, t, p) ==
    /\ task[i].s = "req"
    /\ Exists(i, k, t # 0 /\ StartTime > t, [k |-> k, payload |-> p])

\* push_trans_exists(info): the same lookup in push_trans_cache, with no
\* exemption for time 0; the OnlinePushTrans was decoded before the task.
PushTransExists(i, k, t) ==
    /\ task[i].s = "trans"
    /\ Exists(i, k, StartTime > t, [k |-> k, payload |-> WellFormed])

\* A packet arrives and its task starts in a free slot.
Receive(i, s, n) ==
    /\ task[i] = Idle /\ pushes[s] + n <= MaxPushes[s]
    /\ task' = [task EXCEPT ![i] = [s |-> s, left |-> n, cur |-> NoInfo]]
    /\ pushes' = [pushes EXCEPT ![s] = @ + n]
    /\ UNCHANGED <<cache, misses, lost, lastAdmitted, fresh>>

\* process_push_req(msg_infos): a batch of one to BatchLen infos.
ProcessPushReq(i) == \E n \in 1..BatchLen : Receive(i, "req", n)

\* process_push_trans: one OnlinePushTrans.
ProcessPushTrans(i) == Receive(i, "trans", 1)

\* Mutant: the loop leaves the batch after the first info it dispatches
\* (a `return` where the code has `continue`).
DispatchReturn(i) ==
    LET x == task[i] IN
    /\ x.s = "req" /\ x.cur # NoInfo
    /\ task' = [task EXCEPT ![i] = Idle]
    /\ lost' = [lost EXCEPT !["req"] = IF ~Panics(x.cur.payload) THEN @ \ {x.cur.k}
                                                                 ELSE @ \cup {x.cur.k}]
    /\ UNCHANGED <<cache, misses, lastAdmitted, pushes, fresh>>

\* process_push_req, after the lookup: the admitted info is decoded and
\* dispatched by msg_type and sub-type; the handler is invoked (or the info
\* ignored) and the loop goes on, or a malformed payload makes an .unwrap()
\* panic and the task dies with the rest of its batch.
DispatchReq(i) ==
    LET x == task[i] IN
    /\ x.s = "req" /\ x.cur # NoInfo
    /\ task' = [task EXCEPT ![i] = IF Panics(x.cur.payload) THEN Idle ELSE Advance(x)]
    /\ lost' = [lost EXCEPT !["req"] = IF ~Panics(x.cur.payload) THEN @ \ {x.cur.k}
                                                                 ELSE @ \cup {x.cur.k}]
    /\ UNCHANGED <<cache, misses, lastAdmitted, pushes, fresh>>

\* process_push_trans, after the lookup: the match on push_trans.info hands
\* a MemberLeave, MemberPermissionChange or GroupDisband event to the
\* handler, and the task returns; no arm can panic.
DispatchTrans(i) ==
    LET x == task[i] IN
    /\ x.s = "trans" /\ x.cur # NoInfo
    /\ task' = [task EXCEPT ![i] = Advance(x)]
    /\ lost' = [lost EXCEPT !["trans"] = @ \ {x.cur.k}]
    /\ UNCHANGED <<cache, misses, lastAdmitted, pushes, fresh>>

Dispatch(i) == DispatchReq(i) \/ DispatchTrans(i)

Done ==
    /\ \A s \in Streams : pushes[s] = MaxPushes[s]
    /\ \A i \in Slots : task[i] = Idle
    /\ UNCHANGED vars

\* The lookup of the current info of slot i, for any key, time and payload.
LookUp(i) ==
    \E k \in Keys, t \in Times :
        (\E p \in Payloads : PushReqExists(i, k, t, p)) \/ PushTransExists(i, k, t)

Next ==
    \/ \E i \in Slots : ProcessPushReq(i) \/ ProcessPushTrans(i)
    \/ \E i \in Slots : LookUp(i)
    \/ \E i \in Slots : Dispatch(i)
    \/ Done

Spec == Init /\ [][Next]_vars

LookedUp(i, k, t, p) == PushReqExists(i, k, t, p) \/ PushTransExists(i, k, t)

\* The cache is bounded: the miss counter and flush keep the number of
\* remembered keys at or below MissLimit, however many pushes arrive.
CacheBounded ==
    \A s \in Streams : Cardinality(cache[s]) <= MissLimit

\* A push timestamped before the connection started is never admitted
\* (spec: suppressed even on first occurrence).
OldPushSuppressed ==
    [][\A i \in Slots, k \in Keys, t \in Times, p \in Payloads :
          (LookedUp(i, k, t, p) /\ t < StartTime) => lastAdmitted'[task[i].s] # k]_vars

\* A key in the cache means its push was delivered to the handler, or is
\* on its way there (spec, Dedup cache entry): no cached key belongs to a
\* push whose task died before the handler.
CachedMeansDelivered ==
    \A s \in Streams : cache[s] \cap lost[s] = {}

\* The batch loop of process_push_req looks at every info of its packet:
\* a task ends with infos of its batch not looked at only in a step in
\* which its current info's decode panics (`continue` on a duplicate, on a
\* skipped mute and after a dispatch, never `return`).
BatchAbandonedOnlyByPanic ==
    [][\A i \in Slots :
          (task[i] # Idle /\ task'[i] = Idle /\ task[i].left > 1)
             => Panics(task[i].cur.payload)]_vars
=============================================================================
