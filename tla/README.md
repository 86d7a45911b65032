# TLA+ models of RICQ

These TLA+ modules model the concurrent core of the RICQ client (`src/ricq`). That core is the network loop and its stop/start protocol, the MSF force-offline handler, and duplicate suppression for online pushes and group system messages. The pure decoders of the protocol layer are modelled as well: multipart group message reassembly, the login response decoder, the proof-of-work solver and the image store response decoder (the last as an operator only: the spec gives it no behaviour to check). TLC checks the modules for safety and liveness, and checks the network loop against an abstract session specification. `PROJECT.json` lists:

- the components and the modules that model them;
- every run and every mutant;
- the source lines each definition translates (`map`);
- the findings;
- the hazards, at the source line where each one bites.

## 1. Inventory

### Components and how they interact

| Component | Source | State | Operations |
|---|---|---|---|
| Network loop | `client/net.rs` | `status` (atomic u8), `online` (atomic bool), `out_pkt_sender` and `disconnect_signal` broadcast channels | `start`, `stop`, `disconnect`, `net_loop` (a `select!` over inbound frames, outbound frames and the disconnect signal) |
| MSF force offline | `client/processor/stat_svc.rs` | none of its own | send the offline response, `stop(MsfOffline)`, then the handler event |
| Online push dedup | `client/processor/online_push.rs` | `push_req_cache`, `push_trans_cache` (`cached` caches with miss counters), `start_time` | `push_req_exists`, `push_trans_exists`, `process_push_req`, `process_push_trans` |
| Online push dispatch | same file | none | decode of msg_type 732/528 and their sub-types into events (several `.unwrap()`) |
| Multipart group messages | same file | none | `parse_group_message` (two versions): sort the parts by `pkg_index`, then concatenate |
| Group system messages | `client/processor/c2c/group_system_msg.rs` | `group_sys_message_cache` (RwLock) | `process_group_system_messages`, `self_invited_exists`, `join_group_request_exists` |
| Login decoding | `ricq-core/.../wtlogin/mod.rs` | none | `LoginResponse::decode`, `t546_to_t547` (proof-of-work search) |
| Image store decoding | `ricq-core/.../img_store/decoder.rs` | none | `decode_group_image_store_response` |
| Build script | `ricq-guild/build.rs` | none | protobuf code generation |

How the stateful components interact:

- `start` runs `net_loop` until it breaks.
- Packets that arrive are decoded and handed to `process_income_packet`. The routing is outside `src/`. It reaches:
  - the push processors;
  - the group system message processor;
  - `process_msf_force_offline`, which calls `stop` while the loop is still running.
- `stop` signals the loop through `disconnect_signal` and stores the status.
- When the loop returns, `start` stores `NetworkOffline` if the status is still `Running`.

### Hard behaviours

- **Relaxed atomic loads and stores.** Each one is a separate step. In particular, `start` checks `status` and then stores `NetworkOffline` as two steps, and a concurrent `stop` can store in between.
- **tokio broadcast semantics:**
  - a send with no receiver is lost (`.ok()`);
  - a receiver sees only messages sent after it subscribed;
  - a full channel makes the receiver lag, and the code drops the `Err(Lagged)`.
- **The random branch choice of `select!`.**
- **The push cache:**
  - the time gate (with a `msg_time == 0` exemption for push requests only);
  - insert-then-flush when the miss count exceeds 10;
  - a key cached before its payload is decoded with `.unwrap()`.
- **The group system message cache:**
  - it is checked under a read lock per request and replaced wholesale under a separate write lock;
  - passes for different fetched batches may overlap.

### Properties each component needs

| Component | Properties |
|---|---|
| Network loop | It implements the abstract session: frames reach the wire in publish order, only once and never after the close, and a requested close happens. An accepted frame is lost only to a lag. A stop ends the loop. `start` ends with an offline status. An `MsfOffline` stored by a stop is not overwritten by `NetworkOffline`. |
| Push dedup | The cache is bounded. Old pushes are suppressed. A cached key was delivered. |
| Group system messages | At-most-once delivery. No new request is skipped. |
| Pure decoders | Agree with a reference definition from the spec over bounded inputs. The PoW search halts exactly when a preimage exists. The login decoder panics only on a short TLV it reads. |
| Push dispatch | A failed decode hands no event to the handler. Unknown type and sub-type codes are ignored. A panic ends the batch only where a decode really fails. |

## 2. Modules

### `NetLoop.tla`: `net.rs` plus `stat_svc.rs`

There are three actors, each with a program counter:

- `lpc`: the `start`/`net_loop` task;
- `spc["user"]`: a user's `stop(Stop)`;
- `spc["msf"]`: `process_msf_force_offline`.

Variables:

- `status` and `online` are the atomics.
- `sub` records whether `net_loop` has subscribed to the two channels. It subscribes to both in two consecutive statements with nothing in between that the model distinguishes.
- `rxQ` is the loop receiver's queue of frame ids. `Capacity` is the channel size.
- `lagged` marks a pending `Err(Lagged)`.
- `discPending` is a pending disconnect signal.
- `sent`, `accepted` and `wire` record history:
  - `sent` counts the frames the application sent;
  - `accepted` is the frames the loop's receiver got;
  - `wire` is the sequence written to the socket.

Actions:

| Action | Code |
|---|---|
| `Start` | lines 31-33 |
| `NetLoopSubscribe` | lines 61-62 |
| `NetLoopRecvInput` | the input branch, 65-75. It can spawn the MSF handler, or break on a decode or stream error. |
| `NetLoopRecvOutput` | the output branch, 76-82: write, or break on a write error |
| `NetLoopRecvLagged` | the `Err(Lagged)` case, ignored |
| `NetLoopRecvDisconnect` | lines 83-85 |
| `StartDisconnect`, `StartCheckStatus`, `StartStoreOffline` | lines 34, 35 and 36-38 |
| `StopDisconnect`, `StopStoreStatus`, `StopStoreOnline` | lines 42, 43 and 44 |
| `MsfSendOfflineRsp`, `MsfHandleEvent` | `stat_svc.rs` |

`BroadcastFrame` is a `broadcast::Sender::send`:

- it is lost when nobody is subscribed;
- when the queue is full, the oldest frame is overwritten and the receiver is marked lagged.

The history variable `skipped` collects the frames a lag overwrote in the queue. `LossOnlyByLag` uses it: when the loop is running with an empty queue and no pending lag, every accepted frame was either written or skipped.

Two actions model code outside `src/` and are marked `spec_modelled`:

- `PublishFrame` (`Client::send`);
- `MarkOnline` (login).

### `Session.tla`: the abstract connection, and the refinement

`Session` states what one connection promises, with no channels, tasks or atomics:

- `conn` goes from idle to open to closed;
- `Publish` counts frames published;
- `Transmit` appends to `wire` a published frame newer than every frame already on it, so gaps are allowed but reordering and duplicates are not;
- `RequestClose` sets `closing`, and `Close` ends the connection;
- `SSpec` has weak fairness on `closing /\ Close`: a close that was requested happens.

`NetLoop` maps onto it (`AbstractSession`):

- `conn` is idle before `start`, open while `lpc` is `subscribe` or `loop`, and closed after;
- `closing` is a pending disconnect signal seen by the running loop;
- `sent` and `wire` map to themselves.

`SessionRefined` (`AbstractSession!SSpec`) is a property of the `NetLoop` run. It covers the write order, duplicates, writes after the loop exits, and the liveness of the close.

### `GroupMessage.tla`: `parse_group_message`

A part is its `pkg_index`, its seq, its metadata (group code, name, card, sender, time, taken together) and its elems. Each elem records the part it came from and whether its inner `elem` is `Some`.

- `SortByPkgIndex` is the stable `sort_by`, built by insertion (`InsertByIndex`).
- `ParseGroupMessageFiltered` is the first version. It takes metadata from `first()` and keeps only the `Some` elems (`filter_map`).
- `ParseGroupMessage` is the second version. It takes metadata from the first part of the loop and appends every elem.
- `SpecGroupMessage` is the reference. It is the arrangement of the parts with increasing indices (chosen from `SetToSeqs`), with metadata from part 0.

### `Pow.tla`: `t546_to_t547`

A challenge is a record: `typ`, `ok`, `src`, `tgt`, `tgtLen`, plus `rest` for the fields copied through. SHA-256 is an arbitrary function `H` over `0..3` into two digests.

- `Search` is the `while hash != tgt` loop. It starts by hashing `src` itself.
- A search that runs off the end of `H` is `Diverges`: the code's loop never ends.
- `T546ToT547` solves when `typ == 2 && tgt.len() == 32`, and otherwise passes the header through.
- The extension is written whenever `ok` is set.
- `SpecSolve` is the reference from spec sections 4.3 and 8.

### `LoginDecode.tla`: `LoginResponse::decode`

The TLV map is a function from the tags present to `"ok"` or `"short"`. A short value makes a reader panic: `get_u16`, `copy_to_bytes`, `advance` or `read_string_short`. The result is the variant and the set of its optional fields that are `Some`, or `Err`, or `Panic`. `UnknownStatus` also keeps the tags left in the map.

- `Decode` is the match on status.
- `DeviceLocked` is the 160 | 239 arm, which reads `0x178` only when `0x174` is present.
- `SpecDecode` is the reference. It reads the dispatch table of spec section 4.2 (`DispatchTable`).

### `ImgStoreDecode.tla`: `decode_group_image_store_response`

The body is its `tryup_img_rsp` list. Each entry has a result code, `file_exit`, and the `up_ip` and `up_port` lists. Ports are the `u32` the protobuf carries.

- `Popped` is `pop()`, which returns the last entry.
- `Addrs` is the `zip` of ips and ports, which stops at the shorter list, with `port as u16` (`AsU16`).
- `DecodeGroupImageStoreResponse` errs on an empty list or a non-zero result. Otherwise it returns `Exist` or `NotExist`.

No run checks this module. The spec defines no behaviour for this response, and a reference definition written from the code would only restate it.

### `PushDispatch.tla`: the 732/528 match of `process_push_req`

`DispatchInfo(info)` is the decode and dispatch of one admitted `PushMessageInfo`. Its result is the events handed to the handler, in order, and whether a `Buf` read or an `.unwrap()` panicked. An info is abstracted to:

- its `msg_type` and sub-type code;
- whether the envelope can be read (the 6 header bytes of a 732, the jce `MsgType0x210` of a 528);
- whether the sub-body can be read;
- whether a mute's operator is the client itself;
- how many of its items give an event (`n`), and for 0x27 how many friends it deletes (`m`).

The definitions follow the match:

- `Process732` reads the header and then dispatches: `GroupMute` for 0x0c, with the self-mute `continue`, and `GroupNotify` for 0x10, 0x11, 0x14 and 0x15.
- `Process528` decodes the jce envelope and then dispatches on `sub_msg_type`. `Sub528Events` gives the events of each decoder.
- Every other code is ignored.
- Field values are copied through and left out.

### `MC_Decoders.tla`

This module checks four decoder modules. Each step is one call of one decoder (`CallParseGroupMessage`, `CallT546ToT547`, `CallDecode`, `CallProcessPushReq`) on any input of its bounded domain. The variable `input` holds the arguments of the last call.

### `PushDedup.tla`: `online_push.rs`

There are two streams, `"req"` and `"trans"`. Each has its own cache and miss counter.

Each packet runs as a task in one of `MaxInflight` slots (`task`):

- `ProcessPushReq(i)` starts a push-request packet of 1 to `BatchLen` infos.
- `ProcessPushTrans(i)` starts a push-trans packet of one push.

A task works through its batch in order:

- `PushReqExists(i, k, t, p)` and `PushTransExists(i, k, t)` are the whole `push_req_exists` and `push_trans_exists` calls on the current info. Each runs under the write lock: time gate, lookup, insert, flush and metric reset. The lookup they share is `Exists`. It is one step because the lock is held across all of it. The two differ only in the time gate: `push_req_exists` lets `msg_time` 0 through.
  - On a hit, the loop `continue`s, or a trans task returns (`Advance`).
  - On a miss, the info becomes the task's `cur`.
- `DispatchReq(i)` is the decode and dispatch of `cur` in `process_push_req`. Its payload is a `PushDispatch` info, and `Panics(p)` is `PushDispatch.DispatchInfo(p).panic`. This composes the two modules.
  - If the info decodes, the handler is called (or the sub-type ignored) and the loop goes on.
  - If it panics, the task dies with the rest of its batch, and the key is recorded in `lost`.
- `DispatchTrans(i)` is the match of `process_push_trans`. It hands a `MemberLeave`, `MemberPermissionChange` or `GroupDisband` event to the handler, and the task returns. It cannot panic, because the `OnlinePushTrans` was decoded before the task started.
- An info's key, time and payload are chosen at its lookup. Nothing reads an info before that.
- Keys are taken up to renaming: a new key is always `fresh + 1`. This is a hand-made symmetry reduction, sound because keys are only compared for equality.

### `GroupSysMsg.tla`: `group_system_msg.rs`

- The server's list (`pending`, `dropped`) changes at any time. `Reappear` says whether a dropped request may be listed again.
- `StartPass(t)` gives task `t` the current list as its batch. Several tasks may be inside a pass at once.
- `CheckRequest` is one loop iteration, with self-invited requests first and join requests after. It calls `Exists`, which is the time gate or a cache match by kind and `msg_seq`. If the request exists, the iteration continues; otherwise it delivers.
- `EndChecks` and `ReplaceCache` are the write-lock replace.

## 3. Runs

| Run | Expect | Bounds | Shows |
|---|---|---|---|
| `NetLoop` | pass | 2 app frames, 2 inbound frames, capacity 1 | The loop implements `Session` (`SessionRefined`). An accepted frame is lost only to a lag (`LossOnlyByLag`). `start` ends offline or with a stored stop reason (`StartEndsOffline`). |
| `NetLoop_NoAcceptedFrameLost` | violation | capacity 1 | A lag drops an accepted frame. |
| `NetLoop_StopReasonPersists` | violation | capacity 3 | The MSF handler's `stop(MsfOffline)` lands between `start`'s check and its store, and `NetworkOffline` overwrites `MsfOffline` (`StopReasonPersists`, an action property: no step replaces `MsfOffline` by `NetworkOffline`). |
| `NetLoop_StopEndsLoop` | violation | capacity 3 | A stop whose signal is sent before `net_loop` subscribes (in the trace, even before `Running` is stored) is lost, and the loop runs on. |
| `PushDedup` | pass | 4 keys, times {0,1,2}, limit 2, 4 req infos in batches of up to 2 + 2 trans pushes, 2 packet tasks, payloads a 528 GroupLeave and a 732 with a short header | Both caches stay within the limit (`CacheBounded`). Only a panic leaves infos of a batch unlooked-at (`BatchAbandonedOnlyByPanic`). |
| `PushDedup_OldPushSuppressed` | violation | times {0,1,2} | `msg_time` 0 passes the gate. |
| `PushDedup_CachedMeansDelivered` | violation | the short-header payload | A panic after the insert (in the trace, the 732 header read) leaves a cached key that was never delivered. |
| `GroupSysMsg` | pass | 2 tasks, 2 seqs per kind, times {1,2}, start 2, 3 passes | No pass skips a new request (`PassDeliversNew`), even when passes overlap. |
| `GroupSysMsg_ConcurrentPasses` | violation | 2 tasks | Overlapping passes deliver a request twice. |
| `Decoders` | pass | messages of 0-3 parts with elem shapes {none, Some, None, Some+None}, every arrival order; `H` over 0..3 into 2 digests, `src` in 0..3, both types, target lengths 31/32, both flags; 8 statuses and every TLV map over 7 tags, 4 of them possibly short; push infos of types 732, 528 and another, 10 sub-type codes, every readable/short combination, 0-2 items | Reassembly is independent of arrival order (`GroupMessageMatchesSpec`). The solver finds the least preimage at or above `src`, and diverges exactly when there is none (`PowSolveMatchesSpec`). The decoder follows the table and panics exactly on a short TLV it reads (`LoginDecodeMatchesTable`). A push info's dispatch fails exactly on a short envelope or a short decoded sub-body, never after an event, and ignores unknown codes (`PushDispatchMatchesSpec`). |
| `Pow_Passthrough` | violation | as `Decoders` | A challenge that is not solvable keeps `ok` and gets an empty extension. |

Why the bounds are enough:

- **NetLoop.** Capacity 1 with 2 frames plus the offline response is the smallest setting where the queue fills and the receiver lags. Capacity 3 is the smallest where it never does.
- **PushDedup.** The pass run lowers the flush threshold (a parameter of the model) from 10 to 2, so that flushes happen within reach.
- **GroupSysMsg.** Seq 1 is before `start_time` and seq 2 is at it. So the gate, and its boundary, are both exercised.
- **Decoders.**
  - Three parts give six arrival orders, which is enough to expose a missing sort.
  - Every function `0..3 -> {d1, d2}` includes a hash that matches at `src` itself, one that matches only later, and one that never matches. These are the off-by-one and divergence cases of the loop.
  - The TLV maps cover every subset of the tags that the arms read. Each tag that a reader can panic on may be short.
  - The push infos cover every sub-type arm of both types, 0x44, a code that neither type knows, and a 732 code under 528. Envelope and body are each readable or short, and the mute operator is or is not the client. A "short" body is short at the decoder's first read; a mute body whose operator is readable but whose tail is short is not in the domain.

Every property of a passing run has a mutant in `PROJECT.json`, and TLC finds each mutant's property violated. Each mutant is a plausible bug in the mapped code:

- a write that does not advance;
- a write error that is ignored;
- a status check that never stores;
- a missing flush or metric reset;
- an inclusive time gate;
- a missing sort;
- a search that increments before its first hash;
- an `sms_phone` read that does not check `0x174`;
- a `return` where the batch loop `continue`s;
- recalls handed to the handler before their body is known to decode;
- a 528 sub-body decoded before the sub-type match.

## 4. Fairness

Fairness appears only in `NetLoop`, whose liveness properties (`SessionRefined`, `StopEndsLoop`) need it. `PushDedup` states only safety, and assumes none. Its handler calls are single steps, so a liveness property there would hold by the model's shape.

In `NetLoop`, weak fairness is assumed on every step of the loop task, of `start`'s epilogue and of the MSF handler, because tokio eventually polls a ready future. In particular, a ready branch of `select!` is eventually taken. `StopDisconnect` of the user has no fairness, because the user may never call `stop`. The later steps of a `stop` that has begun are fair.

## 5. Findings

`PROJECT.json` lists the findings in full. In short:

- `start`'s check-then-store races the MSF handler's `stop(MsfOffline)`, and `NetworkOffline` overwrites it.
- A stop before `net_loop` subscribes is lost.
- A lagged receiver drops frames.
- Push requests stamped 0 pass the time gate.
- A decode panic after the insert loses a push for good.
- Overlapping group system message passes deliver a request twice.
- `t546_to_t547` keeps a set `ok` flag and appends an empty extension to an unsolvable challenge. Spec 4.3 calls this a passthrough with the flag left as provided, but spec 8 says the flag is false, and 4.3 writes the solved fields only when solved.

Relisted group system requests are delivered again, because the cache holds only the last batch. This is a hazard in `PROJECT.json`, not a finding, because the spec leaves open whether such a request counts as new.

## 6. Plan and what is not modelled

Work so far has taken the most important behaviour first: the network loop and its session refinement, then the two dedup caches with the push batch loop, then the pure decoders. Later work:

1. A composition of the network loop with the push processors it feeds, if `process_income_packet` (outside `src/`) is specified.

Not modelled:

- **`process_c2c_sync` and `process_sid_ticket_expired`.** They only forward to RPCs outside `src/`.
- **The QR login state machine.** Only its enum is in `src/`.
- **`build.rs`.** It is build tooling.
- **The `msg_time as i32` wrap.** The declared type of `msg_time` and the assignment of `start_time` are outside `src/`. Both are cast to i32 and wrap together in 2038.
- **Typed errors.** Where spec section 7 asks for a typed `DecodeError`, the code panics, and the models keep the panic (`Panic`, `panic`) because that is what the code does.
- **The cache flush dropping the key just inserted.** The spec (4.7, 8) specifies it: after the flush, a lookup of any earlier key misses. `CacheBounded` checks the bound it buys.
- **The `u32` overflow of the PoW counter `cnt`.** It needs 2^32 steps, and TLC's integers are 32-bit.
- **The contents of `0x119` in `LoginResponse::decode`.** `decode_t119` is outside `src/`.
- **The field values of the 732/528 events.** These are uins, names and durations. `PushDispatch` keeps which events are handed over, how many and in what order, and where the decode panics. The values are copied through, and no property tells them apart.
