# TLA+ models of the fluvio dataplane core

This directory holds TLA+ models of the source under `src/`. TLC checks them.
Each module is translated from the code. Where a module follows the spec
(`spec.md`) instead, because the code is not in `src/`, PROJECT.json marks the
definition `spec_modelled`.

## 1. Inventory

| Component | Source | State | Operations | Status |
|---|---|---|---|---|
| Multiplexer (L4) | `src/src/socket/src/multiplexing.rs` | correlation-id counter; `senders` map id → Serial(slot, Event) or Queue(channel sender); the terminate Event; the read half held by the dispatcher task | `send_and_receive`, `create_stream`, `AsyncResponse::poll_next` and its drop, the dispatcher loop (`dispatcher_loop`, `send`), `Drop` | modelled: `Multiplexer.tla` |
| Record / RecordSet codec (L2) | `src/src/dataplane-protocol/src/record.rs` | none (pure functions over byte buffers); `RecordSet.batches` is built up during decode | `Record::encode/decode/write_size`, `RecordData::encode/decode/write_size`, `RecordHeader` (derived), `RecordSet::encode/decode/write_size`, `Record::new/new_key_value`, `FileRecordSet::file_encode` | modelled: `RecordCodec.tla` |
| Primitive codec (L1): varint, fixed width, Option | not in `src/` (derive and core crates); spec §4.1 | none | zig-zag varint encode/decode, i8/i32, `Option` tag, the Batch codec | partly: spec_modelled operators in `RecordCodec.tla` |
| Partition reducer (control plane) | `src/src/sc/src/controllers/partitions/reducer.rs` | partition store, SPU store (read); produces actions | `process_partition_update`, `update_election_from_spu_changes`, `force_election_spu_off/on`, `SimplePolicy::potential_leader_score` | modelled: `PartitionReducer.tla` |
| Derive round-trip test | `src/src/protocol/tests/generic.rs` | none | fixed-width encode of a generic record | not modelled: one unit test of a fixed literal, with no state and no input space |
| Package-index HTTP client | `src/src/package-index/src/http.rs` | base URL only | builds request URLs, parses responses | not modelled: no state and no concurrency; each method joins a formatted path to `base_url` with the url crate (outside the repository) or parses a response body with serde_json/semver |
| SmartStream code generator | `src/src/smartstream/derive/src/generator/mod.rs` | none | picks a generator by kind | not modelled: compile-time code generation |
| Record display | `record.rs` lines 111-143 | `FLV_MAX_STRING_DISPLAY` | `Debug`/`Display` of `RecordData` | not modelled: formatting only |

### How the multiplexer's parts interact

- **Callers.** A serial caller takes an id under the counter lock. It
  inserts a `Serial(slot, Event)` under the `senders` lock, then writes the
  frame through the `ExclusiveFlvSink`. Only then does it enter `select!`,
  which creates the `EventListener` and races it against
  `sleep(FLV_SOCKET_WAIT)`. Either branch takes the `senders` lock again to
  remove the waiter.
- **Stream callers.** A stream caller takes an id and creates a bounded
  channel. Under the lock it sweeps out closed queue waiters (`retain`) and
  inserts its own. Then it writes the frame and polls the `AsyncResponse`.
- **The dispatcher.** This is one spawned task. It races the next frame
  against `terminate.listen()`. For each frame it locks `senders`:
  - for a serial waiter, it fills the slot and calls `notify(1)`;
  - for a queue waiter, it `send(..).await`s into the channel. While the
    channel is full, it keeps the map lock.
- **EOF.** The dispatcher sends `None` to every queue waiter, still holding
  the lock, and stops. After a read error it stops and tells no one.
- **Drop.** Dropping the socket calls `terminate.notify`.
- **Shared state** is the `senders` map and the per-waiter slots, Events and
  channels. Every suspension point is a possible interleaving.

What makes the multiplexer hard:

- **Lost notifications.** `event_listener` only wakes listeners that are
  already registered, so a notification can be lost.
- **Lock held across an await.** The dispatcher holds the map lock while it
  waits on a full channel.
- **Cancellation.** A future can be dropped at any await.
- **Timeouts.** A timeout can race a late answer.
- **Connection end.** The peer can close the connection or break it at any
  time.

### Properties that make each component correct

- **Multiplexer.**
  - Each response reaches the exchange that asked for it.
  - A response for an exchange that is still waiting is never thrown away.
  - A stream yields its responses in emission order.
  - Once the dispatcher has stopped, every open stream ends.
  - Every serial call returns within the timeout.
  - A closed connection ends every exchange: UnexpectedEof or end-of-stream.
  - Dropping the socket ends every stream.
  - A finished or cancelled exchange leaves no waiter behind.
- **Codec.**
  - `decode(encode(x)) = x`.
  - `len(encode(x)) = write_size(x)`.
  - A RecordSet with a truncated tail decodes to the batches before the
    truncation.
  - A short input fails with UnexpectedEof.
  - The number of bytes consumed equals the declared length.
  - A record written before keys became optional still decodes, or is
    rejected, never misread.
- **Reducer.**
  - A partition whose leader goes offline is eventually led by an online
    SPU or marked LeaderOffline.
  - A partition whose metadata is being deleted eventually has its status
    marked (not checked; see section 5).
  - (Which suitable replica is preferred is decided in `candidate_leader`,
    which is not in this repository.)

## 2. Plan

The multiplexer is the most concurrent part and the one tests reach least,
so it comes first.

1. `Multiplexer.tla` and `MCMultiplexer.tla`. Done in this sitting.
2. `RecordCodec.tla`. Done (section 4). It holds the primitive codec as RECURSIVE operators
   over byte sequences: zig-zag varint of bounded width (spec_modelled), and
   length-prefixed `RecordData`, `Option` key, `Record` and `RecordSet`. It
   is a pure-algorithm module, checked against a reference definition over
   all small values. Each decoder returns what is left in `src`, so a run
   can ask what is left after a truncated RecordSet.
3. `StreamExchange.tla`. Done (section 3): the refinement is checked in
   run `mux_safety`. An abstract spec of `send_and_receive` was tried and
   dropped: once routing (`ResponseMatchesRequest`) is checked, all it
   added was that write errors come only from a closed link, which the
   model's `Send` guard says by itself (a real sink can fail on an open
   link; the model abstracts those errors away).
4. `PartitionReducer.tla`. Done (section 5): the SPU-offline and SPU-online
   elections and deletion marking over three SPUs and two partitions, with
   `potential_leader_score`'s `lag as u16` kept at 16 bits.
5. Extensions to `Multiplexer`: done for streams after a read error and
   streams created after the dispatcher has exited (run `mux_read_error`).
   A peer that repeats a serial response frame (the `"dup"` fault; the slot
   is overwritten at line 400, or the frame dropped once the caller has
   removed its sender) is checked in run `mux_liveness`.
6. `RecordCodec`: done for the legacy key layout and the zero-copy
   `FileRecordSet::file_encode` path (section 4).
7. Larger instances where they stay in reach: record sets of up to 4
   batches in run `codec`. What is still outside the model is listed
   under each module's "Not modelled": formatting, the `RecordSet`
   accessors, the HTTP client (URL building with no state), the code
   generator, the test harness, and the numeric edges that need 2^31
   calls or bytes.

## 3. Multiplexer.tla

### State

| Variable | Code |
|---|---|
| `counter` | `correlation_id_counter` |
| `senders` | the `Senders` map, as a function from id to `[kind, owner]`. Insert is `@@` with the new entry on the left, like `HashMap::insert`. |
| `slot`, `notified` | each serial waiter's `Arc<Mutex<Option<BytesMut>>>`, and whether its `Event::notify(1)` found a registered listener |
| `chan` | each queue waiter's `async_channel`: its buffer and closed flag |
| `pc`, `cid`, `result`, `answer` | where each serial caller is in `send_and_receive`, its id, how its last call ended, and the bytes it decoded |
| `spc`, `sid`, `got` | where each stream caller is, its id, and the items its stream has yielded |
| `disp` | the dispatcher loop: `read` (in `select!`), `qblocked` (awaiting a full queue, lock held), `eof` (sending `None`, lock held), `done` |
| `toServer`, `replied`, `toClient`, `peer` | the peer: requests written, replies sent per id, frames in TCP order, and connection state |
| `terminated`, `termHeard` | the socket was dropped, and whether `terminate.notify` found the dispatcher listening |
| `discarded` | history: ids whose frame found no waiter |

### Actions

Each action is the code between two awaits, so every suspension point is an
interleaving point.

- **Serial callers:** `Call` (which takes its id from `CorrelationId`, the
  counter read under its lock), `Register`, `Send`, `Listen` (select! builds
  `listen()`), `Timeout`, `Wake`, `TimeoutRemove`, `WokenRemove` and
  `Cancel` (the future is dropped).
- **Stream callers:** `Create`, `SRegister` (sweep and insert), `SSend`,
  `SCancel`, `Poll`, `EndOfStream` and `DropStream`.
- **Dispatcher:** `DispRead`, whose routing is `DispatchTo` (the `send`
  function), `DispUnblock`, `DispEof`, `DispEofSend`, `DispEofDone`,
  `DispBroken` and `DispTerminate`.
- **Socket:** `Drop`.
- **Peer:** `PeerReply` (the test server) and `PeerFail` (close or break); `SerialCopies` lets the reply to a serial request be written twice under the `"dup"` fault.
- **End state:** `Quiescent` is the end state, where every caller is idle and
  the ids are used up or the socket is dropped.

Modelling choices:

- Time is abstract. A waiting caller's timer may fire at any moment, and
  `select!` may pick it even when the notification is ready too.
- A write to a closed or broken connection may succeed (it is buffered) or
  fail.

### Fairness (FairSpec)

These fairness conditions are assumed, each justified by the code:

- **Weak fairness.** The dispatcher task, the sink write, `listen()` and the
  timer.
- **Strong fairness.** Every step that takes the `senders` lock.
  `async_lock::Mutex` is fair, and the dispatcher takes and releases that
  lock over and over.
- **Consumers.** Stream consumers poll an open stream.

Nothing is assumed of:

- callers, which need not call, cancel or drop;
- the peer, which need not answer or close.

`IdleConsumerSpec` is FairSpec without the consumer's obligation to poll.
Spec §9 allows a consumer that falls behind.

### Runs

- **`mux_safety`: pass.** Bounds: 2 serial callers and 1 stream, 3 ids,
  queue capacity 1, 2 stream responses, the peer may close or break the
  connection, cancellation allowed. Symmetry over serial callers. About
  1.6 M states in under a minute. All its properties are invariants or
  action properties (`[][A]_v`), for which symmetry is sound: each is
  unchanged when the two serial callers are swapped.
  - `TypeOK`, which also bounds every stream channel by its capacity
    (`bounded(queue_len)`, line 214): a dispatcher that pushed past a full
    queue, or an unbounded channel, breaks it.
  - `ResponseMatchesRequest`: every Ok carries the caller's own response, and
    a stream yields only stream responses.
  - `NoDiscardForLiveWaiter`: a frame for a waiting exchange is never dropped
    for want of a waiter. This is the register-before-send rule, and it also
    says the `retain` sweep never removes a live waiter. The comment at
    lines 233-234 ("it is possible that msg have received by dispatcher
    before channel is inserted into senders") is stale: `create_stream`
    inserts the queue (line 224) before it sends the request (line 229),
    and this property checks that no such discard happens.
  - `StreamExchangeRefined`: the stream side implements `StreamExchange.tla`,
    what `create_stream` promises with the multiplexing left out. A stream
    opens under an id no open stream holds and the peer has not yet
    answered; it yields the responses emitted under its id, each once, in
    emission order, and never one not yet emitted; it may end at any time.
    The mapping: a stream is open while `spc # "idle"`, `seen` is `got`, and
    the peer's emission count is `replied`. Every serial-caller step is an
    abstract stutter. (This subsumes the earlier invariant that an open
    stream has yielded exactly 1..k.)
- **`mux_liveness`: pass.** Bounds: 1 serial caller and 1 stream, 2 ids; the
  peer may close or break, and may write a serial reply frame twice
  (`"dup"`, so `SerialCopies` = 2). The second copy lands either in the slot
  while the caller waits (send overwrites it, line 400) or after the caller
  has removed its sender (logged and dropped). `mux_safety` keeps
  `PeerFaults = {"close", "break"}`: with `"dup"` it grows to 9.6M states
  and about 9 minutes.
  - `SerialCallReturns`, under FairSpec.
  - `StreamYieldsResponses`, under FairSpec: an open stream whose consumer
    polls eventually yields the k-th response the peer wrote under its id,
    or ends. With 2 responses and queue capacity 1 the dispatcher blocks on
    the second while holding the `senders` lock; the property says that
    this backpressure delays a response but never loses it (a `try_send`
    that drops on a full queue breaks it).
- **`mux_lost_wakeup`: violation.** `NoLostWakeup` fails. The response lands
  after `send_request` but before `select!` calls `listen()`, and
  `notify(1)` reaches no listener. The caller then sleeps until the timeout
  although its slot is full.
- **`mux_idle_consumer`: violation.** `SerialCallReturns` fails under
  IdleConsumerSpec. A full queue blocks the dispatcher inside `send`, which
  holds the `senders` lock. A serial caller then cannot even register, and
  a timed-out one could not remove its waiter, so FLV_SOCKET_WAIT does not
  bound the call.
- **`mux_drop_lost`: violation.** `StreamEndsAfterDrop` fails. The socket is
  dropped while the dispatcher is inside a blocked queue send, so
  `terminate.notify` finds no listener. The dispatcher returns to `select!`
  with a fresh listener, and the stream never ends (spec §8, scenario 6).
- **`mux_orphan_waiter`: violation.** `NoOrphanWaiter` fails. A
  `send_and_receive` future dropped after registering leaves its waiter in
  the map for good, although spec §4.5.2 says cancellation unregisters it.
  The `retain` sweep keeps serial waiters.
- **`mux_read_error`: violation.** `StreamEndsAfterDispatcherExit` fails
  under FairSpec, with no serial caller, 2 ids and a peer that may break the
  connection. The property: once `dispatcher_loop` has returned, an open
  stream whose consumer keeps polling ends (spec §4.5.4 lists dispatcher
  closure as Open → Closed). On a read error (line 349) the loop breaks
  without closing or signalling the queues, so the stream waits in
  `poll_next` for good. The same property also fails for a stream that
  `create_stream` registers after the loop has exited (line 224: nothing
  checks that the dispatcher is alive), and after EOF, where the stream
  gets `Err(SocketClosed)` but its channel is never closed.
- **`mux_eof_serial`: violation.** `EofReachesSerialCaller` fails. The
  property is about a serial call that is already waiting, with an empty
  slot, while the dispatcher handles EOF; the dispatcher holds the
  `senders` lock there, so the call registered before EOF. TLC's trace:
  the call registers, the peer closes, the dispatcher takes the EOF branch,
  the call writes its request and enters `select!`, the dispatcher skips
  the serial waiter (line 358) and exits, and the call times out. It ends
  with TimedOut, never with the UnexpectedEof that spec §4.6 promises; the
  "connection is closed" branch (lines 179-185) is unreachable.

### Bounds

2 stream responses with queue capacity 1 make the dispatcher block on a full
queue while the consumer lags, and the second response then waits in the
dispatcher until the first is polled. That is the case in which a frame
could be duplicated or reordered. 2 serial callers with 3 ids give two concurrent calls and
a third exchange, which is enough for id collisions and for the sweep to
meet a serial waiter.

The liveness run keeps one serial caller and 2 ids: with the two serial
callers and 3 ids of `mux_safety`, FairSpec's state graph passes 3.4M states
and the temporal check does not finish in 15 minutes. The duplicate fault
is checked there for the same reason; adding it to `mux_safety` multiplies
that run's states by six.

### Not modelled in this module

- The 32-bit wrap of the correlation counter (line 52). It needs 2^31 calls.
- A frame whose correlation id fails to decode (line 346). It only logs.
- The `BrokenPipe` branches of `try_lock`. The model shows they cannot be
  reached: the slot lock is only taken inside the `senders` critical
  sections.
- The TLS transport.

## 4. RecordCodec.tla

The codec has no state, so the module is a set of operators and a harness.

### Operators

Each encoder maps a value to a byte sequence (bytes are `0..255`). Each
decoder maps the bytes left in `src` to `[ok, err, val, rest]`, where `rest`
is what the `Buf` still holds afterwards. A decoder that stops early is
therefore visible as bytes left over.

| Operators | Code |
|---|---|
| `RecordDataWriteSize`, `EncodeRecordData`, `DecodeRecordData` | `record.rs` 145-186. The decoder keeps the `take(len)` behaviour: it yields `min(len, remaining)` bytes, and a negative length takes everything. |
| `EncodeHeader`, `HeaderWriteSize`, `DecodeHeader` | `RecordHeader` (311-318). The derived codec writes the fields in declaration order. |
| `RecordWriteSize`, `EncodeRecord`, `DecodeRecord` | `Record` (419-472): the outer varint length, the `remaining < len` check, then the four fields read from `src` itself. |
| `EncodeRecordSet` | `RecordSet::encode` (289-308): the i32 length, then the batches. |
| `FileEncode` | `FileRecordSet::file_encode` (691-707): the i32 length of a stored file slice, then the slice, which is how a broker sends a RecordSet without copying it. |
| `NewRecord`, `NewKeyValue`, `DefaultPreamble` | `Record::new`, `Record::new_key_value` (369-402); the harness builds its batch records with them, as the truncation test does. |
| `LegacyEncodeRecord` | the pre-`Option` record layout that `test_decode_old_record_empty_key` describes (567-605): the key is a plain byte string, always present. |
| actions `ReadLen`, `DecodeNextBatch`, `LoopExit` | `RecordSet::decode` (231-280), one step per loop iteration. `src` is the underlying `Buf` and `limit` is the `Take` over it, so bytes a batch consumes through the `Take` are also gone from `src`. Any batch error returns Ok at once. |
| `ZigZag`, `VarBytes`, `DecodeVarInt`/`VarValue`, `EncodeI32`/`DecodeI32`, `EncodeI8`/`DecodeI8`, `EncodeKey`/`DecodeKey` | spec_modelled (spec 4.1). These crates are not in `src/`. |
| `EncodeBatch`, `DecodeBatch`, `BatchWriteSize` | spec_modelled (spec 3). A batch is a base offset, a body length and its records. It fails with UnexpectedEof when truncated. |

There are two harnesses. `CodecSpec` starts in either, so one run covers
both.

- **Records** (`RecordInit`). It chooses `rec` once and never changes it,
  so each state is one record, and the decoder stays at rest (`dpc` is
  `"idle"`). The record properties are invariants over `rec` in these
  states.
- **Record sets** (`SetInit`, `SetSpec`). It chooses a record set `set` and a cut `cut`. It also
  chooses `relen`. When it is true the cut bytes are the stored slice of a
  log whose last batch was only partly written, sent by `FileEncode` under
  the slice's own length (the same bytes spec 7's test builds by hand).
  When it is false the set keeps its old length (a short read). The input
  bytes are put in `src`, followed by one trailer byte when `relen` is
  true. Then
  `RecordSet::decode` runs step by step until `Returned`.

The decoder loop is a state machine rather than one recursive operator.
This keeps each step's evaluation small, and it makes the reader's leftover
bytes a piece of state.

### Runs

- **`codec`: pass.** Over 1728 records and 336 record sets of 2 to 4
  batches, each set cut at every byte of its last batch, with and without
  the length rewritten (55488 states). With 4 batches the truncated set
  still decodes three whole batches through the `Take` before it meets
  the broken one. The module has no type invariant: its only state is the
  value under test and the decoder's position, and that every emitted byte
  is a byte is what Rust's `u8` already guarantees. `RecordSet::write_size`
  (283-287) is not modelled: with the Batch codec spec_modelled, its
  agreement with `encode` reduces to the fold's seed 4 for the i32 prefix.
  - `RecordRoundTrip`: decoding `encode(r) ++ trailer` gives `r` and leaves
    exactly the trailer.
  - `WriteSizeMatchesEncoding`: `write_size` equals the encoded length.
  - `RecordSetDecodesWholeBatches`: when decode returns, the outcome
    depends on the input:
    - a cut set with its length rewritten has given all but its last
      batch. This is spec 7's truncation test, generalised;
    - an uncut set has given all of its batches;
    - a set cut short under its old length has failed with UnexpectedEof.
  - `LegacyKeyCompatible` (spec §9): a record in the layout before keys
    became optional decodes to the same record with the key absent when the
    old key was empty (its length byte 0x00 reads as the None tag). When the
    old key was not empty, decode fails with InvalidData at the key tag
    (length 4 gives tag 8, length 64 gives 0x80), and never reads the key
    as present over the wrong bytes.
- **`codec_set_consumption`: violation.** `RecordSetConsumesDeclaredLength`
  fails.
  - A truncated set returns Ok at its broken last batch, from inside the
    `take(len)` loop.
  - The rest of the declared length stays in `src`.
  - A caller that decodes the next field after the set starts in the middle
    of the broken batch. For example, the next partition of a fetch
    response.

### Bounds

The bounds are chosen to hit the codec's edge cases:

- **Deltas.** The values {0, -1, 63, 64, -65, 8192} give zig-zag varints of
  1, 2 and 3 bytes, and both signs.
- **Values and keys.** The sizes 0, 4 and 64 bytes make the RecordData
  length varint, and the outer record length, cross from 1 to 2 bytes.
- **Attributes.** The values {0, -1} cover the i8 sign.
- **Truncation.** Every cut of the last batch is tried, from 1 byte to all
  but one byte, so the cut lands in the batch header, the record length and
  every field.

### Not modelled

- The 10-byte varint limit is modelled (`MaxVarBytes`), but no input
  reaches it.
- Malformed records, whose outer length disagrees with their fields
  (line 459), are not enumerated.
- `Display`/`Debug` are formatting only, and so are not modelled.
- The `RecordSet` accessors `add`, `last_offset`, `total_records` and
  `base_offset` read `batches` without changing anything; `last_offset`
  depends on `Batch::computed_last_offset`, which is outside `src/`.
- `FileRecordSet::encode` only handles an empty slice and its `decode` is
  `unimplemented!`; neither is on the send path `file_encode` models.
- `file_encode`'s `len() as i32` wraps for slices of 2 GiB or more; no
  instance reaches that size.
- `RecordData::decode` on its own keeps `take(len)`'s `min(len, remaining)`
  in the model, so a source shorter than the length decodes Ok to a shorter
  value, where spec 4.1 says UnexpectedEof. No run asks about it: the only
  caller in the repository, `Record::decode`, checks `remaining >= len`
  first (line 459), and the record round-trip covers that path.

## 5. PartitionReducer.tla

The reducer is a set of async functions. It reads the SPU store and the
partition store, and it returns a list of WS actions (`UpdateSpec`,
`UpdateStatus`) for the controller to hand on. It writes nothing itself.
The model keeps its control flow and puts around it what it reads and what
consumes its output.

### State

| Variable | Code |
|---|---|
| `online` | the SPU store's `is_online()` per SPU |
| `leader`, `status` | the partition store: `spec.leader`, and `status` reduced to its leader SPU, `resolution` (Online / LeaderOffline) and `is_being_deleted` |
| `deleteTs` | `ctx().item().is_being_deleted()` of each partition |
| `spuChanged`, `partChanged` | the changes that have not yet reached the reducer |
| `rpc`, `offQ`, `onQ`, `actions` | where `update_election_from_spu_changes` is: the offline SPUs and online SPUs of the batch still to go, and the `actions` vector built so far |
| `ws` | the actions returned and not yet applied to the partition store |

The replicas' log end offsets are the constant `Leo`, because nothing in
the reducer changes them.

### Actions

| Action | Code |
|---|---|
| `StartSpuBatch` | lines 108-116: the changed SPUs' values, read when the changes are fetched, split into online and offline |
| `ElectionSpuOff(s)` | `force_election_spu_off` (133-182): the snapshot of `online_status()` and the loop over partitions led by `s`, giving an `UpdateSpec` to a candidate or an `UpdateStatus` with `LeaderOffline` (a clone of the whole status) |
| `OnlineLoop`, `ElectionSpuOn(s)` | lines 118-127 and `force_election_spu_on` (186-224): an offline partition led by another SPU, where `s` is a suitable follower, gets an `UpdateSpec` to `s` |
| `FinishSpuBatch` | line 128: the actions are returned |
| `ProcessPartitionUpdate` | `process_partition_update` (83-102) |
| `PotentialLeaderScore`, `IsSuitable` | `SimplePolicy` (236-247): `lag < 4`, and `lag as u16` as `lag % 65536` |

The environment's actions are these:
- `WsApply` applies the oldest returned action to the store.
- `SpuFlip` changes an SPU's status, at most `MaxFlips` times.
- `LeaderServes` is the leader SPU reporting itself Online. The comment at
  line 200 says the leader sets the status when it starts.
- `DeletePartition` sets a deletion timestamp.

`PartitionStatus::candidate_leader` is not in this repository. `Candidates`
takes it to return some follower that is online in the snapshot and
suitable by the policy, or None when there is none. Which one it prefers is
left open.

Each reducer function's store read runs without a break, under the store's
read guard. An SPU change between `online_status()` and the partition read
commutes with that read. So each call to `force_election_*` is one step.

### Fairness

`FairSpec` assumes these steps are weakly fair:
- the reducer's steps, because the controller loop calls it for every
  batch;
- `WsApply`, because the WS keeps applying what it was handed;
- `LeaderServes` for each partition.

SPU changes and deletions are not fair: they come from the environment and
are bounded. Deadlock is not checked, because once the bounded changes are
used up the controller waits, and the system may stop.

### Runs

The constant `AsyncApply` says whether a batch may start while actions from
an earlier batch are still in `ws`.

- **`reducer_sync`: pass.** `AsyncApply = FALSE`, 126137 states.
  - `TypeOK`.
  - `LeaderLossHandled`: a partition whose leader is offline while its
    status says Online eventually is not. This holds also when a
    candidate chosen from the snapshot goes offline before its
    `UpdateSpec` lands: the next batch finds the partition by its new
    leader. (`force_election_spu_on` only acts on partitions that are not
    Online, where `LeaderLost` is false, so this property says nothing
    about it.)
  - Deletion marking is not checked by a property. In this run an
    `UpdateStatus` cloned from an older status can never overwrite the mark
    (each batch waits for `ws` to drain), so a property here would only
    restate the filter at line 91; the overwrite needs `AsyncApply`.
- **`reducer_async`: violation.** `AsyncApply = TRUE`. `LeaderLossHandled`
  fails:
  1. SPU 1 goes offline, and partition 1 gets `UpdateSpec(leader 2)`.
  2. SPU 2 goes offline before that action is applied.
  3. The next batch looks for partitions whose `spec.leader` is 2 (line
     153) and finds only partition 2, which it re-elects to SPU 3.
  4. Once the action lands, partition 1 is led by offline SPU 2 with status
     Online. `force_election_spu_on` skips it later, because it is not
     offline.

  The controller that calls the reducer is not in `src/`. Whether its WS
  actions reach the store before the next batch is therefore what the
  reducer's correctness rests on.

### Bounds

- **SPUs and partitions.** Three SPUs, and two partitions replicated on all
  three, are enough for a partition to have a second candidate after its
  first one fails.
- **Partition 1.** Its replica on SPU 3 lags by 5, so it is never
  suitable. This makes the no-candidate case happen.
- **Partition 2.** Its replica on SPU 1 is one offset ahead of the leader,
  so its lag is negative and wraps in `lag as u16`.
- **Flips.** `MaxFlips = 4` allows an offline, online, offline sequence to
  reach a newly chosen leader. The async run needs only 2.

### Not modelled

- How `candidate_leader` ranks suitable replicas, including how the
  wrapped 16-bit score of a replica that is ahead ranks. It is outside the
  repository.
- The controller that feeds the reducer and forwards its actions is not in
  `src/`. It appears only as the environment above.
- The commented-out tests (lines 256-378).
