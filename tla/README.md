# IronSBE in TLA+

IronSBE is a Simple Binary Encoding stack in Rust: schema and code generation,
zero-copy codecs, channels, transports, a client and server engine and market
data handling. This directory models its stateful and concurrent parts and the
path from a schema to bytes, checks them with TLC on small instances, and
proves central invariants of the server, the client, the RDMA data path and
the feed arbitrator with TLAPS.

`PROJECT.json` lists the components, the runs, the mutants of each property,
the source lines each definition stands for, the findings and the hazards.

## Inventory of the system

| Part | State | Operations | What makes it hard |
|---|---|---|---|
| server (`ironsbe-server/src/builder.rs`, `session.rs`) | session table, cancellation tokens, per-session senders, command and event channel, `cmd_notify` | accept, drain, four commands, session task, teardown, handle calls | run loop, tasks and callers on different threads; bounded channels whose failures are ignored; push and notify are two steps |
| local server (`local_builder.rs`) | the same without tokens | the same on one thread | callers are still on other threads; nothing cancels a task |
| client (`ironsbe-client/src/builder.rs`, `reconnect.rs`, `session.rs`, `local_builder.rs`) | two SPSC channels with a Notify each, backoff state | connect, drain, receive, reconnect, handle calls | failed writes in mid-drain, drop while the other side waits, attempts and delays at their limits |
| channels (`ironsbe-channel/src`) | rings, buffers, wakers, closed flags | send, receive, poll, drop, connection predicates | two loads that are not one, lost wake-ups, eviction at the limit |
| shared-memory ring (`ironsbe-transport/src/ipc/ringbuffer.rs`) | header and bytes in a mapped file | write, read, open | two processes, wrap-around at every byte, restart in mid-operation |
| TCP and io_uring (`ironsbe-transport/src/tcp`, `tcp_uring`) | receive buffer, outstanding read | send, recv, cancelled recv | a read ends anywhere in a frame; a future dropped while the kernel reads |
| AF_XDP (`ironsbe-transport/src/xdp`) | descriptor pool, four rings, UDP connections or smoltcp sessions | one poll round, accept, recv, send, drop | every descriptor in one place, errors in mid-batch, segments against frames |
| RDMA (`ironsbe-transport-rdma/src`) | queue pair, completion queue, receive buffers, native objects | bind, accept, connect, send, recv, drop | one completion queue for both directions, hand-written release on each error path |
| DPDK (`ironsbe-transport-dpdk/src`) | process-wide EAL, named pool, port, mbufs | bind, accept loop | two threads binding at once, errors in mid-burst |
| feed arbitrator (`ironsbe-transport/src/udp/multicast.rs`) | LRU of seen numbers, expected number | process_packet, check_gap, reset | two feeds, any order, losses |
| market data (`ironsbe-marketdata/src`) | instrument states, books, queues, expected numbers, recovery list, symbol index | incremental, snapshot, subscribe, stale, recovery requests, add/remove | gaps, replay of queued updates on old or new snapshots |
| schema (`ironsbe-schema/src`) | the parser's position and call stack | parse, validate, build the IR | a pull parser that takes any End for its own, offsets computed from what is known so far |
| codecs (`ironsbe-codegen/src`, `ironsbe-core/src`) | pooled buffers | wrap, set, get, groups, release | offsets and lengths computed in four places must agree |

Interactions: the server and the client talk to a `Transport` connection and
are driven through a handle over `ironsbe-channel`; a transport hands whole
messages to a session; the code generator reads what the parser computed; the
market data structs are used side by side by an application, and the
repository contains no program that composes them.

## Modules

Every component has a module with its state, one action per operation or
atomic step, and its properties. An operation is cut into several actions
exactly where another thread, process or device can act in between: between a
push and the notify after it, between two atomic loads, between the copies and
the publishing store, at an await. Everything done under one lock or between
two awaits on one task is one action.

The `MC...` modules instantiate components for TLC. `MCClient`,
`MCLocalServer`, `MCSharedRing` and `MCCodec` hold one each. `MCServer` (two
instances of `Server`), `MCServers`, `MCChannels`, `MCMarketData` and
`MCTransports` (which extends `MCChannels`) hold several that share nothing: a
variable `running` says which of them a behaviour is about and the others stay
in their initial states, so the run explores the union of the state spaces.

### Server

`Server` models `Server::run` (`HandleConnection`, `Notified`, `Drained`,
`HandleShutdown`, `HandleCloseSession`, `HandleBroadcast`, `HandleSendTo`),
the spawned session task (`Reply`, `ReplyTo`, `TakeOutbound`, `SendDone`, the
four ways `handle_session` returns, then `EndSession`, `SignalClose`,
`NotifyClose`) and the `ServerHandle` (`Call...`, `CallNotify`,
`PollEvents`). `sessions`, `session_tokens` and `session_senders` are the
three tables; `cmds` and `events` the bounded channels, where `TrySend` drops
what does not fit, as the ignored results of `try_send` do; `permit` is the
one permit `tokio::sync::Notify` stores. Peers are arbitrary: they may send,
leave or stop reading at any moment.

`LocalServer` is the single-threaded server. Its loop and tasks share a
thread, so a session's end and its signals are one action and no task runs
inside a drain; the handle's callers are on other threads and interleave
everywhere.

### Client

`Client` models `Client::run` and `connect_and_run` (connect, select, drain,
write, failure, backoff), `ReconnectState`, and the one holder of the
`ClientHandle` (`send`, `disconnect`, `poll`, `wait_event` in its three
steps, drop). `LocalClient` has the same control flow and is covered by the
same module. `config` is the `ReconnectConfig`, chosen in the initial state.
Durations are whole numbers and the multiplier is a whole number.

### Channels

`SpscChannel`, `MpscChannel`, `BroadcastChannel`, `AsyncNotifier` and
`AsyncOneshot`. The rings of `rtrb` and `crossbeam` are external and taken to
be linearizable queues. `SpscChannel` executes the two loads of `is_connected`
in program order (`ProbeFlag`, `ProbeRing`) or with the Relaxed load of
`closed` behind the look at the ring (`EarlyRing`, `LateFlag`), which the
language allows and weakly ordered processors do; `over` remembers which of the
two answered FALSE. `MpscChannel` remembers in `swallowed` the items
`is_disconnected` took out of the channel.

### Shared-memory ring

`SharedRing` holds the mapped file byte by byte, header included, so that an
overlap of header and data shows. `write` and `read` are four steps each
(loads, prefix, data, publishing store). Either process may stop between any
two steps and be restarted. `Fifo` is the abstract channel: a sequence, an
append and a removal. `ImplementsFifo` says that the ring implements it with
the refinement mapping of its own history variables, once the header is large
enough for its own fields (`HeaderFits`), which the program's is not.

### TCP

`TcpFraming` is one direction of a connection for both backends: the sender
frames messages onto the byte stream and may close or die inside a frame, the
receiver reads any number of bytes at a time, and the `recv` future may be
dropped and made again. With `tokio` a dropped read takes nothing; with
io_uring it stays with the kernel as an `orphan` and takes bytes that nobody
will look at, counted in `lost`.

### RDMA

`RdmaSetup` is about ownership: `heap` holds the native objects that exist and
the wrong releases so far, and binding, accepting, connecting, failing,
cancelling and dropping create and release them in the order of the code.
`RdmaConnection` is the data path: `sq`, `posted` and `cq` are the work and
completion queues, `pending_sends` and `pending_recvs` the code's own account of
them; the adapter completes work in order and may flush everything when the
queue pair fails. `send_buf` is the one send buffer, `SendLens` the lengths of
the messages, and `wire` what the peer makes of each frame; `unposted` holds
the receive buffers a failing `post_recv` left behind.

### AF_XDP and DPDK

`XdpUdp` models `Datapath::poll_once` step by step over the free list and the
fill, receive, transmit and completion rings, the accept loop around it, and
`UdpStack` with its connections. `SmoltcpStack` models the TCP stack's `poll`:
sessions, decode buffers and queues over sockets of the external smoltcp
library. `DpdkTransport` models `bind_with` of several threads and the accept
loop with its bursts.

### Schema, code generator and codecs

`SbeSchema` holds the type table, the validator and the intermediate
representation as operators on records. `SchemaParser` is the pull parser: one
action consumes one event of the XML reader on behalf of the `parse_*` function
that is running, and `stack` holds the functions called and not returned.
`GeneratedCodec` is what generated code does: a caller takes a buffer from the
`BufferPool`, wraps it with an encoder, calls setters and group encoders in any
order and releases the buffer; decoders are operators over the same bytes.
`CodecPipeline` composes them: every offset and length the codec uses is one
the parser computed from the document.

### Market data

`MarketData` models `MarketDataHandler` with the books: a fixed tape of
updates is what the exchange did, and the handler receives any update and any
snapshot in any order any number of times. `Truth[n]` is the exchange's book
after n updates, which is also what snapshot n contains.
`InstrumentArbitrator`, `RecoveryManager` and `InstrumentManager` model the
structs of the same names. `FeedArbitrator` is the transport's arbitrator
with an LRU cache of `CacheSize` numbers.

## What the runs show

### Passing runs

| Run | Properties | Shows |
|---|---|---|
| `server` | `TypeOK`, `NoLostWakeup`, `RegistryAgrees`, `ConnectionBound`, `SlotAccounted`, `EventsTruthful`, `DeliveryOrder` | the tables of the run loop agree, no queued command is without a pending wake-up, `max_connections` bounds the sessions not told to close, a finished session's slot is on its way back unless the channel refused it, `SessionClosed` follows the end and nothing more about the session is queued behind it; two broadcasts reach every two peers in one order and no message is delivered twice |
| `servers` | `TypesOK`, `CancelledEnds`, `ShutdownEnds`, `SlotsReclaimed` | both servers under fair scheduling: cancelled sessions end though the peer stalls in a write; a queued Shutdown stops the loop (of the local server: the loop, not the sessions); slots come back |
| `client` | `TypeOK`, `NothingStranded`, `SendsConserved`, `NoneIsFinal`, `DisconnectEnds`, `EventReachesWaiter` | with reconnection disabled, limited and unlimited: commands and events keep a wake-up, messages stay in order and are lost only by failed writes, `None` comes after the last event, retries and delays respect their limits (in `TypeOK`), a queued Disconnect ends a client that keeps getting back to its `select!` unless a write failed, a waiter gets its event |
| `transports` | see below | the five channels, the ring and the network transports, one at a time |
| `codec` | `TypeOK`, `RoundTrip`, `GroupRoundTrip`, `UnsetReadsDefault`, `NoPanicInBlock`, `OneDecoder`, `ParsedAsWritten`, `ParseReturns` | the parser finds the written structure and returns on every document; under a validated schema whose types are declared before use and whose fields without bytes lie in place, every field and group entry reads back as last set, unset fields read as their default in a reused buffer, setters stay in the block, and the bytes decode as one message only |
| `marketdata` | `TypeOK`, `BookRightUnlessHole`, `FeedsAccounted`, `TablesAgree`, `GapsHandled` | the book of an Active instrument is the exchange's unless a queue with a hole was replayed; repeats come only from beyond the cache and every missing number is reported; an instrument recovers exactly while its one request is pending and the symbol index is right while ids and symbols are fresh; gaps are reported with their exact bounds and a request is kept until it is completed or timed out |

The properties of `transports` are conjunctions of the components' own:

| Property | Of | Says |
|---|---|---|
| `TypeOK` | all with a bound | types hold, and every channel, ring and pool stays within its capacity |
| `NoSilentLoss` | SPSC, MPSC, broadcast | a receiver told that the sender is gone has received everything; nothing accepted is lost, doubled or overtaken; a broadcast receiver misses only what had to be evicted |
| `WaitersToldTruth` | notifier, oneshot | no wake-up is lost with one waiter; a oneshot's `None` is honest |
| `NoDataRace`, `ImplementsFifo` | shared ring, repaired | with a data region behind the header's last field (`RepairedHeaderSize`, 144 bytes) the ring is a FIFO and its plain memory accesses never meet; the program's `HEADER_SIZE` is 128, and of that ring neither holds (`shared_ring_header`) |
| `BuffersAccounted` | XDP, RDMA, DPDK | every descriptor, receive buffer and mbuf is in exactly one place, the leaked ones on the error paths listed below included |
| `MessagesInOrder` | TCP, io_uring, XDP UDP and TCP, RDMA | `recv` returns the peer's messages, in order and once, however the bytes were cut, except for the losses listed below; RDMA sends make one frame each, in order, none with an older message, and the last one arrives whole |
| `CqBounded` | RDMA | the completion queue has room for all that can still complete |
| `ReleasedOnce` | RDMA, DPDK | native objects have one owner and are released once, children first |
| `WaitsEnd` | oneshot, TCP, RDMA, XDP TCP | waits end: a oneshot's once its sender is used or dropped, a `recv` once the frame is on the stream or the connection was reset, a `send` while the adapter works, a connection request while the server accepts |

### Runs that end in a violation

Each checks one sentence of the repository's documentation against the code.

| Run | Documented | What happens |
|---|---|---|
| `local_server_bound` (`ConcurrentBound`) | `max_connections` is "the maximum number of concurrent sessions" | `close_session` frees the slot and leaves the session running; the next connection is one too many |
| `client_stranded` (`DisconnectHonoured`) | "Drain all available commands after notification." | a failed write leaves the rest queued with no permit, a Disconnect among them |
| `shared_ring_header` (`HeaderIntact`) | the size of the header | capacity and mask lie in the data region and the first write overwrites them |
| `marketdata_hole` (`BookRight`) | gap detection and snapshot recovery | a queue with a hole is replayed and the instrument goes Active with a wrong book |
| `xdp_udp_tx` (`SendIsTransmitted`) | "The datapath drains this on its next poll round." | nothing outside the tests calls `drain_pending_tx`; what `UdpConnection::send` queued stays queued |
| `codec_overlap` (`OffsetsFollow`) | a field without an offset goes "immediately after the previous field" | a type declared after the message counts as zero bytes and the next field is put on top of it |

### Other disagreements between code and documentation

Met while modelling and stated here without a run of their own. Where a
property has an exception, the exception is exactly this behaviour.

- Server: a session's own CloseSession is dropped when the command channel is
  full (`server/builder.rs:374`), and the slot leaks as the comment at `:316`
  says it must not. `SlotAccounted` and `SlotsReclaimed` except the sessions in
  `lost`.
- Local server: `close_session` ("Closes a specific session.") only forgets it;
  `LocalSessionResponder::send_to` ignores its session id
  (`local_builder.rs:294`).
- Client: a waiter parked when the client is dropped is not woken, although
  `wait_event` documents `None` for it (`builder.rs:386`); the client gives up
  after `max_attempts - 1` reconnects (`reconnect.rs:61`); the first delay is
  not capped by `max_delay` (`reconnect.rs:65`). While it connects, sleeps or
  writes it reads no command: with unlimited attempts and a server that stays
  down, or in a write that never completes (`builder.rs:291` has no timeout), a
  Disconnect is not looked at. `DisconnectEnds` and `DisconnectHonoured` assume
  that neither lasts for ever (`Served`).
- SPSC: with the Relaxed load of `closed` reordered (`spsc.rs:198`),
  `is_connected` may be false while an item waits; `SpscSender::len` returns
  the free slots (`:97`).
- MPSC: `is_disconnected` is true for any empty channel and drops an item that
  arrives between its two looks (`mpsc.rs:180`); `is_connected` does not look
  at the receiver (`:89`).
- Broadcast: `recv` of a receiver that lags returns `None` while newer messages
  are buffered (`broadcast.rs:147`); `lag` counts unread messages as missed
  (`:184`); with capacity 0 `send` never returns (`:72`).
- Notifier: one waker slot for all clones, so of two waiting tasks one may
  stay parked (`async_bridge.rs:84`).
- io_uring: a `recv` dropped while its read is with the kernel loses the bytes
  (`tcp_uring/mod.rs:261`), and the local server's `select!` drops it that way
  (`server/local_builder.rs:318`); an end of stream inside a frame is reported
  as a clean close (`tcp_uring/mod.rs:263`).
- AF_XDP: an error of `on_rx` leaves `poll_once` with the batch's descriptors
  in no ring and the connections accepted in that round dropped
  (`datapath.rs:203`).
- AF_XDP UDP: a peer whose connection was dropped stays in the table and is
  never offered to `accept` again (`stack/udp.rs:310`).
- AF_XDP TCP: `send_slice` may take a part of a frame and the rest is dropped
  (`stack/tcp.rs:350`); bytes behind an oversized frame are decoded as frames
  (`:305`); sessions are never removed, so `max_sessions` bounds the
  connections ever accepted (`:270`); a FIN leaves the socket active and does
  not end `recv` (`:283`).
- RDMA: all sends share `send_buf`, so a message not yet transmitted is
  overwritten by the next (`connection.rs:609`) under a work request that keeps
  the length of the first (`:620`): the peer finds the newer message in its
  place, a truncated frame when that one is longer, or a mix of both when the
  copy was under way. A `post_recv` that fails at the end of
  `consume_pending_recv` (`:550`) drops the message already read and leaves its
  buffer unposted. A failing `post_recv` in the constructor releases twice, by the
  connection's drop and by its caller (`:228`); a listener dropped before its
  connections destroys the event channel their CM IDs are on; a `connect`
  future dropped half way leaks what it made.
- DPDK: an error of `on_rx` leaks the rest of the burst (`transport.rs:166`);
  an error after the pool was created leaks it under its name, and no later
  bind succeeds (`port.rs:74`); two threads that bind first at once both call
  `rte_eal_init`, and one of them fails, though the comment says "OnceLock
  guarantees this runs at most once" (`eal.rs:64`).
- Schema: besides `codec_overlap`, built-in type names count as zero bytes
  (`parser.rs:694`); an empty `<group/>` or `<validValue/>` takes the End of its
  parent for its own, and `<field></field>` ends the message early
  (`parser.rs:157`). `ParsedAsWritten` is about documents in the style of the
  repository's own schemas, and `ParseReturns` about all.
- Codecs: `byteOrder="bigEndian"` is parsed and the generator emits `_le` calls
  only; the validator takes a field without bytes (an array of length 0, a
  composite without members) at any offset and goes on from there
  (`validation.rs:175`), so the fields behind it may lie on those before it and
  a field may end behind the block: the four properties of fields ask that such
  a field lies in place (`EmptyInPlace`), and each of them fails on the `Empties`
  documents of the run without that; an unset enum field reads as the first
  variant when none is zero (`enums.rs:79`); `encoded_length` leaves out the groups, though it "includes the header
  and all fixed/variable portions" (`core/decoder.rs:140`); the
  groups of a message start right behind the block, one header apart, so
  the second group's header lies on the first entry of the first one, also when
  the second is begun with no entries (`OneGroupOnly`);
  setters of arrays of wider elements take bytes; `generate_from_xml` does not
  call the validator.
- Feed arbitrator: a copy more than `cache_size` packets late is processed
  again (`multicast.rs:89`). Instrument arbitrator: an overtaken message is
  refused (`arbitration.rs:34`).
- Recovery manager: a second gap of an instrument in recovery is ignored
  (`recovery.rs:42`). Instrument manager: adding an id again under another
  symbol leaves the old symbol in the index (`instruments.rs:61`).
- Handler: the update with the snapshot's own number is replayed
  (`handler.rs:169`); `on_snapshot` sends no `TopOfBookChanged`, and the Stale
  branch of `on_incremental` no `StateChanged` (`:140`).

### Bounds

The constants named `Max...` bound behaviours, not the code: sessions, calls,
messages, failures, time. Channel capacities of one and two make full channels
the common case, and every bounded channel is filled, drained and overrun.

- `server`: one slot and two sessions let the second compete for a slot that is
  being released, with two callers in the middle of their calls; channels of
  two hold a session's start and end, or an end and what must not follow it,
  and are still filled and overrun. Its second instance has two connections and two messages, the
  fewest that can be seen in two orders. `servers`: one caller with one call
  (local: two with two), two sessions.
- `client`: two messages, a capacity of two, one inbound message and three
  reconnect configurations. Connects and writes may fail any number of times:
  with unlimited attempts nothing reads the count of failures, which stops at
  `MaxCounted` while they go on.
- `transports`: the ring has eight bytes and payloads of 0, 1 and 3 bytes, so
  that with the four-byte prefix every offset is a start and prefixes and
  payloads wrap at every byte. TCP frames have lengths 0, 2, 3 and 4 against a
  limit of three at the sender and two at the receiver, with a prefix of two
  bytes that a read can still cut. RDMA has two receive buffers, a completion
  queue of four, three sends of lengths 2, 1 and 3 and three frames of which
  one is malformed, so the watermarks are met and a message is overtaken by a
  shorter and by a longer one; set-up has two peers and a client. XDP has six
  descriptors, batches of two and two peers; smoltcp one session and a transmit
  buffer that cuts the second frame; DPDK two threads, three mbufs and bursts
  of two.
- `codec`: a library of documents pairs every kind of field type, explicit and
  computed offsets and block lengths, groups, composites, section orders and
  XML styles, puts fields without bytes in and out of place, and cuts some
  documents off; numbers of one and two bytes, a buffer
  that is too small for some messages, a pool of one buffer used twice.
- `marketdata`: the tape sets, changes and deletes a level on both sides and
  queues are longer than any gap; four numbers and a cache of two make copies
  come both within and beyond the cache.

Payloads, callers, feeds and instruments are symmetric where a cfg says so:
they are only compared. Deadlock checking is off where the bounds or the end of
the actors stop a behaviour.

### Fairness

Weak fairness of a task's own steps: the runtime polls a task that was woken.
The run loop's `Notified` is polled whenever a permit is stored, the drain runs
to its end, a teardown that began completes, a caller that pushed returns from
`notify_one`. The client's `Notified` has strong fairness: it is one branch of
a `select!` that tokio polls in random order, so it cannot be passed over for
ever by messages from the server. The client also assumes that a connect
resolves, to Ok or to an error, which `connect_timeout` ensures, and that a
sleep ends. It does not assume that a connect ever succeeds or that a write
resolves; the two properties about Disconnect name that as their hypothesis
(`Served`). Nothing is assumed of callers who
have not called, and no peer must send, read or close.

`AsyncOneshot` assumes that a task made ready is polled and that a sender
inside `send` reaches its drop. `TcpFraming`: a session task calls `recv` in a
loop and is polled when its read is done, and the kernel completes a read that
has data. `RdmaConnection`: the adapter processes posted sends, and `send` polls
until it is below its mark. `RdmaSetup`: the server calls `accept` again, and
an `accept` with an event to read gets to it (strong: its `select!` may drop it
and call it again any number of times in between). `SmoltcpStack`: the accept loop
polls the timers and a woken `recv` is polled. The parser is one loop on one
thread and runs until it returns. `xdp_udp_tx` assumes that the accept loop keeps
polling, that the kernel transmits what is in its ring and that `recv` is called,
so what is not transmitted is not for want of scheduling. In a
module of several components each assumption holds in the behaviours that run
the component.

## What is proved

TLAPS checks the following for every value of the constants that satisfies the
named assumption; the assumption is evaluated by TLC on the instances.

| Theorem | States | From |
|---|---|---|
| `ServerProofs!TypeCorrect` | `Spec => []TypeOK` | `ServerAssumption`: the numeric constants are naturals |
| `ServerProofs!RegistryHolds` | `Spec => []RegistryAgrees` | the same |
| `ServerProofs!WakeupSafe` | `Spec => []NoLostWakeup` | the same |
| `ServerProofs!SlotsSafe` | `Spec => []SlotAccounted` | the same |
| `ServerProofs!ConnectionsBounded` | `Spec => []ConnectionBound` | the same |
| `ServerProofs!EventsSafe` | `Spec => []EventsTruthful` | the same |
| `ClientProofs!TypeCorrect` | `Spec => []TypeOK`, with the bounds on reconnects and delays | `ClientAssumption`: naturals, and well-formed reconnect configurations |
| `ClientProofs!WakeupSafe` | `Spec => []NothingStranded` | the same |
| `ClientProofs!NoneSafe` | `Spec => []NoneIsFinal` | the same |
| `RdmaProofs!CqSafe` | `Spec => []CqBounded` | `RdmaAssumption`, the compile-time assertions of `connection.rs`, and `CQ_DRAIN_HIGH_WATER <= MaxSendWr`, which its constants satisfy with equality |
| `FeedProofs!WindowHolds` | `Spec => []OnceWithinWindow` | `FeedArbitratorAssumption` |
| `FeedProofs!GapsHold` | `Spec => []FeedGapsAccounted` | the same |

**Server.** `TypeOK` is inductive by itself. `RegistryAgrees` is not: a new
session's id must be in no table yet, or a stale token would be taken for its
own, and the parent token must be cancelled exactly when the loop has stopped,
or a cancelled live session would be allowed. `RegistryInv` adds both
(`FreshIds`, `StopsTogether`) and is inductive over `TypeOK`. `NoLostWakeup`
is inductive because it counts, besides the stored permit, the actors that
have pushed and not yet notified. `SlotAccounted` needs that a queued
CloseSession stays queued until the loop takes it (`CloseQueuedKept`, by
`TrySendKeeps` and `TailKeeps`) and that the loop then removes the slot.
`ConnectionBound` follows from a bound on the session table, inductive
because `handle_connection` tests the count before it inserts, and from the
registry: an open session not told to close is in the table. `EventsTruthful`
rests on fresh ids and on the single place each event is sent from.

**Client.** The bound on reconnects needs `RetryInv`: the attempts
`on_failure` counts and the reconnects of the loop are equal except while the
loop sleeps, when the former is one ahead, and attempts stay below
`max_attempts` wherever another connect can follow. `NothingStranded` speaks of
the select and of a parked waiter; a command may be pushed in any phase, so
`WakeInv` extends it to connecting, failed and sleeping (the permit outlives the
lost connection) and to a waiter between its look at the channel and its park.
`NoneIsFinal` is inductive over `TypeOK`.

**RDMA.** `CqBounded` is about room for what is still to come, so its
invariant counts credits (`CreditInv`): posted sends and unpolled send
completions are covered by `pending_sends`, which stays at most at the high
watermark, and receive buffers that are posted, completed or set aside are at
most `RECV_DEPTH`. The steps rest on lemmas about counting one kind of
completion in a queue under append, concatenation, tail and a flush.

**Feed arbitrator.** `WindowInv` says that the LRU cache is the last
`Len(processed)` packets delivered, and is either full or holds all of them;
then a packet delivered again is not among the last `CacheSize`.
`FeedGapsAccounted` is inductive over the types.

Only model-checked: all liveness (the prover has no fairness); `SendsConserved`
and the codec properties, which need induction over sequences; `DeliveryOrder`;
the refinement of `Fifo`; the channels, the other transports and the other
market data structs. Within the model of `transports` the theorem about
`CqBounded`, and in `marketdata` those about the feed arbitrator, are about the
component's own module, which those runs instantiate.

## What is not modelled

- UDP unicast (forwards to a socket and keeps no state), the mapping of a
  shared-memory file, transport traits and addresses, native bindings and build
  scripts, primitive types and error declarations, the derive placeholders, the
  generator's driver, crate roots, examples and benchmarks.
- The dispatcher, a table fixed before the server starts; the handler is
  arbitrary in the models.
- Of the schema: null, minimum and maximum values, presence and versions, on
  which nothing in the generated code depends. Of the generator: the text it
  emits, and variable-length data, for which it emits no accessor.
- Kernels, adapters, rdma-core, smoltcp, DPDK, tokio, `quick_xml`, `rtrb` and
  `crossbeam`: external, modelled by how the code uses them.
- The contents of messages outside the codec, logging, tracing, error texts,
  socket options.
- A full event channel in `MarketData`; order counts, spread and mid price.
- Composition of the market data structs: no code in the repository does it.
- Client and server over one connection: each is checked against an arbitrary
  peer, which includes the other.
