# ClipboardShare: a formal model

This directory holds TLA+ models of ClipboardShare (the Rust program under `src/`), the TLC
configurations that check them on small instances, and theorems about them that TLAPS proves for
every value of their constants. `PROJECT.json` maps every definition to the source lines it stands
for and lists the runs, the faults each property is tested against, the hazards and the findings.

    tlc -workers 2 -config Clipboard.cfg MCClipboard    # a run
    tlapm ClipboardProofs.tla                           # a proof

## The system

ClipboardShare keeps the Windows clipboards of paired devices in step. One *daemon* per device
(a process of the command line, or a thread of the window's process) watches the clipboard, sends
what the user copies to every paired device, and puts what it receives on its own clipboard.

| Component | State | Operations | What is hard | What makes it correct |
|---|---|---|---|---|
| clipboard watcher and writer, `clipboard.rs` | last sequence seen, `REMOTE_SEQUENCE`, the system's clipboard and its sequence number | `watch` polls and captures; `apply` writes a received item, with retries | captures and writes await between their steps, other programs write at any time, a writer may be dropped | no echo, captures of one generation, in order, none missed that stays |
| transfer of items, `network.rs` under `run_channel` | pending items, cache directories | queue, read, chunk, write; receive, store, verify, apply; clean up | any await may be the last; blocking file operations outlive the handler; files change while read; connections overlap | what is applied is what was copied, at most once; the cache is accounted for |
| the two directions of a connection, `run_channel`, `write_messages`, `read_messages`, `protocol.rs` | queues, timers, nonce counters | queue, write, read, answer, heartbeat; all end with the first | queues at their limit in both directions, writes cut short, slow, failing and silent links | frames stay in step, a live link is not given up, nothing blocks, both ends end |
| quota, `prune_cache` | the cache directories | walk, remove the oldest, before a device goes on the network | directories being removed, written or named by the clipboard meanwhile; the prune of a dropped run goes on beside the next one's and its connections; restarts leave partial directories | the oldest complete ones go, only what must; what is taken under way is never applied as whole |
| connections and reload, `network.rs` `run` to `accept_connection`, `service.rs` `run_network_with_reload` | connections, permits, the configuration in use | dial, accept, authenticate, close; reload | the configuration changes under open connections, half pairings, links that die without a word | sessions are authorised by the current configuration; one at a time; paired devices connect |
| configuration store, `config.rs`, `service.rs` `wait_for_config_change` | `config.json`, its temporary file, each process's copy | load or create, save, add and remove a peer; follow changes | no lock between processes; remove and rename are two steps; crashes | the configuration can be recovered, unpairing lasts, the daemon follows |
| pairing coordinator, `pairing.rs` | a mutex, a `watch` channel | automatic pairing gives way to the user's | both may be dropped at any await | one pairing at a time, the user's first, no request left behind |
| pairing protocol, `network.rs` `pair_listen_with_ready`, `pair_connect` | the port, one exchange | intro, reply, finish; save on each side | wrong codes, connections given up in the backlog, the last message lost, the call dropped by the coordinator anywhere | both devices save the same key or neither, the port is free for the next, every pairing ends |
| instance control and the daemon's life, `process_control.rs`, `service.rs` | a named event, a thread handle, a flag | create, `is_running`, `request_stop`, start, stop, `run_daemon` | several processes; handles held for an instant; kills | one daemon, stopped by its own stop, gone when stop says so |
| cryptography, Windows runtime, autostart, logging, CLI, window | — | — | — | taken from outside, or presentation (see *Not modelled*) |

Interaction: the watcher sends captures through a channel of 64 to a dispatcher, which broadcasts them
to every connection; a connection's reader calls `apply`; `apply` and the watcher share
`REMOTE_SEQUENCE` and the clipboard lock. `run_daemon` starts all three and ends all three.
Pairing commands, in this process or another, change `config.json`; the daemon polls the file, drops its
connections, prunes the cache and connects anew. Processes find and stop each other through the event.

## Modules

| Module | Models | Checked by |
|---|---|---|
| `Clipboard` | `clipboard.rs`, the dispatcher, restarts | `clipboard`, `clipboard_*`, `ClipboardProofs` |
| `Transfer` | items from capture to clipboard, one direction, the cache and its quota | `transfer`, `transfer_*`, `TransferProofs` |
| `Delivery` | abstract: what the transfer promises | as `PromiseSpec` in `transfer`, `TransferProofs` |
| `Duplex` | both directions of one connection: queues, replies, heartbeats, time limits, nonces | `duplex`, `DuplexProofs` |
| `PairingCoordinator` | `pairing.rs` as `run_daemon` and the window use it; the work itself is abstract | `PairingCoordinatorProofs`, and through `Pairing` |
| `PairingExchange` | the pairing protocol of a listening and a connecting device | through `Pairing` |
| `Pairing` | composition: the coordinator whose work is the exchange | `pairing`, `PairingProofs` |
| `ConfigStore` | `config.json` shared by processes | `config`, `config_identity`, `ConfigStoreProofs` |
| `Sessions` | connections between two devices, and reload | `sessions`, `SessionsProofs` |
| `Instance` | the event, start, stop, the daemon's life | `instance`, `InstanceProofs` |

The MC modules are what TLC runs; the configurations give the constants their values. Most runs check
liveness, where symmetry sets are unsound, so none is used.

### How state and actions correspond to the code

**Clipboard.** The system's clipboard is a sequence `writes`; its length is the sequence number. A write
remembers who made it and what it was. `watch`'s iteration is one action up to its first await
(`WatchBegin`), one for reading the formats, one for each way it goes on (`WatchChanged`, `WatchUnreadable`, `WatchRefuse`,
`WatchCapture`) and one for the send into the bounded channel. An `apply` is a process of its own: it builds its package, takes
the lock, and goes through `commit_clipboard_package` by its awaits: `CommitSet`, `CommitFlush`,
`CommitRefused`, `CommitFlushFail`, `CommitRetry`; `ApplyRecord` is the pair of reads and the store
after it. `ApplyDropped` is the end of its connection at an await. Format conversion is abstract.

**Transfer.** Each connection has a sender (`queue_captures` and `send_capture`), a bounded data
channel, a wire, and a receiver (`read_messages` and `handle_message`). A file is a small number of
units; its *source* may become longer, shorter, rewritten or absent between the copy and the read.
Every blocking call of the receiver is a step that goes on when its handler has been dropped
(`DetachedMakes`, `DetachedWrites`), as `tokio::fs` does. `Owned` and `Cleanup` are the directory an
`IncomingItem` removes when dropped.

`Init`, `Reload` and `Restart` start a `prune_cache`: it walks the cache (`Measure`, `Miss`), then removes the oldest while the sum is over
`Quota` (`TakeOldest` to `Evict`, the beginning and the end of `remove_dir_all`). `Connect` waits for the one of the current run,
`prunes[run]`, as `network::run` does. `Reload` drops the run at any of its steps and leaves its prune on the blocking pool: it
goes on beside later prunes and beside the connections of later runs, may take the directory of a transfer under way, and its error is heard by
nobody, while that of the current run ends the daemon (`PruneFails`). `src/README.md:155` says that
completed history is not continuously evicted during a session; the code leaves this one way. `Gone` and `Busy` are what makes a walk or a removal fail: a cleanup, another
prune, a chunk or subdirectory made meanwhile; `PruneBlocksCleanup` is the converse. A transfer whose directory is taken
fails at its next chunk (`WriteChunkFails`) or when it is verified (`VerifyFails`), neither of which needs a fault once it is not `Intact`, or makes the directory
again (`MakeSubdirs`). After `Restart` the scheduled cleanups are lost and `stopped` remembers whose. An item that is not `Settled` is measured
at any size up to its own, and directories may be found in any order when connections overlapped.

**Duplex.** An end is a record: what its writer has ready, what it is sending (`out`), what its reader is
handling (`hand`), and how long each has taken. `ahead` is the sender's nonce counter less the receiver's,
and a frame carries the lag it was sealed with, so that it opens exactly when the lag is one.
With a clock, `Tick` is one heartbeat interval, which passes when nothing that is ready is left (`Prompt`): time limits
are exact and data is left out, since a heartbeat or reply costs the same. Without a clock there is data and
any interleaving, and no timer comes to help: `NoGridlock` is about that half.
`CutLink` is a link that dies unannounced; writes then succeed into buffers for a while (`WriteLost`).

**PairingCoordinator, PairingExchange, Pairing.** The coordinator has one actor per await of `automatic`
and `manual`; the `watch` channel is a value with a version, and each subscriber has the version it has seen. The exchange has
the calls of the listening device, the port, the connecting device and the connections it made, which wait in the
backlog until accepted and die with the listening socket. A code stands for the SPAKE2 key it makes. `Pairing` instantiates the exchange with the
coordinator's tasks for its calls: a call that starts work starts to listen, and one that is cancelled or dropped drops what it was
doing wherever that awaits (`DropWork`). `kept` and `hurt` remember who saved, and whether a side gave up.

**ConfigStore.** Files are objects with content that may be torn or a configuration; `config.json` and the
temporary name refer to them. `load_or_create` is `LoadExists`/`LoadMissing` and `Read`, `save` is
`Create`, `Fill`, `Exists`, `Remove`, `Rename`. A pairing takes its copy before it waits for
the other device. `Tick` is one round of `wait_for_config_change`. `shared`, settled in the initial state, says
whether callers overlap or come one at a time. `gone` and `owed` remember what was unpaired and what nobody asked to unpair.

**Sessions.** A key is the number of the pairing that made it. `file` is the device's `config.json`, `config` the daemon's copy. A
connection has one state for each end, the proof under way in each direction, and may be `cut` (its
link is dead and neither end knows). `Reload` drops every end at once, as dropping the nested
`LocalSet` does. `half` is a pairing one device has saved and the other has not: what `Pairing` shows can happen only when a side was hurt.

**Instance.** `open` is the set of those who hold a handle to the event, which exists while it is not
empty and is fresh when made. `run_daemon` is `create`, `pairing`, `run`, `ending` (its tasks are aborted and awaited),
`shutdown` (the apartment), `closed` (the runtime is dropped), `off`. `request_stop` and the calls of `SyncService` are
sequences of steps with a bounded wait, one at a time (`AppState.sync`). `Kill` and `WindowKilled` end a process and close its handles.

## Runs

Every passing run checks that each action of its specification occurs. Each property was also
checked to fail when one definition of the model is replaced by a plausible wrong one (the
definitions marked *Fault* in the modules).

| Run | Question | Bounds |
|---|---|---|
| `clipboard` | No echo; a suppressed generation is the program's own or was made while it wrote; captures are of one generation and in order; a copy that stays is captured | two writers of received items, three writes by anyone, two formats, two attempts, a capture queue of one, one unreadable moment, one restart; 340 000 states |
| `clipboard_only_own`, `clipboard_dropped_retry` | findings 1 and 2 | one writer |
| `transfer` | Applied means copied, verbatim, at most once, and in order where connections do not overlap; one item pending; the cache is accounted for; files of an applied item stay but for the quota, which takes the oldest and only what it must, with prunes of dropped runs beside open connections; a pending item is resolved; an undisturbed copy arrives | two items of six kinds, two connections, a broadcast of one, a quota of one unit, two faults (reloads and restarts among them), three copies and faults together (`MaxEvents`); 428 000 states |
| `transfer_leftover`, `transfer_reload` | findings 3 and 5 | one item, one connection |
| `duplex` | Frames stay in step; no read times out on a live link; large items in both directions get through; an end or a link that goes ends both ends | reply queue of one, one data message a side, the code's time limits in heartbeat intervals (2 and 6), one fault; 273 000 states |
| `pairing` | The user first and with the port free, no request left, the same key on both or none, the user is served, every pairing ends | one automatic and two manual calls, four requests, two codes, two connections, one fault; 510 000 states |
| `config` | The daemon never takes up a configuration made from nothing, and follows the file; one caller at a time: the configuration can be recovered after a crash, unpairing lasts | two callers that overlap or not, one peer, two identities, one crash; 2 500 000 states |
| `config_identity` | finding 4 | two callers, no crash |
| `sessions` | A session has the key of the current configuration on both devices; one at a time; unpairing cuts on both sides; paired devices connect | three connections, two permits, two pairings, one unpairing, two faults; 785 000 states |
| `instance` | One daemon; no stale stop; a successful stop is true; a stop ends the daemon; the window's stop returns | the window's thread, one process, one stop command, one poller, waits of two rounds; 141 000 states |

*Why the bounds are enough.* A property here is broken by at most two actors that meet one fault or
one change of state: an echo needs one writer, one watcher and one write between; a second writer adds
overlap. Two connections overlap or do not. Two items are an older one that can be evicted and one that is newer,
and one unit of quota is exceeded by either of them. Two reloads drop a run before its prune has ended and start a third; one is enough for a
transfer beside the prune of a dropped run, and in the run such a prune takes the directory of a transfer under way, and two
prunes take the same one. The kind `files` (two files, one empty) is left to the two violation runs, and to the theorems, which hold for every kind, as it would
multiply the states. Two callers of one file are the least that race; three
connections are a live one and two that were lost unnoticed; two rounds of a wait are one that goes on and one that
gives up; two codes are right and wrong; a second user's call is refused beside the first or follows it. The numbers in the code (64, 32, 16, 50) matter only as "full" and "not yet full", and every model
reaches both. The theorems below have no bounds on actors, copies or faults, and cover every safety property the runs check.

`UnpairedStays` and `Recoverable` are stated for callers that come one at a time. With two that overlap, the one that saves last writes back
what it loaded, an unpaired device among it; the repository promises nothing there, and the hazard is listed in `PROJECT.json`.
`HealthyStays` needs `IoTimeout + 1 < ReceiveTimeout`, which 30 s and 90 s satisfy at an interval of 15 s, and 4 in place of 6 would still.

### Fairness

Weak fairness on the steps of a task that tokio runs to its next await, on timers, and on blocking
calls that return; never on the user, another program, an error, a crash or the arrival of a peer.
Where a step races a fault that may win each time, the number of faults is bounded: a link that dies
for ever connects nothing.

* `Clipboard`: the watcher goes on. An unreadable clipboard is bounded (`MaxUnreadable`): a program that holds it for ever keeps the copy from being read.
* `Transfer`: both halves of a connection, the blocking pool and `prune_cache` go on; connections are made again while the budget lasts.
* `Duplex`: the three futures are polled and TCP moves bytes while the link lives (WF). `select!` takes at random among the branches that are ready, so a branch that is ready again and again is taken (SF on `StartReply`, `StartData`).
* `Pairing`: a call that can go on does, and a cancelled one ends. tokio's mutex is handed to its waiters in turn (SF on `ManualLock`). Nothing is assumed of the other device. That time limits run out is assumed by `PairingEnds` alone.
* `ConfigStore`: a started call goes on and the daemon's timer ticks.
* `Sessions`: reload, dial, accept and the handshake steps, the end of a stream and time-outs. The last message of a pairing arrives or is given up.
* `Instance`: a call runs to its end; a daemon sees the event or flag it polls; aborted tasks end. Automatic pairing and running need never end by themselves.

## Proofs

| Module | Theorems (`Spec => []P`, unless said) |
|---|---|
| `ClipboardProofs` | `TypeOK`, `NoEcho`, `SuppressesOwnWrites`, `CaptureIsOneGeneration`, `CaptureOrder` |
| `TransferProofs` | `TypeOK`, `Verbatim`, `OnePending`, `AppliedStaysOnDisk`, `CacheAccounted`; `NewestStay` (an action property); `PromiseSpec` (the transfer implements `Delivery`) |
| `DuplexProofs` | `TypeOK`, `InStep`, `HealthyStays` |
| `PairingCoordinatorProofs` | `OnePairing`, `UserFirst`, `RequestEnds` |
| `PairingProofs` | `PairingSpec => Spec` (the composition implements the coordinator), `PairingTypeOK`, `UserFirst`, `PortFree`, `SameKey`, `BothOrNeither` |
| `ConfigStoreProofs` | `TypeOK`, `DaemonKeepsPeers`, `Recoverable`, `UnpairedStays` |
| `SessionsProofs` | `TypeOK`, `SessionAuthorized`, `SameKey`, `OneConnection` |
| `InstanceProofs` | `TypeOK`, `OneDaemon`, `NoStaleStop`, `StopGoneMeansGone` (an action property) |

The only assumptions are those on the constants, stated by name in each module and evaluated by TLC in every run.
Of the type invariants, which are all proved, a run checks only that of `Transfer`: it relates handlers to connections.

*Clipboard.* `NoEcho` is not inductive: it says nothing of a capture under way. `IInv` adds who may be in the
middle of a commit (`LockInv`: one writer holds the lock; `CommitInv`: what it has written since it
read the sequence number), what the recorded generation is (`RemoteInv`), that every remote generation at or before the
newest is recorded, still being committed, or in `unrecorded` (`NewestInv`), what the watcher has read so far (`WatchInv`), and that
queued and dispatched captures already satisfy the properties (`ChannelInv`). Each conjunct is
preserved action by action. `CaptureOrder` rests on `last_sequence` alone: it is never ahead of the clipboard (`LastInv`), and what
this run of the daemon has dispatched, queued and is reading is a rising line of generations that it bounds (`LineInv`).

*Transfer.* Twenty-odd actions are first shown to be one of a few forms (`Step`, `NextSteps`): what a step does to a sender, to a
receiver that stays open, to receivers that close, or to the disk. The invariants are preserved by the forms, and each uses the one
before it:

* `TypeInv`, the types and what program counters imply, the record of each prune among them.
* `PaceInv`. `Coming(c)` is what a connection will bring: the stream, the queued message, and behind them what the sender is at.
  `Chained` says that each message is one the receiver can expect after the one before it, or the manifest of a later item;
  `Handled` that the receiver is where the first of them fits, and holds no other partial item. A discarded or refused item does not
  disturb this, as what follows of it is ignored. `OnePending` follows: were there two, the queue would have mixed two items.
* `LiveInv`. An item is *live* on a connection that may still put it on the clipboard. Only a new connection makes anything live, and only
  captures still to come; so no item is live twice, and what was applied is live no more. At most one end is open on the side
  that looks at its earlier connections, and where that is the receiver nothing before an applied item is live either. This is what a delivery of
  `Delivery` demands.
* `KeptInv`. What a connection is still to complete is neither kept nor due for removal, so a completed item is no partial one of another
  connection's and no cleanup takes it. What is kept is in the cache unless the quota took it (`KeptOnDisk`).
* `PresentInv`. Nothing in the cache, about to be made there or found by a prune is newer than an item still to be completed, where connections do
  not overlap. So what is completed while a prune runs is newer than all that it found, and `OldestInv` is kept: what a prune is
  removing was found, was over the quota, and is not newer than any complete item it found. `NewestStay` follows from this and the kept sizes.

`Verbatim` needs only that `got` is compared with the captured contents before the item is kept. Item numbers, sizes, kinds, slots, quota and faults are arbitrary;
only `OnePending` counts (`Cardinality`), and the sum `Measured` is nowhere expanded.

*Duplex.* `InStep` needs the number of frames the receiver is behind: `NonceInv` counts one being
written and one on its way, exactly while both ends are open. `HealthyStays` needs the reason why a read does not wait long:
`IdleInv` says that it has taken at most as long as its peer's current write, or an interval with a heartbeat due.

*Pairing.* The coordinator's invariant ties each program counter to the mutex and to the request: who
holds the mutex, and whose request the value of the channel is. `PairingRefines` carries what it shows over to the composition. There
`CallInv`, `DialInv` and `LinkInv` say how far a connection is from where its two calls are, `PortInv` who has
the port, and `WorkInv` that a call is in an exchange exactly while the coordinator lets it work; `PortFree` then follows from `OnePairing`.

*ConfigStore.* `DaemonKeepsPeers` holds with any overlap because every configuration of the first identity, in any file, any caller's
memory or the daemon, has all the peers nobody gave up (`KeepInv`), and the daemon compares identities. For one caller at a time, `SoleInv` says what
the two names lead to at each step of the one there is. There is always a file nobody uses (`UnusedExists`, by counting).

*Sessions.* `SameKey` compares two ends that authenticated at different steps. `IInv` adds what the reply on its way back was
made with (`ReplyInv`), that there is none, and no client that runs, before the server has answered (`PendingInv`), and that the
client has one open end (`ClientInv`), from which `OneConnection` follows however many lost ends the server holds. That permits are
never exceeded is a count of the accepted connections (`PermitsNext`).

*Instance.* A daemon with tasks holds a handle (`HeldInv`), so a new event means there is no such
daemon (`AloneInv`) and starts unsignaled, so that a signal is for the one daemon that is alive (`SignalInv`).
The flag is reset only while the thread is off (`JoinInv`, `FlagInv`). `StopGoneMeansGone` follows from `HeldInv`: success is reported when the event is gone.

*Model-checked only:* the liveness properties (`EveryCopyArrives`, `PendingResolved` and their like in every run): temporal reasoning under
fairness and ENABLED are out of the prover's reach. The findings are counterexamples, which TLC gives.

## Findings

1. `clipboard.rs:254` — a user's copy made just after a received item is written is suppressed
   (`clipboard_only_own`), against `src/README.md:245`.
2. `clipboard.rs:293` — a writer dropped between its attempts leaves a remote item that is then
   captured and sent back (`clipboard_dropped_retry`), against the comment at `clipboard.rs:49`.
3. `network.rs:623` — a connection that breaks while the item's directory is being made leaves it
   (`transfer_leftover`), against `src/README.md:214`.
4. `config.rs:72` — a status poll during another process's save can replace the device's identity
   and drop its pairings (`config_identity`), against the rule of `service.rs:442`.
5. `network.rs:751` — a new configuration while an item is on its way can end the daemon: `prune_cache`
   walks the directory that the cleanup of the dropped item removes (`transfer_reload`), against `src/README.md:246`.

## Not modelled

* ChaCha20-Poly1305, HKDF, HMAC and SPAKE2: libraries. A proof verifies only under its key, a frame opens only with its nonce, a code stands for the key it makes.
* `windows_runtime.rs`, `autostart.rs`, logging, argument parsing, menus, locale, WebView2, the page: calls of the system or presentation.
* The sums of `collect_files` and `validate_size`: that an item passes or fails a check is a kind of item in `Transfer`.
* `cache/images` (`clipboard.rs:499`), a directory that `prune_cache` also counts and may evict as a whole: it makes the sum larger. It holds the bitmaps of images on the clipboard, which have no directory of an item.
* The coordinator across processes (`network.rs:104`): `pair-listen` on the command line does not cancel the daemon's automatic pairing, finds the port in use, and fails with the bind error.
* `is_running` holding the event for an instant between two daemons (`process_control.rs:54`) is in `Instance`; that a daemon refused for it has to be started again is left to the user, as in the code, and so is a `SyncService::start` that reports the other holder's event as its own.
* `initial_history` in `clipboard.rs`: nobody calls it. The wrap of the 32-bit sequence number, and 0 for a clipboard that cannot be opened. More than one peer.

## Plan

In order:

1. `TwoDevices`: two `Clipboard`s joined by an abstract `Delivery`: no echo across devices.
2. Proofs: no safety property is left; those of a new model belong in a module that has room for them.
3. `Limits`: the sums of `collect_files` and `validate_size` as functions against reference definitions.
