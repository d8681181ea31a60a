# A verification project for oxicast

oxicast is an asynchronous Rust client for the Google Cast protocol. A client
keeps one TLS connection to a device, served by three tokio tasks, and offers
request methods, events and automatic reconnection to any number of clones of a
handle. This directory holds TLA+ models of that machinery, TLC runs that check
them on small instances, and TLAPS proofs for all instances. Paths below are
relative to the repository (`src/client.rs` is `src/src/client.rs` in
PROJECT.json).

## Inventory

| Component | State | Operations | Interacts with |
|---|---|---|---|
| Request tracker (`client/request_tracker.rs`) | u32 counter, table id -> oneshot sender | `register`, `resolve`, `wait_for`, `clear` | request methods register and wait; the router resolves; reader exit, reconnect and disconnect clear |
| Connection lifecycle (`client.rs`) | `alive`, `shutting_down`, `write_tx`, `event_tx`, `task_handles`, `reconnect_lock`, the connection watch | `connect`, `reconnect`, `disconnect`, drop, the auto-reconnect task | shared by the tasks, the user's clones and auto-reconnect |
| Reader task (`client.rs`) | the read half | read, route, announce a loss | router, event channel, tracker |
| Writer task (`client.rs`) | the write half, a 64-deep channel | write, announce a loss | every sender |
| Heartbeat task (`client/heartbeat.rs`) | `last_activity` | PING, time out | writer channel, watch, events |
| Router (`client/router.rs`) | none of its own | classify, resolve, update watches and media session id, emit events | tracker, state, events, writer (PONG) |
| Media and receiver commands (`client.rs`, `channel/`) | transport, session and media session ids | `launch_app`, `load_media`, `stop_media`, ... | tracker, router |
| Events and watches (`state.rs`, `event.rs`) | bounded event channel, three watches | `next_event`, `watch_*` | all tasks |
| Framing (`client/framing.rs`), TLS (`client/connection.rs`) | none | read, write, connect | reader, writer |
| Discovery (`discovery.rs`) | devices found so far | browse until a deadline | none |
| File server (`serve.rs`) | registered files | serve ranges over HTTP | `serve_and_cast` |
| Builder, types, errors, generated protobuf | plain data | setters, conversions | none |

What is hard here: the runtime is multi-threaded and the handle is `Clone`, so
every access to an atomic, a mutex or a channel can interleave with every other;
a watch channel keeps only its last value; tasks are aborted between awaits;
callers drop futures; answers come late, twice or never; a reconnect replaces
half of the shared state step by step while `disconnect()` may be tearing it
down. PROJECT.json lists these hazards at their lines.

What makes the parts correct:

* tracker: an answer reaches the call that asked, a waiting call can always be
  found by an answer or a clear, a finished wait leaves nothing behind, every
  call returns that gets its request into the write channel;
* lifecycle: one connection at a time, `alive` is true only over running tasks,
  a loss is noticed and either repaired or given up, `disconnect()` returns and
  is final, nothing survives the last handle, requests do not outlive their
  connection;
* commands and router: the transport, session and media session ids kept by the
  client follow the device's; a command names one application and comes after a
  CONNECT on the same connection; the watches tell the truth although events are
  dropped; `launch_app()` returns the application it launched, and a load that
  returns `Ok` the session it began;
* pipeline: the byte stream stays framed in both directions, reader, heartbeat
  and callers do not block each other through the channel they share, and a dead
  device is noticed;
* conversions: what is loaded is what is reported;
* file server: a URL keeps naming its file, an answer is the bytes asked for;
* back-off: delays stay near their base and nothing overflows.

## Modules

`RequestResponse` is the abstract promise to one caller: a call is issued, sent,
answered and returned, it returns `ok` exactly if its own request was answered,
and once answered it cannot fail by itself. No ids, no table, no connection.

`RequestTracker` is `client/request_tracker.rs` with its callers. A call is one
invocation of a request method. Actions: `FetchAdd`, `FetchAddAgain` (the skip of
0), `Insert` for `register`; `CloneSender`, `Send`, `SendFails` for
`self.send(..).await?`, which clones the sender and then waits for room in the
write channel, whose users and writer are `ChannelFills` and `WriterMakesRoom`
(`full`; `Pipeline` has the channel itself); a reconnect refuses whoever waits for
the old one;
`WaitOk`, `WaitFails`, `Cleanup` for `wait_for`, whose removal of the entry is a
step of its own; `Cancel` for a caller that drops the future; `Deliver` for the
router; `LinkFails`, `ReaderExits`, `SwapWriter`, `ReconnectClears` for what the
connection does to the table. `Modulus` stands for 2^32. A payload is abstracted
to the call it answers. `KeepsPromise` maps it to `RequestResponse`.

`Connection` is the abstract promise about the connection: up, lost, fresh or
closed; a lost one is never up again, a new one is installed before it is up, and
none is once `disconnect()` was called. No tasks, flags or locks.

`ConnectionLifecycle` is `client.rs` and the heartbeat's exits. Connections are
numbered; the tasks of each are locations; `gen` is the connection of `write_tx`,
`handles` the one whose tasks are in `task_handles`. Every store, load, send and
lock of `from_builder`, `reconnect_with_attempt`, `disconnect` and
`spawn_auto_reconnect` is an action in the order of the code (`Boot*`, `Rec*`,
`Dis*`, `Auto*`), each for whoever runs it: reconnects are run by the user and by
the auto-reconnect task. A mutex is held between two locations of its holder.
Messages are abstracted to whether the write channel is open, events to how many
are in the channel, durations to steps that may come at any time. Two things are
history variables: `races` records whether one of the three windows described
under "Findings" was hit, so that the other properties can say exactly where they
hold. `ActsAsConnection` maps it to `Connection`: `alive` is up, a reconnect
between the swap of `write_tx` and the store of `alive` is fresh.

`CastSession` is the client's commands, the router and the device they talk to. A
caller is a clone of the client that runs one method after another; each lock,
atomic access and send of the method is an action (`Call`, `get_transport_id`,
`get_session_id`, `get_media_session_id`, `Send`, `TimesOut`, `LaunchReply`,
`LaunchTakesEvent`, `LaunchConnects`, `SetTransport`, `SetSession`,
`StopAppReply`, `MediaReply`). `Route` is `router::route` up to the `resolve()`
that wakes the caller, `RouteReceiverStatus` and `RouteMediaStatus` the rest, so
that the caller runs beside the router as it does on two threads. A reconnect is
`LinkFails`, `RecSwaps`, `RecHello`, `RecReopens`; its details are in
`ConnectionLifecycle`. The `Device*` actions are a Cast device as the code
expects it: external, and as free as such a device is (a launch answered at once
or later, applications and media that end by themselves, errors, unasked
statuses). The n-th application has transport n and session n. An answer whose
call no longer waits keeps a request id, but one that is not pending (`Expired`):
it resolves nothing, and a custom one is not an event either
(`router.rs:168-173`). `Init` has a client that has just connected, to a device
that may already run an application and play (`connect()` asks for no status), or
one that has launched and loaded before.

Two history variables say what the properties are about. `races` records the
windows in which two actors cut into each other: `ids` (a pair of ids read or
written across another write), `late` (an answer applied after a newer status) and
`reopen` (a message or an id that crosses a reconnect's CONNECTs).
`LoadNamesOneApp` and `UsedAfterConnect` hold outside of these and, as TLC shows
when one is dropped from the premise, not inside (for `late` it takes four calls
to launch and stop, more than the run has): the code has no lock there and no
document promises more, so they show that the named windows are the only way to go
wrong, not that these are closed. `missed` is of what the client has old news: the
receiver's or the media's status when one was lost with its connection, said to a
connection that had not opened its source, or never asked for, the media session
id also when an answer was applied after a newer status. Each is made good by the
next status of its kind, so a reconnect and a late answer spoil `KnowsLiveSession`
and `WatchesCatchUp` only until then. `begun` remembers of a load how many media
sessions there had been when it was called.

`Pipeline` is one connection from callers to device and back: the bounded write
channel, `writer_loop` with `write_message`, `reader_loop` with `read_message`,
the PONG of the router, the heartbeat, and a socket of bounded capacity on which a
frame is two pieces, length and body. Messages are numbered from the last one the
device has received, so that any number of them fits a finite state space. Time
is counted in heartbeat intervals.

`MessageCodec` holds the conversions of `channel/media.rs` and `client/router.rs`
as operators: JSON values are tagged, objects are functions from their keys, an
`Option` is a set with at most one element, numbers are narrowed with the casts of
the code. Floats are finite (an `f64` that is not is written as `null` and read
back as `None`). A `filter_map` leaves entries out of a list without renumbering
the rest: only their order is read. `IsMedia` and its parts are the types of
`types.rs`, as far as they are written to the wire.

`FileServer` is `serve.rs`: `Start`, the three steps of `serve_file()` (`Checks`,
`Counts`, `Inserts`), the five of the HTTP handler (`Arrives`, `Lookup`, `Open`,
`Metadata`, `Stream`) and a file system that changes in between. `CastFile`
composes it with `MessageCodec` along `serve_and_cast()`: launch, start, register,
load, answer, return. `MCCastFile` supplies the media, and the JSON a device may
answer with, missing and mistyped parts included; `MCCastSession` the symmetry.

`Backoff` is the delay arithmetic of the auto-reconnect task, with its theorems.

`RequestTrackerProofs`, `ConnectionLifecycleProofs`, `LifecycleSafetyProofs`,
`CastSessionProofs`, `CastFileProofs` and `PipelineProofs` hold the theorems about
the state machines, `CodecProofs` those about the conversions. Operators
introduced by a comment "Mutant" are plausible bugs; none is used by a
specification. They show that each property notices the bug it is there for.

## Runs

| Run | Instance | Shows |
|---|---|---|
| `tracker` | 2 calls, 4 ids, 3 allocations, fair | `TypeOK`, `NoCrossTalk`, `WaiterIsReachable`, `ZeroIsNeverRegistered`, `WaitLeavesNoEntry`, the refinement `KeepsPromise`, `CallsReturn` |
| `tracker_leak` | same | `EntriesGoWithConnection` fails |
| `lifecycle_shutdown` | 2 connections, 1 attempt, user disconnects and drops the client, fair | `AliveIsBacked`, `DisconnectIsFinal`, `LossIsNoticed`, `DisconnectReturns`, `DisconnectEndsAuto`, `LossIsHandled`, `EverythingStops`, the refinement `ActsAsConnection` |
| `lifecycle_generations` | 3 connections, 2 attempts, user reconnects and sends requests | `TypeOK`, `OneConnection`, `NoRequestOnOldConnection`, `AliveIsSetAfterJoin` |
| `lifecycle_disconnect_race` | user disconnects | `DisconnectShutsDown` fails |
| `lifecycle_lost_loss` | no user | `LossTriggersReconnect` fails |
| `lifecycle_swallowed_loss` | user reconnects | `ReconnectCallKeepsAutoReconnect` fails |
| `lifecycle_no_return` | user disconnects and reconnects, no auto-reconnect, fair | `ReconnectAfterDisconnect` fails |
| `session` | 2 callers, 2 calls, 2 applications, 2 media sessions, 1 loss of the connection, 1 event of the device's own, an event buffer of 1 | `TypeOK`, `LoadNamesOneApp`, `UsedAfterConnect`, `KnowsLiveSession`, `WatchesCatchUp`, `OkMeansNewSession` |
| `session_stale_launch` | 1 caller that launches and stops, nothing fails | `LaunchIsFresh` fails |
| `pipeline` | write channel of 3, socket of 1 piece, timeout of 1 interval, 1 request, 2 frames from the device, fair | `TypeOK`, `DeviceSeesWholeFrames`, `ReaderInStep`, `PongGoesOut`, `DeathIsNoticed` |
| `cast_file` | 2 files of up to 2 bytes, 2 registrations, 1 HTTP request, 1 change, every metadata variant | `TypeOK`, `UrlNamesItsFile`, `AnswerIsWhatWasAsked`, `LaunchedAppIsUsable`, `LoadedIsReported` |

Bounds and why they are enough. Two calls and three allocations let one call wrap
to 0, skip it and race the other for the next id; `Init` starts the counter
anywhere, so the wrap is near the start of many behaviours; all safety properties
of the tracker are proved for any number of calls. Two connections are a loss and
a recovery, three add a second recovery on top of one; an event buffer of one is
full most of the time. The user's `reconnect()` and `disconnect()` are in separate
passing runs, each against the auto-reconnect task, which runs the same
`reconnect_with_attempt()`; with both, a run has 25 times the states, and the
safety properties are proved for every combination. One user reconnect and one
disconnect run at a time (the user may reconnect again and again): further
reconnects would queue at the same lock. `CHECK_DEADLOCK FALSE` in the lifecycle
runs because a client that was shut down has nothing left to do.

In `session` two calls are two callers in the middle of conflicting ones, or one
after the other: what came before them (a launch, a load, somebody else's session)
is in `Init`. Two applications and two media sessions give an old and a new id to
confuse, one loss is a reconnect under running calls, an event buffer of one
overflows at once. `stop_media` stands for the methods that read the same ids
(`play` and its like, which store nothing), `load_media` for `queue_load`, and the
methods that read no id (`send_raw`, `set_volume`, `receiver_status`) are left to
the proofs, which have all of them and any number of calls. In `pipeline` a frame
does not fit the socket, so that every write waits for the device between its two
pieces, the channel has just room for the PINGs of one timeout, and both fill up;
frames sent by the device are good, PINGs, empty, too long or not decodable.
Requests and frames are bounded (`MaxReqs`, `MaxFrames`), PINGs and PONGs are not.
In `cast_file` lengths 0 to 2 with suffixes and starts up to 3 reach every branch
of `parse_range`, and 32 and 16 stand for 2^32 and 2^31 so that a media session id
beyond an `i32` occurs; the range arithmetic and the registration are proved for
all sizes. The session, `pipeline` and `cast_file` runs say `CHECK_DEADLOCK FALSE`
too: callers finish, a connection that was given up stays so, and a file that was
fetched was fetched.

Fairness. The runtime polls every task and call that can run, so the sequential
code of each is weakly fair. `abort()` ends a task at its next await; a
cancellation alone ends the reader and the heartbeat for sure only when the writer
is gone, because they may be waiting for room in its channel, and a writer inside
a write not at all (`MustEnd`). Nothing is assumed of the device and the network:
the TLS handshake in `client/connection.rs` has no timeout and a write may hang.
So `DisconnectReturns` holds with no help from outside, while `LossIsHandled`,
`DisconnectEndsAuto` and `EverythingStops` carry the premise `HandshakesEnd`, the
last one `WritesEnd` too. In the tracker only the steps of a call are fair:
`CallsReturn` holds though the device never answers. Its premise is that the write
channel is not full for ever: `self.send(..)` comes before `wait_for()`, and no
timeout is around it. A send that waits for room is strongly fair, because the
channel's semaphore serves its waiters in order, whoever fills it in between. In
`Pipeline` the tasks that can run do, time passes, and a device that is up reads
its socket; that a write to a host that has vanished ever fails is not assumed, so
`DeathIsNoticed` needs room in the channel for the PINGs of the timeout
(`RoomForPings`), and without it does not hold: the heartbeat sends before it
looks at the clock.

## Findings

1. `tracker_leak`: a request method whose `send` fails returns by `?` and leaves
   its entry in the table; after the reader has cleared it, nobody does until the
   next reconnect or disconnect.
2. `lifecycle_disconnect_race`: `disconnect()` that starts after a reconnect's
   last check of `shutting_down` returns while the reconnect resets the flag,
   sets `alive` and spawns tasks.
3. `lifecycle_lost_loss`: tasks that fail before their connection is announced
   have their `Disconnected` overwritten by `Connected`; if reader and writer are
   both gone the heartbeat ends silently and auto-reconnect never tries.
4. `lifecycle_swallowed_loss`: the user's `reconnect()` overwrites a
   `Disconnected` that auto-reconnect has not looked at; if its handshake fails,
   auto-reconnect waits for ever.
5. `session_stale_launch`: `launch_app()` that has to wait for the application
   takes whatever `ReceiverStatusChanged` is first in the event channel; one left
   there by an earlier instance makes it return an application that is over.

6. `lifecycle_no_return`: `docs/getting-started.md:256` says that after
   `disconnect()` one can call `reconnect()`; the first check of
   `reconnect_with_attempt()` refuses it for good, as its own comment wants, which
   is what `DisconnectIsFinal` and `Connection` state.

Each is quoted against the documentation in PROJECT.json.

Met on the way and not made a run: `docs/error-handling.md:70` gives every request
a timeout, but the wait for room in the write channel has none, so a call to a
device that has stopped reading hangs once 64 messages are queued (`CallsReturn`
states the condition); `queue_load()` and `load_media()` refuse an idle answer only
when it has no media (`client.rs:575`), and the model's device sends none with
media, as the comment there expects (`OkMeansNewSession` says so);
`state.rs:38` says the media watch is `None` when no media is loaded, but nothing
ever sets it back; a custom message with a `requestId` above 0 is taken for an
answer and not delivered as an event (`router.rs:170-173`); and
`heartbeat.rs:88` promises a timeout after a PING without conditions, which a full
write channel to a vanished host defeats (`DeathIsNoticed` states the condition).

## Proofs

Assumed: only the named ASSUMEs of the modules (a modulus above 1 and fewer
allocations than a turn of the counter; at least one connection and room for one
event; a configuration of the right types; media of the types of `types.rs`, and a
device that gives no empty ids and reports the media it was sent; room for at
least one message in a channel, on the socket and between client and device; a
request id 0 that is no call's; sizes that are natural numbers), which TLC
evaluates in the runs. `Backoff` assumes nothing.

`RequestTrackerProofs`: `TypeCorrect`, `CrossTalkFree`, `NoWaiterIsLost`,
`ZeroIsReserved`, `WaitCleansUp`, and `Refinement` (`Spec => KeepsPromise`). No
property is inductive alone: that two calls never share an id needs to know that
the ids in use are the counter's last `allocs` values, around the wrap included
(`IdsAreRecent`, by the distance `Behind`), hence distinct; that 0 is not
registered needs that a call holding 0 is the one about to allocate again; that
answers are not mixed up needs that every entry's owner holds the entry's id and
an open channel. `IInv` is the conjunction, each action preserves it, and the
properties and the refinement follow from it.

`ConnectionLifecycleProofs`: `TypeCorrect`, `NeverTwoConnections`
(`OneConnection`) and `AliveSetAfterJoin` (`AliveIsSetAfterJoin`). The inductive
invariant says that reconnects exclude each other (`ReconnectsAreSerial`), that
connections older than `gen` are over and newer ones have not begun
(`OnlyCurrentLives`), and that `task_handles` knows every running task except
between spawn and store (`HandlesAreComplete`): that a join of what is in
`task_handles` stops everything, although `disconnect()` may have emptied it
first, is what makes the swap of `write_tx` safe.

`LifecycleSafetyProofs` goes on from there: `AliveBacked` (`AliveIsBacked`),
`DisconnectFinal` (`DisconnectIsFinal`), `NoOldRequest`
(`NoRequestOnOldConnection`) and `LossNoticed` (`LossIsNoticed`), for any number
of connections, attempts and configurations. `SInv` adds to `IInv` that a
reconnect that has found the client dead is the only one that can revive it
(`DeadWhileRecovering`), that `write_tx` belongs to a connection that was spawned
(`Spawned`), and what `disconnect()` has achieved at each of its locations
(`Halted`): the promise at its return is the last line of a list that grows with
every step, and each line survives whatever reconnects and tasks do meanwhile.
`Backed` is `AliveIsBacked` while `connect()` still runs. `LInv` is about the
watch: outside of the windows, a connection whose tasks are to announce a loss is
shown as up until they do (`UpUntilAnnounced`), a `Disconnected` that
auto-reconnect sleeps on is unseen (`Noticed`), and after a successful attempt it
has seen what there was to see (`SeenAfterSuccess`). `ConnectionRefinement`
(`ActsAsConnection`) shows that the lifecycle implements `Connection`. Every step
but three shows nothing or a loss (`PlainPhase`); the swap of `write_tx` installs
and the store of `alive` opens, and both need `DeadWhileRecovering` (nothing is up
when they happen) and `Halted` (no `disconnect()` is under way); the last step of
`disconnect()` closes what `Halted` says is down.

`CastSessionProofs`: `TypeCorrectness` (`TypeOK`), `LoadsOneApp`
(`LoadNamesOneApp`), `ConnectsFirst` (`UsedAfterConnect`), `WatchesFollow`
(`WatchesCatchUp`), `SessionIsKnown` (`KnowsLiveSession`) and `LoadsAreNew`
(`OkMeansNewSession`), for any number of callers, calls, applications, media
sessions and losses. What each kind of step
may do is said once (`CallFacts`, `RouteFacts`, `TellFacts`, `RecFacts`,
`DeviceFacts`), and the invariants are proved from these summaries:

* `LoadNamesOneApp` needs `PairInv`: as long as no pair of accesses was cut, at
  most one caller is between the two writes of the ids and it leads with the
  transport; otherwise the two agree, and so do those a reader has taken.
* `UsedAfterConnect` needs `OpenInv`: the receiver, and the application whose
  transport is published, are opened or will be by a CONNECT under way, and a
  caller that holds the running application's transport holds the published one.
  `AppsBound` says that nothing names an application before the device has started
  it, so that a new one is not mistaken for a transport from before.
* `WatchesCatchUp` needs `WatchInv`: unless a status was missed, the newest one
  under way, else the one being routed, else the watch, is the device's
  application or its last media session (`Latest`). With nothing under way it is
  the watch.
* `KnowsLiveSession` needs the same of the media session id (`IdInv`), which
  callers write too; an id of 0 stands for the last session when that is over
  (`Known`), because the client can come to 0 only by seeing it stopped
  (`StopInv`: an answer to `stop_media()` never carries the session that still
  runs). Session numbers only grow (`MediaBound`), a pending answer or request
  belongs to one call that waits for it (`OwnInv`), and a client whose watch has
  old news of the media has no better id (`MissedFits`).
* `OkMeansNewSession` needs `LoadInv`: no load began after more sessions than
  there are, and what is under way to a load that waits for it is a success only if
  it names a session begun since.

`CastFileProofs`: `RangeIsWanted` says that `parse_range` returns the bytes a
header asks for, for every length and header, where `Wanted` defines them as a set
of positions; `UrlsNameTheirFiles` (`UrlNamesItsFile`) and `AnswersAreRight`
(`AnswerIsWhatWasAsked`) hold of the composition for any number of files,
registrations and requests. A URL names its file because ids are drawn once: the
invariant `IdsAreDrawnOnce` says that ids held by registrars are below the counter
and distinct, so an insertion never touches another's entry. An answer is right
because, from the moment the length is read, its range is the one wanted of that
length (`AnswersAreSound`), and only a change moves the file away from it. `IInv`
adds `ServerTypeOK`, and `JobInv` the job, for `TypeCorrectness` (`TypeOK`).
`LaunchedIsUsable`
(`LaunchedAppIsUsable`) holds for every answer whose ids are not empty: an entry
that misses one is left out, so the default of the parser is never returned.
`LoadedComesBack` (`LoadedIsReported`) holds for every media and every answer that
echoes it: `EchoInv` remembers whose answer the status is from, and `RoundTrip`
does the rest.

`CodecProofs`: `RoundTrip` says that what `media.rs` writes of a media object,
`router.rs` reads back as that object, for every variant, field value (of finite
floats) and list of images, but for a duration that is not positive. The two
tables of keys meet in `KeysAreDistinct` (no two fields of a variant share a key,
and none has a key that reading prefers to the one written) and `PreferredKeys`;
values come back because each is read with the type it was tagged with (`Untag`)
and a number of 32 bits survives the cast (`UntagU32`).

`PipelineProofs`: `ReaderStaysInStep` (`ReaderInStep`) and `FramesStayWhole`
(`DeviceSeesWholeFrames`), for every capacity and any number of requests and
frames. The properties speak of the ends of the streams, the invariants of all
that is between. Inbound, `InInv`: each piece may follow the one before it, the
device is within a frame exactly if the last piece began one, and the reader is
where the first piece is. Outbound, `OutInv`: the i-th piece has the i-th place in
the stream (`Place` counts two places to a message), so frames are whole and in
order; the writer is where the last piece is (`WriterInStep`), and the channel
holds the numbers that come next (`QueueInOrder`). `TypeCorrectness` (`TypeOK`)
adds the capacities (`InBounds`): the places on the wire bound the numbers on it,
hence those at the writer and in the channel, and a writer that has ended has
left nothing on the wire that was not queued, so the numbering stays above 0.

`Backoff`: `DelayIsNearBase` (a delay is within a quarter of its base, whatever
the clock says) and `JitterFits` (no intermediate value leaves its 64 bits).

Only model-checked: liveness (`CallsReturn`, `LossIsHandled`, `DisconnectReturns`,
`DisconnectEndsAuto`, `EverythingStops`, `PongGoesOut`, `DeathIsNoticed`), which is
out of the prover's reach, as is ENABLED. Every invariant, action property and
refinement that a run checks is also a theorem.

## Not modelled

Left out: TLS and certificates, sockets, mDNS and HTTP as such (I/O); discovery, a
sequential loop in a thread of its own that shares nothing with the rest; the
contents of messages that no other part reads (volume, positions, queue order,
custom data, namespaces and status texts); generated protobuf code; setters,
`Display` and error texts; a caller that drops its own `reconnect()` future half
way (between `client.rs:373` and `410` that would leave tasks that no handle
names; the auto-reconnect task, which runs the same code, is never dropped there).
Which events survive a full channel is modelled only for statuses: nothing is
promised there, and the code drops the newest.
