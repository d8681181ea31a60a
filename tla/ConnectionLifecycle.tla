------------------------ MODULE ConnectionLifecycle ------------------------
(***************************************************************************)
(* The life of a client's connection (src/src/client.rs,                   *)
(* src/src/client/heartbeat.rs): the three background tasks of each        *)
(* connection, connect(), reconnect() called by the user and by the        *)
(* auto-reconnect task, disconnect(), the drop of the last handle, and the *)
(* state they share: the atomics `alive` and `shutting_down`, the watch    *)
(* channel of the connection state, the bounded event channel, the table   *)
(* of waiting requests and the two async mutexes.                          *)
(*                                                                         *)
(* The client is Clone and the runtime is multi-threaded, so every access  *)
(* to shared state is a step of its own.  Connections are numbered: task   *)
(* states are indexed by the number, and `gen` is the one write_tx belongs *)
(* to.  An async mutex is held between two locations of its holder.        *)
(*                                                                         *)
(* Abstracted: messages (the write channel is open or closed), which event *)
(* is in the event channel (only its room matters), durations (a delay may *)
(* end at any time, the device may be silent at any time), requests (which *)
(* connection one waits on).                                               *)
(***************************************************************************)
EXTENDS Naturals

CONSTANTS MaxGen,        \* bound: TLS connections made in one behaviour
          MaxAttempts,   \* config.max_reconnect_attempts
          AutoReconnect, \* config.auto_reconnect
          EventCap,      \* config.event_buffer_size
          UserCalls      \* bound: what the user does besides reading events

ASSUME BoundsAssumption == MaxGen \in Nat \ {0} /\ EventCap \in Nat \ {0}
ASSUME ConfigAssumption == MaxAttempts \in Nat /\ AutoReconnect \in BOOLEAN
ASSUME UserAssumption ==
    UserCalls \subseteq {"reconnect", "disconnect", "request", "drop"}

Gens == 1 .. MaxGen
Callers == {"user", "auto"}   \* who runs reconnect_with_attempt

VARIABLES
    alive, shuttingDown,      \* the two atomics
    watch,                    \* the value of connection_tx
    unseen,                   \* has it changed since auto-reconnect looked?
    events,                   \* events in the event channel
    eventsOpen,               \* is ClientInner.event_tx its sender?
    taskEvents,               \* is the event_tx of connection gen's tasks?
    gen,                      \* the connection write_tx belongs to
    reader, writer, heartbeat,\* the tasks of each connection
    handles,                  \* the connection whose tasks task_handles has
    waiting,                  \* connections on which a request waits
    boot,                     \* where from_builder() is
    rec,                      \* where each reconnect_with_attempt() is
    dis,                      \* where disconnect() is
    auto, attempt,            \* where the auto-reconnect task is
    dropped,                  \* the user has dropped every handle
    races                     \* history: which of three windows were hit

flags == <<alive, shuttingDown>>
conn == <<watch, unseen>>
evs == <<events, eventsOpen, taskEvents>>
links == <<gen, handles>>
tasks == <<reader, writer, heartbeat>>
procs == <<boot, rec, dis, auto, attempt, dropped>>
vars == <<flags, conn, evs, links, tasks, waiting, procs, races>>

ConnectionStates == {"Connected", "Disconnected", "Reconnecting"}

\* Locations: what the next step does.
ReaderLocs == {"none", "run", "event", "watch", "clear", "exit"}
WriterLocs == {"none", "run", "watch", "exit"}
HeartbeatLocs == {"none", "run", "watch", "event", "exit"}
BootLocs == {"hello", "event", "watch", "spawnAuto", "ready", "failed"}
Window == {"swap", "cloneEvents", "setAlive", "clearShutdown", "clearRequests",
           "spawn", "store", "hello", "connected", "connectedEvent"}
Locked == {"checkShutdown", "checkAlive", "announce", "announceEvent",
           "stopTasks", "join", "tls", "recheck"} \cup Window
RecLocs == {"idle", "lock", "ok", "err"} \cup Locked
DisLocs == {"idle", "farewell", "dead", "stopTasks", "join", "clear", "watch",
            "event", "swapEvents", "done"}
Retrying == {"look", "sleep", "try", "giveUp", "giveUpEvent"}
AutoLocs == {"none", "wait", "check", "exit"} \cup Retrying

TypeOK ==
    /\ alive \in BOOLEAN /\ shuttingDown \in BOOLEAN
    /\ watch \in ConnectionStates /\ unseen \in BOOLEAN
    /\ events \in 0 .. EventCap
    /\ eventsOpen \in BOOLEAN /\ taskEvents \in BOOLEAN
    /\ gen \in Gens /\ handles \in {0} \cup Gens
    /\ reader \in [Gens -> ReaderLocs]
    /\ writer \in [Gens -> WriterLocs]
    /\ heartbeat \in [Gens -> HeartbeatLocs]
    /\ waiting \subseteq Gens
    /\ boot \in BootLocs
    /\ rec \in [Callers -> RecLocs]
    /\ dis \in DisLocs
    /\ auto \in AutoLocs /\ attempt \in 0 .. MaxAttempts
    /\ dropped \in BOOLEAN
    /\ races \subseteq {"disconnect", "announce", "swallow"}

\* from_builder() has connected, created the channels and spawned the tasks.
Init ==
    /\ alive = TRUE /\ shuttingDown = FALSE
    /\ watch = "Connected" /\ unseen = FALSE
    /\ events = 0 /\ eventsOpen = TRUE /\ taskEvents = TRUE
    /\ gen = 1 /\ handles = 1
    /\ reader = [g \in Gens |-> IF g = 1 THEN "run" ELSE "none"]
    /\ writer = [g \in Gens |-> IF g = 1 THEN "run" ELSE "none"]
    /\ heartbeat = [g \in Gens |-> IF g = 1 THEN "run" ELSE "none"]
    /\ waiting = {}
    /\ boot = "hello"
    /\ rec = [a \in Callers |-> "idle"]
    /\ dis = "idle"
    /\ auto = "none" /\ attempt = 0
    /\ dropped = FALSE
    /\ races = {}

-----------------------------------------------------------------------------
(* Shared state                                                            *)

\* connection_tx.send(s)
Announce(s) == watch' = s /\ unseen' = TRUE

\* Mutant: no bound.
OfferUnbounded == events' = events + 1

\* try_send: a full channel drops the event.
Offer == events' = IF events < EventCap THEN events + 1 ELSE events

\* A task's event_tx is the one that was cloned for its connection.
TaskEmits == IF taskEvents THEN Offer ELSE UNCHANGED events

\* try_send_event(): try_read fails while disconnect() takes the write lock.
ClientEmits == \/ IF eventsOpen THEN Offer ELSE UNCHANGED events
               \/ dis = "swapEvents" /\ UNCHANGED events

Live(g) == \/ reader[g] \notin {"none", "exit"}
           \/ writer[g] \notin {"none", "exit"}
           \/ heartbeat[g] \notin {"none", "exit"}

\* TaskHandles::shutdown() holds the mutex while it joins the tasks.
Joining == dis = "join" \/ \E a \in Callers : rec[a] = "join"

\* ClientInner is dropped: nobody holds a strong reference.
ClientGone == dropped /\ auto \notin Retrying

\* Mutants: a drop of the client, or a shutdown, does not reach the tasks.
CancelledByJoinOnly(g) == Joining /\ handles = g
CancelledByDropOnly(g) == ClientGone

\* Is the cancellation token of connection g cancelled (or g aborted)?
Cancelled(g) == ClientGone \/ (Joining /\ handles = g)

\* A message can be put into the write channel of the current connection.
WriteOpen == writer[gen] # "exit"

\* History.  A connection fails before it has been announced as Connected.
Unannounced == \/ boot \in {"hello", "event", "watch"}
               \/ \E a \in Callers : rec[a] \in {"store", "hello", "connected"}
Failed == races' = races \cup (IF Unannounced THEN {"announce"} ELSE {})

\* History.  The user's reconnect() overwrites a Disconnected that the
\* auto-reconnect task has not looked at.
Swallows(a) ==
    races' = races \cup
        (IF a = "user" /\ watch = "Disconnected" /\ (unseen \/ auto \in {"check", "look"})
         THEN {"swallow"} ELSE {})

-----------------------------------------------------------------------------
(* The tasks of connection g.  Each goes from one location to the next.    *)

ReaderGoes(g, from, to) ==
    /\ reader[g] = from /\ reader' = [reader EXCEPT ![g] = to]
    /\ UNCHANGED <<shuttingDown, eventsOpen, taskEvents, links, writer, heartbeat,
                   procs>>

\* reader_loop: end of stream or a read error ...
ReaderFails(g) ==
    /\ ReaderGoes(g, "run", "event")
    /\ alive' = FALSE /\ Failed
    /\ UNCHANGED <<conn, events, waiting>>

ReaderEmits(g) ==
    /\ ReaderGoes(g, "event", "watch")
    /\ TaskEmits
    /\ UNCHANGED <<alive, conn, waiting, races>>

ReaderAnnounces(g) ==
    /\ ReaderGoes(g, "watch", "clear")
    /\ Announce("Disconnected")
    /\ UNCHANGED <<alive, events, waiting, races>>

\* clear(), unless abort() takes effect at its lock
ClearUnlessAborted(g) ==
    waiting' = {} \/ (Joining /\ handles = g /\ waiting' = waiting)

ReaderClears(g) ==
    /\ ReaderGoes(g, "clear", "exit")
    /\ ClearUnlessAborted(g)
    /\ UNCHANGED <<alive, conn, events, races>>

\* ... or the task is cancelled at an await: no announcement.
ReaderCancelled(g) ==
    /\ Cancelled(g)
    /\ ReaderGoes(g, "run", "exit")
    /\ ClearUnlessAborted(g)
    /\ UNCHANGED <<alive, conn, events, races>>

\* A message is routed: an answer, or a status that becomes an event.
ReaderRoutes(g) ==
    /\ ReaderGoes(g, "run", "run")
    /\ \/ g \in waiting /\ waiting' = waiting \ {g} /\ UNCHANGED events
       \/ TaskEmits /\ UNCHANGED waiting
    /\ UNCHANGED <<alive, conn, races>>

WriterGoes(g, from, to) ==
    /\ writer[g] = from /\ writer' = [writer EXCEPT ![g] = to]
    /\ UNCHANGED <<shuttingDown, evs, links, reader, heartbeat, waiting, procs>>

\* Mutant: `alive` is left set.
WriterFailsAlive(g) ==
    /\ WriterGoes(g, "run", "watch")
    /\ Failed
    /\ UNCHANGED <<alive, conn>>

\* writer_loop: a write error ...
WriterFails(g) ==
    /\ WriterGoes(g, "run", "watch")
    /\ alive' = FALSE /\ Failed
    /\ UNCHANGED conn

\* ... is announced, without an event, and the write channel is closed.
WriterAnnounces(g) ==
    /\ WriterGoes(g, "watch", "exit")
    /\ Announce("Disconnected")
    /\ UNCHANGED <<alive, races>>

WriterCancelled(g) ==
    /\ Cancelled(g)
    /\ WriterGoes(g, "run", "exit")
    /\ UNCHANGED <<alive, conn, races>>

HeartbeatGoes(g, from, to) ==
    /\ heartbeat[g] = from /\ heartbeat' = [heartbeat EXCEPT ![g] = to]
    /\ UNCHANGED <<shuttingDown, eventsOpen, taskEvents, links, reader, writer,
                   waiting, procs>>

\* heartbeat task: a PING was sent, but nothing received for too long ...
HeartbeatTimesOut(g) ==
    /\ writer[g] # "exit"
    /\ HeartbeatGoes(g, "run", "watch")
    /\ alive' = FALSE /\ Failed
    /\ UNCHANGED <<conn, events>>

HeartbeatAnnounces(g) ==
    /\ HeartbeatGoes(g, "watch", "event")
    /\ Announce("Disconnected")
    /\ UNCHANGED <<alive, events, races>>

HeartbeatEmits(g) ==
    /\ HeartbeatGoes(g, "event", "exit")
    /\ TaskEmits
    /\ UNCHANGED <<alive, conn, races>>

\* ... or the PING cannot be sent because the write channel is closed: the
\* task ends without a word, as it does when it is cancelled.
HeartbeatStops(g) ==
    /\ writer[g] = "exit" \/ Cancelled(g)
    /\ HeartbeatGoes(g, "run", "exit")
    /\ UNCHANGED <<alive, conn, events, races>>

-----------------------------------------------------------------------------
(* connect(): the end of from_builder()                                    *)

BootGoes(from, to) ==
    /\ boot = from /\ boot' = to
    /\ UNCHANGED <<flags, eventsOpen, taskEvents, links, tasks, waiting, rec, dis,
                   attempt, dropped, races>>

\* The CONNECT message; if the writer is already gone, connect() fails.
BootHello ==
    /\ BootGoes("hello", IF WriteOpen THEN "event" ELSE "failed")
    /\ UNCHANGED <<conn, events, auto>>

BootEmits == BootGoes("event", "watch") /\ Offer /\ UNCHANGED <<conn, auto>>

BootAnnounces ==
    BootGoes("watch", "spawnAuto") /\ Announce("Connected") /\ UNCHANGED <<events, auto>>

\* Mutant: a receiver that starts with the current value counted as seen.
BootSubscribesAuto ==
    /\ BootGoes("spawnAuto", "ready")
    /\ auto' = IF AutoReconnect /\ MaxAttempts > 0 THEN "wait" ELSE "none"
    /\ unseen' = FALSE
    /\ UNCHANGED <<watch, events>>

\* spawn_auto_reconnect(): its receiver has seen nothing since the channel was
\* created, so whatever was announced so far is news to it.
BootSpawnsAuto ==
    /\ BootGoes("spawnAuto", "ready")
    /\ auto' = IF AutoReconnect /\ MaxAttempts > 0 THEN "wait" ELSE "none"
    /\ UNCHANGED <<conn, events>>

-----------------------------------------------------------------------------
(* reconnect_with_attempt(), run by a                                      *)

RecGoes(a, from, to) ==
    /\ rec[a] = from /\ rec' = [rec EXCEPT ![a] = to]
    /\ UNCHANGED <<boot, dis, auto, attempt, dropped>>

\* reconnect() is called, and returns.
UserReconnects ==
    /\ "reconnect" \in UserCalls /\ boot = "ready" /\ ~dropped
    /\ RecGoes("user", "idle", "lock")
    /\ UNCHANGED <<flags, conn, evs, links, tasks, waiting, races>>

UserReconnected ==
    /\ RecGoes("user", "ok", "idle") \/ RecGoes("user", "err", "idle")
    /\ UNCHANGED <<flags, conn, evs, links, tasks, waiting, races>>

\* reconnect_lock.lock()
RecLock(a) ==
    /\ \A b \in Callers : rec[b] \notin Locked
    /\ RecGoes(a, "lock", "checkShutdown")
    /\ UNCHANGED <<flags, conn, evs, links, tasks, waiting, races>>

\* shutting_down: Err; already alive: Ok
RecChecks(a) ==
    /\ \/ RecGoes(a, "checkShutdown", IF shuttingDown THEN "err" ELSE "checkAlive")
       \/ RecGoes(a, "checkAlive", IF alive THEN "ok" ELSE "announce")
    /\ UNCHANGED <<flags, conn, evs, links, tasks, waiting, races>>

RecAnnouncesAttempt(a) ==
    /\ \/ RecGoes(a, "announce", "announceEvent")
          /\ Announce("Reconnecting") /\ Swallows(a) /\ UNCHANGED events
       \/ RecGoes(a, "announceEvent", "stopTasks")
          /\ ClientEmits /\ UNCHANGED <<conn, races>>
    /\ UNCHANGED <<flags, eventsOpen, taskEvents, links, tasks, waiting>>

\* task_handles.lock(): the tasks are cancelled and aborted ...
RecStopsTasks(a) ==
    /\ ~Joining
    /\ RecGoes(a, "stopTasks", "join")
    /\ UNCHANGED <<flags, conn, evs, links, tasks, waiting, races>>

\* Mutant: aborted, not awaited.
RecAbortsOnly(a) ==
    /\ RecGoes(a, "join", "tls")
    /\ handles' = 0
    /\ UNCHANGED <<flags, conn, evs, gen, tasks, waiting, races>>

\* ... and the mutex is released when the last one is joined.
RecJoins(a) ==
    /\ handles # 0 => ~Live(handles)
    /\ RecGoes(a, "join", "tls")
    /\ handles' = 0
    /\ UNCHANGED <<flags, conn, evs, gen, tasks, waiting, races>>

\* connection::connect(..).await? fails or succeeds.
RecConnects(a) ==
    /\ RecGoes(a, "tls", "err") \/ (gen < MaxGen /\ RecGoes(a, "tls", "recheck"))
    /\ UNCHANGED <<flags, conn, evs, links, tasks, waiting, races>>

\* Mutant: no second look at shutting_down.
RecRechecksNot(a) ==
    /\ RecGoes(a, "recheck", "swap")
    /\ UNCHANGED <<flags, conn, evs, links, tasks, waiting, races>>

\* disconnect() may have been called during the handshake.
RecRechecks(a) ==
    /\ RecGoes(a, "recheck", IF shuttingDown THEN "err" ELSE "swap")
    /\ UNCHANGED <<flags, conn, evs, links, tasks, waiting, races>>

\* The new write channel replaces write_tx.
RecSwapsWriter(a) ==
    /\ RecGoes(a, "swap", "cloneEvents")
    /\ gen' = gen + 1
    /\ UNCHANGED <<flags, conn, evs, handles, tasks, waiting, races>>

RecClonesEvents(a) ==
    /\ RecGoes(a, "cloneEvents", "setAlive")
    /\ taskEvents' = eventsOpen
    /\ UNCHANGED <<flags, conn, events, eventsOpen, links, tasks, waiting, races>>

RecSetsAlive(a) ==
    /\ RecGoes(a, "setAlive", "clearShutdown")
    /\ alive' = TRUE
    /\ UNCHANGED <<shuttingDown, conn, evs, links, tasks, waiting, races>>

RecClearsShutdown(a) ==
    /\ RecGoes(a, "clearShutdown", "clearRequests")
    /\ shuttingDown' = FALSE
    /\ UNCHANGED <<alive, conn, evs, links, tasks, waiting, races>>

\* Mutant: the old requests stay.
RecKeepsRequests(a) ==
    /\ RecGoes(a, "clearRequests", "spawn")
    /\ UNCHANGED <<flags, conn, evs, links, tasks, waiting, races>>

RecClearsRequests(a) ==
    /\ RecGoes(a, "clearRequests", "spawn")
    /\ waiting' = {}
    /\ UNCHANGED <<flags, conn, evs, links, tasks, races>>

RecSpawns(a) ==
    /\ RecGoes(a, "spawn", "store")
    /\ reader' = [reader EXCEPT ![gen] = "run"]
    /\ writer' = [writer EXCEPT ![gen] = "run"]
    /\ heartbeat' = [heartbeat EXCEPT ![gen] = "run"]
    /\ UNCHANGED <<flags, conn, evs, links, waiting, races>>

\* *task_handles.lock().await = handles
RecStores(a) ==
    /\ ~Joining
    /\ RecGoes(a, "store", "hello")
    /\ handles' = gen
    /\ UNCHANGED <<flags, conn, evs, gen, tasks, waiting, races>>

\* CONNECT to the receiver and to the last application's transport
RecHello(a) ==
    /\ RecGoes(a, "hello", IF WriteOpen THEN "connected" ELSE "err")
    /\ UNCHANGED <<flags, conn, evs, links, tasks, waiting, races>>

RecAnnounces(a) ==
    /\ \/ RecGoes(a, "connected", "connectedEvent")
          /\ Announce("Connected") /\ UNCHANGED events
       \/ RecGoes(a, "connectedEvent", "ok")
          /\ ClientEmits /\ UNCHANGED conn
    /\ UNCHANGED <<flags, eventsOpen, taskEvents, links, tasks, waiting, races>>

\* What a reconnect does without the device; RecConnects is up to the device.
RecStep(a) ==
    \/ RecLock(a) \/ RecChecks(a) \/ RecAnnouncesAttempt(a) \/ RecStopsTasks(a)
    \/ RecJoins(a) \/ RecRechecks(a) \/ RecSwapsWriter(a) \/ RecClonesEvents(a)
    \/ RecSetsAlive(a) \/ RecClearsShutdown(a)
    \/ RecClearsRequests(a) \/ RecSpawns(a) \/ RecStores(a) \/ RecHello(a)
    \/ RecAnnounces(a)

-----------------------------------------------------------------------------
(* disconnect()                                                            *)

DisGoes(from, to) ==
    /\ dis = from /\ dis' = to
    /\ UNCHANGED <<gen, tasks, boot, rec, auto, attempt, dropped>>

\* Mutant: shutting_down is not set.
DisStartsUnflagged ==
    /\ "disconnect" \in UserCalls /\ boot = "ready" /\ ~dropped
    /\ DisGoes("idle", "farewell")
    /\ races' = races \cup
         (IF \E a \in Callers : rec[a] \in Window THEN {"disconnect"} ELSE {})
    /\ UNCHANGED <<flags, conn, evs, handles, waiting>>

\* shutting_down = true.  History: was a reconnect past its last check?
DisStarts ==
    /\ "disconnect" \in UserCalls /\ boot = "ready" /\ ~dropped
    /\ DisGoes("idle", "farewell")
    /\ shuttingDown' = TRUE
    /\ races' = races \cup
         (IF \E a \in Callers : rec[a] \in Window THEN {"disconnect"} ELSE {})
    /\ UNCHANGED <<alive, conn, evs, handles, waiting>>

\* stop_media() and CLOSE, for two seconds at most; a request that is cut off
\* stays in the table.
DisSaysFarewell ==
    /\ DisGoes("farewell", "dead")
    /\ waiting' \in {waiting, waiting \cup {gen}}
    /\ UNCHANGED <<flags, conn, evs, handles, races>>

DisClearsAlive ==
    /\ DisGoes("dead", "stopTasks")
    /\ alive' = FALSE
    /\ UNCHANGED <<shuttingDown, conn, evs, handles, waiting, races>>

\* task_handles.lock().await.shutdown().await
DisStopsTasks ==
    /\ ~Joining
    /\ DisGoes("stopTasks", "join")
    /\ UNCHANGED <<flags, conn, evs, handles, waiting, races>>

DisJoins ==
    /\ handles # 0 => ~Live(handles)
    /\ DisGoes("join", "clear")
    /\ handles' = 0
    /\ UNCHANGED <<flags, conn, evs, waiting, races>>

DisClearsRequests ==
    /\ DisGoes("clear", "watch")
    /\ waiting' = {}
    /\ UNCHANGED <<flags, conn, evs, handles, races>>

DisAnnounces ==
    /\ DisGoes("watch", "event")
    /\ Announce("Disconnected")
    /\ UNCHANGED <<flags, evs, handles, waiting, races>>

DisEmits ==
    /\ DisGoes("event", "swapEvents")
    /\ ClientEmits
    /\ UNCHANGED <<flags, conn, eventsOpen, taskEvents, handles, waiting, races>>

\* event_tx is replaced by the sender of a dead channel.
DisSwapsEvents ==
    /\ DisGoes("swapEvents", "done")
    /\ eventsOpen' = FALSE
    /\ UNCHANGED <<flags, conn, events, taskEvents, handles, waiting, races>>

DisStep == \/ DisSaysFarewell \/ DisClearsAlive \/ DisStopsTasks \/ DisJoins
           \/ DisClearsRequests \/ DisAnnounces \/ DisEmits \/ DisSwapsEvents

-----------------------------------------------------------------------------
(* The auto-reconnect task                                                 *)

AutoGoes(from, to) ==
    /\ auto = from /\ auto' = to
    /\ UNCHANGED <<flags, eventsOpen, taskEvents, links, tasks, waiting, boot, dis,
                   dropped, races>>

\* conn_rx.changed(): marks the value as seen.
AutoWakes ==
    /\ unseen /\ unseen' = FALSE
    /\ AutoGoes("wait", "check")
    /\ UNCHANGED <<watch, events, rec, attempt>>

\* changed() fails when the last sender is gone with the client and its tasks.
AutoSeesNoSender ==
    /\ ~unseen /\ ClientGone /\ \A g \in Gens : ~Live(g)
    /\ AutoGoes("wait", "exit")
    /\ UNCHANGED <<conn, events, rec, attempt>>

\* Mutant: a shutdown sends the task back to waiting.
AutoChecksAndWaits ==
    /\ AutoGoes("check", IF dropped THEN "exit" ELSE IF shuttingDown THEN "wait" ELSE "look")
    /\ UNCHANGED <<conn, events, rec, attempt>>

\* weak.upgrade(), then shutting_down
AutoChecks ==
    /\ AutoGoes("check", IF dropped \/ shuttingDown THEN "exit" ELSE "look")
    /\ UNCHANGED <<conn, events, rec, attempt>>

\* borrow_and_update()
AutoLooks ==
    /\ \/ watch = "Disconnected" /\ AutoGoes("look", "sleep") /\ attempt' = 1
       \/ watch # "Disconnected" /\ AutoGoes("look", "wait") /\ UNCHANGED attempt
    /\ unseen' = FALSE
    /\ UNCHANGED <<watch, events, rec>>

\* The delay is over: reconnect_with_attempt(attempt).
AutoTries ==
    /\ AutoGoes("sleep", "try")
    /\ rec' = [rec EXCEPT !["auto"] = "lock"]
    /\ UNCHANGED <<conn, events, attempt>>

\* Mutant: failed attempts are not counted.
AutoReturnsUncounted ==
    /\ \/ rec["auto"] = "ok" /\ AutoGoes("try", "wait") /\ attempt' = 0
       \/ rec["auto"] = "err" /\ AutoGoes("try", "sleep") /\ UNCHANGED attempt
    /\ rec' = [rec EXCEPT !["auto"] = "idle"]
    /\ UNCHANGED <<conn, events>>

AutoReturns ==
    /\ \/ rec["auto"] = "ok" /\ AutoGoes("try", "wait") /\ attempt' = 0
       \/ /\ rec["auto"] = "err" /\ attempt < MaxAttempts
          /\ AutoGoes("try", "sleep") /\ attempt' = attempt + 1
       \/ /\ rec["auto"] = "err" /\ attempt = MaxAttempts
          /\ AutoGoes("try", "giveUp") /\ UNCHANGED attempt
    /\ rec' = [rec EXCEPT !["auto"] = "idle"]
    /\ UNCHANGED <<conn, events>>

AutoGivesUp ==
    /\ \/ AutoGoes("giveUp", "giveUpEvent")
          /\ Announce("Disconnected") /\ UNCHANGED events
       \/ AutoGoes("giveUpEvent", "exit")
          /\ ClientEmits /\ UNCHANGED conn
    /\ UNCHANGED <<rec, attempt>>

AutoStep == \/ AutoWakes \/ AutoSeesNoSender \/ AutoChecks \/ AutoLooks
            \/ AutoTries \/ AutoReturns \/ AutoGivesUp

-----------------------------------------------------------------------------
(* The user                                                                *)

\* next_event() takes an event.
NextEvent ==
    /\ boot = "ready" /\ ~dropped
    /\ events > 0 /\ events' = events - 1
    /\ UNCHANGED <<flags, conn, eventsOpen, taskEvents, links, tasks, waiting,
                   procs, races>>

\* A request is registered and put into the write channel, or times out.
Request ==
    /\ "request" \in UserCalls /\ boot = "ready" /\ ~dropped
    /\ \/ WriteOpen /\ waiting' = waiting \cup {gen}
       \/ \E g \in waiting : waiting' = waiting \ {g}
    /\ UNCHANGED <<flags, conn, evs, links, tasks, procs, races>>

\* The last handle is dropped; no call of the user is running.
DropClient ==
    /\ "drop" \in UserCalls /\ boot = "ready" /\ ~dropped
    /\ rec["user"] = "idle" /\ dis \in {"idle", "done"}
    /\ dropped' = TRUE
    /\ waiting' = {}
    /\ UNCHANGED <<flags, conn, evs, links, tasks, boot, rec, dis, auto, attempt,
                   races>>

-----------------------------------------------------------------------------
\* A task that has failed does the rest on its own.
Winddown(g) ==
    \/ ReaderEmits(g) \/ ReaderAnnounces(g) \/ ReaderClears(g) \/ WriterAnnounces(g)
    \/ HeartbeatAnnounces(g) \/ HeartbeatEmits(g)

Stop(g) == ReaderCancelled(g) \/ WriterCancelled(g) \/ HeartbeatStops(g)

Fault(g) == ReaderFails(g) \/ WriterFails(g) \/ HeartbeatTimesOut(g)

BootStep == BootHello \/ BootEmits \/ BootAnnounces \/ BootSpawnsAuto

Next ==
    \/ \E g \in Gens : Winddown(g) \/ Stop(g) \/ Fault(g) \/ ReaderRoutes(g)
    \/ BootStep
    \/ \E a \in Callers : RecStep(a) \/ RecConnects(a)
    \/ UserReconnects \/ UserReconnected \/ DisStarts \/ DisStep
    \/ AutoStep
    \/ NextEvent \/ Request \/ DropClient

Spec == Init /\ [][Next]_vars

\* What a task is bound to do.  abort() ends it at its next await.  A
\* cancellation alone does not: a writer inside a write looks at it only
\* afterwards, and the others may be waiting for room in its channel, so they
\* are sure to stop only when it is gone.
MustEnd(g) ==
    \/ Winddown(g)
    \/ ((Joining /\ handles = g) \/ writer[g] = "exit") /\ Stop(g)

\* The runtime polls every task and call, and a new write channel has room for
\* the CONNECTs.  Nothing is assumed of the device, of the network (a TLS
\* handshake has no timeout, a write may hang), or of what the user calls.
Fairness ==
    /\ \A g \in Gens : WF_vars(MustEnd(g))
    /\ WF_vars(BootStep) /\ WF_vars(DisStep) /\ WF_vars(AutoStep)
    /\ \A a \in Callers : WF_vars(RecStep(a))

FairSpec == Spec /\ Fairness

-----------------------------------------------------------------------------
(* Properties                                                              *)

\* The tasks of two connections never run at the same time: a reconnect joins
\* the old reader, writer and heartbeat before it spawns the new ones, whoever
\* else shuts tasks down meanwhile.
OneConnection == \A g, h \in Gens : Live(g) /\ Live(h) => g = h

\* is_connected() tells the truth, and so does the shortcut of reconnect() for
\* a client that is connected already: when `alive` is set, the reader and the
\* writer of the current connection run (unless disconnect() was called after
\* the last check of a reconnect).
AliveIsBacked ==
    /\ alive /\ boot = "ready" /\ ~ClientGone /\ "disconnect" \notin races
    /\ \A a \in Callers : rec[a] \notin {"clearShutdown", "clearRequests", "spawn"}
    => reader[gen] = "run" /\ writer[gen] = "run"

\* When disconnect() has returned, the client stays down, also if a reconnect
\* was in its handshake: no task runs, nothing waits, no view of the state says
\* otherwise, and next_event() will return None.  It is what the checks of
\* shutting_down are for (client.rs:331: "If disconnect() was called, don't
\* re-establish the connection"); ReconnectAfterDisconnect below has the one
\* sentence that says otherwise.  Only a reconnect that was past its last check
\* when disconnect() set the flag is excepted.
DownForGood ==
    /\ shuttingDown /\ ~alive /\ watch # "Connected"
    /\ \A g \in Gens : ~Live(g)
    /\ waiting = {} /\ ~eventsOpen
DisconnectIsFinal == dis = "done" /\ "disconnect" \notin races => DownForGood

\* What the comment on disconnect() says without that condition: it "shuts
\* down all background tasks [...] Auto-reconnect is disabled".
DisconnectShutsDown == dis = "done" => ~alive /\ \A g \in Gens : ~Live(g)

\* What docs/getting-started.md:256 says: "After `disconnect()`, you can call
\* `reconnect()` to re-establish the connection."  A user who keeps calling
\* reconnect() on a disconnected client at least gets a handshake tried.
ReconnectAfterDisconnect ==
    <>(dis = "done") /\ []<>(rec["user"] = "lock")
    => <>(dis = "done" /\ (alive \/ rec["user"] = "tls"))

\* The connection is lost and every task has ended, but the auto-reconnect
\* task sleeps and nothing is left that would wake it.
LostUnnoticed ==
    /\ boot = "ready" /\ ~dropped /\ ~shuttingDown
    /\ ~alive /\ (\A g \in Gens : ~Live(g))
    /\ \A a \in Callers : rec[a] = "idle"
    /\ auto = "wait" /\ ~unseen

\* A lost connection is noticed by the auto-reconnect task, outside of the
\* three windows.
LossIsNoticed == races = {} => ~LostUnnoticed

\* What docs/architecture.md says of each task that fails: it "Exits - this
\* triggers auto-reconnect".
LossTriggersReconnect == ~LostUnnoticed

\* The same, for connections that failed after they were announced.
ReconnectCallKeepsAutoReconnect == "announce" \notin races => ~LostUnnoticed

\* A request never outlives the connection it was sent on: when a reconnect
\* has cleared the table, nobody waits for an answer on an old connection,
\* even if the old reader was aborted before its own clear().
NoRequestOnOldConnection ==
    (\A a \in Callers : rec[a] \notin {"cloneEvents", "setAlive", "clearShutdown",
                                       "clearRequests"})
    => waiting \subseteq {gen}

\* `alive` is set only when no task of any connection runs: a dying task of the
\* old connection cannot unset it afterwards.
AliveIsSetAfterJoin == [][~alive /\ alive' => \A g \in Gens : ~Live(g)]_vars

\* What the liveness properties need of the device and the network: every TLS
\* handshake ends, and a writer that was cancelled gets out of its write.
HandshakesEnd == \A a \in Callers : []<>(rec[a] # "tls")
WritesEnd == \A g \in Gens : []<>(ClientGone => writer[g] # "run")

\* The client is never down for ever while its auto-reconnect task waits or
\* tries: a lost connection is recovered or the task gives up (or the client
\* was shut down or dropped), outside of the three windows and as long as no
\* handshake hangs.
LossIsHandled ==
    HandshakesEnd => []<>(alive \/ auto \in {"none", "exit"} \/ races # {})

\* disconnect() is never under way for ever, even while a reconnect hangs in its
\* handshake: the tasks and the locks it waits for are always given up.
DisconnectReturns == []<>(dis \in {"idle", "done"})

\* After disconnect() the auto-reconnect task ends, whatever it was in the
\* middle of, unless the call fell into its window.
DisconnectEndsAuto ==
    HandshakesEnd =>
        []<>(dis = "done" /\ "disconnect" \notin races => auto \in {"none", "exit"})

\* After the last handle is dropped, no task survives: not the auto-reconnect
\* task and none of a connection.
EverythingStops ==
    HandshakesEnd /\ WritesEnd =>
        []<>(dropped => auto \in {"none", "exit"} /\ \A g \in Gens : ~Live(g))

-----------------------------------------------------------------------------
(* Refinement                                                              *)

Closing == dis # "idle" /\ "disconnect" \notin races
Phase ==
    IF dis = "done" /\ Closing THEN "closed"
    ELSE IF alive THEN "up"
    ELSE IF \E a \in Callers : rec[a] \in {"cloneEvents", "setAlive"} THEN "fresh"
    ELSE "lost"

Link == INSTANCE Connection WITH phase <- Phase, closing <- Closing, epoch <- gen

\* What is_connected() says over time is what Connection promises: it is never
\* true again of a connection that was lost, it becomes true only of one that
\* has just replaced write_tx, and from the call of disconnect() on never.  A
\* disconnect() that fell into the window of a reconnect counts as a loss.
ActsAsConnection == Link!Spec

-----------------------------------------------------------------------------
(* The inductive invariant behind OneConnection and AliveIsSetAfterJoin     *)

Fresh(g) == reader[g] = "none" /\ writer[g] = "none" /\ heartbeat[g] = "none"

\* The reconnect lock works, and only the auto-reconnect task's own attempt
\* runs in its name.
ReconnectsAreSerial ==
    /\ \A a, b \in Callers : rec[a] \in Locked /\ rec[b] \in Locked => a = b
    /\ auto # "try" => rec["auto"] = "idle"
    /\ auto # "none" => boot = "ready" /\ MaxAttempts > 0

Unspawned == {"cloneEvents", "setAlive", "clearShutdown", "clearRequests", "spawn"}

\* Older connections are over, newer ones have not begun.
OnlyCurrentLives ==
    /\ \A g \in Gens : g < gen => ~Live(g)
    /\ \A g \in Gens : g > gen => Fresh(g)
    /\ \A a \in Callers : rec[a] \in Unspawned => Fresh(gen)
    /\ \A a \in Callers : rec[a] \in {"recheck", "swap"} => gen < MaxGen

\* task_handles never loses sight of a running task, but for the moment
\* between the spawn and the store.
HandlesAreComplete ==
    /\ handles \in {0, gen}
    /\ handles = 0 /\ (\A a \in Callers : rec[a] # "store") => ~Live(gen)
    /\ \A a \in Callers :
          rec[a] \in {"tls", "recheck", "swap", "store"} \cup Unspawned => handles = 0

IInv == TypeOK /\ ReconnectsAreSerial /\ OnlyCurrentLives /\ HandlesAreComplete
=============================================================================
