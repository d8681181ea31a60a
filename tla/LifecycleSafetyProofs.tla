----------------------- MODULE LifecycleSafetyProofs -----------------------
(***************************************************************************)
(* More proofs about ConnectionLifecycle, on top of its inductive          *)
(* invariant IInv: `alive` is backed by running tasks, disconnect() is     *)
(* final, no request outlives its connection, a lost connection is noticed *)
(* by the auto-reconnect task outside of the three windows, and the        *)
(* abstract Connection is implemented.                                     *)
(***************************************************************************)
EXTENDS ConnectionLifecycleProofs

-----------------------------------------------------------------------------
(* The invariants                                                          *)

\* Where a reconnect has found the client dead and has not revived it ...
Recovering == {"announce", "announceEvent", "stopTasks", "join", "tls", "recheck",
               "swap", "cloneEvents", "setAlive"}
\* ... and where it has revived it without having said so.
Introducing == {"clearShutdown", "clearRequests", "spawn", "store", "hello",
                "connected"}

\* No disconnect() was called in the window of a reconnect.
Undisturbed == "disconnect" \notin races

\* Nobody but the reconnect that holds the lock revives the client.
DeadWhileRecovering == \A a \in Callers : rec[a] \in Recovering => ~alive

\* write_tx belongs to a connection that has, or had, its tasks.
Spawned == (\A a \in Callers : rec[a] \notin Unspawned) => writer[gen] # "none"

\* disconnect() and the drop need a handle, which connect() returns.
BootFirst == boot # "ready" => dis = "idle" /\ ~dropped

\* What disconnect() has achieved at each of its locations
Halted ==
    dis # "idle" /\ Undisturbed =>
        /\ shuttingDown /\ \A a \in Callers : rec[a] \notin Window
        /\ dis \notin {"farewell", "dead"} => ~alive
        /\ dis \in {"clear", "watch", "event", "swapEvents", "done"}
             => \A g \in Gens : ~Live(g)
        /\ dis \in {"watch", "event", "swapEvents", "done"} => waiting = {}
        /\ dis \in {"event", "swapEvents", "done"} => watch # "Connected"
        /\ dis = "done" => ~eventsOpen

\* AliveIsBacked, already while connect() runs
Backed ==
    /\ alive /\ ~ClientGone /\ Undisturbed
    /\ \A a \in Callers : rec[a] \notin {"clearShutdown", "clearRequests", "spawn"}
    => reader[gen] = "run" /\ writer[gen] = "run"

SInv == /\ DeadWhileRecovering /\ Spawned /\ BootFirst /\ Halted /\ Backed
        /\ NoRequestOnOldConnection

-----------------------------------------------------------------------------
(* What the steps of each process leave alone                              *)

TaskStep(g) == Winddown(g) \/ Stop(g) \/ Fault(g) \/ ReaderRoutes(g)

\* A task that moves belongs to the current connection.
LEMMA OnlyCurrentMoves == ASSUME IInv, NEW g \in Gens, Live(g) PROVE g = gen
  BY DEF IInv, TypeOK, OnlyCurrentLives, Live, Fresh, Gens

\* The tasks touch no other process, revive nothing, add no request, and
\* announce nothing but Disconnected.
LEMMA TaskFrame ==
  ASSUME IInv, NEW g \in Gens, TaskStep(g)
  PROVE  /\ g = gen /\ Live(g)
         /\ rec' = rec /\ boot' = boot /\ dis' = dis /\ auto' = auto
         /\ dropped' = dropped /\ gen' = gen /\ handles' = handles
         /\ eventsOpen' = eventsOpen /\ shuttingDown' = shuttingDown
         /\ alive' => alive
         /\ races \subseteq races' /\ races' \subseteq races \cup {"announce"}
         /\ waiting' \subseteq waiting
         /\ \/ watch' = watch /\ unseen' = unseen
            \/ watch' = "Disconnected" /\ unseen'
         /\ writer'[gen] = "none" => writer[gen] = "none"
         /\ \A h \in Gens : Live(h)' => Live(h)
<1> USE DEF TaskStep, Winddown, Stop, Fault, ReaderRoutes
<1>1. CASE ReaderFails(g) \/ ReaderEmits(g) \/ ReaderAnnounces(g) \/ ReaderClears(g)
           \/ ReaderCancelled(g) \/ ReaderRoutes(g)
  <2> USE <1>1 DEF ReaderFails, ReaderEmits, ReaderAnnounces, ReaderClears,
            ReaderCancelled, ReaderGoes
  <2>1. Live(g)
    BY DEF Live
  <2>2. \A h \in Gens : Live(h)' => Live(h)
    BY <2>1 DEF Live, IInv, TypeOK
  <2>3. waiting' \subseteq waiting
    BY DEF ClearUnlessAborted
  <2>4. \/ watch' = watch /\ unseen' = unseen
        \/ watch' = "Disconnected" /\ unseen'
    BY DEF Announce, conn
  <2>5. races \subseteq races' /\ races' \subseteq races \cup {"announce"}
    BY DEF Failed
  <2> QED
    BY <2>1, <2>2, <2>3, <2>4, <2>5, OnlyCurrentMoves DEF links, procs
<1>2. CASE WriterFails(g) \/ WriterAnnounces(g) \/ WriterCancelled(g)
  <2> USE <1>2 DEF WriterFails, WriterAnnounces, WriterCancelled, WriterGoes
  <2>1. Live(g)
    BY DEF Live
  <2>2. /\ \A h \in Gens : Live(h)' => Live(h)
        /\ writer'[gen] = "none" => writer[gen] = "none"
    BY <2>1 DEF Live, IInv, TypeOK
  <2>4. \/ watch' = watch /\ unseen' = unseen
        \/ watch' = "Disconnected" /\ unseen'
    BY DEF Announce, conn
  <2>5. races \subseteq races' /\ races' \subseteq races \cup {"announce"}
    BY DEF Failed
  <2> QED
    BY <2>1, <2>2, <2>4, <2>5, OnlyCurrentMoves DEF links, procs, evs
<1>3. CASE HeartbeatTimesOut(g) \/ HeartbeatAnnounces(g) \/ HeartbeatEmits(g)
           \/ HeartbeatStops(g)
  <2> USE <1>3 DEF HeartbeatTimesOut, HeartbeatAnnounces, HeartbeatEmits,
            HeartbeatStops, HeartbeatGoes
  <2>1. Live(g)
    BY DEF Live
  <2>2. \A h \in Gens : Live(h)' => Live(h)
    BY <2>1 DEF Live, IInv, TypeOK
  <2>4. \/ watch' = watch /\ unseen' = unseen
        \/ watch' = "Disconnected" /\ unseen'
    BY DEF Announce, conn
  <2>5. races \subseteq races' /\ races' \subseteq races \cup {"announce"}
    BY DEF Failed
  <2> QED
    BY <2>1, <2>2, <2>4, <2>5, OnlyCurrentMoves DEF links, procs
<1> QED
  BY <1>1, <1>2, <1>3

\* connect() emits and announces, and starts the auto-reconnect task.
LEMMA BootFrame ==
  ASSUME BootStep
  PROVE  /\ boot # "ready" /\ rec' = rec /\ dis' = dis /\ dropped' = dropped
         /\ gen' = gen /\ handles' = handles /\ reader' = reader /\ writer' = writer
         /\ heartbeat' = heartbeat /\ alive' = alive /\ shuttingDown' = shuttingDown
         /\ races' = races /\ waiting' = waiting /\ eventsOpen' = eventsOpen
  BY DEF BootStep, BootHello, BootEmits, BootAnnounces, BootSpawnsAuto, BootGoes,
         flags, links, tasks

RecMoves(a) == RecStep(a) \/ RecConnects(a)

\* A reconnect leaves the other processes alone.
LEMMA RecFrame ==
  ASSUME NEW a \in Callers, RecMoves(a) \/ UserReconnects \/ UserReconnected
  PROVE  /\ boot' = boot /\ dis' = dis /\ auto' = auto /\ dropped' = dropped
         /\ eventsOpen' = eventsOpen /\ waiting' \subseteq waiting
         /\ alive => alive'
         /\ races \subseteq races' /\ races' \subseteq races \cup {"swallow"}
<1> USE DEF RecMoves, RecStep, RecLock, RecChecks, RecAnnouncesAttempt,
            RecStopsTasks, RecJoins, RecConnects, RecRechecks, RecSwapsWriter,
            RecClonesEvents, RecSetsAlive, RecClearsShutdown, RecClearsRequests,
            RecSpawns, RecStores, RecHello, RecAnnounces, UserReconnects,
            UserReconnected
<1>1. boot' = boot /\ dis' = dis /\ auto' = auto /\ dropped' = dropped
  BY DEF RecGoes
<1>2. eventsOpen' = eventsOpen /\ waiting' \subseteq waiting /\ (alive => alive')
  BY DEF evs, flags
<1>3. races \subseteq races' /\ races' \subseteq races \cup {"swallow"}
  BY DEF Swallows
<1> QED
  BY <1>1, <1>2, <1>3

\* disconnect() leaves the tasks, the reconnects and the auto-reconnect task to
\* themselves.
LEMMA DisFrame ==
  ASSUME DisStarts \/ DisStep
  PROVE  /\ gen' = gen /\ reader' = reader /\ writer' = writer
         /\ heartbeat' = heartbeat /\ boot' = boot /\ rec' = rec /\ auto' = auto
         /\ dropped' = dropped /\ dis' # "idle"
         /\ alive' => alive
         /\ races \subseteq races' /\ (dis # "idle" => races' = races)
  BY DEF DisStarts, DisStep, DisSaysFarewell, DisClearsAlive, DisStopsTasks, DisJoins,
         DisClearsRequests, DisAnnounces, DisEmits, DisSwapsEvents, DisGoes, tasks,
         flags

\* The auto-reconnect task only looks, announces, and begins and ends attempts.
LEMMA AutoFrame ==
  ASSUME IInv, AutoStep
  PROVE  /\ alive' = alive /\ shuttingDown' = shuttingDown /\ gen' = gen
         /\ handles' = handles /\ reader' = reader /\ writer' = writer
         /\ heartbeat' = heartbeat /\ waiting' = waiting /\ boot' = boot /\ dis' = dis
         /\ dropped' = dropped /\ races' = races /\ eventsOpen' = eventsOpen
         /\ watch' \in {watch, "Disconnected"}
         /\ boot = "ready"
         /\ \A b \in Callers : rec'[b] \in {rec[b], "lock", "idle"}
<1> USE DEF AutoStep, AutoWakes, AutoSeesNoSender, AutoChecks, AutoLooks, AutoTries,
            AutoReturns, AutoGivesUp, AutoGoes
<1>1. boot = "ready"
  BY DEF IInv, ReconnectsAreSerial
<1>2. \A b \in Callers : rec'[b] \in {rec[b], "lock", "idle"}
  BY DEF IInv, TypeOK
<1>3. watch' \in {watch, "Disconnected"}
  BY DEF Announce, conn
<1> QED
  BY <1>1, <1>2, <1>3 DEF flags, links, tasks

\* The user's other calls
LEMMA UserFrame ==
  ASSUME NextEvent \/ Request \/ DropClient
  PROVE  /\ alive' = alive /\ shuttingDown' = shuttingDown /\ watch' = watch
         /\ unseen' = unseen /\ gen' = gen /\ handles' = handles /\ reader' = reader
         /\ writer' = writer /\ heartbeat' = heartbeat /\ boot' = boot /\ rec' = rec
         /\ dis' = dis /\ auto' = auto /\ races' = races /\ eventsOpen' = eventsOpen
         /\ boot = "ready" /\ (dropped => dropped')
  BY DEF NextEvent, Request, DropClient, flags, conn, evs, links, tasks, procs

\* How a reconnect moves its own location
LEMMA RecOthers ==
  ASSUME IInv, NEW a \in Callers, RecMoves(a)
  PROVE  \A b \in Callers : b # a => rec'[b] = rec[b]
  BY DEF RecMoves, RecStep, RecLock, RecChecks, RecAnnouncesAttempt,
         RecStopsTasks, RecJoins, RecConnects, RecRechecks, RecSwapsWriter,
         RecClonesEvents, RecSetsAlive, RecClearsShutdown, RecClearsRequests,
         RecSpawns, RecStores, RecHello, RecAnnounces, RecGoes, IInv, TypeOK

-----------------------------------------------------------------------------
(* Each part of SInv is kept by every step                                 *)

LEMMA DeadWhileRecoveringKept ==
  ASSUME IInv, DeadWhileRecovering, [Next]_vars
  PROVE  DeadWhileRecovering'
<1> USE DEF DeadWhileRecovering
<1>1. CASE \E g \in Gens : TaskStep(g)
  BY <1>1, TaskFrame
<1>2. CASE BootStep
  BY <1>2, BootFrame
<1>3. ASSUME NEW a \in Callers, RecMoves(a)
      PROVE  DeadWhileRecovering'
  <2>1. rec'[a] \in Recovering => ~alive'
    BY <1>3 DEF RecMoves, RecStep, RecLock, RecChecks, RecAnnouncesAttempt,
         RecStopsTasks, RecJoins, RecConnects, RecRechecks, RecSwapsWriter,
         RecClonesEvents, RecSetsAlive, RecClearsShutdown, RecClearsRequests,
         RecSpawns, RecStores, RecHello, RecAnnounces, RecGoes, IInv, TypeOK,
         flags, Recovering
  <2>2. \A b \in Callers : b # a => rec'[b] = rec[b]
    BY <1>3, RecOthers
  <2>3. alive' = alive \/ RecSetsAlive(a)
    BY <1>3 DEF RecMoves, RecStep, RecLock, RecChecks, RecAnnouncesAttempt,
         RecStopsTasks, RecJoins, RecConnects, RecRechecks, RecSwapsWriter,
         RecClonesEvents, RecClearsShutdown, RecClearsRequests,
         RecSpawns, RecStores, RecHello, RecAnnounces, flags
  <2>4. CASE RecSetsAlive(a)
    <3>1. \A b \in Callers : b # a => rec[b] \notin Locked
      BY <2>4, OthersAreOutside DEF RecSetsAlive, RecGoes, Locked, Window
    <3> QED
      BY <2>1, <2>2, <3>1 DEF Locked, Window, Recovering
  <2> QED
    BY <2>1, <2>2, <2>3, <2>4
<1>4. CASE UserReconnects \/ UserReconnected
  BY <1>4 DEF UserReconnects, UserReconnected, RecGoes, IInv, TypeOK, flags, Recovering
<1>5. CASE DisStarts \/ DisStep
  BY <1>5, DisFrame
<1>6. CASE AutoStep
  BY <1>6, AutoFrame DEF Recovering
<1>7. CASE NextEvent \/ Request \/ DropClient
  BY <1>7, UserFrame
<1>8. CASE UNCHANGED vars
  BY <1>8 DEF vars, flags, procs
<1> QED
  BY <1>1, <1>2, <1>3, <1>4, <1>5, <1>6, <1>7, <1>8 DEF Next, TaskStep, RecMoves

LEMMA SpawnedKept == ASSUME IInv, Spawned, [Next]_vars PROVE Spawned'
<1> USE DEF Spawned
<1>1. CASE \E g \in Gens : TaskStep(g)
  BY <1>1, TaskFrame
<1>2. CASE BootStep
  BY <1>2, BootFrame
<1>3. ASSUME NEW a \in Callers, RecMoves(a)
      PROVE  Spawned'
  <2>1. CASE RecSwapsWriter(a)
    BY <2>1 DEF RecSwapsWriter, RecGoes, IInv, TypeOK, Unspawned
  <2>2. CASE RecSpawns(a)
    BY <2>2 DEF RecSpawns, RecGoes, IInv, TypeOK, Unspawned, links
  <2>3. CASE ~RecSwapsWriter(a) /\ ~RecSpawns(a)
    <3>1. /\ gen' = gen /\ writer' = writer
          /\ rec[a] \in Unspawned => rec'[a] \in Unspawned
      BY <1>3, <2>3 DEF RecMoves, RecStep, RecLock, RecChecks, RecAnnouncesAttempt,
         RecStopsTasks, RecJoins, RecConnects, RecRechecks,
         RecClonesEvents, RecSetsAlive, RecClearsShutdown, RecClearsRequests,
         RecStores, RecHello, RecAnnounces, RecGoes, IInv, TypeOK,
         tasks, links, Unspawned
    <3>2. \A b \in Callers : b # a => rec'[b] = rec[b]
      BY <1>3, RecOthers
    <3> QED
      BY <3>1, <3>2
  <2> QED
    BY <2>1, <2>2, <2>3
<1>4. CASE UserReconnects \/ UserReconnected
  BY <1>4 DEF UserReconnects, UserReconnected, RecGoes, IInv, TypeOK, links, tasks,
              Unspawned
<1>5. CASE DisStarts \/ DisStep
  BY <1>5, DisFrame
<1>6. CASE AutoStep
  <2>1. \A b \in Callers : rec[b] \in Unspawned => rec'[b] \in Unspawned
    BY <1>6 DEF AutoStep, AutoWakes, AutoSeesNoSender, AutoChecks, AutoLooks, AutoTries,
                AutoReturns, AutoGivesUp, AutoGoes, IInv, TypeOK, ReconnectsAreSerial,
                Unspawned, Callers
  <2> QED
    BY <1>6, <2>1, AutoFrame
<1>7. CASE NextEvent \/ Request \/ DropClient
  BY <1>7, UserFrame
<1>8. CASE UNCHANGED vars
  BY <1>8 DEF vars, links, tasks, procs
<1> QED
  BY <1>1, <1>2, <1>3, <1>4, <1>5, <1>6, <1>7, <1>8 DEF Next, TaskStep, RecMoves

LEMMA BootFirstKept == ASSUME IInv, BootFirst, [Next]_vars PROVE BootFirst'
<1> USE DEF BootFirst
<1>1. CASE \E g \in Gens : TaskStep(g)
  BY <1>1, TaskFrame
<1>2. CASE BootStep
  BY <1>2, BootFrame
<1>3. CASE \/ \E a \in Callers : RecMoves(a)
           \/ UserReconnects \/ UserReconnected
  BY <1>3, RecFrame DEF Callers
<1>4. CASE DisStarts \/ DisStep
  BY <1>4, DisFrame DEF DisStarts, DisStep, DisSaysFarewell, DisClearsAlive,
         DisStopsTasks, DisJoins, DisClearsRequests, DisAnnounces, DisEmits,
         DisSwapsEvents, DisGoes
<1>5. CASE AutoStep
  BY <1>5, AutoFrame
<1>6. CASE NextEvent \/ Request \/ DropClient
  BY <1>6, UserFrame
<1>7. CASE UNCHANGED vars
  BY <1>7 DEF vars, procs
<1> QED
  BY <1>1, <1>2, <1>3, <1>4, <1>5, <1>6, <1>7 DEF Next, TaskStep, RecMoves

\* A reconnect outside of its window does nothing that disconnect() undoes, and
\* it does not enter the window once shutting_down is set.
LEMMA RecOutsideWindow ==
  ASSUME IInv, NEW a \in Callers, RecMoves(a), rec[a] \notin Window, shuttingDown
  PROVE  /\ rec'[a] \notin Window /\ shuttingDown' /\ alive' = alive
         /\ reader' = reader /\ writer' = writer /\ heartbeat' = heartbeat
         /\ watch' \in {watch, "Reconnecting"}
  BY DEF RecMoves, RecStep, RecLock, RecChecks, RecAnnouncesAttempt,
         RecStopsTasks, RecJoins, RecConnects, RecRechecks, RecSwapsWriter,
         RecClonesEvents, RecSetsAlive, RecClearsShutdown, RecClearsRequests,
         RecSpawns, RecStores, RecHello, RecAnnounces, RecGoes, IInv, TypeOK,
         flags, conn, tasks, Announce, Window

LEMMA HaltedKept ==
  ASSUME IInv, Spawned, BootFirst, Halted, [Next]_vars
  PROVE  Halted'
<1> SUFFICES ASSUME dis' # "idle", Undisturbed' PROVE Halted'
  BY DEF Halted
<1>1. CASE \E g \in Gens : TaskStep(g)
  <2> PICK g \in Gens : TaskStep(g)
    BY <1>1
  <2>1. Undisturbed
    BY TaskFrame DEF Undisturbed
  <2> QED
    BY <2>1, TaskFrame DEF Halted
<1>2. CASE BootStep
  BY <1>2, BootFrame DEF BootFirst
<1>3. ASSUME NEW a \in Callers, RecMoves(a)
      PROVE  Halted'
  <2>1. Undisturbed /\ dis # "idle" /\ dis' = dis /\ eventsOpen' = eventsOpen
        /\ waiting' \subseteq waiting
    BY <1>3, RecFrame DEF Undisturbed
  <2>2. shuttingDown /\ \A b \in Callers : rec[b] \notin Window
    BY <2>1 DEF Halted
  <2>3. /\ rec'[a] \notin Window /\ shuttingDown' /\ alive' = alive
        /\ reader' = reader /\ writer' = writer /\ heartbeat' = heartbeat
        /\ watch' \in {watch, "Reconnecting"}
    BY <1>3, <2>2, RecOutsideWindow
  <2>4. \A b \in Callers : rec'[b] \notin Window
    BY <1>3, <2>2, <2>3, RecOthers
  <2>5. \A g \in Gens : Live(g)' = Live(g)
    BY <2>3 DEF Live
  <2> QED
    BY <2>1, <2>3, <2>4, <2>5 DEF Halted
<1>4. CASE UserReconnects \/ UserReconnected
  <2>1. /\ dis' = dis /\ shuttingDown' = shuttingDown /\ alive' = alive
        /\ waiting' = waiting /\ watch' = watch /\ eventsOpen' = eventsOpen
        /\ reader' = reader /\ writer' = writer /\ heartbeat' = heartbeat
        /\ races' = races
        /\ \A b \in Callers : rec'[b] \in {rec[b], "lock", "idle"}
    BY <1>4 DEF UserReconnects, UserReconnected, RecGoes, IInv, TypeOK, flags, conn,
                evs, tasks
  <2>2. \A g \in Gens : Live(g)' = Live(g)
    BY <2>1 DEF Live
  <2> QED
    BY <2>1, <2>2 DEF Halted, Undisturbed, Window
<1>5. CASE DisStarts
  <2>1. dis' = "farewell" /\ shuttingDown' /\ rec' = rec
    BY <1>5 DEF DisStarts, DisGoes
  <2>2. \A a \in Callers : rec[a] \notin Window
    BY <1>5 DEF DisStarts, Undisturbed
  <2> QED
    BY <2>1, <2>2 DEF Halted
<1>6. CASE DisStep
  <2>1. Undisturbed /\ dis # "idle" /\ rec' = rec
    BY <1>6, DisFrame DEF Undisturbed, DisStep, DisSaysFarewell, DisClearsAlive,
         DisStopsTasks, DisJoins, DisClearsRequests, DisAnnounces, DisEmits,
         DisSwapsEvents, DisGoes
  <2>2. shuttingDown' /\ \A b \in Callers : rec'[b] \notin Window
    BY <1>6, <2>1 DEF Halted, DisStep, DisSaysFarewell, DisClearsAlive,
         DisStopsTasks, DisJoins, DisClearsRequests, DisAnnounces, DisEmits,
         DisSwapsEvents, flags
  <2>3. \A g \in Gens : Live(g)' = Live(g)
    BY <1>6, DisFrame DEF Live
  <2>4. CASE DisJoins
    <3>1. \A a \in Callers : rec[a] # "store"
      BY <2>1 DEF Halted, Window
    <3>2. ~Live(gen)
      BY <2>4, <3>1 DEF DisJoins, IInv, HandlesAreComplete
    <3>3. \A g \in Gens : ~Live(g)
      BY <3>2, OnlyCurrentMoves
    <3> QED
      BY <2>1, <2>2, <2>3, <2>4, <3>3 DEF Halted, DisJoins, DisGoes, flags
  <2>5. CASE DisSaysFarewell \/ DisClearsAlive \/ DisStopsTasks
    BY <2>2, <2>5, <2>1 DEF Halted, DisSaysFarewell, DisClearsAlive, DisStopsTasks,
         DisGoes, flags
  <2>6. CASE DisClearsRequests \/ DisAnnounces
    BY <2>1, <2>2, <2>3, <2>6 DEF Halted, DisClearsRequests, DisAnnounces, DisGoes,
         flags, conn, evs, Announce
  <2>7. CASE DisEmits \/ DisSwapsEvents
    BY <2>1, <2>2, <2>3, <2>7 DEF Halted, DisEmits, DisSwapsEvents, DisGoes,
         flags, conn, evs
  <2> QED
    BY <1>6, <2>4, <2>5, <2>6, <2>7 DEF DisStep
<1>7. CASE AutoStep
  <2>1. \A g \in Gens : Live(g)' = Live(g)
    BY <1>7, AutoFrame DEF Live
  <2> QED
    BY <1>7, <2>1, AutoFrame DEF Halted, Undisturbed, Window
<1>8. CASE NextEvent \/ Request \/ DropClient
  <2>1. \A g \in Gens : Live(g)' = Live(g)
    BY <1>8, UserFrame DEF Live
  <2>2. Undisturbed /\ dis # "idle" /\ dis' = dis
    BY <1>8, UserFrame DEF Undisturbed
  <2>3. dis \in {"watch", "event", "swapEvents", "done"} => waiting' = {}
    <3> SUFFICES ASSUME dis \in {"watch", "event", "swapEvents", "done"}
                 PROVE  waiting' = {}
      OBVIOUS
    <3>1. waiting = {} /\ ~Live(gen)
      BY <2>2 DEF Halted, IInv, TypeOK
    <3>2. writer[gen] # "none"
      BY <2>2 DEF Halted, Spawned, Window, Unspawned
    <3>3. ~WriteOpen
      BY <3>1, <3>2 DEF WriteOpen, Live
    <3> QED
      BY <1>8, <3>1, <3>3 DEF NextEvent, Request, DropClient
  <2> QED
    BY <1>8, <2>1, <2>2, <2>3, UserFrame DEF Halted
<1>9. CASE UNCHANGED vars
  BY <1>9 DEF vars, flags, conn, evs, tasks, procs, Halted, Undisturbed, Live
<1> QED
  BY <1>1, <1>2, <1>3, <1>4, <1>5, <1>6, <1>7, <1>8, <1>9 DEF Next, TaskStep, RecMoves

\* Nobody upgrades a weak handle once the last strong one is gone.
LEMMA GoneForGood == ASSUME IInv, [Next]_vars, ClientGone PROVE ClientGone'
<1> USE DEF ClientGone
<1>1. CASE \E g \in Gens : TaskStep(g)
  BY <1>1, TaskFrame
<1>2. CASE BootStep
  BY <1>2 DEF BootStep, BootHello, BootEmits, BootAnnounces, BootSpawnsAuto, BootGoes,
              Retrying
<1>3. CASE \/ \E a \in Callers : RecMoves(a)
           \/ UserReconnects \/ UserReconnected
  BY <1>3, RecFrame DEF Callers
<1>4. CASE DisStarts \/ DisStep
  BY <1>4, DisFrame
<1>5. CASE AutoStep
  BY <1>5 DEF AutoStep, AutoWakes, AutoSeesNoSender, AutoChecks, AutoLooks, AutoTries,
              AutoReturns, AutoGivesUp, AutoGoes, Retrying
<1>6. CASE NextEvent \/ Request \/ DropClient
  BY <1>6, UserFrame
<1>7. CASE UNCHANGED vars
  BY <1>7 DEF vars, procs
<1> QED
  BY <1>1, <1>2, <1>3, <1>4, <1>5, <1>6, <1>7 DEF Next, TaskStep, RecMoves

LEMMA BackedKept ==
  ASSUME IInv, DeadWhileRecovering, Halted, Backed, [Next]_vars
  PROVE  Backed'
<1> DEFINE Starting == {"clearShutdown", "clearRequests", "spawn"}
<1> SUFFICES ASSUME alive', ~ClientGone', Undisturbed',
                    \A a \in Callers : rec'[a] \notin Starting
             PROVE  reader'[gen'] = "run" /\ writer'[gen'] = "run"
  BY DEF Backed
<1>0. ~ClientGone
  BY GoneForGood
<1>1. CASE \E g \in Gens : TaskStep(g)
  <2> PICK g \in Gens : TaskStep(g)
    BY <1>1
  <2>1. /\ g = gen /\ alive /\ Undisturbed /\ rec' = rec /\ gen' = gen
    BY TaskFrame DEF Undisturbed
  <2>2. reader[gen] = "run" /\ writer[gen] = "run"
    BY <1>0, <2>1 DEF Backed
  <2>3. ~Joining
    BY <2>1 DEF Joining, DeadWhileRecovering, Recovering, Halted
  <2>4. ~Cancelled(g)
    BY <1>0, <2>3 DEF Cancelled
  <2> QED
    BY <2>1, <2>2, <2>4 DEF TaskStep, Winddown, Stop, Fault, ReaderFails, ReaderEmits,
              ReaderAnnounces, ReaderClears, ReaderCancelled, ReaderRoutes, ReaderGoes,
              WriterFails, WriterAnnounces, WriterCancelled, WriterGoes,
              HeartbeatTimesOut, HeartbeatAnnounces, HeartbeatEmits,
              HeartbeatStops, HeartbeatGoes, IInv, TypeOK
<1>2. CASE BootStep
  BY <1>0, <1>2, BootFrame DEF Backed, Undisturbed
<1>3. ASSUME NEW a \in Callers, RecMoves(a)
      PROVE  reader'[gen'] = "run" /\ writer'[gen'] = "run"
  <2>1. Undisturbed
    BY <1>3, RecFrame DEF Undisturbed
  <2>2. CASE RecSpawns(a)
    BY <2>2 DEF RecSpawns, IInv, TypeOK, links
  <2>3. CASE RecSetsAlive(a)
    BY <2>3 DEF RecSetsAlive, RecGoes, IInv, TypeOK
  <2>4. CASE RecSwapsWriter(a)
    BY <2>4 DEF RecSwapsWriter, RecGoes, DeadWhileRecovering, Recovering, flags
  <2>5. CASE ~RecSpawns(a) /\ ~RecSetsAlive(a) /\ ~RecSwapsWriter(a)
    <3>1. /\ gen' = gen /\ writer' = writer /\ reader' = reader /\ alive' = alive
          /\ rec[a] \in Starting => rec'[a] \in Starting
      BY <1>3, <2>5 DEF RecMoves, RecStep, RecLock, RecChecks, RecAnnouncesAttempt,
         RecStopsTasks, RecJoins, RecConnects, RecRechecks,
         RecClonesEvents, RecClearsShutdown, RecClearsRequests,
         RecStores, RecHello, RecAnnounces, RecGoes, IInv, TypeOK,
         tasks, links, flags
    <3>2. \A b \in Callers : b # a => rec'[b] = rec[b]
      BY <1>3, RecOthers
    <3>3. \A b \in Callers : rec[b] \notin Starting
      BY <3>1, <3>2
    <3> QED
      BY <1>0, <2>1, <3>1, <3>3 DEF Backed
  <2> QED
    BY <2>2, <2>3, <2>4, <2>5
<1>4. CASE UserReconnects \/ UserReconnected
  BY <1>0, <1>4 DEF UserReconnects, UserReconnected, RecGoes, IInv, TypeOK, links, tasks,
              flags, Backed, Undisturbed
<1>5. CASE DisStarts \/ DisStep
  BY <1>0, <1>5, DisFrame DEF Backed, Undisturbed
<1>6. CASE AutoStep
  <2>1. \A b \in Callers : rec[b] \in Starting => rec'[b] \in Starting
    BY <1>6 DEF AutoStep, AutoWakes, AutoSeesNoSender, AutoChecks, AutoLooks, AutoTries,
                AutoReturns, AutoGivesUp, AutoGoes, IInv, TypeOK, ReconnectsAreSerial,
                Callers
  <2> QED
    BY <1>0, <1>6, <2>1, AutoFrame DEF Backed, Undisturbed
<1>7. CASE NextEvent \/ Request \/ DropClient
  BY <1>0, <1>7, UserFrame DEF Backed, Undisturbed
<1>8. CASE UNCHANGED vars
  BY <1>0, <1>8 DEF vars, flags, links, tasks, procs, Backed, Undisturbed
<1> QED
  BY <1>1, <1>2, <1>3, <1>4, <1>5, <1>6, <1>7, <1>8 DEF Next, TaskStep, RecMoves

LEMMA NoRequestOnOldKept ==
  ASSUME IInv, NoRequestOnOldConnection, [Next]_vars
  PROVE  NoRequestOnOldConnection'
<1> DEFINE Dirty == {"cloneEvents", "setAlive", "clearShutdown", "clearRequests"}
<1> SUFFICES ASSUME \A a \in Callers : rec'[a] \notin Dirty
             PROVE  waiting' \subseteq {gen'}
  BY DEF NoRequestOnOldConnection
<1> USE DEF NoRequestOnOldConnection
<1>1. CASE \E g \in Gens : TaskStep(g)
  BY <1>1, TaskFrame
<1>2. CASE BootStep
  BY <1>2, BootFrame
<1>3. ASSUME NEW a \in Callers, RecMoves(a)
      PROVE  waiting' \subseteq {gen'}
  <2>1. CASE RecClearsRequests(a)
    BY <2>1 DEF RecClearsRequests
  <2>2. CASE RecSwapsWriter(a)
    BY <2>2 DEF RecSwapsWriter, RecGoes, IInv, TypeOK
  <2>3. CASE ~RecClearsRequests(a) /\ ~RecSwapsWriter(a)
    <3>1. gen' = gen /\ (rec[a] \in Dirty => rec'[a] \in Dirty)
      BY <1>3, <2>3 DEF RecMoves, RecStep, RecLock, RecChecks, RecAnnouncesAttempt,
         RecStopsTasks, RecJoins, RecConnects, RecRechecks,
         RecClonesEvents, RecSetsAlive, RecClearsShutdown, RecSpawns,
         RecStores, RecHello, RecAnnounces, RecGoes, IInv, TypeOK, links
    <3>2. \A b \in Callers : b # a => rec'[b] = rec[b]
      BY <1>3, RecOthers
    <3>3. \A b \in Callers : rec[b] \notin Dirty
      BY <3>1, <3>2
    <3> QED
      BY <1>3, <3>1, <3>3, RecFrame
  <2> QED
    BY <2>1, <2>2, <2>3
<1>4. CASE UserReconnects \/ UserReconnected
  BY <1>4 DEF UserReconnects, UserReconnected, RecGoes, IInv, TypeOK, links
<1>5. CASE DisStarts \/ DisStep
  <2>1. waiting' \subseteq waiting \cup {gen}
    BY <1>5 DEF DisStarts, DisStep, DisSaysFarewell, DisClearsAlive, DisStopsTasks,
         DisJoins, DisClearsRequests, DisAnnounces, DisEmits, DisSwapsEvents
  <2> QED
    BY <1>5, <2>1, DisFrame
<1>6. CASE AutoStep
  <2>1. \A b \in Callers : rec[b] \in Dirty => rec'[b] \in Dirty
    BY <1>6 DEF AutoStep, AutoWakes, AutoSeesNoSender, AutoChecks, AutoLooks, AutoTries,
                AutoReturns, AutoGivesUp, AutoGoes, IInv, TypeOK, ReconnectsAreSerial,
                Callers
  <2> QED
    BY <1>6, <2>1, AutoFrame
<1>7. CASE NextEvent \/ Request \/ DropClient
  <2>1. waiting' \subseteq waiting \cup {gen}
    BY <1>7 DEF NextEvent, Request, DropClient
  <2> QED
    BY <1>7, <2>1, UserFrame
<1>8. CASE UNCHANGED vars
  BY <1>8 DEF vars, links, procs
<1> QED
  BY <1>1, <1>2, <1>3, <1>4, <1>5, <1>6, <1>7, <1>8 DEF Next, TaskStep, RecMoves

-----------------------------------------------------------------------------
(* The theorems about disconnect(), `alive` and the requests               *)

LEMMA InitSInv == Init => SInv
<1> SUFFICES ASSUME Init PROVE SInv
  OBVIOUS
<1> USE DEF Init
<1>0. gen = 1 /\ gen \in Gens
  BY BoundsAssumption DEF Gens
<1>1. writer[gen] = "run" /\ reader[gen] = "run"
  BY <1>0
<1>2. DeadWhileRecovering /\ Spawned /\ BootFirst
  BY <1>1 DEF DeadWhileRecovering, Recovering, Spawned, BootFirst
<1>3. Halted /\ Backed /\ NoRequestOnOldConnection
  BY <1>1 DEF Halted, Backed, NoRequestOnOldConnection
<1> QED
  BY <1>2, <1>3 DEF SInv

\* What holds of `alive`, of the tasks and of the requests at every location of
\* reconnect() and disconnect().
THEOREM SafetyInvariance == Spec => [](IInv /\ SInv)
<1>1. Init => IInv /\ SInv
  BY InitIInv, InitSInv
<1>2. IInv /\ SInv /\ [Next]_vars => IInv' /\ SInv'
  BY NextIInv, DeadWhileRecoveringKept, SpawnedKept, BootFirstKept, HaltedKept,
     BackedKept, NoRequestOnOldKept DEF SInv
<1> QED
  BY <1>1, <1>2, PTL DEF Spec

\* is_connected() tells the truth, and reconnect()'s shortcut for a client that
\* is connected already is right: while `alive` is set, the reader and the
\* writer of the current connection run.
THEOREM AliveBacked == Spec => []AliveIsBacked
<1>1. SInv => AliveIsBacked
  BY DEF SInv, Backed, Undisturbed, AliveIsBacked
<1> QED
  BY <1>1, SafetyInvariance, PTL

\* When disconnect() has returned nothing of the client runs, waits or says
\* otherwise, and no reconnect brings it back, unless one was past its last
\* check of shutting_down.
THEOREM DisconnectFinal == Spec => []DisconnectIsFinal
<1>1. SInv => DisconnectIsFinal
  BY DEF SInv, Halted, Undisturbed, DisconnectIsFinal, DownForGood
<1> QED
  BY <1>1, SafetyInvariance, PTL

\* A request never waits on a connection that a reconnect has replaced and
\* whose table it has cleared.
THEOREM NoOldRequest == Spec => []NoRequestOnOldConnection
<1>1. SInv => NoRequestOnOldConnection
  BY DEF SInv
<1> QED
  BY <1>1, SafetyInvariance, PTL

-----------------------------------------------------------------------------
(* A lost connection is noticed                                            *)

\* None of the three windows was hit and nobody has ended the client.
Calm == races = {} /\ ~dropped /\ dis = "idle"

\* A task of the current connection has still to announce the loss.
Dying == \/ reader[gen] \in {"event", "watch"} \/ writer[gen] = "watch"
         \/ heartbeat[gen] = "watch"

\* write_tx belongs to a new connection that is about to be set alive.
Replaced == \E a \in Callers : rec[a] \in {"cloneEvents", "setAlive"}

\* The auto-reconnect task will find the loss the next time it looks.
WillBeSeen == Dying \/ Replaced \/ (watch = "Disconnected" /\ unseen)

\* A connection that fails before it is announced is one of the windows.
UpUntilAnnounced ==
    Calm => /\ \A a \in Callers : rec[a] \in Introducing => alive
            /\ boot \in {"hello", "event", "watch"} => alive

\* The auto-reconnect task will see the loss, is looking at it, or acts on it.
Noticed ==
    Calm /\ ~alive =>
        \/ WillBeSeen
        \/ watch = "Disconnected" /\ auto \in {"check", "look"}
        \/ auto \in {"sleep", "try", "giveUp", "giveUpEvent", "exit"}

\* When an attempt of the auto-reconnect task has succeeded, a loss after that
\* is news: the task goes back to sleep only to be woken by it.
SeenAfterSuccess ==
    Calm /\ ~alive /\ rec["auto"] \in {"connectedEvent", "ok"} => WillBeSeen

LInv == UpUntilAnnounced /\ Noticed /\ SeenAfterSuccess

\* A task that moves keeps the announcement pending or makes it, and one that
\* fails outside of the window "announce" was announced itself.
LEMMA TaskWillBeSeen ==
  ASSUME IInv, UpUntilAnnounced, NEW g \in Gens, TaskStep(g), Calm'
  PROVE  /\ Calm
         /\ WillBeSeen => WillBeSeen'
         /\ alive /\ ~alive' => /\ WillBeSeen'
                              /\ boot \notin {"hello", "event", "watch"}
                              /\ \A a \in Callers : rec[a] \notin Introducing
<1>1. Calm /\ g = gen /\ rec' = rec /\ gen' = gen /\ boot' = boot /\ Live(g)
  BY TaskFrame DEF Calm
<1>2. WillBeSeen => WillBeSeen'
  <2>1. Replaced' = Replaced
    BY <1>1 DEF Replaced
  <2>2. watch = "Disconnected" /\ unseen => watch' = "Disconnected" /\ unseen'
    BY TaskFrame
  <2>3. Dying => Dying' \/ (watch' = "Disconnected" /\ unseen')
    BY <1>1 DEF TaskStep, Winddown, Stop, Fault, ReaderFails, ReaderEmits,
              ReaderAnnounces, ReaderClears, ReaderCancelled, ReaderRoutes, ReaderGoes,
              WriterFails, WriterAnnounces, WriterCancelled, WriterGoes,
              HeartbeatTimesOut, HeartbeatAnnounces, HeartbeatEmits,
              HeartbeatStops, HeartbeatGoes, IInv, TypeOK, Announce, Dying
  <2> QED
    BY <2>1, <2>2, <2>3 DEF WillBeSeen
<1>3. ASSUME alive, ~alive'
      PROVE  /\ WillBeSeen'
             /\ boot \notin {"hello", "event", "watch"}
             /\ \A a \in Callers : rec[a] \notin Introducing
  <2>1. Fault(g)
    BY <1>3 DEF TaskStep, Winddown, Stop, ReaderEmits,
              ReaderAnnounces, ReaderClears, ReaderCancelled, ReaderRoutes,
              WriterAnnounces, WriterCancelled, HeartbeatAnnounces, HeartbeatEmits,
              HeartbeatStops
  <2>2. ~Unannounced
    BY <2>1 DEF Fault, ReaderFails, WriterFails, HeartbeatTimesOut, Failed, Calm
  <2>3. Dying'
    BY <1>1, <2>1 DEF Fault, ReaderFails, WriterFails, HeartbeatTimesOut, ReaderGoes,
              WriterGoes, HeartbeatGoes, Dying, IInv, TypeOK
  <2>4. \A a \in Callers : rec[a] \notin Unspawned
    BY <1>1 DEF IInv, OnlyCurrentLives, Live, Fresh
  <2> QED
    BY <2>2, <2>3, <2>4 DEF Unannounced, WillBeSeen, Introducing, Unspawned
<1> QED
  BY <1>1, <1>2, <1>3

\* What a reconnect does to what is still to be seen: it takes nothing back
\* unless it revives the client, overwrites a loss nobody has looked at, or is
\* the auto-reconnect task's own, which knows of the loss.
LEMMA RecWillBeSeen ==
  ASSUME IInv, DeadWhileRecovering, UpUntilAnnounced, NEW a \in Callers, RecMoves(a),
         Calm', ~alive'
  PROVE  /\ Calm /\ ~alive
         /\ WillBeSeen => WillBeSeen' \/ (a = "auto" /\ rec'[a] = "announceEvent")
         /\ watch' = watch \/ a = "auto"
              \/ ~(watch = "Disconnected" /\ auto \in {"check", "look"})
         /\ rec'[a] \notin {"connectedEvent", "ok"} \/ rec[a] = "connectedEvent"
<1>1. Calm /\ ~alive
  BY RecFrame DEF Calm
<1>2. rec[a] \notin Introducing
  BY <1>1 DEF UpUntilAnnounced
<1>3. ~RecSetsAlive(a)
  BY DEF RecSetsAlive
<1>4. reader' = reader /\ writer' = writer /\ heartbeat' = heartbeat
  BY <1>2, <1>3 DEF RecMoves, RecStep, RecLock, RecChecks, RecAnnouncesAttempt,
         RecStopsTasks, RecJoins, RecConnects, RecRechecks, RecSwapsWriter,
         RecClonesEvents, RecClearsShutdown, RecClearsRequests,
         RecSpawns, RecStores, RecHello, RecAnnounces, RecGoes, tasks, Introducing
<1>5. \A b \in Callers : b # a => rec'[b] = rec[b]
  BY RecOthers
<1>6. CASE rec[a] = "announce"
  <2>1. /\ watch' = "Reconnecting" /\ unseen' /\ gen' = gen
        /\ Swallows(a) /\ rec'[a] = "announceEvent"
    BY <1>6 DEF RecMoves, RecStep, RecLock, RecChecks, RecAnnouncesAttempt,
         RecStopsTasks, RecJoins, RecConnects, RecRechecks, RecSwapsWriter,
         RecClonesEvents, RecSetsAlive, RecClearsShutdown, RecClearsRequests,
         RecSpawns, RecStores, RecHello, RecAnnounces, RecGoes, IInv, TypeOK, Announce,
         links
  <2>2. a = "user" =>
          ~(watch = "Disconnected" /\ (unseen \/ auto \in {"check", "look"}))
    BY <2>1 DEF Swallows, Calm
  <2>3. a = "user" \/ a = "auto"
    BY DEF Callers
  <2>4. Dying' = Dying
    BY <1>4, <2>1 DEF Dying
  <2>5. ~Replaced
    BY <1>6, OthersAreOutside DEF Replaced, Locked, Window
  <2>6. CASE a = "user"
    BY <1>1, <2>1, <2>2, <2>4, <2>5, <2>6 DEF WillBeSeen
  <2>7. CASE a = "auto"
    BY <1>1, <2>1, <2>4, <2>5, <2>7 DEF WillBeSeen
  <2> QED
    BY <2>3, <2>6, <2>7
<1>7. CASE rec[a] # "announce"
  <2> USE DEF RecMoves, RecStep, RecLock, RecChecks, RecAnnouncesAttempt,
         RecStopsTasks, RecJoins, RecConnects, RecRechecks, RecSwapsWriter,
         RecClonesEvents, RecClearsShutdown, RecClearsRequests,
         RecSpawns, RecStores, RecHello, RecAnnounces, RecGoes
  <2>1. watch' = watch /\ unseen' = unseen
    BY <1>2, <1>3, <1>7 DEF conn, Introducing
  <2>2. gen' = gen \/ rec'[a] = "cloneEvents"
    BY <1>2, <1>3 DEF links, IInv, TypeOK, Introducing
  <2>3. /\ rec'[a] \notin {"connectedEvent", "ok"} \/ rec[a] = "connectedEvent"
        /\ rec[a] \in {"cloneEvents", "setAlive"} =>
             rec'[a] \in {"cloneEvents", "setAlive"}
    BY <1>1, <1>2, <1>3, <1>7 DEF IInv, TypeOK, Introducing
  <2> QED
    BY <1>1, <1>4, <1>5, <2>1, <2>2, <2>3 DEF WillBeSeen, Dying, Replaced
<1> QED
  BY <1>6, <1>7

\* While an attempt runs in its name, the auto-reconnect task waits for it.
LEMMA AttemptIsAwaited == ASSUME IInv, rec["auto"] # "idle" PROVE auto = "try"
  BY DEF IInv, ReconnectsAreSerial

LEMMA UpUntilAnnouncedKept ==
  ASSUME IInv, UpUntilAnnounced, [Next]_vars
  PROVE  UpUntilAnnounced'
<1> SUFFICES ASSUME Calm' PROVE UpUntilAnnounced'
  BY DEF UpUntilAnnounced
<1>1. CASE \E g \in Gens : TaskStep(g)
  <2> PICK g \in Gens : TaskStep(g)
    BY <1>1
  <2>1. CASE alive => alive'
    BY <2>1, TaskFrame, TaskWillBeSeen DEF UpUntilAnnounced
  <2>2. CASE alive /\ ~alive'
    BY <2>2, TaskFrame, TaskWillBeSeen DEF UpUntilAnnounced
  <2> QED
    BY <2>1, <2>2
<1>2. CASE BootStep
  <2>1. Calm /\ alive' = alive /\ rec' = rec
    BY <1>2, BootFrame DEF Calm
  <2>2. boot' \in {"hello", "event", "watch"} => boot \in {"hello", "event", "watch"}
    BY <1>2 DEF BootStep, BootHello, BootEmits, BootAnnounces, BootSpawnsAuto, BootGoes
  <2> QED
    BY <2>1, <2>2 DEF UpUntilAnnounced
<1>3. ASSUME NEW a \in Callers, RecMoves(a)
      PROVE  UpUntilAnnounced'
  <2>1. Calm /\ (alive => alive') /\ boot' = boot
    BY <1>3, RecFrame DEF Calm
  <2>2. rec'[a] \in Introducing => rec[a] \in Introducing \/ alive'
    BY <1>3 DEF RecMoves, RecStep, RecLock, RecChecks, RecAnnouncesAttempt,
         RecStopsTasks, RecJoins, RecConnects, RecRechecks, RecSwapsWriter,
         RecClonesEvents, RecSetsAlive, RecClearsShutdown, RecClearsRequests,
         RecSpawns, RecStores, RecHello, RecAnnounces, RecGoes, IInv, TypeOK,
         Introducing
  <2> QED
    BY <1>3, <2>1, <2>2, RecOthers DEF UpUntilAnnounced
<1>4. CASE UserReconnects \/ UserReconnected
  <2>1. /\ alive' = alive /\ races' = races /\ boot' = boot /\ dis' = dis
        /\ dropped' = dropped
        /\ \A b \in Callers : rec'[b] \in {rec[b], "lock", "idle"}
    BY <1>4 DEF UserReconnects, UserReconnected, RecGoes, IInv, TypeOK, flags
  <2> QED
    BY <2>1 DEF UpUntilAnnounced, Calm, Introducing
<1>5. CASE DisStarts \/ DisStep
  BY <1>5, DisFrame DEF Calm
<1>6. CASE AutoStep
  <2>1. Calm
    BY <1>6, AutoFrame DEF Calm
  <2> QED
    BY <1>6, <2>1, AutoFrame DEF UpUntilAnnounced, Introducing
<1>7. CASE NextEvent \/ Request \/ DropClient
  <2>1. Calm
    BY <1>7, UserFrame DEF Calm
  <2> QED
    BY <1>7, <2>1, UserFrame DEF UpUntilAnnounced
<1>8. CASE UNCHANGED vars
  BY <1>8 DEF vars, flags, procs, UpUntilAnnounced, Calm
<1> QED
  BY <1>1, <1>2, <1>3, <1>4, <1>5, <1>6, <1>7, <1>8 DEF Next, TaskStep, RecMoves

LEMMA NoticedKept ==
  ASSUME IInv, DeadWhileRecovering, LInv, [Next]_vars
  PROVE  Noticed'
<1> SUFFICES ASSUME Calm', ~alive' PROVE Noticed'
  BY DEF Noticed
<1>1. CASE \E g \in Gens : TaskStep(g)
  <2> PICK g \in Gens : TaskStep(g)
    BY <1>1
  <2>1. CASE alive
    BY <2>1, TaskWillBeSeen DEF Noticed, LInv
  <2>2. CASE ~alive
    <3>1. Calm /\ (WillBeSeen => WillBeSeen') /\ auto' = auto
      BY TaskWillBeSeen, TaskFrame DEF LInv
    <3>2. watch = "Disconnected" => watch' = "Disconnected"
      BY TaskFrame
    <3> QED
      BY <2>2, <3>1, <3>2 DEF Noticed, LInv
  <2> QED
    BY <2>1, <2>2
<1>2. CASE BootStep
  <2>1. Calm /\ ~alive /\ boot # "ready" /\ rec' = rec
        /\ gen' = gen /\ reader' = reader /\ writer' = writer /\ heartbeat' = heartbeat
    BY <1>2, BootFrame DEF Calm
  <2>2. auto = "none"
    BY <2>1 DEF IInv, ReconnectsAreSerial
  <2>3. WillBeSeen
    BY <2>1, <2>2 DEF LInv, Noticed
  <2>4. boot \notin {"hello", "event", "watch"}
    BY <2>1 DEF LInv, UpUntilAnnounced
  <2>5. watch' = watch /\ unseen' = unseen
    BY <1>2, <2>4 DEF BootStep, BootHello, BootEmits, BootAnnounces, BootSpawnsAuto,
              BootGoes, conn
  <2> QED
    BY <2>1, <2>3, <2>5 DEF Noticed, WillBeSeen, Dying, Replaced
<1>3. ASSUME NEW a \in Callers, RecMoves(a)
      PROVE  Noticed'
  <2>1. /\ Calm /\ ~alive /\ auto' = auto
        /\ WillBeSeen => WillBeSeen' \/ (a = "auto" /\ rec'[a] = "announceEvent")
        /\ watch' = watch \/ a = "auto"
             \/ ~(watch = "Disconnected" /\ auto \in {"check", "look"})
    BY <1>3, RecWillBeSeen, RecFrame DEF LInv
  <2>2. a = "auto" => auto = "try"
    <3>1. rec[a] # "idle"
      BY <1>3 DEF RecMoves, RecStep, RecLock, RecChecks, RecAnnouncesAttempt,
         RecStopsTasks, RecJoins, RecConnects, RecRechecks, RecSwapsWriter,
         RecClonesEvents, RecSetsAlive, RecClearsShutdown, RecClearsRequests,
         RecSpawns, RecStores, RecHello, RecAnnounces, RecGoes
    <3> QED
      BY <3>1, AttemptIsAwaited
  <2> QED
    BY <2>1, <2>2 DEF Noticed, LInv
<1>4. CASE UserReconnects \/ UserReconnected
  <2>1. /\ alive' = alive /\ races' = races /\ dis' = dis /\ dropped' = dropped
        /\ watch' = watch /\ unseen' = unseen /\ auto' = auto /\ gen' = gen
        /\ reader' = reader /\ writer' = writer /\ heartbeat' = heartbeat
        /\ rec["user"] \in {"idle", "ok", "err"} /\ rec'["auto"] = rec["auto"]
    BY <1>4 DEF UserReconnects, UserReconnected, RecGoes, IInv, TypeOK, flags, conn,
                tasks, links, Callers
  <2>2. Replaced => Replaced'
    BY <2>1 DEF Replaced, Callers
  <2> QED
    BY <2>1, <2>2 DEF Noticed, LInv, Calm, WillBeSeen, Dying
<1>5. CASE DisStarts \/ DisStep
  BY <1>5, DisFrame DEF Calm
<1>6. CASE AutoStep
  <2>1. Calm /\ ~alive
    BY <1>6, AutoFrame DEF Calm
  <2>2. Dying' = Dying
    BY <1>6, AutoFrame DEF Dying
  <2>3. Replaced => Replaced'
    BY <1>6 DEF AutoStep, AutoWakes, AutoSeesNoSender, AutoChecks, AutoLooks, AutoTries,
                AutoReturns, AutoGivesUp, AutoGoes, IInv, TypeOK, ReconnectsAreSerial,
                Callers, Replaced
  <2>4. CASE AutoReturns
    <3>1. auto = "try" /\ watch' = watch /\ unseen' = unseen
      BY <2>4 DEF AutoReturns, AutoGoes, conn
    <3>2. rec["auto"] = "ok" => WillBeSeen
      BY <2>1 DEF LInv, SeenAfterSuccess
    <3>3. WillBeSeen => WillBeSeen'
      BY <2>2, <2>3, <3>1 DEF WillBeSeen
    <3>4. rec["auto"] = "ok" \/ auto' \in {"sleep", "giveUp"}
      BY <2>4 DEF AutoReturns, AutoGoes
    <3> QED
      BY <3>2, <3>3, <3>4 DEF Noticed
  <2>5. CASE AutoWakes \/ AutoChecks \/ AutoLooks
    BY <2>1, <2>2, <2>3, <2>5 DEF AutoWakes, AutoChecks, AutoLooks, AutoGoes, LInv,
       Noticed, WillBeSeen, conn, Calm
  <2>6. CASE AutoSeesNoSender \/ AutoTries \/ AutoGivesUp
    BY <2>6 DEF AutoSeesNoSender, AutoTries, AutoGivesUp, AutoGoes, Noticed
  <2> QED
    BY <1>6, <2>4, <2>5, <2>6 DEF AutoStep
<1>7. CASE NextEvent \/ Request \/ DropClient
  <2>1. Calm /\ ~alive
    BY <1>7, UserFrame DEF Calm
  <2> QED
    BY <1>7, <2>1, UserFrame DEF LInv, Noticed, WillBeSeen, Dying, Replaced
<1>8. CASE UNCHANGED vars
  BY <1>8 DEF vars, flags, conn, links, tasks, procs, LInv, Noticed, Calm, WillBeSeen,
              Dying, Replaced
<1> QED
  BY <1>1, <1>2, <1>3, <1>4, <1>5, <1>6, <1>7, <1>8 DEF Next, TaskStep, RecMoves

LEMMA SeenAfterSuccessKept ==
  ASSUME IInv, DeadWhileRecovering, LInv, [Next]_vars
  PROVE  SeenAfterSuccess'
<1> SUFFICES ASSUME Calm', ~alive', rec'["auto"] \in {"connectedEvent", "ok"}
             PROVE  WillBeSeen'
  BY DEF SeenAfterSuccess
<1> "auto" \in Callers
  BY DEF Callers
<1>1. CASE \E g \in Gens : TaskStep(g)
  <2> PICK g \in Gens : TaskStep(g)
    BY <1>1
  <2>1. CASE alive
    BY <2>1, TaskWillBeSeen DEF LInv
  <2>2. CASE ~alive
    BY <2>2, TaskWillBeSeen, TaskFrame DEF LInv, SeenAfterSuccess
  <2> QED
    BY <2>1, <2>2
<1>2. CASE BootStep
  BY <1>2, BootFrame, AttemptIsAwaited DEF IInv, ReconnectsAreSerial
<1>3. ASSUME NEW a \in Callers, RecMoves(a)
      PROVE  WillBeSeen'
  <2>1. rec["auto"] \in {"connectedEvent", "ok"}
    BY <1>3, RecWillBeSeen, RecOthers DEF LInv
  <2> QED
    BY <1>3, <2>1, RecWillBeSeen DEF LInv, SeenAfterSuccess
<1>4. CASE UserReconnects \/ UserReconnected
  <2>1. /\ alive' = alive /\ races' = races /\ dis' = dis /\ dropped' = dropped
        /\ watch' = watch /\ unseen' = unseen /\ gen' = gen
        /\ reader' = reader /\ writer' = writer /\ heartbeat' = heartbeat
        /\ rec["user"] \in {"idle", "ok", "err"} /\ rec'["auto"] = rec["auto"]
    BY <1>4 DEF UserReconnects, UserReconnected, RecGoes, IInv, TypeOK, flags, conn,
                tasks, links, Callers
  <2>2. Replaced => Replaced'
    BY <2>1 DEF Replaced, Callers
  <2> QED
    BY <2>1, <2>2 DEF SeenAfterSuccess, LInv, Calm, WillBeSeen, Dying
<1>5. CASE DisStarts \/ DisStep
  BY <1>5, DisFrame DEF Calm
<1>6. CASE AutoStep
  BY <1>6, AttemptIsAwaited DEF AutoStep, AutoWakes, AutoSeesNoSender, AutoChecks,
                AutoLooks, AutoTries, AutoReturns, AutoGivesUp, AutoGoes, IInv, TypeOK
<1>7. CASE NextEvent \/ Request \/ DropClient
  <2>1. Calm /\ ~alive
    BY <1>7, UserFrame DEF Calm
  <2> QED
    BY <1>7, <2>1, UserFrame DEF LInv, SeenAfterSuccess, WillBeSeen, Dying, Replaced
<1>8. CASE UNCHANGED vars
  BY <1>8 DEF vars, flags, conn, links, tasks, procs, LInv, SeenAfterSuccess, Calm,
              WillBeSeen, Dying, Replaced
<1> QED
  BY <1>1, <1>2, <1>3, <1>4, <1>5, <1>6, <1>7, <1>8 DEF Next, TaskStep, RecMoves

\* From the failure of a connection to the auto-reconnect task's next look there
\* is always a task, a value in the watch, or a reconnect that carries the news.
THEOREM LossInvariance == Spec => [](IInv /\ SInv /\ LInv)
<1>1. Init => LInv
  BY DEF Init, LInv, UpUntilAnnounced, Noticed, SeenAfterSuccess, Introducing
<1>2. IInv /\ SInv /\ LInv /\ [Next]_vars => LInv'
  BY UpUntilAnnouncedKept, NoticedKept, SeenAfterSuccessKept DEF SInv, LInv
<1> QED
  BY <1>1, <1>2, SafetyInvariance, PTL DEF Spec

\* A lost connection does not go unnoticed by the auto-reconnect task: it never
\* sleeps with nothing left to wake it, unless the connection failed before it
\* was announced, a reconnect() of the user overwrote the news, or a disconnect()
\* came in the window of a reconnect.
THEOREM LossNoticed == Spec => []LossIsNoticed
<1>1. IInv /\ SInv /\ LInv => LossIsNoticed
  <2> SUFFICES ASSUME IInv, SInv, LInv, races = {}, LostUnnoticed
               PROVE  FALSE
    BY DEF LossIsNoticed
  <2> USE DEF LostUnnoticed
  <2>1. Calm
    BY DEF SInv, Halted, Undisturbed, Calm
  <2>2. ~Dying
    BY DEF IInv, TypeOK, Live, Dying
  <2>3. ~Replaced
    BY DEF Replaced
  <2> QED
    BY <2>1, <2>2, <2>3 DEF LInv, Noticed, WillBeSeen
<1> QED
  BY <1>1, LossInvariance, PTL

-----------------------------------------------------------------------------
(* The refinement of Connection                                            *)

Installing == \E a \in Callers : rec[a] \in {"cloneEvents", "setAlive"}

LEMMA PhaseCases ==
  /\ dis = "done" /\ Closing => Phase = "closed"
  /\ ~(dis = "done" /\ Closing) /\ alive => Phase = "up"
  /\ ~(dis = "done" /\ Closing) /\ ~alive /\ Installing => Phase = "fresh"
  /\ ~(dis = "done" /\ Closing) /\ ~alive /\ ~Installing => Phase = "lost"
  BY DEF Phase, Installing

\* The same of the next state.
LEMMA PhaseCasesNext ==
  /\ (dis = "done" /\ Closing)' => Phase' = "closed"
  /\ ~(dis = "done" /\ Closing)' /\ alive' => Phase' = "up"
  /\ ~(dis = "done" /\ Closing)' /\ ~alive' /\ Installing' => Phase' = "fresh"
  /\ ~(dis = "done" /\ Closing)' /\ ~alive' /\ ~Installing' => Phase' = "lost"
  BY DEF Phase, Installing

\* While disconnect() runs outside of the window, nothing is being installed.
LEMMA NoInstallWhileClosing ==
  ASSUME SInv, Closing
  PROVE  /\ ~Installing /\ \A a \in Callers : rec[a] \notin Window
         /\ dis = "done" => ~alive
  BY DEF SInv, Halted, Undisturbed, Closing, Installing, Window

\* A step that installs nothing and revives nothing is a loss, or shows nothing.
LEMMA PlainPhase ==
  ASSUME gen' = gen, alive' => alive, Installing' = Installing,
         dis' = dis, Closing' = Closing, SInv, alive \in BOOLEAN, alive' \in BOOLEAN
  PROVE  Link!Lose \/ UNCHANGED <<Phase, Closing, gen>>
<1>1. CASE dis = "done" /\ Closing
  BY <1>1, PhaseCases, PhaseCasesNext
<1>2. CASE ~(dis = "done" /\ Closing) /\ alive /\ ~alive'
  <2>1. ~Installing
    BY <1>2 DEF SInv, DeadWhileRecovering, Recovering, Installing
  <2>2. Phase = "up" /\ Phase' = "lost"
    BY <1>2, <2>1, PhaseCases, PhaseCasesNext
  <2> QED BY <2>2 DEF Link!Lose
<1>3. CASE ~(dis = "done" /\ Closing) /\ alive' = alive
  <2>1. Phase' = Phase
    BY <1>3, PhaseCases, PhaseCasesNext
  <2> QED BY <2>1
<1>4. alive' = alive \/ (alive /\ ~alive')
  OBVIOUS
<1> QED BY <1>1, <1>2, <1>3, <1>4

\* The reconnect that holds the lock is the only one that installs anything.
LEMMA NobodyElseInstalls ==
  ASSUME IInv, NEW a \in Callers, rec[a] \in Locked
  PROVE  \A b \in Callers : b # a => rec[b] \notin Locked
  BY DEF IInv, ReconnectsAreSerial

LEMMA SwapInstalls ==
  ASSUME IInv, SInv, NEW a \in Callers, RecSwapsWriter(a)
  PROVE  Link!Install
<1>1. /\ rec[a] = "swap" /\ rec' = [rec EXCEPT ![a] = "cloneEvents"]
      /\ gen' = gen + 1 /\ alive' = alive /\ dis' = dis /\ races' = races
  BY DEF RecSwapsWriter, RecGoes, flags
<1>2. ~Closing
  BY <1>1, NoInstallWhileClosing DEF Window
<1>3. Closing' = Closing
  BY <1>1 DEF Closing
<1>4. ~alive
  BY <1>1 DEF SInv, DeadWhileRecovering, Recovering
<1>5. ~Installing
  BY <1>1, NobodyElseInstalls DEF Installing, Locked, Window
<1>6. rec'[a] = "cloneEvents"
  BY <1>1 DEF IInv, TypeOK
<1>7. Installing'
  BY <1>6 DEF Installing
<1>8. Phase = "lost" /\ Phase' = "fresh"
  BY <1>1, <1>2, <1>3, <1>4, <1>5, <1>7, PhaseCases, PhaseCasesNext
<1> QED
  BY <1>1, <1>2, <1>3, <1>8 DEF Link!Install

LEMMA AliveOpens ==
  ASSUME IInv, SInv, NEW a \in Callers, RecSetsAlive(a)
  PROVE  Link!Open
<1>1. /\ rec[a] = "setAlive" /\ alive' = TRUE /\ gen' = gen /\ dis' = dis
      /\ races' = races
  BY DEF RecSetsAlive, RecGoes, links
<1>2. ~Closing
  BY <1>1, NoInstallWhileClosing DEF Window
<1>3. Closing' = Closing
  BY <1>1 DEF Closing
<1>4. ~alive
  BY <1>1 DEF SInv, DeadWhileRecovering, Recovering
<1>5. Installing
  BY <1>1 DEF Installing
<1>6. Phase = "fresh" /\ Phase' = "up"
  BY <1>1, <1>2, <1>3, <1>4, <1>5, PhaseCases, PhaseCasesNext
<1> QED
  BY <1>1, <1>2, <1>3, <1>6 DEF Link!Open

\* Any other step of a reconnect installs nothing.
LEMMA OtherRecSteps ==
  ASSUME IInv, NEW a \in Callers, RecMoves(a) \/ UserReconnects \/ UserReconnected,
         ~RecSwapsWriter(a), ~RecSetsAlive(a)
  PROVE  gen' = gen /\ alive' = alive /\ Installing' = Installing
<1> DEFINE I == {"cloneEvents", "setAlive"}
<1>1. gen' = gen /\ alive' = alive
  BY DEF RecMoves, RecStep, RecLock, RecChecks, RecAnnouncesAttempt,
         RecStopsTasks, RecJoins, RecConnects, RecRechecks,
         RecClonesEvents, RecClearsShutdown, RecClearsRequests,
         RecSpawns, RecStores, RecHello, RecAnnounces, UserReconnects,
         UserReconnected, links, flags
<1>2. \E b \in Callers, from, to \in RecLocs :
         RecGoes(b, from, to) /\ (from \in I <=> to \in I)
  <2>1. CASE RecLock(a) \/ RecChecks(a) \/ RecAnnouncesAttempt(a) \/ RecStopsTasks(a)
    BY <2>1 DEF RecLock, RecChecks, RecAnnouncesAttempt, RecStopsTasks, RecLocs,
                Locked, Window
  <2>2. CASE RecJoins(a) \/ RecConnects(a) \/ RecRechecks(a) \/ RecClonesEvents(a)
    BY <2>2 DEF RecJoins, RecConnects, RecRechecks, RecClonesEvents, RecLocs, Locked, Window
  <2>3. CASE RecClearsShutdown(a) \/ RecClearsRequests(a) \/ RecSpawns(a) \/ RecStores(a)
             \/ RecHello(a) \/ RecAnnounces(a)
    BY <2>3 DEF RecClearsShutdown, RecClearsRequests, RecSpawns, RecStores, RecHello,
                RecAnnounces, RecLocs, Locked, Window
  <2>4. CASE UserReconnects \/ UserReconnected
    BY <2>4 DEF UserReconnects, UserReconnected, RecLocs, Callers
  <2> QED
    BY <2>1, <2>2, <2>3, <2>4 DEF RecMoves, RecStep
<1>3. PICK b \in Callers, from, to \in RecLocs :
         RecGoes(b, from, to) /\ (from \in I <=> to \in I)
  BY <1>2
<1>4. /\ rec[b] \in I <=> rec'[b] \in I
      /\ \A c \in Callers : c # b => rec'[c] = rec[c]
  BY <1>3 DEF RecGoes, IInv, TypeOK
<1>5. Installing' = Installing
  <2>1. \A c \in Callers : rec[c] \in I <=> rec'[c] \in I
    BY <1>4
  <2> QED
    BY <2>1 DEF Installing
<1> QED
  BY <1>1, <1>5

LEMMA DisPhase ==
  ASSUME IInv, SInv, SInv', alive' \in BOOLEAN, DisStarts \/ DisStep
  PROVE  Link!Next \/ UNCHANGED <<Phase, Closing, gen>>
<1>1. /\ gen' = gen /\ rec' = rec /\ (alive' => alive) /\ dis' # "idle"
      /\ alive \in BOOLEAN
  BY DisFrame DEF IInv, TypeOK
<1>2. Installing' = Installing
  BY <1>1 DEF Installing
<1>3. CASE DisStarts
  <2>1. /\ dis = "idle" /\ dis' = "farewell" /\ alive' = alive
    BY <1>3 DEF DisStarts, DisGoes
  <2>2. ~Closing /\ Phase' = Phase
    BY <1>2, <2>1, PhaseCases, PhaseCasesNext DEF Closing
  <2>3. CASE Closing'
    <3>1. ~Installing'
      <4>1. \A a \in Callers : rec'[a] \notin Window
        BY <2>1, <2>3 DEF SInv, Halted, Undisturbed, Closing
      <4> QED BY <4>1 DEF Installing, Window
    <3>2. Phase # "fresh"
      BY <1>2, <2>1, <3>1, PhaseCases
    <3> QED
      BY <1>1, <2>2, <2>3, <3>2 DEF Link!Next, Link!Shut
  <2>4. CASE ~Closing'
    BY <1>1, <2>2, <2>4 DEF Closing
  <2> QED BY <2>3, <2>4
<1>4. CASE DisSwapsEvents
  <2>1. /\ dis = "swapEvents" /\ dis' = "done" /\ alive' = alive /\ races' = races
    BY <1>4 DEF DisSwapsEvents, DisGoes, flags
  <2>2. Closing' = Closing
    BY <2>1 DEF Closing
  <2>3. CASE Closing
    <3>1. ~Installing
      BY <2>3, NoInstallWhileClosing
    <3>2. ~alive
      BY <2>1, <2>3 DEF SInv, Halted, Undisturbed, Closing
    <3>3. Phase = "lost" /\ Phase' = "closed"
      BY <2>1, <2>2, <2>3, <3>1, <3>2, PhaseCases, PhaseCasesNext
    <3> QED
      BY <1>1, <2>2, <2>3, <3>3 DEF Link!Next, Link!Close
  <2>4. CASE ~Closing
    <3>1. Phase' = Phase
      BY <1>2, <2>1, <2>2, <2>4, PhaseCases, PhaseCasesNext
    <3> QED BY <1>1, <2>2, <3>1
  <2> QED BY <2>3, <2>4
<1>5. CASE DisStep /\ ~DisSwapsEvents
  <2>1. dis # "idle" /\ dis # "done" /\ dis' # "done" /\ races' = races
    BY <1>5 DEF DisStep, DisSaysFarewell, DisClearsAlive, DisStopsTasks, DisJoins,
                DisClearsRequests, DisAnnounces, DisEmits, DisGoes
  <2>2. Closing' = Closing
    BY <1>1, <2>1 DEF Closing
  <2>3. CASE alive' = alive
    <3>1. Phase' = Phase
      BY <1>2, <2>1, <2>3, PhaseCases, PhaseCasesNext
    <3> QED BY <1>1, <2>2, <3>1
  <2>4. CASE alive /\ ~alive'
    <3>1. ~Installing
      BY <2>4 DEF SInv, DeadWhileRecovering, Recovering, Installing
    <3>2. Phase = "up" /\ Phase' = "lost"
      BY <1>2, <2>1, <2>4, <3>1, PhaseCases, PhaseCasesNext
    <3> QED
      BY <1>1, <2>2, <3>2 DEF Link!Next, Link!Lose
  <2> QED BY <1>1, <2>3, <2>4
<1> QED BY <1>3, <1>4, <1>5

LEMMA StepConnection ==
  ASSUME IInv, SInv, IInv', SInv', [Next]_vars
  PROVE  [Link!Next]_(Link!vars)
<1>0. alive \in BOOLEAN /\ alive' \in BOOLEAN
  BY DEF IInv, TypeOK
<1> SUFFICES Link!Next \/ UNCHANGED <<Phase, Closing, gen>>
  BY DEF Link!vars
<1>1. CASE \E g \in Gens : TaskStep(g)
  <2>1. /\ gen' = gen /\ rec' = rec /\ dis' = dis /\ (alive' => alive)
        /\ races \subseteq races' /\ races' \subseteq races \cup {"announce"}
    BY <1>1, TaskFrame
  <2>2. Installing' = Installing /\ Closing' = Closing
    BY <2>1 DEF Installing, Closing
  <2> QED BY <1>0, <2>1, <2>2, PlainPhase DEF Link!Next
<1>2. CASE BootStep \/ NextEvent \/ Request \/ DropClient
  <2>1. gen' = gen /\ rec' = rec /\ dis' = dis /\ alive' = alive /\ races' = races
    BY <1>2, BootFrame, UserFrame
  <2>2. Installing' = Installing /\ Closing' = Closing
    BY <2>1 DEF Installing, Closing
  <2> QED BY <1>0, <2>1, <2>2, PlainPhase DEF Link!Next
<1>3. CASE \/ \E a \in Callers : RecMoves(a)
           \/ UserReconnects \/ UserReconnected
  <2>1. PICK a \in Callers : RecMoves(a) \/ UserReconnects \/ UserReconnected
    BY <1>3 DEF Callers
  <2>2. CASE RecSwapsWriter(a)
    BY <2>2, SwapInstalls DEF Link!Next
  <2>3. CASE RecSetsAlive(a)
    BY <2>3, AliveOpens DEF Link!Next
  <2>4. CASE ~RecSwapsWriter(a) /\ ~RecSetsAlive(a)
    <3>1. gen' = gen /\ alive' = alive /\ Installing' = Installing
      BY <2>1, <2>4, OtherRecSteps
    <3>2. dis' = dis /\ races \subseteq races' /\ races' \subseteq races \cup {"swallow"}
      BY <2>1, RecFrame
    <3>3. Closing' = Closing
      BY <3>2 DEF Closing
    <3> QED BY <1>0, <3>1, <3>2, <3>3, PlainPhase DEF Link!Next
  <2> QED BY <2>2, <2>3, <2>4
<1>4. CASE DisStarts \/ DisStep
  BY <1>0, <1>4, DisPhase
<1>5. CASE AutoStep
  <2>1. gen' = gen /\ alive' = alive /\ dis' = dis /\ races' = races
    BY <1>5, AutoFrame
  <2>2. Closing' = Closing
    BY <2>1 DEF Closing
  <2>3. \A b \in Callers : rec[b] \in {"cloneEvents", "setAlive"}
                             <=> rec'[b] \in {"cloneEvents", "setAlive"}
    BY <1>5 DEF AutoStep, AutoWakes, AutoSeesNoSender, AutoChecks, AutoLooks, AutoTries,
                AutoReturns, AutoGivesUp, AutoGoes, IInv, TypeOK, ReconnectsAreSerial
  <2>4. Installing' = Installing
    BY <2>3 DEF Installing
  <2> QED BY <1>0, <2>1, <2>2, <2>4, PlainPhase DEF Link!Next
<1>6. CASE UNCHANGED vars
  <2>1. gen' = gen /\ rec' = rec /\ dis' = dis /\ alive' = alive /\ races' = races
    BY <1>6 DEF vars, flags, links, procs
  <2>2. Installing' = Installing /\ Closing' = Closing
    BY <2>1 DEF Installing, Closing
  <2> QED BY <1>0, <2>1, <2>2, PlainPhase DEF Link!Next
<1> QED
  BY <1>1, <1>2, <1>3, <1>4, <1>5, <1>6 DEF Next, TaskStep, RecMoves

\* The client implements Connection: what is_connected() says is never true again
\* of a connection that was lost, becomes true only of a connection that has just
\* replaced write_tx, and never again once disconnect() is called, unless the call
\* fell into the window of a reconnect (client.rs: reconnect_with_attempt,
\* disconnect).
THEOREM ConnectionRefinement == Spec => ActsAsConnection
<1>1. Init => Link!Init
  <2> SUFFICES ASSUME Init PROVE Link!Init
    OBVIOUS
  <2>1. ~Closing /\ alive /\ gen = 1
    BY DEF Init, Closing
  <2>2. Phase = "up"
    BY <2>1, PhaseCases
  <2> QED BY <2>1, <2>2 DEF Link!Init
<1> QED
  BY <1>1, StepConnection, SafetyInvariance, PTL DEF Spec, ActsAsConnection, Link!Spec
=============================================================================
