--------------------- MODULE ConnectionLifecycleProofs ---------------------
(***************************************************************************)
(* Proofs about ConnectionLifecycle, for any number of connections and     *)
(* reconnect attempts, any event buffer and any calls of the user: at most *)
(* one connection has running tasks, and `alive` is set only after the     *)
(* tasks of every older connection have been joined.                       *)
(***************************************************************************)
EXTENDS ConnectionLifecycle, TLAPS

USE BoundsAssumption, ConfigAssumption, UserAssumption

-----------------------------------------------------------------------------
(* The initial state                                                       *)

LEMMA InitIInv == Init => IInv
<1> SUFFICES ASSUME Init PROVE IInv
  OBVIOUS
<1> USE DEF Init
<1>1. TypeOK
  <2>1. gen \in Gens /\ handles \in {0} \cup Gens /\ attempt \in 0 .. MaxAttempts
        /\ events \in 0 .. EventCap
    BY DEF Gens
  <2>2. /\ reader \in [Gens -> ReaderLocs]
        /\ writer \in [Gens -> WriterLocs]
        /\ heartbeat \in [Gens -> HeartbeatLocs]
        /\ rec \in [Callers -> RecLocs]
    BY DEF ReaderLocs, WriterLocs, HeartbeatLocs, RecLocs
  <2>3. boot \in BootLocs /\ dis \in DisLocs /\ auto \in AutoLocs
        /\ watch \in ConnectionStates
    BY DEF BootLocs, DisLocs, AutoLocs, ConnectionStates
  <2> QED
    BY <2>1, <2>2, <2>3 DEF TypeOK
<1>2. ReconnectsAreSerial
  BY DEF ReconnectsAreSerial, Callers, Locked, Window
<1>3. OnlyCurrentLives
  BY DEF OnlyCurrentLives, Fresh, Callers, Gens, Unspawned
<1>4. HandlesAreComplete
  BY DEF HandlesAreComplete, Callers, Unspawned
<1> QED
  BY <1>1, <1>2, <1>3, <1>4 DEF IInv

-----------------------------------------------------------------------------
(* A step of the tasks of one connection                                   *)

\* The control state that the tasks do not touch.
control == <<gen, handles, rec, auto, boot>>

\* No task of another connection moves, and the one that moves was running.
Moves(g) ==
    /\ UNCHANGED control
    /\ Live(g)
    /\ \A h \in Gens : h # g =>
          reader'[h] = reader[h] /\ writer'[h] = writer[h] /\ heartbeat'[h] = heartbeat[h]

\* A step of the running tasks cannot revive a connection.
LEMMA MoveKeepsShape ==
  ASSUME IInv, NEW g \in Gens, Moves(g)
  PROVE  ReconnectsAreSerial' /\ OnlyCurrentLives' /\ HandlesAreComplete'
<1> USE DEF IInv, Moves, control
<1>1. \A h \in Gens : (Live(h)' => Live(h)) /\ (Fresh(h) => Fresh(h)')
  BY DEF Live, Fresh
<1>2. ReconnectsAreSerial'
  BY DEF ReconnectsAreSerial
<1>3. OnlyCurrentLives'
  BY <1>1 DEF OnlyCurrentLives, TypeOK
<1>4. HandlesAreComplete'
  BY <1>1 DEF HandlesAreComplete, TypeOK
<1> QED
  BY <1>2, <1>3, <1>4

LEMMA ReaderKeepsIInv ==
  ASSUME IInv, NEW g \in Gens,
         ReaderFails(g) \/ ReaderEmits(g) \/ ReaderAnnounces(g) \/ ReaderClears(g)
           \/ ReaderCancelled(g) \/ ReaderRoutes(g)
  PROVE  IInv'
<1> USE DEF ReaderFails, ReaderEmits, ReaderAnnounces, ReaderClears, ReaderCancelled,
            ReaderRoutes, ReaderGoes
<1>1. Moves(g)
  BY DEF Moves, Live, control, IInv, TypeOK, links, procs
<1>2. TypeOK'
  <2>1. reader' \in [Gens -> ReaderLocs] /\ waiting' \subseteq Gens
    BY DEF IInv, TypeOK, ReaderLocs, ClearUnlessAborted
  <2>2. watch' \in ConnectionStates /\ unseen' \in BOOLEAN /\ alive' \in BOOLEAN
    BY DEF IInv, TypeOK, Announce, ConnectionStates, conn
  <2>3. events' \in 0 .. EventCap
    BY DEF IInv, TypeOK, TaskEmits, Offer
  <2>4. races' \subseteq {"disconnect", "announce", "swallow"}
    BY DEF IInv, TypeOK, Failed
  <2> QED
    BY <2>1, <2>2, <2>3, <2>4 DEF IInv, TypeOK, links, procs
<1> QED
  BY <1>1, <1>2, MoveKeepsShape DEF IInv

LEMMA WriterKeepsIInv ==
  ASSUME IInv, NEW g \in Gens,
         WriterFails(g) \/ WriterAnnounces(g) \/ WriterCancelled(g)
  PROVE  IInv'
<1> USE DEF WriterFails, WriterAnnounces, WriterCancelled, WriterGoes
<1>1. Moves(g)
  BY DEF Moves, Live, control, IInv, TypeOK, links, procs
<1>2. TypeOK'
  <2>1. writer' \in [Gens -> WriterLocs]
    BY DEF IInv, TypeOK, WriterLocs
  <2>2. watch' \in ConnectionStates /\ unseen' \in BOOLEAN /\ alive' \in BOOLEAN
    BY DEF IInv, TypeOK, Announce, ConnectionStates, conn
  <2>3. races' \subseteq {"disconnect", "announce", "swallow"}
    BY DEF IInv, TypeOK, Failed
  <2> QED
    BY <2>1, <2>2, <2>3 DEF IInv, TypeOK, links, procs, evs
<1> QED
  BY <1>1, <1>2, MoveKeepsShape DEF IInv

LEMMA HeartbeatKeepsIInv ==
  ASSUME IInv, NEW g \in Gens,
         HeartbeatTimesOut(g) \/ HeartbeatAnnounces(g) \/ HeartbeatEmits(g)
           \/ HeartbeatStops(g)
  PROVE  IInv'
<1> USE DEF HeartbeatTimesOut, HeartbeatAnnounces, HeartbeatEmits, HeartbeatStops,
            HeartbeatGoes
<1>1. Moves(g)
  BY DEF Moves, Live, control, IInv, TypeOK, links, procs
<1>2. TypeOK'
  <2>1. heartbeat' \in [Gens -> HeartbeatLocs]
    BY DEF IInv, TypeOK, HeartbeatLocs
  <2>2. watch' \in ConnectionStates /\ unseen' \in BOOLEAN /\ alive' \in BOOLEAN
    BY DEF IInv, TypeOK, Announce, ConnectionStates, conn
  <2>3. events' \in 0 .. EventCap
    BY DEF IInv, TypeOK, TaskEmits, Offer
  <2>4. races' \subseteq {"disconnect", "announce", "swallow"}
    BY DEF IInv, TypeOK, Failed
  <2> QED
    BY <2>1, <2>2, <2>3, <2>4 DEF IInv, TypeOK, links, procs
<1> QED
  BY <1>1, <1>2, MoveKeepsShape DEF IInv

-----------------------------------------------------------------------------
(* Steps that leave connections, handles and reconnects alone              *)

\* What OnlyCurrentLives and HandlesAreComplete speak about.
shape == <<gen, handles, tasks, rec>>

LEMMA SameShape ==
  ASSUME IInv, UNCHANGED shape
  PROVE  OnlyCurrentLives' /\ HandlesAreComplete'
  BY DEF shape, tasks, IInv, OnlyCurrentLives, HandlesAreComplete, Live, Fresh

\* connect(): the auto-reconnect task is spawned only if it may try.
LEMMA BootKeepsIInv == IInv /\ BootStep => IInv'
<1> SUFFICES ASSUME IInv, BootStep PROVE IInv'
  OBVIOUS
<1> USE DEF BootStep, BootHello, BootEmits, BootAnnounces, BootSpawnsAuto, BootGoes
<1>1. TypeOK'
  <2>1. boot' \in BootLocs /\ auto' \in AutoLocs
    BY DEF IInv, TypeOK, BootLocs, AutoLocs
  <2>2. watch' \in ConnectionStates /\ unseen' \in BOOLEAN
    BY DEF IInv, TypeOK, Announce, ConnectionStates, conn
  <2>3. events' \in 0 .. EventCap
    BY DEF IInv, TypeOK, Offer
  <2> QED
    BY <2>1, <2>2, <2>3 DEF IInv, TypeOK, flags, links, tasks
<1>2. UNCHANGED shape
  BY DEF shape, links
<1>3. ReconnectsAreSerial'
  BY DEF IInv, ReconnectsAreSerial
<1> QED
  BY <1>1, <1>2, <1>3, SameShape DEF IInv

\* disconnect() up to the join and after it
LEMMA DisKeepsIInv ==
  ASSUME IInv,
         DisStarts \/ DisSaysFarewell \/ DisClearsAlive \/ DisStopsTasks
           \/ DisClearsRequests \/ DisAnnounces \/ DisEmits \/ DisSwapsEvents
  PROVE  IInv'
<1> USE DEF DisStarts, DisSaysFarewell, DisClearsAlive, DisStopsTasks,
            DisClearsRequests, DisAnnounces, DisEmits, DisSwapsEvents, DisGoes
<1>1. TypeOK'
  <2>1. dis' \in DisLocs /\ waiting' \subseteq Gens
    BY DEF IInv, TypeOK, DisLocs
  <2>2. /\ watch' \in ConnectionStates /\ unseen' \in BOOLEAN
        /\ alive' \in BOOLEAN /\ shuttingDown' \in BOOLEAN /\ eventsOpen' \in BOOLEAN
    BY DEF IInv, TypeOK, Announce, ConnectionStates, conn, flags, evs
  <2>3. events' \in 0 .. EventCap
    BY DEF IInv, TypeOK, ClientEmits, Offer, evs
  <2>4. races' \subseteq {"disconnect", "announce", "swallow"}
    BY DEF IInv, TypeOK
  <2>5. UNCHANGED <<taskEvents, gen, handles, reader, writer, heartbeat, boot, rec,
                    auto, attempt, dropped>>
    BY DEF evs, tasks
  <2> QED
    BY <2>1, <2>2, <2>3, <2>4, <2>5 DEF IInv, TypeOK
<1>2. UNCHANGED shape
  BY DEF shape
<1>3. ReconnectsAreSerial'
  BY DEF IInv, ReconnectsAreSerial
<1> QED
  BY <1>1, <1>2, <1>3, SameShape DEF IInv

\* disconnect()'s join: nothing runs when task_handles is emptied.
LEMMA DisJoinsKeepsIInv == IInv /\ DisJoins => IInv'
<1> SUFFICES ASSUME IInv, DisJoins PROVE IInv'
  OBVIOUS
<1> USE DEF DisJoins, DisGoes
<1>1. TypeOK'
  BY DEF IInv, TypeOK, DisLocs, flags, conn, evs, tasks
<1>2. ReconnectsAreSerial'
  BY DEF IInv, ReconnectsAreSerial
<1>3. /\ \A g \in Gens : Live(g)' = Live(g) /\ Fresh(g)' = Fresh(g)
      /\ gen' = gen /\ rec' = rec /\ handles' = 0
  BY DEF tasks, Live, Fresh
<1>4. OnlyCurrentLives'
  BY <1>3 DEF IInv, OnlyCurrentLives, TypeOK
<1>5. HandlesAreComplete'
  BY <1>3 DEF IInv, HandlesAreComplete, TypeOK
<1> QED
  BY <1>1, <1>2, <1>4, <1>5 DEF IInv

\* The user's other calls
LEMMA UserKeepsIInv == IInv /\ (NextEvent \/ Request \/ DropClient) => IInv'
<1> SUFFICES ASSUME IInv, NextEvent \/ Request \/ DropClient PROVE IInv'
  OBVIOUS
<1> USE DEF NextEvent, Request, DropClient
<1>1. TypeOK'
  <2>1. waiting' \subseteq Gens
    BY DEF IInv, TypeOK
  <2>3. dropped' \in BOOLEAN
    BY DEF IInv, TypeOK, procs
  <2>4. events' \in 0 .. EventCap
    BY DEF IInv, TypeOK, evs
  <2>2. UNCHANGED <<flags, conn, eventsOpen, taskEvents, links, tasks, boot, rec, dis,
                    auto, attempt, races>>
    BY DEF procs, evs
  <2> QED
    BY <2>1, <2>2, <2>3, <2>4 DEF IInv, TypeOK, flags, conn, links, tasks
<1>2. UNCHANGED shape /\ UNCHANGED <<auto, boot>>
  BY DEF shape, links, procs
<1>3. ReconnectsAreSerial'
  BY <1>2 DEF IInv, ReconnectsAreSerial, shape
<1> QED
  BY <1>1, <1>2, <1>3, SameShape DEF IInv

-----------------------------------------------------------------------------
(* Steps of reconnect_with_attempt()                                       *)

\* Where task_handles is empty because the old tasks were joined.
Joined == {"tls", "recheck", "swap", "store"} \cup Unspawned

\* A reconnect goes from one location to another and touches neither the tasks,
\* nor task_handles, nor write_tx: enough is known where it arrives if it was
\* known where it came from.
LEMMA PlainRecStep ==
  ASSUME IInv, NEW a \in Callers, NEW from, NEW to,
         RecGoes(a, from, to), UNCHANGED <<links, tasks>>,
         from = "idle" => a = "user",
         to \in Locked => from \in Locked \/ \A b \in Callers : rec[b] \notin Locked,
         to \in Unspawned => from \in Unspawned,
         to \in {"recheck", "swap"} => from = "recheck" \/ gen < MaxGen,
         to \in Joined => from \in Joined,
         from # "store", to # "store"
  PROVE  ReconnectsAreSerial' /\ OnlyCurrentLives' /\ HandlesAreComplete'
<1>1. /\ \A b \in Callers : rec'[b] = IF b = a THEN to ELSE rec[b]
      /\ rec[a] = from
      /\ gen' = gen /\ handles' = handles /\ auto' = auto /\ boot' = boot
      /\ reader' = reader /\ writer' = writer /\ heartbeat' = heartbeat
  BY DEF RecGoes, IInv, TypeOK, links, tasks
<1>2. ReconnectsAreSerial'
  BY <1>1 DEF IInv, ReconnectsAreSerial, Callers
<1>3. \A g \in Gens : Live(g)' = Live(g) /\ Fresh(g)' = Fresh(g)
  BY <1>1 DEF Live, Fresh
<1>4. OnlyCurrentLives'
  BY <1>1, <1>3 DEF IInv, OnlyCurrentLives, TypeOK
<1>5. HandlesAreComplete'
  BY <1>1, <1>3 DEF IInv, HandlesAreComplete, TypeOK, Joined
<1> QED
  BY <1>2, <1>4, <1>5

\* Every step of a reconnect keeps the types.
LEMMA RecKeepsTypes ==
  ASSUME IInv, NEW a \in Callers,
         RecStep(a) \/ RecConnects(a) \/ UserReconnects \/ UserReconnected
  PROVE  TypeOK'
<1> USE DEF RecGoes, RecStep, UserReconnects, UserReconnected, RecLock, RecChecks,
            RecAnnouncesAttempt, RecStopsTasks, RecJoins, RecConnects, RecRechecks,
            RecSwapsWriter, RecClonesEvents, RecSetsAlive, RecClearsShutdown,
            RecClearsRequests, RecSpawns, RecStores, RecHello, RecAnnounces
<1>1. rec' \in [Callers -> RecLocs]
  BY DEF IInv, TypeOK, RecLocs, Locked, Window, Callers
<1>2. UNCHANGED <<boot, dis, auto, attempt, dropped>>
  OBVIOUS
<1>3. alive' \in BOOLEAN /\ shuttingDown' \in BOOLEAN
  BY DEF IInv, TypeOK, flags
<1>4. watch' \in ConnectionStates /\ unseen' \in BOOLEAN
  BY DEF IInv, TypeOK, Announce, ConnectionStates, conn
<1>5. events' \in 0 .. EventCap
  BY DEF IInv, TypeOK, ClientEmits, Offer, evs
<1>6. eventsOpen' \in BOOLEAN /\ taskEvents' \in BOOLEAN /\ waiting' \subseteq Gens
  BY DEF IInv, TypeOK, evs
<1>7. races' \subseteq {"disconnect", "announce", "swallow"}
  BY DEF IInv, TypeOK, Swallows
<1>8. gen' \in Gens /\ handles' \in {0} \cup Gens
  BY DEF IInv, TypeOK, OnlyCurrentLives, Gens, links
<1>9. /\ reader' \in [Gens -> ReaderLocs]
      /\ writer' \in [Gens -> WriterLocs]
      /\ heartbeat' \in [Gens -> HeartbeatLocs]
  BY DEF IInv, TypeOK, ReaderLocs, WriterLocs, HeartbeatLocs, tasks
<1> QED
  BY <1>1, <1>2, <1>3, <1>4, <1>5, <1>6, <1>7, <1>8, <1>9 DEF IInv, TypeOK

\* The steps that only move the reconnect on
LEMMA PlainRecKeepsIInv ==
  ASSUME IInv, NEW a \in Callers,
         \/ RecLock(a) \/ RecChecks(a) \/ RecAnnouncesAttempt(a) \/ RecStopsTasks(a)
         \/ RecConnects(a) \/ RecRechecks(a) \/ RecClonesEvents(a) \/ RecSetsAlive(a)
         \/ RecClearsShutdown(a) \/ RecClearsRequests(a) \/ RecHello(a)
         \/ RecAnnounces(a) \/ UserReconnects \/ UserReconnected
  PROVE  IInv'
<1> USE DEF Locked, Window, Unspawned, Joined
<1>1. TypeOK'
  BY RecKeepsTypes DEF RecStep
<1>2. UNCHANGED <<links, tasks>>
  BY DEF RecLock, RecChecks, RecAnnouncesAttempt, RecStopsTasks, RecConnects,
         RecRechecks, RecClonesEvents, RecSetsAlive, RecClearsShutdown,
         RecClearsRequests, RecHello, RecAnnounces, UserReconnects, UserReconnected
<1>3. CASE RecLock(a)
  BY <1>1, <1>2, <1>3, PlainRecStep DEF IInv, RecLock
<1>4. CASE RecChecks(a)
  BY <1>1, <1>2, <1>4, PlainRecStep DEF IInv, RecChecks
<1>5. CASE RecAnnouncesAttempt(a)
  BY <1>1, <1>2, <1>5, PlainRecStep DEF IInv, RecAnnouncesAttempt
<1>6. CASE RecStopsTasks(a)
  BY <1>1, <1>2, <1>6, PlainRecStep DEF IInv, RecStopsTasks
<1>7. CASE RecConnects(a)
  BY <1>1, <1>2, <1>7, PlainRecStep DEF IInv, RecConnects
<1>8. CASE RecRechecks(a)
  BY <1>1, <1>2, <1>8, PlainRecStep DEF IInv, RecRechecks
<1>9. CASE RecClonesEvents(a)
  BY <1>1, <1>2, <1>9, PlainRecStep DEF IInv, RecClonesEvents
<1>10. CASE RecSetsAlive(a)
  BY <1>1, <1>2, <1>10, PlainRecStep DEF IInv, RecSetsAlive
<1>11. CASE RecClearsShutdown(a)
  BY <1>1, <1>2, <1>11, PlainRecStep DEF IInv, RecClearsShutdown
<1>12. CASE RecClearsRequests(a)
  BY <1>1, <1>2, <1>12, PlainRecStep DEF IInv, RecClearsRequests
<1>13. CASE RecHello(a)
  BY <1>1, <1>2, <1>13, PlainRecStep DEF IInv, RecHello
<1>14. CASE RecAnnounces(a)
  BY <1>1, <1>2, <1>14, PlainRecStep DEF IInv, RecAnnounces
<1>15. CASE UserReconnects
  BY <1>1, <1>2, <1>15, PlainRecStep DEF IInv, UserReconnects, Callers
<1>16. CASE UserReconnected
  BY <1>1, <1>2, <1>16, PlainRecStep DEF IInv, UserReconnected, Callers
<1> QED
  BY <1>3, <1>4, <1>5, <1>6, <1>7, <1>8, <1>9, <1>10, <1>11, <1>12, <1>13, <1>14,
     <1>15, <1>16

\* Whoever is between the join and the store of the handles holds the lock, so
\* no other reconnect is there.
LEMMA OthersAreOutside ==
  ASSUME IInv, NEW a \in Callers, rec[a] \in Locked
  PROVE  \A b \in Callers : b # a => rec[b] \notin Locked
  BY DEF IInv, ReconnectsAreSerial

\* The serialisation survives any step of a reconnect that holds the lock.
LEMMA LockedKeepsSerial ==
  ASSUME IInv, NEW a \in Callers, NEW from \in Locked, NEW to, RecGoes(a, from, to)
  PROVE  ReconnectsAreSerial'
<1>1. /\ \A b \in Callers : rec'[b] = IF b = a THEN to ELSE rec[b]
      /\ rec[a] = from /\ auto' = auto /\ boot' = boot
  BY DEF RecGoes, IInv, TypeOK
<1>2. from # "idle"
  BY DEF Locked, Window
<1> QED
  BY <1>1, <1>2 DEF IInv, ReconnectsAreSerial, Callers

\* The join: nothing runs any more when task_handles is emptied.
LEMMA RecJoinsKeepsIInv == ASSUME IInv, NEW a \in Callers, RecJoins(a) PROVE IInv'
<1> USE DEF RecJoins
<1>1. TypeOK'
  BY RecKeepsTypes DEF RecStep
<1>2. ReconnectsAreSerial'
  BY LockedKeepsSerial DEF Locked
<1>3. /\ \A b \in Callers : rec'[b] = IF b = a THEN "tls" ELSE rec[b]
      /\ rec[a] = "join" /\ gen' = gen /\ handles' = 0
      /\ reader' = reader /\ writer' = writer /\ heartbeat' = heartbeat
  BY DEF RecGoes, IInv, TypeOK, tasks
<1>4. \A g \in Gens : Live(g)' = Live(g) /\ Fresh(g)' = Fresh(g)
  BY <1>3 DEF Live, Fresh
<1>5. OnlyCurrentLives'
  BY <1>3, <1>4 DEF IInv, OnlyCurrentLives, TypeOK, Unspawned
<1>6. HandlesAreComplete'
  <2>1. \A b \in Callers : rec[b] # "store"
    BY <1>3, OthersAreOutside DEF Locked, Window
  <2> QED
    BY <1>3, <1>4, <2>1 DEF IInv, HandlesAreComplete, TypeOK
<1> QED
  BY <1>1, <1>2, <1>5, <1>6 DEF IInv

\* write_tx moves to a connection that has no tasks yet, and the one it leaves
\* has none any more.
LEMMA RecSwapsWriterKeepsIInv ==
  ASSUME IInv, NEW a \in Callers, RecSwapsWriter(a)
  PROVE  IInv'
<1> USE DEF RecSwapsWriter
<1>1. TypeOK'
  BY RecKeepsTypes DEF RecStep
<1>2. ReconnectsAreSerial'
  BY LockedKeepsSerial DEF Locked, Window
<1>3. /\ \A b \in Callers : rec'[b] = IF b = a THEN "cloneEvents" ELSE rec[b]
      /\ rec[a] = "swap" /\ gen' = gen + 1 /\ handles' = handles
      /\ reader' = reader /\ writer' = writer /\ heartbeat' = heartbeat
  BY DEF RecGoes, IInv, TypeOK, tasks
<1>4. \A g \in Gens : Live(g)' = Live(g) /\ Fresh(g)' = Fresh(g)
  BY <1>3 DEF Live, Fresh
<1>5. \A b \in Callers : b # a => rec[b] \notin Locked
  BY <1>3, OthersAreOutside DEF Locked, Window
<1>6. handles = 0 /\ ~Live(gen) /\ gen < MaxGen /\ gen + 1 \in Gens
  BY <1>3, <1>5 DEF IInv, HandlesAreComplete, OnlyCurrentLives, TypeOK, Gens, Locked,
                    Window
<1>7. Fresh(gen + 1) /\ ~Live(gen + 1)
  BY <1>6 DEF IInv, OnlyCurrentLives, TypeOK, Gens, Fresh, Live
<1>8. OnlyCurrentLives'
  <2>1. \A g \in Gens : (g < gen + 1 => ~Live(g)) /\ (g > gen + 1 => Fresh(g))
    BY <1>6 DEF IInv, OnlyCurrentLives, TypeOK, Gens
  <2>2. \A b \in Callers : rec'[b] \notin {"recheck", "swap"}
    BY <1>3, <1>5 DEF Locked, Window
  <2>3. Fresh(gen)'
    BY <1>3, <1>7 DEF Fresh
  <2> QED
    BY <1>3, <1>4, <2>1, <2>2, <2>3 DEF OnlyCurrentLives
<1>9. HandlesAreComplete'
  <2>1. ~Live(gen)'
    BY <1>3, <1>7 DEF Live
  <2> QED
    BY <1>3, <1>6, <2>1 DEF HandlesAreComplete
<1> QED
  BY <1>1, <1>2, <1>8, <1>9 DEF IInv

\* The new tasks are spawned: they are the only ones.
LEMMA RecSpawnsKeepsIInv == ASSUME IInv, NEW a \in Callers, RecSpawns(a) PROVE IInv'
<1> USE DEF RecSpawns
<1>1. TypeOK'
  BY RecKeepsTypes DEF RecStep
<1>2. ReconnectsAreSerial'
  BY LockedKeepsSerial DEF Locked, Window
<1>3. /\ \A b \in Callers : rec'[b] = IF b = a THEN "store" ELSE rec[b]
      /\ rec[a] = "spawn" /\ gen' = gen /\ handles' = handles
  BY DEF RecGoes, IInv, TypeOK, links
<1>4. \A g \in Gens : g # gen => Live(g)' = Live(g) /\ Fresh(g)' = Fresh(g)
  BY DEF IInv, TypeOK, Live, Fresh
<1>5. \A b \in Callers : b # a => rec[b] \notin Locked
  BY <1>3, OthersAreOutside DEF Locked, Window
<1>6. OnlyCurrentLives'
  BY <1>3, <1>4, <1>5 DEF IInv, OnlyCurrentLives, TypeOK, Gens, Unspawned, Locked, Window
<1>7. HandlesAreComplete'
  BY <1>3 DEF IInv, HandlesAreComplete, Unspawned
<1> QED
  BY <1>1, <1>2, <1>6, <1>7 DEF IInv

\* task_handles learns of the new tasks.
LEMMA RecStoresKeepsIInv == ASSUME IInv, NEW a \in Callers, RecStores(a) PROVE IInv'
<1> USE DEF RecStores
<1>1. TypeOK'
  BY RecKeepsTypes DEF RecStep
<1>2. ReconnectsAreSerial'
  BY LockedKeepsSerial DEF Locked, Window
<1>3. /\ \A b \in Callers : rec'[b] = IF b = a THEN "hello" ELSE rec[b]
      /\ rec[a] = "store" /\ gen' = gen /\ handles' = gen
      /\ reader' = reader /\ writer' = writer /\ heartbeat' = heartbeat
  BY DEF RecGoes, IInv, TypeOK, tasks
<1>4. \A g \in Gens : Live(g)' = Live(g) /\ Fresh(g)' = Fresh(g)
  BY <1>3 DEF Live, Fresh
<1>5. \A b \in Callers : b # a => rec[b] \notin Locked
  BY <1>3, OthersAreOutside DEF Locked, Window
<1>6. OnlyCurrentLives'
  BY <1>3, <1>4 DEF IInv, OnlyCurrentLives, TypeOK, Unspawned
<1>7. HandlesAreComplete'
  <2>1. gen # 0
    BY DEF IInv, TypeOK, Gens
  <2> QED
    BY <1>3, <1>5, <2>1 DEF HandlesAreComplete, Locked, Window, Unspawned
<1> QED
  BY <1>1, <1>2, <1>6, <1>7 DEF IInv

-----------------------------------------------------------------------------
(* The auto-reconnect task                                                 *)

\* Its steps apart from the start and the end of an attempt
LEMMA AutoKeepsIInv ==
  ASSUME IInv,
         AutoWakes \/ AutoSeesNoSender \/ AutoChecks \/ AutoLooks \/ AutoGivesUp
  PROVE  IInv'
<1> USE DEF AutoWakes, AutoSeesNoSender, AutoChecks, AutoLooks, AutoGivesUp, AutoGoes
<1>1. auto # "none" /\ auto # "try" /\ auto' # "try"
  OBVIOUS
<1>2. rec["auto"] = "idle" /\ boot = "ready" /\ MaxAttempts > 0
  BY <1>1 DEF IInv, ReconnectsAreSerial
<1>3. TypeOK'
  <2>1. auto' \in AutoLocs /\ attempt' \in 0 .. MaxAttempts
    BY <1>2 DEF IInv, TypeOK, AutoLocs, Retrying
  <2>2. watch' \in ConnectionStates /\ unseen' \in BOOLEAN
    BY DEF IInv, TypeOK, Announce, ConnectionStates, conn
  <2>3. events' \in 0 .. EventCap
    BY DEF IInv, TypeOK, ClientEmits, Offer
  <2> QED
    BY <2>1, <2>2, <2>3 DEF IInv, TypeOK, flags, links, tasks
<1>4. UNCHANGED shape
  BY DEF shape, links
<1>5. ReconnectsAreSerial'
  BY <1>2 DEF IInv, ReconnectsAreSerial
<1> QED
  BY <1>3, <1>4, <1>5, SameShape DEF IInv

\* The start and the end of an attempt: reconnect_with_attempt() is called when
\* none runs in the task's name, and has given the lock back when it returns.
LEMMA AttemptKeepsIInv == ASSUME IInv, AutoTries \/ AutoReturns PROVE IInv'
<1> USE DEF AutoTries, AutoReturns, AutoGoes
<1>1. TypeOK'
  <2>1. auto' \in AutoLocs /\ attempt' \in 0 .. MaxAttempts
    BY DEF IInv, TypeOK, AutoLocs, Retrying
  <2>2. rec' \in [Callers -> RecLocs]
    BY DEF IInv, TypeOK, RecLocs
  <2> QED
    BY <2>1, <2>2 DEF IInv, TypeOK, flags, conn, links, tasks
<1>2. /\ \A b \in Callers : b # "auto" => rec'[b] = rec[b]
      /\ rec'["auto"] \in {"lock", "idle"}
      /\ rec["auto"] \in {"idle", "ok", "err"}
      /\ auto' # "try" => rec'["auto"] = "idle"
      /\ boot' = boot /\ auto # "none"
  BY DEF IInv, TypeOK, ReconnectsAreSerial, Callers
<1>3. ReconnectsAreSerial'
  BY <1>2 DEF IInv, ReconnectsAreSerial, Callers, Locked, Window
<1>4. /\ gen' = gen /\ handles' = handles
      /\ \A g \in Gens : Live(g)' = Live(g) /\ Fresh(g)' = Fresh(g)
  BY DEF links, tasks, Live, Fresh
<1>5. OnlyCurrentLives'
  BY <1>2, <1>4 DEF IInv, OnlyCurrentLives, TypeOK, Callers, Unspawned
<1>6. HandlesAreComplete'
  BY <1>2, <1>4 DEF IInv, HandlesAreComplete, TypeOK, Callers, Unspawned
<1> QED
  BY <1>1, <1>3, <1>5, <1>6 DEF IInv

-----------------------------------------------------------------------------
(* The theorems                                                            *)

LEMMA NextIInv == IInv /\ [Next]_vars => IInv'
<1> SUFFICES ASSUME IInv, [Next]_vars PROVE IInv'
  OBVIOUS
<1>1. CASE \E g \in Gens : Winddown(g) \/ Stop(g) \/ Fault(g) \/ ReaderRoutes(g)
  BY <1>1, ReaderKeepsIInv, WriterKeepsIInv, HeartbeatKeepsIInv DEF Winddown, Stop,
              Fault
<1>2. CASE BootStep
  BY <1>2, BootKeepsIInv
<1>3. CASE \E a \in Callers : RecStep(a) \/ RecConnects(a)
  BY <1>3, PlainRecKeepsIInv, RecJoinsKeepsIInv, RecSwapsWriterKeepsIInv,
     RecSpawnsKeepsIInv, RecStoresKeepsIInv DEF RecStep
<1>4. CASE UserReconnects \/ UserReconnected
  BY <1>4, PlainRecKeepsIInv DEF Callers
<1>5. CASE DisStarts \/ DisStep
  BY <1>5, DisKeepsIInv, DisJoinsKeepsIInv DEF DisStep
<1>6. CASE AutoStep
  BY <1>6, AutoKeepsIInv, AttemptKeepsIInv DEF AutoStep
<1>7. CASE NextEvent \/ Request \/ DropClient
  BY <1>7, UserKeepsIInv
<1>8. CASE UNCHANGED vars
  <2> USE <1>8 DEF vars, flags, conn, evs, links, tasks, procs
  <2>1. TypeOK'
    BY DEF IInv, TypeOK
  <2>2. ReconnectsAreSerial'
    BY DEF IInv, ReconnectsAreSerial
  <2>3. UNCHANGED shape
    BY DEF shape
  <2> QED
    BY <2>1, <2>2, <2>3, SameShape DEF IInv
<1> QED
  BY <1>1, <1>2, <1>3, <1>4, <1>5, <1>6, <1>7, <1>8 DEF Next

\* The inductive invariant: reconnects exclude each other, only the connection
\* write_tx belongs to can have tasks, and task_handles knows them.
THEOREM Invariance == Spec => []IInv
  BY InitIInv, NextIInv, PTL DEF Spec

\* The type invariant, for every bound and configuration: the event channel
\* never holds more than event_buffer_size events, and the attempts of one
\* recovery never exceed max_reconnect_attempts.
THEOREM TypeCorrect == Spec => []TypeOK
<1>1. IInv => TypeOK
  BY DEF IInv
<1> QED
  BY <1>1, Invariance, PTL

\* The tasks of two connections never run at the same time, whatever
\* interleaving of reconnect(), the auto-reconnect task and disconnect().
THEOREM NeverTwoConnections == Spec => []OneConnection
<1>1. IInv => OneConnection
  <2> SUFFICES ASSUME IInv, NEW g \in Gens, Live(g) PROVE g = gen
    BY DEF OneConnection
  <2> QED
    BY DEF IInv, TypeOK, OnlyCurrentLives, Live, Fresh, Gens
<1> QED
  BY <1>1, Invariance, PTL

\* Where a reconnect sets `alive`, no task runs.
LEMMA NothingRunsAtSetAlive ==
  ASSUME IInv, NEW a \in Callers, RecSetsAlive(a), NEW g \in Gens
  PROVE  ~Live(g)
<1>1. rec[a] = "setAlive"
  BY DEF RecSetsAlive, RecGoes
<1>2. Fresh(gen)
  BY <1>1 DEF IInv, OnlyCurrentLives, Unspawned
<1> QED
  BY <1>2 DEF IInv, TypeOK, OnlyCurrentLives, Live, Fresh, Gens

\* `alive` is set only by a reconnect.
LEMMA OnlyReconnectSetsAlive ==
  ASSUME IInv, [Next]_vars, ~alive, alive'
  PROVE  \E a \in Callers : RecSetsAlive(a)
<1>1. CASE \E g \in Gens : Winddown(g) \/ Stop(g) \/ Fault(g) \/ ReaderRoutes(g)
  BY <1>1 DEF Winddown, Stop, Fault, ReaderFails, ReaderEmits, ReaderAnnounces,
              ReaderClears,
              ReaderCancelled, ReaderRoutes, WriterFails, WriterAnnounces,
              WriterCancelled, HeartbeatTimesOut, HeartbeatAnnounces, HeartbeatEmits,
              HeartbeatStops
<1>2. CASE BootStep
  BY <1>2 DEF BootStep, BootHello, BootEmits, BootAnnounces, BootSpawnsAuto, BootGoes,
              flags
<1>3. CASE \/ \E a \in Callers : RecStep(a) \/ RecConnects(a)
           \/ UserReconnects \/ UserReconnected
  BY <1>3 DEF RecStep, RecLock, RecChecks, RecAnnouncesAttempt, RecStopsTasks, RecJoins,
              RecConnects, RecRechecks, RecSwapsWriter, RecClonesEvents,
              RecClearsShutdown, RecClearsRequests, RecSpawns, RecStores, RecHello,
              RecAnnounces, UserReconnects, UserReconnected, flags
<1>4. CASE DisStarts \/ DisStep
  BY <1>4 DEF DisStarts, DisStep, DisSaysFarewell, DisClearsAlive, DisStopsTasks,
              DisJoins, DisClearsRequests, DisAnnounces, DisEmits, DisSwapsEvents, flags
<1>5. CASE AutoStep
  BY <1>5 DEF AutoStep, AutoWakes, AutoSeesNoSender, AutoChecks, AutoLooks, AutoTries,
              AutoReturns, AutoGivesUp, AutoGoes, flags
<1>6. CASE NextEvent \/ Request \/ DropClient \/ UNCHANGED vars
  BY <1>6 DEF NextEvent, Request, DropClient, vars, flags
<1> QED
  BY <1>1, <1>2, <1>3, <1>4, <1>5, <1>6 DEF Next

\* `alive` is set only when no task of any connection runs, so a dying task of
\* the old connection cannot unset it after the reconnect has set it.
THEOREM AliveSetAfterJoin == Spec => AliveIsSetAfterJoin
<1>1. IInv /\ [Next]_vars => [~alive /\ alive' => \A g \in Gens : ~Live(g)]_vars
  BY OnlyReconnectSetsAlive, NothingRunsAtSetAlive
<1> QED
  BY <1>1, Invariance, PTL DEF Spec, AliveIsSetAfterJoin
=============================================================================
