--------------------------- MODULE RequestTracker ---------------------------
(***************************************************************************)
(* Request-response correlation (src/src/client/request_tracker.rs) with   *)
(* the callers that use it (the request methods of src/src/client.rs) and  *)
(* the connection underneath.                                              *)
(*                                                                         *)
(* A call is one invocation of a request method; clones of the client run  *)
(* many at once, so every atomic step of a call (the fetch_add, the locked *)
(* insertion, the clone of the sender, the send, the end of the wait, the  *)
(* locked removal) is an action of its own.  A call is used once: the      *)
(* oneshot channel it creates is known by the name of the call.            *)
(*                                                                         *)
(* The write channel holds 64 messages, and every clone of the client, the *)
(* router and the heartbeat put theirs into it: whether a send has to wait *)
(* for room is an input here (full).  Module Pipeline has the channel.     *)
(*                                                                         *)
(* The identifiers are u32 in the code: Modulus stands for 2^32.  Init     *)
(* lets the counter be anywhere (the table is empty after any number of    *)
(* finished calls) and Window bounds the fetch_adds of a behaviour, so a   *)
(* behaviour is any stretch of the client's life shorter than a full turn  *)
(* of the counter, wrap-around included.                                   *)
(***************************************************************************)
EXTENDS Naturals, Functions

CONSTANTS Calls,    \* the invocations of request methods
          Modulus,  \* 2^32 in the code
          Window    \* bound: fetch_adds in one behaviour

ASSUME ModulusAssumption == Modulus \in Nat /\ Modulus > 1
ASSUME WindowAssumption == Window \in Nat /\ Window < Modulus

VARIABLES counter,  \* RequestTracker.counter
          pending,  \* RequestTracker.pending: id -> call that owns the sender
          pc,       \* where each call is
          id,       \* the local `id` of register(), then the request's id
          chan,     \* the call's oneshot channel
          answer,   \* what was put into it: the calls whose request it answers
          result,   \* what the call returned
          link,     \* the connection, as the senders see it
          full,     \* the write channel has no room, and its writer is alive
          sent,     \* requests the device can still answer on this connection
          allocs    \* fetch_adds so far (bounded by Window)

vars ==
    <<counter, pending, pc, id, chan, answer, result, link, full, sent, allocs>>

Ids == 0 .. Modulus - 1
\* "down": a background task failed; "closed": the reader is gone as well;
\* "swapped": reconnect() has installed a new write channel.
Links == {"up", "down", "closed", "swapped"}
\* "enqueue": in tx.send(msg).await with a clone of the sender; "refused": that
\* sender's channel is gone.
Locations == {"start", "again", "insert", "send", "enqueue", "refused", "wait",
              "cleanup", "done"}
\* "unsent" is the Err(Disconnected) of a failed send, "disconnected" the one of
\* a wait whose sender was dropped.
Results == {"none", "ok", "timeout", "disconnected", "unsent", "cancelled"}

TypeOK ==
    /\ counter \in Ids
    /\ DOMAIN pending \subseteq Ids
    /\ pending \in [DOMAIN pending -> Calls]
    /\ pc \in [Calls -> Locations]
    /\ id \in [Calls -> Ids]
    /\ chan \in [Calls -> {"none", "open", "full", "closed"}]
    /\ answer \in [Calls -> SUBSET Calls]
    /\ result \in [Calls -> Results]
    /\ link \in Links
    /\ full \in BOOLEAN
    /\ sent \subseteq Calls
    /\ allocs \in 0 .. Window

NoneIssued == [n \in {} |-> n]

Init ==
    /\ counter \in Ids
    /\ pending = NoneIssued
    /\ pc = [c \in Calls |-> "start"]
    /\ id = [c \in Calls |-> 0]
    /\ chan = [c \in Calls |-> "none"]
    /\ answer = [c \in Calls |-> {}]
    /\ result = [c \in Calls |-> "none"]
    /\ link = "up"
    /\ full = FALSE
    /\ sent = {}
    /\ allocs = 0

-----------------------------------------------------------------------------
(* The table                                                               *)

\* Mutant: the addition does not wrap.
OverflowingInc(n) == n + 1

\* wrapping_add(1)
WrappingInc(n) == IF n = Modulus - 1 THEN 0 ELSE n + 1

\* Removing an entry drops its sender; a receiver still waiting sees it closed.
Without(n) == Restrict(pending, DOMAIN pending \ {n})

\* The channels after the senders of the entries in N are dropped unused.
DropSenders(N) ==
    [c \in Calls |-> IF \E n \in N \cap DOMAIN pending : pending[n] = c
                     THEN "closed" ELSE chan[c]]

\* A receiver is dropped when the wait ends or its caller goes away.
ReceiverAlive(c) == pc[c] \in {"send", "enqueue", "refused", "wait"}

\* Mutant: the entry is looked up, not removed.
ResolveKeepsEntry(n, d) ==
    /\ n \in DOMAIN pending
    /\ chan' = [chan EXCEPT ![pending[n]] = "full"]
    /\ answer' = [answer EXCEPT ![pending[n]] = @ \cup {d}]
    /\ UNCHANGED pending

\* resolve(n, payload), the payload answering call d's request.
Resolve(n, d) ==
    /\ n \in DOMAIN pending
    /\ LET c == pending[n] IN
         IF ReceiverAlive(c)
         THEN /\ chan' = [chan EXCEPT ![c] = "full"]
              /\ answer' = [answer EXCEPT ![c] = @ \cup {d}]
         ELSE /\ chan' = [chan EXCEPT ![c] = "closed"]
              /\ UNCHANGED answer
    /\ pending' = Without(n)

\* clear()
Clear == /\ chan' = DropSenders(DOMAIN pending)
         /\ pending' = NoneIssued

-----------------------------------------------------------------------------
(* A call                                                                  *)

Goto(c, l) == pc' = [pc EXCEPT ![c] = l]

\* Mutant: a load instead of the fetch_add, the increment is lost.
TakeIdByLoad(c) ==
    /\ allocs < Window
    /\ allocs' = allocs + 1
    /\ id' = [id EXCEPT ![c] = WrappingInc(counter)]
    /\ UNCHANGED <<counter, pending, chan, answer, result, link, full, sent>>

\* counter.fetch_add(1).wrapping_add(1), stored in the local id
TakeId(c) ==
    /\ allocs < Window
    /\ allocs' = allocs + 1
    /\ counter' = WrappingInc(counter)
    /\ id' = [id EXCEPT ![c] = WrappingInc(counter)]
    /\ UNCHANGED <<pending, chan, answer, result, link, full, sent>>

\* Mutant: 0 is not skipped.
FetchAddKeepsZero(c) == pc[c] = "start" /\ TakeId(c) /\ Goto(c, "insert")

\* register(): the first fetch_add; 0 marks a broadcast and is skipped
FetchAdd(c) ==
    /\ pc[c] = "start"
    /\ TakeId(c)
    /\ Goto(c, IF WrappingInc(counter) = 0 THEN "again" ELSE "insert")

\* register(): the second fetch_add
FetchAddAgain(c) ==
    /\ pc[c] = "again"
    /\ TakeId(c)
    /\ Goto(c, "insert")

\* register(): the oneshot channel, and its sender inserted under the lock.
\* HashMap::insert drops the sender it replaces.
Insert(c) ==
    /\ pc[c] = "insert"
    /\ chan' = [DropSenders({id[c]}) EXCEPT ![c] = "open"]
    /\ pending' = [n \in DOMAIN pending \cup {id[c]} |->
                      IF n = id[c] THEN c ELSE pending[n]]
    /\ Goto(c, "send")
    /\ UNCHANGED <<counter, id, answer, result, link, full, sent, allocs>>

\* self.send(..): the sender is cloned under the read lock, which is released
\* before the send.
CloneSender(c) ==
    /\ pc[c] = "send"
    /\ Goto(c, "enqueue")
    /\ UNCHANGED <<counter, pending, id, chan, answer, result, link, full, sent,
                   allocs>>

\* tx.send(msg).await: waits for room in the channel, with no timeout around
\* it.  On a connection that is going down the channel may still be open; the
\* message is lost.
Send(c) ==
    /\ pc[c] = "enqueue" /\ ~full
    /\ sent' = IF link \in {"down", "closed"} THEN sent ELSE sent \cup {c}
    /\ Goto(c, "wait")
    /\ UNCHANGED <<counter, pending, id, chan, answer, result, link, full, allocs>>

\* self.send(..).await? : the writer is gone, or a reconnect has dropped the
\* channel of the cloned sender.  The method returns at once and leaves its
\* entry in the table.
SendFails(c) ==
    /\ \/ pc[c] = "enqueue" /\ ~full /\ link \in {"down", "closed"}
       \/ pc[c] = "refused"
    /\ result' = [result EXCEPT ![c] = "unsent"]
    /\ Goto(c, "done")
    /\ UNCHANGED <<counter, pending, id, chan, answer, link, full, sent, allocs>>

\* wait_for(): timeout() polls the receiver first, so a value that is there is
\* returned even when the deadline has passed.
WaitOk(c) ==
    /\ pc[c] = "wait"
    /\ chan[c] = "full"
    /\ result' = [result EXCEPT ![c] = "ok"]
    /\ Goto(c, "done")
    /\ UNCHANGED <<counter, pending, id, chan, answer, link, full, sent, allocs>>

\* Mutant: the deadline is looked at before the receiver.
WaitFailsDeadlineFirst(c) ==
    /\ pc[c] = "wait"
    /\ result' = [result EXCEPT ![c] = "timeout"]
    /\ Goto(c, "cleanup")
    /\ UNCHANGED <<counter, pending, id, chan, answer, link, full, sent, allocs>>

\* Mutant: no timeout around the receiver.
WaitFailsWithoutTimeout(c) ==
    /\ pc[c] = "wait"
    /\ chan[c] = "closed"
    /\ result' = [result EXCEPT ![c] = "disconnected"]
    /\ Goto(c, "cleanup")
    /\ UNCHANGED <<counter, pending, id, chan, answer, link, full, sent, allocs>>

\* wait_for(): the sender was dropped, or nothing came in time.  The receiver
\* is dropped here; the entry is removed in the next step, under the lock.
WaitFails(c) ==
    /\ pc[c] = "wait"
    /\ \/ chan[c] = "closed" /\ result' = [result EXCEPT ![c] = "disconnected"]
       \/ chan[c] = "open" /\ result' = [result EXCEPT ![c] = "timeout"]
    /\ Goto(c, "cleanup")
    /\ UNCHANGED <<counter, pending, id, chan, answer, link, full, sent, allocs>>

\* Mutant: the entry is left in the table.
CleanupForgotten(c) ==
    /\ pc[c] = "cleanup"
    /\ Goto(c, "done")
    /\ UNCHANGED <<counter, pending, id, chan, answer, result, link, full, sent, allocs>>

\* wait_for(): pending.remove(&request_id), whoever owns the entry by then
Cleanup(c) ==
    /\ pc[c] = "cleanup"
    /\ chan' = DropSenders({id[c]})
    /\ pending' = Without(id[c])
    /\ Goto(c, "done")
    /\ UNCHANGED <<counter, id, answer, result, link, full, sent, allocs>>

\* The caller drops the future of the method (a select! or a timeout around
\* it, as disconnect() does with stop_media()): no code of the call runs.
Cancel(c) ==
    /\ pc[c] \in {"insert", "send", "enqueue", "refused", "wait", "cleanup"}
    /\ result' = [result EXCEPT ![c] = "cancelled"]
    /\ Goto(c, "done")
    /\ UNCHANGED <<counter, pending, id, chan, answer, link, full, sent, allocs>>

-----------------------------------------------------------------------------
(* The connection                                                          *)

\* The router gets a message with the requestId of c's request: the answer,
\* or one more status message with the same id.
Deliver(c) ==
    /\ c \in sent
    /\ IF id[c] \in DOMAIN pending
       THEN Resolve(id[c], c)
       ELSE UNCHANGED <<pending, chan, answer>>
    /\ UNCHANGED <<counter, pc, id, result, link, full, sent, allocs>>

\* The other users of the write channel take its last place ...
ChannelFills ==
    /\ ~full
    /\ full' = TRUE
    /\ UNCHANGED <<counter, pending, pc, id, chan, answer, result, link, sent, allocs>>

\* ... and the writer takes a message out of it, or ends and drops it.
WriterMakesRoom ==
    /\ full
    /\ full' = FALSE
    /\ UNCHANGED <<counter, pending, pc, id, chan, answer, result, link, sent, allocs>>

\* A background task fails; the others still run.
LinkFails ==
    /\ link = "up"
    /\ link' = "down"
    /\ UNCHANGED <<counter, pending, pc, id, chan, answer, result, full, sent, allocs>>

\* The reader's exit, and disconnect(): nothing arrives any more, and every
\* waiting call is failed.
ReaderExits ==
    /\ link \in {"down", "closed"}
    /\ Clear
    /\ link' = "closed"
    /\ sent' = {}
    /\ UNCHANGED <<counter, pc, id, answer, result, full, allocs>>

\* reconnect(): the old tasks are joined (an aborted reader may not come to
\* its clear), the write channel is replaced by an empty one: a call that
\* holds the old sender will be refused ...
SwapWriter ==
    /\ link \in {"down", "closed"}
    /\ link' = "swapped"
    /\ full' = FALSE
    /\ sent' = {}
    /\ pc' = [c \in Calls |-> IF pc[c] = "enqueue" THEN "refused" ELSE pc[c]]
    /\ UNCHANGED <<counter, pending, id, chan, answer, result, allocs>>

\* ... and the table is cleared before the new tasks are spawned.
ReconnectClears ==
    /\ link = "swapped"
    /\ Clear
    /\ link' = "up"
    /\ UNCHANGED <<counter, pc, id, answer, result, full, sent, allocs>>

-----------------------------------------------------------------------------
CallStep(c) ==
    \/ FetchAdd(c) \/ FetchAddAgain(c) \/ Insert(c)
    \/ CloneSender(c) \/ Send(c) \/ SendFails(c)
    \/ WaitOk(c) \/ WaitFails(c) \/ Cleanup(c)

Next ==
    \/ \E c \in Calls : CallStep(c) \/ Cancel(c) \/ Deliver(c)
    \/ ChannelFills \/ WriterMakesRoom
    \/ LinkFails \/ ReaderExits \/ SwapWriter \/ ReconnectClears

Spec == Init /\ [][Next]_vars

\* A call that was made is polled to its end; the device, the writer and the
\* connection are free to do nothing at all.  The channel's semaphore serves
\* its waiters in order, so a send that is waiting gets its turn if room is
\* made again and again, though others fill the channel in between.
FairSpec ==
    /\ Spec
    /\ \A c \in Calls : WF_vars(CallStep(c)) /\ SF_vars(Send(c) \/ SendFails(c))

-----------------------------------------------------------------------------
(* Properties                                                              *)

HasId(c) == pc[c] # "start"

\* A call never takes another call's answer: what register() and resolve()
\* leave in the channel of a call answers that call's own request, however
\* the counter wraps and however late or often the device answers.
NoCrossTalk ==
    \A c \in Calls :
        /\ answer[c] \subseteq {c}
        /\ result[c] = "ok" => answer[c] = {c}

\* Nobody waits in vain: as long as a call's channel is neither answered nor
\* closed, its sender sits in the table under the call's own id, where
\* resolve() and clear() find it; and the table holds no other entries.
WaiterIsReachable ==
    /\ \A c \in Calls : chan[c] = "open" =>
          id[c] \in DOMAIN pending /\ pending[id[c]] = c
    /\ \A n \in DOMAIN pending : chan[pending[n]] = "open" /\ id[pending[n]] = n

\* Every entry of the table has an id the router correlates: register() skips
\* 0, the id of broadcasts, even when several calls wrap the counter together.
ZeroIsNeverRegistered == 0 \notin DOMAIN pending

\* wait_for() leaves nothing behind: a call that came to its end there has no
\* entry in the table, however its end raced with resolve() and clear().
WaitLeavesNoEntry ==
    \A c \in Calls :
        pc[c] = "done" /\ result[c] \in {"ok", "timeout", "disconnected"} =>
            \A n \in DOMAIN pending : pending[n] # c

\* What docs/architecture.md says of the table: "If the timeout expires or the
\* connection drops, the pending entry is cleaned up to prevent leaks".  Once
\* the connection is closed and its reader has cleared the table, a call that
\* returned an error has no entry.
EntriesGoWithConnection ==
    link = "closed" =>
        \A c \in Calls : pc[c] = "done" /\ result[c] # "cancelled" =>
            \A n \in DOMAIN pending : pending[n] # c

\* Every call that has been made returns, though the device never answers and
\* the connection never fails: wait_for()'s timeout bounds the wait for the
\* answer.  docs/error-handling.md:70 says so of every request, but the wait
\* for room in the write channel comes before wait_for() and has no bound: the
\* call returns if the writer keeps making room or ends.
CallsReturn == []<>~full => \A c \in Calls : HasId(c) ~> pc[c] = "done"

-----------------------------------------------------------------------------
(* The inductive invariant behind the safety properties                    *)

\* With the counter at k: how many fetch_adds ago it stood at n.
Behind(k, n) == IF n <= k THEN k - n ELSE (k + Modulus) - n

\* The ids in use are the counter's last values: the next one is not among them.
IdsAreRecent == \A c \in Calls : HasId(c) => Behind(counter, id[c]) < allocs

IdsAreDistinct ==
    \A c, d \in Calls : HasId(c) /\ HasId(d) /\ c # d => id[c] # id[d]

OnlyRetriesHoldZero ==
    \A c \in Calls : HasId(c) => (id[c] = 0 <=> pc[c] = "again")

\* What the location of a call says of its channel and its result.
ChannelFollowsCall ==
    \A c \in Calls :
        /\ pc[c] \in {"start", "again", "insert"} => chan[c] = "none"
        /\ pc[c] \in {"send", "enqueue", "refused"} =>
              chan[c] \in {"open", "closed"}
        /\ pc[c] = "wait" => chan[c] # "none"
        /\ pc[c] = "cleanup" => chan[c] \in {"open", "closed"}
        /\ answer[c] = IF chan[c] = "full" THEN {c} ELSE {}
        /\ c \in sent => pc[c] \in {"wait", "cleanup", "done"}

ResultFollowsCall ==
    \A c \in Calls :
        /\ pc[c] \notin {"cleanup", "done"} => result[c] = "none"
        /\ pc[c] = "done" => result[c] # "none"
        /\ pc[c] = "cleanup" => result[c] \in {"timeout", "disconnected"}
        /\ result[c] = "ok" => chan[c] = "full"
        /\ pc[c] = "done" /\ result[c] \in {"timeout", "disconnected"} =>
              chan[c] # "open"

IInv == /\ TypeOK
        /\ IdsAreRecent /\ IdsAreDistinct /\ OnlyRetriesHoldZero
        /\ WaiterIsReachable
        /\ ChannelFollowsCall /\ ResultFollowsCall

-----------------------------------------------------------------------------
(* The abstract specification                                              *)

StatusOf(c) ==
    CASE pc[c] \in {"start", "again", "insert"} -> "new"
      [] pc[c] \in {"send", "enqueue", "refused"} -> "issued"
      [] pc[c] = "wait" -> IF answer[c] = {c} THEN "answered" ELSE "sent"
      [] pc[c] = "cleanup" -> "sent"
      [] pc[c] = "done" ->
            IF result[c] = "unsent" THEN "disconnected" ELSE result[c]

Promise == INSTANCE RequestResponse WITH status <- [c \in Calls |-> StatusOf(c)]

\* The tracker keeps the promise of RequestResponse: a call is answered only
\* by the device's answer to its own request, returns once, and returns the
\* answer if it is there.
KeepsPromise == Promise!Spec
=============================================================================
