------------------------------ MODULE Pipeline ------------------------------
(***************************************************************************)
(* One connection from the callers to the device and back: the bounded     *)
(* write channel, the writer task, the frames on the socket (framing.rs),  *)
(* the reader task, which answers a PING with a PONG through the same      *)
(* channel, and the heartbeat task, which sends its PINGs through it too.  *)
(*                                                                         *)
(* A frame is two pieces on the wire, its length and its body; either may  *)
(* be the last thing that gets through.  Outbound messages are numbered,   *)
(* starting after the last one the device has received.  Time is counted   *)
(* in heartbeat intervals.  The device, its socket and the callers are     *)
(* external; what happens after the connection is given up is in           *)
(* ConnectionLifecycle.                                                    *)
(***************************************************************************)
EXTENDS Integers, Sequences

CONSTANTS Cap,       \* the write channel's capacity (64 in the code)
          SockCap,   \* pieces the socket holds in each direction
          Timeout,   \* heartbeat_timeout, in intervals
          MaxReqs,   \* bound: requests the callers send
          MaxFrames  \* bound: frames the device sends

ASSUME CapAssumption == Cap \in Nat \ {0} /\ SockCap \in Nat \ {0}
ASSUME BoundAssumption == Timeout \in Nat /\ MaxReqs \in Nat /\ MaxFrames \in Nat

Numbers == 0 .. Cap + SockCap + 1
MaxDue == 1  \* bound: ticks that are remembered while the heartbeat is busy
Kinds == {"PING", "MSG", "ZERO", "HUGE", "BAD"}

VARIABLES
    queue,          \* the write channel: [n, big]
    enq,            \* number of the last message queued
    wpc, wmsg,      \* the writer, and the message it writes
    out, inn,       \* the socket, to and from the device: [part, n], [part, kind]
    rpc, rlen,      \* the reader, and the frame whose length it has read
    hpc, age, due,  \* the heartbeat, time since last_activity, ticks due
    alive,
    dev, half,      \* the device, and the frame it is in the middle of
    reqs, frames    \* counters for the bounds

chan == <<queue, enq>>
writer == <<wpc, wmsg>>
reader == <<rpc, rlen>>
heart == <<hpc, due>>
device == <<dev, half, frames>>
vars == <<chan, writer, out, inn, reader, heart, age, alive, device, reqs>>

NoFrame == "none"
Message == [n: Numbers, big: BOOLEAN]
NoMessage == [n |-> 0, big |-> FALSE]

TypeOK ==
    /\ queue \in Seq(Message) /\ Len(queue) <= Cap
    /\ enq \in Numbers
    /\ wpc \in {"idle", "write", "body", "down"} /\ wmsg \in Message
    /\ out \in Seq([part: {"len", "body"}, n: Numbers]) /\ Len(out) <= SockCap
    /\ inn \in Seq([part: {"len", "body"}, kind: Kinds]) /\ Len(inn) <= SockCap
    /\ rpc \in {"len", "body", "pong", "down"} /\ rlen \in Kinds \cup {NoFrame}
    /\ hpc \in {"tick", "ping", "check", "down"}
    /\ age \in 0 .. Timeout + 1 /\ due \in 0 .. MaxDue
    /\ alive \in BOOLEAN
    /\ dev \in {"ok", "dead", "closed"} /\ half \in Kinds \cup {NoFrame}
    /\ reqs \in 0 .. MaxReqs /\ frames \in 0 .. MaxFrames

Init ==
    /\ queue = <<>> /\ enq = 0
    /\ wpc = "idle" /\ wmsg = NoMessage /\ out = <<>> /\ inn = <<>>
    /\ rpc = "len" /\ rlen = NoFrame
    /\ hpc = "tick" /\ age = 0 /\ due = 0 /\ alive = TRUE
    /\ dev = "ok" /\ half = NoFrame /\ reqs = 0 /\ frames = 0

-----------------------------------------------------------------------------
(* The write channel                                                       *)

Least(a, b) == IF a < b THEN a ELSE b
Broken == dev = "closed"

\* Mutant: an unbounded channel.
EnqueueUnbounded(big) ==
    /\ wpc # "down" /\ Len(queue) < Cap + SockCap
    /\ enq' = enq + 1 /\ queue' = Append(queue, [n |-> enq + 1, big |-> big])

\* tx.send(msg).await: wait for room; an error once the writer is gone.
Enqueue(big) ==
    /\ wpc # "down" /\ Len(queue) < Cap
    /\ enq' = enq + 1 /\ queue' = Append(queue, [n |-> enq + 1, big |-> big])

\* A caller's request; too large a one is found out by the writer.
Request ==
    /\ reqs < MaxReqs /\ reqs' = reqs + 1
    /\ \E big \in BOOLEAN : Enqueue(big)
    /\ UNCHANGED <<writer, out, inn, reader, heart, age, alive, device>>

-----------------------------------------------------------------------------
(* writer_loop and write_message                                           *)

WriterGoes(to) ==
    wpc' = to /\ UNCHANGED <<enq, inn, reader, heart, age, device, reqs>>

WriterTakes ==
    /\ wpc = "idle" /\ queue # <<>> /\ WriterGoes("write")
    /\ wmsg' = Head(queue) /\ queue' = Tail(queue)
    /\ UNCHANGED <<out, alive>>

\* Mutant: one task reads and writes, so nothing is written while it waits.
WriterPutsBetweenReads ==
    /\ wpc \in {"write", "body"} /\ ~wmsg.big /\ ~Broken /\ Len(out) < SockCap
    /\ rpc # "pong"
    /\ out' = Append(out, [part |-> IF wpc = "write" THEN "len" ELSE "body", n |-> wmsg.n])
    /\ WriterGoes(IF wpc = "write" THEN "body" ELSE "idle")
    /\ wmsg' = IF wpc = "write" THEN wmsg ELSE NoMessage
    /\ UNCHANGED <<queue, alive>>

\* One buffer for length and body, but write_all may put it out in parts.
WriterPuts ==
    /\ wpc \in {"write", "body"} /\ ~wmsg.big /\ ~Broken /\ Len(out) < SockCap
    /\ out' = Append(out, [part |-> IF wpc = "write" THEN "len" ELSE "body", n |-> wmsg.n])
    /\ WriterGoes(IF wpc = "write" THEN "body" ELSE "idle")
    /\ wmsg' = IF wpc = "write" THEN wmsg ELSE NoMessage
    /\ UNCHANGED <<queue, alive>>

\* Mutant: the writer drops the message and goes on with the next.
WriterSkips ==
    /\ \/ wpc = "write" /\ wmsg.big
       \/ wpc \in {"write", "body"} /\ (Broken \/ dev = "dead")
    /\ WriterGoes("idle") /\ wmsg' = NoMessage
    /\ UNCHANGED <<queue, out, alive>>

\* A message over 64 KiB, a broken pipe, or the peer's host gone: the
\* connection is over, and the channel with what is in it.
WriterFails ==
    /\ \/ wpc = "write" /\ wmsg.big
       \/ wpc \in {"write", "body"} /\ (Broken \/ dev = "dead")
    /\ WriterGoes("down") /\ wmsg' = NoMessage
    /\ queue' = <<>> /\ alive' = FALSE
    /\ UNCHANGED out

\* The cancellation token is one branch of the select!, recv() the other.
WriterCancelled ==
    /\ ~alive /\ wpc = "idle" /\ WriterGoes("down")
    /\ queue' = <<>> /\ UNCHANGED <<wmsg, out, alive>>

-----------------------------------------------------------------------------
(* reader_loop and read_message                                            *)

ReaderGoes(to, frame) ==
    /\ rpc' = to /\ rlen' = frame
    /\ UNCHANGED <<writer, out, heart, device, reqs>>

ReaderFails == ReaderGoes("down", NoFrame) /\ alive' = FALSE

\* Mutant: a length out of bounds is an error of that message only.
ReadLenAndGoOn ==
    /\ rpc = "len" /\ inn # <<>> /\ inn' = Tail(inn)
    /\ ReaderGoes(IF Head(inn).kind \in {"ZERO", "HUGE"} THEN "len" ELSE "body",
                  Head(inn).kind)
    /\ UNCHANGED <<chan, age, alive>>

\* The length: 0 and more than 64 KiB are framing errors.
ReadLen ==
    /\ rpc = "len" /\ inn # <<>> /\ inn' = Tail(inn)
    /\ IF Head(inn).kind \in {"ZERO", "HUGE"} THEN ReaderFails
       ELSE ReaderGoes("body", Head(inn).kind) /\ UNCHANGED alive
    /\ UNCHANGED <<chan, age>>

\* The body: decode, touch(last_activity), route.
ReadBody ==
    /\ rpc = "body" /\ inn # <<>> /\ inn' = Tail(inn)
    /\ IF rlen = "BAD" THEN ReaderFails /\ UNCHANGED age
       ELSE /\ ReaderGoes(IF rlen = "PING" THEN "pong" ELSE "len", NoFrame)
            /\ age' = 0 /\ UNCHANGED alive
    /\ UNCHANGED chan

\* The end of the stream, between frames or within one.
ReadEof ==
    /\ rpc \in {"len", "body"} /\ inn = <<>> /\ Broken
    /\ ReaderFails /\ UNCHANGED <<chan, inn, age>>

\* route() awaits room for the PONG; a closed channel is ignored.
SendPong ==
    /\ rpc = "pong" /\ ReaderGoes("len", NoFrame)
    /\ Enqueue(FALSE) \/ (wpc = "down" /\ UNCHANGED chan)
    /\ UNCHANGED <<inn, age, alive>>

\* Cancelled in the middle of a frame or not: the loop ends.  (Within
\* SendPong the task is aborted.)
ReaderCancelled ==
    /\ ~alive /\ rpc # "down" /\ ReaderGoes("down", NoFrame)
    /\ UNCHANGED <<chan, inn, age, alive>>

-----------------------------------------------------------------------------
(* The heartbeat task                                                      *)

HeartbeatGoes(to) ==
    hpc' = to /\ UNCHANGED <<writer, out, inn, reader, age, device, reqs>>

\* An interval passes, as long as anybody looks at the clock.
Tick ==
    /\ alive
    /\ age' = Least(age + 1, Timeout + 1) /\ due' = Least(due + 1, MaxDue)
    /\ UNCHANGED <<chan, writer, out, inn, reader, hpc, alive, device, reqs>>

HeartbeatTicks ==
    /\ hpc = "tick" /\ due > 0 /\ due' = due - 1
    /\ HeartbeatGoes("ping") /\ UNCHANGED <<chan, alive>>

\* Mutant: a PING counts as activity.
HeartbeatPingsAndTouches ==
    /\ hpc = "ping" /\ Enqueue(FALSE) /\ hpc' = "check" /\ age' = 0
    /\ UNCHANGED <<writer, out, inn, reader, due, alive, device, reqs>>

HeartbeatPings ==
    /\ hpc = "ping"
    /\ \/ Enqueue(FALSE) /\ HeartbeatGoes("check")
       \/ wpc = "down" /\ HeartbeatGoes("down") /\ UNCHANGED chan
    /\ UNCHANGED <<due, alive>>

HeartbeatChecks ==
    /\ hpc = "check"
    /\ IF age > Timeout THEN HeartbeatGoes("down") /\ alive' = FALSE
                        ELSE HeartbeatGoes("tick") /\ UNCHANGED alive
    /\ UNCHANGED <<chan, due>>

HeartbeatCancelled ==
    /\ ~alive /\ hpc = "tick" /\ HeartbeatGoes("down")
    /\ UNCHANGED <<chan, due, alive>>

-----------------------------------------------------------------------------
(* The device and its socket (external)                                    *)

DeviceOnly == UNCHANGED <<reader, heart, age, alive, reqs>>

\* The numbering starts again after message k.
After(k, q) == [i \in DOMAIN q |-> [q[i] EXCEPT !.n = @ - k]]

DeviceReads ==
    /\ dev = "ok" /\ out # <<>>
    /\ LET k == IF Head(out).part = "body" THEN Head(out).n ELSE 0 IN
       /\ out' = After(k, Tail(out)) /\ queue' = After(k, queue) /\ enq' = enq - k
       /\ wmsg' = IF wmsg = NoMessage THEN wmsg ELSE [wmsg EXCEPT !.n = @ - k]
    /\ DeviceOnly /\ UNCHANGED <<wpc, inn, device>>

DeviceSends ==
    /\ dev = "ok" /\ Len(inn) < SockCap
    /\ IF half # NoFrame
       THEN /\ inn' = Append(inn, [part |-> "body", kind |-> half])
            /\ half' = NoFrame /\ UNCHANGED frames
       ELSE /\ frames < MaxFrames /\ frames' = frames + 1
            /\ \E k \in Kinds : /\ inn' = Append(inn, [part |-> "len", kind |-> k])
                                /\ half' = IF k = "ZERO" THEN NoFrame ELSE k
    /\ DeviceOnly /\ UNCHANGED <<chan, writer, out, dev>>

\* It closes the connection, or vanishes without a word, for good.
DeviceEnds ==
    /\ dev = "ok" /\ dev' \in {"dead", "closed"}
    /\ DeviceOnly /\ UNCHANGED <<chan, writer, out, inn, half, frames>>

WriterStep == WriterTakes \/ WriterPuts \/ WriterFails \/ WriterCancelled
ReaderStep == ReadLen \/ ReadBody \/ ReadEof \/ SendPong \/ ReaderCancelled
HeartbeatStep ==
    HeartbeatTicks \/ HeartbeatPings \/ HeartbeatChecks \/ HeartbeatCancelled

Next ==
    \/ Request \/ WriterStep \/ ReaderStep \/ Tick \/ HeartbeatStep
    \/ DeviceReads \/ DeviceSends \/ DeviceEnds

Spec == Init /\ [][Next]_vars

\* Tasks that can run do, time passes, and a device that is up reads its
\* socket.  That a write to a vanished host ever fails is not assumed.
Fairness ==
    /\ WF_vars(WriterTakes \/ WriterPuts \/ (Broken /\ WriterFails) \/ (wmsg.big /\ WriterFails))
    /\ WF_vars(ReaderStep) /\ WF_vars(HeartbeatStep)
    /\ WF_vars(Tick) /\ WF_vars(DeviceReads)

FairSpec == Spec /\ Fairness

-----------------------------------------------------------------------------
(* Properties                                                              *)

\* What is on its way to the device is a run of whole frames in the order in
\* which they were queued, none lost and none twice, however reader,
\* heartbeat and callers interleave: only the last may be cut, and only if
\* the writer is still in it or has ended (framing.rs:52-73, client.rs:863-868).
DeviceSeesWholeFrames ==
    LET last == IF out = <<>> THEN 0 ELSE out[Len(out)].n IN
    /\ \A i \in DOMAIN out :
          LET part == out[i].part IN
          /\ i = 1 => out[i].n = 1
          /\ i > 1 => IF part = "len" THEN out[i - 1] = [part |-> "body", n |-> out[i].n - 1]
                                     ELSE out[i - 1] = [part |-> "len", n |-> out[i].n]
          /\ i = Len(out) /\ part = "len" => wpc \in {"body", "down"}
    /\ wpc = "write" => wmsg.n = last + 1
    /\ queue # <<>> =>
          /\ queue[Len(queue)].n = enq
          /\ queue[1].n = (IF wpc = "idle" THEN last ELSE wmsg.n) + 1

\* The reader never takes a body for a length or the other way round, although
\* it may be cancelled, or refuse a length, in the middle of a frame: it never
\* reads on (framing.rs:15-45, client.rs:896-932).
ReaderInStep ==
    /\ rpc = "len" /\ inn # <<>> => inn[1].part = "len"
    /\ rpc = "body" /\ inn # <<>> => inn[1] = [part |-> "body", kind |-> rlen]

\* PINGs, PONGs and requests share one bounded channel, and the reader waits
\* for room in it: as long as the device reads, it does not wait for ever
\* (router.rs:47, client.rs:854).
PongGoesOut == rpc = "pong" ~> (rpc # "pong" \/ dev # "ok")

\* A device that closes the connection or falls silent is noticed
\* (heartbeat.rs:86-89) without help from the kernel, provided the channel has
\* room for the PINGs of the timeout: the heartbeat looks at the clock only
\* after its PING is in the channel, and with a full one it never does.
RoomForPings ==
    /\ Len(queue) + due + Timeout + 2 <= Cap
    /\ reqs = MaxReqs /\ inn = <<>> /\ rpc # "pong"
DeathIsNoticed == dev # "ok" /\ RoomForPings ~> ~alive
=============================================================================
