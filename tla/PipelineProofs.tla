--------------------------- MODULE PipelineProofs ---------------------------
(***************************************************************************)
(* The two streams of a connection stay framed, for every capacity of      *)
(* channel and socket and any number of requests and frames.  The inbound  *)
(* and the outbound stream have an inductive invariant each.               *)
(***************************************************************************)
EXTENDS Pipeline, SequenceTheorems, TLAPS

-----------------------------------------------------------------------------
(* Inbound                                                                 *)

InPiece == [part: {"len", "body"}, kind: Kinds]

\* A length of a frame that has a body.
Begins(p) == p.part = "len" /\ p.kind # "ZERO"

\* q may follow p on the wire.
Follows(p, q) == IF Begins(p) THEN q = [part |-> "body", kind |-> p.kind]
                              ELSE q.part = "len"

InType ==
    /\ inn \in Seq(InPiece) /\ half \in Kinds \cup {NoFrame}
    /\ rpc \in {"len", "body", "pong", "down"}
    /\ rpc = "body" => rlen \in Kinds

\* What is on the wire is framed; the device is within a frame exactly if the
\* last piece began one; the reader is where the first piece is.
InInv ==
    /\ InType
    /\ \A i \in 1 .. Len(inn) - 1 : Follows(inn[i], inn[i + 1])
    /\ inn # <<>> =>
          half = IF Begins(inn[Len(inn)]) THEN inn[Len(inn)].kind ELSE NoFrame
    /\ rpc \in {"len", "pong"} =>
          IF inn = <<>> THEN half = NoFrame ELSE inn[1].part = "len"
    /\ rpc = "body" =>
          IF inn = <<>> THEN half = rlen ELSE inn[1] = [part |-> "body", kind |-> rlen]

\* A sequence is empty exactly if its length is 0.
LEMMA EmptyIffLen0 ==
    ASSUME NEW S, NEW q \in Seq(S)
    PROVE  Len(q) \in Nat /\ (q = <<>> <=> Len(q) = 0)
<1>1. CASE q = <<>>
  BY <1>1
<1>2. CASE q # <<>>
  BY <1>2, EmptySeq
<1> QED BY <1>1, <1>2

\* Facts about the first piece of the wire and what is behind it.
LEMMA TailOfSeq ==
    ASSUME NEW S, NEW q \in Seq(S), q # <<>>
    PROVE  /\ Tail(q) \in Seq(S) /\ Len(q) \in Nat \ {0} /\ Len(Tail(q)) = Len(q) - 1
           /\ \A i \in 1 .. Len(q) - 1 : Tail(q)[i] = q[i + 1]
           /\ Head(q) = q[1] /\ q[1] \in S
           /\ Tail(q) = <<>> <=> Len(q) = 1
<1>1. /\ Tail(q) \in Seq(S) /\ Len(q) \in Nat \ {0} /\ Len(Tail(q)) = Len(q) - 1
      /\ Head(q) = q[1]
  BY HeadTailProperties, LenProperties, EmptySeq
<1>2. \A i \in 1 .. Len(q) - 1 : Tail(q)[i] = q[i + 1]
  OBVIOUS
<1>3. q[1] \in S
  BY <1>1, ElementOfSeq
<1>4. Tail(q) = <<>> <=> Len(Tail(q)) = 0
  BY <1>1, EmptyIffLen0
<1> QED BY <1>1, <1>2, <1>3, <1>4

\* ... and of a piece put behind the others.
LEMMA AppendToSeq ==
    ASSUME NEW S, NEW q \in Seq(S), NEW x \in S
    PROVE  /\ Append(q, x) \in Seq(S) /\ Len(q) \in Nat /\ Len(Append(q, x)) = Len(q) + 1
           /\ \A i \in 1 .. Len(q) : Append(q, x)[i] = q[i]
           /\ Append(q, x)[Len(q) + 1] = x /\ Append(q, x) # <<>>
           /\ q = <<>> <=> Len(q) = 0
  OBVIOUS

LEMMA InInit == Init => InInv
  BY DEF Init, InInv, InType, NoFrame, Kinds

\* A reader that has ended needs nothing of the wire, and one that has sent its
\* PONG is where it was.
LEMMA InKept ==
    ASSUME InInv, UNCHANGED <<inn, half>>,
           \/ UNCHANGED <<rpc, rlen>>
           \/ rpc' = "down"
           \/ rpc = "pong" /\ rpc' = "len"
    PROVE  InInv'
  BY DEF InInv, InType

\* A piece that is taken leaves the others framed.
LEMMA InTail ==
    ASSUME InInv, inn # <<>>, inn' = Tail(inn), half' = half
    PROVE  /\ Tail(inn) \in Seq(InPiece) /\ Len(inn) \in Nat \ {0}
           /\ Len(Tail(inn)) = Len(inn) - 1
           /\ \A i \in 1 .. Len(inn) - 1 : Tail(inn)[i] = inn[i + 1]
           /\ Head(inn) = inn[1] /\ inn[1] \in InPiece /\ (Tail(inn) = <<>> <=> Len(inn) = 1)
           /\ \A i \in 1 .. Len(inn') - 1 : Follows(inn'[i], inn'[i + 1])
           /\ inn' # <<>> =>
                 half' = IF Begins(inn'[Len(inn')]) THEN inn'[Len(inn')].kind ELSE NoFrame
<1>1. /\ Tail(inn) \in Seq(InPiece) /\ Len(inn) \in Nat \ {0} /\ Len(Tail(inn)) = Len(inn) - 1
      /\ \A i \in 1 .. Len(inn) - 1 : Tail(inn)[i] = inn[i + 1]
      /\ Head(inn) = inn[1] /\ inn[1] \in InPiece /\ (Tail(inn) = <<>> <=> Len(inn) = 1)
  BY TailOfSeq DEF InInv, InType
<1>2. \A i \in 1 .. Len(inn') - 1 : Follows(inn'[i], inn'[i + 1])
  <2> SUFFICES ASSUME NEW i \in 1 .. Len(inn') - 1 PROVE Follows(inn'[i], inn'[i + 1])
    OBVIOUS
  <2>1. inn'[i] = inn[i + 1] /\ inn'[i + 1] = inn[i + 2] /\ i + 1 \in 1 .. Len(inn) - 1
    BY <1>1
  <2>2. Follows(inn[i + 1], inn[(i + 1) + 1])
    BY <2>1 DEF InInv
  <2>3. (i + 1) + 1 = i + 2
    OBVIOUS
  <2> QED BY <2>1, <2>2, <2>3
<1>3. inn' # <<>> => inn'[Len(inn')] = inn[Len(inn)]
  BY <1>1
<1>4. inn' # <<>> =>
          half' = IF Begins(inn'[Len(inn')]) THEN inn'[Len(inn')].kind ELSE NoFrame
  BY <1>3 DEF InInv, Begins
<1> QED BY <1>1, <1>2, <1>4

LEMMA InReadLen ==
    ASSUME InInv, ReadLen
    PROVE  InInv'
<1>1. inn' = Tail(inn) /\ half' = half /\ rpc = "len" /\ inn # <<>>
  BY DEF ReadLen, ReaderFails, ReaderGoes, device
<1>2. /\ Tail(inn) \in Seq(InPiece) /\ Len(inn) \in Nat \ {0} /\ Len(Tail(inn)) = Len(inn) - 1
      /\ \A i \in 1 .. Len(inn) - 1 : Tail(inn)[i] = inn[i + 1]
      /\ Head(inn) = inn[1] /\ inn[1] \in InPiece /\ (Tail(inn) = <<>> <=> Len(inn) = 1)
  BY <1>1, InTail
<1>3. \A i \in 1 .. Len(inn') - 1 : Follows(inn'[i], inn'[i + 1])
  BY <1>1, InTail
<1>4. inn' # <<>> =>
          half' = IF Begins(inn'[Len(inn')]) THEN inn'[Len(inn')].kind ELSE NoFrame
  BY <1>1, InTail
<1>5. CASE inn[1].kind \in {"ZERO", "HUGE"}
  <2>1. rpc' = "down"
    BY <1>2, <1>5 DEF ReadLen, ReaderFails, ReaderGoes
  <2> QED BY <1>2, <1>1, <1>3, <1>4, <2>1 DEF InInv, InType
<1>6. CASE inn[1].kind \notin {"ZERO", "HUGE"}
  <2>1. rpc' = "body" /\ rlen' = inn[1].kind
    BY <1>2, <1>6 DEF ReadLen, ReaderGoes
  <2>2. Begins(inn[1]) /\ inn[1].kind \in Kinds
    BY <1>2, <1>1, <1>6 DEF InInv, Begins, InPiece
  <2>3. Len(inn) > 1 => inn[2] = [part |-> "body", kind |-> inn[1].kind]
    BY <1>2, <2>2 DEF InInv, Follows
  <2>4. Len(inn) = 1 => half = inn[1].kind
    BY <1>1, <2>2 DEF InInv
  <2>5. IF inn' = <<>> THEN half' = rlen' ELSE inn'[1] = [part |-> "body", kind |-> rlen']
    BY <1>2, <1>1, <2>1, <2>3, <2>4
  <2> QED BY <1>2, <1>1, <1>3, <1>4, <2>1, <2>2, <2>5 DEF InInv, InType
<1> QED BY <1>5, <1>6

LEMMA InReadBody ==
    ASSUME InInv, ReadBody
    PROVE  InInv'
<1>1. inn' = Tail(inn) /\ half' = half /\ rpc = "body" /\ inn # <<>>
  BY DEF ReadBody, ReaderFails, ReaderGoes, device
<1>2. /\ Tail(inn) \in Seq(InPiece) /\ Len(inn) \in Nat \ {0} /\ Len(Tail(inn)) = Len(inn) - 1
      /\ \A i \in 1 .. Len(inn) - 1 : Tail(inn)[i] = inn[i + 1]
      /\ Head(inn) = inn[1] /\ inn[1] \in InPiece /\ (Tail(inn) = <<>> <=> Len(inn) = 1)
  BY <1>1, InTail
<1>3. \A i \in 1 .. Len(inn') - 1 : Follows(inn'[i], inn'[i + 1])
  BY <1>1, InTail
<1>4. inn' # <<>> =>
          half' = IF Begins(inn'[Len(inn')]) THEN inn'[Len(inn')].kind ELSE NoFrame
  BY <1>1, InTail
<1>5. ~Begins(inn[1])
  BY <1>1 DEF InInv, Begins
<1>6. /\ Len(inn) > 1 => inn[2].part = "len"
      /\ Len(inn) = 1 => half = NoFrame
  BY <1>2, <1>1, <1>5 DEF InInv, Follows
<1>7. IF inn' = <<>> THEN half' = NoFrame ELSE inn'[1].part = "len"
  BY <1>2, <1>1, <1>6
<1>8. rpc' \in {"len", "pong", "down"}
  BY DEF ReadBody, ReaderFails, ReaderGoes
<1> QED BY <1>2, <1>1, <1>3, <1>4, <1>7, <1>8 DEF InInv, InType

LEMMA InDeviceSends ==
    ASSUME InInv, DeviceSends
    PROVE  InInv'
<1>1. PICK x \in InPiece :
        /\ inn' = Append(inn, x)
        /\ half' = IF Begins(x) THEN x.kind ELSE NoFrame
        /\ half # NoFrame => x = [part |-> "body", kind |-> half]
        /\ half = NoFrame => x.part = "len"
  <2>1. CASE half # NoFrame
    <3>1. [part |-> "body", kind |-> half] \in InPiece
      BY <2>1 DEF InInv, InType, InPiece
    <3> QED BY <2>1, <3>1 DEF DeviceSends, Begins
  <2>2. CASE half = NoFrame
    <3>1. PICK k \in Kinds : /\ inn' = Append(inn, [part |-> "len", kind |-> k])
                             /\ half' = IF k = "ZERO" THEN NoFrame ELSE k
      BY <2>2 DEF DeviceSends
    <3>2. [part |-> "len", kind |-> k] \in InPiece
      BY DEF InPiece
    <3> QED BY <2>2, <3>1, <3>2 DEF Begins
  <2> QED BY <2>1, <2>2
<1>2. UNCHANGED <<rpc, rlen>>
  BY DEF DeviceSends, DeviceOnly, reader
<1>3. /\ inn' \in Seq(InPiece) /\ Len(inn) \in Nat /\ Len(inn') = Len(inn) + 1
      /\ \A i \in 1 .. Len(inn) : inn'[i] = inn[i]
      /\ inn'[Len(inn) + 1] = x /\ inn' # <<>> /\ (inn = <<>> <=> Len(inn) = 0)
  <2>1. inn \in Seq(InPiece)
    BY DEF InInv, InType
  <2> QED BY <1>1, <2>1, AppendToSeq
<1>4. half' \in Kinds \cup {NoFrame}
  BY <1>1 DEF InPiece
<1>5. inn # <<>> => Follows(inn[Len(inn)], x)
  <2>1. NoFrame \notin Kinds
    BY DEF NoFrame, Kinds
  <2>2. inn # <<>> => inn[Len(inn)] \in InPiece
    BY <1>3 DEF InInv, InType
  <2> QED BY <1>1, <2>1, <2>2 DEF InInv, Follows, InPiece
<1>6. \A i \in 1 .. Len(inn') - 1 : Follows(inn'[i], inn'[i + 1])
  BY <1>3, <1>5 DEF InInv
<1>7. half' = IF Begins(inn'[Len(inn')]) THEN inn'[Len(inn')].kind ELSE NoFrame
  BY <1>1, <1>3
<1>8. rpc \in {"len", "pong"} => inn'[1].part = "len"
  BY <1>1, <1>3 DEF InInv
<1>9. rpc = "body" => inn'[1] = [part |-> "body", kind |-> rlen]
  <2>1. rpc = "body" => rlen # NoFrame
    BY DEF InInv, InType, NoFrame, Kinds
  <2> QED BY <1>1, <1>3, <2>1 DEF InInv
<1> QED BY <1>2, <1>3, <1>4, <1>6, <1>7, <1>8, <1>9 DEF InInv, InType

LEMMA InStep == InInv /\ [Next]_vars => InInv'
<1> SUFFICES ASSUME InInv, [Next]_vars PROVE InInv'
  OBVIOUS
<1>1. CASE ReadLen
  BY <1>1, InReadLen
<1>2. CASE ReadBody
  BY <1>2, InReadBody
<1>3. CASE DeviceSends
  BY <1>3, InDeviceSends
<1>4. CASE ReadEof \/ SendPong \/ ReaderCancelled
  BY <1>4, InKept
  DEF ReadEof, SendPong, ReaderCancelled, ReaderFails, ReaderGoes, device
<1>5. CASE Request \/ WriterStep \/ Tick
  BY <1>5, InKept
  DEF Request, WriterStep, WriterTakes, WriterPuts, WriterFails, WriterCancelled, WriterGoes,
      Tick, reader, device
<1>6. CASE HeartbeatStep
  BY <1>6, InKept
  DEF HeartbeatStep, HeartbeatTicks, HeartbeatPings, HeartbeatChecks, HeartbeatCancelled,
      HeartbeatGoes, reader, device
<1>7. CASE DeviceReads \/ DeviceEnds
  BY <1>7, InKept DEF DeviceReads, DeviceEnds, DeviceOnly, reader, device
<1>8. CASE UNCHANGED vars
  BY <1>8, InKept DEF vars, reader, device
<1> QED
  BY <1>1, <1>2, <1>3, <1>4, <1>5, <1>6, <1>7, <1>8 DEF Next, ReaderStep

\* The reader never takes a body for a length or a length for a body, although
\* it may refuse, be cancelled or fail anywhere within a frame
\* (framing.rs:15-45, client.rs:896-932), whatever the device sends.
THEOREM ReaderStaysInStep == Spec => []ReaderInStep
<1>1. InInv => ReaderInStep
  BY DEF InInv, ReaderInStep
<1> QED BY <1>1, InInit, InStep, PTL DEF Spec

-----------------------------------------------------------------------------
(* Outbound                                                                *)

OutPiece == [part: {"len", "body"}, n: Int]
OutMessage == [n: Int, big: BOOLEAN]

\* The place of a piece in the stream that starts with message 1.
Place(p) == 2 * p.n - (IF p.part = "len" THEN 1 ELSE 0)

\* Whether the device has taken the length of the first frame already.
Taken == IF out # <<>> /\ out[1].part = "body" THEN 1 ELSE 0

\* The number of the last message on the wire, and of the last one that has
\* left the channel.
OnWire == IF out = <<>> THEN 0 ELSE out[Len(out)].n
Left == IF wpc = "idle" THEN OnWire ELSE wmsg.n

OutType ==
    /\ out \in Seq(OutPiece) /\ queue \in Seq(OutMessage) /\ enq \in Int
    /\ wpc \in {"idle", "write", "body", "down"} /\ wmsg \in OutMessage

\* The writer is where the last piece is.
WriterInStep ==
    /\ wpc \in {"idle", "write"} /\ out # <<>> => out[Len(out)].part = "body"
    /\ wpc = "write" => wmsg.n = OnWire + 1
    /\ wpc = "body" => IF out = <<>> THEN wmsg.n = 1
                       ELSE out[Len(out)] = [part |-> "len", n |-> wmsg.n]

QueueInOrder ==
    /\ \A i \in 1 .. Len(queue) : queue[i].n = Left + i
    /\ wpc # "down" => enq = Left + Len(queue)
    /\ wpc = "down" => queue = <<>>

\* Pieces are in their places, without a gap.
OutInv ==
    /\ OutType
    /\ \A i \in 1 .. Len(out) : Place(out[i]) = i + Taken
    /\ WriterInStep
    /\ QueueInOrder

LEMMA OutInit == Init => OutInv
  BY DEF Init, OutInv, OutType, OutPiece, OutMessage, NoMessage, WriterInStep, QueueInOrder,
         Left, OnWire

\* The last piece's number is a natural one.
LEMMA OnWireIsNat ==
    ASSUME OutInv
    PROVE  /\ Len(out) \in Nat /\ (out = <<>> <=> Len(out) = 0)
           /\ out # <<>> => out[Len(out)] \in OutPiece /\ out[1] \in OutPiece
           /\ OnWire \in Nat /\ Taken \in {0, 1} /\ (out # <<>> => OnWire > 0)
<1>1. Len(out) \in Nat /\ (out = <<>> <=> Len(out) = 0)
  BY EmptyIffLen0 DEF OutInv, OutType
<1>2. out # <<>> => out[Len(out)] \in OutPiece /\ out[1] \in OutPiece
  BY <1>1, ElementOfSeq DEF OutInv, OutType
<1>3. Taken \in {0, 1}
  BY DEF Taken
<1>4. out # <<>> => out[Len(out)].n \in Int /\ Place(out[Len(out)]) = Len(out) + Taken
  BY <1>1, <1>2 DEF OutInv, OutPiece
<1>5. OnWire \in Nat /\ (out # <<>> => OnWire > 0)
  BY <1>1, <1>3, <1>4 DEF OnWire, Place
<1> QED BY <1>1, <1>2, <1>3, <1>5

\* Steps of others than writer and device do at most one thing: they queue.
LEMMA OutEnqueues ==
    ASSUME OutInv, UNCHANGED <<wpc, wmsg, out>>,
           (\E big \in BOOLEAN : Enqueue(big)) \/ UNCHANGED <<queue, enq>>
    PROVE  OutInv'
<1>1. CASE UNCHANGED <<queue, enq>>
  BY <1>1 DEF OutInv, OutType, WriterInStep, QueueInOrder, Left, OnWire, Taken
<1>2. ASSUME NEW big \in BOOLEAN, Enqueue(big) PROVE OutInv'
  <2> DEFINE m == [n |-> enq + 1, big |-> big]
  <2>1. queue \in Seq(OutMessage) /\ m \in OutMessage /\ enq \in Int /\ wpc # "down"
    BY <1>2 DEF OutInv, OutType, OutMessage, Enqueue
  <2>2. queue' = Append(queue, m) /\ enq' = enq + 1
    BY <1>2 DEF Enqueue
  <2> HIDE DEF m
  <2>3. /\ queue' \in Seq(OutMessage) /\ Len(queue) \in Nat /\ Len(queue') = Len(queue) + 1
        /\ \A i \in 1 .. Len(queue) : queue'[i] = queue[i]
        /\ queue'[Len(queue) + 1] = m
    BY <2>1, <2>2, AppendToSeq
  <2>4. OnWire' = OnWire /\ Left' = Left /\ Taken' = Taken /\ Left \in Int
    <3>1. OnWire' = OnWire /\ Left' = Left /\ Taken' = Taken
      BY DEF OnWire, Left, Taken
    <3>2. OnWire \in Int /\ wmsg.n \in Int
      BY OnWireIsNat DEF OutInv, OutType, OutMessage
    <3> QED BY <3>1, <3>2 DEF Left
  <2>5. \A i \in 1 .. Len(queue') : queue'[i].n = Left' + i
    <3>1. m.n = Left + (Len(queue) + 1)
      BY <2>1, <2>3, <2>4 DEF m, OutInv, QueueInOrder
    <3> SUFFICES ASSUME NEW i \in 1 .. Len(queue') PROVE queue'[i].n = Left' + i
      OBVIOUS
    <3>2. CASE i = Len(queue) + 1
      BY <2>3, <2>4, <3>1, <3>2
    <3>3. CASE i \in 1 .. Len(queue)
      BY <2>3, <2>4, <3>3 DEF OutInv, QueueInOrder
    <3> QED BY <2>3, <3>2, <3>3
  <2>6. enq' = Left' + Len(queue')
    BY <2>1, <2>2, <2>3, <2>4 DEF OutInv, QueueInOrder
  <2> QED BY <2>1, <2>2, <2>3, <2>4, <2>5, <2>6
          DEF OutInv, OutType, WriterInStep, QueueInOrder
<1> QED BY <1>1, <1>2

LEMMA OutWriterTakes ==
    ASSUME OutInv, WriterTakes
    PROVE  OutInv'
<1>1. /\ wpc = "idle" /\ wpc' = "write" /\ wmsg' = Head(queue) /\ queue' = Tail(queue)
      /\ UNCHANGED <<out, enq>> /\ queue # <<>> /\ queue \in Seq(OutMessage)
  BY DEF WriterTakes, WriterGoes, OutInv, OutType
<1>2. /\ queue' \in Seq(OutMessage) /\ Len(queue) \in Nat \ {0} /\ Len(queue') = Len(queue) - 1
      /\ \A i \in 1 .. Len(queue) - 1 : queue'[i] = queue[i + 1]
      /\ wmsg' = queue[1] /\ queue[1] \in OutMessage
  BY <1>1, TailOfSeq
<1>3. UNCHANGED <<OnWire, Taken>> /\ Left = OnWire /\ Left' = wmsg'.n /\ OnWire \in Nat
  BY <1>1, OnWireIsNat DEF OnWire, Taken, Left
<1>4. wmsg'.n = OnWire + 1
  BY <1>2, <1>3 DEF OutInv, QueueInOrder
<1>5. \A i \in 1 .. Len(queue') : queue'[i].n = Left' + i
  <2> SUFFICES ASSUME NEW i \in 1 .. Len(queue') PROVE queue'[i].n = Left' + i
    OBVIOUS
  <2>1. queue'[i] = queue[i + 1] /\ i + 1 \in 1 .. Len(queue)
    BY <1>2
  <2>2. queue[i + 1].n = Left + (i + 1)
    BY <2>1 DEF OutInv, QueueInOrder
  <2> QED BY <1>3, <1>4, <2>1, <2>2
<1>6. enq' = Left' + Len(queue')
  BY <1>1, <1>2, <1>3, <1>4 DEF OutInv, QueueInOrder
<1>7. WriterInStep'
  BY <1>1, <1>3, <1>4 DEF OutInv, WriterInStep
<1> QED BY <1>1, <1>2, <1>3, <1>5, <1>6, <1>7 DEF OutInv, OutType, QueueInOrder

LEMMA OutWriterPuts ==
    ASSUME OutInv, WriterPuts
    PROVE  OutInv'
<1> DEFINE x == [part |-> IF wpc = "write" THEN "len" ELSE "body", n |-> wmsg.n]
<1>1. /\ wpc \in {"write", "body"} /\ wpc' = IF wpc = "write" THEN "body" ELSE "idle"
      /\ wmsg' = IF wpc = "write" THEN wmsg ELSE NoMessage
      /\ UNCHANGED <<queue, enq>> /\ out' = Append(out, x)
  BY DEF WriterPuts, WriterGoes
<1>2. x \in OutPiece /\ wmsg.n \in Int /\ wmsg' \in OutMessage
  BY <1>1 DEF OutInv, OutType, OutPiece, OutMessage, NoMessage
<1> HIDE DEF x
<1>3. /\ out' \in Seq(OutPiece) /\ Len(out) \in Nat /\ Len(out') = Len(out) + 1
      /\ \A i \in 1 .. Len(out) : out'[i] = out[i]
      /\ out'[Len(out) + 1] = x /\ out' # <<>> /\ (out = <<>> <=> Len(out) = 0)
  <2>1. out \in Seq(OutPiece)
    BY DEF OutInv, OutType
  <2> QED BY <1>1, <1>2, <2>1, AppendToSeq
<1>4. Place(x) = Len(out) + 1 + Taken'
  <2>1. CASE out = <<>>
    <3>1. x.n = 1 /\ x.part = IF wpc = "write" THEN "len" ELSE "body"
      BY <1>1, <2>1 DEF x, OutInv, WriterInStep, OnWire
    <3> QED BY <1>1, <1>3, <2>1, <3>1 DEF Place, Taken
  <2>2. CASE out # <<>>
    <3>1. Taken' = Taken /\ Taken \in {0, 1}
      BY <1>3, <2>2 DEF Taken
    <3>2. Place(out[Len(out)]) = Len(out) + Taken
      BY <1>3, <2>2 DEF OutInv
    <3>3. Place(x) = Place(out[Len(out)]) + 1
      <4>1. CASE wpc = "write"
        <5>1. /\ out[Len(out)].part = "body" /\ x.part = "len"
              /\ x.n = out[Len(out)].n + 1 /\ out[Len(out)].n \in Int
          BY <2>2, <4>1, OnWireIsNat DEF x, OutInv, WriterInStep, OnWire
        <5> QED BY <5>1 DEF Place
      <4>2. CASE wpc = "body"
        <5>1. out[Len(out)] = [part |-> "len", n |-> wmsg.n] /\ x.part = "body" /\ x.n = wmsg.n
          BY <2>2, <4>2 DEF x, OutInv, WriterInStep
        <5> QED BY <1>2, <5>1 DEF Place
      <4> QED BY <1>1, <4>1, <4>2
    <3> QED BY <1>3, <3>1, <3>2, <3>3
  <2> QED BY <2>1, <2>2
<1>5. \A i \in 1 .. Len(out) : Place(out[i]) = i + Taken'
  <2>1. out # <<>> => Taken' = Taken
    BY <1>3 DEF Taken
  <2> QED BY <1>3, <2>1 DEF OutInv
<1>6. \A i \in 1 .. Len(out') : Place(out'[i]) = i + Taken'
  BY <1>3, <1>4, <1>5
<1>7. OnWire' = wmsg.n /\ Left' = Left /\ Left = wmsg.n
  BY <1>1, <1>3 DEF OnWire, Left, x
<1>8. WriterInStep'
  BY <1>1, <1>3 DEF WriterInStep, x
<1>9. QueueInOrder'
  BY <1>1, <1>7 DEF OutInv, QueueInOrder
<1> QED BY <1>1, <1>2, <1>3, <1>6, <1>8, <1>9 DEF OutInv, OutType

\* A writer that ends leaves the wire as it is and an empty channel.
LEMMA OutWriterEnds ==
    ASSUME OutInv, WriterFails \/ WriterCancelled
    PROVE  OutInv'
<1>1. wpc' = "down" /\ queue' = <<>> /\ UNCHANGED <<out, enq>> /\ wmsg' \in {wmsg, NoMessage}
  <2>1. CASE WriterFails
    BY <2>1 DEF WriterFails, WriterGoes
  <2>2. CASE WriterCancelled
    BY <2>2 DEF WriterCancelled, WriterGoes
  <2> QED BY <2>1, <2>2
<1>2. queue' \in Seq(OutMessage) /\ Len(queue') = 0 /\ Taken' = Taken
  BY <1>1 DEF Taken
<1>3. wmsg' \in OutMessage
  <2>1. wmsg \in OutMessage
    BY DEF OutInv, OutType
  <2>2. NoMessage \in OutMessage
    BY DEF NoMessage, OutMessage
  <2> QED BY <1>1, <2>1, <2>2
<1> QED BY <1>1, <1>2, <1>3 DEF OutInv, OutType, WriterInStep, QueueInOrder

\* What the new numbering does to a sequence.
LEMMA AfterOfSeq ==
    ASSUME NEW S, NEW q \in Seq(S), NEW k, \A y \in S : [y EXCEPT !.n = @ - k] \in S
    PROVE  /\ After(k, q) \in Seq(S) /\ Len(After(k, q)) = Len(q) /\ Len(q) \in Nat
           /\ \A i \in 1 .. Len(q) :
                 q[i] \in S /\ After(k, q)[i] = [q[i] EXCEPT !.n = @ - k]
<1>1. Len(q) \in Nat /\ DOMAIN q = 1 .. Len(q) /\ \A i \in 1 .. Len(q) : q[i] \in S
  BY LenProperties, ElementOfSeq
<1>2. After(k, q) = [i \in 1 .. Len(q) |-> [q[i] EXCEPT !.n = @ - k]]
  BY <1>1 DEF After
<1>3. After(k, q) \in [1 .. Len(q) -> S]
  BY <1>1, <1>2
<1>4. After(k, q) \in Seq(S)
  BY <1>1, <1>3, SeqDef
<1>5. DOMAIN After(k, q) = 1 .. Len(After(k, q)) /\ Len(After(k, q)) \in Nat
  BY <1>4, LenProperties
<1>6. Len(After(k, q)) = Len(q)
  BY <1>1, <1>2, <1>5
<1> QED BY <1>1, <1>2, <1>4, <1>6

LEMMA OutDeviceReads ==
    ASSUME OutInv, DeviceReads
    PROVE  OutInv'
<1> DEFINE k == IF Head(out).part = "body" THEN Head(out).n ELSE 0
<1>1. /\ out # <<>> /\ out' = After(k, Tail(out)) /\ queue' = After(k, queue)
      /\ enq' = enq - k /\ UNCHANGED wpc
      /\ wmsg' = IF wmsg = NoMessage THEN wmsg ELSE [wmsg EXCEPT !.n = @ - k]
  BY DEF DeviceReads
<1>2. /\ Tail(out) \in Seq(OutPiece) /\ Len(out) \in Nat \ {0}
      /\ Len(Tail(out)) = Len(out) - 1
      /\ \A i \in 1 .. Len(out) - 1 : Tail(out)[i] = out[i + 1]
      /\ Head(out) = out[1] /\ out[1] \in OutPiece
  <2>1. out \in Seq(OutPiece)
    BY DEF OutInv, OutType
  <2> QED BY <1>1, <2>1, TailOfSeq
<1>3. out[1].n = 1 /\ k = Taken /\ Taken \in {0, 1} /\ (out[1].part = "body" <=> Taken = 1)
  <2>1. Place(out[1]) = 1 + Taken
    BY <1>2 DEF OutInv
  <2>2. Taken = (IF out[1].part = "body" THEN 1 ELSE 0) /\ out[1].n \in Int
        /\ out[1].part \in {"len", "body"}
    BY <1>1, <1>2 DEF Taken, OutPiece
  <2>3. out[1].n = 1
    BY <2>1, <2>2 DEF Place
  <2> QED BY <1>2, <2>2, <2>3
<1> HIDE DEF k
<1>4. /\ out' \in Seq(OutPiece) /\ Len(out') = Len(out) - 1
      /\ \A i \in 1 .. Len(out) - 1 :
            out[i + 1] \in OutPiece /\ out'[i] = [out[i + 1] EXCEPT !.n = @ - k]
  <2>1. \A y \in OutPiece : [y EXCEPT !.n = @ - k] \in OutPiece
    BY <1>3 DEF OutPiece
  <2> DEFINE t == Tail(out)
  <2>2. t \in Seq(OutPiece) /\ out' = After(k, t)
    BY <1>1, <1>2
  <2> HIDE DEF t
  <2>3. /\ out' \in Seq(OutPiece) /\ Len(out') = Len(t)
        /\ \A i \in 1 .. Len(t) : t[i] \in OutPiece /\ out'[i] = [t[i] EXCEPT !.n = @ - k]
    BY <2>1, <2>2, AfterOfSeq
  <2> QED BY <1>2, <2>3 DEF t
<1>5. /\ queue' \in Seq(OutMessage) /\ Len(queue') = Len(queue) /\ Len(queue) \in Nat
      /\ \A i \in 1 .. Len(queue) :
            queue[i] \in OutMessage /\ queue'[i] = [queue[i] EXCEPT !.n = @ - k]
  <2>1. \A y \in OutMessage : [y EXCEPT !.n = @ - k] \in OutMessage
    BY <1>3 DEF OutMessage
  <2> QED BY <1>1, <2>1, AfterOfSeq DEF OutInv, OutType
<1>6. \A i \in 1 .. Len(out') :
         /\ out'[i].n = out[i + 1].n - k /\ out'[i].part = out[i + 1].part
         /\ out[i + 1].n \in Int /\ out[i + 1].part \in {"len", "body"}
         /\ Place(out[i + 1]) = i + 1 + Taken
         /\ Place(out'[i]) = i + 1 - Taken
  <2> SUFFICES ASSUME NEW i \in 1 .. Len(out')
               PROVE  /\ out'[i].n = out[i + 1].n - k /\ out'[i].part = out[i + 1].part
                      /\ out[i + 1].n \in Int /\ out[i + 1].part \in {"len", "body"}
                      /\ Place(out[i + 1]) = i + 1 + Taken
                      /\ Place(out'[i]) = i + 1 - Taken
    OBVIOUS
  <2>1. /\ out'[i].n = out[i + 1].n - k /\ out'[i].part = out[i + 1].part
        /\ out[i + 1].n \in Int /\ out[i + 1].part \in {"len", "body"}
    <3>1. out[i + 1] \in OutPiece /\ out'[i] = [out[i + 1] EXCEPT !.n = @ - k]
      BY <1>2, <1>4
    <3> QED BY <3>1 DEF OutPiece
  <2>2. Place(out[i + 1]) = i + 1 + Taken
    <3>1. i + 1 \in 1 .. Len(out)
      BY <1>2, <1>4
    <3> QED BY <3>1 DEF OutInv
  <2>3. Place(out'[i]) = Place(out[i + 1]) - 2 * Taken
    BY <1>3, <2>1 DEF Place
  <2>4. Place(out'[i]) = i + 1 - Taken
    <3> DEFINE a == Place(out[i + 1])
               b == Place(out'[i])
               t == Taken
    <3>1. a = i + 1 + t /\ b = a - 2 * t /\ t \in {0, 1} /\ i \in Int
      BY <1>3, <2>2, <2>3
    <3> HIDE DEF a, b, t
    <3>2. b = i + 1 - t
      BY <3>1
    <3> QED BY <3>2 DEF b, t
  <2> QED BY <2>1, <2>2, <2>4
<1>7. out' # <<>> => Taken' = 1 - Taken
  <2>1. ASSUME out' # <<>> PROVE 1 \in 1 .. Len(out') /\ Taken' = IF out'[1].part = "body" THEN 1 ELSE 0
    BY <1>4, <2>1, EmptyIffLen0 DEF Taken
  <2>2. ASSUME out' # <<>> PROVE out'[1].part = "body" <=> Taken = 0
    <3>1. /\ out'[1].part = out[2].part /\ out[2].n \in Int
          /\ out[2].part \in {"len", "body"} /\ Place(out[2]) = 2 + Taken
      BY <1>3, <1>6, <2>1, <2>2
    <3>2. out[2].part = "body" => Taken = 0
      BY <1>3, <3>1 DEF Place
    <3>3. out[2].part = "len" => Taken = 1
      BY <1>3, <3>1 DEF Place
    <3> QED BY <3>1, <3>2, <3>3
  <2> QED BY <1>3, <2>1, <2>2
<1>8. \A i \in 1 .. Len(out') : Place(out'[i]) = i + Taken'
  <2>1. Len(out') > 0 => out' # <<>>
    BY <1>4
  <2> QED BY <1>2, <1>3, <1>4, <1>6, <1>7, <2>1
<1>9. /\ out' = <<>> <=> Len(out) = 1
      /\ out' # <<>> => Len(out') \in 1 .. Len(out') /\ Len(out') + 1 = Len(out)
  BY <1>2, <1>4, EmptyIffLen0
<1>10. out' # <<>> => OnWire' = OnWire - k /\ out'[Len(out')].part = out[Len(out)].part
  BY <1>1, <1>6, <1>9 DEF OnWire
<1>11. out' = <<>> => OnWire' = 0 /\ OnWire = 1
  BY <1>1, <1>3, <1>9 DEF OnWire
<1>12. wpc \in {"write", "body"} => wmsg' = [wmsg EXCEPT !.n = @ - k] /\ wmsg'.n = wmsg.n - k
  <2>1. wpc \in {"write", "body"} => wmsg.n > 0 /\ wmsg.n \in Int
    BY <1>1, OnWireIsNat DEF OutInv, OutType, OutMessage, WriterInStep, OnWire
  <2> QED BY <1>1, <2>1 DEF NoMessage, OutInv, OutType, OutMessage
<1>13. wmsg' \in OutMessage
  BY <1>1, <1>3 DEF OutInv, OutType, OutMessage
<1>14. wpc \in {"idle", "write"} => OnWire' = OnWire - k
  <2>1. wpc \in {"idle", "write"} /\ out' = <<>> => out[1].part = "body"
    BY <1>1, <1>9 DEF OutInv, WriterInStep
  <2> QED BY <1>3, <1>10, <1>11, <2>1
<1>15. WriterInStep'
  <2>1. wpc \in {"idle", "write"} /\ out' # <<>> => out'[Len(out')].part = "body"
    BY <1>1, <1>10 DEF OutInv, WriterInStep
  <2>2. wpc = "write" => wmsg'.n = OnWire' + 1
    BY <1>3, <1>12, <1>14, OnWireIsNat DEF OutInv, WriterInStep
  <2>3. wpc = "body" /\ out' = <<>> => wmsg'.n = 1
    BY <1>1, <1>3, <1>9, <1>12 DEF OutInv, WriterInStep
  <2>4. wpc = "body" /\ out' # <<>> => out'[Len(out')] = [part |-> "len", n |-> wmsg'.n]
    <3>1. out' # <<>> => out'[Len(out')] = [out[Len(out)] EXCEPT !.n = @ - k]
      BY <1>4, <1>9
    <3> QED BY <1>1, <1>12, <3>1 DEF OutInv, WriterInStep
  <2> QED BY <1>1, <2>1, <2>2, <2>3, <2>4 DEF WriterInStep
<1>16. QueueInOrder'
  <2>1. wpc # "down" => Left' = Left - k /\ Left \in Int
    BY <1>1, <1>12, <1>14, OnWireIsNat DEF Left, OutInv, OutType, OutMessage
  <2>2. wpc = "down" => queue' = <<>>
    BY <1>5, EmptyIffLen0 DEF OutInv, QueueInOrder
  <2>3. ASSUME NEW i \in 1 .. Len(queue') PROVE queue'[i].n = Left' + i
    <3>1. wpc # "down" /\ queue[i].n = Left + i
      BY <1>5 DEF OutInv, QueueInOrder
    <3>2. queue'[i].n = queue[i].n - k
      <4>1. queue[i] \in OutMessage /\ queue'[i] = [queue[i] EXCEPT !.n = @ - k]
        BY <1>5
      <4> QED BY <4>1 DEF OutMessage
    <3> QED BY <1>3, <2>1, <3>1, <3>2
  <2>4. wpc # "down" => enq' = Left' + Len(queue')
    BY <1>1, <1>3, <1>5, <2>1 DEF OutInv, QueueInOrder
  <2> QED BY <1>1, <2>2, <2>3, <2>4 DEF QueueInOrder
<1>17. enq' \in Int
  BY <1>1, <1>3 DEF OutInv, OutType
<1> QED BY <1>1, <1>4, <1>5, <1>8, <1>13, <1>15, <1>16, <1>17 DEF OutInv, OutType

LEMMA OutStep == OutInv /\ [Next]_vars => OutInv'
<1> SUFFICES ASSUME OutInv, [Next]_vars PROVE OutInv'
  OBVIOUS
<1>1. CASE WriterStep
  BY <1>1, OutWriterTakes, OutWriterPuts, OutWriterEnds DEF WriterStep
<1>2. CASE DeviceReads
  BY <1>2, OutDeviceReads
<1>3. CASE Request \/ Tick
  BY <1>3, OutEnqueues DEF Request, Tick, chan, writer
<1>4. CASE ReaderStep
  BY <1>4, OutEnqueues
  DEF ReaderStep, ReadLen, ReadBody, ReadEof, SendPong, ReaderCancelled, ReaderFails,
      ReaderGoes, chan, writer
<1>5. CASE HeartbeatStep
  BY <1>5, OutEnqueues
  DEF HeartbeatStep, HeartbeatTicks, HeartbeatPings, HeartbeatChecks, HeartbeatCancelled,
      HeartbeatGoes, chan, writer
<1>6. CASE DeviceSends \/ DeviceEnds \/ UNCHANGED vars
  BY <1>6, OutEnqueues DEF DeviceSends, DeviceEnds, chan, writer, vars
<1> QED
  BY <1>1, <1>2, <1>3, <1>4, <1>5, <1>6 DEF Next

\* Two tasks and any number of callers queue, one writer writes, and it may
\* fail anywhere: what the device gets is whole frames in the order in which
\* they were queued, none lost, none twice, cut only where the stream ends
\* (framing.rs:52-73, client.rs:863-868).
THEOREM FramesStayWhole == Spec => []DeviceSeesWholeFrames
<1>1. OutInv => DeviceSeesWholeFrames
  <2> SUFFICES ASSUME OutInv PROVE DeviceSeesWholeFrames
    OBVIOUS
  <2>1. /\ Len(out) \in Nat /\ Taken \in {0, 1} /\ DOMAIN out = 1 .. Len(out)
        /\ \A i \in 1 .. Len(out) : out[i] \in OutPiece
    BY OnWireIsNat, LenProperties, ElementOfSeq DEF OutInv, OutType
  <2>2. \A i \in 1 .. Len(out) : /\ Place(out[i]) = i + Taken /\ out[i].n \in Int
                                 /\ out[i].part \in {"len", "body"}
    BY <2>1 DEF OutInv, OutPiece
  <2>3. ASSUME NEW i \in 1 .. Len(out), i = 1 PROVE out[i].n = 1
    BY <2>1, <2>2, <2>3 DEF Place
  <2>4. ASSUME NEW i \in 1 .. Len(out), i > 1
        PROVE  IF out[i].part = "len" THEN out[i - 1] = [part |-> "body", n |-> out[i].n - 1]
                                      ELSE out[i - 1] = [part |-> "len", n |-> out[i].n]
    <3>1. i - 1 \in 1 .. Len(out)
      BY <2>1, <2>4
    <3>2. /\ Place(out[i]) = i + Taken /\ Place(out[i - 1]) = i - 1 + Taken
          /\ out[i].n \in Int /\ out[i - 1].n \in Int
          /\ out[i].part \in {"len", "body"} /\ out[i - 1].part \in {"len", "body"}
      BY <2>2, <3>1
    <3>3. Place(out[i]) = Place(out[i - 1]) + 1
      BY <2>1, <3>2
    <3>4. /\ out[i - 1].part = IF out[i].part = "len" THEN "body" ELSE "len"
          /\ out[i - 1].n = IF out[i].part = "len" THEN out[i].n - 1 ELSE out[i].n
      <4>1. CASE out[i].part = "len" /\ out[i - 1].part = "len"
        BY <3>2, <3>3, <4>1 DEF Place
      <4>2. CASE out[i].part = "len" /\ out[i - 1].part = "body"
        BY <3>2, <3>3, <4>2 DEF Place
      <4>3. CASE out[i].part = "body" /\ out[i - 1].part = "len"
        BY <3>2, <3>3, <4>3 DEF Place
      <4>4. CASE out[i].part = "body" /\ out[i - 1].part = "body"
        BY <3>2, <3>3, <4>4 DEF Place
      <4> QED BY <3>2, <4>1, <4>2, <4>3, <4>4
    <3>5. out[i - 1] = [part |-> out[i - 1].part, n |-> out[i - 1].n]
      BY <2>1, <3>1 DEF OutPiece
    <3> QED BY <3>4, <3>5
  <2>5. ASSUME NEW i \in 1 .. Len(out), i = Len(out), out[i].part = "len"
        PROVE  wpc \in {"body", "down"}
    BY <2>1, <2>5 DEF OutInv, OutType, WriterInStep
  <2>6. wpc = "write" => wmsg.n = OnWire + 1
    BY DEF OutInv, WriterInStep
  <2>7. ASSUME queue # <<>>
        PROVE  queue[Len(queue)].n = enq /\ queue[1].n = Left + 1
    <3>1. Len(queue) \in Nat \ {0} /\ wpc # "down"
      BY <2>7, EmptySeq DEF OutInv, OutType, QueueInOrder
    <3> QED BY <3>1 DEF OutInv, QueueInOrder
  <2> QED BY <2>1, <2>3, <2>4, <2>5, <2>6, <2>7 DEF DeviceSeesWholeFrames, OnWire, Left
<1> QED BY <1>1, OutInit, OutStep, PTL DEF Spec

-----------------------------------------------------------------------------
(* Type correctness                                                        *)

\* What the framing invariants say nothing of, but for the capacities.
RestOK ==
    /\ rlen \in Kinds \cup {NoFrame} /\ hpc \in {"tick", "ping", "check", "down"}
    /\ age \in 0 .. Timeout + 1 /\ due \in 0 .. MaxDue /\ alive \in BOOLEAN
    /\ dev \in {"ok", "dead", "closed"}
    /\ reqs \in 0 .. MaxReqs /\ frames \in 0 .. MaxFrames

\* Channel and socket are within their capacities, and a writer without a
\* message holds none.  The messages a writer that has ended left on the wire
\* were queued before, so that the device never takes the numbering below 0.
InBounds ==
    /\ Len(queue) <= Cap /\ Len(out) <= SockCap /\ Len(inn) <= SockCap
    /\ wpc \in {"idle", "down"} => wmsg = NoMessage
    /\ wpc = "down" => OnWire <= enq /\ enq <= Cap + SockCap + 1

LEMMA RestInit == Init => RestOK /\ InBounds
<1>1. Init => RestOK
  BY BoundAssumption DEF Init, RestOK, MaxDue
<1>2. Init => InBounds
  BY CapAssumption DEF Init, InBounds
<1> QED BY <1>1, <1>2

\* The numbers on the wire, at the writer and in the channel are bounded by the
\* capacities.
LEMMA NumbersAreBounded ==
    ASSUME OutInv, InBounds
    PROVE  /\ \A i \in 1 .. Len(out) : out[i].n \in 1 .. SockCap
           /\ OnWire \in 0 .. SockCap
           /\ wmsg.n \in 0 .. SockCap + 1
           /\ wpc # "down" => Left \in 0 .. SockCap + 1 /\ OnWire <= Left
           /\ enq \in Numbers /\ OnWire <= enq
<1>1. /\ Len(out) \in Nat /\ (out = <<>> <=> Len(out) = 0) /\ OnWire \in Nat
      /\ Taken \in {0, 1} /\ (out # <<>> => OnWire > 0) /\ Len(out) <= SockCap
      /\ SockCap \in Nat \ {0} /\ Cap \in Nat \ {0}
  BY OnWireIsNat, CapAssumption DEF InBounds
<1>2. ASSUME NEW i \in 1 .. Len(out) PROVE out[i].n \in 1 .. SockCap
  <2>1. out[i] \in OutPiece /\ Place(out[i]) = i + Taken
    BY <1>1, ElementOfSeq DEF OutInv, OutType
  <2>2. /\ out[i].n \in Int /\ 2 * out[i].n >= i + Taken /\ 2 * out[i].n <= i + Taken + 1
        /\ i \in Nat /\ i >= 1 /\ i <= SockCap
    BY <1>1, <2>1 DEF Place, OutPiece
  <2> QED BY <1>1, <2>2
<1>3. OnWire \in 0 .. SockCap
  BY <1>1, <1>2 DEF OnWire
<1>4. wmsg.n \in Int /\ Len(queue) \in Nat /\ Len(queue) <= Cap /\ enq \in Int
  BY EmptyIffLen0 DEF OutInv, OutType, OutMessage, InBounds
<1>5. wpc = "write" => wmsg.n = OnWire + 1
  BY DEF OutInv, WriterInStep
<1>6. wpc = "body" => wmsg.n \in 1 .. SockCap /\ OnWire <= wmsg.n
  BY <1>1, <1>3 DEF OutInv, WriterInStep, OnWire
<1>7. wpc \in {"idle", "down"} => wmsg.n = 0
  BY DEF InBounds, NoMessage
<1>8. wpc \in {"idle", "write", "body", "down"}
  BY DEF OutInv, OutType
<1>9. wmsg.n \in 0 .. SockCap + 1
  BY <1>1, <1>3, <1>5, <1>6, <1>7, <1>8
<1>10. wpc # "down" => Left \in 0 .. SockCap + 1 /\ OnWire <= Left
  <2>1. CASE wpc = "idle"
    BY <1>1, <1>3, <2>1 DEF Left
  <2>2. CASE wpc = "write"
    BY <1>1, <1>3, <1>5, <2>2 DEF Left
  <2>3. CASE wpc = "body"
    BY <1>1, <1>3, <1>6, <2>3 DEF Left
  <2> QED BY <1>8, <2>1, <2>2, <2>3
<1>11. wpc # "down" => enq = Left + Len(queue)
  BY DEF OutInv, QueueInOrder
<1>12. enq \in 0 .. Cap + SockCap + 1 /\ OnWire <= enq
  <2>1. CASE wpc = "down"
    BY <1>1, <1>4, <2>1 DEF InBounds
  <2>2. CASE wpc # "down"
    <3> DEFINE l == Left
               q == Len(queue)
    <3>1. l \in 0 .. SockCap + 1 /\ OnWire <= l /\ enq = l + q /\ q \in Nat /\ q <= Cap
      BY <1>4, <1>10, <1>11, <2>2
    <3> HIDE DEF l, q
    <3> QED BY <1>1, <3>1
  <2> QED BY <2>1, <2>2
<1> QED BY <1>2, <1>3, <1>9, <1>10, <1>12 DEF Numbers

\* The same sequence, of elements known better.
LEMMA SeqNarrows ==
    ASSUME NEW S, NEW T, NEW q \in Seq(S), \A i \in 1 .. Len(q) : q[i] \in T
    PROVE  q \in Seq(T)
<1>1. Len(q) \in Nat /\ q = [i \in 1 .. Len(q) |-> q[i]]
  BY LenProperties
<1>2. q \in [1 .. Len(q) -> T]
  BY <1>1
<1> QED BY <1>1, <1>2, SeqDef

\* The framing invariants and the capacities give the type invariant.
LEMMA TypeFromBounds ==
    ASSUME InInv, OutInv, InBounds, RestOK
    PROVE  TypeOK
<1>1. queue \in Seq(Message)
  <2>1. Len(queue) \in Nat /\ DOMAIN queue = 1 .. Len(queue) /\ Len(queue) <= Cap
        /\ \A i \in 1 .. Len(queue) : queue[i] \in OutMessage
    BY LenProperties, ElementOfSeq DEF OutInv, OutType, InBounds
  <2>2. ASSUME NEW i \in 1 .. Len(queue) PROVE queue[i] \in Message
    <3>1. wpc # "down" /\ queue[i].n = Left + i
      BY <2>1 DEF OutInv, QueueInOrder
    <3>2. Left \in 0 .. SockCap + 1
      BY <3>1, NumbersAreBounded
    <3>3. queue[i].n \in Numbers
      BY <2>1, <3>1, <3>2, CapAssumption DEF Numbers
    <3> QED BY <2>1, <3>3 DEF OutMessage, Message
  <2>3. queue \in Seq(OutMessage)
    BY DEF OutInv, OutType
  <2> QED BY <2>2, <2>3, SeqNarrows
<1>2. out \in Seq([part: {"len", "body"}, n: Numbers])
  <2>1. Len(out) \in Nat /\ \A i \in 1 .. Len(out) : out[i] \in OutPiece
    BY LenProperties, ElementOfSeq DEF OutInv, OutType
  <2>2. ASSUME NEW i \in 1 .. Len(out) PROVE out[i] \in [part: {"len", "body"}, n: Numbers]
    <3>1. out[i].n \in Numbers
      BY NumbersAreBounded, CapAssumption DEF Numbers
    <3> QED BY <2>1, <3>1 DEF OutPiece
  <2>3. out \in Seq(OutPiece)
    BY DEF OutInv, OutType
  <2> QED BY <2>2, <2>3, SeqNarrows
<1>3. wmsg \in Message /\ enq \in Numbers
  <2>1. wmsg \in OutMessage /\ wmsg.n \in 0 .. SockCap + 1 /\ enq \in Numbers
    BY NumbersAreBounded DEF OutInv, OutType
  <2>2. wmsg.n \in Numbers
    BY <2>1, CapAssumption DEF Numbers
  <2> QED BY <2>1, <2>2 DEF OutMessage, Message
<1>4. /\ wpc \in {"idle", "write", "body", "down"} /\ inn \in Seq([part: {"len", "body"}, kind: Kinds])
      /\ half \in Kinds \cup {NoFrame} /\ rpc \in {"len", "body", "pong", "down"}
  BY DEF OutInv, OutType, InInv, InType, InPiece
<1>5. Len(queue) <= Cap /\ Len(out) <= SockCap /\ Len(inn) <= SockCap
  BY DEF InBounds
<1> QED BY <1>1, <1>2, <1>3, <1>4, <1>5 DEF RestOK, TypeOK

LEMMA RestStep ==
    ASSUME InInv, RestOK, [Next]_vars
    PROVE  RestOK'
<1> USE DEF RestOK
<1>1. CASE Request
  BY <1>1, BoundAssumption DEF Request, writer, reader, heart, device
<1>2. CASE WriterStep
  BY <1>2 DEF WriterStep, WriterTakes, WriterPuts, WriterFails, WriterCancelled, WriterGoes,
              reader, heart, device
<1>3. CASE ReaderStep
  <2>1. inn # <<>> => Head(inn).kind \in Kinds
    <3>1. inn \in Seq(InPiece)
      BY DEF InInv, InType
    <3>2. inn # <<>> => Head(inn) \in InPiece
      BY <3>1, TailOfSeq
    <3> QED BY <3>2 DEF InPiece
  <2>2. /\ rlen' \in Kinds \cup {NoFrame} /\ alive' \in {alive, FALSE} /\ age' \in {age, 0}
        /\ UNCHANGED <<heart, device, reqs>>
    BY <1>3, <2>1 DEF ReaderStep, ReadLen, ReadBody, ReadEof, SendPong, ReaderCancelled,
                      ReaderFails, ReaderGoes
  <2>3. age' \in 0 .. Timeout + 1
    BY <2>2, BoundAssumption
  <2>4. alive' \in BOOLEAN
    <3>1. alive \in BOOLEAN /\ (alive' = alive \/ alive' = FALSE)
      BY <2>2
    <3> QED BY <3>1, Zenon
  <2> QED BY <2>2, <2>3, <2>4 DEF heart, device
<1>4. CASE Tick
  BY <1>4, BoundAssumption DEF Tick, Least, MaxDue, reader, device
<1>5. CASE HeartbeatStep
  <2>1. /\ hpc' \in {"tick", "ping", "check", "down"} /\ alive' \in {alive, FALSE}
        /\ due' = due \/ (due > 0 /\ due' = due - 1)
        /\ UNCHANGED <<reader, age, device, reqs>>
    BY <1>5 DEF HeartbeatStep, HeartbeatTicks, HeartbeatPings, HeartbeatChecks,
                HeartbeatCancelled, HeartbeatGoes
  <2>2. due' \in 0 .. MaxDue
    BY <2>1 DEF MaxDue
  <2> QED BY <2>1, <2>2 DEF reader, device
<1>6. CASE DeviceReads
  BY <1>6 DEF DeviceReads, DeviceOnly, reader, heart, device
<1>7. CASE DeviceSends
  BY <1>7, BoundAssumption DEF DeviceSends, DeviceOnly, reader, heart
<1>8. CASE DeviceEnds
  BY <1>8 DEF DeviceEnds, DeviceOnly, reader, heart
<1>9. CASE UNCHANGED vars
  BY <1>9 DEF vars, reader, heart, device
<1> QED BY <1>1, <1>2, <1>3, <1>4, <1>5, <1>6, <1>7, <1>8, <1>9 DEF Next

\* Steps of others than writer and device, for the capacities.
LEMMA BoundsEnqueue ==
    ASSUME InBounds, OutInv, UNCHANGED <<wpc, wmsg, out>>, Len(inn') <= SockCap,
           (\E big \in BOOLEAN : Enqueue(big)) \/ UNCHANGED <<queue, enq>>
    PROVE  InBounds'
<1>1. Len(queue') <= Cap /\ (wpc = "down" => enq' = enq)
  <2>1. CASE UNCHANGED <<queue, enq>>
    BY <2>1 DEF InBounds
  <2>2. ASSUME NEW big \in BOOLEAN, Enqueue(big)
        PROVE  Len(queue') <= Cap /\ (wpc = "down" => enq' = enq)
    <3> DEFINE m == [n |-> enq + 1, big |-> big]
    <3>1. queue \in Seq(OutMessage) /\ m \in OutMessage
      BY DEF OutInv, OutType, OutMessage
    <3>2. wpc # "down" /\ Len(queue) < Cap /\ queue' = Append(queue, m)
      BY <2>2 DEF Enqueue
    <3> HIDE DEF m
    <3> QED BY <3>1, <3>2, CapAssumption, AppendToSeq
  <2> QED BY <2>1, <2>2
<1>2. OnWire' = OnWire
  BY DEF OnWire
<1> QED BY <1>1, <1>2 DEF InBounds

LEMMA BoundsWriter ==
    ASSUME InBounds, OutInv, WriterStep
    PROVE  InBounds'
<1>1. UNCHANGED <<inn, enq>>
  BY DEF WriterStep, WriterTakes, WriterPuts, WriterFails, WriterCancelled, WriterGoes
<1>2. CASE WriterTakes
  <2>1. queue \in Seq(OutMessage) /\ queue # <<>> /\ queue' = Tail(queue)
        /\ wpc' = "write" /\ UNCHANGED out
    BY <1>2 DEF WriterTakes, WriterGoes, OutInv, OutType
  <2>2. Len(queue) \in Nat /\ Len(queue') = Len(queue) - 1
    BY <2>1, TailOfSeq
  <2> QED BY <1>1, <2>1, <2>2, CapAssumption DEF InBounds
<1>3. CASE WriterPuts
  <2> DEFINE piece == [part |-> IF wpc = "write" THEN "len" ELSE "body", n |-> wmsg.n]
  <2>1. /\ wpc' = (IF wpc = "write" THEN "body" ELSE "idle") /\ UNCHANGED queue
        /\ wmsg' = (IF wpc = "write" THEN wmsg ELSE NoMessage)
        /\ Len(out) < SockCap /\ out' = Append(out, piece)
    BY <1>3 DEF WriterPuts, WriterGoes
  <2>2. out \in Seq(OutPiece) /\ piece \in OutPiece
    BY DEF OutInv, OutType, OutPiece, OutMessage
  <2> HIDE DEF piece
  <2>3. Len(out') <= SockCap
    BY <2>1, <2>2, AppendToSeq, CapAssumption
  <2> QED BY <1>1, <2>1, <2>3 DEF InBounds
<1>4. CASE WriterFails \/ WriterCancelled
  <2>1. wpc # "down" /\ wpc' = "down" /\ queue' = <<>> /\ UNCHANGED out
    BY <1>4 DEF WriterFails, WriterCancelled, WriterGoes
  <2>2. wmsg' = NoMessage
    BY <1>4 DEF WriterFails, WriterCancelled, InBounds
  <2>3. OnWire' = OnWire /\ enq \in Numbers /\ OnWire <= enq
    BY <2>1, NumbersAreBounded DEF OnWire
  <2>4. Len(queue') <= Cap
    BY <2>1, CapAssumption
  <2>5. enq <= Cap + SockCap + 1
    BY <2>3, CapAssumption DEF Numbers
  <2> QED BY <1>1, <2>1, <2>2, <2>3, <2>4, <2>5 DEF InBounds
<1> QED BY <1>2, <1>3, <1>4 DEF WriterStep

\* The device takes a piece: the numbers go down with the numbering, which never
\* passes the last number queued.
LEMMA BoundsDeviceReads ==
    ASSUME InBounds, OutInv, DeviceReads
    PROVE  InBounds'
<1> DEFINE k == IF Head(out).part = "body" THEN Head(out).n ELSE 0
<1>1. /\ out # <<>> /\ out' = After(k, Tail(out)) /\ queue' = After(k, queue)
      /\ enq' = enq - k /\ UNCHANGED <<wpc, inn>>
      /\ wmsg = NoMessage => wmsg' = NoMessage
  BY DEF DeviceReads
<1>2. /\ Tail(out) \in Seq(OutPiece) /\ Len(out) \in Nat \ {0}
      /\ Len(Tail(out)) = Len(out) - 1
      /\ \A i \in 1 .. Len(out) - 1 : Tail(out)[i] = out[i + 1]
      /\ Head(out) = out[1] /\ out[1] \in OutPiece
  <2>1. out \in Seq(OutPiece)
    BY DEF OutInv, OutType
  <2> QED BY <1>1, <2>1, TailOfSeq
<1>3. out[1].n \in 1 .. SockCap /\ Place(out[1]) = 1 + Taken /\ Taken \in {0, 1}
  BY <1>2, NumbersAreBounded, OnWireIsNat DEF OutInv
<1>4. out[1].n = 1
  BY <1>3, CapAssumption DEF Place
<1>5. k \in {0, 1}
  BY <1>2, <1>4
<1> HIDE DEF k
<1>6. /\ Len(out') = Len(out) - 1
      /\ out' # <<>> => out'[Len(out')].n = out[Len(out)].n - k
  <2>1. \A y \in OutPiece : [y EXCEPT !.n = @ - k] \in OutPiece
    BY <1>5 DEF OutPiece
  <2> DEFINE t == Tail(out)
  <2>2. t \in Seq(OutPiece) /\ out' = After(k, t) /\ Len(t) = Len(out) - 1
    BY <1>1, <1>2
  <2>3. \A i \in 1 .. Len(out) - 1 : t[i] = out[i + 1]
    BY <1>2
  <2> HIDE DEF t
  <2>4. /\ out' \in Seq(OutPiece) /\ Len(out') = Len(t)
        /\ \A i \in 1 .. Len(t) : t[i] \in OutPiece /\ out'[i] = [t[i] EXCEPT !.n = @ - k]
    BY <2>1, <2>2, AfterOfSeq
  <2>5. ASSUME out' # <<>> PROVE out'[Len(out')].n = out[Len(out)].n - k
    <3>1. Len(out') \in 1 .. Len(t) /\ Len(out') + 1 = Len(out)
      BY <1>2, <2>2, <2>4, <2>5, EmptyIffLen0
    <3>2. t[Len(out')] \in OutPiece /\ out'[Len(out')] = [t[Len(out')] EXCEPT !.n = @ - k]
          /\ t[Len(out')] = out[Len(out)]
      BY <1>2, <2>2, <2>3, <2>4, <3>1
    <3> QED BY <3>2 DEF OutPiece
  <2> QED BY <2>2, <2>4, <2>5
<1>7. Len(queue') = Len(queue)
  <2>1. \A y \in OutMessage : [y EXCEPT !.n = @ - k] \in OutMessage
    BY <1>5 DEF OutMessage
  <2> QED BY <1>1, <2>1, AfterOfSeq DEF OutInv, OutType
<1>8. OnWire \in Nat /\ OnWire > 0 /\ OnWire <= enq /\ enq \in Numbers
  BY <1>1, OnWireIsNat, NumbersAreBounded
<1>9. OnWire' <= enq' /\ enq' <= Cap + SockCap + 1
  <2>1. OnWire' \in {0, OnWire - k}
    BY <1>1, <1>6 DEF OnWire
  <2>2. enq' = enq - k
    BY <1>1
  <2> QED BY <1>5, <1>8, <2>1, <2>2, CapAssumption DEF Numbers
<1>10. Len(out') <= SockCap
  BY <1>2, <1>6, CapAssumption DEF InBounds
<1> QED BY <1>1, <1>7, <1>9, <1>10 DEF InBounds

LEMMA BoundsStep ==
    ASSUME InBounds, OutInv, InInv, [Next]_vars
    PROVE  InBounds'
<1>1. inn \in Seq(InPiece) /\ Len(inn) <= SockCap /\ Len(inn) \in Nat
  BY EmptyIffLen0 DEF InInv, InType, InBounds
<1>2. CASE WriterStep
  BY <1>2, BoundsWriter
<1>3. CASE DeviceReads
  BY <1>3, BoundsDeviceReads
<1>4. CASE Request \/ Tick
  <2>1. UNCHANGED <<wpc, wmsg, out, inn>> /\ ((\E big \in BOOLEAN : Enqueue(big)) \/ UNCHANGED <<queue, enq>>)
    BY <1>4 DEF Request, Tick, chan, writer
  <2> QED BY <1>1, <2>1, BoundsEnqueue
<1>5. CASE ReaderStep
  <2>1. inn' = inn \/ (inn # <<>> /\ inn' = Tail(inn))
    BY <1>5 DEF ReaderStep, ReadLen, ReadBody, ReadEof, SendPong, ReaderCancelled
  <2>2. Len(inn') <= SockCap
    BY <1>1, <2>1, TailOfSeq, CapAssumption
  <2>3. UNCHANGED <<wpc, wmsg, out>> /\ ((\E big \in BOOLEAN : Enqueue(big)) \/ UNCHANGED <<queue, enq>>)
    BY <1>5 DEF ReaderStep, ReadLen, ReadBody, ReadEof, SendPong, ReaderCancelled, ReaderFails,
                ReaderGoes, chan, writer
  <2> QED BY <2>2, <2>3, BoundsEnqueue
<1>6. CASE HeartbeatStep
  <2>1. UNCHANGED <<wpc, wmsg, out, inn>> /\ ((\E big \in BOOLEAN : Enqueue(big)) \/ UNCHANGED <<queue, enq>>)
    BY <1>6 DEF HeartbeatStep, HeartbeatTicks, HeartbeatPings, HeartbeatChecks,
                HeartbeatCancelled, HeartbeatGoes, chan, writer
  <2> QED BY <1>1, <2>1, BoundsEnqueue
<1>7. CASE DeviceSends
  <2>1. UNCHANGED <<wpc, wmsg, out, queue, enq>> /\ Len(inn) < SockCap
    BY <1>7 DEF DeviceSends, chan, writer
  <2>2. PICK x \in InPiece : inn' = Append(inn, x)
    BY <1>7 DEF DeviceSends, InInv, InType, InPiece
  <2>3. Len(inn') <= SockCap
    BY <1>1, <2>1, <2>2, AppendToSeq, CapAssumption
  <2> QED BY <2>1, <2>3, BoundsEnqueue
<1>8. CASE DeviceEnds \/ UNCHANGED vars
  <2>1. UNCHANGED <<wpc, wmsg, out, inn, queue, enq>>
    BY <1>8 DEF DeviceEnds, vars, chan, writer
  <2> QED BY <1>1, <2>1, BoundsEnqueue
<1> QED BY <1>2, <1>3, <1>4, <1>5, <1>6, <1>7, <1>8 DEF Next

\* Type correctness for every capacity: the channel, the two directions of the
\* socket and the numbers given to the messages stay within their bounds,
\* although nothing but the channel's and the socket's own room bounds them.
THEOREM TypeCorrectness == Spec => []TypeOK
<1> DEFINE TInv == InInv /\ OutInv /\ InBounds /\ RestOK
<1>1. Init => TInv
  BY InInit, OutInit, RestInit
<1>2. TInv /\ [Next]_vars => TInv'
  BY InStep, OutStep, RestStep, BoundsStep
<1>3. TInv => TypeOK
  BY TypeFromBounds
<1> HIDE DEF TInv
<1> QED BY <1>1, <1>2, <1>3, PTL DEF Spec
=============================================================================
