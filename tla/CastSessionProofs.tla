------------------------- MODULE CastSessionProofs -------------------------
(***************************************************************************)
(* Proofs about CastSession, for any number of callers, applications,      *)
(* media sessions, lost connections and messages under way: a LOAD names   *)
(* one application, nothing is sent to a destination that was not opened,  *)
(* and the media session id and the watches end at the device's state,     *)
(* each outside of the windows its property names.                         *)
(***************************************************************************)
EXTENDS CastSession, SequenceTheorems, TLAPS

USE CallsAssumption, BoundsAssumption

-----------------------------------------------------------------------------
(* Sequences                                                               *)

LEMMA Appended ==
  ASSUME NEW S, NEW q \in Seq(S), NEW x \in S
  PROVE  /\ Append(q, x) \in Seq(S) /\ Len(Append(q, x)) = Len(q) + 1
         /\ \A i \in DOMAIN q : i \in DOMAIN Append(q, x) /\ Append(q, x)[i] = q[i]
         /\ \A i \in DOMAIN Append(q, x) : i \in DOMAIN q \/ i = Len(q) + 1
         /\ Len(q) + 1 \in DOMAIN Append(q, x) /\ Append(q, x)[Len(q) + 1] = x
  OBVIOUS

LEMMA Dropped ==
  ASSUME NEW S, NEW q \in Seq(S), q # <<>>
  PROVE  /\ Tail(q) \in Seq(S) /\ Len(Tail(q)) = Len(q) - 1 /\ Len(q) > 0
         /\ \A i \in DOMAIN Tail(q) : i + 1 \in DOMAIN q /\ Tail(q)[i] = q[i + 1]
         /\ \A i \in DOMAIN q : i # 1 => i - 1 \in DOMAIN Tail(q) /\ Tail(q)[i - 1] = q[i]
         /\ Head(q) = q[1] /\ 1 \in DOMAIN q /\ Head(q) \in S
<1>1. Len(q) > 0
  BY EmptySeq
<1> QED
  BY <1>1

\* One or two messages put behind a queue
LEMMA Joined1 ==
  ASSUME NEW S, NEW q \in Seq(S), NEW x \in S
  PROVE  q \o <<x>> = Append(q, x)
  OBVIOUS

LEMMA Joined2 ==
  ASSUME NEW S, NEW q \in Seq(S), NEW x \in S, NEW y \in S
  PROVE  q \o <<x, y>> = Append(Append(q, x), y)
  OBVIOUS

\* Forgetting a caller changes nothing but the id of its messages.
LEMMA ForgottenToDevice ==
  ASSUME NEW c \in Calls, NEW q \in Seq(ToDevice)
  PROVE  /\ Forget(c, q) \in Seq(ToDevice) /\ Len(Forget(c, q)) = Len(q)
         /\ DOMAIN Forget(c, q) = DOMAIN q
         /\ \A i \in DOMAIN q :
              /\ Forget(c, q)[i].type = q[i].type /\ Forget(c, q)[i].to = q[i].to
              /\ Forget(c, q)[i].s = q[i].s /\ Forget(c, q)[i].m = q[i].m
              /\ Forget(c, q)[i].req # c
              /\ q[i].req # c => Forget(c, q)[i] = q[i]
              /\ Forget(c, q)[i].req \in {q[i].req, Expired}
<1> DEFINE f == Forget(c, q)
<1>1. /\ DOMAIN f = 1 .. Len(q) /\ DOMAIN q = 1 .. Len(q) /\ Len(q) \in Nat
      /\ \A i \in DOMAIN q : q[i] \in ToDevice
      /\ \A i \in DOMAIN q :
            f[i] = IF q[i].req = c THEN [q[i] EXCEPT !.req = Expired] ELSE q[i]
  BY LenProperties, ElementOfSeq DEF Forget
<1> HIDE DEF f
<1>2. \A i \in DOMAIN q :
          /\ f[i] \in ToDevice
          /\ f[i].type = q[i].type /\ f[i].to = q[i].to
          /\ f[i].s = q[i].s /\ f[i].m = q[i].m
          /\ f[i].req # c /\ (q[i].req # c => f[i] = q[i])
          /\ f[i].req \in {q[i].req, Expired}
  <2> SUFFICES ASSUME NEW i \in DOMAIN q
               PROVE  /\ f[i] \in ToDevice
                      /\ f[i].type = q[i].type /\ f[i].to = q[i].to
                      /\ f[i].s = q[i].s /\ f[i].m = q[i].m
                      /\ f[i].req # c /\ (q[i].req # c => f[i] = q[i])
                      /\ f[i].req \in {q[i].req, Expired}
    OBVIOUS
  <2>0. q[i] \in ToDevice /\ f[i] = IF q[i].req = c THEN [q[i] EXCEPT !.req = Expired] ELSE q[i]
    BY <1>1
  <2>1. CASE q[i].req # c
    BY <2>0, <2>1
  <2>2. CASE q[i].req = c
    <3>1. f[i] = [q[i] EXCEPT !.req = Expired] /\ Expired \in Ids /\ Expired # c
      BY <2>0, <2>2, CallsAssumption DEF Ids
    <3> QED
      BY <2>0, <2>2, <3>1 DEF ToDevice
  <2> QED
    BY <2>1, <2>2
<1>4. f = [i \in 1 .. Len(q) |-> f[i]]
  BY <1>1 DEF f, Forget
<1>3. f \in Seq(ToDevice) /\ Len(f) = Len(q)
  BY <1>1, <1>2, <1>4
<1> QED
  BY <1>1, <1>2, <1>3 DEF f

LEMMA ForgottenToClient ==
  ASSUME NEW c \in Calls, NEW q \in Seq(ToClient)
  PROVE  /\ Forget(c, q) \in Seq(ToClient) /\ Len(Forget(c, q)) = Len(q)
         /\ DOMAIN Forget(c, q) = DOMAIN q
         /\ \A i \in DOMAIN q :
              /\ Forget(c, q)[i].type = q[i].type /\ Forget(c, q)[i].app = q[i].app
              /\ Forget(c, q)[i].m = q[i].m /\ Forget(c, q)[i].idle = q[i].idle
              /\ Forget(c, q)[i].req # c
              /\ Forget(c, q)[i].req \in {q[i].req, Expired}
<1> DEFINE f == Forget(c, q)
<1>1. /\ DOMAIN f = 1 .. Len(q) /\ DOMAIN q = 1 .. Len(q) /\ Len(q) \in Nat
      /\ \A i \in DOMAIN q : q[i] \in ToClient
      /\ \A i \in DOMAIN q :
            f[i] = IF q[i].req = c THEN [q[i] EXCEPT !.req = Expired] ELSE q[i]
  BY LenProperties, ElementOfSeq DEF Forget
<1> HIDE DEF f
<1>2. \A i \in DOMAIN q :
          /\ f[i] \in ToClient
          /\ f[i].type = q[i].type /\ f[i].app = q[i].app /\ f[i].m = q[i].m
          /\ f[i].idle = q[i].idle
          /\ f[i].req # c /\ f[i].req \in {q[i].req, Expired}
  <2> SUFFICES ASSUME NEW i \in DOMAIN q
               PROVE  /\ f[i] \in ToClient
                      /\ f[i].type = q[i].type /\ f[i].app = q[i].app /\ f[i].m = q[i].m
                      /\ f[i].idle = q[i].idle
                      /\ f[i].req # c /\ f[i].req \in {q[i].req, Expired}
    OBVIOUS
  <2>0. q[i] \in ToClient /\ f[i] = IF q[i].req = c THEN [q[i] EXCEPT !.req = Expired] ELSE q[i]
    BY <1>1
  <2>1. CASE q[i].req # c
    BY <2>0, <2>1
  <2>2. CASE q[i].req = c
    <3>1. f[i] = [q[i] EXCEPT !.req = Expired] /\ Expired \in Ids /\ Expired # c
      BY <2>0, <2>2, CallsAssumption DEF Ids
    <3> QED
      BY <2>0, <2>2, <3>1 DEF ToClient
  <2> QED
    BY <2>1, <2>2
<1>4. f = [i \in 1 .. Len(q) |-> f[i]]
  BY <1>1 DEF f, Forget
<1>3. f \in Seq(ToClient) /\ Len(f) = Len(q)
  BY <1>1, <1>2, <1>4
<1> QED
  BY <1>1, <1>2, <1>3 DEF f

-----------------------------------------------------------------------------
(* Messages                                                                *)

\* A request names its caller, goes to the receiver or to the transport that was
\* read, and only the load methods, stop_app() and stop_media() make a LOAD, a
\* STOP or a MEDIA_STOP.
LEMMA RequestIs ==
  ASSUME NEW c \in Calls, NEW l \in Local, l.op # "none"
  PROVE  LET r == RequestOf(c, l) IN
         /\ r \in ToDevice /\ r.req = c /\ r.type # "CONNECT"
         /\ r.to \in {Receiver, l.t}
         /\ r.type \in {"LOAD", "QUEUE_LOAD"} =>
              l.op \in Loads /\ r.to = l.t /\ r.s = l.s
         /\ r.type = "STOP" => l.op = "stop_app" /\ r.s = l.s
         /\ r.type = "MEDIA_STOP" <=> l.op = "stop_media"
         /\ l.op \in {"launch_app", "stop_app", "send_raw"} \cup Plain => r.to = Receiver
<1>1. l.op \in AllOps /\ c \in Ids /\ Receiver \in 0 .. MaxApps /\ 0 \in 0 .. MaxMedia
      /\ l.t \in 0 .. MaxApps /\ l.s \in 0 .. MaxApps /\ l.m \in 0 .. MaxMedia
  BY DEF Local, Ids, Receiver
<1> USE DEF RequestOf, ToDevice
<1>2. CASE l.op = "launch_app"
  BY <1>1, <1>2 DEF launch_app, Loads, Controls, Plain
<1>3. CASE l.op = "stop_app"
  BY <1>1, <1>3 DEF stop_app, Loads, Controls, Plain
<1>4. CASE l.op = "load_media"
  BY <1>1, <1>4 DEF load, Loads, Controls, Plain
<1>5. CASE l.op = "queue_load"
  BY <1>1, <1>5 DEF queue_load, Loads, Controls, Plain
<1>6. CASE l.op = "stop_media"
  BY <1>1, <1>6 DEF stop, Loads, Controls, Plain
<1>7. CASE l.op = "media_status"
  BY <1>1, <1>7 DEF get_status, Loads, Controls, Plain
<1>8. CASE l.op = "send_raw"
  BY <1>1, <1>8 DEF send_raw, Loads, Controls, Plain
<1>9. CASE l.op \in Controls
  BY <1>1, <1>9 DEF control, Loads, Controls, Plain
<1>10. CASE l.op \in Plain
  BY <1>1, <1>10 DEF set_volume, Loads, Controls, Plain
<1> QED
  BY <1>1, <1>2, <1>3, <1>4, <1>5, <1>6, <1>7, <1>8, <1>9, <1>10 DEF AllOps, Loads

LEMMA ConnectIs ==
  ASSUME NEW t \in 0 .. MaxApps
  PROVE  /\ connect_msg(t) \in ToDevice /\ connect_msg(t).type = "CONNECT"
         /\ connect_msg(t).to = t /\ connect_msg(t).req = NoCall
  BY DEF connect_msg, ToDevice, Ids

LEMMA BlankIs ==
  /\ Nobody \in ToClient /\ Nobody.type = "NONE" /\ Nobody.m = 0 /\ Nobody.app = 0
  /\ Blank \in Local /\ Blank.op = "none" /\ Blank.t = 0 /\ Blank.begun = 0
  /\ Blank.reply = Nobody
<1>1. Nobody \in ToClient
  BY DEF Nobody, ToClient, Ids
<1> QED
  BY <1>1 DEF Nobody, Blank, Local

\* What the device may say
LEMMA ReceiverStatusIs ==
  ASSUME NEW c \in Ids, NEW a \in 0 .. MaxApps
  PROVE  /\ ReceiverStatus(c, a) \in ToClient
         /\ ReceiverStatus(c, a).type = "RECEIVER_STATUS"
         /\ ReceiverStatus(c, a).req = c /\ ReceiverStatus(c, a).app = a
         /\ ReceiverStatus(c, a).m = 0
  BY DEF ReceiverStatus, ToClient

LEMMA MediaStatusIs ==
  ASSUME NEW c \in Ids, NEW n \in 0 .. MaxMedia, NEW i \in BOOLEAN
  PROVE  /\ MediaStatus(c, n, i) \in ToClient /\ MediaStatus(c, n, i).type = "MEDIA_STATUS"
         /\ MediaStatus(c, n, i).req = c /\ MediaStatus(c, n, i).m = n
         /\ MediaStatus(c, n, i).app = 0 /\ MediaStatus(c, n, i).idle = i
  BY DEF MediaStatus, ToClient

LEMMA MediaStatusTells ==
  ASSUME NEW c \in Ids, NEW n \in 0 .. MaxMedia
  PROVE  /\ MediaStatus(c, n, TRUE) \in ToClient /\ MediaStatus(c, n, FALSE) \in ToClient
         /\ MediaStatus(c, n, TRUE).type = "MEDIA_STATUS" /\ MediaStatus(c, n, TRUE).req = c
         /\ MediaStatus(c, n, TRUE).m = n /\ MediaStatus(c, n, TRUE).app = 0
         /\ MediaStatus(c, n, FALSE).type = "MEDIA_STATUS" /\ MediaStatus(c, n, FALSE).req = c
         /\ MediaStatus(c, n, FALSE).m = n /\ MediaStatus(c, n, FALSE).app = 0
  BY DEF MediaStatus, ToClient

LEMMA BareIs ==
  ASSUME NEW c \in Ids,
         NEW y \in {"LAUNCH_ERROR", "LOAD_FAILED", "INVALID_REQUEST", "CLOSE", "CUSTOM"}
  PROVE  /\ Bare(y, c) \in ToClient /\ Bare(y, c).type = y /\ Bare(y, c).req = c
         /\ Bare(y, c).app = 0 /\ Bare(y, c).m = 0
<1>1. Bare(y, c).type = y /\ Bare(y, c).req = c /\ Bare(y, c).app = 0 /\ Bare(y, c).m = 0
  BY DEF Bare, Nobody
<1>2. \A r \in ToClient : [r EXCEPT !.type = y, !.req = c] \in ToClient
  BY DEF ToClient
<1> QED
  BY <1>1, <1>2, BlankIs DEF Bare

-----------------------------------------------------------------------------
(* The type invariant                                                      *)

\* Which methods get where
OpsFit ==
    \A c \in Calls :
        /\ pc[c] = "readS" => loc[c].op \in Loads
        /\ pc[c] = "readM" => loc[c].op \in Controls \cup {"stop_media"}
        /\ pc[c] = "send" =>
             loc[c].op \in Loads \cup Controls \cup {"stop_media", "media_status"}
        /\ pc[c] = "wait" => loc[c].op # "none"

\* The device loads an application only when there is none and room for one.
LoadingFits == loading => app = 0 /\ apps < MaxApps

\* A STOP names an application.
StopsFit == \A i \in DOMAIN toDevice : toDevice[i].type = "STOP" => toDevice[i].s # 0

\* A status of the media session that the client missed also tells the id.
MissedFits == "media" \in missed => "id" \in missed

TInv == TypeOK /\ OpsFit /\ LoadingFits /\ StopsFit /\ MissedFits

\* What a caller does not touch
CallFrame(c) ==
    /\ \A d \in Calls : d # c => pc'[d] = pc[d] /\ loc'[d] = loc[d]
    /\ routing' = routing /\ link' = link /\ losses' = losses
    /\ app' = app /\ apps' = apps /\ loading' = loading /\ media' = media
    /\ medias' = medias /\ opened' = opened /\ news' = news

LEMMA GoesFrame ==
  ASSUME TypeOK, NEW c \in Calls, NEW from, NEW to \in Locs, NEW l \in Local,
         Goes(c, from, to, l)
  PROVE  /\ CallFrame(c)
         /\ pc' \in [Calls -> Locs] /\ loc' \in [Calls -> Local]
         /\ called' \in 0 .. MaxCalls
         /\ pc[c] = from /\ pc'[c] = to
         /\ loc'[c] = IF to = "idle" THEN Blank ELSE l
<1>1. pc \in [Calls -> Locs] /\ loc \in [Calls -> Local] /\ called \in 0 .. MaxCalls
  BY DEF TypeOK
<1>2. pc' \in [Calls -> Locs] /\ loc' \in [Calls -> Local]
  BY <1>1, BlankIs DEF Goes
<1>3. called' \in 0 .. MaxCalls
  BY <1>1 DEF Goes
<1>4. /\ pc[c] = from /\ pc'[c] = to /\ loc'[c] = IF to = "idle" THEN Blank ELSE l
      /\ \A d \in Calls : d # c => pc'[d] = pc[d] /\ loc'[d] = loc[d]
  BY <1>1 DEF Goes
<1> QED
  BY <1>2, <1>3, <1>4 DEF Goes, CallFrame, conn, device

\* A write succeeds, or the connection is lost and the call may fail.
LEMMA WritesFrame ==
  ASSUME TypeOK, NEW c \in Calls, NEW from, NEW to \in Locs, NEW l \in Local,
         NEW msg \in ToDevice, Writes(c, from, to, l, msg)
  PROVE  /\ CallFrame(c)
         /\ pc' \in [Calls -> Locs] /\ loc' \in [Calls -> Local]
         /\ called' \in 0 .. MaxCalls
         /\ pc[c] = from
         /\ \/ pc'[c] = to /\ loc'[c] = IF to = "idle" THEN Blank ELSE l
            \/ pc'[c] = "idle" /\ loc'[c] = Blank
         /\ toDevice' \in Seq(ToDevice) /\ Len(toDevice') <= NetCap
         /\ \/ toDevice' = toDevice
            \/ toDevice' = Append(toDevice, msg) /\ pc'[c] = to /\ link # "down"
<1>0. "idle" \in Locs /\ toDevice \in Seq(ToDevice) /\ Len(toDevice) <= NetCap
  BY DEF Locs, TypeOK
<1>1. CASE /\ link # "down" /\ Len(toDevice) < NetCap
           /\ Goes(c, from, to, l) /\ toDevice' = Append(toDevice, msg)
  <2>1. toDevice' \in Seq(ToDevice) /\ Len(toDevice') <= NetCap
    BY <1>0, <1>1, Appended
  <2> QED
    BY <1>1, <2>1, GoesFrame
<1>2. CASE Goes(c, from, to, l) /\ UNCHANGED toDevice
  BY <1>0, <1>2, GoesFrame
<1>3. CASE Goes(c, from, "idle", l) /\ UNCHANGED toDevice
  BY <1>0, <1>3, GoesFrame
<1> QED
  BY <1>1, <1>2, <1>3 DEF Writes

\* A record of locals stays one when a field is set.
LEMMA MethodSet ==
  ASSUME NEW o \in Ops, NEW t \in 0 .. MaxApps, NEW s \in 0 .. MaxApps,
         NEW e \in 0 .. MaxApps, NEW b \in 0 .. MaxMedia
  PROVE  /\ [Blank EXCEPT !.op = o, !.s = s, !.ended = e] \in Local
         /\ [Blank EXCEPT !.op = o, !.t = t, !.begun = b] \in Local
  BY BlankIs DEF Local

LEMMA LocalSet ==
  ASSUME NEW l \in Local, NEW t \in 0 .. MaxApps, NEW m \in 0 .. MaxMedia,
         NEW r \in ToClient
  PROVE  /\ [l EXCEPT !.s = t] \in Local
         /\ [l EXCEPT !.m = m] \in Local
         /\ [l EXCEPT !.t = t] \in Local
         /\ [l EXCEPT !.t = t, !.reply = r] \in Local
         /\ [l EXCEPT !.reply = r] \in Local
  BY DEF Local

-----------------------------------------------------------------------------
(* What a step of a caller does, in terms of where it comes from and goes  *)

\* Its types
CallTypes(c) ==
    /\ pc' \in [Calls -> Locs] /\ loc' \in [Calls -> Local] /\ called' \in 0 .. MaxCalls
    /\ toDevice' \in Seq(ToDevice) /\ Len(toDevice') <= NetCap
    /\ toClient' \in Seq(ToClient) /\ Len(toClient') <= NetCap
    /\ transport' \in 0 .. MaxApps /\ session' \in 0 .. MaxApps /\ mediaId' \in 0 .. MaxMedia
    /\ mediaWatch' = mediaWatch /\ receiverWatch' = receiverWatch
    /\ events' = events \/ (events # <<>> /\ events' = Tail(events))
    /\ races \subseteq races' /\ races' \subseteq {"ids", "late", "reopen"}
    /\ missed \subseteq missed' /\ missed' \subseteq missed \cup {"id"}
    /\ pc'[c] = "readS" => loc'[c].op \in Loads
    /\ pc'[c] = "readM" => loc'[c].op \in Controls \cup {"stop_media"}
    /\ pc'[c] = "send" =>
         loc'[c].op \in Loads \cup Controls \cup {"stop_media", "media_status"}
    /\ pc'[c] = "wait" => loc'[c].op # "none"

\* What it does to the messages under way: it gives up waiting, sends a CONNECT or
\* sends its request.
CallQueues(c) ==
    /\ \/ /\ pc[c] = "wait" /\ pc'[c] = "idle"
          /\ toDevice' = Forget(c, toDevice) /\ toClient' = Forget(c, toClient)
       \/ /\ pc[c] # "wait" /\ toClient' = toClient
          /\ \/ toDevice' = toDevice
             \/ /\ toDevice' = Append(toDevice, connect_msg(loc'[c].t))
                /\ pc'[c] = "setT" /\ link # "down"
             \/ /\ toDevice' = Append(toDevice, RequestOf(c, loc'[c]))
                /\ pc'[c] = "wait" /\ link # "down"
                /\ "reopen" \notin races' => link = "up"
                /\ \/ /\ loc'[c].op \in {"launch_app", "stop_app", "send_raw"} \cup Plain
                      /\ loc'[c].op = "stop_app" => loc'[c].s # 0
                   \/ pc[c] = "send" /\ loc'[c] = loc[c]
    /\ pc'[c] # "reply"

\* Where the transport and the answer it holds come from
CallLocals(c) ==
    /\ \/ loc'[c].t \in {loc[c].t, 0, transport}
       \/ loc'[c].t = loc[c].reply.app
       \/ events # <<>> /\ loc'[c].t = Head(events).app
    /\ loc'[c].reply \in {loc[c].reply, Nobody}
    /\ loc'[c].begun \in {loc[c].begun, 0, medias}
    /\ pc'[c] \in {"readS", "readM", "send"} =>
         \/ pc[c] \in {"readS", "readM", "send"} /\ loc'[c].t = loc[c].t
         \/ loc'[c].t = transport

\* How it reads and writes transport_id and session_id
CallIds(c) ==
    /\ pc'[c] = "readS" =>
         /\ loc'[c].t = transport
         /\ "ids" \notin races' => ~HalfWritten(c)
    /\ pc'[c] = "send" /\ loc'[c].op \in Loads =>
         pc[c] = "readS" /\ loc'[c].t = loc[c].t /\ loc'[c].s = session
    /\ IF pc'[c] = "setS"
       THEN /\ transport' = loc'[c].t
            /\ "ids" \notin races' => ~HalfWritten(c) /\ ~HalfRead(c)
            /\ "late" \notin races' => loc'[c].t = app \/ app # transport
            /\ "reopen" \notin races' => loc'[c].t = 0 \/ Opening(loc'[c].t)
       ELSE transport' = transport
    /\ IF pc[c] = "setS"
       THEN /\ pc'[c] = "idle" /\ session' = loc[c].t
            /\ "ids" \notin races' => ~HalfWritten(c) /\ ~HalfRead(c)
       ELSE session' = session

\* How it stores a media session
CallMedia(c) ==
    \/ mediaId' = mediaId
    \/ /\ pc[c] = "reply" /\ ~check_device_error(loc[c].reply)
       /\ \/ loc[c].op \in Loads /\ mediaId' = loc[c].reply.m
          \/ loc[c].op = "stop_media" /\ mediaId' = 0
       /\ "id" \notin missed' => mediaWatch <= loc[c].reply.m

CallFacts(c) == /\ CallFrame(c) /\ CallTypes(c) /\ CallQueues(c) /\ CallLocals(c)
                /\ CallIds(c) /\ CallMedia(c)

\* What TypeOK says of the variables a caller touches
LEMMA CallerTypes ==
  ASSUME TInv, NEW c \in Calls
  PROVE  /\ pc[c] \in Locs /\ loc[c] \in Local
         /\ loc[c].op \in Ops \cup {"none"} /\ loc[c].t \in 0 .. MaxApps
         /\ loc[c].s \in 0 .. MaxApps /\ loc[c].m \in 0 .. MaxMedia
         /\ loc[c].reply \in ToClient /\ loc[c].reply.app \in 0 .. MaxApps
         /\ loc[c].reply.m \in 0 .. MaxMedia
         /\ toDevice \in Seq(ToDevice) /\ Len(toDevice) <= NetCap
         /\ toClient \in Seq(ToClient) /\ Len(toClient) <= NetCap
         /\ transport \in 0 .. MaxApps /\ session \in 0 .. MaxApps
         /\ mediaId \in 0 .. MaxMedia
         /\ mediaWatch \in 0 .. MaxMedia /\ medias \in 0 .. MaxMedia
         /\ races \subseteq {"ids", "late", "reopen"}
         /\ apps \in 0 .. MaxApps /\ app \in 0 .. apps
<1>1. loc[c] \in Local /\ pc[c] \in Locs
  BY DEF TInv, TypeOK
<1>2. loc[c].reply \in ToClient
  BY <1>1 DEF Local
<1>3. loc[c].reply.app \in 0 .. MaxApps /\ loc[c].reply.m \in 0 .. MaxMedia
  BY <1>2 DEF ToClient
<1> QED
  BY <1>1, <1>2, <1>3 DEF TInv, TypeOK, Local

LEMMA CallDoes == ASSUME TInv, NEW c \in Calls, Call(c) PROVE CallFacts(c)
<1> PICK o \in Ops \cap (Plain \cup {"launch_app", "stop_app", "send_raw"}), s \in 0 .. apps :
        /\ (o = "stop_app") <=> (s # 0)
        /\ Sends(c, "idle", [Blank EXCEPT
              !.op = o, !.s = s, !.ended = IF o # "launch_app" THEN 0
                                           ELSE IF app = 0 THEN apps ELSE app - 1])
  BY DEF Call
<1> DEFINE e == IF o # "launch_app" THEN 0 ELSE IF app = 0 THEN apps ELSE app - 1
           l == [Blank EXCEPT !.op = o, !.s = s, !.ended = e]
<1>0. TypeOK /\ "wait" \in Locs
  BY DEF TInv, Locs
<1>1. e \in 0 .. MaxApps /\ s \in 0 .. MaxApps /\ o \in Ops /\ 0 \in 0 .. MaxMedia
  <2>1. apps \in 0 .. MaxApps /\ app \in 0 .. apps /\ MaxApps \in Nat /\ MaxMedia \in Nat
    BY CallerTypes, BoundsAssumption
  <2> QED
    BY <2>1
<1>2. l \in Local /\ l.op = o /\ l.s = s /\ l.t = 0 /\ l.begun = 0 /\ l.reply = Nobody
  <2> HIDE DEF e
  <2>1. l \in Local
    BY <1>1, BlankIs, MethodSet
  <2>2. /\ l.op = o /\ l.s = s /\ l.t = Blank.t /\ l.begun = Blank.begun
        /\ l.reply = Blank.reply
    BY BlankIs DEF Blank
  <2> QED
    BY <2>1, <2>2, BlankIs
<1> HIDE DEF l
<1>3. l.op # "none"
  BY <1>2 DEF Plain
<1>4. RequestOf(c, l) \in ToDevice
  BY <1>2, <1>3, RequestIs
<1>5. Writes(c, "idle", "wait", l, RequestOf(c, l))
  BY DEF Sends, l
<1>6. /\ CallFrame(c)
      /\ pc' \in [Calls -> Locs] /\ loc' \in [Calls -> Local]
      /\ called' \in 0 .. MaxCalls
      /\ pc[c] = "idle"
      /\ \/ pc'[c] = "wait" /\ loc'[c] = l
         \/ pc'[c] = "idle" /\ loc'[c] = Blank
      /\ toDevice' \in Seq(ToDevice) /\ Len(toDevice') <= NetCap
      /\ \/ toDevice' = toDevice
         \/ /\ toDevice' = Append(toDevice, RequestOf(c, l)) /\ pc'[c] = "wait"
            /\ link # "down"
  <2> DEFINE r == RequestOf(c, l)
             w == "wait"
  <2>1. Writes(c, "idle", w, l, r) /\ w \in Locs /\ r \in ToDevice /\ l \in Local
    BY <1>0, <1>2, <1>4, <1>5
  <2> HIDE DEF r, w
  <2>2. /\ CallFrame(c)
        /\ pc' \in [Calls -> Locs] /\ loc' \in [Calls -> Local]
        /\ called' \in 0 .. MaxCalls
        /\ pc[c] = "idle"
        /\ \/ pc'[c] = w /\ loc'[c] = IF w = "idle" THEN Blank ELSE l
           \/ pc'[c] = "idle" /\ loc'[c] = Blank
        /\ toDevice' \in Seq(ToDevice) /\ Len(toDevice') <= NetCap
        /\ \/ toDevice' = toDevice
           \/ toDevice' = Append(toDevice, r) /\ pc'[c] = w /\ link # "down"
    BY <1>0, <2>1, WritesFrame
  <2> QED
    BY <2>2 DEF r, w
<1>7. /\ Tag("reopen", link \in {"swapped", "hello"})
      /\ UNCHANGED <<ids, views, toClient, missed>>
  BY DEF Sends
<1>8. link \in {"up", "down", "swapped", "hello"}
  BY DEF TInv, TypeOK
<1>9. CallTypes(c)
  BY <1>2, <1>3, <1>6, <1>7, CallerTypes, BlankIs DEF CallTypes, ids, views, Tag
<1>10. CallQueues(c)
  BY <1>2, <1>3, <1>6, <1>7, <1>8 DEF CallQueues, Tag
<1>11. CallLocals(c)
  BY <1>2, <1>6, BlankIs DEF CallLocals
<1>12. CallIds(c) /\ CallMedia(c)
  BY <1>6, <1>7 DEF CallIds, CallMedia, ids
<1> QED
  BY <1>6, <1>9, <1>10, <1>11, <1>12 DEF CallFacts

LEMMA SendDoes == ASSUME TInv, NEW c \in Calls, Send(c) PROVE CallFacts(c)
<1>0. TypeOK /\ "wait" \in Locs /\ loc[c] \in Local
  BY CallerTypes DEF TInv, Locs
<1>1. pc[c] = "send"
  BY DEF Send, Sends, Writes, Goes
<1>2. /\ loc[c].op # "none"
      /\ loc[c].op \in Loads \cup Controls \cup {"stop_media", "media_status"}
  BY <1>1 DEF TInv, OpsFit, Loads, Controls
<1>3. RequestOf(c, loc[c]) \in ToDevice
  BY <1>0, <1>2, RequestIs
<1>4. /\ CallFrame(c)
      /\ pc' \in [Calls -> Locs] /\ loc' \in [Calls -> Local]
      /\ called' \in 0 .. MaxCalls
      /\ \/ pc'[c] = "wait" /\ loc'[c] = loc[c]
         \/ pc'[c] = "idle" /\ loc'[c] = Blank
      /\ toDevice' \in Seq(ToDevice) /\ Len(toDevice') <= NetCap
      /\ \/ toDevice' = toDevice
         \/ /\ toDevice' = Append(toDevice, RequestOf(c, loc[c])) /\ pc'[c] = "wait"
            /\ link # "down"
  BY <1>0, <1>3, WritesFrame DEF Send, Sends
<1>5. /\ Tag("reopen", link \in {"swapped", "hello"})
      /\ UNCHANGED <<ids, views, toClient, missed>>
  BY DEF Send, Sends
<1>6. link \in {"up", "down", "swapped", "hello"}
  BY DEF TInv, TypeOK
<1>7. CallTypes(c)
  BY <1>2, <1>4, <1>5, CallerTypes, BlankIs DEF CallTypes, ids, views, Tag
<1>8. CallQueues(c)
  BY <1>1, <1>2, <1>4, <1>5, <1>6 DEF CallQueues, Tag
<1>9. CallLocals(c) /\ CallIds(c) /\ CallMedia(c)
  BY <1>1, <1>4, <1>5, BlankIs DEF CallLocals, CallIds, CallMedia, ids
<1> QED
  BY <1>4, <1>7, <1>8, <1>9 DEF CallFacts

LEMMA ReadDoes ==
  ASSUME TInv, NEW c \in Calls,
         get_transport_id(c) \/ get_session_id(c) \/ get_media_session_id(c)
  PROVE  CallFacts(c)
<1>0. TypeOK
  BY DEF TInv
<1>1. CASE get_transport_id(c)
  <2> PICK o \in Ops \cap (Loads \cup Controls \cup {"stop_media", "media_status"}) :
        /\ Goes(c, "idle", CASE transport = 0 -> "idle"
                             [] o \in Loads -> "readS"
                             [] o = "media_status" -> "send"
                             [] OTHER -> "readM",
                [Blank EXCEPT !.op = o, !.t = transport,
                              !.begun = IF o \in Loads THEN medias ELSE 0])
        /\ Tag("ids", o \in Loads /\ HalfWritten(c))
        /\ UNCHANGED <<ids, views, net, missed>>
    BY <1>1 DEF get_transport_id
  <2> DEFINE to == CASE transport = 0 -> "idle"
                     [] o \in Loads -> "readS"
                     [] o = "media_status" -> "send"
                     [] OTHER -> "readM"
             b == IF o \in Loads THEN medias ELSE 0
             l == [Blank EXCEPT !.op = o, !.t = transport, !.begun = b]
  <2>1. /\ l \in Local /\ l.op = o /\ l.t = transport /\ l.reply = Nobody
        /\ l.begun \in {0, medias}
    <3>0. b \in 0 .. MaxMedia /\ b \in {0, medias} /\ 0 \in 0 .. MaxApps
      BY CallerTypes, BoundsAssumption
    <3> HIDE DEF b
    <3>1. l \in Local
      BY <3>0, CallerTypes, MethodSet
    <3>2. l.op = o /\ l.t = transport /\ l.reply = Blank.reply /\ l.begun = b
      BY DEF Blank
    <3> QED
      BY <3>0, <3>1, <3>2, BlankIs
  <2>2. /\ to \in {"idle", "readS", "send", "readM"} /\ to \in Locs
        /\ to = "readS" => o \in Loads
        /\ to = "send" => o = "media_status"
        /\ to = "readM" => o \in Controls \cup {"stop_media"}
    <3>1. CASE transport = 0
      BY <3>1, CallerTypes DEF Locs
    <3>2. CASE transport # 0 /\ o \in Loads
      BY <3>2 DEF Locs
    <3>3. CASE transport # 0 /\ o = "media_status"
      BY <3>3 DEF Locs, Loads
    <3>4. CASE transport # 0 /\ o \in Controls \cup {"stop_media"}
      BY <3>4 DEF Locs, Loads, Controls
    <3> QED
      BY <3>1, <3>2, <3>3, <3>4
  <2> HIDE DEF to, l
  <2>3. Goes(c, "idle", to, l)
    BY DEF to, l
  <2>4. /\ CallFrame(c)
        /\ pc' \in [Calls -> Locs] /\ loc' \in [Calls -> Local]
        /\ called' \in 0 .. MaxCalls
        /\ pc[c] = "idle" /\ pc'[c] = to
        /\ loc'[c] = IF to = "idle" THEN Blank ELSE l
    BY <1>0, <2>1, <2>2, <2>3, GoesFrame
  <2>5. CallTypes(c)
    BY <2>1, <2>2, <2>4, CallerTypes DEF CallTypes, ids, views, net, Tag, Loads, Controls
  <2>6. CallQueues(c) /\ CallLocals(c) /\ CallMedia(c)
    BY <2>1, <2>2, <2>4, BlankIs DEF CallQueues, CallLocals, CallMedia, ids, net
  <2>7. CallIds(c)
    BY <2>1, <2>2, <2>4 DEF CallIds, ids, Tag, Loads
  <2> QED
    BY <2>4, <2>5, <2>6, <2>7 DEF CallFacts
<1>2. CASE get_session_id(c)
  <2> DEFINE to == IF session = 0 THEN "idle" ELSE "send"
             l == [loc[c] EXCEPT !.s = session]
  <2>1. l \in Local
    BY CallerTypes, LocalSet
  <2>2. /\ l.op = loc[c].op /\ l.t = loc[c].t /\ l.reply = loc[c].reply /\ l.s = session
        /\ l.begun = loc[c].begun
    BY CallerTypes DEF Local
  <2>3. to \in {"idle", "send"} /\ to \in Locs
    BY DEF Locs
  <2> HIDE DEF to, l
  <2>4. Goes(c, "readS", to, l) /\ UNCHANGED <<ids, views, net, races, missed>>
    BY <1>2 DEF get_session_id, to, l
  <2>5. /\ CallFrame(c)
        /\ pc' \in [Calls -> Locs] /\ loc' \in [Calls -> Local]
        /\ called' \in 0 .. MaxCalls
        /\ pc[c] = "readS" /\ pc'[c] = to
        /\ loc'[c] = IF to = "idle" THEN Blank ELSE l
    BY <1>0, <2>1, <2>3, <2>4, GoesFrame
  <2>6. loc[c].op \in Loads
    BY <2>5 DEF TInv, OpsFit
  <2>7. CallTypes(c)
    BY <2>2, <2>3, <2>4, <2>5, <2>6, CallerTypes DEF CallTypes, ids, views, net
  <2>8. CallQueues(c) /\ CallLocals(c) /\ CallMedia(c) /\ CallIds(c)
    BY <2>2, <2>3, <2>4, <2>5, BlankIs DEF CallQueues, CallLocals, CallMedia, CallIds,
       ids, net
  <2> QED
    BY <2>5, <2>7, <2>8 DEF CallFacts
<1>3. CASE get_media_session_id(c)
  <2> DEFINE to == IF mediaId > 0 THEN "send" ELSE "idle"
             l == [loc[c] EXCEPT !.m = mediaId]
  <2>1. l \in Local
    BY CallerTypes, LocalSet
  <2>2. /\ l.op = loc[c].op /\ l.t = loc[c].t /\ l.reply = loc[c].reply
        /\ l.begun = loc[c].begun
    BY CallerTypes DEF Local
  <2>3. to \in {"idle", "send"} /\ to \in Locs
    BY DEF Locs
  <2> HIDE DEF to, l
  <2>4. Goes(c, "readM", to, l) /\ UNCHANGED <<ids, views, net, races, missed>>
    BY <1>3 DEF get_media_session_id, to, l
  <2>5. /\ CallFrame(c)
        /\ pc' \in [Calls -> Locs] /\ loc' \in [Calls -> Local]
        /\ called' \in 0 .. MaxCalls
        /\ pc[c] = "readM" /\ pc'[c] = to
        /\ loc'[c] = IF to = "idle" THEN Blank ELSE l
    BY <1>0, <2>1, <2>3, <2>4, GoesFrame
  <2>6. loc[c].op \in Controls \cup {"stop_media"}
    BY <2>5 DEF TInv, OpsFit
  <2>7. CallTypes(c)
    BY <2>2, <2>3, <2>4, <2>5, <2>6, CallerTypes DEF CallTypes, ids, views, net
  <2>8. CallQueues(c) /\ CallLocals(c) /\ CallMedia(c) /\ CallIds(c)
    BY <2>2, <2>3, <2>4, <2>5, <2>6, BlankIs DEF CallQueues, CallLocals, CallMedia,
       CallIds, ids, net, Controls, Loads
  <2> QED
    BY <2>5, <2>7, <2>8 DEF CallFacts
<1> QED
  BY <1>1, <1>2, <1>3

LEMMA TimeoutDoes ==
  ASSUME TInv, NEW c \in Calls, TimesOut(c) \/ LaunchTimesOut(c)
  PROVE  CallFacts(c)
<1>0. TypeOK /\ "idle" \in Locs /\ Blank \in Local
  BY BlankIs DEF TInv, Locs
<1>1. CASE TimesOut(c)
  <2>1. /\ CallFrame(c)
        /\ pc' \in [Calls -> Locs] /\ loc' \in [Calls -> Local]
        /\ called' \in 0 .. MaxCalls
        /\ pc[c] = "wait" /\ pc'[c] = "idle" /\ loc'[c] = Blank
    BY <1>0, <1>1, GoesFrame DEF TimesOut
  <2>2. /\ toDevice' = Forget(c, toDevice) /\ toClient' = Forget(c, toClient)
        /\ UNCHANGED <<ids, views, races, missed>>
    BY <1>1 DEF TimesOut
  <2>3. /\ toDevice' \in Seq(ToDevice) /\ Len(toDevice') <= NetCap
        /\ toClient' \in Seq(ToClient) /\ Len(toClient') <= NetCap
    BY <2>2, CallerTypes, ForgottenToDevice, ForgottenToClient
  <2>4. CallTypes(c)
    BY <2>1, <2>2, <2>3, CallerTypes DEF CallTypes, ids, views
  <2>5. CallQueues(c) /\ CallLocals(c) /\ CallMedia(c) /\ CallIds(c)
    BY <2>1, <2>2, BlankIs DEF CallQueues, CallLocals, CallMedia, CallIds, ids
  <2> QED
    BY <2>1, <2>4, <2>5 DEF CallFacts
<1>2. CASE LaunchTimesOut(c)
  <2>1. /\ CallFrame(c)
        /\ pc' \in [Calls -> Locs] /\ loc' \in [Calls -> Local]
        /\ called' \in 0 .. MaxCalls
        /\ pc[c] = "events" /\ pc'[c] = "idle" /\ loc'[c] = Blank
    BY <1>0, <1>2, GoesFrame DEF LaunchTimesOut
  <2>2. UNCHANGED <<ids, views, net, races, missed>>
    BY <1>2 DEF LaunchTimesOut
  <2>4. CallTypes(c)
    BY <2>1, <2>2, CallerTypes DEF CallTypes, ids, views, net
  <2>5. CallQueues(c) /\ CallLocals(c) /\ CallMedia(c) /\ CallIds(c)
    BY <2>1, <2>2, BlankIs DEF CallQueues, CallLocals, CallMedia, CallIds, ids, net
  <2> QED
    BY <2>1, <2>4, <2>5 DEF CallFacts
<1> QED
  BY <1>1, <1>2

LEMMA LaunchReplyDoes ==
  ASSUME TInv, NEW c \in Calls, LaunchReply(c)
  PROVE  CallFacts(c)
<1> DEFINE r == loc[c].reply
           l == [loc[c] EXCEPT !.t = r.app, !.reply = Nobody]
<1>0. TypeOK /\ {"idle", "events", "setT"} \subseteq Locs /\ r.app \in 0 .. MaxApps
  BY CallerTypes DEF TInv, Locs
<1>1. l \in Local
  BY <1>0, CallerTypes, LocalSet, BlankIs
<1>2. l.t = r.app /\ l.reply = Nobody /\ l.op = loc[c].op /\ l.begun = loc[c].begun
  BY CallerTypes DEF Local
<1>3. UNCHANGED <<ids, views, toClient, races, missed>>
  BY DEF LaunchReply
<1>4. connect_msg(r.app) \in ToDevice
  BY <1>0, ConnectIs
<1>5. /\ CallFrame(c)
      /\ pc' \in [Calls -> Locs] /\ loc' \in [Calls -> Local]
      /\ called' \in 0 .. MaxCalls
      /\ pc[c] = "reply"
      /\ \/ pc'[c] \in {"setT", "events"} /\ loc'[c] = l
         \/ pc'[c] = "idle" /\ loc'[c] = Blank
      /\ toDevice' \in Seq(ToDevice) /\ Len(toDevice') <= NetCap
      /\ \/ toDevice' = toDevice
         \/ /\ toDevice' = Append(toDevice, connect_msg(r.app))
            /\ pc'[c] = "setT" /\ link # "down"
  <2> HIDE DEF l
  <2>1. CASE r.type = "RECEIVER_STATUS" /\ r.app # 0
    <3>1. Writes(c, "reply", "setT", l, connect_msg(r.app))
      BY <2>1 DEF LaunchReply, l
    <3> QED
      BY <1>0, <1>1, <1>4, <3>1, WritesFrame
  <2>2. CASE ~(r.type = "RECEIVER_STATUS" /\ r.app # 0)
    <3>1. /\ Goes(c, "reply", IF check_device_error(r) THEN "idle" ELSE "events", l)
          /\ UNCHANGED toDevice
      BY <2>2 DEF LaunchReply, l
    <3>2. CASE check_device_error(r)
      BY <1>0, <1>1, <3>1, <3>2, GoesFrame, CallerTypes
    <3>3. CASE ~check_device_error(r)
      BY <1>0, <1>1, <3>1, <3>3, GoesFrame, CallerTypes
    <3> QED
      BY <3>2, <3>3
  <2> QED
    BY <2>1, <2>2
<1> HIDE DEF l
<1>6. CallTypes(c)
  BY <1>3, <1>5, CallerTypes DEF CallTypes, ids, views
<1>7. CallQueues(c)
  <2>1. toDevice' = Append(toDevice, connect_msg(r.app)) => l.t = loc'[c].t \/ pc'[c] = "idle"
    BY <1>5
  <2> QED
    BY <1>2, <1>3, <1>5, <2>1 DEF CallQueues
<1>8. CallLocals(c)
  BY <1>2, <1>5, BlankIs DEF CallLocals
<1>9. CallMedia(c) /\ CallIds(c)
  BY <1>3, <1>5 DEF CallMedia, CallIds, ids
<1> QED
  BY <1>5, <1>6, <1>7, <1>8, <1>9 DEF CallFacts

LEMMA LaunchTakesEventDoes ==
  ASSUME TInv, NEW c \in Calls, LaunchTakesEvent(c)
  PROVE  CallFacts(c)
<1> DEFINE e == Head(events)
           to == IF e.kind = "receiver" /\ e.app # 0 THEN "connect" ELSE "events"
           l == [loc[c] EXCEPT !.t = e.app]
<1>0. TypeOK /\ to \in Locs /\ to \in {"connect", "events"}
  BY DEF TInv, Locs
<1>1. events # <<>> /\ events' = Tail(events) /\ e.app \in 0 .. MaxApps
  <2>1. e \in Event
    BY Dropped DEF LaunchTakesEvent, TInv, TypeOK
  <2> QED
    BY <2>1 DEF LaunchTakesEvent, Event
<1>2. l \in Local /\ l.t = e.app /\ l.reply = loc[c].reply /\ l.begun = loc[c].begun
  <2>1. l \in Local
    BY <1>1, CallerTypes, LocalSet
  <2> QED
    BY <2>1, CallerTypes DEF Local
<1> HIDE DEF l, to
<1>3. /\ Goes(c, "events", to, l)
      /\ UNCHANGED <<ids, mediaWatch, receiverWatch, net, races, missed>>
  BY DEF LaunchTakesEvent, l, to
<1>4. /\ CallFrame(c)
      /\ pc' \in [Calls -> Locs] /\ loc' \in [Calls -> Local]
      /\ called' \in 0 .. MaxCalls
      /\ pc[c] = "events" /\ pc'[c] = to /\ loc'[c] = l
  <2>1. TypeOK /\ to \in Locs /\ to # "idle" /\ l \in Local /\ Goes(c, "events", to, l)
    BY <1>0, <1>2, <1>3
  <2> QED
    BY <2>1, GoesFrame
<1>5. CallTypes(c)
  <2>1. UNCHANGED <<toDevice, toClient, transport, session, mediaId, mediaWatch,
                    receiverWatch, races, missed>>
    BY <1>3 DEF ids, net
  <2>2. pc'[c] \notin {"readS", "readM", "send", "wait"}
    BY <1>0, <1>4
  <2> QED
    BY <1>1, <1>4, <2>1, <2>2, CallerTypes DEF CallTypes
<1>6. CallQueues(c) /\ CallMedia(c) /\ CallIds(c)
  BY <1>0, <1>3, <1>4 DEF CallQueues, CallMedia, CallIds, ids, net
<1>7. CallLocals(c)
  BY <1>0, <1>1, <1>2, <1>4 DEF CallLocals
<1> QED
  BY <1>4, <1>5, <1>6, <1>7 DEF CallFacts

LEMMA LaunchConnectsDoes ==
  ASSUME TInv, NEW c \in Calls, LaunchConnects(c)
  PROVE  CallFacts(c)
<1>0. TypeOK /\ "setT" \in Locs /\ loc[c] \in Local /\ connect_msg(loc[c].t) \in ToDevice
  BY CallerTypes, ConnectIs DEF TInv, Locs
<1>1. /\ Writes(c, "connect", "setT", loc[c], connect_msg(loc[c].t))
      /\ UNCHANGED <<ids, views, toClient, races, missed>>
  BY DEF LaunchConnects
<1>2. /\ CallFrame(c)
      /\ pc' \in [Calls -> Locs] /\ loc' \in [Calls -> Local]
      /\ called' \in 0 .. MaxCalls
      /\ pc[c] = "connect"
      /\ \/ pc'[c] = "setT" /\ loc'[c] = loc[c]
         \/ pc'[c] = "idle" /\ loc'[c] = Blank
      /\ toDevice' \in Seq(ToDevice) /\ Len(toDevice') <= NetCap
      /\ \/ toDevice' = toDevice
         \/ /\ toDevice' = Append(toDevice, connect_msg(loc[c].t))
            /\ pc'[c] = "setT" /\ link # "down"
  BY <1>0, <1>1, WritesFrame
<1>3. CallTypes(c)
  BY <1>1, <1>2, CallerTypes DEF CallTypes, ids, views
<1>4. CallQueues(c)
  BY <1>1, <1>2 DEF CallQueues
<1>5. CallLocals(c) /\ CallMedia(c) /\ CallIds(c)
  BY <1>1, <1>2, BlankIs DEF CallLocals, CallMedia, CallIds, ids
<1> QED
  BY <1>2, <1>3, <1>4, <1>5 DEF CallFacts

\* The transport is published.
LEMMA StoreTransportDoes ==
  ASSUME TInv, NEW c \in Calls, NEW from, NEW l \in Local,
         from \notin {"wait", "setS"}, l.reply \in {loc[c].reply, Nobody},
         l.t \in {loc[c].t, 0}, l.begun = loc[c].begun,
         Goes(c, from, "setS", l), StoreTransport(c, l.t)
  PROVE  CallFacts(c)
<1>0. TypeOK /\ "setS" \in Locs /\ l.t \in 0 .. MaxApps
  BY DEF TInv, Locs, Local
<1>1. /\ CallFrame(c)
      /\ pc' \in [Calls -> Locs] /\ loc' \in [Calls -> Local]
      /\ called' \in 0 .. MaxCalls
      /\ pc[c] = from /\ pc'[c] = "setS" /\ loc'[c] = l
  <2> DEFINE to == "setS"
  <2>1. Goes(c, from, to, l) /\ to \in Locs /\ to # "idle"
    BY <1>0
  <2> HIDE DEF to
  <2>2. /\ CallFrame(c)
        /\ pc' \in [Calls -> Locs] /\ loc' \in [Calls -> Local]
        /\ called' \in 0 .. MaxCalls
        /\ pc[c] = from /\ pc'[c] = to /\ loc'[c] = l
    BY <1>0, <2>1, GoesFrame
  <2> QED
    BY <2>2 DEF to
<1>2. transport' = l.t /\ UNCHANGED <<session, mediaId, views, net, missed>>
  BY DEF StoreTransport
<1>3. CallTypes(c)
  BY <1>0, <1>1, <1>2, CallerTypes DEF CallTypes, views, net, StoreTransport
<1>4. CallQueues(c) /\ CallLocals(c) /\ CallMedia(c)
  BY <1>1, <1>2 DEF CallQueues, CallLocals, CallMedia, net
<1>5. CallIds(c)
  BY <1>1, <1>2 DEF CallIds, StoreTransport
<1> QED
  BY <1>1, <1>3, <1>4, <1>5 DEF CallFacts

LEMMA StoresDo ==
  ASSUME TInv, NEW c \in Calls, SetTransport(c) \/ StopAppReply(c)
  PROVE  CallFacts(c)
<1>1. CASE SetTransport(c)
  <2> DEFINE l == loc[c]
  <2>1. l \in Local /\ l.reply \in {loc[c].reply, Nobody} /\ l.t \in {loc[c].t, 0}
        /\ l.begun = loc[c].begun
    BY CallerTypes
  <2>2. Goes(c, "setT", "setS", l) /\ StoreTransport(c, l.t)
    BY <1>1 DEF SetTransport
  <2> HIDE DEF l
  <2>3. "setT" \notin {"wait", "setS"}
    OBVIOUS
  <2> QED
    BY <2>1, <2>2, <2>3, StoreTransportDoes
<1>2. CASE StopAppReply(c) /\ ~check_device_error(loc[c].reply)
  <2> DEFINE l == [loc[c] EXCEPT !.t = 0, !.reply = Nobody]
  <2>1. l \in Local /\ l.t = 0 /\ l.reply = Nobody /\ l.begun = loc[c].begun
    <3>0. 0 \in 0 .. MaxApps /\ 0 \in 0 .. MaxMedia
      OBVIOUS
    <3>1. l \in Local
      BY <3>0, CallerTypes, LocalSet, BlankIs
    <3> QED
      BY <3>1, CallerTypes DEF Local
  <2> HIDE DEF l
  <2>2. Goes(c, "reply", "setS", l) /\ StoreTransport(c, 0)
    BY <1>2 DEF StopAppReply, l
  <2> QED
    BY <2>1, <2>2, StoreTransportDoes
<1>3. CASE StopAppReply(c) /\ check_device_error(loc[c].reply)
  <2>0. TypeOK /\ "idle" \in Locs /\ Blank \in Local
    BY BlankIs DEF TInv, Locs
  <2>1. Goes(c, "reply", "idle", Blank) /\ UNCHANGED <<ids, views, net, races, missed>>
    BY <1>3 DEF StopAppReply
  <2>2. /\ CallFrame(c)
        /\ pc' \in [Calls -> Locs] /\ loc' \in [Calls -> Local]
        /\ called' \in 0 .. MaxCalls
        /\ pc[c] = "reply" /\ pc'[c] = "idle" /\ loc'[c] = Blank
    BY <2>0, <2>1, GoesFrame
  <2>3. CallTypes(c)
    BY <2>1, <2>2, CallerTypes DEF CallTypes, ids, views, net
  <2>4. CallQueues(c) /\ CallLocals(c) /\ CallMedia(c) /\ CallIds(c)
    BY <2>1, <2>2, BlankIs DEF CallQueues, CallLocals, CallMedia, CallIds, ids, net
  <2> QED
    BY <2>2, <2>3, <2>4 DEF CallFacts
<1> QED
  BY <1>1, <1>2, <1>3

LEMMA SetSessionDoes ==
  ASSUME TInv, NEW c \in Calls, SetSession(c)
  PROVE  CallFacts(c)
<1>0. TypeOK /\ "idle" \in Locs /\ Blank \in Local
  BY BlankIs DEF TInv, Locs
<1>1. /\ CallFrame(c)
      /\ pc' \in [Calls -> Locs] /\ loc' \in [Calls -> Local]
      /\ called' \in 0 .. MaxCalls
      /\ pc[c] = "setS" /\ pc'[c] = "idle" /\ loc'[c] = Blank
  BY <1>0, GoesFrame DEF SetSession
<1>2. /\ session' = loc[c].t /\ Tag("ids", HalfWritten(c) \/ HalfRead(c))
      /\ UNCHANGED <<transport, mediaId, views, net, missed>>
  BY DEF SetSession
<1>3. CallTypes(c)
  BY <1>1, <1>2, CallerTypes DEF CallTypes, views, net, Tag
<1>4. CallQueues(c) /\ CallLocals(c) /\ CallMedia(c)
  BY <1>1, <1>2, BlankIs DEF CallQueues, CallLocals, CallMedia, net
<1>5. CallIds(c)
  BY <1>1, <1>2 DEF CallIds, Tag
<1> QED
  BY <1>1, <1>3, <1>4, <1>5 DEF CallFacts

LEMMA MediaReplyDoes ==
  ASSUME TInv, NEW c \in Calls, MediaReply(c)
  PROVE  CallFacts(c)
<1>0. TypeOK /\ "idle" \in Locs /\ Blank \in Local
  BY BlankIs DEF TInv, Locs
<1>1. /\ CallFrame(c)
      /\ pc' \in [Calls -> Locs] /\ loc' \in [Calls -> Local]
      /\ called' \in 0 .. MaxCalls
      /\ pc[c] = "reply" /\ pc'[c] = "idle" /\ loc'[c] = Blank
  BY <1>0, GoesFrame DEF MediaReply
<1>2. UNCHANGED <<transport, session, views, net, races>>
  BY DEF MediaReply
<1>3. mediaId' \in 0 .. MaxMedia
  BY CallerTypes DEF MediaReply
<1>4. missed \subseteq missed' /\ missed' \subseteq missed \cup {"id"}
  BY DEF MediaReply
<1>5. CallTypes(c)
  BY <1>1, <1>2, <1>3, <1>4, CallerTypes DEF CallTypes, views, net
<1>6. CallQueues(c) /\ CallLocals(c) /\ CallIds(c)
  BY <1>1, <1>2, BlankIs DEF CallQueues, CallLocals, CallIds, net
<1>7. CallMedia(c)
  <2>1. mediaWatch \in Nat /\ loc[c].reply.m \in Nat
    BY CallerTypes
  <2> QED
    BY <1>1, <2>1 DEF CallMedia, MediaReply, Loads
<1> QED
  BY <1>1, <1>5, <1>6, <1>7 DEF CallFacts

LEMMA CallStepDoes == ASSUME TInv, NEW c \in Calls, CallStep(c) PROVE CallFacts(c)
  BY CallDoes, SendDoes, ReadDoes, TimeoutDoes, LaunchReplyDoes, LaunchTakesEventDoes,
     LaunchConnectsDoes, StoresDo, SetSessionDoes, MediaReplyDoes DEF CallStep

-----------------------------------------------------------------------------
(* What a step of the device does                                          *)

DeviceFrame ==
    /\ pc' = pc /\ loc' = loc /\ called' = called
    /\ transport' = transport /\ session' = session /\ mediaId' = mediaId
    /\ mediaWatch' = mediaWatch /\ receiverWatch' = receiverWatch /\ events' = events
    /\ routing' = routing /\ link' = link /\ losses' = losses /\ races' = races

\* A message that tells of the application, or of the media session
Kinds == {"receiver", "media", "id"}
IsNews(m, k) ==
    IF k = "receiver" THEN m.type = "RECEIVER_STATUS" ELSE m.type = "MEDIA_STATUS" /\ m.m # 0
Value(m, k) == IF k = "receiver" THEN m.app ELSE m.m

\* The device has just said news of kind k, and the client will hear it.
Fresh(k) == \E i \in DOMAIN toClient' : i \notin DOMAIN toClient /\ IsNews(toClient'[i], k)

\* It says the messages of M, or the client does not hear them.
Said(M) ==
    /\ DeviceFrame
    /\ toClient' \in Seq(ToClient) /\ Len(toClient') <= NetCap
    /\ \A i \in DOMAIN toClient : i \in DOMAIN toClient' /\ toClient'[i] = toClient[i]
    /\ \A i \in DOMAIN toClient' : i \in DOMAIN toClient \/ toClient'[i] \in M
    /\ missed' \subseteq Kinds /\ MissedFits'
    /\ \A k \in Kinds :
          k \notin missed' => Fresh(k) \/ (k \notin missed /\ \A m \in M : ~IsNews(m, k))
    /\ opened = {} => toClient' = toClient

\* What is told by one message or two
LEMMA ToldIs ==
  ASSUME NEW m, NEW n, NEW k \in Kinds
  PROVE  /\ k \in Told(<<m>>) <=> IsNews(m, k)
         /\ k \in Told(<<m, n>>) <=> IsNews(m, k) \/ IsNews(n, k)
         /\ Told(<<m>>) \subseteq Kinds /\ Told(<<m, n>>) \subseteq Kinds
<1>1. /\ DOMAIN <<m>> = {1} /\ <<m>>[1] = m
      /\ DOMAIN <<m, n>> = {1, 2} /\ <<m, n>>[1] = m /\ <<m, n>>[2] = n
  OBVIOUS
<1>2. /\ Told(<<m>>) = (IF m.type = "RECEIVER_STATUS" THEN {"receiver"} ELSE {})
                         \cup (IF m.type = "MEDIA_STATUS" /\ m.m # 0 THEN {"media", "id"} ELSE {})
      /\ Told(<<m, n>>) = (IF m.type = "RECEIVER_STATUS" \/ n.type = "RECEIVER_STATUS"
                           THEN {"receiver"} ELSE {})
                         \cup (IF \/ m.type = "MEDIA_STATUS" /\ m.m # 0
                                  \/ n.type = "MEDIA_STATUS" /\ n.m # 0
                               THEN {"media", "id"} ELSE {})
  BY <1>1 DEF Told
<1> QED
  BY <1>2 DEF IsNews, Kinds

\* What the client has missed after the device has said something, heard or not
LEMMA MissedIs ==
  ASSUME TInv, NEW T, T \subseteq Kinds, "media" \in T <=> "id" \in T,
         missed' = missed \ T \/ missed' = missed \cup T
  PROVE  missed' \subseteq Kinds /\ MissedFits'
  BY DEF TInv, TypeOK, MissedFits, Kinds

LEMMA SaysOne ==
  ASSUME TInv, NEW source, NEW m \in ToClient, Says(source, <<m>>)
  PROVE  Said({m})
<1>1. toClient \in Seq(ToClient) /\ Len(toClient) + 1 <= NetCap
  BY DEF TInv, TypeOK, Says
<1>2. DeviceFrame
  BY DEF Says, DeviceFrame, ids, views, conn, calls
<1> DEFINE T == Told(<<m>>)
<1>3. T \subseteq Kinds /\ ("media" \in T <=> "id" \in T) /\ \A k \in Kinds : k \in T <=> IsNews(m, k)
  BY ToldIs DEF Kinds, IsNews
<1>4. missed' = IF source \in opened THEN missed \ T ELSE missed \cup T
  BY DEF Says
<1> HIDE DEF T
<1>5. missed' \subseteq Kinds /\ MissedFits'
  BY <1>3, <1>4, MissedIs
<1>6. CASE source \in opened
  <2>1. toClient' = Append(toClient, m)
    BY <1>1, <1>6, Joined1 DEF Says
  <2>2. Len(toClient) + 1 \notin DOMAIN toClient
    BY <1>1, LenProperties
  <2>3. /\ toClient' \in Seq(ToClient) /\ Len(toClient') <= NetCap
        /\ \A i \in DOMAIN toClient : i \in DOMAIN toClient' /\ toClient'[i] = toClient[i]
        /\ \A i \in DOMAIN toClient' : i \in DOMAIN toClient \/ toClient'[i] = m
        /\ \E i \in DOMAIN toClient' : i \notin DOMAIN toClient /\ toClient'[i] = m
    BY <1>1, <2>1, <2>2, Appended
  <2>4. \A k \in Kinds : k \notin missed' => Fresh(k) \/ (k \notin missed /\ ~IsNews(m, k))
    BY <1>3, <1>4, <1>6, <2>3 DEF Fresh
  <2> QED
    BY <1>2, <1>5, <1>6, <2>3, <2>4 DEF Said
<1>7. CASE source \notin opened
  <2>1. toClient' = toClient
    BY <1>7 DEF Says
  <2>2. \A k \in Kinds : k \notin missed' => k \notin missed /\ ~IsNews(m, k)
    BY <1>3, <1>4, <1>7
  <2> QED
    BY <1>1, <1>2, <1>5, <2>1, <2>2, LenProperties DEF Said
<1> QED
  BY <1>6, <1>7

LEMMA SaysTwo ==
  ASSUME TInv, NEW source, NEW m \in ToClient, NEW n \in ToClient, Says(source, <<m, n>>)
  PROVE  Said({m, n})
<1>1. toClient \in Seq(ToClient) /\ Len(toClient) + 2 <= NetCap /\ Len(toClient) \in Nat
  BY LenProperties DEF TInv, TypeOK, Says
<1>2. DeviceFrame
  BY DEF Says, DeviceFrame, ids, views, conn, calls
<1> DEFINE T == Told(<<m, n>>)
<1>3. /\ T \subseteq Kinds /\ ("media" \in T <=> "id" \in T)
      /\ \A k \in Kinds : k \in T <=> IsNews(m, k) \/ IsNews(n, k)
  BY ToldIs DEF Kinds, IsNews
<1>4. missed' = IF source \in opened THEN missed \ T ELSE missed \cup T
  BY DEF Says
<1> HIDE DEF T
<1>5. missed' \subseteq Kinds /\ MissedFits'
  BY <1>3, <1>4, MissedIs
<1>6. CASE source \in opened
  <2> DEFINE q == Append(toClient, m)
  <2>1. toClient' = Append(q, n)
    BY <1>1, <1>6, Joined2 DEF Says
  <2>2. /\ q \in Seq(ToClient) /\ Len(q) = Len(toClient) + 1
        /\ \A i \in DOMAIN toClient : i \in DOMAIN q /\ q[i] = toClient[i]
        /\ \A i \in DOMAIN q : i \in DOMAIN toClient \/ i = Len(toClient) + 1
        /\ Len(toClient) + 1 \in DOMAIN q /\ q[Len(toClient) + 1] = m
    BY <1>1, Appended
  <2> HIDE DEF q
  <2>3. /\ toClient' \in Seq(ToClient) /\ Len(toClient') = Len(q) + 1
        /\ \A i \in DOMAIN q : i \in DOMAIN toClient' /\ toClient'[i] = q[i]
        /\ \A i \in DOMAIN toClient' : i \in DOMAIN q \/ i = Len(q) + 1
        /\ Len(q) + 1 \in DOMAIN toClient' /\ toClient'[Len(q) + 1] = n
    BY <2>1, <2>2, Appended
  <2>4. Len(toClient) + 1 \notin DOMAIN toClient /\ Len(q) + 1 \notin DOMAIN toClient
    BY <1>1, <2>2, LenProperties
  <2>5. /\ toClient' \in Seq(ToClient) /\ Len(toClient') <= NetCap
        /\ \A i \in DOMAIN toClient : i \in DOMAIN toClient' /\ toClient'[i] = toClient[i]
        /\ \A i \in DOMAIN toClient' : i \in DOMAIN toClient \/ toClient'[i] \in {m, n}
        /\ \E i \in DOMAIN toClient' : i \notin DOMAIN toClient /\ toClient'[i] = m
        /\ \E i \in DOMAIN toClient' : i \notin DOMAIN toClient /\ toClient'[i] = n
    BY <1>1, <2>2, <2>3, <2>4
  <2>6. \A k \in Kinds :
            k \notin missed' => Fresh(k) \/ (k \notin missed /\ ~IsNews(m, k) /\ ~IsNews(n, k))
    BY <1>3, <1>4, <1>6, <2>5 DEF Fresh
  <2> QED
    BY <1>2, <1>5, <1>6, <2>5, <2>6 DEF Said
<1>7. CASE source \notin opened
  <2>1. toClient' = toClient
    BY <1>7 DEF Says
  <2>2. \A k \in Kinds : k \notin missed' => k \notin missed /\ ~IsNews(m, k) /\ ~IsNews(n, k)
    BY <1>3, <1>4, <1>7
  <2> QED
    BY <1>1, <1>2, <1>5, <2>1, <2>2, LenProperties DEF Said
<1> QED
  BY <1>6, <1>7

\* A message the device may send: it names a current application and a media
\* session there has been, it answers the request the device has just taken, and
\* a status tells the state the device is in afterwards, or of the session that
\* has just ended; only a load that begins a session is answered as one.
New(m) ==
    /\ m.app <= apps' /\ m.m <= medias'
    /\ m.req \in Calls =>
         toDevice # <<>> /\ m.req = Head(toDevice).req /\ toDevice' = Tail(toDevice)
    /\ m.type = "RECEIVER_STATUS" => m.app = app'
    /\ m.type = "MEDIA_STATUS" /\ m.m # 0 => m.m = medias'
    /\ m.req \in Calls /\ Head(toDevice).type = "MEDIA_STOP" /\ ~check_device_error(m)
         => media' = 0 \/ m.m # media'
    /\ m.req \in Calls /\ Head(toDevice).type \in {"LOAD", "QUEUE_LOAD"} /\ LoadOk(m)
         => m.m = medias + 1

DeviceSays ==
    /\ \A i \in DOMAIN toClient : i \in DOMAIN toClient' /\ toClient'[i] = toClient[i]
    /\ \A i \in DOMAIN toClient' : i \in DOMAIN toClient \/ New(toClient'[i])
    /\ "receiver" \notin missed' =>
         Fresh("receiver") \/ ("receiver" \notin missed /\ app' = app)
    /\ \A k \in {"media", "id"} :
          k \notin missed' => Fresh("media") \/ (k \notin missed /\ medias' = medias)

\* Applications and media sessions are numbered, destinations stay open as long as
\* the application runs, and a CONNECT that is taken opens its destination.
DeviceState ==
    /\ apps <= apps' /\ (app' = app \/ app' = 0 \/ (app' = apps + 1 /\ apps' = apps + 1))
    /\ \/ medias' = medias /\ media' \in {media, 0}
       \/ medias' = medias + 1 /\ media' = medias'
    /\ Receiver \in opened => Receiver \in opened'
    /\ app \in opened /\ app' = app => app \in opened'
    /\ toDevice # <<>> /\ toDevice' = Tail(toDevice) /\ Head(toDevice).type = "CONNECT"
         => {Head(toDevice).to} \cap {Receiver, app'} \subseteq opened'
    /\ opened = {} /\ toDevice = <<>> => opened' = {} /\ toClient' = toClient

DeviceTypes ==
    /\ toDevice' \in Seq(ToDevice) /\ Len(toDevice') <= NetCap
    /\ toDevice' = toDevice \/ (toDevice # <<>> /\ toDevice' = Tail(toDevice))
    /\ toClient' \in Seq(ToClient) /\ Len(toClient') <= NetCap
    /\ apps' \in 0 .. MaxApps /\ app' \in 0 .. apps' /\ loading' \in BOOLEAN
    /\ medias' \in 0 .. MaxMedia /\ media' \in {0, medias'}
    /\ opened' \subseteq 0 .. MaxApps /\ news' \in 0 .. MaxNews
    /\ missed' \subseteq Kinds /\ MissedFits'
    /\ LoadingFits'

DeviceFacts == DeviceFrame /\ DeviceSays /\ DeviceState /\ DeviceTypes

LEMMA DeviceVars ==
  ASSUME TInv
  PROVE  /\ toDevice \in Seq(ToDevice) /\ Len(toDevice) <= NetCap /\ Len(toDevice) \in Nat
         /\ toClient \in Seq(ToClient) /\ Len(toClient) <= NetCap
         /\ apps \in 0 .. MaxApps /\ app \in 0 .. apps /\ app \in 0 .. MaxApps
         /\ loading \in BOOLEAN /\ (loading => app = 0 /\ apps < MaxApps)
         /\ medias \in 0 .. MaxMedia /\ media \in {0, medias} /\ media \in 0 .. MaxMedia
         /\ missed \subseteq Kinds /\ MissedFits
         /\ opened \subseteq 0 .. MaxApps /\ news \in 0 .. MaxNews
         /\ NoCall \in Ids /\ NoCall \notin Calls
         /\ 0 \in 0 .. MaxApps /\ 0 \in 0 .. MaxMedia
  BY LenProperties DEF TInv, TypeOK, LoadingFits, Ids, Kinds

\* The message the device takes
LEMMA Taken ==
  ASSUME TInv, toDevice # <<>>
  PROVE  /\ Head(toDevice) \in ToDevice /\ Head(toDevice).req \in Ids
         /\ Head(toDevice).to \in 0 .. MaxApps
         /\ Tail(toDevice) \in Seq(ToDevice) /\ Len(Tail(toDevice)) <= NetCap
         /\ Head(toDevice).type = "STOP" => Head(toDevice).s # 0
<1>1. /\ Head(toDevice) \in ToDevice /\ Tail(toDevice) \in Seq(ToDevice)
      /\ Len(Tail(toDevice)) <= NetCap /\ Head(toDevice) = toDevice[1]
      /\ 1 \in DOMAIN toDevice
  BY DeviceVars, Dropped
<1>2. Head(toDevice).req \in Ids /\ Head(toDevice).to \in 0 .. MaxApps
  BY <1>1 DEF ToDevice
<1> QED
  BY <1>1, <1>2 DEF TInv, StopsFit

LEMMA SaidSays ==
  ASSUME NEW M, Said(M), \A m \in M : New(m),
         app' # app => \E m \in M : m.type = "RECEIVER_STATUS",
         medias' # medias => \E m \in M : m.type = "MEDIA_STATUS" /\ m.m # 0
  PROVE  DeviceSays
  BY DEF Said, DeviceSays, IsNews, Fresh, Kinds

\* The steps that say nothing
LEMMA DeviceHears ==
  ASSUME TInv, DeviceConnects \/ DeviceIgnores
  PROVE  DeviceFacts
<1>1. toDevice # <<>> /\ toDevice' = Tail(toDevice) /\ toClient' = toClient
  BY DEF DeviceConnects, DeviceIgnores
<1>2. /\ app' = app /\ apps' = apps /\ loading' = loading /\ media' = media
      /\ medias' = medias /\ news' = news /\ missed' = missed
  BY DEF DeviceConnects, DeviceIgnores, device
<1>3. DeviceFrame
  BY DEF DeviceConnects, DeviceIgnores, DeviceFrame, ids, views, conn, calls
<1>4. DeviceSays
  BY <1>1, <1>2 DEF DeviceSays
<1>5. /\ opened \subseteq opened' /\ opened' \subseteq 0 .. MaxApps
      /\ Head(toDevice).type = "CONNECT" =>
           {Head(toDevice).to} \cap {Receiver, app} \subseteq opened'
  BY <1>1, DeviceVars, Taken DEF DeviceConnects, DeviceIgnores, device
<1>6. DeviceState
  <2>1. apps <= apps' /\ app' = app /\ medias' = medias /\ media' \in {media, 0}
    BY <1>2, DeviceVars
  <2>2. {Receiver, app'} = {Receiver, app}
    BY <1>2
  <2> QED
    BY <1>1, <1>5, <2>1, <2>2 DEF DeviceState
<1>7. DeviceTypes
  BY <1>1, <1>2, <1>5, DeviceVars, Taken DEF DeviceTypes, LoadingFits, MissedFits
<1> QED
  BY <1>3, <1>4, <1>6, <1>7 DEF DeviceFacts

\* The device has taken a message that opens nothing and is not about media, or
\* acts of its own accord.
Prompted(c) ==
    \/ toDevice' = toDevice /\ c = NoCall
    \/ /\ toDevice # <<>> /\ toDevice' = Tail(toDevice) /\ c = Head(toDevice).req
       /\ Head(toDevice).type \notin {"CONNECT", "MEDIA_STOP", "LOAD", "QUEUE_LOAD"}

\* One message about the application, or an error
LEMMA LaunchDoes ==
  ASSUME TInv, NEW c \in Ids, Prompted(c), NEW m \in ToClient, Says(Receiver, <<m>>),
         m.req = c, m.m = 0, m.app \in {0, app'},
         m.type \in {"RECEIVER_STATUS", "LAUNCH_ERROR"},
         m.type = "RECEIVER_STATUS" => m.app = app',
         \/ app' = app /\ apps' = apps
         \/ /\ app' = apps + 1 /\ apps' = apps + 1 /\ apps < MaxApps
            /\ m.type = "RECEIVER_STATUS",
         loading' \in BOOLEAN, LoadingFits', UNCHANGED <<media, medias, opened, news>>
  PROVE  DeviceFacts
<1>0. app' \in 0 .. MaxApps /\ apps' \in 0 .. MaxApps /\ app' \in 0 .. apps' /\ apps <= apps'
  BY DeviceVars
<1>2. Said({m})
  BY SaysOne
<1>3. New(m)
  BY <1>0, DeviceVars DEF New, Prompted
<1>4. DeviceSays
  BY <1>2, <1>3, SaidSays
<1>5. DeviceState
  BY <1>0, <1>2, DeviceVars DEF DeviceState, Said, Prompted
<1>6. DeviceTypes
  BY <1>0, <1>2, DeviceVars, Taken DEF DeviceTypes, Said, Prompted
<1> QED
  BY <1>2, <1>4, <1>5, <1>6 DEF DeviceFacts, Said

LEMMA DeviceLaunchesDoes == ASSUME TInv, DeviceLaunches PROVE DeviceFacts
<1> DEFINE c == Head(toDevice).req
<1>1. c \in Ids /\ Prompted(c) /\ UNCHANGED <<media, medias, opened, news>>
  BY Taken DEF DeviceLaunches, Takes, Prompted
<1> HIDE DEF c
<1>2. CASE app # 0 /\ Says(Receiver, <<ReceiverStatus(c, app)>>)
           /\ UNCHANGED <<app, apps, loading>>
  <2>1. /\ ReceiverStatus(c, app) \in ToClient /\ ReceiverStatus(c, app).req = c
        /\ ReceiverStatus(c, app).m = 0 /\ ReceiverStatus(c, app).app = app'
        /\ ReceiverStatus(c, app).type = "RECEIVER_STATUS"
    BY <1>1, <1>2, ReceiverStatusIs, DeviceVars
  <2>2. LoadingFits' /\ loading' \in BOOLEAN
    BY <1>2, DeviceVars DEF LoadingFits
  <2> QED
    BY <1>1, <1>2, <2>1, <2>2, LaunchDoes
<1>3. CASE /\ app = 0 /\ ~loading /\ apps < MaxApps
           /\ app' = apps + 1 /\ apps' = apps + 1 /\ UNCHANGED loading
           /\ Says(Receiver, <<ReceiverStatus(c, apps + 1)>>)
  <2> DEFINE m == ReceiverStatus(c, apps + 1)
  <2>0. apps + 1 \in 0 .. MaxApps
    BY <1>3, DeviceVars
  <2>1. m \in ToClient /\ m.req = c /\ m.m = 0 /\ m.app = app' /\ m.type = "RECEIVER_STATUS"
    BY <1>1, <1>3, <2>0, ReceiverStatusIs, DeviceVars
  <2>2. LoadingFits' /\ loading' \in BOOLEAN
    BY <1>3, DeviceVars DEF LoadingFits
  <2>3. Says(Receiver, <<m>>)
    BY <1>3
  <2> HIDE DEF m
  <2> QED
    BY <1>1, <1>3, <2>1, <2>2, <2>3, LaunchDoes
<1>4. CASE /\ app = 0 /\ apps < MaxApps /\ loading' = TRUE
           /\ Says(Receiver, <<ReceiverStatus(c, 0)>>) /\ UNCHANGED <<app, apps>>
  <2> DEFINE m == ReceiverStatus(c, 0)
  <2>1. m \in ToClient /\ m.req = c /\ m.m = 0 /\ m.app = app' /\ m.type = "RECEIVER_STATUS"
    BY <1>1, <1>4, ReceiverStatusIs, DeviceVars
  <2>2. LoadingFits' /\ loading' \in BOOLEAN
    BY <1>4, DeviceVars DEF LoadingFits
  <2>3. Says(Receiver, <<m>>)
    BY <1>4
  <2> HIDE DEF m
  <2> QED
    BY <1>1, <1>4, <2>1, <2>2, <2>3, LaunchDoes
<1>5. CASE Says(Receiver, <<Bare("LAUNCH_ERROR", c)>>) /\ UNCHANGED <<app, apps, loading>>
  <2> DEFINE m == Bare("LAUNCH_ERROR", c)
  <2>1. m \in ToClient /\ m.req = c /\ m.m = 0 /\ m.app = 0 /\ m.type = "LAUNCH_ERROR"
    BY <1>1, BareIs, DeviceVars
  <2>2. LoadingFits' /\ loading' \in BOOLEAN
    BY <1>5, DeviceVars DEF LoadingFits
  <2>3. Says(Receiver, <<m>>)
    BY <1>5
  <2> HIDE DEF m
  <2> QED
    BY <1>1, <1>5, <2>1, <2>2, <2>3, LaunchDoes
<1> QED
  BY <1>2, <1>3, <1>4, <1>5 DEF DeviceLaunches, c

LEMMA DeviceLoadedDoes == ASSUME TInv, DeviceLoaded PROVE DeviceFacts
<1> DEFINE m == ReceiverStatus(NoCall, apps + 1)
<1>0. /\ apps + 1 \in 0 .. MaxApps /\ apps < MaxApps
      /\ app' = apps + 1 /\ apps' = apps + 1 /\ loading' = FALSE
      /\ UNCHANGED <<toDevice, media, medias, opened, news>>
  BY DeviceVars DEF DeviceLoaded
<1>1. m \in ToClient /\ m.req = NoCall /\ m.m = 0 /\ m.app = app'
      /\ m.type = "RECEIVER_STATUS"
  BY <1>0, ReceiverStatusIs, DeviceVars
<1>2. Says(Receiver, <<m>>)
  BY DEF DeviceLoaded
<1>3. Prompted(NoCall) /\ LoadingFits'
  BY <1>0 DEF Prompted, LoadingFits
<1> HIDE DEF m
<1> QED
  BY <1>0, <1>1, <1>2, <1>3, LaunchDoes, DeviceVars

\* The application ends, on demand or not.
LEMMA AppEndsDoes ==
  ASSUME TInv, NEW c \in Ids, app # 0, AppEnds,
         Says(Receiver, <<Bare("CLOSE", NoCall), ReceiverStatus(c, 0)>>), Prompted(c),
         news' \in 0 .. MaxNews, UNCHANGED <<apps, loading, medias>>
  PROVE  DeviceFacts
<1> DEFINE m == Bare("CLOSE", NoCall)
           n == ReceiverStatus(c, 0)
<1>1. /\ m \in ToClient /\ m.req = NoCall /\ m.m = 0 /\ m.app = 0 /\ m.type = "CLOSE"
      /\ n \in ToClient /\ n.req = c /\ n.m = 0 /\ n.app = 0 /\ n.type = "RECEIVER_STATUS"
  BY ReceiverStatusIs, BareIs, DeviceVars
<1> HIDE DEF m, n
<1>2. Said({m, n})
  BY <1>1, SaysTwo DEF m, n
<1>3. app' = 0 /\ media' = 0 /\ opened' = opened \ {app}
  BY DEF AppEnds
<1>4. New(m) /\ New(n)
  BY <1>1, <1>3, DeviceVars DEF New, Prompted
<1>5. DeviceSays
  BY <1>1, <1>2, <1>3, <1>4, SaidSays
<1>6. DeviceState
  BY <1>2, <1>3, DeviceVars DEF DeviceState, Said, Receiver, Prompted
<1>7. DeviceTypes
  <2>1. apps' = apps /\ loading' = loading /\ medias' = medias
    OBVIOUS
  <2>2. LoadingFits' /\ loading' \in BOOLEAN /\ apps' \in 0 .. MaxApps /\ app' \in 0 .. apps'
        /\ medias' \in 0 .. MaxMedia /\ media' \in {0, medias'}
    BY <1>3, <2>1, DeviceVars DEF LoadingFits
  <2>3. toDevice' = toDevice \/ (toDevice # <<>> /\ toDevice' = Tail(toDevice))
    BY DEF Prompted
  <2>4. opened' \subseteq 0 .. MaxApps
    BY <1>3, DeviceVars
  <2> QED
    BY <1>2, <2>2, <2>3, <2>4, DeviceVars, Taken DEF DeviceTypes, Said
<1> QED
  BY <1>2, <1>5, <1>6, <1>7 DEF DeviceFacts, Said

\* It has taken no message, or one that is not a CONNECT.
TakesOne ==
    \/ toDevice' = toDevice
    \/ toDevice # <<>> /\ toDevice' = Tail(toDevice) /\ Head(toDevice).type # "CONNECT"

\* The device answers without a change of its applications.
LEMMA AnswerDoes ==
  ASSUME TInv, NEW source, NEW m \in ToClient, Says(source, <<m>>), New(m),
         TakesOne,
         \/ medias' = medias /\ media' \in {media, 0}
         \/ /\ medias' = medias + 1 /\ medias < MaxMedia /\ media' = medias'
            /\ m.type = "MEDIA_STATUS" /\ m.m # 0,
         news' \in 0 .. MaxNews, UNCHANGED <<app, apps, loading, opened>>
  PROVE  DeviceFacts
<1>1. Said({m})
  BY SaysOne
<1>2. DeviceSays
  BY <1>1, SaidSays
<1>3. DeviceState
  BY <1>1, DeviceVars DEF DeviceState, Said, TakesOne
<1>4. DeviceTypes
  <2>1. LoadingFits' /\ loading' \in BOOLEAN /\ apps' \in 0 .. MaxApps /\ app' \in 0 .. apps'
        /\ opened' \subseteq 0 .. MaxApps
    BY DeviceVars DEF LoadingFits
  <2>2. medias' \in 0 .. MaxMedia /\ media' \in {0, medias'}
    BY DeviceVars
  <2> QED
    BY <1>1, <2>1, <2>2, DeviceVars, Taken DEF DeviceTypes, Said, TakesOne
<1> QED
  BY <1>1, <1>2, <1>3, <1>4 DEF DeviceFacts, Said

LEMMA DeviceStopsDoes ==
  ASSUME TInv, DeviceStops \/ DeviceDropsApp
  PROVE  DeviceFacts
<1>1. CASE DeviceDropsApp
  <2>1. Prompted(NoCall) /\ news' \in 0 .. MaxNews
    BY <1>1, DeviceVars DEF DeviceDropsApp, Prompted, OfItsOwn
  <2> QED
    BY <1>1, <2>1, AppEndsDoes, DeviceVars DEF DeviceDropsApp
<1>2. CASE DeviceStops
  <2> DEFINE m == Head(toDevice)
  <2>1. /\ toDevice # <<>> /\ toDevice' = Tail(toDevice) /\ m.type = "STOP"
        /\ m.req \in Ids /\ m.s # 0 /\ Prompted(m.req) /\ TakesOne
        /\ UNCHANGED <<apps, loading, medias, news>>
    BY <1>2, Taken DEF DeviceStops, Takes, Prompted, TakesOne
  <2>2. CASE m.s = app
    <3>1. /\ AppEnds /\ app # 0
          /\ Says(Receiver, <<Bare("CLOSE", NoCall), ReceiverStatus(m.req, 0)>>)
      BY <1>2, <2>1, <2>2 DEF DeviceStops
    <3> QED
      BY <2>1, <3>1, AppEndsDoes, DeviceVars
  <2>3. CASE m.s # app
    <3> DEFINE n == Bare("INVALID_REQUEST", m.req)
    <3>1. n \in ToClient /\ n.req = m.req /\ n.app = 0 /\ n.m = 0 /\ n.type = "INVALID_REQUEST"
      BY <2>1, BareIs, DeviceVars
    <3>2. Says(Receiver, <<n>>) /\ UNCHANGED <<app, media, opened>>
      BY <1>2, <2>3 DEF DeviceStops
    <3> HIDE DEF n
    <3>3. New(n)
      BY <2>1, <3>1, <3>2, DeviceVars DEF New
    <3> QED
      BY <2>1, <3>1, <3>2, <3>3, AnswerDoes, DeviceVars
  <2> QED
    BY <2>2, <2>3
<1> QED
  BY <1>1, <1>2

LEMMA DeviceLoadsDoes == ASSUME TInv, DeviceLoads PROVE DeviceFacts
<1> DEFINE m == Head(toDevice)
           c == m.req
<1>1. /\ toDevice # <<>> /\ toDevice' = Tail(toDevice) /\ m.type \in {"LOAD", "QUEUE_LOAD"}
      /\ c \in Ids /\ c = Head(toDevice).req /\ TakesOne
      /\ UNCHANGED <<app, apps, loading, opened, news>>
  BY Taken DEF DeviceLoads, Takes, TakesOne
<1>0. c \in Ids /\ media \in 0 .. MaxMedia
  BY <1>1, DeviceVars
<1> HIDE DEF c
<1>2. CASE /\ medias < MaxMedia /\ media' = medias + 1 /\ medias' = medias + 1
           /\ Says(app, <<MediaStatus(c, medias + 1, FALSE)>>)
  <2> DEFINE n == MediaStatus(c, medias + 1, FALSE)
  <2>0. medias + 1 \in 0 .. MaxMedia
    BY <1>2, DeviceVars
  <2>1. n \in ToClient /\ n.req = c /\ n.app = 0 /\ n.m = medias + 1 /\ n.type = "MEDIA_STATUS"
    BY <1>0, <2>0, MediaStatusTells
  <2>2. Says(app, <<n>>)
    BY <1>2
  <2> HIDE DEF n
  <2>3. New(n) /\ n.m # 0
    BY <1>1, <1>2, <2>1, DeviceVars DEF New
  <2> QED
    BY <1>1, <1>2, <2>1, <2>2, <2>3, AnswerDoes, DeviceVars
<1>3. CASE media' = 0 /\ UNCHANGED medias /\ Says(app, <<Bare("LOAD_FAILED", c)>>)
  <2> DEFINE n == Bare("LOAD_FAILED", c)
  <2>1. n \in ToClient /\ n.req = c /\ n.app = 0 /\ n.m = 0 /\ n.type = "LOAD_FAILED"
    BY <1>1, BareIs, DeviceVars
  <2>2. Says(app, <<n>>)
    BY <1>3
  <2> HIDE DEF n
  <2>3. New(n)
    BY <1>1, <1>3, <2>1, DeviceVars DEF New, LoadOk
  <2> QED
    BY <1>1, <1>3, <2>1, <2>2, <2>3, AnswerDoes, DeviceVars
<1>4. CASE /\ media' = 0 /\ UNCHANGED medias
           /\ Says(app, <<MediaStatus(c, media, TRUE), Bare("LOAD_FAILED", c)>>)
  <2> DEFINE k == MediaStatus(c, media, TRUE)
             n == Bare("LOAD_FAILED", c)
  <2>0. n \in ToClient /\ n.req = c /\ n.app = 0 /\ n.m = 0 /\ n.type = "LOAD_FAILED"
    BY <1>0, BareIs
  <2>1. k \in ToClient /\ k.req = c /\ k.app = 0 /\ k.m = media /\ k.type = "MEDIA_STATUS"
    BY <1>0, MediaStatusTells
  <2>i. k.idle
    BY DEF MediaStatus
  <2>2. Says(app, <<k, n>>)
    BY <1>4
  <2> HIDE DEF k, n
  <2>3. New(n) /\ New(k)
    BY <1>1, <1>4, <2>0, <2>1, <2>i, DeviceVars DEF New, LoadOk
  <2>4. Said({k, n})
    BY <2>0, <2>1, <2>2, SaysTwo
  <2>5. DeviceSays
    BY <1>1, <1>4, <2>3, <2>4, SaidSays
  <2>6. DeviceState
    BY <1>1, <1>4, <2>4, DeviceVars DEF DeviceState, Said
  <2>7. DeviceTypes
    <3>1. LoadingFits' /\ loading' \in BOOLEAN /\ apps' \in 0 .. MaxApps
          /\ app' \in 0 .. apps' /\ opened' \subseteq 0 .. MaxApps
          /\ medias' \in 0 .. MaxMedia /\ media' \in {0, medias'}
      BY <1>1, <1>4, DeviceVars DEF LoadingFits
    <3> QED
      BY <1>1, <2>4, <3>1, DeviceVars, Taken DEF DeviceTypes, Said
  <2> QED
    BY <2>4, <2>5, <2>6, <2>7 DEF DeviceFacts, Said
<1>5. CASE Says(app, <<Bare("INVALID_REQUEST", c)>>) /\ UNCHANGED <<media, medias>>
  <2> DEFINE n == Bare("INVALID_REQUEST", c)
  <2>1. n \in ToClient /\ n.req = c /\ n.app = 0 /\ n.m = 0 /\ n.type = "INVALID_REQUEST"
    BY <1>1, BareIs, DeviceVars
  <2>2. Says(app, <<n>>)
    BY <1>5
  <2> HIDE DEF n
  <2>3. New(n)
    BY <1>1, <1>5, <2>1, DeviceVars DEF New, LoadOk
  <2> QED
    BY <1>1, <1>5, <2>1, <2>2, <2>3, AnswerDoes, DeviceVars
<1> QED
  BY <1>2, <1>3, <1>4, <1>5 DEF DeviceLoads, c

LEMMA DeviceControlsDoes == ASSUME TInv, DeviceControls PROVE DeviceFacts
<1> DEFINE m == Head(toDevice)
           ends == m.type = "MEDIA_STOP" /\ m.m = media
           n == IF m.m = media THEN MediaStatus(m.req, media, ends)
                               ELSE Bare("INVALID_REQUEST", m.req)
<1>1. /\ toDevice # <<>> /\ toDevice' = Tail(toDevice) /\ m.req \in Ids
      /\ m.type \in {"CONTROL", "MEDIA_STOP"} /\ TakesOne
      /\ media' = IF ends THEN 0 ELSE media
      /\ Says(app, <<n>>) /\ UNCHANGED <<app, apps, loading, medias, opened, news>>
  BY Taken DEF DeviceControls, Takes, TakesOne
<1>2. /\ n \in ToClient /\ n.req = m.req /\ n.app = 0
      /\ IF m.m = media THEN n.type = "MEDIA_STATUS" /\ n.m = media
                         ELSE n.type = "INVALID_REQUEST" /\ n.m = 0
  <2>1. ends \in BOOLEAN
    OBVIOUS
  <2> HIDE DEF ends
  <2> QED
    BY <1>1, <2>1, MediaStatusIs, BareIs, DeviceVars
<1> HIDE DEF n
<1>3. New(n)
  BY <1>1, <1>2, DeviceVars DEF New, check_device_error
<1> QED
  BY <1>1, <1>2, <1>3, AnswerDoes, DeviceVars

LEMMA DeviceAnswersDoes == ASSUME TInv, DeviceAnswers PROVE DeviceFacts
<1> DEFINE m == Head(toDevice)
<1>1. /\ toDevice # <<>> /\ toDevice' = Tail(toDevice) /\ m.req \in Ids
      /\ m.type \in {"GET_STATUS", "PLAIN", "CUSTOM"} /\ TakesOne
      /\ UNCHANGED <<app, apps, loading, media, medias, opened, news>>
  BY Taken DEF DeviceAnswers, Takes, TakesOne, device
<1>0. m.req \in Ids /\ media \in 0 .. MaxMedia
  BY <1>1, DeviceVars
<1>2. CASE m.type = "GET_STATUS"
  <2> DEFINE n == MediaStatus(m.req, media, FALSE)
  <2>1. n \in ToClient /\ n.req = m.req /\ n.app = 0 /\ n.m = media /\ n.type = "MEDIA_STATUS"
    BY <1>0, MediaStatusTells
  <2>2. Says(m.to, <<n>>)
    BY <1>2 DEF DeviceAnswers
  <2> HIDE DEF n
  <2>3. New(n)
    BY <1>1, <1>2, <2>1, DeviceVars DEF New
  <2> QED
    BY <1>1, <2>1, <2>2, <2>3, AnswerDoes, DeviceVars
<1>3. CASE m.type = "PLAIN"
  <2> DEFINE n == ReceiverStatus(m.req, app)
  <2>1. n \in ToClient /\ n.req = m.req /\ n.app = app /\ n.m = 0 /\ n.type = "RECEIVER_STATUS"
    BY <1>1, ReceiverStatusIs, DeviceVars
  <2>2. Says(m.to, <<n>>)
    BY <1>3 DEF DeviceAnswers
  <2> HIDE DEF n
  <2>3. New(n)
    BY <1>1, <1>3, <2>1, DeviceVars DEF New
  <2> QED
    BY <1>1, <2>1, <2>2, <2>3, AnswerDoes, DeviceVars
<1>4. CASE m.type = "CUSTOM"
  <2> DEFINE n == Bare("CUSTOM", m.req)
  <2>1. n \in ToClient /\ n.req = m.req /\ n.app = 0 /\ n.m = 0 /\ n.type = "CUSTOM"
    BY <1>1, BareIs, DeviceVars
  <2>2. Says(m.to, <<n>>)
    BY <1>4 DEF DeviceAnswers
  <2> HIDE DEF n
  <2>3. New(n)
    BY <1>1, <1>4, <2>1, DeviceVars DEF New
  <2> QED
    BY <1>1, <2>1, <2>2, <2>3, AnswerDoes, DeviceVars
<1> QED
  BY <1>1, <1>2, <1>3, <1>4

\* What nobody asked for
LEMMA DeviceTellsDoes ==
  ASSUME TInv, DeviceEndsMedia \/ DeviceReports
  PROVE  DeviceFacts
<1>1. /\ toDevice' = toDevice /\ TakesOne /\ news' \in 0 .. MaxNews
      /\ UNCHANGED <<app, apps, loading, opened>> /\ medias' = medias
  BY DeviceVars DEF DeviceEndsMedia, DeviceReports, OfItsOwn, TakesOne
<1>0. NoCall \in Ids /\ media \in 0 .. MaxMedia
  BY DeviceVars
<1>2. CASE DeviceEndsMedia
  <2> DEFINE n == MediaStatus(NoCall, media, TRUE)
  <2>1. n \in ToClient /\ n.req = NoCall /\ n.app = 0 /\ n.m = media /\ n.type = "MEDIA_STATUS"
    BY <1>0, MediaStatusTells
  <2>2. Says(app, <<n>>) /\ media' = 0 /\ media' \in {media, 0}
    BY <1>2 DEF DeviceEndsMedia
  <2> HIDE DEF n
  <2>3. New(n)
    BY <1>1, <2>1, <2>2, DeviceVars DEF New
  <2> QED
    BY <1>1, <2>1, <2>2, <2>3, AnswerDoes
<1>3. CASE DeviceReports /\ Says(Receiver, <<ReceiverStatus(NoCall, app)>>)
  <2> DEFINE n == ReceiverStatus(NoCall, app)
  <2>1. n \in ToClient /\ n.req = NoCall /\ n.app = app /\ n.m = 0 /\ n.type = "RECEIVER_STATUS"
    BY ReceiverStatusIs, DeviceVars
  <2>2. Says(Receiver, <<n>>) /\ media' = media /\ media' \in {media, 0}
    BY <1>3 DEF DeviceReports
  <2> HIDE DEF n
  <2>3. New(n)
    BY <1>1, <2>1, <2>2, DeviceVars DEF New
  <2> QED
    BY <1>1, <2>1, <2>2, <2>3, AnswerDoes
<1>4. CASE DeviceReports /\ Says(app, <<MediaStatus(NoCall, media, FALSE)>>)
  <2> DEFINE n == MediaStatus(NoCall, media, FALSE)
  <2>1. n \in ToClient /\ n.req = NoCall /\ n.app = 0 /\ n.m = media /\ n.type = "MEDIA_STATUS"
    BY <1>0, MediaStatusTells
  <2>2. Says(app, <<n>>) /\ media' = media /\ media' \in {media, 0}
    BY <1>4 DEF DeviceReports
  <2> HIDE DEF n
  <2>3. New(n)
    BY <1>1, <2>1, <2>2, DeviceVars DEF New
  <2> QED
    BY <1>1, <2>1, <2>2, <2>3, AnswerDoes
<1>5. CASE DeviceReports /\ Says(app, <<Bare("CUSTOM", NoCall)>>)
  <2> DEFINE n == Bare("CUSTOM", NoCall)
  <2>1. n \in ToClient /\ n.req = NoCall /\ n.app = 0 /\ n.m = 0 /\ n.type = "CUSTOM"
    BY BareIs, DeviceVars
  <2>2. Says(app, <<n>>) /\ media' = media /\ media' \in {media, 0}
    BY <1>5 DEF DeviceReports
  <2> HIDE DEF n
  <2>3. New(n)
    BY <1>1, <2>1, <2>2, DeviceVars DEF New
  <2> QED
    BY <1>1, <2>1, <2>2, <2>3, AnswerDoes
<1> QED
  BY <1>2, <1>3, <1>4, <1>5 DEF DeviceReports

LEMMA DeviceStepDoes == ASSUME TInv, DeviceStep PROVE DeviceFacts
  BY DeviceHears, DeviceLaunchesDoes, DeviceLoadedDoes, DeviceStopsDoes, DeviceLoadsDoes,
     DeviceControlsDoes, DeviceAnswersDoes, DeviceTellsDoes DEF DeviceStep

-----------------------------------------------------------------------------
(* What the other steps do                                                 *)

LEMMA RestVars ==
  ASSUME TInv
  PROVE  /\ events \in Seq(Event) /\ Len(events) <= EventCap
         /\ routing \in ToClient /\ routing.app \in 0 .. MaxApps /\ routing.m \in 0 .. MaxMedia
         /\ pc \in [Calls -> Locs] /\ loc \in [Calls -> Local]
         /\ toDevice \in Seq(ToDevice) /\ Len(toDevice) <= NetCap
         /\ toClient \in Seq(ToClient) /\ Len(toClient) <= NetCap /\ Len(toClient) \in Nat
         /\ transport \in 0 .. MaxApps
<1>1. routing \in ToClient
  BY DEF TInv, TypeOK
<1>2. routing.app \in 0 .. MaxApps /\ routing.m \in 0 .. MaxMedia
  BY <1>1 DEF ToClient
<1> QED
  BY <1>1, <1>2, LenProperties DEF TInv, TypeOK

\* The device and the ids, the callers, and what the reader has told so far
DeviceStill ==
    /\ app' = app /\ apps' = apps /\ loading' = loading /\ media' = media
    /\ medias' = medias /\ news' = news /\ transport' = transport /\ session' = session
CallersStill == pc' = pc /\ loc' = loc /\ called' = called
ReaderStill ==
    /\ mediaId' = mediaId /\ mediaWatch' = mediaWatch /\ receiverWatch' = receiverWatch
    /\ routing' = routing
LinkStill == link' = link /\ losses' = losses /\ races' = races /\ missed' = missed

\* The events are the old ones or tell of the status being routed.
EventFacts ==
    /\ events' \in Seq(Event) /\ Len(events') <= EventCap
    /\ \A i \in DOMAIN events' :
          \/ events'[i].app \in {0, routing.app}
          \/ \E j \in DOMAIN events : events'[i].app = events[j].app

LEMMA OfferIs ==
  ASSUME NEW q \in Seq(Event), Len(q) <= EventCap, NEW e \in Event
  PROVE  /\ Offer(q, e) \in Seq(Event) /\ Len(Offer(q, e)) <= EventCap
         /\ \A i \in DOMAIN Offer(q, e) :
              Offer(q, e)[i] = e \/ (i \in DOMAIN q /\ Offer(q, e)[i] = q[i])
<1>1. CASE Len(q) < EventCap
  BY <1>1, Appended DEF Offer
<1>2. CASE ~(Len(q) < EventCap)
  BY <1>2 DEF Offer
<1> QED
  BY <1>1, <1>2

LEMMA EventsOffered ==
  ASSUME TInv, NEW e \in Event, e.app \in {0, routing.app},
         \/ events' = events \/ events' = Offer(events, e)
         \/ events' = Offer(Offer(events, e), e)
  PROVE  EventFacts
<1>1. events \in Seq(Event) /\ Len(events) <= EventCap
  BY RestVars
<1>2. CASE events' = events
  BY <1>1, <1>2 DEF EventFacts
<1>3. CASE events' = Offer(events, e)
  <2>1. /\ events' \in Seq(Event) /\ Len(events') <= EventCap
        /\ \A i \in DOMAIN events' :
              events'[i] = e \/ (i \in DOMAIN events /\ events'[i] = events[i])
    BY <1>1, <1>3, OfferIs
  <2> QED
    BY <2>1 DEF EventFacts
<1>4. CASE events' = Offer(Offer(events, e), e)
  <2> DEFINE q == Offer(events, e)
  <2>1. /\ q \in Seq(Event) /\ Len(q) <= EventCap
        /\ \A i \in DOMAIN q : q[i] = e \/ (i \in DOMAIN events /\ q[i] = events[i])
    BY <1>1, OfferIs
  <2>2. events' = Offer(q, e)
    BY <1>4
  <2> HIDE DEF q
  <2>3. /\ events' \in Seq(Event) /\ Len(events') <= EventCap
        /\ \A i \in DOMAIN events' :
              events'[i] = e \/ (i \in DOMAIN q /\ events'[i] = q[i])
    BY <2>1, <2>2, OfferIs
  <2> QED
    BY <2>1, <2>3 DEF EventFacts
<1> QED
  BY <1>2, <1>3, <1>4

LEMMA OtherIs == Other \in Event /\ Other.app = 0
  BY DEF Other, Event

LEMMA EventsTaken == ASSUME TInv, events # <<>>, events' = Tail(events) PROVE EventFacts
<1>1. events \in Seq(Event) /\ Len(events) <= EventCap
  BY RestVars
<1> QED
  BY <1>1, Dropped DEF EventFacts

\* The router takes the first message, wakes the caller it answers and forgets it.
RouteFacts ==
    /\ routing = Nobody /\ toClient # <<>>
    /\ toClient' \in Seq(ToClient) /\ Len(toClient') = Len(toClient) - 1
    /\ \A i \in DOMAIN toClient' :
          /\ i + 1 \in DOMAIN toClient
          /\ toClient'[i].type = toClient[i + 1].type
          /\ toClient'[i].app = toClient[i + 1].app /\ toClient'[i].m = toClient[i + 1].m
          /\ toClient'[i].idle = toClient[i + 1].idle
          /\ toClient'[i].req \in Calls =>
               toClient'[i].req = toClient[i + 1].req /\ toClient'[i].req # Head(toClient).req
    /\ \A i \in DOMAIN toClient : i # 1 => i - 1 \in DOMAIN toClient'
    /\ Head(toClient) \in ToClient /\ Head(toClient) = toClient[1] /\ 1 \in DOMAIN toClient
    /\ routing' = IF Head(toClient).type \in {"RECEIVER_STATUS", "MEDIA_STATUS"}
                  THEN Head(toClient) ELSE Nobody
    /\ pc' \in [Calls -> Locs] /\ loc' \in [Calls -> Local]
    /\ \A c \in Calls :
          \/ pc'[c] = pc[c] /\ loc'[c] = loc[c]
          \/ /\ c = Head(toClient).req /\ pc[c] = "wait" /\ pc'[c] = "reply"
             /\ loc'[c] = [loc[c] EXCEPT !.reply = Head(toClient)]
    /\ EventFacts /\ DeviceStill /\ LinkStill
    /\ mediaId' = mediaId /\ mediaWatch' = mediaWatch /\ receiverWatch' = receiverWatch
    /\ called' = called /\ toDevice' = toDevice /\ opened' = opened

LEMMA RouteDoes == ASSUME TInv, Route PROVE RouteFacts
<1> DEFINE m == Head(toClient)
           q == Tail(toClient)
<1>1. routing = Nobody /\ toClient # <<>>
  BY DEF Route
<1>2. /\ q \in Seq(ToClient) /\ Len(q) = Len(toClient) - 1
      /\ \A i \in DOMAIN q : i + 1 \in DOMAIN toClient /\ q[i] = toClient[i + 1]
      /\ \A i \in DOMAIN toClient : i # 1 => i - 1 \in DOMAIN q
      /\ m = toClient[1] /\ 1 \in DOMAIN toClient /\ m \in ToClient
  BY <1>1, RestVars, Dropped
<1>3. /\ toClient' = IF m.req \in Calls THEN Forget(m.req, q) ELSE q
      /\ pc' = [c \in Calls |-> IF c = m.req /\ pc[c] = "wait" THEN "reply" ELSE pc[c]]
      /\ loc' = [c \in Calls |-> IF c = m.req /\ pc[c] = "wait"
                                 THEN [loc[c] EXCEPT !.reply = m] ELSE loc[c]]
      /\ routing' = IF m.type \in {"RECEIVER_STATUS", "MEDIA_STATUS"} THEN m ELSE Nobody
      /\ events' = Offer(events, Other) \/ events' = events
  BY DEF Route
<1>4. /\ DeviceStill /\ LinkStill
      /\ mediaId' = mediaId /\ mediaWatch' = mediaWatch /\ receiverWatch' = receiverWatch
      /\ called' = called /\ toDevice' = toDevice /\ opened' = opened
  BY DEF Route, DeviceStill, LinkStill, ids, conn, device
<1> HIDE DEF m, q
<1>5. /\ toClient' \in Seq(ToClient) /\ Len(toClient') = Len(q) /\ DOMAIN toClient' = DOMAIN q
      /\ \A i \in DOMAIN q :
            /\ toClient'[i].type = q[i].type
            /\ toClient'[i].app = q[i].app /\ toClient'[i].m = q[i].m
            /\ toClient'[i].idle = q[i].idle
            /\ toClient'[i].req \in Calls =>
                 toClient'[i].req = q[i].req /\ toClient'[i].req # m.req
  <2>1. CASE m.req \in Calls
    BY <1>2, <1>3, <2>1, ForgottenToClient
  <2>2. CASE m.req \notin Calls
    BY <1>2, <1>3, <2>2
  <2> QED
    BY <2>1, <2>2
<1>6. EventFacts
  BY <1>3, OtherIs, EventsOffered
<1>7. \A c \in Calls : [loc[c] EXCEPT !.reply = m] \in Local
  <2>1. m \in ToClient /\ \A c \in Calls : loc[c] \in Local
    BY <1>2, RestVars
  <2> QED
    BY <2>1 DEF Local
<1>8. /\ pc' \in [Calls -> Locs] /\ loc' \in [Calls -> Local]
      /\ \A c \in Calls :
            \/ pc'[c] = pc[c] /\ loc'[c] = loc[c]
            \/ /\ c = m.req /\ pc[c] = "wait" /\ pc'[c] = "reply"
               /\ loc'[c] = [loc[c] EXCEPT !.reply = m]
  BY <1>3, <1>7, RestVars DEF Locs
<1>9. /\ \A i \in DOMAIN toClient' :
            /\ i + 1 \in DOMAIN toClient
            /\ toClient'[i].type = toClient[i + 1].type
            /\ toClient'[i].app = toClient[i + 1].app /\ toClient'[i].m = toClient[i + 1].m
            /\ toClient'[i].idle = toClient[i + 1].idle
            /\ toClient'[i].req \in Calls =>
                 toClient'[i].req = toClient[i + 1].req /\ toClient'[i].req # m.req
      /\ \A i \in DOMAIN toClient : i # 1 => i - 1 \in DOMAIN toClient'
      /\ Len(toClient') = Len(toClient) - 1
  BY <1>2, <1>5
<1> QED
  BY <1>1, <1>2, <1>3, <1>4, <1>5, <1>6, <1>8, <1>9 DEF RouteFacts, m

\* ... and tells a status.
TellFacts ==
    /\ routing' = Nobody /\ EventFacts /\ DeviceStill /\ LinkStill /\ CallersStill
    /\ toDevice' = toDevice /\ toClient' = toClient /\ opened' = opened
    /\ \/ /\ routing.type = "RECEIVER_STATUS" /\ receiverWatch' = routing.app
          /\ mediaId' = mediaId /\ mediaWatch' = mediaWatch
       \/ /\ routing.type = "MEDIA_STATUS" /\ receiverWatch' = receiverWatch
          /\ mediaId' = IF routing.m = 0 THEN mediaId ELSE routing.m
          /\ mediaWatch' = IF routing.m = 0 THEN mediaWatch ELSE routing.m

LEMMA TellDoes == ASSUME TInv, RouteReceiverStatus \/ RouteMediaStatus PROVE TellFacts
<1>1. CASE RouteReceiverStatus
  <2> DEFINE e == [kind |-> "receiver", app |-> routing.app]
  <2>1. e \in Event /\ e.app = routing.app /\ events' = Offer(events, e)
    BY <1>1, RestVars DEF Event, RouteReceiverStatus
  <2> HIDE DEF e
  <2>2. EventFacts
    BY <2>1, EventsOffered
  <2> QED
    BY <1>1, <2>2 DEF RouteReceiverStatus, TellFacts, DeviceStill, LinkStill, CallersStill,
                      ids, conn, calls, net, device
<1>2. CASE RouteMediaStatus
  <2>1. \/ events' = events \/ events' = Offer(events, Other)
        \/ events' = Offer(Offer(events, Other), Other)
    BY <1>2 DEF RouteMediaStatus
  <2>2. EventFacts
    BY <2>1, OtherIs, EventsOffered
  <2>3. /\ DeviceStill /\ LinkStill /\ CallersStill
        /\ toDevice' = toDevice /\ toClient' = toClient /\ opened' = opened
    BY <1>2 DEF RouteMediaStatus, DeviceStill, LinkStill, CallersStill, conn, calls, net, device
  <2> QED
    BY <1>2, <2>2, <2>3 DEF RouteMediaStatus, TellFacts
<1> QED
  BY <1>1, <1>2

LEMMA NextEventDoes ==
  ASSUME TInv, NextEvent
  PROVE  /\ EventFacts /\ DeviceStill /\ LinkStill /\ CallersStill /\ ReaderStill
         /\ toDevice' = toDevice /\ toClient' = toClient /\ opened' = opened
<1>1. events # <<>> /\ events' = Tail(events)
  BY DEF NextEvent
<1> QED
  BY <1>1, EventsTaken DEF NextEvent, DeviceStill, LinkStill, CallersStill, ReaderStill,
                           ids, conn, calls, net, device

\* The connection fails, and comes back.
LEMMA LinkFailsDoes ==
  ASSUME TInv, LinkFails
  PROVE  /\ link' = "down" /\ losses' \in 0 .. MaxLosses /\ toDevice' = <<>>
         /\ toClient' = <<>> /\ opened' = {} /\ events' = events
         /\ DeviceStill /\ CallersStill /\ ReaderStill
         /\ races' = races /\ missed \subseteq missed' /\ missed' \subseteq Kinds /\ MissedFits'
         /\ \A k \in Kinds :
              k \notin missed' => \A i \in DOMAIN toClient : ~IsNews(toClient[i], k)
<1>1. losses' \in 0 .. MaxLosses
  BY DEF LinkFails, TInv, TypeOK
<1> DEFINE T == Told(toClient)
<1>2. /\ T \subseteq Kinds /\ ("media" \in T <=> "id" \in T)
      /\ \A k \in Kinds : k \notin T => \A i \in DOMAIN toClient : ~IsNews(toClient[i], k)
  BY DEF Told, Kinds, IsNews
<1>3. missed' = missed \cup T
  BY DEF LinkFails
<1> HIDE DEF T
<1>4. missed' \subseteq Kinds /\ MissedFits'
  BY <1>2, <1>3, MissedIs
<1>5. races' = races /\ DeviceStill /\ CallersStill /\ ReaderStill
  BY DEF LinkFails, DeviceStill, CallersStill, ReaderStill, ids, views, calls
<1> QED
  BY <1>1, <1>2, <1>3, <1>4, <1>5 DEF LinkFails, views

LEMMA RecSwapsDoes ==
  ASSUME TInv, RecSwaps
  PROVE  /\ link = "down" /\ link' = "swapped" /\ losses' = losses /\ races' = races
         /\ missed' = missed
         /\ pc' \in [Calls -> Locs] /\ loc' \in [Calls -> Local] /\ called' = called
         /\ \A c \in Calls :
              \/ pc[c] # "wait" /\ pc'[c] = pc[c] /\ loc'[c] = loc[c]
              \/ pc[c] = "wait" /\ pc'[c] = "idle" /\ loc'[c] = Blank
         /\ DeviceStill /\ ReaderStill /\ events' = events /\ opened' = opened
         /\ toDevice' = toDevice /\ toClient' = toClient
<1>1. /\ pc' = [c \in Calls |-> IF pc[c] = "wait" THEN "idle" ELSE pc[c]]
      /\ loc' = [c \in Calls |-> IF pc[c] = "wait" THEN Blank ELSE loc[c]]
  BY DEF RecSwaps
<1>2. /\ pc' \in [Calls -> Locs] /\ loc' \in [Calls -> Local]
      /\ \A c \in Calls :
           \/ pc[c] # "wait" /\ pc'[c] = pc[c] /\ loc'[c] = loc[c]
           \/ pc[c] = "wait" /\ pc'[c] = "idle" /\ loc'[c] = Blank
  BY <1>1, RestVars, BlankIs DEF Locs
<1> QED
  BY <1>2 DEF RecSwaps, DeviceStill, ReaderStill, ids, views, net, device

\* The CONNECTs of a reconnect
RecFacts ==
    /\ DeviceStill /\ CallersStill /\ ReaderStill /\ losses' = losses /\ races' = races
    /\ missed' = missed
    /\ events' = events /\ toClient' = toClient /\ opened' = opened
    /\ toDevice' \in Seq(ToDevice) /\ Len(toDevice') <= NetCap
    /\ \/ /\ link = "swapped" /\ link' = "hello"
          /\ toDevice' = Append(toDevice, connect_msg(Receiver))
       \/ /\ link = "hello" /\ link' = "up"
          /\ \/ transport = 0 /\ toDevice' = toDevice
             \/ toDevice' = Append(toDevice, connect_msg(transport))

LEMMA RecDoes == ASSUME TInv, RecHello \/ RecReopens PROVE RecFacts
<1>1. /\ DeviceStill /\ CallersStill /\ ReaderStill /\ losses' = losses /\ races' = races
      /\ missed' = missed
      /\ events' = events /\ toClient' = toClient /\ opened' = opened
  BY DEF RecHello, RecReopens, DeviceStill, CallersStill, ReaderStill, ids, views, calls,
         device, net
<1>2. /\ connect_msg(Receiver) \in ToDevice /\ connect_msg(transport) \in ToDevice
      /\ Len(toDevice) < NetCap
  <2>1. Receiver \in 0 .. MaxApps /\ transport \in 0 .. MaxApps
    BY RestVars DEF Receiver
  <2>2. connect_msg(Receiver) \in ToDevice /\ connect_msg(transport) \in ToDevice
    BY <2>1, ConnectIs
  <2>3. Len(toDevice) < NetCap
    BY DEF RecHello, RecReopens
  <2> QED
    BY <2>2, <2>3
<1>3. \/ /\ link = "swapped" /\ link' = "hello"
         /\ toDevice' = Append(toDevice, connect_msg(Receiver))
      \/ /\ link = "hello" /\ link' = "up"
         /\ \/ transport = 0 /\ toDevice' = toDevice
            \/ toDevice' = Append(toDevice, connect_msg(transport))
  BY DEF RecHello, RecReopens
<1>4. toDevice' \in Seq(ToDevice) /\ Len(toDevice') <= NetCap
  <2>1. CASE toDevice' = toDevice
    BY <2>1, RestVars
  <2>2. CASE toDevice' = Append(toDevice, connect_msg(Receiver))
    BY <1>2, <2>2, RestVars, Appended
  <2>3. CASE toDevice' = Append(toDevice, connect_msg(transport))
    BY <1>2, <2>3, RestVars, Appended
  <2> QED
    BY <1>3, <2>1, <2>2, <2>3
<1> QED
  BY <1>1, <1>3, <1>4 DEF RecFacts

-----------------------------------------------------------------------------
(* Types                                                                   *)

\* The client knows nothing, or it knows the first application and its media.
LEMMA InitIs ==
  ASSUME Init
  PROVE  /\ apps \in 0 .. MaxApps /\ app = apps /\ loading = FALSE
         /\ medias \in 0 .. MaxMedia /\ media = medias
         /\ \/ /\ transport = 0 /\ session = 0 /\ mediaId = 0
               /\ mediaWatch = 0 /\ receiverWatch = 0
               /\ toDevice = <<connect_msg(Receiver)>> /\ opened = {}
            \/ /\ transport = 1 /\ session = 1 /\ mediaId = 1
               /\ mediaWatch = 1 /\ receiverWatch = 1 /\ app = 1 /\ media = 1
               /\ toDevice = <<>> /\ opened = {Receiver, 1}
         /\ missed \subseteq Kinds /\ MissedFits
         /\ "receiver" \notin missed => receiverWatch = app
         /\ "media" \notin missed => mediaWatch = medias
         /\ "id" \notin missed => mediaId = medias
<1>1. /\ apps \in {0, 1} \cap 0 .. MaxApps /\ app = apps /\ loading = FALSE
      /\ medias \in {0, app} \cap 0 .. MaxMedia /\ media = medias
  BY DEF Init
<1>2. PICK k \in {0, media} :
          /\ transport = k /\ session = k /\ mediaId = k
          /\ mediaWatch = k /\ receiverWatch = k
          /\ toDevice = IF k = 0 THEN <<connect_msg(Receiver)>> ELSE <<>>
          /\ opened = IF k = 0 THEN {} ELSE {Receiver, k}
          /\ missed = (IF k # app THEN {"receiver"} ELSE {})
                        \cup (IF k # media THEN {"media", "id"} ELSE {})
  BY DEF Init
<1>3. /\ missed \subseteq Kinds /\ MissedFits
      /\ "receiver" \notin missed => k = app
      /\ "media" \notin missed => k = media
      /\ "id" \notin missed => k = media
  BY <1>2 DEF Kinds, MissedFits
<1>4. k # 0 => k = 1 /\ media = 1 /\ app = 1
  BY <1>1, <1>2
<1>5. CASE k = 0
  BY <1>1, <1>2, <1>3, <1>5
<1>6. CASE k # 0
  BY <1>1, <1>2, <1>3, <1>4, <1>6
<1> QED
  BY <1>5, <1>6

LEMMA TInvInit == Init => TInv
<1> SUFFICES ASSUME Init PROVE TInv
  OBVIOUS
<1>1. connect_msg(Receiver) \in ToDevice /\ connect_msg(Receiver).type = "CONNECT"
  BY ConnectIs DEF Receiver
<1>2. /\ toDevice \in Seq(ToDevice) /\ Len(toDevice) <= NetCap
      /\ \A i \in DOMAIN toDevice : toDevice[i].type = "CONNECT"
  <2>1. CASE toDevice = <<connect_msg(Receiver)>>
    BY <1>1, <2>1
  <2>2. CASE toDevice = <<>>
    BY <2>2
  <2> QED
    BY <2>1, <2>2, InitIs
<1>3. toClient \in Seq(ToClient) /\ Len(toClient) <= NetCap
      /\ events \in Seq(Event) /\ Len(events) <= EventCap
  BY DEF Init
<1>4. pc \in [Calls -> Locs] /\ loc \in [Calls -> Local] /\ routing \in ToClient
  BY BlankIs DEF Init, Locs
<1>5. /\ races \subseteq {"ids", "late", "reopen"} /\ missed \subseteq {"receiver", "media", "id"}
      /\ loading \in BOOLEAN /\ link \in {"up", "down", "swapped", "hello"}
  BY InitIs DEF Init, Kinds
<1>6. /\ transport \in 0 .. MaxApps /\ session \in 0 .. MaxApps /\ mediaId \in 0 .. MaxMedia
      /\ mediaWatch \in 0 .. MaxMedia /\ receiverWatch \in 0 .. MaxApps
      /\ apps \in 0 .. MaxApps /\ app \in 0 .. apps
      /\ medias \in 0 .. MaxMedia /\ media \in {0, medias} /\ opened \subseteq 0 .. MaxApps
  BY InitIs DEF Receiver
<1>7. losses \in 0 .. MaxLosses /\ called \in 0 .. MaxCalls /\ news \in 0 .. MaxNews
  BY DEF Init
<1>8. TypeOK
  BY <1>2, <1>3, <1>4, <1>5, <1>6, <1>7, Zenon DEF TypeOK
<1>9. OpsFit /\ StopsFit
  BY <1>2 DEF Init, OpsFit, StopsFit
<1>10. LoadingFits /\ MissedFits
  BY InitIs DEF LoadingFits
<1> QED
  BY <1>8, <1>9, <1>10 DEF TInv

\* A STOP names an application, also after a step of a caller.
LEMMA CallStops == ASSUME TInv, NEW c \in Calls, CallFacts(c) PROVE StopsFit'
<1>1. /\ toDevice \in Seq(ToDevice) /\ loc' \in [Calls -> Local] /\ loc'[c] \in Local
      /\ loc'[c].t \in 0 .. MaxApps
  BY CallerTypes DEF CallFacts, CallTypes, Local
<1>2. CASE toDevice' = toDevice
  BY <1>2 DEF TInv, StopsFit
<1>3. CASE toDevice' = Forget(c, toDevice)
  BY <1>1, <1>3, ForgottenToDevice DEF TInv, StopsFit
<1>4. CASE toDevice' = Append(toDevice, connect_msg(loc'[c].t))
  <2>1. connect_msg(loc'[c].t) \in ToDevice /\ connect_msg(loc'[c].t).type = "CONNECT"
    BY <1>1, ConnectIs
  <2> QED
    BY <1>1, <1>4, <2>1, Appended DEF TInv, StopsFit
<1>5. CASE /\ toDevice' = Append(toDevice, RequestOf(c, loc'[c])) /\ pc'[c] = "wait"
           /\ \/ /\ loc'[c].op \in {"launch_app", "stop_app", "send_raw"} \cup Plain
                 /\ loc'[c].op = "stop_app" => loc'[c].s # 0
              \/ pc[c] = "send" /\ loc'[c] = loc[c]
  <2> DEFINE r == RequestOf(c, loc'[c])
  <2>1. loc'[c].op # "none"
    BY <1>5 DEF CallFacts, CallTypes
  <2>2. r \in ToDevice /\ (r.type = "STOP" => loc'[c].op = "stop_app" /\ r.s = loc'[c].s)
    BY <1>1, <2>1, RequestIs
  <2>3. loc'[c].op = "stop_app" => loc'[c].s # 0
    BY <1>5 DEF TInv, OpsFit, Loads, Controls
  <2>4. toDevice' = Append(toDevice, r)
    BY <1>5
  <2> HIDE DEF r
  <2> QED
    BY <1>1, <2>2, <2>3, <2>4, Appended DEF TInv, StopsFit
<1> QED
  BY <1>2, <1>3, <1>4, <1>5 DEF CallFacts, CallQueues

LEMMA TInvCall == ASSUME TInv, NEW c \in Calls, CallFacts(c) PROVE TInv'
<1>1. events' \in Seq(Event) /\ Len(events') <= EventCap
  <2>1. CASE events' = events
    BY <2>1, RestVars
  <2>2. CASE events # <<>> /\ events' = Tail(events)
    BY <2>2, RestVars, Dropped
  <2> QED
    BY <2>1, <2>2 DEF CallFacts, CallTypes
<1>2. TypeOK'
  BY <1>1 DEF TInv, TypeOK, CallFacts, CallFrame, CallTypes
<1>3. OpsFit'
  BY DEF TInv, OpsFit, CallFacts, CallFrame, CallTypes
<1>4. LoadingFits' /\ MissedFits'
  BY DEF TInv, LoadingFits, MissedFits, CallFacts, CallFrame, CallTypes
<1> QED
  BY <1>2, <1>3, <1>4, CallStops DEF TInv

LEMMA TInvDevice == ASSUME TInv, DeviceFacts PROVE TInv'
<1>1. TypeOK'
  BY DEF TInv, TypeOK, DeviceFacts, DeviceFrame, DeviceTypes, Kinds
<1>2. OpsFit'
  BY DEF TInv, OpsFit, DeviceFacts, DeviceFrame
<1>3. StopsFit'
  <2>1. CASE toDevice' = toDevice
    BY <2>1 DEF TInv, StopsFit
  <2>2. CASE toDevice # <<>> /\ toDevice' = Tail(toDevice)
    BY <2>2, RestVars, Dropped DEF TInv, StopsFit
  <2> QED
    BY <2>1, <2>2 DEF DeviceFacts, DeviceTypes
<1> QED
  BY <1>1, <1>2, <1>3 DEF TInv, DeviceFacts, DeviceTypes

LEMMA TInvRoute == ASSUME TInv, RouteFacts PROVE TInv'
<1>1. routing' \in ToClient /\ Len(toClient') <= NetCap
  BY RestVars, BlankIs DEF RouteFacts
<1>2. TypeOK'
  BY <1>1 DEF TInv, TypeOK, RouteFacts, EventFacts, DeviceStill, LinkStill
<1>3. OpsFit'
  BY DEF TInv, OpsFit, RouteFacts
<1>4. LoadingFits' /\ StopsFit' /\ MissedFits'
  BY DEF TInv, LoadingFits, StopsFit, MissedFits, RouteFacts, DeviceStill, LinkStill
<1> QED
  BY <1>2, <1>3, <1>4 DEF TInv

LEMMA TInvTell ==
  ASSUME TInv, EventFacts, DeviceStill, LinkStill, CallersStill,
         toDevice' = toDevice, toClient' = toClient, opened' = opened,
         routing' \in ToClient, mediaId' \in 0 .. MaxMedia, mediaWatch' \in 0 .. MaxMedia,
         receiverWatch' \in 0 .. MaxApps
  PROVE  TInv'
<1>1. TypeOK'
  BY DEF TInv, TypeOK, EventFacts, DeviceStill, LinkStill, CallersStill
<1>2. OpsFit' /\ LoadingFits' /\ StopsFit' /\ MissedFits'
  BY DEF TInv, OpsFit, LoadingFits, StopsFit, MissedFits, DeviceStill, CallersStill, LinkStill
<1> QED
  BY <1>1, <1>2 DEF TInv

LEMMA TInvStep == TInv /\ [Next]_vars => TInv'
<1> SUFFICES ASSUME TInv, [Next]_vars PROVE TInv'
  OBVIOUS
<1>1. CASE \E c \in Calls : CallStep(c)
  BY <1>1, CallStepDoes, TInvCall
<1>2. CASE DeviceStep
  BY <1>2, DeviceStepDoes, TInvDevice
<1>3. CASE Route
  BY <1>3, RouteDoes, TInvRoute
<1>4. CASE RouteReceiverStatus \/ RouteMediaStatus
  <2>1. TellFacts
    BY <1>4, TellDoes
  <2>2. /\ routing' \in ToClient /\ mediaId' \in 0 .. MaxMedia /\ mediaWatch' \in 0 .. MaxMedia
        /\ receiverWatch' \in 0 .. MaxApps
    BY <2>1, RestVars, BlankIs DEF TellFacts, TInv, TypeOK
  <2> QED
    BY <2>1, <2>2, TInvTell DEF TellFacts
<1>5. CASE NextEvent
  <2>1. /\ EventFacts /\ DeviceStill /\ LinkStill /\ CallersStill /\ ReaderStill
        /\ toDevice' = toDevice /\ toClient' = toClient /\ opened' = opened
    BY <1>5, NextEventDoes
  <2>2. /\ routing' \in ToClient /\ mediaId' \in 0 .. MaxMedia /\ mediaWatch' \in 0 .. MaxMedia
        /\ receiverWatch' \in 0 .. MaxApps
    BY <2>1 DEF ReaderStill, TInv, TypeOK
  <2> QED
    BY <2>1, <2>2, TInvTell
<1>6. CASE LinkFails
  <2>0. /\ toDevice' \in Seq(ToDevice) /\ Len(toDevice') <= NetCap
        /\ toClient' \in Seq(ToClient) /\ Len(toClient') <= NetCap
        /\ opened' \subseteq 0 .. MaxApps
    <3>1. toDevice' = <<>> /\ toClient' = <<>> /\ opened' = {}
      BY <1>6, LinkFailsDoes
    <3>2. /\ toDevice' \in Seq(ToDevice) /\ Len(toDevice') <= NetCap
          /\ toClient' \in Seq(ToClient) /\ Len(toClient') <= NetCap
      BY <3>1
    <3> QED
      BY <3>1, <3>2
  <2>1. TypeOK'
    BY <1>6, <2>0, LinkFailsDoes
       DEF TInv, TypeOK, DeviceStill, CallersStill, ReaderStill, Kinds
  <2>2. OpsFit' /\ LoadingFits' /\ StopsFit' /\ MissedFits'
    BY <1>6, LinkFailsDoes DEF TInv, OpsFit, LoadingFits, StopsFit, DeviceStill, CallersStill
  <2> QED
    BY <2>1, <2>2 DEF TInv
<1>7. CASE RecSwaps
  <2>1. TypeOK'
    BY <1>7, RecSwapsDoes DEF TInv, TypeOK, DeviceStill, ReaderStill
  <2>2. OpsFit' /\ LoadingFits' /\ StopsFit' /\ MissedFits'
    BY <1>7, RecSwapsDoes DEF TInv, OpsFit, LoadingFits, StopsFit, MissedFits, DeviceStill
  <2> QED
    BY <2>1, <2>2 DEF TInv
<1>8. CASE RecHello \/ RecReopens
  <2>1. RecFacts
    BY <1>8, RecDoes
  <2>2. TypeOK'
    BY <2>1 DEF RecFacts, TInv, TypeOK, DeviceStill, CallersStill, ReaderStill
  <2>3. OpsFit' /\ LoadingFits' /\ MissedFits'
    BY <2>1 DEF RecFacts, TInv, OpsFit, LoadingFits, MissedFits, DeviceStill, CallersStill
  <2>4. StopsFit'
    <3>1. /\ connect_msg(Receiver) \in ToDevice /\ connect_msg(Receiver).type = "CONNECT"
          /\ connect_msg(transport) \in ToDevice /\ connect_msg(transport).type = "CONNECT"
      BY ConnectIs, RestVars DEF Receiver
    <3>2. CASE toDevice' = toDevice
      BY <3>2 DEF TInv, StopsFit
    <3>3. CASE toDevice' = Append(toDevice, connect_msg(Receiver))
      BY <3>1, <3>3, RestVars, Appended DEF TInv, StopsFit
    <3>4. CASE toDevice' = Append(toDevice, connect_msg(transport))
      BY <3>1, <3>4, RestVars, Appended DEF TInv, StopsFit
    <3> QED
      BY <2>1, <3>2, <3>3, <3>4 DEF RecFacts
  <2> QED
    BY <2>2, <2>3, <2>4 DEF TInv
<1>9. CASE UNCHANGED vars
  <2>1. TypeOK'
    BY <1>9 DEF vars, ids, views, conn, calls, net, device, TInv, TypeOK
  <2>2. OpsFit' /\ LoadingFits' /\ StopsFit' /\ MissedFits'
    BY <1>9 DEF vars, calls, net, device, TInv, OpsFit, LoadingFits, StopsFit, MissedFits
  <2> QED
    BY <2>1, <2>2 DEF TInv
<1> QED
  BY <1>1, <1>2, <1>3, <1>4, <1>5, <1>6, <1>7, <1>8, <1>9 DEF Next

\* The type invariant with what the methods, the device and STOP keep to
THEOREM TInvariance == Spec => []TInv
  BY TInvInit, TInvStep, PTL DEF Spec

\* Type correctness: the ids, locals, messages and queues stay in their sets
\* through every interleaving, the event channel and the network within their
\* bounds.
THEOREM TypeCorrectness == Spec => []TypeOK
<1>1. TInv => TypeOK
  BY DEF TInv
<1> QED
  BY <1>1, TInvariance, PTL

-----------------------------------------------------------------------------
(* A LOAD names one application.  Outside of the window it names, the two  *)
(* ids differ only while the one caller that writes them is between the    *)
(* two locks, and nobody is then between the two reads.                    *)

OneWriter == \A c, d \in Calls : pc[c] = "setS" /\ pc[d] = "setS" => c = d
WriterLeads == \A c \in Calls : pc[c] = "setS" => loc[c].t = transport
IdsAgree == (\A c \in Calls : pc[c] # "setS") => transport = session
ReaderAlone ==
    \A c \in Calls : pc[c] = "readS" =>
        loc[c].t = transport /\ \A d \in Calls : pc[d] # "setS"
LoadFits == \A c \in Calls : pc[c] = "send" /\ loc[c].op \in Loads => loc[c].t = loc[c].s

PairInv ==
    "ids" \notin races => OneWriter /\ WriterLeads /\ IdsAgree /\ ReaderAlone /\ LoadFits

\* A message that was under way before
Kept(i) ==
    /\ i \in DOMAIN toDevice
    /\ toDevice'[i].type = toDevice[i].type /\ toDevice'[i].to = toDevice[i].to
    /\ toDevice'[i].s = toDevice[i].s
    /\ toDevice'[i].req \in Calls => toDevice'[i] = toDevice[i]
    /\ toDevice[i].req \notin Calls => toDevice'[i] = toDevice[i]

\* What a caller has sent is a CONNECT or its request.
LEMMA CallSent ==
  ASSUME TInv, NEW c \in Calls, CallFacts(c), NEW i \in DOMAIN toDevice'
  PROVE  \/ Kept(i)
         \/ /\ i = Len(toDevice) + 1 /\ pc'[c] = "setT"
            /\ toDevice'[i] = connect_msg(loc'[c].t)
            /\ toDevice' = Append(toDevice, connect_msg(loc'[c].t))
         \/ /\ i = Len(toDevice) + 1 /\ pc'[c] = "wait" /\ pc[c] # "wait"
            /\ toDevice'[i] = RequestOf(c, loc'[c])
            /\ toDevice' = Append(toDevice, RequestOf(c, loc'[c]))
            /\ loc'[c] \in Local /\ loc'[c].op # "none"
            /\ "reopen" \notin races' => link = "up"
            /\ \/ /\ loc'[c].op \in {"launch_app", "stop_app", "send_raw"} \cup Plain
                  /\ loc'[c].op = "stop_app" => loc'[c].s # 0
               \/ pc[c] = "send" /\ loc'[c] = loc[c]
<1>1. /\ toDevice \in Seq(ToDevice) /\ loc'[c] \in Local /\ loc'[c].t \in 0 .. MaxApps
  BY CallerTypes DEF CallFacts, CallTypes, Local
<1>2. CASE toDevice' = toDevice
  BY <1>2 DEF Kept
<1>3. CASE toDevice' = Forget(c, toDevice)
  BY <1>1, <1>3, ForgottenToDevice DEF Kept
<1>4. CASE toDevice' = Append(toDevice, connect_msg(loc'[c].t)) /\ pc'[c] = "setT"
  <2>1. connect_msg(loc'[c].t) \in ToDevice
    BY <1>1, ConnectIs
  <2> QED
    BY <1>1, <1>4, <2>1, Appended DEF Kept
<1>5. CASE /\ toDevice' = Append(toDevice, RequestOf(c, loc'[c])) /\ pc'[c] = "wait"
           /\ pc[c] # "wait"
           /\ "reopen" \notin races' => link = "up"
           /\ \/ /\ loc'[c].op \in {"launch_app", "stop_app", "send_raw"} \cup Plain
                 /\ loc'[c].op = "stop_app" => loc'[c].s # 0
              \/ pc[c] = "send" /\ loc'[c] = loc[c]
  <2>1. loc'[c].op # "none"
    BY <1>5 DEF CallFacts, CallTypes
  <2>2. RequestOf(c, loc'[c]) \in ToDevice
    BY <1>1, <2>1, RequestIs
  <2>3. \/ i \in DOMAIN toDevice /\ toDevice'[i] = toDevice[i]
        \/ i = Len(toDevice) + 1 /\ toDevice'[i] = RequestOf(c, loc'[c])
    BY <1>1, <1>5, <2>2, Appended
  <2> QED
    BY <1>1, <1>5, <2>1, <2>3 DEF Kept
<1> QED
  BY <1>2, <1>3, <1>4, <1>5 DEF CallFacts, CallQueues

\* What is under way after the device has taken a message
LEMMA DeviceLeaves ==
  ASSUME TInv, DeviceFacts, NEW i \in DOMAIN toDevice'
  PROVE  \/ toDevice' = toDevice /\ i \in DOMAIN toDevice /\ toDevice'[i] = toDevice[i]
         \/ /\ toDevice # <<>> /\ toDevice' = Tail(toDevice)
            /\ i + 1 \in DOMAIN toDevice /\ toDevice'[i] = toDevice[i + 1]
<1>1. CASE toDevice' = toDevice
  BY <1>1
<1>2. CASE toDevice # <<>> /\ toDevice' = Tail(toDevice)
  BY <1>2, RestVars, Dropped
<1> QED
  BY <1>1, <1>2 DEF DeviceFacts, DeviceTypes

LEMMA PairInvCall == ASSUME TInv, PairInv, NEW c \in Calls, CallFacts(c) PROVE PairInv'
<1> SUFFICES ASSUME "ids" \notin races'
             PROVE  OneWriter' /\ WriterLeads' /\ IdsAgree' /\ ReaderAlone' /\ LoadFits'
  BY DEF PairInv
<1>1. OneWriter /\ WriterLeads /\ IdsAgree /\ ReaderAlone /\ LoadFits
  BY DEF PairInv, CallFacts, CallTypes
<1>2. /\ \A d \in Calls : d # c => pc'[d] = pc[d] /\ loc'[d] = loc[d]
      /\ CallIds(c)
  BY DEF CallFacts, CallFrame
<1>3. CASE pc'[c] = "setS"
  <2>1. \A d \in Calls : d # c => pc[d] # "setS" /\ pc[d] # "readS"
    BY <1>2, <1>3 DEF CallIds, HalfWritten, HalfRead
  <2>2. transport' = loc'[c].t
    BY <1>2, <1>3 DEF CallIds
  <2>3. OneWriter' /\ WriterLeads' /\ IdsAgree' /\ ReaderAlone'
    BY <1>2, <1>3, <2>1, <2>2 DEF OneWriter, WriterLeads, IdsAgree, ReaderAlone
  <2>4. LoadFits'
    BY <1>1, <1>2, <1>3 DEF LoadFits
  <2> QED
    BY <2>3, <2>4
<1>4. CASE pc[c] = "setS"
  <2>1. /\ \A d \in Calls : d # c => pc[d] # "setS" /\ pc[d] # "readS"
        /\ pc'[c] = "idle" /\ session' = loc[c].t /\ transport' = transport
    BY <1>2, <1>4 DEF CallIds, HalfWritten, HalfRead
  <2>2. session' = transport'
    BY <1>1, <1>4, <2>1 DEF WriterLeads
  <2>3. OneWriter' /\ WriterLeads' /\ IdsAgree' /\ ReaderAlone'
    BY <1>2, <2>1, <2>2 DEF OneWriter, WriterLeads, IdsAgree, ReaderAlone
  <2>4. LoadFits'
    BY <1>1, <1>2, <2>1 DEF LoadFits
  <2> QED
    BY <2>3, <2>4
<1>5. CASE pc[c] # "setS" /\ pc'[c] # "setS"
  <2>1. /\ transport' = transport /\ session' = session
        /\ pc'[c] = "readS" =>
             loc'[c].t = transport /\ \A d \in Calls : d # c => pc[d] # "setS"
        /\ pc'[c] = "send" /\ loc'[c].op \in Loads =>
             pc[c] = "readS" /\ loc'[c].t = loc[c].t /\ loc'[c].s = session
    BY <1>2, <1>5 DEF CallIds, HalfWritten
  <2>2. \A d \in Calls : pc'[d] = "setS" <=> pc[d] = "setS"
    BY <1>2, <1>5
  <2>3. OneWriter' /\ WriterLeads' /\ IdsAgree'
    BY <1>1, <1>2, <1>5, <2>1, <2>2 DEF OneWriter, WriterLeads, IdsAgree
  <2>4. ReaderAlone'
    BY <1>1, <1>2, <1>5, <2>1, <2>2 DEF ReaderAlone
  <2>5. pc[c] = "readS" => loc[c].t = transport /\ transport = session
    BY <1>1 DEF ReaderAlone, IdsAgree
  <2>6. LoadFits'
    BY <1>1, <1>2, <2>1, <2>5 DEF LoadFits
  <2> QED
    BY <2>3, <2>4, <2>6
<1> QED
  BY <1>3, <1>4, <1>5

\* The steps of others leave the callers' reads and writes as they are.
PairStill ==
    /\ transport' = transport /\ session' = session /\ races \subseteq races'
    /\ \A c \in Calls :
          \/ pc'[c] = pc[c] /\ loc'[c] = loc[c]
          \/ pc'[c] \notin {"setS", "readS", "send"} /\ pc[c] \notin {"setS", "readS", "send"}

LEMMA PairInvStill == ASSUME PairInv, PairStill PROVE PairInv'
<1> SUFFICES ASSUME "ids" \notin races'
             PROVE  OneWriter' /\ WriterLeads' /\ IdsAgree' /\ ReaderAlone' /\ LoadFits'
  BY DEF PairInv
<1>1. OneWriter /\ WriterLeads /\ IdsAgree /\ ReaderAlone /\ LoadFits
  BY DEF PairInv, PairStill
<1>2. OneWriter'
  BY <1>1 DEF OneWriter, PairStill
<1>3. WriterLeads'
  BY <1>1 DEF WriterLeads, PairStill
<1>4. IdsAgree'
  BY <1>1 DEF IdsAgree, PairStill
<1>5. ReaderAlone'
  BY <1>1 DEF ReaderAlone, PairStill
<1>6. LoadFits'
  BY <1>1 DEF LoadFits, PairStill
<1> QED
  BY <1>2, <1>3, <1>4, <1>5, <1>6

\* A step is one of a caller, or leaves the pair of ids alone.
LEMMA OthersStill ==
  ASSUME TInv, [Next]_vars
  PROVE  PairStill \/ \E c \in Calls : CallFacts(c)
<1>1. CASE \E c \in Calls : CallStep(c)
  BY <1>1, CallStepDoes
<1>2. CASE DeviceStep
  BY <1>2, DeviceStepDoes DEF DeviceFacts, DeviceFrame, DeviceTypes, PairStill
<1>3. CASE Route
  BY <1>3, RouteDoes DEF RouteFacts, DeviceStill, LinkStill, PairStill
<1>4. CASE RouteReceiverStatus \/ RouteMediaStatus
  BY <1>4, TellDoes DEF TellFacts, DeviceStill, LinkStill, CallersStill, PairStill
<1>5. CASE NextEvent
  BY <1>5, NextEventDoes DEF DeviceStill, LinkStill, CallersStill, PairStill
<1>6. CASE LinkFails
  BY <1>6, LinkFailsDoes DEF DeviceStill, CallersStill, PairStill
<1>7. CASE RecSwaps
  BY <1>7, RecSwapsDoes DEF DeviceStill, PairStill
<1>8. CASE RecHello \/ RecReopens
  BY <1>8, RecDoes DEF RecFacts, DeviceStill, CallersStill, PairStill
<1>9. CASE UNCHANGED vars
  BY <1>9 DEF vars, ids, calls, PairStill
<1> QED
  BY <1>1, <1>2, <1>3, <1>4, <1>5, <1>6, <1>7, <1>8, <1>9 DEF Next

LEMMA RecSent ==
  ASSUME TInv, RecFacts, NEW i \in DOMAIN toDevice'
  PROVE  \/ i \in DOMAIN toDevice /\ toDevice'[i] = toDevice[i]
         \/ i = Len(toDevice) + 1 /\ toDevice'[i] = connect_msg(Receiver)
         \/ i = Len(toDevice) + 1 /\ toDevice'[i] = connect_msg(transport)
<1>1. connect_msg(Receiver) \in ToDevice /\ connect_msg(transport) \in ToDevice
  BY ConnectIs, RestVars DEF Receiver
<1>2. CASE toDevice' = toDevice
  BY <1>2
<1>0. ASSUME NEW x \in ToDevice, toDevice' = Append(toDevice, x)
      PROVE  \/ i \in DOMAIN toDevice /\ toDevice'[i] = toDevice[i]
             \/ i = Len(toDevice) + 1 /\ toDevice'[i] = x
  <2>1. toDevice \in Seq(ToDevice)
    BY RestVars
  <2> QED
    BY <1>0, <2>1, Appended
<1>3. CASE toDevice' = Append(toDevice, connect_msg(Receiver))
  BY <1>0, <1>1, <1>3
<1>4. CASE toDevice' = Append(toDevice, connect_msg(transport))
  BY <1>0, <1>1, <1>4
<1> QED
  BY <1>2, <1>3, <1>4 DEF RecFacts

\* A message under way after a step was before, is a CONNECT, or is the request a
\* caller has just sent.
LEMMA Sent ==
  ASSUME TInv, [Next]_vars, NEW i \in DOMAIN toDevice'
  PROVE  \/ \E j \in DOMAIN toDevice :
              /\ toDevice'[i].type = toDevice[j].type /\ toDevice'[i].to = toDevice[j].to
              /\ toDevice'[i].s = toDevice[j].s
         \/ toDevice'[i].type = "CONNECT"
         \/ \E c \in Calls :
              /\ toDevice'[i] = RequestOf(c, loc'[c]) /\ races \subseteq races'
              /\ loc'[c] \in Local /\ loc'[c].op # "none"
              /\ \/ loc'[c].op \in {"launch_app", "stop_app", "send_raw"} \cup Plain
                 \/ pc[c] = "send" /\ loc'[c] = loc[c]
<1>1. CASE \E c \in Calls : CallStep(c)
  <2>1. PICK c \in Calls : CallFacts(c)
    BY <1>1, CallStepDoes
  <2>2. loc'[c].t \in 0 .. MaxApps /\ races \subseteq races'
    BY <2>1 DEF CallFacts, CallTypes, Local
  <2>3. connect_msg(loc'[c].t).type = "CONNECT"
    BY <2>2, ConnectIs
  <2> QED
    BY <2>1, <2>2, <2>3, CallSent DEF Kept
<1>2. CASE DeviceStep
  BY <1>2, DeviceStepDoes, DeviceLeaves
<1>3. CASE toDevice' = toDevice
  BY <1>3
<1>4. CASE Route
  BY <1>3, <1>4, RouteDoes DEF RouteFacts
<1>5. CASE RouteReceiverStatus \/ RouteMediaStatus
  BY <1>3, <1>5, TellDoes DEF TellFacts
<1>6. CASE NextEvent
  BY <1>3, <1>6, NextEventDoes
<1>7. CASE LinkFails
  <2>1. toDevice' = <<>>
    BY <1>7, LinkFailsDoes
  <2> QED
    BY <2>1
<1>8. CASE RecSwaps
  BY <1>3, <1>8, RecSwapsDoes
<1>9. CASE RecHello \/ RecReopens
  <2>1. /\ connect_msg(Receiver) \in ToDevice /\ connect_msg(Receiver).type = "CONNECT"
        /\ connect_msg(transport) \in ToDevice /\ connect_msg(transport).type = "CONNECT"
    BY ConnectIs, RestVars DEF Receiver
  <2> QED
    BY <1>9, <2>1, RecDoes, RecSent
<1>10. CASE UNCHANGED vars
  BY <1>3, <1>10 DEF vars, net
<1> QED
  BY <1>1, <1>2, <1>4, <1>5, <1>6, <1>7, <1>8, <1>9, <1>10 DEF Next

LEMMA RacesGrow == ASSUME TInv, [Next]_vars PROVE races \subseteq races'
  BY OthersStill DEF PairStill, CallFacts, CallTypes

LEMMA LoadStep ==
  ASSUME TInv, PairInv, LoadNamesOneApp, [Next]_vars
  PROVE  LoadNamesOneApp'
<1> SUFFICES ASSUME "ids" \notin races', NEW i \in DOMAIN toDevice',
                    toDevice'[i].type \in {"LOAD", "QUEUE_LOAD"}
             PROVE  toDevice'[i].to = toDevice'[i].s
  BY DEF LoadNamesOneApp
<1>1. LoadFits /\ "ids" \notin races
  BY RacesGrow DEF PairInv
<1>2. CASE \E j \in DOMAIN toDevice :
              /\ toDevice'[i].type = toDevice[j].type /\ toDevice'[i].to = toDevice[j].to
              /\ toDevice'[i].s = toDevice[j].s
  BY <1>1, <1>2 DEF LoadNamesOneApp
<1>3. ASSUME NEW c \in Calls, toDevice'[i] = RequestOf(c, loc'[c]),
             loc'[c] \in Local, loc'[c].op # "none",
             \/ loc'[c].op \in {"launch_app", "stop_app", "send_raw"} \cup Plain
             \/ pc[c] = "send" /\ loc'[c] = loc[c]
      PROVE  toDevice'[i].to = toDevice'[i].s
  <2>1. loc'[c].op \in Loads /\ toDevice'[i].to = loc'[c].t /\ toDevice'[i].s = loc'[c].s
    BY <1>3, RequestIs
  <2>2. pc[c] = "send" /\ loc'[c] = loc[c]
    BY <1>3, <2>1 DEF Loads, Plain
  <2> QED
    BY <1>1, <2>1, <2>2 DEF LoadFits
<1> QED
  BY <1>2, <1>3, Sent

\* The ids a LOAD carries belong together for any number of callers: the inductive
\* invariant says who may be between the two locks of launch_app(), stop_app(),
\* load_media() and queue_load().
THEOREM LoadInvariance == Spec => [](TInv /\ PairInv /\ LoadNamesOneApp)
<1>1. Init => PairInv /\ LoadNamesOneApp
  <2> SUFFICES ASSUME Init PROVE PairInv /\ LoadNamesOneApp
    OBVIOUS
  <2>1. PairInv
    BY DEF Init, PairInv, OneWriter, WriterLeads, IdsAgree, ReaderAlone, LoadFits
  <2>2. \A i \in DOMAIN toDevice : toDevice[i].type = "CONNECT"
    BY ConnectIs DEF Init, Receiver
  <2> QED
    BY <2>1, <2>2 DEF LoadNamesOneApp
<1>2. TInv /\ PairInv /\ LoadNamesOneApp /\ [Next]_vars => (PairInv /\ LoadNamesOneApp)'
  BY OthersStill, PairInvCall, PairInvStill, LoadStep
<1> QED
  BY <1>1, <1>2, TInvariance, PTL DEF Spec

\* load_media() and queue_load() name one application, unless another caller's pair
\* of writes or reads cuts theirs.
THEOREM LoadsOneApp == Spec => []LoadNamesOneApp
  BY LoadInvariance, PTL

-----------------------------------------------------------------------------
(* Nothing names an application that the device has not started yet.       *)

AppsBound ==
    /\ transport <= apps /\ routing.app <= apps
    /\ \A c \in Calls : loc[c].t <= apps /\ loc[c].reply.app <= apps
    /\ \A i \in DOMAIN toDevice : toDevice[i].to <= apps
    /\ \A i \in DOMAIN toClient : toClient[i].app <= apps
    /\ \A i \in DOMAIN events : events[i].app <= apps

LEMMA AppsBoundCall == ASSUME TInv, AppsBound, NEW c \in Calls, CallFacts(c) PROVE AppsBound'
<1>1. /\ \A d \in Calls : d # c => loc'[d] = loc[d]
      /\ apps' = apps /\ routing' = routing
      /\ CallLocals(c) /\ CallQueues(c) /\ CallIds(c)
      /\ events' = events \/ (events # <<>> /\ events' = Tail(events))
      /\ loc'[c] \in Local /\ loc'[c].t \in 0 .. MaxApps
  BY DEF CallFacts, CallFrame, CallTypes, Local
<1>2. /\ toClient \in Seq(ToClient) /\ events \in Seq(Event) /\ apps \in 0 .. MaxApps
  BY RestVars, CallerTypes
<1>3. events # <<>> => Head(events).app <= apps
  BY <1>2, Dropped DEF AppsBound
<1>4. loc'[c].t <= apps
  BY <1>1, <1>2, <1>3 DEF CallLocals, AppsBound
<1>5. loc'[c].reply.app <= apps
  BY <1>1, <1>2, BlankIs DEF CallLocals, AppsBound
<1>6. transport' <= apps
  BY <1>1, <1>4 DEF CallIds, AppsBound
<1>7. \A i \in DOMAIN events' : events'[i].app <= apps
  <2>1. CASE events # <<>> /\ events' = Tail(events)
    <3>1. \A i \in DOMAIN events' : i + 1 \in DOMAIN events /\ events'[i] = events[i + 1]
      BY <1>2, <2>1, Dropped
    <3> QED
      BY <3>1 DEF AppsBound
  <2>2. CASE events' = events
    BY <2>2 DEF AppsBound
  <2> QED
    BY <1>1, <2>1, <2>2
<1>8. \A i \in DOMAIN toClient' : toClient'[i].app <= apps
  BY <1>1, <1>2, ForgottenToClient DEF AppsBound, CallQueues
<1>9. ASSUME NEW i \in DOMAIN toDevice' PROVE toDevice'[i].to <= apps
  <2>1. CASE Kept(i)
    BY <2>1 DEF Kept, AppsBound
  <2>2. CASE toDevice'[i] = connect_msg(loc'[c].t)
    BY <1>1, <1>4, <2>2, ConnectIs
  <2>3. CASE toDevice'[i] = RequestOf(c, loc'[c]) /\ loc'[c].op # "none"
    <3>1. toDevice'[i].to \in {0, loc'[c].t}
      BY <1>1, <2>3, RequestIs DEF Receiver
    <3> QED
      BY <1>2, <1>4, <3>1
  <2> QED
    BY <2>1, <2>2, <2>3, CallSent
<1> QED
  BY <1>1, <1>4, <1>5, <1>6, <1>7, <1>8, <1>9 DEF AppsBound

LEMMA AppsBoundDevice == ASSUME TInv, AppsBound, DeviceFacts PROVE AppsBound'
<1>1. apps <= apps' /\ apps \in Nat /\ apps' \in Nat
  BY DeviceVars DEF DeviceFacts, DeviceState, DeviceTypes
<1>2. \A i \in DOMAIN toClient' : toClient'[i].app <= apps'
  <2> TAKE i \in DOMAIN toClient'
  <2>1. CASE i \in DOMAIN toClient
    <3>1. toClient'[i] = toClient[i] /\ toClient[i] \in ToClient
      BY <2>1, RestVars DEF DeviceFacts, DeviceSays
    <3>2. toClient[i].app \in Nat
      BY <3>1 DEF ToClient
    <3> QED
      BY <1>1, <2>1, <3>1, <3>2 DEF AppsBound
  <2>2. CASE i \notin DOMAIN toClient
    BY <2>2 DEF DeviceFacts, DeviceSays, New
  <2> QED
    BY <2>1, <2>2
<1>3. \A i \in DOMAIN toDevice' : toDevice'[i].to <= apps'
  <2> TAKE i \in DOMAIN toDevice'
  <2>1. PICK j \in DOMAIN toDevice : toDevice'[i] = toDevice[j]
    BY DeviceLeaves
  <2>2. toDevice[j] \in ToDevice
    BY RestVars
  <2>3. toDevice[j].to \in Nat
    BY <2>2 DEF ToDevice
  <2> QED
    BY <1>1, <2>1, <2>3 DEF AppsBound
<1>4. \A i \in DOMAIN events' : events'[i].app <= apps'
  <2>0. events \in Seq(Event) /\ \A e \in Event : e.app \in Nat
    BY RestVars DEF Event
  <2>1. \A i \in DOMAIN events : events[i].app \in Nat
    BY <2>0
  <2> QED
    BY <1>1, <2>1 DEF AppsBound, DeviceFacts, DeviceFrame
<1>5. \A c \in Calls : loc'[c].t <= apps' /\ loc'[c].reply.app <= apps'
  <2>1. \A c \in Calls : loc[c].t \in Nat /\ loc[c].reply.app \in Nat
    <3> TAKE c \in Calls
    <3>1. loc[c].t \in 0 .. MaxApps /\ loc[c].reply.app \in 0 .. MaxApps
      BY CallerTypes
    <3> QED
      BY <3>1
  <2> QED
    BY <1>1, <2>1 DEF AppsBound, DeviceFacts, DeviceFrame
<1>6. transport' <= apps' /\ routing'.app <= apps'
  <2>1. transport \in Nat /\ routing.app \in Nat
    BY RestVars
  <2> QED
    BY <1>1, <2>1 DEF AppsBound, DeviceFacts, DeviceFrame
<1> QED
  BY <1>2, <1>3, <1>4, <1>5, <1>6 DEF AppsBound

LEMMA AppsBoundRoute == ASSUME TInv, AppsBound, RouteFacts PROVE AppsBound'
<1>1. apps' = apps /\ transport' = transport /\ toDevice' = toDevice /\ apps \in Nat
  BY DeviceVars DEF RouteFacts, DeviceStill
<1>2. Head(toClient).app <= apps
  BY DEF RouteFacts, AppsBound
<1>3. routing'.app <= apps
  BY <1>1, <1>2, BlankIs DEF RouteFacts
<1>4. \A i \in DOMAIN toClient' : toClient'[i].app <= apps
  BY DEF RouteFacts, AppsBound
<1>5. \A i \in DOMAIN events' : events'[i].app <= apps
  <2>1. routing.app <= apps /\ 0 <= apps /\ \A j \in DOMAIN events : events[j].app <= apps
    BY <1>1 DEF AppsBound
  <2>2. \A i \in DOMAIN events' :
           \/ events'[i].app \in {0, routing.app}
           \/ \E j \in DOMAIN events : events'[i].app = events[j].app
    BY DEF RouteFacts, EventFacts
  <2> QED
    BY <2>1, <2>2
<1>6. ASSUME NEW c \in Calls PROVE loc'[c].t <= apps /\ loc'[c].reply.app <= apps
  <2>1. CASE loc'[c] = loc[c]
    BY <2>1 DEF AppsBound
  <2>2. CASE loc'[c] = [loc[c] EXCEPT !.reply = Head(toClient)]
    <3>1. loc'[c].t = loc[c].t /\ loc'[c].reply = Head(toClient)
      BY <2>2, CallerTypes DEF Local
    <3> QED
      BY <1>2, <3>1 DEF AppsBound
  <2> QED
    BY <2>1, <2>2 DEF RouteFacts
<1> QED
  BY <1>1, <1>3, <1>4, <1>5, <1>6 DEF AppsBound

\* What may happen to the application bound otherwise: nothing new is named.
LEMMA AppsBoundStill ==
  ASSUME TInv, AppsBound, DeviceStill, routing' = routing \/ routing' = Nobody,
         \A c \in Calls : loc'[c] = loc[c] \/ loc'[c] = Blank,
         toClient' = toClient \/ toClient' = <<>>,
         EventFacts \/ events' = events,
         \A i \in DOMAIN toDevice' :
            \/ i \in DOMAIN toDevice /\ toDevice'[i] = toDevice[i]
            \/ toDevice'[i] \in {connect_msg(Receiver), connect_msg(transport)}
  PROVE  AppsBound'
<1>1. apps' = apps /\ transport' = transport /\ apps \in Nat
  BY DeviceVars DEF DeviceStill
<1>2. routing'.app <= apps
  BY <1>1, BlankIs DEF AppsBound
<1>3. \A c \in Calls : loc'[c].t <= apps /\ loc'[c].reply.app <= apps
  BY <1>1, BlankIs DEF AppsBound
<1>4. \A i \in DOMAIN toClient' : toClient'[i].app <= apps
  BY DEF AppsBound
<1>5. \A i \in DOMAIN events' : events'[i].app <= apps
  BY <1>1 DEF EventFacts, AppsBound
<1>6. \A i \in DOMAIN toDevice' : toDevice'[i].to <= apps
  <2>1. connect_msg(Receiver).to <= apps /\ connect_msg(transport).to <= apps
    BY <1>1 DEF AppsBound, connect_msg, Receiver
  <2>2. \A i \in DOMAIN toDevice : toDevice[i].to <= apps
    BY DEF AppsBound
  <2> QED
    BY <2>1, <2>2
<1> QED
  BY <1>1, <1>2, <1>3, <1>4, <1>5, <1>6 DEF AppsBound

LEMMA AppsBoundStep == ASSUME TInv, AppsBound, [Next]_vars PROVE AppsBound'
<1>1. CASE \E c \in Calls : CallStep(c)
  BY <1>1, CallStepDoes, AppsBoundCall
<1>2. CASE DeviceStep
  BY <1>2, DeviceStepDoes, AppsBoundDevice
<1>3. CASE Route
  BY <1>3, RouteDoes, AppsBoundRoute
<1>4. CASE RouteReceiverStatus \/ RouteMediaStatus
  BY <1>4, TellDoes, AppsBoundStill DEF TellFacts, CallersStill
<1>5. CASE NextEvent
  BY <1>5, NextEventDoes, AppsBoundStill DEF CallersStill, ReaderStill
<1>6. CASE LinkFails
  <2>1. toDevice' = <<>> /\ toClient' = <<>> /\ events' = events /\ DeviceStill
        /\ loc' = loc /\ routing' = routing
    BY <1>6, LinkFailsDoes DEF CallersStill, ReaderStill
  <2>2. DOMAIN toDevice' = {}
    BY <2>1
  <2> QED
    BY <2>1, <2>2, AppsBoundStill
<1>7. CASE RecSwaps
  BY <1>7, RecSwapsDoes, AppsBoundStill DEF ReaderStill
<1>8. CASE RecHello \/ RecReopens
  BY <1>8, RecDoes, RecSent, AppsBoundStill DEF RecFacts, CallersStill, ReaderStill
<1>9. CASE UNCHANGED vars
  BY <1>9 DEF vars, ids, views, conn, calls, net, device, AppsBound
<1> QED
  BY <1>1, <1>2, <1>3, <1>4, <1>5, <1>6, <1>7, <1>8, <1>9 DEF Next

-----------------------------------------------------------------------------
(* Nothing is sent to a destination that was not opened.  The receiver is  *)
(* opened once a reconnect has said hello, the application once it is done *)
(* and its transport is known, and who has read a live transport holds the *)
(* one that is known.                                                      *)

InTime == races \cap {"late", "reopen"} = {}
ReceiverOpens == link \in {"hello", "up"} => Opening(Receiver)
AppOpens == link = "up" /\ transport = app /\ app # 0 => Opening(app)
ReadersCurrent ==
    \A c \in Calls :
        pc[c] \in {"readS", "readM", "send"} /\ loc[c].t = app /\ app # 0 => transport = app

OpenInv == InTime => ReceiverOpens /\ AppOpens /\ ReadersCurrent

\* Destination t is opened when the i-th message is taken.
Before(t, i) == t \in opened \/ \E j \in 1 .. i : toDevice[j] = connect_msg(t)

\* CONNECTs stay under way.
ConnectsStay ==
    /\ opened' = opened
    /\ \A i \in DOMAIN toDevice :
          toDevice[i].req = NoCall => i \in DOMAIN toDevice' /\ toDevice'[i] = toDevice[i]

OpensNext(t) == t \in opened' \/ \E i \in DOMAIN toDevice' : toDevice'[i] = connect_msg(t)

LEMMA OpeningStays ==
  ASSUME TInv, ConnectsStay, NEW t \in 0 .. MaxApps, Opening(t)
  PROVE  OpensNext(t)
<1>1. connect_msg(t).req = NoCall
  BY ConnectIs
<1> QED
  BY <1>1 DEF Opening, ConnectsStay, OpensNext

\* A destination that was opened before the i-th message still is.
LEMMA BeforeStays ==
  ASSUME TInv, ConnectsStay, NEW i \in DOMAIN toDevice, NEW t \in 0 .. MaxApps, Before(t, i)
  PROVE  t \in opened' \/ \E j \in 1 .. i : toDevice'[j] = connect_msg(t)
<1>1. connect_msg(t).req = NoCall
  BY ConnectIs
<1>2. \A j \in 1 .. i : j \in DOMAIN toDevice
  BY RestVars
<1> QED
  BY <1>1, <1>2 DEF Before, ConnectsStay

LEMMA CallConnectsStay ==
  ASSUME TInv, NEW c \in Calls, CallFacts(c)
  PROVE  ConnectsStay
<1>1. opened' = opened /\ CallQueues(c) /\ toDevice \in Seq(ToDevice)
      /\ loc'[c] \in Local /\ loc'[c].t \in 0 .. MaxApps
      /\ (pc'[c] = "wait" => loc'[c].op # "none")
  BY RestVars DEF CallFacts, CallFrame, CallTypes, Local
<1>2. CASE toDevice' = toDevice
  BY <1>1, <1>2 DEF ConnectsStay
<1>3. CASE toDevice' = Forget(c, toDevice)
  BY <1>1, <1>3, ForgottenToDevice DEF ConnectsStay
<1>4. CASE toDevice' = Append(toDevice, connect_msg(loc'[c].t))
  <2>1. connect_msg(loc'[c].t) \in ToDevice
    BY <1>1, ConnectIs
  <2> QED
    BY <1>1, <1>4, <2>1, Appended DEF ConnectsStay
<1>5. CASE toDevice' = Append(toDevice, RequestOf(c, loc'[c])) /\ pc'[c] = "wait"
  <2>1. RequestOf(c, loc'[c]) \in ToDevice
    BY <1>1, <1>5, RequestIs
  <2> QED
    BY <1>1, <1>5, <2>1, Appended DEF ConnectsStay
<1> QED
  BY <1>1, <1>2, <1>3, <1>4, <1>5 DEF CallQueues

LEMMA RecConnectsStay == ASSUME TInv, RecFacts PROVE ConnectsStay
<1>1. connect_msg(Receiver) \in ToDevice /\ connect_msg(transport) \in ToDevice
  BY ConnectIs, RestVars DEF Receiver
<1>2. CASE toDevice' = toDevice
  BY <1>2 DEF RecFacts, ConnectsStay
<1>3. CASE toDevice' = Append(toDevice, connect_msg(Receiver))
  BY <1>1, <1>3, RestVars, Appended DEF RecFacts, ConnectsStay
<1>4. CASE toDevice' = Append(toDevice, connect_msg(transport))
  BY <1>1, <1>4, RestVars, Appended DEF RecFacts, ConnectsStay
<1> QED
  BY <1>2, <1>3, <1>4 DEF RecFacts

LEMMA OpenInvCall ==
  ASSUME TInv, OpenInv, NEW c \in Calls, CallFacts(c), InTime'
  PROVE  ReceiverOpens' /\ AppOpens' /\ ReadersCurrent'
<1>1. /\ ReceiverOpens /\ AppOpens /\ ReadersCurrent
      /\ "late" \notin races' /\ "reopen" \notin races'
  <2>1. races \subseteq races'
    BY DEF CallFacts, CallTypes
  <2> QED
    BY <2>1 DEF OpenInv, InTime
<1>2. /\ link' = link /\ app' = app
      /\ \A d \in Calls : d # c => pc'[d] = pc[d] /\ loc'[d] = loc[d]
      /\ CallIds(c) /\ CallLocals(c)
  BY DEF CallFacts, CallFrame
<1>3. app \in 0 .. MaxApps /\ Receiver \in 0 .. MaxApps
  BY DeviceVars DEF Receiver
<1>4. (Opening(app) => OpensNext(app)) /\ (Opening(Receiver) => OpensNext(Receiver))
  BY <1>3, CallConnectsStay, OpeningStays
<1>6. ReceiverOpens'
  BY <1>1, <1>2, <1>4 DEF ReceiverOpens, Opening, OpensNext, Receiver, connect_msg
<1>7. ASSUME link' = "up", transport' = app, app # 0 PROVE Opening(app)
  <2>1. CASE transport' = transport
    BY <1>1, <1>2, <1>7, <2>1 DEF AppOpens
  <2>2. CASE pc'[c] = "setS"
    BY <1>1, <1>2, <1>7, <2>2 DEF CallIds
  <2> QED
    BY <1>2, <2>1, <2>2 DEF CallIds
<1>8. AppOpens'
  BY <1>2, <1>4, <1>7 DEF AppOpens, Opening, OpensNext, connect_msg
<1>9. transport = app => transport' = app
  BY <1>1, <1>2 DEF CallIds
<1>10. ReadersCurrent'
  <2>1. ASSUME NEW d \in Calls, pc'[d] \in {"readS", "readM", "send"}, loc'[d].t = app, app # 0
        PROVE  transport' = app
    <3>1. CASE d # c
      BY <1>1, <1>2, <1>9, <2>1, <3>1 DEF ReadersCurrent
    <3>2. CASE d = c
      BY <1>1, <1>2, <1>9, <2>1, <3>2 DEF ReadersCurrent, CallLocals
    <3> QED
      BY <3>1, <3>2
  <2> QED
    BY <1>2, <2>1 DEF ReadersCurrent
<1> QED
  BY <1>6, <1>8, <1>10

\* The request a caller sends finds its destination opened.
LEMMA UsedCall ==
  ASSUME TInv, OpenInv, UsedAfterConnect, NEW c \in Calls, CallFacts(c), InTime'
  PROVE  UsedAfterConnect'
<1>1. /\ ReceiverOpens /\ AppOpens /\ ReadersCurrent /\ "reopen" \notin races'
      /\ races \cap {"reopen", "late"} = {}
  <2>1. races \subseteq races'
    BY DEF CallFacts, CallTypes
  <2> QED
    BY <2>1 DEF OpenInv, InTime
<1>2. app' = app /\ opened' = opened /\ loc'[c] \in Local /\ loc'[c].t \in 0 .. MaxApps
  BY DEF CallFacts, CallFrame, CallTypes, Local
<1>3. app \in 0 .. MaxApps /\ Receiver \in 0 .. MaxApps /\ Len(toDevice) \in Nat
      /\ toDevice \in Seq(ToDevice)
  BY DeviceVars DEF Receiver
<1> SUFFICES ASSUME NEW i \in DOMAIN toDevice', toDevice'[i].to \in {Receiver, app}
             PROVE  \/ toDevice'[i].to \in opened
                    \/ \E j \in 1 .. i : toDevice'[j] = connect_msg(toDevice'[i].to)
  BY <1>2 DEF UsedAfterConnect, connect_msg
<1>4. CASE Kept(i)
  <2> DEFINE t == toDevice[i].to
  <2>1. i \in DOMAIN toDevice /\ toDevice'[i].to = t /\ t \in {Receiver, app}
    BY <1>4 DEF Kept
  <2>2. Before(t, i) /\ t \in 0 .. MaxApps
    BY <1>1, <1>3, <2>1 DEF UsedAfterConnect, Before
  <2> HIDE DEF t
  <2>4. t \in opened' \/ \E j \in 1 .. i : toDevice'[j] = connect_msg(t)
    BY <2>1, <2>2, CallConnectsStay, BeforeStays
  <2> QED
    BY <1>2, <2>1, <2>4
<1>5. CASE toDevice'[i] = connect_msg(loc'[c].t)
  <2>1. connect_msg(loc'[c].t).to = loc'[c].t
    BY <1>2, ConnectIs
  <2>2. i \in 1 .. i
    <3>1. toDevice' \in Seq(ToDevice)
      BY DEF CallFacts, CallTypes
    <3> QED
      BY <3>1
  <2> QED
    BY <1>5, <2>1, <2>2
<1>6. CASE /\ i = Len(toDevice) + 1 /\ toDevice'[i] = RequestOf(c, loc'[c])
           /\ toDevice' = Append(toDevice, RequestOf(c, loc'[c]))
           /\ loc'[c].op # "none" /\ link = "up"
           /\ \/ loc'[c].op \in {"launch_app", "stop_app", "send_raw"} \cup Plain
              \/ pc[c] = "send" /\ loc'[c] = loc[c]
  <2> DEFINE r == RequestOf(c, loc'[c])
             t == toDevice'[i].to
  <2>1. /\ r \in ToDevice /\ r.to \in {Receiver, loc'[c].t}
        /\ loc'[c].op \in {"launch_app", "stop_app", "send_raw"} \cup Plain => r.to = Receiver
    BY <1>2, <1>6, RequestIs
  <2>2. t = r.to
    BY <1>6
  <2>3. Opening(t)
    <3>1. CASE t = Receiver
      BY <1>1, <1>6, <3>1 DEF ReceiverOpens
    <3>2. CASE t # Receiver
      <4>1. t = app /\ t = loc'[c].t /\ pc[c] = "send" /\ loc'[c] = loc[c] /\ app # 0
        BY <1>6, <2>1, <2>2, <3>2 DEF Receiver
      <4>2. transport = app
        BY <1>1, <4>1 DEF ReadersCurrent
      <4> QED
        BY <1>1, <1>6, <4>1, <4>2 DEF AppOpens
    <3> QED
      BY <3>1, <3>2
  <2>4. \A j \in DOMAIN toDevice : j \in 1 .. i /\ toDevice'[j] = toDevice[j]
    BY <1>3, <1>6, <2>1, Appended
  <2> HIDE DEF t, r
  <2>5. t \in opened \/ \E j \in 1 .. i : toDevice'[j] = connect_msg(t)
    BY <2>3, <2>4 DEF Opening
  <2> QED
    BY <2>5 DEF t
<1> QED
  BY <1>1, <1>4, <1>5, <1>6, CallSent

\* The device takes a CONNECT only to open its destination.
LEMMA DeviceOpens ==
  ASSUME TInv, DeviceFacts, NEW t \in 0 .. MaxApps, t = Receiver \/ (t = app /\ app' = app)
  PROVE  /\ Opening(t) => OpensNext(t)
         /\ toDevice' = toDevice =>
              \A i \in DOMAIN toDevice : Before(t, i) =>
                 t \in opened' \/ \E j \in 1 .. i : toDevice'[j] = connect_msg(t)
         /\ toDevice # <<>> /\ toDevice' = Tail(toDevice) =>
              \A i \in DOMAIN toDevice' : Before(t, i + 1) =>
                 t \in opened' \/ \E j \in 1 .. i : toDevice'[j] = connect_msg(t)
<1>1. t \in opened => t \in opened'
  BY DEF DeviceFacts, DeviceState
<1>2. connect_msg(t).type = "CONNECT" /\ connect_msg(t).to = t
  BY ConnectIs
<1>3. toDevice \in Seq(ToDevice) /\ toDevice' \in Seq(ToDevice)
  BY RestVars DEF DeviceFacts, DeviceTypes
<1>4. CASE toDevice' = toDevice
  <2>1. Opening(t) => OpensNext(t)
    BY <1>1, <1>4 DEF Opening, OpensNext
  <2>2. ~(toDevice # <<>> /\ toDevice' = Tail(toDevice))
    <3>1. toDevice # <<>> => Len(Tail(toDevice)) = Len(toDevice) - 1 /\ Len(toDevice) \in Nat
      BY <1>3, Dropped, LenProperties
    <3> QED
      BY <1>4, <3>1
  <2>3. \A i \in DOMAIN toDevice : Before(t, i) =>
            t \in opened' \/ \E j \in 1 .. i : toDevice'[j] = connect_msg(t)
    BY <1>1, <1>4 DEF Before
  <2> QED
    BY <2>1, <2>2, <2>3
<1>5. CASE toDevice # <<>> /\ toDevice' = Tail(toDevice)
  <2>1. /\ Head(toDevice) = toDevice[1] /\ Len(toDevice') = Len(toDevice) - 1
        /\ \A i \in DOMAIN toDevice' : i + 1 \in DOMAIN toDevice
        /\ \A j \in DOMAIN toDevice :
              j # 1 => j - 1 \in DOMAIN toDevice' /\ toDevice'[j - 1] = toDevice[j]
    BY <1>3, <1>5, Dropped
  <2>2. toDevice[1] = connect_msg(t) => t \in opened'
    BY <1>2, <1>5, <2>1 DEF DeviceFacts, DeviceState
  <2>3. Opening(t) => OpensNext(t)
    BY <1>1, <2>1, <2>2 DEF Opening, OpensNext
  <2>4. ASSUME NEW i \in DOMAIN toDevice', Before(t, i + 1)
        PROVE  t \in opened' \/ \E j \in 1 .. i : toDevice'[j] = connect_msg(t)
    <3>1. CASE t \in opened
      BY <1>1, <3>1
    <3>2. ASSUME NEW j \in 1 .. (i + 1), toDevice[j] = connect_msg(t)
          PROVE  t \in opened' \/ \E k \in 1 .. i : toDevice'[k] = connect_msg(t)
      <4>1. CASE j = 1
        BY <2>2, <3>2, <4>1
      <4>2. CASE j # 1
        <5>1. i + 1 \in DOMAIN toDevice /\ i \in Nat
          BY <1>3, <2>1
        <5>2. j \in DOMAIN toDevice /\ j - 1 \in 1 .. i
          BY <1>3, <4>2, <5>1
        <5> QED
          BY <2>1, <3>2, <4>2, <5>2
      <4> QED
        BY <4>1, <4>2
    <3> QED
      BY <2>4, <3>1, <3>2 DEF Before
  <2>5. toDevice' # toDevice
    <3>1. Len(toDevice) \in Nat
      BY <1>3, LenProperties
    <3> QED
      BY <2>1, <3>1
  <2> QED
    BY <2>3, <2>4, <2>5
<1> QED
  BY <1>4, <1>5 DEF DeviceFacts, DeviceTypes

LEMMA OpenInvDevice ==
  ASSUME TInv, AppsBound, OpenInv, UsedAfterConnect, DeviceFacts, InTime'
  PROVE  ReceiverOpens' /\ AppOpens' /\ ReadersCurrent' /\ UsedAfterConnect'
<1>1. /\ ReceiverOpens /\ AppOpens /\ ReadersCurrent /\ races \cap {"reopen", "late"} = {}
  <2>1. races \subseteq races'
    BY DEF DeviceFacts, DeviceFrame
  <2> QED
    BY <2>1 DEF OpenInv, InTime
<1>2. /\ link' = link /\ transport' = transport /\ pc' = pc /\ loc' = loc
  BY DEF DeviceFacts, DeviceFrame
<1>3. /\ app' = app \/ app' = 0 \/ app' = apps + 1
      /\ app \in 0 .. MaxApps /\ Receiver \in 0 .. MaxApps /\ apps \in Nat
      /\ Receiver = 0 /\ transport \in Nat /\ \A c \in Calls : loc[c].t \in Nat
  <2>1. \A c \in Calls : loc[c].t \in Nat
    <3> TAKE c \in Calls
    <3>1. loc[c].t \in 0 .. MaxApps
      BY CallerTypes
    <3> QED
      BY <3>1
  <2> QED
    BY <2>1, DeviceVars, RestVars DEF DeviceFacts, DeviceState, Receiver
<1>4. ReceiverOpens'
  <2>1. Opening(Receiver) => OpensNext(Receiver)
    BY <1>3, DeviceOpens
  <2> QED
    BY <1>1, <1>2, <2>1 DEF ReceiverOpens, Opening, OpensNext, Receiver, connect_msg
<1>5. app' = apps + 1 => transport # app' /\ \A c \in Calls : loc[c].t # app'
  BY <1>3 DEF AppsBound
<1>6. AppOpens'
  <2>1. app' = app => (Opening(app) => OpensNext(app))
    BY <1>3, DeviceOpens
  <2> QED
    BY <1>1, <1>2, <1>3, <1>5, <2>1 DEF AppOpens, Opening, OpensNext, connect_msg
<1>7. ReadersCurrent'
  BY <1>1, <1>2, <1>3, <1>5 DEF ReadersCurrent
<1>8. ASSUME NEW i \in DOMAIN toDevice', toDevice'[i].to \in {Receiver, app'}
      PROVE  \/ toDevice'[i].to \in opened'
             \/ \E j \in 1 .. i : toDevice'[j] = connect_msg(toDevice'[i].to)
  <2> DEFINE t == toDevice'[i].to
  <2>1. t = Receiver \/ (t = app /\ app' = app)
    <3>1. t <= apps /\ t \in Nat
      <4>1. PICK j \in DOMAIN toDevice : toDevice'[i] = toDevice[j]
        BY DeviceLeaves
      <4>2. toDevice[j] \in ToDevice
        BY RestVars
      <4> QED
        BY <4>1, <4>2 DEF AppsBound, ToDevice
    <3> QED
      BY <1>3, <1>8, <3>1
  <2>2. t \in 0 .. MaxApps
    BY <1>3, <2>1
  <2>3. CASE toDevice' = toDevice
    <3>1. Before(t, i) /\ i \in DOMAIN toDevice
      BY <1>1, <2>1, <2>3 DEF UsedAfterConnect, Before
    <3> HIDE DEF t
    <3> QED
      BY <2>1, <2>2, <2>3, <3>1, DeviceOpens DEF t
  <2>4. CASE toDevice # <<>> /\ toDevice' = Tail(toDevice)
    <3>1. i + 1 \in DOMAIN toDevice /\ toDevice'[i] = toDevice[i + 1]
      BY <2>4, RestVars, Dropped
    <3>2. Before(t, i + 1)
      BY <1>1, <2>1, <3>1 DEF UsedAfterConnect, Before
    <3> HIDE DEF t
    <3> QED
      BY <2>1, <2>2, <2>4, <3>2, DeviceOpens DEF t
  <2> QED
    BY <2>3, <2>4 DEF DeviceFacts, DeviceTypes
<1>9. UsedAfterConnect'
  BY <1>8 DEF UsedAfterConnect, connect_msg, Receiver
<1> QED
  BY <1>4, <1>6, <1>7, <1>9

\* A reconnect opens the receiver and the application again.
LEMMA OpenInvRec ==
  ASSUME TInv, OpenInv, UsedAfterConnect, RecFacts, InTime'
  PROVE  ReceiverOpens' /\ AppOpens' /\ ReadersCurrent' /\ UsedAfterConnect'
<1>1. /\ ReceiverOpens /\ AppOpens /\ ReadersCurrent /\ races \cap {"reopen", "late"} = {}
      /\ transport' = transport /\ pc' = pc /\ loc' = loc /\ app' = app /\ opened' = opened
  BY DEF OpenInv, InTime, RecFacts, DeviceStill, CallersStill
<1>2. /\ app \in 0 .. MaxApps /\ Receiver \in 0 .. MaxApps /\ transport \in 0 .. MaxApps
      /\ toDevice \in Seq(ToDevice) /\ toDevice' \in Seq(ToDevice)
  BY DeviceVars, RestVars DEF Receiver, RecFacts
<1>3. /\ connect_msg(Receiver) \in ToDevice /\ connect_msg(transport) \in ToDevice
      /\ connect_msg(Receiver).to = Receiver /\ connect_msg(transport).to = transport
  BY <1>2, ConnectIs
<1>4. ConnectsStay
  BY RecConnectsStay
<1>5. ReceiverOpens'
  <2>1. OpensNext(Receiver)
    <3>1. CASE link = "swapped"
      BY <1>2, <1>3, <3>1, Appended DEF RecFacts, OpensNext
    <3>2. CASE link = "hello"
      BY <1>1, <1>2, <1>4, <3>2, OpeningStays DEF ReceiverOpens
    <3> QED
      BY <3>1, <3>2 DEF RecFacts
  <2> QED
    BY <2>1 DEF ReceiverOpens, Opening, OpensNext, Receiver, connect_msg
<1>6. AppOpens'
  <2>1. link' = "up" /\ transport = app /\ app # 0 => OpensNext(app)
    BY <1>2, <1>3, Appended DEF RecFacts, OpensNext
  <2> QED
    BY <1>1, <2>1 DEF AppOpens, Opening, OpensNext, connect_msg
<1>7. ReadersCurrent'
  BY <1>1 DEF ReadersCurrent
<1>8. ASSUME NEW i \in DOMAIN toDevice', toDevice'[i].to \in {Receiver, app}
      PROVE  \/ toDevice'[i].to \in opened
             \/ \E j \in 1 .. i : toDevice'[j] = connect_msg(toDevice'[i].to)
  <2>1. CASE i \in DOMAIN toDevice /\ toDevice'[i] = toDevice[i]
    <3> DEFINE t == toDevice[i].to
    <3>1. Before(t, i) /\ t \in 0 .. MaxApps
      BY <1>1, <1>2, <1>8, <2>1 DEF UsedAfterConnect, Before
    <3> HIDE DEF t
    <3>2. t \in opened' \/ \E j \in 1 .. i : toDevice'[j] = connect_msg(t)
      BY <1>4, <2>1, <3>1, BeforeStays
    <3> QED
      BY <1>1, <2>1, <3>2 DEF t
  <2>2. i \in 1 .. i
    BY <1>2
  <2>3. CASE toDevice'[i] = connect_msg(Receiver)
    BY <1>3, <2>2, <2>3
  <2>4. CASE toDevice'[i] = connect_msg(transport)
    BY <1>3, <2>2, <2>4
  <2> QED
    BY <2>1, <2>3, <2>4, RecSent
<1>9. UsedAfterConnect'
  BY <1>1, <1>8 DEF UsedAfterConnect, connect_msg, Receiver
<1> QED
  BY <1>5, <1>6, <1>7, <1>9

\* The other steps leave the device alone, or end the connection.
LEMMA OpenInvStill ==
  ASSUME OpenInv, UsedAfterConnect, races \subseteq races', transport' = transport,
         app' = app,
         \/ link' = link /\ toDevice' = toDevice /\ opened' = opened
         \/ link' = "swapped" /\ toDevice' = toDevice /\ opened' = opened
         \/ link' = "down" /\ DOMAIN toDevice' = {},
         \A c \in Calls :
            \/ pc'[c] = pc[c] /\ loc'[c] = loc[c]
            \/ pc'[c] \notin {"readS", "readM", "send"}
  PROVE  OpenInv' /\ UsedAfterConnect'
<1>1. ASSUME InTime' PROVE ReceiverOpens' /\ AppOpens' /\ ReadersCurrent'
  <2>1. ReceiverOpens /\ AppOpens /\ ReadersCurrent
    BY <1>1 DEF OpenInv, InTime
  <2>2. ReceiverOpens'
    BY <2>1 DEF ReceiverOpens, Opening, Receiver, connect_msg
  <2>3. AppOpens'
    BY <2>1 DEF AppOpens, Opening, connect_msg
  <2>4. ReadersCurrent'
    BY <2>1 DEF ReadersCurrent
  <2> QED
    BY <2>2, <2>3, <2>4
<1>2. UsedAfterConnect'
  BY DEF UsedAfterConnect, Receiver, connect_msg
<1> QED
  BY <1>1, <1>2 DEF OpenInv

LEMMA OpenInvStep ==
  ASSUME TInv, AppsBound, OpenInv, UsedAfterConnect, [Next]_vars
  PROVE  OpenInv' /\ UsedAfterConnect'
<1>0. ~InTime' => OpenInv' /\ UsedAfterConnect'
  BY DEF InTime, OpenInv, UsedAfterConnect
<1>1. CASE \E c \in Calls : CallStep(c)
  BY <1>0, <1>1, CallStepDoes, OpenInvCall, UsedCall DEF OpenInv
<1>2. CASE DeviceStep
  BY <1>0, <1>2, DeviceStepDoes, OpenInvDevice DEF OpenInv
<1>3. CASE Route
  BY <1>3, RouteDoes, OpenInvStill DEF RouteFacts, DeviceStill, LinkStill
<1>4. CASE RouteReceiverStatus \/ RouteMediaStatus
  BY <1>4, TellDoes, OpenInvStill DEF TellFacts, DeviceStill, LinkStill, CallersStill
<1>5. CASE NextEvent
  BY <1>5, NextEventDoes, OpenInvStill DEF DeviceStill, LinkStill, CallersStill
<1>6. CASE LinkFails
  <2>1. /\ link' = "down" /\ toDevice' = <<>> /\ races \subseteq races'
        /\ transport' = transport /\ app' = app /\ pc' = pc /\ loc' = loc
    BY <1>6, LinkFailsDoes DEF DeviceStill, CallersStill
  <2>2. DOMAIN toDevice' = {}
    BY <2>1
  <2> QED
    BY <2>1, <2>2, OpenInvStill
<1>7. CASE RecSwaps
  BY <1>7, RecSwapsDoes, OpenInvStill DEF DeviceStill
<1>8. CASE RecHello \/ RecReopens
  BY <1>0, <1>8, RecDoes, OpenInvRec DEF OpenInv
<1>9. CASE UNCHANGED vars
  BY <1>9, OpenInvStill DEF vars, ids, conn, calls, net, device
<1> QED
  BY <1>1, <1>2, <1>3, <1>4, <1>5, <1>6, <1>7, <1>8, <1>9 DEF Next

\* Who holds a live transport and which destinations are opened, for any number of
\* callers, launches and reconnects
THEOREM OpenInvariance == Spec => [](TInv /\ AppsBound /\ OpenInv /\ UsedAfterConnect)
<1>1. Init => AppsBound /\ OpenInv /\ UsedAfterConnect
  <2> SUFFICES ASSUME Init PROVE AppsBound /\ OpenInv /\ UsedAfterConnect
    OBVIOUS
  <2>0. /\ DOMAIN toClient = {} /\ DOMAIN events = {} /\ routing.app = 0 /\ link = "up"
        /\ \A c \in Calls : pc[c] = "idle" /\ loc[c].t = 0 /\ loc[c].reply.app = 0
        /\ apps \in Nat /\ app = apps
    BY BlankIs, InitIs DEF Init
  <2>1. CASE /\ transport = 0 /\ toDevice = <<connect_msg(Receiver)>>
    <3>1. /\ DOMAIN toDevice = {1} /\ toDevice[1] = connect_msg(Receiver)
          /\ connect_msg(Receiver).to = 0
      BY <2>1, ConnectIs DEF Receiver
    <3>2. AppsBound
      BY <2>0, <2>1, <3>1 DEF AppsBound
    <3>3. OpenInv
      BY <2>0, <2>1, <3>1 DEF OpenInv, ReceiverOpens, AppOpens, ReadersCurrent, Opening
    <3>4. UsedAfterConnect
      BY <3>1 DEF UsedAfterConnect, Receiver
    <3> QED
      BY <3>2, <3>3, <3>4
  <2>2. CASE transport = 1 /\ app = 1 /\ toDevice = <<>> /\ opened = {Receiver, 1}
    <3>1. DOMAIN toDevice = {}
      BY <2>2
    <3>2. AppsBound
      BY <2>0, <2>2, <3>1 DEF AppsBound
    <3>3. OpenInv
      BY <2>0, <2>2, <3>1 DEF OpenInv, ReceiverOpens, AppOpens, ReadersCurrent, Opening
    <3>4. UsedAfterConnect
      BY <3>1 DEF UsedAfterConnect
    <3> QED
      BY <3>2, <3>3, <3>4
  <2> QED
    BY <2>1, <2>2, InitIs
<1>2. TInv /\ AppsBound /\ OpenInv /\ UsedAfterConnect /\ [Next]_vars
        => (AppsBound /\ OpenInv /\ UsedAfterConnect)'
  BY AppsBoundStep, OpenInvStep
<1> QED
  BY <1>1, <1>2, TInvariance, PTL DEF Spec

\* Nothing reaches the receiver or the running application before a CONNECT on the
\* same connection, except through the two windows the property names.
THEOREM ConnectsFirst == Spec => []UsedAfterConnect
  BY OpenInvariance, PTL

-----------------------------------------------------------------------------
(* The watches.  What the device last said about its application, or its   *)
(* media session, is the last such status under way, or the one being      *)
(* routed, or what the client already holds, and it is the device's state. *)

\* v is the latest news of kind k: in queue q, else in r, else it is w.
Latest(q, r, w, k, v) ==
    /\ \A i \in DOMAIN q :
          IsNews(q[i], k) /\ (\A j \in DOMAIN q : j > i => ~IsNews(q[j], k))
            => Value(q[i], k) = v
    /\ (\A i \in DOMAIN q : ~IsNews(q[i], k)) =>
          IF IsNews(r, k) THEN Value(r, k) = v ELSE w = v

\* The device says more: either it is no news, or the news is the new value.
LEMMA LatestSaid ==
  ASSUME NEW q \in Seq(ToClient), NEW p \in Seq(ToClient), NEW r, NEW w, NEW k, NEW v, NEW u,
         \A i \in DOMAIN q : i \in DOMAIN p /\ p[i] = q[i],
         \A i \in DOMAIN p : i \notin DOMAIN q /\ IsNews(p[i], k) => Value(p[i], k) = u,
         \/ Latest(q, r, w, k, v) /\ u = v
         \/ \E i \in DOMAIN p : i \notin DOMAIN q /\ IsNews(p[i], k)
  PROVE  Latest(p, r, w, k, u)
<1>1. \A i \in DOMAIN q, j \in DOMAIN p : j \notin DOMAIN q => j > i
  BY LenProperties
<1>2. ASSUME NEW i \in DOMAIN p, IsNews(p[i], k),
             \A j \in DOMAIN p : j > i => ~IsNews(p[j], k)
      PROVE  Value(p[i], k) = u
  <2>1. CASE i \notin DOMAIN q
    BY <1>2, <2>1
  <2>2. CASE i \in DOMAIN q
    <3>1. \A j \in DOMAIN p : j \notin DOMAIN q => ~IsNews(p[j], k)
      BY <1>1, <1>2, <2>2
    <3>2. Latest(q, r, w, k, v) /\ u = v
      BY <3>1
    <3>3. IsNews(q[i], k) /\ \A j \in DOMAIN q : j > i => ~IsNews(q[j], k)
      BY <1>2, <2>2
    <3> QED
      BY <2>2, <3>2, <3>3 DEF Latest
  <2> QED
    BY <2>1, <2>2
<1>3. ASSUME \A i \in DOMAIN p : ~IsNews(p[i], k)
      PROVE  IF IsNews(r, k) THEN Value(r, k) = u ELSE w = u
  <2>1. Latest(q, r, w, k, v) /\ u = v
    BY <1>3
  <2>2. \A i \in DOMAIN q : ~IsNews(q[i], k)
    BY <1>3
  <2> QED
    BY <2>1, <2>2 DEF Latest
<1> QED
  BY <1>2, <1>3 DEF Latest

\* The client forgets a caller: only request ids change.
LEMMA LatestForget ==
  ASSUME NEW q \in Seq(ToClient), NEW c \in Calls, NEW r, NEW w, NEW k, NEW v,
         Latest(q, r, w, k, v)
  PROVE  Latest(Forget(c, q), r, w, k, v)
<1> DEFINE p == Forget(c, q)
<1>1. /\ DOMAIN p = DOMAIN q
      /\ \A i \in DOMAIN q : p[i].type = q[i].type /\ p[i].app = q[i].app /\ p[i].m = q[i].m
  BY ForgottenToClient
<1> HIDE DEF p
<1>2. \A i \in DOMAIN q :
          (IsNews(p[i], k) <=> IsNews(q[i], k)) /\ Value(p[i], k) = Value(q[i], k)
  BY <1>1 DEF IsNews, Value
<1>3. Latest(p, r, w, k, v)
  BY <1>1, <1>2 DEF Latest
<1> QED
  BY <1>3 DEF p

\* The router takes the first message.
LEMMA LatestRoute ==
  ASSUME TInv, RouteFacts, NEW w, NEW k \in {"receiver", "media"}, NEW v,
         Latest(toClient, routing, w, k, v)
  PROVE  Latest(toClient', routing', w, k, v)
<1> DEFINE q == toClient
           p == toClient'
           h == Head(toClient)
<1>1. /\ \A i \in DOMAIN p :
            /\ i + 1 \in DOMAIN q /\ p[i].type = q[i + 1].type
            /\ p[i].app = q[i + 1].app /\ p[i].m = q[i + 1].m
      /\ \A i \in DOMAIN q : i # 1 => i - 1 \in DOMAIN p
      /\ h = q[1] /\ 1 \in DOMAIN q
      /\ routing' = IF h.type \in {"RECEIVER_STATUS", "MEDIA_STATUS"} THEN h ELSE Nobody
      /\ routing = Nobody
  BY DEF RouteFacts
<1>2. /\ q \in Seq(ToClient) /\ p \in Seq(ToClient)
      /\ \A i \in DOMAIN q : i \in Nat /\ i > 0
      /\ \A i \in DOMAIN p : i \in Nat /\ i > 0
  <2>1. q \in Seq(ToClient)
    BY RestVars
  <2>2. p \in Seq(ToClient)
    BY DEF RouteFacts
  <2> HIDE DEF p, q
  <2> QED
    BY <2>1, <2>2, LenProperties
<1>3. ~IsNews(Nobody, k)
  BY BlankIs DEF IsNews
<1>4. /\ IsNews(routing', k) <=> IsNews(h, k)
      /\ IsNews(h, k) => Value(routing', k) = Value(h, k)
  BY <1>1, <1>3 DEF IsNews, Value
<1> HIDE DEF q, p, h
<1>5. \A i \in DOMAIN p :
          (IsNews(p[i], k) <=> IsNews(q[i + 1], k)) /\ Value(p[i], k) = Value(q[i + 1], k)
  BY <1>1 DEF IsNews, Value
<1>6. \A j \in DOMAIN q : j # 1 => (IsNews(q[j], k) <=> IsNews(p[j - 1], k))
  <2> TAKE j \in DOMAIN q
  <2>1. j # 1 => j - 1 \in DOMAIN p /\ (j - 1) + 1 = j
    BY <1>1, <1>2
  <2> QED
    BY <1>5, <2>1
<1>7. Latest(q, Nobody, w, k, v)
  BY <1>1 DEF q
<1>8. ASSUME NEW i \in DOMAIN p, IsNews(p[i], k),
             \A j \in DOMAIN p : j > i => ~IsNews(p[j], k)
      PROVE  Value(p[i], k) = v
  <2>1. i + 1 \in DOMAIN q /\ IsNews(q[i + 1], k)
    BY <1>1, <1>5, <1>8
  <2>2. ASSUME NEW j \in DOMAIN q, j > i + 1 PROVE ~IsNews(q[j], k)
    <3>1. j # 1 /\ j - 1 > i /\ j - 1 \in DOMAIN p
      BY <1>1, <1>2, <2>2
    <3> QED
      BY <1>6, <1>8, <3>1
  <2>3. Value(q[i + 1], k) = v
    BY <1>7, <2>1, <2>2 DEF Latest
  <2> QED
    BY <1>5, <2>3
<1>9. ASSUME \A i \in DOMAIN p : ~IsNews(p[i], k)
      PROVE  IF IsNews(routing', k) THEN Value(routing', k) = v ELSE w = v
  <2>1. \A j \in DOMAIN q : j # 1 => ~IsNews(q[j], k)
    BY <1>1, <1>6, <1>9
  <2>2. CASE IsNews(h, k)
    <3>1. \A j \in DOMAIN q : j > 1 => ~IsNews(q[j], k)
      BY <1>2, <2>1
    <3>2. Value(q[1], k) = v
      BY <1>1, <1>7, <2>2, <3>1 DEF Latest
    <3> QED
      BY <1>1, <1>4, <2>2, <3>2
  <2>3. CASE ~IsNews(h, k)
    <3>1. \A j \in DOMAIN q : ~IsNews(q[j], k)
      BY <1>1, <2>1, <2>3
    <3>2. w = v
      BY <1>3, <1>7, <3>1 DEF Latest
    <3> QED
      BY <1>4, <2>3, <3>2
  <2> QED
    BY <2>2, <2>3
<1>10. Latest(p, routing', w, k, v)
  BY <1>8, <1>9 DEF Latest
<1> QED
  BY <1>10 DEF p

\* The router has told a status.
LEMMA LatestTold ==
  ASSUME NEW q, NEW r, NEW w, NEW k \in {"receiver", "media"}, NEW v, NEW x,
         Latest(q, r, w, k, v), x = IF IsNews(r, k) THEN Value(r, k) ELSE w
  PROVE  Latest(q, Nobody, x, k, v)
<1>1. ~IsNews(Nobody, k)
  BY BlankIs DEF IsNews
<1> QED
  BY <1>1 DEF Latest

WatchInv ==
    /\ "receiver" \notin missed => Latest(toClient, routing, receiverWatch, "receiver", app)
    /\ "media" \notin missed => Latest(toClient, routing, mediaWatch, "media", medias)

\* What a step of the device means for the news, of either kind
LEMMA DeviceNews ==
  ASSUME TInv, DeviceFacts, NEW r, NEW w
  PROVE  /\ Fresh("receiver") \/ (app' = app /\ Latest(toClient, r, w, "receiver", app))
              => Latest(toClient', r, w, "receiver", app')
         /\ Fresh("media") \/ (medias' = medias /\ Latest(toClient, r, w, "media", medias))
              => Latest(toClient', r, w, "media", medias')
<1>1. /\ toClient \in Seq(ToClient) /\ toClient' \in Seq(ToClient)
      /\ \A i \in DOMAIN toClient : i \in DOMAIN toClient' /\ toClient'[i] = toClient[i]
      /\ \A i \in DOMAIN toClient' : i \in DOMAIN toClient \/ New(toClient'[i])
  BY RestVars DEF DeviceFacts, DeviceTypes, DeviceSays
<1>2. \A i \in DOMAIN toClient' :
          i \notin DOMAIN toClient /\ IsNews(toClient'[i], "receiver")
            => Value(toClient'[i], "receiver") = app'
  BY <1>1 DEF New, IsNews, Value
<1>3. \A i \in DOMAIN toClient' :
          i \notin DOMAIN toClient /\ IsNews(toClient'[i], "media")
            => Value(toClient'[i], "media") = medias'
  BY <1>1 DEF New, IsNews, Value
<1>4. ASSUME Fresh("receiver") \/ (app' = app /\ Latest(toClient, r, w, "receiver", app))
      PROVE  Latest(toClient', r, w, "receiver", app')
  BY <1>1, <1>2, <1>4, LatestSaid DEF Fresh
<1>5. ASSUME Fresh("media") \/ (medias' = medias /\ Latest(toClient, r, w, "media", medias))
      PROVE  Latest(toClient', r, w, "media", medias')
  BY <1>1, <1>3, <1>5, LatestSaid DEF Fresh
<1> QED
  BY <1>4, <1>5

\* The news that were under way are lost with the connection: there were none.
LEMMA LatestLost ==
  ASSUME NEW q, NEW r, NEW w, NEW k, NEW v, Latest(q, r, w, k, v),
         \A i \in DOMAIN q : ~IsNews(q[i], k)
  PROVE  Latest(<<>>, r, w, k, v)
<1>1. DOMAIN <<>> = {}
  OBVIOUS
<1> QED
  BY <1>1 DEF Latest

LEMMA WatchInvStep == ASSUME TInv, WatchInv, [Next]_vars PROVE WatchInv'
<1> DEFINE R == Latest(toClient', routing', receiverWatch', "receiver", app')
           M == Latest(toClient', routing', mediaWatch', "media", medias')
<1> SUFFICES ("receiver" \notin missed' => R) /\ ("media" \notin missed' => M)
  BY DEF WatchInv, Latest, IsNews, Value
<1>0. /\ "receiver" \notin missed => Latest(toClient, routing, receiverWatch, "receiver", app)
      /\ "media" \notin missed => Latest(toClient, routing, mediaWatch, "media", medias)
  BY DEF WatchInv
<1>1. ASSUME NEW c \in Calls, CallStep(c)
      PROVE  ("receiver" \notin missed' => R) /\ ("media" \notin missed' => M)
  <2>1. CallFacts(c)
    BY <1>1, CallStepDoes
  <2>2. /\ toClient' = toClient \/ toClient' = Forget(c, toClient)
        /\ routing' = routing /\ receiverWatch' = receiverWatch /\ mediaWatch' = mediaWatch
        /\ app' = app /\ medias' = medias /\ missed \subseteq missed'
    BY <2>1 DEF CallFacts, CallFrame, CallTypes, CallQueues
  <2>3. "receiver" \notin missed' => R
    BY <1>0, <2>2, RestVars, LatestForget
  <2>4. "media" \notin missed' => M
    BY <1>0, <2>2, RestVars, LatestForget
  <2> QED
    BY <2>3, <2>4
<1>2. CASE DeviceStep
  <2>1. DeviceFacts
    BY <1>2, DeviceStepDoes
  <2>2. /\ routing' = routing /\ receiverWatch' = receiverWatch /\ mediaWatch' = mediaWatch
        /\ "receiver" \notin missed' =>
             Fresh("receiver") \/ ("receiver" \notin missed /\ app' = app)
        /\ "media" \notin missed' => Fresh("media") \/ ("media" \notin missed /\ medias' = medias)
    BY <2>1 DEF DeviceFacts, DeviceFrame, DeviceSays
  <2>3. "receiver" \notin missed' => R
    BY <1>0, <2>1, <2>2, DeviceNews
  <2>4. "media" \notin missed' => M
    BY <1>0, <2>1, <2>2, DeviceNews
  <2> QED
    BY <2>3, <2>4
<1>3. CASE Route
  <2>1. RouteFacts
    BY <1>3, RouteDoes
  <2>2. /\ receiverWatch' = receiverWatch /\ mediaWatch' = mediaWatch
        /\ app' = app /\ medias' = medias /\ missed' = missed
    BY <2>1 DEF RouteFacts, DeviceStill, LinkStill
  <2> QED
    BY <1>0, <2>1, <2>2, LatestRoute
<1>4. CASE RouteReceiverStatus \/ RouteMediaStatus
  <2>1. TellFacts
    BY <1>4, TellDoes
  <2>2. /\ receiverWatch' = IF IsNews(routing, "receiver") THEN Value(routing, "receiver")
                                                           ELSE receiverWatch
        /\ mediaWatch' = IF IsNews(routing, "media") THEN Value(routing, "media")
                                                     ELSE mediaWatch
        /\ routing' = Nobody /\ toClient' = toClient /\ app' = app /\ medias' = medias
        /\ missed' = missed
    BY <2>1 DEF TellFacts, DeviceStill, LinkStill, IsNews, Value
  <2> QED
    BY <1>0, <2>2, LatestTold
<1>5. CASE LinkFails
  <2>1. /\ toClient' = <<>> /\ routing' = routing /\ receiverWatch' = receiverWatch
        /\ mediaWatch' = mediaWatch /\ app' = app /\ medias' = medias
        /\ missed \subseteq missed'
        /\ \A k \in Kinds : k \notin missed' => \A i \in DOMAIN toClient : ~IsNews(toClient[i], k)
    BY <1>5, LinkFailsDoes DEF DeviceStill, ReaderStill
  <2>2. "receiver" \in Kinds /\ "media" \in Kinds
    BY DEF Kinds
  <2> QED
    BY <1>0, <2>1, <2>2, LatestLost
<1>6. ASSUME /\ toClient' = toClient /\ routing' = routing /\ receiverWatch' = receiverWatch
             /\ mediaWatch' = mediaWatch /\ app' = app /\ medias' = medias /\ missed' = missed
      PROVE  ("receiver" \notin missed' => R) /\ ("media" \notin missed' => M)
  BY <1>0, <1>6
<1>7. CASE NextEvent
  BY <1>6, <1>7, NextEventDoes DEF DeviceStill, ReaderStill, LinkStill
<1>8. CASE RecSwaps
  BY <1>6, <1>8, RecSwapsDoes DEF DeviceStill, ReaderStill
<1>9. CASE RecHello \/ RecReopens
  BY <1>6, <1>9, RecDoes DEF RecFacts, DeviceStill, ReaderStill
<1>10. CASE UNCHANGED vars
  BY <1>6, <1>10 DEF vars, views, net, device
<1> QED
  BY <1>1, <1>2, <1>3, <1>4, <1>5, <1>7, <1>8, <1>9, <1>10 DEF Next

\* What is under way, being routed and told ends at the device's state, unless a
\* status was missed and none of its kind has been said since.
THEOREM WatchInvariance == Spec => [](TInv /\ WatchInv)
<1>1. Init => WatchInv
  <2> SUFFICES ASSUME Init PROVE WatchInv
    OBVIOUS
  <2>1. DOMAIN toClient = {} /\ ~IsNews(routing, "receiver") /\ ~IsNews(routing, "media")
    BY BlankIs DEF Init, IsNews
  <2> QED
    BY <2>1, InitIs DEF WatchInv, Latest
<1>2. TInv /\ WatchInv /\ [Next]_vars => WatchInv'
  BY WatchInvStep
<1> QED
  BY <1>1, <1>2, TInvariance, PTL DEF Spec

\* A quiet client's watches show the device's application and media session, however
\* many events were dropped and connections lost, once a status of the kind was heard.
THEOREM WatchesFollow == Spec => []WatchesCatchUp
<1>1. TInv /\ WatchInv => WatchesCatchUp
  <2> SUFFICES ASSUME TInv, WatchInv, Quiet
               PROVE  /\ "receiver" \notin missed => receiverWatch = app
                      /\ "media" \notin missed /\ media # 0 => mediaWatch = media
    BY DEF WatchesCatchUp
  <2>1. /\ DOMAIN toClient = {} /\ ~IsNews(routing, "receiver") /\ ~IsNews(routing, "media")
        /\ media \in {0, medias}
    BY BlankIs, DeviceVars DEF Quiet, IsNews
  <2> QED
    BY <2>1 DEF WatchInv, Latest
<1> QED
  BY <1>1, WatchInvariance, PTL

-----------------------------------------------------------------------------
(* Requests and answers.  A request under way, or its answer, belongs to a *)
(* caller that waits for it, and there is one of them.                     *)

Waiting(c) == pc[c] = "wait"
RequestsOwned ==
    \A i \in DOMAIN toDevice : toDevice[i].req \in Calls =>
        /\ Waiting(toDevice[i].req)
        /\ toDevice[i] = RequestOf(toDevice[i].req, loc[toDevice[i].req])
AnswersOwned == \A i \in DOMAIN toClient : toClient[i].req \in Calls => Waiting(toClient[i].req)
OneRequest ==
    \A i, j \in DOMAIN toDevice :
        toDevice[i].req \in Calls /\ toDevice[i].req = toDevice[j].req => i = j
NotBoth ==
    \A i \in DOMAIN toDevice, j \in DOMAIN toClient :
        toDevice[i].req \in Calls => toDevice[i].req # toClient[j].req
DownIsEmpty == link = "down" => toDevice = <<>> /\ toClient = <<>> /\ opened = {}

OwnInv == RequestsOwned /\ AnswersOwned /\ OneRequest /\ NotBoth /\ DownIsEmpty

\* What is in the queue to the client after a step of a caller
LEMMA CallHears ==
  ASSUME TInv, NEW c \in Calls, CallFacts(c), NEW i \in DOMAIN toClient'
  PROVE  /\ i \in DOMAIN toClient /\ toClient'[i].type = toClient[i].type
         /\ toClient'[i].m = toClient[i].m /\ toClient'[i].idle = toClient[i].idle
         /\ toClient'[i].req \in Calls => toClient'[i].req = toClient[i].req
         /\ pc[c] = "wait" => toClient'[i].req # c
<1>1. CASE pc[c] # "wait" /\ toClient' = toClient
  BY <1>1
<1>2. CASE toClient' = Forget(c, toClient)
  BY <1>2, RestVars, ForgottenToClient
<1> QED
  BY <1>1, <1>2 DEF CallFacts, CallQueues

\* ... and to the device
LEMMA CallAsks ==
  ASSUME TInv, NEW c \in Calls, CallFacts(c), NEW i \in DOMAIN toDevice',
         toDevice'[i].req \in Calls
  PROVE  \/ /\ i \in DOMAIN toDevice /\ toDevice'[i] = toDevice[i]
            /\ pc[c] = "wait" => toDevice'[i].req # c
         \/ /\ i = Len(toDevice) + 1 /\ i \notin DOMAIN toDevice
            /\ toDevice'[i].req = c /\ toDevice'[i] = RequestOf(c, loc'[c])
            /\ pc'[c] = "wait" /\ pc[c] # "wait"
<1>1. loc'[c] \in Local /\ loc'[c].t \in 0 .. MaxApps
  BY DEF CallFacts, CallTypes, Local
<1>2. CASE Kept(i)
  <2>1. i \in DOMAIN toDevice /\ toDevice'[i] = toDevice[i]
    BY <1>2 DEF Kept
  <2>2. pc[c] = "wait" => toDevice'[i].req # c
    <3>1. pc[c] = "wait" => toDevice' = Forget(c, toDevice)
      BY DEF CallFacts, CallQueues
    <3> QED
      BY <2>1, <3>1, RestVars, ForgottenToDevice
  <2> QED
    BY <2>1, <2>2
<1>3. CASE toDevice'[i] = connect_msg(loc'[c].t)
  BY <1>1, <1>3, ConnectIs
<1>4. CASE /\ i = Len(toDevice) + 1 /\ pc'[c] = "wait" /\ pc[c] # "wait"
           /\ toDevice'[i] = RequestOf(c, loc'[c]) /\ loc'[c].op # "none"
  <2>1. i \notin DOMAIN toDevice
    BY <1>4, RestVars, LenProperties
  <2> QED
    BY <1>1, <1>4, <2>1, RequestIs
<1> QED
  BY <1>2, <1>3, <1>4, CallSent

LEMMA OwnInvCall == ASSUME TInv, OwnInv, NEW c \in Calls, CallFacts(c) PROVE OwnInv'
<1>1. /\ RequestsOwned /\ AnswersOwned /\ OneRequest /\ NotBoth /\ DownIsEmpty
      /\ link' = link /\ opened' = opened
      /\ \A d \in Calls : d # c => pc'[d] = pc[d] /\ loc'[d] = loc[d]
  BY DEF OwnInv, CallFacts, CallFrame
<1>2. RequestsOwned'
  <2> SUFFICES ASSUME NEW i \in DOMAIN toDevice', toDevice'[i].req \in Calls
               PROVE  /\ pc'[toDevice'[i].req] = "wait"
                      /\ toDevice'[i] = RequestOf(toDevice'[i].req, loc'[toDevice'[i].req])
    BY DEF RequestsOwned, Waiting, RequestOf, launch_app, stop_app, load, queue_load, stop,
           get_status, send_raw, control, set_volume, Controls, Plain, Receiver
  <2>1. CASE /\ i \in DOMAIN toDevice /\ toDevice'[i] = toDevice[i]
             /\ pc[c] = "wait" => toDevice'[i].req # c
    BY <1>1, <2>1 DEF RequestsOwned, Waiting
  <2>2. CASE /\ toDevice'[i].req = c /\ toDevice'[i] = RequestOf(c, loc'[c])
             /\ pc'[c] = "wait"
    BY <2>2
  <2> QED
    BY <2>1, <2>2, CallAsks
<1>3. AnswersOwned'
  <2> SUFFICES ASSUME NEW i \in DOMAIN toClient', toClient'[i].req \in Calls
               PROVE  pc'[toClient'[i].req] = "wait"
    BY DEF AnswersOwned, Waiting
  <2>1. /\ i \in DOMAIN toClient /\ toClient'[i].req = toClient[i].req
        /\ pc[c] = "wait" => toClient'[i].req # c
    BY CallHears
  <2> QED
    BY <1>1, <2>1 DEF AnswersOwned, Waiting
<1>4. OneRequest'
  <2> SUFFICES ASSUME NEW i \in DOMAIN toDevice', NEW j \in DOMAIN toDevice',
                      toDevice'[i].req \in Calls, toDevice'[i].req = toDevice'[j].req
               PROVE  i = j
    BY DEF OneRequest
  <2>1. ASSUME NEW x \in DOMAIN toDevice, toDevice[x].req = c PROVE pc[c] = "wait"
    BY <1>1, <2>1 DEF RequestsOwned, Waiting
  <2>2. CASE i \in DOMAIN toDevice /\ toDevice'[i] = toDevice[i]
    <3>1. j \in DOMAIN toDevice /\ toDevice'[j] = toDevice[j]
      BY <2>1, <2>2, CallAsks
    <3> QED
      BY <1>1, <2>2, <3>1 DEF OneRequest
  <2>3. CASE i = Len(toDevice) + 1 /\ toDevice'[i].req = c /\ pc[c] # "wait"
    BY <2>1, <2>3, CallAsks
  <2> QED
    BY <2>2, <2>3, CallAsks
<1>5. NotBoth'
  <2> SUFFICES ASSUME NEW i \in DOMAIN toDevice', NEW j \in DOMAIN toClient',
                      toDevice'[i].req \in Calls, toDevice'[i].req = toClient'[j].req
               PROVE  FALSE
    BY DEF NotBoth
  <2>1. j \in DOMAIN toClient /\ toClient'[j].req = toClient[j].req
    BY CallHears
  <2>2. CASE i \in DOMAIN toDevice /\ toDevice'[i] = toDevice[i]
    BY <1>1, <2>1, <2>2 DEF NotBoth
  <2>3. CASE toDevice'[i].req = c /\ pc[c] # "wait"
    BY <1>1, <2>1, <2>3 DEF AnswersOwned, Waiting
  <2> QED
    BY <2>2, <2>3, CallAsks
<1>6. DownIsEmpty'
  <2> SUFFICES ASSUME link = "down"
               PROVE  toDevice' = <<>> /\ toClient' = <<>> /\ opened' = {}
    BY <1>1 DEF DownIsEmpty
  <2>1. toDevice = <<>> /\ toClient = <<>> /\ opened = {}
    BY <1>1 DEF DownIsEmpty
  <2>2. CASE toDevice' = toDevice /\ toClient' = toClient
    BY <1>1, <2>1, <2>2
  <2>3. CASE toDevice' = Forget(c, toDevice) /\ toClient' = Forget(c, toClient)
    <3>1. /\ toDevice' \in Seq(ToDevice) /\ toClient' \in Seq(ToClient)
          /\ Len(toDevice') = 0 /\ Len(toClient') = 0
      <4>1. Len(toDevice) = 0 /\ Len(toClient) = 0
        BY <2>1
      <4>2. toDevice' \in Seq(ToDevice) /\ Len(toDevice') = Len(toDevice)
        BY <2>3, RestVars, ForgottenToDevice
      <4>3. toClient' \in Seq(ToClient) /\ Len(toClient') = Len(toClient)
        BY <2>3, RestVars, ForgottenToClient
      <4> QED
        BY <4>1, <4>2, <4>3
    <3> QED
      BY <1>1, <2>1, <3>1, EmptySeq
  <2> QED
    BY <2>2, <2>3 DEF CallFacts, CallQueues
<1> QED
  BY <1>2, <1>3, <1>4, <1>5, <1>6 DEF OwnInv

LEMMA OwnInvDevice == ASSUME TInv, OwnInv, DeviceFacts PROVE OwnInv'
<1>1. /\ RequestsOwned /\ AnswersOwned /\ OneRequest /\ NotBoth /\ DownIsEmpty
      /\ link' = link /\ pc' = pc /\ loc' = loc
  BY DEF OwnInv, DeviceFacts, DeviceFrame
<1>2. RequestsOwned'
  <2> SUFFICES ASSUME NEW i \in DOMAIN toDevice', toDevice'[i].req \in Calls
               PROVE  /\ pc[toDevice'[i].req] = "wait"
                      /\ toDevice'[i] = RequestOf(toDevice'[i].req, loc[toDevice'[i].req])
    BY <1>1 DEF RequestsOwned, Waiting, RequestOf, launch_app, stop_app, load, queue_load,
           stop, get_status, send_raw, control, set_volume, Controls, Plain, Receiver
  <2> QED
    BY <1>1, DeviceLeaves DEF RequestsOwned, Waiting
\* An answer is to the request that was first.
<1>3. ASSUME NEW j \in DOMAIN toClient', toClient'[j].req \in Calls
      PROVE  \/ j \in DOMAIN toClient /\ toClient'[j] = toClient[j]
             \/ /\ toDevice # <<>> /\ toDevice' = Tail(toDevice)
                /\ toClient'[j].req = toDevice[1].req /\ 1 \in DOMAIN toDevice
  BY <1>3, RestVars, Dropped DEF DeviceFacts, DeviceSays, New
<1>4. AnswersOwned'
  BY <1>1, <1>3 DEF AnswersOwned, RequestsOwned, Waiting
<1>5. OneRequest'
  <2> SUFFICES ASSUME NEW i \in DOMAIN toDevice', NEW j \in DOMAIN toDevice',
                      toDevice'[i].req \in Calls, toDevice'[i].req = toDevice'[j].req
               PROVE  i = j
    BY DEF OneRequest
  <2>1. CASE toDevice' = toDevice
    BY <1>1, <2>1 DEF OneRequest
  <2>2. CASE toDevice # <<>> /\ toDevice' = Tail(toDevice)
    <3>1. /\ i + 1 \in DOMAIN toDevice /\ toDevice'[i] = toDevice[i + 1]
          /\ j + 1 \in DOMAIN toDevice /\ toDevice'[j] = toDevice[j + 1]
          /\ i \in Nat /\ j \in Nat
      <4>1. toDevice' \in Seq(ToDevice)
        BY DEF DeviceFacts, DeviceTypes
      <4>2. toDevice \in Seq(ToDevice)
        BY RestVars
      <4>3. \A n \in DOMAIN toDevice' : n + 1 \in DOMAIN toDevice /\ toDevice'[n] = toDevice[n + 1]
        BY <2>2, <4>2, Dropped
      <4>4. i \in Nat /\ j \in Nat
        BY <4>1, LenProperties
      <4> QED
        BY <4>3, <4>4
    <3>2. i + 1 = j + 1
      BY <1>1, <3>1 DEF OneRequest
    <3> QED
      BY <3>1, <3>2
  <2> QED
    BY <2>1, <2>2 DEF DeviceFacts, DeviceTypes
<1>6. NotBoth'
  <2> SUFFICES ASSUME NEW i \in DOMAIN toDevice', NEW j \in DOMAIN toClient',
                      toDevice'[i].req \in Calls, toDevice'[i].req = toClient'[j].req
               PROVE  FALSE
    BY DEF NotBoth
  <2>1. CASE j \in DOMAIN toClient /\ toClient'[j] = toClient[j]
    BY <1>1, <2>1, DeviceLeaves DEF NotBoth
  <2>2. CASE /\ toDevice # <<>> /\ toDevice' = Tail(toDevice)
             /\ toClient'[j].req = toDevice[1].req /\ 1 \in DOMAIN toDevice
    <3>1. i + 1 \in DOMAIN toDevice /\ toDevice'[i] = toDevice[i + 1] /\ i + 1 # 1
      <4>1. toDevice' \in Seq(ToDevice)
        BY DEF DeviceFacts, DeviceTypes
      <4> QED
        BY <2>2, <4>1, RestVars, Dropped
    <3> QED
      BY <1>1, <2>2, <3>1 DEF OneRequest
  <2> QED
    BY <1>3, <2>1, <2>2
<1>7. DownIsEmpty'
  <2> SUFFICES ASSUME link = "down"
               PROVE  toDevice' = <<>> /\ toClient' = <<>> /\ opened' = {}
    BY <1>1 DEF DownIsEmpty
  <2> QED
    BY <1>1 DEF DownIsEmpty, DeviceFacts, DeviceState, DeviceTypes
<1> QED
  BY <1>2, <1>4, <1>5, <1>6, <1>7 DEF OwnInv

LEMMA OwnInvRoute == ASSUME TInv, OwnInv, RouteFacts PROVE OwnInv'
<1> DEFINE h == Head(toClient)
<1>1. /\ RequestsOwned /\ AnswersOwned /\ OneRequest /\ NotBoth /\ DownIsEmpty
      /\ toDevice' = toDevice /\ link' = link /\ toClient # <<>>
      /\ h = toClient[1] /\ 1 \in DOMAIN toClient
  BY DEF OwnInv, RouteFacts, LinkStill
<1>2. /\ \A i \in DOMAIN toClient' : toClient'[i].req \in Calls =>
            /\ i + 1 \in DOMAIN toClient /\ toClient'[i].req = toClient[i + 1].req
            /\ toClient'[i].req # h.req
      /\ \A c \in Calls : c # h.req => pc'[c] = pc[c] /\ loc'[c] = loc[c]
  BY DEF RouteFacts
<1> HIDE DEF h
<1>3. \A i \in DOMAIN toDevice : toDevice[i].req \in Calls => toDevice[i].req # h.req
  BY <1>1 DEF NotBoth
<1>4. RequestsOwned'
  <2> SUFFICES ASSUME NEW i \in DOMAIN toDevice, toDevice[i].req \in Calls
               PROVE  /\ pc'[toDevice[i].req] = "wait"
                      /\ toDevice[i] = RequestOf(toDevice[i].req, loc'[toDevice[i].req])
    BY <1>1 DEF RequestsOwned, Waiting, RequestOf, launch_app, stop_app, load, queue_load,
           stop, get_status, send_raw, control, set_volume, Controls, Plain, Receiver
  <2> QED
    BY <1>1, <1>2, <1>3 DEF RequestsOwned, Waiting
<1>5. AnswersOwned'
  BY <1>1, <1>2 DEF AnswersOwned, Waiting
<1>6. OneRequest' /\ DownIsEmpty'
  BY <1>1 DEF OneRequest, DownIsEmpty
<1>7. NotBoth'
  BY <1>1, <1>2 DEF NotBoth
<1> QED
  BY <1>4, <1>5, <1>6, <1>7 DEF OwnInv

\* The other steps add nothing with an id, or clear both queues.
LEMMA OwnInvStill ==
  ASSUME TInv, OwnInv, pc' = pc, loc' = loc,
         \/ toDevice' = <<>> /\ toClient' = <<>> /\ opened' = {}
         \/ /\ link' # "down" /\ toClient' = toClient
            /\ \A i \in DOMAIN toDevice' :
                  \/ i \in DOMAIN toDevice /\ toDevice'[i] = toDevice[i]
                  \/ toDevice'[i].req = NoCall
         \/ link' = link /\ toDevice' = toDevice /\ toClient' = toClient /\ opened' = opened
  PROVE  OwnInv'
<1>1. RequestsOwned /\ AnswersOwned /\ OneRequest /\ NotBoth /\ DownIsEmpty /\ NoCall \notin Calls
  BY DEF OwnInv
<1>2. \A i \in DOMAIN toDevice' : toDevice'[i].req \in Calls =>
          i \in DOMAIN toDevice /\ toDevice'[i] = toDevice[i]
  BY <1>1
<1>3. \A i \in DOMAIN toClient' : i \in DOMAIN toClient /\ toClient'[i] = toClient[i]
  OBVIOUS
<1>4. RequestsOwned'
  <2> SUFFICES ASSUME NEW i \in DOMAIN toDevice', toDevice'[i].req \in Calls
               PROVE  /\ pc[toDevice'[i].req] = "wait"
                      /\ toDevice'[i] = RequestOf(toDevice'[i].req, loc[toDevice'[i].req])
    BY DEF RequestsOwned, Waiting, RequestOf, launch_app, stop_app, load, queue_load,
           stop, get_status, send_raw, control, set_volume, Controls, Plain, Receiver
  <2> QED
    BY <1>1, <1>2 DEF RequestsOwned, Waiting
<1>5. AnswersOwned'
  BY <1>1, <1>3 DEF AnswersOwned, Waiting
<1>6. OneRequest'
  BY <1>1, <1>2 DEF OneRequest
<1>7. NotBoth'
  BY <1>1, <1>2, <1>3 DEF NotBoth
<1>8. DownIsEmpty'
  BY <1>1 DEF DownIsEmpty
<1> QED
  BY <1>4, <1>5, <1>6, <1>7, <1>8 DEF OwnInv

LEMMA OwnInvStep == ASSUME TInv, OwnInv, [Next]_vars PROVE OwnInv'
<1>1. CASE \E c \in Calls : CallStep(c)
  BY <1>1, CallStepDoes, OwnInvCall
<1>2. CASE DeviceStep
  BY <1>2, DeviceStepDoes, OwnInvDevice
<1>3. CASE Route
  BY <1>3, RouteDoes, OwnInvRoute
<1>4. CASE RouteReceiverStatus \/ RouteMediaStatus
  BY <1>4, TellDoes, OwnInvStill DEF TellFacts, CallersStill, LinkStill
<1>5. CASE NextEvent
  BY <1>5, NextEventDoes, OwnInvStill DEF CallersStill, LinkStill
<1>6. CASE LinkFails
  BY <1>6, LinkFailsDoes, OwnInvStill DEF CallersStill
<1>7. CASE RecSwaps
  <2>1. /\ toDevice' = <<>> /\ toClient' = <<>> /\ opened' = {}
    BY <1>7, RecSwapsDoes DEF OwnInv, DownIsEmpty
  <2>2. DOMAIN toDevice' = {} /\ DOMAIN toClient' = {}
    BY <2>1
  <2>3. RequestsOwned' /\ AnswersOwned' /\ OneRequest' /\ NotBoth'
    BY <2>2 DEF RequestsOwned, AnswersOwned, OneRequest, NotBoth
  <2> QED
    BY <2>1, <2>3 DEF OwnInv, DownIsEmpty
<1>8. CASE RecHello \/ RecReopens
  <2>1. RecFacts
    BY <1>8, RecDoes
  <2>2. connect_msg(Receiver).req = NoCall /\ connect_msg(transport).req = NoCall
    BY ConnectIs, RestVars DEF Receiver
  <2>3. /\ link' # "down" /\ toClient' = toClient /\ pc' = pc /\ loc' = loc
    BY <2>1 DEF RecFacts, CallersStill
  <2>4. \A i \in DOMAIN toDevice' :
            \/ i \in DOMAIN toDevice /\ toDevice'[i] = toDevice[i]
            \/ toDevice'[i].req = NoCall
    BY <2>1, <2>2, RecSent
  <2> QED
    BY <2>3, <2>4, OwnInvStill
<1>9. CASE UNCHANGED vars
  BY <1>9, OwnInvStill DEF vars, conn, calls, net, device
<1> QED
  BY <1>1, <1>2, <1>3, <1>4, <1>5, <1>6, <1>7, <1>8, <1>9 DEF Next

LEMMA OwnInvInit == Init => OwnInv
<1> SUFFICES ASSUME Init PROVE OwnInv
  OBVIOUS
<1>1. /\ \A i \in DOMAIN toDevice : toDevice[i].req = NoCall
      /\ DOMAIN toClient = {} /\ NoCall \notin Calls /\ link = "up"
  <2>1. CASE toDevice = <<connect_msg(Receiver)>>
    BY <2>1, ConnectIs DEF Init, Receiver
  <2>2. CASE toDevice = <<>>
    BY <2>2 DEF Init
  <2> QED
    BY <2>1, <2>2, InitIs
<1> QED
  BY <1>1 DEF OwnInv, RequestsOwned, AnswersOwned, OneRequest, NotBoth, DownIsEmpty

-----------------------------------------------------------------------------
(* The media session.  Sessions are numbered, so an answer that is not     *)
(* late carries the number the watch has or a later one; and the answer    *)
(* to a stop never carries the number of a session that still runs.        *)

MediaBound ==
    /\ routing.m <= medias
    /\ \A i \in DOMAIN toClient : toClient[i].m <= medias
    /\ \A c \in Calls : loc[c].reply.m <= medias

Stopped(o, m, n) == o = "stop_media" /\ ~check_device_error(m) => m.m # n
StopInv ==
    media # 0 =>
        /\ \A i \in DOMAIN toClient :
              toClient[i].req \in Calls => Stopped(loc[toClient[i].req].op, toClient[i], media)
        /\ \A c \in Calls : pc[c] = "reply" => Stopped(loc[c].op, loc[c].reply, media)

\* Without an id there may be a session the client has seen the end of.
Known == IF mediaId = 0 /\ media = 0 THEN medias ELSE mediaId
IdInv == "id" \notin missed => Latest(toClient, routing, Known, "media", medias)

LEMMA MediaNumbers ==
  ASSUME TInv
  PROVE  /\ medias \in Nat /\ media \in Nat /\ mediaId \in Nat /\ routing.m \in Nat
         /\ mediaWatch \in Nat /\ media \in {0, medias}
         /\ \A i \in DOMAIN toClient : toClient[i].m \in Nat
         /\ \A c \in Calls : loc[c].reply.m \in Nat
<1>1. \A m \in ToClient : m.m \in Nat
  BY DEF ToClient
<1>2. \A i \in DOMAIN toClient : toClient[i] \in ToClient
  BY RestVars
<1>3. ASSUME NEW c \in Calls PROVE loc[c].reply \in ToClient
  BY CallerTypes
<1>4. /\ medias \in Nat /\ media \in Nat /\ media \in {0, medias}
      /\ routing \in ToClient
  BY DeviceVars, RestVars
<1>5. mediaId \in Nat /\ mediaWatch \in Nat
  BY DEF TInv, TypeOK
<1> QED
  BY <1>1, <1>2, <1>3, <1>4, <1>5

LEMMA MediaBoundStep == ASSUME TInv, MediaBound, [Next]_vars PROVE MediaBound'
<1>0. Nobody.m = 0 /\ Blank.reply.m = 0
  BY BlankIs
<1>1. CASE \E c \in Calls : CallStep(c)
  <2>1. PICK c \in Calls : CallFacts(c)
    BY <1>1, CallStepDoes
  <2>2. /\ media' = media /\ medias' = medias /\ routing' = routing
        /\ \A d \in Calls : d # c => loc'[d] = loc[d]
        /\ loc'[c].reply \in {loc[c].reply, Nobody}
    BY <2>1 DEF CallFacts, CallFrame, CallLocals
  <2>3. \A i \in DOMAIN toClient' : toClient'[i].m <= medias
    BY <2>1, CallHears DEF MediaBound
  <2> QED
    BY <1>0, <2>2, <2>3, MediaNumbers DEF MediaBound
<1>2. CASE DeviceStep
  <2>1. DeviceFacts
    BY <1>2, DeviceStepDoes
  <2>2. loc' = loc /\ routing' = routing /\ medias <= medias' /\ medias' \in Nat
    BY <2>1, MediaNumbers DEF DeviceFacts, DeviceFrame, DeviceState, DeviceTypes, MediaBound
  <2>3. \A i \in DOMAIN toClient' : toClient'[i].m <= medias'
    <3> TAKE i \in DOMAIN toClient'
    <3>1. CASE i \in DOMAIN toClient /\ toClient'[i] = toClient[i]
      BY <2>2, <3>1, MediaNumbers DEF MediaBound
    <3>2. CASE New(toClient'[i])
      BY <3>2 DEF New
    <3> QED
      BY <2>1, <3>1, <3>2 DEF DeviceFacts, DeviceSays
  <2> QED
    BY <2>2, <2>3, MediaNumbers DEF MediaBound
<1>3. CASE Route
  <2>1. RouteFacts
    BY <1>3, RouteDoes
  <2>2. media' = media /\ medias' = medias /\ Head(toClient).m <= medias
    BY <2>1 DEF RouteFacts, DeviceStill, MediaBound
  <2>3. \A i \in DOMAIN toClient' : toClient'[i].m <= medias
    BY <2>1 DEF RouteFacts, MediaBound
  <2>4. routing'.m <= medias
    BY <1>0, <2>1, <2>2, MediaNumbers DEF RouteFacts
  <2>5. ASSUME NEW c \in Calls PROVE loc'[c].reply.m <= medias
    <3>1. [loc[c] EXCEPT !.reply = Head(toClient)].reply = Head(toClient)
      BY CallerTypes DEF Local
    <3> QED
      BY <2>1, <2>2, <3>1 DEF RouteFacts, MediaBound
  <2> QED
    BY <2>2, <2>3, <2>4, <2>5 DEF MediaBound
<1>4. ASSUME media' = media, medias' = medias, routing' \in {routing, Nobody},
             toClient' = toClient \/ DOMAIN toClient' = {},
             \A c \in Calls : loc'[c] = loc[c] \/ loc'[c] = Blank
      PROVE  MediaBound'
  <2>1. routing'.m <= medias
    BY <1>0, <1>4, MediaNumbers DEF MediaBound
  <2>2. \A c \in Calls : loc'[c].reply.m <= medias
    BY <1>0, <1>4, MediaNumbers DEF MediaBound
  <2> QED
    BY <1>4, <2>1, <2>2 DEF MediaBound
<1>5. CASE RouteReceiverStatus \/ RouteMediaStatus
  BY <1>4, <1>5, TellDoes DEF TellFacts, DeviceStill, CallersStill
<1>6. CASE NextEvent
  BY <1>4, <1>6, NextEventDoes DEF DeviceStill, CallersStill, ReaderStill
<1>7. CASE LinkFails
  BY <1>4, <1>7, LinkFailsDoes DEF DeviceStill, CallersStill, ReaderStill
<1>8. CASE RecSwaps
  BY <1>4, <1>8, RecSwapsDoes DEF DeviceStill, ReaderStill
<1>9. CASE RecHello \/ RecReopens
  BY <1>4, <1>9, RecDoes DEF RecFacts, DeviceStill, CallersStill, ReaderStill
<1>10. CASE UNCHANGED vars
  BY <1>4, <1>10 DEF vars, calls, net, device
<1> QED
  BY <1>1, <1>2, <1>3, <1>5, <1>6, <1>7, <1>8, <1>9, <1>10 DEF Next

LEMMA StopInvCall ==
  ASSUME TInv, OwnInv, StopInv, NEW c \in Calls, CallFacts(c)
  PROVE  StopInv'
<1>1. /\ media' = media /\ pc'[c] # "reply"
      /\ \A d \in Calls : d # c => pc'[d] = pc[d] /\ loc'[d] = loc[d]
  BY DEF CallFacts, CallFrame, CallQueues
<1> SUFFICES ASSUME media # 0
             PROVE  /\ \A i \in DOMAIN toClient' : toClient'[i].req \in Calls =>
                         Stopped(loc'[toClient'[i].req].op, toClient'[i], media')
                    /\ \A d \in Calls : pc'[d] = "reply" => Stopped(loc'[d].op, loc'[d].reply, media')
  BY <1>1 DEF StopInv, Stopped, check_device_error
<1>2. ASSUME NEW i \in DOMAIN toClient', toClient'[i].req \in Calls
      PROVE  Stopped(loc'[toClient'[i].req].op, toClient'[i], media')
  <2>1. /\ i \in DOMAIN toClient /\ toClient'[i].type = toClient[i].type
        /\ toClient'[i].m = toClient[i].m /\ toClient'[i].req = toClient[i].req
        /\ pc[c] = "wait" => toClient'[i].req # c
    BY <1>2, CallHears
  <2>2. toClient[i].req # c
    BY <1>2, <2>1 DEF OwnInv, AnswersOwned, Waiting
  <2>3. loc'[toClient[i].req] = loc[toClient[i].req]
    BY <1>1, <1>2, <2>1, <2>2
  <2>4. loc[toClient[i].req].op = "stop_media" /\ ~check_device_error(toClient[i])
          => toClient[i].m # media
    BY <1>2, <2>1 DEF StopInv, Stopped
  <2> QED
    BY <1>1, <2>1, <2>3, <2>4 DEF Stopped, check_device_error
<1>3. ASSUME NEW d \in Calls, pc'[d] = "reply" PROVE Stopped(loc'[d].op, loc'[d].reply, media')
  <2>1. pc[d] = "reply" /\ loc'[d] = loc[d]
    BY <1>1, <1>3
  <2>2. Stopped(loc[d].op, loc[d].reply, media)
    BY <2>1 DEF StopInv
  <2> QED
    BY <1>1, <2>1, <2>2 DEF Stopped, check_device_error
<1> QED
  BY <1>2, <1>3

LEMMA StopInvDevice ==
  ASSUME TInv, OwnInv, MediaBound, StopInv, DeviceFacts
  PROVE  StopInv'
<1>1. pc' = pc /\ loc' = loc
  BY DEF DeviceFacts, DeviceFrame
<1>2. media' \in {media, 0} \/ media' = medias + 1
  BY DEF DeviceFacts, DeviceState
<1> SUFFICES ASSUME media' # 0
             PROVE  /\ \A i \in DOMAIN toClient' : toClient'[i].req \in Calls =>
                         Stopped(loc'[toClient'[i].req].op, toClient'[i], media')
                    /\ \A d \in Calls : pc'[d] = "reply" => Stopped(loc'[d].op, loc'[d].reply, media')
  BY DEF StopInv, Stopped, check_device_error
<1>3. ASSUME NEW d \in Calls, pc[d] = "reply" PROVE Stopped(loc'[d].op, loc'[d].reply, media')
  <2>1. loc[d].op = "stop_media" /\ ~check_device_error(loc[d].reply) => loc[d].reply.m # media'
    BY <1>2, <1>3, MediaNumbers DEF StopInv, Stopped, MediaBound
  <2> QED
    BY <1>1, <2>1 DEF Stopped, check_device_error
<1>4. ASSUME NEW i \in DOMAIN toClient', toClient'[i].req \in Calls
      PROVE  Stopped(loc'[toClient'[i].req].op, toClient'[i], media')
  <2> DEFINE m == toClient'[i]
  <2>1. loc[m.req].op = "stop_media" /\ ~check_device_error(m) => m.m # media'
    <3>1. CASE i \in DOMAIN toClient
      <4>1. m = toClient[i]
        BY <3>1 DEF DeviceFacts, DeviceSays
      <4> QED
        BY <1>2, <1>4, <3>1, <4>1, MediaNumbers DEF StopInv, Stopped, MediaBound
    <3>2. CASE New(m)
      <4>1. /\ toDevice # <<>> /\ m.req = Head(toDevice).req
            /\ Head(toDevice).type = "MEDIA_STOP" /\ ~check_device_error(m) => m.m # media'
        BY <1>4, <3>2 DEF New
      <4>2. Head(toDevice) = toDevice[1] /\ 1 \in DOMAIN toDevice
        BY <4>1, RestVars, Dropped
      <4>3. pc[m.req] = "wait" /\ Head(toDevice) = RequestOf(m.req, loc[m.req])
        BY <1>4, <4>1, <4>2 DEF OwnInv, RequestsOwned, Waiting
      <4>4. loc[m.req] \in Local /\ loc[m.req].op # "none"
        BY <1>4, <4>3, CallerTypes DEF TInv, OpsFit
      <4>5. loc[m.req].op = "stop_media" => Head(toDevice).type = "MEDIA_STOP"
        BY <1>4, <4>3, <4>4, RequestIs
      <4> QED
        BY <4>1, <4>5
    <3> QED
      BY <3>1, <3>2 DEF DeviceFacts, DeviceSays
  <2> QED
    BY <1>1, <2>1 DEF Stopped, check_device_error
<1> QED
  BY <1>1, <1>3, <1>4

LEMMA StopInvRoute == ASSUME TInv, StopInv, RouteFacts PROVE StopInv'
<1> DEFINE h == Head(toClient)
<1>1. /\ media' = media /\ h = toClient[1] /\ 1 \in DOMAIN toClient
      /\ \A c \in Calls :
            \/ pc'[c] = pc[c] /\ loc'[c] = loc[c]
            \/ /\ c = h.req /\ loc'[c].op = loc[c].op /\ loc'[c].reply = h
  <2>1. ASSUME NEW c \in Calls, loc'[c] = [loc[c] EXCEPT !.reply = h]
        PROVE  loc'[c].op = loc[c].op /\ loc'[c].reply = h
    BY <2>1, CallerTypes DEF Local
  <2>2. \A c \in Calls :
            \/ pc'[c] = pc[c] /\ loc'[c] = loc[c]
            \/ c = h.req /\ loc'[c] = [loc[c] EXCEPT !.reply = h]
    BY DEF RouteFacts
  <2>3. media' = media /\ h = toClient[1] /\ 1 \in DOMAIN toClient
    BY DEF RouteFacts, DeviceStill
  <2> QED
    BY <2>1, <2>2, <2>3
<1> HIDE DEF h
<1> SUFFICES ASSUME media # 0
             PROVE  /\ \A i \in DOMAIN toClient' : toClient'[i].req \in Calls =>
                         Stopped(loc'[toClient'[i].req].op, toClient'[i], media')
                    /\ \A d \in Calls : pc'[d] = "reply" => Stopped(loc'[d].op, loc'[d].reply, media')
  BY <1>1 DEF StopInv, Stopped, check_device_error
<1>2. ASSUME NEW i \in DOMAIN toClient', toClient'[i].req \in Calls
      PROVE  Stopped(loc'[toClient'[i].req].op, toClient'[i], media')
  <2> DEFINE c == toClient'[i].req
  <2>1. /\ i + 1 \in DOMAIN toClient /\ toClient'[i].type = toClient[i + 1].type
        /\ toClient'[i].m = toClient[i + 1].m /\ c = toClient[i + 1].req /\ c # h.req
    BY <1>2 DEF RouteFacts, h
  <2>2. loc[c].op = "stop_media" /\ ~check_device_error(toClient[i + 1])
          => toClient[i + 1].m # media
    BY <1>2, <2>1 DEF StopInv, Stopped
  <2>3. loc'[c] = loc[c]
    BY <1>1, <1>2, <2>1
  <2> QED
    BY <1>1, <2>1, <2>2, <2>3 DEF Stopped, check_device_error
<1>3. ASSUME NEW d \in Calls, pc'[d] = "reply" PROVE Stopped(loc'[d].op, loc'[d].reply, media')
  <2>1. loc'[d].op = "stop_media" /\ ~check_device_error(loc'[d].reply)
          => loc'[d].reply.m # media
    <3>1. CASE pc'[d] = pc[d] /\ loc'[d] = loc[d]
      BY <1>3, <3>1 DEF StopInv, Stopped
    <3>2. CASE d = h.req /\ loc'[d].op = loc[d].op /\ loc'[d].reply = h
      BY <1>1, <3>2 DEF StopInv, Stopped
    <3> QED
      BY <1>1, <3>1, <3>2
  <2> QED
    BY <1>1, <2>1 DEF Stopped, check_device_error
<1> QED
  BY <1>2, <1>3

LEMMA StopInvStep == ASSUME TInv, OwnInv, MediaBound, StopInv, [Next]_vars PROVE StopInv'
<1>1. CASE \E c \in Calls : CallStep(c)
  BY <1>1, CallStepDoes, StopInvCall
<1>2. CASE DeviceStep
  BY <1>2, DeviceStepDoes, StopInvDevice
<1>3. CASE Route
  BY <1>3, RouteDoes, StopInvRoute
<1>4. ASSUME media' = media, toClient' = toClient \/ DOMAIN toClient' = {},
             DOMAIN toClient' = {} \/ (pc' = pc /\ loc' = loc),
             \A c \in Calls : (pc'[c] = pc[c] /\ loc'[c] = loc[c]) \/ pc'[c] # "reply"
      PROVE  StopInv'
  <2> SUFFICES ASSUME media # 0
               PROVE  /\ \A i \in DOMAIN toClient' : toClient'[i].req \in Calls =>
                           Stopped(loc'[toClient'[i].req].op, toClient'[i], media')
                      /\ \A d \in Calls : pc'[d] = "reply" => Stopped(loc'[d].op, loc'[d].reply, media')
    BY <1>4 DEF StopInv, Stopped, check_device_error
  <2>1. ASSUME NEW i \in DOMAIN toClient', toClient'[i].req \in Calls
        PROVE  Stopped(loc'[toClient'[i].req].op, toClient'[i], media')
    <3>1. toClient' = toClient /\ loc' = loc
      BY <1>4, <2>1
    <3> QED
      BY <1>4, <2>1, <3>1 DEF StopInv, Stopped, check_device_error
  <2>2. ASSUME NEW d \in Calls, pc'[d] = "reply" PROVE Stopped(loc'[d].op, loc'[d].reply, media')
    <3>1. pc[d] = "reply" /\ loc'[d] = loc[d]
      BY <1>4, <2>2
    <3> QED
      BY <1>4, <3>1 DEF StopInv, Stopped, check_device_error
  <2> QED
    BY <2>1, <2>2
<1>5. CASE RouteReceiverStatus \/ RouteMediaStatus
  BY <1>4, <1>5, TellDoes DEF TellFacts, DeviceStill, CallersStill
<1>6. CASE NextEvent
  BY <1>4, <1>6, NextEventDoes DEF DeviceStill, CallersStill
<1>7. CASE LinkFails
  BY <1>4, <1>7, LinkFailsDoes DEF DeviceStill, CallersStill
<1>8. CASE RecSwaps
  <2>1. DOMAIN toClient' = {}
    BY <1>8, RecSwapsDoes DEF OwnInv, DownIsEmpty
  <2>2. /\ media' = media
        /\ \A c \in Calls : (pc'[c] = pc[c] /\ loc'[c] = loc[c]) \/ pc'[c] # "reply"
    BY <1>8, RecSwapsDoes DEF DeviceStill
  <2> QED
    BY <1>4, <2>1, <2>2
<1>9. CASE RecHello \/ RecReopens
  BY <1>4, <1>9, RecDoes DEF RecFacts, DeviceStill, CallersStill
<1>10. CASE UNCHANGED vars
  BY <1>4, <1>10 DEF vars, calls, net, device
<1> QED
  BY <1>1, <1>2, <1>3, <1>5, <1>6, <1>7, <1>8, <1>9, <1>10 DEF Next

-----------------------------------------------------------------------------
(* The answer to a load: it is one of success only when it names a session *)
(* that began after the load was called.                                   *)

BegunFor(l, r) == l.op \in Loads /\ LoadOk(r) => r.m > l.begun
LoadInv ==
    /\ \A c \in Calls : loc[c].begun <= medias
    /\ \A i \in DOMAIN toClient :
          toClient[i].req \in Calls => BegunFor(loc[toClient[i].req], toClient[i])
    /\ \A c \in Calls : pc[c] = "reply" => BegunFor(loc[c], loc[c].reply)

\* An answer is judged by its type, its session and whether that is idle.
LEMMA SameAnswer ==
  ASSUME NEW l, NEW r, NEW q, BegunFor(l, r), q.type = r.type, q.m = r.m, q.idle = r.idle
  PROVE  BegunFor(l, q)
  BY DEF BegunFor, LoadOk, check_device_error

LEMMA BegunIs ==
  ASSUME TInv, NEW c \in Calls
  PROVE  loc[c].begun \in Nat /\ medias \in Nat
<1>1. loc[c] \in Local
  BY CallerTypes
<1> QED
  BY <1>1, MediaNumbers DEF Local

LEMMA LoadInvCall ==
  ASSUME TInv, OwnInv, LoadInv, NEW c \in Calls, CallFacts(c)
  PROVE  LoadInv'
<1>1. /\ medias' = medias /\ pc'[c] # "reply" /\ loc'[c].begun \in {loc[c].begun, 0, medias}
      /\ \A d \in Calls : d # c => pc'[d] = pc[d] /\ loc'[d] = loc[d]
  BY DEF CallFacts, CallFrame, CallQueues, CallLocals
<1>2. ASSUME NEW d \in Calls PROVE loc'[d].begun <= medias'
  <2>1. loc[d].begun <= medias /\ loc[d].begun \in Nat /\ medias \in Nat
    BY BegunIs DEF LoadInv
  <2> QED
    BY <1>1, <2>1
<1>3. ASSUME NEW i \in DOMAIN toClient', toClient'[i].req \in Calls
      PROVE  BegunFor(loc'[toClient'[i].req], toClient'[i])
  <2>1. /\ i \in DOMAIN toClient /\ toClient'[i].type = toClient[i].type
        /\ toClient'[i].m = toClient[i].m /\ toClient'[i].idle = toClient[i].idle
        /\ toClient'[i].req = toClient[i].req
        /\ pc[c] = "wait" => toClient'[i].req # c
    BY <1>3, CallHears
  <2>2. toClient[i].req # c
    BY <1>3, <2>1 DEF OwnInv, AnswersOwned, Waiting
  <2>3. loc'[toClient'[i].req] = loc[toClient[i].req]
    BY <1>1, <1>3, <2>1, <2>2
  <2>4. BegunFor(loc[toClient[i].req], toClient[i])
    BY <1>3, <2>1 DEF LoadInv
  <2>5. BegunFor(loc[toClient[i].req], toClient'[i])
    BY <2>1, <2>4, SameAnswer
  <2> QED
    BY <2>3, <2>5
<1>4. ASSUME NEW d \in Calls, pc'[d] = "reply" PROVE BegunFor(loc'[d], loc'[d].reply)
  <2>1. pc[d] = "reply" /\ loc'[d] = loc[d]
    BY <1>1, <1>4
  <2> QED
    BY <2>1 DEF LoadInv
<1> QED
  BY <1>2, <1>3, <1>4 DEF LoadInv, BegunFor, LoadOk, check_device_error

LEMMA LoadInvDevice ==
  ASSUME TInv, OwnInv, LoadInv, DeviceFacts
  PROVE  LoadInv'
<1>1. pc' = pc /\ loc' = loc /\ medias <= medias' /\ medias' \in Nat /\ medias \in Nat
  BY MediaNumbers DEF DeviceFacts, DeviceFrame, DeviceState, DeviceTypes
<1>2. ASSUME NEW d \in Calls PROVE loc'[d].begun <= medias'
  <2>1. loc[d].begun <= medias /\ loc[d].begun \in Nat
    BY BegunIs DEF LoadInv
  <2> QED
    BY <1>1, <2>1
<1>3. ASSUME NEW i \in DOMAIN toClient', toClient'[i].req \in Calls
      PROVE  BegunFor(loc'[toClient'[i].req], toClient'[i])
  <2> DEFINE m == toClient'[i]
  <2>1. CASE i \in DOMAIN toClient
    <3>1. m = toClient[i]
      BY <2>1 DEF DeviceFacts, DeviceSays
    <3>2. BegunFor(loc[m.req], m)
      BY <1>3, <2>1, <3>1 DEF LoadInv
    <3> QED
      BY <1>1, <3>2
  <2>2. CASE New(m)
    <3>1. /\ toDevice # <<>> /\ m.req = Head(toDevice).req
          /\ Head(toDevice).type \in {"LOAD", "QUEUE_LOAD"} /\ LoadOk(m) => m.m = medias + 1
      BY <1>3, <2>2 DEF New
    <3>2. Head(toDevice) = toDevice[1] /\ 1 \in DOMAIN toDevice
      BY <3>1, RestVars, Dropped
    <3>3. pc[m.req] = "wait" /\ Head(toDevice) = RequestOf(m.req, loc[m.req])
      BY <1>3, <3>1, <3>2 DEF OwnInv, RequestsOwned, Waiting
    <3>4. loc[m.req].op \in Loads => Head(toDevice).type \in {"LOAD", "QUEUE_LOAD"}
      <4>1. CASE loc[m.req].op = "load_media"
        BY <3>3, <4>1 DEF RequestOf, load, Controls, Plain
      <4>2. CASE loc[m.req].op = "queue_load"
        BY <3>3, <4>2 DEF RequestOf, queue_load, Controls, Plain
      <4> QED
        BY <4>1, <4>2 DEF Loads
    <3>5. loc[m.req].begun <= medias /\ loc[m.req].begun \in Nat
      BY <1>3, BegunIs DEF LoadInv
    <3>6. BegunFor(loc[m.req], m)
      BY <1>1, <3>1, <3>4, <3>5 DEF BegunFor
    <3> QED
      BY <1>1, <3>6
  <2> QED
    BY <2>1, <2>2 DEF DeviceFacts, DeviceSays
<1>4. ASSUME NEW d \in Calls, pc'[d] = "reply" PROVE BegunFor(loc'[d], loc'[d].reply)
  BY <1>1, <1>4 DEF LoadInv
<1> QED
  BY <1>2, <1>3, <1>4 DEF LoadInv, BegunFor, LoadOk, check_device_error

LEMMA LoadInvRoute == ASSUME TInv, LoadInv, RouteFacts PROVE LoadInv'
<1> DEFINE h == Head(toClient)
<1>1. /\ medias' = medias /\ h = toClient[1] /\ 1 \in DOMAIN toClient
      /\ \A c \in Calls :
            \/ pc'[c] = pc[c] /\ loc'[c] = loc[c]
            \/ /\ c = h.req /\ loc'[c].op = loc[c].op /\ loc'[c].begun = loc[c].begun
               /\ loc'[c].reply = h
  <2>1. ASSUME NEW c \in Calls, loc'[c] = [loc[c] EXCEPT !.reply = h]
        PROVE  loc'[c].op = loc[c].op /\ loc'[c].begun = loc[c].begun /\ loc'[c].reply = h
    BY <2>1, CallerTypes DEF Local
  <2>2. \A c \in Calls :
            \/ pc'[c] = pc[c] /\ loc'[c] = loc[c]
            \/ c = h.req /\ loc'[c] = [loc[c] EXCEPT !.reply = h]
    BY DEF RouteFacts
  <2>3. medias' = medias /\ h = toClient[1] /\ 1 \in DOMAIN toClient
    BY DEF RouteFacts, DeviceStill
  <2> QED
    BY <2>1, <2>2, <2>3
<1> HIDE DEF h
<1>2. ASSUME NEW d \in Calls PROVE loc'[d].begun <= medias'
  BY <1>1 DEF LoadInv
<1>3. ASSUME NEW i \in DOMAIN toClient', toClient'[i].req \in Calls
      PROVE  BegunFor(loc'[toClient'[i].req], toClient'[i])
  <2>1. /\ i + 1 \in DOMAIN toClient /\ toClient'[i].type = toClient[i + 1].type
        /\ toClient'[i].m = toClient[i + 1].m /\ toClient'[i].idle = toClient[i + 1].idle
        /\ toClient'[i].req = toClient[i + 1].req /\ toClient'[i].req # h.req
    BY <1>3 DEF RouteFacts, h
  <2>2. BegunFor(loc[toClient[i + 1].req], toClient[i + 1])
    BY <1>3, <2>1 DEF LoadInv
  <2>3. loc'[toClient'[i].req] = loc[toClient[i + 1].req]
    BY <1>1, <1>3, <2>1
  <2>4. BegunFor(loc[toClient[i + 1].req], toClient'[i])
    BY <2>1, <2>2, SameAnswer
  <2> QED
    BY <2>3, <2>4
<1>4. ASSUME NEW d \in Calls, pc'[d] = "reply" PROVE BegunFor(loc'[d], loc'[d].reply)
  <2>1. CASE pc'[d] = pc[d] /\ loc'[d] = loc[d]
    BY <1>4, <2>1 DEF LoadInv
  <2>2. CASE /\ d = h.req /\ loc'[d].op = loc[d].op /\ loc'[d].begun = loc[d].begun
             /\ loc'[d].reply = h
    BY <1>1, <2>2 DEF LoadInv, BegunFor
  <2> QED
    BY <1>1, <2>1, <2>2
<1> QED
  BY <1>2, <1>3, <1>4 DEF LoadInv, BegunFor, LoadOk, check_device_error

LEMMA LoadInvStep == ASSUME TInv, OwnInv, LoadInv, [Next]_vars PROVE LoadInv'
<1>1. CASE \E c \in Calls : CallStep(c)
  BY <1>1, CallStepDoes, LoadInvCall
<1>2. CASE DeviceStep
  BY <1>2, DeviceStepDoes, LoadInvDevice
<1>3. CASE Route
  BY <1>3, RouteDoes, LoadInvRoute
<1>4. ASSUME medias' = medias, toClient' = toClient \/ DOMAIN toClient' = {},
             DOMAIN toClient' = {} \/ (pc' = pc /\ loc' = loc),
             \A c \in Calls : \/ pc'[c] = pc[c] /\ loc'[c] = loc[c]
                              \/ pc'[c] # "reply" /\ loc'[c] = Blank
      PROVE  LoadInv'
  <2>1. ASSUME NEW d \in Calls PROVE loc'[d].begun <= medias'
    BY <1>4, BlankIs, BegunIs DEF LoadInv
  <2>2. ASSUME NEW i \in DOMAIN toClient', toClient'[i].req \in Calls
        PROVE  BegunFor(loc'[toClient'[i].req], toClient'[i])
    <3>1. toClient' = toClient /\ loc' = loc
      BY <1>4, <2>2
    <3> QED
      BY <2>2, <3>1 DEF LoadInv
  <2>3. ASSUME NEW d \in Calls, pc'[d] = "reply" PROVE BegunFor(loc'[d], loc'[d].reply)
    <3>1. pc[d] = "reply" /\ loc'[d] = loc[d]
      BY <1>4, <2>3
    <3> QED
      BY <3>1 DEF LoadInv
  <2> QED
    BY <2>1, <2>2, <2>3 DEF LoadInv, BegunFor, LoadOk, check_device_error
<1>5. CASE RouteReceiverStatus \/ RouteMediaStatus
  BY <1>4, <1>5, TellDoes DEF TellFacts, DeviceStill, CallersStill
<1>6. CASE NextEvent
  BY <1>4, <1>6, NextEventDoes DEF DeviceStill, CallersStill
<1>7. CASE LinkFails
  BY <1>4, <1>7, LinkFailsDoes DEF DeviceStill, CallersStill
<1>8. CASE RecSwaps
  <2>1. DOMAIN toClient' = {}
    BY <1>8, RecSwapsDoes DEF OwnInv, DownIsEmpty
  <2>2. /\ medias' = medias
        /\ \A c \in Calls : \/ pc'[c] = pc[c] /\ loc'[c] = loc[c]
                            \/ pc'[c] # "reply" /\ loc'[c] = Blank
    BY <1>8, RecSwapsDoes DEF DeviceStill
  <2> QED
    BY <1>4, <2>1, <2>2
<1>9. CASE RecHello \/ RecReopens
  BY <1>4, <1>9, RecDoes DEF RecFacts, DeviceStill, CallersStill
<1>10. CASE UNCHANGED vars
  BY <1>4, <1>10 DEF vars, calls, net, device
<1> QED
  BY <1>1, <1>2, <1>3, <1>5, <1>6, <1>7, <1>8, <1>9, <1>10 DEF Next

-----------------------------------------------------------------------------
(* The media session id                                                    *)

\* An answer is stored over the session of the newest status only by the same one.
LEMMA IdInvCall ==
  ASSUME TInv, WatchInv, MediaBound, StopInv, IdInv, NEW c \in Calls, CallFacts(c),
         "id" \notin missed'
  PROVE  Latest(toClient', routing', Known', "media", medias')
<1>1. /\ media' = media /\ medias' = medias /\ routing' = routing /\ missed \subseteq missed'
      /\ CallMedia(c)
      /\ toClient' = toClient \/ toClient' = Forget(c, toClient)
  BY DEF CallFacts, CallFrame, CallTypes, CallQueues
<1>2. "id" \notin missed /\ "media" \notin missed
  BY <1>1 DEF TInv, MissedFits
<1>3. /\ Latest(toClient, routing, Known, "media", medias)
      /\ Latest(toClient, routing, mediaWatch, "media", medias)
  BY <1>2 DEF IdInv, WatchInv
<1>4. Known' = IF mediaId' = 0 /\ media = 0 THEN medias ELSE mediaId'
  BY <1>1 DEF Known
<1>5. Latest(toClient, routing, Known', "media", medias)
  <2>1. CASE mediaId' = mediaId
    BY <1>3, <1>4, <2>1 DEF Known
  <2>2. CASE mediaId' # mediaId
    <3>1. ASSUME \A i \in DOMAIN toClient : ~IsNews(toClient[i], "media"),
                 ~IsNews(routing, "media")
          PROVE  Known' = medias
      <4>1. mediaWatch = medias
        BY <1>3, <3>1 DEF Latest
      <4>2. /\ pc[c] = "reply" /\ ~check_device_error(loc[c].reply)
            /\ mediaWatch <= loc[c].reply.m /\ loc[c].reply.m <= medias
            /\ \/ loc[c].op = "stop_media" /\ mediaId' = 0
               \/ mediaId' = loc[c].reply.m
        BY <1>1, <2>2 DEF CallMedia, MediaBound
      <4>3. loc[c].reply.m = medias
        BY <4>1, <4>2, MediaNumbers
      <4>4. CASE mediaId' = loc[c].reply.m
        BY <1>4, <4>3, <4>4
      <4>5. CASE loc[c].op = "stop_media" /\ mediaId' = 0
        <5>1. media = 0
          BY <4>2, <4>3, <4>5, MediaNumbers DEF StopInv, Stopped
        <5> QED
          BY <1>4, <4>5, <5>1
      <4> QED
        BY <4>2, <4>4, <4>5
    <3> QED
      BY <1>3, <3>1 DEF Latest
  <2> QED
    BY <2>1, <2>2
<1> QED
  BY <1>1, <1>5, RestVars, LatestForget

LEMMA IdInvDevice ==
  ASSUME TInv, IdInv, DeviceFacts, "id" \notin missed'
  PROVE  Latest(toClient', routing', Known', "media", medias')
<1>1. /\ routing' = routing /\ mediaId' = mediaId
      /\ Fresh("media") \/ ("id" \notin missed /\ medias' = medias)
      /\ medias' = medias => media' \in {media, 0}
  BY MediaNumbers DEF DeviceFacts, DeviceFrame, DeviceSays, DeviceState
<1>2. Known' = IF mediaId = 0 /\ media' = 0 THEN medias' ELSE mediaId
  BY <1>1 DEF Known
<1>3. CASE Fresh("media")
  BY <1>1, <1>3, DeviceNews
<1>4. CASE "id" \notin missed /\ medias' = medias
  <2>1. Latest(toClient, routing, Known, "media", medias)
    BY <1>4 DEF IdInv
  <2>2. Known' \in {Known, medias}
    BY <1>1, <1>2, <1>4 DEF Known
  <2>3. Latest(toClient, routing, Known', "media", medias)
    BY <2>1, <2>2 DEF Latest
  <2> QED
    BY <1>1, <1>4, <2>3, DeviceNews
<1> QED
  BY <1>1, <1>3, <1>4

LEMMA IdInvStep ==
  ASSUME TInv, WatchInv, MediaBound, StopInv, IdInv, [Next]_vars
  PROVE  IdInv'
<1> SUFFICES ASSUME "id" \notin missed'
             PROVE  Latest(toClient', routing', Known', "media", medias')
  BY DEF IdInv, Latest, IsNews, Value
<1>0. "id" \notin missed => Latest(toClient, routing, Known, "media", medias)
  BY DEF IdInv
<1>1. CASE \E c \in Calls : CallStep(c)
  BY <1>1, CallStepDoes, IdInvCall
<1>2. CASE DeviceStep
  BY <1>2, DeviceStepDoes, IdInvDevice
<1>3. CASE Route
  <2>1. RouteFacts
    BY <1>3, RouteDoes
  <2>2. Known' = Known /\ medias' = medias /\ missed' = missed
    BY <2>1 DEF RouteFacts, DeviceStill, LinkStill, Known
  <2> QED
    BY <1>0, <2>1, <2>2, LatestRoute
<1>4. CASE RouteReceiverStatus \/ RouteMediaStatus
  <2>1. TellFacts
    BY <1>4, TellDoes
  <2>2. /\ mediaId' = IF IsNews(routing, "media") THEN Value(routing, "media") ELSE mediaId
        /\ routing' = Nobody /\ toClient' = toClient /\ media' = media /\ medias' = medias
        /\ missed' = missed
    BY <2>1 DEF TellFacts, DeviceStill, LinkStill, IsNews, Value
  <2>3. Known' = IF IsNews(routing, "media") THEN Value(routing, "media") ELSE Known
    BY <2>2 DEF Known, IsNews, Value
  <2> QED
    BY <1>0, <2>2, <2>3, LatestTold
<1>5. CASE LinkFails
  <2>1. /\ toClient' = <<>> /\ routing' = routing /\ Known' = Known /\ medias' = medias
        /\ missed \subseteq missed'
        /\ \A k \in Kinds : k \notin missed' => \A i \in DOMAIN toClient : ~IsNews(toClient[i], k)
    BY <1>5, LinkFailsDoes DEF DeviceStill, ReaderStill, Known
  <2>2. \A i \in DOMAIN toClient : ~IsNews(toClient[i], "media")
    BY <2>1 DEF Kinds, IsNews
  <2> QED
    BY <1>0, <2>1, <2>2, LatestLost
<1>6. ASSUME /\ toClient' = toClient /\ routing' = routing /\ mediaId' = mediaId
             /\ media' = media /\ medias' = medias /\ missed' = missed
      PROVE  Latest(toClient', routing', Known', "media", medias')
  <2>1. Known' = Known
    BY <1>6 DEF Known
  <2> QED
    BY <1>0, <1>6, <2>1
<1>7. CASE NextEvent
  BY <1>6, <1>7, NextEventDoes DEF DeviceStill, ReaderStill, LinkStill
<1>8. CASE RecSwaps
  BY <1>6, <1>8, RecSwapsDoes DEF DeviceStill, ReaderStill
<1>9. CASE RecHello \/ RecReopens
  BY <1>6, <1>9, RecDoes DEF RecFacts, DeviceStill, ReaderStill
<1>10. CASE UNCHANGED vars
  BY <1>6, <1>10 DEF vars, ids, net, device
<1> QED
  BY <1>1, <1>2, <1>3, <1>4, <1>5, <1>7, <1>8, <1>9, <1>10 DEF Next

MediaInv == OwnInv /\ MediaBound /\ StopInv /\ LoadInv /\ IdInv

\* The session id follows the device through answers, statuses, timeouts and
\* reconnects: requests and answers have one owner, session numbers grow, a stop is
\* never answered with a session that runs, a load only with a new one, and the
\* newest status wins.
THEOREM MediaInvariance == Spec => [](TInv /\ MediaInv)
<1>1. Init => MediaBound /\ StopInv /\ LoadInv /\ IdInv
  <2> SUFFICES ASSUME Init PROVE MediaBound /\ StopInv /\ LoadInv /\ IdInv
    OBVIOUS
  <2>1. /\ DOMAIN toClient = {} /\ routing.m = 0 /\ ~IsNews(routing, "media")
        /\ \A c \in Calls : loc[c].reply.m = 0 /\ loc[c].begun = 0 /\ pc[c] = "idle"
        /\ medias \in Nat
    BY BlankIs, InitIs DEF Init, IsNews
  <2>2. MediaBound
    BY <2>1 DEF MediaBound
  <2>3. StopInv /\ LoadInv
    BY <2>1 DEF StopInv, LoadInv
  <2>4. "id" \notin missed => mediaId = medias
    BY InitIs
  <2>5. IdInv
    BY <2>1, <2>4 DEF IdInv, Latest, Known
  <2> QED
    BY <2>2, <2>3, <2>5
<1>2. TInv /\ WatchInv /\ MediaInv /\ [Next]_vars => MediaInv'
  BY OwnInvStep, MediaBoundStep, StopInvStep, LoadInvStep, IdInvStep DEF MediaInv
<1>3. Init => MediaInv
  BY <1>1, OwnInvInit DEF MediaInv
<1> QED
  BY <1>2, <1>3, WatchInvariance, PTL DEF Spec

\* Whenever the client is quiet, the id play(), seek() and stop_media() will use is the
\* device's session, or none or the last one when that is over, unless the client missed
\* a status or applied an answer late and has heard no status since.
THEOREM SessionIsKnown == Spec => []KnowsLiveSession
<1>1. TInv /\ MediaInv => KnowsLiveSession
  <2> SUFFICES ASSUME TInv, IdInv, Quiet, "id" \notin missed
               PROVE  mediaId = media \/ (media = 0 /\ mediaId = medias)
    BY DEF KnowsLiveSession, MediaInv
  <2>1. DOMAIN toClient = {} /\ ~IsNews(routing, "media") /\ media \in {0, medias}
    BY BlankIs, MediaNumbers DEF Quiet, IsNews
  <2>2. Known = medias
    BY <2>1 DEF IdInv, Latest
  <2> QED
    BY <2>1, <2>2 DEF Known
<1> QED
  BY <1>1, MediaInvariance, PTL

\* A load_media() or queue_load() that returns Ok returns a session that was begun
\* after it was called.
THEOREM LoadsAreNew == Spec => []OkMeansNewSession
<1>1. MediaInv => OkMeansNewSession
  BY DEF MediaInv, LoadInv, BegunFor, OkMeansNewSession
<1> QED
  BY <1>1, MediaInvariance, PTL
=============================================================================
