---------------------------- MODULE CastSession ----------------------------
(***************************************************************************)
(* The client's commands against a Cast device: what client.rs keeps about *)
(* the running application (transport_id, session_id) and the media        *)
(* session (media_session_id), the router that updates it from the         *)
(* device's statuses, and the CONNECTs that open a transport, also after a *)
(* reconnect.                                                              *)
(*                                                                         *)
(* A caller is a clone of the client that calls one method after another;  *)
(* its request id is the caller itself (RequestTracker shows that ids      *)
(* work), and is forgotten when it gives up waiting.  Every lock, atomic   *)
(* access and send is a step.  The n-th application the device starts has  *)
(* transport n and session n; 0 is Option::None, and as a destination the  *)
(* receiver itself.  The device is external: it does what a Cast device    *)
(* does with these messages.                                               *)
(*                                                                         *)
(* Abstracted: payloads that no property tells apart (volume, position,    *)
(* queue items, metadata), event kinds that launch_app() skips, durations. *)
(* A MEDIA_STATUS with session 0 is one with an empty status list, and an  *)
(* idle one names no media.                                                *)
(***************************************************************************)
EXTENDS Naturals, Sequences

CONSTANTS Calls,      \* the callers
          NoCall,     \* requestId 0
          Ops,        \* the methods they call
          MaxApps,    \* bound: applications started in one behaviour
          MaxMedia,   \* bound: media sessions begun in one behaviour
          MaxLosses,  \* bound: connections lost
          MaxCalls,   \* bound: methods called in one behaviour
          MaxNews,    \* bound: what the device does of its own accord
          NetCap,     \* bound: messages on the way, in each direction
          EventCap    \* config.event_buffer_size

Loads == {"load_media", "queue_load"}
Controls == {"play", "pause", "seek", "queue_insert"}
Plain == {"receiver_status", "set_volume", "set_muted"}
AllOps == Loads \cup Controls \cup Plain \cup
          {"launch_app", "stop_app", "stop_media", "media_status", "send_raw"}

Expired == "expired"  \* a requestId that is no longer pending
Ids == Calls \cup {NoCall, Expired}

ASSUME CallsAssumption ==
    /\ NoCall \notin Calls /\ Expired \notin Calls \cup {NoCall}
    /\ Ops \subseteq AllOps
ASSUME BoundsAssumption ==
    /\ MaxApps \in Nat /\ MaxMedia \in Nat /\ MaxLosses \in Nat
    /\ MaxCalls \in Nat /\ MaxNews \in Nat
    /\ NetCap \in Nat \ {0} /\ EventCap \in Nat \ {0}

VARIABLES
    transport, session,        \* the two mutexes of ClientInner
    mediaId,                   \* state.media_session_id
    mediaWatch, receiverWatch, \* the last session and application told of
    events,                    \* the event channel
    routing,                   \* the status being routed, its request resolved
    link,                      \* the connection, and where a reconnect is
    losses, called, news,      \* counters for the bounds
    pc, loc,                   \* each caller: where it is, method and locals
    toDevice, toClient,        \* messages under way
    app, apps, loading,        \* device: running application, how many so far
    media, medias,             \* device: media session, how many so far
    opened,                    \* device: destinations this connection opened
    races,                     \* history: which windows were hit
    missed                     \* history: of what the client has old news

ids == <<transport, session, mediaId>>
views == <<mediaWatch, receiverWatch, events>>
calls == <<pc, loc, called>>
net == <<toDevice, toClient>>
device == <<app, apps, loading, media, medias, opened, news>>
conn == <<link, losses>>
vars == <<ids, views, routing, conn, calls, net, device, races, missed>>

Receiver == 0  \* "receiver-0"
Nobody == [type |-> "NONE", req |-> NoCall, app |-> 0, m |-> 0, idle |-> FALSE]
Blank == [op |-> "none", t |-> 0, s |-> 0, m |-> 0, ended |-> 0, begun |-> 0,
          reply |-> Nobody]

Locs == {"idle", "readS", "readM", "send", "wait", "reply", "events",
         "connect", "setT", "setS"}
ToDevice == [type: {"CONNECT", "LAUNCH", "STOP", "LOAD", "QUEUE_LOAD", "CONTROL",
                    "MEDIA_STOP", "GET_STATUS", "PLAIN", "CUSTOM"},
             to: 0 .. MaxApps, req: Ids,
             s: 0 .. MaxApps, m: 0 .. MaxMedia]
ToClient == [type: {"NONE", "RECEIVER_STATUS", "MEDIA_STATUS", "LAUNCH_ERROR",
                    "LOAD_FAILED", "LOAD_CANCELLED", "INVALID_REQUEST", "CLOSE",
                    "CUSTOM"},
             req: Ids, app: 0 .. MaxApps, m: 0 .. MaxMedia,
             idle: BOOLEAN]
Local == [op: Ops \cup {"none"}, t: 0 .. MaxApps, s: 0 .. MaxApps, m: 0 .. MaxMedia,
          ended: 0 .. MaxApps, begun: 0 .. MaxMedia, reply: ToClient]
Event == [kind: {"receiver", "other"}, app: 0 .. MaxApps]

TypeOK ==
    /\ transport \in 0 .. MaxApps /\ session \in 0 .. MaxApps
    /\ mediaId \in 0 .. MaxMedia
    /\ mediaWatch \in 0 .. MaxMedia /\ receiverWatch \in 0 .. MaxApps
    /\ events \in Seq(Event) /\ Len(events) <= EventCap
    /\ routing \in ToClient
    /\ link \in {"up", "down", "swapped", "hello"} /\ losses \in 0 .. MaxLosses
    /\ called \in 0 .. MaxCalls /\ news \in 0 .. MaxNews
    /\ pc \in [Calls -> Locs] /\ loc \in [Calls -> Local]
    /\ toDevice \in Seq(ToDevice) /\ Len(toDevice) <= NetCap
    /\ toClient \in Seq(ToClient) /\ Len(toClient) <= NetCap
    /\ apps \in 0 .. MaxApps /\ app \in 0 .. apps /\ loading \in BOOLEAN
    /\ medias \in 0 .. MaxMedia /\ media \in {0, medias}
    /\ opened \subseteq 0 .. MaxApps
    /\ races \subseteq {"ids", "late", "reopen"}
    /\ missed \subseteq {"receiver", "media", "id"}

-----------------------------------------------------------------------------
(* The messages (channel/connection.rs, receiver.rs, media.rs): type,      *)
(* destination and the ids each one carries.                               *)

connect_msg(t) == [type |-> "CONNECT", to |-> t, req |-> NoCall, s |-> 0, m |-> 0]
launch_app(c) == [type |-> "LAUNCH", to |-> Receiver, req |-> c, s |-> 0, m |-> 0]
stop_app(c, s) == [type |-> "STOP", to |-> Receiver, req |-> c, s |-> s, m |-> 0]
set_volume(c) == [type |-> "PLAIN", to |-> Receiver, req |-> c, s |-> 0, m |-> 0]
load(c, t, s) == [type |-> "LOAD", to |-> t, req |-> c, s |-> s, m |-> 0]
queue_load(c, t, s) == [type |-> "QUEUE_LOAD", to |-> t, req |-> c, s |-> s, m |-> 0]
control(c, t, m) == [type |-> "CONTROL", to |-> t, req |-> c, s |-> 0, m |-> m]
stop(c, t, m) == [type |-> "MEDIA_STOP", to |-> t, req |-> c, s |-> 0, m |-> m]
get_status(c, t) == [type |-> "GET_STATUS", to |-> t, req |-> c, s |-> 0, m |-> 0]
send_raw(c) == [type |-> "CUSTOM", to |-> Receiver, req |-> c, s |-> 0, m |-> 0]

RequestOf(c, l) ==
    CASE l.op = "launch_app" -> launch_app(c)
      [] l.op = "stop_app" -> stop_app(c, l.s)
      [] l.op = "load_media" -> load(c, l.t, l.s)
      [] l.op = "queue_load" -> queue_load(c, l.t, l.s)
      [] l.op = "stop_media" -> stop(c, l.t, l.m)
      [] l.op = "media_status" -> get_status(c, l.t)
      [] l.op = "send_raw" -> send_raw(c)
      [] l.op \in Controls -> control(c, l.t, l.m)
      [] l.op \in Plain -> set_volume(c)

\* The device may run an application, with or without media.  The client has
\* just connected (its CONNECT is on its way, and it asks for no status), or it
\* has launched and loaded before, and knows k.
Init ==
    /\ apps \in {0, 1} \cap 0 .. MaxApps /\ app = apps /\ loading = FALSE
    /\ medias \in {0, app} \cap 0 .. MaxMedia /\ media = medias
    /\ \E k \in {0, media} :
          /\ transport = k /\ session = k /\ mediaId = k
          /\ mediaWatch = k /\ receiverWatch = k
          /\ toDevice = IF k = 0 THEN <<connect_msg(Receiver)>> ELSE <<>>
          /\ opened = IF k = 0 THEN {} ELSE {Receiver, k}
          /\ missed = (IF k # app THEN {"receiver"} ELSE {})
                        \cup (IF k # media THEN {"media", "id"} ELSE {})
    /\ events = <<>> /\ toClient = <<>> /\ routing = Nobody
    /\ link = "up" /\ losses = 0 /\ called = 0 /\ news = 0
    /\ pc = [c \in Calls |-> "idle"] /\ loc = [c \in Calls |-> Blank]
    /\ races = {}

-----------------------------------------------------------------------------
(* History: the windows in which two actors step on each other's state     *)

Tag(tag, hit) == races' = races \cup (IF hit THEN {tag} ELSE {})

\* What a client that gets these messages knows afterwards: the application, or
\* the media session as the watch and as the id.
Told(msgs) ==
    (IF \E i \in DOMAIN msgs : msgs[i].type = "RECEIVER_STATUS"
     THEN {"receiver"} ELSE {})
    \cup (IF \E i \in DOMAIN msgs : msgs[i].type = "MEDIA_STATUS" /\ msgs[i].m # 0
          THEN {"media", "id"} ELSE {})

\* Another caller has stored the transport and not yet the session, or read
\* the transport and not yet the session.
HalfWritten(c) == \E d \in Calls \ {c} : pc[d] = "setS"
HalfRead(c) == \E d \in Calls \ {c} : pc[d] = "readS"

\* This connection has opened destination t, or is about to.
Opening(t) ==
    t \in opened \/ \E i \in DOMAIN toDevice : toDevice[i] = connect_msg(t)

-----------------------------------------------------------------------------
(* A caller                                                                *)

\* c goes on with locals l; "idle" is the return, with a value or an error.
Goes(c, from, to, l) ==
    /\ pc[c] = from
    /\ pc' = [pc EXCEPT ![c] = to]
    /\ loc' = [loc EXCEPT ![c] = IF to = "idle" THEN Blank ELSE l]
    /\ IF from = "idle" THEN called < MaxCalls /\ called' = called + 1
                        ELSE UNCHANGED called
    /\ UNCHANGED <<routing, conn, device>>

\* A message into the write channel: it waits for room.  On a lost connection
\* the channel is closed (an error), or its writer cannot get it out.
Writes(c, from, to, l, msg) ==
    \/ /\ link # "down" /\ Len(toDevice) < NetCap
       /\ Goes(c, from, to, l)
       /\ toDevice' = Append(toDevice, msg)
    \/ /\ link = "down"
       /\ Goes(c, from, "idle", l) \/ Goes(c, from, to, l)
       /\ UNCHANGED toDevice

\* register() and send(); sent before a reconnect has sent its CONNECTs, the
\* message overtakes them.
Sends(c, from, l) ==
    /\ Writes(c, from, "wait", l, RequestOf(c, l))
    /\ Tag("reopen", link \in {"swapped", "hello"})
    /\ UNCHANGED <<ids, views, toClient, missed>>

\* A method that needs no id is called.  stop_app() is given the session of
\* some application; ended: the applications that were over by then.
Call(c) ==
    \E o \in Ops \cap (Plain \cup {"launch_app", "stop_app", "send_raw"}), s \in 0 .. apps :
        /\ (o = "stop_app") <=> (s # 0)
        /\ Sends(c, "idle", [Blank EXCEPT
              !.op = o, !.s = s, !.ended = IF o # "launch_app" THEN 0
                                           ELSE IF app = 0 THEN apps ELSE app - 1])

\* The others read transport_id first.  Without one the error is
\* NoApplication, for media_status() Ok(None).  begun: the media sessions there
\* had been when a load was called.
get_transport_id(c) ==
    \E o \in Ops \cap (Loads \cup Controls \cup {"stop_media", "media_status"}) :
        /\ Goes(c, "idle", CASE transport = 0 -> "idle"
                             [] o \in Loads -> "readS"
                             [] o = "media_status" -> "send"
                             [] OTHER -> "readM",
                [Blank EXCEPT !.op = o, !.t = transport,
                              !.begun = IF o \in Loads THEN medias ELSE 0])
        /\ Tag("ids", o \in Loads /\ HalfWritten(c))
        /\ UNCHANGED <<ids, views, net, missed>>

get_session_id(c) ==
    /\ Goes(c, "readS", IF session = 0 THEN "idle" ELSE "send",
            [loc[c] EXCEPT !.s = session])
    /\ UNCHANGED <<ids, views, net, races, missed>>

\* Without a media session the error is NoMediaSession.
get_media_session_id(c) ==
    /\ Goes(c, "readM", IF mediaId > 0 THEN "send" ELSE "idle",
            [loc[c] EXCEPT !.m = mediaId])
    /\ UNCHANGED <<ids, views, net, races, missed>>

Send(c) == Sends(c, "send", loc[c])

\* An answer to a request that is no longer pending resolves nothing.
Forget(c, q) ==
    [i \in DOMAIN q |-> IF q[i].req = c THEN [q[i] EXCEPT !.req = Expired] ELSE q[i]]

\* wait_for(): the timeout, or a lost connection has cleared the tracker.
TimesOut(c) ==
    /\ Goes(c, "wait", "idle", Blank)
    /\ toDevice' = Forget(c, toDevice) /\ toClient' = Forget(c, toClient)
    /\ UNCHANGED <<ids, views, races, missed>>

check_device_error(r) ==
    r.type \in {"LAUNCH_ERROR", "LOAD_FAILED", "LOAD_CANCELLED", "INVALID_REQUEST"}

\* launch_app() has its answer: an error, a status with the application, to
\* whose transport it sends a CONNECT before anybody can read its id, or a
\* status without, and then it waits for an event that has it.
LaunchReply(c) ==
    /\ loc[c].op = "launch_app"
    /\ LET r == loc[c].reply
           l == [loc[c] EXCEPT !.t = r.app, !.reply = Nobody] IN
       IF r.type = "RECEIVER_STATUS" /\ r.app # 0
       THEN Writes(c, "reply", "setT", l, connect_msg(r.app))
       ELSE /\ Goes(c, "reply", IF check_device_error(r) THEN "idle" ELSE "events", l)
            /\ UNCHANGED toDevice
    /\ UNCHANGED <<ids, views, toClient, races, missed>>

\* ... next_event(), from the one event channel there is
LaunchTakesEvent(c) ==
    /\ events # <<>> /\ events' = Tail(events)
    /\ LET e == Head(events) IN
       Goes(c, "events", IF e.kind = "receiver" /\ e.app # 0 THEN "connect" ELSE "events",
            [loc[c] EXCEPT !.t = e.app])
    /\ UNCHANGED <<ids, mediaWatch, receiverWatch, net, races, missed>>

\* ... for at most 15 seconds
LaunchTimesOut(c) ==
    Goes(c, "events", "idle", Blank) /\ UNCHANGED <<ids, views, net, races, missed>>

LaunchConnects(c) ==
    /\ Writes(c, "connect", "setT", loc[c], connect_msg(loc[c].t))
    /\ UNCHANGED <<ids, views, toClient, races, missed>>

\* launch_app() and stop_app() set both ids, each under its own lock.
StoreTransport(c, t) ==
    /\ transport' = t
    /\ races' = races
         \cup (IF HalfWritten(c) \/ HalfRead(c) THEN {"ids"} ELSE {})
         \cup (IF t # app /\ app = transport THEN {"late"} ELSE {})
         \cup (IF t # 0 /\ ~Opening(t) THEN {"reopen"} ELSE {})
    /\ UNCHANGED <<session, mediaId, views, net, missed>>

SetTransport(c) == Goes(c, "setT", "setS", loc[c]) /\ StoreTransport(c, loc[c].t)

\* stop_app() has its answer.
StopAppReply(c) ==
    /\ loc[c].op = "stop_app"
    /\ IF check_device_error(loc[c].reply)
       THEN Goes(c, "reply", "idle", Blank) /\ UNCHANGED <<ids, views, net, races, missed>>
       ELSE /\ Goes(c, "reply", "setS", [loc[c] EXCEPT !.t = 0, !.reply = Nobody])
            /\ StoreTransport(c, 0)

\* Mutant: only a first launch stores its session.
SetSessionOnce(c) ==
    /\ Goes(c, "setS", "idle", Blank)
    /\ session' = IF session = 0 THEN loc[c].t ELSE session
    /\ Tag("ids", HalfWritten(c) \/ HalfRead(c))
    /\ UNCHANGED <<transport, mediaId, views, net, missed>>

SetSession(c) ==
    /\ Goes(c, "setS", "idle", Blank)
    /\ session' = loc[c].t
    /\ Tag("ids", HalfWritten(c) \/ HalfRead(c))
    /\ UNCHANGED <<transport, mediaId, views, net, missed>>

\* Mutant: an idle status passes for a load.
LoadOkLenient(r) == ~check_device_error(r) /\ r.m # 0

\* load_media() and queue_load() return Ok: no error, a status, and not an idle
\* one without media.
LoadOk(r) == ~check_device_error(r) /\ r.m # 0 /\ ~r.idle

\* The other methods have their answer.  load_media() and queue_load() store
\* the session of the status, also of an idle one they call an error, and
\* stop_media() stores 0; a newer status may have been routed since.
MediaReply(c) ==
    /\ loc[c].op \notin {"launch_app", "stop_app"}
    /\ Goes(c, "reply", "idle", Blank)
    /\ LET r == loc[c].reply
           stores == ~check_device_error(r)
                       /\ \/ loc[c].op \in Loads /\ r.m # 0
                          \/ loc[c].op = "stop_media" IN
       /\ mediaId' = IF ~stores THEN mediaId
                     ELSE IF loc[c].op = "stop_media" THEN 0 ELSE r.m
       /\ missed' = missed \cup (IF stores /\ mediaWatch > r.m THEN {"id"} ELSE {})
    /\ UNCHANGED <<transport, session, views, net, races>>

CallStep(c) ==
    \/ Call(c) \/ get_transport_id(c) \/ get_session_id(c)
    \/ get_media_session_id(c) \/ Send(c) \/ TimesOut(c)
    \/ LaunchReply(c) \/ LaunchTakesEvent(c) \/ LaunchTimesOut(c)
    \/ LaunchConnects(c) \/ StopAppReply(c) \/ SetTransport(c)
    \/ SetSession(c) \/ MediaReply(c)

-----------------------------------------------------------------------------
(* The reader routes messages                                              *)

\* try_send: a full event channel drops the event.
OfferUnbounded(q, e) == Append(q, e)  \* mutant
Offer(q, e) == IF Len(q) < EventCap THEN Append(q, e) ELSE q
Other == [kind |-> "other", app |-> 0]

\* route(), up to the resolve(): the caller wakes and runs on beside the router,
\* and its id is no longer pending.
Route ==
    /\ routing = Nobody /\ toClient # <<>>
    /\ LET m == Head(toClient)
           woken == {c \in Calls : c = m.req /\ pc[c] = "wait"} IN
       /\ toClient' = IF m.req \in Calls THEN Forget(m.req, Tail(toClient))
                                         ELSE Tail(toClient)
       /\ pc' = [c \in Calls |-> IF c \in woken THEN "reply" ELSE pc[c]]
       /\ loc' = [c \in Calls |-> IF c \in woken THEN [loc[c] EXCEPT !.reply = m]
                                                 ELSE loc[c]]
       /\ routing' = IF m.type \in {"RECEIVER_STATUS", "MEDIA_STATUS"} THEN m ELSE Nobody
       /\ events' = IF m.type = "CLOSE" \/ (m.type = "CUSTOM" /\ m.req = NoCall)
                    THEN Offer(events, Other) ELSE events
    /\ UNCHANGED <<ids, mediaWatch, receiverWatch, conn, called, toDevice, device, races, missed>>

\* ... the rest of it, for a status
\* Mutant: an event that finds no room takes the watch's update with it.
RouteReceiverStatusIfRoom ==
    /\ routing.type = "RECEIVER_STATUS" /\ routing' = Nobody
    /\ IF Len(events) = EventCap THEN UNCHANGED <<receiverWatch, events>>
       ELSE /\ receiverWatch' = routing.app
            /\ events' = Offer(events, [kind |-> "receiver", app |-> routing.app])
    /\ UNCHANGED <<ids, mediaWatch, conn, calls, net, device, races, missed>>

RouteReceiverStatus ==
    /\ routing.type = "RECEIVER_STATUS" /\ routing' = Nobody
    /\ receiverWatch' = routing.app
    /\ events' = Offer(events, [kind |-> "receiver", app |-> routing.app])
    /\ UNCHANGED <<ids, mediaWatch, conn, calls, net, device, races, missed>>

\* Mutant: the session id is only taken when there is none.
RouteMediaStatusIfNone ==
    /\ routing.type = "MEDIA_STATUS" /\ routing' = Nobody
    /\ mediaId' = IF mediaId = 0 THEN routing.m ELSE mediaId
    /\ mediaWatch' = IF routing.m = 0 THEN mediaWatch ELSE routing.m
    /\ events' = Offer(events, Other)
    /\ UNCHANGED <<transport, session, receiverWatch, conn, calls, net, device, races, missed>>

RouteMediaStatus ==
    /\ routing.type = "MEDIA_STATUS" /\ routing' = Nobody
    /\ IF routing.m = 0 THEN UNCHANGED <<mediaId, mediaWatch, events>>
       ELSE /\ mediaId' = routing.m
            /\ mediaWatch' = routing.m
            /\ events' = Offer(IF routing.idle THEN Offer(events, Other) ELSE events, Other)
    /\ UNCHANGED <<transport, session, receiverWatch, conn, calls, net, device, races, missed>>

\* The user's next_event().
NextEvent ==
    /\ events # <<>> /\ events' = Tail(events)
    /\ UNCHANGED <<ids, mediaWatch, receiverWatch, routing, conn, calls, net,
                   device, races, missed>>

-----------------------------------------------------------------------------
(* The connection is lost and comes back (ConnectionLifecycle has the      *)
(* details): a new write channel, then the CONNECTs.                       *)

LinkFails ==
    /\ link = "up" /\ losses < MaxLosses
    /\ link' = "down" /\ losses' = losses + 1
    /\ toDevice' = <<>> /\ toClient' = <<>> /\ opened' = {}
    /\ missed' = missed \cup Told(toClient)
    /\ UNCHANGED <<ids, views, routing, calls, app, apps, loading, media, medias, news,
                   races>>

\* The old reader has ended; the new channel is in place, the tracker cleared.
RecSwaps ==
    /\ link = "down" /\ routing = Nobody /\ link' = "swapped"
    /\ LET waiting == {c \in Calls : pc[c] = "wait"} IN
       /\ pc' = [c \in Calls |-> IF c \in waiting THEN "idle" ELSE pc[c]]
       /\ loc' = [c \in Calls |-> IF c \in waiting THEN Blank ELSE loc[c]]
    /\ UNCHANGED <<ids, views, routing, losses, called, net, device, races, missed>>

RecHello ==
    /\ link = "swapped" /\ link' = "hello" /\ Len(toDevice) < NetCap
    /\ toDevice' = Append(toDevice, connect_msg(Receiver))
    /\ UNCHANGED <<ids, views, routing, losses, calls, toClient, device, races, missed>>

\* Mutant: only the receiver's virtual connection is opened again.
RecReopensReceiverOnly ==
    /\ link = "hello" /\ link' = "up"
    /\ UNCHANGED <<ids, views, routing, losses, calls, net, device, races, missed>>

\* The transport's lock is held across the send.
RecReopens ==
    /\ link = "hello" /\ link' = "up" /\ Len(toDevice) < NetCap
    /\ toDevice' = IF transport = 0 THEN toDevice
                   ELSE Append(toDevice, connect_msg(transport))
    /\ UNCHANGED <<ids, views, routing, losses, calls, toClient, device, races, missed>>

-----------------------------------------------------------------------------
(* The device (external)                                                   *)

ReceiverStatus(c, a) ==
    [type |-> "RECEIVER_STATUS", req |-> c, app |-> a, m |-> 0, idle |-> FALSE]
MediaStatus(c, n, i) ==
    [type |-> "MEDIA_STATUS", req |-> c, app |-> 0, m |-> n, idle |-> i]
Bare(type, c) == [Nobody EXCEPT !.type = type, !.req = c]

\* What it says reaches the client if this connection opened the source.
Says(source, msgs) ==
    /\ Len(toClient) + Len(msgs) <= NetCap
    /\ toClient' = IF source \in opened THEN toClient \o msgs ELSE toClient
    /\ missed' = IF source \in opened THEN missed \ Told(msgs)
                                      ELSE missed \cup Told(msgs)
    /\ UNCHANGED <<ids, views, routing, conn, calls, races>>

\* It takes the next message, of one of these types, to an opened destination.
Takes(types) ==
    /\ toDevice # <<>> /\ Head(toDevice).type \in types
    /\ Head(toDevice).to \in opened /\ toDevice' = Tail(toDevice)

DeviceConnects ==
    /\ toDevice # <<>> /\ Head(toDevice).type = "CONNECT"
    /\ toDevice' = Tail(toDevice)
    /\ opened' = opened \cup ({Head(toDevice).to} \cap {Receiver, app})
    /\ UNCHANGED <<ids, views, routing, conn, calls, toClient, races, missed,
                   app, apps, loading, media, medias, news>>

\* A destination that is gone, or that this connection has not opened.
DeviceIgnores ==
    /\ toDevice # <<>> /\ Head(toDevice).type # "CONNECT"
    /\ Head(toDevice).to \notin opened /\ toDevice' = Tail(toDevice)
    /\ UNCHANGED <<ids, views, routing, conn, calls, toClient, races, missed, device>>

\* One running instance is launched again, or a new one is, at once or later.
DeviceLaunches ==
    /\ Takes({"LAUNCH"})
    /\ LET c == Head(toDevice).req IN
       \/ /\ app # 0 /\ Says(Receiver, <<ReceiverStatus(c, app)>>)
          /\ UNCHANGED <<app, apps, loading>>
       \/ /\ app = 0 /\ ~loading /\ apps < MaxApps
          /\ app' = apps + 1 /\ apps' = apps + 1 /\ UNCHANGED loading
          /\ Says(Receiver, <<ReceiverStatus(c, apps + 1)>>)
       \/ /\ app = 0 /\ apps < MaxApps /\ loading' = TRUE
          /\ Says(Receiver, <<ReceiverStatus(c, 0)>>) /\ UNCHANGED <<app, apps>>
       \/ /\ Says(Receiver, <<Bare("LAUNCH_ERROR", c)>>)
          /\ UNCHANGED <<app, apps, loading>>
    /\ UNCHANGED <<media, medias, opened, news>>

DeviceLoaded ==
    /\ loading /\ loading' = FALSE
    /\ app' = apps + 1 /\ apps' = apps + 1
    /\ Says(Receiver, <<ReceiverStatus(NoCall, apps + 1)>>)
    /\ UNCHANGED <<toDevice, media, medias, opened, news>>

AppEnds == app' = 0 /\ media' = 0 /\ opened' = opened \ {app}

DeviceStops ==
    /\ Takes({"STOP"})
    /\ LET m == Head(toDevice) IN
       IF m.s = app
       THEN AppEnds /\ Says(Receiver, <<Bare("CLOSE", NoCall), ReceiverStatus(m.req, 0)>>)
       ELSE /\ Says(Receiver, <<Bare("INVALID_REQUEST", m.req)>>)
            /\ UNCHANGED <<app, media, opened>>
    /\ UNCHANGED <<apps, loading, medias, news>>

OfItsOwn == news < MaxNews /\ news' = news + 1

DeviceDropsApp ==
    /\ OfItsOwn /\ app # 0 /\ AppEnds
    /\ Says(Receiver, <<Bare("CLOSE", NoCall), ReceiverStatus(NoCall, 0)>>)
    /\ UNCHANGED <<toDevice, apps, loading, medias>>

\* A load begins a session, or fails and ends the old one, maybe after an idle
\* status (LOAD_CANCELLED is answered like LOAD_FAILED).
DeviceLoads ==
    /\ Takes({"LOAD", "QUEUE_LOAD"})
    /\ LET m == Head(toDevice) IN
       \/ /\ m.s = app /\ medias < MaxMedia
          /\ media' = medias + 1 /\ medias' = medias + 1
          /\ Says(app, <<MediaStatus(m.req, medias + 1, FALSE)>>)
       \/ /\ m.s = app /\ media' = 0 /\ UNCHANGED medias
          /\ \/ Says(app, <<Bare("LOAD_FAILED", m.req)>>)
             \/ Says(app, <<MediaStatus(m.req, media, TRUE), Bare("LOAD_FAILED", m.req)>>)
       \/ /\ m.s # app /\ Says(app, <<Bare("INVALID_REQUEST", m.req)>>)
          /\ UNCHANGED <<media, medias>>
    /\ UNCHANGED <<app, apps, loading, opened, news>>

DeviceControls ==
    /\ Takes({"CONTROL", "MEDIA_STOP"})
    /\ LET m == Head(toDevice)
           ends == m.type = "MEDIA_STOP" /\ m.m = media IN
       /\ media' = IF ends THEN 0 ELSE media
       /\ Says(app, <<IF m.m = media THEN MediaStatus(m.req, media, ends)
                                     ELSE Bare("INVALID_REQUEST", m.req)>>)
    /\ UNCHANGED <<app, apps, loading, medias, opened, news>>

DeviceAnswers ==
    /\ Takes({"GET_STATUS", "PLAIN", "CUSTOM"})
    /\ LET m == Head(toDevice) IN
       Says(m.to, <<CASE m.type = "GET_STATUS" -> MediaStatus(m.req, media, FALSE)
                      [] m.type = "PLAIN" -> ReceiverStatus(m.req, app)
                      [] m.type = "CUSTOM" -> Bare("CUSTOM", m.req)>>)
    /\ UNCHANGED device

DeviceEndsMedia ==
    /\ OfItsOwn /\ media # 0 /\ media' = 0
    /\ Says(app, <<MediaStatus(NoCall, media, TRUE)>>)
    /\ UNCHANGED <<toDevice, app, apps, loading, medias, opened>>

\* Nobody asked: a status again, or an application's own message.
DeviceReports ==
    /\ OfItsOwn
    /\ \/ Receiver \in opened /\ Says(Receiver, <<ReceiverStatus(NoCall, app)>>)
       \/ media # 0 /\ app \in opened /\ Says(app, <<MediaStatus(NoCall, media, FALSE)>>)
       \/ app # 0 /\ app \in opened /\ Says(app, <<Bare("CUSTOM", NoCall)>>)
    /\ UNCHANGED <<toDevice, app, apps, loading, media, medias, opened>>

DeviceStep ==
    \/ DeviceConnects \/ DeviceIgnores \/ DeviceLaunches \/ DeviceLoaded
    \/ DeviceStops \/ DeviceDropsApp \/ DeviceLoads \/ DeviceControls
    \/ DeviceAnswers \/ DeviceEndsMedia \/ DeviceReports

Next ==
    \/ \E c \in Calls : CallStep(c)
    \/ Route \/ RouteReceiverStatus \/ RouteMediaStatus \/ NextEvent
    \/ LinkFails \/ RecSwaps \/ RecHello \/ RecReopens
    \/ DeviceStep

Spec == Init /\ [][Next]_vars

-----------------------------------------------------------------------------
(* Properties                                                              *)

\* load_media() and queue_load() read transport_id and session_id under two
\* locks (client.rs:538-539, 652-653), and launch_app() and stop_app() write
\* them under two: unless such a pair is cut by another, a LOAD names one
\* application, through a relaunch, a stop and a reconnect.
LoadNamesOneApp ==
    "ids" \notin races =>
        \A i \in DOMAIN toDevice :
            toDevice[i].type \in {"LOAD", "QUEUE_LOAD"} => toDevice[i].to = toDevice[i].s

\* Nothing reaches the receiver or the running application before a CONNECT
\* on the same connection: launch_app() sends it before it publishes the
\* transport, and a reconnect sends it again (client.rs:413-416), except to a
\* caller that writes before it does or whose launch it cuts in two.
UsedAfterConnect ==
    races \cap {"reopen", "late"} = {} =>
        \A i \in DOMAIN toDevice :
            LET t == toDevice[i].to IN
            t \in {Receiver, app} =>
                t \in opened \/ \E j \in 1 .. i : toDevice[j] = connect_msg(t)

\* No message is under way and no answer is being looked at.
Quiet ==
    /\ link = "up" /\ toDevice = <<>> /\ toClient = <<>> /\ routing = Nobody
    /\ \A c \in Calls : pc[c] # "reply"

\* The id play(), seek() and stop_media() will use is the device's session,
\* also when the load that began it timed out: the router follows the statuses
\* (router.rs:109-112).  When the session is over, the id is 0 or still names
\* that session, never an earlier one, though the router may store it again
\* after stop_media() has reset it.  An answer applied after a newer status, or
\* a status that never came (lost with its connection, or said while the
\* application was not connected to), spoils it only until the next status.
KnowsLiveSession ==
    Quiet /\ "id" \notin missed =>
        mediaId = media \/ (media = 0 /\ mediaId = medias)

\* The watches end at the device's state even when the event channel was full
\* and every event dropped (router.rs:83, 126).  A reconnect asks for no status
\* (client.rs:413-418): what was lost with the old connection is made good by
\* the first status of its kind on the new one.
WatchesCatchUp ==
    Quiet => /\ "receiver" \notin missed => receiverWatch = app
             /\ "media" \notin missed /\ media # 0 => mediaWatch = media

\* When load_media() or queue_load() returns Ok, the session it has stored and
\* returns was begun for this call.  The device may answer a load with an idle
\* status of the session it ends, before its LOAD_FAILED (client.rs:571-574,
\* which also says that such a status has no media): it is not taken for
\* success.
OkMeansNewSession ==
    \A c \in Calls :
        pc[c] = "reply" /\ loc[c].op \in Loads /\ LoadOk(loc[c].reply) =>
            loc[c].reply.m > loc[c].begun

\* launch_app() "wait[s] for a subsequent RECEIVER_STATUS" that names the
\* application (client.rs:445-446): what it returns was not over before the
\* call began.
LaunchIsFresh ==
    \A c \in Calls : loc[c].op = "launch_app" /\ pc[c] = "connect" => loc[c].t > loc[c].ended
=============================================================================
