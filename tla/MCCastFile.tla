----------------------------- MODULE MCCastFile -----------------------------
(***************************************************************************)
(* CastFile for TLC: every metadata variant with none, each one and all of *)
(* its fields, numbers beyond 32 bits (32 stands for 2^32), and answers    *)
(* with missing, mistyped and unknown parts.                               *)
(***************************************************************************)
EXTENDS CastFile, TLC

Sample(f) == IF f \in Integral THEN 3 ELSE IF f \in Floats THEN -7 ELSE "text " \o f
Picks(v) == LET F == DOMAIN WriteKey[v] IN {{}, F} \cup {{f} : f \in F}
Images == <<[url |-> "u", width |-> {5}, height |-> {}],
            [url |-> "w", width |-> {}, height |-> {6}]>>
Metadatas ==
    UNION {{[variant |-> v, images |-> IF some = DOMAIN WriteKey[v] THEN Images ELSE <<>>,
             fields |-> [f \in DOMAIN WriteKey[v] |-> IF f \in some THEN {Sample(f)} ELSE {}]]
              : some \in Picks(v)}
           : v \in {Variants[i] : i \in DOMAIN Variants}}

NewMedia == [content_id |-> "url", content_type |-> "video/mp4", stream_type |-> "Buffered",
             duration |-> {}, metadata |-> {}]
MCMedias ==
    {[NewMedia EXCEPT !.metadata = {m}] : m \in Metadatas}
        \cup {[NewMedia EXCEPT !.stream_type = s] : s \in {"Buffered", "Live", "None"}}
        \cup {[NewMedia EXCEPT !.duration = {d}] : d \in {-1, 0, 9}}

App(keys) == Obj([k \in keys |-> Str(IF k = "appId" THEN Target ELSE k)])
AppKeys == {"appId", "sessionId", "transportId"}
Status(o) == ("type" :> Str("RECEIVER_STATUS")) @@ ("status" :> Obj(o))
MCReceiverJsons ==
    {Status(("volume" :> Obj("level" :> Num(1))) @@ ("applications" :> Arr(<<a, b>>)))
        : a \in {App(AppKeys \ {k}) : k \in AppKeys}, b \in {App(AppKeys), App({"appId"})}}
    \cup {Status("applications" :> Arr(<<App(AppKeys)>>)),
          Status("volume" :> Num(1)), "type" :> Str("LAUNCH_STATUS"),
          "type" :> Str("LAUNCH_ERROR")}

Entry(state, id, media) ==
    ("playerState" :> Str(state)) @@ ("idleReason" :> Str("ERROR"))
      @@ (IF id = {} THEN <<>> ELSE "mediaSessionId" :> Num(CHOOSE x \in id : TRUE))
      @@ (IF media = {} THEN <<>> ELSE "media" :> CHOOSE x \in media : TRUE)
MCMediaJsons(wire) ==
    {"status" :> Arr(<<Obj(Entry("PLAYING", id, m))>>) : id \in {{}, {1}, {35}}, m \in {{}, {wire}}}
    \cup {"status" :> Arr(<<Obj(Entry(s, {1}, m))>>) : s \in {"IDLE", "LOADING"}, m \in {{}, {wire}}}
    \cup {"status" :> Arr(<<>>), "type" :> Str("MEDIA_STATUS"), "type" :> Str("LOAD_FAILED")}
=============================================================================
