------------------------------ MODULE CastFile ------------------------------
(***************************************************************************)
(* A local file is cast (client.rs:733-746): launch_app(), a FileServer,   *)
(* serve_file(), load_media() of the URL, after which the device fetches   *)
(* the file.  It composes FileServer with the conversions of MessageCodec: *)
(* what the device reports of the media is what it was told in the LOAD.   *)
(* CastSession has the same calls with their interleavings.                *)
(***************************************************************************)
EXTENDS FileServer, MessageCodec

CONSTANTS Job,            \* the registrar that casts its file
          Medias,         \* what it loads
          ReceiverJsons,  \* answers to LAUNCH
          MediaJsons(_)   \* answers to a LOAD of this media object

\* The device gives no empty ids, and the media it reports is what it was sent.
ASSUME IdsAssumption ==
    \A json \in ReceiverJsons : \A s \in Of("o", get(json, "status")) :
        \A a \in Of("a", get(s, "applications")) : \A i \in DOMAIN a :
            \A k \in {"appId", "sessionId", "transportId"} : "" \notin as_str(Child({a[i]}, k))
ASSUME MediasAssumption == \A m \in Medias : IsMedia(m)
ASSUME EchoAssumption ==
    \A m \in Medias : \A json \in MediaJsons(serialize_media(m)) :
        Child(StatusEntry(json), "media") \subseteq {serialize_media(m)}

VARIABLE job
vars == <<serverVars, job>>

Target == "app"
NoStatus == {}
NewJob == [pc |-> "launch", app |-> {}, media |-> {}, wire |-> <<>>,
           status |-> NoStatus]

TypeOK == ServerTypeOK /\ job.pc \in {"launch", "start", "serve", "load", "answer",
                                      "check", "playing", "error"}

Init == ServerInit /\ job = NewJob

JobGoes(from, j) == job.pc = from /\ job' = j
Quit == [NewJob EXCEPT !.pc = "error"]

\* find(): the first application with the id, as an Option.
Found(apps) ==
    LET hits == {i \in DOMAIN apps : apps[i].app_id = Target} IN
    {apps[i] : i \in {h \in hits : \A j \in hits : h <= j}}

\* launch_app(), where the answer itself has the application.  (CastSession has
\* the wait for a later status.)
LaunchApp ==
    /\ \E json \in ReceiverJsons :
          LET found == UNION {Found(s.applications) : s \in parse_receiver_status(json)} IN
          JobGoes("launch", IF check_device_error(json) \/ found = {} THEN Quit
                            ELSE [job EXCEPT !.pc = "start", !.app = found])
    /\ UNCHANGED serverVars

JobStarts ==
    /\ Start
    /\ JobGoes("start", IF up' THEN [job EXCEPT !.pc = "serve"] ELSE Quit)

\* serve_file() has returned; on an error the server is dropped with the call.
JobServes ==
    /\ JobGoes("serve", IF reg[Job].pc = "done" THEN [job EXCEPT !.pc = "load"] ELSE Quit)
    /\ reg[Job].pc \in {"done", "error"} /\ up' = (reg[Job].pc = "done")
    /\ UNCHANGED <<fs, registry, http>>

LoadMedia ==
    /\ \E m \in Medias :
          JobGoes("load", [job EXCEPT !.pc = "answer", !.media = {m},
                                      !.wire = serialize_media(m)])
    /\ UNCHANGED serverVars

\* The answer: an error, or a status is parsed.  (CastSession has the session
\* id that is stored before that.)
Answered ==
    /\ \E json \in MediaJsons(job.wire) :
          /\ JobGoes("answer",
               IF check_device_error(json) THEN Quit
               ELSE [job EXCEPT !.pc = "check", !.wire = <<>>,
                                !.status = parse_media_status(json)])
          /\ up' = ~check_device_error(json)
    /\ UNCHANGED <<fs, registry, http>>

\* No status, or an idle one without media, is an error.
Accepted(j) ==
    \E s \in j.status : s.player_state # "Idle" \/ s.media # {}

LoadReturns ==
    /\ JobGoes("check", IF Accepted(job) THEN [NewJob EXCEPT !.pc = "playing"] ELSE Quit)
    /\ up' = Accepted(job)
    /\ UNCHANGED <<fs, registry, http>>

JobStep ==
    \/ LaunchApp \/ JobStarts \/ JobServes \/ LoadMedia \/ Answered \/ LoadReturns

\* Other requests and registrations, and the files, go on meanwhile.
Next ==
    \/ JobStep
    \/ UNCHANGED job /\ \/ \E r \in Registrars : RegisterStep(r)
                        \/ job.pc = "playing" /\ \E h \in Gets : HttpStep(h)
                        \/ Changes

Spec == Init /\ [][Next]_vars

-----------------------------------------------------------------------------
(* Properties                                                              *)

\* Messages can be addressed to the application launch_app() returns: it has
\* the id asked for, a session and a transport, whatever entries the device's
\* status holds beside it (router.rs:202-237).
LaunchedAppIsUsable ==
    \A a \in job.app : a.app_id = Target /\ a.session_id # "" /\ a.transport_id # ""

\* The media a device echoes comes back as what was loaded: no field is lost,
\* renamed or taken for another on the way through media.rs and router.rs, for
\* finite numbers (JSON has no others: serde_json writes null for them, which is
\* read as None); only a duration that is not positive becomes None.
LoadedIsReported ==
    job.pc = "check" =>
        \A s \in job.status, m \in job.media :
            s.media # {} => s.media = {[m EXCEPT !.duration = Positive(@)]}
=============================================================================
