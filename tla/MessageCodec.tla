---------------------------- MODULE MessageCodec ----------------------------
(***************************************************************************)
(* The conversions between the client's types and the JSON of the wire:    *)
(* what load() and queue_load() write (channel/media.rs), and what the     *)
(* router and the client read from a MEDIA_STATUS and a RECEIVER_STATUS    *)
(* (router.rs:188-390).                                                    *)
(*                                                                         *)
(* A JSON value is a pair of its type and content; an object is a function *)
(* from the keys it has.  An Option is a set with at most one element, so  *)
(* that and_then, map and filter are set comprehensions.  A float is a     *)
(* finite one, and an integer: only the sign of a duration matters.        *)
(* (JSON has no others: serde_json writes null for an f64 that is infinite *)
(* or not a number, which is read as None.)  Left out: fields that are     *)
(* only copied and that nothing else reads (namespaces, status text, the   *)
(* standby flags, position and volume of a media status).                  *)
(***************************************************************************)
EXTENDS Integers, Sequences

CONSTANTS U32,  \* values of a u32
          I32   \* values of an i32 from 0 up: half as many

ASSUME WidthAssumption == U32 \in Nat \ {0} /\ I32 \in Nat \ {0}

Str(x) == <<"s", x>>
Num(x) == <<"n", x>>
Obj(x) == <<"o", x>>
Arr(x) == <<"a", x>>

get(o, k) == IF k \in DOMAIN o THEN {o[k]} ELSE {}
Of(type, opt) == {v[2] : v \in {w \in opt : w[1] = type}}
as_str(opt) == Of("s", opt)
as_f64(opt) == Of("n", opt)
as_u64(opt) == {x \in Of("n", opt) : x >= 0}
Child(opt, k) == UNION {get(o, k) : o \in Of("o", opt)}
Fields(v) == IF v[1] = "o" THEN v[2] ELSE <<>>  \* get() of another type: None
unwrap_or(opt, x) == IF opt = {} THEN x ELSE CHOOSE y \in opt : TRUE

as_u32(x) == x % U32
as_i32(x) == ((x + I32) % (2 * I32)) - I32

-----------------------------------------------------------------------------
(* Metadata: the fields of each variant and the keys they are written to   *)

Variants == <<"Generic", "Movie", "TvShow", "MusicTrack", "Photo", "AudiobookChapter">>
MetadataType(v) == (CHOOSE i \in DOMAIN Variants : Variants[i] = v) - 1

WriteKey ==
    [Generic |-> [title |-> "title", subtitle |-> "subtitle"],
     Movie |-> [title |-> "title", subtitle |-> "subtitle", studio |-> "studio"],
     TvShow |-> [series_title |-> "seriesTitle", episode_title |-> "title",
                 season |-> "season", episode |-> "episode"],
     MusicTrack |-> [title |-> "title", artist |-> "artist", album_name |-> "albumName",
                     composer |-> "composer", track_number |-> "trackNumber",
                     disc_number |-> "discNumber"],
     Photo |-> [title |-> "title", artist |-> "artist", location |-> "location",
                latitude |-> "latitude", longitude |-> "longitude",
                width |-> "width", height |-> "height"],
     AudiobookChapter |-> [book_title |-> "bookTitle", chapter_title |-> "chapterTitle",
                           chapter_number |-> "chapterNumber", subtitle |-> "subtitle"]]

Integral == {"season", "episode", "track_number", "disc_number", "width", "height",
           "chapter_number"}
Floats == {"latitude", "longitude"}
JsonOf(f, x) == IF f \in Integral \cup Floats THEN Num(x) ELSE Str(x)

\* An image is [url, width, height].
serialize_images(images) ==
    Arr([i \in DOMAIN images |->
        LET img == images[i]
            sizes == {f \in {"width", "height"} : img[f] # {}} IN
        Obj([k \in {"url"} \cup sizes |->
            IF k = "url" THEN Str(img.url) ELSE Num(CHOOSE x \in img[k] : TRUE)])])

\* insert_opt: a field that is None has no key.
serialize_metadata(m) ==
    LET key == WriteKey[m.variant]
        some == {f \in DOMAIN key : m.fields[f] # {}}
        field(k) == CHOOSE f \in some : key[f] = k IN
    Obj([k \in {"metadataType", "images"} \cup {key[f] : f \in some} |->
        CASE k = "metadataType" -> Num(MetadataType(m.variant))
          [] k = "images" -> serialize_images(m.images)
          [] OTHER -> JsonOf(field(k), CHOOSE x \in m.fields[field(k)] : TRUE)])

\* The media object of LOAD, and of each item of QUEUE_LOAD and QUEUE_INSERT.
serialize_media(media) ==
    LET some == {f \in {"duration", "metadata"} : media[f] # {}} IN
    Obj([k \in {"contentId", "contentType", "streamType"} \cup some |->
        CASE k = "contentId" -> Str(media.content_id)
          [] k = "contentType" -> Str(media.content_type)
          [] k = "streamType" -> Str(CASE media.stream_type = "Buffered" -> "BUFFERED"
                                       [] media.stream_type = "Live" -> "LIVE"
                                       [] media.stream_type = "None" -> "NONE")
          [] k = "duration" -> Num(CHOOSE x \in media.duration : TRUE)
          [] k = "metadata" -> serialize_metadata(CHOOSE x \in media.metadata : TRUE)])

\* The types of what is written (types.rs).
OptionOf(o, S) == o = {} \/ \E x \in o : x \in S /\ o = {x}
IsImage(img) ==
    /\ img = [url |-> img.url, width |-> img.width, height |-> img.height]
    /\ OptionOf(img.width, 0 .. U32 - 1) /\ OptionOf(img.height, 0 .. U32 - 1)
FieldType(f) == IF f \in Integral THEN 0 .. U32 - 1
                ELSE IF f \in Floats THEN Int ELSE STRING
IsMetadata(m) ==
    /\ m = [variant |-> m.variant, images |-> m.images, fields |-> m.fields]
    /\ \E i \in DOMAIN Variants : m.variant = Variants[i]
    /\ m.images \in Seq({m.images[i] : i \in DOMAIN m.images})
    /\ \A i \in DOMAIN m.images : IsImage(m.images[i])
    /\ m.fields = [f \in DOMAIN WriteKey[m.variant] |-> m.fields[f]]
    /\ \A f \in DOMAIN m.fields : OptionOf(m.fields[f], FieldType(f))
IsMedia(m) ==
    /\ m = [content_id |-> m.content_id, content_type |-> m.content_type,
            stream_type |-> m.stream_type, duration |-> m.duration,
            metadata |-> m.metadata]
    /\ m.stream_type \in {"Buffered", "Live", "None"}
    /\ OptionOf(m.duration, Int)
    /\ m.metadata = {} \/ \E x \in m.metadata : IsMetadata(x) /\ m.metadata = {x}

-----------------------------------------------------------------------------
(* Reading                                                                 *)

\* filter_map: an image without a url is left out.  What is kept keeps its
\* position in the array, here and in parse_applications: the order is all that
\* anything reads of it.
parse_images(meta) ==
    LET arr == unwrap_or(Of("a", get(meta, "images")), <<>>)
        url(e) == as_str(Child({e}, "url"))
        size(e, k) == {as_u32(x) : x \in as_u64(Child({e}, k))} IN
    [i \in {j \in DOMAIN arr : url(arr[j]) # {}} |->
        [url |-> CHOOSE x \in url(arr[i]) : TRUE,
         width |-> size(arr[i], "width"), height |-> size(arr[i], "height")]]

\* Mutant: the title an episode was written with is not looked for.
ReadKeysStrict(v, f) ==
    CASE v = "TvShow" /\ f = "episode_title" -> <<"episodeTitle", "episodeTitle">>
      [] v = "MusicTrack" /\ f = "artist" -> <<"artist", "albumArtist">>
      [] OTHER -> <<WriteKey[v][f], WriteKey[v][f]>>

\* or_else: another key is tried when the first is not there.
ReadKeys(v, f) ==
    CASE v = "TvShow" /\ f = "episode_title" -> <<"episodeTitle", "title">>
      [] v = "MusicTrack" /\ f = "artist" -> <<"artist", "albumArtist">>
      [] OTHER -> <<WriteKey[v][f], WriteKey[v][f]>>

\* An unknown metadataType is read as Generic.
parse_metadata(meta) ==
    LET type == unwrap_or(as_u64(get(meta, "metadataType")), 0)
        v == IF type < Len(Variants) THEN Variants[type + 1] ELSE "Generic"
        read(f) == LET k == ReadKeys(v, f) IN
                   get(meta, IF k[1] \in DOMAIN meta THEN k[1] ELSE k[2]) IN
    [variant |-> v, images |-> parse_images(meta),
     fields |-> [f \in DOMAIN WriteKey[v] |->
        CASE f \in Integral -> {as_u32(x) : x \in as_u64(read(f))}
          [] f \in Floats -> as_f64(read(f))
          [] OTHER -> as_str(read(f))]]

Positive(opt) == {d \in opt : d > 0}

\* Without a contentId there is no MediaInfo.
parse_media(m) ==
    {[content_id |-> id,
      content_type |-> unwrap_or(as_str(get(m, "contentType")), ""),
      stream_type |-> LET s == unwrap_or(as_str(get(m, "streamType")), "") IN
                      IF s = "BUFFERED" THEN "Buffered"
                      ELSE IF s = "LIVE" THEN "Live" ELSE "None",
      duration |-> Positive(as_f64(get(m, "duration"))),
      metadata |-> {parse_metadata(Fields(x)) : x \in get(m, "metadata")}]
        : id \in as_str(get(m, "contentId"))}

PlayerStates == [IDLE |-> "Idle", PLAYING |-> "Playing", PAUSED |-> "Paused",
                 BUFFERING |-> "Buffering"]
IdleReasons == [CANCELLED |-> "Cancelled", INTERRUPTED |-> "Interrupted",
                FINISHED |-> "Finished", ERROR |-> "Error"]

\* The first status of an answer, as an Option.
StatusEntry(json) == {a[1] : a \in {b \in Of("a", get(json, "status")) : b # <<>>}}

\* An Option: no entry, an unknown player state or no session id give None.
parse_media_status(json) ==
    LET entries == StatusEntry(json)
        states == {PlayerStates[s] : s \in as_str(Child(entries, "playerState"))
                                            \cap DOMAIN PlayerStates} IN
    {[media_session_id |-> as_i32(id), player_state |-> s,
      idle_reason |-> {IdleReasons[r] : r \in as_str(Child(entries, "idleReason"))
                                               \cap DOMAIN IdleReasons},
      duration |-> Positive(as_f64(Child(Child(entries, "media"), "duration"))),
      media |-> UNION {parse_media(m) : m \in Of("o", Child(entries, "media"))}]
        : s \in states, id \in Of("n", Child(entries, "mediaSessionId"))}

\* The types of an answer that make every request method return an error.
check_device_error(json) ==
    as_str(get(json, "type"))
        \cap {"LOAD_FAILED", "LOAD_CANCELLED", "INVALID_REQUEST", "LAUNCH_ERROR"} # {}

RequiredIdsFewer == {"appId", "transportId"}  \* mutant
RequiredIds == {"appId", "sessionId", "transportId"}

\* filter_map: an application without one of its three ids is left out.
parse_applications(status) ==
    LET arr == unwrap_or(Of("a", get(status, "applications")), <<>>)
        ok(a) == \A k \in RequiredIds : as_str(Child({a}, k)) # {}
        the(a, k) == unwrap_or(as_str(Child({a}, k)), "") IN
    [i \in {j \in DOMAIN arr : ok(arr[j])} |->
        [app_id |-> the(arr[i], "appId"), session_id |-> the(arr[i], "sessionId"),
         transport_id |-> the(arr[i], "transportId"),
         display_name |-> the(arr[i], "displayName")]]

\* An Option: without a status, or without its volume, None.
parse_receiver_status(json) ==
    UNION {{[volume |-> [level |-> unwrap_or(as_f64(Child({v}, "level")), 1),
                         muted |-> unwrap_or(Of("b", Child({v}, "muted")), FALSE)],
             applications |-> parse_applications(s)] : v \in get(s, "volume")}
           : s \in Of("o", get(json, "status"))}
=============================================================================
