---------------------------- MODULE CodecProofs ----------------------------
(***************************************************************************)
(* What media.rs writes, router.rs reads back: the round trip of a media   *)
(* object through its JSON, for every value of every field.                *)
(***************************************************************************)
EXTENDS MessageCodec, TLAPS

VariantNames == {"Generic", "Movie", "TvShow", "MusicTrack", "Photo", "AudiobookChapter"}

-----------------------------------------------------------------------------
(* Values and options                                                      *)

LEMMA OptionCases ==
    ASSUME NEW o, NEW S, OptionOf(o, S)
    PROVE  o = {} \/ \E x \in S : o = {x}
BY DEF OptionOf

LEMMA ChosenOfOne ==
    ASSUME NEW x
    PROVE  (CHOOSE y \in {x} : TRUE) = x
OBVIOUS

LEMMA UnwrapOne ==
    ASSUME NEW x, NEW y
    PROVE  unwrap_or({x}, y) = x
BY ChosenOfOne DEF unwrap_or

\* Reading a type gives back what was tagged with it.
LEMMA Untag ==
    ASSUME NEW o, NEW t
    PROVE  Of(t, {<<t, x>> : x \in o}) = o
<1> DEFINE T == {<<t, x>> : x \in o}
<1>1. \A w \in T : w[1] = t /\ w[2] \in o
  OBVIOUS
<1>2. \A x \in o : <<t, x>> \in T /\ <<t, x>>[1] = t /\ <<t, x>>[2] = x
  OBVIOUS
<1> HIDE DEF T
<1>3. {w \in T : w[1] = t} = T
  BY <1>1
<1>4. Of(t, T) = {w[2] : w \in T}
  BY <1>3 DEF Of
<1>5. {w[2] : w \in T} = o
  <2>1. \A x \in o : x \in {w[2] : w \in T}
    BY <1>2
  <2>2. \A x \in {w[2] : w \in T} : x \in o
    BY <1>1
  <2> QED BY <2>1, <2>2
<1> QED BY <1>4, <1>5 DEF T

LEMMA UntagOne ==
    ASSUME NEW x, NEW t
    PROVE  Of(t, {<<t, x>>}) = {x}
<1>1. {<<t, y>> : y \in {x}} = {<<t, x>>}
  OBVIOUS
<1> QED BY <1>1, Untag

LEMMA UntagStr ==
    ASSUME NEW o
    PROVE  as_str({Str(x) : x \in o}) = o
BY Untag DEF as_str, Str

LEMMA UntagNum ==
    ASSUME NEW o
    PROVE  as_f64({Num(x) : x \in o}) = o
BY Untag DEF as_f64, Num

\* A number of 32 bits survives as_u64() and the cast to u32.
LEMMA UntagU32 ==
    ASSUME NEW o, OptionOf(o, 0 .. U32 - 1)
    PROVE  {as_u32(x) : x \in as_u64({Num(x) : x \in o})} = o
<1>1. Of("n", {Num(x) : x \in o}) = o
  BY Untag DEF Num
<1>2. as_u64({Num(x) : x \in o}) = {x \in o : x >= 0}
  BY <1>1 DEF as_u64
<1>3. CASE o = {}
  BY <1>2, <1>3
<1>4. CASE \E x \in 0 .. U32 - 1 : o = {x}
  <2>1. PICK x \in 0 .. U32 - 1 : o = {x}
    BY <1>4
  <2>2. x \in Nat /\ U32 \in Nat \ {0} /\ x < U32
    BY WidthAssumption
  <2>3. as_u32(x) = x
    BY <2>2 DEF as_u32
  <2>4. {y \in o : y >= 0} = {x}
    BY <2>1, <2>2
  <2> QED BY <1>2, <2>1, <2>3, <2>4
<1> QED BY <1>3, <1>4, OptionCases

-----------------------------------------------------------------------------
(* The two tables of keys                                                  *)

\* Within a variant no two fields share a key, none takes the key of the type or
\* of the images, and none the key that reading prefers to the one written.
LEMMA KeysAreDistinct ==
    ASSUME NEW v \in VariantNames, NEW f \in DOMAIN WriteKey[v]
    PROVE  /\ \A g \in DOMAIN WriteKey[v] : WriteKey[v][f] = WriteKey[v][g] => f = g
           /\ WriteKey[v][f] \notin {"metadataType", "images", "episodeTitle", "albumArtist"}
<1>1. CASE v = "Generic"
  BY <1>1 DEF WriteKey
<1>2. CASE v = "Movie"
  BY <1>2 DEF WriteKey
<1>3. CASE v = "TvShow"
  BY <1>3 DEF WriteKey
<1>4. CASE v = "MusicTrack"
  BY <1>4 DEF WriteKey
<1>5. CASE v = "Photo"
  BY <1>5 DEF WriteKey
<1>6. CASE v = "AudiobookChapter"
  BY <1>6 DEF WriteKey
<1> QED BY <1>1, <1>2, <1>3, <1>4, <1>5, <1>6 DEF VariantNames

LEMMA PreferredKeys ==
    ASSUME NEW v \in VariantNames, NEW f \in DOMAIN WriteKey[v]
    PROVE  \/ ReadKeys(v, f) = <<WriteKey[v][f], WriteKey[v][f]>>
           \/ ReadKeys(v, f) = <<"episodeTitle", WriteKey[v][f]>>
           \/ ReadKeys(v, f) = <<WriteKey[v][f], "albumArtist">>
<1>1. CASE v = "TvShow" /\ f = "episode_title"
  BY <1>1 DEF ReadKeys, WriteKey
<1>2. CASE v = "MusicTrack" /\ f = "artist"
  BY <1>2 DEF ReadKeys, WriteKey
<1>3. CASE ~(v = "TvShow" /\ f = "episode_title") /\ ~(v = "MusicTrack" /\ f = "artist")
  BY <1>3 DEF ReadKeys
<1> QED BY <1>1, <1>2, <1>3

LEMMA VariantIndex ==
    ASSUME NEW v \in VariantNames
    PROVE  /\ MetadataType(v) \in 0 .. 5 /\ Len(Variants) = 6
           /\ Variants[MetadataType(v) + 1] = v
<1>1. DOMAIN Variants = 1 .. 6 /\ Len(Variants) = 6
  BY DEF Variants
<1>2. \E i \in DOMAIN Variants : Variants[i] = v
  BY <1>1 DEF Variants, VariantNames
<1> DEFINE n == CHOOSE i \in DOMAIN Variants : Variants[i] = v
<1>3. n \in DOMAIN Variants /\ Variants[n] = v
  BY <1>2
<1>4. MetadataType(v) = n - 1
  BY DEF MetadataType
<1> HIDE DEF n
<1> QED BY <1>1, <1>3, <1>4

LEMMA VariantsAreNamed ==
    ASSUME NEW v
    PROVE  (\E i \in DOMAIN Variants : v = Variants[i]) => v \in VariantNames
BY DEF Variants, VariantNames

-----------------------------------------------------------------------------
(* Metadata                                                                *)

Written(m) == serialize_metadata(m)[2]

\* The object that is written has the type, the images, and a key for each
\* field that is there.
LEMMA WhatIsWritten ==
    ASSUME NEW m, m.variant \in VariantNames
    PROVE  LET key == WriteKey[m.variant]
               some == {f \in DOMAIN key : m.fields[f] # {}} IN
           /\ DOMAIN Written(m) = {"metadataType", "images"} \cup {key[f] : f \in some}
           /\ Written(m)["metadataType"] = Num(MetadataType(m.variant))
           /\ Written(m)["images"] = serialize_images(m.images)
           /\ \A f \in some : Written(m)[key[f]] = JsonOf(f, CHOOSE x \in m.fields[f] : TRUE)
<1> DEFINE key == WriteKey[m.variant]
           some == {f \in DOMAIN key : m.fields[f] # {}}
           keys == {"metadataType", "images"} \cup {key[f] : f \in some}
           field(k) == CHOOSE f \in some : key[f] = k
           value(f) == JsonOf(f, CHOOSE x \in m.fields[f] : TRUE)
           type == Num(MetadataType(m.variant))
           images == serialize_images(m.images)
           content == [k \in keys |-> CASE k = "metadataType" -> type
                                       [] k = "images" -> images
                                       [] OTHER -> value(field(k))]
<1>1. Written(m) = content
  BY DEF Written, serialize_metadata, Obj
<1>2. \A f \in some : /\ key[f] \in keys /\ key[f] \notin {"metadataType", "images"}
                       /\ field(key[f]) = f
  <2> SUFFICES ASSUME NEW f \in some
               PROVE  /\ key[f] \in keys /\ key[f] \notin {"metadataType", "images"}
                      /\ field(key[f]) = f
    OBVIOUS
  <2>1. /\ \A g \in some : key[f] = key[g] => f = g
        /\ key[f] \notin {"metadataType", "images"}
    BY KeysAreDistinct
  <2> HIDE DEF key, some
  <2>2. field(key[f]) = f
    BY <2>1
  <2> QED BY <2>1, <2>2
<1> HIDE DEF key, some, field, value, type, images
<1>3. /\ DOMAIN content = keys
      /\ content["metadataType"] = type /\ content["images"] = images
  OBVIOUS
<1>4. \A f \in some : content[key[f]] = value(f)
  <2> SUFFICES ASSUME NEW f \in some PROVE content[key[f]] = value(f)
    OBVIOUS
  <2>1. content[key[f]] = value(field(key[f]))
    BY <1>2
  <2> QED BY <2>1, <1>2
<1> QED BY <1>1, <1>3, <1>4 DEF key, some, value, type, images

\* A field is found under the key it was written to, or is not there.
LEMMA FieldIsFound ==
    ASSUME NEW m, IsMetadata(m), NEW f \in DOMAIN WriteKey[m.variant],
           m.variant \in VariantNames, OptionOf(m.fields[f], FieldType(f))
    PROVE  get(Written(m), WriteKey[m.variant][f]) = {JsonOf(f, x) : x \in m.fields[f]}
<1> DEFINE key == WriteKey[m.variant]
           some == {g \in DOMAIN key : m.fields[g] # {}}
<1>1. /\ DOMAIN Written(m) = {"metadataType", "images"} \cup {key[g] : g \in some}
      /\ \A g \in some : Written(m)[key[g]] = JsonOf(g, CHOOSE x \in m.fields[g] : TRUE)
  BY WhatIsWritten
<1>2. /\ \A g \in some : key[f] = key[g] => f = g
      /\ key[f] \notin {"metadataType", "images"}
  BY KeysAreDistinct
<1>3. CASE m.fields[f] = {}
  <2>1. f \notin some
    BY <1>3
  <2> HIDE DEF key, some
  <2>2. key[f] \notin DOMAIN Written(m)
    BY <1>1, <1>2, <2>1
  <2>3. get(Written(m), key[f]) = {}
    BY <2>2 DEF get
  <2> QED BY <2>3, <1>3 DEF key
<1>4. CASE m.fields[f] # {}
  <2>1. f \in some
    BY <1>4
  <2>2. PICK x : m.fields[f] = {x}
    BY <1>4, OptionCases
  <2> HIDE DEF key, some
  <2>3. key[f] \in DOMAIN Written(m) /\ Written(m)[key[f]] = JsonOf(f, x)
    BY <1>1, <2>1, <2>2, ChosenOfOne
  <2>4. get(Written(m), key[f]) = {JsonOf(f, x)}
    BY <2>3 DEF get
  <2> QED BY <2>2, <2>4 DEF key
<1> QED BY <1>3, <1>4

\* or_else() finds the same, whichever key it tries first.
LEMMA FieldIsRead ==
    ASSUME NEW m, IsMetadata(m), NEW f \in DOMAIN WriteKey[m.variant],
           m.variant \in VariantNames, OptionOf(m.fields[f], FieldType(f)),
           NEW k, k = ReadKeys(m.variant, f)
    PROVE  get(Written(m), IF k[1] \in DOMAIN Written(m) THEN k[1] ELSE k[2])
             = {JsonOf(f, x) : x \in m.fields[f]}
<1> DEFINE key == WriteKey[m.variant]
<1>1. DOMAIN Written(m) \subseteq {"metadataType", "images"} \cup {key[g] : g \in DOMAIN key}
  <2> DEFINE some == {g \in DOMAIN key : m.fields[g] # {}}
  <2>1. DOMAIN Written(m) = {"metadataType", "images"} \cup {key[g] : g \in some}
    BY WhatIsWritten
  <2>2. \A g \in some : g \in DOMAIN key
    OBVIOUS
  <2> HIDE DEF key, some
  <2> QED BY <2>1, <2>2
<1>2. "episodeTitle" \notin DOMAIN Written(m) /\ "albumArtist" \notin DOMAIN Written(m)
  BY <1>1, KeysAreDistinct
<1>3. get(Written(m), key[f]) = {JsonOf(f, x) : x \in m.fields[f]}
  BY FieldIsFound
<1>4. \/ k = <<key[f], key[f]>> \/ k = <<"episodeTitle", key[f]>>
      \/ k = <<key[f], "albumArtist">>
  BY PreferredKeys
<1> HIDE DEF key
<1>5. CASE k = <<key[f], key[f]>>
  BY <1>3, <1>5
<1>6. CASE k = <<"episodeTitle", key[f]>>
  BY <1>2, <1>3, <1>6
<1>7. CASE k = <<key[f], "albumArtist">>
  <2>1. CASE key[f] \in DOMAIN Written(m)
    BY <2>1, <1>3, <1>7
  <2>2. CASE key[f] \notin DOMAIN Written(m)
    BY <2>2, <1>2, <1>3, <1>7 DEF get
  <2> QED BY <2>1, <2>2
<1> QED BY <1>4, <1>5, <1>6, <1>7

\* A field comes back as what it was, whichever type it has.
FieldValue(f, read) ==
    CASE f \in Integral -> {as_u32(x) : x \in as_u64(read)}
      [] f \in Floats -> as_f64(read)
      [] OTHER -> as_str(read)

LEMMA FieldIsConverted ==
    ASSUME NEW f, NEW o, OptionOf(o, FieldType(f))
    PROVE  FieldValue(f, {JsonOf(f, x) : x \in o}) = o
<1>1. CASE f \in Integral
  <2>1. {JsonOf(f, x) : x \in o} = {Num(x) : x \in o}
    BY <1>1 DEF JsonOf
  <2>2. OptionOf(o, 0 .. U32 - 1)
    BY <1>1 DEF FieldType
  <2>3. {as_u32(x) : x \in as_u64({Num(x) : x \in o})} = o
    BY <2>2, UntagU32
  <2>4. ASSUME NEW read PROVE FieldValue(f, read) = {as_u32(x) : x \in as_u64(read)}
    <3>1. f \notin Floats
      BY <1>1 DEF Integral, Floats
    <3> QED BY <1>1, <3>1 DEF FieldValue
  <2>5. FieldValue(f, {Num(x) : x \in o}) = o
    BY <2>3, <2>4
  <2> QED BY <2>1, <2>5
<1>2. CASE f \in Floats /\ f \notin Integral
  <2>1. {JsonOf(f, x) : x \in o} = {Num(x) : x \in o}
    BY <1>2 DEF JsonOf
  <2> QED BY <1>2, <2>1, UntagNum DEF FieldValue
<1>3. CASE f \notin Floats /\ f \notin Integral
  <2>1. {JsonOf(f, x) : x \in o} = {Str(x) : x \in o}
    BY <1>3 DEF JsonOf
  <2> QED BY <1>3, <2>1, UntagStr DEF FieldValue
<1> QED BY <1>1, <1>2, <1>3

-----------------------------------------------------------------------------
(* Images                                                                  *)

LEMMA ChildOfObj ==
    ASSUME NEW o, NEW k
    PROVE  Child({Obj(o)}, k) = get(o, k)
<1>1. Of("o", {Obj(o)}) = {o}
  BY UntagOne DEF Obj
<1> QED BY <1>1 DEF Child

ImageJson(img) ==
    LET sizes == {f \in {"width", "height"} : img[f] # {}} IN
    [k \in {"url"} \cup sizes |->
        IF k = "url" THEN Str(img.url) ELSE Num(CHOOSE x \in img[k] : TRUE)]

LEMMA ImageIsRead ==
    ASSUME NEW img, IsImage(img), NEW e, e = Obj(ImageJson(img))
    PROVE  /\ as_str(Child({e}, "url")) = {img.url}
           /\ {as_u32(x) : x \in as_u64(Child({e}, "width"))} = img.width
           /\ {as_u32(x) : x \in as_u64(Child({e}, "height"))} = img.height
<1> DEFINE o == ImageJson(img)
<1>1. \A k : Child({e}, k) = get(o, k)
  BY ChildOfObj
<1>2. /\ OptionOf(img["width"], 0 .. U32 - 1) /\ OptionOf(img["height"], 0 .. U32 - 1)
      /\ img["width"] = img.width /\ img["height"] = img.height
  BY DEF IsImage
<1>3. as_str(Child({e}, "url")) = {img.url}
  <2>1. get(o, "url") = {Str(img.url)}
    BY DEF get, ImageJson
  <2>2. as_str({Str(img.url)}) = {img.url}
    <3>1. {Str(x) : x \in {img.url}} = {Str(img.url)}
      OBVIOUS
    <3> QED BY <3>1, UntagStr
  <2> QED BY <1>1, <2>1, <2>2
<1>4. ASSUME NEW k \in {"width", "height"}
      PROVE  {as_u32(x) : x \in as_u64(Child({e}, k))} = img[k]
  <2>1. get(o, k) = {Num(x) : x \in img[k]}
    <3>1. CASE img[k] = {}
      <4>1. k \notin DOMAIN o
        BY <3>1 DEF ImageJson
      <4> QED BY <3>1, <4>1 DEF get
    <3>2. CASE img[k] # {}
      <4>1. PICK x : img[k] = {x}
        BY <1>2, <3>2, OptionCases
      <4>2. k \in DOMAIN o /\ o[k] = Num(CHOOSE y \in img[k] : TRUE)
        BY <3>2 DEF ImageJson
      <4>3. o[k] = Num(x)
        BY <4>1, <4>2, ChosenOfOne
      <4> HIDE DEF o
      <4>4. get(o, k) = {Num(x)}
        BY <4>2, <4>3 DEF get
      <4> QED BY <4>1, <4>4
    <3> QED BY <3>1, <3>2
  <2>2. OptionOf(img[k], 0 .. U32 - 1)
    BY <1>2
  <2>3. {as_u32(x) : x \in as_u64({Num(x) : x \in img[k]})} = img[k]
    BY <2>2, UntagU32
  <2> HIDE DEF o
  <2> QED BY <1>1, <2>1, <2>3
<1> QED BY <1>2, <1>3, <1>4

\* No image is left out, and each comes back with its sizes.
LEMMA ImagesAreRead ==
    ASSUME NEW meta, NEW images, "images" \in DOMAIN meta,
           meta["images"] = serialize_images(images),
           images = [i \in DOMAIN images |-> images[i]],
           \A i \in DOMAIN images : IsImage(images[i])
    PROVE  parse_images(meta) = images
<1> DEFINE arr == [i \in DOMAIN images |-> Obj(ImageJson(images[i]))]
           url(e) == as_str(Child({e}, "url"))
           size(e, k) == {as_u32(x) : x \in as_u64(Child({e}, k))}
<1>1. meta["images"] = Arr(arr)
  BY DEF serialize_images, ImageJson
<1> DEFINE found == unwrap_or(Of("a", get(meta, "images")), <<>>)
<1>2. found = arr
  <2> HIDE DEF arr
  <2>1. get(meta, "images") = {Arr(arr)}
    BY <1>1 DEF get
  <2>2. Of("a", {Arr(arr)}) = {arr}
    BY UntagOne DEF Arr
  <2> QED BY <2>1, <2>2, UnwrapOne
<1>3. \A i \in DOMAIN images : /\ url(arr[i]) = {images[i].url}
                                /\ size(arr[i], "width") = images[i].width
                                /\ size(arr[i], "height") = images[i].height
  BY ImageIsRead
<1>4. DOMAIN arr = DOMAIN images
  OBVIOUS
<1>5. parse_images(meta) =
        [i \in {j \in DOMAIN found : url(found[j]) # {}} |->
            [url |-> CHOOSE x \in url(found[i]) : TRUE,
             width |-> size(found[i], "width"), height |-> size(found[i], "height")]]
  BY Zenon DEF parse_images
<1> HIDE DEF found, arr, url, size
<1>6. {j \in DOMAIN found : url(found[j]) # {}} = DOMAIN images
  BY <1>2, <1>3, <1>4
<1>7. \A i \in DOMAIN images :
         [url |-> CHOOSE x \in url(found[i]) : TRUE,
          width |-> size(found[i], "width"), height |-> size(found[i], "height")] = images[i]
  <2> SUFFICES ASSUME NEW i \in DOMAIN images
               PROVE  [url |-> CHOOSE x \in url(found[i]) : TRUE,
                       width |-> size(found[i], "width"),
                       height |-> size(found[i], "height")] = images[i]
    OBVIOUS
  <2>1. (CHOOSE x \in url(found[i]) : TRUE) = images[i].url
    BY <1>2, <1>3, ChosenOfOne
  <2>2. images[i] = [url |-> images[i].url, width |-> images[i].width,
                     height |-> images[i].height]
    BY DEF IsImage
  <2> QED BY <2>1, <2>2, <1>2, <1>3
<1> QED BY <1>5, <1>6, <1>7

-----------------------------------------------------------------------------
(* The round trip                                                          *)

\* Metadata of every variant comes back as what was written
\* (media.rs: serialize_metadata, router.rs: parse_metadata).
LEMMA MetadataIsRead ==
    ASSUME NEW m, IsMetadata(m)
    PROVE  parse_metadata(Written(m)) = m
<1> DEFINE meta == Written(m)
           n == MetadataType(m.variant)
           type == unwrap_or(as_u64(get(meta, "metadataType")), 0)
           v == IF type < Len(Variants) THEN Variants[type + 1] ELSE "Generic"
           read(f) == LET k == ReadKeys(v, f) IN
                      get(meta, IF k[1] \in DOMAIN meta THEN k[1] ELSE k[2])
           images == parse_images(meta)
           fields == [f \in DOMAIN WriteKey[v] |-> FieldValue(f, read(f))]
<1>1. m.variant \in VariantNames
  BY VariantsAreNamed DEF IsMetadata
<1>2. /\ "metadataType" \in DOMAIN meta /\ meta["metadataType"] = Num(n)
      /\ "images" \in DOMAIN meta /\ meta["images"] = serialize_images(m.images)
  BY <1>1, WhatIsWritten
<1>3. parse_metadata(meta) = [variant |-> v, images |-> images, fields |-> fields]
  BY DEF parse_metadata, FieldValue
<1>4. n \in 0 .. 5 /\ Len(Variants) = 6 /\ Variants[n + 1] = m.variant
  BY <1>1, VariantIndex
<1> HIDE DEF meta, n
<1>5. type = n
  <2>1. get(meta, "metadataType") = {Num(n)}
    BY <1>2 DEF get
  <2>2. Of("n", {Num(n)}) = {n}
    BY UntagOne DEF Num
  <2>3. as_u64({Num(n)}) = {n}
    BY <1>4, <2>2 DEF as_u64
  <2> QED BY <2>1, <2>3, UnwrapOne
<1> HIDE DEF type
<1>6. v = m.variant
  BY <1>4, <1>5
<1> HIDE DEF v
<1>7. images = m.images
  <2>1. /\ m.images = [i \in DOMAIN m.images |-> m.images[i]]
        /\ \A i \in DOMAIN m.images : IsImage(m.images[i])
    BY DEF IsMetadata
  <2> QED BY <1>2, <2>1, ImagesAreRead
<1>8. m.fields = [f \in DOMAIN WriteKey[m.variant] |-> m.fields[f]]
  BY DEF IsMetadata
<1>9. ASSUME NEW f \in DOMAIN WriteKey[m.variant]
      PROVE  FieldValue(f, read(f)) = m.fields[f]
  <2>1. OptionOf(m.fields[f], FieldType(f))
    <3>1. f \in DOMAIN m.fields
      BY <1>8
    <3> QED BY <3>1 DEF IsMetadata
  <2>2. read(f) = {JsonOf(f, x) : x \in m.fields[f]}
    BY <1>1, <1>6, <2>1, FieldIsRead DEF meta
  <2> HIDE DEF read
  <2>3. FieldValue(f, {JsonOf(f, x) : x \in m.fields[f]}) = m.fields[f]
    BY <2>1, FieldIsConverted
  <2> QED BY <2>2, <2>3
<1> HIDE DEF read, images
<1>10. fields = m.fields
  BY <1>6, <1>8, <1>9
<1> HIDE DEF fields
<1>11. m = [variant |-> m.variant, images |-> m.images, fields |-> m.fields]
  BY DEF IsMetadata
<1> QED BY <1>3, <1>6, <1>7, <1>10, <1>11 DEF meta

\* The keys of the media object that is written.
LEMMA MediaIsWritten ==
    ASSUME NEW m, IsMedia(m), NEW o, o = serialize_media(m)[2]
    PROVE  /\ get(o, "contentId") = {Str(m.content_id)}
           /\ get(o, "contentType") = {Str(m.content_type)}
           /\ get(o, "streamType") =
                 {Str(CASE m.stream_type = "Buffered" -> "BUFFERED"
                        [] m.stream_type = "Live" -> "LIVE"
                        [] m.stream_type = "None" -> "NONE")}
           /\ get(o, "duration") = {Num(x) : x \in m.duration}
           /\ get(o, "metadata") = {serialize_metadata(x) : x \in m.metadata}
<1> DEFINE some == {f \in {"duration", "metadata"} : m[f] # {}}
           keys == {"contentId", "contentType", "streamType"} \cup some
           stream == CASE m.stream_type = "Buffered" -> "BUFFERED"
                       [] m.stream_type = "Live" -> "LIVE"
                       [] m.stream_type = "None" -> "NONE"
           length == Num(CHOOSE x \in m.duration : TRUE)
           meta == serialize_metadata(CHOOSE x \in m.metadata : TRUE)
           content == [k \in keys |->
                         CASE k = "contentId" -> Str(m.content_id)
                           [] k = "contentType" -> Str(m.content_type)
                           [] k = "streamType" -> Str(stream)
                           [] k = "duration" -> length
                           [] k = "metadata" -> meta]
<1>1. o = content
  BY DEF serialize_media, Obj
<1>2. /\ "duration" \in keys <=> m.duration # {}
      /\ "metadata" \in keys <=> m.metadata # {}
  OBVIOUS
<1>3. (m.duration = {} \/ \E x : m.duration = {x}) /\ (m.metadata = {} \/ \E x : m.metadata = {x})
  BY OptionCases DEF IsMedia
<1>4. DOMAIN content = keys /\ {"contentId", "contentType", "streamType"} \subseteq keys
  OBVIOUS
<1> HIDE DEF stream, length, meta, some
<1>5. /\ content["contentId"] = Str(m.content_id)
      /\ content["contentType"] = Str(m.content_type)
      /\ content["streamType"] = Str(stream)
      /\ "duration" \in keys => content["duration"] = length
      /\ "metadata" \in keys => content["metadata"] = meta
  OBVIOUS
<1> HIDE DEF content, keys
<1>6. /\ get(o, "contentId") = {Str(m.content_id)}
      /\ get(o, "contentType") = {Str(m.content_type)}
      /\ get(o, "streamType") = {Str(stream)}
  BY <1>1, <1>4, <1>5 DEF get
<1>7. get(o, "duration") = {Num(x) : x \in m.duration}
  <2>1. CASE m.duration = {}
    BY <2>1, <1>1, <1>2, <1>4 DEF get
  <2>2. ASSUME NEW x, m.duration = {x} PROVE get(o, "duration") = {Num(y) : y \in m.duration}
    <3>1. length = Num(x)
      BY <2>2, ChosenOfOne DEF length
    <3>2. get(o, "duration") = {Num(x)}
      BY <2>2, <3>1, <1>1, <1>2, <1>4, <1>5 DEF get
    <3> QED BY <2>2, <3>2
  <2> QED BY <1>3, <2>1, <2>2
<1>8. get(o, "metadata") = {serialize_metadata(x) : x \in m.metadata}
  <2>1. CASE m.metadata = {}
    BY <2>1, <1>1, <1>2, <1>4 DEF get
  <2>2. ASSUME NEW x, m.metadata = {x}
        PROVE  get(o, "metadata") = {serialize_metadata(y) : y \in m.metadata}
    <3>1. meta = serialize_metadata(x)
      BY <2>2, ChosenOfOne DEF meta
    <3>2. get(o, "metadata") = {serialize_metadata(x)}
      BY <2>2, <3>1, <1>1, <1>2, <1>4, <1>5 DEF get
    <3> QED BY <2>2, <3>2
  <2> QED BY <1>3, <2>1, <2>2
<1> QED BY <1>6, <1>7, <1>8 DEF stream

\* What a device echoes of a LOAD is read back as what was loaded, for every
\* media object of finite numbers: nothing is lost, renamed or taken for another
\* field, and only a duration that is not positive becomes None (media.rs: serialize_media,
\* router.rs: parse_media_status and parse_metadata).
THEOREM RoundTrip ==
    ASSUME NEW m, IsMedia(m)
    PROVE  parse_media(serialize_media(m)[2]) = {[m EXCEPT !.duration = Positive(@)]}
<1> DEFINE o == serialize_media(m)[2]
           code == CASE m.stream_type = "Buffered" -> "BUFFERED"
                     [] m.stream_type = "Live" -> "LIVE"
                     [] m.stream_type = "None" -> "NONE"
           type == unwrap_or(as_str(get(o, "contentType")), "")
           s == unwrap_or(as_str(get(o, "streamType")), "")
           stream == IF s = "BUFFERED" THEN "Buffered" ELSE IF s = "LIVE" THEN "Live" ELSE "None"
           length == Positive(as_f64(get(o, "duration")))
           metas == {parse_metadata(Fields(x)) : x \in get(o, "metadata")}
<1>1. /\ get(o, "contentId") = {Str(m.content_id)}
      /\ get(o, "contentType") = {Str(m.content_type)}
      /\ get(o, "streamType") = {Str(code)}
      /\ get(o, "duration") = {Num(x) : x \in m.duration}
      /\ get(o, "metadata") = {serialize_metadata(x) : x \in m.metadata}
  BY MediaIsWritten
<1>2. parse_media(o) = {[content_id |-> id, content_type |-> type, stream_type |-> stream,
                         duration |-> length, metadata |-> metas]
                          : id \in as_str(get(o, "contentId"))}
  BY Zenon DEF parse_media
<1>3. \A x : as_str({Str(x)}) = {x}
  BY UntagOne DEF as_str, Str
<1> HIDE DEF o, code
<1>4. as_str(get(o, "contentId")) = {m.content_id}
  BY <1>1, <1>3
<1>5. type = m.content_type
  <2>1. as_str(get(o, "contentType")) = {m.content_type}
    BY <1>1, <1>3
  <2> QED BY <2>1, UnwrapOne
<1>6. stream = m.stream_type
  <2>1. s = code
    <3>1. as_str(get(o, "streamType")) = {code}
      BY <1>1, <1>3
    <3> QED BY <3>1, UnwrapOne
  <2>2. m.stream_type \in {"Buffered", "Live", "None"}
    BY DEF IsMedia
  <2> HIDE DEF s
  <2> QED BY <2>1, <2>2 DEF code
<1>7. length = Positive(m.duration)
  BY <1>1, UntagNum
<1>8. metas = m.metadata
  <2>1. \A x \in m.metadata : IsMetadata(x)
    BY DEF IsMedia
  <2>2. \A x : Fields(serialize_metadata(x)) = Written(x)
    BY DEF Fields, Written, serialize_metadata, Obj
  <2>3. \A x \in m.metadata : parse_metadata(Fields(serialize_metadata(x))) = x
    BY <2>1, <2>2, MetadataIsRead
  <2> QED BY <1>1, <2>3
<1> HIDE DEF type, stream, length, metas
<1>9. parse_media(o) = {[content_id |-> m.content_id, content_type |-> m.content_type,
                         stream_type |-> m.stream_type, duration |-> Positive(m.duration),
                         metadata |-> m.metadata]}
  BY <1>2, <1>4, <1>5, <1>6, <1>7, <1>8
<1>10. m = [content_id |-> m.content_id, content_type |-> m.content_type,
            stream_type |-> m.stream_type, duration |-> m.duration, metadata |-> m.metadata]
  BY DEF IsMedia
<1>11. [m EXCEPT !.duration = Positive(@)] =
         [content_id |-> m.content_id, content_type |-> m.content_type,
          stream_type |-> m.stream_type, duration |-> Positive(m.duration),
          metadata |-> m.metadata]
  BY <1>10
<1> QED BY <1>9, <1>11 DEF o
=============================================================================
