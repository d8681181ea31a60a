--------------------------- MODULE CastFileProofs ---------------------------
(***************************************************************************)
(* CastFile for every set of files, registrars and requests, and every     *)
(* answer of the device.  AnswerIsWhatWasAsked rests on RangeIsWanted:     *)
(* what parse_range computes, for every header and every length;           *)
(* LoadedIsReported on the round trip of CodecProofs.                      *)
(***************************************************************************)
EXTENDS CastFile, CodecProofs, TLAPS

-----------------------------------------------------------------------------
(* parse_range                                                             *)

\* parse_range (serve.rs:224-248) finds a range exactly if the header asks for
\* some byte of the file, and then the range is the bytes asked for, all within
\* the file: for every length, an empty file and any numbers in the header
\* included.
THEOREM RangeIsWanted ==
    ASSUME NEW total \in Nat, NEW kind \in {"none", "bad", "suffix", "open", "span"},
           NEW a \in Nat, NEW b \in Nat, NEW header,
           header = [kind |-> kind, a |-> a, b |-> b]
    PROVE  LET range == parse_range(header, total) IN
           /\ range = {} => kind = "none" \/ Wanted(header, total) = {}
           /\ kind = "none" => range = {} /\ Wanted(header, total) = 0 .. total - 1
           /\ range # {} => \E s \in Nat, e \in Nat :
                 /\ range = {<<s, e>>} /\ s <= e /\ e < total
                 /\ Wanted(header, total) = s .. e
<1> DEFINE range == parse_range(header, total)
           wanted == Wanted(header, total)
<1>0. header.kind = kind /\ header.a = a /\ header.b = b
  OBVIOUS
<1>1. CASE kind = "none"
  <2>1. range = {}
    BY <1>0, <1>1 DEF parse_range
  <2>2. wanted = 0 .. total - 1
    BY <1>0, <1>1 DEF Wanted
  <2> QED BY <1>1, <2>1, <2>2
<1>2. CASE kind = "bad"
  <2>1. range = {} /\ wanted = {}
    BY <1>0, <1>2 DEF parse_range, Wanted
  <2> QED BY <1>2, <2>1
<1>3. CASE total = 0 /\ kind # "none"
  <2>1. range = {} /\ wanted = {}
    BY <1>0, <1>3 DEF parse_range, Wanted
  <2> QED BY <1>3, <2>1
<1>4. CASE total > 0 /\ kind \in {"suffix", "open", "span"}
  <2> DEFINE s == IF kind # "suffix" THEN a ELSE IF a > total THEN 0 ELSE total - a
             e == IF kind = "span" THEN b ELSE total - 1
  <2>1. s \in Nat /\ e \in Nat
    BY <1>4
  <2>2. range = IF s <= e /\ e < total THEN {<<s, e>>} ELSE {}
    BY <1>0, <1>4 DEF parse_range
  <2>3. wanted = {p \in 0 .. total - 1 : s <= p /\ p <= e /\ e < total}
    <3>1. CASE kind = "suffix"
      BY <1>0, <1>4, <3>1 DEF Wanted
    <3>2. CASE kind = "open"
      BY <1>0, <1>4, <3>2 DEF Wanted
    <3>3. CASE kind = "span"
      BY <1>0, <1>4, <3>3 DEF Wanted
    <3> QED BY <1>4, <3>1, <3>2, <3>3
  <2> HIDE DEF s, e, range, wanted
  <2>4. CASE s <= e /\ e < total
    <3>1. wanted = s .. e
      BY <1>4, <2>1, <2>3, <2>4
    <3> QED BY <1>4, <2>1, <2>2, <2>4, <3>1 DEF range, wanted
  <2>5. CASE ~(s <= e /\ e < total)
    <3>1. range = {} /\ wanted = {}
      BY <1>4, <2>1, <2>2, <2>3, <2>5
    <3> QED BY <1>4, <3>1 DEF range, wanted
  <2> QED BY <2>4, <2>5
<1> QED BY <1>1, <1>2, <1>3, <1>4

LEMMA HeaderShape ==
    ASSUME NEW header \in Headers
    PROVE  /\ header.kind \in {"none", "bad", "suffix", "open", "span"}
           /\ header.a \in Nat /\ header.b \in Nat
           /\ header = [kind |-> header.kind, a |-> header.a, b |-> header.b]
BY SizeAssumption DEF Headers

-----------------------------------------------------------------------------
(* The inductive invariant                                                 *)

Taken == {"insert", "done"}

\* Ids that have been drawn are below the counter and differ.
IdsAreDrawnOnce ==
    /\ \A r \in Registrars : reg[r].pc \in {"count", "insert", "done"} => reg[r].path \in Paths
    /\ \A r \in Registrars : reg[r].pc \in Taken => reg[r].id < counter
    /\ \A r, s \in Registrars :
          r # s /\ reg[r].pc \in Taken /\ reg[s].pc \in Taken => reg[r].id # reg[s].id

\* The headers of a response announce the bytes asked for, and until the file
\* changes it has them.
Announced(g) ==
    /\ g.answer.code \in {200, 206}
    /\ g.header.kind = "none" \/ Wanted(g.header, g.total) # {}
    /\ Wanted(g.header, g.total) = g.answer.start .. g.answer.start + g.answer.len - 1
    /\ g.seen = changes => g.answer.start + g.answer.len <= size[g.path]

\* AnswerIsWhatWasAsked, for one request.
Right(g) ==
    g.answer.code \in {200, 206, 416} =>
        /\ g.answer.code = 416 <=>
              (Wanted(g.header, g.total) = {} /\ g.header.kind # "none")
        /\ g.answer.code # 416 =>
              Wanted(g.header, g.total) = g.answer.start .. g.answer.start + g.answer.len - 1
        /\ g.answer.body <= g.answer.len
        /\ g.answer.code # 416 /\ g.seen = changes => g.answer.body = g.answer.len

\* What is known of a request, by how far its handler is.
Sound(g) ==
    /\ g.seen <= changes
    /\ g.pc \in {"lookup", "open", "metadata"} => g.answer = NoAnswer
    /\ g.pc = "stream" => Announced(g) /\ g.answer.body = 0
    /\ g.pc = "done" => Right(g)

AnswersAreSound == \A h \in Gets : Sound(http[h])

IInv == ServerTypeOK /\ IdsAreDrawnOnce /\ UrlNamesItsFile /\ AnswersAreSound

LEMMA InitIInv == Init => IInv
<1> SUFFICES ASSUME Init PROVE IInv
  OBVIOUS
<1>1. ServerInit
  BY DEF Init
<1>2. FreeGet \in Get /\ [pc |-> "idle", path |-> NoPath, id |-> 0] \in Registration
  BY SizeAssumption DEF FreeGet, NewGet, Get, Answer, NoAnswer, Reply, Headers, Registration
<1>3. ServerTypeOK
  <2>1. http \in [Gets -> Get] /\ reg \in [Registrars -> Registration]
    BY <1>1, <1>2 DEF ServerInit
  <2>2. \A h \in Gets : http[h].pc = "idle"
    BY <1>1 DEF ServerInit, FreeGet, NewGet
  <2>3. exists \in [Paths -> BOOLEAN] /\ up \in BOOLEAN
    BY <1>1 DEF ServerInit
  <2>4. DOMAIN files = {}
    BY <1>1 DEF ServerInit
  <2>5. size \in [Paths -> 0 .. MaxSize] /\ changes \in 0 .. MaxChanges /\ counter \in Nat
    BY <1>1, SizeAssumption DEF ServerInit
  <2> QED BY <2>1, <2>2, <2>3, <2>4, <2>5 DEF ServerTypeOK
<1>4. IdsAreDrawnOnce /\ UrlNamesItsFile
  BY <1>1 DEF ServerInit, IdsAreDrawnOnce, UrlNamesItsFile, Taken
<1>5. AnswersAreSound
  <2>1. changes = 0 /\ \A h \in Gets : http[h] = FreeGet
    BY <1>1 DEF ServerInit
  <2>2. FreeGet.pc = "idle" /\ FreeGet.seen = 0
    BY DEF FreeGet, NewGet
  <2> QED BY <2>1, <2>2 DEF AnswersAreSound, Sound
<1> QED BY <1>3, <1>4, <1>5 DEF IInv

\* A step that leaves the server's data alone.
LEMMA ServerIdle ==
    ASSUME IInv, UNCHANGED <<fs, registry, http>>, up' \in BOOLEAN
    PROVE  IInv'
<1> USE DEF fs, registry
<1>1. ServerTypeOK'
  BY DEF IInv, ServerTypeOK
<1>2. IdsAreDrawnOnce' /\ UrlNamesItsFile'
  BY DEF IInv, IdsAreDrawnOnce, UrlNamesItsFile
<1>3. AnswersAreSound'
  <2>1. AnswersAreSound /\ http' = http /\ changes' = changes /\ size' = size
    BY DEF IInv
  <2> QED BY <2>1 DEF AnswersAreSound, Sound, Announced, Right
<1> QED BY <1>1, <1>2, <1>3 DEF IInv

LEMMA JobIInv ==
    ASSUME IInv, JobStep
    PROVE  IInv'
<1>1. up \in BOOLEAN
  BY DEF IInv, ServerTypeOK
<1>2. UNCHANGED <<fs, registry, http>> /\ up' \in BOOLEAN
  <2>1. CASE LaunchApp
    BY <1>1, <2>1 DEF LaunchApp, serverVars
  <2>2. CASE JobStarts
    BY <2>2 DEF JobStarts, Start
  <2>3. CASE JobServes
    BY <2>3 DEF JobServes
  <2>4. CASE LoadMedia
    BY <1>1, <2>4 DEF LoadMedia, serverVars
  <2>5. CASE Answered
    BY <2>5 DEF Answered, check_device_error
  <2>6. CASE LoadReturns
    BY <2>6 DEF LoadReturns, Accepted
  <2> QED BY <2>1, <2>2, <2>3, <2>4, <2>5, <2>6 DEF JobStep
<1> QED BY <1>2, ServerIdle

-----------------------------------------------------------------------------
(* Registration                                                            *)

LEMMA RegisterIInv ==
    ASSUME IInv, NEW r \in Registrars, RegisterStep(r)
    PROVE  IInv'
<1>1. ServerTypeOK /\ IdsAreDrawnOnce /\ UrlNamesItsFile /\ AnswersAreSound
  BY DEF IInv
<1>2. UNCHANGED <<fs, http, up>>
  BY DEF RegisterStep, Checks, Counts, Inserts
<1>3. AnswersAreSound'
  <2>1. http' = http /\ changes' = changes /\ size' = size
    BY <1>2 DEF fs
  <2> SUFFICES ASSUME NEW h \in Gets PROVE Sound(http[h])'
    BY DEF AnswersAreSound
  <2>2. Sound(http[h])
    BY <1>1 DEF AnswersAreSound
  <2> QED BY <2>1, <2>2 DEF Sound, Announced, Right
<1>4. reg[r] \in Registration /\ counter \in Nat
  BY <1>1 DEF ServerTypeOK
<1>5. CASE Checks(r)
  <2>1. PICK p \in Paths :
           reg' = [reg EXCEPT ![r].pc = IF exists[p] THEN "count" ELSE "error",
                              ![r].path = p]
    BY <1>5 DEF Checks
  <2>2. counter' = counter /\ files' = files
    BY <1>5 DEF Checks
  <2>3. [reg[r] EXCEPT !.pc = IF exists[p] THEN "count" ELSE "error", !.path = p]
           \in Registration
    BY <1>4 DEF Registration
  <2>4. ServerTypeOK'
    BY <1>1, <1>2, <2>1, <2>2, <2>3 DEF ServerTypeOK, fs
  <2>5. IdsAreDrawnOnce'
    BY <1>1, <2>1, <2>2 DEF IdsAreDrawnOnce, Taken, ServerTypeOK, Registration
  <2>6. UrlNamesItsFile'
    BY <1>1, <2>1, <2>2 DEF UrlNamesItsFile, ServerTypeOK, Registration
  <2> QED BY <1>3, <2>4, <2>5, <2>6 DEF IInv
<1>6. CASE Counts(r)
  <2>1. /\ reg[r].pc = "count" /\ counter' = counter + 1 /\ files' = files
        /\ reg' = [reg EXCEPT ![r].pc = "insert", ![r].id = counter]
    BY <1>6 DEF Counts
  <2>2. [reg[r] EXCEPT !.pc = "insert", !.id = counter] \in Registration
    BY <1>4 DEF Registration
  <2>3. ServerTypeOK'
    BY <1>1, <1>2, <1>4, <2>1, <2>2 DEF ServerTypeOK, fs
  <2>4. IdsAreDrawnOnce'
    BY <1>1, <1>4, <2>1 DEF IdsAreDrawnOnce, Taken, ServerTypeOK, Registration
  <2>5. UrlNamesItsFile'
    BY <1>1, <2>1 DEF UrlNamesItsFile, ServerTypeOK, Registration
  <2> QED BY <1>3, <2>3, <2>4, <2>5 DEF IInv
<1>7. CASE Inserts(r)
  <2>1. /\ reg[r].pc = "insert" /\ counter' = counter
        /\ reg' = [reg EXCEPT ![r].pc = "done"]
        /\ files' = [i \in DOMAIN files \cup {reg[r].id} |->
                        IF i = reg[r].id THEN reg[r].path ELSE files[i]]
    BY <1>7 DEF Inserts
  <2>2. [reg[r] EXCEPT !.pc = "done"] \in Registration /\ reg[r].id \in Nat
    BY <1>4 DEF Registration
  <2>3. reg[r].path \in Paths
    BY <1>1, <2>1 DEF IdsAreDrawnOnce
  <2>4. ServerTypeOK'
    <3>1. DOMAIN files' \subseteq Nat /\ \A i \in DOMAIN files' : files'[i] \in Paths
      BY <1>1, <2>1, <2>2, <2>3 DEF ServerTypeOK
    <3>2. reg' \in [Registrars -> Registration]
      BY <1>1, <2>1, <2>2 DEF ServerTypeOK
    <3> QED BY <1>1, <1>2, <1>4, <2>1, <3>1, <3>2 DEF ServerTypeOK, fs
  <2>5. IdsAreDrawnOnce'
    BY <1>1, <1>4, <2>1 DEF IdsAreDrawnOnce, Taken, ServerTypeOK, Registration
  <2>6. UrlNamesItsFile'
    <3> SUFFICES ASSUME NEW s \in Registrars, reg'[s].pc = "done"
                 PROVE  reg'[s].id \in DOMAIN files' /\ files'[reg'[s].id] = reg'[s].path
      BY DEF UrlNamesItsFile
    <3>1. CASE s = r
      BY <1>1, <2>1, <3>1 DEF ServerTypeOK, Registration
    <3>2. CASE s # r
      <4>1. reg'[s] = reg[s]
        BY <1>1, <2>1, <3>2 DEF ServerTypeOK
      <4>2. reg[s].id # reg[r].id
        BY <1>1, <2>1, <3>2, <4>1 DEF IdsAreDrawnOnce, Taken
      <4> QED BY <1>1, <2>1, <4>1, <4>2 DEF UrlNamesItsFile
    <3> QED BY <3>1, <3>2
  <2> QED BY <1>3, <2>4, <2>5, <2>6 DEF IInv
<1> QED BY <1>5, <1>6, <1>7 DEF RegisterStep

-----------------------------------------------------------------------------
(* The HTTP handler                                                        *)

\* One request goes on as rec, everything else stays.
LEMMA GoesIInv ==
    ASSUME IInv, NEW h \in Gets, NEW rec \in Get, HttpOnly,
           http' = [http EXCEPT ![h] = rec],
           rec.pc \in {"open", "metadata", "stream"} => rec.path \in Paths,
           Sound(rec)
    PROVE  IInv'
<1>1. size' = size /\ changes' = changes
  BY DEF HttpOnly, fs
<1>2. ServerTypeOK'
  <2>1. http \in [Gets -> Get]
    BY DEF IInv, ServerTypeOK
  <2>2. http' \in [Gets -> Get]
    BY <2>1
  <2>3. \A g \in Gets : http'[g].pc \in {"open", "metadata", "stream"} => http'[g].path \in Paths
    BY <2>1 DEF IInv, ServerTypeOK
  <2> QED BY <2>2, <2>3 DEF IInv, ServerTypeOK, HttpOnly, fs, registry
<1>3. IdsAreDrawnOnce' /\ UrlNamesItsFile'
  BY DEF IInv, HttpOnly, registry, IdsAreDrawnOnce, UrlNamesItsFile
<1>4. AnswersAreSound'
  <2> SUFFICES ASSUME NEW g \in Gets PROVE Sound(http[g])'
    BY DEF AnswersAreSound
  <2>1. http \in [Gets -> Get] /\ Sound(http[g])
    BY DEF IInv, ServerTypeOK, AnswersAreSound
  <2>2. CASE g = h
    <3>1. http'[g] = rec
      BY <2>1, <2>2
    <3> QED BY <1>1, <3>1 DEF Sound, Announced, Right
  <2>3. CASE g # h
    <3>1. http'[g] = http[g]
      BY <2>1, <2>3
    <3> QED BY <1>1, <2>1, <3>1 DEF Sound, Announced, Right
  <2> QED BY <2>2, <2>3
<1> QED BY <1>2, <1>3, <1>4 DEF IInv

\* A request that is over with an error.
LEMMA AnswersIs ==
    ASSUME NEW g \in Get, NEW code \in {404, 500}
    PROVE  /\ Answers(g, code) \in Get /\ Answers(g, code).pc = "done"
           /\ Answers(g, code).seen = g.seen /\ Answers(g, code).answer.code = code
<1> DEFINE a == Reply(code, 0, 0, 0)
<1>1. a \in Answer /\ a.code = code
  BY SizeAssumption DEF Answer, Reply
<1>2. Answers(g, code) = [g EXCEPT !.pc = "done", !.answer = a]
  BY DEF Answers
<1> HIDE DEF a
<1>3. [g EXCEPT !.pc = "done", !.answer = a] \in Get
  <2> DEFINE d == [g EXCEPT !.pc = "done"]
  <2>1. d \in Get /\ [g EXCEPT !.pc = "done", !.answer = a] = [d EXCEPT !.answer = a]
    BY DEF Get
  <2> HIDE DEF d
  <2>2. [d EXCEPT !.answer = a] \in Get
    BY <1>1, <2>1 DEF Get
  <2> QED BY <2>1, <2>2
<1>4. /\ Answers(g, code).pc = "done" /\ Answers(g, code).seen = g.seen
      /\ Answers(g, code).answer = a
  BY <1>2 DEF Get
<1> QED BY <1>1, <1>2, <1>3, <1>4

LEMMA HttpIInv ==
    ASSUME IInv, NEW h \in Gets, HttpStep(h)
    PROVE  IInv'
<1> DEFINE g == http[h]
<1>1. /\ g \in Get /\ Sound(g)
      /\ g.pc \in {"open", "metadata", "stream"} => g.path \in Paths
      /\ size \in [Paths -> 0 .. MaxSize] /\ counter \in Nat /\ changes \in 0 .. MaxChanges
  BY DEF IInv, ServerTypeOK, AnswersAreSound
<1>2. changes \in Nat /\ MaxSize \in Nat
  BY <1>1, SizeAssumption
<1>3. CASE Arrives(h)
  <2>1. PICK id \in 0 .. counter, header \in Headers :
           Goes(h, "idle", NewGet("lookup", id, header))
    BY <1>3 DEF Arrives
  <2> DEFINE rec == NewGet("lookup", id, header)
  <2>2. rec \in Get /\ rec.pc = "lookup" /\ rec.seen = 0 /\ rec.answer = NoAnswer
    BY <1>1, SizeAssumption DEF NewGet, Get, Answer, NoAnswer, Reply
  <2>3. Sound(rec)
    BY <1>2, <2>2 DEF Sound
  <2>4. HttpOnly /\ http' = [http EXCEPT ![h] = rec]
    BY <2>1 DEF Goes
  <2> HIDE DEF rec
  <2> QED BY <2>2, <2>3, <2>4, GoesIInv
<1>4. CASE Lookup(h)
  <2>1. g.pc = "lookup" /\ g.answer = NoAnswer
    BY <1>1, <1>4 DEF Lookup, Goes, Sound
  <2>2. CASE g.id \in DOMAIN files
    <3> DEFINE rec == [g EXCEPT !.pc = "open", !.path = files[g.id]]
    <3>1. files[g.id] \in Paths
      BY <2>2 DEF IInv, ServerTypeOK
    <3>2. /\ rec \in Get /\ rec.pc = "open" /\ rec.seen = g.seen
          /\ rec.answer = NoAnswer /\ rec.path \in Paths
      BY <1>1, <2>1, <3>1 DEF Get
    <3>3. Sound(rec)
      BY <1>1, <3>2 DEF Sound
    <3>4. HttpOnly /\ http' = [http EXCEPT ![h] = rec]
      BY <1>4, <2>2 DEF Lookup, Goes
    <3> HIDE DEF rec
    <3> QED BY <3>2, <3>3, <3>4, GoesIInv
  <2>3. CASE g.id \notin DOMAIN files
    <3> DEFINE rec == Answers(g, 404)
    <3>1. rec \in Get /\ rec.pc = "done" /\ rec.seen = g.seen /\ rec.answer.code = 404
      BY <1>1, AnswersIs
    <3>2. Sound(rec)
      BY <1>1, <3>1 DEF Sound, Right
    <3>3. HttpOnly /\ http' = [http EXCEPT ![h] = rec]
      BY <1>4, <2>3 DEF Lookup, Goes
    <3> HIDE DEF rec
    <3> QED BY <3>1, <3>2, <3>3, GoesIInv
  <2> QED BY <2>2, <2>3
<1>5. CASE Open(h)
  <2>1. g.pc = "open" /\ g.answer = NoAnswer /\ g.path \in Paths
    BY <1>1, <1>5 DEF Open, Goes, Sound
  <2>2. CASE exists[g.path]
    <3> DEFINE rec == [g EXCEPT !.pc = "metadata"]
    <3>1. /\ rec \in Get /\ rec.pc = "metadata" /\ rec.seen = g.seen
          /\ rec.answer = NoAnswer /\ rec.path \in Paths
      BY <1>1, <2>1 DEF Get
    <3>2. Sound(rec)
      BY <1>1, <3>1 DEF Sound
    <3>3. HttpOnly /\ http' = [http EXCEPT ![h] = rec]
      BY <1>5, <2>2 DEF Open, Goes
    <3> HIDE DEF rec
    <3> QED BY <3>1, <3>2, <3>3, GoesIInv
  <2>3. CASE ~exists[g.path]
    <3> DEFINE rec == Answers(g, 500)
    <3>1. rec \in Get /\ rec.pc = "done" /\ rec.seen = g.seen /\ rec.answer.code = 500
      BY <1>1, AnswersIs
    <3>2. Sound(rec)
      BY <1>1, <3>1 DEF Sound, Right
    <3>3. HttpOnly /\ http' = [http EXCEPT ![h] = rec]
      BY <1>5, <2>3 DEF Open, Goes
    <3> HIDE DEF rec
    <3> QED BY <3>1, <3>2, <3>3, GoesIInv
  <2> QED BY <2>2, <2>3
<1>6. CASE Metadata(h)
  <2> DEFINE total == size[g.path]
             range == parse_range(g.header, total)
             wanted == Wanted(g.header, total)
  <2>1. g.pc = "metadata" /\ g.answer = NoAnswer /\ g.path \in Paths
    BY <1>1, <1>6 DEF Metadata, Goes, Sound
  <2>2. total \in 0 .. MaxSize /\ total \in Nat
    BY <1>1, <1>2, <2>1
  <2>3. g.header \in Headers
    BY <1>1 DEF Get
  <2>5. /\ range = {} => g.header.kind = "none" \/ wanted = {}
        /\ g.header.kind = "none" => range = {} /\ wanted = 0 .. total - 1
        /\ range # {} => \E s \in Nat, e \in Nat :
              range = {<<s, e>>} /\ s <= e /\ e < total /\ wanted = s .. e
    <3>1. /\ g.header.kind \in {"none", "bad", "suffix", "open", "span"}
          /\ g.header.a \in Nat /\ g.header.b \in Nat
          /\ g.header = [kind |-> g.header.kind, a |-> g.header.a, b |-> g.header.b]
      BY <2>3, HeaderShape
    <3> HIDE DEF total
    <3> QED BY <2>2, <3>1, RangeIsWanted
  <2> HIDE DEF range, wanted, total
  <2>6. ASSUME NEW pc \in {"stream", "done"}, NEW code \in {200, 206, 416},
               NEW start \in 0 .. MaxSize, NEW len \in 0 .. MaxSize
        PROVE  LET rec == Heads(g, pc, Reply(code, start, len, 0)) IN
               /\ rec \in Get /\ rec.pc = pc /\ rec.seen = changes /\ rec.total = total
               /\ rec.header = g.header /\ rec.path = g.path
               /\ rec.answer.code = code /\ rec.answer.start = start
               /\ rec.answer.len = len /\ rec.answer.body = 0
    <3>1. Reply(code, start, len, 0) \in Answer
      BY <1>2 DEF Reply, Answer
    <3>2. Heads(g, pc, Reply(code, start, len, 0)) \in Get
      BY <1>1, <2>2, <3>1 DEF Heads, Get, total
    <3> QED BY <1>1, <3>2 DEF Heads, Get, Reply, total
  <2>7. CASE g.header.kind # "none" /\ range = {}
    <3> DEFINE rec == Heads(g, "done", Reply(416, 0, 0, 0))
    <3>1. HttpOnly /\ http' = [http EXCEPT ![h] = rec]
      BY <1>6, <2>7 DEF Metadata, Goes, range, total
    <3>2. /\ rec \in Get /\ rec.pc = "done" /\ rec.seen = changes /\ rec.total = total
          /\ rec.header = g.header
          /\ rec.answer.code = 416 /\ rec.answer.body = 0 /\ rec.answer.len = 0
      BY <1>2, <2>6
    <3> HIDE DEF rec
    <3>3. Sound(rec)
      BY <1>2, <2>5, <2>7, <3>2 DEF Sound, Right, wanted
    <3> QED BY <3>1, <3>2, <3>3, GoesIInv
  <2>8. CASE g.header.kind = "none" /\ range = {}
    <3> DEFINE rec == Heads(g, "stream", Reply(200, 0, total, 0))
    <3>1. HttpOnly /\ http' = [http EXCEPT ![h] = rec]
      BY <1>6, <2>8 DEF Metadata, Goes, range, total
    <3>2. /\ rec \in Get /\ rec.pc = "stream" /\ rec.seen = changes /\ rec.total = total
          /\ rec.header = g.header /\ rec.path = g.path
          /\ rec.answer.code = 200 /\ rec.answer.body = 0
          /\ rec.answer.len = total /\ rec.answer.start = 0
      BY <1>2, <2>2, <2>6
    <3> HIDE DEF rec
    <3>3. 0 + total - 1 = total - 1 /\ 0 + total <= total
      BY <2>2
    <3>4. Announced(rec)
      BY <2>2, <2>5, <2>8, <3>2, <3>3 DEF Announced, wanted, total
    <3>5. Sound(rec)
      BY <1>2, <3>2, <3>4 DEF Sound
    <3> QED BY <2>1, <3>1, <3>2, <3>5, GoesIInv
  <2>9. CASE range # {}
    <3>1. PICK s \in Nat, e \in Nat :
             range = {<<s, e>>} /\ s <= e /\ e < total /\ wanted = s .. e
      BY <2>5, <2>9
    <3> DEFINE len == e - s + 1
               rec == Heads(g, "stream", Reply(206, s, len, 0))
    <3>2. (CHOOSE x \in range : TRUE) = <<s, e>>
      BY <3>1
    <3>3. HttpOnly /\ http' = [http EXCEPT ![h] = rec]
      <4> DEFINE r == CHOOSE x \in range : TRUE
      <4>1. HttpOnly /\ http' = [http EXCEPT ![h] =
                                   Heads(g, "stream", Reply(206, r[1], r[2] - r[1] + 1, 0))]
        BY <1>6, <2>9 DEF Metadata, Goes, range, total
      <4> HIDE DEF r
      <4>2. r = <<s, e>>
        BY <3>2 DEF r
      <4>3. r[1] = s /\ r[2] = e
        BY <4>2
      <4> QED BY <4>1, <4>3
    <3>4. s \in 0 .. MaxSize /\ len \in 0 .. MaxSize
      BY <1>2, <2>2, <3>1
    <3>5. s + len - 1 = e /\ s + len <= total
      BY <2>2, <3>1
    <3>6. wanted # {}
      <4>1. s \in s .. e
        BY <3>1
      <4> QED BY <3>1, <4>1
    <3> HIDE DEF len
    <3>7. /\ rec \in Get /\ rec.pc = "stream" /\ rec.seen = changes /\ rec.total = total
          /\ rec.header = g.header /\ rec.path = g.path
          /\ rec.answer.code = 206 /\ rec.answer.body = 0
          /\ rec.answer.start = s /\ rec.answer.len = len
      BY <2>6, <3>4
    <3> HIDE DEF rec
    <3>8. Announced(rec)
      BY <3>1, <3>5, <3>6, <3>7 DEF Announced, wanted, total
    <3>9. Sound(rec)
      BY <1>2, <3>7, <3>8 DEF Sound
    <3> QED BY <2>1, <3>3, <3>7, <3>9, GoesIInv
  <2> QED BY <2>7, <2>8, <2>9
<1>7. CASE Stream(h)
  <2> DEFINE body == IF Rest(g) < g.answer.len THEN Rest(g) ELSE g.answer.len
             rec == Body(g, body)
  <2>1. HttpOnly /\ http' = [http EXCEPT ![h] = rec]
    BY <1>7 DEF Stream, Goes
  <2>2. g.pc = "stream" /\ g.path \in Paths /\ Announced(g) /\ g.seen <= changes
    BY <1>1, <1>7 DEF Stream, Goes, Sound
  <2>3. size[g.path] \in 0 .. MaxSize /\ g.answer \in Answer
    BY <1>1, <2>2 DEF Get
  <2>4. g.answer.start \in Nat /\ g.answer.len \in 0 .. MaxSize
    BY <1>2, <2>3 DEF Answer
  <2>5. Rest(g) \in Nat /\ Rest(g) >= size[g.path] - g.answer.start
    BY <1>2, <2>3, <2>4 DEF Rest
  <2> HIDE DEF body
  <2>6. body \in 0 .. MaxSize /\ body <= g.answer.len
    BY <1>2, <2>4, <2>5 DEF body
  <2>7. g.seen = changes => body = g.answer.len
    BY <1>2, <2>2, <2>3, <2>4, <2>5 DEF Announced, body
  <2>8. Reply(g.answer.code, g.answer.start, g.answer.len, body) \in Answer
    BY <2>3, <2>6 DEF Answer, Reply
  <2>9. /\ rec \in Get /\ rec.pc = "done" /\ rec.seen = g.seen /\ rec.total = g.total
        /\ rec.header = g.header
        /\ rec.answer = Reply(g.answer.code, g.answer.start, g.answer.len, body)
    BY <1>1, <2>8 DEF Get, Body
  <2>10. /\ rec.answer.code = g.answer.code /\ rec.answer.start = g.answer.start
         /\ rec.answer.len = g.answer.len /\ rec.answer.body = body
    BY <2>9 DEF Reply
  <2> HIDE DEF rec
  <2>11. Right(rec)
    <3> DEFINE w == Wanted(g.header, g.total)
    <3>1. /\ rec.answer.code \in {200, 206} /\ ~(w = {} /\ g.header.kind # "none")
          /\ w = rec.answer.start .. rec.answer.start + rec.answer.len - 1
      BY <2>2, <2>10 DEF Announced
    <3>2. rec.answer.code # 416
      BY <3>1
    <3> QED BY <2>6, <2>7, <2>9, <2>10, <3>1, <3>2 DEF Right
  <2>12. Sound(rec)
    BY <2>2, <2>9, <2>11 DEF Sound
  <2> QED BY <2>1, <2>9, <2>12, GoesIInv
<1> QED BY <1>3, <1>4, <1>5, <1>6, <1>7 DEF HttpStep

\* A change of a file leaves no response that was announced after it.
LEMMA ChangesIInv ==
    ASSUME IInv, Changes
    PROVE  IInv'
<1>1. changes' = changes + 1 /\ changes < MaxChanges /\ UNCHANGED <<registry, http, up>>
  BY DEF Changes
<1>2. changes \in Nat /\ \A h \in Gets : http[h] \in Get
  BY SizeAssumption DEF IInv, ServerTypeOK
<1>3. ServerTypeOK'
  <2>1. changes' \in 0 .. MaxChanges
    BY <1>1, <1>2, SizeAssumption
  <2>2. size' \in [Paths -> 0 .. MaxSize] /\ exists' \in [Paths -> BOOLEAN]
    BY DEF Changes, IInv, ServerTypeOK
  <2> QED BY <1>1, <2>1, <2>2 DEF IInv, ServerTypeOK, registry
<1>4. IdsAreDrawnOnce' /\ UrlNamesItsFile'
  BY <1>1 DEF IInv, registry, IdsAreDrawnOnce, UrlNamesItsFile
<1>5. AnswersAreSound'
  <2> SUFFICES ASSUME NEW h \in Gets PROVE Sound(http[h])'
    BY DEF AnswersAreSound
  <2>1. http' = http /\ Sound(http[h])
    BY <1>1 DEF IInv, AnswersAreSound
  <2>2. http[h].seen \in Nat
    BY <1>2, SizeAssumption DEF Get
  <2>3. http[h].seen <= changes' /\ http[h].seen # changes'
    BY <1>1, <1>2, <2>1, <2>2 DEF Sound
  <2> QED BY <2>1, <2>3 DEF Sound, Announced, Right
<1> QED BY <1>3, <1>4, <1>5 DEF IInv

LEMMA StepIInv == IInv /\ [Next]_vars => IInv'
<1> SUFFICES ASSUME IInv, [Next]_vars PROVE IInv'
  OBVIOUS
<1>1. CASE JobStep
  BY <1>1, JobIInv
<1>2. CASE \E r \in Registrars : RegisterStep(r)
  BY <1>2, RegisterIInv
<1>3. CASE \E h \in Gets : HttpStep(h)
  BY <1>3, HttpIInv
<1>4. CASE Changes
  BY <1>4, ChangesIInv
<1>5. CASE UNCHANGED vars
  <2>1. UNCHANGED <<fs, registry, http>> /\ up' = up
    BY <1>5 DEF vars, serverVars
  <2>2. up' \in BOOLEAN
    BY <2>1 DEF IInv, ServerTypeOK
  <2> QED BY <2>1, <2>2, ServerIdle
<1> QED BY <1>1, <1>2, <1>3, <1>4, <1>5 DEF Next

-----------------------------------------------------------------------------
(* Theorems                                                                *)

LEMMA IInvHolds == Spec => []IInv
BY InitIInv, StepIInv, PTL DEF Spec

\* However many callers register files at once, the URL each is given goes on
\* naming its file (serve.rs:103-118).
THEOREM UrlsNameTheirFiles == Spec => []UrlNamesItsFile
<1>1. IInv => UrlNamesItsFile
  BY DEF IInv
<1> QED BY <1>1, IInvHolds, PTL

\* Every response is the bytes its request asked for, complete unless the file
\* changed after its length was read, for files of any length (serve.rs:132-222).
THEOREM AnswersAreRight == Spec => []AnswerIsWhatWasAsked
<1>1. IInv => AnswerIsWhatWasAsked
  BY DEF IInv, AnswersAreSound, Sound, Right, AnswerIsWhatWasAsked
<1> QED BY <1>1, IInvHolds, PTL

-----------------------------------------------------------------------------
(* The job                                                                 *)

JobPcs == {"launch", "start", "serve", "load", "answer", "check", "playing", "error"}

\* The job is a record of these fields.
JobInv ==
    /\ job = [pc |-> job.pc, app |-> job.app, media |-> job.media, wire |-> job.wire,
              status |-> job.status]
    /\ job.pc \in JobPcs

LEMMA JobInit == Init => JobInv
BY DEF Init, NewJob, JobInv, JobPcs

LEMMA JobStays == JobInv /\ UNCHANGED job => JobInv'
BY DEF JobInv

LEMMA JobMoves ==
    ASSUME NEW pc \in JobPcs,
           job'.pc = pc,
           job' = [pc |-> job'.pc, app |-> job'.app, media |-> job'.media,
                   wire |-> job'.wire, status |-> job'.status]
    PROVE  JobInv'
BY DEF JobInv

LEMMA JobStepInv ==
    ASSUME JobInv, JobStep
    PROVE  JobInv'
<1>1. /\ Quit.pc = "error"
      /\ Quit = [pc |-> Quit.pc, app |-> Quit.app, media |-> Quit.media, wire |-> Quit.wire,
                 status |-> Quit.status]
  <2> DEFINE w == <<>>
  <2>1. Quit = [[pc |-> "launch", app |-> {}, media |-> {}, wire |-> w,
                 status |-> {}] EXCEPT !.pc = "error"]
    BY DEF Quit, NewJob, NoStatus
  <2> HIDE DEF w
  <2> QED BY <2>1
<1>2. ASSUME job' = Quit PROVE JobInv'
  <2>1. "error" \in JobPcs
    BY DEF JobPcs
  <2> QED BY <1>1, <1>2, <2>1, JobMoves
<1>3. CASE LaunchApp
  <2> SUFFICES ASSUME NEW found, job' = [job EXCEPT !.pc = "start", !.app = found] PROVE JobInv'
    BY <1>2, <1>3 DEF LaunchApp, JobGoes
  <2>1. "start" \in JobPcs
    BY DEF JobPcs
  <2> QED BY <2>1, JobMoves DEF JobInv
<1>4. CASE JobStarts
  <2> SUFFICES ASSUME job' = [job EXCEPT !.pc = "serve"] PROVE JobInv'
    BY <1>2, <1>4 DEF JobStarts, JobGoes
  <2>1. "serve" \in JobPcs
    BY DEF JobPcs
  <2> QED BY <2>1, JobMoves DEF JobInv
<1>5. CASE JobServes
  <2> SUFFICES ASSUME job' = [job EXCEPT !.pc = "load"] PROVE JobInv'
    BY <1>2, <1>5 DEF JobServes, JobGoes
  <2>1. "load" \in JobPcs
    BY DEF JobPcs
  <2> QED BY <2>1, JobMoves DEF JobInv
<1>6. CASE LoadMedia
  <2>1. PICK m, w : job' = [job EXCEPT !.pc = "answer", !.media = m, !.wire = w]
    BY <1>6 DEF LoadMedia, JobGoes
  <2>2. "answer" \in JobPcs
    BY DEF JobPcs
  <2> QED BY <2>1, <2>2, JobMoves DEF JobInv
<1>7. CASE Answered
  <2>1. ASSUME NEW ps, NEW w, job' = [job EXCEPT !.pc = "check", !.wire = w, !.status = ps]
        PROVE  JobInv'
    <3>1. "check" \in JobPcs
      BY DEF JobPcs
    <3> QED BY <2>1, <3>1, JobMoves DEF JobInv
  <2> QED BY <1>2, <1>7, <2>1 DEF Answered, JobGoes
<1>8. CASE LoadReturns
  <2> SUFFICES ASSUME job' = [NewJob EXCEPT !.pc = "playing"] PROVE JobInv'
    BY <1>2, <1>8 DEF LoadReturns, JobGoes
  <2>1. "playing" \in JobPcs
    BY DEF JobPcs
  <2> QED BY <2>1, JobMoves DEF NewJob
<1> QED BY <1>3, <1>4, <1>5, <1>6, <1>7, <1>8 DEF JobStep

LEMMA JobInvHolds == Spec => []JobInv
<1>1. JobInv /\ [Next]_vars => JobInv'
  BY JobStepInv, JobStays DEF Next, vars
<1> QED BY <1>1, JobInit, PTL DEF Spec

\* Type correctness of the composition.
THEOREM TypeCorrectness == Spec => []TypeOK
<1>1. IInv /\ JobInv => TypeOK
  BY DEF IInv, JobInv, JobPcs, TypeOK
<1> QED BY <1>1, IInvHolds, JobInvHolds, PTL

-----------------------------------------------------------------------------
(* What is launched, and what is reported                                  *)

\* An application of a status has the three ids that were in its entry.
LEMMA ApplicationIsUsable ==
    ASSUME NEW json \in ReceiverJsons, NEW s \in parse_receiver_status(json),
           NEW i \in DOMAIN s.applications
    PROVE  s.applications[i].session_id # "" /\ s.applications[i].transport_id # ""
<1>1. PICK st \in Of("o", get(json, "status")) : s.applications = parse_applications(st)
  <2> DEFINE volume(v) == [level |-> unwrap_or(as_f64(Child({v}, "level")), 1),
                           muted |-> unwrap_or(Of("b", Child({v}, "muted")), FALSE)]
  <2>1. PICK st \in Of("o", get(json, "status")) : \E v \in get(st, "volume") :
            s = [volume |-> volume(v), applications |-> parse_applications(st)]
    BY DEF parse_receiver_status
  <2> HIDE DEF volume
  <2> QED BY <2>1
<1> DEFINE arrs == Of("a", get(st, "applications"))
           arr == unwrap_or(arrs, <<>>)
           ok(a) == \A k \in RequiredIds : as_str(Child({a}, k)) # {}
           the(a, k) == unwrap_or(as_str(Child({a}, k)), "")
           app(a) == [app_id |-> the(a, "appId"), session_id |-> the(a, "sessionId"),
                      transport_id |-> the(a, "transportId"),
                      display_name |-> the(a, "displayName")]
<1>2. parse_applications(st) = [j \in {h \in DOMAIN arr : ok(arr[h])} |-> app(arr[j])]
  BY Zenon DEF parse_applications
<1> HIDE DEF app
<1>3. i \in DOMAIN arr /\ ok(arr[i]) /\ s.applications[i] = app(arr[i])
  <2> HIDE DEF arr, ok
  <2> QED BY <1>1, <1>2
<1>4. arr \in arrs
  <2>1. arrs # {}
    <3>1. DOMAIN <<>> = {}
      OBVIOUS
    <3> QED BY <1>3, <3>1 DEF unwrap_or
  <2> HIDE DEF arrs
  <2> QED BY <2>1 DEF unwrap_or
<1> HIDE DEF arr
<1>5. ASSUME NEW k \in {"sessionId", "transportId"} PROVE the(arr[i], k) # ""
  <2> DEFINE ids == as_str(Child({arr[i]}, k))
  <2>1. ids # {}
    BY <1>3 DEF RequiredIds
  <2>2. "" \notin ids
    BY <1>3, <1>4, IdsAssumption
  <2> HIDE DEF ids
  <2>3. unwrap_or(ids, "") \in ids
    BY <2>1 DEF unwrap_or
  <2> QED BY <2>2, <2>3 DEF ids
<1> HIDE DEF the
<1>6. app(arr[i]).session_id = the(arr[i], "sessionId")
      /\ app(arr[i]).transport_id = the(arr[i], "transportId")
  BY DEF app
<1> QED BY <1>3, <1>5, <1>6

\* What a new job holds, and one that has failed or finished.
LEMMA EndedJob ==
    ASSUME NEW pc
    PROVE  /\ NewJob.app = {} /\ NewJob.pc = "launch"
           /\ [NewJob EXCEPT !.pc = pc].app = {} /\ [NewJob EXCEPT !.pc = pc].pc = pc
<1> DEFINE w == <<>>
<1>1. NewJob = [pc |-> "launch", app |-> {}, media |-> {}, wire |-> w,
                status |-> {}]
  BY DEF NewJob, NoStatus
<1> HIDE DEF w
<1> QED BY <1>1

LEMMA UsableStep ==
    ASSUME JobInv, LaunchedAppIsUsable, JobStep
    PROVE  LaunchedAppIsUsable'
<1>1. Quit.app = {}
  BY EndedJob DEF Quit
<1>2. ASSUME job'.app = {} \/ job'.app = job.app PROVE LaunchedAppIsUsable'
  BY <1>2 DEF LaunchedAppIsUsable
<1>3. CASE LaunchApp
  <2>1. PICK json \in ReceiverJsons :
           \/ job' = Quit
           \/ job' = [job EXCEPT !.pc = "start",
                          !.app = UNION {Found(s.applications) : s \in parse_receiver_status(json)}]
    BY <1>3 DEF LaunchApp, JobGoes
  <2>2. CASE job' = Quit
    BY <1>1, <1>2, <2>2
  <2> DEFINE found == UNION {Found(s.applications) : s \in parse_receiver_status(json)}
  <2>3. ASSUME job' = [job EXCEPT !.pc = "start", !.app = found] PROVE LaunchedAppIsUsable'
    <3>1. \A a \in found : a.app_id = Target /\ a.session_id # "" /\ a.transport_id # ""
      <4> SUFFICES ASSUME NEW a \in found
                   PROVE  a.app_id = Target /\ a.session_id # "" /\ a.transport_id # ""
        OBVIOUS
      <4>1. PICK s \in parse_receiver_status(json) : a \in Found(s.applications)
        OBVIOUS
      <4>2. PICK i \in DOMAIN s.applications :
               a = s.applications[i] /\ s.applications[i].app_id = Target
        BY <4>1 DEF Found
      <4> QED BY <4>2, ApplicationIsUsable
    <3> HIDE DEF found
    <3>2. job'.app = found
      BY <2>3 DEF JobInv
    <3> QED BY <3>1, <3>2 DEF LaunchedAppIsUsable
  <2> QED BY <2>1, <2>2, <2>3
<1>4. CASE JobStarts
  <2>1. job' = Quit \/ job' = [job EXCEPT !.pc = "serve"]
    BY <1>4 DEF JobStarts, JobGoes
  <2>2. job'.app = {} \/ job'.app = job.app
    BY <1>1, <2>1 DEF JobInv
  <2> QED BY <1>2, <2>2
<1>5. CASE JobServes
  <2>1. job' = Quit \/ job' = [job EXCEPT !.pc = "load"]
    BY <1>5 DEF JobServes, JobGoes
  <2>2. job'.app = {} \/ job'.app = job.app
    BY <1>1, <2>1 DEF JobInv
  <2> QED BY <1>2, <2>2
<1>6. CASE LoadMedia
  <2>1. PICK m, w : job' = [job EXCEPT !.pc = "answer", !.media = m, !.wire = w]
    BY <1>6 DEF LoadMedia, JobGoes
  <2>2. job'.app = job.app
    BY <2>1 DEF JobInv
  <2> QED BY <1>2, <2>2
<1>7. CASE Answered
  <2>1. \/ job' = Quit
        \/ \E ps : job' = [job EXCEPT !.pc = "check", !.wire = <<>>, !.status = ps]
    BY <1>7 DEF Answered, JobGoes
  <2>2. job'.app = {} \/ job'.app = job.app
    BY <1>1, <2>1 DEF JobInv
  <2> QED BY <1>2, <2>2
<1>8. CASE LoadReturns
  <2>1. job' = Quit \/ job' = [NewJob EXCEPT !.pc = "playing"]
    BY <1>8 DEF LoadReturns, JobGoes
  <2>2. job'.app = {}
    BY <1>1, <2>1, EndedJob
  <2> QED BY <1>2, <2>2
<1> QED BY <1>3, <1>4, <1>5, <1>6, <1>7, <1>8 DEF JobStep

\* launch_app() never returns an application that is missing an id: an entry
\* without one is left out, its defaults of "" are not used (router.rs:202-237).
\* Assumed of the device: the ids it gives are not empty (IdsAssumption).
THEOREM LaunchedIsUsable == Spec => []LaunchedAppIsUsable
<1>1. Init => LaunchedAppIsUsable
  BY EndedJob DEF Init, LaunchedAppIsUsable
<1>2. JobInv /\ LaunchedAppIsUsable /\ [Next]_vars => LaunchedAppIsUsable'
  <2>1. LaunchedAppIsUsable /\ UNCHANGED job => LaunchedAppIsUsable'
    BY DEF LaunchedAppIsUsable
  <2> QED BY <2>1, UsableStep DEF Next, vars
<1> QED BY <1>1, <1>2, JobInvHolds, PTL DEF Spec

\* What is being loaded, and whose answer the status is from.
EchoInv ==
    /\ job.pc = "answer" => \E m \in Medias : job.media = {m} /\ job.wire = serialize_media(m)
    /\ job.pc = "check" =>
          \E m \in Medias : /\ job.media = {m}
                            /\ \E json \in MediaJsons(serialize_media(m)) :
                                  job.status = parse_media_status(json)

\* The media of a status is the one in its entry.
LEMMA StatusMedia ==
    ASSUME NEW json, NEW s \in parse_media_status(json)
    PROVE  s.media = UNION {parse_media(x) : x \in Of("o", Child(StatusEntry(json), "media"))}
<1> DEFINE E == StatusEntry(json)
           media == UNION {parse_media(x) : x \in Of("o", Child(E, "media"))}
           ids == Of("n", Child(E, "mediaSessionId"))
           states == {PlayerStates[n] : n \in as_str(Child(E, "playerState"))
                                                \cap DOMAIN PlayerStates}
           reason == {IdleReasons[r] : r \in as_str(Child(E, "idleReason"))
                                                \cap DOMAIN IdleReasons}
           length == Positive(as_f64(Child(Child(E, "media"), "duration")))
<1>1. parse_media_status(json) =
         {[media_session_id |-> as_i32(x), player_state |-> p, idle_reason |-> reason,
           duration |-> length, media |-> media] : p \in states, x \in ids}
  BY DEF parse_media_status
<1> HIDE DEF media, ids, states, reason, length
<1>2. s.media = media
  BY <1>1
<1> QED BY <1>2 DEF media

LEMMA EchoStep ==
    ASSUME JobInv, EchoInv, JobStep
    PROVE  EchoInv'
<1>1. ASSUME job'.pc \notin {"answer", "check"} PROVE EchoInv'
  BY <1>1 DEF EchoInv
<1>2. Quit.pc = "error"
  BY EndedJob DEF Quit
<1>3. ASSUME job' = Quit PROVE EchoInv'
  BY <1>1, <1>2, <1>3
<1>4. CASE LaunchApp
  <2> SUFFICES ASSUME NEW found, job' = [job EXCEPT !.pc = "start", !.app = found] PROVE EchoInv'
    BY <1>3, <1>4 DEF LaunchApp, JobGoes
  <2>1. job'.pc = "start"
    BY DEF JobInv
  <2> QED BY <1>1, <2>1
<1>5. CASE JobStarts \/ JobServes
  <2> SUFFICES ASSUME NEW pc \in {"serve", "load"}, job' = [job EXCEPT !.pc = pc] PROVE EchoInv'
    BY <1>3, <1>5 DEF JobStarts, JobServes, JobGoes
  <2>1. job'.pc = pc
    BY DEF JobInv
  <2> QED BY <1>1, <2>1
<1>6. CASE LoadMedia
  <2>1. PICK m \in Medias : job' = [job EXCEPT !.pc = "answer", !.media = {m},
                                                !.wire = serialize_media(m)]
    BY <1>6 DEF LoadMedia, JobGoes
  <2> DEFINE w == serialize_media(m)
  <2>2. job' = [job EXCEPT !.pc = "answer", !.media = {m}, !.wire = w]
    BY <2>1
  <2> HIDE DEF w
  <2>3. job'.pc = "answer" /\ job'.media = {m} /\ job'.wire = w
    BY <2>2 DEF JobInv
  <2> QED BY <2>3 DEF EchoInv, w
<1>7. CASE Answered
  <2>1. job.pc = "answer"
    BY <1>7 DEF Answered, JobGoes
  <2>2. PICK m \in Medias : job.media = {m} /\ job.wire = serialize_media(m)
    BY <2>1 DEF EchoInv
  <2>3. PICK json \in MediaJsons(job.wire) :
           \/ job' = Quit
           \/ job' = [job EXCEPT !.pc = "check", !.wire = <<>>,
                                 !.status = parse_media_status(json)]
    BY <1>7 DEF Answered, JobGoes
  <2> SUFFICES ASSUME job' = [job EXCEPT !.pc = "check", !.wire = <<>>,
                                         !.status = parse_media_status(json)]
               PROVE  EchoInv'
    BY <2>3, <1>3
  <2> DEFINE ps == parse_media_status(json)
             w == <<>>
  <2>4. job' = [job EXCEPT !.pc = "check", !.wire = w, !.status = ps]
    OBVIOUS
  <2> HIDE DEF ps, w
  <2>5. job'.pc = "check" /\ job'.media = job.media /\ job'.status = ps
    BY <2>4 DEF JobInv
  <2>6. json \in MediaJsons(serialize_media(m))
    BY <2>2, <2>3
  <2> QED BY <2>2, <2>5, <2>6 DEF EchoInv, ps
<1>8. CASE LoadReturns
  <2> SUFFICES ASSUME job' = [NewJob EXCEPT !.pc = "playing"] PROVE EchoInv'
    BY <1>3, <1>8 DEF LoadReturns, JobGoes
  <2>1. job'.pc = "playing"
    BY EndedJob
  <2> QED BY <1>1, <2>1
<1> QED BY <1>4, <1>5, <1>6, <1>7, <1>8 DEF JobStep

LEMMA EchoInvHolds == Spec => []EchoInv
<1>1. Init => EchoInv
  <2>1. Init => job.pc = "launch"
    BY EndedJob DEF Init
  <2> QED BY <2>1 DEF EchoInv
<1>2. JobInv /\ EchoInv /\ [Next]_vars => EchoInv'
  <2>1. EchoInv /\ UNCHANGED job => EchoInv'
    BY DEF EchoInv
  <2> QED BY <2>1, EchoStep DEF Next, vars
<1> QED BY <1>1, <1>2, JobInvHolds, PTL DEF Spec

\* Whatever media is loaded, the status that load_media() returns reports it with
\* all its metadata and images, if the device echoes what it was sent
\* (EchoAssumption; media.rs: serialize_media, router.rs:307-390).
THEOREM LoadedComesBack == Spec => []LoadedIsReported
<1>1. EchoInv => LoadedIsReported
  <2> SUFFICES ASSUME EchoInv, job.pc = "check", NEW s \in job.status, NEW m \in job.media,
                      s.media # {}
               PROVE  s.media = {[m EXCEPT !.duration = Positive(@)]}
    BY DEF LoadedIsReported
  <2>1. m \in Medias /\ \E json \in MediaJsons(serialize_media(m)) :
                             job.status = parse_media_status(json)
    BY DEF EchoInv
  <2>2. PICK json \in MediaJsons(serialize_media(m)) : job.status = parse_media_status(json)
    BY <2>1
  <2> DEFINE objs == Child(StatusEntry(json), "media")
             w == serialize_media(m)
  <2>3. s.media = UNION {parse_media(x) : x \in Of("o", objs)}
    BY <2>2, StatusMedia
  <2>4. objs \subseteq {w}
    BY <2>1, <2>2, EchoAssumption
  <2>5. w = <<"o", w[2]>>
    BY DEF serialize_media, Obj
  <2> HIDE DEF w, objs
  <2>6. objs = {w}
    <3>1. Of("o", {}) = {}
      BY DEF Of
    <3>2. objs # {}
      BY <2>3, <3>1
    <3> QED BY <2>4, <3>2
  <2>7. Of("o", objs) = {w[2]}
    <3> DEFINE c == w[2]
    <3>1. w = <<"o", c>>
      BY <2>5
    <3> HIDE DEF c
    <3> QED BY <2>6, <3>1, UntagOne DEF c
  <2>8. s.media = parse_media(w[2])
    BY <2>3, <2>7
  <2> QED BY <2>1, <2>8, RoundTrip, MediasAssumption DEF w
<1> QED BY <1>1, EchoInvHolds, PTL
=============================================================================
