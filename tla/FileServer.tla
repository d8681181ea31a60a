----------------------------- MODULE FileServer -----------------------------
(***************************************************************************)
(* serve.rs: files are registered under ids from a process-wide counter,   *)
(* and an HTTP handler answers GET /file/{id}, with or without a Range     *)
(* header, while files are registered, grow, shrink and are deleted.       *)
(*                                                                         *)
(* A Range header is what splitn and parse make of it: not a byte range at *)
(* all, "-n" (suffix), "a-" (open) or "a-b".  The body of a response is    *)
(* its first position and its number of bytes.  The file system and the    *)
(* HTTP client are external.                                               *)
(***************************************************************************)
EXTENDS Integers

CONSTANTS Paths,       \* local files
          Registrars,  \* callers of FileServer::serve_file()
          Gets,        \* HTTP requests
          MaxSize,     \* bound: length of a file
          MaxChanges   \* bound: changes to the files

ASSUME SizeAssumption == MaxSize \in Nat /\ MaxChanges \in Nat

VARIABLES size, exists,  \* the file system
          changes,
          counter,       \* static COUNTER
          files,         \* the registry: from ids to paths
          reg,           \* each registrar: pc, path, id
          http,          \* each request: pc, id, header, path, total, answer
          up             \* the server task runs

fs == <<size, exists, changes>>
registry == <<counter, files, reg>>
serverVars == <<fs, registry, http, up>>

NoPath == "none"
Headers == [kind: {"none", "bad"}, a: {0}, b: {0}]
             \cup [kind: {"suffix", "open"}, a: 0 .. MaxSize + 1, b: {0}]
             \cup [kind: {"span"}, a: 0 .. MaxSize, b: 0 .. MaxSize]
Reply(code, start, len, body) == [code |-> code, start |-> start, len |-> len, body |-> body]
NoAnswer == Reply(0, 0, 0, 0)
NewGet(pc, id, header) == [pc |-> pc, id |-> id, header |-> header, path |-> NoPath,
                           total |-> 0, answer |-> NoAnswer, seen |-> 0]
FreeGet == NewGet("idle", 0, [kind |-> "none", a |-> 0, b |-> 0])

Answer == [code: {0, 200, 206, 404, 416, 500}, start: 0 .. MaxSize, len: 0 .. MaxSize,
           body: 0 .. MaxSize]
Registration == [pc: {"idle", "count", "insert", "done", "error"},
                 path: Paths \cup {NoPath}, id: Nat]
Get == [pc: {"idle", "lookup", "open", "metadata", "stream", "done"}, id: Nat,
        header: Headers, path: Paths \cup {NoPath}, total: 0 .. MaxSize, answer: Answer,
        seen: 0 .. MaxChanges]

ServerTypeOK ==
    /\ size \in [Paths -> 0 .. MaxSize] /\ exists \in [Paths -> BOOLEAN]
    /\ changes \in 0 .. MaxChanges /\ counter \in Nat
    /\ DOMAIN files \subseteq Nat /\ \A i \in DOMAIN files : files[i] \in Paths
    /\ reg \in [Registrars -> Registration]
    /\ http \in [Gets -> Get]
    /\ \A h \in Gets : http[h].pc \in {"open", "metadata", "stream"} => http[h].path \in Paths
    /\ up \in BOOLEAN

ServerInit ==
    /\ size \in [Paths -> 0 .. MaxSize] /\ exists = [p \in Paths |-> TRUE] /\ changes = 0
    /\ counter = 0 /\ files = [i \in {} |-> NoPath]
    /\ reg = [r \in Registrars |-> [pc |-> "idle", path |-> NoPath, id |-> 0]]
    /\ http = [h \in Gets |-> FreeGet]
    /\ up = FALSE

-----------------------------------------------------------------------------
(* FileServer::start() and serve_file()                                    *)

\* The task is spawned; without a LAN address the new server is dropped again.
Start ==
    /\ ~up /\ up' \in BOOLEAN
    /\ UNCHANGED <<fs, registry, http>>

\* path.exists()
Checks(r) ==
    /\ up /\ reg[r].pc = "idle"
    /\ \E p \in Paths :
          reg' = [reg EXCEPT ![r].pc = IF exists[p] THEN "count" ELSE "error",
                             ![r].path = p]
    /\ UNCHANGED <<fs, counter, files, http, up>>

\* Mutant: the first id that is free in the registry.
CountsFree(r) ==
    /\ reg[r].pc = "count"
    /\ reg' = [reg EXCEPT ![r].pc = "insert",
                       ![r].id = CHOOSE i \in 0 .. counter : i \notin DOMAIN files]
    /\ counter' = counter + 1
    /\ UNCHANGED <<fs, files, http, up>>

\* COUNTER.fetch_add(1)
Counts(r) ==
    /\ reg[r].pc = "count"
    /\ reg' = [reg EXCEPT ![r].pc = "insert", ![r].id = counter]
    /\ counter' = counter + 1
    /\ UNCHANGED <<fs, files, http, up>>

\* Under the write lock; the URL is returned.
Inserts(r) ==
    /\ reg[r].pc = "insert" /\ reg' = [reg EXCEPT ![r].pc = "done"]
    /\ files' = [i \in DOMAIN files \cup {reg[r].id} |->
                    IF i = reg[r].id THEN reg[r].path ELSE files[i]]
    /\ UNCHANGED <<fs, counter, http, up>>

-----------------------------------------------------------------------------
(* The HTTP handler                                                        *)

\* Mutant: an end one beyond the file.
parse_range_beyond(header, total) ==
    LET start == IF header.kind # "suffix" THEN header.a
                 ELSE IF header.a > total THEN 0 ELSE total - header.a
        end == IF header.kind = "span" THEN header.b ELSE total - 1 IN
    IF /\ total # 0 /\ header.kind \in {"suffix", "open", "span"}
       /\ start <= end /\ end <= total
    THEN {<<start, end>>} ELSE {}

\* Option<(start, end)> as a set.  On an empty file total - 1 would underflow.
parse_range(header, total) ==
    LET start == IF header.kind # "suffix" THEN header.a
                 ELSE IF header.a > total THEN 0 ELSE total - header.a
        end == IF header.kind = "span" THEN header.b ELSE total - 1 IN
    IF /\ total # 0 /\ header.kind \in {"suffix", "open", "span"}
       /\ start <= end /\ end < total
    THEN {<<start, end>>} ELSE {}

HttpOnly == UNCHANGED <<fs, registry, up>>
Goes(h, from, rec) ==
    /\ http[h].pc = from /\ http' = [http EXCEPT ![h] = rec]
    /\ HttpOnly
Answers(g, code) == [g EXCEPT !.pc = "done", !.answer = Reply(code, 0, 0, 0)]

Arrives(h) ==
    /\ up
    /\ \E id \in 0 .. counter, header \in Headers :
          Goes(h, "idle", NewGet("lookup", id, header))

\* The entry is cloned under the read lock.
Lookup(h) ==
    LET g == http[h] IN
    Goes(h, "lookup", IF g.id \in DOMAIN files
                      THEN [g EXCEPT !.pc = "open", !.path = files[g.id]]
                      ELSE Answers(g, 404))

Open(h) ==
    LET g == http[h] IN
    Goes(h, "open", IF exists[g.path] THEN [g EXCEPT !.pc = "metadata"]
                                      ELSE Answers(g, 500))

\* What is known once the metadata are read; seen: the changes so far.
Heads(g, pc, answer) ==
    [g EXCEPT !.pc = pc, !.total = size[g.path], !.seen = changes, !.answer = answer]

\* The length, the range, and the headers of the response.
Metadata(h) ==
    LET g == http[h]
        total == size[g.path]
        range == parse_range(g.header, total)
        r == CHOOSE x \in range : TRUE IN
    Goes(h, "metadata",
         IF range # {} THEN Heads(g, "stream", Reply(206, r[1], r[2] - r[1] + 1, 0))
         ELSE IF g.header.kind = "none" THEN Heads(g, "stream", Reply(200, 0, total, 0))
         ELSE Heads(g, "done", Reply(416, 0, 0, 0)))

Rest(g) == LET n == size[g.path] - g.answer.start IN IF n < 0 THEN 0 ELSE n

Body(g, body) ==
    [g EXCEPT !.pc = "done",
              !.answer = Reply(g.answer.code, g.answer.start, g.answer.len, body)]

\* Mutant: the file is read to its end.
StreamToEnd(h) == LET g == http[h] IN Goes(h, "stream", Body(g, Rest(g)))

\* seek, take(len), and whatever the file holds then; without a range the whole
\* of it, of which HTTP takes no more than the Content-Length.
Stream(h) ==
    LET g == http[h] IN
    Goes(h, "stream", Body(g, IF Rest(g) < g.answer.len THEN Rest(g) ELSE g.answer.len))

-----------------------------------------------------------------------------
(* The file system (external)                                              *)

Changes ==
    /\ changes < MaxChanges /\ changes' = changes + 1
    /\ \/ \E p \in Paths, n \in 0 .. MaxSize : size' = [size EXCEPT ![p] = n] /\ UNCHANGED exists
       \/ \E p \in Paths : exists' = [exists EXCEPT ![p] = FALSE] /\ UNCHANGED size
    /\ UNCHANGED <<registry, http, up>>

HttpStep(h) == Arrives(h) \/ Lookup(h) \/ Open(h) \/ Metadata(h) \/ Stream(h)
RegisterStep(r) == Checks(r) \/ Counts(r) \/ Inserts(r)

-----------------------------------------------------------------------------
(* Properties                                                              *)

\* A URL that serve_file() has returned names the file it was registered for,
\* however many callers register at once (serve.rs:103-118).
UrlNamesItsFile ==
    \A r \in Registrars :
        reg[r].pc = "done" => reg[r].id \in DOMAIN files /\ files[reg[r].id] = reg[r].path

\* The bytes of a file of this length that a Range header asks for, as the tests
\* have it (serve.rs:263-321): an end beyond the file asks for none.
Wanted(header, total) ==
    {p \in 0 .. total - 1 :
        \/ header.kind = "none"
        \/ header.kind = "suffix" /\ p >= total - header.a
        \/ header.kind = "open" /\ p >= header.a
        \/ header.kind = "span" /\ header.a <= p /\ p <= header.b /\ header.b < total}

\* The answer is the bytes asked for, and 416 when there are none; it never
\* holds more than its Content-Length announces, and less only when the file
\* was changed after its length was read (serve.rs:161-221).
AnswerIsWhatWasAsked ==
    \A h \in Gets :
        LET g == http[h]
            a == g.answer
            wanted == Wanted(g.header, g.total) IN
        g.pc = "done" /\ a.code \in {200, 206, 416} =>
            /\ a.code = 416 <=> (wanted = {} /\ g.header.kind # "none")
            /\ a.code # 416 => wanted = a.start .. a.start + a.len - 1
            /\ a.body <= a.len
            /\ a.code # 416 /\ g.seen = changes => a.body = a.len
=============================================================================
