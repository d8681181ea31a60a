------------------------ MODULE RequestTrackerProofs ------------------------
(***************************************************************************)
(* Proofs about RequestTracker, for any set of calls, any Modulus (2^32 in *)
(* the code) and any Window shorter than a turn of the counter.            *)
(***************************************************************************)
EXTENDS RequestTracker, TLAPS

USE ModulusAssumption, WindowAssumption

-----------------------------------------------------------------------------
(* The counter                                                             *)

\* wrapping_add stays within u32.
LEMMA WrappingIncType == \A n \in Ids : WrappingInc(n) \in Ids
  BY DEF Ids, WrappingInc

\* Within a window shorter than a turn of the counter, a fetch_add yields a
\* value that no id of the window has, makes each of them one step older, and
\* is itself the most recent one.
LEMMA FetchAddAges ==
  ASSUME NEW k \in Ids, NEW n \in Ids, NEW a \in Nat, a < Window, Behind(k, n) < a
  PROVE  /\ WrappingInc(k) # n
         /\ Behind(WrappingInc(k), n) < a + 1
  BY DEF Ids, WrappingInc, Behind

LEMMA FetchAddIsRecent ==
  ASSUME NEW k \in Ids, NEW a \in Nat
  PROVE  Behind(WrappingInc(k), WrappingInc(k)) < a + 1
  BY DEF Ids, WrappingInc, Behind

-----------------------------------------------------------------------------
(* The inductive invariant                                                 *)

LEMMA InitIInv == Init => IInv
<1> SUFFICES ASSUME Init PROVE IInv
  OBVIOUS
<1>1. full \in BOOLEAN
  BY Zenon DEF Init
<1>2. TypeOK
  BY <1>1 DEF Init, TypeOK, Ids, NoneIssued, Locations, Results, Links
<1>3. /\ IdsAreRecent /\ IdsAreDistinct /\ OnlyRetriesHoldZero
      /\ WaiterIsReachable /\ ChannelFollowsCall /\ ResultFollowsCall
  BY DEF Init, IdsAreRecent, IdsAreDistinct, HasId, OnlyRetriesHoldZero,
         WaiterIsReachable, ChannelFollowsCall, ResultFollowsCall, NoneIssued
<1> QED
  BY <1>2, <1>3 DEF IInv

\* register()'s fetch_adds: the id a call takes is nobody else's, and it is 0
\* only on its way to the second fetch_add.
LEMMA TakeIdKeepsIInv ==
  ASSUME IInv, NEW c \in Calls, TakeId(c), pc[c] \in {"start", "again"},
         pc' = [pc EXCEPT ![c] = IF pc[c] = "start" /\ WrappingInc(counter) = 0
                                 THEN "again" ELSE "insert"]
  PROVE  IInv'
<1> USE DEF IInv
<1> DEFINE n == WrappingInc(counter)
<1>1. n \in Ids
  BY WrappingIncType DEF TypeOK
<1>2. TypeOK'
  BY <1>1 DEF TakeId, TypeOK, Locations
<1>3. \A d \in Calls : d # c =>
         pc'[d] = pc[d] /\ id'[d] = id[d] /\ HasId(d)' = HasId(d)
  BY DEF TakeId, TypeOK, HasId
<1>4. id'[c] = n /\ HasId(c)' /\ counter' = n /\ allocs' = allocs + 1
  BY DEF TakeId, TypeOK, HasId
<1>5. \A d \in Calls : HasId(d) =>
         n # id[d] /\ Behind(n, id[d]) < allocs + 1
  BY FetchAddAges DEF TakeId, IdsAreRecent, TypeOK
<1> HIDE DEF n
<1>6. IdsAreRecent'
  <2>1. Behind(n, n) < allocs + 1
    BY FetchAddIsRecent DEF TypeOK, n
  <2> QED
    BY <1>3, <1>4, <1>5, <2>1 DEF IdsAreRecent
<1>7. IdsAreDistinct'
  BY <1>3, <1>4, <1>5 DEF IdsAreDistinct
<1>8. OnlyRetriesHoldZero'
  \* A call that retries holds 0, so the counter cannot be back at 0.
  <2>1. pc[c] = "again" => n # 0
    BY <1>5 DEF OnlyRetriesHoldZero, HasId
  <2> QED
    BY <1>3, <1>4, <2>1 DEF OnlyRetriesHoldZero, TypeOK, n
<1>9. WaiterIsReachable'
  BY <1>3 DEF WaiterIsReachable, ChannelFollowsCall, TakeId, TypeOK
<1>10. ChannelFollowsCall'
  BY <1>3 DEF ChannelFollowsCall, TakeId, TypeOK
<1>11. ResultFollowsCall'
  BY <1>3 DEF ResultFollowsCall, TakeId, TypeOK
<1> QED
  BY <1>2, <1>6, <1>7, <1>8, <1>9, <1>10, <1>11

\* The steps of a call that touch neither its id nor the table.
LEMMA LocalStepKeepsIInv ==
  ASSUME IInv, NEW c \in Calls,
         \/ CloneSender(c) \/ Send(c) \/ SendFails(c)
         \/ WaitOk(c) \/ WaitFails(c) \/ Cancel(c)
  PROVE  IInv'
<1> USE DEF IInv, CloneSender, Send, SendFails, WaitOk, WaitFails, Cancel, Goto
<1>1. TypeOK'
  BY DEF TypeOK, Locations, Results
<1>2. /\ id' = id /\ counter' = counter /\ allocs' = allocs
      /\ \A d \in Calls : HasId(d)' = HasId(d)
      /\ \A d \in Calls : pc'[d] = "again" <=> pc[d] = "again"
  BY DEF TypeOK, HasId
<1>3. IdsAreRecent' /\ IdsAreDistinct' /\ OnlyRetriesHoldZero'
  BY <1>2 DEF IdsAreRecent, IdsAreDistinct, OnlyRetriesHoldZero
<1>4. WaiterIsReachable'
  BY DEF WaiterIsReachable
<1>5. ChannelFollowsCall'
  <2>1. /\ \A d \in Calls : d # c => pc'[d] = pc[d]
        /\ chan' = chan /\ answer' = answer /\ sent' \subseteq sent \cup {c}
    BY DEF TypeOK
  <2>2. /\ \/ pc'[c] \in {"wait", "cleanup", "done"}
           \/ /\ pc[c] = "send" /\ pc'[c] = "enqueue"
              /\ sent' = sent /\ c \notin sent
              /\ chan[c] \in {"open", "closed"}
        /\ pc'[c] = "wait" => chan[c] # "none"
        /\ pc'[c] = "cleanup" => chan[c] \in {"open", "closed"}
    BY DEF ChannelFollowsCall, TypeOK
  <2> QED
    BY <2>1, <2>2 DEF ChannelFollowsCall
<1>6. ResultFollowsCall'
  <2>1. \A d \in Calls : d # c => pc'[d] = pc[d] /\ result'[d] = result[d]
    BY DEF TypeOK
  <2>2. /\ chan' = chan
        /\ pc'[c] \notin {"cleanup", "done"} => result'[c] = "none"
        /\ pc'[c] = "done" => result'[c] # "none"
        /\ pc'[c] = "cleanup" => result'[c] \in {"timeout", "disconnected"}
        /\ result'[c] = "ok" => chan[c] = "full"
        /\ pc'[c] = "done" => result'[c] \in {"ok", "unsent", "cancelled"}
    BY DEF ResultFollowsCall, TypeOK
  <2> QED
    BY <2>1, <2>2 DEF ResultFollowsCall
<1> QED
  BY <1>1, <1>3, <1>4, <1>5, <1>6

\* register()'s insertion: with distinct ids it replaces nobody's entry.
LEMMA InsertKeepsIInv ==
  ASSUME IInv, NEW c \in Calls, Insert(c)
  PROVE  IInv'
<1> USE DEF IInv
<1>1. id[c] \in Ids /\ id[c] # 0 /\ HasId(c)
  BY DEF TypeOK, Insert, OnlyRetriesHoldZero, HasId
<1>2. id[c] \notin DOMAIN pending
  \* The owner of such an entry would be another call with c's id.
  BY <1>1 DEF WaiterIsReachable, IdsAreDistinct, ChannelFollowsCall, Insert,
              TypeOK, HasId
<1>3. chan' = [chan EXCEPT ![c] = "open"]
  BY <1>2 DEF Insert, DropSenders, TypeOK
<1>4. /\ DOMAIN pending' = DOMAIN pending \cup {id[c]}
      /\ pending'[id[c]] = c
      /\ \A n \in DOMAIN pending : pending'[n] = pending[n]
  BY <1>2 DEF Insert, TypeOK
<1>5. TypeOK'
  <2>1. pending' \in [DOMAIN pending' -> Calls] /\ DOMAIN pending' \subseteq Ids
    BY <1>1, <1>4 DEF Insert, TypeOK
  <2>2. chan' \in [Calls -> {"none", "open", "full", "closed"}]
    BY <1>3 DEF TypeOK
  <2>3. pc' \in [Calls -> Locations]
    BY DEF Insert, Goto, TypeOK, Locations
  <2> QED BY <2>1, <2>2, <2>3 DEF Insert, TypeOK
<1>6. /\ id' = id /\ counter' = counter /\ allocs' = allocs
      /\ \A d \in Calls : HasId(d)' = HasId(d)
      /\ \A d \in Calls : pc'[d] = "again" <=> pc[d] = "again"
  BY DEF Insert, Goto, TypeOK, HasId
<1>7. IdsAreRecent' /\ IdsAreDistinct' /\ OnlyRetriesHoldZero'
  BY <1>6 DEF IdsAreRecent, IdsAreDistinct, OnlyRetriesHoldZero
<1>8. WaiterIsReachable'
  BY <1>3, <1>4, <1>6 DEF WaiterIsReachable, TypeOK
<1>9. /\ \A d \in Calls : d # c => pc'[d] = pc[d] /\ chan'[d] = chan[d]
      /\ pc[c] = "insert" /\ pc'[c] = "send" /\ chan'[c] = "open"
      /\ answer' = answer /\ result' = result /\ sent' = sent
  BY <1>3 DEF Insert, Goto, TypeOK
<1>10. ChannelFollowsCall'
  BY <1>9 DEF ChannelFollowsCall
<1>11. ResultFollowsCall'
  BY <1>9 DEF ResultFollowsCall
<1> QED
  BY <1>5, <1>7, <1>8, <1>10, <1>11

\* Dropping the senders of some entries closes exactly the channels of their
\* owners and keeps everyone else reachable.
LEMMA DropKeepsIInv ==
  ASSUME IInv, NEW N, chan' = DropSenders(N),
         pending' = Restrict(pending, DOMAIN pending \ N),
         pc' = pc, id' = id, answer' = answer, result' = result,
         counter' = counter, allocs' = allocs, link' \in Links, full' = full,
         sent' \subseteq sent
  PROVE  IInv'
<1> USE DEF IInv
<1>1. /\ DOMAIN pending' = DOMAIN pending \ N
      /\ \A n \in DOMAIN pending' : pending'[n] = pending[n]
  BY DEF Restrict
<1>2. chan' \in [Calls -> {"none", "open", "full", "closed"}]
  BY DEF DropSenders, TypeOK
<1>3. \A c \in Calls : \/ chan'[c] = chan[c]
                       \/ chan[c] = "open" /\ chan'[c] = "closed"
  BY DEF DropSenders, WaiterIsReachable
<1>4. \A c \in Calls : chan'[c] = "open" <=> chan[c] = "open" /\ id[c] \notin N
  BY DEF DropSenders, WaiterIsReachable, TypeOK
<1>5. TypeOK'
  BY <1>1, <1>2 DEF TypeOK, Restrict
<1>6. IdsAreRecent' /\ IdsAreDistinct' /\ OnlyRetriesHoldZero'
  BY DEF IdsAreRecent, IdsAreDistinct, OnlyRetriesHoldZero, HasId
<1>7. WaiterIsReachable'
  <2>1. \A c \in Calls : chan'[c] = "open" =>
           id'[c] \in DOMAIN pending' /\ pending'[id'[c]] = c
    BY <1>1, <1>4 DEF WaiterIsReachable
  <2>2. \A n \in DOMAIN pending' :
           chan'[pending'[n]] = "open" /\ id'[pending'[n]] = n
    <3> SUFFICES ASSUME NEW n \in DOMAIN pending'
                 PROVE  chan'[pending'[n]] = "open" /\ id'[pending'[n]] = n
      OBVIOUS
    <3>1. n \in DOMAIN pending /\ n \notin N /\ pending[n] \in Calls
      BY <1>1 DEF TypeOK
    <3>2. chan[pending[n]] = "open" /\ id[pending[n]] = n
      BY <3>1 DEF WaiterIsReachable
    <3> QED
      BY <1>1, <1>4, <3>1, <3>2
  <2> QED
    BY <2>1, <2>2 DEF WaiterIsReachable
<1>8. ChannelFollowsCall'
  BY <1>3 DEF ChannelFollowsCall
<1>9. ResultFollowsCall'
  BY <1>3 DEF ResultFollowsCall
<1> QED
  BY <1>5, <1>6, <1>7, <1>8, <1>9

\* clear() drops the senders of all entries.
LEMMA ClearIsDrop ==
  Clear => /\ chan' = DropSenders(DOMAIN pending)
           /\ pending' = Restrict(pending, DOMAIN pending \ DOMAIN pending)
  BY DEF Clear, NoneIssued, Restrict

\* wait_for()'s removal: what it removes, if anything, is the call's own entry.
LEMMA CleanupKeepsIInv ==
  ASSUME IInv, NEW c \in Calls, Cleanup(c)
  PROVE  IInv'
<1> USE DEF IInv
<1> DEFINE n == id[c]
<1>1. /\ id' = id /\ counter' = counter /\ allocs' = allocs /\ link' = link
      /\ full' = full /\ answer' = answer /\ result' = result /\ sent' = sent
      /\ pc[c] = "cleanup" /\ pc'[c] = "done"
      /\ pc' \in [Calls -> Locations]
      /\ \A d \in Calls : d # c => pc'[d] = pc[d]
  BY DEF Cleanup, Goto, TypeOK, Locations
<1>2. /\ DOMAIN pending' = DOMAIN pending \ {n}
      /\ \A m \in DOMAIN pending' : pending'[m] = pending[m]
      /\ pending' \in [DOMAIN pending' -> Calls]
  BY DEF Cleanup, Without, Restrict, TypeOK
<1>3. n \in DOMAIN pending => pending[n] = c
  <2> SUFFICES ASSUME n \in DOMAIN pending PROVE pending[n] = c
    OBVIOUS
  <2>1. pending[n] \in Calls /\ chan[pending[n]] = "open" /\ id[pending[n]] = n
    BY DEF WaiterIsReachable, TypeOK
  <2>2. HasId(pending[n]) /\ HasId(c)
    BY <1>1, <2>1 DEF ChannelFollowsCall, HasId
  <2> QED
    BY <2>1, <2>2 DEF IdsAreDistinct
<1>4. chan[c] \in {"open", "closed"}
  BY <1>1 DEF ChannelFollowsCall
<1>5. chan' = [chan EXCEPT ![c] = "closed"]
  <2>1. n \notin DOMAIN pending => chan[c] = "closed"
    BY <1>4 DEF WaiterIsReachable
  <2>2. chan' = [d \in Calls |-> IF n \in DOMAIN pending /\ d = c
                                THEN "closed" ELSE chan[d]]
    BY <1>3 DEF Cleanup, DropSenders
  <2> QED
    BY <2>1, <2>2 DEF TypeOK
<1>6. TypeOK'
  BY <1>1, <1>2, <1>5 DEF TypeOK
<1>7. IdsAreRecent' /\ IdsAreDistinct' /\ OnlyRetriesHoldZero'
  BY <1>1 DEF IdsAreRecent, IdsAreDistinct, OnlyRetriesHoldZero, HasId
<1>8. WaiterIsReachable'
  <2>1. \A d \in Calls : chan'[d] = "open" =>
           id'[d] \in DOMAIN pending' /\ pending'[id'[d]] = d
    BY <1>1, <1>2, <1>3, <1>5 DEF WaiterIsReachable, TypeOK
  <2>2. \A m \in DOMAIN pending' :
           chan'[pending'[m]] = "open" /\ id'[pending'[m]] = m
    BY <1>1, <1>2, <1>5 DEF WaiterIsReachable, TypeOK
  <2> QED
    BY <2>1, <2>2 DEF WaiterIsReachable
<1>9. chan'[c] = "closed" /\ \A d \in Calls : d # c => chan'[d] = chan[d]
  BY <1>5 DEF TypeOK
<1>10. ChannelFollowsCall'
  BY <1>1, <1>4, <1>9 DEF ChannelFollowsCall
<1>11. ResultFollowsCall'
  BY <1>1, <1>9 DEF ResultFollowsCall
<1> QED
  BY <1>6, <1>7, <1>8, <1>10, <1>11

\* resolve(): the entry under the id of an answered request belongs to the
\* call that sent it, so the answer reaches its own call or nobody.
LEMMA DeliverKeepsIInv ==
  ASSUME IInv, NEW c \in Calls, Deliver(c)
  PROVE  IInv'
<1> USE DEF IInv
<1>1. CASE id[c] \notin DOMAIN pending
  BY <1>1 DEF Deliver, TypeOK, IdsAreRecent, IdsAreDistinct, OnlyRetriesHoldZero,
              HasId, WaiterIsReachable, ChannelFollowsCall, ResultFollowsCall
<1>2. CASE id[c] \in DOMAIN pending
  <2> DEFINE n == id[c]
  <2>1. pc[c] \in {"wait", "cleanup", "done"} /\ HasId(c)
    BY DEF Deliver, ChannelFollowsCall, HasId
  <2>2. pending[n] \in Calls /\ chan[pending[n]] = "open" /\ id[pending[n]] = n
    BY <1>2 DEF WaiterIsReachable, TypeOK
  <2>3. HasId(pending[n])
    BY <2>2 DEF ChannelFollowsCall, HasId
  <2>4. pending[n] = c /\ chan[c] = "open" /\ answer[c] = {}
    BY <2>1, <2>2, <2>3 DEF IdsAreDistinct, ChannelFollowsCall
  <2>5. /\ DOMAIN pending' = DOMAIN pending \ {n}
        /\ \A m \in DOMAIN pending' : pending'[m] = pending[m]
        /\ pending' \in [DOMAIN pending' -> Calls]
    BY <1>2 DEF Deliver, Resolve, Without, Restrict, TypeOK
  <2>6. /\ chan' \in [Calls -> {"none", "open", "full", "closed"}]
        /\ answer' \in [Calls -> SUBSET Calls]
        /\ \A d \in Calls : d # c => chan'[d] = chan[d] /\ answer'[d] = answer[d]
    BY <1>2, <2>4 DEF Deliver, Resolve, TypeOK
  <2>7. \/ pc[c] = "wait" /\ chan'[c] = "full" /\ answer'[c] = {c}
        \/ pc[c] # "wait" /\ chan'[c] = "closed" /\ answer'[c] = {}
    BY <1>2, <2>1, <2>4 DEF Deliver, Resolve, ReceiverAlive, TypeOK
  <2>8. pc' = pc /\ id' = id /\ result' = result /\ sent' = sent
        /\ counter' = counter /\ allocs' = allocs /\ link' = link /\ full' = full
    BY DEF Deliver
  <2>9. TypeOK'
    BY <2>5, <2>6, <2>8 DEF TypeOK
  <2>10. IdsAreRecent' /\ IdsAreDistinct' /\ OnlyRetriesHoldZero'
    BY <2>8 DEF IdsAreRecent, IdsAreDistinct, OnlyRetriesHoldZero, HasId
  <2>11. WaiterIsReachable'
    <3>1. \A d \in Calls : chan'[d] = "open" =>
             id'[d] \in DOMAIN pending' /\ pending'[id'[d]] = d
      BY <2>4, <2>5, <2>6, <2>7, <2>8 DEF WaiterIsReachable
    <3>2. \A m \in DOMAIN pending' :
             chan'[pending'[m]] = "open" /\ id'[pending'[m]] = m
      <4> SUFFICES ASSUME NEW m \in DOMAIN pending'
                   PROVE  chan'[pending'[m]] = "open" /\ id'[pending'[m]] = m
        OBVIOUS
      <4>1. m # n /\ pending'[m] = pending[m] /\ pending[m] \in Calls
        BY <2>5 DEF TypeOK
      <4>2. chan[pending[m]] = "open" /\ id[pending[m]] = m
        BY <2>5 DEF WaiterIsReachable
      <4>3. pending[m] # c
        BY <4>1, <4>2
      <4> QED
        BY <2>6, <2>8, <4>1, <4>2, <4>3
    <3> QED
      BY <3>1, <3>2 DEF WaiterIsReachable
  <2>12. ChannelFollowsCall'
    BY <2>1, <2>6, <2>7, <2>8 DEF ChannelFollowsCall
  <2>13. ResultFollowsCall'
    BY <2>4, <2>6, <2>7, <2>8 DEF ResultFollowsCall
  <2> QED
    BY <2>9, <2>10, <2>11, <2>12, <2>13
<1> QED
  BY <1>1, <1>2

\* reconnect() replaces the write channel: the calls that wait in the old one
\* are refused, and still own their entries.
LEMMA SwapKeepsIInv ==
  ASSUME IInv, SwapWriter
  PROVE  IInv'
<1> USE DEF IInv
<1>1. \A c \in Calls :
         \/ pc'[c] = pc[c]
         \/ pc[c] = "enqueue" /\ pc'[c] = "refused"
  BY DEF SwapWriter
<1>2. /\ pc' \in [Calls -> Locations] /\ link' \in Links /\ full' \in BOOLEAN
      /\ sent' = {}
      /\ UNCHANGED <<counter, pending, id, chan, answer, result, allocs>>
  BY DEF SwapWriter, TypeOK, Locations, Links
<1>3. TypeOK'
  BY <1>2 DEF TypeOK
<1>4. IdsAreRecent' /\ IdsAreDistinct' /\ OnlyRetriesHoldZero'
  BY <1>1, <1>2 DEF IdsAreRecent, IdsAreDistinct, OnlyRetriesHoldZero, HasId
<1>5. WaiterIsReachable' /\ ChannelFollowsCall' /\ ResultFollowsCall'
  BY <1>1, <1>2 DEF WaiterIsReachable, ChannelFollowsCall, ResultFollowsCall
<1> QED
  BY <1>3, <1>4, <1>5

\* The inductive step: every step of a call, of the device or of the
\* connection keeps the invariant.
LEMMA NextIInv == IInv /\ [Next]_vars => IInv'
<1> SUFFICES ASSUME IInv, [Next]_vars PROVE IInv'
  OBVIOUS
<1>1. ASSUME NEW c \in Calls, FetchAdd(c) PROVE IInv'
  <2>1. pc' = [pc EXCEPT ![c] = IF pc[c] = "start" /\ WrappingInc(counter) = 0
                                THEN "again" ELSE "insert"]
    BY <1>1 DEF FetchAdd, Goto
  <2> QED
    BY <1>1, <2>1, TakeIdKeepsIInv DEF FetchAdd
<1>2. ASSUME NEW c \in Calls, FetchAddAgain(c) PROVE IInv'
  <2>1. pc' = [pc EXCEPT ![c] = IF pc[c] = "start" /\ WrappingInc(counter) = 0
                                THEN "again" ELSE "insert"]
    BY <1>2 DEF FetchAddAgain, Goto
  <2> QED
    BY <1>2, <2>1, TakeIdKeepsIInv DEF FetchAddAgain
<1>3. ASSUME NEW c \in Calls, Insert(c) PROVE IInv'
  BY <1>3, InsertKeepsIInv
<1>4. ASSUME NEW c \in Calls,
             \/ CloneSender(c) \/ Send(c) \/ SendFails(c)
             \/ WaitOk(c) \/ WaitFails(c) \/ Cancel(c)
      PROVE  IInv'
  BY <1>4, LocalStepKeepsIInv
<1>5. ASSUME NEW c \in Calls, Cleanup(c) PROVE IInv'
  BY <1>5, CleanupKeepsIInv
<1>6. ASSUME NEW c \in Calls, Deliver(c) PROVE IInv'
  BY <1>6, DeliverKeepsIInv
<1>7. CASE LinkFails \/ ChannelFills \/ WriterMakesRoom
  <2>1. full' \in BOOLEAN
    BY <1>7, Zenon DEF LinkFails, ChannelFills, WriterMakesRoom, IInv, TypeOK
  <2>2. link' \in Links
    BY <1>7 DEF LinkFails, ChannelFills, WriterMakesRoom, IInv, TypeOK, Links
  <2>3. UNCHANGED <<counter, pending, pc, id, chan, answer, result, sent, allocs>>
    BY <1>7 DEF LinkFails, ChannelFills, WriterMakesRoom
  <2> QED
    BY <2>1, <2>2, <2>3 DEF IInv, TypeOK, IdsAreRecent, IdsAreDistinct,
       OnlyRetriesHoldZero, HasId, WaiterIsReachable, ChannelFollowsCall,
       ResultFollowsCall
<1>8. CASE SwapWriter
  BY <1>8, SwapKeepsIInv
<1>9. CASE ReaderExits \/ ReconnectClears
  BY <1>9, ClearIsDrop, DropKeepsIInv DEF ReaderExits, ReconnectClears, IInv, TypeOK, Links
<1>10. CASE UNCHANGED vars
  BY <1>10 DEF vars, IInv, TypeOK, IdsAreRecent, IdsAreDistinct,
               OnlyRetriesHoldZero, HasId, WaiterIsReachable, ChannelFollowsCall,
               ResultFollowsCall
<1> QED
  BY <1>1, <1>2, <1>3, <1>4, <1>5, <1>6, <1>7, <1>8, <1>9, <1>10
     DEF Next, CallStep

THEOREM Invariance == Spec => []IInv
  BY InitIInv, NextIInv, PTL DEF Spec

-----------------------------------------------------------------------------
(* What follows                                                            *)

\* Type correctness.
THEOREM TypeCorrect == Spec => []TypeOK
<1>1. IInv => TypeOK
  BY DEF IInv
<1> QED
  BY <1>1, Invariance, PTL

\* A call never takes another call's answer: for every number of concurrent
\* calls and every position of the wrapping counter, what reaches a call's
\* oneshot channel answers that call's own request.
THEOREM CrossTalkFree == Spec => []NoCrossTalk
<1>1. IInv => NoCrossTalk
  BY DEF IInv, NoCrossTalk, ChannelFollowsCall, ResultFollowsCall
<1> QED
  BY <1>1, Invariance, PTL

\* A waiting call always has its sender in the table, under its own id:
\* resolve() and clear() can always reach it.
THEOREM NoWaiterIsLost == Spec => []WaiterIsReachable
<1>1. IInv => WaiterIsReachable
  BY DEF IInv
<1> QED
  BY <1>1, Invariance, PTL

\* register() never inserts an entry under 0, the id of broadcasts.
THEOREM ZeroIsReserved == Spec => []ZeroIsNeverRegistered
<1>1. IInv => ZeroIsNeverRegistered
  <2> SUFFICES ASSUME IInv, 0 \in DOMAIN pending PROVE FALSE
    BY DEF ZeroIsNeverRegistered
  <2> DEFINE c == pending[0]
  <2>1. c \in Calls /\ chan[c] = "open" /\ id[c] = 0
    BY DEF IInv, TypeOK, WaiterIsReachable
  <2>2. pc[c] \notin {"start", "again"}
    BY <2>1 DEF IInv, ChannelFollowsCall
  <2> QED
    BY <2>1, <2>2 DEF IInv, OnlyRetriesHoldZero, HasId
<1> QED
  BY <1>1, Invariance, PTL

\* wait_for() leaves no entry of a finished call in the table.
THEOREM WaitCleansUp == Spec => []WaitLeavesNoEntry
<1>1. IInv => WaitLeavesNoEntry
  BY DEF IInv, WaitLeavesNoEntry, ResultFollowsCall, WaiterIsReachable
<1> QED
  BY <1>1, Invariance, PTL

-----------------------------------------------------------------------------
(* RequestTracker implements RequestResponse                               *)

\* The tracker keeps the promise made to callers: every step of the tracker
\* is a step of RequestResponse for one call, or none.
LEMMA InitPromise == Init => Promise!Init
  BY DEF Init, Promise!Init, StatusOf

\* The mapped status of a call depends on that call alone.
LEMMA StatusFrame ==
  ASSUME NEW d \in Calls, pc'[d] = pc[d], answer'[d] = answer[d],
         result'[d] = result[d]
  PROVE  StatusOf(d)' = StatusOf(d)
  BY DEF StatusOf

LEMMA MoveOne ==
  ASSUME NEW c \in Calls, NEW s, StatusOf(c)' = s,
         \A d \in Calls : d # c => StatusOf(d)' = StatusOf(d)
  PROVE  Promise!Goto(c, s)
  BY DEF Promise!Goto

LEMMA StepPromise ==
  ASSUME IInv, [Next]_vars
  PROVE  [Promise!Next]_([c \in Calls |-> StatusOf(c)])
<1> DEFINE status == [c \in Calls |-> StatusOf(c)]
           Others(c) == \A d \in Calls : d # c => StatusOf(d)' = StatusOf(d)
<1> USE DEF IInv
<1>1. ASSUME NEW c \in Calls, FetchAdd(c) \/ FetchAddAgain(c)
      PROVE  UNCHANGED status
  <2>1. /\ pc[c] \in {"start", "again"} /\ pc'[c] \in {"again", "insert"}
        /\ \A d \in Calls : d # c => pc'[d] = pc[d]
        /\ answer' = answer /\ result' = result
    BY <1>1 DEF FetchAdd, FetchAddAgain, TakeId, Goto, TypeOK
  <2>2. StatusOf(c)' = StatusOf(c)
    BY <2>1 DEF StatusOf
  <2>3. Others(c)
    BY <2>1, StatusFrame
  <2> QED
    BY <2>2, <2>3
<1>2. ASSUME NEW c \in Calls, Insert(c) PROVE Promise!Next
  <2>1. /\ pc[c] = "insert" /\ pc'[c] = "send"
        /\ \A d \in Calls : d # c => pc'[d] = pc[d]
        /\ answer' = answer /\ result' = result
    BY <1>2 DEF Insert, Goto, TypeOK
  <2>2. StatusOf(c) = "new" /\ StatusOf(c)' = "issued"
    BY <2>1 DEF StatusOf
  <2>3. Others(c)
    BY <2>1, StatusFrame
  <2> QED
    BY <2>2, <2>3, MoveOne DEF Promise!Next, Promise!Step, Promise!Issue
<1>3. ASSUME NEW c \in Calls, Send(c) PROVE Promise!Next
  <2>1. /\ pc[c] = "enqueue" /\ pc'[c] = "wait" /\ answer[c] = {}
        /\ \A d \in Calls : d # c => pc'[d] = pc[d]
        /\ answer' = answer /\ result' = result
    BY <1>3 DEF Send, Goto, TypeOK, ChannelFollowsCall
  <2>2. StatusOf(c) = "issued" /\ StatusOf(c)' = "sent"
    BY <2>1 DEF StatusOf
  <2>3. Others(c)
    BY <2>1, StatusFrame
  <2> QED
    BY <2>2, <2>3, MoveOne DEF Promise!Next, Promise!Step, Promise!Send
<1>4. ASSUME NEW c \in Calls, WaitOk(c) PROVE Promise!Next
  <2>1. /\ pc[c] = "wait" /\ pc'[c] = "done" /\ answer[c] = {c} /\ result'[c] = "ok"
        /\ \A d \in Calls : d # c => pc'[d] = pc[d] /\ result'[d] = result[d]
        /\ answer' = answer
    BY <1>4 DEF WaitOk, Goto, TypeOK, ChannelFollowsCall
  <2>2. StatusOf(c) = "answered" /\ StatusOf(c)' = "ok"
    BY <2>1 DEF StatusOf
  <2>3. Others(c)
    BY <2>1, StatusFrame
  <2> QED
    BY <2>2, <2>3, MoveOne DEF Promise!Next, Promise!Step, Promise!Return
<1>5. ASSUME NEW c \in Calls, WaitFails(c) PROVE UNCHANGED status
  <2>1. /\ pc[c] = "wait" /\ pc'[c] = "cleanup" /\ answer[c] = {}
        /\ \A d \in Calls : d # c => pc'[d] = pc[d] /\ result'[d] = result[d]
        /\ answer' = answer
    BY <1>5 DEF WaitFails, Goto, TypeOK, ChannelFollowsCall
  <2>2. StatusOf(c)' = StatusOf(c)
    BY <2>1 DEF StatusOf
  <2>3. Others(c)
    BY <2>1, StatusFrame
  <2> QED
    BY <2>2, <2>3
<1>6. ASSUME NEW c \in Calls, SendFails(c) \/ Cleanup(c) \/ Cancel(c)
      PROVE  Promise!Next
  <2>1. /\ pc[c] \in {"insert", "send", "enqueue", "refused", "wait", "cleanup"}
        /\ pc'[c] = "done"
        /\ \A d \in Calls : d # c => pc'[d] = pc[d] /\ result'[d] = result[d]
        /\ answer' = answer
        /\ \/ result'[c] = "cancelled"
           \/ result'[c] \in {"unsent", "timeout", "disconnected"}
              /\ pc[c] \in {"enqueue", "refused", "cleanup"}
    BY <1>6 DEF SendFails, Cleanup, Cancel, Goto, TypeOK, ResultFollowsCall
  <2>2. PICK why \in Promise!Failures :
           /\ StatusOf(c)' = why
           /\ \/ StatusOf(c) \in {"new", "issued", "sent"}
              \/ StatusOf(c) = "answered" /\ why = "cancelled"
    BY <2>1 DEF StatusOf, Promise!Failures
  <2>3. Others(c)
    BY <2>1, StatusFrame
  <2> QED
    BY <2>2, <2>3, MoveOne DEF Promise!Next, Promise!Step, Promise!Fail
<1>7. ASSUME NEW c \in Calls, Deliver(c) PROVE [Promise!Next]_status
  <2>1. pc' = pc /\ result' = result
    BY <1>7 DEF Deliver
  <2>2. CASE id[c] \notin DOMAIN pending
    <3>1. answer' = answer
      BY <1>7, <2>2 DEF Deliver
    <3> QED
      BY <2>1, <3>1, StatusFrame
  <2>3. CASE id[c] \in DOMAIN pending
    <3>1. pc[c] \in {"wait", "cleanup", "done"} /\ HasId(c)
      BY <1>7 DEF Deliver, ChannelFollowsCall, HasId
    <3>2. /\ pending[id[c]] \in Calls /\ chan[pending[id[c]]] = "open"
          /\ id[pending[id[c]]] = id[c]
      BY <2>3 DEF WaiterIsReachable, TypeOK
    <3>3. pending[id[c]] = c
      BY <3>1, <3>2 DEF ChannelFollowsCall, HasId, IdsAreDistinct
    <3>4. \/ answer' = answer
          \/ pc[c] = "wait" /\ answer' = [answer EXCEPT ![c] = {c}]
      BY <1>7, <2>3, <3>1, <3>2, <3>3
         DEF Deliver, Resolve, ReceiverAlive, ChannelFollowsCall, TypeOK
    <3>5. CASE answer' = answer
      BY <2>1, <3>5, StatusFrame
    <3>6. CASE pc[c] = "wait" /\ answer' = [answer EXCEPT ![c] = {c}]
      <4>1. answer[c] = {} /\ answer'[c] = {c}
            /\ \A d \in Calls : d # c => answer'[d] = answer[d]
        BY <3>2, <3>3, <3>6 DEF ChannelFollowsCall, TypeOK
      <4>2. StatusOf(c) = "sent" /\ StatusOf(c)' = "answered"
        BY <2>1, <3>6, <4>1 DEF StatusOf
      <4>3. Others(c)
        BY <2>1, <4>1, StatusFrame
      <4> QED
        BY <4>2, <4>3, MoveOne DEF Promise!Next, Promise!Step, Promise!Answer
    <3> QED
      BY <3>4, <3>5, <3>6
  <2> QED
    BY <2>2, <2>3
<1>8. CASE \/ LinkFails \/ ReaderExits \/ ReconnectClears
           \/ ChannelFills \/ WriterMakesRoom \/ UNCHANGED vars
  <2>1. pc' = pc /\ answer' = answer /\ result' = result
    BY <1>8 DEF LinkFails, ReaderExits, ReconnectClears, ChannelFills,
                WriterMakesRoom, vars
  <2> QED
    BY <2>1, StatusFrame
<1>9. ASSUME \/ SwapWriter
             \/ \E c \in Calls : CloneSender(c)
      PROVE  UNCHANGED status
  <2>1. \A d \in Calls :
           \/ pc'[d] = pc[d]
           \/ /\ pc[d] \in {"send", "enqueue"}
              /\ pc'[d] \in {"enqueue", "refused"}
    BY <1>9 DEF SwapWriter, CloneSender, Goto, TypeOK
  <2>2. answer' = answer /\ result' = result
    BY <1>9 DEF SwapWriter, CloneSender
  <2>3. \A d \in Calls : StatusOf(d)' = StatusOf(d)
    BY <2>1, <2>2 DEF StatusOf
  <2> QED
    BY <2>3
<1> QED
  BY <1>1, <1>2, <1>3, <1>4, <1>5, <1>6, <1>7, <1>8, <1>9 DEF Next, CallStep

\* The tracker keeps the promise made to its callers (RequestResponse): a call
\* returns once, returns "ok" only with the answer to its own request, and an
\* answer that reached it in time is what it returns.
THEOREM Refinement == Spec => KeepsPromise
  BY InitPromise, StepPromise, Invariance, PTL DEF Spec, KeepsPromise, Promise!Spec
=============================================================================
