-------------------------- MODULE RequestResponse --------------------------
(***************************************************************************)
(* What the request tracker promises to one caller of the Cast client, as  *)
(* an abstract specification: a call is issued, its request may be sent,   *)
(* the device may answer that request, and the call returns at most once.  *)
(* It returns "ok" exactly when its own request was answered, and an       *)
(* answered call can no longer time out or be reported as disconnected.    *)
(* There are no identifiers, no table and no connection here: how answers  *)
(* find their call is the business of the detailed module RequestTracker,  *)
(* which implements this one.                                              *)
(***************************************************************************)

CONSTANT Calls

VARIABLE status

Failures == {"timeout", "disconnected", "cancelled"}
Outcomes == Failures \cup {"ok"}
Statuses == {"new", "issued", "sent", "answered"} \cup Outcomes

Init == status = [c \in Calls |-> "new"]

Goto(c, s) == status' = [status EXCEPT ![c] = s]

\* The call owns an identifier and a place for its answer.
Issue(c) == status[c] = "new" /\ Goto(c, "issued")

\* Its request was accepted for transmission.
Send(c) == status[c] = "issued" /\ Goto(c, "sent")

\* The device answered this very request.
Answer(c) == status[c] = "sent" /\ Goto(c, "answered")

\* The call returns the answer.
Return(c) == status[c] = "answered" /\ Goto(c, "ok")

\* The call gives up; once an answer is there it can only be abandoned by its
\* own caller, never fail by itself.
Fail(c, why) ==
    /\ \/ status[c] \in {"new", "issued", "sent"}
       \/ status[c] = "answered" /\ why = "cancelled"
    /\ Goto(c, why)

Step(c) == \/ Issue(c) \/ Send(c) \/ Answer(c) \/ Return(c)
           \/ \E why \in Failures : Fail(c, why)

Next == \E c \in Calls : Step(c)

Spec == Init /\ [][Next]_status
=============================================================================
