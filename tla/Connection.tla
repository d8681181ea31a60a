----------------------------- MODULE Connection -----------------------------
(***************************************************************************)
(* What the client promises of its connection, as an abstract              *)
(* specification: a connection that was lost is never up again, only a new *)
(* one is, and from the moment disconnect() is called there is no new one. *)
(* There are no tasks, locks, flags or channels here: they are the         *)
(* business of ConnectionLifecycle, which implements this module.          *)
(***************************************************************************)
EXTENDS Naturals

VARIABLES phase,    \* "up", "lost", "fresh" (a new one, not yet up), "closed"
          closing,  \* disconnect() was called
          epoch     \* how many connections there have been

vars == <<phase, closing, epoch>>

Init == phase = "up" /\ ~closing /\ epoch = 1

Lose == /\ phase = "up" /\ phase' = "lost"
        /\ UNCHANGED <<closing, epoch>>

Install == /\ ~closing /\ phase = "lost" /\ phase' = "fresh"
           /\ epoch' = epoch + 1 /\ UNCHANGED closing

Open == /\ ~closing /\ phase = "fresh" /\ phase' = "up"
        /\ UNCHANGED <<closing, epoch>>

Shut == /\ ~closing /\ phase # "fresh" /\ closing' = TRUE
        /\ UNCHANGED <<phase, epoch>>

Close == /\ closing /\ phase = "lost" /\ phase' = "closed"
         /\ UNCHANGED <<closing, epoch>>

Next == Lose \/ Install \/ Open \/ Shut \/ Close

Spec == Init /\ [][Next]_vars
=============================================================================
