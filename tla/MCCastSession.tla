--------------------------- MODULE MCCastSession ---------------------------
(***************************************************************************)
(* CastSession for TLC: the callers are interchangeable.                   *)
(***************************************************************************)
EXTENDS CastSession, TLC

Symmetry == Permutations(Calls)
=============================================================================
