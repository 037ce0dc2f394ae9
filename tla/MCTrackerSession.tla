-------------------------- MODULE MCTrackerSession --------------------------
(***************************************************************************)
(* TrackerSession for TLC: callback requests are interchangeable.          *)
(***************************************************************************)
EXTENDS TrackerSession, TLC

Symmetry == Permutations(Req \ EventReq)

=============================================================================
