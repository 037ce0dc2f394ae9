------------------------- MODULE MCBlockingClient -------------------------
(***************************************************************************)
(* BlockingClient for TLC.                                                 *)
(***************************************************************************)
EXTENDS BlockingClient

=============================================================================
