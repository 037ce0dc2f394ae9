--------------------------- MODULE MCWireSession ---------------------------
(***************************************************************************)
(* WireSession for TLC: servers that differ in every point of style.       *)
(***************************************************************************)
EXTENDS WireSession

MCOwnKeys == <<"extra", "node">>

MCStyles ==
  {[keys |-> <<2, 1, 3>>, arrays |-> FALSE, nullId |-> FALSE],
   [keys |-> <<4, 3, 1, 5, 2>>, arrays |-> TRUE, nullId |-> TRUE]}

=============================================================================
