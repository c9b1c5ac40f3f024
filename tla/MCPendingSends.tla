--------------------------- MODULE MCPendingSends ---------------------------
(***************************************************************************)
(* Instances of PendingSends for TLC: two messages, so that one can be on  *)
(* its way while the other is answered, cancelled or reconciled.           *)
(***************************************************************************)
EXTENDS PendingSends, TLC
=============================================================================
