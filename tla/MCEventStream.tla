--------------------------- MODULE MCEventStream ---------------------------
(***************************************************************************)
(* Instances of EventStream for TLC: one row announced with its value, one *)
(* announced by a hint.                                                    *)
(***************************************************************************)
EXTENDS EventStream, TLC
=============================================================================
