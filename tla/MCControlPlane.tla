--------------------------- MODULE MCControlPlane ---------------------------
(***************************************************************************)
(* Instances of ControlPlane for TLC.  Request threads and tracker slots   *)
(* are interchangeable; items are too where no request names a parent.     *)
(***************************************************************************)
EXTENDS ControlPlaneInv, TLC

ThreadSymmetry == Permutations(Rpc) \cup Permutations(Trackers)
FullSymmetry == ThreadSymmetry \cup Permutations(Items)
=============================================================================
