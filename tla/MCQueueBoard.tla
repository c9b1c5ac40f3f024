---------------------------- MODULE MCQueueBoard ----------------------------
(***************************************************************************)
(* Instances of QueueBoard for TLC: a ticket that is there from the start  *)
(* and one that the user may file.                                         *)
(***************************************************************************)
EXTENDS QueueBoard, TLC
=============================================================================
