--------------------------- MODULE StoppedInputs ---------------------------
(***************************************************************************)
(* PendingInputs with a record of what waited when Stop was pressed: the   *)
(* promise of ccc_server/stop_holds.py is about all of it, and the handler *)
(* looks at the queue only.                                                *)
(***************************************************************************)
EXTENDS PendingInputs

VARIABLE parked \* waiting when Stop was pressed, neither released nor cancelled

SInit == Init /\ parked = {}

\* Messages the engine is being asked to take cannot be stopped any more.
AtEngine == {lane[l].msg : l \in {k \in Lanes : lane[k].pc = "sending"}}

\* _hold_queued_inputs_for_stop, which returns at once if nothing is queued.
Pressed ==
  /\ Stop \/ (queue = <<>> /\ owner = Nobody /\ UNCHANGED vars)
  /\ parked' = parked \cup (accepted \ (settled \cup lost \cup AtEngine))

SNext ==
  \/ Pressed
  \/ /\ Next /\ ~Stop
     /\ parked' = parked \ (settled' \cup (ToSet(held) \ ToSet(held')))

SSpec == SInit /\ [][SNext]_<<vars, parked>>

\* What waited when Stop was pressed is not taken by a pump before its release.
\* (stop_holds.py: "Nothing here is ever delivered automatically".)
StoppedStaysParked ==
  [][\A l \in Lanes :
       Claim(l) /\ lane[l].kind = "pump" => lane'[l].msg \notin parked]_vars
=============================================================================
