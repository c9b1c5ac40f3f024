-------------------------- MODULE ExactlyOnceWork --------------------------
(***************************************************************************)
(* What the execution worker promises about submitted work, whatever       *)
(* crashes, restarts, drains and replays come in between: an item moves    *)
(* through its states one at a time, an engine is called for it at most    *)
(* once, never before it has left the queue, and its outcome is final.     *)
(* There are no threads, locks or leases here, and a transition is one     *)
(* step.  ControlPlane implements this while no two reconcile passes       *)
(* overlap and no operator interferes.                                     *)
(***************************************************************************)
EXTENDS Naturals

CONSTANT Items

VARIABLES
  state,  \* state[i], "absent" before it is submitted
  calls   \* calls[i]: how often an engine was called for it

workVars == <<state, calls>>

Init ==
  /\ state = [i \in Items |-> "absent"]
  /\ calls = [i \in Items |-> 0]

Moves(i, from, to) == state[i] = from /\ state' = [state EXCEPT ![i] = to]

Submit(i) == Moves(i, "absent", "queued") /\ UNCHANGED calls

\* From here on the item may have reached an engine.
Send(i) == Moves(i, "queued", "dispatching") /\ UNCHANGED calls

Call(i) ==
  /\ state[i] = "dispatching" /\ calls[i] = 0
  /\ calls' = [calls EXCEPT ![i] = 1]
  /\ UNCHANGED state

\* The engine's answer is recorded.
Answer(i) ==
  /\ calls[i] = 1
  /\ \E to \in {"failed", "running", "completed"} : Moves(i, "dispatching", to)
  /\ UNCHANGED calls

\* The turn ended, or can no longer be observed.
Finish(i) ==
  /\ \E to \in {"completed", "uncertain"} : Moves(i, "running", to)
  /\ UNCHANGED calls

\* A new worker cannot tell what became of the work of the one before.
Restart ==
  /\ state' = [i \in Items |->
                 IF state[i] \in {"dispatching", "running"} THEN "uncertain" ELSE state[i]]
  /\ UNCHANGED calls

\* Uncertain work is found alive, or given up: it is not sent again.
Reclaim(i) == Moves(i, "uncertain", "running") /\ UNCHANGED calls
Retire(i) == Moves(i, "uncertain", "cancelled") /\ UNCHANGED calls

Next ==
  \/ Restart
  \/ \E i \in Items :
       Submit(i) \/ Send(i) \/ Call(i) \/ Answer(i) \/ Finish(i) \/ Reclaim(i) \/ Retire(i)

Spec == Init /\ [][Next]_workVars
=============================================================================
