----------------------------- MODULE WorkLedger -----------------------------
(***************************************************************************)
(* The rows of the work graph (src/control_plane.py, class WorkLedger):    *)
(* what one SQL statement reads or writes of them.  A row is reduced to    *)
(* the columns that later decisions read: its state, the epoch that owns   *)
(* it and whether updated_at is more than RETIRE_UNCERTAIN_AFTER_S old.    *)
(* Prompt, payload, result, error texts and lease_expires_at are written   *)
(* by the code and decide nothing in it.                                   *)
(*                                                                         *)
(* There are no variables here: ControlPlane holds the table and says      *)
(* which thread performs which of these reads and writes, and when.        *)
(***************************************************************************)
EXTENDS Naturals

Terminal == {"completed", "failed", "cancelled"}
Active == {"dispatching", "running"}
WorkStates == {"queued", "interrupted", "uncertain"} \cup Active \cup Terminal

AllowedTransitions ==
  [queued      |-> {"dispatching", "cancelled"},
   dispatching |-> {"running", "completed", "queued", "failed", "cancelled",
                    "interrupted", "uncertain"},
   running     |-> {"completed", "failed", "cancelled", "interrupted",
                    "uncertain"},
   interrupted |-> {"queued", "cancelled", "uncertain"},
   uncertain   |-> {"queued", "running", "completed", "failed", "cancelled",
                    "interrupted"},
   completed   |-> {},
   failed      |-> {"queued"},
   cancelled   |-> {"queued"}]

\* owner_epoch: 0 is the empty string of a row no worker has taken yet.
Rows == [st : WorkStates, owner : Nat, aged : BOOLEAN]

\* No row has this idempotency key; also "this thread has not read a row".
NoRow == [st |-> "absent", owner |-> 0, aged |-> FALSE]

\* Mutant: a state the state machine does not know.
FreshRowUnknown == [st |-> "submitted", owner |-> 0, aged |-> FALSE]

\* The row submit() inserts.
FreshRow == [st |-> "queued", owner |-> 0, aged |-> FALSE]

\* Mutant: a failed engine call may not be recorded.
LegalWithoutFailure(old, new, owner) ==
  /\ old \in WorkStates
  /\ new = old \/ new \in AllowedTransitions[old] \ {"failed"}
  /\ (old = "uncertain" /\ new = "running") => owner # 0

\* Mutant: uncertain work is only ever reclaimed.
LegalWithoutRetirement(old, new, owner) ==
  /\ old \in WorkStates
  /\ new = old \/ new \in AllowedTransitions[old]
  /\ old = "uncertain" => new \in {"uncertain", "running"} /\ owner # 0

\* transition(): the check made on the row the SELECT returned.  There must
\* be one, a state may be written over itself, and only a worker may resume
\* uncertain work.
Legal(old, new, owner) ==
  /\ old \in WorkStates
  /\ new = old \/ new \in AllowedTransitions[old]
  /\ (old = "uncertain" /\ new = "running") => owner # 0

\* transition(): the row the UPDATE leaves, computed from the row that was
\* read earlier; owner 0 stands for owner_epoch=None.
Written(old, new, owner) ==
  [st |-> new, owner |-> IF owner = 0 THEN old.owner ELSE owner, aged |-> FALSE]

\* Mutant: recovery sends interrupted dispatches again.
RecoveredByReplay(r, epoch) ==
  IF r.st \in Active /\ r.owner # epoch
    THEN [r EXCEPT !.st = IF @ = "dispatching" THEN "queued" ELSE "uncertain"]
    ELSE r

\* Mutant: recovery forgets the dispatching rows.
RecoveredRunningOnly(r, epoch) ==
  IF r.st = "running" /\ r.owner # epoch
    THEN [r EXCEPT !.st = "uncertain", !.aged = FALSE]
    ELSE r

\* recover_orphaned_running(): work another epoch left in flight.
Recovered(r, epoch) ==
  IF r.st \in Active /\ r.owner # epoch
    THEN [r EXCEPT !.st = "uncertain", !.aged = FALSE]
    ELSE r

\* renew_lease(): the WHERE clause of the UPDATE.
LeaseHeld(r, epoch) == r.st \in Active /\ r.owner = epoch

\* children(id, states) in the states a tracker asks for.
Unfinished == WorkStates \ Terminal
=============================================================================
