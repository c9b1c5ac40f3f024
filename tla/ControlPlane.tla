---------------------------- MODULE ControlPlane ----------------------------
(***************************************************************************)
(* The persistent execution worker: src/ccc_worker.py (WorkerRuntime, its  *)
(* request threads, the start-up recovery thread, the sweep thread) and    *)
(* src/worker_engines.py (EngineHost and one tracker thread per running    *)
(* item) on one WorkLedger.                                                *)
(*                                                                         *)
(* Every request runs on a thread of its own, so the unit of interleaving  *)
(* is one ledger statement.  In particular WorkLedger.transition is two    *)
(* steps: the SELECT runs in autocommit and the UPDATE names only the id,  *)
(* so the state that was checked may be gone when the new one is written.  *)
(* A thread keeps in "read" the row it checked, from the SELECT to the     *)
(* UPDATE.                                                                 *)
(***************************************************************************)
EXTENDS WorkLedger, FiniteSets

CONSTANTS
  Items,      \* idempotency keys (each names at most one row)
  Rpc,        \* request threads
  Starter,    \* the "ccc-reconcile" thread serve() starts
  Sweeper,    \* the "ccc-uncertain-sweep" thread
  Trackers,   \* slots for "ccc-work-*" threads
  NoThread, NoItem,
  Requests,   \* the requests clients make in this instance; "sweep" is in
              \* it if the instance lasts longer than the sweep interval
  Parents,    \* items that requests name as parent
  EditStates, \* states work.transition requests ask for
  MaxEpoch,   \* bound: worker incarnations
  MaxGrants   \* bound: an operator stops retrying an item here

Threads == Rpc \cup {Starter, Sweeper}

ASSUME ThreadsAreDistinct ==
  /\ Starter \notin Rpc /\ Sweeper \notin Rpc /\ Starter # Sweeper
  /\ NoThread \notin Threads
  /\ NoItem \notin Items

ASSUME FiniteThreads == IsFiniteSet(Rpc)

ASSUME Bounds == MaxEpoch \in Nat /\ MaxGrants \in Nat

\* No client asks work.transition for a state only a dispatcher may enter:
\* nobody would be behind such a row.
ASSUME EditsAreNotDispatches == EditStates \subseteq WorkStates \ Active

VARIABLES
  row,       \* work_items, by key                            (durable)
  parentOf,  \* work_edges                                    (durable)
  drain,     \* control_meta "drain"                          (durable)
  up, epoch, \* is a worker serving; its epoch
  lock,      \* EngineHost._dispatch_lock
  th,        \* request, recovery and sweep threads
  trk,       \* tracker threads
  late,      \* history: items claimed since the drain was set
  calls,     \* history: engine calls made for a key
  grants     \* history: times a key was put in the queue

ledger == <<row, parentOf, grants>>
pause == <<drain, late>>
process == <<up, epoch>>
vars == <<row, parentOf, drain, late, up, epoch, lock, th, trk, calls, grants>>

-----------------------------------------------------------------------------
(***************************************************************************)
(* Threads.  "pc" names the statement a thread is about to execute, "job"  *)
(* the request or background duty it executes it for.                      *)
(***************************************************************************)
Jobs == {"none", "execute", "resolve", "edit", "drain", "reconcile", "sweep",
         "startup"}

\* The calls of transition(), by the method that makes them.
Writing == {"claim", "settle", "requeue", "close", "edit", "reclaim", "retire"}

PCs == Writing \cup
  {"idle", "deferral", "take", "recheck", "call", "replay", "list", "next",
   "survey", "reclaimNext", "retireNext"}

Idle == [pc |-> "idle", job |-> "none", item |-> NoItem, to |-> "none",
         read |-> NoRow, todo |-> {}]

ThreadStates ==
  [pc : PCs, job : Jobs, item : Items \cup {NoItem},
   to : WorkStates \cup {"none"}, read : Rows \cup {NoRow}, todo : SUBSET Items]

NoTracker == [pc |-> "idle", item |-> NoItem, to |-> "none", read |-> NoRow]

TrackerStates ==
  [pc : {"idle", "poll", "read", "write"}, item : Items \cup {NoItem},
   to : {"none", "completed", "uncertain"}, read : Rows \cup {NoRow}]

TypeOK ==
  /\ row \in [Items -> Rows \cup {NoRow}]
  /\ parentOf \in [Items -> Items \cup {NoItem}]
  /\ drain \in {"off", "operator", "restart"}
  /\ up \in BOOLEAN /\ epoch \in Nat
  /\ lock \in Threads \cup {NoThread}
  /\ th \in [Threads -> ThreadStates]
  /\ trk \in [Trackers -> TrackerStates]
  /\ late \in Nat
  /\ calls \in [Items -> Nat] /\ grants \in [Items -> Nat]

\* Work a request thread may name: rows are never deleted.
Known == {i \in Items : row[i] # NoRow}
InState(S) == {i \in Items : row[i].st \in S}

\* A thread of dispatch_queued() holds the dispatch lock around its loop.
Replaying(t) == th[t].job \in {"drain", "startup"}

\* A handler or a background duty begins.
Begin(t, pc, job, i, to) ==
  th' = [th EXCEPT ![t] = [pc |-> pc, job |-> job, item |-> i, to |-> to,
                           read |-> NoRow, todo |-> {}]]

\* On to the next statement, for the same item or for another.
Goto(t, pc) ==
  th' = [th EXCEPT ![t] = [@ EXCEPT !.pc = pc, !.to = "none", !.read = NoRow]]
\* Back to the head of a loop over listed items.
LoopAt(t, pc) == th' = [th EXCEPT ![t] = [@ EXCEPT !.pc = pc, !.item = NoItem,
                                          !.to = "none", !.read = NoRow]]
GotoWith(t, pc, i, to) ==
  th' = [th EXCEPT ![t] = [@ EXCEPT !.pc = pc, !.item = i, !.to = to,
                                    !.read = NoRow]]

\* Listing rows, and taking one item off the list.
Listing(t, pc, S) == th' = [th EXCEPT ![t] = [@ EXCEPT !.pc = pc, !.todo = S]]
Picking(t, pc, i, item, to) ==
  th' = [th EXCEPT ![t] = [@ EXCEPT !.pc = pc, !.item = item, !.to = to,
                                    !.todo = th[t].todo \ {i}]]
Done(t) == th' = [th EXCEPT ![t] = Idle]

\* Leaving the "with self._dispatch_lock" block of _dispatch_item: a replay
\* still holds the reentrant lock from its own block.
LeaveLock(t) == lock' = IF Replaying(t) THEN lock ELSE NoThread

\* _dispatch_item() returned to its caller.
Returned(t) == IF Replaying(t) THEN LoopAt(t, "next") ELSE Done(t)

\* An exception left the handler: its locks are released and it ends.
Raised(t) == /\ Done(t)
             /\ lock' = IF lock = t THEN NoThread ELSE lock

\* _track_async(): a new tracker thread.
StartTracker(i) ==
  \E k \in Trackers :
    /\ trk[k] = NoTracker
    /\ trk' = [trk EXCEPT ![k] =
                 [pc |-> "poll", item |-> i, to |-> "none", read |-> NoRow]]

-----------------------------------------------------------------------------
(***************************************************************************)
(* The worker process.                                                     *)
(***************************************************************************)
Init ==
  /\ row = [i \in Items |-> NoRow]
  /\ parentOf = [i \in Items |-> NoItem]
  /\ drain = "off" /\ late = 0
  /\ up = FALSE /\ epoch = 0
  /\ lock = NoThread
  /\ th = [t \in Threads |-> Idle]
  /\ trk = [k \in Trackers |-> NoTracker]
  /\ calls = [i \in Items |-> 0] /\ grants = [i \in Items |-> 0]

\* serve(): recovery of the previous epoch's rows precedes the socket, so no
\* request thread exists yet; a restart drain is lifted, and the recovery
\* thread is started only if nothing drains and there is something to do.
Start ==
  /\ ~up /\ epoch < MaxEpoch
  /\ up' = TRUE /\ epoch' = epoch + 1
  /\ row' = [i \in Items |-> Recovered(row[i], epoch')]
  /\ drain' = IF drain = "restart" THEN "off" ELSE drain
  /\ late' = IF drain' = "off" THEN 0 ELSE late
  /\ IF drain' = "off" /\ \E i \in Items : row'[i].st \in {"queued", "uncertain"}
       THEN Begin(Starter, "survey", "startup", NoItem, "none")
       ELSE UNCHANGED th
  /\ UNCHANGED <<parentOf, lock, trk, calls, grants>>

\* The process dies at any point; every thread of it is a daemon thread.
Crash ==
  /\ up /\ epoch < MaxEpoch
  /\ up' = FALSE
  /\ lock' = NoThread
  /\ th' = [t \in Threads |-> Idle]
  /\ trk' = [k \in Trackers |-> NoTracker]
  /\ UNCHANGED <<row, parentOf, pause, epoch, calls, grants>>

\* An uncertain row is left untouched for RETIRE_UNCERTAIN_AFTER_S.
Age(i) ==
  /\ row[i].st = "uncertain" /\ ~row[i].aged
  /\ row' = [row EXCEPT ![i] = [@ EXCEPT !.aged = TRUE]]
  /\ UNCHANGED <<parentOf, pause, up, epoch, lock, th, trk, calls, grants>>

-----------------------------------------------------------------------------
(***************************************************************************)
(* Requests (WorkerRuntime.dispatch), each on an idle request thread.      *)
(***************************************************************************)
Free(t, kind) == up /\ t \in Rpc /\ th[t] = Idle /\ kind \in Requests

\* submit() of a new key.  A key that has a row gets the row back, and
\* nothing changes.
Insert(i, p) ==
  /\ row[i] = NoRow
  /\ p \in (Known \cap Parents) \cup {NoItem}
  /\ row' = [row EXCEPT ![i] = FreshRow]
  /\ parentOf' = [parentOf EXCEPT ![i] = p]
  /\ grants' = [grants EXCEPT ![i] = @ + 1]

\* engine.execute: submit, then look at the drain.
Execute(t, i, p) ==
  /\ Free(t, "execute")
  /\ Insert(i, p)
  /\ Begin(t, "deferral", "execute", i, "none")
  /\ UNCHANGED <<pause, process, lock, trk, calls>>

\* work.submit: the row is recorded and left to a later replay.
Submit(t, i, p) ==
  /\ Free(t, "submit")
  /\ Insert(i, p)
  /\ UNCHANGED <<pause, process, lock, th, trk, calls>>

\* work.resolve: the state is checked on a row read here; the transition
\* that follows reads the row again.
Resolve(t, i, to) ==
  /\ Free(t, "resolve")
  /\ row[i].st \in {"uncertain", "interrupted"}
  /\ to \in Terminal \/ (to = "queued" /\ grants[i] < MaxGrants)
  /\ Begin(t, IF to = "queued" THEN "requeue" ELSE "close", "resolve", i, to)
  /\ UNCHANGED <<ledger, pause, process, lock, trk, calls>>

\* work.transition.
Edit(t, i, to) ==
  /\ Free(t, "edit")
  /\ i \in Known
  /\ to \in EditStates /\ (to = "queued" => grants[i] < MaxGrants)
  /\ Begin(t, "edit", "edit", i, to)
  /\ UNCHANGED <<ledger, pause, process, lock, trk, calls>>

\* Mutant: lifting the drain replays nothing.
DrainSetWithoutReplay(t, d) ==
  /\ Free(t, "drain")
  /\ drain' = d /\ late' = IF d = "off" THEN 0 ELSE late
  /\ UNCHANGED <<ledger, process, lock, th, trk, calls>>

\* drain.set: set_drain takes no lock; lifting the drain replays the queue.
DrainSet(t, d) ==
  /\ Free(t, "drain")
  /\ drain' = d /\ late' = IF d = "off" THEN 0 ELSE late
  /\ IF d = "off"
       THEN Begin(t, "replay", "drain", NoItem, "none")
       ELSE UNCHANGED th
  /\ UNCHANGED <<ledger, process, lock, trk, calls>>

\* work.reconcile.
Reconcile(t) ==
  /\ Free(t, "reconcile")
  /\ Begin(t, "survey", "reconcile", NoItem, "none")
  /\ UNCHANGED <<ledger, pause, process, lock, trk, calls>>

\* _uncertain_sweep(): the interval has passed and something is uncertain.
Sweep ==
  /\ up /\ th[Sweeper] = Idle /\ "sweep" \in Requests
  /\ InState({"uncertain"}) # {}
  /\ Begin(Sweeper, "survey", "sweep", NoItem, "none")
  /\ UNCHANGED <<ledger, pause, process, lock, trk, calls>>

-----------------------------------------------------------------------------
(***************************************************************************)
(* _dispatch_item() and its callers.                                       *)
(***************************************************************************)
\* execute() and resolve_uncertain() look at the drain before dispatching.
Deferral(t) ==
  /\ th[t].pc = "deferral"
  /\ IF drain # "off" THEN Done(t) ELSE Goto(t, "take")
  /\ UNCHANGED <<ledger, pause, process, lock, trk, calls>>

\* Mutant: the row is read and claimed without the lock.
TakeWithoutLock(t) ==
  /\ th[t].pc = "take"
  /\ IF row[th[t].item].st = "queued" THEN Goto(t, "recheck") ELSE Returned(t)
  /\ UNCHANGED <<ledger, pause, process, lock, trk, calls>>

\* Enter the dispatch lock and read the row afresh.
Take(t) ==
  /\ th[t].pc = "take"
  /\ lock \in {NoThread, t}
  /\ IF row[th[t].item].st = "queued"
       THEN Goto(t, "recheck") /\ lock' = t
       ELSE Returned(t) /\ UNCHANGED lock
  /\ UNCHANGED <<ledger, pause, process, trk, calls>>

\* Mutant: the drain is not read again under the lock.
RecheckNothing(t) ==
  /\ th[t].pc = "recheck"
  /\ GotoWith(t, "claim", th[t].item, "dispatching")
  /\ UNCHANGED <<ledger, pause, process, lock, trk, calls>>

\* The drain is read once more under the lock.
Recheck(t) ==
  /\ th[t].pc = "recheck"
  /\ IF drain # "off"
       THEN Returned(t) /\ LeaveLock(t)
       ELSE GotoWith(t, "claim", th[t].item, "dispatching") /\ UNCHANGED lock
  /\ UNCHANGED <<ledger, pause, process, trk, calls>>

\* _call(): the engine has the work from here on, whatever it answers; an
\* exception and "not ok" fail it, an asynchronous operation runs on, any
\* other is complete.
Call(t, to) ==
  /\ th[t].pc = "call"
  /\ to \in {"failed", "running", "completed"}
  /\ calls' = [calls EXCEPT ![th[t].item] = @ + 1]
  /\ GotoWith(t, "settle", th[t].item, to)
  /\ UNCHANGED <<ledger, pause, process, lock, trk>>

\* dispatch_queued(): one look at the drain under the lock, then the list of
\* queued rows, then one _dispatch_item per listed row.  The code goes from
\* the oldest to the youngest; any order is allowed here.
TakeForReplay(t) ==
  /\ th[t].pc = "replay"
  /\ lock = NoThread
  /\ IF drain # "off"
       THEN Done(t) /\ UNCHANGED lock
       ELSE Goto(t, "list") /\ lock' = t
  /\ UNCHANGED <<ledger, pause, process, trk, calls>>

ListQueued(t) ==
  /\ th[t].pc = "list"
  /\ Listing(t, "next", InState({"queued"}))
  /\ UNCHANGED <<ledger, pause, process, lock, trk, calls>>

ReplayNext(t, i) ==
  /\ th[t].pc = "next" /\ i \in th[t].todo
  /\ Picking(t, "take", i, i, "none")
  /\ UNCHANGED <<ledger, pause, process, lock, trk, calls>>

ReplayEnd(t) ==
  /\ th[t].pc = "next" /\ th[t].todo = {}
  /\ Done(t) /\ lock' = NoThread
  /\ UNCHANGED <<ledger, pause, process, trk, calls>>

-----------------------------------------------------------------------------
(***************************************************************************)
(* reconcile_uncertain() and retire_stale_uncertain().                     *)
(***************************************************************************)
Survey(t) ==
  /\ th[t].pc = "survey"
  /\ Listing(t, "reclaimNext", InState({"uncertain", "interrupted"}))
  /\ UNCHANGED <<ledger, pause, process, lock, trk, calls>>

\* The next listed item: its live evidence is whatever the process table,
\* the app-server or the ACP bridge answers at this moment.
Evidence(t, i, live) ==
  /\ th[t].pc = "reclaimNext" /\ i \in th[t].todo
  /\ IF live THEN Picking(t, "reclaim", i, i, "running")
             ELSE Picking(t, "reclaimNext", i, NoItem, "none")
  /\ UNCHANGED <<ledger, pause, process, lock, trk, calls>>

\* Every listed item was looked at: list the ones to retire.
ListStale(t) ==
  /\ th[t].pc = "reclaimNext" /\ th[t].todo = {}
  /\ Listing(t, "retireNext", {i \in InState({"uncertain"}) : row[i].aged})
  /\ UNCHANGED <<ledger, pause, process, lock, trk, calls>>

RetireNext(t, i) ==
  /\ th[t].pc = "retireNext" /\ i \in th[t].todo
  /\ Picking(t, "retire", i, i, "cancelled")
  /\ UNCHANGED <<ledger, pause, process, lock, trk, calls>>

\* Mutant: the recovery thread leaves the queue to the next drain.
RetireEndWithoutReplay(t) ==
  /\ th[t].pc = "retireNext" /\ th[t].todo = {}
  /\ Done(t)
  /\ UNCHANGED <<ledger, pause, process, lock, trk, calls>>

\* The recovery thread goes on to replay the queue, the others are done.
RetireEnd(t) ==
  /\ th[t].pc = "retireNext" /\ th[t].todo = {}
  /\ IF th[t].job = "startup" THEN Goto(t, "replay") ELSE Done(t)
  /\ UNCHANGED <<ledger, pause, process, lock, trk, calls>>

-----------------------------------------------------------------------------
(***************************************************************************)
(* WorkLedger.transition(), for the calls named in Writing.                *)
(***************************************************************************)
\* Retirement and work.transition pass no owner_epoch.
OwnerOf(pc) == IF pc \in {"retire", "edit"} THEN 0 ELSE epoch

\* SELECT and check.  retire_stale_uncertain() swallows the ValueError of an
\* illegal transition, every other caller lets it end the handler.
ReadRow(t) ==
  /\ th[t].pc \in Writing /\ th[t].read = NoRow
  /\ LET r == row[th[t].item] IN
       \/ /\ Legal(r.st, th[t].to, OwnerOf(th[t].pc))
          /\ th' = [th EXCEPT ![t] = [@ EXCEPT !.read = r]]
          /\ UNCHANGED lock
       \/ /\ ~Legal(r.st, th[t].to, OwnerOf(th[t].pc))
          /\ IF th[t].pc = "retire"
               THEN LoopAt(t, "retireNext") /\ UNCHANGED lock
               ELSE Raised(t)
  /\ UNCHANGED <<ledger, pause, process, trk, calls>>

\* UPDATE ... WHERE id=?, with what was computed from the row read above.
Write(t, pc) ==
  /\ th[t].pc = pc /\ th[t].read # NoRow
  /\ row' = [row EXCEPT ![th[t].item] = Written(th[t].read, th[t].to, OwnerOf(pc))]
  /\ grants' = IF th[t].to = "queued"
                 THEN [grants EXCEPT ![th[t].item] = @ + 1] ELSE grants
  /\ IF th[t].to = "running" THEN StartTracker(th[t].item) ELSE UNCHANGED trk
  /\ late' = IF pc = "claim" /\ drain # "off" THEN late + 1 ELSE late
  /\ UNCHANGED <<parentOf, drain, process, calls>>

Claim(t) ==
  /\ Write(t, "claim")
  /\ GotoWith(t, "call", th[t].item, "none") /\ LeaveLock(t)

Settle(t) == Write(t, "settle") /\ Returned(t) /\ UNCHANGED lock

Requeue(t) == Write(t, "requeue") /\ Goto(t, "deferral") /\ UNCHANGED lock

Close(t) == Write(t, "close") /\ Done(t) /\ UNCHANGED lock

EditWrite(t) == Write(t, "edit") /\ Done(t) /\ UNCHANGED lock

Reclaim(t) == Write(t, "reclaim") /\ LoopAt(t, "reclaimNext") /\ UNCHANGED lock

Retire(t) == Write(t, "retire") /\ LoopAt(t, "retireNext") /\ UNCHANGED lock

-----------------------------------------------------------------------------
(***************************************************************************)
(* _track_async_loop().  A poll that finds the turn active renews the      *)
(* lease, which leaves nothing behind that a decision reads.               *)
(***************************************************************************)
\* Mutant: a finished child still counts.
AllChildren(i) == {c \in Items : parentOf[c] = i}

UnfinishedChildren(i) == {c \in Items : parentOf[c] = i /\ row[c].st \in Unfinished}

TrackerGoes(k, pc, to) ==
  trk' = [trk EXCEPT ![k] = [@ EXCEPT !.pc = pc, !.to = to, !.read = NoRow]]

\* The turn is over and children() lists nothing unfinished.
TurnOver(k) ==
  /\ trk[k].pc = "poll"
  /\ UnfinishedChildren(trk[k].item) = {}
  /\ TrackerGoes(k, "read", "completed")
  /\ UNCHANGED <<ledger, pause, process, lock, th, calls>>

\* Mutant: a tracker that cannot read the engine's state just ends.
PollFaultEndsTracker(k) ==
  /\ trk[k].pc = "poll"
  /\ trk' = [trk EXCEPT ![k] = NoTracker]
  /\ UNCHANGED <<ledger, pause, process, lock, th, calls>>

\* The engine's state cannot be read.
PollFault(k) ==
  /\ trk[k].pc = "poll"
  /\ TrackerGoes(k, "read", "uncertain")
  /\ UNCHANGED <<ledger, pause, process, lock, th, calls>>

\* renew_lease() raises: the row is no longer an active one of this epoch.
LeaseLost(k) ==
  /\ trk[k].pc = "poll"
  /\ ~LeaseHeld(row[trk[k].item], epoch)
  /\ TrackerGoes(k, "read", "uncertain")
  /\ UNCHANGED <<ledger, pause, process, lock, th, calls>>

\* transition(), first half.  An illegal completion is an exception like any
\* other and becomes an attempt to write uncertain; if that is illegal too
\* the tracker gives up.
TrackerRead(k) ==
  /\ trk[k].pc = "read"
  /\ LET r == row[trk[k].item] IN
       \/ /\ Legal(r.st, trk[k].to, epoch)
          /\ trk' = [trk EXCEPT ![k] = [@ EXCEPT !.pc = "write", !.read = r]]
       \/ /\ ~Legal(r.st, trk[k].to, epoch)
          /\ IF trk[k].to = "completed"
               THEN TrackerGoes(k, "read", "uncertain")
               ELSE trk' = [trk EXCEPT ![k] = NoTracker]
  /\ UNCHANGED <<ledger, pause, process, lock, th, calls>>

TrackerWrite(k) ==
  /\ trk[k].pc = "write"
  /\ row' = [row EXCEPT ![trk[k].item] = Written(trk[k].read, trk[k].to, epoch)]
  /\ trk' = [trk EXCEPT ![k] = NoTracker]
  /\ UNCHANGED <<parentOf, pause, process, lock, th, calls, grants>>

-----------------------------------------------------------------------------
RequestStep(t) ==
  \/ \E i \in Items, p \in Items \cup {NoItem} : Execute(t, i, p) \/ Submit(t, i, p)
  \/ \E i \in Items, to \in WorkStates : Resolve(t, i, to) \/ Edit(t, i, to)
  \/ \E d \in {"off", "operator", "restart"} : DrainSet(t, d)
  \/ Reconcile(t)

DispatchStep(t) ==
  \/ Deferral(t) \/ Take(t) \/ Recheck(t)
  \/ \E to \in WorkStates : Call(t, to)
  \/ TakeForReplay(t) \/ ListQueued(t)
  \/ \E i \in Items : ReplayNext(t, i)
  \/ ReplayEnd(t)

ReconcileStep(t) ==
  \/ Survey(t)
  \/ \E i \in Items, live \in BOOLEAN : Evidence(t, i, live)
  \/ ListStale(t)
  \/ \E i \in Items : RetireNext(t, i)
  \/ RetireEnd(t)

TransitionStep(t) ==
  \/ ReadRow(t)
  \/ Claim(t) \/ Settle(t) \/ Requeue(t) \/ Close(t) \/ EditWrite(t)
  \/ Reclaim(t) \/ Retire(t)

ThreadStep(t) == DispatchStep(t) \/ ReconcileStep(t) \/ TransitionStep(t)

TrackerStep(k) ==
  TurnOver(k) \/ PollFault(k) \/ LeaseLost(k) \/ TrackerRead(k) \/ TrackerWrite(k)

Next ==
  \/ Start \/ Crash \/ Sweep
  \/ \E i \in Items : Age(i)
  \/ \E t \in Threads : RequestStep(t) \/ ThreadStep(t)
  \/ \E k \in Trackers : TrackerStep(k)

Spec == Init /\ [][Next]_vars

\* Fairness.  A thread that is not waiting for the lock runs on, a clock
\* reaches every deadline, the service manager restarts a dead worker.
\* Clients, operators and crashes owe nothing.
Fairness ==
  /\ WF_vars(Start) /\ WF_vars(Sweep)
  /\ \A i \in Items : WF_vars(Age(i))
  /\ \A t \in Threads : WF_vars(ThreadStep(t))
  /\ \A k \in Trackers : WF_vars(LeaseLost(k) \/ TrackerRead(k) \/ TrackerWrite(k))

FairSpec == Spec /\ Fairness

\* The engines end every turn they were given: a tracker that can go on
\* asking hears so, and its polls do not fail for ever.
EnginesFinish == \A k \in Trackers : SF_vars(TurnOver(k))

TurnsEndSpec == FairSpec /\ EnginesFinish

-----------------------------------------------------------------------------
(***************************************************************************)
(* Properties.                                                             *)
(***************************************************************************)
\* docs/architecture.md: work that may have reached an engine "is never
\* blindly replayed".  Whatever crashes, restarts, replays and sweeps come in
\* between, an engine is called for a key at most once per time the key was
\* put in the queue on purpose: by its submission, by an operator's retry.
NoBlindReplay == \A i \in Items : calls[i] <= grants[i]

\* A running row has a tracker that will close it: no interleaving of two
\* dispatchers, two reconcilers, a retirement and a tracker that gives up
\* leaves a row "running" with nobody looking.
RunningIsTracked ==
  up => \A i \in Items :
          row[i].st = "running" => \E k \in Trackers : trk[k].item = i

\* A dispatching row has a thread that is calling the engine for it or about
\* to record the answer.
DispatchingIsHeld ==
  up => \A i \in Items :
          row[i].st = "dispatching" =>
            \E t \in Threads : th[t].item = i /\ th[t].pc \in {"call", "settle"}

\* While a worker serves, every active row carries its epoch: recovery has
\* taken the previous worker's rows away before the first request, and no
\* stale write brings one back.
ActiveIsOwned ==
  up => \A i \in Items : row[i].st \in Active => row[i].owner = epoch

\* _dispatch_item looks at the drain and writes "dispatching" in two steps, so
\* drain.set can return in between; the dispatch lock keeps what slips through
\* after it to one item, however many requests are waiting.
OneLateClaim == late <= 1

\* No lost wake-up: while nothing drains, a queued row has a thread that will
\* dispatch it or list the queue after it was put there.
WillDispatch(t, i) ==
  \/ th[t].pc \in {"replay", "list"}
  \/ th[t].job = "startup"
       /\ th[t].pc \in {"survey", "reclaimNext", "reclaim", "retireNext", "retire"}
  \/ i \in th[t].todo /\ Replaying(t)
  \/ th[t].item = i /\ th[t].pc \in {"deferral", "take", "recheck", "claim"}

NothingStranded ==
  up /\ drain = "off" =>
    \A i \in Items : row[i].st = "queued" => \E t \in Threads : WillDispatch(t, i)

\* The ledger behaves as one in which every transition is a single step and
\* nothing is sent twice: no thread writes over what another one has done
\* since it read the row, no answer is recorded for a call never made, and
\* what is over stays over.  It holds while no two reconcile passes overlap
\* and no operator resolves or edits work (ControlPlaneInv: OnePass, Unedited).
Work == INSTANCE ExactlyOnceWork WITH state <- [i \in Items |-> row[i].st]

WorkPromise == Work!Spec

\* docs/architecture.md: "Work known not to have been sent replays after a
\* drain or worker start": while a worker serves and nothing drains, queued
\* work is dispatched.
QueuedIsDispatched ==
  \A i \in Items :
    (up /\ drain = "off" /\ row[i].st = "queued")
      ~> (~up \/ drain # "off" \/ row[i].st # "queued")

\* _uncertain_sweep: "Keep the uncertain count able to reach zero without a
\* human".  Every uncertain row is reclaimed or retired.
UncertainSettles ==
  \A i \in Items :
    (up /\ row[i].st = "uncertain") ~> (~up \/ row[i].st # "uncertain")

\* A running row is closed once its turn is over and the items spawned from
\* it are terminal: a parent and its child do not wait for each other.
RunningSettles ==
  \A i \in Items : (up /\ row[i].st = "running") ~> (~up \/ row[i].st # "running")
=============================================================================
