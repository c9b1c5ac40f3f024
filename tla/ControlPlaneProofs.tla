------------------------- MODULE ControlPlaneProofs -------------------------
(***************************************************************************)
(* Proofs that the safety properties of ControlPlane hold for any number   *)
(* of items, request threads, trackers, worker incarnations and retries.   *)
(* The inductive invariant is in ControlPlaneInv; its parts are proved one *)
(* after another, each using the ones before it.                           *)
(***************************************************************************)
EXTENDS ControlPlaneInv, FiniteSetTheorems, TLAPS

-----------------------------------------------------------------------------
(***************************************************************************)
(* Rows.                                                                   *)
(***************************************************************************)
\* What transition() writes is a row again, in the state asked for.
LEMMA WrittenIsRow ==
  ASSUME NEW r \in Rows, NEW s \in WorkStates, NEW e \in Nat
  PROVE  /\ Written(r, s, e) \in Rows
         /\ Written(r, s, e).st = s
         /\ Written(r, s, e).owner = IF e = 0 THEN r.owner ELSE e
BY DEF Written, Rows

\* Recovery at start-up leaves rows ...
LEMMA RecoveredIsRow ==
  ASSUME NEW r \in Rows \cup {NoRow}, NEW e \in Nat
  PROVE  Recovered(r, e) \in Rows \cup {NoRow}
<1>1. CASE r \in Rows
  BY <1>1 DEF Recovered, Rows, WorkStates
<1>2. CASE r = NoRow
  BY <1>2 DEF Recovered, NoRow, Active
<1> QED BY <1>1, <1>2

\* ... keeps their owners, puts nothing into the queue, and leaves nothing
\* active but what the recovering epoch owns.
LEMMA RecoveredFacts ==
  ASSUME NEW r \in Rows \cup {NoRow}, NEW e \in Nat
  PROVE  /\ Recovered(r, e).owner = r.owner
         /\ Recovered(r, e).st = "queued" => r.st = "queued"
         /\ Recovered(r, e).st \in Active => r.owner = e
<1>1. CASE r \in Rows
  BY <1>1 DEF Recovered, Rows, WorkStates, Active
<1>2. CASE r = NoRow
  BY <1>2 DEF Recovered, NoRow, Active
<1> QED BY <1>1, <1>2

\* The absent row is no row.
LEMMA NoRowIsNoRow == NoRow \notin Rows /\ NoRow.owner = 0 /\ NoRow.st \notin WorkStates
BY DEF NoRow, Rows, WorkStates, Active, Terminal

-----------------------------------------------------------------------------
(***************************************************************************)
(* What the operators that move a thread do to the thread table.           *)
(***************************************************************************)
ThreadTable == th \in [Threads -> ThreadStates]
OthersStay(t) == \A u \in Threads \ {t} : th'[u] = th[u]

\* Begin writes a whole record.
LEMMA BeginMoves ==
  ASSUME ThreadTable, NEW t \in Threads, NEW pc \in PCs, NEW job \in Jobs,
         NEW i \in Items \cup {NoItem}, NEW to \in WorkStates \cup {"none"},
         Begin(t, pc, job, i, to)
  PROVE  /\ ThreadTable' /\ OthersStay(t)
         /\ th'[t] = [pc |-> pc, job |-> job, item |-> i, to |-> to,
                      read |-> NoRow, todo |-> {}]
BY DEF ThreadTable, ThreadStates, OthersStay, Begin

\* Done leaves the thread idle.
LEMMA DoneMoves ==
  ASSUME ThreadTable, NEW t \in Threads, Done(t)
  PROVE  ThreadTable' /\ OthersStay(t) /\ th'[t] = Idle
BY DEF ThreadTable, ThreadStates, OthersStay, Done, Idle, PCs, Writing, Jobs

\* Goto keeps job, item and list.
LEMMA GotoMoves ==
  ASSUME ThreadTable, NEW t \in Threads, NEW pc \in PCs, Goto(t, pc)
  PROVE  /\ ThreadTable' /\ OthersStay(t)
         /\ th'[t].pc = pc /\ th'[t].job = th[t].job /\ th'[t].item = th[t].item
         /\ th'[t].to = "none" /\ th'[t].read = NoRow
BY DEF ThreadTable, ThreadStates, OthersStay, Goto

\* GotoWith keeps job and list.
LEMMA GotoWithMoves ==
  ASSUME ThreadTable, NEW t \in Threads, NEW pc \in PCs,
         NEW i \in Items \cup {NoItem}, NEW to \in WorkStates \cup {"none"},
         GotoWith(t, pc, i, to)
  PROVE  /\ ThreadTable' /\ OthersStay(t)
         /\ th'[t].pc = pc /\ th'[t].job = th[t].job /\ th'[t].item = i
         /\ th'[t].to = to /\ th'[t].read = NoRow
BY DEF ThreadTable, ThreadStates, OthersStay, GotoWith

\* LoopAt keeps job and list and lets go of the item.
LEMMA LoopAtMoves ==
  ASSUME ThreadTable, NEW t \in Threads, NEW pc \in PCs, LoopAt(t, pc)
  PROVE  /\ ThreadTable' /\ OthersStay(t)
         /\ th'[t].pc = pc /\ th'[t].job = th[t].job /\ th'[t].item = NoItem
         /\ th'[t].to = "none" /\ th'[t].read = NoRow
BY DEF ThreadTable, ThreadStates, OthersStay, LoopAt

\* Listing fills the list.
LEMMA ListingMoves ==
  ASSUME ThreadTable, NEW t \in Threads, NEW pc \in PCs, NEW S \in SUBSET Items,
         Listing(t, pc, S)
  PROVE  /\ ThreadTable' /\ OthersStay(t)
         /\ th'[t].pc = pc /\ th'[t].job = th[t].job /\ th'[t].item = th[t].item
         /\ th'[t].to = th[t].to /\ th'[t].read = th[t].read
BY DEF ThreadTable, ThreadStates, OthersStay, Listing

\* Picking takes an item off the list.
LEMMA PickingMoves ==
  ASSUME ThreadTable, NEW t \in Threads, NEW pc \in PCs, NEW i,
         NEW j \in Items \cup {NoItem}, NEW to \in WorkStates \cup {"none"},
         Picking(t, pc, i, j, to)
  PROVE  /\ ThreadTable' /\ OthersStay(t)
         /\ th'[t].pc = pc /\ th'[t].job = th[t].job /\ th'[t].item = j
         /\ th'[t].to = to /\ th'[t].read = th[t].read
BY DEF ThreadTable, ThreadStates, OthersStay, Picking

\* Returning from _dispatch_item: to the replay loop, or the request is over.
LEMMA ReturnedMoves ==
  ASSUME ThreadTable, NEW t \in Threads, Returned(t)
  PROVE  /\ ThreadTable' /\ OthersStay(t)
         /\ th'[t].read = NoRow /\ th'[t].to = "none" /\ th'[t].item = NoItem
         /\ \/ Replaying(t) /\ th'[t].pc = "next" /\ th'[t].job = th[t].job
            \/ ~Replaying(t) /\ th'[t] = Idle
<1>1. CASE Replaying(t)
  BY <1>1, LoopAtMoves DEF Returned, PCs
<1>2. CASE ~Replaying(t)
  BY <1>2, DoneMoves DEF Returned, Idle
<1> QED BY <1>1, <1>2

\* An exception ends the handler and frees its lock.
LEMMA RaisedMoves ==
  ASSUME ThreadTable, NEW t \in Threads, Raised(t)
  PROVE  /\ ThreadTable' /\ OthersStay(t) /\ th'[t] = Idle
         /\ lock' = IF lock = t THEN NoThread ELSE lock
BY DoneMoves DEF Raised

-----------------------------------------------------------------------------
(***************************************************************************)
(* Base: types, the shape of the threads' records, and that nothing runs   *)
(* while no worker is up.                                                  *)
(***************************************************************************)
\* A step of thread t that leaves its own record well formed keeps the shape
\* of them all.
LEMMA ShapeOfOne ==
  ASSUME ThreadShape, NEW t \in Threads, OthersStay(t), WellFormed(th'[t])
  PROVE  ThreadShape'
BY DEF ThreadShape, OthersStay, WellFormed

\* An idle thread's record is well formed.
LEMMA IdleIsWellFormed == WellFormed(Idle)
BY DEF WellFormed, Idle, OnItem, Writing

\* A thread that returned from _dispatch_item is well formed.
LEMMA ReturnedIsWellFormed ==
  ASSUME ThreadTable, NEW t \in Threads, Returned(t)
  PROVE  ThreadTable' /\ OthersStay(t) /\ WellFormed(th'[t])
BY ReturnedMoves, IdleIsWellFormed DEF WellFormed, OnItem, Writing

\* The initial states.
LEMMA BaseInit == ASSUME Init PROVE Base
<1>1. TypeOK
  BY ThreadsAreDistinct DEF Init, TypeOK, ThreadStates, TrackerStates, Idle, NoTracker, PCs, Jobs
<1>2. ThreadShape
  BY IdleIsWellFormed DEF Init, ThreadShape
<1>3. TrackerShape /\ NobodyWhenDown
  BY DEF Init, TrackerShape, NobodyWhenDown, NoTracker
<1> QED BY <1>1, <1>2, <1>3 DEF Base

\* A thread that is not idle runs in a worker that is up.
LEMMA RunsInWorker ==
  ASSUME Base, NEW t \in Threads, th[t].pc # "idle"
  PROVE  up
BY DEF Base, NobodyWhenDown, Idle

\* A step of thread t that moves only t and perhaps the lock.
LEMMA BaseOfMove ==
  ASSUME Base, NEW t \in Threads, up, ThreadTable', OthersStay(t),
         WellFormed(th'[t]), lock' \in Threads \cup {NoThread},
         UNCHANGED <<row, parentOf, grants, drain, late, up, epoch, trk, calls>>
  PROVE  Base'
<1>1. TypeOK'
  BY DEF Base, TypeOK, ThreadTable
<1>2. ThreadShape'
  BY ShapeOfOne DEF Base
<1>3. TrackerShape' /\ NobodyWhenDown'
  BY DEF Base, TrackerShape, NobodyWhenDown
<1> QED BY <1>1, <1>2, <1>3 DEF Base

\* Requests.
LEMMA BaseRequest == ASSUME Base, NEW t \in Threads, RequestStep(t) PROVE Base'
<1>0. ThreadTable /\ lock \in Threads \cup {NoThread}
  BY DEF Base, TypeOK, ThreadTable
<1>1. ASSUME NEW i \in Items, NEW p \in Items \cup {NoItem}, Execute(t, i, p)
      PROVE  Base'
  <2>1. /\ ThreadTable' /\ OthersStay(t)
        /\ th'[t] = [pc |-> "deferral", job |-> "execute", item |-> i,
                     to |-> "none", read |-> NoRow, todo |-> {}]
    BY <1>0, <1>1, BeginMoves DEF Execute, PCs, Jobs
  <2>2. ThreadShape'
    BY <2>1, ShapeOfOne DEF Base, WellFormed, OnItem, Writing
  <2>3. TypeOK'
    BY <1>1, <2>1 DEF Base, TypeOK, ThreadTable, Execute, Insert, pause, process,
                      FreshRow, Rows, WorkStates
  <2>4. TrackerShape' /\ NobodyWhenDown'
    BY <1>1 DEF Base, Execute, Free, pause, process, TrackerShape, NobodyWhenDown
  <2> QED BY <2>2, <2>3, <2>4 DEF Base
<1>2. ASSUME NEW i \in Items, NEW p \in Items \cup {NoItem}, Submit(t, i, p)
      PROVE  Base'
  <2>1. TypeOK'
    BY <1>2 DEF Base, TypeOK, Submit, Insert, pause, process, FreshRow, Rows, WorkStates
  <2>2. ThreadShape' /\ TrackerShape' /\ NobodyWhenDown'
    BY <1>2 DEF Base, Submit, Free, pause, process, ThreadShape, TrackerShape, NobodyWhenDown
  <2> QED BY <2>1, <2>2 DEF Base
<1>3. ASSUME NEW i \in Items, NEW to \in WorkStates, Resolve(t, i, to)
      PROVE  Base'
  <2> DEFINE pc == IF to = "queued" THEN "requeue" ELSE "close"
  <2>1. pc \in PCs /\ "resolve" \in Jobs
    BY DEF PCs, Writing, Jobs
  <2>2. /\ ThreadTable' /\ OthersStay(t)
        /\ th'[t] = [pc |-> pc, job |-> "resolve", item |-> i, to |-> to,
                     read |-> NoRow, todo |-> {}]
    BY <1>0, <1>3, <2>1, BeginMoves DEF Resolve
  <2>3. WellFormed(th'[t])
    BY <1>3, <2>2 DEF Resolve, WellFormed, OnItem, Writing
  <2> QED BY <1>0, <1>3, <2>2, <2>3, BaseOfMove DEF Resolve, Free, ledger, pause, process
<1>4. ASSUME NEW i \in Items, NEW to \in WorkStates, Edit(t, i, to)
      PROVE  Base'
  <2>1. "edit" \in PCs /\ "edit" \in Jobs
    BY DEF PCs, Writing, Jobs
  <2>2. /\ ThreadTable' /\ OthersStay(t)
        /\ th'[t] = [pc |-> "edit", job |-> "edit", item |-> i, to |-> to,
                     read |-> NoRow, todo |-> {}]
    BY <1>0, <1>4, <2>1, BeginMoves DEF Edit
  <2>3. WellFormed(th'[t])
    BY <1>4, <2>2 DEF Edit, WellFormed, OnItem, Writing
  <2> QED BY <1>0, <1>4, <2>2, <2>3, BaseOfMove DEF Edit, Free, ledger, pause, process
<1>5. ASSUME NEW d \in {"off", "operator", "restart"}, DrainSet(t, d)
      PROVE  Base'
  <2>1. ThreadTable' /\ ThreadShape'
    <3>1. CASE d = "off"
      <4>1. /\ ThreadTable' /\ OthersStay(t)
            /\ th'[t] = [pc |-> "replay", job |-> "drain", item |-> NoItem,
                         to |-> "none", read |-> NoRow, todo |-> {}]
        BY <1>0, <1>5, <3>1, BeginMoves DEF DrainSet, PCs, Jobs
      <4> QED BY <4>1, ShapeOfOne DEF Base, WellFormed, OnItem, Writing
    <3>2. CASE d # "off"
      BY <1>0, <1>5, <3>2 DEF Base, DrainSet, ThreadTable, ThreadShape
    <3> QED BY <3>1, <3>2
  <2>2. TypeOK'
    BY <1>5, <2>1 DEF Base, TypeOK, ThreadTable, DrainSet, ledger, process
  <2>3. TrackerShape' /\ NobodyWhenDown'
    BY <1>5 DEF Base, DrainSet, Free, process, TrackerShape, NobodyWhenDown
  <2> QED BY <2>1, <2>2, <2>3 DEF Base
<1>6. ASSUME Reconcile(t)
      PROVE  Base'
  <2>1. /\ ThreadTable' /\ OthersStay(t)
        /\ th'[t] = [pc |-> "survey", job |-> "reconcile", item |-> NoItem,
                     to |-> "none", read |-> NoRow, todo |-> {}]
    BY <1>0, <1>6, BeginMoves DEF Reconcile, PCs, Jobs
  <2>2. WellFormed(th'[t])
    BY <2>1 DEF WellFormed, OnItem, Writing
  <2> QED BY <1>0, <1>6, <2>1, <2>2, BaseOfMove DEF Reconcile, Free, ledger, pause, process
<1> QED BY <1>1, <1>2, <1>3, <1>4, <1>5, <1>6 DEF RequestStep
\* The steps of _dispatch_item and of its callers, up to the call of the
\* engine.
LEMMA BaseDispatch == ASSUME Base, NEW t \in Threads, DispatchStep(t) PROVE Base'
<1>0. ThreadTable /\ lock \in Threads \cup {NoThread} /\ th[t] \in ThreadStates
  BY DEF Base, TypeOK, ThreadTable
<1>a. WellFormed(th[t])
  BY DEF Base, ThreadShape
<1>b. th[t].pc # "idle" => up
  BY RunsInWorker
<1>1. CASE Deferral(t)
  <2>1. ThreadTable' /\ OthersStay(t) /\ WellFormed(th'[t])
    <3>1. CASE drain # "off"
      BY <1>0, <1>1, <3>1, DoneMoves, IdleIsWellFormed DEF Deferral
    <3>2. CASE drain = "off"
      <4>1. "take" \in PCs
        BY DEF PCs
      <4>2. /\ ThreadTable' /\ OthersStay(t) /\ th'[t].pc = "take"
            /\ th'[t].item = th[t].item /\ th'[t].read = NoRow
        BY <1>0, <1>1, <3>2, <4>1, GotoMoves DEF Deferral
      <4> QED BY <1>1, <1>a, <4>2 DEF Deferral, WellFormed, OnItem, Writing
    <3> QED BY <3>1, <3>2
  <2> QED BY <1>0, <1>1, <1>b, <2>1, BaseOfMove DEF Deferral, ledger, pause, process
<1>2. CASE Take(t)
  <2>1. ThreadTable' /\ OthersStay(t) /\ WellFormed(th'[t])
    <3>1. CASE row[th[t].item].st = "queued"
      <4>1. "recheck" \in PCs
        BY DEF PCs
      <4>2. /\ ThreadTable' /\ OthersStay(t) /\ th'[t].pc = "recheck"
            /\ th'[t].item = th[t].item /\ th'[t].read = NoRow
        BY <1>0, <1>2, <3>1, <4>1, GotoMoves DEF Take
      <4> QED BY <1>2, <1>a, <4>2 DEF Take, WellFormed, OnItem, Writing
    <3>2. CASE row[th[t].item].st # "queued"
      BY <1>0, <1>2, <3>2, ReturnedIsWellFormed DEF Take
    <3> QED BY <3>1, <3>2
  <2> QED BY <1>0, <1>2, <1>b, <2>1, BaseOfMove DEF Take, ledger, pause, process
<1>3. CASE Recheck(t)
  <2>1. ThreadTable' /\ OthersStay(t) /\ WellFormed(th'[t])
    <3>1. CASE drain # "off"
      BY <1>0, <1>3, <3>1, ReturnedIsWellFormed DEF Recheck
    <3>2. CASE drain = "off"
      <4>1. "claim" \in PCs /\ "dispatching" \in WorkStates /\ th[t].item \in Items
        BY <1>3, <1>a DEF PCs, Writing, WorkStates, Active, Recheck, WellFormed, OnItem
      <4>2. /\ ThreadTable' /\ OthersStay(t) /\ th'[t].pc = "claim"
            /\ th'[t].item = th[t].item /\ th'[t].read = NoRow /\ th'[t].to = "dispatching"
        BY <1>0, <1>3, <3>2, <4>1, GotoWithMoves DEF Recheck
      <4> QED BY <4>1, <4>2 DEF WellFormed, OnItem, Writing
    <3> QED BY <3>1, <3>2
  <2> QED BY <1>0, <1>3, <1>b, <2>1, BaseOfMove DEF Recheck, LeaveLock, ledger, pause, process
<1>4. ASSUME NEW to \in WorkStates, Call(t, to)
      PROVE  Base'
  <2>1. "settle" \in PCs /\ th[t].item \in Items
    BY <1>4, <1>a DEF PCs, Writing, Call, WellFormed, OnItem
  <2>2. /\ ThreadTable' /\ OthersStay(t) /\ th'[t].pc = "settle"
        /\ th'[t].item = th[t].item /\ th'[t].read = NoRow /\ th'[t].to = to
    BY <1>0, <1>4, <2>1, GotoWithMoves DEF Call
  <2>3. ThreadShape'
    BY <1>4, <2>1, <2>2, ShapeOfOne DEF Base, Call, WellFormed, OnItem, Writing
  <2>4. TypeOK'
    BY <1>4, <2>1, <2>2 DEF Base, TypeOK, ThreadTable, Call, ledger, pause, process
  <2>5. TrackerShape' /\ NobodyWhenDown'
    BY <1>4, <1>b DEF Base, Call, process, TrackerShape, NobodyWhenDown
  <2> QED BY <2>3, <2>4, <2>5 DEF Base
<1>5. CASE TakeForReplay(t)
  <2>1. ThreadTable' /\ OthersStay(t) /\ WellFormed(th'[t])
    <3>1. CASE drain # "off"
      BY <1>0, <1>5, <3>1, DoneMoves, IdleIsWellFormed DEF TakeForReplay
    <3>2. CASE drain = "off"
      <4>1. "list" \in PCs
        BY DEF PCs
      <4>2. /\ ThreadTable' /\ OthersStay(t) /\ th'[t].pc = "list" /\ th'[t].read = NoRow
        BY <1>0, <1>5, <3>2, <4>1, GotoMoves DEF TakeForReplay
      <4> QED BY <4>2 DEF WellFormed, OnItem, Writing
    <3> QED BY <3>1, <3>2
  <2> QED BY <1>0, <1>5, <1>b, <2>1, BaseOfMove DEF TakeForReplay, ledger, pause, process
<1>6. CASE ListQueued(t)
  <2>1. "next" \in PCs /\ InState({"queued"}) \in SUBSET Items
    BY DEF PCs, InState
  <2>2. /\ ThreadTable' /\ OthersStay(t) /\ th'[t].pc = "next" /\ th'[t].read = th[t].read
    BY <1>0, <1>6, <2>1, ListingMoves DEF ListQueued
  <2>3. WellFormed(th'[t])
    BY <1>6, <1>a, <2>2 DEF ListQueued, WellFormed, OnItem, Writing
  <2> QED BY <1>0, <1>6, <1>b, <2>2, <2>3, BaseOfMove DEF ListQueued, ledger, pause, process
<1>7. ASSUME NEW i \in Items, ReplayNext(t, i)
      PROVE  Base'
  <2>1. "take" \in PCs
    BY DEF PCs
  <2>2. /\ ThreadTable' /\ OthersStay(t) /\ th'[t].pc = "take" /\ th'[t].read = th[t].read
        /\ th'[t].item = i
    BY <1>0, <1>7, <2>1, PickingMoves DEF ReplayNext
  <2>3. WellFormed(th'[t])
    BY <1>7, <1>a, <2>2 DEF ReplayNext, WellFormed, OnItem, Writing
  <2> QED BY <1>0, <1>7, <1>b, <2>2, <2>3, BaseOfMove DEF ReplayNext, ledger, pause, process
<1>8. CASE ReplayEnd(t)
  BY <1>0, <1>8, <1>b, DoneMoves, IdleIsWellFormed, BaseOfMove
     DEF ReplayEnd, ledger, pause, process
<1> QED BY <1>1, <1>2, <1>3, <1>4, <1>5, <1>6, <1>7, <1>8 DEF DispatchStep

\* The steps of reconcile_uncertain() and retire_stale_uncertain().
LEMMA BaseReconcile == ASSUME Base, NEW t \in Threads, ReconcileStep(t) PROVE Base'
<1>0. ThreadTable /\ lock \in Threads \cup {NoThread} /\ th[t] \in ThreadStates
  BY DEF Base, TypeOK, ThreadTable
<1>a. WellFormed(th[t])
  BY DEF Base, ThreadShape
<1>b. th[t].pc # "idle" => up
  BY RunsInWorker
<1>c. {"reclaim", "reclaimNext", "retire", "retireNext", "replay"} \subseteq PCs
  BY DEF PCs, Writing
<1>d. {"none", "running", "cancelled"} \subseteq WorkStates \cup {"none"}
  BY DEF WorkStates, Active, Terminal
<1>1. CASE Survey(t)
  <2>1. InState({"uncertain", "interrupted"}) \in SUBSET Items
    BY DEF InState
  <2>2. /\ ThreadTable' /\ OthersStay(t) /\ th'[t].pc = "reclaimNext"
        /\ th'[t].read = th[t].read
    BY <1>0, <1>c, <1>1, <2>1, ListingMoves DEF Survey
  <2>3. WellFormed(th'[t])
    BY <1>1, <1>a, <2>2 DEF Survey, WellFormed, OnItem, Writing
  <2> QED BY <1>0, <1>1, <1>b, <2>2, <2>3, BaseOfMove DEF Survey, ledger, pause, process
<1>2. ASSUME NEW i \in Items, NEW live \in BOOLEAN, Evidence(t, i, live)
      PROVE  Base'
  <2>1. ThreadTable' /\ OthersStay(t) /\ WellFormed(th'[t])
    <3>1. CASE live
      <4>1. /\ ThreadTable' /\ OthersStay(t) /\ th'[t].pc = "reclaim"
            /\ th'[t].item = i /\ th'[t].to = "running" /\ th'[t].read = th[t].read
        BY <1>0, <1>c, <1>d, <1>2, <3>1, PickingMoves DEF Evidence
      <4> QED BY <1>2, <1>a, <4>1 DEF Evidence, WellFormed, OnItem, Writing
    <3>2. CASE ~live
      <4>1. /\ ThreadTable' /\ OthersStay(t) /\ th'[t].pc = "reclaimNext"
            /\ th'[t].read = th[t].read
        BY <1>0, <1>c, <1>d, <1>2, <3>2, PickingMoves DEF Evidence
      <4> QED BY <1>2, <1>a, <4>1 DEF Evidence, WellFormed, OnItem, Writing
    <3> QED BY <3>1, <3>2
  <2> QED BY <1>0, <1>2, <1>b, <2>1, BaseOfMove DEF Evidence, ledger, pause, process
<1>3. CASE ListStale(t)
  <2>1. {i \in InState({"uncertain"}) : row[i].aged} \in SUBSET Items
    BY DEF InState
  <2>2. /\ ThreadTable' /\ OthersStay(t) /\ th'[t].pc = "retireNext"
        /\ th'[t].read = th[t].read
    BY <1>0, <1>c, <1>3, <2>1, ListingMoves DEF ListStale
  <2>3. WellFormed(th'[t])
    BY <1>3, <1>a, <2>2 DEF ListStale, WellFormed, OnItem, Writing
  <2> QED BY <1>0, <1>3, <1>b, <2>2, <2>3, BaseOfMove DEF ListStale, ledger, pause, process
<1>4. ASSUME NEW i \in Items, RetireNext(t, i)
      PROVE  Base'
  <2>1. /\ ThreadTable' /\ OthersStay(t) /\ th'[t].pc = "retire"
        /\ th'[t].item = i /\ th'[t].to = "cancelled" /\ th'[t].read = th[t].read
    BY <1>0, <1>c, <1>d, <1>4, PickingMoves DEF RetireNext
  <2>2. WellFormed(th'[t])
    BY <1>4, <1>a, <2>1 DEF RetireNext, WellFormed, OnItem, Writing
  <2> QED BY <1>0, <1>4, <1>b, <2>1, <2>2, BaseOfMove DEF RetireNext, ledger, pause, process
<1>5. CASE RetireEnd(t)
  <2>1. ThreadTable' /\ OthersStay(t) /\ WellFormed(th'[t])
    <3>1. CASE th[t].job = "startup"
      <4>1. /\ ThreadTable' /\ OthersStay(t) /\ th'[t].pc = "replay" /\ th'[t].read = NoRow
        BY <1>0, <1>c, <1>5, <3>1, GotoMoves DEF RetireEnd
      <4> QED BY <4>1 DEF WellFormed, OnItem, Writing
    <3>2. CASE th[t].job # "startup"
      BY <1>0, <1>5, <3>2, DoneMoves, IdleIsWellFormed DEF RetireEnd
    <3> QED BY <3>1, <3>2
  <2> QED BY <1>0, <1>5, <1>b, <2>1, BaseOfMove DEF RetireEnd, ledger, pause, process
<1> QED BY <1>1, <1>2, <1>3, <1>4, <1>5 DEF ReconcileStep

\* A new tracker keeps the tracker table in shape.
LEMMA StartTrackerKeeps ==
  ASSUME trk \in [Trackers -> TrackerStates], TrackerShape, NEW i \in Items, StartTracker(i)
  PROVE  trk' \in [Trackers -> TrackerStates] /\ TrackerShape'
<1>1. PICK k \in Trackers :
        trk' = [trk EXCEPT ![k] = [pc |-> "poll", item |-> i, to |-> "none", read |-> NoRow]]
  BY DEF StartTracker
<1>2. [pc |-> "poll", item |-> i, to |-> "none", read |-> NoRow] \in TrackerStates
  BY DEF TrackerStates
<1> QED BY <1>1, <1>2 DEF TrackerShape

\* The UPDATE of a transition, apart from where its thread goes next.
LEMMA BaseWrite ==
  ASSUME Base, NEW t \in Threads, NEW pc \in Writing, Write(t, pc),
         ThreadTable', OthersStay(t), WellFormed(th'[t]),
         lock' \in Threads \cup {NoThread}
  PROVE  Base'
<1>1. /\ th[t] \in ThreadStates /\ th[t].pc = pc /\ th[t].item \in Items
      /\ th[t].to \in WorkStates /\ th[t].read \in Rows
  <2>1. WellFormed(th[t]) /\ th[t] \in ThreadStates
    BY DEF Base, TypeOK, ThreadShape
  <2>2. th[t].to \in WorkStates
    BY <2>1, EditsAreNotDispatches DEF Write, WellFormed, Writing, WorkStates, Active, Terminal
  <2> QED BY <2>1, <2>2 DEF Write, WellFormed, OnItem, ThreadStates
<1>2. Written(th[t].read, th[t].to, OwnerOf(pc)) \in Rows
  <2>1. OwnerOf(pc) \in Nat
    BY DEF OwnerOf, Base, TypeOK
  <2> QED BY <1>1, <2>1, WrittenIsRow
<1>3. trk' \in [Trackers -> TrackerStates] /\ TrackerShape'
  <2>1. CASE th[t].to = "running"
    BY <1>1, <2>1, StartTrackerKeeps DEF Base, TypeOK, Write
  <2>2. CASE th[t].to # "running"
    BY <2>2 DEF Base, TypeOK, Write, TrackerShape
  <2> QED BY <2>1, <2>2
<1>4. row' \in [Items -> Rows \cup {NoRow}]
  BY <1>1, <1>2 DEF Base, TypeOK, Write
<1>5. grants' \in [Items -> Nat] /\ late' \in Nat
  BY <1>1 DEF Base, TypeOK, Write
<1>6. TypeOK'
  BY <1>3, <1>4, <1>5 DEF Base, TypeOK, ThreadTable, Write, process
<1>7. ThreadShape'
  BY ShapeOfOne DEF Base
<1>8. NobodyWhenDown'
  BY <1>1, RunsInWorker DEF Base, NobodyWhenDown, Write, process, Writing
<1> QED BY <1>3, <1>6, <1>7, <1>8 DEF Base

\* The two halves of WorkLedger.transition.
LEMMA BaseTransition == ASSUME Base, NEW t \in Threads, TransitionStep(t) PROVE Base'
<1>0. ThreadTable /\ lock \in Threads \cup {NoThread} /\ th[t] \in ThreadStates
  BY DEF Base, TypeOK, ThreadTable
<1>a. WellFormed(th[t])
  BY DEF Base, ThreadShape
<1>b. th[t].pc # "idle" => up
  BY RunsInWorker
<1>c. {"call", "deferral", "reclaimNext", "retireNext"} \subseteq PCs
  BY DEF PCs
<1>1. CASE ReadRow(t)
  <2> DEFINE r == row[th[t].item]
  <2>1. th[t].item \in Items /\ r \in Rows \cup {NoRow}
    BY <1>1, <1>a DEF Base, TypeOK, ReadRow, WellFormed, OnItem
  <2>2. /\ ThreadTable' /\ OthersStay(t) /\ WellFormed(th'[t])
        /\ lock' \in Threads \cup {NoThread}
    <3>1. CASE th' = [th EXCEPT ![t] = [@ EXCEPT !.read = r]] /\ UNCHANGED lock
      <4>1. /\ ThreadTable' /\ OthersStay(t) /\ th'[t].pc = th[t].pc
            /\ th'[t].item = th[t].item /\ th'[t].to = th[t].to /\ th'[t].job = th[t].job
        BY <1>0, <2>1, <3>1 DEF ThreadTable, ThreadStates, OthersStay
      <4> QED BY <1>0, <1>1, <1>a, <3>1, <4>1 DEF ReadRow, WellFormed
    <3>2. CASE LoopAt(t, "retireNext") /\ UNCHANGED lock
      <4>1. /\ ThreadTable' /\ OthersStay(t) /\ th'[t].pc = "retireNext"
            /\ th'[t].read = NoRow
        BY <1>0, <1>c, <3>2, LoopAtMoves
      <4> QED BY <1>0, <3>2, <4>1 DEF WellFormed, OnItem, Writing
    <3>3. CASE Raised(t)
      BY <1>0, <3>3, RaisedMoves, IdleIsWellFormed
    <3> QED BY <1>1, <3>1, <3>2, <3>3 DEF ReadRow
  <2> QED BY <1>1, <1>b, <2>2, BaseOfMove DEF ReadRow, ledger, pause, process, Writing
<1>2. CASE Claim(t)
  <2>1. th[t].item \in Items
    BY <1>2, <1>a DEF Claim, Write, WellFormed, OnItem, Writing
  <2>2. /\ ThreadTable' /\ OthersStay(t) /\ th'[t].pc = "call"
        /\ th'[t].item = th[t].item /\ th'[t].read = NoRow
    BY <1>0, <1>c, <1>2, <2>1, GotoWithMoves DEF Claim
  <2>3. WellFormed(th'[t])
    BY <2>1, <2>2 DEF WellFormed, OnItem, Writing
  <2>4. Write(t, "claim") /\ "claim" \in Writing /\ lock' \in Threads \cup {NoThread}
    BY <1>0, <1>2 DEF Claim, LeaveLock, Writing
  <2> QED BY <2>2, <2>3, <2>4, BaseWrite
<1>3. CASE Settle(t)
  <2>1. Write(t, "settle") /\ "settle" \in Writing /\ lock' \in Threads \cup {NoThread}
    BY <1>0, <1>3 DEF Settle, Writing
  <2>2. ThreadTable' /\ OthersStay(t) /\ WellFormed(th'[t])
    BY <1>0, <1>3, ReturnedIsWellFormed DEF Settle
  <2> QED BY <2>1, <2>2, BaseWrite
<1>4. CASE Requeue(t)
  <2>1. Write(t, "requeue") /\ "requeue" \in Writing /\ lock' \in Threads \cup {NoThread}
    BY <1>0, <1>4 DEF Requeue, Writing
  <2>2. /\ ThreadTable' /\ OthersStay(t) /\ th'[t].pc = "deferral"
        /\ th'[t].item = th[t].item /\ th'[t].read = NoRow /\ th'[t].job = th[t].job
    BY <1>0, <1>c, <1>4, GotoMoves DEF Requeue
  <2>3. WellFormed(th'[t])
    BY <1>a, <2>1, <2>2 DEF Write, WellFormed, OnItem, Writing
  <2> QED BY <2>1, <2>2, <2>3, BaseWrite
<1>5. CASE Close(t)
  <2>1. Write(t, "close") /\ "close" \in Writing /\ lock' \in Threads \cup {NoThread}
    BY <1>0, <1>5 DEF Close, Writing
  <2>2. ThreadTable' /\ OthersStay(t) /\ WellFormed(th'[t])
    BY <1>0, <1>5, DoneMoves, IdleIsWellFormed DEF Close
  <2> QED BY <2>1, <2>2, BaseWrite
<1>6. CASE EditWrite(t)
  <2>1. Write(t, "edit") /\ "edit" \in Writing /\ lock' \in Threads \cup {NoThread}
    BY <1>0, <1>6 DEF EditWrite, Writing
  <2>2. ThreadTable' /\ OthersStay(t) /\ WellFormed(th'[t])
    BY <1>0, <1>6, DoneMoves, IdleIsWellFormed DEF EditWrite
  <2> QED BY <2>1, <2>2, BaseWrite
<1>7. CASE Reclaim(t)
  <2>1. Write(t, "reclaim") /\ "reclaim" \in Writing /\ lock' \in Threads \cup {NoThread}
    BY <1>0, <1>7 DEF Reclaim, Writing
  <2>2. /\ ThreadTable' /\ OthersStay(t) /\ th'[t].pc = "reclaimNext" /\ th'[t].read = NoRow
    BY <1>0, <1>c, <1>7, LoopAtMoves DEF Reclaim
  <2>3. WellFormed(th'[t])
    BY <2>2 DEF WellFormed, OnItem, Writing
  <2> QED BY <2>1, <2>2, <2>3, BaseWrite
<1>8. CASE Retire(t)
  <2>1. Write(t, "retire") /\ "retire" \in Writing /\ lock' \in Threads \cup {NoThread}
    BY <1>0, <1>8 DEF Retire, Writing
  <2>2. /\ ThreadTable' /\ OthersStay(t) /\ th'[t].pc = "retireNext" /\ th'[t].read = NoRow
    BY <1>0, <1>c, <1>8, LoopAtMoves DEF Retire
  <2>3. WellFormed(th'[t])
    BY <2>2 DEF WellFormed, OnItem, Writing
  <2> QED BY <2>1, <2>2, <2>3, BaseWrite
<1> QED BY <1>1, <1>2, <1>3, <1>4, <1>5, <1>6, <1>7, <1>8 DEF TransitionStep

\* The tracker threads.
LEMMA BaseTracker == ASSUME Base, NEW k \in Trackers, TrackerStep(k) PROVE Base'
<1>0. /\ trk \in [Trackers -> TrackerStates] /\ row \in [Items -> Rows \cup {NoRow}]
      /\ epoch \in Nat
  BY DEF Base, TypeOK
<1>1. ThreadShape' /\ th' = th
  BY DEF Base, ThreadShape, TrackerStep, TurnOver, PollFault, LeaseLost, TrackerRead, TrackerWrite
<1>2. trk[k].pc # "idle" /\ trk[k].item \in Items /\ up
  BY DEF Base, TrackerShape, NobodyWhenDown, NoTracker, TrackerStep, TurnOver, PollFault,
         LeaseLost, TrackerRead, TrackerWrite
<1>3. UNCHANGED <<parentOf, drain, late, up, epoch, lock, calls, grants>>
  BY DEF TrackerStep, TurnOver, PollFault, LeaseLost, TrackerRead, TrackerWrite,
         ledger, pause, process
<1>4. ASSUME NEW to \in {"completed", "uncertain"}, TrackerGoes(k, "read", to)
      PROVE  trk' \in [Trackers -> TrackerStates] /\ TrackerShape'
  BY <1>0, <1>2, <1>4 DEF Base, TrackerShape, TrackerGoes, TrackerStates
<1>5. ASSUME trk' = [trk EXCEPT ![k] = NoTracker]
      PROVE  trk' \in [Trackers -> TrackerStates] /\ TrackerShape'
  BY <1>0, <1>5 DEF Base, TrackerShape, NoTracker, TrackerStates
<1>6. /\ trk' \in [Trackers -> TrackerStates] /\ TrackerShape'
      /\ row' \in [Items -> Rows \cup {NoRow}]
  <2>1. CASE TurnOver(k) \/ PollFault(k) \/ LeaseLost(k)
    BY <1>0, <1>4, <2>1 DEF TurnOver, PollFault, LeaseLost, ledger
  <2>2. CASE TrackerRead(k)
    <3>1. row' = row
      BY <2>2 DEF TrackerRead, ledger
    <3>2. CASE /\ Legal(row[trk[k].item].st, trk[k].to, epoch)
               /\ trk' = [trk EXCEPT ![k] = [@ EXCEPT !.pc = "write",
                                                      !.read = row[trk[k].item]]]
      <4>1. row[trk[k].item] \in Rows
        BY <1>0, <1>2, <3>2, NoRowIsNoRow DEF Legal
      <4> QED BY <1>0, <1>2, <2>2, <3>1, <3>2, <4>1
              DEF Base, TrackerShape, TrackerStates, TrackerRead
    <3>3. CASE TrackerGoes(k, "read", "uncertain")
      BY <1>0, <1>4, <3>1, <3>3
    <3>4. CASE trk' = [trk EXCEPT ![k] = NoTracker]
      BY <1>0, <1>5, <3>1, <3>4
    <3> QED BY <2>2, <3>2, <3>3, <3>4 DEF TrackerRead
  <2>3. CASE TrackerWrite(k)
    <3>1. trk[k].read \in Rows /\ trk[k].to \in WorkStates
      BY <2>3 DEF Base, TrackerShape, TrackerWrite, WorkStates, Terminal
    <3>2. Written(trk[k].read, trk[k].to, epoch) \in Rows
      BY <1>0, <3>1, WrittenIsRow
    <3> QED BY <1>0, <1>2, <1>5, <2>3, <3>2 DEF TrackerWrite
  <2> QED BY <2>1, <2>2, <2>3 DEF TrackerStep
<1>7. TypeOK'
  BY <1>1, <1>3, <1>6 DEF Base, TypeOK
<1> QED BY <1>1, <1>2, <1>3, <1>6, <1>7 DEF Base, NobodyWhenDown

\* The steps of the process as a whole, of its clock and of its sweeper.
LEMMA BaseProcess ==
  ASSUME Base, Start \/ Crash \/ Sweep \/ \E i \in Items : Age(i)
  PROVE  Base'
<1>0. /\ ThreadTable /\ lock \in Threads \cup {NoThread} /\ epoch \in Nat
      /\ row \in [Items -> Rows \cup {NoRow}]
  BY DEF Base, TypeOK, ThreadTable
<1>1. CASE Start
  <2>1. ThreadTable' /\ ThreadShape'
    <3>1. CASE Begin(Starter, "survey", "startup", NoItem, "none")
      <4>1. Starter \in Threads /\ "survey" \in PCs /\ "startup" \in Jobs
        BY DEF Threads, PCs, Jobs
      <4>2. /\ ThreadTable' /\ OthersStay(Starter)
            /\ th'[Starter] = [pc |-> "survey", job |-> "startup", item |-> NoItem,
                               to |-> "none", read |-> NoRow, todo |-> {}]
        BY <1>0, <3>1, <4>1, BeginMoves
      <4> QED BY <4>1, <4>2, ShapeOfOne DEF Base, WellFormed, OnItem, Writing
    <3>2. CASE UNCHANGED th
      BY <1>0, <3>2 DEF Base, ThreadTable, ThreadShape
    <3> QED BY <1>1, <3>1, <3>2 DEF Start
  <2>2. row' \in [Items -> Rows \cup {NoRow}] /\ epoch' \in Nat
    <3>1. epoch' \in Nat /\ row' = [i \in Items |-> Recovered(row[i], epoch')]
      BY <1>0, <1>1 DEF Start
    <3>2. ASSUME NEW i \in Items
          PROVE  Recovered(row[i], epoch') \in Rows \cup {NoRow}
      BY <1>0, <3>1, RecoveredIsRow
    <3> QED BY <3>1, <3>2
  <2>3. TypeOK'
    BY <1>1, <2>1, <2>2 DEF Base, TypeOK, ThreadTable, Start
  <2>4. TrackerShape' /\ NobodyWhenDown'
    BY <1>1 DEF Base, Start, TrackerShape, NobodyWhenDown
  <2> QED BY <2>1, <2>3, <2>4 DEF Base
<1>2. CASE Crash
  <2>1. Idle \in ThreadStates /\ NoTracker \in TrackerStates
    BY DEF Idle, NoTracker, ThreadStates, TrackerStates, PCs, Jobs
  <2>2. TypeOK'
    BY <1>2, <2>1 DEF Base, TypeOK, Crash, pause
  <2>3. ThreadShape'
    BY <1>2, IdleIsWellFormed DEF Crash, ThreadShape
  <2>4. TrackerShape' /\ NobodyWhenDown'
    BY <1>2 DEF Crash, TrackerShape, NobodyWhenDown, NoTracker
  <2> QED BY <2>2, <2>3, <2>4 DEF Base
<1>3. CASE Sweep
  <2>1. Sweeper \in Threads /\ "survey" \in PCs /\ "sweep" \in Jobs
    BY DEF Threads, PCs, Jobs
  <2>2. /\ ThreadTable' /\ OthersStay(Sweeper)
        /\ th'[Sweeper] = [pc |-> "survey", job |-> "sweep", item |-> NoItem,
                           to |-> "none", read |-> NoRow, todo |-> {}]
    BY <1>0, <1>3, <2>1, BeginMoves DEF Sweep
  <2>3. WellFormed(th'[Sweeper])
    BY <2>2 DEF WellFormed, OnItem, Writing
  <2> QED BY <1>0, <1>3, <2>1, <2>2, <2>3, BaseOfMove DEF Sweep, ledger, pause, process
<1>4. ASSUME NEW i \in Items, Age(i)
      PROVE  Base'
  <2>1. row' \in [Items -> Rows \cup {NoRow}]
    <3>1. row[i] \in Rows
      BY <1>0, <1>4 DEF Age, NoRow
    <3>2. [row[i] EXCEPT !.aged = TRUE] \in Rows
      BY <3>1 DEF Rows
    <3>3. row' = [row EXCEPT ![i] = [row[i] EXCEPT !.aged = TRUE]]
      BY <1>4 DEF Age
    <3> QED BY <1>0, <3>2, <3>3
  <2>2. TypeOK'
    BY <1>4, <2>1 DEF Base, TypeOK, Age, pause
  <2>3. ThreadShape' /\ TrackerShape' /\ NobodyWhenDown'
    BY <1>4 DEF Base, ThreadShape, TrackerShape, NobodyWhenDown, Age
  <2> QED BY <2>2, <2>3 DEF Base
<1> QED BY <1>1, <1>2, <1>3, <1>4

\* Every step keeps Base.
LEMMA BaseNext == ASSUME Base, [Next]_vars PROVE Base'
<1>1. CASE UNCHANGED vars
  BY <1>1 DEF Base, TypeOK, ThreadShape, TrackerShape, NobodyWhenDown, vars
<1>2. CASE Next
  <2>1. ASSUME NEW t \in Threads, RequestStep(t) \/ ThreadStep(t)
        PROVE  Base'
    BY <2>1, BaseRequest, BaseDispatch, BaseReconcile, BaseTransition DEF ThreadStep
  <2> QED BY <1>2, <2>1, BaseProcess, BaseTracker DEF Next
<1> QED BY <1>1, <1>2

\* Types, thread and tracker shapes hold throughout, and nothing runs while
\* no worker is up.
THEOREM BaseHolds == Spec => []Base
<1>1. Init => Base
  BY BaseInit
<1>2. Base /\ [Next]_vars => Base'
  BY BaseNext
<1> QED BY <1>1, <1>2, PTL DEF Spec

\* Every variable keeps its type, whatever the number of items, threads,
\* trackers, worker incarnations and operator retries.
THEOREM TypeCorrect == Spec => []TypeOK
<1>1. Base => TypeOK
  BY DEF Base
<1> QED BY <1>1, BaseHolds, PTL

-----------------------------------------------------------------------------
(***************************************************************************)
(* What each step does to its thread's place, lock and item, in the terms  *)
(* the invariants below speak of.                                          *)
(***************************************************************************)
\* Thread t is at pc for item i, under the same job.
At(t, pc, i) ==
  /\ OthersStay(t) /\ th'[t].pc = pc /\ th'[t].item = i /\ th'[t].job = th[t].job
  /\ th'[t].read = NoRow
Gone(t) == OthersStay(t) /\ th'[t] = Idle
\* Back from _dispatch_item, in the replay loop or at the end.
Back(t) == (Replaying(t) /\ At(t, "next", NoItem)) \/ (~Replaying(t) /\ Gone(t))

\* A begun request stands where no lock, item or engine is involved.
RequestPCs == {"idle", "deferral", "requeue", "close", "edit", "replay", "survey"}

\* Requests: one new row at most, and the drain.
LEMMA RequestDoes ==
  ASSUME Base, NEW t \in Threads, RequestStep(t)
  PROVE  /\ th[t] = Idle /\ up
         /\ OthersStay(t) /\ th'[t].read = NoRow /\ th'[t].pc \in RequestPCs
         /\ UNCHANGED <<lock, calls, trk, up, epoch>>
         /\ \/ UNCHANGED <<row, grants>>
            \/ \E i \in Items : /\ row[i] = NoRow
                                /\ row' = [row EXCEPT ![i] = FreshRow]
                                /\ grants' = [grants EXCEPT ![i] = @ + 1]
         /\ \/ UNCHANGED <<drain, late>>
            \/ drain' = "off" /\ late' = 0
            \/ drain' # "off" /\ late' = late
<1>0. ThreadTable
  BY DEF Base, TypeOK, ThreadTable
<1>1. ASSUME NEW pc \in PCs \cap RequestPCs, NEW job \in Jobs, NEW i \in Items \cup {NoItem},
             NEW to \in WorkStates \cup {"none"}, Begin(t, pc, job, i, to)
      PROVE  OthersStay(t) /\ th'[t].read = NoRow /\ th'[t].pc \in RequestPCs
  <2>1. /\ OthersStay(t)
        /\ th'[t] = [pc |-> pc, job |-> job, item |-> i, to |-> to,
                     read |-> NoRow, todo |-> {}]
    BY <1>0, <1>1, BeginMoves
  <2> QED BY <2>1
<1>2. /\ {"deferral", "requeue", "close", "edit", "replay", "survey"} \subseteq PCs \cap RequestPCs
      /\ {"execute", "resolve", "edit", "drain", "reconcile"} \subseteq Jobs
  BY DEF PCs, Writing, RequestPCs, Jobs
<1>3. ASSUME UNCHANGED th, th[t] = Idle
      PROVE  OthersStay(t) /\ th'[t].read = NoRow /\ th'[t].pc \in RequestPCs
  BY <1>3 DEF OthersStay, Idle, RequestPCs
<1>4. ASSUME NEW i \in Items, NEW p \in Items \cup {NoItem}, Execute(t, i, p)
      PROVE  OthersStay(t) /\ th'[t].read = NoRow /\ th'[t].pc \in RequestPCs
  BY <1>1, <1>2, <1>4 DEF Execute
<1>5. ASSUME NEW i \in Items, NEW to \in WorkStates, Resolve(t, i, to)
      PROVE  OthersStay(t) /\ th'[t].read = NoRow /\ th'[t].pc \in RequestPCs
  BY <1>1, <1>2, <1>5 DEF Resolve
<1>6. ASSUME NEW i \in Items, NEW to \in WorkStates, Edit(t, i, to)
      PROVE  OthersStay(t) /\ th'[t].read = NoRow /\ th'[t].pc \in RequestPCs
  BY <1>1, <1>2, <1>6 DEF Edit
<1>7. ASSUME NEW d \in {"off", "operator", "restart"}, DrainSet(t, d)
      PROVE  OthersStay(t) /\ th'[t].read = NoRow /\ th'[t].pc \in RequestPCs
  BY <1>1, <1>2, <1>3, <1>7 DEF DrainSet, Free
<1>8. ASSUME Reconcile(t)
      PROVE  OthersStay(t) /\ th'[t].read = NoRow /\ th'[t].pc \in RequestPCs
  BY <1>1, <1>2, <1>8 DEF Reconcile
<1>9. ASSUME NEW i \in Items, NEW p \in Items \cup {NoItem}, Submit(t, i, p)
      PROVE  OthersStay(t) /\ th'[t].read = NoRow /\ th'[t].pc \in RequestPCs
  BY <1>3, <1>9 DEF Submit, Free
<1>10. OthersStay(t) /\ th'[t].read = NoRow /\ th'[t].pc \in RequestPCs
  BY <1>4, <1>5, <1>6, <1>7, <1>8, <1>9 DEF RequestStep
<1>11. th[t] = Idle /\ up /\ UNCHANGED <<lock, calls, trk, up, epoch>>
  BY DEF RequestStep, Execute, Submit, Resolve, Edit, DrainSet, Reconcile, Free, process
<1>12. \/ UNCHANGED <<row, grants>>
       \/ \E i \in Items : /\ row[i] = NoRow
                           /\ row' = [row EXCEPT ![i] = FreshRow]
                           /\ grants' = [grants EXCEPT ![i] = @ + 1]
  BY DEF RequestStep, Execute, Submit, Insert, Resolve, Edit, DrainSet, Reconcile, ledger
<1>13. \/ UNCHANGED <<drain, late>>
       \/ drain' = "off" /\ late' = 0
       \/ drain' # "off" /\ late' = late
  BY DEF RequestStep, Execute, Submit, Resolve, Edit, DrainSet, Reconcile, pause
<1> QED BY <1>10, <1>11, <1>12, <1>13

\* The steps of _dispatch_item and of the replay loop.
LEMMA DispatchDoes ==
  ASSUME Base, NEW t \in Threads, DispatchStep(t)
  PROVE  /\ up /\ UNCHANGED <<row, grants, drain, late, up, epoch, trk>>
         /\ \/ /\ th[t].pc = "deferral" /\ UNCHANGED <<calls, lock>>
               /\ Gone(t) \/ At(t, "take", th[t].item)
            \/ /\ th[t].pc = "take" /\ UNCHANGED calls /\ lock \in {NoThread, t}
               /\ \/ /\ row[th[t].item].st = "queued" /\ lock' = t
                     /\ At(t, "recheck", th[t].item)
                  \/ row[th[t].item].st # "queued" /\ lock' = lock /\ Back(t)
            \/ /\ th[t].pc = "recheck" /\ UNCHANGED calls
               /\ \/ Back(t) /\ LeaveLock(t)
                  \/ drain = "off" /\ lock' = lock /\ At(t, "claim", th[t].item)
            \/ /\ th[t].pc = "call" /\ UNCHANGED lock
               /\ calls' = [calls EXCEPT ![th[t].item] = @ + 1]
               /\ At(t, "settle", th[t].item)
            \/ /\ th[t].pc = "replay" /\ UNCHANGED calls /\ lock = NoThread
               /\ (lock' = lock /\ Gone(t)) \/ (lock' = t /\ At(t, "list", th[t].item))
            \/ /\ th[t].pc \in {"list", "next"} /\ UNCHANGED <<calls, lock>>
               /\ \/ At(t, "next", th[t].item)
                  \/ \E i \in Items : At(t, "take", i)
            \/ /\ th[t].pc = "next" /\ UNCHANGED calls /\ lock' = NoThread /\ Gone(t)
<1>0. ThreadTable
  BY DEF Base, TypeOK, ThreadTable
<1>a. WellFormed(th[t])
  BY DEF Base, ThreadShape
<1>b. /\ {"take", "recheck", "claim", "settle", "list", "next"} \subseteq PCs
      /\ "dispatching" \in WorkStates
  BY DEF PCs, Writing, WorkStates, Active
<1>c. ASSUME Returned(t) PROVE Back(t)
  BY <1>0, <1>c, ReturnedMoves DEF Back, At, Gone
<1>d. ASSUME Done(t) PROVE Gone(t)
  BY <1>0, <1>d, DoneMoves DEF Gone
<1>e. ASSUME NEW pc \in PCs, Goto(t, pc) PROVE At(t, pc, th[t].item)
  BY <1>0, <1>e, GotoMoves DEF At
<1>f. up
  BY RunsInWorker DEF DispatchStep, Deferral, Take, Recheck, Call, TakeForReplay, ListQueued,
                      ReplayNext, ReplayEnd
<1>g. UNCHANGED <<row, grants, drain, late, up, epoch, trk>>
  BY DEF DispatchStep, Deferral, Take, Recheck, Call, TakeForReplay, ListQueued,
         ReplayNext, ReplayEnd, ledger, pause, process
<1>1. CASE Deferral(t)
  BY <1>1, <1>b, <1>d, <1>e, <1>f, <1>g DEF Deferral
<1>2. CASE Take(t)
  BY <1>2, <1>b, <1>c, <1>e, <1>f, <1>g DEF Take
<1>3. CASE Recheck(t)
  <2>1. th[t].item \in Items
    BY <1>3, <1>a DEF Recheck, WellFormed, OnItem
  <2>2. ASSUME GotoWith(t, "claim", th[t].item, "dispatching")
        PROVE  At(t, "claim", th[t].item)
    BY <1>0, <1>b, <2>1, <2>2, GotoWithMoves DEF At
  <2> QED BY <1>3, <1>c, <1>f, <1>g, <2>2 DEF Recheck
<1>4. ASSUME NEW to \in WorkStates, Call(t, to)
      PROVE  /\ th[t].pc = "call" /\ UNCHANGED lock
             /\ calls' = [calls EXCEPT ![th[t].item] = @ + 1]
             /\ At(t, "settle", th[t].item)
  <2>1. th[t].item \in Items
    BY <1>4, <1>a DEF Call, WellFormed, OnItem
  <2>2. At(t, "settle", th[t].item)
    BY <1>0, <1>b, <1>4, <2>1, GotoWithMoves DEF At, Call
  <2> QED BY <1>4, <2>2 DEF Call
<1>5. CASE TakeForReplay(t)
  BY <1>5, <1>b, <1>d, <1>e, <1>f, <1>g DEF TakeForReplay
<1>6. CASE ListQueued(t)
  <2>1. InState({"queued"}) \in SUBSET Items
    BY DEF InState
  <2>2. At(t, "next", th[t].item)
    BY <1>0, <1>a, <1>b, <1>6, <2>1, ListingMoves DEF At, ListQueued, WellFormed, Writing
  <2> QED BY <1>6, <1>f, <1>g, <2>2 DEF ListQueued
<1>7. ASSUME NEW i \in Items, ReplayNext(t, i)
      PROVE  th[t].pc \in {"list", "next"} /\ UNCHANGED <<calls, lock>> /\ At(t, "take", i)
  <2>1. At(t, "take", i)
    BY <1>0, <1>a, <1>b, <1>7, PickingMoves DEF At, ReplayNext, WellFormed, Writing
  <2> QED BY <1>7, <2>1 DEF ReplayNext
<1>8. CASE ReplayEnd(t)
  BY <1>8, <1>d, <1>f, <1>g DEF ReplayEnd
<1> QED BY <1>1, <1>2, <1>3, <1>4, <1>5, <1>6, <1>7, <1>8, <1>f, <1>g DEF DispatchStep

\* The steps of a reconcile move their own thread only.
LEMMA ReconcileDoes ==
  ASSUME Base, NEW t \in Threads, ReconcileStep(t)
  PROVE  /\ up /\ UNCHANGED <<row, grants, drain, late, up, epoch, trk, calls, lock>>
         /\ th[t].pc \in {"survey", "reclaimNext", "retireNext"}
         /\ OthersStay(t) /\ th'[t].read = NoRow
         /\ th'[t].pc \in {"reclaimNext", "reclaim", "retireNext", "retire", "replay", "idle"}
<1>0. ThreadTable /\ {"reclaimNext", "reclaim", "retireNext", "retire", "replay"} \subseteq PCs
  BY DEF Base, TypeOK, ThreadTable, PCs, Writing
<1>a. WellFormed(th[t])
  BY DEF Base, ThreadShape
<1>b. {"none", "running", "cancelled"} \subseteq WorkStates \cup {"none"}
  BY DEF WorkStates, Active, Terminal
<1>c. th[t].pc \in {"survey", "reclaimNext", "retireNext"} /\ th[t].read = NoRow
  BY <1>a DEF ReconcileStep, Survey, Evidence, ListStale, RetireNext, RetireEnd, WellFormed, Writing
<1>d. UNCHANGED <<row, grants, drain, late, up, epoch, trk, calls, lock>>
  BY DEF ReconcileStep, Survey, Evidence, ListStale, RetireNext, RetireEnd, ledger, pause, process
<1>e. up
  BY <1>c, RunsInWorker
<1> DEFINE Moved == /\ OthersStay(t) /\ th'[t].read = NoRow
                    /\ th'[t].pc \in {"reclaimNext", "reclaim", "retireNext", "retire",
                                      "replay", "idle"}
<1>1. CASE Survey(t)
  <2>1. InState({"uncertain", "interrupted"}) \in SUBSET Items
    BY DEF InState
  <2> QED BY <1>0, <1>1, <1>c, <1>d, <1>e, <2>1, ListingMoves DEF Survey
<1>2. ASSUME NEW i \in Items, NEW live \in BOOLEAN, Evidence(t, i, live)
      PROVE  Moved
  BY <1>0, <1>2, <1>b, <1>c, PickingMoves DEF Evidence
<1>3. CASE ListStale(t)
  <2>1. {i \in InState({"uncertain"}) : row[i].aged} \in SUBSET Items
    BY DEF InState
  <2> QED BY <1>0, <1>3, <1>c, <1>d, <1>e, <2>1, ListingMoves DEF ListStale
<1>4. ASSUME NEW i \in Items, RetireNext(t, i)
      PROVE  Moved
  BY <1>0, <1>4, <1>b, <1>c, PickingMoves DEF RetireNext
<1>5. CASE RetireEnd(t)
  BY <1>0, <1>5, <1>c, <1>d, <1>e, GotoMoves, DoneMoves DEF RetireEnd, Idle
<1> QED BY <1>1, <1>2, <1>3, <1>4, <1>5, <1>c, <1>d, <1>e DEF ReconcileStep

\* The first half of a transition: a legal row is in the thread's hand, or
\* the attempt is over.
LEMMA ReadDoes ==
  ASSUME Base, NEW t \in Threads, ReadRow(t)
  PROVE  /\ up /\ UNCHANGED <<row, grants, drain, late, up, epoch, trk, calls>>
         /\ th[t].pc \in Writing /\ th[t].read = NoRow /\ th[t].item \in Items
         /\ OthersStay(t)
         /\ \/ /\ Legal(row[th[t].item].st, th[t].to, OwnerOf(th[t].pc))
               /\ th'[t].read = row[th[t].item] /\ lock' = lock
               /\ th'[t].pc = th[t].pc /\ th'[t].job = th[t].job
               /\ th'[t].item = th[t].item /\ th'[t].to = th[t].to
            \/ /\ ~Legal(row[th[t].item].st, th[t].to, OwnerOf(th[t].pc))
               /\ \/ lock' = lock /\ At(t, "retireNext", NoItem) /\ th[t].pc = "retire"
                  \/ lock' = (IF lock = t THEN NoThread ELSE lock) /\ Gone(t)
<1>0. ThreadTable /\ "retireNext" \in PCs /\ row \in [Items -> Rows \cup {NoRow}]
  BY DEF Base, TypeOK, ThreadTable, PCs
<1>a. WellFormed(th[t])
  BY DEF Base, ThreadShape
<1>1. th[t].pc \in Writing /\ th[t].read = NoRow /\ th[t].item \in Items
  BY <1>a DEF ReadRow, WellFormed, OnItem
<1>2. up
  BY <1>1, RunsInWorker DEF Writing
<1>3. UNCHANGED <<row, grants, drain, late, up, epoch, trk, calls>>
  BY DEF ReadRow, ledger, pause, process
<1>4. CASE /\ Legal(row[th[t].item].st, th[t].to, OwnerOf(th[t].pc))
           /\ th' = [th EXCEPT ![t] = [@ EXCEPT !.read = row[th[t].item]]]
           /\ UNCHANGED lock
  <2>1. /\ OthersStay(t) /\ th'[t].read = row[th[t].item]
        /\ th'[t].pc = th[t].pc /\ th'[t].job = th[t].job
        /\ th'[t].item = th[t].item /\ th'[t].to = th[t].to
    BY <1>0, <1>4 DEF ThreadTable, ThreadStates, OthersStay
  <2> QED BY <1>1, <1>2, <1>3, <1>4, <2>1
<1>5. CASE /\ ~Legal(row[th[t].item].st, th[t].to, OwnerOf(th[t].pc))
           /\ th[t].pc = "retire" /\ LoopAt(t, "retireNext") /\ UNCHANGED lock
  <2>1. At(t, "retireNext", NoItem)
    BY <1>0, <1>5, LoopAtMoves DEF At
  <2> QED BY <1>1, <1>2, <1>3, <1>5, <2>1 DEF At
<1>6. CASE ~Legal(row[th[t].item].st, th[t].to, OwnerOf(th[t].pc)) /\ Raised(t)
  <2>1. Gone(t) /\ lock' = IF lock = t THEN NoThread ELSE lock
    BY <1>0, <1>6, RaisedMoves DEF Gone
  <2> QED BY <1>1, <1>2, <1>3, <1>6, <2>1 DEF Gone
<1> QED BY <1>4, <1>5, <1>6 DEF ReadRow

\* What the second half finds in the thread's hand and does to the tables.
LEMMA WriteDoes ==
  ASSUME Base, NEW t \in Threads, NEW pc \in Writing, Write(t, pc)
  PROVE  /\ up /\ UNCHANGED <<drain, up, epoch, calls>>
         /\ th[t].pc = pc /\ th[t].item \in Items /\ th[t].to \in WorkStates
         /\ th[t].read \in Rows /\ OwnerOf(pc) \in Nat
         /\ row' = [row EXCEPT ![th[t].item] = Written(th[t].read, th[t].to, OwnerOf(pc))]
         /\ th[t].to # "queued" => grants' = grants
         /\ th[t].to = "queued" => grants' = [grants EXCEPT ![th[t].item] = @ + 1]
         /\ th[t].to = "running" => StartTracker(th[t].item)
         /\ th[t].to # "running" => trk' = trk
         /\ late' = IF pc = "claim" /\ drain # "off" THEN late + 1 ELSE late
         /\ th[t].to = "dispatching" <=> pc = "claim"
<1>1. WellFormed(th[t]) /\ th[t] \in ThreadStates /\ epoch \in Nat
  BY DEF Base, TypeOK, ThreadShape
<1>2. th[t].pc = pc /\ th[t].read # NoRow /\ th[t].item \in Items
  BY <1>1 DEF Write, WellFormed, OnItem
<1>3. th[t].read \in Rows /\ OwnerOf(pc) \in Nat
  BY <1>1, <1>2 DEF ThreadStates, OwnerOf
<1>4. up
  BY <1>2, RunsInWorker DEF Writing
<1>5. th[t].to \in WorkStates /\ (th[t].to = "dispatching" <=> pc = "claim")
  BY <1>1, <1>2, EditsAreNotDispatches DEF WellFormed, Writing, WorkStates, Active, Terminal
<1> QED BY <1>2, <1>3, <1>4, <1>5 DEF Write, process

\* Where each caller of transition() goes after the UPDATE.
LEMMA CallersDo ==
  ASSUME Base, NEW t \in Threads, TransitionStep(t)
  PROVE  \/ ReadRow(t)
         \/ /\ Write(t, "claim") /\ At(t, "call", th[t].item) /\ LeaveLock(t)
         \/ /\ Write(t, "settle") /\ Back(t) /\ lock' = lock
         \/ /\ Write(t, "requeue") /\ At(t, "deferral", th[t].item) /\ lock' = lock
         \/ /\ Write(t, "close") /\ Gone(t) /\ lock' = lock
         \/ /\ Write(t, "edit") /\ Gone(t) /\ lock' = lock
         \/ /\ Write(t, "reclaim") /\ At(t, "reclaimNext", NoItem) /\ lock' = lock
         \/ /\ Write(t, "retire") /\ At(t, "retireNext", NoItem) /\ lock' = lock
<1>0. ThreadTable /\ {"call", "deferral", "reclaimNext", "retireNext"} \subseteq PCs
  BY DEF Base, TypeOK, ThreadTable, PCs
<1>1. CASE Claim(t)
  <2>1. th[t].item \in Items
    BY <1>1, WriteDoes DEF Claim, Writing
  <2> QED BY <1>0, <1>1, <2>1, GotoWithMoves DEF Claim, At
<1>2. CASE Settle(t)
  BY <1>0, <1>2, ReturnedMoves DEF Settle, Back, At, Gone
<1>3. CASE Requeue(t)
  BY <1>0, <1>3, GotoMoves DEF Requeue, At
<1>4. CASE Close(t)
  BY <1>0, <1>4, DoneMoves DEF Close, Gone
<1>5. CASE EditWrite(t)
  BY <1>0, <1>5, DoneMoves DEF EditWrite, Gone
<1>6. CASE Reclaim(t)
  BY <1>0, <1>6, LoopAtMoves DEF Reclaim, At
<1>7. CASE Retire(t)
  BY <1>0, <1>7, LoopAtMoves DEF Retire, At
<1> QED BY <1>1, <1>2, <1>3, <1>4, <1>5, <1>6, <1>7 DEF TransitionStep

\* A start and a crash leave no thread anywhere but at the head of a survey.
LEMMA ProcessDoes ==
  ASSUME Base, Start \/ Crash
  PROVE  \A t \in Threads : th'[t].pc \in {"idle", "survey"} /\ th'[t].read = NoRow
<1>0. ThreadTable /\ Starter \in Threads /\ "survey" \in PCs /\ "startup" \in Jobs
  BY DEF Base, TypeOK, ThreadTable, Threads, PCs, Jobs
<1>1. CASE Start
  <2>1. \A t \in Threads : th[t] = Idle
    BY <1>1 DEF Start, Base, NobodyWhenDown
  <2>2. CASE Begin(Starter, "survey", "startup", NoItem, "none")
    <3>1. /\ OthersStay(Starter)
          /\ th'[Starter] = [pc |-> "survey", job |-> "startup", item |-> NoItem,
                             to |-> "none", read |-> NoRow, todo |-> {}]
      BY <1>0, <2>2, BeginMoves
    <3> QED BY <2>1, <3>1 DEF OthersStay, Idle
  <2>3. CASE UNCHANGED th
    BY <2>1, <2>3 DEF Idle
  <2> QED BY <1>1, <2>2, <2>3 DEF Start
<1>2. CASE Crash
  BY <1>2 DEF Crash, Idle
<1> QED BY <1>1, <1>2

\* The sweeper begins a survey.
LEMMA SweepDoes ==
  ASSUME Base, Sweep
  PROVE  /\ Sweeper \in Threads /\ OthersStay(Sweeper) /\ th[Sweeper] = Idle
         /\ th'[Sweeper].pc = "survey" /\ th'[Sweeper].read = NoRow /\ up
         /\ UNCHANGED <<row, grants, drain, late, up, epoch, lock, trk, calls>>
<1>1. Sweeper \in Threads /\ "survey" \in PCs /\ "sweep" \in Jobs /\ ThreadTable
  BY DEF Base, TypeOK, ThreadTable, Threads, PCs, Jobs
<1>2. Begin(Sweeper, "survey", "sweep", NoItem, "none")
  BY DEF Sweep
<1>3. /\ OthersStay(Sweeper)
      /\ th'[Sweeper] = [pc |-> "survey", job |-> "sweep", item |-> NoItem,
                         to |-> "none", read |-> NoRow, todo |-> {}]
  BY <1>1, <1>2, BeginMoves
<1> QED BY <1>1, <1>3 DEF Sweep, ledger, pause, process

-----------------------------------------------------------------------------
(***************************************************************************)
(* Locking: who is inside the dispatch lock.                               *)
(***************************************************************************)
Inside(s) ==
  \/ s.pc \in {"recheck", "claim", "list", "next"}
  \/ s.job \in {"drain", "startup"} /\ s.pc \in {"take", "call", "settle"}

\* A step of thread t keeps Locking if t holds the lock wherever it is now
\* inside, and took the lock from no other thread.
LEMMA LockingOfOne ==
  ASSUME Locking, NEW t \in Threads, OthersStay(t),
         Inside(th'[t]) => lock' = t,
         lock' = lock \/ lock \in {NoThread, t}
  PROVE  Locking'
BY ThreadsAreDistinct DEF Locking, Inside, OthersStay, Replaying

\* Every step of _dispatch_item and of a replay keeps it.
LEMMA LockingDispatch == ASSUME Base, Locking, NEW t \in Threads, DispatchStep(t) PROVE Locking'
<1>1. ASSUME NEW pc, NEW i, At(t, pc, i)
      PROVE  OthersStay(t) /\ th'[t].pc = pc /\ th'[t].job = th[t].job
  BY <1>1 DEF At
<1>2. ASSUME Gone(t)
      PROVE  OthersStay(t) /\ ~Inside(th'[t])
  BY <1>2 DEF Gone, Inside, Idle
<1>3. ASSUME Back(t)
      PROVE  OthersStay(t) /\ (Inside(th'[t]) => Replaying(t))
  BY <1>1, <1>2, <1>3 DEF Back, Inside
<1>4. /\ th[t].pc \in {"recheck", "claim", "list", "next"} => lock = t
      /\ Replaying(t) /\ th[t].pc \in {"take", "call", "settle"} => lock = t
  BY DEF Locking
<1>5. CASE th[t].pc = "deferral" /\ lock' = lock /\ (Gone(t) \/ At(t, "take", th[t].item))
  <2>1. th[t].job \notin {"drain", "startup"}
    BY <1>5 DEF Base, ThreadShape, WellFormed
  <2>2. CASE At(t, "take", th[t].item)
    <3>1. OthersStay(t) /\ ~Inside(th'[t])
      BY <1>1, <2>1, <2>2 DEF Inside
    <3> QED BY <1>5, <3>1, LockingOfOne
  <2> QED BY <1>2, <1>5, <2>2, LockingOfOne
<1>6. CASE /\ th[t].pc = "take" /\ lock \in {NoThread, t} /\ lock' = t
           /\ At(t, "recheck", th[t].item)
  BY <1>1, <1>6, LockingOfOne
<1>7. CASE th[t].pc = "take" /\ lock' = lock /\ Back(t)
  BY <1>3, <1>4, <1>7, LockingOfOne
<1>8. CASE th[t].pc = "recheck" /\ Back(t) /\ LeaveLock(t)
  <2>1. lock = t
    BY <1>4, <1>8
  <2> QED BY <1>3, <1>8, <2>1, LockingOfOne DEF LeaveLock
<1>9. CASE th[t].pc = "recheck" /\ lock' = lock /\ At(t, "claim", th[t].item)
  BY <1>1, <1>4, <1>9, LockingOfOne
<1>10. CASE th[t].pc = "call" /\ lock' = lock /\ At(t, "settle", th[t].item)
  <2>1. Inside(th'[t]) => lock' = t
    BY <1>1, <1>4, <1>10 DEF Inside, Replaying
  <2> QED BY <1>1, <1>10, <2>1, LockingOfOne
<1>11. CASE th[t].pc = "replay" /\ lock = NoThread /\ lock' = lock /\ Gone(t)
  BY <1>2, <1>11, LockingOfOne
<1>12. CASE th[t].pc = "replay" /\ lock = NoThread /\ lock' = t /\ At(t, "list", th[t].item)
  BY <1>1, <1>12, LockingOfOne
<1>13. ASSUME NEW pc, NEW i, At(t, pc, i), th[t].pc \in {"list", "next"}, lock' = lock
       PROVE  Locking'
  BY <1>1, <1>4, <1>13, LockingOfOne
<1>14. CASE th[t].pc = "next" /\ lock' = NoThread /\ Gone(t)
  BY <1>2, <1>4, <1>14, LockingOfOne
<1> QED BY <1>5, <1>6, <1>7, <1>8, <1>9, <1>10, <1>11, <1>12, <1>13, <1>14, DispatchDoes

\* Every half of a transition keeps it.
LEMMA LockingTransition ==
  ASSUME Base, Locking, NEW t \in Threads, TransitionStep(t) PROVE Locking'
<1>1. ASSUME NEW pc, NEW i, At(t, pc, i)
      PROVE  OthersStay(t) /\ th'[t].pc = pc /\ th'[t].job = th[t].job
  BY <1>1 DEF At
<1>2. ASSUME Gone(t)
      PROVE  OthersStay(t) /\ ~Inside(th'[t])
  BY <1>2 DEF Gone, Inside, Idle
<1>3. /\ th[t].pc \in {"recheck", "claim", "list", "next"} => lock = t
      /\ Replaying(t) /\ th[t].pc \in {"take", "call", "settle"} => lock = t
  BY DEF Locking
<1>4. CASE ReadRow(t)
  <2>1. CASE OthersStay(t) /\ lock' = lock /\ th'[t].pc = th[t].pc /\ th'[t].job = th[t].job
    <3>1. Inside(th'[t]) => lock' = t
      BY <1>3, <2>1 DEF Inside, Replaying
    <3> QED BY <2>1, <3>1, LockingOfOne
  <2>2. CASE lock' = lock /\ At(t, "retireNext", NoItem)
    <3>1. OthersStay(t) /\ ~Inside(th'[t])
      BY <1>1, <2>2 DEF Inside
    <3> QED BY <2>2, <3>1, LockingOfOne
  <2>3. CASE lock' = (IF lock = t THEN NoThread ELSE lock) /\ Gone(t)
    BY <1>2, <2>3, LockingOfOne
  <2> QED BY <1>4, <2>1, <2>2, <2>3, ReadDoes
<1>5. CASE Write(t, "claim") /\ At(t, "call", th[t].item) /\ LeaveLock(t)
  <2>1. lock = t
    BY <1>3, <1>5 DEF Write
  <2>2. Inside(th'[t]) => Replaying(t)
    BY <1>1, <1>5 DEF Inside, Replaying
  <2> QED BY <1>1, <1>5, <2>1, <2>2, LockingOfOne DEF LeaveLock
<1>6. CASE Write(t, "settle") /\ Back(t) /\ lock' = lock
  <2>1. OthersStay(t) /\ (Inside(th'[t]) => Replaying(t))
    BY <1>1, <1>2, <1>6 DEF Back, Inside
  <2>2. Replaying(t) => lock = t
    BY <1>3, <1>6 DEF Write
  <2> QED BY <1>6, <2>1, <2>2, LockingOfOne
<1>7. CASE Write(t, "requeue") /\ At(t, "deferral", th[t].item) /\ lock' = lock
  <2>1. ~Inside(th'[t])
    BY <1>1, <1>7 DEF Inside
  <2> QED BY <1>1, <1>7, <2>1, LockingOfOne
<1>8. CASE Gone(t) /\ lock' = lock
  BY <1>2, <1>8, LockingOfOne
<1>9. ASSUME NEW pc \in {"reclaimNext", "retireNext"}, At(t, pc, NoItem), lock' = lock
      PROVE  Locking'
  <2>1. ~Inside(th'[t])
    BY <1>1, <1>9 DEF Inside
  <2> QED BY <1>1, <1>9, <2>1, LockingOfOne
<1> QED BY <1>4, <1>5, <1>6, <1>7, <1>8, <1>9, CallersDo

\* Every step keeps it.
LEMMA LockingNext == ASSUME Base, Locking, [Next]_vars PROVE Locking'
<1>1. ASSUME NEW t \in Threads, RequestStep(t)
      PROVE  Locking'
  <2>1. th'[t].pc \in RequestPCs /\ OthersStay(t) /\ lock' = lock
    BY <1>1, RequestDoes
  <2>2. ~Inside(th'[t])
    BY <2>1 DEF Inside, RequestPCs
  <2> QED BY <2>1, <2>2, LockingOfOne
<1>2. ASSUME NEW t \in Threads, ReconcileStep(t)
      PROVE  Locking'
  <2>1. /\ th'[t].pc \in {"reclaimNext", "reclaim", "retireNext", "retire", "replay", "idle"}
        /\ OthersStay(t) /\ lock' = lock
    BY <1>2, ReconcileDoes
  <2>2. ~Inside(th'[t])
    BY <2>1 DEF Inside
  <2> QED BY <2>1, <2>2, LockingOfOne
<1>3. ASSUME Start \/ Crash
      PROVE  Locking'
  BY <1>3, ProcessDoes DEF Locking
<1>4. CASE Sweep
  <2>1. ~Inside(th'[Sweeper])
    BY <1>4, SweepDoes DEF Inside
  <2> QED BY <1>4, <2>1, SweepDoes, LockingOfOne
<1>5. ASSUME UNCHANGED <<th, lock>>
      PROVE  Locking'
  BY <1>5 DEF Locking, Replaying
<1>6. ASSUME NEW i \in Items, Age(i)
      PROVE  Locking'
  BY <1>5, <1>6 DEF Age
<1>7. ASSUME NEW k \in Trackers, TrackerStep(k)
      PROVE  Locking'
  BY <1>5, <1>7 DEF TrackerStep, TurnOver, PollFault, LeaseLost, TrackerRead, TrackerWrite
<1>8. CASE UNCHANGED vars
  BY <1>5, <1>8 DEF vars
<1> QED BY <1>1, <1>2, <1>3, <1>4, <1>6, <1>7, <1>8, LockingDispatch, LockingTransition
        DEF Next, ThreadStep

-----------------------------------------------------------------------------
(***************************************************************************)
(* Ownership: active rows are the serving worker's own.                    *)
(***************************************************************************)
Owned == Owners /\ ActiveIsOwned

\* An UPDATE by a thread: only the worker's own methods write active states,
\* and they write the epoch with them.
LEMMA OwnedWrite ==
  ASSUME Base, Owned, NEW t \in Threads, NEW pc \in Writing, Write(t, pc),
         OthersStay(t), th'[t].read = NoRow
  PROVE  Owned'
<1> DEFINE w == Written(th[t].read, th[t].to, OwnerOf(pc))
<1>1. /\ up /\ up' /\ epoch' = epoch /\ epoch \in Nat /\ epoch # 0
      /\ row' = [row EXCEPT ![th[t].item] = w] /\ row \in [Items -> Rows \cup {NoRow}]
  BY WriteDoes DEF Base, TypeOK, Owned, Owners
<1>2. /\ w.st = th[t].to
      /\ w.owner = IF OwnerOf(pc) = 0 THEN th[t].read.owner ELSE OwnerOf(pc)
  BY WriteDoes, WrittenIsRow
<1>3. OwnerOf(pc) = 0 => th[t].to \notin Active
  <2>1. th[t].pc = pc /\ WellFormed(th[t])
    BY WriteDoes DEF Base, ThreadShape
  <2>2. OwnerOf(pc) = 0 => pc \in {"retire", "edit"}
    BY <1>1 DEF OwnerOf
  <2> QED BY <2>1, <2>2, EditsAreNotDispatches DEF WellFormed, Active
<1>4. w.owner <= epoch /\ (w.st \in Active => w.owner = epoch)
  <2>1. OwnerOf(pc) \in {0, epoch} /\ th[t].read.owner <= epoch
    BY DEF OwnerOf, Owned, Owners
  <2> QED BY <1>1, <1>2, <1>3, <2>1
<1>5. ASSUME NEW i \in Items
      PROVE  row'[i].owner <= epoch' /\ (row'[i].st \in Active => row'[i].owner = epoch')
  BY <1>1, <1>4 DEF Owned, Owners, ActiveIsOwned
<1>6. \A u \in Threads : th'[u].read.owner <= epoch'
  BY <1>1, NoRowIsNoRow DEF OthersStay, Owned, Owners
<1> QED BY <1>1, <1>5, <1>6 DEF Owned, Owners, ActiveIsOwned

\* A step of a thread that leaves the rows alone and takes no row in hand.
LEMMA OwnedMove ==
  ASSUME Base, Owned, NEW t \in Threads, OthersStay(t), th'[t].read = NoRow,
         UNCHANGED <<row, up, epoch>>
  PROVE  Owned'
BY NoRowIsNoRow DEF Base, TypeOK, OthersStay, Owned, Owners, ActiveIsOwned

\* Every step keeps Owned.
LEMMA OwnedNext == ASSUME Base, Owned, [Next]_vars PROVE Owned'
<1>0. row \in [Items -> Rows \cup {NoRow}] /\ epoch \in Nat
  BY DEF Base, TypeOK
<1>1. ASSUME NEW t \in Threads, RequestStep(t)
      PROVE  Owned'
  <2>1. OthersStay(t) /\ th'[t].read = NoRow /\ UNCHANGED <<up, epoch>>
    BY <1>1, RequestDoes
  <2>2. CASE UNCHANGED row
    BY <2>1, <2>2, OwnedMove
  <2>3. ASSUME NEW i \in Items, row' = [row EXCEPT ![i] = FreshRow]
        PROVE  Owned'
    <3>1. \A j \in Items : /\ row'[j].owner <= epoch'
                           /\ up /\ row'[j].st \in Active => row'[j].owner = epoch'
      BY <1>0, <2>1, <2>3 DEF FreshRow, Active, Owned, Owners, ActiveIsOwned
    <3>2. \A u \in Threads : th'[u].read.owner <= epoch'
      BY <1>0, <2>1, NoRowIsNoRow DEF OthersStay, Owned, Owners
    <3> QED BY <2>1, <3>1, <3>2 DEF Owned, Owners, ActiveIsOwned
  <2> QED BY <1>1, <2>2, <2>3, RequestDoes
<1>2. ASSUME NEW t \in Threads, DispatchStep(t)
      PROVE  Owned'
  <2>1. OthersStay(t) /\ th'[t].read = NoRow
    BY <1>2, DispatchDoes DEF At, Gone, Back, Idle
  <2> QED BY <1>2, <2>1, DispatchDoes, OwnedMove
<1>3. ASSUME NEW t \in Threads, ReconcileStep(t)
      PROVE  Owned'
  BY <1>3, ReconcileDoes, OwnedMove
<1>4. ASSUME NEW t \in Threads, TransitionStep(t)
      PROVE  Owned'
  <2>1. CASE ReadRow(t)
    <3>1. /\ UNCHANGED <<row, up, epoch>> /\ OthersStay(t) /\ th[t].item \in Items
          /\ th'[t].read = row[th[t].item] \/ th'[t].read = NoRow
      BY <2>1, ReadDoes DEF At, Gone, Idle
    <3> QED BY <1>0, <3>1, NoRowIsNoRow DEF OthersStay, Owned, Owners, ActiveIsOwned
  <2>2. CASE ~ReadRow(t)
    <3>1. PICK pc \in Writing : Write(t, pc) /\ OthersStay(t) /\ th'[t].read = NoRow
      BY <1>4, <2>2, CallersDo DEF At, Gone, Back, Idle, Writing
    <3> QED BY <3>1, OwnedWrite
  <2> QED BY <2>1, <2>2
<1>5. CASE Start
  <2>1. epoch' = epoch + 1 /\ row' = [i \in Items |-> Recovered(row[i], epoch')]
    BY <1>5 DEF Start
  <2>2. ASSUME NEW i \in Items
        PROVE  row'[i].owner <= epoch' /\ row'[i].st \notin Active
    <3>1. /\ Recovered(row[i], epoch').owner = row[i].owner
          /\ Recovered(row[i], epoch').st \in Active => row[i].owner = epoch'
      BY <1>0, <2>1, RecoveredFacts
    <3>2. row[i].owner <= epoch /\ row[i].owner \in Nat
      BY <1>0, NoRowIsNoRow DEF Owned, Owners, Rows
    <3> QED BY <1>0, <2>1, <3>1, <3>2
  <2>3. \A t \in Threads : th'[t].read = NoRow
    BY <1>5, ProcessDoes
  <2> QED BY <1>0, <2>1, <2>2, <2>3, NoRowIsNoRow DEF Owned, Owners, ActiveIsOwned
<1>6. CASE Crash
  <2>1. ~up' /\ row' = row /\ epoch' = epoch /\ \A t \in Threads : th'[t].read = NoRow
    BY <1>6, ProcessDoes DEF Crash
  <2> QED BY <1>0, <2>1, NoRowIsNoRow DEF Owned, Owners, ActiveIsOwned
<1>7. CASE Sweep
  BY <1>7, SweepDoes, OwnedMove
<1>8. ASSUME NEW i \in Items, Age(i)
      PROVE  Owned'
  <2>1. row[i] \in Rows /\ row[i].st = "uncertain"
    BY <1>0, <1>8 DEF Age, NoRow
  <2>2. /\ row' = [row EXCEPT ![i] = [row[i] EXCEPT !.aged = TRUE]]
        /\ UNCHANGED <<up, epoch, th>>
    BY <1>8 DEF Age
  <2>3. \A j \in Items : row'[j].owner = row[j].owner /\ row'[j].st = row[j].st
    BY <1>0, <2>1, <2>2 DEF Rows
  <2> QED BY <2>2, <2>3 DEF Owned, Owners, ActiveIsOwned
<1>9. ASSUME NEW k \in Trackers, TrackerStep(k)
      PROVE  Owned'
  <2>1. UNCHANGED <<up, epoch, th>>
    BY <1>9 DEF TrackerStep, TurnOver, PollFault, LeaseLost, TrackerRead, TrackerWrite, process
  <2>2. CASE row' = row
    BY <2>1, <2>2 DEF Owned, Owners, ActiveIsOwned
  <2>3. CASE TrackerWrite(k)
    <3>1. /\ up /\ epoch # 0 /\ trk[k].read \in Rows /\ trk[k].item \in Items
          /\ trk[k].to \in WorkStates \ Active
      BY <2>3 DEF TrackerWrite, Base, TrackerShape, NobodyWhenDown, NoTracker, Owned, Owners,
                  WorkStates, Active, Terminal
    <3>2. /\ row' = [row EXCEPT ![trk[k].item] = Written(trk[k].read, trk[k].to, epoch)]
          /\ Written(trk[k].read, trk[k].to, epoch).st \notin Active
          /\ Written(trk[k].read, trk[k].to, epoch).owner = epoch
      BY <1>0, <2>3, <3>1, WrittenIsRow DEF TrackerWrite
    <3> QED BY <1>0, <2>1, <3>1, <3>2 DEF Owned, Owners, ActiveIsOwned
  <2> QED BY <1>9, <2>2, <2>3 DEF TrackerStep, TurnOver, PollFault, LeaseLost, TrackerRead, ledger
<1>10. CASE UNCHANGED vars
  BY <1>10 DEF vars, Owned, Owners, ActiveIsOwned
<1> QED BY <1>1, <1>2, <1>3, <1>4, <1>5, <1>6, <1>7, <1>8, <1>9, <1>10 DEF Next, ThreadStep

-----------------------------------------------------------------------------
(***************************************************************************)
(* Someone is behind every active row: a thread behind a dispatching one,  *)
(* a tracker behind a running one.                                         *)
(***************************************************************************)
\* Transitions that somebody behind a row can always make.
LEMMA ActiveRowsMove ==
  /\ \A e : Legal("dispatching", "failed", e)
  /\ \A e : Legal("dispatching", "running", e)
  /\ \A e : Legal("dispatching", "completed", e)
  /\ \A e : Legal("running", "uncertain", e)
BY DEF Legal, AllowedTransitions, WorkStates, Active, Terminal

\* Recovery leaves nothing active, whoever left it so.
LEMMA NothingActiveAtStart ==
  ASSUME Base, Owned, Start
  PROVE  \A i \in Items : row'[i].st \notin Active
<1>1. ASSUME NEW i \in Items
      PROVE  row'[i].st \notin Active
  <2>1. row'[i] = Recovered(row[i], epoch') /\ epoch' = epoch + 1
    BY DEF Start
  <2>2. row[i] \in Rows \cup {NoRow} /\ epoch \in Nat /\ row[i].owner <= epoch
    BY DEF Base, TypeOK, Owned, Owners
  <2>3. Recovered(row[i], epoch').st \in Active => row[i].owner = epoch'
    BY <2>1, <2>2, RecoveredFacts
  <2> QED BY <2>1, <2>2, <2>3
<1> QED BY <1>1

\* Time changes no state.
LEMMA AgeKeepsStates ==
  ASSUME Base, NEW i \in Items, Age(i)
  PROVE  \A j \in Items : row'[j].st = row[j].st
<1>1. row[i] \in Rows /\ row \in [Items -> Rows \cup {NoRow}]
  BY DEF Base, TypeOK, Age, NoRow
<1> QED BY <1>1 DEF Age, Rows

\* A step by a thread that is behind no row, and makes no row dispatching.
LEMMA HeldMove ==
  ASSUME Base, DispatchingIsHeld, NEW t \in Threads, OthersStay(t), up' => up,
         th[t].pc \notin {"call", "settle"},
         \A i \in Items : row'[i].st = "dispatching" => row[i].st = "dispatching"
  PROVE  DispatchingIsHeld'
<1>1. ASSUME NEW i \in Items, up', row'[i].st = "dispatching"
      PROVE  \E u \in Threads : th'[u].item = i /\ th'[u].pc \in {"call", "settle"}
  <2>1. PICK u \in Threads : th[u].item = i /\ th[u].pc \in {"call", "settle"}
    BY <1>1 DEF DispatchingIsHeld
  <2> QED BY <2>1 DEF OthersStay
<1> QED BY <1>1 DEF DispatchingIsHeld

\* Every step keeps DispatchingIsHeld.
LEMMA HeldNext ==
  ASSUME Base, Owned, DispatchingIsHeld, [Next]_vars PROVE DispatchingIsHeld'
<1>0. row \in [Items -> Rows \cup {NoRow}] /\ epoch \in Nat
  BY DEF Base, TypeOK
<1>1. ASSUME NEW t \in Threads, RequestStep(t)
      PROVE  DispatchingIsHeld'
  <2>1. th[t].pc = "idle" /\ OthersStay(t) /\ up' = up
    BY <1>1, RequestDoes DEF Idle
  <2>2. \A i \in Items : row'[i].st = "dispatching" => row[i].st = "dispatching"
    BY <1>0, <1>1, RequestDoes DEF FreshRow
  <2> QED BY <2>1, <2>2, HeldMove
<1>2. ASSUME NEW t \in Threads, DispatchStep(t)
      PROVE  DispatchingIsHeld'
  <2>1. row' = row /\ up' = up
    BY <1>2, DispatchDoes
  <2>2. CASE th[t].pc = "call"
    <3>1. OthersStay(t) /\ th'[t].pc = "settle" /\ th'[t].item = th[t].item
      BY <1>2, <2>2, DispatchDoes DEF At
    <3>2. ASSUME NEW i \in Items, up', row'[i].st = "dispatching"
          PROVE  \E u \in Threads : th'[u].item = i /\ th'[u].pc \in {"call", "settle"}
      <4>1. PICK u \in Threads : th[u].item = i /\ th[u].pc \in {"call", "settle"}
        BY <2>1, <3>2 DEF DispatchingIsHeld
      <4>2. th'[u].item = i /\ th'[u].pc \in {"call", "settle"}
        BY <3>1, <4>1 DEF OthersStay
      <4> QED BY <4>2
    <3> QED BY <3>2 DEF DispatchingIsHeld
  <2>3. CASE th[t].pc # "call"
    <3>1. OthersStay(t) /\ th[t].pc \notin {"call", "settle"}
      BY <1>2, <2>3, DispatchDoes DEF At, Gone, Back
    <3> QED BY <2>1, <3>1, HeldMove
  <2> QED BY <2>2, <2>3
<1>3. ASSUME NEW t \in Threads, ReconcileStep(t)
      PROVE  DispatchingIsHeld'
  BY <1>3, ReconcileDoes, HeldMove
<1>4. ASSUME NEW t \in Threads, ReadRow(t)
      PROVE  DispatchingIsHeld'
  <2>1. row' = row /\ up' = up /\ OthersStay(t)
    BY <1>4, ReadDoes
  <2>2. CASE th[t].pc # "settle"
    BY <2>1, <2>2, <1>4, HeldMove DEF ReadRow, Writing
  <2>3. CASE th[t].pc = "settle"
    <3>1. th[t].to \in {"failed", "running", "completed"}
      BY <2>3 DEF Base, ThreadShape, WellFormed
    <3>2. \/ th'[t].pc = th[t].pc /\ th'[t].item = th[t].item
          \/ row[th[t].item].st # "dispatching"
      BY <1>4, <2>3, <3>1, ReadDoes, ActiveRowsMove
    <3>3. ASSUME NEW i \in Items, up', row'[i].st = "dispatching"
          PROVE  \E u \in Threads : th'[u].item = i /\ th'[u].pc \in {"call", "settle"}
      <4>1. PICK u \in Threads : th[u].item = i /\ th[u].pc \in {"call", "settle"}
        BY <2>1, <3>3 DEF DispatchingIsHeld
      <4>2. th'[u].item = i /\ th'[u].pc \in {"call", "settle"}
        BY <2>1, <3>2, <3>3, <4>1 DEF OthersStay
      <4> QED BY <4>2
    <3> QED BY <3>3 DEF DispatchingIsHeld
  <2> QED BY <2>2, <2>3
<1>5. ASSUME NEW t \in Threads, NEW pc \in Writing, Write(t, pc), OthersStay(t),
             pc = "claim" => At(t, "call", th[t].item)
      PROVE  DispatchingIsHeld'
  <2>1. /\ up' = up /\ th[t].pc = pc /\ th[t].item \in Items /\ up
        /\ row' = [row EXCEPT ![th[t].item] = Written(th[t].read, th[t].to, OwnerOf(pc))]
        /\ Written(th[t].read, th[t].to, OwnerOf(pc)).st = th[t].to
        /\ th[t].to = "dispatching" <=> pc = "claim"
    BY <1>5, WriteDoes, WrittenIsRow
  <2>2. ASSUME NEW i \in Items, row'[i].st = "dispatching"
        PROVE  \E u \in Threads : th'[u].item = i /\ th'[u].pc \in {"call", "settle"}
    <3>1. CASE i = th[t].item
      <4>1. pc = "claim"
        BY <1>0, <2>1, <2>2, <3>1
      <4> QED BY <1>5, <3>1, <4>1 DEF At
    <3>2. CASE i # th[t].item
      <4>1. PICK u \in Threads : th[u].item = i /\ th[u].pc \in {"call", "settle"}
        BY <1>0, <2>1, <2>2, <3>2 DEF DispatchingIsHeld
      <4> QED BY <3>2, <4>1, <1>5 DEF OthersStay
    <3> QED BY <3>1, <3>2
  <2> QED BY <2>2 DEF DispatchingIsHeld
<1>6. ASSUME NEW t \in Threads, TransitionStep(t)
      PROVE  DispatchingIsHeld'
  <2>1. CASE ReadRow(t)
    BY <1>4, <2>1
  <2>2. CASE ~ReadRow(t)
    <3>1. PICK pc \in Writing : /\ Write(t, pc) /\ OthersStay(t)
                                /\ pc = "claim" => At(t, "call", th[t].item)
      BY <1>6, <2>2, CallersDo DEF At, Gone, Back, Writing
    <3> QED BY <1>5, <3>1
  <2> QED BY <2>1, <2>2
<1>7. CASE Start
  BY <1>7, NothingActiveAtStart DEF DispatchingIsHeld, Active
<1>8. CASE Crash
  BY <1>8 DEF Crash, DispatchingIsHeld
<1>9. CASE Sweep
  BY <1>9, SweepDoes, HeldMove DEF Idle
<1>10. ASSUME UNCHANGED <<th, up>>,
              \A i \in Items : row'[i].st = "dispatching" => row[i].st = "dispatching"
       PROVE  DispatchingIsHeld'
  BY <1>10 DEF DispatchingIsHeld
<1>11. ASSUME NEW i \in Items, Age(i)
       PROVE  DispatchingIsHeld'
  BY <1>10, <1>11, AgeKeepsStates DEF Age
<1>12. ASSUME NEW k \in Trackers, TrackerStep(k)
       PROVE  DispatchingIsHeld'
  <2>1. UNCHANGED <<up, th>>
    BY <1>12 DEF TrackerStep, TurnOver, PollFault, LeaseLost, TrackerRead, TrackerWrite, process
  <2>2. CASE row' = row
    BY <1>10, <2>1, <2>2
  <2>3. CASE TrackerWrite(k)
    <3>1. trk[k].read \in Rows /\ trk[k].to \in WorkStates \ Active
      BY <2>3 DEF TrackerWrite, Base, TrackerShape, WorkStates, Active, Terminal
    <3>2. Written(trk[k].read, trk[k].to, epoch).st # "dispatching"
      BY <1>0, <3>1, WrittenIsRow DEF Active
    <3>3. \A i \in Items : row'[i].st = "dispatching" => row[i].st = "dispatching"
      BY <1>0, <2>3, <3>2 DEF TrackerWrite
    <3> QED BY <1>10, <2>1, <3>3
  <2> QED BY <1>12, <2>2, <2>3 DEF TrackerStep, TurnOver, PollFault, LeaseLost, TrackerRead, ledger
<1>13. CASE UNCHANGED vars
  BY <1>10, <1>13 DEF vars
<1> QED BY <1>1, <1>2, <1>3, <1>6, <1>7, <1>8, <1>9, <1>11, <1>12, <1>13 DEF Next, ThreadStep

\* A step that makes no row running and stops no tracker.
LEMMA TrackedMove ==
  ASSUME Base, RunningIsTracked, up' => up, trk' = trk,
         \A i \in Items : row'[i].st = "running" => row[i].st = "running"
  PROVE  RunningIsTracked'
BY DEF RunningIsTracked

\* The new tracker of a row takes no tracker from another row.
LEMMA NewTracker ==
  ASSUME Base, NEW i \in Items, StartTracker(i)
  PROVE  /\ \E k \in Trackers : trk'[k].item = i
         /\ \A j \in Items : (\E k \in Trackers : trk[k].item = j)
                                => \E k \in Trackers : trk'[k].item = j
<1>1. trk \in [Trackers -> TrackerStates]
  BY DEF Base, TypeOK
<1>2. PICK k \in Trackers :
        /\ trk[k] = NoTracker
        /\ trk' = [trk EXCEPT ![k] = [pc |-> "poll", item |-> i, to |-> "none",
                                      read |-> NoRow]]
  BY DEF StartTracker
<1>3. trk'[k].item = i
  BY <1>1, <1>2
<1>4. ASSUME NEW j \in Items, NEW m \in Trackers, trk[m].item = j
      PROVE  \E l \in Trackers : trk'[l].item = j
  <2>1. m # k
    BY <1>2, <1>4, ThreadsAreDistinct DEF NoTracker
  <2> QED BY <1>1, <1>2, <1>4, <2>1
<1> QED BY <1>3, <1>4

\* Every step keeps RunningIsTracked.
LEMMA TrackedNext ==
  ASSUME Base, Owned, RunningIsTracked, [Next]_vars PROVE RunningIsTracked'
<1>0. /\ row \in [Items -> Rows \cup {NoRow}] /\ epoch \in Nat
      /\ trk \in [Trackers -> TrackerStates]
  BY DEF Base, TypeOK
<1>1. ASSUME NEW t \in Threads, RequestStep(t)
      PROVE  RunningIsTracked'
  <2>1. \A i \in Items : row'[i].st = "running" => row[i].st = "running"
    BY <1>0, <1>1, RequestDoes DEF FreshRow
  <2> QED BY <1>1, <2>1, RequestDoes, TrackedMove
<1>2. ASSUME NEW t \in Threads, DispatchStep(t) \/ ReconcileStep(t) \/ ReadRow(t)
      PROVE  RunningIsTracked'
  <2>1. row' = row /\ trk' = trk /\ up' = up
    BY <1>2, DispatchDoes, ReconcileDoes, ReadDoes
  <2> QED BY <2>1, TrackedMove
<1>3. ASSUME NEW t \in Threads, NEW pc \in Writing, Write(t, pc)
      PROVE  RunningIsTracked'
  <2>1. /\ up' = up /\ th[t].item \in Items /\ up
        /\ row' = [row EXCEPT ![th[t].item] = Written(th[t].read, th[t].to, OwnerOf(pc))]
        /\ Written(th[t].read, th[t].to, OwnerOf(pc)).st = th[t].to
        /\ th[t].to = "running" => StartTracker(th[t].item)
        /\ th[t].to # "running" => trk' = trk
    BY <1>3, WriteDoes, WrittenIsRow
  <2>2. CASE th[t].to # "running"
    <3>1. \A i \in Items : row'[i].st = "running" => row[i].st = "running"
      BY <1>0, <2>1, <2>2
    <3> QED BY <2>1, <2>2, <3>1, TrackedMove
  <2>3. CASE th[t].to = "running"
    <3>1. ASSUME NEW i \in Items, row'[i].st = "running"
          PROVE  \E k \in Trackers : trk'[k].item = i
      <4>1. CASE i = th[t].item
        BY <2>1, <2>3, <4>1, NewTracker
      <4>2. CASE i # th[t].item
        <5>1. row'[i] = row[i]
          BY <1>0, <2>1, <4>2
        <5>2. \E k \in Trackers : trk[k].item = i
          BY <2>1, <3>1, <5>1 DEF RunningIsTracked
        <5> QED BY <2>1, <2>3, <5>2, NewTracker
      <4> QED BY <4>1, <4>2
    <3> QED BY <3>1 DEF RunningIsTracked
  <2> QED BY <2>2, <2>3
<1>4. ASSUME NEW t \in Threads, TransitionStep(t)
      PROVE  RunningIsTracked'
  <2>1. ReadRow(t) \/ \E pc \in Writing : Write(t, pc)
    BY <1>4, CallersDo DEF Writing
  <2> QED BY <1>2, <1>3, <2>1
<1>5. CASE Start
  BY <1>5, NothingActiveAtStart DEF RunningIsTracked, Active
<1>6. CASE Crash
  BY <1>6 DEF Crash, RunningIsTracked
<1>7. CASE Sweep
  BY <1>7, SweepDoes, TrackedMove
<1>8. ASSUME NEW i \in Items, Age(i)
      PROVE  RunningIsTracked'
  BY <1>8, AgeKeepsStates, TrackedMove DEF Age
<1>9. ASSUME NEW k \in Trackers, TrackerStep(k)
      PROVE  RunningIsTracked'
  <2>1. up' = up /\ trk[k].item \in Items
    BY <1>9 DEF Base, TrackerShape, TrackerStep, TurnOver, PollFault, LeaseLost, TrackerRead,
                TrackerWrite, process
  <2>2. CASE row' = row /\ (\A m \in Trackers : trk'[m].item = trk[m].item)
    BY <2>1, <2>2 DEF RunningIsTracked
  <2>3. ASSUME NEW to, TrackerGoes(k, "read", to)
        PROVE  \A m \in Trackers : trk'[m].item = trk[m].item
    BY <1>0, <2>3 DEF TrackerGoes, TrackerStates
  <2>4. ASSUME row'[trk[k].item].st # "running", trk' = [trk EXCEPT ![k] = NoTracker],
               \A i \in Items \ {trk[k].item} : row'[i] = row[i]
        PROVE  RunningIsTracked'
    <3>1. ASSUME NEW i \in Items, up, row'[i].st = "running"
          PROVE  \E m \in Trackers : trk'[m].item = i
      <4>1. i # trk[k].item /\ row[i].st = "running"
        BY <2>4, <3>1
      <4>2. PICK m \in Trackers : trk[m].item = i
        BY <3>1, <4>1 DEF RunningIsTracked
      <4> QED BY <1>0, <2>4, <4>1, <4>2
    <3> QED BY <2>1, <3>1 DEF RunningIsTracked
  <2>5. CASE TurnOver(k) \/ PollFault(k) \/ LeaseLost(k)
    BY <2>2, <2>3, <2>5 DEF TurnOver, PollFault, LeaseLost, ledger
  <2>6. CASE TrackerRead(k)
    <3>1. row' = row /\ trk[k].to \in {"completed", "uncertain"}
      BY <2>6 DEF TrackerRead, ledger, Base, TrackerShape
    <3>2. CASE trk' = [trk EXCEPT ![k] = [@ EXCEPT !.pc = "write",
                                                   !.read = row[trk[k].item]]]
      <4>1. \A m \in Trackers : trk'[m].item = trk[m].item
        BY <1>0, <3>2 DEF TrackerStates
      <4> QED BY <2>2, <3>1, <4>1
    <3>3. CASE TrackerGoes(k, "read", "uncertain")
      BY <2>2, <2>3, <3>1, <3>3
    <3>4. CASE /\ ~Legal(row[trk[k].item].st, trk[k].to, epoch) /\ trk[k].to # "completed"
               /\ trk' = [trk EXCEPT ![k] = NoTracker]
      <4>1. row[trk[k].item].st # "running"
        BY <3>1, <3>4, ActiveRowsMove
      <4> QED BY <2>4, <3>1, <3>4, <4>1
    <3> QED BY <2>6, <3>2, <3>3, <3>4 DEF TrackerRead
  <2>7. CASE TrackerWrite(k)
    <3>1. trk[k].read \in Rows /\ trk[k].to \in WorkStates \ Active
      BY <2>7 DEF TrackerWrite, Base, TrackerShape, WorkStates, Active, Terminal
    <3>2. Written(trk[k].read, trk[k].to, epoch).st # "running"
      BY <1>0, <3>1, WrittenIsRow DEF Active
    <3> QED BY <1>0, <2>1, <2>4, <2>7, <3>2 DEF TrackerWrite
  <2> QED BY <1>9, <2>5, <2>6, <2>7 DEF TrackerStep
<1>10. CASE UNCHANGED vars
  BY <1>10, TrackedMove DEF vars
<1> QED BY <1>1, <1>2, <1>4, <1>5, <1>6, <1>7, <1>8, <1>9, <1>10 DEF Next, ThreadStep

-----------------------------------------------------------------------------
(***************************************************************************)
(* After a drain one claim at most is still on its way.                    *)
(***************************************************************************)
\* A step that claims nothing and brings no thread to its claim.
LEMMA LateMove ==
  ASSUME Base, LateClaims, NEW t \in Threads, OthersStay(t), UNCHANGED <<drain, late>>,
         th'[t].pc = "claim" => th[t].pc = "claim"
  PROVE  LateClaims'
BY DEF Base, TypeOK, LateClaims, OthersStay

\* Every step keeps LateClaims.
LEMMA LateNext == ASSUME Base, Locking, LateClaims, [Next]_vars PROVE LateClaims'
<1>0. late \in Nat
  BY DEF Base, TypeOK
<1>1. ASSUME NEW t \in Threads, RequestStep(t)
      PROVE  LateClaims'
  <2>1. OthersStay(t) /\ th'[t].pc # "claim"
    BY <1>1, RequestDoes DEF RequestPCs
  <2>2. CASE UNCHANGED <<drain, late>>
    BY <2>1, <2>2, LateMove
  <2>3. CASE (drain' = "off" /\ late' = 0) \/ (drain' # "off" /\ late' = late)
    BY <1>0, <2>1, <2>3 DEF LateClaims, OthersStay
  <2> QED BY <1>1, <2>2, <2>3, RequestDoes
<1>2. ASSUME NEW t \in Threads, DispatchStep(t)
      PROVE  LateClaims'
  <2>1. UNCHANGED <<drain, late>> /\ OthersStay(t) /\ (th'[t].pc = "claim" => drain = "off")
    BY <1>2, DispatchDoes DEF At, Gone, Back, Idle
  <2> QED BY <1>0, <2>1 DEF LateClaims, OthersStay
<1>3. ASSUME NEW t \in Threads, ReconcileStep(t)
      PROVE  LateClaims'
  <2>1. UNCHANGED <<drain, late>> /\ OthersStay(t) /\ th'[t].pc # "claim"
    BY <1>3, ReconcileDoes
  <2> QED BY <2>1, LateMove
<1>4. ASSUME NEW t \in Threads, ReadRow(t)
      PROVE  LateClaims'
  <2>1. /\ UNCHANGED <<drain, late>> /\ OthersStay(t)
        /\ th'[t].pc = "claim" => th[t].pc = "claim"
    BY <1>4, ReadDoes DEF At, Gone, Idle
  <2> QED BY <2>1, LateMove
<1>5. ASSUME NEW t \in Threads, Write(t, "claim"), At(t, "call", th[t].item)
      PROVE  LateClaims'
  <2>1. /\ drain' = drain /\ th[t].pc = "claim"
        /\ late' = IF drain # "off" THEN late + 1 ELSE late
    BY <1>5, WriteDoes DEF Writing
  <2>2. late = 0
    BY <1>0, <2>1 DEF LateClaims
  <2>3. ASSUME NEW u \in Threads
        PROVE  th'[u].pc # "claim"
    BY <1>5, <2>1 DEF Locking, At, OthersStay
  <2> QED BY <1>0, <2>1, <2>2, <2>3 DEF LateClaims
<1>6. ASSUME NEW t \in Threads, TransitionStep(t)
      PROVE  LateClaims'
  <2>1. CASE ReadRow(t)
    BY <1>4, <2>1
  <2>2. CASE Write(t, "claim") /\ At(t, "call", th[t].item)
    BY <1>5, <2>2
  <2>3. ASSUME NEW pc \in Writing \ {"claim"}, Write(t, pc), OthersStay(t),
               th'[t].pc # "claim"
        PROVE  LateClaims'
    BY <2>3, WriteDoes, LateMove
  <2>4. \/ ReadRow(t) \/ (Write(t, "claim") /\ At(t, "call", th[t].item))
        \/ \E pc \in Writing \ {"claim"} : Write(t, pc) /\ OthersStay(t) /\ th'[t].pc # "claim"
    BY <1>6, CallersDo DEF At, Gone, Back, Idle, Writing
  <2> QED BY <2>1, <2>2, <2>3, <2>4
<1>7. CASE Start
  BY <1>0, <1>7, ProcessDoes DEF Start, LateClaims
<1>8. CASE Crash
  BY <1>0, <1>8, ProcessDoes DEF Crash, LateClaims, pause
<1>9. CASE Sweep
  BY <1>9, SweepDoes, LateMove
<1>10. ASSUME UNCHANGED <<th, drain, late>>
       PROVE  LateClaims'
  BY <1>10 DEF LateClaims
<1>11. ASSUME NEW i \in Items, Age(i)
       PROVE  LateClaims'
  BY <1>10, <1>11 DEF Age, pause
<1>12. ASSUME NEW k \in Trackers, TrackerStep(k)
       PROVE  LateClaims'
  BY <1>10, <1>12 DEF TrackerStep, TurnOver, PollFault, LeaseLost, TrackerRead, TrackerWrite, pause
<1>13. CASE UNCHANGED vars
  BY <1>10, <1>13 DEF vars
<1> QED BY <1>1, <1>2, <1>3, <1>6, <1>7, <1>8, <1>9, <1>11, <1>12, <1>13 DEF Next, ThreadStep

-----------------------------------------------------------------------------
(***************************************************************************)
(* Permits: what may still call an engine is counted.                      *)
(***************************************************************************)
\* There are finitely many threads to count.
LEMMA CallingIsFinite ==
  ASSUME NEW i
  PROVE  /\ IsFiniteSet(Calling(i)) /\ Cardinality(Calling(i)) \in Nat
         /\ IsFiniteSet(Calling(i)') /\ Cardinality(Calling(i)') \in Nat
<1>1. IsFiniteSet(Threads)
  <2>1. IsFiniteSet({Starter}) /\ IsFiniteSet({Starter} \cup {Sweeper})
    BY FS_Singleton, FS_AddElement
  <2> QED BY <2>1, FiniteThreads, FS_Union DEF Threads
<1>2. Calling(i) \in SUBSET Threads /\ Calling(i)' \in SUBSET Threads
  BY DEF Calling
<1> QED BY <1>1, <1>2, FS_Subset, FS_CardinalityType

\* At most one permission waits in the queue.
LEMMA WaitingIsOne ==
  ASSUME NEW i
  PROVE  Waiting(i) \in {0, 1} /\ Waiting(i)' \in {0, 1}
BY DEF Waiting

\* A permission is only ever spent where it is, or newly granted.
LEMMA PermitKept ==
  ASSUME Base, Permits, NEW i \in Items, calls'[i] = calls[i],
         Calling(i)' \subseteq Calling(i),
         \/ Waiting(i)' <= Waiting(i) /\ grants'[i] = grants[i]
         \/ grants'[i] = grants[i] + 1
  PROVE  Permit(i)'
<1>1. calls[i] \in Nat /\ grants[i] \in Nat
  BY DEF Base, TypeOK
<1>2. Cardinality(Calling(i)') <= Cardinality(Calling(i))
  BY CallingIsFinite, FS_Subset
<1>3. calls[i] + Cardinality(Calling(i)) + Waiting(i) <= grants[i]
  BY DEF Permits, Permit
<1>4. calls'[i] + Cardinality(Calling(i)') + Waiting(i)' <= grants'[i]
  BY <1>1, <1>2, <1>3, CallingIsFinite, WaitingIsOne
<1> QED BY <1>4 DEF Permit

\* A step of thread t that gets no permission it did not have: it comes to
\* "call" from nowhere, and to a claim only for a queued row.
LEMMA PermitsMove ==
  ASSUME Base, Permits, NEW t \in Threads, OthersStay(t), UNCHANGED <<calls, grants>>,
         th'[t].pc # "call" \/ (th[t].pc = "call" /\ th'[t].item = th[t].item),
         \/ th'[t].pc \notin {"recheck", "claim"}
         \/ th[t].pc \in {"recheck", "claim"} /\ th'[t].item = th[t].item
         \/ row[th'[t].item].st = "queued",
         \A i \in Items : row'[i].st = "queued" => row[i].st = "queued"
  PROVE  Permits'
<1>1. ASSUME NEW i \in Items
      PROVE  Permit(i)'
  <2>1. Calling(i)' \subseteq Calling(i)
    BY DEF Calling, OthersStay
  <2>2. Claimant(i)' => Claimant(i) \/ row[i].st = "queued"
    BY DEF Claimant, OthersStay
  <2>3. Waiting(i)' <= Waiting(i)
    BY <2>2 DEF Waiting
  <2> QED BY <2>1, <2>3, PermitKept
<1> QED BY <1>1 DEF Permits

\* The claim hands the permission from the queue to the calling thread: the
\* lock leaves no second thread at its claim.
LEMMA PermitsClaim ==
  ASSUME Base, Locking, Permits, NEW t \in Threads, Write(t, "claim"),
         At(t, "call", th[t].item)
  PROVE  Permits'
<1> DEFINE j == th[t].item
<1>1. /\ th[t].pc = "claim" /\ j \in Items /\ calls' = calls
      /\ row' = [row EXCEPT ![j] = Written(th[t].read, th[t].to, OwnerOf("claim"))]
      /\ th[t].read \in Rows /\ th[t].to = "dispatching" /\ OwnerOf("claim") \in Nat
      /\ grants' = grants
  BY WriteDoes DEF Writing
<1>2. row \in [Items -> Rows \cup {NoRow}] /\ "dispatching" \in WorkStates
  BY DEF Base, TypeOK, WorkStates, Active
<1>3. row'[j].st = "dispatching"
  BY <1>1, <1>2, WrittenIsRow
<1>4. ASSUME NEW u \in Threads
      PROVE  th'[u].pc \notin {"recheck", "claim"}
  BY <1>1 DEF Locking, At, OthersStay
<1>5. ASSUME NEW i \in Items
      PROVE  Permit(i)'
  <2>1. CASE i = j
    <3>1. Waiting(i)' = 0
      BY <1>3, <1>4, <2>1 DEF Waiting, Claimant
    <3>2. Waiting(i) = 1
      BY <1>1, <2>1 DEF Waiting, Claimant
    <3>3. Calling(i)' = Calling(i) \cup {t} /\ t \notin Calling(i)
      BY <1>1, <2>1 DEF Calling, At, OthersStay
    <3>4. Cardinality(Calling(i)') = Cardinality(Calling(i)) + 1
      BY <3>3, CallingIsFinite, FS_AddElement
    <3>5. calls[i] + Cardinality(Calling(i)) + Waiting(i) <= grants[i]
      BY DEF Permits, Permit
    <3>6. calls[i] \in Nat /\ grants[i] \in Nat
      BY DEF Base, TypeOK
    <3>7. calls'[i] + Cardinality(Calling(i)') + Waiting(i)' <= grants'[i]
      BY <1>1, <3>1, <3>2, <3>4, <3>5, <3>6, CallingIsFinite
    <3> QED BY <3>7 DEF Permit
  <2>2. CASE i # j
    <3>1. Calling(i)' \subseteq Calling(i)
      BY <2>2 DEF Calling, At, OthersStay
    <3>2. row'[i] = row[i] /\ ~Claimant(i)'
      BY <1>1, <1>2, <1>4, <2>2 DEF Claimant
    <3>3. Waiting(i)' <= Waiting(i)
      BY <3>2 DEF Waiting
    <3> QED BY <1>1, <3>1, <3>3, PermitKept
  <2> QED BY <2>1, <2>2
<1> QED BY <1>5 DEF Permits

\* The call uses the permission up.
LEMMA PermitsCall ==
  ASSUME Base, Permits, NEW t \in Threads, th[t].pc = "call", At(t, "settle", th[t].item),
         calls' = [calls EXCEPT ![th[t].item] = @ + 1], UNCHANGED <<row, grants>>
  PROVE  Permits'
<1> DEFINE j == th[t].item
<1>1. j \in Items /\ calls \in [Items -> Nat] /\ grants \in [Items -> Nat]
  BY DEF Base, TypeOK, ThreadShape, WellFormed, OnItem
<1>2. ASSUME NEW i \in Items
      PROVE  Waiting(i)' <= Waiting(i)
  <2>1. Claimant(i)' => Claimant(i)
    BY DEF Claimant, At, OthersStay
  <2> QED BY <2>1 DEF Waiting
<1>3. ASSUME NEW i \in Items
      PROVE  Permit(i)'
  <2>1. CASE i = j
    <3>1. Calling(i)' = Calling(i) \ {t} /\ t \in Calling(i)
      BY <2>1 DEF Calling, At, OthersStay
    <3>2. Cardinality(Calling(i)') = Cardinality(Calling(i)) - 1
      BY <3>1, CallingIsFinite, FS_RemoveElement
    <3>3. calls[i] + Cardinality(Calling(i)) + Waiting(i) <= grants[i]
      BY DEF Permits, Permit
    <3>4. calls'[i] = calls[i] + 1
      BY <1>1, <2>1
    <3>5. calls'[i] + Cardinality(Calling(i)') + Waiting(i)' <= grants'[i]
      BY <1>1, <1>2, <3>2, <3>3, <3>4, CallingIsFinite, WaitingIsOne
    <3> QED BY <3>5 DEF Permit
  <2>2. CASE i # j
    <3>1. Calling(i)' \subseteq Calling(i)
      BY <2>2 DEF Calling, At, OthersStay
    <3> QED BY <1>1, <1>2, <2>2, <3>1, PermitKept
  <2> QED BY <2>1, <2>2
<1> QED BY <1>3 DEF Permits

\* Any other UPDATE: a row put back in the queue comes with a new permission.
LEMMA PermitsWrite ==
  ASSUME Base, Permits, NEW t \in Threads, NEW pc \in Writing, Write(t, pc), pc # "claim",
         OthersStay(t), th'[t].pc \notin {"call", "recheck", "claim"}
  PROVE  Permits'
<1> DEFINE j == th[t].item
           w == Written(th[t].read, th[t].to, OwnerOf(pc))
<1>1. /\ th[t].pc = pc /\ j \in Items /\ calls' = calls /\ row' = [row EXCEPT ![j] = w]
      /\ w.st = th[t].to
      /\ th[t].to # "queued" => grants' = grants
      /\ th[t].to = "queued" => grants' = [grants EXCEPT ![j] = @ + 1]
  BY WriteDoes, WrittenIsRow
<1>2. row \in [Items -> Rows \cup {NoRow}] /\ grants \in [Items -> Nat]
  BY DEF Base, TypeOK
<1>3. ASSUME NEW i \in Items
      PROVE  Permit(i)'
  <2>1. Calling(i)' \subseteq Calling(i)
    BY DEF Calling, OthersStay
  <2>2. Claimant(i)' => Claimant(i)
    BY DEF Claimant, OthersStay
  <2>3. CASE i = j /\ th[t].to = "queued"
    BY <1>1, <1>2, <2>1, <2>3, PermitKept
  <2>4. CASE i # j \/ th[t].to # "queued"
    <3>1. row'[i].st = "queued" => row[i].st = "queued"
      BY <1>1, <1>2, <2>4
    <3>2. Waiting(i)' <= Waiting(i)
      BY <2>2, <3>1 DEF Waiting
    <3>3. grants'[i] = grants[i]
      BY <1>1, <1>2, <2>4
    <3> QED BY <1>1, <2>1, <3>2, <3>3, PermitKept
  <2> QED BY <2>3, <2>4
<1> QED BY <1>3 DEF Permits

\* A new row comes with its first permission.
LEMMA PermitsInsert ==
  ASSUME Base, Permits, NEW t \in Threads, OthersStay(t), calls' = calls,
         th'[t].pc \notin {"call", "recheck", "claim"}, NEW j \in Items,
         row' = [row EXCEPT ![j] = FreshRow], grants' = [grants EXCEPT ![j] = @ + 1]
  PROVE  Permits'
<1>1. row \in [Items -> Rows \cup {NoRow}] /\ grants \in [Items -> Nat]
  BY DEF Base, TypeOK
<1>2. ASSUME NEW i \in Items
      PROVE  Permit(i)'
  <2>1. Calling(i)' \subseteq Calling(i)
    BY DEF Calling, OthersStay
  <2>2. CASE i = j
    BY <1>1, <2>1, <2>2, PermitKept
  <2>3. CASE i # j
    <3>1. row'[i] = row[i] /\ grants'[i] = grants[i]
      BY <1>1, <2>3
    <3>2. Claimant(i)' => Claimant(i)
      BY DEF Claimant, OthersStay
    <3>3. Waiting(i)' <= Waiting(i)
      BY <3>1, <3>2 DEF Waiting
    <3> QED BY <2>1, <3>1, <3>3, PermitKept
  <2> QED BY <2>2, <2>3
<1> QED BY <1>2 DEF Permits

\* A step that leaves every thread where it was, or nowhere near a call.
LEMMA PermitsRest ==
  ASSUME Base, Permits, UNCHANGED <<calls, grants>>,
         \A t \in Threads : th'[t] = th[t] \/ th'[t].pc \in {"idle", "survey"},
         \A i \in Items : row'[i].st = "queued" => row[i].st = "queued"
  PROVE  Permits'
<1>1. ASSUME NEW i \in Items
      PROVE  Permit(i)'
  <2>1. Calling(i)' \subseteq Calling(i)
    BY DEF Calling
  <2>2. Claimant(i)' => Claimant(i)
    BY DEF Claimant
  <2>3. Waiting(i)' <= Waiting(i)
    BY <2>2 DEF Waiting
  <2> QED BY <2>1, <2>3, PermitKept
<1> QED BY <1>1 DEF Permits

\* Every step keeps Permits.
LEMMA PermitsNext == ASSUME Base, Locking, Permits, [Next]_vars PROVE Permits'
<1>0. row \in [Items -> Rows \cup {NoRow}] /\ epoch \in Nat
  BY DEF Base, TypeOK
<1>1. ASSUME NEW t \in Threads, RequestStep(t)
      PROVE  Permits'
  <2>1. OthersStay(t) /\ calls' = calls /\ th'[t].pc \notin {"call", "recheck", "claim"}
    BY <1>1, RequestDoes DEF RequestPCs
  <2>2. CASE UNCHANGED <<row, grants>>
    BY <2>1, <2>2, PermitsMove
  <2> QED BY <1>1, <2>1, <2>2, RequestDoes, PermitsInsert
<1>2. ASSUME NEW t \in Threads, DispatchStep(t)
      PROVE  Permits'
  <2>1. UNCHANGED <<row, grants>>
    BY <1>2, DispatchDoes
  <2>2. CASE /\ th[t].pc = "call" /\ At(t, "settle", th[t].item)
             /\ calls' = [calls EXCEPT ![th[t].item] = @ + 1]
    BY <2>1, <2>2, PermitsCall
  <2>3. CASE /\ calls' = calls /\ OthersStay(t) /\ th'[t].pc # "call"
             /\ \/ th'[t].pc \notin {"recheck", "claim"}
                \/ th[t].pc \in {"recheck", "claim"} /\ th'[t].item = th[t].item
                \/ row[th'[t].item].st = "queued"
    BY <2>1, <2>3, PermitsMove
  <2> QED BY <1>2, <2>2, <2>3, DispatchDoes DEF At, Gone, Back, Idle
<1>3. ASSUME NEW t \in Threads, ReconcileStep(t)
      PROVE  Permits'
  <2>1. /\ OthersStay(t) /\ UNCHANGED <<calls, grants, row>>
        /\ th'[t].pc \notin {"call", "recheck", "claim"}
    BY <1>3, ReconcileDoes
  <2> QED BY <2>1, PermitsMove
<1>4. ASSUME NEW t \in Threads, ReadRow(t)
      PROVE  Permits'
  <2>1. /\ OthersStay(t) /\ UNCHANGED <<calls, grants, row>> /\ th'[t].pc # "call"
        /\ \/ th'[t].pc \notin {"recheck", "claim"}
           \/ th'[t].pc = th[t].pc /\ th'[t].item = th[t].item
    BY <1>4, ReadDoes DEF At, Gone, Idle, Writing
  <2> QED BY <2>1, PermitsMove
<1>5. ASSUME NEW t \in Threads, TransitionStep(t)
      PROVE  Permits'
  <2>1. CASE Write(t, "claim") /\ At(t, "call", th[t].item)
    BY <2>1, PermitsClaim
  <2>2. \/ ReadRow(t) \/ (Write(t, "claim") /\ At(t, "call", th[t].item))
        \/ \E pc \in Writing \ {"claim"} :
             Write(t, pc) /\ OthersStay(t) /\ th'[t].pc \notin {"call", "recheck", "claim"}
    BY <1>5, CallersDo DEF At, Gone, Back, Idle, Writing
  <2> QED BY <1>4, <2>1, <2>2, PermitsWrite
<1>6. CASE Start
  <2>1. ASSUME NEW i \in Items, row'[i].st = "queued"
        PROVE  row[i].st = "queued"
    <3>1. row'[i] = Recovered(row[i], epoch') /\ epoch' \in Nat
      BY <1>0, <1>6 DEF Start
    <3> QED BY <1>0, <2>1, <3>1, RecoveredFacts
  <2>2. UNCHANGED <<calls, grants>>
    BY <1>6 DEF Start
  <2> QED BY <1>6, <2>1, <2>2, ProcessDoes, PermitsRest
<1>7. CASE Crash
  BY <1>7, ProcessDoes, PermitsRest DEF Crash
<1>8. CASE Sweep
  <2>1. /\ \A t \in Threads : th'[t] = th[t] \/ th'[t].pc \in {"idle", "survey"}
        /\ UNCHANGED <<row, calls, grants>>
    BY <1>8, SweepDoes DEF OthersStay
  <2> QED BY <2>1, PermitsRest
<1>9. ASSUME NEW i \in Items, Age(i)
      PROVE  Permits'
  BY <1>9, AgeKeepsStates, PermitsRest DEF Age
<1>10. ASSUME NEW k \in Trackers, TrackerStep(k)
       PROVE  Permits'
  <2>1. UNCHANGED <<th, calls, grants>>
    BY <1>10 DEF TrackerStep, TurnOver, PollFault, LeaseLost, TrackerRead, TrackerWrite, ledger
  <2>2. CASE row' = row
    BY <2>1, <2>2, PermitsRest
  <2>3. CASE TrackerWrite(k)
    <3>1. trk[k].read \in Rows /\ trk[k].to \in WorkStates \ {"queued"}
      BY <2>3 DEF TrackerWrite, Base, TrackerShape, WorkStates, Active, Terminal
    <3>2. Written(trk[k].read, trk[k].to, epoch).st # "queued"
      BY <1>0, <3>1, WrittenIsRow
    <3>3. \A i \in Items : row'[i].st = "queued" => row[i].st = "queued"
      BY <1>0, <2>3, <3>2 DEF TrackerWrite
    <3> QED BY <2>1, <3>3, PermitsRest
  <2> QED BY <1>10, <2>2, <2>3 DEF TrackerStep, TurnOver, PollFault, LeaseLost, TrackerRead, ledger
<1>11. CASE UNCHANGED vars
  BY <1>11, PermitsRest DEF vars
<1> QED BY <1>1, <1>2, <1>3, <1>5, <1>6, <1>7, <1>8, <1>9, <1>10, <1>11 DEF Next, ThreadStep

-----------------------------------------------------------------------------
(***************************************************************************)
(* The invariant and what follows from it.                                 *)
(***************************************************************************)
\* It holds initially: nobody runs and nothing has a row.
LEMMA InvInit == ASSUME Init PROVE IInv
<1>1. Base
  BY BaseInit
<1>2. Locking /\ LateClaims
  BY DEF Init, Locking, Replaying, LateClaims, Idle
<1>3. Permits
  <2>1. ASSUME NEW i \in Items
        PROVE  Permit(i)
    <3>1. Calling(i) = {} /\ ~Claimant(i) /\ row[i].st # "queued"
      BY DEF Init, Calling, Claimant, Idle, NoRow
    <3>2. Waiting(i) = 0 /\ Cardinality(Calling(i)) = 0
      BY <3>1, FS_EmptySet DEF Waiting
    <3> QED BY <3>2 DEF Init, Permit
  <2> QED BY <2>1 DEF Permits
<1>4. Owners /\ ActiveIsOwned
  BY NoRowIsNoRow DEF Init, Owners, ActiveIsOwned, Idle
<1>5. RunningIsTracked /\ DispatchingIsHeld
  BY DEF Init, RunningIsTracked, DispatchingIsHeld
<1> QED BY <1>1, <1>2, <1>3, <1>4, <1>5 DEF IInv

\* The invariant is inductive, so it holds throughout.
THEOREM InvHolds == Spec => []IInv
<1>1. Init => IInv
  BY InvInit
<1>2. IInv /\ [Next]_vars => IInv'
  BY BaseNext, LockingNext, OwnedNext, HeldNext, TrackedNext, LateNext, PermitsNext
     DEF IInv, Owned
<1> QED BY <1>1, <1>2, PTL DEF Spec

\* Whatever crashes, restarts, replays, drains and sweeps come in between and
\* however many threads race, an engine is called for a key at most once per
\* time it was put in the queue.
THEOREM NeverBlindlyReplayed == Spec => []NoBlindReplay
<1>1. IInv => NoBlindReplay
  <2> SUFFICES ASSUME IInv, NEW i \in Items
               PROVE  calls[i] <= grants[i]
    BY DEF NoBlindReplay
  <2>1. calls[i] \in Nat /\ grants[i] \in Nat
    BY DEF IInv, Base, TypeOK
  <2>2. calls[i] + Cardinality(Calling(i)) + Waiting(i) <= grants[i]
    BY DEF IInv, Permits, Permit
  <2> QED BY <2>1, <2>2, CallingIsFinite, WaitingIsOne
<1> QED BY <1>1, InvHolds, PTL

\* After drain.set has returned one item at most is still claimed, however
\* many requests wait for the dispatch lock.
THEOREM DrainLetsOneThrough == Spec => []OneLateClaim
<1>1. IInv => OneLateClaim
  BY DEF IInv, LateClaims, OneLateClaim
<1> QED BY <1>1, InvHolds, PTL

\* No running row is without a tracker while a worker serves.
THEOREM RunningHasTracker == Spec => []RunningIsTracked
<1>1. IInv => RunningIsTracked
  BY DEF IInv
<1> QED BY <1>1, InvHolds, PTL

\* No dispatching row is without the thread that calls the engine for it.
THEOREM DispatchingHasThread == Spec => []DispatchingIsHeld
<1>1. IInv => DispatchingIsHeld
  BY DEF IInv
<1> QED BY <1>1, InvHolds, PTL

\* Every active row carries the serving worker's epoch.
THEOREM ActiveHasOwner == Spec => []ActiveIsOwned
<1>1. IInv => ActiveIsOwned
  BY DEF IInv
<1> QED BY <1>1, InvHolds, PTL

-----------------------------------------------------------------------------
(***************************************************************************)
(* Nothing is stranded in the queue while no two reconcile passes overlap  *)
(* and nobody edits work by hand, whatever crashes and restarts come in    *)
(* between.                                                                *)
(***************************************************************************)
\* Thread t is at pc for item i with the list L, under the same job.
Moved(t, pc, i, L) ==
  /\ OthersStay(t) /\ th'[t].pc = pc /\ th'[t].item = i /\ th'[t].todo = L
  /\ th'[t].job = th[t].job

\* What the operators that move a thread do to its list.
LEMMA ListMoves ==
  ASSUME ThreadTable, NEW t \in Threads, NEW pc
  PROVE  /\ Goto(t, pc) => Moved(t, pc, th[t].item, th[t].todo)
         /\ LoopAt(t, pc) => Moved(t, pc, NoItem, th[t].todo)
         /\ \A i, to : GotoWith(t, pc, i, to) => Moved(t, pc, i, th[t].todo)
         /\ \A S : Listing(t, pc, S) => Moved(t, pc, th[t].item, S)
         /\ \A i, j, to : Picking(t, pc, i, j, to) => Moved(t, pc, j, th[t].todo \ {i})
<1>1. Goto(t, pc) => Moved(t, pc, th[t].item, th[t].todo)
  BY DEF ThreadTable, ThreadStates, OthersStay, Moved, Goto
<1>2. LoopAt(t, pc) => Moved(t, pc, NoItem, th[t].todo)
  BY DEF ThreadTable, ThreadStates, OthersStay, Moved, LoopAt
<1>3. ASSUME NEW i, NEW to, GotoWith(t, pc, i, to)
      PROVE  Moved(t, pc, i, th[t].todo)
  BY <1>3 DEF ThreadTable, ThreadStates, OthersStay, Moved, GotoWith
<1>4. ASSUME NEW S, Listing(t, pc, S)
      PROVE  Moved(t, pc, th[t].item, S)
  BY <1>4 DEF ThreadTable, ThreadStates, OthersStay, Moved, Listing
<1>5. ASSUME NEW i, NEW j, NEW to, Picking(t, pc, i, j, to)
      PROVE  Moved(t, pc, j, th[t].todo \ {i})
  BY <1>5 DEF ThreadTable, ThreadStates, OthersStay, Moved, Picking
<1> QED BY <1>1, <1>2, <1>3, <1>4, <1>5

\* Nobody relies on a row whose state is none that a thread relies on, and
\* what one thread relies on no other does.
LEMMA ReliedOn ==
  ASSUME Base, QuietInv, OnePass, NEW t \in Threads, th[t].pc \in Relying
  PROVE  /\ th[t].item \in Items
         /\ row[th[t].item].st \in {"queued", "dispatching", "uncertain"}
         /\ \A u \in Threads \ {t} : th[u].pc \in Relying => th[u].item # th[t].item
         /\ \A u \in Threads \ {t} :
              th[u].pc \in Surveying \ {"survey"} => th[t].item \notin th[u].todo
<1>1. th[t].item \in Items
  BY DEF Base, ThreadShape, WellFormed, OnItem, Writing, Relying
<1>2. row[th[t].item].st \in {"queued", "dispatching", "uncertain"}
  BY DEF QuietInv, Undisturbed, Relying
<1>3. \A u \in Threads \ {t} : th[u].pc \in Relying => th[u].item # th[t].item
  BY DEF QuietInv, OneRelies
<1>4. ASSUME NEW u \in Threads \ {t}, th[u].pc \in Surveying \ {"survey"},
             th[t].item \in th[u].todo
      PROVE  FALSE
  <2>1. row[th[t].item].st = "uncertain"
    BY <1>4 DEF QuietInv, Undisturbed
  <2>2. th[t].pc \in {"reclaim", "retire"}
    BY <2>1 DEF QuietInv, Undisturbed, Relying
  <2> QED BY <1>4, <2>2 DEF OnePass, Surveying
<1> QED BY <1>1, <1>2, <1>3, <1>4

\* A step of thread t that changes no row and no tracker.
LEMMA QuietOfMove ==
  ASSUME Base, QuietInv, NEW t \in Threads, OthersStay(t),
         UNCHANGED <<row, trk, up, drain>>, Undisturbed(t)',
         th'[t].pc \in Relying =>
           \A u \in Threads \ {t} : th[u].pc \in Relying => th[u].item # th'[t].item,
         \A i \in Items : drain = "off" /\ row[i].st = "queued" /\ WillDispatch(t, i)
                            => WillDispatch(t, i)'
  PROVE  QuietInv'
<1>1. ASSUME NEW u \in Threads
      PROVE  Undisturbed(u)'
  <2>1. CASE u = t
    BY <2>1
  <2>2. CASE u # t
    <3>1. th'[u] = th[u] /\ Undisturbed(u)
      BY <2>2 DEF OthersStay, QuietInv
    <3> QED BY <3>1 DEF Undisturbed, Replaying
  <2> QED BY <2>1, <2>2
<1>2. OneRelies'
  BY DEF QuietInv, OneRelies, OthersStay
<1>3. TrackersAlone' /\ \A i \in Items : row'[i].st # "interrupted"
  BY DEF QuietInv, TrackersAlone
<1>4. Awake'
  <2> SUFFICES ASSUME Unsubmitted, up, drain = "off", NEW i \in Items, row[i].st = "queued"
               PROVE  \E u \in Threads : WillDispatch(u, i)'
    BY DEF Awake, Unsubmitted, NothingStranded
  <2>1. PICK u \in Threads : WillDispatch(u, i)
    BY DEF QuietInv, Awake, NothingStranded
  <2>2. CASE u = t
    BY <2>1, <2>2
  <2>3. CASE u # t
    <3>1. th'[u] = th[u]
      BY <2>3 DEF OthersStay
    <3>2. WillDispatch(u, i)'
      BY <2>1, <3>1 DEF WillDispatch, Replaying
    <3> QED BY <3>2
  <2> QED BY <2>2, <2>3
<1> QED BY <1>1, <1>2, <1>3, <1>4 DEF QuietInv

\* Returning from _dispatch_item keeps what a replay has still listed.
LEMMA ReturnedKeepsList ==
  ASSUME Base, NEW t \in Threads, Returned(t)
  PROVE  /\ OthersStay(t) /\ th'[t].pc \in {"next", "idle"}
         /\ \A i \in Items : i \in th[t].todo /\ Replaying(t) => WillDispatch(t, i)'
<1>0. ThreadTable
  BY DEF Base, TypeOK, ThreadTable
<1>1. CASE Replaying(t)
  <2>1. Moved(t, "next", NoItem, th[t].todo)
    BY <1>0, <1>1, ListMoves DEF Returned
  <2> QED BY <1>1, <2>1 DEF Moved, WillDispatch, Replaying
<1>2. CASE ~Replaying(t)
  BY <1>0, <1>2, DoneMoves DEF Returned, Idle
<1> QED BY <1>1, <1>2

\* The steps of _dispatch_item and of the replay loop.
LEMMA QuietDispatch ==
  ASSUME Base, Locking, QuietInv, OnePass, NEW t \in Threads, DispatchStep(t)
  PROVE  QuietInv'
<1>0. ThreadTable /\ UNCHANGED <<row, trk, up, drain>>
  BY DispatchDoes DEF Base, TypeOK, ThreadTable
<1>a. WellFormed(th[t]) /\ Undisturbed(t)
  BY DEF Base, ThreadShape, QuietInv
<1>b. ASSUME Done(t)
      PROVE  OthersStay(t) /\ Undisturbed(t)' /\ th'[t].pc \notin Relying
  <2>1. OthersStay(t) /\ th'[t].pc = "idle"
    BY <1>0, <1>b, DoneMoves DEF Idle
  <2> QED BY <2>1 DEF Undisturbed, Surveying, Relying
<1>c. ASSUME Returned(t)
      PROVE  OthersStay(t) /\ Undisturbed(t)' /\ th'[t].pc \notin Relying
  <2>1. OthersStay(t) /\ th'[t].pc \in {"next", "idle"}
    BY <1>c, ReturnedKeepsList
  <2> QED BY <2>1 DEF Undisturbed, Surveying, Relying
<1>d. ASSUME NEW pc \in {"take", "next"}, NEW i, NEW L, Moved(t, pc, i, L)
      PROVE  OthersStay(t) /\ Undisturbed(t)' /\ th'[t].pc \notin Relying
  BY <1>d DEF Moved, Undisturbed, Surveying, Relying
<1>1. CASE Deferral(t)
  <2>1. CASE drain # "off"
    BY <1>0, <1>1, <1>b, <2>1, QuietOfMove DEF Deferral
  <2>2. CASE drain = "off"
    <3>1. th[t].pc = "deferral" /\ Moved(t, "take", th[t].item, th[t].todo)
      BY <1>0, <1>1, <2>2, ListMoves DEF Deferral
    <3>2. \A i \in Items : WillDispatch(t, i) => WillDispatch(t, i)'
      BY <3>1 DEF Moved, WillDispatch, Replaying
    <3> QED BY <1>0, <1>d, <3>1, <3>2, QuietOfMove
  <2> QED BY <2>1, <2>2
<1>2. CASE Take(t)
  <2>1. CASE row[th[t].item].st = "queued"
    <3>1. /\ th[t].pc = "take" /\ Moved(t, "recheck", th[t].item, th[t].todo)
          /\ lock \in {NoThread, t}
      BY <1>0, <1>2, <2>1, ListMoves DEF Take
    <3>2. Undisturbed(t)'
      BY <1>0, <2>1, <3>1 DEF Moved, Undisturbed, Surveying
    <3>3. ASSUME NEW u \in Threads \ {t}, th[u].pc \in Relying
          PROVE  th[u].item # th'[t].item
      <4> SUFFICES ASSUME th[u].item = th[t].item
                   PROVE  FALSE
        BY <3>1 DEF Moved
      <4>1. th[u].pc \in {"recheck", "claim"}
        BY <2>1, <3>3 DEF QuietInv, Undisturbed, Relying
      <4>2. lock = u
        BY <4>1 DEF Locking
      <4> QED BY <3>1, <4>2, ThreadsAreDistinct
    <3>4. \A i \in Items : WillDispatch(t, i) => WillDispatch(t, i)'
      BY <3>1 DEF Moved, WillDispatch, Replaying
    <3> QED BY <1>0, <3>1, <3>2, <3>3, <3>4, QuietOfMove DEF Moved
  <2>2. CASE row[th[t].item].st # "queued"
    <3>1. th[t].pc = "take" /\ Returned(t)
      BY <1>2, <2>2 DEF Take
    <3>2. ASSUME NEW i \in Items, row[i].st = "queued", WillDispatch(t, i)
          PROVE  WillDispatch(t, i)'
      <4>1. i \in th[t].todo /\ Replaying(t)
        BY <2>2, <3>1, <3>2 DEF WillDispatch
      <4> QED BY <3>1, <4>1, ReturnedKeepsList
    <3> QED BY <1>0, <1>c, <3>1, <3>2, QuietOfMove
  <2> QED BY <2>1, <2>2
<1>3. CASE Recheck(t)
  <2>1. CASE drain # "off"
    BY <1>0, <1>3, <1>c, <2>1, QuietOfMove DEF Recheck
  <2>2. CASE drain = "off"
    <3>1. th[t].pc = "recheck" /\ Moved(t, "claim", th[t].item, th[t].todo)
      BY <1>0, <1>3, <2>2, ListMoves DEF Recheck
    <3>2. Undisturbed(t)'
      BY <1>0, <1>a, <3>1 DEF Moved, Undisturbed, Surveying
    <3>3. th[t].pc \in Relying
      BY <3>1 DEF Relying
    <3>4. \A i \in Items : WillDispatch(t, i) => WillDispatch(t, i)'
      BY <3>1 DEF Moved, WillDispatch, Replaying
    <3> QED BY <1>0, <3>1, <3>2, <3>3, <3>4, ReliedOn, QuietOfMove DEF Moved
  <2> QED BY <2>1, <2>2
<1>4. ASSUME NEW to \in WorkStates, Call(t, to)
      PROVE  QuietInv'
  <2>1. th[t].pc = "call" /\ Moved(t, "settle", th[t].item, th[t].todo)
    BY <1>0, <1>4, ListMoves DEF Call
  <2>2. Undisturbed(t)'
    BY <1>0, <1>a, <2>1 DEF Moved, Undisturbed, Surveying
  <2>3. th[t].pc \in Relying
    BY <2>1 DEF Relying
  <2>4. \A i \in Items : WillDispatch(t, i) => WillDispatch(t, i)'
    BY <2>1 DEF Moved, WillDispatch, Replaying
  <2> QED BY <1>0, <2>1, <2>2, <2>3, <2>4, ReliedOn, QuietOfMove DEF Moved
<1>5. CASE TakeForReplay(t)
  <2>1. CASE drain # "off"
    BY <1>0, <1>5, <1>b, <2>1, QuietOfMove DEF TakeForReplay
  <2>2. CASE drain = "off"
    <3>1. th[t].pc = "replay" /\ Moved(t, "list", th[t].item, th[t].todo)
      BY <1>0, <1>5, <2>2, ListMoves DEF TakeForReplay
    <3>2. Undisturbed(t)' /\ th'[t].pc \notin Relying
      BY <1>a, <3>1 DEF Moved, Undisturbed, Surveying, Relying, Replaying
    <3>3. \A i \in Items : WillDispatch(t, i)'
      BY <3>1 DEF Moved, WillDispatch
    <3> QED BY <1>0, <3>1, <3>2, <3>3, QuietOfMove DEF Moved
  <2> QED BY <2>1, <2>2
<1>6. CASE ListQueued(t)
  <2>1. th[t].pc = "list" /\ Moved(t, "next", th[t].item, InState({"queued"}))
    BY <1>0, <1>6, ListMoves DEF ListQueued
  <2>2. Replaying(t)
    BY <1>a, <2>1 DEF Undisturbed
  <2>3. \A i \in Items : row[i].st = "queued" => WillDispatch(t, i)'
    BY <2>1, <2>2 DEF Moved, WillDispatch, Replaying, InState
  <2> QED BY <1>0, <1>d, <2>1, <2>3, QuietOfMove
<1>7. ASSUME NEW i \in Items, ReplayNext(t, i)
      PROVE  QuietInv'
  <2>1. th[t].pc = "next" /\ Moved(t, "take", i, th[t].todo \ {i})
    BY <1>0, <1>7, ListMoves DEF ReplayNext
  <2>2. \A j \in Items : WillDispatch(t, j) => WillDispatch(t, j)'
    BY <2>1 DEF Moved, WillDispatch, Replaying
  <2> QED BY <1>0, <1>d, <2>1, <2>2, QuietOfMove
<1>8. CASE ReplayEnd(t)
  <2>1. \A i \in Items : ~WillDispatch(t, i)
    BY <1>8 DEF ReplayEnd, WillDispatch
  <2> QED BY <1>0, <1>8, <1>b, <2>1, QuietOfMove DEF ReplayEnd
<1> QED BY <1>1, <1>2, <1>3, <1>4, <1>5, <1>6, <1>7, <1>8 DEF DispatchStep

\* The steps of a reconcile pass, the only one under way.
LEMMA QuietReconcile ==
  ASSUME Base, QuietInv, OnePass, NEW t \in Threads, ReconcileStep(t)
  PROVE  QuietInv'
<1>0. ThreadTable /\ UNCHANGED <<row, trk, up, drain>>
  BY ReconcileDoes DEF Base, TypeOK, ThreadTable
<1>a. Undisturbed(t)
  BY DEF QuietInv
<1>b. th[t].pc \in {"survey", "reclaimNext", "retireNext"}
  BY DEF ReconcileStep, Survey, Evidence, ListStale, RetireNext, RetireEnd
<1>c. th[t].pc \in Surveying /\ th[t].job # "drain"
  BY <1>a, <1>b DEF Undisturbed, Surveying
\* On to another statement of the survey.
<1>d. ASSUME NEW pc \in Surveying \ {"survey"}, NEW i, NEW L, Moved(t, pc, i, L),
             \A j \in L : row[j].st = "uncertain",
             pc \in {"reclaim", "retire"} => i \in Items /\ row[i].st = "uncertain" /\ i \notin L
      PROVE  QuietInv'
  <2>1. Undisturbed(t)'
    BY <1>0, <1>c, <1>d DEF Moved, Undisturbed, Surveying
  <2>2. ASSUME th'[t].pc \in Relying, NEW u \in Threads \ {t}, th[u].pc \in Relying
        PROVE  th[u].item # th'[t].item
    <3> SUFFICES ASSUME th[u].item = i
                 PROVE  FALSE
      BY <1>d DEF Moved
    <3>1. pc \in {"reclaim", "retire"}
      BY <1>d, <2>2 DEF Moved, Relying, Surveying
    <3>2. th[u].pc \in {"reclaim", "retire"}
      BY <1>d, <2>2, <3>1 DEF QuietInv, Undisturbed, Relying
    <3> QED BY <1>c, <2>2, <3>2 DEF OnePass, Surveying
  <2>3. \A j \in Items : WillDispatch(t, j) => WillDispatch(t, j)'
    BY <1>b, <1>c, <1>d DEF Moved, WillDispatch, Surveying, Replaying
  <2> QED BY <1>0, <1>d, <2>1, <2>2, <2>3, QuietOfMove DEF Moved
<1>e. \A i \in Items : row[i].st \in {"uncertain", "interrupted"} => row[i].st = "uncertain"
  BY DEF QuietInv
<1>1. CASE Survey(t)
  <2>1. Moved(t, "reclaimNext", th[t].item, InState({"uncertain", "interrupted"}))
    BY <1>0, <1>1, ListMoves DEF Survey
  <2> QED BY <1>d, <1>e, <2>1 DEF InState, Surveying
<1>2. ASSUME NEW i \in Items, NEW live \in BOOLEAN, Evidence(t, i, live)
      PROVE  QuietInv'
  <2>1. i \in th[t].todo /\ \A j \in th[t].todo : row[j].st = "uncertain"
    BY <1>2, <1>a DEF Evidence, Undisturbed, Surveying
  <2>2. CASE live
    <3>1. Moved(t, "reclaim", i, th[t].todo \ {i})
      BY <1>0, <1>2, <2>2, ListMoves DEF Evidence
    <3> QED BY <1>d, <2>1, <3>1 DEF Surveying
  <2>3. CASE ~live
    <3>1. Moved(t, "reclaimNext", NoItem, th[t].todo \ {i})
      BY <1>0, <1>2, <2>3, ListMoves DEF Evidence
    <3> QED BY <1>d, <2>1, <3>1 DEF Surveying
  <2> QED BY <2>2, <2>3
<1>3. CASE ListStale(t)
  <2>1. Moved(t, "retireNext", th[t].item, {i \in InState({"uncertain"}) : row[i].aged})
    BY <1>0, <1>3, ListMoves DEF ListStale
  <2> QED BY <1>d, <2>1 DEF InState, Surveying
<1>4. ASSUME NEW i \in Items, RetireNext(t, i)
      PROVE  QuietInv'
  <2>1. i \in th[t].todo /\ \A j \in th[t].todo : row[j].st = "uncertain"
    BY <1>4, <1>a DEF RetireNext, Undisturbed, Surveying
  <2>2. Moved(t, "retire", i, th[t].todo \ {i})
    BY <1>0, <1>4, ListMoves DEF RetireNext
  <2> QED BY <1>d, <2>1, <2>2 DEF Surveying
<1>5. CASE RetireEnd(t)
  <2>1. CASE th[t].job = "startup"
    <3>1. Moved(t, "replay", th[t].item, th[t].todo)
      BY <1>0, <1>5, <2>1, ListMoves DEF RetireEnd
    <3>2. Undisturbed(t)' /\ th'[t].pc \notin Relying /\ \A i \in Items : WillDispatch(t, i)'
      BY <2>1, <3>1 DEF Moved, Undisturbed, Surveying, Relying, Replaying, WillDispatch
    <3> QED BY <1>0, <3>1, <3>2, QuietOfMove DEF Moved
  <2>2. CASE th[t].job # "startup"
    <3>1. OthersStay(t) /\ th'[t].pc = "idle"
      BY <1>0, <1>5, <2>2, DoneMoves DEF RetireEnd, Idle
    <3>2. Undisturbed(t)' /\ th'[t].pc \notin Relying
      BY <3>1 DEF Undisturbed, Surveying, Relying
    <3>3. \A i \in Items : ~WillDispatch(t, i)
      BY <1>5, <2>2 DEF RetireEnd, WillDispatch
    <3> QED BY <1>0, <3>1, <3>2, <3>3, QuietOfMove
  <2> QED BY <2>1, <2>2
<1> QED BY <1>1, <1>2, <1>3, <1>4, <1>5 DEF ReconcileStep

\* In a quiet instance every transition of a thread is legal, so no thread
\* ends by an exception.
LEMMA QuietIsLegal ==
  ASSUME Base, Owners, QuietInv, NEW t \in Threads, th[t].pc \in Writing
  PROVE  /\ th[t].pc \in {"claim", "settle", "reclaim", "retire"}
         /\ th[t].to \in {"dispatching", "running", "completed", "failed", "cancelled"}
         /\ Legal(row[th[t].item].st, th[t].to, OwnerOf(th[t].pc))
<1>1. WellFormed(th[t]) /\ Undisturbed(t)
  BY DEF Base, ThreadShape, QuietInv
<1>2. th[t].pc \in {"claim", "settle", "reclaim", "retire"}
  BY <1>1 DEF Undisturbed, Writing
<1>3. up /\ epoch # 0
  BY <1>2, RunsInWorker DEF Owners
<1>4. CASE th[t].pc = "claim"
  <2>1. row[th[t].item].st = "queued" /\ th[t].to = "dispatching"
    BY <1>1, <1>4 DEF Undisturbed, WellFormed
  <2> QED BY <1>2, <2>1 DEF Legal, AllowedTransitions, WorkStates
<1>5. CASE th[t].pc = "settle"
  <2>1. row[th[t].item].st = "dispatching" /\ th[t].to \in {"failed", "running", "completed"}
    BY <1>1, <1>5 DEF Undisturbed, WellFormed
  <2> QED BY <1>2, <2>1, ActiveRowsMove
<1>6. CASE th[t].pc = "reclaim"
  <2>1. row[th[t].item].st = "uncertain" /\ th[t].to = "running" /\ OwnerOf(th[t].pc) # 0
    BY <1>1, <1>3, <1>6 DEF Undisturbed, WellFormed, OwnerOf
  <2> QED BY <1>2, <2>1 DEF Legal, AllowedTransitions, WorkStates
<1>7. CASE th[t].pc = "retire"
  <2>1. row[th[t].item].st = "uncertain" /\ th[t].to = "cancelled"
    BY <1>1, <1>7 DEF Undisturbed, WellFormed
  <2> QED BY <1>2, <2>1 DEF Legal, AllowedTransitions, WorkStates
<1> QED BY <1>2, <1>4, <1>5, <1>6, <1>7

\* The first half of a transition.
LEMMA QuietRead ==
  ASSUME Base, Owners, QuietInv, OnePass, NEW t \in Threads, ReadRow(t)
  PROVE  QuietInv'
<1>1. th[t].pc \in Writing /\ Legal(row[th[t].item].st, th[t].to, OwnerOf(th[t].pc))
  BY QuietIsLegal DEF ReadRow
<1>2. /\ th' = [th EXCEPT ![t] = [@ EXCEPT !.read = row[th[t].item]]]
      /\ UNCHANGED <<row, trk, up, drain>>
  BY <1>1 DEF ReadRow, ledger, pause, process
<1>3. Moved(t, th[t].pc, th[t].item, th[t].todo)
  BY <1>2 DEF Base, TypeOK, ThreadStates, Moved, OthersStay
<1>4. Undisturbed(t)'
  <2>1. Undisturbed(t)
    BY DEF QuietInv
  <2> QED BY <1>2, <1>3, <2>1 DEF Undisturbed, Moved, Replaying
<1>5. th[t].pc \in Relying
  BY <1>1, QuietIsLegal DEF Relying
<1>6. \A i \in Items : WillDispatch(t, i) => WillDispatch(t, i)'
  BY <1>3 DEF Moved, WillDispatch, Replaying
<1> QED BY <1>2, <1>3, <1>4, <1>5, <1>6, ReliedOn, QuietOfMove DEF Moved

\* A tracker is started for a row that had none.
LEMMA OneMoreTracker ==
  ASSUME Base, NEW i \in Items, StartTracker(i)
  PROVE  \E k \in Trackers :
           /\ trk'[k].pc # "idle" /\ trk'[k].item = i
           /\ \A m \in Trackers \ {k} : trk'[m] = trk[m]
BY DEF Base, TypeOK, StartTracker

\* The second half: nobody but thread t relied on the row it writes.
LEMMA QuietOfWrite ==
  ASSUME Base, QuietInv, OnePass, NEW t \in Threads, NEW pc \in Writing, Write(t, pc),
         th[t].pc \in Relying,
         th[t].to \in {"dispatching", "running", "completed", "failed", "cancelled"},
         OthersStay(t), Undisturbed(t)',
         th'[t].pc \in Relying => th'[t].item = th[t].item,
         \A i \in Items \ {th[t].item} :
            drain = "off" /\ WillDispatch(t, i) => WillDispatch(t, i)'
  PROVE  QuietInv'
<1> DEFINE x == th[t].item
<1>0. /\ row \in [Items -> Rows \cup {NoRow}]
      /\ trk \in [Trackers -> TrackerStates]
  BY DEF Base, TypeOK
<1>1. /\ x \in Items /\ UNCHANGED <<drain, up>>
      /\ row'[x].st = th[t].to
      /\ \A i \in Items \ {x} : row'[i] = row[i]
      /\ th[t].to = "running" => StartTracker(x)
      /\ th[t].to # "running" => trk' = trk
  BY <1>0, WriteDoes, WrittenIsRow
<1>2. /\ \A u \in Threads \ {t} : th[u].pc \in Relying => th[u].item # x
      /\ \A u \in Threads \ {t} : th[u].pc \in Surveying \ {"survey"} => x \notin th[u].todo
      /\ row[x].st # "running"
  BY ReliedOn
<1>3. ASSUME NEW u \in Threads
      PROVE  Undisturbed(u)'
  <2>1. CASE u = t
    BY <2>1
  <2>2. CASE u # t
    <3>1. th'[u] = th[u] /\ Undisturbed(u)
      BY <2>2 DEF OthersStay, QuietInv
    <3>2. th[u].pc \in Relying => th[u].item \in Items \ {x}
      BY <1>2, <2>2 DEF Base, ThreadShape, WellFormed, OnItem, Writing, Relying
    <3>3. th[u].pc \in Surveying \ {"survey"} => th[u].todo \subseteq Items \ {x}
      BY <1>2, <2>2 DEF Base, TypeOK, ThreadStates
    <3> HIDE DEF x
    <3> QED BY <1>1, <3>1, <3>2, <3>3 DEF Undisturbed, Replaying, Relying
  <2> QED BY <2>1, <2>2
<1>4. OneRelies'
  BY DEF QuietInv, OneRelies, OthersStay
<1>5. TrackersAlone'
  <2>1. \A k \in Trackers : trk[k].pc # "idle" => trk[k].item \in Items \ {x}
    BY <1>2 DEF Base, TrackerShape, QuietInv, TrackersAlone
  <2>2. CASE trk' = trk
    BY <1>1, <2>1, <2>2 DEF QuietInv, TrackersAlone
  <2>3. CASE StartTracker(x) /\ th[t].to = "running"
    <3>1. PICK k \in Trackers :
            /\ trk'[k].pc # "idle" /\ trk'[k].item = x
            /\ \A m \in Trackers \ {k} : trk'[m] = trk[m]
      BY <1>1, <2>3, OneMoreTracker
    <3>2. ASSUME NEW m \in Trackers, trk'[m].pc # "idle"
          PROVE  row'[trk'[m].item].st = "running"
      BY <1>1, <2>1, <2>3, <3>1, <3>2 DEF QuietInv, TrackersAlone
    <3>3. ASSUME NEW m \in Trackers, NEW n \in Trackers, trk'[m].pc # "idle",
                 trk'[n].pc # "idle", trk'[m].item = trk'[n].item
          PROVE  m = n
      BY <2>1, <3>1, <3>3 DEF QuietInv, TrackersAlone
    <3> QED BY <3>2, <3>3 DEF TrackersAlone
  <2> QED BY <1>1, <2>2, <2>3
<1>6. \A i \in Items : row'[i].st # "interrupted"
  BY <1>1 DEF QuietInv
<1>7. Awake'
  <2> SUFFICES ASSUME Unsubmitted, up, drain = "off", NEW i \in Items, row'[i].st = "queued"
               PROVE  \E u \in Threads : WillDispatch(u, i)'
    BY <1>1 DEF Awake, Unsubmitted, NothingStranded
  <2>1. i # x /\ row[i].st = "queued"
    BY <1>1
  <2>2. PICK u \in Threads : WillDispatch(u, i)
    BY <2>1 DEF QuietInv, Awake, NothingStranded
  <2>3. CASE u = t
    BY <2>1, <2>2, <2>3
  <2>4. CASE u # t
    <3>1. th'[u] = th[u]
      BY <2>4 DEF OthersStay
    <3>2. WillDispatch(u, i)'
      BY <2>2, <3>1 DEF WillDispatch, Replaying
    <3> QED BY <3>2
  <2> QED BY <2>3, <2>4
<1> QED BY <1>3, <1>4, <1>5, <1>6, <1>7 DEF QuietInv

\* Every half of a transition.
LEMMA QuietTransition ==
  ASSUME Base, Owners, QuietInv, OnePass, NEW t \in Threads, TransitionStep(t)
  PROVE  QuietInv'
<1>0. ThreadTable /\ row \in [Items -> Rows \cup {NoRow}]
  BY DEF Base, TypeOK, ThreadTable
<1>a. Undisturbed(t) /\ (th[t].pc \in Relying => th[t].item \in Items)
  BY ReliedOn DEF QuietInv
<1>b. ASSUME NEW pc \in Writing, Write(t, pc)
      PROVE  /\ th[t].pc = pc /\ pc \in {"claim", "settle", "reclaim", "retire"}
             /\ th[t].pc \in Relying
             /\ th[t].to \in {"dispatching", "running", "completed", "failed", "cancelled"}
             /\ row'[th[t].item].st = th[t].to /\ th[t].item \in Items
             /\ \A i \in Items \ {th[t].item} : row'[i] = row[i]
             /\ pc = "claim" => th[t].to = "dispatching"
  <2>1. th[t].pc = pc /\ th[t].item \in Items
    BY <1>b, WriteDoes
  <2>2. /\ row'[th[t].item].st = th[t].to
        /\ \A i \in Items \ {th[t].item} : row'[i] = row[i]
    BY <1>0, <1>b, <2>1, WriteDoes, WrittenIsRow
  <2>3. pc = "claim" => th[t].to = "dispatching"
    BY <2>1 DEF Base, ThreadShape, WellFormed
  <2> QED BY <2>1, <2>2, <2>3, QuietIsLegal DEF Relying
<1>1. CASE Claim(t)
  <2>1. Write(t, "claim") /\ "claim" \in Writing
    BY <1>1 DEF Claim, Writing
  <2>2. Moved(t, "call", th[t].item, th[t].todo)
    BY <1>0, <1>1, ListMoves DEF Claim
  <2>3. Undisturbed(t)'
    BY <1>b, <2>1, <2>2 DEF Moved, Undisturbed, Surveying
  <2>4. \A i \in Items \ {th[t].item} : WillDispatch(t, i) => WillDispatch(t, i)'
    BY <1>b, <2>1, <2>2 DEF Moved, WillDispatch, Replaying
  <2> QED BY <1>b, <2>1, <2>2, <2>3, <2>4, QuietOfWrite DEF Moved
<1>2. CASE Settle(t)
  <2>1. Write(t, "settle") /\ "settle" \in Writing /\ Returned(t)
    BY <1>2 DEF Settle, Writing
  <2>2. OthersStay(t) /\ th'[t].pc \in {"next", "idle"}
    BY <2>1, ReturnedKeepsList
  <2>3. Undisturbed(t)' /\ th'[t].pc \notin Relying
    BY <2>2 DEF Undisturbed, Surveying, Relying
  <2>4. ASSUME NEW i \in Items \ {th[t].item}, WillDispatch(t, i)
        PROVE  WillDispatch(t, i)'
    <3>1. i \in th[t].todo /\ Replaying(t)
      BY <1>b, <2>1, <2>4 DEF WillDispatch
    <3> QED BY <2>1, <3>1, ReturnedKeepsList
  <2> QED BY <1>b, <2>1, <2>2, <2>3, <2>4, QuietOfWrite
<1>3. ASSUME NEW pc \in {"reclaim", "retire"}, NEW next \in {"reclaimNext", "retireNext"},
             Write(t, pc), LoopAt(t, next)
      PROVE  QuietInv'
  <2>1. Moved(t, next, NoItem, th[t].todo) /\ pc \in Writing
    BY <1>0, <1>3, ListMoves DEF Writing
  <2>2. /\ th[t].job # "drain" /\ th[t].item \notin th[t].todo
        /\ \A i \in th[t].todo : row[i].st = "uncertain"
    BY <1>a, <1>b, <1>3, <2>1 DEF Undisturbed, Surveying
  <2>3. \A i \in th[t].todo : row'[i].st = "uncertain"
    BY <1>b, <1>3, <2>1, <2>2 DEF Base, TypeOK, ThreadStates
  <2>4. Undisturbed(t)' /\ th'[t].pc \notin Relying
    BY <2>1, <2>2, <2>3 DEF Moved, Undisturbed, Surveying, Relying
  <2>5. \A i \in Items : WillDispatch(t, i) => WillDispatch(t, i)'
    BY <1>b, <1>3, <2>1, <2>2 DEF Moved, WillDispatch, Replaying
  <2> QED BY <1>b, <1>3, <2>1, <2>4, <2>5, QuietOfWrite DEF Moved
<1>4. CASE Requeue(t) \/ Close(t) \/ EditWrite(t)
  BY <1>b, <1>4 DEF Requeue, Close, EditWrite, Writing
<1> QED BY <1>1, <1>2, <1>3, <1>4, QuietRead DEF TransitionStep, Reclaim, Retire

\* A pass begins and moves its own thread only.
LEMMA QuietPass ==
  ASSUME Base, QuietInv, NEW t \in Threads, th[t] = Idle,
         NEW job \in {"reconcile", "sweep"}, Begin(t, "survey", job, NoItem, "none"),
         UNCHANGED <<row, trk, up, drain>>
  PROVE  QuietInv'
<1>1. ThreadTable /\ "survey" \in PCs /\ job \in Jobs
  BY DEF Base, TypeOK, ThreadTable, PCs, Jobs
<1>2. /\ OthersStay(t)
      /\ th'[t] = [pc |-> "survey", job |-> job, item |-> NoItem, to |-> "none",
                   read |-> NoRow, todo |-> {}]
  BY <1>1, BeginMoves
<1>3. Undisturbed(t)' /\ th'[t].pc \notin Relying
  BY <1>2 DEF Undisturbed, Surveying, Relying
<1>4. \A i \in Items : ~WillDispatch(t, i)
  BY DEF WillDispatch, Idle
<1> QED BY <1>2, <1>3, <1>4, QuietOfMove

\* The requests of such an instance: work to execute, the drain, a reconcile.
LEMMA QuietRequest ==
  ASSUME Unedited, Base, QuietInv, OnePass, NEW t \in Threads, RequestStep(t)
  PROVE  QuietInv'
<1>0. /\ ThreadTable /\ row \in [Items -> Rows \cup {NoRow}]
      /\ th[t] = Idle /\ OthersStay(t) /\ UNCHANGED <<trk, up>>
  BY RequestDoes DEF Base, TypeOK, ThreadTable
<1>1. ASSUME NEW i \in Items, NEW p \in Items \cup {NoItem},
             Execute(t, i, p) \/ Submit(t, i, p)
      PROVE  QuietInv'
  <2>1. /\ th'[t].pc \in {"deferral", "idle"}
        /\ Unsubmitted => th'[t].pc = "deferral" /\ th'[t].item = i
    <3>1. CASE Execute(t, i, p)
      <4>1. th'[t] = [pc |-> "deferral", job |-> "execute", item |-> i,
                      to |-> "none", read |-> NoRow, todo |-> {}]
        BY <1>0, <3>1, BeginMoves DEF Execute, PCs, Jobs
      <4> QED BY <4>1
    <3>2. CASE Submit(t, i, p)
      BY <1>0, <3>2 DEF Submit, Free, Unsubmitted, Idle
    <3> QED BY <1>1, <3>1, <3>2
  <2>2. /\ row[i].st \notin WorkStates /\ row'[i].st = "queued" /\ drain' = drain
        /\ \A j \in Items \ {i} : row'[j] = row[j]
    BY <1>0, <1>1, NoRowIsNoRow DEF Execute, Submit, Insert, FreshRow, pause
  <2>3. ASSUME NEW u \in Threads \ {t}
        PROVE  Undisturbed(u)'
    <3>1. th'[u] = th[u] /\ Undisturbed(u)
      BY <1>0 DEF OthersStay, QuietInv
    <3>2. th[u].pc \in Relying => th[u].item \in Items \ {i}
      BY <2>2, ReliedOn DEF WorkStates, Active
    <3>3. th[u].pc \in Surveying \ {"survey"} => th[u].todo \subseteq Items \ {i}
      BY <2>2, <3>1 DEF Undisturbed, WorkStates, Base, TypeOK, ThreadStates
    <3> QED BY <2>2, <3>1, <3>2, <3>3 DEF Undisturbed, Replaying, Relying
  <2>4. Undisturbed(t)' /\ th'[t].pc \notin Relying
    BY <2>1 DEF Undisturbed, Surveying, Relying
  <2>5. OneRelies'
    BY <1>0, <2>4 DEF QuietInv, OneRelies, OthersStay
  <2>6. TrackersAlone'
    <3>1. \A k \in Trackers : trk[k].pc # "idle" => trk[k].item \in Items \ {i}
      BY <2>2 DEF Base, TrackerShape, QuietInv, TrackersAlone, WorkStates, Active
    <3> QED BY <1>0, <2>2, <3>1 DEF QuietInv, TrackersAlone
  <2>7. \A j \in Items : row'[j].st # "interrupted"
    BY <2>2 DEF QuietInv
  <2>8. Awake'
    <3> SUFFICES ASSUME Unsubmitted, up, drain = "off", NEW j \in Items, row'[j].st = "queued"
                 PROVE  \E u \in Threads : WillDispatch(u, j)'
      BY <1>0, <2>2 DEF Awake, Unsubmitted, NothingStranded
    <3>1. CASE j = i
      BY <2>1, <3>1 DEF WillDispatch
    <3>2. CASE j # i
      <4>1. PICK u \in Threads : WillDispatch(u, j)
        BY <2>2, <3>2 DEF QuietInv, Awake, NothingStranded
      <4>2. u # t
        BY <1>0, <4>1 DEF WillDispatch, Idle
      <4>3. th'[u] = th[u]
        BY <1>0, <4>2 DEF OthersStay
      <4>4. WillDispatch(u, j)'
        BY <4>1, <4>3 DEF WillDispatch, Replaying
      <4> QED BY <4>4
    <3> QED BY <3>1, <3>2
  <2> QED BY <2>3, <2>4, <2>5, <2>6, <2>7, <2>8 DEF QuietInv
<1>2. ASSUME NEW d \in {"off", "operator", "restart"}, DrainSet(t, d)
      PROVE  QuietInv'
  <2>1. row' = row /\ drain' = d
    BY <1>2 DEF DrainSet, ledger
  <2>2. th'[t].pc \in {"idle", "replay"} /\ (th'[t].pc = "replay" => Replaying(t)')
        /\ (d = "off" => th'[t].pc = "replay")
    <3>1. CASE d = "off"
      <4>1. th'[t] = [pc |-> "replay", job |-> "drain", item |-> NoItem,
                      to |-> "none", read |-> NoRow, todo |-> {}]
        BY <1>0, <1>2, <3>1, BeginMoves DEF DrainSet, PCs, Jobs
      <4> QED BY <4>1 DEF Replaying
    <3>2. CASE d # "off"
      BY <1>0, <1>2, <3>2 DEF DrainSet, Idle
    <3> QED BY <3>1, <3>2
  <2>3. Undisturbed(t)' /\ th'[t].pc \notin Relying
    BY <2>2 DEF Undisturbed, Surveying, Relying
  <2>4. ASSUME NEW u \in Threads \ {t}
        PROVE  Undisturbed(u)'
    <3>1. th'[u] = th[u] /\ Undisturbed(u)
      BY <1>0 DEF OthersStay, QuietInv
    <3> QED BY <2>1, <3>1 DEF Undisturbed, Replaying
  <2>5. OneRelies'
    BY <1>0, <2>3 DEF QuietInv, OneRelies, OthersStay
  <2>6. TrackersAlone' /\ \A j \in Items : row'[j].st # "interrupted"
    BY <1>0, <2>1 DEF QuietInv, TrackersAlone
  <2>7. Awake'
    BY <2>1, <2>2 DEF Awake, NothingStranded, WillDispatch
  <2> QED BY <2>3, <2>4, <2>5, <2>6, <2>7 DEF QuietInv
<1>3. CASE Reconcile(t)
  BY <1>0, <1>3, QuietPass DEF Reconcile, ledger, pause
<1> QED BY <1>1, <1>2, <1>3 DEF RequestStep, Resolve, Edit, Free, Unedited

\* A start recovers the rows before anything runs, and leaves the queue to
\* the recovery thread.
LEMMA QuietStart == ASSUME Base, QuietInv, Start PROVE QuietInv'
<1>0. ThreadTable /\ row \in [Items -> Rows \cup {NoRow}] /\ epoch \in Nat
  BY DEF Base, TypeOK, ThreadTable
<1>1. (\A t \in Threads : th[t] = Idle) /\ (\A k \in Trackers : trk'[k] = NoTracker)
  BY DEF Start, Base, NobodyWhenDown
<1>2. /\ \A t \in Threads : th'[t].pc = "idle" \/ (t = Starter /\ th'[t].pc = "survey")
      /\ \/ th' = th
         \/ th'[Starter].job = "startup" /\ th'[Starter].pc = "survey"
  <2>1. CASE Begin(Starter, "survey", "startup", NoItem, "none")
    <3>1. Starter \in Threads /\ "survey" \in PCs /\ "startup" \in Jobs
      BY DEF Threads, PCs, Jobs
    <3>2. /\ OthersStay(Starter)
          /\ th'[Starter] = [pc |-> "survey", job |-> "startup", item |-> NoItem,
                             to |-> "none", read |-> NoRow, todo |-> {}]
      BY <1>0, <2>1, <3>1, BeginMoves
    <3> QED BY <1>1, <3>2 DEF OthersStay, Idle
  <2>2. CASE th' = th
    BY <1>1, <2>2 DEF Idle
  <2> QED BY <2>1, <2>2 DEF Start
<1>3. \A t \in Threads : Undisturbed(t)'
  BY <1>1, <1>2 DEF Undisturbed, Surveying, Idle
<1>4. OneRelies' /\ TrackersAlone'
  BY <1>1, <1>2 DEF OneRelies, Relying, TrackersAlone, NoTracker
<1>5. ASSUME NEW i \in Items
      PROVE  row'[i].st # "interrupted"
  <2>1. row'[i] = Recovered(row[i], epoch') /\ row[i].st # "interrupted"
    BY DEF Start, QuietInv
  <2> QED BY <1>0, <2>1 DEF Recovered, Rows, NoRow
<1>6. Awake'
  <2> SUFFICES ASSUME drain' = "off", NEW i \in Items, row'[i].st = "queued"
               PROVE  \E t \in Threads : WillDispatch(t, i)'
    BY DEF Awake, NothingStranded
  <2>1. Begin(Starter, "survey", "startup", NoItem, "none") /\ Starter \in Threads
    BY DEF Start, Threads
  <2>2. th'[Starter].job = "startup" /\ th'[Starter].pc = "survey"
    <3>1. "survey" \in PCs /\ "startup" \in Jobs
      BY DEF PCs, Jobs
    <3>2. th'[Starter] = [pc |-> "survey", job |-> "startup", item |-> NoItem,
                          to |-> "none", read |-> NoRow, todo |-> {}]
      BY <1>0, <2>1, <3>1, BeginMoves
    <3> QED BY <3>2
  <2> QED BY <2>1, <2>2 DEF WillDispatch
<1> QED BY <1>3, <1>4, <1>5, <1>6 DEF QuietInv

\* The steps of a tracker touch the running row it tracks and no other.
LEMMA QuietTracker ==
  ASSUME Base, QuietInv, OnePass, NEW k \in Trackers, TrackerStep(k)
  PROVE  QuietInv'
<1>0. /\ row \in [Items -> Rows \cup {NoRow}] /\ epoch \in Nat
      /\ trk \in [Trackers -> TrackerStates]
  BY DEF Base, TypeOK
<1>1. UNCHANGED <<th, up, drain>>
  BY DEF TrackerStep, TurnOver, PollFault, LeaseLost, TrackerRead, TrackerWrite, pause, process
<1>2. trk[k].pc # "idle"
  BY DEF TrackerStep, TurnOver, PollFault, LeaseLost, TrackerRead, TrackerWrite
<1>3. /\ \A m \in Trackers \ {k} : trk'[m] = trk[m]
      /\ trk'[k].pc # "idle" => trk'[k].item = trk[k].item /\ row' = row
      /\ row' = row \/ TrackerWrite(k)
  <2>1. ASSUME NEW pc, NEW to, TrackerGoes(k, pc, to)
        PROVE  trk'[k].item = trk[k].item /\ \A m \in Trackers \ {k} : trk'[m] = trk[m]
    BY <1>0, <2>1 DEF TrackerGoes, TrackerStates
  <2>2. ASSUME trk' = [trk EXCEPT ![k] = NoTracker]
        PROVE  trk'[k].pc = "idle" /\ \A m \in Trackers \ {k} : trk'[m] = trk[m]
    BY <1>0, <2>2 DEF NoTracker
  <2>3. CASE TurnOver(k) \/ PollFault(k) \/ LeaseLost(k)
    BY <2>1, <2>3 DEF TurnOver, PollFault, LeaseLost, ledger
  <2>4. CASE TrackerRead(k)
    <3>1. CASE trk' = [trk EXCEPT ![k] = [@ EXCEPT !.pc = "write", !.read = row[trk[k].item]]]
      BY <1>0, <2>4, <3>1 DEF TrackerRead, TrackerStates, ledger
    <3> QED BY <2>1, <2>2, <2>4, <3>1 DEF TrackerRead, ledger
  <2>5. CASE TrackerWrite(k)
    BY <2>2, <2>5 DEF TrackerWrite
  <2> QED BY <2>3, <2>4, <2>5 DEF TrackerStep
<1>4. CASE row' = row
  <2>1. TrackersAlone'
    BY <1>2, <1>3, <1>4 DEF QuietInv, TrackersAlone
  <2>2. \A t \in Threads : Undisturbed(t)'
    BY <1>1, <1>4 DEF QuietInv, Undisturbed, Replaying
  <2>3. OneRelies' /\ Awake'
    BY <1>1, <1>4
       DEF QuietInv, OneRelies, Awake, Unsubmitted, NothingStranded, WillDispatch, Replaying
  <2> QED BY <1>4, <2>1, <2>2, <2>3 DEF QuietInv
<1>5. CASE TrackerWrite(k)
  <2> DEFINE x == trk[k].item
  <2>1. x \in Items /\ row[x].st = "running"
    BY <1>2 DEF Base, TrackerShape, QuietInv, TrackersAlone
  <2>2. row'[x].st \in {"completed", "uncertain"} /\ \A i \in Items \ {x} : row'[i] = row[i]
    <3>1. trk[k].read \in Rows /\ trk[k].to \in {"completed", "uncertain"}
      BY <1>5 DEF TrackerWrite, Base, TrackerShape
    <3>2. trk[k].to \in WorkStates
      BY <3>1 DEF WorkStates, Terminal
    <3> QED BY <1>0, <1>5, <2>1, <3>1, <3>2, WrittenIsRow DEF TrackerWrite
  <2>3. trk'[k].pc = "idle"
    BY <1>0, <1>5 DEF TrackerWrite, NoTracker
  <2>4. TrackersAlone'
    <3>1. \A m \in Trackers \ {k} : trk[m].pc # "idle" => trk[m].item \in Items \ {x}
      BY <1>2 DEF Base, TrackerShape, QuietInv, TrackersAlone
    <3> QED BY <1>3, <2>2, <2>3, <3>1 DEF QuietInv, TrackersAlone
  <2>5. ASSUME NEW t \in Threads
        PROVE  Undisturbed(t)'
    <3>1. th'[t] = th[t] /\ Undisturbed(t)
      BY <1>1 DEF QuietInv
    <3>2. th[t].pc \in Relying => th[t].item \in Items \ {x}
      BY <2>1, ReliedOn
    <3>3. th[t].pc \in Surveying \ {"survey"} => th[t].todo \subseteq Items \ {x}
      BY <2>1, <3>1 DEF Undisturbed, Base, TypeOK, ThreadStates
    <3> HIDE DEF x
    <3> QED BY <2>2, <3>1, <3>2, <3>3 DEF Undisturbed, Replaying, Relying
  <2>6. OneRelies'
    BY <1>1 DEF QuietInv, OneRelies
  <2>7. \A i \in Items : row'[i].st # "interrupted"
    BY <2>2 DEF QuietInv
  <2>8. \A i \in Items : row'[i].st = "queued" => row[i].st = "queued"
    BY <2>2
  <2>9. Awake'
    BY <1>1, <2>8 DEF QuietInv, Awake, Unsubmitted, NothingStranded, WillDispatch, Replaying
  <2> QED BY <2>4, <2>5, <2>6, <2>7, <2>9 DEF QuietInv
<1> QED BY <1>3, <1>4, <1>5

\* Every step from a state with one pass at most keeps the invariant.
LEMMA QuietNext ==
  ASSUME Unedited, IInv, QuietInv, OnePass, [Next]_vars PROVE QuietInv'
<1>0. Base /\ Locking /\ Owners
  BY DEF IInv
<1>1. CASE Crash
  <2>1. /\ \A t \in Threads : th'[t] = Idle
        /\ \A k \in Trackers : trk'[k] = NoTracker
        /\ row' = row /\ ~up'
    BY <1>1 DEF Crash
  <2>2. \A t \in Threads : Undisturbed(t)'
    BY <2>1 DEF Undisturbed, Surveying, Idle
  <2> QED BY <2>1, <2>2 DEF QuietInv, OneRelies, Relying, Idle, TrackersAlone, NoTracker,
                            Awake, NothingStranded
<1>2. CASE Sweep
  BY <1>0, <1>2, SweepDoes, QuietPass DEF Sweep
<1>3. ASSUME UNCHANGED <<th, trk, up, drain>>, \A i \in Items : row'[i].st = row[i].st
      PROVE  QuietInv'
  <2>1. ASSUME NEW t \in Threads
        PROVE  Undisturbed(t)'
    <3>1. th'[t] = th[t] /\ Undisturbed(t)
      BY <1>3 DEF QuietInv
    <3>2. th[t].pc \in Relying => th[t].item \in Items
      BY <1>0, ReliedOn
    <3>3. th[t].todo \subseteq Items
      BY <1>0 DEF Base, TypeOK, ThreadStates
    <3> QED BY <1>3, <3>1, <3>2, <3>3 DEF Undisturbed, Replaying, Relying
  <2>2. TrackersAlone'
    BY <1>0, <1>3 DEF QuietInv, TrackersAlone, Base, TrackerShape
  <2>3. Awake'
    BY <1>3 DEF QuietInv, Awake, Unsubmitted, NothingStranded, WillDispatch, Replaying
  <2> QED BY <1>3, <2>1, <2>2, <2>3 DEF QuietInv, OneRelies
<1>4. ASSUME NEW i \in Items, Age(i)
      PROVE  QuietInv'
  BY <1>0, <1>3, <1>4, AgeKeepsStates DEF Age, pause
<1>5. CASE UNCHANGED vars
  BY <1>3, <1>5 DEF vars
<1> QED BY <1>0, <1>1, <1>2, <1>4, <1>5, QuietStart, QuietRequest, QuietDispatch,
           QuietReconcile, QuietTransition, QuietTracker DEF Next, ThreadStep

\* It holds initially.
LEMMA QuietInit == ASSUME Init PROVE QuietInv
<1>1. \A t \in Threads : Undisturbed(t)
  BY DEF Init, Undisturbed, Surveying, Idle
<1> QED BY <1>1 DEF Init, QuietInv, OneRelies, Relying, Idle, TrackersAlone, NoTracker,
                    NoRow, Awake, NothingStranded

\* No lost wake-up: if no two reconcile passes ever overlap and nobody edits,
\* resolves or merely submits work, a queued row always has a thread that will
\* dispatch it or list the queue, through crashes, restarts, sweeps and any
\* race of drains and requests.
THEOREM StrandedOnlyByTwoPasses ==
  ASSUME Unedited, Unsubmitted PROVE Spec /\ []OnePass => []NothingStranded
<1>1. Init => QuietInv
  BY QuietInit
<1>2. IInv /\ OnePass /\ QuietInv /\ [Next]_vars => QuietInv'
  BY QuietNext
<1>3. QuietInv => NothingStranded
  BY DEF QuietInv, Awake
<1> QED BY <1>1, <1>2, <1>3, InvHolds, PTL DEF Spec

\* Without sweeps and reconcile requests only the recovery thread makes a
\* pass.
PassIsRecovery == \A t \in Threads : th[t].pc \in Surveying => t = Starter

\* It stays so.
LEMMA PassIsRecoveryNext ==
  ASSUME Quiet, Base, PassIsRecovery, [Next]_vars PROVE PassIsRecovery'
<1>1. ASSUME NEW t \in Threads, OthersStay(t),
             th'[t].pc \in Surveying => th[t].pc \in Surveying
      PROVE  PassIsRecovery'
  BY <1>1 DEF PassIsRecovery, OthersStay
<1>2. ASSUME NEW t \in Threads, RequestStep(t)
      PROVE  PassIsRecovery'
  <2>1. OthersStay(t) /\ th[t] = Idle /\ th'[t].pc \in RequestPCs
    BY <1>2, RequestDoes
  <2>2. CASE th' = th
    BY <2>2 DEF PassIsRecovery
  <2>3. ASSUME NEW pc \in {"deferral", "replay"}, NEW job \in {"execute", "drain"},
               NEW i \in Items \cup {NoItem}, Begin(t, pc, job, i, "none")
        PROVE  PassIsRecovery'
    <3>1. ThreadTable /\ pc \in PCs /\ job \in Jobs
      BY DEF Base, TypeOK, ThreadTable, PCs, Jobs
    <3>2. th'[t] = [pc |-> pc, job |-> job, item |-> i, to |-> "none",
                    read |-> NoRow, todo |-> {}]
      BY <2>3, <3>1, BeginMoves
    <3>3. th'[t].pc = pc
      BY <3>2
    <3> QED BY <1>1, <2>1, <3>3 DEF Surveying
  <2> QED BY <1>2, <2>2, <2>3
          DEF RequestStep, Execute, Submit, Resolve, Edit, DrainSet, Reconcile, Free, Quiet
<1>3. ASSUME NEW t \in Threads, DispatchStep(t)
      PROVE  PassIsRecovery'
  <2>1. OthersStay(t) /\ th'[t].pc \notin Surveying
    BY <1>3, DispatchDoes DEF At, Gone, Back, Idle, Surveying
  <2> QED BY <1>1, <2>1
<1>4. ASSUME NEW t \in Threads, ReconcileStep(t)
      PROVE  PassIsRecovery'
  <2>1. OthersStay(t) /\ th[t].pc \in Surveying
    BY <1>4, ReconcileDoes DEF Surveying
  <2> QED BY <1>1, <2>1
<1>5. ASSUME NEW t \in Threads, TransitionStep(t)
      PROVE  PassIsRecovery'
  <2>1. CASE ReadRow(t)
    <3>1. OthersStay(t) /\ (th'[t].pc \in Surveying => th[t].pc \in Surveying)
      BY <2>1, ReadDoes DEF At, Gone, Idle, Surveying
    <3> QED BY <1>1, <3>1
  <2>2. CASE ~ReadRow(t)
    <3>1. OthersStay(t) /\ (th'[t].pc \in Surveying => th[t].pc \in Surveying)
      BY <1>5, <2>2, CallersDo DEF At, Gone, Back, Idle, Surveying, Write
    <3> QED BY <1>1, <3>1
  <2> QED BY <2>1, <2>2
<1>6. CASE Start
  <2>1. \A t \in Threads : th[t] = Idle
    BY <1>6 DEF Start, Base, NobodyWhenDown
  <2>2. ASSUME NEW t \in Threads \ {Starter}
        PROVE  th'[t] = Idle
    BY <1>6, <2>1, <2>2 DEF Start, Begin, Base, TypeOK
  <2> QED BY <2>2 DEF PassIsRecovery, Idle, Surveying
<1>7. CASE Crash
  BY <1>7 DEF Crash, PassIsRecovery, Idle, Surveying
<1>8. ASSUME th' = th PROVE PassIsRecovery'
  BY <1>8 DEF PassIsRecovery
<1>9. ASSUME (\E i \in Items : Age(i)) \/ (\E k \in Trackers : TrackerStep(k))
      PROVE  PassIsRecovery'
  BY <1>8, <1>9 DEF Age, TrackerStep, TurnOver, PollFault, LeaseLost, TrackerRead, TrackerWrite
<1>10. CASE UNCHANGED vars
  BY <1>8, <1>10 DEF vars
<1>11. ~Sweep
  BY DEF Sweep, Quiet
<1> QED BY <1>2, <1>3, <1>4, <1>5, <1>6, <1>7, <1>9, <1>10, <1>11 DEF Next, ThreadStep

\* In an instance whose clients only execute work and set the drain, and
\* which is over before the first sweep, nothing is stranded.
THEOREM NothingIsStranded == ASSUME Quiet PROVE Spec => []NothingStranded
<1>1. Init => PassIsRecovery
  BY DEF Init, PassIsRecovery, Idle, Surveying
<1>2. IInv /\ PassIsRecovery /\ [Next]_vars => PassIsRecovery'
  BY PassIsRecoveryNext DEF IInv
<1>3. PassIsRecovery => OnePass
  BY DEF PassIsRecovery, OnePass
<1>4. Unedited /\ Unsubmitted
  BY DEF Quiet, Unedited, Unsubmitted
<1>5. Spec /\ []OnePass => []NothingStranded
  BY <1>4, StrandedOnlyByTwoPasses
<1> QED BY <1>1, <1>2, <1>3, <1>5, InvHolds, PTL DEF Spec

-----------------------------------------------------------------------------
(***************************************************************************)
(* Refinement: under the same conditions the worker implements             *)
(* ExactlyOnceWork.  QuietInv makes the two halves of a transition one     *)
(* step, the permits make the one call the only one.                       *)
(***************************************************************************)
\* What a write does to the states of the ledger.
LEMMA QuietWrites ==
  ASSUME Base, Owners, QuietInv, NEW t \in Threads, NEW pc \in Writing, Write(t, pc)
  PROVE  /\ th[t].pc = pc /\ th[t].item \in Items
         /\ row'[th[t].item].st = th[t].to
         /\ \A i \in Items \ {th[t].item} : row'[i] = row[i]
         /\ grants' = grants /\ calls' = calls
         /\ \/ /\ pc = "claim" /\ th[t].to = "dispatching"
               /\ row[th[t].item].st = "queued"
            \/ /\ pc = "settle" /\ th[t].to \in {"failed", "running", "completed"}
               /\ row[th[t].item].st = "dispatching"
            \/ /\ pc = "reclaim" /\ th[t].to = "running"
               /\ row[th[t].item].st = "uncertain"
            \/ /\ pc = "retire" /\ th[t].to = "cancelled"
               /\ row[th[t].item].st = "uncertain"
<1>1. /\ th[t].pc = pc /\ th[t].item \in Items /\ calls' = calls
      /\ th[t].to # "queued" => grants' = grants
  BY WriteDoes
<1>2. /\ row'[th[t].item].st = th[t].to
      /\ \A i \in Items \ {th[t].item} : row'[i] = row[i]
  <2>1. row \in [Items -> Rows \cup {NoRow}]
    BY DEF Base, TypeOK
  <2> QED BY <2>1, WriteDoes, WrittenIsRow
<1>3. Undisturbed(t) /\ WellFormed(th[t])
  BY DEF QuietInv, Base, ThreadShape
<1>4. pc \in {"claim", "settle", "reclaim", "retire"} /\ th[t].to # "queued"
  BY <1>1, QuietIsLegal
<1> QED BY <1>1, <1>2, <1>3, <1>4 DEF Undisturbed, WellFormed

\* A transition writes a row, or leaves ledger and engines alone.
LEMMA TransitionWrites ==
  ASSUME Base, NEW t \in Threads, TransitionStep(t)
  PROVE  \/ ReadRow(t)
         \/ /\ \E pc \in Writing : Write(t, pc)
            /\ OthersStay(t) /\ th'[t].pc # "settle"
BY CallersDo DEF At, Gone, Back, Idle, Writing

\* Rows that are there stay, and nothing is granted: still granted once.
LEMMA GrantedMove ==
  ASSUME GrantedOnce, grants' = grants,
         \A i \in Items : row'[i].st = "absent" => row[i].st = "absent"
  PROVE  GrantedOnce'
BY DEF GrantedOnce

\* An item is put in the queue by its submission only.
LEMMA GrantedNext ==
  ASSUME IInv, QuietInv, GrantedOnce, [Next]_vars PROVE GrantedOnce'
<1>0. /\ Base /\ Owners /\ row \in [Items -> Rows \cup {NoRow}]
      /\ grants \in [Items -> Nat] /\ epoch \in Nat
  BY DEF IInv, Base, TypeOK
<1>1. ASSUME UNCHANGED <<row, grants>>
      PROVE  GrantedOnce'
  BY <1>1, GrantedMove
<1>2. ASSUME NEW t \in Threads, RequestStep(t)
      PROVE  GrantedOnce'
  <2>1. ASSUME NEW i \in Items, row[i] = NoRow, row' = [row EXCEPT ![i] = FreshRow],
               grants' = [grants EXCEPT ![i] = @ + 1]
        PROVE  GrantedOnce'
    <3>1. grants[i] = 0
      BY <2>1 DEF GrantedOnce, NoRow
    <3>2. grants'[i] = 1 /\ row'[i].st = "queued"
      BY <1>0, <2>1, <3>1 DEF FreshRow
    <3>3. \A j \in Items \ {i} : grants'[j] = grants[j] /\ row'[j] = row[j]
      BY <1>0, <2>1
    <3> QED BY <3>2, <3>3 DEF GrantedOnce
  <2> QED BY <1>0, <1>1, <1>2, <2>1, RequestDoes
<1>3. ASSUME NEW t \in Threads, DispatchStep(t) \/ ReconcileStep(t) \/ ReadRow(t)
      PROVE  GrantedOnce'
  BY <1>0, <1>1, <1>3, DispatchDoes, ReconcileDoes, ReadDoes
<1>4. ASSUME NEW t \in Threads, NEW pc \in Writing, Write(t, pc)
      PROVE  GrantedOnce'
  <2>1. row'[th[t].item].st # "absent" /\ grants' = grants
    BY <1>0, <1>4, QuietWrites
  <2>2. \A i \in Items \ {th[t].item} : row'[i] = row[i]
    BY <1>0, <1>4, QuietWrites
  <2> QED BY <2>1, <2>2, GrantedMove
<1>5. CASE Start
  <2>1. ASSUME NEW i \in Items, row'[i].st = "absent"
        PROVE  row[i].st = "absent"
    <3>1. row'[i] = Recovered(row[i], epoch')
      BY <1>5 DEF Start
    <3> QED BY <1>0, <2>1, <3>1 DEF Recovered, Rows
  <2> QED BY <1>5, <2>1, GrantedMove DEF Start
<1>6. ASSUME NEW k \in Trackers, TrackerStep(k)
      PROVE  GrantedOnce'
  <2>1. CASE TrackerWrite(k)
    <3>1. trk[k].read \in Rows /\ trk[k].to \in WorkStates /\ trk[k].item \in Items
      BY <1>0, <2>1 DEF TrackerWrite, Base, TrackerShape, WorkStates, Terminal
    <3>2. row'[trk[k].item].st \in WorkStates /\ grants' = grants
      BY <1>0, <2>1, <3>1, WrittenIsRow DEF TrackerWrite
    <3>3. \A i \in Items \ {trk[k].item} : row'[i] = row[i]
      BY <1>0, <2>1 DEF TrackerWrite
    <3> QED BY <3>2, <3>3, GrantedMove DEF WorkStates, Active, Terminal
  <2>2. CASE UNCHANGED ledger
    BY <1>1, <2>2 DEF ledger
  <2> QED BY <1>6, <2>1, <2>2 DEF TrackerStep, TurnOver, PollFault, LeaseLost, TrackerRead
<1>7. ASSUME NEW i \in Items, Age(i)
      PROVE  GrantedOnce'
  BY <1>0, <1>7, AgeKeepsStates, GrantedMove DEF Age
<1>8. CASE Crash \/ Sweep \/ UNCHANGED vars
  BY <1>1, <1>8 DEF Crash, Sweep, vars, ledger
<1> QED BY <1>0, <1>2, <1>3, <1>4, <1>5, <1>6, <1>7, <1>8, TransitionWrites DEF Next, ThreadStep

\* A step that makes no answer stays after the calls.
LEMMA AnsweredMove ==
  ASSUME AnsweredAfterCall, calls' = calls, NEW t \in Threads, OthersStay(t),
         th'[t].pc = "settle" => th[t].pc = "settle" /\ th'[t].item = th[t].item
  PROVE  AnsweredAfterCall'
BY DEF AnsweredAfterCall, OthersStay

\* The call comes before its answer.
LEMMA AnsweredNext ==
  ASSUME Base, AnsweredAfterCall, [Next]_vars PROVE AnsweredAfterCall'
<1>0. calls \in [Items -> Nat]
  BY DEF Base, TypeOK
<1>1. ASSUME UNCHANGED <<th, calls>>
      PROVE  AnsweredAfterCall'
  BY <1>1 DEF AnsweredAfterCall
<1>2. ASSUME NEW t \in Threads, RequestStep(t)
      PROVE  AnsweredAfterCall'
  BY <1>2, RequestDoes, AnsweredMove DEF RequestPCs
<1>3. ASSUME NEW t \in Threads, DispatchStep(t)
      PROVE  AnsweredAfterCall'
  <2>1. CASE /\ th[t].pc = "call" /\ calls' = [calls EXCEPT ![th[t].item] = @ + 1]
             /\ At(t, "settle", th[t].item)
    <3>1. th[t].item \in Items
      BY <2>1 DEF Base, ThreadShape, WellFormed, OnItem
    <3>2. calls'[th[t].item] # 0 /\ \A i \in Items : calls[i] # 0 => calls'[i] # 0
      BY <1>0, <2>1, <3>1
    <3>3. ASSUME NEW u \in Threads, th'[u].pc = "settle"
          PROVE  calls'[th'[u].item] # 0
      <4>1. CASE u = t
        BY <2>1, <3>2, <4>1 DEF At
      <4>2. CASE u # t
        <5>1. th'[u] = th[u]
          BY <2>1, <4>2 DEF At, OthersStay
        <5>2. th[u].item \in Items /\ calls[th[u].item] # 0
          BY <3>3, <5>1 DEF AnsweredAfterCall, Base, ThreadShape, WellFormed, OnItem, Writing
        <5> QED BY <3>2, <5>1, <5>2
      <4> QED BY <4>1, <4>2
    <3> QED BY <3>3 DEF AnsweredAfterCall
  <2>2. CASE calls' = calls /\ OthersStay(t) /\ th'[t].pc # "settle"
    BY <2>2, AnsweredMove
  <2> QED BY <1>3, <2>1, <2>2, DispatchDoes DEF At, Gone, Back, Idle
<1>4. ASSUME NEW t \in Threads, ReconcileStep(t)
      PROVE  AnsweredAfterCall'
  BY <1>4, ReconcileDoes, AnsweredMove
<1>5. ASSUME NEW t \in Threads, TransitionStep(t)
      PROVE  AnsweredAfterCall'
  <2>1. CASE ReadRow(t)
    BY <2>1, ReadDoes, AnsweredMove DEF At, Gone, Idle
  <2>2. ASSUME NEW pc \in Writing, Write(t, pc), OthersStay(t), th'[t].pc # "settle"
        PROVE  AnsweredAfterCall'
    BY <2>2, WriteDoes, AnsweredMove
  <2> QED BY <1>5, <2>1, <2>2, TransitionWrites
<1>6. CASE Start \/ Crash
  <2>1. \A t \in Threads : th'[t].pc # "settle"
    BY <1>6, ProcessDoes
  <2> QED BY <2>1 DEF AnsweredAfterCall
<1>7. CASE Sweep
  BY <1>7, SweepDoes, AnsweredMove
<1>8. ASSUME (\E i \in Items : Age(i)) \/ (\E k \in Trackers : TrackerStep(k))
      PROVE  AnsweredAfterCall'
  BY <1>1, <1>8 DEF Age, TrackerStep, TurnOver, PollFault, LeaseLost, TrackerRead, TrackerWrite
<1>9. CASE UNCHANGED vars
  BY <1>1, <1>9 DEF vars
<1> QED BY <1>2, <1>3, <1>4, <1>5, <1>6, <1>7, <1>8, <1>9 DEF Next, ThreadStep

\* One item's state changes, or none does.
LEMMA OneMoves ==
  ASSUME NEW i \in Items, NEW to, row'[i].st = to,
         \A j \in Items \ {i} : row'[j].st = row[j].st
  PROVE  [j \in Items |-> row'[j].st] = [[j \in Items |-> row[j].st] EXCEPT ![i] = to]
<1>1. \A j \in Items : row'[j].st = IF j = i THEN to ELSE row[j].st
  OBVIOUS
<1> QED BY <1>1

LEMMA NoneMoves ==
  ASSUME \A i \in Items : row'[i].st = row[i].st, calls' = calls
  PROVE  UNCHANGED Work!workVars
<1>1. [i \in Items |-> row'[i].st] = [i \in Items |-> row[i].st]
  OBVIOUS
<1> QED BY <1>1 DEF Work!workVars

\* At most one call, and none before the item was submitted.
LEMMA CalledOnce ==
  ASSUME Base, Permits, GrantedOnce, NEW i \in Items
  PROVE  /\ calls[i] \in {0, 1}
         /\ (\E t \in Threads : th[t].pc = "call" /\ th[t].item = i) => calls[i] = 0
<1>1. calls[i] \in Nat /\ grants[i] \in Nat /\ grants[i] <= 1
  BY DEF Base, TypeOK, GrantedOnce
<1>2. calls[i] + Cardinality(Calling(i)) + Waiting(i) <= grants[i]
  BY DEF Permits, Permit
<1>3. Cardinality(Calling(i)) \in Nat /\ Waiting(i) \in {0, 1}
  BY CallingIsFinite, WaitingIsOne
<1>4. ASSUME NEW t \in Threads, th[t].pc = "call", th[t].item = i
      PROVE  calls[i] = 0
  <2>1. t \in Calling(i)
    BY <1>4 DEF Calling
  <2>2. Cardinality(Calling(i)) # 0
    BY <2>1, CallingIsFinite, FS_EmptySet
  <2> QED BY <1>1, <1>2, <1>3, <2>2
<1> QED BY <1>1, <1>2, <1>3, <1>4

\* The call of an engine.
LEMMA CallIsCall ==
  ASSUME IInv, PromiseInv, NEW t \in Threads, th[t].pc = "call",
         calls' = [calls EXCEPT ![th[t].item] = @ + 1], row' = row
  PROVE  Work!Call(th[t].item) /\ th[t].item \in Items
<1>1. Base /\ Permits /\ GrantedOnce /\ Undisturbed(t)
  BY DEF IInv, PromiseInv, QuietInv
<1>2. th[t].item \in Items /\ calls \in [Items -> Nat]
  BY <1>1 DEF Base, TypeOK, ThreadShape, WellFormed, OnItem
<1>3. row[th[t].item].st = "dispatching"
  BY <1>1 DEF Undisturbed
<1>4. calls[th[t].item] = 0
  BY <1>1, <1>2, CalledOnce
<1>5. calls' = [calls EXCEPT ![th[t].item] = 1]
  BY <1>2, <1>4
<1>6. [i \in Items |-> row'[i].st] = [i \in Items |-> row[i].st]
  OBVIOUS
<1> QED BY <1>2, <1>3, <1>4, <1>5, <1>6 DEF Work!Call

\* The writes: a claim, an answer, a reclaim, a retirement.
LEMMA WriteIsStep ==
  ASSUME IInv, PromiseInv, NEW t \in Threads, NEW pc \in Writing, Write(t, pc)
  PROVE  Work!Next
<1>0. Base /\ Owners /\ Permits /\ QuietInv /\ GrantedOnce
  BY DEF IInv, PromiseInv
<1>1. PICK x \in Items : x = th[t].item
  BY <1>0, QuietWrites
<1>2. /\ row'[x].st = th[t].to /\ calls' = calls /\ th[t].pc = pc
      /\ \A j \in Items \ {x} : row'[j].st = row[j].st
  BY <1>0, <1>1, QuietWrites
<1>3. [j \in Items |-> row'[j].st] = [[j \in Items |-> row[j].st] EXCEPT ![x] = th[t].to]
  BY <1>2, OneMoves
<1>4. CASE pc = "claim" /\ th[t].to = "dispatching" /\ row[x].st = "queued"
  <2>1. Work!Send(x)
    BY <1>2, <1>3, <1>4 DEF Work!Send, Work!Moves
  <2> QED BY <2>1 DEF Work!Next
<1>5. CASE /\ pc = "settle" /\ th[t].to \in {"failed", "running", "completed"}
           /\ row[x].st = "dispatching"
  <2>1. calls[x] = 1
    BY <1>0, <1>1, <1>2, <1>5, CalledOnce DEF PromiseInv, AnsweredAfterCall
  <2>2. Work!Answer(x)
    BY <1>2, <1>3, <1>5, <2>1 DEF Work!Answer, Work!Moves
  <2> QED BY <2>2 DEF Work!Next
<1>6. CASE pc = "reclaim" /\ th[t].to = "running" /\ row[x].st = "uncertain"
  <2>1. Work!Reclaim(x)
    BY <1>2, <1>3, <1>6 DEF Work!Reclaim, Work!Moves
  <2> QED BY <2>1 DEF Work!Next
<1>7. CASE pc = "retire" /\ th[t].to = "cancelled" /\ row[x].st = "uncertain"
  <2>1. Work!Retire(x)
    BY <1>2, <1>3, <1>7 DEF Work!Retire, Work!Moves
  <2> QED BY <2>1 DEF Work!Next
<1> QED BY <1>0, <1>1, <1>4, <1>5, <1>6, <1>7, QuietWrites

\* A tracker finishes the running row it tracks.
LEMMA TrackerIsStep ==
  ASSUME IInv, PromiseInv, NEW k \in Trackers, TrackerWrite(k)
  PROVE  Work!Next
<1>0. Base /\ QuietInv /\ row \in [Items -> Rows \cup {NoRow}] /\ epoch \in Nat
  BY DEF IInv, Base, TypeOK, PromiseInv
<1>1. PICK x \in Items : x = trk[k].item /\ row[x].st = "running"
  BY <1>0 DEF TrackerWrite, Base, TrackerShape, QuietInv, TrackersAlone
<1>2. /\ trk[k].read \in Rows /\ trk[k].to \in {"completed", "uncertain"}
      /\ trk[k].to \in WorkStates
  BY <1>0 DEF TrackerWrite, Base, TrackerShape, WorkStates, Terminal
<1>3. /\ row'[x].st = trk[k].to /\ calls' = calls
      /\ \A j \in Items \ {x} : row'[j].st = row[j].st
  BY <1>0, <1>1, <1>2, WrittenIsRow DEF TrackerWrite
<1>4. [j \in Items |-> row'[j].st] = [[j \in Items |-> row[j].st] EXCEPT ![x] = trk[k].to]
  BY <1>3, OneMoves
<1>5. Work!Finish(x)
  BY <1>1, <1>2, <1>3, <1>4 DEF Work!Finish, Work!Moves
<1> QED BY <1>5 DEF Work!Next

\* The rows a new worker finds.
LEMMA StartIsRestart == ASSUME IInv, Start PROVE Work!Restart
<1>0. Base /\ Owned /\ calls' = calls /\ epoch \in Nat
  BY DEF IInv, Owned, Start, Base, TypeOK
<1>1. ASSUME NEW i \in Items
      PROVE  row'[i].st = IF row[i].st \in {"dispatching", "running"}
                            THEN "uncertain" ELSE row[i].st
  <2>1. row'[i] = Recovered(row[i], epoch') /\ epoch' = epoch + 1
    BY DEF Start
  <2>2. row[i] \in Rows \cup {NoRow} /\ row[i].owner <= epoch
    BY <1>0 DEF Base, TypeOK, Owned, Owners
  <2>3. row'[i].st \notin {"dispatching", "running"}
    BY <1>0, NothingActiveAtStart DEF Active
  <2>4. CASE row[i] \in Rows
    BY <2>1, <2>3, <2>4 DEF Recovered, Rows, Active
  <2>5. CASE row[i] = NoRow
    BY <2>1, <2>5 DEF Recovered, NoRow, Active
  <2> QED BY <2>2, <2>4, <2>5
<1>2. [i \in Items |-> row'[i].st]
        = [i \in Items |-> IF row[i].st \in {"dispatching", "running"}
                             THEN "uncertain" ELSE row[i].st]
  BY <1>1
<1>3. \A i \in Items : [j \in Items |-> row[j].st][i] = row[i].st
  OBVIOUS
<1> QED BY <1>0, <1>2, <1>3 DEF Work!Restart

\* Every step of the worker is a step of the promise or changes nothing of it.
LEMMA PromiseStep ==
  ASSUME IInv, PromiseInv, [Next]_vars PROVE [Work!Next]_(Work!workVars)
<1>0. Base /\ row \in [Items -> Rows \cup {NoRow}]
  BY DEF IInv, Base, TypeOK
<1>1. ASSUME UNCHANGED <<row, calls>>
      PROVE  UNCHANGED Work!workVars
  BY <1>1, NoneMoves
<1>2. ASSUME NEW t \in Threads, RequestStep(t)
      PROVE  [Work!Next]_(Work!workVars)
  <2>1. ASSUME NEW i \in Items, row[i] = NoRow, row' = [row EXCEPT ![i] = FreshRow],
               calls' = calls
        PROVE  Work!Next
    <3>1. /\ row[i].st = "absent" /\ row'[i].st = "queued"
          /\ \A j \in Items \ {i} : row'[j].st = row[j].st
      BY <1>0, <2>1 DEF NoRow, FreshRow
    <3>2. [j \in Items |-> row'[j].st]
            = [[j \in Items |-> row[j].st] EXCEPT ![i] = "queued"]
      BY <3>1, OneMoves
    <3>3. Work!Submit(i)
      BY <2>1, <3>1, <3>2 DEF Work!Submit, Work!Moves
    <3> QED BY <3>3 DEF Work!Next
  <2> QED BY <1>0, <1>1, <1>2, <2>1, RequestDoes
<1>3. ASSUME NEW t \in Threads, DispatchStep(t)
      PROVE  [Work!Next]_(Work!workVars)
  <2>1. CASE th[t].pc = "call" /\ calls' = [calls EXCEPT ![th[t].item] = @ + 1] /\ row' = row
    <3>1. Work!Call(th[t].item) /\ th[t].item \in Items
      BY <2>1, CallIsCall
    <3> QED BY <3>1 DEF Work!Next
  <2> QED BY <1>0, <1>1, <1>3, <2>1, DispatchDoes
<1>4. ASSUME NEW t \in Threads, ReconcileStep(t) \/ ReadRow(t)
      PROVE  UNCHANGED Work!workVars
  BY <1>0, <1>1, <1>4, ReconcileDoes, ReadDoes
<1>5. ASSUME NEW t \in Threads, TransitionStep(t)
      PROVE  [Work!Next]_(Work!workVars)
  BY <1>0, <1>4, <1>5, TransitionWrites, WriteIsStep
<1>6. CASE Start
  <2>1. Work!Restart
    BY <1>6, StartIsRestart
  <2> QED BY <2>1 DEF Work!Next
<1>7. ASSUME NEW k \in Trackers, TrackerStep(k)
      PROVE  [Work!Next]_(Work!workVars)
  BY <1>1, <1>7, TrackerIsStep
     DEF TrackerStep, TurnOver, PollFault, LeaseLost, TrackerRead, ledger
<1>8. ASSUME NEW i \in Items, Age(i)
      PROVE  UNCHANGED Work!workVars
  BY <1>0, <1>8, AgeKeepsStates, NoneMoves DEF Age
<1>9. CASE Crash \/ Sweep \/ UNCHANGED vars
  BY <1>1, <1>9 DEF Crash, Sweep, vars, ledger
<1> QED BY <1>2, <1>3, <1>4, <1>5, <1>6, <1>7, <1>8, <1>9 DEF Next, ThreadStep

\* The invariant behind it.
THEOREM PromiseInvHolds ==
  ASSUME Unedited PROVE Spec /\ []OnePass => []PromiseInv
<1>1. Init => PromiseInv
  <2> SUFFICES ASSUME Init PROVE PromiseInv
    OBVIOUS
  <2>1. GrantedOnce /\ AnsweredAfterCall
    BY DEF Init, GrantedOnce, AnsweredAfterCall, Idle
  <2> QED BY <2>1, QuietInit DEF PromiseInv
<1>2. IInv /\ OnePass /\ PromiseInv /\ [Next]_vars => PromiseInv'
  BY QuietNext, GrantedNext, AnsweredNext DEF PromiseInv, IInv
<1> QED BY <1>1, <1>2, InvHolds, PTL DEF Spec

\* If no two reconcile passes ever overlap and nobody edits or resolves work
\* by hand, the worker implements the promise: its transitions of two
\* statements are atomic, an engine is called for an item at most once, and
\* what is over stays over, through crashes, restarts, drains and replays.
THEOREM WorkIsDoneOnce ==
  ASSUME Unedited PROVE Spec /\ []OnePass => WorkPromise
<1>1. Init => Work!Init
  <2> SUFFICES ASSUME Init PROVE Work!Init
    OBVIOUS
  <2>1. [i \in Items |-> row[i].st] = [i \in Items |-> "absent"]
    BY DEF Init, NoRow
  <2> QED BY <2>1 DEF Init, Work!Init
<1>2. IInv /\ PromiseInv /\ [Next]_vars => [Work!Next]_(Work!workVars)
  BY PromiseStep
<1> QED BY <1>1, <1>2, InvHolds, PromiseInvHolds, PTL DEF Spec, WorkPromise, Work!Spec
=============================================================================
