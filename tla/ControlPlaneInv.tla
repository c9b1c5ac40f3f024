-------------------------- MODULE ControlPlaneInv --------------------------
(***************************************************************************)
(* The inductive invariants behind the safety properties of ControlPlane:  *)
(* IInv for all of them but NothingStranded, QuietInv for that one, which  *)
(* holds as long as no two reconcile passes overlap (OnePass).             *)
(* ControlPlaneProofs proves them for every instance; run restart checks   *)
(* IInv on a small one.                                                    *)
(***************************************************************************)
EXTENDS ControlPlane

\* A thread inside _dispatch_item or inside a transition() works on an item,
\* holds a row only between the two halves of a transition, and each caller
\* of transition() asks for the states that caller writes.  Only requests
\* look at the drain outside the lock.
OnItem == Writing \cup {"deferral", "take", "recheck", "call"}

WellFormed(s) ==
  /\ s.pc \in OnItem => s.item \in Items
  /\ s.read # NoRow => s.pc \in Writing
  /\ s.pc \in {"requeue", "deferral"} => s.job \notin {"drain", "startup"}
  /\ s.pc = "claim" => s.to = "dispatching"
  /\ s.pc = "settle" => s.to \in {"failed", "running", "completed"}
  /\ s.pc = "requeue" => s.to = "queued"
  /\ s.pc = "close" => s.to \in Terminal
  /\ s.pc = "edit" => s.to \in EditStates
  /\ s.pc = "reclaim" => s.to = "running"
  /\ s.pc = "retire" => s.to = "cancelled"

ThreadShape == \A t \in Threads : WellFormed(th[t])

TrackerShape ==
  \A k \in Trackers :
    /\ trk[k].pc # "idle" => trk[k].item \in Items
    /\ trk[k].pc \in {"read", "write"} => trk[k].to \in {"completed", "uncertain"}
    /\ trk[k].pc = "write" => trk[k].read \in Rows

\* Nothing of a dead worker runs.
NobodyWhenDown ==
  ~up => /\ \A t \in Threads : th[t] = Idle
         /\ \A k \in Trackers : trk[k] = NoTracker

Base == TypeOK /\ ThreadShape /\ TrackerShape /\ NobodyWhenDown

\* Who holds the dispatch lock: a thread between its fresh read and its
\* claim, and a replay from its look at the drain to the end of its list.
Locking ==
  \A t \in Threads :
    /\ th[t].pc \in {"recheck", "claim", "list", "next"} => lock = t
    /\ Replaying(t) /\ th[t].pc \in {"take", "call", "settle"} => lock = t

\* Every permission to call an engine is in one place: used, in the hand of
\* a thread that claimed the item, or still in the queue (where a thread
\* that read the queued row is about to claim it).
Calling(i) == {t \in Threads : th[t].pc = "call" /\ th[t].item = i}
Claimant(i) == \E t \in Threads : th[t].pc \in {"recheck", "claim"} /\ th[t].item = i
Waiting(i) == IF row[i].st = "queued" \/ Claimant(i) THEN 1 ELSE 0

Permit(i) == calls[i] + Cardinality(Calling(i)) + Waiting(i) <= grants[i]
Permits == \A i \in Items : Permit(i)

\* After drain.set only the thread already past its last look can claim.
LateClaims ==
  /\ drain = "off" => late = 0
  /\ late <= 1
  /\ late = 1 => \A t \in Threads : th[t].pc # "claim"

\* No row and no row in a thread's hand names an epoch that has not begun.
Owners ==
  /\ up => epoch # 0
  /\ \A i \in Items : row[i].owner <= epoch
  /\ \A t \in Threads : th[t].read.owner <= epoch

IInv ==
  /\ Base /\ Locking /\ Permits /\ LateClaims /\ Owners
  /\ RunningIsTracked /\ DispatchingIsHeld /\ ActiveIsOwned

-----------------------------------------------------------------------------
(***************************************************************************)
(* What keeps transitions whole and queued work from being stranded.       *)
(* Nobody resolves or edits work by hand: an operator's transition can     *)
(* write over a row that a replay is dispatching.  No two reconcile passes *)
(* overlap: a second one beside the recovery thread can end it (run        *)
(* recovery_race).  And work.submit leaves rows in the queue for a later   *)
(* replay on purpose, so nothing is stranded where nobody uses it.         *)
(***************************************************************************)
Unedited == Requests \subseteq {"execute", "submit", "drain", "reconcile", "sweep"}

Unsubmitted == "submit" \notin Requests

Surveying == {"survey", "reclaimNext", "reclaim", "retireNext", "retire"}

OnePass ==
  \A t, u \in Threads : th[t].pc \in Surveying /\ th[u].pc \in Surveying => t = u

\* With these requests nobody but the recovery thread makes a pass.
Quiet == Requests \subseteq {"execute", "drain"}

\* Statements at which a thread relies on the state it last saw of its row.
Relying == {"recheck", "claim", "call", "settle", "reclaim", "retire"}

\* The state a thread relies on is still there, and what it has listed to
\* settle is still uncertain.
Undisturbed(t) ==
  /\ th[t].pc \notin {"requeue", "close", "edit"}
  /\ th[t].pc \in Surveying => th[t].job # "drain"
  /\ th[t].pc \in {"replay", "list"} => Replaying(t)
  /\ th[t].pc \in {"recheck", "claim"} => row[th[t].item].st = "queued"
  /\ th[t].pc \in {"call", "settle"} => row[th[t].item].st = "dispatching"
  /\ th[t].pc \in {"reclaim", "retire"} =>
       row[th[t].item].st = "uncertain" /\ th[t].item \notin th[t].todo
  /\ th[t].pc \in Surveying \ {"survey"} =>
       \A i \in th[t].todo : row[i].st = "uncertain"

\* No two threads rely on one row, and no two trackers.
OneRelies ==
  \A t, u \in Threads :
    th[t].pc \in Relying /\ th[u].pc \in Relying /\ th[t].item = th[u].item => t = u

TrackersAlone ==
  /\ \A k \in Trackers : trk[k].pc # "idle" => row[trk[k].item].st = "running"
  /\ \A k, m \in Trackers :
       trk[k].pc # "idle" /\ trk[m].pc # "idle" /\ trk[k].item = trk[m].item => k = m

Awake == Unsubmitted => NothingStranded

QuietInv ==
  /\ \A t \in Threads : Undisturbed(t)
  /\ OneRelies /\ TrackersAlone
  /\ \A i \in Items : row[i].st # "interrupted"
  /\ Awake

-----------------------------------------------------------------------------
(***************************************************************************)
(* What ties the worker to ExactlyOnceWork, with QuietInv: an item is put  *)
(* in the queue once, and an answer is recorded after the call.            *)
(***************************************************************************)
GrantedOnce ==
  \A i \in Items : grants[i] <= 1 /\ (row[i].st = "absent" => grants[i] = 0)

AnsweredAfterCall == \A t \in Threads : th[t].pc = "settle" => calls[th[t].item] # 0

PromiseInv == QuietInv /\ GrantedOnce /\ AnsweredAfterCall
=============================================================================
