--------------------------- MODULE PendingInputs ---------------------------
(***************************************************************************)
(* The queue of messages that wait for one Codex session                   *)
(* (ccc_server/pending_inputs.py, ccc_server/queue_events.py) and what an  *)
(* explicit Stop takes out of it (ccc_server/stop_holds.py).               *)
(*                                                                         *)
(* The queue is a file; every change of it is one transaction under the    *)
(* session's lock, which both processes take.  A delivery takes a message  *)
(* out first, hands it to the engine and puts it back when the engine did  *)
(* not take it: into the file, or else into a journal, or else into the    *)
(* memory of the worker.  The worker's threads deliver, the dashboard      *)
(* stops, releases and cancels, and its watcher reads journals back.       *)
(***************************************************************************)
EXTENDS Naturals, Sequences, SequencesExt

CONSTANTS
  Msgs,      \* messages, no two with the same text
  Lanes,     \* request threads of the worker
  Nobody,    \* no thread
  NoMsg,     \* no message
  MaxUnsent, \* bound on the deliveries of claims that fail, and on timeouts
  MaxFaults, \* bound on crashes and on failures to write
  MaxStops   \* bound on Stops that find something queued

ASSUME PendingAssumption ==
  /\ NoMsg \notin Msgs /\ Nobody \notin Lanes
  /\ {MaxUnsent, MaxFaults, MaxStops} \subseteq Nat

VARIABLES
  queue,     \* resume_queue of the session in PENDING_INPUTS_FILE
  ledger,    \* applied_claim_journal_ids in the same file
  journals,  \* claims in the journal directory
  held,      \* items of the session in stop-held-inputs.json
  owner,     \* holder of the session's lock across several transactions
  lane,      \* what each worker thread is doing
  registry,  \* _pending_input_recovery_registry of the worker
  timed,     \* codex_turn_reconcile._records: messages with a timed-out send
  acks,      \* threads of the worker that wait to reconcile an ack
  watch,     \* journals the watcher's pass has still to put back
  stop,      \* entries a Stop has taken out and not yet held
  late,      \* sends the engine did not answer in time and may still take
  landed,    \* messages in the rollout
  unsent, faults, stops,
  accepted,  \* history: the sender was told that the message is in
  settled,   \* history: proven delivered, or cancelled
  lost,      \* history: gone with a process, with a failed write, or with the
             \* answer to another release
  volatile,  \* history: a claim of it was kept in memory only
  work,      \* the worker's work item for the release of a message
  repeated   \* history: released and put back among the held ones as well

disk == <<queue, ledger, journals>>
memory == <<registry, timed, acks>>
engine == <<late, landed, unsent>>
stopper == <<stop, stops>>
releases == <<work, repeated>>
history == <<accepted, settled, lost, volatile, releases>>
vars == <<disk, held, owner, lane, memory, watch, stopper, engine, faults,
          history>>

Idle == [pc |-> "idle", kind |-> "", msg |-> NoMsg, at |-> 0, seq |-> 0,
         todo |-> {}]
Unsure(m) == [Idle EXCEPT !.pc = "unsure", !.msg = m]
Claims == [msg : Msgs, at : Nat, seq : Nat]

Queued == {"pump", "steer"}             \* deliveries of queued messages
Direct == {"fresh", "release", "orphan"} \* sends of messages not queued

TypeOK ==
  /\ queue \in Seq(Msgs) /\ held \in Seq(Msgs) /\ stop \in Seq(Msgs)
  /\ journals \subseteq Claims /\ registry \subseteq Claims
  /\ watch \subseteq Claims
  /\ ledger \subseteq Nat
  /\ owner \in Lanes \cup {Nobody}
  /\ lane \in [Lanes -> [pc : {"idle", "submit", "pass", "claimed",
                                "sending", "unsent", "park", "failed", "unsure"},
                          kind : {""} \cup Queued \cup Direct,
                          msg : Msgs \cup {NoMsg}, at : Nat, seq : Nat,
                          todo : SUBSET Claims]]
  /\ acks \subseteq [msg : Msgs, seen : Seq(Msgs)]
  /\ late \in [Msgs -> 0..MaxUnsent]
  /\ unsent \in 0..MaxUnsent /\ faults \in 0..MaxFaults
  /\ stops \in 0..MaxStops
  /\ work \in [Msgs -> {"none", "open", "refused", "uncertain"}]
  /\ \A S \in {timed, landed, accepted, settled, lost, volatile, repeated} :
       S \subseteq Msgs

Init ==
  /\ queue = <<>> /\ ledger = {} /\ journals = {}
  /\ held = <<>> /\ owner = Nobody /\ lane = [l \in Lanes |-> Idle]
  /\ registry = {} /\ timed = {} /\ acks = {}
  /\ watch = {} /\ stop = <<>>
  /\ late = [m \in Msgs |-> 0] /\ landed = {}
  /\ unsent = 0 /\ faults = 0 /\ stops = 0
  /\ accepted = {} /\ settled = {} /\ lost = {} /\ volatile = {}
  /\ work = [m \in Msgs |-> "none"] /\ repeated = {}

-----------------------------------------------------------------------------
Fault == faults < MaxFaults /\ faults' = faults + 1
Unsent == unsent < MaxUnsent /\ unsent' = unsent + 1
Free(l) == owner \in {Nobody, l}
Goes(l, pc) == lane' = [lane EXCEPT ![l].pc = pc]
Leaves(l, r) ==
  /\ lane' = [lane EXCEPT ![l] = r]
  /\ owner' = IF owner = l THEN Nobody ELSE owner
Ends(l) == Leaves(l, Idle)

\* claim_sequence, the time of the claim: later than any that is still around.
NextSeq ==
  1 + Max({0} \cup ledger \cup {lane[l].seq : l \in Lanes}
          \cup {c.seq : c \in journals \cup registry \cup watch})

Newest(S) == CHOOSE c \in S : \A d \in S : d.seq <= c.seq
Oldest(S) == CHOOSE c \in S : \A d \in S : c.seq <= d.seq
MsgsOf(S) == {c.msg : c \in S}

\* list.insert with the index clamped to the list.
Place(q, c) == InsertAt(q, (IF c.at < Len(q) THEN c.at ELSE Len(q)) + 1, c.msg)

\* Every transaction of the worker starts from the file with the claims of its
\* memory put back, newest first, each unless its entry is there by then.
AddMissing(q, c) == IF c.msg \in ToSet(q) THEN q ELSE Place(q, c)
Restored[S \in SUBSET registry] ==
  IF S = {} THEN queue
  ELSE AddMissing(Restored[S \ {Oldest(S)}], Oldest(S))
Merged == Restored[registry]

Deliver(m) == settled' = settled \cup {m} /\ accepted' = accepted \cup {m}

-----------------------------------------------------------------------------
(* Sends: resume_session_codex without a queued row *)

\* A message the user sends, or one he releases from a Stop.  A release puts
\* back at the front what could not be sent.
Send(l, m) ==
  /\ lane[l] = Idle
  /\ m \notin accepted \cup landed /\ late[m] = 0
  /\ \A k \in Lanes : lane[k].msg # m
  /\ lane' = [lane EXCEPT ![l] = [Idle EXCEPT !.pc = "submit", !.kind = "fresh",
                                              !.msg = m]]
  /\ UNCHANGED <<disk, held, owner, memory, watch, stopper, engine, faults,
                 history>>

Release(l, m) ==
  /\ lane[l] = Idle /\ m \in ToSet(held) /\ work[m] = "none"
  /\ held' = RemoveFirst(held, m) /\ work' = [work EXCEPT ![m] = "open"]
  /\ lane' = [lane EXCEPT ![l] = [Idle EXCEPT !.pc = "submit", !.kind = "release",
                                              !.msg = m]]
  /\ UNCHANGED <<disk, owner, memory, watch, stopper, engine, faults, accepted,
                 settled, lost, volatile, repeated>>

\* Every release of a message carries the same idempotency key: a second one
\* the worker answers from the work item of the first, and executes nothing.
\* Of an item that is done, or that a crash left uncertain, it says yes; of
\* one that failed (an uncertain one too, once it is retired) it says no, and
\* the message goes back, unless that fails.
Answer(m) ==
  /\ m \in ToSet(held) /\ work[m] # "none"
  /\ held' = RemoveFirst(held, m)
  /\ \/ work[m] # "refused" /\ UNCHANGED faults
     \/ work[m] # "open" /\ Fault
  /\ lost' = lost \cup {m}
  /\ UNCHANGED <<disk, owner, lane, memory, watch, stopper, engine, accepted,
                 settled, volatile, work, repeated>>

\* _queue_codex_resume appends a message whose text is not queued yet.
Enqueue(m) ==
  /\ queue' = IF m \in ToSet(Merged) THEN Merged ELSE Append(Merged, m)
  /\ accepted' = accepted \cup {m}

\* A send that was queued, or taken by the engine, is over when its reply is
\* there.  The reply to a release may get lost, or the worker may die before it
\* sends it: that is settled here, and the dashboard notices whenever it does.
Done(l) ==
  \/ Ends(l) /\ UNCHANGED faults
  \/ lane[l].kind = "release" /\ Fault /\ Leaves(l, Unsure(lane[l].msg))

\* Behind earlier messages a send waits; with none of them it goes out now.
Submit(l) ==
  /\ lane[l].pc = "submit" /\ owner = Nobody
  /\ IF Merged # <<>>
     THEN Enqueue(lane[l].msg) /\ Done(l)
     ELSE Goes(l, "sending") /\ UNCHANGED <<queue, owner, faults, accepted>>
  /\ UNCHANGED <<ledger, journals, held, memory, watch, stopper, engine, settled,
                 lost, volatile, releases>>

\* The engine did not take a message sent directly: it is queued after all.
Park(l) ==
  /\ lane[l].pc = "park" /\ owner = Nobody
  /\ Enqueue(lane[l].msg) /\ Done(l)
  /\ UNCHANGED <<ledger, journals, held, memory, watch, stopper, engine, settled,
                 lost, volatile, releases>>

\* The queue cannot be written: the caller is told, if it is still there.
SendFails(l) ==
  /\ lane[l].pc \in {"submit", "park"} /\ owner = Nobody
  /\ Fault
  /\ IF lane[l].kind = "release" THEN Goes(l, "failed") /\ UNCHANGED owner
     ELSE Ends(l)
  /\ lost' = IF lane[l].kind = "orphan" THEN lost \cup {lane[l].msg} ELSE lost
  /\ work' = IF lane[l].kind = "fresh" THEN work
             ELSE [work EXCEPT ![lane[l].msg] = "refused"]
  /\ UNCHANGED <<disk, held, memory, watch, stopper, engine, accepted, settled,
                 volatile, repeated>>

\* stop_holds.restore: back to the front of the held ones, unless it is there
\* by now.  The dashboard does it after a refusal, and when it does not know:
\* then the message is queued or delivered too.  The write may fail.
RestoreHeld(m) == held' = IF m \in ToSet(held) THEN held ELSE <<m>> \o held

ReleaseFails(l) ==
  /\ lane[l].pc \in {"failed", "unsure"}
  /\ Ends(l)
  /\ \/ /\ RestoreHeld(lane[l].msg) /\ UNCHANGED <<faults, lost>>
        /\ repeated' = IF lane[l].pc = "unsure" THEN repeated \cup {lane[l].msg}
                       ELSE repeated
     \/ /\ Fault /\ UNCHANGED <<held, repeated>>
        /\ lost' = IF lane[l].pc = "failed" THEN lost \cup {lane[l].msg} ELSE lost
  /\ UNCHANGED <<disk, memory, watch, stopper, engine, accepted, settled,
                 volatile, work>>

-----------------------------------------------------------------------------
(* Deliveries of queued messages: recovery first, then the claim *)

Passes(l, kind, m, todo) ==
  lane' = [lane EXCEPT ![l] = [Idle EXCEPT !.pc = "pass", !.kind = kind,
                                           !.msg = m, !.todo = todo]]

\* _retry_pending_input_recovery: the claims in memory go to the file, or to
\* journals where that fails; then the journals are read.
Retry(l, kind, m) ==
  \/ /\ queue' = Merged /\ registry' = {}
     /\ Passes(l, kind, m, journals)
     /\ UNCHANGED <<journals, faults>>
  \/ \E S \in SUBSET registry :
       /\ registry # {}
       /\ Fault
       /\ journals' = journals \cup S /\ registry' = registry \ S
       /\ Passes(l, kind, m, IF S = {} THEN {} ELSE journals')
       /\ UNCHANGED queue

\* The first half of a delivery, under the lock, which it keeps.
Begin(l, kind, m) ==
  /\ lane[l] = Idle /\ owner = Nobody
  /\ owner' = l
  /\ Retry(l, kind, m)
  /\ UNCHANGED <<ledger, held, timed, acks, watch, stopper, engine, history>>

\* _codex_queued_delivery_transaction, and _codex_queued_steer_transaction of
\* a row some client shows.
Pump(l) == (queue # <<>> \/ registry # {}) /\ Begin(l, "pump", NoMsg)
Steer(l, m) == m \in ToSet(queue) /\ Begin(l, "steer", m)

\* Mutant: entries and ledger are not written together.
PutBackUnrecorded(c, q) ==
  queue' = (IF c.seq \in ledger THEN q ELSE Place(q, c)) /\ UNCHANGED ledger

\* Mutant: a journal that is found is put back.
PutBackAgain(c, q) == queue' = Place(q, c) /\ ledger' = ledger \cup {c.seq}

\* _recover_pending_input_claim_journals puts a journal back at most once: its
\* id enters the file with the entry, and the file outlives the journal.
PutBack(c, q) ==
  /\ queue' = IF c.seq \in ledger THEN q ELSE Place(q, c)
  /\ ledger' = ledger \cup {c.seq}

\* Mutant: the journal is removed whatever became of the write.
ReadBackFinally(c, q) ==
  /\ journals' = journals \ {c}
  /\ \/ PutBack(c, q) /\ UNCHANGED faults
     \/ Fault /\ UNCHANGED <<queue, ledger>>

\* Mutant: a journal that has been put back is skipped, not removed.
ReadBackOnce(c, q) ==
  IF c.seq \in ledger THEN UNCHANGED <<disk, faults>>
  ELSE \/ PutBack(c, q) /\ journals' = journals \ {c} /\ UNCHANGED faults
       \/ PutBack(c, q) /\ Fault /\ UNCHANGED journals
       \/ Fault /\ UNCHANGED disk

\* One journal of a pass.  The write may fail, which leaves the journal for
\* the next pass, and so may the removal of the journal after the write.
ReadBack(c, q) ==
  \/ PutBack(c, q) /\ journals' = journals \ {c} /\ UNCHANGED faults
  \/ PutBack(c, q) /\ Fault /\ UNCHANGED journals
  \/ Fault /\ UNCHANGED disk

Recover(l) ==
  /\ lane[l].pc = "pass" /\ lane[l].todo # {}
  /\ LET c == Newest(lane[l].todo)
     IN  ReadBack(c, Merged) /\ lane' = [lane EXCEPT ![l].todo = @ \ {c}]
  /\ UNCHANGED <<held, owner, memory, watch, stopper, engine, history>>

\* The watcher's passes take the lock for each journal anew.
WatchBegin ==
  /\ watch = {} /\ journals # {}
  /\ watch' = journals
  /\ UNCHANGED <<disk, held, owner, lane, memory, stopper, engine, faults,
                 history>>

WatchRecover ==
  /\ watch # {} /\ owner = Nobody
  /\ LET c == Newest(watch)
     IN  ReadBack(c, queue) /\ watch' = watch \ {c}
  /\ UNCHANGED <<held, owner, lane, memory, stopper, engine, history>>

Blocked == registry # {} \/ journals # {}

\* What the transaction would take: the head, or the row to steer.
Position(l) ==
  IF lane[l].kind = "steer" THEN SelectInSeq(queue, LAMBDA m : m = lane[l].msg)
  ELSE IF queue = <<>> THEN 0 ELSE 1

\* The claim leaves the queue in the file.  A pump lets the lock go before it
\* delivers, a Steer keeps it.
Claim(l) ==
  /\ lane[l].pc = "pass" /\ lane[l].todo = {}
  /\ ~Blocked /\ Position(l) # 0
  /\ queue' = RemoveAt(queue, Position(l))
  /\ lane' = [lane EXCEPT ![l].pc = IF lane[l].kind = "pump" THEN "claimed"
                                    ELSE "sending",
                          ![l].msg = queue[Position(l)],
                          ![l].at = Position(l) - 1, ![l].seq = NextSeq]
  /\ owner' = IF lane[l].kind = "pump" THEN Nobody ELSE l
  /\ UNCHANGED <<ledger, journals, held, memory, watch, stopper, engine, faults,
                 history>>

NoClaim(l) ==
  /\ lane[l].pc = "pass" /\ lane[l].todo = {}
  /\ IF Blocked \/ Position(l) = 0 THEN UNCHANGED faults ELSE Fault
  /\ Ends(l)
  /\ UNCHANGED <<disk, held, memory, watch, stopper, engine, history>>

-----------------------------------------------------------------------------
(* The engine's answer, and what becomes of the claim *)

\* A send of this message has timed out before and is in the rollout by now.
Landed(l) == lane[l].msg \in timed \cap landed

Check(l) ==
  /\ lane[l].pc = "claimed"
  /\ IF Landed(l)
     THEN /\ timed' = timed \ {lane[l].msg}
          /\ Deliver(lane[l].msg) /\ Ends(l)
     ELSE Goes(l, "sending") /\ UNCHANGED <<timed, settled, accepted, owner>>
  /\ UNCHANGED <<disk, held, registry, acks, watch, stopper, engine, faults,
                 lost, volatile, releases>>

\* Accepted by the engine: the claim is committed, the message leaves for good.
Commit(l) ==
  /\ lane[l].pc = "sending"
  /\ landed' = landed \cup {lane[l].msg}
  /\ Deliver(lane[l].msg) /\ Done(l)
  /\ UNCHANGED <<disk, held, memory, watch, stopper, late, unsent, lost, volatile,
                 releases>>

\* Refused, or not answered in time: then it may still land, and of a
\* turn/start (not of a Steer) the worker remembers that.  That a turn is
\* running when a message is sent is how messages come to be queued: no fault.
Rejected(l) ==
  /\ lane[l].pc = "sending"
  /\ IF lane[l].kind \in Queued
     THEN Unsent /\ Goes(l, "unsent")
     ELSE UNCHANGED unsent /\ Goes(l, "park")
  /\ UNCHANGED <<disk, held, owner, memory, watch, stopper, late, landed, faults,
                 history>>

TimedOut(l) ==
  /\ lane[l].pc = "sending"
  /\ Unsent
  /\ Goes(l, IF lane[l].kind \in Queued THEN "unsent" ELSE "park")
  /\ late' = [late EXCEPT ![lane[l].msg] = @ + 1]
  /\ timed' = IF lane[l].kind = "steer" THEN timed ELSE timed \cup {lane[l].msg}
  /\ UNCHANGED <<disk, held, owner, registry, acks, watch, stopper, landed, faults,
                 history>>

ClaimOf(l) == [msg |-> lane[l].msg, at |-> lane[l].at, seq |-> lane[l].seq]

\* _codex_restore_or_journal_claim: back into the file, ...
Restore(l) ==
  /\ lane[l].pc = "unsent" /\ Free(l)
  /\ queue' = Place(Merged, ClaimOf(l)) /\ Ends(l)
  /\ UNCHANGED <<ledger, journals, held, memory, watch, stopper, engine, faults,
                 history>>

\* ... or into a journal, ...
Journal(l) ==
  /\ lane[l].pc = "unsent" /\ Free(l)
  /\ Fault
  /\ journals' = journals \cup {ClaimOf(l)} /\ Ends(l)
  /\ UNCHANGED <<queue, ledger, held, memory, watch, stopper, engine, history>>

\* ... or else into the memory of the worker.
Keep(l) ==
  /\ lane[l].pc = "unsent" /\ Free(l)
  /\ Fault
  /\ registry' = registry \cup {ClaimOf(l)} /\ Ends(l)
  /\ volatile' = volatile \cup {lane[l].msg}
  /\ UNCHANGED <<disk, held, timed, acks, watch, stopper, engine, accepted,
                 settled, lost, releases>>

\* A late send lands after all.  The engine's notification reconciles a copy
\* that is still queued: at once, or in a thread when the lock is taken.
Take(m) == queue' = RemoveFirst(Merged, m) /\ settled' = settled \cup {m}

Land(m) ==
  /\ late[m] > 0
  /\ late' = [late EXCEPT ![m] = @ - 1] /\ landed' = landed \cup {m}
  /\ CASE m \notin ToSet(queue) -> UNCHANGED <<queue, settled, acks, faults>>
       [] m \in ToSet(queue) /\ owner = Nobody ->
            /\ UNCHANGED acks
            /\ \/ Take(m) /\ UNCHANGED faults
               \/ Fault /\ UNCHANGED <<queue, settled>>
       [] OTHER -> /\ acks' = acks \cup {[msg |-> m, seen |-> queue]}
                   /\ UNCHANGED <<queue, settled, faults>>
  /\ UNCHANGED <<ledger, journals, held, owner, lane, registry, timed, watch,
                 stopper, unsent, accepted, lost, volatile, releases>>

\* The thread consumes the row only from the file it looked at; any write in
\* between, for another session too, ends it.
Reconcile(a) ==
  /\ owner = Nobody
  /\ acks' = acks \ {a}
  /\ \/ queue = a.seen /\ Take(a.msg)
     \/ UNCHANGED <<queue, settled>>
  /\ UNCHANGED <<ledger, journals, held, owner, lane, registry, timed, watch,
                 stopper, engine, faults, accepted, lost, volatile, releases>>

-----------------------------------------------------------------------------
(* Stop and cancel, in the dashboard *)

\* _hold_queued_inputs_for_stop takes the entries out of the queue, ...
Stop ==
  /\ stop = <<>> /\ queue # <<>> /\ owner = Nobody
  /\ stops < MaxStops /\ stops' = stops + 1
  /\ stop' = queue /\ queue' = <<>>
  /\ UNCHANGED <<ledger, journals, held, owner, lane, memory, watch, engine,
                 faults, history>>

\* ... then writes them to the store of held items, which may fail.
Hold ==
  /\ stop # <<>>
  /\ stop' = <<>>
  /\ \/ held' = held \o stop /\ UNCHANGED <<lost, faults>>
     \/ Fault /\ lost' = lost \cup ToSet(stop) /\ UNCHANGED held
  /\ UNCHANGED <<disk, owner, lane, memory, watch, stops, engine, accepted,
                 settled, volatile, releases>>

\* Cancel by id looks in the queue, then among the held items.  What it finds
\* in neither (a claim that is being delivered) it reports as gone already.
Cancel(m) ==
  /\ \/ /\ owner = Nobody /\ m \in ToSet(queue)
        /\ queue' = RemoveFirst(queue, m) /\ UNCHANGED held
     \/ m \in ToSet(held) /\ held' = RemoveFirst(held, m) /\ UNCHANGED queue
  /\ settled' = settled \cup {m}
  /\ UNCHANGED <<ledger, journals, owner, lane, memory, watch, stopper, engine,
                 faults, accepted, lost, volatile, releases>>

-----------------------------------------------------------------------------
(* Crashes *)

\* Threads with a claim in hand, and with it or with a message sent directly.
Taken(l) ==
  lane[l].pc \in {"claimed", "sending", "unsent"} /\ lane[l].kind \in Queued
InHand(l) == Taken(l) \/ lane[l].kind \in Direct
\* Mutant: threads without a message count as well.
InAnyLane(kind) == {lane[l].msg : l \in Lanes}
InLane(kind) == {lane[l].msg : l \in {k \in Lanes : lane[k].kind = kind}}

\* The worker dies and is started again; releases find their requests failed.
\* One that came just before may have left no work item.
WorkerCrash ==
  LET release == {l \in Lanes : lane[l].kind = "release"}
      cut == {l \in Lanes : lane[l].kind \in {"release", "orphan"}
                            /\ lane[l].pc \in {"submit", "sending", "park"}}
  IN  /\ Fault
      /\ lane' = [l \in Lanes |->
                    IF lane[l].pc = "unsure" THEN lane[l]
                    ELSE IF l \in release THEN [lane[l] EXCEPT !.pc = "failed"]
                    ELSE Idle]
      /\ owner' = Nobody
      /\ registry' = {} /\ timed' = {} /\ acks' = {}
      /\ \E unwritten \in SUBSET {l \in cut : lane[l].pc = "submit"} :
           work' = [m \in Msgs |->
                     IF \E l \in unwritten : lane[l].msg = m THEN "none"
                     ELSE IF \E l \in cut : lane[l].msg = m THEN "uncertain"
                     ELSE work[m]]
      /\ lost' = lost \cup {lane[l].msg : l \in {k \in Lanes : Taken(k)}}
                      \cup (MsgsOf(registry) \ ToSet(queue)) \cup InLane("orphan")
      /\ UNCHANGED <<disk, held, watch, stopper, engine, accepted, settled,
                     volatile, repeated>>

\* The dashboard dies: with it a Stop between its two writes, and the threads
\* that wait for a release and would put back what it does not deliver.
DashboardCrash ==
  LET failed == {l \in Lanes : lane[l].pc = "failed"}
  IN  /\ Fault
      /\ watch' = {} /\ stop' = <<>>
      /\ lost' = lost \cup ToSet(stop) \cup {lane[l].msg : l \in failed}
      /\ lane' = [l \in Lanes |->
                    IF lane[l].pc \in {"failed", "unsure"} THEN Idle
                    ELSE IF lane[l].kind = "release"
                    THEN [lane[l] EXCEPT !.kind = "orphan"] ELSE lane[l]]
      /\ UNCHANGED <<disk, held, owner, memory, stops, engine, accepted, settled,
                     volatile, releases>>

LaneStep(l) ==
  \/ Submit(l) \/ Park(l) \/ SendFails(l) \/ ReleaseFails(l)
  \/ Recover(l) \/ Claim(l) \/ NoClaim(l)
  \/ Check(l) \/ Commit(l) \/ Rejected(l) \/ TimedOut(l)
  \/ Restore(l) \/ Journal(l) \/ Keep(l)

WatchStep == WatchBegin \/ WatchRecover

Next ==
  \/ \E l \in Lanes : LaneStep(l) \/ Pump(l)
  \/ \E l \in Lanes, m \in Msgs : Send(l, m) \/ Release(l, m) \/ Steer(l, m)
  \/ \E m \in Msgs : Land(m) \/ Cancel(m) \/ Answer(m)
  \/ \E a \in acks : Reconcile(a)
  \/ WatchStep \/ Stop \/ Hold \/ WorkerCrash \/ DashboardCrash

Spec == Init /\ [][Next]_vars

\* Threads run on, the watcher looks at the journals and pumps a queue that
\* is not empty (every 5 s), and a Stop finishes.  Nothing makes users act,
\* and nothing makes a late send land.
FairSpec ==
  /\ Spec
  /\ \A l \in Lanes : WF_vars(LaneStep(l))
  /\ WF_vars(\E l \in Lanes : queue # <<>> /\ Pump(l))
  /\ WF_vars(WatchStep) /\ WF_vars(Hold)

-----------------------------------------------------------------------------
(* Properties *)

\* Where a message waits: rows of the queue, held items, entries between the
\* two writes of a Stop, journals not put back, worker threads.
At(s, m) == {i \in DOMAIN s : s[i] = m}
Unread(m) == {c \in journals : c.msg = m /\ c.seq \notin ledger}
Hands(m) == {l \in Lanes : lane[l].msg = m /\ InHand(l)}
Places(m) ==
  ({"queued"} \X At(queue, m)) \cup ({"held"} \X At(held, m))
  \cup ({"stopped"} \X At(stop, m))
  \cup ({"journal"} \X Unread(m)) \cup ({"thread"} \X Hands(m))

\* A message that was accepted waits somewhere until it is delivered or
\* cancelled.  Only a crash, a Stop or a failed release that cannot write, and
\* a second release that is answered for the first, take it away.
NothingLost ==
  \A m \in accepted \ (settled \cup lost) :
    Places(m) # {} \/ m \in MsgsOf(registry)

\* Messages that may have a second copy: a claim was left to the worker's
\* memory, or the reply to a release got lost.
Doubled == volatile \cup repeated

\* Nowhere does a message wait twice, whatever is put back, journaled, held
\* and released at once, unless it is one of those: one copy delivers it, the
\* other would deliver it again.
OnePlace == \A m \in Msgs \ Doubled : \A p, q \in Places(m) : p = q

\* What was proven delivered or cancelled does not come back, from a journal
\* that was read before, from a claim still in hand or from a release.
SettledIsGone == \A m \in settled \ Doubled : Places(m) = {}

\* Recovery does not block the queue for good: a message that was accepted is
\* delivered, cancelled or held, as long as the worker did not keep its claim
\* in memory only.
AcceptedSettles ==
  \A m \in Msgs :
    m \in accepted ~> m \in settled \cup lost \cup volatile \cup ToSet(held)
=============================================================================
