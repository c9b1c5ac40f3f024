# A verification of the Claude Command Center

Claude Command Center (CCC) runs coding agents for a dashboard. Three parts of
it have to be right in ways that are hard to test. The *control plane*: a
persistent execution worker takes work from the dashboard over a Unix socket,
records it in a SQLite ledger, hands it to an engine (Claude, Codex, Kimi, ...)
and has to survive crashes, restarts, pauses and impatient operators without
running a turn twice or losing one. The *queue of pending messages*, which
worker and dashboard share as a file: claims, put-backs, Stops and crashes must
neither lose a message nor keep it twice. And the *dashboard's copies of what
the server knows*: rows, tickets and sent messages that a page shows from pushed
events, list reads, caches and optimistic edits, none of which may take back
what is newer. This directory models them in TLA+, checks them with TLC and
proves their main safety properties with TLAPS.

Paths below are relative to the repository (`src/` in PROJECT.json).

## 1. Inventory

| Component | State | Operations | Talks to | Hard behaviour | What makes it correct |
|---|---|---|---|---|---|
| Work ledger, `control_plane.py` (`WorkLedger`) | tables `work_items`, `work_edges`, `work_events`, `control_meta` (drain) | `submit`, `transition`, `renew_lease`, `recover_orphaned_running`, `children`, `set_drain` | opened by the worker; one connection per call | `transition` reads and writes in two statements; processes die between calls | keys unique; the state machine `ALLOWED_TRANSITIONS`; uncertain work is never replayed by itself |
| Worker runtime, `ccc_worker.py` (`WorkerRuntime`, request handlers) | epoch, engine host, account counters | `drain.set`, `work.*`, `engine.execute`, `engine.query`, `account.retire`; the recovery and the sweep thread | clients over the socket, ledger, engine host | one thread per request, two background threads | a lifted drain replays what it held back; the uncertain count can reach zero |
| Engine host, `worker_engines.py` (`EngineHost`) | `_dispatch_lock`; one tracker thread per running item | `execute`, `dispatch_queued`, `reconcile_uncertain`, `retire_stale_uncertain`, `resolve_uncertain`, `_track_async_loop` | ledger, engines through `server.py` | claim races, drain races, trackers and reconcilers on one row | one engine call per grant; every active row has somebody who will close it |
| Worker hand-over, `ccc_worker.py` (`serve`) | `worker.sock`, `worker.pid` | probe, pid check, unlink, recover, bind, write the pid, stop | launchd/systemd, dashboard | stale files after crashes, failed probes, two starters, a pid file that cannot be written | the serving worker stays reachable; recovery never runs beside a serving worker |
| Control-plane client, `control_plane.py` (`ControlPlaneClient`) | none | `request` | dashboard, worker | lost replies (`ambiguous`) | no second execution of an ambiguous request |
| Dashboard, `server.py` | HTTP state, restart handlers, engine fallback | hundreds of endpoints; `_safe_worker_restart_precheck`, `_restart_worker_process`, `_start_control_plane_worker` | worker, browser | restart in several steps, drain leaks | a drain set for a restart is lifted whatever fails |
| Pending inputs, `ccc_server/pending_inputs.py`, `queue_events.py`, `delivery.py` | queue file with the ledger of applied journals, claim journals, claims in memory, per-session file lock | send, enqueue, claim, deliver, commit, restore, journal, recover, cancel | dashboard, worker, engines | deliveries outside the lock, failing writes, crashes between take-out and put-back, late landings | a message that was accepted waits in exactly one place until it is delivered or cancelled |
| Stop holds, `ccc_server/stop_holds.py` | held inputs of stopped sessions | hold, release, discard | pending inputs | stop racing delivery, two stores | held text is never delivered automatically, nor lost by a release that fails |
| Inject receipts and recovery, `ccc_server/inject_receipts.py`, `inject_recovery.py` | receipts, attempts | record, confirm, decide | pending inputs, engines | crash between attempt and record | bounded attempts, each recorded first |
| Wake guard and rerun, `ccc_server/wake_guard.py`, `auto_rerun.py` | wake ledger | request, progress, escalate | recovery paths | several wakers | at most two wakes a day, none without progress |
| Codex server requests, `ccc_server/codex_requests.py` | pending requests per connection | open, answer, expire | Codex app-server, browser | answers racing disconnects | exactly-once answer per connection |
| Decision delivery, `ccc_server/decision_delivery.py` | answers, attempts, receipts | deliver, look up receipt | decision sources | interrupted delivery | unknown outcomes never blindly retried |
| Event hub, `ccc_server/events.py`, and its handler in `server.py` | bounded ring, versions, boot id | publish, wait, stream | request handlers, pages | ring overflow, restart, dead connections | no gap without a resync |
| Event client, `static/app.js` | cursor, versions, patches, rows, list read | apply, patch, reread, persist | hub, list endpoint | late list reads, hints during a read, recovery reads, reloads, saved list bodies | a page that followed the stream shows the last write of every row |
| Pending sends, `static/app.js` | echoes per pane, saved rows per conversation, timers | send, mark, restore, reconcile, cancel | send handlers, transcript, queue cards | answers after a change of conversation or pane, late landings, transcript rows that match no echo | a message is on screen exactly once, from the key press to its transcript row |
| Queue board, `static/app.js`, `ccc_server/queue_events.py` | memo, versions, mirror, cache, placeholders | list, delta, rebuild, edit, file, refresh | event stream, ticket store | three copies of one list, edits during reads, hints without end, versions issued again after a restart | the mirror never drifts; the board loads and settles |
| Archive after a turn, `ccc_server/archive_deferred.py` | deferred actions | defer, apply | sessions | turn end racing the request | a working session is not stopped mid-turn |
| Everything else | engine adapters, transcript parsing, search, usage, WatchTower, federation, cloud relay, front ends | | | I/O and presentation | not in the plan |

PROJECT.json lists each with what is modelled or why it is not.

## 2. Modules

| Module | Models |
|---|---|
| `WorkLedger` | rows of the ledger and what one SQL statement does to them; no variables |
| `ControlPlane` | worker process, request threads, recovery and sweep thread, trackers, dispatch lock, drain, on one ledger; EXTENDS `WorkLedger`, implements `ExactlyOnceWork` under the conditions of section 4 |
| `ExactlyOnceWork` | abstract specification: what the worker promises about submitted work |
| `ControlPlaneInv` | the inductive invariants `IInv` and `PromiseInv` |
| `ControlPlaneProofs` | TLAPS proofs for every instance |
| `MCControlPlane` | symmetry sets for TLC |
| `WorkerStartup` | the hand-over from one worker process to the next: socket, pid file, recovery |
| `WorkerStartupProofs` | TLAPS proofs about it |
| `WorkerRestart` | the dashboard's restart handlers and boot, and the drain record, composed with the hand-over; EXTENDS `WorkerStartup` |
| `WorkerRestartProofs` | TLAPS: restarts are hand-overs, and what follows |
| `ChangeFeed` | abstract specification: what the event stream promises a page |
| `EventStream` | handlers, hub, stream handler, connection and page; implements `ChangeFeed` |
| `EventStreamProofs` | TLAPS: its invariant, the refinement, and that a page that caught up is current |
| `PendingSends` | the optimistic echoes of sent messages in one pane |
| `PendingSendsProofs` | TLAPS: types, that a landed message has no echo, and that an attentive user's message is neither gone early nor back again |
| `QueueBoard` | the ticket list from the store through memo, mirror and cache to the panel |
| `QueueBoardProofs` | TLAPS: the mirror is the list its version names, and types |
| `PendingInputs` | the queue of messages of one Codex session: sends, pumps, Steers, claims, recovery, Stop, release, cancel, crashes |
| `PendingInputsProofs` | TLAPS: types, that no message is lost, kept twice or brought back |
| `SequenceLemmas` | TLAPS: what insertion, removal and concatenation do to the entries of a queue |
| `StoppedInputs` | `PendingInputs` with a record of what waited when Stop was pressed |
| `MCEventStream`, `MCPendingSends`, `MCQueueBoard` | the instances for TLC |

### How `ControlPlane` corresponds to the code

*Granularity.* Requests run on threads of their own
(`ThreadingUnixStreamServer`), so a step is one ledger statement, one engine
call, or one entry into or exit from `_dispatch_lock`. `transition()` is two
steps, `ReadRow` and a `Write`: Python's `sqlite3` opens its transaction at the
first write, so the SELECT is in autocommit, and the UPDATE names only the id.
`submit()` is one step: its INSERT is guarded by the UNIQUE column and a
conflict returns the row that is there.

*Threads.* `th[t]` holds the statement a thread is about to execute (`pc`), the
request or duty it works for (`job`), its item, the target state of a
transition, the row that transition has read, and the rest of a list it is
walking. `trk[k]` is a tracker thread. An exception that leaves a handler is
`Raised`: the thread ends and its `with` blocks release the lock. The
`_dispatch_lock` is an RLock: a replay keeps it across the items of its list
(`LeaveLock`).

*Process.* `Start` is `serve()` from the recovery of the ledger to the start of
the recovery thread: no request is accepted in between, and a crash in between
leaves what a later `Start` does again. `Crash` may come at any step and takes
every thread with it; rows, edges and drain survive.

*Abstractions.*
- A row keeps state, owner epoch and one bit for "untouched for 900 s" (`Age`
  sets it). `lease_expires_at` is written and shown but decides nothing:
  nobody lets a lease expire. Payload, result, error, attempt and event columns
  decide nothing either. Rows are never deleted, so a known key stays known.
- An engine call returns any of its outcomes (`Call`), and evidence of life is
  any answer of the moment (`Evidence`): process table, app-server and ACP
  bridge are outside the model.
- Replays go through their list in any order (the code: oldest first).
- `_legacy()`, the log count and the payload write between claim and call do
  not raise, and ledger statements do not fail (see the hazards).
- `drain.set` always replays when it lifts the drain; the code skips the replay
  when it saw no dispatchable row, which it then would not have dispatched. A
  row that `work.submit` adds during that look may be missed by the code and
  waits for the next drain or start; no property speaks of it, and
  `NothingStranded` is checked for `engine.execute`.
- All queued rows are dispatchable (operation and args given), and lists are
  shorter than their limit of 2000.
- `work.transition` requests do not ask for `dispatching` or `running`
  (assumption `EditsAreNotDispatches`): no caller in the repository does, except
  a test that drives the ledger by hand (`tests/test_control_plane.py`), and
  such a row has nobody behind it.

### How `WorkerStartup` corresponds to the code

One action per step of `serve()` that looks at or changes `worker.sock`,
`worker.pid` or the ledger. A probe succeeds as soon as a connection does
(`available` in `ControlPlaneClient.request`) and may fail on a live worker
whose backlog is full. `Overlap = FALSE` restricts launches and stops to moments
when no other process starts or stops; `HasProcFS` tells whether
`_worker_pid_alive` can read `/proc`. A worker whose pid file cannot be written
serves without one (`unnamed`, `ccc_worker.py:405`), beside the old file or an
empty one, and does not remove it at its end. Such a worker is lost to the guard:
if it fails a probe (a full backlog), the next start unlinks its socket and
recovers the rows beside it. `evicted` remembers that this has happened; who is
reachable and whom a recovery meets is stated until then. `Recover` has no effect on the variables
here; its effect on the ledger is `Start` of `ControlPlane`, whose premise (no
other worker is serving) is `RecoveryIsAlone`.

### How `WorkerRestart` corresponds to the code

Every step of `WorkerStartup` is a step here (`WorkerStep`), and the worker that
begins to serve releases drains by their prefix (`Released`). The drain is the
one record in `control_meta`; only its reason is kept, because who lifts it goes
by the reason. A handler thread walks through pre-check, `drain.set`, kick,
wait, lift; the drain, the kick and the lift are steps of their own because
every process may die in between. `restart-all` stands for each restart that
ends in a new dashboard: `/api/restart`, `/api/restart/all` and the updater;
`worker-compat-selfheal` for the hourly maintenance. A request to the worker has
its effect if the one that owns the socket serves, and none otherwise; lost
replies are not modelled. What can go wrong besides dying processes is a premise:
`"boot"` (no worker answers the one question of a booting dashboard), `"compat"`
(the worker that answers does not own the engines: it is from an older build, or
routing is off, `worker_owns_engines` in `server.py:46982`; the dashboard then
does not look at the drain), `"kick"` (the restart command fails). With any of
them `RestartDrainsEnd` fails; the passing run has none.

### How `EventStream` corresponds to the code

A row counts how often the list endpoint's value of it changed. The write and
its publication are two steps of a handler; the hub keeps the whole log, of
which the last `Capacity` events are the ring. The stream handler takes a
snapshot of what follows its cursor and writes it event by event; the bytes
under way are `wire`, lost with the connection. The page applies a message in
one step (one turn of the event loop), debounces hints with `timer`, has one
list read at a time with a second held back (`again`), and lays patches younger
than 30 s over what it reads (`overlay`). A list read has a moment at which the
server puts the list together (`Answer`) and one at which it lands. A process
that has just started may answer with the body an earlier process saved
(`AnswerSaved`); such a read leaves the page `stale`, like a failed one, because
nothing announces the fresh body. A page that has never loaded and whose first
read failed reads again past `refreshArchiveData` (`Recover`,
`_recoverArchiveRenderIfStuck`): that read does not count as the refresh in
flight, so a hint starts a refresh that joins its request even when the answer is
on its way (`"late"`), and it lands without the overlay. The page has then missed
what a pushed patch or the hint told it, and nothing but the 5-minute poll
corrects it: it is `stale` too. A reload takes over the cursor any page of the
browser saved. Left out: the polls (90 s without a stream, 5 min with one), pins
(their list value lags, see the hazards), session and approval events, the
debounce of unknown ids. `ConcurrentWriters`, `FreshProfile` and `SlowReads`
switch on what the passing run assumes away: two handlers writing one row, a
page without a saved cursor (a restart before its first event goes unnoticed),
and list reads that outlast the overlay. With any of them
`CaughtUpIsCurrent` fails.

### How `PendingSends` corresponds to the code

An echo is an entry of a pane's list and a row on screen; a change of
conversation gives the pane a new list while handlers keep the old one, so lists
are numbered and every send remembers its own. `saved` is the entry in
`pendingSendsByConv` of the conversation. `Fetch` is one render of the
transcript: it retires landed echoes, restores saved ones and lets queue cards
claim theirs, in the order of the code. A new row that matches no echo (`Strays`)
retires another one, the oldest or one whose entry is gone already (the FIFO
fallback and the orphan sweep, `static/app.js:71051-71095`): dismiss a message,
send another, and when the first lands after all the echo of the second goes. The
comment there accepts that ("Worst case the echo clears a beat early"). `early`
names these messages, `UnlandedStaysVisible` and `DeliveredStaysVisible` are about
the others, and `EarlyNeedsAStray` says that it takes a message that landed after
its own echo had been taken back or had expired. Which of the other echoes goes
depends on time stamps and is left open. `Attended` restricts the user to staying
in conversation and pane while a request is out and until a conversation he
opened has been fetched, to leaving a conversation in the active pane, and POSTs to answers before the echo ages; without it
`UnlandedStaysVisible`, `DeliveredStaysVisible` and `RefusedIsGone` fail too. The
wait for the fetch came out of a failed proof: leaving a conversation saves the
pane's list (`syncPendingSendsMapForConv`, `static/app.js:52403`), a conversation
that has just been opened has an empty one until its transcript is there, and
saving an empty list deletes the rows saved before (`static/app.js:12781`). Whoever
opens a conversation and leaves it again at once loses its echoes, though the
comment at `static/app.js:52520` promises that they "are restored from
pendingSendsByConv when this pane re-opens that conv". The same line saves the
list of the *active* pane, before the pane it is called for becomes the active one
(`static/app.js:52429`): a conversation opened from outside in a pane that is not
active costs the conversation left there its echoes (`Open` with `~focus`). Left
out: transports whose success answer takes the echo away, text typed but not
submitted, rows the user typed into the agent's own terminal, the composer for a
new session, and messages of identical text.

### How `QueueBoard` corresponds to the code

A list maps tickets to write counts. The server answers from its memo, issues a
version when one is first asked for, sends a delta if it still knows the client's
version (either may happen), and rebuilds the memo in a thread of two steps. A
token in the code is the pid and a number that each process image counts from 0;
in the model it is the image (counted by `image`) and the list, which is what
makes "the mirror is its version" a statement. Within one image that loses
nothing, for no number is issued twice. A `Restart` begins a new image, in a
process of its own (`launchctl kickstart -k`, a service manager) or, by
`os.execvp` (`server.py:22387`), in the same process: then pid and numbers come
again, and the server may take the page's token for any version of its own
(`Inherited`, `Bases`). What it answers, "unchanged" or a delta against another
list, leaves the mirror wrong under a right version; a delta does not repair that.
`MirrorIsItsVersion` and `PolledBoardSettles` are therefore about images that did
not inherit a process (`execed`), and are violated without that condition. In the page, `read` is the one request that
board and badges share, `waiting` the board's wait for it, `void` that an edit
made its result unusable, and `behind`, `reading`, `settling` the chain of
promises in `_flushDashboardInvalidations`. `items` with `fresh` is the board's
cache.

### How `PendingInputs` corresponds to the code

`queue` and `ledger` are the session's part of the pending-inputs file, `held`
the store of held items. Every change of the file is one transaction
(`_mutate_pending_inputs`): it takes the session's file lock, rereads the file,
changes it and writes it back, or restores what was in memory. It is therefore
one step, enabled while nobody holds the lock (`owner`); a Steer holds it through
its delivery, a pump only through its recovery pass. A transaction that fails is
a step that changes nothing in the file and uses up one of `MaxFaults`.

The worker's threads (`lane`) send, pump, steer and release; dashboard and watcher
have steps of their own (`Stop` and `Hold`, `Cancel`, `WatchBegin` and
`WatchRecover`), and a release is a thread of the worker whose caller puts the
message back when it fails (`ReleaseFails`), unless that caller has died
(`"orphan"`). The caller learns of it by a reply, which can get lost after the
message was queued or delivered (`Unsure`): `Done` decides that in the step that
writes the row, and the caller puts the message back at any time later. It is
then queued and held at once (`repeated`). The put-back is a write of its own,
and when it fails too a message that was not queued is gone (`lost`). A claim
that was not delivered goes into the file (`Restore`), else into a journal
(`Journal`), else into the memory of the worker (`Keep`), and each later
transaction of the worker lays the claims of its memory over the file (`Merged`:
the claims go in one after another, newest first, `Restored`).
A pass reads its list of journals once and puts them back one by one, so that
worker and watcher can hold the same journal at once. `NextSeq` numbers claims
later than all that are around; the code takes the clock.

A message sent directly that the engine does not take is queued, as often as
that happens: it costs nothing. A delivery that times out may land at any later
time (`late`, `Land`); the engine's notification then takes a queued copy out,
at once or in a thread that finds the file unchanged or gives up (`Reconcile`).

`work` is the work item that the worker's ledger keeps for the release of a
message. Its key is `stop-hold-release:<id>` (`pending_inputs.py:3137`), and the
message keeps its id when it is queued, stopped and held again
(`tests/test_delivery_id.py:378`), so that there is one such item for good: a
second release of the message is answered from it (`Answer`). If the first was
done, or a crash left it uncertain, the worker says yes and executes nothing; the
dashboard has taken the message out of the store, and it is gone. If the first
failed, the worker says no, now and ever, and the message can only be cancelled.
The shortest trace needs no fault: send, queued behind a turn; Stop; release,
queued again; Stop; release: gone. `pending_inputs.py:3122` says that "Items that
fail to send go back to the held list instead of being lost".

The histories say what the properties are about: `accepted` (the sender was
told), `settled` (proven delivered, or cancelled), `lost` (taken by a crash, by a
Stop or a put-back that could not write, or by a second release answered from
the first), `volatile` (its claim was kept in memory only), `repeated` (released
and put back). A claim in memory and a lost reply make two copies of a message
(`Doubled`), and `OnePlace` and `SettledIsGone` say that nothing else does.
Left out: the terminal queue and its handoff files, other engines, Devin steers,
unattended continues, drops by age, conflicts of the primary file, pruning of
the ledger, identical texts, and the fallback in which a dashboard without a
worker does the worker's part itself. An engine that accepts a message just
before the worker dies is not told apart from one that did not: the properties
are about messages proven delivered.

## 3. Properties and runs

| Run | Instance | Shows |
|---|---|---|
| `restart` | 1 item, a request thread doing anything, crash and restart, operator retry | `TypeOK`, `IInv`, `NoBlindReplay`, `ActiveIsOwned`, `RunningIsTracked`, `DispatchingIsHeld` |
| `promise` | 2 items, 2 request threads, crash and restart; execute, drain.set, work.reconcile and sweeps, in every behaviour without two overlapping reconcile passes (`CONSTRAINT OnePass`) | `NothingStranded`: no lost wake-up between submit, drain, recovery and replay. `OneLateClaim`: a drain lets at most one item slip through. `WorkPromise`: the worker implements `ExactlyOnceWork`, so the two statements of a transition act as one, an engine is called for an item at most once and outcomes are final. `PromiseInv`: why |
| `sweep` | 1 item, a request thread, crash and restart, drain.set, sweep | `UncertainSettles`: the uncertain count reaches zero without a human; `QueuedIsDispatched` for work of the dead worker |
| `family` | parent and child with trackers | `RunningSettles`: they do not wait for each other |
| `succession` | 3 processes dying anywhere, 2 restart handlers, both kinds of restart, operator, dashboard dying | `ServerIsReachable` and `RecoveryIsAlone`, until a worker without a pid file is evicted, `RefusedOnlyByTheLiving`, the invariant behind them; `RestartDrainsEnd`: whoever dies at whichever step, no restart leaves dispatch paused |
| `feed` | a patched and a hinted row, a ring of one, 2 servers, 2 faults or reloads | `StreamInv`, `CaughtUpIsCurrent`, `PushConverges`, and `FeedPromise`: it implements `ChangeFeed`, liveness included |
| `sends` | 2 sends, 4 changes of conversation | `UnlandedStaysVisible` and `DeliveredStaysVisible` of every message whose echo no other message's row retires, `EarlyNeedsAStray`: which takes a message taken back or given up, `WithdrawnIsGone`, `LandedHasNoEcho`, `EchoSettles` |
| `inputs` | 2 messages, 2 worker threads, 1 undelivered claim, 1 Stop, 2 crashes, failed writes or lost replies | `NothingLost`: an accepted message waits somewhere. `OnePlace`: in one place, whatever is put back, journaled, held and released at once, unless it is `Doubled`. `SettledIsGone`: neither a journal nor a claim brings back what was delivered or cancelled. `AcceptedSettles`: recovery does not block the queue for good |
| `board` | an old and a new ticket, 2 writes each, 1 request or server restart, 1 fault | `MirrorIsItsVersion`, `BoardLoads` under hints without end, `PolledBoardSettles`, but for servers started by exec |

Three more runs end in a counterexample: places where the code does not do what a
comment or document of the repository says.

| Run | What happens |
|---|---|
| `recovery_race` | the recovery thread raises on a row another pass has retired meanwhile, and never replays the queue |
| `restart_leaks` | the dashboard boots before the worker answers, asks once, and the drain of the restart stays |
| `inputs_stopped` | a pump has claimed a message when Stop is pressed; the Stop finds an empty queue, the refused message goes back, and the next pump delivers it |

PROJECT.json quotes the lines. Further facts that came up on the way are listed
there as hazards: a live interrupted row stops every sweep; two reconcile passes
can cancel what one of them found alive; a stale transition overwrites a
completed row; two overlapping starters can unlink each other's socket; without
`/proc` a reused pid keeps every worker out; the self-heal's drain has nobody to
lift it when the dashboard dies; a dashboard that meets an older worker never
looks at the drain; a worker without a pid file can be evicted alive; a cancelled
message comes back if the user changes the pane before the answer; the second
release of a held message loses it; a server started by exec issues its
predecessor's list versions again; a filed ticket is missing from the board
until a later read when the read after the write was served from the memo.

### Bounds and why they are enough

*Control plane.* Two items and two request threads are the smallest instance in which a submit,
a replay and a drain meet on different rows; the operator races need two threads
on one row and two trackers (an old one and its successor). `MaxEpoch = 2` is
one crash with everything that follows it; a further incarnation finds nothing
in the rows that the second did not. `MaxGrants = 2` is one retry. The theorems
below remove these bounds for the safety properties. The slots in `Trackers`
bound the concurrent trackers: a step that would need another one is not
taken. `promise` cuts off where a second reconcile pass begins beside another one:
`recovery_race` shows what happens there. Liveness needs whole behaviours, so
`sweep` has no such cut: it has one item and no reconcile requests, so that a
recovery thread which a sweep ends leaves nothing queued behind, and one request
thread for the size of its graph. `work.submit` is not in `promise`, for
what it leaves in the queue would count as stranded; the instance with it (662,001
states) satisfies `PromiseInv` and `WorkPromise` too. The interval of the sweep
is "some time": `"sweep" \in Requests`. `CHECK_DEADLOCK FALSE` stands where the
bounds let the system come to rest with nothing left to do.

*Hand-over and restarts.* Three processes are one serving, one dying or stopping
and one starting; two handlers can overlap. The drain property needs no counter.

*Stream.* A ring of one is the smallest that overflows, with two events; two
writes of the patched row are what an older value needs to come back; one hint,
one restart and two faults (a lost connection and a reload, say) meet all of
these. *Sends.* Two sends have two fates at once in one list; five lists are two
round trips to another conversation. *Board.* Two writes distinguish three
versions of a ticket, so that a delta can be computed against the one before the
last; one user request or restart and one fault race with External and Churn,
which are unbounded in number or bounded by the writes only. One restart is enough
for a token of the image before.

*Pending inputs.* Two messages are an order and a text behind which another one
waits; two threads are a delivery and whatever overtakes it. `MaxUnsent = 1` is
one claim that has to be put back, `MaxFaults = 2` lets it be journaled and the
reading of the journal fail once more (or a process die in between), and
`MaxStops = 1` bounds what Stop and release can copy: a claim in the memory of
the worker is laid over the file again after each Stop, without end. An
instance with two Stops passes too, and one with two unsent claims and one fault.

### Fairness

`FairSpec` assumes weak fairness of every thread's next step (Python threads
are scheduled and engine calls return), of trackers that have decided to write,
of the clock (`Age`, `Sweep`) and of `Start` (launchd `KeepAlive`, `run.sh:387`).
Nothing is assumed of clients, operators and crashes: `QueuedIsDispatched`
allows for a worker that goes down or a drain that stays. `TurnsEndSpec` adds
strong fairness of `TurnOver`: an engine ends every turn and a tracker that keeps
asking hears so. No engine can be proved to do that; it is the premise of
`RunningSettles` only.

`WorkerRestart` assumes that processes run, that the service manager launches
what is down, that handler threads go on and that a booting dashboard asks its
question; nobody has to die or to ask for a restart. `EventStream` assumes it of
handler threads, the stream handler, timers, the event loop and requests in
flight, and that the connection to a dead server errs; not of writes, faults or
reloads. A list request is answered, be it with a saved body. `PendingSends`
assumes that POSTs are answered, clocks and timers run and the transcript is
fetched; not that a message lands. `QueueBoard` assumes that requests are
answered, hints delivered and timers run. Its one strong fairness condition
(`Answer` that starts a rebuild) says that a memo that is asked for again and
again is some time older than ten seconds.

`PendingInputs` assumes that the worker's threads go on (the lock is released,
engine calls return), that a pump is tried as long as the file holds a message
(the watcher looks every 5 s, `pending_inputs.py:6065`; a busy engine and the
back-off end), that the watcher puts journals back and that a Stop finishes; not
that users act, nor that a late send lands. Nothing wakes a pump for claims in
memory alone, so `AcceptedSettles` excepts them.

## 4. Proofs

`ControlPlaneProofs` proves, for any set of items, any finite set of request
threads, any number of trackers, epochs and grants:

- `TypeCorrect`: `Spec => []TypeOK`
- `InvHolds`: `Spec => []IInv`
- `NeverBlindlyReplayed`, `DrainLetsOneThrough`, `RunningHasTracker`,
  `DispatchingHasThread`, `ActiveHasOwner`: the safety properties the runs check
- `StrandedOnlyByTwoPasses`: `Unedited` and `Unsubmitted` imply
  `Spec /\ []OnePass => []NothingStranded`
- `NothingIsStranded`: `Quiet` implies `Spec => []NothingStranded`
- `PromiseInvHolds`, `WorkIsDoneOnce`: `Unedited` implies
  `Spec /\ []OnePass => []PromiseInv` and `Spec /\ []OnePass => WorkPromise`

from the assumptions `ThreadsAreDistinct`, `FiniteThreads` (cardinalities),
`Bounds` and `EditsAreNotDispatches`.

*The inductive invariant.* `NoBlindReplay` says calls <= grants, and is not
inductive: it has to know where the remaining permission is. `Permits` says so:
calls made, plus threads about to call, plus one if the row is still queued or
somebody is about to claim it, never exceed the grants. That a queued row is not
claimed twice needs the lock (`Locking`), and that a stale `transition` cannot
put a permission back needs the shape of each writer (`WellFormed`: who writes
which state). `LateClaims` ties the late claim to the thread past its last look
at the drain, `Owners` bounds the epochs in rows and in threads' hands, and the
three "somebody is behind it" properties hold together with the rest. The proof
has a lemma per action and conjunct; `Base` (types, shapes, nobody runs when the
worker is down) is proved first.

*Nothing stranded.* The run `recovery_race` finds work stranded when a second
reconcile pass (a request or a sweep) overlaps the recovery thread's: it makes one
of its transitions illegal, which ends the thread before it lists the queue.
`StrandedOnlyByTwoPasses` says that this is the only way: in every behaviour where
no two passes overlap (`OnePass`) nothing is stranded, with any crashes, restarts,
sweeps, reconcile requests and racing drains. `OnePass` is not a property of the
code, which takes no lock for a pass; it is what the hypothesis of the theorem
has to exclude. `Unedited` excludes what an operator does by hand
(`work.resolve`, `work.transition`): a resolve that has read a row before a replay
dispatches it writes over the dispatch. `Unsubmitted` excludes `work.submit`, which
leaves rows in the queue for a later replay on purpose. The invariant `QuietInv`
says why no thread ends by an exception then: every row a thread relies on is
still in the state in which the thread last saw it (`Undisturbed`), since no two
threads rely on one row (`OneRelies`), trackers keep to their running rows
(`TrackersAlone`), and only the pass touches uncertain ones. `NothingIsStranded`
follows for an instance in which only the recovery thread makes a pass (`Quiet`:
no reconcile request, and over before the first sweep). The run `promise` checks
`NothingStranded`, and `QuietInv` as a part of `PromiseInv`.

*Work is done once.* `ExactlyOnceWork` knows no threads, locks or leases: an item
moves from state to state in single steps, its engine is called once while it is
"dispatching", an answer follows the call, a new worker makes everything in flight
uncertain, and uncertain work is reclaimed or retired but not sent again.
`WorkIsDoneOnce` says that the worker implements it under `Unedited` and `OnePass`
(`work.submit` is allowed), with the states of the rows and the count of calls as the
refinement mapping. `QuietInv` makes the mapping work: the row that `ReadRow` saw
is still in that state at the `Write`, so the two halves of a transition are one
step of the promise. That the call finds no earlier one comes from `Permits` and
`GrantedOnce` (an item enters the queue by its submission only), that an answer
finds a call from `AnsweredAfterCall`, and `Owners` makes a start send every
active row to "uncertain". An operator's retry is a second call on purpose, and a
stale resolve overwrites what was done meanwhile: `ExactlyOnceWork` is a promise
about work that nobody handles.

`WorkerStartupProofs` proves for any number of processes, if starts and stops do
not overlap: `SuccessionHolds` (the invariant `SuccessionInv`),
`ServerStaysReachable`, `RecoveryTakesFromTheDead`, and with a `/proc`
`RefusalNamesALivingWorker`. The argument: the pid file names the serving
worker unless that one is `unnamed`, so whoever decides to unlink has seen that
nobody else serves, and by assumption nobody starts to before it is done. An
unlink beside an unnamed worker sets `evicted`, which ends what is said of who
serves; `PathIsFree` and `OneAtATime` go on.

`WorkerRestartProofs` proves that every behaviour of `WorkerRestart` is one of
`WorkerStartup` (`RestartsAreHandovers`), so that what is proved of the hand-over
holds under restarts (`ReachableThroughRestarts`), and its types.

`EventStreamProofs` proves `StreamHolds` (`StreamInv`) and from it
`StreamIsAFeed`: every step of the stream is one of `ChangeFeed` or leaves it
alone. `StreamInv` is inductive: the messages under way continue the page's
cursor one by one or are resyncs (`WireInv`), and the handler stands where the
last of them ends (`HandlerInv`). A message that arrives can then only be the
next change or a jump that arms the timer. The rows, the ring's length, restarts
and faults are arbitrary.

`CaughtUpStaysCurrent` proves that a page that has caught up shows the last write of
every row, recovery reads included, if `OneAtATime`: the three switches that the run `feed` has off are off
(with any of them on the property fails, see section 2). The invariant `CurrentInv`
adds to `StreamInv` that what has been announced of a row ends with its last value
unless that is still to be published (`AnnouncedInv`); that no event to come is
taken for an old one (`KnownInv`: versions of a row grow along the log); and, row by
row, that either more is to come or what the page holds of the row (its patch, the
answer to its read, the row itself) is the last value, or the page is about to read
the list (`RowInv`).

`PendingSendsProofs` proves the types and `LandedNeverEchoed`: a row on screen is
a message that landed (`ViewInv`), landed messages stay landed, and no answer,
old list or saved row starts an echo of one again. With `Attended` it proves
`UnlandedStays` and `DeliveredStays` (of messages that are not `early`) and
`WithdrawnStaysGone` from `AttendedInv`: an
open request belongs to the list on screen (`RequestsHere`), so its answer finds
the echo; a list that was not fetched yet is empty and stays so
(`EmptyUntilFetched`); what was not sent left no trace and answers match the server
(`Courses`); and for each message the echo, or the saved row while there is none,
says what the message's course calls for (`EchoKept`).

`QueueBoardProofs` proves `MirrorNeverDrifts` from `VersionInv`: in the memo, in the
answer under way and in the mirror, list and token agree unless the token's image
inherited its process, a request asks from the mirror's version, and no token is of
an image to come; so the server knows a token only if it is its own, or was
inherited. On these it proves the types of the board (`TypeCorrect`).

`PendingInputsProofs` proves, for any messages, any set of threads and any bounds, `PendingTypes`, `PendingNothingLost`, `PendingOnePlace` and
`PendingSettledIsGone` from one invariant, `PInv`. What makes the properties
inductive is the bookkeeping of claims: a claim's time is its own, and what the
file records as put back is neither in the worker's memory nor in a thread's hands
(`ClaimsApart`); a journal that a pass has read is still there or is recorded as
put back by another pass (`ReadsHold`), so that reading it twice restores it once;
new times exceed all that are around (`Bounded`). `Known` says whose message it is,
`Copies` that a message is in one place (`Alone`) and a settled one in none unless
it is `Doubled`, and that an accepted one is somewhere; a thread whose reply was
lost holds no copy, and one whose release failed holds the only one. A transaction starts from `Merged`, a recursive function
over the set of claims in memory; what it returns is proved by taking a least
counterexample among the subsets of a finite set (`MinimalSubset` in
`SequenceLemmas`) where induction would be used, and `SequenceLemmas` says what
each operation on queues does to the entries and to how often they occur.

*Only model-checked:* the liveness properties (`QueuedIsDispatched`,
`UncertainSettles`, `RunningSettles`, `RestartDrainsEnd`, `PushConverges` and the
liveness part of `FeedPromise`, `EchoSettles`, `BoardLoads`, `PolledBoardSettles`,
`AcceptedSettles`), which are beyond the prover, as are ENABLED and RECURSIVE
operators (the modules declare none); and `EarlyNeedsAStray`. Every other invariant
that a passing run checks is stated by a theorem.

## 5. Not modelled, and the plan

Not modelled inside the three files of the control plane: `engine.query`,
`engine.adopt`, `account.retire`, `work.renew` and the read-only requests;
failing ledger statements; the list limit. In the dashboard: what the sections
above leave out, and the rest of the table in section 1. `static/app.js` has
98,748 lines, most of them rendering; `PendingSends`, `QueueBoard` and the page of
`EventStream` take the parts of
it that keep state between asynchronous answers. `docs/demo/static` is a copy of
`static`.

Next proofs: `EarlyNeedsAStray`, and the type and safety part of what
`PendingInputs` leaves out once it is modelled.

Next modules, in order:

1. `LedgerFaults`: `ControlPlane` with failing ledger writes and raising
   `_legacy()`; property: a dispatching row without a thread is recovered.
2. `AccountBackends`: `account.retire` against requests, trackers and replays.
3. What `PendingInputs` leaves out: the terminal queue with its handoff files,
   and conflicts of the primary file; `NothingLost` and `OnePlace` for it too.
4. `InjectRecovery`, `WakeGuard`: bounded retries recorded before acting.
5. `CodexRequests`, `DecisionDelivery`: exactly-once answers, unknown outcomes.
6. `CodexLive` and the live-session overlay of the page.
7. The composition of `WorkerRestart` with `ControlPlane`; `ExactlyOnceWork` with
   an operator's retries as grants of their own.
