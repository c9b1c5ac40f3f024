----------------------------- MODULE EventStream -----------------------------
(***************************************************************************)
(* The dashboard event stream, end to end: request handlers that write a   *)
(* conversation row and then publish the change, the hub with its bounded  *)
(* ring (ccc_server/events.py), the /api/events handler (server.py), the   *)
(* connection, and one dashboard page (static/app.js) that patches its     *)
(* rows from the events and rereads the list where it was told to.         *)
(*                                                                         *)
(* A row is a counter: the number of times the list endpoint's value of it *)
(* changed.  Rows in Patched are announced with their new value: renames   *)
(* (overlaid on every answer) and archivings (the memo of the list is      *)
(* restamped before the change is published).  Rows in Hinted are          *)
(* announced by "reread the list": a spawn, or what a rebuild of the memo  *)
(* found.  Pins are left out: the memo is not restamped for them.  After a *)
(* restart the list may be answered with the body an earlier process       *)
(* saved, until this one has built its own.                                *)
(* The periodic polls of the list are left out: what is shown here is      *)
(* what the push channel does without that safety net.                     *)
(***************************************************************************)
EXTENDS Integers, Sequences

CONSTANTS
  Patched, Hinted,     \* rows of the conversation list
  Capacity,            \* events the hub keeps (512)
  MaxBoots,            \* bound: server processes
  MaxPatches, MaxHints, \* bounds: writes to each row of a kind
  MaxFaults,           \* bound: lost connections, failed reads, reloads
  ConcurrentWriters,   \* two handlers may write one row at the same time
  FreshProfile,        \* the page starts with no saved cursor
  SlowReads            \* a read may outlast the 30 s overlay of a patch

Rows == Patched \cup Hinted
Boots == 1..MaxBoots
NoBoot == 0

ASSUME RowsAreOfOneKind == Patched \cap Hinted = {}
ASSUME StreamBounds ==
  /\ Capacity \in Nat \ {0} /\ MaxBoots \in Nat \ {0}
  /\ {MaxPatches, MaxHints, MaxFaults} \subseteq Nat
ASSUME Switches == {ConcurrentWriters, FreshProfile, SlowReads} \subseteq BOOLEAN

VARIABLES
  disk, unpublished,                 \* rows as written; changes not yet published
  boot, log,                         \* the hub: its boot id, all it has published
  versions,                          \* the hub's version of each row
  warm,                              \* this process has built a list body
  conn, stream, wire,                \* connection, its handler, bytes under way
  page, seen, known, rows, overlay,  \* the page: load, cursor, versions, rows, patches
  loaded, timer, read, again, raced, \* ... its list reads
  readers,                           \* who waits for the list fetch in flight
  stale,                             \* history: the last list read failed, or may have
                                     \* brought a list of the past
  faults                             \* connections lost, reads failed, reloads

serverVars == <<disk, unpublished, boot, log, versions, warm>>
connVars == <<conn, stream, wire>>
pageVars == <<page, seen, known, rows, overlay>>
readVars == <<loaded, timer, read, again, raced, readers, stale>>
vars == <<serverVars, connVars, pageVars, readVars, faults>>

-----------------------------------------------------------------------------
MaxWrites(r) == IF r \in Patched THEN MaxPatches ELSE MaxHints
Counts == [Rows -> Nat]
Zero == [r \in Rows |-> 0]
Cursors == [boot : {NoBoot} \cup Boots, at : Nat]
Changes == [row : Rows, val : Nat \ {0}]
Events == [row : Rows, val : Nat \ {0}, ver : Nat]

\* What travels to the page: an event of a boot, or resync.required.
Resync(b, k) == [kind |-> "resync", boot |-> b, at |-> k]
Event(b, k) == [kind |-> "event", boot |-> b, at |-> k]
Messages == [kind : {"resync", "event"}, boot : Boots, at : Nat]

Latest == Len(log[boot])
MaxOf(a, b) == IF a > b THEN a ELSE b

\* The first event still in the ring; one past the last if there is none.
Oldest == MaxOf(1, Latest - Capacity + 1)

\* Mutant: the ring is thought to reach one event further back.
TooOldLax(c) == (c.boot # NoBoot /\ c.boot # boot) \/ c.at < Oldest - 2

\* _snapshot_since_locked: the cursor cannot be continued.
TooOld(c) == (c.boot # NoBoot /\ c.boot # boot) \/ c.at < Oldest - 1

\* Lists that were current at some time, row by row.
Pasts == {old \in [Rows -> 0..MaxOf(MaxPatches, MaxHints)] :
            \A r \in Rows : old[r] <= disk[r]}

Fault == faults < MaxFaults /\ faults' = faults + 1

\* "late": answered, and joined by a refresh only then.
ReadStates == {"idle", "asked", "answered", "saved", "late"}
Readers == {"refresh", "recovery"}
Idle == [st |-> "idle", list |-> Zero]
Asked == [st |-> "asked", list |-> Zero]

Init ==
  /\ disk = Zero /\ unpublished = {} /\ boot = 1
  /\ log = [b \in Boots |-> <<>>] /\ versions = Zero /\ warm = TRUE
  /\ conn = "none" /\ wire = <<>>
  /\ stream = [boot |-> NoBoot, at |-> 0, upto |-> 0]
  /\ seen = [boot |-> IF FreshProfile THEN NoBoot ELSE 1, at |-> 0]
  /\ page = 1 /\ known = Zero /\ rows = Zero /\ overlay = Zero
  /\ loaded = TRUE /\ timer = FALSE /\ read = Idle /\ again = FALSE
  /\ raced = {} /\ readers = {} /\ stale = FALSE /\ faults = 0

-----------------------------------------------------------------------------
(* The server: handlers and the hub *)

\* A handler's durable write.
Write(r) ==
  /\ disk[r] < MaxWrites(r)
  /\ ConcurrentWriters \/ \A c \in unpublished : c.row # r
  /\ disk' = [disk EXCEPT ![r] = @ + 1]
  /\ unpublished' = unpublished \cup {[row |-> r, val |-> disk[r] + 1]}
  /\ UNCHANGED <<boot, log, versions, warm, connVars, pageVars, readVars, faults>>

\* ... and its publication, after the write: number the event, and version the
\* row if the event names it.
Publish(c) ==
  /\ unpublished' = unpublished \ {c}
  /\ versions' = IF c.row \in Patched THEN [versions EXCEPT ![c.row] = @ + 1]
                                      ELSE versions
  /\ log' = [log EXCEPT ![boot] =
       Append(@, [row |-> c.row, val |-> c.val, ver |-> versions'[c.row]])]
  /\ UNCHANGED <<disk, boot, warm, connVars, pageVars, readVars, faults>>

\* The server process dies and another one takes over: an empty hub, a new boot id.
Crash ==
  /\ boot < MaxBoots
  /\ boot' = boot + 1
  /\ unpublished' = {}
  /\ versions' = Zero /\ warm' = FALSE
  /\ conn' = IF conn = "open" THEN "dead" ELSE conn
  /\ UNCHANGED <<disk, log, stream, wire, pageVars, readVars, faults>>

-----------------------------------------------------------------------------
(* The connection and its handler *)

\* connectDashboardEvents, and the handler's reading of since and boot_id.
Connect ==
  /\ conn = "none"
  /\ conn' = "open"
  /\ stream' = [boot |-> seen.boot, at |-> seen.at, upto |-> seen.at]
  /\ UNCHANGED <<serverVars, wire, pageVars, readVars, faults>>

\* The handler asks the hub for what follows its cursor: the events of the ring
\* beyond it, or that it cannot be continued.
Snapshot ==
  /\ conn = "open" /\ stream.upto = stream.at
  /\ IF TooOld(stream)
     THEN /\ wire' = Append(wire, Resync(boot, Latest))
          /\ stream' = [boot |-> boot, at |-> Latest, upto |-> Latest]
     ELSE /\ Latest > stream.at \/ stream.boot # boot
          /\ stream' = [boot |-> boot, at |-> MaxOf(stream.at, Oldest - 1),
                        upto |-> MaxOf(stream.at, Latest)]
          /\ UNCHANGED wire
  /\ UNCHANGED <<serverVars, conn, pageVars, readVars, faults>>

\* It writes the events of the snapshot one by one.
Emit ==
  /\ conn = "open" /\ stream.at < stream.upto
  /\ wire' = Append(wire, Event(stream.boot, stream.at + 1))
  /\ stream' = [stream EXCEPT !.at = @ + 1]
  /\ UNCHANGED <<serverVars, conn, pageVars, readVars, faults>>

\* Mutant: bytes of the old connection still reach the page.
DisconnectLeaky ==
  /\ \/ conn = "dead" /\ UNCHANGED faults
     \/ conn = "open" /\ Fault
  /\ conn' = "none"
  /\ UNCHANGED <<serverVars, stream, wire, pageVars, readVars>>

\* source.onerror: the page closes the source and arms its retry timer.
Disconnect ==
  /\ \/ conn = "dead" /\ UNCHANGED faults
     \/ conn = "open" /\ Fault
  /\ conn' = "none"
  /\ wire' = <<>>
  /\ UNCHANGED <<serverVars, stream, pageVars, readVars>>

-----------------------------------------------------------------------------
(* The page: events *)

\* resync.required: stand at the server's position and schedule the rereads.
ApplyResync(m) ==
  /\ seen' = [boot |-> m.boot, at |-> m.at]
  /\ known' = Zero /\ overlay' = Zero
  /\ timer' = TRUE
  /\ UNCHANGED <<rows, raced>>

\* conversation.patch: patch the row, and overlay the reads that land within 30 s.
Patch(r, v) ==
  /\ rows' = IF loaded THEN [rows EXCEPT ![r] = v] ELSE rows
  /\ overlay' = [overlay EXCEPT ![r] = v]
  /\ raced' = IF read.st = "idle" THEN raced ELSE raced \cup {r}

\* applyDashboardEvent on a numbered event, by the page as it stands (s, vs).
ApplyEvent(m, s, vs) ==
  LET e == log[m.boot][m.at] IN
  IF m.at <= s.at
  THEN seen' = s /\ known' = vs /\ UNCHANGED <<rows, overlay, timer, raced>>
  ELSE /\ seen' = [boot |-> m.boot, at |-> m.at]
       /\ IF e.row \in Hinted
          THEN timer' = TRUE /\ known' = vs /\ UNCHANGED <<rows, overlay, raced>>
          ELSE /\ UNCHANGED timer
               /\ known' = [vs EXCEPT ![e.row] = MaxOf(@, e.ver)]
               /\ IF e.ver <= vs[e.row]
                  THEN UNCHANGED <<rows, overlay, raced>>
                  ELSE Patch(e.row, e.val)

Receive ==
  /\ wire # <<>>
  /\ wire' = Tail(wire)
  /\ LET m == Head(wire) IN
     IF m.kind = "resync" THEN ApplyResync(m)
     ELSE IF seen.boot \notin {NoBoot, m.boot}
          THEN ApplyEvent(m, [boot |-> seen.boot, at |-> 0], Zero)
          ELSE ApplyEvent(m, seen, known)
  /\ UNCHANGED <<serverVars, conn, stream, page, loaded, read, again, readers, stale, faults>>

\* The 30 s of a patch are over.  Without SlowReads, every list read that it
\* overtook has landed by then.
Expire(r) ==
  /\ overlay[r] # 0
  /\ SlowReads \/ read.st = "idle" \/ r \notin raced
  /\ overlay' = [overlay EXCEPT ![r] = 0]
  /\ UNCHANGED <<serverVars, connVars, page, seen, known, rows, readVars, faults>>

-----------------------------------------------------------------------------
(* The page: list reads *)

StartRead(reader) == read' = Asked /\ raced' = {} /\ readers' = {reader}
NoRead == read' = Idle /\ raced' = {} /\ readers' = {}

\* Mutant: a refresh that is due while a read is in flight is satisfied by it.
FireTimerJoins ==
  /\ timer /\ timer' = FALSE
  /\ IF read.st = "idle"
       THEN StartRead("refresh")
       ELSE readers' = readers \cup {"refresh"} /\ UNCHANGED <<read, raced>>
  /\ UNCHANGED <<serverVars, connVars, pageVars, loaded, again, stale, faults>>

\* The debounce timer: refresh now, or once more after the refresh in flight.
\* A recovery is no refresh (_archiveRefreshPromise): the one that starts then
\* shares its fetch, answered or not (_archiveAllInflight).
FireTimer ==
  /\ timer /\ timer' = FALSE
  /\ \/ read.st = "idle" /\ StartRead("refresh") /\ UNCHANGED again
     \/ /\ "refresh" \in readers
        /\ again' = TRUE
        /\ UNCHANGED <<read, raced, readers>>
     \/ /\ readers = {"recovery"}
        /\ readers' = Readers
        /\ read' = [read EXCEPT !.st = IF @ = "answered" THEN "late" ELSE @]
        /\ UNCHANGED <<raced, again>>
  /\ UNCHANGED <<serverVars, connVars, pageVars, loaded, stale, faults>>

\* A page that has never loaded and whose first read failed tries again, past
\* refreshArchiveData (_recoverArchiveRenderIfStuck: with a fetch in flight it
\* waits for that one first).
Recover ==
  /\ ~loaded /\ read.st = "idle"
  /\ StartRead("recovery")
  /\ UNCHANGED <<serverVars, connVars, pageVars, loaded, timer, again, stale, faults>>

\* The server puts the list together.
Answer ==
  /\ read.st = "asked"
  /\ read' = [st |-> "answered", list |-> disk]
  /\ warm' = TRUE
  /\ UNCHANGED <<disk, unpublished, boot, log, versions, connVars, pageVars, loaded,
                 timer, again, raced, readers, stale, faults>>

\* A process that has not built a body yet may answer with one saved by an earlier
\* process: a list of the past.  (It then builds one in the background: from there
\* on only Answer is left, which is enabled anyway.)
AnswerSaved ==
  /\ read.st = "asked" /\ ~warm
  /\ \E old \in Pasts : read' = [st |-> "saved", list |-> old]
  /\ UNCHANGED <<serverVars, connVars, pageVars, loaded, timer, again, raced,
                 readers, stale, faults>>

\* Mutant: the refresh that was held back is forgotten.
NextReadForgotten == again' = FALSE /\ NoRead

\* The end of refreshArchiveData: the refresh that was held back starts now.
NextRead ==
  /\ again' = FALSE
  /\ IF again THEN StartRead("refresh") ELSE NoRead

\* The answer lands.  A refresh puts its rows under the patches that are not
\* 30 s old; a recovery takes them as they are, and may so undo a patch.
Land ==
  /\ read.st \in {"answered", "saved", "late"}
  /\ rows' = [r \in Rows |-> IF "refresh" \in readers /\ overlay[r] # 0
                               THEN overlay[r] ELSE read.list[r]]
  /\ loaded' = TRUE
  /\ stale' = (read.st # "answered" \/ (readers = {"recovery"} /\ raced # {}))
  /\ NextRead
  /\ UNCHANGED <<serverVars, connVars, page, seen, known, overlay, timer, faults>>

\* A read fails or times out: the previous rows stay.
ReadFails ==
  /\ read.st # "idle" /\ Fault
  /\ NextRead
  /\ stale' = TRUE
  /\ UNCHANGED <<serverVars, connVars, pageVars, loaded, timer>>

\* The page is loaded anew.  The saved cursor is shared by all pages of the
\* browser: it is where the last of them to persist it stood.
Reload(b, k) ==
  /\ Fault
  /\ page' = page + 1
  /\ seen' = [boot |-> b, at |-> k]
  /\ known' = Zero /\ overlay' = Zero /\ rows' = Zero
  /\ conn' = "none" /\ wire' = <<>>
  /\ loaded' = FALSE /\ timer' = FALSE /\ again' = FALSE /\ stale' = FALSE
  /\ StartRead("refresh")
  /\ UNCHANGED <<serverVars, stream>>

-----------------------------------------------------------------------------
PublishSome == \E c \in unpublished : Publish(c)
ExpireSome == \E r \in Patched : Expire(r)
AnswerRead == Answer \/ AnswerSaved

Next ==
  \/ \E r \in Rows : Write(r)
  \/ PublishSome \/ Crash
  \/ Connect \/ Snapshot \/ Emit \/ Disconnect
  \/ Receive \/ ExpireSome
  \/ FireTimer \/ Recover \/ AnswerRead \/ Land \/ ReadFails
  \/ \E b \in 1..boot : \E k \in 0..Len(log[b]) : Reload(b, k)

Spec == Init /\ [][Next]_vars

\* Handler threads, the stream handler, timers, the browser's event loop and
\* requests in flight make progress; a connection to a dead server errs.
Progress ==
  /\ WF_vars(PublishSome) /\ WF_vars(Connect) /\ WF_vars(Snapshot) /\ WF_vars(Emit)
  /\ WF_vars(conn = "dead" /\ Disconnect) /\ WF_vars(Receive)
  /\ WF_vars(ExpireSome) /\ WF_vars(FireTimer)
  /\ WF_vars(Recover) /\ WF_vars(AnswerRead) /\ WF_vars(Land)

FairSpec == Spec /\ Progress

-----------------------------------------------------------------------------
\* Every variable is of its type.
TypeOK ==
  /\ disk \in Counts /\ unpublished \subseteq Changes /\ boot \in Boots
  /\ log \in [Boots -> Seq(Events)] /\ versions \in [Rows -> Nat] /\ warm \in BOOLEAN
  /\ conn \in {"none", "open", "dead"} /\ wire \in Seq(Messages)
  /\ stream \in [boot : {NoBoot} \cup Boots, at : Nat, upto : Nat]
  /\ page \in Nat /\ seen \in Cursors /\ known \in [Rows -> Nat]
  /\ rows \in Counts /\ overlay \in Counts
  /\ {loaded, timer, again, stale} \subseteq BOOLEAN
  /\ read \in [st : ReadStates, list : Counts]
  /\ raced \subseteq Rows /\ readers \subseteq Readers
  /\ readers = {} <=> read.st = "idle"
  /\ faults \in 0..MaxFaults

\* What the page and the handler know of the stream fits together: everything
\* under way continues the page's cursor change by change, or is a resync; the
\* handler stands where the last message under way will take the page; nothing
\* of an old connection arrives on a new one (applyDashboardEvent has no other
\* protection against a gap than the order of what it is sent).
InLog(c) ==
  /\ c.boot <= boot
  /\ c.at <= IF c.boot = NoBoot THEN 0 ELSE Len(log[c.boot])
Follows(c, m) ==
  m.kind = "event" => m.at = c.at + 1 /\ c.boot \in {NoBoot, m.boot}
Before(i) ==
  IF i = 1 THEN seen ELSE [boot |-> wire[i - 1].boot, at |-> wire[i - 1].at]

LogsInv == InLog(seen) /\ \A b \in Boots : b > boot => log[b] = <<>>
WireInv ==
  /\ conn = "none" => wire = <<>>
  /\ \A i \in 1..Len(wire) : InLog(wire[i]) /\ Follows(Before(i), wire[i])
HandlerInv ==
  conn # "none" =>
    LET last == Before(Len(wire) + 1) IN
    /\ stream.at = last.at /\ stream.boot <= boot
    /\ last.boot \in {NoBoot, stream.boot}
    /\ stream.at <= stream.upto
    /\ stream.upto <= IF stream.boot = NoBoot THEN 0 ELSE Len(log[stream.boot])

StreamInv == TypeOK /\ LogsInv /\ WireInv /\ HandlerInv

\* A page that has followed the stream to its end, has no reread due or in
\* flight, and whose last one brought the running server's list, shows every
\* row as it was last written: no patch is lost to an older list read that
\* lands after it, and no hint to a read that was already under way (the overlay
\* of _applyPendingDashboardConversationPatches and _archiveRefreshAfterInflight).
\* A recovery read that a patch overtook, or that a refresh joined too late,
\* has neither protection; it counts as "stale" here.
CaughtUp ==
  /\ seen = [boot |-> boot, at |-> Latest] /\ unpublished = {}
  /\ loaded /\ ~stale /\ ~timer /\ ~again /\ read.st = "idle"
CaughtUpIsCurrent == CaughtUp => rows = disk

\* The push channel alone brings the page to the last write of every row once
\* writes and faults end, unless its last list read failed, was answered with
\* a body saved by an earlier process, or was a recovery's that an event
\* overtook.
PushConverges == <>[](rows = disk \/ stale)

\* The stream is a change feed: the page's cursor passes a change only by
\* being handed it, or by a jump that leaves a reread scheduled; and the page
\* catches up with the running server.
Feed == INSTANCE ChangeFeed WITH
  head <- [b \in Boots |-> Len(log[b])], owed <- timer
FeedPromise == Feed!FairSpec
=============================================================================
