----------------------------- MODULE QueueBoard -----------------------------
(***************************************************************************)
(* The ticket list of the queue board, from the store to the panel         *)
(* (static/app.js, ccc_server/queue_events.py).  Three copies of the list  *)
(* stand between the two: the server's memo, served as it is while a       *)
(* thread rebuilds it; the page's mirror, brought up to date by deltas and *)
(* shared by the board and the ticket badges; and the board's cache, which *)
(* edits patch in place.  Hints from the event stream, a fallback timer    *)
(* and the user make the board read again.                                 *)
(*                                                                         *)
(* A list maps each ticket to the number of times it was written, 0 if it  *)
(* is not in the list.  The server's token of a version is its pid and a   *)
(* number that each process image counts from 0.  Here a version is the    *)
(* image that issued it and the list; the numbers are abstracted: in a     *)
(* process left behind by os.execvp, which keeps the pid, an older image's *)
(* token may be that of any version of the new one.                        *)
(***************************************************************************)
EXTENDS Naturals

CONSTANTS
  Old, New,    \* tickets in the store at the start, which others write too;
               \* tickets the user may file
  MaxWrites,   \* bound: writes to a ticket
  MaxRequests, \* bound: edits, filings and refreshes by the user, restarts of the server
  MaxFaults    \* bound: failed reads and lost connections

Tickets == Old \cup New

ASSUME TicketsAreOldOrNew == Old \cap New = {}
ASSUME BoardBounds ==
  MaxWrites \in Nat \ {0} /\ MaxRequests \in Nat /\ MaxFaults \in Nat

Lists == [Tickets -> 0..MaxWrites]
Empty == [t \in Tickets |-> 0]
Versions == [image : 0..MaxRequests, list : Lists]
NoToken == [image |-> MaxRequests + 1, list |-> Empty]   \* no image issues it
Tokens == {NoToken} \cup Versions

VARIABLES
  store,                       \* the ticket store
  image, execed,               \* the server's process image, counted from 0; those that
                               \* took over the process of the image before
  memo, warm, rebuild,         \* its memo, if it has one, and the thread that rebuilds it
  mirror, read,                \* _queueListMirror and the request behind its promise
  items, fresh, loaded,        \* _uxqItemsCache, its ts, _uxqItemsLoaded
  waiting, void,               \* _uxqItemsPromise; a mutation since it was asked
  visible, live, hint,         \* the panel; the event stream; an event under way
  behind, reading, settling,   \* where refresh chains are, one or more of them
  edit, filing, manual,        \* the user's requests
  requests,                    \* how many there were
  faults

imageVars == <<image, execed, warm>>
serverVars == <<store, imageVars, memo, rebuild>>
readVars == <<mirror, read>>
cacheVars == <<items, fresh, loaded, waiting, void>>
chainVars == <<behind, reading, settling>>
userVars == <<edit, filing, manual, requests>>
vars == <<serverVars, readVars, cacheVars, visible, live, hint, chainVars,
          userVars, faults>>

NoRead == [st |-> "none"]
Asked(since) == [st |-> "asked", since |-> since]
NoEdit == [st |-> "none", val |-> 0]
NoManual == [st |-> "none", list |-> Empty]
NoRebuild == [st |-> "none", list |-> Empty]

Init ==
  /\ store = [t \in Tickets |-> IF t \in Old THEN 1 ELSE 0]
  /\ image = 0 /\ execed = {}
  /\ memo = [list |-> store, token |-> NoToken] /\ warm = TRUE
  /\ rebuild = NoRebuild
  /\ mirror = [list |-> Empty, token |-> NoToken] /\ read = NoRead
  /\ items = Empty /\ fresh = FALSE /\ loaded = FALSE /\ waiting = FALSE /\ void = FALSE
  /\ visible = FALSE /\ live = TRUE /\ hint = FALSE
  /\ behind = FALSE /\ reading = FALSE /\ settling = FALSE
  /\ edit = [t \in Tickets |-> NoEdit] /\ filing = [t \in New |-> "no"]
  /\ manual = NoManual /\ requests = 0 /\ faults = 0

Request == requests < MaxRequests /\ requests' = requests + 1

Fault == faults < MaxFaults /\ faults' = faults + 1

-----------------------------------------------------------------------------
(* The server *)

\* A write to the store from outside the page; the watcher's hint follows.
External(t) ==
  /\ store[t] < MaxWrites
  /\ store' = [store EXCEPT ![t] = @ + 1]
  /\ hint' = TRUE
  /\ UNCHANGED <<imageVars, memo, rebuild, readVars, cacheVars, visible, live,
                 chainVars, userVars, faults>>

\* A hint for another reason: a configuration change, a resync, a second event
\* for one write.
Churn ==
  /\ hint' = TRUE
  /\ UNCHANGED <<serverVars, readVars, cacheVars, visible, live, chainVars,
                 userVars, faults>>

\* _ux_fixes_list_refresh: a thread reads the store ...
RebuildRead ==
  /\ rebuild.st = "due"
  /\ rebuild' = [st |-> "read", list |-> store]
  /\ UNCHANGED <<store, imageVars, memo, readVars, cacheVars, visible, live, hint,
                 chainVars, userVars, faults>>

\* ... and replaces the memo.
RebuildStore ==
  /\ rebuild.st = "read"
  /\ memo' = [list |-> rebuild.list, token |-> NoToken]
  /\ rebuild' = NoRebuild
  /\ UNCHANGED <<store, imageVars, readVars, cacheVars, visible, live, hint, chainVars,
                 userVars, faults>>

\* Mutant: an outdated memo is served and nothing rebuilds it.
RevalidateNever == UNCHANGED rebuild

\* A memo older than ten seconds is served as it is; one thread rebuilds it.
Revalidate ==
  \/ UNCHANGED rebuild
  \/ rebuild.st = "none" /\ rebuild' = [st |-> "due", list |-> Empty]

\* The first request to a new image builds the memo, this page's or another's.
Build ==
  /\ ~warm /\ warm' = TRUE
  /\ memo' = [list |-> store, token |-> NoToken]
  /\ UNCHANGED <<store, image, execed, rebuild, readVars, cacheVars, visible, live, hint,
                 chainVars, userVars, faults>>

\* _schedule_restart: launchd starts a server in a process of its own, or
\* os.execvp replaces the image of this one.  The memo, the versions and the
\* rebuilding thread are gone, the stream is cut.
Restart(exec) ==
  /\ Request
  /\ image' = image + 1
  /\ execed' = IF exec THEN execed \cup {image + 1} ELSE execed
  /\ memo' = [list |-> Empty, token |-> NoToken] /\ warm' = FALSE
  /\ rebuild' = NoRebuild /\ live' = FALSE
  /\ UNCHANGED <<store, readVars, cacheVars, visible, hint, chainVars, edit, filing,
                 manual, faults>>

\* The tickets whose digest is another in the two versions, and those that are
\* not in the new one; none if it is the same version.
Changed(since, list) ==
  {t \in Tickets : since # list /\ (list[t] = 0 \/ since[t] # list[t])}

\* Mutant: the token is the number alone.
InheritedByAll(old) == old < image

\* The image runs in the process of an older one.
Inherited(old) == old < image /\ (old + 1)..image \subseteq execed

\* The lists the server may take a client's version for.
Bases(since) ==
  IF since.image = image THEN {since.list}
  ELSE IF Inherited(since.image) THEN Lists ELSE {}

\* _queueListMerge can put the list together, else it is asked for in full.
Fits(changed) ==
  changed = {} \/ \A t \in Tickets \ changed : memo.list[t] # 0 => mirror.list[t] # 0

\* Mutant: a list that was never asked for by version goes out without one.
TokenAsIs == memo.token

\* _queue_list_version: the memo's version, issued when it is first read.
Token == IF memo.token = NoToken THEN [image |-> image, list |-> memo.list] ELSE memo.token

\* GET /api/queue/list: the memo, with a version; the tickets changed since the
\* client's version if the server knows that one (_queue_list_delta: it keeps
\* 32), all of them otherwise.
Answer ==
  /\ read.st = "asked" /\ warm
  /\ memo' = [memo EXCEPT !.token = Token]
  /\ \E changed \in {Tickets} \cup {Changed(base, memo.list) : base \in Bases(read.since)} :
       /\ Fits(changed)
       /\ read' = [st |-> "answered", token |-> Token, list |-> memo.list,
                   changed |-> changed]
  /\ Revalidate
  /\ UNCHANGED <<store, imageVars, mirror, cacheVars, visible, live, hint,
                 chainVars, userVars, faults>>

-----------------------------------------------------------------------------
(* Reading the list *)

\* _queueListFetch: join the request in flight, or ask for what changed since
\* the mirror's version.
JoinOrAsk == read' = IF read.st = "none" THEN Asked(mirror.token) ELSE read

\* _fetchUxqItems(false) with a cache that is too old.
FetchItems ==
  IF waiting THEN UNCHANGED <<waiting, void, read>>
             ELSE waiting' = TRUE /\ void' = FALSE /\ JoinOrAsk

\* The board renders: a cache younger than 15 s will do.
Render == FetchItems \/ (fresh /\ UNCHANGED <<waiting, void, read>>)

\* _queueListMerge.
Merged == [t \in Tickets |-> IF t \in read.changed THEN read.list[t] ELSE mirror.list[t]]

\* Whoever waited for the board's read goes on: the refresh chains, and the
\* filing of a ticket.  A chain that stood behind an
\* older read makes the board read once more.
Resume(cacheIsFresh) ==
  /\ filing' = [t \in New |-> IF waiting /\ filing[t] = "reading" THEN "drawn" ELSE filing[t]]
  /\ IF waiting
     THEN behind' = FALSE /\ reading' = behind /\ settling' = (settling \/ reading)
     ELSE UNCHANGED chainVars
  /\ IF waiting /\ behind
     THEN waiting' = TRUE /\ fresh' = FALSE /\ read' = Asked(mirror'.token)
     ELSE waiting' = FALSE /\ fresh' = cacheIsFresh /\ read' = NoRead
  /\ void' = FALSE

\* The answer: merge it into the mirror; the board takes the list unless a
\* ticket was changed through the board after it asked.
Land ==
  /\ read.st = "answered"
  /\ mirror' = [list |-> Merged, token |-> read.token]
  /\ LET taken == waiting /\ ~void IN
     /\ items' = IF taken THEN Merged ELSE items
     /\ loaded' = (loaded \/ taken)
     /\ Resume(fresh \/ taken)
  /\ UNCHANGED <<serverVars, visible, live, hint, edit, manual, requests, faults>>

ReadFails ==
  /\ read.st # "none" /\ Fault
  /\ UNCHANGED <<mirror, items, loaded>>
  /\ Resume(fresh)
  /\ UNCHANGED <<serverVars, visible, live, hint, edit, manual, requests>>

\* refreshUxFixesQueueMeta: the badges read the mirror too.
Badges ==
  /\ read.st = "none" /\ JoinOrAsk
  /\ UNCHANGED <<serverVars, mirror, cacheVars, visible, live, hint, chainVars,
                 userVars, faults>>

-----------------------------------------------------------------------------
(* Hints, the fallback timer, the panel *)

\* Mutant: a hint makes the read in flight void, as an edit does.
FlushVoids ==
  /\ live /\ hint /\ hint' = FALSE
  /\ fresh' = FALSE
  /\ void' = waiting
  /\ IF ~visible THEN UNCHANGED <<waiting, read, chainVars>>
     ELSE IF waiting THEN behind' = TRUE /\ UNCHANGED <<waiting, read, reading, settling>>
     ELSE /\ waiting' = TRUE /\ JoinOrAsk
          /\ reading' = TRUE /\ UNCHANGED <<behind, settling>>
  /\ UNCHANGED <<serverVars, mirror, items, loaded, visible, live, userVars, faults>>

\* _flushDashboardInvalidations for the queue: the cache is outdated; a visible
\* board reads again, behind the read it has in flight.
Flush ==
  /\ live /\ hint /\ hint' = FALSE
  /\ fresh' = FALSE
  /\ IF ~visible THEN UNCHANGED <<waiting, void, read, chainVars>>
     ELSE IF waiting
     THEN behind' = TRUE /\ UNCHANGED <<waiting, void, read, reading, settling>>
     ELSE FetchItems /\ reading' = TRUE /\ UNCHANGED <<behind, settling>>
  /\ UNCHANGED <<serverVars, mirror, items, loaded, visible, live, userVars, faults>>

\* refreshQueue, once the health and worker reads are done too; another chain
\* may be at the same point.
Settle ==
  /\ settling
  /\ settling' \in BOOLEAN
  /\ fresh' = FALSE
  /\ IF visible THEN FetchItems ELSE UNCHANGED <<waiting, void, read>>
  /\ UNCHANGED <<serverVars, mirror, items, loaded, visible, live, hint, behind,
                 reading, userVars, faults>>

\* The 15 s timer, while no stream is up.
Poll ==
  /\ ~live
  /\ IF visible THEN fresh' = FALSE /\ FetchItems
                ELSE JoinOrAsk /\ UNCHANGED <<fresh, waiting, void>>
  /\ UNCHANGED <<serverVars, mirror, items, loaded, visible, live, hint, chainVars,
                 userVars, faults>>

StreamDrops ==
  /\ live /\ Fault /\ live' = FALSE
  /\ UNCHANGED <<serverVars, readVars, cacheVars, visible, hint, chainVars, userVars>>

\* The stream is up again; it replays or asks for a resync.
StreamOpens ==
  /\ ~live /\ live' = TRUE /\ hint' = TRUE
  /\ UNCHANGED <<serverVars, readVars, cacheVars, visible, chainVars, userVars, faults>>

Show ==
  /\ ~visible /\ visible' = TRUE
  /\ Render
  /\ UNCHANGED <<serverVars, mirror, items, fresh, loaded, live, hint, chainVars,
                 userVars, faults>>

Hide ==
  /\ visible /\ visible' = FALSE
  /\ UNCHANGED <<serverVars, readVars, cacheVars, live, hint, chainVars, userVars, faults>>

-----------------------------------------------------------------------------
(* The user's changes *)

\* _uxqSaveField and its like: the POST ...
Edit(t) ==
  /\ visible /\ items[t] # 0 /\ edit[t] = NoEdit /\ Request
  /\ edit' = [edit EXCEPT ![t].st = "posted"]
  /\ UNCHANGED <<serverVars, readVars, cacheVars, visible, live, hint, chainVars,
                 filing, manual, faults>>

\* ... is persisted and announced ...
EditServed(t) ==
  /\ edit[t].st = "posted" /\ store[t] < MaxWrites
  /\ store' = [store EXCEPT ![t] = @ + 1] /\ hint' = TRUE
  /\ edit' = [edit EXCEPT ![t] = [st |-> "served", val |-> store[t] + 1]]
  /\ UNCHANGED <<imageVars, memo, rebuild, readVars, cacheVars, visible, live,
                 chainVars, filing, manual, requests, faults>>

\* ... and answered: _uxqReplaceCachedItem.
EditAnswered(t) ==
  /\ edit[t].st = "served"
  /\ edit' = [edit EXCEPT ![t] = NoEdit]
  /\ items' = [items EXCEPT ![t] = edit[t].val]
  /\ fresh' = TRUE /\ void' = waiting
  /\ UNCHANGED <<serverVars, readVars, loaded, waiting, visible, live, hint,
                 chainVars, filing, manual, requests, faults>>

\* _addQueueTicket: the new ticket is shown at once, and posted ...
File(t) ==
  /\ visible /\ filing[t] = "no" /\ Request
  /\ filing' = [filing EXCEPT ![t] = "posted"]
  /\ UNCHANGED <<serverVars, readVars, cacheVars, visible, live, hint, chainVars,
                 edit, manual, faults>>

\* ... and persisted, or refused, and announced ...
FileServed(t) ==
  /\ filing[t] = "posted"
  /\ \/ /\ filing' = [filing EXCEPT ![t] = "refused"]
        /\ UNCHANGED <<store, hint>>
     \/ /\ store' = [store EXCEPT ![t] = 1] /\ hint' = TRUE
        /\ filing' = [filing EXCEPT ![t] = "served"]
  /\ UNCHANGED <<imageVars, memo, rebuild, readVars, cacheVars, visible, live,
                 chainVars, edit, manual, requests, faults>>

\* ... then the board waits for a read ...
FileAnswered(t) ==
  /\ filing[t] = "served"
  /\ filing' = [filing EXCEPT ![t] = "reading"]
  /\ fresh' = FALSE /\ FetchItems
  /\ UNCHANGED <<serverVars, mirror, items, loaded, visible, live, hint, chainVars,
                 edit, manual, requests, faults>>

\* ... and takes its own row away.
FileDone(t) ==
  /\ filing[t] = "drawn"
  /\ filing' = [filing EXCEPT ![t] = "done"]
  /\ UNCHANGED <<serverVars, readVars, cacheVars, visible, live, hint, chainVars,
                 edit, manual, requests, faults>>

\* The Refresh button: the server reads the store and replaces its memo ...
Refresh ==
  /\ visible /\ manual = NoManual /\ Request
  /\ manual' = [st |-> "served", list |-> store]
  /\ memo' = [list |-> store, token |-> NoToken] /\ warm' = TRUE
  /\ UNCHANGED <<store, image, execed, rebuild, readVars, cacheVars, visible, live, hint,
                 chainVars, edit, filing, faults>>

\* ... and the answer replaces the board's cache.
RefreshAnswered ==
  /\ manual # NoManual /\ manual' = NoManual
  /\ items' = manual.list /\ fresh' = TRUE /\ void' = waiting
  /\ UNCHANGED <<serverVars, readVars, loaded, waiting, visible, live, hint,
                 chainVars, edit, filing, requests, faults>>

-----------------------------------------------------------------------------
MemoStep == RebuildRead \/ RebuildStore \/ Build
ReadStep == Answer \/ Land
EditStep == \E t \in Tickets : EditServed(t) \/ EditAnswered(t)
FileStep == \E t \in New : FileServed(t) \/ FileAnswered(t) \/ FileDone(t)

Next ==
  \/ \E t \in Old : External(t)
  \/ \E t \in Tickets : Edit(t)
  \/ \E t \in New : File(t)
  \/ EditStep \/ FileStep \/ Refresh \/ RefreshAnswered
  \/ \E exec \in BOOLEAN : Restart(exec)
  \/ Churn \/ MemoStep \/ ReadStep \/ ReadFails \/ Badges
  \/ Flush \/ Settle \/ Poll \/ StreamDrops \/ StreamOpens \/ Show \/ Hide

Spec == Init /\ [][Next]_vars

\* Requests are answered, events arrive, timers run.
FairSpec ==
  /\ Spec
  /\ SF_vars(Answer /\ rebuild' # rebuild) /\ WF_vars(MemoStep) /\ WF_vars(ReadStep)
  /\ WF_vars(Flush) /\ WF_vars(Settle) /\ WF_vars(Poll)
  /\ WF_vars(EditStep) /\ WF_vars(FileStep) /\ WF_vars(RefreshAnswered)

-----------------------------------------------------------------------------
\* Every variable is of its type.
TypeOK ==
  /\ {store, items} \subseteq Lists
  /\ image \in 0..MaxRequests /\ execed \subseteq 1..MaxRequests /\ warm \in BOOLEAN
  /\ memo \in [list : Lists, token : Tokens] /\ mirror \in [list : Lists, token : Tokens]
  /\ rebuild \in [st : {"none", "due", "read"}, list : Lists]
  /\ read \in {NoRead} \cup [st : {"asked"}, since : Tokens]
       \cup [st : {"answered"}, token : Versions, list : Lists, changed : SUBSET Tickets]
  /\ {fresh, loaded, waiting, void, visible, live, hint,
      behind, reading, settling} \subseteq BOOLEAN
  /\ edit \in [Tickets -> [st : {"none", "posted", "served"}, val : 0..MaxWrites]]
  /\ filing \in [New -> {"no", "posted", "refused", "served", "reading", "drawn", "done"}]
  /\ manual \in [st : {"none", "served"}, list : Lists]
  /\ requests \in 0..MaxRequests
  /\ faults \in 0..MaxFaults

\* The mirror is the very list of the version it carries, however many deltas
\* it is made of, whoever asked for them and whichever servers answered: else a
\* later delta, computed against that version, would never repair it
\* (_queueListMerge).  Not so for the versions of an image that took over a
\* process: it may issue a token again and take a client's for its own.
MirrorIsItsVersion ==
  /\ mirror.token # NoToken /\ mirror.token.image \notin execed
       => mirror.list = mirror.token.list
  /\ read.st = "answered" /\ read.token.image \notin execed => Merged = read.token.list

\* Hints without end do not keep a visible board from loading ("the multi-MB
\* read starves forever", the comment in _flushDashboardInvalidations).
BoardLoads == ([]<><<visible /\ Flush>>_vars) => <>loaded

\* With the fallback timer, a board in view comes to show what the store holds,
\* in spite of the memo, the joined reads, the answers that arrive late and a
\* server that is started anew, if in a process of its own.
PolledBoardSettles ==
  (<>[](~live /\ visible /\ image \notin execed)) => <>[](items = store)
=============================================================================
