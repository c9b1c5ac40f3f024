--------------------------- MODULE WorkerStartup ---------------------------
(***************************************************************************)
(* How one worker process succeeds another: serve() of src/ccc_worker.py   *)
(* with the Unix socket, the pid file and the recovery of the ledger.      *)
(*                                                                         *)
(* A socket file outlives the process that bound it, a health probe may    *)
(* fail on a healthy worker, and processes die anywhere.  Workers are      *)
(* launched by the service manager and by the dashboard.                   *)
(***************************************************************************)
EXTENDS Naturals, FiniteSets

CONSTANTS
  Procs,    \* bound: every worker process there will ever be
  NoProc,
  Overlap,  \* may a launch or a stop happen during another one?
  HasProcFS \* is there a /proc (Linux) or not (macOS)?

ASSUME StartupAssumption ==
  NoProc \notin Procs /\ Overlap \in BOOLEAN /\ HasProcFS \in BOOLEAN

VARIABLES
  pc,       \* where each process is in serve()
  sock,     \* who bound the file at the socket path, NoProc if there is none
  pidfile,  \* whose pid worker.pid holds, NoProc if there is none
  unnamed,  \* the live processes that could not write the pid file
  evicted   \* history: has a start unlinked the socket of an unnamed server?

vars == <<pc, sock, pidfile, unnamed, evicted>>

Starting == {"look", "probe", "checkPid", "unlink", "recover", "bind", "writePid"}
Stopping == {"unlinkOwn", "readPid", "removePid"}
Places == {"none", "serve", "refused", "gone", "recycled"} \cup Starting \cup Stopping

TypeOK ==
  /\ pc \in [Procs -> Places]
  /\ sock \in Procs \cup {NoProc}
  /\ pidfile \in Procs \cup {NoProc}
  /\ unnamed \subseteq Procs
  /\ evicted \in BOOLEAN

Alive(p) == pc[p] \in {"serve"} \cup Starting \cup Stopping
Busy(p) == pc[p] \in Starting \cup Stopping
Serving == {p \in Procs : pc[p] = "serve"}

\* The socket is bound and listening: a connection may succeed.
Listening(p) == pc[p] \in {"writePid", "serve"}

Goes(p, place) == pc' = [pc EXCEPT ![p] = place]

Init ==
  /\ pc = [p \in Procs |-> "none"]
  /\ sock = NoProc /\ pidfile = NoProc
  /\ unnamed = {} /\ evicted = FALSE

\* Is the moment free for a launch or a stop of p?
Turn(p) == Overlap \/ \A q \in Procs \ {p} : ~Busy(q)

-----------------------------------------------------------------------------
\* The service manager or the dashboard runs ccc_worker.py.
Launch(p) ==
  /\ pc[p] = "none" /\ Turn(p)
  /\ Goes(p, "look")
  /\ UNCHANGED <<sock, pidfile, unnamed, evicted>>

\* path.exists(): without a socket file nothing else is looked at.
Look(p) ==
  /\ pc[p] = "look"
  /\ Goes(p, IF sock = NoProc THEN "recover" ELSE "probe")
  /\ UNCHANGED <<sock, pidfile, unnamed, evicted>>

\* Mutant: a failed probe counts as proof of death.
ProbeTrustingSilence(p, connected) ==
  /\ pc[p] = "probe"
  /\ connected => sock # NoProc /\ Listening(sock)
  /\ Goes(p, IF connected THEN "refused" ELSE "unlink")
  /\ UNCHANGED <<sock, pidfile, unnamed, evicted>>

\* The health request: a connection is enough ("available" is set once
\* connect() succeeded, whatever follows).  Nobody listens on a dead worker's
\* socket; a live one whose backlog is full, because it is overloaded or out
\* of file descriptors, refuses connections too.
Probe(p, connected) ==
  /\ pc[p] = "probe"
  /\ connected => sock # NoProc /\ Listening(sock)
  /\ Goes(p, IF connected THEN "refused" ELSE "checkPid")
  /\ UNCHANGED <<sock, pidfile, unnamed, evicted>>

\* Mutant: the recorded pid is taken for a dead one.
CheckPidNever(p) ==
  /\ pc[p] = "checkPid"
  /\ Goes(p, "unlink")
  /\ UNCHANGED <<sock, pidfile, unnamed, evicted>>

\* Mutant: a recorded pid is taken for a live one.
TakenForAWorkerUnseen(q) == pc[q] # "none"

\* _worker_pid_alive(): is the recorded pid another live worker?  Without a
\* /proc to name the process, any live process with that pid counts.
TakenForAWorker(q) == Alive(q) \/ (~HasProcFS /\ pc[q] = "recycled")

CheckPid(p) ==
  /\ pc[p] = "checkPid"
  /\ Goes(p, IF pidfile \in Procs \ {p} /\ TakenForAWorker(pidfile)
               THEN "refused" ELSE "unlink")
  /\ UNCHANGED <<sock, pidfile, unnamed, evicted>>

\* Mutant: the dead worker's socket file stays.
UnlinkNothing(p) ==
  /\ pc[p] = "unlink"
  /\ Goes(p, "recover")
  /\ UNCHANGED <<sock, pidfile, unnamed, evicted>>

\* path.unlink(), whosever file it is by now: that of a serving worker too,
\* if the pid file does not tell of it.
Unlink(p) ==
  /\ pc[p] = "unlink"
  /\ sock' = NoProc /\ Goes(p, "recover")
  /\ evicted' = (evicted \/ Serving \cap unnamed # {})
  /\ UNCHANGED <<pidfile, unnamed>>

\* WorkerRuntime(): recover_orphaned_running() takes every active row of
\* another epoch for a dead worker's (ControlPlane!Start is its effect).
Recover(p) ==
  /\ pc[p] = "recover"
  /\ Goes(p, "bind")
  /\ UNCHANGED <<sock, pidfile, unnamed, evicted>>

\* WorkerServer(): binding fails if the file is there again.
Bind(p) ==
  /\ pc[p] = "bind"
  /\ IF sock = NoProc
       THEN sock' = p /\ Goes(p, "writePid")
       ELSE UNCHANGED sock /\ Goes(p, "refused")
  /\ UNCHANGED <<pidfile, unnamed, evicted>>

\* write_text() truncates before it writes.  A worker whose write fails
\* serves all the same, beside the old pid file or an empty one.
WritePid(p, written) ==
  /\ pc[p] = "writePid"
  /\ pidfile' \in IF written THEN {p} ELSE {pidfile, NoProc}
  /\ unnamed' = IF written THEN unnamed ELSE unnamed \cup {p}
  /\ Goes(p, "serve")
  /\ UNCHANGED <<sock, evicted>>

\* A signal or account.retire: serve_forever() returns, server_close().
Stop(p) ==
  /\ pc[p] = "serve" /\ Turn(p)
  /\ Goes(p, "unlinkOwn")
  /\ UNCHANGED <<sock, pidfile, unnamed, evicted>>

\* The socket file goes unconditionally ...
UnlinkOwn(p) ==
  /\ pc[p] = "unlinkOwn"
  /\ sock' = NoProc /\ Goes(p, IF p \in unnamed THEN "gone" ELSE "readPid")
  /\ unnamed' = unnamed \ {p}
  /\ UNCHANGED <<pidfile, evicted>>

\* ... the pid file only if this worker wrote it and it is still its own.
ReadPid(p) ==
  /\ pc[p] = "readPid"
  /\ Goes(p, IF pidfile = p THEN "removePid" ELSE "gone")
  /\ UNCHANGED <<sock, pidfile, unnamed, evicted>>

RemovePid(p) ==
  /\ pc[p] = "removePid"
  /\ pidfile' = NoProc /\ Goes(p, "gone")
  /\ UNCHANGED <<sock, unnamed, evicted>>

\* A crash or SIGKILL leaves both files behind.
Die(p) ==
  /\ Alive(p)
  /\ Goes(p, "gone") /\ unnamed' = unnamed \ {p}
  /\ UNCHANGED <<sock, pidfile, evicted>>

\* The system gives a dead worker's pid to some other program, after a
\* reboot for example.
Recycle(p) ==
  /\ pc[p] \in {"gone", "refused"}
  /\ Goes(p, "recycled")
  /\ UNCHANGED <<sock, pidfile, unnamed, evicted>>

Step(p) ==
  \/ Launch(p) \/ Look(p) \/ \E connected \in BOOLEAN : Probe(p, connected)
  \/ CheckPid(p) \/ Unlink(p) \/ Recover(p) \/ Bind(p)
  \/ (\E written \in BOOLEAN : WritePid(p, written))
  \/ Stop(p) \/ UnlinkOwn(p) \/ ReadPid(p) \/ RemovePid(p) \/ Die(p)
  \/ Recycle(p)

Next == \E p \in Procs : Step(p)

Spec == Init /\ [][Next]_vars

-----------------------------------------------------------------------------
\* tests/test_worker_socket_guard.py: "A second worker must never unlink a
\* live worker's socket."  A serving worker is the one clients reach, and the
\* one a later start finds in the pid file, unless it could not write that
\* file: the guard does not see such a worker, and once a start has unlinked
\* its socket ("evicted") two of them may serve.
ServerIsReachable ==
  ~evicted => \A p \in Serving : sock = p /\ (p \notin unnamed => pidfile = p)

\* The invariant behind it, while starts and stops do not overlap: from the
\* moment a start decides to take the path, and throughout a stop, nobody
\* serves, or an unnamed worker whose socket the start will unlink; recovery
\* and bind find the path free.
OneAtATime == \A p, q \in Procs : Busy(p) /\ Busy(q) => p = q
QuietHandover ==
  ~evicted => \A p \in Procs :
    /\ pc[p] = "unlink" => Serving \subseteq unnamed
    /\ pc[p] \in {"recover", "bind", "writePid"} \cup Stopping => Serving = {}
PathIsFree ==
  \A p \in Procs :
    /\ pc[p] \in {"recover", "bind"} => sock = NoProc
    /\ pc[p] = "writePid" => sock = p

SuccessionInv ==
  TypeOK /\ ServerIsReachable /\ OneAtATime /\ QuietHandover /\ PathIsFree

\* recover_orphaned_running: "Mark work owned by a previous worker as
\* uncertain".  Nobody is serving while a new process recovers the ledger, so
\* the rows it takes away are a dead worker's: nobody but a worker without
\* a pid file, the one the start before has evicted.
RecoveryIsAlone ==
  [][\A p \in Procs : Recover(p) /\ ~evicted => Serving = {}]_vars

\* serve(): "Only clear the socket if the owner is gone", and _worker_pid_alive:
\* "True if the pid recorded in pidfile is another live ccc_worker".  What a
\* dead worker left behind never keeps a new one out: a process gives up only
\* while another worker process lives.
RefusedOnlyByTheLiving ==
  [][\A p \in Procs : pc'[p] = "refused" /\ pc[p] # "refused" =>
        \E q \in Procs \ {p} : Alive(q)]_vars
=============================================================================
