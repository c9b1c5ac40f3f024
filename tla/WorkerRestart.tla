--------------------------- MODULE WorkerRestart ---------------------------
(***************************************************************************)
(* Restarts asked for from the dashboard, composed with the hand-over of   *)
(* WorkerStartup: the handlers of /api/restart/worker, /api/restart and    *)
(* /api/restart/all, the compatibility self-heal (src/server.py), and the  *)
(* releases of their drains by a starting worker (src/ccc_worker.py) and   *)
(* by a booting dashboard.                                                 *)
(*                                                                         *)
(* A restart pauses dispatch first.  The pause is one record of the ledger *)
(* and survives every process; who lifts it goes by its reason.            *)
(***************************************************************************)
EXTENDS WorkerStartup

CONSTANTS
  Handlers, \* threads of the dashboard that serve a restart
  Kinds,    \* the restarts that happen
  Faults    \* what goes wrong besides dying processes, see RestartFaults

\* "restart-all" stands for every restart of the dashboard, those included
\* that leave the worker alone (KickNobody).
RestartKinds == {"worker-restart", "restart-all", "worker-compat-selfheal"}
\* "kick": the restart command fails and the worker stays.  "boot": no worker
\* answers the questions of a booting dashboard.  "compat": the worker is of
\* an older build, or the dashboard runs its engines itself.
RestartFaults == {"kick", "boot", "compat"}

ASSUME RestartAssumption ==
  Kinds \subseteq RestartKinds /\ Faults \subseteq RestartFaults

VARIABLES
  drain,    \* reason of the drain record, "" when dispatch is not paused
  dash,     \* the dashboard process
  job       \* what each handler thread is about to do, and for which restart

worker == <<pc, sock, pidfile, unnamed, evicted>>
rvars == <<pc, sock, pidfile, unnamed, evicted, drain, dash, job>>

Reasons == {"", "operator", "dashboard-restart", "worker-restart",
            "worker-compat-selfheal"}

\* Mutant: a restart of all drains under a reason of its own.
PrefixOfItsOwn(kind) == kind

\* The reason's prefix; a uuid follows it.
Prefix(kind) == IF kind = "restart-all" THEN "dashboard-restart" ELSE kind

Idle == [at |-> "idle", kind |-> ""]

RTypeOK ==
  /\ TypeOK
  /\ drain \in Reasons
  /\ dash \in {"down", "look", "lift", "up"}
  /\ job \in [Handlers -> {Idle} \cup
                [at : {"drain", "kick", "wait", "lift", "reexec"}, kind : Kinds]]

RInit ==
  /\ Init
  /\ drain = "" /\ dash = "up" /\ job = [h \in Handlers |-> Idle]

\* A request to the worker reaches the one that bound the socket file, while
\* it serves.
Answers == sock \in Serving
Does(h, at) == job' = [job EXCEPT ![h].at = at]
Ends(h) == job' = [job EXCEPT ![h] = Idle]

-----------------------------------------------------------------------------
\* Mutant: a starting worker leaves the drain to the dashboard.
ReleasedNever(reason) == reason

\* _release_stale_restart_drain, in serve() before the first request.
Released(reason) == IF reason = "worker-restart" THEN "" ELSE reason

\* The worker's own steps; the one that begins to serve releases the drain.
WorkerStep(p) ==
  /\ Step(p)
  /\ drain' = IF p \in Serving' \ Serving THEN Released(drain) ELSE drain
  /\ UNCHANGED <<dash, job>>

\* The drain switch of the control-plane panel.
Operator(reason) ==
  /\ dash = "up" /\ Answers
  /\ drain' = reason
  /\ UNCHANGED <<worker, dash, job>>

\* A request, the hourly maintenance tick or the updater begins a restart.
Ask(h, kind) ==
  /\ dash = "up" /\ job[h] = Idle
  /\ job' = [job EXCEPT ![h] = [at |-> "drain", kind |-> kind]]
  /\ UNCHANGED <<worker, drain, dash>>

\* _safe_worker_restart_precheck refuses: a turn the dashboard owns, or
\* sessions the worker could not adopt.
Refuse(h) ==
  /\ job[h].at = "drain"
  /\ Ends(h)
  /\ UNCHANGED <<worker, drain, dash>>

\* It drains, or goes on without when no worker is there to be drained.
SetDrain(h) ==
  /\ job[h].at = "drain"
  /\ drain' = IF Answers THEN Prefix(job[h].kind) ELSE drain
  /\ Does(h, "kick")
  /\ UNCHANGED <<worker, dash>>

\* After the worker is on its way: wait for it, or restart the dashboard too.
Kicked(h) == Does(h, IF job[h].kind = "restart-all" THEN "reexec" ELSE "wait")

\* _restart_worker_process: launchctl kickstart -k or systemctl restart of the
\* worker in service; a new one is launched by the service manager, or by the
\* handler where there is none (Launch).
Kick(h, p) ==
  /\ job[h].at = "kick" /\ p \in Serving
  /\ Die(p) \/ Stop(p)
  /\ Kicked(h)
  /\ UNCHANGED <<drain, dash>>

\* The same with no worker to kill, none that has to be, one that outlives the
\* attempt, or a command that fails: a worker-only restart then gives up.
KickNobody(h, failed) ==
  /\ job[h].at = "kick"
  /\ failed => "kick" \in Faults
  /\ IF failed /\ job[h].kind # "restart-all" THEN Ends(h) ELSE Kicked(h)
  /\ UNCHANGED <<worker, drain, dash>>

\* _wait_worker_healthy: a worker answers, or none did in 20 s.
Wait(h, healthy) ==
  /\ job[h].at = "wait" /\ healthy = Answers
  /\ IF healthy THEN Does(h, "lift") ELSE Ends(h)
  /\ UNCHANGED <<worker, drain, dash>>

\* work.reconcile, then drain.set: without effect if the worker is gone again.
Lift(h) ==
  /\ job[h].at = "lift"
  /\ drain' = IF Answers THEN "" ELSE drain
  /\ Ends(h)
  /\ UNCHANGED <<worker, dash>>

\* _schedule_restart: the dashboard replaces itself, with all its threads.
Reexec(h) ==
  /\ job[h].at = "reexec"
  /\ dash' = "down" /\ job' = [g \in Handlers |-> Idle]
  /\ UNCHANGED <<worker, drain>>

DashboardDies ==
  /\ dash # "down"
  /\ dash' = "down" /\ job' = [g \in Handlers |-> Idle]
  /\ UNCHANGED <<worker, drain>>

Boot ==
  /\ dash = "down"
  /\ dash' = "look"
  /\ UNCHANGED <<worker, drain, job>>

\* One health request at boot, not repeated.  The drain it reports counts
\* only if worker_owns_engines: the answer names "engine-execution-v1" and
\* _control_plane_routes_engines().
BootLook(owned) ==
  /\ dash = "look" /\ (Answers \/ "boot" \in Faults)
  /\ owned => Answers
  /\ Answers /\ ~owned => "compat" \in Faults
  /\ dash' = IF owned /\ drain \in {"dashboard-restart", "worker-restart"}
               THEN "lift" ELSE "up"
  /\ UNCHANGED <<worker, drain, job>>

BootLift ==
  /\ dash = "lift" /\ (Answers \/ "boot" \in Faults)
  /\ drain' = IF Answers THEN "" ELSE drain
  /\ dash' = "up"
  /\ UNCHANGED <<worker, job>>

-----------------------------------------------------------------------------
Serve(h) ==
  \/ Refuse(h) \/ SetDrain(h)
  \/ (\E p \in Procs : Kick(h, p)) \/ (\E failed \in BOOLEAN : KickNobody(h, failed))
  \/ (\E healthy \in BOOLEAN : Wait(h, healthy)) \/ Lift(h) \/ Reexec(h)

Booting == Boot \/ (\E owned \in BOOLEAN : BootLook(owned)) \/ BootLift

RNext ==
  \/ \E p \in Procs : WorkerStep(p)
  \/ \E reason \in {"", "operator"} : Operator(reason)
  \/ \E h \in Handlers : Serve(h) \/ \E kind \in Kinds : Ask(h, kind)
  \/ Booting \/ DashboardDies

RSpec == RInit /\ [][RNext]_rvars

\* Processes run and the service managers start what is down (KeepAlive);
\* nobody has to die, stop or ask for anything.
Advance(p) ==
  /\ \/ Launch(p) \/ Look(p) \/ \E connected \in BOOLEAN : Probe(p, connected)
     \/ CheckPid(p) \/ Unlink(p) \/ Recover(p) \/ Bind(p)
     \/ (\E written \in BOOLEAN : WritePid(p, written))
     \/ UnlinkOwn(p) \/ ReadPid(p) \/ RemovePid(p)
  /\ WorkerStep(p)
Fairness ==
  /\ \A p \in Procs : WF_rvars(Advance(p))
  /\ \A h \in Handlers : WF_rvars(Serve(h))
  /\ WF_rvars(Booting)

FairSpec == RSpec /\ Fairness

-----------------------------------------------------------------------------
\* ccc_worker.py: without a release "every later submit would defer forever".
\* No restart leaves dispatch paused for good beside a worker that answers and
\* a dashboard that stays up, whichever of them died at whichever step before.
RestartDrainsEnd ==
  []<>(drain \in {"", "operator"} \/ ~Answers \/ dash # "up")
=============================================================================
