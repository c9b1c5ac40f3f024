------------------------ MODULE WorkerStartupProofs ------------------------
(***************************************************************************)
(* Proofs about WorkerStartup: as long as no start or stop of a worker     *)
(* overlaps another one, any number of processes may succeed each other    *)
(* and die anywhere, and the serving one stays reachable and is never      *)
(* recovered from, until a start meets one without a pid file.             *)
(***************************************************************************)
EXTENDS WorkerStartup, TLAPS

LEMMA InitSuccession == ASSUME Init PROVE SuccessionInv
BY StartupAssumption
   DEF Init, SuccessionInv, TypeOK, ServerIsReachable, OneAtATime, QuietHandover,
       PathIsFree, Places, Starting, Stopping, Serving, Busy

\* Every action moves one process from one place to another.
LEMMA TypeStep == ASSUME TypeOK, NEW p \in Procs, Step(p) PROVE TypeOK'
BY DEF TypeOK, Step, Launch, Look, Probe, CheckPid, Unlink, Recover, Bind,
       WritePid, Stop, UnlinkOwn, ReadPid, RemovePid, Die, Recycle, Goes, Places,
       Starting, Stopping

\* Without overlap the process that starts or stops is the only busy one.
LEMMA OneAtATimeStep ==
  ASSUME ~Overlap, SuccessionInv, NEW p \in Procs, Step(p)
  PROVE  OneAtATime'
<1>1. \A q \in Procs \ {p} : pc'[q] = pc[q]
  BY DEF SuccessionInv, TypeOK, Step, Launch, Look, Probe, CheckPid, Unlink,
         Recover, Bind, WritePid, Stop, UnlinkOwn, ReadPid, RemovePid, Die, Recycle, Goes
<1>2. Busy(p)' => \A q \in Procs \ {p} : ~Busy(q)
  <2>1. CASE Launch(p) \/ Stop(p)
    BY <2>1 DEF Launch, Stop, Turn
  <2>2. CASE Busy(p)
    BY <2>2 DEF SuccessionInv, OneAtATime
  <2>3. CASE (pc[p] = "serve" /\ Die(p)) \/ Recycle(p)
    BY <2>3 DEF Die, Recycle, Goes, Busy, Starting, Stopping, SuccessionInv, TypeOK
  <2> QED
    BY <2>1, <2>2, <2>3
       DEF Step, Look, Probe, CheckPid, Unlink, Recover, Bind, WritePid,
           UnlinkOwn, ReadPid, RemovePid, Die, Recycle, Alive, Busy, Starting, Stopping
<1> QED
  BY <1>1, <1>2 DEF OneAtATime, Busy, SuccessionInv

\* Nobody else moves, so what they are is what they were.
LEMMA OthersStay ==
  ASSUME TypeOK, NEW p \in Procs, Step(p), NEW q \in Procs \ {p}
  PROVE  /\ pc'[q] = pc[q]
         /\ q \in Serving' <=> q \in Serving
BY DEF TypeOK, Step, Launch, Look, Probe, CheckPid, Unlink, Recover, Bind,
       WritePid, Stop, UnlinkOwn, ReadPid, RemovePid, Die, Recycle, Goes, Serving

\* At most one process serves: the one that bound the socket file.
LEMMA OneServer ==
  ASSUME ServerIsReachable, ~evicted, NEW p \in Serving
  PROVE  Serving = {p}
BY DEF ServerIsReachable, Serving

\* Nobody else is about to take the path: recovery and bind find it free.
LEMMA PathStep ==
  ASSUME ~Overlap, SuccessionInv, NEW p \in Procs, Step(p)
  PROVE  PathIsFree'
<1> USE DEF SuccessionInv
<1>1. \A q \in Procs \ {p} : pc'[q] = pc[q]
  BY OthersStay
<1>2. /\ pc'[p] \in {"recover", "bind"} => sock' = NoProc
      /\ pc'[p] = "writePid" => sock' = p
  BY DEF Step, Launch, Look, Probe, CheckPid, Unlink, Recover, Bind, WritePid, Stop,
         UnlinkOwn, ReadPid, RemovePid, Die, Recycle, Goes, TypeOK, PathIsFree
<1>3. CASE sock' = sock
  BY <1>1, <1>2, <1>3 DEF PathIsFree
<1>4. CASE sock' # sock
  <2>1. Busy(p)
    BY <1>4 DEF Step, Launch, Look, Probe, CheckPid, Unlink, Recover, Bind, WritePid,
                Stop, UnlinkOwn, ReadPid, RemovePid, Die, Recycle, Busy, Starting, Stopping
  <2>2. \A q \in Procs \ {p} : ~Busy(q)
    BY <2>1 DEF OneAtATime
  <2> QED
    BY <1>1, <1>2, <2>2 DEF PathIsFree, Busy, Starting
<1> QED
  BY <1>3, <1>4

\* A start that decides to unlink has looked at the pid file: whoever serves
\* is not named in it.
LEMMA UnlinkIsChecked ==
  ASSUME SuccessionInv, ~evicted, NEW p \in Procs, CheckPid(p), pc'[p] = "unlink"
  PROVE  Serving \subseteq unnamed
<1>1. pc[p] = "checkPid" /\ ~(pidfile \in Procs \ {p} /\ Alive(pidfile))
  BY DEF CheckPid, TakenForAWorker, Goes, SuccessionInv, TypeOK
<1> QED
  BY <1>1 DEF SuccessionInv, ServerIsReachable, Serving, Alive

\* From deciding to take the path to the end of a stop nobody serves, as long
\* as no start has unlinked the socket of a worker without a pid file.
LEMMA QuietStep ==
  ASSUME ~Overlap, SuccessionInv, NEW p \in Procs, Step(p)
  PROVE  QuietHandover' /\ ServerIsReachable'
<1> USE DEF SuccessionInv
<1> SUFFICES ASSUME ~evicted' PROVE QuietHandover' /\ ServerIsReachable'
  BY DEF QuietHandover, ServerIsReachable
<1>0. ~evicted
  BY DEF Step, Launch, Look, Probe, CheckPid, Unlink, Recover, Bind, WritePid, Stop,
         UnlinkOwn, ReadPid, RemovePid, Die, Recycle, TypeOK
<1> DEFINE Quiet == {"recover", "bind", "writePid"} \cup Stopping
<1>1. TypeOK' /\ OneAtATime'
  BY TypeStep, OneAtATimeStep
<1>2. ASSUME NEW q \in Procs \ {p}
      PROVE  pc'[q] = pc[q] /\ (q \in Serving' <=> q \in Serving)
  BY <1>2, OthersStay
<1>3. CASE pc'[p] \notin Quiet \cup {"unlink", "serve"}
  <2>1. Serving' \subseteq Serving
    BY <1>2, <1>3 DEF Serving
  <2>2. Serving' \cap unnamed \subseteq unnamed'
    <3>1. p \notin Serving'
      BY <1>3 DEF Serving
    <3> QED
      BY <3>1 DEF Step, Launch, Look, Probe, CheckPid, Unlink, Recover, Bind, WritePid, Stop,
                  UnlinkOwn, ReadPid, RemovePid, Die, Recycle, Goes
  <2>3. unnamed' \subseteq unnamed
    BY <1>3 DEF Step, Launch, Look, Probe, CheckPid, Unlink, Recover, Bind, WritePid, Stop,
                UnlinkOwn, ReadPid, RemovePid, Die, Recycle, Goes, TypeOK
  <2>4. QuietHandover'
    BY <1>0, <1>2, <1>3, <2>1, <2>2 DEF QuietHandover
  <2>5. Serving' # {} => sock' = sock
    <3>1. UnlinkOwn(p) => Serving = {}
      BY <1>0 DEF UnlinkOwn, QuietHandover, Stopping
    <3> QED
      BY <1>3, <2>1, <3>1
         DEF Step, Launch, Look, Probe, CheckPid, Unlink, Recover, Bind, WritePid, Stop,
             ReadPid, RemovePid, Die, Recycle, Goes, Stopping, TypeOK
  <2>6. Serving' # {} => pidfile' = pidfile
    <3>1. RemovePid(p) => Serving = {}
      BY <1>0 DEF RemovePid, QuietHandover, Stopping
    <3> QED
      BY <1>3, <2>1, <3>1
         DEF Step, Launch, Look, Probe, CheckPid, Unlink, Recover, Bind, WritePid, Stop,
             UnlinkOwn, ReadPid, Die, Recycle, Goes, TypeOK
  <2> QED
    BY <1>0, <2>1, <2>2, <2>4, <2>5, <2>6 DEF ServerIsReachable
<1>4. CASE pc'[p] \in Quiet \cup {"unlink", "serve"}
  <2>1. CASE Look(p)
    <3>1. sock = NoProc
      BY <1>4, <2>1 DEF Look, Goes, Stopping, TypeOK
    <3>2. Serving = {}
      BY <1>0, <3>1, StartupAssumption DEF ServerIsReachable, Serving
    <3> QED
      BY <1>1, <1>2, <2>1, <3>1, <3>2
         DEF Look, Goes, TypeOK, QuietHandover, ServerIsReachable,
             Serving, OneAtATime, Busy, Starting, Stopping
  <2>2. CASE CheckPid(p)
    <3>1. pc'[p] = "unlink"
      BY <1>4, <2>2 DEF CheckPid, Goes, Stopping, TypeOK
    <3>2. Serving \subseteq unnamed
      BY <1>0, <2>2, <3>1, UnlinkIsChecked
    <3>3. Serving' = Serving
      BY <1>2, <2>2, <3>1 DEF CheckPid, Serving
    <3>4. \A q \in Procs \ {p} : ~Busy(q)
      BY <2>2 DEF CheckPid, OneAtATime, Busy, Starting
    <3> QED
      BY <1>0, <1>2, <2>2, <3>1, <3>2, <3>3, <3>4
         DEF CheckPid, QuietHandover, ServerIsReachable, Busy, Starting, Stopping
  <2>3. CASE Stop(p)
    <3>1. Serving = {p}
      BY <1>0, <2>3, OneServer DEF Stop, Serving
    <3>2. Serving' = {}
      BY <1>2, <2>3, <3>1 DEF Stop, Goes, TypeOK, Serving
    <3> QED
      BY <3>2 DEF QuietHandover, ServerIsReachable
  <2>4. ASSUME NEW written \in BOOLEAN, WritePid(p, written)
        PROVE  QuietHandover' /\ ServerIsReachable'
    <3>1. Serving = {} /\ sock = p
      BY <1>0, <2>4 DEF WritePid, QuietHandover, PathIsFree
    <3>2. Serving' = {p}
      BY <1>2, <2>4, <3>1 DEF WritePid, Goes, TypeOK, Serving
    <3>3. \A q \in Procs \ {p} : ~Busy(q)
      BY <2>4 DEF WritePid, OneAtATime, Busy, Starting
    <3>4. QuietHandover'
      BY <1>2, <3>2, <3>3, <2>4
         DEF WritePid, Goes, TypeOK, QuietHandover, Busy, Starting, Stopping
    <3>5. sock' = p /\ (p \notin unnamed' => pidfile' = p)
      BY <2>4, <3>1 DEF WritePid
    <3> QED
      BY <3>2, <3>4, <3>5 DEF ServerIsReachable
  <2>5. CASE Unlink(p)
    <3>1. Serving = {}
      BY <1>0, <2>5 DEF Unlink, QuietHandover
    <3>2. Serving' = {}
      BY <1>2, <2>5, <3>1 DEF Unlink, Goes, TypeOK, Serving
    <3> QED
      BY <3>2 DEF QuietHandover, ServerIsReachable
  <2>6. CASE Recover(p) \/ Bind(p) \/ UnlinkOwn(p) \/ ReadPid(p)
    <3>1. pc[p] \in Quiet /\ pc'[p] \notin {"serve", "unlink"}
      BY <2>6 DEF Recover, Bind, UnlinkOwn, ReadPid, Goes, TypeOK, Stopping
    <3>2. Serving = {} /\ Serving' = {}
      BY <1>0, <1>2, <3>1 DEF QuietHandover, Serving
    <3> QED
      BY <3>2 DEF QuietHandover, ServerIsReachable
  <2> QED
    BY <1>4, <2>1, <2>2, <2>3, <2>4, <2>5, <2>6
       DEF Step, Launch, Probe, RemovePid, Die, Recycle, Goes, Stopping, TypeOK
<1> QED
  BY <1>3, <1>4

\* Steps of processes and stuttering steps keep the invariant.
LEMMA SuccessionStep ==
  ASSUME ~Overlap, SuccessionInv, [Next]_vars PROVE SuccessionInv'
<1>1. ASSUME NEW p \in Procs, Step(p) PROVE SuccessionInv'
  <2>1. TypeOK'
    BY <1>1, TypeStep DEF SuccessionInv
  <2>2. OneAtATime'
    BY <1>1, OneAtATimeStep
  <2>3. PathIsFree' /\ QuietHandover' /\ ServerIsReachable'
    BY <1>1, PathStep, QuietStep
  <2> QED
    BY <2>1, <2>2, <2>3 DEF SuccessionInv
<1>2. CASE UNCHANGED vars
  BY <1>2 DEF vars, SuccessionInv, TypeOK, ServerIsReachable, OneAtATime,
              QuietHandover, PathIsFree, Serving, Busy
<1> QED
  BY <1>1, <1>2 DEF Next

\* Any number of workers may succeed one another, crash at any statement, leave
\* their files behind and fail to write the pid file: the invariant of the
\* hand-over holds throughout.
THEOREM SuccessionHolds == ASSUME ~Overlap PROVE Spec => []SuccessionInv
<1>1. Init => SuccessionInv
  BY InitSuccession
<1>2. SuccessionInv /\ [Next]_vars => SuccessionInv'
  BY SuccessionStep
<1> QED
  BY <1>1, <1>2, PTL DEF Spec

\* "A second worker must never unlink a live worker's socket": a serving
\* worker stays the one clients reach and the pid file names, if it could
\* write its pid and no start has met one that could not.
THEOREM ServerStaysReachable == ASSUME ~Overlap PROVE Spec => []ServerIsReachable
<1>1. SuccessionInv => ServerIsReachable
  BY DEF SuccessionInv
<1> QED
  BY <1>1, SuccessionHolds, PTL

\* recover_orphaned_running() never takes the rows of a serving worker, until
\* a start has unlinked the socket of one without a pid file.
THEOREM RecoveryTakesFromTheDead == ASSUME ~Overlap PROVE Spec => RecoveryIsAlone
<1>1. SuccessionInv => [\A p \in Procs : Recover(p) /\ ~evicted => Serving = {}]_vars
  BY DEF SuccessionInv, QuietHandover, Recover
<1> QED
  BY <1>1, SuccessionHolds, PTL DEF RecoveryIsAlone

\* A crashed predecessor's socket file and pid file never keep the next
\* worker out, where a /proc tells whose pid the recorded one is by now.
THEOREM RefusalNamesALivingWorker ==
  ASSUME ~Overlap, HasProcFS PROVE Spec => RefusedOnlyByTheLiving
<1> DEFINE Refusal(p) ==
      pc'[p] = "refused" /\ pc[p] # "refused" =>
        \E q \in Procs \ {p} : Alive(q)
<1>1. ASSUME SuccessionInv, Next, NEW p \in Procs, pc'[p] = "refused", pc[p] # "refused"
      PROVE  \E q \in Procs \ {p} : Alive(q)
  <2>1. Step(p)
    <3>1. PICK q \in Procs : Step(q)
      BY <1>1 DEF Next
    <3> QED
      BY <1>1, <3>1, OthersStay DEF SuccessionInv
  <2>2. CheckPid(p) \/ \E connected \in BOOLEAN : Probe(p, connected)
    BY <1>1, <2>1
       DEF Step, Launch, Look, Unlink, Recover, Bind, WritePid, Stop, UnlinkOwn,
           ReadPid, RemovePid, Die, Recycle, Goes, SuccessionInv, TypeOK, PathIsFree
  <2>3. CASE CheckPid(p)
    BY <1>1, <2>3 DEF CheckPid, TakenForAWorker, Goes, SuccessionInv, TypeOK
  <2>4. ASSUME NEW connected \in BOOLEAN, Probe(p, connected)
        PROVE  \E q \in Procs \ {p} : Alive(q)
    <3>1. connected
      BY <1>1, <2>4 DEF Probe, Goes, SuccessionInv, TypeOK
    <3>2. sock \in Procs /\ Listening(sock)
      BY <1>1, <2>4, <3>1 DEF Probe, SuccessionInv, TypeOK
    <3>3. sock # p
      BY <2>4, <3>2 DEF Probe, Listening
    <3>4. Alive(sock)
      BY <3>2 DEF Listening, Alive, Starting
    <3> QED
      BY <3>2, <3>3, <3>4
  <2> QED
    BY <2>2, <2>3, <2>4
<1>2. SuccessionInv /\ [Next]_vars => [\A p \in Procs : Refusal(p)]_vars
  BY <1>1
<1> QED
  BY <1>2, SuccessionHolds, PTL DEF Spec, RefusedOnlyByTheLiving
=============================================================================
