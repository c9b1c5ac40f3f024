------------------------ MODULE WorkerRestartProofs ------------------------
(***************************************************************************)
(* Proofs about WorkerRestart: however many restart handlers overlap, what *)
(* they do to the worker processes are steps of the hand-over, so its      *)
(* guarantees hold for the composed system.                                *)
(***************************************************************************)
EXTENDS WorkerRestart, WorkerStartupProofs

\* Restarting a worker kills it or stops it; nothing else of the dashboard
\* touches processes, socket or pid file.
LEMMA RestartStep == [RNext]_rvars => [Next]_vars
<1> SUFFICES ASSUME RNext PROVE Next \/ UNCHANGED vars
  BY DEF rvars, vars
<1>1. ASSUME NEW p \in Procs, WorkerStep(p) PROVE Next
  BY <1>1 DEF WorkerStep, Next
<1>2. ASSUME NEW h \in Handlers, NEW p \in Procs, Kick(h, p) PROVE Next
  BY <1>2 DEF Kick, Step, Next
<1>3. ASSUME NEW h \in Handlers, Serve(h), ~\E p \in Procs : Kick(h, p)
      PROVE  UNCHANGED vars
  BY <1>3 DEF Serve, Refuse, SetDrain, KickNobody, Wait, Lift, Reexec, worker, vars
<1>4. ASSUME NEW h \in Handlers, NEW kind \in Kinds, Ask(h, kind)
      PROVE  UNCHANGED vars
  BY <1>4 DEF Ask, worker, vars
<1>5. ASSUME NEW reason, Operator(reason) PROVE UNCHANGED vars
  BY <1>5 DEF Operator, worker, vars
<1>6. ASSUME Booting \/ DashboardDies PROVE UNCHANGED vars
  BY <1>6 DEF Booting, Boot, BootLook, BootLift, DashboardDies, worker, vars
<1> QED
  BY <1>1, <1>2, <1>3, <1>4, <1>5, <1>6 DEF RNext

\* The composed system implements the hand-over by itself: restarts asked for
\* from the dashboard are only deaths, stops and launches to it.
THEOREM RestartsAreHandovers == RSpec => Spec
<1>1. RInit => Init
  BY DEF RInit
<1> QED
  BY <1>1, RestartStep, PTL DEF RSpec, Spec

\* A serving worker stays reachable through any restarts from the dashboard,
\* however many handlers restart it at once, until a start has met a worker
\* that could not write its pid file.
THEOREM ReachableThroughRestarts ==
  ASSUME ~Overlap PROVE RSpec => []ServerIsReachable
BY RestartsAreHandovers, ServerStaysReachable, PTL

-----------------------------------------------------------------------------
\* A handler that is about to do something does it for one of the restarts.
LEMMA BusyJob ==
  ASSUME RTypeOK, NEW h \in Handlers, job[h].at # "idle"
  PROVE  job[h] \in [at : {"drain", "kick", "wait", "lift", "reexec"}, kind : Kinds]
<1>1. Idle.at = "idle"
  BY DEF Idle
<1>2. job[h] # Idle
  BY <1>1
<1> QED
  BY <1>2 DEF RTypeOK

\* No restart is under way at the start.
LEMMA InitRestart == RInit => RTypeOK
BY InitSuccession DEF RInit, RTypeOK, SuccessionInv, Reasons, Idle

\* Every step keeps the types.
LEMMA StepRestart == RTypeOK /\ [RNext]_rvars => RTypeOK'
<1> SUFFICES ASSUME RTypeOK, [RNext]_rvars PROVE RTypeOK'
  OBVIOUS
<1>1. TypeOK'
  <2>1. CASE Next
    BY <2>1, TypeStep DEF Next, RTypeOK
  <2>2. CASE UNCHANGED vars
    BY <2>2 DEF RTypeOK, TypeOK, vars
  <2> QED
    BY <2>1, <2>2, RestartStep
<1>2. \A kind \in Kinds : Prefix(kind) \in Reasons
  BY RestartAssumption DEF RestartKinds, Prefix, Reasons
<1>3. drain' \in Reasons
  <2>1. ASSUME NEW p \in Procs, WorkerStep(p) PROVE drain' \in Reasons
    BY <2>1 DEF WorkerStep, Released, Reasons, RTypeOK
  <2>2. ASSUME NEW h \in Handlers, SetDrain(h) PROVE drain' \in Reasons
    <3>1. job[h].kind \in Kinds
      BY <2>2, BusyJob DEF SetDrain
    <3> QED
      BY <2>2, <3>1, <1>2 DEF SetDrain, RTypeOK
  <2>3. ASSUME NEW h \in Handlers, Serve(h), ~SetDrain(h) PROVE drain' \in Reasons
    BY <2>3 DEF Serve, Refuse, Kick, KickNobody, Wait, Lift, Reexec, RTypeOK, Reasons
  <2>4. ASSUME NEW reason \in {"", "operator"}, Operator(reason) PROVE drain' \in Reasons
    BY <2>4 DEF Operator, Reasons
  <2>5. ASSUME NEW h \in Handlers, NEW kind \in Kinds, Ask(h, kind)
        PROVE  drain' \in Reasons
    BY <2>5 DEF Ask, RTypeOK
  <2>6. ASSUME Booting \/ DashboardDies \/ UNCHANGED rvars PROVE drain' \in Reasons
    BY <2>6 DEF Booting, Boot, BootLook, BootLift, DashboardDies, rvars, RTypeOK, Reasons
  <2> QED
    BY <2>1, <2>2, <2>3, <2>4, <2>5, <2>6 DEF RNext
<1>4. dash' \in {"down", "look", "lift", "up"}
  BY DEF RNext, WorkerStep, Operator, Serve, Ask, Refuse, SetDrain, Kick, KickNobody,
         Wait, Lift, Reexec, Booting, Boot, BootLook, BootLift, DashboardDies, rvars,
         RTypeOK
<1>5. job' \in [Handlers -> {Idle} \cup
                  [at : {"drain", "kick", "wait", "lift", "reexec"}, kind : Kinds]]
  <2> DEFINE Jobs == [at : {"drain", "kick", "wait", "lift", "reexec"}, kind : Kinds]
  <2>1. ASSUME NEW h \in Handlers, Serve(h) PROVE job' \in [Handlers -> {Idle} \cup Jobs]
    <3>1. job[h] \in Jobs
      BY <2>1, BusyJob DEF Serve, Refuse, SetDrain, Kick, KickNobody, Wait, Lift, Reexec
    <3>2. \/ Ends(h) \/ job' = [g \in Handlers |-> Idle]
          \/ \E at \in {"drain", "kick", "wait", "lift", "reexec"} : Does(h, at)
      BY <2>1 DEF Serve, Refuse, SetDrain, Kick, KickNobody, Kicked, Wait, Lift, Reexec
    <3> QED
      BY <3>1, <3>2 DEF Ends, Does, RTypeOK
  <2>2. ASSUME NEW h \in Handlers, NEW kind \in Kinds, Ask(h, kind)
        PROVE  job' \in [Handlers -> {Idle} \cup Jobs]
    BY <2>2 DEF Ask, RTypeOK
  <2>3. ASSUME \/ \E p \in Procs : WorkerStep(p)
               \/ \E reason \in {"", "operator"} : Operator(reason)
               \/ Booting \/ DashboardDies \/ UNCHANGED rvars
        PROVE  job' \in [Handlers -> {Idle} \cup Jobs]
    BY <2>3 DEF WorkerStep, Operator, Booting, Boot, BootLook, BootLift,
                DashboardDies, rvars, RTypeOK
  <2> QED
    BY <2>1, <2>2, <2>3 DEF RNext
<1> QED
  BY <1>1, <1>3, <1>4, <1>5 DEF RTypeOK

\* Every variable keeps its type.
THEOREM RestartTypesHold == RSpec => []RTypeOK
BY InitRestart, StepRestart, PTL DEF RSpec
=============================================================================
