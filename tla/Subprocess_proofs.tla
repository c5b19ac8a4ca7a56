-------------------------- MODULE Subprocess_proofs --------------------------
(***************************************************************************)
(* Theorems about Subprocess, for every set of pids and configurations:    *)
(* its types, and its safety where the system refuses the daemon nothing:  *)
(* signals arrive, the clock runs forward, and the program's pid_file      *)
(* option has a value.  MCSubprocess's violation runs show that each of    *)
(* these assumptions is needed.                                            *)
(*                                                                         *)
(* The argument: between two handlers the object is Sane.  Each method     *)
(* keeps it so and raises only where its caller catches it, so the pid,    *)
(* the state and the child agree, and no assertion fails in the loop.      *)
(***************************************************************************)
EXTENDS Subprocess, ProcessMethods_proofs, FiniteSetTheorems

NoFaults ==
    /\ ~SignalsFail
    /\ ClockDeltas = {1}
    /\ \A c \in Configs : ~c.stopasgroup /\ ~c.killasgroup /\ c.pid_file

IInv ==
    /\ TypeOK
    /\ ~config.stopasgroup /\ ~config.killasgroup /\ config.pid_file
    /\ Sane(proc, config)
    /\ pidhistory = {proc.pid} \ {0}
    /\ OneChild
    /\ pc # "crashed"
    /\ pc = "exited" => proc.state \in ALL_STOPPED_STATES

-----------------------------------------------------------------------------
(* The types.                                                              *)

LEMMA CalledType ==
    ASSUME proc \in ProcessType
    PROVE  Called \in ProcessType
BY DEF Called, ProcessType

LEMMA ReadiedType ==
    ASSUME TypeOK, NEW force \in BOOLEAN
    PROVE  Readied(force) \in ProcessType
BY CalledType, ChangeStateType, StateNames DEF Readied, TypeOK

\* A handler that returns an object leaves an object and a place of the thread.
LEMMA ReturnsType ==
    ASSUME NEW p \in ProcessType, NEW next \in PCs, Returns(p, next)
    PROVE  proc' \in ProcessType /\ pc' \in PCs
BY DEF Returns, Escape, PCs

LEMMA PCNames ==
    /\ \A s \in {"phase1", "dispatch", "transition", "reap", "handle_signal",
                 "exited", "crashed", "start_reap", "start_transition", "stop_reap"} : s \in PCs
    /\ \A s \in {"none", "forked", "leader", "killed", "zombie"} : s \in ChildStates
    /\ \A s \in {"RUNNING", "RESTARTING", "SHUTDOWN"} : s \in Moods
BY DEF PCs, InCall, ChildStates, Moods

LEMMA SpawnPids ==
    ASSUME NEW f \in SpawnOutcomes
    PROVE  f[2] \in PidsOrNone
BY DEF SpawnOutcomes, FreePids, PidsOrNone

LEMMA ForkTypes ==
    ASSUME TypeOK, NEW p \in ProcessType
    PROVE  /\ pidhistory \cup Forked(p) \subseteq Pids
           /\ ForkChild(p) \in [Pids -> ChildStates]
<1>1. Forked(p) \subseteq Pids
  BY DEF Forked, ProcessType, PidsOrNone
<1>2. ForkChild(p) \in [Pids -> ChildStates]
  BY PCNames DEF ForkChild, TypeOK
<1> QED BY <1>1, <1>2 DEF TypeOK

LEMMA ClientType ==
    ASSUME TypeOK, Client
    PROVE  TypeOK'
<1> USE DEF system
<1>1. ASSUME NEW force \in BOOLEAN, StartRefused(force)
      PROVE  TypeOK'
  <2>1. proc' \in ProcessType /\ pc' \in PCs
    BY <1>1, ReadiedType, ReturnsType, PCNames DEF StartRefused
  <2> QED BY <1>1, <2>1 DEF StartRefused, TypeOK
<1>2. ASSUME NEW force \in BOOLEAN, StartProcess(force)
      PROVE  TypeOK'
  <2>1. PICK f \in SpawnOutcomes :
          LET p == spawn(Readied(force), f[1], f[2], config)
          IN  /\ Returns(p, "start_reap")
              /\ pidhistory' = pidhistory \cup Forked(p)
              /\ child' = ForkChild(p)
    BY <1>2 DEF StartProcess
  <2> DEFINE p == spawn(Readied(force), f[1], f[2], config)
  <2>2. p \in ProcessType
    BY ReadiedType, SpawnType, ConfigTimed, SpawnPids DEF TypeOK
  <2> HIDE DEF p
  <2>3. proc' \in ProcessType /\ pc' \in PCs
    BY <2>1, <2>2, ReturnsType, PCNames DEF p
  <2>4. pidhistory' \subseteq Pids /\ child' \in [Pids -> ChildStates]
    BY <2>1, <2>2, ForkTypes DEF p
  <2> QED BY <1>2, <2>3, <2>4 DEF StartProcess, TypeOK
<1>3. CASE StopProcess
  <2>1. PICK d \in KillDeliveries :
          Returns(stop(Called, d, config),
                  IF d \/ ~Signals(proc) THEN "stop_reap" ELSE "dispatch")
    BY <1>3 DEF StopProcess
  <2>2. stop(Called, d, config) \in ProcessType
    BY CalledType, StopType, ConfigTimed DEF TypeOK
  <2>3. proc' \in ProcessType /\ pc' \in PCs
    BY <2>1, <2>2, ReturnsType, PCNames
  <2> QED BY <1>3, <2>3 DEF StopProcess, TypeOK
<1>4. CASE SignalProcess
  <2>1. PICK d \in Deliveries(NoSuchProcess) :
          Returns(signal(Called, d, config), "dispatch")
    BY <1>4 DEF SignalProcess
  <2>2. signal(Called, d, config) \in ProcessType
    BY CalledType, SignalType, ConfigTimed DEF TypeOK
  <2>3. proc' \in ProcessType /\ pc' \in PCs
    BY <2>1, <2>2, ReturnsType, PCNames
  <2> QED BY <1>4, <2>3 DEF SignalProcess, TypeOK
<1>5. CASE ShutdownOrRestart
  BY <1>5, PCNames DEF ShutdownOrRestart, TypeOK
<1> QED BY <1>1, <1>2, <1>3, <1>4, <1>5 DEF Client

LEMMA LoopType ==
    ASSUME TypeOK, Loop
    PROVE  TypeOK'
<1> USE DEF system
<1>1. CASE Proceed
  BY <1>1, PCNames DEF Proceed, TypeOK
<1>2. CASE StopAll
  <2>1. PICK d \in KillDeliveries :
          LET p == stop_all(Called, d, config)
          IN  \/ Returns(p, "dispatch") /\ UNCHANGED <<config, pidhistory, mood>>
              \/ Returns(p, "exited") /\ UNCHANGED <<config, pidhistory, mood>>
              \/ /\ config' \in Configs /\ Returns(NewProcess(config'), "phase1")
                 /\ pidhistory' = {} /\ mood' = "RUNNING"
    BY <1>2 DEF StopAll
  <2>2. stop_all(Called, d, config) \in ProcessType
    BY CalledType, StopAllType, ConfigTimed DEF TypeOK
  <2>3. CASE /\ config' \in Configs /\ Returns(NewProcess(config'), "phase1")
             /\ pidhistory' = {} /\ mood' = "RUNNING"
    <3>1. config' \in ConfigType
      BY <2>3, SubprocessAssumption
    <3>2. proc' \in ProcessType /\ pc' \in PCs
      BY <2>3, <3>1, NewProcessType, ConfigTimed, ReturnsType, PCNames
    <3> QED BY <1>2, <2>3, <3>1, <3>2, PCNames DEF StopAll, TypeOK
  <2>4. CASE /\ \/ Returns(stop_all(Called, d, config), "dispatch")
                \/ Returns(stop_all(Called, d, config), "exited")
             /\ UNCHANGED <<config, pidhistory, mood>>
    <3>1. proc' \in ProcessType /\ pc' \in PCs
      BY <2>2, <2>4, ReturnsType, PCNames
    <3> QED BY <1>2, <2>4, <3>1 DEF StopAll, TypeOK
  <2> QED BY <2>1, <2>3, <2>4
<1>3. CASE EndDispatch
  BY <1>3, PCNames DEF EndDispatch, TypeOK
<1>4. CASE Transition
  <2>1. PICK f \in SpawnOutcomes, d \in KillDeliveries :
          LET p == transition(Called, mood, file, f[1], f[2], d, config)
          IN  /\ Returns(p, IF pc = "transition" THEN "reap" ELSE "dispatch")
              /\ pidhistory' = pidhistory \cup Forked(p)
              /\ child' = IF overdue(proc) THEN KillChild(d) ELSE ForkChild(p)
    BY <1>4 DEF Transition
  <2> DEFINE p == transition(Called, mood, file, f[1], f[2], d, config)
  <2>2. p \in ProcessType
    BY CalledType, TransitionType, ConfigTimed, SpawnPids DEF TypeOK
  <2>3. KillChild(d) \in [Pids -> ChildStates]
    BY PCNames DEF KillChild, TypeOK
  <2> HIDE DEF p
  <2>4. proc' \in ProcessType /\ pc' \in PCs
    BY <2>1, <2>2, ReturnsType, PCNames DEF p
  <2>5. pidhistory' \subseteq Pids /\ child' \in [Pids -> ChildStates]
    BY <2>1, <2>2, <2>3, ForkTypes DEF p
  <2> QED BY <1>4, <2>4, <2>5 DEF Transition, TypeOK
<1>5. ASSUME NEW i \in Pids, Reap(i)
      PROVE  TypeOK'
  <2>1. PICK es \in {"expected", "unexpected"} :
          LET p == IF i \in pidhistory THEN finish(Called, es, config) ELSE Called
          IN  /\ Returns(p, pc)
              /\ pidhistory' = IF p.raised THEN pidhistory ELSE pidhistory \ {i}
    BY <1>5 DEF Reap
  <2> DEFINE p == IF i \in pidhistory THEN finish(Called, es, config) ELSE Called
  <2>2. p \in ProcessType
    BY CalledType, FinishType, ConfigTimed DEF TypeOK
  <2> HIDE DEF p
  <2>3. proc' \in ProcessType /\ pc' \in PCs
    BY <2>1, <2>2, ReturnsType DEF p, TypeOK
  <2>4. pidhistory' \subseteq Pids
    BY <2>1 DEF TypeOK
  <2>5. child' \in [Pids -> ChildStates]
    BY <1>5, PCNames DEF Reap, TypeOK
  <2> QED BY <1>5, <2>3, <2>4, <2>5 DEF Reap, TypeOK
<1>6. CASE Reaped
  BY <1>6, PCNames DEF Reaped, TypeOK
<1>7. CASE HandleSignal
  BY <1>7, PCNames DEF HandleSignal, TypeOK
<1> QED BY <1>1, <1>2, <1>3, <1>4, <1>5, <1>6, <1>7 DEF Loop

LEMMA EnvironmentType ==
    ASSUME TypeOK, Environment
    PROVE  TypeOK'
<1> USE DEF system
<1>1. ASSUME NEW d \in ClockDeltas, Tick(d)
      PROVE  TypeOK'
  <2>1. d \in Int /\ MaxLeft \in Int
    BY SubprocessAssumption
  <2>2. proc.age + d \in Int /\ proc.left - d \in Int /\ Ripe(config) \in Int
    BY <2>1, ConfigValues, ConfigTimed DEF TypeOK, ProcessType
  <2>3. /\ AtLeast(-1, AtMost(Ripe(config), proc.age + d)) \in Int
        /\ AtLeast(Past, IF d > 0 THEN proc.left - d ELSE AtMost(MaxLeft, proc.left - d)) \in Int
    BY <2>1, <2>2, FieldValues DEF AtLeast, AtMost
  <2>4. proc' \in ProcessType
    BY <1>1, <2>3 DEF Tick, TypeOK, ProcessType
  <2> QED BY <1>1, <2>4 DEF Tick, TypeOK
<1>2. CASE EnableFileChanges
  <2>1. config' \in ConfigType
    BY <1>2 DEF EnableFileChanges, TypeOK, ConfigType
  <2> QED BY <1>2, <2>1 DEF EnableFileChanges, TypeOK
<1>3. ASSUME NEW i \in Pids, SetsGroup(i) \/ Dies(i)
      PROVE  TypeOK'
  BY <1>3, PCNames DEF SetsGroup, Dies, TypeOK
<1> QED BY <1>1, <1>2, <1>3 DEF Environment

LEMMA InitType == Init => TypeOK
BY SubprocessAssumption, NewProcessType, ConfigTimed, PCNames DEF Init, TypeOK

LEMMA NextType == TypeOK /\ [Next]_vars => TypeOK'
<1> SUFFICES ASSUME TypeOK, [Next]_vars
             PROVE  TypeOK'
  OBVIOUS
<1>1. CASE UNCHANGED vars
  BY <1>1 DEF vars, TypeOK
<1> QED BY <1>1, ClientType, LoopType, EnvironmentType DEF Next

\* Subprocess's state keeps its type, whatever the pids, the configurations and
\* the faults of the system.
THEOREM TypeCorrect == Spec => []TypeOK
BY InitType, NextType, PTL DEF Spec

-----------------------------------------------------------------------------
(* The invariant.                                                          *)

LEMMA CalledSane ==
    ASSUME TypeOK, Sane(proc, config)
    PROVE  /\ Sane(Called, config)
           /\ ~Called.raised
           /\ Called.pid = proc.pid /\ Called.state = proc.state
           /\ Called.started = proc.started
           /\ Called.administrative_stop = proc.administrative_stop
BY DEF TypeOK, Called, Sane, ProcessType

LEMMA ReadiedSane ==
    ASSUME TypeOK, Sane(proc, config), NEW force \in BOOLEAN
    PROVE  /\ Sane(Readied(force), config)
           /\ Readied(force).pid = proc.pid
           /\ ~Readied(force).raised
<1>1. CASE force /\ proc.state = "DISABLED"
  BY <1>1, CalledSane, CalledType
  DEF Readied, change_state, RestingState, TypeOK, Sane, ProcessType, Alive
<1>2. CASE ~(force /\ proc.state = "DISABLED")
  BY <1>2, CalledSane DEF Readied
<1> QED BY <1>1, <1>2

\* The system delivers every signal the daemon sends.
LEMMA AllDelivered ==
    ASSUME NoFaults, IInv
    PROVE  KillDeliveries = {TRUE} /\ Deliveries(NoSuchProcess) = {TRUE}
<1>1. ~AsGroup
  BY DEF AsGroup, IInv
<1>2. ~NoSuchProcess
  BY DEF NoSuchProcess, IInv, OneChild, TypeOK, ProcessType, PidsOrNone
<1> QED BY <1>1, <1>2 DEF KillDeliveries, Deliveries, NoSuchGroup, NoFaults

\* A handler that leaves a sane object, and forks at most the child the object then
\* has, keeps the invariant.
LEMMA HandlerInv ==
    ASSUME IInv, TypeOK', NEW p, NEW next,
           Sane(p, config),
           p.pid = proc.pid \/ (proc.pid = 0 /\ p.pid \in Pids),
           Returns(p, next), next # "crashed",
           next = "exited" => p.state \in ALL_STOPPED_STATES,
           p.raised => Escape = "dispatch",
           config' = config,
           pidhistory' = pidhistory \cup Forked(p),
           child' = ForkChild(p)
    PROVE  IInv'
<1>1. proc' = p /\ pc' \in {"dispatch", next} /\ (pc' = "exited" => next = "exited")
  BY DEF Returns
<1>2. p.pid # 0 => p.pid \in Pids
  BY DEF IInv, TypeOK, ProcessType, PidsOrNone
<1>3. pidhistory' = {p.pid} \ {0}
  BY <1>2 DEF Forked, IInv
<1>4. OneChild'
  BY <1>1, <1>2, PidsAssumption DEF OneChild, ForkChild, Forked, IInv
<1> QED BY <1>1, <1>3, <1>4 DEF IInv

\* A handler that changes neither the pid nor the children keeps the invariant.
LEMMA QuietHandlerInv ==
    ASSUME IInv, TypeOK', NEW p, NEW next,
           Sane(p, config), p.pid = proc.pid,
           Returns(p, next), next # "crashed",
           next = "exited" => p.state \in ALL_STOPPED_STATES,
           p.raised => Escape = "dispatch",
           UNCHANGED <<config, pidhistory, child>>
    PROVE  IInv'
<1>1. Forked(p) = {}
  BY DEF Forked
<1>2. ForkChild(p) = child
  BY <1>1 DEF ForkChild, IInv, TypeOK
<1> QED BY <1>1, <1>2, HandlerInv

LEMMA ClientInv ==
    ASSUME NoFaults, IInv, TypeOK', Client
    PROVE  IInv'
<1> USE DEF system
<1>1. TypeOK /\ Sane(proc, config) /\ config \in ConfigType
  BY DEF IInv, TypeOK
<1>2. ASSUME NEW force \in BOOLEAN, StartRefused(force)
      PROVE  IInv'
  <2>1. Escape = "dispatch"
    BY <1>2 DEF StartRefused, MayStart, Escape
  <2> QED BY <1>1, <1>2, <2>1, ReadiedSane, QuietHandlerInv DEF StartRefused
<1>3. ASSUME NEW force \in BOOLEAN, StartProcess(force)
      PROVE  IInv'
  <2>1. PICK f \in SpawnOutcomes :
          LET p == spawn(Readied(force), f[1], f[2], config)
          IN  /\ Returns(p, "start_reap")
              /\ pidhistory' = pidhistory \cup Forked(p)
              /\ child' = ForkChild(p)
    BY <1>3 DEF StartProcess
  <2> DEFINE p == spawn(Readied(force), f[1], f[2], config)
  <2>2. f[1] = "fork" => f[2] \in Pids
    BY DEF SpawnOutcomes, FreePids
  <2>3. Readied(force) \in ProcessType /\ Sane(Readied(force), config)
        /\ Readied(force).pid = proc.pid
    BY <1>1, ReadiedType, ReadiedSane
  <2>4. Sane(p, config) /\ (p.pid = proc.pid \/ (proc.pid = 0 /\ p.pid \in Pids))
    BY <1>1, <2>2, <2>3, SpawnSane, ConfigTimed
  <2>5. Escape = "dispatch" /\ config' = config
    BY <1>3 DEF StartProcess, MayStart, Escape
  <2> HIDE DEF p
  <2>6. Returns(p, "start_reap") /\ pidhistory' = pidhistory \cup Forked(p) /\ child' = ForkChild(p)
    BY <2>1 DEF p
  <2> QED BY <2>4, <2>5, <2>6, HandlerInv
<1>4. CASE StopProcess
  <2>1. PICK next \in {"stop_reap", "dispatch"} : Returns(stop(Called, TRUE, config), next)
    BY <1>4, AllDelivered DEF StopProcess
  <2>2. Called.state \in {"STARTING", "RUNNING", "BACKOFF"}
    BY <1>1, <1>4, CalledSane DEF StopProcess, RUNNING_STATES
  <2>3. Called \in ProcessType
    BY <1>1, CalledType DEF TypeOK
  <2>4. LET q == stop(Called, TRUE, config)
        IN  Sane(q, config) /\ q.pid = proc.pid /\ ~q.raised
    BY <1>1, <2>2, <2>3, CalledSane, StopSane, ConfigTimed
  <2> QED BY <1>4, <2>1, <2>4, QuietHandlerInv DEF StopProcess
<1>5. CASE SignalProcess
  <2>1. Returns(signal(Called, TRUE, config), "dispatch")
    BY <1>5, AllDelivered DEF SignalProcess
  <2>2. signal(Called, TRUE, config) \in {Called, Raise(Called)}
    BY DEF signal
  <2>3. LET q == signal(Called, TRUE, config) IN Sane(q, config) /\ q.pid = proc.pid
    BY <1>1, <2>2, CalledSane, CalledType DEF Raise, Sane, TypeOK, ProcessType
  <2>4. Escape = "dispatch"
    BY <1>5 DEF SignalProcess, Escape
  <2> QED BY <1>5, <2>1, <2>3, <2>4, QuietHandlerInv DEF SignalProcess
<1>6. CASE ShutdownOrRestart
  BY <1>6 DEF ShutdownOrRestart, IInv, OneChild
<1> QED BY <1>2, <1>3, <1>4, <1>5, <1>6 DEF Client

LEMMA LoopInv ==
    ASSUME NoFaults, IInv, TypeOK', Loop
    PROVE  IInv'
<1> USE DEF system
<1>1. TypeOK /\ Sane(proc, config) /\ config \in ConfigType /\ Called \in ProcessType
  BY CalledType DEF IInv, TypeOK
<1>2. CASE Proceed \/ EndDispatch \/ HandleSignal \/ Reaped
  BY <1>2 DEF Proceed, EndDispatch, HandleSignal, Reaped, IInv, OneChild
<1>3. CASE StopAll
  <2> DEFINE p == stop_all(Called, TRUE, config)
  <2>1. Sane(p, config) /\ p.pid = proc.pid /\ ~p.raised
    BY <1>1, CalledSane, StopAllSane, ConfigTimed
  <2>2. \/ Returns(p, "dispatch") /\ UNCHANGED <<config, pidhistory, mood>>
        \/ /\ Returns(p, "exited") /\ UNCHANGED <<config, pidhistory, mood>>
           /\ p.state \in ALL_STOPPED_STATES
        \/ /\ config' \in Configs /\ Returns(NewProcess(config'), "phase1")
           /\ pidhistory' = {} /\ p.state \in ALL_STOPPED_STATES
    BY <1>3, AllDelivered DEF StopAll
  <2>3. child' = child
    BY <1>3 DEF StopAll
  <2> HIDE DEF p
  <2>4. CASE Returns(p, "dispatch") /\ UNCHANGED <<config, pidhistory, mood>>
    BY <2>1, <2>3, <2>4, QuietHandlerInv
  <2>5. CASE /\ Returns(p, "exited") /\ UNCHANGED <<config, pidhistory, mood>>
             /\ p.state \in ALL_STOPPED_STATES
    BY <2>1, <2>3, <2>5, QuietHandlerInv
  <2>6. CASE /\ config' \in Configs /\ Returns(NewProcess(config'), "phase1")
             /\ pidhistory' = {} /\ p.state \in ALL_STOPPED_STATES
    <3>1. config' \in ConfigType
      BY <2>6, SubprocessAssumption
    <3>2. Sane(NewProcess(config'), config') /\ NewProcess(config').pid = 0
          /\ ~NewProcess(config').raised
      BY <3>1, NewProcessSane, ConfigTimed DEF NewProcess
    <3>3. proc' = NewProcess(config') /\ pc' = "phase1"
      BY <2>6, <3>2 DEF Returns
    <3>4. proc.pid = 0
      BY <2>1, <2>6 DEF Sane, Alive, ALL_STOPPED_STATES
    <3>5. pidhistory' = {proc'.pid} \ {0}
      BY <2>6, <3>2, <3>3
    <3>6. OneChild'
      BY <2>3, <3>2, <3>3, <3>4 DEF OneChild, IInv
    <3>7. ~config'.stopasgroup /\ ~config'.killasgroup /\ config'.pid_file
      BY <2>6 DEF NoFaults
    <3> QED BY <3>2, <3>3, <3>5, <3>6, <3>7 DEF IInv
  <2> QED BY <2>2, <2>4, <2>5, <2>6
<1>4. CASE Transition
  <2>1. PICK f \in SpawnOutcomes :
          LET p == Turn(Called, mood, file, f[1], f[2], config)
          IN  /\ Returns(p, IF pc = "transition" THEN "reap" ELSE "dispatch")
              /\ pidhistory' = pidhistory \cup Forked(p)
              /\ child' = IF overdue(proc) THEN KillChild(TRUE) ELSE ForkChild(p)
    BY <1>4, AllDelivered DEF Transition, Turn
  <2> DEFINE p == Turn(Called, mood, file, f[1], f[2], config)
             next == IF pc = "transition" THEN "reap" ELSE "dispatch"
  <2>2. file \in {"absent", "stale"} /\ mood \in {"RUNNING", "RESTARTING", "SHUTDOWN"}
    BY DEF file, IInv, TypeOK, Moods
  <2>3. /\ f[1] \in {"fork", "failed"} /\ f[2] \in PidsOrNone
        /\ f[1] = "fork" => f[2] \in Pids
    BY SpawnPids DEF SpawnOutcomes, FreePids
  <2>4. /\ Sane(p, config) /\ ~p.raised
        /\ p.pid = proc.pid \/ (proc.pid = 0 /\ p.pid \in Pids)
        /\ overdue(proc) => p.pid = proc.pid
    <3>1. /\ Called \in ProcessType /\ Timed(config)
          /\ Sane(Called, config) /\ ~Called.raised /\ Called.pid = proc.pid
      BY <1>1, CalledSane, ConfigTimed
    <3>2. /\ Sane(p, config)
          /\ ~p.raised
          /\ p.pid = Called.pid \/ (Called.pid = 0 /\ p.pid \in Pids)
          /\ Called.state = "STOPPING" => p.pid = Called.pid
      BY <2>2, <2>3, <3>1, TransitionSane
    <3>3. overdue(proc) => Called.state = "STOPPING"
      BY CalledSane, <1>1 DEF overdue
    <3> QED BY <3>1, <3>2, <3>3
  <2>6. config' = config /\ next # "crashed" /\ next # "exited"
    BY <1>4 DEF Transition
  <2> HIDE DEF p, next
  <2>7. /\ Returns(p, next)
        /\ pidhistory' = pidhistory \cup Forked(p)
        /\ child' = IF overdue(proc) THEN KillChild(TRUE) ELSE ForkChild(p)
    BY <2>1 DEF p, next
  <2>8. CASE ~overdue(proc)
    BY <2>4, <2>6, <2>7, <2>8, HandlerInv
  <2>9. CASE overdue(proc)
    <3>1. p.pid = proc.pid /\ proc' = p /\ pc' = next
      BY <2>4, <2>7, <2>9 DEF Returns
    <3>2. pidhistory' = pidhistory
      BY <2>7, <3>1 DEF Forked
    <3>3. OneChild'
      BY <2>7, <2>9, <3>1 DEF OneChild, KillChild, IInv
    <3> QED BY <2>4, <2>6, <3>1, <3>2, <3>3 DEF IInv
  <2> QED BY <2>8, <2>9
<1>5. ASSUME NEW i \in Pids, Reap(i)
      PROVE  IInv'
  <2>1. i = proc.pid /\ proc.pid # 0 /\ i \in pidhistory
    BY <1>5, PidsAssumption DEF Reap, Zombies, IInv, OneChild
  <2>2. PICK es \in {"expected", "unexpected"} :
          LET p == finish(Called, es, config)
          IN  /\ Returns(p, pc)
              /\ pidhistory' = IF p.raised THEN pidhistory ELSE pidhistory \ {i}
    BY <1>5, <2>1 DEF Reap
  <2> DEFINE p == finish(Called, es, config)
  <2>3. Sane(p, config) /\ p.pid = 0 /\ ~p.raised
    BY <1>1, <2>1, CalledSane, FinishSane, ConfigTimed
  <2> HIDE DEF p
  <2>4. proc' = p /\ pc' = pc /\ pidhistory' = pidhistory \ {i}
    BY <2>2, <2>3 DEF Returns, p
  <2>5. config' = config /\ child' = [child EXCEPT ![i] = "none"] /\ pc # "exited"
    BY <1>5 DEF Reap, Reaping
  <2>6. OneChild'
    BY <2>1, <2>3, <2>4, <2>5, PidsAssumption DEF OneChild, IInv, TypeOK
  <2>7. pidhistory' = {p.pid} \ {0}
    BY <2>1, <2>3, <2>4 DEF IInv
  <2> QED BY <2>3, <2>4, <2>5, <2>6, <2>7 DEF IInv
<1> QED BY <1>2, <1>3, <1>4, <1>5 DEF Loop

LEMMA EnvironmentInv ==
    ASSUME NoFaults, IInv, TypeOK', Environment
    PROVE  IInv'
<1> USE DEF system
<1>1. TypeOK /\ Sane(proc, config)
  BY DEF IInv
<1>2. ASSUME NEW d \in ClockDeltas, Tick(d)
      PROVE  IInv'
  <2>1. d = 1
    BY <1>2 DEF NoFaults
  <2>2. proc.age \in Int /\ config.startsecs \in Nat /\ proc \in ProcessType
    BY <1>1 DEF TypeOK, ProcessType, ConfigType
  <2> DEFINE age == AtLeast(-1, AtMost(Ripe(config), proc.age + d))
             left == AtLeast(Past, IF d > 0 THEN proc.left - d ELSE AtMost(MaxLeft, proc.left - d))
  <2>3. proc.age > config.startsecs => age > config.startsecs
    BY <2>1, <2>2 DEF AtLeast, AtMost, Ripe
  <2>4. proc' = [proc EXCEPT !.age = age, !.left = left]
    BY <1>2 DEF Tick
  <2> HIDE DEF age, left
  <2>5. Sane(proc', config) /\ proc'.pid = proc.pid /\ proc'.state = proc.state
    BY <1>1, <2>2, <2>3, <2>4 DEF Sane, ProcessType
  <2> QED BY <1>2, <2>5 DEF Tick, IInv, OneChild
<1>3. CASE EnableFileChanges
  <2>1. /\ config'.startsecs = config.startsecs /\ config'.pid_file = config.pid_file
        /\ config'.stopasgroup = config.stopasgroup /\ config'.killasgroup = config.killasgroup
    BY <1>1, <1>3 DEF EnableFileChanges, TypeOK, ConfigType
  <2> QED BY <1>3, <2>1 DEF EnableFileChanges, IInv, Sane, OneChild
<1>4. ASSUME NEW i \in Pids, SetsGroup(i)
      PROVE  IInv'
  BY <1>1, <1>4 DEF SetsGroup, IInv, OneChild, TypeOK
<1>5. ASSUME NEW i \in Pids, Dies(i)
      PROVE  IInv'
  BY <1>1, <1>5 DEF Dies, IInv, OneChild, TypeOK
<1> QED BY <1>2, <1>3, <1>4, <1>5 DEF Environment

LEMMA InitInv == ASSUME NoFaults, Init PROVE IInv
<1>1. config \in ConfigType /\ proc = NewProcess(config)
  BY SubprocessAssumption DEF Init
<1>2. Sane(proc, config) /\ proc.pid = 0
  BY <1>1, NewProcessSane, ConfigTimed DEF NewProcess
<1>3. OneChild
  BY <1>2, PidsAssumption DEF Init, OneChild
<1> QED BY <1>2, <1>3, InitType DEF Init, IInv, NoFaults

LEMMA NextInv == ASSUME NoFaults, IInv, [Next]_vars PROVE IInv'
<1>1. TypeOK'
  BY NextType DEF IInv
<1>2. CASE UNCHANGED vars
  BY <1>2 DEF vars, IInv, TypeOK, Sane, OneChild
<1> QED BY <1>1, <1>2, ClientInv, LoopInv, EnvironmentInv DEF Next

\* The invariant from which the safety of the program follows.
THEOREM Invariance == ASSUME NoFaults PROVE Spec => []IInv
<1>1. Init => IInv
  BY InitInv
<1>2. IInv /\ [Next]_vars => IInv'
  BY NextInv
<1> QED BY <1>1, <1>2, PTL DEF Spec

\* The object, pidhistory and the killing flag agree about the child at every moment,
\* between any two steps of the loop and of the system.
THEOREM PidTracksStateHolds == ASSUME NoFaults PROVE Spec => []PidTracksState
<1>1. IInv => PidTracksState
  BY DEF IInv, Sane, Alive, PidTracksState
<1> QED BY <1>1, Invariance, PTL

\* No program ever runs twice, and none runs that the daemon has lost.
THEOREM OneChildHolds == ASSUME NoFaults PROVE Spec => []OneChild
<1>1. IInv => OneChild
  BY DEF IInv
<1> QED BY <1>1, Invariance, PTL

\* No assertion of a method fails in the main loop.
THEOREM DaemonSurvivesHolds == ASSUME NoFaults PROVE Spec => []DaemonSurvives
<1>1. IInv => DaemonSurvives
  BY DEF IInv, DaemonSurvives
<1> QED BY <1>1, Invariance, PTL

\* The daemon leaves no child behind when it exits.
THEOREM ExitLeavesNoChildHolds == ASSUME NoFaults PROVE Spec => []ExitLeavesNoChild
<1>1. IInv => ExitLeavesNoChild
  BY PidsAssumption DEF IInv, ExitLeavesNoChild, OneChild, Sane, Alive, ALL_STOPPED_STATES
<1> QED BY <1>1, Invariance, PTL

-----------------------------------------------------------------------------
(* The steps that fork a child.                                            *)

LEMMA ForkedPid == Forked(proc') # {} <=> proc'.pid \notin {0, proc.pid}
BY DEF Forked

\* A turn of the loop forks only while the daemon stays up, and never a program that
\* an administrator stopped.
LEMMA TransitionForks ==
    ASSUME NoFaults, IInv, Transition, Forked(proc') # {}
    PROVE  mood = "RUNNING" /\ ~proc.administrative_stop
<1>1. PICK f \in SpawnOutcomes :
        proc' = Turn(Called, mood, file, f[1], f[2], config)
  BY AllDelivered DEF Transition, Turn, Returns
<1> DEFINE p == Turn(Called, mood, file, f[1], f[2], config)
<1>2. file \in {"absent", "stale"} /\ mood \in {"RUNNING", "RESTARTING", "SHUTDOWN"}
  BY DEF file, IInv, TypeOK, Moods
<1>3. /\ f[1] \in {"fork", "failed"} /\ f[2] \in PidsOrNone
      /\ f[1] = "fork" => f[2] \in Pids
  BY SpawnPids DEF SpawnOutcomes, FreePids
<1>4. /\ Called \in ProcessType /\ Timed(config)
      /\ Sane(Called, config) /\ ~Called.raised /\ Called.pid = proc.pid
      /\ Called.administrative_stop = proc.administrative_stop
  BY CalledSane, CalledType, ConfigTimed DEF IInv, TypeOK
<1>5. p.pid # Called.pid => mood = "RUNNING" /\ ~Called.administrative_stop
  BY <1>2, <1>3, <1>4, TransitionSane
<1> QED BY <1>1, <1>4, <1>5, ForkedPid

LEMMA OthersForkNothing ==
    ASSUME NoFaults, IInv, [Next]_vars, ~Transition,
           \A force \in BOOLEAN : ~StartProcess(force)
    PROVE  Forked(proc') = {}
<1> USE ForkedPid DEF system
<1>1. TypeOK /\ Sane(proc, config) /\ config \in ConfigType /\ Called \in ProcessType
  BY CalledType DEF IInv, TypeOK
<1>2. CASE UNCHANGED vars
  BY <1>2 DEF vars
<1>3. ASSUME NEW force \in BOOLEAN, StartRefused(force)
      PROVE  Forked(proc') = {}
  BY <1>1, <1>3, ReadiedSane DEF StartRefused, Returns
<1>4. CASE StopProcess
  <2>1. proc' = stop(Called, TRUE, config)
    BY <1>4, AllDelivered DEF StopProcess, Returns
  <2>2. Called.state \in {"STARTING", "RUNNING", "BACKOFF"} /\ Called.pid = proc.pid
    BY <1>1, <1>4, CalledSane DEF StopProcess, RUNNING_STATES
  <2>3. LET q == stop(Called, TRUE, config) IN q.pid = proc.pid
    BY <1>1, <2>2, CalledSane, StopSane, ConfigTimed
  <2> QED BY <2>1, <2>3
<1>5. CASE SignalProcess
  <2>1. proc' = signal(Called, TRUE, config)
    BY <1>5, AllDelivered DEF SignalProcess, Returns
  <2>2. signal(Called, TRUE, config) \in {Called, Raise(Called)}
    BY DEF signal
  <2> QED BY <1>1, <2>1, <2>2, CalledSane DEF Raise, ProcessType
<1>6. CASE StopAll
  <2>1. proc' = stop_all(Called, TRUE, config) \/ \E c \in Configs : proc' = NewProcess(c)
    BY <1>6, AllDelivered DEF StopAll, Returns
  <2>2. LET q == stop_all(Called, TRUE, config) IN q.pid = proc.pid
    BY <1>1, CalledSane, StopAllSane, ConfigTimed
  <2>3. \A c \in Configs : NewProcess(c).pid = 0
    BY DEF NewProcess
  <2> QED BY <2>1, <2>2, <2>3
<1>7. ASSUME NEW i \in Pids, Reap(i)
      PROVE  Forked(proc') = {}
  <2>1. i = proc.pid /\ proc.pid # 0 /\ i \in pidhistory
    BY <1>7, PidsAssumption DEF Reap, Zombies, IInv, OneChild
  <2>2. PICK es \in {"expected", "unexpected"} : proc' = finish(Called, es, config)
    BY <1>7, <2>1 DEF Reap, Returns
  <2>3. LET q == finish(Called, es, config) IN q.pid = 0
    BY <1>1, <2>1, CalledSane, FinishSane, ConfigTimed
  <2> QED BY <2>2, <2>3
<1>8. ASSUME NEW d \in ClockDeltas, Tick(d)
      PROVE  Forked(proc') = {}
  BY <1>1, <1>8 DEF Tick, TypeOK, ProcessType
<1>9. CASE \/ ShutdownOrRestart \/ Proceed \/ EndDispatch \/ Reaped \/ HandleSignal
           \/ EnableFileChanges \/ \E i \in Pids : SetsGroup(i) \/ Dies(i)
  BY <1>9 DEF ShutdownOrRestart, Proceed, EndDispatch, Reaped, HandleSignal,
              EnableFileChanges, SetsGroup, Dies
<1> QED BY <1>2, <1>3, <1>4, <1>5, <1>6, <1>7, <1>8, <1>9 DEF Next, Client, Loop, Environment

\* The daemon's own loop never brings back what an administrator stopped.
THEOREM AdministrativeStopIsKept ==
    ASSUME NoFaults PROVE Spec => AdministrativeStopHolds
<1>1. IInv /\ [Next]_vars =>
        [proc.administrative_stop /\ Forked(proc') # {} =>
           \E force \in BOOLEAN : StartProcess(force)]_vars
  BY TransitionForks, OthersForkNothing
<1> QED BY <1>1, Invariance, PTL DEF Spec, AdministrativeStopHolds

\* A daemon that is told to go starts no program any more.
THEOREM ShutdownStartsNothingHolds ==
    ASSUME NoFaults PROVE Spec => ShutdownStartsNothing
<1>1. ASSUME NEW force \in BOOLEAN, StartProcess(force)
      PROVE  mood = "RUNNING"
  BY <1>1 DEF StartProcess, MayStart
<1>2. IInv /\ [Next]_vars => [mood # "RUNNING" => Forked(proc') = {}]_vars
  BY <1>1, TransitionForks, OthersForkNothing
<1> QED BY <1>2, Invariance, PTL DEF Spec, ShutdownStartsNothing

-----------------------------------------------------------------------------
(* The promise to the users of a program.  With the invariant before and   *)
(* after a step it is enough to know what the step does to the pid, and to *)
(* the children that still run.                                            *)

Living == {i \in Pids : child[i] \in {"forked", "leader", "killed"}}

\* The object has the child it had, and goes on ending it if it did.
Keeps == /\ proc'.pid = proc.pid /\ Living' = Living
         /\ proc.state = "STOPPING" => proc'.state = "STOPPING"
Forks == proc.pid = 0 /\ proc'.pid \in Living' /\ proc'.state = "STARTING"
Loses == proc.pid # 0 /\ proc'.pid = 0 /\ Living = {}
Ends == proc' = proc /\ proc.pid \in Living /\ Living' = {}

LEMMA LivingIs ==
    ASSUME IInv
    PROVE  Living = {} \/ (Living = {proc.pid} /\ proc.pid # 0)
BY PidsAssumption DEF Living, IInv, OneChild

LEMMA LivingAfter ==
    ASSUME child' = child
    PROVE  Living' = Living
BY DEF Living

\* A handler that forks the child its object then has, or none.
LEMMA HandlerKeeps ==
    ASSUME TypeOK, NEW p, proc' = p, child' = ForkChild(p),
           p.pid = proc.pid \/ (proc.pid = 0 /\ p.pid \in Pids /\ p.state = "STARTING"),
           proc.state = "STOPPING" /\ p.pid = proc.pid => p.state = "STOPPING"
    PROVE  Keeps \/ Forks
<1>1. CASE p.pid = proc.pid
  <2>1. child' = child
    BY <1>1 DEF ForkChild, Forked, TypeOK
  <2> QED BY <1>1, <2>1 DEF Keeps, Living
<1>2. CASE p.pid # proc.pid /\ proc.pid = 0 /\ p.pid \in Pids /\ p.state = "STARTING"
  <2>1. child'[p.pid] = "forked"
    BY <1>2, PidsAssumption DEF ForkChild, Forked
  <2> QED BY <1>2, <2>1 DEF Forks, Living
<1> QED BY <1>1, <1>2

LEMMA ClientShape ==
    ASSUME NoFaults, IInv, Client
    PROVE  Keeps \/ Forks
<1> USE DEF system
<1>1. TypeOK /\ Sane(proc, config) /\ config \in ConfigType
  BY DEF IInv, TypeOK
<1>2. ASSUME NEW force \in BOOLEAN, StartRefused(force)
      PROVE  Keeps
  <2>1. proc' = Readied(force) /\ child' = child
    BY <1>2 DEF StartRefused, Returns
  <2>2. proc.state = "STOPPING" => proc'.state = "STOPPING"
    BY <1>1, <2>1, CalledSane DEF Readied
  <2> QED BY <1>1, <2>1, <2>2, ReadiedSane, LivingAfter DEF Keeps
<1>3. ASSUME NEW force \in BOOLEAN, StartProcess(force)
      PROVE  Keeps \/ Forks
  <2>1. PICK f \in SpawnOutcomes :
          LET p == spawn(Readied(force), f[1], f[2], config)
          IN  proc' = p /\ child' = ForkChild(p)
    BY <1>3 DEF StartProcess, Returns
  <2> DEFINE p == spawn(Readied(force), f[1], f[2], config)
             r == Readied(force)
  <2>2. f[1] = "fork" => f[2] \in Pids
    BY DEF SpawnOutcomes, FreePids
  <2>3. r \in ProcessType /\ Sane(r, config) /\ r.pid = proc.pid
        /\ (proc.state = "STOPPING" => r.state = "STOPPING")
    BY <1>1, ReadiedType, ReadiedSane, CalledSane DEF Readied
  <2>4. proc.state = "STOPPING" => p = r
    BY <1>1, <2>3 DEF Sane, Alive, spawn
  <2> HIDE DEF r
  <2>5. /\ p.pid = r.pid \/ (r.pid = 0 /\ p.pid \in Pids)
        /\ p.pid # r.pid => p.state = "STARTING"
    BY <1>1, <2>2, <2>3, SpawnSane, ConfigTimed DEF r
  <2> HIDE DEF p
  <2>6. proc' = p /\ child' = ForkChild(p)
    BY <2>1 DEF p
  <2> QED BY <1>1, <2>3, <2>4, <2>5, <2>6, HandlerKeeps
<1>4. CASE StopProcess
  <2>1. proc' = stop(Called, TRUE, config) /\ child' = child
    BY <1>4, AllDelivered DEF StopProcess, Returns
  <2>2. /\ Called.state \in {"STARTING", "RUNNING", "BACKOFF"} /\ Called.pid = proc.pid
        /\ proc.state # "STOPPING"
    BY <1>1, <1>4, CalledSane DEF StopProcess, RUNNING_STATES
  <2>3. LET q == stop(Called, TRUE, config) IN q.pid = proc.pid
    BY <1>1, <2>2, CalledSane, CalledType, StopSane, ConfigTimed DEF TypeOK
  <2> QED BY <2>1, <2>2, <2>3, LivingAfter DEF Keeps
<1>5. CASE SignalProcess
  <2>1. proc' = signal(Called, TRUE, config) /\ child' = child /\ proc.state # "STOPPING"
    BY <1>5, AllDelivered DEF SignalProcess, Returns, RUNNING_STATES
  <2>2. signal(Called, TRUE, config) \in {Called, Raise(Called)}
    BY DEF signal
  <2>3. signal(Called, TRUE, config).pid = proc.pid
    BY <1>1, <2>2, CalledSane, CalledType DEF Raise, TypeOK, ProcessType
  <2> QED BY <2>1, <2>3, LivingAfter DEF Keeps
<1>6. CASE ShutdownOrRestart
  BY <1>6, LivingAfter DEF ShutdownOrRestart, Keeps
<1> QED BY <1>2, <1>3, <1>4, <1>5, <1>6 DEF Client

LEMMA LoopShape ==
    ASSUME NoFaults, IInv, Loop
    PROVE  Keeps \/ Forks \/ Loses
<1> USE DEF system
<1>1. TypeOK /\ Sane(proc, config) /\ config \in ConfigType /\ Called \in ProcessType
  BY CalledType DEF IInv, TypeOK
<1>2. CASE Proceed \/ EndDispatch \/ HandleSignal \/ Reaped
  BY <1>2, LivingAfter DEF Proceed, EndDispatch, HandleSignal, Reaped, Keeps
<1>3. CASE StopAll
  <2> DEFINE p == stop_all(Called, TRUE, config)
  <2>1. /\ Sane(p, config) /\ p.pid = proc.pid
        /\ proc.state = "STOPPING" => p.state = "STOPPING"
    BY <1>1, CalledSane, StopAllSane, ConfigTimed
  <2>2. /\ child' = child
        /\ \/ proc' = p
           \/ proc'.pid = 0 /\ p.state \in ALL_STOPPED_STATES
    <3>1. \A c : NewProcess(c).pid = 0
      BY DEF NewProcess
    <3> QED BY <1>3, <3>1, AllDelivered DEF StopAll, Returns
  <2> HIDE DEF p
  <2>3. p.state \in ALL_STOPPED_STATES => p.pid = 0 /\ proc.state # "STOPPING"
    BY <2>1 DEF Sane, Alive, ALL_STOPPED_STATES
  <2> QED BY <2>1, <2>2, <2>3, LivingAfter DEF Keeps
<1>4. CASE Transition
  <2>1. PICK f \in SpawnOutcomes :
          LET p == Turn(Called, mood, file, f[1], f[2], config)
          IN  /\ proc' = p
              /\ child' = IF overdue(proc) THEN KillChild(TRUE) ELSE ForkChild(p)
    BY <1>4, AllDelivered DEF Transition, Turn, Returns
  <2> DEFINE p == Turn(Called, mood, file, f[1], f[2], config)
  <2>2. file \in {"absent", "stale"} /\ mood \in {"RUNNING", "RESTARTING", "SHUTDOWN"}
    BY DEF file, IInv, TypeOK, Moods
  <2>3. /\ f[1] \in {"fork", "failed"} /\ f[2] \in PidsOrNone
        /\ f[1] = "fork" => f[2] \in Pids
    BY SpawnPids DEF SpawnOutcomes, FreePids
  <2>4. /\ Called \in ProcessType /\ Timed(config) /\ Called.state = proc.state
        /\ Sane(Called, config) /\ ~Called.raised /\ Called.pid = proc.pid
    BY <1>1, CalledSane, ConfigTimed
  <2>5. /\ p.pid = Called.pid \/ (Called.pid = 0 /\ p.pid \in Pids)
        /\ p.pid # Called.pid => p.state = "STARTING"
        /\ Called.state = "STOPPING" => p.pid = Called.pid /\ p.state = "STOPPING"
    BY <2>2, <2>3, <2>4, TransitionSane
  <2> HIDE DEF p
  <2>6. proc' = p /\ child' = IF overdue(proc) THEN KillChild(TRUE) ELSE ForkChild(p)
    BY <2>1 DEF p
  <2>7. CASE ~overdue(proc)
    BY <1>1, <2>4, <2>5, <2>6, <2>7, HandlerKeeps
  <2>8. CASE overdue(proc)
    <3>1. proc.state = "STOPPING"
      BY <2>8 DEF overdue
    <3>2. Living' = Living
      BY <1>1, <2>6, <2>8 DEF KillChild, Living, TypeOK, ChildStates
    <3> QED BY <2>4, <2>5, <2>6, <3>1, <3>2 DEF Keeps
  <2> QED BY <2>7, <2>8
<1>5. ASSUME NEW i \in Pids, Reap(i)
      PROVE  Loses
  <2>1. i = proc.pid /\ proc.pid # 0 /\ i \in pidhistory /\ child[i] = "zombie"
    BY <1>5, PidsAssumption DEF Reap, Zombies, IInv, OneChild
  <2>2. PICK es \in {"expected", "unexpected"} : proc' = finish(Called, es, config)
    BY <1>5, <2>1 DEF Reap, Returns
  <2>3. LET q == finish(Called, es, config) IN q.pid = 0
    BY <1>1, <2>1, CalledSane, FinishSane, ConfigTimed
  <2>4. Living = {}
    BY <2>1, LivingIs DEF Living
  <2> QED BY <2>1, <2>2, <2>3, <2>4 DEF Loses
<1> QED BY <1>2, <1>3, <1>4, <1>5 DEF Loop

LEMMA EnvironmentShape ==
    ASSUME NoFaults, IInv, Environment
    PROVE  Keeps \/ Ends
<1> USE DEF system
<1>1. TypeOK
  BY DEF IInv
<1>2. ASSUME NEW d \in ClockDeltas, Tick(d)
      PROVE  Keeps
  <2>1. proc'.pid = proc.pid /\ proc'.state = proc.state /\ child' = child
    BY <1>1, <1>2 DEF Tick, TypeOK, ProcessType
  <2> QED BY <2>1, LivingAfter DEF Keeps
<1>3. CASE EnableFileChanges
  BY <1>3, LivingAfter DEF EnableFileChanges, Keeps
<1>4. ASSUME NEW i \in Pids, SetsGroup(i)
      PROVE  Keeps
  <2>1. Living' = Living
    BY <1>1, <1>4 DEF SetsGroup, Living, TypeOK
  <2> QED BY <1>4, <2>1 DEF SetsGroup, Keeps
<1>5. ASSUME NEW i \in Pids, Dies(i)
      PROVE  Ends
  <2>1. i \in Living /\ proc' = proc /\ child' = [child EXCEPT ![i] = "zombie"]
    BY <1>5 DEF Dies, Living
  <2>2. Living = {proc.pid} /\ i = proc.pid
    BY <2>1, LivingIs
  <2>3. Living' = Living \ {i}
    BY <1>1, <2>1 DEF Living, TypeOK
  <2> QED BY <2>1, <2>2, <2>3 DEF Ends
<1> QED BY <1>2, <1>3, <1>4, <1>5 DEF Environment

\* The promise, but for what is to happen in the end: at most one instance runs, a new
\* one starts only after the end of the last was noticed, and one that was told to end
\* is never taken for one that is up again.
THEOREM KeepsThePromise == ASSUME NoFaults PROVE Spec => Managed!Safety
<1> DEFINE status == IF proc.pid = 0 THEN "down" ELSE IF proc.killing THEN "ending" ELSE "up"
           instances == Cardinality(Living)
<1>1. ASSUME IInv
      PROVE  /\ status = IF proc.pid = 0 THEN "down"
                         ELSE IF proc.state = "STOPPING" THEN "ending" ELSE "up"
             /\ instances = IF Living = {} THEN 0 ELSE 1
  <2>1. instances = IF Living = {} THEN 0 ELSE 1
    BY <1>1, LivingIs, FS_EmptySet, FS_Singleton
  <2> QED BY <1>1, <2>1 DEF IInv, Sane
<1>2. Init => Managed!Init
  <2> SUFFICES ASSUME Init PROVE Managed!Init
    OBVIOUS
  <2>1. proc.pid = 0 /\ {i \in Pids : child[i] \in {"forked", "leader", "killed"}} = {}
    BY DEF Init, NewProcess
  <2> QED BY <2>1, FS_EmptySet DEF Managed!Init
<1>3. IInv /\ IInv' /\ [Next]_vars => [Managed!Next]_(Managed!vars)
  <2> SUFFICES ASSUME IInv, IInv', [Next]_vars PROVE [Managed!Next]_(Managed!vars)
    OBVIOUS
  <2>1. /\ status = IF proc.pid = 0 THEN "down"
                    ELSE IF proc.state = "STOPPING" THEN "ending" ELSE "up"
        /\ instances = IF Living = {} THEN 0 ELSE 1
    BY <1>1
  <2>2. /\ status' = IF proc'.pid = 0 THEN "down"
                     ELSE IF proc'.state = "STOPPING" THEN "ending" ELSE "up"
        /\ instances' = IF Living' = {} THEN 0 ELSE 1
        /\ proc'.pid = 0 => Living' = {}
    <3>1. Living' = {} \/ (Living' = {proc'.pid} /\ proc'.pid # 0)
      BY PidsAssumption DEF Living, IInv, OneChild
    <3>2. instances' = IF Living' = {} THEN 0 ELSE 1
      BY <3>1, FS_EmptySet, FS_Singleton
    <3> QED BY <3>1, <3>2 DEF IInv, Sane
  <2>3. Keeps \/ Forks \/ Loses \/ Ends
    <3>1. CASE UNCHANGED vars
      BY <3>1, LivingAfter DEF vars, Keeps
    <3> QED BY <3>1, ClientShape, LoopShape, EnvironmentShape DEF Next
  <2>4. \/ UNCHANGED <<status, instances>>
        \/ status = "down" /\ instances = 0 /\ status' = "up" /\ instances' = 1
        \/ instances = 1 /\ instances' = 0 /\ UNCHANGED status
        \/ status = "up" /\ status' = "ending" /\ UNCHANGED instances
        \/ status # "down" /\ instances = 0 /\ status' = "down" /\ UNCHANGED instances
    <3> HIDE DEF status, instances
    <3>1. CASE Keeps
      BY <2>1, <2>2, <3>1 DEF Keeps
    <3>2. CASE Forks
      BY <2>1, <2>2, <3>2, LivingIs DEF Forks
    <3>3. CASE Loses
      BY <2>1, <2>2, <3>3 DEF Loses
    <3>4. CASE Ends
      BY <2>1, <2>2, <3>4 DEF Ends
    <3> QED BY <2>3, <3>1, <3>2, <3>3, <3>4
  <2> QED BY <2>4 DEF Living, Managed!Next, Managed!vars, Managed!Launch, Managed!Die,
                      Managed!TellToEnd, Managed!Notice
<1> QED BY <1>2, <1>3, Invariance, PTL DEF Spec, Managed!Safety
=============================================================================
