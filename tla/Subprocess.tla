----------------------------- MODULE Subprocess -----------------------------
(***************************************************************************)
(* One program under the care of adminserviced, run in the foreground      *)
(* (run_detached=false): the Subprocess object, the child the system runs  *)
(* for it, and the daemon's single thread, which calls the object's        *)
(* methods from its main loop and on behalf of XML-RPC clients.            *)
(*                                                                         *)
(* pc is where the thread is.  One turn of the loop (runforever) is        *)
(*   phase1 -> dispatch -> transition -> reap -> handle_signal -> phase1   *)
(* and a call served in dispatch may take the thread through start_reap,   *)
(* start_transition or stop_reap.  The child, the clock and the file that  *)
(* enables the program move between any two of these steps.                *)
(***************************************************************************)
EXTENDS ProcessMethods, FiniteSets

CONSTANTS
    Configs,            \* the configurations the program may have
    ConditionalEnable,  \* is_enabled() reads a file that may change any time
    SignalsFail,        \* os.kill() may be refused (EPERM)
    ClockDeltas,        \* what time.time() may change by: 1, and less if the
                        \* system clock may be set back
    MaxLeft,            \* no deadline gets further away than this by that
    BackoffBound        \* no start is asked for with a larger backoff counter

ASSUME SubprocessAssumption ==
    /\ Configs \subseteq ConfigType
    /\ \A c \in Configs : ~c.run_detached /\ (c.stopasgroup => c.killasgroup)
    /\ {ConditionalEnable, SignalsFail} \subseteq BOOLEAN
    /\ ClockDeltas \subseteq Int /\ 1 \in ClockDeltas
    /\ MaxLeft \in Nat /\ BackoffBound \in Nat

VARIABLES
    config,      \* the program's ProcessConfig
    proc,        \* its Subprocess object
    pidhistory,  \* options.pidhistory: the pids that map to the object
    mood,        \* options.mood
    pc,          \* where the daemon's thread is
    child        \* the system's process table

vars == <<config, proc, pidhistory, mood, pc, child>>
system == <<config, child>>

Moods == {"RUNNING", "RESTARTING", "SHUTDOWN"}

InCall == {"start_reap", "start_transition", "stop_reap"}
PCs == {"phase1", "dispatch", "transition", "reap", "handle_signal",
        "exited", "crashed"} \cup InCall

\* forked: not yet in a process group of its own; leader: leads one;
\* killed: SIGKILL is on its way; zombie: dead and not yet waited for.
ChildStates == {"none", "forked", "leader", "killed", "zombie"}

TypeOK ==
    /\ config \in ConfigType
    /\ proc \in ProcessType
    /\ pidhistory \subseteq Pids
    /\ mood \in Moods
    /\ pc \in PCs
    /\ child \in [Pids -> ChildStates]

Init ==
    /\ config \in Configs
    /\ proc = NewProcess(config)
    /\ pidhistory = {}
    /\ mood = "RUNNING"
    /\ pc = "phase1"
    /\ child = [i \in Pids |-> "none"]

-----------------------------------------------------------------------------
(* The system calls                                                        *)

FreePids == {i \in Pids : child[i] = "none"}
Zombies == {i \in Pids : child[i] = "zombie"}

\* Every way get_execv_args(), make_dispatchers() and fork() may turn out.
SpawnOutcomes == {<<"failed", 0>>} \cup ({"fork"} \X FreePids)

\* A child was forked when the object's pid becomes one it did not have.
Forked(p) == {p.pid} \ {0, proc.pid}
ForkChild(p) == [i \in Pids |-> IF i \in Forked(p) THEN "forked" ELSE child[i]]

\* kill() addresses the group of the child; it has none until setpgrp().
AsGroup == IF proc.state = "STOPPING" THEN config.killasgroup ELSE config.stopasgroup
NoSuchGroup == AsGroup /\ proc.pid # 0 /\ child[proc.pid] = "forked"
NoSuchProcess == proc.pid # 0 /\ child[proc.pid] = "none"

\* What os.kill() may do: return (TRUE) or raise (FALSE).
Deliveries(missing) ==
    (IF missing THEN {FALSE} ELSE {TRUE}) \cup (IF SignalsFail THEN {FALSE} ELSE {})
KillDeliveries == Deliveries(NoSuchProcess \/ NoSuchGroup)

\* SIGKILL, if it was sent, takes the child unless it is dead already.
KillChild(sent) ==
    [i \in Pids |-> IF sent /\ i = proc.pid /\ child[i] \notin {"none", "zombie"}
                    THEN "killed" ELSE child[i]]

file == IF config.pid_file THEN "absent" ELSE "unset"

-----------------------------------------------------------------------------
(* How a handler ends: with the object p and the thread at next, or, when  *)
(* it raised, wherever the exception is caught: the HTTP server catches    *)
(* those of a call, nothing catches those of the main loop.                *)

Called == [proc EXCEPT !.raised = FALSE]

Escape == IF pc \in InCall \cup {"dispatch"} THEN "dispatch" ELSE "crashed"

Returns(p, next) == proc' = p /\ pc' = IF p.raised THEN Escape ELSE next

-----------------------------------------------------------------------------
(* The XML-RPC calls                                                       *)

\* startProcess up to process.spawn(), with or without force.  After the test
\* of the command line failed, the new state of a forced start stays.
Readied(force) ==
    IF force /\ proc.state = "DISABLED" THEN change_state(Called, "STOPPED", config)
    ELSE Called

MayStart(force) ==
    /\ pc = "dispatch" /\ mood = "RUNNING"
    /\ force \/ config.enabled
    /\ proc.state \notin RUNNING_STATES
    /\ proc.backoff <= BackoffBound

StartRefused(force) ==
    /\ MayStart(force)
    /\ Returns(Readied(force), "dispatch")
    /\ UNCHANGED <<pidhistory, mood, system>>

StartProcess(force) ==
    /\ MayStart(force)
    /\ \E f \in SpawnOutcomes :
         LET p == spawn(Readied(force), f[1], f[2], config)
         IN  /\ Returns(p, "start_reap")
             /\ pidhistory' = pidhistory \cup Forked(p)
             /\ child' = ForkChild(p)
    /\ UNCHANGED <<mood, config>>

StopProcess ==
    /\ pc = "dispatch" /\ mood = "RUNNING"
    /\ proc.state \in RUNNING_STATES
    /\ \E d \in KillDeliveries :
         Returns(stop(Called, d, config),
                 IF d \/ ~Signals(proc) THEN "stop_reap" ELSE "dispatch")
    /\ UNCHANGED <<pidhistory, mood, system>>

SignalProcess ==
    /\ pc = "dispatch" /\ mood = "RUNNING"
    /\ proc.state \in RUNNING_STATES
    /\ \E d \in Deliveries(NoSuchProcess) : Returns(signal(Called, d, config), "dispatch")
    /\ UNCHANGED <<pidhistory, mood, system>>

ShutdownOrRestart ==
    /\ pc = "dispatch" /\ mood = "RUNNING"
    /\ mood' \in {"SHUTDOWN", "RESTARTING"}
    /\ UNCHANGED <<proc, pidhistory, pc, system>>

Client == \/ \E force \in BOOLEAN : StartRefused(force) \/ StartProcess(force)
          \/ StopProcess \/ SignalProcess \/ ShutdownOrRestart

-----------------------------------------------------------------------------
(* The main loop                                                           *)

\* The top of the loop while the daemon stays up.
Proceed ==
    /\ pc = "phase1" /\ mood = "RUNNING"
    /\ pc' = "dispatch"
    /\ UNCHANGED <<proc, pidhistory, mood, system>>

\* The top of the loop once it is to go: stop the group, then leave if nothing
\* is left to stop.  main() starts a new AdminService after a restart request.
StopAll ==
    /\ pc = "phase1" /\ mood # "RUNNING"
    /\ \E d \in KillDeliveries :
         LET p == stop_all(Called, d, config)
         IN  \/ /\ p.raised \/ p.state \notin ALL_STOPPED_STATES
                /\ Returns(p, "dispatch")
                /\ UNCHANGED <<config, pidhistory, mood>>
             \/ /\ ~p.raised /\ p.state \in ALL_STOPPED_STATES /\ mood = "SHUTDOWN"
                /\ Returns(p, "exited")
                /\ UNCHANGED <<config, pidhistory, mood>>
             \/ /\ ~p.raised /\ p.state \in ALL_STOPPED_STATES /\ mood = "RESTARTING"
                /\ config' \in Configs
                /\ Returns(NewProcess(config'), "phase1")
                /\ pidhistory' = {}
                /\ mood' = "RUNNING"
    /\ UNCHANGED child

\* poll() reports finitely many descriptors: the calls of one turn come to an end.
EndDispatch ==
    /\ pc = "dispatch"
    /\ pc' = "transition"
    /\ UNCHANGED <<proc, pidhistory, mood, system>>

\* group.transition(), and the transition() at the end of startProcess.
Transition ==
    /\ pc \in {"transition", "start_transition"}
    /\ \E f \in SpawnOutcomes, d \in KillDeliveries :
         LET p == transition(Called, mood, file, f[1], f[2], d, config)
         IN  /\ Returns(p, IF pc = "transition" THEN "reap" ELSE "dispatch")
             /\ pidhistory' = pidhistory \cup Forked(p)
             /\ child' = IF overdue(proc) THEN KillChild(d) ELSE ForkChild(p)
    /\ UNCHANGED <<mood, config>>

Reaping == {"reap", "start_reap", "stop_reap"}

\* reap() calls itself until waitpid() finds nothing.
Reap(i) ==
    /\ pc \in Reaping /\ i \in Zombies
    /\ \E es \in {"expected", "unexpected"} :
         LET p == IF i \in pidhistory THEN finish(Called, es, config) ELSE Called
         IN  /\ Returns(p, pc)
             /\ pidhistory' = IF p.raised THEN pidhistory ELSE pidhistory \ {i}
    /\ child' = [child EXCEPT ![i] = "none"]
    /\ UNCHANGED <<mood, config>>

Reaped ==
    /\ pc \in Reaping /\ Zombies = {}
    /\ pc' = IF pc = "reap" THEN "handle_signal"
             ELSE IF pc = "start_reap" /\ ~proc.spawnerr THEN "start_transition"
             ELSE "dispatch"
    /\ UNCHANGED <<proc, pidhistory, mood, system>>

\* A SIGTERM, SIGINT or SIGQUIT shuts down, a SIGHUP restarts, whatever the mood was.
HandleSignal ==
    /\ pc = "handle_signal"
    /\ mood' \in {mood, "SHUTDOWN", "RESTARTING"}
    /\ pc' = "phase1"
    /\ UNCHANGED <<proc, pidhistory, system>>

Loop == \/ Proceed \/ StopAll \/ EndDispatch \/ Transition
        \/ (\E i \in Pids : Reap(i)) \/ Reaped \/ HandleSignal

-----------------------------------------------------------------------------
(* The system                                                              *)

\* Time passes, or the clock is set back.  A tick is the time a child needs to come
\* up, set itself up and die.
AtLeast(low, n) == IF n < low THEN low ELSE n
AtMost(high, n) == IF n > high THEN high ELSE n

Tick(d) ==
    /\ proc' = [proc EXCEPT !.age = AtLeast(-1, AtMost(Ripe(config), @ + d)),
                            !.left = AtLeast(Past, IF d > 0 THEN @ - d ELSE AtMost(MaxLeft, @ - d))]
    /\ UNCHANGED <<pidhistory, mood, pc, system>>

SetsGroup(i) ==
    /\ child[i] = "forked"
    /\ child' = [child EXCEPT ![i] = "leader"]
    /\ UNCHANGED <<config, proc, pidhistory, mood, pc>>

\* A child may die of anything; laststart is in the past by then unless the clock moved.
Dies(i) ==
    /\ child[i] \in {"forked", "leader", "killed"}
    /\ ClockDeltas # {1} \/ i # proc.pid \/ proc.age > 0
    /\ child' = [child EXCEPT ![i] = "zombie"]
    /\ UNCHANGED <<config, proc, pidhistory, mood, pc>>

EnableFileChanges ==
    /\ ConditionalEnable
    /\ config' = [config EXCEPT !.enabled = ~@]
    /\ UNCHANGED <<proc, pidhistory, mood, pc, child>>

Environment == \/ (\E d \in ClockDeltas : Tick(d)) \/ EnableFileChanges
               \/ \E i \in Pids : SetsGroup(i) \/ Dies(i)

Next == Client \/ Loop \/ Environment

\* The thread runs, also when clients keep calling; time passes; SIGKILL kills.
Fairness ==
    /\ WF_vars(Loop) /\ SF_vars(EndDispatch)
    /\ WF_vars(Tick(1))
    /\ \A i \in Pids : WF_vars(child[i] = "killed" /\ Dies(i))

Spec == Init /\ [][Next]_vars /\ Fairness

-----------------------------------------------------------------------------
(* Properties                                                              *)

\* The object knows its child exactly while it is in one of the states in which
\* a child exists, it is being killed exactly while STOPPING, and pidhistory leads
\* from that child to the object: otherwise reap() loses it or kill() misses it.
PidTracksState ==
    /\ proc.pid # 0 <=> proc.state \in {"STARTING", "RUNNING", "STOPPING"}
    /\ proc.killing <=> proc.state = "STOPPING"
    /\ pidhistory = {proc.pid} \ {0}

\* The system runs no child of the daemon but the one the object knows, so a
\* program never runs twice and a stopped one never runs on.
OneChild == \A i \in Pids : child[i] # "none" <=> i = proc.pid

\* No exception of a method reaches the main loop, where it would end the daemon
\* and with it the care of every other program.
DaemonSurvives == pc # "crashed"

\* Only a client brings back a program an administrator stopped: neither autorestart
\* nor the retries of a failed start do.
AdministrativeStopHolds ==
    [][proc.administrative_stop /\ Forked(proc') # {} => \E force \in BOOLEAN : StartProcess(force)]_vars

\* Once the daemon is to go it starts nothing more, and it leaves nothing behind.
ShutdownStartsNothing == [][mood # "RUNNING" => Forked(proc') = {}]_vars
ExitLeavesNoChild == pc = "exited" => \A i \in Pids : child[i] = "none"

\* A stop comes to an end even if the program ignores the stop signal: SIGKILL
\* follows after stopwaitsecs.
StopCompletes == proc.state = "STOPPING" ~> proc.state \in ALL_STOPPED_STATES

\* The retries of a failing start come to an end: the program comes up, is given up
\* or is stopped.  A program whose file disables it meanwhile is excepted.
RetriesEnd ==
    proc.state = "BACKOFF" ~> \/ proc.state \notin {"BACKOFF", "STARTING"}
                              \/ ~config.enabled

\* The program as its users see it: up while the object has a child, ending while it
\* kills it; the instances are the children that still run.
Managed == INSTANCE ManagedProgram WITH
    status <- IF proc.pid = 0 THEN "down" ELSE IF proc.killing THEN "ending" ELSE "up",
    instances <- Cardinality({i \in Pids : child[i] \in {"forked", "leader", "killed"}})

\* The daemon keeps its promise to the users of a program.
ImplementsManagedProgram == Managed!Spec
=============================================================================
