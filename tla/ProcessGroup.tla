---------------------------- MODULE ProcessGroup ----------------------------
(***************************************************************************)
(* A group of programs (class ProcessGroup, process.py) under one daemon:  *)
(* the order in which the main loop starts them, and what waitforprevious  *)
(* and failafterwait make of it.  The methods of one process are those of  *)
(* ProcessMethods; Subprocess looks at one process and its child closely,  *)
(* this module at what its neighbours in the group do to it.               *)
(*                                                                         *)
(* The members are 1..N in the order of their priorities, and the child of *)
(* member k has the pid k: Subprocess shows that there is never another.   *)
(* The system delivers every signal and the clock runs forward.            *)
(***************************************************************************)
EXTENDS ProcessMethods

CONSTANTS
    N,              \* how many members the group has
    GroupConfigs,   \* the configurations of the members the group may have
    Forces,         \* the values of force in a startProcess call
    Exits,          \* the exit statuses of children: in exitcodes or not
    BackoffBound    \* no start is asked for with a larger backoff counter

Members == 1..N

MemberConfigType ==
    [enabled: BOOLEAN, autostart: BOOLEAN,
     autorestart: {"never", "unexpected", "always"},
     startsecs: Nat, startretries: Nat, stopwaitsecs: Nat,
     stopasgroup: BOOLEAN, killasgroup: BOOLEAN,
     run_detached: BOOLEAN, pid_file: BOOLEAN,
     waitforprevious: Nat, failafterwait: BOOLEAN]

ASSUME GroupAssumption ==
    /\ N \in Nat \ {0} /\ Pids = Members
    /\ GroupConfigs \subseteq [Members -> MemberConfigType]
    /\ \A c \in GroupConfigs, k \in Members : ~c[k].run_detached /\ c[k].pid_file
    /\ Forces \subseteq BOOLEAN /\ Exits \subseteq {"expected", "unexpected"}
    /\ BackoffBound \in Nat

VARIABLES
    config,      \* the members' ProcessConfigs
    procs,       \* the group's processes
    waits_left,  \* how many turns of the loop each goes on waiting
    mood,        \* options.mood
    pc,          \* where the daemon's thread is
    turn,        \* the member it is at, in transition() or in a call, or else 1
    last_state,  \* in transition(): the state of the enabled member before it
    child        \* the system's process table

vars == <<config, procs, waits_left, mood, pc, turn, last_state, child>>
loop == <<config, waits_left, mood, last_state>>

NoWait == -1                     \* waits_left is None
PCs == {"phase1", "dispatch", "transition", "reap", "start_reap", "start_transition",
        "stop_reap", "exited", "crashed"}
ChildStates == {"none", "up", "killed", "zombie"}

TypeOK ==
    /\ config \in [Members -> MemberConfigType]
    /\ procs \in [Members -> ProcessType]
    /\ waits_left \in [Members -> Nat \cup {NoWait}]
    /\ mood \in {"RUNNING", "SHUTDOWN"}
    /\ pc \in PCs /\ turn \in 1..N + 1
    /\ last_state \in ProcessStates \cup {"none"}
    /\ child \in [Members -> ChildStates]

Init ==
    /\ config \in GroupConfigs
    /\ procs = [k \in Members |-> NewProcess(config[k])]
    /\ waits_left = [k \in Members |-> NoWait]
    /\ mood = "RUNNING"
    /\ pc = "phase1" /\ turn = 1 /\ last_state = "none"
    /\ child = [k \in Members |-> "none"]

-----------------------------------------------------------------------------
\* How a handler ends that leaves the member k as p and the thread at next.
Escape == IF pc \in {"phase1", "transition", "reap"} THEN "crashed" ELSE "dispatch"
Returns(k, p, next) ==
    /\ procs' = [procs EXCEPT ![k] = [p EXCEPT !.raised = FALSE]]
    /\ pc' = IF p.raised THEN Escape ELSE next

ForkChild(k, p) ==
    child' = IF procs[k].pid = 0 /\ p.pid # 0 THEN [child EXCEPT ![k] = "up"] ELSE child

\* SIGKILL takes a child that is not dead already.
KillChild(k) ==
    child' = [child EXCEPT ![k] = IF @ = "up" THEN "killed" ELSE @]

(* The calls of clients.                                                   *)

Readied(k, force) ==
    IF force /\ procs[k].state = "DISABLED" THEN change_state(procs[k], "STOPPED", config[k])
    ELSE procs[k]

StartProcess(k, force) ==
    /\ pc = "dispatch" /\ mood = "RUNNING"
    /\ force \/ config[k].enabled
    /\ procs[k].state \notin RUNNING_STATES
    /\ procs[k].backoff <= BackoffBound
    /\ \E outcome \in {"fork", "failed"} :
         LET p == spawn(Readied(k, force), outcome, k, config[k])
         IN  Returns(k, p, "start_reap") /\ ForkChild(k, p)
    /\ turn' = k
    /\ UNCHANGED loop

StopProcess(k) ==
    /\ pc = "dispatch" /\ mood = "RUNNING"
    /\ procs[k].state \in RUNNING_STATES
    /\ Returns(k, stop(procs[k], TRUE, config[k]), "stop_reap")
    /\ UNCHANGED <<loop, turn, child>>

Shutdown ==
    /\ pc = "dispatch" /\ mood = "RUNNING"
    /\ mood' = "SHUTDOWN"
    /\ UNCHANGED <<config, procs, waits_left, pc, turn, last_state, child>>

-----------------------------------------------------------------------------
(* The main loop.                                                          *)

Proceed ==
    /\ pc = "phase1" /\ mood = "RUNNING"
    /\ pc' = "dispatch"
    /\ UNCHANGED <<loop, procs, turn, child>>

\* stop_all() for every member, then shutdown_report().
StopAll ==
    /\ pc = "phase1" /\ mood = "SHUTDOWN"
    /\ LET after == [k \in Members |-> stop_all(procs[k], TRUE, config[k])]
       IN  /\ procs' = after
           /\ pc' = IF \E k \in Members : after[k].raised THEN "crashed"
                    ELSE IF \A k \in Members : after[k].state \in ALL_STOPPED_STATES THEN "exited"
                    ELSE "dispatch"
    /\ UNCHANGED <<loop, turn, child>>

EndDispatch ==
    /\ pc = "dispatch"
    /\ pc' = "transition"
    /\ UNCHANGED <<loop, procs, turn, child>>

\* Mutant: a member that runs may be given up, too.
AfterAnother_any == last_state # "none" /\ procs[turn].state # "DISABLED"

\* The member at turn has a predecessor, and may have to wait for it.
AfterAnother == last_state # "none" /\ procs[turn].state \in STOPPED_STATES

\* What waits_left is once the predecessor was looked at.
waits ==
    IF last_state \in RUNNING_STATES /\ waits_left[turn] = NoWait
    THEN config[turn].waitforprevious ELSE waits_left[turn]

InLine == /\ pc = "transition" /\ turn \in Members
          /\ AfterAnother /\ waits # NoWait /\ last_state # "RUNNING"

\* Mutant: the last turn is not waited for.
MustWait_short == InLine /\ waits > 1 /\ last_state = "STARTING"

MustWait == InLine /\ waits > 0 /\ last_state = "STARTING"
MustFail == InLine /\ ~MustWait /\ config[turn].failafterwait /\ procs[turn].state # "FATAL"
MustPause == /\ pc = "transition" /\ turn \in Members
             /\ last_state = "STARTING" /\ procs[turn].state = "DISABLED"

\* The thread is done with the group, or with a call.
Leave(next) == pc' = next /\ turn' = 1 /\ last_state' = "none"

\* Mutant: the turns are not counted.
Wait_uncounted ==
    /\ MustWait
    /\ waits_left' = [waits_left EXCEPT ![turn] = waits]
    /\ Leave("reap")
    /\ UNCHANGED <<config, procs, mood, child>>

\* transition() returns, and so do the members behind this one go without theirs.
Wait ==
    /\ MustWait
    /\ waits_left' = [waits_left EXCEPT ![turn] = waits - 1]
    /\ Leave("reap")
    /\ UNCHANGED <<config, procs, mood, child>>

\* A disabled member waits for its predecessor, too.
Pause ==
    /\ MustPause
    /\ Leave("reap")
    /\ UNCHANGED <<config, procs, waits_left, mood, child>>

\* The member is given up; for the next one its predecessor stays the same.
Fail ==
    /\ MustFail
    /\ waits_left' = [waits_left EXCEPT ![turn] = waits]
    /\ procs' = [procs EXCEPT ![turn] = change_state(@, "FATAL", config[turn])]
    /\ turn' = turn + 1
    /\ UNCHANGED <<config, mood, pc, last_state, child>>

Transition ==
    /\ pc = "transition" /\ turn \in Members
    /\ ~MustWait /\ ~MustFail /\ ~MustPause
    /\ \E outcome \in {"fork", "failed"} :
         LET k == turn
             p == transition(procs[k], mood, "absent", outcome, k, TRUE, config[k])
         IN  /\ Returns(k, p, "transition")
             /\ IF overdue(procs[k]) THEN KillChild(k) ELSE ForkChild(k, p)
             /\ last_state' = IF p.state = "DISABLED" THEN last_state ELSE p.state
    /\ waits_left' = [waits_left EXCEPT ![turn] = NoWait]
    /\ turn' = turn + 1
    /\ UNCHANGED <<config, mood>>

EndTransition ==
    /\ pc = "transition" /\ turn \notin Members
    /\ Leave("reap")
    /\ UNCHANGED <<config, procs, waits_left, mood, child>>

\* The transition() at the end of startProcess.
StartTransition ==
    /\ pc = "start_transition"
    /\ \E outcome \in {"fork", "failed"} :
         LET p == transition(procs[turn], mood, "absent", outcome, turn, TRUE, config[turn])
         IN  /\ Returns(turn, p, "dispatch")
             /\ IF overdue(procs[turn]) THEN KillChild(turn) ELSE ForkChild(turn, p)
    /\ turn' = 1
    /\ UNCHANGED loop

Reaping == {"reap", "start_reap", "stop_reap"}

\* Mutant: waitpid() reports a child that was killed before it has ended.
Reap_early(k) ==
    /\ pc \in Reaping /\ child[k] \in {"killed", "zombie"}
    /\ \E es \in Exits :
         Returns(k, finish(procs[k], es, config[k]), pc)
    /\ child' = [child EXCEPT ![k] = IF @ = "zombie" THEN "none" ELSE @]
    /\ UNCHANGED <<loop, turn>>

Reap(k) ==
    /\ pc \in Reaping /\ child[k] = "zombie"
    /\ \E es \in Exits :
         Returns(k, finish(procs[k], es, config[k]), pc)
    /\ child' = [child EXCEPT ![k] = "none"]
    /\ UNCHANGED <<loop, turn>>

Reaped ==
    /\ pc \in Reaping /\ \A k \in Members : child[k] # "zombie"
    /\ IF pc = "start_reap" /\ ~procs[turn].spawnerr
       THEN pc' = "start_transition" /\ UNCHANGED turn
       ELSE pc' = (IF pc = "reap" THEN "phase1" ELSE "dispatch") /\ turn' = 1
    /\ UNCHANGED <<loop, procs, child>>

Loop == \/ Proceed \/ StopAll \/ EndDispatch
        \/ Wait \/ Pause \/ Fail \/ Transition \/ EndTransition
        \/ StartTransition \/ (\E k \in Members : Reap(k)) \/ Reaped

-----------------------------------------------------------------------------
(* The system.                                                             *)

Later(p, c) == [p EXCEPT !.age = IF @ < Ripe(c) THEN @ + 1 ELSE @,
                         !.left = IF @ > Past THEN @ - 1 ELSE @]
\* Time passes while the thread sleeps in poll().
Tick ==
    /\ pc = "dispatch"
    /\ procs' = [k \in Members |-> Later(procs[k], config[k])]
    /\ UNCHANGED <<loop, pc, turn, child>>

Dies(k) ==
    /\ child[k] \in {"up", "killed"} /\ procs[k].age > 0
    /\ child' = [child EXCEPT ![k] = "zombie"]
    /\ UNCHANGED <<loop, procs, pc, turn>>

Client == \/ \E k \in Members : StopProcess(k) \/ \E force \in Forces : StartProcess(k, force)
          \/ Shutdown

Next == Client \/ Loop \/ Tick \/ \E k \in Members : Dies(k)

Fairness ==
    /\ WF_vars(Loop) /\ SF_vars(EndDispatch)
    /\ SF_vars(Tick)
    /\ \A k \in Members : WF_vars(child[k] = "killed" /\ Dies(k))

Spec == Init /\ [][Next]_vars /\ Fairness

-----------------------------------------------------------------------------
(* Properties.                                                             *)

\* Whatever the group makes of its members, none loses its child: a child belongs to the
\* process with its pid until it is reaped, no assertion of a member that was given up
\* fails in the main loop, and the daemon leaves no child behind.
NoChildLost ==
    /\ \A k \in Members : child[k] # "none" <=> procs[k].pid = k
    /\ pc # "crashed"
    /\ pc = "exited" => \A k \in Members : child[k] = "none"

\* The member k is started by the main loop.
LoopStarts(k) == Transition /\ turn = k /\ procs[k].pid = 0 /\ procs'[k].pid # 0

\* While the member before it is starting, the loop starts no stopped member that has
\* turns left to wait, nor one that is to fail when they are over.
StartsInOrder ==
    [][\A k \in Members :
         LoopStarts(k) /\ procs[k].state \in STOPPED_STATES /\ last_state = "STARTING" =>
            /\ waits_left[k] = 0 \/ config[k].waitforprevious = 0
            /\ ~config[k].failafterwait]_vars

\* No member waits for ever: it is started, given up, or need not wait any more,
\* unless the daemon goes.
Waiting(k) == waits_left[k] # NoWait /\ procs[k].state \in {"STOPPED", "EXITED"}
WaitEnds == \A k \in Members : Waiting(k) ~> (~Waiting(k) \/ pc = "exited")

\* A daemon told to go does, whoever waits for whom.
ShutdownCompletes == mood = "SHUTDOWN" ~> pc = "exited"

\* What is promised of a program alone holds of every member, whatever the others make the
\* group do to it: it runs at most once, is started again only after its end was noticed, and
\* one that was told to end is not taken for one that runs.
Managed(k) == INSTANCE ManagedProgram WITH
    status <- IF procs[k].pid = 0 THEN "down" ELSE IF procs[k].killing THEN "ending" ELSE "up",
    instances <- IF child[k] \in {"up", "killed"} THEN 1 ELSE 0
MembersKeepPromise == [][\A k \in Members : [Managed(k)!Next]_(Managed(k)!vars)]_vars
=============================================================================
