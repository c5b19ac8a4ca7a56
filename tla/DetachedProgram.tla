--------------------------- MODULE DetachedProgram ---------------------------
(***************************************************************************)
(* A program with run_detached: it outlives the daemon, and the child of   *)
(* the process object is a fork of the daemon that launches the program    *)
(* through a shell and then looks at it every second (process.py).  What   *)
(* is known of the program is its pid file: the shell writes it, and the   *)
(* daemon, its forks and the daemons after it read and remove it.          *)
(*                                                                         *)
(* The process object is ProcessOutline's, with the fork as its child.     *)
(* Each launch is an instance of the program, and each instance has a      *)
(* shell of its own.  A fork outlives a daemon that crashes.               *)
(***************************************************************************)
EXTENDS ProcessOutline, FiniteSets

CONSTANTS
    Programs,      \* the options the program may have
    Launches,      \* bound: instances the system has room for
    Crashes        \* bound: how often the daemon is killed

ASSUME DetachedAssumption ==
    /\ \A c \in Programs :
         /\ c.enabled \in BOOLEAN /\ c.autostart \in BOOLEAN
         /\ c.autorestart \in {"never", "unexpected", "always"}
         \* its scripts take less than the waits for them, and started_status_script is content
         /\ c.prompt \in BOOLEAN
         /\ c.obeys \in BOOLEAN             \* SIGTERM ends it
    /\ Launches \in Nat \ {0} /\ Crashes \in Nat

Instances == 1..Launches
Forks == {"own", "orphan"}                   \* of this daemon, and of one that crashed

VARIABLES
    config,        \* the options
    daemon,        \* "up", asked to leave, "leaving" or "down"
    obj,           \* the outline of the process object
    fork,          \* where each fork is, and whether it was told to stop watching
    prog,          \* the instances
    shell,         \* their shells
    pid_file,      \* the instance whose pid the file has, 0 if there is none
    crashes,       \* crashes so far
    missed         \* history: instances no stop could reach while it went on

world == <<prog, shell, pid_file, missed>>
vars == <<config, daemon, obj, fork, world, crashes>>

Away == [at |-> "none", told |-> FALSE]
Places == {"none", "forked", "checked", "cleared", "waiting", "watching", "leaving"}

TypeOK ==
    /\ config \in Programs /\ daemon \in {"up", "asked", "leaving", "down"}
    /\ obj \in OutlineType /\ fork \in [Forks -> [at: Places, told: BOOLEAN]]
    /\ prog \in [Instances -> {"unborn", "up", "told", "dead"}]
    /\ shell \in [Instances -> {"none", "script", "writes", "done"}]
    /\ pid_file \in Instances \cup {0} /\ crashes \in 0..Crashes /\ missed \subseteq Instances
    /\ obj.child = "up" <=> fork["own"].at # "none"
    /\ \A i \in Instances : prog[i] = "unborn" <=> shell[i] \in {"none", "script"}

Live(i) == prog[i] \in {"up", "told"}

\* Mutant: a file is enough.
check_status_file == pid_file # 0

\* check_status() without a status_script: the pid of the file is one of a process.
check_status == pid_file # 0 /\ Live(pid_file)

Init ==
    /\ config \in Programs /\ daemon = "up" /\ obj = Fresh(config)
    /\ fork = [w \in Forks |-> Away]
    /\ prog = [i \in Instances |-> "unborn"] /\ shell = [i \in Instances |-> "none"]
    /\ pid_file = 0 /\ crashes = 0 /\ missed = {}

-----------------------------------------------------------------------------
(* The fork, _spawn_as_child().                                            *)

\* Mutant: nobody is told of its exit.
Leaves_unseen(w) == fork' = [fork EXCEPT ![w] = Away] /\ UNCHANGED obj

\* Its exit makes a child to reap for the daemon that forked it.
Leaves(w) ==
    /\ fork' = [fork EXCEPT ![w] = Away]
    /\ obj' = IF w = "own" THEN [obj EXCEPT !.child = "zombie"] ELSE obj

Goes(w, place) == fork' = [fork EXCEPT ![w].at = place] /\ UNCHANGED obj

Checks(w) ==
    /\ fork[w].at = "forked" /\ Goes(w, IF check_status THEN "watching" ELSE "checked")
    /\ UNCHANGED <<config, daemon, world, crashes>>

Clears(w) ==
    /\ fork[w].at = "checked" /\ Goes(w, "cleared")
    /\ pid_file' = 0
    /\ UNCHANGED <<config, daemon, prog, shell, missed, crashes>>

\* daemonize(); it does not look at what it was told until it watches.
LaunchesIt(w) ==
    /\ fork[w].at = "cleared" /\ Goes(w, "waiting")
    /\ \E i \in Instances :
         /\ shell[i] = "none" /\ \A j \in Instances : shell[j] = "none" => i <= j
         /\ shell' = [shell EXCEPT ![i] = "script"]
         /\ missed' = IF obj.state = "STOPPING" THEN missed \cup {i} ELSE missed
    /\ UNCHANGED <<config, daemon, prog, pid_file, crashes>>

CannotLaunch(w) ==
    /\ fork[w].at = "cleared" /\ Leaves(w)
    /\ UNCHANGED <<config, daemon, world, crashes>>

\* Those whose pid is still to be written.
Unreached == {i \in Instances : shell[i] \in {"script", "writes"}}

\* The file is there, or was not for ten seconds.
EndsWait(w) ==
    /\ fork[w].at = "waiting"
    /\ pid_file = 0 /\ config.prompt => Unreached = {}
    /\ \/ Goes(w, "watching")
       \/ ~config.prompt /\ Leaves(w)        \* is_started() is false
    /\ UNCHANGED <<config, daemon, world, crashes>>

Watches(w) ==
    /\ fork[w].at = "watching"
    /\ \/ ~check_status /\ Goes(w, "leaving")
       \/ check_status /\ fork[w].told /\ Leaves(w)
    /\ UNCHANGED <<config, daemon, world, crashes>>

RemovesFile(w) ==
    /\ fork[w].at = "leaving" /\ Leaves(w)
    /\ pid_file' = 0
    /\ UNCHANGED <<config, daemon, prog, shell, missed, crashes>>

Fork(w) ==
    \/ Checks(w) \/ Clears(w) \/ LaunchesIt(w) \/ CannotLaunch(w) \/ EndsWait(w)
    \/ Watches(w) \/ RemovesFile(w)

-----------------------------------------------------------------------------
(* The shell and the program.                                              *)

Shell(i) ==
    /\ \/ /\ shell[i] = "script"
          /\ shell' = [shell EXCEPT ![i] = "writes"] /\ prog' = [prog EXCEPT ![i] = "up"]
          /\ UNCHANGED pid_file
       \/ /\ shell[i] = "writes"
          /\ shell' = [shell EXCEPT ![i] = "done"] /\ pid_file' = i /\ UNCHANGED prog
    /\ UNCHANGED <<config, daemon, obj, fork, crashes, missed>>

Dies(i) ==
    /\ Live(i) /\ prog' = [prog EXCEPT ![i] = "dead"]
    /\ UNCHANGED <<config, daemon, obj, fork, shell, pid_file, crashes, missed>>

-----------------------------------------------------------------------------
(* The daemon.                                                             *)

Spawned(o) ==
    /\ obj' = o
    /\ fork' = IF o.child = "up" /\ obj.child = "none"
               THEN [fork EXCEPT !["own"].at = "forked"] ELSE fork

\* A client starts it; the call for a group removes a stale pid file first.
Start ==
    /\ daemon = "up" /\ obj.state \notin RUNNING_STATES /\ obj.child = "none"
    /\ \E o \in Spawns(obj) : Spawned(o) \/ (o.child = "up" /\ Spawned(At(o, "RUNNING", config)))
    /\ pid_file' \in IF check_status THEN {pid_file} ELSE {pid_file, 0}
    /\ UNCHANGED <<config, daemon, prog, shell, crashes, missed>>

\* kill() as far as the program is concerned. Before it has installed its handler, the fork knows
\* nothing of the signal.
Signalled(fatal) ==
    IF ~check_status THEN UNCHANGED <<prog, pid_file>>
    ELSE \/ ~fatal /\ prog' = [prog EXCEPT ![pid_file] = "told"] /\ UNCHANGED pid_file
         \/ /\ fatal \/ config.obeys
            /\ prog' = [prog EXCEPT ![pid_file] = "dead"] /\ pid_file' \in {0, pid_file}

Tell == fork' = IF fork["own"].at \in {"none", "forked"} THEN fork
                ELSE [fork EXCEPT !["own"].told = TRUE]

Stop ==
    /\ daemon = "up" /\ obj.state \in RUNNING_STATES
    /\ obj' = Stops(obj, config)
    /\ IF obj.child = "none" THEN UNCHANGED <<fork, world>>
       ELSE /\ Signalled(FALSE) /\ Tell
            /\ missed' = missed \cup Unreached
            /\ UNCHANGED shell
    /\ UNCHANGED <<config, daemon, crashes>>

Ask == daemon = "up" /\ daemon' = "asked" /\ UNCHANGED <<config, obj, fork, world, crashes>>

\* stop_all() leaves the program running, with its file.
StopAll ==
    /\ daemon = "asked" /\ daemon' = "leaving"
    /\ obj' = StopsAll(obj, config)
    /\ IF obj.state \in {"RUNNING", "STARTING"} THEN Tell ELSE UNCHANGED fork
    /\ UNCHANGED <<config, world, crashes>>

\* A stop that takes too long: the program is spared when the daemon is about to leave.
Overdue ==
    /\ daemon # "down" /\ obj.state = "STOPPING" /\ obj.child # "none"
    /\ config.prompt => Unreached = {}
    /\ IF daemon = "up" THEN Signalled(TRUE) ELSE UNCHANGED <<prog, pid_file>>
    /\ fork' = [fork EXCEPT !["own"] = Away] /\ obj' = [obj EXCEPT !.child = "zombie"]
    /\ UNCHANGED <<config, daemon, shell, crashes, missed>>

Confirms ==
    /\ daemon # "down" /\ obj.state = "STARTING" /\ obj' = At(obj, "RUNNING", config)
    /\ UNCHANGED <<config, daemon, fork, world, crashes>>

\* Its states before this daemon has started it.
Unstarted == obj.state = "DISABLED" \/ (obj.state = "STOPPED" /\ ~obj.started)

\* Mutant: a program that runs already is not looked for.
Found_not == FALSE

\* A program that an earlier daemon left running.
Found == check_status /\ Unstarted

\* transition() of a process without a fork; a file that names no process is removed before the
\* first start.
Transition ==
    /\ daemon = "up" /\ obj.child = "none"
    /\ \/ /\ StartsItself(obj, config, "RUNNING") \/ Found
          /\ \E o \in Spawns(obj) : Spawned(o)
       \/ obj.state = "BACKOFF" /\ obj' = At(obj, "FATAL", config) /\ UNCHANGED fork
       \/ /\ ~StartsItself(obj, config, "RUNNING") /\ Unstarted /\ pid_file # 0 /\ ~check_status
          /\ UNCHANGED <<obj, fork>>
    /\ pid_file' = IF Unstarted /\ ~check_status THEN 0 ELSE pid_file
    /\ UNCHANGED <<config, daemon, prog, shell, crashes, missed>>

\* Mutant: finish() removes the file also when the daemon is about to leave.
Reap_removes ==
    /\ daemon # "down" /\ obj.child = "zombie"
    /\ obj' \in Finishes(obj, config)
    /\ pid_file' = 0
    /\ UNCHANGED <<config, daemon, fork, prog, shell, crashes, missed>>

\* finish(): whatever it names, the file is removed unless the daemon is about to leave.
Reap ==
    /\ daemon # "down" /\ obj.child = "zombie"
    /\ obj' \in Finishes(obj, config)
    /\ pid_file' = IF daemon = "up" THEN 0 ELSE pid_file
    /\ UNCHANGED <<config, daemon, fork, prog, shell, crashes, missed>>

Exit ==
    /\ daemon = "leaving" /\ ~Unstopped(obj) /\ daemon' = "down"
    /\ UNCHANGED <<config, obj, fork, world, crashes>>

\* The forks go on without the daemon.
Crash ==
    /\ daemon # "down" /\ crashes < Crashes /\ fork["orphan"].at = "none"
    /\ daemon' = "down" /\ crashes' = crashes + 1
    /\ fork' = [fork EXCEPT !["orphan"] = fork["own"], !["own"] = Away]
    /\ obj' = [obj EXCEPT !.child = "none"]
    /\ UNCHANGED <<config, world>>

Boot ==
    /\ daemon = "down" /\ daemon' = "up" /\ obj' = Fresh(config)
    /\ UNCHANGED <<config, fork, world, crashes>>

Daemon == Start \/ Stop \/ Ask \/ StopAll \/ Overdue \/ Confirms \/ Transition \/ Reap \/ Exit

Next ==
    \/ Daemon \/ Crash \/ Boot
    \/ \E w \in Forks : Fork(w)
    \/ \E i \in Instances : Shell(i) \/ Dies(i)

\* The daemon's turns come back, deadlines pass, and the forks and shells are not held up. Nothing
\* makes a client call, a program die that was not told to, or somebody boot the daemon again.
Fairness ==
    /\ WF_vars(Transition) /\ WF_vars(Reap) /\ SF_vars(Confirms) /\ SF_vars(Overdue)
    /\ WF_vars(StopAll) /\ WF_vars(Exit)
    /\ \A w \in Forks : WF_vars(Fork(w))
    /\ \A i \in Instances : WF_vars(Shell(i))

Spec == Init /\ [][Next]_vars /\ Fairness

-----------------------------------------------------------------------------
(* Properties                                                              *)

\* No instance is forgotten: as long as the daemon is not killed, and the scripts of the program
\* are prompt, the one that lives and that nobody stopped is the one whose pid is in the file, over
\* any number of shutdowns and new daemons. So there is never a second one.
NeverLost ==
    config.prompt /\ crashes = 0 =>
        \A i \in Instances \ missed : prog[i] = "up" /\ shell[i] = "done" => pid_file = i

\* A daemon finds the program that runs already, also the one that is disabled or not to be
\* started: it comes to be RUNNING, unless it dies or somebody stops it or the daemon, or the
\* system gives no child.
Adopted ==
    (daemon = "up" /\ check_status /\ ~obj.started)
        ~> \/ obj.state = "RUNNING" /\ obj.child = "up"
           \/ ~check_status \/ daemon # "up" \/ obj.state \in {"STOPPING", "BACKOFF"}

\* The death of the program is noticed, though it is nobody's child.
DeathSeen ==
    (daemon = "up" /\ obj.state = "RUNNING" /\ \A i \in Instances : ~Live(i))
        ~> obj.state # "RUNNING" \/ daemon # "up" \/ \E i \in Instances : Live(i)

\* Once stopProcess() has stopped the program fully, as it says it does, no instance goes on that
\* was not even told to stop.
FullyStopped ==
    daemon = "up" /\ obj.state = "STOPPED" /\ obj.started /\ crashes = 0 =>
        \A i \in Instances : prog[i] # "up"
=============================================================================
