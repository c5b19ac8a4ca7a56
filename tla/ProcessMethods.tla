--------------------------- MODULE ProcessMethods ---------------------------
(***************************************************************************)
(* The methods of class Subprocess (process.py), each as a function from   *)
(* the process object before the call to the object after it.  A handler   *)
(* that calls several methods is the composition of their functions, so a  *)
(* step of a specification that uses them is one whole handler.            *)
(*                                                                         *)
(* A process object is a record with the fields of the class the methods   *)
(* read or write.  Instants are kept relative to time.time():              *)
(*   age   now - laststart, saturated above at Ripe(c); negative once the  *)
(*         clock was set back behind laststart                             *)
(*   left  delay - now, saturated below at -1; -1 also stands for delay=0  *)
(* and "laststart is not zero" is the field started.  raised says that the *)
(* method ended in an exception instead of returning.                      *)
(*                                                                         *)
(* A configuration c has the options the methods read; c.pid_file says     *)
(* whether the pid_file option has a value.                                *)
(***************************************************************************)
EXTENDS Integers

CONSTANT Pids          \* the process ids the system may hand out

ASSUME PidsAssumption == Pids \subseteq Nat \ {0}

ProcessStates == {"DISABLED", "STOPPED", "STARTING", "RUNNING", "BACKOFF",
                  "STOPPING", "EXITED", "FATAL", "UNKNOWN"}

\* Mutants: a process that is being stopped counts as stopped; a disabled one does not.
ALL_STOPPED_STATES_enabled == {"STOPPED", "EXITED", "FATAL", "UNKNOWN"}
ALL_STOPPED_STATES_early == {"DISABLED", "STOPPED", "STOPPING", "EXITED", "FATAL", "UNKNOWN"}
ALL_STOPPED_STATES == {"DISABLED", "STOPPED", "EXITED", "FATAL", "UNKNOWN"}
STOPPED_STATES == ALL_STOPPED_STATES \ {"DISABLED"}
RUNNING_STATES == {"RUNNING", "BACKOFF", "STARTING"}

ConfigType ==
    [enabled: BOOLEAN, autostart: BOOLEAN,
     autorestart: {"never", "unexpected", "always"},
     startsecs: Nat, startretries: Nat, stopwaitsecs: Nat,
     stopasgroup: BOOLEAN, killasgroup: BOOLEAN,
     run_detached: BOOLEAN, pid_file: BOOLEAN]

PidsOrNone == Pids \cup {0}
ExitStatuses == {"none", "expected", "unexpected"}

ProcessType ==
    [state: ProcessStates, pid: PidsOrNone, killing: BOOLEAN,
     backoff: Nat, age: Int, left: Int, started: BOOLEAN,
     administrative_stop: BOOLEAN, system_stop: BOOLEAN,
     exitstatus: ExitStatuses,
     spawnerr: BOOLEAN, raised: BOOLEAN]

\* What the pid_file of a configuration is found to be: no such option, no such
\* file, a file check_status() does not confirm, a file it confirms.
FileStates == {"unset", "absent", "stale", "live"}

Past == -1                          \* an instant that is over, or delay = 0
Ripe(c) == c.startsecs + 1          \* any age above startsecs

\* Subprocess.__init__
NewProcess(c) ==
    [state |-> IF c.enabled THEN "STOPPED" ELSE "DISABLED",
     pid |-> 0, killing |-> FALSE, backoff |-> 0, age |-> Ripe(c), left |-> Past,
     started |-> FALSE, administrative_stop |-> FALSE, system_stop |-> FALSE,
     exitstatus |-> "none", spawnerr |-> FALSE, raised |-> FALSE]

Raise(p) == [p EXCEPT !.raised = TRUE]

\* A process whose configuration is not enabled comes to rest in DISABLED.
RestingState(p, new, c) ==
    IF new \in {"STOPPED", "EXITED"} /\ ~c.enabled /\ p.state # "DISABLED"
    THEN "DISABLED" ELSE new

\* Mutant: the backoff counter runs down.
change_state_countdown(p, new, c) ==
    IF new = p.state THEN p
    ELSE IF new = "BACKOFF"
    THEN [p EXCEPT !.state = new, !.backoff = @ - 1, !.left = p.backoff + 1]
    ELSE [p EXCEPT !.state = RestingState(p, new, c)]

change_state(p, new, c) ==
    IF new = p.state THEN p
    ELSE IF new = "BACKOFF"
    THEN [p EXCEPT !.state = new, !.backoff = @ + 1, !.left = p.backoff + 1]
    ELSE [p EXCEPT !.state = RestingState(p, new, c)]

give_up(p, c) ==
    LET q == [p EXCEPT !.left = Past, !.backoff = 0, !.system_stop = TRUE]
    IN  IF q.state = "BACKOFF" THEN change_state(q, "FATAL", c) ELSE Raise(q)

-----------------------------------------------------------------------------
(* spawn(): outcome is "fork" when the child was forked as pid, "failed"   *)
(* when get_execv_args, make_dispatchers or fork raised.                   *)

Startable == {"EXITED", "FATAL", "BACKOFF", "STOPPED"}

Afresh(p) ==
    [p EXCEPT !.killing = FALSE, !.spawnerr = FALSE, !.exitstatus = "none",
              !.system_stop = FALSE, !.administrative_stop = FALSE,
              !.age = 0, !.started = TRUE]

_spawn_as_parent(p, pid, c) == [p EXCEPT !.pid = pid, !.left = c.startsecs]

spawn(p, outcome, pid, c) ==
    IF p.pid # 0 THEN p
    ELSE IF p.state \notin Startable THEN Raise(Afresh(p))
    ELSE LET q == change_state(Afresh(p), "STARTING", c)
         IN  IF outcome = "fork" THEN _spawn_as_parent(q, pid, c)
             ELSE change_state([q EXCEPT !.spawnerr = TRUE], "BACKOFF", c)

-----------------------------------------------------------------------------
(* kill(), stop() and signal(): delivered says whether os.kill() returned. *)

\* kill() gets as far as os.kill().
Signals(p) == p.pid # 0 /\ p.state \in {"RUNNING", "STARTING", "STOPPING"}

\* Mutant: the object does not remember that it is killing its child.
Killing_forgotten(p, c) ==
    change_state([p EXCEPT !.left = c.stopwaitsecs], "STOPPING", c)

Killing(p, c) ==
    change_state([p EXCEPT !.killing = TRUE, !.left = c.stopwaitsecs],
                 "STOPPING", c)

\* The except clause of kill(): the daemon gives the child up.
Lost(p, c) ==
    [change_state(p, "UNKNOWN", c) EXCEPT !.pid = 0, !.killing = FALSE, !.left = Past]

kill(p, delivered, c) ==
    IF p.state = "BACKOFF" THEN change_state(p, "STOPPED", c)
    ELSE IF p.pid = 0 THEN p
    ELSE IF ~Signals(p)
    THEN Raise([p EXCEPT !.killing = TRUE, !.left = c.stopwaitsecs])
    ELSE IF delivered THEN Killing(p, c) ELSE Lost(Killing(p, c), c)

stop(p, delivered, c) == kill([p EXCEPT !.administrative_stop = TRUE], delivered, c)

signal(p, delivered, c) ==
    IF p.pid = 0 THEN p
    ELSE IF ~Signals(p) THEN Raise(p)
    ELSE IF delivered THEN p
    ELSE [change_state(p, "UNKNOWN", c) EXCEPT !.pid = 0]

-----------------------------------------------------------------------------
(* finish(): the child was reaped with exit status es, in exitcodes        *)
(* ("expected") or not ("unexpected").                                     *)

\* Mutant: a child that came up a moment ago still died too quickly.
TooQuickly_late(p, c) == p.age > 0 /\ p.age <= c.startsecs + 1

\* laststart is in the past and less than startsecs ago
TooQuickly(p, c) == p.age > 0 /\ p.age < c.startsecs

\* Mutant: killing is not reset when the killed child is reaped.
Stopped_still_killing(p, es, c) ==
    LET q == [p EXCEPT !.left = Past, !.exitstatus = es]
    IN  IF q.state = "STOPPING" THEN change_state(q, "STOPPED", c) ELSE Raise(q)

Stopped(p, es, c) ==
    LET q == [p EXCEPT !.killing = FALSE, !.left = Past, !.exitstatus = es]
    IN  IF q.state = "STOPPING" THEN change_state(q, "STOPPED", c) ELSE Raise(q)

DiedStarting(p, c) ==
    LET q == [p EXCEPT !.exitstatus = "none", !.spawnerr = TRUE]
    IN  IF q.state = "STARTING" THEN change_state(q, "BACKOFF", c) ELSE Raise(q)

Exited(p, es, c) ==
    LET q == [p EXCEPT !.left = Past, !.backoff = 0, !.exitstatus = es,
                       !.state = IF @ = "STARTING" THEN "RUNNING" ELSE @]
    IN  IF q.state = "RUNNING"
        THEN change_state([q EXCEPT !.spawnerr = @ \/ es = "unexpected"], "EXITED", c)
        ELSE Raise(q)

\* Mutant: the object keeps the pid of the child it reaped.
finish_keeps_pid(p, es, c) ==
    IF p.killing THEN Stopped(p, es, c)
    ELSE IF TooQuickly(p, c) THEN DiedStarting(p, c)
    ELSE Exited(p, es, c)

finish(p, es, c) ==
    LET q == IF p.killing THEN Stopped(p, es, c)
             ELSE IF TooQuickly(p, c) THEN DiedStarting(p, c)
             ELSE Exited(p, es, c)
    IN  IF q.raised THEN q ELSE [q EXCEPT !.pid = 0]

-----------------------------------------------------------------------------
(* transition(): one pass of the main loop over the process.  mood is the  *)
(* daemon's, file what the pid file is found to be.                        *)

autorestarts(p, c) ==
    /\ p.state = "EXITED" /\ c.enabled
    /\ \/ c.autorestart = "always"
       \/ c.autorestart = "unexpected" /\ p.exitstatus # "expected"

\* Mutant: every stopped process starts, not only one that never ran.
autostarts_again(p, c) == p.state = "STOPPED" /\ c.enabled /\ c.autostart

autostarts(p, c) ==
    p.state = "STOPPED" /\ ~p.started /\ c.enabled /\ c.autostart

\* A program that runs on its own is given a process to watch it.
reattaches(p, c, file) ==
    /\ file = "live"
    /\ \/ p.state = "STOPPED" /\ ~p.started /\ c.run_detached
       \/ p.state = "DISABLED"

retries(p, c) ==
    p.state = "BACKOFF" /\ c.enabled /\ p.backoff <= c.startretries /\ p.left < 0

\* Mutant: the daemon's mood is not looked at.
wantsSpawn_any_mood(p, c, mood, file) ==
    autorestarts(p, c) \/ autostarts(p, c) \/ reattaches(p, c, file) \/ retries(p, c)

wantsSpawn(p, c, mood, file) ==
    /\ mood = "RUNNING"
    /\ autorestarts(p, c) \/ autostarts(p, c) \/ reattaches(p, c, file) \/ retries(p, c)

\* os.path.exists(None) raises TypeError: the DISABLED branch reads pid_file unguarded.
probesNothing(p, mood, file) ==
    mood = "RUNNING" /\ p.state = "DISABLED" /\ file = "unset"

\* The pid file after the call: one that check_status() does not confirm is removed.
fileAfterTransition(p, c, mood, file) ==
    IF /\ mood = "RUNNING" /\ file = "stale"
       /\ p.state = "DISABLED" \/ (p.state = "STOPPED" /\ ~p.started /\ c.run_detached)
    THEN "absent" ELSE file

confirmed(p, c) == p.state = "STARTING" /\ p.age > c.startsecs
\* Mutant: the deadline of a stop is never found to be over.
overdue_never(p) == p.state = "STOPPING" /\ p.left < Past

overdue(p) == p.state = "STOPPING" /\ p.left <= 0

\* Mutant: the process is given up one failure too late.
settle_late(p, state, delivered, c) ==
    IF state = "STARTING" /\ confirmed(p, c)
    THEN change_state([p EXCEPT !.left = Past, !.backoff = 0], "RUNNING", c)
    ELSE IF state = "BACKOFF" /\ p.backoff > c.startretries + 1 THEN give_up(p, c)
    ELSE IF state = "STOPPING" /\ overdue(p) THEN kill(p, delivered, c)
    ELSE p

\* The second half: state is the one transition() read on entry.
settle(p, state, delivered, c) ==
    IF state = "STARTING" /\ confirmed(p, c)
    THEN change_state([p EXCEPT !.left = Past, !.backoff = 0], "RUNNING", c)
    ELSE IF state = "BACKOFF" /\ p.backoff > c.startretries THEN give_up(p, c)
    ELSE IF state = "STOPPING" /\ overdue(p) THEN kill(p, delivered, c)
    ELSE p

transition(p, mood, file, outcome, pid, delivered, c) ==
    IF probesNothing(p, mood, file) THEN Raise(p)
    ELSE LET ready == IF p.state = "DISABLED" THEN change_state(p, "STOPPED", c) ELSE p
             q == IF wantsSpawn(p, c, mood, file) THEN spawn(ready, outcome, pid, c) ELSE p
         IN  IF q.raised THEN q ELSE settle(q, p.state, delivered, c)

\* stop_all() of the group, for one of its processes.
stop_all(p, delivered, c) ==
    IF p.state \in {"RUNNING", "STARTING"} THEN stop(p, delivered, c)
    ELSE IF p.state = "BACKOFF" THEN give_up(p, c)
    ELSE p
=============================================================================
