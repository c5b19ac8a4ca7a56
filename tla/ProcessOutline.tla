--------------------------- MODULE ProcessOutline ---------------------------
(***************************************************************************)
(* What the methods of ProcessMethods do to a foreground program when      *)
(* nobody looks at the clock: each maps the outline of a process object to *)
(* the set of outlines it may leave, the timers deciding which.  The       *)
(* system delivers every signal and the clock runs forward.                *)
(*                                                                         *)
(* An outline is the state of the object, whether laststart is not zero,   *)
(* and the child behind its pid, which is "none" when the pid is zero.     *)
(***************************************************************************)
EXTENDS ProcessMethods

ChildOutlines == {"none", "up", "killed", "zombie"}

OutlineType == [state: ProcessStates, started: BOOLEAN, child: ChildOutlines]

\* The outline of the process object p with the child ch.
Outline(p, ch) == [state |-> p.state, started |-> p.started, child |-> ch]

Fresh(c) == [state |-> IF c.enabled THEN "STOPPED" ELSE "DISABLED",
             started |-> FALSE, child |-> "none"]

Unstopped(o) == o.state \notin ALL_STOPPED_STATES

At(o, new, c) ==
    [o EXCEPT !.state = IF new \in {"STOPPED", "EXITED"} /\ ~c.enabled THEN "DISABLED" ELSE new]

Spawns(o) ==
    IF o.child # "none" THEN {o}
    ELSE {[state |-> "STARTING", started |-> TRUE, child |-> "up"],
          [state |-> "BACKOFF", started |-> TRUE, child |-> "none"]}

Stops(o, c) ==
    IF o.state = "BACKOFF" THEN At(o, "STOPPED", c)
    ELSE IF o.child = "none" THEN o
    ELSE At(o, "STOPPING", c)

\* Mutant: a process between two retries is left alone.
StopsAll_running(o, c) == IF o.state \in {"RUNNING", "STARTING"} THEN Stops(o, c) ELSE o

StopsAll(o, c) ==
    IF o.state \in {"RUNNING", "STARTING"} THEN Stops(o, c)
    ELSE IF o.state = "BACKOFF" THEN At(o, "FATAL", c)
    ELSE o

\* The child was reaped.
Finishes(o, c) ==
    {[At(o, new, c) EXCEPT !.child = "none"] :
        new \in IF o.state = "STOPPING" THEN {"STOPPED"}
                ELSE IF o.state = "STARTING" THEN {"BACKOFF", "EXITED"}
                ELSE {"EXITED"}}

StartsItself(o, c, mood) ==
    /\ mood = "RUNNING" /\ c.enabled
    /\ \/ o.state = "EXITED" /\ c.autorestart # "never"
       \/ o.state = "STOPPED" /\ ~o.started /\ c.autostart
       \/ o.state = "BACKOFF"

\* SIGKILL takes a child that is not dead already.
Killed(o) == [o EXCEPT !.child = IF @ = "up" THEN "killed" ELSE @]

Transitions(o, c, mood) ==
    UNION {IF o.state = "STARTING" THEN {o, At(o, "RUNNING", c)}
           ELSE IF o.state = "STOPPING" THEN {o, Killed(o)}
           ELSE IF o.state = "BACKOFF" THEN {o, At(o, "FATAL", c)}
           ELSE IF StartsItself(o, c, mood) /\ (o.state # "EXITED" \/ c.autorestart = "always")
           THEN {} ELSE {o},
           IF StartsItself(o, c, mood) THEN Spawns(o) ELSE {},
           \* a retry that fails may have been the last one
           IF o.state = "BACKOFF" THEN {At(o, "FATAL", c)} ELSE {}}
=============================================================================
