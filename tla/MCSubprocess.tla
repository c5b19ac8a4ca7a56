---------------------------- MODULE MCSubprocess ----------------------------
(* Values of Subprocess's constants for TLC.                               *)
EXTENDS Subprocess

\* The options that decide about starts and retries, in the combinations users set:
\* those of the REDHAWK defaults, of the sample file, of a service that is to be up
\* always, and of one that is started by hand.  startsecs of 2 lets a child die
\* before and after it is due to be RUNNING.
Foreground(enabled, autostart, autorestart, startsecs, startretries) ==
    [enabled |-> enabled, autostart |-> autostart, autorestart |-> autorestart,
     startsecs |-> startsecs, startretries |-> startretries, stopwaitsecs |-> 1,
     stopasgroup |-> FALSE, killasgroup |-> FALSE,
     run_detached |-> FALSE, pid_file |-> TRUE]

MCConfigs ==
    UNION {{Foreground(e, TRUE, "never", 2, 0), Foreground(e, TRUE, "unexpected", 2, 1),
            Foreground(e, TRUE, "always", 0, 1), Foreground(e, FALSE, "unexpected", 2, 1)}
           : e \in BOOLEAN}

\* One configuration for each of the faults.
SampleConfig == {Foreground(TRUE, TRUE, "unexpected", 2, 1)}
StopAsGroup == {[c EXCEPT !.stopasgroup = TRUE, !.killasgroup = TRUE] : c \in SampleConfig}
BackAndForth == {-1, 1}
=============================================================================
