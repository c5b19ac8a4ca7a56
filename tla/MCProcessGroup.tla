--------------------------- MODULE MCProcessGroup ---------------------------
(* Values of ProcessGroup's constants for TLC.                             *)
EXTENDS ProcessGroup

MCMembers == 1..N

Base == [enabled |-> TRUE, autostart |-> TRUE, autorestart |-> "never",
         startsecs |-> 1, startretries |-> 0, stopwaitsecs |-> 1,
         stopasgroup |-> FALSE, killasgroup |-> FALSE,
         run_detached |-> FALSE, pid_file |-> TRUE,
         waitforprevious |-> 1, failafterwait |-> TRUE]

\* A member that is restarted whenever it ends and may never be seen RUNNING.
CrashLoop == [Base EXCEPT !.autorestart = "always", !.startsecs = 0]
Disabled == [Base EXCEPT !.enabled = FALSE]

\* A member that fails behind one that takes a while to start, and one that starts
\* anyhow, or is disabled, behind one that crashes again and again.
Pairs == {<<Base, Base>>, <<CrashLoop, Disabled>>,
          <<CrashLoop, [Base EXCEPT !.waitforprevious = 2, !.failafterwait = FALSE]>>,
          <<CrashLoop, [Base EXCEPT !.waitforprevious = 0, !.failafterwait = FALSE]>>}
=============================================================================
