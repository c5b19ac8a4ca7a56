------------------------- MODULE MCDetachedProgram -------------------------
(* Values of DetachedProgram's constants for TLC.                          *)
EXTENDS DetachedProgram

Options(enabled, autostart, autorestart, prompt, obeys) ==
    [enabled |-> enabled, autostart |-> autostart, autorestart |-> autorestart,
     prompt |-> prompt, obeys |-> obeys]

\* One that is always to run, one that is disabled and one a client starts, which takes its time.
MCPrograms == {Options(TRUE, TRUE, "always", TRUE, TRUE),
               Options(FALSE, TRUE, "unexpected", TRUE, FALSE),
               Options(TRUE, FALSE, "never", FALSE, TRUE)}

\* A program that ends when it is told to, and with scripts that are prompt.
MCObedient == {Options(TRUE, FALSE, "never", TRUE, TRUE)}
=============================================================================
