-------------------------- MODULE MCDeferredCalls --------------------------
(* Values of DeferredCalls' constants for TLC, and the cases of            *)
(* ClientCases.                                                            *)
EXTENDS DeferredCalls, ClientCases

MCPrograms == 1..2

Options(enabled, autostart, autorestart, waits, fails) ==
    [enabled |-> enabled, autostart |-> autostart, autorestart |-> autorestart,
     waits |-> waits, fails |-> fails]

\* The second waits for the first.
MCConfig == <<Options(TRUE, TRUE, "never", FALSE, FALSE),
              Options(FALSE, FALSE, "never", TRUE, TRUE)>>

Call(do, who) == [do |-> do, who |-> who, force |-> TRUE]

MCClients == 1..2

\* One client restarts all programs, the other stops and starts the first or ends the daemon.
MCRequests == <<{<<Call("stopAll", 0), Call("startAll", 0)>>},
                {<<Call("stop", 1), Call("start", 1)>>, <<Call("quick", 0), Call("shutdown", 0)>>}>>
=============================================================================
