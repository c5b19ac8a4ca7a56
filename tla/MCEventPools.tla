---------------------------- MODULE MCEventPools ----------------------------
(* Values of EventPools' constants for TLC.                                *)
EXTENDS EventPools

MCPools == {"audit", "mail"}
MCListeners == {1, 2, 3}
Both == {1, 2}

\* "audit" has two listeners and takes every event, "mail" has one and takes some.
MCPoolOf == [l \in MCListeners |-> IF l = 3 THEN "mail" ELSE "audit"]
MCSubscribes == [p \in MCPools |-> IF p = "audit" THEN {"exit", "log"} ELSE {"exit"}]
MCEventTypes == <<"log", "exit">>
OneType == <<"log", "log", "log">>

\* The two listeners of one pool, and events that overflow its buffer.
OnePool == {"audit"}
OneSubscribes == [p \in OnePool |-> {"log"}]
OnePoolOf == [l \in Both |-> "audit"]
SamePriority == [l \in Both |-> 1]

\* One listener in each pool, with the priority a listener has by default.
EachPoolOf == [l \in Both |-> IF l = 2 THEN "mail" ELSE "audit"]
ByDefault == [l \in Both |-> 999]

\* Priorities that no two pools share.
ByPool == [l \in Both |-> l]
=============================================================================
