---------------------------- MODULE AdminService ----------------------------
(***************************************************************************)
(* The daemon with several groups (class AdminService, adminserviced.py):  *)
(* its main loop, the order in which it stops the groups when it goes, the *)
(* calls that change the set of groups (rpcinterface.py), and the client   *)
(* command "update" that makes the set what the configuration says         *)
(* (rhadmin.py).                                                           *)
(*                                                                         *)
(* Groups and programs are numbered in the order of their priorities.  A   *)
(* group's configuration is the set of its programs and a version, which   *)
(* stands for the options of the group and of its programs.  What the      *)
(* processes do is ProcessOutline's.  No program waits for the one before  *)
(* it: that is ProcessGroup's subject.                                     *)
(*                                                                         *)
(* A group object that leaves process_groups may live on: the current turn *)
(* of the loop goes over the list of groups made at its beginning, and a   *)
(* child keeps its process object in pidhistory.  dropped holds these.     *)
(***************************************************************************)
EXTENDS ProcessOutline, Sequences, FiniteSets

CONSTANTS
    Programs,      \* numbers of the programs
    Groups,        \* numbers of the groups
    GroupOf,       \* the group a program is configured in
    Config,        \* the options of a program the methods read
    Inis,          \* what the configuration file may say when it is read
    Lines,         \* the groups a line may tell "update" to look at, or none for all
    Asked,         \* the programs other clients start and stop
    Forces,        \* the values of force in a startProcess call
    UpdateBound    \* how often the client updates

NoConfig == [members |-> {}, version |-> 0]     \* the group is not listed
GroupConfigType == [members: SUBSET Programs, version: Nat]

ASSUME ServiceAssumption ==
    /\ Programs \subseteq Nat \ {0} /\ Groups \subseteq Nat \ {0}
    /\ IsFiniteSet(Groups)
    /\ GroupOf \in [Programs -> Groups]
    /\ \A k \in Programs :
         /\ Config[k].enabled \in BOOLEAN /\ Config[k].autostart \in BOOLEAN
         /\ Config[k].autorestart \in {"never", "unexpected", "always"}
    /\ Inis \subseteq [Groups -> GroupConfigType]
    /\ \A ini \in Inis, g \in Groups : ini[g] # NoConfig =>
         ini[g].members # {} /\ \A k \in ini[g].members : GroupOf[k] = g
    /\ Lines \subseteq SUBSET Groups
    /\ Asked \subseteq Programs /\ Forces \subseteq BOOLEAN /\ UpdateBound \in Nat

VARIABLES
    configured,    \* options.process_group_configs: what was last read of it
    active,        \* process_groups: the configurations of the active groups
    procs,         \* the process objects of the active groups
    dropped,       \* the process objects of a group that left process_groups
    replaced,      \* history: those of them that updateProcessGroup dropped
    strays,        \* history: those that were started after their group had left
    pgroups,       \* the loop's list of groups
    stale,         \* those of pgroups that left process_groups in this turn
    mood,          \* options.mood
    stopping, stop_groups,
    pc,            \* where the daemon's thread is
    turn,          \* the program it is at in transition(), or else 0
    client,        \* the command "update" of rhadmin
    updates        \* how often it was given

groups == <<configured, active>>
objects == <<procs, dropped, replaced, strays>>
leaving == <<mood, stopping, stop_groups>>
vars == <<groups, objects, pgroups, stale, leaving, pc, turn, client, updates>>

Moods == {"RUNNING", "SHUTDOWN", "RESTARTING"}
PCs == {"top", "dispatch", "call_reap", "stop_each", "stop_reap",
        "transition", "reap", "exited"}

\* What "update" has left to do with the groups it is for, the group it is at, the processes it
\* waits for, and whether the daemon served it in this turn.
Idle == [at |-> "idle", only |-> {}, removed |-> {}, changed |-> {}, added |-> {}, group |-> 0,
         waits |-> {}, watch |-> {}, wrong |-> {}, served |-> FALSE]
ClientType ==
    [at: {"idle", "remove", "stopping", "change", "add", "watch", "tidy", "tidying"},
     only: SUBSET Groups, removed: SUBSET Groups, changed: SUBSET Groups, added: SUBSET Groups,
     group: Groups \cup {0}, waits: SUBSET Programs, watch: SUBSET Programs,
     wrong: SUBSET Programs, served: BOOLEAN]
Nothing == [state |-> "UNKNOWN", started |-> TRUE, child |-> "none"]

TypeOK ==
    /\ configured \in Inis
    /\ active \in [Groups -> GroupConfigType]
    /\ procs \in [Programs -> OutlineType]
    /\ dropped \in [Programs -> OutlineType] /\ {replaced, strays} \subseteq SUBSET Programs
    /\ pgroups \subseteq Groups /\ stale \subseteq pgroups
    /\ mood \in Moods /\ stopping \in BOOLEAN /\ stop_groups \in Seq(Groups)
    /\ pc \in PCs
    /\ turn \in Programs \cup {0} /\ (turn # 0 => pc \in {"transition", "call_reap"})
    /\ client \in ClientType /\ updates \in 0..UpdateBound

ActiveGroups == {g \in Groups : active[g] # NoConfig}
Members(g) == active[g].members
ActivePrograms == UNION {Members(g) : g \in Groups}
unstopped_processes(g) == {k \in Members(g) : Unstopped(procs[k])}

\* The process objects run() makes of the configuration cfg.
Made(cfg) == [k \in Programs |-> IF k \in cfg[GroupOf[k]].members THEN Fresh(Config[k]) ELSE Nothing]

Init ==
    /\ configured \in Inis /\ active = configured /\ procs = Made(configured)
    /\ mood = "RUNNING" /\ stopping = FALSE /\ stop_groups = <<>>
    /\ pc = "top" /\ turn = 0 /\ pgroups = {} /\ stale = {}
    /\ dropped = [k \in Programs |-> Nothing] /\ replaced = {} /\ strays = {}
    /\ client = Idle /\ updates = 0

-----------------------------------------------------------------------------
(* reap(), within a call or at the end of a turn.                          *)

Reaping == {"reap", "call_reap", "stop_reap"}

Reap(k) ==
    /\ pc \in Reaping
    /\ \/ /\ procs[k].child = "zombie"
          /\ \E o \in Finishes(procs[k], Config[k]) : procs' = [procs EXCEPT ![k] = o]
          /\ UNCHANGED dropped
       \/ /\ dropped[k].child = "zombie"
          /\ \E o \in Finishes(dropped[k], Config[k]) : dropped' = [dropped EXCEPT ![k] = o]
          /\ UNCHANGED procs
    /\ UNCHANGED <<groups, replaced, strays, pgroups, stale, leaving, pc, turn, client, updates>>

NoZombie == \A k \in Programs : procs[k].child # "zombie" /\ dropped[k].child # "zombie"

\* Mutant: the call does not give its process up.
Called_at ==
    /\ pc = "call_reap" /\ NoZombie
    /\ IF turn = 0 THEN UNCHANGED procs
       ELSE \E o \in (IF procs[turn].state \in {"BACKOFF", "EXITED", "DISABLED"} THEN {procs[turn]} ELSE {})
                     \cup (IF procs[turn].state = "BACKOFF" THEN {}
                           ELSE Transitions(procs[turn], Config[turn], mood)) :
              procs' = [procs EXCEPT ![turn] = o]
    /\ pc' = "dispatch" /\ turn' = turn
    /\ UNCHANGED <<groups, dropped, replaced, strays, pgroups, stale, leaving, client, updates>>

\* A call that stopped one process returns; one that started turn calls its
\* transition(), too, unless spawnerr is set.
Called ==
    /\ pc = "call_reap" /\ NoZombie
    /\ IF turn = 0 THEN UNCHANGED procs
       ELSE \E o \in (IF procs[turn].state \in {"BACKOFF", "EXITED", "DISABLED"} THEN {procs[turn]} ELSE {})
                     \cup (IF procs[turn].state = "BACKOFF" THEN {}
                           ELSE Transitions(procs[turn], Config[turn], mood)) :
              procs' = [procs EXCEPT ![turn] = o]
    /\ pc' = "dispatch" /\ turn' = 0
    /\ UNCHANGED <<groups, dropped, replaced, strays, pgroups, stale, leaving, client, updates>>

-----------------------------------------------------------------------------
(* The calls of clients.  A pending call of "update" keeps no other away.  *)

Call == pc = "dispatch" /\ mood = "RUNNING"
Running(k) == k \in ActivePrograms /\ procs[k].state \in RUNNING_STATES

StartProcess(k, force) ==
    /\ Call /\ k \in ActivePrograms /\ ~Running(k)
    /\ force \/ Config[k].enabled
    /\ LET ready == IF procs[k].state = "DISABLED" THEN [procs[k] EXCEPT !.state = "STOPPED"]
                    ELSE procs[k]
       IN  \E o \in Spawns(ready) : procs' = [procs EXCEPT ![k] = o]
    /\ pc' = "call_reap" /\ turn' = k
    /\ UNCHANGED <<groups, dropped, replaced, strays, pgroups, stale, leaving, client, updates>>

Stop(k) == procs' = [procs EXCEPT ![k] = Stops(@, Config[k])]

StopProcess(k) ==
    /\ Call /\ Running(k) /\ Stop(k)
    /\ pc' = "call_reap"
    /\ UNCHANGED <<groups, dropped, replaced, strays, pgroups, stale, leaving, turn, client, updates>>

\* shutdown() and restart()
Leave(new) ==
    /\ Call /\ mood' = new
    /\ UNCHANGED <<groups, objects, pgroups, stale, stopping, stop_groups, pc, turn, client,
                   updates>>

-----------------------------------------------------------------------------
(* "update": the client waits for each answer before it makes the next     *)
(* call, so that a turn serves it once.                                    *)

Calls == Call /\ ~client.served
Served(c) == client' = [c EXCEPT !.served = TRUE]

\* The processes a call of "update" stops: all of a group that is to go, those that are
\* not configured any more of one that has changed.
ToStop ==
    {k \in Members(client.group) : Running(k)} \
    (IF client.at = "change" THEN configured[client.group].members ELSE {})

\* The group leaves process_groups; the loop may go over it once more.
Drop(g) ==
    /\ dropped' = [k \in Programs |-> IF k \in Members(g) THEN procs[k] ELSE dropped[k]]
    /\ stale' = stale \cup ({g} \cap pgroups)

\* Bound: a group leaves once in a turn, and not while a child of one that left is alive.
MayDrop(g) == g \notin stale /\ \A k \in Programs : GroupOf[k] = g => dropped[k] = Nothing

\* The command goes on with the next group, or with the next kind of them.
Onward(c) ==
    [c EXCEPT !.group = 0, !.waits = {},
              !.at = IF c.removed # {} THEN "remove" ELSE IF c.changed # {} THEN "change"
                     ELSE IF c.added # {} THEN "add" ELSE IF c.watch # {} THEN "watch"
                     ELSE "tidy"]

\* reloadConfig(), and what the command makes of the difference it answers.
Update(ini, line) ==
    /\ Call /\ client.at = "idle" /\ updates < UpdateBound
    /\ configured' = ini
    /\ LET only == IF line = {} THEN Groups ELSE line
       IN  Served(Onward([Idle EXCEPT
              !.only = only,
              !.added = {g \in only : active[g] = NoConfig /\ ini[g] # NoConfig},
              !.removed = {g \in only : active[g] # NoConfig /\ ini[g] = NoConfig},
              !.changed = {g \in only : /\ active[g] # NoConfig /\ ini[g] # NoConfig
                                        /\ active[g] # ini[g]}]))
    /\ updates' = updates + 1
    /\ UNCHANGED <<active, objects, pgroups, stale, leaving, pc, turn>>

\* stopProcessGroup() or updateProcessGroup() of the group g.
UpdateStops(g) ==
    /\ Calls /\ client.group = 0
    /\ \/ client.at = "remove" /\ g \in client.removed
       \/ client.at = "change" /\ g \in client.changed /\ MayDrop(g)
    /\ Served([client EXCEPT !.group = g, !.removed = @ \ {g}, !.changed = @ \ {g}])
    /\ pc' = "stop_each"
    /\ UNCHANGED <<groups, objects, pgroups, stale, leaving, turn, updates>>

\* The processes are stopped one after the other, from the largest priority down.
StopNext ==
    /\ pc = "stop_each"
    /\ \E k \in ToStop : /\ \A j \in ToStop : j <= k
                         /\ Stop(k)
                         /\ client' = [client EXCEPT !.waits = @ \cup {k}]
    /\ pc' = "stop_reap"
    /\ UNCHANGED <<groups, dropped, replaced, strays, pgroups, stale, leaving, turn, updates>>

StopReaped ==
    /\ pc = "stop_reap" /\ NoZombie
    /\ pc' = "stop_each"
    /\ UNCHANGED <<groups, objects, pgroups, stale, leaving, turn, client, updates>>

Answer(c) ==
    /\ pc' = "dispatch" /\ Served(c)
    /\ UNCHANGED <<configured, pgroups, mood, stopping, stop_groups, turn, updates>>

\* stopProcessGroup() answers when the processes it stopped are stopped ...
GroupStopping ==
    /\ pc = "stop_each" /\ ToStop = {} /\ client.at = "remove"
    /\ Answer([client EXCEPT !.at = "stopping"])
    /\ UNCHANGED <<active, objects, stale>>

\* ... updateProcessGroup() does not wait for them.
GroupReplaced ==
    /\ pc = "stop_each" /\ ToStop = {} /\ client.at = "change"
    /\ LET g == client.group
       IN  /\ active' = [active EXCEPT ![g] = configured[g]]
           /\ Drop(g)
           /\ procs' = [k \in Programs |-> IF k \in configured[g].members THEN Fresh(Config[k])
                                           ELSE IF GroupOf[k] = g THEN Nothing ELSE procs[k]]
           /\ replaced' = replaced \cup Members(g) /\ UNCHANGED strays
           /\ Answer(Onward([client EXCEPT !.watch = @ \cup configured[g].members]))

\* One pass of allfunc() over its callbacks.
StopPolled ==
    /\ pc = "dispatch" /\ client.at \in {"stopping", "tidying"} /\ client.waits # {}
    /\ LET left == {k \in client.waits : Unstopped(procs[k])}
       IN  /\ left # client.waits
           /\ Served([client EXCEPT !.waits = left])
    /\ UNCHANGED <<groups, objects, pgroups, stale, leaving, pc, turn, updates>>

\* Mutant: the group goes whatever its processes do.
GroupRemoved_always ==
    /\ Calls /\ client.at = "stopping" /\ client.waits = {}
    /\ LET g == client.group
       IN  /\ active' = [active EXCEPT ![g] = NoConfig]
           /\ Drop(g)
           /\ procs' = [k \in Programs |-> IF GroupOf[k] = g THEN Nothing ELSE procs[k]]
           /\ Answer(Onward(client))
    /\ UNCHANGED <<configured, replaced, strays>>

\* Mutant: the command takes a group that still runs for removed.
GroupRemoved_continues ==
    /\ Calls /\ client.at = "stopping" /\ client.waits = {}
    /\ LET g == client.group
       IN  IF unstopped_processes(g) # {}
           THEN /\ Answer(Onward(client))
                /\ UNCHANGED <<active, procs, dropped, stale>>
           ELSE /\ MayDrop(g)
                /\ active' = [active EXCEPT ![g] = NoConfig]
                /\ Drop(g)
                /\ procs' = [k \in Programs |-> IF GroupOf[k] = g THEN Nothing ELSE procs[k]]
                /\ Answer(Onward(client))
    /\ UNCHANGED <<configured, replaced, strays>>

\* removeProcessGroup() of a group that was stopped, if it still is.
GroupRemoved ==
    /\ Calls /\ client.at = "stopping" /\ client.waits = {}
    /\ LET g == client.group
       IN  IF unstopped_processes(g) # {}
           THEN /\ Answer(Idle)
                /\ UNCHANGED <<active, procs, dropped, stale>>
           ELSE /\ MayDrop(g)
                /\ active' = [active EXCEPT ![g] = NoConfig]
                /\ Drop(g)
                /\ procs' = [k \in Programs |-> IF GroupOf[k] = g THEN Nothing ELSE procs[k]]
                /\ Answer(Onward(client))
    /\ UNCHANGED <<configured, replaced, strays>>

\* addProcessGroup()
AddGroup(g) ==
    /\ Calls /\ client.at = "add" /\ g \in client.added
    /\ active' = [active EXCEPT ![g] = configured[g]]
    /\ procs' = [k \in Programs |-> IF k \in configured[g].members THEN Fresh(Config[k])
                                    ELSE procs[k]]
    /\ Answer(Onward([client EXCEPT !.added = @ \ {g}]))
    /\ UNCHANGED <<configured, dropped, replaced, strays, stale>>

\* Mutant: the command waits until the process runs.
Watch_until_running ==
    /\ Calls /\ client.at = "watch"
    /\ \E k \in client.watch :
          /\ \A j \in client.watch : k <= j
          /\ Served(IF procs[k].state # "RUNNING" THEN client
                    ELSE Onward([client EXCEPT !.watch = @ \ {k}]))
    /\ UNCHANGED <<groups, objects, pgroups, stale, leaving, pc, turn, updates>>

\* getProcessInfo() of the next process of the groups that were changed: while it is STARTING
\* the command sleeps and asks again.
Watch ==
    /\ Calls /\ client.at = "watch"
    /\ \E k \in client.watch :
          /\ \A j \in client.watch : k <= j
          /\ Served(IF procs[k].state = "STARTING" THEN client
                    ELSE Onward([client EXCEPT !.watch = @ \ {k}]))
    /\ UNCHANGED <<groups, objects, pgroups, stale, leaving, pc, turn, updates>>

\* getAllProcessInfo(): the processes that should not run are stopped, one by one.
Tidy ==
    /\ Calls /\ client.at = "tidy"
    /\ Served([client EXCEPT !.at = "tidying",
          !.wrong = {k \in ActivePrograms : Running(k) /\ ~Config[k].enabled}])
    /\ UNCHANGED <<groups, objects, pgroups, stale, leaving, pc, turn, updates>>

Tidying == client.at = "tidying" /\ client.waits = {}

TidyStop(k) ==
    /\ Calls /\ Tidying /\ k \in client.wrong
    /\ IF Running(k)
       THEN /\ Stop(k) /\ pc' = "call_reap"
            /\ Served([client EXCEPT !.wrong = @ \ {k}, !.waits = {k}])
       ELSE client' = Idle /\ UNCHANGED <<procs, pc>>
    /\ UNCHANGED <<groups, dropped, replaced, strays, pgroups, stale, leaving, turn, updates>>

Updated ==
    /\ pc = "dispatch" /\ Tidying /\ client.wrong = {}
    /\ client' = Idle
    /\ UNCHANGED <<groups, objects, pgroups, stale, leaving, pc, turn, updates>>

\* The daemon that is to go refuses the next call of the command.
Refused ==
    /\ pc = "dispatch" /\ mood # "RUNNING" /\ client.waits = {} /\ ~client.served
    /\ client.at \in {"remove", "stopping", "change", "add", "watch", "tidy"} \/ (Tidying /\ client.wrong # {})
    /\ client' = Idle
    /\ UNCHANGED <<groups, objects, pgroups, stale, leaving, pc, turn, updates>>

UpdateCommand ==
    \/ \E g \in Groups : UpdateStops(g) \/ AddGroup(g)
    \/ StopNext \/ StopReaped \/ GroupStopping \/ GroupReplaced
    \/ StopPolled \/ GroupRemoved \/ Watch \/ Tidy \/ (\E k \in Programs : TidyStop(k))
    \/ Updated \/ Refused

-----------------------------------------------------------------------------
(* The main loop.                                                          *)

\* What is left of objects that left process_groups are their children.
Orphans == {k \in Programs : dropped[k].child # "none"}
Forgotten == dropped' = [k \in Programs |-> [Nothing EXCEPT !.child = dropped[k].child]]

TurnBegins ==
    /\ pgroups' = ActiveGroups /\ stale' = {} /\ Forgotten
    /\ replaced' = replaced \cap Orphans /\ strays' = strays \cap Orphans
    /\ client' = [client EXCEPT !.served = FALSE]

StartTurn ==
    /\ pc = "top" /\ mood = "RUNNING"
    /\ TurnBegins
    /\ pc' = "dispatch"
    /\ UNCHANGED <<groups, procs, leaving, turn, updates>>

Ascending(s) == \A i, j \in DOMAIN s : i < j => s[i] < s[j]
InOrder(S) == CHOOSE s \in [1..Cardinality(S) -> S] : Ascending(s)

\* The first phase of the shutdown: the last group of stop_groups is stopped.
StopLastGroup ==
    /\ pc = "top" /\ mood # "RUNNING"
    /\ TurnBegins
    /\ stopping' = TRUE
    /\ stop_groups' = IF stopping THEN stop_groups ELSE InOrder(ActiveGroups)
    /\ LET last == IF stop_groups' = <<>> THEN {} ELSE Members(stop_groups'[Len(stop_groups')])
       IN  procs' = [k \in Programs |-> IF k \in last THEN StopsAll(procs[k], Config[k]) ELSE procs[k]]
    /\ pc' = IF \A k \in ActivePrograms : ~Unstopped(procs'[k]) THEN "exited" ELSE "dispatch"
    /\ UNCHANGED <<groups, mood, turn, updates>>

\* The program after k of those the loop goes over.
TurnPrograms ==
    {k \in Programs : IF GroupOf[k] \in stale THEN dropped[k] # Nothing
                      ELSE GroupOf[k] \in pgroups /\ k \in Members(GroupOf[k])}
After(k) == LET later == {j \in TurnPrograms : j > k}
            IN  IF later = {} THEN 0 ELSE CHOOSE j \in later : \A i \in later : j <= i

EndDispatch ==
    /\ pc = "dispatch"
    /\ turn' = After(0) /\ pc' = IF turn' = 0 THEN "reap" ELSE "transition"
    /\ UNCHANGED <<groups, objects, pgroups, stale, leaving, client, updates>>

\* transition() of the program at turn.
Transition ==
    /\ pc = "transition"
    /\ IF GroupOf[turn] \in stale
       THEN /\ \E o \in Transitions(dropped[turn], Config[turn], mood) :
                  dropped' = [dropped EXCEPT ![turn] = o]
            /\ strays' = strays \cup {k \in Orphans' : dropped[k].child = "none"}
            /\ UNCHANGED procs
       ELSE /\ \E o \in Transitions(procs[turn], Config[turn], mood) :
                  procs' = [procs EXCEPT ![turn] = o]
            /\ UNCHANGED <<dropped, strays>>
    /\ turn' = After(turn) /\ pc' = IF turn' = 0 THEN "reap" ELSE "transition"
    /\ UNCHANGED <<groups, replaced, pgroups, stale, leaving, client, updates>>

\* Mutant: a group counts as stopped one turn after it was told to stop.
HandleSignal_impatient(new) ==
    /\ pc = "reap" /\ NoZombie
    /\ mood' = new
    /\ stop_groups' =
          IF new # "RUNNING" /\ stop_groups # <<>>
          THEN SubSeq(stop_groups, 1, Len(stop_groups) - 1) ELSE stop_groups
    /\ pc' = "top"
    /\ UNCHANGED <<groups, objects, pgroups, stale, stopping, turn, client, updates>>

\* handle_signal(), and the second phase of the shutdown.
HandleSignal(new) ==
    /\ pc = "reap" /\ NoZombie
    /\ mood' = new
    /\ stop_groups' =
          IF new # "RUNNING" /\ stop_groups # <<>> /\ unstopped_processes(stop_groups[Len(stop_groups)]) = {}
          THEN SubSeq(stop_groups, 1, Len(stop_groups) - 1) ELSE stop_groups
    /\ pc' = "top"
    /\ UNCHANGED <<groups, objects, pgroups, stale, stopping, turn, client, updates>>

EndTurn == HandleSignal(mood)
ExitRequest == HandleSignal("SHUTDOWN")
RestartRequest == HandleSignal("RESTARTING")

\* main(): a new daemon in the same process.
Restarted(ini) ==
    /\ pc = "exited" /\ mood = "RESTARTING"
    /\ configured' = ini /\ active' = ini /\ procs' = Made(ini)
    /\ mood' = "RUNNING" /\ stopping' = FALSE /\ stop_groups' = <<>>
    /\ pc' = "top" /\ pgroups' = {} /\ stale' = {}
    /\ client' = Idle
    /\ UNCHANGED <<dropped, replaced, strays, turn, updates>>

Loop == StartTurn \/ StopLastGroup \/ EndDispatch \/ Transition \/ EndTurn
        \/ (\E k \in Programs : Reap(k)) \/ Called \/ StopNext \/ StopReaped
        \/ GroupStopping \/ GroupReplaced

-----------------------------------------------------------------------------
(* The system and its users.                                               *)

Dies(k) ==
    /\ pc = "dispatch"
    /\ \/ /\ procs[k].child \in {"up", "killed"}
          /\ procs' = [procs EXCEPT ![k].child = "zombie"] /\ UNCHANGED dropped
       \/ /\ dropped[k].child \in {"up", "killed"}
          /\ dropped' = [dropped EXCEPT ![k].child = "zombie"] /\ UNCHANGED procs
    /\ UNCHANGED <<groups, replaced, strays, pgroups, stale, leaving, pc, turn, client, updates>>

Client ==
    \/ \E k \in Asked : StopProcess(k) \/ \E force \in Forces : StartProcess(k, force)
    \/ Leave("SHUTDOWN") \/ Leave("RESTARTING") \/ \E ini \in Inis, line \in Lines : Update(ini, line)

Next ==
    \/ Client \/ UpdateCommand \/ Loop \/ ExitRequest \/ RestartRequest \/ \E ini \in Inis : Restarted(ini)
    \/ \E k \in Programs : Dies(k)

\* startsecs have passed.
StartOver(k) == Transition /\ procs[k].state = "STARTING" /\ procs'[k].state = "RUNNING"

\* A child that was told to stop is sent SIGKILL when its deadline has passed, and dies.
KilledAtLast(k) ==
    \/ Transition /\ procs[k].child = "up" /\ procs'[k].child = "killed"
    \/ procs[k].child = "killed" /\ Dies(k)

\* The loop goes on; a poll() ends; a child that does not stop is killed in the end; timers run
\* down; the client of "update" goes on when it was answered. A handler is served again and again.
Fairness ==
    /\ WF_vars(Loop) /\ SF_vars(EndDispatch)
    /\ SF_vars(pc = "dispatch" /\ UpdateCommand)
    /\ SF_vars(\E k \in Programs : KilledAtLast(k))
    /\ SF_vars(\E k \in client.watch : StartOver(k))

Spec == Init /\ [][Next]_vars /\ Fairness

-----------------------------------------------------------------------------
(* Properties.                                                             *)

\* The groups are stopped from the last one down: the shutdown tells no process to stop
\* while one of a group that starts later is unstopped, whatever clients, children and further
\* signals did in between.
StopsInOrder ==
    [][\A k \in Programs : (pc = "top" /\ procs'[k] # procs[k]) =>
          \A j \in ActivePrograms : GroupOf[j] > GroupOf[k] => ~Unstopped(procs[j])]_vars

\* A child always has somebody to look after it: a daemon that leaves has none in an active
\* group, and a process object that left the daemon's care has one only if updateProcessGroup()
\* dropped it, or if the loop, on the list of groups it made before, started the program once
\* more. NoneLeftBehind says it without these two.
ChildrenAccounted ==
    /\ pc = "exited" => \A k \in ActivePrograms : procs[k].child = "none"
    /\ \A k \in Programs : dropped[k].child = "none" \/ k \in replaced \/ k \in strays

\* A process object that left process_groups has no child: updateProcessGroup() is to "stop all
\* processes" of the group before the group changes, and removeProcessGroup() to take away a
\* group that is stopped, so that no program runs beside the object that stands for it.
NoneLeftBehind == \A k \in Programs : dropped[k].child = "none"

\* An "update" that comes to its end has made each group it was for what the file said when it
\* was read, though it took many calls, with turns of the loop and calls of others in between.
UpdateConverges == [][Updated => \A g \in client.only : active[g] = configured[g]]_vars

\* An "update" ends, its wait for programs that are STARTING included, unless a client starts a
\* process the command waits for to stop, or a program it watches is started over and over.
UpdateEnds ==
    \/ []<><<\E k \in client.watch : procs[k].state # "STARTING" /\ procs'[k].state = "STARTING">>_vars
    \/ client.at # "idle" ~> \/ client.at = "idle" \/ pc = "exited"
                            \/ \E k \in client.waits : procs[k].state \in RUNNING_STATES

\* The daemon that was told to go leaves, however many groups there are.
ShutdownCompletes == mood # "RUNNING" ~> pc = "exited"
=============================================================================
