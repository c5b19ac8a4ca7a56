-------------------------- MODULE RhadminCommands --------------------------
(***************************************************************************)
(* The commands of rhadmin (rhadmin.py), each from its words to what the   *)
(* daemon is afterwards, what was told to the user and whether the command *)
(* ended in an exception.  The command update, which takes many turns, is  *)
(* in AdminService; what a call does over time is in DeferredCalls: here a *)
(* call that waits has waited, and nobody else calls.                      *)
(*                                                                         *)
(* A daemon d has a mood, what its files list, and groups: a function from *)
(* names to functions from the names of its processes to records that say  *)
(* whether one is up, enabled, and can be spawned.  A name is <<g>> for    *)
(* the word "g" and <<g, p>> for "g:p", p being Star in "g:*".  The words  *)
(* that are no names are names nothing has.                                *)
(***************************************************************************)
EXTENDS Integers, Sequences, FiniteSets
LOCAL INSTANCE SequencesExt

Star == -1
WordAll == <<-2>>                  \* all
WordForce == <<-3>>                \* -f
WordType == <<-4>>                 \* domain, nodes, waveforms, process

\* rhadmin's own reading: a word without a colon is a group.
split_namespec(name) ==
    [group |-> name[1],
     process |-> IF Len(name) = 1 \/ name[Len(name)] = Star THEN <<>> ELSE <<name[2]>>]

IsGroup(name) == split_namespec(name).process = <<>>

-----------------------------------------------------------------------------
(* What the calls answer (rpcinterface.py).                                *)

HasGroup(d, g) == g \in DOMAIN d.groups
HasProcess(d, name) == HasGroup(d, name[1]) /\ name[2] \in DOMAIN d.groups[name[1]]
ProcessAt(d, name) == d.groups[name[1]][name[2]]
SetUp(d, name, up) == [d EXCEPT !.groups[name[1]][name[2]].up = up]

ShutsDown(d) == d.mood # "RUNNING"

StartFault(d, name) ==
    IF ShutsDown(d) THEN "SHUTDOWN_STATE"
    ELSE IF ~HasProcess(d, name) THEN "BAD_NAME"
    ELSE LET p == ProcessAt(d, name)
         IN  IF p.up THEN "ALREADY_STARTED"
             ELSE IF p.spawns THEN "none" ELSE "SPAWN_ERROR"

StopFault(d, name) ==
    IF ShutsDown(d) THEN "SHUTDOWN_STATE"
    ELSE IF ~HasProcess(d, name) THEN "BAD_NAME"
    ELSE IF ProcessAt(d, name).up THEN "none" ELSE "NOT_RUNNING"

GroupFault(d, g) ==
    IF ShutsDown(d) THEN "SHUTDOWN_STATE" ELSE IF HasGroup(d, g) THEN "none" ELSE "BAD_NAME"

\* The calls for groups, of the programs Of.
StartedAll(d, Of, force) ==
    [d EXCEPT !.groups = [g \in DOMAIN @ |-> [p \in DOMAIN @[g] |->
        [@[g][p] EXCEPT !.up = @ \/ (g \in Of /\ d.groups[g][p].spawns
                                     /\ (force \/ d.groups[g][p].enabled))]]]]
StoppedAll(d, Of) ==
    [d EXCEPT !.groups = [g \in DOMAIN @ |-> [p \in DOMAIN @[g] |->
        [@[g][p] EXCEPT !.up = @ /\ g \notin Of]]]]

-----------------------------------------------------------------------------
(* A command that runs: r.d is the daemon, r.told what the user was told,  *)
(* r.raised that the command ended in an exception.                        *)

Running(d) == [d |-> d, told |-> <<>>, raised |-> FALSE]
Say(r, name, what) == [r EXCEPT !.told = Append(@, <<name, what>>)]
Raise(r) == [r EXCEPT !.raised = TRUE]

EachName(r, names, Do(_, _)) ==
    FoldLeft(LAMBDA s, name : IF s.raised THEN s ELSE Do(s, name), r, names)

\* _startresult(), _signalresult(), _clearresult(): other codes are an assertion.
StartResults == {"BAD_NAME", "NO_FILE", "NOT_EXECUTABLE", "SPAWN_ERROR", "ABNORMAL_TERMINATION",
                 "FAILED", "DISABLED", "ALREADY_STARTED", "none"}
SignalResults == {"BAD_NAME", "BAD_SIGNAL", "NOT_RUNNING", "none", "FAILED"}
ClearResults == {"BAD_NAME", "FAILED", "none"}
Result(r, name, fault, known) == IF fault \in known THEN Say(r, name, fault) ELSE Raise(r)

GroupResult(r, name, fault, after) ==
    IF fault = "none" THEN Say([r EXCEPT !.d = after], name, "results")
    ELSE IF fault = "BAD_NAME" THEN Say(r, name, "no such group") ELSE Raise(r)

StartGroup(r, name, force) ==
    GroupResult(r, name, GroupFault(r.d, name[1]), StartedAll(r.d, {name[1]}, force))

\* getProcessInfo() is called first, and its fault is caught by nobody.
StartProcess(r, name, force) ==
    IF ShutsDown(r.d) \/ ~HasProcess(r.d, name) THEN Raise(r)
    ELSE IF ProcessAt(r.d, name).up THEN Say(r, name, "already running")
    ELSE IF ~ProcessAt(r.d, name).enabled /\ ~force THEN Say(r, name, "not enabled")
    ELSE LET fault == StartFault(r.d, name)
         IN  Result(IF fault = "none" THEN [r EXCEPT !.d = SetUp(@, name, TRUE)] ELSE r,
                    name, fault, StartResults)

StopGroup(r, name) ==
    GroupResult(r, name, GroupFault(r.d, name[1]), StoppedAll(r.d, {name[1]}))

StopProcess(r, name) ==
    LET fault == StopFault(r.d, name)
    IN  Result(IF fault = "none" THEN [r EXCEPT !.d = SetUp(@, name, FALSE)] ELSE r,
               name, fault, SignalResults)

\* A word for the type is taken from the front; all programs are of that type here.
Untyped(words) == IF Head(words) = WordType THEN Tail(words) ELSE words

\* upcheck(): getVersion() is refused by a daemon that shuts down, too.
Upcheck(d, Then(_)) == IF ShutsDown(d) THEN Raise(Running(d)) ELSE Then(Running(d))

start(r, words) ==
    IF words = <<>> THEN Say(r, <<>>, "requires a process name")
    ELSE LET force == Contains(words, WordForce)
             rest == RemoveFirst(words, WordForce)
         IN  IF rest = <<>> THEN Raise(r)                      \* names[0]
             ELSE LET names == Untyped(rest)
                  IN  IF Contains(names, WordAll)
                      THEN Say([r EXCEPT !.d = StartedAll(@, DOMAIN @.groups, FALSE)], <<>>, "results")
                      ELSE EachName(r, names, LAMBDA s, name :
                              IF IsGroup(name) THEN StartGroup(s, name, force)
                              ELSE StartProcess(s, name, force))

do_start(d, words) == Upcheck(d, LAMBDA r : start(r, words))

stop(r, words) ==
    IF words = <<>> THEN Say(r, <<>>, "requires a process name")
    ELSE LET names == Untyped(words)
         IN  IF Contains(names, WordAll)
             THEN Say([r EXCEPT !.d = StoppedAll(@, DOMAIN @.groups)], <<>>, "results")
             ELSE EachName(r, names, LAMBDA s, name :
                     IF IsGroup(name) THEN StopGroup(s, name) ELSE StopProcess(s, name))

do_stop(d, words) == Upcheck(d, LAMBDA r : stop(r, words))

do_restart(d, words) ==
    Upcheck(d, LAMBDA r : IF words = <<>> THEN Say(r, <<>>, "requires a process name")
                          ELSE LET s == stop(r, words)
                               IN  IF s.raised THEN s ELSE start(s, words))

\* A signal changes nothing here; valid says that the daemon knows its name.
do_signal(d, words, valid) ==
    Upcheck(d, LAMBDA r :
        IF words = <<>> THEN Say(r, <<>>, "requires a signal name and a process name")
        ELSE IF Contains(words, WordAll) THEN Say(r, <<>>, "results")
        ELSE EachName(r, words, LAMBDA s, name :
                IF IsGroup(name) THEN GroupResult(s, name, GroupFault(d, name[1]), d)
                ELSE Result(s, name, IF HasProcess(d, name) /\ ~valid THEN "BAD_SIGNAL"
                                     ELSE StopFault(d, name), SignalResults)))

\* A word without a colon reaches the call as it is, where it is the process "g:g".
Called(name) == IF Len(name) = 1 THEN <<name[1], name[1]>> ELSE name

do_clear(d, words) ==
    Upcheck(d, LAMBDA r :
        IF words = <<>> THEN Say(r, <<>>, "requires a process name")
        ELSE IF Contains(words, WordAll) THEN Say(r, <<>>, "results")
        ELSE EachName(r, words, LAMBDA s, name :
                Result(s, name, IF HasProcess(d, Called(name)) THEN "none" ELSE "BAD_NAME",
                       ClearResults)))

do_query(d, words) ==
    Upcheck(d, LAMBDA r :
        IF words = <<>> THEN Say(r, <<>>, "requires a process name")
        ELSE IF Contains(Untyped(words), WordAll) THEN Say(r, <<>>, "results")
        ELSE EachName(r, Untyped(words), LAMBDA s, name :
                IF IsGroup(name) THEN GroupResult(s, name, GroupFault(d, name[1]), d)
                ELSE Say(s, name, IF HasProcess(d, name) THEN "output" ELSE "BAD_NAME")))

\* do_status() asks for everything and chooses here.
do_status(d, words) ==
    Upcheck(d, LAMBDA r :
        LET names == IF words = <<>> THEN words ELSE Untyped(words)
            All == UNION {{<<g, p>> : p \in DOMAIN d.groups[g]} : g \in DOMAIN d.groups}
            Of(name) == {at \in All : at[1] = name[1] /\ (IsGroup(name) \/ at[2] = name[2])}
        IN  IF words = <<>> \/ Contains(names, WordAll) THEN Say(r, All, "statuses")
            ELSE Say(EachName(r, names, LAMBDA s, name :
                        IF Of(name) = {} THEN Say(s, name, "no such") ELSE s),
                     UNION {Of(names[i]) : i \in DOMAIN names}, "statuses"))

do_pid(d, words) ==
    Upcheck(d, LAMBDA r :
        IF words = <<>> \/ Contains(words, WordAll) THEN Say(r, <<>>, "pids")
        ELSE EachName(r, words, LAMBDA s, name :
                Say(s, name, IF HasProcess(d, Called(name)) THEN "pid" ELSE "no such process")))

\* do_add() and do_remove(): no upcheck, and remove does not know the answer of a daemon that
\* shuts down.
do_add(d, words) ==
    EachName(Running(d), words, LAMBDA s, name :
        IF ShutsDown(s.d) THEN Say(s, name, "shutting down")
        ELSE IF name[1] \notin DOMAIN s.d.files THEN Say(s, name, "no such group")
        ELSE IF HasGroup(s.d, name[1]) THEN Say(s, name, "already active")
        ELSE Say([s EXCEPT !.d.groups = [g \in DOMAIN @ \cup {name[1]} |->
                    IF g = name[1] THEN d.files[g] ELSE @[g]]], name, "added"))

do_remove(d, words) ==
    EachName(Running(d), words, LAMBDA s, name :
        IF ShutsDown(s.d) THEN Raise(s)
        ELSE IF ~HasGroup(s.d, name[1]) THEN Say(s, name, "no such group")
        ELSE IF \E p \in DOMAIN s.d.groups[name[1]] : s.d.groups[name[1]][p].up
        THEN Say(s, name, "still running")
        ELSE Say([s EXCEPT !.d.groups = [g \in DOMAIN @ \ {name[1]} |-> @[g]]], name, "removed"))

\* do_shutdown() and do_reload()
Ends(d, mood) == IF ShutsDown(d) THEN Say(Running(d), <<>>, "already shutting down")
                 ELSE Say([Running(d) EXCEPT !.d.mood = mood], <<>>, "done")

-----------------------------------------------------------------------------
(* tail: the modifier is "" if there is none, "-f", a number of bytes      *)
(* ("-100") or no number ("-x"); a channel is <<>> or the word given.      *)

\* `is` finds the default 'stdout' to be itself, and not the word that came out of lower().
ChannelRead(channel) == IF channel = <<>> THEN "stdout" ELSE "stderr"

do_tail(modifier, name, channel) ==
    IF \/ name = <<>> \/ modifier = "-x"
       \/ channel # <<>> /\ channel[1] \notin {"stdout", "stderr"}
    THEN [call |-> "none", channel |-> "", bytes |-> 0]
    ELSE IF modifier = "-f"
    THEN [call |-> "logtail", channel |-> IF channel = <<>> THEN "stdout" ELSE channel[1], bytes |-> 0]
    ELSE [call |-> "readProcessLog", channel |-> ChannelRead(channel),
          bytes |-> IF modifier = "" THEN -1600 ELSE -100]

\* onecmd(): an exception is told to the user, and ends a client that is not interactive.
ExitStatus(r, interactive) == IF r.raised /\ ~interactive THEN 2 ELSE 0

\* _complete_processes(), with and without a colon in the text.
_complete_processes(d, colon) ==
    UNION {UNION {IF colon \/ p # g THEN {<<g, p>>, <<g, Star>>} ELSE {<<g>>} :
                     p \in DOMAIN d.groups[g]} : g \in DOMAIN d.groups}
=============================================================================
