----------------------------- MODULE ClientCases -----------------------------
(***************************************************************************)
(* What clients may rely on when they ask about processes                  *)
(* (ProcessQueries) and when they type commands (RhadminCommands), over    *)
(* all small tables of processes and all short commands.                   *)
(***************************************************************************)
EXTENDS Integers, Sequences, FiniteSets, TLC

-----------------------------------------------------------------------------
(* What the calls of ProcessQueries answer over small tables: two groups   *)
(* of up to two processes each, the names 1 and 2 and, when it is allowed, *)
(* "*".                                                                    *)
Q == INSTANCE ProcessQueries WITH MAXINT <- 9

Shown(state, laststart) ==
    [state |-> state, pid |-> 0, enabled |-> TRUE, spawnerr |-> FALSE, laststart |-> laststart,
     laststop |-> 0, priority |-> 1, query_script |-> FALSE, killing |-> FALSE, stdin |-> "none"]

Tables(names) ==
    LET Processes == UNION {[d -> {[Shown("RUNNING", 4) EXCEPT !.priority = i] : i \in 1..2}] :
                               d \in (SUBSET names) \ {{}}}
    IN  UNION {[d -> [priority : 1..2, processes : Processes]] : d \in (SUBSET (1..2)) \ {{}}}

Plain == Tables(1..2)
Starred == Tables({1, Q!Star})
All(groups) == UNION {{<<g, p>> : p \in DOMAIN groups[g].processes} : g \in DOMAIN groups}
Positions(s) == {<<i, j>> \in (DOMAIN s) \X (DOMAIN s) : i < j}

\* make_namespec() and split_namespec() are inverse but for a process named "*", of a group of
\* another name.
ASSUME NamesRoundTrip ==
    \A g \in 1..2, p \in {Q!Star, 1, 2} :
        (Q!split_namespec(Q!make_namespec(g, p)) = [group |-> g, process |-> <<p>>]) <=> p # Q!Star

\* Every process is listed once. By priority, in reverse or not, the groups come in ascending
\* priority: only the processes of one group change places.
ASSUME EveryProcessListed ==
    \A groups \in Plain, lexical, reverse \in BOOLEAN :
        LET all == Q!getAllProcesses(groups, lexical, reverse)
            P(at) == groups[at[1]].processes[at[2]].priority
        IN  /\ {all[i] : i \in DOMAIN all} = All(groups)
            /\ Len(all) = Cardinality(All(groups))
            /\ ~lexical =>
                 \A ij \in Positions(all) :
                     LET a == all[ij[1]]
                         b == all[ij[2]]
                     IN  /\ groups[a[1]].priority <= groups[b[1]].priority
                         /\ a[1] = b[1] => IF reverse THEN P(a) >= P(b) ELSE P(a) <= P(b)

\* getAllProcessInfo() tells of every process, unless one of them is named "*": nothing is told
\* of any process then.
ASSUME AllOrNothingTold ==
    \A groups \in Plain \cup Starred :
        LET told == Q!getAllProcessInfo(groups, 7)
        IN  IF \E at \in All(groups) : at[2] = Q!Star THEN told.fault = "BAD_NAME"
            ELSE /\ told.fault = "none"
                 /\ {<<told.value[i].group, told.value[i].name>> : i \in DOMAIN told.value} = All(groups)

\* The uptime is the time since the start, as long as the clock was not set back and its value is
\* an integer of XML-RPC.
ASSUME UptimeTold ==
    \A start, now \in 0..12 :
        LET info == Q!getProcessInfo(1 :> [priority |-> 1, processes |-> 1 :> Shown("RUNNING", start)],
                                     <<1>>, now)
            uptime == info.value.description.of
        IN  /\ now < start => uptime = 0
            /\ start <= now /\ now <= 9 => uptime = now - start
            /\ uptime <= now

\* Text goes to the stdin of a process only while it has a child nobody kills and an open pipe.
ASSUME StdinReachesAChild ==
    \A pid \in 0..1, killing \in BOOLEAN, stdin \in {"none", "open", "closed", "broken"} :
        LET p == [Shown("RUNNING", 4) EXCEPT !.pid = pid, !.killing = killing, !.stdin = stdin]
        IN  (Q!sendProcessStdin(1 :> [priority |-> 1, processes |-> 1 :> p], <<1>>, TRUE) = "none")
                <=> (pid = 1 /\ ~killing /\ stdin = "open")

\* clearAllProcessLogs() gives one result for each process, in the order of the list, and one
\* process for each turn; those whose group left while it went on are told of as unknown.
ASSUME EveryLogAnswered ==
    \A groups \in Plain, kept \in SUBSET (1..2) :
        LET all == Q!getAllProcesses(groups, FALSE, FALSE)
            Later == [g \in kept \cap DOMAIN groups |-> groups[g]]
            First == Q!clearall(all, <<>>, groups)
            Run[n \in 1..4] == IF n = 1 THEN First
                               ELSE Q!clearall(Run[n - 1].left, Run[n - 1].results, Later)
        IN  /\ \A n \in 1..Len(all) : Run[n].done <=> n = Len(all)
            /\ \A i \in DOMAIN all :
                 Run[Len(all)].results[i] =
                    <<all[i], IF i = 1 \/ all[i][1] \in kept THEN "SUCCESS" ELSE "BAD_NAME">>

\* A name of a group, as getConfigInfo() reads it: "g:*" tells of its programs, and "g" only of
\* the program of the same name. Together the names tell what the call for all of them tells.
ASSUME ConfigurationTold ==
    LET Program(n) == [name |-> n, enabled |-> TRUE, autostart |-> TRUE, priority |-> n]
        configs == <<[name |-> 1, priority |-> 1, programs |-> <<Program(1), Program(2)>>],
                     [name |-> 2, priority |-> 1, programs |-> <<Program(1)>>]>>
        Names(told) == {<<t.group, t.name>> : t \in told}
    IN  \A groups \in Plain :
            LET Ask(name) == Q!getConfigInfo(configs, groups, name)
            IN  /\ Names(Ask(<<1, Q!Star>>)) = {<<1, 1>>, <<1, 2>>}
                /\ Names(Ask(<<1>>)) = {<<1, 1>>}
                /\ Ask(<<2>>) = {}
                /\ Ask(<<>>) = UNION {Ask(<<g, Q!Star>>) : g \in 1..2}
                /\ \A t \in Ask(<<>>) : t.inuse <=> t.group \in DOMAIN groups

-----------------------------------------------------------------------------
(* The commands of rhadmin, over a daemon with two groups of up to two     *)
(* processes each.                                                         *)
C == INSTANCE RhadminCommands

Process(up, enabled, spawns) == [up |-> up, enabled |-> enabled, spawns |-> spawns]
Daemons ==
    {[mood |-> "RUNNING", files |-> 3 :> (3 :> Process(FALSE, TRUE, TRUE)),
      groups |-> 1 :> (1 :> p @@ 2 :> q) @@ 2 :> (1 :> q)] :
        p \in [up: BOOLEAN, enabled: BOOLEAN, spawns: {TRUE}],
        q \in [up: BOOLEAN, enabled: {TRUE}, spawns: BOOLEAN]}
Words == {<<1>>, <<3>>, <<1, 1>>, <<1, 2>>, <<1, 3>>, <<2, 1>>, <<1, C!Star>>,
          C!WordAll, C!WordForce, C!WordType}
Lines == UNION {[1..n -> Words] : n \in 0..3}

Programs_(d) == UNION {{<<g, p>> : p \in DOMAIN d.groups[g]} : g \in DOMAIN d.groups}
Named(line) == {line[i] : i \in DOMAIN line} \ {C!WordForce, C!WordType}
Meant(d, line) ==
    {at \in Programs_(d) : \/ C!WordAll \in Named(line) \/ at \in Named(line)
                            \/ <<at[1]>> \in Named(line) \/ <<at[1], C!Star>> \in Named(line)}
IsUp(d, at) == C!ProcessAt(d, at).up

\* stop goes on behind a name nobody knows: whatever the line says, the programs it names are
\* down afterwards and the others are as they were, and no stop ends in an exception while the
\* daemon stays.
ASSUME StopReachesAll ==
    \A d \in Daemons, line \in Lines :
        LET r == C!do_stop(d, line)
        IN  ~r.raised /\ \A at \in Programs_(d) : IsUp(r.d, at) <=> IsUp(d, at) /\ at \notin Meant(d, line)

\* start, in contrast, ends at the first "group:name" that nobody knows; and with "all" it does
\* not force what is not enabled.
ASSUME StartReachesUpToAnUnknownName ==
    \A d \in Daemons, line \in Lines :
        LET r == C!do_start(d, line)
            Unknown == {i \in DOMAIN line : /\ Len(line[i]) = 2 /\ line[i][2] # C!Star
                                            /\ line[i] \notin Programs_(d)}
            stops == C!WordAll \notin Named(line) /\ Unknown # {}
            Reached == IF stops THEN {line[i] : i \in {j \in DOMAIN line : \A k \in Unknown : j < k}}
                       ELSE Named(line)
            force == C!WordForce \in {line[i] : i \in DOMAIN line} /\ C!WordAll \notin Named(line)
            Comes(at) == /\ C!ProcessAt(d, at).spawns /\ (force \/ C!ProcessAt(d, at).enabled)
                         /\ \/ C!WordAll \in Reached \/ at \in Reached
                            \/ <<at[1]>> \in Reached \/ <<at[1], C!Star>> \in Reached
        IN  /\ r.raised <=> stops \/ line = <<C!WordForce>>
            /\ \A at \in Programs_(d) : IsUp(r.d, at) <=> IsUp(d, at) \/ Comes(at)

\* A restart of programs that all are known, enabled and can be spawned ends with them up, and
\* one with an unknown name in front of a known one with that one down.
ASSUME RestartBringsBack ==
    \A d \in Daemons, line \in Lines :
        LET r == C!do_restart(d, line)
        IN  /\ ~r.raised => \A at \in Meant(d, line) :
                 C!ProcessAt(d, at).enabled /\ C!ProcessAt(d, at).spawns => IsUp(r.d, at)
            /\ line = <<<<1, 3>>, <<1, 1>>>> => r.raised /\ ~IsUp(r.d, <<1, 1>>)

Looks(d, line) ==
    {[d |-> r.d, raised |-> r.raised] :
        r \in {C!do_signal(d, line, TRUE), C!do_clear(d, line), C!do_query(d, line), C!do_pid(d, line)}}
    \cup {[d |-> C!do_status(d, line).d, raised |-> C!do_status(d, line).raised]}

\* A daemon that shuts down is not changed by any command. Most end in an exception, as upcheck()
\* is refused; add, shutdown and reload tell the user what happens.
ASSUME NothingWhileLeaving ==
    \A d \in {[e EXCEPT !.mood = "SHUTDOWN"] : e \in Daemons}, line \in Lines :
        /\ \A r \in {C!do_start(d, line), C!do_stop(d, line), C!do_restart(d, line)} :
              r.d = d /\ C!ExitStatus(r, FALSE) = 2
        /\ \A r \in Looks(d, line) : r.d = d /\ r.raised
        /\ \A r \in {C!do_add(d, line), C!do_remove(d, line), C!Ends(d, "SHUTDOWN")} : r.d = d
        /\ ~C!do_add(d, line).raised /\ ~C!Ends(d, "RESTARTING").raised

\* Commands that only look change nothing and end in no exception, and they know the same
\* programs: what is offered to complete a word is known to status.
ASSUME LooksOnly ==
    \A d \in Daemons, line \in Lines :
        /\ \A r \in Looks(d, line) : r.d = d /\ ~r.raised
        /\ \A name \in C!_complete_processes(d, TRUE) : Len(C!do_status(d, <<name>>).told) = 1

\* A group is removed only when nothing in it runs, and added only from the files; taken out and
\* put back, it is what the files say.
ASSUME GroupsComeAndGo ==
    \A d \in Daemons, g \in 1..3 :
        LET gone == C!do_remove(d, <<<<g>>>>).d
            added == C!do_add(d, <<<<g>>>>).d
        IN  /\ g \in DOMAIN gone.groups <=>
                 g \in DOMAIN d.groups /\ \E p \in DOMAIN d.groups[g] : IsUp(d, <<g, p>>)
            /\ DOMAIN added.groups = DOMAIN d.groups \cup ({g} \cap {3})
            /\ C!do_remove(added, <<<<g>>>>).d.groups = gone.groups

\* tail of a channel that is not named, or with -f, reads the channel of the help text; one that
\* is named reads stderr, also when the name is stdout.
ASSUME TailChannels ==
    /\ \A modifier \in {"", "-f", "-100"} : C!do_tail(modifier, <<1>>, <<>>).channel = "stdout"
    /\ \A channel \in {"stdout", "stderr"} :
         /\ C!do_tail("-f", <<1>>, <<channel>>).channel = channel
         /\ C!do_tail("-100", <<1>>, <<channel>>).channel = "stderr"
=============================================================================
