--------------------------- MODULE ProcessQueries ---------------------------
(***************************************************************************)
(* The calls that tell about processes and change none of them             *)
(* (rpcinterface.py), and the names by which calls refer to processes      *)
(* (options.py).                                                           *)
(*                                                                         *)
(* groups is what the daemon has: a function from names of groups to their *)
(* priority and processes, and these a function from names to records of   *)
(* what the calls read of a process object.  configs is what the files     *)
(* said when they were read: a sequence of groups with sequences of        *)
(* programs.  Names are numbers in the order in which they sort, instants  *)
(* are numbers, and an optional value is a sequence of at most one.        *)
(***************************************************************************)
EXTENDS Integers, Sequences
LOCAL INSTANCE SequencesExt

CONSTANT MAXINT                    \* the largest integer of XML-RPC, a natural number

Star == -1                         \* the name "*"

Told(value) == [fault |-> "none", value |-> value]
Refused(why) == [fault |-> why, value |-> <<>>]

\* A name of one part, or of two with a colon between them.
make_namespec(group, process) == IF group = process THEN <<group>> ELSE <<group, process>>

split_namespec(name) ==
    IF Len(name) = 1 THEN [group |-> name[1], process |-> <<name[1]>>]
    ELSE [group |-> name[1], process |-> IF name[2] = Star THEN <<>> ELSE <<name[2]>>]

\* _getGroupAndProcess(): the name is one of a group, or of a process in it.
Known(groups, name) ==
    LET n == split_namespec(name)
    IN  /\ n.group \in DOMAIN groups
        /\ n.process # <<>> => n.process[1] \in DOMAIN groups[n.group].processes

KnownProcess(groups, name) == split_namespec(name).process # <<>> /\ Known(groups, name)
Named(groups, name) ==
    LET n == split_namespec(name) IN groups[n.group].processes[n.process[1]]

\* _getAllProcesses(): by name, or by priority. What is asked for in reverse is reversed within
\* each group.
Sorted(table, lexical) ==
    IF lexical THEN SetToSortSeq(DOMAIN table, LAMBDA a, b : a < b)
    ELSE SetToSortSeq(DOMAIN table, LAMBDA a, b : \/ table[a].priority < table[b].priority
                                                  \/ table[a].priority = table[b].priority /\ a < b)

getAllProcesses(groups, lexical, reverse) ==
    LET Of(g) == LET names == Sorted(groups[g].processes, lexical)
                     order == IF reverse THEN Reverse(names) ELSE names
                 IN  [i \in DOMAIN order |-> <<g, order[i]>>]
    IN  FlattenSeq([i \in DOMAIN Sorted(groups, lexical) |-> Of(Sorted(groups, lexical)[i])])

-----------------------------------------------------------------------------
capped_int(n) == IF n < -MAXINT - 1 THEN -MAXINT - 1 ELSE IF n > MAXINT THEN MAXINT ELSE n

\* The description in words: the kind of sentence and what it says.
interpretProcessInfo(info) ==
    IF info.state = "RUNNING"
    THEN [says |-> "uptime",
          of |-> IF info.now < info.start THEN 0 ELSE info.now - info.start]
    ELSE IF info.state \in {"FATAL", "BACKOFF"}
    THEN [says |-> IF info.spawnerr THEN "spawnerr" ELSE "unknown error", of |-> 0]
    ELSE IF info.state \in {"DISABLED", "STOPPED", "EXITED"}
    THEN IF info.start # 0 THEN [says |-> "stopped at", of |-> info.stop]
         ELSE [says |-> "Not started", of |-> 0]
    ELSE [says |-> "nothing", of |-> 0]

getProcessInfo(groups, name, now) ==
    IF ~KnownProcess(groups, name) THEN Refused("BAD_NAME")
    ELSE LET p == Named(groups, name)
             info == [group |-> name[1], name |-> split_namespec(name).process[1],
                      state |-> p.state, pid |-> p.pid, enabled |-> p.enabled,
                      spawnerr |-> p.spawnerr, start |-> capped_int(p.laststart),
                      stop |-> capped_int(p.laststop), now |-> capped_int(now)]
         IN  Told(info @@ [description |-> interpretProcessInfo(info)])

\* One that is refused refuses the whole call.
getAllProcessInfo(groups, now) ==
    LET all == getAllProcesses(groups, TRUE, FALSE)
        infos == [i \in DOMAIN all |-> getProcessInfo(groups, make_namespec(all[i][1], all[i][2]), now)]
    IN  IF \E i \in DOMAIN infos : infos[i].fault # "none" THEN Refused("BAD_NAME")
        ELSE Told([i \in DOMAIN infos |-> infos[i].value])

\* What is told of the programs of a name (an empty sequence for all of them) is a set: it is
\* sorted for the client. inuse says that there is a group of that name.
getConfigInfo(configs, groups, name) ==
    LET Asked(g, p) ==
            name # <<>> => LET n == split_namespec(name)
                           IN  g.name = n.group /\ (n.process # <<>> => p.name = n.process[1])
    IN  UNION {{[group |-> g.name, name |-> p.name, inuse |-> g.name \in DOMAIN groups,
                 enabled |-> p.enabled, autostart |-> p.autostart,
                 priorities |-> <<g.priority, p.priority>>] :
                    p \in {q \in ToSet(g.programs) : Asked(g, q)}} : g \in ToSet(configs)}

-----------------------------------------------------------------------------
\* A name for a whole group is handed on to the call for groups, by some calls with arguments that
\* are not those of that call: start and stop hand over wait for proc_type, which has no length
\* when the function is called that answers later; query leaves proc_type out.
WholeGroup(call) ==
    IF call \in {"startProcess", "stopProcess"} THEN "HTTP 500"
    ELSE IF call = "queryProcess" THEN "INCORRECT_PARAMETERS"
    ELSE IF call = "signalProcess" THEN "none"
    ELSE "BAD_NAME"

queryProcess(groups, name) ==
    IF ~Known(groups, name) THEN Refused("BAD_NAME")
    ELSE IF split_namespec(name).process = <<>> THEN Refused(WholeGroup("queryProcess"))
    ELSE Told(IF Named(groups, name).query_script THEN "output" ELSE Named(groups, name).state)

\* write() of the process: stdin is "none" without such a pipe, "closed" after the daemon closed
\* it, and "broken" if the child did.
writable(p) == p.pid # 0 /\ ~p.killing /\ p.stdin = "open"

sendProcessStdin(groups, name, text) ==
    IF ~text THEN "INCORRECT_PARAMETERS"
    ELSE IF ~KnownProcess(groups, name) THEN "BAD_NAME"
    ELSE LET p == Named(groups, name)
         IN  IF p.pid = 0 \/ p.killing THEN "NOT_RUNNING"
             ELSE IF writable(p) THEN "none" ELSE "NO_FILE"

\* clearAllProcessLogs(): one process each turn, so the result comes with the last of them; a
\* process of a group that is gone by then is told of as BAD_NAME.
clearall(callbacks, results, groups) ==
    IF callbacks = <<>> THEN [left |-> <<>>, results |-> results, done |-> TRUE]
    ELSE LET at == Head(callbacks)
             known == KnownProcess(groups, make_namespec(at[1], at[2]))
         IN  [left |-> Tail(callbacks), done |-> Len(callbacks) = 1,
              results |-> Append(results, <<at, IF known THEN "SUCCESS" ELSE "BAD_NAME">>)]
=============================================================================
