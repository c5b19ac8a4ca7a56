------------------------- MODULE ConfigurationCases -------------------------
(* What Configuration makes of small files, with all that may stand in     *)
(* them, as assumptions for TLC to evaluate.                               *)
EXTENDS Integers, Sequences, SequencesExt

Read == INSTANCE Configuration WITH Assignments <- {"NAME=x"}

Section(type, name, opts) == [type |-> type, name |-> name, opts |-> opts, valid |-> TRUE]
Bad(s) == [s EXCEPT !.valid = FALSE]
Some(names, values) == UNION {[given -> values] : given \in SUBSET names}
\* Every sequence of the sections s, without some of them.
Parts(s) == {SelectSeq(s, LAMBDA x : x \in given) : given \in SUBSET ToSet(s)}

NoDefaults(type) == <<Section(type, Read!Default, [priority |-> 400])>>
Files(main) == [main |-> main, domain |-> NoDefaults("domain"), node |-> NoDefaults("node"),
                waveform |-> NoDefaults("waveform")]
Result(files, old) == Read!process_config(files, old, "log")

-----------------------------------------------------------------------------
(* Programs and groups of them.                                            *)

Mains == Parts(<<Section(Read!GroupType, 3, [programs |-> <<1, 2>>]),
                 Section(Read!GroupType, 4, [programs |-> <<2>>, priority |-> 1]),
                 Section("program", 1, [priority |-> 2]),
                 Section("program", 2, [enable |-> "false"]),
                 Section("program", 4, [autorestart |-> "unexpected"]),
                 Section("eventlistener", 5, [events |-> {"TICK_5"}, buffer_size |-> 1]),
                 Section("fcgi-program", 6, [socket |-> [unix |-> FALSE, url |-> "tcp"]])>>)
Processes(groups) == UNION {{p.name : p \in ToSet(groups[i].procs)} : i \in DOMAIN groups}
Named(main, T) == {s.name : s \in {s \in ToSet(main) : s.type \in T}}

\* Every program is in a group, no name is that of two groups, and the groups are in the order
\* in which they are started.
ASSUME EveryProgramInAGroup ==
    \A main \in Mains :
        LET r == Result(Files(main), <<>>)
        IN  r.ok => /\ Processes(r.groups) = Named(main, Read!HomogeneousTypes)
                    /\ {r.groups[i].name : i \in DOMAIN r.groups}
                         = Named(main, {Read!GroupType, "eventlistener", "fcgi-program"}) \cup
                           {s.name : s \in {s \in ToSet(main) : /\ s.type = "program"
                                             /\ s \notin Read!homogeneous_exclude(main)}}
                    /\ \A i, j \in DOMAIN r.groups : i < j =>
                          Read!Before(r.groups[i], r.groups[j])

\* A group that names a program the file does not have is refused, and then nothing changes.
ASSUME UnknownProgramRefused ==
    \A main \in Mains :
        LET r == Result(Files(main), <<"as it was">>)
        IN  /\ r.ok <=> /\ 3 \in Named(main, {Read!GroupType}) => {1, 2} \subseteq Named(main, {"program"})
                        /\ 4 \in Named(main, {Read!GroupType}) => 2 \in Named(main, {"program"})
            /\ ~r.ok => r.groups = <<"as it was">>

\* A program that two groups name runs as the user its section gives in the first of them, and
\* as the daemon's in the other.
ASSUME UserTakenOnce ==
    LET main == <<Section(Read!GroupType, 3, [programs |-> <<1>>]),
                  Section(Read!GroupType, 4, [programs |-> <<1>>]), Section("program", 1, [user |-> 5])>>
        groups == Result(Files(main), <<>>).groups
    IN  [i \in 1..2 |-> groups[i].procs[1].opts["user"]] = << <<5>>, <<>> >>

\* A main file that is read once more is found unchanged; each edit of it is found.
ASSUME EditsAreFound ==
    \A now \in {main \in Mains : Result(Files(main), <<>>).ok} : \A then \in {now, SubSeq(now, 2, Len(now))} :
        LET new == Result(Files(now), <<>>).groups
            old == Result(Files(then), <<>>).groups
        IN  \A i \in DOMAIN new, j \in DOMAIN old : new[i].name = old[j].name =>
              (Read!Unchanged(new[i], Read!after_setuid(old[j])) <=> new[i] = old[j])

-----------------------------------------------------------------------------
(* Domains and what their default section hands down.                      *)

Booleans == {"true", "false"}
DefaultDomains ==
    {Section("domain", Read!Default, [command |-> "DomainManager", DMD_FILE |-> "dmd"] @@ o @@ e) :
        o \in Some({"stopasgroup", "killasgroup", "failafterwait"}, Booleans),
        e \in Some({"enable"}, {"true", "NAME=x", "here"}) }
Domains == {Section("domain", 7, [DOMAIN_NAME |-> 8, conditional_config |-> "conf"] @@ o @@ e) :
        o \in Some({"stopasgroup", "failafterwait"}, Booleans),
        e \in Some({"enable"}, {"false", "NAME=x"})}
Value(s, default, o, std) ==
    IF o \in DOMAIN s.opts THEN s.opts[o] ELSE IF o \in DOMAIN default.opts THEN default.opts[o] ELSE std
ReadDomain(default, s) ==
    Result([Files(<<>>) EXCEPT !["domain"] = <<default, s>>], <<>>)

\* A domain has what its section says, or else what the default section says, with three
\* exceptions: a condition with "=" that the default section hands down never holds, a domain
\* says "failafterwait" whatever value it gives it, and one that is to be stopped as a group
\* is refused unless the default section has it killed as one.
ASSUME DefaultsHandedDown ==
    \A default \in DefaultDomains, s \in Domains :
        LET r == ReadDomain(default, s)
            p == r.groups[1].procs[1]
            enable == Value(s, default, "enable", "true")
            stops == Value(default, default, "stopasgroup", "false")
        IN  /\ r.ok <=> LET kills == Value(default, default, "killasgroup", stops)
                        IN  /\ stops = "true" => kills = "true"
                            /\ Value(s, default, "stopasgroup", "false") = "true" => kills = "true"
            /\ r.ok =>
                 /\ Len(r.groups) = 1 /\ r.groups[1].name = 8
                 /\ Read!is_enabled(p, {"NAME=x", "here"})
                       <=> enable \in {"true", "here"} \/ s.opts = [enable |-> "NAME=x"] @@ s.opts
                 /\ p.opts["failafterwait"] # <<"false">>
                       <=> "failafterwait" \in DOMAIN s.opts
                           \/ Value(s, default, "failafterwait", "false") = "true"

\* A default section that restarts its programs has every other section refused; the files
\* that were read before the one that cannot be are kept.
ASSUME PartlyRead ==
    LET refusing == Section("node", Read!Default, [autorestart |-> "true"])
        node == Section("node", 9, [DOMAIN_NAME |-> 8, command |-> "x", NODE_NAME |-> "n"])
        domain == Section("domain", 7, [DOMAIN_NAME |-> 8, command |-> "x", DMD_FILE |-> "dmd"])
        files == [Files(<<Section("program", 1, [priority |-> 2])>>) EXCEPT
                    !["domain"] = @ \o <<domain>>, !["node"] = <<refusing, node>>]
        r == Result(files, <<>>)
    IN  /\ ~r.ok /\ {r.groups[i].name : i \in DOMAIN r.groups} = {1, 8}
        /\ LET good == Result([files EXCEPT !["node"] = NoDefaults("node") \o <<node>>], <<>>)
           IN  good.ok /\ Processes(good.groups) = {1, 7, 9} /\ Len(good.groups) = 2

\* A domain is found changed although its files are the same, unless they choose the directory
\* of its logs; a change of its command or its DMD_FILE is not found.
ASSUME RedhawkComparison ==
    \A directory \in Some({"logfile_directory"}, {"logs"}), o \in Some({"redirect_stderr"}, Booleans),
       command \in {"x", "y"} :
        LET G(c) == ReadDomain(Section("domain", Read!Default, directory),
                      Section("domain", 7, [DOMAIN_NAME |-> 8, command |-> c, DMD_FILE |-> "dmd"] @@ o)).groups[1]
        IN  Read!Unchanged(G("x"), Read!after_setuid(G(command)))
            <=> "logfile_directory" \in DOMAIN directory

-----------------------------------------------------------------------------
(* The daemon's servers.                                                   *)

Servers == Parts(<<Section("unix_http_server", 1, [file |-> "second"]),
                   Section("inet_http_server", 0, [port |-> 9001]),
                   Section("unix_http_server", 0, [file |-> "main", username |-> "u", password |-> "p"])>>)

\* Programs are told of a server the clients reach, at the place the file of the user gives; an
\* inet socket only if there is no other.
ASSUME ServersRead ==
    \A sections \in Servers, custom \in Some({"file", "username"}, {"mine"}) :
        LET servers == Read!customized(Read!server_configs(sections), custom)
            url == Read!serverurl(servers)
        IN  /\ Read!ServersReadable(sections)
            /\ url = <<>> <=> sections = <<>>
            /\ url # <<>> => /\ url[1] \in ToSet(servers)
                             /\ url[1].type = "inet_http_server" => Len(servers) = 1
            /\ \A s \in ToSet(servers) : "username" \in DOMAIN s.opts =>
                  s.opts.password = "p" /\ ("username" \in DOMAIN custom => s.opts.username = "mine")

\* The socket of a FastCGI group belongs to somebody else than the daemon only if its programs do.
ASSUME SocketsRead ==
    \A o \in [{"user"} -> {0, 5}], g \in Some({"group"}, {6}), m \in Some({"socket_mode"}, {770}),
       unix \in BOOLEAN :
        LET opts == o @@ g @@ m
            socket == Read!SocketOf(opts, [unix |-> unix, absolute |-> TRUE, url |-> "here"], 0)
        IN  /\ socket.owner # <<>> <=> unix /\ opts.user # 0
            /\ socket.owner # <<>> => socket.owner[1] = [uid |-> 5, gid |-> IF g = <<>> THEN 5 ELSE 6]
            /\ Read!SocketAccepted(opts, [unix |-> unix, absolute |-> TRUE]) <=> unix \/ m = <<>>
=============================================================================
