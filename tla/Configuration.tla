--------------------------- MODULE Configuration ---------------------------
(***************************************************************************)
(* What the daemon makes of its configuration files (options.py): process  *)
(* and group configurations from the sections, with what a section named   *)
(* "default" hands down to those behind it, and the comparison that tells  *)
(* a changed group from an unchanged one.                                  *)
(*                                                                         *)
(* A section is a record of its type, its name and the options it gives;   *)
(* valid says that each value is one its conversion accepts.  Names are    *)
(* numbers in the order in which they sort.  The value of an option in a   *)
(* configuration is a sequence: empty for None, else the value, followed   *)
(* by a remark where it is not the value its conversion makes.             *)
(***************************************************************************)
EXTENDS Integers, Sequences, FiniteSets
LOCAL INSTANCE SequencesExt

CONSTANT Assignments       \* those conditions for "enable" that have a "=" in them

None == <<>>
Automatic == <<"auto">>

Default == 0               \* the name "default"

RedhawkTypes == {"domain", "node", "waveform"}
GroupType == "group"
HomogeneousTypes == {"program", "eventlistener", "fcgi-program"}

-----------------------------------------------------------------------------
(* The options of a process and where their values come from.              *)

Scripts == {"start_pre_script", "start_post_script", "stop_pre_script", "stop_post_script",
            "started_status_script", "status_script", "query_script", "start_cmd_option",
            "status_cmd_option", "stop_cmd_option"}
Limits == {"ulimit", "nicelevel", "affinity", "corefiles"}

\* The values of options that neither the section nor a default section gives.
Given == [priority |-> <<999>>, autostart |-> <<"true">>, autorestart |-> <<"false">>,
          startsecs |-> <<1>>, startretries |-> <<3>>, stopsignal |-> <<"TERM">>,
          stopwaitsecs |-> <<10>>, stopasgroup |-> <<"false">>, exitcodes |-> <<{0, 2}>>,
          run_detached |-> <<"false">>, waitforprevious |-> <<1>>,
          failafterwait |-> <<"false">>, redirect_stderr |-> <<"false">>,
          enable |-> <<"true">>]

\* Options that a default section hands down, and others.
Inherited == DOMAIN Given \cup Scripts \cup Limits \cup
    {"killasgroup", "conditional_config", "serverurl", "directory", "umask",
     "logfile_directory", "user", "group"}
Own == {"pid_file", "environment", "stdout_logfile", "stderr_logfile",
        "stdout_capture_maxbytes", "stderr_capture_maxbytes"}

\* What a default section hands down in the course of setValues() only.
Required(class) ==
    {"command"} \cup
    IF class = "domain" THEN {"DOMAIN_NAME", "DMD_FILE"}
    ELSE IF class = "node" THEN {"DOMAIN_NAME"}
    ELSE IF class = "waveform" THEN {"DOMAIN_NAME", "WAVEFORM"} ELSE {}
Optional(class) ==
    IF class = "node" THEN {"NODE_NAME", "DCD_FILE"}
    ELSE IF class = "waveform" THEN {"INSTANCE_NAME"} ELSE {}

Options(class) == Inherited \cup Own \cup Required(class) \cup Optional(class)

\* The value a default section hands down is written out and converted once more.
Again(o, value) ==
    IF o = "enable" /\ value[1] \notin {"true", "false"} THEN Append(value, "converted again")
    ELSE IF o = "failafterwait" THEN <<value[1]>>
    ELSE value

\* The class of the restart is written out as a name that auto_restart() refuses.
RefusedDefault(default) == default.opts["autorestart"] # <<"false">>

gid_for_uid(uid) == uid

\* The values processes_from_section() finds. default is the default section's process, in a
\* sequence that is empty if there is none; childlogdir is the option of the daemon.
Value(s, class, default, childlogdir, o) ==
    LET own(opt) == opt \in DOMAIN s.opts
        hands(opt) == /\ default # <<>> /\ opt \in DOMAIN default[1].opts \ Own
                      /\ s.name = Default => opt \notin Required(class)
        value(opt, std) == IF own(opt) THEN <<s.opts[opt]>>
                           ELSE IF hands(opt) THEN Again(opt, default[1].opts[opt])
                           ELSE std
        redirects == value("redirect_stderr", Given.redirect_stderr) = <<"true">>
    IN  CASE o = "killasgroup" ->
               value(o, value("stopasgroup", Given.stopasgroup))
          [] o = "group" ->
               IF value(o, None) # None THEN value(o, None)
               ELSE LET uid == value("user", None)
                    IN  IF uid = None THEN None ELSE <<gid_for_uid(uid[1])>>
          [] o = "logfile_directory" ->
               value(o, IF class = "program" THEN <<childlogdir>> ELSE None)
          [] o = "stdout_logfile" -> value(o, Automatic)
          [] o = "stderr_logfile" -> IF redirects THEN None ELSE value(o, Automatic)
          \* setValues() puts back what the file says
          [] o = "failafterwait" /\ class \in RedhawkTypes /\ own(o) ->
               <<s.opts[o], "not converted">>
          [] OTHER -> value(o, IF o \in DOMAIN Given THEN Given[o] ELSE None)

Gives(s, class, default, childlogdir) ==
    [o \in Options(class) |-> Value(s, class, default, childlogdir, o)]

\* What makes processes_from_section() raise ValueError.
Accepted(s, class, default, childlogdir) ==
    LET v == Gives(s, class, default, childlogdir)
    IN  /\ s.valid
        /\ ~(v.stopasgroup = <<"true">> /\ v.killasgroup = <<"false">>)
        /\ default # <<>> /\ "autorestart" \notin DOMAIN s.opts => ~RefusedDefault(default[1])
        /\ (class \in RedhawkTypes /\ s.name # Default) =>
             /\ \A o \in Required(class) : v[o] # None
             /\ class = "node" => v.NODE_NAME # None \/ v.DCD_FILE # None

\* The pid file, where a class chooses it itself, and the directory a waveform logs to.
Settled(s, class, v) ==
    IF s.name = Default \/ class \notin RedhawkTypes THEN v
    ELSE [v EXCEPT
            !["pid_file"] = <<class, v.DOMAIN_NAME[1],
                              IF class = "domain" THEN "" ELSE IF class = "node" THEN s.name
                              ELSE <<v.WAVEFORM, v.INSTANCE_NAME>> >>,
            !["logfile_directory"] = IF class = "waveform" /\ @ = None THEN <<"waveforms">> ELSE @]

ProcessOf(s, class, default, childlogdir) ==
    [class |-> class, name |-> s.name,
     opts |-> Settled(s, class, Gives(s, class, default, childlogdir))]

\* is_enabled(): conditions are lines of the file conditional_config.
is_enabled(p, conditions) ==
    LET enable == p.opts["enable"]
    IN  \/ enable = <<"true">>
        \/ /\ enable[1] \notin {"true", "false"} /\ p.opts["conditional_config"] # None
           /\ enable[1] \in conditions
           \* the escapes around a "=" are escaped the second time
           /\ Len(enable) > 1 => enable[1] \notin Assignments

-----------------------------------------------------------------------------
(* Sockets: of FastCGI groups, and of the daemon's own servers.            *)

\* parse_fcgi_socket(), and what is refused of it. uid is the daemon's.
SocketAccepted(opts, path) ==
    IF path.unix THEN path.absolute
    ELSE DOMAIN opts \cap {"socket_owner", "socket_mode"} = {}

SocketOf(opts, path, uid) ==
    IF ~path.unix THEN [url |-> path.url, owner |-> None, mode |-> None]
    ELSE [url |-> path.url,
          owner |-> IF "socket_owner" \in DOMAIN opts THEN <<opts.socket_owner>>
                    ELSE IF "user" \in DOMAIN opts /\ opts.user # uid
                    THEN <<[uid |-> opts.user, gid |-> IF "group" \in DOMAIN opts THEN opts.group
                                                       ELSE gid_for_uid(opts.user)]>>
                    ELSE None,
          mode |-> <<IF "socket_mode" \in DOMAIN opts THEN opts.socket_mode ELSE 700>>]

ServerTypes == <<"inet_http_server", "unix_http_server">>
Authentication == {"username", "password"}
Place(type) == IF type = "inet_http_server" THEN "port" ELSE "file"

ServersReadable(sections) ==
    \A s \in ToSet(sections) : s.type \in ToSet(ServerTypes) =>
        /\ s.valid /\ Place(s.type) \in DOMAIN s.opts
        /\ Authentication \cap DOMAIN s.opts \in {{}, Authentication}

\* server_configs_from_parser(): those of inet sockets come first.
server_configs(sections) ==
    SelectSeq(sections, LAMBDA s : s.type = ServerTypes[1])
    \o SelectSeq(sections, LAMBDA s : s.type = ServerTypes[2])

\* read_custom_config(): the file of the user may say otherwise for the unix server that has no
\* name of its own, which is number 0 here.
customized(servers, custom) ==
    LET Main(i) == servers[i].type = ServerTypes[2] /\ servers[i].name = 0
        given == [o \in DOMAIN custom \cap ({"file"} \cup Authentication) |-> custom[o]]
        Over(opts) == [o \in DOMAIN opts \cup DOMAIN given |->
                          IF o \in DOMAIN given THEN given[o] ELSE opts[o]]
    IN  [i \in DOMAIN servers |-> IF Main(i) /\ \A j \in 1..i - 1 : ~Main(j)
                                  THEN [servers[i] EXCEPT !.opts = Over(@)] ELSE servers[i]]

\* realize(): the server that programs are told of.
serverurl(servers) ==
    LET Of(type) == SelectSeq(servers, LAMBDA s : s.type = type)
    IN  IF Of(ServerTypes[2]) # <<>> THEN <<Of(ServerTypes[2])[1]>>
        ELSE IF Of(ServerTypes[1]) # <<>> THEN <<Of(ServerTypes[1])[1]>>
        ELSE None

-----------------------------------------------------------------------------
(* Groups.                                                                 *)

Before(a, b) == a.priority < b.priority \/ (a.priority = b.priority /\ a.name < b.name)
Earlier(p, q) ==
    \/ p.opts["priority"][1] < q.opts["priority"][1]
    \/ p.opts["priority"] = q.opts["priority"] /\ p.name < q.name

\* list.sort() keeps the order of equals.
Sorted(seq, Less(_, _)) ==
    LET Rank(i) == Cardinality({j \in DOMAIN seq : Less(seq[j], seq[i])
                                                    \/ (~Less(seq[i], seq[j]) /\ j < i)}) + 1
    IN  [k \in DOMAIN seq |-> seq[CHOOSE i \in DOMAIN seq : Rank(i) = k]]

Group(s, std, procs) ==
    [type |-> IF s.type = "program" THEN GroupType ELSE s.type, name |-> s.name,
     priority |-> IF "priority" \in DOMAIN s.opts THEN s.opts.priority ELSE std,
     enable |-> <<IF "enable" \in DOMAIN s.opts THEN s.opts.enable ELSE "true">>,
     procs |-> procs,
     extra |-> [o \in DOMAIN s.opts \cap {"buffer_size", "events", "result_handler", "socket"} |-> s.opts[o]]]

Without(opts, names) == [o \in DOMAIN opts \ names |-> opts[o]]

MemberSections(sections, s) ==     \* the sections the group section s names, in its order
    [i \in 1..Len(s.opts.programs) |->
        CHOOSE t \in ToSet(sections) : t.type = "program" /\ t.name = s.opts.programs[i]]

homogeneous_exclude(sections) ==
    UNION {{t \in ToSet(sections) : t.type = "program" /\ t.name \in ToSet(s.opts.programs)} :
           s \in {s \in ToSet(sections) : s.type = GroupType}}

\* The process of the last default section among the first i.
Defaults(sections, class, childlogdir) ==
    LET default[i \in 0..Len(sections)] ==
          IF i = 0 THEN <<>>
          ELSE LET s == sections[i]
               IN  IF s.type \in RedhawkTypes /\ s.name = Default
                   THEN <<ProcessOf(s, class, default[i - 1], childlogdir)>>
                   ELSE default[i - 1]
    IN  default

\* What makes process_groups_from_parser() raise.
Readable(sections, class, childlogdir) ==
    LET default == Defaults(sections, class, childlogdir)
    IN  \A i \in 1..Len(sections) :
          LET s == sections[i]
          IN  CASE s.type = GroupType ->
                     /\ s.valid
                     /\ \A j \in 1..Len(s.opts.programs) :
                          \E t \in ToSet(sections) : t.type = "program" /\ t.name = s.opts.programs[j]
                [] s.type = "program" -> Accepted(s, "program", <<>>, childlogdir)
                [] s.type = "eventlistener" ->
                     /\ Accepted(s, "program", <<>>, childlogdir)
                     /\ "events" \in DOMAIN s.opts /\ s.opts.events # {}
                     /\ "buffer_size" \in DOMAIN s.opts => s.opts.buffer_size >= 1
                     /\ "redirect_stderr" \in DOMAIN s.opts => s.opts.redirect_stderr = "false"
                [] s.type = "fcgi-program" ->
                     /\ Accepted(s, "program", <<>>, childlogdir)
                     /\ "socket" \in DOMAIN s.opts /\ SocketAccepted(s.opts, s.opts.socket)
                [] s.type \in RedhawkTypes ->
                     /\ class \in RedhawkTypes
                     /\ s.name = Default \/ default[i - 1] # <<>>
                     /\ Accepted(s, class, default[i - 1], childlogdir)
                [] OTHER -> TRUE                       \* a section the daemon knows otherwise

\* The groups of the redhawk sections, one for each domain, with what the first one says.
DomainGroups(sections, class, childlogdir) ==
    LET default == Defaults(sections, class, childlogdir)
        proc(i) == ProcessOf(sections[i], class, default[i - 1], childlogdir)
        Of(name) == SelectSeq([i \in 1..Len(sections) |-> i],
                              LAMBDA i : /\ sections[i].type \in RedhawkTypes /\ sections[i].name # Default
                                         /\ proc(i).opts["DOMAIN_NAME"][1] = name)
        Domain(name) ==
            LET first == proc(Of(name)[1])
            IN  [type |-> GroupType, name |-> name, priority |-> first.opts["priority"][1],
                 enable |-> first.opts["enable"], extra |-> [o \in {} |-> o],
                 procs |-> [k \in 1..Len(Of(name)) |-> proc(Of(name)[k])]]
    IN  {Domain(proc(i).opts["DOMAIN_NAME"][1]) :
            i \in {i \in 1..Len(sections) : sections[i].type \in RedhawkTypes /\ sections[i].name # Default}}

process_groups_from_parser(sections, class, childlogdir) ==
    LET Plain(s) == ProcessOf(s, "program", <<>>, childlogdir)
        Named(T) == SelectSeq(sections, LAMBDA s : s.type \in T /\ s \notin homogeneous_exclude(sections))
        named(i) == Named({GroupType})[i].opts.programs
        \* the options "user" and "group" leave the section when it is read
        Taken(i, j) == \E k \in 1..i : \E l \in DOMAIN named(k) :
                          (k < i \/ l < j) /\ named(k)[l] = named(i)[j]
        Member(i, j) ==
            LET t == MemberSections(sections, Named({GroupType})[i])[j]
            IN  IF Taken(i, j) THEN Plain([t EXCEPT !.opts = Without(@, {"user", "group"})]) ELSE Plain(t)
        heterogeneous == [i \in 1..Len(Named({GroupType})) |->
            Group(Named({GroupType})[i], 999, [j \in DOMAIN named(i) |-> Member(i, j)])]
        homogeneous(T, std) == [i \in 1..Len(Named(T)) |-> Group(Named(T)[i], std, <<Plain(Named(T)[i])>>)]
    IN  Sorted(heterogeneous \o homogeneous({"program"}, 999)
               \o SetToSeq(DomainGroups(sections, class, childlogdir))
               \o homogeneous({"eventlistener"}, -1) \o homogeneous({"fcgi-program"}, 999), Before)

\* Groups of the same name become one, with the options of the first.
Merged(groups) ==
    LET Alike(i) == SelectSeq(groups, LAMBDA h : h.name = groups[i].name)
        All(i) == FoldLeft(LAMBDA procs, h : procs \o h.procs, <<>>, Alike(i))
        firsts == SelectSeq([i \in 1..Len(groups) |-> i],
                            LAMBDA i : \A j \in 1..i - 1 : groups[j].name # groups[i].name)
    IN  Sorted([k \in 1..Len(firsts) |->
                   IF Len(Alike(firsts[k])) = 1 THEN groups[firsts[k]]
                   ELSE [groups[firsts[k]] EXCEPT !.procs = Sorted(All(firsts[k]), Earlier)]], Before)

read_config(sections, childlogdir) ==
    Readable(sections, "main", childlogdir) /\ ServersReadable(sections)

\* process_config(): the groups there are now and whether all files could be read; files has a
\* sequence of sections for each kind of them. A main file that cannot be read changes nothing.
process_config(files, old, childlogdir) ==
    LET Of(kind) == process_groups_from_parser(files[kind], kind, childlogdir)
        Good(kind) == Readable(files[kind], kind, childlogdir) /\ files[kind] # <<>>
        main == Of("main")
    IN  IF ~read_config(files["main"], childlogdir) THEN [ok |-> FALSE, groups |-> old]
        ELSE IF ~Good("domain") THEN [ok |-> FALSE, groups |-> main]
        ELSE IF ~Good("node") THEN [ok |-> FALSE, groups |-> main \o Of("domain")]
        ELSE IF ~Good("waveform")
        THEN [ok |-> FALSE, groups |-> main \o Of("domain") \o Of("node")]
        ELSE [ok |-> TRUE, groups |-> Merged(main \o Of("domain") \o Of("node") \o Of("waveform"))]

-----------------------------------------------------------------------------
(* Groups that become active, and the comparison with these.               *)

\* create_autochildlogs(): the files that are chosen for a program's output.
create_autochildlogs(p) ==
    LET redirects == p.opts["redirect_stderr"] = <<"true">>
        Chosen(channel) == <<channel, p.name>>
        Named(o, channel) == IF p.opts[o] = Automatic THEN Chosen(channel) ELSE p.opts[o]
    IN  IF p.class \notin RedhawkTypes
        THEN [p EXCEPT !.opts["stdout_logfile"] = Named("stdout_logfile", "stdout"),
                       !.opts["stderr_logfile"] = Named("stderr_logfile", "stderr")]
        ELSE [p EXCEPT !.opts["stdout_logfile"] = IF redirects THEN None ELSE Chosen("stdout"),
                       !.opts["stderr_logfile"] = IF redirects THEN None ELSE Chosen("stderr"),
                       !.opts["logfile_directory"] = IF @ = None THEN <<p.class, "directory">> ELSE @]

after_setuid(g) == [g EXCEPT !.procs = [i \in DOMAIN g.procs |-> create_autochildlogs(g.procs[i])]]

\* ProcessConfig.__eq__(): the options of redhawk's commands are not among those compared.
SameProcess(p, q) ==
    /\ p.class = q.class /\ p.name = q.name
    /\ \A o \in Options(p.class) \ (IF p.class \in RedhawkTypes THEN Required(p.class) ELSE {}) :
          \/ o \in {"stdout_logfile", "stderr_logfile"} /\ Automatic \in {p.opts[o], q.opts[o]}
          \/ p.opts[o] = q.opts[o]

\* The comparison of diff_to_active().
Unchanged(new, active) ==
    /\ new.type = active.type /\ new.priority = active.priority /\ new.extra = active.extra
    /\ new.enable = active.enable
    /\ Len(new.procs) = Len(active.procs)
    /\ \A i \in DOMAIN new.procs : SameProcess(new.procs[i], active.procs[i])

\* The names of its members: one that is there twice is kept once.
ProcessNames(g) == {g.procs[i].name : i \in DOMAIN g.procs}
=============================================================================
