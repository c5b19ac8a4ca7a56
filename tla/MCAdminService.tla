--------------------------- MODULE MCAdminService ---------------------------
(* Values of AdminService's constants for TLC. What the configuration file *)
(* says is read from its sections as Configuration has it.                 *)
EXTENDS AdminService, ConfigurationCases

Program(enabled, autostart, autorestart) ==
    [enabled |-> enabled, autostart |-> autostart, autorestart |-> autorestart]
Listing(members, version) == [members |-> members, version |-> version]

\* A disabled program that others start by force, in a group that comes and goes, and one whose
\* group gets other options while it may be running.
MCPrograms == 1..2
MCGroupOf == <<1, 2>>
MCConfig == <<Program(FALSE, FALSE, "never"), Program(TRUE, TRUE, "unexpected")>>
MCInis == {<<Listing({1}, 1), Listing({2}, 2)>>, <<NoConfig, Listing({2}, 3)>>}

First == Section("program", 1, [enable |-> "false", autostart |-> "false", priority |-> 1])
Second(priority) == Section("program", 2, [autorestart |-> "unexpected", priority |-> priority])
MCFiles == {Files(<<First, Second(2)>>), Files(<<Second(3)>>)}

-----------------------------------------------------------------------------
(* This is what is read of the files.                                      *)

GroupRead(files, g) == SelectSeq(Result(files, <<>>).groups, LAMBDA h : h.name = g)
Listed(files) ==
    [g \in 1..2 |-> IF GroupRead(files, g) = <<>> THEN NoConfig
                    ELSE LET h == GroupRead(files, g)[1] IN Listing(Read!ProcessNames(h), h.priority)]

Restarts == [false |-> "never", unexpected |-> "unexpected", true |-> "always"]
ReadAs(files, config) ==
    \A i \in 1..2 : \A p \in UNION {ToSet(g.procs) : g \in ToSet(GroupRead(files, i))} :
        config[p.name] = Program(Read!is_enabled(p, {}), p.opts["autostart"] = <<"true">>,
                                 Restarts[p.opts["autorestart"][1]])
ASSUME FilesRead ==
    /\ MCInis = {Listed(files) : files \in MCFiles}
    /\ \A files \in MCFiles : ReadAs(files, MCConfig)

\* The daemon finds a group changed exactly if what is listed of it differs; the numbers of the
\* groups are in the order of their priorities.
ASSUME ComparedRight ==
    \A now, then \in MCFiles, g \in 1..2 :
        (GroupRead(now, g) # <<>> /\ GroupRead(then, g) # <<>>) =>
            (Read!Unchanged(GroupRead(now, g)[1], Read!after_setuid(GroupRead(then, g)[1]))
             <=> Listed(now)[g] = Listed(then)[g])
ASSUME InPriorityOrder ==
    \A files \in MCFiles :
        LET r == Result(files, <<>>)
        IN  r.ok /\ Read!Sorted(r.groups, LAMBDA g, h : g.name < h.name) = r.groups
=============================================================================
