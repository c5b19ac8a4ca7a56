# adminservice: specifications and proofs

adminserviced is the process supervisor of REDHAWK (a Python 2 descendant of Supervisor):
a single-threaded daemon that starts programs as child processes, watches them, restarts
them, stops them on request or when it goes itself, and answers XML-RPC calls of clients
while it does. This directory holds TLA+ modules of it, the configurations with which TLC
checks them, and proofs about them that TLAPS checks. `PROJECT.json` names the lines of
`src/` each definition stands for, the runs, the mutants that show that each property can
fail, the findings, and the hazards the properties are for.

To check a run: `tlc -config <run>.cfg <module>.tla`. To check the proofs: `tlapm <module>.tla` for each of the
eight modules that end in `_proofs`.

## Inventory

| component | source | state | operations |
| --- | --- | --- | --- |
| process object | `process.py` `Subprocess` | `state`, `pid`, `killing`, `backoff`, `delay`, `laststart`, `administrative_stop`, `system_stop`, `exitstatus`, `spawnerr` | `spawn`, `stop`, `kill`, `signal`, `finish`, `give_up`, `transition` |
| detached program | `process.py`, `options.py` | pid file; a child that launches and watches | `_spawn_as_child`, `daemonize`, `check_status`, `get_pid`, the detached branches of the methods above |
| process group | `process.py` `ProcessGroup` | its processes, their `waits_left` | `transition`, `stop_all`, `get_unstopped_processes` |
| event listener pool | `process.py` `EventListenerPool` | `event_buffer`; `listener_state` and `event` of each process | `_acceptEvent`, `transition`, `dispatch`, `handle_rejected` |
| listener protocol | `dispatchers.py` `PEventListenerDispatcher` | `state_buffer`, `result`, `resultlen` | `handle_read_event`, `handle_listener_state_change`, `handle_result` |
| events | `events.py` | `callbacks` | `subscribe`, `unsubscribe`, `notify` |
| main loop | `adminserviced.py` `AdminService` | `mood`, `stopping`, `stop_groups`, `process_groups`, `ticks`, `pidhistory` | `runforever`, `reap`, `handle_signal`, `tick`, the two shutdown phases, `add_process_group`, `remove_process_group` |
| XML-RPC interface | `rpcinterface.py` | none of its own; closures that wait | `startProcess`, `stopProcess`, `signalProcess`, their group and all forms, `reloadConfig`, `addProcessGroup`, `removeProcessGroup`, `updateProcessGroup`, `shutdown`, `restart`, queries, log reading |
| deferred responses | `http.py`, `xmlrpc.py` | producers that poll a closure | `multicall`, `continue_request`, `more`, `refill_buffer` |
| HTTP channel | `http.py`, `medusa/` | `ac_in_buffer`, terminator, `current_request`, queue of producers | `handle_read`, `found_terminator`, `collect_incoming_data`, `done`, `push_with_producer` |
| output capture | `dispatchers.py` `POutputDispatcher` | `output_buffer`, `capturemode`, `capturelog` | `record_output`, `toggle_capturemode`, `handle_read_event` |
| logs | `loggers.py`, `options.py`, `http.py` | the log and its backups; producers that follow it | `emit`, `doRollover`, `reopen`, `remove`, `readFile`, `tailFile`, `tail_f_producer.more` |
| configuration | `options.py`, `datatypes.py` | process and group configurations | reading sections, `default` sections, comparison, `is_enabled` |
| command line client | `rhadmin.py` | none that outlives a command | `update`, `start`, `stop`, `restart`, `add`, `remove`, `tail`, ... |
| sockets, poller, web pages, scripts | `socket_manager.py`, `poller.py`, `web.py`, `bin/`, `etc/` | | |

They meet in one thread. A turn of the main loop is: while the daemon is to go, stop the last
group and leave if nothing is unstopped; poll the descriptors and serve them (this is where
clients' calls and the output of programs are handled); `transition()` of every group;
`reap()`; `handle_signal()`; `tick()`. There are no locks and no threads, so a handler is
atomic with respect to other handlers; what interleaves with it are the children, the clock,
signals, and files that others write. What is hard to test is therefore the *order of
handlers*: a child may die between any two of them, a call may come in any state, a call that
takes several turns meets others, and an exception that leaves a handler in the loop ends the
daemon.

What makes each component right:

- process object: its `pid`, `state` and `pidhistory` agree with the process table; it
  never has two children; no assertion fails in the loop; an administrative stop is kept;
  stops and retries end;
- detached program: it is found again by every daemon, never started beside itself, and its
  death is noticed though it is nobody's child;
- group: members start in order, waits end, nobody is starved, a shutdown ends;
- pools: no event is lost or doubled, the protocol stays in step, nobody keeps an event;
- main loop: nothing starts during a shutdown, nothing is left behind, groups stop in order;
- deferred calls: each is answered once, with the state that was reached;
- group changes: no program is forgotten or started beside itself, and the set of groups
  becomes what the files say;
- output: the log has each byte once and in order, whatever cuts and rollovers there are,
  and so has the client that follows it;
- configuration: what is refused, inherited and compared is what the sections say.

## Modules

| module | what it is | used by |
| --- | --- | --- |
| `ProcessMethods` | the methods of `Subprocess` as functions from the object before to the object after | the next five |
| `ManagedProgram` | what the daemon promises of one program, without pids and states | `Subprocess` implements it, every member of `ProcessGroup` and every program of `DeferredCalls` its safety part |
| `Subprocess` | one foreground program, its child, the thread of the daemon, clients, a clock | `MCSubprocess` |
| `Subprocess_proofs` | its types and safety, and that it keeps the safety part of `ManagedProgram` | |
| `ProcessOutline` | the methods once more, of an object that is seen without its clock | `AdminService`, `DeferredCalls`, `DetachedProgram` |
| `ProcessMethods_proofs` | what each method does to the object's type, to its invariant and to its outline | the proofs of `Subprocess`, `ProcessGroup`, `AdminService`, `DeferredCalls` and `DetachedProgram` |
| `ProcessGroup`, `ProcessGroup_proofs` | the members of one group under the loop; theorems about them | `MCProcessGroup` |
| `AdminService`, `AdminService_proofs` | several groups: the loop, the ordered shutdown, restart, calls that change groups, `update`; theorems | `MCAdminService` |
| `DeferredCalls`, `DeferredCalls_proofs` | calls that take several turns, several clients, `multicall`; theorems | `MCDeferredCalls` |
| `DetachedProgram`, `DetachedProgram_proofs` | a program with `run_detached`, its pid file, over several daemons; theorems | `MCDetachedProgram` |
| `EventPools`, `EventPools_proofs` | pools, listeners, the protocol between them; theorems | `MCEventPools` |
| `RotatingLog`, `LogStreams`, `LogStreams_proofs` | output from the pipe over the dispatcher and the rotating log to a client that follows it; theorems | `MCLogStreams` |
| `LogReads` | the calls that read parts of a log, as functions | `MCLogStreams` |
| `HttpChannel`, `HttpCases` | a connection: framing of requests and answers, as functions; cases of it | `MCLogStreams` |
| `Configuration`, `ConfigurationCases` | from sections to groups, as functions; cases of it | `MCAdminService` |
| `ProcessQueries`, `RhadminCommands`, `ClientCases` | the calls that tell, and the commands of the client, as functions; cases of both | `MCDeferredCalls` |

The modules of functions (`Configuration`, `LogReads`, `HttpChannel`, `ProcessQueries`,
`RhadminCommands`) are checked over all inputs up to a bound by named assumptions, in the
`...Cases` modules and in `MCLogStreams`; TLC evaluates them before the run of the module that
extends them. `MCAdminService` takes more than that from `Configuration`: what its groups are is
read from sections (`FilesRead`), a group is found changed as `diff_to_active` finds it
(`ComparedRight`), and groups are numbered in the order in which they are sorted (`InPriorityOrder`).

### ProcessMethods and Subprocess

A process object is a record of the fields the methods read or write; a method is an operator
of the same name from that record to the next one (`raised` says that it ended in an
exception). A handler that calls several methods is their composition, so that one step is one
handler: `Transition` is the whole of `transition()` with the `spawn()`, `kill()` or
`give_up()` it comes to, `Reap` is `waitpid()` with `finish()` and the change of `pidhistory`.
`startProcess` calls `reap()` and `transition()` before it returns; as any number of children may be
reaped there, these are steps of their own (`start_reap`, `start_transition`), in which
the thread does nothing else.

Instants are kept relative to now: `age` is `now - laststart`, `left` is `delay - now`, both
saturated where no method can tell the difference. `pc` is the place of the thread. An exception in
a call is answered by the HTTP server and the loop goes on; one in `phase1`, `transition`
or `reap` ends the daemon (`pc = "crashed"`).

The child is `forked` until it has called `setpgrp()`, a `leader` afterwards, `killed` once a
SIGKILL was sent, a `zombie` until it is waited for. A child may die of anything at any time, with one
restriction: a tick stands for the time a child needs to come up and die, so a child forked in this
instant does not die before the clock moved (unless the clock may be set back). Without it
the age of the dying process would be 0 and `now > laststart` false, which real clocks do not show.

Left out: output, logging and `laststop` (`LogStreams` has the output); the listener's event in
`finish()` (`EventPools` has it); `run_detached=true` (`DetachedProgram` has it); the limit of
100 children per `reap()`.

### ProcessOutline

Where several programs and many calls meet, the clock of each would multiply the states for
nothing: a deadline may pass at any turn. An outline keeps the state of the object, whether it
was ever started, and the child behind its pid; each method maps it to the set of outlines it may
leave, one for each thing the clock may say. It uses the state sets and the decision to start of
`ProcessMethods`. Signals are delivered, and the clock runs forward.

### ProcessGroup

The members are numbered by priority. `transition()` of the group is modelled member by member:
`Wait` and `Pause` are its early returns, `Fail` the member that is given up with its `continue`, `Transition` a
member that has its turn; `last_state` is the local variable of that name. The thread does nothing else
between these steps. The pid of member k is k, since `Subprocess` shows that there is never another child
of it. Time passes while the thread is in `poll()`, which is where it sleeps.

### AdminService

`configured` is `options.process_group_configs`, `active` is `process_groups`, `procs` the process
objects of these. A turn goes over `pgroups`, the list made at its top: a group that a call removes or
replaces in between is `stale`, and its objects, which `transition()` is called on once more, are in
`dropped`. At the next turn only their children are left of them, in `pidhistory`. `StopLastGroup`
and `HandleSignal` are the two phases of the shutdown; a second signal may turn a shutdown into a
restart, and the other way round; `Restarted` is the loop of `main()`.

The client's `update` is one record: what it has left to remove, change and add, the group it is
at, the processes it waits for. Each call is a handler of its own (`UpdateStops` with `StopNext` and
`StopReaped` for each process, `GroupStopping`, `StopPolled`, `GroupRemoved`, `GroupReplaced`, `AddGroup`,
`Watch`, `Tidy`), so turns of the loop and calls of others come between. The client waits for each answer before it makes
the next call, so a turn of the loop serves it once (`served`). `only` is the groups it is for: those named on the line, or all. `GroupReplaced` is what the code does:
it takes the group out of `process_groups` at once and puts a new one there, whose objects are fresh. `Watch` is the
loop that asks for each program of the groups that were changed until it is not STARTING any more; that it sleeps two
seconds in between is left out, as turns of the loop may come in between anyway. `replaced` and `strays` are history variables: the programs whose
object was dropped by `updateProcessGroup`, and those an object started after its group had left.

Left out: the call of `getAllProcessInfo` by which `update` tells a wrong name on its line, which changes nothing;
the removal of a group by a second client at the same time; `tick()`, which only sends events;
`waitforprevious`, which `ProcessGroup` has; detached programs.

### DeferredCalls

A connection's request is a sequence of calls (`multicall`); `callback` is the function that is
called again whenever the connection may be written: one for a program, or one for all
(`startall`, `allfunc`) with the programs it has a result of and those it waits for. `Work` is the
thread inside a handler: it makes the next call, or calls the function again, one program after
the other. `Nap` and `SleepEnds` are `wait_transition()`, which sleeps in that handler and calls
`transition()` of the program before; nothing else is served meanwhile, though children die.
`Poll` is the connection being written, `Disconnect` the client that goes. `Postpone` is the function
that has no value yet. A call that would raise is answered with a fault, which counts as a result.

### DetachedProgram

`fork` is the child `spawn()` makes (`_spawn_as_child`), one step for each thing it does that
others can see: it looks for the program, removes the pid file, launches the program, waits
for the file, watches, removes the file, leaves. An instance of the program is born of a
shell that runs the pre-script, starts it, and only then writes the pid file. A daemon
that crashes leaves its fork, which goes on as `orphan`; the next daemon finds the program by
its file (`Found`). `told` is the handler of SIGTERM, which is lost before it is installed.
`check_status` is the one without a `status_script`. That the file is opened and written is one step,
and pids are not reused.

### EventPools

A pool has its `event_buffer`; a listener its `listener_state`, its `event` and its pipes. The texts a listener writes are
tokens that arrive whole; several may be read at once, and `Heard` handles all that was read as `handle_listener_state_change`
does by calling itself. `Conclude` is what the pools make of a rejection, for every pool, since each subscribed `handle_rejected`.
`Transition` is `transition()` of the pool with `dispatch()`. The life of a process is that of `Subprocess` as far as a pool can see it. The handlers of the
daemon may come in any order here, which includes the order of the loop. `fate` is a history variable. A pool is subscribed to
concrete event types; one that names a type and a supertype of it would be called twice by `notify`, which is left out, as is a
listener the daemon gave up because it could not be signalled.

### LogStreams and RotatingLog

The bytes of the output are numbered, so that an order or a loss shows; `script` says which of
them make up tokens. `output_buffer` is the bytes `done + 1 .. read`. `record_output()` calls itself
for what is behind a token: `RecordToken` is one such call, `RecordRest` the last. The log is a file system
of numbered files: the handler's stream, the file that has the log's name, and the backups; `emit` is a write with
the `doRollover()` that follows it. The client that follows the log (`tail_f_producer`) has a file open and an
offset in it; `Send` is `initiate_send()` of its channel, with what the buffer of the channel holds. `Clear`, `Reopen` and
`Unlink` are the calls, signals and scripts that meddle with the files. `RoomAssumption`: the file system always has room for another
file beside the backups, the one the handler writes to and the one a client follows.

### The modules of functions

`Configuration` maps the sections of all files to group configurations: the kinds of sections, what a
section named `default` hands down to those behind it, what is refused, which options of a Redhawk domain, node or
waveform come from where, and `__cmp__` of the groups and processes. Values are what the conversions of `datatypes.py`
accept or not, and which value they make where it differs from what was said. `LogReads` is
`readFile` and `tailFile` with the calls on them. `HttpChannel` is how the bytes of a connection become
requests and how producers become bytes, chunked or not, at once or deferred; bytes are strings, and a header is one
of them. `ProcessQueries` is the calls that tell and change nothing; `RhadminCommands` is each command
from its words to what the daemon is afterwards, what was told and the exit status.

## Runs

| run | shows | states |
| --- | --- | --- |
| `program` | nine properties of one program and that it implements `ManagedProgram`, for eight configurations (four combinations of `autostart`, `autorestart`, `startsecs`, `startretries`, each enabled or not) and a file that changes `enabled` any time | 51,514 |
| `group` | two members: one that fails, one that crashes in a loop in front of one that waits, in front of a disabled one, and in front of one with `waitforprevious` 0 | 80,106 |
| `event_pools` | two pools, a listener each, two events, a buffer of one event | 215,691 |
| `service` | two groups under `update` of all groups or of one, other clients, signals, restarts and deaths: a group that comes and goes, whose program is disabled and started by others, and one whose options change while its program may be running; liveness of updates and shutdowns; the cases of `Configuration` | 154,671 |
| `calls` | one client restarts all programs in a `multicall`, another stops and starts one of them or ends the daemon; the cases of the client | 136,137 |
| `streams` | captures that fit and that do not, output that is not captured, logs with no backup, one and two; the calls that read logs; the cases of the HTTP channel | 217,567 |
| `detached` | a program that always runs, a disabled one that ignores SIGTERM and a slow one that clients start, over shutdowns and one crash of the daemon | 430,408 |
| `clock_set_back` | *violated*: `DaemonSurvives` when the clock goes back | |
| `stop_as_group` | *violated*: `ExitLeavesNoChild` with `stopasgroup` | |
| `shared_priority` | *violated*: a pool gets only what it subscribed to | |
| `replaced_group` | *violated*: `NoneLeftBehind`, no child is left behind by a group that was replaced or removed | |
| `stop_during_start` | *violated*: a detached program that was stopped "fully" does not run | |

The violations are described under "findings" in `PROJECT.json`. The passing runs leave out the
conditions under which they occur: the clock runs forward, groups are not
signalled and signals are delivered, a `pid_file` is configured, no two pools share a priority; `NeverLost` excuses the instances
a stop could not reach (`missed`); `ChildrenAccounted` excuses the children of programs that `updateProcessGroup` dropped while they ran
(`replaced`), which `replaced_group` is about, and those a group started after it had left (`strays`), which break `NoneLeftBehind` as
well; `TailFaithful` lets a client lack bytes of a log without backups that was emptied in place. `CHECK_DEADLOCK FALSE` is
said where the daemon may leave, or the output and the clients may be at their end, after which nothing happens.

What the properties say, beyond the types:

- `program`: `PidTracksState`, `OneChild`, `DaemonSurvives`, `ExitLeavesNoChild`,
  `AdministrativeStopHolds`, `ShutdownStartsNothing`, `StopCompletes`, `RetriesEnd`, `ImplementsManagedProgram`.
- `group`: no member loses its child and the daemon leaves none (`NoChildLost`); behind a member that is starting, the loop starts
  another only when its wait is over, or it has none to make, and it does not fail instead (`StartsInOrder`); whatever the others make
  the group do to it, each member takes the steps of `ManagedProgram` (`MembersKeepPromise`); waits end, a shutdown
  completes. The types of the group, like those of the calls, are proved and no run checks them.
- `event_pools`: each event is in exactly one place or processed (`EveryEventInOnePlace`), goes only to
  those who subscribed, the daemon's idea of a listener agrees with the listener
  (`ProtocolInStep`), no listener keeps an event for ever (`NoHostage`).
- `service`: the shutdown tells no process to stop while one of a later group runs (`StopsInOrder`); every
  child has somebody who looks after it, but for those of `replaced` and `strays` (`ChildrenAccounted`); a finished `update` has made
  each group it was for what the files said (`UpdateConverges`); a shutdown ends (`ShutdownCompletes`), and so does an `update`, its wait for programs that are
  STARTING included (`UpdateEnds`). Two things keep an update, and the property excuses them: a client that starts a program the command waits for to
  stop, and a program that is started over and over, since the command may find it STARTING each time it asks.
- `calls`: `NoCallLost`, one result for each call and each program in one place; `StopAnswered`, no answer before the children it
  stopped are reaped; `ShutdownStartsNothing`, also by functions that wait from before; `StartAllInOrder`; `CallsEnd`.
- `streams`: `CaptureFaithful`, the dispatcher against a reference definition byte by byte, however reads cut the output;
  `FilesInOrder`, the log with its backups has each byte once and in order, and all since the oldest it has, unless a file was cleared or
  removed; `TailFaithful`, a client is sent no byte twice and none out of order, has no gap between bytes of a file it follows, and of a log with backups has
  all there was from where it began. A log without backups is emptied in place, and once it has grown to the size the client saw last, the bytes before
  that are never sent: the property says that this is all a client may lack. `OutputArrives`.
- `detached`: `NeverLost`, the pid file names the instance that lives; `Adopted`, a daemon finds it; `DeathSeen`.

### What the assumptions about functions say

- `ConfigurationCases`: every program is in a group of its own, or in those that name it, once each; a group with an unknown
  member is refused, and a main file that is refused leaves the groups as they were; a member in two
  groups has its user in the first only; an edit is found and a reading of the same is not;
  defaults are handed down as a reference definition says; HTTP servers and sockets. `PartlyRead` and `RedhawkComparison`
  state what the code does where one would expect another thing (see below).
- `MCLogStreams`: chunks of `readFile` put together are the file; a tail is the end of the file; what a client that polls misses
  or sees twice.
- `HttpCases`: requests are understood however their bytes are cut; what is behind a call that waits, and
  an empty body, are not (`BehindADeferredCall`, `EmptyBody`); producers give every byte once, chunked or not, at once or
  deferred, for every size of buffer and every answer of `send()`; the end of an answer can be told.
- `ClientCases`: names, lists and times of processes; `stop` reaches what was named, `restart` brings it back unless a
  name is unknown, `start` ends at it; looking changes nothing; a daemon that leaves refuses.

### Bounds

- `program`: `Pids = {1, 2}`, one more than a program ever has, so that a second child, or a pid that is used again, would show.
  `startsecs` of 0 and 2, `startretries` of 0 and 1, `stopwaitsecs` of 1: a child dies before, at and after
  each deadline, and a start fails for the last time and before it. `BackoffBound`: `backoff` is kept over a stop and a new start, so clients could
  raise it for ever; the model does not ask for a start beyond the bound, which is larger than every
  `startretries`. `MaxLeft`: how far a deadline moves when the clock is set back.
- `group`: `N = 2` members. `Forces`, `Exits`: the arguments of the calls and the exit statuses.
- `event_pools`: two events and a buffer of one: the second, or a rejected one, overflows it.
- `service`: `UpdateBound = 1`, an update at a time, in all the states other clients and signals bring about; a second one starts
  from a state the first may start from, up to the objects it forgot. `MayDrop` lets a group leave once in a turn and while no child of
  it that was forgotten lives, so that one set of forgotten objects is enough. Two groups of one program and two files, so that one group is added and
  removed and the other changed. `Lines = {{}, {1}}`: an update of all groups, and one that names the group that comes and goes and leaves the other as it is.
  `Asked = {1}`: other clients meddle with the program of the group that goes, which the update stops as they start it; the program of the group that changes
  is started by the loop while the update watches it. A group that loses one member and keeps another, which needs a third program and a million states, is left
  to the proofs, which are about any groups and files.
- `calls`: two clients with two calls each, two programs of which the second waits for the first, `WaitBound = 1` second of
  `wait_transition()`: a wait that is over at once, and one that is not.
- `streams`: `Mishaps = 1` removal or clearing; `OutBufferSize = 2` and `TailHead = 1`, less than a log; six inodes, more than the backups, the log,
  the stream, the client's file and a new one; tokens of two bytes with a common beginning, an output of eight. The log without backups is emptied at
  four bytes of seven, so that it may grow back beyond what the client saw.
- `detached`: `Launches = 2`, so that a second instance would show; `Crashes = 1`.

### Fairness

- `WF(Loop)`: the thread runs. `SF(EndDispatch)`, `SF(EndReads)`: a `poll()` reports finitely many descriptors, so serving them ends, although
  calls may be served in between in every turn.
- `WF(Tick(1))` in `Subprocess`, `SF(Tick)` in `ProcessGroup`, where time passes only in `poll()`: infinitely many turns take infinitely long, as each polls for up to a second or serves something.
- `WF` or `SF(killed /\ Dies)`: SIGKILL kills.
- `AdminService`: deadlines pass, so a `transition()` that comes again and again to a child that was told to stop kills
  it at last, and it dies (`KilledAtLast`); a program that `update` watches is found RUNNING if it is found STARTING often enough, as its `startsecs` pass unless it
  dies, which starts them anew (`StartOver`); the client of `update` goes on once it was answered. Nothing makes other clients
  be quiet: `UpdateEnds` excuses an update whose program another client starts again, which is what the code does.
- `DeferredCalls`: each connection that waits is written again and again (`SF(Poll(c))`), a program that is up long
  enough is RUNNING, deadlines pass. `CallsEnd` excuses that other clients call for ever.
- `LogStreams`: the loop serves the pipe and the connection again and again.
- `DetachedProgram`: the turns come back; forks and shells are scheduled, and a script ends. No fairness of clients, of
  deaths of programs or of a new boot.
- `EventPools`: the loop serves every readable pipe and reaps every dead child. That a listener with an event answers it is
  an assumption about listeners, not about the daemon, which has no timeout for it; `NoHostage` is only as good as that.

## What is proved

Every theorem holds for every value of the constants that the assumptions named in the modules allow: any sets of pids, programs, groups,
clients, listeners, events and files, any configurations and any sizes. Further hypotheses are said below; a theorem has them in its
statement. Each argument is by an inductive invariant `IInv` of its module; TLC evaluated those of the components on their runs before
they were proved.

### ProcessMethods_proofs

One lemma per method and fact: it keeps the type of the object; in a system that delivers signals it keeps the object
`Sane` and raises nothing its caller does not catch. `Sane` is what holds of an object between two methods. It has
to say in which state the age of an object allows it to be: an assertion in `finish()` does not fail because a process is RUNNING
only after `startsecs`, so one that died too quickly is STARTING.

`OutlinesAreSound`: each method does to the outline of the object what `ProcessOutline` says, for every clock, timer and outcome of a fork.
So what `AdminService` and `DeferredCalls` do with outlines is all that the methods, which `Subprocess` has with
their clock, can do.

### Subprocess_proofs

`TypeCorrect` has no hypothesis. The others are under `NoFaults` (no signal is refused, the clock runs forward, groups are not signalled, every
configuration has a `pid_file`; each of these is needed: two are the violated runs `clock_set_back` and
`stop_as_group`, without a `pid_file` a program that comes to be disabled raises in the loop (process.py:783), and a refused signal leads
where `stop_as_group` does, a child that runs on and is forgotten):
`PidTracksState`, `OneChild`, `DaemonSurvives`, `ExitLeavesNoChild`, `AdministrativeStopHolds` and `ShutdownStartsNothing`.
None of them is inductive. `IInv` is `TypeOK`, `Sane` of the object, the agreement of `pidhistory` and the process table
with `pid`, and that the thread has not crashed; `HandlerInv` lifts the lemma of a method to a handler. For the action properties
there is one more thing to know, which `TransitionForks` and `OthersForkNothing` say: who may fork.

`KeepsThePromise`: the specification implements the safety part of `ManagedProgram` under the mapping of the run. Initial states
map to initial states; each step is shown to be one of four shapes, a child stays, is forked, ends, or is reaped, and each shape is
a step of the abstract program or none.

### ProcessGroup_proofs

`TypeCorrect`, `NoChildLost` and `StartsInOrder`, for groups of every size. Every member is `Sane` between two handlers,
since the loop gives up and delays only members that are stopped; a stopped member that comes to its `transition()` behind one that is
starting has been through the two tests of the loop before it. The proof showed that an earlier form of `StartsInOrder`, that
the wait is over, was false: with `waitforprevious` 0 the counter is not looked at, whatever value an earlier configuration left in it. The property now
says so, and the run has such a group.

`MembersKeepPromise`: `ManagedProgram` once for each member (`Managed(k)`), under the mapping of `Subprocess`. A step is one of the four
shapes above for every member at once (`Stepped`): a handler of one leaves the others as they are, and `stop_all`, which is told to all of
them in one step, starts and ends none. The run checks the property as an action property, since TLC takes no quantified `Spec`.

### EventPools_proofs

`TypeOK` and `ProtocolInStep`, with `PInv`: not what the daemon knows of a listener is in step with the child, but what it will
know once it has read the pipe (`Heard`), and while it is told READY there is nothing left to read. `Heard` is a
recursive function over the tokens of the pipe; that hearing tokens one after the other is hearing them together is shown with a
least counterexample, from `NatLessThanWellFounded`, since theorems of induction take an operator.

`EveryEventInOnePlace` and `OnlySubscribed`, under `PrioritiesApart`: no two listeners of different pools share a priority. Without it
`OnlySubscribed` is false, which is the run `shared_priority`. `IInv` adds for each pool that no event is in the buffer twice or with two
listeners (`Once`), that those in one of these places are exactly the pending ones (`Where`), and that the pool knows of no event it did not subscribe to
(`Known`).

### AdminService_proofs

`TypeOK`, `ChildrenAccounted`, `StopsInOrder` and `UpdateConverges`. Once the daemon is to go nothing is started, no call changes the
groups (`Going`), and a group leaves `stop_groups` only when nothing in it is unstopped; so the groups behind the last of `stop_groups`
are stopped and stay so (`Order`). An object that left the daemon's care is stopped, unless `updateProcessGroup` dropped it or
the loop started it later (`DroppedStopped`). Those of its groups that are not yet as they are configured are what `update` has left to do (`Pending`).

### DeferredCalls_proofs

`TypeOK`, `NoCallLost`, `StopAnswered`, `ShutdownStartsNothing` and `StartAllInOrder`. While the thread is in the function of a client the
callback of that client says which, and each program is at one place of it: still to look at, waited for, or told (`Placed`). A child that was
told to stop stays STOPPING until it is reaped, and somebody waits for it (`VictimsWaited`).

`ProgramsKeepThePromise`: each program implements the safety part of `ManagedProgram` here, too, whatever clients ask for at the same time. Every step does to
a program one of the things an outline allows (`AllStep`), and each of these is a step of the abstract program or none (`Allowed`). No such theorem is stated of
`AdminService`, where it is false: `updateProcessGroup` puts a fresh object beside a child that runs on.

### DetachedProgram_proofs

`TypeOK`, and `NeverLost` in all its generality: any options, any number of launches, shutdowns and boots. The invariant is about the places of the
forks, the shells, the file and the instances together (`Care`): the file is written only while the fork waits for it, after the
fork removed it; others remove it only when it names no process, or the instance it names was stopped. `Care` is claimed only while
`Calm`, as `NeverLost` itself is: no daemon was killed, and the scripts were not slower than the fork waits.

### LogStreams_proofs

`TypeOK`, `FilesInOrder` and `TailFaithful`, for every program, number of backups, size of files and buffer of the client. The argument is
about generations of files: the one the handler writes to is the newest, whether or not it still has the log's name; the backups are older,
each than the one before it; a byte that is logged is newer than all others, so only the newest file may grow. `Rotating`
says that of the files, `Complete` which bytes they have between them, `Following` what the client has of them: the whole of them while there are backups (`Whole`), no gap in
the file it has open in any case (`Unbroken`). The assumption
`RoomAssumption` is that the system has another file to give.

`CaptureFaithful`, for every output, pair of tokens and `capture_maxbytes`. The reference `Capturing` goes from byte to byte; that there is such a
function, and what its values are, follows from a least byte at which there were none (`ReferenceExists`, `ReferenceIs`). The
invariant `CInv` names the byte `q` at which the last token ended: behind it stands no token that the dispatcher waits for, so that
the reference is steady from there (`Steady`); a token found at the first place there is one turns it (`TokenTurns`); what
`find_prefix_at_end` keeps back is the longest that may become a token (`PrefixIsLongest`); and the buffer of a capture is a stretch that ends where
the dispatcher is, from `q` on unless it is too long or was cleared (`Gathers`). It needs `TokensAssumption`: the byte a token begins with is nowhere
else in a token, and neither token begins with the other, as for the two of events.py:51, which have `<` in front only. With tokens such
as `ab` and `bc` it does not hold: in `abc`, the `b` that ended the first token would begin the second to the reference, which looks at all bytes
since the start, and not to the dispatcher, which drops a token it has found.

The calls that read parts of a log, for every file, offset and length (the run has these as assumptions about small files): a tail is the
end of the file, however the two conditions of `tailFile` move the offset (`TailIsTheEnd`), so a client that asks from the offset it was told of
misses nothing unless it is told of an overflow (`PollsMissNothing`); chunks of `readFile` put the file together again
(`ChunksMakeTheFile`), and a negative offset reads its last bytes (`LastBytesAreRead`).

### How the proofs are kept

A leaf that a prover finds only just in time is split: every module is proved from nothing with a quarter of the provers' time limits too,
so the proofs do not depend on a fast machine.

### What is only model-checked

- Liveness, which is out of the prover's reach, with the fairness it needs: `StopCompletes`, `RetriesEnd`, `ShutdownCompletes`, `WaitEnds`,
  `NoHostage`, `UpdateEnds`, `CallsEnd`, `OutputArrives`, `Adopted`, `DeathSeen`, and the fairness of `ManagedProgram`.
- The modules of functions other than `LogReads`, over bounded inputs; some of their operators are recursive.

## What the code does that one may not expect

Beside the findings, which disagree with a statement of the repository and have a violated run each, these were seen while modelling and are kept
in the models where they have the state for it. Where one of them sits badly with a text of the repository, that is said:

- One program: `transition()` of a DISABLED process asks whether its `pid_file` exists, also where none is configured: the exception ends the daemon
  (process.py:783).
- Groups: when `failafterwait` gave a member up, the member behind it is started all the same if its own wait has not begun (process.py:983), though
  `node.defaults:31` calls the option an "abort starting this group".
- A program whose group is removed in the dispatch in which it was reaped may be started once more by the turn of the loop, which goes over the groups there
  were at its top (adminserviced.py:245), though `removeProcessGroup` is to remove a stopped process (rpcinterface.py:213). Nobody answers for that child.
- A log without backups: `tail -f`, a "continuous tail" (rhadmin.py:535), skips what was written after the log was emptied up to the size it saw last, when
  as much is there again (http.py:653).
- Main loop: a second signal turns a shutdown into a restart. `waitforprevious`
  counts turns of the loop (process.py:973), and turns are as short as clients make them.
- `updateProcessGroup`: a group whose new
  configuration is empty raises, because the group is handed over where its name is meant (rpcinterface.py:481).
- Calls: a stop whose program another client starts again waits for ever; `startProcess` and `stopProcess` of `group:*` hand `wait` over
  where the type is expected, and raise; `stopAllProcesses` reverses the order within groups, not of the groups.
- Detached programs: `finish()` removes the pid file though the program ignored SIGTERM and lives; a program whose scripts take longer than the ten
  seconds of the wait is started once more; the fork of a crashed daemon may remove the file of the next one.
- Output: what a program wrote last, up to the length of a token, is dropped with its dispatcher; a chunk larger than `capture_maxbytes` is kept whole;
  a client that follows a log misses what was added between its last look and a rollover to another file, of which it is not told; `tailFile` repeats bytes when the log grew by less
  than was asked for.
- Configuration: a reload that is refused at a later file leaves the groups of the files before it (`PartlyRead`); a domain is found changed at
  every reading unless the files choose `logfile_directory`, and then not even with another command (`RedhawkComparison`).
- HTTP: a call with an empty body is never answered; what is sent behind a call that waits is taken for more of its body.
- `rhadmin`: an unknown `group:name` ends a `start` with an exception and a `stop` with a message, so that a `restart` leaves what is behind it stopped; `tail name stdout`
  reads stderr, since the channel is compared with `is`; `-f` is ignored beside `all`.

## Not modelled

- The poller: a wrapper of `select` and `poll`; in the models `poll()` returns whenever it likes with whatever is ready. That
  `combined_map` is made at the top of a turn, with descriptors that a handler closes, needs descriptor numbers, which no module has.
- The state of a listener's pipe byte by byte: a full pipe makes `dispatch()` raise (process.py:1098).
- `socket_manager.py`, reference counts of listening sockets; `web.py`, pages over the XML-RPC interface; `childutils.py` and `scripts/`, short programs under
  the daemon; the client of `tail -f` and `fg`, a thread that prints what it is sent.
- Of the configuration: includes, expansions and the command line; of the XML-RPC interface: marshalling, authentication, `sendRemoteCommEvent` and
  query scripts; of the client: `fg`, `open`, `version`, `list`, `getconfig`, `reread`, `maintail` and `config`, which format or copy.
- A negative `waitforprevious`, which the configuration accepts and a group would count down for ever; a negative size or number of anything.
- Packaging, init scripts and `bin/`; the rest of medusa, which is third-party code.

## Plan

The safety properties of the runs are proved. What would say more about the system:

- action properties that are so far only the shape of the proofs: what a step may do to `stop_groups`, to a pid file, to a callback;
- that `ProcessGroup` with one member does what `Subprocess` does step by step, beyond the promise both keep, and that the groups of
  `AdminService` keep the order of `StartsInOrder`;
- bounds of the producers of `HttpChannel` (`more` returns at most what was asked for), which would have to move to a module without recursion.
