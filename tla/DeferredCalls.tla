--------------------------- MODULE DeferredCalls ---------------------------
(***************************************************************************)
(* The calls of rpcinterface.py that take several turns of the main loop,  *)
(* with the handler that serves them (xmlrpc.py, http.py): a call answers  *)
(* with a value or with a function, and the function is called again,      *)
(* whenever the client's connection may be written, until it has a value.  *)
(*                                                                         *)
(* A request is a sequence of calls, as system.multicall() takes one; a    *)
(* plain call is a sequence of one. What the processes do is               *)
(* ProcessOutline's. They are in one group, in the order of their          *)
(* numbers.                                                                *)
(***************************************************************************)
EXTENDS ProcessOutline, Sequences, FiniteSets

CONSTANTS
    Programs,      \* numbers of the programs
    Config,        \* the options of a program
    Clients,       \* connections
    Requests,      \* what each client may ask for
    WaitBound      \* the seconds of waitforprevious

\* A call names one program, or all of them: startAll and stopAll are startProcessGroup() and
\* stopProcessGroup() of the one group here, or the calls for all programs, which order the same
\* programs the same way. Of these only startProcessGroup() can be told to force.
CallType ==
    [do: {"start", "stop"}, who: Programs, force: BOOLEAN]
    \cup [do: {"startAll", "stopAll", "shutdown", "quick"}, who: {0}, force: BOOLEAN]

ASSUME CallsAssumption ==
    /\ Programs \subseteq Nat \ {0} /\ IsFiniteSet(Programs)
    /\ \A k \in Programs :
         /\ Config[k].enabled \in BOOLEAN /\ Config[k].autostart \in BOOLEAN
         /\ Config[k].autorestart \in {"never", "unexpected", "always"}
         /\ Config[k].waits \in BOOLEAN /\ Config[k].fails \in BOOLEAN
    /\ Requests \in [Clients -> SUBSET Seq(CallType)]
    /\ WaitBound \in Nat \ {0}

VARIABLES
    procs,         \* the outlines of the process objects
    mood,          \* options.mood
    pc,            \* where the daemon's thread is
    turn,          \* the program it is at
    jobs,          \* what is left of each client's request
    worker,        \* the client it serves
    again,         \* the function that was just made is to be called at once
    polled,        \* the connections that were written in this turn
    left,          \* the programs a function for all of them has not come to
    last,          \* the one before, if it was STARTING when it was started
    naps,          \* the seconds wait_transition() has left
    victims        \* history: children a client's request told to stop, not reaped yet

thread == <<pc, turn, worker, again, polled, left, last, naps>>
vars == <<procs, mood, thread, jobs, victims>>

PCs == {"top", "reads", "work", "call_reap", "pass", "sleep", "writes", "transition", "reap",
        "exited"}

\* The function a client's connection is to call again: what for, the programs it waits for and
\* those it has a result of; fresh before it was called for the first time.
None == [how |-> "none", all |-> FALSE, fresh |-> FALSE, force |-> FALSE, waits |-> {},
         told |-> {}]
CallbackType == [how: {"none", "start", "stop"}, all: BOOLEAN, fresh: BOOLEAN, force: BOOLEAN,
                 waits: SUBSET Programs, told: SUBSET Programs]

\* asked calls, of which results have a result and todo were not made yet.
Quiet == [open |-> TRUE, asked |-> 0, results |-> 0, todo |-> <<>>, callback |-> None]
Lengths(c) == {Len(request) : request \in Requests[c]} \cup {0}
JobType(c) == [open: BOOLEAN, asked: Lengths(c), results: Nat, todo: Seq(CallType),
               callback: CallbackType]

TypeOK ==
    /\ procs \in [Programs -> OutlineType] /\ mood \in {"RUNNING", "SHUTDOWN"}
    /\ pc \in PCs /\ turn \in Programs \cup {0} /\ again \in BOOLEAN
    /\ worker \in Clients /\ polled \subseteq Clients
    /\ left \subseteq Programs /\ last \in Programs \cup {0} /\ naps \in 0..WaitBound
    /\ DOMAIN jobs = Clients /\ \A c \in Clients : jobs[c] \in JobType(c)
    /\ victims \in [Clients -> SUBSET Programs]
    /\ left # {} => pc \in {"pass", "sleep", "call_reap"}

Running(k) == procs[k].state \in RUNNING_STATES
NoZombie == \A k \in Programs : procs[k].child # "zombie"
Pending(c) == jobs[c].callback # None
job == jobs[worker]
callback == job.callback

Init ==
    /\ procs = [k \in Programs |-> Fresh(Config[k])] /\ mood = "RUNNING"
    /\ pc = "top" /\ turn = 0 /\ worker \in Clients /\ again = FALSE /\ polled = {}
    /\ left = {} /\ last = 0 /\ naps = 0
    /\ jobs = [c \in Clients |-> Quiet] /\ victims = [c \in Clients |-> {}]

-----------------------------------------------------------------------------
(* Making a call.                                                          *)

\* The job j once its call has a result.
Result(j) == [j EXCEPT !.results = @ + 1, !.callback = None]

Becomes(j) == jobs' = [jobs EXCEPT ![worker] = j]

\* continue_request(): the call is made in the handler that read it.
Receive(c, request) ==
    /\ pc = "reads" /\ jobs[c] = Quiet
    /\ jobs' = [jobs EXCEPT ![c].asked = Len(request), ![c].todo = request]
    /\ pc' = "work" /\ worker' = c /\ again' = TRUE
    /\ UNCHANGED <<procs, mood, turn, polled, left, last, naps, victims>>

Making(do) == pc = "work" /\ ~Pending(worker) /\ job.todo # <<>> /\ Head(job.todo).do \in do
call == Head(job.todo)
Made == [job EXCEPT !.todo = Tail(@)]

\* Every call looks at the mood first.
Refused ==
    /\ Making({"start", "stop", "startAll", "stopAll", "shutdown", "quick"}) /\ mood # "RUNNING"
    /\ Becomes(Result(Made))
    /\ UNCHANGED <<procs, mood, thread, victims>>

Immediate ==
    /\ Making({"shutdown", "quick"}) /\ mood = "RUNNING"
    /\ mood' = IF call.do = "shutdown" THEN "SHUTDOWN" ELSE mood
    /\ Becomes(Result(Made))
    /\ UNCHANGED <<procs, thread, victims>>

ForAll ==
    /\ Making({"startAll", "stopAll"}) /\ mood = "RUNNING"
    /\ Becomes([Made EXCEPT !.callback = [None EXCEPT
          !.how = IF call.do = "startAll" THEN "start" ELSE "stop",
          !.all = TRUE, !.fresh = TRUE, !.force = call.force]])
    /\ UNCHANGED <<procs, mood, thread, victims>>

Readied(o) == IF o.state = "DISABLED" THEN [o EXCEPT !.state = "STOPPED"] ELSE o
Spawn(k) == \E o \in Spawns(Readied(procs[k])) : procs' = [procs EXCEPT ![k] = o]

\* Its file is not there, or cannot be executed.
Unready(k) == procs' = [procs EXCEPT ![k] = Readied(@)]

Stop(k) ==
    /\ procs' = [procs EXCEPT ![k] = Stops(@, Config[k])]
    /\ victims' = [victims EXCEPT ![worker] = IF procs[k].child = "none" THEN @ ELSE @ \cup {k}]

\* startProcess() and stopProcess() up to their reap().
StartOne ==
    /\ Making({"start"}) /\ mood = "RUNNING"
    /\ LET k == call.who
       IN  IF (call.force \/ Config[k].enabled) /\ ~Running(k)
           THEN \/ /\ Spawn(k) /\ pc' = "call_reap" /\ turn' = k
                   /\ Becomes([Made EXCEPT !.callback.how = "start"])
                \/ Unready(k) /\ Becomes(Result(Made)) /\ UNCHANGED <<pc, turn>>
           ELSE /\ Becomes(Result(Made))
                /\ UNCHANGED <<procs, pc, turn>>
    /\ UNCHANGED <<mood, worker, again, polled, left, last, naps, victims>>

StopOne ==
    /\ Making({"stop"}) /\ mood = "RUNNING"
    /\ LET k == call.who
       IN  IF Running(k)
           THEN /\ Stop(k) /\ pc' = "call_reap" /\ turn' = k
                /\ Becomes([Made EXCEPT !.callback.how = "stop"])
           ELSE /\ Becomes(Result(Made))
                /\ UNCHANGED <<procs, pc, turn, victims>>
    /\ UNCHANGED <<mood, worker, again, polled, left, last, naps>>

Reap(k) ==
    /\ pc \in {"call_reap", "reap"} /\ procs[k].child = "zombie"
    /\ \E o \in Finishes(procs[k], Config[k]) : procs' = [procs EXCEPT ![k] = o]
    /\ victims' = [c \in Clients |-> victims[c] \ {k}]
    /\ UNCHANGED <<mood, thread, jobs>>

\* Mutant: the function for all programs forgets a result that is there at once.
Concluded_forgets(waits) ==
    LET cb == [callback EXCEPT !.waits = IF waits THEN @ \cup {turn} ELSE @]
    IN  Becomes(IF waits \/ callback.all THEN [job EXCEPT !.callback = cb] ELSE Result(job))

\* The call has its result, or waits for turn.
Concluded(waits) ==
    LET cb == [callback EXCEPT !.waits = IF waits THEN @ \cup {turn} ELSE @,
                               !.told = IF waits \/ ~callback.all THEN @ ELSE @ \cup {turn}]
    IN  Becomes(IF waits \/ callback.all THEN [job EXCEPT !.callback = cb] ELSE Result(job))

Resumes == pc' = IF callback.all THEN "pass" ELSE "work"

\* startProcess() after its reap(): spawnerr is a fault; otherwise transition() is called.
Started ==
    /\ pc = "call_reap" /\ NoZombie /\ callback.how = "start"
    /\ \/ /\ procs[turn].state \in {"BACKOFF", "EXITED", "DISABLED"} /\ Concluded(FALSE)
          /\ UNCHANGED <<procs, last>>
       \/ /\ procs[turn].state # "BACKOFF"
          /\ \E o \in Transitions(procs[turn], Config[turn], mood) :
               /\ procs' = [procs EXCEPT ![turn] = o]
               /\ last' = IF ~callback.all THEN last ELSE IF o.state = "STARTING" THEN turn ELSE 0
               /\ Concluded(o.state # "RUNNING")
    /\ Resumes /\ turn' = 0
    /\ UNCHANGED <<mood, worker, again, polled, left, naps, victims>>

\* Mutant: stopProcess() does not wait for the process.
Stopped_at_once ==
    /\ pc = "call_reap" /\ NoZombie /\ callback.how = "stop"
    /\ Concluded(FALSE)
    /\ Resumes /\ turn' = 0
    /\ UNCHANGED <<procs, mood, worker, again, polled, left, last, naps, victims>>

\* stopProcess() after its reap()
StoppedOne ==
    /\ pc = "call_reap" /\ NoZombie /\ callback.how = "stop"
    /\ Concluded(Unstopped(procs[turn]))
    /\ Resumes /\ turn' = 0
    /\ UNCHANGED <<procs, mood, worker, again, polled, left, last, naps, victims>>

-----------------------------------------------------------------------------
(* The function for all programs, called for the first time: it makes the  *)
(* call for one program after the other. make_startallfunc() sleeps in     *)
(* between, and nothing else is served while it does.                      *)

Waitable == {"DISABLED", "STOPPED", "EXITED", "FATAL", "UNKNOWN"}
Next_(k) == k \in left /\ \A j \in left : IF callback.how = "start" THEN k <= j ELSE k >= j

\* The result for k is there at once.
Tell(k) ==
    /\ Becomes([job EXCEPT !.callback.told = @ \cup {k}])
    /\ left' = left \ {k} /\ pc' = "pass"

StopNext(k) ==
    /\ pc = "pass" /\ Next_(k) /\ callback.how = "stop"
    /\ IF Running(k) /\ mood = "RUNNING"
       THEN Stop(k) /\ pc' = "call_reap" /\ turn' = k /\ left' = left \ {k} /\ UNCHANGED jobs
       ELSE Tell(k) /\ UNCHANGED <<procs, turn, victims>>
    /\ UNCHANGED <<mood, worker, again, polled, last, naps>>

Starts(k) == ~Running(k) /\ (callback.force \/ Config[k].enabled)

\* Mutant: a program waits whatever became of the one before it.
MustWait_never(k) == FALSE

\* wait_transition() sleeps.
MustWait(k) == Config[k].waits /\ last # 0 /\ procs[k].state \in Waitable

\* Mutant: the function does not look at the mood again.
Go_on(k) ==
    /\ \/ /\ Spawn(k) /\ pc' = "call_reap" /\ turn' = k /\ left' = left \ {k} /\ UNCHANGED jobs
       \/ Unready(k) /\ Tell(k) /\ UNCHANGED turn
    /\ naps' = 0

\* The loop goes on to startProcess(), which may refuse the call.
Go(k) ==
    /\ \/ /\ mood = "RUNNING"
          /\ Spawn(k) /\ pc' = "call_reap" /\ turn' = k /\ left' = left \ {k} /\ UNCHANGED jobs
       \/ Unready(k) /\ Tell(k) /\ UNCHANGED turn
    /\ naps' = 0

StartNext(k) ==
    /\ pc = "pass" /\ Next_(k) /\ callback.how = "start"
    /\ \/ ~Starts(k) /\ Tell(k) /\ UNCHANGED <<procs, turn, naps>>
       \/ Starts(k) /\ ~MustWait(k) /\ Go(k)
       \/ /\ Starts(k) /\ MustWait(k)
          /\ pc' = "sleep" /\ naps' = WaitBound
          /\ UNCHANGED <<procs, jobs, turn, left>>
    /\ UNCHANGED <<mood, worker, again, polled, last, victims>>

\* One second: the one before is helped along, or it is found to be RUNNING.
Nap(k) ==
    /\ pc = "sleep" /\ naps > 0 /\ Next_(k)
    /\ IF procs[last].state = "RUNNING" THEN Go(k)
       ELSE /\ IF procs[last].state = "STARTING"
               THEN \E o \in Transitions(procs[last], Config[last], mood) :
                       procs' = [procs EXCEPT ![last] = o]
               ELSE UNCHANGED procs
            /\ naps' = naps - 1
            /\ UNCHANGED <<jobs, pc, turn, left>>
    /\ UNCHANGED <<mood, worker, again, polled, last, victims>>

SleepEnds(k) ==
    /\ pc = "sleep" /\ naps = 0 /\ Next_(k)
    /\ IF procs[last].state # "RUNNING" /\ Config[k].fails
       THEN Tell(k) /\ UNCHANGED <<procs, turn, naps>>
       ELSE Go(k)
    /\ UNCHANGED <<mood, worker, again, polled, last, victims>>

-----------------------------------------------------------------------------
(* Calling the function.                                                   *)

Back == pc' = IF polled' = {} THEN "reads" ELSE "writes"

\* Mutant: a call waits for RUNNING, though the process may never come to it.
Waiting_for_ever ==
    {k \in callback.waits : IF callback.how = "start" THEN procs[k].state # "RUNNING"
                            ELSE Unstopped(procs[k])}

\* The programs worker's function still has to wait for.
Waiting ==
    {k \in callback.waits : IF callback.how = "start" THEN procs[k].state = "STARTING"
                            ELSE Unstopped(procs[k])}

CheckWaits ==
    IF Waiting = {}
    THEN Becomes(Result(job)) /\ pc' = "work"
    ELSE /\ Becomes([job EXCEPT !.callback.waits = Waiting,
                      !.callback.told = IF callback.all THEN @ \cup (callback.waits \ Waiting) ELSE @])
         /\ Back

\* more() of the connection's producer, at once in the handler that made the function ...
CallAgain ==
    /\ pc = "work" /\ Pending(worker) /\ again
    /\ again' = FALSE /\ UNCHANGED polled
    /\ IF callback.fresh
       THEN /\ Becomes([job EXCEPT !.callback.fresh = FALSE])
            /\ pc' = "pass" /\ left' = Programs /\ last' = 0
       ELSE CheckWaits /\ UNCHANGED <<left, last>>
    /\ UNCHANGED <<procs, mood, turn, worker, naps, victims>>

\* ... and when the connection may be written.
Poll(c) ==
    /\ pc = "writes" /\ Pending(c) /\ c \notin polled
    /\ worker' = c /\ polled' = polled \cup {c} /\ again' = TRUE /\ pc' = "work"
    /\ UNCHANGED <<procs, mood, turn, jobs, left, last, naps, victims>>

PassEnds ==
    /\ pc = "pass" /\ left = {}
    /\ UNCHANGED polled /\ CheckWaits
    /\ UNCHANGED <<procs, mood, turn, worker, again, left, last, naps, victims>>

Postpone ==
    /\ pc = "work" /\ Pending(worker) /\ ~again
    /\ UNCHANGED polled /\ Back
    /\ UNCHANGED <<procs, mood, turn, worker, again, left, last, naps, jobs, victims>>

\* The answer of the request goes to the client.
Answer ==
    /\ pc = "work" /\ ~Pending(worker) /\ job.todo = <<>>
    /\ Becomes(Quiet)
    /\ again' = FALSE /\ UNCHANGED polled /\ Back
    /\ UNCHANGED <<procs, mood, turn, worker, left, last, naps, victims>>

\* The client goes; this turn's descriptors may name its connection once more.
Disconnect(c) ==
    /\ pc = "reads" /\ Pending(c) /\ jobs[c].open
    /\ jobs' = [jobs EXCEPT ![c].open = FALSE]
    /\ UNCHANGED <<procs, mood, thread, victims>>

-----------------------------------------------------------------------------
(* The main loop.                                                          *)

After(k) == LET later == {j \in Programs : j > k}
            IN  IF later = {} THEN 0 ELSE CHOOSE j \in later : \A i \in later : j <= i

StartTurn ==
    /\ pc = "top" /\ mood = "RUNNING"
    /\ pc' = "reads"
    /\ UNCHANGED <<procs, mood, turn, jobs, worker, again, polled, left, last, naps, victims>>

StopAll ==
    /\ pc = "top" /\ mood # "RUNNING"
    /\ procs' = [k \in Programs |-> StopsAll(procs[k], Config[k])]
    /\ pc' = IF \A k \in Programs : ~Unstopped(procs'[k]) THEN "exited" ELSE "reads"
    /\ UNCHANGED <<mood, turn, jobs, worker, again, polled, left, last, naps, victims>>

EndReads ==
    /\ pc = "reads" /\ pc' = "writes"
    /\ UNCHANGED <<procs, mood, turn, jobs, worker, again, polled, left, last, naps, victims>>

EndWrites ==
    /\ pc = "writes" /\ pc' = "transition" /\ turn' = After(0) /\ polled' = {}
    /\ UNCHANGED <<procs, mood, jobs, worker, again, left, last, naps, victims>>

Transition ==
    /\ pc = "transition"
    /\ \E o \in Transitions(procs[turn], Config[turn], mood) : procs' = [procs EXCEPT ![turn] = o]
    /\ turn' = After(turn) /\ pc' = IF turn' = 0 THEN "reap" ELSE "transition"
    /\ UNCHANGED <<mood, jobs, worker, again, polled, left, last, naps, victims>>

\* A connection that was closed is gone, with the function it should call.
EndTurn ==
    /\ pc = "reap" /\ NoZombie /\ pc' = "top"
    /\ jobs' = [c \in Clients |-> IF jobs[c].open THEN jobs[c] ELSE Quiet]
    /\ victims' = [c \in Clients |-> IF jobs[c].open THEN victims[c] ELSE {}]
    /\ UNCHANGED <<procs, mood, turn, worker, again, polled, left, last, naps>>

Dies(k) ==
    /\ pc \in {"reads", "call_reap", "sleep"} /\ procs[k].child \in {"up", "killed"}
    /\ procs' = [procs EXCEPT ![k].child = "zombie"]
    /\ UNCHANGED <<mood, thread, jobs, victims>>

Work ==
    \/ Refused \/ Immediate \/ ForAll \/ StartOne \/ StopOne
    \/ Started \/ StoppedOne \/ CallAgain \/ PassEnds \/ Postpone \/ Answer
    \/ \E k \in Programs : StopNext(k) \/ StartNext(k) \/ Nap(k) \/ SleepEnds(k)

Loop == StartTurn \/ StopAll \/ EndReads \/ EndWrites \/ Transition \/ EndTurn
        \/ \E k \in Programs : Reap(k)

Next ==
    \/ Work \/ Loop \/ \E k \in Programs : Dies(k)
    \/ \E c \in Clients : \/ Poll(c) \/ Disconnect(c)
                          \/ \E request \in Requests[c] : Receive(c, request)

\* The daemon's thread goes on; a poll() ends, and a connection that waits is written again and
\* again; a program comes up, a child that does not stop is killed, and dies of it.
Progress ==
    \/ /\ Transition
       /\ \/ procs[turn].child = "up" /\ procs'[turn].child = "killed"
          \/ procs[turn].state = "STARTING" /\ procs'[turn].state = "RUNNING"
    \/ \E k \in Programs : procs[k].child = "killed" /\ Dies(k)

Fairness ==
    /\ WF_vars(Work \/ Loop) /\ SF_vars(EndReads) /\ SF_vars(Progress)
    /\ \A c \in Clients : SF_vars(Poll(c))

Spec == Init /\ [][Next]_vars /\ Fairness

-----------------------------------------------------------------------------
(* Properties.                                                             *)

\* A client gets one result for each call it asked for, in whatever turns they are made, and
\* the function for all programs has each of them in exactly one place: told of, waited for, at
\* hand, or not come to yet.
NoCallLost ==
    \A c \in Clients :
        LET j == jobs[c]
            cb == j.callback
            athand == IF c = worker /\ turn # 0 /\ pc = "call_reap" THEN {turn} ELSE {}
            rest == IF c = worker THEN left ELSE {}
        IN  /\ j.results + Len(j.todo) + (IF cb = None THEN 0 ELSE 1) = j.asked
            /\ cb.all /\ ~cb.fresh =>
                 /\ cb.told \cup cb.waits \cup athand \cup rest = Programs
                 /\ cb.told \cap cb.waits = {} /\ rest \cap (cb.told \cup cb.waits \cup athand) = {}

\* A client that told processes to stop has its answer only when each child it told to was
\* reaped, though others may have started or stopped the same programs meanwhile.
StopAnswered == [][Answer => victims[worker] = {}]_vars

\* Once the daemon is to go no child is started, whichever functions of earlier calls are still
\* called.
ShutdownStartsNothing ==
    [][mood # "RUNNING" => \A k \in Programs : procs[k].child = "none" => procs'[k].child = "none"]_vars

\* startAll gives a program with waitforprevious and failafterwait a child only when the one it
\* started before runs by then.
StartAllInOrder ==
    [][\A k \in Programs :
          /\ pc \in {"pass", "sleep"} /\ Config[k].waits /\ Config[k].fails
          /\ procs[k].child = "none" /\ procs'[k].child # "none"
          => last = 0 \/ procs[last].state = "RUNNING"]_vars

\* A pending call is answered, unless its client goes, the daemon exits, or other clients make
\* calls for ever. A call that stops a program waits in vain once another client has started
\* it again.
CallsEnd ==
    \A c \in Clients :
        \/ Pending(c) ~> \/ ~Pending(c) \/ ~jobs[c].open \/ pc = "exited"
                         \/ /\ jobs[c].callback.how = "stop"
                            /\ \E k \in jobs[c].callback.waits : Running(k)
        \/ []<>(\E d \in Clients \ {c} : jobs[d].todo # <<>>)
=============================================================================
