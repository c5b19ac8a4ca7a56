------------------------ MODULE DeferredCalls_proofs ------------------------
(***************************************************************************)
(* Every call of a request has its result, in the right place, and what a  *)
(* call started or stopped is what it says: for any programs, clients and  *)
(* requests.                                                               *)
(*                                                                         *)
(* The argument: while the thread is in the function of a client, the      *)
(* callback of that client says which, and each program is at one place of *)
(* it; a child that was told to stop stays STOPPING, and so waited for,    *)
(* until it is reaped.                                                     *)
(***************************************************************************)
EXTENDS DeferredCalls, ProcessMethods_proofs

ProcsSound == \A k \in Programs : Sound(procs[k])

\* Where the thread is in the function of worker.
InCall == pc = "call_reap" =>
    turn \in Programs /\ callback.how \in {"start", "stop"}
    /\ (callback.all => ~callback.fresh) /\ (~callback.all => callback.waits = {})
InPass ==
    /\ pc \in {"pass", "sleep"} => callback.how # "none" /\ callback.all /\ ~callback.fresh
    /\ pc = "sleep" => last # 0
    /\ left # {} => callback.all /\ ~callback.fresh

\* A function is for something, and has no result before it is called.
Good(cb) ==
    /\ cb # None => cb.how # "none"
    /\ cb.fresh => cb.all /\ cb.told = {} /\ cb.waits = {}
Callbacks == \A c \in Clients : Good(jobs[c].callback)

\* The program at hand has no result yet.
AtHand == pc = "call_reap" => turn \notin callback.told \cup callback.waits

\* A child that was told to stop is stopping, and somebody waits for it.
VictimsWaited == \A c \in Clients : \A k \in victims[c] :
    /\ procs[k].state = "STOPPING" /\ jobs[c].callback.how = "stop"
    /\ k \in jobs[c].callback.waits \/ (c = worker /\ pc = "call_reap" /\ turn = k)

JobsIn == DOMAIN jobs = Clients /\ \A c \in Clients : jobs[c] \in JobType(c)
LeftIn == left # {} => pc \in {"pass", "sleep", "call_reap"}
Placed == JobsIn /\ LeftIn /\ InCall /\ InPass /\ Callbacks /\ AtHand /\ NoCallLost

IInv == TypeOK /\ ProcsSound /\ Placed /\ VictimsWaited

-----------------------------------------------------------------------------
(* Jobs.                                                                   *)

LEMMA NoneGood == None \in CallbackType /\ Good(None)
BY DEF None, CallbackType, Good

LEMMA QuietType == ASSUME NEW c PROVE Quiet \in JobType(c)
BY NoneGood DEF Quiet, JobType, Lengths

LEMMA BecomesJob ==
    ASSUME TypeOK, Callbacks, NEW j \in JobType(worker), Good(j.callback), Becomes(j)
    PROVE  /\ DOMAIN jobs' = Clients /\ \A c \in Clients : jobs'[c] \in JobType(c)
           /\ jobs'[worker] = j /\ \A c \in Clients : c # worker => jobs'[c] = jobs[c]
           /\ Callbacks'
<1>1. DOMAIN jobs = Clients /\ worker \in Clients /\ jobs' = [jobs EXCEPT ![worker] = j]
  BY DEF TypeOK, Becomes
<1>2. DOMAIN jobs' = Clients /\ jobs'[worker] = j
  BY <1>1
<1>3. \A c \in Clients : c # worker => jobs'[c] = jobs[c]
  BY <1>1
<1>4. ASSUME NEW c \in Clients
      PROVE  jobs'[c] \in JobType(c) /\ Good(jobs'[c].callback)
  <2>1. jobs[c] \in JobType(c) /\ Good(jobs[c].callback)
    BY DEF TypeOK, Callbacks
  <2> QED BY <1>2, <1>3, <2>1
<1> QED BY <1>2, <1>3, <1>4 DEF Callbacks

LEMMA JobIn == TypeOK /\ Callbacks => job \in JobType(worker) /\ callback \in CallbackType /\ Good(callback)
<1> SUFFICES ASSUME TypeOK, Callbacks
             PROVE  job \in JobType(worker) /\ callback \in CallbackType /\ Good(callback)
  OBVIOUS
<1>1. jobs[worker] \in JobType(worker) /\ Good(jobs[worker].callback)
  BY DEF TypeOK, Callbacks
<1>2. jobs[worker].callback \in CallbackType
  BY <1>1 DEF JobType
<1> QED BY <1>1, <1>2 DEF job, callback

LEMMA ResultIn ==
    ASSUME NEW c, NEW j \in JobType(c)
    PROVE  /\ Result(j) \in JobType(c) /\ Result(j).callback = None
           /\ Result(j).results = j.results + 1 /\ Result(j).todo = j.todo
           /\ Result(j).asked = j.asked /\ Result(j).open = j.open
<1>1. /\ j.results + 1 \in Nat /\ None \in CallbackType
      /\ j.open \in BOOLEAN /\ j.asked \in Lengths(c) /\ j.todo \in Seq(CallType)
  BY NoneGood DEF JobType
<1>2. /\ DOMAIN j = {"open", "asked", "results", "todo", "callback"}
      /\ Result(j) = [[j EXCEPT !.results = j.results + 1] EXCEPT !.callback = None]
  BY DEF Result, JobType
<1>3. [j EXCEPT !.results = j.results + 1] \in JobType(c)
  BY <1>1 DEF JobType
<1> QED BY <1>1, <1>2, <1>3 DEF JobType

LEMMA MadeIn ==
    ASSUME TypeOK, NEW do, Making(do)
    PROVE  /\ Made \in JobType(worker) /\ Made.callback = None /\ call \in CallType
           /\ Made.results = job.results /\ Len(job.todo) = Len(Made.todo) + 1 /\ Made.asked = job.asked
           /\ Made.open = job.open /\ job.callback = None /\ call.do \in do
<1>1. job \in JobType(worker) /\ job.callback = None /\ job.todo # <<>> /\ call.do \in do
  BY DEF TypeOK, Making, Pending, job, call
<1>2. job.todo \in Seq(CallType) /\ job.todo # <<>>
  BY <1>1 DEF JobType
<1>3. call \in CallType /\ Tail(job.todo) \in Seq(CallType) /\ Len(job.todo) = Len(Tail(job.todo)) + 1
  BY <1>2 DEF call
<1> QED BY <1>1, <1>3 DEF Made, JobType

LEMMA CallbackIn ==
    ASSUME NEW c, NEW j \in JobType(c), NEW cb \in CallbackType
    PROVE  /\ [j EXCEPT !.callback = cb] \in JobType(c) /\ [j EXCEPT !.callback = cb].callback = cb
           /\ [j EXCEPT !.callback = cb].results = j.results
           /\ [j EXCEPT !.callback = cb].todo = j.todo /\ [j EXCEPT !.callback = cb].asked = j.asked
           /\ [j EXCEPT !.callback = cb].open = j.open
BY DEF JobType

LEMMA AfterType == ASSUME NEW k PROVE After(k) \in Programs \cup {0}
<1> DEFINE later == {j \in Programs : j > k}
<1>1. later \in SUBSET Nat /\ later \subseteq Programs
  BY CallsAssumption
<1>2. CASE later = {}
  BY <1>2 DEF After
<1>3. CASE later # {}
  <2>1. \E j \in later : \A i \in later : j <= i
    BY <1>1, <1>3, LeastNatural
  <2>2. After(k) \in later
    BY <1>3, <2>1 DEF After
  <2> QED BY <1>1, <2>2
<1> QED BY <1>2, <1>3

-----------------------------------------------------------------------------
(* What a step does to a process.                                          *)

Stepped(k) ==
    \/ procs'[k] = procs[k]
    \/ mood = "RUNNING" /\ procs'[k] \in Spawns(Readied(procs[k]))
    \/ procs'[k] = Readied(procs[k])
    \/ procs'[k] = Stops(procs[k], Config[k])
    \/ procs'[k] = StopsAll(procs[k], Config[k])
    \/ procs'[k] \in Transitions(procs[k], Config[k], mood)
    \/ /\ procs[k].child = "zombie" /\ procs'[k] \in Finishes(procs[k], Config[k])
       /\ victims' = [c \in Clients |-> victims[c] \ {k}]
    \/ procs[k].child \in {"up", "killed"} /\ procs'[k] = [procs[k] EXCEPT !.child = "zombie"]

ProcStep == procs' = [k \in Programs |-> procs'[k]] /\ \A k \in Programs : Stepped(k)

LEMMA OneSteps ==
    ASSUME TypeOK, NEW k, NEW o, procs' = [procs EXCEPT ![k] = o]
    PROVE  /\ procs' = [i \in Programs |-> procs'[i]]
           /\ \A i \in Programs : i # k => procs'[i] = procs[i]
           /\ k \in Programs => procs'[k] = o
BY DEF TypeOK

LEMMA SpawnSteps == ASSUME TypeOK, mood = "RUNNING", NEW k, Spawn(k) PROVE ProcStep
BY OneSteps DEF Spawn, ProcStep, Stepped

LEMMA UnreadySteps == ASSUME TypeOK, NEW k, Unready(k) PROVE ProcStep
<1>1. procs' = [procs EXCEPT ![k] = Readied(procs[k])]
  BY DEF Unready, TypeOK
<1> QED BY <1>1, OneSteps DEF ProcStep, Stepped

LEMMA StopSteps == ASSUME TypeOK, NEW k, Stop(k) PROVE ProcStep
<1>1. procs' = [procs EXCEPT ![k] = Stops(procs[k], Config[k])]
  BY DEF Stop, TypeOK
<1> QED BY <1>1, OneSteps DEF ProcStep, Stepped

LEMMA TransitionSteps ==
    ASSUME TypeOK, NEW k, NEW o \in Transitions(procs[k], Config[k], mood),
           procs' = [procs EXCEPT ![k] = o]
    PROVE  ProcStep
BY OneSteps DEF ProcStep, Stepped

LEMMA KeptSteps == ASSUME TypeOK, UNCHANGED procs PROVE ProcStep
BY DEF TypeOK, ProcStep, Stepped

LEMMA GoSteps == ASSUME TypeOK, NEW k, Go(k) PROVE ProcStep
BY SpawnSteps, UnreadySteps DEF Go

LEMMA AllStep == TypeOK /\ [Next]_vars => ProcStep
<1> SUFFICES ASSUME TypeOK, [Next]_vars PROVE ProcStep
  OBVIOUS
<1>1. CASE Refused \/ Immediate \/ ForAll \/ StoppedOne \/ CallAgain \/ PassEnds \/ Postpone
           \/ Answer \/ StartTurn \/ EndReads \/ EndWrites \/ EndTurn \/ UNCHANGED vars
  BY <1>1, KeptSteps DEF Refused, Immediate, ForAll, StoppedOne, CallAgain, PassEnds, Postpone,
     Answer, StartTurn, EndReads, EndWrites, EndTurn, vars
<1>2. CASE StartOne
  <2>1. mood = "RUNNING" /\ (Spawn(call.who) \/ Unready(call.who) \/ UNCHANGED procs)
    BY <1>2 DEF StartOne
  <2> QED BY <2>1, SpawnSteps, UnreadySteps, KeptSteps
<1>3. CASE StopOne
  <2>1. Stop(call.who) \/ UNCHANGED procs
    BY <1>3 DEF StopOne
  <2> QED BY <2>1, StopSteps, KeptSteps
<1>4. CASE Started \/ Transition
  BY <1>4, KeptSteps, TransitionSteps DEF Started, Transition
<1>5. ASSUME NEW k \in Programs, StopNext(k) PROVE ProcStep
  <2>1. Stop(k) \/ UNCHANGED procs
    BY <1>5 DEF StopNext
  <2> QED BY <2>1, StopSteps, KeptSteps
<1>6. ASSUME NEW k \in Programs, StartNext(k) \/ SleepEnds(k) PROVE ProcStep
  <2>1. Go(k) \/ UNCHANGED procs
    BY <1>6 DEF StartNext, SleepEnds
  <2> QED BY <2>1, GoSteps, KeptSteps
<1>7. ASSUME NEW k \in Programs, Nap(k) PROVE ProcStep
  <2>1. \/ Go(k) \/ UNCHANGED procs
        \/ \E o \in Transitions(procs[last], Config[last], mood) : procs' = [procs EXCEPT ![last] = o]
    BY <1>7 DEF Nap
  <2> QED BY <2>1, GoSteps, KeptSteps, TransitionSteps
<1>8. CASE StopAll
  <2>1. procs' = [k \in Programs |-> StopsAll(procs[k], Config[k])]
    BY <1>8 DEF StopAll
  <2>2. \A k \in Programs : procs'[k] = StopsAll(procs[k], Config[k])
    BY <2>1
  <2>3. procs' = [k \in Programs |-> procs'[k]]
    BY <2>1
  <2> QED BY <2>2, <2>3 DEF ProcStep, Stepped
<1>9. ASSUME NEW k \in Programs, Reap(k) PROVE ProcStep
  <2>1. PICK o \in Finishes(procs[k], Config[k]) : procs' = [procs EXCEPT ![k] = o]
    BY <1>9 DEF Reap
  <2>2. /\ procs' = [i \in Programs |-> procs'[i]]
        /\ \A i \in Programs : i # k => procs'[i] = procs[i]
        /\ procs'[k] = o
    BY <2>1, OneSteps
  <2>3. procs[k].child = "zombie" /\ victims' = [c \in Clients |-> victims[c] \ {k}]
    BY <1>9 DEF Reap
  <2>4. Stepped(k)
    BY <2>2, <2>3 DEF Stepped
  <2>5. \A i \in Programs : i # k => Stepped(i)
    BY <2>2 DEF Stepped
  <2> QED BY <2>2, <2>4, <2>5 DEF ProcStep
<1>10. ASSUME NEW k \in Programs, Dies(k) PROVE ProcStep
  <2>1. procs' = [procs EXCEPT ![k] = [procs[k] EXCEPT !.child = "zombie"]]
    BY <1>10 DEF Dies, TypeOK
  <2>2. procs[k].child \in {"up", "killed"}
    BY <1>10 DEF Dies
  <2> QED BY <2>1, <2>2, OneSteps DEF ProcStep, Stepped
<1>11. ASSUME NEW c \in Clients, \/ Poll(c) \/ Disconnect(c)
                                 \/ \E request \in Requests[c] : Receive(c, request)
       PROVE  ProcStep
  BY <1>11, KeptSteps DEF Poll, Disconnect, Receive
<1> QED BY <1>1, <1>2, <1>3, <1>4, <1>5, <1>6, <1>7, <1>8, <1>9, <1>10, <1>11
        DEF Next, Work, Loop

\* A child is told of once, and one that is stopping is so until it is reaped.
LEMMA StepSound ==
    ASSUME NEW k \in Programs, Sound(procs[k]), Stepped(k)
    PROVE  /\ Sound(procs'[k])
           /\ procs[k].state = "STOPPING" =>
                procs'[k].state = "STOPPING" \/ victims' = [c \in Clients |-> victims[c] \ {k}]
           /\ mood # "RUNNING" /\ procs[k].child = "none" => procs'[k].child = "none"
<1> DEFINE o == procs[k]
           q == procs'[k]
           Goal == /\ Sound(q)
                   /\ o.state = "STOPPING" =>
                        q.state = "STOPPING" \/ victims' = [c \in Clients |-> victims[c] \ {k}]
                   /\ mood # "RUNNING" /\ o.child = "none" => q.child = "none"
<1>0. Sound(Readied(o)) /\ (o.state = "STOPPING" => Readied(o) = o) /\ Readied(o).child = o.child
  BY DEF Sound, Readied, OutlineType, ProcessStates, Alive
<1>1. CASE q = o
  BY <1>1
<1>2. CASE mood = "RUNNING" /\ q \in Spawns(Readied(o))
  <2>1. Sound(q)
    BY <1>0, <1>2, SpawnsSound
  <2>2. o.state = "STOPPING" => q = o
    BY <1>0, <1>2 DEF Sound, Alive, Spawns
  <2> QED BY <1>2, <2>1, <2>2
<1>3. CASE q = Readied(o)
  BY <1>0, <1>3
<1>4. CASE q = Stops(o, Config[k])
  <2>1. o.state = "STOPPING" => q.state = "STOPPING"
    BY <1>4 DEF Stops, At, Sound, OutlineType
  <2> QED BY <1>4, <2>1, StopsSound
<1>5. CASE q = StopsAll(o, Config[k])
  <2>1. o.state = "STOPPING" => q.state = "STOPPING"
    BY <1>5 DEF StopsAll
  <2> QED BY <1>5, <2>1, StopsAllSound
<1>6. CASE q \in Transitions(o, Config[k], mood)
  <2>1. o.state = "STOPPING" => q = o \/ q = Killed(o)
    BY <1>6 DEF Transitions, StartsItself
  <2>2. o.state = "STOPPING" => q.state = "STOPPING"
    BY <2>1 DEF Killed, Sound, OutlineType
  <2> QED BY <1>6, <2>2, TransitionsSound
<1>7. CASE /\ o.child = "zombie" /\ q \in Finishes(o, Config[k])
           /\ victims' = [c \in Clients |-> victims[c] \ {k}]
  BY <1>7, FinishesSound
<1>8. CASE o.child \in {"up", "killed"} /\ q = [o EXCEPT !.child = "zombie"]
  BY <1>8 DEF Sound, OutlineType, ChildOutlines
<1> HIDE DEF Goal
<1> QED
  <2>1. Goal
    BY <1>1, <1>2, <1>3, <1>4, <1>5, <1>6, <1>7, <1>8 DEF Stepped, Goal
  <2> QED BY <2>1 DEF Goal

LEMMA ProcsKept ==
    ASSUME TypeOK, ProcsSound, [Next]_vars
    PROVE  /\ ProcsSound' /\ procs' \in [Programs -> OutlineType]
           /\ \A k \in Programs :
                /\ procs[k].state = "STOPPING" =>
                     procs'[k].state = "STOPPING" \/ victims' = [c \in Clients |-> victims[c] \ {k}]
                /\ mood # "RUNNING" /\ procs[k].child = "none" => procs'[k].child = "none"
<1>1. ProcStep
  BY AllStep
<1>2. \A k \in Programs : Sound(procs'[k])
  BY <1>1, StepSound DEF ProcStep, ProcsSound
<1>3. procs' \in [Programs -> OutlineType]
  <2>1. \A k \in Programs : procs'[k] \in OutlineType
    BY <1>2 DEF Sound
  <2>2. procs' = [k \in Programs |-> procs'[k]]
    BY AllStep DEF ProcStep
  <2> QED BY <2>1, <2>2
<1> QED BY <1>1, <1>2, <1>3, StepSound DEF ProcStep, ProcsSound

-----------------------------------------------------------------------------
(* The places of the results.                                              *)

Counted(j) == j.results + Len(j.todo) + (IF j.callback = None THEN 0 ELSE 1) = j.asked
Split(cb, hand, rest) == cb.all /\ ~cb.fresh =>
    /\ cb.told \cup cb.waits \cup hand \cup rest = Programs
    /\ cb.told \cap cb.waits = {} /\ rest \cap (cb.told \cup cb.waits \cup hand) = {}
Hand == IF turn # 0 /\ pc = "call_reap" THEN {turn} ELSE {}
Whole(c) == /\ Counted(jobs[c])
            /\ Split(jobs[c].callback, IF c = worker THEN Hand ELSE {}, IF c = worker THEN left ELSE {})

LEMMA LostIs == NoCallLost <=> \A c \in Clients : Whole(c)
BY DEF NoCallLost, Whole, Counted, Split, Hand

LEMMA LostWillBe == NoCallLost' <=> \A c \in Clients : Whole(c)'
BY DEF NoCallLost, Whole, Counted, Split, Hand

LEMMA WorkerIs ==
    ASSUME TypeOK, NoCallLost
    PROVE  Counted(job) /\ Split(callback, Hand, left)
BY LostIs DEF TypeOK, Whole, job, callback

LEMMA NoneIn == Good(None) /\ (\A hand, rest : Split(None, hand, rest)) /\ None \in CallbackType
BY NoneGood DEF None, Split

\* The function of worker takes a step, or its call ends.
LEMMA WorkerStep ==
    ASSUME TypeOK, Placed, NEW j \in JobType(worker), Good(j.callback), Becomes(j),
           UNCHANGED worker, Counted(j), Split(j.callback, Hand', left')
    PROVE  JobsIn' /\ Callbacks' /\ NoCallLost' /\ callback' = j.callback
<1>1. JobsIn' /\ Callbacks' /\ jobs'[worker] = j /\ \A c \in Clients : c # worker => jobs'[c] = jobs[c]
  BY BecomesJob DEF Placed, JobsIn
<1>2. \A c \in Clients : Whole(c)
  BY LostIs DEF Placed
<1>3. \A c \in Clients : Whole(c)'
  BY <1>1, <1>2 DEF Whole
<1> QED BY <1>1, <1>3, LostWillBe DEF callback, job

\* It goes on without a result.
LEMMA SameStep ==
    ASSUME TypeOK, Placed, UNCHANGED <<jobs, worker>>, Split(callback, Hand', left')
    PROVE  JobsIn' /\ Callbacks' /\ NoCallLost' /\ callback' = callback
<1>1. \A c \in Clients : Whole(c)
  BY LostIs DEF Placed
<1>2. \A c \in Clients : Whole(c)'
  BY <1>1 DEF Whole, callback, job
<1> QED BY <1>2, LostWillBe DEF Placed, JobsIn, Callbacks, callback, job

\* No function is being called.
LEMMA IdleStep ==
    ASSUME TypeOK, Placed, left = {}, pc # "call_reap", left' = {},
           pc' \notin {"call_reap", "pass", "sleep"}, JobsIn', Callbacks',
           \A c \in Clients : Counted(jobs'[c]) /\ Split(jobs'[c].callback, {}, {})
    PROVE  Placed'
<1>1. \A c \in Clients : Whole(c)'
  BY DEF Whole, Hand
<1> QED BY <1>1, LostWillBe DEF Placed, LeftIn, InCall, InPass, AtHand

LEMMA IdleWhole ==
    ASSUME TypeOK, Placed, left = {}, pc # "call_reap"
    PROVE  \A c \in Clients : /\ jobs[c] \in JobType(c) /\ Good(jobs[c].callback)
                              /\ Counted(jobs[c]) /\ Split(jobs[c].callback, {}, {})
BY LostIs DEF Placed, Whole, Hand, JobsIn, Callbacks

LEMMA ResultCounted ==
    ASSUME NEW c, NEW j \in JobType(c), j.callback # None, Counted(j)
    PROVE  Counted(Result(j)) /\ Result(j) \in JobType(c) /\ Result(j).callback = None
<1>1. j.results \in Nat /\ Len(j.todo) \in Nat
  BY DEF JobType
<1> QED BY <1>1, ResultIn DEF Counted

LEMMA MadeCounted ==
    ASSUME TypeOK, NoCallLost, NEW do, Making(do)
    PROVE  /\ Counted(Result(Made)) /\ Result(Made) \in JobType(worker)
           /\ Result(Made).callback = None
           /\ \A cb \in CallbackType : cb # None =>
                /\ [Made EXCEPT !.callback = cb] \in JobType(worker)
                /\ [Made EXCEPT !.callback = cb].callback = cb
                /\ Counted([Made EXCEPT !.callback = cb])
<1>1. job \in JobType(worker) /\ Counted(job)
  BY WorkerIs DEF TypeOK, job
<1>2. job.results \in Nat /\ Len(job.todo) \in Nat /\ Len(Made.todo) \in Nat
  BY <1>1, MadeIn DEF JobType
<1>3. job.results + Len(Made.todo) + 1 = job.asked
  BY <1>1, <1>2, MadeIn DEF Counted
<1>4. /\ Result(Made) \in JobType(worker) /\ Result(Made).callback = None
      /\ Result(Made).results = job.results + 1 /\ Result(Made).todo = Made.todo
      /\ Result(Made).asked = job.asked
  BY MadeIn, ResultIn
<1>5. Counted(Result(Made))
  BY <1>2, <1>3, <1>4 DEF Counted
<1>6. ASSUME NEW cb \in CallbackType, cb # None
      PROVE  /\ [Made EXCEPT !.callback = cb] \in JobType(worker)
             /\ [Made EXCEPT !.callback = cb].callback = cb
             /\ Counted([Made EXCEPT !.callback = cb])
  <2>1. /\ [Made EXCEPT !.callback = cb] \in JobType(worker)
        /\ [Made EXCEPT !.callback = cb].callback = cb
        /\ [Made EXCEPT !.callback = cb].results = job.results
        /\ [Made EXCEPT !.callback = cb].todo = Made.todo
        /\ [Made EXCEPT !.callback = cb].asked = job.asked
    BY MadeIn, CallbackIn
  <2> QED BY <1>2, <1>3, <1>6, <2>1 DEF Counted
<1> QED BY <1>4, <1>5, <1>6

-----------------------------------------------------------------------------
(* The calls keep their places.                                            *)

LEMMA EndPlaces ==
    ASSUME TypeOK, Placed, pc = "work", UNCHANGED <<worker, left>>,
           pc' \in {"work", "reads", "writes"},
           NEW j \in JobType(worker), Becomes(j), Counted(j), Good(j.callback),
           Split(j.callback, {}, {})
    PROVE  Placed'
<1>1. left = {} /\ Hand' = {}
  BY DEF TypeOK, Hand
<1>2. JobsIn' /\ Callbacks' /\ NoCallLost'
  BY <1>1, WorkerStep
<1> QED BY <1>1, <1>2 DEF Placed, LeftIn, InCall, InPass, AtHand

LEMMA RefusedPlaces ==
    ASSUME TypeOK, Placed, Refused \/ Immediate PROVE Placed'
<1>1. PICK do : Making(do)
  BY DEF Refused, Immediate
<1>2. Becomes(Result(Made)) /\ UNCHANGED thread
  BY DEF Refused, Immediate
<1>3. pc = "work" /\ UNCHANGED <<pc, worker, left>>
  BY <1>1, <1>2 DEF Making, thread
<1>4. Counted(Result(Made)) /\ Result(Made) \in JobType(worker) /\ Result(Made).callback = None
  BY <1>1, MadeCounted DEF Placed
<1> QED BY <1>2, <1>3, <1>4, NoneIn, EndPlaces

LEMMA ForAllPlaces ==
    ASSUME TypeOK, Placed, ForAll PROVE Placed'
<1> DEFINE cb == [None EXCEPT !.how = IF call.do = "startAll" THEN "start" ELSE "stop",
                              !.all = TRUE, !.fresh = TRUE, !.force = call.force]
<1>1. Making({"startAll", "stopAll"}) /\ UNCHANGED thread /\ Becomes([Made EXCEPT !.callback = cb])
  BY DEF ForAll
<1>2. pc = "work" /\ UNCHANGED <<pc, worker, left>>
  BY <1>1 DEF Making, thread
<1>3. call \in CallType
  BY <1>1, MadeIn
<1>4. call.force \in BOOLEAN
  BY <1>3 DEF CallType
<1>5. cb \in CallbackType /\ cb # None /\ Good(cb) /\ Split(cb, {}, {})
  BY <1>4 DEF None, CallbackType, Good, Split
<1> HIDE DEF cb
<1>6. /\ [Made EXCEPT !.callback = cb] \in JobType(worker) /\ Counted([Made EXCEPT !.callback = cb])
      /\ [Made EXCEPT !.callback = cb].callback = cb
  BY <1>1, <1>5, MadeCounted DEF Placed
<1> QED BY <1>1, <1>2, <1>5, <1>6, EndPlaces

\* A call for one program is made.
LEMMA OnePlaces ==
    ASSUME TypeOK, Placed, NEW do, Making(do), UNCHANGED <<worker, left, last>>,
           \/ UNCHANGED pc /\ Becomes(Result(Made))
           \/ \E how \in {"start", "stop"} :
                /\ pc' = "call_reap" /\ turn' \in Programs
                /\ Becomes([Made EXCEPT !.callback.how = how])
    PROVE  Placed'
<1>1. pc = "work" /\ left = {}
  BY DEF Making, TypeOK
<1>2. CASE UNCHANGED pc /\ Becomes(Result(Made))
  <2>1. Counted(Result(Made)) /\ Result(Made) \in JobType(worker) /\ Result(Made).callback = None
    BY MadeCounted DEF Placed
  <2> QED BY <1>1, <1>2, <2>1, NoneIn, EndPlaces
<1>3. ASSUME NEW how \in {"start", "stop"}, pc' = "call_reap", turn' \in Programs,
             Becomes([Made EXCEPT !.callback.how = how])
      PROVE  Placed'
  <2> DEFINE cb == [None EXCEPT !.how = how]
             j == [Made EXCEPT !.callback = cb]
  <2>1. cb \in CallbackType /\ cb # None /\ Good(cb) /\ Split(cb, Hand', left')
    BY DEF None, CallbackType, Good, Split
  <2>2. cb.how = how /\ cb.all = FALSE /\ cb.waits = {} /\ cb.told = {}
    BY DEF None
  <2>3. Made.callback = None
    BY MadeIn
  <2>4. [Made EXCEPT !.callback.how = how] = j
    BY <2>3
  <2> HIDE DEF cb
  <2>5. j \in JobType(worker) /\ Counted(j) /\ j.callback = cb
    BY <2>1, MadeCounted DEF Placed
  <2> HIDE DEF j
  <2>6. JobsIn' /\ Callbacks' /\ NoCallLost' /\ callback' = cb
    BY <1>3, <2>1, <2>4, <2>5, WorkerStep
  <2> QED BY <1>1, <1>3, <2>2, <2>6 DEF Placed, LeftIn, InCall, InPass, AtHand
<1> QED BY <1>2, <1>3

LEMMA ConcludedPlaces ==
    ASSUME TypeOK, Placed, NEW waits \in BOOLEAN, pc = "call_reap", Concluded(waits), Resumes,
           turn' = 0, UNCHANGED <<worker, left>>
    PROVE  Placed'
<1> DEFINE cb == [callback EXCEPT !.waits = IF waits THEN @ \cup {turn} ELSE @,
                                  !.told = IF waits \/ ~callback.all THEN @ ELSE @ \cup {turn}]
           j == [job EXCEPT !.callback = cb]
<1>1. /\ turn \in Programs /\ callback.how \in {"start", "stop"}
      /\ callback.all => ~callback.fresh
      /\ ~callback.all => callback.waits = {}
      /\ turn \notin callback.told \cup callback.waits
  BY DEF Placed, InCall, AtHand
<1>2. callback \in CallbackType /\ job \in JobType(worker) /\ job.callback = callback /\ Good(callback)
  BY JobIn DEF Placed, callback
<1>3. callback # None
  BY <1>1 DEF None
<1>4. Hand = {turn} /\ Hand' = {} /\ turn # 0
  BY <1>1, CallsAssumption DEF Hand
<1>5. Counted(job) /\ Split(callback, {turn}, left)
  BY <1>4, WorkerIs DEF Placed
<1>6. CASE ~(waits \/ callback.all)
  <2>1. Becomes(Result(job)) /\ pc' = "work" /\ left = {}
    BY <1>6 DEF Concluded, Resumes, Placed, InPass
  <2>2. Counted(Result(job)) /\ Result(job) \in JobType(worker) /\ Result(job).callback = None
    BY <1>2, <1>3, <1>5, ResultCounted
  <2>3. JobsIn' /\ Callbacks' /\ NoCallLost'
    BY <2>1, <2>2, NoneIn, WorkerStep
  <2> QED BY <2>1, <2>3 DEF Placed, LeftIn, InCall, InPass, AtHand
<1>7. CASE waits \/ callback.all
  <2>1. /\ cb \in CallbackType /\ cb.how = callback.how /\ cb.all = callback.all
        /\ cb.fresh = callback.fresh
        /\ cb.waits = IF waits THEN callback.waits \cup {turn} ELSE callback.waits
        /\ cb.told = IF waits \/ ~callback.all THEN callback.told ELSE callback.told \cup {turn}
    BY <1>1, <1>2 DEF CallbackType
  <2>2. Becomes(j)
    BY <1>7 DEF Concluded
  <2>3. cb # None
    BY <1>1, <2>1 DEF None
  <2> HIDE DEF cb
  <2>4. Good(cb)
    <3>1. ~callback.fresh
      BY <1>1, <1>2 DEF Good
    <3> QED BY <1>1, <2>1, <3>1 DEF Good
  <2>5. Split(cb, {}, left)
    BY <1>1, <1>5, <2>1 DEF Split
  <2>6. j \in JobType(worker) /\ j.callback = cb /\ j.results = job.results /\ j.todo = job.todo
        /\ j.asked = job.asked
    BY <1>2, <2>1, CallbackIn
  <2>7. Counted(j)
    BY <1>2, <1>3, <1>5, <2>3, <2>6 DEF Counted
  <2> HIDE DEF j
  <2>8. JobsIn' /\ Callbacks' /\ NoCallLost' /\ callback' = cb
    BY <1>4, <2>2, <2>4, <2>5, <2>6, <2>7, WorkerStep
  <2>9. /\ pc' = IF callback.all THEN "pass" ELSE "work"
        /\ ~callback.all => left = {}
    BY DEF Resumes, Placed, InPass
  <2> QED BY <1>1, <2>1, <2>8, <2>9 DEF Placed, LeftIn, InCall, InPass, AtHand
<1> QED BY <1>6, <1>7

LEMMA StartedPlaces == ASSUME TypeOK, Placed, Started PROVE Placed'
<1>1. PICK waits \in BOOLEAN : Concluded(waits)
  BY DEF Started
<1> QED BY <1>1, ConcludedPlaces DEF Started

LEMMA StoppedPlaces == ASSUME TypeOK, Placed, StoppedOne PROVE Placed'
<1>1. Unstopped(procs[turn]) \in BOOLEAN /\ Concluded(Unstopped(procs[turn]))
  BY DEF Unstopped, StoppedOne
<1> QED BY <1>1, ConcludedPlaces DEF StoppedOne

\* A call is made for the program the function has come to ...
LEMMA RunPlaces ==
    ASSUME TypeOK, Placed, NEW k \in left, pc \in {"pass", "sleep"}, callback.how # "none",
           pc' = "call_reap", turn' = k, left' = left \ {k}, UNCHANGED <<jobs, worker>>
    PROVE  Placed'
<1>1. callback \in CallbackType /\ callback.all /\ ~callback.fresh /\ k \in Programs
  BY JobIn DEF Placed, InPass, TypeOK
<1>2. Hand = {} /\ Hand' = {k}
  BY <1>1, CallsAssumption DEF Hand
<1>3. Split(callback, {}, left)
  BY <1>2, WorkerIs DEF Placed
<1>4. Split(callback, {k}, left \ {k}) /\ k \notin callback.told \cup callback.waits
  BY <1>1, <1>3 DEF Split
<1>5. JobsIn' /\ Callbacks' /\ NoCallLost' /\ callback' = callback
  BY <1>2, <1>4, SameStep
<1>6. callback.how \in {"start", "stop"}
  BY <1>1 DEF CallbackType
<1> QED BY <1>1, <1>4, <1>5, <1>6 DEF Placed, LeftIn, InCall, InPass, AtHand

\* ... or its result is there at once.
LEMMA TellPlaces ==
    ASSUME TypeOK, Placed, NEW k \in left, pc \in {"pass", "sleep"}, Tell(k), UNCHANGED worker
    PROVE  Placed'
<1> DEFINE cb == [callback EXCEPT !.told = @ \cup {k}]
           j == [job EXCEPT !.callback = cb]
<1>1. /\ callback \in CallbackType /\ callback.all /\ ~callback.fresh /\ k \in Programs
      /\ callback.how # "none" /\ job \in JobType(worker) /\ job.callback = callback
  BY JobIn DEF Placed, InPass, TypeOK, callback
<1>2. Hand = {} /\ Hand' = {} /\ pc' = "pass" /\ left' = left \ {k}
  BY DEF Hand, Tell
<1>3. Split(callback, {}, left) /\ Counted(job) /\ callback # None
  BY <1>1, <1>2, WorkerIs DEF Placed, None
<1>4. /\ cb \in CallbackType /\ cb.how = callback.how /\ cb.all /\ ~cb.fresh
      /\ cb.waits = callback.waits /\ cb.told = callback.told \cup {k}
  BY <1>1 DEF CallbackType
<1>5. Becomes(j)
  BY <1>1 DEF Tell
<1> HIDE DEF cb
<1>6. Good(cb) /\ Split(cb, {}, left') /\ cb # None
  BY <1>1, <1>2, <1>3, <1>4 DEF Good, Split, None
<1>7. /\ j \in JobType(worker) /\ j.callback = cb /\ j.results = job.results /\ j.todo = job.todo
      /\ j.asked = job.asked
  BY <1>1, <1>4, CallbackIn
<1>8. Counted(j)
  BY <1>1, <1>3, <1>6, <1>7 DEF Counted
<1> HIDE DEF j
<1>9. JobsIn' /\ Callbacks' /\ NoCallLost' /\ callback' = cb
  BY <1>2, <1>5, <1>6, <1>7, <1>8, WorkerStep
<1> QED BY <1>1, <1>2, <1>4, <1>9 DEF Placed, LeftIn, InCall, InPass, AtHand

LEMMA GoPlaces ==
    ASSUME TypeOK, Placed, NEW k \in left, pc \in {"pass", "sleep"}, Go(k),
           UNCHANGED <<worker, last>>
    PROVE  Placed'
<1>1. callback.how # "none"
  BY DEF Placed, InPass
<1>2. \/ pc' = "call_reap" /\ turn' = k /\ left' = left \ {k} /\ UNCHANGED jobs
      \/ Tell(k)
  BY DEF Go
<1> QED BY <1>1, <1>2, RunPlaces, TellPlaces

\* The thread sleeps, or helps the program before along.
LEMMA SleepPlaces ==
    ASSUME TypeOK, Placed, pc \in {"pass", "sleep"}, pc' = "sleep", last # 0,
           UNCHANGED <<jobs, worker, left, last>>
    PROVE  Placed'
<1>1. Hand = {} /\ Hand' = {}
  BY DEF Hand
<1>2. JobsIn' /\ Callbacks' /\ NoCallLost' /\ callback' = callback
  BY <1>1, WorkerIs, SameStep DEF Placed
<1> QED BY <1>2 DEF Placed, LeftIn, InCall, InPass, AtHand

LEMMA PassPlaces ==
    ASSUME TypeOK, Placed, NEW k \in Programs,
           StopNext(k) \/ StartNext(k) \/ Nap(k) \/ SleepEnds(k)
    PROVE  Placed'
<1>1. /\ k \in left /\ pc \in {"pass", "sleep"} /\ UNCHANGED <<worker, last>>
      /\ callback.how # "none"
  BY DEF StopNext, StartNext, Nap, SleepEnds, Next_, Placed, InPass
<1>2. pc = "sleep" => last # 0
  BY DEF Placed, InPass
<1>3. \/ pc' = "call_reap" /\ turn' = k /\ left' = left \ {k} /\ UNCHANGED jobs
      \/ Tell(k) \/ Go(k)
      \/ pc' = "sleep" /\ last # 0 /\ UNCHANGED <<jobs, left>>
  BY <1>2 DEF StopNext, StartNext, Nap, SleepEnds, MustWait
<1> QED BY <1>1, <1>3, RunPlaces, TellPlaces, GoPlaces, SleepPlaces

\* The function looks which programs it still waits for.
LEMMA ChecksPlaces ==
    ASSUME TypeOK, Placed, callback # None, ~callback.fresh, left = {}, pc # "call_reap",
           CheckWaits, UNCHANGED <<worker, left>>
    PROVE  Placed'
<1> DEFINE told == IF callback.all THEN callback.told \cup (callback.waits \ Waiting)
                   ELSE callback.told
           cb == [callback EXCEPT !.waits = Waiting, !.told = told]
           j == [job EXCEPT !.callback = cb]
<1>1. callback \in CallbackType /\ Good(callback) /\ job \in JobType(worker) /\ job.callback = callback
  BY JobIn DEF Placed, callback
<1>2. Hand = {} /\ Hand' = {}
  BY DEF Hand, CheckWaits, Back
<1>3. Split(callback, {}, {}) /\ Counted(job)
  BY <1>2, WorkerIs DEF Placed
<1>4. pc' \in {"work", "reads", "writes"}
  BY DEF CheckWaits, Back
<1>5. CASE Waiting = {}
  <2>1. Becomes(Result(job))
    BY <1>5 DEF CheckWaits
  <2>2. Counted(Result(job)) /\ Result(job) \in JobType(worker) /\ Result(job).callback = None
    BY <1>1, <1>3, ResultCounted
  <2>3. JobsIn' /\ Callbacks' /\ NoCallLost'
    BY <1>2, <2>1, <2>2, NoneIn, WorkerStep
  <2> QED BY <1>4, <2>3 DEF Placed, LeftIn, InCall, InPass, AtHand
<1>6. CASE Waiting # {}
  <2>1. Waiting \subseteq callback.waits
    BY DEF Waiting
  <2>2. /\ cb \in CallbackType /\ cb.how = callback.how /\ cb.all = callback.all
        /\ cb.fresh = callback.fresh /\ cb.waits = Waiting /\ cb.told = told
    BY <1>1, <2>1 DEF CallbackType
  <2>3. Becomes(j)
    BY <1>1, <1>6 DEF CheckWaits
  <2> HIDE DEF cb
  <2>4. Good(cb) /\ cb # None
    BY <1>1, <2>2 DEF Good, None
  <2>5. Split(cb, {}, {})
    BY <1>3, <2>1, <2>2 DEF Split
  <2>6. /\ j \in JobType(worker) /\ j.callback = cb /\ j.results = job.results /\ j.todo = job.todo
        /\ j.asked = job.asked
    BY <1>1, <2>2, CallbackIn
  <2>7. Counted(j)
    BY <1>1, <1>3, <2>4, <2>6 DEF Counted
  <2> HIDE DEF j
  <2>8. JobsIn' /\ Callbacks' /\ NoCallLost'
    BY <1>2, <2>3, <2>4, <2>5, <2>6, <2>7, WorkerStep
  <2> QED BY <1>4, <2>8 DEF Placed, LeftIn, InCall, InPass, AtHand
<1> QED BY <1>5, <1>6

LEMMA EndsPlaces == ASSUME TypeOK, Placed, PassEnds PROVE Placed'
<1>1. callback.how # "none" /\ ~callback.fresh
  BY DEF Placed, InPass, PassEnds
<1>2. callback # None
  BY <1>1 DEF None
<1> QED BY <1>1, <1>2, ChecksPlaces DEF PassEnds

LEMMA AgainPlaces == ASSUME TypeOK, Placed, CallAgain PROVE Placed'
<1>1. pc = "work" /\ left = {} /\ UNCHANGED worker /\ callback # None
  BY DEF CallAgain, TypeOK, Pending, callback, job
<1>2. CASE ~callback.fresh
  BY <1>1, <1>2, ChecksPlaces DEF CallAgain
<1>3. CASE callback.fresh
  <2> DEFINE cb == [callback EXCEPT !.fresh = FALSE]
             j == [job EXCEPT !.callback = cb]
  <2>1. /\ callback \in CallbackType /\ Good(callback) /\ job \in JobType(worker)
        /\ job.callback = callback
    BY JobIn DEF Placed, callback
  <2>2. callback.all /\ callback.told = {} /\ callback.waits = {} /\ callback.how # "none"
    BY <1>1, <1>3, <2>1 DEF Good
  <2>3. /\ cb \in CallbackType /\ cb.how = callback.how /\ cb.all = callback.all
        /\ cb.fresh = FALSE /\ cb.waits = {} /\ cb.told = {}
    BY <2>1, <2>2 DEF CallbackType
  <2>4. Becomes(j) /\ pc' = "pass" /\ left' = Programs
    BY <1>3, <2>1 DEF CallAgain
  <2> HIDE DEF cb
  <2>5. Good(cb) /\ cb # None /\ Split(cb, {}, Programs) /\ Hand' = {}
    BY <2>2, <2>3, <2>4 DEF Good, None, Split, Hand
  <2>6. /\ j \in JobType(worker) /\ j.callback = cb /\ j.results = job.results /\ j.todo = job.todo
        /\ j.asked = job.asked
    BY <2>1, <2>3, CallbackIn
  <2>7. Counted(job)
    BY WorkerIs DEF Placed
  <2>8. Counted(j)
    BY <1>1, <2>1, <2>5, <2>6, <2>7 DEF Counted
  <2> HIDE DEF j
  <2>9. JobsIn' /\ Callbacks' /\ NoCallLost' /\ callback' = cb
    BY <1>1, <2>4, <2>5, <2>6, <2>8, WorkerStep
  <2> QED BY <2>2, <2>3, <2>4, <2>9 DEF Placed, LeftIn, InCall, InPass, AtHand
<1> QED BY <1>2, <1>3

-----------------------------------------------------------------------------
(* The rest of a turn.                                                     *)

LEMMA QuietWhole ==
    ASSUME NEW c
    PROVE  /\ Quiet \in JobType(c) /\ Good(Quiet.callback) /\ Counted(Quiet)
           /\ Quiet.callback = None /\ Split(Quiet.callback, {}, {})
<1>1. Quiet.results = 0 /\ Quiet.asked = 0 /\ Quiet.todo = <<>> /\ Quiet.callback = None
  BY DEF Quiet
<1> QED BY <1>1, QuietType, NoneIn DEF Counted

LEMMA AnswerPlaces == ASSUME TypeOK, Placed, Answer PROVE Placed'
<1>1. pc = "work" /\ Becomes(Quiet) /\ UNCHANGED <<worker, left>> /\ pc' \in {"reads", "writes"}
  BY DEF Answer, Back
<1> QED BY <1>1, QuietWhole, EndPlaces

LEMMA ReceivePlaces ==
    ASSUME TypeOK, Placed, NEW c \in Clients, NEW request \in Requests[c], Receive(c, request)
    PROVE  Placed'
<1> DEFINE j == [jobs[c] EXCEPT !.asked = Len(request), !.todo = request]
<1>1. pc = "reads" /\ left = {} /\ pc' = "work" /\ left' = left /\ jobs[c] = Quiet
  BY DEF Receive, TypeOK
<1>2. jobs' = [jobs EXCEPT ![c] = j] /\ DOMAIN jobs = Clients
  BY DEF Receive, TypeOK
<1>3. jobs'[c] = j /\ \A d \in Clients : d # c => jobs'[d] = jobs[d]
  BY <1>2
<1>4. request \in Seq(CallType) /\ Len(request) \in Lengths(c) /\ Len(request) \in Nat
  <2>1. request \in Seq(CallType)
    BY CallsAssumption
  <2> QED BY <2>1 DEF Lengths
<1>5. j = [Quiet EXCEPT !.asked = Len(request), !.todo = request]
  BY <1>1
<1> HIDE DEF j
<1>6. /\ j.open = TRUE /\ j.asked = Len(request) /\ j.results = 0 /\ j.todo = request
      /\ j.callback = None
  BY <1>5 DEF Quiet
<1>7. j \in JobType(c)
  <2>1. j = [open |-> TRUE, asked |-> Len(request), results |-> 0, todo |-> request,
             callback |-> None]
    BY <1>5 DEF Quiet
  <2> QED BY <1>4, <2>1, NoneIn DEF JobType
<1>8. Counted(j) /\ Good(j.callback) /\ Split(j.callback, {}, {})
  BY <1>4, <1>6, NoneIn DEF Counted
<1>9. \A d \in Clients : /\ jobs'[d] \in JobType(d) /\ Good(jobs'[d].callback)
                         /\ Counted(jobs'[d]) /\ Split(jobs'[d].callback, {}, {})
  BY <1>1, <1>3, <1>7, <1>8, IdleWhole
<1>10. DOMAIN jobs' = Clients
  BY <1>2
<1> QED BY <1>1, <1>9, <1>10, IdleStep DEF JobsIn, Callbacks

LEMMA DisconnectPlaces ==
    ASSUME TypeOK, Placed, NEW c \in Clients, Disconnect(c) PROVE Placed'
<1> DEFINE j == [jobs[c] EXCEPT !.open = FALSE]
<1>1. pc = "reads" /\ left = {} /\ UNCHANGED <<pc, left>>
  BY DEF Disconnect, TypeOK, thread
<1>2. jobs' = [jobs EXCEPT ![c] = j] /\ DOMAIN jobs = Clients
  BY DEF Disconnect, TypeOK
<1>3. jobs'[c] = j /\ \A d \in Clients : d # c => jobs'[d] = jobs[d]
  BY <1>2
<1>4. /\ j \in JobType(c) /\ j.asked = jobs[c].asked /\ j.results = jobs[c].results
      /\ j.todo = jobs[c].todo /\ j.callback = jobs[c].callback
  BY <1>1, IdleWhole DEF JobType
<1> HIDE DEF j
<1>5. Counted(j) /\ Good(j.callback) /\ Split(j.callback, {}, {})
  BY <1>1, <1>4, IdleWhole DEF Counted
<1>6. \A d \in Clients : /\ jobs'[d] \in JobType(d) /\ Good(jobs'[d].callback)
                         /\ Counted(jobs'[d]) /\ Split(jobs'[d].callback, {}, {})
  BY <1>1, <1>3, <1>4, <1>5, IdleWhole
<1>7. DOMAIN jobs' = Clients
  BY <1>2
<1> QED BY <1>1, <1>6, <1>7, IdleStep DEF JobsIn, Callbacks

LEMMA EndTurnPlaces == ASSUME TypeOK, Placed, EndTurn PROVE Placed'
<1>1. pc = "reap" /\ left = {} /\ pc' = "top" /\ UNCHANGED left
  BY DEF EndTurn, TypeOK
<1>2. jobs' = [c \in Clients |-> IF jobs[c].open THEN jobs[c] ELSE Quiet]
  BY DEF EndTurn
<1>3. \A d \in Clients : jobs'[d] = jobs[d] \/ jobs'[d] = Quiet
  BY <1>2
<1>4. \A d \in Clients : /\ jobs'[d] \in JobType(d) /\ Good(jobs'[d].callback)
                         /\ Counted(jobs'[d]) /\ Split(jobs'[d].callback, {}, {})
  BY <1>1, <1>3, IdleWhole, QuietWhole
<1>5. DOMAIN jobs' = Clients
  BY <1>2
<1> QED BY <1>1, <1>4, <1>5, IdleStep DEF JobsIn, Callbacks

\* The thread goes from one place outside the functions to another.
LEMMA TurnPlaces ==
    ASSUME TypeOK, Placed, pc \notin {"call_reap", "pass", "sleep"},
           pc' \notin {"call_reap", "pass", "sleep"}, UNCHANGED <<jobs, left>>
    PROVE  Placed'
<1>1. left = {}
  BY DEF TypeOK
<1>2. JobsIn' /\ Callbacks'
  BY DEF Placed, JobsIn, Callbacks
<1> QED BY <1>1, <1>2, IdleWhole, IdleStep

LEMMA ThreadPlaces ==
    ASSUME TypeOK, Placed, UNCHANGED <<thread, jobs>> PROVE Placed'
<1>1. Hand' = Hand /\ UNCHANGED <<pc, turn, worker, left, last>>
  BY DEF Hand, thread
<1>2. JobsIn' /\ Callbacks' /\ NoCallLost' /\ callback' = callback
  BY <1>1, WorkerIs, SameStep DEF Placed
<1> QED BY <1>1, <1>2 DEF Placed, LeftIn, InCall, InPass, AtHand

LEMMA StepPlaces == TypeOK /\ Placed /\ [Next]_vars => Placed'
<1> SUFFICES ASSUME TypeOK, Placed, [Next]_vars PROVE Placed'
  OBVIOUS
<1>1. CASE StartOne \/ StopOne
  <2>1. PICK do : Making(do)
    BY <1>1 DEF StartOne, StopOne
  <2>2. call \in CallType /\ call.do \in {"start", "stop"}
    <3>1. CASE StartOne
      BY <3>1, MadeIn DEF StartOne
    <3>2. CASE StopOne
      BY <3>2, MadeIn DEF StopOne
    <3> QED BY <1>1, <3>1, <3>2
  <2>3. call.who \in Programs
    BY <2>2 DEF CallType
  <2>4. /\ UNCHANGED <<worker, left, last>>
        /\ \/ UNCHANGED pc /\ Becomes(Result(Made))
           \/ \E how \in {"start", "stop"} :
                /\ pc' = "call_reap" /\ turn' \in Programs
                /\ Becomes([Made EXCEPT !.callback.how = how])
    <3>1. CASE StartOne
      BY <2>3, <3>1 DEF StartOne
    <3>2. CASE StopOne
      BY <2>3, <3>2 DEF StopOne
    <3> QED BY <1>1, <3>1, <3>2
  <2> QED BY <2>1, <2>4, OnePlaces
<1>2. CASE Postpone \/ StartTurn \/ StopAll \/ EndReads \/ EndWrites \/ Transition
  <2>1. /\ pc \notin {"call_reap", "pass", "sleep"}
        /\ pc' \notin {"call_reap", "pass", "sleep"} /\ UNCHANGED <<jobs, left>>
    BY <1>2 DEF Postpone, Back, StartTurn, StopAll, EndReads, EndWrites, Transition
  <2> QED BY <2>1, TurnPlaces
<1>3. ASSUME NEW k \in Programs, Reap(k) \/ Dies(k) PROVE Placed'
  BY <1>3, ThreadPlaces DEF Reap, Dies
<1>4. ASSUME NEW c \in Clients, Poll(c) PROVE Placed'
  BY <1>4, TurnPlaces DEF Poll
<1>5. CASE UNCHANGED vars
  BY <1>5, ThreadPlaces DEF vars
<1> QED BY <1>1, <1>2, <1>3, <1>4, <1>5, RefusedPlaces, ForAllPlaces, StartedPlaces, StoppedPlaces,
        PassPlaces, EndsPlaces, AgainPlaces, AnswerPlaces, ReceivePlaces, DisconnectPlaces,
        EndTurnPlaces
        DEF Next, Work, Loop

-----------------------------------------------------------------------------
(* Types.                                                                  *)

ThreadIn ==
    /\ mood \in {"RUNNING", "SHUTDOWN"} /\ pc \in PCs /\ turn \in Programs \cup {0}
    /\ again \in BOOLEAN /\ worker \in Clients /\ polled \subseteq Clients
    /\ left \subseteq Programs /\ last \in Programs \cup {0} /\ naps \in 0..WaitBound

LEMMA CallNamesProgram ==
    ASSUME TypeOK, Making({"start"}) \/ Making({"stop"})
    PROVE  call.who \in Programs
<1>1. call \in CallType /\ call.do \in {"start", "stop"}
  BY MadeIn
<1> QED BY <1>1 DEF CallType

LEMMA CallsIn ==
    ASSUME TypeOK, Refused \/ Immediate \/ ForAll \/ StartOne \/ StopOne PROVE ThreadIn'
<1>1. CASE Refused \/ Immediate \/ ForAll
  BY <1>1 DEF TypeOK, ThreadIn, Refused, Immediate, ForAll, thread
<1>2. CASE StartOne
  <2>1. /\ turn' = turn \/ turn' = call.who
        /\ pc' = pc \/ pc' = "call_reap"
    BY <1>2 DEF StartOne
  <2> QED BY <1>2, <2>1, CallNamesProgram DEF TypeOK, ThreadIn, StartOne, PCs
<1>3. CASE StopOne
  <2>1. /\ turn' = turn \/ turn' = call.who
        /\ pc' = pc \/ pc' = "call_reap"
    BY <1>3 DEF StopOne
  <2> QED BY <1>3, <2>1, CallNamesProgram DEF TypeOK, ThreadIn, StopOne, PCs
<1> QED BY <1>1, <1>2, <1>3

LEMMA PassIn ==
    ASSUME TypeOK, NEW k \in Programs, StopNext(k) \/ StartNext(k) \/ Nap(k) \/ SleepEnds(k)
    PROVE  ThreadIn'
<1>1. /\ pc' \in {pc, "pass", "call_reap", "sleep"} /\ turn' \in {turn, k}
      /\ left' \subseteq left /\ UNCHANGED <<mood, worker, again, polled, last>>
  BY DEF StopNext, StartNext, Nap, SleepEnds, Go, Tell
<1>2. naps' \in 0..WaitBound
  <2>1. naps' = naps \/ naps' = 0 \/ naps' = WaitBound \/ (naps > 0 /\ naps' = naps - 1)
    BY DEF StopNext, StartNext, Nap, SleepEnds, Go
  <2> QED BY <2>1, CallsAssumption DEF TypeOK
<1> QED BY <1>1, <1>2 DEF TypeOK, ThreadIn, PCs

LEMMA ThreadKept == TypeOK /\ [Next]_vars => ThreadIn'
<1> SUFFICES ASSUME TypeOK, [Next]_vars PROVE ThreadIn'
  OBVIOUS
<1>1. CASE Started
  <2>1. last' \in {last, turn, 0} /\ pc' \in {"pass", "work"} /\ turn' = 0
    BY <1>1 DEF Started, Resumes
  <2> QED BY <1>1, <2>1 DEF TypeOK, ThreadIn, Started, PCs
<1>2. CASE StoppedOne
  <2>1. pc' \in {"pass", "work"}
    BY <1>2 DEF StoppedOne, Resumes
  <2> QED BY <1>2, <2>1 DEF TypeOK, ThreadIn, StoppedOne, PCs
<1>3. CASE CallAgain
  <2>1. /\ pc' \in {"pass", "work", "reads", "writes"} /\ left' \subseteq Programs
        /\ last' \in {last, 0}
    BY <1>3 DEF CallAgain, CheckWaits, Back, TypeOK
  <2> QED BY <1>3, <2>1 DEF TypeOK, ThreadIn, CallAgain, PCs
<1>4. CASE PassEnds \/ Postpone \/ Answer
  <2>1. /\ pc' \in {"work", "reads", "writes"} /\ again' \in {again, FALSE}
        /\ UNCHANGED <<mood, turn, worker, polled, left, last, naps>>
    BY <1>4 DEF PassEnds, Postpone, Answer, CheckWaits, Back
  <2> QED BY <2>1 DEF TypeOK, ThreadIn, PCs
<1>5. CASE StartTurn \/ EndReads \/ EndTurn \/ StopAll
  BY <1>5 DEF TypeOK, ThreadIn, PCs, StartTurn, EndReads, EndTurn, StopAll
<1>6. CASE EndWrites \/ Transition
  BY <1>6, AfterType DEF TypeOK, ThreadIn, PCs, EndWrites, Transition
<1>7. ASSUME NEW k \in Programs, Reap(k) \/ Dies(k) PROVE ThreadIn'
  BY <1>7 DEF TypeOK, ThreadIn, Reap, Dies, thread
<1>8. ASSUME NEW c \in Clients, \/ Poll(c) \/ Disconnect(c)
                                \/ \E request \in Requests[c] : Receive(c, request)
      PROVE  ThreadIn'
  BY <1>8 DEF TypeOK, ThreadIn, Poll, Disconnect, Receive, thread, PCs
<1>9. CASE UNCHANGED vars
  BY <1>9 DEF TypeOK, ThreadIn, vars, thread
<1> QED BY <1>1, <1>2, <1>3, <1>4, <1>5, <1>6, <1>7, <1>8, <1>9, CallsIn, PassIn
        DEF Next, Work, Loop

-----------------------------------------------------------------------------
(* Children that were told to stop.                                        *)

\* A step tells one process to stop, on behalf of worker, or takes children off the lists.
Told(k) == /\ pc' = "call_reap" /\ turn' = k /\ Stop(k) /\ UNCHANGED worker
           /\ callback'.how = "stop"

LEMMA VictimStep ==
    ASSUME TypeOK, Placed, [Next]_vars
    PROVE  \/ \E k \in Programs : Told(k)
           \/ UNCHANGED victims
           \/ \E k \in Programs : victims' = [c \in Clients |-> victims[c] \ {k}]
           \/ victims' = [c \in Clients |-> IF jobs[c].open THEN victims[c] ELSE {}]
<1>1. CASE StopOne
  <2>1. call.who \in Programs /\ worker \in Clients /\ DOMAIN jobs = Clients
    BY <1>1, CallNamesProgram DEF StopOne, TypeOK
  <2>2. CASE ~Running(call.who)
    BY <1>1, <2>2 DEF StopOne
  <2>3. CASE Running(call.who)
    <3>1. /\ Stop(call.who) /\ pc' = "call_reap" /\ turn' = call.who /\ UNCHANGED worker
          /\ Becomes([Made EXCEPT !.callback.how = "stop"])
      BY <1>1, <2>3 DEF StopOne
    <3>2. Made \in JobType(worker) /\ Made.callback \in CallbackType
      BY <1>1, MadeIn, NoneIn DEF StopOne
    <3>3. [Made EXCEPT !.callback.how = "stop"].callback.how = "stop"
      BY <3>2 DEF JobType, CallbackType
    <3>4. callback'.how = "stop"
      BY <2>1, <3>1, <3>3 DEF Becomes, callback, job
    <3> QED BY <2>1, <3>1, <3>4 DEF Told
  <2> QED BY <2>2, <2>3
<1>2. ASSUME NEW k \in Programs, StopNext(k)
      PROVE  UNCHANGED victims \/ Told(k)
  BY <1>2 DEF StopNext, Told, callback, job
<1>3. CASE Refused \/ Immediate \/ ForAll \/ StartOne \/ Started \/ StoppedOne \/ CallAgain
           \/ PassEnds \/ Postpone \/ Answer
           \/ \E k \in Programs : StartNext(k) \/ Nap(k) \/ SleepEnds(k)
  BY <1>3 DEF Refused, Immediate, ForAll, StartOne, Started, StoppedOne, CallAgain, PassEnds,
     Postpone, Answer, StartNext, Nap, SleepEnds
<1>4. CASE StartTurn \/ StopAll \/ EndReads \/ EndWrites \/ Transition \/ EndTurn \/ UNCHANGED vars
  BY <1>4 DEF StartTurn, StopAll, EndReads, EndWrites, Transition, EndTurn, vars
<1>5. ASSUME NEW k \in Programs, Reap(k)
      PROVE  victims' = [c \in Clients |-> victims[c] \ {k}]
  BY <1>5 DEF Reap
<1>6. ASSUME NEW k \in Programs, Dies(k) PROVE UNCHANGED victims
  BY <1>6 DEF Dies
<1>7. ASSUME NEW c \in Clients, \/ Poll(c) \/ Disconnect(c)
                                \/ \E request \in Requests[c] : Receive(c, request)
      PROVE  UNCHANGED victims
  BY <1>7 DEF Poll, Disconnect, Receive
<1> QED BY <1>1, <1>2, <1>3, <1>4, <1>5, <1>6, <1>7 DEF Next, Work, Loop

\* The children that are on the list of c after a step were before, or were told just now.
LEMMA VictimsKept ==
    ASSUME TypeOK, Placed, [Next]_vars
    PROVE  /\ victims' \in [Clients -> SUBSET Programs]
           /\ \A c \in Clients : \A k \in victims'[c] :
                k \in victims[c] \/ (c = worker /\ Told(k) /\ procs[k].child # "none")
<1>0. victims \in [Clients -> SUBSET Programs] /\ worker \in Clients
  BY DEF TypeOK
<1>1. ASSUME NEW k \in Programs, Told(k)
      PROVE  /\ victims' \in [Clients -> SUBSET Programs]
             /\ \A c \in Clients : \A i \in victims'[c] :
                  i \in victims[c] \/ (c = worker /\ i = k /\ procs[k].child # "none")
  <2>1. victims' = [victims EXCEPT ![worker] = IF procs[k].child = "none" THEN victims[worker]
                                               ELSE victims[worker] \cup {k}]
    BY <1>0, <1>1 DEF Told, Stop
  <2> QED BY <1>0, <2>1
<1>2. ASSUME NEW k \in Programs, victims' = [c \in Clients |-> victims[c] \ {k}]
      PROVE  /\ victims' \in [Clients -> SUBSET Programs]
             /\ \A c \in Clients : victims'[c] \subseteq victims[c]
  BY <1>0, <1>2
<1>3. ASSUME victims' = [c \in Clients |-> IF jobs[c].open THEN victims[c] ELSE {}]
      PROVE  /\ victims' \in [Clients -> SUBSET Programs]
             /\ \A c \in Clients : victims'[c] \subseteq victims[c]
  BY <1>0, <1>3
<1>4. CASE UNCHANGED victims
  BY <1>0, <1>4
<1>5. CASE \E k \in Programs : Told(k)
  BY <1>1, <1>5
<1> QED BY <1>2, <1>3, <1>4, <1>5, VictimStep

\* The function of c waits for the child of k to be reaped.
Waits(c, k) == /\ jobs[c].callback.how = "stop"
               /\ k \in jobs[c].callback.waits \/ (c = worker /\ pc = "call_reap" /\ turn = k)

LEMMA OthersWait ==
    ASSUME TypeOK, NEW c \in Clients, NEW k, Waits(c, k), c # worker, NEW j, Becomes(j)
           \/ UNCHANGED jobs
    PROVE  Waits(c, k)'
<1>1. jobs'[c] = jobs[c]
  BY DEF Becomes, TypeOK
<1> QED BY <1>1 DEF Waits

\* The thread is not in a function, so that the program is waited for in the callback.
LEMMA CallbackWaits ==
    ASSUME NEW c \in Clients, NEW k, Waits(c, k), c # worker \/ pc # "call_reap",
           jobs'[c].callback = jobs[c].callback
    PROVE  Waits(c, k)'
BY DEF Waits

LEMMA WorkerWaits ==
    ASSUME TypeOK, NEW c \in Clients, c = worker, NEW k, NEW j, Becomes(j),
           j.callback.how = "stop", k \in j.callback.waits
    PROVE  Waits(c, k)'
<1>1. jobs'[worker] = j
  BY DEF Becomes, TypeOK
<1> QED BY <1>1 DEF Waits

LEMMA ConcludedWaits ==
    ASSUME TypeOK, Placed, NEW c \in Clients, c = worker, NEW k, Waits(c, k), Unstopped(procs[k]),
           pc = "call_reap", StoppedOne
    PROVE  Waits(c, k)'
<1> DEFINE waits == Unstopped(procs[turn])
           cb == [callback EXCEPT !.waits = IF waits THEN @ \cup {turn} ELSE @,
                                  !.told = IF waits \/ ~callback.all THEN @ ELSE @ \cup {turn}]
           j == [job EXCEPT !.callback = cb]
<1>1. callback \in CallbackType /\ job \in JobType(worker)
  BY JobIn DEF Placed
<1>2. callback.how = "stop" /\ (k \in callback.waits \/ turn = k)
  BY DEF Waits, callback, job
<1>3. ~callback.all => callback.waits = {}
  BY DEF Placed, InCall
<1>4. Becomes(IF waits \/ callback.all THEN j ELSE Result(job))
  BY DEF StoppedOne, Concluded
<1>5. waits \/ callback.all
  BY <1>2, <1>3
<1>6. Becomes(j)
  BY <1>4, <1>5
<1>7. cb.how = "stop" /\ cb.waits = IF waits THEN callback.waits \cup {turn} ELSE callback.waits
  BY <1>1, <1>2 DEF CallbackType
<1>8. j.callback = cb
  BY <1>1 DEF JobType
<1>9. k \in cb.waits
  BY <1>2, <1>7
<1> HIDE DEF j, cb
<1> QED BY <1>6, <1>7, <1>8, <1>9, WorkerWaits

LEMMA ChecksWait ==
    ASSUME TypeOK, Placed, NEW c \in Clients, c = worker, NEW k, Waits(c, k),
           Unstopped(procs[k]), pc # "call_reap", CheckWaits
    PROVE  Waits(c, k)'
<1> DEFINE cb == [callback EXCEPT !.waits = Waiting,
                      !.told = IF callback.all THEN @ \cup (callback.waits \ Waiting) ELSE @]
           j == [job EXCEPT !.callback = cb]
<1>1. callback \in CallbackType /\ job \in JobType(worker) /\ job.callback = callback
  BY JobIn DEF Placed, callback
<1>2. callback.how = "stop" /\ k \in callback.waits
  BY DEF Waits, callback, job
<1>3. k \in Waiting
  BY <1>2 DEF Waiting
<1>4. Becomes(j)
  BY <1>1, <1>3 DEF CheckWaits
<1>5. cb.how = "stop" /\ cb.waits = Waiting
  BY <1>1, <1>2 DEF CallbackType
<1>6. j.callback = cb
  BY <1>1 DEF JobType
<1> HIDE DEF j, cb
<1> QED BY <1>3, <1>4, <1>5, <1>6, WorkerWaits

LEMMA TellWaits ==
    ASSUME TypeOK, Placed, NEW c \in Clients, c = worker, NEW k, Waits(c, k),
           NEW i, Tell(i), pc # "call_reap"
    PROVE  Waits(c, k)'
<1> DEFINE cb == [callback EXCEPT !.told = @ \cup {i}]
           j == [job EXCEPT !.callback = cb]
<1>1. callback \in CallbackType /\ job \in JobType(worker) /\ job.callback = callback
  BY JobIn DEF Placed, callback
<1>2. callback.how = "stop" /\ k \in callback.waits
  BY DEF Waits, callback, job
<1>3. Becomes(j)
  BY <1>1 DEF Tell
<1>4. cb.how = callback.how /\ cb.waits = callback.waits /\ j.callback = cb
  BY <1>1 DEF CallbackType, JobType
<1> HIDE DEF j, cb
<1> QED BY <1>2, <1>3, <1>4, WorkerWaits

LEMMA WaitsKept ==
    ASSUME TypeOK, Placed, [Next]_vars, NEW c \in Clients, NEW k \in victims[c], k \in victims'[c],
           procs[k].state = "STOPPING", Waits(c, k)
    PROVE  Waits(c, k)'
<1>0. Unstopped(procs[k]) /\ jobs[c].callback.how = "stop" /\ jobs[c].callback # None
  BY DEF Unstopped, ALL_STOPPED_STATES, Waits, None
<1>1. CASE Refused \/ Immediate \/ ForAll \/ StartOne \/ StopOne
  <2>1. job.callback = None
    <3>1. PICK do : Making(do)
      BY <1>1 DEF Refused, Immediate, ForAll, StartOne, StopOne
    <3> QED BY <3>1, MadeIn
  <2>2. c # worker
    BY <1>0, <2>1 DEF job
  <2>3. \E j : Becomes(j)
    BY <1>1 DEF Refused, Immediate, ForAll, StartOne, StopOne
  <2> QED BY <2>2, <2>3, OthersWait
<1>2. CASE Started
  <2>1. c # worker
    BY <1>0, <1>2 DEF Started, callback, job
  <2>2. \E j : Becomes(j)
    BY <1>2 DEF Started, Concluded
  <2> QED BY <2>1, <2>2, OthersWait
<1>3. CASE StoppedOne
  <2>1. \E j : Becomes(j)
    BY <1>3 DEF StoppedOne, Concluded
  <2>2. pc = "call_reap"
    BY <1>3 DEF StoppedOne
  <2> QED BY <1>0, <1>3, <2>1, <2>2, OthersWait, ConcludedWaits
<1>4. CASE CallAgain \/ PassEnds
  <2>1. pc # "call_reap" /\ \E j : Becomes(j)
    BY <1>4 DEF CallAgain, PassEnds, CheckWaits
  <2>2. CASE CheckWaits
    BY <1>0, <2>1, <2>2, OthersWait, ChecksWait
  <2>3. CASE ~CheckWaits
    <3>1. CallAgain /\ callback.fresh
      BY <1>4, <2>3 DEF CallAgain, PassEnds
    <3>2. callback.waits = {}
      BY <3>1, JobIn DEF Placed, Good
    <3>3. c # worker
      BY <2>1, <3>2 DEF Waits, callback, job
    <3> QED BY <2>1, <3>3, OthersWait
  <2> QED BY <2>2, <2>3
<1>5. CASE Answer
  <2>1. c # worker /\ Becomes(Quiet)
    BY <1>0, <1>5 DEF Answer, Pending
  <2> QED BY <2>1, OthersWait
<1>6. ASSUME NEW i \in Programs, StopNext(i) \/ StartNext(i) \/ Nap(i) \/ SleepEnds(i)
      PROVE  Waits(c, k)'
  <2>1. pc # "call_reap" /\ (UNCHANGED jobs \/ Tell(i))
    BY <1>6 DEF StopNext, StartNext, Nap, SleepEnds, Go
  <2>2. CASE UNCHANGED jobs
    BY <2>1, <2>2, CallbackWaits
  <2>3. CASE Tell(i)
    <3>1. \E j : Becomes(j)
      BY <2>3 DEF Tell
    <3> QED BY <2>1, <2>3, <3>1, OthersWait, TellWaits
  <2> QED BY <2>1, <2>2, <2>3
<1>7. CASE Postpone \/ StartTurn \/ StopAll \/ EndReads \/ EndWrites \/ Transition
           \/ \E d \in Clients : Poll(d)
  <2>1. pc # "call_reap" /\ UNCHANGED jobs
    BY <1>7 DEF Postpone, StartTurn, StopAll, EndReads, EndWrites, Transition, Poll
  <2> QED BY <2>1, CallbackWaits
<1>8. CASE EndTurn
  <2>1. /\ jobs' = [d \in Clients |-> IF jobs[d].open THEN jobs[d] ELSE Quiet]
        /\ victims' = [d \in Clients |-> IF jobs[d].open THEN victims[d] ELSE {}]
        /\ pc # "call_reap"
    BY <1>8 DEF EndTurn
  <2>2. jobs'[c] = jobs[c]
    BY <2>1
  <2> QED BY <2>1, <2>2, CallbackWaits
<1>9. CASE UNCHANGED <<thread, jobs>>
  BY <1>9 DEF Waits, thread
<1>10. CASE (\E i \in Programs : Reap(i) \/ Dies(i)) \/ UNCHANGED vars
  BY <1>9, <1>10 DEF Reap, Dies, vars
<1>11. ASSUME NEW d \in Clients, Disconnect(d) PROVE Waits(c, k)'
  <2>1. jobs' = [jobs EXCEPT ![d].open = FALSE] /\ pc # "call_reap"
    BY <1>11 DEF Disconnect
  <2>2. jobs'[c].callback = jobs[c].callback
    BY <2>1 DEF TypeOK, JobType
  <2> QED BY <2>1, <2>2, CallbackWaits
<1>12. ASSUME NEW d \in Clients, NEW request \in Requests[d], Receive(d, request)
       PROVE  Waits(c, k)'
  <2>1. /\ jobs' = [jobs EXCEPT ![d].asked = Len(request), ![d].todo = request]
        /\ pc # "call_reap"
    BY <1>12 DEF Receive
  <2>2. jobs'[c].callback = jobs[c].callback
    BY <2>1 DEF TypeOK, JobType
  <2> QED BY <2>1, <2>2, CallbackWaits
<1> QED BY <1>1, <1>2, <1>3, <1>4, <1>5, <1>6, <1>7, <1>8, <1>10, <1>11, <1>12
        DEF Next, Work, Loop

LEMMA StepVictims ==
    ASSUME TypeOK, ProcsSound, Placed, VictimsWaited, [Next]_vars
    PROVE  VictimsWaited'
<1> SUFFICES ASSUME NEW c \in Clients, NEW k \in victims'[c]
             PROVE  procs'[k].state = "STOPPING" /\ Waits(c, k)'
  BY DEF VictimsWaited, Waits
<1>1. CASE k \in victims[c]
  <2>1. procs[k].state = "STOPPING" /\ Waits(c, k) /\ k \in Programs
    BY <1>1 DEF VictimsWaited, Waits, TypeOK
  <2>2. Waits(c, k)'
    BY <1>1, <2>1, WaitsKept
  <2>3. ~(victims' = [d \in Clients |-> victims[d] \ {k}])
    OBVIOUS
  <2> QED BY <2>1, <2>2, <2>3, ProcsKept
<1>2. CASE c = worker /\ Told(k) /\ procs[k].child # "none"
  <2>1. k \in Programs /\ procs' = [procs EXCEPT ![k] = Stops(procs[k], Config[k])]
    BY <1>2, VictimsKept DEF Told, Stop, TypeOK
  <2>2. Sound(procs[k]) /\ procs'[k] = Stops(procs[k], Config[k])
    BY <2>1 DEF ProcsSound, TypeOK
  <2>3. procs'[k].state = "STOPPING"
    BY <1>2, <2>2 DEF Sound, Alive, Stops, At, OutlineType
  <2>4. Waits(c, k)'
    BY <1>2 DEF Told, Waits, callback, job
  <2> QED BY <2>3, <2>4
<1> QED BY <1>1, <1>2, VictimsKept

-----------------------------------------------------------------------------
(* The invariant.                                                          *)

LEMMA InitInv == Init => IInv
<1> SUFFICES ASSUME Init PROVE IInv
  OBVIOUS
<1>1. /\ procs = [k \in Programs |-> Fresh(Config[k])] /\ mood = "RUNNING"
      /\ pc = "top" /\ turn = 0 /\ worker \in Clients /\ again = FALSE /\ polled = {}
      /\ left = {} /\ last = 0 /\ naps = 0
      /\ jobs = [c \in Clients |-> Quiet] /\ victims = [c \in Clients |-> {}]
  BY DEF Init
<1>2. ProcsSound
  BY <1>1, FreshSound DEF ProcsSound
<1>3. procs \in [Programs -> OutlineType]
  <2>1. \A k \in Programs : Fresh(Config[k]) \in OutlineType
    BY FreshSound DEF Sound
  <2> QED BY <1>1, <2>1
<1>4. JobsIn
  BY <1>1, QuietWhole DEF JobsIn
<1>5. TypeOK
  <2>1. naps \in 0..WaitBound
    BY <1>1, CallsAssumption
  <2>2. victims \in [Clients -> SUBSET Programs]
    BY <1>1
  <2> QED BY <1>1, <1>3, <1>4, <2>1, <2>2 DEF TypeOK, PCs, JobsIn
<1>6. \A c \in Clients : Whole(c)
  BY <1>1, QuietWhole DEF Whole, Hand
<1>7. Callbacks
  BY <1>1, QuietWhole DEF Callbacks
<1>8. Placed
  BY <1>1, <1>4, <1>6, <1>7, LostIs DEF Placed, LeftIn, InCall, InPass, AtHand
<1>9. VictimsWaited
  BY <1>1 DEF VictimsWaited
<1> QED BY <1>2, <1>5, <1>8, <1>9 DEF IInv

LEMMA StepInv == IInv /\ [Next]_vars => IInv'
<1> SUFFICES ASSUME TypeOK, ProcsSound, Placed, VictimsWaited, [Next]_vars PROVE IInv'
  BY DEF IInv
<1>1. ProcsSound' /\ procs' \in [Programs -> OutlineType]
  BY ProcsKept
<1>2. Placed'
  BY StepPlaces
<1>3. ThreadIn'
  BY ThreadKept
<1>4. victims' \in [Clients -> SUBSET Programs]
  BY VictimsKept
<1>5. TypeOK'
  BY <1>1, <1>2, <1>3, <1>4 DEF TypeOK, Placed, JobsIn, LeftIn, ThreadIn
<1> QED BY <1>1, <1>2, <1>5, StepVictims DEF IInv

\* What the theorems below rest on holds in every state: a program of a call is in one place,
\* and a child told to stop is waited for.
THEOREM Invariance == Spec => []IInv
BY InitInv, StepInv, PTL DEF Spec

\* The state of the daemon's thread, the jobs and the callbacks have their types, and only the
\* function for all programs has programs it has not come to (rpcinterface.py, xmlrpc.py).
THEOREM TypeCorrect == Spec => []TypeOK
<1>1. IInv => TypeOK
  BY DEF IInv
<1> QED BY <1>1, Invariance, PTL

\* Each call of a request has one result or is in one place: make_allfunc() and
\* make_startallfunc() neither drop a program nor tell of one twice.
THEOREM EveryCallCounts == Spec => []NoCallLost
<1>1. IInv => NoCallLost
  BY DEF IInv, Placed
<1> QED BY <1>1, Invariance, PTL

\* The answer to a request leaves none of the children it told to stop unreaped: the function of
\* stopProcess() waits as long as the process is not stopped.
THEOREM StopsAreAnswered == Spec => StopAnswered
<1>1. IInv /\ [Next]_vars => [Answer => victims[worker] = {}]_vars
  <2> SUFFICES ASSUME IInv, Answer PROVE victims[worker] = {}
    OBVIOUS
  <2>1. jobs[worker].callback = None /\ worker \in Clients
    BY DEF Answer, Pending, IInv, TypeOK
  <2>2. jobs[worker].callback.how # "stop"
    BY <2>1 DEF None
  <2>3. \A k \in victims[worker] : jobs[worker].callback.how = "stop"
    BY <2>1 DEF IInv, VictimsWaited
  <2> QED BY <2>2, <2>3
<1> QED BY <1>1, Invariance, PTL DEF Spec, StopAnswered

\* Once shutdown() was called no function of an earlier call starts a child: startProcess() looks
\* at the mood, and so does transition().
THEOREM ShutdownHolds == Spec => ShutdownStartsNothing
<1>1. IInv /\ [Next]_vars =>
        [mood # "RUNNING" =>
           \A k \in Programs : procs[k].child = "none" => procs'[k].child = "none"]_vars
  BY ProcsKept DEF IInv
<1> QED BY <1>1, Invariance, PTL DEF Spec, ShutdownStartsNothing

\* startAll() gives a program that is to wait for the one before it a child only when that one
\* runs: make_startallfunc() with wait_transition() (rpcinterface.py).
THEOREM StartAllIsInOrder == Spec => StartAllInOrder
<1> DEFINE Ordered == \A k \in Programs :
             /\ pc \in {"pass", "sleep"} /\ Config[k].waits /\ Config[k].fails
             /\ procs[k].child = "none" /\ procs'[k].child # "none"
             => last = 0 \/ procs[last].state = "RUNNING"
<1>1. ASSUME TypeOK, ProcsSound, Next PROVE Ordered
  <2> SUFFICES ASSUME NEW k \in Programs, pc \in {"pass", "sleep"}, Config[k].waits, Config[k].fails,
                      procs[k].child = "none", procs'[k].child # "none",
                      last # 0, procs[last].state # "RUNNING"
               PROVE  FALSE
    OBVIOUS
  <2>1. Sound(procs[k]) /\ procs \in [Programs -> OutlineType] /\ last \in Programs /\ Sound(procs[last])
    <3>1. last \in Programs /\ procs \in [Programs -> OutlineType]
      BY <1>1 DEF TypeOK
    <3> QED BY <1>1, <3>1 DEF ProcsSound
  <2>2. ~(UNCHANGED procs)
    OBVIOUS
  <2>3. PICK i \in Programs : StopNext(i) \/ StartNext(i) \/ Nap(i) \/ SleepEnds(i) \/ Dies(i)
    <3>1. ~(Refused \/ Immediate \/ ForAll \/ StartOne \/ StopOne)
      BY DEF Refused, Immediate, ForAll, StartOne, StopOne, Making
    <3>2. ~(Started \/ StoppedOne \/ CallAgain \/ PassEnds \/ Postpone \/ Answer)
      BY <2>2 DEF Started, StoppedOne, CallAgain, PassEnds, Postpone, Answer
    <3>3. ~Loop
      BY DEF Loop, StartTurn, StopAll, EndReads, EndWrites, Transition, EndTurn, Reap
    <3>4. \A c \in Clients : ~Poll(c) /\ ~Disconnect(c) /\ \A request \in Requests[c] : ~Receive(c, request)
      BY DEF Poll, Disconnect, Receive
    <3> QED BY <1>1, <3>1, <3>2, <3>3, <3>4 DEF Next, Work
  <2>4. \A j \in Programs : \A o : procs' = [procs EXCEPT ![j] = o] => j = k /\ o = procs'[k]
    BY <2>1
  <2>5. CASE StopNext(i)
    <3>1. procs' = [procs EXCEPT ![i] = Stops(procs[i], Config[i])]
      BY <2>2, <2>5 DEF StopNext, Stop
    <3>2. procs'[k] = Stops(procs[k], Config[k])
      BY <2>4, <3>1
    <3> QED BY <2>1, <3>2, StopsSound
  <2>6. ASSUME Dies(i) PROVE FALSE
    <3>1. procs' = [procs EXCEPT ![i] = [procs[i] EXCEPT !.child = "zombie"]]
      BY <2>1, <2>6 DEF Dies
    <3>2. i = k
      BY <2>4, <3>1
    <3> QED BY <2>6, <3>2 DEF Dies
  <2>7. ASSUME Go(i) PROVE i = k /\ procs[k].state \in Waitable \cup RUNNING_STATES
    <3>1. \E o : procs' = [procs EXCEPT ![i] = o]
      BY <2>7 DEF Go, Spawn, Unready
    <3>2. procs[k].state \in Waitable \cup RUNNING_STATES
      BY <2>1 DEF Sound, Alive, OutlineType, ProcessStates, Waitable, RUNNING_STATES
    <3> QED BY <2>4, <3>1, <3>2
  <2>8. ASSUME StartNext(i) PROVE FALSE
    <3>1. Starts(i) /\ ~MustWait(i) /\ Go(i)
      BY <2>2, <2>8 DEF StartNext
    <3> QED BY <2>7, <3>1 DEF Starts, Running, MustWait
  <2>9. ASSUME Nap(i) PROVE FALSE
    <3>1. PICK o \in Transitions(procs[last], Config[last], mood) :
            procs' = [procs EXCEPT ![last] = o] /\ procs[last].state = "STARTING"
      BY <2>2, <2>9 DEF Nap
    <3>2. last = k
      BY <2>1, <2>4, <3>1
    <3> QED BY <2>1, <3>1, <3>2 DEF Sound, Alive
  <2>10. ASSUME SleepEnds(i) PROVE FALSE
    <3>1. ~Config[i].fails /\ Go(i)
      BY <2>2, <2>10 DEF SleepEnds
    <3> QED BY <2>7, <3>1
  <2> QED BY <2>3, <2>5, <2>6, <2>8, <2>9, <2>10
<1>2. IInv /\ [Next]_vars => [Ordered]_vars
  BY <1>1 DEF IInv
<1> QED BY <1>2, Invariance, PTL DEF Spec, StartAllInOrder

-----------------------------------------------------------------------------
(* The promise of a program.                                               *)

\* What ManagedProgram is told of an outline, and what it allows to become of it.
Status(o) == IF o.child = "none" THEN "down" ELSE IF o.state = "STOPPING" THEN "ending" ELSE "up"
Instances(o) == IF o.child \in {"up", "killed"} THEN 1 ELSE 0
Allowed(o, q) ==
    \/ Status(q) = Status(o) /\ Instances(q) = Instances(o)
    \/ Status(o) = "down" /\ Instances(o) = 0 /\ Status(q) = "up" /\ Instances(q) = 1
    \/ Instances(o) = 1 /\ Instances(q) = 0 /\ Status(q) = Status(o)
    \/ Status(o) = "up" /\ Status(q) = "ending" /\ Instances(q) = Instances(o)
    \/ Status(o) # "down" /\ Instances(o) = 0 /\ Status(q) = "down" /\ Instances(q) = 0

\* A new state of a process whose child stays as it is.
LEMMA AtAllowed ==
    ASSUME NEW o \in OutlineType, NEW new \in ProcessStates, NEW c,
           o.child = "none" \/ new = "STOPPING" \/ (o.state # "STOPPING" /\ new = "RUNNING")
    PROVE  Allowed(o, At(o, new, c))
<1> DEFINE q == At(o, new, c)
<1>1. /\ q.child = o.child
      /\ new = "STOPPING" => q.state = "STOPPING"
      /\ new = "RUNNING" => q.state = "RUNNING"
  BY DEF At, OutlineType
<1> HIDE DEF q
<1>2. Allowed(o, q)
  BY <1>1 DEF Allowed, Status, Instances
<1> QED BY <1>2 DEF q

LEMMA ChildAllowed ==
    ASSUME NEW o \in OutlineType, NEW ch \in {"killed", "zombie"},
           o.child \in {"up", "killed"}
    PROVE  Allowed(o, [o EXCEPT !.child = ch])
<1> DEFINE q == [o EXCEPT !.child = ch]
<1>1. q.child = ch /\ q.state = o.state
  BY DEF OutlineType
<1> HIDE DEF q
<1>2. Allowed(o, q)
  BY <1>1 DEF Allowed, Status, Instances
<1> QED BY <1>2 DEF q

LEMMA SpawnAllowed ==
    ASSUME NEW o \in OutlineType, NEW q \in Spawns(o)
    PROVE  Allowed(o, q)
BY DEF Spawns, Allowed, Status, Instances

LEMMA StopsAllowed ==
    ASSUME NEW o, Sound(o), NEW c
    PROVE  Allowed(o, Stops(o, c)) /\ Allowed(o, StopsAll(o, c))
<1>1. o \in OutlineType /\ (o.state \in {"BACKOFF"} => o.child = "none")
  BY DEF Sound, Alive
<1>2. Allowed(o, o)
  BY DEF Allowed
<1>3. \A s \in {"STOPPED", "STOPPING", "FATAL"} : s \in ProcessStates
  BY DEF ProcessStates
<1>4. Allowed(o, Stops(o, c))
  BY <1>1, <1>2, <1>3, AtAllowed DEF Stops
<1>5. Allowed(o, StopsAll(o, c))
  BY <1>1, <1>2, <1>3, <1>4, AtAllowed DEF StopsAll
<1> QED BY <1>4, <1>5

LEMMA TransitionsAllowed ==
    ASSUME NEW o, Sound(o), NEW c, NEW m, NEW q \in Transitions(o, c, m)
    PROVE  Allowed(o, q)
<1>1. o \in OutlineType /\ (o.state = "BACKOFF" => o.child = "none")
  BY DEF Sound, Alive
<1>2. Allowed(o, o)
  BY DEF Allowed
<1>3. /\ o.state = "STARTING" => Allowed(o, At(o, "RUNNING", c))
      /\ o.state = "BACKOFF" => Allowed(o, At(o, "FATAL", c))
  BY <1>1, AtAllowed DEF ProcessStates
<1>4. Allowed(o, Killed(o))
  <2>1. CASE o.child = "up"
    <3>1. Killed(o) = [o EXCEPT !.child = "killed"]
      BY <2>1 DEF Killed
    <3> QED BY <1>1, <2>1, <3>1, ChildAllowed
  <2>2. CASE o.child # "up"
    <3>1. Killed(o) = o
      BY <1>1, <2>2 DEF Killed, OutlineType
    <3> QED BY <1>2, <3>1
  <2> QED BY <2>1, <2>2
<1>5. \/ q = o
      \/ o.state = "STARTING" /\ q = At(o, "RUNNING", c)
      \/ q = Killed(o)
      \/ o.state = "BACKOFF" /\ q = At(o, "FATAL", c)
      \/ q \in Spawns(o)
  BY DEF Transitions
<1> QED BY <1>1, <1>2, <1>3, <1>4, <1>5, SpawnAllowed

LEMMA FinishAllowed ==
    ASSUME NEW o \in OutlineType, o.child = "zombie", NEW c, NEW q \in Finishes(o, c)
    PROVE  Allowed(o, q)
<1>1. q.child = "none"
  BY DEF Finishes, At, OutlineType
<1> QED BY <1>1 DEF Allowed, Status, Instances

LEMMA StepAllowed ==
    ASSUME NEW k \in Programs, Sound(procs[k]), Stepped(k)
    PROVE  Allowed(procs[k], procs'[k])
<1> DEFINE o == procs[k]
           q == procs'[k]
           r == Readied(o)
<1>1. o \in OutlineType /\ Allowed(o, o)
  BY DEF Sound, Allowed
<1>2. r \in OutlineType /\ Status(r) = Status(o) /\ Instances(r) = Instances(o)
  <2>1. CASE o.state = "DISABLED"
    <3>1. r.state = "STOPPED" /\ r.child = o.child /\ r.started = o.started /\ r \in OutlineType
      BY <1>1, <2>1 DEF Readied, OutlineType, ProcessStates
    <3> HIDE DEF r
    <3> QED BY <2>1, <3>1 DEF Status, Instances
  <2>2. CASE o.state # "DISABLED"
    BY <1>1, <2>2 DEF Readied
  <2> QED BY <2>1, <2>2
<1>3. ASSUME NEW p, Allowed(r, p)
      PROVE  Allowed(o, p)
  <2> HIDE DEF r, o
  <2> QED BY <1>2, <1>3 DEF Allowed
<1>4. Allowed(r, r)
  BY DEF Allowed
<1>5. q \in Spawns(r) => Allowed(o, q)
  BY <1>2, <1>3, SpawnAllowed
<1>6. q = r => Allowed(o, q)
  BY <1>3, <1>4
<1>7. q \in Transitions(o, Config[k], mood) => Allowed(o, q)
  BY TransitionsAllowed
<1>8. o.child = "zombie" /\ q \in Finishes(o, Config[k]) => Allowed(o, q)
  BY <1>1, FinishAllowed
<1>9. o.child \in {"up", "killed"} /\ q = [o EXCEPT !.child = "zombie"] => Allowed(o, q)
  BY <1>1, ChildAllowed
<1>10. q \in {Stops(o, Config[k]), StopsAll(o, Config[k])} => Allowed(o, q)
  BY StopsAllowed
<1> QED BY <1>1, <1>5, <1>6, <1>7, <1>8, <1>9, <1>10 DEF Stepped

Managed(k) == INSTANCE ManagedProgram WITH
    status <- Status(procs[k]), instances <- Instances(procs[k])

\* Whatever clients ask for at the same time, stop and start while they wait for it, and
\* however the daemon is told to go meanwhile, every program keeps the promise: at most one
\* instance runs, and a call starts a new one only after the end of the last was noticed.
THEOREM ProgramsKeepThePromise == Spec => \A k \in Programs : Managed(k)!Safety
<1> SUFFICES ASSUME NEW k \in Programs PROVE Spec => Managed(k)!Safety
  OBVIOUS
<1>1. Init => Managed(k)!Init
  BY FreshSound DEF Init, Status, Instances, Managed!Init
<1>2. IInv /\ [Next]_vars => [Managed(k)!Next]_(Managed(k)!vars)
  <2> SUFFICES ASSUME IInv, [Next]_vars PROVE [Managed(k)!Next]_(Managed(k)!vars)
    OBVIOUS
  <2>1. Sound(procs[k]) /\ Stepped(k)
    BY AllStep DEF IInv, ProcsSound, ProcStep
  <2>2. Allowed(procs[k], procs'[k])
    BY <2>1, StepAllowed
  <2>3. Status(procs[k])' = Status(procs'[k]) /\ Instances(procs[k])' = Instances(procs'[k])
    BY DEF Status, Instances
  <2> QED BY <2>2, <2>3 DEF Allowed, Managed!Next, Managed!vars, Managed!Launch, Managed!Die,
                            Managed!TellToEnd, Managed!Notice
<1> QED BY <1>1, <1>2, Invariance, PTL DEF Spec, Managed!Safety
=============================================================================
