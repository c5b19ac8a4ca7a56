----------------------- MODULE DetachedProgram_proofs -----------------------
(***************************************************************************)
(* No instance of a program that outlives the daemon is forgotten: for any *)
(* options of the program, any number of launches, and any number of       *)
(* shutdowns and boots.                                                    *)
(*                                                                         *)
(* The argument: the pid file is written only while the fork waits for it, *)
(* after it has removed it; it is removed by others only when it names no  *)
(* process, or when the instance it names was stopped.                     *)
(***************************************************************************)
EXTENDS DetachedProgram, ProcessMethods_proofs

own == fork["own"]
USE DEF own, world

\* The instances that live and that nobody stopped or missed.
Kept == {i \in Instances \ missed : prog[i] = "up" /\ shell[i] = "done"}

\* A daemon that left, or was killed, has no child.
ChildOfDaemon ==
    /\ daemon = "down" => obj.child = "none"
    /\ daemon # "down" => Sound(obj)

\* Only a fork that watches knows that it was told to stop.
ToldWhileThere == own.at = "none" => ~own.told
NoOrphan == crashes = 0 => fork["orphan"].at = "none"

\* There is one launch at a time, and the file was removed before.
OneLaunch ==
    /\ Unreached # {} => own.at = "waiting" /\ pid_file = 0
    /\ \A i, j \in Unreached : i = j
    /\ own.at = "cleared" => pid_file = 0

\* The fork removes a file that names no process.
RemovesStale == own.at \in {"checked", "leaving"} => ~check_status

\* Whoever is about to be reaped, or to leave because it was told, leaves nothing behind.
NothingKept ==
    /\ daemon = "up" /\ own.told =>
          obj.state = "STOPPING" /\ Kept = {} /\ Unreached \subseteq missed
    /\ daemon = "up" /\ obj.child = "zombie" => Kept = {}

Calm == config.prompt /\ crashes = 0
Care == OneLaunch /\ RemovesStale /\ NothingKept /\ Kept \subseteq {pid_file}

IInv ==
    /\ TypeOK /\ ChildOfDaemon /\ ToldWhileThere /\ NoOrphan
    /\ Calm => Care

-----------------------------------------------------------------------------
(* Types, the process object and its fork.                                 *)

Shape == TypeOK /\ ChildOfDaemon /\ ToldWhileThere

LEMMA CheckedLive == TypeOK /\ check_status => pid_file \in Instances /\ Live(pid_file)
BY DEF TypeOK, check_status

LEMMA SignalledType ==
    ASSUME TypeOK, NEW fatal, Signalled(fatal)
    PROVE  /\ prog' \in [Instances -> {"unborn", "up", "told", "dead"}]
           /\ pid_file' \in Instances \cup {0}
           /\ \A i \in Instances : prog'[i] = "unborn" <=> prog[i] = "unborn"
BY CheckedLive DEF Signalled, TypeOK, Live

LEMMA ShapeInit == Init => Shape
<1> SUFFICES ASSUME Init PROVE Shape
  OBVIOUS
<1>1. Sound(obj) /\ obj.child = "none"
  BY FreshSound DEF Init
<1>2. fork \in [Forks -> [at : Places, told : BOOLEAN]] /\ own = Away
  BY DEF Init, Away, Places, Forks
<1>3. crashes \in 0..Crashes
  BY DetachedAssumption DEF Init
<1> QED BY <1>1, <1>2, <1>3
        DEF Init, Shape, TypeOK, ChildOfDaemon, ToldWhileThere, Sound, Away

\* A fork that goes on to another place.
LEMMA GoesShape ==
    ASSUME Shape, NEW w \in Forks, NEW place \in Places \ {"none"}, fork[w].at # "none", Goes(w, place),
           UNCHANGED daemon
    PROVE  /\ fork' \in [Forks -> [at : Places, told : BOOLEAN]] /\ obj' \in OutlineType
           /\ obj'.child = "up" <=> own'.at # "none"
           /\ ChildOfDaemon' /\ ToldWhileThere'
BY DEF Goes, Shape, TypeOK, ChildOfDaemon, ToldWhileThere, Forks

LEMMA LeavesShape ==
    ASSUME Shape, NEW w \in Forks, fork[w].at # "none", Leaves(w), UNCHANGED daemon
    PROVE  /\ fork' \in [Forks -> [at : Places, told : BOOLEAN]] /\ obj' \in OutlineType
           /\ obj'.child = "up" <=> own'.at # "none"
           /\ ChildOfDaemon' /\ ToldWhileThere'
<1>1. fork' \in [Forks -> [at : Places, told : BOOLEAN]] /\ fork'[w] = Away
  BY DEF Leaves, Shape, TypeOK, Away, Places
<1>2. CASE w = "own"
  <2>1. obj' = [obj EXCEPT !.child = "zombie"] /\ obj.child = "up" /\ daemon # "down"
    BY <1>2 DEF Leaves, Shape, TypeOK, ChildOfDaemon
  <2>2. Sound(obj') /\ obj'.child = "zombie"
    BY <2>1 DEF Shape, TypeOK, ChildOfDaemon, Sound, OutlineType, ChildOutlines
  <2> QED BY <1>1, <1>2, <2>1, <2>2 DEF ChildOfDaemon, ToldWhileThere, Sound, Away
<1>3. CASE w # "own"
  <2>1. obj' = obj /\ own' = own
    BY <1>3 DEF Leaves, Shape, TypeOK, Forks
  <2> QED BY <1>1, <2>1 DEF Shape, TypeOK, ChildOfDaemon, ToldWhileThere
<1> QED BY <1>2, <1>3

LEMMA ForkShape ==
    ASSUME Shape, NEW w \in Forks, Fork(w)
    PROVE  Shape'
<1>1. CASE Checks(w)
  BY <1>1, GoesShape DEF Checks, Shape, TypeOK, Places
<1>2. CASE Clears(w)
  BY <1>2, GoesShape DEF Clears, Shape, TypeOK, Places
<1>3. CASE LaunchesIt(w)
  BY <1>3, GoesShape DEF LaunchesIt, Shape, TypeOK, Places
<1>4. CASE CannotLaunch(w)
  BY <1>4, LeavesShape DEF CannotLaunch, Shape, TypeOK
<1>5. CASE EndsWait(w)
  BY <1>5, GoesShape, LeavesShape DEF EndsWait, Shape, TypeOK, Places
<1>6. CASE Watches(w)
  BY <1>6, GoesShape, LeavesShape DEF Watches, Shape, TypeOK, Places
<1>7. CASE RemovesFile(w)
  BY <1>7, LeavesShape DEF RemovesFile, Shape, TypeOK
<1> QED BY <1>1, <1>2, <1>3, <1>4, <1>5, <1>6, <1>7 DEF Fork

LEMMA SpawnedShape ==
    ASSUME Shape, NEW o, Sound(o), obj.child = "none", o.child \in {"none", "up"}, Spawned(o),
           UNCHANGED daemon, daemon = "up"
    PROVE  /\ fork' \in [Forks -> [at : Places, told : BOOLEAN]] /\ obj' \in OutlineType
           /\ obj'.child = "up" <=> own'.at # "none"
           /\ ChildOfDaemon' /\ ToldWhileThere'
BY DEF Spawned, Shape, TypeOK, ChildOfDaemon, ToldWhileThere, Forks, Places, Sound

LEMMA SpawnsChild ==
    ASSUME NEW o, Sound(o), o.child = "none", NEW q \in Spawns(o)
    PROVE  /\ Sound(q) /\ q.child \in {"none", "up"} /\ q.state \in {"STARTING", "BACKOFF"}
           /\ q.child = "up" => Sound(At(q, "RUNNING", config)) /\ At(q, "RUNNING", config).child = "up"
                               /\ At(q, "RUNNING", config).state = "RUNNING"
<1>1. Sound(q)
  BY SpawnsSound
<1>2. q.child \in {"none", "up"} /\ q.state \in {"STARTING", "BACKOFF"}
  BY DEF Spawns
<1> QED BY <1>1, <1>2 DEF At, Sound, OutlineType, ProcessStates, Alive

\* What a call or a turn makes of the object when its fork stays where it is.
LEMMA TellShape ==
    ASSUME Shape, NEW o, Sound(o), o.child = obj.child, obj' = o, daemon # "down", daemon' # "down",
           Tell \/ UNCHANGED fork
    PROVE  /\ fork' \in [Forks -> [at : Places, told : BOOLEAN]] /\ obj' \in OutlineType
           /\ obj'.child = "up" <=> own'.at # "none"
           /\ ChildOfDaemon' /\ ToldWhileThere'
<1>1. /\ fork' \in [Forks -> [at : Places, told : BOOLEAN]] /\ own'.at = own.at
      /\ own.at = "none" => own' = own
  <2>1. fork \in [Forks -> [at : Places, told : BOOLEAN]] /\ "own" \in Forks
    BY DEF Shape, TypeOK, Forks
  <2>2. CASE fork' = fork
    BY <2>1, <2>2
  <2>3. CASE Tell /\ fork' # fork
    <3>1. fork' = [fork EXCEPT !["own"] = [fork["own"] EXCEPT !.told = TRUE]] /\ own.at # "none"
      BY <2>3 DEF Tell
    <3>2. /\ [fork["own"] EXCEPT !.told = TRUE] \in [at : Places, told : BOOLEAN]
          /\ [fork["own"] EXCEPT !.told = TRUE].at = own.at
      BY <2>1
    <3> QED BY <2>1, <3>1, <3>2
  <2> QED BY <2>2, <2>3
<1>2. obj' \in OutlineType /\ obj'.child = obj.child /\ Sound(obj')
  BY DEF Sound
<1> QED BY <1>1, <1>2 DEF Shape, TypeOK, ChildOfDaemon, ToldWhileThere

LEMMA ShapeStep == Shape /\ [Next]_vars => Shape'
<1> SUFFICES ASSUME Shape, [Next]_vars
             PROVE  Shape'
  OBVIOUS
<1>1. CASE Start
  <2>1. PICK o \in Spawns(obj) : Spawned(o) \/ (o.child = "up" /\ Spawned(At(o, "RUNNING", config)))
    BY <1>1 DEF Start
  <2>2. Sound(obj) /\ obj.child = "none" /\ daemon = "up"
    BY <1>1 DEF Start, Shape, ChildOfDaemon
  <2> QED BY <1>1, <2>1, <2>2, SpawnsChild, SpawnedShape DEF Start, Shape, TypeOK
<1>2. CASE Stop
  <2>1. Sound(obj)
    BY <1>2 DEF Stop, Shape, ChildOfDaemon
  <2>2. Sound(Stops(obj, config)) /\ Stops(obj, config).child = obj.child
    BY <2>1, StopsSound
  <2>3. obj' = Stops(obj, config) /\ daemon' = daemon /\ daemon # "down" /\ (Tell \/ UNCHANGED fork)
    BY <1>2 DEF Stop
  <2>4. /\ prog' \in [Instances -> {"unborn", "up", "told", "dead"}]
        /\ pid_file' \in Instances \cup {0} /\ missed' \subseteq Instances /\ shell' = shell
        /\ \A i \in Instances : prog'[i] = "unborn" <=> prog[i] = "unborn"
    BY <1>2, SignalledType DEF Stop, Shape, TypeOK, Unreached
  <2> QED BY <1>2, <2>2, <2>3, <2>4, TellShape DEF Stop, Shape, TypeOK
<1>3. CASE Ask
  BY <1>3 DEF Ask, Shape, TypeOK, ChildOfDaemon, ToldWhileThere
<1>4. CASE StopAll
  <2>1. Sound(obj)
    BY <1>4 DEF StopAll, Shape, ChildOfDaemon
  <2>2. Sound(StopsAll(obj, config)) /\ StopsAll(obj, config).child = obj.child
    BY <2>1, StopsAllSound
  <2>3. obj' = StopsAll(obj, config) /\ daemon' = "leaving" /\ daemon # "down"
        /\ (Tell \/ UNCHANGED fork)
    BY <1>4 DEF StopAll
  <2> QED BY <1>4, <2>2, <2>3, TellShape DEF StopAll, Shape, TypeOK
<1>5. CASE Overdue
  <2>1. fork' = [fork EXCEPT !["own"] = Away] /\ obj' = [obj EXCEPT !.child = "zombie"]
        /\ daemon' = daemon /\ daemon # "down" /\ obj.state = "STOPPING" /\ Sound(obj)
    BY <1>5 DEF Overdue, Shape, ChildOfDaemon
  <2>2. fork' \in [Forks -> [at : Places, told : BOOLEAN]] /\ own' = Away
    BY <2>1 DEF Shape, TypeOK, Away, Places, Forks
  <2>3. Sound(obj') /\ obj'.child = "zombie"
    BY <2>1 DEF Sound, OutlineType, ChildOutlines, Alive
  <2>4. /\ prog' \in [Instances -> {"unborn", "up", "told", "dead"}]
        /\ pid_file' \in Instances \cup {0} /\ shell' = shell
        /\ \A i \in Instances : prog'[i] = "unborn" <=> prog[i] = "unborn"
    BY <1>5, SignalledType DEF Overdue, Shape, TypeOK
  <2> QED BY <1>5, <2>1, <2>2, <2>3, <2>4
          DEF Overdue, Shape, TypeOK, ChildOfDaemon, ToldWhileThere, Sound, Away
<1>6. CASE Confirms
  <2>1. Sound(obj) /\ Sound(At(obj, "RUNNING", config)) /\ At(obj, "RUNNING", config).child = obj.child
    BY <1>6 DEF Confirms, Shape, ChildOfDaemon, At, Sound, OutlineType, ProcessStates, Alive
  <2> QED BY <1>6, <2>1 DEF Confirms, Shape, TypeOK, ChildOfDaemon, ToldWhileThere, Sound
<1>7. CASE Transition
  <2>1. Sound(obj) /\ obj.child = "none" /\ daemon = "up"
    BY <1>7 DEF Transition, Shape, ChildOfDaemon
  <2>2. CASE \E o \in Spawns(obj) : Spawned(o)
    BY <1>7, <2>1, <2>2, SpawnsChild, SpawnedShape DEF Transition, Shape, TypeOK
  <2>3. CASE obj.state = "BACKOFF" /\ obj' = At(obj, "FATAL", config) /\ UNCHANGED fork
    <3>1. Sound(obj') /\ obj'.child = "none"
      BY <2>1, <2>3 DEF At, Sound, OutlineType, ProcessStates, Alive
    <3> QED BY <1>7, <2>1, <2>3, <3>1
            DEF Transition, Shape, TypeOK, ChildOfDaemon, ToldWhileThere, Sound
  <2>4. CASE UNCHANGED <<obj, fork>>
    BY <1>7, <2>4 DEF Transition, Shape, TypeOK, ChildOfDaemon, ToldWhileThere
  <2> QED BY <1>7, <2>2, <2>3, <2>4 DEF Transition
<1>8. CASE Reap
  <2>1. Sound(obj) /\ obj.child = "zombie" /\ daemon' = daemon /\ daemon # "down"
    BY <1>8 DEF Reap, Shape, ChildOfDaemon
  <2>2. Sound(obj') /\ obj'.child = "none"
    BY <1>8, <2>1, FinishesSound DEF Reap
  <2> QED BY <1>8, <2>1, <2>2 DEF Reap, Shape, TypeOK, ChildOfDaemon, ToldWhileThere, Sound
<1>9. CASE Exit
  <2>1. obj.child = "none"
    BY <1>9 DEF Exit, Shape, ChildOfDaemon, Sound, Alive, Unstopped, ALL_STOPPED_STATES
  <2> QED BY <1>9, <2>1 DEF Exit, Shape, TypeOK, ChildOfDaemon, ToldWhileThere
<1>10. CASE Crash
  <2>1. fork' \in [Forks -> [at : Places, told : BOOLEAN]] /\ own' = Away
    BY <1>10 DEF Crash, Shape, TypeOK, Away, Places, Forks
  <2>2. obj' \in OutlineType /\ obj'.child = "none"
    BY <1>10 DEF Crash, Shape, TypeOK, OutlineType, ChildOutlines
  <2>3. crashes' \in 0..Crashes
    BY <1>10, DetachedAssumption DEF Crash, Shape, TypeOK
  <2> QED BY <1>10, <2>1, <2>2, <2>3
          DEF Crash, Shape, TypeOK, ChildOfDaemon, ToldWhileThere, Away
<1>11. CASE Boot
  BY <1>11, FreshSound DEF Boot, Shape, TypeOK, ChildOfDaemon, ToldWhileThere, Sound
<1>12. CASE \E w \in Forks : Fork(w)
  BY <1>12, ForkShape
<1>13. ASSUME NEW i \in Instances, Shell(i) PROVE Shape'
  BY <1>13 DEF Shell, Shape, TypeOK, ChildOfDaemon, ToldWhileThere
<1>14. ASSUME NEW i \in Instances, Dies(i) PROVE Shape'
  BY <1>14 DEF Dies, Live, Shape, TypeOK, ChildOfDaemon, ToldWhileThere
<1>15. CASE UNCHANGED vars
  BY <1>15 DEF vars, Shape, TypeOK, ChildOfDaemon, ToldWhileThere
<1> QED BY <1>1, <1>2, <1>3, <1>4, <1>5, <1>6, <1>7, <1>8, <1>9, <1>10, <1>11, <1>12, <1>13,
           <1>14, <1>15 DEF Next, Daemon

LEMMA NoOrphanStep == Shape /\ NoOrphan /\ [Next]_vars => NoOrphan'
<1> SUFFICES ASSUME Shape, NoOrphan, [Next]_vars, crashes' = 0
             PROVE  fork'["orphan"].at = "none"
  BY DEF NoOrphan
<1>1. CASE Crash
  BY <1>1 DEF Crash, Shape, TypeOK
<1>2. crashes' = crashes \/ Crash
  BY DEF Next, Daemon, Start, Stop, Ask, StopAll, Overdue, Confirms, Transition, Reap, Exit, Boot, Fork,
         Checks, Clears, LaunchesIt, CannotLaunch, EndsWait, Watches, RemovesFile, Shell, Dies, vars
<1>3. ASSUME crashes = 0
      PROVE  fork'["orphan"].at = "none"
  <2>1. fork["orphan"].at = "none" /\ fork \in [Forks -> [at : Places, told : BOOLEAN]]
    BY <1>3 DEF NoOrphan, Shape, TypeOK
  <2>2. ASSUME NEW w \in Forks, Fork(w) PROVE fork'["orphan"] = fork["orphan"]
    <3>1. w = "own"
      BY <2>1, <2>2 DEF Fork, Forks, Checks, Clears, LaunchesIt, CannotLaunch, EndsWait, Watches, RemovesFile
    <3>2. \/ Leaves("own") \/ \E place \in Places : Goes("own", place)
      BY <2>2, <3>1
         DEF Fork, Checks, Clears, LaunchesIt, CannotLaunch, EndsWait, Watches, RemovesFile, Places
    <3> QED BY <2>1, <3>2 DEF Leaves, Goes, Forks
  <2>3. CASE Start \/ Transition
    BY <2>1, <2>3 DEF Start, Transition, Spawned, Forks
  <2>4. CASE Stop \/ StopAll \/ Overdue
    BY <2>1, <2>4 DEF Stop, StopAll, Overdue, Tell, Forks
  <2>5. fork' = fork \/ Start \/ Transition \/ Stop \/ StopAll \/ Overdue \/ Crash
        \/ \E w \in Forks : Fork(w)
    BY DEF Next, Daemon, Ask, Confirms, Reap, Exit, Boot, Shell, Dies, vars
  <2> QED BY <1>1, <2>1, <2>2, <2>3, <2>4, <2>5
<1> QED BY <1>1, <1>2, <1>3

-----------------------------------------------------------------------------
(* The instances, when nobody kills the daemon.                            *)

LEMMA StaleKeepsNone == Shape /\ Kept \subseteq {pid_file} /\ ~check_status => Kept = {}
BY DetachedAssumption DEF Kept, check_status, Live, Instances

LEMMA SignalledKeepsNone ==
    ASSUME Shape, Kept \subseteq {pid_file}, NEW fatal, Signalled(fatal), shell' = shell,
           missed \subseteq missed'
    PROVE  /\ Kept' = {} /\ pid_file' \in {0, pid_file} /\ (check_status' => check_status)
<1>1. CASE ~check_status
  <2>1. Kept = {} /\ prog' = prog /\ pid_file' = pid_file
    BY <1>1, StaleKeepsNone DEF Signalled
  <2> QED BY <1>1, <2>1 DEF Kept, check_status, Live
<1>2. CASE check_status
  <2>1. pid_file \in Instances /\ prog' \in [Instances -> {"unborn", "up", "told", "dead"}]
    BY <1>2, CheckedLive, SignalledType DEF Shape
  <2>2. \E new \in {"told", "dead"} : prog' = [prog EXCEPT ![pid_file] = new]
    BY <1>2 DEF Signalled
  <2>3. prog'[pid_file] # "up" /\ \A i \in Instances : i # pid_file => prog'[i] = prog[i]
    BY <2>1, <2>2 DEF Shape, TypeOK
  <2>4. pid_file' \in {0, pid_file}
    BY <1>2 DEF Signalled
  <2> QED BY <1>2, <2>3, <2>4 DEF Kept
<1> QED BY <1>1, <1>2

LEMMA CareFork ==
    ASSUME Shape, Calm, NoOrphan, Care, NEW w \in Forks, Fork(w)
    PROVE  Care'
<1>0. /\ w = "own" /\ own.at # "none"
  BY DEF Calm, NoOrphan, Fork, Forks, Checks, Clears, LaunchesIt, CannotLaunch, EndsWait, Watches,
         RemovesFile
<1> USE <1>0
<1>a. ASSUME NEW place \in Places, Goes(w, place)
      PROVE  own'.at = place /\ own'.told = own.told /\ obj' = obj
  BY <1>a DEF Goes, Shape, TypeOK, Forks
<1>b. ASSUME Leaves(w)
      PROVE  own'.at = "none" /\ ~own'.told
  BY <1>b DEF Leaves, Shape, TypeOK, Away, Forks
<1>c. obj.child # "zombie"
  BY DEF Shape, TypeOK
<1>1. CASE Checks(w)
  <2>1. own.at = "forked" /\ (own'.at = "watching" \/ (own'.at = "checked" /\ ~check_status))
        /\ own'.told = own.told /\ obj' = obj
    BY <1>1, <1>a DEF Checks, Places
  <2> QED BY <1>1, <2>1
          DEF Checks, Care, OneLaunch, RemovesStale, NothingKept, Unreached, Kept, check_status, Live
<1>2. CASE Clears(w)
  <2>1. own.at = "checked" /\ own'.at = "cleared" /\ own'.told = own.told /\ obj' = obj
    BY <1>2, <1>a DEF Clears, Places
  <2>2. Kept = {} /\ Unreached = {}
    BY <2>1, StaleKeepsNone DEF Care, RemovesStale, OneLaunch
  <2>3. Kept' = {} /\ Unreached' = {} /\ pid_file' = 0 /\ daemon' = daemon
    BY <1>2, <2>2 DEF Clears, Kept, Unreached
  <2> QED BY <2>1, <2>3, <1>c DEF Care, OneLaunch, RemovesStale, NothingKept
<1>3. CASE LaunchesIt(w)
  <2>1. own.at = "cleared" /\ own'.at = "waiting" /\ own'.told = own.told /\ obj' = obj
    BY <1>3, <1>a DEF LaunchesIt, Places
  <2>2. pid_file = 0 /\ Unreached = {}
    BY <2>1 DEF Care, OneLaunch
  <2>3. Kept = {}
    BY <2>2, StaleKeepsNone DEF Care, check_status
  <2>4. PICK i \in Instances :
            /\ shell[i] = "none" /\ shell' = [shell EXCEPT ![i] = "script"]
            /\ missed' = IF obj.state = "STOPPING" THEN missed \cup {i} ELSE missed
    BY <1>3 DEF LaunchesIt
  <2>5. Unreached' = {i}
    BY <2>2, <2>4 DEF Unreached, Shape, TypeOK
  <2>6. Kept' = {} /\ pid_file' = 0 /\ daemon' = daemon
    BY <1>3, <2>2, <2>3, <2>4 DEF LaunchesIt, Kept, Shape, TypeOK
  <2> QED BY <2>1, <2>4, <2>5, <2>6, <1>c DEF Care, OneLaunch, RemovesStale, NothingKept
<1>4. CASE CannotLaunch(w)
  <2>1. own.at = "cleared" /\ own'.at = "none" /\ ~own'.told
    BY <1>4, <1>b DEF CannotLaunch
  <2>2. pid_file = 0 /\ Unreached = {}
    BY <2>1 DEF Care, OneLaunch
  <2>3. Kept = {}
    BY <2>2, StaleKeepsNone DEF Care, check_status
  <2>4. Kept' = {} /\ Unreached' = {}
    BY <1>4, <2>2, <2>3 DEF CannotLaunch, Kept, Unreached
  <2> QED BY <2>1, <2>4 DEF Care, OneLaunch, RemovesStale, NothingKept
<1>5. CASE EndsWait(w)
  <2>1. own.at = "waiting" /\ own'.at = "watching" /\ own'.told = own.told /\ obj' = obj
    BY <1>5, <1>a DEF EndsWait, Places, Calm
  <2>2. Unreached = {}
    BY <1>5 DEF EndsWait, Calm, Care, OneLaunch
  <2>3. Kept' = Kept /\ Unreached' = {} /\ pid_file' = pid_file /\ daemon' = daemon
    BY <1>5, <2>2 DEF EndsWait, Kept, Unreached
  <2> QED BY <2>1, <2>3, <1>c DEF Care, OneLaunch, RemovesStale, NothingKept
<1>6. CASE Watches(w)
  <2>0. own.at = "watching" /\ UNCHANGED <<daemon, world>>
    BY <1>6 DEF Watches
  <2>1. Kept' = Kept /\ Unreached' = Unreached /\ Unreached = {} /\ check_status' = check_status
    BY <2>0 DEF Kept, Unreached, check_status, Live, Care, OneLaunch
  <2>2. CASE ~check_status /\ Goes(w, "leaving")
    <3>1. own'.at = "leaving" /\ own'.told = own.told /\ obj' = obj
      BY <2>2, <1>a DEF Places
    <3> QED BY <2>0, <2>1, <2>2, <3>1, <1>c DEF Care, OneLaunch, RemovesStale, NothingKept
  <2>3. CASE check_status /\ own.told /\ Leaves(w)
    <3>1. daemon = "up" => Kept = {}
      BY <2>3 DEF Care, NothingKept
    <3> QED BY <2>0, <2>1, <2>3, <3>1, <1>b DEF Care, OneLaunch, RemovesStale, NothingKept
  <2> QED BY <1>6, <2>2, <2>3 DEF Watches
<1>7. CASE RemovesFile(w)
  <2>1. own.at = "leaving" /\ own'.at = "none" /\ ~own'.told
    BY <1>7, <1>b DEF RemovesFile
  <2>2. Kept = {} /\ Unreached = {}
    BY <2>1, StaleKeepsNone DEF Care, RemovesStale, OneLaunch
  <2>3. Kept' = {} /\ Unreached' = {}
    BY <1>7, <2>2 DEF RemovesFile, Kept, Unreached
  <2> QED BY <2>1, <2>3 DEF Care, OneLaunch, RemovesStale, NothingKept
<1> QED BY <1>1, <1>2, <1>3, <1>4, <1>5, <1>6, <1>7 DEF Fork

LEMMA CareShell ==
    ASSUME Shape, Calm, Care, NEW i \in Instances, Shell(i)
    PROVE  Care'
<1>0. i \in Unreached /\ own.at = "waiting" /\ pid_file = 0 /\ obj.child # "zombie"
  BY DEF Shell, Unreached, Care, OneLaunch, Shape, TypeOK
<1>1. Kept = {} /\ \A j \in Unreached : j = i
  BY <1>0, StaleKeepsNone DEF Care, OneLaunch, check_status
<1>2. UNCHANGED <<daemon, obj, fork, missed>>
  BY DEF Shell
<1>3. CASE shell[i] = "script"
  <2>1. shell' = [shell EXCEPT ![i] = "writes"] /\ prog' = [prog EXCEPT ![i] = "up"] /\ pid_file' = pid_file
    BY <1>3 DEF Shell
  <2>2. Unreached' = Unreached /\ Kept' = {}
    BY <1>1, <1>3, <2>1, <1>2 DEF Unreached, Kept, Shape, TypeOK
  <2> QED BY <1>0, <1>2, <2>1, <2>2 DEF Care, OneLaunch, RemovesStale, NothingKept
<1>4. CASE shell[i] = "writes"
  <2>1. shell' = [shell EXCEPT ![i] = "done"] /\ prog' = prog /\ pid_file' = i
    BY <1>4 DEF Shell
  <2>2. Unreached' = {}
    BY <1>1, <1>4, <2>1 DEF Unreached, Shape, TypeOK
  <2>3. Kept' \subseteq {i} \ missed
    BY <1>1, <1>2, <2>1 DEF Kept, Shape, TypeOK
  <2> QED BY <1>0, <1>2, <2>1, <2>2, <2>3 DEF Care, OneLaunch, RemovesStale, NothingKept
<1> QED BY <1>3, <1>4 DEF Shell

\* Nothing is launched while the object has no fork.
LEMMA NoFork ==
    ASSUME Shape, Care, obj.child # "up"
    PROVE  own.at = "none" /\ ~own.told /\ Unreached = {}
BY DEF Shape, TypeOK, ToldWhileThere, Care, OneLaunch

LEMMA CareStop ==
    ASSUME Shape, Calm, Care, Stop
    PROVE  Care'
<1>0. Sound(obj) /\ obj' = Stops(obj, config) /\ Stops(obj, config).child = obj.child
  BY StopsSound DEF Stop, Shape, ChildOfDaemon
<1>1. CASE obj.child = "none"
  <2>1. UNCHANGED <<fork, world, daemon>> /\ obj'.child = "none" /\ ~own.told
    BY <1>0, <1>1, NoFork DEF Stop
  <2> QED BY <2>1 DEF Care, OneLaunch, RemovesStale, NothingKept, Unreached, Kept, check_status, Live
<1>2. CASE obj.child # "none"
  <2>1. Signalled(FALSE) /\ Tell /\ missed' = missed \cup Unreached /\ shell' = shell /\ daemon' = daemon
    BY <1>2 DEF Stop
  <2>2. obj'.state = "STOPPING"
    BY <1>0, <1>2 DEF Stops, At, Sound, OutlineType, Alive
  <2>3. Kept' = {} /\ pid_file' \in {0, pid_file} /\ (check_status' => check_status)
    BY <2>1, SignalledKeepsNone DEF Care
  <2>4. own'.at = own.at
    BY <2>1 DEF Tell, Shape, TypeOK, Forks
  <2>5. Unreached' = Unreached
    BY <2>1 DEF Unreached
  <2> QED BY <2>1, <2>2, <2>3, <2>4, <2>5 DEF Care, OneLaunch, RemovesStale, NothingKept
<1> QED BY <1>1, <1>2

LEMMA CareOverdue ==
    ASSUME Shape, Calm, Care, Overdue
    PROVE  Care'
<1>1. own'.at = "none" /\ ~own'.told /\ daemon' = daemon /\ shell' = shell /\ missed' = missed
  BY DEF Overdue, Shape, TypeOK, Away, Forks
<1>2. Unreached = {} /\ Unreached' = {}
  BY <1>1 DEF Overdue, Calm, Unreached
<1>3. CASE daemon = "up"
  <2>1. Kept' = {}
    BY <1>1, <1>3, SignalledKeepsNone DEF Overdue, Care
  <2> QED BY <1>1, <1>2, <2>1 DEF Care, OneLaunch, RemovesStale, NothingKept
<1>4. CASE daemon # "up"
  <2>1. Kept' = Kept /\ pid_file' = pid_file
    BY <1>1, <1>4 DEF Overdue, Kept
  <2> QED BY <1>1, <1>2, <1>4, <2>1 DEF Care, OneLaunch, RemovesStale, NothingKept
<1> QED BY <1>3, <1>4

\* start and transition() of an object that has no child, and finish() of one that has exited.
LEMMA CareWithoutFork ==
    ASSUME Shape, Calm, Care, Start \/ Transition \/ Reap
    PROVE  Care'
<1>0. own.at = "none" /\ ~own.told /\ Unreached = {}
  BY NoFork DEF Start, Transition, Reap
<1>1. UNCHANGED <<daemon, prog, shell, missed>>
  BY DEF Start, Transition, Reap
<1>2. Unreached' = {} /\ Kept' = Kept
  BY <1>0, <1>1 DEF Unreached, Kept
<1>3. own'.at \in {"none", "forked"} /\ ~own'.told
  BY <1>0 DEF Start, Transition, Reap, Spawned, Shape, TypeOK, Forks
<1>4. daemon = "up" => obj'.child # "zombie"
  <2>1. CASE Reap
    <3>1. Sound(obj) /\ obj' \in Finishes(obj, config)
      BY <2>1 DEF Reap, Shape, ChildOfDaemon
    <3> QED BY <3>1, FinishesSound
  <2>2. CASE Start \/ Transition
    <3>1. Sound(obj) /\ obj.child = "none"
      BY <2>2 DEF Start, Transition, Shape, ChildOfDaemon
    <3>2. \/ obj' \in Spawns(obj) \/ (\E o \in Spawns(obj) : o.child = "up" /\ obj' = At(o, "RUNNING", config))
          \/ obj' = At(obj, "FATAL", config) \/ obj' = obj
      BY <2>2 DEF Start, Transition, Spawned
    <3>3. At(obj, "FATAL", config).child = "none"
      BY <3>1 DEF At, Sound, OutlineType
    <3> QED BY <3>1, <3>2, <3>3, SpawnsChild
  <2> QED BY <2>1, <2>2
<1>5. Kept \subseteq {pid_file'}
  <2>1. pid_file' = pid_file \/ ~check_status \/ (Reap /\ daemon = "up" /\ obj.child = "zombie")
    BY DEF Start, Transition, Reap
  <2> QED BY <2>1, StaleKeepsNone DEF Care, NothingKept
<1> QED BY <1>1, <1>2, <1>3, <1>4, <1>5 DEF Care, OneLaunch, RemovesStale, NothingKept

LEMMA CareStep == Shape /\ NoOrphan /\ (Calm => Care) /\ [Next]_vars => (Calm => Care)'
<1> SUFFICES ASSUME Shape, NoOrphan, Calm => Care, [Next]_vars, Calm'
             PROVE  Care'
  OBVIOUS
<1>0. ~Crash
  BY DEF Crash, Calm, Shape, TypeOK
<1>1. config' = config /\ crashes' = crashes
  BY <1>0 DEF Next, Daemon, Start, Stop, Ask, StopAll, Overdue, Confirms, Transition, Reap, Exit, Boot, Fork,
         Checks, Clears, LaunchesIt, CannotLaunch, EndsWait, Watches, RemovesFile, Shell, Dies, vars
<1>2. Calm /\ Care
  BY <1>1 DEF Calm
<1>3. CASE Ask \/ StopAll \/ Exit
  <2>1. UNCHANGED world /\ daemon' # "up" /\ own'.at = own.at
    BY <1>3 DEF Ask, StopAll, Exit, Tell, Shape, TypeOK, Forks
  <2> QED BY <1>2, <2>1 DEF Care, OneLaunch, RemovesStale, NothingKept, Unreached, Kept, check_status, Live
<1>4. CASE Confirms
  <2>1. UNCHANGED <<daemon, fork, world>> /\ obj'.child = obj.child /\ obj.state = "STARTING"
    BY <1>4 DEF Confirms, At, Shape, TypeOK, OutlineType
  <2> QED BY <1>2, <2>1 DEF Care, OneLaunch, RemovesStale, NothingKept, Unreached, Kept, check_status, Live
<1>5. CASE Boot
  <2>1. UNCHANGED <<fork, world>> /\ obj'.child = "none" /\ ~own.told
    BY <1>2, <1>5, NoFork, FreshSound DEF Boot, Shape, ChildOfDaemon
  <2> QED BY <1>2, <2>1 DEF Care, OneLaunch, RemovesStale, NothingKept, Unreached, Kept, check_status, Live
<1>6. ASSUME NEW i \in Instances, Dies(i) PROVE Care'
  <2>1. UNCHANGED <<daemon, obj, fork, shell, pid_file, missed>> /\ prog' = [prog EXCEPT ![i] = "dead"]
    BY <1>6 DEF Dies
  <2>2. Kept' \subseteq Kept /\ Unreached' = Unreached /\ (check_status' => check_status)
    BY <2>1, CheckedLive DEF Kept, Unreached, check_status, Live, Shape, TypeOK
  <2> QED BY <1>2, <2>1, <2>2 DEF Care, OneLaunch, RemovesStale, NothingKept
<1>7. CASE UNCHANGED vars
  BY <1>2, <1>7
     DEF vars, Care, OneLaunch, RemovesStale, NothingKept, Unreached, Kept, check_status, Live
<1> QED BY <1>0, <1>2, <1>3, <1>4, <1>5, <1>6, <1>7, CareFork, CareShell, CareStop, CareOverdue,
           CareWithoutFork DEF Next, Daemon

-----------------------------------------------------------------------------
(* The theorems.                                                           *)

LEMMA CareInit == Init => Care
<1> SUFFICES ASSUME Init PROVE Care
  OBVIOUS
<1>1. Kept = {} /\ Unreached = {}
  BY DEF Init, Kept, Unreached
<1>2. own = Away /\ obj.child = "none" /\ pid_file = 0
  BY FreshSound DEF Init, Forks
<1> QED BY <1>1, <1>2 DEF Away, Care, OneLaunch, RemovesStale, NothingKept

\* What the theorems below rest on holds in every state, through any shutdowns and new daemons.
THEOREM Invariance == Spec => []IInv
<1>1. Init => IInv
  BY ShapeInit, CareInit DEF Init, Shape, IInv, NoOrphan, Forks, Away
<1>2. IInv /\ [Next]_vars => IInv'
  BY ShapeStep, NoOrphanStep, CareStep DEF IInv, Shape
<1> QED BY <1>1, <1>2, PTL DEF Spec

\* The variables have their types, and the object has a child exactly while there is a fork.
THEOREM TypeCorrect == Spec => []TypeOK
<1>1. IInv => TypeOK
  BY DEF IInv
<1> QED BY <1>1, Invariance, PTL

\* The instance that lives and that nobody stopped is the one whose pid is in the file, over any
\* number of shutdowns and new daemons.
THEOREM NoneIsLost == Spec => []NeverLost
<1>1. IInv => NeverLost
  BY DEF IInv, Calm, Care, Kept, NeverLost
<1> QED BY <1>1, Invariance, PTL
=============================================================================
