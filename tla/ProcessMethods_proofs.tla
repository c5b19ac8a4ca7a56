------------------------ MODULE ProcessMethods_proofs ------------------------
(***************************************************************************)
(* What the methods of a process object do, for every configuration: they  *)
(* keep its type; in a system that delivers every signal they keep it      *)
(* sane, and raise only what a caller of theirs catches; and they do to    *)
(* its outline what ProcessOutline says.  The modules about programs,      *)
(* groups and calls rest on this.                                          *)
(***************************************************************************)
EXTENDS ProcessOutline, WellFoundedInduction, TLAPS

\* A set of naturals that is not empty has a least one.
LEMMA LeastNatural ==
    ASSUME NEW S \in SUBSET Nat, S # {}
    PROVE  \E n \in S : \A m \in S : n <= m
<1>1. PICK n \in S : \A m \in S : <<m, n>> \notin OpToRel(<, Nat)
  BY NatLessThanWellFounded, WFMin
<1>2. \A m \in S : ~(m < n)
  BY <1>1 DEF OpToRel
<1> QED BY <1>2

\* The times a configuration has, whatever else is in it.
Timed(c) == c.startsecs \in Nat /\ c.startretries \in Nat /\ c.stopwaitsecs \in Nat

\* The states in which a process has a child.
Alive == {"STARTING", "RUNNING", "STOPPING"}

\* What holds of an object between two methods.  The third conjunct is what makes
\* finish() right to infer from its age which state a child died in; the last two are
\* why an administrator's stop is not undone.
Sane(p, c) ==
    /\ p.pid # 0 <=> p.state \in Alive
    /\ p.killing <=> p.state = "STOPPING"
    /\ p.state = "RUNNING" => p.age > c.startsecs
    /\ p.started \/ p.state \in {"STOPPED", "DISABLED", "FATAL"}
    /\ p.administrative_stop =>
         p.started /\ p.state \in {"STOPPING", "STOPPED", "DISABLED", "FATAL"}

-----------------------------------------------------------------------------
(* Types.                                                                  *)

LEMMA ConfigTimed == \A c \in ConfigType : Timed(c)
BY DEF ConfigType, Timed

\* The members of the fields' types; the sets stay folded wherever these are cited.
LEMMA StateNames ==
    /\ \A s \in {"DISABLED", "STOPPED", "STARTING", "RUNNING", "BACKOFF",
                 "STOPPING", "EXITED", "FATAL", "UNKNOWN"} : s \in ProcessStates
    /\ \A s \in {"none", "expected", "unexpected"} : s \in ExitStatuses
BY DEF ProcessStates, ExitStatuses

LEMMA FieldValues ==
    /\ Past \in Int
    /\ 0 \in PidsOrNone
    /\ \A i \in Pids : i \in PidsOrNone
BY DEF Past, PidsOrNone

LEMMA ConfigValues ==
    ASSUME NEW c, Timed(c)
    PROVE  c.startsecs \in Int /\ c.stopwaitsecs \in Int /\ Ripe(c) \in Int
BY DEF Timed, Ripe

LEMMA ChangeStateType ==
    ASSUME NEW p \in ProcessType, NEW new \in ProcessStates, NEW c
    PROVE  change_state(p, new, c) \in ProcessType
<1>1. p.backoff + 1 \in Nat /\ p.backoff + 1 \in Int
  BY DEF ProcessType
<1>2. [p EXCEPT !.state = new, !.backoff = @ + 1, !.left = p.backoff + 1] \in ProcessType
  BY <1>1 DEF ProcessType
<1>3. RestingState(p, new, c) \in ProcessStates
  BY DEF RestingState, ProcessStates
<1>4. [p EXCEPT !.state = RestingState(p, new, c)] \in ProcessType
  BY <1>3 DEF ProcessType
<1> QED BY <1>2, <1>4 DEF change_state

LEMMA NewProcessType ==
    ASSUME NEW c, Timed(c)
    PROVE  NewProcess(c) \in ProcessType
BY FieldValues, StateNames, ConfigValues DEF NewProcess, ProcessType

LEMMA RaiseType ==
    ASSUME NEW p \in ProcessType
    PROVE  Raise(p) \in ProcessType
BY DEF Raise, ProcessType

LEMMA GiveUpType ==
    ASSUME NEW p \in ProcessType, NEW c
    PROVE  give_up(p, c) \in ProcessType
<1> DEFINE q == [p EXCEPT !.left = Past, !.backoff = 0, !.system_stop = TRUE]
<1>1. q \in ProcessType
  BY FieldValues DEF ProcessType
<1>2. change_state(q, "FATAL", c) \in ProcessType /\ Raise(q) \in ProcessType
  <2> HIDE DEF q
  <2> QED BY <1>1, ChangeStateType, RaiseType, StateNames
<1> QED BY <1>2 DEF give_up

LEMMA SpawnType ==
    ASSUME NEW p \in ProcessType, NEW outcome, NEW pid \in PidsOrNone,
           NEW c, Timed(c)
    PROVE  spawn(p, outcome, pid, c) \in ProcessType
<1> DEFINE q == change_state(Afresh(p), "STARTING", c)
<1>1. Afresh(p) \in ProcessType
  <2> DEFINE r == [p EXCEPT !.killing = FALSE, !.spawnerr = FALSE, !.exitstatus = "none",
                            !.system_stop = FALSE, !.administrative_stop = FALSE,
                            !.started = TRUE]
  <2>1. r \in ProcessType
    BY StateNames DEF ProcessType
  <2>2. Afresh(p) = [r EXCEPT !.age = 0]
    BY DEF Afresh, ProcessType
  <2> HIDE DEF r
  <2>3. [r EXCEPT !.age = 0] \in ProcessType
    BY <2>1 DEF ProcessType
  <2> QED BY <2>2, <2>3
<1>2. q \in ProcessType /\ Raise(Afresh(p)) \in ProcessType
  BY <1>1, ChangeStateType, RaiseType, StateNames
<1> HIDE DEF q
<1>3. _spawn_as_parent(q, pid, c) \in ProcessType
  BY <1>2, ConfigValues DEF _spawn_as_parent, ProcessType
<1>4. [q EXCEPT !.spawnerr = TRUE] \in ProcessType
  BY <1>2 DEF ProcessType
<1>5. change_state([q EXCEPT !.spawnerr = TRUE], "BACKOFF", c) \in ProcessType
  BY <1>4, ChangeStateType, StateNames
<1> QED BY <1>2, <1>3, <1>5 DEF spawn, q

LEMMA KillType ==
    ASSUME NEW p \in ProcessType, NEW delivered, NEW c, Timed(c)
    PROVE  kill(p, delivered, c) \in ProcessType
<1> DEFINE armed == [p EXCEPT !.killing = TRUE, !.left = c.stopwaitsecs]
<1>1. armed \in ProcessType
  BY ConfigValues DEF ProcessType
<1>2. Killing(p, c) \in ProcessType /\ Raise(armed) \in ProcessType
  <2> HIDE DEF armed
  <2>1. change_state(armed, "STOPPING", c) \in ProcessType
    BY <1>1, ChangeStateType, StateNames
  <2> QED BY <1>1, <2>1, RaiseType DEF Killing, armed
<1>3. Lost(Killing(p, c), c) \in ProcessType
  <2>1. change_state(Killing(p, c), "UNKNOWN", c) \in ProcessType
    BY <1>2, ChangeStateType, StateNames
  <2> QED BY <2>1, FieldValues DEF Lost, ProcessType
<1>4. change_state(p, "STOPPED", c) \in ProcessType
  BY StateNames, ChangeStateType
<1> QED BY <1>2, <1>3, <1>4 DEF kill

LEMMA StopType ==
    ASSUME NEW p \in ProcessType, NEW delivered, NEW c, Timed(c)
    PROVE  stop(p, delivered, c) \in ProcessType
<1>1. [p EXCEPT !.administrative_stop = TRUE] \in ProcessType
  BY DEF ProcessType
<1> QED BY <1>1, KillType DEF stop

LEMMA StopAllType ==
    ASSUME NEW p \in ProcessType, NEW delivered, NEW c, Timed(c)
    PROVE  stop_all(p, delivered, c) \in ProcessType
BY StopType, GiveUpType DEF stop_all

LEMMA SignalType ==
    ASSUME NEW p \in ProcessType, NEW delivered, NEW c, Timed(c)
    PROVE  signal(p, delivered, c) \in ProcessType
<1>1. change_state(p, "UNKNOWN", c) \in ProcessType
  BY StateNames, ChangeStateType
<1>2. [change_state(p, "UNKNOWN", c) EXCEPT !.pid = 0] \in ProcessType
  BY <1>1, FieldValues DEF ProcessType
<1> QED BY <1>2, RaiseType DEF signal

LEMMA FinishType ==
    ASSUME NEW p \in ProcessType, NEW es \in {"expected", "unexpected"},
           NEW c, Timed(c)
    PROVE  finish(p, es, c) \in ProcessType
<1>1. Stopped(p, es, c) \in ProcessType
  <2> DEFINE q == [p EXCEPT !.killing = FALSE, !.left = Past, !.exitstatus = es]
  <2>1. q \in ProcessType
    BY FieldValues, StateNames DEF ProcessType
  <2>2. change_state(q, "STOPPED", c) \in ProcessType /\ Raise(q) \in ProcessType
    <3> HIDE DEF q
    <3> QED BY <2>1, ChangeStateType, RaiseType, StateNames
  <2> QED BY <2>2 DEF Stopped
<1>2. DiedStarting(p, c) \in ProcessType
  <2> DEFINE q == [p EXCEPT !.exitstatus = "none", !.spawnerr = TRUE]
  <2>1. q \in ProcessType
    BY StateNames DEF ProcessType
  <2>2. change_state(q, "BACKOFF", c) \in ProcessType /\ Raise(q) \in ProcessType
    <3> HIDE DEF q
    <3> QED BY <2>1, ChangeStateType, RaiseType, StateNames
  <2> QED BY <2>2 DEF DiedStarting
<1>3. Exited(p, es, c) \in ProcessType
  <2> DEFINE q == [p EXCEPT !.left = Past, !.backoff = 0, !.exitstatus = es,
                            !.state = IF @ = "STARTING" THEN "RUNNING" ELSE @]
             r == [q EXCEPT !.spawnerr = @ \/ es = "unexpected"]
  <2>1. q \in ProcessType
    BY FieldValues, StateNames DEF ProcessType
  <2>2. r \in ProcessType /\ Raise(q) \in ProcessType
    <3> HIDE DEF q
    <3> QED BY <2>1, RaiseType DEF ProcessType
  <2>3. change_state(r, "EXITED", c) \in ProcessType
    <3> HIDE DEF r
    <3> QED BY <2>2, ChangeStateType, StateNames
  <2> QED BY <2>2, <2>3 DEF Exited
<1> DEFINE q == IF p.killing THEN Stopped(p, es, c)
                ELSE IF TooQuickly(p, c) THEN DiedStarting(p, c)
                ELSE Exited(p, es, c)
<1>4. q \in ProcessType
  BY <1>1, <1>2, <1>3
<1>5. [q EXCEPT !.pid = 0] \in ProcessType
  <2> HIDE DEF q
  <2> QED BY <1>4, FieldValues DEF ProcessType
<1> QED BY <1>4, <1>5 DEF finish

LEMMA SettleType ==
    ASSUME NEW p \in ProcessType, NEW state, NEW delivered, NEW c, Timed(c)
    PROVE  settle(p, state, delivered, c) \in ProcessType
<1>1. [p EXCEPT !.left = Past, !.backoff = 0] \in ProcessType
  BY FieldValues DEF ProcessType
<1>2. change_state([p EXCEPT !.left = Past, !.backoff = 0], "RUNNING", c) \in ProcessType
  BY <1>1, ChangeStateType, StateNames
<1> QED BY <1>2, GiveUpType, KillType DEF settle

LEMMA TransitionType ==
    ASSUME NEW p \in ProcessType, NEW m, NEW f, NEW outcome,
           NEW pid \in PidsOrNone, NEW delivered, NEW c, Timed(c)
    PROVE  transition(p, m, f, outcome, pid, delivered, c) \in ProcessType
<1> DEFINE ready == IF p.state = "DISABLED" THEN change_state(p, "STOPPED", c) ELSE p
           q == IF wantsSpawn(p, c, m, f) THEN spawn(ready, outcome, pid, c) ELSE p
<1>1. ready \in ProcessType
  BY StateNames, ChangeStateType
<1>2. q \in ProcessType
  <2> HIDE DEF ready
  <2> QED BY <1>1, SpawnType
<1>3. settle(q, p.state, delivered, c) \in ProcessType
  <2> HIDE DEF q
  <2> QED BY <1>2, SettleType
<1> QED BY <1>2, <1>3, RaiseType DEF transition

-----------------------------------------------------------------------------
(* Sane objects.                                                           *)

LEMMA NewProcessSane ==
    ASSUME NEW c, Timed(c)
    PROVE  Sane(NewProcess(c), c)
BY DEF Sane, NewProcess, Alive

LEMMA SpawnSane ==
    ASSUME NEW p \in ProcessType, NEW c, Timed(c), Sane(p, c),
           NEW outcome, NEW pid, outcome = "fork" => pid \in Pids
    PROVE  LET q == spawn(p, outcome, pid, c)
           IN  /\ Sane(q, c)
               /\ q.pid = p.pid \/ (p.pid = 0 /\ q.pid = pid /\ q.pid \in Pids)
               /\ q.pid # p.pid => q.state = "STARTING"
               /\ q.raised => p.raised \/ p.state \notin Startable
<1>1. CASE p.pid # 0
  BY <1>1 DEF spawn
<1>2. CASE p.pid = 0 /\ p.state \notin Startable
  BY <1>2 DEF spawn, Afresh, Raise, Sane, ProcessType, Alive
<1>3. CASE p.pid = 0 /\ p.state \in Startable
  <2>1. pid \in Pids => pid # 0
    BY PidsAssumption
  <2>2. CASE outcome = "fork"
    BY <1>3, <2>1, <2>2
    DEF spawn, Afresh, change_state, RestingState, _spawn_as_parent, Sane, ProcessType, Alive, Startable
  <2>3. CASE outcome # "fork"
    <3>1. /\ p.state \in {"STOPPED", "EXITED", "FATAL", "BACKOFF"} /\ p.state \in Startable
          /\ p.started \in BOOLEAN /\ p.killing \in BOOLEAN /\ p.raised \in BOOLEAN
      BY <1>3 DEF ProcessType, Startable
    <3>2. PICK q : q = spawn(p, outcome, pid, c)
      OBVIOUS
    <3>3. /\ q.state = "BACKOFF" /\ q.pid = p.pid /\ q.raised = p.raised
          /\ q.started = TRUE /\ q.killing = FALSE /\ q.administrative_stop = FALSE
      BY <1>3, <2>3, <3>1, <3>2
      DEF spawn, Afresh, change_state, RestingState, ProcessType
    <3> QED BY <1>3, <3>2, <3>3 DEF Sane, Alive
  <2> QED BY <2>2, <2>3
<1> QED BY <1>1, <1>2, <1>3

LEMMA GiveUpSane ==
    ASSUME NEW p \in ProcessType, NEW c, Timed(c), Sane(p, c), p.state = "BACKOFF"
    PROVE  LET q == give_up(p, c)
           IN  /\ Sane(q, c) /\ q.pid = p.pid /\ q.raised = p.raised
               /\ q.state \in ALL_STOPPED_STATES
BY DEF give_up, change_state, RestingState, Sane, ProcessType, Alive, ALL_STOPPED_STATES

\* A kill whose signal arrives.  The caller has stopped the process for good, or it
\* is escalating the stop of one it already stopped.
LEMMA KillSane ==
    ASSUME NEW p \in ProcessType, NEW c, Timed(c),
           p.pid # 0 <=> p.state \in Alive,
           p.killing <=> p.state = "STOPPING",
           p.started,
           p.state \in Alive \cup {"BACKOFF"}
    PROVE  LET q == kill(p, TRUE, c)
           IN  /\ Sane(q, c) /\ q.pid = p.pid /\ q.raised = p.raised
               /\ p.state # "BACKOFF" => q.state = "STOPPING"
BY DEF kill, Signals, Killing, change_state, RestingState, Sane, ProcessType, Alive

LEMMA StopSane ==
    ASSUME NEW p \in ProcessType, NEW c, Timed(c), Sane(p, c),
           p.state \in {"STARTING", "RUNNING", "BACKOFF"}
    PROVE  LET q == stop(p, TRUE, c)
           IN  /\ Sane(q, c) /\ q.pid = p.pid /\ q.raised = p.raised
<1> DEFINE r == [p EXCEPT !.administrative_stop = TRUE]
<1>1. r \in ProcessType
  BY DEF ProcessType
<1>2. /\ r.pid = p.pid /\ r.raised = p.raised
      /\ r.pid # 0 <=> r.state \in Alive
      /\ r.killing <=> r.state = "STOPPING"
      /\ r.started
      /\ r.state \in Alive \cup {"BACKOFF"}
  BY DEF Sane, ProcessType, Alive
<1> HIDE DEF r
<1>3. LET q == kill(r, TRUE, c) IN Sane(q, c) /\ q.pid = r.pid /\ q.raised = r.raised
  BY <1>1, <1>2, KillSane
<1> QED BY <1>2, <1>3 DEF stop, r

LEMMA FinishSane ==
    ASSUME NEW p \in ProcessType, NEW c, Timed(c), Sane(p, c), p.pid # 0, ~p.raised,
           NEW es \in {"expected", "unexpected"}
    PROVE  LET q == finish(p, es, c)
           IN  Sane(q, c) /\ q.pid = 0 /\ ~q.raised
<1>1. c.startsecs \in Nat /\ p.age \in Int
  BY DEF Timed, ProcessType
<1>2. CASE p.killing
  BY <1>2 DEF finish, Stopped, change_state, RestingState, Raise, Sane, ProcessType, Alive
<1>3. CASE ~p.killing /\ TooQuickly(p, c)
  <2>1. p.state = "STARTING"
    BY <1>1, <1>3 DEF TooQuickly, Sane, Alive
  <2> QED BY <1>3, <2>1
      DEF finish, DiedStarting, change_state, RestingState, Raise, Sane, ProcessType, Alive
<1>4. CASE ~p.killing /\ ~TooQuickly(p, c)
  <2>1. p.state \in {"STARTING", "RUNNING"}
    BY <1>4 DEF Sane, Alive
  <2> QED BY <1>4, <2>1
      DEF finish, Exited, change_state, RestingState, Raise, Sane, ProcessType, Alive
<1> QED BY <1>2, <1>3, <1>4

LEMMA SettleSane ==
    ASSUME NEW p \in ProcessType, NEW c, Timed(c), Sane(p, c), ~p.raised,
           NEW state \in ProcessStates,
           state = "BACKOFF" /\ p.backoff > c.startretries => p.state = "BACKOFF",
           state = "STOPPING" => p.state = "STOPPING"
    PROVE  LET q == settle(p, state, TRUE, c)
           IN  /\ Sane(q, c) /\ q.pid = p.pid /\ ~q.raised
               /\ state = "STOPPING" => q.state = "STOPPING"
<1>1. CASE state = "STARTING" /\ confirmed(p, c)
  BY <1>1 DEF settle, confirmed, change_state, RestingState, Sane, ProcessType, Alive
<1>2. CASE state = "BACKOFF" /\ p.backoff > c.startretries
  BY <1>2, GiveUpSane DEF settle
<1>3. CASE state = "STOPPING" /\ overdue(p)
  <2>1. settle(p, state, TRUE, c) = kill(p, TRUE, c)
    BY <1>3 DEF settle
  <2>2. /\ p.started
        /\ p.pid # 0 <=> p.state \in Alive
        /\ p.killing <=> p.state = "STOPPING"
        /\ p.state \in Alive \cup {"BACKOFF"}
    BY <1>3 DEF Sane, Alive
  <2>3. state = "STOPPING" /\ p.state = "STOPPING"
    BY <1>3
  <2>4. LET q == kill(p, TRUE, c)
        IN  Sane(q, c) /\ q.pid = p.pid /\ q.raised = p.raised /\ q.state = "STOPPING"
    BY <2>2, <2>3, KillSane
  <2> QED BY <2>1, <2>4
<1>4. CASE /\ ~(state = "STARTING" /\ confirmed(p, c))
           /\ ~(state = "BACKOFF" /\ p.backoff > c.startretries)
           /\ ~(state = "STOPPING" /\ overdue(p))
  BY <1>4 DEF settle
<1> QED BY <1>1, <1>2, <1>3, <1>4

\* transition() in a system that delivers its signal.
Turn(p, m, f, outcome, pid, c) == transition(p, m, f, outcome, pid, TRUE, c)

\* What one pass of the loop may do to an object: the daemon starts programs only
\* while it is to stay, and none that an administrator stopped.
LEMMA TransitionSane ==
    ASSUME NEW p \in ProcessType, NEW c, Timed(c), Sane(p, c), ~p.raised,
           NEW m \in {"RUNNING", "RESTARTING", "SHUTDOWN"}, NEW f \in {"absent", "stale"},
           NEW outcome \in {"fork", "failed"}, NEW pid \in PidsOrNone, outcome = "fork" => pid \in Pids
    PROVE  LET after == Turn(p, m, f, outcome, pid, c)
           IN  /\ Sane(after, c) /\ ~after.raised
               /\ after.pid = p.pid \/ (p.pid = 0 /\ after.pid = pid /\ after.pid \in Pids)
               /\ after.pid # p.pid => m = "RUNNING" /\ ~p.administrative_stop
               /\ after.pid # p.pid => after.state = "STARTING"
               /\ p.state = "STOPPING" => after.pid = p.pid /\ after.state = "STOPPING"
<1> DEFINE ready == IF p.state = "DISABLED" THEN change_state(p, "STOPPED", c) ELSE p
           q == IF wantsSpawn(p, c, m, f) THEN spawn(ready, outcome, pid, c) ELSE p
           r == settle(q, p.state, TRUE, c)
<1>1. ~probesNothing(p, m, f)
  BY DEF probesNothing
<1>2. CASE wantsSpawn(p, c, m, f)
  <2>1. /\ m = "RUNNING"
        /\ p.state \in {"EXITED", "STOPPED", "BACKOFF"}
        /\ p.state = "STOPPED" => ~p.started
        /\ p.state = "BACKOFF" => p.backoff <= c.startretries
    BY <1>2 DEF wantsSpawn, autorestarts, autostarts, reattaches, retries
  <2>2. p.pid = 0 /\ p.state \in Startable /\ ~p.administrative_stop /\ ready = p
    BY <2>1 DEF Sane, Alive, Startable
  <2>3. q = spawn(p, outcome, pid, c)
    BY <1>2, <2>2
  <2>4. q \in ProcessType
    BY <2>3, SpawnType
  <2>5. /\ Sane(q, c) /\ ~q.raised
        /\ q.pid = 0 \/ (q.pid = pid /\ q.pid \in Pids /\ q.state = "STARTING")
    BY <2>2, <2>3, SpawnSane
  <2>6. p.state = "BACKOFF" /\ q.backoff > c.startretries => q.state = "BACKOFF"
    BY <2>1, <2>2, <2>3 DEF spawn, Afresh, change_state, RestingState, _spawn_as_parent,
                            ProcessType, Timed, Startable
  <2>7. p.state \in ProcessStates
    BY DEF ProcessType
  <2> HIDE DEF q
  <2>8. Sane(r, c) /\ r.pid = q.pid /\ ~r.raised
    BY <2>1, <2>4, <2>5, <2>6, <2>7, SettleSane
  <2>10. q.state = "STARTING" => r = q
    BY <2>1, <2>6 DEF settle
  <2>9. Turn(p, m, f, outcome, pid, c) = r
    BY <1>1, <2>5 DEF Turn, transition, q
  <2> HIDE DEF r
  <2> QED BY <2>1, <2>2, <2>5, <2>8, <2>9, <2>10
<1>3. CASE ~wantsSpawn(p, c, m, f)
  <2>1. p.state \in ProcessStates
    BY DEF ProcessType
  <2>2. LET s == settle(p, p.state, TRUE, c)
        IN  /\ Sane(s, c) /\ s.pid = p.pid /\ ~s.raised
            /\ p.state = "STOPPING" => s.state = "STOPPING"
    BY <2>1, SettleSane
  <2>3. Turn(p, m, f, outcome, pid, c) = settle(p, p.state, TRUE, c)
    BY <1>1, <1>3 DEF Turn, transition
  <2> QED BY <2>2, <2>3
<1> QED BY <1>2, <1>3

LEMMA StopAllSane ==
    ASSUME NEW p \in ProcessType, NEW c, Timed(c), Sane(p, c), ~p.raised
    PROVE  LET q == stop_all(p, TRUE, c)
           IN  /\ Sane(q, c) /\ q.pid = p.pid /\ ~q.raised
               /\ p.state = "STOPPING" => q = p
<1>1. CASE p.state \in {"RUNNING", "STARTING"}
  BY <1>1, StopSane DEF stop_all
<1>2. CASE p.state = "BACKOFF"
  BY <1>2, GiveUpSane DEF stop_all
<1>3. CASE p.state \notin {"RUNNING", "STARTING", "BACKOFF"}
  BY <1>3 DEF stop_all
<1> QED BY <1>1, <1>2, <1>3

-----------------------------------------------------------------------------
(* Outlines.                                                               *)

\* The child is there exactly in the states in which there is one.
Sound(o) == o \in OutlineType /\ (o.child # "none" <=> o.state \in Alive)

LEMMA FreshSound ==
    ASSUME NEW c
    PROVE  Sound(Fresh(c)) /\ ~Unstopped(Fresh(c)) /\ Fresh(c).child = "none"
BY DEF Sound, Fresh, OutlineType, ProcessStates, ChildOutlines, Alive, Unstopped,
       ALL_STOPPED_STATES

\* What stops a process leaves one that is stopped alone.
LEMMA StopsSound ==
    ASSUME NEW o, NEW c, Sound(o)
    PROVE  /\ Sound(Stops(o, c)) /\ Stops(o, c).child = o.child
           /\ ~Unstopped(o) => Stops(o, c) = o
BY DEF Sound, Stops, At, OutlineType, ProcessStates, Alive, Unstopped, ALL_STOPPED_STATES

LEMMA StopsAllSound ==
    ASSUME NEW o, NEW c, Sound(o)
    PROVE  /\ Sound(StopsAll(o, c)) /\ StopsAll(o, c).child = o.child
           /\ ~Unstopped(o) => StopsAll(o, c) = o
BY DEF Sound, StopsAll, Stops, At, OutlineType, ProcessStates, Alive, Unstopped,
       ALL_STOPPED_STATES

LEMMA SpawnsSound ==
    ASSUME NEW o, Sound(o), NEW q \in Spawns(o)
    PROVE  Sound(q)
<1>1. \/ q = o
      \/ q = [state |-> "STARTING", started |-> TRUE, child |-> "up"]
      \/ q = [state |-> "BACKOFF", started |-> TRUE, child |-> "none"]
  BY DEF Spawns
<1>2. /\ [state |-> "STARTING", started |-> TRUE, child |-> "up"] \in OutlineType
      /\ [state |-> "BACKOFF", started |-> TRUE, child |-> "none"] \in OutlineType
  BY DEF OutlineType, ProcessStates, ChildOutlines
<1>3. CASE q = [state |-> "STARTING", started |-> TRUE, child |-> "up"]
  BY <1>2, <1>3 DEF Sound, Alive
<1>4. CASE q = [state |-> "BACKOFF", started |-> TRUE, child |-> "none"]
  BY <1>2, <1>4 DEF Sound, Alive
<1> QED BY <1>1, <1>3, <1>4

\* A reaped process has no child.
LEMMA FinishesSound ==
    ASSUME NEW o, NEW c, Sound(o), NEW q \in Finishes(o, c)
    PROVE  Sound(q) /\ q.child = "none"
<1>1. PICK new \in {"STOPPED", "BACKOFF", "EXITED"} : q = [At(o, new, c) EXCEPT !.child = "none"]
  BY DEF Finishes
<1> QED BY <1>1 DEF Sound, At, OutlineType, ProcessStates, ChildOutlines, Alive

\* The daemon that is to go starts nothing, and leaves alone what is stopped.
LEMMA TransitionsSound ==
    ASSUME NEW o, NEW c, NEW mood, Sound(o), NEW q \in Transitions(o, c, mood)
    PROVE  /\ Sound(q)
           /\ mood # "RUNNING" /\ o.child = "none" => q.child = "none"
           /\ mood # "RUNNING" /\ ~Unstopped(o) => q = o
<1>1. \/ q = o
      \/ o.state = "STARTING" /\ q = At(o, "RUNNING", c)
      \/ o.state = "STOPPING" /\ q = Killed(o)
      \/ o.state = "BACKOFF" /\ q = At(o, "FATAL", c)
      \/ StartsItself(o, c, mood) /\ q \in Spawns(o)
  BY DEF Transitions
<1>2. CASE o.state = "STARTING" /\ q = At(o, "RUNNING", c)
  BY <1>2 DEF Sound, At, OutlineType, ProcessStates, Alive, Unstopped, ALL_STOPPED_STATES
<1>3. CASE o.state = "STOPPING" /\ q = Killed(o)
  BY <1>3 DEF Sound, Killed, OutlineType, ChildOutlines, Alive, Unstopped, ALL_STOPPED_STATES
<1>4. CASE o.state = "BACKOFF" /\ q = At(o, "FATAL", c)
  BY <1>4 DEF Sound, At, OutlineType, ProcessStates, Alive, Unstopped, ALL_STOPPED_STATES
<1>5. CASE StartsItself(o, c, mood) /\ q \in Spawns(o)
  BY <1>5, SpawnsSound DEF StartsItself
<1> QED BY <1>1, <1>2, <1>3, <1>4, <1>5

\* The same methods on an object that nobody looks after, whatever became of it.
LEMMA FinishesType ==
    ASSUME NEW o \in OutlineType, NEW c, NEW q \in Finishes(o, c)
    PROVE  q \in OutlineType
<1>1. PICK new \in {"STOPPED", "BACKOFF", "EXITED"} : q = [At(o, new, c) EXCEPT !.child = "none"]
  BY DEF Finishes
<1> QED BY <1>1 DEF At, OutlineType, ProcessStates, ChildOutlines

LEMMA StopsType ==
    ASSUME NEW o \in OutlineType, NEW c
    PROVE  Stops(o, c) \in OutlineType /\ StopsAll(o, c) \in OutlineType
BY DEF Stops, StopsAll, At, OutlineType, ProcessStates

LEMMA SpawnsType ==
    ASSUME NEW o \in OutlineType, NEW q \in Spawns(o)
    PROVE  q \in OutlineType
<1>1. /\ [state |-> "STARTING", started |-> TRUE, child |-> "up"] \in OutlineType
      /\ [state |-> "BACKOFF", started |-> TRUE, child |-> "none"] \in OutlineType
  BY DEF OutlineType, ProcessStates, ChildOutlines
<1> QED BY <1>1 DEF Spawns

LEMMA TransitionsType ==
    ASSUME NEW o \in OutlineType, NEW c, NEW mood, NEW q \in Transitions(o, c, mood)
    PROVE  q \in OutlineType
<1>1. \/ q = o
      \/ q = At(o, "RUNNING", c)
      \/ q = Killed(o)
      \/ q = At(o, "FATAL", c)
      \/ q \in Spawns(o)
  BY DEF Transitions
<1>2. At(o, "RUNNING", c) \in OutlineType /\ At(o, "FATAL", c) \in OutlineType
  BY DEF At, OutlineType, ProcessStates
<1>3. Killed(o) \in OutlineType
  BY DEF Killed, OutlineType, ChildOutlines
<1> QED BY <1>1, <1>2, <1>3, SpawnsType

-----------------------------------------------------------------------------
(* What becomes of an object's outline.                                    *)

\* There is a child behind the pid.
Fits(p, ch) == ch \in ChildOutlines /\ (ch # "none" <=> p.pid # 0)

\* The child of the object p after a method that leaves the object as q: a new one if
\* one was forked, and killed if the method was to kill it.
ChildAfter(p, ch, q) ==
    IF p.pid = 0 /\ q.pid # 0 THEN "up"
    ELSE IF overdue(p) /\ ch = "up" THEN "killed" ELSE ch

LEMMA OutlineIs ==
    ASSUME NEW p, NEW q, NEW ch, q.state = p.state, q.started = p.started
    PROVE  Outline(q, ch) = Outline(p, ch)
BY DEF Outline

LEMMA NewOutline == ASSUME NEW c PROVE Outline(NewProcess(c), "none") = Fresh(c)
BY DEF Outline, NewProcess, Fresh

\* The object is where At() says after a method that went there.
LEMMA AtIs ==
    ASSUME NEW p, NEW q, NEW ch, NEW new, NEW c, q.started = p.started,
           q.state = IF new \in {"STOPPED", "EXITED"} /\ ~c.enabled THEN "DISABLED" ELSE new
    PROVE  Outline(q, ch) = At(Outline(p, ch), new, c)
BY DEF Outline, At

LEMMA SpawnOutline ==
    ASSUME NEW p \in ProcessType, NEW c, Timed(c), Sane(p, c), NEW ch, Fits(p, ch),
           p.pid # 0 \/ p.state \in Startable,
           NEW outcome, NEW pid, outcome = "fork" => pid \in Pids
    PROVE  LET q == spawn(p, outcome, pid, c)
           IN  Outline(q, IF p.pid = 0 /\ q.pid # 0 THEN "up" ELSE ch) \in Spawns(Outline(p, ch))
<1> DEFINE q == spawn(p, outcome, pid, c)
<1>0. Outline(p, ch).child = ch
  BY DEF Outline
<1>1. CASE p.pid # 0
  <2>1. q = p
    BY <1>1 DEF spawn
  <2>2. ch # "none"
    BY <1>1 DEF Fits
  <2> QED BY <1>0, <1>1, <2>1, <2>2 DEF Spawns
<1>2. CASE p.pid = 0 /\ outcome = "fork"
  <2>1. q.state = "STARTING" /\ q.started = TRUE /\ q.pid = pid
    BY <1>2 DEF spawn, Afresh, change_state, RestingState, _spawn_as_parent, ProcessType, Startable
  <2>2. pid # 0 /\ ch = "none"
    BY <1>2, PidsAssumption DEF Fits
  <2> HIDE DEF q
  <2>3. Outline(q, "up") = [state |-> "STARTING", started |-> TRUE, child |-> "up"]
    BY <2>1 DEF Outline
  <2> QED BY <1>0, <1>2, <2>1, <2>2, <2>3 DEF Spawns, q
<1>3. CASE p.pid = 0 /\ outcome # "fork"
  <2>1. q.state = "BACKOFF" /\ q.started = TRUE /\ q.pid = 0
    BY <1>3 DEF spawn, Afresh, change_state, RestingState, ProcessType, Startable
  <2>2. ch = "none"
    BY <1>3 DEF Fits
  <2> HIDE DEF q
  <2>3. Outline(q, "none") = [state |-> "BACKOFF", started |-> TRUE, child |-> "none"]
    BY <2>1 DEF Outline
  <2> QED BY <1>0, <1>3, <2>1, <2>2, <2>3 DEF Spawns, q
<1> QED BY <1>1, <1>2, <1>3

LEMMA StopOutline ==
    ASSUME NEW p \in ProcessType, NEW c, Timed(c), Sane(p, c), NEW ch, Fits(p, ch)
    PROVE  Outline(stop(p, TRUE, c), ch) = Stops(Outline(p, ch), c)
<1> DEFINE q == stop(p, TRUE, c)
<1>0. /\ Outline(p, ch).child = ch /\ Outline(p, ch).state = p.state
      /\ ch = "none" <=> p.pid = 0
  BY DEF Outline, Fits
<1>1. CASE p.state = "BACKOFF"
  <2>1. /\ q.started = p.started
        /\ q.state = IF ~c.enabled THEN "DISABLED" ELSE "STOPPED"
    BY <1>1 DEF stop, kill, change_state, RestingState, ProcessType
  <2> HIDE DEF q
  <2>2. Outline(q, ch) = At(Outline(p, ch), "STOPPED", c)
    BY <2>1, AtIs
  <2> QED BY <1>0, <1>1, <2>2 DEF Stops, q
<1>2. CASE p.state # "BACKOFF" /\ p.pid = 0
  <2>1. q.started = p.started /\ q.state = p.state
    BY <1>2 DEF stop, kill, ProcessType
  <2> HIDE DEF q
  <2> QED BY <1>0, <1>2, <2>1, OutlineIs DEF Stops, q
<1>3. CASE p.state # "BACKOFF" /\ p.pid # 0
  <2>1. q.started = p.started /\ q.state = "STOPPING"
    BY <1>3 DEF stop, kill, Signals, Killing, change_state, RestingState, ProcessType, Sane, Alive
  <2> HIDE DEF q
  <2>2. Outline(q, ch) = At(Outline(p, ch), "STOPPING", c)
    BY <2>1, AtIs
  <2> QED BY <1>0, <1>3, <2>2 DEF Stops, q
<1> QED BY <1>1, <1>2, <1>3

LEMMA GiveUpOutline ==
    ASSUME NEW p \in ProcessType, NEW c, NEW ch, p.state = "BACKOFF"
    PROVE  Outline(give_up(p, c), ch) = At(Outline(p, ch), "FATAL", c)
<1>1. give_up(p, c).started = p.started /\ give_up(p, c).state = "FATAL"
  BY DEF give_up, change_state, RestingState, ProcessType
<1> QED BY <1>1, AtIs

LEMMA StopAllOutline ==
    ASSUME NEW p \in ProcessType, NEW c, Timed(c), Sane(p, c), NEW ch, Fits(p, ch)
    PROVE  Outline(stop_all(p, TRUE, c), ch) = StopsAll(Outline(p, ch), c)
<1>0. Outline(p, ch).state = p.state
  BY DEF Outline
<1>1. CASE p.state \in {"RUNNING", "STARTING"}
  BY <1>0, <1>1, StopOutline DEF stop_all, StopsAll
<1>2. CASE p.state = "BACKOFF"
  BY <1>0, <1>2, GiveUpOutline DEF stop_all, StopsAll
<1>3. CASE p.state \notin {"RUNNING", "STARTING", "BACKOFF"}
  BY <1>0, <1>3 DEF stop_all, StopsAll
<1> QED BY <1>1, <1>2, <1>3

LEMMA FinishOutline ==
    ASSUME NEW p \in ProcessType, NEW c, Timed(c), Sane(p, c), ~p.raised, NEW ch, Fits(p, ch),
           p.pid # 0, NEW es \in {"expected", "unexpected"}
    PROVE  Outline(finish(p, es, c), "none") \in Finishes(Outline(p, ch), c)
<1> DEFINE q == finish(p, es, c)
           o == Outline(p, ch)
<1>0. o.state = p.state /\ o.started = p.started
  BY DEF Outline
<1>1. ASSUME NEW new, q.started = p.started,
             q.state = IF new \in {"STOPPED", "EXITED"} /\ ~c.enabled THEN "DISABLED" ELSE new
      PROVE  Outline(q, "none") = [At(o, new, c) EXCEPT !.child = "none"]
  <2> HIDE DEF q
  <2>1. Outline(q, ch) = At(o, new, c)
    BY <1>1, AtIs
  <2> QED BY <2>1 DEF Outline
<1>2. CASE p.killing
  <2>1. p.state = "STOPPING"
    BY <1>2 DEF Sane
  <2>2. q.started = p.started /\ q.state = IF ~c.enabled THEN "DISABLED" ELSE "STOPPED"
    BY <1>2, <2>1 DEF finish, Stopped, change_state, RestingState, ProcessType
  <2> HIDE DEF q, o
  <2>3. Outline(q, "none") = [At(o, "STOPPED", c) EXCEPT !.child = "none"]
    BY <1>1, <2>2
  <2> QED BY <1>0, <2>1, <2>3 DEF Finishes, q, o
<1>3. CASE ~p.killing /\ TooQuickly(p, c)
  <2>1. p.state = "STARTING"
    BY <1>3 DEF TooQuickly, Sane, Alive, Timed, ProcessType
  <2>2. q.started = p.started /\ q.state = "BACKOFF"
    BY <1>3, <2>1 DEF finish, DiedStarting, change_state, RestingState, ProcessType
  <2> HIDE DEF q, o
  <2>3. Outline(q, "none") = [At(o, "BACKOFF", c) EXCEPT !.child = "none"]
    BY <1>1, <2>2
  <2> QED BY <1>0, <2>1, <2>3 DEF Finishes, q, o
<1>4. CASE ~p.killing /\ ~TooQuickly(p, c)
  <2>1. p.state \in {"STARTING", "RUNNING"}
    BY <1>4 DEF Sane, Alive
  <2>2. q.started = p.started /\ q.state = IF ~c.enabled THEN "DISABLED" ELSE "EXITED"
    BY <1>4, <2>1 DEF finish, Exited, change_state, RestingState, ProcessType
  <2> HIDE DEF q, o
  <2>3. Outline(q, "none") = [At(o, "EXITED", c) EXCEPT !.child = "none"]
    BY <1>1, <2>2
  <2> QED BY <1>0, <2>1, <2>3 DEF Finishes, q, o
<1> QED BY <1>2, <1>3, <1>4

LEMMA TransitionOutline ==
    ASSUME NEW p \in ProcessType, NEW c, Timed(c), Sane(p, c), ~p.raised, NEW ch, Fits(p, ch),
           NEW m \in {"RUNNING", "RESTARTING", "SHUTDOWN"}, ~c.run_detached,
           NEW outcome \in {"fork", "failed"}, NEW pid, outcome = "fork" => pid \in Pids
    PROVE  LET q == Turn(p, m, "absent", outcome, pid, c)
           IN  Outline(q, ChildAfter(p, ch, q)) \in Transitions(Outline(p, ch), c, m)
<1> DEFINE o == Outline(p, ch)
           s == spawn(p, outcome, pid, c)
           q == Turn(p, m, "absent", outcome, pid, c)
<1>0. o.state = p.state /\ o.started = p.started /\ o.child = ch
  BY DEF Outline
<1>1. ~probesNothing(p, m, "absent")
  BY DEF probesNothing
<1>2. CASE wantsSpawn(p, c, m, "absent")
  <2>1. /\ StartsItself(o, c, m) /\ p.state \in {"EXITED", "STOPPED", "BACKOFF"}
        /\ p.state = "BACKOFF" => p.backoff <= c.startretries
    BY <1>0, <1>2 DEF wantsSpawn, autorestarts, autostarts, reattaches, retries, StartsItself
  <2>2. p.pid = 0 /\ p.state \in Startable /\ ch = "none"
    BY <2>1 DEF Sane, Alive, Startable, Fits
  <2>3. s.raised = FALSE /\ s.state \in {"STARTING", "BACKOFF"} /\ s.started = TRUE
    BY <2>2 DEF spawn, Afresh, change_state, RestingState, _spawn_as_parent, ProcessType, Startable
  <2>4. q = settle(s, p.state, TRUE, c)
    BY <1>1, <1>2, <2>1, <2>3 DEF Turn, transition
  <2>5. Outline(s, IF s.pid # 0 THEN "up" ELSE ch) \in Spawns(o)
    BY <2>2, SpawnOutline
  <2>6. \/ q = s
        \/ s.state = "BACKOFF" /\ p.state = "BACKOFF" /\ s.pid = 0 /\ q = give_up(s, c)
    <3>1. p.state = "BACKOFF" /\ s.backoff > c.startretries => s.state = "BACKOFF" /\ s.pid = 0
      BY <2>1, <2>2 DEF spawn, Afresh, change_state, RestingState, _spawn_as_parent, ProcessType,
                        Timed, Startable
    <3> HIDE DEF s, q
    <3> QED BY <2>1, <2>4, <3>1 DEF settle
  <2>7. CASE q = s
    <3>1. ChildAfter(p, ch, q) = IF s.pid # 0 THEN "up" ELSE ch
      BY <2>1, <2>2, <2>7 DEF ChildAfter, overdue
    <3> HIDE DEF s, q, o
    <3> QED BY <2>1, <2>5, <2>7, <3>1 DEF Transitions, o, q
  <2>8. CASE s.state = "BACKOFF" /\ p.state = "BACKOFF" /\ s.pid = 0 /\ q = give_up(s, c)
    <3>1. p.started = TRUE
      BY <2>8 DEF Sane, ProcessType
    <3>2. s \in ProcessType
      <4>1. pid \in PidsOrNone \/ s = spawn(p, outcome, 0, c)
        BY DEF PidsOrNone, spawn
      <4> QED BY <4>1, SpawnType, FieldValues
    <3> HIDE DEF s
    <3>3. q.pid = 0 /\ q.state = "FATAL" /\ q.started = TRUE
      BY <2>3, <2>8, <3>2 DEF give_up, change_state, RestingState, ProcessType
    <3>4. ChildAfter(p, ch, q) = ch
      BY <2>2, <2>8, <3>3 DEF ChildAfter, overdue
    <3> HIDE DEF q
    <3>5. Outline(q, ch) = At(Outline(p, ch), "FATAL", c)
      <4>1. q.started = p.started /\ q.state = IF "FATAL" \in {"STOPPED", "EXITED"} /\ ~c.enabled
                                               THEN "DISABLED" ELSE "FATAL"
        BY <3>1, <3>3
      <4> QED BY <4>1, AtIs
    <3> QED BY <1>0, <2>8, <3>4, <3>5 DEF Transitions, q
  <2> QED BY <2>6, <2>7, <2>8
<1>3. CASE ~wantsSpawn(p, c, m, "absent")
  <2>1. q = settle(p, p.state, TRUE, c)
    BY <1>1, <1>3 DEF Turn, transition
  <2> HIDE DEF q
  <2>2. CASE p.state = "STARTING" /\ confirmed(p, c)
    <3>1. q.state = "RUNNING" /\ q.started = p.started /\ q.pid = p.pid
      BY <2>1, <2>2 DEF settle, change_state, RestingState, ProcessType
    <3>2. Outline(q, ch) = At(Outline(p, ch), "RUNNING", c) /\ ChildAfter(p, ch, q) = ch
      BY <2>2, <3>1, AtIs DEF ChildAfter, overdue
    <3> QED BY <1>0, <2>2, <3>2 DEF Transitions, q
  <2>3. CASE p.state = "BACKOFF" /\ p.backoff > c.startretries
    <3>1. q = give_up(p, c) /\ q.pid = p.pid
      BY <2>1, <2>3, GiveUpSane DEF settle
    <3>2. Outline(q, ch) = At(Outline(p, ch), "FATAL", c) /\ ChildAfter(p, ch, q) = ch
      BY <2>3, <3>1, GiveUpOutline DEF ChildAfter, overdue
    <3> QED BY <1>0, <2>3, <3>2 DEF Transitions, q
  <2>4. CASE p.state = "STOPPING" /\ overdue(p)
    <3>1. q = kill(p, TRUE, c) /\ p.pid # 0
      BY <2>1, <2>4 DEF settle, Sane, Alive
    <3>2. q.state = "STOPPING" /\ q.started = p.started /\ q.pid = p.pid
      BY <2>4, <3>1 DEF kill, Signals, Killing, change_state, ProcessType
    <3>3. Outline(q, ChildAfter(p, ch, q)) = Killed(o)
      <4>1. ChildAfter(p, ch, q) = IF ch = "up" THEN "killed" ELSE ch
        BY <2>4, <3>1 DEF ChildAfter
      <4> QED BY <2>4, <3>2, <4>1 DEF Outline, Killed
    <3> QED BY <1>0, <2>4, <3>3 DEF Transitions, q
  <2>5. CASE /\ ~(p.state = "STARTING" /\ confirmed(p, c))
             /\ ~(p.state = "BACKOFF" /\ p.backoff > c.startretries)
             /\ ~(p.state = "STOPPING" /\ overdue(p))
    <3>1. q = p
      BY <2>1, <2>5 DEF settle
    <3>2. ChildAfter(p, ch, q) = ch
      BY <2>5, <3>1 DEF ChildAfter, overdue
    <3>3. StartsItself(o, c, m) => p.state \in {"EXITED", "BACKOFF"}
                                   /\ (p.state = "EXITED" => c.autorestart # "always")
      BY <1>0, <1>3 DEF StartsItself, wantsSpawn, autorestarts, autostarts
    <3> HIDE DEF o
    <3>4. o \in Transitions(o, c, m)
      BY <1>0, <3>3 DEF Transitions
    <3> QED BY <3>1, <3>2, <3>4 DEF o, q
  <2> QED BY <2>2, <2>3, <2>4, <2>5
<1> QED BY <1>2, <1>3

\* What ProcessOutline says of a foreground program is what the methods of its object
\* do, for every clock, every timer and every outcome of a fork, as long as the system
\* delivers the signals and the object is not at odds with itself.  AdminService,
\* DeferredCalls and DetachedProgram use the outlines in the place of the methods.
THEOREM OutlinesAreSound ==
    ASSUME NEW p \in ProcessType, NEW c, Timed(c), Sane(p, c), ~p.raised,
           NEW ch, Fits(p, ch), NEW outcome \in {"fork", "failed"}, NEW pid \in Pids
    PROVE  /\ Outline(NewProcess(c), "none") = Fresh(c)
           /\ p.pid # 0 \/ p.state \in Startable =>
              LET q == spawn(p, outcome, pid, c)
              IN  Outline(q, IF p.pid = 0 /\ q.pid # 0 THEN "up" ELSE ch) \in Spawns(Outline(p, ch))
           /\ Outline(stop(p, TRUE, c), ch) = Stops(Outline(p, ch), c)
           /\ Outline(stop_all(p, TRUE, c), ch) = StopsAll(Outline(p, ch), c)
           /\ p.pid # 0 => \A es \in {"expected", "unexpected"} :
                Outline(finish(p, es, c), "none") \in Finishes(Outline(p, ch), c)
           /\ ~c.run_detached => \A m \in {"RUNNING", "RESTARTING", "SHUTDOWN"} :
                LET q == Turn(p, m, "absent", outcome, pid, c)
                IN  Outline(q, ChildAfter(p, ch, q)) \in Transitions(Outline(p, ch), c, m)
<1>1. p.pid # 0 \/ p.state \in Startable =>
        LET q == spawn(p, outcome, pid, c)
        IN  Outline(q, IF p.pid = 0 /\ q.pid # 0 THEN "up" ELSE ch) \in Spawns(Outline(p, ch))
  BY SpawnOutline
<1>2. p.pid # 0 => \A es \in {"expected", "unexpected"} :
        Outline(finish(p, es, c), "none") \in Finishes(Outline(p, ch), c)
  BY FinishOutline
<1>3. ~c.run_detached => \A m \in {"RUNNING", "RESTARTING", "SHUTDOWN"} :
        LET q == Turn(p, m, "absent", outcome, pid, c)
        IN  Outline(q, ChildAfter(p, ch, q)) \in Transitions(Outline(p, ch), c, m)
  BY TransitionOutline
<1> QED BY <1>1, <1>2, <1>3, NewOutline, StopOutline, StopAllOutline
=============================================================================
