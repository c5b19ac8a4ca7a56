------------------------- MODULE ProcessGroup_proofs -------------------------
(***************************************************************************)
(* Theorems about ProcessGroup, for groups of every size and with every    *)
(* configuration: its types, that no member loses its child whatever the   *)
(* group makes of it, and the order in which the main loop starts members. *)
(*                                                                         *)
(* The argument: the loop gives up and delays only members that are        *)
(* stopped, so every member is Sane between two handlers, as in            *)
(* Subprocess; and a stopped member that comes to its transition() behind  *)
(* one that is starting has been through the two tests before it.          *)
(***************************************************************************)
EXTENDS ProcessGroup, ProcessMethods_proofs

MemberOK(k) ==
    /\ Sane(procs[k], config[k]) /\ ~procs[k].raised
    /\ procs[k].pid \in {0, k}
    /\ child[k] # "none" <=> procs[k].pid # 0

\* A call that starts a member is about that member.
Calling == pc \in {"start_reap", "start_transition"} => turn \in Members

IInv ==
    /\ TypeOK /\ Calling
    /\ \A k \in Members : MemberOK(k)
    /\ pc # "crashed"
    /\ pc = "exited" => \A k \in Members : procs[k].state \in ALL_STOPPED_STATES

-----------------------------------------------------------------------------
(* The types.                                                              *)

LEMMA MemberNames ==
    /\ \A k \in Members : k \in Pids /\ k \in PidsOrNone /\ k \in Nat /\ k # 0 /\ k + 1 \in 1..N + 1
                          /\ k \in 1..N + 1
    /\ 1 \in 1..N + 1
BY GroupAssumption DEF Members, PidsOrNone

LEMMA PCNames ==
    /\ \A s \in {"phase1", "dispatch", "transition", "reap", "start_reap",
                 "start_transition", "stop_reap", "exited", "crashed"} : s \in PCs
    /\ \A s \in {"none", "up", "killed", "zombie"} : s \in ChildStates
BY DEF PCs, ChildStates

LEMMA MemberTimed ==
    ASSUME TypeOK, NEW k \in Members
    PROVE  /\ procs[k] \in ProcessType /\ Timed(config[k]) /\ child[k] \in ChildStates
           /\ waits_left[k] \in Nat \cup {NoWait} /\ config[k].waitforprevious \in Nat
BY DEF TypeOK, MemberConfigType, Timed

\* A handler that leaves a member an object leaves objects and a place of the thread.
LEMMA ReturnsType ==
    ASSUME TypeOK, NEW k \in Members, NEW p \in ProcessType, NEW next \in PCs, Returns(k, p, next)
    PROVE  procs' \in [Members -> ProcessType] /\ pc' \in PCs
<1>1. [p EXCEPT !.raised = FALSE] \in ProcessType
  BY DEF ProcessType
<1> QED BY <1>1 DEF Returns, Escape, PCs, TypeOK

LEMMA ChildType ==
    ASSUME TypeOK, NEW k \in Members, NEW p,
           KillChild(k) \/ ForkChild(k, p) \/ child' = [child EXCEPT ![k] = "none"]
    PROVE  child' \in [Members -> ChildStates]
<1>1. child \in [Members -> ChildStates] /\ child[k] \in ChildStates
  BY DEF TypeOK
<1> QED BY <1>1, PCNames DEF KillChild, ForkChild

LEMMA ReadiedType ==
    ASSUME TypeOK, NEW k \in Members, NEW force
    PROVE  Readied(k, force) \in ProcessType
BY MemberTimed, ChangeStateType, StateNames DEF Readied

LEMMA LaterType ==
    ASSUME NEW p \in ProcessType, NEW c, Timed(c)
    PROVE  Later(p, c) \in ProcessType
<1> DEFINE a == IF p.age < Ripe(c) THEN p.age + 1 ELSE p.age
           l == IF p.left > Past THEN p.left - 1 ELSE p.left
<1>1. a \in Int /\ l \in Int
  BY ConfigValues, FieldValues DEF ProcessType
<1>2. Later(p, c) = [p EXCEPT !.age = a, !.left = l]
  BY DEF Later, ProcessType
<1> HIDE DEF a, l
<1> QED BY <1>1, <1>2 DEF ProcessType

LEMMA InitType == Init => TypeOK
<1> SUFFICES ASSUME Init PROVE TypeOK
  OBVIOUS
<1>1. config \in [Members -> MemberConfigType]
  BY GroupAssumption DEF Init
<1>2. ASSUME NEW k \in Members PROVE NewProcess(config[k]) \in ProcessType
  <2>1. Timed(config[k])
    BY <1>1 DEF MemberConfigType, Timed
  <2> QED BY <2>1, NewProcessType
<1> QED BY <1>1, <1>2, MemberNames, PCNames DEF Init, TypeOK

LEMMA NextType == TypeOK /\ Calling /\ [Next]_vars => TypeOK'
<1> SUFFICES ASSUME TypeOK, Calling, [Next]_vars PROVE TypeOK'
  OBVIOUS
<1> USE DEF loop
<1>1. ASSUME NEW k \in Members, NEW force \in Forces, StartProcess(k, force) PROVE TypeOK'
  <2>1. PICK outcome \in {"fork", "failed"} :
          LET p == spawn(Readied(k, force), outcome, k, config[k])
          IN  Returns(k, p, "start_reap") /\ ForkChild(k, p)
    BY <1>1 DEF StartProcess
  <2> DEFINE p == spawn(Readied(k, force), outcome, k, config[k])
  <2>2. p \in ProcessType
    BY ReadiedType, SpawnType, MemberTimed, MemberNames
  <2> HIDE DEF p
  <2>3. procs' \in [Members -> ProcessType] /\ pc' \in PCs /\ child' \in [Members -> ChildStates]
    BY <2>1, <2>2, ReturnsType, ChildType, PCNames DEF p
  <2> QED BY <1>1, <2>3, MemberNames DEF StartProcess, TypeOK
<1>2. ASSUME NEW k \in Members, StopProcess(k) PROVE TypeOK'
  <2>1. stop(procs[k], TRUE, config[k]) \in ProcessType
    BY StopType, MemberTimed
  <2>2. procs' \in [Members -> ProcessType] /\ pc' \in PCs
    BY <1>2, <2>1, ReturnsType, PCNames DEF StopProcess
  <2> QED BY <1>2, <2>2 DEF StopProcess, TypeOK
<1>3. CASE Shutdown
  BY <1>3 DEF Shutdown, TypeOK
<1>4. CASE Proceed \/ EndDispatch \/ Pause \/ EndTransition
  BY <1>4, MemberNames, PCNames DEF Proceed, EndDispatch, Pause, EndTransition, Leave, TypeOK
<1>5. CASE StopAll
  <2>1. \A k \in Members : stop_all(procs[k], TRUE, config[k]) \in ProcessType
    BY StopAllType, MemberTimed
  <2>2. procs' = [k \in Members |-> stop_all(procs[k], TRUE, config[k])] /\ pc' \in PCs
    BY <1>5, PCNames DEF StopAll
  <2> QED BY <1>5, <2>1, <2>2 DEF StopAll, TypeOK
<1>6. CASE Wait
  <2>1. turn \in Members /\ waits > 0
    BY <1>6 DEF Wait, MustWait, InLine
  <2>2. waits \in Nat \cup {NoWait}
    BY <2>1, MemberTimed DEF waits
  <2>3. waits - 1 \in Nat
    BY <2>1, <2>2 DEF NoWait
  <2> HIDE DEF waits
  <2> QED BY <1>6, <2>3, MemberNames, PCNames DEF Wait, Leave, TypeOK
<1>7. CASE Fail
  <2>1. turn \in Members
    BY <1>7 DEF Fail, MustFail, InLine
  <2>2. waits \in Nat \cup {NoWait}
    BY <2>1, MemberTimed DEF waits
  <2>3. change_state(procs[turn], "FATAL", config[turn]) \in ProcessType
    BY <2>1, MemberTimed, ChangeStateType, StateNames
  <2> HIDE DEF waits
  <2> QED BY <1>7, <2>1, <2>2, <2>3, MemberNames DEF Fail, TypeOK
<1>8. CASE Transition
  <2>1. PICK outcome \in {"fork", "failed"} :
         LET p == transition(procs[turn], mood, "absent", outcome, turn, TRUE, config[turn])
         IN  /\ Returns(turn, p, "transition")
             /\ IF overdue(procs[turn]) THEN KillChild(turn) ELSE ForkChild(turn, p)
             /\ last_state' = IF p.state = "DISABLED" THEN last_state ELSE p.state
    BY <1>8 DEF Transition
  <2> DEFINE p == transition(procs[turn], mood, "absent", outcome, turn, TRUE, config[turn])
  <2>2. turn \in Members
    BY <1>8 DEF Transition
  <2>3. p \in ProcessType
    BY <2>2, TransitionType, MemberTimed, MemberNames
  <2> HIDE DEF p
  <2>4. procs' \in [Members -> ProcessType] /\ pc' \in PCs /\ child' \in [Members -> ChildStates]
    BY <2>1, <2>2, <2>3, ReturnsType, ChildType, PCNames DEF p
  <2>5. last_state' \in ProcessStates \cup {"none"}
    BY <2>1, <2>3 DEF p, ProcessType, TypeOK
  <2>6. waits_left' = [waits_left EXCEPT ![turn] = NoWait]
        /\ turn' = turn + 1 /\ UNCHANGED <<config, mood>>
    BY <1>8 DEF Transition
  <2> QED BY <2>2, <2>4, <2>5, <2>6, MemberNames DEF TypeOK
<1>9. CASE StartTransition
  <2>1. PICK outcome \in {"fork", "failed"} :
         LET p == transition(procs[turn], mood, "absent", outcome, turn, TRUE, config[turn])
         IN  /\ Returns(turn, p, "dispatch")
             /\ IF overdue(procs[turn]) THEN KillChild(turn) ELSE ForkChild(turn, p)
    BY <1>9 DEF StartTransition
  <2> DEFINE p == transition(procs[turn], mood, "absent", outcome, turn, TRUE, config[turn])
  <2>2. turn \in Members
    BY <1>9 DEF StartTransition, Calling
  <2>3. p \in ProcessType
    BY <2>2, TransitionType, MemberTimed, MemberNames
  <2> HIDE DEF p
  <2>4. procs' \in [Members -> ProcessType] /\ pc' \in PCs /\ child' \in [Members -> ChildStates]
    BY <2>1, <2>2, <2>3, ReturnsType, ChildType, PCNames DEF p
  <2> QED BY <1>9, <2>4, MemberNames DEF StartTransition, TypeOK
<1>10. ASSUME NEW k \in Members, Reap(k) PROVE TypeOK'
  <2>1. PICK es \in Exits : Returns(k, finish(procs[k], es, config[k]), pc)
    BY <1>10 DEF Reap
  <2>2. finish(procs[k], es, config[k]) \in ProcessType
    BY FinishType, MemberTimed, GroupAssumption
  <2>3. procs' \in [Members -> ProcessType] /\ pc' \in PCs
    BY <2>1, <2>2, ReturnsType DEF TypeOK
  <2>4. child' \in [Members -> ChildStates]
    BY <1>10, ChildType DEF Reap
  <2> QED BY <1>10, <2>3, <2>4 DEF Reap, TypeOK
<1>11. CASE Reaped
  BY <1>11, MemberNames, PCNames DEF Reaped, TypeOK
<1>12. CASE Tick
  <2>1. ASSUME NEW k \in Members PROVE Later(procs[k], config[k]) \in ProcessType
    BY MemberTimed, LaterType
  <2> QED BY <1>12, <2>1 DEF Tick, TypeOK
<1>13. ASSUME NEW k \in Members, Dies(k) PROVE TypeOK'
  BY <1>13, PCNames DEF Dies, TypeOK
<1>14. CASE UNCHANGED vars
  BY <1>14 DEF vars, TypeOK
<1> QED BY <1>1, <1>2, <1>3, <1>4, <1>5, <1>6, <1>7, <1>8, <1>9, <1>10, <1>11, <1>12, <1>13, <1>14
        DEF Next, Client, Loop

LEMMA CallingKept == TypeOK /\ Calling /\ [Next]_vars => Calling'
<1> SUFFICES ASSUME TypeOK, Calling, [Next]_vars PROVE Calling'
  OBVIOUS
<1> USE DEF loop, Calling, Returns, Escape
<1>1. ASSUME NEW k \in Members, StopProcess(k) \/ \E force \in Forces : StartProcess(k, force)
      PROVE  Calling'
  BY <1>1 DEF StopProcess, StartProcess
<1>2. CASE Shutdown \/ Proceed \/ StopAll \/ EndDispatch \/ Pause \/ EndTransition
  BY <1>2 DEF Shutdown, Proceed, StopAll, EndDispatch, Pause, EndTransition, Leave
<1>3. CASE Wait \/ Fail \/ Transition
  BY <1>3 DEF Wait, Fail, MustFail, InLine, Transition, Leave
<1>4. CASE StartTransition \/ Reaped
  BY <1>4 DEF StartTransition, Reaped
<1>5. ASSUME NEW k \in Members, Reap(k) PROVE Calling'
  BY <1>5 DEF Reap
<1>6. CASE Tick \/ \E k \in Members : Dies(k)
  BY <1>6 DEF Tick, Dies
<1>7. CASE UNCHANGED vars
  BY <1>7 DEF vars
<1> QED BY <1>1, <1>2, <1>3, <1>4, <1>5, <1>6, <1>7 DEF Next, Client, Loop

\* The variables keep their types, for groups of every size.
THEOREM TypeCorrect == Spec => []TypeOK
<1>1. Init => TypeOK /\ Calling
  BY InitType DEF Init, Calling
<1>2. TypeOK /\ Calling /\ [Next]_vars => (TypeOK /\ Calling)'
  BY NextType, CallingKept
<1> QED BY <1>1, <1>2, PTL DEF Spec

-----------------------------------------------------------------------------
(* No child is lost.                                                       *)

LEMMA Calmed ==
    ASSUME NEW p \in ProcessType, NEW c, Sane(p, c)
    PROVE  LET q == [p EXCEPT !.raised = FALSE] IN Sane(q, c) /\ ~q.raised /\ q.pid = p.pid
BY DEF Sane, ProcessType

\* A handler that leaves a member a sane object, with a child if it has a pid.
LEMMA MembersKept ==
    ASSUME TypeOK, \A j \in Members : MemberOK(j), NEW k \in Members,
           NEW p \in ProcessType, Sane(p, config[k]), p.pid \in {0, k},
           NEW next, Returns(k, p, next), config' = config,
           NEW ch, child' = [child EXCEPT ![k] = ch], ch # "none" <=> p.pid # 0
    PROVE  \A j \in Members : MemberOK(j)'
<1>1. /\ procs'[k] = [p EXCEPT !.raised = FALSE] /\ child'[k] = ch
      /\ \A j \in Members \ {k} : procs'[j] = procs[j] /\ child'[j] = child[j]
  BY DEF Returns, TypeOK
<1>2. MemberOK(k)'
  BY <1>1, Calmed DEF MemberOK
<1>3. \A j \in Members \ {k} : MemberOK(j)'
  BY <1>1 DEF MemberOK
<1> QED BY <1>2, <1>3

LEMMA ForkedChild ==
    ASSUME TypeOK, NEW k \in Members, MemberOK(k), NEW p, ForkChild(k, p),
           p.pid = procs[k].pid \/ (procs[k].pid = 0 /\ p.pid # 0)
    PROVE  \E ch : child' = [child EXCEPT ![k] = ch] /\ (ch # "none" <=> p.pid # 0)
<1>1. CASE procs[k].pid = 0 /\ p.pid # 0
  <2>1. child' = [child EXCEPT ![k] = "up"] /\ "up" # "none"
    BY <1>1 DEF ForkChild
  <2> QED BY <1>1, <2>1
<1>2. CASE ~(procs[k].pid = 0 /\ p.pid # 0)
  <2>1. child' = [child EXCEPT ![k] = child[k]]
    BY <1>2 DEF ForkChild, TypeOK
  <2> QED BY <1>2, <2>1 DEF MemberOK
<1> QED BY <1>1, <1>2

LEMMA ReadiedSane ==
    ASSUME TypeOK, NEW k \in Members, MemberOK(k), NEW force
    PROVE  Sane(Readied(k, force), config[k]) /\ Readied(k, force).pid = procs[k].pid
<1>1. procs[k] \in ProcessType
  BY MemberTimed
<1>2. CASE procs[k].state # "DISABLED" \/ ~force
  BY <1>2 DEF Readied, MemberOK
<1>3. CASE procs[k].state = "DISABLED" /\ force
  <2>1. Readied(k, force) = [procs[k] EXCEPT !.state = "STOPPED"]
    BY <1>1, <1>3 DEF Readied, change_state, RestingState
  <2> QED BY <1>1, <1>3, <2>1 DEF MemberOK, Sane, ProcessType, Alive
<1> QED BY <1>2, <1>3

\* transition() of a member, in the loop or at the end of a call.
LEMMA TurnKept ==
    ASSUME TypeOK, \A j \in Members : MemberOK(j), NEW k \in Members, config' = config,
           NEW outcome \in {"fork", "failed"}, NEW next,
           LET p == transition(procs[k], mood, "absent", outcome, k, TRUE, config[k])
           IN  /\ Returns(k, p, next)
               /\ IF overdue(procs[k]) THEN KillChild(k) ELSE ForkChild(k, p)
    PROVE  (\A j \in Members : MemberOK(j)') /\ pc' = next
<1> DEFINE p == Turn(procs[k], mood, "absent", outcome, k, config[k])
<1>1. /\ procs[k] \in ProcessType /\ Timed(config[k])
      /\ Sane(procs[k], config[k]) /\ ~procs[k].raised /\ procs[k].pid \in {0, k}
      /\ mood \in {"RUNNING", "RESTARTING", "SHUTDOWN"}
      /\ k \in PidsOrNone /\ k \in Pids /\ k # 0
  BY MemberTimed, MemberNames DEF MemberOK, TypeOK
<1>2. p \in ProcessType
  BY <1>1, TransitionType DEF Turn
<1>3. /\ Sane(p, config[k]) /\ ~p.raised
      /\ p.pid = procs[k].pid \/ (procs[k].pid = 0 /\ p.pid = k)
      /\ procs[k].state = "STOPPING" => p.pid = procs[k].pid
  BY <1>1, TransitionSane
<1>4. /\ Returns(k, p, next)
      /\ IF overdue(procs[k]) THEN KillChild(k) ELSE ForkChild(k, p)
  BY DEF Turn
<1> HIDE DEF p
<1>5. \E ch : child' = [child EXCEPT ![k] = ch] /\ (ch # "none" <=> p.pid # 0)
  <2>1. CASE overdue(procs[k])
    <3>1. p.pid = procs[k].pid
      BY <1>3, <2>1 DEF overdue
    <3>2. child' = [child EXCEPT ![k] = IF child[k] = "up" THEN "killed" ELSE child[k]]
      BY <1>4, <2>1 DEF KillChild, TypeOK
    <3>3. (IF child[k] = "up" THEN "killed" ELSE child[k]) # "none" <=> p.pid # 0
      BY <3>1 DEF MemberOK
    <3> QED BY <3>2, <3>3
  <2>2. CASE ~overdue(procs[k])
    BY <1>1, <1>3, <1>4, <2>2, ForkedChild
  <2> QED BY <2>1, <2>2
<1>6. p.pid \in {0, k}
  BY <1>1, <1>3
<1> QED BY <1>2, <1>3, <1>4, <1>5, <1>6, MembersKept DEF Returns

LEMMA ClientKeeps ==
    ASSUME IInv, Client
    PROVE  (\A j \in Members : MemberOK(j)') /\ pc' \notin {"crashed", "exited"}
<1> USE DEF loop
<1>1. ASSUME NEW k \in Members, NEW force \in Forces, StartProcess(k, force)
      PROVE  (\A j \in Members : MemberOK(j)') /\ pc' \notin {"crashed", "exited"}
  <2>1. PICK outcome \in {"fork", "failed"} :
          LET p == spawn(Readied(k, force), outcome, k, config[k])
          IN  Returns(k, p, "start_reap") /\ ForkChild(k, p)
    BY <1>1 DEF StartProcess
  <2> DEFINE r == Readied(k, force)
             p == spawn(r, outcome, k, config[k])
  <2>2. /\ TypeOK /\ MemberOK(k) /\ k \in PidsOrNone /\ k \in Pids /\ k # 0
        /\ Timed(config[k]) /\ procs[k].pid \in {0, k}
    BY MemberTimed, MemberNames DEF IInv, MemberOK
  <2>3. r \in ProcessType /\ Sane(r, config[k]) /\ r.pid = procs[k].pid
    BY <2>2, ReadiedType, ReadiedSane
  <2> HIDE DEF r
  <2>4. /\ p \in ProcessType /\ Sane(p, config[k])
        /\ p.pid = r.pid \/ (r.pid = 0 /\ p.pid = k)
    BY <2>2, <2>3, SpawnType, SpawnSane
  <2>5. Returns(k, p, "start_reap") /\ ForkChild(k, p)
    BY <2>1 DEF r
  <2> HIDE DEF p
  <2>6. \E ch : child' = [child EXCEPT ![k] = ch] /\ (ch # "none" <=> p.pid # 0)
    BY <2>2, <2>3, <2>4, <2>5, ForkedChild
  <2>7. p.pid \in {0, k} /\ config' = config /\ TypeOK /\ \A j \in Members : MemberOK(j)
    BY <1>1, <2>2, <2>3, <2>4 DEF StartProcess, IInv
  <2>8. \A j \in Members : MemberOK(j)'
    BY <2>4, <2>5, <2>6, <2>7, MembersKept
  <2> QED BY <1>1, <2>5, <2>8 DEF StartProcess, Returns, Escape
<1>2. ASSUME NEW k \in Members, StopProcess(k)
      PROVE  (\A j \in Members : MemberOK(j)') /\ pc' \notin {"crashed", "exited"}
  <2> DEFINE p == stop(procs[k], TRUE, config[k])
  <2>1. /\ procs[k] \in ProcessType /\ Timed(config[k]) /\ Sane(procs[k], config[k])
        /\ procs[k].state \in {"STARTING", "RUNNING", "BACKOFF"}
    BY <1>2, MemberTimed DEF StopProcess, RUNNING_STATES, IInv, MemberOK
  <2>2. p \in ProcessType /\ Sane(p, config[k]) /\ p.pid = procs[k].pid
    BY <2>1, StopType, StopSane
  <2>3. Returns(k, p, "stop_reap") /\ config' = config /\ child' = [child EXCEPT ![k] = child[k]]
    BY <1>2 DEF StopProcess, IInv, TypeOK
  <2> HIDE DEF p
  <2>4. p.pid \in {0, k} /\ (child[k] # "none" <=> p.pid # 0)
    BY <2>2 DEF IInv, MemberOK
  <2>5. \A j \in Members : MemberOK(j)'
    BY <2>2, <2>3, <2>4, MembersKept DEF IInv
  <2> QED BY <1>2, <2>3, <2>5 DEF StopProcess, Returns, Escape
<1>3. CASE Shutdown
  BY <1>3 DEF Shutdown, IInv, MemberOK
<1> QED BY <1>1, <1>2, <1>3 DEF Client

LEMMA LoopKeeps ==
    ASSUME IInv, Loop
    PROVE  /\ \A j \in Members : MemberOK(j)'
           /\ pc' # "crashed"
           /\ pc' = "exited" => \A j \in Members : procs'[j].state \in ALL_STOPPED_STATES
<1> USE DEF loop
<1>0. TypeOK /\ \A j \in Members : MemberOK(j)
  BY DEF IInv
<1>1. CASE Proceed \/ EndDispatch \/ Wait \/ Pause \/ EndTransition \/ Reaped
  <2>1. UNCHANGED <<procs, child, config>> /\ pc' \notin {"crashed", "exited"}
    BY <1>1 DEF Proceed, EndDispatch, Wait, Pause, EndTransition, Reaped, Leave
  <2> QED BY <1>0, <2>1 DEF MemberOK
<1>2. CASE StopAll
  <2> DEFINE after == [k \in Members |-> stop_all(procs[k], TRUE, config[k])]
  <2>1. ASSUME NEW k \in Members
        PROVE  Sane(after[k], config[k]) /\ after[k].pid = procs[k].pid /\ ~after[k].raised
    BY <1>0, MemberTimed, StopAllSane DEF MemberOK
  <2>2. procs' = after /\ UNCHANGED <<config, child>>
        /\ pc' = IF \E k \in Members : after[k].raised THEN "crashed"
                 ELSE IF \A k \in Members : after[k].state \in ALL_STOPPED_STATES THEN "exited"
                 ELSE "dispatch"
    BY <1>2 DEF StopAll
  <2> HIDE DEF after
  <2> QED BY <1>0, <2>1, <2>2 DEF MemberOK
<1>3. CASE Fail
  <2> DEFINE k == turn
             p == change_state(procs[k], "FATAL", config[k])
  <2>1. /\ k \in Members /\ procs[k].state \in STOPPED_STATES
        /\ procs' = [procs EXCEPT ![k] = p] /\ UNCHANGED <<config, child, pc>> /\ pc = "transition"
    BY <1>3 DEF Fail, MustFail, InLine, AfterAnother
  <2>2. procs[k] \in ProcessType /\ Sane(procs[k], config[k]) /\ ~procs[k].raised
    BY <1>0, <2>1, MemberTimed DEF MemberOK
  <2>3. Sane(p, config[k]) /\ p.pid = procs[k].pid /\ ~p.raised
    BY <2>1, <2>2 DEF change_state, RestingState, Sane, ProcessType, Alive, STOPPED_STATES,
                      ALL_STOPPED_STATES
  <2> HIDE DEF k, p
  <2>4. procs'[k] = p /\ \A j \in Members \ {k} : procs'[j] = procs[j]
    BY <1>0, <2>1 DEF TypeOK
  <2> QED BY <1>0, <2>1, <2>3, <2>4 DEF MemberOK
<1>4. CASE Transition
  <2>1. PICK k \in Members : k = turn
    BY <1>4 DEF Transition
  <2>2. PICK outcome \in {"fork", "failed"} :
          LET p == transition(procs[k], mood, "absent", outcome, k, TRUE, config[k])
          IN  /\ Returns(k, p, "transition")
              /\ IF overdue(procs[k]) THEN KillChild(k) ELSE ForkChild(k, p)
    BY <1>4, <2>1 DEF Transition
  <2>3. config' = config
    BY <1>4 DEF Transition
  <2>4. (\A j \in Members : MemberOK(j)') /\ pc' = "transition"
    BY <1>0, <2>2, <2>3, TurnKept
  <2> QED BY <2>4
<1>5. CASE StartTransition
  <2>1. PICK k \in Members : k = turn
    BY <1>5 DEF StartTransition, IInv, Calling
  <2>2. PICK outcome \in {"fork", "failed"} :
          LET p == transition(procs[k], mood, "absent", outcome, k, TRUE, config[k])
          IN  /\ Returns(k, p, "dispatch")
              /\ IF overdue(procs[k]) THEN KillChild(k) ELSE ForkChild(k, p)
    BY <1>5, <2>1 DEF StartTransition
  <2>3. config' = config
    BY <1>5 DEF StartTransition
  <2>4. (\A j \in Members : MemberOK(j)') /\ pc' = "dispatch"
    BY <1>0, <2>2, <2>3, TurnKept
  <2> QED BY <2>4
<1>6. ASSUME NEW k \in Members, Reap(k)
      PROVE  (\A j \in Members : MemberOK(j)') /\ pc' \notin {"crashed", "exited"}
  <2>1. PICK es \in Exits : Returns(k, finish(procs[k], es, config[k]), pc)
    BY <1>6 DEF Reap
  <2> DEFINE p == finish(procs[k], es, config[k])
  <2>2. /\ procs[k] \in ProcessType /\ Timed(config[k]) /\ Sane(procs[k], config[k])
        /\ procs[k].pid # 0 /\ ~procs[k].raised /\ es \in {"expected", "unexpected"}
    BY <1>0, <1>6, MemberTimed, GroupAssumption DEF Reap, MemberOK
  <2>3. p \in ProcessType /\ Sane(p, config[k]) /\ p.pid = 0 /\ ~p.raised
    BY <2>2, FinishType, FinishSane
  <2> HIDE DEF p
  <2>4. config' = config /\ child' = [child EXCEPT ![k] = "none"] /\ Returns(k, p, pc)
    BY <1>6, <2>1 DEF Reap, p
  <2>5. \A j \in Members : MemberOK(j)'
    BY <1>0, <2>3, <2>4, MembersKept
  <2> QED BY <1>6, <2>3, <2>4, <2>5 DEF Reap, Reaping, Returns
<1> QED BY <1>1, <1>2, <1>3, <1>4, <1>5, <1>6 DEF Loop

LEMMA SystemKeeps ==
    ASSUME IInv, Tick \/ (\E k \in Members : Dies(k)) \/ UNCHANGED vars
    PROVE  /\ \A j \in Members : MemberOK(j)'
           /\ pc' = pc /\ \A j \in Members : procs'[j].state = procs[j].state
<1> USE DEF loop
<1>0. TypeOK /\ \A j \in Members : MemberOK(j)
  BY DEF IInv
<1>1. CASE Tick
  <2>1. ASSUME NEW j \in Members
        PROVE  LET q == Later(procs[j], config[j])
               IN  /\ Sane(q, config[j]) /\ q.pid = procs[j].pid /\ q.state = procs[j].state
                   /\ ~q.raised
    BY <1>0, MemberTimed DEF Later, MemberOK, Sane, ProcessType, Timed, Ripe, Past, Alive
  <2>2. procs' = [j \in Members |-> Later(procs[j], config[j])] /\ UNCHANGED <<config, child, pc>>
    BY <1>1 DEF Tick
  <2> QED BY <1>0, <2>1, <2>2 DEF MemberOK
<1>2. ASSUME NEW k \in Members, Dies(k)
      PROVE  (\A j \in Members : MemberOK(j)') /\ UNCHANGED <<pc, procs>>
  <2>1. child' = [child EXCEPT ![k] = "zombie"] /\ child[k] # "none" /\ UNCHANGED <<config, procs, pc>>
    BY <1>2 DEF Dies
  <2>2. child'[k] # "none" /\ \A j \in Members \ {k} : child'[j] = child[j]
    BY <1>0, <2>1 DEF TypeOK
  <2> QED BY <1>0, <2>1, <2>2 DEF MemberOK
<1>3. CASE UNCHANGED vars
  BY <1>0, <1>3 DEF vars, MemberOK
<1> QED BY <1>1, <1>2, <1>3

\* Between two handlers every member is sane and has its child, and the loop goes on.
THEOREM Invariance == Spec => []IInv
<1>1. Init => IInv
  <2> SUFFICES ASSUME Init PROVE IInv
    OBVIOUS
  <2>1. TypeOK /\ Calling
    BY InitType DEF Init, Calling
  <2>2. ASSUME NEW k \in Members PROVE MemberOK(k)
    <3>1. Sane(NewProcess(config[k]), config[k])
      BY <2>1, MemberTimed, NewProcessSane
    <3> QED BY <3>1 DEF Init, MemberOK, NewProcess
  <2> QED BY <2>1, <2>2 DEF Init, IInv
<1>2. IInv /\ [Next]_vars => IInv'
  <2> SUFFICES ASSUME IInv, [Next]_vars PROVE IInv'
    OBVIOUS
  <2>1. TypeOK' /\ Calling'
    BY NextType, CallingKept DEF IInv
  <2>2. CASE Client
    BY <2>1, <2>2, ClientKeeps DEF IInv
  <2>3. CASE Loop
    BY <2>1, <2>3, LoopKeeps DEF IInv
  <2>4. CASE Tick \/ (\E k \in Members : Dies(k)) \/ UNCHANGED vars
    BY <2>1, <2>4, SystemKeeps DEF IInv
  <2> QED BY <2>2, <2>3, <2>4 DEF Next
<1> QED BY <1>1, <1>2, PTL DEF Spec

\* Whatever waitforprevious, failafterwait and the clients make of the members, a child
\* belongs to the process with its pid, the daemon survives and leaves no child behind.
THEOREM ChildrenAreKept == Spec => []NoChildLost
<1>1. IInv => NoChildLost
  <2> SUFFICES ASSUME IInv PROVE NoChildLost
    OBVIOUS
  <2>1. ASSUME NEW k \in Members PROVE child[k] # "none" <=> procs[k].pid = k
    BY MemberNames DEF IInv, MemberOK
  <2>2. ASSUME NEW k \in Members, pc = "exited" PROVE child[k] = "none"
    BY <2>2 DEF IInv, MemberOK, Sane, Alive, ALL_STOPPED_STATES
  <2> QED BY <2>1, <2>2 DEF NoChildLost, IInv
<1> QED BY <1>1, Invariance, PTL

-----------------------------------------------------------------------------
(* The order of starts.                                                    *)

\* Behind a member that is starting the loop starts a stopped one only when it need not
\* wait any more, and does not fail instead.
THEOREM StartsAreInOrder == Spec => StartsInOrder
<1>1. ASSUME TypeOK, NEW k \in Members, LoopStarts(k),
             procs[k].state \in STOPPED_STATES, last_state = "STARTING"
      PROVE  /\ waits_left[k] = 0 \/ config[k].waitforprevious = 0
             /\ ~config[k].failafterwait
  <2>1. /\ Transition /\ turn = k /\ procs[k].pid = 0 /\ procs'[k].pid # 0
        /\ pc = "transition" /\ ~MustWait /\ ~MustFail
    BY <1>1 DEF LoopStarts, Transition
  <2>2. waits = IF waits_left[k] = NoWait THEN config[k].waitforprevious ELSE waits_left[k]
    BY <1>1, <2>1 DEF waits, RUNNING_STATES
  <2>3. waits \in Nat
    BY <1>1, <2>2, MemberTimed
  <2>4. InLine
    BY <1>1, <2>1, <2>3 DEF InLine, AfterAnother, NoWait
  <2>5. waits = 0
    BY <1>1, <2>1, <2>3, <2>4 DEF MustWait
  <2>6. procs[k].state # "FATAL"
    <3>1. ASSUME procs[k].state = "FATAL" PROVE FALSE
      <4>1. PICK outcome \in {"fork", "failed"} :
              Returns(k, transition(procs[k], mood, "absent", outcome, k, TRUE, config[k]),
                      "transition")
        BY <2>1 DEF Transition
      <4>2. transition(procs[k], mood, "absent", outcome, k, TRUE, config[k]) = procs[k]
        BY <3>1 DEF transition, probesNothing, wantsSpawn, autorestarts, autostarts, reattaches,
                    retries, settle
      <4>3. procs' = [procs EXCEPT ![k] = [procs[k] EXCEPT !.raised = FALSE]]
        BY <4>1, <4>2 DEF Returns
      <4>4. procs'[k] = [procs[k] EXCEPT !.raised = FALSE]
        BY <1>1, <4>3 DEF TypeOK
      <4> QED BY <1>1, <2>1, <4>4, MemberTimed DEF ProcessType
    <3> QED BY <3>1
  <2>7. ~config[k].failafterwait
    BY <2>1, <2>4, <2>6 DEF MustFail
  <2> HIDE DEF waits
  <2> QED BY <2>2, <2>5, <2>7
<1>2. TypeOK /\ [Next]_vars => [\A k \in Members :
         LoopStarts(k) /\ procs[k].state \in STOPPED_STATES /\ last_state = "STARTING" =>
            /\ waits_left[k] = 0 \/ config[k].waitforprevious = 0
            /\ ~config[k].failafterwait]_vars
  BY <1>1
<1> QED BY <1>2, TypeCorrect, PTL DEF Spec, StartsInOrder

-----------------------------------------------------------------------------
(* The promise of a program.                                               *)

\* What a step is to one member: it goes on with or without its instance, a new instance
\* is forked, its instance ends, or its end is noticed.
Runs(k) == child[k] \in {"up", "killed"}
Held(k) == /\ procs'[k].pid = procs[k].pid /\ (Runs(k)' <=> Runs(k))
           /\ procs[k].killing => procs'[k].killing
Forked(k) == /\ procs[k].pid = 0 /\ child[k] = "none"
             /\ procs'[k].pid # 0 /\ ~procs'[k].killing /\ Runs(k)'
Ended(k) == procs'[k] = procs[k] /\ Runs(k) /\ ~Runs(k)'
Noticed(k) == child[k] = "zombie" /\ procs[k].pid # 0 /\ procs'[k].pid = 0 /\ ~Runs(k)'
Stepped(k) == Held(k) \/ Forked(k) \/ Ended(k) \/ Noticed(k)

\* A handler of the member k leaves the others alone.
LEMMA OthersHeld ==
    ASSUME TypeOK, NEW k \in Members, NEW p, NEW ch,
           procs' = [procs EXCEPT ![k] = p], child' = [child EXCEPT ![k] = ch]
    PROVE  /\ procs'[k] = p /\ child'[k] = ch
           /\ \A j \in Members \ {k} : Held(j)
<1>1. procs'[k] = p /\ child'[k] = ch
  BY DEF TypeOK
<1>2. \A j \in Members \ {k} : procs'[j] = procs[j] /\ child'[j] = child[j]
  BY DEF TypeOK
<1> QED BY <1>1, <1>2 DEF Held, Runs

\* A handler that may fork.
LEMMA ForkSteps ==
    ASSUME TypeOK, NEW k \in Members, MemberOK(k), NEW p \in ProcessType, Sane(p, config[k]),
           p.pid = procs[k].pid \/ (procs[k].pid = 0 /\ p.pid # 0 /\ p.state = "STARTING"),
           procs[k].state = "STOPPING" => p.state = "STOPPING",
           NEW next, Returns(k, p, next), ForkChild(k, p)
    PROVE  \A j \in Members : Stepped(j)
<1> DEFINE q == [p EXCEPT !.raised = FALSE]
<1>1. q.pid = p.pid /\ (q.killing <=> p.state = "STOPPING")
  BY DEF ProcessType, Sane
<1>2. procs' = [procs EXCEPT ![k] = q]
  BY DEF Returns
<1>3. /\ procs[k].killing <=> procs[k].state = "STOPPING"
      /\ child[k] # "none" <=> procs[k].pid # 0
  BY DEF MemberOK, Sane
<1> HIDE DEF q
<1>4. CASE p.pid = procs[k].pid
  <2>1. child' = [child EXCEPT ![k] = child[k]]
    BY <1>4 DEF ForkChild, TypeOK
  <2>2. procs'[k] = q /\ child'[k] = child[k] /\ \A j \in Members \ {k} : Held(j)
    BY <1>2, <2>1, OthersHeld
  <2>3. Held(k)
    BY <1>1, <1>3, <1>4, <2>2 DEF Held, Runs
  <2> QED BY <2>2, <2>3 DEF Stepped
<1>5. CASE procs[k].pid = 0 /\ p.pid # 0 /\ p.state = "STARTING"
  <2>1. child' = [child EXCEPT ![k] = "up"]
    BY <1>5 DEF ForkChild
  <2>2. procs'[k] = q /\ child'[k] = "up" /\ \A j \in Members \ {k} : Held(j)
    BY <1>2, <2>1, OthersHeld
  <2>3. Forked(k)
    BY <1>1, <1>3, <1>5, <2>2 DEF Forked, Runs
  <2> QED BY <2>2, <2>3 DEF Stepped
<1> QED BY <1>4, <1>5

\* transition() of a member, in the loop or at the end of a call.
LEMMA TurnSteps ==
    ASSUME TypeOK, NEW k \in Members, MemberOK(k),
           NEW outcome \in {"fork", "failed"}, NEW next,
           LET p == transition(procs[k], mood, "absent", outcome, k, TRUE, config[k])
           IN  /\ Returns(k, p, next)
               /\ IF overdue(procs[k]) THEN KillChild(k) ELSE ForkChild(k, p)
    PROVE  \A j \in Members : Stepped(j)
<1> DEFINE p == Turn(procs[k], mood, "absent", outcome, k, config[k])
<1>1. /\ procs[k] \in ProcessType /\ Timed(config[k])
      /\ Sane(procs[k], config[k]) /\ ~procs[k].raised
      /\ mood \in {"RUNNING", "RESTARTING", "SHUTDOWN"}
      /\ k \in PidsOrNone /\ k \in Pids /\ k # 0
  BY MemberTimed, MemberNames DEF MemberOK, TypeOK
<1>2. p \in ProcessType
  BY <1>1, TransitionType DEF Turn
<1>3. /\ Sane(p, config[k])
      /\ p.pid = procs[k].pid \/ (procs[k].pid = 0 /\ p.pid = k)
      /\ p.pid # procs[k].pid => p.state = "STARTING"
      /\ procs[k].state = "STOPPING" => p.pid = procs[k].pid /\ p.state = "STOPPING"
  BY <1>1, TransitionSane
<1>4. /\ Returns(k, p, next)
      /\ IF overdue(procs[k]) THEN KillChild(k) ELSE ForkChild(k, p)
  BY DEF Turn
<1> HIDE DEF p
<1>5. CASE ~overdue(procs[k])
  <2>1. p.pid = procs[k].pid \/ (procs[k].pid = 0 /\ p.pid # 0 /\ p.state = "STARTING")
    BY <1>1, <1>3
  <2> QED BY <1>2, <1>3, <1>4, <1>5, <2>1, ForkSteps
<1>6. CASE overdue(procs[k])
  <2> DEFINE q == [p EXCEPT !.raised = FALSE]
             ch == IF child[k] = "up" THEN "killed" ELSE child[k]
  <2>1. p.pid = procs[k].pid /\ p.state = "STOPPING"
    BY <1>3, <1>6 DEF overdue
  <2>2. q.pid = procs[k].pid /\ q.killing
    BY <1>2, <1>3, <2>1 DEF ProcessType, Sane
  <2>3. procs' = [procs EXCEPT ![k] = q] /\ child' = [child EXCEPT ![k] = ch]
    BY <1>4, <1>6 DEF Returns, KillChild, TypeOK
  <2>4. ch \in {"up", "killed"} <=> child[k] \in {"up", "killed"}
    OBVIOUS
  <2> HIDE DEF q, ch
  <2>5. procs'[k] = q /\ child'[k] = ch /\ \A j \in Members \ {k} : Held(j)
    BY <2>3, OthersHeld
  <2>6. Held(k)
    BY <2>2, <2>4, <2>5 DEF Held, Runs
  <2> QED BY <2>5, <2>6 DEF Stepped
<1> QED BY <1>5, <1>6

LEMMA ClientSteps ==
    ASSUME IInv, Client
    PROVE  \A j \in Members : Stepped(j)
<1> USE DEF loop
<1>0. TypeOK /\ \A j \in Members : MemberOK(j)
  BY DEF IInv
<1>1. ASSUME NEW k \in Members, NEW force \in Forces, StartProcess(k, force)
      PROVE  \A j \in Members : Stepped(j)
  <2>1. PICK outcome \in {"fork", "failed"} :
          LET p == spawn(Readied(k, force), outcome, k, config[k])
          IN  Returns(k, p, "start_reap") /\ ForkChild(k, p)
    BY <1>1 DEF StartProcess
  <2> DEFINE r == Readied(k, force)
             p == spawn(r, outcome, k, config[k])
  <2>2. /\ procs[k] \in ProcessType /\ Timed(config[k]) /\ MemberOK(k)
        /\ k \in Pids /\ k \in PidsOrNone /\ k # 0
    BY <1>0, MemberTimed, MemberNames
  <2>3. r \in ProcessType /\ Sane(r, config[k]) /\ r.pid = procs[k].pid
    BY <1>0, <2>2, ReadiedType, ReadiedSane
  <2>4. procs[k].state = "STOPPING" => r.pid # 0 /\ p = r /\ r.state = "STOPPING"
    <3>1. procs[k].state = "STOPPING" => procs[k].pid # 0 /\ r.state = "STOPPING"
      BY <2>2 DEF MemberOK, Sane, Alive, Readied
    <3> QED BY <2>3, <3>1 DEF spawn
  <2>5. Returns(k, p, "start_reap") /\ ForkChild(k, p)
    BY <2>1
  <2> HIDE DEF r
  <2>6. /\ p \in ProcessType /\ Sane(p, config[k])
        /\ p.pid = r.pid \/ (r.pid = 0 /\ p.pid = k)
        /\ p.pid # r.pid => p.state = "STARTING"
    <3>1. p \in ProcessType
      BY <2>2, <2>3, SpawnType
    <3>2. /\ Sane(p, config[k])
          /\ p.pid = r.pid \/ (r.pid = 0 /\ p.pid = k)
          /\ p.pid # r.pid => p.state = "STARTING"
      BY <2>2, <2>3, SpawnSane
    <3> QED BY <3>1, <3>2
  <2> HIDE DEF p
  <2>7. p.pid = procs[k].pid \/ (procs[k].pid = 0 /\ p.pid # 0 /\ p.state = "STARTING")
    BY <2>2, <2>3, <2>6
  <2>8. procs[k].state = "STOPPING" => p.state = "STOPPING"
    BY <2>4
  <2> QED BY <1>0, <2>2, <2>5, <2>6, <2>7, <2>8, ForkSteps
<1>2. ASSUME NEW k \in Members, StopProcess(k)
      PROVE  \A j \in Members : Stepped(j)
  <2> DEFINE p == stop(procs[k], TRUE, config[k])
             q == [p EXCEPT !.raised = FALSE]
  <2>1. /\ procs[k] \in ProcessType /\ Timed(config[k]) /\ Sane(procs[k], config[k])
        /\ procs[k].state \in {"STARTING", "RUNNING", "BACKOFF"}
    BY <1>0, <1>2, MemberTimed DEF StopProcess, RUNNING_STATES, MemberOK
  <2>2. p \in ProcessType /\ p.pid = procs[k].pid /\ ~procs[k].killing
    BY <2>1, StopType, StopSane DEF Sane
  <2>3. procs' = [procs EXCEPT ![k] = q] /\ child' = [child EXCEPT ![k] = child[k]]
    BY <1>0, <1>2 DEF StopProcess, Returns, TypeOK
  <2> HIDE DEF p
  <2>4. q.pid = procs[k].pid
    BY <2>2 DEF ProcessType
  <2> HIDE DEF q
  <2>5. procs'[k] = q /\ child'[k] = child[k] /\ \A j \in Members \ {k} : Held(j)
    BY <1>0, <2>3, OthersHeld
  <2>6. Held(k)
    BY <2>2, <2>4, <2>5 DEF Held, Runs
  <2> QED BY <2>5, <2>6 DEF Stepped
<1>3. CASE Shutdown
  BY <1>3 DEF Shutdown, Stepped, Held, Runs
<1> QED BY <1>1, <1>2, <1>3 DEF Client

LEMMA LoopSteps ==
    ASSUME IInv, Loop
    PROVE  \A j \in Members : Stepped(j)
<1> USE DEF loop
<1>0. TypeOK /\ \A j \in Members : MemberOK(j)
  BY DEF IInv
<1>1. CASE Proceed \/ EndDispatch \/ Wait \/ Pause \/ EndTransition \/ Reaped
  <2>1. UNCHANGED <<procs, child>>
    BY <1>1 DEF Proceed, EndDispatch, Wait, Pause, EndTransition, Reaped, Leave
  <2> QED BY <2>1 DEF Stepped, Held, Runs
<1>2. CASE StopAll
  <2>1. procs' = [k \in Members |-> stop_all(procs[k], TRUE, config[k])] /\ child' = child
    BY <1>2 DEF StopAll
  <2>2. ASSUME NEW k \in Members PROVE Held(k)
    <3> DEFINE q == stop_all(procs[k], TRUE, config[k])
    <3>1. procs[k].killing => procs[k].state = "STOPPING"
      BY <1>0 DEF MemberOK, Sane
    <3>2. q.pid = procs[k].pid /\ (procs[k].killing => q = procs[k])
      BY <1>0, <3>1, MemberTimed, StopAllSane DEF MemberOK
    <3>3. procs'[k] = q
      BY <2>1
    <3> HIDE DEF q
    <3> QED BY <2>1, <3>2, <3>3 DEF Held, Runs
  <2> QED BY <2>2 DEF Stepped
<1>3. CASE Fail
  <2>0. PICK k \in Members : k = turn
    BY <1>3 DEF Fail, MustFail, InLine
  <2> DEFINE p == change_state(procs[k], "FATAL", config[k])
  <2>1. /\ child' = [child EXCEPT ![k] = child[k]]
        /\ procs' = [procs EXCEPT ![k] = p]
    BY <1>0, <1>3, <2>0 DEF Fail, TypeOK
  <2>2. procs[k] \in ProcessType
    BY <1>0, <2>1, MemberTimed
  <2>3. p.pid = procs[k].pid /\ p.killing = procs[k].killing
    BY <2>2 DEF change_state, RestingState, ProcessType
  <2> HIDE DEF p
  <2>4. procs'[k] = p /\ child'[k] = child[k] /\ \A j \in Members \ {k} : Held(j)
    BY <1>0, <2>1, OthersHeld
  <2>5. Held(k)
    BY <2>3, <2>4 DEF Held, Runs
  <2> QED BY <2>4, <2>5 DEF Stepped
<1>4. CASE Transition
  <2>1. PICK k \in Members : k = turn
    BY <1>4 DEF Transition
  <2>2. PICK outcome \in {"fork", "failed"} :
          LET p == transition(procs[k], mood, "absent", outcome, k, TRUE, config[k])
          IN  /\ Returns(k, p, "transition")
              /\ IF overdue(procs[k]) THEN KillChild(k) ELSE ForkChild(k, p)
    BY <1>4, <2>1 DEF Transition
  <2> QED BY <1>0, <2>2, TurnSteps
<1>5. CASE StartTransition
  <2>1. PICK k \in Members : k = turn
    BY <1>5 DEF StartTransition, IInv, Calling
  <2>2. PICK outcome \in {"fork", "failed"} :
          LET p == transition(procs[k], mood, "absent", outcome, k, TRUE, config[k])
          IN  /\ Returns(k, p, "dispatch")
              /\ IF overdue(procs[k]) THEN KillChild(k) ELSE ForkChild(k, p)
    BY <1>5, <2>1 DEF StartTransition
  <2> QED BY <1>0, <2>2, TurnSteps
<1>6. ASSUME NEW k \in Members, Reap(k)
      PROVE  \A j \in Members : Stepped(j)
  <2>1. PICK es \in Exits : Returns(k, finish(procs[k], es, config[k]), pc)
    BY <1>6 DEF Reap
  <2> DEFINE p == finish(procs[k], es, config[k])
             q == [p EXCEPT !.raised = FALSE]
  <2>2. /\ procs[k] \in ProcessType /\ Timed(config[k]) /\ Sane(procs[k], config[k])
        /\ procs[k].pid # 0 /\ ~procs[k].raised /\ es \in {"expected", "unexpected"}
    BY <1>0, <1>6, MemberTimed, GroupAssumption DEF Reap, MemberOK
  <2>3. p \in ProcessType /\ p.pid = 0
    BY <2>2, FinishType, FinishSane
  <2>4. procs' = [procs EXCEPT ![k] = q] /\ child' = [child EXCEPT ![k] = "none"]
    BY <1>6, <2>1 DEF Reap, Returns
  <2> HIDE DEF p
  <2>5. q.pid = 0
    BY <2>3 DEF ProcessType
  <2> HIDE DEF q
  <2>6. procs'[k] = q /\ child'[k] = "none" /\ \A j \in Members \ {k} : Held(j)
    BY <1>0, <2>4, OthersHeld
  <2>7. Noticed(k)
    BY <1>6, <2>2, <2>5, <2>6 DEF Noticed, Runs, Reap
  <2> QED BY <2>6, <2>7 DEF Stepped
<1> QED BY <1>1, <1>2, <1>3, <1>4, <1>5, <1>6 DEF Loop

LEMMA SystemSteps ==
    ASSUME IInv, Tick \/ (\E k \in Members : Dies(k)) \/ UNCHANGED vars
    PROVE  \A j \in Members : Stepped(j)
<1> USE DEF loop
<1>0. TypeOK
  BY DEF IInv
<1>1. CASE Tick
  <2>1. ASSUME NEW j \in Members
        PROVE  LET q == Later(procs[j], config[j])
               IN  q.pid = procs[j].pid /\ q.killing = procs[j].killing
    BY <1>0, MemberTimed DEF Later, ProcessType
  <2>2. procs' = [j \in Members |-> Later(procs[j], config[j])] /\ child' = child
    BY <1>1 DEF Tick
  <2> QED BY <2>1, <2>2 DEF Stepped, Held, Runs
<1>2. ASSUME NEW k \in Members, Dies(k)
      PROVE  \A j \in Members : Stepped(j)
  <2>1. /\ child' = [child EXCEPT ![k] = "zombie"] /\ child[k] \in {"up", "killed"}
        /\ procs' = [procs EXCEPT ![k] = procs[k]]
    BY <1>0, <1>2 DEF Dies, TypeOK
  <2>2. procs'[k] = procs[k] /\ child'[k] = "zombie" /\ \A j \in Members \ {k} : Held(j)
    BY <1>0, <2>1, OthersHeld
  <2>3. Ended(k)
    BY <2>1, <2>2 DEF Ended, Runs
  <2> QED BY <2>2, <2>3 DEF Stepped
<1>3. CASE UNCHANGED vars
  BY <1>3 DEF vars, Stepped, Held, Runs
<1> QED BY <1>1, <1>2, <1>3

\* Every member keeps the promise of a program, in groups of every size: at most one
\* instance runs, a new one starts only after the end of the last was noticed, and one
\* that was told to end is never taken for one that is up again.
THEOREM MembersKeepThePromise == Spec => MembersKeepPromise
<1>1. ASSUME NEW k \in Members, MemberOK(k), MemberOK(k)', Stepped(k)
      PROVE  [Managed(k)!Next]_(Managed(k)!vars)
  <2> DEFINE status == IF procs[k].pid = 0 THEN "down"
                       ELSE IF procs[k].killing THEN "ending" ELSE "up"
             instances == IF child[k] \in {"up", "killed"} THEN 1 ELSE 0
  <2>1. /\ child[k] # "none" <=> procs[k].pid # 0
        /\ child'[k] # "none" <=> procs'[k].pid # 0
        /\ procs[k].killing => procs[k].pid # 0
    BY <1>1 DEF MemberOK, Sane, Alive
  <2>2. \/ UNCHANGED <<status, instances>>
        \/ status = "down" /\ instances = 0 /\ status' = "up" /\ instances' = 1
        \/ instances = 1 /\ instances' = 0 /\ UNCHANGED status
        \/ status = "up" /\ status' = "ending" /\ UNCHANGED instances
        \/ status # "down" /\ instances = 0 /\ status' = "down" /\ UNCHANGED instances
    <3>1. CASE Held(k)
      BY <2>1, <3>1 DEF Held, Runs
    <3>2. CASE Forked(k)
      BY <3>2 DEF Forked, Runs
    <3>3. CASE Ended(k)
      BY <3>3 DEF Ended, Runs
    <3>4. CASE Noticed(k)
      BY <3>4 DEF Noticed, Runs
    <3> QED BY <1>1, <3>1, <3>2, <3>3, <3>4 DEF Stepped
  <2> QED BY <2>2 DEF Managed!Next, Managed!vars, Managed!Launch, Managed!Die,
                      Managed!TellToEnd, Managed!Notice
<1>2. IInv /\ IInv' /\ [Next]_vars =>
        [\A k \in Members : [Managed(k)!Next]_(Managed(k)!vars)]_vars
  <2> SUFFICES ASSUME IInv, IInv', [Next]_vars
               PROVE  \A k \in Members : [Managed(k)!Next]_(Managed(k)!vars)
    OBVIOUS
  <2>1. \A k \in Members : MemberOK(k) /\ MemberOK(k)'
    BY DEF IInv
  <2>2. \A k \in Members : Stepped(k)
    BY ClientSteps, LoopSteps, SystemSteps DEF Next
  <2> QED BY <1>1, <2>1, <2>2
<1> QED BY <1>2, Invariance, PTL DEF Spec, MembersKeepPromise
=============================================================================
