------------------------ MODULE AdminService_proofs ------------------------
(***************************************************************************)
(* The safety of AdminService: for any groups, programs and configuration  *)
(* files, and any clients and signals.                                     *)
(*                                                                         *)
(* The argument: once the daemon is to go nothing is started, no call      *)
(* changes the groups, and a group leaves stop_groups only when nothing in *)
(* it is unstopped; so the groups behind the last of stop_groups are, and  *)
(* stay, stopped.  And what "update" has left to do are the groups that    *)
(* are not yet as they are configured.                                     *)
(***************************************************************************)
EXTENDS AdminService, ProcessMethods_proofs, FiniteSetTheorems

ProcsSound == \A k \in Programs : Sound(procs[k])

\* What left the daemon's care without updateProcessGroup() has no child, unless it was started
\* afterwards.
DroppedStopped == \A k \in Programs : k \notin replaced \cup strays => dropped[k].child = "none"

MembersOwn == \A g \in Groups : \A k \in Members(g) : GroupOf[k] = g

\* No handler of a call is under way when the daemon is to go.
Going ==
    /\ pc \in {"call_reap", "stop_each", "stop_reap"} => mood = "RUNNING"
    /\ stopping => mood # "RUNNING"
    /\ pc = "exited" => mood # "RUNNING" /\ \A k \in ActivePrograms : ~Unstopped(procs[k])

\* Of the active groups those that are not to be stopped any more are stopped.
Order ==
    /\ Ascending(stop_groups)
    /\ stopping => \A g \in ActiveGroups :
          (\E i \in DOMAIN stop_groups : stop_groups[i] = g) \/ unstopped_processes(g) = {}

\* What "update" has left to do with the groups it is for.
Pending ==
    /\ client.at # "idle" => \A g \in client.only : active[g] # configured[g] =>
          g \in client.removed \cup client.changed \cup client.added \cup {client.group}
    /\ client.at \in {"watch", "tidy", "tidying"} =>
          client.removed \cup client.changed \cup client.added = {}
    /\ client.at \in {"add", "watch", "tidy", "tidying"} => client.group = 0
    /\ \A g \in client.removed : configured[g] = NoConfig
    /\ client.at \in {"remove", "stopping"} /\ client.group # 0 =>
          configured[client.group] = NoConfig

\* The handler that stops a group for "update" knows which.
AtGroup == pc \in {"stop_each", "stop_reap"} => client.group # 0

IInv ==
    /\ TypeOK /\ AtGroup /\ ProcsSound /\ DroppedStopped /\ MembersOwn /\ Going /\ Order /\ Pending

-----------------------------------------------------------------------------
(* The groups in their order.                                              *)

\* A finite set of naturals can be listed in ascending order.
LEMMA ListExists ==
    ASSUME NEW S \in SUBSET Nat, IsFiniteSet(S)
    PROVE  \E s \in [1..Cardinality(S) -> S] : Ascending(s)
<1> DEFINE n == Cardinality(S)
           UpTo(x) == {y \in S : y <= x}
           rank == [x \in S |-> Cardinality(UpTo(x))]
<1>1. n \in Nat /\ IsFiniteSet(1..n) /\ Cardinality(1..n) = n
  BY FS_CardinalityType, FS_Interval
<1>2. ASSUME NEW x \in S
      PROVE  Cardinality(UpTo(x)) \in 1..n
  <2>1. UpTo(x) \in SUBSET S /\ x \in UpTo(x)
    OBVIOUS
  <2> HIDE DEF UpTo
  <2>2. IsFiniteSet(UpTo(x)) /\ Cardinality(UpTo(x)) <= n /\ Cardinality(UpTo(x)) \in Nat
    BY <2>1, FS_Subset, FS_CardinalityType
  <2>3. Cardinality(UpTo(x)) # 0
    BY <2>1, <2>2, FS_EmptySet
  <2> HIDE DEF n
  <2> QED BY <1>1, <2>2, <2>3
<1>3. ASSUME NEW x \in S, NEW y \in S, x < y
      PROVE  Cardinality(UpTo(x)) < Cardinality(UpTo(y))
  <2>0. \A z \in S : z <= x => z <= y
    BY <1>3
  <2>1. UpTo(y) \in SUBSET S /\ UpTo(x) \in SUBSET UpTo(y)
    BY <2>0
  <2>2. y \in UpTo(y) /\ y \notin UpTo(x)
    BY <1>3
  <2> HIDE DEF UpTo
  <2>3. IsFiniteSet(UpTo(y)) /\ IsFiniteSet(UpTo(x))
    BY <2>1, FS_Subset
  <2>4. Cardinality(UpTo(x)) <= Cardinality(UpTo(y)) /\ Cardinality(UpTo(x)) # Cardinality(UpTo(y))
    BY <2>1, <2>2, <2>3, FS_Subset
  <2>5. Cardinality(UpTo(x)) \in Nat /\ Cardinality(UpTo(y)) \in Nat
    BY <2>3, FS_CardinalityType
  <2> QED BY <2>4, <2>5
<1> HIDE DEF n, UpTo
<1>4. rank \in [S -> 1..n] /\ \A x, y \in S : x < y => rank[x] < rank[y]
  BY <1>2, <1>3
<1> HIDE DEF rank
<1>5. ASSUME NEW x \in S, NEW y \in S, x # y
      PROVE  rank[x] # rank[y]
  <2>1. x < y \/ y < x
    BY <1>5
  <2>2. rank[x] \in Nat /\ rank[y] \in Nat
    BY <1>1, <1>4
  <2> QED BY <1>4, <2>1, <2>2
<1>6. Cardinality(S) = Cardinality(1..n)
  BY <1>1 DEF n
<1>7. rank \in Surjection(S, 1..n)
  <2>1. rank \in Injection(S, 1..n)
    BY <1>4, <1>5 DEF Injection, IsInjective
  <2> QED BY <1>1, <1>6, <2>1, FS_Injection
<1> DEFINE s == [i \in 1..n |-> CHOOSE x \in S : rank[x] = i]
<1>8. s \in [1..n -> S] /\ \A i \in 1..n : rank[s[i]] = i
  BY <1>7 DEF Surjection
<1> HIDE DEF s
<1>9. ASSUME NEW i \in 1..n, NEW j \in 1..n, i < j
      PROVE  s[i] < s[j]
  <2>1. rank[s[i]] = i /\ rank[s[j]] = j /\ s[i] \in S /\ s[j] \in S
    BY <1>8
  <2>2. i \in Int /\ j \in Int /\ s[i] \in Int /\ s[j] \in Int
    <3>1. s[i] \in Nat /\ s[j] \in Nat
      BY <2>1
    <3> QED BY <1>1, <3>1
  <2>3. s[j] < s[i] => j < i
    BY <1>4, <2>1
  <2>4. s[i] # s[j]
    BY <1>9, <2>1, <2>2
  <2> QED BY <1>9, <2>2, <2>3, <2>4
<1>10. Ascending(s)
  BY <1>8, <1>9 DEF Ascending
<1> QED BY <1>8, <1>10 DEF n

\* InOrder() lists every member.
LEMMA InOrderLists ==
    ASSUME NEW S \in SUBSET Nat, IsFiniteSet(S)
    PROVE  /\ InOrder(S) \in Seq(S)
           /\ Ascending(InOrder(S))
           /\ \A x \in S : \E i \in DOMAIN InOrder(S) : InOrder(S)[i] = x
<1> DEFINE n == Cardinality(S)
           s == InOrder(S)
<1>1. n \in Nat /\ IsFiniteSet(1..n) /\ Cardinality(1..n) = n
  BY FS_CardinalityType, FS_Interval
<1>2. s \in [1..n -> S] /\ Ascending(s)
  BY ListExists DEF InOrder
<1> HIDE DEF s
<1>3. ASSUME NEW i \in 1..n, NEW j \in 1..n, i # j
      PROVE  s[i] # s[j]
  <2>1. i < j \/ j < i
    BY <1>1, <1>3
  <2>2. s[i] < s[j] \/ s[j] < s[i]
    BY <1>2, <2>1 DEF Ascending
  <2>3. s[i] \in Nat /\ s[j] \in Nat
    BY <1>2
  <2> QED BY <2>2, <2>3
<1> HIDE DEF n
<1>4. s \in Surjection(1..n, S)
  <2>1. s \in Injection(1..n, S)
    BY <1>2, <1>3 DEF Injection, IsInjective
  <2>2. Cardinality(1..n) = Cardinality(S)
    BY <1>1 DEF n
  <2> QED BY <2>1, <2>2, FS_Injection
<1>5. s \in Seq(S)
  BY <1>1, <1>2
<1> QED BY <1>2, <1>4, <1>5 DEF s, Surjection

-----------------------------------------------------------------------------
(* Types.                                                                  *)

LEMMA FreshType ==
    ASSUME NEW c
    PROVE  Fresh(c) \in OutlineType /\ Nothing \in OutlineType
BY FreshSound DEF Sound, Nothing, OutlineType, ProcessStates, ChildOutlines

LEMMA MadeType == ASSUME NEW cfg PROVE Made(cfg) \in [Programs -> OutlineType]
BY FreshType DEF Made

LEMMA DeadType ==
    ASSUME NEW f \in [Programs -> OutlineType], NEW k \in Programs
    PROVE  [f EXCEPT ![k] = [f[k] EXCEPT !.child = "zombie"]] \in [Programs -> OutlineType]
<1>1. PICK o \in OutlineType : o = f[k]
  OBVIOUS
<1>2. [o EXCEPT !.child = "zombie"] \in OutlineType
  BY DEF OutlineType, ChildOutlines
<1> QED BY <1>1, <1>2

LEMMA ConfigTypes == \A ini \in Inis : ini \in [Groups -> GroupConfigType]
BY ServiceAssumption

LEMMA AfterType == ASSUME NEW k PROVE After(k) \in Programs \cup {0}
<1> DEFINE later == {j \in TurnPrograms : j > k}
<1>1. later \in SUBSET Nat /\ later \subseteq Programs
  BY ServiceAssumption DEF TurnPrograms
<1>2. CASE later = {}
  BY <1>2 DEF After
<1>3. CASE later # {}
  <2>1. \E j \in later : \A i \in later : j <= i
    BY <1>1, <1>3, LeastNatural
  <2>2. After(k) \in later
    BY <1>3, <2>1 DEF After
  <2> QED BY <1>1, <2>2
<1> QED BY <1>2, <1>3

LEMMA OnwardType == ASSUME NEW c \in ClientType PROVE Onward(c) \in ClientType
BY DEF Onward, ClientType

LEMMA ServedType == ASSUME NEW c \in ClientType, Served(c) PROVE client' \in ClientType
BY DEF Served, ClientType

LEMMA IdleType == Idle \in ClientType
BY DEF Idle, ClientType

LEMMA ActiveGroupsFinite == ActiveGroups \in SUBSET Nat /\ IsFiniteSet(ActiveGroups)
<1>1. ActiveGroups \in SUBSET Groups
  BY DEF ActiveGroups
<1>2. IsFiniteSet(Groups) /\ Groups \subseteq Nat
  BY ServiceAssumption
<1> QED BY <1>1, <1>2, FS_Subset

LEMMA TypeInit == Init => TypeOK
<1> SUFFICES ASSUME Init PROVE TypeOK
  OBVIOUS
<1>1. procs \in [Programs -> OutlineType] /\ dropped \in [Programs -> OutlineType]
  BY MadeType, FreshType DEF Init
<1>2. configured \in Inis /\ active \in [Groups -> GroupConfigType]
  BY ConfigTypes DEF Init
<1>3. updates \in 0..UpdateBound
  BY ServiceAssumption DEF Init
<1>4. stop_groups \in Seq(Groups) /\ turn \in Programs \cup {0} /\ turn = 0
  BY DEF Init
<1>5. /\ pgroups \subseteq Groups /\ stale \subseteq pgroups /\ replaced = {} /\ strays = {}
      /\ mood \in Moods /\ stopping \in BOOLEAN /\ pc \in PCs /\ client \in ClientType
  BY IdleType DEF Init, Moods, PCs
<1> QED BY <1>1, <1>2, <1>3, <1>4, <1>5 DEF TypeOK

LEMMA TurnBeginsType ==
    ASSUME TypeOK, TurnBegins
    PROVE  /\ pgroups' \subseteq Groups /\ stale' \subseteq pgroups'
           /\ dropped' \in [Programs -> OutlineType] /\ {replaced, strays}' \subseteq SUBSET Programs
           /\ client' \in ClientType
<1>1. dropped' \in [Programs -> OutlineType]
  BY DEF TurnBegins, Forgotten, OutlineType, Nothing, ProcessStates, TypeOK
<1>2. client' \in ClientType
  BY DEF TurnBegins, ClientType, TypeOK
<1> QED BY <1>1, <1>2 DEF TurnBegins, ActiveGroups, TypeOK

LEMMA TypeStep == TypeOK /\ AtGroup /\ [Next]_vars => TypeOK'
<1> SUFFICES ASSUME TypeOK, AtGroup, [Next]_vars PROVE TypeOK'
  OBVIOUS
<1> USE DEF TypeOK, groups, objects, leaving
<1>1. ASSUME NEW k \in Programs, Reap(k) PROVE TypeOK'
  BY <1>1, FinishesType DEF Reap
<1>2. CASE Called
  <2>1. turn # 0 => \E q \in {procs[turn]} \cup Transitions(procs[turn], Config[turn], mood) :
            procs' = [procs EXCEPT ![turn] = q]
    BY <1>2 DEF Called
  <2>2. turn # 0 => procs' \in [Programs -> OutlineType]
    BY <2>1, TransitionsType
  <2> QED BY <1>2, <2>2 DEF Called, PCs
<1>3. ASSUME NEW k \in Programs, NEW force, StartProcess(k, force) PROVE TypeOK'
  <2> DEFINE ready == IF procs[k].state = "DISABLED" THEN [procs[k] EXCEPT !.state = "STOPPED"]
                      ELSE procs[k]
  <2>1. ready \in OutlineType
    BY DEF OutlineType, ProcessStates
  <2>2. PICK q \in Spawns(ready) : procs' = [procs EXCEPT ![k] = q]
    BY <1>3 DEF StartProcess
  <2>3. q \in OutlineType
    BY <2>1, SpawnsType
  <2> QED BY <1>3, <2>2, <2>3 DEF StartProcess, PCs
<1>4. ASSUME NEW k \in Programs, StopProcess(k) PROVE TypeOK'
  BY <1>4, StopsType DEF StopProcess, Stop, Call, PCs
<1>5. ASSUME NEW new \in Moods, Leave(new) PROVE TypeOK'
  BY <1>5 DEF Leave
<1>6. ASSUME NEW ini \in Inis, NEW line \in Lines, Update(ini, line) PROVE TypeOK'
  <2>1. client' \in ClientType
    <3> DEFINE only == IF line = {} THEN Groups ELSE line
               c == [Idle EXCEPT
          !.only = only,
          !.added = {g \in only : active[g] = NoConfig /\ ini[g] # NoConfig},
          !.removed = {g \in only : active[g] # NoConfig /\ ini[g] = NoConfig},
          !.changed = {g \in only : /\ active[g] # NoConfig /\ ini[g] # NoConfig
                                    /\ active[g] # ini[g]}]
    <3>0. only \subseteq Groups
      BY ServiceAssumption
    <3>1. c \in ClientType
      BY <3>0, IdleType DEF ClientType
    <3>2. Served(Onward(c))
      BY <1>6 DEF Update
    <3> HIDE DEF c
    <3> QED BY <3>1, <3>2, OnwardType, ServedType
  <2> QED BY <1>6, <2>1, ServiceAssumption DEF Update
<1>7. ASSUME NEW g \in Groups, UpdateStops(g) PROVE TypeOK'
  <2>1. client' \in ClientType
    BY <1>7 DEF UpdateStops, Served, ClientType
  <2> QED BY <1>7, <2>1 DEF UpdateStops, PCs, Calls, Call
<1>8. CASE StopNext
  <2>1. PICK k \in ToStop : Stop(k) /\ client' = [client EXCEPT !.waits = @ \cup {k}]
    BY <1>8 DEF StopNext
  <2>2. k \in Programs
    BY DEF ToStop, Running, ActivePrograms, Members, GroupConfigType
  <2>3. client' \in ClientType
    BY <2>1, <2>2 DEF ClientType
  <2>4. procs' \in [Programs -> OutlineType]
    BY <2>1, <2>2, StopsType DEF Stop
  <2> QED BY <1>8, <2>3, <2>4 DEF StopNext, PCs
<1>9. CASE StopReaped
  BY <1>9 DEF StopReaped, PCs
<1>10. CASE GroupStopping
  <2>1. client' \in ClientType
    BY <1>10 DEF GroupStopping, Answer, Served, ClientType
  <2> QED BY <1>10, <2>1 DEF GroupStopping, Answer, PCs
<1>11. CASE GroupReplaced
  <2>1. active' \in [Groups -> GroupConfigType] /\ dropped' \in [Programs -> OutlineType]
    BY <1>11, ConfigTypes DEF GroupReplaced, Drop
  <2>2. procs' \in [Programs -> OutlineType]
    BY <1>11, FreshType DEF GroupReplaced
  <2>3. client' \in ClientType
    <3> DEFINE c == [client EXCEPT !.watch = @ \cup configured[client.group].members]
    <3>1. configured[client.group].members \subseteq Programs
      BY <1>11, ConfigTypes DEF GroupReplaced, GroupConfigType, AtGroup, ClientType
    <3>2. c \in ClientType
      BY <3>1 DEF ClientType
    <3>3. Served(Onward(c))
      BY <1>11 DEF GroupReplaced, Answer
    <3> QED BY <3>2, <3>3, OnwardType, ServedType
  <2>4. replaced' \subseteq Programs
    BY <1>11 DEF GroupReplaced, Members, GroupConfigType, AtGroup, ClientType
  <2> QED BY <1>11, <2>1, <2>2, <2>3, <2>4 DEF GroupReplaced, Answer, Drop, PCs
<1>12. CASE StopPolled
  <2>1. client' \in ClientType
    BY <1>12 DEF StopPolled, Served, ClientType
  <2> QED BY <1>12, <2>1 DEF StopPolled
<1>13. CASE GroupRemoved
  <2>1. CASE unstopped_processes(client.group) # {}
    <3>1. client' \in ClientType
      <4>1. Served(Idle)
        BY <1>13, <2>1 DEF GroupRemoved, Answer
      <4> QED BY <4>1, IdleType, ServedType
    <3>2. /\ UNCHANGED <<configured, active, procs, dropped, replaced, strays, pgroups, stale>>
          /\ UNCHANGED <<leaving, turn, updates>>
          /\ pc = "dispatch" /\ pc' = "dispatch"
      BY <1>13, <2>1 DEF GroupRemoved, Answer, Calls, Call
    <3> QED BY <3>1, <3>2
  <2>2. CASE unstopped_processes(client.group) = {}
    <3>0. NoConfig \in GroupConfigType
      BY DEF NoConfig, GroupConfigType
    <3>1. active' \in [Groups -> GroupConfigType] /\ dropped' \in [Programs -> OutlineType]
      BY <1>13, <2>2, <3>0 DEF GroupRemoved, Drop
    <3>2. procs' \in [Programs -> OutlineType]
      BY <1>13, <2>2, FreshType DEF GroupRemoved
    <3>3. client' \in ClientType
      BY <1>13, <2>2, OnwardType, ServedType DEF GroupRemoved, Answer
    <3> QED BY <1>13, <2>2, <3>1, <3>2, <3>3 DEF GroupRemoved, Answer, Drop, PCs, Calls, Call
  <2> QED BY <2>1, <2>2
<1>14. ASSUME NEW g \in Groups, AddGroup(g) PROVE TypeOK'
  <2>1. active' \in [Groups -> GroupConfigType]
    BY <1>14, ConfigTypes DEF AddGroup
  <2>2. procs' \in [Programs -> OutlineType]
    BY <1>14, FreshType DEF AddGroup
  <2>3. [client EXCEPT !.added = @ \ {g}] \in ClientType
    BY DEF ClientType
  <2>4. client' \in ClientType
    BY <1>14, <2>3, OnwardType, ServedType DEF AddGroup, Answer
  <2> QED BY <1>14, <2>1, <2>2, <2>4 DEF AddGroup, Answer, PCs, Calls, Call
<1>15. CASE Tidy
  <2>1. {k \in ActivePrograms : Running(k) /\ ~Config[k].enabled} \subseteq Programs
    BY DEF ActivePrograms, Members, GroupConfigType
  <2>2. client' \in ClientType
    BY <1>15, <2>1 DEF Tidy, Served, ClientType
  <2> QED BY <1>15, <2>2 DEF Tidy
<1>16. ASSUME NEW k \in Programs, TidyStop(k) PROVE TypeOK'
  <2>1. CASE Running(k)
    <3>1. client' \in ClientType
      <4>1. Served([client EXCEPT !.wrong = @ \ {k}, !.waits = {k}])
        BY <1>16, <2>1 DEF TidyStop
      <4> QED BY <1>16, <4>1, ServedType DEF ClientType
    <3>2. procs' \in [Programs -> OutlineType]
      BY <1>16, <2>1, StopsType DEF TidyStop, Stop
    <3> QED BY <1>16, <2>1, <3>1, <3>2 DEF TidyStop, PCs, Calls, Call
  <2>2. CASE ~Running(k)
    BY <1>16, <2>2, IdleType DEF TidyStop
  <2> QED BY <2>1, <2>2
<1>17. CASE Updated \/ Refused
  BY <1>17, IdleType DEF Updated, Refused
<1>18. CASE StartTurn
  <2>1. TurnBegins
    BY <1>18 DEF StartTurn
  <2> QED BY <1>18, <2>1, TurnBeginsType DEF StartTurn, PCs
<1>19. CASE StopLastGroup
  <2>1. TurnBegins
    BY <1>19 DEF StopLastGroup
  <2>2. procs' \in [Programs -> OutlineType]
    BY <1>19, StopsType DEF StopLastGroup
  <2>3. stop_groups' \in Seq(Groups)
    <3>1. InOrder(ActiveGroups) \in Seq(Groups)
      <4>1. InOrder(ActiveGroups) \in Seq(ActiveGroups)
        BY ActiveGroupsFinite, InOrderLists
      <4> QED BY <4>1 DEF ActiveGroups
    <3> QED BY <1>19, <3>1 DEF StopLastGroup
  <2> QED BY <1>19, <2>1, <2>2, <2>3, TurnBeginsType DEF StopLastGroup, PCs
<1>20. CASE EndDispatch
  BY <1>20, AfterType DEF EndDispatch, PCs
<1>21. CASE Transition
  <2>1. turn \in Programs => procs' \in [Programs -> OutlineType] /\ dropped' \in [Programs -> OutlineType]
    BY <1>21, TransitionsType DEF Transition
  <2>2. turn \notin Programs => procs' = procs /\ dropped' = dropped
    BY <1>21 DEF Transition
  <2>3. strays' \subseteq Programs
    BY <1>21 DEF Transition, Orphans
  <2> QED BY <1>21, <2>1, <2>2, <2>3, AfterType DEF Transition, PCs
<1>22. ASSUME NEW new \in Moods, HandleSignal(new) PROVE TypeOK'
  <2>1. stop_groups' \in Seq(Groups)
    BY <1>22 DEF HandleSignal
  <2> QED BY <1>22, <2>1 DEF HandleSignal, PCs
<1>23. ASSUME NEW ini \in Inis, Restarted(ini) PROVE TypeOK'
  <2>1. active' \in [Groups -> GroupConfigType] /\ procs' \in [Programs -> OutlineType]
    BY <1>23, MadeType, ConfigTypes DEF Restarted
  <2>2. stop_groups' \in Seq(Groups)
    BY <1>23 DEF Restarted
  <2>3. /\ pgroups' \subseteq Groups /\ stale' \subseteq pgroups' /\ mood' \in Moods
        /\ stopping' \in BOOLEAN /\ pc' \in PCs /\ client' \in ClientType /\ configured' \in Inis
    <3>1. pgroups' = {} /\ stale' = {} /\ stopping' = FALSE /\ configured' = ini
      BY <1>23 DEF Restarted
    <3>2. mood' = "RUNNING" /\ pc' = "top" /\ client' = Idle
      BY <1>23 DEF Restarted
    <3>3. mood' \in Moods /\ pc' \in PCs /\ client' \in ClientType
      BY <3>2, IdleType DEF Moods, PCs
    <3> QED BY <3>1, <3>3
  <2>4. UNCHANGED <<dropped, replaced, strays, turn, updates>> /\ turn = 0
    BY <1>23 DEF Restarted
  <2> QED BY <2>1, <2>2, <2>3, <2>4
<1>24. ASSUME NEW k \in Programs, Dies(k) PROVE TypeOK'
  <2>1. /\ procs' = procs \/ procs' = [procs EXCEPT ![k] = [procs[k] EXCEPT !.child = "zombie"]]
        /\ dropped' = dropped \/ dropped' = [dropped EXCEPT ![k] = [dropped[k] EXCEPT !.child = "zombie"]]
    BY <1>24 DEF Dies
  <2>2. procs' \in [Programs -> OutlineType] /\ dropped' \in [Programs -> OutlineType]
    BY <2>1, DeadType
  <2> QED BY <1>24, <2>2 DEF Dies
<1>25. CASE UNCHANGED vars
  BY <1>25 DEF vars
<1>26. CASE Watch
  <2>1. PICK k \in client.watch :
          Served(IF procs[k].state = "STARTING" THEN client
                 ELSE Onward([client EXCEPT !.watch = @ \ {k}]))
    BY <1>26 DEF Watch
  <2>2. [client EXCEPT !.watch = @ \ {k}] \in ClientType
    BY DEF ClientType
  <2>3. client' \in ClientType
    BY <2>1, <2>2, OnwardType, ServedType
  <2> QED BY <1>26, <2>3 DEF Watch
<1> QED BY <1>1, <1>2, <1>3, <1>4, <1>5, <1>6, <1>7, <1>8, <1>9, <1>10, <1>11, <1>12, <1>13, <1>14,
           <1>15, <1>16, <1>17, <1>18, <1>19, <1>20, <1>21, <1>22, <1>23, <1>24, <1>25, <1>26,
           ServiceAssumption
        DEF Next, Client, UpdateCommand, Loop, EndTurn, ExitRequest, RestartRequest, Moods

-----------------------------------------------------------------------------
(* Which actions change what.                                              *)

LEMMA GroupsChange ==
    ASSUME [Next]_vars
    PROVE  \/ active' = active /\ configured' = configured
           \/ active' = active /\ \E ini \in Inis, line \in Lines : Update(ini, line)
           \/ GroupReplaced \/ GroupRemoved \/ (\E g \in Groups : AddGroup(g))
           \/ \E ini \in Inis : Restarted(ini)
<1>1. CASE Client
  BY <1>1 DEF Client, groups, StartProcess, StopProcess, Leave, Update
<1>2. CASE UpdateCommand
  BY <1>2 DEF UpdateCommand, groups, UpdateStops, StopNext, StopReaped, GroupStopping, StopPolled,
         Watch, Tidy, TidyStop, Updated, Refused, Answer
<1>3. CASE Loop
  BY <1>3 DEF Loop, EndTurn, groups, Reap, Called, StopNext, StopReaped, GroupStopping, StartTurn,
         StopLastGroup, EndDispatch, Transition, HandleSignal, Answer
<1>4. CASE ExitRequest \/ RestartRequest \/ (\E ini \in Inis : Restarted(ini)) \/ (\E k \in Programs : Dies(k))
  BY <1>4 DEF ExitRequest, RestartRequest, vars, groups, HandleSignal, Dies
<1>5. CASE UNCHANGED vars
  BY <1>5 DEF vars, groups
<1> QED BY <1>1, <1>2, <1>3, <1>4, <1>5 DEF Next

LEMMA DroppedChange ==
    ASSUME [Next]_vars
    PROVE  \/ UNCHANGED <<dropped, replaced, strays>>
           \/ GroupReplaced \/ GroupRemoved \/ StartTurn \/ StopLastGroup \/ Transition
           \/ \E k \in Programs : Reap(k) \/ Dies(k)
<1>1. CASE Client
  BY <1>1 DEF Client, objects, StartProcess, StopProcess, Leave, Update
<1>2. CASE UpdateCommand
  BY <1>2 DEF UpdateCommand, objects, UpdateStops, StopNext, StopReaped, GroupStopping,
         StopPolled, AddGroup, Watch, Tidy, TidyStop, Updated, Refused, Answer
<1>3. CASE Loop
  BY <1>3 DEF Loop, EndTurn, objects, Called, StopNext, StopReaped, GroupStopping, EndDispatch,
         HandleSignal, Answer
<1>4. CASE ExitRequest \/ RestartRequest \/ (\E ini \in Inis : Restarted(ini)) \/ (\E k \in Programs : Dies(k))
  BY <1>4 DEF ExitRequest, RestartRequest, vars, objects, HandleSignal, Restarted
<1>5. CASE UNCHANGED vars
  BY <1>5 DEF vars, objects
<1> QED BY <1>1, <1>2, <1>3, <1>4, <1>5 DEF Next

LEMMA ProcsChange ==
    ASSUME [Next]_vars
    PROVE  \/ procs' = procs
           \/ GroupReplaced \/ GroupRemoved \/ StopNext \/ StopLastGroup \/ Transition \/ Called
           \/ \E g \in Groups : AddGroup(g)
           \/ \E k \in Programs : \/ Reap(k) \/ Dies(k) \/ StopProcess(k) \/ TidyStop(k)
                                   \/ \E force \in Forces : StartProcess(k, force)
           \/ \E ini \in Inis : Restarted(ini)
<1>1. CASE Client
  BY <1>1, ServiceAssumption DEF Client, objects, Leave, Update
<1>2. CASE UpdateCommand
  BY <1>2, ServiceAssumption DEF UpdateCommand, objects, UpdateStops, StopReaped, GroupStopping,
         StopPolled, Watch, Tidy, Updated, Refused, Answer
<1>3. CASE Loop
  BY <1>3, ServiceAssumption DEF Loop, EndTurn, objects, StopReaped, GroupStopping, StartTurn,
         EndDispatch, HandleSignal, Answer
<1>4. CASE ExitRequest \/ RestartRequest \/ (\E ini \in Inis : Restarted(ini)) \/ (\E k \in Programs : Dies(k))
  BY <1>4, ServiceAssumption DEF ExitRequest, RestartRequest, vars, objects, HandleSignal
<1>5. CASE UNCHANGED vars
  BY <1>5 DEF vars, objects
<1> QED BY <1>1, <1>2, <1>3, <1>4, <1>5 DEF Next

LEMMA LeavingChange ==
    ASSUME [Next]_vars
    PROVE  \/ UNCHANGED leaving
           \/ StopLastGroup \/ Leave("SHUTDOWN") \/ Leave("RESTARTING")
           \/ EndTurn \/ ExitRequest \/ RestartRequest \/ \E ini \in Inis : Restarted(ini)
<1>1. CASE Client
  BY <1>1 DEF Client, leaving, StartProcess, StopProcess, Update
<1>2. CASE UpdateCommand
  BY <1>2 DEF UpdateCommand, leaving, UpdateStops, StopNext, StopReaped, GroupStopping,
         GroupReplaced, StopPolled, GroupRemoved, AddGroup, Watch, Tidy, TidyStop, Updated, Refused,
         Answer
<1>3. CASE Loop
  BY <1>3 DEF Loop, leaving, Reap, Called, StopNext, StopReaped, GroupStopping, GroupReplaced,
         StartTurn, EndDispatch, Transition, Answer
<1>4. CASE ExitRequest \/ RestartRequest \/ (\E ini \in Inis : Restarted(ini)) \/ (\E k \in Programs : Dies(k))
  BY <1>4 DEF vars, leaving, Dies
<1>5. CASE UNCHANGED vars
  BY <1>5 DEF vars, leaving
<1> QED BY <1>1, <1>2, <1>3, <1>4, <1>5 DEF Next

LEMMA ClientChange ==
    ASSUME [Next]_vars
    PROVE  \/ client' = client
           \/ (\E ini \in Inis : Restarted(ini) \/ \E line \in Lines : Update(ini, line))
           \/ (\E g \in Groups : UpdateStops(g) \/ AddGroup(g))
           \/ StopNext \/ GroupStopping \/ GroupReplaced \/ StopPolled \/ GroupRemoved \/ Watch
           \/ Tidy \/ (\E k \in Programs : TidyStop(k)) \/ Updated \/ Refused
           \/ StartTurn \/ StopLastGroup
<1>1. CASE Client
  BY <1>1 DEF Client, StartProcess, StopProcess, Leave
<1>2. CASE UpdateCommand
  BY <1>2 DEF UpdateCommand, StopReaped
<1>3. CASE Loop
  BY <1>3 DEF Loop, EndTurn, Reap, Called, StopReaped, EndDispatch, Transition, HandleSignal
<1>4. CASE ExitRequest \/ RestartRequest \/ (\E ini \in Inis : Restarted(ini)) \/ (\E k \in Programs : Dies(k))
  BY <1>4 DEF ExitRequest, RestartRequest, vars, HandleSignal, Dies
<1>5. CASE UNCHANGED vars
  BY <1>5 DEF vars
<1> QED BY <1>1, <1>2, <1>3, <1>4, <1>5 DEF Next

LEMMA HandlerChange ==
    ASSUME [Next]_vars
    PROVE  \/ pc' = pc
           \/ pc' \notin {"call_reap", "stop_each", "stop_reap", "exited"}
           \/ StopNext \/ StopReaped \/ StopLastGroup \/ \E g \in Groups : UpdateStops(g)
           \/ pc' = "call_reap" /\ Call /\ UNCHANGED leaving
<1>1. CASE Client
  BY <1>1 DEF Client, Call, StartProcess, StopProcess, Leave, Update
<1>2. CASE UpdateCommand
  BY <1>2 DEF UpdateCommand, Calls, Call, GroupStopping, GroupReplaced, StopPolled, GroupRemoved,
         AddGroup, Watch, Tidy, TidyStop, Updated, Refused, Answer
<1>3. CASE Loop
  BY <1>3 DEF Loop, EndTurn, Call, Reap, Called, GroupStopping, GroupReplaced, StartTurn,
         EndDispatch, Transition, HandleSignal, Answer
<1>4. CASE ExitRequest \/ RestartRequest \/ (\E ini \in Inis : Restarted(ini)) \/ (\E k \in Programs : Dies(k))
  BY <1>4 DEF ExitRequest, RestartRequest, vars, Call, HandleSignal, Restarted, Dies
<1>5. CASE UNCHANGED vars
  BY <1>5 DEF vars
<1> QED BY <1>1, <1>2, <1>3, <1>4, <1>5 DEF Next

-----------------------------------------------------------------------------
(* The parts of the invariant, one by one.                                 *)

LEMMA AtGroupStep == TypeOK /\ AtGroup /\ [Next]_vars => AtGroup'
<1> SUFFICES ASSUME TypeOK, AtGroup, [Next]_vars, pc' \in {"stop_each", "stop_reap"}
             PROVE  client'.group # 0
  BY DEF AtGroup
<1>1. CASE \E g \in Groups : UpdateStops(g)
  BY <1>1, ServiceAssumption DEF UpdateStops, Served, TypeOK, ClientType
<1>2. CASE StopNext
  BY <1>2 DEF StopNext, AtGroup, TypeOK, ClientType
<1>3. CASE StopReaped
  BY <1>3 DEF StopReaped, AtGroup
<1>4. CASE pc' = pc
  <2>1. client' = client \/ pc \notin {"stop_each", "stop_reap"}
    BY <1>4, ClientChange
       DEF Update, Restarted, UpdateStops, AddGroup, StopNext, GroupStopping, GroupReplaced, Calls,
           Call, StopPolled, GroupRemoved, Watch, Tidy, TidyStop, Updated, Refused, Answer,
           StartTurn, StopLastGroup
  <2> QED BY <1>4, <2>1 DEF AtGroup
<1> QED BY <1>1, <1>2, <1>3, <1>4, HandlerChange DEF StopLastGroup

\* A configuration lists the programs of a group in that group.
LEMMA ConfiguredOwn ==
    ASSUME NEW ini \in Inis, NEW g \in Groups, NEW k \in ini[g].members
    PROVE  GroupOf[k] = g
BY ServiceAssumption DEF NoConfig

LEMMA MembersStep == TypeOK /\ MembersOwn /\ [Next]_vars => MembersOwn'
<1> SUFFICES ASSUME TypeOK, MembersOwn, [Next]_vars, NEW g \in Groups, NEW k \in active'[g].members
             PROVE  GroupOf[k] = g
  BY DEF MembersOwn, Members
<1>1. CASE active' = active
  BY <1>1 DEF MembersOwn, Members
<1>2. CASE GroupReplaced
  <2>1. active'[g] = active[g] \/ active'[g] = configured[g]
    BY <1>2 DEF GroupReplaced, TypeOK
  <2> QED BY <2>1, ConfiguredOwn DEF MembersOwn, Members, TypeOK
<1>3. CASE GroupRemoved
  <2>1. active'[g] = active[g] \/ active'[g] = NoConfig
    BY <1>3 DEF GroupRemoved, TypeOK
  <2> QED BY <2>1 DEF MembersOwn, Members, NoConfig
<1>4. CASE \E h \in Groups : AddGroup(h)
  <2>1. active'[g] = active[g] \/ active'[g] = configured[g]
    BY <1>4 DEF AddGroup, TypeOK
  <2> QED BY <2>1, ConfiguredOwn DEF MembersOwn, Members, TypeOK
<1>5. CASE \E ini \in Inis : Restarted(ini)
  BY <1>5, ConfiguredOwn DEF Restarted
<1> QED BY <1>1, <1>2, <1>3, <1>4, <1>5, GroupsChange

LEMMA NothingSound == Sound(Nothing) /\ ~Unstopped(Nothing)
BY FreshType DEF Sound, Nothing, Alive, Unstopped, ALL_STOPPED_STATES

\* A program in its group's configuration is there, with a process object of its own.
LEMMA SoundStep == TypeOK /\ ProcsSound /\ [Next]_vars => ProcsSound'
<1> SUFFICES ASSUME TypeOK, ProcsSound, [Next]_vars, NEW j \in Programs
             PROVE  Sound(procs'[j])
  BY DEF ProcsSound
<1>0. Sound(procs[j])
  BY DEF ProcsSound
<1> USE <1>0
<1>1. CASE procs' = procs
  BY <1>1
<1>2. CASE GroupReplaced \/ GroupRemoved \/ \E g \in Groups : AddGroup(g)
  <2>1. CASE GroupReplaced
    <3>1. procs'[j] \in {Fresh(Config[j]), Nothing, procs[j]}
      BY <2>1 DEF GroupReplaced
    <3> QED BY <3>1, FreshSound, NothingSound
  <2>2. CASE GroupRemoved
    <3>1. procs'[j] \in {Nothing, procs[j]}
      BY <2>2 DEF GroupRemoved
    <3> QED BY <3>1, NothingSound
  <2>3. CASE \E g \in Groups : AddGroup(g)
    <3>1. procs'[j] \in {Fresh(Config[j]), procs[j]}
      BY <2>3 DEF AddGroup
    <3> QED BY <3>1, FreshSound
  <2> QED BY <1>2, <2>1, <2>2, <2>3
<1>3. CASE StopNext \/ \E k \in Programs : StopProcess(k) \/ TidyStop(k)
  <2>1. procs'[j] = procs[j] \/ procs'[j] = Stops(procs[j], Config[j])
    BY <1>3 DEF StopNext, StopProcess, TidyStop, Stop, TypeOK
  <2> QED BY <2>1, StopsSound
<1>4. CASE StopLastGroup
  BY <1>4, StopsAllSound DEF StopLastGroup
<1>5. CASE Transition
  BY <1>5, TransitionsSound DEF Transition, TypeOK
<1>6. CASE Called
  <2>1. procs'[j] = procs[j] \/ procs'[j] \in Transitions(procs[j], Config[j], mood)
    BY <1>6 DEF Called, TypeOK
  <2> QED BY <2>1, TransitionsSound
<1>7. ASSUME NEW k \in Programs, Reap(k) PROVE Sound(procs'[j])
  BY <1>7, FinishesSound DEF Reap, TypeOK
<1>8. ASSUME NEW k \in Programs, Dies(k) PROVE Sound(procs'[j])
  <2>1. \/ procs'[j] = procs[j]
        \/ procs[j].child \in {"up", "killed"} /\ procs'[j] = [procs[j] EXCEPT !.child = "zombie"]
    BY <1>8 DEF Dies, TypeOK
  <2> QED BY <2>1 DEF Sound, OutlineType, ChildOutlines
<1>9. ASSUME NEW k \in Programs, NEW force \in Forces, StartProcess(k, force) PROVE Sound(procs'[j])
  <2> DEFINE ready == IF procs[k].state = "DISABLED" THEN [procs[k] EXCEPT !.state = "STOPPED"]
                      ELSE procs[k]
  <2>1. Sound(ready)
    BY DEF ProcsSound, Sound, OutlineType, ProcessStates, Alive
  <2>2. procs'[j] = procs[j] \/ procs'[j] \in Spawns(ready)
    BY <1>9 DEF StartProcess, TypeOK
  <2> HIDE DEF ready
  <2> QED BY <2>1, <2>2, SpawnsSound
<1>10. CASE \E ini \in Inis : Restarted(ini)
  BY <1>10, FreshSound, NothingSound DEF Restarted, Made
<1> QED BY <1>1, <1>2, <1>3, <1>4, <1>5, <1>6, <1>7, <1>8, <1>9, <1>10, ProcsChange

\* Objects that left the daemon's care get no child any more but from a stale turn of the loop.
LEMMA DroppedStep ==
    TypeOK /\ ProcsSound /\ DroppedStopped /\ [Next]_vars => DroppedStopped'
<1> SUFFICES ASSUME TypeOK, ProcsSound, DroppedStopped, [Next]_vars,
                    NEW j \in Programs, j \notin replaced' \cup strays'
             PROVE  dropped'[j].child = "none"
  BY DEF DroppedStopped
<1>0. j \notin replaced \cup strays => dropped[j].child = "none"
  BY DEF DroppedStopped
<1>1. CASE UNCHANGED <<dropped, replaced, strays>>
  BY <1>0, <1>1
<1>2. CASE GroupReplaced
  BY <1>0, <1>2 DEF GroupReplaced, Drop
<1>3. CASE GroupRemoved
  <2>1. \/ dropped'[j] = dropped[j]
        \/ dropped'[j] = procs[j] /\ j \in Members(client.group)
           /\ unstopped_processes(client.group) = {}
    BY <1>3 DEF GroupRemoved, Drop
  <2>2. ~Unstopped(procs[j]) => procs[j].child = "none"
    BY DEF ProcsSound, Sound, Alive, Unstopped, ALL_STOPPED_STATES
  <2>3. UNCHANGED <<replaced, strays>>
    BY <1>3 DEF GroupRemoved
  <2> QED BY <1>0, <2>1, <2>2, <2>3 DEF unstopped_processes
<1>4. CASE StartTurn \/ StopLastGroup
  <2>1. /\ dropped'[j].child = dropped[j].child
        /\ replaced' = replaced \cap Orphans /\ strays' = strays \cap Orphans
    BY <1>4 DEF StartTurn, StopLastGroup, TurnBegins, Forgotten, Nothing
  <2> QED BY <1>0, <2>1 DEF Orphans
<1>5. CASE Transition
  <2>1. replaced' = replaced /\ strays \subseteq strays'
    BY <1>5 DEF Transition
  <2>2. dropped'[j] = dropped[j] \/ (dropped[j].child = "none" /\ dropped'[j].child # "none" => j \in strays')
    BY <1>5 DEF Transition, Orphans
  <2> QED BY <1>0, <2>1, <2>2
<1>6. ASSUME NEW k \in Programs, Reap(k) \/ Dies(k) PROVE dropped'[j].child = "none"
  <2>1. UNCHANGED <<replaced, strays>>
    BY <1>6 DEF Reap, Dies
  <2> QED BY <1>0, <1>6, <2>1 DEF Reap, Dies, TypeOK
<1> QED BY <1>1, <1>2, <1>3, <1>4, <1>5, <1>6, DroppedChange

\* Once the daemon is to go the groups stay as they are, and what is stopped stays stopped.
LEMMA Frozen ==
    ASSUME TypeOK, ProcsSound, Going, [Next]_vars, mood # "RUNNING",
           ~ \E ini \in Inis : Restarted(ini)
    PROVE  /\ active' = active /\ mood' # "RUNNING"
           /\ \A k \in Programs : ~Unstopped(procs[k]) => procs'[k] = procs[k]
<1>1. pc \notin {"call_reap", "stop_each", "stop_reap"}
  BY DEF Going
<1>2. active' = active
  BY <1>1, GroupsChange DEF GroupReplaced, GroupRemoved, AddGroup, Calls, Call
<1>3. mood' # "RUNNING"
  BY LeavingChange
     DEF leaving, StopLastGroup, Leave, EndTurn, ExitRequest, RestartRequest, HandleSignal
<1>4. ASSUME NEW j \in Programs, ~Unstopped(procs[j])
      PROVE  procs'[j] = procs[j]
  <2>0. Sound(procs[j]) /\ procs[j].child = "none"
    BY <1>4 DEF ProcsSound, Sound, Alive, Unstopped, ALL_STOPPED_STATES
  <2>1. CASE StopLastGroup
    BY <1>4, <2>0, <2>1, StopsAllSound DEF StopLastGroup, TypeOK
  <2>2. CASE Transition
    <3>1. procs'[j] = procs[j] \/ procs'[j] \in Transitions(procs[j], Config[j], mood)
      BY <2>2 DEF Transition, TypeOK
    <3> QED BY <1>4, <2>0, <3>1, TransitionsSound
  <2>3. ASSUME NEW k \in Programs, Reap(k) \/ Dies(k) PROVE procs'[j] = procs[j]
    BY <2>0, <2>3 DEF Reap, Dies, TypeOK
  <2> QED BY <1>1, <2>1, <2>2, <2>3, ProcsChange
          DEF GroupReplaced, GroupRemoved, AddGroup, StopNext, StopProcess, TidyStop, Called,
              StartProcess, Calls, Call
<1> QED BY <1>2, <1>3, <1>4

LEMMA GoingStep == TypeOK /\ ProcsSound /\ Going /\ MembersOwn /\ [Next]_vars => Going'
<1> SUFFICES ASSUME TypeOK, ProcsSound, Going, MembersOwn, [Next]_vars
             PROVE  Going'
  OBVIOUS
<1>1. pc' \in {"call_reap", "stop_each", "stop_reap"} => mood' = "RUNNING"
  <2>1. ASSUME pc' = pc, pc \in {"call_reap", "stop_each", "stop_reap"}
        PROVE  mood' = "RUNNING"
    BY <2>1, LeavingChange
       DEF Going, leaving, StopLastGroup, Leave, EndTurn, ExitRequest, RestartRequest,
           HandleSignal, Restarted, Call
  <2> QED BY <2>1, HandlerChange
          DEF Going, leaving, StopNext, StopReaped, StopLastGroup, UpdateStops, Calls, Call
<1>2. stopping' => mood' # "RUNNING"
  BY LeavingChange
     DEF Going, leaving, StopLastGroup, Leave, EndTurn, ExitRequest, RestartRequest,
         HandleSignal, Restarted
<1>3. ASSUME pc' = "exited"
      PROVE  mood' # "RUNNING" /\ \A k \in ActivePrograms' : ~Unstopped(procs'[k])
  <2>1. CASE StopLastGroup
    BY <2>1, <1>3 DEF StopLastGroup, ActivePrograms, Members, groups
  <2>2. CASE pc' = pc /\ pc = "exited"
    <3>1. mood # "RUNNING" /\ \A k \in ActivePrograms : ~Unstopped(procs[k])
      BY <2>2 DEF Going
    <3>2. ~ \E ini \in Inis : Restarted(ini)
      BY <1>3 DEF Restarted
    <3>3. /\ active' = active /\ mood' # "RUNNING"
          /\ \A k \in Programs : ~Unstopped(procs[k]) => procs'[k] = procs[k]
      BY <3>1, <3>2, Frozen
    <3>4. ActivePrograms \subseteq Programs
      BY DEF ActivePrograms, Members, TypeOK, GroupConfigType
    <3> QED BY <3>1, <3>3, <3>4 DEF ActivePrograms, Members
  <2> QED BY <1>3, <2>1, <2>2, HandlerChange DEF StopNext, StopReaped, UpdateStops
<1> QED BY <1>1, <1>2, <1>3 DEF Going

\* The groups behind the last of stop_groups are stopped; at the top of a turn of the shutdown
\* those behind the last of what stop_groups is going to be.
LEMMA LaterStopped ==
    ASSUME TypeOK, MembersOwn, Order, StopLastGroup, NEW g \in ActiveGroups
    PROVE  /\ Ascending(stop_groups')
           /\ (\E i \in DOMAIN stop_groups' : stop_groups'[i] = g) \/ unstopped_processes(g) = {}
<1>1. CASE stopping
  BY <1>1 DEF StopLastGroup, Order
<1>2. CASE ~stopping
  BY <1>2, ActiveGroupsFinite, InOrderLists DEF StopLastGroup
<1> QED BY <1>1, <1>2

LEMMA OrderStep ==
    TypeOK /\ ProcsSound /\ MembersOwn /\ Going /\ Order /\ [Next]_vars => Order'
<1> SUFFICES ASSUME TypeOK, ProcsSound, MembersOwn, Going, Order, [Next]_vars
             PROVE  Order'
  OBVIOUS
<1>1. CASE \E ini \in Inis : Restarted(ini)
  <2>1. stop_groups' = <<>> /\ stopping' = FALSE
    BY <1>1 DEF Restarted
  <2> QED BY <2>1 DEF Order, Ascending
<1>2. CASE StopLastGroup
  <2>1. active' = active /\ \A k \in Programs : ~Unstopped(procs[k]) => procs'[k] = procs[k]
    BY <1>2, Frozen DEF StopLastGroup, Restarted
  <2>2. Ascending(stop_groups')
    BY <1>2, ActiveGroupsFinite, InOrderLists DEF StopLastGroup, Order
  <2>3. ASSUME NEW g \in ActiveGroups', unstopped_processes(g) = {}
        PROVE  unstopped_processes(g)' = {}
    BY <2>1, <2>3 DEF unstopped_processes, ActiveGroups, Members, TypeOK, GroupConfigType
  <2> QED BY <1>2, <2>1, <2>2, <2>3, LaterStopped DEF Order, ActiveGroups
<1>3. CASE ~StopLastGroup /\ ~ \E ini \in Inis : Restarted(ini)
  <2>1. \/ stop_groups' = stop_groups
        \/ /\ stop_groups # <<>> /\ unstopped_processes(stop_groups[Len(stop_groups)]) = {}
           /\ stop_groups' = SubSeq(stop_groups, 1, Len(stop_groups) - 1)
    BY <1>3, LeavingChange
       DEF leaving, Leave, EndTurn, ExitRequest, RestartRequest, HandleSignal
  <2>2. stopping' = stopping
    BY <1>3, LeavingChange
       DEF leaving, Leave, EndTurn, ExitRequest, RestartRequest, HandleSignal
  <2> DEFINE n == Len(stop_groups)
  <2>0. ASSUME stop_groups # <<>>
        PROVE  LET front == SubSeq(stop_groups, 1, n - 1)
               IN  /\ n \in Nat \ {0} /\ DOMAIN stop_groups = 1..n /\ DOMAIN front = 1..(n - 1)
                   /\ \A i \in 1..(n - 1) : front[i] = stop_groups[i]
    BY <2>0 DEF TypeOK
  <2>3. Ascending(stop_groups')
    <3>1. CASE stop_groups' = stop_groups
      BY <3>1 DEF Order, Ascending
    <3>2. CASE stop_groups # <<>> /\ stop_groups' = SubSeq(stop_groups, 1, n - 1)
      BY <2>0, <3>2 DEF Order, Ascending
    <3> QED BY <2>1, <3>1, <3>2
  <2>4. ASSUME stopping, NEW g \in ActiveGroups'
        PROVE  \/ \E i \in DOMAIN stop_groups' : stop_groups'[i] = g
               \/ unstopped_processes(g)' = {}
    <3>1. active' = active /\ \A k \in Programs : ~Unstopped(procs[k]) => procs'[k] = procs[k]
      BY <1>3, <2>4, Frozen DEF Going
    <3>2. unstopped_processes(g) = {} => unstopped_processes(g)' = {}
      BY <2>4, <3>1 DEF unstopped_processes, ActiveGroups, Members, TypeOK, GroupConfigType
    <3>3. (\E i \in DOMAIN stop_groups : stop_groups[i] = g) \/ unstopped_processes(g) = {}
      BY <2>4, <3>1 DEF Order, ActiveGroups
    <3>4. ASSUME NEW i \in DOMAIN stop_groups, stop_groups[i] = g
          PROVE  (\E h \in DOMAIN stop_groups' : stop_groups'[h] = g) \/ unstopped_processes(g) = {}
      <4>1. CASE stop_groups' = stop_groups
        BY <3>4, <4>1
      <4>2. CASE /\ stop_groups # <<>> /\ unstopped_processes(stop_groups[n]) = {}
                 /\ stop_groups' = SubSeq(stop_groups, 1, n - 1)
        <5>1. i = n \/ i \in 1..(n - 1)
          BY <2>0, <3>4, <4>2
        <5> QED BY <2>0, <3>4, <4>2, <5>1
      <4> QED BY <2>1, <4>1, <4>2
    <3> QED BY <3>2, <3>3, <3>4
  <2> QED BY <2>2, <2>3, <2>4 DEF Order
<1> QED BY <1>1, <1>2, <1>3

\* The command goes on when there is nothing left to do with the group it was at.
LEMMA OnwardPending ==
    ASSUME NEW c \in ClientType, Served(Onward(c)),
           \A g \in c.only : active'[g] # configured'[g] => g \in c.removed \cup c.changed \cup c.added,
           \A g \in c.removed : configured'[g] = NoConfig
    PROVE  Pending'
<1> DEFINE d == Onward(c)
<1>1. /\ d.removed = c.removed /\ d.changed = c.changed /\ d.added = c.added
      /\ d.group = 0 /\ d.only = c.only
      /\ d.at \in {"watch", "tidy", "tidying"} => c.removed = {} /\ c.changed = {} /\ c.added = {}
  BY DEF Onward, ClientType
<1>2. d \in ClientType /\ client' = [d EXCEPT !.served = TRUE]
  BY OnwardType DEF Served
<1> HIDE DEF d
<1>3. /\ client'.at = d.at /\ client'.only = d.only /\ client'.group = d.group
      /\ client'.removed = d.removed /\ client'.changed = d.changed /\ client'.added = d.added
  BY <1>2 DEF ClientType
<1> QED BY <1>1, <1>3 DEF Pending

LEMMA IdlePending == client' = Idle \/ Served(Idle) => Pending'
BY DEF Idle, Served, Pending

\* What the command waits for, watches or was served changes nothing of what it has left to do.
LEMMA WaitingPending ==
    ASSUME Pending, active' = active, configured' = configured,
           client'.at = client.at, client'.only = client.only, client'.group = client.group,
           client'.removed = client.removed, client'.changed = client.changed,
           client'.added = client.added
    PROVE  Pending'
BY DEF Pending

LEMMA PendingStep == TypeOK /\ AtGroup /\ Pending /\ [Next]_vars => Pending'
<1> SUFFICES ASSUME TypeOK, AtGroup, Pending, [Next]_vars
             PROVE  Pending'
  OBVIOUS
<1>1. ASSUME NEW ini \in Inis, NEW line \in Lines, Update(ini, line) PROVE Pending'
  <2> DEFINE only == IF line = {} THEN Groups ELSE line
             c == [Idle EXCEPT
          !.only = only,
          !.added = {g \in only : active[g] = NoConfig /\ ini[g] # NoConfig},
          !.removed = {g \in only : active[g] # NoConfig /\ ini[g] = NoConfig},
          !.changed = {g \in only : /\ active[g] # NoConfig /\ ini[g] # NoConfig
                                    /\ active[g] # ini[g]}]
  <2>1. Served(Onward(c)) /\ active' = active /\ configured' = ini
    BY <1>1 DEF Update
  <2>0. only \subseteq Groups
    BY ServiceAssumption
  <2>2. c \in ClientType
    BY <2>0, IdleType DEF ClientType
  <2>3. /\ c.removed = {g \in only : active[g] # NoConfig /\ ini[g] = NoConfig}
        /\ c.only = only
        /\ \A g \in only : active[g] # ini[g] => g \in c.removed \cup c.changed \cup c.added
    BY DEF Idle
  <2> HIDE DEF c, only
  <2> QED BY <2>1, <2>2, <2>3, OnwardPending
<1>2. CASE GroupReplaced
  <2> DEFINE c == [client EXCEPT !.watch = @ \cup configured[client.group].members]
  <2>1. Served(Onward(c)) /\ active' = [active EXCEPT ![client.group] = configured[client.group]]
        /\ configured' = configured /\ client.at = "change"
    BY <1>2 DEF GroupReplaced, Answer
  <2>2. \A g \in client.only : active'[g] # configured'[g] =>
          g \in client.removed \cup client.changed \cup client.added
    BY <2>1 DEF Pending, TypeOK, ClientType
  <2>3. /\ c.removed = client.removed /\ c.changed = client.changed /\ c.added = client.added
        /\ c.only = client.only
    BY DEF TypeOK, ClientType
  <2>4. c \in ClientType
    <3>1. client.group \in Groups => configured[client.group].members \subseteq Programs
      BY ConfigTypes DEF TypeOK, GroupConfigType
    <3>2. client.group \in Groups
      <4>1. client.group # 0
        BY <1>2 DEF GroupReplaced, AtGroup
      <4> QED BY <4>1 DEF TypeOK, ClientType
    <3> QED BY <3>1, <3>2 DEF TypeOK, ClientType
  <2> HIDE DEF c
  <2> QED BY <2>1, <2>2, <2>3, <2>4, OnwardPending DEF Pending
<1>3. CASE GroupRemoved
  <2>1. CASE unstopped_processes(client.group) # {}
    BY <1>3, <2>1, IdlePending DEF GroupRemoved, Answer
  <2>2. CASE unstopped_processes(client.group) = {}
    <3>1. Served(Onward(client)) /\ active' = [active EXCEPT ![client.group] = NoConfig]
          /\ configured' = configured /\ client.at = "stopping"
      BY <1>3, <2>2 DEF GroupRemoved, Answer
    <3>2. \A g \in client.only : active'[g] # configured'[g] =>
            g \in client.removed \cup client.changed \cup client.added
      BY <3>1, ServiceAssumption DEF Pending, TypeOK, ClientType
    <3> QED BY <3>1, <3>2, OnwardPending DEF Pending, TypeOK
  <2> QED BY <2>1, <2>2
<1>4. ASSUME NEW h \in Groups, AddGroup(h) PROVE Pending'
  <2> DEFINE c == [client EXCEPT !.added = @ \ {h}]
  <2>1. Served(Onward(c)) /\ active' = [active EXCEPT ![h] = configured[h]]
        /\ configured' = configured /\ client.at = "add"
    BY <1>4 DEF AddGroup, Answer
  <2>2. c \in ClientType
    BY DEF TypeOK, ClientType
  <2>3. /\ c.removed = client.removed
        /\ \A g \in c.only : active'[g] # configured'[g] =>
              g \in c.removed \cup c.changed \cup c.added
    BY <2>1, ServiceAssumption DEF Pending, TypeOK, ClientType
  <2> HIDE DEF c
  <2> QED BY <2>1, <2>2, <2>3, OnwardPending DEF Pending
<1>5. ASSUME active' = active, configured' = configured PROVE Pending'
  <2>1. ASSUME NEW g \in Groups, UpdateStops(g) PROVE Pending'
    <3>1. /\ client'.at = client.at /\ client'.only = client.only /\ client'.group = g
          /\ client'.removed = client.removed \ {g} /\ client'.changed = client.changed \ {g}
          /\ client'.added = client.added
      BY <2>1 DEF UpdateStops, Served, TypeOK, ClientType
    <3>2. client.group = 0 /\ client.at \in {"remove", "change"} /\ (client.at = "remove" => g \in client.removed)
      BY <2>1 DEF UpdateStops
    <3> QED BY <1>5, <3>1, <3>2, ServiceAssumption DEF Pending, TypeOK, ClientType
  <2>2. CASE GroupStopping
    BY <1>5, <2>2 DEF GroupStopping, Answer, Served, Pending, TypeOK, ClientType
  <2>3. CASE Tidy
    BY <1>5, <2>3 DEF Tidy, Served, Pending, TypeOK, ClientType
  <2>4. CASE StopPolled \/ StopNext \/ StartTurn \/ StopLastGroup
    <3>1. CASE StopPolled
      BY <1>5, <3>1, WaitingPending DEF StopPolled, Served, TypeOK, ClientType
    <3>2. CASE StopNext
      BY <1>5, <3>2, WaitingPending DEF StopNext, TypeOK, ClientType
    <3>3. CASE StartTurn \/ StopLastGroup
      <4>1. client' = [client EXCEPT !.served = FALSE]
        BY <3>3 DEF StartTurn, StopLastGroup, TurnBegins
      <4> QED BY <1>5, <4>1, WaitingPending DEF TypeOK, ClientType
    <3> QED BY <2>4, <3>1, <3>2, <3>3
  <2>5. ASSUME NEW k \in Programs, TidyStop(k) PROVE Pending'
    <3>1. client' = Idle \/ Served([client EXCEPT !.wrong = @ \ {k}, !.waits = {k}])
      BY <2>5 DEF TidyStop
    <3>2. CASE Served([client EXCEPT !.wrong = @ \ {k}, !.waits = {k}])
      BY <1>5, <3>2, WaitingPending DEF Served, TypeOK, ClientType
    <3> QED BY <3>1, <3>2, IdlePending
  <2>6. CASE Updated \/ Refused
    BY <2>6, IdlePending DEF Updated, Refused
  <2>7. CASE client' = client
    BY <1>5, <2>7, WaitingPending
  <2>8. ASSUME NEW ini \in Inis, Restarted(ini) PROVE Pending'
    BY <2>8, IdlePending DEF Restarted
  <2>9. CASE Watch
    <3>1. PICK k \in client.watch :
            Served(IF procs[k].state = "STARTING" THEN client
                   ELSE Onward([client EXCEPT !.watch = @ \ {k}]))
      BY <2>9 DEF Watch
    <3>2. CASE Served(client)
      BY <1>5, <3>2, WaitingPending DEF Served, TypeOK, ClientType
    <3>3. CASE Served(Onward([client EXCEPT !.watch = @ \ {k}]))
      <4> DEFINE c == [client EXCEPT !.watch = @ \ {k}]
      <4>1. /\ c \in ClientType /\ c.only = client.only /\ c.removed = client.removed
            /\ c.changed = client.changed /\ c.added = client.added
        BY DEF TypeOK, ClientType
      <4>2. client.at = "watch" /\ client.group = 0
        BY <2>9 DEF Watch, Pending
      <4>3. \A g \in client.only : active'[g] # configured'[g] =>
              g \in client.removed \cup client.changed \cup client.added
        BY <1>5, <4>2, ServiceAssumption DEF Pending, TypeOK, ClientType
      <4> HIDE DEF c
      <4>4. \A g \in c.removed : configured'[g] = NoConfig
        BY <1>5, <4>1 DEF Pending
      <4> QED BY <3>3, <4>1, <4>3, <4>4, OnwardPending DEF c
    <3> QED BY <3>1, <3>2, <3>3
  <2> QED BY <1>1, <1>2, <1>3, <1>4, <2>1, <2>2, <2>3, <2>4, <2>5, <2>6, <2>7, <2>8, <2>9, ClientChange
<1>6. ASSUME NEW ini \in Inis, Restarted(ini) PROVE Pending'
  BY <1>6, IdlePending DEF Restarted
<1> QED BY <1>1, <1>2, <1>3, <1>4, <1>5, <1>6, GroupsChange

-----------------------------------------------------------------------------
(* The theorems.                                                           *)

LEMMA InvInit == Init => IInv
<1> SUFFICES ASSUME Init PROVE IInv
  OBVIOUS
<1>1. ProcsSound
  BY FreshSound, NothingSound DEF Init, ProcsSound, Made
<1>2. DroppedStopped
  BY DEF Init, DroppedStopped, Nothing
<1>3. MembersOwn
  BY ConfiguredOwn DEF Init, MembersOwn, Members
<1>4. AtGroup /\ Going /\ Order
  BY DEF Init, AtGroup, Going, Order, Ascending
<1>5. Pending
  BY DEF Init, Idle, Pending
<1> QED BY <1>1, <1>2, <1>3, <1>4, <1>5, TypeInit DEF IInv

LEMMA InvStep == IInv /\ [Next]_vars => IInv'
BY TypeStep, AtGroupStep, SoundStep, DroppedStep, MembersStep, GoingStep, OrderStep, PendingStep
   DEF IInv

\* What the theorems below rest on holds in every state, from any configuration and through any
\* updates of it.
THEOREM Invariance == Spec => []IInv
BY InvInit, InvStep, PTL DEF Spec

\* The daemon's variables have their types: no group, program or client is ever confused.
THEOREM TypeCorrect == Spec => []TypeOK
<1>1. IInv => TypeOK
  BY DEF IInv
<1> QED BY <1>1, Invariance, PTL

\* A daemon that leaves has no child in an active group, and an object that left its care has one
\* only if updateProcessGroup() dropped it or a stale turn of the loop started it afterwards.
THEOREM ChildrenAreAccounted == Spec => []ChildrenAccounted
<1>1. IInv => ChildrenAccounted
  <2> SUFFICES ASSUME IInv PROVE ChildrenAccounted
    OBVIOUS
  <2>1. ASSUME pc = "exited", NEW k \in ActivePrograms
        PROVE  procs[k].child = "none"
    <3>1. k \in Programs
      BY <2>1 DEF IInv, TypeOK, ActivePrograms, Members, GroupConfigType
    <3> QED BY <2>1, <3>1
            DEF IInv, Going, ProcsSound, Sound, Alive, Unstopped, ALL_STOPPED_STATES
  <2>2. ASSUME NEW k \in Programs
        PROVE  dropped[k].child = "none" \/ k \in replaced \/ k \in strays
    BY DEF IInv, DroppedStopped
  <2> QED BY <2>1, <2>2 DEF ChildrenAccounted
<1> QED BY <1>1, Invariance, PTL

\* The shutdown tells no process to stop while one of a group that starts later is unstopped.
THEOREM GroupsStopInOrder == Spec => StopsInOrder
<1>1. IInv /\ [Next]_vars =>
        \A k \in Programs : (pc = "top" /\ procs'[k] # procs[k]) =>
          \A j \in ActivePrograms : GroupOf[j] > GroupOf[k] => ~Unstopped(procs[j])
  <2> SUFFICES ASSUME IInv, [Next]_vars, pc = "top",
                      NEW k \in Programs, procs'[k] # procs[k],
                      NEW j \in ActivePrograms, GroupOf[j] > GroupOf[k]
               PROVE  ~Unstopped(procs[j])
    OBVIOUS
  <2>1. StopLastGroup
    BY ProcsChange
       DEF GroupReplaced, GroupRemoved, StopNext, Transition, Called, AddGroup, Reap, Reaping, Dies,
           StopProcess, TidyStop, StartProcess, Restarted, Calls, Call
  <2> DEFINE n == Len(stop_groups')
  <2>2. PICK g \in Groups : j \in Members(g)
    BY DEF ActivePrograms
  <2>3. g \in ActiveGroups /\ GroupOf[j] = g
    BY <2>2 DEF IInv, MembersOwn, ActiveGroups, Members, NoConfig
  <2>4. stop_groups' # <<>> /\ k \in Members(stop_groups'[n])
    BY <2>1 DEF StopLastGroup, IInv, TypeOK
  <2>5. stop_groups' \in Seq(Groups)
    BY TypeStep DEF IInv, TypeOK
  <2>6. n \in Nat \ {0} /\ DOMAIN stop_groups' = 1..n /\ stop_groups'[n] \in Groups
    BY <2>4, <2>5
  <2>7. GroupOf[k] = stop_groups'[n]
    BY <2>4, <2>6 DEF IInv, MembersOwn
  <2>8. ASSUME NEW i \in DOMAIN stop_groups', stop_groups'[i] = g
        PROVE  FALSE
    <3>1. Ascending(stop_groups')
      BY <2>1, <2>3, LaterStopped DEF IInv
    <3>2. i = n \/ i < n
      BY <2>6
    <3>3. i < n => stop_groups'[i] < stop_groups'[n]
      BY <2>6, <3>1 DEF Ascending
    <3>4. stop_groups'[n] \in Nat /\ g \in Nat
      BY <2>6, ServiceAssumption
    <3> QED BY <2>3, <2>7, <2>8, <3>2, <3>3, <3>4
  <2>9. unstopped_processes(g) = {}
    BY <2>1, <2>3, <2>8, LaterStopped DEF IInv
  <2> QED BY <2>2, <2>9 DEF unstopped_processes
<1> QED BY <1>1, Invariance, PTL DEF Spec, StopsInOrder

\* An "update" that comes to its end has made the groups it was for what the file said.
THEOREM UpdateHasConverged == Spec => UpdateConverges
<1>1. IInv /\ [Next]_vars => (Updated => \A g \in client.only : active[g] = configured[g])
  <2> SUFFICES ASSUME IInv, Updated, NEW g \in client.only PROVE active[g] = configured[g]
    OBVIOUS
  <2>1. g \in Groups /\ g # 0
    BY ServiceAssumption DEF IInv, TypeOK, ClientType
  <2> QED BY <2>1 DEF IInv, Pending, Updated, Tidying
<1> QED BY <1>1, Invariance, PTL DEF Spec, UpdateConverges
=============================================================================
