------------------------- MODULE EventPools_proofs -------------------------
(***************************************************************************)
(* The daemon and its listeners follow the protocol, whatever the children *)
(* do; and no pool loses or doubles an event, as long as no two pools have *)
(* listeners of the same priority.                                         *)
(*                                                                         *)
(* The argument for the protocol is about what the daemon will know once   *)
(* it has read the pipe (Heard): it is in step with the child, and while   *)
(* it is told READY there is nothing left to read.  The argument for the   *)
(* events follows one of them from its pool's buffer to a listener and     *)
(* back.                                                                   *)
(***************************************************************************)
EXTENDS EventPools, FiniteSetTheorems, WellFoundedInduction, TLAPS

-----------------------------------------------------------------------------
(* The invariants.                                                         *)

\* A process without a child has no event, and nothing in its pipes.
Down(l) == state[l] = "down" =>
    child[l] = "none" /\ event[l] = NoEvent /\ stdout[l] = <<>> /\ stdin[l] = NoEvent

\* A listener is BUSY while it has an event, and has a result to gather only then.
Busy(l) ==
    /\ state[l] # "down" => (listener_state[l] = "BUSY" <=> event[l] # NoEvent)
    /\ gathering[l] => state[l] # "down" /\ listener_state[l] = "BUSY"

\* What a child is about, and what the daemon knows when it has heard everything.
InStep(l) ==
    LET h == Heard(l)
    IN  /\ child[l] \in {"idle", "working", "answering"} => stdin[l] = NoEvent
        /\ child[l] = "idle" => h.at \in {"ACKNOWLEDGED", "UNKNOWN"}
        /\ child[l] = "waiting" =>
             \/ h.at \in {"READY", "UNKNOWN"} /\ stdin[l] = NoEvent
             \/ h.at = "BUSY" /\ ~h.gathering /\ stdin[l] = h.event /\ h.event # NoEvent
        /\ child[l] = "working" => h.at = "BUSY" /\ ~h.gathering
        /\ child[l] = "answering" => h.at = "BUSY" /\ h.gathering
        /\ child[l] = "rogue" => h.at = "UNKNOWN"

\* Nothing comes after READY, but what a rogue wrote.
AtReady(l) == listener_state[l] = "READY" /\ child[l] \in Alive =>
    /\ stdin[l] = NoEvent /\ child[l] \in {"waiting", "rogue"}
    /\ stdout[l] = IF child[l] = "waiting" THEN <<>> ELSE <<"JUNK">>

Follows(l) == Down(l) /\ Busy(l) /\ InStep(l) /\ AtReady(l)
PInv == TypeOK /\ \A l \in Listeners : Follows(l)

\* No two pools have listeners of the same priority.
PrioritiesApart == \A l, m \in Listeners : Priority[l] = Priority[m] => PoolOf[l] = PoolOf[m]

Distinct(b) == \A i, j \in 1..Len(b) : b[i] = b[j] => i = j
Member(b, e) == \E i \in 1..Len(b) : b[i] = e

In(p, e) == Member(event_buffer[p], e)
At(p, e) == \E l \in Listeners : PoolOf[l] = p /\ event[l] = e

\* No event is in the pool's buffer twice, or with two of its listeners.
Once(p) ==
    /\ Distinct(event_buffer[p])
    /\ \A l, m \in Listeners : PoolOf[l] = p /\ PoolOf[m] = p /\ event[l] = event[m]
                               /\ event[l] # NoEvent => l = m

\* Exactly the events that are pending are in its buffer or with a listener, and not in both.
Where(p) == \A e \in Events :
    /\ fate[p][e] = "pending" <=> In(p, e) \/ At(p, e)
    /\ ~(In(p, e) /\ At(p, e))

\* It knows of no event that has not been, and of none it did not subscribe to.
Known(p) == \A e \in Events :
    fate[p][e] # "none" => e <= sent /\ EventTypes[e] \in Subscribes[p]

Kept(p) == Once(p) /\ Where(p) /\ Known(p)
LInv == \A p \in Pools : Kept(p)
IInv == PInv /\ LInv

-----------------------------------------------------------------------------
(* What was heard: the recursive function of Heard() for any tokens.       *)

\* A set of naturals that is not empty has a least one.
LEMMA LeastNatural ==
    ASSUME NEW S \in SUBSET Nat, S # {}
    PROVE  \E n \in S : \A m \in S : n <= m
<1>1. PICK n \in S : \A m \in S : <<m, n>> \notin OpToRel(<, Nat)
  BY NatLessThanWellFounded, WFMin
<1>2. \A m \in S : ~(m < n)
  BY <1>1 DEF OpToRel
<1> QED BY <1>2

\* f is what was heard of the first n tokens of s, beginning with x.
Hearing(x, s, n, f) == f = [i \in 0..n |-> IF i = 0 THEN x ELSE Hear(f[i - 1], s[i])]

LEMMA HearingExists ==
    ASSUME NEW x, NEW s, NEW k \in Nat
    PROVE  \E f : Hearing(x, s, k, f)
<1> DEFINE Bad == {n \in Nat : \A f : ~Hearing(x, s, n, f)}
<1>1. SUFFICES ASSUME k \in Bad PROVE FALSE
  OBVIOUS
<1>2. PICK n \in Bad : \A m \in Bad : n <= m
  BY <1>1, LeastNatural
<1>3. n \in Nat /\ \A f : ~Hearing(x, s, n, f)
  BY <1>2
<1>4. CASE n = 0
  <2> DEFINE f == [i \in 0..0 |-> x]
  <2>1. f = [i \in 0..0 |-> IF i = 0 THEN x ELSE Hear(f[i - 1], s[i])]
    OBVIOUS
  <2> QED BY <1>3, <1>4, <2>1 DEF Hearing
<1>5. CASE n # 0
  <2>1. n - 1 \in Nat /\ n - 1 \notin Bad
    BY <1>2, <1>3, <1>5
  <2>2. PICK f : Hearing(x, s, n - 1, f)
    BY <2>1
  <2> DEFINE g == [i \in 0..n |-> IF i = n THEN Hear(f[n - 1], s[n]) ELSE f[i]]
  <2>3. \A i \in 0..n - 1 : f[i] = IF i = 0 THEN x ELSE Hear(f[i - 1], s[i])
    BY <2>2 DEF Hearing
  <2>4. \A i \in 0..n : g[i] = IF i = 0 THEN x ELSE Hear(g[i - 1], s[i])
    <3> SUFFICES ASSUME NEW i \in 0..n PROVE g[i] = IF i = 0 THEN x ELSE Hear(g[i - 1], s[i])
      OBVIOUS
    <3>1. CASE i = n
      <4>1. g[i] = Hear(f[n - 1], s[n]) /\ g[i - 1] = f[n - 1]
        BY <1>3, <1>5, <3>1
      <4> QED BY <1>5, <3>1, <4>1
    <3>2. CASE i = 0
      <4>1. g[i] = f[i] /\ f[i] = x
        BY <1>3, <1>5, <2>3, <3>2
      <4> QED BY <3>2, <4>1
    <3>3. CASE i # n /\ i # 0
      <4>1. i \in 0..n - 1 /\ i - 1 \in 0..n /\ i - 1 # n /\ i # 0
        BY <1>3, <3>3
      <4>2. g[i] = f[i] /\ g[i - 1] = f[i - 1]
        BY <4>1
      <4> QED BY <2>3, <4>1, <4>2
    <3> QED BY <3>1, <3>2, <3>3
  <2>5. g = [i \in 0..n |-> g[i]]
    OBVIOUS
  <2> HIDE DEF g
  <2>6. g = [i \in 0..n |-> IF i = 0 THEN x ELSE Hear(g[i - 1], s[i])]
    BY <2>4, <2>5
  <2> QED BY <1>3, <2>6 DEF Hearing
<1> QED BY <1>4, <1>5

LEMMA HearingIs ==
    ASSUME NEW x, NEW s, NEW k \in Nat, NEW f, Hearing(x, s, k, f)
    PROVE  f[0] = x /\ \A i \in 1..k : f[i] = Hear(f[i - 1], s[i])
<1>1. \A i \in 0..k : f[i] = IF i = 0 THEN x ELSE Hear(f[i - 1], s[i])
  BY DEF Hearing
<1> QED BY <1>1

\* The same tokens are heard the same way, whatever comes after them.
Agree(s, t, k) == \A i \in 1..k : s[i] = t[i]

LEMMA HearingAgrees ==
    ASSUME NEW x, NEW s, NEW t, NEW k \in Nat, NEW m \in Nat, k <= m, Agree(s, t, k),
           NEW f, Hearing(x, s, k, f), NEW g, Hearing(x, t, m, g)
    PROVE  f[k] = g[k]
<1> DEFINE Bad == {i \in 0..k : f[i] # g[i]}
<1> SUFFICES ASSUME k \in Bad PROVE FALSE
  OBVIOUS
<1>0. /\ f[0] = x /\ \A i \in 1..k : f[i] = Hear(f[i - 1], s[i])
      /\ g[0] = x /\ \A i \in 1..m : g[i] = Hear(g[i - 1], t[i])
  <2>1. f[0] = x /\ \A i \in 1..k : f[i] = Hear(f[i - 1], s[i])
    BY HearingIs
  <2>2. g[0] = x /\ \A i \in 1..m : g[i] = Hear(g[i - 1], t[i])
    BY HearingIs
  <2> QED BY <2>1, <2>2
<1>1. PICK n \in Bad : \A i \in Bad : n <= i
  <2>1. Bad \in SUBSET Nat
    OBVIOUS
  <2> QED BY <2>1, LeastNatural
<1>2. n # 0
  BY <1>0, <1>1
<1>3. n \in 1..k /\ n \in 1..m /\ n - 1 \in 0..k /\ n - 1 \notin Bad
  BY <1>1, <1>2
<1>4. f[n] = Hear(f[n - 1], s[n]) /\ g[n] = Hear(g[n - 1], t[n])
  BY <1>0, <1>3
<1>5. f[n - 1] = g[n - 1] /\ s[n] = t[n]
  BY <1>3 DEF Agree
<1> QED BY <1>1, <1>4, <1>5

LEMMA HeardIs ==
    ASSUME NEW l, Len(stdout[l]) \in Nat
    PROVE  \E f : Hearing(Hears(l), stdout[l], Len(stdout[l]), f) /\ Heard(l) = f[Len(stdout[l])]
<1> DEFINE f == CHOOSE h : Hearing(Hears(l), stdout[l], Len(stdout[l]), h)
<1>1. Hearing(Hears(l), stdout[l], Len(stdout[l]), f)
  BY HearingExists
<1>2. Heard(l) = f[Len(stdout[l])]
  BY DEF Heard, Hearing
<1> HIDE DEF f
<1> QED BY <1>1, <1>2

LEMMA HeardWillBe ==
    ASSUME NEW l, Len(stdout'[l]) \in Nat
    PROVE  \E f : /\ Hearing(Hears(l)', stdout'[l], Len(stdout'[l]), f)
                  /\ Heard(l)' = f[Len(stdout'[l])]
<1> DEFINE f == CHOOSE h : Hearing(Hears(l)', stdout'[l], Len(stdout'[l]), h)
<1>1. Hearing(Hears(l)', stdout'[l], Len(stdout'[l]), f)
  BY HearingExists
<1>2. Heard(l)' = f[Len(stdout'[l])]
  BY DEF Heard, Hearing
<1> HIDE DEF f
<1> QED BY <1>1, <1>2

\* Nothing was written.
LEMMA HeardNothing == ASSUME NEW l, stdout[l] = <<>> PROVE Heard(l) = Hears(l)
<1>1. PICK f : Hearing(Hears(l), stdout[l], 0, f) /\ Heard(l) = f[0]
  BY HeardIs
<1> QED BY <1>1, HearingIs

LEMMA WillHearNothing == ASSUME NEW l, stdout'[l] = <<>> PROVE Heard(l)' = Hears(l)'
<1>1. PICK f : Hearing(Hears(l)', stdout'[l], 0, f) /\ Heard(l)' = f[0]
  BY HeardWillBe
<1> QED BY <1>1, HearingIs

\* One token was.
LEMMA WillHearOne ==
    ASSUME NEW l, NEW t, stdout'[l] = <<t>> PROVE Heard(l)' = Hear(Hears(l)', t)
<1>0. Len(stdout'[l]) = 1
  OBVIOUS
<1>1. PICK f : Hearing(Hears(l)', stdout'[l], 1, f) /\ Heard(l)' = f[1]
  BY <1>0, HeardWillBe
<1>2. f[0] = Hears(l)' /\ f[1] = Hear(f[0], stdout'[l][1])
  BY <1>1, HearingIs
<1> QED BY <1>1, <1>2

\* One more is.
LEMMA WillHearMore ==
    ASSUME NEW l, NEW S, stdout[l] \in Seq(S), NEW t \in S, stdout'[l] = Append(stdout[l], t),
           Hears(l)' = Hears(l)
    PROVE  Heard(l)' = Hear(Heard(l), t)
<1>1. PICK x, s, s1 : x = Hears(l) /\ s = stdout[l] /\ s1 = stdout'[l]
  OBVIOUS
<1>2. PICK n \in Nat, m \in Nat : n = Len(s) /\ m = n + 1
  BY <1>1
<1>3. n <= m /\ Len(s1) = m /\ s1[m] = t /\ \A i \in 1..n : s[i] = s1[i]
  BY <1>1, <1>2
<1>4. PICK f : Hearing(x, s, n, f) /\ Heard(l) = f[n]
  BY <1>1, <1>2, HeardIs
<1>5. PICK g : Hearing(x, s1, m, g) /\ Heard(l)' = g[m]
  BY <1>1, <1>3, HeardWillBe
<1>6. n <= m /\ Agree(s, s1, n) /\ Hearing(x, s, n, f) /\ Hearing(x, s1, m, g)
  BY <1>3, <1>4, <1>5 DEF Agree
<1>7. f[n] = g[n]
  BY <1>6, HearingAgrees
<1>8. g[m] = Hear(g[n], s1[m])
  <2>1. \A i \in 1..m : g[i] = Hear(g[i - 1], s1[i])
    BY <1>6, HearingIs
  <2>2. m \in 1..m /\ m - 1 = n
    BY <1>2
  <2> QED BY <2>1, <2>2
<1> QED BY <1>3, <1>4, <1>5, <1>7, <1>8

LEMMA HearsSame ==
    ASSUME NEW l, stdout'[l] = stdout[l], listener_state'[l] = listener_state[l],
           event'[l] = event[l], gathering'[l] = gathering[l], Len(stdout[l]) \in Nat
    PROVE  Heard(l)' = Heard(l)
BY DEF Heard, Hears

-----------------------------------------------------------------------------
(* What may have been heard of a listener with the event e.                *)

HearType == [at: EventListenerStates, event: Events \cup {NoEvent}, gathering: BOOLEAN,
             rejected: Events \cup {NoEvent}, processed: Events \cup {NoEvent}]

\* The listener has the event, or it was rejected or processed, but not two of these.
Sound(h, e) ==
    /\ h \in HearType
    /\ h.at = "BUSY" <=> h.event # NoEvent
    /\ h.gathering => h.at = "BUSY"
    /\ \/ h.event = e /\ h.rejected = NoEvent /\ h.processed = NoEvent
       \/ h.event = NoEvent /\ h.rejected = e /\ h.processed = NoEvent
       \/ h.event = NoEvent /\ h.rejected = NoEvent /\ h.processed = e

LEMMA HearSound ==
    ASSUME NEW h, NEW e, NEW token, Sound(h, e)
    PROVE  Sound(Hear(h, token), e)
<1>1. h.at \in {"ACKNOWLEDGED", "READY", "BUSY", "UNKNOWN"} /\ h.gathering \in BOOLEAN
  BY DEF Sound, HearType, EventListenerStates
<1>2. CASE h.at = "UNKNOWN"
  BY <1>2 DEF Hear
<1>3. CASE h.at = "ACKNOWLEDGED" /\ token = "READY"
  <2>1. Hear(h, token) = [h EXCEPT !.at = "READY", !.event = NoEvent]
    BY <1>3 DEF Hear
  <2> QED BY <1>3, <2>1 DEF Sound, HearType, EventListenerStates
<1>4. CASE (h.at = "ACKNOWLEDGED" /\ token # "READY") \/ h.at = "READY"
  <2>1. Hear(h, token) = Unknown(h)
    BY <1>4 DEF Hear
  <2> QED BY <1>4, <2>1 DEF Sound, HearType, EventListenerStates, Unknown
<1>5. CASE h.at = "BUSY" /\ h.gathering
  <2>1. Hear(h, token) = Result(h, token)
    BY <1>5 DEF Hear
  <2> DEFINE done == [h EXCEPT !.gathering = FALSE, !.at = "ACKNOWLEDGED"]
  <2>2. /\ done \in HearType /\ done.event = h.event /\ done.rejected = NoEvent
        /\ done.processed = NoEvent /\ done.at = "ACKNOWLEDGED" /\ done.gathering = FALSE
        /\ h.event = e
    BY <1>5 DEF Sound, HearType, EventListenerStates
  <2>3. CASE token = "OK"
    <3>1. Result(h, token) = [done EXCEPT !.processed = h.event, !.event = NoEvent]
      BY <2>3 DEF Result
    <3> HIDE DEF done
    <3>2. PICK r : r = [done EXCEPT !.processed = h.event, !.event = NoEvent]
      OBVIOUS
    <3>3. /\ r \in HearType /\ r.event = NoEvent /\ r.rejected = NoEvent /\ r.processed = e
          /\ r.at = "ACKNOWLEDGED" /\ r.gathering = FALSE
      BY <2>2, <3>2 DEF HearType
    <3> QED BY <2>1, <3>1, <3>2, <3>3 DEF Sound
  <2>4. CASE token = "FAIL"
    <3>1. Result(h, token) = [done EXCEPT !.rejected = done.event, !.event = NoEvent]
      BY <2>4 DEF Result, Rejected
    <3> HIDE DEF done
    <3>2. PICK r : r = [done EXCEPT !.rejected = done.event, !.event = NoEvent]
      OBVIOUS
    <3>3. /\ r \in HearType /\ r.event = NoEvent /\ r.rejected = e /\ r.processed = NoEvent
          /\ r.at = "ACKNOWLEDGED" /\ r.gathering = FALSE
      BY <2>2, <3>2 DEF HearType
    <3> QED BY <2>1, <3>1, <3>2, <3>3 DEF Sound
  <2>5. CASE token # "OK" /\ token # "FAIL"
    <3>1. Result(h, token) = Unknown(Rejected(done))
      BY <2>5 DEF Result
    <3> HIDE DEF done
    <3>2. /\ Rejected(done) \in HearType /\ Rejected(done).event = NoEvent
          /\ Rejected(done).rejected = e /\ Rejected(done).processed = NoEvent
          /\ Rejected(done).gathering = FALSE
      BY <2>2 DEF Rejected, HearType
    <3>3. PICK r : r = Rejected(done)
      OBVIOUS
    <3>4. PICK w : w = [r EXCEPT !.at = "UNKNOWN", !.event = NoEvent]
      OBVIOUS
    <3>5. /\ w \in HearType /\ w.event = NoEvent /\ w.rejected = e /\ w.processed = NoEvent
          /\ w.at = "UNKNOWN" /\ w.gathering = FALSE
      BY <3>2, <3>3, <3>4 DEF HearType, EventListenerStates
    <3>6. Hear(h, token) = w
      BY <2>1, <3>1, <3>3, <3>4 DEF Unknown
    <3> QED BY <3>5, <3>6 DEF Sound
  <2> QED BY <2>3, <2>4, <2>5
<1>6. CASE h.at = "BUSY" /\ ~h.gathering /\ token = "RESULT"
  <2>1. Hear(h, token) = [h EXCEPT !.gathering = TRUE]
    BY <1>6 DEF Hear
  <2> QED BY <1>6, <2>1 DEF Sound, HearType
<1>7. CASE h.at = "BUSY" /\ ~h.gathering /\ token # "RESULT"
  <2>1. Hear(h, token) = Unknown(Rejected(h))
    BY <1>7 DEF Hear
  <2>2. /\ Rejected(h) \in HearType /\ Rejected(h).event = NoEvent
        /\ Rejected(h).rejected = e /\ Rejected(h).processed = NoEvent
        /\ ~Rejected(h).gathering
    BY <1>7 DEF Sound, Rejected, HearType
  <2> QED BY <2>1, <2>2 DEF Sound, HearType, Unknown, EventListenerStates
<1> QED BY <1>1, <1>2, <1>3, <1>4, <1>5, <1>6, <1>7

\* However much was heard.
LEMMA HeardSound ==
    ASSUME NEW l, Len(stdout[l]) \in Nat, NEW e, Sound(Hears(l), e)
    PROVE  Sound(Heard(l), e)
<1>0. PICK n \in Nat : n = Len(stdout[l])
  OBVIOUS
<1>01. PICK x, s : x = Hears(l) /\ s = stdout[l]
  OBVIOUS
<1>1. PICK f : Hearing(x, s, n, f) /\ Heard(l) = f[n]
  BY <1>0, <1>01, HeardIs
<1>2. f[0] = x /\ \A i \in 1..n : f[i] = Hear(f[i - 1], s[i])
  BY <1>1, HearingIs
<1> DEFINE Bad == {i \in 0..n : ~Sound(f[i], e)}
<1>3. SUFFICES ASSUME Bad # {} PROVE FALSE
  BY <1>1
<1>4. PICK k \in Bad : \A i \in Bad : k <= i
  <2>1. Bad \in SUBSET Nat
    OBVIOUS
  <2> QED BY <1>3, <2>1, LeastNatural
<1>5. k # 0
  BY <1>01, <1>2, <1>4
<1>6. k \in 1..n /\ k - 1 \in 0..n /\ k - 1 \notin Bad
  BY <1>4, <1>5
<1>7. f[k] = Hear(f[k - 1], s[k]) /\ Sound(f[k - 1], e)
  BY <1>2, <1>6
<1> QED BY <1>4, <1>7, HearSound

-----------------------------------------------------------------------------
(* The listeners and the protocol.                                         *)

LEMMA HeardFrom ==
    ASSUME TypeOK, NEW l \in Listeners, Busy(l), state[l] # "down"
    PROVE  Sound(Heard(l), event[l]) /\ Heard(l) \in HearType
<1>1. /\ Len(stdout[l]) \in Nat /\ listener_state[l] \in EventListenerStates
      /\ event[l] \in Events \cup {NoEvent} /\ gathering[l] \in BOOLEAN
  BY DEF TypeOK
<1>2. Hears(l) \in HearType
  BY <1>1 DEF Hears, HearType
<1>3. Sound(Hears(l), event[l])
  BY <1>2 DEF Sound, Hears, Busy
<1>4. Sound(Heard(l), event[l])
  BY <1>1, <1>3, HeardSound
<1> QED BY <1>4 DEF Sound

LEMMA FollowsSame ==
    ASSUME TypeOK, NEW l \in Listeners, Follows(l),
           state'[l] = state[l], listener_state'[l] = listener_state[l], event'[l] = event[l],
           gathering'[l] = gathering[l], stdout'[l] = stdout[l], stdin'[l] = stdin[l],
           child'[l] = child[l]
    PROVE  Follows(l)'
<1>0. Len(stdout[l]) \in Nat
  BY DEF TypeOK
<1>1. Heard(l)' = Heard(l)
  BY <1>0, HearsSame
<1> QED BY <1>1 DEF Follows, Down, Busy, InStep, AtReady

LEMMA ReadFollows ==
    ASSUME TypeOK, NEW l \in Listeners, Follows(l), Read(l) PROVE Follows(l)'
<1>1. /\ stdout[l] # <<>> /\ stdout' = [stdout EXCEPT ![l] = <<>>]
      /\ listener_state' = [listener_state EXCEPT ![l] = Heard(l).at]
      /\ event' = [event EXCEPT ![l] = Heard(l).event]
      /\ gathering' = [gathering EXCEPT ![l] = Heard(l).gathering]
      /\ UNCHANGED <<state, stdin, child>>
  BY DEF Read, Emptied
<1>2. /\ stdout'[l] = <<>> /\ listener_state'[l] = Heard(l).at /\ event'[l] = Heard(l).event
      /\ gathering'[l] = Heard(l).gathering
  BY <1>1 DEF TypeOK
<1>3. state[l] # "down"
  BY <1>1 DEF Follows, Down
<1>4. Sound(Heard(l), event[l])
  BY <1>3, HeardFrom DEF Follows
<1>5. Heard(l)' = Hears(l)'
  BY <1>2, WillHearNothing
<1>6. /\ Heard(l)'.at = Heard(l).at /\ Heard(l)'.event = Heard(l).event
      /\ Heard(l)'.gathering = Heard(l).gathering
  BY <1>2, <1>5 DEF Hears
<1>7. InStep(l)'
  BY <1>1, <1>6 DEF Follows, InStep
<1>8. AtReady(l)'
  BY <1>1, <1>2 DEF Follows, InStep, AtReady, Alive, ChildStates
<1>9. Busy(l)' /\ Down(l)'
  BY <1>1, <1>2, <1>3, <1>4 DEF Busy, Down, Sound
<1> QED BY <1>7, <1>8, <1>9 DEF Follows

LEMMA ReapFollows ==
    ASSUME TypeOK, NEW l \in Listeners, Follows(l), Reap(l) PROVE Follows(l)'
<1>1. /\ child'[l] = "none" /\ stdout'[l] = <<>> /\ state'[l] = "down" /\ stdin'[l] = NoEvent
      /\ event'[l] = Ends(Heard(l)).event /\ gathering'[l] = FALSE /\ child[l] = "dead"
  BY DEF Reap, Goes, Emptied, TypeOK
<1>2. state[l] # "down"
  BY <1>1 DEF Follows, Down
<1>3. Heard(l) \in HearType
  BY <1>2, HeardFrom DEF Follows
<1>4. Ends(Heard(l)).event = NoEvent
  BY <1>3 DEF Ends, Rejected, HearType
<1> QED BY <1>1, <1>4 DEF Follows, Down, Busy, InStep, AtReady, Alive

\* A child writes.
LEMMA WriteFollows ==
    ASSUME TypeOK, NEW l \in Listeners, Follows(l), NEW token \in Tokens, NEW from \in Alive,
           NEW to \in Alive, Writes(l, from, token, to),
           \/ from = "idle" /\ token = "READY" /\ to = "waiting"
           \/ from = "working" /\ token = "RESULT" /\ to = "answering"
           \/ from = "answering" /\ token \in Results /\ to = "idle"
           \/ token = "JUNK" /\ to = "rogue" /\ from # "rogue"
    PROVE  Follows(l)'
<1>1. /\ child[l] = from /\ child'[l] = to /\ stdout'[l] = Append(stdout[l], token)
      /\ stdout[l] \in Seq(Tokens)
      /\ UNCHANGED <<state, listener_state, event, gathering, stdin>>
  BY DEF Writes, Goes, TypeOK, process
<1>2. state[l] # "down"
  BY <1>1 DEF Follows, Down, Alive
<1>3. Sound(Heard(l), event[l]) /\ Heard(l) \in HearType
  BY <1>2, HeardFrom DEF Follows
<1>4. Heard(l)' = Hear(Heard(l), token)
  <2>1. Hears(l)' = Hears(l)
    BY <1>1 DEF Hears
  <2> QED BY <1>1, <2>1, WillHearMore
<1>5. PICK h \in HearType : h = Heard(l) /\ Sound(h, event[l])
  BY <1>3
<1>6. h.at \in {"ACKNOWLEDGED", "READY", "BUSY", "UNKNOWN"} /\ h.gathering \in BOOLEAN
  BY DEF HearType, EventListenerStates
<1>7. CASE from = "idle" /\ token = "READY" /\ to = "waiting"
  <2>1. h.at \in {"ACKNOWLEDGED", "UNKNOWN"} /\ stdin[l] = NoEvent
    BY <1>1, <1>5, <1>7 DEF Follows, InStep
  <2>2. Hear(h, token).at \in {"READY", "UNKNOWN"}
    BY <1>7, <2>1 DEF Hear, HearType
  <2>3. InStep(l)'
    BY <1>1, <1>4, <1>5, <1>7, <2>1, <2>2 DEF InStep
  <2>4. AtReady(l)'
    BY <1>1, <1>7 DEF Follows, AtReady, Alive
  <2> QED BY <1>1, <1>2, <2>3, <2>4 DEF Follows, Down, Busy
<1>8. CASE from = "working" /\ token = "RESULT" /\ to = "answering"
  <2>1. h.at = "BUSY" /\ ~h.gathering /\ stdin[l] = NoEvent
    BY <1>1, <1>5, <1>8 DEF Follows, InStep
  <2>2. Hear(h, token).at = "BUSY" /\ Hear(h, token).gathering
    BY <1>8, <2>1 DEF Hear, HearType
  <2>3. InStep(l)'
    BY <1>1, <1>4, <1>5, <1>8, <2>1, <2>2 DEF InStep
  <2>4. AtReady(l)'
    BY <1>1, <1>8 DEF Follows, AtReady, Alive
  <2> QED BY <1>1, <1>2, <2>3, <2>4 DEF Follows, Down, Busy
<1>9. CASE from = "answering" /\ token \in Results /\ to = "idle"
  <2>1. h.at = "BUSY" /\ h.gathering /\ stdin[l] = NoEvent
    BY <1>1, <1>5, <1>9 DEF Follows, InStep
  <2>2. Hear(h, token) = Result(h, token)
    BY <2>1 DEF Hear
  <2>3. Result(h, token).at \in {"ACKNOWLEDGED", "UNKNOWN"}
    BY DEF Result, Rejected, Unknown, HearType
  <2>4. InStep(l)'
    BY <1>1, <1>4, <1>5, <1>9, <2>1, <2>2, <2>3 DEF InStep
  <2>5. AtReady(l)'
    BY <1>1, <1>9 DEF Follows, AtReady, Alive
  <2> QED BY <1>1, <1>2, <2>4, <2>5 DEF Follows, Down, Busy
<1>10. CASE token = "JUNK" /\ to = "rogue" /\ from # "rogue"
  <2>1. Hear(h, token).at = "UNKNOWN"
    <3>1. CASE h.at = "BUSY" /\ h.gathering
      <4>1. Hear(h, token) = Result(h, token)
        BY <3>1 DEF Hear
      <4>2. Result(h, token).at = "UNKNOWN"
        BY <1>10 DEF Result, Rejected, Unknown, HearType
      <4> QED BY <4>1, <4>2
    <3>2. CASE ~(h.at = "BUSY" /\ h.gathering)
      BY <1>6, <1>10, <3>2 DEF Hear, Rejected, Unknown, HearType
    <3> QED BY <3>1, <3>2
  <2>2. InStep(l)'
    BY <1>1, <1>4, <1>5, <1>10, <2>1 DEF InStep
  <2>3. stdout[l] = <<>> => stdout'[l] = <<"JUNK">>
    BY <1>1, <1>10
  <2>4. listener_state[l] = "READY" => child[l] = "waiting" /\ stdout[l] = <<>> /\ stdin[l] = NoEvent
    BY <1>1, <1>10 DEF Follows, AtReady
  <2>5. AtReady(l)'
    BY <1>1, <1>10, <2>3, <2>4 DEF AtReady
  <2> QED BY <1>1, <1>2, <2>2, <2>5 DEF Follows, Down, Busy
<1> QED BY <1>7, <1>8, <1>9, <1>10

LEMMA ReadsEventFollows ==
    ASSUME TypeOK, NEW l \in Listeners, Follows(l), ReadsEvent(l) PROVE Follows(l)'
<1>1. /\ child[l] = "waiting" /\ child'[l] = "working" /\ stdin[l] # NoEvent /\ stdin'[l] = NoEvent
      /\ UNCHANGED <<state, listener_state, event, gathering, stdout>>
  BY DEF ReadsEvent, Goes, TypeOK, process
<1>2. Heard(l)' = Heard(l)
  BY <1>1, HearsSame DEF TypeOK
<1>3. Heard(l).at = "BUSY" /\ ~Heard(l).gathering
  BY <1>1 DEF Follows, InStep
<1>4. InStep(l)'
  BY <1>1, <1>2, <1>3 DEF InStep
<1>5. AtReady(l)'
  BY <1>1 DEF Follows, AtReady, Alive, ChildStates
<1> QED BY <1>1, <1>4, <1>5 DEF Follows, Down, Busy

LEMMA DiesFollows ==
    ASSUME TypeOK, NEW l \in Listeners, Follows(l), Dies(l) PROVE Follows(l)'
<1>1. /\ child[l] \in Alive /\ child'[l] = "dead"
      /\ UNCHANGED <<state, listener_state, event, gathering, stdout, stdin>>
  BY DEF Dies, Goes, TypeOK, process
<1> QED BY <1>1 DEF Follows, InStep, AtReady, Down, Busy, Alive

LEMMA StopFollows ==
    ASSUME TypeOK, NEW l \in Listeners, Follows(l), Stop(l) PROVE Follows(l)'
<1>1. /\ state[l] # "down" /\ state'[l] # "down"
      /\ UNCHANGED <<child, listener_state, event, gathering, stdout, stdin>>
  BY DEF Stop, TypeOK, pipes
<1>2. Heard(l)' = Heard(l)
  BY <1>1, HearsSame DEF TypeOK
<1> QED BY <1>1, <1>2 DEF Follows, InStep, AtReady, Down, Busy

\* What Transition(p) does to a listener: a new child, an event from the pool's buffer, or nothing.
Started(l) ==
    /\ state[l] = "down" /\ state'[l] = "STARTING" /\ listener_state'[l] = "ACKNOWLEDGED"
    /\ event'[l] = NoEvent /\ gathering'[l] = FALSE /\ child'[l] = "idle"
    /\ stdin'[l] = stdin[l] /\ stdout'[l] = stdout[l]
Served(l, e) ==
    /\ state[l] # "down" /\ state'[l] = "RUNNING" /\ listener_state[l] = "READY" /\ child[l] \in Alive
    /\ listener_state'[l] = "BUSY" /\ event'[l] = e /\ stdin'[l] = e
    /\ gathering'[l] = gathering[l] /\ child'[l] = child[l] /\ stdout'[l] = stdout[l]
Spared(l) ==
    /\ state'[l] \in ProcessStates /\ (state'[l] = "down" <=> state[l] = "down")
    /\ listener_state'[l] = listener_state[l] /\ event'[l] = event[l]
    /\ gathering'[l] = gathering[l] /\ child'[l] = child[l]
    /\ stdin'[l] = stdin[l] /\ stdout'[l] = stdout[l]

\* The first n events of p's buffer go to the processes in served, by given.
Dispatched(p, n, served, given) ==
    /\ n \in 0..Len(event_buffer[p]) /\ served \subseteq Listeners
    /\ event_buffer' = [event_buffer EXCEPT ![p] =
                          SubSeq(event_buffer[p], n + 1, Len(event_buffer[p]))]
    /\ \A l \in served : given[l] \in 1..n /\ PoolOf[l] = p
                         /\ Served(l, event_buffer[p][given[l]])
    /\ \A l \in Listeners \ served : Started(l) \/ Spared(l)
    /\ \A i \in 1..n : \E l \in served : given[l] = i
    /\ \A l, m \in served : given[l] = given[m] => l = m
    /\ UNCHANGED <<stdout, sent, fate>>
    /\ DOMAIN state' = Listeners /\ DOMAIN listener_state' = Listeners /\ DOMAIN event' = Listeners
    /\ DOMAIN gathering' = Listeners /\ DOMAIN child' = Listeners /\ DOMAIN stdin' = Listeners
    /\ state' \in [Listeners -> ProcessStates]

LEMMA One ==
    ASSUME NEW S, IsFiniteSet(S), Cardinality(S) = 1
    PROVE  \E x \in S : \A y \in S : y = x
<1>1. \E x : S = {x}
  BY FS_Singleton
<1> QED BY <1>1

LEMMA TransitionIs ==
    ASSUME TypeOK, NEW p \in Pools, Transition(p)
    PROVE  \E n, served, given : Dispatched(p, n, served, given)
<1> DEFINE b == event_buffer[p]
           capable(next) == Capable(p, next)
           n(next) == IF Len(b) < Cardinality(capable(next)) THEN Len(b)
                      ELSE Cardinality(capable(next))
           new(next) == {l \in ListenersOf(p) : state[l] = "down" /\ next[l] = "STARTING"}
           servedBy(next, given) == {l \in capable(next) : given[l] # 0}
<1>1. PICK next \in [Listeners -> ProcessStates] :
        /\ \A l \in Listeners : next[l] \in IF l \in ListenersOf(p) THEN Turns(l) ELSE {state[l]}
        /\ state' = next
        /\ event_buffer' = [event_buffer EXCEPT ![p] = SubSeq(b, n(next) + 1, Len(b))]
        /\ \E given \in Assignments(capable(next), n(next)) :
             /\ listener_state' = [l \in Listeners |->
                   IF l \in new(next) THEN "ACKNOWLEDGED"
                   ELSE IF l \in servedBy(next, given) THEN "BUSY" ELSE listener_state[l]]
             /\ event' = [l \in Listeners |->
                   IF l \in new(next) THEN NoEvent
                   ELSE IF l \in servedBy(next, given) THEN b[given[l]] ELSE event[l]]
             /\ stdin' = [l \in Listeners |->
                   IF l \in servedBy(next, given) THEN b[given[l]] ELSE stdin[l]]
        /\ gathering' = [l \in Listeners |-> l \notin new(next) /\ gathering[l]]
        /\ child' = [l \in Listeners |-> IF l \in new(next) THEN "idle" ELSE child[l]]
  BY DEF Transition
<1>2. UNCHANGED <<stdout, sent, fate>>
  BY DEF Transition
<1>3. PICK given \in Assignments(capable(next), n(next)) :
        /\ listener_state' = [l \in Listeners |->
              IF l \in new(next) THEN "ACKNOWLEDGED"
              ELSE IF l \in servedBy(next, given) THEN "BUSY" ELSE listener_state[l]]
        /\ event' = [l \in Listeners |->
              IF l \in new(next) THEN NoEvent
              ELSE IF l \in servedBy(next, given) THEN b[given[l]] ELSE event[l]]
        /\ stdin' = [l \in Listeners |->
              IF l \in servedBy(next, given) THEN b[given[l]] ELSE stdin[l]]
  BY <1>1
<1> DEFINE Cap == capable(next)
           N == n(next)
           fresh == new(next)
           served == servedBy(next, given)
<1>4. Cap \subseteq Listeners /\ IsFiniteSet(Cap) /\ Cardinality(Cap) \in Nat
  <2>1. Cap \subseteq Listeners
    BY DEF Capable, ListenersOf
  <2>2. IsFiniteSet(Cap)
    BY <2>1, EventPoolsAssumption, FS_Subset
  <2> QED BY <2>1, <2>2, FS_CardinalityType
<1>5. N \in 0..Len(b) /\ N \in Nat
  <2>1. Len(b) \in Nat
    BY DEF TypeOK
  <2> HIDE DEF capable
  <2> QED BY <1>4, <2>1
<1>6. \A l \in Cap : PoolOf[l] = p /\ next[l] = "RUNNING" /\ listener_state[l] = "READY"
                     /\ child[l] \in Alive
  BY DEF Capable, ListenersOf
<1>7. \A l \in fresh : l \in Listeners /\ state[l] = "down" /\ next[l] = "STARTING"
  BY DEF ListenersOf
<1>8. \A l \in Listeners : /\ next[l] \in ProcessStates
                           /\ state[l] = "down" => next[l] \in {"down", "STARTING"}
                           /\ next[l] = "down" => state[l] = "down"
  <2> SUFFICES ASSUME NEW l \in Listeners
               PROVE  /\ next[l] \in ProcessStates
                      /\ state[l] = "down" => next[l] \in {"down", "STARTING"}
                      /\ next[l] = "down" => state[l] = "down"
    OBVIOUS
  <2>1. next[l] \in Turns(l) \/ next[l] = state[l]
    BY <1>1
  <2> QED BY <1>1, <2>1 DEF Turns
<1>9. given \in [Cap -> 0..N] /\ \A i \in 1..N : Cardinality({l \in Cap : given[l] = i}) = 1
  BY <1>3 DEF Assignments
<1>10. \A l \in fresh : l \in ListenersOf(p)
  OBVIOUS
<1>11. \A l \in ListenersOf(p) : state[l] = "down" /\ next[l] = "STARTING" => l \in fresh
  OBVIOUS
<1>12. \A l \in Listeners \ ListenersOf(p) : next[l] = state[l]
  BY <1>1
<1>21. \A l \in Listeners : gathering'[l] = (l \notin fresh /\ gathering[l])
  BY <1>1
<1> HIDE DEF b, capable, n, new
<1>13. served \subseteq Listeners /\ \A l \in served : l \in Cap /\ given[l] # 0
  BY <1>4
<1>14. \A i \in 1..N : \E l \in served : given[l] = i
  <2> SUFFICES ASSUME NEW i \in 1..N PROVE \E l \in served : given[l] = i
    OBVIOUS
  <2> DEFINE S == {l \in Cap : given[l] = i}
  <2>1. IsFiniteSet(S) /\ Cardinality(S) = 1
    BY <1>4, <1>9, FS_Subset
  <2>2. \E x \in S : \A y \in S : y = x
    BY <2>1, One
  <2> QED BY <1>5, <2>2
<1>15. \A l, m \in served : given[l] = given[m] => l = m
  <2> SUFFICES ASSUME NEW l \in served, NEW m \in served, given[l] = given[m] PROVE l = m
    OBVIOUS
  <2> DEFINE S == {k \in Cap : given[k] = given[l]}
  <2>1. given[l] \in 1..N
    BY <1>5, <1>9, <1>13
  <2>2. IsFiniteSet(S) /\ Cardinality(S) = 1
    BY <1>4, <1>9, <2>1, FS_Subset
  <2>3. \E x \in S : \A y \in S : y = x
    BY <2>2, One
  <2> QED BY <1>13, <2>3
<1>16. \A l \in served : given[l] \in 1..N /\ PoolOf[l] = p /\ Served(l, b[given[l]])
  <2> SUFFICES ASSUME NEW l \in served
               PROVE  given[l] \in 1..N /\ PoolOf[l] = p /\ Served(l, b[given[l]])
    OBVIOUS
  <2>1. given[l] \in 1..N /\ l \in Cap /\ l \in Listeners
    BY <1>5, <1>9, <1>13
  <2>2. PoolOf[l] = p /\ next[l] = "RUNNING" /\ listener_state[l] = "READY" /\ child[l] \in Alive
    BY <1>6, <2>1
  <2>3. l \notin fresh /\ state[l] # "down" /\ gathering[l] \in BOOLEAN
    BY <1>7, <1>8, <2>1, <2>2 DEF TypeOK
  <2> HIDE DEF served
  <2>4. /\ listener_state'[l] = "BUSY" /\ event'[l] = b[given[l]] /\ stdin'[l] = b[given[l]]
        /\ state'[l] = next[l]
    BY <1>1, <1>3, <2>1, <2>3
  <2>5. gathering'[l] = gathering[l] /\ child'[l] = child[l]
    BY <1>1, <2>1, <2>3
  <2> QED BY <1>2, <2>1, <2>2, <2>3, <2>4, <2>5 DEF Served
<1>17. \A l \in Listeners \ served : Started(l) \/ Spared(l)
  <2> SUFFICES ASSUME NEW l \in Listeners, l \notin served PROVE Started(l) \/ Spared(l)
    OBVIOUS
  <2> HIDE DEF servedBy
  <2>0. /\ state'[l] = next[l]
        /\ listener_state'[l] = IF l \in fresh THEN "ACKNOWLEDGED" ELSE listener_state[l]
        /\ event'[l] = IF l \in fresh THEN NoEvent ELSE event[l]
        /\ stdin'[l] = stdin[l] /\ stdout'[l] = stdout[l]
        /\ gathering'[l] = (l \notin fresh /\ gathering[l])
        /\ child'[l] = IF l \in fresh THEN "idle" ELSE child[l]
    <3>1. state'[l] = next[l] /\ stdout'[l] = stdout[l]
      BY <1>1, <1>2
    <3>2. child'[l] = IF l \in fresh THEN "idle" ELSE child[l]
      BY <1>1
    <3>5. gathering'[l] = (l \notin fresh /\ gathering[l])
      BY <1>21
    <3>3. /\ listener_state'[l] = IF l \in fresh THEN "ACKNOWLEDGED" ELSE listener_state[l]
          /\ event'[l] = IF l \in fresh THEN NoEvent ELSE event[l]
          /\ stdin'[l] = stdin[l]
      BY <1>3
    <3> QED BY <3>1, <3>2, <3>3, <3>5
  <2>1. CASE l \in fresh
    BY <1>7, <2>0, <2>1 DEF Started
  <2>2. CASE l \notin fresh
    <3>1. ~(state[l] = "down" /\ next[l] = "STARTING")
      BY <1>11, <1>12, <2>2
    <3>2. state'[l] = "down" <=> state[l] = "down"
      BY <1>1, <1>8, <3>1
    <3>3. gathering'[l] = gathering[l]
      BY <2>0, <2>2 DEF TypeOK
    <3> QED BY <1>8, <2>0, <2>2, <3>2, <3>3 DEF Spared
  <2> QED BY <2>1, <2>2
<1>18. /\ DOMAIN state' = Listeners /\ DOMAIN listener_state' = Listeners
       /\ DOMAIN event' = Listeners /\ DOMAIN gathering' = Listeners
       /\ DOMAIN child' = Listeners /\ DOMAIN stdin' = Listeners
       /\ state' \in [Listeners -> ProcessStates]
  BY <1>1, <1>3
<1>19. event_buffer' = [event_buffer EXCEPT ![p] = SubSeq(b, N + 1, Len(b))]
  BY <1>1
<1> HIDE DEF N, served
<1>20. Dispatched(p, N, served, given)
  BY <1>2, <1>5, <1>13, <1>14, <1>15, <1>16, <1>17, <1>18, <1>19 DEF Dispatched, b
<1> QED BY <1>20

LEMMA TransitionFollows ==
    ASSUME TypeOK, NEW p \in Pools, NEW l \in Listeners, Follows(l), Transition(p)
    PROVE  Follows(l)'
<1>1. PICK n, served, given : Dispatched(p, n, served, given)
  BY TransitionIs
<1>2. CASE Started(l)
  <2>1. stdout'[l] = <<>> /\ stdin'[l] = NoEvent
    BY <1>2 DEF Started, Follows, Down
  <2>2. Heard(l)' = Hears(l)'
    BY <2>1, WillHearNothing
  <2>3. Heard(l)'.at = "ACKNOWLEDGED"
    BY <1>2, <2>2 DEF Started, Hears
  <2>4. InStep(l)'
    BY <1>2, <2>1, <2>3 DEF Started, InStep
  <2> QED BY <1>2, <2>4 DEF Started, Follows, Down, Busy, AtReady
<1>3. CASE Spared(l)
  <2>0. Len(stdout[l]) \in Nat
    BY DEF TypeOK
  <2>1. Heard(l)' = Heard(l)
    BY <1>3, <2>0, HearsSame DEF Spared
  <2> QED BY <1>3, <2>1 DEF Spared, Follows, Down, Busy, InStep, AtReady
<1>4. CASE l \in served
  <2> DEFINE e == event_buffer[p][given[l]]
  <2>1. Served(l, e) /\ given[l] \in 1..n /\ n \in 0..Len(event_buffer[p])
    BY <1>1, <1>4 DEF Dispatched
  <2>2. e \in Events /\ e # NoEvent
    <3>1. event_buffer[p] \in Seq(Events)
      BY DEF TypeOK
    <3> QED BY <2>1, <3>1, EventPoolsAssumption
  <2> HIDE DEF e
  <2>3. child[l] \in {"waiting", "rogue"} /\ child[l] \in Alive
        /\ stdout[l] = (IF child[l] = "waiting" THEN <<>> ELSE <<"JUNK">>)
    BY <2>1 DEF Served, Follows, AtReady
  <2>4. gathering[l] = FALSE
    BY <2>1 DEF Served, Follows, Busy, TypeOK
  <2>5. Hears(l)' = [at |-> "BUSY", event |-> e, gathering |-> FALSE, rejected |-> NoEvent,
                     processed |-> NoEvent]
    BY <2>1, <2>4 DEF Served, Hears
  <2>6. InStep(l)'
    <3>1. CASE child[l] = "waiting"
      <4>1. stdout'[l] = <<>>
        BY <2>1, <2>3, <3>1 DEF Served
      <4>2. Heard(l)' = Hears(l)'
        BY <4>1, WillHearNothing
      <4> QED BY <2>1, <2>2, <2>5, <3>1, <4>2 DEF InStep, Served
    <3>2. CASE child[l] = "rogue"
      <4>1. stdout'[l] = <<"JUNK">>
        BY <2>1, <2>3, <3>2 DEF Served
      <4>2. Heard(l)' = Hear(Hears(l)', "JUNK")
        BY <4>1, WillHearOne
      <4>3. Heard(l)'.at = "UNKNOWN"
        BY <2>5, <4>2 DEF Hear, Unknown, Rejected
      <4> QED BY <2>1, <3>2, <4>3 DEF InStep, Served
    <3> QED BY <2>3, <3>1, <3>2
  <2>7. AtReady(l)' /\ Busy(l)' /\ Down(l)'
    BY <2>1, <2>2, <2>4 DEF Served, AtReady, Busy, Down
  <2> QED BY <2>6, <2>7 DEF Follows
<1> QED BY <1>1, <1>2, <1>3, <1>4 DEF Dispatched

\* A step of one listener leaves the others alone.
LEMMA OthersFollow ==
    ASSUME TypeOK, NEW l \in Listeners, NEW m \in Listeners, m # l, Follows(m),
           \/ Read(l) \/ Reap(l) \/ Stop(l) \/ ReadsEvent(l) \/ Dies(l)
           \/ \E from, token, to : Writes(l, from, token, to)
    PROVE  Follows(m)'
<1>1. /\ state'[m] = state[m] /\ listener_state'[m] = listener_state[m] /\ event'[m] = event[m]
      /\ gathering'[m] = gathering[m] /\ stdout'[m] = stdout[m] /\ stdin'[m] = stdin[m]
      /\ child'[m] = child[m]
  <2>1. CASE Read(l)
    BY <2>1 DEF Read, Emptied, TypeOK
  <2>2. CASE Reap(l)
    BY <2>2 DEF Reap, Emptied, Goes, TypeOK
  <2>3. CASE Stop(l)
    BY <2>3 DEF Stop, TypeOK, pipes
  <2>4. CASE ReadsEvent(l) \/ Dies(l) \/ \E from, token, to : Writes(l, from, token, to)
    BY <2>4 DEF ReadsEvent, Dies, Writes, Goes, TypeOK, process
  <2> QED BY <2>1, <2>2, <2>3, <2>4
<1> QED BY <1>1, FollowsSame

LEMMA WritesAre ==
    ASSUME NEW l,
           Writes(l, "idle", "READY", "waiting") \/ Answers(l) \/ Misbehaves(l)
    PROVE  \E from \in Alive, token \in Tokens, to \in Alive :
             /\ Writes(l, from, token, to)
             /\ \/ from = "idle" /\ token = "READY" /\ to = "waiting"
                \/ from = "working" /\ token = "RESULT" /\ to = "answering"
                \/ from = "answering" /\ token \in Results /\ to = "idle"
                \/ token = "JUNK" /\ to = "rogue" /\ from # "rogue"
<1>1. /\ {"idle", "waiting", "working", "answering", "rogue"} \subseteq Alive
      /\ {"READY", "RESULT", "JUNK"} \subseteq Tokens /\ Results \subseteq Tokens
  BY DEF Alive, ChildStates, Tokens
<1>2. CASE Writes(l, "idle", "READY", "waiting")
  BY <1>1, <1>2
<1>3. CASE Writes(l, "working", "RESULT", "answering")
  BY <1>1, <1>3
<1>4. ASSUME NEW token \in Results, Writes(l, "answering", token, "idle")
      PROVE  \E from \in Alive, t \in Tokens, to \in Alive :
               /\ Writes(l, from, t, to)
               /\ \/ from = "idle" /\ t = "READY" /\ to = "waiting"
                  \/ from = "working" /\ t = "RESULT" /\ to = "answering"
                  \/ from = "answering" /\ t \in Results /\ to = "idle"
                  \/ t = "JUNK" /\ to = "rogue" /\ from # "rogue"
  BY <1>1, <1>4
<1>5. CASE Misbehaves(l)
  <2>1. child[l] \in Alive /\ child[l] # "rogue" /\ Writes(l, child[l], "JUNK", "rogue")
    BY <1>5 DEF Misbehaves
  <2> QED BY <1>1, <2>1
<1> QED BY <1>2, <1>3, <1>4, <1>5 DEF Answers

LEMMA StepFollows ==
    ASSUME TypeOK, \A l \in Listeners : Follows(l), [Next]_vars, NEW m \in Listeners
    PROVE  Follows(m)'
<1>1. CASE Notify \/ UNCHANGED vars
  BY <1>1, FollowsSame DEF Notify, vars, process, pipes
<1>2. ASSUME NEW l \in Listeners, Read(l) \/ Reap(l) \/ Stop(l) \/ ReadsEvent(l) \/ Dies(l)
      PROVE  Follows(m)'
  BY <1>2, ReadFollows, ReapFollows, StopFollows, ReadsEventFollows, DiesFollows, OthersFollow
<1>3. ASSUME NEW l \in Listeners,
             Writes(l, "idle", "READY", "waiting") \/ Answers(l) \/ Misbehaves(l)
      PROVE  Follows(m)'
  BY <1>3, WritesAre, WriteFollows, OthersFollow
<1>4. ASSUME NEW p \in Pools, Transition(p) PROVE Follows(m)'
  BY <1>4, TransitionFollows
<1> QED BY <1>1, <1>2, <1>3, <1>4 DEF Next, Daemon, Children

-----------------------------------------------------------------------------
(* What a pool's buffer holds after it accepted an event.                  *)

\* The buffer makes room by its oldest event, if it must.
LEMMA RoomIs ==
    ASSUME NEW b \in Seq(Events), Len(b) <= BufferSize
    PROVE  \E k \in {0, 1} :
             /\ Overflows(b) <=> k = 1
             /\ Room(b) \in Seq(Events) /\ Len(Room(b)) = Len(b) - k
             /\ Len(b) - k < BufferSize /\ k <= Len(b)
             /\ \A i \in 1..Len(b) - k : Room(b)[i] = b[i + k]
<1>1. BufferSize \in Nat \ {0} /\ Len(b) \in Nat
  BY EventPoolsAssumption
<1>2. CASE Overflows(b)
  <2>1. Len(b) = BufferSize /\ Len(b) >= 1 /\ b # <<>>
    BY <1>1, <1>2 DEF Overflows
  <2>2. Room(b) = Tail(b)
    BY <1>2 DEF Room
  <2>3. Room(b) \in Seq(Events) /\ Len(Room(b)) = Len(b) - 1
        /\ \A i \in 1..Len(b) - 1 : Room(b)[i] = b[i + 1]
    BY <2>1, <2>2
  <2> QED BY <1>1, <1>2, <2>1, <2>3
<1>3. CASE ~Overflows(b)
  <2>1. Room(b) = b /\ Len(b) < BufferSize
    BY <1>1, <1>3 DEF Overflows, Room
  <2>2. PICK k \in {0, 1} : k = 0
    OBVIOUS
  <2>3. Len(b) - k = Len(b) /\ k <= Len(b) /\ ~(k = 1)
    BY <1>1, <2>2
  <2>4. \A i \in 1..Len(b) - k : Room(b)[i] = b[i + k]
    <3> TAKE i \in 1..Len(b) - k
    <3>1. i + k = i
      BY <1>1, <2>2
    <3> QED BY <2>1, <3>1
  <2> QED BY <1>3, <2>1, <2>3, <2>4
<1> QED BY <1>2, <1>3

LEMMA AcceptedType ==
    ASSUME NEW b \in Seq(Events), Len(b) <= BufferSize, NEW e \in Events, NEW head
    PROVE  Accepted(b, e, head) \in Seq(Events) /\ Len(Accepted(b, e, head)) <= BufferSize
<1>1. PICK k \in {0, 1} : /\ Room(b) \in Seq(Events) /\ Len(Room(b)) = Len(b) - k
                          /\ Len(b) - k < BufferSize
  BY RoomIs
<1>2. BufferSize \in Nat /\ Len(b) \in Nat /\ Len(Room(b)) < BufferSize /\ Len(Room(b)) \in Nat
  BY <1>1, EventPoolsAssumption
<1>3. Len(Room(b)) + 1 <= BufferSize
  BY <1>2
<1>4. CASE head
  <2>1. /\ <<e>> \in Seq(Events) /\ Len(<<e>>) = 1 /\ <<e>> \o Room(b) \in Seq(Events)
        /\ Len(<<e>> \o Room(b)) = 1 + Len(Room(b))
    BY <1>1
  <2> QED BY <1>2, <1>3, <1>4, <2>1 DEF Accepted
<1>5. CASE ~head
  <2>1. /\ Append(Room(b), e) \in Seq(Events)
        /\ Len(Append(Room(b), e)) = Len(Room(b)) + 1
    BY <1>1
  <2> QED BY <1>2, <1>3, <1>5, <2>1 DEF Accepted
<1> QED BY <1>4, <1>5

LEMMA AcceptType ==
    ASSUME TypeOK, NEW ps, NEW e \in Events, NEW head,
           NEW settled \in [Pools -> [Events -> Fates]], Accept(ps, e, head, settled)
    PROVE  /\ event_buffer' \in [Pools -> Seq(Events)]
           /\ \A p \in Pools : Len(event_buffer'[p]) <= BufferSize
           /\ fate' \in [Pools -> [Events -> Fates]]
<1>1. \A p \in Pools :
        /\ event_buffer[p] \in Seq(Events) /\ Len(event_buffer[p]) <= BufferSize
        /\ Accepted(event_buffer[p], e, head) \in Seq(Events)
        /\ Len(Accepted(event_buffer[p], e, head)) <= BufferSize
  BY AcceptedType DEF TypeOK
<1>2. event_buffer' = [p \in Pools |-> IF p \in ps THEN Accepted(event_buffer[p], e, head)
                                       ELSE event_buffer[p]]
  BY DEF Accept
<1>3. /\ event_buffer' \in [Pools -> Seq(Events)]
      /\ \A p \in Pools : Len(event_buffer'[p]) <= BufferSize
  BY <1>1, <1>2
<1>4. fate' \in [Pools -> [Events -> Fates]]
  <2>1. {"discarded", "pending"} \subseteq Fates
    BY DEF Fates
  <2>2. fate' = [p \in Pools |-> [f \in Events |->
                  IF p \in ps /\ Overflows(event_buffer[p]) /\ f = Head(event_buffer[p])
                  THEN "discarded"
                  ELSE IF p \in ps /\ f = e THEN "pending" ELSE settled[p][f]]]
    BY DEF Accept
  <2> QED BY <2>1, <2>2
<1> QED BY <1>3, <1>4

LEMMA ConcludeType ==
    ASSUME TypeOK, NEW l \in Listeners, NEW h \in HearType, Conclude(l, h)
    PROVE  /\ event_buffer' \in [Pools -> Seq(Events)]
           /\ \A p \in Pools : Len(event_buffer'[p]) <= BufferSize
           /\ fate' \in [Pools -> [Events -> Fates]]
<1> DEFINE settled == IF h.processed = NoEvent THEN fate
                      ELSE [fate EXCEPT ![PoolOf[l]][h.processed] = "processed"]
<1>1. h.processed \in Events \cup {NoEvent} /\ h.rejected \in Events \cup {NoEvent}
  BY DEF HearType
<1>2. settled \in [Pools -> [Events -> Fates]]
  <2>1. "processed" \in Fates /\ fate \in [Pools -> [Events -> Fates]]
    BY DEF Fates, TypeOK
  <2> QED BY <1>1, <2>1
<1>3. CASE h.rejected # NoEvent
  <2>1. Accept(Rejects(l), h.rejected, TRUE, settled)
    BY <1>3 DEF Conclude
  <2> HIDE DEF settled
  <2> QED BY <1>1, <1>2, <1>3, <2>1, AcceptType
<1>4. CASE h.rejected = NoEvent
  <2>1. fate' = settled /\ UNCHANGED event_buffer
    BY <1>4 DEF Conclude
  <2> HIDE DEF settled
  <2> QED BY <1>2, <2>1 DEF TypeOK
<1> QED BY <1>3, <1>4

-----------------------------------------------------------------------------
(* The types.                                                              *)

LEMMA NotifyType == ASSUME TypeOK, Notify PROVE TypeOK'
<1>1. sent + 1 \in Events /\ sent' \in 0..Len(EventTypes)
  <2>1. EventTypes \in Seq({EventTypes[n] : n \in Events}) /\ sent < Len(EventTypes)
        /\ sent \in 0..Len(EventTypes) /\ sent' = sent + 1
    BY EventPoolsAssumption DEF Notify, TypeOK
  <2>2. Events = 1..Len(EventTypes) /\ Len(EventTypes) \in Nat
    BY <2>1 DEF Events
  <2> QED BY <2>1, <2>2
<1>2. /\ event_buffer' \in [Pools -> Seq(Events)]
      /\ \A p \in Pools : Len(event_buffer'[p]) <= BufferSize
      /\ fate' \in [Pools -> [Events -> Fates]]
  <2>1. fate \in [Pools -> [Events -> Fates]]
    BY DEF TypeOK
  <2>2. PICK ps : Accept(ps, sent + 1, FALSE, fate)
    BY DEF Notify
  <2> QED BY <1>1, <2>1, <2>2, AcceptType
<1> QED BY <1>1, <1>2 DEF Notify, TypeOK, process, pipes

LEMMA ReadType ==
    ASSUME TypeOK, NEW l \in Listeners, Follows(l), Read(l) PROVE TypeOK'
<1>1. /\ stdout[l] # <<>> /\ stdout' = [stdout EXCEPT ![l] = <<>>]
      /\ listener_state' = [listener_state EXCEPT ![l] = Heard(l).at]
      /\ event' = [event EXCEPT ![l] = Heard(l).event]
      /\ gathering' = [gathering EXCEPT ![l] = Heard(l).gathering]
      /\ Conclude(l, Heard(l))
      /\ UNCHANGED <<state, stdin, child, sent>>
  BY DEF Read, Emptied
<1>2. Heard(l) \in HearType
  <2>1. state[l] # "down" /\ Busy(l)
    BY <1>1 DEF Follows, Down
  <2> QED BY <2>1, HeardFrom
<1>3. /\ event_buffer' \in [Pools -> Seq(Events)]
      /\ \A p \in Pools : Len(event_buffer'[p]) <= BufferSize
      /\ fate' \in [Pools -> [Events -> Fates]]
  BY <1>1, <1>2, ConcludeType
<1>4. /\ Heard(l).at \in EventListenerStates /\ Heard(l).event \in Events \cup {NoEvent}
      /\ Heard(l).gathering \in BOOLEAN
  BY <1>2 DEF HearType
<1>5. <<>> \in Seq(Tokens)
  OBVIOUS
<1> QED BY <1>1, <1>3, <1>4, <1>5 DEF TypeOK

LEMMA EndsType ==
    ASSUME NEW h \in HearType PROVE Ends(h) \in HearType
BY DEF Ends, Rejected, HearType

LEMMA ReapType ==
    ASSUME TypeOK, NEW l \in Listeners, Follows(l), Reap(l) PROVE TypeOK'
<1>1. /\ child[l] = "dead" /\ child' = [child EXCEPT ![l] = "none"]
      /\ stdout' = [stdout EXCEPT ![l] = <<>>] /\ state' = [state EXCEPT ![l] = "down"]
      /\ stdin' = [stdin EXCEPT ![l] = NoEvent]
      /\ listener_state' = [listener_state EXCEPT ![l] = Ends(Heard(l)).at]
      /\ event' = [event EXCEPT ![l] = Ends(Heard(l)).event]
      /\ gathering' = [gathering EXCEPT ![l] = FALSE]
      /\ Conclude(l, Ends(Heard(l)))
      /\ UNCHANGED sent
  BY DEF Reap, Goes, Emptied
<1>2. Ends(Heard(l)) \in HearType
  <2>1. state[l] # "down" /\ Busy(l)
    BY <1>1 DEF Follows, Down
  <2> QED BY <2>1, HeardFrom, EndsType
<1>3. /\ event_buffer' \in [Pools -> Seq(Events)]
      /\ \A p \in Pools : Len(event_buffer'[p]) <= BufferSize
      /\ fate' \in [Pools -> [Events -> Fates]]
  BY <1>1, <1>2, ConcludeType
<1>4. /\ Ends(Heard(l)).at \in EventListenerStates
      /\ Ends(Heard(l)).event \in Events \cup {NoEvent}
  BY <1>2 DEF HearType
<1>5. <<>> \in Seq(Tokens) /\ "none" \in ChildStates /\ "down" \in ProcessStates
  BY DEF ChildStates, ProcessStates
<1> QED BY <1>1, <1>3, <1>4, <1>5 DEF TypeOK

LEMMA WritesType ==
    ASSUME TypeOK, NEW l \in Listeners, NEW token \in Tokens, NEW from, NEW to \in Alive,
           Writes(l, from, token, to)
    PROVE  TypeOK'
<1>1. /\ child' = [child EXCEPT ![l] = to] /\ stdout' = [stdout EXCEPT ![l] = Append(@, token)]
      /\ UNCHANGED <<event_buffer, state, listener_state, event, gathering, stdin, sent, fate>>
  BY DEF Writes, Goes, process
<1>2. to \in ChildStates
  BY DEF Alive
<1> QED BY <1>1, <1>2 DEF TypeOK

LEMMA TransitionType ==
    ASSUME TypeOK, NEW p \in Pools, Transition(p) PROVE TypeOK'
<1>1. PICK n, served, given : Dispatched(p, n, served, given)
  BY TransitionIs
<1> DEFINE b == event_buffer[p]
<1>2. /\ n \in 0..Len(b) /\ b \in Seq(Events) /\ Len(b) <= BufferSize
      /\ Len(b) \in Nat /\ BufferSize \in Nat
  BY <1>1, EventPoolsAssumption DEF TypeOK, Dispatched
<1>3. SubSeq(b, n + 1, Len(b)) \in Seq(Events) /\ Len(SubSeq(b, n + 1, Len(b))) <= BufferSize
  BY <1>2
<1>4. /\ event_buffer' \in [Pools -> Seq(Events)]
      /\ \A q \in Pools : Len(event_buffer'[q]) <= BufferSize
  <2>1. event_buffer' = [event_buffer EXCEPT ![p] = SubSeq(b, n + 1, Len(b))]
    BY <1>1 DEF Dispatched
  <2> HIDE DEF b
  <2> QED BY <1>3, <2>1 DEF TypeOK
<1>5. \A l \in Listeners :
        /\ listener_state'[l] \in EventListenerStates /\ event'[l] \in Events \cup {NoEvent}
        /\ gathering'[l] \in BOOLEAN /\ child'[l] \in ChildStates
        /\ stdin'[l] \in Events \cup {NoEvent}
  <2> TAKE l \in Listeners
  <2>0. /\ listener_state[l] \in EventListenerStates /\ event[l] \in Events \cup {NoEvent}
        /\ gathering[l] \in BOOLEAN /\ child[l] \in ChildStates
        /\ stdin[l] \in Events \cup {NoEvent}
    BY DEF TypeOK
  <2>1. CASE l \in served
    <3>1. given[l] \in 1..n /\ Served(l, b[given[l]])
      BY <1>1, <2>1 DEF Dispatched
    <3>2. b[given[l]] \in Events
      BY <1>2, <3>1
    <3> QED BY <2>0, <3>1, <3>2 DEF Served, EventListenerStates
  <2>2. CASE l \notin served
    <3>1. Started(l) \/ Spared(l)
      BY <1>1, <2>2 DEF Dispatched
    <3> QED BY <2>0, <3>1 DEF Started, Spared, EventListenerStates, ChildStates
  <2> QED BY <2>1, <2>2
<1>6. /\ listener_state' = [l \in Listeners |-> listener_state'[l]]
      /\ event' = [l \in Listeners |-> event'[l]] /\ stdin' = [l \in Listeners |-> stdin'[l]]
      /\ child' = [l \in Listeners |-> child'[l]]
      /\ gathering' = [l \in Listeners |-> gathering'[l]]
  BY DEF Transition
<1>7. state' \in [Listeners -> ProcessStates] /\ UNCHANGED <<stdout, sent, fate>>
  BY <1>1 DEF Dispatched
<1> QED BY <1>4, <1>5, <1>6, <1>7 DEF TypeOK

LEMMA StepType ==
    ASSUME TypeOK, \A l \in Listeners : Follows(l), [Next]_vars PROVE TypeOK'
<1>1. CASE UNCHANGED vars
  BY <1>1 DEF TypeOK, vars
<1>2. CASE Notify
  BY <1>2, NotifyType
<1>3. ASSUME NEW l \in Listeners, Read(l) \/ Reap(l) PROVE TypeOK'
  BY <1>3, ReadType, ReapType
<1>4. ASSUME NEW l \in Listeners, Stop(l) PROVE TypeOK'
  BY <1>4 DEF Stop, TypeOK, pipes, ProcessStates
<1>5. ASSUME NEW p \in Pools, Transition(p) PROVE TypeOK'
  BY <1>5, TransitionType
<1>6. ASSUME NEW l \in Listeners,
             Writes(l, "idle", "READY", "waiting") \/ Answers(l) \/ Misbehaves(l)
      PROVE  TypeOK'
  BY <1>6, WritesAre, WritesType
<1>7. ASSUME NEW l \in Listeners, ReadsEvent(l) \/ Dies(l) PROVE TypeOK'
  BY <1>7 DEF ReadsEvent, Dies, Goes, TypeOK, process, ChildStates
<1> QED BY <1>1, <1>2, <1>3, <1>4, <1>5, <1>6, <1>7 DEF Next, Daemon, Children

-----------------------------------------------------------------------------
(* The protocol, for any children.                                         *)

LEMMA InitFollows == Init => PInv
<1> SUFFICES ASSUME Init PROVE PInv
  OBVIOUS
<1>1. TypeOK
  <2>1. Len(EventTypes) \in Nat
    BY EventPoolsAssumption
  <2>2. Len(<<>>) = 0 /\ 0 <= BufferSize /\ <<>> \in Seq(Events) /\ <<>> \in Seq(Tokens)
    BY EventPoolsAssumption
  <2>3. /\ "down" \in ProcessStates /\ "ACKNOWLEDGED" \in EventListenerStates
        /\ "none" \in ChildStates /\ "none" \in Fates
    BY DEF ProcessStates, EventListenerStates, ChildStates, Fates
  <2> QED BY <2>1, <2>2, <2>3 DEF Init, TypeOK
<1>2. ASSUME NEW l \in Listeners PROVE Follows(l)
  <2>1. /\ state[l] = "down" /\ child[l] = "none" /\ event[l] = NoEvent /\ stdout[l] = <<>>
        /\ stdin[l] = NoEvent /\ gathering[l] = FALSE
    BY DEF Init
  <2> QED BY <2>1 DEF Follows, Down, Busy, InStep, AtReady, Alive
<1> QED BY <1>1, <1>2 DEF PInv

\* The types, and each listener in step with what the daemon knows of it: the pipes that
\* are still to be read are part of the invariant, for it is what will have been heard
\* that a child's state agrees with (handle_listener_state_change(), transition()).
THEOREM ProtocolInvariance == Spec => []PInv
<1>1. Init => PInv
  BY InitFollows
<1>2. PInv /\ [Next]_vars => PInv'
  BY StepType, StepFollows DEF PInv
<1> QED BY <1>1, <1>2, PTL DEF Spec

\* Every variable has its type, and no buffer more than buffer_size events.
THEOREM TypeCorrect == Spec => []TypeOK
<1>1. PInv => TypeOK
  BY DEF PInv
<1> QED BY <1>1, ProtocolInvariance, PTL

LEMMA InStepOfPInv == PInv => ProtocolInStep
<1> SUFFICES ASSUME PInv, NEW l \in Listeners
             PROVE  /\ state[l] # "down" => (listener_state[l] = "BUSY" <=> event[l] # NoEvent)
                    /\ listener_state[l] = "READY" /\ child[l] \in Alive =>
                         stdin[l] = NoEvent /\ child[l] \in {"waiting", "rogue"}
                    /\ stdin[l] # NoEvent /\ child[l] \in Alive \ {"rogue"} => event[l] = stdin[l]
  BY DEF ProtocolInStep
<1>1. TypeOK /\ Follows(l)
  BY DEF PInv
<1>2. ASSUME stdin[l] # NoEvent, child[l] \in Alive \ {"rogue"} PROVE event[l] = stdin[l]
  <2>1. child[l] = "waiting"
    BY <1>1, <1>2 DEF Follows, InStep, Alive, ChildStates
  <2>2. Heard(l).event = stdin[l]
    BY <1>1, <1>2, <2>1 DEF Follows, InStep
  <2>3. state[l] # "down" /\ Busy(l)
    BY <1>1, <2>1 DEF Follows, Down
  <2>4. Sound(Heard(l), event[l])
    BY <1>1, <2>3, HeardFrom
  <2> QED BY <1>2, <2>2, <2>4 DEF Sound
<1> QED BY <1>1, <1>2 DEF Follows, Busy, AtReady

\* The daemon knows what a listener is about: an event is written only to a listener that
\* reads it, and a listener is BUSY exactly while it has an event.
THEOREM ProtocolIsInStep == Spec => []ProtocolInStep
BY ProtocolInvariance, InStepOfPInv, PTL

-----------------------------------------------------------------------------
(* The events, while no two pools have listeners of the same priority.     *)

\* An event that is not in the buffer gets into it; the oldest may go.
LEMMA AcceptedIs ==
    ASSUME NEW b \in Seq(Events), Len(b) <= BufferSize, NEW e \in Events, NEW head, Distinct(b),
           ~Member(b, e)
    PROVE  /\ Distinct(Accepted(b, e, head))
           /\ \A f : Member(Accepted(b, e, head), f) <=>
                       \/ f = e
                       \/ Member(b, f) /\ ~(Overflows(b) /\ f = Head(b))
           /\ Overflows(b) => Member(b, Head(b))
<1>1. PICK k \in {0, 1} :
        /\ Overflows(b) <=> k = 1
        /\ Room(b) \in Seq(Events) /\ Len(Room(b)) = Len(b) - k
        /\ Len(b) - k < BufferSize /\ k <= Len(b)
        /\ \A i \in 1..Len(b) - k : Room(b)[i] = b[i + k]
  BY RoomIs
<1> DEFINE r == Room(b)
           a == Accepted(b, e, head)
<1>2. PICK n \in Nat : n = Len(b) - k /\ Len(b) = n + k
  <2>1. PICK l \in Nat : l = Len(b)
    OBVIOUS
  <2>2. k <= l
    BY <1>1, <2>1
  <2>3. l - k \in Nat /\ l = (l - k) + k
    BY <2>2
  <2> QED BY <2>1, <2>3
<1>3. r \in Seq(Events) /\ Len(r) = n /\ \A i \in 1..n : r[i] = b[i + k]
  BY <1>1, <1>2
<1>4. Overflows(b) => Len(b) >= 1 /\ Head(b) = b[1]
  BY <1>1, <1>2
<1>5. Distinct(r)
  <2> SUFFICES ASSUME NEW i \in 1..n, NEW j \in 1..n, r[i] = r[j] PROVE i = j
    BY <1>3 DEF Distinct
  <2>1. i + k \in 1..Len(b) /\ j + k \in 1..Len(b)
    BY <1>2
  <2>2. b[i + k] = b[j + k]
    BY <1>3
  <2>3. i + k = j + k
    BY <2>1, <2>2 DEF Distinct
  <2> QED BY <2>3
<1>6. \A f : Member(r, f) <=> Member(b, f) /\ ~(Overflows(b) /\ f = Head(b))
  <2> TAKE f
  <2>1. ASSUME Member(r, f) PROVE Member(b, f) /\ ~(Overflows(b) /\ f = Head(b))
    <3>1. PICK i \in 1..n : r[i] = f
      BY <1>3, <2>1 DEF Member
    <3>2. i + k \in 1..Len(b) /\ b[i + k] = f
      BY <1>2, <1>3, <3>1
    <3>3. ASSUME Overflows(b), f = Head(b) PROVE FALSE
      <4>1. k = 1 /\ b[1] = b[i + k] /\ 1 \in 1..Len(b)
        BY <1>1, <1>2, <1>4, <3>2, <3>3
      <4>2. 1 = i + k
        BY <3>2, <4>1 DEF Distinct
      <4> QED BY <4>1, <4>2
    <3> QED BY <3>2, <3>3 DEF Member
  <2>2. ASSUME Member(b, f), ~(Overflows(b) /\ f = Head(b)) PROVE Member(r, f)
    <3>1. PICK i \in 1..Len(b) : b[i] = f
      BY <2>2 DEF Member
    <3>2. ~(k = 1 /\ i = 1)
      BY <1>1, <1>4, <2>2, <3>1
    <3>3. i - k \in 1..n /\ (i - k) + k = i
      BY <1>2, <3>2
    <3>4. r[i - k] = f
      BY <1>3, <3>1, <3>3
    <3> QED BY <1>3, <3>3, <3>4 DEF Member
  <2> QED BY <2>1, <2>2
<1>7. ~Member(r, e)
  BY <1>6
<1>8. Overflows(b) => Member(b, Head(b))
  BY <1>1, <1>2, <1>4 DEF Member
<1> HIDE DEF r
<1>9. CASE head
  <2>1. a = <<e>> \o r
    BY <1>9 DEF Accepted, r
  <2>2. Len(a) = n + 1 /\ a[1] = e /\ \A i \in 1..n : a[i + 1] = r[i]
    BY <1>3, <2>1
  <2> HIDE DEF a
  <2>3. \A i \in 1..n + 1 : i = 1 \/ (i - 1 \in 1..n /\ a[i] = r[i - 1])
    <3> TAKE i \in 1..n + 1
    <3>1. i # 1 => i - 1 \in 1..n /\ (i - 1) + 1 = i
      OBVIOUS
    <3> QED BY <2>2, <3>1
  <2>4. \A f : Member(a, f) <=> f = e \/ Member(r, f)
    <3> TAKE f
    <3>1. ASSUME Member(a, f) PROVE f = e \/ Member(r, f)
      BY <1>3, <2>2, <2>3, <3>1 DEF Member
    <3>2. Member(a, e)
      BY <2>2 DEF Member
    <3>3. ASSUME Member(r, f) PROVE Member(a, f)
      <4>1. PICK i \in 1..n : r[i] = f
        BY <1>3, <3>3 DEF Member
      <4>2. i + 1 \in 1..Len(a) /\ a[i + 1] = f
        BY <2>2, <4>1
      <4> QED BY <4>2 DEF Member
    <3> QED BY <3>1, <3>2, <3>3
  <2>5. Distinct(a)
    <3> SUFFICES ASSUME NEW i \in 1..n + 1, NEW j \in 1..n + 1, a[i] = a[j] PROVE i = j
      BY <2>2 DEF Distinct
    <3>1. i # 1 => i - 1 \in 1..n /\ a[i] = r[i - 1] /\ a[i] # e
      BY <1>3, <1>7, <2>3 DEF Member
    <3>2. j # 1 => j - 1 \in 1..n /\ a[j] = r[j - 1] /\ a[j] # e
      BY <1>3, <1>7, <2>3 DEF Member
    <3>3. CASE i = 1 \/ j = 1
      BY <2>2, <3>1, <3>2, <3>3
    <3>4. CASE i # 1 /\ j # 1
      <4>1. i - 1 = j - 1
        BY <1>3, <1>5, <3>1, <3>2, <3>4 DEF Distinct
      <4> QED BY <4>1
    <3> QED BY <3>3, <3>4
  <2> QED BY <1>6, <1>8, <2>4, <2>5 DEF a
<1>10. CASE ~head
  <2>1. a = Append(r, e)
    BY <1>10 DEF Accepted, r
  <2>2. Len(a) = n + 1 /\ a[n + 1] = e /\ \A i \in 1..n : a[i] = r[i]
    BY <1>3, <2>1
  <2> HIDE DEF a
  <2>3. \A f : Member(a, f) <=> f = e \/ Member(r, f)
    <3> TAKE f
    <3>1. ASSUME Member(a, f) PROVE f = e \/ Member(r, f)
      <4>1. PICK i \in 1..n + 1 : a[i] = f
        BY <2>2, <3>1 DEF Member
      <4>2. i = n + 1 \/ i \in 1..n
        OBVIOUS
      <4> QED BY <1>3, <2>2, <4>1, <4>2 DEF Member
    <3>2. Member(a, e)
      <4>1. n + 1 \in 1..Len(a)
        BY <2>2
      <4> QED BY <2>2, <4>1 DEF Member
    <3>3. ASSUME Member(r, f) PROVE Member(a, f)
      <4>1. PICK i \in 1..n : r[i] = f
        BY <1>3, <3>3 DEF Member
      <4>2. i \in 1..Len(a) /\ a[i] = f
        BY <2>2, <4>1
      <4> QED BY <4>2 DEF Member
    <3> QED BY <3>1, <3>2, <3>3
  <2>4. Distinct(a)
    <3> SUFFICES ASSUME NEW i \in 1..n + 1, NEW j \in 1..n + 1, a[i] = a[j] PROVE i = j
      BY <2>2 DEF Distinct
    <3>1. i \in 1..n => a[i] = r[i] /\ a[i] # e
      BY <1>3, <1>7, <2>2 DEF Member
    <3>2. j \in 1..n => a[j] = r[j] /\ a[j] # e
      BY <1>3, <1>7, <2>2 DEF Member
    <3>3. i = n + 1 \/ i \in 1..n
      OBVIOUS
    <3>4. j = n + 1 \/ j \in 1..n
      OBVIOUS
    <3> QED BY <1>3, <1>5, <2>2, <3>1, <3>2, <3>3, <3>4 DEF Distinct
  <2> QED BY <1>6, <1>8, <2>3, <2>4 DEF a
<1> QED BY <1>9, <1>10

LEMMA RejectsIs ==
    ASSUME PrioritiesApart, NEW l \in Listeners PROVE Rejects(l) = {PoolOf[l]} /\ PoolOf[l] \in Pools
<1>1. PoolOf[l] \in Pools /\ l \in ListenersOf(PoolOf[l])
  BY EventPoolsAssumption DEF ListenersOf
<1>2. \A p \in Rejects(l) : p = PoolOf[l]
  BY DEF Rejects, ListenersOf, PrioritiesApart
<1>3. PoolOf[l] \in Rejects(l)
  BY <1>1 DEF Rejects
<1> QED BY <1>2, <1>3, <1>1

\* A pool that nothing happened to.
LEMMA KeptSame ==
    ASSUME TypeOK, NEW p \in Pools, Kept(p), event_buffer'[p] = event_buffer[p],
           \A l \in Listeners : PoolOf[l] = p => event'[l] = event[l],
           fate'[p] = fate[p], sent' \in Nat, sent <= sent'
    PROVE  Kept(p)'
<1>1. Once(p)'
  BY DEF Kept, Once
<1>2. \A e : (In(p, e)' <=> In(p, e)) /\ (At(p, e)' <=> At(p, e))
  BY DEF In, At
<1>3. Where(p)'
  BY <1>2 DEF Kept, Where
<1>4. Known(p)'
  <2>1. sent \in Nat /\ \A e \in Events : e \in Nat
    <3>1. Events = 1..Len(EventTypes) /\ Len(EventTypes) \in Nat
      BY EventPoolsAssumption DEF Events
    <3> QED BY <3>1 DEF TypeOK
  <2> QED BY <2>1 DEF Kept, Known
<1> QED BY <1>1, <1>3, <1>4 DEF Kept

\* A pool that accepted an event it had not, and no listener of it has.
LEMMA KeptAccepting ==
    ASSUME TypeOK, NEW p \in Pools, Kept(p), NEW e \in Events, NEW head,
           event_buffer'[p] = Accepted(event_buffer[p], e, head), ~In(p, e),
           \A l \in Listeners : PoolOf[l] = p => event'[l] \in {event[l], NoEvent} /\ event'[l] # e,
           \A f \in Events : f # e /\ At(p, f) => At(p, f)',
           fate'[p] = [f \in Events |->
              IF Overflows(event_buffer[p]) /\ f = Head(event_buffer[p]) THEN "discarded"
              ELSE IF f = e THEN "pending" ELSE fate[p][f]],
           sent' \in Nat, sent <= sent', e <= sent', EventTypes[e] \in Subscribes[p]
    PROVE  Kept(p)'
<1> DEFINE b == event_buffer[p]
<1>0. /\ b \in Seq(Events) /\ Len(b) <= BufferSize /\ Distinct(b) /\ ~Member(b, e)
      /\ NoEvent \notin Events
  BY EventPoolsAssumption DEF TypeOK, Kept, Once, In
<1>1. /\ Distinct(Accepted(b, e, head))
      /\ \A f : Member(Accepted(b, e, head), f) <=>
                  \/ f = e
                  \/ Member(b, f) /\ ~(Overflows(b) /\ f = Head(b))
      /\ Overflows(b) => Member(b, Head(b))
  BY <1>0, AcceptedIs
<1>2. /\ Distinct(event_buffer'[p])
      /\ \A f : In(p, f)' <=> \/ f = e
                              \/ In(p, f) /\ ~(Overflows(b) /\ f = Head(b))
  BY <1>1 DEF In
<1>3. Once(p)'
  BY <1>2 DEF Kept, Once
<1>4. \A f \in Events : At(p, f)' <=> At(p, f) /\ f # e
  BY <1>0 DEF At
<1>5. Where(p)'
  <2> SUFFICES ASSUME NEW f \in Events
               PROVE  (fate'[p][f] = "pending" <=> In(p, f)' \/ At(p, f)')
                      /\ ~(In(p, f)' /\ At(p, f)')
    BY DEF Where
  <2>1. (fate[p][f] = "pending" <=> In(p, f) \/ At(p, f)) /\ ~(In(p, f) /\ At(p, f))
    BY DEF Kept, Where
  <2>2. CASE Overflows(b) /\ f = Head(b)
    <3>1. fate'[p][f] = "discarded"
      BY <2>2
    <3>2. In(p, f) /\ f # e
      BY <1>0, <1>1, <2>2 DEF In
    <3> QED BY <1>2, <1>4, <2>1, <2>2, <3>1, <3>2
  <2>3. CASE ~(Overflows(b) /\ f = Head(b)) /\ f = e
    <3>1. fate'[p][f] = "pending"
      BY <2>3
    <3> QED BY <1>2, <1>4, <2>3, <3>1
  <2>4. CASE ~(Overflows(b) /\ f = Head(b)) /\ f # e
    <3>1. fate'[p][f] = fate[p][f]
      BY <2>4
    <3> QED BY <1>2, <1>4, <2>1, <2>4, <3>1
  <2> QED BY <2>2, <2>3, <2>4
<1>6. Known(p)'
  <2> SUFFICES ASSUME NEW f \in Events, fate'[p][f] # "none"
               PROVE  f <= sent' /\ EventTypes[f] \in Subscribes[p]
    BY DEF Known
  <2>0. sent \in Nat /\ f \in Nat
    <3>1. Events = 1..Len(EventTypes) /\ Len(EventTypes) \in Nat
      BY EventPoolsAssumption DEF Events
    <3> QED BY <3>1 DEF TypeOK
  <2>1. CASE f = e
    BY <2>1
  <2>2. CASE f # e
    <3>1. fate[p][f] # "none"
      <4>1. CASE Overflows(b) /\ f = Head(b)
        BY <1>1, <4>1 DEF Kept, Where, In
      <4>2. CASE ~(Overflows(b) /\ f = Head(b))
        BY <2>2, <4>2
      <4> QED BY <4>1, <4>2
    <3>2. f <= sent /\ EventTypes[f] \in Subscribes[p]
      BY <3>1 DEF Kept, Known
    <3> QED BY <2>0, <3>2
  <2> QED BY <2>1, <2>2
<1> QED BY <1>3, <1>5, <1>6 DEF Kept

LEMMA NotifyKeeps ==
    ASSUME TypeOK, NEW p \in Pools, Kept(p), Notify PROVE Kept(p)'
<1> DEFINE e == sent + 1
           ps == {q \in Pools : EventTypes[e] \in Subscribes[q]}
<1>1. /\ sent \in Nat /\ e \in Nat /\ sent' = e /\ e \in Events /\ Events \subseteq Nat
      /\ NoEvent \notin Events
  <2>1. Events = 1..Len(EventTypes) /\ Len(EventTypes) \in Nat
    BY EventPoolsAssumption DEF Events
  <2> QED BY <2>1, EventPoolsAssumption DEF Notify, TypeOK
<1>2. Accept(ps, e, FALSE, fate) /\ UNCHANGED event
  BY DEF Notify, process
<1>3. fate[p][e] = "none"
  BY <1>1 DEF Kept, Known
<1>4. ~In(p, e) /\ ~At(p, e)
  BY <1>1, <1>3 DEF Kept, Where
<1>5. CASE p \in ps
  <2>1. event_buffer'[p] = Accepted(event_buffer[p], e, FALSE)
    BY <1>2, <1>5 DEF Accept
  <2>2. fate'[p] = [f \in Events |->
              IF Overflows(event_buffer[p]) /\ f = Head(event_buffer[p]) THEN "discarded"
              ELSE IF f = e THEN "pending" ELSE fate[p][f]]
    BY <1>2, <1>5 DEF Accept
  <2>3. \A l \in Listeners : PoolOf[l] = p => event'[l] \in {event[l], NoEvent} /\ event'[l] # e
    BY <1>1, <1>2, <1>4 DEF At
  <2>4. \A f \in Events : f # e /\ At(p, f) => At(p, f)'
    BY <1>2 DEF At
  <2>5. EventTypes[e] \in Subscribes[p]
    BY <1>5
  <2>6. sent' \in Nat /\ sent <= sent' /\ e <= sent'
    BY <1>1
  <2> HIDE DEF ps, e
  <2> QED BY <1>1, <1>4, <2>1, <2>2, <2>3, <2>4, <2>5, <2>6, KeptAccepting
<1>6. CASE p \notin ps
  <2>1. event_buffer'[p] = event_buffer[p]
    BY <1>2, <1>6 DEF Accept
  <2>2. fate'[p] = fate[p]
    <3>1. fate'[p] = [f \in Events |-> fate[p][f]]
      BY <1>2, <1>6 DEF Accept
    <3> QED BY <3>1 DEF TypeOK
  <2>3. sent' \in Nat /\ sent <= sent'
    BY <1>1
  <2> QED BY <1>2, <2>1, <2>2, <2>3, KeptSame
<1> QED BY <1>5, <1>6

\* The listener has answered: its event is processed.
LEMMA KeptProcessed ==
    ASSUME TypeOK, NEW l \in Listeners, Kept(PoolOf[l]), event[l] \in Events,
           UNCHANGED <<event_buffer, sent>>, event' = [event EXCEPT ![l] = NoEvent],
           fate' = [fate EXCEPT ![PoolOf[l]][event[l]] = "processed"]
    PROVE  Kept(PoolOf[l])'
<1> DEFINE p == PoolOf[l]
<1>1. p \in Pools /\ NoEvent \notin Events
  BY EventPoolsAssumption
<1>2. \A f \in Events : fate'[p][f] = IF f = event[l] THEN "processed" ELSE fate[p][f]
  BY <1>1 DEF TypeOK
<1>3. \A m \in Listeners : event'[m] = IF m = l THEN NoEvent ELSE event[m]
  BY DEF TypeOK
<1>4. \A f \in Events : At(p, f)' <=> At(p, f) /\ f # event[l]
  <2> TAKE f \in Events
  <2>1. ASSUME At(p, f)' PROVE At(p, f) /\ f # event[l]
    <3>1. PICK m \in Listeners : PoolOf[m] = p /\ event'[m] = f
      BY <2>1 DEF At
    <3>2. m # l /\ event[m] = f
      BY <1>1, <1>3, <3>1
    <3> QED BY <1>1, <3>1, <3>2 DEF At, Kept, Once
  <2>2. ASSUME At(p, f), f # event[l] PROVE At(p, f)'
    BY <1>3, <2>2 DEF At
  <2> QED BY <2>1, <2>2
<1>5. At(p, event[l]) /\ \A f : In(p, f)' <=> In(p, f)
  BY DEF At, In
<1>6. Once(p)'
  BY <1>3 DEF Kept, Once
<1>7. Where(p)'
  BY <1>2, <1>4, <1>5 DEF Kept, Where
<1>8. Known(p)'
  BY <1>2, <1>5 DEF Kept, Known, Where
<1> QED BY <1>6, <1>7, <1>8 DEF Kept

\* What was heard of the event e of a listener, as in Sound.
Told(h, e) == \/ h.event = e /\ h.rejected = NoEvent /\ h.processed = NoEvent
              \/ h.event = NoEvent /\ h.rejected = e /\ h.processed = NoEvent
              \/ h.event = NoEvent /\ h.rejected = NoEvent /\ h.processed = e

LEMMA ConcludeKeeps ==
    ASSUME PrioritiesApart, TypeOK, NEW p \in Pools, Kept(p), NEW l \in Listeners,
           NEW h \in HearType, Told(h, event[l]), Conclude(l, h),
           event' = [event EXCEPT ![l] = h.event], UNCHANGED sent
    PROVE  Kept(p)'
<1> DEFINE q == PoolOf[l]
           e == event[l]
<1>0. /\ q \in Pools /\ Rejects(l) = {q} /\ NoEvent \notin Events
      /\ sent \in Nat /\ sent' \in Nat /\ sent <= sent' /\ e \in Events \cup {NoEvent}
  BY RejectsIs, EventPoolsAssumption DEF TypeOK
<1>1. \A m \in Listeners : event'[m] = IF m = l THEN h.event ELSE event[m]
  BY DEF TypeOK
<1>2. CASE h.event = e /\ h.rejected = NoEvent /\ h.processed = NoEvent
  <2>1. UNCHANGED <<event_buffer, fate>>
    BY <1>2 DEF Conclude
  <2> QED BY <1>0, <1>1, <1>2, <2>1, KeptSame
<1>3. CASE e # NoEvent /\ h.event = NoEvent /\ h.rejected = e /\ h.processed = NoEvent
  <2>1. Accept({q}, e, TRUE, fate)
    BY <1>0, <1>3 DEF Conclude
  <2>2. CASE p = q
    <3>1. event_buffer'[p] = Accepted(event_buffer[p], e, TRUE)
      BY <2>1, <2>2 DEF Accept
    <3>2. fate'[p] = [f \in Events |->
              IF Overflows(event_buffer[p]) /\ f = Head(event_buffer[p]) THEN "discarded"
              ELSE IF f = e THEN "pending" ELSE fate[p][f]]
      BY <2>1, <2>2 DEF Accept
    <3>3. At(p, e) /\ e \in Events
      BY <1>0, <1>3, <2>2 DEF At
    <3>4. ~In(p, e) /\ fate[p][e] = "pending"
      BY <3>3 DEF Kept, Where
    <3>5. \A m \in Listeners : PoolOf[m] = p => event'[m] \in {event[m], NoEvent} /\ event'[m] # e
      BY <1>0, <1>1, <1>3, <2>2, <3>3 DEF Kept, Once
    <3>6. \A f \in Events : f # e /\ At(p, f) => At(p, f)'
      BY <1>1 DEF At
    <3>7. e <= sent' /\ EventTypes[e] \in Subscribes[p]
      BY <3>3, <3>4 DEF Kept, Known
    <3> HIDE DEF e
    <3> QED BY <1>0, <3>1, <3>2, <3>3, <3>4, <3>5, <3>6, <3>7, KeptAccepting
  <2>3. CASE p # q
    <3>1. event_buffer'[p] = event_buffer[p]
      BY <2>1, <2>3 DEF Accept
    <3>2. fate'[p] = fate[p]
      <4>1. fate'[p] = [f \in Events |-> fate[p][f]]
        BY <2>1, <2>3 DEF Accept
      <4> QED BY <4>1 DEF TypeOK
    <3>3. \A m \in Listeners : PoolOf[m] = p => event'[m] = event[m]
      BY <1>1, <2>3
    <3> QED BY <1>0, <3>1, <3>2, <3>3, KeptSame
  <2> QED BY <2>2, <2>3
<1>4. CASE e # NoEvent /\ h.event = NoEvent /\ h.rejected = NoEvent /\ h.processed = e
  <2>1. fate' = [fate EXCEPT ![q][e] = "processed"] /\ UNCHANGED event_buffer
    BY <1>4 DEF Conclude
  <2>2. CASE p = q
    BY <1>0, <1>4, <2>1, <2>2, KeptProcessed
  <2>3. CASE p # q
    <3>1. fate'[p] = fate[p]
      BY <2>1, <2>3 DEF TypeOK
    <3>2. \A m \in Listeners : PoolOf[m] = p => event'[m] = event[m]
      BY <1>1, <2>3
    <3> QED BY <1>0, <2>1, <3>1, <3>2, KeptSame
  <2> QED BY <2>2, <2>3
<1> QED BY <1>2, <1>3, <1>4 DEF Told

LEMMA ReadKeeps ==
    ASSUME PrioritiesApart, TypeOK, NEW p \in Pools, Kept(p), NEW l \in Listeners, Follows(l),
           Read(l)
    PROVE  Kept(p)'
<1>1. /\ stdout[l] # <<>> /\ event' = [event EXCEPT ![l] = Heard(l).event]
      /\ Conclude(l, Heard(l)) /\ UNCHANGED sent
  BY DEF Read
<1>2. state[l] # "down" /\ Busy(l)
  BY <1>1 DEF Follows, Down
<1>3. Sound(Heard(l), event[l]) /\ Heard(l) \in HearType
  BY <1>2, HeardFrom
<1>4. Told(Heard(l), event[l])
  BY <1>3 DEF Sound, Told
<1> QED BY <1>1, <1>3, <1>4, ConcludeKeeps

LEMMA ReapKeeps ==
    ASSUME PrioritiesApart, TypeOK, NEW p \in Pools, Kept(p), NEW l \in Listeners, Follows(l),
           Reap(l)
    PROVE  Kept(p)'
<1>1. /\ child[l] = "dead" /\ event' = [event EXCEPT ![l] = Ends(Heard(l)).event]
      /\ Conclude(l, Ends(Heard(l))) /\ UNCHANGED sent
  BY DEF Reap, Goes
<1>2. state[l] # "down" /\ Busy(l)
  BY <1>1 DEF Follows, Down
<1>3. Sound(Heard(l), event[l]) /\ Heard(l) \in HearType
  BY <1>2, HeardFrom
<1>4. Ends(Heard(l)) \in HearType
  BY <1>3, EndsType
<1>5. Told(Ends(Heard(l)), event[l])
  BY <1>3 DEF Sound, Told, Ends, Rejected, HearType
<1> QED BY <1>1, <1>4, <1>5, ConcludeKeeps

\* The events at the head of the buffer go to listeners that had none.
LEMMA TransitionKeeps ==
    ASSUME TypeOK, NEW p \in Pools, Kept(p), \A l \in Listeners : Follows(l),
           NEW q \in Pools, Transition(q)
    PROVE  Kept(p)'
<1>1. PICK n, served, given : Dispatched(q, n, served, given)
  BY TransitionIs
<1>2. /\ sent \in Nat /\ sent' \in Nat /\ sent <= sent' /\ fate' = fate
      /\ served \subseteq Listeners
  BY <1>1 DEF Dispatched, TypeOK
<1>3. \A l \in Listeners \ served : event'[l] = event[l]
  <2> TAKE l \in Listeners \ served
  <2>1. Started(l) \/ Spared(l)
    BY <1>1 DEF Dispatched
  <2> QED BY <2>1 DEF Started, Spared, Follows, Down
<1>4. \A l \in served : /\ PoolOf[l] = q /\ given[l] \in 1..n /\ event[l] = NoEvent
                        /\ event'[l] = event_buffer[q][given[l]]
  <2> TAKE l \in served
  <2>1. PoolOf[l] = q /\ given[l] \in 1..n /\ Served(l, event_buffer[q][given[l]])
    BY <1>1 DEF Dispatched
  <2>2. l \in Listeners /\ state[l] # "down" /\ listener_state[l] = "READY"
    BY <1>2, <2>1 DEF Served
  <2>3. event[l] = NoEvent
    BY <2>2 DEF Follows, Busy
  <2> QED BY <2>1, <2>3 DEF Served
<1>5. event_buffer' = [event_buffer EXCEPT ![q] =
                         SubSeq(event_buffer[q], n + 1, Len(event_buffer[q]))]
  BY <1>1 DEF Dispatched
<1>6. CASE p # q
  <2>1. event_buffer'[p] = event_buffer[p]
    BY <1>5, <1>6 DEF TypeOK
  <2>2. \A l \in Listeners : PoolOf[l] = p => event'[l] = event[l]
    BY <1>3, <1>4, <1>6
  <2> QED BY <1>2, <2>1, <2>2, KeptSame
<1>7. CASE p = q
  <2> DEFINE b == event_buffer[p]
  <2>1. /\ b \in Seq(Events) /\ Len(b) \in Nat /\ n \in 0..Len(b) /\ Distinct(b)
        /\ NoEvent \notin Events
    BY <1>1, <1>7, EventPoolsAssumption DEF Dispatched, TypeOK, Kept, Once
  <2>2. /\ \A i \in 1..n : \E l \in served : given[l] = i
        /\ \A l, m \in served : given[l] = given[m] => l = m
    BY <1>1 DEF Dispatched
  <2> DEFINE r == event_buffer'[p]
  <2>3. r = SubSeq(b, n + 1, Len(b))
    BY <1>5, <1>7 DEF TypeOK
  <2> HIDE DEF r
  <2>4. Len(r) = Len(b) - n /\ \A i \in 1..Len(b) - n : r[i] = b[i + n]
    BY <2>1, <2>3
  <2>5. \A i \in 1..Len(b) - n : i + n \in 1..Len(b)
    BY <2>1
  <2>6. \A l \in served : given[l] \in 1..n /\ given[l] \in 1..Len(b) /\ event[l] = NoEvent
                          /\ event'[l] = b[given[l]] /\ event'[l] \in Events /\ PoolOf[l] = p
    BY <1>4, <1>7, <2>1
  <2>7. \A f : Member(r, f) <=> \E i \in 1..Len(b) : i > n /\ b[i] = f
    <3> TAKE f
    <3>1. ASSUME Member(r, f) PROVE \E i \in 1..Len(b) : i > n /\ b[i] = f
      <4>1. PICK i \in 1..Len(b) - n : r[i] = f
        BY <2>4, <3>1 DEF Member
      <4>2. i + n \in 1..Len(b) /\ i + n > n /\ b[i + n] = f
        BY <2>1, <2>4, <4>1
      <4> QED BY <4>2
    <3>2. ASSUME NEW i \in 1..Len(b), i > n, b[i] = f PROVE Member(r, f)
      <4>1. i - n \in 1..Len(b) - n /\ (i - n) + n = i
        BY <2>1, <3>2
      <4>2. r[i - n] = f
        BY <2>4, <3>2, <4>1
      <4> QED BY <2>4, <4>1, <4>2 DEF Member
    <3> QED BY <3>1, <3>2
  <2>8. \A f : In(p, f)' <=> Member(r, f)
    BY DEF In, r
  <2>9. \A f \in Events : At(p, f)' <=> At(p, f) \/ \E i \in 1..Len(b) : i <= n /\ b[i] = f
    <3> TAKE f \in Events
    <3>1. ASSUME At(p, f)' PROVE At(p, f) \/ \E i \in 1..Len(b) : i <= n /\ b[i] = f
      <4>1. PICK l \in Listeners : PoolOf[l] = p /\ event'[l] = f
        BY <3>1 DEF At
      <4>2. CASE l \in served
        <5>1. given[l] \in 1..Len(b) /\ given[l] <= n /\ b[given[l]] = f
          BY <2>6, <4>1, <4>2
        <5> QED BY <5>1
      <4>3. CASE l \notin served
        BY <1>3, <4>1, <4>3 DEF At
      <4> QED BY <4>2, <4>3
    <3>2. ASSUME At(p, f) PROVE At(p, f)'
      <4>1. PICK l \in Listeners : PoolOf[l] = p /\ event[l] = f
        BY <3>2 DEF At
      <4>2. l \notin served
        BY <2>1, <2>6, <4>1
      <4> QED BY <1>3, <4>1, <4>2 DEF At
    <3>3. ASSUME NEW i \in 1..Len(b), i <= n, b[i] = f PROVE At(p, f)'
      <4>1. PICK l \in served : given[l] = i
        BY <2>1, <2>2, <3>3
      <4> QED BY <1>2, <2>6, <3>3, <4>1 DEF At
    <3> QED BY <3>1, <3>2, <3>3
  <2>10. Once(p)'
    <3>1. Distinct(r)
      <4> SUFFICES ASSUME NEW i \in 1..Len(b) - n, NEW j \in 1..Len(b) - n, r[i] = r[j] PROVE i = j
        BY <2>4 DEF Distinct
      <4>1. i + n = j + n
        BY <2>1, <2>4, <2>5 DEF Distinct
      <4> QED BY <2>1, <4>1
    <3>2. ASSUME NEW l \in Listeners, NEW m \in Listeners, PoolOf[l] = p, PoolOf[m] = p,
                 event'[l] = event'[m], event'[l] # NoEvent
          PROVE  l = m
      <4>1. CASE l \in served /\ m \in served
        <5>1. given[l] = given[m]
          BY <2>1, <2>6, <3>2, <4>1 DEF Distinct
        <5> QED BY <2>2, <4>1, <5>1
      <4>2. CASE l \notin served /\ m \notin served
        BY <1>3, <3>2, <4>2 DEF Kept, Once
      <4>3. ASSUME NEW x \in served, NEW y \in Listeners \ served, PoolOf[y] = p,
                   event'[x] = event'[y]
            PROVE  FALSE
        <5>1. event[y] = b[given[x]] /\ given[x] \in 1..Len(b) /\ event[y] \in Events
          BY <1>3, <2>6, <4>3
        <5>2. In(p, event[y]) /\ At(p, event[y])
          BY <4>3, <5>1 DEF In, At, Member
        <5> QED BY <5>1, <5>2 DEF Kept, Where
      <4> QED BY <3>2, <4>1, <4>2, <4>3
    <3> QED BY <3>1, <3>2 DEF Once, r
  <2>11. Where(p)'
    <3> SUFFICES ASSUME NEW f \in Events
                 PROVE  (fate'[p][f] = "pending" <=> In(p, f)' \/ At(p, f)')
                        /\ ~(In(p, f)' /\ At(p, f)')
      BY DEF Where
    <3>1. (fate[p][f] = "pending" <=> In(p, f) \/ At(p, f)) /\ ~(In(p, f) /\ At(p, f))
      BY DEF Kept, Where
    <3>2. In(p, f) <=> \E i \in 1..Len(b) : b[i] = f
      BY DEF In, Member
    <3>3. \A i \in 1..Len(b) : i \in Nat /\ (i <= n \/ i > n) /\ ~(i <= n /\ i > n)
      BY <2>1
    <3>4. \A i, j \in 1..Len(b) : b[i] = f /\ b[j] = f => i = j
      BY <2>1 DEF Distinct
    <3> QED BY <1>2, <2>7, <2>8, <2>9, <3>1, <3>2, <3>3, <3>4
  <2>12. Known(p)'
    BY <1>1, <1>2 DEF Kept, Known, Dispatched
  <2> QED BY <2>10, <2>11, <2>12 DEF Kept
<1> QED BY <1>6, <1>7

LEMMA StepKeeps ==
    ASSUME PrioritiesApart, PInv, NEW p \in Pools, Kept(p), [Next]_vars PROVE Kept(p)'
<1>0. TypeOK /\ (\A l \in Listeners : Follows(l)) /\ sent \in Nat
  BY DEF PInv, TypeOK
<1>1. ASSUME UNCHANGED <<event_buffer, event, sent, fate>> PROVE Kept(p)'
  <2>1. sent' \in Nat /\ sent <= sent'
    BY <1>0, <1>1
  <2> QED BY <1>0, <1>1, <2>1, KeptSame
<1>2. CASE UNCHANGED vars
  BY <1>1, <1>2 DEF vars
<1>3. CASE Notify
  BY <1>0, <1>3, NotifyKeeps
<1>4. ASSUME NEW l \in Listeners, Read(l) \/ Reap(l) PROVE Kept(p)'
  BY <1>0, <1>4, ReadKeeps, ReapKeeps
<1>5. ASSUME NEW l \in Listeners, Stop(l) PROVE Kept(p)'
  BY <1>1, <1>5 DEF Stop
<1>6. ASSUME NEW q \in Pools, Transition(q) PROVE Kept(p)'
  BY <1>0, <1>6, TransitionKeeps
<1>7. ASSUME NEW l \in Listeners,
             Writes(l, "idle", "READY", "waiting") \/ Answers(l) \/ Misbehaves(l)
      PROVE  Kept(p)'
  <2>1. \E from, token, to : Writes(l, from, token, to)
    BY <1>7, WritesAre
  <2> QED BY <1>1, <2>1 DEF Writes, process
<1>8. ASSUME NEW l \in Listeners, ReadsEvent(l) \/ Dies(l) PROVE Kept(p)'
  BY <1>1, <1>8 DEF ReadsEvent, Dies, process
<1> QED BY <1>2, <1>3, <1>4, <1>5, <1>6, <1>7, <1>8 DEF Next, Daemon, Children

LEMMA InitKeeps == Init => LInv
<1> SUFFICES ASSUME Init, NEW p \in Pools PROVE Kept(p)
  BY DEF LInv
<1>1. /\ event_buffer[p] = <<>> /\ Len(<<>>) = 0 /\ NoEvent \notin Events
      /\ \A l \in Listeners : event[l] = NoEvent
      /\ \A e \in Events : fate[p][e] = "none"
  BY EventPoolsAssumption DEF Init
<1>2. Once(p)
  BY <1>1 DEF Once, Distinct
<1>3. \A e \in Events : ~In(p, e) /\ ~At(p, e)
  BY <1>1 DEF In, At, Member
<1> QED BY <1>1, <1>2, <1>3 DEF Kept, Where, Known

\* While no two pools have listeners of the same priority, a rejected event goes back to
\* the pool it came from (handle_rejected(), __cmp__), and what a pool knows of an event
\* agrees with where the event is: in the buffer once, with one listener, or nowhere.
THEOREM Invariance == ASSUME PrioritiesApart PROVE Spec => []IInv
<1>1. Init => IInv
  BY InitFollows, InitKeeps DEF IInv
<1>2. IInv /\ [Next]_vars => IInv'
  <2> SUFFICES ASSUME IInv, [Next]_vars PROVE IInv'
    OBVIOUS
  <2>1. PInv'
    BY StepType, StepFollows DEF IInv, PInv
  <2>2. LInv'
    BY StepKeeps DEF IInv, LInv
  <2> QED BY <2>1, <2>2 DEF IInv
<1> QED BY <1>1, <1>2, PTL DEF Spec

\* The only one of a set, and a set without any.
LEMMA OneOrNone ==
    ASSUME NEW S, \A x, y \in S : x = y
    PROVE  Cardinality(S) = IF S = {} THEN 0 ELSE 1
<1>1. CASE S = {}
  BY <1>1, FS_EmptySet
<1>2. CASE S # {}
  <2>1. PICK x : S = {x}
    BY <1>2
  <2>2. Cardinality({x}) = 1
    BY FS_Singleton
  <2> QED BY <1>2, <2>1, <2>2
<1> QED BY <1>1, <1>2

LEMMA PlacesOfIInv == IInv => EveryEventInOnePlace
<1> SUFFICES ASSUME IInv, NEW p \in Pools, NEW e \in Events
             PROVE  Places(p, e) = IF fate[p][e] = "pending" THEN 1 ELSE 0
  BY DEF EveryEventInOnePlace
<1>1. Once(p) /\ Where(p) /\ TypeOK /\ NoEvent \notin Events
  BY EventPoolsAssumption DEF IInv, PInv, LInv, Kept
<1> DEFINE B == {i \in DOMAIN event_buffer[p] : event_buffer[p][i] = e}
           L == {l \in ListenersOf(p) : event[l] = e}
<1>2. DOMAIN event_buffer[p] = 1..Len(event_buffer[p])
  <2>1. event_buffer[p] \in Seq(Events)
    BY <1>1 DEF TypeOK
  <2> QED BY <2>1
<1>3. (\A i, j \in B : i = j) /\ (B = {} <=> ~In(p, e))
  BY <1>1, <1>2 DEF Once, Distinct, In, Member
<1>4. (\A l, m \in L : l = m) /\ (L = {} <=> ~At(p, e))
  BY <1>1 DEF Once, At, ListenersOf
<1>5. Places(p, e) = Cardinality(B) + Cardinality(L)
  BY DEF Places
<1>6. (fate[p][e] = "pending" <=> In(p, e) \/ At(p, e)) /\ ~(In(p, e) /\ At(p, e))
  BY <1>1 DEF Where
<1> HIDE DEF B, L
<1>7. Cardinality(B) = (IF B = {} THEN 0 ELSE 1) /\ Cardinality(L) = (IF L = {} THEN 0 ELSE 1)
  BY <1>3, <1>4, OneOrNone
<1> QED BY <1>3, <1>4, <1>5, <1>6, <1>7

\* A pool neither loses nor doubles an event, whatever its listeners do.
THEOREM EventsHaveOnePlace == ASSUME PrioritiesApart PROVE Spec => []EveryEventInOnePlace
BY Invariance, PlacesOfIInv, PTL

\* A pool is handed the events it subscribed to, and no others.
THEOREM PoolsGetTheirs == ASSUME PrioritiesApart PROVE Spec => []OnlySubscribed
<1>1. IInv => OnlySubscribed
  BY DEF IInv, LInv, Kept, Known, OnlySubscribed
<1> QED BY <1>1, Invariance, PTL
=============================================================================
