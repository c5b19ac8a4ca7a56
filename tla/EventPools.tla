----------------------------- MODULE EventPools -----------------------------
(***************************************************************************)
(* Event listener pools (class EventListenerPool, process.py; the listener *)
(* protocol, PEventListenerDispatcher of dispatchers.py; events.py).  A    *)
(* pool buffers the events it subscribed to and hands each to one of its   *)
(* listeners, child processes that say READY on their stdout, read an      *)
(* event on stdin, and answer with a RESULT line and a result.             *)
(*                                                                         *)
(* A text a listener writes is one token: "READY"; "RESULT", the line that *)
(* announces a result; "OK", "FAIL" or "ERROR", a result the pool's        *)
(* handler accepts, rejects or fails on; "JUNK", lines no one expects.     *)
(* What dispatcher.state_buffer keeps of an unfinished token is still in   *)
(* the pipe here.  The life of a listener process is that of Subprocess,   *)
(* seen from the pool: "down" is any state without a child.  The steps of  *)
(* the daemon are its handlers, in any order.                              *)
(***************************************************************************)
EXTENDS Naturals, Sequences, FiniteSets

CONSTANTS
    Pools, Listeners,
    PoolOf,         \* the pool of each listener process
    Priority,       \* and the priority in its configuration
    EventTypes,     \* the type of the n-th event, for each event there will be
    Subscribes,     \* pool_events: the types each pool subscribed to
    BufferSize,     \* buffer_size
    NoEvent

Events == DOMAIN EventTypes

ASSUME EventPoolsAssumption ==
    /\ IsFiniteSet(Listeners)
    /\ PoolOf \in [Listeners -> Pools] /\ Priority \in [Listeners -> Nat]
    /\ EventTypes \in Seq({EventTypes[n] : n \in Events}) /\ DOMAIN Subscribes = Pools
    /\ BufferSize \in Nat \ {0} /\ NoEvent \notin Events

VARIABLES
    event_buffer,    \* of each pool
    state,           \* of each listener process
    listener_state, event, gathering,   \* of each: gathering is resultlen is not None
    stdout, stdin,   \* its pipes
    child,           \* what the child is about
    sent,            \* how many events there have been
    fate             \* what became of each event in each pool (history)

vars == <<event_buffer, state, listener_state, event, gathering, stdout, stdin, child,
          sent, fate>>
process == <<state, listener_state, event, gathering>>
pipes == <<stdout, stdin, child>>

ListenersOf(p) == {l \in Listeners : PoolOf[l] = p}

ProcessStates == {"down", "STARTING", "RUNNING", "STOPPING"}
EventListenerStates == {"ACKNOWLEDGED", "READY", "BUSY", "UNKNOWN"}
Results == {"OK", "FAIL", "ERROR"}
Tokens == {"READY", "RESULT", "JUNK"} \cup Results

\* idle: about to say READY; waiting: for an event; working: on it; answering: its
\* RESULT line is out; rogue: it wrote junk and says nothing more.
ChildStates == {"none", "idle", "waiting", "working", "answering", "rogue", "dead"}
Alive == ChildStates \ {"none", "dead"}

Fates == {"none", "pending", "processed", "discarded"}

TypeOK ==
    /\ event_buffer \in [Pools -> Seq(Events)] /\ \A p \in Pools : Len(event_buffer[p]) <= BufferSize
    /\ state \in [Listeners -> ProcessStates]
    /\ listener_state \in [Listeners -> EventListenerStates]
    /\ event \in [Listeners -> Events \cup {NoEvent}]
    /\ gathering \in [Listeners -> BOOLEAN]
    /\ stdout \in [Listeners -> Seq(Tokens)]
    /\ stdin \in [Listeners -> Events \cup {NoEvent}]
    /\ child \in [Listeners -> ChildStates]
    /\ sent \in 0..Len(EventTypes)
    /\ fate \in [Pools -> [Events -> Fates]]

Init ==
    /\ event_buffer = [p \in Pools |-> <<>>]
    /\ state = [l \in Listeners |-> "down"]
    /\ listener_state = [l \in Listeners |-> "ACKNOWLEDGED"]
    /\ event = [l \in Listeners |-> NoEvent]
    /\ gathering = [l \in Listeners |-> FALSE]
    /\ stdout = [l \in Listeners |-> <<>>]
    /\ stdin = [l \in Listeners |-> NoEvent]
    /\ child = [l \in Listeners |-> "none"]
    /\ sent = 0
    /\ fate = [p \in Pools |-> [e \in Events |-> "none"]]

-----------------------------------------------------------------------------
(* Buffers.                                                                *)

\* Mutant: the buffer holds one event more than its size.
Overflows_late(b) == Len(b) > BufferSize

\* The oldest event makes room for one more.
Overflows(b) == Len(b) >= BufferSize
Room(b) == IF Overflows(b) THEN Tail(b) ELSE b

\* _acceptEvent()
Accepted(b, e, head) == IF head THEN <<e>> \o Room(b) ELSE Append(Room(b), e)

\* The pools ps accept e, at the head of their buffers or not; settled says what has
\* become of events so far.
Accept(ps, e, head, settled) ==
    /\ event_buffer' = [p \in Pools |-> IF p \in ps THEN Accepted(event_buffer[p], e, head)
                                        ELSE event_buffer[p]]
    /\ fate' = [p \in Pools |-> [f \in Events |->
                  IF p \in ps /\ Overflows(event_buffer[p]) /\ f = Head(event_buffer[p])
                  THEN "discarded"
                  ELSE IF p \in ps /\ f = e THEN "pending" ELSE settled[p][f]]]

\* notify(): an event of the daemon or of a client, for every pool subscribed to it.
Notify ==
    /\ sent < Len(EventTypes)
    /\ sent' = sent + 1
    /\ Accept({p \in Pools : EventTypes[sent + 1] \in Subscribes[p]}, sent + 1, FALSE, fate)
    /\ UNCHANGED <<process, pipes>>

\* Mutant: every pool takes a rejected event back.
Rejects_everywhere(l) == Pools

\* handle_rejected(): processes are compared by __cmp__, that is by priority.
Rejects(l) == {p \in Pools : \E m \in ListenersOf(p) : Priority[m] = Priority[l]}

-----------------------------------------------------------------------------
(* handle_listener_state_change(), one token at a time.  The record says    *)
(* what it leaves of the process, and what it came to say of its event.     *)

Hears(l) == [at |-> listener_state[l], event |-> event[l], gathering |-> gathering[l],
             rejected |-> NoEvent, processed |-> NoEvent]

Unknown(h) == [h EXCEPT !.at = "UNKNOWN", !.event = NoEvent]
Rejected(h) == [h EXCEPT !.rejected = h.event, !.event = NoEvent]

\* handle_result()
Result(h, token) ==
    LET done == [h EXCEPT !.gathering = FALSE, !.at = "ACKNOWLEDGED"]
    IN  CASE token = "OK" -> [done EXCEPT !.processed = h.event, !.event = NoEvent]
          [] token = "FAIL" -> Rejected(done)
          [] OTHER -> Unknown(Rejected(done))   \* an error, or too long: the rest is no READY

\* Mutant: a bad RESULT line is skipped.
Hear_lenient(h, token) ==
    CASE h.at = "UNKNOWN" -> h
      [] h.at = "ACKNOWLEDGED" /\ token = "READY" -> [h EXCEPT !.at = "READY", !.event = NoEvent]
      [] h.at = "ACKNOWLEDGED" /\ token # "READY" -> Unknown(h)
      [] h.at = "READY" -> Unknown(h)
      [] h.at = "BUSY" /\ h.gathering -> Result(h, token)
      [] h.at = "BUSY" /\ ~h.gathering -> [h EXCEPT !.gathering = token = "RESULT"]

Hear(h, token) ==
    CASE h.at = "UNKNOWN" -> h
      [] h.at = "ACKNOWLEDGED" /\ token = "READY" -> [h EXCEPT !.at = "READY", !.event = NoEvent]
      [] h.at = "ACKNOWLEDGED" /\ token # "READY" -> Unknown(h)
      [] h.at = "READY" -> Unknown(h)
      [] h.at = "BUSY" /\ h.gathering -> Result(h, token)
      [] h.at = "BUSY" /\ ~h.gathering /\ token = "RESULT" -> [h EXCEPT !.gathering = TRUE]
      [] h.at = "BUSY" /\ ~h.gathering /\ token # "RESULT" -> Unknown(Rejected(h))

\* All that was read from the process.
Heard(l) ==
    LET h[n \in 0..Len(stdout[l])] ==
          IF n = 0 THEN Hears(l) ELSE Hear(h[n - 1], stdout[l][n])
    IN  h[Len(stdout[l])]

\* What the pools make of it; at the end of a process its event is rejected.
Conclude(l, h) ==
    LET settled == IF h.processed = NoEvent THEN fate
                   ELSE [fate EXCEPT ![PoolOf[l]][h.processed] = "processed"]
    IN  IF h.rejected # NoEvent THEN Accept(Rejects(l), h.rejected, TRUE, settled)
        ELSE fate' = settled /\ UNCHANGED event_buffer

\* The child of l goes from one state to another; what is in its pipe has been read.
Goes(l, from, to) == child[l] = from /\ child' = [child EXCEPT ![l] = to]
Emptied(l) == stdout' = [stdout EXCEPT ![l] = <<>>]

\* handle_read_event()
Read(l) ==
    /\ stdout[l] # <<>> /\ Emptied(l)
    /\ \E h \in {Heard(l)} :
          /\ listener_state' = [listener_state EXCEPT ![l] = h.at]
          /\ event' = [event EXCEPT ![l] = h.event]
          /\ gathering' = [gathering EXCEPT ![l] = h.gathering]
          /\ Conclude(l, h)
    /\ UNCHANGED <<state, stdin, child, sent>>

\* Mutant: the event of a dead listener is dropped.
Ends_lost(h) == [h EXCEPT !.event = NoEvent]

\* finish(): drain() reads what is left, and the event it did not answer is rejected.
Ends(h) == IF h.event = NoEvent THEN h ELSE Rejected(h)

Reap(l) ==
    /\ Goes(l, "dead", "none") /\ Emptied(l)
    /\ \E h \in {Ends(Heard(l))} :
          /\ listener_state' = [listener_state EXCEPT ![l] = h.at]
          /\ event' = [event EXCEPT ![l] = h.event]
          /\ gathering' = [gathering EXCEPT ![l] = FALSE]
          /\ Conclude(l, h)
    /\ state' = [state EXCEPT ![l] = "down"]
    /\ stdin' = [stdin EXCEPT ![l] = NoEvent]
    /\ UNCHANGED sent

-----------------------------------------------------------------------------
(* The main loop's turn: transition() of every process, then dispatch().   *)

\* What transition() of the process may do.
Turns(l) == CASE state[l] = "down" -> {"down", "STARTING"}
              [] state[l] = "STARTING" -> {"STARTING", "RUNNING"}
              [] OTHER -> {state[l]}

\* Mutant: a listener need not have said READY.
Capable_acknowledged(p, next) ==
    {l \in ListenersOf(p) : /\ next[l] = "RUNNING"
                            /\ listener_state[l] \in {"READY", "ACKNOWLEDGED"}
                            /\ child[l] \in Alive}

\* write() to a process whose child is gone fails with EPIPE.
Capable(p, next) ==
    {l \in ListenersOf(p) : /\ next[l] = "RUNNING" /\ listener_state[l] = "READY"
                            /\ child[l] \in Alive}

\* Each of the first n places of the buffer to a process of its own; 0 for the others.
Assignments(capable, n) ==
    {given \in [capable -> 0..n] : \A i \in 1..n : Cardinality({l \in capable : given[l] = i}) = 1}

\* The oldest events go to the capable processes, in the order of a dict.
Transition(p) ==
    /\ \E next \in [Listeners -> ProcessStates] :
         LET new == {l \in ListenersOf(p) : state[l] = "down" /\ next[l] = "STARTING"}
             capable == Capable(p, next)
             b == event_buffer[p]
             n == IF Len(b) < Cardinality(capable) THEN Len(b) ELSE Cardinality(capable)
         IN  /\ \A l \in Listeners : next[l] \in IF l \in ListenersOf(p) THEN Turns(l) ELSE {state[l]}
             /\ state' = next
             /\ event_buffer' = [event_buffer EXCEPT ![p] = SubSeq(b, n + 1, Len(b))]
             /\ \E given \in Assignments(capable, n) :
                  LET served == {l \in capable : given[l] # 0}
                  IN  /\ listener_state' = [l \in Listeners |->
                            IF l \in new THEN "ACKNOWLEDGED"
                            ELSE IF l \in served THEN "BUSY" ELSE listener_state[l]]
                      /\ event' = [l \in Listeners |->
                            IF l \in new THEN NoEvent
                            ELSE IF l \in served THEN b[given[l]] ELSE event[l]]
                      /\ stdin' = [l \in Listeners |->
                            IF l \in served THEN b[given[l]] ELSE stdin[l]]
             /\ gathering' = [l \in Listeners |-> l \notin new /\ gathering[l]]
             /\ child' = [l \in Listeners |-> IF l \in new THEN "idle" ELSE child[l]]
    /\ UNCHANGED <<stdout, sent, fate>>

\* A client stops the listener.
Stop(l) ==
    /\ state[l] \in {"STARTING", "RUNNING"}
    /\ state' = [state EXCEPT ![l] = "STOPPING"]
    /\ UNCHANGED <<event_buffer, listener_state, event, gathering, pipes, sent, fate>>

Daemon == Notify \/ (\E l \in Listeners : Read(l) \/ Reap(l) \/ Stop(l))
          \/ \E p \in Pools : Transition(p)

-----------------------------------------------------------------------------
(* The children.                                                           *)

Writes(l, from, token, to) ==
    /\ Goes(l, from, to)
    /\ stdout' = [stdout EXCEPT ![l] = Append(@, token)]
    /\ UNCHANGED <<event_buffer, process, stdin, sent, fate>>

ReadsEvent(l) ==
    /\ Goes(l, "waiting", "working") /\ stdin[l] # NoEvent
    /\ stdin' = [stdin EXCEPT ![l] = NoEvent]
    /\ UNCHANGED <<event_buffer, process, stdout, sent, fate>>

Answers(l) == \/ Writes(l, "working", "RESULT", "answering")
              \/ \E token \in Results : Writes(l, "answering", token, "idle")

Misbehaves(l) == child[l] \in Alive \ {"rogue"} /\ Writes(l, child[l], "JUNK", "rogue")

Dies(l) ==
    /\ child[l] \in Alive /\ Goes(l, child[l], "dead")
    /\ UNCHANGED <<event_buffer, process, stdout, stdin, sent, fate>>

Children == \E l \in Listeners : Writes(l, "idle", "READY", "waiting") \/ ReadsEvent(l)
                                 \/ Answers(l) \/ Misbehaves(l) \/ Dies(l)

Next == Daemon \/ Children

\* The loop serves every pipe and every dead child, and a child with an event answers it.
\* The steps Read(l), Reap(l), ReadsEvent(l) and Answers(l), told by what they change.
Fairness ==
    \A l \in Listeners :
       /\ WF_stdout(stdout[l] # <<>> /\ Emptied(l))
       /\ WF_child(Goes(l, "dead", "none"))
       /\ WF_child(Goes(l, "waiting", "working") /\ stdin[l] # NoEvent)
       /\ WF_child(Goes(l, "working", "answering")) /\ WF_child(Goes(l, "answering", "idle"))

Spec == Init /\ [][Next]_vars /\ Fairness

-----------------------------------------------------------------------------
(* Properties.                                                             *)

\* Where an event of the pool is: its places in the buffer, and the listeners it is at.
Places(p, e) == Cardinality({i \in DOMAIN event_buffer[p] : event_buffer[p][i] = e})
                + Cardinality({l \in ListenersOf(p) : event[l] = e})

\* A pool neither loses nor doubles an event: until it is processed or discarded it is
\* in exactly one place, and afterwards in none.
EveryEventInOnePlace ==
    \A p \in Pools, e \in Events :
       Places(p, e) = IF fate[p][e] = "pending" THEN 1 ELSE 0

\* A pool gets the events it subscribed to, and no others.
OnlySubscribed ==
    \A p \in Pools, e \in Events :
       fate[p][e] # "none" => EventTypes[e] \in Subscribes[p]

\* The daemon knows what a listener is about: one it sends events to has read all the
\* others, and the one that is BUSY holds its event.
ProtocolInStep ==
    \A l \in Listeners :
       /\ state[l] # "down" => (listener_state[l] = "BUSY" <=> event[l] # NoEvent)
       /\ listener_state[l] = "READY" /\ child[l] \in Alive =>
            stdin[l] = NoEvent /\ child[l] \in {"waiting", "rogue"}
       /\ stdin[l] # NoEvent /\ child[l] \in Alive \ {"rogue"} => event[l] = stdin[l]

\* A listener never keeps an event for good: it answers, breaks the protocol or dies.
NoHostage == \A l \in Listeners : event[l] # NoEvent ~> event[l] = NoEvent
=============================================================================
