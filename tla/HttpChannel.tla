----------------------------- MODULE HttpChannel -----------------------------
(***************************************************************************)
(* A connection to the daemon: how the bytes that arrive become requests   *)
(* (asynchat_25.py, http_server.py, http.py and xmlrpc.py), and how the    *)
(* answers become bytes again, also those that are not known yet.  When a  *)
(* deferred call is answered, and when the loop comes to it, is in         *)
(* DeferredCalls; what a followed log says is in LogStreams.               *)
(*                                                                         *)
(* The bytes that arrive are strings.  One stands for the lines of a       *)
(* header: it names the request.  The first byte of a body says what comes *)
(* of the call.                                                            *)
(***************************************************************************)
EXTENDS Integers, Sequences, TLC
LOCAL INSTANCE SequencesExt

HeaderEnd == <<"CR", "LF", "CR", "LF">>

\* The requests: calls with a body of that length, what is an error at once, and what is answered
\* from a file that grows.
ContentLength == "call 0" :> 0 @@ "call 1" :> 1 @@ "call 2" :> 2
Code == "no length" :> 411 @@ "not POST" :> 400 @@ "no log" :> 410 @@ "no handler" :> 404
        @@ "no request" :> 400 @@ "tail" :> 200

None == [line |-> "none", data |-> <<>>, deferred |-> FALSE]

\* The receiving side of a channel. The terminator is a number of bytes, or -1 for HeaderEnd; told
\* is what was answered: codes, and "later" for what is to be.
NewChannel == [ac_in_buffer |-> <<>>, terminator |-> -1, in_buffer |-> <<>>, current |-> None,
               told |-> <<>>, closing |-> FALSE]

\* find(), -1 if the needle is not there.
Find(haystack, needle) ==
    LET At == {i \in 0..(Len(haystack) - Len(needle)) :
                  SubSeq(haystack, i + 1, i + Len(needle)) = needle}
    IN  IF At = {} THEN -1 ELSE CHOOSE i \in At : \A j \in At : i <= j

\* The longest proper prefix of needle that haystack ends with.
find_prefix_at_end(haystack, needle) ==
    CHOOSE n \in 0..(Len(needle) - 1) :
        /\ IsSuffix(SubSeq(needle, 1, n), haystack)
        /\ \A k \in (n + 1)..(Len(needle) - 1) : ~IsSuffix(SubSeq(needle, 1, k), haystack)

\* done() of the request: the next header may come.
Answered(ch, code) == [ch EXCEPT !.told = Append(@, code), !.current = None]

collect_incoming_data(ch, data) ==
    IF ch.current = None THEN [ch EXCEPT !.in_buffer = @ \o data]
    ELSE [ch EXCEPT !.current.data = @ \o data]

\* What comes of the call: a value, a function that is asked later, or an exception. Of a body that
\* is no call the handler says so.
continue_request(ch, data) ==
    IF data = <<"now">> \/ data = <<"now", "args">> THEN Answered(ch, 200)
    ELSE IF data = <<"raises">> THEN Answered(ch, 500)
    ELSE IF data = <<"later">>
    THEN [ch EXCEPT !.told = Append(@, "later"), !.current.deferred = TRUE]
    ELSE Answered(ch, 400)

\* The blank lines before a request.
RECURSIVE WithoutBlanks(_)
WithoutBlanks(header) ==
    IF IsPrefix(<<"CR", "LF">>, header) THEN WithoutBlanks(Tail(Tail(header))) ELSE header

\* handle_request() of the handler that matches.
Handle(ch, line) ==
    IF line \in DOMAIN ContentLength
    THEN [ch EXCEPT !.current = [None EXCEPT !.line = line], !.terminator = ContentLength[line]]
    ELSE Answered(ch, Code[IF line \in DOMAIN Code THEN line ELSE "no request"])

found_terminator(ch) ==
    IF ch.current # None
    THEN continue_request([ch EXCEPT !.terminator = -1], ch.current.data)
    ELSE LET lines == WithoutBlanks(ch.in_buffer)
             read == [ch EXCEPT !.in_buffer = <<>>]
         IN  IF lines = <<>> THEN [read EXCEPT !.closing = TRUE] ELSE Handle(read, Head(lines))

\* The loop of handle_read().
RECURSIVE Consume(_)
Consume(ch) ==
    LET buffer == ch.ac_in_buffer
        lb == Len(buffer)
        Take(n, keep) == collect_incoming_data([ch EXCEPT !.ac_in_buffer = SubSeq(buffer, keep + 1, lb)],
                                               SubSeq(buffer, 1, n))
        index == Find(buffer, HeaderEnd)
        prefix == find_prefix_at_end(buffer, HeaderEnd)
    IN  IF buffer = <<>> THEN ch
        ELSE IF ch.terminator = 0 THEN Take(lb, lb)
        ELSE IF ch.terminator > lb THEN [Take(lb, lb) EXCEPT !.terminator = @ - lb]
        ELSE IF ch.terminator > 0
        THEN Consume(found_terminator([Take(ch.terminator, ch.terminator) EXCEPT !.terminator = 0]))
        ELSE IF index # -1 THEN Consume(found_terminator(Take(index, index + Len(HeaderEnd))))
        ELSE Take(lb - prefix, lb - prefix)

handle_read(ch, data) == Consume([ch EXCEPT !.ac_in_buffer = @ \o data])

\* traverse(): the parts of the name of a method; known has the methods of each namespace. A
\* TypeError out of the method counts as a wrong number of arguments, wherever it was raised.
traverse(parts, hidden, known, raises) ==
    IF Len(parts) # 2 \/ hidden THEN "UNKNOWN_METHOD"
    ELSE IF parts[1] \notin DOMAIN known \/ parts[2] \notin known[parts[1]] THEN "UNKNOWN_METHOD"
    ELSE IF raises THEN "INCORRECT_PARAMETERS" ELSE "called"

-----------------------------------------------------------------------------
(* The end of an answer, in done() and in getresponse() of a deferred      *)
(* answer, which does not look for other spellings of a header.            *)

Ending(version, connection, hasLength) ==
    IF version = "1.1"
    THEN [close |-> connection = "close", chunked |-> connection # "close" /\ ~hasLength]
    ELSE [close |-> ~(version = "1.0" /\ connection = "keep-alive" /\ hasLength), chunked |-> FALSE]

done(version, connection, hasLength) ==
    Ending(version, IF connection = "Close" THEN "close" ELSE connection, hasLength)
getresponse(version, connection) == Ending(version, connection, TRUE)

-----------------------------------------------------------------------------
(* Producers. more() of one gives the next piece and what is left of the   *)
(* producer; <<>> means that there is no more, NotYet that nothing is      *)
(* known so far.  Bytes are numbers here, as a length is that is written.  *)

NotYet == <<-1>>

Source(pieces) == [is |-> "source", pieces |-> pieces]
Chunked(producer) == [is |-> "chunked", of |-> producer, open |-> TRUE]
Composite(producers) == [is |-> "composite", of |-> producers]
Globbing(producer, size) == [is |-> "globbing", of |-> producer, buffer |-> <<>>, size |-> size]
Hooked(producer) == [is |-> "hooked", of |-> producer, bytes |-> 0, logged |-> <<>>]

RECURSIVE more(_)
more(p) ==
    CASE p.is = "source" ->
           IF p.pieces = <<>> THEN [data |-> <<>>, left |-> p]
           ELSE [data |-> Head(p.pieces), left |-> [p EXCEPT !.pieces = Tail(@)]]
      [] p.is = "chunked" ->
           IF ~p.open THEN [data |-> <<>>, left |-> p]
           ELSE LET r == more(p.of)
                IN  IF r.data = NotYet THEN [data |-> NotYet, left |-> [p EXCEPT !.of = r.left]]
                    ELSE [data |-> <<Len(r.data)>> \o r.data,
                          left |-> [p EXCEPT !.of = r.left, !.open = r.data # <<>>]]
      [] p.is = "composite" ->
           IF p.of = <<>> THEN [data |-> <<>>, left |-> p]
           ELSE LET r == more(Head(p.of))
                IN  IF r.data = <<>> THEN more([p EXCEPT !.of = Tail(@)])
                    ELSE [data |-> r.data, left |-> [p EXCEPT !.of[1] = r.left]]
      [] p.is = "globbing" ->
           LET r == more(p.of)
           IN  IF Len(p.buffer) >= p.size THEN [data |-> p.buffer, left |-> [p EXCEPT !.buffer = <<>>]]
               ELSE IF r.data = NotYet THEN [data |-> NotYet, left |-> [p EXCEPT !.of = r.left]]
               ELSE IF r.data = <<>>
               THEN [data |-> p.buffer, left |-> [p EXCEPT !.of = r.left, !.buffer = <<>>]]
               ELSE more([p EXCEPT !.of = r.left, !.buffer = @ \o r.data])
      [] p.is = "hooked" ->
           LET r == more(p.of)
           IN  IF p.logged # <<>> THEN [data |-> <<>>, left |-> p]
               ELSE IF r.data = NotYet THEN [data |-> NotYet, left |-> [p EXCEPT !.of = r.left]]
               ELSE IF r.data = <<>>
               THEN [data |-> <<>>, left |-> [p EXCEPT !.of = r.left, !.logged = <<p.bytes>>]]
               ELSE [data |-> r.data, left |-> [p EXCEPT !.of = r.left, !.bytes = @ + Len(r.data)]]

-----------------------------------------------------------------------------
(* The sending side: a queue of producers, with the sentinel that closes.  *)
(* A deferred answer says not yet waits times; then it puts the producer   *)
(* of the answer behind itself, which sends at once.                       *)

Close == [is |-> "close"]
Deferred(waits, answer, close) ==
    [is |-> "deferred", waits |-> waits, answer |-> answer, close |-> close, finished |-> FALSE]

Sender(fifo) == [fifo |-> fifo, out |-> <<>>, sent |-> <<>>, delay |-> FALSE, connected |-> TRUE]

\* ac_out_buffer_size is obs, and the socket takes what it takes of that.
RECURSIVE refill_buffer(_, _, _), initiate_send(_, _, _)
refill_buffer(s, obs, takes) ==
    LET p == Head(s.fifo)
        popped == [s EXCEPT !.fifo = Tail(@)]
    IN  IF s.fifo = <<>> THEN s
        ELSE IF p.is = "close"
        THEN IF s.out = <<>> THEN [popped EXCEPT !.connected = FALSE] ELSE s
        ELSE IF p.is # "deferred"
        THEN LET r == more(p)
             IN  IF r.data = NotYet THEN [s EXCEPT !.fifo[1] = r.left, !.delay = TRUE]
                 ELSE IF r.data = <<>> THEN refill_buffer(popped, obs, takes)
                 ELSE [s EXCEPT !.fifo[1] = r.left, !.out = @ \o r.data, !.delay = FALSE]
        ELSE IF p.finished THEN refill_buffer(popped, obs, takes)
        ELSE IF p.waits > 0 THEN [s EXCEPT !.fifo[1].waits = @ - 1, !.delay = TRUE]
        ELSE LET pushed == [s EXCEPT !.fifo = Append([@ EXCEPT ![1].finished = TRUE], p.answer)]
                 nested == initiate_send(pushed, obs, takes)
                 ending == IF p.close THEN [nested EXCEPT !.fifo = Append(@, Close)] ELSE nested
             \* getresponse() gives no data, so whatever is first by now is taken for the producer
             \* that is done
             IN  refill_buffer([ending EXCEPT !.fifo = IF @ = <<>> THEN @ ELSE Tail(@)], obs, takes)

initiate_send(s, obs, takes) ==
    LET r == IF Len(s.out) < obs THEN refill_buffer(s, obs, takes) ELSE s
        n == CHOOSE k \in {takes, obs, Len(r.out)} : \A j \in {takes, obs, Len(r.out)} : k <= j
    IN  IF ~r.connected THEN r
        ELSE [r EXCEPT !.sent = @ \o SubSeq(r.out, 1, n), !.out = SubSeq(@, n + 1, Len(@))]

\* late: more time than delay has passed since the last look, or the clock was set back.
writable(s, late) == IF s.delay THEN late ELSE s.out # <<>> \/ s.fifo # <<>> \/ ~s.connected
=============================================================================
