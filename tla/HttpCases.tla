------------------------------ MODULE HttpCases ------------------------------
(* What HttpChannel makes of small conversations.                          *)
LOCAL INSTANCE Integers
LOCAL INSTANCE Sequences
LOCAL INSTANCE SequencesExt

H == INSTANCE HttpChannel

Request(line, body, code) == [bytes |-> <<line>> \o H!HeaderEnd \o body, code |-> code]

\* Requests that are answered at once, with the code of the answer.
Requests ==
    {Request("call 1", <<"now">>, 200), Request("call 2", <<"now", "args">>, 200),
     Request("call 1", <<"raises">>, 500), Request("call 2", <<"CR", "LF">>, 400),
     Request("no length", <<>>, 411), Request("not POST", <<>>, 400), Request("no log", <<>>, 410),
     Request("tail", <<>>, 200), Request("GET", <<>>, 400)}

Reading(ch, pieces) == FoldLeft(LAMBDA c, piece : H!handle_read(c, piece), ch, pieces)

\* The bytes as up to three reads find them, and one by one.
Cuts(bytes) ==
    LET n == Len(bytes)
    IN  {<<SubSeq(bytes, 1, i), SubSeq(bytes, i + 1, j), SubSeq(bytes, j + 1, n)>> : i \in 0..n, j \in 0..n}
        \cup {[i \in 1..n |-> <<bytes[i]>>]}
Ordered(pieces, bytes) == FlattenSeq(pieces) = bytes

\* Two requests with an empty line between them, as some clients send it, are answered in their
\* order and each for itself, however the reads cut them, and leave the channel as it was.
ASSUME CutAnywhere ==
    \A a, b \in Requests, between \in {<<>>, <<"CR", "LF">>} :
        LET bytes == a.bytes \o between \o b.bytes
        IN  \A pieces \in {p \in Cuts(bytes) : Ordered(p, bytes)} :
               Reading(H!NewChannel, pieces) = [H!NewChannel EXCEPT !.told = <<a.code, b.code>>]

Later == Request("call 1", <<"later">>, 0)
Waiting == Reading(H!NewChannel, <<Later.bytes>>)

\* A client that waits for a deferred answer is then heard as before. The bytes of one that does
\* not wait are taken for more of the body of the first call, which is answered with an error
\* beside its deferred answer; the second call has no answer of its own.
ASSUME BehindADeferredCall ==
    /\ Waiting.told = <<"later">> /\ Waiting.current.deferred
    /\ \A r \in Requests :
         /\ H!handle_read(H!Answered(Waiting, 200), r.bytes).told = <<"later", 200, r.code>>
         /\ LET early == H!handle_read(Waiting, <<r.bytes[1]>> \o H!HeaderEnd)
            IN  early.told = <<"later", 400>> /\ early.current = H!None

\* A call that announces an empty body is never answered.
ASSUME EmptyBody ==
    \A r \in Requests : Reading(H!NewChannel, <<<<"call 0">> \o H!HeaderEnd, r.bytes>>).told = <<>>

\* Only the methods of the two namespaces can be called.
ASSUME OnlyMethods ==
    LET known == [adminservice |-> {"shutdown"}, system |-> {"multicall"}]
        called == {<<parts, hidden>> \in
                      {<<"adminservice", "shutdown">>, <<"adminservice", "multicall">>, <<"shutdown">>,
                       <<"system", "multicall">>, <<"adminservice", "shutdown", "x">>} \X BOOLEAN :
                      H!traverse(parts, hidden, known, FALSE) = "called"}
    IN  called = {<<<<"adminservice", "shutdown">>, FALSE>>, <<<<"system", "multicall">>, FALSE>>}

\* A connection that stays open tells the client where the answer ends, and an answer from a
\* deferred call ends the connection when any other would, but for a client that writes "Close".
ASSUME EndsAreTold ==
    \A version \in {"1.0", "1.1", "none"}, connection \in {"", "close", "Close", "keep-alive"} :
        /\ \A hasLength \in BOOLEAN : H!done(version, connection, hasLength).close
               \/ hasLength \/ H!done(version, connection, hasLength).chunked
        /\ H!getresponse(version, connection) # H!done(version, connection, TRUE)
               <=> version = "1.1" /\ connection = "Close"

-----------------------------------------------------------------------------
Pieces == {<<1>>, <<2, 3>>, H!NotYet}
Scripts == UNION {[1..n -> Pieces] : n \in 0..4}
Said(script) == FlattenSeq(SelectSeq(script, LAMBDA piece : piece # H!NotYet))

\* All that a producer gives when it is asked again and again: far more often than it has pieces.
Drained(p) ==
    LET Ask(s, i) == LET r == H!more(s.p)
                     IN  [p |-> r.left, data |-> IF r.data = H!NotYet THEN s.data ELSE s.data \o r.data]
    IN  FoldLeft(Ask, [p |-> p, data |-> <<>>], [i \in 1..12 |-> i])

\* What a client makes of the chunks.
Unchunked(bytes) ==
    LET Take(s, byte) == IF s.left = 0 THEN [s EXCEPT !.left = byte]
                         ELSE [left |-> s.left - 1, data |-> Append(s.data, byte)]
    IN  FoldLeft(Take, [left |-> 0, data |-> <<>>], bytes).data

\* Whatever waits in between, the client gets every byte once and in order, through chunks,
\* through one producer after the other and through a buffer of any size, and the log gets the
\* number of bytes.
ASSUME EveryByteOnce ==
    \A script \in Scripts :
        LET source == H!Source(script)
            header == H!Source(<<<<9>>>>)
            chunks == Drained(H!Chunked(H!Composite(<<source>>))).data
        IN  /\ Unchunked(chunks) = Said(script) /\ chunks[Len(chunks)] = 0
            /\ Drained(H!Composite(<<header, source>>)).data = <<9>> \o Said(script)
            /\ Drained(H!Hooked(source)).p.logged = <<Len(Said(script))>>
            /\ \A size \in 1..3 : Drained(H!Globbing(H!Hooked(source), size)).data = Said(script)

\* An answer of a header and a body, as it is put into the queue.
Answer(body, size) ==
    H!Globbing(H!Hooked(H!Composite(<<H!Source(<<<<9>>>>), H!Source(<<body>>)>>)), size)
Bodies == {<<1>>, <<1, 2>>, <<1, 2, 3, 4>>}

RECURSIVE Sending(_, _, _, _)
Sending(s, obs, takes, times) ==
    IF times = 0 THEN <<s>>
    ELSE <<s>> \o Sending(H!initiate_send(s, obs, takes), obs, takes, times - 1)

\* A deferred answer is pushed in the middle of the question for it, and sent from within. All the
\* same it is sent as a whole, whatever the socket takes at a time; until then the channel wants to
\* write, and then it is closed if the client is to see it closed, and quiet if not.
ASSUME DeferredAnswersAreWhole ==
    \A body \in Bodies, size \in 2..6, obs \in 1..3, takes \in 1..3, waits \in 0..2, close \in BOOLEAN :
        LET s == Sending(H!Sender(<<H!Deferred(waits, Answer(body, size), close)>>), obs, takes, 12)
            last == s[Len(s)]
        IN  /\ last.sent = <<9>> \o body /\ last.connected = ~close
            /\ ~close => ~H!writable(last, TRUE)
            /\ \A i \in DOMAIN s :
                 /\ s[i].sent # last.sent => s[i].connected /\ H!writable(s[i], TRUE)
                 /\ s[i].delay /\ s[i].out = <<>> => ~H!writable(s[i], FALSE)
=============================================================================
