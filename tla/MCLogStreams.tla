---------------------------- MODULE MCLogStreams ----------------------------
(* Values of LogStreams' constants for TLC, and what the calls that read   *)
(* parts of a log (LogReads) come to.                                      *)
EXTENDS LogStreams, LogReads, HttpCases

MCBegin == <<"<", "b">>
MCEnd == <<"<", "e">>

Program(output, captures, keeps, max) ==
    [script |-> output, capture_maxbytes |-> captures, backups |-> keeps, maxbytes |-> max]

\* A capture with what looks like a token in it and before it; and output that is not captured,
\* to a log with two backups, and enough of it to a log without one that is emptied in place and
\* grows beyond what a client has seen of it.
Report == <<"x", "<", "<", "b", "x", "<", "<", "e">>
Lines == <<"x", "x", "x", "x">>
More == Lines \o <<"x", "x", "x">>
MCPrograms == {Program(Report, 2, 1, 2), Program(Report, 1, 2, 1),
               Program(Lines, 0, 2, 1), Program(More, 0, 0, 4)}

-----------------------------------------------------------------------------
Contents == {[i \in 1..n |-> i] : n \in 0..5}
Offsets == -6..6
Lengths == -1..5
Beginning(file, n) == SubSeq(file, 1, Least(n, Len(file)))

\* A client that reads chunk by chunk puts the file together again, and its end is the chunk that
\* is shorter; the last bytes of a file are its end; and only arguments that do not go together
\* are refused.
ASSUME ChunksMakeTheFile ==
    \A file \in Contents, at \in 0..6, n \in 1..5 :
        LET chunk == readFile(file, at, n).data
        IN  /\ Beginning(file, at) \o chunk = Beginning(file, at + Len(chunk))
            /\ Len(chunk) < n <=> at + n > Len(file)
ASSUME LastBytes ==
    \A file \in Contents, n \in 1..6 :
        LET last == readFile(file, -n, 0).data
        IN  /\ Beginning(file, Len(file) - Len(last)) \o last = file
            /\ Len(last) = Least(n, Len(file))
ASSUME RefusedArguments ==
    \A file \in Contents, at \in Offsets, n \in Lengths :
        readFile(file, at, n).fault = "BAD_ARGUMENTS" <=> (at < 0 /\ n # 0) \/ n < 0

\* Whatever is asked for, a tail is the end of the file, no longer than asked for, and says that
\* there was more (rpcinterface.py:872 promises that of "the last offset in the log +1").
ASSUME TailIsTheEnd ==
    \A file \in Contents, at \in Offsets, n \in Lengths :
        LET t == tailFile(file, at, n)
        IN  /\ Beginning(file, Len(file) - Len(t.data)) \o t.data = file
            /\ Len(t.data) <= NotNegative(n) /\ t.offset = Len(file)
            /\ t.overflow <=> Len(file) > at + n

\* A client that asks from the offset it was told of misses nothing if the log grew by no more
\* than it asks for. If it grew by less, it sees bytes once more; if another, shorter file took
\* the place of the log, it gets nothing of it.
ASSUME PollingTheTail ==
    \A file \in Contents, at \in 0..6, n \in 1..5 :
        LET new == Len(file) - at
            seen == Len(tailFile(file, at, n).data)
        IN  /\ new \in 0..n => seen >= new
            /\ new > n => seen < new
            /\ new \in 1..(n - 1) => seen > new \/ seen = Len(file)
            /\ new < 0 => seen = 0

\* A log that was cleared is there and empty; one that is not there is an error for those who
\* read chunks and an empty log for those who tail.
ASSUME NoLog ==
    /\ readProcessLog(<<>>, 0, 0).fault = "NO_FILE" /\ clearLog(<<>>).fault = "NO_FILE"
    /\ \A file \in Contents : readProcessLog(clearLog(<<file>>).file, 0, 0) = Data(<<>>)
    /\ \A at \in 0..6 : tailProcessLog(<<>>, at, 1) = tailFile(<<>>, at, 1)
=============================================================================
