------------------------------ MODULE LogReads ------------------------------
(***************************************************************************)
(* The calls that read parts of a log (readFile and tailFile, options.py,  *)
(* and the calls of rpcinterface.py that use them), as functions of what   *)
(* the file holds.                                                         *)
(***************************************************************************)
EXTENDS Integers, Sequences

Data(bytes) == [fault |-> "none", data |-> bytes]
Fault(why) == [fault |-> why, data |-> <<>>]

Smaller(a, b) == IF a <= b THEN a ELSE b
NotNegative(a) == IF a < 0 THEN 0 ELSE a

\* read(n) at the place pos of a file
From(content, pos, n) == SubSeq(content, pos + 1, Smaller(pos + n, Len(content)))

readFile(content, offset, length) ==
    IF offset < 0
    THEN IF length # 0 THEN Fault("BAD_ARGUMENTS")
         ELSE Data(From(content, NotNegative(Len(content) + offset), -offset))
    ELSE IF length < 0 THEN Fault("BAD_ARGUMENTS")
    ELSE IF length = 0 THEN Data(From(content, offset, Len(content)))
    ELSE Data(From(content, offset, length))

tailFile(content, offset, length) ==
    LET sz == Len(content)
        overflow == sz > offset + length
        \* where to read from after the first condition, and what the second makes of it
        from == IF overflow THEN sz - 1 ELSE offset
        short == from + length > sz
        n == IF short /\ from > sz - 1 THEN 0 ELSE length
        begin == IF short THEN sz - n ELSE from
    IN  [data |-> IF n <= 0 THEN <<>> ELSE From(content, NotNegative(begin), n),
         offset |-> sz, overflow |-> overflow]

\* _readProcessLog(), and readLog() of the daemon's own log: file is a sequence with the content
\* of the log, and empty if there is no file or no such option.
readProcessLog(file, offset, length) ==
    IF file = <<>> THEN Fault("NO_FILE") ELSE readFile(file[1], offset, length)

tailProcessLog(file, offset, length) ==
    IF file = <<>> THEN [data |-> <<>>, offset |-> 0, overflow |-> FALSE]
    ELSE tailFile(file[1], offset, length)

\* clearLog(): the handlers make an empty file.
clearLog(file) ==
    IF file = <<>> THEN [fault |-> "NO_FILE", file |-> file] ELSE [fault |-> "none", file |-> << <<>> >>]
=============================================================================
