----------------------------- MODULE LogStreams -----------------------------
(***************************************************************************)
(* The way of a program's output: from the pipe through the dispatcher,    *)
(* which captures what is between two tokens for a communication event     *)
(* (dispatchers.py), to the rotating log (loggers.py), and from there to a *)
(* client that follows the log (http.py), while other clients clear it,    *)
(* signals have it reopened, files are removed behind the daemon's back    *)
(* and the program is started again.                                       *)
(*                                                                         *)
(* The bytes of the output are numbered; script says what they are. The    *)
(* dispatcher's output_buffer holds the bytes done + 1 to read.            *)
(***************************************************************************)
EXTENDS RotatingLog, FiniteSets, SequencesExt

CONSTANTS
    Programs,          \* programs: what each writes, over all its lives, and its options
    BEGIN_TOKEN, END_TOKEN,
    TailHead,          \* how much of the end of the log a client is sent first
    OutBufferSize,     \* ac_out_buffer_size
    Mishaps            \* how often the log is cleared or removed

ASSUME StreamsAssumption ==
    /\ Programs \subseteq [script: Seq(STRING), capture_maxbytes: Nat, backups: Nat, maxbytes: Nat \ {0}]
    /\ {BEGIN_TOKEN, END_TOKEN} \subseteq Seq(STRING) \ {<<>>}
    /\ TailHead \in Nat /\ OutBufferSize \in Nat \ {0}
    /\ Mishaps \in Nat

\* The byte a token begins with is nowhere else in a token, and neither token begins with the other.
ASSUME TokensAssumption ==
    /\ \A s, t \in {BEGIN_TOKEN, END_TOKEN} : \A k \in 2..Len(t) : t[k] # s[1]
    /\ \E k \in DOMAIN BEGIN_TOKEN \cap DOMAIN END_TOKEN : BEGIN_TOKEN[k] # END_TOKEN[k]

\* The system has room for another file: beside the backups there are at most the file the
\* handler writes to and the one a client follows.
ASSUME RoomAssumption ==
    \A p \in Programs : IsFiniteSet(Inodes) => Cardinality(Inodes) > p.backups + 2

VARIABLES
    program,           \* the program
    alive,             \* the program runs
    written,           \* bytes the program wrote
    pc,                \* what the daemon's thread is at
    read,              \* bytes that were read from the pipe
    done,              \* bytes the dispatcher is done with
    born,              \* bytes there were when it was made
    capturemode, capturelog,
    log,               \* the main log
    tail,              \* the client that follows it, with its producer and buffer
    events,            \* history: what the communication events carried, and where it stood
    recorded,          \* history: what was logged
    mishaps            \* history: how often files went away

dispatcher == <<pc, read, done, born, capturemode, capturelog, events, recorded>>
vars == <<program, alive, written, dispatcher, log, tail, mishaps>>

\* capture_maxbytes is 0 to capture nothing.
script == program.script
capture_maxbytes == program.capture_maxbytes

Bytes == 1..Len(script)
NoTail == [at |-> "none", ino |-> NoFile, sz |-> 0, out |-> <<>>, sent |-> <<>>]
TailType == [at: {"none", "open"}, ino: Inodes \cup {NoFile}, sz: Nat, out: Seq(Nat),
             sent: Seq(Nat)]

TypeOK ==
    /\ program \in Programs /\ alive \in BOOLEAN
    /\ pc \in {"loop", "record", "gone"}
    /\ born \in 0..done /\ done \in 0..read /\ read \in 0..written /\ written \in 0..Len(script)
    /\ capturemode \in BOOLEAN /\ capturelog \in Seq(Bytes)
    /\ log \in LogType /\ tail \in TailType
    /\ recorded \in Seq(Bytes) /\ mishaps \in 0..Mishaps
    /\ (capturelog # <<>> => capturemode) /\ (capturemode => capture_maxbytes > 0)

Positions(from, to) == [i \in 1..(to - from) |-> from + i]      \* the bytes behind from up to to
tailed == IF tail.at = "open" THEN {tail.ino} ELSE {}

Init ==
    /\ program \in Programs /\ alive = TRUE /\ written = 0
    /\ pc = "loop" /\ read = 0 /\ done = 0 /\ born = 0
    /\ capturemode = FALSE /\ capturelog = <<>>
    /\ log = Open([maxbytes |-> program.maxbytes, content |-> [i \in Inodes |-> <<>>],
                   base |-> NoFile, stream |-> CHOOSE i \in Inodes : TRUE,
                   backups |-> [i \in 1..program.backups |-> NoFile]], {})
    /\ tail = NoTail /\ events = <<>> /\ recorded = <<>> /\ mishaps = 0

-----------------------------------------------------------------------------
(* The dispatcher.                                                         *)

token == IF capturemode THEN END_TOKEN ELSE BEGIN_TOKEN
Says(i, tok, n) == \A j \in 1..n : i + j \in Bytes /\ script[i + j] = tok[j]
\* The places in output_buffer behind which the token stands.
Tokens == {i \in done..(read - Len(token)) : Says(i, token, Len(token))}

\* Mutant: the prefix of a token at the end of the buffer is not kept.
find_prefix_at_end_none == 0

find_prefix_at_end ==
    LET ls == {l \in 0..(Len(token) - 1) : read - l >= done /\ Says(read - l, token, l)}
    IN  CHOOSE l \in ls : \A k \in ls : k <= l

\* BoundIO.write()
Bounded(buf, data) ==
    IF Len(buf) + Len(data) > capture_maxbytes
    THEN SubSeq(buf, Len(data) + 1, Len(buf)) \o data ELSE buf \o data

\* _log() of the bytes of output_buffer up to upto
Log(upto) ==
    LET data == Positions(done, upto)
    IN  IF data = <<>> THEN UNCHANGED <<capturelog, log, recorded>>
        ELSE IF capturemode
        THEN capturelog' = Bounded(capturelog, data) /\ UNCHANGED <<log, recorded>>
        ELSE /\ log' = emit(log, data, tailed) /\ recorded' = recorded \o data
             /\ UNCHANGED capturelog

Recorded == pc' = IF alive THEN "loop" ELSE "gone"

\* record_output() calls itself for what is behind a token.
RecordToken ==
    /\ pc = "record" /\ capture_maxbytes > 0 /\ read - done > Len(token) /\ Tokens # {}
    /\ LET i == CHOOSE i \in Tokens : \A j \in Tokens : i <= j
       IN  /\ done' = i + Len(token)
           /\ IF capturemode
              THEN /\ events' = Append(events, [data |-> Bounded(capturelog, Positions(done, i)), upto |-> i])
                   /\ capturelog' = <<>> /\ UNCHANGED <<log, recorded>>
              ELSE Log(i) /\ UNCHANGED events
    /\ capturemode' = ~capturemode
    /\ IF done' = read THEN Recorded ELSE UNCHANGED pc
    /\ UNCHANGED <<program, alive, written, read, born, tail, mishaps>>

RecordRest ==
    /\ pc = "record" /\ (capture_maxbytes > 0 => read - done <= Len(token) \/ Tokens = {})
    /\ done' = IF capture_maxbytes = 0 THEN read
               ELSE IF read - done <= Len(token) THEN done
               ELSE read - find_prefix_at_end
    /\ Log(done') /\ Recorded
    /\ UNCHANGED <<program, alive, written, read, born, capturemode, tail,
                   events, mishaps>>

\* handle_read_event(), also in drain(): all there is in the pipe is read.
Read ==
    /\ \/ pc = "loop" /\ read < written
       \/ pc = "loop" /\ ~alive
    /\ read' = written /\ pc' = "record"
    /\ UNCHANGED <<program, alive, written, done, born, capturemode, capturelog,
                   log, tail, events, recorded, mishaps>>

\* finish() drops the dispatcher with what it holds; spawn() makes another one.
Respawn ==
    /\ pc = "gone"
    /\ alive' = TRUE /\ pc' = "loop"
    /\ done' = read /\ born' = read /\ capturemode' = FALSE /\ capturelog' = <<>>
    /\ log' = Open(log, tailed)
    /\ UNCHANGED <<program, written, read, tail, events, recorded, mishaps>>

-----------------------------------------------------------------------------
(* The producer of a client that follows the log (tail_f_producer), and    *)
(* the buffer of its channel.                                              *)

Truncated == 0                     \* the line that says so, between the bytes

\* Mutant: the log is taken to be long enough.
Connect_unchecked ==
    /\ tail.at = "none" /\ pc \in {"loop", "gone"} /\ log.base # NoFile
    /\ tail' = [NoTail EXCEPT !.at = "open", !.ino = log.base,
                              !.sz = Len(log.content[log.base]) - TailHead]
    /\ UNCHANGED <<program, alive, written, dispatcher, log, mishaps>>

Connect ==
    /\ tail.at = "none" /\ pc \in {"loop", "gone"} /\ log.base # NoFile
    /\ LET size == Len(log.content[log.base])
       IN  tail' = [NoTail EXCEPT !.at = "open", !.ino = log.base,
                                  !.sz = IF size >= TailHead THEN size - TailHead ELSE 0]
    /\ UNCHANGED <<program, alive, written, dispatcher, log, mishaps>>

\* Mutant: a log that was rotated is not opened again.
Followed_not == tail

\* _follow()
Followed ==
    IF log.base \in {NoFile, tail.ino} THEN tail
    ELSE [tail EXCEPT !.ino = log.base, !.sz = 0]

\* Mutant: the size that was seen is not kept.
more_forgets(t) ==
    LET newsz == Len(log.content[t.ino])
    IN  IF newsz < t.sz THEN [t EXCEPT !.sz = 0, !.out = Append(@, Truncated)]
        ELSE [t EXCEPT !.out = @ \o SubSeq(log.content[t.ino], t.sz + 1, newsz)]

more(t) ==
    LET newsz == Len(log.content[t.ino])
    IN  IF newsz < t.sz THEN [t EXCEPT !.sz = 0, !.out = Append(@, Truncated)]
        ELSE [t EXCEPT !.sz = newsz, !.out = @ \o SubSeq(log.content[t.ino], t.sz + 1, newsz)]

Least(a, b) == IF a <= b THEN a ELSE b

\* initiate_send(): the buffer is filled and some of it is sent.
Send ==
    /\ tail.at = "open" /\ pc \in {"loop", "gone"}
    /\ LET filled == IF Len(tail.out) < OutBufferSize THEN more(Followed) ELSE tail
       IN  IF filled.out = <<>> THEN tail' = filled
           ELSE \E n \in 1..Least(OutBufferSize, Len(filled.out)) :
                  tail' = [filled EXCEPT !.out = SubSeq(@, n + 1, Len(@)),
                                         !.sent = @ \o SubSeq(filled.out, 1, n)]
    /\ log' = Remaining(log, {tail'.ino})
    /\ UNCHANGED <<program, alive, written, dispatcher, mishaps>>

-----------------------------------------------------------------------------
(* Other clients, signals, the system and the program.                     *)

\* clearProcessLogs() clears what a dispatcher holds: nothing when there is none.
Clear ==
    /\ pc = "loop" /\ mishaps < Mishaps
    /\ log' = Cleared(log, tailed) /\ capturelog' = <<>>
    /\ mishaps' = mishaps + 1
    /\ UNCHANGED <<program, alive, written, pc, read, done, born, capturemode,
                   tail, events, recorded>>

\* SIGUSR2
Reopen ==
    /\ pc = "loop" /\ log.base # log.stream
    /\ log' = Open(log, tailed)
    /\ UNCHANGED <<program, alive, written, dispatcher, tail, mishaps>>

\* A script removes the log, or moves it away.
Unlink ==
    /\ mishaps < Mishaps /\ log.base # NoFile
    /\ log' = [log EXCEPT !.base = NoFile]
    /\ mishaps' = mishaps + 1
    /\ UNCHANGED <<program, alive, written, dispatcher, tail>>

Write ==
    /\ alive /\ pc = "loop" /\ written < Len(script)
    /\ written' = written + 1
    /\ UNCHANGED <<program, alive, dispatcher, log, tail, mishaps>>

Dies ==
    /\ alive /\ pc = "loop"
    /\ alive' = FALSE
    /\ UNCHANGED <<program, written, dispatcher, log, tail, mishaps>>

Daemon == RecordToken \/ RecordRest \/ Read
Next ==
    \/ Daemon \/ Respawn \/ Connect \/ Send \/ Clear \/ Reopen \/ Unlink \/ Write \/ Dies

Fairness == WF_vars(Daemon) /\ SF_vars(Read) /\ SF_vars(Send)

Spec == Init /\ [][Next]_vars /\ Fairness

-----------------------------------------------------------------------------
(* Properties.                                                             *)

\* What the dispatcher should make of the bytes it is done with, byte by byte: whether it
\* captures behind byte i, and where the tokens end.
Capturing[i \in born..Len(script)] ==
    LET Ends(tok) == i - Len(tok) >= born /\ Says(i - Len(tok), tok, Len(tok))
    IN  IF capture_maxbytes = 0 \/ i = born THEN FALSE
        ELSE IF Capturing[i - 1] THEN ~Ends(END_TOKEN) ELSE Ends(BEGIN_TOKEN)
Begins == {i \in born + 1..done : Capturing[i] /\ ~Capturing[i - 1]}
Finishes == {i \in born + 1..done : ~Capturing[i] /\ Capturing[i - 1]}
Plain == {i \in born + 1..done : /\ ~Capturing[i - 1]
                                  /\ \A j \in Begins : i \notin j - Len(BEGIN_TOKEN) + 1..j}
Captured(upto) ==
    Positions(CHOOSE j \in Begins : j <= upto /\ \A i \in Begins : i <= upto => i <= j, upto)

Increasing(s) == \A i, j \in DOMAIN s : i < j => s[i] < s[j]

\* However the pipe cuts the output into pieces, and tokens with it, the log is given the bytes
\* outside of tokens and captures, in their order, and there is one communication event for each
\* capture, in their order, with its bytes, or the last of them where they are more than
\* capture_maxbytes.
CaptureFaithful ==
    /\ Increasing(recorded) /\ {i \in ToSet(recorded) : i > born} = Plain
    /\ \A i, j \in DOMAIN events : i < j => events[i].upto < events[j].upto
    /\ LET these == {e \in ToSet(events) : e.upto > born}
       IN  /\ {e.upto : e \in these} = {i - Len(END_TOKEN) : i \in Finishes}
           /\ \A e \in these :
                 /\ IsSuffix(e.data, Captured(e.upto))
                 /\ (mishaps = 0 /\ Len(Captured(e.upto)) <= capture_maxbytes)
                       => e.data = Captured(e.upto)

\* The log and its backups hold what was logged last, in order, each byte once; nothing is given
\* up while there is room for another backup.
FilesInOrder ==
    /\ Increasing(recorded) /\ \A f \in Named(log) : Increasing(log.content[f])
    /\ \A i, j \in DOMAIN Files(log) :
          i < j /\ {Files(log)[i], Files(log)[j]} \subseteq Named(log) => Older(log, Files(log)[j], Files(log)[i])
    /\ mishaps = 0 =>
          /\ Kept(log) \subseteq ToSet(recorded)
          /\ \A a \in Kept(log), b \in ToSet(recorded) : a < b => b \in Kept(log)
          /\ Kept(log) # ToSet(recorded) =>
                \A f \in ToSet(log.backups) : f # NoFile /\ Len(log.content[f]) >= log.maxbytes

Stream == tail.sent \o tail.out
Received == ToSet(Stream) \ {Truncated}
Seen == {log.content[tail.ino][k] : k \in 1..tail.sz}      \* of the file that is followed

\* A client that follows the log receives no byte twice and none out of order, over rollovers,
\* clears and removals, and has no gap between bytes of a file that it follows. It has all there
\* was from where it began if the log has backups, so that a rollover goes on in another file. A
\* log without backups is emptied in place: more() does not see that once as much is in it again
\* as the client saw last, and these bytes it skips; only what stands behind them it has whole.
TailFaithful ==
    /\ \A i, j \in DOMAIN Stream : i < j /\ Truncated \notin {Stream[i], Stream[j]} => Stream[i] < Stream[j]
    /\ tail.at = "open" /\ tail.sz <= Len(log.content[tail.ino]) =>
          \A a \in Seen \cap Received, b \in Seen : a < b => b \in Received
    /\ tail.at = "open" /\ log.backups # <<>> =>
          /\ tail.sz <= Len(log.content[tail.ino])
          /\ Seen \subseteq Received \/ Received \subseteq Seen
          /\ \A a \in Seen \cap Received, b \in Seen \cup Received : a < b => b \in Seen \cap Received

\* Output that was written is logged, captured or sent on to the client, but for what the
\* dispatcher holds back, which is no more than a token.
OutputArrives ==
    []<>(/\ written - done <= Len(token)
         /\ tail.at = "open" => /\ tail.out = <<>> /\ log.base \in {NoFile, tail.ino}
                                /\ tail.sz = Len(log.content[tail.ino]))
=============================================================================
