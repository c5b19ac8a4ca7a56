----------------------------- MODULE RotatingLog -----------------------------
(***************************************************************************)
(* The rotating log of a program's output (class RotatingFileHandler,      *)
(* loggers.py) as functions from the log before a call to the log after    *)
(* it.  A log is a record of                                               *)
(*   maxbytes the option logfile_maxbytes                                  *)
(*   content  what each file holds, by its inode                           *)
(*   base     the inode behind the log's name, 0 if there is none          *)
(*   stream   the inode the handler writes to                              *)
(*   backups  the inodes behind the names with .1, .2, ... , 0 if none     *)
(* The bytes of a file are the places they had in the program's output.    *)
(* There is room for as many backups as the option logfile_backups says.   *)
(***************************************************************************)
EXTENDS Naturals, Sequences

CONSTANT Inodes        \* the numbers of files the system may hand out

ASSUME LogAssumption == Inodes \subseteq Nat \ {0}

NoFile == 0
LogType == [maxbytes: Nat \ {0}, content: [Inodes -> Seq(Nat)], base: Inodes \cup {NoFile}, stream: Inodes,
            backups: Seq(Inodes \cup {NoFile})]

\* The names and the handler of a log, and held by other processes.
Used(log, held) == {log.base, log.stream} \cup {log.backups[i] : i \in 1..Len(log.backups)} \cup held
FreeInode(log, held) ==
    CHOOSE i \in Inodes \ Used(log, held) : TRUE

\* A file without a name and without a holder is no more.
Remaining(log, held) ==
    [log EXCEPT !.content = [i \in Inodes |-> IF i \in Used(log, held) THEN @[i] ELSE <<>>]]

\* open(baseFilename, 'a'), and with 'w'
Open(log, held) ==
    LET opened == IF log.base # NoFile THEN [log EXCEPT !.stream = log.base]
                  ELSE LET new == FreeInode(log, held) IN [log EXCEPT !.base = new, !.stream = new]
    IN  Remaining(opened, held)

OpenEmpty(log, held) ==
    LET opened == Open(log, held) IN [opened EXCEPT !.content[opened.stream] = <<>>]

\* Mutant: the log is renamed before the backups are.
Shifted_first(log) ==
    [log EXCEPT !.base = NoFile,
                !.backups = [i \in 1..Len(log.backups) |->
                    IF i = 1 /\ Len(log.backups) > 1 THEN NoFile
                    ELSE IF i <= 2 THEN log.base ELSE log.backups[i - 1]]]

\* The backups and the log itself are renamed, from the last one down.
Shifted(log) ==
    [log EXCEPT !.base = NoFile,
                !.backups = [i \in 1..Len(log.backups) |->
                    IF i = 1 THEN log.base
                    ELSE IF i = Len(log.backups) /\ log.backups[i - 1] = NoFile THEN log.backups[i]
                    ELSE log.backups[i - 1]]]

doRollover(log, held) ==
    IF Len(log.content[log.stream]) < log.maxbytes THEN log
    ELSE IF log.backups = <<>> THEN OpenEmpty(log, held)
    ELSE OpenEmpty(Shifted(log), held)

emit(log, data, held) ==
    doRollover([log EXCEPT !.content[log.stream] = @ \o data], held)

\* remove() and reopen()
Cleared(log, held) == Open([log EXCEPT !.base = NoFile], held)

\* The files behind the log's names: the log, its first backup, the second, ...
Files(log) == [i \in 0..Len(log.backups) |-> IF i = 0 THEN log.base ELSE log.backups[i]]
Named(log) == {Files(log)[i] : i \in 0..Len(log.backups)} \ {NoFile}

\* What a file holds, and what these files do.
Held(log, f) == {log.content[f][k] : k \in DOMAIN log.content[f]}
\* Everything in file f was logged before everything in file g.
Older(log, f, g) == \A a \in Held(log, f), b \in Held(log, g) : a < b
Kept(log) == UNION {Held(log, f) : f \in Named(log)}
=============================================================================
