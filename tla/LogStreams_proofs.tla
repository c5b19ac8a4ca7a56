------------------------- MODULE LogStreams_proofs -------------------------
(***************************************************************************)
(* The log with its backups holds what was logged last, in order, and a    *)
(* client that follows it receives that in order, whatever is rotated,     *)
(* cleared, removed or opened again meanwhile.                             *)
(*                                                                         *)
(* The argument is about generations of files: the one the handler writes  *)
(* to is the newest, whether or not it still has the log's name; the       *)
(* backups are older, each than the one before it.  A byte that is logged  *)
(* is newer than all others, so only the newest file may grow.             *)
(*                                                                         *)
(* And that what is logged, and what the communication events carry, is    *)
(* what the bytes of the output call for, read one by one.  The argument   *)
(* is about the last token, which ended at q: behind it stands no other    *)
(* that the dispatcher waits for, or it would have seen it, and what it    *)
(* has of a capture is the end of what came since q.                       *)
(*                                                                         *)
(* And what the calls that read parts of a log make of any file.           *)
(***************************************************************************)
EXTENDS LogStreams, LogReads, FiniteSetTheorems, SequenceTheorems, WellFoundedInduction, TLAPS

-----------------------------------------------------------------------------
(* The invariant of a log L of which held are files that others have open, *)
(* and in which the last byte is at most d.                                *)

\* The backups are different files.
Apart(L) == \A i, j \in DOMAIN L.backups : i # j /\ L.backups[i] = L.backups[j] => L.backups[i] = NoFile

\* The log's name is that of the handler's file, or of none; that file is no backup.
Handled(L) ==
    /\ L.base \in {NoFile, L.stream}
    /\ \A i \in DOMAIN L.backups : L.backups[i] # L.stream

Holding(L, d) ==
    \A f \in Inodes : Increasing(L.content[f]) /\ \A b \in Held(L, f) : 0 < b /\ b <= d

\* A backup is older than the backups before it, and all are older than the handler's file.
BackupsInOrder(L) == \A i, j \in DOMAIN L.backups :
    i < j /\ L.backups[i] # NoFile /\ L.backups[j] # NoFile => Older(L, L.backups[j], L.backups[i])
StreamIsLast(L) == \A i \in DOMAIN L.backups :
    L.backups[i] # NoFile => Older(L, L.backups[i], L.stream)

\* What has no name and no holder is gone.
Tidy(L, held) == \A f \in Inodes \ Used(L, held) : L.content[f] = <<>>

Rotating(L, held, d) ==
    /\ Apart(L) /\ Handled(L) /\ Holding(L, d) /\ BackupsInOrder(L) /\ StreamIsLast(L)
    /\ Tidy(L, held)

\* Nobody removed a file: the backups are full and have no gap between them, and the files hold the
\* end of what was logged, all of it until there are as many backups as there may be.
NoGaps(L) == \A i, j \in DOMAIN L.backups : i < j /\ L.backups[j] # NoFile => L.backups[i] # NoFile
Full(L) == \A i \in DOMAIN L.backups :
    L.backups[i] # NoFile => Len(L.content[L.backups[i]]) >= L.maxbytes
Ends(L, logged) ==
    /\ Kept(L) \subseteq logged
    /\ \A a \in Kept(L), b \in logged : a < b => b \in Kept(L)
    /\ Kept(L) # logged => \A i \in DOMAIN L.backups : L.backups[i] # NoFile
Complete(L, logged) == L.base = L.stream /\ NoGaps(L) /\ Full(L) /\ Ends(L, logged)

-----------------------------------------------------------------------------
(* The invariant of a client t that follows it.                            *)

Given(t) == t.sent \o t.out
Got(t) == ToSet(Given(t)) \ {Truncated}
InOrder(s) == \A i, j \in DOMAIN s : i < j /\ Truncated \notin {s[i], s[j]} => s[i] < s[j]
ReadOf(L, t) == {L.content[t.ino][k] : k \in 1..t.sz}

\* What it has not read, and all there is once the file was truncated, is newer than what it got;
\* so is what is in the file it will follow next, which is newer than the one it follows.
Ahead(L, t) ==
    /\ \A k \in DOMAIN L.content[t.ino] :
          k > t.sz \/ Len(L.content[t.ino]) < t.sz => \A r \in Got(t) : r < L.content[t.ino][k]
    /\ t.ino # L.stream =>
          Older(L, t.ino, L.stream) /\ \A r \in Got(t), b \in Held(L, L.stream) : r < b

\* There is no gap between bytes of the file that it has.
Unbroken(L, t) ==
    t.sz <= Len(L.content[t.ino]) =>
        \A a \in ReadOf(L, t) \cap Got(t), b \in ReadOf(L, t) : a < b => b \in Got(t)

\* A log with backups is never truncated.
Whole(L, t) ==
    /\ t.sz <= Len(L.content[t.ino])
    /\ ReadOf(L, t) \subseteq Got(t) \/ Got(t) \subseteq ReadOf(L, t)
    /\ \A a \in ReadOf(L, t) \cap Got(t), b \in ReadOf(L, t) \cup Got(t) :
          a < b => b \in ReadOf(L, t) \cap Got(t)

Following(L, t, d) ==
    /\ InOrder(Given(t)) /\ \A r \in Got(t) : r <= d
    /\ t.at = "open" =>
          t.ino \in Inodes /\ Ahead(L, t) /\ Unbroken(L, t) /\ (L.backups # <<>> => Whole(L, t))

-----------------------------------------------------------------------------
\* A log L of program p that has a client t, when c is all that was logged of the first d bytes.
HeldBy(t) == IF t.at = "open" THEN {t.ino} ELSE {}
Single(held) == \E f : held \subseteq {f}
Fits(L, p) == Len(L.backups) = p.backups /\ L.maxbytes = p.maxbytes
UpTo(c, d) == Increasing(c) /\ \A b \in ToSet(c) : b <= d
Sound(p, L, t, c, d) ==
    /\ Fits(L, p) /\ UpTo(c, d)
    /\ Rotating(L, HeldBy(t), d)
    /\ Following(L, t, d)

IInv ==
    /\ TypeOK
    /\ Sound(program, log, tail, recorded, done)
    /\ mishaps = 0 => Complete(log, ToSet(recorded))

-----------------------------------------------------------------------------
(* Files are there.                                                        *)

LEMMA OneMore ==
    ASSUME NEW S, NEW x, IsFiniteSet(S)
    PROVE  /\ IsFiniteSet(S \cup {x}) /\ Cardinality(S \cup {x}) <= Cardinality(S) + 1
           /\ Cardinality(S) \in Nat /\ Cardinality(S \cup {x}) \in Nat
<1>1. /\ IsFiniteSet(S \cup {x})
      /\ Cardinality(S \cup {x}) = IF x \in S THEN Cardinality(S) ELSE Cardinality(S) + 1
  BY FS_AddElement, Zenon
<1>2. Cardinality(S) \in Nat /\ Cardinality(S \cup {x}) \in Nat
  BY <1>1, FS_CardinalityType, Zenon
<1> QED BY <1>1, <1>2

\* As many files are in use as a log has backups, and two more.
LEMMA UsedFinite ==
    ASSUME NEW L \in LogType, NEW f
    PROVE  LET S == {L.backups[i] : i \in 1..Len(L.backups)} \cup {L.stream} \cup {f}
           IN  IsFiniteSet(S) /\ Cardinality(S) <= Len(L.backups) + 2
<1> DEFINE B == {L.backups[i] : i \in 1..Len(L.backups)}
           n == Len(L.backups)
<1>1. n \in Nat /\ L.backups \in [1..n -> B]
  BY DEF LogType
<1>2. L.backups \in Surjection(1..n, B)
  BY <1>1 DEF Surjection
<1> HIDE DEF B, n
<1>3. IsFiniteSet(1..n) /\ Cardinality(1..n) = n
  <2>1. 1 \in Int /\ n \in Int
    BY <1>1
  <2>2. IsFiniteSet(1..n) /\ Cardinality(1..n) = IF 1 > n THEN 0 ELSE n - 1 + 1
    BY <2>1, FS_Interval, Zenon
  <2> QED BY <1>1, <2>2
<1>4. IsFiniteSet(B) /\ Cardinality(B) <= n
  <2>1. IsFiniteSet(B) /\ Cardinality(B) <= Cardinality(1..n)
    BY <1>2, <1>3, FS_Surjection, Zenon
  <2> QED BY <1>3, <2>1
<1>5. /\ IsFiniteSet(B \cup {L.stream})
      /\ Cardinality(B \cup {L.stream}) <= Cardinality(B) + 1
      /\ Cardinality(B) \in Nat /\ Cardinality(B \cup {L.stream}) \in Nat
  BY <1>4, OneMore, Zenon
<1>6. /\ IsFiniteSet((B \cup {L.stream}) \cup {f})
      /\ Cardinality((B \cup {L.stream}) \cup {f}) <= Cardinality(B \cup {L.stream}) + 1
      /\ Cardinality((B \cup {L.stream}) \cup {f}) \in Nat
  BY <1>5, OneMore, Zenon
<1>7. Cardinality((B \cup {L.stream}) \cup {f}) <= n + 2
  BY <1>1, <1>4, <1>5, <1>6
<1> QED BY <1>6, <1>7 DEF B, n

\* There is always a file for a log that has none: the room the system has is enough.
LEMMA FreeIsFree ==
    ASSUME NEW p \in Programs, NEW L \in LogType, Len(L.backups) = p.backups,
           L.base = NoFile, NEW held, \E f : held \subseteq {f}
    PROVE  FreeInode(L, held) \in Inodes \ Used(L, held)
<1>1. PICK f : held \subseteq {f}
  OBVIOUS
<1> DEFINE S == {L.backups[i] : i \in 1..Len(L.backups)} \cup {L.stream} \cup {f}
<1>2. IsFiniteSet(S) /\ Cardinality(S) <= p.backups + 2
  BY UsedFinite
<1>3. Cardinality(S) \in Nat /\ p.backups \in Nat
  BY <1>2, FS_CardinalityType, StreamsAssumption
<1>4. ~(Inodes \subseteq S)
  <2>1. SUFFICES ASSUME Inodes \subseteq S PROVE FALSE
    OBVIOUS
  <2>2. IsFiniteSet(Inodes) /\ Cardinality(Inodes) <= Cardinality(S)
    BY <1>2, <2>1, FS_Subset
  <2>3. Cardinality(Inodes) \in Nat /\ Cardinality(Inodes) > p.backups + 2
    BY <2>2, FS_CardinalityType, RoomAssumption
  <2> QED BY <1>2, <1>3, <2>2, <2>3
<1>5. PICK g \in Inodes : g \notin S
  BY <1>4
<1>6. g \in Inodes \ Used(L, held)
  BY <1>1, <1>5, LogAssumption DEF Used, NoFile
<1> QED BY <1>6 DEF FreeInode

-----------------------------------------------------------------------------
(* A log is opened.                                                        *)

Backup(L, f) == \E i \in DOMAIN L.backups : L.backups[i] = f

\* L is K with the file s behind the log's name and for the handler.
Opened(K, L, s, held) ==
    /\ L \in LogType /\ L.backups = K.backups /\ L.maxbytes = K.maxbytes
    /\ s \in Inodes /\ L.base = s /\ L.stream = s
    /\ IF K.base = NoFile THEN s \notin Used(K, held) ELSE s = K.base
    /\ \A f \in Inodes \ {s} :
          L.content[f] = IF f \in held \/ Backup(K, f) THEN K.content[f] ELSE <<>>

\* Whether a log has room, for those with the backups of the program.
HasRoom(K, held) == K.base = NoFile => FreeInode(K, held) \in Inodes \ Used(K, held)

LEMMA RemainingIs ==
    ASSUME NEW K \in LogType, NEW held
    PROVE  /\ Remaining(K, held) \in LogType
           /\ Remaining(K, held).base = K.base /\ Remaining(K, held).stream = K.stream
           /\ Remaining(K, held).backups = K.backups /\ Remaining(K, held).maxbytes = K.maxbytes
           /\ \A f \in Inodes :
                 Remaining(K, held).content[f] = IF f \in Used(K, held) THEN K.content[f] ELSE <<>>
<1>1. K.content \in [Inodes -> Seq(Nat)] /\ <<>> \in Seq(Nat)
  BY DEF LogType
<1>2. [i \in Inodes |-> IF i \in Used(K, held) THEN K.content[i] ELSE <<>>] \in [Inodes -> Seq(Nat)]
  BY <1>1
<1> QED BY <1>1, <1>2 DEF Remaining, LogType

LEMMA OpenIs ==
    ASSUME NEW K \in LogType, NEW held, HasRoom(K, held)
    PROVE  \E s \in Inodes : Opened(K, Open(K, held), s, held) /\ Open(K, held).content[s] = K.content[s]
<1> DEFINE s == IF K.base # NoFile THEN K.base ELSE FreeInode(K, held)
           K2 == [K EXCEPT !.base = s, !.stream = s]
<1>1. s \in Inodes /\ (K.base = NoFile => s \notin Used(K, held)) /\ (K.base # NoFile => s = K.base)
  BY DEF HasRoom, LogType
<1>2. Open(K, held) = Remaining(K2, held)
  BY DEF Open, LogType
<1>3. /\ K2 \in LogType /\ K2.base = s /\ K2.stream = s /\ K2.backups = K.backups
      /\ K2.maxbytes = K.maxbytes /\ K2.content = K.content
  BY <1>1 DEF LogType
<1> HIDE DEF s, K2
<1>4. \A f \in Inodes : f \in Used(K2, held) <=> f = s \/ f \in held \/ Backup(K, f)
  BY <1>3 DEF Used, Backup, LogType
<1>5. Opened(K, Open(K, held), s, held)
  BY <1>1, <1>2, <1>3, <1>4, RemainingIs DEF Opened
<1>6. Open(K, held).content[s] = K.content[s]
  BY <1>1, <1>2, <1>3, <1>4, RemainingIs
<1> QED BY <1>1, <1>5, <1>6

LEMMA OpenEmptyIs ==
    ASSUME NEW K \in LogType, NEW held, HasRoom(K, held)
    PROVE  \E s \in Inodes : Opened(K, OpenEmpty(K, held), s, held) /\ OpenEmpty(K, held).content[s] = <<>>
<1> DEFINE O == Open(K, held)
<1>1. PICK s \in Inodes : Opened(K, O, s, held)
  BY OpenIs
<1>2. O \in LogType /\ O.stream = s
  BY <1>1 DEF Opened
<1>3. OpenEmpty(K, held) = [O EXCEPT !.content[s] = <<>>]
  BY <1>2 DEF OpenEmpty
<1> DEFINE E == OpenEmpty(K, held)
<1> HIDE DEF O
<1> DEFINE C == [O.content EXCEPT ![s] = <<>>]
<1>4. C \in [Inodes -> Seq(Nat)]
  <2>1. O.content \in [Inodes -> Seq(Nat)] /\ <<>> \in Seq(Nat)
    BY <1>2 DEF LogType
  <2> QED BY <2>1
<1>5. /\ E \in LogType /\ E.base = O.base /\ E.stream = O.stream /\ E.backups = O.backups
      /\ E.maxbytes = O.maxbytes /\ E.content = C
  <2>1. E = [O EXCEPT !.content = C]
    BY <1>2, <1>3 DEF LogType
  <2> HIDE DEF C, E
  <2> QED BY <1>2, <1>4, <2>1 DEF LogType
<1>6. E.content[s] = <<>> /\ \A f \in Inodes \ {s} : E.content[f] = O.content[f]
  BY <1>2, <1>5 DEF LogType
<1> HIDE DEF E
<1>7. Opened(K, E, s, held)
  BY <1>1, <1>5, <1>6 DEF Opened
<1> QED BY <1>6, <1>7 DEF E

\* Every log of the program can be opened.
LEMMA RoomFor ==
    ASSUME NEW p \in Programs, NEW L \in LogType, Len(L.backups) = p.backups,
           NEW held, \E f : held \subseteq {f}
    PROVE  HasRoom(L, held)
BY FreeIsFree DEF HasRoom

\* A file keeps what it holds or is emptied: what is newer, and in what order, stays.
LEMMA LessIsHeld ==
    ASSUME NEW K \in LogType, NEW L \in LogType, NEW d \in Nat, Holding(K, d),
           \A f \in Inodes : L.content[f] \in {K.content[f], <<>>}
    PROVE  /\ Holding(L, d)
           /\ \A f, g \in Inodes : Older(K, f, g) => Older(L, f, g)
<1>1. ASSUME NEW f \in Inodes PROVE Held(L, f) \subseteq Held(K, f)
  <2>1. CASE L.content[f] = K.content[f]
    BY <2>1 DEF Held
  <2>2. CASE L.content[f] = <<>>
    BY <2>2 DEF Held
  <2> QED BY <2>1, <2>2
<1>2. ASSUME NEW f \in Inodes PROVE Increasing(L.content[f])
  <2>1. CASE L.content[f] = K.content[f]
    BY <2>1 DEF Holding
  <2>2. CASE L.content[f] = <<>>
    BY <2>2 DEF Increasing
  <2> QED BY <2>1, <2>2
<1> QED BY <1>1, <1>2 DEF Holding, Older

\* The file a log is opened with is the newest.
LEMMA OpenedKeeps ==
    ASSUME NEW K \in LogType, NEW L, NEW s \in Inodes, NEW held, NEW d \in Nat,
           Rotating(K, held, d), Opened(K, L, s, held), L.content[s] = K.content[s]
    PROVE  Rotating(L, held, d) /\ \A f \in Inodes : L.content[f] \in {K.content[f], <<>>}
<1>1. L \in LogType /\ L.backups = K.backups /\ L.base = s /\ L.stream = s /\ s # NoFile
  BY LogAssumption DEF Opened, NoFile
<1>2. \A f \in Inodes : L.content[f] \in {K.content[f], <<>>}
  BY DEF Opened
<1>3. Holding(L, d) /\ \A f, g \in Inodes : Older(K, f, g) => Older(L, f, g)
  BY <1>1, <1>2, LessIsHeld DEF Rotating
<1>4. \A i \in DOMAIN K.backups : K.backups[i] # NoFile => K.backups[i] \in Inodes
  BY DEF LogType
<1>5. \A i \in DOMAIN K.backups : K.backups[i] # s
  <2>1. CASE K.base = NoFile
    BY <2>1 DEF Opened, Used, LogType
  <2>2. CASE K.base # NoFile
    BY <2>2 DEF Opened, Rotating, Handled
  <2> QED BY <2>1, <2>2
<1>6. Apart(L) /\ Handled(L) /\ BackupsInOrder(L)
  BY <1>1, <1>3, <1>4, <1>5 DEF Apart, Handled, BackupsInOrder, Rotating
<1>7. StreamIsLast(L)
  <2>1. CASE K.base = NoFile
    <3>1. L.content[s] = <<>>
      BY <2>1 DEF Opened, Rotating, Tidy
    <3> QED BY <1>1, <3>1 DEF StreamIsLast, Older, Held
  <2>2. CASE K.base # NoFile
    <3>1. s = K.stream
      BY <2>2 DEF Opened, Rotating, Handled
    <3> QED BY <1>1, <1>3, <1>4, <3>1 DEF StreamIsLast, Rotating
  <2> QED BY <2>1, <2>2
<1>8. Tidy(L, held)
  <2>1. SUFFICES ASSUME NEW f \in Inodes, f \notin Used(L, held) PROVE L.content[f] = <<>>
    BY DEF Tidy
  <2>2. f # s /\ f \notin held /\ ~Backup(K, f)
    BY <1>1, <2>1 DEF Used, Backup, LogType
  <2> QED BY <2>2 DEF Opened
<1> QED BY <1>2, <1>3, <1>6, <1>7, <1>8 DEF Rotating

\* So is one that is emptied, if no name is left for an older file.
LEMMA EmptiedKeeps ==
    ASSUME NEW K \in LogType, NEW L, NEW s \in Inodes, NEW held, NEW d \in Nat,
           Apart(K), BackupsInOrder(K), Holding(K, d), K.base = NoFile \/ K.backups = <<>>,
           Opened(K, L, s, held), L.content[s] = <<>>
    PROVE  Rotating(L, held, d) /\ \A f \in Inodes : L.content[f] \in {K.content[f], <<>>}
<1>1. L \in LogType /\ L.backups = K.backups /\ L.base = s /\ L.stream = s /\ s # NoFile
  BY LogAssumption DEF Opened, NoFile
<1>2. \A f \in Inodes : L.content[f] \in {K.content[f], <<>>}
  BY DEF Opened
<1>3. Holding(L, d) /\ \A f, g \in Inodes : Older(K, f, g) => Older(L, f, g)
  BY <1>1, <1>2, LessIsHeld
<1>4. \A i \in DOMAIN K.backups : K.backups[i] # NoFile => K.backups[i] \in Inodes
  BY DEF LogType
<1>5. \A i \in DOMAIN K.backups : K.backups[i] # s
  BY DEF Opened, Used, LogType
<1>6. Apart(L) /\ Handled(L) /\ BackupsInOrder(L)
  BY <1>1, <1>3, <1>4, <1>5 DEF Apart, Handled, BackupsInOrder
<1>7. StreamIsLast(L)
  BY <1>1 DEF StreamIsLast, Older, Held
<1>8. Tidy(L, held)
  <2>1. SUFFICES ASSUME NEW f \in Inodes, f \notin Used(L, held) PROVE L.content[f] = <<>>
    BY DEF Tidy
  <2>2. f # s /\ f \notin held /\ ~Backup(K, f)
    BY <1>1, <2>1 DEF Used, Backup, LogType
  <2> QED BY <2>2 DEF Opened
<1> QED BY <1>2, <1>3, <1>6, <1>7, <1>8 DEF Rotating

-----------------------------------------------------------------------------
(* A log is written to, and rotated.                                       *)

\* What is written is newer than all there is.
Newer(data, d, e) ==
    data \in Seq(Nat) /\ Increasing(data) /\ \A k \in DOMAIN data : d < data[k] /\ data[k] <= e
Written(L, data) == [L EXCEPT !.content[L.stream] = @ \o data]

LEMMA WrittenIs ==
    ASSUME NEW L \in LogType, NEW data \in Seq(Nat)
    PROVE  /\ Written(L, data) \in LogType
           /\ Written(L, data).base = L.base /\ Written(L, data).stream = L.stream
           /\ Written(L, data).backups = L.backups /\ Written(L, data).maxbytes = L.maxbytes
           /\ Written(L, data).content[L.stream] = L.content[L.stream] \o data
           /\ \A f \in Inodes \ {L.stream} : Written(L, data).content[f] = L.content[f]
<1> DEFINE C == [L.content EXCEPT ![L.stream] = @ \o data]
<1>1. L.content \in [Inodes -> Seq(Nat)] /\ L.stream \in Inodes
  BY DEF LogType
<1>2. C \in [Inodes -> Seq(Nat)]
  BY <1>1
<1>3. Written(L, data) = [L EXCEPT !.content = C]
  BY DEF Written, LogType
<1>4. C[L.stream] = L.content[L.stream] \o data /\ \A f \in Inodes \ {L.stream} : C[f] = L.content[f]
  BY <1>1
<1> HIDE DEF C
<1> QED BY <1>1, <1>2, <1>3, <1>4 DEF LogType

LEMMA WrittenHolds ==
    ASSUME NEW L \in LogType, NEW data \in Seq(Nat), NEW f \in Inodes
    PROVE  Held(Written(L, data), f)
              = IF f = L.stream THEN Held(L, f) \cup {data[k] : k \in DOMAIN data} ELSE Held(L, f)
<1>1. CASE f # L.stream
  BY <1>1, WrittenIs DEF Held
<1>2. CASE f = L.stream
  <2> DEFINE c == L.content[f]
  <2>1. c \in Seq(Nat) /\ Written(L, data).content[f] = c \o data
    BY <1>2, WrittenIs DEF LogType
  <2> HIDE DEF c
  <2>2. {(c \o data)[k] : k \in DOMAIN (c \o data)} = {c[k] : k \in DOMAIN c} \cup {data[k] : k \in DOMAIN data}
    <3>1. ASSUME NEW k \in DOMAIN c PROVE k \in DOMAIN (c \o data) /\ (c \o data)[k] = c[k]
      BY <2>1
    <3>2. ASSUME NEW k \in DOMAIN data
          PROVE  Len(c) + k \in DOMAIN (c \o data) /\ (c \o data)[Len(c) + k] = data[k]
      BY <2>1
    <3>3. c \o data \in Seq(Nat) /\ DOMAIN (c \o data) = 1..(Len(c) + Len(data))
      BY <2>1
    <3>4. ASSUME NEW k \in DOMAIN (c \o data)
          PROVE  \/ k \in DOMAIN c /\ (c \o data)[k] = c[k]
                 \/ k - Len(c) \in DOMAIN data /\ (c \o data)[k] = data[k - Len(c)]
      BY <2>1
    <3> DEFINE cd == c \o data
    <3> HIDE DEF cd
    <3>5. \A k \in DOMAIN cd : \/ k \in DOMAIN c /\ cd[k] = c[k]
                              \/ \E i \in DOMAIN data : cd[k] = data[i]
      BY <3>4 DEF cd
    <3>6. /\ \A k \in DOMAIN c : k \in DOMAIN cd /\ cd[k] = c[k]
          /\ \A i \in DOMAIN data : \E k \in DOMAIN cd : cd[k] = data[i]
      BY <3>1, <3>2 DEF cd
    <3>7. {cd[k] : k \in DOMAIN cd} = {c[k] : k \in DOMAIN c} \cup {data[k] : k \in DOMAIN data}
      <4>1. ASSUME NEW k \in DOMAIN cd
            PROVE  cd[k] \in {c[i] : i \in DOMAIN c} \cup {data[i] : i \in DOMAIN data}
        BY <3>5
      <4>2. ASSUME NEW k \in DOMAIN c PROVE c[k] \in {cd[i] : i \in DOMAIN cd}
        BY <3>6
      <4>3. ASSUME NEW k \in DOMAIN data PROVE data[k] \in {cd[i] : i \in DOMAIN cd}
        BY <3>6
      <4> QED BY <4>1, <4>2, <4>3
    <3> QED BY <3>7 DEF cd
  <2> QED BY <1>2, <2>1, <2>2 DEF Held, c
<1> QED BY <1>1, <1>2

LEMMA Longer ==
    ASSUME NEW c \in Seq(Nat), NEW data \in Seq(Nat), Increasing(c), Increasing(data),
           \A i \in DOMAIN c, k \in DOMAIN data : c[i] < data[k]
    PROVE  Increasing(c \o data)
<1> SUFFICES ASSUME NEW i \in 1..(Len(c) + Len(data)), NEW j \in 1..(Len(c) + Len(data)), i < j
             PROVE  (c \o data)[i] < (c \o data)[j]
  BY DEF Increasing
<1>1. CASE j <= Len(c)
  BY <1>1 DEF Increasing
<1>2. CASE i <= Len(c) /\ j > Len(c)
  BY <1>2
<1>3. CASE i > Len(c)
  <2>1. i - Len(c) \in DOMAIN data /\ j - Len(c) \in DOMAIN data /\ i - Len(c) < j - Len(c)
    BY <1>3
  <2>2. (c \o data)[i] = data[i - Len(c)] /\ (c \o data)[j] = data[j - Len(c)]
    BY <1>3
  <2> QED BY <2>1, <2>2 DEF Increasing
<1> QED BY <1>1, <1>2, <1>3

\* Only the newest file grows, by what is newer still.
LEMMA WrittenKeeps ==
    ASSUME NEW L \in LogType, NEW held, NEW d \in Nat, NEW e \in Nat, d <= e, NEW data,
           Newer(data, d, e), Rotating(L, held, d)
    PROVE  Rotating(Written(L, data), held, e)
<1> DEFINE W == Written(L, data)
<1>1. data \in Seq(Nat) /\ \A k \in DOMAIN data : d < data[k] /\ data[k] <= e
  BY DEF Newer
<1>2. /\ W \in LogType /\ W.base = L.base /\ W.stream = L.stream /\ W.backups = L.backups
      /\ W.content[L.stream] = L.content[L.stream] \o data
      /\ \A f \in Inodes \ {L.stream} : W.content[f] = L.content[f]
  BY <1>1, WrittenIs
<1>3. L.stream \in Inodes /\ \A i \in DOMAIN L.backups : L.backups[i] # NoFile => L.backups[i] \in Inodes
  BY DEF LogType
<1>4. \A f \in Inodes :
         Held(W, f) = IF f = L.stream THEN Held(L, f) \cup {data[k] : k \in DOMAIN data} ELSE Held(L, f)
  BY <1>1, WrittenHolds
<1> HIDE DEF W
<1>5. Apart(W) /\ Handled(W)
  BY <1>2 DEF Apart, Handled, Rotating
<1>6. Holding(W, e)
  <2>1. ASSUME NEW f \in Inodes PROVE Increasing(W.content[f])
    <3>1. CASE f # L.stream
      BY <1>2, <3>1 DEF Rotating, Holding
    <3>2. CASE f = L.stream
      <4>1. \A i \in DOMAIN L.content[f] : L.content[f][i] <= d
        BY DEF Rotating, Holding, Held
      <4>2. L.content[f] \in Seq(Nat) /\ Increasing(L.content[f]) /\ Increasing(data)
        BY DEF Rotating, Holding, LogType, Newer
      <4>3. \A i \in DOMAIN L.content[f], k \in DOMAIN data : L.content[f][i] < data[k]
        BY <1>1, <4>1, <4>2
      <4> QED BY <1>1, <1>2, <3>2, <4>2, <4>3, Longer
    <3> QED BY <3>1, <3>2
  <2>2. ASSUME NEW f \in Inodes, NEW b \in Held(W, f) PROVE 0 < b /\ b <= e
    <3>1. CASE b \in Held(L, f)
      <4>1. 0 < b /\ b <= d /\ b \in Nat
        BY <3>1 DEF Rotating, Holding, Held, LogType
      <4> QED BY <4>1
    <3>2. CASE \E k \in DOMAIN data : b = data[k]
      <4>1. PICK k \in DOMAIN data : b = data[k]
        BY <3>2
      <4>2. data[k] \in Nat /\ d < data[k] /\ data[k] <= e
        BY <1>1
      <4> QED BY <4>1, <4>2
    <3> QED BY <1>4, <3>1, <3>2
  <2> QED BY <2>1, <2>2 DEF Holding
<1>7. BackupsInOrder(W)
  BY <1>2, <1>3, <1>4 DEF BackupsInOrder, Older, Rotating, Handled
<1>8. StreamIsLast(W)
  <2>1. SUFFICES ASSUME NEW i \in DOMAIN L.backups, L.backups[i] # NoFile,
                        NEW a \in Held(W, L.backups[i]), NEW b \in Held(W, L.stream)
                 PROVE  a < b
    BY <1>2 DEF StreamIsLast, Older
  <2>2. L.backups[i] \in Inodes /\ a \in Held(L, L.backups[i])
    BY <1>3, <1>4, <2>1 DEF Rotating, Handled
  <2>3. a <= d /\ a \in Nat
    BY <2>2 DEF Rotating, Holding, Held, LogType
  <2>4. CASE b \in Held(L, L.stream)
    BY <2>1, <2>2, <2>4 DEF Rotating, StreamIsLast, Older
  <2>5. CASE \E k \in DOMAIN data : b = data[k]
    <3>1. PICK k \in DOMAIN data : b = data[k]
      BY <2>5
    <3>2. data[k] \in Nat /\ d < data[k]
      BY <1>1
    <3> QED BY <2>3, <3>1, <3>2
  <2> QED BY <1>3, <1>4, <2>4, <2>5
<1>9. Tidy(W, held)
  <2>1. Used(W, held) = Used(L, held)
    BY <1>2 DEF Used
  <2>2. L.stream \in Used(L, held)
    BY DEF Used
  <2>3. Tidy(L, held)
    BY DEF Rotating
  <2>4. ASSUME NEW f \in Inodes \ Used(W, held) PROVE W.content[f] = <<>>
    BY <1>2, <2>1, <2>2, <2>3, <2>4 DEF Tidy
  <2> QED BY <2>4 DEF Tidy
<1> QED BY <1>5, <1>6, <1>7, <1>8, <1>9 DEF Rotating, W

LEMMA ShiftedIs ==
    ASSUME NEW L \in LogType
    PROVE  /\ Shifted(L) \in LogType /\ Shifted(L).base = NoFile
           /\ Shifted(L).stream = L.stream /\ Shifted(L).content = L.content
           /\ Shifted(L).maxbytes = L.maxbytes /\ Len(Shifted(L).backups) = Len(L.backups)
           /\ DOMAIN Shifted(L).backups = DOMAIN L.backups
           /\ \A i \in DOMAIN L.backups :
                 Shifted(L).backups[i] =
                    IF i = 1 THEN L.base
                    ELSE IF i = Len(L.backups) /\ L.backups[i - 1] = NoFile THEN L.backups[i]
                    ELSE L.backups[i - 1]
<1> DEFINE n == Len(L.backups)
           B == [i \in 1..n |-> IF i = 1 THEN L.base
                                ELSE IF i = n /\ L.backups[i - 1] = NoFile THEN L.backups[i]
                                ELSE L.backups[i - 1]]
<1>1. n \in Nat /\ L.base \in Inodes \cup {NoFile} /\ L.backups \in [1..n -> Inodes \cup {NoFile}]
  BY DEF LogType
<1>2. B \in [1..n -> Inodes \cup {NoFile}]
  BY <1>1
<1>3. B \in Seq(Inodes \cup {NoFile}) /\ Len(B) = n /\ DOMAIN B = 1..n
  BY <1>1, <1>2
<1>4. Shifted(L) = [L EXCEPT !.base = NoFile, !.backups = B]
  BY DEF Shifted
<1>5. \A i \in 1..n : B[i] = IF i = 1 THEN L.base
                             ELSE IF i = n /\ L.backups[i - 1] = NoFile THEN L.backups[i]
                             ELSE L.backups[i - 1]
  OBVIOUS
<1> HIDE DEF B
<1> QED BY <1>1, <1>3, <1>4, <1>5 DEF LogType

\* The files are as they were, one generation older, but for one that may be given up.
LEMMA ShiftedKeeps ==
    ASSUME NEW L \in LogType, Apart(L), Handled(L), BackupsInOrder(L), StreamIsLast(L)
    PROVE  Apart(Shifted(L)) /\ BackupsInOrder(Shifted(L))
<1> DEFINE K == Shifted(L)
           n == Len(L.backups)
<1>1. /\ DOMAIN K.backups = 1..n /\ DOMAIN L.backups = 1..n /\ n \in Nat
      /\ \A f : Held(K, f) = Held(L, f)
      /\ \A i \in 1..n : K.backups[i] =
            IF i = 1 THEN L.base
            ELSE IF i = n /\ L.backups[i - 1] = NoFile THEN L.backups[i] ELSE L.backups[i - 1]
  <2>1. n \in Nat /\ DOMAIN L.backups = 1..n
    BY DEF LogType
  <2>2. K.content = L.content
    BY ShiftedIs
  <2>3. \A f : Held(K, f) = Held(L, f)
    BY <2>2 DEF Held
  <2> QED BY <2>1, <2>3, ShiftedIs
<1> HIDE DEF K
\* What was behind the two names before.
<1>2. ASSUME NEW i \in 1..n, NEW j \in 1..n, i < j, K.backups[i] # NoFile, K.backups[j] # NoFile
      PROVE  K.backups[i] # K.backups[j] /\ Older(L, K.backups[j], K.backups[i])
  <2>1. PICK m \in 1..n : K.backups[j] = L.backups[m] /\ i <= m /\ (j = m => j = n /\ L.backups[j - 1] = NoFile)
                          /\ (i = m => i = j - 1)
    <3>1. CASE j = n /\ L.backups[j - 1] = NoFile
      BY <1>1, <1>2, <3>1
    <3>2. CASE ~(j = n /\ L.backups[j - 1] = NoFile)
      <4>1. j - 1 \in 1..n /\ K.backups[j] = L.backups[j - 1] /\ i <= j - 1
        BY <1>1, <1>2, <3>2
      <4> QED BY <4>1
    <3> QED BY <3>1, <3>2
  <2>2. CASE i = 1
    <3>1. K.backups[i] = L.stream
      BY <1>1, <1>2, <2>2 DEF Handled
    <3> QED BY <1>1, <1>2, <2>1, <3>1 DEF Handled, StreamIsLast
  <2>3. CASE i > 1
    <3>1. i - 1 \in 1..n /\ i - 1 < m /\ K.backups[i] = L.backups[i - 1]
      BY <1>1, <1>2, <2>1, <2>3
    <3>2. PICK l \in DOMAIN L.backups : l < m /\ K.backups[i] = L.backups[l]
      BY <1>1, <3>1
    <3>3. l # m /\ m \in DOMAIN L.backups /\ L.backups[l] # NoFile /\ L.backups[m] # NoFile
      BY <1>1, <1>2, <2>1, <3>2
    <3>4. L.backups[l] # L.backups[m]
      BY <3>3 DEF Apart
    <3>5. Older(L, L.backups[m], L.backups[l])
      BY <3>2, <3>3 DEF BackupsInOrder
    <3> QED BY <2>1, <3>2, <3>4, <3>5
  <2> QED BY <2>2, <2>3
<1>3. Apart(K)
  <2>1. SUFFICES ASSUME NEW i \in 1..n, NEW j \in 1..n, i # j, K.backups[i] = K.backups[j],
                        K.backups[i] # NoFile
                 PROVE  FALSE
    BY <1>1 DEF Apart
  <2>2. i < j \/ j < i
    BY <2>1
  <2> QED BY <1>2, <2>1, <2>2
<1>4. BackupsInOrder(K)
  BY <1>1, <1>2 DEF BackupsInOrder, Older
<1> QED BY <1>3, <1>4 DEF K

\* What emit() comes to: the data is in the handler's file, which is the newest; or a rollover
\* made it a backup, or emptied it, and the handler has an empty one.
LEMMA EmitIs ==
    ASSUME NEW p \in Programs, NEW L \in LogType, Len(L.backups) = p.backups,
           NEW held, \E f : held \subseteq {f}, NEW data \in Seq(Nat)
    PROVE  LET W == Written(L, data)
               M == emit(L, data, held)
           IN  \/ M = W
               \/ /\ Len(W.content[L.stream]) >= L.maxbytes
                  /\ \E s \in Inodes, K \in LogType :
                       /\ K = IF L.backups = <<>> THEN W ELSE Shifted(W)
                       /\ Opened(K, M, s, held) /\ M.content[s] = <<>>
<1> DEFINE W == Written(L, data)
           M == emit(L, data, held)
           K == IF L.backups = <<>> THEN W ELSE Shifted(W)
<1>1. /\ W \in LogType /\ W.stream = L.stream /\ W.backups = L.backups /\ W.maxbytes = L.maxbytes
      /\ W.content \in [Inodes -> Seq(Nat)]
  BY WrittenIs DEF LogType
<1>2. M = IF Len(W.content[W.stream]) < W.maxbytes THEN W ELSE OpenEmpty(K, held)
  <2>1. M = doRollover(W, held)
    BY DEF emit, Written
  <2>2. K = IF W.backups = <<>> THEN W ELSE Shifted(W)
    BY <1>1
  <2> HIDE DEF W, M, K
  <2> QED BY <2>1, <2>2 DEF doRollover
<1>3. K \in LogType /\ Len(K.backups) = p.backups
  BY <1>1, ShiftedIs
<1> HIDE DEF K, W, M
<1>4. HasRoom(K, held)
  BY <1>3, RoomFor
<1>5. \E s \in Inodes : Opened(K, OpenEmpty(K, held), s, held) /\ OpenEmpty(K, held).content[s] = <<>>
  BY <1>3, <1>4, OpenEmptyIs
<1>6. CASE Len(W.content[W.stream]) < W.maxbytes
  BY <1>2, <1>6 DEF W, M
<1>7. CASE ~(Len(W.content[W.stream]) < W.maxbytes)
  <2>1. Len(W.content[L.stream]) >= L.maxbytes
    <3>1. Len(W.content[W.stream]) \in Nat /\ W.maxbytes \in Nat
      BY <1>1 DEF LogType
    <3> QED BY <1>1, <1>7, <3>1
  <2>2. M = OpenEmpty(K, held)
    BY <1>2, <1>7
  <2>3. \E s \in Inodes : Opened(K, M, s, held) /\ M.content[s] = <<>>
    BY <1>5, <2>2
  <2>4. K = IF L.backups = <<>> THEN W ELSE Shifted(W)
    BY DEF K
  <2> QED BY <1>3, <2>1, <2>3, <2>4 DEF W, M
<1> QED BY <1>6, <1>7

LEMMA EmittedKeeps ==
    ASSUME NEW p \in Programs, NEW L \in LogType, Fits(L, p),
           NEW held, Single(held), NEW d \in Nat, NEW e \in Nat, d <= e,
           NEW data, Newer(data, d, e), Rotating(L, held, d)
    PROVE  /\ Rotating(emit(L, data, held), held, e) /\ emit(L, data, held) \in LogType
           /\ Fits(emit(L, data, held), p)
<1> DEFINE W == Written(L, data)
           M == emit(L, data, held)
<1>1. /\ data \in Seq(Nat) /\ (\E f : held \subseteq {f})
      /\ Len(L.backups) = p.backups /\ L.maxbytes = p.maxbytes
  BY DEF Newer, Fits, Single
<1>2. W \in LogType /\ Len(W.backups) = Len(L.backups) /\ W.maxbytes = L.maxbytes
  BY <1>1, WrittenIs
<1>3. Rotating(W, held, e)
  BY WrittenKeeps
<1>4. \/ M = W
      \/ \E s \in Inodes, K \in LogType :
            K = (IF L.backups = <<>> THEN W ELSE Shifted(W)) /\ Opened(K, M, s, held) /\ M.content[s] = <<>>
  BY <1>1, EmitIs
<1>5. W.backups = L.backups
  BY <1>1, WrittenIs
<1> HIDE DEF W, M
<1>6. CASE M = W
  BY <1>1, <1>2, <1>3, <1>6 DEF M, Fits
<1>7. ASSUME NEW s \in Inodes, NEW K \in LogType, Opened(K, M, s, held), M.content[s] = <<>>,
             K = IF L.backups = <<>> THEN W ELSE Shifted(W)
      PROVE  Rotating(M, held, e) /\ M \in LogType /\ Fits(M, p)
  <2>1. /\ Apart(K) /\ BackupsInOrder(K) /\ Holding(K, e) /\ (K.base = NoFile \/ K.backups = <<>>)
        /\ Len(K.backups) = Len(L.backups) /\ K.maxbytes = L.maxbytes
    <3>1. CASE L.backups = <<>>
      BY <1>2, <1>3, <1>5, <1>7, <3>1 DEF Rotating
    <3>2. CASE L.backups # <<>>
      <4>1. K = Shifted(W)
        BY <1>7, <3>2
      <4>2. Apart(K) /\ BackupsInOrder(K)
        BY <1>2, <1>3, <4>1, ShiftedKeeps DEF Rotating
      <4>3. K.content = W.content /\ K.base = NoFile /\ Len(K.backups) = Len(W.backups) /\ K.maxbytes = W.maxbytes
        BY <1>2, <4>1, ShiftedIs
      <4>4. Holding(K, e)
        BY <1>3, <4>3 DEF Rotating, Holding, Held
      <4> QED BY <1>2, <4>2, <4>3, <4>4
    <3> QED BY <3>1, <3>2
  <2>2. Rotating(M, held, e)
    BY <1>7, <2>1, EmptiedKeeps
  <2> QED BY <1>1, <1>7, <2>1, <2>2 DEF Opened, Fits
<1> QED BY <1>4, <1>6, <1>7 DEF M

-----------------------------------------------------------------------------
(* While nobody removes a file, the log and its backups are the end of     *)
(* what was logged.                                                        *)

LEMMA KeptIs ==
    ASSUME NEW L \in LogType, NEW b
    PROVE  b \in Kept(L) <=> \/ L.base # NoFile /\ b \in Held(L, L.base)
                             \/ \E i \in DOMAIN L.backups : L.backups[i] # NoFile /\ b \in Held(L, L.backups[i])
<1>1. Len(L.backups) \in Nat /\ DOMAIN L.backups = 1..Len(L.backups)
  BY DEF LogType
<1>2. ASSUME NEW f
      PROVE  f \in Named(L) <=> f # NoFile /\ (f = L.base \/ \E i \in DOMAIN L.backups : f = L.backups[i])
  <2>1. Files(L)[0] = L.base /\ \A i \in DOMAIN L.backups : Files(L)[i] = L.backups[i]
    BY <1>1 DEF Files
  <2>2. \A i \in 0..Len(L.backups) : i = 0 \/ i \in DOMAIN L.backups
    BY <1>1
  <2>3. 0 \in 0..Len(L.backups) /\ \A i \in DOMAIN L.backups : i \in 0..Len(L.backups)
    BY <1>1
  <2>4. f \in Named(L) <=> f # NoFile /\ \E i \in 0..Len(L.backups) : f = Files(L)[i]
    BY DEF Named
  <2> QED BY <2>1, <2>2, <2>3, <2>4
<1> QED BY <1>2 DEF Kept

LEMMA CompleteWritten ==
    ASSUME NEW L \in LogType, NEW held, NEW d \in Nat, NEW e \in Nat, NEW data, Newer(data, d, e),
           Rotating(L, held, d), NEW logged \in SUBSET Nat, \A b \in logged : b <= d,
           Complete(L, logged)
    PROVE  Complete(Written(L, data), logged \cup ToSet(data))
<1> DEFINE W == Written(L, data)
           new == {data[k] : k \in DOMAIN data}
<1>1. data \in Seq(Nat) /\ new = ToSet(data) /\ \A b \in new : b \in Nat /\ d < b
  BY DEF Newer, ToSet
<1>2. /\ W \in LogType /\ W.base = L.base /\ W.stream = L.stream /\ W.backups = L.backups
      /\ W.maxbytes = L.maxbytes /\ L.base = L.stream
      /\ \A f \in Inodes \ {L.stream} : W.content[f] = L.content[f]
  BY <1>1, WrittenIs DEF Complete
<1>3. \A f \in Inodes : Held(W, f) = IF f = L.stream THEN Held(L, f) \cup new ELSE Held(L, f)
  BY <1>1, WrittenHolds
<1>4. L.stream \in Inodes /\ L.stream # NoFile
      /\ \A i \in DOMAIN L.backups : L.backups[i] # NoFile => L.backups[i] \in Inodes \ {L.stream}
  BY LogAssumption DEF LogType, Rotating, Handled, NoFile
<1> HIDE DEF W, new
<1>5. NoGaps(W) /\ Full(W)
  BY <1>2, <1>4 DEF NoGaps, Full, Complete
<1>6. Kept(W) = Kept(L) \cup new
  <2>1. ASSUME NEW b PROVE b \in Kept(W) <=> b \in Kept(L) \/ b \in new
    BY <1>2, <1>3, <1>4, KeptIs
  <2> QED BY <2>1
<1>7. Ends(W, logged \cup new)
  <2>1. Ends(L, logged)
    BY DEF Complete
  <2>2. ASSUME NEW a \in Kept(W), NEW b \in logged \cup new, a < b
        PROVE  b \in Kept(W)
    <3>1. CASE b \in new
      BY <1>6, <3>1
    <3>2. CASE b \in logged
      <4>1. b <= d /\ b \in Nat
        BY <3>2
      <4>2. a \notin new
        BY <1>1, <2>2, <4>1
      <4> QED BY <1>6, <2>1, <2>2, <3>2, <4>2 DEF Ends
    <3> QED BY <3>1, <3>2
  <2>3. Kept(W) # logged \cup new => \A i \in DOMAIN W.backups : W.backups[i] # NoFile
    BY <1>2, <1>6, <2>1 DEF Ends
  <2> QED BY <1>6, <2>1, <2>2, <2>3 DEF Ends
<1> QED BY <1>1, <1>2, <1>5, <1>7 DEF Complete, W

\* A rollover gives up the oldest file, and only when there is no name left for it.
LEMMA CompleteRolled ==
    ASSUME NEW W \in LogType, NEW held, NEW e \in Nat, Rotating(W, held, e),
           NEW logged \in SUBSET Nat, Complete(W, logged),
           Len(W.content[W.stream]) >= W.maxbytes, W.backups # <<>>,
           NEW s \in Inodes, NEW M, Opened(Shifted(W), M, s, held), M.content[s] = <<>>
    PROVE  Complete(M, logged)
<1> DEFINE n == Len(W.backups)
           Gen(i) == IF i = 0 THEN W.stream ELSE W.backups[i]
<1>1. /\ n \in Nat /\ n > 0 /\ DOMAIN W.backups = 1..n /\ W.base = W.stream
      /\ W.stream \in Inodes /\ W.stream # NoFile
      /\ \A i \in 1..n : W.backups[i] # NoFile => W.backups[i] \in Inodes
  BY LogAssumption DEF LogType, Complete, NoFile
<1>2. NoGaps(W) /\ Full(W) /\ Ends(W, logged)
  BY DEF Complete
<1>3. DOMAIN M.backups = 1..n /\ \A i \in 1..n : M.backups[i] = Gen(i - 1)
  <2>1. M.backups = Shifted(W).backups
    BY DEF Opened
  <2>2. SUFFICES ASSUME NEW i \in 1..n PROVE Shifted(W).backups[i] = Gen(i - 1)
    BY <1>1, <2>1, ShiftedIs
  <2>3. CASE i = 1
    BY <1>1, <2>3, ShiftedIs
  <2>4. CASE i # 1 /\ i = n /\ W.backups[i - 1] = NoFile
    <3>1. i - 1 \in 1..n /\ i - 1 < i
      <4> HIDE DEF n
      <4> QED BY <1>1, <2>4
    <3>2. W.backups[i] = NoFile
      BY <1>1, <1>2, <2>4, <3>1 DEF NoGaps
    <3> QED BY <1>1, <2>4, <3>1, <3>2, ShiftedIs
  <2>5. CASE i # 1 /\ ~(i = n /\ W.backups[i - 1] = NoFile)
    BY <1>1, <2>5, ShiftedIs
  <2> QED BY <2>3, <2>4, <2>5
<1>4. \A i \in 1..n : Gen(i - 1) # NoFile =>
         Gen(i - 1) \in Inodes /\ M.content[Gen(i - 1)] = W.content[Gen(i - 1)]
  <2>1. SUFFICES ASSUME NEW i \in 1..n, Gen(i - 1) # NoFile
                 PROVE  Gen(i - 1) \in Inodes /\ M.content[Gen(i - 1)] = W.content[Gen(i - 1)]
    OBVIOUS
  <2>2. Gen(i - 1) \in Inodes
    BY <1>1, <2>1
  <2> DEFINE g == Gen(i - 1)
  <2>3. M.backups[i] = g /\ M.backups = Shifted(W).backups
    BY <1>3 DEF Opened
  <2> HIDE DEF g
  <2>4. Shifted(W).base = NoFile /\ Shifted(W).content = W.content /\ DOMAIN Shifted(W).backups = 1..n
        /\ Len(Shifted(W).backups) = n
    BY <1>1, ShiftedIs
  <2>5. g # s
    <3>1. s \notin Used(Shifted(W), held)
      BY <2>4 DEF Opened
    <3> QED BY <2>3, <2>4, <3>1 DEF Used
  <2>6. Backup(Shifted(W), g)
    BY <2>3, <2>4 DEF Backup
  <2>7. M.content[g] = W.content[g]
    BY <2>2, <2>4, <2>5, <2>6 DEF Opened, g
  <2> QED BY <2>2, <2>7 DEF g
<1>5. M.base = s /\ M.stream = s /\ M.maxbytes = W.maxbytes /\ M \in LogType
  BY ShiftedIs DEF Opened
\* A name is free only if all behind it are.
<1>6. \A i, j \in 0..n : i < j /\ Gen(j) # NoFile => Gen(i) # NoFile
  BY <1>1, <1>2 DEF NoGaps
<1>7. \A i, j \in 0..n : i < j /\ Gen(i) # NoFile /\ Gen(j) # NoFile => Older(W, Gen(j), Gen(i))
  BY <1>1 DEF Rotating, BackupsInOrder, StreamIsLast
<1>8. \A i \in 0..n : Gen(i) # NoFile => Len(W.content[Gen(i)]) >= W.maxbytes
  BY <1>1, <1>2 DEF Full
<1> DEFINE InGen(b, i) == Gen(i) # NoFile /\ b \in Held(W, Gen(i))
<1>9. \A b : b \in Kept(W) <=> \E i \in 0..n : InGen(b, i)
  <2>1. ASSUME NEW b PROVE b \in Kept(W) => \E i \in 0..n : InGen(b, i)
    <3>1. CASE W.base # NoFile /\ b \in Held(W, W.base)
      <4>1. InGen(b, 0) /\ 0 \in 0..n
        BY <1>1, <3>1
      <4> QED BY <4>1
    <3>2. ASSUME NEW i \in 1..n, W.backups[i] # NoFile, b \in Held(W, W.backups[i])
          PROVE  InGen(b, i) /\ i \in 0..n
      BY <1>1, <3>2
    <3> QED BY <1>1, <3>1, <3>2, KeptIs
  <2>2. ASSUME NEW b, NEW i \in 0..n, InGen(b, i) PROVE b \in Kept(W)
    <3>1. i = 0 \/ i \in 1..n
      BY <1>1
    <3> QED BY <1>1, <2>2, <3>1, KeptIs
  <2> QED BY <2>1, <2>2
<1> HIDE DEF Gen, n
<1>10. \A b : b \in Kept(M) <=> \E i \in 1..n : InGen(b, i - 1)
  <2>1. ~\E b : b \in Held(M, s)
    BY DEF Held
  <2>2. \A i \in 1..n : M.backups[i] # NoFile => Held(M, M.backups[i]) = Held(W, Gen(i - 1))
    BY <1>3, <1>4 DEF Held
  <2> QED BY <1>3, <1>5, <2>1, <2>2, KeptIs
<1>11. NoGaps(M)
  <2>1. SUFFICES ASSUME NEW i \in 1..n, NEW j \in 1..n, i < j, M.backups[j] # NoFile
                 PROVE  M.backups[i] # NoFile
    BY <1>3 DEF NoGaps
  <2>2. i - 1 \in 0..n /\ j - 1 \in 0..n /\ i - 1 < j - 1
    BY <1>1, <2>1
  <2> QED BY <1>3, <1>6, <2>1, <2>2
<1>12. Full(M)
  <2>1. SUFFICES ASSUME NEW i \in 1..n, M.backups[i] # NoFile
                 PROVE  Len(M.content[M.backups[i]]) >= M.maxbytes
    BY <1>3 DEF Full
  <2>2. i - 1 \in 0..n
    BY <1>1
  <2> QED BY <1>3, <1>4, <1>5, <1>8, <2>1, <2>2
<1>13. Ends(M, logged)
  <2>1. ASSUME NEW b \in Kept(M) PROVE b \in Kept(W)
    <3>1. PICK i \in 1..n : InGen(b, i - 1)
      BY <1>10
    <3>2. i - 1 \in 0..n
      BY <1>1
    <3> QED BY <1>9, <3>1, <3>2
  <2>2. ASSUME NEW a \in Kept(M), NEW b \in logged, a < b PROVE b \in Kept(M)
    <3>1. PICK i \in 1..n : InGen(a, i - 1)
      BY <1>10
    <3>2. PICK j \in 0..n : InGen(b, j)
      BY <1>2, <1>9, <2>1, <2>2 DEF Ends
    <3>3. CASE j < n
      <4>1. j + 1 \in 1..n /\ (j + 1) - 1 = j
        BY <1>1, <3>3
      <4> QED BY <1>10, <3>2, <4>1
    <3>4. CASE j = n
      <4>1. i - 1 \in 0..n /\ i - 1 < j
        BY <1>1, <3>4
      <4>2. Older(W, Gen(j), Gen(i - 1))
        BY <1>7, <3>1, <3>2, <4>1
      <4>3. b < a
        BY <3>1, <3>2, <4>2 DEF Older
      <4>4. a \in Nat /\ b \in Nat
        BY <1>2, <2>1, <2>2 DEF Ends
      <4> QED BY <2>2, <4>3, <4>4
    <3> QED BY <1>1, <3>3, <3>4
  <2>3. ASSUME Kept(M) # logged, NEW i \in 1..n PROVE M.backups[i] # NoFile
    <3>1. CASE Gen(n) # NoFile
      <4>1. i - 1 \in 0..n /\ n \in 0..n /\ i - 1 < n
        BY <1>1
      <4> QED BY <1>3, <1>6, <3>1, <4>1
    <3>2. CASE Gen(n) = NoFile
      <4>1. ASSUME NEW b \in Kept(W) PROVE b \in Kept(M)
        <5>1. PICK j \in 0..n : InGen(b, j)
          BY <1>9
        <5>2. j + 1 \in 1..n /\ (j + 1) - 1 = j
          BY <1>1, <3>2, <5>1
        <5> QED BY <1>10, <5>1, <5>2
      <4>2. Kept(W) # logged
        BY <2>1, <2>3, <4>1
      <4>3. W.backups[n] # NoFile
        BY <1>1, <1>2, <4>2 DEF Ends
      <4> QED BY <1>1, <3>2, <4>3 DEF Gen
    <3> QED BY <3>1, <3>2
  <2> QED BY <1>2, <1>3, <2>1, <2>2, <2>3 DEF Ends
<1> QED BY <1>5, <1>11, <1>12, <1>13 DEF Complete

LEMMA CompleteEmitted ==
    ASSUME NEW p \in Programs, NEW L \in LogType, Fits(L, p),
           NEW held, Single(held), NEW d \in Nat, NEW e \in Nat, d <= e,
           NEW data, Newer(data, d, e), Rotating(L, held, d),
           NEW logged \in SUBSET Nat, \A b \in logged : b <= d, Complete(L, logged)
    PROVE  Complete(emit(L, data, held), logged \cup ToSet(data))
<1> DEFINE W == Written(L, data)
           M == emit(L, data, held)
           all == logged \cup ToSet(data)
<1>1. data \in Seq(Nat) /\ all \in SUBSET Nat
  <2>1. data \in Seq(Nat)
    BY DEF Newer
  <2>2. \A k \in DOMAIN data : data[k] \in Nat
    BY <2>1
  <2> QED BY <2>1, <2>2 DEF ToSet
<1>2. W \in LogType /\ Rotating(W, held, e) /\ Complete(W, all)
      /\ W.backups = L.backups /\ W.maxbytes = L.maxbytes /\ W.stream = L.stream
  <2>1. W \in LogType /\ W.backups = L.backups /\ W.maxbytes = L.maxbytes /\ W.stream = L.stream
    BY <1>1, WrittenIs
  <2>2. Rotating(W, held, e)
    BY WrittenKeeps
  <2>3. Complete(W, all)
    BY CompleteWritten
  <2> QED BY <2>1, <2>2, <2>3
<1>3. \/ M = W
      \/ /\ Len(W.content[L.stream]) >= L.maxbytes
         /\ \E s \in Inodes, K \in LogType :
               K = (IF L.backups = <<>> THEN W ELSE Shifted(W)) /\ Opened(K, M, s, held) /\ M.content[s] = <<>>
  BY <1>1, EmitIs DEF Fits, Single
<1> HIDE DEF W, M, all
<1>4. CASE M = W
  BY <1>2, <1>4 DEF M, all
<1>5. ASSUME Len(W.content[L.stream]) >= L.maxbytes, NEW s \in Inodes, NEW K \in LogType,
             K = IF L.backups = <<>> THEN W ELSE Shifted(W), Opened(K, M, s, held), M.content[s] = <<>>
      PROVE  Complete(M, all)
  <2>1. CASE L.backups # <<>>
    BY <1>1, <1>2, <1>5, <2>1, CompleteRolled
  <2>2. CASE L.backups = <<>>
    <3>1. M \in LogType /\ M.backups = <<>> /\ M.base = s /\ M.stream = s
      BY <1>2, <1>5, <2>2 DEF Opened
    <3>2. Kept(M) = {}
      BY <1>5, <3>1, KeptIs DEF Held
    <3> QED BY <3>1, <3>2 DEF Complete, NoGaps, Full, Ends
  <2> QED BY <2>1, <2>2
<1> QED BY <1>3, <1>4, <1>5 DEF M, all

LEMMA CompleteStays ==
    ASSUME NEW L \in LogType, NEW M \in LogType, NEW logged, Complete(L, logged),
           M.base = L.base, M.stream = L.stream, M.backups = L.backups, M.maxbytes = L.maxbytes,
           M.content[L.base] = L.content[L.base],
           \A i \in DOMAIN L.backups :
              L.backups[i] # NoFile => M.content[L.backups[i]] = L.content[L.backups[i]]
    PROVE  Complete(M, logged)
<1>1. NoGaps(M) /\ Full(M) /\ M.base = M.stream
  BY DEF Complete, NoGaps, Full
<1>2. ASSUME NEW b PROVE b \in Kept(M) <=> b \in Kept(L)
  <2>1. b \in Kept(L) <=> \/ L.base # NoFile /\ b \in Held(L, L.base)
                          \/ \E i \in DOMAIN L.backups : L.backups[i] # NoFile /\ b \in Held(L, L.backups[i])
    BY KeptIs
  <2>2. b \in Kept(M) <=> \/ M.base # NoFile /\ b \in Held(M, M.base)
                          \/ \E i \in DOMAIN M.backups : M.backups[i] # NoFile /\ b \in Held(M, M.backups[i])
    BY KeptIs
  <2>3. Held(M, L.base) = Held(L, L.base)
    BY DEF Held
  <2>4. \A i \in DOMAIN L.backups : L.backups[i] # NoFile => Held(M, L.backups[i]) = Held(L, L.backups[i])
    BY DEF Held
  <2>5. M.base = L.base /\ M.backups = L.backups
    OBVIOUS
  <2> QED BY <2>1, <2>2, <2>3, <2>4, <2>5, Zenon
<1>3. Ends(M, logged)
  BY <1>2 DEF Complete, Ends
<1> QED BY <1>1, <1>3 DEF Complete

-----------------------------------------------------------------------------
(* The client that follows the log, when the log changes.                  *)

\* Its file stays as it is, unless it is truncated; the handler's file is its own, the one it was,
\* or an empty one.
LEMMA FollowingStays ==
    ASSUME NEW L \in LogType, NEW M \in LogType, NEW t \in TailType, NEW d \in Nat,
           Following(L, t, d), M.backups # <<>> => L.backups # <<>>,
           t.at = "open" =>
             /\ \/ M.content[t.ino] = L.content[t.ino]
                \/ M.backups = <<>> /\ M.content[t.ino] = <<>>
             /\ \/ M.stream = t.ino
                \/ M.stream = L.stream /\ Held(M, M.stream) = Held(L, L.stream)
                \/ M.content[M.stream] = <<>>
    PROVE  Following(M, t, d)
<1>1. SUFFICES ASSUME t.at = "open"
               PROVE  /\ t.ino \in Inodes /\ Ahead(M, t) /\ Unbroken(M, t)
                      /\ M.backups # <<>> => Whole(M, t)
  BY DEF Following
<1>2. t.ino \in Inodes /\ Ahead(L, t) /\ Unbroken(L, t) /\ (L.backups # <<>> => Whole(L, t))
  BY <1>1 DEF Following
<1>3. \A k \in DOMAIN M.content[t.ino] :
         k > t.sz \/ Len(M.content[t.ino]) < t.sz => \A r \in Got(t) : r < M.content[t.ino][k]
  <2>1. CASE M.content[t.ino] = L.content[t.ino]
    BY <1>2, <2>1 DEF Ahead
  <2>2. CASE M.content[t.ino] = <<>>
    BY <2>2
  <2> QED BY <1>1, <2>1, <2>2
<1>4. t.ino # M.stream => \A r \in Got(t), b \in Held(M, M.stream) : r < b
  <2>1. CASE M.stream = L.stream /\ Held(M, M.stream) = Held(L, L.stream)
    BY <1>2, <2>1 DEF Ahead
  <2>2. CASE M.content[M.stream] = <<>>
    BY <2>2 DEF Held
  <2> QED BY <1>1, <2>1, <2>2
<1>5. t.ino # M.stream => Older(M, t.ino, M.stream)
  <2>1. CASE M.stream = L.stream /\ Held(M, M.stream) = Held(L, L.stream)
    <3>1. Held(M, t.ino) \subseteq Held(L, t.ino)
      BY <1>1 DEF Held
    <3> QED BY <1>2, <2>1, <3>1 DEF Ahead, Older
  <2>2. CASE M.content[M.stream] = <<>>
    BY <2>2 DEF Held, Older
  <2> QED BY <1>1, <2>1, <2>2
<1>6. M.backups # <<>> => Whole(M, t)
  BY <1>1, <1>2 DEF Whole, ReadOf
<1>7. Unbroken(M, t)
  <2>1. CASE M.content[t.ino] = L.content[t.ino]
    BY <1>2, <2>1 DEF Unbroken, ReadOf
  <2>2. CASE M.content[t.ino] = <<>>
    <3>1. t.sz <= Len(M.content[t.ino]) => ReadOf(M, t) = {}
      BY <2>2 DEF ReadOf, TailType
    <3> QED BY <3>1 DEF Unbroken
  <2> QED BY <1>1, <2>1, <2>2
<1> QED BY <1>2, <1>3, <1>4, <1>5, <1>6, <1>7 DEF Ahead

\* h is g with x behind it, and x is what is behind the z-th element of c.
Extends(h, g, x) ==
    /\ h \in Seq(Nat) /\ Len(h) = Len(g) + Len(x)
    /\ \A k \in 1..Len(g) : h[k] = g[k]
    /\ \A k \in 1..Len(x) : h[Len(g) + k] = x[k]
Rest(x, c, z) ==
    x \in Seq(Nat) /\ Len(x) = Len(c) - z /\ \A k \in 1..(Len(c) - z) : x[k] = c[z + k]

LEMMA ConcatExtends ==
    ASSUME NEW g \in Seq(Nat), NEW x \in Seq(Nat)
    PROVE  Extends(g \o x, g, x)
BY DEF Extends

\* Where the elements are then.
LEMMA ExtendsAt ==
    ASSUME NEW g \in Seq(Nat), NEW x \in Seq(Nat), NEW h, Extends(h, g, x)
    PROVE  /\ Len(h) >= Len(g)
           /\ \A k \in DOMAIN h : \/ k \in DOMAIN g /\ h[k] = g[k]
                                  \/ k \notin DOMAIN g /\ \E i \in DOMAIN x : h[k] = x[i]
<1> DEFINE m == Len(g)
           n == Len(x)
<1>1. m \in Nat /\ n \in Nat /\ DOMAIN g = 1..m /\ DOMAIN x = 1..n
  OBVIOUS
<1>2. /\ Len(h) = m + n /\ DOMAIN h = 1..(m + n)
      /\ \A k \in 1..m : h[k] = g[k]
      /\ \A k \in 1..n : h[m + k] = x[k]
  BY DEF Extends
<1> HIDE DEF m, n
<1>3. ASSUME NEW k \in DOMAIN h, k \notin DOMAIN g
      PROVE  \E i \in DOMAIN x : h[k] = x[i]
  <2>1. PICK i \in 1..n : k = m + i
    <3>1. k - m \in 1..n /\ k = m + (k - m)
      BY <1>1, <1>2, <1>3
    <3> QED BY <3>1
  <2> QED BY <1>1, <1>2, <2>1
<1>4. Len(h) >= m
  BY <1>1, <1>2
<1> QED BY <1>1, <1>2, <1>3, <1>4 DEF m

\* What is written is newer than what the client got.
LEMMA FollowingWritten ==
    ASSUME NEW L \in LogType, NEW t \in TailType, NEW d \in Nat, NEW e \in Nat, d <= e,
           NEW data, Newer(data, d, e), Following(L, t, d), Holding(L, d)
    PROVE  Following(Written(L, data), t, e)
<1> DEFINE W == Written(L, data)
<1>1. data \in Seq(Nat) /\ \A k \in DOMAIN data : data[k] \in Nat /\ d < data[k]
  BY DEF Newer
<1>2. /\ W \in LogType /\ W.stream = L.stream /\ W.backups = L.backups
      /\ W.content[L.stream] = L.content[L.stream] \o data
      /\ \A f \in Inodes \ {L.stream} : W.content[f] = L.content[f]
  BY <1>1, WrittenIs
<1>3. L.stream \in Inodes
  BY DEF LogType
<1>4. Held(W, L.stream) = Held(L, L.stream) \cup {data[k] : k \in DOMAIN data}
  BY <1>1, <1>3, WrittenHolds
<1> HIDE DEF W
<1>5. \A r \in Got(t) : r \in Nat /\ r <= d
  <2>1. Given(t) \in Seq(Nat)
    BY DEF Given, TailType
  <2> QED BY <2>1 DEF Following, Got, ToSet
<1>6. InOrder(Given(t)) /\ \A r \in Got(t) : r <= e
  BY <1>5 DEF Following
<1>7. SUFFICES ASSUME t.at = "open"
               PROVE  /\ t.ino \in Inodes /\ Ahead(W, t) /\ Unbroken(W, t)
                      /\ W.backups # <<>> => Whole(W, t)
  BY <1>6 DEF Following, W
<1>8. t.ino \in Inodes /\ Ahead(L, t) /\ Unbroken(L, t) /\ (L.backups # <<>> => Whole(L, t))
  BY <1>7 DEF Following
<1>9. CASE t.ino # L.stream
  <2>1. \A r \in Got(t), b \in Held(W, L.stream) : r < b
    BY <1>1, <1>4, <1>5, <1>8, <1>9 DEF Ahead
  <2>2. Older(W, t.ino, L.stream)
    <3>1. Older(L, t.ino, L.stream) /\ Held(W, t.ino) = Held(L, t.ino)
      BY <1>2, <1>8, <1>9 DEF Ahead, Held
    <3>2. \A a \in Held(L, t.ino) : a \in Nat /\ a <= d
      <4>1. L.content[t.ino] \in Seq(Nat)
        BY <1>8 DEF LogType
      <4> QED BY <1>8, <4>1 DEF Holding, Held
    <3>3. ASSUME NEW a \in Held(L, t.ino), NEW k \in DOMAIN data PROVE a < data[k]
      BY <1>1, <3>2
    <3>4. \A a \in Held(L, t.ino), b \in Held(L, L.stream) : a < b
      BY <3>1 DEF Older
    <3>5. ASSUME NEW a \in Held(W, t.ino), NEW b \in Held(W, L.stream) PROVE a < b
      BY <1>4, <3>1, <3>3, <3>4
    <3> QED BY <3>5 DEF Older
  <2>3. W.content[t.ino] = L.content[t.ino]
    BY <1>2, <1>8, <1>9
  <2>4. Ahead(W, t)
    <3>1. \A k \in DOMAIN W.content[t.ino] :
             k > t.sz \/ Len(W.content[t.ino]) < t.sz => \A r \in Got(t) : r < W.content[t.ino][k]
      BY <1>8, <2>3 DEF Ahead
    <3> QED BY <1>2, <2>1, <2>2, <3>1 DEF Ahead
  <2>5. W.backups # <<>> => Whole(W, t)
    BY <1>2, <1>8, <2>3 DEF Whole, ReadOf
  <2>6. Unbroken(W, t)
    BY <1>8, <2>3 DEF Unbroken, ReadOf
  <2> QED BY <1>8, <2>4, <2>5, <2>6
<1>10. CASE t.ino = L.stream
  <2>1. L.content[t.ino] \in Seq(Nat) /\ t.sz \in Nat
    BY <1>8 DEF LogType, TailType
  <2>2. PICK c \in Seq(Nat) : c = L.content[t.ino]
    BY <2>1
  <2>3. W.content[t.ino] = c \o data
    BY <1>2, <1>10, <2>2
  <2>4. Extends(c \o data, c, data)
    BY <1>1, ConcatExtends
  <2>5. PICK h : h = W.content[t.ino] /\ Extends(h, c, data)
    BY <2>3, <2>4
  <2> DEFINE n == Len(c)
  <2>6. /\ n \in Nat /\ Len(h) \in Nat /\ Len(h) >= n /\ DOMAIN c = 1..n
        /\ \A k \in DOMAIN h : \/ k \in DOMAIN c /\ h[k] = c[k]
                               \/ k \notin DOMAIN c /\ \E i \in DOMAIN data : h[k] = data[i]
        /\ \A k \in 1..n : h[k] = c[k]
    <3>1. /\ Len(h) >= n
          /\ \A k \in DOMAIN h : \/ k \in DOMAIN c /\ h[k] = c[k]
                                 \/ k \notin DOMAIN c /\ \E i \in DOMAIN data : h[k] = data[i]
      <4>1. c \in Seq(Nat) /\ data \in Seq(Nat) /\ Extends(h, c, data)
        BY <1>1, <2>5
      <4> QED BY <4>1, ExtendsAt DEF n
    <3>2. h \in Seq(Nat) /\ \A k \in 1..n : h[k] = c[k]
      BY <2>5 DEF Extends
    <3>3. n \in Nat /\ Len(h) \in Nat /\ DOMAIN c = 1..n
      BY <3>2
    <3> HIDE DEF n
    <3> QED BY <3>1, <3>2, <3>3 DEF n
  <2> HIDE DEF n
  <2>7. \A k \in DOMAIN h : k > t.sz \/ Len(h) < t.sz => \A r \in Got(t) : r < h[k]
    <3>1. SUFFICES ASSUME NEW k \in DOMAIN h, k > t.sz \/ Len(h) < t.sz, NEW r \in Got(t)
                   PROVE  r < h[k]
      OBVIOUS
    <3>2. CASE k \in DOMAIN c
      <4>1. k > t.sz \/ n < t.sz
        BY <2>1, <2>6, <3>1
      <4>2. r < c[k]
        BY <1>8, <2>2, <3>2, <4>1 DEF Ahead, n
      <4> QED BY <2>6, <3>2, <4>2
    <3>3. CASE k \notin DOMAIN c
      <4>1. PICK i \in DOMAIN data : h[k] = data[i]
        BY <2>6, <3>3
      <4>2. data[i] \in Nat /\ d < data[i] /\ r \in Nat /\ r <= d
        BY <1>1, <1>5
      <4> QED BY <4>1, <4>2
    <3> QED BY <3>2, <3>3
  <2>8. Ahead(W, t)
    BY <1>2, <1>10, <2>5, <2>7 DEF Ahead
  <2>9. ASSUME W.backups # <<>> PROVE Whole(W, t)
    <3>1. Whole(L, t) /\ t.sz <= n
      BY <1>2, <1>8, <2>2, <2>9 DEF Whole, n
    <3>2. \A k \in 1..t.sz : h[k] = c[k]
      <4>1. \A k \in 1..t.sz : k \in 1..n
        BY <2>1, <2>6, <3>1
      <4> QED BY <2>6, <4>1
    <3>3. ReadOf(W, t) = ReadOf(L, t)
      BY <2>2, <2>5, <3>2 DEF ReadOf
    <3>4. t.sz <= Len(W.content[t.ino])
      BY <2>1, <2>5, <2>6, <3>1
    <3> QED BY <3>1, <3>3, <3>4 DEF Whole
  <2>10. Unbroken(W, t)
    <3>1. CASE t.sz <= n
      <4>1. \A k \in 1..t.sz : k \in 1..n
        BY <2>1, <2>6, <3>1
      <4>2. \A k \in 1..t.sz : h[k] = c[k]
        BY <2>6, <4>1
      <4>3. ReadOf(W, t) = ReadOf(L, t)
        BY <2>2, <2>5, <4>2 DEF ReadOf
      <4> QED BY <1>8, <2>2, <3>1, <4>3 DEF Unbroken, n
    <3>2. CASE n < t.sz
      <4>1. \A k \in DOMAIN c, r \in Got(t) : r < c[k]
        BY <1>8, <2>2, <3>2 DEF Ahead, n
      <4>2. ASSUME NEW k \in DOMAIN h, NEW r \in Got(t) PROVE r < h[k]
        <5>1. CASE k \in DOMAIN c
          BY <2>6, <4>1, <5>1
        <5>2. CASE k \notin DOMAIN c
          <6>1. PICK i \in DOMAIN data : h[k] = data[i]
            BY <2>6, <5>2
          <6>2. data[i] \in Nat /\ d < data[i] /\ r \in Nat /\ r <= d
            BY <1>1, <1>5
          <6> QED BY <6>1, <6>2
        <5> QED BY <5>1, <5>2
      <4>3. \A k \in DOMAIN h : h[k] \notin Got(t)
        BY <1>5, <4>2
      <4>4. t.sz <= Len(h) => \A k \in 1..t.sz : k \in DOMAIN h
        BY <2>1, <2>5, <2>6 DEF Extends
      <4>5. t.sz <= Len(h) => ReadOf(W, t) \cap Got(t) = {}
        BY <2>5, <4>3, <4>4 DEF ReadOf
      <4> QED BY <2>5, <4>5 DEF Unbroken
    <3> QED BY <2>1, <2>6, <3>1, <3>2
  <2> QED BY <1>8, <2>8, <2>9, <2>10
<1> QED BY <1>9, <1>10

LEMMA FollowingOpened ==
    ASSUME NEW K \in LogType, NEW L, NEW s \in Inodes, NEW held, NEW d \in Nat,
           Rotating(K, held, d), Opened(K, L, s, held), L.content[s] = K.content[s],
           NEW t \in TailType, t.at = "open" => t.ino \in held, Following(K, t, d)
    PROVE  Following(L, t, d)
<1>1. L \in LogType /\ L.backups = K.backups /\ L.stream = s
  BY DEF Opened
<1>2. CASE K.base # NoFile
  <2>1. s = K.stream
    BY <1>2 DEF Opened, Rotating, Handled
  <2>2. Held(L, s) = Held(K, s)
    BY DEF Held
  <2>3. t.at = "open" => L.content[t.ino] = K.content[t.ino]
    BY DEF Opened, Following
  <2> QED BY <1>1, <2>1, <2>2, <2>3, FollowingStays
<1>3. CASE K.base = NoFile
  <2>1. L.content[s] = <<>>
    BY <1>3 DEF Opened, Rotating, Tidy
  <2>2. t.at = "open" => L.content[t.ino] = K.content[t.ino]
    BY DEF Opened, Following
  <2> QED BY <1>1, <2>1, <2>2, FollowingStays
<1> QED BY <1>2, <1>3

LEMMA FollowingEmitted ==
    ASSUME NEW p \in Programs, NEW L \in LogType, Fits(L, p),
           NEW held, Single(held), NEW d \in Nat, NEW e \in Nat, d <= e,
           NEW data, Newer(data, d, e), NEW t \in TailType, t.at = "open" => t.ino \in held,
           Following(L, t, d), Holding(L, d)
    PROVE  Following(emit(L, data, held), t, e)
<1> DEFINE W == Written(L, data)
           M == emit(L, data, held)
<1>1. data \in Seq(Nat)
  BY DEF Newer
<1>2. W \in LogType /\ W.backups = L.backups
  BY <1>1, WrittenIs
<1>3. Following(W, t, e)
  BY FollowingWritten
<1>4. \/ M = W
      \/ \E s \in Inodes, K \in LogType :
            K = (IF L.backups = <<>> THEN W ELSE Shifted(W)) /\ Opened(K, M, s, held) /\ M.content[s] = <<>>
  BY <1>1, EmitIs DEF Fits, Single
<1> HIDE DEF W, M
<1>5. CASE M = W
  BY <1>3, <1>5 DEF M
<1>6. ASSUME NEW s \in Inodes, NEW K \in LogType, Opened(K, M, s, held), M.content[s] = <<>>,
             K = IF L.backups = <<>> THEN W ELSE Shifted(W)
      PROVE  Following(M, t, e)
  <2>1. M \in LogType /\ M.stream = s /\ M.backups = K.backups
    BY <1>6 DEF Opened
  <2>2. K.content = W.content
    BY <1>2, <1>6, ShiftedIs
  <2>3. t.at = "open" => t.ino \in Inodes
    BY DEF Following
  <2>4. t.at = "open" /\ t.ino # s => M.content[t.ino] = W.content[t.ino]
    BY <1>6, <2>2, <2>3 DEF Opened
  <2>5. CASE L.backups = <<>>
    <3>1. M.backups = <<>>
      BY <1>2, <1>6, <2>1, <2>5
    <3> QED BY <1>2, <1>3, <1>6, <2>1, <2>4, <3>1, FollowingStays
  <2>6. CASE L.backups # <<>>
    <3>1. K.base = NoFile
      BY <1>2, <1>6, <2>6, ShiftedIs
    <3>2. t.at = "open" => t.ino # s
      BY <1>6, <3>1 DEF Opened, Used
    <3> QED BY <1>2, <1>3, <1>6, <2>1, <2>4, <2>6, <3>2, FollowingStays
  <2> QED BY <2>5, <2>6
<1> QED BY <1>4, <1>5, <1>6 DEF M

-----------------------------------------------------------------------------
(* The client follows, reads and is sent what it read.                     *)

\* Only what was given to it, and the file and the size it is at, matter.
LEMMA FollowingSame ==
    ASSUME NEW L, NEW t, NEW u, NEW d, Following(L, t, d),
           Given(u) = Given(t), u.at = t.at, u.ino = t.ino, u.sz = t.sz
    PROVE  Following(L, u, d)
<1>1. Got(u) = Got(t)
  BY DEF Got
<1> QED BY <1>1 DEF Following, Ahead, Unbroken, Whole, ReadOf

\* The file behind the log's name is newer than all that the client got.
LEMMA FollowsNewFile ==
    ASSUME NEW L \in LogType, NEW t \in TailType, NEW u \in TailType, NEW d \in Nat,
           Following(L, t, d), Handled(L), t.at = "open", L.base \notin {NoFile, t.ino},
           u.at = "open", u.ino = L.base, u.sz = 0, Given(u) = Given(t)
    PROVE  Following(L, u, d)
<1>1. L.base = L.stream /\ L.base \in Inodes
  BY DEF Handled, LogType
<1>2. Got(u) = Got(t)
  BY DEF Got
<1>3. \A r \in Got(t), b \in Held(L, L.stream) : r < b
  BY <1>1 DEF Following, Ahead
<1>4. Ahead(L, u)
  BY <1>1, <1>2, <1>3 DEF Ahead, Held
<1>5. Whole(L, u)
  <2>1. ReadOf(L, u) = {}
    BY DEF ReadOf
  <2>2. Len(L.content[u.ino]) \in Nat
    BY <1>1 DEF LogType
  <2> QED BY <2>1, <2>2 DEF Whole
<1>6. Unbroken(L, u)
  BY DEF Unbroken, ReadOf
<1> QED BY <1>1, <1>2, <1>4, <1>5, <1>6 DEF Following

LEMMA Associative == \A f, g, h \in Seq(Nat) : f \o (g \o h) = (f \o g) \o h
<1> SUFFICES ASSUME NEW f \in Seq(Nat), NEW g \in Seq(Nat), NEW h \in Seq(Nat)
             PROVE  f \o (g \o h) = (f \o g) \o h
  OBVIOUS
<1>0. f \o (g \o h) \in Seq(Nat) /\ (f \o g) \o h \in Seq(Nat)
  OBVIOUS
<1>1. PICK x \in Seq(Nat) : x = f \o (g \o h)
  BY <1>0, Zenon
<1>2. PICK y \in Seq(Nat) : y = (f \o g) \o h
  BY <1>0, Zenon
<1>3. PICK l \in Nat : l = Len(f) + Len(g) + Len(h) /\ Len(x) = l /\ Len(y) = l
  BY <1>1, <1>2
<1>4. \A i \in 1..l : x[i] = y[i]
  BY <1>1, <1>2, <1>3
<1>5. x = y
  BY <1>3, <1>4
<1> QED BY <1>1, <1>2, <1>5

LEMMA GivenMore ==
    ASSUME NEW t \in TailType, NEW x \in Seq(Nat), NEW u, u.sent = t.sent, u.out = t.out \o x
    PROVE  Given(t) \in Seq(Nat) /\ Extends(Given(u), Given(t), x)
<1>1. t.sent \in Seq(Nat) /\ t.out \in Seq(Nat)
  BY DEF TailType
<1>2. PICK a \in Seq(Nat), b \in Seq(Nat) : a = t.sent /\ b = t.out
  BY <1>1
<1>3. Given(t) = a \o b /\ Given(u) = a \o (b \o x)
  BY <1>2, Zenon DEF Given
<1>4. a \o (b \o x) = (a \o b) \o x
  BY Associative, Zenon
<1>5. a \o b \in Seq(Nat)
  BY <1>2
<1>6. Extends((a \o b) \o x, a \o b, x)
  BY <1>5, ConcatExtends
<1> QED BY <1>3, <1>4, <1>5, <1>6, Zenon

LEMMA TruncatedFollows ==
    ASSUME NEW L \in LogType, NEW t \in TailType, NEW u, NEW d \in Nat, Following(L, t, d),
           t.at = "open", Len(L.content[t.ino]) < t.sz,
           u.at = "open", u.ino = t.ino, u.sz = 0, u.sent = t.sent, u.out = Append(t.out, Truncated)
    PROVE  Following(L, u, d)
<1> DEFINE x == <<Truncated>>
           n == Len(Given(t))
<1>1. x \in Seq(Nat) /\ Len(x) = 1 /\ x[1] = 0 /\ u.out = t.out \o x
  BY DEF Truncated, TailType
<1> HIDE DEF x
<1>2. /\ Given(t) \in Seq(Nat) /\ Given(u) \in Seq(Nat) /\ Len(Given(u)) = n + 1
      /\ \A k \in 1..n : Given(u)[k] = Given(t)[k]
      /\ Given(u)[n + 1] = Truncated
  <2>1. Given(t) \in Seq(Nat) /\ Extends(Given(u), Given(t), x)
    BY <1>1, GivenMore
  <2> QED BY <1>1, <2>1 DEF Extends, Truncated
<1>3. DOMAIN Given(u) = 1..(n + 1) /\ DOMAIN Given(t) = 1..n /\ n \in Nat
  BY <1>2
<1> HIDE DEF n
<1>4. Got(u) = Got(t)
  <2>1. ASSUME NEW k \in 1..(n + 1), Given(u)[k] # Truncated
        PROVE  k \in 1..n /\ Given(u)[k] = Given(t)[k]
    BY <1>2, <1>3, <2>1
  <2>2. ASSUME NEW k \in 1..n PROVE k \in 1..(n + 1) /\ Given(u)[k] = Given(t)[k]
    BY <1>2, <1>3
  <2>3. ASSUME NEW r PROVE r \in Got(u) <=> r \in Got(t)
    BY <1>3, <2>1, <2>2 DEF Got, ToSet
  <2> QED BY <2>3
<1>5. InOrder(Given(u))
  <2>1. SUFFICES ASSUME NEW i \in 1..(n + 1), NEW j \in 1..(n + 1), i < j,
                        Truncated \notin {Given(u)[i], Given(u)[j]}
                 PROVE  Given(u)[i] < Given(u)[j]
    BY <1>3 DEF InOrder
  <2>2. i \in 1..n /\ j \in 1..n
    BY <1>2, <1>3, <2>1
  <2> QED BY <1>2, <1>3, <2>1, <2>2 DEF Following, InOrder
<1>6. t.ino \in Inodes /\ Ahead(L, t) /\ L.backups = <<>>
  <2>1. Len(L.content[t.ino]) \in Nat /\ t.sz \in Nat
    BY DEF Following, LogType, TailType
  <2> QED BY <2>1 DEF Following, Whole
<1>7. Ahead(L, u)
  BY <1>4, <1>6 DEF Ahead
<1>8. Unbroken(L, u)
  BY DEF Unbroken, ReadOf
<1> QED BY <1>4, <1>5, <1>6, <1>7, <1>8 DEF Following

LEMMA RestIs ==
    ASSUME NEW c \in Seq(Nat), NEW z \in Nat, z <= Len(c)
    PROVE  Rest(SubSeq(c, z + 1, Len(c)), c, z)
<1> DEFINE m == Len(c)
           x == SubSeq(c, z + 1, m)
<1>1. m \in Nat /\ z + 1 \in Int /\ m \in Int /\ \A i \in (z + 1)..m : c[i] \in Nat
  OBVIOUS
<1> HIDE DEF m
<1>2. /\ x \in Seq(Nat) /\ Len(x) = (IF z + 1 <= m THEN m - (z + 1) + 1 ELSE 0)
      /\ \A i \in 1..(m - (z + 1) + 1) : x[i] = c[(z + 1) + i - 1]
  BY <1>1, SubSeqProperties
<1> HIDE DEF x
<1>3. Len(x) = m - z /\ m - (z + 1) + 1 = m - z /\ \A i \in 1..(m - z) : (z + 1) + i - 1 = z + i
  BY <1>1, <1>2 DEF m
<1> QED BY <1>2, <1>3 DEF m, x, Rest

\* Where the elements of g and of what is read from c are.
LEMMA ReadIs ==
    ASSUME NEW g \in Seq(Nat), NEW c \in Seq(Nat), NEW z \in Nat, z <= Len(c), NEW x, NEW h,
           Rest(x, c, z), Extends(h, g, x)
    PROVE  /\ DOMAIN h \subseteq Nat
           /\ \A k \in DOMAIN g : k \in DOMAIN h /\ h[k] = g[k]
           /\ \A k \in DOMAIN h \ DOMAIN g : \A i \in DOMAIN g : i < k
           /\ \A k \in DOMAIN h \ DOMAIN g :
                 z + (k - Len(g)) \in (z + 1)..Len(c) /\ h[k] = c[z + (k - Len(g))]
           /\ \A l \in (z + 1)..Len(c) : \E k \in DOMAIN h : h[k] = c[l]
<1> DEFINE m == Len(c)
           n == Len(g)
<1>1. m \in Nat /\ n \in Nat /\ DOMAIN g = 1..n /\ z <= m
  OBVIOUS
<1>2. Len(x) = m - z /\ \A k \in 1..(m - z) : x[k] = c[z + k]
  BY DEF Rest
<1>3. /\ DOMAIN h = 1..(n + (m - z))
      /\ \A k \in 1..n : h[k] = g[k]
      /\ \A k \in 1..(m - z) : h[n + k] = x[k]
  <2>1. /\ h \in Seq(Nat) /\ Len(h) = n + Len(x)
        /\ \A k \in 1..n : h[k] = g[k]
        /\ \A k \in 1..Len(x) : h[n + k] = x[k]
    BY Zenon DEF Extends
  <2> HIDE DEF m, n
  <2>2. DOMAIN h = 1..Len(h)
    BY <2>1
  <2> QED BY <1>2, <2>1, <2>2, Zenon
<1> HIDE DEF m, n
<1>4. \A k \in 1..(m - z) : h[n + k] = c[z + k]
  BY <1>2, <1>3
<1>5. ASSUME NEW k \in DOMAIN h \ DOMAIN g
      PROVE  z + (k - n) \in (z + 1)..m /\ h[k] = c[z + (k - n)]
  <2>1. k - n \in 1..(m - z) /\ n + (k - n) = k /\ z + (k - n) \in (z + 1)..m
    BY <1>1, <1>3
  <2>2. PICK i \in 1..(m - z) : i = k - n
    BY <2>1
  <2>3. h[n + i] = c[z + i]
    BY <1>4
  <2> QED BY <2>1, <2>2, <2>3
<1>6. ASSUME NEW l \in (z + 1)..m
      PROVE  \E k \in DOMAIN h : h[k] = c[l]
  <2>1. PICK i \in 1..(m - z) : l = z + i
    <3>1. l - z \in 1..(m - z) /\ l = z + (l - z)
      BY <1>1
    <3> QED BY <3>1
  <2>2. n + i \in DOMAIN h /\ h[n + i] = c[z + i]
    BY <1>1, <1>3, <1>4
  <2> QED BY <2>1, <2>2
<1>7. \A k \in DOMAIN g : k \in DOMAIN h /\ h[k] = g[k]
  BY <1>1, <1>3
<1>8. DOMAIN h \subseteq Nat /\ \A k \in DOMAIN h \ DOMAIN g : \A i \in DOMAIN g : i < k
  BY <1>1, <1>3
<1> QED BY <1>5, <1>6, <1>7, <1>8 DEF m, n

After(c, z) == {c[k] : k \in (z + 1)..Len(c)}

\* What is behind position z of c is newer than all of g.
Continues(g, c, z) ==
    /\ z <= Len(c) /\ Increasing(c) /\ InOrder(g)
    /\ \A k \in DOMAIN c : c[k] # Truncated
    /\ \A r \in ToSet(g) \ {Truncated}, k \in (z + 1)..Len(c) : r < c[k]

LEMMA ReadInOrder ==
    ASSUME NEW g \in Seq(Nat), NEW c \in Seq(Nat), NEW z \in Nat, NEW x, NEW h,
           Rest(x, c, z), Extends(h, g, x), Continues(g, c, z)
    PROVE  /\ InOrder(h)
           /\ ToSet(h) \ {Truncated} = (ToSet(g) \ {Truncated}) \cup After(c, z)
<1> DEFINE m == Len(c)
           n == Len(g)
           At(k) == z + (k - n)
<1>0. /\ z <= Len(c) /\ Increasing(c) /\ InOrder(g) /\ \A k \in DOMAIN c : c[k] # Truncated
      /\ \A r \in ToSet(g) \ {Truncated}, k \in (z + 1)..Len(c) : r < c[k]
  BY DEF Continues
<1> USE <1>0
<1>1. /\ m \in Nat /\ n \in Nat /\ z <= m /\ DOMAIN c = 1..m /\ DOMAIN g = 1..n
      /\ DOMAIN h \subseteq Nat
  BY ReadIs
<1>2. \A k \in DOMAIN g : k \in DOMAIN h /\ h[k] = g[k]
  BY ReadIs
<1>3. \A k \in DOMAIN h \ DOMAIN g : (\A i \in DOMAIN g : i < k) /\ At(k) \in (z + 1)..m /\ h[k] = c[At(k)]
  BY ReadIs
<1>4. \A l \in (z + 1)..m : \E k \in DOMAIN h : h[k] = c[l]
  BY ReadIs
<1>5. \A r \in ToSet(g) \ {Truncated}, l \in (z + 1)..m : r < c[l]
  OBVIOUS
<1> HIDE DEF m
<1>6. \A l \in (z + 1)..m : l \in DOMAIN c /\ c[l] # Truncated
  <2>1. \A l \in (z + 1)..m : l \in 1..m
    BY <1>1
  <2> QED BY <1>1, <2>1
<1>7. InOrder(h)
  <2>1. SUFFICES ASSUME NEW i \in DOMAIN h, NEW j \in DOMAIN h, i < j, Truncated \notin {h[i], h[j]}
                 PROVE  h[i] < h[j]
    BY DEF InOrder
  <2>2. CASE j \in DOMAIN g
    <3>1. i \in DOMAIN g
      <4>1. i \in Nat /\ j \in Nat /\ ~(j < i)
        BY <1>1, <2>1
      <4> QED BY <1>3, <2>2, <4>1
    <3> QED BY <1>2, <2>1, <2>2, <3>1 DEF InOrder
  <2>3. CASE i \in DOMAIN g /\ j \notin DOMAIN g
    <3>1. h[i] \in ToSet(g) \ {Truncated}
      BY <1>2, <2>1, <2>3 DEF ToSet
    <3> QED BY <1>3, <1>5, <2>3, <3>1
  <2>4. CASE i \notin DOMAIN g /\ j \notin DOMAIN g
    <3>1. At(i) \in (z + 1)..m /\ At(j) \in (z + 1)..m /\ h[i] = c[At(i)] /\ h[j] = c[At(j)]
      BY <1>3, <2>4
    <3>2. At(i) < At(j)
      BY <1>1, <2>1
    <3> HIDE DEF At
    <3> QED BY <1>6, <3>1, <3>2 DEF Increasing
  <2> QED BY <2>2, <2>3, <2>4
<1> HIDE DEF At
<1>8. ASSUME NEW b
      PROVE  b \in ToSet(h) \ {Truncated} <=>
                b \in (ToSet(g) \ {Truncated}) \cup {c[k] : k \in (z + 1)..m}
  <2>1. ASSUME NEW k \in DOMAIN h, h[k] = b, b # Truncated
        PROVE  b \in (ToSet(g) \ {Truncated}) \cup {c[l] : l \in (z + 1)..m}
    BY <1>2, <1>3, <2>1 DEF ToSet
  <2>2. ASSUME NEW k \in DOMAIN g, g[k] = b, b # Truncated PROVE b \in ToSet(h) \ {Truncated}
    BY <1>2, <2>2 DEF ToSet
  <2>3. ASSUME NEW l \in (z + 1)..m, c[l] = b PROVE b \in ToSet(h) \ {Truncated}
    BY <1>4, <1>6, <2>3 DEF ToSet
  <2> QED BY <2>1, <2>2, <2>3 DEF ToSet
<1> QED BY <1>7, <1>8 DEF m, After

\* It reads on where it was, to the end.
LEMMA ReadFollows ==
    ASSUME NEW L \in LogType, NEW t \in TailType, NEW u, NEW d \in Nat, Following(L, t, d),
           Holding(L, d), t.at = "open", t.sz <= Len(L.content[t.ino]),
           u.at = "open", u.ino = t.ino, u.sz = Len(L.content[t.ino]), u.sent = t.sent,
           u.out = t.out \o SubSeq(L.content[t.ino], t.sz + 1, Len(L.content[t.ino]))
    PROVE  Following(L, u, d)
<1>1. t.ino \in Inodes /\ Ahead(L, t) /\ Unbroken(L, t) /\ (L.backups # <<>> => Whole(L, t))
  BY DEF Following
<1>2. L.content[t.ino] \in Seq(Nat) /\ t.sz \in Nat
  BY <1>1 DEF LogType, TailType
<1>3. PICK c \in Seq(Nat), z \in Nat : c = L.content[t.ino] /\ z = t.sz
  BY <1>2
<1> DEFINE m == Len(c)
           new == {c[k] : k \in (z + 1)..m}
<1>4. m \in Nat /\ z <= m /\ DOMAIN c = 1..m
  BY <1>3
<1>5. Increasing(c) /\ \A k \in DOMAIN c : c[k] # Truncated /\ c[k] <= d
  <2>1. Increasing(c) /\ \A b \in Held(L, t.ino) : 0 < b /\ b <= d
    BY <1>1, <1>3 DEF Holding
  <2>2. ASSUME NEW k \in DOMAIN c PROVE c[k] \in Held(L, t.ino)
    BY <1>3 DEF Held
  <2>3. ASSUME NEW k \in DOMAIN c PROVE c[k] # Truncated /\ c[k] <= d
    <3>1. 0 < c[k] /\ c[k] <= d
      BY <2>1, <2>2
    <3>2. c[k] \in Nat
      OBVIOUS
    <3> QED BY <3>1, <3>2 DEF Truncated
  <2> QED BY <2>1, <2>3
<1> DEFINE x == SubSeq(c, z + 1, m)
<1>6. Rest(x, c, z) /\ Given(t) \in Seq(Nat) /\ Extends(Given(u), Given(t), x)
  <2>1. Rest(x, c, z)
    BY <1>3, RestIs
  <2>2. u.out = t.out \o x
    BY <1>3
  <2> HIDE DEF x
  <2> QED BY <2>1, <2>2, GivenMore DEF Rest
<1> HIDE DEF x
<1>7. InOrder(Given(t)) /\ Got(t) = ToSet(Given(t)) \ {Truncated} /\ \A r \in Got(t) : r <= d
  BY DEF Got, Following
<1>8. \A r \in Got(t), k \in (z + 1)..m : r < c[k]
  <2>1. \A k \in (z + 1)..m : k \in DOMAIN L.content[t.ino] /\ k > t.sz
    BY <1>3, <1>4
  <2> QED BY <1>1, <1>3, <2>1 DEF Ahead
<1>9. InOrder(Given(u)) /\ Got(u) = Got(t) \cup new
  <2>1. PICK g \in Seq(Nat) : g = Given(t)
    BY <1>6
  <2>2. PICK h : h = Given(u)
    OBVIOUS
  <2>3. Rest(x, c, z) /\ Extends(h, g, x) /\ InOrder(g)
    BY <1>6, <1>7, <2>1, <2>2
  <2>4. \A r \in ToSet(g) \ {Truncated}, k \in (z + 1)..Len(c) : r < c[k]
    BY <1>7, <1>8, <2>1
  <2>5. z <= Len(c) /\ Increasing(c) /\ \A k \in DOMAIN c : c[k] # Truncated
    BY <1>4, <1>5
  <2>6. /\ InOrder(h)
        /\ ToSet(h) \ {Truncated} = (ToSet(g) \ {Truncated}) \cup After(c, z)
    <3>1. Continues(g, c, z)
      BY <2>3, <2>4, <2>5 DEF Continues
    <3> QED BY <2>3, <3>1, ReadInOrder
  <2>7. After(c, z) = new
    BY DEF After
  <2> QED BY <2>1, <2>2, <2>6, <2>7 DEF Got
<1>10. \A k \in (z + 1)..m : k \in DOMAIN c
  BY <1>4
<1>11. \A r \in Got(u) : r <= d
  BY <1>5, <1>7, <1>9, <1>10
<1>12. Ahead(L, u)
  <2>1. ASSUME NEW k \in DOMAIN L.content[u.ino], k > u.sz \/ Len(L.content[u.ino]) < u.sz PROVE FALSE
    <3>1. k \in 1..m /\ (k > m \/ m < m)
      BY <1>3, <1>4, <2>1
    <3> QED BY <1>4, <3>1
  <2>2. ASSUME u.ino # L.stream
        PROVE  Older(L, u.ino, L.stream) /\ \A r \in Got(u), b \in Held(L, L.stream) : r < b
    <3>1. Older(L, t.ino, L.stream) /\ \A r \in Got(t), b \in Held(L, L.stream) : r < b
      BY <1>1, <2>2 DEF Ahead
    <3>2. \A k \in DOMAIN c, b \in Held(L, L.stream) : c[k] < b
      BY <1>3, <3>1 DEF Older, Held
    <3> QED BY <1>9, <1>10, <3>1, <3>2
  <2> QED BY <2>1, <2>2 DEF Ahead
<1> DEFINE S == ReadOf(L, t)
           R == Got(t)
<1>13. S = {c[k] : k \in 1..z}
  BY <1>3 DEF ReadOf
<1>14. ReadOf(L, u) = S \cup new
  <2>1. ReadOf(L, u) = {c[k] : k \in 1..m}
    BY <1>3 DEF ReadOf
  <2>2. \A k \in 1..m : k \in 1..z \/ k \in (z + 1)..m
    BY <1>4
  <2>3. \A k \in 1..z : k \in 1..m
    BY <1>4
  <2>4. \A k \in (z + 1)..m : k \in 1..m
    BY <1>4
  <2> QED BY <1>13, <2>1, <2>2, <2>3, <2>4
<1>15. \A a \in new, b \in S \cup R : b < a
  <2>1. \A k \in (z + 1)..m, l \in 1..z : c[l] < c[k]
    <3> HIDE DEF m
    <3>1. ASSUME NEW k \in (z + 1)..m, NEW l \in 1..z PROVE k \in DOMAIN c /\ l \in DOMAIN c /\ l < k
      <4>1. k \in 1..m /\ l \in 1..m /\ l < k
        BY <1>4
      <4> QED BY <1>4, <4>1
    <3> QED BY <1>5, <3>1 DEF Increasing
  <2> QED BY <1>8, <1>13, <2>1
<1>16. S \subseteq Nat /\ R \subseteq Nat /\ new \subseteq Nat
  <2>1. \A k \in DOMAIN c : c[k] \in Nat
    OBVIOUS
  <2>2. \A k \in 1..z : k \in DOMAIN c
    BY <1>4
  <2>3. R \subseteq Nat
    BY <1>6 DEF Got, ToSet
  <2> QED BY <1>10, <1>13, <2>1, <2>2, <2>3
<1>17. u.sz <= Len(L.content[u.ino])
  BY <1>3, <1>4
<1> HIDE DEF S, R, new
<1>18. Got(u) = R \cup new
  BY <1>9 DEF R
<1>19. ASSUME L.backups # <<>> PROVE Whole(L, u)
  <2>1. /\ S \subseteq R \/ R \subseteq S
        /\ \A a \in S \cap R, b \in S \cup R : a < b => b \in S \cap R
    BY <1>1, <1>19 DEF Whole, S, R
  <2>2. ASSUME NEW a \in (S \cup new) \cap (R \cup new), NEW b \in (S \cup new) \cup (R \cup new), a < b
        PROVE  b \in (S \cup new) \cap (R \cup new)
    <3>1. CASE b \in new
      BY <3>1
    <3>2. CASE b \notin new
      <4>1. a \notin new
        BY <1>15, <1>16, <2>2, <3>2
      <4> QED BY <2>1, <2>2, <3>2, <4>1
    <3> QED BY <3>1, <3>2
  <2> QED BY <1>14, <1>17, <1>18, <2>1, <2>2 DEF Whole
<1>20. Unbroken(L, u)
  <2>1. \A a \in S \cap R, b \in S : a < b => b \in R
    BY <1>1 DEF Unbroken, S, R
  <2>2. ASSUME NEW a \in (S \cup new) \cap (R \cup new), NEW b \in S \cup new, a < b
        PROVE  b \in R \cup new
    <3>1. CASE b \notin new
      <4>1. a \notin new
        BY <1>15, <1>16, <2>2, <3>1
      <4> QED BY <2>1, <2>2, <3>1, <4>1
    <3> QED BY <3>1
  <2> QED BY <1>14, <1>18, <2>2 DEF Unbroken
<1> QED BY <1>1, <1>9, <1>11, <1>12, <1>19, <1>20 DEF Following, new

\* What is sent was given to it before.
LEMMA SentIs ==
    ASSUME NEW a \in Seq(Nat), NEW b \in Seq(Nat), NEW n \in 1..Len(b)
    PROVE  /\ a \o SubSeq(b, 1, n) \in Seq(Nat) /\ SubSeq(b, n + 1, Len(b)) \in Seq(Nat)
           /\ (a \o SubSeq(b, 1, n)) \o SubSeq(b, n + 1, Len(b)) = a \o b
<1> DEFINE x == SubSeq(b, 1, n)
           y == SubSeq(b, n + 1, Len(b))
<1>1. x \in Seq(Nat) /\ y \in Seq(Nat) /\ a \o x \in Seq(Nat)
  <2>1. Len(b) \in Nat /\ \A i \in 1..Len(b) : b[i] \in Nat
    OBVIOUS
  <2>2. 1 \in Int /\ n \in Int /\ n + 1 \in Int /\ Len(b) \in Int
        /\ (\A i \in 1..n : b[i] \in Nat) /\ (\A i \in (n + 1)..Len(b) : b[i] \in Nat)
    BY <2>1
  <2>3. x \in Seq(Nat) /\ y \in Seq(Nat)
    BY <2>2, SubSeqProperties, Zenon
  <2> HIDE DEF x, y
  <2> QED BY <2>3
<1>2. x \o y = b
  <2>1. 1 \in 1..(Len(b) + 1) /\ n \in (1 - 1)..Len(b) /\ Len(b) \in n..Len(b)
    OBVIOUS
  <2>2. x \o y = SubSeq(b, 1, Len(b))
    BY <2>1, ConcatAdjacentSubSeq, Zenon
  <2> QED BY <2>2, SubSeqFull, Zenon
<1> HIDE DEF x, y
<1>3. (a \o x) \o y = a \o (x \o y)
  BY <1>1, Associative, ZenonT(30)
<1>4. a \o x \in Seq(Nat) /\ y \in Seq(Nat) /\ (a \o x) \o y = a \o b
  BY <1>1, <1>2, <1>3
<1> QED BY <1>4, Zenon DEF x, y

\* A file that is given up is none of the log, nor the one that is followed.
LEMMA RemainingKeeps ==
    ASSUME NEW K \in LogType, NEW held, NEW d \in Nat, Rotating(K, held, d),
           NEW t \in TailType, t.at = "open", Following(K, t, d)
    PROVE  LET L == Remaining(K, {t.ino})
           IN  /\ L \in LogType /\ \A p : Fits(K, p) => Fits(L, p)
               /\ Rotating(L, {t.ino}, d) /\ Following(L, t, d)
               /\ \A logged : Complete(K, logged) => Complete(L, logged)
<1> DEFINE L == Remaining(K, {t.ino})
<1>1. /\ L \in LogType /\ L.base = K.base /\ L.stream = K.stream
      /\ L.backups = K.backups /\ L.maxbytes = K.maxbytes
      /\ \A f \in Inodes : L.content[f] = IF f \in Used(K, {t.ino}) THEN K.content[f] ELSE <<>>
  BY RemainingIs
<1> HIDE DEF L
<1>2. K.stream \in Inodes /\ \A i \in DOMAIN K.backups : K.backups[i] # NoFile => K.backups[i] \in Inodes
  BY DEF LogType
<1>3. /\ K.stream \in Used(K, {t.ino}) /\ t.ino \in Used(K, {t.ino}) /\ K.base \in Used(K, {t.ino})
      /\ \A i \in DOMAIN K.backups : K.backups[i] \in Used(K, {t.ino})
  BY DEF Used, LogType
<1>4. t.ino \in Inodes
  BY DEF Following
<1>5. Holding(L, d) /\ \A f, g \in Inodes : Older(K, f, g) => Older(L, f, g)
  BY <1>1, LessIsHeld DEF Rotating
<1>6. Apart(L) /\ Handled(L) /\ BackupsInOrder(L) /\ StreamIsLast(L)
  BY <1>1, <1>2, <1>5 DEF Rotating, Apart, Handled, BackupsInOrder, StreamIsLast
<1>7. Tidy(L, {t.ino})
  <2>1. Used(L, {t.ino}) = Used(K, {t.ino})
    BY <1>1 DEF Used
  <2> QED BY <1>1, <2>1 DEF Tidy
<1>8. Following(L, t, d)
  <2>1. L.content[t.ino] = K.content[t.ino] /\ Held(L, L.stream) = Held(K, K.stream)
    BY <1>1, <1>2, <1>3, <1>4 DEF Held
  <2> QED BY <1>1, <2>1, FollowingStays
<1>9. ASSUME NEW logged, Complete(K, logged) PROVE Complete(L, logged)
  <2>1. K.base \in Inodes
    BY <1>2, <1>9 DEF Complete
  <2>2. L.content[K.base] = K.content[K.base]
    BY <1>1, <1>3, <2>1
  <2>3. \A i \in DOMAIN K.backups : K.backups[i] # NoFile => L.content[K.backups[i]] = K.content[K.backups[i]]
    BY <1>1, <1>2, <1>3
  <2> QED BY <1>1, <1>9, <2>2, <2>3, CompleteStays
<1> QED BY <1>1, <1>5, <1>6, <1>7, <1>8, <1>9 DEF Rotating, L, Fits

-----------------------------------------------------------------------------
(* A log that lost its name, or is opened, and time.                       *)

\* remove() of the log, by the daemon or by others.
LEMMA UnnamedSound ==
    ASSUME NEW p, NEW L \in LogType, NEW t \in TailType, NEW c, NEW d \in Nat, Sound(p, L, t, c, d)
    PROVE  LET K == [L EXCEPT !.base = NoFile] IN K \in LogType /\ Sound(p, K, t, c, d)
<1> DEFINE K == [L EXCEPT !.base = NoFile]
           held == HeldBy(t)
<1>1. /\ K \in LogType /\ K.base = NoFile /\ K.stream = L.stream /\ K.backups = L.backups
      /\ K.maxbytes = L.maxbytes /\ K.content = L.content
  BY DEF LogType
<1>2. Fits(L, p) /\ UpTo(c, d) /\ Rotating(L, held, d) /\ Following(L, t, d)
  BY DEF Sound
<1> HIDE DEF K, held
<1>3. \A f : Held(K, f) = Held(L, f)
  BY <1>1 DEF Held
<1>4. Apart(K) /\ Handled(K) /\ Holding(K, d) /\ BackupsInOrder(K) /\ StreamIsLast(K)
  BY <1>1, <1>3, <1>2 DEF Rotating, Apart, Handled, Holding, BackupsInOrder, StreamIsLast, Older
<1>5. Tidy(K, held)
  <2>1. \A f \in Inodes : f \in Used(L, held) => f \in Used(K, held)
    BY <1>1, <1>2, LogAssumption DEF Used, Rotating, Handled, NoFile
  <2> QED BY <1>1, <1>2, <2>1 DEF Rotating, Tidy
<1>6. Following(K, t, d)
  BY <1>1, <1>3, <1>2, FollowingStays
<1> QED BY <1>1, <1>4, <1>5, <1>6, <1>2 DEF Rotating, K, held, Sound, Fits

\* open(): what is missing is the newest file again, or an empty one is.
LEMMA OpenSound ==
    ASSUME NEW p \in Programs, NEW K \in LogType, NEW t \in TailType, NEW c, NEW d \in Nat,
           Sound(p, K, t, c, d)
    PROVE  LET L == Open(K, HeldBy(t))
           IN  /\ L \in LogType /\ Sound(p, L, t, c, d)
               /\ Complete(K, ToSet(c)) => Complete(L, ToSet(c))
<1> DEFINE held == HeldBy(t)
           L == Open(K, held)
<1>1. /\ Fits(K, p) /\ UpTo(c, d) /\ Rotating(K, held, d) /\ Following(K, t, d)
      /\ Len(K.backups) = p.backups
  BY DEF Sound, Fits
<1>2. (\E f : held \subseteq {f}) /\ (t.at = "open" => t.ino \in held)
  BY DEF HeldBy
<1> HIDE DEF held
<1>3. HasRoom(K, held)
  BY <1>1, <1>2, RoomFor
<1>4. PICK s \in Inodes : Opened(K, L, s, held) /\ L.content[s] = K.content[s]
  BY <1>3, OpenIs
<1> HIDE DEF L
<1>5. L \in LogType /\ L.backups = K.backups /\ L.maxbytes = K.maxbytes /\ L.base = s /\ L.stream = s
  BY <1>4 DEF Opened
<1>6. Rotating(L, held, d)
  BY <1>4, <1>1, OpenedKeeps
<1>7. Following(L, t, d)
  BY <1>4, <1>1, <1>2, FollowingOpened
<1>8. ASSUME Complete(K, ToSet(c)) PROVE Complete(L, ToSet(c))
  <2>1. K.base = K.stream /\ K.base \in Inodes /\ K.base # NoFile
    BY <1>8, LogAssumption DEF Complete, LogType, NoFile
  <2>2. s = K.base
    BY <1>4, <2>1 DEF Opened
  <2>3. \A i \in DOMAIN K.backups : K.backups[i] # NoFile =>
           K.backups[i] \in Inodes \ {s} /\ Backup(K, K.backups[i])
    BY <1>1, <2>1, <2>2 DEF Rotating, Handled, LogType, Backup
  <2>4. \A i \in DOMAIN K.backups : K.backups[i] # NoFile => L.content[K.backups[i]] = K.content[K.backups[i]]
    BY <1>4, <2>3 DEF Opened
  <2> QED BY <1>4, <1>5, <1>8, <2>1, <2>2, <2>4, CompleteStays
<1> QED BY <1>5, <1>6, <1>7, <1>8, <1>1 DEF L, held, Sound, Fits

\* What held of fewer bytes holds of more.
LEMMA LaterSound ==
    ASSUME NEW p, NEW L \in LogType, NEW t \in TailType, NEW c \in Seq(Nat),
           NEW d \in Nat, NEW e \in Nat, d <= e, Sound(p, L, t, c, d)
    PROVE  Sound(p, L, t, c, e)
<1>1. Holding(L, e)
  <2>1. ASSUME NEW f \in Inodes, NEW b \in Held(L, f) PROVE 0 < b /\ b <= e
    <3>1. b \in Nat
      BY DEF Held, LogType
    <3>2. 0 < b /\ b <= d
      BY DEF Sound, Rotating, Holding
    <3> QED BY <3>1, <3>2
  <2>2. \A f \in Inodes : Increasing(L.content[f])
    BY DEF Sound, Rotating, Holding
  <2> QED BY <2>1, <2>2 DEF Holding
<1>2. Following(L, t, e)
  <2>1. Given(t) \in Seq(Nat)
    BY DEF Given, TailType
  <2>2. \A r \in Got(t) : r \in Nat /\ r <= d
    BY <2>1 DEF Got, ToSet, Sound, Following
  <2>3. \A r \in Got(t) : r <= e
    BY <2>2
  <2> QED BY <2>3 DEF Sound, Following
<1>3. UpTo(c, e)
  <2>1. \A b \in ToSet(c) : b \in Nat /\ b <= d
    BY DEF ToSet, Sound, UpTo
  <2>2. \A b \in ToSet(c) : b <= e
    BY <2>1
  <2> QED BY <2>2 DEF Sound, UpTo
<1> QED BY <1>1, <1>2, <1>3 DEF Sound, Rotating

-----------------------------------------------------------------------------
(* The dispatcher.                                                         *)

LEMMA PositionsAre ==
    ASSUME NEW from \in Nat, NEW to \in Nat, from <= to, NEW n \in Nat, to <= n
    PROVE  Newer(Positions(from, to), from, to) /\ Positions(from, to) \in Seq(1..n)
<1> DEFINE s == Positions(from, to)
           m == to - from
<1>1. m \in Nat /\ \A i \in 1..m : from + i \in 1..n /\ from < from + i /\ from + i <= to
  OBVIOUS
<1>2. s = [i \in 1..m |-> from + i]
  BY DEF Positions
<1> HIDE DEF s, m
<1>3. s \in Seq(1..n) /\ s \in Seq(Nat) /\ DOMAIN s = 1..m /\ \A i \in 1..m : s[i] = from + i
  <2>1. s \in [1..m -> 1..n] /\ s \in [1..m -> Nat]
    BY <1>1, <1>2
  <2>2. DOMAIN s = 1..m /\ \A i \in 1..m : s[i] = from + i
    BY <1>2
  <2> QED BY <1>1, <2>1, <2>2
<1>4. Increasing(s)
  BY <1>3 DEF Increasing
<1> QED BY <1>1, <1>3, <1>4 DEF Newer, s

\* A set of naturals that is not empty has a least one, and a greatest if it has a bound.
LEMMA LeastNatural ==
    ASSUME NEW S \in SUBSET Nat, S # {}
    PROVE  \E n \in S : \A m \in S : n <= m
<1>1. PICK n \in S : \A m \in S : <<m, n>> \notin OpToRel(<, Nat)
  BY NatLessThanWellFounded, WFMin
<1>2. \A m \in S : ~(m < n)
  BY <1>1 DEF OpToRel
<1> QED BY <1>2

LEMMA GreatestNatural ==
    ASSUME NEW b \in Nat, NEW S \in SUBSET (0..b), S # {}
    PROVE  \E n \in S : \A m \in S : m <= n
<1> DEFINE R == {b - n : n \in S}
<1>1. R \in SUBSET Nat /\ R # {}
  <2>1. \A n \in S : b - n \in Nat
    OBVIOUS
  <2> QED BY <2>1
<1>2. PICK r \in R : \A q \in R : r <= q
  BY <1>1, LeastNatural
<1>3. PICK n \in S : r = b - n
  OBVIOUS
<1>4. ASSUME NEW m \in S PROVE m <= n
  <2>1. b - n <= b - m
    BY <1>2, <1>3
  <2> QED BY <2>1
<1> QED BY <1>4

LEMMA Constant ==
    ASSUME NEW p \in Programs
    PROVE  /\ Len(p.script) \in Nat /\ p.capture_maxbytes \in Nat /\ p.backups \in Nat
           /\ p.maxbytes \in Nat \ {0}
           /\ Len(BEGIN_TOKEN) \in Nat \ {0} /\ Len(END_TOKEN) \in Nat \ {0}
<1>1. p \in [script: Seq(STRING), capture_maxbytes: Nat, backups: Nat, maxbytes: Nat \ {0}]
  BY StreamsAssumption
<1>2. BEGIN_TOKEN \in Seq(STRING) /\ BEGIN_TOKEN # <<>> /\ END_TOKEN \in Seq(STRING) /\ END_TOKEN # <<>>
  BY StreamsAssumption
<1>3. Len(BEGIN_TOKEN) # 0 /\ Len(END_TOKEN) # 0
  BY <1>2
<1> QED BY <1>1, <1>2, <1>3

LEMMA Lengths == TypeOK => Len(token) \in Nat \ {0} /\ Len(script) \in Nat /\ Bytes = 1..Len(script)
BY Constant DEF TypeOK, token, script, Bytes

\* Where the first token is.
LEMMA FirstToken ==
    ASSUME TypeOK, Tokens # {}
    PROVE  LET i == CHOOSE i \in Tokens : \A j \in Tokens : i <= j
           IN  i \in Nat /\ done <= i /\ i + Len(token) <= read
<1> DEFINE i == CHOOSE i \in Tokens : \A j \in Tokens : i <= j
<1>1. done \in Nat /\ read \in Nat /\ Len(token) \in Nat /\ done <= read
  BY Lengths DEF TypeOK
<1>2. Tokens \in SUBSET Nat /\ \A j \in Tokens : j \in done..(read - Len(token))
  BY <1>1 DEF Tokens
<1>3. i \in Tokens
  BY <1>2, LeastNatural
<1> HIDE DEF i
<1>4. i \in Nat /\ i \in done..(read - Len(token))
  BY <1>2, <1>3
<1> QED BY <1>1, <1>4 DEF i

\* What is held back is there.
LEMMA PrefixIsThere ==
    ASSUME TypeOK
    PROVE  find_prefix_at_end \in Nat /\ done <= read - find_prefix_at_end
<1> DEFINE n == Len(token)
           ls == {l \in 0..(n - 1) : read - l >= done /\ Says(read - l, token, l)}
           f == CHOOSE l \in ls : \A k \in ls : k <= l
<1>1. done \in Nat /\ read \in Nat /\ n \in Nat /\ n > 0 /\ done <= read
  BY Lengths DEF TypeOK
<1>2. find_prefix_at_end = f
  BY DEF find_prefix_at_end
<1> HIDE DEF n
<1>3. n - 1 \in Nat /\ ls \in SUBSET (0..(n - 1)) /\ \A l \in ls : l \in Nat /\ read - l >= done
  BY <1>1
<1>4. 0 \in ls
  BY <1>1 DEF Says
<1> HIDE DEF ls
<1>5. f \in ls
  <2>1. \E l \in ls : \A k \in ls : k <= l
    BY <1>3, <1>4, GreatestNatural
  <2> QED BY <2>1
<1> HIDE DEF f
<1>6. f \in Nat /\ read - f >= done
  BY <1>3, <1>5
<1> QED BY <1>1, <1>2, <1>6

LEMMA BoundedIs ==
    ASSUME NEW S, NEW buf \in Seq(S), NEW data \in Seq(S)
    PROVE  Bounded(buf, data) \in Seq(S)
<1>1. SubSeq(buf, Len(data) + 1, Len(buf)) \in Seq(S)
  <2>1. Len(data) + 1 \in Int /\ Len(buf) \in Int /\ \A i \in (Len(data) + 1)..Len(buf) : buf[i] \in S
    OBVIOUS
  <2> QED BY <2>1, SubSeqProperties, Zenon
<1>2. SubSeq(buf, Len(data) + 1, Len(buf)) \o data \in Seq(S) /\ buf \o data \in Seq(S)
  BY <1>1, ConcatProperties, Zenon
<1> QED BY <1>2, Zenon DEF Bounded

\* What was recorded is in order when what is newer is behind it.
LEMMA RecordedMore ==
    ASSUME NEW c \in Seq(Nat), NEW d \in Nat, NEW e \in Nat, d <= e, NEW data, Newer(data, d, e),
           UpTo(c, d)
    PROVE  UpTo(c \o data, e) /\ ToSet(c \o data) = ToSet(c) \cup ToSet(data)
<1>1. data \in Seq(Nat) /\ Increasing(data) /\ \A k \in DOMAIN data : data[k] \in Nat /\ d < data[k] /\ data[k] <= e
  BY DEF Newer
<1>2. \A i \in DOMAIN c : c[i] \in Nat /\ c[i] <= d
  BY DEF ToSet, UpTo
<1>3. Increasing(c \o data)
  <2>1. \A i \in DOMAIN c, k \in DOMAIN data : c[i] < data[k]
    BY <1>1, <1>2
  <2> QED BY <1>1, <2>1, Longer DEF UpTo
<1>4. PICK h : h = c \o data
  OBVIOUS
<1>5. Extends(h, c, data)
  BY <1>1, <1>4, ConcatExtends
<1>6. /\ \A k \in DOMAIN h : \/ k \in DOMAIN c /\ h[k] = c[k]
                             \/ \E i \in DOMAIN data : h[k] = data[i]
      /\ \A k \in DOMAIN c : k \in DOMAIN h /\ h[k] = c[k]
      /\ \A i \in DOMAIN data : \E k \in DOMAIN h : h[k] = data[i]
  <2>1. \A k \in DOMAIN h : \/ k \in DOMAIN c /\ h[k] = c[k]
                            \/ k \notin DOMAIN c /\ \E i \in DOMAIN data : h[k] = data[i]
    BY <1>1, <1>5, ExtendsAt
  <2>2. PICK m \in Nat, n \in Nat : m = Len(c) /\ n = Len(data)
    BY <1>1
  <2>3. DOMAIN c = 1..m /\ DOMAIN data = 1..n
    BY <1>1, <2>2
  <2>4. h \in Seq(Nat) /\ Len(h) = m + n /\ (\A k \in 1..m : h[k] = c[k]) /\ \A k \in 1..n : h[m + k] = data[k]
    BY <1>5, <2>2 DEF Extends
  <2>5. DOMAIN h = 1..(m + n)
    BY <2>4
  <2>6. \A k \in 1..m : k \in 1..(m + n)
    OBVIOUS
  <2>7. \A k \in 1..n : m + k \in 1..(m + n)
    OBVIOUS
  <2> QED BY <2>1, <2>3, <2>4, <2>5, <2>6, <2>7
<1>7. ToSet(h) = ToSet(c) \cup ToSet(data)
  <2>1. ASSUME NEW b \in ToSet(h) PROVE b \in ToSet(c) \cup ToSet(data)
    BY <1>6, <2>1 DEF ToSet
  <2>2. ASSUME NEW b \in ToSet(c) \cup ToSet(data) PROVE b \in ToSet(h)
    BY <1>6, <2>2 DEF ToSet
  <2> QED BY <2>1, <2>2
<1>8. \A b \in ToSet(h) : b <= e
  <2>1. \A b \in ToSet(c) : b <= e
    BY <1>2 DEF ToSet
  <2> QED BY <1>1, <1>7, <2>1 DEF ToSet
<1> QED BY <1>3, <1>4, <1>7, <1>8 DEF UpTo

\* Soundness is kept when the log is written to.
LEMMA EmitSound ==
    ASSUME NEW p \in Programs, NEW L \in LogType, NEW t \in TailType, NEW c \in Seq(Nat),
           NEW d \in Nat, NEW e \in Nat, d <= e, NEW data, Newer(data, d, e), Sound(p, L, t, c, d)
    PROVE  LET M == emit(L, data, HeldBy(t))
           IN  /\ M \in LogType /\ Sound(p, M, t, c \o data, e)
               /\ Complete(L, ToSet(c)) => Complete(M, ToSet(c \o data))
<1> DEFINE held == HeldBy(t)
           M == emit(L, data, held)
<1>1. Fits(L, p) /\ Rotating(L, held, d) /\ Following(L, t, d) /\ UpTo(c, d)
  BY DEF Sound
<1>2. Single(held) /\ (t.at = "open" => t.ino \in held)
  BY DEF HeldBy, Single
<1> HIDE DEF held
<1>3. Rotating(M, held, e) /\ M \in LogType /\ Fits(M, p)
  BY <1>1, <1>2, EmittedKeeps
<1>4. Following(M, t, e)
  BY <1>1, <1>2, FollowingEmitted DEF Rotating
<1>5. UpTo(c \o data, e) /\ ToSet(c \o data) = ToSet(c) \cup ToSet(data)
  BY <1>1, RecordedMore
<1>6. ASSUME Complete(L, ToSet(c)) PROVE Complete(M, ToSet(c \o data))
  <2>1. ToSet(c) \in SUBSET Nat
    BY DEF ToSet
  <2>2. \A b \in ToSet(c) : b <= d
    BY <1>1 DEF UpTo
  <2>3. Complete(M, ToSet(c) \cup ToSet(data))
    BY <1>1, <1>2, <1>6, <2>1, <2>2, CompleteEmitted
  <2> QED BY <1>5, <2>3
<1> HIDE DEF M
<1> QED BY <1>3, <1>4, <1>5, <1>6 DEF Sound, M, held

\* What _log() leaves behind, whatever it does with the bytes.
LEMMA LogStep ==
    ASSUME IInv, NEW upto \in Nat, done <= upto, upto <= read, Log(upto)
    PROVE  /\ log' \in LogType /\ Sound(program, log', tail, recorded', upto)
           /\ mishaps = 0 => Complete(log', ToSet(recorded'))
           /\ recorded' \in Seq(Bytes) /\ capturelog' \in Seq(Bytes)
           /\ capturemode \/ capturelog' = capturelog
<1>1. /\ program \in Programs /\ log \in LogType /\ tail \in TailType /\ done \in Nat
      /\ recorded \in Seq(Bytes) /\ capturelog \in Seq(Bytes)
  BY Lengths DEF IInv, TypeOK
<1>2. recorded \in Seq(Nat)
  BY <1>1 DEF Bytes
<1>3. /\ Sound(program, log, tail, recorded, done)
      /\ mishaps = 0 => Complete(log, ToSet(recorded))
  BY DEF IInv
<1>4. PICK n \in Nat : n = Len(script) /\ Bytes = 1..n /\ upto <= n
  <2>1. Len(script) \in Nat /\ Bytes = 1..Len(script) /\ upto <= Len(script)
    BY Lengths DEF IInv, TypeOK
  <2> QED BY <2>1
<1>5. PICK data : data = Positions(done, upto)
  OBVIOUS
<1>6. Newer(data, done, upto) /\ data \in Seq(Bytes)
  BY <1>1, <1>4, <1>5, PositionsAre
<1>7. Sound(program, log, tail, recorded, upto)
  BY <1>1, <1>2, <1>3, LaterSound
<1>8. CASE log' = emit(log, data, HeldBy(tail)) /\ recorded' = recorded \o data /\ UNCHANGED capturelog
  <2>1. /\ emit(log, data, HeldBy(tail)) \in LogType
        /\ Sound(program, emit(log, data, HeldBy(tail)), tail, recorded \o data, upto)
        /\ Complete(log, ToSet(recorded)) => Complete(emit(log, data, HeldBy(tail)), ToSet(recorded \o data))
    BY <1>1, <1>2, <1>3, <1>6, EmitSound
  <2>2. recorded \o data \in Seq(Bytes)
    BY <1>1, <1>6, ConcatProperties, Zenon
  <2> QED BY <1>1, <1>3, <1>8, <2>1, <2>2
<1>9. CASE UNCHANGED <<log, recorded>> /\ capturelog' \in Seq(Bytes) /\ (capturemode \/ UNCHANGED capturelog)
  BY <1>1, <1>3, <1>7, <1>9
<1>10. Bounded(capturelog, data) \in Seq(Bytes)
  BY <1>1, <1>6, BoundedIs
<1>11. tailed = HeldBy(tail)
  BY DEF tailed, HeldBy
<1> QED BY <1>1, <1>5, <1>8, <1>9, <1>10, <1>11 DEF Log

-----------------------------------------------------------------------------
(* Every step keeps the invariant.                                         *)

LEMMA SameProgram ==
    program' = program => script' = script /\ Bytes' = Bytes /\ capture_maxbytes' = capture_maxbytes
BY DEF script, Bytes, capture_maxbytes

LEMMA RecordTokenKeeps == IInv /\ RecordToken => IInv'
<1> SUFFICES ASSUME IInv, RecordToken PROVE IInv'
  OBVIOUS
<1> DEFINE i == CHOOSE i \in Tokens : \A j \in Tokens : i <= j
<1>1. TypeOK /\ done \in Nat /\ read \in Nat /\ Len(token) \in Nat \ {0}
  BY Lengths DEF IInv, TypeOK
<1>2. /\ pc = "record" /\ capture_maxbytes > 0 /\ Tokens # {} /\ done' = i + Len(token)
      /\ IF capturemode THEN capturelog' = <<>> /\ UNCHANGED <<log, recorded>> ELSE Log(i)
      /\ capturemode' = ~capturemode
      /\ IF done' = read THEN Recorded ELSE UNCHANGED pc
      /\ UNCHANGED <<program, alive, written, read, born, tail, mishaps>>
  BY DEF RecordToken
<1>3. i \in Nat /\ done <= i /\ i + Len(token) <= read
  BY <1>1, <1>2, FirstToken
<1> HIDE DEF i
<1>4. done' \in Nat /\ done <= done' /\ i <= done' /\ done' <= read
  BY <1>1, <1>2, <1>3
<1>5. /\ log' \in LogType /\ (mishaps = 0 => Complete(log', ToSet(recorded')))
      /\ recorded' \in Seq(Bytes) /\ capturelog' \in Seq(Bytes)
      /\ (capturelog' # <<>> => capturemode')
      /\ Sound(program, log', tail, recorded', done')
  <2>1. recorded \in Seq(Nat) /\ Seq(Bytes) \subseteq Seq(Nat) /\ log \in LogType /\ tail \in TailType
    BY <1>1 DEF TypeOK, Bytes
  <2>2. CASE capturemode
    <3>1. Sound(program, log, tail, recorded, done')
      BY <1>1, <1>4, <2>1, LaterSound DEF IInv
    <3> QED BY <1>1, <1>2, <2>2, <3>1 DEF IInv, TypeOK
  <2>3. CASE ~capturemode
    <3>1. i <= read /\ Log(i)
      BY <1>1, <1>2, <1>3, <1>4, <2>3
    <3>2. /\ log' \in LogType /\ Sound(program, log', tail, recorded', i)
          /\ mishaps = 0 => Complete(log', ToSet(recorded'))
          /\ recorded' \in Seq(Bytes) /\ capturelog' \in Seq(Bytes) /\ capturelog' = capturelog
      BY <1>3, <2>3, <3>1, LogStep
    <3>3. Sound(program, log', tail, recorded', done')
      BY <1>3, <1>4, <2>1, <3>2, LaterSound
    <3>4. capturelog = <<>>
      BY <1>1, <2>3 DEF TypeOK
    <3> QED BY <1>2, <2>3, <3>2, <3>3, <3>4
  <2> QED BY <2>2, <2>3
<1>6. TypeOK'
  <2>1. pc' \in {"loop", "record", "gone"} /\ capturemode' \in BOOLEAN
    BY <1>1, <1>2 DEF TypeOK, Recorded
  <2>2. born \in 0..done' /\ done' \in 0..read
    BY <1>1, <1>4 DEF TypeOK
  <2> QED BY <1>1, <1>2, <1>5, <2>1, <2>2, SameProgram DEF TypeOK
<1> QED BY <1>2, <1>5, <1>6 DEF IInv

LEMMA RecordRestKeeps == IInv /\ RecordRest => IInv'
<1> SUFFICES ASSUME IInv, RecordRest PROVE IInv'
  OBVIOUS
<1>1. TypeOK /\ done \in Nat /\ read \in Nat /\ Len(token) \in Nat \ {0} /\ done <= read
  BY Lengths DEF IInv, TypeOK
<1>2. /\ done' = IF capture_maxbytes = 0 THEN read
                 ELSE IF read - done <= Len(token) THEN done ELSE read - find_prefix_at_end
      /\ Log(done') /\ Recorded
      /\ UNCHANGED <<program, alive, written, read, born, capturemode, tail, mishaps>>
  BY DEF RecordRest
<1>3. done' \in Nat /\ done <= done' /\ done' <= read
  <2>1. find_prefix_at_end \in Nat /\ done <= read - find_prefix_at_end
    BY <1>1, PrefixIsThere
  <2> QED BY <1>1, <1>2, <2>1
<1>4. /\ log' \in LogType /\ Sound(program, log', tail, recorded', done')
      /\ mishaps = 0 => Complete(log', ToSet(recorded'))
      /\ recorded' \in Seq(Bytes) /\ capturelog' \in Seq(Bytes)
      /\ capturemode \/ capturelog' = capturelog
  <2>1. PICK upto \in Nat : upto = done'
    BY <1>3
  <2>2. Log(upto) /\ done <= upto /\ upto <= read
    BY <1>2, <1>3, <2>1
  <2> QED BY <2>1, <2>2, LogStep
<1>5. TypeOK'
  <2>1. pc' \in {"loop", "record", "gone"}
    BY <1>2 DEF Recorded
  <2>2. born \in 0..done' /\ done' \in 0..read
    BY <1>1, <1>3 DEF TypeOK
  <2> QED BY <1>1, <1>2, <1>4, <2>1, <2>2, SameProgram DEF TypeOK
<1> QED BY <1>2, <1>4, <1>5 DEF IInv

\* What changes neither the log nor its client.
LEMMA ElsewhereKeeps ==
    IInv /\ (Read \/ Write \/ Dies) => IInv'
<1> SUFFICES ASSUME IInv, Read \/ Write \/ Dies PROVE IInv'
  OBVIOUS
<1>1. UNCHANGED <<program, log, tail, recorded, done, mishaps>>
  BY DEF Read, Write, Dies, dispatcher
<1>2. TypeOK /\ written \in Nat /\ read \in Nat /\ done \in Nat /\ Len(script) \in Nat
  BY Lengths DEF IInv, TypeOK
<1>3. TypeOK'
  <2>1. CASE Read
    <3>1. done' \in 0..read' /\ read' \in 0..written' /\ written' \in 0..Len(script)
      BY <1>1, <1>2, <2>1 DEF Read, TypeOK
    <3> QED BY <1>1, <1>2, <2>1, <3>1, SameProgram DEF Read, TypeOK
  <2>2. CASE Write
    <3>1. read' \in 0..written' /\ written' \in 0..Len(script)
      BY <1>1, <1>2, <2>2 DEF Write, TypeOK, dispatcher
    <3> QED BY <1>1, <1>2, <2>2, <3>1, SameProgram DEF Write, TypeOK, dispatcher
  <2>3. CASE Dies
    BY <1>1, <1>2, <2>3, SameProgram DEF Dies, TypeOK, dispatcher
  <2> QED BY <2>1, <2>2, <2>3
<1> QED BY <1>1, <1>3 DEF IInv

LEMMA RespawnKeeps == IInv /\ Respawn => IInv'
<1> SUFFICES ASSUME IInv, Respawn PROVE IInv'
  OBVIOUS
<1>1. /\ TypeOK /\ done \in Nat /\ read \in Nat /\ done <= read /\ recorded \in Seq(Nat)
      /\ program \in Programs /\ log \in LogType /\ tail \in TailType
  BY Lengths DEF IInv, TypeOK, Bytes
<1>2. /\ pc' = "loop" /\ alive' = TRUE /\ done' = read /\ born' = read /\ capturemode' = FALSE
      /\ capturelog' = <<>> /\ log' = Open(log, HeldBy(tail))
      /\ UNCHANGED <<program, written, read, tail, recorded, mishaps>>
  BY DEF Respawn, tailed, HeldBy
<1>3. /\ log' \in LogType /\ Sound(program, log', tail, recorded, done)
      /\ mishaps = 0 => Complete(log', ToSet(recorded))
  BY <1>1, <1>2, OpenSound DEF IInv
<1>4. Sound(program, log', tail, recorded, read)
  BY <1>1, <1>3, LaterSound
<1>5. TypeOK'
  <2>1. born' \in 0..done' /\ done' \in 0..read' /\ <<>> \in Seq(Bytes)
    BY <1>1, <1>2
  <2> QED BY <1>1, <1>2, <1>3, <2>1, SameProgram DEF TypeOK
<1> QED BY <1>2, <1>3, <1>4, <1>5 DEF IInv

LEMMA ReopenKeeps == IInv /\ Reopen => IInv'
<1> SUFFICES ASSUME IInv, Reopen PROVE IInv'
  OBVIOUS
<1>1. TypeOK /\ done \in Nat /\ program \in Programs /\ log \in LogType /\ tail \in TailType
  BY Lengths DEF IInv, TypeOK
<1>2. /\ log' = Open(log, HeldBy(tail))
      /\ UNCHANGED <<program, alive, written, pc, read, done, born, capturemode, capturelog, recorded, tail, mishaps>>
  BY DEF Reopen, tailed, HeldBy, dispatcher
<1>3. /\ log' \in LogType /\ Sound(program, log', tail, recorded, done)
      /\ mishaps = 0 => Complete(log', ToSet(recorded))
  BY <1>1, <1>2, OpenSound DEF IInv
<1>4. TypeOK'
  BY <1>1, <1>2, <1>3, SameProgram DEF TypeOK
<1> QED BY <1>2, <1>3, <1>4 DEF IInv

\* From here on nothing is said of what is kept.
LEMMA MishapKeeps == IInv /\ (Clear \/ Unlink) => IInv'
<1> SUFFICES ASSUME IInv, Clear \/ Unlink PROVE IInv'
  OBVIOUS
<1> DEFINE K == [log EXCEPT !.base = NoFile]
<1>1. TypeOK /\ done \in Nat /\ program \in Programs /\ log \in LogType /\ tail \in TailType /\ mishaps \in Nat
  BY Lengths, StreamsAssumption DEF IInv, TypeOK
<1>2. /\ log' \in {K, Open(K, HeldBy(tail))} /\ mishaps < Mishaps /\ mishaps' = mishaps + 1
      /\ capturelog' \in {capturelog, <<>>}
      /\ UNCHANGED <<program, alive, written, pc, read, done, born, capturemode, recorded, tail>>
  BY DEF Clear, Unlink, Cleared, tailed, HeldBy, dispatcher
<1>3. K \in LogType /\ Sound(program, K, tail, recorded, done)
  BY <1>1, UnnamedSound DEF IInv
<1> HIDE DEF K
<1>4. log' \in LogType /\ Sound(program, log', tail, recorded, done)
  BY <1>1, <1>2, <1>3, OpenSound
<1>5. mishaps' \in 0..Mishaps /\ mishaps' # 0
  BY <1>1, <1>2, StreamsAssumption
<1>6. TypeOK'
  <2>1. capturelog' \in Seq(Bytes) /\ (capturelog' # <<>> => capturelog # <<>>)
    <3>1. <<>> \in Seq(Bytes) /\ capturelog \in Seq(Bytes)
      BY <1>1 DEF TypeOK
    <3> QED BY <1>2, <3>1
  <2> QED BY <1>1, <1>2, <1>4, <1>5, <2>1, SameProgram DEF TypeOK
<1> QED BY <1>2, <1>4, <1>5, <1>6 DEF IInv

-----------------------------------------------------------------------------
(* The client that follows the log.                                        *)

\* It got nothing yet.
LEMMA ConnectKeeps == IInv /\ Connect => IInv'
<1> SUFFICES ASSUME IInv, Connect PROVE IInv'
  OBVIOUS
<1>1. /\ TypeOK /\ program \in Programs /\ log \in LogType /\ tail \in TailType /\ TailHead \in Nat
      /\ Sound(program, log, tail, recorded, done)
  BY StreamsAssumption DEF IInv, TypeOK
<1>2. /\ tail.at = "none" /\ log.base # NoFile
      /\ UNCHANGED <<program, alive, written, pc, read, done, born, capturemode, capturelog, log, recorded, mishaps>>
  BY DEF Connect, dispatcher
<1>3. PICK sz \in Nat :
         /\ sz <= Len(log.content[log.base])
         /\ tail' = [at |-> "open", ino |-> log.base, sz |-> sz, out |-> <<>>, sent |-> <<>>]
  <2> DEFINE size == Len(log.content[log.base])
             z == IF size >= TailHead THEN size - TailHead ELSE 0
  <2>1. log.base \in Inodes /\ log.content \in [Inodes -> Seq(Nat)]
    BY <1>1, <1>2 DEF LogType
  <2>2. size \in Nat
    BY <2>1
  <2>3. tail' = [NoTail EXCEPT !.at = "open", !.ino = log.base, !.sz = z]
    BY DEF Connect
  <2> HIDE DEF size
  <2>4. z \in Nat /\ z <= size
    BY <1>1, <2>2
  <2> HIDE DEF z
  <2>5. tail' = [at |-> "open", ino |-> log.base, sz |-> z, out |-> <<>>, sent |-> <<>>]
    BY <2>3 DEF NoTail
  <2> QED BY <2>4, <2>5 DEF size
<1>4. PICK L \in LogType : L = log
  BY <1>1
<1>5. PICK u : u = tail'
  OBVIOUS
<1>6. L.base \in Inodes /\ L.base = L.stream
  BY <1>1, <1>2, <1>3, <1>4, <1>5 DEF Sound, Rotating, Handled, LogType
<1>7. u \in TailType /\ u.at = "open" /\ u.ino = L.base /\ u.sz = sz /\ u.out = <<>> /\ u.sent = <<>>
  BY <1>3, <1>4, <1>5, <1>6 DEF TailType
<1>8. Given(u) = <<>> /\ Got(u) = {}
  <2>1. Given(u) = <<>>
    BY <1>7 DEF Given
  <2> QED BY <2>1 DEF Got, ToSet
<1>9. Following(L, u, done)
  <2>1. InOrder(Given(u))
    BY <1>8 DEF InOrder
  <2>2. Ahead(L, u)
    BY <1>6, <1>7, <1>8 DEF Ahead
  <2>3. Whole(L, u)
    BY <1>3, <1>4, <1>5, <1>7, <1>8 DEF Whole
  <2>4. Unbroken(L, u)
    BY <1>8 DEF Unbroken
  <2> QED BY <1>6, <1>7, <1>8, <2>1, <2>2, <2>3, <2>4 DEF Following
<1>10. Rotating(L, HeldBy(u), done)
  <2>1. L.base \in Used(L, HeldBy(tail)) /\ HeldBy(tail) = {}
    BY <1>2 DEF Used, HeldBy
  <2>2. Tidy(L, HeldBy(u))
    BY <1>1, <1>3, <1>4, <1>5, <2>1 DEF Sound, Rotating, Tidy, Used
  <2> QED BY <1>1, <1>3, <1>4, <1>5, <2>2 DEF Sound, Rotating
<1>11. TypeOK'
  BY <1>1, <1>2, <1>3, <1>4, <1>5, <1>7, SameProgram DEF TypeOK
<1> QED BY <1>1, <1>2, <1>3, <1>4, <1>5, <1>9, <1>10, <1>11 DEF IInv, Sound

LEMMA FollowedIs ==
    ASSUME log \in LogType, tail \in TailType, tail.at = "open", NEW d \in Nat,
           Handled(log), Following(log, tail, d)
    PROVE  Followed \in TailType /\ Followed.at = "open" /\ Following(log, Followed, d)
<1>1. CASE log.base \in {NoFile, tail.ino}
  BY <1>1 DEF Followed
<1>2. CASE log.base \notin {NoFile, tail.ino}
  <2>1. PICK u : u = Followed
    OBVIOUS
  <2>2. log.base \in Inodes /\ u = [tail EXCEPT !.ino = log.base, !.sz = 0]
    BY <1>2, <2>1 DEF Followed, LogType
  <2>3. /\ u \in TailType /\ u.at = "open" /\ u.ino = log.base /\ u.sz = 0
        /\ u.sent = tail.sent /\ u.out = tail.out
    BY <2>2 DEF TailType
  <2>4. Given(u) = Given(tail)
    BY <2>3 DEF Given
  <2>5. Following(log, u, d)
    BY <1>2, <2>3, <2>4, FollowsNewFile
  <2> QED BY <2>1, <2>3, <2>5
<1> QED BY <1>1, <1>2

LEMMA MoreIs ==
    ASSUME log \in LogType, NEW t \in TailType, t.at = "open", NEW d \in Nat,
           Holding(log, d), Following(log, t, d)
    PROVE  more(t) \in TailType /\ more(t).at = "open" /\ Following(log, more(t), d)
<1>1. PICK L \in LogType : L = log
  OBVIOUS
<1>2. PICK u : u = more(t)
  OBVIOUS
<1>3. PICK c \in Seq(Nat) : c = L.content[t.ino]
  BY <1>1 DEF Following, LogType
<1>4. t.sz \in Nat /\ Len(c) \in Nat /\ t.out \in Seq(Nat) /\ t.sent \in Seq(Nat)
  BY DEF TailType
<1>5. CASE Len(c) < t.sz
  <2>1. u = [t EXCEPT !.sz = 0, !.out = Append(@, Truncated)]
    BY <1>1, <1>2, <1>3, <1>5 DEF more
  <2>2. Append(t.out, Truncated) \in Seq(Nat)
    BY <1>4 DEF Truncated
  <2>3. /\ u \in TailType /\ u.at = "open" /\ u.ino = t.ino /\ u.sz = 0
        /\ u.sent = t.sent /\ u.out = Append(t.out, Truncated)
    BY <2>1, <2>2 DEF TailType
  <2>4. Following(L, u, d)
    BY <1>1, <1>3, <1>5, <2>3, TruncatedFollows
  <2> QED BY <1>1, <1>2, <2>3, <2>4
<1>6. CASE ~(Len(c) < t.sz)
  <2> DEFINE x == SubSeq(c, t.sz + 1, Len(c))
  <2>1. u = [t EXCEPT !.sz = Len(c), !.out = @ \o x]
    BY <1>1, <1>2, <1>3, <1>6 DEF more
  <2>2. x \in Seq(Nat) /\ t.sz <= Len(c)
    BY <1>4, <1>6, RestIs DEF Rest
  <2>3. x = SubSeq(L.content[t.ino], t.sz + 1, Len(L.content[t.ino]))
    BY <1>3
  <2> HIDE DEF x
  <2>4. t.out \o x \in Seq(Nat)
    BY <1>4, <2>2
  <2>5. /\ u \in TailType /\ u.at = "open" /\ u.ino = t.ino /\ u.sz = Len(c)
        /\ u.sent = t.sent /\ u.out = t.out \o x
    BY <1>4, <2>1, <2>4 DEF TailType
  <2>6. Following(L, u, d)
    BY <1>1, <1>3, <2>2, <2>3, <2>5, ReadFollows
  <2> QED BY <1>1, <1>2, <2>5, <2>6
<1> QED BY <1>5, <1>6

AfterSend(u, g, n) ==
    u = [g EXCEPT !.out = SubSeq(@, n + 1, Len(@)), !.sent = @ \o SubSeq(g.out, 1, n)]

LEMMA SentFollows ==
    ASSUME NEW L, NEW g \in TailType, g.at = "open", NEW d, Following(L, g, d),
           NEW n \in 1..Len(g.out), NEW u, AfterSend(u, g, n)
    PROVE  u \in TailType /\ u.at = "open" /\ Following(L, u, d)
<1>1. PICK a \in Seq(Nat) : a = g.sent
  BY DEF TailType
<1>2. PICK b \in Seq(Nat) : b = g.out
  BY DEF TailType
<1>3. /\ a \o SubSeq(b, 1, n) \in Seq(Nat) /\ SubSeq(b, n + 1, Len(b)) \in Seq(Nat)
      /\ (a \o SubSeq(b, 1, n)) \o SubSeq(b, n + 1, Len(b)) = a \o b
  BY <1>2, SentIs
<1>4. PICK x : x = a \o SubSeq(b, 1, n)
  OBVIOUS
<1>5. PICK y : y = SubSeq(b, n + 1, Len(b))
  OBVIOUS
<1>6. x \in Seq(Nat) /\ y \in Seq(Nat) /\ x \o y = a \o b
  BY <1>3, <1>4, <1>5
<1>7. u = [g EXCEPT !.out = y, !.sent = x]
  BY <1>1, <1>2, <1>4, <1>5, Zenon DEF AfterSend
<1>8. u \in TailType /\ u.at = "open" /\ u.ino = g.ino /\ u.sz = g.sz /\ u.out = y /\ u.sent = x
  BY <1>6, <1>7 DEF TailType
<1>9. Given(u) = Given(g)
  BY <1>1, <1>2, <1>6, <1>8, Zenon DEF Given
<1> QED BY <1>8, <1>9, FollowingSame

LEMMA SendKeeps == IInv /\ Send => IInv'
<1> SUFFICES ASSUME IInv, Send PROVE IInv'
  OBVIOUS
<1> DEFINE filled == IF Len(tail.out) < OutBufferSize THEN more(Followed) ELSE tail
<1>1. /\ TypeOK /\ program \in Programs /\ log \in LogType /\ tail \in TailType /\ done \in Nat
      /\ Fits(log, program) /\ UpTo(recorded, done) /\ Rotating(log, HeldBy(tail), done)
      /\ Following(log, tail, done)
  BY Lengths DEF IInv, TypeOK, Sound
<1>2. /\ tail.at = "open" /\ log' = Remaining(log, {tail'.ino})
      /\ UNCHANGED <<program, alive, written, pc, read, done, born, capturemode, capturelog, recorded, mishaps>>
      /\ IF filled.out = <<>> THEN tail' = filled
         ELSE \E n \in 1..Least(OutBufferSize, Len(filled.out)) :
                tail' = [filled EXCEPT !.out = SubSeq(@, n + 1, Len(@)),
                                       !.sent = @ \o SubSeq(filled.out, 1, n)]
  BY DEF Send, dispatcher
<1>3. filled \in TailType /\ filled.at = "open" /\ Following(log, filled, done)
  <2>1. Followed \in TailType /\ Followed.at = "open" /\ Following(log, Followed, done)
    BY <1>1, <1>2, FollowedIs DEF Rotating
  <2>2. /\ more(Followed) \in TailType /\ more(Followed).at = "open"
        /\ Following(log, more(Followed), done)
    BY <1>1, <2>1, MoreIs DEF Rotating
  <2> QED BY <1>1, <1>2, <2>2
<1> HIDE DEF filled
<1>4. tail' \in TailType /\ tail'.at = "open" /\ Following(log, tail', done)
  <2>1. CASE filled.out = <<>>
    BY <1>2, <1>3, <2>1
  <2>2. CASE filled.out # <<>>
    <3>1. PICK n \in 1..Least(OutBufferSize, Len(filled.out)) :
             tail' = [filled EXCEPT !.out = SubSeq(@, n + 1, Len(@)),
                                    !.sent = @ \o SubSeq(filled.out, 1, n)]
      BY <1>2, <2>2
    <3>2. n \in 1..Len(filled.out)
      <4>1. PICK m \in Nat : m = Len(filled.out)
        BY <1>3 DEF TailType
      <4> QED BY <4>1, StreamsAssumption DEF Least
    <3>3. PICK g \in TailType : g = filled
      BY <1>3
    <3>4. PICK u : u = tail'
      OBVIOUS
    <3>5. g.at = "open" /\ Following(log, g, done) /\ n \in 1..Len(g.out)
      BY <1>3, <3>2, <3>3
    <3>6. AfterSend(u, g, n)
      BY <3>1, <3>3, <3>4 DEF AfterSend
    <3>7. PICK L : L = log
      OBVIOUS
    <3>8. u \in TailType /\ u.at = "open" /\ Following(L, u, done)
      <4>1. PICK d : d = done
        OBVIOUS
      <4>2. Following(L, g, d)
        BY <3>5, <3>7, <4>1
      <4>3. u \in TailType /\ u.at = "open" /\ Following(L, u, d)
        BY <3>5, <3>6, <4>2, SentFollows
      <4> QED BY <4>1, <4>3
    <3> QED BY <3>4, <3>7, <3>8
  <2> QED BY <2>1, <2>2
<1>5. /\ log' \in LogType /\ Fits(log', program)
      /\ Rotating(log', HeldBy(tail'), done) /\ Following(log', tail', done)
      /\ mishaps = 0 => Complete(log', ToSet(recorded))
  <2>1. PICK t \in TailType : t = tail'
    BY <1>4
  <2>2. log' = Remaining(log, {t.ino}) /\ HeldBy(tail') = {t.ino}
    BY <1>2, <1>4, <2>1 DEF HeldBy
  <2>3. /\ log' \in LogType /\ \A p : Fits(log, p) => Fits(log', p)
        /\ Rotating(log', {t.ino}, done) /\ Following(log', t, done)
        /\ \A logged : Complete(log, logged) => Complete(log', logged)
    BY <1>1, <1>4, <2>1, <2>2, RemainingKeeps
  <2> QED BY <1>1, <2>1, <2>2, <2>3 DEF IInv
<1>6. TypeOK'
  BY <1>1, <1>2, <1>4, <1>5, SameProgram DEF TypeOK
<1> QED BY <1>1, <1>2, <1>5, <1>6 DEF IInv, Sound

-----------------------------------------------------------------------------
(* In the beginning the log is empty.                                      *)

LEMMA InitHolds == Init => IInv
<1> SUFFICES ASSUME Init PROVE IInv
  OBVIOUS
<1>1. PICK p \in Programs : p = program
  BY DEF Init
<1>2. PICK n \in Nat : n = p.backups
  BY Constant
<1>3. p.maxbytes \in Nat \ {0} /\ Len(p.script) \in Nat
  BY Constant
<1>4. Inodes # {}
  <2>1. SUFFICES ASSUME Inodes = {} PROVE FALSE
    OBVIOUS
  <2>2. IsFiniteSet(Inodes) /\ Cardinality(Inodes) = 0
    BY <2>1, FS_EmptySet
  <2> QED BY <1>2, <2>2, RoomAssumption
<1>5. PICK f \in Inodes : f = CHOOSE i \in Inodes : TRUE
  BY <1>4
<1>6. PICK R : R = [maxbytes |-> p.maxbytes, content |-> [i \in Inodes |-> <<>>],
                    base |-> NoFile, stream |-> f, backups |-> [i \in 1..n |-> NoFile]]
  OBVIOUS
<1>7. /\ R.maxbytes = p.maxbytes /\ R.content = [i \in Inodes |-> <<>>] /\ R.base = NoFile
      /\ R.stream = f /\ R.backups = [i \in 1..n |-> NoFile]
  BY <1>6
<1>8. /\ R \in LogType /\ Len(R.backups) = n /\ DOMAIN R.backups = 1..n
      /\ \A i \in 1..n : R.backups[i] = NoFile
  <2>1. [i \in Inodes |-> <<>>] \in [Inodes -> Seq(Nat)]
    BY EmptySeq
  <2>2. [i \in 1..n |-> NoFile] \in [1..n -> Inodes \cup {NoFile}]
    OBVIOUS
  <2>3. [i \in 1..n |-> NoFile] \in Seq(Inodes \cup {NoFile})
    BY <2>2
  <2>4. R \in LogType
    BY <1>3, <1>6, <2>1, <2>3 DEF LogType
  <2> QED BY <1>7, <2>4
<1>9. /\ program \in Programs /\ alive = TRUE /\ written = 0 /\ pc = "loop" /\ read = 0 /\ done = 0 /\ born = 0
      /\ capturemode = FALSE /\ capturelog = <<>> /\ log = Open(R, {})
      /\ tail = NoTail /\ recorded = <<>> /\ mishaps = 0
  BY <1>1, <1>2, <1>5, <1>6 DEF Init
<1>10. /\ NoTail \in TailType /\ HeldBy(NoTail) = {} /\ Given(NoTail) = <<>> /\ Got(NoTail) = {}
  <2>1. NoTail \in TailType /\ HeldBy(NoTail) = {}
    BY EmptySeq DEF NoTail, TailType, HeldBy
  <2>2. Given(NoTail) = <<>>
    BY DEF Given, NoTail
  <2> QED BY <2>1, <2>2 DEF Got, ToSet
<1>11. Sound(p, R, NoTail, <<>>, 0)
  <2>1. f # NoFile /\ \A g \in Inodes : R.content[g] = <<>> /\ Held(R, g) = {}
    BY <1>7, LogAssumption DEF NoFile, Held
  <2>2. Apart(R) /\ Handled(R) /\ BackupsInOrder(R) /\ StreamIsLast(R) /\ Tidy(R, {})
    BY <1>7, <1>8, <2>1 DEF Apart, Handled, BackupsInOrder, StreamIsLast, Tidy
  <2>3. Holding(R, 0)
    BY <2>1 DEF Holding, Increasing
  <2>4. Following(R, NoTail, 0)
    BY <1>10 DEF Following, InOrder, NoTail
  <2>5. Fits(R, p) /\ UpTo(<<>>, 0)
    BY <1>2, <1>7, <1>8 DEF Fits, UpTo, Increasing, ToSet
  <2> QED BY <1>10, <2>2, <2>3, <2>4, <2>5 DEF Sound, Rotating
<1>12. log \in LogType /\ Sound(p, log, NoTail, <<>>, 0)
  BY <1>8, <1>9, <1>10, <1>11, OpenSound
<1>13. Complete(log, ToSet(<<>>))
  <2>1. ToSet(<<>>) = {}
    BY DEF ToSet
  <2>2. HasRoom(R, {})
    BY <1>2, <1>8, RoomFor
  <2>3. PICK s \in Inodes : Opened(R, log, s, {}) /\ log.content[s] = R.content[s]
    BY <1>8, <1>9, <2>2, OpenIs
  <2>4. log.base = s /\ log.stream = s /\ log.backups = R.backups /\ Held(log, s) = {}
    BY <1>7, <2>3 DEF Opened, Held
  <2>5. Kept(log) = {}
    BY <1>8, <1>12, <2>4, KeptIs
  <2> QED BY <1>8, <2>1, <2>4, <2>5 DEF Complete, NoGaps, Full, Ends
<1>14. TypeOK
  <2>1. Len(script) \in Nat /\ <<>> \in Seq(Bytes) /\ Mishaps \in Nat
    BY <1>1, <1>3, EmptySeq, StreamsAssumption DEF script
  <2>2. /\ born \in 0..done /\ done \in 0..read /\ read \in 0..written /\ written \in 0..Len(script)
        /\ mishaps \in 0..Mishaps
    BY <1>9, <2>1
  <2>3. capturelog \in Seq(Bytes) /\ recorded \in Seq(Bytes) /\ tail \in TailType
    BY <1>9, <1>10, <2>1
  <2> QED BY <1>9, <1>12, <2>2, <2>3 DEF TypeOK
<1> QED BY <1>1, <1>9, <1>12, <1>13, <1>14 DEF IInv

-----------------------------------------------------------------------------
(* The theorems.                                                           *)

LEMMA NextKeeps == IInv /\ [Next]_vars => IInv'
<1> SUFFICES ASSUME IInv, [Next]_vars PROVE IInv'
  OBVIOUS
<1>1. CASE UNCHANGED vars
  <2>1. TypeOK'
    BY <1>1, SameProgram DEF IInv, TypeOK, vars, dispatcher
  <2> QED BY <1>1, <2>1 DEF IInv, vars, dispatcher
<1> QED BY <1>1, RecordTokenKeeps, RecordRestKeeps, ElsewhereKeeps, RespawnKeeps, ConnectKeeps, SendKeeps,
           MishapKeeps, ReopenKeeps DEF Next, Daemon

\* The generations of the files stay in order, the end of what was logged stays complete until
\* files go away, and the client has all but what is newer, in every state.
THEOREM Invariance == Spec => []IInv
<1>1. Init => IInv
  BY InitHolds
<1>2. IInv /\ [Next]_vars => IInv'
  BY NextKeeps
<1> QED BY <1>1, <1>2, PTL DEF Spec

\* The states are those of the program, its pipe, its log and its client; the dispatcher is never
\* ahead of what was read, and keeps something captured only while it captures.
THEOREM TypeCorrect == Spec => []TypeOK
<1>1. IInv => TypeOK
  BY DEF IInv
<1> QED BY <1>1, Invariance, PTL

\* However often the log is rotated, cleared, removed and opened again, whatever its options
\* logfile_maxbytes and logfile_backups: what was logged is in its files in order, each byte
\* once, and only the oldest of it is given up, once there is no name left for it.
THEOREM FilesAreInOrder == Spec => []FilesInOrder
<1>1. ASSUME IInv PROVE FilesInOrder
  <2>1. /\ log \in LogType /\ UpTo(recorded, done) /\ Rotating(log, HeldBy(tail), done)
        /\ mishaps = 0 => Complete(log, ToSet(recorded))
    BY <1>1 DEF IInv, TypeOK, Sound
  <2>2. PICK n \in Nat : n = Len(log.backups) /\ DOMAIN log.backups = 1..n
    BY <2>1 DEF LogType
  <2>3. /\ DOMAIN Files(log) = 0..n /\ Files(log)[0] = log.base
        /\ \A i \in 1..n : Files(log)[i] = log.backups[i]
    BY <2>2 DEF Files
  <2>4. Named(log) \subseteq Inodes /\ NoFile \notin Named(log)
    <3>1. ASSUME NEW i \in 0..n PROVE Files(log)[i] \in Inodes \cup {NoFile}
      <4>1. i = 0 \/ i \in 1..n
        OBVIOUS
      <4> QED BY <2>1, <2>2, <2>3, <4>1 DEF LogType
    <3> QED BY <2>3, <3>1 DEF Named
  <2>5. Increasing(recorded) /\ \A f \in Named(log) : Increasing(log.content[f])
    BY <2>1, <2>4 DEF UpTo, Rotating, Holding
  <2>6. ASSUME NEW i \in DOMAIN Files(log), NEW j \in DOMAIN Files(log), i < j,
               {Files(log)[i], Files(log)[j]} \subseteq Named(log)
        PROVE  Older(log, Files(log)[j], Files(log)[i])
    <3>1. Files(log)[i] # NoFile /\ Files(log)[j] # NoFile
      BY <2>4, <2>6
    <3>2. j \in 1..n /\ Files(log)[j] = log.backups[j]
      BY <2>3, <2>6
    <3>3. CASE i = 0
      <4>1. Files(log)[i] = log.stream
        BY <2>1, <2>3, <3>1, <3>3 DEF Rotating, Handled
      <4> QED BY <2>1, <2>2, <3>1, <3>2, <4>1 DEF Rotating, StreamIsLast
    <3>4. CASE i # 0
      <4>1. i \in 1..n /\ Files(log)[i] = log.backups[i]
        BY <2>3, <3>4
      <4> QED BY <2>1, <2>2, <2>6, <3>1, <3>2, <4>1 DEF Rotating, BackupsInOrder
    <3> QED BY <3>3, <3>4
  <2>7. ASSUME mishaps = 0
        PROVE  /\ Kept(log) \subseteq ToSet(recorded)
               /\ \A a \in Kept(log), b \in ToSet(recorded) : a < b => b \in Kept(log)
               /\ Kept(log) # ToSet(recorded) =>
                     \A f \in ToSet(log.backups) : f # NoFile /\ Len(log.content[f]) >= log.maxbytes
    BY <2>1, <2>7 DEF Complete, Ends, Full, ToSet
  <2> QED BY <2>5, <2>6, <2>7 DEF FilesInOrder
<1> QED BY <1>1, Invariance, PTL

\* Whenever the client reads, and however little of it can be sent at a time: it is given what was
\* logged in order and no byte twice, without a gap between bytes of a file that it follows, and of a
\* log with backups it skips nothing of it.
THEOREM ClientFollows == Spec => []TailFaithful
<1>1. ASSUME IInv PROVE TailFaithful
  <2>1. Following(log, tail, done)
    BY <1>1 DEF IInv, Sound
  <2>2. Stream = Given(tail) /\ Received = Got(tail) /\ Seen = ReadOf(log, tail)
    BY DEF Stream, Received, Seen, Given, Got, ReadOf
  <2> QED BY <2>1, <2>2 DEF TailFaithful, Following, InOrder, Unbroken, Whole
<1> QED BY <1>1, Invariance, PTL

-----------------------------------------------------------------------------
(* The reference of the dispatcher: whether it captures behind byte i of   *)
(* the output of program p, of which it has heard from byte b on.          *)

SaysIn(p, i, tok) == \A j \in 1..Len(tok) : i + j \in 1..Len(p.script) /\ p.script[i + j] = tok[j]
EndsAt(p, b, i, tok) == i - Len(tok) >= b /\ SaysIn(p, i - Len(tok), tok)
CapturesBehind(p, b, i, before) ==
    IF before THEN ~EndsAt(p, b, i, END_TOKEN) ELSE EndsAt(p, b, i, BEGIN_TOKEN)
IsReference(p, b, n, c) ==
    c = [i \in b..n |-> IF p.capture_maxbytes = 0 \/ i = b THEN FALSE
                        ELSE CapturesBehind(p, b, i, c[i - 1])]
Reference(p, b) == CHOOSE c : IsReference(p, b, Len(p.script), c)

LEMMA ReferenceExists ==
    ASSUME NEW p, NEW b \in Nat, NEW n \in Nat, b <= n
    PROVE  \E c : IsReference(p, b, n, c)
<1> DEFINE Bad == {k \in Nat : b <= k /\ ~\E c : IsReference(p, b, k, c)}
<1> SUFFICES ASSUME n \in Bad PROVE FALSE
  OBVIOUS
<1>1. PICK m \in Bad : \A k \in Bad : m <= k
  <2>1. Bad \in SUBSET Nat
    OBVIOUS
  <2> QED BY <2>1, LeastNatural
<1>2. m \in Nat /\ b <= m /\ \A c : ~IsReference(p, b, m, c)
  BY <1>1
<1> DEFINE at(c, i) == IF p.capture_maxbytes = 0 \/ i = b THEN FALSE ELSE CapturesBehind(p, b, i, c[i - 1])
<1>3. CASE m = b
  <2> DEFINE f == [i \in b..b |-> FALSE]
  <2>1. f = [i \in b..b |-> at(f, i)]
    BY DEF f
  <2> HIDE DEF f
  <2> QED BY <1>2, <1>3, <2>1 DEF IsReference
<1>4. CASE m # b
  <2>1. m - 1 \in Nat /\ b <= m - 1 /\ m - 1 \notin Bad
    BY <1>1, <1>2, <1>4
  <2>2. PICK f : IsReference(p, b, m - 1, f)
    BY <2>1
  <2> DEFINE g == [i \in b..m |-> IF i = m THEN at(f, i) ELSE f[i]]
  <2>3. f = [i \in b..(m - 1) |-> at(f, i)]
    BY <2>2 DEF IsReference
  <2> HIDE DEF at
  <2>4. \A i \in b..(m - 1) : f[i] = at(f, i)
    BY <2>3
  <2>5. ASSUME NEW i \in b..m PROVE g[i] = at(g, i)
    <3>1. g[i] = at(f, i)
      BY <1>2, <1>4, <2>4
    <3>2. i # b => g[i - 1] = f[i - 1]
      BY <1>2
    <3> HIDE DEF g
    <3>3. at(g, i) = at(f, i)
      BY <3>2 DEF at
    <3> QED BY <3>1, <3>3
  <2>6. g = [i \in b..m |-> g[i]]
    OBVIOUS
  <2> HIDE DEF g
  <2>7. g = [i \in b..m |-> at(g, i)]
    BY <2>5, <2>6
  <2> QED BY <1>2, <2>7 DEF IsReference, at
<1> QED BY <1>3, <1>4

\* Its values, one from the other.
LEMMA ReferenceIs ==
    ASSUME NEW p \in Programs, NEW b \in Nat, b <= Len(p.script)
    PROVE  LET c == Reference(p, b)
           IN  /\ c[b] = FALSE
               /\ \A i \in b..Len(p.script) : c[i] \in BOOLEAN
               /\ p.capture_maxbytes = 0 => \A i \in b..Len(p.script) : c[i] = FALSE
               /\ p.capture_maxbytes # 0 => \A i \in (b + 1)..Len(p.script) :
                    c[i] = CapturesBehind(p, b, i, c[i - 1])
<1>1. PICK n \in Nat : n = Len(p.script) /\ b <= n
  BY Constant
<1>2. PICK c : c = Reference(p, b) /\ IsReference(p, b, n, c)
  BY <1>1, ReferenceExists DEF Reference
<1>3. \A i \in b..n : c[i] = IF p.capture_maxbytes = 0 \/ i = b THEN FALSE ELSE CapturesBehind(p, b, i, c[i - 1])
  BY <1>2 DEF IsReference
<1>4. c[b] = FALSE
  <2>1. b \in b..n
    BY <1>1
  <2> QED BY <1>3, <2>1, Zenon
<1>5. \A i, x : CapturesBehind(p, b, i, x) \in BOOLEAN
  BY Zenon DEF CapturesBehind, EndsAt, SaysIn
<1>6. \A i \in b..n : c[i] \in BOOLEAN
  BY <1>3, <1>5, Zenon
<1>7. ASSUME NEW i \in (b + 1)..n, p.capture_maxbytes # 0 PROVE c[i] = CapturesBehind(p, b, i, c[i - 1])
  <2>1. i \in b..n /\ i # b
    BY <1>1
  <2> QED BY <1>3, <1>7, <2>1, Zenon
<1>8. ASSUME p.capture_maxbytes = 0, NEW i \in b..n PROVE c[i] = FALSE
  BY <1>3, <1>8, Zenon
<1> QED BY <1>1, <1>2, <1>4, <1>6, <1>7, <1>8, Zenon

-----------------------------------------------------------------------------
(* Tokens do not overlap.                                                  *)

Wanted(m) == IF m THEN END_TOKEN ELSE BEGIN_TOKEN
Passed(m) == IF m THEN BEGIN_TOKEN ELSE END_TOKEN

LEMMA TokensAre ==
    ASSUME NEW m \in BOOLEAN
    PROVE  /\ Len(Wanted(m)) \in Nat \ {0} /\ Len(Passed(m)) \in Nat \ {0}
           /\ DOMAIN Wanted(m) = 1..Len(Wanted(m)) /\ DOMAIN Passed(m) = 1..Len(Passed(m))
           /\ \A k \in 2..Len(Wanted(m)) : Wanted(m)[k] # Passed(m)[1]
           /\ \A k \in 2..Len(Passed(m)) : Passed(m)[k] # Wanted(m)[1]
           /\ \E k \in DOMAIN Wanted(m) \cap DOMAIN Passed(m) : Wanted(m)[k] # Passed(m)[k]
<1>1. /\ BEGIN_TOKEN \in Seq(STRING) /\ END_TOKEN \in Seq(STRING) /\ BEGIN_TOKEN # <<>> /\ END_TOKEN # <<>>
  BY StreamsAssumption
<1>2. PICK s \in Seq(STRING), t \in Seq(STRING) : s = BEGIN_TOKEN /\ t = END_TOKEN
  BY <1>1
<1>3. /\ Len(s) \in Nat \ {0} /\ Len(t) \in Nat \ {0} /\ DOMAIN s = 1..Len(s) /\ DOMAIN t = 1..Len(t)
  BY <1>1, <1>2
<1>4. /\ \A k \in 2..Len(s) : s[k] # t[1]
      /\ \A k \in 2..Len(t) : t[k] # s[1]
      /\ \E k \in DOMAIN s \cap DOMAIN t : s[k] # t[k]
  BY <1>2, TokensAssumption
<1>5. m => Wanted(m) = t /\ Passed(m) = s
  BY <1>2 DEF Wanted, Passed
<1>6. ~m => Wanted(m) = s /\ Passed(m) = t
  BY <1>2 DEF Wanted, Passed
<1>7. CASE m
  BY <1>3, <1>4, <1>5, <1>7
<1>8. CASE ~m
  BY <1>3, <1>4, <1>6, <1>8
<1> QED BY <1>7, <1>8

LEMMA NoOverlap ==
    ASSUME NEW p, NEW m \in BOOLEAN, NEW q \in Nat, NEW s \in Nat, Len(Passed(m)) <= q,
           SaysIn(p, q - Len(Passed(m)), Passed(m)), SaysIn(p, s, Wanted(m)), s < q
    PROVE  s + Len(Wanted(m)) <= q
<1>1. PICK x, y, k, l : x = Passed(m) /\ y = Wanted(m) /\ k = Len(x) /\ l = Len(y)
  OBVIOUS
<1>2. /\ k \in Nat \ {0} /\ l \in Nat \ {0} /\ k <= q
      /\ \A j \in 2..l : y[j] # x[1]
      /\ \A j \in 2..k : x[j] # y[1]
      /\ \E j \in (1..l) \cap (1..k) : y[j] # x[j]
  BY <1>1, TokensAre
<1>3. PICK r \in Nat : r = q - k
  BY <1>2
<1>4. (\A j \in 1..k : p.script[r + j] = x[j]) /\ \A j \in 1..l : p.script[s + j] = y[j]
  BY <1>1, <1>3 DEF SaysIn
<1> SUFFICES ASSUME s + l > q PROVE FALSE
  BY <1>1, <1>2
<1>5. CASE s > r
  <2>1. PICK j \in 2..k : j = s + 1 - r
    BY <1>2, <1>3, <1>5
  <2>2. p.script[r + j] = x[j] /\ p.script[s + 1] = y[1] /\ r + j = s + 1
    BY <1>2, <1>3, <1>4, <2>1
  <2> QED BY <1>2, <2>2
<1>6. CASE s < r
  <2>1. PICK j \in 2..l : j = r + 1 - s
    BY <1>2, <1>3, <1>6
  <2>2. p.script[s + j] = y[j] /\ p.script[r + 1] = x[1] /\ s + j = r + 1
    BY <1>2, <1>3, <1>4, <2>1
  <2> QED BY <1>2, <2>2
<1>7. CASE s = r
  BY <1>2, <1>4, <1>7
<1> QED BY <1>3, <1>5, <1>6, <1>7

LEMMA TurnsAt ==
    ASSUME NEW p, NEW b, NEW i, NEW m \in BOOLEAN
    PROVE  /\ EndsAt(p, b, i, Wanted(m)) => CapturesBehind(p, b, i, m) = ~m
           /\ ~EndsAt(p, b, i, Wanted(m)) => CapturesBehind(p, b, i, m) = m
<1>1. EndsAt(p, b, i, Wanted(m)) \in BOOLEAN
  BY Zenon DEF EndsAt, SaysIn
<1>2. CASE m = TRUE
  BY <1>1, <1>2, Zenon DEF CapturesBehind, Wanted
<1>3. CASE m = FALSE
  BY <1>1, <1>3, Zenon DEF CapturesBehind, Wanted
<1> QED BY <1>2, <1>3

\* No token that is wanted is there from q to n.
Quiet(p, q, n, m) ==
    p.capture_maxbytes # 0 =>
        \A i \in Nat : q <= i /\ i + Len(Wanted(m)) <= n => ~SaysIn(p, i, Wanted(m))

\* Behind a token the reference stays as it is while the other token does not come.
LEMMA Steady ==
    ASSUME NEW p \in Programs, NEW b \in Nat, NEW q \in Nat, b <= q, NEW n \in Nat, q <= n,
           n <= Len(p.script), NEW m \in BOOLEAN, Reference(p, b)[q] = m,
           q # b => EndsAt(p, b, q, Passed(m)), Quiet(p, q, n, m)
    PROVE  \A i \in q..n : Reference(p, b)[i] = m
<1> USE DEF Quiet
<1>1. PICK c : c = Reference(p, b)
  OBVIOUS
<1>2. PICK z \in Nat : z = Len(p.script) /\ n <= z /\ b <= z
  BY Constant
<1>3. /\ c[b] = FALSE
      /\ p.capture_maxbytes = 0 => \A i \in b..z : c[i] = FALSE
      /\ p.capture_maxbytes # 0 => \A i \in (b + 1)..z : c[i] = CapturesBehind(p, b, i, c[i - 1])
  <2>1. b <= Len(p.script)
    BY <1>2
  <2> QED BY <1>1, <1>2, <2>1, ReferenceIs, Zenon
<1>4. CASE p.capture_maxbytes = 0
  <2>1. \A i \in b..z : c[i] = FALSE
    BY <1>3, <1>4
  <2>2. \A i \in q..n : i \in b..z
    BY <1>2
  <2>3. q \in q..n
    OBVIOUS
  <2> QED BY <1>1, <2>1, <2>2, <2>3, Zenon
<1>5. CASE p.capture_maxbytes # 0
  <2> DEFINE Bad == {i \in q..n : c[i] # m}
  <2> SUFFICES ASSUME Bad # {} PROVE FALSE
    BY <1>1
  <2>1. PICK i \in Bad : \A k \in Bad : i <= k
    <3>1. Bad \in SUBSET Nat
      OBVIOUS
    <3> QED BY <3>1, LeastNatural
  <2>2. i \in q..n /\ c[i] # m /\ i # q
    BY <1>1, <2>1
  <2>3. i - 1 \in q..n /\ i - 1 \notin Bad
    BY <2>1, <2>2
  <2>4. c[i - 1] = m
    BY <2>3
  <2>5. c[i] = CapturesBehind(p, b, i, m)
    <3>1. i \in (b + 1)..z
      BY <1>2, <2>2
    <3> QED BY <1>3, <1>5, <2>4, <3>1, Zenon
  <2>6. EndsAt(p, b, i, Wanted(m))
    BY <2>2, <2>5, TurnsAt
  <2>7. PICK w \in Nat, v \in Nat : w = Len(Wanted(m)) /\ v = Len(Passed(m))
    BY TokensAre
  <2>8. PICK s \in Nat : s = i - w
    BY <2>2, <2>6, <2>7 DEF EndsAt
  <2>9. SaysIn(p, s, Wanted(m)) /\ b <= s /\ s + w <= n /\ s + w > q
    BY <2>2, <2>6, <2>7, <2>8 DEF EndsAt
  <2>10. s < q
    BY <1>5, <2>7, <2>9
  <2>11. Len(Passed(m)) <= q /\ SaysIn(p, q - Len(Passed(m)), Passed(m))
    BY <2>7, <2>9, <2>10 DEF EndsAt
  <2>12. s + Len(Wanted(m)) <= q
    BY <2>9, <2>10, <2>11, NoOverlap
  <2> QED BY <2>7, <2>9, <2>12
<1> QED BY <1>4, <1>5

\* And then it turns.
LEMMA Turns ==
    ASSUME NEW p \in Programs, NEW b \in Nat, NEW n \in Nat, b < n, n <= Len(p.script), p.capture_maxbytes # 0,
           NEW m \in BOOLEAN, Reference(p, b)[n - 1] = m, EndsAt(p, b, n, Wanted(m))
    PROVE  Reference(p, b)[n] = ~m
<1>1. PICK z \in Nat : z = Len(p.script) /\ n <= z /\ b <= z
  BY Constant
<1>2. n \in (b + 1)..z
  BY <1>1
<1>3. b <= Len(p.script)
  BY <1>1
<1>4. Reference(p, b)[n] = CapturesBehind(p, b, n, Reference(p, b)[n - 1])
  BY <1>1, <1>2, <1>3, ReferenceIs, Zenon
<1> QED BY <1>4, TurnsAt, Zenon

-----------------------------------------------------------------------------
(* Where the reference c says that captures begin and finish, and what is  *)
(* outside of them, among the bytes behind b up to n.                      *)

BeginsIn(c, b, n) == {i \in b + 1..n : c[i] /\ ~c[i - 1]}
FinishesIn(c, b, n) == {i \in b + 1..n : ~c[i] /\ c[i - 1]}
InToken(j) == j - Len(BEGIN_TOKEN) + 1..j
PlainIn(c, b, n) == {i \in b + 1..n : ~c[i - 1] /\ \A j \in BeginsIn(c, b, n) : i \notin InToken(j)}

LEMMA StretchSame ==
    ASSUME NEW c, NEW b \in Nat, NEW q \in Nat, NEW d \in Nat, NEW n \in Nat, b <= q, q <= d, d <= n,
           NEW m \in BOOLEAN, \A i \in q..n : c[i] = m
    PROVE  /\ BeginsIn(c, b, n) = BeginsIn(c, b, d) /\ FinishesIn(c, b, n) = FinishesIn(c, b, d)
           /\ m => PlainIn(c, b, n) = PlainIn(c, b, d)
           /\ ~m => PlainIn(c, b, n) = PlainIn(c, b, d) \cup (d + 1..n)
<1>1. \A i \in b + 1..d : i \in b + 1..n
  OBVIOUS
<1>2. ASSUME NEW i \in b + 1..n, i \notin b + 1..d
      PROVE  i \in d + 1..n /\ c[i] = m /\ c[i - 1] = m
  BY <1>2
<1>3. BeginsIn(c, b, n) = BeginsIn(c, b, d) /\ FinishesIn(c, b, n) = FinishesIn(c, b, d)
  <2>1. ASSUME NEW i PROVE i \in BeginsIn(c, b, n) <=> i \in BeginsIn(c, b, d)
    BY <1>1, <1>2 DEF BeginsIn
  <2>2. ASSUME NEW i PROVE i \in FinishesIn(c, b, n) <=> i \in FinishesIn(c, b, d)
    BY <1>1, <1>2 DEF FinishesIn
  <2> QED BY <2>1, <2>2
<1>4. \A i \in PlainIn(c, b, d) : i \in PlainIn(c, b, n)
  BY <1>1, <1>3 DEF PlainIn
<1>5. \A i \in PlainIn(c, b, n) : i \in PlainIn(c, b, d) \/ (i \in d + 1..n /\ ~m)
  BY <1>2, <1>3 DEF PlainIn
<1>6. ASSUME ~m, NEW i \in d + 1..n PROVE i \in PlainIn(c, b, n)
  <2>1. i \in b + 1..n /\ i - 1 \in q..n
    OBVIOUS
  <2>2. \A j \in BeginsIn(c, b, d) : i \notin InToken(j)
    BY DEF BeginsIn, InToken
  <2> QED BY <1>3, <1>6, <2>1, <2>2 DEF PlainIn
<1>7. CASE m
  <2>1. PlainIn(c, b, n) = PlainIn(c, b, d)
    BY <1>4, <1>5, <1>7
  <2> QED BY <1>3, <1>7, <2>1
<1>8. CASE ~m
  <2>1. PlainIn(c, b, n) = PlainIn(c, b, d) \cup (d + 1..n)
    BY <1>4, <1>5, <1>6, <1>8
  <2> QED BY <1>3, <1>8, <2>1
<1> QED BY <1>7, <1>8

\* From s to n there is the token that ends a capture, if m, or else begins one.
Stretched(c, b, d, s, n, m) ==
    /\ m => /\ BeginsIn(c, b, n) = BeginsIn(c, b, d)
            /\ FinishesIn(c, b, n) = FinishesIn(c, b, d) \cup {n}
            /\ PlainIn(c, b, n) = PlainIn(c, b, d)
    /\ ~m => /\ BeginsIn(c, b, n) = BeginsIn(c, b, d) \cup {n}
             /\ FinishesIn(c, b, n) = FinishesIn(c, b, d)
             /\ PlainIn(c, b, n) = PlainIn(c, b, d) \cup (d + 1..s)

\* Behind q it was m, and turns at n.
TurnsIn(c, b, q, d, s, n, m) ==
    /\ b <= q /\ q <= d /\ d <= s /\ d < n /\ n = s + Len(Wanted(m))
    /\ \A i \in q..(n - 1) : c[i] = m
    /\ c[n] \in BOOLEAN /\ c[n] # m

LEMMA StretchToken ==
    ASSUME NEW c, NEW b \in Nat, NEW q \in Nat, NEW d \in Nat, NEW s \in Nat, NEW n \in Nat, NEW m \in BOOLEAN,
           TurnsIn(c, b, q, d, s, n, m)
    PROVE  Stretched(c, b, d, s, n, m)
<1>0. /\ b <= q /\ q <= d /\ d <= s /\ d < n /\ n = s + Len(Wanted(m))
      /\ \A i \in q..(n - 1) : c[i] = m
      /\ c[n] \in BOOLEAN /\ c[n] # m
  BY DEF TurnsIn
<1> USE <1>0
<1>1. \A i \in b + 1..d : i \in b + 1..n
  OBVIOUS
<1>2. ASSUME NEW i \in b + 1..n, i \notin b + 1..d
      PROVE  i \in d + 1..n /\ c[i - 1] = m /\ (i # n => c[i] = m)
  BY <1>2
<1>3. n \in b + 1..n /\ n \notin b + 1..d
  OBVIOUS
<1>4. CASE m
  <2>1. ASSUME NEW i PROVE i \in BeginsIn(c, b, n) <=> i \in BeginsIn(c, b, d)
    BY <1>1, <1>2, <1>4 DEF BeginsIn
  <2>2. ASSUME NEW i PROVE i \in FinishesIn(c, b, n) <=> i \in FinishesIn(c, b, d) \cup {n}
    BY <1>1, <1>2, <1>3, <1>4 DEF FinishesIn
  <2>3. BeginsIn(c, b, n) = BeginsIn(c, b, d)
    BY <2>1
  <2>4. ASSUME NEW i PROVE i \in PlainIn(c, b, n) <=> i \in PlainIn(c, b, d)
    BY <1>1, <1>2, <1>4, <2>3 DEF PlainIn
  <2>5. FinishesIn(c, b, n) = FinishesIn(c, b, d) \cup {n}
    BY <2>2
  <2>6. PlainIn(c, b, n) = PlainIn(c, b, d)
    BY <2>4
  <2> QED BY <1>4, <2>3, <2>5, <2>6 DEF Stretched
<1>5. CASE ~m
  <2>1. ASSUME NEW i PROVE i \in BeginsIn(c, b, n) <=> i \in BeginsIn(c, b, d) \cup {n}
    BY <1>1, <1>2, <1>3, <1>5 DEF BeginsIn
  <2>2. ASSUME NEW i PROVE i \in FinishesIn(c, b, n) <=> i \in FinishesIn(c, b, d)
    BY <1>1, <1>2, <1>5 DEF FinishesIn
  <2>3. BeginsIn(c, b, n) = BeginsIn(c, b, d) \cup {n}
    BY <2>1
  <2>4. PICK w \in Nat \ {0} : w = Len(BEGIN_TOKEN) /\ n = s + w
    BY <1>5, TokensAre DEF Wanted
  <2>5. InToken(n) = s + 1..n
    <3>1. InToken(n) = n - w + 1..n
      BY <2>4 DEF InToken
    <3>2. \A x, y \in Nat : (x + y) - y + 1 = x + 1
      OBVIOUS
    <3>3. n - w + 1 = s + 1
      BY <2>4, <3>2
    <3> QED BY <3>1, <3>3
  <2>6. \A i \in PlainIn(c, b, d) : i \in PlainIn(c, b, n)
    <3>1. \A i \in b + 1..d : i \notin s + 1..n
      OBVIOUS
    <3> QED BY <1>1, <2>3, <2>5, <3>1 DEF PlainIn
  <2>7. \A i \in PlainIn(c, b, n) : i \in PlainIn(c, b, d) \/ i \in d + 1..s
    <3>1. ASSUME NEW i \in PlainIn(c, b, n), i \notin b + 1..d PROVE i \in d + 1..s
      <4>1. i \in b + 1..n /\ i \notin s + 1..n
        BY <2>3, <2>5 DEF PlainIn
      <4> QED BY <3>1, <4>1
    <3> QED BY <2>3, <3>1 DEF PlainIn
  <2>8. ASSUME NEW i \in d + 1..s PROVE i \in PlainIn(c, b, n)
    <3>1. i \in b + 1..n /\ c[i - 1] = m /\ i \notin s + 1..n
      BY <2>4
    <3>2. \A j \in BeginsIn(c, b, d) : i \notin InToken(j)
      BY DEF BeginsIn, InToken
    <3> QED BY <1>5, <2>3, <2>5, <3>1, <3>2 DEF PlainIn
  <2>9. FinishesIn(c, b, n) = FinishesIn(c, b, d)
    BY <2>2
  <2>10. PlainIn(c, b, n) = PlainIn(c, b, d) \cup (d + 1..s)
    BY <2>6, <2>7, <2>8
  <2> QED BY <1>5, <2>3, <2>9, <2>10 DEF Stretched
<1> QED BY <1>4, <1>5

-----------------------------------------------------------------------------
(* Stretches of the output.                                                *)

LEMMA PositionsFun ==
    ASSUME NEW a \in Nat, NEW d \in Nat, a <= d
    PROVE  /\ Positions(a, d) = [i \in 1..(d - a) |-> a + i] /\ Positions(a, d) \in Seq(Nat)
           /\ Len(Positions(a, d)) = d - a /\ \A i \in 1..(d - a) : Positions(a, d)[i] = a + i
<1>1. PICK n \in Nat : n = d - a
  OBVIOUS
<1>2. PICK s : s = [i \in 1..n |-> a + i]
  OBVIOUS
<1>3. s \in [1..n -> Nat]
  BY <1>2
<1>4. s \in Seq(Nat) /\ Len(s) = n /\ \A i \in 1..n : s[i] = a + i
  <2>1. DOMAIN s = 1..n /\ \A i \in 1..n : s[i] = a + i
    BY <1>2
  <2>2. s \in Seq(Nat)
    BY <1>1, <1>3
  <2> QED BY <1>1, <2>1, <2>2
<1> QED BY <1>1, <1>2, <1>4 DEF Positions

LEMMA PositionsSame ==
    ASSUME NEW a \in Nat, NEW d \in Nat, a <= d, NEW s \in Seq(Nat), Len(s) = d - a,
           \A i \in 1..(d - a) : s[i] = a + i
    PROVE  s = Positions(a, d)
<1>1. PICK n \in Nat : n = d - a
  OBVIOUS
<1>2. PICK t \in Seq(Nat) : t = Positions(a, d) /\ Len(t) = n /\ \A i \in 1..n : t[i] = a + i
  BY <1>1, PositionsFun
<1>3. DOMAIN s = 1..n /\ DOMAIN t = 1..n /\ \A i \in 1..n : s[i] = t[i]
  BY <1>1, <1>2
<1>4. s = [i \in DOMAIN s |-> s[i]] /\ t = [i \in DOMAIN t |-> t[i]]
  OBVIOUS
<1>5. s = t
  BY <1>3, <1>4
<1> QED BY <1>2, <1>5

LEMMA PositionsJoin ==
    ASSUME NEW a \in Nat, NEW d \in Nat, NEW n \in Nat, a <= d, d <= n
    PROVE  Positions(a, d) \o Positions(d, n) = Positions(a, n)
<1>1. PICK s \in Seq(Nat) : s = Positions(a, d) /\ Len(s) = d - a /\ \A i \in 1..(d - a) : s[i] = a + i
  BY PositionsFun
<1>2. PICK t \in Seq(Nat) : t = Positions(d, n) /\ Len(t) = n - d /\ \A i \in 1..(n - d) : t[i] = d + i
  BY PositionsFun
<1>3. PICK h : h = s \o t
  OBVIOUS
<1>4. Extends(h, s, t)
  BY <1>3, ConcatExtends
<1>5. PICK k \in Nat, l \in Nat : k = d - a /\ l = n - d
  OBVIOUS
<1>6. /\ h \in Seq(Nat) /\ Len(h) = k + l /\ (\A i \in 1..k : h[i] = s[i])
      /\ \A i \in 1..l : h[k + i] = t[i]
  BY <1>1, <1>2, <1>4, <1>5 DEF Extends
<1>7. ASSUME NEW i \in 1..(n - a) PROVE h[i] = a + i
  <2>1. CASE i \in 1..k
    BY <1>1, <1>5, <1>6, <2>1
  <2>2. CASE i \notin 1..k
    <3>1. PICK j \in 1..l : i = k + j
      <4>1. i - k \in 1..l /\ i = k + (i - k)
        BY <1>5, <2>2
      <4> QED BY <4>1
    <3>2. h[k + j] = t[j] /\ t[j] = d + j
      BY <1>2, <1>5, <1>6
    <3> QED BY <1>5, <3>1, <3>2
  <2> QED BY <2>1, <2>2
<1>8. Len(h) = n - a
  BY <1>5, <1>6
<1>9. a <= n /\ h \in Seq(Nat)
  BY <1>6
<1>10. h = Positions(a, n)
  BY <1>7, <1>8, <1>9, PositionsSame
<1> QED BY <1>1, <1>2, <1>3, <1>10

LEMMA PositionsTail ==
    ASSUME NEW a \in Nat, NEW d \in Nat, NEW k \in Nat, a <= d
    PROVE  \E e \in a..d : SubSeq(Positions(a, d), k + 1, Len(Positions(a, d))) = Positions(e, d)
<1>1. PICK s \in Seq(Nat) : s = Positions(a, d) /\ Len(s) = d - a /\ \A i \in 1..(d - a) : s[i] = a + i
  BY PositionsFun
<1>2. PICK m \in Nat : m = d - a /\ m = Len(s)
  BY <1>1
<1>3. PICK x : x = SubSeq(s, k + 1, m)
  OBVIOUS
<1>4. CASE k <= m
  <2>1. Rest(x, s, k)
    BY <1>2, <1>3, <1>4, RestIs
  <2>2. x \in Seq(Nat) /\ Len(x) = m - k /\ \A i \in 1..(m - k) : x[i] = s[k + i]
    BY <1>2, <2>1 DEF Rest
  <2>3. PICK e \in Nat : e = a + k /\ e <= d /\ a <= e
    BY <1>2, <1>4
  <2>4. m - k = d - e /\ Len(x) = d - e
    <3>1. m - k = d - e
      BY <1>2, <2>3
    <3> QED BY <2>2, <3>1
  <2>5. ASSUME NEW i \in 1..(d - e) PROVE x[i] = e + i
    <3>1. k + i \in 1..m
      BY <1>2, <1>4, <2>4
    <3> QED BY <1>1, <1>2, <2>2, <2>3, <2>4, <3>1
  <2>6. x = Positions(e, d)
    BY <2>2, <2>3, <2>4, <2>5, PositionsSame
  <2> QED BY <1>1, <1>2, <1>3, <2>3, <2>6
<1>5. CASE k > m
  <2>1. x \in Seq(Nat) /\ Len(x) = 0
    <3>1. k + 1 \in Int /\ m \in Int /\ \A i \in (k + 1)..m : s[i] \in Nat
      BY <1>5
    <3>2. /\ SubSeq(s, k + 1, m) \in Seq(Nat)
          /\ Len(SubSeq(s, k + 1, m)) = IF k + 1 <= m THEN m - (k + 1) + 1 ELSE 0
      BY <3>1, SubSeqProperties
    <3> QED BY <1>3, <1>5, <3>2
  <2>2. d <= d /\ d - d = 0 /\ \A i \in 1..(d - d) : x[i] = d + i
    OBVIOUS
  <2>3. x = Positions(d, d)
    BY <2>1, <2>2, PositionsSame
  <2>4. d \in a..d
    OBVIOUS
  <2> QED BY <1>1, <1>2, <1>3, <2>3, <2>4
<1> QED BY <1>4, <1>5

\* What the buffer of a capture is with the next stretch: all of both if that is not too much.
LEMMA BoundedGathers ==
    ASSUME NEW a \in Nat, NEW d \in Nat, NEW n \in Nat, a <= d, d <= n, capture_maxbytes \in Nat
    PROVE  \E e \in a..n : /\ Bounded(Positions(a, d), Positions(d, n)) = Positions(e, n)
                           /\ n - a <= capture_maxbytes => e = a
<1>1. PICK s, t : s = Positions(a, d) /\ t = Positions(d, n)
  OBVIOUS
<1>2. Len(s) = d - a /\ Len(t) = n - d /\ Len(t) \in Nat
  <2>1. Len(Positions(a, d)) = d - a
    BY PositionsFun
  <2>2. Len(Positions(d, n)) = n - d
    BY PositionsFun
  <2>3. n - d \in Nat
    OBVIOUS
  <2> QED BY <1>1, <2>1, <2>2, <2>3
<1>3. CASE Len(s) + Len(t) > capture_maxbytes
  <2>1. PICK e \in a..d : SubSeq(s, Len(t) + 1, Len(s)) = Positions(e, d)
    <3>1. \A k \in Nat : \E e \in a..d :
             SubSeq(Positions(a, d), k + 1, Len(Positions(a, d))) = Positions(e, d)
      BY PositionsTail
    <3> QED BY <1>1, <1>2, <3>1, Zenon
  <2>2. e \in Nat /\ e <= d /\ e \in a..n
    OBVIOUS
  <2>3. Bounded(s, t) = Positions(e, d) \o t
    BY <1>3, <2>1 DEF Bounded
  <2>4. Positions(e, d) \o t = Positions(e, n)
    BY <1>1, <2>2, PositionsJoin
  <2>5. ~(n - a <= capture_maxbytes)
    BY <1>2, <1>3
  <2> QED BY <1>1, <2>2, <2>3, <2>4, <2>5
<1>4. CASE ~(Len(s) + Len(t) > capture_maxbytes)
  <2>1. Bounded(s, t) = Positions(a, n)
    BY <1>1, <1>4, PositionsJoin DEF Bounded
  <2>2. a \in a..n
    OBVIOUS
  <2> QED BY <1>1, <2>1, <2>2
<1> QED BY <1>3, <1>4

LEMMA PositionsSuffix ==
    ASSUME NEW j \in Nat, NEW a \in Nat, NEW u \in Nat, j <= a, a <= u
    PROVE  IsSuffix(Positions(a, u), Positions(j, u))
<1>1. PICK s \in Seq(Nat) : s = Positions(a, u) /\ Len(s) = u - a /\ \A i \in 1..(u - a) : s[i] = a + i
  BY PositionsFun
<1>2. PICK t \in Seq(Nat) : t = Positions(j, u) /\ Len(t) = u - j /\ \A i \in 1..(u - j) : t[i] = j + i
  <2>1. j <= u
    OBVIOUS
  <2> QED BY <2>1, PositionsFun
<1>3. PICK m \in Nat, n \in Nat : m = Len(s) /\ n = Len(t) /\ m <= n /\ m = u - a /\ n = u - j
  BY <1>1, <1>2
<1>4. PICK x : x = Reverse(s)
  OBVIOUS
<1>5. PICK y : y = Reverse(t)
  OBVIOUS
<1>6. x = [i \in 1..m |-> s[(m - i) + 1]] /\ y = [i \in 1..n |-> t[(n - i) + 1]]
  BY <1>3, <1>4, <1>5 DEF Reverse
<1>7. x \in Seq(Nat) /\ Len(x) = m /\ \A i \in 1..m : x[i] = u - i + 1
  <2>1. \A i \in 1..m : (m - i) + 1 \in 1..m /\ s[(m - i) + 1] = u - i + 1 /\ u - i + 1 \in Nat
    BY <1>1, <1>3
  <2>2. x \in [1..m -> Nat]
    BY <1>6, <2>1
  <2>3. DOMAIN x = 1..m /\ \A i \in 1..m : x[i] = u - i + 1
    BY <1>6, <2>1
  <2> QED BY <2>2, <2>3
<1>8. y \in Seq(Nat) /\ Len(y) = n /\ \A i \in 1..n : y[i] = u - i + 1
  <2>1. \A i \in 1..n : (n - i) + 1 \in 1..n /\ t[(n - i) + 1] = u - i + 1 /\ u - i + 1 \in Nat
    BY <1>2, <1>3
  <2>2. y \in [1..n -> Nat]
    BY <1>6, <2>1
  <2>3. DOMAIN y = 1..n /\ \A i \in 1..n : y[i] = u - i + 1
    BY <1>6, <2>1
  <2> QED BY <2>2, <2>3
<1>9. SubSeq(x, 1, m) = SubSeq(y, 1, m)
  <2>1. SubSeq(x, 1, m) = [i \in 1..m |-> x[i]]
    BY <1>7
  <2>2. SubSeq(y, 1, m) = [i \in 1..m |-> y[i]]
    BY <1>3, <1>8
  <2>3. \A i \in 1..m : x[i] = y[i]
    BY <1>3, <1>7, <1>8
  <2> QED BY <2>1, <2>2, <2>3
<1>10. IsPrefix(x, y)
  BY <1>3, <1>7, <1>8, <1>9 DEF IsPrefix
<1> QED BY <1>1, <1>2, <1>4, <1>5, <1>10 DEF IsSuffix

-----------------------------------------------------------------------------
(* What the dispatcher and the events have of the first d bytes, of which  *)
(* b came before this dispatcher: m says that it captures, buf what it has *)
(* of the capture, ev which events there were, R what was logged; mis is   *)
(* the number of mishaps.                                                  *)

\* The capture from q to u, or its end, but all of it if it is not too long.
Buffered(p, q, u, buf, mis) ==
    \E a \in q..u : buf = Positions(a, u) /\ (mis = 0 /\ u - q <= p.capture_maxbytes => a = q)

\* The last token ended at q.
Since(p, b, d, m, q) ==
    /\ q \in b..d /\ Reference(p, b)[q] = m
    /\ m => q \in BeginsIn(Reference(p, b), b, d)
    /\ q # b => EndsAt(p, b, q, Passed(m))
    /\ p.capture_maxbytes # 0 => \A i \in q..(d - 1) : ~SaysIn(p, i, Wanted(m))
Dispatched(p, b, d, m, buf, mis) ==
    \E q \in Nat : Since(p, b, d, m, q) /\ (m => Buffered(p, q, d, buf, mis))

EventType == [data: Seq(Nat), upto: Nat]
LastBegin(begins, j, u) == j \in begins /\ j <= u /\ \A i \in begins : i <= u => i <= j
Carries(p, begins, e, mis) == \E j \in begins : LastBegin(begins, j, e.upto) /\ Buffered(p, j, e.upto, e.data, mis)
Reported(p, b, d, ev, mis) ==
    /\ ev \in Seq(EventType)
    /\ \A i, j \in DOMAIN ev : i < j => ev[i].upto < ev[j].upto
    /\ \A e \in ToSet(ev) : e.upto + Len(END_TOKEN) <= d
    /\ {e.upto : e \in {e \in ToSet(ev) : e.upto > b}}
         = {i - Len(END_TOKEN) : i \in FinishesIn(Reference(p, b), b, d)}
    /\ \A e \in ToSet(ev) : e.upto > b => Carries(p, BeginsIn(Reference(p, b), b, d), e, mis)

Faithful(p, b, d, m, buf, ev, R, mis) ==
    /\ Dispatched(p, b, d, m, buf, mis)
    /\ Reported(p, b, d, ev, mis)
    /\ {i \in R : i > b} = PlainIn(Reference(p, b), b, d)

\* The next token the dispatcher waits for is behind s, and ends at n.
NextToken(p, d, s, n, m) ==
    /\ d <= s /\ n = s + Len(Wanted(m)) /\ n <= Len(p.script)
    /\ SaysIn(p, s, Wanted(m)) /\ \A i \in d..(s - 1) : ~SaysIn(p, i, Wanted(m))
\* What was of the capture in buf is with the bytes up to n in buf2.
Gathers(p, d, buf, n, buf2, mis) ==
    \A q \in Nat : q <= d /\ Buffered(p, q, d, buf, mis) => Buffered(p, q, n, buf2, mis)

LEMMA EventsAre ==
    ASSUME NEW ev \in Seq(EventType), NEW e \in ToSet(ev)
    PROVE  e \in EventType /\ e.upto \in Nat
<1>1. PICK i \in DOMAIN ev : e = ev[i]
  BY DEF ToSet
<1>2. ev[i] \in EventType
  OBVIOUS
<1> QED BY <1>1, <1>2 DEF EventType

LEMMA ReportedStays ==
    ASSUME NEW p, NEW b \in Nat, NEW d \in Nat, NEW n \in Nat, d <= n, NEW ev, NEW mis, Reported(p, b, d, ev, mis),
           FinishesIn(Reference(p, b), b, n) = FinishesIn(Reference(p, b), b, d),
           \/ BeginsIn(Reference(p, b), b, n) = BeginsIn(Reference(p, b), b, d)
           \/ BeginsIn(Reference(p, b), b, n) = BeginsIn(Reference(p, b), b, d) \cup {n} /\ d < n
    PROVE  Reported(p, b, n, ev, mis)
<1>1. PICK c : c = Reference(p, b)
  OBVIOUS
<1>2. PICK l \in Nat : l = Len(END_TOKEN)
  BY TokensAre DEF Wanted
<1>3. ASSUME NEW e \in ToSet(ev) PROVE e.upto \in Nat /\ e.upto + l <= d
  BY <1>2, EventsAre DEF Reported
<1>4. ASSUME NEW e \in ToSet(ev) PROVE e.upto + l <= n
  BY <1>3
<1>5. ASSUME NEW e \in ToSet(ev), e.upto > b PROVE Carries(p, BeginsIn(c, b, n), e, mis)
  <2>1. PICK j \in BeginsIn(c, b, d) : LastBegin(BeginsIn(c, b, d), j, e.upto) /\ Buffered(p, j, e.upto, e.data, mis)
    BY <1>1, <1>5 DEF Reported, Carries
  <2>2. ASSUME NEW i \in BeginsIn(c, b, n), i <= e.upto PROVE i <= j
    <3>1. i \in BeginsIn(c, b, d) \/ (i = n /\ d < n)
      BY <1>1
    <3>2. i # n \/ ~(d < n)
      BY <1>2, <1>3, <2>2
    <3> QED BY <2>1, <2>2, <3>1, <3>2 DEF LastBegin
  <2>3. j \in BeginsIn(c, b, n)
    BY <1>1
  <2> QED BY <2>1, <2>2, <2>3 DEF Carries, LastBegin
<1> QED BY <1>1, <1>2, <1>4, <1>5 DEF Reported

\* Up to n there is no token.
LEMMA StillSince ==
    ASSUME NEW p \in Programs, NEW b \in Nat, NEW d \in Nat, NEW n \in Nat, d <= n, n <= Len(p.script),
           NEW m \in BOOLEAN, NEW q \in Nat, Since(p, b, d, m, q),
           p.capture_maxbytes # 0 => \A i \in d..(n - 1) : ~SaysIn(p, i, Wanted(m))
    PROVE  Since(p, b, n, m, q) /\ \A i \in q..n : Reference(p, b)[i] = m
<1>1. b <= q /\ q <= d /\ q <= n
  BY DEF Since
<1>2. p.capture_maxbytes # 0 => \A i \in q..(n - 1) : ~SaysIn(p, i, Wanted(m))
  <2>1. ASSUME p.capture_maxbytes # 0, NEW i \in q..(n - 1) PROVE ~SaysIn(p, i, Wanted(m))
    <3>1. i \in q..(d - 1) \/ i \in d..(n - 1)
      BY <1>1
    <3> QED BY <2>1, <3>1 DEF Since
  <2> QED BY <2>1
<1>3. \A i \in q..n : Reference(p, b)[i] = m
  <2>1. ASSUME p.capture_maxbytes # 0, NEW i \in Nat, q <= i, i + Len(Wanted(m)) <= n PROVE ~SaysIn(p, i, Wanted(m))
    <3>1. PICK w \in Nat \ {0} : w = Len(Wanted(m))
      BY TokensAre
    <3>2. i \in q..(n - 1)
      BY <2>1, <3>1
    <3> QED BY <1>2, <2>1, <3>2
  <2>2. Quiet(p, q, n, m)
    BY <2>1 DEF Quiet
  <2>3. Reference(p, b)[q] = m /\ (q # b => EndsAt(p, b, q, Passed(m)))
    BY DEF Since
  <2> QED BY <1>1, <2>2, <2>3, Steady
<1>4. BeginsIn(Reference(p, b), b, n) = BeginsIn(Reference(p, b), b, d)
  BY <1>1, <1>3, StretchSame
<1>5. q \in b..n
  BY <1>1
<1> QED BY <1>2, <1>3, <1>4, <1>5 DEF Since

LEMMA Flushed ==
    ASSUME NEW p \in Programs, NEW b \in Nat, NEW d \in Nat, NEW n \in Nat, b <= d, d <= n, n <= Len(p.script),
           NEW m \in BOOLEAN, NEW buf, NEW ev, NEW R, NEW mis, Faithful(p, b, d, m, buf, ev, R, mis),
           p.capture_maxbytes # 0 => \A i \in d..(n - 1) : ~SaysIn(p, i, Wanted(m)),
           NEW buf2, NEW R2,
           m => R2 = R /\ Gathers(p, d, buf, n, buf2, mis),
           ~m => R2 = R \cup (d + 1..n)
    PROVE  Faithful(p, b, n, m, buf2, ev, R2, mis)
<1>1. PICK q \in Nat : Since(p, b, d, m, q) /\ (m => Buffered(p, q, d, buf, mis))
  BY DEF Faithful, Dispatched
<1>2. Since(p, b, n, m, q) /\ \A i \in q..n : Reference(p, b)[i] = m
  BY <1>1, StillSince
<1>3. b <= q /\ q <= d
  BY <1>1 DEF Since
<1>4. PICK c : c = Reference(p, b)
  OBVIOUS
<1>5. /\ BeginsIn(c, b, n) = BeginsIn(c, b, d) /\ FinishesIn(c, b, n) = FinishesIn(c, b, d)
      /\ m => PlainIn(c, b, n) = PlainIn(c, b, d)
      /\ ~m => PlainIn(c, b, n) = PlainIn(c, b, d) \cup (d + 1..n)
  <2>1. \A i \in q..n : c[i] = m
    BY <1>2, <1>4
  <2> QED BY <1>3, <2>1, StretchSame
<1>6. Reported(p, b, n, ev, mis)
  BY <1>4, <1>5, ReportedStays DEF Faithful
<1>7. Dispatched(p, b, n, m, buf2, mis)
  BY <1>1, <1>2, <1>3 DEF Dispatched, Gathers
<1>8. {i \in R2 : i > b} = PlainIn(c, b, n)
  <2>1. {i \in R : i > b} = PlainIn(c, b, d)
    BY <1>4 DEF Faithful
  <2>2. \A i \in d + 1..n : i > b
    OBVIOUS
  <2>3. CASE m
    BY <1>5, <2>1, <2>3
  <2>4. CASE ~m
    BY <1>5, <2>1, <2>2, <2>4
  <2> QED BY <2>3, <2>4
<1> QED BY <1>4, <1>6, <1>7, <1>8 DEF Faithful

LEMMA TokenTurns ==
    ASSUME NEW p \in Programs, NEW b \in Nat, NEW d \in Nat, NEW s \in Nat, NEW n \in Nat, NEW m \in BOOLEAN,
           NextToken(p, d, s, n, m), NEW q \in Nat, Since(p, b, d, m, q), p.capture_maxbytes # 0
    PROVE  /\ d <= s /\ s < n /\ b <= q /\ q <= d
           /\ \A i \in q..(n - 1) : Reference(p, b)[i] = m
           /\ Reference(p, b)[n] \in BOOLEAN /\ Reference(p, b)[n] # m /\ EndsAt(p, b, n, Wanted(m))
<1>1. PICK w \in Nat \ {0} : w = Len(Wanted(m)) /\ n = s + w
  BY TokensAre DEF NextToken
<1>2. b <= q /\ q <= d /\ d <= s /\ s < n /\ b < n /\ n <= Len(p.script)
  <2>1. b <= q /\ q <= d /\ d <= s /\ n <= Len(p.script)
    BY DEF Since, NextToken
  <2> QED BY <1>1, <2>1
<1>3. PICK k \in Nat : k = n - 1
  BY <1>2
<1>4. q <= k /\ k <= Len(p.script)
  BY <1>2, <1>3, Constant
<1>5. \A i \in q..k : Reference(p, b)[i] = m
  <2>1. \A i \in Nat : q <= i /\ i + Len(Wanted(m)) <= k => ~SaysIn(p, i, Wanted(m))
    <3>1. SUFFICES ASSUME NEW i \in Nat, q <= i, i + Len(Wanted(m)) <= k PROVE ~SaysIn(p, i, Wanted(m))
      OBVIOUS
    <3>2. i + w <= n - 1 /\ n = s + w /\ q <= i /\ d <= s
      BY <1>1, <1>2, <1>3, <3>1
    <3>3. i <= s - 1
      BY <3>2
    <3>4. i \in q..(d - 1) \/ i \in d..(s - 1)
      BY <3>2, <3>3
    <3> QED BY <3>4 DEF Since, NextToken
  <2>2. Reference(p, b)[q] = m /\ (q # b => EndsAt(p, b, q, Passed(m)))
    BY DEF Since
  <2>3. b <= q /\ q <= k /\ k <= Len(p.script)
    BY <1>2, <1>4
  <2>4. Quiet(p, q, k, m)
    BY <2>1 DEF Quiet
  <2> QED BY <2>2, <2>3, <2>4, Steady
<1>6. EndsAt(p, b, n, Wanted(m))
  <2>1. n - Len(Wanted(m)) = s /\ s >= b
    BY <1>1, <1>2
  <2> QED BY <2>1 DEF EndsAt, NextToken
<1>7. Reference(p, b)[n - 1] = m
  BY <1>3, <1>4, <1>5
<1>8. Reference(p, b)[n] = ~m
  BY <1>2, <1>6, <1>7, Turns
<1> QED BY <1>2, <1>3, <1>5, <1>6, <1>8

\* What it makes of the stretch.
LEMMA TokenStretch ==
    ASSUME NEW p \in Programs, NEW b \in Nat, NEW d \in Nat, NEW s \in Nat, NEW n \in Nat, NEW m \in BOOLEAN,
           NextToken(p, d, s, n, m), NEW q \in Nat, Since(p, b, d, m, q), p.capture_maxbytes # 0
    PROVE  Stretched(Reference(p, b), b, d, s, n, m)
<1>1. PICK c : c = Reference(p, b)
  OBVIOUS
<1>2. TurnsIn(c, b, q, d, s, n, m)
  <2>1. /\ d <= s /\ s < n /\ b <= q /\ q <= d
        /\ \A i \in q..(n - 1) : c[i] = m
        /\ c[n] \in BOOLEAN /\ c[n] # m
    BY <1>1, TokenTurns
  <2>2. n = s + Len(Wanted(m))
    BY DEF NextToken
  <2>3. d < n
    BY <2>1
  <2> QED BY <2>1, <2>2, <2>3 DEF TurnsIn
<1> QED BY <1>1, <1>2, StretchToken

LEMMA PositionsNone == ASSUME NEW n \in Nat PROVE Positions(n, n) = <<>>
<1>1. PICK s \in Seq(Nat) : s = Positions(n, n) /\ Len(s) = n - n
  BY PositionsFun
<1>2. Len(s) = 0
  BY <1>1
<1> QED BY <1>1, <1>2

LEMMA BufferedNone ==
    ASSUME NEW p, NEW n \in Nat, NEW mis PROVE Buffered(p, n, n, <<>>, mis)
BY PositionsNone DEF Buffered

\* A token that begins a capture.
LEMMA Begun ==
    ASSUME NEW p \in Programs, NEW b \in Nat, NEW d \in Nat, NEW s \in Nat, NEW n \in Nat,
           NEW m \in BOOLEAN, NEW o \in BOOLEAN, ~m, o,
           NextToken(p, d, s, n, m), p.capture_maxbytes # 0,
           NEW buf, NEW ev, NEW R, NEW mis, Faithful(p, b, d, m, buf, ev, R, mis)
    PROVE  Faithful(p, b, n, o, <<>>, ev, R \cup (d + 1..s), mis)
<1>1. PICK q \in Nat : Since(p, b, d, m, q)
  BY DEF Faithful, Dispatched
<1>2. Passed(o) = Wanted(m)
  BY DEF Passed, Wanted
<1>3. PICK c : c = Reference(p, b)
  OBVIOUS
<1>4. /\ d <= s /\ s < n /\ b <= q /\ q <= d
      /\ \A i \in q..(n - 1) : c[i] = m
      /\ c[n] = o /\ EndsAt(p, b, n, Passed(o))
  <2>1. /\ d <= s /\ s < n /\ b <= q /\ q <= d
        /\ \A i \in q..(n - 1) : Reference(p, b)[i] = m
        /\ Reference(p, b)[n] \in BOOLEAN /\ Reference(p, b)[n] # m /\ EndsAt(p, b, n, Wanted(m))
    BY <1>1, TokenTurns
  <2> QED BY <1>2, <1>3, <2>1
<1>5. /\ BeginsIn(c, b, n) = BeginsIn(c, b, d) \cup {n}
      /\ FinishesIn(c, b, n) = FinishesIn(c, b, d)
      /\ PlainIn(c, b, n) = PlainIn(c, b, d) \cup (d + 1..s)
  BY <1>1, <1>3, TokenStretch DEF Stretched
<1>6. Reported(p, b, n, ev, mis)
  BY <1>3, <1>4, <1>5, ReportedStays DEF Faithful
<1>7. Since(p, b, n, o, n)
  <2>1. n \in b..n /\ n..(n - 1) = {} /\ n \in BeginsIn(c, b, n)
    BY <1>4, <1>5
  <2> QED BY <1>3, <1>4, <2>1 DEF Since
<1>8. Dispatched(p, b, n, o, <<>>, mis)
  BY <1>7, BufferedNone DEF Dispatched
<1>9. {i \in R \cup (d + 1..s) : i > b} = PlainIn(c, b, n)
  <2>1. {i \in R : i > b} = PlainIn(c, b, d)
    BY <1>3 DEF Faithful
  <2>2. \A i \in d + 1..s : i > b
    BY <1>4
  <2> QED BY <1>5, <2>1, <2>2
<1> QED BY <1>3, <1>6, <1>8, <1>9 DEF Faithful

\* A token that ends one, and the event e of it.
LEMMA Ended ==
    ASSUME NEW p \in Programs, NEW b \in Nat, NEW d \in Nat, NEW s \in Nat, NEW n \in Nat,
           NEW m \in BOOLEAN, NEW o \in BOOLEAN, m, ~o,
           NextToken(p, d, s, n, m), p.capture_maxbytes # 0,
           NEW buf, NEW ev, NEW R, NEW mis, Faithful(p, b, d, m, buf, ev, R, mis),
           NEW e \in EventType, e.upto = s,
           Gathers(p, d, buf, s, e.data, mis)
    PROVE  Faithful(p, b, n, o, <<>>, Append(ev, e), R, mis)
<1>1. PICK q \in Nat : Since(p, b, d, m, q) /\ Buffered(p, q, d, buf, mis)
  BY DEF Faithful, Dispatched
<1>2. Wanted(m) = END_TOKEN /\ Passed(o) = Wanted(m)
  BY DEF Passed, Wanted
<1>3. PICK c : c = Reference(p, b)
  OBVIOUS
<1>4. /\ d <= s /\ s < n /\ b <= q /\ q <= d
      /\ \A i \in q..(n - 1) : c[i] = m
      /\ c[n] = o /\ EndsAt(p, b, n, Passed(o))
  <2>1. /\ d <= s /\ s < n /\ b <= q /\ q <= d
        /\ \A i \in q..(n - 1) : Reference(p, b)[i] = m
        /\ Reference(p, b)[n] \in BOOLEAN /\ Reference(p, b)[n] # m /\ EndsAt(p, b, n, Wanted(m))
    BY <1>1, TokenTurns, ZenonT(30)
  <2> QED BY <1>2, <1>3, <2>1
<1>5. /\ BeginsIn(c, b, n) = BeginsIn(c, b, d)
      /\ FinishesIn(c, b, n) = FinishesIn(c, b, d) \cup {n}
      /\ PlainIn(c, b, n) = PlainIn(c, b, d)
  <2>1. Stretched(c, b, d, s, n, m)
    BY <1>1, <1>3, TokenStretch
  <2> QED BY <2>1 DEF Stretched
<1>6. q \in BeginsIn(c, b, d) /\ q > b
  BY <1>1, <1>3 DEF Since, BeginsIn
<1>7. Carries(p, BeginsIn(c, b, n), e, mis)
  <2>1. ASSUME NEW i \in BeginsIn(c, b, d) PROVE i <= q
    <3>1. i \in b + 1..d /\ ~c[i - 1]
      BY DEF BeginsIn
    <3>2. i - 1 \notin q..(n - 1)
      BY <1>4, <3>1
    <3> QED BY <1>4, <3>1, <3>2
  <2>2. q <= s /\ Buffered(p, q, s, e.data, mis)
    BY <1>1, <1>4 DEF Gathers
  <2>3. LastBegin(BeginsIn(c, b, d), q, s)
    BY <1>6, <2>1, <2>2 DEF LastBegin
  <2> QED BY <1>5, <1>6, <2>2, <2>3 DEF Carries
<1>8. PICK l \in Nat : l = Len(END_TOKEN) /\ n - l = s /\ s + l = n
  <2>1. PICK w \in Nat : w = Len(Wanted(m)) /\ n = s + w
    BY TokensAre DEF NextToken
  <2> QED BY <1>2, <2>1
<1>9. /\ ev \in Seq(EventType)
      /\ \A f \in ToSet(ev) : f.upto \in Nat /\ f.upto + l <= d
      /\ \A f \in ToSet(ev) : f.upto > b => Carries(p, BeginsIn(c, b, d), f, mis)
      /\ {f.upto : f \in {f \in ToSet(ev) : f.upto > b}} = {i - l : i \in FinishesIn(c, b, d)}
      /\ \A i, j \in DOMAIN ev : i < j => ev[i].upto < ev[j].upto
  <2>1. ev \in Seq(EventType) /\ \A f \in ToSet(ev) : f.upto + l <= d
    BY <1>8 DEF Faithful, Reported
  <2> QED BY <1>3, <1>8, <2>1, EventsAre DEF Faithful, Reported
<1>10. PICK ev2 : ev2 = Append(ev, e)
  OBVIOUS
<1>11. PICK k \in Nat : k = Len(ev)
  BY <1>9
<1>12. /\ ev2 \in Seq(EventType) /\ DOMAIN ev = 1..k /\ DOMAIN ev2 = 1..(k + 1)
       /\ ev2[k + 1] = e /\ \A i \in 1..k : ev2[i] = ev[i]
  BY <1>9, <1>10, <1>11
<1>13. ToSet(ev2) = ToSet(ev) \cup {e}
  <2>1. ASSUME NEW x \in ToSet(ev2) PROVE x \in ToSet(ev) \cup {e}
    <3>1. PICK i \in 1..(k + 1) : x = ev2[i]
      BY <1>12 DEF ToSet
    <3>2. i \in 1..k \/ i = k + 1
      OBVIOUS
    <3> QED BY <1>12, <3>1, <3>2 DEF ToSet
  <2>2. ASSUME NEW x \in ToSet(ev) \cup {e} PROVE x \in ToSet(ev2)
    <3>1. k + 1 \in 1..(k + 1) /\ \A i \in 1..k : i \in 1..(k + 1)
      OBVIOUS
    <3> QED BY <1>12, <3>1 DEF ToSet
  <2> QED BY <2>1, <2>2
<1>14. Reported(p, b, n, ev2, mis)
  <2>1. \A i, j \in DOMAIN ev2 : i < j => ev2[i].upto < ev2[j].upto
    <3>1. SUFFICES ASSUME NEW i \in 1..(k + 1), NEW j \in 1..(k + 1), i < j PROVE ev2[i].upto < ev2[j].upto
      BY <1>12
    <3>2. i \in 1..k /\ (j \in 1..k \/ j = k + 1)
      BY <3>1
    <3>3. CASE j \in 1..k
      BY <1>9, <1>12, <3>1, <3>2, <3>3
    <3>4. CASE j = k + 1
      <4>1. ev[i].upto \in Nat /\ ev[i].upto + l <= d
        BY <1>9, <1>12, <3>2 DEF ToSet
      <4>2. ev[i].upto < s
        <5>1. l > 0
          BY <1>4, <1>8
        <5> QED BY <1>4, <4>1, <5>1
      <4> QED BY <1>12, <3>2, <3>4, <4>2
    <3> QED BY <3>2, <3>3, <3>4
  <2>2. \A f \in ToSet(ev2) : f.upto + l <= n
    <3>1. \A f \in ToSet(ev) : f.upto \in Nat /\ f.upto + l <= d
      BY <1>9
    <3>2. d <= n /\ l \in Nat /\ e.upto + l <= n
      BY <1>4, <1>8
    <3>3. \A f \in ToSet(ev) : f.upto + l <= n
      BY <3>1, <3>2
    <3> QED BY <1>13, <3>2, <3>3
  <2>3. {f.upto : f \in {f \in ToSet(ev2) : f.upto > b}} = {i - l : i \in FinishesIn(c, b, n)}
    <3>1. s > b
      BY <1>4, <1>6
    <3>2. {f \in ToSet(ev2) : f.upto > b} = {f \in ToSet(ev) : f.upto > b} \cup {e}
      BY <1>13, <3>1
    <3>3. {f.upto : f \in {f \in ToSet(ev2) : f.upto > b}} = {f.upto : f \in {f \in ToSet(ev) : f.upto > b}} \cup {s}
      BY <3>2
    <3>4. {i - l : i \in FinishesIn(c, b, n)} = {i - l : i \in FinishesIn(c, b, d)} \cup {s}
      BY <1>5, <1>8
    <3> QED BY <1>9, <3>3, <3>4
  <2>4. \A f \in ToSet(ev2) : f.upto > b => Carries(p, BeginsIn(c, b, n), f, mis)
    BY <1>5, <1>7, <1>9, <1>13
  <2> QED BY <1>3, <1>8, <1>12, <2>1, <2>2, <2>3, <2>4 DEF Reported
<1>15. Since(p, b, n, o, n)
  <2>1. b <= n
    BY <1>4
  <2>2. n \in b..n /\ n..(n - 1) = {}
    BY <2>1
  <2> QED BY <1>3, <1>4, <2>2 DEF Since
<1>16. Dispatched(p, b, n, o, <<>>, mis)
  BY <1>15 DEF Dispatched
<1> QED BY <1>3, <1>5, <1>10, <1>14, <1>16 DEF Faithful

-----------------------------------------------------------------------------
(* A dispatcher that was just made, and mishaps.                           *)

LEMMA Fresh ==
    ASSUME NEW p \in Programs, NEW r \in Nat, r <= Len(p.script), NEW ev \in Seq(EventType),
           \A i, j \in DOMAIN ev : i < j => ev[i].upto < ev[j].upto,
           \A e \in ToSet(ev) : e.upto + Len(END_TOKEN) <= r,
           NEW R, \A x \in R : x \in Nat /\ x <= r, NEW mis
    PROVE  Faithful(p, r, r, FALSE, <<>>, ev, R, mis)
<1>1. PICK c : c = Reference(p, r)
  OBVIOUS
<1>2. r + 1..r = {}
  OBVIOUS
<1>3. BeginsIn(c, r, r) = {} /\ FinishesIn(c, r, r) = {} /\ PlainIn(c, r, r) = {}
  BY <1>2 DEF BeginsIn, FinishesIn, PlainIn
<1>4. Since(p, r, r, FALSE, r)
  <2>1. r \in r..r /\ r..(r - 1) = {}
    OBVIOUS
  <2>2. Reference(p, r)[r] = FALSE
    BY ReferenceIs
  <2> QED BY <2>1, <2>2 DEF Since
<1>5. \A e \in ToSet(ev) : ~(e.upto > r)
  <2>1. PICK l \in Nat : l = Len(END_TOKEN)
    BY Constant
  <2>2. ASSUME NEW e \in ToSet(ev) PROVE ~(e.upto > r)
    <3>1. e.upto \in Nat /\ e.upto + l <= r
      BY <2>1, EventsAre
    <3> QED BY <3>1
  <2> QED BY <2>2
<1>6. Reported(p, r, r, ev, mis)
  <2>1. {e.upto : e \in {e \in ToSet(ev) : e.upto > r}} = {}
    BY <1>5
  <2>2. {i - Len(END_TOKEN) : i \in FinishesIn(c, r, r)} = {}
    BY <1>3
  <2> QED BY <1>1, <1>5, <2>1, <2>2 DEF Reported
<1>7. {i \in R : i > r} = PlainIn(c, r, r)
  BY <1>3
<1> QED BY <1>1, <1>4, <1>6, <1>7 DEF Faithful, Dispatched

LEMMA BufferedLess ==
    ASSUME NEW p, NEW q \in Nat, NEW u \in Nat, NEW buf, NEW buf2, NEW mis, NEW mis2, mis2 # 0,
           Buffered(p, q, u, buf, mis), buf2 \in {buf, <<>>}
    PROVE  Buffered(p, q, u, buf2, mis2)
<1>1. PICK a \in q..u : buf = Positions(a, u)
  BY DEF Buffered
<1>2. CASE buf2 = buf
  BY <1>1, <1>2 DEF Buffered
<1>3. CASE buf2 = <<>>
  <2>1. <<>> = Positions(u, u)
    BY PositionsNone
  <2>2. u \in q..u
    BY <1>1
  <2> QED BY <1>3, <2>1, <2>2 DEF Buffered
<1> QED BY <1>2, <1>3

LEMMA FaithfulLess ==
    ASSUME NEW p, NEW b \in Nat, NEW d \in Nat, NEW m \in BOOLEAN, NEW buf, NEW buf2, NEW ev, NEW R, NEW mis,
           NEW mis2, mis2 # 0, Faithful(p, b, d, m, buf, ev, R, mis), buf2 \in {buf, <<>>}
    PROVE  Faithful(p, b, d, m, buf2, ev, R, mis2)
<1>1. Dispatched(p, b, d, m, buf2, mis2)
  <2>1. PICK q \in Nat : Since(p, b, d, m, q) /\ (m => Buffered(p, q, d, buf, mis))
    BY DEF Faithful, Dispatched
  <2>2. m => Buffered(p, q, d, buf2, mis2)
    BY <2>1, BufferedLess
  <2> QED BY <2>1, <2>2 DEF Dispatched
<1>2. PICK begins : begins = BeginsIn(Reference(p, b), b, d)
  OBVIOUS
<1>3. begins \subseteq Nat
  BY <1>2 DEF BeginsIn
<1>4. Reported(p, b, d, ev, mis)
  BY DEF Faithful
<1>5. ASSUME NEW e \in ToSet(ev), e.upto > b PROVE Carries(p, begins, e, mis2)
  <2>1. PICK j \in begins : LastBegin(begins, j, e.upto) /\ Buffered(p, j, e.upto, e.data, mis)
    BY <1>2, <1>4, <1>5 DEF Reported, Carries
  <2>2. j \in Nat /\ e.upto \in Nat
    BY <1>3, <1>4, EventsAre DEF Reported
  <2>3. Buffered(p, j, e.upto, e.data, mis2)
    BY <2>1, <2>2, BufferedLess
  <2> QED BY <2>1, <2>3 DEF Carries
<1>6. Reported(p, b, d, ev, mis2)
  BY <1>2, <1>4, <1>5 DEF Reported
<1> QED BY <1>1, <1>6 DEF Faithful

-----------------------------------------------------------------------------
(* The steps of the dispatcher.                                            *)

CInv == Faithful(program, born, done, capturemode, capturelog, events, ToSet(recorded), mishaps)

LEMMA CapturingIs == Capturing = Reference(program, born)
BY DEF Capturing, Reference, IsReference, CapturesBehind, EndsAt, SaysIn, Says, Bytes, script, capture_maxbytes

LEMMA TokenIs ==
    /\ token = Wanted(capturemode)
    /\ \A i : Says(i, token, Len(token)) <=> SaysIn(program, i, Wanted(capturemode))
<1>1. token = Wanted(capturemode)
  BY DEF token, Wanted
<1> QED BY <1>1 DEF Says, SaysIn, Bytes, script

LEMMA FirstIsNext ==
    ASSUME TypeOK, Tokens # {}, NEW n, NEW i, i = (CHOOSE k \in Tokens : \A j \in Tokens : k <= j), n = i + Len(token)
    PROVE  NextToken(program, done, i, n, capturemode)
<1>1. /\ done \in Nat /\ read \in Nat /\ Len(token) \in Nat /\ Len(program.script) \in Nat
      /\ done <= read /\ read <= Len(program.script)
  BY Lengths DEF TypeOK, script
<1>2. i \in Nat /\ done <= i /\ i + Len(token) <= read
  BY FirstToken
<1>3. i \in Tokens /\ \A j \in Tokens : i <= j
  <2>1. Tokens \in SUBSET Nat
    BY <1>1 DEF Tokens
  <2> QED BY <2>1, LeastNatural
<1>4. SaysIn(program, i, Wanted(capturemode))
  BY <1>3, TokenIs DEF Tokens
<1>5. ASSUME NEW j \in done..(i - 1) PROVE ~SaysIn(program, j, Wanted(capturemode))
  <2>1. j \in done..(read - Len(token)) /\ ~(i <= j)
    BY <1>1, <1>2
  <2> QED BY <1>3, <2>1, TokenIs DEF Tokens
<1>6. n <= Len(program.script) /\ n = i + Len(Wanted(capturemode))
  BY <1>1, <1>2, TokenIs
<1> QED BY <1>2, <1>4, <1>5, <1>6 DEF NextToken

\* Whatever begins like the token at the end of the buffer is held back.
LEMMA PrefixIsLongest ==
    ASSUME TypeOK, NEW k \in 0..(Len(token) - 1), read - k >= done, Says(read - k, token, k)
    PROVE  k <= find_prefix_at_end
<1> DEFINE n == Len(token)
           ls == {l \in 0..(n - 1) : read - l >= done /\ Says(read - l, token, l)}
           f == CHOOSE l \in ls : \A j \in ls : j <= l
<1>1. done \in Nat /\ read \in Nat /\ n \in Nat /\ n > 0 /\ done <= read
  BY Lengths DEF TypeOK
<1>2. find_prefix_at_end = f
  BY DEF find_prefix_at_end
<1>3. k \in ls
  OBVIOUS
<1> HIDE DEF n
<1>4. n - 1 \in Nat /\ ls \in SUBSET (0..(n - 1))
  BY <1>1
<1> HIDE DEF ls
<1>5. f \in ls /\ \A j \in ls : j <= f
  <2>1. \E l \in ls : \A j \in ls : j <= l
    BY <1>3, <1>4, GreatestNatural
  <2> QED BY <2>1
<1> QED BY <1>2, <1>3, <1>5

LEMMA NoneMissed ==
    ASSUME TypeOK, Tokens = {}, NEW i \in done..(read - find_prefix_at_end - 1)
    PROVE  ~SaysIn(program, i, Wanted(capturemode))
<1>1. /\ done \in Nat /\ read \in Nat /\ Len(token) \in Nat \ {0} /\ find_prefix_at_end \in Nat
  BY Lengths, PrefixIsThere DEF TypeOK
<1>2. PICK f \in Nat, n \in Nat, d \in Nat, r \in Nat :
         f = find_prefix_at_end /\ n = Len(token) /\ d = done /\ r = read
  BY <1>1
<1>3. i \in Nat /\ d <= i /\ i < r - f
  BY <1>2
<1> SUFFICES ASSUME Says(i, token, n) PROVE FALSE
  BY <1>2, TokenIs
<1>4. CASE i + n <= r
  <2>1. i \in done..(read - Len(token))
    BY <1>2, <1>3, <1>4
  <2> QED BY <1>2, <2>1 DEF Tokens
<1>5. CASE i + n > r
  <2>1. PICK k \in Nat : k = r - i /\ k > f /\ k < n
    BY <1>3, <1>5
  <2>2. r - k = i /\ r - k >= d /\ k \in 0..(n - 1)
    BY <1>3, <2>1
  <2>3. Says(i, token, k)
    BY <2>1 DEF Says
  <2>4. k <= f
    BY <1>2, <2>2, <2>3, PrefixIsLongest
  <2> QED BY <2>1, <2>4
<1> QED BY <1>3, <1>4, <1>5

\* What the buffer has of the capture with the bytes up to n.
LEMMA BoundedMore ==
    ASSUME NEW p, p = program, capture_maxbytes \in Nat, NEW d \in Nat, NEW n \in Nat, d <= n, NEW buf, NEW mis
    PROVE  Gathers(p, d, buf, n, Bounded(buf, Positions(d, n)), mis)
<1> SUFFICES ASSUME NEW q \in Nat, q <= d, Buffered(p, q, d, buf, mis)
             PROVE  Buffered(p, q, n, Bounded(buf, Positions(d, n)), mis)
  BY DEF Gathers
<1>1. PICK max \in Nat : max = capture_maxbytes /\ max = p.capture_maxbytes
  BY DEF capture_maxbytes
<1>2. PICK a \in q..d : buf = Positions(a, d) /\ (mis = 0 /\ d - q <= max => a = q)
  BY <1>1 DEF Buffered
<1>3. a \in Nat /\ a <= d
  OBVIOUS
<1>4. PICK e \in a..n : /\ Bounded(Positions(a, d), Positions(d, n)) = Positions(e, n)
                        /\ n - a <= capture_maxbytes => e = a
  BY <1>3, BoundedGathers
<1>5. e \in q..n /\ (mis = 0 /\ n - q <= max => e = q)
  BY <1>1, <1>2, <1>4
<1>6. Bounded(buf, Positions(d, n)) = Positions(e, n)
  BY <1>2, <1>4
<1> QED BY <1>1, <1>5, <1>6 DEF Buffered

LEMMA LogGathers ==
    ASSUME TypeOK, UpTo(recorded, done), NEW upto \in Nat, done <= upto, Log(upto)
    PROVE  /\ capturemode => recorded' = recorded /\ Gathers(program, done, capturelog, upto, capturelog', mishaps)
           /\ ~capturemode => ToSet(recorded') = ToSet(recorded) \cup (done + 1..upto)
<1>1. done \in Nat /\ recorded \in Seq(Nat) /\ capture_maxbytes \in Nat
  BY Constant DEF TypeOK, Bytes, capture_maxbytes
<1>2. PICK d \in Nat : d = done /\ d <= upto
  BY <1>1
<1>3. PICK data \in Seq(Nat) : /\ data = Positions(d, upto) /\ Len(data) = upto - d
                               /\ \A i \in 1..(upto - d) : data[i] = d + i
  BY <1>2, PositionsFun
<1>4. ToSet(data) = d + 1..upto
  <2>1. DOMAIN data = 1..(upto - d)
    BY <1>3
  <2>2. ASSUME NEW x \in ToSet(data) PROVE x \in d + 1..upto
    BY <1>2, <1>3, <2>1 DEF ToSet
  <2>3. ASSUME NEW x \in d + 1..upto PROVE x \in ToSet(data)
    <3>1. x - d \in 1..(upto - d) /\ d + (x - d) = x
      BY <1>2
    <3> QED BY <1>3, <2>1, <3>1 DEF ToSet
  <2> QED BY <2>2, <2>3
<1>5. CASE data = <<>>
  <2>1. UNCHANGED <<capturelog, recorded>>
    BY <1>2, <1>3, <1>5 DEF Log
  <2>2. upto = d /\ d + 1..upto = {}
    <3>1. Len(data) = 0
      BY <1>5
    <3> QED BY <1>2, <1>3, <3>1
  <2>3. Gathers(program, done, capturelog, upto, capturelog', mishaps)
    BY <1>2, <2>1, <2>2 DEF Gathers
  <2> QED BY <1>2, <2>1, <2>2, <2>3
<1>6. CASE data # <<>> /\ capturemode
  <2>1. capturelog' = Bounded(capturelog, Positions(d, upto)) /\ recorded' = recorded
    BY <1>2, <1>3, <1>6 DEF Log
  <2>2. Gathers(program, d, capturelog, upto, capturelog', mishaps)
    BY <1>1, <1>2, <2>1, BoundedMore
  <2> QED BY <1>2, <1>6, <2>1, <2>2
<1>7. CASE data # <<>> /\ ~capturemode
  <2>1. recorded' = recorded \o data
    BY <1>2, <1>3, <1>7 DEF Log
  <2>2. Newer(data, d, upto)
    BY <1>2, <1>3, PositionsAre
  <2>3. ToSet(recorded \o data) = ToSet(recorded) \cup ToSet(data)
    BY <1>1, <1>2, <2>2, RecordedMore
  <2> QED BY <1>2, <1>4, <1>7, <2>1, <2>3
<1> QED BY <1>5, <1>6, <1>7

LEMMA RecordTokenFaithful == IInv /\ CInv /\ RecordToken => CInv'
<1> SUFFICES ASSUME IInv, CInv, RecordToken PROVE CInv'
  OBVIOUS
<1>1. /\ TypeOK /\ UpTo(recorded, done) /\ program \in Programs /\ born \in Nat /\ done \in Nat
      /\ capturemode \in BOOLEAN /\ capture_maxbytes \in Nat
  BY Constant DEF IInv, Sound, TypeOK, capture_maxbytes
<1>2. PICK i : i = CHOOSE k \in Tokens : \A j \in Tokens : k <= j
  OBVIOUS
<1>3. /\ program.capture_maxbytes # 0 /\ Tokens # {} /\ done' = i + Len(token)
      /\ capturemode' = ~capturemode /\ UNCHANGED <<program, born, mishaps>>
  BY <1>1, <1>2 DEF RecordToken, capture_maxbytes
<1>4. /\ capturemode => /\ events' = Append(events, [data |-> Bounded(capturelog, Positions(done, i)), upto |-> i])
                        /\ capturelog' = <<>> /\ recorded' = recorded
      /\ ~capturemode => Log(i) /\ events' = events
  BY <1>2 DEF RecordToken
<1>5. i \in Nat /\ done <= i /\ done' \in Nat
  <2>1. i \in Nat /\ done <= i /\ Len(token) \in Nat
    BY <1>1, <1>2, <1>3, FirstToken, Lengths
  <2> QED BY <1>3, <2>1
<1>6. NextToken(program, done, i, done', capturemode)
  BY <1>1, <1>2, <1>3, FirstIsNext
<1>7. Faithful(program, born, done, capturemode, capturelog, events, ToSet(recorded), mishaps)
  BY DEF CInv
<1>8. Faithful(program, born, done', capturemode', capturelog', events', ToSet(recorded'), mishaps)
  <2>1. CASE capturemode
    <3>1. PICK e : e = [data |-> Bounded(capturelog, Positions(done, i)), upto |-> i]
      OBVIOUS
    <3>2. e \in EventType /\ e.upto = i /\ e.data = Bounded(capturelog, Positions(done, i))
      <4>1. Positions(done, i) \in Seq(Nat) /\ capturelog \in Seq(Nat)
        <5>1. Positions(done, i) \in Seq(Nat)
          BY <1>1, <1>5, PositionsFun
        <5>2. capturelog \in Seq(Nat)
          BY <1>1, Lengths DEF TypeOK
        <5> QED BY <5>1, <5>2
      <4>2. Bounded(capturelog, Positions(done, i)) \in Seq(Nat)
        BY <4>1, BoundedIs
      <4> QED BY <1>5, <3>1, <4>2 DEF EventType
    <3>3. Gathers(program, done, capturelog, i, e.data, mishaps)
      BY <1>1, <1>5, <3>2, BoundedMore
    <3>4. Faithful(program, born, done', capturemode', <<>>, Append(events, e), ToSet(recorded), mishaps)
      BY <1>1, <1>3, <1>5, <1>6, <1>7, <2>1, <3>2, <3>3, Ended
    <3> QED BY <1>4, <2>1, <3>1, <3>4
  <2>2. CASE ~capturemode
    <3>1. ToSet(recorded') = ToSet(recorded) \cup (done + 1..i)
      BY <1>1, <1>4, <1>5, <2>2, LogGathers
    <3>2. capturelog' = <<>>
      BY <1>1, <1>4, <2>2 DEF Log, TypeOK
    <3>3. Faithful(program, born, done', capturemode', <<>>, events, ToSet(recorded) \cup (done + 1..i), mishaps)
      BY <1>1, <1>3, <1>5, <1>6, <1>7, <2>2, Begun
    <3> QED BY <1>4, <2>2, <3>1, <3>2, <3>3
  <2> QED BY <2>1, <2>2
<1> QED BY <1>3, <1>8 DEF CInv

LEMMA RecordRestFaithful == IInv /\ CInv /\ RecordRest => CInv'
<1> SUFFICES ASSUME IInv, CInv, RecordRest PROVE CInv'
  OBVIOUS
<1>1. /\ TypeOK /\ UpTo(recorded, done) /\ program \in Programs /\ born \in Nat /\ done \in Nat /\ born <= done
      /\ capturemode \in BOOLEAN /\ read \in Nat /\ done <= read /\ read <= Len(program.script)
      /\ Len(program.script) \in Nat /\ Len(token) \in Nat
  BY Constant, Lengths DEF IInv, Sound, TypeOK, script
<1>2. /\ done' = IF capture_maxbytes = 0 THEN read
                 ELSE IF read - done <= Len(token) THEN done ELSE read - find_prefix_at_end
      /\ capture_maxbytes > 0 => read - done <= Len(token) \/ Tokens = {}
      /\ Log(done') /\ UNCHANGED <<program, born, capturemode, events, mishaps>>
  BY DEF RecordRest
<1>3. done' \in Nat /\ done <= done' /\ done' <= read
  <2>1. find_prefix_at_end \in Nat /\ done <= read - find_prefix_at_end
    BY <1>1, PrefixIsThere
  <2> QED BY <1>1, <1>2, <2>1
<1>4. program.capture_maxbytes # 0 => \A i \in done..(done' - 1) : ~SaysIn(program, i, Wanted(capturemode))
  <2>1. SUFFICES ASSUME capture_maxbytes # 0, NEW i \in done..(done' - 1)
                 PROVE  ~SaysIn(program, i, Wanted(capturemode))
    BY DEF capture_maxbytes
  <2>2. capture_maxbytes \in Nat
    BY <1>1, Constant DEF capture_maxbytes
  <2>3. CASE read - done <= Len(token)
    <3>1. done' = done
      BY <1>2, <2>1, <2>3
    <3> QED BY <1>1, <3>1
  <2>4. CASE ~(read - done <= Len(token))
    <3>1. Tokens = {} /\ done' = read - find_prefix_at_end
      BY <1>2, <2>1, <2>2, <2>4
    <3> QED BY <1>1, <3>1, NoneMissed
  <2> QED BY <2>3, <2>4
<1>5. PICK n \in Nat : n = done'
  BY <1>3
<1>6. /\ capturemode => recorded' = recorded /\ Gathers(program, done, capturelog, n, capturelog', mishaps)
      /\ ~capturemode => ToSet(recorded') = ToSet(recorded) \cup (done + 1..n)
  BY <1>1, <1>2, <1>3, <1>5, LogGathers
<1>7. capturemode => ToSet(recorded') = ToSet(recorded)
  BY <1>6
<1>8. Faithful(program, born, done, capturemode, capturelog, events, ToSet(recorded), mishaps)
  BY DEF CInv
<1>9. n <= Len(program.script) /\ done <= n
  BY <1>1, <1>3, <1>5
<1>10. Faithful(program, born, n, capturemode, capturelog', events, ToSet(recorded'), mishaps)
  BY <1>1, <1>4, <1>5, <1>6, <1>7, <1>8, <1>9, Flushed, ZenonT(30)
<1> QED BY <1>2, <1>5, <1>10 DEF CInv

LEMMA RespawnFaithful == IInv /\ CInv /\ Respawn => CInv'
<1> SUFFICES ASSUME IInv, CInv, Respawn PROVE CInv'
  OBVIOUS
<1>1. /\ UpTo(recorded, done) /\ program \in Programs /\ done \in Nat /\ read \in Nat /\ done <= read
      /\ read <= Len(program.script) /\ recorded \in Seq(Nat)
  BY Constant, Lengths DEF IInv, Sound, TypeOK, script, Bytes
<1>2. /\ done' = read /\ born' = read /\ capturemode' = FALSE /\ capturelog' = <<>>
      /\ UNCHANGED <<program, events, recorded, mishaps>>
  BY DEF Respawn
<1>3. \A x \in ToSet(recorded) : x \in Nat /\ x <= read
  <2>1. \A x \in ToSet(recorded) : x <= done
    BY <1>1 DEF UpTo
  <2>2. \A x \in ToSet(recorded) : x \in Nat
    BY <1>1 DEF ToSet
  <2> QED BY <1>1, <2>1, <2>2
<1>4. /\ events \in Seq(EventType)
      /\ \A i, j \in DOMAIN events : i < j => events[i].upto < events[j].upto
      /\ \A e \in ToSet(events) : e.upto + Len(END_TOKEN) <= done
  BY DEF CInv, Faithful, Reported
<1>5. \A e \in ToSet(events) : e.upto + Len(END_TOKEN) <= read
  <2>1. PICK l \in Nat : l = Len(END_TOKEN)
    BY <1>1, Constant
  <2>2. ASSUME NEW e \in ToSet(events) PROVE e.upto + l <= read
    <3>1. e.upto \in Nat /\ e.upto + l <= done
      BY <1>4, <2>1, EventsAre
    <3> QED BY <1>1, <3>1
  <2> QED BY <2>1, <2>2
<1>6. Faithful(program, read, read, FALSE, <<>>, events, ToSet(recorded), mishaps)
  BY <1>1, <1>3, <1>4, <1>5, Fresh
<1> QED BY <1>2, <1>6 DEF CInv

LEMMA MishapFaithful == IInv /\ CInv /\ (Clear \/ Unlink) => CInv'
<1> SUFFICES ASSUME IInv, CInv, Clear \/ Unlink PROVE CInv'
  OBVIOUS
<1>1. born \in Nat /\ done \in Nat /\ capturemode \in BOOLEAN /\ mishaps \in Nat
  BY StreamsAssumption DEF IInv, TypeOK
<1>2. /\ mishaps' = mishaps + 1 /\ capturelog' \in {capturelog, <<>>}
      /\ UNCHANGED <<program, born, done, capturemode, events, recorded>>
  BY DEF Clear, Unlink, dispatcher
<1>3. mishaps' # 0
  BY <1>1, <1>2
<1>4. Faithful(program, born, done, capturemode, capturelog, events, ToSet(recorded), mishaps)
  BY DEF CInv
<1>5. Faithful(program, born, done, capturemode, capturelog', events, ToSet(recorded), mishaps')
  BY <1>1, <1>2, <1>3, <1>4, FaithfulLess
<1> QED BY <1>2, <1>5 DEF CInv

LEMMA ElsewhereFaithful ==
    CInv /\ (Read \/ Write \/ Dies \/ Connect \/ Send \/ Reopen \/ UNCHANGED vars) => CInv'
<1> SUFFICES ASSUME CInv, Read \/ Write \/ Dies \/ Connect \/ Send \/ Reopen \/ UNCHANGED vars PROVE CInv'
  OBVIOUS
<1>1. UNCHANGED <<program, born, done, capturemode, capturelog, events, recorded, mishaps>>
  BY DEF Read, Write, Dies, Connect, Send, Reopen, vars, dispatcher
<1> QED BY <1>1 DEF CInv

LEMMA InitFaithful == Init => CInv
<1> SUFFICES ASSUME Init PROVE CInv
  OBVIOUS
<1>1. /\ program \in Programs /\ born = 0 /\ done = 0 /\ capturemode = FALSE /\ capturelog = <<>>
      /\ events = <<>> /\ recorded = <<>>
  BY DEF Init
<1>2. <<>> \in Seq(EventType) /\ DOMAIN <<>> = {} /\ ToSet(<<>>) = {}
  BY DEF ToSet
<1>3. 0 <= Len(program.script)
  BY <1>1, Constant
<1>4. Faithful(program, 0, 0, FALSE, <<>>, <<>>, {}, mishaps)
  BY <1>1, <1>2, <1>3, Fresh
<1> QED BY <1>1, <1>2, <1>4 DEF CInv

-----------------------------------------------------------------------------
(* What it says of the communication events and the log.                   *)

LEMMA CapturedIs ==
    ASSUME NEW u \in Nat, NEW j \in Nat, LastBegin(Begins, j, u), Begins \subseteq Nat
    PROVE  Captured(u) = Positions(j, u)
<1> DEFINE k == CHOOSE k \in Begins : k <= u /\ \A i \in Begins : i <= u => i <= k
<1>1. j \in Begins /\ j <= u /\ \A i \in Begins : i <= u => i <= j
  BY DEF LastBegin
<1>2. k \in Begins /\ k <= u /\ \A i \in Begins : i <= u => i <= k
  BY <1>1
<1> HIDE DEF k
<1>3. k \in Nat /\ k <= j /\ j <= k
  BY <1>1, <1>2
<1>4. k = j
  BY <1>3
<1> QED BY <1>4 DEF Captured, k

LEMMA FaithfulShows == IInv /\ CInv => CaptureFaithful
<1> SUFFICES ASSUME IInv, CInv PROVE CaptureFaithful
  OBVIOUS
<1>1. /\ Increasing(recorded) /\ program \in Programs /\ born \in Nat /\ done \in Nat
  BY DEF IInv, Sound, UpTo, TypeOK
<1>2. PICK c : c = Reference(program, born) /\ c = Capturing
  BY CapturingIs
<1>3. Begins = BeginsIn(c, born, done) /\ Finishes = FinishesIn(c, born, done) /\ Plain = PlainIn(c, born, done)
  <2>1. Begins = BeginsIn(c, born, done)
    BY <1>2 DEF Begins, BeginsIn
  <2>2. Finishes = FinishesIn(c, born, done)
    BY <1>2 DEF Finishes, FinishesIn
  <2>3. Plain = PlainIn(c, born, done)
    BY <1>2, <2>1 DEF Plain, PlainIn, InToken
  <2> QED BY <2>1, <2>2, <2>3
<1>4. Begins \subseteq Nat
  BY <1>1 DEF Begins
<1>5. {i \in ToSet(recorded) : i > born} = Plain
  BY <1>2, <1>3 DEF CInv, Faithful
<1>6. Reported(program, born, done, events, mishaps)
  BY DEF CInv, Faithful
<1>7. ASSUME NEW e \in ToSet(events), e.upto > born
      PROVE  /\ IsSuffix(e.data, Captured(e.upto))
             /\ mishaps = 0 /\ Len(Captured(e.upto)) <= capture_maxbytes => e.data = Captured(e.upto)
  <2>1. Carries(program, Begins, e, mishaps) /\ e.upto \in Nat
    BY <1>2, <1>3, <1>6, <1>7, EventsAre DEF Reported
  <2>2. PICK j \in Begins : LastBegin(Begins, j, e.upto) /\ Buffered(program, j, e.upto, e.data, mishaps)
    BY <2>1 DEF Carries
  <2>3. PICK u \in Nat : u = e.upto
    BY <2>1
  <2>4. j \in Nat /\ j <= u
    BY <1>4, <2>2, <2>3 DEF LastBegin
  <2>5. PICK a \in j..u : /\ e.data = Positions(a, u)
                          /\ mishaps = 0 /\ u - j <= capture_maxbytes => a = j
    BY <2>2, <2>3 DEF Buffered, capture_maxbytes
  <2>6. Captured(u) = Positions(j, u)
    BY <1>4, <2>2, <2>3, <2>4, CapturedIs
  <2>7. IsSuffix(Positions(a, u), Positions(j, u)) /\ Len(Positions(j, u)) = u - j
    <3>1. a \in Nat /\ j <= a /\ a <= u
      BY <2>4
    <3> QED BY <2>4, <3>1, PositionsSuffix, PositionsFun
  <2> QED BY <2>3, <2>5, <2>6, <2>7
<1>8. /\ \A i, j \in DOMAIN events : i < j => events[i].upto < events[j].upto
      /\ {e.upto : e \in {e \in ToSet(events) : e.upto > born}} = {i - Len(END_TOKEN) : i \in Finishes}
  BY <1>2, <1>3, <1>6 DEF Reported
<1> QED BY <1>1, <1>5, <1>7, <1>8 DEF CaptureFaithful

\* However the pipe cuts the output of a program into pieces, its tokens too, and however often it is
\* started again: record_output() gives the log all that is outside of tokens and captures, in
\* order, and makes one communication event of each capture, with the end of it, all of it if it
\* is no more than capture_maxbytes and no one cleared the log meanwhile.
THEOREM CapturesAreFaithful == Spec => []CaptureFaithful
<1>1. Init => IInv /\ CInv
  BY InitHolds, InitFaithful
<1>2. IInv /\ CInv /\ [Next]_vars => IInv' /\ CInv'
  BY NextKeeps, RecordTokenFaithful, RecordRestFaithful, RespawnFaithful, MishapFaithful, ElsewhereFaithful
     DEF Next, Daemon
<1>3. IInv /\ CInv => CaptureFaithful
  BY FaithfulShows
<1> QED BY <1>1, <1>2, <1>3, PTL DEF Spec

-----------------------------------------------------------------------------
(* Reading parts of a log.                                                 *)

Beginning(file, n) == SubSeq(file, 1, Smaller(n, Len(file)))
LastOf(file, n) == SubSeq(file, Len(file) - n + 1, Len(file))

LEMMA SmallerIs ==
    ASSUME NEW a \in Int, NEW b \in Int
    PROVE  Smaller(a, b) \in Int /\ Smaller(a, b) <= a /\ Smaller(a, b) <= b /\ Smaller(a, b) \in {a, b}
BY DEF Smaller

LEMMA LengthIs ==
    ASSUME NEW S, NEW file \in Seq(S), NEW m \in 1..Len(file) + 1, NEW n \in Int,
           m - 1 <= n, n <= Len(file)
    PROVE  SubSeq(file, m, n) \in Seq(S) /\ Len(SubSeq(file, m, n)) = n - m + 1
<1>1. Len(file) \in Nat /\ \A i \in m..n : file[i] \in S
  OBVIOUS
<1>2. /\ SubSeq(file, m, n) \in Seq(S)
      /\ Len(SubSeq(file, m, n)) = IF m <= n THEN n - m + 1 ELSE 0
  BY <1>1, SubSeqProperties
<1> QED BY <1>1, <1>2

\* The last n of a file, of any length.
LEMMA LastOfIs ==
    ASSUME NEW S, NEW file \in Seq(S), NEW n \in 0..Len(file)
    PROVE  LastOf(file, n) \in Seq(S) /\ Len(LastOf(file, n)) = n
<1>1. Len(file) \in Nat
  OBVIOUS
<1>2. Len(file) - n + 1 \in 1..Len(file) + 1 /\ Len(file) - (Len(file) - n + 1) + 1 = n
  BY <1>1
<1> QED BY <1>1, <1>2, LengthIs DEF LastOf

LEMMA NoneRead ==
    ASSUME NEW S, NEW file \in Seq(S), NEW pos \in Nat, NEW n \in Nat, n = 0 \/ pos >= Len(file)
    PROVE  From(file, pos, n) = <<>>
<1>1. /\ Len(file) \in Nat /\ pos + 1 \in Int /\ pos + n \in Int
      /\ Smaller(pos + n, Len(file)) < pos + 1 /\ Smaller(pos + n, Len(file)) \in Int
  <2>1. Len(file) \in Nat
    OBVIOUS
  <2> QED BY <2>1 DEF Smaller
<1> QED BY <1>1, SubSeqEmpty DEF From

\* Where the last n of sz bytes begin and end.
LEMMA EndBegins ==
    ASSUME NEW sz \in Nat, NEW n \in Nat
    PROVE  /\ NotNegative(sz - n) \in Nat /\ NotNegative(sz - n) = sz - Smaller(n, sz)
           /\ Smaller(NotNegative(sz - n) + n, sz) = sz
BY DEF NotNegative, Smaller

\* What tailFile() reads is the end of the file, wherever it was told to begin: nothing if the
\* client knows of all there is, or else as much as was asked for, if there is as much.
THEOREM TailIsTheEnd ==
    ASSUME NEW S, NEW file \in Seq(S), NEW at \in Int, NEW n \in Int
    PROVE  LET t == tailFile(file, at, n)
               seen == IF at < Len(file) THEN Smaller(NotNegative(n), Len(file)) ELSE 0
           IN  /\ t.data = LastOf(file, seen)
               /\ t.offset = Len(file) /\ (t.overflow <=> Len(file) > at + n)
<1> DEFINE sz == Len(file)
           overflow == sz > at + n
           from == IF overflow THEN sz - 1 ELSE at
           short == from + n > sz
           m == IF short /\ from > sz - 1 THEN 0 ELSE n
           begin == IF short THEN sz - m ELSE from
           seen == IF at < sz THEN Smaller(NotNegative(n), sz) ELSE 0
           data == IF m <= 0 THEN <<>> ELSE From(file, NotNegative(begin), m)
<1>1. sz \in Nat
  OBVIOUS
<1>2. tailFile(file, at, n) = [data |-> data, offset |-> sz, overflow |-> overflow]
  BY DEF tailFile
<1>3. \/ m <= 0 /\ seen = 0
      \/ m = n /\ n > 0 /\ begin = sz - n /\ seen = Smaller(n, sz)
  <2> HIDE DEF sz
  <2>1. CASE n <= 0
    <3>1. NotNegative(n) = 0
      BY <2>1 DEF NotNegative
    <3>2. Smaller(0, sz) = 0
      BY <1>1 DEF Smaller
    <3>3. m <= 0
      BY <2>1
    <3> QED BY <3>1, <3>2, <3>3
  <2>2. CASE n > 0 /\ overflow
    <3>1. from = sz - 1 /\ at < sz
      BY <1>1, <2>2
    <3>2. m = n
      BY <2>2, <3>1, <1>1
    <3>3. begin = sz - n
      BY <1>1, <2>2, <3>1, <3>2
    <3> QED BY <2>2, <3>1, <3>2, <3>3 DEF NotNegative
  <2>3. CASE n > 0 /\ ~overflow /\ at >= sz
    <3>1. short /\ from > sz - 1
      BY <1>1, <2>3
    <3>2. m = 0
      BY <3>1
    <3> QED BY <1>1, <2>3, <3>2
  <2>4. CASE n > 0 /\ ~overflow /\ at < sz
    <3>1. from = at /\ at + n >= sz
      BY <1>1, <2>4
    <3>2. m = n
      BY <1>1, <2>4, <3>1
    <3>3. begin = sz - n
      BY <1>1, <2>4, <3>1, <3>2
    <3> QED BY <2>4, <3>2, <3>3 DEF NotNegative
  <2> QED BY <1>1, <2>1, <2>2, <2>3, <2>4
<1>4. data = LastOf(file, seen)
  <2>1. CASE m <= 0 /\ seen = 0
    <3>1. LastOf(file, 0) = <<>>
      BY <1>1, SubSeqEmpty DEF LastOf
    <3> HIDE DEF m, seen
    <3> QED BY <2>1, <3>1
  <2>2. CASE m = n /\ n > 0 /\ begin = sz - n /\ seen = Smaller(n, sz)
    <3> HIDE DEF m, begin, seen, sz
    <3>1. data = SubSeq(file, NotNegative(sz - n) + 1, Smaller(NotNegative(sz - n) + n, sz))
      <4>1. data = From(file, NotNegative(sz - n), n)
        BY <2>2
      <4> QED BY <4>1 DEF From, sz
    <3>2. /\ NotNegative(sz - n) = sz - Smaller(n, sz)
          /\ Smaller(NotNegative(sz - n) + n, sz) = sz
      <4>1. n \in Nat
        BY <2>2
      <4> QED BY <1>1, <4>1, EndBegins
    <3> QED BY <2>2, <3>1, <3>2 DEF LastOf, sz
  <2> QED BY <1>3, <2>1, <2>2
<1> HIDE DEF data, overflow
<1>5. /\ tailFile(file, at, n).data = LastOf(file, seen)
      /\ tailFile(file, at, n).offset = Len(file) /\ tailFile(file, at, n).overflow = overflow
  BY <1>2, <1>4
<1> QED BY <1>5 DEF overflow

\* A client that asks from the offset it was told of misses nothing unless it is told of an
\* overflow: what was logged since is the end of what it gets.
THEOREM PollsMissNothing ==
    ASSUME NEW S, NEW old \in Seq(S), NEW new \in Seq(S), NEW n \in Nat
    PROVE  LET t == tailFile(old \o new, Len(old), n)
           IN  /\ ~t.overflow => \E again \in Seq(S) : t.data = again \o new
               /\ t.overflow => Len(t.data) = n /\ n < Len(new)
<1> DEFINE file == old \o new
           t == tailFile(file, Len(old), n)
           seen == IF Len(old) < Len(file) THEN Smaller(NotNegative(n), Len(file)) ELSE 0
<1>1. file \in Seq(S) /\ Len(file) = Len(old) + Len(new) /\ Len(old) \in Nat /\ Len(new) \in Nat
  BY ConcatProperties
<1>2. SubSeq(file, Len(old) + 1, Len(file)) = new
  <2>1. \A i \in DOMAIN new : file[Len(old) + i] = new[i]
    BY ConcatProperties
  <2>2. /\ SubSeq(file, Len(old) + 1, Len(file)) \in Seq(S)
        /\ Len(SubSeq(file, Len(old) + 1, Len(file))) = Len(new)
    <3>1. /\ Len(old) + 1 \in 1..Len(file) + 1 /\ Len(old) + 1 - 1 <= Len(file)
          /\ Len(file) - (Len(old) + 1) + 1 = Len(new)
      BY <1>1
    <3> HIDE DEF file
    <3> QED BY <1>1, <3>1, LengthIs
  <2>3. \A i \in 1..Len(new) : SubSeq(file, Len(old) + 1, Len(file))[i] = file[Len(old) + i]
    <3> HIDE DEF file
    <3>1. Len(old) + 1 \in Int /\ Len(file) \in Int /\ \A i \in Len(old) + 1..Len(file) : file[i] \in S
      BY <1>1
    <3>2. \A i \in 1..Len(file) - (Len(old) + 1) + 1 :
             SubSeq(file, Len(old) + 1, Len(file))[i] = file[Len(old) + 1 + i - 1]
      BY <3>1, SubSeqProperties
    <3>3. /\ Len(file) - (Len(old) + 1) + 1 = Len(new)
          /\ \A i \in Nat : Len(old) + 1 + i - 1 = Len(old) + i
      BY <1>1
    <3> QED BY <3>2, <3>3
  <2> DEFINE end == SubSeq(file, Len(old) + 1, Len(file))
  <2>4. end \in Seq(S) /\ Len(end) = Len(new) /\ \A i \in 1..Len(new) : end[i] = new[i]
    BY <2>1, <2>2, <2>3
  <2> HIDE DEF end
  <2>5. end = new
    BY <2>4
  <2> QED BY <2>5 DEF end
<1> HIDE DEF file
<1>3. /\ t.data = LastOf(file, seen)
      /\ t.overflow <=> Len(file) > Len(old) + n
  BY <1>1, TailIsTheEnd
<1>4. seen \in 0..Len(file)
  BY <1>1 DEF Smaller, NotNegative
<1> HIDE DEF t
<1>5. ASSUME ~t.overflow PROVE \E again \in Seq(S) : t.data = again \o new
  <2>1. Len(new) <= seen
    BY <1>1, <1>3, <1>5 DEF Smaller, NotNegative
  <2> HIDE DEF seen
  <2> DEFINE first == Len(file) - seen + 1
             again == SubSeq(file, first, Len(old))
  <2>2. /\ first \in 1..Len(file) + 1 /\ first - 1 <= Len(old)
        /\ Len(old) \in first - 1..Len(file) /\ Len(file) \in Len(old)..Len(file)
    BY <1>1, <1>4, <2>1
  <2>3. LastOf(file, seen) = SubSeq(file, first, Len(file))
    BY DEF LastOf
  <2> HIDE DEF first
  <2>4. again \in Seq(S)
    BY <1>1, <2>2, LengthIs
  <2>5. again \o SubSeq(file, Len(old) + 1, Len(file)) = SubSeq(file, first, Len(file))
    BY <1>1, <2>2, ConcatAdjacentSubSeq
  <2> QED BY <1>2, <1>3, <2>3, <2>4, <2>5
<1>6. ASSUME t.overflow PROVE Len(t.data) = n /\ n < Len(new)
  <2>1. seen = n /\ n < Len(new)
    BY <1>1, <1>3, <1>6 DEF Smaller, NotNegative
  <2> HIDE DEF seen
  <2> QED BY <1>1, <1>3, <1>4, <2>1, LastOfIs
<1> QED BY <1>5, <1>6 DEF t, file

\* A client that reads chunk by chunk with readFile() puts the file together again, and a
\* chunk shorter than asked for is the last.
THEOREM ChunksMakeTheFile ==
    ASSUME NEW S, NEW file \in Seq(S), NEW at \in Nat, NEW n \in Nat \ {0}
    PROVE  LET chunk == readFile(file, at, n).data
           IN  /\ Beginning(file, at) \o chunk = Beginning(file, at + Len(chunk))
               /\ Len(chunk) < n <=> at + n > Len(file)
<1> DEFINE chunk == readFile(file, at, n).data
           last == Smaller(at + n, Len(file))
<1>1. Len(file) \in Nat /\ at + n \in Nat
  OBVIOUS
<1>2. chunk = From(file, at, n)
  BY DEF readFile, Data
<1>3. chunk = SubSeq(file, at + 1, last)
  BY <1>2 DEF From
<1> HIDE DEF chunk
<1>4. CASE at >= Len(file)
  <2>1. chunk = <<>>
    BY <1>2, <1>4, NoneRead
  <2>2. Beginning(file, at) = SubSeq(file, 1, Len(file))
    BY <1>1, <1>4 DEF Beginning, Smaller
  <2>3. Beginning(file, at) \in Seq(S)
    BY <2>2, SubSeqFull
  <2>4. Len(chunk) = 0 /\ at + Len(chunk) = at
    BY <2>1
  <2>5. Beginning(file, at) \o chunk = Beginning(file, at)
    BY <2>1, <2>3
  <2>6. Len(chunk) < n <=> at + n > Len(file)
    BY <1>1, <1>4, <2>4
  <2> QED BY <2>4, <2>5, <2>6 DEF chunk
<1>5. CASE at < Len(file)
  <2>1. /\ Smaller(at, Len(file)) = at
        /\ last \in at..Len(file) /\ last <= Len(file) /\ last - at <= n
        /\ last - at < n <=> at + n > Len(file)
    BY <1>1, <1>5 DEF Smaller
  <2> HIDE DEF last
  <2>2. 1 \in 1..Len(file) + 1 /\ at \in 0..Len(file) /\ at + 1 \in 1..Len(file) + 1
    BY <1>1, <1>5
  <2>3. Len(chunk) = last - at
    <3>1. Len(SubSeq(file, at + 1, last)) = last - (at + 1) + 1
      <4>1. last \in Int /\ at + 1 - 1 <= last
        BY <1>1, <2>1
      <4> QED BY <2>1, <2>2, <4>1, LengthIs
    <3> QED BY <1>1, <1>3, <2>1, <3>1
  <2>4. SubSeq(file, 1, at) \o SubSeq(file, at + 1, last) = SubSeq(file, 1, last)
    BY <2>1, <2>2, ConcatAdjacentSubSeq
  <2>5. Smaller(at + Len(chunk), Len(file)) = last
    BY <1>1, <2>1, <2>3 DEF Smaller
  <2>6. Beginning(file, at) \o chunk = Beginning(file, at + Len(chunk))
    BY <1>3, <2>1, <2>4, <2>5 DEF Beginning
  <2> QED BY <2>1, <2>3, <2>6 DEF chunk
<1> QED BY <1>1, <1>4, <1>5

\* A negative offset reads the last bytes, as many as there are.
THEOREM LastBytesAreRead ==
    ASSUME NEW S, NEW file \in Seq(S), NEW n \in Nat \ {0}
    PROVE  readFile(file, -n, 0) = Data(LastOf(file, Smaller(n, Len(file))))
<1> DEFINE pos == NotNegative(Len(file) - n)
<1>1. Len(file) \in Nat
  OBVIOUS
<1>2. readFile(file, -n, 0) = Data(From(file, pos, n))
  BY <1>1 DEF readFile
<1>3. /\ pos = Len(file) - Smaller(n, Len(file))
      /\ Smaller(pos + n, Len(file)) = Len(file)
  BY <1>1, EndBegins
<1> HIDE DEF pos
<1>4. From(file, pos, n) = LastOf(file, Smaller(n, Len(file)))
  BY <1>3 DEF From, LastOf
<1> QED BY <1>2, <1>4
=============================================================================
