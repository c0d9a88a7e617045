--------------------------- MODULE RepliesProofs ---------------------------
(***************************************************************************)
(* Theorems of Replies, for every set of monitors, threads, comments, page  *)
(* sizes and limits; and, where two monitors would read the same thread in  *)
(* turns, for one.                                                          *)
(***************************************************************************)
EXTENDS Replies, FiniteSetTheorems, TLAPS

---------------------------------------------------------------------------
\* The inductive invariant, for any number of monitors.

\* What a row that was read says: reading that found too many batches empty is over, and
\* a walk without room has a decision that holds.
RowSound(r) ==
  /\ r.empty = MaxEmpty => r.stopped = "threshold"
  /\ r.batchStart # None =>
       /\ r.batchStart < Ceiling + Widest
       /\ r.batchStart >= Ceiling => r.stopped \notin {None, "budget"}

\* The batch that is read goes on from the rows it was opened by.
BatchSound(read, seen) ==
  /\ read.offset = ReadTo(seen) + read.got /\ ReadTo(seen) < Ceiling
  /\ read.want = Want(seen) /\ read.offset < Ceiling + Widest
  /\ read.empty < MaxEmpty

JobSound(j) ==
  /\ j.pc = "queued" => j.stored = {}
  /\ j.pc # "queued" => j.seen \in [Threads -> Rows] /\ \A t \in Threads : RowSound(j.seen[t])
  /\ j.pc = "page" => /\ j.thread \in j.todo /\ j.read \in Batches
                      /\ BatchSound(j.read, j.seen[j.thread])

Inv ==
  /\ TypeOK
  /\ \A t \in Threads : RowSound(row[t])
  /\ \A m \in Monitors : job[m] # None => JobSound(job[m])
  /\ StoredIsHandedOn

---------------------------------------------------------------------------
\* For one monitor.

OneMonitor == \A m, n \in Monitors : m = n

\* A thread that may be read on in its first walk.
OpenRow(r) == r.batchStart # None /\ r.stoppedAt = None /\ r.stopped \in {None, "budget"}

\* A thread that was never read was never walked; one that is read on was walked down to
\* its cursor; and reading stops at a count only where there is one.
WalkOf(r, been) ==
  /\ r.batchStart = None => been = {} /\ r.readAt = None /\ r.cursor = None
  /\ OpenRow(r) => r.cursor # None /\ \A c \in been : r.cursor < c
  /\ r.stoppedAt # None => r.count # None

\* In the first walk of a thread a batch goes on below all that was walked.
ReadsOn(read, been) ==
  /\ read.since = 0
  /\ read.pages = 0 => ~read.ended /\ read.got = 0 /\ read.items = {}
  /\ read.cursor = None => been = {} /\ (read.ended \/ read.pages = 0)
  /\ read.items \cap been = {}
  /\ read.cursor # None /\ ~read.ended => \A c \in been \cup read.items : read.cursor < c
  /\ read.pages > 0 /\ read.partial => read.cursor # None /\ ~read.ended

\* While a run reads, no row that it has yet to come to changes, and what it stored is of
\* threads it has come to.
RunSound(j, rows, been) ==
  /\ j.pc # "queued" => \A t \in j.todo : j.seen[t] = rows[t]
  /\ \A r \in j.stored : r[1] \in j.todo => j.pc = "page" /\ r[1] = j.thread
  /\ j.pc = "page" /\ j.seen[j.thread].stoppedAt = None => ReadsOn(j.read, been[j.thread])

WalkInv ==
  /\ \A t \in Threads : WalkOf(row[t], walked[t])
  /\ \A m \in Monitors : job[m] # None => RunSound(job[m], row, walked)
  /\ "late" \notin faults => \A m \in Monitors : job[m] # None => handed = {}
  /\ WalksOn

---------------------------------------------------------------------------
\* Where a comment sits.

\* The comment that a first walk stopped above is stored, as the last of its batch.
LastIsStored(p, t, r) ==
  OpenRow(r) => /\ r.batchStart > 0 /\ r.cursor + 1 \in Comments
                /\ p[<<t, r.cursor + 1>>] = r.batchStart - 1

\* With no run that dies: nothing is stored below where a first walk has come.
Fresh(p, t, r) ==
  r.stoppedAt = None =>
    /\ r.batchStart = None => \A c \in Comments : p[<<t, c>>] = None
    /\ OpenRow(r) => \A c \in Comments : c <= r.cursor => p[<<t, c>>] = None

\* With no comment added: a comment sits where it stands among the n of the thread.
Level(p, t, r, n) ==
  r.stoppedAt = None =>
    /\ \A c \in Comments : p[<<t, c>>] # None => p[<<t, c>>] = n - c
    /\ OpenRow(r) => r.batchStart + r.cursor = n

\* The same of the batch that is read.
LastRead(p, t, read) ==
  read.pages > 0 /\ read.partial =>
    /\ read.offset > 0 /\ read.cursor + 1 \in Comments
    /\ p[<<t, read.cursor + 1>>] = read.offset - 1
FreshRead(p, t, read) ==
  ~read.ended => \A c \in Comments : read.cursor = None \/ c <= read.cursor => p[<<t, c>>] = None
LevelRead(read, n) ==
  ~read.ended => /\ read.cursor = None => read.offset = 0
                 /\ read.cursor # None => read.offset + read.cursor = n

\* The batch of thread t is being read.
BeingRead(j, t) == j # None /\ j.pc = "page" /\ j.thread = t

\* What holds of a thread's row, and of the batch that a run reads; F are the faults.
PlaceSound(p, t, r, n, F, j) ==
  /\ LastIsStored(p, t, r)
  /\ "crash" \notin F /\ ~BeingRead(j, t) => Fresh(p, t, r)
  /\ "growth" \notin F => Level(p, t, r, n)
PlaceRead(p, j, n, F) ==
  j.seen[j.thread].stoppedAt = None =>
    /\ LastRead(p, j.thread, j.read)
    /\ "crash" \notin F => FreshRead(p, j.thread, j.read)
    /\ "growth" \notin F => LevelRead(j.read, n[j.thread])

\* A thread whose comments are added to is not read by runs that die.
Steady(F) == "crash" \notin F \/ "growth" \notin F

PlaceInv ==
  Steady(faults) =>
    \A m \in Monitors :
      /\ \A t \in Threads : PlaceSound(position, t, row[t], said[t], faults, job[m])
      /\ job[m] # None /\ job[m].pc = "page" => PlaceRead(position, job[m], said, faults)

---------------------------------------------------------------------------
\* The constants, and what the rows and jobs are made of.

\* The limits are numbers above zero and the widest page is one of the pages.
LEMMA Limits ==
  /\ BatchSize \in Nat \ {0} /\ MaxPages \in Nat \ {0} /\ MaxEmpty \in Nat \ {0}
  /\ Ceiling \in Nat \ {0} /\ MaxThreads \in Nat \ {0} /\ MaxComments \in Nat \ {0}
  /\ MaxCrashes \in Nat
  /\ Widest \in Nat \ {0} /\ \A size \in PageSizes : size \in Nat \ {0} /\ size <= Widest
  /\ None \notin Nat /\ None \notin Stops /\ None \notin RepliesJobs
<1>1. Widest \in PageSizes /\ \A other \in PageSizes : other <= Widest
  <2>1. \E n \in PageSizes : \A other \in PageSizes : other <= n
    BY RepliesAssumption, Zenon
  <2> QED BY <2>1, Zenon DEF Widest
<1> QED BY <1>1, RepliesAssumption

\* The parts of a row.
LEMMA RowParts ==
  ASSUME NEW r \in Rows
  PROVE  /\ r.count \in Numbers /\ r.partial \in BOOLEAN \cup {None} /\ r.readAt \in Numbers
         /\ r.cursor \in Comments \cup {None} /\ r.batchStart \in Numbers
         /\ r.empty \in 0..MaxEmpty /\ r.stopped \in Stops \cup {None}
         /\ r.stoppedAt \in Numbers /\ r.judgedTo \in Nat
BY DEF Rows

\* The parts of a batch.
LEMMA ReadParts ==
  ASSUME NEW read \in Batches
  PROVE  /\ read.offset \in Nat /\ read.cursor \in Comments \cup {None} /\ read.pages \in Nat
         /\ read.got \in Nat /\ read.partial \in BOOLEAN /\ read.ended \in BOOLEAN
         /\ read.want \in Nat /\ read.readAt \in Nat /\ read.since \in Nat
         /\ read.empty \in 0..MaxEmpty /\ read.items \in SUBSET Comments
BY DEF Batches

\* The parts of a job.
LEMMA JobParts ==
  ASSUME NEW j \in RepliesJobs
  PROVE  /\ j # None
         /\ j.pc \in {"queued", "threads", "page"} /\ j.ids \in SUBSET Threads
         /\ j.todo \in SUBSET Threads /\ j.seen \in [Threads -> Rows] \cup {None}
         /\ j.opened \in Nat /\ j.stored \in SUBSET Replies /\ j.thread \in Threads \cup {None}
         /\ j.read \in Batches \cup {None}
BY Limits DEF RepliesJobs

\* A monitor's job is a job.
LEMMA JobAt ==
  ASSUME TypeOK, NEW m \in Monitors, job[m] # None
  PROVE  job[m] \in RepliesJobs
BY DEF TypeOK

\* What one monitor's job becomes changes no other monitor's.
LEMMA JobMoves ==
  ASSUME TypeOK, NEW m \in Monitors, NEW j \in RepliesJobs \cup {None},
         job' = [job EXCEPT ![m] = j]
  PROVE  /\ job' \in [Monitors -> RepliesJobs \cup {None}]
         /\ job'[m] = j /\ \A n \in Monitors : n # m => job'[n] = job[n]
BY DEF TypeOK

\* A job that runs holds the rows it read.
LEMMA SeenIs ==
  ASSUME Inv, NEW m \in Monitors, job[m] # None, job[m].pc # "queued", NEW t \in Threads
  PROVE  /\ job[m].seen \in [Threads -> Rows] /\ job[m].seen[t] \in Rows
         /\ RowSound(job[m].seen[t])
<1>1. job[m] \in RepliesJobs /\ JobSound(job[m])
  BY JobAt DEF Inv
<1>2. job[m].seen \in [Threads -> Rows]
  BY <1>1, JobParts DEF JobSound
<1> QED BY <1>1, <1>2 DEF JobSound

---------------------------------------------------------------------------
\* What a row says of the batch that was read and of the next.

LEMMA ReadToIs ==
  ASSUME NEW r \in Rows
  PROVE  ReadTo(r) \in Nat /\ JudgedTo(r) \in Nat
BY RowParts, Limits DEF ReadTo, JudgedTo, Numbers

\* There is room for a batch of a thread whose reading has not ended.
LEMMA RoomIsLeft ==
  ASSUME NEW r \in Rows, RowSound(r), ~Ended(r)
  PROVE  ReadTo(r) < Ceiling /\ Want(r) \in Nat /\ Want(r) <= Ceiling - ReadTo(r) /\ Want(r) > 0
<1>1. ReadTo(r) < Ceiling
  <2>1. CASE Grew(r) \/ r.batchStart = None
    BY <2>1, Limits DEF ReadTo
  <2>2. CASE ~Grew(r) /\ r.batchStart # None
    <3>1. r.stopped \in {None, "budget"}
      BY <2>2 DEF Ended
    <3>2. r.batchStart \in Nat /\ ~(r.batchStart >= Ceiling)
      BY <3>1, <2>2, RowParts DEF RowSound, Numbers
    <3> QED BY <3>2, <2>2, Limits DEF ReadTo
  <2> QED BY <2>1, <2>2
<1> QED BY <1>1, ReadToIs, Limits DEF Want, RoomLeft, Lower

\* Batches without a match are counted up to the number that closes the thread.
LEMMA EmptiesIs ==
  ASSUME NEW m \in Monitors, NEW t \in Threads, NEW r \in Rows, RowSound(r), ~Ended(r)
  PROVE  /\ Empties(m, t, r) \in 0..MaxEmpty
         /\ ~JudgedEmpty(m, t, r) => Empties(m, t, r) < MaxEmpty
<1> DEFINE before == IF Grew(r) THEN 0 ELSE r.empty
<1>1. before \in Nat /\ before < MaxEmpty
  <2>1. CASE Grew(r)
    BY <2>1, Limits
  <2>2. CASE ~Grew(r)
    <3>1. r.stopped \in {None, "budget"}
      BY <2>2 DEF Ended
    <3>2. r.empty \in 0..MaxEmpty /\ r.empty # MaxEmpty
      BY <3>1, RowParts, Limits DEF RowSound, Stops
    <3> QED BY <3>2, <2>2, Limits
  <2> QED BY <2>1, <2>2
<1>2. ReadTo(r) \in Nat /\ JudgedTo(r) \in Nat
  BY ReadToIs
<1>3. CASE ReadTo(r) <= JudgedTo(r)
  <2>1. Empties(m, t, r) = before
    BY <1>3 DEF Empties
  <2> QED BY <2>1, <1>1, Limits
<1>4. CASE ~(ReadTo(r) <= JudgedTo(r))
  <2>1. Empties(m, t, r) = 0 \/ Empties(m, t, r) = before + 1
    BY <1>4 DEF Empties
  <2>2. ~JudgedEmpty(m, t, r) => ~(Empties(m, t, r) >= MaxEmpty)
    BY <1>4, <1>2 DEF JudgedEmpty
  <2>3. Empties(m, t, r) \in Nat /\ Empties(m, t, r) <= MaxEmpty
    BY <2>1, <1>1, Limits
  <2> QED BY <2>2, <2>3, Limits
<1> QED BY <1>3, <1>4

---------------------------------------------------------------------------
\* How the invariant is kept by a step.

\* A stored comment stays accounted for when no set that holds it shrinks, except into
\* another.
LEMMA StoredKept ==
  ASSUME StoredIsHandedOn,
         \A r \in Replies : position'[r] # None =>
           position[r] # None \/ \E m \in Monitors : job'[m] # None /\ r \in job'[m].stored,
         lost \subseteq lost',
         \A m \in Monitors : scored[m] \subseteq scored'[m],
         \A h \in handed : h \in handed' \/ \A m \in Monitors : h.monitor = m => h.replies \subseteq scored'[m],
         \A m \in Monitors : job[m] # None =>
           \/ job'[m] # None /\ job[m].stored \subseteq job'[m].stored
           \/ job[m].stored \subseteq lost'
           \/ \E h \in handed' : h.monitor = m /\ job[m].stored \subseteq h.replies
  PROVE  StoredIsHandedOn'
<1> SUFFICES ASSUME NEW r \in Replies, position'[r] # None
             PROVE  \/ r \in lost'
                    \/ \E m \in Monitors :
                         \/ r \in scored'[m]
                         \/ \E h \in handed' : h.monitor = m /\ r \in h.replies
                         \/ job'[m] # None /\ r \in job'[m].stored
  BY Zenon DEF StoredIsHandedOn
<1>1. CASE \E m \in Monitors : job'[m] # None /\ r \in job'[m].stored
  BY <1>1, Zenon
<1>2. CASE position[r] # None
  <2>1. CASE r \in lost
    BY <2>1
  <2>2. CASE \E m \in Monitors : r \in scored[m]
    BY <2>2
  <2>3. CASE \E m \in Monitors : \E h \in handed : h.monitor = m /\ r \in h.replies
    <3>1. PICK m \in Monitors, h \in handed : h.monitor = m /\ r \in h.replies
      BY <2>3
    <3> QED BY <3>1
  <2>4. CASE \E m \in Monitors : job[m] # None /\ r \in job[m].stored
    <3>1. PICK m \in Monitors : job[m] # None /\ r \in job[m].stored
      BY <2>4
    <3> QED BY <3>1
  <2> QED BY <1>2, <2>1, <2>2, <2>3, <2>4, Zenon DEF StoredIsHandedOn
<1> QED BY <1>1, <1>2, Zenon

\* One monitor's job changes, and perhaps a row.
LEMMA InvKept ==
  ASSUME Inv, TypeOK', NEW m \in Monitors, NEW j \in RepliesJobs \cup {None},
         job' = [job EXCEPT ![m] = j], j # None => JobSound(j),
         \A t \in Threads : RowSound(row[t]) => RowSound(row'[t]),
         StoredIsHandedOn'
  PROVE  Inv'
<1>1. TypeOK
  BY DEF Inv
<1>2. job'[m] = j /\ \A n \in Monitors : n # m => job'[n] = job[n]
  BY <1>1, JobMoves
<1>3. \A n \in Monitors : job'[n] # None => JobSound(job'[n])
  BY <1>2, Zenon DEF Inv
<1>4. \A t \in Threads : RowSound(row'[t])
  BY DEF Inv
<1>5. (\A n \in Monitors : job[n] # None => JobSound(job[n]))'
  BY <1>3, Zenon
<1>6. (\A t \in Threads : RowSound(row[t]))'
  BY <1>4, Zenon
<1> QED BY <1>5, <1>6, Zenon DEF Inv

---------------------------------------------------------------------------
\* Around the step.

LEMMA GrowKeeps ==
  ASSUME Inv, NEW t \in Threads, Grow(t)
  PROVE  Inv'
<1>1. said' \in [Threads -> 0..MaxComments]
  BY Limits DEF Grow, Inv, TypeOK
<1>2. TypeOK'
  BY <1>1 DEF Grow, Inv, TypeOK
<1>3. row' = row /\ job' = job /\ position' = position /\ handed' = handed /\ scored' = scored /\ lost' = lost
  BY DEF Grow
<1>4. StoredIsHandedOn'
  BY <1>3 DEF Inv, StoredIsHandedOn
<1> QED BY <1>2, <1>3, <1>4 DEF Inv

\* A job as it is sent is a job, and holds nothing.
LEMMA QueuedIs ==
  ASSUME NEW found \in SUBSET Threads
  PROVE  /\ Queued(found) \in RepliesJobs /\ JobSound(Queued(found))
         /\ Queued(found).pc = "queued" /\ Queued(found).stored = {} /\ Queued(found).todo = {}
BY DEF Queued, RepliesJobs, JobSound

LEMMA PollKeeps ==
  ASSUME Inv, NEW m \in Monitors, NEW found \in SUBSET Threads, Poll(m, found)
  PROVE  Inv'
<1> DEFINE j == Queued(found)
<1>1. j \in RepliesJobs /\ JobSound(j) /\ job' = [job EXCEPT ![m] = j] /\ job[m] = None
  BY QueuedIs DEF Poll
<1>2. TypeOK
  BY DEF Inv
<1>3. job' \in [Monitors -> RepliesJobs \cup {None}] /\ job'[m] = j /\ \A n \in Monitors : n # m => job'[n] = job[n]
  BY <1>1, <1>2, JobMoves
<1>4. \A t \in Threads : row'[t] = IF t \in found \cap Counted THEN [row[t] EXCEPT !.count = said[t]] ELSE row[t]
  BY DEF Poll
<1>5. ASSUME NEW t \in Threads PROVE row'[t] \in Rows /\ (RowSound(row[t]) => RowSound(row'[t]))
  <2>1. row[t] \in Rows /\ said[t] \in Nat
    BY <1>2, Limits DEF TypeOK
  <2>2. [row[t] EXCEPT !.count = said[t]] \in Rows
    BY <2>1 DEF Rows, Numbers
  <2>3. RowSound(row[t]) => RowSound([row[t] EXCEPT !.count = said[t]])
    BY <2>1 DEF Rows, RowSound
  <2> QED BY <1>4, <2>1, <2>2, <2>3
<1>6. row' \in [Threads -> Rows]
  BY <1>5 DEF Poll
<1>7. TypeOK'
  BY <1>2, <1>3, <1>6 DEF Poll, TypeOK
<1>8. StoredIsHandedOn'
  <2>1. \A n \in Monitors : job[n] # None => job'[n] = job[n]
    BY <1>1, <1>3
  <2> QED BY <2>1 DEF Poll, Inv, StoredIsHandedOn
<1> HIDE DEF j
<1> QED BY <1>1, <1>5, <1>7, <1>8, InvKept

LEMMA ScoreKeeps ==
  ASSUME Inv, NEW m \in Monitors, NEW h \in handed, NEW found \in SUBSET h.replies, Score(m, h, found)
  PROVE  Inv'
<1>1. TypeOK /\ h.replies \in SUBSET Replies
  BY DEF Inv, TypeOK
<1>2. /\ scored' = [scored EXCEPT ![m] = scored[m] \cup h.replies]
      /\ leads' = [leads EXCEPT ![m] = leads[m] \cup found]
      /\ handed' = handed \ {h} /\ h.monitor = m
      /\ row' = row /\ job' = job /\ position' = position /\ lost' = lost
  BY DEF Score
<1>3. scored' \in [Monitors -> SUBSET Replies] /\ leads' \in [Monitors -> SUBSET Replies] /\ handed' \subseteq handed
  BY <1>1, <1>2 DEF TypeOK
<1>4. TypeOK'
  BY <1>1, <1>2, <1>3 DEF Score, TypeOK
<1>5. StoredIsHandedOn'
  <2>1. \A n \in Monitors : scored[n] \subseteq scored'[n]
    BY <1>1, <1>2 DEF TypeOK
  <2>2. h.replies \subseteq scored'[m]
    BY <1>1, <1>2 DEF TypeOK
  <2>3. \A g \in handed : g \in handed' \/ \A n \in Monitors : g.monitor = n => g.replies \subseteq scored'[n]
    BY <2>2, <1>2
  <2> QED BY <1>2, <2>1, <2>3, StoredKept DEF Inv
<1> QED BY <1>2, <1>4, <1>5 DEF Inv

LEMMA CrashKeeps ==
  ASSUME Inv, NEW m \in Monitors, Crash(m)
  PROVE  Inv'
<1> DEFINE j == Queued(job[m].ids)
<1>1. TypeOK /\ job[m] # None /\ job[m] \in RepliesJobs
  BY JobAt DEF Inv, Crash
<1>2. job[m].ids \in SUBSET Threads /\ job[m].stored \in SUBSET Replies
  BY <1>1, JobParts
<1>3. j \in RepliesJobs /\ JobSound(j)
  BY <1>2, QueuedIs
<1>4. job' = [job EXCEPT ![m] = j]
  BY DEF Crash
<1> HIDE DEF j
<1>5. job' \in [Monitors -> RepliesJobs \cup {None}] /\ job'[m] = j /\ \A n \in Monitors : n # m => job'[n] = job[n]
  BY <1>1, <1>3, <1>4, JobMoves
<1>6. lost' = lost \cup job[m].stored /\ crashes' \in 0..MaxCrashes
  BY <1>1, Limits DEF Crash, TypeOK
<1>7. TypeOK'
  BY <1>1, <1>2, <1>5, <1>6 DEF Crash, TypeOK
<1>8. StoredIsHandedOn'
  <2>1. position' = position /\ handed' = handed /\ scored' = scored /\ lost \subseteq lost'
    BY <1>6 DEF Crash
  <2>2. \A n \in Monitors : job[n] # None =>
           \/ job'[n] # None /\ job[n].stored \subseteq job'[n].stored
           \/ job[n].stored \subseteq lost'
    BY <1>5, <1>6
  <2> QED BY <2>1, <2>2, StoredKept DEF Inv
<1>9. row' = row
  BY DEF Crash
<1> QED BY <1>3, <1>4, <1>7, <1>8, <1>9, InvKept

---------------------------------------------------------------------------
\* A run begins and ends.

\* A job that held nothing is over.
LEMMA IdleJobEnds ==
  ASSUME Inv, NEW m \in Monitors, job[m] # None, job[m].stored = {},
         job' = [job EXCEPT ![m] = None], UNCHANGED <<position, handed, scored, lost>>
  PROVE  StoredIsHandedOn'
<1>1. \A n \in Monitors : job[n] # None /\ n # m => job'[n] = job[n]
  BY JobMoves DEF Inv
<1>2. \A n \in Monitors : job[n] # None =>
        (job'[n] # None /\ job[n].stored \subseteq job'[n].stored) \/ job[n].stored \subseteq lost'
  BY <1>1
<1> QED BY <1>2, StoredKept DEF Inv

LEMMA SkipFullKeeps ==
  ASSUME Inv, NEW m \in Monitors, SkipFull(m)
  PROVE  Inv'
<1>1. TypeOK /\ job[m].stored = {} /\ job[m] # None /\ job' = [job EXCEPT ![m] = None]
  BY DEF Inv, SkipFull, JobSound
<1>2. job' \in [Monitors -> RepliesJobs \cup {None}]
  BY <1>1, JobMoves
<1>3. TypeOK'
  BY <1>1, <1>2 DEF SkipFull, TypeOK
<1>4. StoredIsHandedOn' /\ row' = row
  BY <1>1, IdleJobEnds DEF SkipFull
<1> QED BY <1>1, <1>3, <1>4, InvKept

\* A row whose reading the month's cap stops stays a sound row.
LEMMA RefusedRow ==
  ASSUME NEW r \in Rows, r.stopped = None
  PROVE  /\ [r EXCEPT !.stopped = "budget"] \in Rows
         /\ RowSound(r) => RowSound([r EXCEPT !.stopped = "budget"])
<1>1. [r EXCEPT !.stopped = "budget"] \in Rows
  BY DEF Rows, Stops
<1>2. None # "threshold"
  BY Limits DEF Stops
<1>3. RowSound(r) => RowSound([r EXCEPT !.stopped = "budget"])
  BY <1>2 DEF Rows, RowSound
<1> QED BY <1>1, <1>3

LEMMA RefuseAtCapKeeps ==
  ASSUME Inv, NEW m \in Monitors, RefuseAtCap(m)
  PROVE  Inv'
<1>1. TypeOK /\ job[m].stored = {} /\ job[m] # None /\ job' = [job EXCEPT ![m] = None]
  BY DEF Inv, RefuseAtCap, JobSound
<1>2. job' \in [Monitors -> RepliesJobs \cup {None}]
  BY <1>1, JobMoves
<1>3. ASSUME NEW t \in Threads PROVE row'[t] \in Rows /\ (RowSound(row[t]) => RowSound(row'[t]))
  <2>1. row[t] \in Rows
    BY <1>1 DEF TypeOK
  <2>2. row'[t] = row[t] \/ (row[t].stopped = None /\ row'[t] = [row[t] EXCEPT !.stopped = "budget"])
    BY DEF RefuseAtCap
  <2> QED BY <2>1, <2>2, RefusedRow
<1>4. row' \in [Threads -> Rows]
  BY <1>3 DEF RefuseAtCap
<1>5. TypeOK'
  BY <1>1, <1>2, <1>4 DEF RefuseAtCap, TypeOK
<1>6. StoredIsHandedOn'
  BY <1>1, IdleJobEnds DEF RefuseAtCap
<1> QED BY <1>1, <1>3, <1>5, <1>6, InvKept

\* A run goes on with what it stored, and nothing else changes.
LEMMA RunGoesOn ==
  ASSUME Inv, NEW m \in Monitors, job[m] # None, NEW j \in RepliesJobs,
         job' = [job EXCEPT ![m] = j], JobSound(j), j.stored = job[m].stored,
         UNCHANGED <<faults, said, position, handed, scored, leads, lost, crashes>>,
         row' \in [Threads -> Rows], \A t \in Threads : RowSound(row[t]) => RowSound(row'[t]),
         walked' \in [Threads -> SUBSET Comments], again' \subseteq Threads
  PROVE  Inv'
<1>1. TypeOK /\ j # None
  BY JobParts DEF Inv
<1>2. job' \in [Monitors -> RepliesJobs \cup {None}] /\ job'[m] = j /\ \A n \in Monitors : n # m => job'[n] = job[n]
  BY <1>1, JobMoves
<1>3. TypeOK'
  BY <1>1, <1>2 DEF TypeOK
<1>4. \A n \in Monitors : job[n] # None => job'[n] # None /\ job[n].stored \subseteq job'[n].stored
  BY <1>1, <1>2
<1>5. StoredIsHandedOn'
  BY <1>4, StoredKept DEF Inv
<1> QED BY <1>3, <1>5, InvKept

\* The rows and the walks are as they were.
LEMMA RowsAreTyped ==
  ASSUME Inv, UNCHANGED <<row, walked, again>>
  PROVE  /\ row' \in [Threads -> Rows] /\ \A t \in Threads : RowSound(row[t]) => RowSound(row'[t])
         /\ walked' \in [Threads -> SUBSET Comments] /\ again' \subseteq Threads
BY DEF Inv, TypeOK

LEMMA StartKeeps ==
  ASSUME Inv, NEW m \in Monitors, Start(m)
  PROVE  Inv'
<1> DEFINE j == [job[m] EXCEPT !.pc = "threads", !.todo = job[m].ids, !.seen = row]
<1>1. TypeOK /\ job[m] # None /\ job[m] \in RepliesJobs /\ row \in [Threads -> Rows]
  BY JobAt DEF Inv, Start, TypeOK
<1>2. j \in RepliesJobs
  BY <1>1 DEF RepliesJobs
<1>3. j.pc = "threads" /\ j.seen = row /\ j.stored = job[m].stored
  BY <1>1 DEF RepliesJobs
<1>4. job' = [job EXCEPT ![m] = j]
  BY DEF Start
<1> HIDE DEF j
<1>5. JobSound(j)
  BY <1>1, <1>3 DEF JobSound, Inv
<1>6. Inv'
  BY <1>1, <1>2, <1>3, <1>4, <1>5, RunGoesOn, RowsAreTyped DEF Start
<1> QED BY <1>6

---------------------------------------------------------------------------
\* One thread of a run.

\* A run that goes past a thread.
PastOf(j, t) == [j EXCEPT !.todo = j.todo \ {t}]

LEMMA PastIs ==
  ASSUME NEW j \in RepliesJobs, NEW t \in Threads
  PROVE  /\ PastOf(j, t) \in RepliesJobs
         /\ PastOf(j, t).pc = j.pc /\ PastOf(j, t).todo = j.todo \ {t} /\ PastOf(j, t).seen = j.seen
         /\ PastOf(j, t).stored = j.stored /\ PastOf(j, t).thread = j.thread /\ PastOf(j, t).read = j.read
<1>1. j.todo \ {t} \in SUBSET Threads
  BY JobParts
<1> QED BY <1>1 DEF PastOf, RepliesJobs

\* The run between two threads, and the thread it comes to.
LEMMA AtIs ==
  ASSUME Inv, NEW m \in Monitors, NEW t \in Threads, At(m, t)
  PROVE  /\ job[m] # None /\ job[m] \in RepliesJobs /\ job[m].pc = "threads" /\ t \in job[m].todo
         /\ JobSound(job[m]) /\ job[m].seen[t] \in Rows /\ RowSound(job[m].seen[t])
         /\ Done(m, t) = [job EXCEPT ![m] = PastOf(job[m], t)]
         /\ JobSound(PastOf(job[m], t))
<1>1. job[m] # None /\ job[m].pc = "threads" /\ t \in job[m].todo
  BY DEF At
<1>2. job[m] \in RepliesJobs /\ JobSound(job[m]) /\ job[m].seen[t] \in Rows /\ RowSound(job[m].seen[t])
  BY <1>1, JobAt, SeenIs DEF Inv
<1>3. Done(m, t) = [job EXCEPT ![m] = PastOf(job[m], t)]
  BY DEF Done, PastOf
<1>4. JobSound(PastOf(job[m], t))
  BY <1>1, <1>2, PastIs DEF JobSound
<1> QED BY <1>1, <1>2, <1>3, <1>4

LEMMA SkipThreadKeeps ==
  ASSUME Inv, NEW m \in Monitors, NEW t \in Threads, SkipThread(m, t)
  PROVE  Inv'
<1>1. At(m, t) /\ job' = Done(m, t)
  BY DEF SkipThread
<1> QED BY <1>1, AtIs, PastIs, RunGoesOn, RowsAreTyped DEF SkipThread

LEMMA SkipUnreadKeeps ==
  ASSUME Inv, NEW m \in Monitors, NEW t \in Threads, SkipUnread(m, t)
  PROVE  Inv'
<1>1. At(m, t) /\ job' = Done(m, t)
  BY DEF SkipUnread, Goes, Considered
<1> QED BY <1>1, AtIs, PastIs, RunGoesOn, RowsAreTyped DEF SkipUnread

\* The row of a thread that is closed.
Closed(r, empties, seen) ==
  [r EXCEPT !.stopped = "threshold", !.empty = empties, !.judgedTo = ReadTo(seen),
            !.stoppedAt = seen.count]

LEMMA ClosedIs ==
  ASSUME NEW r \in Rows, NEW seen \in Rows, NEW e \in 0..MaxEmpty
  PROVE  /\ Closed(r, e, seen) \in Rows
         /\ RowSound(r) => RowSound(Closed(r, e, seen))
         /\ Closed(r, e, seen).stopped = "threshold" /\ Closed(r, e, seen).stoppedAt = seen.count
         /\ Closed(r, e, seen).batchStart = r.batchStart /\ Closed(r, e, seen).cursor = r.cursor
         /\ Closed(r, e, seen).count = r.count /\ Closed(r, e, seen).readAt = r.readAt
<1>1. ReadTo(seen) \in Nat /\ seen.count \in Numbers
  BY ReadToIs, RowParts
<1>2. Closed(r, e, seen) \in Rows
  BY <1>1 DEF Closed, Rows, Stops
<1>3. /\ Closed(r, e, seen).stopped = "threshold" /\ Closed(r, e, seen).stoppedAt = seen.count
      /\ Closed(r, e, seen).batchStart = r.batchStart /\ Closed(r, e, seen).cursor = r.cursor
      /\ Closed(r, e, seen).count = r.count /\ Closed(r, e, seen).readAt = r.readAt
  BY DEF Closed, Rows
<1>4. None # "threshold"
  BY Limits DEF Stops
<1>5. RowSound(r) => RowSound(Closed(r, e, seen))
  BY <1>3, <1>4 DEF RowSound
<1> QED BY <1>2, <1>3, <1>5

\* What closing a thread does.
LEMMA Closes ==
  ASSUME Inv, NEW m \in Monitors, NEW t \in Threads, CloseThread(m, t)
  PROVE  /\ At(m, t) /\ ~Ended(job[m].seen[t]) /\ JudgedEmpty(m, t, job[m].seen[t])
         /\ job' = [job EXCEPT ![m] = PastOf(job[m], t)]
         /\ \E e \in 0..MaxEmpty : row' = [row EXCEPT ![t] = Closed(row[t], e, job[m].seen[t])]
<1> DEFINE seen == job[m].seen[t]
<1>1. At(m, t) /\ ~Ended(seen) /\ JudgedEmpty(m, t, seen)
  BY DEF CloseThread, Considered
<1>2. seen \in Rows /\ RowSound(seen) /\ job' = [job EXCEPT ![m] = PastOf(job[m], t)]
  BY <1>1, AtIs DEF CloseThread
<1>3. Empties(m, t, seen) \in 0..MaxEmpty
  BY <1>1, <1>2, EmptiesIs
<1>4. row' = [row EXCEPT ![t] = Closed(row[t], Empties(m, t, seen), seen)]
  BY DEF CloseThread, Closed
<1> QED BY <1>1, <1>2, <1>3, <1>4

LEMMA CloseThreadKeeps ==
  ASSUME Inv, NEW m \in Monitors, NEW t \in Threads, CloseThread(m, t)
  PROVE  Inv'
<1>1. /\ At(m, t) /\ job' = [job EXCEPT ![m] = PastOf(job[m], t)]
      /\ \E e \in 0..MaxEmpty : row' = [row EXCEPT ![t] = Closed(row[t], e, job[m].seen[t])]
  BY Closes
<1>2. PICK e \in 0..MaxEmpty : row' = [row EXCEPT ![t] = Closed(row[t], e, job[m].seen[t])]
  BY <1>1
<1>3. row \in [Threads -> Rows] /\ job[m].seen[t] \in Rows
  BY <1>1, AtIs DEF Inv, TypeOK
<1>4. row[t] \in Rows
  BY <1>3
<1>5. Closed(row[t], e, job[m].seen[t]) \in Rows /\ (RowSound(row[t]) => RowSound(Closed(row[t], e, job[m].seen[t])))
  BY <1>3, <1>4, ClosedIs
<1>6. row' \in [Threads -> Rows] /\ \A u \in Threads : RowSound(row[u]) => RowSound(row'[u])
  BY <1>2, <1>3, <1>5
<1>7. UNCHANGED <<faults, said, position, handed, scored, leads, walked, again, lost, crashes>>
  BY DEF CloseThread
<1>8. walked' \in [Threads -> SUBSET Comments] /\ again' \subseteq Threads
  BY <1>7 DEF Inv, TypeOK
<1>9. job[m] # None /\ job[m] \in RepliesJobs /\ JobSound(PastOf(job[m], t))
  BY <1>1, AtIs
<1>10. PastOf(job[m], t) \in RepliesJobs /\ PastOf(job[m], t).stored = job[m].stored
  BY <1>9, PastIs
<1> QED BY <1>1, <1>6, <1>7, <1>8, <1>9, <1>10, RunGoesOn

\* The batch a thread is opened with.
Opened(m, t, seen) ==
  [offset |-> ReadTo(seen), cursor |-> Place(seen), pages |-> 0, got |-> 0,
   partial |-> TRUE, ended |-> FALSE, want |-> Want(seen), readAt |-> said[t],
   since |-> IF FirstBatch(seen) /\ seen.readAt # None THEN seen.readAt ELSE 0,
   empty |-> Empties(m, t, seen), items |-> {}]

\* What opening a thread does.
LEMMA Opens ==
  ASSUME Inv, NEW m \in Monitors, NEW t \in Threads, OpenThread(m, t)
  PROVE  /\ At(m, t) /\ ~Ended(job[m].seen[t])
         /\ Opened(m, t, job[m].seen[t]) \in Batches
         /\ BatchSound(Opened(m, t, job[m].seen[t]), job[m].seen[t])
         /\ job' = [job EXCEPT ![m] =
              [job[m] EXCEPT !.pc = "page", !.thread = t, !.read = Opened(m, t, job[m].seen[t])]]
<1> DEFINE seen == job[m].seen[t]
           read == Opened(m, t, seen)
<1>1. At(m, t) /\ ~Ended(seen) /\ ~JudgedEmpty(m, t, seen)
  BY DEF OpenThread, Goes, Considered
<1>2. seen \in Rows /\ RowSound(seen)
  BY <1>1, AtIs
<1>3. Empties(m, t, seen) \in 0..MaxEmpty /\ Empties(m, t, seen) < MaxEmpty
  BY <1>1, <1>2, EmptiesIs
<1>4. ReadTo(seen) \in Nat /\ ReadTo(seen) < Ceiling /\ Want(seen) \in Nat
  BY <1>1, <1>2, ReadToIs, RoomIsLeft
<1>5. said[t] \in Nat
  BY Limits DEF Inv, TypeOK
<1>6. Place(seen) \in Comments \cup {None} /\ (IF FirstBatch(seen) /\ seen.readAt # None THEN seen.readAt ELSE 0) \in Nat
  BY <1>2, RowParts DEF Place, Numbers
<1>7. /\ read.offset = ReadTo(seen) /\ read.got = 0 /\ read.want = Want(seen)
      /\ read.empty = Empties(m, t, seen)
  BY DEF Opened
<1>8. read \in Batches
  BY <1>3, <1>4, <1>5, <1>6 DEF Opened, Batches
<1>9. BatchSound(read, seen)
  BY <1>3, <1>4, <1>7, Limits DEF BatchSound
<1>10. job' = [job EXCEPT ![m] = [job[m] EXCEPT !.pc = "page", !.thread = t, !.read = read]]
  BY DEF OpenThread, Opened
<1> QED BY <1>1, <1>8, <1>9, <1>10

LEMMA OpenThreadKeeps ==
  ASSUME Inv, NEW m \in Monitors, NEW t \in Threads, OpenThread(m, t)
  PROVE  Inv'
<1> DEFINE read == Opened(m, t, job[m].seen[t])
           j == [job[m] EXCEPT !.pc = "page", !.thread = t, !.read = read]
<1>1. At(m, t) /\ read \in Batches /\ BatchSound(read, job[m].seen[t]) /\ job' = [job EXCEPT ![m] = j]
  BY Opens
<1>2. /\ job[m] # None /\ job[m] \in RepliesJobs /\ JobSound(job[m])
      /\ job[m].pc = "threads" /\ t \in job[m].todo
  BY <1>1, AtIs
<1> HIDE DEF read
<1>3. j \in RepliesJobs
  BY <1>1, <1>2 DEF RepliesJobs
<1>4. /\ j.pc = "page" /\ j.thread = t /\ j.read = read /\ j.seen = job[m].seen
      /\ j.stored = job[m].stored /\ j.todo = job[m].todo
  BY <1>2 DEF RepliesJobs
<1> HIDE DEF j
<1>5. JobSound(j)
  BY <1>1, <1>2, <1>4 DEF JobSound
<1> QED BY <1>1, <1>2, <1>3, <1>4, <1>5, RunGoesOn, RowsAreTyped DEF OpenThread

---------------------------------------------------------------------------
\* A page.

\* The comments a page holds, and those of them that are newer than the window.
ItemsOf(from, size) == (from - Lower(size, from) + 1)..from
KeptOf(read, from, size) == {c \in ItemsOf(from, size) : c > read.since}

\* Where a page begins.
FromOf(read, n) == IF read.cursor = None THEN n ELSE read.cursor

\* The batch after a page, and the run that holds it.
BoughtOf(read, from, size, ready) ==
  [read EXCEPT
     !.pages = read.pages + 1, !.partial = ready,
     !.offset = read.offset + Cardinality(ItemsOf(from, size)),
     !.got = read.got + Cardinality(ItemsOf(from, size)),
     !.items = read.items \cup ItemsOf(from, size),
     !.ended = ~ready \/ KeptOf(read, from, size) = {},
     !.cursor = IF ready /\ KeptOf(read, from, size) # {} THEN from - size ELSE read.cursor]
HoldsOf(j, from, size, ready) ==
  [j EXCEPT !.stored = Held(j.stored, {<<j.thread, c>> : c \in KeptOf(j.read, from, size)}),
            !.read = BoughtOf(j.read, from, size, ready)]

\* A page holds no more comments than it may.
LEMMA ItemsAre ==
  ASSUME NEW from \in 0..MaxComments, NEW size \in PageSizes
  PROVE  /\ ItemsOf(from, size) \in SUBSET Comments
         /\ \A c \in ItemsOf(from, size) : c \in Nat /\ c <= from
         /\ Cardinality(ItemsOf(from, size)) \in Nat /\ Cardinality(ItemsOf(from, size)) <= size
         /\ from > size => /\ Cardinality(ItemsOf(from, size)) = size
                           /\ ItemsOf(from, size) = (from - size + 1)..from
<1> DEFINE low == from - Lower(size, from) + 1
<1>1. size \in Nat \ {0} /\ from \in Nat /\ from <= MaxComments
  BY Limits
<1>2. Lower(size, from) \in Nat /\ Lower(size, from) <= size /\ Lower(size, from) <= from
      /\ (from > size => Lower(size, from) = size)
  BY <1>1 DEF Lower
<1>3. low \in Int /\ low >= 1 /\ from - low + 1 = Lower(size, from)
  BY <1>1, <1>2
<1>4. ItemsOf(from, size) = low..from
  BY DEF ItemsOf
<1> HIDE DEF low
<1>5. Cardinality(low..from) = IF low > from THEN 0 ELSE from - low + 1
  <2>1. from \in Int
    BY <1>1
  <2> QED BY <2>1, <1>3, FS_Interval, Zenon
<1>6. Cardinality(low..from) = Lower(size, from)
  BY <1>1, <1>2, <1>3, <1>5
<1>7. low..from \in SUBSET Comments /\ \A c \in low..from : c \in Nat /\ c <= from
  BY <1>1, <1>3, Limits DEF Comments
<1>8. from > size => low = from - size + 1
  BY <1>1, <1>2 DEF low
<1> QED BY <1>2, <1>4, <1>6, <1>7, <1>8

\* What buying a page does.
LEMMA Buys ==
  ASSUME Inv, NEW m \in Monitors, NEW size \in PageSizes, NEW stops \in BOOLEAN, Page(m, size, stops)
  PROVE  LET t == job[m].thread
             read == job[m].read
             from == FromOf(read, said[t]) IN
         /\ job[m] # None /\ job[m] \in RepliesJobs /\ JobSound(job[m]) /\ job[m].pc = "page"
         /\ t \in job[m].todo /\ t \in Threads /\ read \in Batches
         /\ job[m].seen[t] \in Rows /\ RowSound(job[m].seen[t]) /\ BatchSound(read, job[m].seen[t])
         /\ ~BatchEnds(read) /\ from \in 0..MaxComments
         /\ \E ready \in BOOLEAN :
              /\ ready => from > size
              /\ ~ready /\ from > size => \E c \in ItemsOf(from, size) : c <= read.since
              /\ job' = [job EXCEPT ![m] = HoldsOf(job[m], from, size, ready)]
         /\ position' = [r \in Replies |->
              IF r[1] = t /\ r[2] \in KeptOf(read, from, size) /\ position[r] = None
              THEN Position(read, from, r[2]) ELSE position[r]]
<1> DEFINE t == job[m].thread
           read == job[m].read
           from == FromOf(read, said[t])
           ready == More(from, size) /\ ~(stops /\ More(from, size) /\ \E c \in ItemsOf(from, size) : c <= read.since)
<1>1. job[m] # None /\ job[m].pc = "page" /\ ~BatchEnds(read)
  BY DEF Page, Reading
<1>2. job[m] \in RepliesJobs /\ JobSound(job[m])
  BY <1>1, JobAt DEF Inv
<1>3. t \in job[m].todo /\ read \in Batches /\ BatchSound(read, job[m].seen[t])
  BY <1>1, <1>2 DEF JobSound
<1>4. t \in Threads
  BY <1>2, <1>3, JobParts
<1>5. job[m].seen[t] \in Rows /\ RowSound(job[m].seen[t])
  BY <1>1, <1>4, SeenIs
<1>6. from \in 0..MaxComments
  <2>1. said[t] \in 0..MaxComments
    BY <1>4 DEF Inv, TypeOK
  <2>2. read.cursor \in Comments \cup {None}
    BY <1>3, ReadParts
  <2> QED BY <2>1, <2>2, Limits DEF FromOf, Comments
<1>7. job' = [job EXCEPT ![m] = HoldsOf(job[m], from, size, ready)]
  BY DEF Page, HoldsOf, BoughtOf, KeptOf, ItemsOf, FromOf
<1>8. position' = [r \in Replies |->
        IF r[1] = t /\ r[2] \in KeptOf(read, from, size) /\ position[r] = None
        THEN Position(read, from, r[2]) ELSE position[r]]
  BY DEF Page, KeptOf, ItemsOf, FromOf
<1>9. ready => from > size
  BY DEF More
<1>10. ~ready /\ from > size => \E c \in ItemsOf(from, size) : c <= read.since
  BY DEF More
<1>11. ready \in BOOLEAN
  OBVIOUS
<1> HIDE DEF ready
<1> QED BY <1>1, <1>2, <1>3, <1>4, <1>5, <1>6, <1>7, <1>8, <1>9, <1>10, <1>11

\* A batch that goes on is a batch.
LEMMA BoughtIs ==
  ASSUME NEW read \in Batches, NEW from \in 0..MaxComments, NEW size \in PageSizes,
         NEW ready \in BOOLEAN, ready => from > size
  PROVE  LET new == BoughtOf(read, from, size, ready) IN
         /\ new \in Batches
         /\ new.pages = read.pages + 1 /\ new.partial = ready
         /\ new.offset = read.offset + Cardinality(ItemsOf(from, size))
         /\ new.got = read.got + Cardinality(ItemsOf(from, size))
         /\ new.items = read.items \cup ItemsOf(from, size)
         /\ new.ended <=> (~ready \/ KeptOf(read, from, size) = {})
         /\ new.cursor = (IF ready /\ KeptOf(read, from, size) # {} THEN from - size ELSE read.cursor)
         /\ new.want = read.want /\ new.empty = read.empty /\ new.since = read.since
         /\ new.readAt = read.readAt
<1> DEFINE items == ItemsOf(from, size)
           ended == ~ready \/ KeptOf(read, from, size) = {}
           cursor == IF ready /\ KeptOf(read, from, size) # {} THEN from - size ELSE read.cursor
           n == Cardinality(items)
<1>1. items \in SUBSET Comments /\ n \in Nat
  BY ItemsAre
<1>2. cursor \in Comments \cup {None}
  <2>1. read.cursor \in Comments \cup {None}
    BY ReadParts
  <2>2. ready => from - size \in Comments
    BY Limits DEF Comments
  <2> QED BY <2>1, <2>2
<1>3. ended \in BOOLEAN
  OBVIOUS
<1>4. BoughtOf(read, from, size, ready) =
        [read EXCEPT !.pages = read.pages + 1, !.partial = ready, !.offset = read.offset + n,
           !.got = read.got + n, !.items = read.items \cup items, !.ended = ended, !.cursor = cursor]
  BY DEF BoughtOf
<1> HIDE DEF items, ended, cursor, n
<1>5. BoughtOf(read, from, size, ready) \in Batches
  <2>1. read.pages + 1 \in Nat /\ read.offset + n \in Nat /\ read.got + n \in Nat /\ read.items \cup items \in SUBSET Comments
    BY <1>1, ReadParts
  <2> QED BY <1>2, <1>3, <1>4, <2>1 DEF Batches
<1>6. LET new == BoughtOf(read, from, size, ready) IN
      /\ new.pages = read.pages + 1 /\ new.partial = ready /\ new.offset = read.offset + n
      /\ new.got = read.got + n /\ new.items = read.items \cup items /\ new.ended = ended
      /\ new.cursor = cursor /\ new.want = read.want /\ new.empty = read.empty /\ new.since = read.since
      /\ new.readAt = read.readAt
  BY <1>4 DEF Batches
<1> QED BY <1>5, <1>6 DEF items, ended, cursor, n

\* A run that holds another page.
LEMMA HoldsIs ==
  ASSUME NEW j \in RepliesJobs, j.thread \in Threads, j.read \in Batches,
         NEW from \in 0..MaxComments, NEW size \in PageSizes,
         NEW ready \in BOOLEAN, ready => from > size
  PROVE  LET new == HoldsOf(j, from, size, ready) IN
         /\ new \in RepliesJobs /\ new.pc = j.pc /\ new.todo = j.todo /\ new.seen = j.seen
         /\ new.thread = j.thread /\ new.read = BoughtOf(j.read, from, size, ready)
         /\ new.stored = j.stored \cup {<<j.thread, c>> : c \in KeptOf(j.read, from, size)}
<1> DEFINE more == {<<j.thread, c>> : c \in KeptOf(j.read, from, size)}
           read == BoughtOf(j.read, from, size, ready)
<1>1. KeptOf(j.read, from, size) \subseteq Comments
  BY ItemsAre DEF KeptOf
<1>2. more \in SUBSET Replies
  BY <1>1 DEF Replies
<1>3. read \in Batches
  BY BoughtIs
<1>4. HoldsOf(j, from, size, ready) = [j EXCEPT !.stored = j.stored \cup more, !.read = read]
  BY DEF HoldsOf, Held
<1> HIDE DEF more, read
<1>5. HoldsOf(j, from, size, ready) \in RepliesJobs
  BY <1>2, <1>3, <1>4 DEF RepliesJobs
<1>6. LET new == HoldsOf(j, from, size, ready) IN
      /\ new.pc = j.pc /\ new.todo = j.todo /\ new.seen = j.seen /\ new.thread = j.thread
      /\ new.read = read /\ new.stored = j.stored \cup more
  BY <1>4 DEF RepliesJobs
<1> QED BY <1>5, <1>6 DEF more, read

LEMMA PageKeeps ==
  ASSUME Inv, NEW m \in Monitors, NEW size \in PageSizes, NEW stops \in BOOLEAN, Page(m, size, stops)
  PROVE  Inv'
<1> DEFINE t == job[m].thread
           read == job[m].read
           seen == job[m].seen[t]
           from == FromOf(read, said[t])
           kept == KeptOf(read, from, size)
           n == Cardinality(ItemsOf(from, size))
<1>1. /\ job[m] # None /\ job[m] \in RepliesJobs /\ JobSound(job[m]) /\ job[m].pc = "page"
      /\ t \in job[m].todo /\ t \in Threads /\ read \in Batches
      /\ seen \in Rows /\ RowSound(seen) /\ BatchSound(read, seen)
      /\ ~BatchEnds(read) /\ from \in 0..MaxComments
      /\ \E ready \in BOOLEAN : /\ ready => from > size
                                /\ job' = [job EXCEPT ![m] = HoldsOf(job[m], from, size, ready)]
      /\ position' = [r \in Replies |->
              IF r[1] = t /\ r[2] \in kept /\ position[r] = None
              THEN Position(read, from, r[2]) ELSE position[r]]
  BY Buys
<1>2. PICK ready \in BOOLEAN : /\ ready => from > size
                               /\ job' = [job EXCEPT ![m] = HoldsOf(job[m], from, size, ready)]
  BY <1>1
<1> DEFINE new == HoldsOf(job[m], from, size, ready)
           next == BoughtOf(read, from, size, ready)
<1>3. /\ new \in RepliesJobs /\ new.pc = "page" /\ new.todo = job[m].todo /\ new.seen = job[m].seen
      /\ new.thread = t /\ new.read = next
      /\ new.stored = job[m].stored \cup {<<t, c>> : c \in kept}
  BY <1>1, <1>2, HoldsIs
<1>4. /\ next \in Batches /\ next.offset = read.offset + n /\ next.got = read.got + n
      /\ next.want = read.want /\ next.empty = read.empty
  BY <1>1, <1>2, BoughtIs
<1>5. n \in Nat /\ n <= Widest /\ kept \subseteq Comments /\ \A c \in kept : c \in Nat /\ c <= from
  <2>1. n \in Nat /\ n <= size
    BY <1>1, ItemsAre
  <2>2. size \in Nat /\ size <= Widest /\ Widest \in Nat
    BY Limits
  <2>3. kept \subseteq Comments /\ \A c \in kept : c \in Nat /\ c <= from
    BY <1>1, ItemsAre DEF KeptOf
  <2> QED BY <2>1, <2>2, <2>3
<1>6. BatchSound(next, seen)
  <2>1. /\ read.offset = ReadTo(seen) + read.got /\ ReadTo(seen) < Ceiling
        /\ read.want = Want(seen) /\ read.empty < MaxEmpty
    BY <1>1 DEF BatchSound
  <2>2. ~(read.got >= read.want)
    BY <1>1 DEF BatchEnds
  <2>3. ReadTo(seen) \in Nat /\ read.got \in Nat /\ Want(seen) \in Nat
    BY <1>1, ReadToIs, ReadParts, <2>1
  <2>4. Want(seen) <= Ceiling - ReadTo(seen)
    BY <2>1, <2>3, Limits DEF Want, RoomLeft, Lower
  <2>5. read.offset + n < Ceiling + Widest
    <3> HIDE DEF n, seen, read
    <3> QED BY <2>1, <2>2, <2>3, <2>4, <1>5, Limits
  <2>6. next.offset = ReadTo(seen) + next.got
    <3> HIDE DEF n, seen, read, next
    <3> QED BY <2>1, <2>3, <1>4, <1>5
  <2> HIDE DEF n, seen, read, next
  <2> QED BY <2>1, <2>5, <2>6, <1>4 DEF BatchSound
<1>7. JobSound(new)
  <2> HIDE DEF new, next
  <2>1. seen = new.seen[t] /\ new.seen \in [Threads -> Rows] /\ \A u \in Threads : RowSound(new.seen[u])
    BY <1>1, <1>3 DEF JobSound
  <2> HIDE DEF seen, t
  <2> QED BY <1>1, <1>3, <1>4, <1>6, <2>1 DEF JobSound
<1>8. position' \in [Replies -> Numbers]
  <2>1. \A c \in kept : Position(read, from, c) \in Nat
    <3>1. read.offset \in Nat /\ from \in Nat
      BY <1>1, ReadParts
    <3> HIDE DEF read, from, kept
    <3> QED BY <3>1, <1>5 DEF Position
  <2>2. position \in [Replies -> Numbers]
    BY DEF Inv, TypeOK
  <2> HIDE DEF read, from, kept, t
  <2> QED BY <1>1, <2>1, <2>2 DEF Numbers
<1> HIDE DEF new, next
<1>9. TypeOK /\ new # None
  BY <1>3, JobParts DEF Inv
<1>10. job' \in [Monitors -> RepliesJobs \cup {None}] /\ job'[m] = new /\ \A k \in Monitors : k # m => job'[k] = job[k]
  BY <1>2, <1>3, <1>9, JobMoves DEF new
<1>11. UNCHANGED <<faults, said, row, handed, scored, leads, walked, again, lost, crashes>>
  BY DEF Page
<1>12. TypeOK'
  BY <1>8, <1>9, <1>10, <1>11 DEF TypeOK
<1>13. StoredIsHandedOn'
  <2>1. \A k \in Monitors : job[k] # None => job'[k] # None /\ job[k].stored \subseteq job'[k].stored
    BY <1>3, <1>9, <1>10
  <2>2. ASSUME NEW r \in Replies, position'[r] # None, position[r] = None
        PROVE  job'[m] # None /\ r \in job'[m].stored
    <3>1. r[1] = t /\ r[2] \in kept
      BY <2>2, <1>1
    <3>2. r = <<t, r[2]>>
      BY <3>1 DEF Replies
    <3> HIDE DEF kept, t
    <3> QED BY <3>1, <3>2, <1>3, <1>9, <1>10
  <2>3. \A r \in Replies : position'[r] # None =>
           position[r] # None \/ \E k \in Monitors : job'[k] # None /\ r \in job'[k].stored
    BY <2>2
  <2> QED BY <2>1, <2>3, <1>11, StoredKept DEF Inv
<1>14. job' = [job EXCEPT ![m] = new] /\ row' = row
  BY <1>2, <1>11 DEF new
<1> QED BY <1>3, <1>7, <1>12, <1>13, <1>14, InvKept

---------------------------------------------------------------------------
\* A batch is recorded, and a run ends.

\* The row after a batch, and the run that goes on.
RecordedOf(r, read, seen) ==
  [r EXCEPT !.partial = read.partial,
            !.readAt = IF FirstBatch(seen) THEN read.readAt ELSE r.readAt,
            !.cursor = read.cursor, !.batchStart = read.offset,
            !.judgedTo = ReadTo(seen), !.empty = read.empty,
            !.stopped = StopReason(read),
            !.stoppedAt = IF StopReason(read) = None THEN r.stoppedAt ELSE seen.count]
ReadOf(j, t) ==
  [j EXCEPT !.pc = "threads", !.thread = None, !.read = None,
            !.todo = j.todo \ {t}, !.opened = j.opened + 1]

LEMMA RecordedIs ==
  ASSUME NEW r \in Rows, NEW read \in Batches, NEW seen \in Rows, BatchSound(read, seen)
  PROVE  LET new == RecordedOf(r, read, seen) IN
         /\ new \in Rows /\ RowSound(new)
         /\ new.cursor = read.cursor /\ new.batchStart = read.offset /\ new.stopped = StopReason(read)
         /\ new.stoppedAt = (IF StopReason(read) = None THEN r.stoppedAt ELSE seen.count)
         /\ new.count = r.count
<1> DEFINE new == RecordedOf(r, read, seen)
           readAt == IF FirstBatch(seen) THEN read.readAt ELSE r.readAt
           stopped == StopReason(read)
           stoppedAt == IF stopped = None THEN r.stoppedAt ELSE seen.count
<1>1. /\ read.offset \in Nat /\ read.cursor \in Comments \cup {None} /\ read.partial \in BOOLEAN
      /\ read.empty \in 0..MaxEmpty
  BY ReadParts
<1>2. readAt \in Numbers
  BY RowParts, ReadParts DEF Numbers
<1>3. stopped \in {"end", "ceiling", None} /\ (stopped = None => ~(read.offset >= Ceiling))
  BY Limits DEF StopReason, Stops
<1>4. stoppedAt \in Numbers /\ ReadTo(seen) \in Nat
  BY RowParts, ReadToIs
<1>5. new = [r EXCEPT !.partial = read.partial, !.readAt = readAt, !.cursor = read.cursor,
               !.batchStart = read.offset, !.judgedTo = ReadTo(seen), !.empty = read.empty,
               !.stopped = stopped, !.stoppedAt = stoppedAt]
  BY DEF RecordedOf
<1> HIDE DEF new, readAt, stopped, stoppedAt
<1>6. new \in Rows
  BY <1>1, <1>2, <1>3, <1>4, <1>5 DEF Rows, Numbers, Stops
<1>7. /\ new.cursor = read.cursor /\ new.batchStart = read.offset /\ new.stopped = stopped
      /\ new.stoppedAt = stoppedAt /\ new.count = r.count /\ new.empty = read.empty
  BY <1>5 DEF Rows
<1>8. RowSound(new)
  <2>1. read.empty < MaxEmpty /\ read.offset < Ceiling + Widest
    BY DEF BatchSound
  <2>2. read.empty # MaxEmpty
    BY <2>1, <1>1, Limits
  <2>3. stopped = "end" \/ stopped = "ceiling" => stopped \notin {None, "budget"}
    BY Limits DEF Stops
  <2> QED BY <2>1, <2>2, <2>3, <1>3, <1>7 DEF RowSound
<1> QED BY <1>6, <1>7, <1>8 DEF new, stopped, stoppedAt

LEMMA ReadOfIs ==
  ASSUME NEW j \in RepliesJobs, NEW t \in Threads
  PROVE  LET new == ReadOf(j, t) IN
         /\ new \in RepliesJobs /\ new.pc = "threads" /\ new.todo = j.todo \ {t}
         /\ new.seen = j.seen /\ new.stored = j.stored
<1>1. j.opened + 1 \in Nat /\ j.todo \ {t} \in SUBSET Threads
  BY JobParts
<1> QED BY <1>1 DEF ReadOf, RepliesJobs

\* What recording a batch does.
LEMMA Records ==
  ASSUME Inv, NEW m \in Monitors, Record(m)
  PROVE  LET t == job[m].thread
             read == job[m].read
             seen == job[m].seen[t] IN
         /\ job[m] # None /\ job[m] \in RepliesJobs /\ JobSound(job[m]) /\ job[m].pc = "page"
         /\ t \in job[m].todo /\ t \in Threads /\ read \in Batches
         /\ seen \in Rows /\ RowSound(seen) /\ BatchSound(read, seen)
         /\ BatchEnds(read) \/ read.pages > 0
         /\ job' = [job EXCEPT ![m] = ReadOf(job[m], t)]
         /\ row' = [row EXCEPT ![t] = RecordedOf(row[t], read, seen)]
         /\ walked' = [walked EXCEPT ![t] = read.items \cup (IF FirstBatch(seen) THEN {} ELSE walked[t])]
         /\ again' = IF seen.stoppedAt = None /\ read.items \cap walked[t] # {}
                     THEN again \cup {t} ELSE again
<1> DEFINE t == job[m].thread
           read == job[m].read
           seen == job[m].seen[t]
<1>1. job[m] # None /\ job[m].pc = "page" /\ (BatchEnds(read) \/ read.pages > 0)
  BY DEF Record, Reading
<1>2. job[m] \in RepliesJobs /\ JobSound(job[m])
  BY <1>1, JobAt DEF Inv
<1>3. t \in job[m].todo /\ read \in Batches /\ BatchSound(read, seen)
  BY <1>1, <1>2 DEF JobSound
<1>4. t \in Threads
  BY <1>2, <1>3, JobParts
<1>5. seen \in Rows /\ RowSound(seen)
  BY <1>1, <1>4, SeenIs
<1>6. job' = [job EXCEPT ![m] = ReadOf(job[m], t)]
  BY DEF Record, ReadOf
<1>7. row' = [row EXCEPT ![t] = RecordedOf(row[t], read, seen)]
  BY DEF Record, RecordedOf
<1>8. /\ walked' = [walked EXCEPT ![t] = read.items \cup (IF FirstBatch(seen) THEN {} ELSE walked[t])]
      /\ again' = IF seen.stoppedAt = None /\ read.items \cap walked[t] # {}
                  THEN again \cup {t} ELSE again
  BY DEF Record
<1> QED BY <1>1, <1>2, <1>3, <1>4, <1>5, <1>6, <1>7, <1>8

LEMMA RecordKeeps ==
  ASSUME Inv, NEW m \in Monitors, Record(m)
  PROVE  Inv'
<1> DEFINE t == job[m].thread
           read == job[m].read
           seen == job[m].seen[t]
           new == RecordedOf(row[t], read, seen)
           j == ReadOf(job[m], t)
           been == read.items \cup (IF FirstBatch(seen) THEN {} ELSE walked[t])
<1>1. /\ job[m] # None /\ job[m] \in RepliesJobs /\ JobSound(job[m]) /\ job[m].pc = "page"
      /\ t \in Threads /\ read \in Batches /\ seen \in Rows /\ BatchSound(read, seen)
      /\ job' = [job EXCEPT ![m] = j]
      /\ row' = [row EXCEPT ![t] = new]
      /\ walked' = [walked EXCEPT ![t] = been]
      /\ again' = IF seen.stoppedAt = None /\ read.items \cap walked[t] # {}
                  THEN again \cup {t} ELSE again
  BY Records
<1>2. /\ row \in [Threads -> Rows] /\ row[t] \in Rows
      /\ walked \in [Threads -> SUBSET Comments] /\ again \subseteq Threads
  BY <1>1 DEF Inv, TypeOK
<1>3. new \in Rows /\ RowSound(new)
  BY <1>1, <1>2, RecordedIs
<1>4. /\ j \in RepliesJobs /\ j.pc = "threads" /\ j.seen = job[m].seen /\ j.stored = job[m].stored
  BY <1>1, ReadOfIs
<1>5. been \in SUBSET Comments
  BY <1>1, <1>2, ReadParts
<1>6. UNCHANGED <<faults, said, position, handed, scored, leads, lost, crashes>>
  BY DEF Record
<1> HIDE DEF new, j, been, seen, read, t
<1>7. JobSound(j)
  BY <1>1, <1>4 DEF JobSound
<1>8. row' \in [Threads -> Rows] /\ \A u \in Threads : RowSound(row[u]) => RowSound(row'[u])
  BY <1>1, <1>2, <1>3
<1>9. walked' \in [Threads -> SUBSET Comments] /\ again' \subseteq Threads
  BY <1>1, <1>2, <1>5
<1> QED BY <1>1, <1>4, <1>6, <1>7, <1>8, <1>9, RunGoesOn

LEMMA FinishKeeps ==
  ASSUME Inv, NEW m \in Monitors, Finish(m)
  PROVE  Inv'
<1>1. TypeOK /\ job[m] # None /\ job[m] \in RepliesJobs /\ job' = [job EXCEPT ![m] = None]
  BY JobAt DEF Inv, Finish
<1>2. job' \in [Monitors -> RepliesJobs \cup {None}] /\ \A n \in Monitors : n # m => job'[n] = job[n]
  BY <1>1, JobMoves
<1>3. job[m].stored \in SUBSET Replies
  BY <1>1, JobParts
<1>4. handed' = IF job[m].stored = {} THEN handed ELSE handed \cup {[monitor |-> m, replies |-> job[m].stored]}
  BY DEF Finish
<1>5. handed' \subseteq [monitor : Monitors, replies : SUBSET Replies] /\ handed \subseteq handed'
  BY <1>1, <1>3, <1>4 DEF TypeOK
<1>6. UNCHANGED <<faults, said, row, position, scored, leads, walked, again, lost, crashes>>
  BY DEF Finish
<1>7. TypeOK'
  BY <1>1, <1>2, <1>5, <1>6 DEF TypeOK
<1>8. StoredIsHandedOn'
  <2>1. job[m].stored = {} \/ \E h \in handed' : h.monitor = m /\ job[m].stored \subseteq h.replies
    <3>1. CASE job[m].stored # {}
      <4>1. [monitor |-> m, replies |-> job[m].stored] \in handed'
        BY <3>1, <1>4
      <4> QED BY <4>1
    <3> QED BY <3>1
  <2>2. \A n \in Monitors : job[n] # None =>
           \/ job'[n] # None /\ job[n].stored \subseteq job'[n].stored
           \/ job[n].stored \subseteq lost'
           \/ \E h \in handed' : h.monitor = n /\ job[n].stored \subseteq h.replies
    <3> SUFFICES ASSUME NEW n \in Monitors, job[n] # None
                 PROVE  \/ job'[n] # None /\ job[n].stored \subseteq job'[n].stored
                        \/ job[n].stored \subseteq lost'
                        \/ \E h \in handed' : h.monitor = n /\ job[n].stored \subseteq h.replies
      OBVIOUS
    <3>1. CASE n # m
      BY <3>1, <1>2
    <3>2. CASE n = m
      BY <3>2, <2>1
    <3> QED BY <3>1, <3>2
  <2> QED BY <2>2, <1>5, <1>6, StoredKept DEF Inv
<1> QED BY <1>1, <1>6, <1>7, <1>8, InvKept

---------------------------------------------------------------------------
\* The invariant.

LEMMA InitKeeps ==
  ASSUME Init
  PROVE  Inv
<1>1. Unread \in Rows /\ RowSound(Unread)
  BY Limits DEF Unread, Rows, RowSound, Numbers
<1>2. TypeOK
  BY <1>1, RepliesAssumption DEF Init, TypeOK, Numbers
<1>3. \A t \in Threads : RowSound(row[t])
  BY <1>1 DEF Init
<1>4. StoredIsHandedOn
  BY DEF Init, StoredIsHandedOn
<1>5. \A m \in Monitors : job[m] # None => JobSound(job[m])
  BY DEF Init
<1> QED BY <1>2, <1>3, <1>4, <1>5 DEF Inv

LEMMA StutterKeeps ==
  ASSUME Inv, UNCHANGED vars
  PROVE  Inv'
<1>1. row' = row /\ job' = job /\ StoredIsHandedOn' /\ TypeOK'
  BY DEF vars, Inv, TypeOK, StoredIsHandedOn
<1> QED BY <1>1 DEF Inv

\* What a step is.
LEMMA StepIs ==
  ASSUME [Next]_vars
  PROVE  \/ UNCHANGED vars
         \/ \E t \in Threads : Grow(t)
         \/ \E m \in Monitors : \E found \in SUBSET Threads : Poll(m, found)
         \/ \E m \in Monitors : \E h \in handed : \E found \in SUBSET h.replies : Score(m, h, found)
         \/ \E m \in Monitors : Crash(m) \/ SkipFull(m) \/ RefuseAtCap(m) \/ Start(m) \/ Record(m) \/ Finish(m)
         \/ \E m \in Monitors, t \in Threads :
              SkipThread(m, t) \/ CloseThread(m, t) \/ SkipUnread(m, t) \/ OpenThread(m, t)
         \/ \E m \in Monitors, size \in PageSizes, stops \in BOOLEAN : Page(m, size, stops)
BY Zenon DEF Next, Step, Scoring

LEMMA NextKeeps ==
  ASSUME Inv, [Next]_vars
  PROVE  Inv'
<1>1. CASE UNCHANGED vars
  BY <1>1, StutterKeeps
<1>2. CASE \E t \in Threads : Grow(t)
  BY <1>2, GrowKeeps
<1>3. CASE \E m \in Monitors : \E found \in SUBSET Threads : Poll(m, found)
  BY <1>3, PollKeeps
<1>4. CASE \E m \in Monitors : \E h \in handed : \E found \in SUBSET h.replies : Score(m, h, found)
  BY <1>4, ScoreKeeps
<1>5. CASE \E m \in Monitors : Crash(m) \/ SkipFull(m) \/ RefuseAtCap(m) \/ Start(m) \/ Record(m) \/ Finish(m)
  BY <1>5, CrashKeeps, SkipFullKeeps, RefuseAtCapKeeps, StartKeeps, RecordKeeps, FinishKeeps
<1>6. CASE \E m \in Monitors, t \in Threads :
             SkipThread(m, t) \/ CloseThread(m, t) \/ SkipUnread(m, t) \/ OpenThread(m, t)
  BY <1>6, SkipThreadKeeps, CloseThreadKeeps, SkipUnreadKeeps, OpenThreadKeeps
<1>7. CASE \E m \in Monitors, size \in PageSizes, stops \in BOOLEAN : Page(m, size, stops)
  BY <1>7, PageKeeps
<1> QED BY <1>1, <1>2, <1>3, <1>4, <1>5, <1>6, <1>7, StepIs, Zenon

\* Rows, batches and jobs stay sound, and what is stored stays accounted for: the
\* invariant that the theorems of this part rest on.
THEOREM Accounted == Spec => []Inv
<1>1. Init => Inv
  BY InitKeeps
<1>2. Inv /\ [Next]_vars => Inv'
  BY NextKeeps
<1> QED BY <1>1, <1>2, PTL DEF Spec

\* Every variable has its type, in every behaviour, for every number of monitors and threads.
THEOREM TypeCorrect == Spec => []TypeOK
<1>1. Inv => TypeOK
  BY DEF Inv
<1> QED BY <1>1, Accounted, PTL

\* No walk buys more than the ceiling and the rest of the page that reached it, and a walk
\* without room stays closed, whatever sizes the providers' pages have.
THEOREM WalksEndAtTheCeiling == Spec => []WalkHasACeiling
<1>1. Inv => WalkHasACeiling
  BY DEF Inv, RowSound, WalkHasACeiling
<1> QED BY <1>1, Accounted, PTL

\* Every comment that was bought and stored reaches the filter, is on its way there, or
\* was held by a run that died.
THEOREM NothingStoredIsForgotten == Spec => []StoredIsHandedOn
<1>1. Inv => StoredIsHandedOn
  BY DEF Inv
<1> QED BY <1>1, Accounted, PTL

---------------------------------------------------------------------------
\* One monitor reads on where it stopped.

\* One monitor's job, and the rows, change.
LEMMA WalkKept ==
  ASSUME OneMonitor, WalkInv, NEW m \in Monitors, faults' = faults, again' = again,
         job'[m] # None => RunSound(job'[m], row', walked'),
         \A t \in Threads : WalkOf(row'[t], walked'[t]),
         "late" \notin faults /\ job'[m] # None => handed' = {}
  PROVE  WalkInv'
<1>1. \A n \in Monitors : n = m
  BY Zenon DEF OneMonitor
<1>2. (\A n \in Monitors : job[n] # None => RunSound(job[n], row, walked))'
  BY <1>1, Zenon
<1>3. ("late" \notin faults => \A n \in Monitors : job[n] # None => handed = {})'
  BY <1>1, Zenon
<1>4. (\A t \in Threads : WalkOf(row[t], walked[t]))'
  BY Zenon
<1>5. WalksOn'
  BY DEF WalkInv, WalksOn
<1> QED BY <1>2, <1>3, <1>4, <1>5, Zenon DEF WalkInv

\* A run that was just sent has nothing to keep.
LEMMA QueuedRun ==
  ASSUME NEW found \in SUBSET Threads, NEW rows, NEW been
  PROVE  RunSound(Queued(found), rows, been)
<1>1. Queued(found).pc = "queued" /\ Queued(found).stored = {}
  BY QueuedIs
<1> QED BY <1>1 DEF RunSound

LEMMA GrowWalks ==
  ASSUME Inv, WalkInv, NEW t \in Threads, Grow(t)
  PROVE  WalkInv'
BY DEF Grow, WalkInv, WalksOn

LEMMA ScoreWalks ==
  ASSUME Inv, WalkInv, NEW m \in Monitors, NEW h \in handed, NEW found \in SUBSET h.replies, Score(m, h, found)
  PROVE  WalkInv'
<1>1. /\ row' = row /\ walked' = walked /\ job' = job /\ again' = again /\ faults' = faults
      /\ handed' \subseteq handed
  BY DEF Score
<1> QED BY <1>1 DEF WalkInv, WalksOn

LEMMA PollWalks ==
  ASSUME OneMonitor, Inv, WalkInv, NEW m \in Monitors, NEW found \in SUBSET Threads, Poll(m, found)
  PROVE  WalkInv'
<1>1. job' = [job EXCEPT ![m] = Queued(found)] /\ Queued(found) \in RepliesJobs
  BY QueuedIs DEF Poll
<1>2. job'[m] = Queued(found)
  BY <1>1, JobMoves DEF Inv
<1>3. RunSound(job'[m], row', walked')
  BY <1>2, QueuedRun
<1>4. ASSUME NEW t \in Threads PROVE WalkOf(row'[t], walked'[t])
  <2>1. row[t] \in Rows /\ said[t] \in Nat
    BY Limits DEF Inv, TypeOK
  <2>2. WalkOf(row[t], walked[t])
    BY DEF WalkInv
  <2>3. row'[t] = row[t] \/ row'[t] = [row[t] EXCEPT !.count = said[t]]
    BY DEF Poll
  <2>4. said[t] # None
    BY <2>1, Limits
  <2>5. WalkOf([row[t] EXCEPT !.count = said[t]], walked[t])
    BY <2>1, <2>2, <2>4 DEF WalkOf, OpenRow, Rows
  <2> QED BY <2>2, <2>3, <2>5 DEF Poll
<1>5. "late" \notin faults => handed' = {}
  <2>1. \A h \in handed : h.monitor \in Monitors
    BY DEF Inv, TypeOK
  <2>2. \A h \in handed : h.monitor = m
    BY <2>1, Zenon DEF OneMonitor
  <2> QED BY <2>2 DEF Poll
<1>6. faults' = faults /\ again' = again
  BY DEF Poll
<1> QED BY <1>3, <1>4, <1>5, <1>6, WalkKept

LEMMA CrashWalks ==
  ASSUME OneMonitor, Inv, WalkInv, NEW m \in Monitors, Crash(m)
  PROVE  WalkInv'
<1>1. job[m] # None /\ job[m] \in RepliesJobs /\ job' = [job EXCEPT ![m] = Queued(job[m].ids)]
  BY JobAt DEF Inv, Crash
<1>2. job[m].ids \in SUBSET Threads
  BY <1>1, JobParts
<1>3. job'[m] = Queued(job[m].ids)
  BY <1>1, <1>2, QueuedIs, JobMoves DEF Inv
<1>4. RunSound(job'[m], row', walked')
  BY <1>2, <1>3, QueuedRun
<1>5. UNCHANGED <<faults, row, handed, walked, again>>
  BY DEF Crash
<1>6. \A t \in Threads : WalkOf(row'[t], walked'[t])
  BY <1>5 DEF WalkInv
<1>7. "late" \notin faults => handed' = {}
  BY <1>1, <1>5 DEF WalkInv
<1> QED BY <1>4, <1>5, <1>6, <1>7, WalkKept

\* A run that is over keeps nothing.
LEMMA OverWalks ==
  ASSUME OneMonitor, Inv, WalkInv, NEW m \in Monitors, job' = [job EXCEPT ![m] = None],
         faults' = faults, again' = again, \A t \in Threads : WalkOf(row'[t], walked'[t])
  PROVE  WalkInv'
<1>1. job'[m] = None
  BY JobMoves DEF Inv
<1> QED BY <1>1, WalkKept

LEMMA SkipFullWalks ==
  ASSUME OneMonitor, Inv, WalkInv, NEW m \in Monitors, SkipFull(m)
  PROVE  WalkInv'
BY OverWalks DEF SkipFull, WalkInv

LEMMA FinishWalks ==
  ASSUME OneMonitor, Inv, WalkInv, NEW m \in Monitors, Finish(m)
  PROVE  WalkInv'
BY OverWalks DEF Finish, WalkInv

\* A row that the month's cap stops may be read on as before.
LEMMA RefusedWalk ==
  ASSUME NEW r \in Rows, r.stopped = None, NEW been, WalkOf(r, been)
  PROVE  WalkOf([r EXCEPT !.stopped = "budget"], been)
BY DEF WalkOf, OpenRow, Rows

LEMMA RefuseAtCapWalks ==
  ASSUME OneMonitor, Inv, WalkInv, NEW m \in Monitors, RefuseAtCap(m)
  PROVE  WalkInv'
<1>1. ASSUME NEW t \in Threads PROVE WalkOf(row'[t], walked'[t])
  <2>1. row[t] \in Rows /\ WalkOf(row[t], walked[t]) /\ walked' = walked
    BY DEF Inv, TypeOK, WalkInv, RefuseAtCap
  <2>2. row'[t] = row[t] \/ (row[t].stopped = None /\ row'[t] = [row[t] EXCEPT !.stopped = "budget"])
    BY DEF RefuseAtCap
  <2> QED BY <2>1, <2>2, RefusedWalk
<1> QED BY <1>1, OverWalks DEF RefuseAtCap

LEMMA StartWalks ==
  ASSUME OneMonitor, Inv, WalkInv, NEW m \in Monitors, Start(m)
  PROVE  WalkInv'
<1> DEFINE j == [job[m] EXCEPT !.pc = "threads", !.todo = job[m].ids, !.seen = row]
<1>1. job[m] # None /\ job[m].pc = "queued" /\ job[m] \in RepliesJobs /\ JobSound(job[m]) /\ row \in [Threads -> Rows]
  BY JobAt DEF Inv, Start, TypeOK
<1>2. j \in RepliesJobs /\ j.pc = "threads" /\ j.seen = row /\ j.stored = job[m].stored
  BY <1>1 DEF RepliesJobs
<1>3. j.stored = {}
  BY <1>1, <1>2 DEF JobSound
<1>4. job' = [job EXCEPT ![m] = j]
  BY DEF Start
<1> HIDE DEF j
<1>5. job'[m] = j
  BY <1>2, <1>4, JobMoves DEF Inv
<1>6. UNCHANGED <<faults, row, handed, walked, again>>
  BY DEF Start
<1>7. RunSound(job'[m], row', walked')
  BY <1>2, <1>3, <1>5, <1>6 DEF RunSound
<1>8. \A t \in Threads : WalkOf(row'[t], walked'[t])
  BY <1>6 DEF WalkInv
<1>9. "late" \notin faults => handed' = {}
  BY <1>1, <1>6 DEF WalkInv
<1> QED BY <1>6, <1>7, <1>8, <1>9, WalkKept

\* A run goes past a thread, whose row alone may change.
LEMMA PastWalks ==
  ASSUME OneMonitor, Inv, WalkInv, NEW m \in Monitors, NEW t \in Threads, At(m, t),
         job' = [job EXCEPT ![m] = PastOf(job[m], t)],
         UNCHANGED <<faults, handed, walked, again>>,
         \A u \in Threads : u # t => row'[u] = row[u],
         WalkOf(row'[t], walked[t])
  PROVE  WalkInv'
<1>1. /\ job[m] # None /\ job[m] \in RepliesJobs /\ job[m].pc = "threads"
      /\ RunSound(job[m], row, walked)
  BY AtIs DEF WalkInv
<1> DEFINE j == PastOf(job[m], t)
<1>2. /\ j \in RepliesJobs /\ j.pc = "threads" /\ j.todo = job[m].todo \ {t} /\ j.seen = job[m].seen
      /\ j.stored = job[m].stored
  BY <1>1, PastIs
<1>3. job'[m] = j
  BY <1>2, JobMoves DEF Inv
<1>4. job[m].todo \in SUBSET Threads
  BY <1>1, JobParts
<1> HIDE DEF j
<1>5. RunSound(j, row', walked')
  BY <1>1, <1>2, <1>4 DEF RunSound
<1>6. \A u \in Threads : WalkOf(row'[u], walked'[u])
  BY DEF WalkInv
<1>7. "late" \notin faults => handed' = {}
  BY <1>1 DEF WalkInv
<1> QED BY <1>3, <1>5, <1>6, <1>7, WalkKept

LEMMA SkipThreadWalks ==
  ASSUME OneMonitor, Inv, WalkInv, NEW m \in Monitors, NEW t \in Threads, SkipThread(m, t)
  PROVE  WalkInv'
<1>1. At(m, t) /\ UNCHANGED <<faults, row, handed, walked, again>>
  BY DEF SkipThread
<1>2. job' = [job EXCEPT ![m] = PastOf(job[m], t)]
  BY <1>1, AtIs DEF SkipThread
<1> QED BY <1>1, <1>2, PastWalks DEF WalkInv

LEMMA SkipUnreadWalks ==
  ASSUME OneMonitor, Inv, WalkInv, NEW m \in Monitors, NEW t \in Threads, SkipUnread(m, t)
  PROVE  WalkInv'
<1>1. At(m, t) /\ UNCHANGED <<faults, row, handed, walked, again>>
  BY DEF SkipUnread, Goes, Considered
<1>2. job' = [job EXCEPT ![m] = PastOf(job[m], t)]
  BY <1>1, AtIs DEF SkipUnread
<1> QED BY <1>1, <1>2, PastWalks DEF WalkInv

LEMMA CloseThreadWalks ==
  ASSUME OneMonitor, Inv, WalkInv, NEW m \in Monitors, NEW t \in Threads, CloseThread(m, t)
  PROVE  WalkInv'
<1> DEFINE seen == job[m].seen[t]
<1>1. At(m, t) /\ job' = [job EXCEPT ![m] = PastOf(job[m], t)]
  BY Closes
<1>2. PICK e \in 0..MaxEmpty : row' = [row EXCEPT ![t] = Closed(row[t], e, seen)]
  BY Closes
<1>3. row \in [Threads -> Rows] /\ row[t] \in Rows /\ seen \in Rows
  BY <1>1, AtIs DEF Inv, TypeOK
<1>4. seen = row[t]
  BY <1>1, AtIs DEF WalkInv, RunSound
<1> DEFINE new == Closed(row[t], e, seen)
<1>5. /\ new.stopped = "threshold" /\ new.stoppedAt = seen.count /\ new.batchStart = row[t].batchStart
      /\ new.cursor = row[t].cursor /\ new.count = row[t].count /\ new.readAt = row[t].readAt
  BY <1>3, ClosedIs
<1> HIDE DEF new, seen
<1>6. "threshold" # None
  BY Limits DEF Stops
<1>7. WalkOf(row[t], walked[t])
  BY DEF WalkInv
<1>8. WalkOf(new, walked[t])
  BY <1>4, <1>5, <1>6, <1>7 DEF WalkOf, OpenRow
<1>9. row'[t] = new /\ \A u \in Threads : u # t => row'[u] = row[u]
  BY <1>2, <1>3 DEF new
<1>10. UNCHANGED <<faults, handed, walked, again>>
  BY DEF CloseThread
<1> QED BY <1>1, <1>8, <1>9, <1>10, PastWalks

\* A thread that may be read on in its first walk is opened below what was walked.
LEMMA OpensBelow ==
  ASSUME NEW m \in Monitors, NEW t \in Threads, NEW r \in Rows, NEW been, WalkOf(r, been),
         ~Ended(r), r.stoppedAt = None
  PROVE  /\ ~Grew(r) /\ Place(r) = r.cursor
         /\ r.batchStart = None => been = {} /\ Place(r) = None /\ ReadTo(r) = 0
         /\ r.batchStart # None => OpenRow(r) /\ Place(r) # None /\ ReadTo(r) = r.batchStart
         /\ ReadsOn(Opened(m, t, r), been)
<1>1. ~Grew(r) /\ r.stopped \in {None, "budget"}
  BY DEF Grew, Ended
<1>2. Place(r) = r.cursor /\ (r.batchStart = None => ReadTo(r) = 0) /\ (r.batchStart # None => ReadTo(r) = r.batchStart)
  BY <1>1 DEF Place, ReadTo
<1>3. r.batchStart # None => OpenRow(r) /\ r.cursor # None /\ \A c \in been : r.cursor < c
  BY <1>1 DEF OpenRow, WalkOf
<1>4. r.batchStart = None => been = {} /\ r.cursor = None /\ r.readAt = None
  BY DEF WalkOf
<1> DEFINE read == Opened(m, t, r)
<1>5. /\ read.cursor = Place(r) /\ read.pages = 0 /\ read.got = 0 /\ read.ended = FALSE /\ read.items = {}
      /\ read.since = IF FirstBatch(r) /\ r.readAt # None THEN r.readAt ELSE 0
  BY DEF Opened
<1>6. read.since = 0
  BY <1>1, <1>4, <1>5 DEF FirstBatch
<1> HIDE DEF read
<1>7. ReadsOn(read, been)
  BY <1>2, <1>3, <1>4, <1>5, <1>6 DEF ReadsOn
<1> QED BY <1>1, <1>2, <1>3, <1>4, <1>7 DEF read

LEMMA OpenThreadWalks ==
  ASSUME OneMonitor, Inv, WalkInv, NEW m \in Monitors, NEW t \in Threads, OpenThread(m, t)
  PROVE  WalkInv'
<1> DEFINE seen == job[m].seen[t]
           read == Opened(m, t, seen)
           j == [job[m] EXCEPT !.pc = "page", !.thread = t, !.read = read]
<1>1. At(m, t) /\ ~Ended(seen) /\ read \in Batches /\ job' = [job EXCEPT ![m] = j]
  BY Opens
<1>2. /\ job[m] # None /\ job[m] \in RepliesJobs /\ job[m].pc = "threads" /\ t \in job[m].todo
      /\ seen \in Rows /\ RunSound(job[m], row, walked)
  BY <1>1, AtIs DEF WalkInv
<1>3. seen = row[t] /\ WalkOf(seen, walked[t])
  BY <1>2 DEF WalkInv, RunSound
<1>4. seen.stoppedAt = None => ReadsOn(read, walked[t])
  BY <1>1, <1>2, <1>3, OpensBelow
<1> HIDE DEF read
<1>5. j \in RepliesJobs
  BY <1>1, <1>2 DEF RepliesJobs
<1>6. /\ j.pc = "page" /\ j.thread = t /\ j.read = read /\ j.seen = job[m].seen
      /\ j.stored = job[m].stored /\ j.todo = job[m].todo
  BY <1>2 DEF RepliesJobs
<1> HIDE DEF j
<1>7. job'[m] = j
  BY <1>1, <1>5, JobMoves DEF Inv
<1>8. UNCHANGED <<faults, row, handed, walked, again>>
  BY DEF OpenThread
<1>9. RunSound(j, row', walked')
  BY <1>2, <1>4, <1>6, <1>8 DEF RunSound
<1>10. \A u \in Threads : WalkOf(row'[u], walked'[u])
  BY <1>8 DEF WalkInv
<1>11. "late" \notin faults => handed' = {}
  BY <1>2, <1>8 DEF WalkInv
<1> QED BY <1>7, <1>8, <1>9, <1>10, <1>11, WalkKept

\* In the first walk of a thread a page drops nothing, and says itself whether it is the last.
LEMMA FirstWalkPage ==
  ASSUME NEW read \in Batches, NEW been \in SUBSET Comments, ReadsOn(read, been), ~BatchEnds(read),
         NEW n \in 0..MaxComments, NEW size \in PageSizes, NEW ready \in BOOLEAN,
         ready => FromOf(read, n) > size,
         ~ready /\ FromOf(read, n) > size => \E c \in ItemsOf(FromOf(read, n), size) : c <= read.since
  PROVE  LET from == FromOf(read, n) IN
         /\ from \in 0..MaxComments /\ ready = (from > size)
         /\ KeptOf(read, from, size) = ItemsOf(from, size)
         /\ ready => /\ ItemsOf(from, size) # {} /\ from - size \in Comments
                     /\ from - size + 1 \in ItemsOf(from, size)
                     /\ \A c \in ItemsOf(from, size) : from - size < c
         /\ \A c \in been \cup read.items : read.cursor # None /\ from < c
<1> DEFINE from == FromOf(read, n)
           items == ItemsOf(from, size)
<1>1. read.cursor \in Comments \cup {None} /\ read.since = 0 /\ ~read.ended /\ read.items \in SUBSET Comments
  BY ReadParts DEF ReadsOn, BatchEnds
<1>2. from \in 0..MaxComments
  BY <1>1, Limits DEF FromOf, Comments
<1>3. items \in SUBSET Comments /\ \A c \in items : c \in Nat /\ c <= from
  BY <1>2, ItemsAre
<1>4. \A c \in items : c > 0
  BY <1>3, Limits DEF Comments
<1>5. ready = (from > size)
  <2>1. ~(\E c \in items : c <= read.since)
    BY <1>1, <1>3, <1>4
  <2> QED BY <2>1
<1>6. KeptOf(read, from, size) = items
  BY <1>1, <1>4 DEF KeptOf
<1>7. ASSUME ready
      PROVE  items # {} /\ from - size \in Comments /\ from - size + 1 \in items /\ \A c \in items : from - size < c
  <2>1. from > size /\ size \in Nat \ {0} /\ from \in Nat /\ from <= MaxComments
    BY <1>2, <1>7, Limits
  <2>2. items = (from - size + 1)..from
    BY <1>2, <2>1, ItemsAre
  <2> HIDE DEF from, items
  <2>3. from - size \in Comments /\ from - size \in Nat
    BY <2>1, Limits DEF Comments
  <2>4. from - size + 1 \in (from - size + 1)..from
    BY <2>1, <2>3
  <2>5. \A c \in (from - size + 1)..from : from - size < c
    BY <2>1, <2>3
  <2> QED BY <2>2, <2>3, <2>4, <2>5
<1>8. ASSUME NEW c \in been \cup read.items PROVE read.cursor # None /\ from < c
  <2>1. CASE read.cursor = None
    <3>1. been = {} /\ read.pages = 0 /\ read.items = {}
      BY <1>1, <2>1 DEF ReadsOn
    <3> QED BY <3>1, <1>8
  <2>2. CASE read.cursor # None
    BY <1>1, <2>2, <1>8 DEF ReadsOn, FromOf
  <2> QED BY <2>1, <2>2
<1> QED BY <1>2, <1>5, <1>6, <1>7, <1>8

\* A page keeps a batch of a first walk below what was walked.
LEMMA PageReadsOn ==
  ASSUME NEW read \in Batches, NEW been \in SUBSET Comments, ReadsOn(read, been), ~BatchEnds(read),
         NEW n \in 0..MaxComments, NEW size \in PageSizes, NEW ready \in BOOLEAN,
         ready => FromOf(read, n) > size,
         ~ready /\ FromOf(read, n) > size => \E c \in ItemsOf(FromOf(read, n), size) : c <= read.since
  PROVE  ReadsOn(BoughtOf(read, FromOf(read, n), size, ready), been)
<1> DEFINE from == FromOf(read, n)
           items == ItemsOf(from, size)
           new == BoughtOf(read, from, size, ready)
<1>1. /\ from \in 0..MaxComments /\ ready = (from > size) /\ KeptOf(read, from, size) = items
      /\ ready => /\ items # {} /\ from - size \in Comments
                  /\ \A c \in items : from - size < c
      /\ \A c \in been \cup read.items : read.cursor # None /\ from < c
  BY FirstWalkPage
<1>2. /\ new.pages = read.pages + 1 /\ new.partial = ready /\ new.items = read.items \cup items
      /\ new.ended <=> (~ready \/ items = {})
      /\ new.cursor = (IF ready /\ items # {} THEN from - size ELSE read.cursor)
      /\ new.since = read.since
  <2> HIDE DEF from
  <2>1. /\ new.pages = read.pages + 1 /\ new.partial = ready /\ new.items = read.items \cup items
        /\ new.ended <=> (~ready \/ KeptOf(read, from, size) = {})
        /\ new.cursor = (IF ready /\ KeptOf(read, from, size) # {} THEN from - size ELSE read.cursor)
        /\ new.since = read.since
    <3>1. from \in 0..MaxComments /\ (ready => from > size)
      BY <1>1, Zenon
    <3>2. LET bought == BoughtOf(read, from, size, ready) IN
          /\ bought.pages = read.pages + 1 /\ bought.partial = ready
          /\ bought.items = read.items \cup ItemsOf(from, size)
          /\ bought.ended <=> (~ready \/ KeptOf(read, from, size) = {})
          /\ bought.cursor = (IF ready /\ KeptOf(read, from, size) # {} THEN from - size ELSE read.cursor)
          /\ bought.since = read.since
      BY <3>1, BoughtIs
    <3> QED BY <3>2, Zenon
  <2> HIDE DEF new, items
  <2> QED BY <1>1, <2>1
<1>3. read.pages \in Nat /\ read.items \in SUBSET Comments /\ size \in Nat \ {0}
  BY ReadParts, Limits
<1>4. items \in SUBSET Comments /\ \A c \in items : c \in Nat /\ c <= from
  BY <1>1, ItemsAre
<1>5. new.pages # 0
  BY <1>2, <1>3
<1>6. \A c \in been \cup read.items : c \in Nat
  BY <1>3, Limits DEF Comments
<1>7. read.since = 0 /\ read.items \cap been = {} /\ (read.cursor = None => been = {})
  BY DEF ReadsOn
<1> HIDE DEF new, items, from
<1>8. items \cap been = {}
  BY <1>1, <1>4, <1>6
<1>9. CASE ready
  <2>1. ~new.ended /\ new.cursor = from - size
    BY <1>1, <1>2, <1>9
  <2>3. new.cursor \in Nat /\ new.cursor # None
    BY <1>1, <1>9, <2>1, Limits DEF Comments
  <2>2. \A c \in been \cup new.items : new.cursor < c
    <3>1. \A c \in been \cup read.items : from - size < c
      BY <1>1, <1>3, <1>6
    <3> QED BY <1>1, <1>2, <1>9, <2>1, <3>1
  <2>4. new.items \cap been = {} /\ new.since = 0
    BY <1>2, <1>7, <1>8
  <2>5. ReadsOn(new, been)
    BY <1>5, <2>1, <2>2, <2>3, <2>4 DEF ReadsOn
  <2> QED BY <2>5 DEF new, from
<1>10. CASE ~ready
  <2>1. new.ended /\ ~new.partial /\ new.cursor = read.cursor
    BY <1>2, <1>10
  <2>2. new.items \cap been = {} /\ new.since = 0
    BY <1>2, <1>7, <1>8
  <2>3. ReadsOn(new, been)
    BY <1>5, <1>7, <2>1, <2>2 DEF ReadsOn
  <2> QED BY <2>3 DEF new, from
<1> QED BY <1>9, <1>10

LEMMA PageWalks ==
  ASSUME OneMonitor, Inv, WalkInv, NEW m \in Monitors, NEW size \in PageSizes, NEW stops \in BOOLEAN,
         Page(m, size, stops)
  PROVE  WalkInv'
<1> DEFINE t == job[m].thread
           read == job[m].read
           seen == job[m].seen[t]
           from == FromOf(read, said[t])
<1>1. /\ job[m] # None /\ job[m] \in RepliesJobs /\ job[m].pc = "page"
      /\ t \in job[m].todo /\ t \in Threads /\ read \in Batches
      /\ ~BatchEnds(read) /\ from \in 0..MaxComments
      /\ \E ready \in BOOLEAN : /\ ready => from > size
                                /\ ~ready /\ from > size => \E c \in ItemsOf(from, size) : c <= read.since
                                /\ job' = [job EXCEPT ![m] = HoldsOf(job[m], from, size, ready)]
  BY Buys
<1>2. PICK ready \in BOOLEAN : /\ ready => from > size
                               /\ ~ready /\ from > size => \E c \in ItemsOf(from, size) : c <= read.since
                               /\ job' = [job EXCEPT ![m] = HoldsOf(job[m], from, size, ready)]
  BY <1>1
<1> DEFINE new == HoldsOf(job[m], from, size, ready)
           next == BoughtOf(read, from, size, ready)
<1>3. /\ new \in RepliesJobs /\ new.pc = "page" /\ new.todo = job[m].todo /\ new.seen = job[m].seen
      /\ new.thread = t /\ new.read = next
      /\ new.stored = job[m].stored \cup {<<t, c>> : c \in KeptOf(read, from, size)}
  BY <1>1, <1>2, HoldsIs
<1>4. RunSound(job[m], row, walked) /\ walked[t] \in SUBSET Comments /\ said[t] \in 0..MaxComments
  BY <1>1 DEF WalkInv, Inv, TypeOK
<1>5. seen.stoppedAt = None => ReadsOn(next, walked[t])
  <2>1. SUFFICES ASSUME seen.stoppedAt = None PROVE ReadsOn(next, walked[t])
    OBVIOUS
  <2>2. ReadsOn(read, walked[t])
    BY <1>1, <1>4, <2>1 DEF RunSound
  <2> HIDE DEF read, t
  <2> QED BY <1>1, <1>2, <1>4, <2>2, PageReadsOn
<1>6. UNCHANGED <<faults, row, handed, walked, again>>
  BY DEF Page
<1>7. job'[m] = new
  BY <1>2, <1>3, JobMoves DEF Inv
<1> HIDE DEF new, next, from, read
<1>8. RunSound(new, row', walked')
  <2>1. \A u \in new.todo : new.seen[u] = row'[u]
    BY <1>1, <1>3, <1>4, <1>6 DEF RunSound
  <2>2. \A r \in new.stored : r[1] \in new.todo => r[1] = t
    BY <1>1, <1>3, <1>4 DEF RunSound
  <2>3. new.seen[new.thread].stoppedAt = None => ReadsOn(new.read, walked'[new.thread])
    BY <1>3, <1>5, <1>6
  <2> QED BY <1>3, <2>1, <2>2, <2>3 DEF RunSound
<1>9. \A u \in Threads : WalkOf(row'[u], walked'[u])
  BY <1>6 DEF WalkInv
<1>10. "late" \notin faults => handed' = {}
  BY <1>1, <1>6 DEF WalkInv
<1> QED BY <1>6, <1>7, <1>8, <1>9, <1>10, WalkKept

\* A batch that is over bought a page.
LEMMA OverIsBought ==
  ASSUME NEW read \in Batches, NEW seen \in Rows, BatchSound(read, seen), NEW been, ReadsOn(read, been),
         BatchEnds(read) \/ read.pages > 0
  PROVE  read.pages > 0
<1>1. read.pages \in Nat /\ read.want > 0
  BY ReadParts, ReadToIs, Limits DEF BatchSound, Want, RoomLeft, Lower
<1>2. CASE read.pages = 0
  <2>1. ~read.ended /\ read.got = 0
    BY <1>2 DEF ReadsOn
  <2>2. ~(read.pages >= MaxPages) /\ ~(read.got >= read.want)
    BY <1>1, <1>2, <2>1, Limits, ReadParts
  <2> QED BY <1>2, <2>1, <2>2 DEF BatchEnds
<1> QED BY <1>1, <1>2

\* What a batch of a first walk leaves behind, once it is recorded.
LEMMA RecordedWalk ==
  ASSUME NEW r \in Rows, NEW read \in Batches, BatchSound(read, r), NEW been \in SUBSET Comments,
         WalkOf(r, been), BatchEnds(read) \/ read.pages > 0,
         r.stoppedAt = None => ReadsOn(read, been)
  PROVE  LET new == RecordedOf(r, read, r) IN
         /\ WalkOf(new, read.items \cup (IF FirstBatch(r) THEN {} ELSE been))
         /\ r.stoppedAt # None => new.stoppedAt # None
         /\ OpenRow(new) => /\ r.stoppedAt = None /\ read.pages > 0 /\ read.partial
                            /\ read.cursor # None /\ ~read.ended
<1> DEFINE new == RecordedOf(r, read, r)
           after == read.items \cup (IF FirstBatch(r) THEN {} ELSE been)
<1>1. /\ new.cursor = read.cursor /\ new.batchStart = read.offset /\ new.stopped = StopReason(read)
      /\ new.stoppedAt = (IF StopReason(read) = None THEN r.stoppedAt ELSE r.count)
      /\ new.count = r.count
  BY RecordedIs
<1>2. read.offset \in Nat /\ r.count \in Numbers
  BY ReadParts, RowParts
<1>3. new.batchStart # None
  BY <1>1, <1>2, Limits
<1>4. r.stoppedAt # None => r.count # None
  BY DEF WalkOf
<1>5. StopReason(read) = None => read.partial
  BY Limits DEF StopReason, Stops
<1>6. StopReason(read) # "budget" /\ "budget" # None
  BY Limits DEF StopReason, Stops
<1> HIDE DEF new
<1>7. new.stoppedAt # None => new.count # None
  BY <1>1, <1>4
<1>8. r.stoppedAt # None => new.stoppedAt # None
  BY <1>1, <1>4
<1>9. ASSUME OpenRow(new)
      PROVE  /\ r.stoppedAt = None /\ read.pages > 0 /\ read.partial
             /\ read.cursor # None /\ ~read.ended
             /\ \A c \in after : read.cursor < c
  <2>1. StopReason(read) = None /\ r.stoppedAt = None
    BY <1>1, <1>6, <1>9 DEF OpenRow
  <2>2. ReadsOn(read, been)
    BY <2>1
  <2>3. read.pages > 0
    BY <2>2, OverIsBought
  <2>4. read.cursor # None /\ ~read.ended
    BY <1>5, <2>1, <2>2, <2>3 DEF ReadsOn
  <2>5. \A c \in been \cup read.items : read.cursor < c
    BY <2>2, <2>4 DEF ReadsOn
  <2> QED BY <1>5, <2>1, <2>3, <2>4, <2>5
<1>10. WalkOf(new, after)
  BY <1>1, <1>3, <1>7, <1>9 DEF WalkOf
<1> QED BY <1>8, <1>9, <1>10 DEF new

LEMMA RecordWalks ==
  ASSUME OneMonitor, Inv, WalkInv, NEW m \in Monitors, Record(m)
  PROVE  WalkInv'
<1> DEFINE t == job[m].thread
           read == job[m].read
           seen == job[m].seen[t]
           new == RecordedOf(row[t], read, seen)
           j == ReadOf(job[m], t)
           been == read.items \cup (IF FirstBatch(seen) THEN {} ELSE walked[t])
<1>1. /\ job[m] # None /\ job[m] \in RepliesJobs /\ job[m].pc = "page"
      /\ t \in job[m].todo /\ t \in Threads /\ read \in Batches
      /\ seen \in Rows /\ RowSound(seen) /\ BatchSound(read, seen)
      /\ BatchEnds(read) \/ read.pages > 0
      /\ job' = [job EXCEPT ![m] = j]
      /\ row' = [row EXCEPT ![t] = new]
      /\ walked' = [walked EXCEPT ![t] = been]
      /\ again' = IF seen.stoppedAt = None /\ read.items \cap walked[t] # {}
                  THEN again \cup {t} ELSE again
  BY Records
<1>2. /\ row \in [Threads -> Rows] /\ row[t] \in Rows
      /\ walked \in [Threads -> SUBSET Comments] /\ walked[t] \in SUBSET Comments
  BY <1>1 DEF Inv, TypeOK
<1>3. RunSound(job[m], row, walked) /\ WalkOf(row[t], walked[t])
  BY <1>1 DEF WalkInv
<1>4. seen = row[t] /\ (seen.stoppedAt = None => ReadsOn(read, walked[t]))
  BY <1>1, <1>3 DEF RunSound
<1>5. WalkOf(new, been)
  <2> HIDE DEF read, t
  <2> QED BY <1>1, <1>2, <1>3, <1>4, RecordedWalk
<1>6. again' = again
  <2>1. seen.stoppedAt = None => read.items \cap walked[t] = {}
    BY <1>4 DEF ReadsOn
  <2> QED BY <1>1, <2>1
<1>7. /\ j \in RepliesJobs /\ j.pc = "threads" /\ j.todo = job[m].todo \ {t} /\ j.seen = job[m].seen
      /\ j.stored = job[m].stored
  BY <1>1, ReadOfIs
<1>8. job[m].todo \in SUBSET Threads /\ faults' = faults /\ handed' = handed
  BY <1>1, JobParts DEF Record
<1> HIDE DEF j, new, been, read, seen
<1>9. job'[m] = j
  BY <1>1, <1>7, JobMoves DEF Inv
<1>10. RunSound(j, row', walked')
  <2>1. \A u \in j.todo : j.seen[u] = row'[u]
    BY <1>1, <1>2, <1>3, <1>7, <1>8 DEF RunSound
  <2>2. \A r \in j.stored : r[1] \notin j.todo
    BY <1>1, <1>3, <1>7 DEF RunSound
  <2> QED BY <1>7, <2>1, <2>2 DEF RunSound
<1>11. \A u \in Threads : WalkOf(row'[u], walked'[u])
  BY <1>1, <1>2, <1>5 DEF WalkInv
<1>12. "late" \notin faults => handed' = {}
  BY <1>1, <1>8 DEF WalkInv
<1> QED BY <1>6, <1>8, <1>9, <1>10, <1>11, <1>12, WalkKept

LEMMA InitWalks ==
  ASSUME Init
  PROVE  WalkInv
<1>1. WalkOf(Unread, {})
  BY DEF WalkOf, OpenRow, Unread
<1> QED BY <1>1 DEF Init, WalkInv, WalksOn

LEMMA NextWalks ==
  ASSUME OneMonitor, Inv, WalkInv, [Next]_vars
  PROVE  WalkInv'
<1>1. CASE UNCHANGED vars
  BY <1>1 DEF vars, WalkInv, WalksOn
<1>2. CASE \E t \in Threads : Grow(t)
  BY <1>2, GrowWalks
<1>3. CASE \E m \in Monitors : \E found \in SUBSET Threads : Poll(m, found)
  BY <1>3, PollWalks
<1>4. CASE \E m \in Monitors : \E h \in handed : \E found \in SUBSET h.replies : Score(m, h, found)
  BY <1>4, ScoreWalks
<1>5. CASE \E m \in Monitors : Crash(m) \/ SkipFull(m) \/ RefuseAtCap(m) \/ Start(m) \/ Record(m) \/ Finish(m)
  BY <1>5, CrashWalks, SkipFullWalks, RefuseAtCapWalks, StartWalks, RecordWalks, FinishWalks
<1>6. CASE \E m \in Monitors, t \in Threads :
             SkipThread(m, t) \/ CloseThread(m, t) \/ SkipUnread(m, t) \/ OpenThread(m, t)
  BY <1>6, SkipThreadWalks, CloseThreadWalks, SkipUnreadWalks, OpenThreadWalks
<1>7. CASE \E m \in Monitors, size \in PageSizes, stops \in BOOLEAN : Page(m, size, stops)
  BY <1>7, PageWalks
<1> QED BY <1>1, <1>2, <1>3, <1>4, <1>5, <1>6, <1>7, StepIs, Zenon

\* One monitor's walks go on below what they read, and nothing that a run has yet to come
\* to changes under it.
THEOREM WalksGoOn == OneMonitor => (Spec => [](Inv /\ WalkInv))
<1> SUFFICES ASSUME OneMonitor PROVE Spec => [](Inv /\ WalkInv)
  OBVIOUS
<1>1. Init => Inv /\ WalkInv
  BY InitKeeps, InitWalks
<1>2. Inv /\ WalkInv /\ [Next]_vars => (Inv /\ WalkInv)'
  BY NextKeeps, NextWalks
<1> QED BY <1>1, <1>2, PTL DEF Spec

\* With one monitor no comment is recorded twice in the first walk of a thread, through
\* crashes, refusals, growth and any sizes of pages.
THEOREM NothingIsReadTwice == OneMonitor => (Spec => []WalksOn)
<1>1. Inv /\ WalkInv => WalksOn
  BY DEF WalkInv
<1> QED BY <1>1, WalksGoOn, PTL

---------------------------------------------------------------------------
\* One monitor: where the comments sit.

\* What holds of a row holds of one that may be read on no more than it.
LEMMA PlaceLike ==
  ASSUME NEW p, NEW t, NEW r, NEW r2, NEW n, NEW F, NEW j, NEW j2,
         r2.batchStart = r.batchStart, r2.cursor = r.cursor,
         r2.stoppedAt = None => r.stoppedAt = None, OpenRow(r2) => OpenRow(r),
         BeingRead(j, t) => "crash" \in F \/ BeingRead(j2, t),
         PlaceSound(p, t, r, n, F, j)
  PROVE  PlaceSound(p, t, r2, n, F, j2)
<1>1. LastIsStored(p, t, r2)
  BY DEF PlaceSound, LastIsStored
<1>2. "crash" \notin F /\ ~BeingRead(j2, t) => Fresh(p, t, r2)
  BY DEF PlaceSound, Fresh
<1>3. "growth" \notin F => Level(p, t, r2, n)
  BY DEF PlaceSound, Level
<1> QED BY <1>1, <1>2, <1>3, Zenon DEF PlaceSound

\* A step of one monitor, by what it makes of the rows and of the batch that is read.
LEMMA PlaceKept ==
  ASSUME OneMonitor, NEW m \in Monitors, faults' = faults,
         Steady(faults) =>
           /\ \A t \in Threads : PlaceSound(position', t, row'[t], said'[t], faults, job'[m])
           /\ job'[m] # None /\ job'[m].pc = "page" => PlaceRead(position', job'[m], said', faults)
  PROVE  PlaceInv'
<1>1. \A k \in Monitors : k = m
  BY Zenon DEF OneMonitor
<1>2. Steady(faults') =>
        \A k \in Monitors :
          /\ \A t \in Threads : PlaceSound(position', t, row'[t], said'[t], faults', job'[k])
          /\ job'[k] # None /\ job'[k].pc = "page" => PlaceRead(position', job'[k], said', faults')
  BY <1>1, Zenon
<1> QED BY <1>2, Zenon DEF PlaceInv

\* No page is read before or after the step, or the run dies.
LEMMA QuietPlaces ==
  ASSUME OneMonitor, PlaceInv, NEW m \in Monitors, UNCHANGED <<faults, said, position>>,
         job[m] # None /\ job[m].pc = "page" => "crash" \in faults,
         job'[m] # None => job'[m].pc # "page",
         \A t \in Threads : /\ row'[t].batchStart = row[t].batchStart /\ row'[t].cursor = row[t].cursor
                            /\ row'[t].stoppedAt = None => row[t].stoppedAt = None
                            /\ OpenRow(row'[t]) => OpenRow(row[t])
  PROVE  PlaceInv'
<1>1. \A t \in Threads : BeingRead(job[m], t) => "crash" \in faults
  BY DEF BeingRead
<1>2. Steady(faults) => \A t \in Threads : PlaceSound(position, t, row[t], said[t], faults, job[m])
  BY DEF PlaceInv
<1>3. ASSUME Steady(faults), NEW t \in Threads
      PROVE  PlaceSound(position, t, row'[t], said[t], faults, job'[m])
  <2>1. PlaceSound(position, t, row[t], said[t], faults, job[m])
    BY <1>2, <1>3
  <2> QED BY <2>1, <1>1, PlaceLike
<1>4. Steady(faults) => \A t \in Threads : PlaceSound(position', t, row'[t], said'[t], faults, job'[m])
  BY <1>3
<1> QED BY <1>4, PlaceKept

LEMMA GrowPlaces ==
  ASSUME PlaceInv, NEW t \in Threads, Grow(t)
  PROVE  PlaceInv'
<1>1. "growth" \in faults /\ UNCHANGED <<faults, row, position, job>>
  BY DEF Grow
<1>2. ASSUME NEW m \in Monitors, Steady(faults)
      PROVE  /\ \A u \in Threads : PlaceSound(position', u, row'[u], said'[u], faults', job'[m])
             /\ job'[m] # None /\ job'[m].pc = "page" => PlaceRead(position', job'[m], said', faults')
  <2>1. \A u \in Threads : PlaceSound(position, u, row[u], said[u], faults, job[m])
    BY <1>2 DEF PlaceInv
  <2>2. \A u \in Threads : PlaceSound(position, u, row[u], said'[u], faults, job[m])
    BY <1>1, <2>1 DEF PlaceSound
  <2>3. job[m] # None /\ job[m].pc = "page" => PlaceRead(position, job[m], said, faults)
    BY <1>2 DEF PlaceInv
  <2>4. job[m] # None /\ job[m].pc = "page" => PlaceRead(position, job[m], said', faults)
    BY <1>1, <2>3 DEF PlaceRead
  <2> QED BY <1>1, <2>2, <2>4
<1> QED BY <1>1, <1>2 DEF PlaceInv, Steady

LEMMA ScorePlaces ==
  ASSUME PlaceInv, NEW m \in Monitors, NEW h \in handed, NEW found \in SUBSET h.replies, Score(m, h, found)
  PROVE  PlaceInv'
BY DEF Score, PlaceInv

LEMMA PollPlaces ==
  ASSUME OneMonitor, Inv, PlaceInv, NEW m \in Monitors, NEW found \in SUBSET Threads, Poll(m, found)
  PROVE  PlaceInv'
<1>1. job[m] = None /\ job' = [job EXCEPT ![m] = Queued(found)] /\ Queued(found) \in RepliesJobs
  BY QueuedIs DEF Poll
<1>2. job'[m].pc = "queued"
  BY <1>1, QueuedIs, JobMoves DEF Inv
<1>3. ASSUME NEW t \in Threads
      PROVE  /\ row'[t].batchStart = row[t].batchStart /\ row'[t].cursor = row[t].cursor
             /\ row'[t].stoppedAt = None => row[t].stoppedAt = None
             /\ OpenRow(row'[t]) => OpenRow(row[t])
  <2>1. row[t] \in Rows
    BY DEF Inv, TypeOK
  <2>2. row'[t] = row[t] \/ row'[t] = [row[t] EXCEPT !.count = said[t]]
    BY DEF Poll
  <2> QED BY <2>1, <2>2 DEF Rows, OpenRow
<1> QED BY <1>1, <1>2, <1>3, QuietPlaces DEF Poll

\* The rows are as they were.
LEMMA SameRowsPlaces ==
  ASSUME OneMonitor, PlaceInv, NEW m \in Monitors, UNCHANGED <<faults, said, position, row>>,
         job[m] # None /\ job[m].pc = "page" => "crash" \in faults,
         job'[m] # None => job'[m].pc # "page"
  PROVE  PlaceInv'
BY QuietPlaces

LEMMA CrashPlaces ==
  ASSUME OneMonitor, Inv, PlaceInv, NEW m \in Monitors, Crash(m)
  PROVE  PlaceInv'
<1>1. job[m] # None /\ job[m] \in RepliesJobs /\ job' = [job EXCEPT ![m] = Queued(job[m].ids)]
  BY JobAt DEF Inv, Crash
<1>2. job[m].ids \in SUBSET Threads
  BY <1>1, JobParts
<1>3. job'[m].pc # "page"
  BY <1>1, <1>2, QueuedIs, JobMoves DEF Inv
<1> QED BY <1>3, SameRowsPlaces DEF Crash

LEMMA SkipFullPlaces ==
  ASSUME OneMonitor, Inv, PlaceInv, NEW m \in Monitors, SkipFull(m)
  PROVE  PlaceInv'
<1>1. job'[m] = None
  BY JobMoves DEF Inv, SkipFull
<1> QED BY <1>1, SameRowsPlaces DEF SkipFull

LEMMA FinishPlaces ==
  ASSUME OneMonitor, Inv, PlaceInv, NEW m \in Monitors, Finish(m)
  PROVE  PlaceInv'
<1>1. job'[m] = None
  BY JobMoves DEF Inv, Finish
<1> QED BY <1>1, SameRowsPlaces DEF Finish

LEMMA RefuseAtCapPlaces ==
  ASSUME OneMonitor, Inv, PlaceInv, NEW m \in Monitors, RefuseAtCap(m)
  PROVE  PlaceInv'
<1>1. job'[m] = None
  BY JobMoves DEF Inv, RefuseAtCap
<1>2. ASSUME NEW t \in Threads
      PROVE  /\ row'[t].batchStart = row[t].batchStart /\ row'[t].cursor = row[t].cursor
             /\ row'[t].stoppedAt = None => row[t].stoppedAt = None
             /\ OpenRow(row'[t]) => OpenRow(row[t])
  <2>1. row[t] \in Rows
    BY DEF Inv, TypeOK
  <2>2. row'[t] = row[t] \/ (row[t].stopped = None /\ row'[t] = [row[t] EXCEPT !.stopped = "budget"])
    BY DEF RefuseAtCap
  <2> QED BY <2>1, <2>2 DEF Rows, OpenRow
<1> QED BY <1>1, <1>2, QuietPlaces DEF RefuseAtCap

LEMMA StartPlaces ==
  ASSUME OneMonitor, Inv, PlaceInv, NEW m \in Monitors, Start(m)
  PROVE  PlaceInv'
<1> DEFINE j == [job[m] EXCEPT !.pc = "threads", !.todo = job[m].ids, !.seen = row]
<1>1. job[m] # None /\ job[m].pc = "queued" /\ job[m] \in RepliesJobs /\ row \in [Threads -> Rows]
  BY JobAt DEF Inv, Start, TypeOK
<1>2. j \in RepliesJobs /\ j.pc = "threads" /\ job' = [job EXCEPT ![m] = j]
  BY <1>1 DEF RepliesJobs, Start
<1> HIDE DEF j
<1>3. job'[m].pc # "page"
  BY <1>2, JobMoves DEF Inv
<1> QED BY <1>1, <1>3, SameRowsPlaces DEF Start

\* A run goes past a thread, whose row may be read on no more than before.
LEMMA PastPlaces ==
  ASSUME OneMonitor, Inv, PlaceInv, NEW m \in Monitors, NEW t \in Threads, At(m, t),
         job' = [job EXCEPT ![m] = PastOf(job[m], t)],
         UNCHANGED <<faults, said, position>>,
         \A u \in Threads : /\ row'[u].batchStart = row[u].batchStart /\ row'[u].cursor = row[u].cursor
                            /\ row'[u].stoppedAt = None => row[u].stoppedAt = None
                            /\ OpenRow(row'[u]) => OpenRow(row[u])
  PROVE  PlaceInv'
<1>1. job[m] # None /\ job[m] \in RepliesJobs /\ job[m].pc = "threads"
  BY AtIs
<1>2. job'[m].pc # "page"
  BY <1>1, PastIs, JobMoves DEF Inv
<1> QED BY <1>1, <1>2, QuietPlaces

LEMMA SkipThreadPlaces ==
  ASSUME OneMonitor, Inv, PlaceInv, NEW m \in Monitors, NEW t \in Threads, SkipThread(m, t)
  PROVE  PlaceInv'
<1>1. At(m, t) /\ UNCHANGED <<faults, said, position, row>>
  BY DEF SkipThread
<1>2. job' = [job EXCEPT ![m] = PastOf(job[m], t)]
  BY <1>1, AtIs DEF SkipThread
<1> QED BY <1>1, <1>2, PastPlaces

LEMMA SkipUnreadPlaces ==
  ASSUME OneMonitor, Inv, PlaceInv, NEW m \in Monitors, NEW t \in Threads, SkipUnread(m, t)
  PROVE  PlaceInv'
<1>1. At(m, t) /\ UNCHANGED <<faults, said, position, row>>
  BY DEF SkipUnread, Goes, Considered
<1>2. job' = [job EXCEPT ![m] = PastOf(job[m], t)]
  BY <1>1, AtIs DEF SkipUnread
<1> QED BY <1>1, <1>2, PastPlaces

LEMMA CloseThreadPlaces ==
  ASSUME OneMonitor, Inv, WalkInv, PlaceInv, NEW m \in Monitors, NEW t \in Threads, CloseThread(m, t)
  PROVE  PlaceInv'
<1> DEFINE seen == job[m].seen[t]
<1>1. At(m, t) /\ job' = [job EXCEPT ![m] = PastOf(job[m], t)]
  BY Closes
<1>2. PICK e \in 0..MaxEmpty : row' = [row EXCEPT ![t] = Closed(row[t], e, seen)]
  BY Closes
<1>3. row \in [Threads -> Rows] /\ row[t] \in Rows /\ seen \in Rows
  BY <1>1, AtIs DEF Inv, TypeOK
<1>4. seen = row[t] /\ WalkOf(row[t], walked[t])
  BY <1>1, AtIs DEF WalkInv, RunSound
<1> DEFINE new == Closed(row[t], e, seen)
<1>5. /\ new.stopped = "threshold" /\ new.stoppedAt = seen.count
      /\ new.batchStart = row[t].batchStart /\ new.cursor = row[t].cursor
  BY <1>3, ClosedIs
<1>6. "threshold" # None
  BY Limits DEF Stops
<1>7. (new.stoppedAt = None => row[t].stoppedAt = None) /\ ~OpenRow(new)
  BY <1>4, <1>5, <1>6 DEF WalkOf, OpenRow
<1>8. \A u \in Threads : row'[u] = IF u = t THEN new ELSE row[u]
  BY <1>2, <1>3
<1> HIDE DEF new, seen
<1>9. \A u \in Threads : /\ row'[u].batchStart = row[u].batchStart /\ row'[u].cursor = row[u].cursor
                         /\ row'[u].stoppedAt = None => row[u].stoppedAt = None
                         /\ OpenRow(row'[u]) => OpenRow(row[u])
  BY <1>5, <1>7, <1>8
<1>10. UNCHANGED <<faults, said, position>>
  BY DEF CloseThread
<1> QED BY <1>1, <1>9, <1>10, PastPlaces

LEMMA OpenThreadPlaces ==
  ASSUME OneMonitor, Inv, WalkInv, PlaceInv, NEW m \in Monitors, NEW t \in Threads, OpenThread(m, t)
  PROVE  PlaceInv'
<1> DEFINE seen == job[m].seen[t]
           read == Opened(m, t, seen)
           j == [job[m] EXCEPT !.pc = "page", !.thread = t, !.read = read]
<1>1. At(m, t) /\ ~Ended(seen) /\ read \in Batches /\ job' = [job EXCEPT ![m] = j]
  BY Opens
<1>2. /\ job[m] # None /\ job[m] \in RepliesJobs /\ job[m].pc = "threads" /\ t \in job[m].todo
      /\ seen \in Rows /\ RunSound(job[m], row, walked)
  BY <1>1, AtIs DEF WalkInv
<1>3. seen = row[t] /\ WalkOf(seen, walked[t])
  BY <1>2 DEF WalkInv, RunSound
<1>4. /\ read.pages = 0 /\ read.offset = ReadTo(seen) /\ read.cursor = Place(seen)
  BY DEF Opened
<1>5. seen.stoppedAt = None =>
        /\ seen.batchStart = None => read.cursor = None /\ read.offset = 0
        /\ seen.batchStart # None =>
             OpenRow(seen) /\ read.cursor # None /\ read.cursor = seen.cursor /\ read.offset = seen.batchStart
  BY <1>1, <1>2, <1>3, <1>4, OpensBelow
<1> HIDE DEF read
<1>6. j \in RepliesJobs
  BY <1>1, <1>2 DEF RepliesJobs
<1>7. j.pc = "page" /\ j.thread = t /\ j.read = read /\ j.seen = job[m].seen
  BY <1>2 DEF RepliesJobs
<1> HIDE DEF j
<1>8. job'[m] = j /\ UNCHANGED <<faults, said, row, position>>
  BY <1>1, <1>6, JobMoves DEF Inv, OpenThread
<1>9. ASSUME Steady(faults)
      PROVE  /\ \A u \in Threads : PlaceSound(position, u, row[u], said[u], faults, j)
             /\ PlaceRead(position, j, said, faults)
  <2>1. \A u \in Threads : PlaceSound(position, u, row[u], said[u], faults, job[m])
    BY <1>9 DEF PlaceInv
  <2>2. \A u \in Threads : ~BeingRead(job[m], u)
    BY <1>2 DEF BeingRead
  <2>3. \A u \in Threads : PlaceSound(position, u, row[u], said[u], faults, j)
    BY <2>1, <2>2, PlaceLike
  <2>4. PlaceSound(position, t, seen, said[t], faults, job[m])
    BY <1>3, <2>1
  <2>5. ASSUME seen.stoppedAt = None
        PROVE  /\ LastRead(position, t, read)
               /\ "crash" \notin faults => FreshRead(position, t, read)
               /\ "growth" \notin faults => LevelRead(read, said[t])
    <3>1. LastRead(position, t, read)
      BY <1>4 DEF LastRead
    <3>2. "crash" \notin faults => FreshRead(position, t, read)
      BY <1>5, <2>2, <2>4, <2>5 DEF PlaceSound, Fresh, FreshRead
    <3>3. "growth" \notin faults => LevelRead(read, said[t])
      BY <1>5, <2>4, <2>5 DEF PlaceSound, Level, LevelRead
    <3> QED BY <3>1, <3>2, <3>3
  <2>6. PlaceRead(position, j, said, faults)
    BY <1>7, <2>5 DEF PlaceRead
  <2> QED BY <2>3, <2>6
<1>10. Steady(faults) =>
         /\ \A u \in Threads : PlaceSound(position', u, row'[u], said'[u], faults, job'[m])
         /\ job'[m] # None /\ job'[m].pc = "page" => PlaceRead(position', job'[m], said', faults)
  BY <1>8, <1>9
<1> QED BY <1>8, <1>10, PlaceKept

\* A page of a first walk puts its comments where they belong.
LEMMA PagePlaced ==
  ASSUME NEW read \in Batches, NEW been \in SUBSET Comments, ReadsOn(read, been), ~BatchEnds(read),
         NEW n \in 0..MaxComments, NEW size \in PageSizes, NEW ready \in BOOLEAN,
         ready => FromOf(read, n) > size,
         ~ready /\ FromOf(read, n) > size => \E c \in ItemsOf(FromOf(read, n), size) : c <= read.since,
         NEW F, Steady(F), NEW t \in Threads, NEW p, NEW p2,
         "crash" \notin F => FreshRead(p, t, read),
         "growth" \notin F => LevelRead(read, n) /\ \A c \in Comments : p[<<t, c>>] # None => p[<<t, c>>] = n - c,
         \A c \in Comments : p2[<<t, c>>] =
           IF c \in KeptOf(read, FromOf(read, n), size) /\ p[<<t, c>>] = None
           THEN Position(read, FromOf(read, n), c) ELSE p[<<t, c>>]
  PROVE  LET new == BoughtOf(read, FromOf(read, n), size, ready) IN
         /\ LastRead(p2, t, new)
         /\ "crash" \notin F => FreshRead(p2, t, new)
         /\ "growth" \notin F => LevelRead(new, n) /\ \A c \in Comments : p2[<<t, c>>] # None => p2[<<t, c>>] = n - c
<1> DEFINE from == FromOf(read, n)
           items == ItemsOf(from, size)
           new == BoughtOf(read, from, size, ready)
<1>1. /\ from \in 0..MaxComments /\ ready = (from > size) /\ KeptOf(read, from, size) = items
      /\ ready => /\ items # {} /\ from - size \in Comments /\ from - size + 1 \in items
                  /\ \A c \in items : from - size < c
  BY FirstWalkPage
<1>2. /\ new.partial = ready /\ new.offset = read.offset + Cardinality(items)
      /\ new.ended <=> (~ready \/ items = {})
      /\ new.cursor = (IF ready /\ items # {} THEN from - size ELSE read.cursor)
  <2>1. from \in 0..MaxComments /\ (ready => from > size)
    BY <1>1, Zenon
  <2>2. LET bought == BoughtOf(read, from, size, ready) IN
        /\ bought.partial = ready /\ bought.offset = read.offset + Cardinality(ItemsOf(from, size))
        /\ bought.ended <=> (~ready \/ KeptOf(read, from, size) = {})
        /\ bought.cursor = (IF ready /\ KeptOf(read, from, size) # {} THEN from - size ELSE read.cursor)
    <3> HIDE DEF from
    <3> QED BY <2>1, BoughtIs
  <2> QED BY <1>1, <2>2, Zenon
<1>3. /\ read.offset \in Nat /\ read.cursor \in Comments \cup {None} /\ ~read.ended
      /\ size \in Nat \ {0} /\ from \in Nat /\ n \in Nat
  BY <1>1, ReadParts, Limits DEF BatchEnds
<1>4. items \in SUBSET Comments /\ \A c \in items : c \in Nat /\ c <= from
  BY <1>1, ItemsAre
<1>5. ready => Cardinality(items) = size
  BY <1>1, ItemsAre
<1>6. read.cursor = None \/ from = read.cursor
  BY DEF FromOf
<1>7. "crash" \notin F => \A c \in Comments : c <= from => p[<<t, c>>] = None
  BY <1>3, <1>6 DEF FreshRead
<1>8. "growth" \notin F => read.offset + from = n
  BY <1>3 DEF LevelRead, FromOf
<1>9. \A c \in Comments :
        p2[<<t, c>>] = IF c \in items /\ p[<<t, c>>] = None THEN read.offset + from - c ELSE p[<<t, c>>]
  BY <1>1 DEF Position
<1>10. \A c \in Comments : c \in Nat
  BY Limits DEF Comments
<1> HIDE DEF new, items, from
<1>11. LastRead(p2, t, new)
  <2>1. SUFFICES ASSUME ready
                 PROVE  /\ new.offset > 0 /\ new.cursor + 1 \in Comments
                        /\ p2[<<t, new.cursor + 1>>] = new.offset - 1
    BY <1>2 DEF LastRead
  <2>2. new.cursor = from - size /\ new.offset = read.offset + size
    BY <1>1, <1>2, <1>5, <2>1
  <2> DEFINE c == from - size + 1
  <2>3. c \in items /\ c \in Comments /\ c \in Nat /\ c <= from
    BY <1>1, <1>4, <2>1
  <2>4. new.cursor + 1 = c /\ read.offset + from - c = new.offset - 1 /\ new.offset > 0
    BY <1>3, <2>2
  <2> HIDE DEF c
  <2>5. CASE p[<<t, c>>] = None
    BY <1>9, <2>3, <2>4, <2>5
  <2>6. CASE p[<<t, c>>] # None
    <3>1. "growth" \notin F
      BY <1>7, <2>3, <2>6 DEF Steady
    <3>2. p[<<t, c>>] = n - c
      BY <2>3, <2>6, <3>1
    <3>3. n - c = new.offset - 1
      BY <1>3, <1>8, <2>3, <2>4, <3>1
    <3> QED BY <1>9, <2>3, <2>4, <2>6, <3>2, <3>3
  <2> QED BY <2>5, <2>6
<1>12. "crash" \notin F => FreshRead(p2, t, new)
  <2>1. SUFFICES ASSUME "crash" \notin F, ~new.ended, NEW c \in Comments, new.cursor = None \/ c <= new.cursor
                 PROVE  p2[<<t, c>>] = None
    BY DEF FreshRead
  <2>2. ready /\ new.cursor = from - size
    BY <1>2, <2>1
  <2>3. c \in Nat /\ c <= from - size
    BY <1>1, <1>10, <2>1, <2>2, Limits DEF Comments
  <2>4. c \notin items /\ c <= from
    BY <1>1, <1>3, <2>2, <2>3
  <2> QED BY <1>7, <1>9, <2>1, <2>4
<1>13. "growth" \notin F => LevelRead(new, n)
  <2>1. SUFFICES ASSUME "growth" \notin F, ~new.ended
                 PROVE  new.cursor # None /\ new.offset + new.cursor = n
    BY DEF LevelRead
  <2>2. ready /\ new.cursor = from - size /\ new.offset = read.offset + size
    BY <1>2, <1>5, <2>1
  <2>3. new.cursor # None
    BY <1>1, <1>10, <2>2, Limits
  <2>4. new.offset + new.cursor = n
    BY <1>3, <1>8, <2>1, <2>2
  <2> QED BY <2>3, <2>4
<1>14. "growth" \notin F => \A c \in Comments : p2[<<t, c>>] # None => p2[<<t, c>>] = n - c
  <2>1. SUFFICES ASSUME "growth" \notin F, NEW c \in Comments, p2[<<t, c>>] # None
                 PROVE  p2[<<t, c>>] = n - c
    OBVIOUS
  <2>2. CASE c \in items /\ p[<<t, c>>] = None
    <3>1. p2[<<t, c>>] = read.offset + from - c
      BY <1>9, <2>2
    <3>2. read.offset + from - c = n - c
      BY <1>3, <1>8, <1>10, <2>1
    <3> QED BY <3>1, <3>2
  <2>3. CASE ~(c \in items /\ p[<<t, c>>] = None)
    BY <1>9, <2>1, <2>3
  <2> QED BY <2>2, <2>3
<1> QED BY <1>11, <1>12, <1>13, <1>14 DEF new, from

LEMMA PagePlaces ==
  ASSUME OneMonitor, Inv, WalkInv, PlaceInv, NEW m \in Monitors, NEW size \in PageSizes,
         NEW stops \in BOOLEAN, Page(m, size, stops)
  PROVE  PlaceInv'
<1> DEFINE t == job[m].thread
           read == job[m].read
           seen == job[m].seen[t]
           from == FromOf(read, said[t])
<1>1. /\ job[m] # None /\ job[m] \in RepliesJobs /\ job[m].pc = "page"
      /\ t \in job[m].todo /\ t \in Threads /\ read \in Batches
      /\ ~BatchEnds(read) /\ from \in 0..MaxComments
      /\ \E ready \in BOOLEAN : /\ ready => from > size
                                /\ ~ready /\ from > size => \E c \in ItemsOf(from, size) : c <= read.since
                                /\ job' = [job EXCEPT ![m] = HoldsOf(job[m], from, size, ready)]
      /\ position' = [r \in Replies |->
              IF r[1] = t /\ r[2] \in KeptOf(read, from, size) /\ position[r] = None
              THEN Position(read, from, r[2]) ELSE position[r]]
  BY Buys
<1>2. PICK ready \in BOOLEAN : /\ ready => from > size
                               /\ ~ready /\ from > size => \E c \in ItemsOf(from, size) : c <= read.since
                               /\ job' = [job EXCEPT ![m] = HoldsOf(job[m], from, size, ready)]
  BY <1>1
<1> DEFINE new == HoldsOf(job[m], from, size, ready)
           next == BoughtOf(read, from, size, ready)
<1>3. /\ new \in RepliesJobs /\ new.pc = "page" /\ new.seen = job[m].seen /\ new.thread = t /\ new.read = next
  BY <1>1, <1>2, HoldsIs
<1>4. /\ RunSound(job[m], row, walked) /\ walked[t] \in SUBSET Comments
      /\ said[t] \in 0..MaxComments /\ row \in [Threads -> Rows]
  BY <1>1 DEF WalkInv, Inv, TypeOK
<1>5. seen = row[t] /\ (seen.stoppedAt = None => ReadsOn(read, walked[t]))
  BY <1>1, <1>4 DEF RunSound
<1>6. job'[m] = new /\ UNCHANGED <<faults, said, row>>
  <2>1. UNCHANGED <<faults, said, row>>
    BY DEF Page
  <2> QED BY <1>2, <1>3, <2>1, JobMoves DEF Inv
<1>7. \A u \in Threads, c \in Comments : position'[<<u, c>>] =
        IF u = t /\ c \in KeptOf(read, from, size) /\ position[<<u, c>>] = None
        THEN Position(read, from, c) ELSE position[<<u, c>>]
  BY <1>1 DEF Replies
<1>8. \A u \in Threads : BeingRead(new, u) <=> BeingRead(job[m], u)
  BY <1>1, <1>3, JobParts DEF BeingRead
<1> HIDE DEF new
<1>9. ASSUME Steady(faults)
      PROVE  /\ \A u \in Threads : PlaceSound(position', u, row[u], said[u], faults, new)
             /\ PlaceRead(position', new, said, faults)
  <2>1. \A u \in Threads : PlaceSound(position, u, row[u], said[u], faults, job[m])
    BY <1>9 DEF PlaceInv
  <2>2. PlaceRead(position, job[m], said, faults)
    BY <1>1, <1>9 DEF PlaceInv
  <2>3. ASSUME seen.stoppedAt = None
        PROVE  /\ LastRead(position', t, next)
               /\ "crash" \notin faults => FreshRead(position', t, next)
               /\ "growth" \notin faults =>
                    /\ LevelRead(next, said[t])
                    /\ \A c \in Comments : position'[<<t, c>>] # None => position'[<<t, c>>] = said[t] - c
    <3>1. ReadsOn(read, walked[t])
      BY <1>5, <2>3
    <3>2. "crash" \notin faults => FreshRead(position, t, read)
      BY <2>2, <2>3 DEF PlaceRead
    <3>3. "growth" \notin faults => LevelRead(read, said[t])
      BY <2>2, <2>3 DEF PlaceRead
    <3>4. PlaceSound(position, t, seen, said[t], faults, job[m])
      BY <1>1, <1>5, <2>1
    <3>5. "growth" \notin faults => \A c \in Comments : position[<<t, c>>] # None => position[<<t, c>>] = said[t] - c
      BY <2>3, <3>4 DEF PlaceSound, Level
    <3>6. \A c \in Comments : position'[<<t, c>>] =
            IF c \in KeptOf(read, from, size) /\ position[<<t, c>>] = None
            THEN Position(read, from, c) ELSE position[<<t, c>>]
      BY <1>1, <1>7
    <3>7. /\ read \in Batches /\ ~BatchEnds(read) /\ t \in Threads
          /\ said[t] \in 0..MaxComments /\ walked[t] \in SUBSET Comments
      BY <1>1, <1>4
    <3>8. /\ ready \in BOOLEAN /\ ready => FromOf(read, said[t]) > size
          /\ ~ready /\ FromOf(read, said[t]) > size =>
               \E c \in ItemsOf(FromOf(read, said[t]), size) : c <= read.since
      BY <1>2
    <3> HIDE DEF read, t
    <3> QED BY <1>9, <3>1, <3>2, <3>3, <3>5, <3>6, <3>7, <3>8, PagePlaced
  <2>4. PlaceRead(position', new, said, faults)
    BY <1>3, <2>3 DEF PlaceRead
  <2>5. ASSUME NEW u \in Threads PROVE PlaceSound(position', u, row[u], said[u], faults, new)
    <3>1. LastIsStored(position', u, row[u])
      <4>1. SUFFICES ASSUME OpenRow(row[u])
                     PROVE  /\ row[u].batchStart > 0 /\ row[u].cursor + 1 \in Comments
                            /\ position'[<<u, row[u].cursor + 1>>] = row[u].batchStart - 1
        BY DEF LastIsStored
      <4>2. /\ row[u].batchStart > 0 /\ row[u].cursor + 1 \in Comments
            /\ position[<<u, row[u].cursor + 1>>] = row[u].batchStart - 1
        BY <2>1, <4>1 DEF PlaceSound, LastIsStored
      <4>3. row[u].batchStart \in Nat
        <5>1. row[u] \in Rows
          BY <1>4
        <5> QED BY <4>1, <5>1, RowParts DEF OpenRow, Numbers
      <4>4. position[<<u, row[u].cursor + 1>>] # None
        BY <4>2, <4>3, Limits
      <4> QED BY <1>7, <4>2, <4>4
    <3>2. "crash" \notin faults /\ ~BeingRead(new, u) => Fresh(position', u, row[u])
      <4>1. SUFFICES ASSUME "crash" \notin faults, ~BeingRead(new, u) PROVE Fresh(position', u, row[u])
        OBVIOUS
      <4>2. u # t /\ Fresh(position, u, row[u])
        BY <1>1, <1>8, <2>1, <4>1 DEF PlaceSound, BeingRead
      <4>3. \A c \in Comments : position'[<<u, c>>] = position[<<u, c>>]
        BY <1>7, <4>2
      <4> QED BY <4>2, <4>3 DEF Fresh
    <3>3. "growth" \notin faults => Level(position', u, row[u], said[u])
      <4>1. SUFFICES ASSUME "growth" \notin faults PROVE Level(position', u, row[u], said[u])
        OBVIOUS
      <4>2. Level(position, u, row[u], said[u])
        BY <2>1, <4>1 DEF PlaceSound
      <4>3. CASE u = t
        BY <1>5, <2>3, <4>1, <4>2, <4>3 DEF Level
      <4>4. CASE u # t
        <5>1. \A c \in Comments : position'[<<u, c>>] = position[<<u, c>>]
          BY <1>7, <4>4
        <5> QED BY <4>2, <5>1 DEF Level
      <4> QED BY <4>3, <4>4
    <3> QED BY <3>1, <3>2, <3>3 DEF PlaceSound
  <2> QED BY <2>4, <2>5
<1>10. Steady(faults) =>
         /\ \A u \in Threads : PlaceSound(position', u, row'[u], said'[u], faults, job'[m])
         /\ job'[m] # None /\ job'[m].pc = "page" => PlaceRead(position', job'[m], said', faults)
  BY <1>6, <1>9
<1> QED BY <1>6, <1>10, PlaceKept

LEMMA RecordPlaces ==
  ASSUME OneMonitor, Inv, WalkInv, PlaceInv, NEW m \in Monitors, Record(m)
  PROVE  PlaceInv'
<1> DEFINE t == job[m].thread
           read == job[m].read
           seen == job[m].seen[t]
           new == RecordedOf(row[t], read, seen)
           j == ReadOf(job[m], t)
<1>1. /\ job[m] # None /\ job[m] \in RepliesJobs /\ job[m].pc = "page"
      /\ t \in job[m].todo /\ t \in Threads /\ read \in Batches
      /\ seen \in Rows /\ BatchSound(read, seen)
      /\ BatchEnds(read) \/ read.pages > 0
      /\ job' = [job EXCEPT ![m] = j]
      /\ row' = [row EXCEPT ![t] = new]
  BY Records
<1>2. /\ row \in [Threads -> Rows] /\ row[t] \in Rows /\ walked[t] \in SUBSET Comments
  BY <1>1 DEF Inv, TypeOK
<1>3. RunSound(job[m], row, walked) /\ WalkOf(row[t], walked[t])
  BY <1>1 DEF WalkInv
<1>4. seen = row[t] /\ (seen.stoppedAt = None => ReadsOn(read, walked[t]))
  BY <1>1, <1>3 DEF RunSound
<1>5. /\ seen.stoppedAt # None => new.stoppedAt # None
      /\ OpenRow(new) => /\ seen.stoppedAt = None /\ read.pages > 0 /\ read.partial
                         /\ read.cursor # None /\ ~read.ended
  <2> HIDE DEF read, t
  <2> QED BY <1>1, <1>2, <1>3, <1>4, RecordedWalk
<1>6. new.cursor = read.cursor /\ new.batchStart = read.offset /\ new.batchStart # None
  <2>1. new.cursor = read.cursor /\ new.batchStart = read.offset
    BY <1>1, <1>2, RecordedIs
  <2> QED BY <2>1, <1>1, ReadParts, Limits
<1>7. j \in RepliesJobs /\ j.pc = "threads"
  BY <1>1, ReadOfIs
<1> HIDE DEF j, new
<1>8. job'[m] = j /\ UNCHANGED <<faults, said, position>>
  <2>1. UNCHANGED <<faults, said, position>>
    BY DEF Record
  <2> QED BY <2>1, <1>1, <1>7, JobMoves DEF Inv
<1>9. row'[t] = new /\ \A u \in Threads : u # t => row'[u] = row[u]
  BY <1>1, <1>2
<1>10. ASSUME Steady(faults), NEW u \in Threads
       PROVE  PlaceSound(position, u, row'[u], said[u], faults, j)
  <2>1. PlaceSound(position, u, row[u], said[u], faults, job[m])
    BY <1>10 DEF PlaceInv
  <2>2. CASE u # t
    <3>1. ~BeingRead(job[m], u)
      BY <2>2 DEF BeingRead
    <3> QED BY <1>9, <2>1, <2>2, <3>1, PlaceLike
  <2>3. CASE u = t
    <3>1. PlaceRead(position, job[m], said, faults)
      BY <1>1, <1>10 DEF PlaceInv
    <3>2. seen.stoppedAt = None =>
            /\ LastRead(position, t, read)
            /\ "crash" \notin faults => FreshRead(position, t, read)
            /\ "growth" \notin faults => LevelRead(read, said[t])
      BY <3>1 DEF PlaceRead
    <3>3. "growth" \notin faults => Level(position, t, seen, said[t])
      BY <1>4, <2>1, <2>3 DEF PlaceSound
    <3> HIDE DEF seen, read, t
    <3>4. LastIsStored(position, t, new)
      BY <1>5, <1>6, <3>2 DEF LastRead, LastIsStored
    <3>5. "crash" \notin faults => Fresh(position, t, new)
      BY <1>5, <1>6, <3>2 DEF FreshRead, Fresh
    <3>6. "growth" \notin faults => Level(position, t, new, said[t])
      BY <1>5, <1>6, <3>2, <3>3 DEF LevelRead, Level
    <3> QED BY <1>9, <2>3, <3>4, <3>5, <3>6 DEF PlaceSound
  <2> QED BY <2>2, <2>3
<1>11. Steady(faults) => \A u \in Threads : PlaceSound(position', u, row'[u], said'[u], faults, job'[m])
  BY <1>8, <1>10
<1>12. job'[m].pc # "page"
  BY <1>7, <1>8
<1> QED BY <1>8, <1>11, <1>12, PlaceKept

LEMMA InitPlaces ==
  ASSUME Init
  PROVE  PlaceInv
<1>1. ASSUME NEW t \in Threads, NEW m \in Monitors
      PROVE  PlaceSound(position, t, row[t], said[t], faults, job[m])
  <2>1. row[t] = Unread /\ \A c \in Comments : position[<<t, c>>] = None
    BY DEF Init, Replies
  <2>2. Unread.batchStart = None /\ ~OpenRow(Unread)
    BY DEF Unread, OpenRow
  <2> QED BY <2>1, <2>2 DEF PlaceSound, LastIsStored, Fresh, Level
<1>2. \A m \in Monitors : job[m] = None
  BY DEF Init
<1> QED BY <1>1, <1>2 DEF PlaceInv

LEMMA NextPlaces ==
  ASSUME OneMonitor, Inv, WalkInv, PlaceInv, [Next]_vars
  PROVE  PlaceInv'
<1>1. CASE UNCHANGED vars
  BY <1>1 DEF vars, PlaceInv
<1>2. CASE \E t \in Threads : Grow(t)
  BY <1>2, GrowPlaces
<1>3. CASE \E m \in Monitors : \E found \in SUBSET Threads : Poll(m, found)
  BY <1>3, PollPlaces
<1>4. CASE \E m \in Monitors : \E h \in handed : \E found \in SUBSET h.replies : Score(m, h, found)
  BY <1>4, ScorePlaces
<1>5. CASE \E m \in Monitors : Crash(m) \/ SkipFull(m) \/ RefuseAtCap(m) \/ Start(m) \/ Record(m) \/ Finish(m)
  BY <1>5, CrashPlaces, SkipFullPlaces, RefuseAtCapPlaces, StartPlaces, RecordPlaces, FinishPlaces
<1>6. CASE \E m \in Monitors, t \in Threads :
             SkipThread(m, t) \/ CloseThread(m, t) \/ SkipUnread(m, t) \/ OpenThread(m, t)
  BY <1>6, SkipThreadPlaces, CloseThreadPlaces, SkipUnreadPlaces, OpenThreadPlaces
<1>7. CASE \E m \in Monitors, size \in PageSizes, stops \in BOOLEAN : Page(m, size, stops)
  BY <1>7, PagePlaces
<1> QED BY <1>1, <1>2, <1>3, <1>4, <1>5, <1>6, <1>7, StepIs, Zenon

---------------------------------------------------------------------------
\* What a verdict rests on.

\* No poll opens threads while comments wait to be classified, and comments are not added
\* to the threads that runs die on: the sets of faults the verdicts are stated for.
CalmFaults == \A F \in FaultSets : "late" \notin F /\ Steady(F)

\* The comments that are judged were dealt with.
LEMMA JudgedWereDealtWith ==
  ASSUME OneMonitor, Inv, WalkInv, "late" \notin faults,
         NEW m \in Monitors, NEW t \in Threads, CloseThread(m, t)
  PROVE  Batch(t, job[m].seen[t]) \subseteq scored[m] \cup lost
<1>1. At(m, t)
  BY Closes
<1>2. /\ job[m] # None /\ job[m].pc = "threads" /\ t \in job[m].todo
      /\ RunSound(job[m], row, walked) /\ handed = {}
  BY <1>1, AtIs DEF WalkInv
<1>3. \A n \in Monitors : n = m
  BY Zenon DEF OneMonitor
<1> SUFFICES ASSUME NEW r \in Batch(t, job[m].seen[t]), r \notin lost
             PROVE  r \in scored[m]
  OBVIOUS
<1>4. r \in Replies /\ r[1] = t /\ position[r] # None
  BY DEF Batch
<1>5. PICK n \in Monitors :
        \/ r \in scored[n]
        \/ \E h \in handed : h.monitor = n /\ r \in h.replies
        \/ job[n] # None /\ r \in job[n].stored
  BY <1>4, Zenon DEF Inv, StoredIsHandedOn
<1>6. n = m
  BY <1>3
<1>7. r \notin job[m].stored
  BY <1>2, <1>4 DEF RunSound
<1> QED BY <1>2, <1>5, <1>6, <1>7

\* While a thread is read for the first time there is a comment to judge by.
LEMMA JudgedOnSomething ==
  ASSUME Inv, WalkInv, PlaceInv, Steady(faults),
         NEW m \in Monitors, NEW t \in Threads, CloseThread(m, t), job[m].seen[t].stoppedAt = None
  PROVE  Batch(t, job[m].seen[t]) # {}
<1> DEFINE seen == job[m].seen[t]
<1>1. At(m, t) /\ ~Ended(seen) /\ JudgedEmpty(m, t, seen)
  BY Closes
<1>2. /\ job[m] # None /\ job[m].pc = "threads" /\ t \in job[m].todo
      /\ RunSound(job[m], row, walked) /\ seen \in Rows
  BY <1>1, AtIs DEF WalkInv
<1>3. seen = row[t] /\ WalkOf(seen, walked[t])
  BY <1>2 DEF WalkInv, RunSound
<1>4. PlaceSound(position, t, seen, said[t], faults, job[m])
  BY <1>3 DEF PlaceInv
<1>5. ReadTo(seen) > JudgedTo(seen) /\ ReadTo(seen) \in Nat /\ JudgedTo(seen) \in Nat
  BY <1>1, <1>2, ReadToIs DEF JudgedEmpty
<1>6. /\ seen.batchStart = None => ReadTo(seen) = 0
      /\ seen.batchStart # None => OpenRow(seen) /\ ReadTo(seen) = seen.batchStart
  BY <1>1, <1>2, <1>3, OpensBelow
<1>7. OpenRow(seen) /\ ReadTo(seen) = seen.batchStart
  BY <1>5, <1>6
<1> DEFINE c == seen.cursor + 1
<1>8. c \in Comments /\ position[<<t, c>>] = seen.batchStart - 1
  BY <1>4, <1>7 DEF PlaceSound, LastIsStored
<1>9. position[<<t, c>>] = ReadTo(seen) - 1
  BY <1>7, <1>8
<1> HIDE DEF c, seen
<1>10. <<t, c>> \in Replies /\ position[<<t, c>>] \in Nat /\ position[<<t, c>>] # None
  BY <1>5, <1>8, <1>9, Limits DEF Replies
<1>11. JudgedTo(seen) <= position[<<t, c>>] /\ position[<<t, c>>] < ReadTo(seen)
  BY <1>5, <1>9
<1>12. <<t, c>> \in Batch(t, seen)
  BY <1>10, <1>11 DEF Batch
<1> QED BY <1>12 DEF seen

\* With one monitor, where a comment sits says how far a walk has come, through every
\* fault but comments added to threads that runs die on.
THEOREM PlacesAreKept == OneMonitor => (Spec => [](Inv /\ WalkInv /\ PlaceInv /\ faults \in FaultSets))
<1> SUFFICES ASSUME OneMonitor PROVE Spec => [](Inv /\ WalkInv /\ PlaceInv /\ faults \in FaultSets)
  OBVIOUS
<1>1. Init => Inv /\ WalkInv /\ PlaceInv
  BY InitKeeps, InitWalks, InitPlaces
<1>2. Inv /\ WalkInv /\ PlaceInv /\ [Next]_vars => (Inv /\ WalkInv /\ PlaceInv)'
  BY NextKeeps, NextWalks, NextPlaces
<1>3. Inv => faults \in FaultSets
  BY DEF Inv, TypeOK
<1> QED BY <1>1, <1>2, <1>3, PTL DEF Spec

\* A thread is closed as worthless only on comments that were all dealt with, and while it
\* is read for the first time on at least one: for one monitor whose polls wait for the
\* classifier, any number of threads and comments, and every limit.
THEOREM VerdictsRestOnEvidence == OneMonitor /\ CalmFaults => (Spec => JudgedOnEvidence)
<1> SUFFICES ASSUME OneMonitor, CalmFaults PROVE Spec => JudgedOnEvidence
  OBVIOUS
<1> DEFINE IInv == Inv /\ WalkInv /\ PlaceInv /\ faults \in FaultSets
           Judged == \A m \in Monitors, t \in Threads :
             CloseThread(m, t) =>
               LET batch == Batch(t, job[m].seen[t]) IN
               /\ batch \subseteq scored[m] \cup lost
               /\ job[m].seen[t].stoppedAt = None => batch # {}
<1>1. IInv /\ [Next]_vars => [Judged]_vars
  <2>1. SUFFICES ASSUME IInv, NEW m \in Monitors, NEW t \in Threads, CloseThread(m, t)
                 PROVE  /\ Batch(t, job[m].seen[t]) \subseteq scored[m] \cup lost
                        /\ job[m].seen[t].stoppedAt = None => Batch(t, job[m].seen[t]) # {}
    BY Zenon
  <2>2. "late" \notin faults /\ Steady(faults)
    BY <2>1 DEF CalmFaults
  <2> QED BY <2>1, <2>2, JudgedWereDealtWith, JudgedOnSomething
<1>2. Spec => []IInv
  BY PlacesAreKept
<1>3. Spec => [][Next]_vars
  BY PTL DEF Spec
<1> QED BY <1>1, <1>2, <1>3, PTL DEF JudgedOnEvidence
=============================================================================
