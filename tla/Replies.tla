------------------------------ MODULE Replies ------------------------------
(***************************************************************************)
(* The replies step (worker/replies.ts): threads are bought batch by batch  *)
(* over many polls, each batch is judged by the matches it made before the  *)
(* next is bought, and the comments go back through the filter.             *)
(*                                                                         *)
(* A thread's comments are numbered by age and listed newest first, as the  *)
(* connectors whose order is known list them; a cursor is the comment the   *)
(* next page begins with.  What the filter and the classifier make of a     *)
(* batch is one step, which says which comments became matches.             *)
(***************************************************************************)
EXTENDS Integers, FiniteSets

CONSTANTS
  Monitors,
  Threads,     \* posts whose threads polls hand to the step
  Counted,     \* the threads whose platform says how many comments there are
  Growing,     \* bound: the threads comments are added to while polls go on
  None,        \* null
  BatchSize,   \* comments a batch is for (50)
  PageSizes,   \* comments one page may hold
  MaxPages,    \* pages one batch may buy (4)
  MaxEmpty,    \* batches without a match before a thread is closed (1)
  Ceiling,     \* comments one walk of a thread may buy (500)
  MaxThreads,  \* threads one job may open (25)
  MaxComments, \* bound: comments of a thread
  MaxCrashes,  \* bound: jobs that die
  FaultSets    \* the sets of faults a behaviour may meet

AllFaults ==
  { "crash",   \* the worker dies, a page fails or a statement does
    "growth",  \* comments are written after the first poll
    "budget",  \* the monthly cap is reached, for a while
    "day",     \* the pairs that found the post have spent their day (ceiling.ts)
    "keys",    \* no connector of the platform can be run just now
    "full",    \* the walk has its matches
    "late" }   \* a poll opens threads while comments wait to be classified

Numbers == Nat \cup {None}
Comments == 1..MaxComments
Replies == Threads \X Comments
Stops == {"threshold", "ceiling", "end", "budget"}

\* The columns of a post that the step reads and writes.
Rows ==
  [count : Numbers, partial : BOOLEAN \cup {None}, readAt : Numbers, cursor : Comments \cup {None},
   batchStart : Numbers, empty : 0..MaxEmpty, stopped : Stops \cup {None}, stoppedAt : Numbers,
   judgedTo : Nat]

\* A batch while it is read.
Batches ==
  [offset : Nat, cursor : Comments \cup {None}, pages : Nat, got : Nat, partial : BOOLEAN,
   ended : BOOLEAN, want : Nat, readAt : Nat, since : Nat, empty : 0..MaxEmpty,
   items : SUBSET Comments]

\* A replies job, sent or running.
RepliesJobs ==
  [pc : {"queued", "threads", "page"}, ids : SUBSET Threads, todo : SUBSET Threads,
   seen : [Threads -> Rows] \cup {None}, opened : Nat, stored : SUBSET Replies,
   thread : Threads \cup {None}, read : Batches \cup {None}]

\* Providers bound their pages.
ASSUME RepliesAssumption ==
  /\ Counted \subseteq Threads /\ Growing \subseteq Threads
  /\ None \notin Nat /\ None \notin Stops /\ None \notin RepliesJobs
  /\ {BatchSize, MaxPages, MaxEmpty, Ceiling, MaxThreads, MaxComments} \subseteq Nat \ {0}
  /\ PageSizes \subseteq Nat \ {0} /\ \E n \in PageSizes : \A other \in PageSizes : other <= n
  /\ MaxCrashes \in Nat
  /\ FaultSets \subseteq SUBSET AllFaults

VARIABLES
  faults,    \* what may happen in this behaviour
  said,      \* thread -> comments the platform holds
  row,       \* thread -> the replies_* columns of its post, and reply_count
  position,  \* <<thread, comment>> -> the stored reply's thread_position
  job,       \* monitor -> its replies job, or None
  handed,    \* filter jobs sent: [monitor, replies]
  scored,    \* monitor -> replies the pipeline has dealt with
  leads,     \* monitor -> replies that are its matches
  walked,    \* thread -> the comments its walk has read and recorded
  again,     \* threads whose first walk recorded a comment twice
  lost,      \* replies stored by jobs that died
  crashes    \* jobs that died so far

vars == <<faults, said, row, position, job, handed, scored, leads, walked, again, lost, crashes>>

Unread == [count |-> None, partial |-> None, readAt |-> None, cursor |-> None, batchStart |-> None,
           empty |-> 0, stopped |-> None, stoppedAt |-> None, judgedTo |-> 0]

Init ==
  /\ faults \in FaultSets
  /\ said \in [Threads -> 0..MaxComments]
  /\ row = [t \in Threads |-> Unread]
  /\ position = [r \in Replies |-> None]
  /\ job = [m \in Monitors |-> None]
  /\ handed = {}
  /\ scored = [m \in Monitors |-> {}] /\ leads = [m \in Monitors |-> {}]
  /\ walked = [t \in Threads |-> {}] /\ again = {} /\ lost = {} /\ crashes = 0

\* A job as it is sent, and what a run of it will hold.
Queued(found) == [pc |-> "queued", ids |-> found, todo |-> {}, seen |-> None,
                  opened |-> 0, stored |-> {}, thread |-> None, read |-> None]

Lower(a, b) == IF a < b THEN a ELSE b

---------------------------------------------------------------------------
\* Around the step.

Grow(t) ==
  /\ "growth" \in faults /\ t \in Growing /\ said[t] < MaxComments
  /\ said' = [said EXCEPT ![t] = @ + 1]
  /\ UNCHANGED <<faults, row, position, job, handed, scored, leads, walked, again, lost, crashes>>

\* A poll finds the posts again, stores the counts it was told, and the filter hands
\* them on.  A monitor has one replies job at a time.
Poll(m, found) ==
  /\ job[m] = None /\ found # {}
  /\ "late" \in faults \/ \A h \in handed : h.monitor # m
  /\ row' = [t \in Threads |->
       IF t \in found \cap Counted THEN [row[t] EXCEPT !.count = said[t]] ELSE row[t]]
  /\ job' = [job EXCEPT ![m] = Queued(found)]
  /\ UNCHANGED <<faults, said, position, handed, scored, leads, walked, again, lost, crashes>>

\* Filter and classifier deal with a job's replies: some become matches.
Score(m, h, found) ==
  /\ h.monitor = m /\ found \subseteq h.replies
  /\ handed' = handed \ {h}
  /\ scored' = [scored EXCEPT ![m] = @ \cup h.replies]
  /\ leads' = [leads EXCEPT ![m] = @ \cup found]
  /\ UNCHANGED <<faults, said, row, position, job, walked, again, lost, crashes>>

\* The run dies or throws, and the job is retried with what it was sent.
Crash(m) ==
  /\ "crash" \in faults /\ crashes < MaxCrashes
  /\ job[m] # None /\ job[m].pc # "queued"
  /\ job' = [job EXCEPT ![m] = Queued(job[m].ids)]
  /\ lost' = lost \cup job[m].stored
  /\ crashes' = crashes + 1
  /\ UNCHANGED <<faults, said, row, position, handed, scored, leads, walked, again>>

---------------------------------------------------------------------------
\* A run begins.

\* The collection has its matches, and nothing is opened.
SkipFull(m) ==
  /\ "full" \in faults
  /\ job[m] # None /\ job[m].pc = "queued"
  /\ job' = [job EXCEPT ![m] = None]
  /\ UNCHANGED <<faults, said, row, position, handed, scored, leads, walked, again, lost, crashes>>

\* refuseAtCap: the threads that were being read say why they stopped.
RefuseAtCap(m) ==
  /\ "budget" \in faults
  /\ job[m] # None /\ job[m].pc = "queued"
  /\ row' = [t \in Threads |->
       IF t \in job[m].ids /\ row[t].batchStart # None /\ row[t].stopped = None
       THEN [row[t] EXCEPT !.stopped = "budget"] ELSE row[t]]
  /\ job' = [job EXCEPT ![m] = None]
  /\ UNCHANGED <<faults, said, position, handed, scored, leads, walked, again, lost, crashes>>

\* readThreads: every thread's row is read once, for the whole run.
Start(m) ==
  /\ job[m] # None /\ job[m].pc = "queued"
  /\ job' = [job EXCEPT ![m] = [job[m] EXCEPT !.pc = "threads", !.todo = job[m].ids, !.seen = row]]
  /\ UNCHANGED <<faults, said, row, position, handed, scored, leads, walked, again, lost, crashes>>

---------------------------------------------------------------------------
\* One thread of the run, by the row as it was read.

\* More was said since reading stopped.
Grew(seen) ==
  /\ seen.stopped # None
  /\ seen.count # None /\ seen.stoppedAt # None
  /\ seen.count > seen.stoppedAt

\* Reading was ended by a decision that holds.
Ended(seen) == seen.stopped \notin {None, "budget"} /\ ~Grew(seen)

JudgedTo(seen) == IF Grew(seen) THEN 0 ELSE seen.judgedTo
ReadTo(seen) == IF Grew(seen) \/ seen.batchStart = None THEN 0 ELSE seen.batchStart

\* The stored comments of the batch that is judged.
Batch(t, seen) ==
  {r \in Replies : /\ r[1] = t /\ position[r] # None
                   /\ JudgedTo(seen) <= position[r] /\ position[r] < ReadTo(seen)}

\* judgeLastBatch: batches in a row that made no match.
Empties(m, t, seen) ==
  IF ReadTo(seen) <= JudgedTo(seen) THEN IF Grew(seen) THEN 0 ELSE seen.empty
  ELSE IF Batch(t, seen) \cap leads[m] # {} THEN 0
  ELSE (IF Grew(seen) THEN 0 ELSE seen.empty) + 1

JudgedEmpty(m, t, seen) == ReadTo(seen) > JudgedTo(seen) /\ Empties(m, t, seen) >= MaxEmpty

\* May the run come to this thread?
At(m, t) ==
  /\ job[m] # None /\ job[m].pc = "threads"
  /\ t \in job[m].todo /\ job[m].opened < MaxThreads

Done(m, t) == [job EXCEPT ![m] = [job[m] EXCEPT !.todo = job[m].todo \ {t}]]

\* No comments, the day is spent, or reading has ended.
SkipThread(m, t) ==
  /\ At(m, t)
  /\ LET seen == job[m].seen[t] IN seen.count = 0 \/ "day" \in faults \/ Ended(seen)
  /\ job' = Done(m, t)
  /\ UNCHANGED <<faults, said, row, position, handed, scored, leads, walked, again, lost, crashes>>

Considered(m, t) == At(m, t) /\ job[m].seen[t].count # 0 /\ ~Ended(job[m].seen[t])

\* The last batch held no lead.
CloseThread(m, t) ==
  /\ Considered(m, t)
  /\ LET seen == job[m].seen[t] IN
     /\ JudgedEmpty(m, t, seen)
     /\ row' = [row EXCEPT ![t] = [row[t] EXCEPT
          !.stopped = "threshold", !.empty = Empties(m, t, seen),
          !.judgedTo = ReadTo(seen), !.stoppedAt = seen.count]]
  /\ job' = Done(m, t)
  /\ UNCHANGED <<faults, said, position, handed, scored, leads, walked, again, lost, crashes>>

Goes(m, t) == Considered(m, t) /\ ~JudgedEmpty(m, t, job[m].seen[t])

\* It was read whole, or no connector can read it.
NothingToBuy(seen) == seen.partial = FALSE /\ seen.count # None

SkipUnread(m, t) ==
  /\ Goes(m, t)
  /\ NothingToBuy(job[m].seen[t]) \/ "keys" \in faults
  /\ job' = Done(m, t)
  /\ UNCHANGED <<faults, said, row, position, handed, scored, leads, walked, again, lost, crashes>>

FirstBatch(seen) == Grew(seen) \/ seen.batchStart = None
RoomLeft(seen) == Ceiling - ReadTo(seen)

Want(seen) == Lower(BatchSize, RoomLeft(seen))

\* A slip of Place: every batch begins at the top of the thread.
PlaceTop(seen) == None

\* Where the provider is asked to go on: a walk that begins again has no cursor.
Place(seen) == IF Grew(seen) THEN None ELSE seen.cursor

\* A batch begins: there is always room for it (WalkHasACeiling).  On the first batch of a walk its
\* window is the thread's last read.
OpenThread(m, t) ==
  /\ Goes(m, t) /\ ~NothingToBuy(job[m].seen[t])
  /\ LET seen == job[m].seen[t] IN
     job' = [job EXCEPT ![m] = [job[m] EXCEPT !.pc = "page", !.thread = t, !.read =
          [offset |-> ReadTo(seen), cursor |-> Place(seen), pages |-> 0, got |-> 0,
           partial |-> TRUE, ended |-> FALSE, want |-> Want(seen), readAt |-> said[t],
           since |-> IF FirstBatch(seen) /\ seen.readAt # None THEN seen.readAt ELSE 0,
           empty |-> Empties(m, t, seen), items |-> {}]]]
  /\ UNCHANGED <<faults, said, row, position, handed, scored, leads, walked, again, lost, crashes>>

---------------------------------------------------------------------------
\* readBatch.

Reading(m) == job[m] # None /\ job[m].pc = "page"

\* The batch is full, or its last page was the last one.
BatchEnds(read) == read.ended \/ read.pages >= MaxPages \/ read.got >= read.want

\* A slip of Position: every batch numbers its comments from the top.
PositionInBatch(read, from, comment) == from - comment

\* Where a comment sits in the walk, as the caller counts for the connector.
Position(read, from, comment) == read.offset + from - comment

\* A slip of More: a page that was just filled has another behind it.
MoreAtEnd(from, size) == from >= size

More(from, size) == from > size

\* A slip of Held: the run holds what its last page stored.
HeldLast(stored, new) == new

\* What the run will hand on.
Held(stored, new) == stored \cup new

\* A page is bought and stored.  What is older than the window is dropped, though it
\* was sold; a connector may see that all the rest is older too, and say it is done.
Page(m, size, stops) ==
  /\ Reading(m) /\ ~BatchEnds(job[m].read)
  /\ LET t == job[m].thread
         read == job[m].read
         from == IF read.cursor = None THEN said[t] ELSE read.cursor
         items == (from - Lower(size, from) + 1)..from
         kept == {c \in items : c > read.since}
         more == More(from, size)
         past == stops /\ more /\ \E c \in items : c <= read.since
         ready == more /\ ~past IN
     /\ stops => past
     /\ position' = [r \in Replies |->
          IF r[1] = t /\ r[2] \in kept /\ position[r] = None
          THEN Position(read, from, r[2]) ELSE position[r]]
     /\ job' = [job EXCEPT ![m] = [job[m] EXCEPT
          !.stored = Held(job[m].stored, {<<t, c>> : c \in kept}),
          !.read = [read EXCEPT
             !.pages = read.pages + 1, !.partial = ready,
             !.offset = read.offset + Cardinality(items), !.got = read.got + Cardinality(items),
             !.items = read.items \cup items,
             !.ended = ~ready \/ kept = {},
             !.cursor = IF ready /\ kept # {} THEN from - size ELSE read.cursor]]]
  /\ UNCHANGED <<faults, said, row, handed, scored, leads, walked, again, lost, crashes>>

\* A slip of StopReason: the end of a thread is not written.
StopReasonMissed(read) == IF read.offset >= Ceiling THEN "ceiling" ELSE None

\* Another: a walk without room is not closed.
StopReasonOpen(read) == IF ~read.partial THEN "end" ELSE None

StopReason(read) ==
  IF ~read.partial THEN "end" ELSE IF read.offset >= Ceiling THEN "ceiling" ELSE None

\* recordProgress, once the batch is over or the pairs' day is.
Record(m) ==
  /\ Reading(m)
  /\ BatchEnds(job[m].read) \/ ("day" \in faults /\ job[m].read.pages > 0)
  /\ LET t == job[m].thread
         read == job[m].read
         seen == job[m].seen[t]
         stopped == StopReason(read) IN
     /\ row' = [row EXCEPT ![t] = [row[t] EXCEPT
          !.partial = read.partial,
          !.readAt = IF FirstBatch(seen) THEN read.readAt ELSE row[t].readAt,
          !.cursor = read.cursor, !.batchStart = read.offset,
          !.judgedTo = ReadTo(seen), !.empty = read.empty,
          !.stopped = stopped,
          !.stoppedAt = IF stopped = None THEN row[t].stoppedAt ELSE seen.count]]
     /\ walked' = [walked EXCEPT ![t] = read.items \cup (IF FirstBatch(seen) THEN {} ELSE @)]
     /\ again' = IF seen.stoppedAt = None /\ read.items \cap walked[t] # {}
                 THEN again \cup {t} ELSE again
     /\ job' = [job EXCEPT ![m] = [job[m] EXCEPT !.pc = "threads", !.thread = None, !.read = None,
                           !.todo = job[m].todo \ {t}, !.opened = job[m].opened + 1]]
  /\ UNCHANGED <<faults, said, position, handed, scored, leads, lost, crashes>>

\* The loop is over: what was stored goes back through the filter.
Finish(m) ==
  /\ job[m] # None /\ job[m].pc = "threads"
  /\ job[m].todo = {} \/ job[m].opened >= MaxThreads
  /\ handed' = IF job[m].stored = {} THEN handed ELSE handed \cup {[monitor |-> m, replies |-> job[m].stored]}
  /\ job' = [job EXCEPT ![m] = None]
  /\ UNCHANGED <<faults, said, row, position, scored, leads, walked, again, lost, crashes>>

Step(m) ==
  \/ SkipFull(m) \/ RefuseAtCap(m) \/ Start(m)
  \/ \E t \in Threads : \/ SkipThread(m, t) \/ CloseThread(m, t) \/ SkipUnread(m, t)
                        \/ OpenThread(m, t)
  \/ \E size \in PageSizes, stops \in BOOLEAN : Page(m, size, stops)
  \/ Record(m) \/ Finish(m)

Scoring(m) == \E h \in handed : \E found \in SUBSET h.replies : Score(m, h, found)

Next ==
  \/ \E t \in Threads : Grow(t)
  \/ \E m \in Monitors :
       \/ \E found \in SUBSET Threads : Poll(m, found)
       \/ Scoring(m) \/ Crash(m) \/ Step(m)

Spec == Init /\ [][Next]_vars

\* The workers run what is sent, and again and again a poll finds every post.
LiveSpec ==
  /\ Spec
  /\ \A m \in Monitors : /\ SF_vars(Poll(m, Threads)) /\ WF_vars(Scoring(m)) /\ WF_vars(Step(m))

---------------------------------------------------------------------------
\* Properties.

TypeOK ==
  /\ faults \in FaultSets
  /\ said \in [Threads -> 0..MaxComments]
  /\ row \in [Threads -> Rows] /\ position \in [Replies -> Numbers]
  /\ job \in [Monitors -> RepliesJobs \cup {None}]
  /\ handed \subseteq [monitor : Monitors, replies : SUBSET Replies]
  /\ scored \in [Monitors -> SUBSET Replies] /\ leads \in [Monitors -> SUBSET Replies]
  /\ walked \in [Threads -> SUBSET Comments] /\ again \subseteq Threads /\ lost \subseteq Replies
  /\ crashes \in 0..MaxCrashes

\* A thread is closed as worthless only when every comment of the batch judged was
\* dealt with, the seam between two jobs (replies.ts:336); and while a thread is read for
\* the first time there was at least one.  A later walk numbers its batches anew, over
\* comments that keep the numbers they had.
JudgedOnEvidence ==
  [][\A m \in Monitors, t \in Threads :
       CloseThread(m, t) =>
         LET batch == Batch(t, job[m].seen[t]) IN
         /\ batch \subseteq scored[m] \cup lost
         /\ job[m].seen[t].stoppedAt = None => batch # {}]_vars

\* No comment is bought twice while a thread is read for the first time, over every poll
\* that takes, unless a run dies in a batch (replies.ts:892: a batch pages on from where
\* the last one stopped).  A walk that begins again may, behind a page its window emptied.
WalksOn == again = {}

Widest == CHOOSE n \in PageSizes : \A other \in PageSizes : other <= n

\* A walk never buys more than the ceiling and the rest of the page that reached it, and
\* a walk without room has a decision that holds: the check of the room before a batch
\* (replies.ts:896) never finds none, and a month's refusal cannot open the thread again.
WalkHasACeiling ==
  \A t \in Threads : row[t].batchStart # None =>
    /\ row[t].batchStart < Ceiling + Widest
    /\ row[t].batchStart >= Ceiling => row[t].stopped \notin {None, "budget"}

\* A comment that was bought and stored is dealt with, on its way to the filter, held by
\* a run that will hand it on, or was held by one that died.
StoredIsHandedOn ==
  \A r \in Replies : position[r] # None =>
    \/ r \in lost
    \/ \E m \in Monitors :
         \/ r \in scored[m]
         \/ \E h \in handed : h.monitor = m /\ r \in h.replies
         \/ job[m] # None /\ r \in job[m].stored

\* Reading comes to an end on every thread that polls keep finding, and stays ended
\* once nothing more is said, if the step is let through to the threads.
ReadingEnds ==
  faults \cap {"full", "keys", "day", "budget"} = {} =>
    \A t \in Threads : <>[](said[t] = 0 \/ row[t].stopped # None)

\* What a run stored before it died reaches the filter all the same (docs/pipeline.md:196).
\* The code does not keep this: a retry does not send what an earlier run recorded.
BoughtIsHandedOn ==
  \A r \in Replies : r \in lost ~> \E m \in Monitors : r \in scored[m]

\* A thread is passed by as read whole only when nothing new was said (replies.ts:814).
\* The code does not keep this: a thread that ended and grew stays shut.
NothingNewWasSaid ==
  [][\A m \in Monitors, t \in Threads :
       SkipUnread(m, t) /\ "keys" \notin faults => ~Grew(job[m].seen[t])]_vars
=============================================================================
