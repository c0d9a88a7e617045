------------------------------ MODULE Collect ------------------------------
(***************************************************************************)
(* One monitor's poll step (worker/collect.ts) with the rows it lives by:  *)
(* source_continuations, source_coverage, poll_runs, and the poll queue.   *)
(*                                                                         *)
(* A search of one unit (a platform, or one search of a platform when the  *)
(* searches take turns) opens a walk: the posts published after the walk's *)
(* window and up to its trigger, served page by page.  A walk outlives the *)
(* job that opened it; what carries it over is a source_continuations row. *)
(*                                                                         *)
(* Time is counted in ticks.  One post is published per unit and tick, so  *)
(* a post is named by its unit and the tick it appeared in.                *)
(***************************************************************************)
EXTENDS Integers, FiniteSets

CONSTANTS
  Units,              \* what a poll reads: unitKey(platform, search)
  Providers,          \* connectors registered for a platform
  None,               \* null
  PageCap,            \* maxPagesPerPoll
  MaxResumeAttempts,  \* maxResumeAttempts
  MaxClock,           \* bound: the last tick
  Rotates,            \* pollCreditsPerHour is set: a poll runs some of the units
  Faults              \* what the environment may do, a subset of AllFaults

AllFaults ==
  { "budget",    \* the monthly cap is reached when a poll starts
    "keys",      \* a person changes the keys or the provider choice
    "pause",     \* a person pauses and resumes the monitor
    "edit",      \* a person edits the monitor's units, also while a poll runs
    "slow",      \* a tick may pass while a poll runs
    "crash",     \* the worker process dies in the middle of a poll
    "database" } \* a statement or a send of the poll is refused

\* What a page says of the next one.  A wait without a cursor withdraws the
\* collection; a source says "done" only when it has served everything.
Ends == {"done", "wait", "withdrawn", "more"}

ASSUME CollectAssumption ==
  /\ Units # {} /\ Providers # {}
  /\ None \notin Providers \cup Ends
  /\ PageCap \in Nat \ {0}
  /\ MaxResumeAttempts \in Nat \ {0}
  /\ MaxClock \in Nat
  /\ Rotates \in BOOLEAN
  /\ Faults \subseteq AllFaults

Time == 0..MaxClock
Posts == 1..MaxClock

VARIABLES
  clock,     \* the tick now; the posts 1..clock of every unit exist
  cont,      \* source_continuations: <<unit, provider>> -> row or None
  covered,   \* source_coverage: unit -> tick, 0 when no walk ever finished
  queue,     \* the poll queue's slots for this monitor: created, retry
  paused,    \* monitors.paused_at is set
  units,     \* the units the monitor names now
  keys,      \* the providers the owner holds a key for
  choice,    \* the owner's recorded provider choice, or None
  poll,      \* the poll job in flight
  read,      \* the unit that job is reading
  stored,    \* posts: unit -> ticks
  handed,    \* posts a filter job was sent with: unit -> ticks
  \* Observers: written by the actions, read by the properties alone.
  bought,    \* posts a page was paid for, less those of walks given up
  rebought,  \* some page held a post already bought
  failing,   \* resumes in a row that failed on their first page: unit -> count
  adrift,    \* in-flight <<unit, provider>> whose walk is not the newest row's
  lastRows   \* poll_runs rows the last finished job wrote

rowVars == <<cont, covered>>
userVars == <<paused, units, keys, choice>>
dataVars == <<stored, handed>>
ghostVars == <<bought, rebought, failing, adrift, lastRows>>
vars == <<clock, cont, covered, queue, paused, units, keys, choice, poll, read,
          stored, handed, bought, rebought, failing, adrift, lastRows>>

Pairs == Units \X Providers

\* A source_continuations row.  The cursor is opaque to the code: here it is
\* the pages it still names, and the provider that issued it.
Rows == [provider : Providers, rest : SUBSET Posts, issuer : Providers,
         since : Time, startedAt : Time, resumeAfter : Time,
         attempts : 0..MaxResumeAttempts]

ASSUME NullAssumption == None \notin Rows

\* The queue's slots: when the created job may start, and a retry waiting.
Slots == [created : Time \cup {None}, retry : BOOLEAN]

\* What collect() keeps in its local variables: its moment and choices, the
\* units left, the rows it read, what it asked and got, and the alarm to book.
PollJobs ==
  [pc : {"idle", "units", "read", "cover", "store", "hand"}, now : Time,
   choice : Providers \cup {None}, todo : SUBSET Units,
   pending : [Units -> Rows \cup {None}], resuming : BOOLEAN, asked : BOOLEAN,
   answered : BOOLEAN, wake : Time \cup {None}, batch : [Units -> SUBSET Posts],
   rows : 0..1, openedPaused : BOOLEAN]

\* What readSource() keeps: the query's window, the pages left behind the
\* cursor, who issued the cursor, what came back, and how the read ended.
Reads ==
  [unit : Units \cup {None}, via : Providers \cup {None}, window : Time,
   startedAt : Time, resumed : BOOLEAN, issuer : Providers \cup {None},
   rest : SUBSET Posts, got : SUBSET Posts, pages : 0..PageCap,
   end : Ends \cup {"failed", None}]

InFlight == {pair \in Pairs : cont[pair] # None}

Later(t) == IF t < MaxClock THEN t + 1 ELSE MaxClock

Earliest(wake, t) == IF wake = None THEN t ELSE IF t < wake THEN t ELSE wake

Latest(a, b) == IF a < b THEN b ELSE a

NoRead == [unit |-> None, via |-> None, window |-> 0, startedAt |-> 0,
           resumed |-> FALSE, issuer |-> None, rest |-> {}, got |-> {},
           pages |-> 0, end |-> None]

NoPosts == [u \in Units |-> {}]

IdlePoll == [pc |-> "idle", now |-> 0, choice |-> None, todo |-> {},
             pending |-> [u \in Units |-> None], resuming |-> FALSE,
             asked |-> FALSE, answered |-> FALSE, wake |-> None,
             batch |-> NoPosts, rows |-> 0, openedPaused |-> FALSE]

Init ==
  /\ clock = 0
  /\ cont = [pair \in Pairs |-> None]
  /\ covered = [u \in Units |-> 0]
  /\ queue = [created |-> None, retry |-> FALSE]
  /\ paused = FALSE
  /\ units = Units
  /\ keys = Providers
  /\ choice \in Providers
  /\ poll = IdlePoll
  /\ read = NoRead
  /\ stored = NoPosts
  /\ handed = NoPosts
  /\ bought = NoPosts
  /\ rebought = FALSE
  /\ failing = [u \in Units |-> 0]
  /\ adrift = {}
  /\ lastRows = 1

---------------------------------------------------------------------------
\* The clock and the people.

\* A tick: one more post of every unit is published.
Tick ==
  /\ clock < MaxClock
  /\ poll.pc = "idle" \/ "slow" \in Faults
  /\ clock' = clock + 1
  /\ UNCHANGED <<cont, covered, queue, userVars, poll, read, dataVars, ghostVars>>

\* pauseMonitor and resumeMonitor: a monitor the budget paused is resumed by a
\* person too.
SetPaused ==
  /\ "pause" \in Faults \/ paused
  /\ paused' = ~paused
  /\ UNCHANGED <<clock, cont, covered, queue, units, keys, choice, poll, read,
                 dataVars, ghostVars>>

\* A key is stored or removed, or the provider choice is recorded.
SetConnections ==
  /\ "keys" \in Faults
  /\ keys' \in SUBSET Providers
  /\ choice' \in Providers \cup {None}
  /\ UNCHANGED <<clock, cont, covered, queue, paused, units, poll, read,
                 dataVars, ghostVars>>

\* updateMonitor with other platforms or searches, and the
\* forgetUnreachableCollections that follows it.
EditUnits ==
  /\ "edit" \in Faults
  /\ units' \in SUBSET Units
  /\ cont' = [pair \in Pairs |-> IF pair[1] \in units' THEN cont[pair] ELSE None]
  /\ adrift' = {pair \in adrift : pair[1] \in units'}
  /\ UNCHANGED <<clock, covered, queue, paused, keys, choice, poll, read,
                 dataVars, bought, rebought, failing, lastRows>>

---------------------------------------------------------------------------
\* The queue: `stately`, keyed by the monitor.  One job created, one active
\* (poll.pc # "idle"), one waiting for its retry.

\* boss.send to the poll queue: refused while another job is created.
Send(at) == IF queue.created = None THEN [queue EXCEPT !.created = at] ELSE queue

\* The scheduler's tick finds the monitor due.  When it is due is the
\* scheduler's business: here it may be due at any moment it is not paused.
Schedule ==
  /\ ~paused
  /\ queue.created = None
  /\ queue' = Send(clock)
  /\ UNCHANGED <<clock, cont, covered, userVars, poll, read, dataVars, ghostVars>>

\* A job that may start leaves its slot; an active job that throws takes the
\* retry slot, or goes to the dead letter queue when no retry is left.
Taken ==
  {q \in {[queue EXCEPT !.created = None], [queue EXCEPT !.retry = FALSE]} :
     \/ queue.created # None /\ queue.created <= clock /\ q.created = None
     \/ queue.retry /\ ~q.retry}

TakeJob == queue' \in Taken

Requeued(q) == {[q EXCEPT !.retry = again] : again \in BOOLEAN}

\* PollRecord.finish writes one row.  walkFor: a poll that resumes nothing
\* mints a walk, so no collection in flight is on the newest row's walk
\* unless this poll itself opened it.
WriteRow(resuming, own) ==
  adrift' = IF resuming THEN adrift ELSE InFlight \ own

\* The handler returns, having written `rows` poll_runs rows.
Return(rows) ==
  /\ poll' = IdlePoll
  /\ read' = NoRead
  /\ lastRows' = rows

---------------------------------------------------------------------------
\* The head of collect(): the monitor is read, the budget asked, the turn
\* taken, the continuations read.

\* enforceBudget says the cap is reached: the poll is refused whole, and the
\* monitor paused when its onExhausted says so.  `resuming` is not set yet.
RefuseForBudget ==
  /\ poll.pc = "idle"
  /\ "budget" \in Faults
  /\ TakeJob
  /\ paused' \in {paused, TRUE}
  /\ WriteRow(FALSE, {})
  /\ Return(1)
  /\ UNCHANGED <<clock, cont, covered, units, keys, choice, dataVars,
                 bought, rebought, failing>>

\* The page plan throws (or an earlier read of the database): a "failed" row,
\* again before `resuming` is set.
BreakBeforeOpen ==
  /\ poll.pc = "idle"
  /\ "database" \in Faults
  /\ \E q \in Taken : queue' \in Requeued(q)
  /\ WriteRow(FALSE, {})
  /\ Return(1)
  /\ UNCHANGED <<clock, cont, covered, userVars, dataVars, bought, rebought, failing>>

\* nextTurn answers with no unit: no row is written.
SkipEmptyTurn ==
  /\ poll.pc = "idle"
  /\ Rotates
  /\ TakeJob
  /\ Return(0)
  /\ UNCHANGED <<clock, cont, covered, userVars, dataVars,
                 bought, rebought, failing, adrift>>

\* The units this poll runs.
Turns == IF Rotates THEN SUBSET units \ {{}} ELSE {units}

\* continuationsFor, keyed by unit: the row of whichever provider has one.
PendingOf(u) ==
  IF \E p \in Providers : cont[<<u, p>>] # None
  THEN cont[<<u, CHOOSE p \in Providers : cont[<<u, p>>] # None>>]
  ELSE None

\* A slip of Resuming: only a place that is due counts.
ResumingDue == \E pair \in InFlight : cont[pair].resumeAfter <= clock

\* A poll that resumes something belongs to the collection it resumes.
Resuming == InFlight # {}

OpenPoll ==
  /\ poll.pc = "idle"
  /\ TakeJob
  /\ \E turn \in Turns :
       poll' = [IdlePoll EXCEPT
                  !.pc = "units", !.now = clock, !.choice = choice, !.todo = turn,
                  !.pending = [u \in Units |-> PendingOf(u)],
                  !.resuming = Resuming, !.openedPaused = paused]
  /\ UNCHANGED <<clock, cont, covered, userVars, read, dataVars, ghostVars>>

---------------------------------------------------------------------------
\* connectorForUnit: what the poll does with one unit.

\* decideProvider among the keyed providers: a recorded choice is obeyed or
\* refused, never replaced; with no choice, one keyed provider is enough.
Decided ==
  IF poll.choice # None
  THEN poll.choice \in keys
  ELSE Cardinality(keys) = 1

\* A slip of ProviderFor: today's choice is preferred to the row's provider.
ChosenProvider(u) ==
  IF poll.choice # None /\ poll.choice \in keys THEN poll.choice
  ELSE CHOOSE p \in keys : TRUE

\* A collection stays with the provider it was started at.
ProviderFor(u) ==
  IF poll.pending[u] # None THEN poll.pending[u].provider
  ELSE IF poll.choice # None THEN poll.choice
  ELSE CHOOSE p \in keys : TRUE

\* no_credentials, resume_key_missing and no_provider_choice.
Unreadable(u) ==
  IF poll.pending[u] # None THEN poll.pending[u].provider \notin keys ELSE ~Decided

\* A slip of Spent: one attempt too many.
SpentLate(u) == poll.pending[u] # None /\ poll.pending[u].attempts > MaxResumeAttempts

\* The attempts are used up.
Spent(u) == poll.pending[u] # None /\ poll.pending[u].attempts >= MaxResumeAttempts

Resting(u) == poll.pending[u] # None /\ poll.pending[u].resumeAfter > poll.now

SkipUnit(u) ==
  /\ poll.pc = "units" /\ u \in poll.todo
  /\ Unreadable(u)
  /\ poll' = [poll EXCEPT !.todo = @ \ {u}]
  /\ UNCHANGED <<clock, cont, covered, queue, userVars, read, dataVars, ghostVars>>

\* forgetContinuation of one row.
Forget(pair) ==
  /\ cont' = [cont EXCEPT ![pair] = None]
  /\ adrift' = adrift \ {pair}

\* The collection never became ready: forgotten, and nothing asked for it.
AbandonUnit(u) ==
  /\ poll.pc = "units" /\ u \in poll.todo
  /\ ~Unreadable(u) /\ Spent(u)
  /\ Forget(<<u, poll.pending[u].provider>>)
  /\ poll' = [poll EXCEPT !.todo = @ \ {u}]
  /\ bought' = [bought EXCEPT ![u] = @ \cap 1..covered[u]]
  /\ failing' = [failing EXCEPT ![u] = 0]
  /\ UNCHANGED <<clock, covered, queue, userVars, read, dataVars, rebought, lastRows>>

\* still_collecting: the source said when to come back, and it is not yet time.
WaitForUnit(u) ==
  /\ poll.pc = "units" /\ u \in poll.todo
  /\ ~Unreadable(u) /\ ~Spent(u) /\ Resting(u)
  /\ poll' = [poll EXCEPT !.todo = @ \ {u},
                          !.wake = Earliest(@, poll.pending[u].resumeAfter)]
  /\ UNCHANGED <<clock, cont, covered, queue, userVars, read, dataVars, ghostVars>>

\* A slip of WalkStartedAt: the poll's own start, for a resumed walk as well.
PollStartedAt(u) == poll.now

\* What a finished walk marks: a resumed one began when its row was written, a
\* fresh one begins now.
WalkStartedAt(u) ==
  IF poll.pending[u] # None THEN poll.pending[u].startedAt ELSE poll.now

\* The unit is read: a resume asks with its row's window and cursor, a fresh
\* search with the window the unit's coverage leaves open.
BeginRead(u) ==
  /\ poll.pc = "units" /\ u \in poll.todo
  /\ ~Unreadable(u) /\ ~Spent(u) /\ ~Resting(u)
  /\ LET row == poll.pending[u] IN
     read' = [unit |-> u, via |-> ProviderFor(u), got |-> {}, pages |-> 0, end |-> None,
              resumed   |-> row # None,
              window    |-> IF row # None THEN row.since ELSE covered[u],
              startedAt |-> WalkStartedAt(u),
              issuer    |-> IF row # None THEN row.issuer ELSE ProviderFor(u),
              rest      |-> IF row # None THEN row.rest ELSE (covered[u] + 1)..clock]
  /\ poll' = [poll EXCEPT !.pc = "read", !.todo = @ \ {u}, !.asked = TRUE]
  /\ UNCHANGED <<clock, cont, covered, queue, userVars, dataVars, ghostVars>>

---------------------------------------------------------------------------
\* readSource: page after page until the source is done, asks to wait, fails,
\* or the page cap stops it.

\* One page: a part of what is left, billed as it arrives (recordSourceUsage).
ReadPage ==
  /\ poll.pc = "read" /\ read.end = None /\ read.pages < PageCap
  /\ \E page \in SUBSET read.rest, next \in Ends :
       /\ next = "done" => page = read.rest
       /\ read' = [read EXCEPT
                     !.rest = @ \ page, !.got = @ \cup page, !.pages = @ + 1,
                     !.end = IF next = "more" /\ read.pages + 1 < PageCap
                             THEN None ELSE next]
       /\ bought' = [bought EXCEPT ![read.unit] = @ \cup page]
       /\ rebought' = (rebought \/ page \cap bought[read.unit] # {})
  /\ failing' = [failing EXCEPT ![read.unit] = 0]
  /\ UNCHANGED <<clock, cont, covered, queue, userVars, poll, dataVars, adrift, lastRows>>

\* A slip of FailUnit: the failed unit's place is forgotten.
ForgetFailedUnit ==
  /\ poll.pc = "read" /\ read.end = None /\ read.pages = 0
  /\ cont' = [cont EXCEPT ![<<read.unit, read.via>>] = None]
  /\ poll' = [poll EXCEPT !.pc = "units"]
  /\ read' = NoRead
  /\ UNCHANGED <<clock, covered, queue, userVars, dataVars, ghostVars>>

\* The connector throws before any page: the platform failed, and its
\* continuation is left alone.  A ledger write that throws ends the read the
\* same way, on any page, and takes the pages before it along.
FailUnit ==
  /\ poll.pc = "read" /\ read.end = None
  /\ read.pages = 0 \/ "database" \in Faults
  /\ poll' = [poll EXCEPT !.pc = "units"]
  /\ read' = NoRead
  /\ failing' = [failing EXCEPT ![read.unit] =
                   IF read.resumed /\ @ <= MaxResumeAttempts THEN @ + 1 ELSE @]
  /\ UNCHANGED <<clock, cont, covered, queue, userVars, dataVars,
                 bought, rebought, adrift, lastRows>>

\* The connector throws on a later page: the pages before it are kept.
FailLaterPage ==
  /\ poll.pc = "read" /\ read.end = None /\ read.pages > 0
  /\ read' = [read EXCEPT !.end = "failed"]
  /\ UNCHANGED <<clock, cont, covered, queue, userVars, poll, dataVars, ghostVars>>

---------------------------------------------------------------------------
\* recordWhereTheWalkStands.

\* A slip of Progressed: a page counts, posts or not.
PagesCameBack == read.pages > 0

\* Did this read bring anything back?
Progressed == read.got # {}

\* rememberContinuation: inserted once, then updated in place.  `since` and
\* created_at are never updated; progress resets `attempts`.
Remember(resumeAfter) ==
  LET pair == <<read.unit, read.via>>
      old == cont[pair]
  IN  cont' = [cont EXCEPT ![pair] =
        IF old = None
        THEN [provider |-> read.via, rest |-> read.rest, issuer |-> read.via,
              since |-> read.window, startedAt |-> clock,
              resumeAfter |-> resumeAfter, attempts |-> 0]
        ELSE [old EXCEPT !.rest = read.rest, !.issuer = read.via,
                         !.resumeAfter = resumeAfter,
                         !.attempts = IF Progressed THEN 0 ELSE @ + 1]]

\* The unit's outcome joins the poll's, and the loop goes on.
Close(wake) ==
  /\ poll' = [poll EXCEPT !.pc = "units", !.answered = TRUE,
                          !.batch[read.unit] = @ \cup read.got,
                          !.wake = IF wake = None THEN @ ELSE Earliest(@, wake)]
  /\ read' = NoRead

\* A wait, a failed page and the page cap are all remembered.
ResumeAt ==
  CASE read.end = "wait"   -> Later(clock)
    [] read.end = "failed" -> Later(poll.now)
    [] read.end = "more"   -> poll.now

RememberWalk ==
  /\ poll.pc = "read" /\ read.end \in {"wait", "failed", "more"}
  /\ Remember(ResumeAt)
  /\ Close(ResumeAt)
  /\ UNCHANGED <<clock, covered, queue, userVars, dataVars, ghostVars>>

\* A wait with no cursor: the query starts again from the beginning.
ForgetWithdrawn ==
  /\ poll.pc = "read" /\ read.end = "withdrawn"
  /\ IF read.resumed
     THEN Forget(<<read.unit, poll.pending[read.unit].provider>>)
     ELSE UNCHANGED <<cont, adrift>>
  /\ Close(Later(clock))
  /\ bought' = [bought EXCEPT ![read.unit] = @ \cap 1..covered[read.unit]]
  /\ UNCHANGED <<clock, covered, queue, userVars, dataVars, rebought, failing, lastRows>>

\* A slip of ForgetRead: the finished walk's place is left behind.
KeepRead ==
  /\ poll.pc = "read" /\ read.end = "done"
  /\ poll' = [poll EXCEPT !.pc = "cover"]
  /\ UNCHANGED <<clock, cont, covered, queue, userVars, read, dataVars, ghostVars>>

\* Read to its end: first the continuation is forgotten,
ForgetRead ==
  /\ poll.pc = "read" /\ read.end = "done"
  /\ IF read.resumed
     THEN Forget(<<read.unit, poll.pending[read.unit].provider>>)
     ELSE UNCHANGED <<cont, adrift>>
  /\ poll' = [poll EXCEPT !.pc = "cover"]
  /\ UNCHANGED <<clock, covered, queue, userVars, read, dataVars,
                 bought, rebought, failing, lastRows>>

\* then the unit is covered up to the walk's start, never backwards.
RecordCoverage ==
  /\ poll.pc = "cover"
  /\ covered' = [covered EXCEPT ![read.unit] = Latest(@, read.startedAt)]
  /\ Close(None)
  /\ UNCHANGED <<clock, cont, queue, userVars, dataVars, ghostVars>>

---------------------------------------------------------------------------
\* The tail of collect().

\* The collections this poll opened itself.
OpenedHere == {pair \in InFlight : poll.pending[pair[1]] = None}

Empty(batch) == \A u \in Units : batch[u] = {}

\* An exception reaches the handler's catch: a "failed" row is written and the
\* job goes to its retry, or to the dead letter queue when none is left.
Throw ==
  /\ WriteRow(poll.resuming, OpenedHere)
  /\ queue' \in Requeued(queue)
  /\ Return(poll.rows + 1)

\* Every unit that was asked failed, so the job failed.
FailPoll ==
  /\ poll.pc = "units" /\ poll.todo = {}
  /\ poll.asked /\ ~poll.answered
  /\ Throw
  /\ UNCHANGED <<clock, cont, covered, userVars, dataVars, bought, rebought, failing>>

\* A slip of BookAlarm: a poll with a unit waiting ends "waiting", posts or not.
BookAlarmWaiting ==
  /\ poll.pc = "units" /\ poll.todo = {}
  /\ poll.asked => poll.answered
  /\ queue' = IF poll.wake = None THEN queue ELSE Send(poll.wake)
  /\ IF poll.wake # None \/ Empty(poll.batch)
     THEN /\ WriteRow(poll.resuming, OpenedHere)
          /\ Return(poll.rows + 1)
     ELSE /\ poll' = [poll EXCEPT !.pc = "store"]
          /\ UNCHANGED <<read, adrift, lastRows>>
  /\ UNCHANGED <<clock, cont, covered, userVars, dataVars, bought, rebought, failing>>

\* The alarm is booked for the earliest unit waiting.  With no post to store
\* the poll ends here, "waiting" or "empty".
BookAlarm ==
  /\ poll.pc = "units" /\ poll.todo = {}
  /\ poll.asked => poll.answered
  /\ queue' = IF poll.wake = None THEN queue ELSE Send(poll.wake)
  /\ IF Empty(poll.batch)
     THEN /\ WriteRow(poll.resuming, OpenedHere)
          /\ Return(poll.rows + 1)
     ELSE /\ poll' = [poll EXCEPT !.pc = "store"]
          /\ UNCHANGED <<read, adrift, lastRows>>
  /\ UNCHANGED <<clock, cont, covered, userVars, dataVars, bought, rebought, failing>>

\* storePosts, recordDiscoveries and the poll's row.
StorePosts ==
  /\ poll.pc = "store"
  /\ stored' = [u \in Units |-> stored[u] \cup poll.batch[u]]
  /\ WriteRow(poll.resuming, OpenedHere)
  /\ poll' = [poll EXCEPT !.pc = "hand", !.rows = @ + 1]
  /\ UNCHANGED <<clock, cont, covered, queue, userVars, read, handed,
                 bought, rebought, failing, lastRows>>

\* The filter job is sent with every post this poll saw.
HandOn ==
  /\ poll.pc = "hand"
  /\ handed' = [u \in Units |-> handed[u] \cup poll.batch[u]]
  /\ Return(poll.rows)
  /\ UNCHANGED <<clock, cont, covered, queue, userVars, stored,
                 bought, rebought, failing, adrift>>

\* A statement, or the send to the filter queue, is refused.
BreakPoll ==
  /\ "database" \in Faults
  /\ poll.pc \in {"units", "cover", "store", "hand"} \/ read.end # None
  /\ Throw
  /\ UNCHANGED <<clock, cont, covered, userVars, dataVars, bought, rebought, failing>>

\* The process dies: the queue gives the job its retry, and no row is written.
\* What a poll that resumes nothing had opened is on no row's walk.
Crash ==
  /\ "crash" \in Faults
  /\ poll.pc # "idle"
  /\ adrift' = IF poll.resuming \/ poll.rows > 0 THEN adrift ELSE InFlight
  /\ poll' = IdlePoll
  /\ read' = NoRead
  /\ queue' \in Requeued(queue)
  /\ UNCHANGED <<clock, cont, covered, userVars, dataVars,
                 bought, rebought, failing, lastRows>>

---------------------------------------------------------------------------
Worker ==
  \/ RefuseForBudget \/ SkipEmptyTurn \/ OpenPoll
  \/ \E u \in Units : SkipUnit(u) \/ AbandonUnit(u) \/ WaitForUnit(u) \/ BeginRead(u)
  \/ ReadPage \/ FailUnit \/ FailLaterPage
  \/ RememberWalk \/ ForgetWithdrawn \/ ForgetRead \/ RecordCoverage
  \/ FailPoll \/ BookAlarm \/ StorePosts \/ HandOn

Environment == 
  \/ Tick \/ SetPaused \/ SetConnections \/ EditUnits
  \/ BreakBeforeOpen \/ BreakPoll \/ Crash

Next == Worker \/ Schedule \/ Environment

Spec == Init /\ [][Next]_vars

\* pg-boss hands a job to an idle worker, time passes between two polls, the
\* scheduler's cron ticks, and a unit that is asked again and again is served a
\* page now and then.
Fairness ==
  /\ WF_vars(Worker) /\ SF_vars(Tick) /\ SF_vars(Schedule)
  /\ \A u \in Units : SF_vars(ReadPage /\ read.unit = u)

LiveSpec == Spec /\ Fairness

---------------------------------------------------------------------------
\* Properties.

TypeOK ==
  /\ clock \in Time
  /\ cont \in [Pairs -> Rows \cup {None}]
  /\ covered \in [Units -> Time]
  /\ queue \in Slots
  /\ paused \in BOOLEAN
  /\ units \in SUBSET Units
  /\ keys \in SUBSET Providers
  /\ choice \in Providers \cup {None}
  /\ poll \in PollJobs
  /\ read \in Reads
  /\ stored \in [Units -> SUBSET Posts]
  /\ handed \in [Units -> SUBSET Posts]
  /\ bought \in [Units -> SUBSET Posts]
  /\ rebought \in BOOLEAN
  /\ failing \in [Units -> Nat]
  /\ adrift \in SUBSET Pairs
  /\ lastRows \in 0..2

\* What the poll in flight holds of a unit and has not sent to the filter yet.
InHand(u) ==
  poll.batch[u] \cup (IF poll.pc = "cover" /\ read.unit = u THEN read.got ELSE {})

\* source_coverage is the window the next walk is opened with, so a post up to
\* it that no filter job carries is a post nothing will ever ask for again.
CoveredIsHandedOn ==
  \A u \in Units : 1..covered[u] \subseteq handed[u] \cup InHand(u)

\* A page the monitor has paid for is not bought again, unless the collection
\* it belonged to was given up or withdrawn by its source.
NothingBoughtTwice == ~rebought

\* A walk in flight reads exactly the window its unit's coverage leaves open:
\* coverage moves only once the walk's row is gone, and the row's `since` never.
WindowIsOpen ==
  \A pair \in InFlight : cont[pair].since = covered[pair[1]]

\* A poll resumes a unit's collection before it starts another, so two
\* providers never collect the same unit at once.
AtMostOneCollection ==
  \A u \in Units, p, q \in Providers :
    cont[<<u, p>>] # None /\ cont[<<u, q>>] # None => p = q

\* A cursor is shown to the provider that issued it and to no other, whatever
\* the owner's choice and keys became since.
CursorStaysWithItsProvider ==
  read.unit # None => read.via = read.issuer

\* A job that runs to its end writes exactly one poll_runs row.
EveryPollWritesOneRow == lastRows = 1

\* The newest poll_runs row names the walk of every collection in flight: the
\* poll that resumes one reads its walk there.
WalkIsNeverLost == poll.pc = "idle" => adrift = {}

\* A cursor that keeps failing is dropped by the attempt limit.
FailingCursorIsDropped == \A u \in Units : failing[u] <= MaxResumeAttempts

\* No source is asked by a poll that found the monitor paused.
NothingCollectedWhilePaused == poll.asked => ~poll.openedPaused

\* Between polls, every saved place belongs to a unit the monitor still reads.
NoStrandedPlace == poll.pc = "idle" => \A pair \in InFlight : pair[1] \in units

\* A collection in flight is read to its end, abandoned or withdrawn.
EveryCollectionEnds ==
  \A pair \in Pairs : cont[pair] # None ~> cont[pair] = None
=============================================================================
