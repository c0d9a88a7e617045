------------------------------ MODULE Classify ------------------------------
(***************************************************************************)
(* The classify step (worker/classify.ts, match-cap.ts, ceiling.ts) for one *)
(* monitor: jobs that read the call ledger once, put their posts to the    *)
(* model with several calls in flight, and write cards, copies and drops.  *)
(*                                                                         *)
(* A call and what is written on its answer are one step; a second model's *)
(* read is part of that answer.  The days of the ceiling are one day.      *)
(***************************************************************************)
EXTENDS Integers, FiniteSets

CONSTANTS
  Posts,        \* numbers, in the order a batch hands them
  Words,        \* post -> its author and text, equal for copies; None for a reply
  Pairs,        \* post -> the searches that found it
  Jobs,         \* classify jobs
  None,         \* undefined
  Concurrency,  \* calls one job keeps in flight
  Cap,          \* matches one walk may make, or None
  Limit,        \* posts a pair may put to the model in a day, or None
  MaxAttempts,  \* failures before a post is given up (3)
  MaxTries,     \* runs of one job before the dead letter (5)
  MaxVersion,   \* bound: versions of the monitor
  MaxWalks,     \* bound: walks
  Deletable,    \* bound: the posts that may be deleted
  Faults        \* what else may happen, a subset of AllFaults

AllFaults ==
  { "crash",      \* the worker dies, or a statement fails, between two steps
    "fail",       \* the model does not score a post
    "budget",     \* the monthly cap is reached
    "keys",       \* the owner has no usable model
    "processes" } \* a second worker process takes jobs of the monitor

Versions == 1..MaxVersion
Walks == 1..MaxWalks

\* matches: the walk that made a card, the walks begun by then, and whether it is hidden.
Cards == [of : Walks, at : Walks, hidden : BOOLEAN]

ASSUME ClassifyAssumption ==
  /\ Posts \subseteq Nat /\ IsFiniteSet(Posts)
  /\ DOMAIN Words = Posts /\ DOMAIN Pairs = Posts
  /\ \A p \in Posts : IsFiniteSet(Pairs[p])
  /\ None \notin Nat /\ None \notin Cards
  /\ Concurrency \in Nat \ {0}
  /\ Cap \in (Nat \ {0}) \cup {None} /\ Limit \in Nat \cup {None}
  /\ {MaxAttempts, MaxTries, MaxVersion, MaxWalks} \subseteq Nat \ {0}
  /\ Deletable \subseteq Posts
  /\ Faults \subseteq AllFaults

VARIABLES
  version,  \* monitors.version
  walks,    \* walks begun: 1..walks
  scored,   \* model_calls: version -> post -> how often it was scored
  failed,   \* model_calls: version -> post -> how often it was not
  cards,    \* matches: post -> [of: its walk, at: walks begun by then, hidden], or None
  copies,   \* post_copies: post -> the card it hangs on, or None
  drops,    \* filter_drops: <<post, stage, walk>>
  deleted,  \* posts.deleted_at is set
  jobs      \* the classify jobs and what a running one holds

vars == <<version, walks, scored, failed, cards, copies, drops, deleted, jobs>>

Carded == {p \in Posts : cards[p] # None}
Copied == {p \in Posts : copies[p] # None}

\* What a run holds: the answers of readLedger, then its own tallies.
Blank == [version |-> 1, scored |-> {}, failures |-> [p \in Posts |-> 0], carded |-> {},
          copied |-> {}, gone |-> {}, asked |-> {}, before |-> 0, candidates |-> {},
          todo |-> {}, inFlight |-> {}, returned |-> FALSE, low |-> {}, made |-> {},
          hung |-> {}, refused |-> {}, capped |-> {}, charged |-> {}, retryable |-> {},
          dropped |-> {}, left |-> 0]

Init ==
  /\ version = 1 /\ walks = 1
  /\ scored = [v \in Versions |-> [p \in Posts |-> 0]]
  /\ failed = [v \in Versions |-> [p \in Posts |-> 0]]
  /\ cards = [p \in Posts |-> None]
  /\ copies = [p \in Posts |-> None]
  /\ drops = {} /\ deleted = {}
  /\ jobs = [j \in Jobs |-> None]

---------------------------------------------------------------------------
\* What happens around the step.

\* A walk begins: its first poll starts.
BeginWalk ==
  /\ walks < MaxWalks
  /\ walks' = walks + 1
  /\ UNCHANGED <<version, scored, failed, cards, copies, drops, deleted, jobs>>

\* The filter hands a batch on, under the walk its poll belongs to.
HandBatch(j, batch, walk) ==
  /\ jobs[j] = None
  /\ walk <= walks
  /\ jobs' = [jobs EXCEPT ![j] = [pc |-> "queued", batch |-> batch, walk |-> walk,
                                  tries |-> 1, outcome |-> None, run |-> Blank]]
  /\ UNCHANGED <<version, walks, scored, failed, cards, copies, drops, deleted>>

\* updateMonitor redefines the monitor.
Redefine ==
  /\ version < MaxVersion
  /\ version' = version + 1
  /\ UNCHANGED <<walks, scored, failed, cards, copies, drops, deleted, jobs>>

\* Reconcile learns, for any monitor's match, that a post is gone: its matches are
\* hidden.
DeletePost(p) ==
  /\ p \in Deletable \ deleted
  /\ deleted' = deleted \cup {p}
  /\ cards' = [cards EXCEPT ![p] = IF @ = None THEN None ELSE [@ EXCEPT !.hidden = TRUE]]
  /\ UNCHANGED <<version, walks, scored, failed, copies, drops, jobs>>

---------------------------------------------------------------------------
\* A run of the step.

Active(j) == jobs[j] # None /\ jobs[j].pc \notin {"queued", "done", "dead"}

\* Within one process a monitor has one job of the queue at a time.
MayStart(j) == "processes" \in Faults \/ \A other \in Jobs : ~Active(other)

\* The posts the batch holds that are neither deleted nor refused before.
Candidates(batch) ==
  {p \in batch \ deleted : Limit = None \/ \A d \in drops : d[1] = p => d[2] # "ceiling"}

\* matchesInWalk: every match since the walk's first poll.
MatchesInWalk(walk) == Cardinality({p \in Carded : cards[p].at >= walk})

\* The posts put to the model today.
AskedToday == {p \in Posts : \E v \in Versions : scored[v][p] + failed[v][p] > 0}

\* No usable model: the job is over, and nothing was read.
RefuseWithoutModel(j) ==
  /\ "keys" \in Faults
  /\ jobs[j] # None /\ jobs[j].pc = "queued" /\ MayStart(j)
  /\ jobs' = [jobs EXCEPT ![j].pc = "done", ![j].outcome = "refused"]
  /\ UNCHANGED <<version, walks, scored, failed, cards, copies, drops, deleted>>

\* The monitor, the ledger, the match count and the ceiling are read.
Start(j) ==
  /\ jobs[j] # None /\ jobs[j].pc = "queued" /\ MayStart(j)
  /\ LET candidates == Candidates(jobs[j].batch) IN
     jobs' = [jobs EXCEPT ![j].pc = "loop", ![j].run = [Blank EXCEPT
       !.version = version,
       !.scored = {p \in Posts : scored[version][p] > 0},
       !.failures = failed[version],
       !.carded = Carded, !.copied = Copied, !.gone = deleted, !.asked = AskedToday,
       !.before = MatchesInWalk(jobs[j].walk),
       !.candidates = candidates, !.todo = candidates]]
  /\ UNCHANGED <<version, walks, scored, failed, cards, copies, drops, deleted>>

\* The other copies of a post that this monitor has met.
Others(run, p) == {q \in Posts \ run.gone : q # p /\ Words[q] = Words[p] /\ Words[p] # None}

\* The card a copy hangs on: the oldest found, or the one made in this run.
CardFor(run, p) ==
  LET found == Others(run, p) \cap run.carded
      made == {q \in run.made : Words[p] # None /\ Words[q] = Words[p]}
  IN  IF found # {} THEN {CHOOSE q \in found : \A r \in found : q <= r} ELSE made

\* A slip of AtCap: one match too many.
PastCap(job) == Cap # None /\ job.run.before + Cardinality(job.run.made \ job.run.carded) > Cap

AtCap(job) == Cap # None /\ job.run.before + Cardinality(job.run.made \ job.run.carded) >= Cap

Used(run, pair) ==
    Cardinality({p \in run.asked : pair \in Pairs[p]})
  + Cardinality({p \in run.charged : pair \in Pairs[p]})

HasRoom(run, p) ==
  Limit = None \/ Pairs[p] = {} \/ \E pair \in Pairs[p] : Used(run, pair) < Limit

\* A slip of MustWait: it waits although no call is in flight.
MustWaitAlways(run) == Cardinality(run.inFlight) >= Concurrency \/ ~run.returned

\* A slot is free, and the first call is back before a second starts.
MustWait(run) ==
  Cardinality(run.inFlight) >= Concurrency \/ (run.inFlight # {} /\ ~run.returned)

\* A slip of CopyInFlight: a copy does not wait for the post it copies.
NoCopyWaits(run, p) == FALSE

CopyInFlight(run, p) == Words[p] # None /\ \E q \in run.inFlight : Words[q] = Words[p]

\* A slip of Known: a post scored below the threshold is read again.
KnownByCard(run, p) == p \in run.copied \/ p \in run.carded

\* Paid for at this version, or on another card.
Known(run, p) == p \in run.scored \/ p \in run.copied

\* The loop's next post, in the order the batch was handed.
AtPost(j, p) ==
  /\ jobs[j] # None /\ jobs[j].pc = "loop"
  /\ p \in jobs[j].run.todo /\ \A q \in jobs[j].run.todo : p <= q

\* The loop goes on past the post, with this run.
GoOn(j, p, run) ==
  /\ jobs' = [jobs EXCEPT ![j].run = [run EXCEPT !.todo = @ \ {p}]]
  /\ UNCHANGED <<version, walks, scored, failed, cards, copies, drops, deleted>>

SkipKnown(j, p) ==
  /\ AtPost(j, p) /\ Known(jobs[j].run, p)
  /\ GoOn(j, p, jobs[j].run)

HangOnCard(j, p) ==
  LET run == jobs[j].run IN
  /\ AtPost(j, p) /\ ~Known(run, p) /\ ~CopyInFlight(run, p)
  /\ \E card \in CardFor(run, p) : GoOn(j, p, [run EXCEPT !.hung = @ \cup {<<p, card>>}])

\* Nothing is known of the post and a call may start.
MayCall(j, p) ==
  LET run == jobs[j].run IN
  /\ AtPost(j, p) /\ ~Known(run, p) /\ ~CopyInFlight(run, p) /\ CardFor(run, p) = {}
  /\ ~MustWait(run)

LeaveAtCap(j, p) ==
  /\ MayCall(j, p) /\ AtCap(jobs[j])
  /\ GoOn(j, p, [jobs[j].run EXCEPT !.capped = @ \cup {p}])

\* The spend meter is exhausted: the calls in flight are waited for.
StopAtBudget(j, p) ==
  /\ "budget" \in Faults
  /\ MayCall(j, p) /\ ~AtCap(jobs[j])
  /\ jobs' = [jobs EXCEPT ![j].pc = "stopping"]
  /\ UNCHANGED <<version, walks, scored, failed, cards, copies, drops, deleted>>

RefuseAtCeiling(j, p) ==
  /\ MayCall(j, p) /\ ~AtCap(jobs[j]) /\ ~HasRoom(jobs[j].run, p)
  /\ GoOn(j, p, [jobs[j].run EXCEPT !.refused = @ \cup {p}])

\* A slip of GivenUp: one attempt too many.
GivenUpLate(run, p) == run.failures[p] > MaxAttempts

GivenUp(run, p) == run.failures[p] >= MaxAttempts

GiveUp(j, p) ==
  LET run == jobs[j].run IN
  /\ MayCall(j, p) /\ ~AtCap(jobs[j]) /\ HasRoom(run, p) /\ GivenUp(run, p)
  /\ GoOn(j, p, [run EXCEPT !.charged = @ \cup {p}, !.dropped = @ \cup {p}])

\* A slip of Charged: the call is not counted until the next run reads the ledger.
ChargedLater(run, p) == run.charged

Charged(run, p) == run.charged \cup {p}

Call(j, p) ==
  LET run == jobs[j].run IN
  /\ MayCall(j, p) /\ ~AtCap(jobs[j]) /\ HasRoom(run, p) /\ ~GivenUp(run, p)
  /\ GoOn(j, p, [run EXCEPT !.charged = Charged(run, p), !.inFlight = @ \cup {p}])

\* A call comes back: scoreOne writes what it says.
Back(run, p) == [run EXCEPT !.inFlight = @ \ {p}, !.returned = TRUE]

FailedAnswer(j, p) ==
  LET run == jobs[j].run IN
  /\ "fail" \in Faults
  /\ failed' = [failed EXCEPT ![run.version][p] = @ + 1]
  /\ jobs' = [jobs EXCEPT ![j].run = [Back(run, p) EXCEPT !.retryable = @ \cup {p}]]
  /\ UNCHANGED <<version, walks, scored, cards, copies, drops, deleted>>

\* Below the threshold, or no fit: a ledger row and no match.
LowAnswer(j, p) ==
  LET run == jobs[j].run IN
  /\ scored' = [scored EXCEPT ![run.version][p] = @ + 1]
  /\ jobs' = [jobs EXCEPT ![j].run = [Back(run, p) EXCEPT !.low = @ \cup {p}]]
  /\ UNCHANGED <<version, walks, failed, cards, copies, drops, deleted>>

\* The ledger row and the match are one transaction; the card carries the copies
\* scored below the threshold before it.
HighAnswer(j, p) ==
  LET run == jobs[j].run
      below == (run.scored \ run.carded) \cap Others(run, p)
      low == {q \in run.low : Words[p] # None /\ Words[q] = Words[p]}
  IN
  /\ scored' = [scored EXCEPT ![run.version][p] = @ + 1]
  /\ cards' = [cards EXCEPT ![p] =
       IF @ = None THEN [of |-> jobs[j].walk, at |-> walks, hidden |-> FALSE] ELSE @]
  /\ jobs' = [jobs EXCEPT ![j].run = [Back(run, p) EXCEPT
       !.made = @ \cup {p}, !.hung = @ \cup {<<q, p>> : q \in below \cup low}]]
  /\ UNCHANGED <<version, walks, failed, copies, drops, deleted>>

Answer(j, p) ==
  /\ jobs[j] # None /\ jobs[j].pc \in {"loop", "stopping"} /\ p \in jobs[j].run.inFlight
  /\ FailedAnswer(j, p) \/ LowAnswer(j, p) \/ HighAnswer(j, p)

\* unspentFor: what the cap is said to have kept from the model.
Left(run) ==
  Cardinality(run.candidates) - Cardinality(run.made \ run.carded)
    - Cardinality(run.retryable) - Cardinality(run.dropped)

EndLoop(j) ==
  /\ jobs[j] # None /\ jobs[j].run.inFlight = {}
  /\ \/ jobs[j].pc = "loop" /\ jobs[j].run.todo = {} /\ jobs' = [jobs EXCEPT ![j].pc = "copies"]
     \/ jobs[j].pc = "stopping"
        /\ jobs' = [jobs EXCEPT ![j].pc = "copies", ![j].run.left = Left(jobs[j].run)]
  /\ UNCHANGED <<version, walks, scored, failed, cards, copies, drops, deleted>>

\* A copy already recorded is left as it is.
WriteCopies(j) ==
  /\ jobs[j] # None /\ jobs[j].pc = "copies"
  /\ copies' = [p \in Posts |->
       LET on == {card \in Posts : <<p, card>> \in jobs[j].run.hung} IN
       IF copies[p] # None \/ on = {} THEN copies[p] ELSE CHOOSE card \in on : TRUE]
  /\ jobs' = [jobs EXCEPT ![j].pc = "drops"]
  /\ UNCHANGED <<version, walks, scored, failed, cards, drops, deleted>>

WriteDrops(j) ==
  /\ jobs[j] # None /\ jobs[j].pc = "drops"
  /\ drops' = drops \cup {<<p, "ceiling", None>> : p \in jobs[j].run.refused}
                    \cup {<<p, "match_cap", jobs[j].walk>> : p \in jobs[j].run.capped}
  /\ jobs' = [jobs EXCEPT ![j].pc = "end"]
  /\ UNCHANGED <<version, walks, scored, failed, cards, copies, deleted>>

\* The stage run's outcome.
Outcome(run) ==
  CASE run.retryable # {} -> "failed"
    [] run.retryable = {} /\ run.left > 0 -> "refused"
    [] run.retryable = {} /\ run.left = 0 /\ run.candidates = {} -> "empty"
    [] OTHER -> "done"

\* A slip of MayRetry: one run too many.
MayRetryMore(tries) == tries <= MaxTries

MayRetry(tries) == tries < MaxTries

\* pg-boss runs the job again, or gives it up.
TryAgain(j) ==
  jobs' = [jobs EXCEPT ![j] =
    IF MayRetry(jobs[j].tries)
    THEN [jobs[j] EXCEPT !.pc = "queued", !.tries = @ + 1, !.run = Blank]
    ELSE [jobs[j] EXCEPT !.pc = "dead", !.run = Blank]]

\* A slip of Unanswered: a run that scored something does not throw.
UnansweredAll(run) == run.retryable # {} /\ run.made \cup run.low = {}

\* The posts that make the job throw.
Unanswered(run) == run.retryable # {}

Finish(j) ==
  /\ jobs[j] # None /\ jobs[j].pc = "end"
  /\ IF Unanswered(jobs[j].run)
     THEN TryAgain(j)
     ELSE jobs' = [jobs EXCEPT ![j].pc = "done", ![j].outcome = Outcome(jobs[j].run)]
  /\ UNCHANGED <<version, walks, scored, failed, cards, copies, drops, deleted>>

\* The run is lost with everything it held in memory.
Crash(j) ==
  /\ "crash" \in Faults
  /\ Active(j)
  /\ TryAgain(j)
  /\ UNCHANGED <<version, walks, scored, failed, cards, copies, drops, deleted>>

---------------------------------------------------------------------------
Step(j) ==
  \/ RefuseWithoutModel(j) \/ Start(j)
  \/ \E p \in Posts :
       \/ SkipKnown(j, p) \/ HangOnCard(j, p) \/ LeaveAtCap(j, p) \/ StopAtBudget(j, p)
       \/ RefuseAtCeiling(j, p) \/ GiveUp(j, p) \/ Call(j, p) \/ Answer(j, p)
  \/ EndLoop(j) \/ WriteCopies(j) \/ WriteDrops(j) \/ Finish(j)

Next ==
  \/ BeginWalk \/ Redefine
  \/ \E p \in Posts : DeletePost(p)
  \/ \E j \in Jobs :
       \/ \E batch \in SUBSET Posts \ {{}}, walk \in Walks : HandBatch(j, batch, walk)
       \/ Step(j) \/ Crash(j)

Spec == Init /\ [][Next]_vars

\* A queue's job is taken, a call comes back and a statement answers.
LiveSpec == Spec /\ \A j \in Jobs : WF_vars(Step(j))

---------------------------------------------------------------------------
\* Properties.

RunType ==
  [version : Versions, scored : SUBSET Posts, failures : [Posts -> Nat], carded : SUBSET Posts,
   copied : SUBSET Posts, gone : SUBSET Posts, asked : SUBSET Posts, before : Nat,
   candidates : SUBSET Posts, todo : SUBSET Posts, inFlight : SUBSET Posts, returned : BOOLEAN,
   low : SUBSET Posts, made : SUBSET Posts, hung : SUBSET (Posts \X Posts),
   refused : SUBSET Posts, capped : SUBSET Posts, charged : SUBSET Posts,
   retryable : SUBSET Posts, dropped : SUBSET Posts, left : Int]

JobType ==
  [pc : {"queued", "loop", "stopping", "copies", "drops", "end", "done", "dead"},
   batch : SUBSET Posts, walk : Walks, tries : 1..MaxTries,
   outcome : {"failed", "refused", "empty", "done", None}, run : RunType]

TypeOK ==
  /\ version \in Versions /\ walks \in Walks
  /\ scored \in [Versions -> [Posts -> Nat]]
  /\ failed \in [Versions -> [Posts -> Nat]]
  /\ cards \in [Posts -> Cards \cup {None}]
  /\ copies \in [Posts -> Posts \cup {None}]
  /\ drops \in SUBSET (Posts \X {"ceiling", "match_cap"} \X (Walks \cup {None}))
  /\ deleted \in SUBSET Posts
  /\ jobs \in [Jobs -> JobType \cup {None}]

\* A post is paid for once at each version of the monitor, whatever jobs hand it
\* again, fail half way or die.
ScoredOnce == \A v \in Versions, p \in Posts : scored[v][p] <= 1

\* A post the model fails on is given up at MaxAttempts, whatever hands it again.
AttemptsEnd == \A v \in Versions, p \in Posts : failed[v][p] <= MaxAttempts

\* A post written twice is one card (US-400), however many calls are in flight.
OneCardPerWords ==
  \A p, q \in Carded \ deleted : p # q /\ Words[p] # None => Words[p] # Words[q]

\* A collection ends at most Concurrency - 1 matches over its cap.
CapHolds ==
  Cap # None =>
    \A w \in Walks : Cardinality({p \in Carded : cards[p].of = w}) <= Cap + Concurrency - 1

\* The day's posts are no more than what its pairs may put to the model.
CeilingHolds ==
  Limit # None =>
    Cardinality({p \in AskedToday : Pairs[p] # {}}) <= Limit * Cardinality(UNION {Pairs[p] : p \in Posts})

\* What became of a post under a version.
Settled(p, v) ==
  \/ scored[v][p] > 0 \/ failed[v][p] >= MaxAttempts
  \/ p \in deleted \/ p \in Copied \/ \E d \in drops : d[1] = p

\* A job that ended, and that neither the budget nor a missing key stopped, left
\* no post of its batch behind.
DoneIsSettled ==
  \A j \in Jobs : jobs[j] # None /\ jobs[j].pc = "done" /\ jobs[j].outcome # "refused" =>
    \A p \in jobs[j].batch : Settled(p, jobs[j].run.version)

\* No job waits for ever on its own calls.
EveryJobEnds ==
  \A j \in Jobs : jobs[j] # None ~> jobs[j] # None /\ jobs[j].pc \in {"done", "dead"}

\* No job is running or waiting to run.
Quiet == \A j \in Jobs : jobs[j] = None \/ jobs[j].pc \in {"done", "dead"}

\* A new card carries the copies scored below the threshold before it.
CardCarriesCopies ==
  Quiet =>
    \A p \in Carded, q \in Posts :
      /\ q # p /\ Words[p] # None /\ Words[q] = Words[p]
      /\ scored[version][p] > 0 /\ scored[version][q] > 0
      => copies[q] = p

\* A post the model would not answer keeps its place.
UnansweredKeepsItsPlace ==
  \A p \in Posts : (\E d \in drops : d[1] = p /\ d[2] = "ceiling") => p \notin AskedToday

\* leftByCap counts the posts the budget kept this run from reaching.
LeftIsUnread ==
  \A j \in Jobs : jobs[j] # None /\ jobs[j].pc = "end" =>
    jobs[j].run.left = Cardinality(jobs[j].run.todo)

\* A late classification does not put a deleted post back in the inbox.
DeletedStaysHidden == \A p \in Carded \cap deleted : cards[p].hidden

\* A walk's posts are left at its cap once the walk has made that many matches.
CapIsTheWalks ==
  \A d \in drops : d[2] = "match_cap" => Cardinality({p \in Carded : cards[p].of = d[3]}) >= Cap
=============================================================================
