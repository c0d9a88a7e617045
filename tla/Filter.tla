------------------------------- MODULE Filter -------------------------------
(***************************************************************************)
(* From a poll's filter job to the classifier: the filter step              *)
(* (worker/filter.ts) drops posts at three stages and sends the rest on,    *)
(* and the complete step (worker/complete.ts) first reads whole the posts   *)
(* a feed cut.  Jobs die between any two statements and are retried.        *)
(*                                                                         *)
(* What a stage says of a post is a choice of the environment, and so is    *)
(* every way a stage passes a post on unread.  The triage loop is one step: *)
(* it writes nothing but its calls (Meter models the money).                *)
(***************************************************************************)
EXTENDS Integers, FiniteSets

CONSTANTS
  Monitors,
  Posts,
  Comments,    \* the posts that are replies
  Cut,         \* the posts their feed gives only the beginning of
  Jobs,        \* filter jobs, one per poll
  Owner,       \* job -> its monitor
  Holds,       \* job -> the posts its poll found
  Since,       \* job -> the start of its poll's window
  Started,     \* post -> when its thread was started
  None,        \* null
  MaxPages,    \* pages one complete job reads (20)
  MaxTries,    \* attempts of a job before the dead letter queue (5)
  MaxCrashes,  \* bound: runs that die
  FaultSets    \* the sets of faults a behaviour may meet

AllFaults ==
  { "crash",   \* the worker dies, or a statement or a send fails
    "delete",  \* a person deletes a monitor
    "skip",    \* the walk is full, the budget is spent or a key is missing
    "pages" }  \* a page does not come back

ASSUME FilterAssumption ==
  /\ IsFiniteSet(Monitors)
  /\ Comments \subseteq Posts /\ Cut \subseteq Posts \ Comments
  /\ Owner \in [Jobs -> Monitors] /\ Holds \in [Jobs -> (SUBSET Posts) \ {{}}]
  /\ Since \in [Jobs -> Nat] /\ Started \in [Posts -> Nat]
  /\ MaxPages \in Nat \ {0} /\ MaxTries \in Nat \ {0} /\ MaxCrashes \in Nat
  /\ FaultSets \subseteq SUBSET AllFaults

VARIABLES
  faults,    \* what may happen in this behaviour
  row,       \* post -> its partial columns, None before it is stored
  drops,     \* monitor -> post -> the stage that dropped it (filter_drops)
  job,       \* job -> the filter job
  pages,     \* <<job, try>> -> the complete job that try sent, or None
  classify,  \* job -> its posts handed to the classifier
  threads,   \* job -> its posts handed to the replies step
  gone,      \* monitors that were deleted
  whole,     \* post -> pages bought that came back whole
  crashes    \* runs that died

vars == <<faults, row, drops, job, pages, classify, threads, gone, whole, crashes>>

Tries == 1..MaxTries
Stages == {"filter", "old_thread"}
Waiting == {"idle", "queued"}
Over == {"done", "dead"}

\* The jobs of both steps, and a stored post.
FilterJobs ==
  [pc : Waiting \cup Over \cup {"stages", "deliver", "send", "threads"}, try : Tries,
   kept : SUBSET Posts, cut : SUBSET Posts, dropped : [Posts -> Stages \cup {None}]]
Partials == [partial : BOOLEAN, since : Nat \cup {None}]
PageJobs ==
  [pc : {"queued", "pages", "send"} \cup Over, try : Tries, posts : SUBSET Posts,
   todo : SUBSET Posts, seen : [Posts -> Partials \cup {None}] \cup {None}, old : SUBSET Posts]

ASSUME NullAssumption == None \notin Stages \cup Partials \cup PageJobs

Fresh == [pc |-> "idle", try |-> 1, kept |-> {}, cut |-> {}, dropped |-> [p \in Posts |-> None]]

Init ==
  /\ faults \in FaultSets
  /\ row = [p \in Posts |-> None]
  /\ drops = [m \in Monitors |-> [p \in Posts |-> None]]
  /\ job = [j \in Jobs |-> Fresh]
  /\ pages = [k \in Jobs \X Tries |-> None]
  /\ classify = [j \in Jobs |-> {}] /\ threads = [j \in Jobs |-> {}]
  /\ gone = {}
  /\ whole = [p \in Posts |-> 0] /\ crashes = 0

\* recordFilterDrops: a post already dropped is dropped again, at the stage of now.
Dropping(m, new) ==
  [drops EXCEPT ![m] = [p \in Posts |-> IF new[p] # None THEN new[p] ELSE @[p]]]

At(m, posts, stage) == [p \in Posts |-> IF p \in posts THEN stage ELSE m[p]]

---------------------------------------------------------------------------
\* Around the steps.

\* A poll stores what it found, keeps the rows there are, and sends the filter job.
Hand(j) ==
  /\ job[j].pc = "idle" /\ Owner[j] \notin gone
  /\ row' = [p \in Posts |->
       IF p \in Holds[j] /\ row[p] = None
       THEN [partial |-> p \in Cut, since |-> Since[j]] ELSE row[p]]
  /\ job' = [job EXCEPT ![j].pc = "queued"]
  /\ UNCHANGED <<faults, drops, pages, classify, threads, gone, whole, crashes>>

\* The monitor and everything that names it.
Delete(m) ==
  /\ "delete" \in faults /\ m \notin gone
  /\ gone' = gone \cup {m}
  /\ drops' = [drops EXCEPT ![m] = [p \in Posts |-> None]]
  /\ UNCHANGED <<faults, row, job, pages, classify, threads, whole, crashes>>

---------------------------------------------------------------------------
\* The filter step.

\* A slip of Running: a job in the dead letter queue still counts.
RunningDead(pc) == pc \notin Waiting \cup {"done"}

\* Has the queue given the job to a worker?
Running(pc) == pc \notin Waiting \cup Over

\* The queue runs one job of a monitor at a time.
MayStart(j) ==
  /\ job[j].pc = "queued"
  /\ \A other \in Jobs : Owner[other] = Owner[j] => ~Running(job[other].pc)

\* Deleted between the poll and this job.
SkipGone(j) ==
  /\ MayStart(j) /\ Owner[j] \in gone
  /\ job' = [job EXCEPT ![j].pc = "done"]
  /\ UNCHANGED <<faults, row, drops, pages, classify, threads, gone, whole, crashes>>

\* The rows are read.
Start(j) ==
  /\ MayStart(j) /\ Owner[j] \notin gone
  /\ job' = [job EXCEPT ![j] = [@ EXCEPT
       !.pc = "stages", !.kept = Holds[j], !.cut = {p \in Holds[j] : row[p].partial}]]
  /\ UNCHANGED <<faults, row, drops, pages, classify, threads, gone, whole, crashes>>

\* What each stage may drop of what reaches it.  The keyword stage drops posts that hold
\* none of the words that could have found them, the embedding stage posts measured below
\* the threshold, and neither drops a comment; triage drops what a model says an explicit
\* no to.  A stage that is off, fails or is out of money drops nothing.
Plain(posts) == SUBSET (posts \ Comments)
Below(posts) == SUBSET (posts \ Comments)
Refused(posts) == SUBSET posts

\* The three stages: until they are over the run writes only vectors and calls.
Sift(j) ==
  /\ job[j].pc = "stages"
  /\ \E plain \in Plain(job[j].kept) :
     \E far \in Below(job[j].kept \ plain) :
     \E no \in Refused(job[j].kept \ (plain \cup far)) :
       LET out == plain \cup far \cup no IN
       job' = [job EXCEPT ![j].pc = "deliver", ![j].kept = @ \ out,
                         ![j].dropped = At(@, out, "filter")]
  /\ UNCHANGED <<faults, row, drops, pages, classify, threads, gone, whole, crashes>>

\* deliver: the drops are written, unless their monitor is gone.
RecordDrops(j) ==
  /\ job[j].pc = "deliver"
  /\ job[j].dropped # Fresh.dropped => Owner[j] \notin gone
  /\ drops' = Dropping(Owner[j], job[j].dropped)
  /\ job' = [job EXCEPT ![j].pc = "send"]
  /\ UNCHANGED <<faults, row, pages, classify, threads, gone, whole, crashes>>

\* A slip of SentOn: only the posts that were cut go to be read.
SentOnCut(j) == job[j].kept \cap job[j].cut

\* What the complete job is sent: the whole batch.
SentOn(j) == job[j].kept

\* A complete job without a run.
Sent(posts, pc, try) ==
  [pc |-> pc, try |-> try, posts |-> posts, todo |-> {}, seen |-> None, old |-> {}]

\* A batch that holds a partial post is completed first.
Send(j) ==
  /\ job[j].pc = "send"
  /\ IF job[j].kept \cap job[j].cut # {}
     THEN /\ pages' = [pages EXCEPT ![<<j, job[j].try>>] =
               Sent(SentOn(j), "queued", 1)]
          /\ UNCHANGED classify
     ELSE /\ classify' = [classify EXCEPT ![j] = @ \cup job[j].kept]
          /\ UNCHANGED pages
  /\ job' = [job EXCEPT ![j].pc = "threads"]
  /\ UNCHANGED <<faults, row, drops, threads, gone, whole, crashes>>

\* A slip of Opens: the posts of the batch, kept or not.
OpensAll(j) == Holds[j] \ Comments

\* The posts, and no comment, are worth a thread.
Opens(j) == job[j].kept \ Comments

\* The monitor includes replies; one that does not ends here and sends none.
SendThreads(j) ==
  /\ job[j].pc = "threads"
  /\ threads' = [threads EXCEPT ![j] = @ \cup Opens(j)]
  /\ job' = [job EXCEPT ![j] = [Fresh EXCEPT !.pc = "done"]]
  /\ UNCHANGED <<faults, row, drops, pages, classify, gone, whole, crashes>>

\* What becomes of a job whose run did not end.
Retried(try) == IF try < MaxTries THEN "queued" ELSE "dead"

\* A slip of Again: a retry begins without a limit.
AgainMore(try) == try + 1

Again(try) == IF try < MaxTries THEN try + 1 ELSE try

Dies == "crash" \in faults /\ crashes < MaxCrashes /\ crashes' = crashes + 1

\* The run dies, or throws because a statement failed.
Fail(j) ==
  /\ Running(job[j].pc)
  /\ \/ Dies
     \/ /\ job[j].pc = "deliver" /\ job[j].dropped # Fresh.dropped /\ Owner[j] \in gone
        /\ UNCHANGED crashes
  /\ job' = [job EXCEPT ![j] = [Fresh EXCEPT
       !.pc = Retried(job[j].try), !.try = Again(job[j].try)]]
  /\ UNCHANGED <<faults, row, drops, pages, classify, threads, gone, whole>>

Filter(j) ==
  \/ SkipGone(j) \/ Start(j) \/ Sift(j)
  \/ RecordDrops(j) \/ Send(j) \/ SendThreads(j) \/ Fail(j)

---------------------------------------------------------------------------
\* The complete step, on the job k that one try of a filter job sent.

\* A slip of Partial: the posts whose feed cuts, read or not.
PartialByFeed(posts) == posts \cap Cut

\* The posts that are still partial.
Partial(posts) == {p \in posts : row[p].partial}

MayComplete(k) ==
  /\ pages[k] # None /\ pages[k].pc = "queued"
  /\ \A other \in Jobs \X Tries :
       pages[other] # None /\ Owner[other[1]] = Owner[k[1]] => ~Running(pages[other].pc)

HandOn(k, posts) == classify' = [classify EXCEPT ![k[1]] = @ \cup posts]

\* None is partial, or the partial ones go on as they are.
PassOn(k) ==
  /\ MayComplete(k)
  /\ Partial(pages[k].posts) = {} \/ ("skip" \in faults /\ Owner[k[1]] \notin gone)
  /\ HandOn(k, pages[k].posts)
  /\ pages' = [pages EXCEPT ![k] = Sent(pages[k].posts, "done", 1)]
  /\ UNCHANGED <<faults, row, drops, job, threads, gone, whole, crashes>>

CompleteGone(k) ==
  /\ MayComplete(k) /\ Partial(pages[k].posts) # {} /\ Owner[k[1]] \in gone
  /\ pages' = [pages EXCEPT ![k] = Sent(pages[k].posts, "done", 1)]
  /\ UNCHANGED <<faults, row, drops, job, classify, threads, gone, whole, crashes>>

\* At most so many pages are asked for; the other posts go on partial.
Complete(k, asked) ==
  /\ MayComplete(k) /\ Owner[k[1]] \notin gone
  /\ asked \subseteq Partial(pages[k].posts)
  /\ asked # {} /\ Cardinality(asked) <= MaxPages
  /\ asked = Partial(pages[k].posts) \/ Cardinality(asked) = MaxPages \/ "skip" \in faults
  /\ pages' = [pages EXCEPT ![k] = [@ EXCEPT !.pc = "pages", !.todo = asked, !.seen = row]]
  /\ UNCHANGED <<faults, row, drops, job, classify, threads, gone, whole, crashes>>

Asking(k, p) == pages[k] # None /\ pages[k].pc = "pages" /\ p \in pages[k].todo

\* The page shows a thread older than the window its row came with.
IsOld(k, p) ==
  LET since == pages[k].seen[p].since IN since # None /\ Started[p] <= since

\* The page comes back, and the post is whole.
ReadPage(k, p) ==
  /\ Asking(k, p) /\ ~IsOld(k, p)
  /\ row' = [row EXCEPT ![p] = [partial |-> FALSE, since |-> None]]
  /\ whole' = [whole EXCEPT ![p] = @ + 1]
  /\ pages' = [pages EXCEPT ![k].todo = @ \ {p}]
  /\ UNCHANGED <<faults, drops, job, classify, threads, gone, crashes>>

FindOld(k, p) ==
  /\ Asking(k, p) /\ IsOld(k, p)
  /\ pages' = [pages EXCEPT ![k].todo = @ \ {p}, ![k].old = @ \cup {p}]
  /\ UNCHANGED <<faults, row, drops, job, classify, threads, gone, whole, crashes>>

\* No page comes back, and the post goes on as it is.
MissPage(k, p) ==
  /\ "pages" \in faults /\ Asking(k, p)
  /\ pages' = [pages EXCEPT ![k].todo = @ \ {p}]
  /\ UNCHANGED <<faults, row, drops, job, classify, threads, gone, whole, crashes>>

RecordOld(k) ==
  /\ pages[k] # None /\ pages[k].pc = "pages" /\ pages[k].todo = {}
  /\ pages[k].old # {} => Owner[k[1]] \notin gone
  /\ drops' = Dropping(Owner[k[1]], At(Fresh.dropped, pages[k].old, "old_thread"))
  /\ pages' = [pages EXCEPT ![k].pc = "send"]
  /\ UNCHANGED <<faults, row, job, classify, threads, gone, whole, crashes>>

SendWhole(k) ==
  /\ pages[k] # None /\ pages[k].pc = "send"
  /\ HandOn(k, pages[k].posts \ pages[k].old)
  /\ pages' = [pages EXCEPT ![k] = Sent(pages[k].posts, "done", 1)]
  /\ UNCHANGED <<faults, row, drops, job, threads, gone, whole, crashes>>

FailPages(k) ==
  /\ pages[k] # None /\ Running(pages[k].pc)
  /\ \/ Dies
     \/ /\ pages[k].pc = "pages" /\ pages[k].todo = {} /\ pages[k].old # {} /\ Owner[k[1]] \in gone
        /\ UNCHANGED crashes
  /\ pages' = [pages EXCEPT ![k] = Sent(@.posts, Retried(@.try), Again(@.try))]
  /\ UNCHANGED <<faults, row, drops, job, classify, threads, gone, whole>>

Completing(k) ==
  \/ PassOn(k) \/ CompleteGone(k) \/ \E asked \in SUBSET Posts : Complete(k, asked)
  \/ \E p \in Posts : ReadPage(k, p) \/ FindOld(k, p) \/ MissPage(k, p)
  \/ RecordOld(k) \/ SendWhole(k) \/ FailPages(k)

---------------------------------------------------------------------------

\* Everything that was handed has come to its end.
Settled ==
  /\ \A j \in Jobs : job[j].pc \in Over \/ (job[j].pc = "idle" /\ Owner[j] \in gone)
  /\ \A k \in Jobs \X Tries : pages[k] # None => pages[k].pc \in Over
  /\ UNCHANGED vars

Next ==
  \/ \E j \in Jobs : Hand(j) \/ Filter(j)
  \/ \E k \in Jobs \X Tries : Completing(k)
  \/ \E m \in Monitors : Delete(m)
  \/ Settled

Spec == Init /\ [][Next]_vars

\* The workers run what is sent, whichever first.
Work == (\E j \in Jobs : Filter(j)) \/ (\E k \in Jobs \X Tries : Completing(k))
LiveSpec == Spec /\ WF_vars(Work)

---------------------------------------------------------------------------
\* Properties.

TypeOK ==
  /\ faults \in FaultSets
  /\ row \in [Posts -> Partials \cup {None}]
  /\ drops \in [Monitors -> [Posts -> Stages \cup {None}]]
  /\ job \in [Jobs -> FilterJobs]
  /\ pages \in [Jobs \X Tries -> PageJobs \cup {None}]
  /\ \A k \in Jobs \X Tries : pages[k] # None =>
       /\ pages[k].todo \subseteq pages[k].posts /\ pages[k].old \subseteq pages[k].posts
  /\ classify \in [Jobs -> SUBSET Posts] /\ threads \in [Jobs -> SUBSET Posts]
  /\ gone \subseteq Monitors /\ whole \in [Posts -> Nat]
  /\ crashes \in 0..MaxCrashes

\* The posts job j gave the complete step.
ToComplete(j) == UNION {pages[<<j, n>>].posts : n \in {m \in Tries : pages[<<j, m>>] # None}}

\* Every post a poll found is with the classifier, has a drop that says which stage
\* refused it, or is in a job that will be run or is in the dead letter queue, whatever
\* order two steps, three sends and their retries take (filter.ts:160, complete.ts:12).
NothingVanishes ==
  \A j \in Jobs : \A p \in Holds[j] :
    \/ p \in classify[j]
    \/ drops[Owner[j]][p] # None
    \/ job[j].pc # "done"
    \/ \E n \in Tries : LET k == <<j, n>> IN
         pages[k] # None /\ p \in pages[k].posts /\ pages[k].pc # "done"
    \/ Owner[j] \in gone

\* A thread is opened only for a post already on its way to the classifier: the reader's
\* copy of a lead never waits for, or depends on, its comments (filter.ts:186).
ThreadsWereSentOn ==
  \A j \in Jobs : threads[j] \subseteq classify[j] \cup ToComplete(j)

\* A page that came back whole is not bought again, by a retry or by another poll that
\* finds the post, except by monitors that read the post at the same moment.
PageIsBoughtOnce == \A p \in Posts : whole[p] <= Cardinality(Monitors)

\* Every batch a poll hands over comes to an end in both steps.
EveryBatchSettles ==
  \A j \in Jobs : job[j].pc = "queued" ~>
    /\ job[j].pc \in Over
    /\ \A n \in Tries : pages[<<j, n>>] # None => pages[<<j, n>>].pc \in Over

\* A thread is dropped as old only when it started before the window of a poll of the
\* monitor that found it (db/schema/vocabulary.ts:71).  The code does not keep this: the
\* row keeps the window of the poll that stored it first, another monitor's perhaps.
DroppedAsOldIsOld ==
  \A m \in Monitors, p \in Posts : drops[m][p] = "old_thread" =>
    \E j \in Jobs : Owner[j] = m /\ p \in Holds[j] /\ Started[p] <= Since[j]

\* A post a job dropped is not handed to the classifier by a retry of it.  The code does
\* not keep this: the retry asks again, and an answer may differ.
DropsAreFinal ==
  [][\A j \in Jobs : \A p \in classify'[j] \ classify[j] : drops[Owner[j]][p] = None]_vars
=============================================================================
