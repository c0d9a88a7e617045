---------------------------- MODULE FilterProofs ----------------------------
(***************************************************************************)
(* Proofs about Filter, for every set of monitors, posts and jobs, every    *)
(* number of tries and every fault.                                         *)
(***************************************************************************)
EXTENDS Filter, FiniteSetTheorems, TLAPS

Keys == Jobs \X Tries

\* Where a post of a finished job may be.
Waits(j, p) ==
  \E n \in Tries : /\ pages[<<j, n>>] # None
                   /\ p \in pages[<<j, n>>].posts /\ pages[<<j, n>>].pc # "done"
Accounted(j, p) ==
  p \in classify[j] \/ drops[Owner[j]][p] # None \/ Waits(j, p) \/ Owner[j] \in gone

\* What a run knows of the posts of its poll, at each of its statements.
Sifted(j) ==
  /\ job[j].pc = "stages" => job[j].kept = Holds[j]
  /\ job[j].pc = "deliver" => \A p \in Holds[j] : p \in job[j].kept \/ job[j].dropped[p] # None
  /\ job[j].pc \in {"send", "threads"} => \A p \in Holds[j] :
       p \in job[j].kept \/ drops[Owner[j]][p] # None \/ Owner[j] \in gone
  /\ job[j].pc = "threads" => \A p \in job[j].kept : Accounted(j, p)
  /\ job[j].pc = "done" => \A p \in Holds[j] : Accounted(j, p)

\* A try sends its complete job once, and a later try has sent none.
Unsent(j) ==
  job[j].pc \notin Over => \A n \in Tries :
    n > job[j].try \/ (n = job[j].try /\ job[j].pc # "threads") => pages[<<j, n>>] = None

\* A post the complete step leaves behind has its drop before the batch is sent.
OldIsDropped(k) ==
  pages[k] # None /\ pages[k].pc = "send" => \A p \in pages[k].old :
    drops[Owner[k[1]]][p] # None \/ Owner[k[1]] \in gone

\* A post is in a job of the classifier or of the complete step.
Booked(j, p) ==
  p \in classify[j] \/ \E n \in Tries : pages[<<j, n>>] # None /\ p \in pages[<<j, n>>].posts
Opened(j) ==
  /\ job[j].pc = "threads" => \A p \in job[j].kept : Booked(j, p)
  /\ \A p \in threads[j] : Booked(j, p)

Inv ==
  /\ TypeOK
  /\ \A j \in Jobs : Sifted(j) /\ Unsent(j) /\ Opened(j)
  /\ \A k \in Keys : OldIsDropped(k)

---------------------------------------------------------------------------
\* Types.

LEMMA NoneFacts ==
  /\ None # "filter" /\ None # "old_thread"
  /\ \A page \in PageJobs : page # None
BY NullAssumption DEF Stages

LEMMA FreshType == ASSUME NEW pc \in Waiting \cup Over \cup {"threads"}, NEW try \in Tries
  PROVE  [Fresh EXCEPT !.pc = pc, !.try = try] \in FilterJobs
BY DEF Fresh, FilterJobs

LEMMA TryFacts ==
  /\ Tries \subseteq Nat /\ 1 \in Tries
  /\ \A try \in Tries : Again(try) \in Tries /\ Retried(try) \in {"queued", "dead"}
  /\ \A try \in Tries : Retried(try) = "queued" => Again(try) = try + 1
BY FilterAssumption DEF Tries, Again, Retried

LEMMA SentType ==
  ASSUME NEW posts \in SUBSET Posts, NEW pc \in {"queued", "done", "dead"}, NEW try \in Tries
  PROVE  /\ Sent(posts, pc, try) \in PageJobs /\ Sent(posts, pc, try) # None
         /\ Sent(posts, pc, try).posts = posts /\ Sent(posts, pc, try).pc = pc
         /\ Sent(posts, pc, try).todo = {} /\ Sent(posts, pc, try).old = {}
<1>1. Sent(posts, pc, try) \in PageJobs
  BY DEF Sent, PageJobs, Over
<1> QED BY <1>1, NoneFacts DEF Sent

LEMMA AtType ==
  ASSUME NEW m \in [Posts -> Stages \cup {None}], NEW posts, NEW stage \in Stages
  PROVE  At(m, posts, stage) \in [Posts -> Stages \cup {None}]
BY DEF At

LEMMA DroppingType ==
  ASSUME TypeOK, NEW m \in Monitors, NEW new \in [Posts -> Stages \cup {None}]
  PROVE  /\ Dropping(m, new) \in [Monitors -> [Posts -> Stages \cup {None}]]
         /\ \A n \in Monitors, p \in Posts : drops[n][p] # None => Dropping(m, new)[n][p] # None
         /\ \A p \in Posts : new[p] # None => Dropping(m, new)[m][p] # None
BY DEF TypeOK, Dropping

\* A page job that is there is one.
LEMMA PageFacts ==
  ASSUME TypeOK, NEW k \in Keys, pages[k] # None
  PROVE  /\ pages[k] \in PageJobs
         /\ pages[k].posts \subseteq Posts /\ pages[k].try \in Tries
         /\ pages[k].todo \subseteq pages[k].posts /\ pages[k].old \subseteq pages[k].posts
<1>1. pages[k] \in PageJobs
  BY DEF TypeOK, Keys
<1> QED BY <1>1 DEF TypeOK, Keys, PageJobs

LEMMA Owners == \A j \in Jobs : Owner[j] \in Monitors /\ Holds[j] \subseteq Posts
BY FilterAssumption

---------------------------------------------------------------------------
\* Every step keeps the types.

LEMMA InitTypes == Init => TypeOK
<1> SUFFICES ASSUME Init PROVE TypeOK
  OBVIOUS
<1>1. Fresh \in FilterJobs
  BY TryFacts DEF Fresh, FilterJobs, Waiting
<1>2. pages = [k \in Keys |-> None]
  BY DEF Init, Keys
<1> QED BY <1>1, <1>2, FilterAssumption DEF Init, TypeOK, Keys

LEMMA AroundTypes ==
  ASSUME TypeOK, (\E j \in Jobs : Hand(j)) \/ (\E m \in Monitors : Delete(m))
  PROVE  TypeOK'
<1>1. ASSUME NEW j \in Jobs, Hand(j) PROVE TypeOK'
  <2>1. row' \in [Posts -> Partials \cup {None}]
    <3>1. [p \in Posts |-> IF p \in Holds[j] /\ row[p] = None
                            THEN [partial |-> p \in Cut, since |-> Since[j]] ELSE row[p]]
          \in [Posts -> Partials \cup {None}]
      <4>1. Since[j] \in Nat
        BY FilterAssumption
      <4>2. \A p \in Posts : [partial |-> p \in Cut, since |-> Since[j]] \in Partials
        BY <4>1 DEF Partials
      <4> QED BY <4>2 DEF TypeOK
    <3> QED BY <3>1, <1>1 DEF Hand
  <2>2. job' \in [Jobs -> FilterJobs]
    <3>1. [job[j] EXCEPT !.pc = "queued"] \in FilterJobs
      <4>1. job[j] \in FilterJobs
        BY DEF TypeOK
      <4> QED BY <4>1 DEF FilterJobs, Waiting
    <3>2. job' = [job EXCEPT ![j] = [job[j] EXCEPT !.pc = "queued"]]
      BY <1>1 DEF Hand
    <3> QED BY <3>1, <3>2 DEF TypeOK
  <2> QED BY <1>1, <2>1, <2>2 DEF Hand, TypeOK
<1>2. ASSUME NEW m \in Monitors, Delete(m) PROVE TypeOK'
  <2>1. drops' \in [Monitors -> [Posts -> Stages \cup {None}]]
    BY <1>2 DEF Delete, TypeOK
  <2> QED BY <1>2, <2>1 DEF Delete, TypeOK
<1> QED BY <1>1, <1>2

LEMMA FilterTypes ==
  ASSUME TypeOK, NEW j \in Jobs, Filter(j)
  PROVE  TypeOK'
<1> USE Owners
<1>1. job[j] \in FilterJobs /\ job \in [Jobs -> FilterJobs]
  BY DEF TypeOK
<1>2. CASE SkipGone(j)
  <2>1. job' \in [Jobs -> FilterJobs]
    BY <1>1, <1>2 DEF SkipGone, FilterJobs, Over
  <2> QED BY <1>2, <2>1 DEF SkipGone, TypeOK
<1>3. CASE Start(j)
  <2>1. job' \in [Jobs -> FilterJobs]
    BY <1>1, <1>3 DEF Start, FilterJobs
  <2> QED BY <1>3, <2>1 DEF Start, TypeOK
<1>4. CASE Sift(j)
  <2>1. PICK out : job' = [job EXCEPT ![j].pc = "deliver", ![j].kept = @ \ out,
                                       ![j].dropped = At(@, out, "filter")]
    BY <1>4 DEF Sift
  <2>2. At(job[j].dropped, out, "filter") \in [Posts -> Stages \cup {None}]
    BY <1>1, AtType DEF FilterJobs, Stages
  <2> DEFINE new == [job[j] EXCEPT !.pc = "deliver", !.kept = @ \ out,
                                   !.dropped = At(@, out, "filter")]
  <2>3. new \in FilterJobs
    BY <1>1, <2>2 DEF FilterJobs
  <2>4. job' = [job EXCEPT ![j] = new]
    BY <2>1
  <2>5. job' \in [Jobs -> FilterJobs]
    <3> HIDE DEF new
    <3> QED BY <1>1, <2>3, <2>4
  <2> QED BY <1>4, <2>5 DEF Sift, TypeOK
<1>5. CASE RecordDrops(j)
  <2>1. job' \in [Jobs -> FilterJobs]
    BY <1>1, <1>5 DEF RecordDrops, FilterJobs
  <2>2. drops' \in [Monitors -> [Posts -> Stages \cup {None}]]
    BY <1>1, <1>5, DroppingType DEF RecordDrops, FilterJobs
  <2> QED BY <1>5, <2>1, <2>2 DEF RecordDrops, TypeOK
<1>6. CASE Send(j)
  <2>1. job' \in [Jobs -> FilterJobs]
    BY <1>1, <1>6 DEF Send, FilterJobs
  <2>2. classify' \in [Jobs -> SUBSET Posts]
    <3>1. job[j].kept \subseteq Posts
      BY <1>1 DEF FilterJobs
    <3>2. classify' = classify \/ classify' = [classify EXCEPT ![j] = @ \cup job[j].kept]
      BY <1>6 DEF Send
    <3> QED BY <3>1, <3>2 DEF TypeOK
  <2>3. CASE pages' = pages
    BY <1>6, <2>1, <2>2, <2>3 DEF Send, TypeOK
  <2>4. CASE pages' # pages
    <3> DEFINE key == <<j, job[j].try>>
               page == Sent(SentOn(j), "queued", 1)
    <3>1. pages' = [pages EXCEPT ![key] = page]
      BY <1>6, <2>4 DEF Send
    <3>2. page \in PageJobs /\ page.todo = {} /\ page.old = {}
      <4>1. job[j].kept \in SUBSET Posts
        BY <1>1 DEF FilterJobs
      <4> QED BY <4>1, SentType, TryFacts DEF SentOn
    <3>3. pages' \in [Keys -> PageJobs \cup {None}]
      BY <3>1, <3>2 DEF TypeOK, Keys
    <3>4. \A k \in Keys : pages'[k] # None =>
            pages'[k].todo \subseteq pages'[k].posts /\ pages'[k].old \subseteq pages'[k].posts
      <4> HIDE DEF page
      <4>1. \A k \in Keys : pages'[k] = page \/ pages'[k] = pages[k]
        BY <3>1 DEF TypeOK, Keys
      <4> QED BY <3>2, <4>1 DEF TypeOK, Keys
    <3> QED BY <1>6, <2>1, <2>2, <3>3, <3>4 DEF Send, TypeOK, Keys
  <2> QED BY <2>3, <2>4
<1>7. CASE SendThreads(j)
  <2>1. job' \in [Jobs -> FilterJobs]
    BY <1>1, <1>7, TryFacts DEF SendThreads, FilterJobs, Fresh, Over
  <2>2. threads' \in [Jobs -> SUBSET Posts]
    BY <1>1, <1>7 DEF SendThreads, FilterJobs, TypeOK, Opens
  <2> QED BY <1>7, <2>1, <2>2 DEF SendThreads, TypeOK
<1>8. CASE Fail(j)
  <2>1. job' \in [Jobs -> FilterJobs]
    <3>1. job[j].try \in Tries
      BY <1>1 DEF FilterJobs
    <3> QED BY <1>1, <1>8, <3>1, TryFacts DEF Fail, FilterJobs, Fresh, Waiting, Over
  <2>2. crashes' \in 0..MaxCrashes
    BY <1>8, FilterAssumption DEF Fail, Dies, TypeOK
  <2> QED BY <1>8, <2>1, <2>2 DEF Fail, TypeOK
<1> QED BY <1>2, <1>3, <1>4, <1>5, <1>6, <1>7, <1>8 DEF Filter

\* What a step of the complete job k does to the page jobs.
PageSteps(k) ==
  /\ pages[k] # None
  /\ pages' \in [Keys -> PageJobs \cup {None}]
  /\ pages'[k] # None /\ pages'[k].posts = pages[k].posts
  /\ pages'[k].todo \subseteq pages'[k].posts /\ pages'[k].old \subseteq pages'[k].posts
  /\ \A other \in Keys : other # k => pages'[other] = pages[other]

LEMMA PagesMove ==
  ASSUME TypeOK, NEW k \in Keys, Completing(k)
  PROVE  PageSteps(k)
<1> USE PageFacts, SentType, TryFacts
<1>1. pages \in [Keys -> PageJobs \cup {None}]
  BY DEF TypeOK, Keys
<1>2. pages[k] # None
  BY DEF Completing, PassOn, CompleteGone, Complete, MayComplete, Asking, ReadPage, FindOld,
         MissPage, RecordOld, SendWhole, FailPages
<1>3. SUFFICES \E page \in PageJobs :
        /\ pages' = [pages EXCEPT ![k] = page] /\ page.posts = pages[k].posts
        /\ page.todo \subseteq page.posts /\ page.old \subseteq page.posts
  BY <1>1, <1>2, NoneFacts DEF PageSteps
<1>4. pages[k] \in PageJobs /\ pages[k].posts \subseteq Posts
      /\ pages[k].todo \subseteq pages[k].posts /\ pages[k].old \subseteq pages[k].posts
      /\ pages[k].try \in Tries
  BY <1>2
<1>5. CASE PassOn(k) \/ CompleteGone(k) \/ SendWhole(k)
  <2>1. pages' = [pages EXCEPT ![k] = Sent(pages[k].posts, "done", 1)]
    BY <1>5 DEF PassOn, CompleteGone, SendWhole
  <2> QED BY <1>4, <2>1
<1>6. ASSUME NEW asked \in SUBSET Posts, Complete(k, asked) PROVE <1>3!1
  <2> DEFINE page == [pages[k] EXCEPT !.pc = "pages", !.todo = asked, !.seen = row]
  <2>1. pages' = [pages EXCEPT ![k] = page]
    BY <1>6 DEF Complete
  <2>2. page \in PageJobs
    BY <1>4 DEF PageJobs, TypeOK
  <2>3. page.posts = pages[k].posts /\ page.todo = asked /\ page.old = pages[k].old
    BY <1>4 DEF PageJobs
  <2>4. asked \subseteq pages[k].posts
    BY <1>6 DEF Complete, Partial
  <2> HIDE DEF page
  <2> QED BY <1>4, <2>1, <2>2, <2>3, <2>4
<1>7. ASSUME NEW p \in Posts, ReadPage(k, p) \/ MissPage(k, p) PROVE <1>3!1
  <2> DEFINE page == [pages[k] EXCEPT !.todo = @ \ {p}]
  <2>1. pages' = [pages EXCEPT ![k] = page]
    BY <1>7 DEF ReadPage, MissPage
  <2>2. page \in PageJobs
    BY <1>4 DEF PageJobs
  <2>3. page.posts = pages[k].posts /\ page.todo \subseteq pages[k].todo /\ page.old = pages[k].old
    BY <1>4 DEF PageJobs
  <2> HIDE DEF page
  <2> QED BY <1>4, <2>1, <2>2, <2>3
<1>8. ASSUME NEW p \in Posts, FindOld(k, p) PROVE <1>3!1
  <2> DEFINE page == [pages[k] EXCEPT !.todo = @ \ {p}, !.old = @ \cup {p}]
  <2>1. pages' = [pages EXCEPT ![k] = page]
    BY <1>8 DEF FindOld
  <2>2. page \in PageJobs
    BY <1>4 DEF PageJobs
  <2>3. /\ page.posts = pages[k].posts /\ page.todo \subseteq pages[k].todo
        /\ page.old = pages[k].old \cup {p}
    BY <1>4 DEF PageJobs
  <2>4. p \in pages[k].posts
    BY <1>4, <1>8 DEF FindOld, Asking
  <2> HIDE DEF page
  <2>5. page.todo \subseteq page.posts /\ page.old \subseteq page.posts
    BY <1>4, <2>3, <2>4
  <2> QED BY <2>1, <2>2, <2>3, <2>5
<1>9. CASE RecordOld(k)
  <2> DEFINE page == [pages[k] EXCEPT !.pc = "send"]
  <2>1. pages' = [pages EXCEPT ![k] = page]
    BY <1>9 DEF RecordOld
  <2>2. page \in PageJobs
    BY <1>4 DEF PageJobs
  <2>3. page.posts = pages[k].posts /\ page.todo = pages[k].todo /\ page.old = pages[k].old
    BY <1>4 DEF PageJobs
  <2> HIDE DEF page
  <2> QED BY <1>4, <2>1, <2>2, <2>3
<1>10. CASE FailPages(k)
  <2>1. pages' = [pages EXCEPT
          ![k] = Sent(pages[k].posts, Retried(pages[k].try), Again(pages[k].try))]
    BY <1>10 DEF FailPages
  <2> QED BY <1>4, <2>1
<1> QED BY <1>5, <1>6, <1>7, <1>8, <1>9, <1>10 DEF Completing

\* What it hands on is of its batch.
LEMMA Handing ==
  ASSUME NEW k, Completing(k)
  PROVE  classify' = classify \/ \E posts \in SUBSET pages[k].posts :
           classify' = [classify EXCEPT ![k[1]] = @ \cup posts]
<1>1. CASE PassOn(k)
  BY <1>1 DEF PassOn, HandOn
<1>2. CASE SendWhole(k)
  BY <1>2 DEF SendWhole, HandOn
<1>3. CASE ~(PassOn(k) \/ SendWhole(k))
  BY <1>3, Zenon DEF Completing, CompleteGone, Complete, ReadPage, FindOld, MissPage,
     RecordOld, FailPages
<1> QED BY <1>1, <1>2, <1>3

LEMMA CompleteTypes ==
  ASSUME TypeOK, NEW k \in Keys, Completing(k)
  PROVE  TypeOK'
<1>1. PageSteps(k)
  BY PagesMove
<1>2. /\ pages' \in [Jobs \X Tries -> PageJobs \cup {None}]
      /\ \A other \in Jobs \X Tries : pages'[other] # None =>
           /\ pages'[other].todo \subseteq pages'[other].posts
           /\ pages'[other].old \subseteq pages'[other].posts
  BY <1>1 DEF PageSteps, TypeOK, Keys
<1>3. k[1] \in Jobs /\ Owner[k[1]] \in Monitors
  BY Owners DEF Keys
<1>4. pages[k] # None /\ pages[k].posts \subseteq Posts
  BY <1>1, PageFacts DEF PageSteps
<1>5. classify' \in [Jobs -> SUBSET Posts]
  <2>1. classify' = classify \/ \E posts \in SUBSET pages[k].posts :
          classify' = [classify EXCEPT ![k[1]] = @ \cup posts]
    BY Handing
  <2> QED BY <1>3, <1>4, <2>1 DEF TypeOK
<1>6. drops' \in [Monitors -> [Posts -> Stages \cup {None}]]
  <2>1. At(Fresh.dropped, pages[k].old, "old_thread") \in [Posts -> Stages \cup {None}]
    BY DEF At, Fresh, Stages
  <2>2. drops' = drops \/ drops' = Dropping(Owner[k[1]], At(Fresh.dropped, pages[k].old, "old_thread"))
    BY DEF Completing, PassOn, CompleteGone, Complete, ReadPage, FindOld,
       MissPage, RecordOld, SendWhole, FailPages
  <2>3. CASE drops' = drops
    BY <2>3 DEF TypeOK
  <2>4. CASE drops' # drops
    BY <1>3, <2>1, <2>2, <2>4, DroppingType
  <2> QED BY <2>3, <2>4
<1>7. row' \in [Posts -> Partials \cup {None}] /\ whole' \in [Posts -> Nat]
  <2>1. [partial |-> FALSE, since |-> None] \in Partials
    BY DEF Partials
  <2>2. ASSUME NEW p \in Posts, ReadPage(k, p)
        PROVE  row' \in [Posts -> Partials \cup {None}] /\ whole' \in [Posts -> Nat]
    BY <2>1, <2>2 DEF TypeOK, ReadPage
  <2>3. CASE ~\E p \in Posts : ReadPage(k, p)
    <3>1. UNCHANGED <<row, whole>>
      BY <2>3, Zenon DEF TypeOK, Completing, PassOn, CompleteGone, Complete, FindOld,
         MissPage, RecordOld, SendWhole, FailPages
    <3> QED BY <3>1 DEF TypeOK
  <2> QED BY <2>2, <2>3
<1>8. UNCHANGED <<faults, job, threads, gone>>
  BY Zenon DEF Completing, PassOn, CompleteGone, Complete, ReadPage, FindOld,
     MissPage, RecordOld, SendWhole, FailPages
<1>9. crashes' = crashes \/ Dies
  BY Zenon DEF Completing, PassOn, CompleteGone, Complete, ReadPage, FindOld,
     MissPage, RecordOld, SendWhole, FailPages
<1>10. crashes' \in 0..MaxCrashes
  BY <1>9, FilterAssumption DEF TypeOK, Dies
<1> QED BY <1>2, <1>5, <1>6, <1>7, <1>8, <1>10 DEF TypeOK

LEMMA StepTypes == TypeOK /\ [Next]_vars => TypeOK'
<1> SUFFICES ASSUME TypeOK, [Next]_vars PROVE TypeOK'
  OBVIOUS
<1>1. CASE UNCHANGED vars
  BY <1>1 DEF vars, TypeOK
<1> QED BY <1>1, AroundTypes, FilterTypes, CompleteTypes DEF Next, Settled, Keys

---------------------------------------------------------------------------
\* What is accounted for stays so.

\* A post has its drop, or its monitor is gone.
Excused(j, p) == drops[Owner[j]][p] # None \/ Owner[j] \in gone

LEMMA AroundBooks ==
  ASSUME TypeOK, (\E j \in Jobs : Hand(j)) \/ (\E m \in Monitors : Delete(m))
  PROVE  /\ UNCHANGED <<pages, classify, threads>>
         /\ \A j \in Jobs : \A p \in Posts : Excused(j, p) => Excused(j, p)'
<1>1. ASSUME NEW j \in Jobs, Hand(j) PROVE UNCHANGED <<pages, classify, threads, drops, gone>>
  BY <1>1 DEF Hand
<1>2. ASSUME NEW m \in Monitors, Delete(m)
      PROVE  /\ UNCHANGED <<pages, classify, threads>>
             /\ \A j \in Jobs : \A p \in Posts : Excused(j, p) => Excused(j, p)'
  <2>1. gone' = gone \cup {m} /\ UNCHANGED <<pages, classify, threads>>
    BY <1>2 DEF Delete
  <2>2. \A n \in Monitors : n # m => drops'[n] = drops[n]
    BY <1>2 DEF Delete, TypeOK
  <2> QED BY <2>1, <2>2, Owners DEF Excused
<1> QED BY <1>1, <1>2 DEF Excused

\* Send writes where nothing was.
LEMMA SendBooks ==
  ASSUME Inv, NEW j \in Jobs, Send(j)
  PROVE  /\ UNCHANGED <<drops, gone>>
         /\ \A i \in Jobs : classify[i] \subseteq classify'[i]
         /\ \A k \in Keys : pages[k] # None => pages'[k] = pages[k]
         /\ \A k \in Keys : pages'[k] = pages[k] \/ (k = <<j, job[j].try>> /\ pages'[k].pc = "queued")
         /\ \A p \in job[j].kept : Booked(j, p)' /\ Accounted(j, p)'
<1>1. TypeOK /\ job[j] \in FilterJobs /\ job[j].pc = "send" /\ Unsent(j)
  BY DEF Inv, TypeOK, Send
<1>2. job[j].try \in Tries /\ job[j].kept \in SUBSET Posts
  BY <1>1 DEF FilterJobs
<1> DEFINE key == <<j, job[j].try>>
           page == Sent(job[j].kept, "queued", 1)
<1>3. key \in Keys /\ pages[key] = None
  BY <1>1, <1>2 DEF Unsent, Over, Keys
<1>4. page # None /\ page.pc = "queued" /\ page.posts = job[j].kept
  <2>1. page.pc = "queued" /\ page.posts = job[j].kept
    BY DEF Sent
  <2>2. page # None
    <3>1. page \in PageJobs
      BY <1>2, TryFacts DEF Sent, PageJobs
    <3> HIDE DEF page
    <3> QED BY <3>1, NoneFacts
  <2> QED BY <2>1, <2>2
<1>5. CASE job[j].kept \cap job[j].cut # {}
  <2>1. pages' = [pages EXCEPT ![key] = page] /\ UNCHANGED <<drops, gone, classify>>
    BY <1>5 DEF Send, SentOn
  <2> HIDE DEF page
  <2>2. pages'[key] = page /\ \A k \in Keys : k # key => pages'[k] = pages[k]
    BY <1>1, <1>3, <2>1 DEF TypeOK, Keys
  <2>3. \A p \in job[j].kept : Booked(j, p)' /\ Accounted(j, p)'
    BY <1>2, <1>4, <2>2 DEF Booked, Accounted, Waits
  <2> QED BY <1>3, <1>4, <2>1, <2>2, <2>3
<1>6. CASE ~(job[j].kept \cap job[j].cut # {})
  <2>1. classify' = [classify EXCEPT ![j] = @ \cup job[j].kept] /\ UNCHANGED <<drops, gone, pages>>
    BY <1>6 DEF Send
  <2>2. classify'[j] = classify[j] \cup job[j].kept
        /\ \A i \in Jobs : classify[i] \subseteq classify'[i]
    BY <1>1, <2>1 DEF TypeOK
  <2> QED BY <2>1, <2>2 DEF Booked, Accounted
<1> QED BY <1>5, <1>6

\* The filter step's other statements.
LEMMA FilterBooks ==
  ASSUME TypeOK, NEW j \in Jobs, Filter(j), ~Send(j)
  PROVE  /\ UNCHANGED <<pages, classify, gone>>
         /\ \A i \in Jobs : \A p \in Posts : Excused(i, p) => Excused(i, p)'
<1>1. UNCHANGED <<pages, classify, gone>>
  BY Zenon DEF Filter, SkipGone, Start, Sift, RecordDrops, SendThreads, Fail
<1>2. drops' = drops \/ drops' = Dropping(Owner[j], job[j].dropped)
  BY Zenon DEF Filter, SkipGone, Start, Sift, RecordDrops, SendThreads, Fail
<1>3. job[j].dropped \in [Posts -> Stages \cup {None}]
  BY DEF TypeOK, FilterJobs
<1> QED BY <1>1, <1>2, <1>3, DroppingType, Owners DEF Excused

\* What a step of the complete step keeps, and where the posts of an ended job are.
LEMMA CompleteBooks ==
  ASSUME Inv, NEW k \in Keys, Completing(k)
  PROVE  /\ PageSteps(k) /\ UNCHANGED <<job, threads>>
         /\ \A i \in Jobs : classify[i] \subseteq classify'[i]
         /\ \A i \in Jobs : \A p \in Posts : Excused(i, p) => Excused(i, p)'
         /\ pages'[k].pc = "done" => \A p \in pages[k].posts : p \in classify'[k[1]] \/ Excused(k[1], p)'
         /\ pages'[k].pc = "send" => \A p \in pages'[k].old : Excused(k[1], p)'
<1>1. TypeOK /\ PageSteps(k) /\ OldIsDropped(k)
  BY PagesMove DEF Inv
<1>2. k[1] \in Jobs /\ Owner[k[1]] \in Monitors
  BY Owners DEF Keys
<1>3. pages[k] \in PageJobs /\ pages[k].posts \in SUBSET Posts /\ pages[k].try \in Tries
      /\ pages[k].old \subseteq pages[k].posts /\ pages \in [Keys -> PageJobs \cup {None}]
  BY <1>1, PageFacts DEF PageSteps, TypeOK, Keys
<1>4. UNCHANGED <<job, threads, gone>>
  BY Zenon DEF Completing, PassOn, CompleteGone, Complete, ReadPage, FindOld,
     MissPage, RecordOld, SendWhole, FailPages
<1>5. \A i \in Jobs : classify[i] \subseteq classify'[i]
  BY <1>1, <1>2, Handing DEF TypeOK
<1> DEFINE new == At(Fresh.dropped, pages[k].old, "old_thread")
<1>6. new \in [Posts -> Stages \cup {None}] /\ \A p \in pages[k].old : new[p] # None
  BY <1>3, NoneFacts DEF At, Fresh, Stages
<1>7. drops' = drops \/ drops' = Dropping(Owner[k[1]], new)
  BY Zenon DEF Completing, PassOn, CompleteGone, Complete, ReadPage, FindOld,
     MissPage, RecordOld, SendWhole, FailPages
<1>8. \A i \in Jobs : \A p \in Posts : Excused(i, p) => Excused(i, p)'
  <2> HIDE DEF new
  <2> QED BY <1>1, <1>2, <1>4, <1>6, <1>7, DroppingType, Owners DEF Excused
<1>9. CASE PassOn(k) \/ CompleteGone(k) \/ SendWhole(k)
  <2>1. pages' = [pages EXCEPT ![k] = Sent(pages[k].posts, "done", 1)]
    BY <1>9 DEF PassOn, CompleteGone, SendWhole
  <2>2. pages'[k].pc = "done"
    BY <1>3, <2>1, SentType, TryFacts
  <2>3. ASSUME NEW p \in pages[k].posts PROVE p \in classify'[k[1]] \/ Excused(k[1], p)'
    <3>1. CASE PassOn(k)
      BY <1>1, <1>2, <3>1 DEF PassOn, HandOn, TypeOK
    <3>2. CASE CompleteGone(k)
      BY <3>2 DEF CompleteGone, Excused
    <3>3. CASE SendWhole(k)
      <4>1. CASE p \in pages[k].old
        BY <1>1, <1>2, <1>3, <1>8, <3>3, <4>1 DEF OldIsDropped, SendWhole, Excused
      <4>2. CASE p \notin pages[k].old
        BY <1>1, <1>2, <3>3, <4>2 DEF SendWhole, HandOn, TypeOK
      <4> QED BY <4>1, <4>2
    <3> QED BY <1>9, <3>1, <3>2, <3>3
  <2> QED BY <1>1, <1>4, <1>5, <1>8, <2>2, <2>3
<1>10. CASE RecordOld(k)
  <2>1. pages'[k].pc = "send" /\ pages'[k].old = pages[k].old
    BY <1>3, <1>10 DEF RecordOld, PageJobs
  <2>2. drops' = Dropping(Owner[k[1]], new)
    BY <1>10 DEF RecordOld
  <2>3. \A p \in pages[k].old : Excused(k[1], p)'
    <3> HIDE DEF new
    <3> QED BY <1>1, <1>2, <1>3, <1>6, <2>2, DroppingType DEF Excused
  <2> QED BY <1>1, <1>4, <1>5, <1>8, <2>1, <2>3
<1>11. ASSUME ~(PassOn(k) \/ CompleteGone(k) \/ SendWhole(k)), ~RecordOld(k)
       PROVE  pages'[k].pc \notin {"done", "send"}
  <2>1. ASSUME NEW asked \in SUBSET Posts, Complete(k, asked) PROVE pages'[k].pc = "pages"
    BY <1>3, <2>1 DEF Complete, PageJobs
  <2>2. ASSUME NEW p \in Posts, ReadPage(k, p) \/ FindOld(k, p) \/ MissPage(k, p)
        PROVE  pages'[k].pc = "pages"
    BY <1>3, <2>2 DEF ReadPage, FindOld, MissPage, Asking, PageJobs
  <2>3. CASE FailPages(k)
    <3>1. pages' = [pages EXCEPT
            ![k] = Sent(pages[k].posts, Retried(pages[k].try), Again(pages[k].try))]
      BY <2>3 DEF FailPages
    <3>2. pages'[k].pc = Retried(pages[k].try)
      <4> DEFINE page == Sent(pages[k].posts, Retried(pages[k].try), Again(pages[k].try))
      <4>1. page.pc = Retried(pages[k].try)
        BY DEF Sent
      <4>2. pages' = [pages EXCEPT ![k] = page]
        BY <3>1
      <4> HIDE DEF page
      <4>3. pages'[k] = page
        BY <1>3, <4>2
      <4> QED BY <4>1, <4>3
    <3> QED BY <1>3, <3>2, TryFacts
  <2> QED BY <1>11, <2>1, <2>2, <2>3 DEF Completing
<1> QED BY <1>1, <1>4, <1>5, <1>8, <1>9, <1>10, <1>11

\* No step loses sight of a post.
LEMMA AccountStays ==
  ASSUME Inv, Next, NEW j \in Jobs, NEW p \in Posts
  PROVE  /\ Excused(j, p) => Excused(j, p)'
         /\ Booked(j, p) => Booked(j, p)'
         /\ Accounted(j, p) => Accounted(j, p)'
<1> DEFINE Stays == /\ Excused(j, p) => Excused(j, p)'
                    /\ Booked(j, p) => Booked(j, p)'
                    /\ Accounted(j, p) => Accounted(j, p)'
<1> USE DEF Booked, Accounted, Waits
<1>1. TypeOK
  BY DEF Inv
<1>2. CASE (\E i \in Jobs : Hand(i)) \/ (\E m \in Monitors : Delete(m))
  BY <1>1, <1>2, AroundBooks DEF Excused
<1>3. ASSUME NEW i \in Jobs, Filter(i), ~Send(i) PROVE Stays
  BY <1>1, <1>3, FilterBooks DEF Excused
<1>4. ASSUME NEW i \in Jobs, Send(i) PROVE Stays
  <2>1. \A n \in Tries : <<j, n>> \in Keys
    BY DEF Keys
  <2> QED BY <1>4, <2>1, SendBooks DEF Excused
<1>5. ASSUME NEW k \in Keys, Completing(k) PROVE Stays
  <2>1. \A n \in Tries : <<j, n>> \in Keys
    BY DEF Keys
  <2>2. PageSteps(k) /\ classify[j] \subseteq classify'[j]
        /\ (Excused(j, p) => Excused(j, p)')
        /\ (pages'[k].pc = "done" => p \notin pages[k].posts
                                     \/ p \in classify'[k[1]] \/ Excused(k[1], p)')
    BY <1>5, CompleteBooks
  <2>3. Booked(j, p) => Booked(j, p)'
    BY <2>1, <2>2 DEF PageSteps
  <2>4. ASSUME Waits(j, p) PROVE Accounted(j, p)'
    <3>1. PICK n \in Tries : /\ pages[<<j, n>>] # None
                             /\ p \in pages[<<j, n>>].posts /\ pages[<<j, n>>].pc # "done"
      BY <2>4
    <3>2. CASE <<j, n>> # k
      BY <2>1, <2>2, <3>1, <3>2 DEF PageSteps
    <3>3. CASE <<j, n>> = k
      <4>1. k[1] = j
        BY <3>3
      <4> QED BY <2>1, <2>2, <3>1, <3>3, <4>1 DEF PageSteps, Excused
    <3> QED BY <3>2, <3>3
  <2> QED BY <2>2, <2>3, <2>4 DEF Excused
<1>6. CASE Settled
  BY <1>6 DEF Settled, vars, Excused
<1> QED BY <1>2, <1>3, <1>4, <1>5, <1>6 DEF Next, Keys

---------------------------------------------------------------------------
\* Every step keeps the invariant.

\* A job is moved by its own steps alone.
LEMMA OwnSteps ==
  ASSUME TypeOK, Next, NEW j \in Jobs, ~Hand(j), ~Filter(j)
  PROVE  job'[j] = job[j] /\ threads'[j] = threads[j]
<1>1. job \in [Jobs -> FilterJobs] /\ threads \in [Jobs -> SUBSET Posts]
  BY DEF TypeOK
<1>2. ASSUME NEW i \in Jobs, i # j, Hand(i) \/ Filter(i)
      PROVE  job'[j] = job[j] /\ threads'[j] = threads[j]
  BY <1>1, <1>2 DEF Hand, Filter, SkipGone, Start, Sift, RecordDrops, Send, SendThreads, Fail
<1>3. ASSUME NEW k \in Keys, Completing(k) PROVE UNCHANGED <<job, threads>>
  BY <1>3, Zenon DEF Completing, PassOn, CompleteGone, Complete, ReadPage, FindOld,
     MissPage, RecordOld, SendWhole, FailPages
<1>4. ASSUME NEW m \in Monitors, Delete(m) PROVE UNCHANGED <<job, threads>>
  BY <1>4 DEF Delete
<1> QED BY <1>2, <1>3, <1>4 DEF Next, Settled, vars, Keys

LEMMA SiftedStep ==
  ASSUME Inv, TypeOK', Next, NEW j \in Jobs
  PROVE  Sifted(j)'
<1>1. TypeOK /\ Sifted(j) /\ job[j] \in FilterJobs /\ job \in [Jobs -> FilterJobs]
  BY DEF Inv, TypeOK
<1>2. Holds[j] \subseteq Posts /\ job[j].kept \subseteq Posts /\ job'[j].kept \subseteq Posts
  BY <1>1, Owners DEF TypeOK, FilterJobs
<1>3. /\ \A p \in Posts : Excused(j, p) => Excused(j, p)'
      /\ \A p \in Posts : Accounted(j, p) => Accounted(j, p)'
  BY AccountStays
<1>4. CASE ~Hand(j) /\ ~Filter(j)
  <2>1. job'[j] = job[j]
    BY <1>1, <1>4, OwnSteps
  <2> QED BY <1>1, <1>2, <1>3, <2>1 DEF Sifted, Excused
<1>5. CASE Hand(j)
  <2>1. job'[j].pc = "queued"
    BY <1>1, <1>5 DEF Hand, FilterJobs
  <2> QED BY <2>1 DEF Sifted
<1>6. CASE SkipGone(j)
  <2>1. job'[j].pc = "done" /\ Owner[j] \in gone'
    BY <1>1, <1>6 DEF SkipGone, FilterJobs
  <2> QED BY <2>1 DEF Sifted, Accounted
<1>7. CASE Start(j)
  <2>1. job'[j].pc = "stages" /\ job'[j].kept = Holds[j]
    BY <1>1, <1>7 DEF Start, FilterJobs
  <2> QED BY <2>1 DEF Sifted
<1>8. CASE Sift(j)
  <2>1. PICK out : job' = [job EXCEPT ![j].pc = "deliver", ![j].kept = @ \ out,
                                      ![j].dropped = At(@, out, "filter")]
    BY <1>8 DEF Sift
  <2>2. /\ job'[j].pc = "deliver" /\ job'[j].kept = Holds[j] \ out
        /\ job'[j].dropped = At(job[j].dropped, out, "filter")
    BY <1>1, <1>8, <2>1 DEF Sift, Sifted, FilterJobs
  <2>3. \A p \in Posts \cap out : job'[j].dropped[p] # None
    BY <2>2, NoneFacts DEF At
  <2> QED BY <1>2, <2>2, <2>3 DEF Sifted
<1>9. CASE RecordDrops(j)
  <2>1. job'[j].pc = "send" /\ job'[j].kept = job[j].kept /\ job[j].pc = "deliver"
    BY <1>1, <1>9 DEF RecordDrops, FilterJobs
  <2>2. job[j].dropped \in [Posts -> Stages \cup {None}]
    BY <1>1 DEF FilterJobs
  <2>3. \A p \in Posts : job[j].dropped[p] # None => drops'[Owner[j]][p] # None
    BY <1>1, <1>9, <2>2, DroppingType, Owners DEF RecordDrops
  <2>4. \A p \in Holds[j] : p \in job'[j].kept \/ Excused(j, p)'
    BY <1>1, <1>2, <2>1, <2>3 DEF Sifted, Excused
  <2> QED BY <2>1, <2>4 DEF Sifted, Excused
<1>10. CASE Send(j)
  <2>1. job'[j].pc = "threads" /\ job'[j].kept = job[j].kept /\ job[j].pc = "send"
    BY <1>1, <1>10 DEF Send, FilterJobs
  <2>2. \A p \in job[j].kept : Accounted(j, p)'
    BY <1>10, SendBooks
  <2>3. \A p \in Holds[j] : p \in job'[j].kept \/ Excused(j, p)'
    BY <1>1, <1>2, <1>3, <2>1 DEF Sifted, Excused
  <2> QED BY <2>1, <2>2, <2>3 DEF Sifted, Excused
<1>11. CASE SendThreads(j)
  <2>1. job'[j].pc = "done" /\ job[j].pc = "threads"
    BY <1>1, <1>11 DEF SendThreads, FilterJobs, Fresh
  <2>2. \A p \in Holds[j] : Accounted(j, p)
    BY <1>1, <2>1 DEF Sifted, Accounted
  <2> QED BY <1>2, <1>3, <2>1, <2>2 DEF Sifted
<1>12. CASE Fail(j)
  <2>1. job'[j].pc = Retried(job[j].try) /\ job[j].try \in Tries
    BY <1>1, <1>12 DEF Fail, FilterJobs, Fresh
  <2>2. job'[j].pc \in {"queued", "dead"}
    BY <2>1, TryFacts
  <2> QED BY <2>2 DEF Sifted
<1> QED BY <1>4, <1>5, <1>6, <1>7, <1>8, <1>9, <1>10, <1>11, <1>12 DEF Filter

LEMMA UnsentStep ==
  ASSUME Inv, TypeOK', Next, NEW j \in Jobs
  PROVE  Unsent(j)'
<1>1. TypeOK /\ Unsent(j) /\ job[j] \in FilterJobs /\ job \in [Jobs -> FilterJobs]
      /\ job[j].try \in Tries /\ Tries \subseteq Nat
  BY TryFacts DEF Inv, TypeOK, FilterJobs
<1>2. \A n \in Tries : <<j, n>> \in Keys
  BY DEF Keys
<1>3. CASE ~Send(j)
  <2>1. ASSUME NEW n \in Tries, pages[<<j, n>>] = None PROVE pages'[<<j, n>>] = None
    <3>1. CASE UNCHANGED pages
      BY <2>1, <3>1
    <3>2. ASSUME NEW i \in Jobs, Send(i) PROVE pages'[<<j, n>>] = None
      <4>1. i # j
        BY <1>3, <3>2
      <4>2. <<j, n>> # <<i, job[i].try>>
        BY <4>1
      <4> QED BY <1>2, <2>1, <3>2, <4>2, SendBooks
    <3>3. ASSUME NEW k \in Keys, Completing(k) PROVE pages'[<<j, n>>] = None
      <4>1. PageSteps(k)
        BY <1>1, <3>3, PagesMove
      <4> QED BY <1>2, <2>1, <4>1 DEF PageSteps
    <3>4. ASSUME NEW i \in Jobs, Filter(i), ~Send(i) PROVE UNCHANGED pages
      BY <1>1, <3>4, FilterBooks
    <3> QED BY <1>1, <3>1, <3>2, <3>3, <3>4, AroundBooks DEF Next, Keys, Settled, vars
  <2>2. \/ job'[j] = job[j]
        \/ /\ job[j].pc \notin Over /\ job'[j].try = job[j].try
           /\ job[j].pc # "threads" \/ job'[j].pc \in Over
        \/ /\ job[j].pc \notin Over /\ job'[j].pc \in Over \cup {"queued"}
           /\ job'[j].pc = "queued" => job'[j].try = job[j].try + 1
    <3>1. CASE ~Hand(j) /\ ~Filter(j)
      BY <1>1, <3>1, OwnSteps
    <3>2. CASE Hand(j)
      BY <1>1, <3>2 DEF Hand, FilterJobs, Over
    <3>3. CASE SkipGone(j)
      BY <1>1, <3>3 DEF SkipGone, MayStart, FilterJobs, Over
    <3>4. CASE Start(j)
      <4>1. job[j].pc = "queued" /\ job'[j].try = job[j].try
        BY <1>1, <3>4 DEF Start, MayStart, FilterJobs
      <4> QED BY <4>1 DEF Over
    <3>5. CASE Sift(j)
      <4>1. PICK out : job' = [job EXCEPT ![j].pc = "deliver", ![j].kept = @ \ out,
                                          ![j].dropped = At(@, out, "filter")]
        BY <3>5 DEF Sift
      <4>2. job[j].pc = "stages" /\ job'[j].try = job[j].try
        BY <1>1, <3>5, <4>1 DEF Sift, FilterJobs
      <4> QED BY <4>2 DEF Over
    <3>6. CASE RecordDrops(j)
      <4>1. job[j].pc = "deliver" /\ job'[j].try = job[j].try
        BY <1>1, <3>6 DEF RecordDrops, FilterJobs
      <4> QED BY <4>1 DEF Over
    <3>7. CASE SendThreads(j)
      BY <1>1, <3>7 DEF SendThreads, FilterJobs, Over, Fresh
    <3>8. CASE Fail(j)
      <4>1. job[j].pc \notin Over
        BY <3>8 DEF Fail, Running
      <4>2. job'[j].pc = Retried(job[j].try) /\ job'[j].try = Again(job[j].try)
        BY <1>1, <3>8 DEF Fail, FilterJobs, Fresh
      <4> QED BY <1>1, <4>1, <4>2, TryFacts DEF Over
    <3> QED BY <1>3, <3>1, <3>2, <3>3, <3>4, <3>7, <3>8, <3>5, <3>6 DEF Filter
  <2>3. job'[j].try \in Nat /\ job[j].try \in Nat
    BY <1>1 DEF TypeOK, FilterJobs
  <2>4. CASE job'[j] = job[j]
    BY <1>1, <2>1, <2>4 DEF Unsent
  <2>5. CASE job'[j] # job[j] /\ job'[j].pc \notin Over
    <3>1. \A n \in Tries : n > job'[j].try \/ (n = job'[j].try /\ job'[j].pc # "threads") =>
            n > job[j].try \/ (n = job[j].try /\ job[j].pc # "threads")
      BY <1>1, <2>2, <2>3, <2>5
    <3> QED BY <1>1, <2>1, <2>2, <2>5, <3>1 DEF Unsent
  <2> QED BY <2>4, <2>5 DEF Unsent
<1>4. CASE Send(j)
  <2>1. job'[j].pc = "threads" /\ job'[j].try = job[j].try /\ job[j].pc = "send"
    BY <1>1, <1>4 DEF Send, FilterJobs
  <2>2. \A n \in Tries : n # job[j].try => pages'[<<j, n>>] = pages[<<j, n>>]
    BY <1>2, <1>4, SendBooks
  <2>3. job[j].pc \notin Over
    BY <2>1 DEF Over
  <2>4. \A n \in Tries : n > job[j].try => pages[<<j, n>>] = None /\ n # job[j].try
    BY <1>1, <2>3 DEF Unsent
  <2>5. \A n \in Tries : n > job'[j].try => pages'[<<j, n>>] = None
    BY <2>1, <2>2, <2>4
  <2> QED BY <2>1, <2>5 DEF Unsent
<1> QED BY <1>3, <1>4

LEMMA OpenedStep ==
  ASSUME Inv, TypeOK', Next, NEW j \in Jobs
  PROVE  Opened(j)'
<1>1. TypeOK /\ Opened(j) /\ job[j] \in FilterJobs /\ job \in [Jobs -> FilterJobs]
      /\ threads \in [Jobs -> SUBSET Posts] /\ job[j].kept \subseteq Posts
  BY DEF Inv, TypeOK, FilterJobs
<1>2. \A p \in Posts : Booked(j, p) => Booked(j, p)'
  BY AccountStays
<1>3. \A p \in threads[j] : Booked(j, p)'
  BY <1>1, <1>2 DEF Opened
<1>4. CASE ~Hand(j) /\ ~Filter(j)
  BY <1>1, <1>2, <1>3, <1>4, OwnSteps DEF Opened
<1>5. CASE Send(j)
  <2>1. job'[j].kept = job[j].kept /\ threads' = threads
    BY <1>1, <1>5 DEF Send, FilterJobs
  <2>2. \A p \in job[j].kept : Booked(j, p)'
    BY <1>5, SendBooks
  <2> QED BY <1>3, <2>1, <2>2 DEF Opened
<1>6. CASE SendThreads(j)
  <2>1. job'[j].pc = "done" /\ job[j].pc = "threads"
        /\ threads'[j] \subseteq threads[j] \cup job[j].kept
    BY <1>1, <1>6 DEF SendThreads, FilterJobs, Fresh, Opens
  <2> QED BY <1>1, <1>2, <1>3, <2>1 DEF Opened
<1>7. CASE Hand(j) \/ SkipGone(j) \/ Start(j) \/ Sift(j) \/ RecordDrops(j) \/ Fail(j)
  <2>1. threads' = threads
    BY <1>7 DEF Hand, SkipGone, Start, Sift, RecordDrops, Fail
  <2>2. job'[j].pc # "threads"
    <3>1. CASE Fail(j)
      <4>1. job'[j].pc = Retried(job[j].try) /\ job[j].try \in Tries
        BY <1>1, <3>1 DEF Fail, FilterJobs, Fresh
      <4> QED BY <4>1, TryFacts
    <3>2. CASE Sift(j)
      <4>1. PICK out : job' = [job EXCEPT ![j].pc = "deliver", ![j].kept = @ \ out,
                                          ![j].dropped = At(@, out, "filter")]
        BY <3>2 DEF Sift
      <4> QED BY <1>1, <4>1 DEF FilterJobs
    <3>3. CASE Hand(j) \/ SkipGone(j)
      BY <1>1, <3>3 DEF Hand, SkipGone, FilterJobs
    <3>4. CASE Start(j)
      BY <1>1, <3>4 DEF Start, FilterJobs
    <3>5. CASE RecordDrops(j)
      BY <1>1, <3>5 DEF RecordDrops, FilterJobs
    <3> QED BY <1>7, <3>1, <3>2, <3>3, <3>4, <3>5
  <2> QED BY <1>3, <2>1, <2>2 DEF Opened
<1> QED BY <1>4, <1>5, <1>6, <1>7 DEF Filter

LEMMA OldStep ==
  ASSUME Inv, TypeOK', Next, NEW k \in Keys
  PROVE  OldIsDropped(k)'
<1>1. TypeOK /\ OldIsDropped(k) /\ k[1] \in Jobs
  BY DEF Inv, Keys
<1>2. \A p \in Posts : Excused(k[1], p) => Excused(k[1], p)'
  BY <1>1, AccountStays
<1>3. CASE pages'[k] = pages[k]
  <2>1. pages[k] # None => pages[k].old \subseteq Posts
    BY <1>1, PageFacts
  <2> QED BY <1>1, <1>2, <1>3, <2>1 DEF OldIsDropped, Excused
<1>4. ASSUME NEW j \in Jobs, Send(j) PROVE OldIsDropped(k)'
  BY <1>3, <1>4, SendBooks DEF OldIsDropped
<1>5. CASE Completing(k)
  BY <1>5, CompleteBooks DEF OldIsDropped, Excused
<1>6. ASSUME NEW other \in Keys, other # k, Completing(other) PROVE OldIsDropped(k)'
  BY <1>1, <1>3, <1>6, PagesMove DEF PageSteps
<1>7. ASSUME NEW j \in Jobs, Filter(j), ~Send(j) PROVE OldIsDropped(k)'
  BY <1>1, <1>3, <1>7, FilterBooks
<1> QED BY <1>1, <1>3, <1>4, <1>5, <1>6, <1>7, AroundBooks DEF Next, Keys, Settled, vars

LEMMA InvInit == Init => Inv
<1> SUFFICES ASSUME Init PROVE Inv
  OBVIOUS
<1>1. TypeOK
  BY InitTypes
<1>2. \A j \in Jobs : job[j].pc = "idle" /\ threads[j] = {}
  BY DEF Init, Fresh
<1>3. \A k \in Keys : pages[k] = None
  BY DEF Init, Keys
<1>4. \A j \in Jobs : Sifted(j) /\ Unsent(j) /\ Opened(j)
  BY <1>2, <1>3 DEF Sifted, Unsent, Opened, Keys
<1> QED BY <1>1, <1>3, <1>4 DEF Inv, OldIsDropped

LEMMA InvStep == Inv /\ [Next]_vars => Inv'
<1> SUFFICES ASSUME Inv, [Next]_vars PROVE Inv'
  OBVIOUS
<1>1. TypeOK'
  BY StepTypes DEF Inv
<1>2. CASE Next
  BY <1>1, <1>2, SiftedStep, UnsentStep, OpenedStep, OldStep DEF Inv
<1>3. CASE UNCHANGED vars
  BY <1>1, <1>3 DEF vars, Inv, Sifted, Unsent, Opened, OldIsDropped, Accounted, Waits, Booked
<1> QED BY <1>2, <1>3

---------------------------------------------------------------------------
\* The theorems.

\* What every run of either step knows, for every number of jobs, tries and deaths.
THEOREM Invariant == Spec => []Inv
BY InvInit, InvStep, PTL DEF Spec

\* Every variable keeps its type; no job of either step passes its last try.
THEOREM TypeCorrect == Spec => []TypeOK
<1>1. Inv => TypeOK
  BY DEF Inv
<1> QED BY <1>1, Invariant, PTL

\* No post a poll found is lost between the filter, the complete step and the classifier,
\* whatever statement a run dies at.
THEOREM NothingIsLost == Spec => []NothingVanishes
<1>1. Inv => NothingVanishes
  BY DEF Inv, Sifted, Accounted, Waits, NothingVanishes
<1> QED BY <1>1, Invariant, PTL

\* No thread is opened for a post that is not with the classifier or the complete step.
THEOREM ThreadsComeSecond == Spec => []ThreadsWereSentOn
<1>1. Inv => ThreadsWereSentOn
  BY DEF Inv, Opened, Booked, ThreadsWereSentOn, ToComplete
<1> QED BY <1>1, Invariant, PTL

---------------------------------------------------------------------------
\* What is bought.

\* The jobs that ask for pages, and the monitors that are about to read the page of p.
Reads(k) == pages[k] # None /\ Running(pages[k].pc)
Readers(p) == {m \in Monitors : \E k \in Keys : Owner[k[1]] = m /\ Asking(k, p)}

\* A monitor's complete jobs run one at a time; a page that came back is on its row; and
\* each page that came back was read by a monitor that is not about to read it.
OneReader == \A k, l \in Keys : Reads(k) /\ Reads(l) /\ Owner[k[1]] = Owner[l[1]] => k = l
Kept == \A p \in Posts : whole[p] > 0 => row[p] # None /\ row[p].partial = FALSE
Bought == \A p \in Posts : whole[p] + Cardinality(Readers(p)) <= Cardinality(Monitors)

BuyInv == OneReader /\ Kept /\ Bought

LEMMA ReaderCount ==
  ASSUME NEW S \in SUBSET Monitors
  PROVE  /\ IsFiniteSet(S) /\ Cardinality(S) \in Nat /\ Cardinality(S) <= Cardinality(Monitors)
         /\ Cardinality(Monitors) \in Nat
BY FilterAssumption, FS_Subset, FS_CardinalityType

\* What a job that asks for a page is.
LEMMA AskingFacts ==
  ASSUME NEW k \in Keys, NEW p, Asking(k, p)
  PROVE  Reads(k) /\ pages[k].pc = "pages"
BY DEF Asking, Reads, Running, Waiting, Over

\* A job that asks for nothing new.
AsksLess(k) ==
  /\ UNCHANGED <<row, whole>>
  /\ Reads(k)' => Reads(k)
  /\ \A p \in Posts : Asking(k, p)' => Asking(k, p)

LEMMA PageMoves ==
  ASSUME TypeOK, NEW k \in Keys, Completing(k)
  PROVE  \/ AsksLess(k)
         \/ \E asked \in SUBSET Posts : Complete(k, asked)
         \/ \E p \in Posts : ReadPage(k, p)
<1> USE PageFacts, SentType, TryFacts
<1>1. /\ pages \in [Keys -> PageJobs \cup {None}] /\ pages[k] # None /\ pages[k] \in PageJobs
      /\ pages[k].posts \subseteq Posts /\ pages[k].try \in Tries
  BY PagesMove DEF TypeOK, Keys, PageSteps
<1>2. CASE PassOn(k) \/ CompleteGone(k) \/ SendWhole(k)
  <2>1. pages'[k] = Sent(pages[k].posts, "done", 1) /\ UNCHANGED <<row, whole>>
    BY <1>1, <1>2 DEF PassOn, CompleteGone, SendWhole
  <2>2. pages'[k].pc = "done"
    BY <1>1, <2>1 DEF Sent
  <2> QED BY <2>1, <2>2 DEF AsksLess, Reads, Asking, Running, Over
<1>3. CASE FailPages(k)
  <2>1. /\ pages'[k] = Sent(pages[k].posts, Retried(pages[k].try), Again(pages[k].try))
        /\ UNCHANGED <<row, whole>>
    BY <1>1, <1>3 DEF FailPages
  <2>2. pages'[k].pc \in {"queued", "dead"}
    BY <1>1, <2>1 DEF Sent
  <2> QED BY <2>1, <2>2 DEF AsksLess, Reads, Asking, Running, Over, Waiting
<1>4. ASSUME NEW p \in Posts, FindOld(k, p) \/ MissPage(k, p) PROVE AsksLess(k)
  <2>1. pages'[k].pc = "pages" /\ pages'[k].todo = pages[k].todo \ {p} /\ pages[k].pc = "pages"
    BY <1>1, <1>4 DEF FindOld, MissPage, Asking, PageJobs
  <2>2. UNCHANGED <<row, whole>>
    BY <1>4 DEF FindOld, MissPage
  <2> QED BY <1>1, <2>1, <2>2 DEF AsksLess, Reads, Asking, Running, Over, Waiting
<1>5. CASE RecordOld(k)
  <2>1. pages'[k].pc = "send" /\ pages[k].pc = "pages" /\ UNCHANGED <<row, whole>>
    BY <1>1, <1>5 DEF RecordOld, PageJobs
  <2> QED BY <1>1, <2>1 DEF AsksLess, Reads, Asking, Running, Over, Waiting
<1> QED BY <1>2, <1>3, <1>4, <1>5 DEF Completing

\* The readers of a post when one job moves, and the others do not.
LEMMA ReadersMove ==
  ASSUME NEW k \in Keys, NEW p \in Posts, \A l \in Keys : l # k => (Asking(l, p)' <=> Asking(l, p))
  PROVE  /\ Readers(p)' \subseteq Readers(p) \cup {Owner[k[1]]}
         /\ (Asking(k, p)' => Asking(k, p)) => Readers(p)' \subseteq Readers(p)
         /\ (Asking(k, p) => Asking(k, p)') => Readers(p) \subseteq Readers(p)'
BY DEF Readers

\* A step that buys nothing and asks for nothing new.
LEMMA BuyStays ==
  ASSUME TypeOK, TypeOK', BuyInv, whole' = whole,
         \A p \in Posts : row[p] # None => row'[p] = row[p],
         \A l \in Keys : Reads(l)' => Reads(l),
         \A l \in Keys, p \in Posts : Asking(l, p)' => Asking(l, p)
  PROVE  BuyInv'
<1>1. OneReader'
  BY DEF BuyInv, OneReader
<1>2. Kept'
  BY DEF BuyInv, Kept
<1>3. ASSUME NEW p \in Posts PROVE whole'[p] + Cardinality(Readers(p)') <= Cardinality(Monitors)
  <2>1. Readers(p)' \subseteq Readers(p) /\ Readers(p) \in SUBSET Monitors
    BY DEF Readers
  <2>2. /\ Cardinality(Readers(p)') <= Cardinality(Readers(p))
        /\ Cardinality(Readers(p)') \in Nat /\ Cardinality(Readers(p)) \in Nat
        /\ Cardinality(Monitors) \in Nat
    <3>1. IsFiniteSet(Readers(p)) /\ Readers(p)' \in SUBSET Monitors
      BY <2>1, ReaderCount
    <3> QED BY <2>1, <3>1, ReaderCount, FS_Subset
  <2>3. whole[p] \in Nat /\ whole[p] + Cardinality(Readers(p)) <= Cardinality(Monitors)
    BY DEF BuyInv, Bought, TypeOK
  <2> QED BY <2>2, <2>3
<1>4. Bought'
  BY <1>3 DEF Bought
<1> QED BY <1>1, <1>2, <1>4 DEF BuyInv

\* The complete step begins to ask.
LEMMA BuyAsks ==
  ASSUME TypeOK, TypeOK', BuyInv, NEW k \in Keys, NEW asked \in SUBSET Posts, Complete(k, asked)
  PROVE  BuyInv'
<1>1. /\ UNCHANGED <<row, whole>> /\ pages[k] # None /\ asked \subseteq Partial(pages[k].posts)
      /\ \A l \in Keys : l # k => pages'[l] = pages[l]
      /\ \A l \in Keys : Owner[l[1]] = Owner[k[1]] => ~Reads(l)
  BY DEF Complete, MayComplete, Reads, Keys, TypeOK
<1>2. \A l \in Keys : l # k => (Reads(l)' <=> Reads(l)) /\ \A p \in Posts : Asking(l, p)' <=> Asking(l, p)
  BY <1>1 DEF Reads, Asking
<1>3. OneReader'
  BY <1>1, <1>2 DEF BuyInv, OneReader
<1>4. Kept'
  BY <1>1 DEF BuyInv, Kept
<1>5. ASSUME NEW p \in Posts PROVE whole'[p] + Cardinality(Readers(p)') <= Cardinality(Monitors)
  <2>1. Readers(p)' \in SUBSET Monitors /\ Readers(p) \in SUBSET Monitors /\ whole[p] \in Nat
    BY DEF Readers, TypeOK
  <2>2. CASE whole[p] = 0
    BY <1>1, <2>1, <2>2, ReaderCount
  <2>3. CASE whole[p] > 0
    <3>1. p \notin asked
      BY <1>1, <2>3 DEF BuyInv, Kept, Partial
    <3>2. ~Asking(k, p)'
      <4>1. pages'[k].todo = asked
        BY <1>1, PageFacts DEF Complete, TypeOK, Keys, PageJobs
      <4> QED BY <3>1, <4>1 DEF Asking
    <3>3. Readers(p)' \subseteq Readers(p)
      BY <1>2, <3>2, ReadersMove
    <3>4. Cardinality(Readers(p)') <= Cardinality(Readers(p))
      <4>1. IsFiniteSet(Readers(p))
        BY <2>1, ReaderCount
      <4> QED BY <3>3, <4>1, FS_Subset
    <3>5. whole[p] + Cardinality(Readers(p)) <= Cardinality(Monitors)
      BY DEF BuyInv, Bought
    <3>6. /\ Cardinality(Readers(p)) \in Nat /\ Cardinality(Readers(p)') \in Nat
          /\ Cardinality(Monitors) \in Nat
      BY <2>1, ReaderCount
    <3> QED BY <1>1, <2>1, <3>4, <3>5, <3>6
  <2> QED BY <2>1, <2>2, <2>3
<1>6. Bought'
  BY <1>5 DEF Bought
<1> QED BY <1>3, <1>4, <1>6 DEF BuyInv

\* A page comes back: its monitor reads it no more.
LEMMA BuyReads ==
  ASSUME TypeOK, TypeOK', BuyInv, NEW k \in Keys, NEW p \in Posts, ReadPage(k, p)
  PROVE  BuyInv'
<1> DEFINE m == Owner[k[1]]
<1>1. /\ Asking(k, p) /\ m \in Monitors /\ pages[k] \in PageJobs
      /\ \A l \in Keys : l # k => pages'[l] = pages[l]
  BY PageFacts, Owners DEF ReadPage, Keys, TypeOK, Asking
<1>2. /\ pages'[k] # None /\ pages'[k].pc = "pages" /\ pages'[k].todo = pages[k].todo \ {p}
  <2>1. PageSteps(k)
    BY PagesMove DEF Completing
  <2> QED BY <1>1, <2>1 DEF ReadPage, PageSteps, TypeOK, Keys, PageJobs, Asking
<1>3. /\ \A l \in Keys : Reads(l)' <=> Reads(l)
      /\ \A l \in Keys, q \in Posts : Asking(l, q)' => Asking(l, q)
      /\ ~Asking(k, p)'
      /\ \A q \in Posts : q # p => (Asking(k, q)' <=> Asking(k, q))
  BY <1>1, <1>2 DEF Reads, Asking, Running, Waiting, Over
<1>4. OneReader'
  BY <1>3 DEF BuyInv, OneReader
<1>5. /\ row'[p] = [partial |-> FALSE, since |-> None] /\ whole'[p] = whole[p] + 1
      /\ \A q \in Posts : q # p => row'[q] = row[q] /\ whole'[q] = whole[q]
  BY DEF ReadPage, TypeOK
<1>6. row'[p] # None /\ row'[p].partial = FALSE
  <2> DEFINE entire == [partial |-> FALSE, since |-> None]
  <2>1. entire \in Partials /\ entire.partial = FALSE
    BY DEF Partials
  <2>2. entire # None
    BY <2>1, NullAssumption
  <2> HIDE DEF entire
  <2>3. row'[p] = entire
    BY <1>5 DEF entire
  <2> QED BY <2>1, <2>2, <2>3
<1>7. Kept'
  BY <1>5, <1>6 DEF BuyInv, Kept
<1>8. /\ \A q \in Posts : Readers(q) \in SUBSET Monitors /\ Readers(q)' \in SUBSET Monitors
      /\ \A q \in Posts : Readers(q)' \subseteq Readers(q)
  BY <1>3 DEF Readers
<1>9. m \in Readers(p) /\ m \notin Readers(p)'
  <2>1. m \in Readers(p)
    BY <1>1 DEF Readers
  <2>2. ASSUME NEW l \in Keys, Owner[l[1]] = m, Asking(l, p)' PROVE FALSE
    <3>1. Asking(l, p) /\ Asking(k, p)
      BY <1>1, <1>3, <2>2
    <3>2. l = k
      BY <2>2, <3>1, AskingFacts DEF BuyInv, OneReader
    <3> QED BY <1>3, <2>2, <3>2
  <2> QED BY <2>1, <2>2 DEF Readers
<1> HIDE DEF m
<1>10. Cardinality(Readers(p)') <= Cardinality(Readers(p)) - 1
  <2>1. Readers(p)' \subseteq Readers(p) \ {m} /\ IsFiniteSet(Readers(p))
    BY <1>8, <1>9, ReaderCount
  <2>2. /\ Cardinality(Readers(p) \ {m}) = Cardinality(Readers(p)) - 1
        /\ IsFiniteSet(Readers(p) \ {m})
    BY <1>9, <2>1, FS_RemoveElement
  <2>3. Cardinality(Readers(p)') <= Cardinality(Readers(p) \ {m})
    BY <2>1, <2>2, FS_Subset
  <2> QED BY <2>2, <2>3
<1>11. ASSUME NEW q \in Posts PROVE whole'[q] + Cardinality(Readers(q)') <= Cardinality(Monitors)
  <2>1. /\ whole[q] \in Nat /\ whole[q] + Cardinality(Readers(q)) <= Cardinality(Monitors)
    BY DEF BuyInv, Bought, TypeOK
  <2>2. /\ Cardinality(Readers(q)) \in Nat /\ Cardinality(Readers(q)') \in Nat
        /\ Cardinality(Monitors) \in Nat
    BY <1>8, ReaderCount
  <2>3. Cardinality(Readers(q)') <= Cardinality(Readers(q))
    <3>1. IsFiniteSet(Readers(q)) /\ Readers(q)' \subseteq Readers(q)
      BY <1>8, ReaderCount
    <3> QED BY <3>1, FS_Subset
  <2>4. CASE q = p
    BY <1>5, <1>10, <2>1, <2>2, <2>4
  <2>5. CASE q # p
    BY <1>5, <2>1, <2>2, <2>3, <2>5
  <2> QED BY <2>4, <2>5
<1>12. Bought'
  BY <1>11 DEF Bought
<1> QED BY <1>4, <1>7, <1>12 DEF BuyInv

LEMMA BuyStep == TypeOK /\ BuyInv /\ [Next]_vars => BuyInv'
<1> SUFFICES ASSUME TypeOK, BuyInv, [Next]_vars PROVE BuyInv'
  OBVIOUS
<1>1. TypeOK'
  BY StepTypes
<1>2. CASE UNCHANGED <<row, pages, whole>>
  BY <1>1, <1>2, BuyStays DEF Reads, Asking
<1>3. ASSUME NEW j \in Jobs, Hand(j) PROVE BuyInv'
  <2>1. UNCHANGED <<pages, whole>> /\ \A p \in Posts : row[p] # None => row'[p] = row[p]
    BY <1>3 DEF Hand
  <2> QED BY <1>1, <2>1, BuyStays DEF Reads, Asking
<1>4. ASSUME NEW j \in Jobs, Filter(j) PROVE BuyInv'
  <2>1. CASE Send(j)
    <3>1. UNCHANGED <<row, whole>>
      BY <2>1 DEF Send
    <3>2. ASSUME pages' # pages
          PROVE  \A l \in Keys : pages'[l] = pages[l] \/ pages'[l].pc = "queued"
      <4>1. pages' = [pages EXCEPT ![<<j, job[j].try>>] = Sent(SentOn(j), "queued", 1)]
        BY <2>1, <3>2 DEF Send
      <4>2. Sent(SentOn(j), "queued", 1).pc = "queued"
        BY DEF Sent
      <4> QED BY <4>1, <4>2 DEF TypeOK, Keys
    <3>3. /\ \A l \in Keys : Reads(l)' => Reads(l)
          /\ \A l \in Keys, p \in Posts : Asking(l, p)' => Asking(l, p)
      BY <3>2 DEF Reads, Asking, Running, Waiting
    <3> QED BY <1>1, <3>1, <3>3, BuyStays
  <2>2. CASE ~Send(j)
    <3>1. \/ SkipGone(j) \/ Start(j) \/ Sift(j)
          \/ RecordDrops(j) \/ SendThreads(j) \/ Fail(j)
      BY <1>4, <2>2 DEF Filter
    <3>2. UNCHANGED <<row, pages, whole>>
      BY <3>1 DEF SkipGone, Start, Sift, RecordDrops, SendThreads, Fail
    <3> QED BY <1>2, <3>2
  <2> QED BY <2>1, <2>2
<1>5. ASSUME NEW k \in Keys, Completing(k) PROVE BuyInv'
  <2>1. \A l \in Keys : l # k => pages'[l] = pages[l]
    BY <1>5, PagesMove DEF PageSteps
  <2>2. CASE AsksLess(k)
    <3>1. UNCHANGED <<row, whole>> /\ \A l \in Keys : Reads(l)' => Reads(l)
      BY <2>1, <2>2 DEF AsksLess, Reads
    <3>2. \A l \in Keys, p \in Posts : Asking(l, p)' => Asking(l, p)
      BY <2>1, <2>2 DEF AsksLess, Asking
    <3> QED BY <1>1, <3>1, <3>2, BuyStays
  <2> QED BY <1>1, <1>5, <2>2, PageMoves, BuyAsks, BuyReads
<1>6. ASSUME NEW m \in Monitors, Delete(m) PROVE BuyInv'
  BY <1>2, <1>6 DEF Delete
<1>7. CASE UNCHANGED vars
  BY <1>2, <1>7 DEF vars
<1> QED BY <1>3, <1>4, <1>5, <1>6, <1>7 DEF Next, Settled, Keys

\* A page that came back whole is not bought again except by monitors that read the post at
\* the same moment, for any number of jobs, retries, deaths and polls (complete.ts:50).
THEOREM EachReaderBuysOnce == Spec => []PageIsBoughtOnce
<1>1. Init => BuyInv
  <2>1. ASSUME Init PROVE BuyInv
    <3>1. (\A k \in Keys : pages[k] = None) /\ \A p \in Posts : whole[p] = 0
      BY <2>1 DEF Init, Keys
    <3>2. \A p \in Posts : Readers(p) = {}
      BY <3>1 DEF Readers, Asking
    <3>3. Cardinality({}) = 0 /\ Cardinality(Monitors) \in Nat
      BY FS_EmptySet, ReaderCount
    <3> QED BY <3>1, <3>2, <3>3 DEF BuyInv, OneReader, Kept, Bought, Reads
  <2> QED BY <2>1
<1>2. TypeOK /\ BuyInv => PageIsBoughtOnce
  <2>1. ASSUME TypeOK, BuyInv, NEW p \in Posts PROVE whole[p] <= Cardinality(Monitors)
    <3>1. whole[p] \in Nat /\ whole[p] + Cardinality(Readers(p)) <= Cardinality(Monitors)
      BY <2>1 DEF TypeOK, BuyInv, Bought
    <3>2. Readers(p) \in SUBSET Monitors
      BY DEF Readers
    <3>3. Cardinality(Readers(p)) \in Nat /\ Cardinality(Monitors) \in Nat
      BY <3>2, ReaderCount
    <3> QED BY <3>1, <3>3
  <2> QED BY <2>1 DEF PageIsBoughtOnce
<1> QED BY <1>1, <1>2, BuyStep, TypeCorrect, PTL DEF Spec
=============================================================================
