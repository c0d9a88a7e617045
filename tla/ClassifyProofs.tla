--------------------------- MODULE ClassifyProofs ---------------------------
(***************************************************************************)
(* Proofs about Classify, for every set of posts and jobs and every bound, *)
(* and for one worker process where two would race.                        *)
(***************************************************************************)
EXTENDS Classify, SumTheorems

---------------------------------------------------------------------------
\* Every step keeps the types.

LEMMA BlankType == Blank \in RunType
BY ClassifyAssumption DEF Blank, RunType, Versions

LEMMA CountType ==
  ASSUME NEW S \in SUBSET Posts
  PROVE  Cardinality(S) \in Nat
BY ClassifyAssumption, FS_Subset, FS_CardinalityType

\* A step that changes the jobs alone keeps the types when it keeps theirs.
LEMMA JobsOnly ==
  ASSUME TypeOK, jobs' \in [Jobs -> JobType \cup {None}],
         UNCHANGED <<version, walks, scored, failed, cards, copies, drops, deleted>>
  PROVE  TypeOK'
BY DEF TypeOK

LEMMA GoOnType ==
  ASSUME TypeOK, NEW j \in Jobs, jobs[j] # None, NEW p \in Posts,
         NEW run \in RunType, GoOn(j, p, run)
  PROVE  TypeOK'
<1>1. [run EXCEPT !.todo = @ \ {p}] \in RunType
  BY DEF RunType
<1>2. jobs[j] \in JobType
  BY DEF TypeOK
<1>3. jobs' \in [Jobs -> JobType \cup {None}]
  BY <1>1, <1>2 DEF GoOn, TypeOK, JobType
<1> QED BY <1>3, JobsOnly DEF GoOn

LEMMA TryAgainType ==
  ASSUME TypeOK, NEW j \in Jobs, jobs[j] # None, TryAgain(j)
  PROVE  jobs' \in [Jobs -> JobType \cup {None}]
<1>1. jobs[j] \in JobType
  BY DEF TypeOK
<1>2. [jobs[j] EXCEPT !.pc = "dead", !.run = Blank] \in JobType
  BY <1>1, BlankType DEF JobType
<1>3. ASSUME MayRetry(jobs[j].tries)
      PROVE  [jobs[j] EXCEPT !.pc = "queued", !.tries = @ + 1, !.run = Blank] \in JobType
  <2>1. MaxTries \in Nat
    BY ClassifyAssumption
  <2>2. jobs[j].tries + 1 \in 1..MaxTries
    BY <1>1, <1>3, <2>1 DEF JobType, MayRetry
  <2> QED BY <1>1, <2>2, BlankType DEF JobType
<1> QED BY <1>2, <1>3 DEF TryAgain, TypeOK

LEMMA TypeInit == Init => TypeOK
<1> SUFFICES ASSUME Init PROVE TypeOK
  OBVIOUS
<1>1. 1 \in Versions /\ 1 \in Walks
  BY ClassifyAssumption DEF Versions, Walks
<1> QED BY <1>1 DEF Init, TypeOK

LEMMA OutcomeType ==
  ASSUME NEW run \in RunType
  PROVE  Outcome(run) \in {"failed", "refused", "empty", "done"}
BY DEF Outcome, RunType

LEMMA StartType ==
  ASSUME TypeOK, NEW j \in Jobs, Start(j)
  PROVE  TypeOK'
<1> DEFINE candidates == Candidates(jobs[j].batch)
           run == [Blank EXCEPT
             !.version = version,
             !.scored = {p \in Posts : scored[version][p] > 0},
             !.failures = failed[version],
             !.carded = Carded, !.copied = Copied, !.gone = deleted, !.asked = AskedToday,
             !.before = MatchesInWalk(jobs[j].walk),
             !.candidates = candidates, !.todo = candidates]
<1>1. jobs[j] \in JobType
  BY DEF Start, TypeOK
<1>2. candidates \in SUBSET Posts
  BY <1>1 DEF JobType, Candidates
<1>3. {p \in Posts : scored[version][p] > 0} \in SUBSET Posts /\ Carded \in SUBSET Posts
      /\ Copied \in SUBSET Posts /\ deleted \in SUBSET Posts /\ AskedToday \in SUBSET Posts
  BY DEF TypeOK, Carded, Copied, AskedToday
<1>4. failed[version] \in [Posts -> Nat] /\ version \in Versions
  BY DEF TypeOK
<1>5. MatchesInWalk(jobs[j].walk) \in Nat
  BY CountType DEF MatchesInWalk, Carded
<1>6. run \in RunType
  <2> HIDE DEF candidates
  <2> QED BY <1>2, <1>3, <1>4, <1>5, BlankType DEF RunType
<1>7. jobs' = [jobs EXCEPT ![j].pc = "loop", ![j].run = run]
  BY DEF Start
<1> HIDE DEF run
<1>8. jobs' \in [Jobs -> JobType \cup {None}]
  BY <1>1, <1>6, <1>7 DEF TypeOK, JobType
<1> QED BY <1>8, JobsOnly DEF Start

LEMMA AnswerType ==
  ASSUME TypeOK, NEW j \in Jobs, NEW p \in Posts, Answer(j, p)
  PROVE  TypeOK'
<1> DEFINE run == jobs[j].run
<1>1. jobs[j] \in JobType /\ run \in RunType /\ run.version \in Versions
  BY DEF Answer, TypeOK, JobType, RunType
<1>2. Back(run, p) \in RunType
  BY <1>1 DEF Back, RunType
<1>3. ASSUME NEW next \in RunType, jobs' = [jobs EXCEPT ![j].run = next]
      PROVE  jobs' \in [Jobs -> JobType \cup {None}]
  BY <1>1, <1>3 DEF TypeOK, JobType
<1> HIDE DEF run
<1>4. CASE FailedAnswer(j, p)
  <2>1. [Back(run, p) EXCEPT !.retryable = @ \cup {p}] \in RunType
    BY <1>2 DEF RunType
  <2>2. jobs' \in [Jobs -> JobType \cup {None}]
    BY <1>3, <1>4, <2>1 DEF FailedAnswer, run
  <2>3. failed' \in [Versions -> [Posts -> Nat]]
    BY <1>1, <1>4 DEF FailedAnswer, TypeOK, run
  <2> QED BY <1>4, <2>2, <2>3 DEF FailedAnswer, TypeOK
<1>5. CASE LowAnswer(j, p)
  <2>1. [Back(run, p) EXCEPT !.low = @ \cup {p}] \in RunType
    BY <1>2 DEF RunType
  <2>2. jobs' \in [Jobs -> JobType \cup {None}]
    BY <1>3, <1>5, <2>1 DEF LowAnswer, run
  <2>3. scored' \in [Versions -> [Posts -> Nat]]
    BY <1>1, <1>5 DEF LowAnswer, TypeOK, run
  <2> QED BY <1>5, <2>2, <2>3 DEF LowAnswer, TypeOK
<1>6. CASE HighAnswer(j, p)
  <2> DEFINE below == (run.scored \ run.carded) \cap Others(run, p)
             low == {q \in run.low : Words[p] # None /\ Words[q] = Words[p]}
  <2>1. below \cup low \subseteq Posts
    BY <1>1 DEF RunType, Others
  <2> HIDE DEF below, low
  <2>2. {<<q, p>> : q \in below \cup low} \in SUBSET (Posts \X Posts)
    BY <2>1
  <2>3. [Back(run, p) EXCEPT !.made = @ \cup {p}, !.hung = @ \cup {<<q, p>> : q \in below \cup low}]
          \in RunType
    BY <1>2, <2>2 DEF RunType
  <2>4. jobs' \in [Jobs -> JobType \cup {None}]
    BY <1>3, <1>6, <2>3 DEF HighAnswer, run, below, low
  <2>5. scored' \in [Versions -> [Posts -> Nat]]
    BY <1>1, <1>6 DEF HighAnswer, TypeOK, run
  <2>6. jobs[j].walk \in Walks /\ walks \in Walks
    BY <1>1 DEF JobType, TypeOK
  <2>7. cards' \in [Posts -> Cards \cup {None}]
    BY <1>6, <2>6 DEF HighAnswer, TypeOK, Cards
  <2> QED BY <1>6, <2>4, <2>5, <2>7 DEF HighAnswer, TypeOK
<1> QED BY <1>4, <1>5, <1>6 DEF Answer

\* A copy hangs on a post; one that is known to have a carded twin hangs on one.
LEMMA CardForType ==
  ASSUME NEW run \in RunType, NEW p \in Posts
  PROVE  /\ CardFor(run, p) \subseteq Posts
         /\ Others(run, p) \cap run.carded # {} => CardFor(run, p) # {}
<1> DEFINE found == Others(run, p) \cap run.carded
           made == {q \in run.made : Words[p] # None /\ Words[q] = Words[p]}
           old == CHOOSE q \in found : \A r \in found : q <= r
<1>1. found \subseteq Posts /\ made \subseteq Posts
  BY DEF RunType
<1>2. CardFor(run, p) = IF found # {} THEN {old} ELSE made
  BY DEF CardFor
<1>3. CASE found = {}
  BY <1>1, <1>2, <1>3
<1>4. CASE found # {}
  <2>1. PICK q \in found : \A r \in found : q <= r
    <3>1. found \subseteq Nat
      BY <1>1, ClassifyAssumption
    <3>2. \A S \in SUBSET Nat : S # {} => \E q \in S : \A r \in S : q <= r
      BY NatHasLeast
    <3> QED BY <1>4, <3>1, <3>2
  <2>2. old \in found
    BY <2>1
  <2> QED BY <1>1, <1>2, <1>4, <2>2
<1> QED BY <1>3, <1>4

LEMMA LoopType ==
  ASSUME TypeOK, NEW j \in Jobs, NEW p \in Posts,
         \/ SkipKnown(j, p) \/ HangOnCard(j, p) \/ LeaveAtCap(j, p)
         \/ RefuseAtCeiling(j, p) \/ GiveUp(j, p) \/ Call(j, p)
  PROVE  TypeOK'
<1> DEFINE run == jobs[j].run
<1>1. jobs[j] # None
  BY DEF SkipKnown, HangOnCard, LeaveAtCap, RefuseAtCeiling, GiveUp, Call, MayCall, AtPost
<1>2. run \in RunType
  BY <1>1 DEF TypeOK, JobType
<1> HIDE DEF run
<1>3. CASE SkipKnown(j, p)
  BY <1>1, <1>2, <1>3, GoOnType DEF SkipKnown, run
<1>4. CASE HangOnCard(j, p)
  <2>1. PICK card \in CardFor(run, p) : GoOn(j, p, [run EXCEPT !.hung = @ \cup {<<p, card>>}])
    BY <1>4 DEF HangOnCard, run
  <2>2. card \in Posts
    BY <1>2, CardForType
  <2>3. [run EXCEPT !.hung = @ \cup {<<p, card>>}] \in RunType
    BY <1>2, <2>2 DEF RunType
  <2> QED BY <1>1, <2>1, <2>3, GoOnType
<1>5. CASE LeaveAtCap(j, p)
  <2>1. [run EXCEPT !.capped = @ \cup {p}] \in RunType
    BY <1>2 DEF RunType
  <2> QED BY <1>1, <1>5, <2>1, GoOnType DEF LeaveAtCap, run
<1>6. CASE RefuseAtCeiling(j, p)
  <2>1. [run EXCEPT !.refused = @ \cup {p}] \in RunType
    BY <1>2 DEF RunType
  <2> QED BY <1>1, <1>6, <2>1, GoOnType DEF RefuseAtCeiling, run
<1>7. CASE GiveUp(j, p)
  <2>1. [run EXCEPT !.charged = @ \cup {p}, !.dropped = @ \cup {p}] \in RunType
    BY <1>2 DEF RunType
  <2> QED BY <1>1, <1>7, <2>1, GoOnType DEF GiveUp, run
<1>8. CASE Call(j, p)
  <2>1. [run EXCEPT !.charged = Charged(run, p), !.inFlight = @ \cup {p}] \in RunType
    BY <1>2 DEF RunType, Charged
  <2> QED BY <1>1, <1>8, <2>1, GoOnType DEF Call, run
<1> QED BY <1>3, <1>4, <1>5, <1>6, <1>7, <1>8

LEMMA EndType ==
  ASSUME TypeOK, NEW j \in Jobs,
         \/ RefuseWithoutModel(j) \/ (\E p \in Posts : StopAtBudget(j, p)) \/ EndLoop(j)
         \/ WriteCopies(j) \/ WriteDrops(j) \/ Finish(j) \/ Crash(j)
  PROVE  TypeOK'
<1>1. jobs[j] # None
  BY DEF RefuseWithoutModel, StopAtBudget, MayCall, AtPost, EndLoop, WriteCopies, WriteDrops,
         Finish, Crash, Active
<1>2. jobs[j] \in JobType /\ jobs[j].run \in RunType
  BY <1>1 DEF TypeOK, JobType
<1>3. CASE RefuseWithoutModel(j)
  <2>1. jobs' \in [Jobs -> JobType \cup {None}]
    BY <1>2, <1>3 DEF RefuseWithoutModel, TypeOK, JobType
  <2> QED BY <1>3, <2>1, JobsOnly DEF RefuseWithoutModel
<1>4. CASE \E p \in Posts : StopAtBudget(j, p)
  <2>1. PICK p \in Posts : StopAtBudget(j, p)
    BY <1>4
  <2>2. jobs' \in [Jobs -> JobType \cup {None}]
    BY <1>2, <2>1 DEF StopAtBudget, TypeOK, JobType
  <2> QED BY <2>1, <2>2, JobsOnly DEF StopAtBudget
<1>5. CASE EndLoop(j)
  <2>1. Left(jobs[j].run) \in Int
    <3>1. /\ Cardinality(jobs[j].run.candidates) \in Nat
          /\ Cardinality(jobs[j].run.made \ jobs[j].run.carded) \in Nat
          /\ Cardinality(jobs[j].run.retryable) \in Nat
          /\ Cardinality(jobs[j].run.dropped) \in Nat
      BY <1>2, CountType DEF RunType
    <3> QED BY <3>1 DEF Left
  <2>2. [jobs[j].run EXCEPT !.left = Left(jobs[j].run)] \in RunType
    BY <1>2, <2>1 DEF RunType
  <2>3. CASE jobs' = [jobs EXCEPT ![j].pc = "copies"]
    <3>1. jobs' \in [Jobs -> JobType \cup {None}]
      BY <1>2, <2>3 DEF TypeOK, JobType
    <3> QED BY <1>5, <3>1, JobsOnly DEF EndLoop
  <2>4. CASE jobs' = [jobs EXCEPT ![j].pc = "copies", ![j].run.left = Left(jobs[j].run)]
    <3>1. jobs' \in [Jobs -> JobType \cup {None}]
      BY <1>2, <2>2, <2>4 DEF TypeOK, JobType
    <3> QED BY <1>5, <3>1, JobsOnly DEF EndLoop
  <2> QED BY <1>5, <2>3, <2>4 DEF EndLoop
<1>6. CASE WriteCopies(j)
  <2>1. copies' \in [Posts -> Posts \cup {None}]
    BY <1>6 DEF WriteCopies, TypeOK
  <2>2. jobs' \in [Jobs -> JobType \cup {None}]
    BY <1>2, <1>6 DEF WriteCopies, TypeOK, JobType
  <2> QED BY <1>6, <2>1, <2>2 DEF WriteCopies, TypeOK
<1>7. CASE WriteDrops(j)
  <2>1. jobs[j].run.refused \subseteq Posts /\ jobs[j].run.capped \subseteq Posts
        /\ jobs[j].walk \in Walks
    BY <1>2 DEF RunType, JobType
  <2>2. drops' \in SUBSET (Posts \X {"ceiling", "match_cap"} \X (Walks \cup {None}))
    BY <1>7, <2>1 DEF WriteDrops, TypeOK
  <2>3. jobs' \in [Jobs -> JobType \cup {None}]
    BY <1>2, <1>7 DEF WriteDrops, TypeOK, JobType
  <2> QED BY <1>7, <2>2, <2>3 DEF WriteDrops, TypeOK
<1>8. CASE Finish(j)
  <2>1. CASE TryAgain(j)
    BY <1>1, <1>8, <2>1, TryAgainType, JobsOnly DEF Finish
  <2>2. CASE jobs' = [jobs EXCEPT ![j].pc = "done", ![j].outcome = Outcome(jobs[j].run)]
    <3>1. Outcome(jobs[j].run) \in {"failed", "refused", "empty", "done"}
      BY <1>2, OutcomeType
    <3>2. jobs' \in [Jobs -> JobType \cup {None}]
      BY <1>2, <2>2, <3>1 DEF TypeOK, JobType
    <3> QED BY <1>8, <3>2, JobsOnly DEF Finish
  <2> QED BY <1>8, <2>1, <2>2 DEF Finish
<1>9. CASE Crash(j)
  BY <1>1, <1>9, TryAgainType, JobsOnly DEF Crash
<1> QED BY <1>3, <1>4, <1>5, <1>6, <1>7, <1>8, <1>9

LEMMA AroundType ==
  ASSUME TypeOK,
         \/ BeginWalk \/ Redefine \/ (\E p \in Posts : DeletePost(p))
         \/ \E j \in Jobs, batch \in SUBSET Posts \ {{}}, walk \in Walks : HandBatch(j, batch, walk)
  PROVE  TypeOK'
<1> USE ClassifyAssumption
<1>1. CASE BeginWalk
  BY <1>1 DEF BeginWalk, TypeOK, Walks
<1>2. CASE Redefine
  BY <1>2 DEF Redefine, TypeOK, Versions
<1>3. CASE \E p \in Posts : DeletePost(p)
  <2>1. PICK p \in Posts : DeletePost(p)
    BY <1>3
  <2>2. cards' \in [Posts -> Cards \cup {None}]
    BY <2>1 DEF DeletePost, TypeOK, Cards
  <2> QED BY <2>1, <2>2 DEF DeletePost, TypeOK
<1>4. CASE \E j \in Jobs, batch \in SUBSET Posts \ {{}}, walk \in Walks : HandBatch(j, batch, walk)
  <2>1. PICK j \in Jobs, batch \in SUBSET Posts, walk \in Walks : HandBatch(j, batch, walk)
    BY <1>4
  <2>2. [pc |-> "queued", batch |-> batch, walk |-> walk, tries |-> 1, outcome |-> None,
         run |-> Blank] \in JobType
    BY BlankType DEF JobType
  <2>3. jobs' \in [Jobs -> JobType \cup {None}]
    BY <2>1, <2>2 DEF HandBatch, TypeOK
  <2> QED BY <2>1, <2>3, JobsOnly DEF HandBatch
<1> QED BY <1>1, <1>2, <1>3, <1>4

LEMMA TypeStep == TypeOK /\ [Next]_vars => TypeOK'
<1> SUFFICES ASSUME TypeOK, [Next]_vars PROVE TypeOK'
  OBVIOUS
<1>1. CASE UNCHANGED vars
  BY <1>1 DEF vars, TypeOK
<1>2. CASE Next
  <2>1. CASE BeginWalk \/ Redefine \/ \E p \in Posts : DeletePost(p)
    BY <2>1, AroundType
  <2>2. ASSUME NEW j \in Jobs, NEW batch \in SUBSET Posts \ {{}}, NEW walk \in Walks,
               HandBatch(j, batch, walk)
        PROVE  TypeOK'
    BY <2>2, AroundType
  <2>3. ASSUME NEW j \in Jobs, Step(j) \/ Crash(j)
        PROVE  TypeOK'
    BY <2>3, StartType, AnswerType, LoopType, EndType DEF Step
  <2> QED BY <1>2, <2>1, <2>2, <2>3 DEF Next
<1> QED BY <1>1, <1>2

\* The types hold in every reachable state, for every set of faults.
THEOREM TypeCorrect == Spec => []TypeOK
<1>1. Init => TypeOK
  BY TypeInit
<1>2. TypeOK /\ [Next]_vars => TypeOK'
  BY TypeStep
<1> QED BY <1>1, <1>2, PTL DEF Spec

---------------------------------------------------------------------------
\* With one worker process, a running job's memory agrees with the tables.

OneProcess == "processes" \notin Faults

\* One job of the monitor runs at a time.
Alone == \A i, j \in Jobs : Active(i) /\ Active(j) => i = j

\* Of the posts still ahead and in flight, the run knows what the ledger says; a
\* post in flight was neither scored nor given up, and will not be met again.
Fresh(run) ==
  /\ run.inFlight \cap run.todo = {}
  /\ run.inFlight \cap run.scored = {}
  /\ \A p \in run.inFlight : run.failures[p] < MaxAttempts
  /\ \A p \in run.inFlight \cup run.todo :
       /\ failed[run.version][p] = run.failures[p]
       /\ scored[run.version][p] > 0 => p \in run.scored

Twins(p, q) == p # q /\ Words[p] # None /\ Words[p] = Words[q]

\* The run knows every card, and no post in flight has a twin in flight or on a
\* card that stands.
Aware(run) ==
  /\ run.gone \subseteq deleted
  /\ Carded \subseteq run.carded \cup run.made
  /\ \A p, q \in run.inFlight : ~Twins(p, q)
  /\ \A p \in run.inFlight, q \in Carded \ deleted : ~Twins(p, q)

RunOK(run) == Fresh(run) /\ Aware(run)

Inv ==
  /\ TypeOK /\ Alone
  /\ \A j \in Jobs : Active(j) => RunOK(jobs[j].run)
  /\ ScoredOnce /\ AttemptsEnd /\ OneCardPerWords

\* A step that writes no table keeps the invariant when the runs stay in order.
LEMMA QuietStep ==
  ASSUME Inv, TypeOK', UNCHANGED <<scored, failed, cards, deleted>>,
         \A i \in Jobs : Active(i)' => Active(i) /\ RunOK(jobs'[i].run)
  PROVE  Inv'
<1>1. Alone'
  BY DEF Inv, Alone
<1>2. \A i \in Jobs : Active(i)' => RunOK(jobs[i].run)'
  BY DEF RunOK, Fresh, Aware, Carded
<1>3. ScoredOnce' /\ AttemptsEnd' /\ OneCardPerWords'
  BY DEF Inv, ScoredOnce, AttemptsEnd, OneCardPerWords, Carded
<1> QED BY <1>1, <1>2, <1>3 DEF Inv

\* The same, for a step of one job.
LEMMA QuietJob ==
  ASSUME Inv, TypeOK', UNCHANGED <<scored, failed, cards, deleted>>, NEW j \in Jobs,
         \A i \in Jobs : i # j => jobs'[i] = jobs[i],
         Active(j)' => Active(j) /\ RunOK(jobs'[j].run)
  PROVE  Inv'
<1>1. ASSUME NEW i \in Jobs, Active(i)'
      PROVE  Active(i) /\ RunOK(jobs'[i].run)
  <2>1. CASE i = j
    BY <1>1, <2>1
  <2>2. CASE i # j
    <3>1. Active(i)
      BY <1>1, <2>2 DEF Active
    <3> QED BY <2>2, <3>1 DEF Inv
  <2> QED BY <2>1, <2>2
<1> QED BY <1>1, QuietStep

\* What a run is judged by.
LEMMA SameRun ==
  ASSUME NEW a, NEW b, RunOK(a), b.todo \subseteq a.todo, b.inFlight = a.inFlight,
         b.version = a.version, b.scored = a.scored, b.failures = a.failures,
         b.gone = a.gone, b.carded = a.carded, b.made = a.made
  PROVE  RunOK(b)
BY DEF RunOK, Fresh, Aware

LEMMA TryAgainStops ==
  ASSUME TypeOK, NEW j \in Jobs, jobs[j] # None, TryAgain(j)
  PROVE  ~Active(j)' /\ \A i \in Jobs : i # j => jobs'[i] = jobs[i]
<1>1. jobs'[j].pc \in {"queued", "dead"}
  BY DEF TryAgain, TypeOK, JobType
<1> QED BY <1>1 DEF TryAgain, TypeOK, Active

LEMMA StartInv ==
  ASSUME Inv, TypeOK', OneProcess, NEW j \in Jobs, Start(j)
  PROVE  Inv'
<1> DEFINE run == jobs'[j].run
<1>1. jobs[j] \in JobType /\ failed[version] \in [Posts -> Nat]
  BY DEF Start, Inv, TypeOK
<1>2. /\ run.version = version /\ run.scored = {p \in Posts : scored[version][p] > 0}
      /\ run.failures = failed[version] /\ run.carded = Carded /\ run.gone = deleted
      /\ run.todo = Candidates(jobs[j].batch) /\ run.inFlight = {} /\ run.made = {}
  BY <1>1 DEF Start, Inv, TypeOK, JobType, Blank
<1>3. run.todo \subseteq Posts
  BY <1>1, <1>2 DEF Candidates, JobType
<1>4. \A i \in Jobs : i # j => jobs'[i] = jobs[i]
  BY DEF Start, Inv, TypeOK
<1>5. \A i \in Jobs : ~Active(i)
  BY DEF Start, MayStart, OneProcess
<1>6. \A i \in Jobs : Active(i)' => i = j
  BY <1>4, <1>5 DEF Active
<1> HIDE DEF run
<1>7. UNCHANGED <<scored, failed, cards, deleted>>
  BY DEF Start
<1>8. RunOK(run)
  BY <1>2, <1>3 DEF RunOK, Fresh, Aware
<1>9. RunOK(jobs[j].run)'
  BY <1>7, <1>8 DEF run, RunOK, Fresh, Aware, Carded
<1>10. Alone' /\ \A i \in Jobs : Active(i)' => RunOK(jobs[i].run)'
  BY <1>6, <1>9 DEF Alone
<1>11. ScoredOnce' /\ AttemptsEnd' /\ OneCardPerWords'
  BY <1>7 DEF Inv, ScoredOnce, AttemptsEnd, OneCardPerWords, Carded
<1> QED BY <1>10, <1>11 DEF Inv

\* The loop passes a post without a call.
LEMMA PassInv ==
  ASSUME Inv, TypeOK', NEW j \in Jobs, NEW p \in Posts,
         \/ SkipKnown(j, p) \/ HangOnCard(j, p) \/ LeaveAtCap(j, p)
         \/ RefuseAtCeiling(j, p) \/ GiveUp(j, p)
  PROVE  Inv'
<1> DEFINE run == jobs[j].run
<1>1. jobs[j] \in JobType /\ run \in RunType /\ jobs[j].pc = "loop" /\ jobs[j] # None
  BY DEF SkipKnown, HangOnCard, LeaveAtCap, RefuseAtCeiling, GiveUp, MayCall, AtPost,
         Inv, TypeOK, JobType
<1>2. Active(j) /\ RunOK(run)
  BY <1>1 DEF Active, Inv
<1>3. ASSUME NEW next \in RunType, GoOn(j, p, next), next.todo = run.todo,
             next.inFlight = run.inFlight, next.version = run.version,
             next.scored = run.scored, next.failures = run.failures, next.gone = run.gone,
             next.carded = run.carded, next.made = run.made
      PROVE  Inv'
  <2>1. /\ jobs'[j].run = [next EXCEPT !.todo = @ \ {p}]
        /\ \A i \in Jobs : i # j => jobs'[i] = jobs[i]
    BY <1>1, <1>3 DEF GoOn, Inv, TypeOK, JobType
  <2>2. RunOK([next EXCEPT !.todo = @ \ {p}])
    <3> DEFINE past == [next EXCEPT !.todo = @ \ {p}]
    <3>1. /\ past.todo \subseteq run.todo /\ past.inFlight = run.inFlight
          /\ past.version = run.version /\ past.scored = run.scored
          /\ past.failures = run.failures /\ past.gone = run.gone
          /\ past.carded = run.carded /\ past.made = run.made
      BY <1>3 DEF RunType
    <3> HIDE DEF past, run
    <3>2. RunOK(past)
      BY <1>2, <3>1, SameRun
    <3> QED BY <3>2 DEF past
  <2>3. UNCHANGED <<scored, failed, cards, deleted>>
    BY <1>3 DEF GoOn
  <2> QED BY <1>2, <2>1, <2>2, <2>3, QuietJob
<1> HIDE DEF run
<1>4. CASE SkipKnown(j, p)
  BY <1>1, <1>3, <1>4 DEF SkipKnown, run
<1>5. CASE HangOnCard(j, p)
  <2>1. PICK card \in CardFor(run, p) : GoOn(j, p, [run EXCEPT !.hung = @ \cup {<<p, card>>}])
    BY <1>5 DEF HangOnCard, run
  <2>2. card \in Posts
    BY <1>1, CardForType
  <2>3. [run EXCEPT !.hung = @ \cup {<<p, card>>}] \in RunType
    BY <1>1, <2>2 DEF RunType
  <2> QED BY <1>1, <1>3, <2>1, <2>3 DEF RunType
<1>6. CASE LeaveAtCap(j, p)
  <2>1. [run EXCEPT !.capped = @ \cup {p}] \in RunType
    BY <1>1 DEF RunType
  <2> QED BY <1>1, <1>3, <1>6, <2>1 DEF LeaveAtCap, run, RunType
<1>7. CASE RefuseAtCeiling(j, p)
  <2>1. [run EXCEPT !.refused = @ \cup {p}] \in RunType
    BY <1>1 DEF RunType
  <2> QED BY <1>1, <1>3, <1>7, <2>1 DEF RefuseAtCeiling, run, RunType
<1>8. CASE GiveUp(j, p)
  <2>1. [run EXCEPT !.charged = @ \cup {p}, !.dropped = @ \cup {p}] \in RunType
    BY <1>1 DEF RunType
  <2> QED BY <1>1, <1>3, <1>8, <2>1 DEF GiveUp, run, RunType
<1> QED BY <1>4, <1>5, <1>6, <1>7, <1>8

\* A call starts only on a post that nothing is known of.
LEMMA CallInv ==
  ASSUME Inv, TypeOK', NEW j \in Jobs, NEW p \in Posts, Call(j, p)
  PROVE  Inv'
<1> DEFINE run == jobs[j].run
           next == jobs'[j].run
<1>1. /\ jobs[j] # None /\ jobs[j].pc = "loop" /\ jobs[j] \in JobType /\ run \in RunType
      /\ p \in run.todo
  BY DEF Call, MayCall, AtPost, Inv, TypeOK, JobType
<1>2. Active(j) /\ RunOK(run)
  BY <1>1 DEF Active, Inv
<1>3. /\ next.todo = run.todo \ {p} /\ next.inFlight = run.inFlight \cup {p}
      /\ next.version = run.version /\ next.scored = run.scored
      /\ next.failures = run.failures /\ next.gone = run.gone
      /\ next.carded = run.carded /\ next.made = run.made
      /\ \A i \in Jobs : i # j => jobs'[i] = jobs[i]
  BY <1>1 DEF Call, GoOn, Inv, TypeOK, JobType, RunType
<1>4. /\ ~Known(run, p) /\ ~CopyInFlight(run, p) /\ CardFor(run, p) = {} /\ ~GivenUp(run, p)
  BY DEF Call, MayCall
<1>5. MaxAttempts \in Nat /\ run.failures[p] \in Nat
  BY <1>1, ClassifyAssumption DEF RunType
<1> HIDE DEF run, next
<1>6. Fresh(next)
  <2>1. p \notin run.scored /\ run.failures[p] < MaxAttempts
    BY <1>4, <1>5 DEF Known, GivenUp
  <2> QED BY <1>1, <1>2, <1>3, <2>1 DEF RunOK, Fresh
<1>7. Aware(next)
  <2>1. \A q \in run.inFlight : ~Twins(p, q) /\ ~Twins(q, p)
    BY <1>4 DEF CopyInFlight, Twins
  <2>2. ASSUME NEW q \in Carded \ deleted, Twins(p, q)
        PROVE  FALSE
    <3>1. q \in run.carded \cup run.made /\ q \notin run.gone /\ q \in Posts
      BY <1>2 DEF RunOK, Aware, Carded
    <3>2. CASE q \in run.carded
      <4>1. q \in Others(run, p)
        BY <2>2, <3>1 DEF Others, Twins
      <4> QED BY <1>1, <1>4, <3>2, <4>1, CardForType
    <3>3. CASE q \in run.made
      <4>1. q \in {r \in run.made : Words[p] # None /\ Words[r] = Words[p]}
        BY <2>2, <3>3 DEF Twins
      <4>2. Others(run, p) \cap run.carded = {}
        BY <1>1, <1>4, CardForType
      <4> QED BY <1>4, <4>1, <4>2 DEF CardFor
    <3> QED BY <3>1, <3>2, <3>3
  <2>3. ~Twins(p, p)
    BY DEF Twins
  <2> QED BY <1>2, <1>3, <2>1, <2>2, <2>3 DEF RunOK, Aware
<1>8. UNCHANGED <<scored, failed, cards, deleted>>
  BY DEF Call, GoOn
<1> QED BY <1>2, <1>3, <1>6, <1>7, <1>8, QuietJob DEF RunOK, next

LEMMA EndInv ==
  ASSUME Inv, TypeOK', NEW j \in Jobs,
         \/ RefuseWithoutModel(j) \/ (\E p \in Posts : StopAtBudget(j, p)) \/ EndLoop(j)
         \/ WriteCopies(j) \/ WriteDrops(j) \/ Finish(j) \/ Crash(j)
  PROVE  Inv'
<1>1. /\ jobs[j] # None /\ jobs[j] \in JobType /\ jobs[j].run \in RunType
      /\ UNCHANGED <<scored, failed, cards, deleted>>
  BY DEF RefuseWithoutModel, StopAtBudget, MayCall, AtPost, EndLoop, WriteCopies, WriteDrops,
         Finish, Crash, Active, Inv, TypeOK, JobType
<1>2. CASE TryAgain(j)
  BY <1>1, <1>2, TryAgainStops, QuietJob DEF Inv
<1>3. ASSUME NEW outcome, jobs' = [jobs EXCEPT ![j].pc = "done", ![j].outcome = outcome]
      PROVE  Inv'
  <2>1. ~Active(j)' /\ \A i \in Jobs : i # j => jobs'[i] = jobs[i]
    BY <1>1, <1>3 DEF Active, Inv, TypeOK, JobType
  <2> QED BY <1>1, <2>1, QuietJob
<1>4. ASSUME NEW pc, jobs' = [jobs EXCEPT ![j].pc = pc], Active(j)
      PROVE  Inv'
  <2>1. jobs'[j].run = jobs[j].run /\ \A i \in Jobs : i # j => jobs'[i] = jobs[i]
    BY <1>1, <1>4 DEF Inv, TypeOK, JobType
  <2>2. RunOK(jobs[j].run)
    BY <1>4 DEF Inv
  <2> QED BY <1>1, <1>4, <2>1, <2>2, QuietJob
<1>5. CASE RefuseWithoutModel(j)
  BY <1>3, <1>5 DEF RefuseWithoutModel
<1>6. CASE \E p \in Posts : StopAtBudget(j, p)
  <2>1. PICK p \in Posts : StopAtBudget(j, p)
    BY <1>6
  <2>2. Active(j) /\ jobs' = [jobs EXCEPT ![j].pc = "stopping"]
    BY <2>1 DEF StopAtBudget, MayCall, AtPost, Active
  <2> QED BY <1>4, <2>2
<1>7. CASE EndLoop(j)
  <2>1. Active(j)
    BY <1>7 DEF EndLoop, Active
  <2>2. CASE jobs' = [jobs EXCEPT ![j].pc = "copies"]
    BY <1>4, <2>1, <2>2
  <2>3. CASE jobs' = [jobs EXCEPT ![j].pc = "copies", ![j].run.left = Left(jobs[j].run)]
    <3> DEFINE a == jobs[j].run
               b == jobs'[j].run
    <3>1. /\ b.todo = a.todo /\ b.inFlight = a.inFlight /\ b.version = a.version
          /\ b.scored = a.scored /\ b.failures = a.failures /\ b.gone = a.gone
          /\ b.carded = a.carded /\ b.made = a.made
          /\ \A i \in Jobs : i # j => jobs'[i] = jobs[i]
      BY <1>1, <2>3 DEF Inv, TypeOK, JobType, RunType
    <3>2. RunOK(a)
      BY <2>1 DEF Inv
    <3> HIDE DEF a, b
    <3>3. RunOK(b)
      BY <3>1, <3>2, SameRun
    <3> QED BY <1>1, <2>1, <3>1, <3>3, QuietJob DEF b
  <2> QED BY <1>7, <2>2, <2>3 DEF EndLoop
<1>8. CASE WriteCopies(j)
  <2>1. Active(j) /\ jobs' = [jobs EXCEPT ![j].pc = "drops"]
    BY <1>8 DEF WriteCopies, Active
  <2> QED BY <1>4, <2>1
<1>9. CASE WriteDrops(j)
  <2>1. Active(j) /\ jobs' = [jobs EXCEPT ![j].pc = "end"]
    BY <1>9 DEF WriteDrops, Active
  <2> QED BY <1>4, <2>1
<1>10. CASE Finish(j)
  BY <1>2, <1>3, <1>10 DEF Finish
<1>11. CASE Crash(j)
  BY <1>2, <1>11 DEF Crash
<1> QED BY <1>5, <1>6, <1>7, <1>8, <1>9, <1>10, <1>11

\* An answer is the first at this version, it is an attempt the post still had, and
\* a card it makes has no twin.
LEMMA AnswerInv ==
  ASSUME Inv, TypeOK', NEW j \in Jobs, NEW p \in Posts, Answer(j, p)
  PROVE  Inv'
<1> DEFINE run == jobs[j].run
           next == jobs'[j].run
           v == run.version
<1>1. /\ jobs[j] # None /\ jobs[j].pc \in {"loop", "stopping"} /\ jobs[j] \in JobType
      /\ run \in RunType /\ p \in run.inFlight /\ v \in Versions
  BY DEF Answer, Inv, TypeOK, JobType, RunType
<1>2. Active(j) /\ RunOK(run)
  BY <1>1 DEF Active, Inv
<1>3. /\ next.todo = run.todo /\ next.inFlight = run.inFlight \ {p}
      /\ next.version = v /\ next.scored = run.scored /\ next.failures = run.failures
      /\ next.gone = run.gone /\ next.carded = run.carded
      /\ next.made \in {run.made, run.made \cup {p}}
      /\ \A i \in Jobs : i # j => jobs'[i] = jobs[i]
      /\ jobs'[j].pc = jobs[j].pc
  <2>1. CASE HighAnswer(j, p)
    BY <1>1, <2>1 DEF HighAnswer, Back, Inv, TypeOK, JobType, RunType
  <2>2. CASE LowAnswer(j, p)
    BY <1>1, <2>2 DEF LowAnswer, Back, Inv, TypeOK, JobType, RunType
  <2>3. CASE FailedAnswer(j, p)
    BY <1>1, <2>3 DEF FailedAnswer, Back, Inv, TypeOK, JobType, RunType
  <2> QED BY <2>1, <2>2, <2>3 DEF Answer
<1>4. /\ deleted' = deleted
      /\ \A w \in Versions, q \in Posts :
           <<w, q>> # <<v, p>> => scored'[w][q] = scored[w][q] /\ failed'[w][q] = failed[w][q]
      /\ scored'[v][p] \in {scored[v][p], scored[v][p] + 1}
      /\ failed'[v][p] \in {failed[v][p], failed[v][p] + 1}
  BY <1>1 DEF Answer, FailedAnswer, LowAnswer, HighAnswer, Inv, TypeOK
<1>5. \/ cards' = cards /\ next.made = run.made
      \/ Carded' \subseteq Carded \cup {p} /\ next.made = run.made \cup {p}
  <2>1. CASE HighAnswer(j, p)
    <3>1. next.made = run.made \cup {p}
      BY <1>1, <2>1 DEF HighAnswer, Back, Inv, TypeOK, JobType, RunType
    <3>2. Carded' \subseteq Carded \cup {p}
      BY <2>1 DEF HighAnswer, Carded, Inv, TypeOK
    <3> QED BY <3>1, <3>2
  <2>2. CASE LowAnswer(j, p)
    BY <1>1, <2>2 DEF LowAnswer, Back, Inv, TypeOK, JobType, RunType
  <2>3. CASE FailedAnswer(j, p)
    BY <1>1, <2>3 DEF FailedAnswer, Back, Inv, TypeOK, JobType, RunType
  <2> QED BY <2>1, <2>2, <2>3 DEF Answer
<1> HIDE DEF run, next, v
<1>6. /\ scored[v][p] = 0 /\ failed[v][p] < MaxAttempts
      /\ scored[v][p] \in Nat /\ failed[v][p] \in Nat
  <2>1. scored[v][p] \in Nat /\ failed[v][p] \in Nat
    BY <1>1 DEF Inv, TypeOK, RunType
  <2>2. p \notin run.scored /\ run.failures[p] < MaxAttempts /\ failed[v][p] = run.failures[p]
        /\ (scored[v][p] > 0 => p \in run.scored)
    BY <1>1, <1>2 DEF RunOK, Fresh, v
  <2> QED BY <2>1, <2>2
<1>7. ScoredOnce'
  BY <1>4, <1>6 DEF ScoredOnce, Inv
<1>8. AttemptsEnd'
  <2>1. MaxAttempts \in Nat
    BY ClassifyAssumption
  <2> QED BY <1>4, <1>6, <2>1 DEF AttemptsEnd, Inv
<1>9. Fresh(jobs[j].run)'
  <2>1. \A q \in next.inFlight \cup next.todo : q # p /\ q \in Posts
    BY <1>1, <1>2, <1>3 DEF RunOK, Fresh, RunType
  <2>2. \A q \in next.inFlight \cup next.todo :
          scored'[v][q] = scored[v][q] /\ failed'[v][q] = failed[v][q]
    BY <1>1, <1>4, <2>1
  <2>3. \A q \in next.inFlight \cup next.todo : q \in run.inFlight \cup run.todo
    BY <1>3
  <2>4. \A q \in next.inFlight \cup next.todo :
          /\ failed'[v][q] = next.failures[q]
          /\ scored'[v][q] > 0 => q \in next.scored
    BY <1>2, <1>3, <2>2, <2>3 DEF RunOK, Fresh, v
  <2> QED BY <1>2, <1>3, <2>4 DEF RunOK, Fresh, next
<1>10. Carded' \subseteq Carded \cup {p} /\ Carded' \subseteq next.carded \cup next.made
  BY <1>2, <1>3, <1>5 DEF RunOK, Aware, Carded
<1>11. \A q \in next.inFlight, r \in Carded' \ deleted' : ~Twins(q, r)
  BY <1>1, <1>2, <1>3, <1>4, <1>10 DEF RunOK, Aware
<1>12. Aware(jobs[j].run)'
  BY <1>2, <1>3, <1>4, <1>10, <1>11 DEF RunOK, Aware, next
<1>13. OneCardPerWords'
  <2>1. \A q, r \in Carded' \ deleted' : ~Twins(q, r)
    <3>1. \A q, r \in Carded \ deleted : ~Twins(q, r)
      BY DEF Inv, OneCardPerWords, Twins
    <3>2. \A r \in Carded \ deleted : ~Twins(p, r) /\ ~Twins(r, p)
      BY <1>1, <1>2 DEF RunOK, Aware, Twins
    <3>3. ~Twins(p, p)
      BY DEF Twins
    <3> QED BY <1>4, <1>10, <3>1, <3>2, <3>3
  <2> QED BY <2>1 DEF OneCardPerWords, Twins
<1>14. \A i \in Jobs : Active(i)' => i = j
  <2>1. \A i \in Jobs : Active(i) => i = j
    BY <1>2 DEF Inv, Alone
  <2> QED BY <1>3, <2>1 DEF Active
<1>15. Alone' /\ \A i \in Jobs : Active(i)' => RunOK(jobs[i].run)'
  <2>1. RunOK(jobs[j].run)'
    BY <1>9, <1>12 DEF RunOK
  <2> QED BY <1>14, <2>1 DEF Alone
<1> QED BY <1>7, <1>8, <1>13, <1>15 DEF Inv

LEMMA AroundInv ==
  ASSUME Inv, TypeOK',
         \/ BeginWalk \/ Redefine \/ (\E p \in Posts : DeletePost(p))
         \/ \E j \in Jobs, batch \in SUBSET Posts \ {{}}, walk \in Walks : HandBatch(j, batch, walk)
  PROVE  Inv'
<1>1. CASE BeginWalk \/ Redefine
  <2>1. UNCHANGED <<scored, failed, cards, deleted, jobs>>
    BY <1>1 DEF BeginWalk, Redefine
  <2> QED BY <2>1, QuietStep DEF Active, Inv
<1>2. CASE \E p \in Posts : DeletePost(p)
  <2>1. PICK p \in Posts : DeletePost(p)
    BY <1>2
  <2>2. UNCHANGED <<scored, failed, jobs>> /\ deleted \subseteq deleted'
    BY <2>1 DEF DeletePost
  <2>3. Carded' \subseteq Carded
    BY <2>1 DEF DeletePost, Carded, Inv, TypeOK
  <2>4. Alone' /\ ScoredOnce' /\ AttemptsEnd'
    BY <2>2 DEF Inv, Alone, Active, ScoredOnce, AttemptsEnd
  <2>5. OneCardPerWords'
    BY <2>2, <2>3 DEF Inv, OneCardPerWords
  <2>6. ASSUME NEW j \in Jobs, Active(j)'
        PROVE  RunOK(jobs[j].run)'
    <3>1. RunOK(jobs[j].run)
      BY <2>2, <2>6 DEF Inv, Active
    <3>2. Fresh(jobs[j].run)'
      BY <2>2, <3>1 DEF RunOK, Fresh
    <3>3. Aware(jobs[j].run)'
      BY <2>2, <2>3, <3>1 DEF RunOK, Aware
    <3> QED BY <3>2, <3>3 DEF RunOK
  <2> QED BY <2>4, <2>5, <2>6 DEF Inv
<1>3. CASE \E j \in Jobs, batch \in SUBSET Posts \ {{}}, walk \in Walks : HandBatch(j, batch, walk)
  <2>1. PICK j \in Jobs, batch \in SUBSET Posts, walk \in Walks : HandBatch(j, batch, walk)
    BY <1>3
  <2>2. ~Active(j)' /\ \A i \in Jobs : i # j => jobs'[i] = jobs[i]
    BY <2>1 DEF HandBatch, Active, Inv, TypeOK
  <2> QED BY <2>1, <2>2, QuietJob DEF HandBatch
<1> QED BY <1>1, <1>2, <1>3

LEMMA InvInit == Init => Inv
<1> SUFFICES ASSUME Init PROVE Inv
  OBVIOUS
<1>1. TypeOK
  BY TypeInit
<1>2. \A j \in Jobs : ~Active(j)
  BY DEF Init, Active
<1>3. ScoredOnce
  BY DEF Init, ScoredOnce
<1>4. AttemptsEnd
  BY ClassifyAssumption DEF Init, AttemptsEnd
<1>5. OneCardPerWords
  BY DEF Init, OneCardPerWords, Carded
<1> QED BY <1>1, <1>2, <1>3, <1>4, <1>5 DEF Inv, Alone

LEMMA InvStep ==
  ASSUME OneProcess, Inv, [Next]_vars
  PROVE  Inv'
<1>1. TypeOK'
  BY TypeStep DEF Inv
<1>2. CASE UNCHANGED vars
  BY <1>1, <1>2, QuietStep DEF vars, Inv, Active
<1>3. CASE Next
  <2>1. CASE BeginWalk \/ Redefine \/ \E p \in Posts : DeletePost(p)
    BY <1>1, <2>1, AroundInv
  <2>2. ASSUME NEW j \in Jobs, NEW batch \in SUBSET Posts \ {{}}, NEW walk \in Walks,
               HandBatch(j, batch, walk)
        PROVE  Inv'
    BY <1>1, <2>2, AroundInv
  <2>3. ASSUME NEW j \in Jobs, Step(j) \/ Crash(j)
        PROVE  Inv'
    BY <1>1, <2>3, StartInv, PassInv, CallInv, AnswerInv, EndInv DEF Step
  <2> QED BY <1>3, <2>1, <2>2, <2>3 DEF Next
<1> QED BY <1>2, <1>3

\* With one worker process, what a running job remembers agrees with the tables.
THEOREM Invariant == OneProcess => (Spec => []Inv)
<1> SUFFICES ASSUME OneProcess PROVE Spec => []Inv
  OBVIOUS
<1>1. Init => Inv
  BY InvInit
<1>2. Inv /\ [Next]_vars => Inv'
  BY InvStep
<1> QED BY <1>1, <1>2, PTL DEF Spec

\* With one worker process, no post is paid for twice at a version of the monitor,
\* whatever jobs hand it again, fail half way or die.
THEOREM PaidOnce == OneProcess => (Spec => []ScoredOnce)
<1>1. Inv => ScoredOnce
  BY DEF Inv
<1> QED BY <1>1, Invariant, PTL

\* With one worker process, a post the model fails on is given up in time.
THEOREM AttemptsAreBounded == OneProcess => (Spec => []AttemptsEnd)
<1>1. Inv => AttemptsEnd
  BY DEF Inv
<1> QED BY <1>1, Invariant, PTL

\* With one worker process, copies of a post never make two cards, with any number
\* of calls in flight.
THEOREM CopiesAreOneCard == OneProcess => (Spec => []OneCardPerWords)
<1>1. Inv => OneCardPerWords
  BY DEF Inv
<1> QED BY <1>1, Invariant, PTL

---------------------------------------------------------------------------
\* What a step of a job does to its run.

\* What a run read when it began.
SameReadings(a, b) ==
  /\ b.version = a.version /\ b.scored = a.scored /\ b.failures = a.failures
  /\ b.carded = a.carded /\ b.copied = a.copied /\ b.asked = a.asked
  /\ b.before = a.before /\ b.candidates = a.candidates

\* The loop goes on past p, and what it notes of it.
Passed(a, b, p) ==
  /\ p \in a.todo /\ b.todo = a.todo \ {p} /\ SameReadings(a, b)
  /\ b.made = a.made /\ b.retryable = a.retryable
  /\ a.hung \subseteq b.hung /\ a.capped \subseteq b.capped /\ a.refused \subseteq b.refused

\* It does not call, and nothing is counted against the day or dropped.
NoCall(a, b) == b.inFlight = a.inFlight /\ b.charged = a.charged /\ b.dropped = a.dropped

\* A step of the loop that makes no call.
LEMMA PassMoves ==
  ASSUME TypeOK, NEW j \in Jobs, NEW p \in Posts,
         SkipKnown(j, p) \/ HangOnCard(j, p) \/ LeaveAtCap(j, p) \/ RefuseAtCeiling(j, p)
  PROVE  LET a == jobs[j].run  b == jobs'[j].run IN
         /\ Passed(a, b, p) /\ NoCall(a, b)
         /\ \/ Known(a, p)
            \/ \E card \in Posts : <<p, card>> \in b.hung
            \/ p \in b.capped \cup b.refused
<1> DEFINE a == jobs[j].run
           b == jobs'[j].run
<1>1. /\ jobs[j] # None /\ jobs[j] \in JobType /\ a \in RunType /\ p \in a.todo
  BY DEF SkipKnown, HangOnCard, LeaveAtCap, RefuseAtCeiling, MayCall, AtPost, TypeOK, JobType
<1>2. ASSUME NEW next, GoOn(j, p, next)
      PROVE  b = [next EXCEPT !.todo = @ \ {p}]
  BY <1>1, <1>2 DEF GoOn, TypeOK, JobType
<1> HIDE DEF a, b
<1>3. CASE SkipKnown(j, p)
  <2>1. b = [a EXCEPT !.todo = @ \ {p}] /\ Known(a, p)
    BY <1>2, <1>3 DEF SkipKnown, a
  <2>2. Passed(a, b, p) /\ NoCall(a, b)
    BY <1>1, <2>1 DEF Passed, NoCall, SameReadings, RunType
  <2> QED BY <2>1, <2>2 DEF a, b
<1>4. CASE HangOnCard(j, p)
  <2>1. PICK card \in CardFor(a, p) : GoOn(j, p, [a EXCEPT !.hung = @ \cup {<<p, card>>}])
    BY <1>4 DEF HangOnCard, a
  <2>2. card \in Posts
    BY <1>1, CardForType
  <2>3. b = [[a EXCEPT !.hung = @ \cup {<<p, card>>}] EXCEPT !.todo = @ \ {p}]
    BY <1>2, <2>1
  <2>4. Passed(a, b, p) /\ NoCall(a, b) /\ <<p, card>> \in b.hung
    BY <1>1, <2>3 DEF Passed, NoCall, SameReadings, RunType
  <2> QED BY <2>2, <2>4 DEF a, b
<1>5. CASE LeaveAtCap(j, p)
  <2>1. b = [[a EXCEPT !.capped = @ \cup {p}] EXCEPT !.todo = @ \ {p}]
    BY <1>2, <1>5 DEF LeaveAtCap, a
  <2>2. Passed(a, b, p) /\ NoCall(a, b) /\ p \in b.capped
    BY <1>1, <2>1 DEF Passed, NoCall, SameReadings, RunType
  <2> QED BY <2>2 DEF a, b
<1>6. CASE RefuseAtCeiling(j, p)
  <2>1. b = [[a EXCEPT !.refused = @ \cup {p}] EXCEPT !.todo = @ \ {p}]
    BY <1>2, <1>6 DEF RefuseAtCeiling, a
  <2>2. Passed(a, b, p) /\ NoCall(a, b) /\ p \in b.refused
    BY <1>1, <2>1 DEF Passed, NoCall, SameReadings, RunType
  <2> QED BY <2>2 DEF a, b
<1> QED BY <1>3, <1>4, <1>5, <1>6

\* A post is given up, or a call starts: either is counted against the day.
LEMMA CallMoves ==
  ASSUME TypeOK, NEW j \in Jobs, NEW p \in Posts, GiveUp(j, p) \/ Call(j, p)
  PROVE  LET a == jobs[j].run  b == jobs'[j].run IN
         /\ Passed(a, b, p) /\ ~AtCap(jobs[j]) /\ ~MustWait(a) /\ HasRoom(a, p)
         /\ b.charged = a.charged \cup {p}
         /\ \/ b.inFlight = a.inFlight /\ b.dropped = a.dropped \cup {p} /\ GivenUp(a, p)
            \/ b.inFlight = a.inFlight \cup {p} /\ b.dropped = a.dropped
<1> DEFINE a == jobs[j].run
           b == jobs'[j].run
<1>1. /\ jobs[j] # None /\ jobs[j] \in JobType /\ a \in RunType /\ p \in a.todo
      /\ ~AtCap(jobs[j]) /\ ~MustWait(a) /\ HasRoom(a, p)
  BY DEF GiveUp, Call, MayCall, AtPost, TypeOK, JobType
<1>2. ASSUME NEW next, GoOn(j, p, next)
      PROVE  b = [next EXCEPT !.todo = @ \ {p}]
  BY <1>1, <1>2 DEF GoOn, TypeOK, JobType
<1> HIDE DEF a, b
<1>3. CASE GiveUp(j, p)
  <2>1. /\ b = [[a EXCEPT !.charged = @ \cup {p}, !.dropped = @ \cup {p}] EXCEPT !.todo = @ \ {p}]
        /\ GivenUp(a, p)
    BY <1>2, <1>3 DEF GiveUp, a
  <2>2. Passed(a, b, p)
    BY <1>1, <2>1 DEF Passed, SameReadings, RunType
  <2>3. /\ b.charged = a.charged \cup {p} /\ b.inFlight = a.inFlight
        /\ b.dropped = a.dropped \cup {p}
    BY <1>1, <2>1 DEF RunType
  <2> QED BY <1>1, <2>1, <2>2, <2>3 DEF a, b
<1>4. CASE Call(j, p)
  <2>1. b = [[a EXCEPT !.charged = Charged(a, p), !.inFlight = @ \cup {p}] EXCEPT !.todo = @ \ {p}]
    BY <1>2, <1>4 DEF Call, a
  <2>2. Passed(a, b, p)
    BY <1>1, <2>1 DEF Passed, SameReadings, RunType
  <2>3. /\ b.charged = a.charged \cup {p} /\ b.inFlight = a.inFlight \cup {p}
        /\ b.dropped = a.dropped
    BY <1>1, <2>1 DEF RunType, Charged
  <2> QED BY <1>1, <2>2, <2>3 DEF a, b
<1> QED BY <1>3, <1>4

\* A call comes back.
CameBack(a, b, p) ==
  /\ p \in a.inFlight /\ b.inFlight = a.inFlight \ {p} /\ b.todo = a.todo
  /\ SameReadings(a, b)
  /\ b.charged = a.charged /\ b.dropped = a.dropped
  /\ b.capped = a.capped /\ b.refused = a.refused
  /\ a.hung \subseteq b.hung /\ a.retryable \subseteq b.retryable

LEMMA AnswerMoves ==
  ASSUME TypeOK, NEW j \in Jobs, NEW p \in Posts, Answer(j, p)
  PROVE  LET a == jobs[j].run  b == jobs'[j].run IN
         /\ CameBack(a, b, p)
         /\ \/ /\ b.made = a.made \cup {p} /\ scored'[a.version][p] > 0
               /\ HighAnswer(j, p)
            \/ b.made = a.made /\ scored'[a.version][p] > 0 /\ cards' = cards
            \/ b.made = a.made /\ p \in b.retryable /\ cards' = cards
<1> DEFINE a == jobs[j].run
           b == jobs'[j].run
<1>1. /\ jobs[j] # None /\ jobs[j] \in JobType /\ a \in RunType /\ p \in a.inFlight
      /\ a.version \in Versions
  BY DEF Answer, TypeOK, JobType, RunType
<1>2. ASSUME NEW next, jobs' = [jobs EXCEPT ![j].run = next]
      PROVE  b = next
  BY <1>1, <1>2 DEF TypeOK, JobType
<1>3. scored[a.version][p] \in Nat
  BY <1>1 DEF TypeOK
<1> HIDE DEF a, b
<1>4. CASE FailedAnswer(j, p)
  <2>1. b = [Back(a, p) EXCEPT !.retryable = @ \cup {p}] /\ cards' = cards
    BY <1>2, <1>4 DEF FailedAnswer, a
  <2>2. CameBack(a, b, p) /\ b.made = a.made /\ p \in b.retryable
    BY <1>1, <2>1 DEF CameBack, SameReadings, Back, RunType
  <2> QED BY <2>1, <2>2 DEF a, b
<1>5. CASE LowAnswer(j, p)
  <2>1. b = [Back(a, p) EXCEPT !.low = @ \cup {p}] /\ cards' = cards
    BY <1>2, <1>5 DEF LowAnswer, a
  <2>2. scored'[a.version][p] > 0
    BY <1>1, <1>3, <1>5 DEF LowAnswer, TypeOK, a
  <2>3. CameBack(a, b, p) /\ b.made = a.made
    BY <1>1, <2>1 DEF CameBack, SameReadings, Back, RunType
  <2> QED BY <2>1, <2>2, <2>3 DEF a, b
<1>6. CASE HighAnswer(j, p)
  <2> DEFINE more == {<<q, p>> : q \in ((a.scored \ a.carded) \cap Others(a, p))
                                   \cup {q \in a.low : Words[p] # None /\ Words[q] = Words[p]}}
             next == [Back(a, p) EXCEPT !.made = @ \cup {p}, !.hung = @ \cup more]
  <2>1. jobs' = [jobs EXCEPT ![j].run = next]
    BY <1>6 DEF HighAnswer, a
  <2> HIDE DEF more, next
  <2>2. b = [Back(a, p) EXCEPT !.made = @ \cup {p}, !.hung = @ \cup more]
    BY <1>2, <2>1 DEF next
  <2>3. scored'[a.version][p] > 0
    BY <1>1, <1>3, <1>6 DEF HighAnswer, TypeOK, a
  <2>4. CameBack(a, b, p) /\ b.made = a.made \cup {p}
    BY <1>1, <2>2 DEF CameBack, SameReadings, Back, RunType
  <2> QED BY <1>6, <2>3, <2>4 DEF a, b
<1> QED BY <1>4, <1>5, <1>6 DEF Answer

\* The steps that change where a run is, and at most what it says was left.
Moved(a, b) ==
  /\ SameReadings(a, b)
  /\ b.todo = a.todo /\ b.inFlight = a.inFlight /\ b.made = a.made /\ b.charged = a.charged
  /\ b.dropped = a.dropped /\ b.capped = a.capped /\ b.refused = a.refused
  /\ b.hung = a.hung /\ b.retryable = a.retryable

LEMMA PlaceMoves ==
  ASSUME TypeOK, NEW j \in Jobs,
         (\E p \in Posts : StopAtBudget(j, p)) \/ EndLoop(j) \/ WriteCopies(j) \/ WriteDrops(j)
  PROVE  LET a == jobs[j].run  b == jobs'[j].run
             here == jobs[j].pc  there == jobs'[j].pc IN
         /\ Moved(a, b) /\ Active(j)
         /\ \/ here = "loop" /\ there = "stopping" /\ a.todo # {}
            \/ here = "loop" /\ there = "copies" /\ a.inFlight = {} /\ a.todo = {}
            \/ here = "stopping" /\ there = "copies" /\ a.inFlight = {} /\ b.left = Left(a)
            \/ here = "copies" /\ there = "drops" /\ WriteCopies(j) /\ b.left = a.left
            \/ here = "drops" /\ there = "end" /\ WriteDrops(j) /\ b.left = a.left
<1> DEFINE a == jobs[j].run
           b == jobs'[j].run
           here == jobs[j].pc
           there == jobs'[j].pc
<1>1. /\ jobs[j] # None /\ jobs[j] \in JobType /\ a \in RunType
      /\ here \in {"loop", "stopping", "copies", "drops"} /\ Active(j)
  BY DEF StopAtBudget, MayCall, AtPost, EndLoop, WriteCopies, WriteDrops, Active, TypeOK, JobType
<1>2. ASSUME NEW pc \in {"stopping", "copies", "drops", "end"}, jobs' = [jobs EXCEPT ![j].pc = pc]
      PROVE  Moved(a, b) /\ b = a /\ there = pc
  BY <1>1, <1>2 DEF Moved, SameReadings, TypeOK, JobType
<1>3. CASE \E p \in Posts : StopAtBudget(j, p)
  <2>1. PICK p \in Posts : StopAtBudget(j, p)
    BY <1>3
  <2>2. a.todo # {} /\ here = "loop" /\ jobs' = [jobs EXCEPT ![j].pc = "stopping"]
    BY <2>1 DEF StopAtBudget, MayCall, AtPost
  <2> QED BY <1>1, <1>2, <2>2
<1>4. CASE EndLoop(j)
  <2>1. CASE here = "loop" /\ a.todo = {} /\ jobs' = [jobs EXCEPT ![j].pc = "copies"]
    BY <1>1, <1>2, <1>4, <2>1 DEF EndLoop
  <2>2. CASE /\ here = "stopping"
             /\ jobs' = [jobs EXCEPT ![j].pc = "copies", ![j].run.left = Left(jobs[j].run)]
    <3>1. b = [a EXCEPT !.left = Left(a)] /\ there = "copies"
      BY <1>1, <2>2 DEF TypeOK, JobType
    <3> HIDE DEF a, b, here, there
    <3>2. Moved(a, b) /\ b.left = Left(a)
      BY <1>1, <3>1 DEF Moved, SameReadings, RunType
    <3> QED BY <1>1, <1>4, <2>2, <3>1, <3>2 DEF a, b, here, there, EndLoop
  <2> QED BY <1>4, <2>1, <2>2 DEF EndLoop
<1>5. CASE WriteCopies(j)
  BY <1>1, <1>2, <1>5 DEF WriteCopies
<1>6. CASE WriteDrops(j)
  BY <1>1, <1>2, <1>6 DEF WriteDrops
<1> QED BY <1>3, <1>4, <1>5, <1>6

---------------------------------------------------------------------------
\* What became of the posts of a batch.

\* Each post that is ahead, in flight, on a card of the run or given up is in one place.
InOnePlace(run) ==
  /\ run.todo \cup run.inFlight \cup run.made \cup run.dropped \subseteq run.candidates
  /\ run.todo \cap (run.inFlight \cup run.made \cup run.dropped) = {}
  /\ run.inFlight \cap (run.made \cup run.dropped) = {}
  /\ run.made \cap run.dropped = {}

\* A post that the run holds in memory: ahead, in flight or without an answer, and until
\* they are written, among its drops and its copies.
InMemory(pc, run, p) ==
  \/ p \in run.todo \cup run.inFlight \cup run.retryable
  \/ pc \in {"loop", "stopping", "copies", "drops"} /\ p \in run.capped \cup run.refused
  \/ pc \in {"loop", "stopping", "copies"} /\ \E card \in Posts : <<p, card>> \in run.hung

\* What the run read in the tables.
Noted(run, p) == Known(run, p) \/ GivenUp(run, p)

\* A run leaves its loop with no post ahead, or with a count of those it leaves.
LeavesKnowing(pc, run) ==
  /\ pc = "stopping" => run.todo # {}
  /\ pc \in {"copies", "drops", "end"} =>
       run.inFlight = {} /\ (run.todo = {} \/ run.retryable # {} \/ run.left > 0)

\* A run whose version has settled the posts in done loses no post of its batch.
Dealt(job, done) ==
  /\ InOnePlace(job.run) /\ LeavesKnowing(job.pc, job.run)
  /\ \A p \in Posts : Noted(job.run, p) => p \in done
  /\ job.batch \subseteq job.run.candidates \cup done
  /\ \A p \in job.run.candidates : InMemory(job.pc, job.run, p) \/ p \in done

SettledAt(v) == {p \in Posts : Settled(p, v)}

DealtInv ==
  /\ TypeOK /\ DoneIsSettled
  /\ \A j \in Jobs : Active(j) => Dealt(jobs[j], SettledAt(jobs[j].run.version))

\* What is settled stays so: the tables only grow.
LEMMA SettledStays ==
  ASSUME TypeOK, [Next]_vars, NEW v \in Versions
  PROVE  SettledAt(v) \subseteq SettledAt(v)'
<1> DEFINE Grows == /\ \A p \in Posts : scored[v][p] <= scored'[v][p] /\ failed[v][p] <= failed'[v][p]
                    /\ deleted \subseteq deleted' /\ Copied \subseteq Copied' /\ drops \subseteq drops'
<1>1. \A p \in Posts : scored[v][p] \in Nat /\ failed[v][p] \in Nat
  BY DEF TypeOK
<1>2. ASSUME Grows PROVE SettledAt(v) \subseteq SettledAt(v)'
  <2>1. \A p \in Posts : /\ scored'[v][p] > 0 \/ ~(scored[v][p] > 0)
                         /\ failed'[v][p] >= MaxAttempts \/ ~(failed[v][p] >= MaxAttempts)
    <3>1. TypeOK'
      BY TypeStep
    <3>2. \A p \in Posts : scored'[v][p] \in Nat /\ failed'[v][p] \in Nat
      BY <3>1 DEF TypeOK
    <3>3. MaxAttempts \in Nat
      BY ClassifyAssumption
    <3> QED BY <1>1, <1>2, <3>2, <3>3
  <2> QED BY <1>2, <2>1 DEF SettledAt, Settled
<1>3. CASE UNCHANGED <<scored, failed, copies, drops>> /\ deleted \subseteq deleted'
  BY <1>1, <1>2, <1>3 DEF Copied
<1>4. ASSUME NEW j \in Jobs, NEW p \in Posts, Answer(j, p) PROVE Grows
  <2>1. jobs[j].run.version \in Versions
    BY <1>4 DEF Answer, TypeOK, JobType, RunType
  <2>2. UNCHANGED <<copies, drops, deleted>>
    BY <1>4 DEF Answer, FailedAnswer, LowAnswer, HighAnswer
  <2>3. \A q \in Posts : /\ scored'[v][q] \in {scored[v][q], scored[v][q] + 1}
                         /\ failed'[v][q] \in {failed[v][q], failed[v][q] + 1}
    <3>1. CASE FailedAnswer(j, p)
      BY <2>1, <3>1 DEF FailedAnswer, TypeOK
    <3>2. CASE LowAnswer(j, p)
      BY <2>1, <3>2 DEF LowAnswer, TypeOK
    <3>3. CASE HighAnswer(j, p)
      BY <2>1, <3>3 DEF HighAnswer, TypeOK
    <3> QED BY <1>4, <3>1, <3>2, <3>3 DEF Answer
  <2> QED BY <1>1, <2>2, <2>3 DEF Copied
<1>5. ASSUME NEW j \in Jobs, WriteCopies(j) PROVE Grows
  <2>1. UNCHANGED <<scored, failed, drops, deleted>>
    BY <1>5 DEF WriteCopies
  <2>2. Copied \subseteq Copied'
    BY <1>5 DEF WriteCopies, Copied
  <2> QED BY <1>1, <2>1, <2>2
<1>6. ASSUME NEW j \in Jobs, WriteDrops(j) PROVE Grows
  <2>1. UNCHANGED <<scored, failed, copies, deleted>> /\ drops \subseteq drops'
    BY <1>6 DEF WriteDrops
  <2> QED BY <1>1, <2>1 DEF Copied
<1>7. CASE UNCHANGED vars
  BY <1>3, <1>7 DEF vars
<1>8. ASSUME Next PROVE SettledAt(v) \subseteq SettledAt(v)'
  <2>1. CASE BeginWalk \/ Redefine \/ \E p \in Posts : DeletePost(p)
    BY <1>3, <2>1 DEF BeginWalk, Redefine, DeletePost
  <2>2. ASSUME NEW j \in Jobs, NEW batch, NEW walk, HandBatch(j, batch, walk)
        PROVE  SettledAt(v) \subseteq SettledAt(v)'
    BY <1>3, <2>2 DEF HandBatch
  <2>3. ASSUME NEW j \in Jobs, Step(j) \/ Crash(j)
        PROVE  SettledAt(v) \subseteq SettledAt(v)'
    <3>1. CASE \E p \in Posts : Answer(j, p)
      BY <1>2, <1>4, <3>1
    <3>2. CASE WriteCopies(j) \/ WriteDrops(j)
      BY <1>2, <1>5, <1>6, <3>2
    <3>3. CASE \/ RefuseWithoutModel(j) \/ Start(j) \/ EndLoop(j) \/ Finish(j) \/ Crash(j)
               \/ \E p \in Posts : StopAtBudget(j, p)
      BY <1>3, <3>3 DEF RefuseWithoutModel, Start, EndLoop, Finish, Crash, StopAtBudget
    <3>4. CASE \E p \in Posts : \/ SkipKnown(j, p) \/ HangOnCard(j, p) \/ LeaveAtCap(j, p)
                                \/ RefuseAtCeiling(j, p) \/ GiveUp(j, p) \/ Call(j, p)
      <4>1. UNCHANGED <<scored, failed, copies, drops, deleted>>
        <5>1. \E p \in Posts : \E next : GoOn(j, p, next)
          BY <3>4, Zenon DEF SkipKnown, HangOnCard, LeaveAtCap, RefuseAtCeiling, GiveUp, Call
        <5> QED BY <5>1, Zenon DEF GoOn
      <4> QED BY <1>3, <4>1
    <3> QED BY <2>3, <3>1, <3>2, <3>3, <3>4 DEF Step
  <2> QED BY <1>8, <2>1, <2>2, <2>3 DEF Next
<1> QED BY <1>7, <1>8

\* More settled posts do no harm.
LEMMA DealtMore ==
  ASSUME NEW job, NEW done, NEW more, done \subseteq more, Dealt(job, done)
  PROVE  Dealt(job, more)
BY DEF Dealt

\* A step of a job leaves the other jobs, and its own batch and walk.
OnlyJob(j) ==
  /\ \A i \in Jobs : i # j => jobs'[i] = jobs[i]
  /\ jobs'[j].batch = jobs[j].batch /\ jobs'[j].walk = jobs[j].walk

LEMMA OneJobSteps ==
  ASSUME TypeOK, NEW j \in Jobs, Step(j) \/ Crash(j)
  PROVE  /\ OnlyJob(j) /\ jobs[j] # None /\ jobs[j] \in JobType /\ jobs[j].run \in RunType
         /\ (\E p \in Posts : Answer(j, p)) => jobs'[j].pc = jobs[j].pc
         /\ (\E p \in Posts : \/ SkipKnown(j, p) \/ HangOnCard(j, p) \/ LeaveAtCap(j, p)
                              \/ RefuseAtCeiling(j, p) \/ GiveUp(j, p) \/ Call(j, p))
              => jobs'[j].pc = "loop" /\ jobs[j].pc = "loop"
<1>1. jobs[j] # None /\ jobs[j] \in JobType /\ jobs[j].run \in RunType
  <2>1. ASSUME NEW p \in Posts, AtPost(j, p) \/ MayCall(j, p) \/ Answer(j, p) PROVE jobs[j] # None
    BY <2>1 DEF AtPost, MayCall, Answer
  <2>2. CASE RefuseWithoutModel(j) \/ Start(j) \/ EndLoop(j) \/ WriteCopies(j) \/ WriteDrops(j)
             \/ Finish(j) \/ Crash(j)
    BY <2>2 DEF RefuseWithoutModel, Start, EndLoop, WriteCopies, WriteDrops, Finish, Crash, Active,
                TypeOK, JobType
  <2>3. CASE \E p \in Posts : AtPost(j, p) \/ MayCall(j, p) \/ Answer(j, p)
    BY <2>1, <2>3 DEF TypeOK, JobType
  <2> QED
    BY <2>2, <2>3, Zenon DEF Step, SkipKnown, HangOnCard, LeaveAtCap, StopAtBudget, RefuseAtCeiling,
                             GiveUp, Call
<1>2. ASSUME NEW next, jobs' = [jobs EXCEPT ![j].run = next]
      PROVE  OnlyJob(j) /\ jobs'[j].pc = jobs[j].pc
  BY <1>1, <1>2 DEF OnlyJob, TypeOK, JobType
<1>3. ASSUME NEW pc, jobs' = [jobs EXCEPT ![j].pc = pc]
      PROVE  OnlyJob(j)
  BY <1>1, <1>3 DEF OnlyJob, TypeOK, JobType
<1>4. ASSUME NEW pc, NEW outcome, jobs' = [jobs EXCEPT ![j].pc = pc, ![j].outcome = outcome]
      PROVE  OnlyJob(j)
  BY <1>1, <1>4 DEF OnlyJob, TypeOK, JobType
<1>5. ASSUME NEW pc, NEW next, jobs' = [jobs EXCEPT ![j].pc = pc, ![j].run = next]
      PROVE  OnlyJob(j)
  BY <1>1, <1>5 DEF OnlyJob, TypeOK, JobType
<1>6. ASSUME TryAgain(j) PROVE OnlyJob(j)
  BY <1>1, <1>6 DEF OnlyJob, TypeOK, JobType, TryAgain
<1>7. ASSUME NEW p \in Posts,
             \/ SkipKnown(j, p) \/ HangOnCard(j, p) \/ LeaveAtCap(j, p)
             \/ RefuseAtCeiling(j, p) \/ GiveUp(j, p) \/ Call(j, p)
      PROVE  OnlyJob(j) /\ jobs'[j].pc = "loop" /\ jobs[j].pc = "loop"
  <2>1. jobs[j].pc = "loop"
    BY <1>7 DEF SkipKnown, HangOnCard, LeaveAtCap, RefuseAtCeiling, GiveUp, Call, MayCall, AtPost
  <2>2. \E next : GoOn(j, p, next)
    BY <1>7, Zenon DEF SkipKnown, HangOnCard, LeaveAtCap, RefuseAtCeiling, GiveUp, Call
  <2>3. \E next : jobs' = [jobs EXCEPT ![j].run = next]
    BY <2>2 DEF GoOn
  <2> QED BY <1>2, <2>1, <2>3
<1>8. ASSUME NEW p \in Posts, Answer(j, p)
      PROVE  OnlyJob(j) /\ jobs'[j].pc = jobs[j].pc
  <2>1. \E next : jobs' = [jobs EXCEPT ![j].run = next]
    BY <1>8, Zenon DEF Answer, FailedAnswer, LowAnswer, HighAnswer
  <2> QED BY <1>2, <2>1
<1>9. ASSUME RefuseWithoutModel(j) PROVE OnlyJob(j)
  BY <1>4, <1>9 DEF RefuseWithoutModel
<1>10. ASSUME Start(j) PROVE OnlyJob(j)
  <2>1. \E next : jobs' = [jobs EXCEPT ![j].pc = "loop", ![j].run = next]
    BY <1>10, Zenon DEF Start
  <2> QED BY <1>5, <2>1
<1>11. ASSUME \E p \in Posts : StopAtBudget(j, p) PROVE OnlyJob(j)
  BY <1>3, <1>11 DEF StopAtBudget
<1>12. ASSUME EndLoop(j) PROVE OnlyJob(j)
  <2>1. ASSUME jobs' = [jobs EXCEPT ![j].pc = "copies", ![j].run.left = Left(jobs[j].run)]
        PROVE  OnlyJob(j)
    BY <1>1, <2>1 DEF OnlyJob, TypeOK, JobType
  <2> QED BY <1>3, <1>12, <2>1 DEF EndLoop
<1>13. ASSUME WriteCopies(j) \/ WriteDrops(j) PROVE OnlyJob(j)
  BY <1>3, <1>13 DEF WriteCopies, WriteDrops
<1>14. ASSUME Finish(j) PROVE OnlyJob(j)
  BY <1>4, <1>6, <1>14 DEF Finish
<1>15. ASSUME Crash(j) PROVE OnlyJob(j)
  BY <1>6, <1>15 DEF Crash
<1>16. OnlyJob(j)
  BY <1>7, <1>8, <1>9, <1>10, <1>11, <1>12, <1>13, <1>14, <1>15 DEF Step
<1> QED BY <1>1, <1>7, <1>8, <1>16

\* A run that goes past a post, a call that comes back, and a run that moves on.
LEMMA DealtPasses ==
  ASSUME NEW job, NEW next, NEW done, NEW p \in Posts, Dealt(job, done),
         job.pc = "loop", next.pc = "loop", next.batch = job.batch,
         Passed(job.run, next.run, p), job.run.inFlight \subseteq next.run.inFlight,
         InOnePlace(next.run), InMemory("loop", next.run, p) \/ p \in done
  PROVE  Dealt(next, done)
<1> DEFINE a == job.run
           b == next.run
<1>1. \A q \in a.candidates : q # p /\ InMemory("loop", a, q) => InMemory("loop", b, q)
  BY DEF InMemory, Passed
<1>2. \A q : Noted(b, q) = Noted(a, q)
  BY DEF Noted, Known, GivenUp, Passed, SameReadings
<1>3. b.candidates = a.candidates
  BY DEF Passed, SameReadings
<1>4. LeavesKnowing("loop", b)
  BY DEF LeavesKnowing
<1> HIDE DEF a, b
<1> QED BY <1>1, <1>2, <1>3, <1>4 DEF Dealt, a, b

LEMMA DealtComesBack ==
  ASSUME NEW job, NEW next, NEW done, NEW more, done \subseteq more, NEW p \in Posts,
         Dealt(job, done), job.pc \in {"loop", "stopping"}, next.pc = job.pc,
         next.batch = job.batch, CameBack(job.run, next.run, p),
         next.run.made \in {job.run.made, job.run.made \cup {p}},
         p \in next.run.retryable \/ p \in more
  PROVE  Dealt(next, more)
<1> DEFINE a == job.run
           b == next.run
<1>1. \A q \in a.candidates : q # p /\ InMemory(job.pc, a, q) => InMemory(job.pc, b, q)
  BY DEF InMemory, CameBack
<1>2. InMemory(job.pc, b, p) \/ p \in more
  BY DEF InMemory
<1>3. (\A q : Noted(b, q) = Noted(a, q)) /\ b.candidates = a.candidates
  BY DEF Noted, Known, GivenUp, CameBack, SameReadings
<1>4. LeavesKnowing(next.pc, b)
  BY DEF LeavesKnowing, CameBack, Dealt
<1>5. InOnePlace(b)
  BY DEF InOnePlace, CameBack, SameReadings, Dealt
<1> HIDE DEF a, b
<1>6. /\ \A q \in Posts : Noted(a, q) => q \in more
      /\ job.batch \subseteq a.candidates \cup more
      /\ \A q \in a.candidates : InMemory(job.pc, a, q) \/ q \in more
  BY DEF Dealt, a
<1> QED BY <1>1, <1>2, <1>3, <1>4, <1>5, <1>6 DEF Dealt, b

\* What is left is counted: more than nothing, with a post ahead and none unanswered.
LEMMA LeftIsSome ==
  ASSUME NEW run \in RunType, InOnePlace(run), run.todo # {}, run.retryable = {}
  PROVE  Left(run) > 0
<1> DEFINE made == run.made \ run.carded
<1>1. /\ run.candidates \in SUBSET Posts /\ run.todo \in SUBSET Posts /\ made \in SUBSET Posts
      /\ run.dropped \in SUBSET Posts
  BY DEF RunType
<1>2. /\ IsFiniteSet(run.candidates) /\ IsFiniteSet(run.todo) /\ IsFiniteSet(made)
      /\ IsFiniteSet(run.dropped)
  BY <1>1, ClassifyAssumption, FS_Subset
<1>3. /\ Cardinality(run.candidates) \in Nat /\ Cardinality(run.todo) \in Nat
      /\ Cardinality(made) \in Nat /\ Cardinality(run.dropped) \in Nat
  BY <1>2, FS_CardinalityType
<1>4. /\ made \cap run.dropped = {} /\ (made \cup run.dropped) \cap run.todo = {}
      /\ (made \cup run.dropped) \cup run.todo \subseteq run.candidates
  BY DEF InOnePlace
<1> HIDE DEF made
<1>5. /\ IsFiniteSet(made \cup run.dropped)
      /\ Cardinality(made \cup run.dropped) = Cardinality(made) + Cardinality(run.dropped)
  <2>1. /\ IsFiniteSet(made \cup run.dropped)
        /\ Cardinality(made \cup run.dropped)
             = Cardinality(made) + Cardinality(run.dropped) - Cardinality(made \cap run.dropped)
    BY <1>2, FS_Union
  <2>2. Cardinality(made \cap run.dropped) = 0
    BY <1>4, FS_EmptySet
  <2> QED BY <1>3, <2>1, <2>2
<1>6. Cardinality((made \cup run.dropped) \cup run.todo)
        = Cardinality(made) + Cardinality(run.dropped) + Cardinality(run.todo)
  <2>1. Cardinality((made \cup run.dropped) \cup run.todo)
          = Cardinality(made \cup run.dropped) + Cardinality(run.todo)
              - Cardinality((made \cup run.dropped) \cap run.todo)
    BY <1>2, <1>5, FS_Union
  <2>2. Cardinality((made \cup run.dropped) \cap run.todo) = 0
    BY <1>4, FS_EmptySet
  <2> QED BY <1>3, <1>5, <2>1, <2>2
<1>7. Cardinality((made \cup run.dropped) \cup run.todo) <= Cardinality(run.candidates)
  BY <1>2, <1>4, FS_Subset
<1>8. Cardinality(run.todo) # 0 /\ Cardinality(run.retryable) = 0
  BY <1>2, FS_EmptySet
<1> QED BY <1>3, <1>6, <1>7, <1>8 DEF Left, made

LEMMA DealtMoves ==
  ASSUME NEW job, job.run \in RunType, NEW next, NEW done, NEW more, done \subseteq more,
         Dealt(job, done), next.batch = job.batch, Moved(job.run, next.run),
         \/ job.pc = "loop" /\ next.pc = "stopping" /\ job.run.todo # {}
         \/ job.pc = "loop" /\ next.pc = "copies" /\ job.run.inFlight = {} /\ job.run.todo = {}
         \/ /\ job.pc = "stopping" /\ next.pc = "copies" /\ job.run.inFlight = {}
            /\ next.run.left = Left(job.run)
         \/ /\ job.pc = "copies" /\ next.pc = "drops" /\ next.run.left = job.run.left
            /\ \A p \in Posts : (\E card \in Posts : <<p, card>> \in job.run.hung) => p \in more
         \/ /\ job.pc = "drops" /\ next.pc = "end" /\ next.run.left = job.run.left
            /\ job.run.capped \cup job.run.refused \subseteq more
  PROVE  Dealt(next, more)
<1> DEFINE a == job.run
           b == next.run
<1>1. (\A q : Noted(b, q) = Noted(a, q)) /\ b.candidates = a.candidates
  BY DEF Noted, Known, GivenUp, Moved, SameReadings
<1>2. InOnePlace(b)
  BY DEF InOnePlace, Moved, SameReadings, Dealt
<1>3. a.todo # {} /\ a.retryable = {} => Left(a) > 0
  BY LeftIsSome DEF Dealt
<1>4. LeavesKnowing(next.pc, b)
  BY <1>3 DEF LeavesKnowing, Moved, Dealt
<1>5. a.candidates \subseteq Posts
  BY DEF RunType
<1>6. \A q \in a.candidates : InMemory(job.pc, a, q) => InMemory(next.pc, b, q) \/ q \in more
  BY <1>5 DEF InMemory, Moved
<1> HIDE DEF a, b
<1>7. /\ \A q \in Posts : Noted(a, q) => q \in more
      /\ job.batch \subseteq a.candidates \cup more
      /\ \A q \in a.candidates : InMemory(job.pc, a, q) \/ q \in more
  BY DEF Dealt, a
<1> QED BY <1>1, <1>2, <1>4, <1>6, <1>7 DEF Dealt, b

\* A run that ends without a post unanswered or left behind has settled its batch.
LEMMA EndIsSettled ==
  ASSUME NEW job, NEW done, Dealt(job, done), job.pc = "end",
         ~Unanswered(job.run), Outcome(job.run) # "refused"
  PROVE  job.batch \subseteq done
<1>1. job.run.retryable = {} /\ ~(job.run.left > 0)
  BY DEF Unanswered, Outcome
<1>2. job.run.todo = {} /\ job.run.inFlight = {}
  BY <1>1 DEF Dealt, LeavesKnowing
<1>3. \A p \in job.run.candidates : ~InMemory("end", job.run, p)
  BY <1>1, <1>2 DEF InMemory
<1> QED BY <1>3 DEF Dealt

\* A run begins with every post of its batch ahead of it, or settled.
LEMMA StartDeals ==
  ASSUME TypeOK, NEW j \in Jobs, Start(j)
  PROVE  jobs'[j].run.version = version /\ Dealt(jobs'[j], SettledAt(version))
<1> DEFINE run == jobs'[j].run
           done == SettledAt(version)
<1>1. /\ jobs[j] \in JobType /\ jobs[j].batch \subseteq Posts /\ version \in Versions
      /\ failed[version] \in [Posts -> Nat]
  BY DEF Start, TypeOK, JobType
<1>2. /\ run.version = version /\ run.scored = {p \in Posts : scored[version][p] > 0}
      /\ run.failures = failed[version] /\ run.copied = Copied
      /\ run.candidates = Candidates(jobs[j].batch) /\ run.todo = Candidates(jobs[j].batch)
      /\ run.inFlight = {} /\ run.made = {} /\ run.dropped = {}
      /\ jobs'[j].pc = "loop" /\ jobs'[j].batch = jobs[j].batch
  BY <1>1 DEF Start, TypeOK, JobType, Blank
<1> HIDE DEF run
<1>3. InOnePlace(run)
  BY <1>2 DEF InOnePlace
<1>4. LeavesKnowing(jobs'[j].pc, run)
  BY <1>2 DEF LeavesKnowing
<1>5. \A p \in Posts : Noted(run, p) => p \in done
  BY <1>2 DEF Noted, Known, GivenUp, SettledAt, Settled
<1>6. jobs'[j].batch \subseteq run.candidates \cup done
  BY <1>1, <1>2 DEF Candidates, SettledAt, Settled
<1>7. \A p \in run.candidates : InMemory(jobs'[j].pc, run, p)
  BY <1>2 DEF InMemory
<1> QED BY <1>2, <1>3, <1>4, <1>5, <1>6, <1>7 DEF Dealt, run

\* A running job deals with its batch, whatever it does next.
LEMMA RunDeals ==
  ASSUME TypeOK, [Next]_vars, NEW j \in Jobs, Step(j), Active(j), NEW v \in Versions,
         v = jobs[j].run.version, Dealt(jobs[j], SettledAt(v)), Active(j)'
  PROVE  jobs'[j].run.version = v /\ Dealt(jobs'[j], SettledAt(v)')
<1> DEFINE a == jobs[j].run
           b == jobs'[j].run
           done == SettledAt(v)
           more == SettledAt(v)'
<1>1. /\ OnlyJob(j) /\ jobs[j] \in JobType /\ a \in RunType
      /\ jobs'[j].batch = jobs[j].batch
  BY OneJobSteps DEF OnlyJob
<1>2. done \subseteq more
  BY SettledStays
<1>3. TypeOK'
  BY TypeStep
<1>4. CASE \E p \in Posts : \/ SkipKnown(j, p) \/ HangOnCard(j, p) \/ LeaveAtCap(j, p)
                            \/ RefuseAtCeiling(j, p)
  <2>1. PICK p \in Posts : \/ SkipKnown(j, p) \/ HangOnCard(j, p) \/ LeaveAtCap(j, p)
                           \/ RefuseAtCeiling(j, p)
    BY <1>4
  <2>2. /\ Passed(a, b, p) /\ NoCall(a, b)
        /\ Known(a, p) \/ (\E card \in Posts : <<p, card>> \in b.hung) \/ p \in b.capped \cup b.refused
    BY <2>1, PassMoves
  <2>3. jobs[j].pc = "loop" /\ jobs'[j].pc = "loop"
    BY <2>1, OneJobSteps
  <2>4. InOnePlace(b)
    BY <2>2 DEF Dealt, InOnePlace, Passed, NoCall, SameReadings
  <2>5. InMemory("loop", b, p) \/ p \in done
    BY <2>2 DEF InMemory, Dealt, Noted
  <2>6. a.inFlight \subseteq b.inFlight /\ b.version = a.version
    BY <2>2 DEF NoCall, Passed, SameReadings
  <2>7. Dealt(jobs'[j], done)
    BY <1>1, <2>2, <2>3, <2>4, <2>5, <2>6, DealtPasses
  <2> QED BY <1>2, <2>6, <2>7, DealtMore
<1>5. CASE \E p \in Posts : GiveUp(j, p) \/ Call(j, p)
  <2>1. PICK p \in Posts : GiveUp(j, p) \/ Call(j, p)
    BY <1>5
  <2>2. /\ Passed(a, b, p)
        /\ \/ b.inFlight = a.inFlight /\ b.dropped = a.dropped \cup {p} /\ GivenUp(a, p)
           \/ b.inFlight = a.inFlight \cup {p} /\ b.dropped = a.dropped
    BY <2>1, CallMoves
  <2>3. jobs[j].pc = "loop" /\ jobs'[j].pc = "loop"
    BY <2>1, OneJobSteps
  <2>4. InOnePlace(b)
    BY <2>2 DEF Dealt, InOnePlace, Passed, SameReadings
  <2>5. InMemory("loop", b, p) \/ p \in done
    BY <2>2 DEF InMemory, Dealt, Noted
  <2>6. a.inFlight \subseteq b.inFlight /\ b.version = a.version
    BY <2>2 DEF Passed, SameReadings
  <2>7. Dealt(jobs'[j], done)
    BY <1>1, <2>2, <2>3, <2>4, <2>5, <2>6, DealtPasses
  <2> QED BY <1>2, <2>6, <2>7, DealtMore
<1>6. CASE \E p \in Posts : Answer(j, p)
  <2>1. PICK p \in Posts : Answer(j, p)
    BY <1>6
  <2>2. /\ CameBack(a, b, p) /\ b.made \in {a.made, a.made \cup {p}}
        /\ p \in b.retryable \/ scored'[a.version][p] > 0
    BY <2>1, AnswerMoves
  <2>3. jobs[j].pc \in {"loop", "stopping"} /\ jobs'[j].pc = jobs[j].pc
    BY <2>1, OneJobSteps DEF Answer
  <2>4. p \in b.retryable \/ p \in more
    BY <2>2 DEF SettledAt, Settled
  <2>5. b.version = a.version
    BY <2>2 DEF CameBack, SameReadings
  <2> QED BY <1>1, <1>2, <2>2, <2>3, <2>4, <2>5, DealtComesBack
<1>7. CASE (\E p \in Posts : StopAtBudget(j, p)) \/ EndLoop(j) \/ WriteCopies(j) \/ WriteDrops(j)
  <2> DEFINE here == jobs[j].pc
             there == jobs'[j].pc
  <2>1. /\ Moved(a, b)
        /\ \/ here = "loop" /\ there = "stopping" /\ a.todo # {}
           \/ here = "loop" /\ there = "copies" /\ a.inFlight = {} /\ a.todo = {}
           \/ here = "stopping" /\ there = "copies" /\ a.inFlight = {} /\ b.left = Left(a)
           \/ here = "copies" /\ there = "drops" /\ WriteCopies(j) /\ b.left = a.left
           \/ here = "drops" /\ there = "end" /\ WriteDrops(j) /\ b.left = a.left
    BY <1>7, PlaceMoves
  <2>2. ASSUME WriteCopies(j), NEW p \in Posts, NEW card \in Posts, <<p, card>> \in a.hung
        PROVE  p \in more
    <3> DEFINE on == {one \in Posts : <<p, one>> \in a.hung}
    <3>1. copies'[p] = IF copies[p] # None \/ on = {} THEN copies[p] ELSE CHOOSE one \in on : TRUE
      BY <2>2 DEF WriteCopies
    <3>2. card \in on /\ on \subseteq Posts
      BY <2>2
    <3> HIDE DEF on
    <3>3. None \notin Posts
      BY ClassifyAssumption
    <3>4. copies'[p] # None
      BY <3>1, <3>2, <3>3
    <3> QED BY <3>4 DEF SettledAt, Settled, Copied
  <2>3. ASSUME WriteDrops(j) PROVE a.capped \cup a.refused \subseteq more
    <3>1. a.capped \subseteq Posts /\ a.refused \subseteq Posts
      BY <1>1 DEF RunType
    <3>2. \A p \in a.capped \cup a.refused : \E d \in drops' : d[1] = p
      <4>1. ASSUME NEW p \in a.capped \cup a.refused
            PROVE  <<p, "ceiling", None>> \in drops' \/ <<p, "match_cap", jobs[j].walk>> \in drops'
        BY <2>3, <4>1 DEF WriteDrops
      <4> QED BY <4>1
    <3> QED BY <3>1, <3>2 DEF SettledAt, Settled
  <2>4. b.version = a.version
    BY <2>1 DEF Moved, SameReadings
  <2> HIDE DEF a, b, more, done
  <2>5. Dealt(jobs'[j], more)
    BY <1>1, <1>2, <2>1, <2>2, <2>3, DealtMoves DEF a, b, done
  <2> QED BY <2>4, <2>5 DEF a, b, more
<1>8. ~(RefuseWithoutModel(j) \/ Start(j))
  BY DEF Active, RefuseWithoutModel, Start
<1>9. ~Finish(j)
  <2>1. ASSUME jobs' = [jobs EXCEPT ![j].pc = "done", ![j].outcome = Outcome(jobs[j].run)]
        PROVE  FALSE
    BY <1>1, <2>1 DEF Active, TypeOK, JobType
  <2>2. ~TryAgain(j)
    BY TryAgainStops DEF Active
  <2> QED BY <2>1, <2>2 DEF Finish
<1> QED BY <1>4, <1>5, <1>6, <1>7, <1>8, <1>9 DEF Step

\* A job that ended has settled its batch.
Done(j) ==
  jobs[j] # None /\ jobs[j].pc = "done" /\ jobs[j].outcome # "refused" =>
    \A p \in jobs[j].batch : Settled(p, jobs[j].run.version)

\* What a job that is done was done with.
LEMMA DoneAfter ==
  ASSUME DealtInv, [Next]_vars, TypeOK', NEW j \in Jobs, NEW v \in Versions, NEW p \in Posts,
         Step(j) \/ Crash(j), jobs'[j] # None, jobs'[j].pc = "done",
         jobs'[j].outcome # "refused", jobs'[j].run.version = v, p \in jobs'[j].batch
  PROVE  p \in SettledAt(v)'
<1>1. /\ TypeOK /\ OnlyJob(j) /\ jobs[j] # None /\ jobs[j] \in JobType /\ jobs'[j].batch = jobs[j].batch
  BY OneJobSteps DEF OnlyJob, DealtInv
<1>2. CASE Finish(j)
  <2>1. ASSUME TryAgain(j) PROVE FALSE
    <3>1. jobs'[j].pc \in {"queued", "dead"}
      BY <1>1, <2>1 DEF TryAgain, TypeOK, JobType
    <3> QED BY <3>1
  <2>2. ~Unanswered(jobs[j].run) /\ jobs[j].pc = "end" /\ Active(j)
    BY <1>1, <1>2, <2>1 DEF Finish, Active
  <2>3. jobs'[j].outcome = Outcome(jobs[j].run) /\ jobs'[j].run = jobs[j].run
    BY <1>1, <1>2, <2>2 DEF Finish, TypeOK, JobType
  <2>4. Dealt(jobs[j], SettledAt(v))
    BY <2>2, <2>3 DEF DealtInv
  <2>5. jobs[j].batch \subseteq SettledAt(v)
    BY <2>2, <2>3, <2>4, EndIsSettled
  <2> QED BY <1>1, <2>5, SettledStays DEF DealtInv
<1>3. CASE RefuseWithoutModel(j)
  BY <1>1, <1>3 DEF RefuseWithoutModel, TypeOK, JobType
<1>4. CASE ~Finish(j) /\ ~RefuseWithoutModel(j)
  <2>1. jobs'[j].pc # "done"
    <3>1. ASSUME NEW q \in Posts, \/ SkipKnown(j, q) \/ HangOnCard(j, q) \/ LeaveAtCap(j, q)
                                  \/ RefuseAtCeiling(j, q) \/ GiveUp(j, q) \/ Call(j, q)
          PROVE  jobs'[j].pc # "done"
      <4>1. jobs'[j].pc = "loop"
        BY <3>1, OneJobSteps DEF DealtInv
      <4> QED BY <4>1
    <3>2. ASSUME NEW q \in Posts, Answer(j, q) PROVE jobs'[j].pc # "done"
      <4>1. jobs'[j].pc = jobs[j].pc /\ jobs[j].pc \in {"loop", "stopping"}
        BY <3>2, OneJobSteps DEF Answer, DealtInv
      <4> QED BY <4>1
    <3>3. CASE (\E q \in Posts : StopAtBudget(j, q)) \/ EndLoop(j) \/ WriteCopies(j) \/ WriteDrops(j)
      <4>1. jobs'[j].pc \in {"stopping", "copies", "drops", "end"}
        BY <3>3, PlaceMoves DEF DealtInv
      <4> QED BY <4>1
    <3>4. CASE Start(j)
      <4>1. jobs'[j].pc = "loop"
        <5>1. \E next : jobs' = [jobs EXCEPT ![j].pc = "loop", ![j].run = next]
          BY <3>4, Zenon DEF Start
        <5> QED BY <1>1, <5>1 DEF TypeOK, JobType
      <4> QED BY <4>1
    <3>5. CASE Crash(j)
      BY <1>1, <3>5 DEF Crash, TryAgain, TypeOK, JobType
    <3> QED BY <1>4, <3>1, <3>2, <3>3, <3>4, <3>5 DEF Step
  <2> QED BY <2>1
<1> QED BY <1>2, <1>3, <1>4

\* A job that no step changes stays as it was.
LEMMA OthersAsBefore ==
  ASSUME DealtInv, [Next]_vars, TypeOK', NEW i \in Jobs, jobs'[i] = jobs[i]
  PROVE  /\ Active(i)' => Dealt(jobs[i], SettledAt(jobs[i].run.version))'
         /\ Done(i)'
<1>1. CASE jobs[i] = None
  BY <1>1 DEF Active, Done
<1>2. CASE jobs[i] # None
  <2>1. PICK v \in Versions : v = jobs[i].run.version
    BY <1>2 DEF DealtInv, TypeOK, JobType, RunType
  <2>2. SettledAt(v) \subseteq SettledAt(v)'
    BY SettledStays DEF DealtInv
  <2>3. ASSUME Active(i)' PROVE Dealt(jobs[i], SettledAt(jobs[i].run.version))'
    <3>1. Dealt(jobs[i], SettledAt(v))
      BY <2>1, <2>3 DEF DealtInv, Active
    <3>2. Dealt(jobs'[i], SettledAt(v)')
      BY <2>2, <3>1, DealtMore
    <3>3. SettledAt(v)' = SettledAt(jobs[i].run.version)'
      BY <2>1 DEF SettledAt, Settled
    <3> QED BY <3>2, <3>3
  <2>4. ASSUME jobs'[i] # None, jobs'[i].pc = "done", jobs'[i].outcome # "refused", NEW p \in jobs'[i].batch
        PROVE  p \in SettledAt(v)'
    <3>1. p \in Posts
      BY <1>2, <2>4 DEF DealtInv, TypeOK, JobType
    <3>2. p \in SettledAt(v)
      BY <2>1, <2>4, <3>1 DEF DealtInv, DoneIsSettled, SettledAt
    <3> QED BY <2>2, <3>2
  <2>5. Done(i)'
    BY <2>1, <2>4 DEF Done, SettledAt, Settled
  <2> QED BY <2>3, <2>5
<1> QED BY <1>1, <1>2

\* The posts of a batch stay accounted for, step by step.
LEMMA DealtStep == DealtInv /\ [Next]_vars => DealtInv'
<1> SUFFICES ASSUME DealtInv, [Next]_vars PROVE DealtInv'
  OBVIOUS
<1>1. TypeOK /\ TypeOK'
  BY TypeStep DEF DealtInv
<1>2. ASSUME \A i \in Jobs : /\ Active(i)' => Dealt(jobs[i], SettledAt(jobs[i].run.version))'
                             /\ Done(i)'
      PROVE  DealtInv'
  BY <1>1, <1>2 DEF DealtInv, DoneIsSettled, Done
<1>3. CASE jobs' = jobs
  BY <1>1, <1>2, <1>3, OthersAsBefore
<1>4. ASSUME NEW j \in Jobs, Step(j) \/ Crash(j)
      PROVE  DealtInv'
  <2>1. OnlyJob(j) /\ jobs[j] \in JobType
    BY <1>1, <1>4, OneJobSteps
  <2>2. ASSUME Active(j)' PROVE Dealt(jobs[j], SettledAt(jobs[j].run.version))'
    <3>1. ~Crash(j)
      <4>1. ASSUME Crash(j) PROVE FALSE
        BY <1>1, <2>2, <4>1, TryAgainStops DEF Crash, Active
      <4> QED BY <4>1
    <3>2. PICK v \in Versions : jobs'[j].run.version = v /\ Dealt(jobs'[j], SettledAt(v)')
      <4>1. CASE Start(j)
        <5>1. version \in Versions
          BY <1>1 DEF TypeOK
        <5>2. PICK v \in Versions : v = version
          BY <5>1
        <5>3. jobs'[j].run.version = v /\ Dealt(jobs'[j], SettledAt(v))
          BY <1>1, <4>1, <5>2, StartDeals
        <5>4. Dealt(jobs'[j], SettledAt(v)')
          BY <1>1, <5>3, SettledStays, DealtMore
        <5> QED BY <5>3, <5>4
      <4>2. CASE ~Start(j)
        <5>1. PICK v \in Versions : v = jobs[j].run.version
          BY <2>1 DEF JobType, RunType
        <5>2. Step(j) /\ Active(j)
          <6>1. ~RefuseWithoutModel(j)
            BY <1>1, <2>1, <2>2 DEF RefuseWithoutModel, Active, TypeOK, JobType
          <6>2. ASSUME NEW p \in Posts, AtPost(j, p) \/ MayCall(j, p) \/ Answer(j, p)
                PROVE  Active(j)
            BY <6>2 DEF AtPost, MayCall, Answer, Active
          <6>3. EndLoop(j) \/ WriteCopies(j) \/ WriteDrops(j) \/ Finish(j) => Active(j)
            BY DEF EndLoop, WriteCopies, WriteDrops, Finish, Active
          <6> QED
            BY <1>4, <3>1, <4>2, <6>1, <6>2, <6>3, Zenon DEF Step, SkipKnown, HangOnCard, LeaveAtCap,
               StopAtBudget, RefuseAtCeiling, GiveUp, Call
        <5>3. Dealt(jobs[j], SettledAt(v))
          BY <5>1, <5>2 DEF DealtInv
        <5> QED BY <1>1, <2>2, <5>1, <5>2, <5>3, RunDeals
      <4> QED BY <4>1, <4>2
    <3>3. SettledAt(v)' = SettledAt(jobs[j].run.version)'
      BY <3>2 DEF SettledAt, Settled
    <3> QED BY <3>2, <3>3
  <2>3. Done(j)'
    <3>1. ASSUME jobs'[j] # None, jobs'[j].pc = "done", jobs'[j].outcome # "refused",
                 NEW p \in jobs'[j].batch
          PROVE  Settled(p, jobs[j].run.version)'
      <4>1. jobs'[j] \in JobType
        BY <1>1, <3>1 DEF TypeOK
      <4>2. PICK v \in Versions : v = jobs'[j].run.version
        BY <4>1 DEF JobType, RunType
      <4>3. p \in Posts
        BY <4>1 DEF JobType
      <4>4. p \in SettledAt(v)'
        BY <1>1, <1>4, <3>1, <4>2, <4>3, DoneAfter
      <4> QED BY <4>2, <4>4 DEF SettledAt, Settled
    <3> QED BY <3>1 DEF Done
  <2>4. \A i \in Jobs : i # j => jobs'[i] = jobs[i]
    BY <2>1 DEF OnlyJob
  <2> QED BY <1>1, <1>2, <2>2, <2>3, <2>4, OthersAsBefore
<1>5. ASSUME NEW j \in Jobs, NEW batch, NEW walk, HandBatch(j, batch, walk)
      PROVE  DealtInv'
  <2>1. jobs'[j].pc = "queued" /\ \A i \in Jobs : i # j => jobs'[i] = jobs[i]
    BY <1>1, <1>5 DEF HandBatch, TypeOK
  <2>2. ~Active(j)' /\ Done(j)'
    BY <2>1 DEF Active, Done
  <2> QED BY <1>1, <1>2, <2>1, <2>2, OthersAsBefore
<1>6. CASE BeginWalk \/ Redefine \/ \E p \in Posts : DeletePost(p)
  BY <1>3, <1>6 DEF BeginWalk, Redefine, DeletePost
<1> QED BY <1>3, <1>4, <1>5, <1>6 DEF Next, vars

\* A job that ended without being stopped by the budget or a missing key left no post of
\* its batch behind: each was scored, given up, dropped, gone or another's copy, whatever
\* runs of the job died or failed half way, and with any number of worker processes
\* (classify.ts:983).
THEOREM NothingIsLeftBehind == Spec => []DoneIsSettled
<1>1. Init => DealtInv
  <2>1. ASSUME Init PROVE DealtInv
    BY <2>1, TypeInit DEF Init, DealtInv, DoneIsSettled, Active
  <2> QED BY <2>1
<1>2. DealtInv => DoneIsSettled
  BY DEF DealtInv
<1> QED BY <1>1, <1>2, DealtStep, PTL DEF Spec

---------------------------------------------------------------------------
\* What a walk makes.

\* The walk's matches; those that a run made anew.
OfWalk(c, w) == {p \in Posts : c[p] # None /\ c[p].of = w}
Anew(run) == run.made \ run.carded

\* The matches of the run's walk are among those it counted when it began and those it made
\* since, and with calls in flight all of these stay within the cap and the other slots.
UnderCap(job, c) ==
  /\ \A p \in job.run.carded \cup job.run.made : c[p] # None
  /\ Cardinality(OfWalk(c, job.walk)) <= job.run.before + Cardinality(Anew(job.run))
  /\ job.run.inFlight # {} =>
       job.run.before + Cardinality(Anew(job.run)) + Cardinality(job.run.inFlight)
         <= Cap + Concurrency - 1

CapInv ==
  /\ \A p \in Carded : cards[p].of <= cards[p].at
  /\ \A j \in Jobs : jobs[j] # None => jobs[j].walk <= walks
  /\ CapHolds
  /\ \A j \in Jobs : Active(j) => UnderCap(jobs[j], cards)

\* A walk is capped.
Capped == Cap # None /\ OneProcess

LEMMA SizeOf ==
  ASSUME NEW S \in SUBSET Posts
  PROVE  IsFiniteSet(S) /\ Cardinality(S) \in Nat
BY ClassifyAssumption, FS_Subset, FS_CardinalityType

LEMMA Grown ==
  ASSUME NEW S \in SUBSET Posts, NEW p \in Posts
  PROVE  /\ Cardinality(S \cup {p}) = IF p \in S THEN Cardinality(S) ELSE Cardinality(S) + 1
         /\ Cardinality(S \ {p}) = IF p \in S THEN Cardinality(S) - 1 ELSE Cardinality(S)
BY SizeOf, FS_AddElement, FS_RemoveElement

\* A run that made, asked and holds what it did, over cards that only differ in what is
\* hidden.
LEMMA UnderCapStays ==
  ASSUME NEW job, NEW next, NEW c, NEW d, UnderCap(job, c), next.walk = job.walk,
         next.run.carded = job.run.carded, next.run.made = job.run.made,
         next.run.before = job.run.before, next.run.inFlight = job.run.inFlight,
         \A p \in Posts : c[p] = None <=> d[p] = None,
         \A p \in Posts : c[p] # None => d[p].of = c[p].of,
         job.run.carded \cup job.run.made \subseteq Posts
  PROVE  UnderCap(next, d)
<1>1. OfWalk(d, job.walk) = OfWalk(c, job.walk)
  BY DEF OfWalk
<1>2. Anew(next.run) = Anew(job.run)
  BY DEF Anew
<1> QED BY <1>1, <1>2 DEF UnderCap

\* A call starts under the cap and in a free slot.
LEMMA UnderCapCalls ==
  ASSUME NEW job \in JobType, NEW next, NEW c, NEW p \in Posts, UnderCap(job, c), Cap # None,
         ~AtCap(job), ~MustWait(job.run), next.walk = job.walk, Passed(job.run, next.run, p),
         next.run.inFlight \in {job.run.inFlight, job.run.inFlight \cup {p}}
  PROVE  UnderCap(next, c)
<1> DEFINE a == job.run
           b == next.run
<1>1. a \in RunType
  BY DEF JobType
<1>2. a.inFlight \in SUBSET Posts /\ Anew(a) \in SUBSET Posts /\ a.before \in Nat
  BY <1>1 DEF RunType, Anew
<1>3. Anew(b) = Anew(a) /\ b.before = a.before /\ b.carded = a.carded /\ b.made = a.made
  BY DEF Anew, Passed, SameReadings
<1>4. Cardinality(a.inFlight) < Concurrency /\ a.before + Cardinality(Anew(a)) < Cap
  <2>1. Cap \in Nat /\ Concurrency \in Nat
    BY ClassifyAssumption
  <2>2. Cardinality(a.inFlight) \in Nat /\ Cardinality(Anew(a)) \in Nat
    BY <1>2, SizeOf
  <2> QED BY <1>2, <2>1, <2>2 DEF AtCap, MustWait, Anew
<1> HIDE DEF a, b
<1>5. Cardinality(b.inFlight) <= Cardinality(a.inFlight) + 1
  <2>1. Cardinality(a.inFlight \cup {p}) <= Cardinality(a.inFlight) + 1
    BY <1>2, Grown, SizeOf
  <2>2. Cardinality(a.inFlight) \in Nat
    BY <1>2, SizeOf
  <2>3. b.inFlight = a.inFlight \/ b.inFlight = a.inFlight \cup {p}
    BY DEF a, b
  <2>4. CASE b.inFlight = a.inFlight
    BY <2>2, <2>4
  <2>5. CASE b.inFlight = a.inFlight \cup {p}
    BY <2>1, <2>5
  <2> QED BY <2>3, <2>4, <2>5
<1>6. a.before + Cardinality(Anew(a)) + Cardinality(b.inFlight) <= Cap + Concurrency - 1
  <2>1. Cap \in Nat /\ Concurrency \in Nat
    BY ClassifyAssumption
  <2>2. Cardinality(a.inFlight) \in Nat /\ Cardinality(Anew(a)) \in Nat
    BY <1>2, SizeOf
  <2>3. Cardinality(b.inFlight) \in Nat
    <3>1. b.inFlight \in SUBSET Posts
      BY <1>2 DEF a, b
    <3> QED BY <3>1, SizeOf
  <2> QED BY <1>2, <1>4, <1>5, <2>1, <2>2, <2>3
<1> QED BY <1>3, <1>6 DEF UnderCap, a, b

\* An answer makes at most one card, of its walk, and frees its slot.
LEMMA UnderCapAnswers ==
  ASSUME NEW job \in JobType, NEW next, NEW c, NEW d, NEW p \in Posts, UnderCap(job, c),
         Cap # None, next.walk = job.walk, CameBack(job.run, next.run, p),
         \A q \in Posts : q # p => d[q] = c[q],
         \/ next.run.made = job.run.made /\ d[p] = c[p]
         \/ /\ next.run.made = job.run.made \cup {p} /\ d[p] # None
            /\ c[p] # None => d[p] = c[p]
            /\ c[p] = None => d[p].of = job.walk
  PROVE  UnderCap(next, d) /\ Cardinality(OfWalk(d, job.walk)) <= Cap + Concurrency - 1
<1> DEFINE a == job.run
           b == next.run
           w == job.walk
<1>1. a \in RunType
  BY DEF JobType
<1>2. /\ a.inFlight \in SUBSET Posts /\ Anew(a) \in SUBSET Posts /\ a.before \in Nat
      /\ OfWalk(c, w) \in SUBSET Posts /\ OfWalk(d, w) \in SUBSET Posts /\ Anew(b) \in SUBSET Posts
      /\ b.inFlight \in SUBSET Posts
  BY <1>1 DEF RunType, Anew, OfWalk, CameBack
<1>3. /\ Cardinality(a.inFlight) \in Nat /\ Cardinality(Anew(a)) \in Nat
      /\ Cardinality(OfWalk(c, w)) \in Nat /\ Cardinality(OfWalk(d, w)) \in Nat
      /\ Cardinality(Anew(b)) \in Nat /\ Cardinality(b.inFlight) \in Nat
      /\ Cap \in Nat /\ Concurrency \in Nat
  BY <1>2, SizeOf, ClassifyAssumption
<1>4. /\ a.inFlight # {} /\ Cardinality(b.inFlight) = Cardinality(a.inFlight) - 1
      /\ Cardinality(a.inFlight) >= 1
  <2>1. p \in a.inFlight /\ b.inFlight = a.inFlight \ {p}
    BY DEF CameBack
  <2> QED BY <1>2, <1>3, <2>1, Grown
<1>5. b.carded = a.carded /\ b.before = a.before /\ Anew(b) \in {Anew(a), Anew(a) \cup {p}}
  BY DEF Anew, CameBack, SameReadings
<1>6. Cardinality(Anew(b)) \in {Cardinality(Anew(a)), Cardinality(Anew(a)) + 1}
  <2>1. Cardinality(Anew(a) \cup {p}) \in {Cardinality(Anew(a)), Cardinality(Anew(a)) + 1}
    BY <1>2, Grown
  <2> QED BY <1>5, <2>1
<1>7. Cardinality(OfWalk(d, w)) <= a.before + Cardinality(Anew(b))
  <2>1. Cardinality(OfWalk(c, w)) <= a.before + Cardinality(Anew(a))
    BY DEF UnderCap
  <2>2. CASE d[p] = c[p]
    <3>1. OfWalk(d, w) = OfWalk(c, w)
      BY <2>2 DEF OfWalk
    <3> QED BY <1>2, <1>3, <1>6, <2>1, <3>1
  <2>3. CASE d[p] # c[p]
    <3>1. c[p] = None /\ d[p] # None /\ d[p].of = w /\ b.made = a.made \cup {p}
      BY <2>3
    <3>2. OfWalk(d, w) = OfWalk(c, w) \cup {p} /\ p \notin OfWalk(c, w)
      BY <3>1 DEF OfWalk
    <3>3. Cardinality(OfWalk(d, w)) = Cardinality(OfWalk(c, w)) + 1
      BY <1>2, <3>2, Grown
    <3>4. p \notin a.carded \cup a.made
      BY <3>1 DEF UnderCap
    <3>5. Anew(b) = Anew(a) \cup {p} /\ p \notin Anew(a)
      BY <1>5, <3>1, <3>4 DEF Anew
    <3>6. Cardinality(Anew(b)) = Cardinality(Anew(a)) + 1
      BY <1>2, <3>5, Grown
    <3> QED BY <1>2, <1>3, <2>1, <3>3, <3>6
  <2> QED BY <2>2, <2>3
<1>8. a.before + Cardinality(Anew(b)) + Cardinality(b.inFlight) <= Cap + Concurrency - 1
  <2>1. a.before + Cardinality(Anew(a)) + Cardinality(a.inFlight) <= Cap + Concurrency - 1
    BY <1>4 DEF UnderCap
  <2> QED BY <1>2, <1>3, <1>4, <1>6, <2>1
<1>9. \A q \in b.carded \cup b.made : d[q] # None
  <2>1. \A q \in a.carded \cup a.made : q \in Posts /\ c[q] # None
    BY <1>1 DEF UnderCap, RunType
  <2> QED BY <1>5, <2>1
<1> HIDE DEF a, b
<1>10. Cardinality(OfWalk(d, w)) <= Cap + Concurrency - 1
  BY <1>2, <1>3, <1>7, <1>8
<1> QED BY <1>5, <1>7, <1>8, <1>9, <1>10 DEF UnderCap, b

\* The ledger only changes with an answer, and the cards with one and when a post is deleted.
LEMMA CardsStay ==
  ASSUME TypeOK, NEW j \in Jobs, Step(j) \/ Crash(j), \A p \in Posts : ~Answer(j, p)
  PROVE  UNCHANGED <<scored, failed, cards>>
<1>1. ASSUME NEW p \in Posts, \/ SkipKnown(j, p) \/ HangOnCard(j, p) \/ LeaveAtCap(j, p)
                              \/ RefuseAtCeiling(j, p) \/ GiveUp(j, p) \/ Call(j, p)
      PROVE  UNCHANGED <<scored, failed, cards>>
  <2>1. \E next : GoOn(j, p, next)
    BY <1>1, Zenon DEF SkipKnown, HangOnCard, LeaveAtCap, RefuseAtCeiling, GiveUp, Call
  <2> QED BY <2>1 DEF GoOn
<1>2. ASSUME NEW p \in Posts, StopAtBudget(j, p) PROVE UNCHANGED <<scored, failed, cards>>
  BY <1>2 DEF StopAtBudget
<1>3. RefuseWithoutModel(j) \/ Start(j) \/ EndLoop(j) \/ WriteCopies(j) \/ WriteDrops(j) \/ Finish(j)
      \/ Crash(j) => UNCHANGED <<scored, failed, cards>>
  BY DEF RefuseWithoutModel, Start, EndLoop, WriteCopies, WriteDrops, Finish, Crash
<1> QED BY <1>1, <1>2, <1>3, Zenon DEF Step

\* An answer adds at most the card of its post, of its job's walk and of this moment.
LEMMA AnswerCards ==
  ASSUME TypeOK, NEW j \in Jobs, NEW p \in Posts, Answer(j, p), cards' # cards
  PROVE  /\ \A q \in Posts : q # p => cards'[q] = cards[q]
         /\ cards[p] = None /\ cards'[p] = [of |-> jobs[j].walk, at |-> walks, hidden |-> FALSE]
<1>1. HighAnswer(j, p)
  BY DEF Answer, FailedAnswer, LowAnswer
<1>2. \A q \in Posts : q # p => cards'[q] = cards[q]
  BY <1>1 DEF HighAnswer, TypeOK
<1>3. cards'[p] = IF cards[p] = None THEN [of |-> jobs[j].walk, at |-> walks, hidden |-> FALSE]
                  ELSE cards[p]
  BY <1>1 DEF HighAnswer, TypeOK
<1>4. cards' \in [Posts -> Cards \cup {None}] /\ cards \in [Posts -> Cards \cup {None}]
  BY AnswerType DEF TypeOK
<1>5. cards[p] = None
  <2>1. ASSUME cards[p] # None PROVE FALSE
    <3>1. \A q \in Posts : cards'[q] = cards[q]
      BY <1>2, <1>3, <2>1
    <3>2. cards' = cards
      BY <1>4, <3>1
    <3> QED BY <3>2
  <2> QED BY <2>1
<1> QED BY <1>2, <1>3, <1>5

\* A card is of its walk whether hidden or not.
LEMMA CapHoldsOf ==
  /\ CapHolds <=> (Cap # None => \A w \in Walks : Cardinality(OfWalk(cards, w)) <= Cap + Concurrency - 1)
  /\ \A w : {p \in Carded : cards[p].of = w} = OfWalk(cards, w)
<1>1. \A w : {p \in Carded : cards[p].of = w} = OfWalk(cards, w)
  BY DEF Carded, OfWalk
<1> QED BY <1>1 DEF CapHolds

\* CapInv needs three things of a step: what cards it leaves, where jobs stand, and the run.
LEMMA CapKept ==
  ASSUME CapInv, walks' >= walks, walks \in Nat, walks' \in Nat,
         \A p \in Posts : cards'[p] # None =>
            \/ cards[p] # None /\ cards'[p].of = cards[p].of /\ cards'[p].at = cards[p].at
            \/ cards'[p].of <= cards'[p].at,
         \A w \in Walks : OfWalk(cards', w) = OfWalk(cards, w)
                          \/ Cardinality(OfWalk(cards', w)) <= Cap + Concurrency - 1,
         \A i \in Jobs : jobs'[i] # None => jobs'[i].walk <= walks',
         \A i \in Jobs : Active(i)' => UnderCap(jobs'[i], cards')
  PROVE  CapInv'
<1>1. \A p \in Carded' : cards'[p].of <= cards'[p].at
  BY DEF CapInv, Carded
<1>2. CapHolds'
  <2>1. CapHolds' <=> (Cap # None => \A w \in Walks : Cardinality(OfWalk(cards', w)) <= Cap + Concurrency - 1)
    BY DEF CapHolds, OfWalk, Carded
  <2>2. Cap # None => \A w \in Walks : Cardinality(OfWalk(cards, w)) <= Cap + Concurrency - 1
    BY CapHoldsOf DEF CapInv
  <2> QED BY <2>1, <2>2
<1> QED BY <1>1, <1>2 DEF CapInv

LEMMA CapStart ==
  ASSUME Inv, CapInv, Capped, NEW j \in Jobs, Start(j)
  PROVE  UnderCap(jobs'[j], cards)
<1> DEFINE run == jobs'[j].run
           w == jobs[j].walk
<1>1. /\ TypeOK /\ jobs[j] \in JobType /\ w \in Walks /\ jobs'[j].walk = w
  <2>1. TypeOK /\ jobs[j] \in JobType
    BY DEF Inv, Start, TypeOK
  <2>2. Step(j)
    BY Zenon DEF Step
  <2>3. jobs'[j].walk = w
    BY <2>1, <2>2, OneJobSteps DEF OnlyJob, Inv
  <2>4. w \in Walks
    BY <2>1 DEF JobType
  <2> QED BY <2>1, <2>3, <2>4
<1>2. /\ run.carded = Carded /\ run.before = MatchesInWalk(w) /\ run.made = {} /\ run.inFlight = {}
  BY <1>1 DEF Start, TypeOK, JobType, Blank
<1>3. Anew(run) = {} /\ Cardinality({}) = 0
  BY <1>2, FS_EmptySet DEF Anew
<1>4. Cardinality(OfWalk(cards, w)) <= MatchesInWalk(w)
  <2> DEFINE since == {p \in Carded : cards[p].at >= w}
  <2>1. OfWalk(cards, w) \subseteq since
    <3>1. \A p \in Carded : cards[p].of \in Nat /\ cards[p].at \in Nat /\ cards[p].of <= cards[p].at
      BY <1>1 DEF CapInv, TypeOK, Carded, Cards, Walks
    <3>2. w \in Nat
      BY <1>1 DEF Walks
    <3> QED BY <3>1, <3>2 DEF OfWalk, Carded
  <2>2. since \in SUBSET Posts
    BY DEF Carded
  <2> HIDE DEF since
  <2>3. Cardinality(OfWalk(cards, w)) <= Cardinality(since)
    BY <2>1, <2>2, SizeOf, FS_Subset
  <2> QED BY <2>3 DEF MatchesInWalk, since
<1>5. /\ MatchesInWalk(w) \in Nat
  BY CountType DEF MatchesInWalk, Carded
<1> HIDE DEF run, w
<1>6. Cardinality(OfWalk(cards, w)) \in Nat
  BY SizeOf DEF OfWalk
<1> QED BY <1>1, <1>2, <1>3, <1>4, <1>5, <1>6 DEF UnderCap, Carded, run

\* A run under its cap stays under it.
LEMMA CapRun ==
  ASSUME Inv, CapInv, Capped, NEW j \in Jobs, Active(j), Step(j) \/ Crash(j)
  PROVE  /\ Active(j)' => UnderCap(jobs'[j], cards')
         /\ \A w \in Walks : OfWalk(cards', w) = OfWalk(cards, w)
                             \/ Cardinality(OfWalk(cards', w)) <= Cap + Concurrency - 1
<1> DEFINE a == jobs[j].run
           b == jobs'[j].run
<1>1. /\ TypeOK /\ jobs[j] \in JobType /\ a \in RunType /\ jobs'[j].walk = jobs[j].walk
      /\ UnderCap(jobs[j], cards) /\ a.carded \cup a.made \subseteq Posts
  BY OneJobSteps DEF Inv, CapInv, OnlyJob, RunType
<1>2. CASE \E p \in Posts : Answer(j, p)
  <2>1. PICK p \in Posts : Answer(j, p)
    BY <1>2
  <2>2. /\ CameBack(a, b, p)
        /\ \/ b.made = a.made \cup {p} /\ HighAnswer(j, p)
           \/ b.made = a.made /\ cards' = cards
    BY <1>1, <2>1, AnswerMoves
  <2>3. \A q \in Posts : q # p => cards'[q] = cards[q]
    BY <1>1, <2>1, AnswerCards
  <2>4. ASSUME HighAnswer(j, p)
        PROVE  /\ cards'[p] # None
               /\ cards[p] # None => cards'[p] = cards[p]
               /\ cards[p] = None => cards'[p].of = jobs[j].walk
    <3>1. cards'[p] = IF cards[p] = None THEN [of |-> jobs[j].walk, at |-> walks, hidden |-> FALSE]
                      ELSE cards[p]
      BY <1>1, <2>4 DEF HighAnswer, TypeOK
    <3> DEFINE card == [of |-> jobs[j].walk, at |-> walks, hidden |-> FALSE]
    <3>2. card \in Cards /\ card.of = jobs[j].walk
      BY <1>1 DEF Cards, JobType, TypeOK
    <3> HIDE DEF card
    <3>3. card # None
      BY <3>2, ClassifyAssumption
    <3>4. cards'[p] = IF cards[p] = None THEN card ELSE cards[p]
      BY <3>1 DEF card
    <3> QED BY <3>2, <3>3, <3>4
  <2>5. \/ b.made = a.made /\ cards'[p] = cards[p]
        \/ /\ b.made = a.made \cup {p} /\ cards'[p] # None
           /\ cards[p] # None => cards'[p] = cards[p]
           /\ cards[p] = None => cards'[p].of = jobs[j].walk
    BY <2>2, <2>4
  <2>6. UnderCap(jobs'[j], cards') /\ Cardinality(OfWalk(cards', jobs[j].walk)) <= Cap + Concurrency - 1
    BY <1>1, <2>2, <2>3, <2>5, UnderCapAnswers DEF Capped
  <2>7. ASSUME NEW w \in Walks, w # jobs[j].walk PROVE OfWalk(cards', w) = OfWalk(cards, w)
    <3>1. CASE cards'[p] = cards[p]
      BY <2>3, <3>1 DEF OfWalk
    <3>2. CASE cards'[p] # cards[p]
      BY <2>3, <2>5, <2>7, <3>2 DEF OfWalk
    <3> QED BY <3>1, <3>2
  <2> QED BY <2>6, <2>7
<1>3. CASE \A p \in Posts : ~Answer(j, p)
  <2>1. cards' = cards
    BY <1>1, <1>3, CardsStay
  <2>2. ASSUME NEW p \in Posts,
               \/ SkipKnown(j, p) \/ HangOnCard(j, p) \/ LeaveAtCap(j, p) \/ RefuseAtCeiling(j, p)
        PROVE  UnderCap(jobs'[j], cards)
    <3>1. Passed(a, b, p) /\ NoCall(a, b)
      BY <1>1, <2>2, PassMoves
    <3>2. /\ b.carded = a.carded /\ b.made = a.made /\ b.before = a.before /\ b.inFlight = a.inFlight
      BY <3>1 DEF Passed, NoCall, SameReadings
    <3> QED BY <1>1, <3>2, UnderCapStays
  <2>3. ASSUME NEW p \in Posts, GiveUp(j, p) \/ Call(j, p)
        PROVE  UnderCap(jobs'[j], cards)
    <3>1. /\ Passed(a, b, p) /\ ~AtCap(jobs[j]) /\ ~MustWait(a)
          /\ b.inFlight \in {a.inFlight, a.inFlight \cup {p}}
      BY <1>1, <2>3, CallMoves
    <3> QED BY <1>1, <3>1, UnderCapCalls DEF Capped
  <2>4. CASE (\E p \in Posts : StopAtBudget(j, p)) \/ EndLoop(j) \/ WriteCopies(j) \/ WriteDrops(j)
    <3>1. Moved(a, b)
      BY <1>1, <2>4, PlaceMoves
    <3>2. /\ b.carded = a.carded /\ b.made = a.made /\ b.before = a.before /\ b.inFlight = a.inFlight
      BY <3>1 DEF Moved, SameReadings
    <3> QED BY <1>1, <2>1, <3>2, UnderCapStays
  <2>5. ~(RefuseWithoutModel(j) \/ Start(j))
    BY DEF Active, RefuseWithoutModel, Start
  <2>6. Active(j)' => ~Finish(j) /\ ~Crash(j)
    <3>1. TryAgain(j) => ~Active(j)'
      BY <1>1, TryAgainStops DEF Active
    <3>2. ASSUME jobs' = [jobs EXCEPT ![j].pc = "done", ![j].outcome = Outcome(jobs[j].run)]
          PROVE  ~Active(j)'
      BY <1>1, <3>2 DEF Active, TypeOK, JobType
    <3> QED BY <3>1, <3>2 DEF Finish, Crash
  <2>7. Active(j)' => UnderCap(jobs'[j], cards)
    BY <1>3, <2>1, <2>2, <2>3, <2>4, <2>5, <2>6 DEF Step
  <2> QED BY <2>1, <2>7
<1> QED BY <1>2, <1>3

\* A job that runs after its step ran before it, or starts.
LEMMA RanBefore ==
  ASSUME TypeOK, NEW j \in Jobs, Step(j) \/ Crash(j), Active(j)'
  PROVE  Step(j) /\ (Start(j) \/ Active(j))
<1>1. jobs[j] # None /\ jobs[j] \in JobType
  BY OneJobSteps
<1>2. ~Crash(j)
  <2>1. ASSUME Crash(j) PROVE FALSE
    BY <1>1, <2>1, TryAgainStops DEF Crash
  <2> QED BY <2>1
<1>3. ~RefuseWithoutModel(j)
  BY <1>1 DEF RefuseWithoutModel, Active, TypeOK, JobType
<1>4. ASSUME NEW p \in Posts, AtPost(j, p) \/ MayCall(j, p) \/ Answer(j, p)
      PROVE  Active(j)
  BY <1>4 DEF AtPost, MayCall, Answer, Active
<1>5. EndLoop(j) \/ WriteCopies(j) \/ WriteDrops(j) \/ Finish(j) => Active(j)
  BY DEF EndLoop, WriteCopies, WriteDrops, Finish, Active
<1> QED
  BY <1>2, <1>3, <1>4, <1>5, Zenon DEF Step, SkipKnown, HangOnCard, LeaveAtCap, StopAtBudget,
     RefuseAtCeiling, GiveUp, Call

\* The cards after a step of a job: those before it, and at most one of its own walk.
LEMMA StepCards ==
  ASSUME TypeOK, NEW j \in Jobs, Step(j) \/ Crash(j), jobs[j].walk <= walks
  PROVE  \A p \in Posts : cards'[p] # None =>
           \/ cards[p] # None /\ cards'[p] = cards[p]
           \/ cards'[p].of <= cards'[p].at
<1>1. CASE \E p \in Posts : Answer(j, p) /\ cards' # cards
  <2>1. PICK p \in Posts : Answer(j, p) /\ cards' # cards
    BY <1>1
  <2>2. cards'[p] = [of |-> jobs[j].walk, at |-> walks, hidden |-> FALSE]
    BY <2>1, AnswerCards
  <2>3. \A q \in Posts : q # p => cards'[q] = cards[q]
    BY <2>1, AnswerCards
  <2> QED BY <2>2, <2>3
<1>2. CASE cards' = cards
  BY <1>2
<1> QED BY <1>1, <1>2, CardsStay

LEMMA CapStep ==
  ASSUME Capped, Inv, CapInv, [Next]_vars
  PROVE  CapInv'
<1>1. TypeOK /\ TypeOK' /\ Alone
  BY TypeStep DEF Inv
<1>2. walks \in Nat /\ walks' \in Nat
  BY <1>1 DEF TypeOK, Walks
<1>3. \A i \in Jobs : jobs[i] # None => jobs[i].walk \in Nat /\ jobs[i].walk <= walks
  BY <1>1 DEF CapInv, TypeOK, JobType, Walks
<1>4. CASE UNCHANGED <<cards, jobs>> /\ walks' \in {walks, walks + 1}
  <2>1. \A i \in Jobs : jobs'[i] # None => jobs'[i].walk <= walks'
    BY <1>2, <1>3, <1>4
  <2>2. \A i \in Jobs : Active(i)' => UnderCap(jobs'[i], cards')
    BY <1>4 DEF CapInv, Active
  <2>3. walks' >= walks
    BY <1>2, <1>4
  <2> QED BY <1>2, <1>4, <2>1, <2>2, <2>3, CapKept
<1>5. ASSUME NEW p \in Posts, DeletePost(p) PROVE CapInv'
  <2>1. UNCHANGED <<walks, jobs>>
    BY <1>5 DEF DeletePost
  <2>2. \A q \in Posts : q # p => cards'[q] = cards[q]
    BY <1>1, <1>5 DEF DeletePost, TypeOK
  <2>3. /\ cards'[p] = None <=> cards[p] = None
        /\ cards[p] # None => cards'[p].of = cards[p].of /\ cards'[p].at = cards[p].at
    <3> DEFINE hid == [cards[p] EXCEPT !.hidden = TRUE]
    <3>1. cards'[p] = IF cards[p] = None THEN None ELSE hid
      BY <1>1, <1>5 DEF DeletePost, TypeOK
    <3>2. ASSUME cards[p] # None
          PROVE  hid \in Cards /\ hid.of = cards[p].of /\ hid.at = cards[p].at
      <4>1. cards[p] \in Cards
        BY <1>1, <3>2 DEF TypeOK
      <4> QED BY <4>1 DEF Cards
    <3> HIDE DEF hid
    <3> QED BY <3>1, <3>2, ClassifyAssumption
  <2>4. \A q \in Posts : /\ cards[q] = None <=> cards'[q] = None
                         /\ cards[q] # None => cards'[q].of = cards[q].of /\ cards'[q].at = cards[q].at
    BY <2>2, <2>3
  <2>5. \A w \in Walks : OfWalk(cards', w) = OfWalk(cards, w)
    BY <2>4 DEF OfWalk
  <2>6. ASSUME NEW i \in Jobs, Active(i)' PROVE UnderCap(jobs'[i], cards')
    <3>1. UnderCap(jobs[i], cards) /\ jobs[i] \in JobType
      BY <1>1, <2>1, <2>6 DEF CapInv, Active, TypeOK
    <3>2. jobs[i].run.carded \cup jobs[i].run.made \subseteq Posts
      BY <3>1 DEF JobType, RunType
    <3> QED BY <2>1, <2>4, <3>1, <3>2, UnderCapStays
  <2>7. \A i \in Jobs : jobs'[i] # None => jobs'[i].walk <= walks'
    BY <1>3, <2>1
  <2> QED BY <1>2, <2>1, <2>4, <2>5, <2>6, <2>7, CapKept
<1>6. ASSUME NEW j \in Jobs, NEW batch, NEW walk, HandBatch(j, batch, walk) PROVE CapInv'
  <2>1. UNCHANGED <<walks, cards>> /\ walk <= walks
    BY <1>6 DEF HandBatch
  <2>2. /\ jobs'[j].pc = "queued" /\ jobs'[j].walk = walk
        /\ \A i \in Jobs : i # j => jobs'[i] = jobs[i]
    BY <1>1, <1>6 DEF HandBatch, TypeOK
  <2>3. \A i \in Jobs : jobs'[i] # None => jobs'[i].walk <= walks'
    BY <1>3, <2>1, <2>2
  <2>4. \A i \in Jobs : Active(i)' => UnderCap(jobs'[i], cards')
    BY <2>1, <2>2 DEF CapInv, Active
  <2> QED BY <1>2, <2>1, <2>3, <2>4, CapKept
<1>7. ASSUME NEW j \in Jobs, Step(j) \/ Crash(j) PROVE CapInv'
  <2>1. OnlyJob(j) /\ jobs[j] # None /\ walks' = walks
    <3>1. walks' = walks
      <4>1. ASSUME NEW p \in Posts, \/ SkipKnown(j, p) \/ HangOnCard(j, p) \/ LeaveAtCap(j, p)
                                    \/ RefuseAtCeiling(j, p) \/ GiveUp(j, p) \/ Call(j, p)
            PROVE  walks' = walks
        <5>1. \E next : GoOn(j, p, next)
          BY <4>1, Zenon DEF SkipKnown, HangOnCard, LeaveAtCap, RefuseAtCeiling, GiveUp, Call
        <5> QED BY <5>1 DEF GoOn
      <4>2. ASSUME NEW p \in Posts, StopAtBudget(j, p) \/ Answer(j, p) PROVE walks' = walks
        BY <4>2 DEF StopAtBudget, Answer, FailedAnswer, LowAnswer, HighAnswer
      <4>3. RefuseWithoutModel(j) \/ Start(j) \/ EndLoop(j) \/ WriteCopies(j) \/ WriteDrops(j)
            \/ Finish(j) \/ Crash(j) => walks' = walks
        BY DEF RefuseWithoutModel, Start, EndLoop, WriteCopies, WriteDrops, Finish, Crash
      <4> QED BY <1>7, <4>1, <4>2, <4>3, Zenon DEF Step
    <3> QED BY <1>1, <1>7, <3>1, OneJobSteps
  <2>2. \A i \in Jobs : jobs'[i] # None => jobs'[i].walk <= walks'
    BY <1>3, <2>1 DEF OnlyJob
  <2>3. \A p \in Posts : cards'[p] # None =>
           \/ cards[p] # None /\ cards'[p].of = cards[p].of /\ cards'[p].at = cards[p].at
           \/ cards'[p].of <= cards'[p].at
    <3>1. jobs[j].walk <= walks
      BY <1>3, <2>1
    <3> QED BY <1>1, <1>7, <3>1, StepCards
  <2>4. CASE Active(j)
    <3>1. \A i \in Jobs : Active(i)' => i = j
      BY <1>1, <2>1, <2>4 DEF OnlyJob, Alone, Active
    <3>2. /\ Active(j)' => UnderCap(jobs'[j], cards')
          /\ \A w \in Walks : OfWalk(cards', w) = OfWalk(cards, w)
                              \/ Cardinality(OfWalk(cards', w)) <= Cap + Concurrency - 1
      BY <1>7, <2>4, CapRun
    <3> QED BY <1>2, <2>1, <2>2, <2>3, <3>1, <3>2, CapKept
  <2>5. CASE ~Active(j)
    <3>1. cards' = cards
      <4>1. \A p \in Posts : ~Answer(j, p)
        BY <2>5 DEF Answer, Active
      <4> QED BY <1>1, <1>7, <4>1, CardsStay
    <3>2. ASSUME NEW i \in Jobs, Active(i)' PROVE UnderCap(jobs'[i], cards')
      <4>1. CASE i = j
        <5>1. Start(j)
          BY <1>1, <1>7, <2>5, <3>2, <4>1, RanBefore
        <5> QED BY <3>1, <4>1, <5>1, CapStart
      <4>2. CASE i # j
        <5>1. jobs'[i] = jobs[i] /\ Active(i)
          BY <2>1, <3>2, <4>2 DEF OnlyJob, Active
        <5> QED BY <3>1, <5>1 DEF CapInv
      <4> QED BY <4>1, <4>2
    <3> QED BY <1>2, <2>1, <2>2, <2>3, <3>1, <3>2, CapKept
  <2> QED BY <2>4, <2>5
<1>8. CASE UNCHANGED vars
  BY <1>4, <1>8 DEF vars
<1>9. CASE BeginWalk \/ Redefine
  BY <1>4, <1>9 DEF BeginWalk, Redefine
<1> QED BY <1>5, <1>6, <1>7, <1>8, <1>9 DEF Next

\* With one worker process, a collection ends at most Concurrency - 1 matches over its cap,
\* whatever jobs, retries, crashes and later collections make matches meanwhile
\* (match-cap.ts:47, classify.ts:690).
THEOREM CollectionsKeepTheirCap == OneProcess => (Spec => []CapHolds)
<1> SUFFICES ASSUME OneProcess PROVE Spec => []CapHolds
  OBVIOUS
<1>1. CASE Cap = None
  <2>1. CapHolds
    BY <1>1 DEF CapHolds
  <2> QED BY <2>1, PTL
<1>2. CASE Cap # None
  <2>1. Capped
    BY <1>2 DEF Capped
  <2>2. Init => CapInv
    <3>1. ASSUME Init PROVE CapInv
      <4>1. Carded = {} /\ (\A j \in Jobs : jobs[j] = None)
        BY <3>1 DEF Init, Carded
      <4>2. \A w \in Walks : Cardinality({p \in Carded : cards[p].of = w}) = 0
        BY <4>1, FS_EmptySet
      <4>3. CapHolds
        BY <4>2, ClassifyAssumption DEF CapHolds
      <4> QED BY <4>1, <4>3 DEF CapInv, Active
    <3> QED BY <3>1
  <2>3. Inv /\ CapInv /\ [Next]_vars => CapInv'
    BY <2>1, CapStep
  <2>4. CapInv => CapHolds
    BY DEF CapInv
  <2> QED BY <2>2, <2>3, <2>4, Invariant, PTL DEF Spec
<1> QED BY <1>1, <1>2

---------------------------------------------------------------------------
\* What a day asks.

AllPairs == UNION {Pairs[p] : p \in Posts}

\* The posts of A that a pair found, and the share of the pair in what A asks: their number,
\* up to the limit.
FoundBy(A, pair) == {p \in A : pair \in Pairs[p]}
Share(A, pair) == IF Cardinality(FoundBy(A, pair)) <= Limit THEN Cardinality(FoundBy(A, pair)) ELSE Limit
Shares(A) == [pair \in AllPairs |-> Share(A, pair)]

Searched(A) == {p \in A : Pairs[p] # {}}

\* Whatever part of the posts is taken, the shares of the pairs make room for it.
Roomy(A) == \A B \in SUBSET Searched(A) : Cardinality(B) <= SumFunction(Shares(B))

LEMMA PairsFinite == IsFiniteSet(AllPairs)
<1>1. IsFiniteSet({Pairs[p] : p \in Posts})
  <2> DEFINE f == [p \in Posts |-> Pairs[p]]
  <2>1. f \in Surjection(Posts, {Pairs[p] : p \in Posts})
    BY DEF Surjection
  <2> QED BY <2>1, ClassifyAssumption, FS_Surjection
<1> QED BY <1>1, ClassifyAssumption, FS_UNION DEF AllPairs

LEMMA SharesType ==
  ASSUME NEW A \in SUBSET Posts, Limit # None
  PROVE  /\ Shares(A) \in [AllPairs -> Nat]
         /\ \A pair \in AllPairs : Shares(A)[pair] <= Limit
<1>1. Limit \in Nat
  BY ClassifyAssumption
<1>2. \A pair : Cardinality(FoundBy(A, pair)) \in Nat
  BY SizeOf DEF FoundBy
<1>3. \A pair : Share(A, pair) \in Nat /\ Share(A, pair) <= Limit
  BY <1>1, <1>2 DEF Share
<1> QED BY <1>3 DEF Shares

LEMMA RoomyPart ==
  ASSUME NEW A, NEW B, B \subseteq A, Roomy(A)
  PROVE  Roomy(B)
BY DEF Roomy, Searched

LEMMA RoomyBound ==
  ASSUME NEW A \in SUBSET Posts, Limit # None, Roomy(A)
  PROVE  Cardinality(Searched(A)) <= Limit * Cardinality(AllPairs)
<1> DEFINE full == [pair \in AllPairs |-> IF pair \in AllPairs THEN Limit ELSE 0]
<1>1. Limit \in Nat /\ Cardinality(AllPairs) \in Nat
  BY PairsFinite, FS_CardinalityType, ClassifyAssumption
<1>2. full \in [AllPairs -> Nat] /\ \A pair \in AllPairs : full[pair] = Limit
  BY <1>1
<1>3. SumFunction(full) = Cardinality(AllPairs) * Limit
  BY <1>1, PairsFinite, SumOfSame
<1> HIDE DEF full
<1>4. /\ Searched(A) \in SUBSET Posts
      /\ Shares(Searched(A)) \in [AllPairs -> Nat]
      /\ \A pair \in AllPairs : Shares(Searched(A))[pair] <= full[pair]
  <2>1. Searched(A) \in SUBSET Posts
    BY DEF Searched
  <2> QED BY <1>2, <2>1, SharesType
<1>5. SumFunction(Shares(Searched(A))) <= SumFunction(full)
  BY <1>2, <1>4, PairsFinite, SumMonotone
<1>6. Cardinality(Searched(A)) <= SumFunction(Shares(Searched(A)))
  BY DEF Roomy
<1>7. Cardinality(Searched(A)) \in Nat /\ SumFunction(Shares(Searched(A))) \in Nat
  BY <1>4, SizeOf, PairsFinite, SumType
<1> QED BY <1>1, <1>3, <1>5, <1>6, <1>7

\* A post that some pair has room for keeps the posts roomy.
LEMMA RoomyMore ==
  ASSUME NEW A \in SUBSET Posts, NEW p \in Posts, Limit # None, Roomy(A),
         Pairs[p] = {} \/ \E pair \in Pairs[p] : Cardinality(FoundBy(A, pair)) < Limit
  PROVE  Roomy(A \cup {p})
<1> SUFFICES ASSUME NEW B \in SUBSET Searched(A \cup {p}), B \notin SUBSET Searched(A)
             PROVE  Cardinality(B) <= SumFunction(Shares(B))
  BY DEF Roomy
<1> DEFINE C == B \ {p}
<1>1. /\ p \in B /\ p \notin A /\ Pairs[p] # {} /\ C \in SUBSET Searched(A)
      /\ B = C \cup {p} /\ B \in SUBSET Posts /\ C \in SUBSET Posts /\ C \subseteq A /\ p \notin C
  BY DEF Searched
<1> HIDE DEF C
<1>2. PICK pair \in Pairs[p] : Cardinality(FoundBy(A, pair)) < Limit
  BY <1>1
<1>3. pair \in AllPairs /\ Limit \in Nat
  BY ClassifyAssumption DEF AllPairs
<1>4. Cardinality(B) = Cardinality(C) + 1
  BY <1>1, Grown
<1>5. Cardinality(C) <= SumFunction(Shares(C))
  BY <1>1 DEF Roomy
<1>6. \A x : /\ FoundBy(C, x) \subseteq FoundBy(B, x) /\ FoundBy(B, x) \in SUBSET Posts
             /\ FoundBy(C, x) \subseteq FoundBy(A, x) /\ FoundBy(A, x) \in SUBSET Posts
  BY <1>1 DEF FoundBy
<1>7. \A x : /\ Cardinality(FoundBy(C, x)) <= Cardinality(FoundBy(B, x))
             /\ Cardinality(FoundBy(C, x)) <= Cardinality(FoundBy(A, x))
             /\ Cardinality(FoundBy(C, x)) \in Nat /\ Cardinality(FoundBy(B, x)) \in Nat
             /\ Cardinality(FoundBy(A, x)) \in Nat
  <2> TAKE x
  <2>1. IsFiniteSet(FoundBy(B, x)) /\ IsFiniteSet(FoundBy(A, x)) /\ FoundBy(C, x) \in SUBSET Posts
    BY <1>6, SizeOf
  <2> QED BY <1>6, <2>1, SizeOf, FS_Subset
<1>8. Cardinality(FoundBy(B, pair)) = Cardinality(FoundBy(C, pair)) + 1
  <2>1. FoundBy(B, pair) = FoundBy(C, pair) \cup {p} /\ p \notin FoundBy(C, pair)
    BY <1>1, <1>2 DEF FoundBy
  <2>2. FoundBy(C, pair) \in SUBSET Posts
    BY <1>6
  <2> QED BY <2>1, <2>2, Grown
<1>9. \A x : Share(C, x) <= Share(B, x)
  BY <1>3, <1>7 DEF Share
<1>10. Share(B, pair) = Share(C, pair) + 1
  BY <1>2, <1>3, <1>7, <1>8 DEF Share
<1> DEFINE v == Shares(C)
           w == Shares(B)
           u == [x \in AllPairs |-> IF x = pair THEN v[pair] + 1 ELSE v[x]]
<1>11. v \in [AllPairs -> Nat] /\ w \in [AllPairs -> Nat]
  BY <1>1, SharesType
<1>12. /\ \A x \in AllPairs : v[x] <= w[x]
       /\ w[pair] = v[pair] + 1
  BY <1>3, <1>9, <1>10 DEF Shares
<1> HIDE DEF v, w
<1>13. /\ u \in [AllPairs -> Nat] /\ u[pair] = v[pair] + 1
       /\ \A x \in AllPairs \ {pair} : u[x] = v[x]
  BY <1>3, <1>11
<1> HIDE DEF u
<1>14. SumFunction(u) = SumFunction(v) - v[pair] + u[pair]
  BY <1>3, <1>11, <1>13, PairsFinite, SumChange
<1>15. \A x \in AllPairs : u[x] <= w[x]
  BY <1>11, <1>12, <1>13
<1>16. SumFunction(u) <= SumFunction(w)
  BY <1>11, <1>13, <1>15, PairsFinite, SumMonotone
<1>17. /\ SumFunction(u) \in Nat /\ SumFunction(v) \in Nat /\ SumFunction(w) \in Nat
       /\ v[pair] \in Nat /\ Cardinality(C) \in Nat
  BY <1>1, <1>3, <1>11, <1>13, PairsFinite, SumType, SizeOf
<1>18. Cardinality(C) <= SumFunction(v)
  BY <1>5 DEF v
<1>19. Cardinality(C) + 1 <= SumFunction(w)
  BY <1>13, <1>14, <1>16, <1>17, <1>18
<1> QED BY <1>4, <1>19 DEF w

---------------------------------------------------------------------------
\* What a run counts against the day.
Counted(run) == run.asked \cup run.charged

\* The run counts at least the posts asked, has room for what it counts, and counted the
\* posts in flight.
InRoom(run, asked) ==
  Roomy(Counted(run)) /\ asked \subseteq Counted(run) /\ run.inFlight \subseteq run.charged

CeilingInv ==
  Roomy(AskedToday) /\ \A j \in Jobs : Active(j) => InRoom(jobs[j].run, AskedToday)

\* The posts asked change with an answer, by the post that was in flight.
LEMMA AskedMore ==
  ASSUME TypeOK, NEW j \in Jobs, NEW p \in Posts, Answer(j, p)
  PROVE  AskedToday' \subseteq AskedToday \cup {p}
<1>1. jobs[j].run.version \in Versions
  BY DEF Answer, TypeOK, JobType, RunType
<1>2. \A v \in Versions, q \in Posts : q # p => scored'[v][q] = scored[v][q] /\ failed'[v][q] = failed[v][q]
  <2>1. CASE FailedAnswer(j, p)
    BY <1>1, <2>1 DEF FailedAnswer, TypeOK
  <2>2. CASE LowAnswer(j, p)
    BY <1>1, <2>2 DEF LowAnswer, TypeOK
  <2>3. CASE HighAnswer(j, p)
    BY <1>1, <2>3 DEF HighAnswer, TypeOK
  <2> QED BY <2>1, <2>2, <2>3 DEF Answer
<1> QED BY <1>2 DEF AskedToday

LEMMA AskedSame ==
  ASSUME UNCHANGED <<scored, failed>>
  PROVE  AskedToday' = AskedToday
BY DEF AskedToday

\* Room for a post, as the run counts it, is room for it in the day.
LEMMA RoomIsRoom ==
  ASSUME NEW run \in RunType, NEW p \in Posts, Limit # None, HasRoom(run, p)
  PROVE  Pairs[p] = {} \/ \E pair \in Pairs[p] : Cardinality(FoundBy(Counted(run), pair)) < Limit
<1> SUFFICES ASSUME NEW pair \in Pairs[p], Used(run, pair) < Limit
             PROVE  Cardinality(FoundBy(Counted(run), pair)) < Limit
  BY DEF HasRoom
<1> DEFINE a == FoundBy(run.asked, pair)
           c == FoundBy(run.charged, pair)
<1>1. a \in SUBSET Posts /\ c \in SUBSET Posts /\ FoundBy(Counted(run), pair) = a \cup c
  BY DEF RunType, FoundBy, Counted
<1>2. Used(run, pair) = Cardinality(a) + Cardinality(c)
  BY DEF Used, FoundBy
<1> HIDE DEF a, c
<1>3. Cardinality(a \cup c) = Cardinality(a) + Cardinality(c) - Cardinality(a \cap c)
  BY <1>1, SizeOf, FS_Union
<1>4. /\ Cardinality(a) \in Nat /\ Cardinality(c) \in Nat /\ Cardinality(a \cup c) \in Nat
      /\ Cardinality(a \cap c) \in Nat /\ Limit \in Nat
  <2>1. a \cup c \in SUBSET Posts /\ a \cap c \in SUBSET Posts
    BY <1>1
  <2> QED BY <1>1, <2>1, SizeOf, ClassifyAssumption
<1> QED BY <1>1, <1>2, <1>3, <1>4

\* A running job stays in its room, whatever it does next.
LEMMA RoomRun ==
  ASSUME TypeOK, Limit # None, NEW j \in Jobs, Active(j), Step(j) \/ Crash(j),
         InRoom(jobs[j].run, AskedToday)
  PROVE  Roomy(AskedToday') /\ (Active(j)' => InRoom(jobs'[j].run, AskedToday'))
<1> DEFINE a == jobs[j].run
           b == jobs'[j].run
<1>1. a \in RunType /\ jobs[j] \in JobType
  BY OneJobSteps
<1>2. CASE \E p \in Posts : Answer(j, p)
  <2>1. PICK p \in Posts : Answer(j, p)
    BY <1>2
  <2>2. CameBack(a, b, p)
    BY <2>1, AnswerMoves
  <2>3. AskedToday' \subseteq Counted(a)
    BY <2>1, <2>2, AskedMore DEF InRoom, CameBack, Counted
  <2>4. Counted(b) = Counted(a) /\ b.inFlight \subseteq b.charged
    BY <2>2 DEF CameBack, SameReadings, Counted, InRoom
  <2>5. Roomy(AskedToday')
    BY <2>3, RoomyPart DEF InRoom
  <2> QED BY <2>3, <2>4, <2>5 DEF InRoom
<1>3. CASE \A p \in Posts : ~Answer(j, p)
  <2>1. AskedToday' = AskedToday
    BY <1>3, CardsStay, AskedSame
  <2>2. Roomy(AskedToday')
    BY <2>1, RoomyPart DEF InRoom
  <2>3. ASSUME NEW p \in Posts,
               \/ SkipKnown(j, p) \/ HangOnCard(j, p) \/ LeaveAtCap(j, p) \/ RefuseAtCeiling(j, p)
        PROVE  InRoom(b, AskedToday)
    <3>1. Passed(a, b, p) /\ NoCall(a, b)
      BY <2>3, PassMoves
    <3>2. Counted(b) = Counted(a) /\ b.inFlight = a.inFlight /\ b.charged = a.charged
      BY <3>1 DEF Passed, NoCall, SameReadings, Counted
    <3> QED BY <3>2 DEF InRoom
  <2>4. ASSUME NEW p \in Posts, GiveUp(j, p) \/ Call(j, p)
        PROVE  InRoom(b, AskedToday)
    <3>1. /\ Passed(a, b, p) /\ HasRoom(a, p) /\ b.charged = a.charged \cup {p}
          /\ b.inFlight \in {a.inFlight, a.inFlight \cup {p}}
      BY <2>4, CallMoves
    <3>2. Counted(b) = Counted(a) \cup {p} /\ Counted(a) \in SUBSET Posts
      BY <1>1, <3>1 DEF Passed, SameReadings, Counted, RunType
    <3>3. Roomy(Counted(b))
      BY <1>1, <3>1, <3>2, RoomIsRoom, RoomyMore DEF InRoom
    <3>4. b.inFlight \subseteq b.charged
      BY <3>1 DEF InRoom
    <3> QED BY <3>2, <3>3, <3>4 DEF InRoom
  <2>5. ASSUME (\E p \in Posts : StopAtBudget(j, p)) \/ EndLoop(j) \/ WriteCopies(j) \/ WriteDrops(j)
        PROVE  InRoom(b, AskedToday)
    <3>1. Moved(a, b)
      BY <2>5, PlaceMoves
    <3>2. Counted(b) = Counted(a) /\ b.inFlight = a.inFlight /\ b.charged = a.charged
      BY <3>1 DEF Moved, SameReadings, Counted
    <3> QED BY <3>2 DEF InRoom
  <2>6. ~(RefuseWithoutModel(j) \/ Start(j))
    BY DEF Active, RefuseWithoutModel, Start
  <2>7. Active(j)' => ~Finish(j) /\ ~Crash(j)
    <3>1. TryAgain(j) => ~Active(j)'
      BY TryAgainStops DEF Active
    <3>2. ASSUME jobs' = [jobs EXCEPT ![j].pc = "done", ![j].outcome = Outcome(jobs[j].run)]
          PROVE  ~Active(j)'
      BY <1>1, <3>2 DEF Active, TypeOK, JobType
    <3> QED BY <3>1, <3>2 DEF Finish, Crash
  <2>8. Active(j)' => InRoom(b, AskedToday)
    BY <1>3, <2>3, <2>4, <2>5, <2>6, <2>7 DEF Step
  <2> QED BY <2>1, <2>2, <2>8
<1> QED BY <1>2, <1>3

LEMMA RoomStart ==
  ASSUME TypeOK, NEW j \in Jobs, Start(j), Roomy(AskedToday)
  PROVE  InRoom(jobs'[j].run, AskedToday)
<1> DEFINE run == jobs'[j].run
<1>1. jobs[j] \in JobType
  BY DEF Start, TypeOK
<1>2. run.asked = AskedToday /\ run.charged = {} /\ run.inFlight = {}
  BY <1>1 DEF Start, TypeOK, JobType, Blank
<1> HIDE DEF run
<1>3. Counted(run) = AskedToday
  BY <1>2 DEF Counted
<1> QED BY <1>2, <1>3 DEF InRoom, run

LEMMA CeilingStep ==
  ASSUME Limit # None, Inv, CeilingInv, [Next]_vars
  PROVE  CeilingInv'
<1>1. TypeOK /\ Alone
  BY DEF Inv
<1>2. ASSUME Roomy(AskedToday'), \A i \in Jobs : Active(i)' => InRoom(jobs'[i].run, AskedToday')
      PROVE  CeilingInv'
  <2>1. AskedToday' = {p \in Posts : \E v \in Versions : scored'[v][p] + failed'[v][p] > 0}
    BY DEF AskedToday
  <2> QED BY <1>2, <2>1 DEF CeilingInv, InRoom, Roomy, Searched, Shares, Share, FoundBy, Counted, AskedToday
<1>3. CASE UNCHANGED <<scored, failed, jobs>>
  <2>1. AskedToday' = AskedToday
    BY <1>3, AskedSame
  <2> QED BY <1>2, <1>3, <2>1 DEF CeilingInv, Active
<1>4. ASSUME NEW j \in Jobs, NEW batch, NEW walk, HandBatch(j, batch, walk) PROVE CeilingInv'
  <2>1. AskedToday' = AskedToday
    BY <1>4, AskedSame DEF HandBatch
  <2>2. jobs'[j].pc = "queued" /\ \A i \in Jobs : i # j => jobs'[i] = jobs[i]
    BY <1>1, <1>4 DEF HandBatch, TypeOK
  <2>3. \A i \in Jobs : Active(i)' => InRoom(jobs'[i].run, AskedToday)
    BY <2>2 DEF CeilingInv, Active
  <2> QED BY <1>2, <2>1, <2>3 DEF CeilingInv
<1>5. ASSUME NEW j \in Jobs, Step(j) \/ Crash(j) PROVE CeilingInv'
  <2>1. \A i \in Jobs : i # j => jobs'[i] = jobs[i]
    BY <1>1, <1>5, OneJobSteps DEF OnlyJob
  <2>2. CASE Active(j)
    <3>1. Roomy(AskedToday') /\ (Active(j)' => InRoom(jobs'[j].run, AskedToday'))
      BY <1>1, <1>5, <2>2, RoomRun DEF CeilingInv
    <3>2. \A i \in Jobs : Active(i)' => i = j
      BY <1>1, <2>1, <2>2 DEF Alone, Active
    <3> QED BY <1>2, <3>1, <3>2
  <2>3. CASE ~Active(j)
    <3>1. AskedToday' = AskedToday
      <4>1. \A p \in Posts : ~Answer(j, p)
        BY <2>3 DEF Answer, Active
      <4> QED BY <1>1, <1>5, <4>1, CardsStay, AskedSame
    <3>2. ASSUME NEW i \in Jobs, Active(i)' PROVE InRoom(jobs'[i].run, AskedToday)
      <4>1. CASE i = j
        <5>1. Start(j)
          BY <1>1, <1>5, <2>3, <3>2, <4>1, RanBefore
        <5> QED BY <1>1, <4>1, <5>1, RoomStart DEF CeilingInv
      <4>2. CASE i # j
        <5>1. jobs'[i] = jobs[i] /\ Active(i)
          BY <2>1, <3>2, <4>2 DEF Active
        <5> QED BY <5>1 DEF CeilingInv
      <4> QED BY <4>1, <4>2
    <3> QED BY <1>2, <3>1, <3>2 DEF CeilingInv
  <2> QED BY <2>2, <2>3
<1>6. CASE UNCHANGED vars
  BY <1>3, <1>6 DEF vars
<1>7. CASE BeginWalk \/ Redefine \/ \E p \in Posts : DeletePost(p)
  BY <1>3, <1>7 DEF BeginWalk, Redefine, DeletePost
<1> QED BY <1>4, <1>5, <1>6, <1>7 DEF Next

\* With one worker process, the posts put to the model in a day are no more than its pairs
\* may put to it, however the searches overlap and whatever runs repeat, fail or die
\* (ceiling.ts:69, classify.ts:826).
THEOREM DayKeepsItsCeiling == OneProcess => (Spec => []CeilingHolds)
<1> SUFFICES ASSUME OneProcess PROVE Spec => []CeilingHolds
  OBVIOUS
<1>1. CASE Limit = None
  <2>1. CeilingHolds
    BY <1>1 DEF CeilingHolds
  <2> QED BY <2>1, PTL
<1>2. CASE Limit # None
  <2>1. Init => CeilingInv
    <3>1. ASSUME Init PROVE CeilingInv
      <4>1. AskedToday = {} /\ \A j \in Jobs : jobs[j] = None
        BY <3>1 DEF Init, AskedToday
      <4>2. Roomy({})
        <5>1. Shares({}) \in [AllPairs -> Nat] /\ Cardinality({}) = 0
          BY <1>2, SharesType, FS_EmptySet
        <5>2. SumFunction(Shares({})) \in Nat
          BY <5>1, PairsFinite, SumType
        <5>3. \A B \in SUBSET Searched({}) : B = {}
          BY DEF Searched
        <5> QED BY <5>1, <5>2, <5>3 DEF Roomy
      <4> QED BY <4>1, <4>2 DEF CeilingInv, Active
    <3> QED BY <3>1
  <2>2. Inv /\ CeilingInv /\ [Next]_vars => CeilingInv'
    BY <1>2, CeilingStep
  <2>3. CeilingInv => CeilingHolds
    <3>1. AskedToday \in SUBSET Posts /\ Searched(AskedToday) = {p \in AskedToday : Pairs[p] # {}}
      BY DEF AskedToday, Searched
    <3> QED BY <1>2, <3>1, RoomyBound DEF CeilingInv, CeilingHolds, AllPairs
  <2> QED BY <2>1, <2>2, <2>3, Invariant, PTL DEF Spec
<1> QED BY <1>1, <1>2
=============================================================================
