--------------------------- MODULE CollectProofs ---------------------------
(***************************************************************************)
(* Proofs about Collect, for every set of units and providers, every bound *)
(* and every set of faults.                                                *)
(***************************************************************************)
EXTENDS Collect, FiniteSetTheorems, TLAPS

---------------------------------------------------------------------------
\* The inductive invariant.

\* A saved place sits under the provider that issued its cursor, and was
\* opened with the window its unit's coverage still leaves open.
PlacesAreOwn ==
  \A pair \in Pairs : cont[pair] # None =>
    /\ cont[pair].provider = pair[2]
    /\ cont[pair].issuer = pair[2]
    /\ cont[pair].since = covered[pair[1]]

\* The units the poll in flight has yet to read, or is reading.
Ahead == poll.todo \cup (IF poll.pc = "read" THEN {read.unit} ELSE {})

\* What the poll read of those units' places is still what the table holds, or
\* an edit has removed it since.
PlacesAsRead ==
  \A u \in Ahead :
    /\ \A p \in Providers : cont[<<u, p>>] \in {None, poll.pending[u]}
    /\ poll.pending[u] # None => poll.pending[u].since = covered[u]

PendingIsOwn ==
  \A u \in Units :
    poll.pending[u] # None => poll.pending[u].issuer = poll.pending[u].provider

\* The read in flight: the unit has left the poll's list, and a resume has
\* attempts left and the provider of its row.
ReadIsOwn ==
  IF poll.pc \in {"read", "cover"}
  THEN /\ read.unit \in Units \ poll.todo
       /\ read.via \in Providers
       /\ read.via = read.issuer
       /\ read.window = covered[read.unit]
       /\ IF read.resumed
          THEN /\ poll.pending[read.unit] # None
               /\ poll.pending[read.unit].provider = read.via
               /\ poll.pending[read.unit].attempts < MaxResumeAttempts
          ELSE poll.pending[read.unit] = None
  ELSE read = NoRead

\* A unit read to its end has no place left.
CoverIsLast ==
  poll.pc = "cover" => \A p \in Providers : cont[<<read.unit, p>>] = None

PollIsOwn ==
  /\ poll.pc = "idle" => poll.todo = {}
  /\ poll.pc # "hand" => poll.rows = 0

Placed ==
  /\ PlacesAreOwn
  /\ AtMostOneCollection
  /\ PlacesAsRead
  /\ PendingIsOwn
  /\ ReadIsOwn
  /\ CoverIsLast
  /\ PollIsOwn

Inv == TypeOK /\ Placed

---------------------------------------------------------------------------
\* The queue's slots keep their type.

LEMMA SlotsTaken ==
  ASSUME queue \in Slots
  PROVE  Taken \subseteq Slots
BY DEF Taken, Slots

LEMMA SlotsRequeued ==
  ASSUME NEW q \in Slots
  PROVE  Requeued(q) \subseteq Slots
BY DEF Requeued, Slots

LEMMA SlotsSent ==
  ASSUME queue \in Slots, NEW t \in Time
  PROVE  Send(t) \in Slots
BY DEF Send, Slots

LEMMA IdleType ==
  /\ IdlePoll \in PollJobs /\ NoRead \in Reads /\ NoPosts \in [Units -> SUBSET Posts]
  /\ 0 \in Time
<1> USE CollectAssumption
<1>1. 0 \in Time /\ NoPosts \in [Units -> SUBSET Posts]
  BY DEF Time, NoPosts
<1>2. IdlePoll \in PollJobs
  BY <1>1 DEF IdlePoll, PollJobs
<1>3. NoRead \in Reads
  BY <1>1 DEF NoRead, Reads, Ends
<1> QED BY <1>1, <1>2, <1>3

\* The invariant holds when nothing was polled yet: no place is saved and no poll runs.
THEOREM InvInit == Init => Inv
<1> SUFFICES ASSUME Init PROVE Inv
  OBVIOUS
<1> USE CollectAssumption
<1>1. TypeOK
  <2>1. clock \in Time /\ covered \in [Units -> Time] /\ queue \in Slots
    BY IdleType DEF Init, Slots
  <2>2. cont \in [Pairs -> Rows \cup {None}]
    BY DEF Init
  <2>3. paused \in BOOLEAN /\ units \in SUBSET Units /\ keys \in SUBSET Providers
    BY DEF Init
  <2>4. choice \in Providers \cup {None} /\ poll \in PollJobs /\ read \in Reads
    BY IdleType DEF Init
  <2>5. /\ stored \in [Units -> SUBSET Posts] /\ handed \in [Units -> SUBSET Posts]
        /\ bought \in [Units -> SUBSET Posts] /\ rebought \in BOOLEAN
    BY IdleType DEF Init
  <2>6. failing \in [Units -> Nat] /\ adrift \in SUBSET Pairs /\ lastRows \in 0..2
    BY DEF Init
  <2> QED BY <2>1, <2>2, <2>3, <2>4, <2>5, <2>6 DEF TypeOK
<1>2. cont = [pair \in Pairs |-> None] /\ poll = IdlePoll /\ read = NoRead
  BY DEF Init
<1>3. PlacesAreOwn /\ AtMostOneCollection
  BY <1>2 DEF PlacesAreOwn, AtMostOneCollection, Pairs
<1>4. PlacesAsRead /\ PendingIsOwn /\ ReadIsOwn /\ CoverIsLast /\ PollIsOwn
  BY <1>2 DEF PlacesAsRead, PendingIsOwn, ReadIsOwn, CoverIsLast, PollIsOwn, Ahead, IdlePoll, NoRead
<1> QED BY <1>1, <1>3, <1>4 DEF Inv, Placed

---------------------------------------------------------------------------
\* Every step keeps the types.

LEMMA TimeOps ==
  /\ \A t \in Time : Later(t) \in Time
  /\ \A a, b \in Time : Latest(a, b) \in Time
  /\ \A w \in Time \cup {None}, t \in Time : Earliest(w, t) \in Time
BY CollectAssumption DEF Time, Later, Latest, Earliest

LEMMA KeyedProvider ==
  ASSUME TypeOK, NEW u \in Units, ~Unreadable(u)
  PROVE  ProviderFor(u) \in Providers
<1>1. CASE poll.pending[u] # None
  BY <1>1 DEF ProviderFor, TypeOK, PollJobs, Rows
<1>2. CASE poll.pending[u] = None /\ poll.choice # None
  BY <1>2 DEF ProviderFor, TypeOK, PollJobs
<1>3. CASE poll.pending[u] = None /\ poll.choice = None
  <2>1. Cardinality(keys) = 1
    BY <1>3 DEF Unreadable, Decided
  <2>2. keys # {}
    BY <2>1, FS_EmptySet
  <2>3. (CHOOSE p \in keys : TRUE) \in keys
    BY <2>2
  <2> QED BY <1>3, <2>3 DEF ProviderFor, TypeOK
<1> QED BY <1>1, <1>2, <1>3

LEMMA CloseType ==
  ASSUME TypeOK, NEW wake \in Time \cup {None}, Close(wake)
  PROVE  poll' \in PollJobs
<1>1. poll \in PollJobs /\ read \in Reads
  BY DEF TypeOK
<1>2. poll.wake \in Time \cup {None} /\ read.got \in SUBSET Posts
  BY <1>1 DEF PollJobs, Reads
<1>3. (IF wake = None THEN poll.wake ELSE Earliest(poll.wake, wake)) \in Time \cup {None}
  BY <1>2, TimeOps
<1>4. [poll.batch EXCEPT ![read.unit] = @ \cup read.got] \in [Units -> SUBSET Posts]
  BY <1>1, <1>2 DEF PollJobs
<1>5. poll' = [poll EXCEPT !.pc = "units", !.answered = TRUE,
                 !.batch = [poll.batch EXCEPT ![read.unit] = @ \cup read.got],
                 !.wake = IF wake = None THEN poll.wake ELSE Earliest(poll.wake, wake)]
  BY DEF Close
<1> QED BY <1>1, <1>3, <1>4, <1>5 DEF PollJobs

LEMMA RememberType ==
  ASSUME Inv, poll.pc = "read", NEW t \in Time, Remember(t)
  PROVE  cont' \in [Pairs -> Rows \cup {None}] /\ cont'[<<read.unit, read.via>>] \in Rows
<1> DEFINE pair == <<read.unit, read.via>>
           old == cont[pair]
<1>1. /\ cont \in [Pairs -> Rows \cup {None}] /\ read \in Reads /\ clock \in Time
      /\ pair \in Pairs /\ read.via \in Providers
  BY DEF Inv, Placed, TypeOK, ReadIsOwn, Pairs
<1>2. read.rest \in SUBSET Posts /\ read.window \in Time
  BY <1>1 DEF Reads
<1>3. CASE old = None
  <2> DEFINE new == [provider |-> read.via, rest |-> read.rest, issuer |-> read.via,
                     since |-> read.window, startedAt |-> clock,
                     resumeAfter |-> t, attempts |-> 0]
  <2>1. new \in Rows
    BY <1>1, <1>2, CollectAssumption DEF Rows
  <2>2. cont' = [cont EXCEPT ![pair] = new]
    BY <1>3 DEF Remember
  <2> HIDE DEF new
  <2> QED BY <1>1, <2>1, <2>2
<1>4. CASE old # None
  <2>1. old \in Rows /\ old = poll.pending[read.unit]
    BY <1>1, <1>4 DEF Inv, Placed, PlacesAsRead, Ahead, Pairs
  <2>2. old.attempts \in Nat /\ old.attempts < MaxResumeAttempts
    BY <1>4, <2>1, CollectAssumption DEF Inv, Placed, ReadIsOwn, Rows
  <2> DEFINE more == IF Progressed THEN 0 ELSE old.attempts + 1
             new == [old EXCEPT !.rest = read.rest, !.issuer = read.via,
                                !.resumeAfter = t, !.attempts = more]
  <2>3. more \in 0..MaxResumeAttempts
    BY <2>2, CollectAssumption
  <2>4. cont' = [cont EXCEPT ![pair] = new]
    BY <1>4 DEF Remember
  <2> HIDE DEF pair, old, more
  <2>5. new \in Rows
    BY <1>1, <1>2, <2>1, <2>3 DEF Rows
  <2> HIDE DEF new
  <2>6. cont' \in [Pairs -> Rows \cup {None}] /\ cont'[pair] \in Rows
    BY <1>1, <2>4, <2>5
  <2> QED BY <2>6 DEF pair
<1> QED BY <1>3, <1>4

\* No step of a poll, a person or a source leaves the types, the limit of attempts included.
THEOREM TypeStep == Inv /\ [Next]_vars => TypeOK'
<1> SUFFICES ASSUME Inv, [Next]_vars PROVE TypeOK'
  OBVIOUS
<1> USE CollectAssumption
<1> USE DEF TypeOK, userVars, dataVars, ghostVars
<1>0. TypeOK /\ poll \in PollJobs /\ read \in Reads
  BY DEF Inv
<1>1. CASE Tick
  BY <1>0, <1>1 DEF Tick, Time
<1>2. CASE SetPaused
  BY <1>0, <1>2 DEF SetPaused
<1>3. CASE SetConnections
  BY <1>0, <1>3 DEF SetConnections
<1>4. CASE EditUnits
  BY <1>0, <1>4 DEF EditUnits
<1>5. CASE Schedule
  BY <1>0, <1>5, SlotsSent DEF Schedule
<1>6. CASE RefuseForBudget
  <2>1. queue' \in Slots /\ paused' \in BOOLEAN
    BY <1>0, <1>6, SlotsTaken DEF RefuseForBudget, TakeJob
  <2>2. adrift' \in SUBSET Pairs
    BY <1>0, <1>6 DEF RefuseForBudget, WriteRow, InFlight
  <2> QED BY <1>0, <1>6, <2>1, <2>2, IdleType DEF RefuseForBudget, Return
<1>7. CASE BreakBeforeOpen
  <2>1. queue' \in Slots
    BY <1>0, <1>7, SlotsTaken, SlotsRequeued DEF BreakBeforeOpen
  <2>2. adrift' \in SUBSET Pairs
    BY <1>0, <1>7 DEF BreakBeforeOpen, WriteRow, InFlight
  <2> QED BY <1>0, <1>7, <2>1, <2>2, IdleType DEF BreakBeforeOpen, Return
<1>8. CASE SkipEmptyTurn
  BY <1>0, <1>8, IdleType, SlotsTaken DEF SkipEmptyTurn, TakeJob, Return
<1>9. CASE OpenPoll
  <2>1. queue' \in Slots
    BY <1>0, <1>9, SlotsTaken DEF OpenPoll, TakeJob
  <2>2. \A u \in Units : PendingOf(u) \in Rows \cup {None}
    <3> SUFFICES ASSUME NEW u \in Units, \E p \in Providers : cont[<<u, p>>] # None
                 PROVE  PendingOf(u) \in Rows \cup {None}
      BY DEF PendingOf
    <3> DEFINE q == CHOOSE p \in Providers : cont[<<u, p>>] # None
    <3>1. q \in Providers
      OBVIOUS
    <3>2. PendingOf(u) = cont[<<u, q>>]
      BY DEF PendingOf
    <3> HIDE DEF q
    <3> QED BY <1>0, <3>1, <3>2 DEF Pairs
  <2>3. Resuming \in BOOLEAN
    BY DEF Resuming
  <2>4. PICK turn \in Turns :
          poll' = [IdlePoll EXCEPT
                     !.pc = "units", !.now = clock, !.choice = choice, !.todo = turn,
                     !.pending = [u \in Units |-> PendingOf(u)],
                     !.resuming = Resuming, !.openedPaused = paused]
    BY <1>9 DEF OpenPoll
  <2>5. turn \in SUBSET Units
    BY <1>0, <2>4 DEF Turns
  <2>6. poll' \in PollJobs
    BY <1>0, <2>2, <2>3, <2>4, <2>5, IdleType DEF PollJobs
  <2> QED BY <1>0, <1>9, <2>1, <2>6 DEF OpenPoll
<1>10. ASSUME NEW u \in Units, SkipUnit(u) PROVE TypeOK'
  <2>1. poll' \in PollJobs
    BY <1>0, <1>10 DEF SkipUnit, PollJobs
  <2> QED BY <1>0, <1>10, <2>1 DEF SkipUnit
<1>11. ASSUME NEW u \in Units, AbandonUnit(u) PROVE TypeOK'
  <2>1. poll' \in PollJobs
    BY <1>0, <1>11 DEF AbandonUnit, PollJobs
  <2>2. cont' \in [Pairs -> Rows \cup {None}] /\ adrift' \in SUBSET Pairs
    BY <1>0, <1>11 DEF AbandonUnit, Forget
  <2>3. bought' \in [Units -> SUBSET Posts] /\ failing' \in [Units -> Nat]
    BY <1>0, <1>11 DEF AbandonUnit
  <2> QED BY <1>0, <1>11, <2>1, <2>2, <2>3 DEF AbandonUnit
<1>12. ASSUME NEW u \in Units, WaitForUnit(u) PROVE TypeOK'
  <2>1. poll.pending[u] \in Rows
    BY <1>0, <1>12 DEF WaitForUnit, Resting, PollJobs
  <2>2. poll.pending[u].resumeAfter \in Time
    BY <2>1 DEF Rows
  <2>3. Earliest(poll.wake, poll.pending[u].resumeAfter) \in Time
    BY <1>0, <2>2, TimeOps DEF PollJobs
  <2>4. poll' \in PollJobs
    BY <1>0, <1>12, <2>3 DEF WaitForUnit, PollJobs
  <2> QED BY <1>0, <1>12, <2>4 DEF WaitForUnit
<1>13. ASSUME NEW u \in Units, BeginRead(u) PROVE TypeOK'
  <2>1. poll' \in PollJobs
    BY <1>0, <1>13 DEF BeginRead, PollJobs
  <2>2. ProviderFor(u) \in Providers
    BY <1>0, <1>13, KeyedProvider DEF BeginRead
  <2>3. ((covered[u] + 1)..clock) \in SUBSET Posts
    BY <1>0 DEF Time, Posts
  <2>4. CASE poll.pending[u] = None
    <3>1. read'.via \in Providers /\ read' =
            [unit |-> u, via |-> ProviderFor(u), got |-> {}, pages |-> 0, end |-> None,
             resumed |-> FALSE, window |-> covered[u], startedAt |-> poll.now,
             issuer |-> ProviderFor(u), rest |-> (covered[u] + 1)..clock]
      BY <1>13, <2>2, <2>4 DEF BeginRead, WalkStartedAt
    <3>2. read' \in Reads
      BY <1>0, <2>2, <2>3, <3>1 DEF Reads, PollJobs
    <3> QED BY <1>0, <1>13, <2>1, <3>2 DEF BeginRead
  <2>5. CASE poll.pending[u] # None
    <3> DEFINE row == poll.pending[u]
    <3>1. row \in Rows
      BY <1>0, <2>5 DEF PollJobs
    <3>2. read' =
            [unit |-> u, via |-> ProviderFor(u), got |-> {}, pages |-> 0, end |-> None,
             resumed |-> TRUE, window |-> row.since, startedAt |-> row.startedAt,
             issuer |-> row.issuer, rest |-> row.rest]
      BY <1>13, <2>5 DEF BeginRead, WalkStartedAt
    <3>3. row.since \in Time /\ row.startedAt \in Time /\ row.issuer \in Providers /\ row.rest \in SUBSET Posts
      BY <3>1 DEF Rows
    <3> HIDE DEF row
    <3>4. read' \in Reads
      BY <2>2, <3>2, <3>3 DEF Reads
    <3> QED BY <1>0, <1>13, <2>1, <3>4 DEF BeginRead
  <2> QED BY <2>4, <2>5
<1>14. CASE ReadPage
  <2>1. read.unit \in Units
    BY <1>14 DEF ReadPage, Inv, Placed, ReadIsOwn
  <2>2. PICK page \in SUBSET read.rest, next \in Ends :
          /\ read' = [read EXCEPT
                       !.rest = @ \ page, !.got = @ \cup page, !.pages = @ + 1,
                       !.end = IF next = "more" /\ read.pages + 1 < PageCap
                               THEN None ELSE next]
          /\ bought' = [bought EXCEPT ![read.unit] = @ \cup page]
          /\ rebought' = (rebought \/ page \cap bought[read.unit] # {})
    BY <1>14 DEF ReadPage
  <2>3. page \in SUBSET Posts /\ read.pages + 1 \in 0..PageCap
    BY <1>0, <1>14, <2>2 DEF ReadPage, Reads
  <2>4. read' \in Reads
    BY <1>0, <2>2, <2>3 DEF Reads
  <2>5. bought' \in [Units -> SUBSET Posts] /\ rebought' \in BOOLEAN
    BY <1>0, <2>1, <2>2, <2>3
  <2>6. failing' \in [Units -> Nat]
    BY <1>0, <1>14 DEF ReadPage
  <2> QED BY <1>0, <1>14, <2>4, <2>5, <2>6 DEF ReadPage
<1>15. CASE FailUnit
  <2>1. poll' \in PollJobs
    BY <1>0, <1>15 DEF FailUnit, PollJobs
  <2>2. failing' \in [Units -> Nat]
    <3>1. (IF read.resumed /\ failing[read.unit] <= MaxResumeAttempts
           THEN failing[read.unit] + 1 ELSE failing[read.unit]) \in Nat
      BY <1>0, <1>15 DEF FailUnit, Inv, Placed, ReadIsOwn
    <3>2. failing' = [failing EXCEPT ![read.unit] =
                        IF read.resumed /\ failing[read.unit] <= MaxResumeAttempts
                        THEN failing[read.unit] + 1 ELSE failing[read.unit]]
      BY <1>15 DEF FailUnit
    <3> QED BY <1>0, <3>1, <3>2
  <2> QED BY <1>0, <1>15, <2>1, <2>2, IdleType DEF FailUnit
<1>16. CASE FailLaterPage
  <2>1. read' \in Reads
    BY <1>0, <1>16 DEF FailLaterPage, Reads
  <2> QED BY <1>0, <1>16, <2>1 DEF FailLaterPage
<1>17. CASE RememberWalk
  <2>1. ResumeAt \in Time
    BY <1>0, <1>17, TimeOps DEF RememberWalk, ResumeAt, PollJobs
  <2>2. poll' \in PollJobs
    BY <1>0, <1>17, <2>1, CloseType DEF RememberWalk
  <2>3. cont' \in [Pairs -> Rows \cup {None}]
    BY <1>17, <2>1, RememberType DEF RememberWalk
  <2> QED BY <1>0, <1>17, <2>2, <2>3, IdleType DEF RememberWalk, Close
<1>18. CASE ForgetWithdrawn
  <2>1. poll' \in PollJobs
    BY <1>0, <1>18, TimeOps, CloseType DEF ForgetWithdrawn
  <2>2. cont' \in [Pairs -> Rows \cup {None}] /\ adrift' \in SUBSET Pairs
    BY <1>0, <1>18 DEF ForgetWithdrawn, Forget
  <2>3. bought' \in [Units -> SUBSET Posts]
    BY <1>0, <1>18 DEF ForgetWithdrawn
  <2> QED BY <1>0, <1>18, <2>1, <2>2, <2>3, IdleType DEF ForgetWithdrawn, Close
<1>19. CASE ForgetRead
  <2>1. poll' \in PollJobs
    BY <1>0, <1>19 DEF ForgetRead, PollJobs
  <2>2. cont' \in [Pairs -> Rows \cup {None}] /\ adrift' \in SUBSET Pairs
    BY <1>0, <1>19 DEF ForgetRead, Forget
  <2> QED BY <1>0, <1>19, <2>1, <2>2 DEF ForgetRead
<1>20. CASE RecordCoverage
  <2>1. poll' \in PollJobs
    BY <1>0, <1>20, CloseType DEF RecordCoverage
  <2>2. read.startedAt \in Time
    BY <1>0 DEF Reads
  <2>3. covered' \in [Units -> Time]
    BY <1>0, <1>20, <2>2, TimeOps DEF RecordCoverage
  <2> QED BY <1>0, <1>20, <2>1, <2>3, IdleType DEF RecordCoverage, Close
<1>21. ASSUME Throw, UNCHANGED <<clock, cont, covered, userVars, dataVars, bought, rebought, failing>>,
              poll.rows \in 0..1
       PROVE  TypeOK'
  <2>1. queue' \in Slots
    BY <1>0, <1>21, SlotsRequeued DEF Throw
  <2>2. adrift' \in SUBSET Pairs
    BY <1>0, <1>21 DEF Throw, WriteRow, InFlight
  <2>3. poll' = IdlePoll /\ read' = NoRead /\ lastRows' \in 0..2
    BY <1>21 DEF Throw, Return
  <2> QED BY <1>0, <1>21, <2>1, <2>2, <2>3, IdleType
<1>22. poll.rows \in 0..1
  BY <1>0 DEF PollJobs
<1>23. CASE FailPoll
  BY <1>21, <1>22, <1>23 DEF FailPoll
<1>24. CASE BookAlarm
  <2>1. queue' \in Slots
    BY <1>0, <1>24, SlotsSent DEF BookAlarm, PollJobs
  <2>2. CASE Empty(poll.batch)
    <3>1. adrift' \in SUBSET Pairs
      BY <1>0, <1>24, <2>2 DEF BookAlarm, WriteRow, InFlight
    <3>2. poll' = IdlePoll /\ read' = NoRead /\ lastRows' \in 0..2
      BY <1>22, <1>24, <2>2 DEF BookAlarm, Return
    <3> QED BY <1>0, <1>24, <2>1, <3>1, <3>2, IdleType DEF BookAlarm
  <2>3. CASE ~Empty(poll.batch)
    <3>1. poll' \in PollJobs
      BY <1>0, <1>24, <2>3 DEF BookAlarm, PollJobs
    <3> QED BY <1>0, <1>24, <2>1, <2>3, <3>1 DEF BookAlarm
  <2> QED BY <2>2, <2>3
<1>25. CASE StorePosts
  <2>1. poll.rows = 0
    BY <1>25 DEF StorePosts, Inv, Placed, PollIsOwn
  <2>2. poll' \in PollJobs
    <3>1. poll' = [poll EXCEPT !.pc = "hand", !.rows = 1]
      BY <1>25, <2>1 DEF StorePosts
    <3> HIDE DEF TypeOK
    <3> DEFINE handing == [poll EXCEPT !.pc = "hand"]
    <3>2. handing \in PollJobs
      BY <1>0 DEF PollJobs
    <3>3. poll' = [handing EXCEPT !.rows = 1]
      BY <3>1
    <3> HIDE DEF handing
    <3>4. 1 \in 0..1
      OBVIOUS
    <3> QED BY <3>2, <3>3, <3>4 DEF PollJobs
  <2>3. adrift' \in SUBSET Pairs
    BY <1>0, <1>25 DEF StorePosts, WriteRow, InFlight
  <2>4. stored' \in [Units -> SUBSET Posts]
    BY <1>0, <1>25 DEF StorePosts, PollJobs
  <2> QED BY <1>0, <1>25, <2>2, <2>3, <2>4 DEF StorePosts
<1>26. CASE HandOn
  <2>1. handed' \in [Units -> SUBSET Posts]
    BY <1>0, <1>26 DEF HandOn, PollJobs
  <2> QED BY <1>0, <1>22, <1>26, <2>1, IdleType DEF HandOn, Return
<1>27. CASE BreakPoll
  BY <1>21, <1>22, <1>27 DEF BreakPoll
<1>28. CASE Crash
  <2>1. queue' \in Slots
    BY <1>0, <1>28, SlotsRequeued DEF Crash
  <2>2. adrift' \in SUBSET Pairs
    BY <1>0, <1>28 DEF Crash, InFlight
  <2> QED BY <1>0, <1>28, <2>1, <2>2, IdleType DEF Crash
<1>29. CASE UNCHANGED vars
  BY <1>0, <1>29 DEF vars
<1> QED
  BY <1>1, <1>2, <1>3, <1>4, <1>5, <1>6, <1>7, <1>8, <1>9, <1>10, <1>11, <1>12, <1>13, <1>14,
     <1>15, <1>16, <1>17, <1>18, <1>19, <1>20, <1>23, <1>24, <1>25, <1>26, <1>27, <1>28, <1>29
  DEF Next, Worker, Environment

---------------------------------------------------------------------------
\* Every step keeps the places in order.

\* The step leaves every saved place as it was, or removes it.
OnlyRemoves == \A pair \in Pairs : cont'[pair] \in {cont[pair], None}

LEMMA PlacesKept ==
  ASSUME Inv, covered' = covered, OnlyRemoves
  PROVE  PlacesAreOwn' /\ AtMostOneCollection'
BY DEF OnlyRemoves, Inv, Placed, PlacesAreOwn, AtMostOneCollection, Pairs

\* The poll is over: nothing of it is left to relate to the table.
LEMMA PollOver ==
  ASSUME poll' = IdlePoll, read' = NoRead
  PROVE  PlacesAsRead' /\ PendingIsOwn' /\ ReadIsOwn' /\ CoverIsLast' /\ PollIsOwn'
BY DEF PlacesAsRead, Ahead, PendingIsOwn, ReadIsOwn, CoverIsLast, PollIsOwn, IdlePoll

LEMMA StepOver ==
  ASSUME Inv, covered' = covered, OnlyRemoves, poll' = IdlePoll, read' = NoRead
  PROVE  Placed'
BY PlacesKept, PollOver DEF Placed

\* The poll did not move.
LEMMA StepAside ==
  ASSUME Inv, covered' = covered, OnlyRemoves, poll' = poll, read' = read
  PROVE  Placed'
<1>1. PlacesAreOwn' /\ AtMostOneCollection'
  BY PlacesKept
<1>2. \A u \in Ahead : u \in Units
  BY DEF Ahead, Inv, Placed, TypeOK, PollJobs, ReadIsOwn
<1>3. PlacesAsRead'
  BY <1>2 DEF OnlyRemoves, Inv, Placed, PlacesAsRead, Ahead, Pairs
<1>4. CoverIsLast'
  BY DEF OnlyRemoves, Inv, Placed, CoverIsLast, ReadIsOwn, Pairs
<1>5. PendingIsOwn' /\ ReadIsOwn' /\ PollIsOwn'
  BY DEF Inv, Placed, PendingIsOwn, ReadIsOwn, PollIsOwn
<1> QED BY <1>1, <1>3, <1>4, <1>5 DEF Placed

\* The poll puts a unit behind it, and remembers the same places.
LEMMA StepPast ==
  ASSUME Inv, covered' = covered, OnlyRemoves,
         poll.pc # "idle", poll'.pc \in {"units", "store", "hand"},
         poll'.todo \subseteq poll.todo, poll'.pending = poll.pending,
         poll'.pc # "hand" => poll'.rows = 0, read' = NoRead
  PROVE  Placed'
<1>1. PlacesAreOwn' /\ AtMostOneCollection'
  BY PlacesKept
<1>2. poll.todo \subseteq Units
  BY DEF Inv, TypeOK, PollJobs
<1>3. PlacesAsRead'
  BY <1>2 DEF OnlyRemoves, Inv, Placed, PlacesAsRead, Ahead, Pairs
<1>4. CoverIsLast' /\ PendingIsOwn' /\ ReadIsOwn' /\ PollIsOwn'
  BY DEF Inv, Placed, CoverIsLast, PendingIsOwn, ReadIsOwn, PollIsOwn
<1> QED BY <1>1, <1>3, <1>4 DEF Placed

LEMMA Unchanged ==
  ASSUME TypeOK, cont' = cont
  PROVE  OnlyRemoves
BY DEF OnlyRemoves

LEMMA Forgotten ==
  ASSUME TypeOK, NEW pair, Forget(pair)
  PROVE  OnlyRemoves
BY DEF OnlyRemoves, Forget, TypeOK

LEMMA IdleReads ==
  ASSUME Inv, poll.pc \in {"idle", "units", "store", "hand"}
  PROVE  read = NoRead
BY DEF Inv, Placed, ReadIsOwn

\* No step leaves a saved place, or what a poll believes of one, with another unit,
\* provider or window than its own.
THEOREM PlacedStep == Inv /\ [Next]_vars => Placed'
<1> SUFFICES ASSUME Inv, [Next]_vars PROVE Placed'
  OBVIOUS
<1> USE DEF userVars, dataVars, ghostVars
<1>0. TypeOK /\ Placed /\ poll \in PollJobs /\ read \in Reads
  BY DEF Inv, TypeOK
<1>1. CASE Tick \/ SetPaused \/ SetConnections \/ Schedule \/ UNCHANGED vars
  <2>1. cont' = cont /\ covered' = covered /\ poll' = poll /\ read' = read
    BY <1>1 DEF Tick, SetPaused, SetConnections, Schedule, vars
  <2> QED BY <1>0, <2>1, Unchanged, StepAside
<1>2. CASE EditUnits
  <2>1. OnlyRemoves /\ covered' = covered /\ poll' = poll /\ read' = read
    BY <1>2 DEF EditUnits, OnlyRemoves
  <2> QED BY <2>1, StepAside
<1>3. CASE RefuseForBudget \/ BreakBeforeOpen \/ SkipEmptyTurn
  <2>1. cont' = cont /\ covered' = covered /\ poll' = IdlePoll /\ read' = NoRead
    BY <1>3 DEF RefuseForBudget, BreakBeforeOpen, SkipEmptyTurn, Return
  <2> QED BY <1>0, <2>1, Unchanged, StepOver
<1>4. CASE FailPoll \/ HandOn \/ BreakPoll \/ Crash
  <2>1. cont' = cont /\ covered' = covered /\ poll' = IdlePoll /\ read' = NoRead
    BY <1>4 DEF FailPoll, HandOn, BreakPoll, Crash, Throw, Return
  <2> QED BY <1>0, <2>1, Unchanged, StepOver
<1>5. CASE OpenPoll
  <2>1. cont' = cont /\ covered' = covered /\ read' = NoRead
    BY <1>5, IdleReads DEF OpenPoll
  <2>2. PICK turn \in Turns :
          poll' = [IdlePoll EXCEPT
                     !.pc = "units", !.now = clock, !.choice = choice, !.todo = turn,
                     !.pending = [u \in Units |-> PendingOf(u)],
                     !.resuming = Resuming, !.openedPaused = paused]
    BY <1>5 DEF OpenPoll
  <2>3. turn \in SUBSET Units
    BY <1>0, <2>2 DEF Turns, TypeOK
  <2>4. poll'.pc = "units" /\ poll'.todo = turn /\ poll'.rows = 0
        /\ poll'.pending = [u \in Units |-> PendingOf(u)]
    BY <2>2 DEF IdlePoll
  <2>5. ASSUME NEW u \in Units
        PROVE  /\ \A p \in Providers : cont[<<u, p>>] \in {None, PendingOf(u)}
               /\ PendingOf(u) # None =>
                    /\ PendingOf(u).since = covered[u]
                    /\ PendingOf(u).issuer = PendingOf(u).provider
    <3>1. CASE \A p \in Providers : cont[<<u, p>>] = None
      BY <3>1 DEF PendingOf
    <3>2. CASE \E p \in Providers : cont[<<u, p>>] # None
      <4> DEFINE q == CHOOSE p \in Providers : cont[<<u, p>>] # None
      <4>1. q \in Providers /\ cont[<<u, q>>] # None
        BY <3>2
      <4>2. PendingOf(u) = cont[<<u, q>>]
        BY <3>2 DEF PendingOf
      <4> HIDE DEF q
      <4>3. \A p \in Providers : cont[<<u, p>>] # None => p = q
        BY <1>0, <4>1 DEF Placed, AtMostOneCollection
      <4> QED BY <1>0, <4>1, <4>2, <4>3 DEF Placed, PlacesAreOwn, Pairs
    <3> QED BY <3>1, <3>2
  <2>6. PlacesAreOwn' /\ AtMostOneCollection'
    BY <1>0, <2>1, Unchanged, PlacesKept
  <2>7. PlacesAsRead'
    BY <2>1, <2>3, <2>4, <2>5 DEF PlacesAsRead, Ahead
  <2>8. PendingIsOwn'
    BY <2>4, <2>5 DEF PendingIsOwn
  <2>9. ReadIsOwn' /\ CoverIsLast' /\ PollIsOwn'
    BY <2>1, <2>4 DEF ReadIsOwn, CoverIsLast, PollIsOwn
  <2> QED BY <2>6, <2>7, <2>8, <2>9 DEF Placed
<1>6. ASSUME NEW u \in Units, SkipUnit(u) \/ AbandonUnit(u) \/ WaitForUnit(u)
      PROVE  Placed'
  <2>1. OnlyRemoves /\ covered' = covered
    BY <1>0, <1>6, Unchanged, Forgotten DEF SkipUnit, AbandonUnit, WaitForUnit
  <2>2. poll.pc = "units" /\ poll.rows = 0
    BY <1>0, <1>6 DEF SkipUnit, AbandonUnit, WaitForUnit, Placed, PollIsOwn
  <2>3. /\ poll'.pc = "units" /\ poll'.todo \subseteq poll.todo
        /\ poll'.pending = poll.pending /\ poll'.rows = 0
    <3>1. CASE SkipUnit(u)
      BY <1>0, <2>2, <3>1 DEF SkipUnit, PollJobs
    <3>2. CASE AbandonUnit(u)
      BY <1>0, <2>2, <3>2 DEF AbandonUnit, PollJobs
    <3>3. CASE WaitForUnit(u)
      BY <1>0, <2>2, <3>3 DEF WaitForUnit, PollJobs
    <3> QED BY <1>6, <3>1, <3>2, <3>3
  <2>4. read' = NoRead
    BY <1>6, <2>2, IdleReads DEF SkipUnit, AbandonUnit, WaitForUnit
  <2> QED BY <2>1, <2>2, <2>3, <2>4, StepPast
<1>7. ASSUME NEW u \in Units, BeginRead(u) PROVE Placed'
  <2>1. cont' = cont /\ covered' = covered
    BY <1>7 DEF BeginRead
  <2>2. /\ poll'.pc = "read" /\ poll'.todo = poll.todo \ {u}
        /\ poll'.pending = poll.pending /\ poll'.rows = poll.rows
    BY <1>0, <1>7 DEF BeginRead, PollJobs
  <2>3. /\ read'.unit = u /\ read'.via = ProviderFor(u)
        /\ read'.resumed = (poll.pending[u] # None)
        /\ read'.window = (IF poll.pending[u] # None THEN poll.pending[u].since ELSE covered[u])
        /\ read'.issuer = (IF poll.pending[u] # None THEN poll.pending[u].issuer ELSE ProviderFor(u))
    BY <1>7 DEF BeginRead
  <2>4. u \in poll.todo /\ poll.pc = "units" /\ u \in Ahead /\ poll.rows = 0
    BY <1>0, <1>7 DEF BeginRead, Ahead, Placed, PollIsOwn
  <2>5. PlacesAreOwn' /\ AtMostOneCollection'
    BY <1>0, <2>1, Unchanged, PlacesKept
  <2>6. PlacesAsRead'
    BY <1>0, <2>1, <2>2, <2>3, <2>4 DEF Placed, PlacesAsRead, Ahead
  <2>7. PendingIsOwn' /\ CoverIsLast' /\ PollIsOwn'
    BY <1>0, <2>2, <2>4 DEF Placed, PendingIsOwn, CoverIsLast, PollIsOwn
  <2>8. ProviderFor(u) \in Providers
    BY <1>0, <1>7, KeyedProvider DEF BeginRead
  <2>9. CASE poll.pending[u] = None
    <3>1. ReadIsOwn'
      BY <2>1, <2>2, <2>3, <2>8, <2>9 DEF ReadIsOwn
    <3> QED BY <2>5, <2>6, <2>7, <3>1 DEF Placed
  <2>10. CASE poll.pending[u] # None
    <3>1. poll.pending[u].since = covered[u] /\ poll.pending[u].issuer = poll.pending[u].provider
      BY <1>0, <2>4, <2>10 DEF Placed, PlacesAsRead, PendingIsOwn
    <3>2. ProviderFor(u) = poll.pending[u].provider
      BY <2>10 DEF ProviderFor
    <3>3. poll.pending[u].attempts < MaxResumeAttempts
      <4>1. poll.pending[u].attempts \in Nat
        BY <1>0, <2>10, CollectAssumption DEF PollJobs, Rows
      <4> QED BY <1>7, <2>10, <4>1, CollectAssumption DEF BeginRead, Spent
    <3>4. ReadIsOwn'
      BY <2>1, <2>2, <2>3, <2>8, <2>10, <3>1, <3>2, <3>3 DEF ReadIsOwn
    <3> QED BY <2>5, <2>6, <2>7, <3>4 DEF Placed
  <2> QED BY <2>9, <2>10
<1>8. CASE ReadPage \/ FailLaterPage
  <2>1. cont' = cont /\ covered' = covered /\ poll' = poll /\ poll.pc = "read"
    BY <1>8 DEF ReadPage, FailLaterPage
  <2>2. /\ read'.unit = read.unit /\ read'.via = read.via /\ read'.issuer = read.issuer
        /\ read'.window = read.window /\ read'.resumed = read.resumed
    BY <1>0, <1>8 DEF ReadPage, FailLaterPage, Reads
  <2>3. PlacesAreOwn' /\ AtMostOneCollection'
    BY <1>0, <2>1, Unchanged, PlacesKept
  <2>4. PlacesAsRead' /\ PendingIsOwn' /\ ReadIsOwn' /\ CoverIsLast' /\ PollIsOwn'
    BY <1>0, <2>1, <2>2 DEF Placed, PlacesAsRead, Ahead, PendingIsOwn, ReadIsOwn, CoverIsLast, PollIsOwn
  <2> QED BY <2>3, <2>4 DEF Placed
<1>9. CASE FailUnit
  <2>1. cont' = cont /\ covered' = covered /\ poll.pc = "read" /\ read' = NoRead
    BY <1>9 DEF FailUnit
  <2>2. /\ poll'.pc = "units" /\ poll'.todo = poll.todo
        /\ poll'.pending = poll.pending /\ poll'.rows = 0
    BY <1>0, <1>9 DEF FailUnit, PollJobs, Placed, PollIsOwn
  <2> QED BY <1>0, <2>1, <2>2, Unchanged, StepPast
<1>10. CASE RememberWalk
  <2> DEFINE pair == <<read.unit, read.via>>
  <2>1. PICK t : Remember(t) /\ Close(t)
    BY <1>10 DEF RememberWalk
  <2>2. /\ covered' = covered /\ poll.pc = "read" /\ read.unit \in Ahead
        /\ read' = NoRead /\ pair \in Pairs
    BY <1>0, <1>10, <2>1 DEF RememberWalk, Close, Ahead, Placed, ReadIsOwn, Pairs
  <2>3. /\ poll'.pc = "units" /\ poll'.todo = poll.todo
        /\ poll'.pending = poll.pending /\ poll'.rows = 0
    BY <1>0, <2>1, <2>2 DEF Close, PollJobs, Placed, PollIsOwn
  <2>4. \A other \in Pairs \ {pair} : cont'[other] = cont[other]
    BY <1>0, <2>1 DEF Remember, TypeOK
  <2>5. /\ cont'[pair].provider = read.via
        /\ cont'[pair].issuer = read.via
        /\ cont'[pair].since = covered[read.unit]
    <3>1. CASE cont[pair] = None
      BY <1>0, <2>1, <2>2, <3>1 DEF Remember, TypeOK, Placed, ReadIsOwn
    <3>2. CASE cont[pair] # None
      <4> DEFINE old == cont[pair]
      <4>1. old \in Rows /\ old.provider = read.via /\ old.since = covered[read.unit]
        BY <1>0, <2>2, <3>2 DEF TypeOK, Placed, PlacesAreOwn
      <4>2. cont'[pair] = [old EXCEPT !.rest = read.rest, !.issuer = read.via, !.resumeAfter = t,
                                      !.attempts = IF Progressed THEN 0 ELSE @ + 1]
        BY <1>0, <2>1, <2>2, <3>2 DEF Remember, TypeOK
      <4> HIDE DEF old
      <4> QED BY <4>1, <4>2 DEF Rows
    <3> QED BY <3>1, <3>2
  <2>6. \A p \in Providers \ {read.via} : cont[<<read.unit, p>>] = None
    BY <1>0, <2>2 DEF Placed, PlacesAsRead, ReadIsOwn, PlacesAreOwn, Pairs
  <2>7. PlacesAreOwn'
    BY <1>0, <2>2, <2>4, <2>5 DEF Placed, PlacesAreOwn
  <2>8. AtMostOneCollection'
    BY <1>0, <2>2, <2>4, <2>6 DEF Placed, AtMostOneCollection, Pairs
  <2>9. PlacesAsRead'
    <3>1. \A u \in poll.todo : u # read.unit /\ u \in Units /\ u \in Ahead
      BY <1>0, <2>2 DEF Placed, ReadIsOwn, PollJobs, Ahead
    <3> QED BY <1>0, <2>2, <2>3, <2>4, <3>1 DEF Placed, PlacesAsRead, Ahead, Pairs
  <2>10. PendingIsOwn' /\ ReadIsOwn' /\ CoverIsLast' /\ PollIsOwn'
    BY <1>0, <2>2, <2>3 DEF Placed, PendingIsOwn, ReadIsOwn, CoverIsLast, PollIsOwn
  <2> QED BY <2>7, <2>8, <2>9, <2>10 DEF Placed
<1>11. CASE ForgetWithdrawn
  <2>1. OnlyRemoves /\ covered' = covered
    BY <1>0, <1>11, Unchanged, Forgotten DEF ForgetWithdrawn
  <2>2. /\ poll.pc = "read" /\ poll'.pc = "units" /\ poll'.todo = poll.todo
        /\ poll'.pending = poll.pending /\ poll'.rows = 0 /\ read' = NoRead
    BY <1>0, <1>11 DEF ForgetWithdrawn, Close, PollJobs, Placed, PollIsOwn
  <2> QED BY <2>1, <2>2, StepPast
<1>12. CASE ForgetRead
  <2>1. OnlyRemoves /\ covered' = covered /\ read' = read
    BY <1>0, <1>12, Unchanged, Forgotten DEF ForgetRead
  <2>2. /\ poll.pc = "read" /\ poll'.pc = "cover" /\ poll'.todo = poll.todo
        /\ poll'.pending = poll.pending /\ poll'.rows = 0
    BY <1>0, <1>12 DEF ForgetRead, PollJobs, Placed, PollIsOwn
  <2>3. PlacesAreOwn' /\ AtMostOneCollection'
    BY <2>1, PlacesKept
  <2>4. PlacesAsRead'
    <3>1. poll.todo \subseteq Units /\ poll.todo \subseteq Ahead
      BY <1>0 DEF PollJobs, Ahead
    <3> QED BY <1>0, <2>1, <2>2, <3>1 DEF OnlyRemoves, Placed, PlacesAsRead, Ahead, Pairs
  <2>5. PendingIsOwn' /\ ReadIsOwn' /\ PollIsOwn'
    BY <1>0, <2>1, <2>2 DEF Placed, PendingIsOwn, ReadIsOwn, PollIsOwn
  <2>6. CoverIsLast'
    <3>1. read.unit \in Units /\ read.unit \in Ahead
      BY <1>0, <2>2 DEF Placed, ReadIsOwn, Ahead
    <3>2. CASE read.resumed
      <4>1. /\ cont' = [cont EXCEPT ![<<read.unit, poll.pending[read.unit].provider>>] = None]
            /\ poll.pending[read.unit] # None
        BY <1>0, <1>12, <2>2, <3>2 DEF ForgetRead, Forget, Placed, ReadIsOwn
      <4>2. \A p \in Providers : cont[<<read.unit, p>>] # None => p = poll.pending[read.unit].provider
        BY <1>0, <3>1 DEF Placed, PlacesAsRead, PlacesAreOwn, Pairs
      <4> QED BY <1>0, <2>1, <2>2, <3>1, <4>1, <4>2 DEF CoverIsLast, TypeOK, Pairs
    <3>3. CASE ~read.resumed
      <4>1. cont' = cont /\ poll.pending[read.unit] = None
        BY <1>0, <1>12, <2>2, <3>3 DEF ForgetRead, Placed, ReadIsOwn
      <4> QED BY <1>0, <2>1, <3>1, <4>1 DEF CoverIsLast, Placed, PlacesAsRead
    <3> QED BY <3>2, <3>3
  <2> QED BY <2>3, <2>4, <2>5, <2>6 DEF Placed
<1>13. CASE RecordCoverage
  <2>1. /\ cont' = cont /\ read' = NoRead /\ read.unit \in Units \ poll.todo /\ poll.pc = "cover"
        /\ \A u \in Units \ {read.unit} : covered'[u] = covered[u]
    BY <1>0, <1>13 DEF RecordCoverage, Close, Placed, ReadIsOwn, TypeOK
  <2>2. /\ poll'.pc = "units" /\ poll'.todo = poll.todo
        /\ poll'.pending = poll.pending /\ poll'.rows = 0
    BY <1>0, <1>13 DEF RecordCoverage, Close, PollJobs, Placed, PollIsOwn
  <2>3. PlacesAreOwn'
    BY <1>0, <2>1 DEF Placed, CoverIsLast, PlacesAreOwn, Pairs
  <2>4. AtMostOneCollection'
    BY <1>0, <2>1 DEF Placed, AtMostOneCollection
  <2>5. PlacesAsRead'
    BY <1>0, <2>1, <2>2 DEF Placed, PlacesAsRead, Ahead, PollJobs
  <2>6. PendingIsOwn' /\ ReadIsOwn' /\ CoverIsLast' /\ PollIsOwn'
    BY <1>0, <2>1, <2>2 DEF Placed, PendingIsOwn, ReadIsOwn, CoverIsLast, PollIsOwn
  <2> QED BY <2>3, <2>4, <2>5, <2>6 DEF Placed
<1>14. CASE BookAlarm
  <2>1. cont' = cont /\ covered' = covered /\ poll.pc = "units" /\ OnlyRemoves
    BY <1>0, <1>14, Unchanged DEF BookAlarm
  <2>2. CASE Empty(poll.batch)
    BY <1>14, <2>1, <2>2, StepOver DEF BookAlarm, Return
  <2>3. CASE ~Empty(poll.batch)
    <3>1. /\ poll'.pc = "store" /\ poll'.todo = poll.todo
          /\ poll'.pending = poll.pending /\ poll'.rows = 0 /\ read' = NoRead
      BY <1>0, <1>14, <2>1, <2>3, IdleReads DEF BookAlarm, PollJobs, Placed, PollIsOwn
    <3> QED BY <2>1, <3>1, StepPast
  <2> QED BY <2>2, <2>3
<1>15. CASE StorePosts
  <2>1. cont' = cont /\ covered' = covered /\ poll.pc = "store" /\ OnlyRemoves
    BY <1>0, <1>15, Unchanged DEF StorePosts
  <2>2. /\ poll'.pc = "hand" /\ poll'.todo = poll.todo
        /\ poll'.pending = poll.pending /\ read' = NoRead
    BY <1>0, <1>15, <2>1, IdleReads DEF StorePosts, PollJobs
  <2> QED BY <2>1, <2>2, StepPast
<1> QED
  BY <1>1, <1>2, <1>3, <1>4, <1>5, <1>6, <1>7, <1>8, <1>9, <1>10, <1>11, <1>12, <1>13, <1>14, <1>15
  DEF Next, Worker, Environment

---------------------------------------------------------------------------
\* The theorems.

\* The invariant holds of every behaviour.
THEOREM Invariant == Spec => []Inv
<1>1. Inv /\ [Next]_vars => Inv'
  BY TypeStep, PlacedStep DEF Inv
<1> QED BY InvInit, <1>1, PTL DEF Spec

\* Every variable keeps its type; the part that is not plain is the attempts of
\* a saved place, which no sequence of resumes takes past maxResumeAttempts.
THEOREM TypeCorrect == Spec => []TypeOK
<1>1. Inv => TypeOK
  BY DEF Inv
<1> QED BY Invariant, <1>1, PTL

\* continuationsFor is keyed by the unit alone: whatever keys, choices, edits and
\* crashes come in between, a unit is collected at one provider at a time.
THEOREM OneCollection == Spec => []AtMostOneCollection
<1>1. Inv => AtMostOneCollection
  BY DEF Inv, Placed
<1> QED BY Invariant, <1>1, PTL

\* connectorForUnit resumes at the provider that issued the cursor.
THEOREM CursorStays == Spec => []CursorStaysWithItsProvider
<1>1. Inv => CursorStaysWithItsProvider
  BY DEF Inv, Placed, ReadIsOwn, CursorStaysWithItsProvider, NoRead
<1> QED BY Invariant, <1>1, PTL

\* A walk in flight reads the window its unit's coverage leaves open.
THEOREM WindowStaysOpen == Spec => []WindowIsOpen
<1>1. Inv => WindowIsOpen
  BY DEF Inv, Placed, PlacesAreOwn, WindowIsOpen, InFlight
<1> QED BY Invariant, <1>1, PTL

---------------------------------------------------------------------------
\* Nothing that is covered is lost, when a poll is never cut short: no crash, no
\* refused statement, no edit under it, and no post published while it runs.

Calm == Faults \cap {"edit", "slow", "crash", "database"} = {}

\* What the filter has been sent, or will be sent by the poll in flight.
Have(u) == handed[u] \cup poll.batch[u]

\* The posts of a walk are behind its cursor, or handed on.
RowsAccount ==
  \A pair \in Pairs : cont[pair] # None =>
    (covered[pair[1]] + 1)..cont[pair].startedAt \subseteq cont[pair].rest \cup Have(pair[1])

\* A place the poll read before it began is still there.
RowsStand ==
  \A u \in Ahead : poll.pending[u] # None =>
    cont[<<u, poll.pending[u].provider>>] = poll.pending[u]

\* The posts of the walk being read are ahead, or came back, or were handed on.
ReadAccounts ==
  poll.pc \in {"read", "cover"} =>
    /\ (covered[read.unit] + 1)..read.startedAt \subseteq read.rest \cup read.got \cup Have(read.unit)
    /\ read.startedAt = IF read.resumed THEN poll.pending[read.unit].startedAt ELSE clock
    /\ read.pages = 0 => read.got = {}
    /\ read.end = "done" => read.rest = {}
    /\ poll.pc = "cover" => read.end = "done"

CoverAccounts == \A u \in Units : 1..covered[u] \subseteq Have(u)

PollAccounts ==
  /\ poll.pc # "idle" => poll.now = clock
  /\ poll.pc = "idle" \/ ~poll.answered => poll.batch = NoPosts

Accounts ==
  /\ RowsAccount
  /\ RowsStand
  /\ ReadAccounts
  /\ CoverAccounts
  /\ PollAccounts

LEMMA AccountsInit == Init => Accounts
<1> SUFFICES ASSUME Init PROVE Accounts
  OBVIOUS
<1>1. /\ cont = [pair \in Pairs |-> None] /\ covered = [u \in Units |-> 0]
      /\ poll = IdlePoll /\ read = NoRead
  BY DEF Init
<1>2. RowsAccount /\ CoverAccounts
  BY <1>1 DEF RowsAccount, CoverAccounts
<1>3. RowsStand /\ ReadAccounts /\ PollAccounts
  BY <1>1 DEF RowsStand, Ahead, ReadAccounts, PollAccounts, IdlePoll
<1> QED BY <1>2, <1>3 DEF Accounts

\* The poll ends and what it held was handed on, or was nothing.
LEMMA AccountsOver ==
  ASSUME Inv, Accounts, cont' = cont, covered' = covered, poll' = IdlePoll,
         \A u \in Units : Have(u) \subseteq handed'[u]
  PROVE  Accounts'
<1>1. \A u \in Units : Have(u) \subseteq Have(u)'
  BY DEF Have
<1>2. RowsAccount' /\ CoverAccounts'
  BY <1>1 DEF Accounts, RowsAccount, CoverAccounts, Pairs
<1>3. RowsStand' /\ ReadAccounts' /\ PollAccounts'
  BY DEF RowsStand, Ahead, ReadAccounts, PollAccounts, IdlePoll
<1> QED BY <1>2, <1>3 DEF Accounts

\* The poll puts a unit behind it: rows are left or removed, and no row of a
\* unit still ahead is touched.
LEMMA AccountsPast ==
  ASSUME Inv, Accounts, covered' = covered, handed' = handed, clock' = clock, OnlyRemoves,
         poll.pc # "idle", poll'.pc \in {"units", "store", "hand"},
         poll'.todo \subseteq poll.todo, poll'.pending = poll.pending,
         poll'.now = poll.now, poll.answered => poll'.answered,
         ~poll'.answered => poll'.batch = poll.batch,
         \A u \in Units : poll.batch[u] \subseteq poll'.batch[u],
         \A u \in poll'.todo, p \in Providers : cont'[<<u, p>>] = cont[<<u, p>>]
  PROVE  Accounts'
<1>1. \A u \in Units : Have(u) \subseteq Have(u)'
  BY DEF Have
<1>2. RowsAccount' /\ CoverAccounts'
  BY <1>1 DEF Accounts, RowsAccount, CoverAccounts, OnlyRemoves, Pairs
<1>3. RowsStand'
  <2> SUFFICES ASSUME NEW u \in poll'.todo, poll.pending[u] # None
               PROVE  cont'[<<u, poll.pending[u].provider>>] = poll.pending[u]
    BY DEF RowsStand, Ahead
  <2>1. u \in Units /\ u \in Ahead /\ poll.pending[u].provider \in Providers
    BY DEF Inv, TypeOK, PollJobs, Rows, Ahead
  <2> QED BY <2>1 DEF Accounts, RowsStand
<1>4. ReadAccounts'
  BY DEF ReadAccounts
<1>5. PollAccounts'
  BY DEF Accounts, PollAccounts
<1> QED BY <1>2, <1>3, <1>4, <1>5 DEF Accounts

\* Only the clock and what the people own moves, and the clock between polls.
LEMMA AccountsAside ==
  ASSUME Inv, Accounts, cont' = cont, covered' = covered, handed' = handed,
         poll' = poll, read' = read, clock' = clock \/ poll.pc = "idle"
  PROVE  Accounts'
<1>1. \A u \in Units : Have(u)' = Have(u)
  BY DEF Have
<1>2. RowsAccount' /\ CoverAccounts'
  BY <1>1 DEF Accounts, RowsAccount, CoverAccounts, Pairs
<1>3. ReadAccounts'
  BY <1>1 DEF Accounts, ReadAccounts, Inv, Placed, ReadIsOwn
<1>4. RowsStand' /\ PollAccounts'
  BY DEF Accounts, RowsStand, Ahead, PollAccounts
<1> QED BY <1>2, <1>3, <1>4 DEF Accounts

\* What a walk that goes on leaves in its row.
LEMMA PlaceRemembered ==
  ASSUME Inv, Accounts, poll.pc = "read", NEW t, Remember(t)
  PROVE  /\ cont'[<<read.unit, read.via>>].rest = read.rest
         /\ cont'[<<read.unit, read.via>>].startedAt = read.startedAt
<1> DEFINE pair == <<read.unit, read.via>>
<1>0. TypeOK /\ Placed
  BY DEF Inv
<1>1. /\ read.unit \in Units /\ read.via \in Providers /\ read.unit \in Ahead /\ pair \in Pairs
  BY <1>0 DEF Ahead, Placed, ReadIsOwn, Pairs
<1>2. CASE cont[pair] = None
  <2>1. ~read.resumed
    BY <1>1, <1>2 DEF Accounts, RowsStand, Inv, Placed, ReadIsOwn
  <2>2. read.startedAt = clock
    BY <2>1 DEF Accounts, ReadAccounts
  <2> QED BY <1>0, <1>1, <1>2, <2>2 DEF Remember, TypeOK
<1>3. CASE cont[pair] # None
  <2>1. cont[pair] = poll.pending[read.unit] /\ cont[pair] \in Rows
    BY <1>0, <1>1, <1>3 DEF Placed, PlacesAsRead, Pairs, TypeOK
  <2>2. read.startedAt = cont[pair].startedAt
    BY <1>0, <1>3, <2>1 DEF Accounts, ReadAccounts, Placed, ReadIsOwn
  <2> DEFINE old == cont[pair]
  <2>3. cont'[pair] = [old EXCEPT !.rest = read.rest, !.issuer = read.via, !.resumeAfter = t,
                                  !.attempts = IF Progressed THEN 0 ELSE @ + 1]
    BY <1>0, <1>1, <1>3 DEF Remember, TypeOK
  <2> HIDE DEF old
  <2>4. cont'[pair].rest = read.rest /\ cont'[pair].startedAt = old.startedAt
    BY <2>1, <2>3 DEF Rows, old
  <2> QED BY <2>2, <2>4 DEF old
<1> QED BY <1>2, <1>3

LEMMA AccountsStep ==
  ASSUME Calm, Inv, Accounts, [Next]_vars
  PROVE  Accounts'
<1> USE DEF userVars, dataVars, ghostVars
<1>0. TypeOK /\ Placed /\ poll \in PollJobs /\ read \in Reads
  BY DEF Inv, TypeOK
<1>1. CASE Tick \/ SetPaused \/ SetConnections \/ Schedule \/ UNCHANGED vars
  BY <1>1, AccountsAside DEF Tick, SetPaused, SetConnections, Schedule, vars, Calm
<1>2. CASE RefuseForBudget \/ SkipEmptyTurn
  <2>1. /\ cont' = cont /\ covered' = covered /\ handed' = handed
        /\ poll' = IdlePoll /\ poll.pc = "idle"
    BY <1>2 DEF RefuseForBudget, SkipEmptyTurn, Return
  <2>2. \A u \in Units : Have(u) = handed[u]
    BY <2>1 DEF Have, Accounts, PollAccounts, NoPosts
  <2> QED BY <2>1, <2>2, AccountsOver
<1>3. CASE EditUnits \/ BreakBeforeOpen \/ BreakPoll \/ Crash
  BY <1>3 DEF EditUnits, BreakBeforeOpen, BreakPoll, Crash, Calm
<1>4. CASE FailPoll
  <2>1. /\ cont' = cont /\ covered' = covered /\ handed' = handed
        /\ poll' = IdlePoll /\ ~poll.answered
    BY <1>4 DEF FailPoll, Throw, Return
  <2>2. \A u \in Units : Have(u) = handed[u]
    BY <2>1 DEF Have, Accounts, PollAccounts, NoPosts
  <2> QED BY <2>1, <2>2, AccountsOver
<1>5. CASE HandOn
  <2>1. \A u \in Units : handed'[u] = Have(u)
    BY <1>5 DEF HandOn, Have
  <2> QED BY <1>5, <2>1, AccountsOver DEF HandOn, Return
<1>6. CASE OpenPoll
  <2>1. /\ cont' = cont /\ covered' = covered /\ handed' = handed /\ clock' = clock
        /\ poll.pc = "idle"
    BY <1>6 DEF OpenPoll
  <2>2. PICK turn \in Turns :
          poll' = [IdlePoll EXCEPT
                     !.pc = "units", !.now = clock, !.choice = choice, !.todo = turn,
                     !.pending = [u \in Units |-> PendingOf(u)],
                     !.resuming = Resuming, !.openedPaused = paused]
    BY <1>6 DEF OpenPoll
  <2>3. /\ poll'.pc = "units" /\ poll'.todo = turn /\ turn \in SUBSET Units
        /\ poll'.pending = [u \in Units |-> PendingOf(u)]
        /\ poll'.now = clock /\ poll'.batch = NoPosts
    BY <1>0, <2>2 DEF IdlePoll, Turns, TypeOK
  <2>4. \A u \in Units : Have(u)' = Have(u)
    BY <2>1, <2>3 DEF Have, Accounts, PollAccounts
  <2>5. RowsAccount' /\ CoverAccounts'
    BY <2>1, <2>4 DEF Accounts, RowsAccount, CoverAccounts, Pairs
  <2>6. RowsStand'
    <3> SUFFICES ASSUME NEW u \in Units, PendingOf(u) # None
                 PROVE  cont[<<u, PendingOf(u).provider>>] = PendingOf(u)
      BY <2>1, <2>3 DEF RowsStand, Ahead
    <3> DEFINE q == CHOOSE p \in Providers : cont[<<u, p>>] # None
    <3>1. q \in Providers /\ PendingOf(u) = cont[<<u, q>>]
      BY DEF PendingOf
    <3> HIDE DEF q
    <3> QED BY <1>0, <3>1 DEF Placed, PlacesAreOwn, Pairs
  <2>7. ReadAccounts' /\ PollAccounts'
    BY <2>1, <2>3 DEF ReadAccounts, PollAccounts
  <2> QED BY <2>5, <2>6, <2>7 DEF Accounts
<1>7. ASSUME NEW u \in Units, SkipUnit(u) \/ AbandonUnit(u) \/ WaitForUnit(u)
      PROVE  Accounts'
  <2>1. /\ poll.pc = "units" /\ u \in poll.todo
        /\ covered' = covered /\ handed' = handed /\ clock' = clock
    BY <1>7 DEF SkipUnit, AbandonUnit, WaitForUnit
  <2>2. /\ poll'.pc = "units" /\ poll'.todo = poll.todo \ {u} /\ poll'.pending = poll.pending
        /\ poll'.now = poll.now /\ poll'.answered = poll.answered /\ poll'.batch = poll.batch
    <3>1. CASE SkipUnit(u)
      BY <1>0, <2>1, <3>1 DEF SkipUnit, PollJobs
    <3>2. CASE AbandonUnit(u)
      BY <1>0, <2>1, <3>2 DEF AbandonUnit, PollJobs
    <3>3. CASE WaitForUnit(u)
      BY <1>0, <2>1, <3>3 DEF WaitForUnit, PollJobs
    <3> QED BY <1>7, <3>1, <3>2, <3>3
  <2>3. OnlyRemoves
    BY <1>0, <1>7, Unchanged, Forgotten DEF SkipUnit, AbandonUnit, WaitForUnit
  <2>4. \A other \in Units \ {u}, p \in Providers : cont'[<<other, p>>] = cont[<<other, p>>]
    BY <1>0, <1>7 DEF SkipUnit, AbandonUnit, WaitForUnit, Forget, TypeOK, Pairs
  <2>5. \A other \in poll'.todo, p \in Providers : cont'[<<other, p>>] = cont[<<other, p>>]
    BY <1>0, <2>2, <2>4 DEF PollJobs
  <2> QED BY <2>1, <2>2, <2>3, <2>5, AccountsPast
<1>8. ASSUME NEW u \in Units, BeginRead(u) PROVE Accounts'
  <2>1. /\ cont' = cont /\ covered' = covered /\ handed' = handed /\ clock' = clock
        /\ poll.pc = "units" /\ u \in poll.todo /\ u \in Ahead /\ poll.now = clock
    BY <1>8 DEF BeginRead, Ahead, Accounts, PollAccounts
  <2>2. /\ poll'.pc = "read" /\ poll'.todo = poll.todo \ {u} /\ poll'.pending = poll.pending
        /\ poll'.now = poll.now /\ poll'.batch = poll.batch /\ poll'.answered = poll.answered
    BY <1>0, <1>8 DEF BeginRead, PollJobs
  <2>3. /\ read'.unit = u /\ read'.got = {} /\ read'.end = None
        /\ read'.resumed = (poll.pending[u] # None)
        /\ read'.startedAt = WalkStartedAt(u)
        /\ read'.rest = (IF poll.pending[u] # None THEN poll.pending[u].rest
                         ELSE (covered[u] + 1)..clock)
    BY <1>8 DEF BeginRead
  <2>4. \A v \in Units : Have(v)' = Have(v)
    BY <2>1, <2>2 DEF Have
  <2>5. RowsAccount' /\ CoverAccounts'
    BY <2>1, <2>4 DEF Accounts, RowsAccount, CoverAccounts, Pairs
  <2>6. RowsStand'
    BY <2>1, <2>2, <2>3 DEF Accounts, RowsStand, Ahead
  <2>7. PollAccounts'
    BY <2>1, <2>2 DEF Accounts, PollAccounts
  <2>8. (covered[u] + 1)..WalkStartedAt(u) \subseteq read'.rest \cup Have(u)
    <3>1. CASE poll.pending[u] = None
      BY <2>1, <2>3, <3>1 DEF WalkStartedAt
    <3>2. CASE poll.pending[u] # None
      <4> DEFINE pair == <<u, poll.pending[u].provider>>
      <4>1. pair \in Pairs /\ cont[pair] = poll.pending[u]
        BY <1>0, <2>1, <3>2 DEF PollJobs, Rows, Pairs, Accounts, RowsStand
      <4> QED BY <2>3, <3>2, <4>1 DEF WalkStartedAt, Accounts, RowsAccount
    <3> QED BY <3>1, <3>2
  <2>9. read'.startedAt = IF read'.resumed THEN poll.pending[u].startedAt ELSE clock
    BY <2>1, <2>3 DEF WalkStartedAt
  <2>10. None # "done"
    BY CollectAssumption DEF Ends
  <2>11. ReadAccounts'
    BY <2>1, <2>2, <2>3, <2>4, <2>8, <2>9, <2>10 DEF ReadAccounts
  <2> QED BY <2>5, <2>6, <2>7, <2>11 DEF Accounts
<1>9. CASE ReadPage \/ FailLaterPage
  <2>1. /\ cont' = cont /\ covered' = covered /\ handed' = handed /\ clock' = clock
        /\ poll' = poll /\ poll.pc = "read" /\ read.unit \in Units
    BY <1>0, <1>9 DEF ReadPage, FailLaterPage, Placed, ReadIsOwn
  <2>2. \A v \in Units : Have(v)' = Have(v)
    BY <2>1 DEF Have
  <2>3. RowsAccount' /\ CoverAccounts'
    BY <2>1, <2>2 DEF Accounts, RowsAccount, CoverAccounts, Pairs
  <2>4. /\ read'.unit = read.unit /\ read'.startedAt = read.startedAt
        /\ read'.resumed = read.resumed
    BY <1>0, <1>9 DEF ReadPage, FailLaterPage, Reads
  <2>5. RowsStand' /\ PollAccounts'
    BY <2>1, <2>4 DEF Accounts, RowsStand, Ahead, PollAccounts
  <2>6. CASE ReadPage
    <3>1. PICK page \in SUBSET read.rest, next \in Ends :
            /\ next = "done" => page = read.rest
            /\ read' = [read EXCEPT
                         !.rest = @ \ page, !.got = @ \cup page, !.pages = @ + 1,
                         !.end = IF next = "more" /\ read.pages + 1 < PageCap
                                 THEN None ELSE next]
      BY <2>6 DEF ReadPage
    <3>2. /\ read'.rest = read.rest \ page /\ read'.got = read.got \cup page
          /\ read'.pages = read.pages + 1
          /\ read'.end = IF next = "more" /\ read.pages + 1 < PageCap THEN None ELSE next
      BY <1>0, <3>1 DEF Reads
    <3>3. read'.rest \cup read'.got = read.rest \cup read.got
      BY <3>1, <3>2
    <3>4. read'.pages # 0
      BY <1>0, <3>2, CollectAssumption DEF Reads
    <3>5. read'.end = "done" => read'.rest = {}
      BY <3>1, <3>2, CollectAssumption DEF Ends
    <3>6. ReadAccounts'
      BY <2>1, <2>2, <2>4, <3>3, <3>4, <3>5 DEF Accounts, ReadAccounts
    <3> QED BY <2>3, <2>5, <3>6 DEF Accounts
  <2>7. CASE FailLaterPage
    <3>1. /\ read'.rest = read.rest /\ read'.got = read.got /\ read'.pages = read.pages
          /\ read'.end = "failed"
      BY <1>0, <2>7 DEF FailLaterPage, Reads
    <3>2. ReadAccounts'
      BY <2>1, <2>2, <2>4, <3>1 DEF Accounts, ReadAccounts
    <3> QED BY <2>3, <2>5, <3>2 DEF Accounts
  <2> QED BY <1>9, <2>6, <2>7
<1>10. CASE FailUnit
  <2>1. /\ cont' = cont /\ covered' = covered /\ handed' = handed /\ clock' = clock
        /\ poll.pc = "read"
    BY <1>10 DEF FailUnit
  <2>2. /\ poll'.pc = "units" /\ poll'.todo = poll.todo /\ poll'.pending = poll.pending
        /\ poll'.now = poll.now /\ poll'.answered = poll.answered /\ poll'.batch = poll.batch
    BY <1>0, <1>10 DEF FailUnit, PollJobs
  <2> QED BY <1>0, <2>1, <2>2, Unchanged, AccountsPast
<1>11. CASE RememberWalk
  <2> DEFINE pair == <<read.unit, read.via>>
  <2>1. PICK t : Remember(t) /\ Close(t)
    BY <1>11 DEF RememberWalk
  <2>2. /\ covered' = covered /\ handed' = handed /\ clock' = clock /\ poll.pc = "read"
        /\ read.unit \in Units \ poll.todo /\ read.unit \in Ahead /\ pair \in Pairs
    BY <1>0, <1>11 DEF RememberWalk, Ahead, Placed, ReadIsOwn, Pairs
  <2> PICK v \in Units : v = read.unit
    BY <2>2
  <2>3. /\ poll'.pc = "units" /\ poll'.todo = poll.todo /\ poll'.pending = poll.pending
        /\ poll'.now = poll.now /\ poll'.answered = TRUE
        /\ poll'.batch = [poll.batch EXCEPT ![read.unit] = @ \cup read.got]
    BY <1>0, <2>1 DEF Close, PollJobs
  <2>4. \A u \in Units : Have(u) \subseteq Have(u)'
    BY <1>0, <2>2, <2>3 DEF Have, PollJobs
  <2>5. Have(v)' = Have(v) \cup read.got
    BY <1>0, <2>2, <2>3 DEF Have, PollJobs
  <2>6. \A other \in Pairs \ {pair} : cont'[other] = cont[other]
    BY <1>0, <2>1 DEF Remember, TypeOK
  <2>7. cont'[pair].rest = read.rest /\ cont'[pair].startedAt = read.startedAt
    BY <2>1, <2>2, PlaceRemembered
  <2>8. (covered[v] + 1)..read.startedAt \subseteq read.rest \cup Have(v)'
    BY <2>2, <2>5 DEF Accounts, ReadAccounts
  <2>9. RowsAccount'
    <3>1. ASSUME NEW other \in Pairs, cont'[other] # None
          PROVE  (covered[other[1]] + 1)..cont'[other].startedAt
                   \subseteq cont'[other].rest \cup Have(other[1])'
      <4>1. CASE other = <<v, read.via>>
        BY <2>7, <2>8, <4>1
      <4>2. CASE other # <<v, read.via>>
        BY <2>4, <2>6, <3>1, <4>2 DEF Accounts, RowsAccount, Pairs
      <4> QED BY <4>1, <4>2
    <3> QED BY <2>2, <3>1 DEF RowsAccount
  <2>10. CoverAccounts'
    BY <2>2, <2>4 DEF Accounts, CoverAccounts
  <2>11. RowsStand'
    <3>1. ASSUME NEW u \in poll.todo, poll.pending[u] # None
          PROVE  cont'[<<u, poll.pending[u].provider>>] = poll.pending[u]
      <4>1. /\ u \in Units \ {read.unit} /\ u \in Ahead
            /\ <<u, poll.pending[u].provider>> \in Pairs
        BY <1>0, <2>2, <3>1 DEF PollJobs, Rows, Ahead, Pairs
      <4> QED BY <2>6, <3>1, <4>1 DEF Accounts, RowsStand
    <3> QED BY <2>3, <3>1 DEF RowsStand, Ahead
  <2>12. ReadAccounts' /\ PollAccounts'
    BY <2>2, <2>3 DEF Accounts, ReadAccounts, PollAccounts
  <2> QED BY <2>9, <2>10, <2>11, <2>12 DEF Accounts
<1>12. CASE ForgetWithdrawn
  <2>1. /\ covered' = covered /\ handed' = handed /\ clock' = clock /\ poll.pc = "read"
        /\ read.unit \in Units \ poll.todo
    BY <1>0, <1>12 DEF ForgetWithdrawn, Placed, ReadIsOwn
  <2>2. /\ poll'.pc = "units" /\ poll'.todo = poll.todo /\ poll'.pending = poll.pending
        /\ poll'.now = poll.now /\ poll'.answered = TRUE
        /\ poll'.batch = [poll.batch EXCEPT ![read.unit] = @ \cup read.got]
    BY <1>0, <1>12 DEF ForgetWithdrawn, Close, PollJobs
  <2>3. OnlyRemoves
    BY <1>0, <1>12, Unchanged, Forgotten DEF ForgetWithdrawn
  <2>4. \A u \in poll.todo, p \in Providers : cont'[<<u, p>>] = cont[<<u, p>>]
    BY <1>0, <1>12, <2>1 DEF ForgetWithdrawn, Forget, TypeOK, PollJobs, Pairs
  <2>5. \A u \in Units : poll.batch[u] \subseteq poll'.batch[u]
    BY <1>0, <2>2 DEF PollJobs
  <2> QED BY <2>1, <2>2, <2>3, <2>4, <2>5, AccountsPast
<1>13. CASE ForgetRead
  <2>1. /\ covered' = covered /\ handed' = handed /\ clock' = clock /\ poll.pc = "read"
        /\ read' = read /\ read.unit \in Units \ poll.todo /\ read.end = "done"
    BY <1>0, <1>13 DEF ForgetRead, Placed, ReadIsOwn
  <2>2. /\ poll'.pc = "cover" /\ poll'.todo = poll.todo /\ poll'.pending = poll.pending
        /\ poll'.now = poll.now /\ poll'.answered = poll.answered /\ poll'.batch = poll.batch
    BY <1>0, <1>13 DEF ForgetRead, PollJobs
  <2>3. OnlyRemoves
    BY <1>0, <1>13, Unchanged, Forgotten DEF ForgetRead
  <2>4. \A v \in Units : Have(v)' = Have(v)
    BY <2>1, <2>2 DEF Have
  <2>5. RowsAccount' /\ CoverAccounts'
    BY <2>1, <2>3, <2>4 DEF Accounts, RowsAccount, CoverAccounts, OnlyRemoves, Pairs
  <2>6. RowsStand'
    <3>1. ASSUME NEW u \in poll.todo, poll.pending[u] # None
          PROVE  cont'[<<u, poll.pending[u].provider>>] = poll.pending[u]
      <4>1. /\ u \in Units \ {read.unit} /\ u \in Ahead
            /\ <<u, poll.pending[u].provider>> \in Pairs
        BY <1>0, <2>1, <3>1 DEF PollJobs, Rows, Ahead, Pairs
      <4>2. cont'[<<u, poll.pending[u].provider>>] = cont[<<u, poll.pending[u].provider>>]
        BY <1>0, <1>13, <4>1 DEF ForgetRead, Forget, TypeOK, Pairs
      <4> QED BY <3>1, <4>1, <4>2 DEF Accounts, RowsStand
    <3> QED BY <2>2, <3>1 DEF RowsStand, Ahead
  <2>7. ReadAccounts' /\ PollAccounts'
    BY <2>1, <2>2, <2>4 DEF Accounts, ReadAccounts, PollAccounts
  <2> QED BY <2>5, <2>6, <2>7 DEF Accounts
<1>14. CASE RecordCoverage
  <2>1. /\ cont' = cont /\ handed' = handed /\ clock' = clock /\ poll.pc = "cover"
        /\ read.unit \in Units \ poll.todo
        /\ covered' = [covered EXCEPT ![read.unit] = Latest(@, read.startedAt)]
    BY <1>0, <1>14 DEF RecordCoverage, Placed, ReadIsOwn
  <2> PICK v \in Units : v = read.unit
    BY <2>1
  <2>2. /\ poll'.pc = "units" /\ poll'.todo = poll.todo /\ poll'.pending = poll.pending
        /\ poll'.now = poll.now /\ poll'.answered = TRUE
        /\ poll'.batch = [poll.batch EXCEPT ![read.unit] = @ \cup read.got]
    BY <1>0, <1>14 DEF RecordCoverage, Close, PollJobs
  <2>3. \A u \in Units : Have(u) \subseteq Have(u)'
    BY <1>0, <2>1, <2>2 DEF Have, PollJobs
  <2>4. Have(v)' = Have(v) \cup read.got
    BY <1>0, <2>1, <2>2 DEF Have, PollJobs
  <2>5. \A u \in Units \ {v} : covered'[u] = covered[u]
    BY <1>0, <2>1 DEF TypeOK
  <2>6. covered[v] \in Nat /\ read.startedAt \in Nat
    BY <1>0, <2>1, CollectAssumption DEF TypeOK, Reads, Time
  <2>7. 1..covered'[v] \subseteq Have(v)'
    <3>1. (covered[v] + 1)..read.startedAt \subseteq Have(v)'
      BY <2>1, <2>4 DEF Accounts, ReadAccounts
    <3>2. 1..covered[v] \subseteq Have(v)'
      BY <2>1, <2>3 DEF Accounts, CoverAccounts
    <3>3. covered'[v] = Latest(covered[v], read.startedAt)
      BY <1>0, <2>1 DEF TypeOK
    <3> QED BY <2>6, <3>1, <3>2, <3>3 DEF Latest
  <2>8. CoverAccounts'
    BY <2>3, <2>5, <2>7 DEF Accounts, CoverAccounts
  <2>9. RowsAccount'
    BY <1>0, <2>1, <2>3, <2>5 DEF Accounts, RowsAccount, Placed, CoverIsLast, Pairs
  <2>10. RowsStand'
    BY <2>1, <2>2 DEF Accounts, RowsStand, Ahead
  <2>11. ReadAccounts' /\ PollAccounts'
    BY <2>1, <2>2 DEF Accounts, ReadAccounts, PollAccounts
  <2> QED BY <2>8, <2>9, <2>10, <2>11 DEF Accounts
<1>15. CASE BookAlarm
  <2>1. /\ cont' = cont /\ covered' = covered /\ handed' = handed /\ clock' = clock
        /\ poll.pc = "units"
    BY <1>15 DEF BookAlarm
  <2>2. CASE Empty(poll.batch)
    <3>1. poll' = IdlePoll
      BY <1>15, <2>2 DEF BookAlarm, Return
    <3>2. \A u \in Units : Have(u) = handed[u]
      BY <2>2 DEF Have, Empty
    <3> QED BY <2>1, <3>1, <3>2, AccountsOver
  <2>3. CASE ~Empty(poll.batch)
    <3>1. /\ poll'.pc = "store" /\ poll'.todo = poll.todo /\ poll'.pending = poll.pending
          /\ poll'.now = poll.now /\ poll'.answered = poll.answered /\ poll'.batch = poll.batch
      BY <1>0, <1>15, <2>3 DEF BookAlarm, PollJobs
    <3> QED BY <1>0, <2>1, <3>1, Unchanged, AccountsPast
  <2> QED BY <2>2, <2>3
<1>16. CASE StorePosts
  <2>1. /\ cont' = cont /\ covered' = covered /\ handed' = handed /\ clock' = clock
        /\ poll.pc = "store"
    BY <1>16 DEF StorePosts
  <2>2. /\ poll'.pc = "hand" /\ poll'.todo = poll.todo /\ poll'.pending = poll.pending
        /\ poll'.now = poll.now /\ poll'.answered = poll.answered /\ poll'.batch = poll.batch
    BY <1>0, <1>16 DEF StorePosts, PollJobs
  <2> QED BY <1>0, <2>1, <2>2, Unchanged, AccountsPast
<1> QED
  BY <1>1, <1>2, <1>3, <1>4, <1>5, <1>6, <1>7, <1>8, <1>9, <1>10, <1>11, <1>12, <1>13, <1>14,
     <1>15, <1>16
  DEF Next, Worker, Environment

\* Coverage is the window of the next walk: when no poll is cut short and no
\* post is published while one runs, everything up to it has been sent to the
\* filter, or is in the hands of the poll in flight.
THEOREM NothingCoveredIsLost == Calm => (Spec => []CoveredIsHandedOn)
<1> SUFFICES ASSUME Calm PROVE Spec => []CoveredIsHandedOn
  OBVIOUS
<1>1. Inv /\ Accounts /\ [Next]_vars => Accounts'
  BY AccountsStep
<1>2. Accounts => CoveredIsHandedOn
  BY DEF Accounts, CoverAccounts, Have, CoveredIsHandedOn, InHand
<1>3. Init => Accounts
  BY AccountsInit
<1> QED BY Invariant, <1>1, <1>2, <1>3, PTL DEF Spec

---------------------------------------------------------------------------
\* Nothing is bought twice by polls that are never cut short.

\* The read in flight has had a page of the unit.
Buying(u) == poll.pc \in {"read", "cover"} /\ read.unit = u /\ read.pages > 0

\* What a saved place still names has not been paid for, and a finished walk will cover
\* what it has been.
RowsUnpaid ==
  \A pair \in Pairs : cont[pair] # None /\ ~Buying(pair[1]) =>
    /\ bought[pair[1]] \cap cont[pair].rest = {}
    /\ bought[pair[1]] \cup cont[pair].rest
         \subseteq 1..Latest(covered[pair[1]], cont[pair].startedAt)

\* Of a unit without a place nothing is paid for but what is covered.
RestIsCovered ==
  \A u \in Units : (\A p \in Providers : cont[<<u, p>>] = None) /\ ~Buying(u) =>
    bought[u] \subseteq 1..covered[u]

\* The same of the read in flight.
ReadUnpaid ==
  poll.pc \in {"read", "cover"} =>
    /\ bought[read.unit] \cap read.rest = {}
    /\ bought[read.unit] \cup read.rest \subseteq 1..Latest(covered[read.unit], read.startedAt)
    /\ read.end # None => read.pages > 0

Unpaid == ~rebought /\ RowsUnpaid /\ RestIsCovered /\ ReadUnpaid

LEMMA UnpaidInit == Init => Unpaid
BY DEF Init, Unpaid, RowsUnpaid, RestIsCovered, ReadUnpaid, NoPosts, IdlePoll

\* A step that buys nothing, moves no read and leaves the places alone.
LEMMA UnpaidAside ==
  ASSUME TypeOK, Unpaid, cont' = cont, covered' = covered, bought' = bought, rebought' = rebought,
         \/ poll'.pc = poll.pc /\ read' = read
         \/ poll.pc \notin {"read", "cover"} /\ poll'.pc \notin {"read", "cover"}
  PROVE  Unpaid'
<1>1. \A u \in Units : Buying(u)' <=> Buying(u)
  BY DEF Buying
<1>2. RowsUnpaid' /\ RestIsCovered'
  BY <1>1 DEF Unpaid, RowsUnpaid, RestIsCovered, Pairs
<1>3. ReadUnpaid'
  BY DEF Unpaid, ReadUnpaid
<1> QED BY <1>2, <1>3 DEF Unpaid

\* A unit loses its place and what was paid for it beyond the coverage is given up.
LEMMA UnpaidGone ==
  ASSUME TypeOK, Unpaid, OnlyRemoves, covered' = covered, rebought' = rebought, NEW v \in Units,
         \A p \in Providers : cont'[<<v, p>>] = None,
         \A u \in Units \ {v}, p \in Providers : cont'[<<u, p>>] = cont[<<u, p>>],
         bought' = [bought EXCEPT ![v] = @ \cap 1..covered[v]],
         poll'.pc = "units", \A u \in Units \ {v} : ~Buying(u)
  PROVE  Unpaid'
<1>1. /\ bought'[v] = bought[v] \cap 1..covered[v]
      /\ \A u \in Units \ {v} : bought'[u] = bought[u]
  BY DEF TypeOK
<1>2. RowsUnpaid'
  BY <1>1 DEF Unpaid, RowsUnpaid, Pairs
<1>3. RestIsCovered'
  BY <1>1 DEF Unpaid, RestIsCovered
<1>4. ReadUnpaid'
  BY DEF ReadUnpaid
<1> QED BY <1>2, <1>3, <1>4 DEF Unpaid

\* A unit that is read has no place but the one its poll found.
LEMMA OnePlace ==
  ASSUME Inv, NEW u \in Ahead, NEW p \in Providers, cont[<<u, p>>] # None
  PROVE  poll.pending[u] # None /\ poll.pending[u].provider = p /\ cont[<<u, p>>] = poll.pending[u]
BY DEF Inv, Placed, PlacesAsRead, PlacesAreOwn, Pairs, Ahead, TypeOK, PollJobs, ReadIsOwn

\* A walk that ended has no place left, and no other unit's place is touched.
LEMMA PlaceForgotten ==
  ASSUME Inv, poll.pc = "read",
         IF read.resumed THEN Forget(<<read.unit, poll.pending[read.unit].provider>>)
         ELSE UNCHANGED <<cont, adrift>>
  PROVE  /\ \A p \in Providers : cont'[<<read.unit, p>>] = None
         /\ \A u \in Units \ {read.unit}, p \in Providers : cont'[<<u, p>>] = cont[<<u, p>>]
<1>0. TypeOK /\ Placed /\ read.unit \in Units /\ read.unit \in Ahead
  BY DEF Inv, Placed, ReadIsOwn, Ahead
<1>1. CASE read.resumed
  <2>1. poll.pending[read.unit].provider \in Providers
    BY <1>0, <1>1 DEF Placed, ReadIsOwn
  <2>2. cont' = [cont EXCEPT ![<<read.unit, poll.pending[read.unit].provider>>] = None]
    BY <1>1 DEF Forget
  <2>3. \A p \in Providers : cont[<<read.unit, p>>] # None => p = poll.pending[read.unit].provider
    BY <1>0, OnePlace
  <2> QED BY <1>0, <2>1, <2>2, <2>3 DEF TypeOK, Pairs
<1>2. CASE ~read.resumed
  <2>1. poll.pending[read.unit] = None
    BY <1>0, <1>2 DEF Placed, ReadIsOwn
  <2> QED BY <1>0, <1>2, <2>1, OnePlace
<1>3. read.resumed \in BOOLEAN
  BY <1>0 DEF TypeOK, Reads
<1> QED BY <1>1, <1>2, <1>3

LEMMA UnpaidStep ==
  ASSUME Calm, Inv, Inv', Accounts, Unpaid, [Next]_vars
  PROVE  Unpaid'
<1> USE DEF userVars, dataVars, ghostVars
<1>0. TypeOK /\ Placed /\ poll \in PollJobs /\ read \in Reads
  BY DEF Inv, TypeOK
<1>1. CASE Tick \/ SetPaused \/ SetConnections \/ Schedule \/ UNCHANGED vars
  BY <1>0, <1>1, UnpaidAside DEF Tick, SetPaused, SetConnections, Schedule, vars
<1>2. CASE RefuseForBudget \/ SkipEmptyTurn \/ FailPoll \/ HandOn
  <2>1. /\ cont' = cont /\ covered' = covered /\ bought' = bought /\ rebought' = rebought
        /\ poll' = IdlePoll /\ poll.pc \in {"idle", "units", "hand"}
    BY <1>2 DEF RefuseForBudget, SkipEmptyTurn, FailPoll, Throw, HandOn, Return
  <2> QED BY <1>0, <2>1, UnpaidAside DEF IdlePoll
<1>3. CASE EditUnits \/ BreakBeforeOpen \/ BreakPoll \/ Crash
  BY <1>3 DEF EditUnits, BreakBeforeOpen, BreakPoll, Crash, Calm
<1>4. CASE OpenPoll \/ BookAlarm \/ StorePosts
  <2>1. /\ cont' = cont /\ covered' = covered /\ bought' = bought /\ rebought' = rebought
        /\ poll.pc \in {"idle", "units", "store"}
    BY <1>4 DEF OpenPoll, BookAlarm, StorePosts
  <2>2. poll'.pc \in {"idle", "units", "store", "hand"}
    <3>1. CASE OpenPoll
      BY <3>1 DEF OpenPoll, IdlePoll
    <3>2. CASE BookAlarm
      BY <1>0, <3>2 DEF BookAlarm, Return, IdlePoll, PollJobs
    <3>3. CASE StorePosts
      BY <1>0, <3>3 DEF StorePosts, PollJobs
    <3> QED BY <1>4, <3>1, <3>2, <3>3
  <2> QED BY <1>0, <2>1, <2>2, UnpaidAside
<1>5. ASSUME NEW u \in Units, SkipUnit(u) \/ WaitForUnit(u) PROVE Unpaid'
  <2>1. /\ cont' = cont /\ covered' = covered /\ bought' = bought /\ rebought' = rebought
        /\ poll.pc = "units"
    BY <1>5 DEF SkipUnit, WaitForUnit
  <2>2. poll'.pc = "units"
    BY <1>0, <1>5 DEF SkipUnit, WaitForUnit, PollJobs
  <2> QED BY <1>0, <2>1, <2>2, UnpaidAside
<1>6. ASSUME NEW u \in Units, AbandonUnit(u) PROVE Unpaid'
  <2>1. /\ poll.pc = "units" /\ u \in poll.todo /\ u \in Ahead /\ poll.pending[u] # None
        /\ covered' = covered /\ rebought' = rebought
        /\ bought' = [bought EXCEPT ![u] = @ \cap 1..covered[u]]
        /\ Forget(<<u, poll.pending[u].provider>>)
    BY <1>6 DEF AbandonUnit, Spent, Ahead
  <2>2. poll'.pc = "units"
    BY <1>0, <1>6 DEF AbandonUnit, PollJobs
  <2>3. \A v \in Units \ {u}, p \in Providers : cont'[<<v, p>>] = cont[<<v, p>>]
    BY <1>0, <2>1 DEF Forget, TypeOK, Pairs
  <2>4. \A p \in Providers : cont'[<<u, p>>] = None
    BY <1>0, <2>1, OnePlace DEF Forget, TypeOK, Pairs
  <2>5. OnlyRemoves /\ \A v \in Units : ~Buying(v)
    BY <1>0, <2>1, Forgotten DEF Buying
  <2> QED BY <1>0, <2>1, <2>2, <2>3, <2>4, <2>5, UnpaidGone
<1>7. ASSUME NEW u \in Units, BeginRead(u) PROVE Unpaid'
  <2>1. /\ cont' = cont /\ covered' = covered /\ bought' = bought /\ rebought' = rebought
        /\ poll.pc = "units" /\ u \in poll.todo /\ u \in Ahead /\ poll.now = clock
    BY <1>7 DEF BeginRead, Ahead, Accounts, PollAccounts
  <2>2. /\ read'.unit = u /\ read'.pages = 0 /\ read'.end = None
        /\ read'.startedAt = WalkStartedAt(u)
        /\ read'.rest = (IF poll.pending[u] # None THEN poll.pending[u].rest
                         ELSE (covered[u] + 1)..clock)
    BY <1>7 DEF BeginRead
  <2>3. \A v \in Units : ~Buying(v) /\ ~Buying(v)'
    BY <2>1, <2>2 DEF Buying
  <2>4. RowsUnpaid' /\ RestIsCovered'
    BY <2>1, <2>3 DEF Unpaid, RowsUnpaid, RestIsCovered, Pairs
  <2>5. /\ bought[u] \cap read'.rest = {}
        /\ bought[u] \cup read'.rest \subseteq 1..Latest(covered[u], WalkStartedAt(u))
    <3>1. CASE poll.pending[u] = None
      <4>1. bought[u] \subseteq 1..covered[u]
        BY <1>0, <2>1, <2>3, <3>1, OnePlace DEF Unpaid, RestIsCovered
      <4>2. read'.rest = (covered[u] + 1)..clock /\ WalkStartedAt(u) = clock
        BY <2>1, <2>2, <3>1 DEF WalkStartedAt
      <4>3. covered[u] \in Nat /\ clock \in Nat
        BY <1>0, CollectAssumption DEF TypeOK, Time
      <4> QED BY <4>1, <4>2, <4>3 DEF Latest
    <3>2. CASE poll.pending[u] # None
      <4> DEFINE pair == <<u, poll.pending[u].provider>>
      <4>1. pair \in Pairs /\ cont[pair] = poll.pending[u]
        BY <1>0, <2>1, <3>2 DEF PollJobs, Rows, Pairs, Accounts, RowsStand
      <4>2. /\ bought[u] \cap cont[pair].rest = {}
            /\ bought[u] \cup cont[pair].rest \subseteq 1..Latest(covered[u], cont[pair].startedAt)
        BY <2>3, <3>2, <4>1 DEF Unpaid, RowsUnpaid
      <4> QED BY <2>2, <3>2, <4>1, <4>2 DEF WalkStartedAt
    <3> QED BY <3>1, <3>2
  <2>6. ReadUnpaid'
    BY <2>1, <2>2, <2>5 DEF ReadUnpaid
  <2> QED BY <2>1, <2>4, <2>6 DEF Unpaid
<1>8. CASE ReadPage
  <2>1. PICK page \in SUBSET read.rest, next \in Ends :
          /\ next = "done" => page = read.rest
          /\ read' = [read EXCEPT
                       !.rest = @ \ page, !.got = @ \cup page, !.pages = @ + 1,
                       !.end = IF next = "more" /\ read.pages + 1 < PageCap THEN None ELSE next]
          /\ bought' = [bought EXCEPT ![read.unit] = @ \cup page]
          /\ rebought' = (rebought \/ page \cap bought[read.unit] # {})
    BY <1>8 DEF ReadPage
  <2>2. /\ cont' = cont /\ covered' = covered /\ poll' = poll /\ poll.pc = "read"
        /\ read.unit \in Units
    BY <1>0, <1>8 DEF ReadPage, Placed, ReadIsOwn
  <2>3. /\ read'.rest = read.rest \ page /\ read'.pages = read.pages + 1
        /\ read'.unit = read.unit /\ read'.startedAt = read.startedAt
    BY <1>0, <2>1 DEF Reads
  <2>4. read'.pages > 0
    BY <1>0, <2>3, CollectAssumption DEF Reads
  <2>5. /\ bought[read.unit] \cap read.rest = {}
        /\ bought[read.unit] \cup read.rest \subseteq 1..Latest(covered[read.unit], read.startedAt)
    BY <2>2 DEF Unpaid, ReadUnpaid
  <2>6. ~rebought'
    BY <2>1, <2>5 DEF Unpaid
  <2> PICK v \in Units : v = read.unit
    BY <2>2
  <2>7. bought'[v] = bought[v] \cup page /\ \A u \in Units \ {v} : bought'[u] = bought[u]
    BY <1>0, <2>1, <2>2 DEF TypeOK
  <2>8. Buying(v)' /\ \A u \in Units : Buying(u) => u = v
    BY <2>2, <2>3, <2>4 DEF Buying
  <2>9. RowsUnpaid' /\ RestIsCovered'
    BY <2>2, <2>7, <2>8 DEF Unpaid, RowsUnpaid, RestIsCovered, Pairs
  <2>10. ReadUnpaid'
    BY <2>1, <2>2, <2>3, <2>4, <2>5, <2>7 DEF ReadUnpaid
  <2> QED BY <2>6, <2>9, <2>10 DEF Unpaid
<1>9. CASE FailLaterPage
  <2>1. /\ cont' = cont /\ covered' = covered /\ bought' = bought /\ rebought' = rebought
        /\ poll' = poll /\ poll.pc = "read" /\ read.pages > 0
    BY <1>9 DEF FailLaterPage
  <2>2. /\ read'.unit = read.unit /\ read'.pages = read.pages /\ read'.rest = read.rest
        /\ read'.startedAt = read.startedAt
    BY <1>0, <1>9 DEF FailLaterPage, Reads
  <2>3. RowsUnpaid' /\ RestIsCovered'
    BY <2>1, <2>2 DEF Unpaid, RowsUnpaid, RestIsCovered, Buying, Pairs
  <2>4. ReadUnpaid'
    BY <2>1, <2>2 DEF Unpaid, ReadUnpaid
  <2> QED BY <2>1, <2>3, <2>4 DEF Unpaid
<1>10. CASE FailUnit
  <2>1. /\ cont' = cont /\ covered' = covered /\ bought' = bought /\ rebought' = rebought
        /\ poll.pc = "read" /\ read.pages = 0
    BY <1>10 DEF FailUnit, Calm
  <2>2. poll'.pc = "units"
    BY <1>0, <1>10 DEF FailUnit, PollJobs
  <2>3. \A u \in Units : ~Buying(u) /\ ~Buying(u)'
    BY <2>1, <2>2 DEF Buying
  <2>4. RowsUnpaid' /\ RestIsCovered' /\ ReadUnpaid'
    BY <2>1, <2>2, <2>3 DEF Unpaid, RowsUnpaid, RestIsCovered, ReadUnpaid, Pairs
  <2> QED BY <2>1, <2>4 DEF Unpaid
<1>11. CASE RememberWalk
  <2> DEFINE pair == <<read.unit, read.via>>
  <2>1. PICK t : Remember(t) /\ Close(t)
    BY <1>11 DEF RememberWalk
  <2>2. /\ covered' = covered /\ bought' = bought /\ rebought' = rebought /\ poll.pc = "read"
        /\ read.unit \in Units /\ read.unit \in Ahead /\ pair \in Pairs
    BY <1>0, <1>11 DEF RememberWalk, Ahead, Placed, ReadIsOwn, Pairs
  <2> PICK v \in Units : v = read.unit
    BY <2>2
  <2>3. poll'.pc = "units"
    BY <1>0, <2>1 DEF Close, PollJobs
  <2>4. \A other \in Pairs \ {pair} : cont'[other] = cont[other]
    BY <1>0, <2>1 DEF Remember, TypeOK
  <2>5. cont'[pair] # None /\ cont'[pair].rest = read.rest /\ cont'[pair].startedAt = read.startedAt
    <3>1. cont'[pair] \in Rows
      <4>1. clock \in Time /\ poll.now \in Time /\ read.end \in {"wait", "failed", "more"}
        BY <1>0, <1>11 DEF RememberWalk, TypeOK, PollJobs
      <4>2. ResumeAt \in Time
        BY <4>1, TimeOps DEF ResumeAt
      <4>3. Remember(ResumeAt)
        BY <1>11 DEF RememberWalk
      <4> QED BY <2>2, <4>2, <4>3, RememberType
    <3> QED BY <2>1, <2>2, <3>1, PlaceRemembered, NullAssumption
  <2>6. \A u \in Units : ~Buying(u)' /\ (Buying(u) => u = v)
    BY <2>2, <2>3 DEF Buying
  <2>7. /\ bought[v] \cap read.rest = {}
        /\ bought[v] \cup read.rest \subseteq 1..Latest(covered[v], read.startedAt)
    BY <2>2 DEF Unpaid, ReadUnpaid
  <2>8. ASSUME NEW other \in Pairs, cont'[other] # None
        PROVE  /\ bought[other[1]] \cap cont'[other].rest = {}
               /\ bought[other[1]] \cup cont'[other].rest
                    \subseteq 1..Latest(covered[other[1]], cont'[other].startedAt)
    <3>1. CASE other = <<v, read.via>>
      BY <2>5, <2>7, <3>1
    <3>2. CASE other # <<v, read.via>>
      <4>1. other[1] # v
        <5>1. AtMostOneCollection'
          BY DEF Inv, Placed
        <5> QED BY <2>2, <2>5, <2>8, <3>2, <5>1 DEF AtMostOneCollection, Pairs
      <4>2. other[1] \in Units /\ ~Buying(other[1]) /\ cont'[other] = cont[other]
        BY <2>4, <2>6, <3>2, <4>1 DEF Pairs
      <4> QED BY <2>8, <4>2 DEF Unpaid, RowsUnpaid
    <3> QED BY <3>1, <3>2
  <2>9. RowsUnpaid'
    BY <2>2, <2>8 DEF RowsUnpaid
  <2>10. RestIsCovered'
    <3>1. ASSUME NEW u \in Units, \A p \in Providers : cont'[<<u, p>>] = None
          PROVE  bought[u] \subseteq 1..covered[u]
      <4>1. u # v
        BY <2>2, <2>5, <3>1 DEF Pairs
      <4>2. \A p \in Providers : cont[<<u, p>>] = None
        BY <2>4, <3>1, <4>1 DEF Pairs
      <4> QED BY <2>6, <4>1, <4>2 DEF Unpaid, RestIsCovered
    <3> QED BY <2>2, <3>1 DEF RestIsCovered
  <2>11. ReadUnpaid'
    BY <2>3 DEF ReadUnpaid
  <2> QED BY <2>2, <2>9, <2>10, <2>11 DEF Unpaid
<1>12. CASE ForgetWithdrawn
  <2>1. /\ covered' = covered /\ rebought' = rebought /\ poll.pc = "read"
        /\ read.unit \in Units /\ read.unit \in Ahead
        /\ bought' = [bought EXCEPT ![read.unit] = @ \cap 1..covered[read.unit]]
    BY <1>0, <1>12 DEF ForgetWithdrawn, Placed, ReadIsOwn, Ahead
  <2>2. poll'.pc = "units"
    BY <1>0, <1>12 DEF ForgetWithdrawn, Close, PollJobs
  <2>3. OnlyRemoves
    BY <1>0, <1>12, Unchanged, Forgotten DEF ForgetWithdrawn
  <2>4. /\ \A p \in Providers : cont'[<<read.unit, p>>] = None
        /\ \A u \in Units \ {read.unit}, p \in Providers : cont'[<<u, p>>] = cont[<<u, p>>]
    BY <1>0, <1>12, <2>1, PlaceForgotten DEF ForgetWithdrawn
  <2>5. \A u \in Units \ {read.unit} : ~Buying(u)
    BY DEF Buying
  <2> PICK v \in Units : v = read.unit
    BY <2>1
  <2> QED BY <1>0, <2>1, <2>2, <2>3, <2>4, <2>5, UnpaidGone
<1>13. CASE ForgetRead
  <2>1. /\ covered' = covered /\ bought' = bought /\ rebought' = rebought /\ poll.pc = "read"
        /\ read' = read /\ read.unit \in Units /\ read.unit \in Ahead /\ read.end # None
    BY <1>0, <1>13, CollectAssumption DEF ForgetRead, Placed, ReadIsOwn, Ahead, Ends
  <2>2. poll'.pc = "cover"
    BY <1>0, <1>13 DEF ForgetRead, PollJobs
  <2>3. \A u \in Units \ {read.unit}, p \in Providers : cont'[<<u, p>>] = cont[<<u, p>>]
    BY <1>0, <1>13, <2>1, PlaceForgotten DEF ForgetRead
  <2> PICK v \in Units : v = read.unit
    BY <2>1
  <2>4. Buying(v)' /\ \A u \in Units : Buying(u) => u = v
    BY <2>1, <2>2 DEF Buying, Unpaid, ReadUnpaid
  <2>5. RowsUnpaid' /\ RestIsCovered'
    BY <2>1, <2>3, <2>4 DEF Unpaid, RowsUnpaid, RestIsCovered, Pairs
  <2>6. ReadUnpaid'
    BY <2>1, <2>2 DEF Unpaid, ReadUnpaid
  <2> QED BY <2>1, <2>5, <2>6 DEF Unpaid
<1>14. CASE RecordCoverage
  <2>1. /\ cont' = cont /\ bought' = bought /\ rebought' = rebought /\ poll.pc = "cover"
        /\ read.unit \in Units
        /\ covered' = [covered EXCEPT ![read.unit] = Latest(@, read.startedAt)]
    BY <1>0, <1>14 DEF RecordCoverage, Placed, ReadIsOwn
  <2> PICK v \in Units : v = read.unit
    BY <2>1
  <2>2. poll'.pc = "units"
    BY <1>0, <1>14 DEF RecordCoverage, Close, PollJobs
  <2>3. /\ covered'[v] = Latest(covered[v], read.startedAt)
        /\ \A u \in Units \ {v} : covered'[u] = covered[u]
    BY <1>0, <2>1 DEF TypeOK
  <2>4. \A u \in Units : ~Buying(u)' /\ (Buying(u) => u = v)
    BY <2>1, <2>2 DEF Buying
  <2>5. \A p \in Providers : cont[<<v, p>>] = None
    BY <1>0, <2>1 DEF Placed, CoverIsLast
  <2>6. bought[v] \subseteq 1..covered'[v]
    BY <2>1, <2>3 DEF Unpaid, ReadUnpaid
  <2>7. RowsUnpaid'
    BY <2>1, <2>3, <2>4, <2>5 DEF Unpaid, RowsUnpaid, Pairs
  <2>8. RestIsCovered'
    BY <2>1, <2>3, <2>4, <2>6 DEF Unpaid, RestIsCovered
  <2>9. ReadUnpaid'
    BY <2>2 DEF ReadUnpaid
  <2> QED BY <2>1, <2>7, <2>8, <2>9 DEF Unpaid
<1> QED
  BY <1>1, <1>2, <1>3, <1>4, <1>5, <1>6, <1>7, <1>8, <1>9, <1>10, <1>11, <1>12, <1>13, <1>14
  DEF Next, Worker, Environment

\* No page is paid for twice, however often a collection is resumed, fails and comes back,
\* while nothing cuts a poll short: a place names only what its walk has not had.
THEOREM NothingIsPaidForTwice == Calm => (Spec => []NothingBoughtTwice)
<1> SUFFICES ASSUME Calm PROVE Spec => []NothingBoughtTwice
  OBVIOUS
<1>1. Inv /\ Accounts /\ [Next]_vars => Accounts'
  BY AccountsStep
<1>2. Inv /\ Inv' /\ Accounts /\ Unpaid /\ [Next]_vars => Unpaid'
  BY UnpaidStep
<1>3. Unpaid => NothingBoughtTwice
  BY DEF Unpaid, NothingBoughtTwice
<1> QED BY Invariant, AccountsInit, UnpaidInit, <1>1, <1>2, <1>3, PTL DEF Spec

---------------------------------------------------------------------------
\* The newest row names the walk of what is in flight.

\* The units of a poll that resumes nothing had no place when it began.
Fresh == poll.pc # "idle" /\ ~poll.resuming => \A u \in Units : poll.pending[u] = None

OnItsWalk == adrift = {} /\ Fresh

\* The budget does not refuse a poll, none dies, and no statement is refused.
RowsAreWritten == Faults \cap {"budget", "crash", "database"} = {}

LEMMA WalkStep ==
  ASSUME RowsAreWritten, Inv, OnItsWalk, [Next]_vars
  PROVE  OnItsWalk'
<1> USE DEF userVars, dataVars, ghostVars
<1>0. TypeOK /\ Placed /\ poll \in PollJobs
  BY DEF Inv, TypeOK
<1>1. CASE RefuseForBudget \/ BreakBeforeOpen \/ BreakPoll \/ Crash
  BY <1>1 DEF RefuseForBudget, BreakBeforeOpen, BreakPoll, Crash, RowsAreWritten
<1>2. CASE \/ Tick \/ SetPaused \/ SetConnections \/ EditUnits \/ Schedule \/ UNCHANGED vars
           \/ ReadPage \/ FailLaterPage
  <2>1. poll' = poll
    BY <1>2 DEF Tick, SetPaused, SetConnections, EditUnits, Schedule, vars, ReadPage, FailLaterPage
  <2>2. adrift' = {}
    BY <1>2 DEF Tick, SetPaused, SetConnections, EditUnits, Schedule, vars, ReadPage, FailLaterPage,
                OnItsWalk
  <2> QED BY <2>1, <2>2 DEF OnItsWalk, Fresh
<1>3. CASE OpenPoll
  <2>1. PICK turn \in Turns :
          poll' = [IdlePoll EXCEPT
                     !.pc = "units", !.now = clock, !.choice = choice, !.todo = turn,
                     !.pending = [u \in Units |-> PendingOf(u)],
                     !.resuming = Resuming, !.openedPaused = paused]
    BY <1>3 DEF OpenPoll
  <2>2. poll'.resuming = Resuming /\ poll'.pending = [u \in Units |-> PendingOf(u)]
    BY <2>1 DEF IdlePoll
  <2>3. ~Resuming => \A u \in Units : PendingOf(u) = None
    BY DEF Resuming, InFlight, PendingOf, Pairs
  <2> QED BY <1>3, <2>2, <2>3 DEF OpenPoll, OnItsWalk, Fresh
<1>4. CASE SkipEmptyTurn \/ HandOn
  BY <1>4 DEF SkipEmptyTurn, HandOn, Return, IdlePoll, OnItsWalk, Fresh
<1>5. ASSUME NEW u \in Units,
             SkipUnit(u) \/ AbandonUnit(u) \/ WaitForUnit(u) \/ BeginRead(u)
      PROVE  OnItsWalk'
  <2>1. poll.pc # "idle" /\ poll'.resuming = poll.resuming /\ poll'.pending = poll.pending
    <3>1. CASE SkipUnit(u)
      BY <1>0, <3>1 DEF SkipUnit, PollJobs
    <3>2. CASE AbandonUnit(u)
      BY <1>0, <3>2 DEF AbandonUnit, PollJobs
    <3>3. CASE WaitForUnit(u)
      BY <1>0, <3>3 DEF WaitForUnit, PollJobs
    <3>4. CASE BeginRead(u)
      BY <1>0, <3>4 DEF BeginRead, PollJobs
    <3> QED BY <1>5, <3>1, <3>2, <3>3, <3>4
  <2>2. adrift' = {}
    BY <1>5 DEF SkipUnit, AbandonUnit, Forget, WaitForUnit, BeginRead, OnItsWalk
  <2> QED BY <2>1, <2>2 DEF OnItsWalk, Fresh
<1>6. CASE FailUnit \/ RememberWalk \/ ForgetWithdrawn \/ ForgetRead \/ RecordCoverage
  <2>1. poll.pc # "idle" /\ poll'.resuming = poll.resuming /\ poll'.pending = poll.pending
    <3>1. CASE FailUnit
      BY <1>0, <3>1 DEF FailUnit, PollJobs
    <3>2. CASE RememberWalk
      BY <1>0, <3>2 DEF RememberWalk, Close, PollJobs
    <3>3. CASE ForgetWithdrawn
      BY <1>0, <3>3 DEF ForgetWithdrawn, Close, PollJobs
    <3>4. CASE ForgetRead
      BY <1>0, <3>4 DEF ForgetRead, PollJobs
    <3>5. CASE RecordCoverage
      BY <1>0, <3>5 DEF RecordCoverage, Close, PollJobs
    <3> QED BY <1>6, <3>1, <3>2, <3>3, <3>4, <3>5
  <2>2. adrift' = {}
    BY <1>6 DEF FailUnit, RememberWalk, ForgetWithdrawn, ForgetRead, Forget, RecordCoverage, OnItsWalk
  <2> QED BY <2>1, <2>2 DEF OnItsWalk, Fresh
<1>7. ASSUME poll.pc # "idle", WriteRow(poll.resuming, OpenedHere) PROVE adrift' = {}
  <2>1. CASE poll.resuming
    BY <1>7, <2>1 DEF WriteRow, OnItsWalk
  <2>2. CASE ~poll.resuming
    BY <1>7, <2>2 DEF WriteRow, OnItsWalk, Fresh, OpenedHere, InFlight, Pairs
  <2> QED BY <1>0, <2>1, <2>2 DEF PollJobs
<1>8. CASE FailPoll
  BY <1>7, <1>8 DEF FailPoll, Throw, Return, IdlePoll, OnItsWalk, Fresh
<1>9. CASE StorePosts
  <2>1. poll'.resuming = poll.resuming /\ poll'.pending = poll.pending /\ poll.pc = "store"
    BY <1>0, <1>9 DEF StorePosts, PollJobs
  <2> QED BY <1>7, <1>9, <2>1 DEF StorePosts, OnItsWalk, Fresh
<1>10. CASE BookAlarm
  <2>1. CASE Empty(poll.batch)
    BY <1>7, <1>10, <2>1 DEF BookAlarm, Return, IdlePoll, OnItsWalk, Fresh
  <2>2. CASE ~Empty(poll.batch)
    <3>1. poll'.resuming = poll.resuming /\ poll'.pending = poll.pending /\ poll.pc = "units"
      BY <1>0, <1>10, <2>2 DEF BookAlarm, PollJobs
    <3> QED BY <1>10, <2>2, <3>1 DEF BookAlarm, OnItsWalk, Fresh
  <2> QED BY <2>1, <2>2
<1> QED
  BY <1>1, <1>2, <1>3, <1>4, <1>5, <1>6, <1>8, <1>9, <1>10
  DEF Next, Worker, Environment

\* Whatever edits, pauses, keys and slow polls come in between, every collection in flight is
\* on the walk of the newest row, where the poll that resumes it looks: of what the code
\* handles, only a poll that is refused whole or cut short mints a walk of its own.
THEOREM WalkStaysKnown == RowsAreWritten => (Spec => []WalkIsNeverLost)
<1> SUFFICES ASSUME RowsAreWritten PROVE Spec => []WalkIsNeverLost
  OBVIOUS
<1>1. Init => OnItsWalk
  BY DEF Init, OnItsWalk, Fresh, IdlePoll
<1>2. Inv /\ OnItsWalk /\ [Next]_vars => OnItsWalk'
  BY WalkStep
<1>3. OnItsWalk => WalkIsNeverLost
  BY DEF OnItsWalk, WalkIsNeverLost
<1> QED BY Invariant, <1>1, <1>2, <1>3, PTL DEF Spec
=============================================================================
