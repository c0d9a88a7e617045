---------------------------- MODULE OutboxProofs ----------------------------
(***************************************************************************)
(* Proofs about Outbox, for every set of matches and of notify jobs, every *)
(* limit, every form a person may save and every fault.                    *)
(***************************************************************************)
EXTENDS Outbox, FiniteSetTheorems, SequenceTheorems, TLAPS

\* A job that holds the settings row, with a delivery in hand.
Working(w) == job[w].pc \in {"sending", "accepted", "refused"}

\* One transaction at a time.
OneHolder == \A w \in Workers : Working(w) <=> lock = w

\* What the job holding the row knows of its delivery: it is pending and not
\* cancelled, and the job carries all that is shown of it, and no more than any
\* earlier attempt told.
InHand(w) ==
  /\ job[w].lane \in Lanes /\ job[w].id \in DOMAIN outbox[job[w].lane]
  /\ Pending(job[w].lane, job[w].id) /\ ~Cancelled(job[w].lane, job[w].id)
  /\ job[w].load \subseteq outbox[job[w].lane][job[w].id].load
  /\ Visible(job[w].lane, job[w].id) \subseteq job[w].load
  /\ \A e \in heard : e[1] = job[w].lane /\ e[2] = job[w].id => job[w].load \subseteq e[3]

\* What jobs and settings remember of the matches has been written.
MatchesAreWritten == current \subseteq Created /\ \A w \in Workers : job[w].seen \subseteq Created

\* A delivery carries written matches, those of its revision are of the period
\* in force, and one that still waits has an attempt left.
RowIsSound(row) ==
  /\ row.revision <= settings.revision
  /\ row.load \subseteq Created
  /\ row.revision = settings.revision => row.load \subseteq current
  /\ row.status = "pending" => row.attempts < MaxAttempts

\* A lane carries a match once.
Apart(lane) ==
  \A i, k \in DOMAIN outbox[lane] : i # k => outbox[lane][i].load \cap outbox[lane][k].load = {}

\* What was told is of the delivery, and what the delivery still shows was told.
ToldWhole(e) ==
  /\ e[2] \in DOMAIN outbox[e[1]]
  /\ e[3] \subseteq outbox[e[1]][e[2]].load
  /\ Visible(e[1], e[2]) \subseteq e[3]

Inv ==
  /\ TypeOK
  /\ OneHolder
  /\ \A w \in Workers : Working(w) => InHand(w)
  /\ MatchesAreWritten
  /\ \A lane \in Lanes : Apart(lane) /\ \A id \in DOMAIN outbox[lane] : RowIsSound(outbox[lane][id])
  /\ \A e \in heard : ToldWhole(e)
  /\ FailingWebhookIsOff

---------------------------------------------------------------------------
\* Chunks cuts its rows into messages.

LEMMA Quotient ==
  ASSUME NEW a \in Nat, NEW size \in Nat \ {0}
  PROVE  /\ a \div size \in Nat
         /\ (a \div size) * size <= a /\ a < (a \div size) * size + size
OBVIOUS

LEMMA QuotientBelow ==
  ASSUME NEW a \in Nat, NEW n \in Nat, a < n, NEW size \in Nat \ {0}
  PROVE  a \div size + 1 \in 1..((n + size - 1) \div size)
<1> DEFINE q == a \div size
           r == (n + size - 1) \div size
<1>1. q \in Nat /\ q * size <= a
  BY Quotient
<1>2. n + size - 1 \in Nat
  OBVIOUS
<1>3. r \in Nat /\ n + size - 1 < r * size + size
  BY <1>2, Quotient
<1>4. (q + 1) * size = q * size + size /\ (r + 1) * size = r * size + size
  BY <1>1, <1>3
<1>5. (q + 1) * size < (r + 1) * size
  BY <1>1, <1>3, <1>4
<1>6. q + 1 < r + 1
  BY <1>1, <1>3, <1>5
<1> QED BY <1>1, <1>3, <1>6

\* How many of the rows come before a match.
Place(rows, m) == Cardinality({x \in rows : x < m})

LEMMA FiniteRows ==
  ASSUME NEW rows \in SUBSET Matches
  PROVE  IsFiniteSet(rows) /\ Cardinality(rows) \in Nat
BY OutboxAssumption, FS_Subset, FS_CardinalityType

LEMMA PlaceRange ==
  ASSUME NEW rows \in SUBSET Matches, NEW m \in rows
  PROVE  Place(rows, m) \in Nat /\ Place(rows, m) < Cardinality(rows)
<1> DEFINE before == {x \in rows : x < m}
<1>1. IsFiniteSet(rows) /\ Cardinality(rows) \in Nat
  BY FiniteRows
<1>2. m \in Nat /\ before \in SUBSET (rows \ {m})
  BY OutboxAssumption
<1>3. IsFiniteSet(rows \ {m}) /\ Cardinality(rows \ {m}) = Cardinality(rows) - 1
  BY <1>1, FS_RemoveElement
<1>4. IsFiniteSet(before) /\ Cardinality(before) <= Cardinality(rows \ {m})
  BY <1>2, <1>3, FS_Subset
<1>5. Cardinality(before) \in Nat
  BY <1>4, FS_CardinalityType
<1> QED BY <1>1, <1>3, <1>4, <1>5 DEF Place

LEMMA PlaceGrows ==
  ASSUME NEW rows \in SUBSET Matches, NEW m \in rows, NEW n \in rows, m < n
  PROVE  Place(rows, m) < Place(rows, n)
<1> DEFINE before == {x \in rows : x < m}
           upto == {x \in rows : x < n}
<1>1. m \in Nat /\ n \in Nat /\ rows \subseteq Nat
  BY OutboxAssumption
<1>2. IsFiniteSet(upto) /\ IsFiniteSet(upto \ {m})
  BY FiniteRows, FS_Subset, FS_RemoveElement
<1>3. m \in upto /\ before \in SUBSET (upto \ {m})
  <2>1. \A x \in rows : x < m => x < n /\ x # m
    BY <1>1
  <2> QED BY <2>1
<1>4. Cardinality(upto \ {m}) = Cardinality(upto) - 1
  BY <1>2, <1>3, FS_RemoveElement
<1>5. IsFiniteSet(before) /\ Cardinality(before) <= Cardinality(upto \ {m})
  BY <1>2, <1>3, FS_Subset
<1>6. Cardinality(before) \in Nat /\ Cardinality(upto) \in Nat
  BY <1>2, <1>5, FS_CardinalityType
<1> QED BY <1>4, <1>5, <1>6 DEF Place

\* The chunks are a sequence of sets of the rows, every row is in one of them,
\* and no row in two (the slices of deliver.ts:136-159).
THEOREM ChunksPartition ==
  ASSUME NEW rows \in SUBSET Matches, NEW size \in Nat \ {0}
  PROVE  /\ \E n \in Nat : Chunks(rows, size) \in [1..n -> SUBSET rows]
         /\ \A m \in rows : \E k \in DOMAIN Chunks(rows, size) : m \in Chunks(rows, size)[k]
         /\ \A i, k \in DOMAIN Chunks(rows, size) :
              i # k => Chunks(rows, size)[i] \cap Chunks(rows, size)[k] = {}
<1> DEFINE n == (Cardinality(rows) + size - 1) \div size
           chunks == Chunks(rows, size)
<1>1. chunks = [k \in 1..n |-> {m \in rows : Place(rows, m) \div size = k - 1}]
  BY DEF Chunks, Place
<1>2. n \in Nat
  <2>1. Cardinality(rows) + size - 1 \in Nat
    BY FiniteRows
  <2> QED BY <2>1, Quotient
<1>3. chunks \in [1..n -> SUBSET rows]
  BY <1>1
<1>4. ASSUME NEW m \in rows PROVE \E k \in 1..n : m \in chunks[k]
  <2> DEFINE k == Place(rows, m) \div size + 1
  <2>1. k \in 1..n
    BY PlaceRange, FiniteRows, QuotientBelow
  <2>2. Place(rows, m) \div size \in Nat
    BY PlaceRange, Quotient
  <2>3. Place(rows, m) \div size = k - 1
    BY <2>2
  <2> QED BY <2>1, <2>3, <1>1
<1>5. ASSUME NEW i \in 1..n, NEW k \in 1..n, i # k PROVE chunks[i] \cap chunks[k] = {}
  <2>1. i \in Int /\ k \in Int /\ i - 1 # k - 1
    BY <1>2, <1>5
  <2> QED BY <2>1, <1>1
<1>6. DOMAIN chunks = 1..n
  BY <1>1
<1> HIDE DEF n, chunks
<1>7. \E x \in Nat : chunks \in [1..x -> SUBSET rows]
  BY <1>2, <1>3
<1> QED BY <1>4, <1>5, <1>6, <1>7 DEF chunks

\* A chunk is no larger than asked, so a digest carries DigestSize matches at
\* most (deliver.ts:138).
THEOREM ChunksAreBounded ==
  ASSUME NEW rows \in SUBSET Matches, NEW size \in Nat \ {0},
         NEW k \in DOMAIN Chunks(rows, size)
  PROVE  Cardinality(Chunks(rows, size)[k]) <= size
<1> DEFINE chunk == Chunks(rows, size)[k]
           first == (k - 1) * size
           last == first + size - 1
<1>1. chunk = {m \in rows : Place(rows, m) \div size = k - 1}
  BY DEF Chunks, Place
<1>2. k \in Int
  <2>1. Cardinality(rows) + size - 1 \in Nat
    BY FiniteRows
  <2>2. DOMAIN Chunks(rows, size) = 1..((Cardinality(rows) + size - 1) \div size)
    BY DEF Chunks
  <2> QED BY <2>1, <2>2, Quotient
<1>3. first \in Int /\ last \in Int
  BY <1>2
<1>4. \A m \in chunk : Place(rows, m) \in first..last
  <2> TAKE m \in chunk
  <2> DEFINE p == Place(rows, m)
  <2>1. p \in Nat /\ p \div size = k - 1
    BY <1>1, PlaceRange
  <2> HIDE DEF p
  <2>2. (p \div size) * size <= p /\ p < (p \div size) * size + size
    BY <2>1, Quotient
  <2>3. first <= p /\ p < first + size
    BY <2>1, <2>2
  <2> HIDE DEF first
  <2>4. p \in first..last
    BY <2>1, <2>3, <1>3
  <2> QED BY <2>4 DEF p
<1>5. \A m, n \in chunk : Place(rows, m) = Place(rows, n) => m = n
  <2> TAKE m, n \in chunk
  <2>1. m \in rows /\ n \in rows /\ m \in Nat /\ n \in Nat
    BY <1>1, OutboxAssumption
  <2>2. Place(rows, m) \in Nat /\ Place(rows, n) \in Nat
    BY <2>1, PlaceRange
  <2>3. m < n => Place(rows, m) < Place(rows, n)
    BY <2>1, PlaceGrows
  <2>4. n < m => Place(rows, n) < Place(rows, m)
    BY <2>1, PlaceGrows
  <2> QED BY <2>1, <2>2, <2>3, <2>4
<1> HIDE DEF chunk, first, last
<1>6. [m \in chunk |-> Place(rows, m)] \in Injection(chunk, first..last)
  BY <1>4, <1>5 DEF Injection, IsInjective
<1>7. IsFiniteSet(first..last) /\ Cardinality(first..last) = size
  <2>1. ~(first > last) /\ last - first + 1 = size
    BY <1>3 DEF last
  <2> QED BY <2>1, <1>3, FS_Interval
<1>8. Cardinality(chunk) <= Cardinality(first..last)
  BY <1>6, <1>7, FS_Injection
<1> QED BY <1>7, <1>8 DEF chunk

---------------------------------------------------------------------------
\* Types.

LEMMA NoneFacts ==
  /\ \A entry \in Entries : entry # None
  /\ \A w \in Workers : w # None
BY OutboxAssumption

LEMMA RowFacts ==
  ASSUME TypeOK, NEW lane \in Lanes, NEW id \in DOMAIN outbox[lane]
  PROVE  /\ outbox \in [Lanes -> Seq(Rows)] /\ outbox[lane] \in Seq(Rows)
         /\ id \in 1..Len(outbox[lane]) /\ id \in Nat
         /\ outbox[lane][id] \in Rows
<1>1. outbox \in [Lanes -> Seq(Rows)] /\ outbox[lane] \in Seq(Rows)
  BY DEF TypeOK
<1>2. DOMAIN outbox[lane] = 1..Len(outbox[lane]) /\ Len(outbox[lane]) \in Nat
  BY <1>1, LenProperties
<1>3. outbox[lane][id] \in Rows
  BY <1>1, <1>2, ElementOfSeq
<1> QED BY <1>1, <1>2, <1>3

\* One row is written: the others stay, and every sequence keeps its length.
LEMMA RowWritten ==
  ASSUME TypeOK, NEW lane \in Lanes, NEW id \in DOMAIN outbox[lane], NEW new \in Rows,
         outbox' = [outbox EXCEPT ![lane][id] = new]
  PROVE  /\ outbox' \in [Lanes -> Seq(Rows)]
         /\ \A l \in Lanes : DOMAIN outbox'[l] = DOMAIN outbox[l]
         /\ outbox'[lane][id] = new
         /\ \A l \in Lanes : \A i \in DOMAIN outbox[l] :
              l # lane \/ i # id => outbox'[l][i] = outbox[l][i]
<1> DEFINE lot == [outbox[lane] EXCEPT ![id] = new]
<1>1. /\ outbox \in [Lanes -> Seq(Rows)] /\ outbox[lane] \in Seq(Rows)
      /\ id \in 1..Len(outbox[lane])
  BY RowFacts
<1>2. outbox' = [outbox EXCEPT ![lane] = lot]
  OBVIOUS
<1>3. lot \in Seq(Rows)
  BY <1>1, ExceptSeq
<1>4. DOMAIN lot = DOMAIN outbox[lane] /\ lot[id] = new
      /\ \A i \in DOMAIN outbox[lane] : i # id => lot[i] = outbox[lane][i]
  OBVIOUS
<1> HIDE DEF lot
<1> QED BY <1>1, <1>2, <1>3, <1>4

LEMMA RowTypes ==
  ASSUME NEW row \in Rows
  PROVE  /\ [row EXCEPT !.due = TRUE] \in Rows
         /\ [row EXCEPT !.status = "skipped"] \in Rows
         /\ \A a \in 0..MaxAttempts : [row EXCEPT !.status = "sent", !.attempts = a] \in Rows
         /\ \A a \in 0..MaxAttempts : \A s \in Statuses :
              [row EXCEPT !.attempts = a, !.due = FALSE, !.status = s] \in Rows
BY DEF Rows, Statuses

LEMMA JobTypes ==
  ASSUME TypeOK, NEW w \in Workers
  PROVE  /\ job[w] \in NotifyJobs /\ IdleJob \in NotifyJobs
         /\ [IdleJob EXCEPT !.pc = "send"] \in NotifyJobs
         /\ \A j \in NotifyJobs : [job EXCEPT ![w] = j] \in [Workers -> NotifyJobs]
<1>1. job[w] \in NotifyJobs
  BY DEF TypeOK
<1>2. IdleJob \in NotifyJobs /\ [IdleJob EXCEPT !.pc = "send"] \in NotifyJobs
  BY DEF IdleJob, NotifyJobs
<1> QED BY <1>1, <1>2 DEF TypeOK

\* What the invariant says of the delivery in hand.
LEMMA HandFacts ==
  ASSUME Inv, NEW w \in Workers, Working(w)
  PROVE  /\ lock = w
         /\ job[w] \in NotifyJobs /\ job[w].lane \in Lanes
         /\ job[w].id \in DOMAIN outbox[job[w].lane] /\ job[w].id \in Nat
         /\ outbox[job[w].lane][job[w].id] \in Rows
         /\ outbox[job[w].lane][job[w].id].status = "pending"
         /\ outbox[job[w].lane][job[w].id].attempts + 1 \in 0..MaxAttempts
         /\ outbox[job[w].lane][job[w].id].revision = settings.revision
         /\ Enabled(job[w].lane[1])
         /\ job[w].load \subseteq outbox[job[w].lane][job[w].id].load
<1> DEFINE lane == job[w].lane
           id == job[w].id
<1>1. InHand(w) /\ lock = w /\ TypeOK
  BY DEF Inv, OneHolder
<1>2. lane \in Lanes /\ id \in DOMAIN outbox[lane]
  BY <1>1 DEF InHand
<1>3. outbox[lane][id] \in Rows /\ id \in Nat
  BY <1>1, <1>2, RowFacts
<1>4. RowIsSound(outbox[lane][id])
  BY <1>2 DEF Inv
<1>5. outbox[lane][id].status = "pending" /\ outbox[lane][id].revision = settings.revision
      /\ Enabled(lane[1]) /\ job[w].load \subseteq outbox[lane][id].load
  BY <1>1 DEF InHand, Pending, Cancelled
<1>6. outbox[lane][id].attempts + 1 \in 0..MaxAttempts
  <2>1. outbox[lane][id].attempts \in 0..MaxAttempts /\ MaxAttempts \in Nat
    BY <1>3, OutboxAssumption DEF Rows
  <2>2. outbox[lane][id].attempts < MaxAttempts
    BY <1>4, <1>5 DEF RowIsSound
  <2> QED BY <2>1, <2>2
<1>7. job[w] \in NotifyJobs
  BY <1>1, JobTypes
<1> QED BY <1>1, <1>2, <1>3, <1>5, <1>6, <1>7

\* A webhook that is used has a failure left.
LEMMA FailureLeft ==
  ASSUME Inv, NEW w \in Workers, Working(w), job[w].lane[1] = "webhook"
  PROVE  /\ settings \in Settings /\ settings.form.webhook
         /\ settings.failures + 1 \in 0..MaxFailures
         /\ settings.failures < MaxFailures
<1>1. settings \in Settings /\ MaxFailures \in Nat \ {0}
  BY OutboxAssumption DEF Inv, TypeOK
<1>2. settings.form.webhook
  BY HandFacts DEF Enabled
<1>3. settings.failures < MaxFailures
  BY <1>2 DEF Inv, FailingWebhookIsOff
<1>4. settings.failures \in 0..MaxFailures
  BY <1>1 DEF Settings
<1> QED BY <1>1, <1>2, <1>3, <1>4

LEMMA ChunkRows ==
  ASSUME TypeOK, NEW w \in Workers, NEW lane \in Lanes
  PROVE  LET chunks == Chunks(Wanted(lane, job[w].seen), Size(lane[2])) IN
         /\ Wanted(lane, job[w].seen) \in SUBSET Matches
         /\ Size(lane[2]) \in Nat \ {0}
         /\ \E n \in Nat : chunks \in [1..n -> SUBSET Wanted(lane, job[w].seen)]
         /\ [k \in DOMAIN chunks |-> NewRow(chunks[k])] \in Seq(Rows)
<1> DEFINE wanted == Wanted(lane, job[w].seen)
           chunks == Chunks(wanted, Size(lane[2]))
<1>1. wanted \in SUBSET Matches
  <2>1. current \in SUBSET Matches
    BY DEF TypeOK
  <2> QED BY <2>1 DEF Wanted
<1>2. Size(lane[2]) \in Nat \ {0}
  BY OutboxAssumption DEF Size
<1> HIDE DEF wanted
<1>3. PICK n \in Nat : chunks \in [1..n -> SUBSET wanted]
  BY <1>1, <1>2, ChunksPartition
<1> HIDE DEF chunks
<1>4. \A load \in SUBSET Matches : NewRow(load) \in Rows
  BY OutboxAssumption DEF TypeOK, Settings, NewRow, Rows, Statuses
<1>5. [k \in DOMAIN chunks |-> NewRow(chunks[k])] \in [1..n -> Rows]
  BY <1>1, <1>3, <1>4
<1>6. [k \in DOMAIN chunks |-> NewRow(chunks[k])] \in Seq(Rows)
  BY <1>5, SeqDef
<1> QED BY <1>1, <1>2, <1>3, <1>6 DEF wanted, chunks

\* What planning does to a lane: what was there stays, and a new row is pending,
\* of the revision in force, with an attempt left and a part of what is wanted
\* that no other new row has.
LEMMA Planned ==
  ASSUME TypeOK, NEW w \in Workers, Plan(w)
  PROVE  /\ outbox' \in [Lanes -> Seq(Rows)]
         /\ \A lane \in Lanes : \A id \in DOMAIN outbox[lane] :
              id \in DOMAIN outbox'[lane] /\ outbox'[lane][id] = outbox[lane][id]
         /\ \A lane \in Lanes : \A id \in DOMAIN outbox'[lane] \ DOMAIN outbox[lane] :
              /\ outbox'[lane][id].revision = settings.revision
              /\ outbox'[lane][id].status = "pending"
              /\ outbox'[lane][id].attempts = 0
              /\ outbox'[lane][id].load \subseteq Wanted(lane, job[w].seen)
              /\ \A k \in DOMAIN outbox'[lane] \ DOMAIN outbox[lane] :
                   k # id => outbox'[lane][k].load \cap outbox'[lane][id].load = {}
<1> DEFINE Chunked(lane) == Chunks(Wanted(lane, job[w].seen), Size(lane[2]))
           Fresh(lane) == [k \in DOMAIN Chunked(lane) |-> NewRow(Chunked(lane)[k])]
<1>1. /\ outbox \in [Lanes -> Seq(Rows)]
      /\ outbox' = [lane \in Lanes |-> IF lane \in PlannedLanes THEN outbox[lane] \o Fresh(lane)
                                       ELSE outbox[lane]]
  BY DEF Plan, TypeOK
<1>2. ASSUME NEW lane \in Lanes
      PROVE  /\ Fresh(lane) \in Seq(Rows)
             /\ \A k \in DOMAIN Fresh(lane) :
                  /\ Fresh(lane)[k].revision = settings.revision
                  /\ Fresh(lane)[k].status = "pending"
                  /\ Fresh(lane)[k].attempts = 0
                  /\ Fresh(lane)[k].load \subseteq Wanted(lane, job[w].seen)
                  /\ \A i \in DOMAIN Fresh(lane) :
                       i # k => Fresh(lane)[i].load \cap Fresh(lane)[k].load = {}
  <2> DEFINE chunks == Chunked(lane)
             wanted == Wanted(lane, job[w].seen)
  <2>1. /\ Fresh(lane) \in Seq(Rows) /\ wanted \in SUBSET Matches /\ Size(lane[2]) \in Nat \ {0}
        /\ \E n \in Nat : chunks \in [1..n -> SUBSET wanted]
    BY ChunkRows
  <2>2. \A i, k \in DOMAIN chunks : i # k => chunks[i] \cap chunks[k] = {}
    BY <2>1, ChunksPartition
  <2>3. Fresh(lane) = [k \in DOMAIN chunks |-> NewRow(chunks[k])]
    OBVIOUS
  <2> HIDE DEF chunks, wanted, Fresh, Chunked
  <2>4. \A k \in DOMAIN chunks : chunks[k] \subseteq wanted
    BY <2>1
  <2> QED BY <2>1, <2>2, <2>3, <2>4 DEF NewRow, wanted
<1> HIDE DEF Chunked, Fresh
<1>3. ASSUME NEW lane \in Lanes
      PROVE  /\ outbox'[lane] \in Seq(Rows)
             /\ \A id \in DOMAIN outbox[lane] :
                  id \in DOMAIN outbox'[lane] /\ outbox'[lane][id] = outbox[lane][id]
             /\ \A id \in DOMAIN outbox'[lane] \ DOMAIN outbox[lane] :
                  \E k \in DOMAIN Fresh(lane) :
                     k = id - Len(outbox[lane]) /\ outbox'[lane][id] = Fresh(lane)[k]
             /\ DOMAIN outbox'[lane] \subseteq Nat
             /\ Len(outbox[lane]) \in Nat
  <2>1. outbox[lane] \in Seq(Rows) /\ Fresh(lane) \in Seq(Rows)
    BY <1>1, <1>2
  <2>2. DOMAIN outbox[lane] = 1..Len(outbox[lane]) /\ Len(outbox[lane]) \in Nat
    BY <2>1, LenProperties
  <2>3. CASE lane \notin PlannedLanes
    <3>1. outbox'[lane] = outbox[lane]
      BY <1>1, <2>3
    <3> QED BY <2>1, <2>2, <3>1
  <2>4. CASE lane \in PlannedLanes
    <3>1. outbox'[lane] = outbox[lane] \o Fresh(lane)
      BY <1>1, <2>4
    <3>2. DOMAIN Fresh(lane) = 1..Len(Fresh(lane)) /\ Len(Fresh(lane)) \in Nat
      BY <2>1, LenProperties
    <3>3. /\ outbox'[lane] \in Seq(Rows)
          /\ Len(outbox'[lane]) = Len(outbox[lane]) + Len(Fresh(lane))
          /\ \A i \in 1..Len(outbox[lane]) + Len(Fresh(lane)) : outbox'[lane][i] =
               IF i <= Len(outbox[lane]) THEN outbox[lane][i] ELSE Fresh(lane)[i - Len(outbox[lane])]
      BY <2>1, <3>1, ConcatProperties
    <3>4. DOMAIN outbox'[lane] = 1..(Len(outbox[lane]) + Len(Fresh(lane)))
      BY <3>3, LenProperties
    <3>5. \A id \in DOMAIN outbox[lane] :
            id \in DOMAIN outbox'[lane] /\ outbox'[lane][id] = outbox[lane][id]
      BY <2>2, <3>2, <3>3, <3>4
    <3>6. ASSUME NEW id \in DOMAIN outbox'[lane] \ DOMAIN outbox[lane]
          PROVE  /\ id - Len(outbox[lane]) \in DOMAIN Fresh(lane)
                 /\ outbox'[lane][id] = Fresh(lane)[id - Len(outbox[lane])]
      BY <2>2, <3>2, <3>3, <3>4
    <3> QED BY <2>2, <3>2, <3>3, <3>4, <3>5, <3>6
  <2> QED BY <2>3, <2>4
<1>4. outbox' \in [Lanes -> Seq(Rows)]
  BY <1>1, <1>3
<1>5. ASSUME NEW lane \in Lanes, NEW id \in DOMAIN outbox'[lane] \ DOMAIN outbox[lane]
      PROVE  /\ outbox'[lane][id].revision = settings.revision
             /\ outbox'[lane][id].status = "pending"
             /\ outbox'[lane][id].attempts = 0
             /\ outbox'[lane][id].load \subseteq Wanted(lane, job[w].seen)
  BY <1>2, <1>3
<1>6. ASSUME NEW lane \in Lanes, NEW id \in DOMAIN outbox'[lane] \ DOMAIN outbox[lane],
             NEW k \in DOMAIN outbox'[lane] \ DOMAIN outbox[lane], k # id
      PROVE  outbox'[lane][k].load \cap outbox'[lane][id].load = {}
  <2>1. id \in Nat /\ k \in Nat /\ Len(outbox[lane]) \in Nat
    BY <1>3
  <2>2. id - Len(outbox[lane]) # k - Len(outbox[lane])
    BY <2>1, <1>6
  <2>3. /\ id - Len(outbox[lane]) \in DOMAIN Fresh(lane) /\ k - Len(outbox[lane]) \in DOMAIN Fresh(lane)
        /\ outbox'[lane][id] = Fresh(lane)[id - Len(outbox[lane])]
        /\ outbox'[lane][k] = Fresh(lane)[k - Len(outbox[lane])]
    BY <1>3
  <2> QED BY <2>2, <2>3, <1>2
<1> QED BY <1>3, <1>4, <1>5, <1>6

---------------------------------------------------------------------------
\* Every step keeps the types.

LEMMA InitTypes == Init => TypeOK
<1> SUFFICES ASSUME Init PROVE TypeOK
  OBVIOUS
<1>1. settings \in Settings
  <2>1. {1} \subseteq 1..MaxRevision /\ {0} \subseteq 0..MaxFailures
    BY OutboxAssumption
  <2>2. Asked \subseteq Forms /\ {FALSE} \subseteq BOOLEAN
    BY OutboxAssumption
  <2> QED BY <2>1, <2>2 DEF Init, Settings
<1>2. outbox \in [Lanes -> Seq(Rows)]
  <2>1. << >> \in Seq(Rows)
    BY EmptySeq
  <2> QED BY <2>1 DEF Init
<1>3. job \in [Workers -> NotifyJobs]
  BY DEF Init, IdleJob, NotifyJobs
<1> QED BY <1>1, <1>2, <1>3, OutboxAssumption DEF Init, TypeOK

LEMMA WorldTypes ==
  ASSUME TypeOK,
         \/ \E m \in Matches : HideMatch(m) \/ \E score \in Scores : WriteMatch(m, score)
         \/ TimePasses
  PROVE  TypeOK'
<1>1. ASSUME NEW m \in Matches, HideMatch(m) PROVE TypeOK'
  <2>1. inbox[m] \in Entries
    BY <1>1 DEF TypeOK, HideMatch, Shown, Created
  <2>2. [inbox[m] EXCEPT !.hidden = TRUE] \in Entries
    BY <2>1 DEF Entries
  <2>3. inbox' = [inbox EXCEPT ![m] = [inbox[m] EXCEPT !.hidden = TRUE]]
    BY <1>1 DEF HideMatch
  <2>4. inbox' \in [Matches -> Entries \cup {None}]
    BY <2>2, <2>3 DEF TypeOK
  <2> QED BY <1>1, <2>4 DEF HideMatch, TypeOK
<1>2. ASSUME NEW m \in Matches, NEW score \in Scores, WriteMatch(m, score) PROVE TypeOK'
  <2> DEFINE entry == IF inbox[m] = None THEN [score |-> score, hidden |-> FALSE]
                      ELSE [inbox[m] EXCEPT !.score = score]
  <2>1. entry \in Entries
    BY DEF TypeOK, Entries
  <2>2. inbox' = [inbox EXCEPT ![m] = entry]
    BY <1>2 DEF WriteMatch
  <2> HIDE DEF entry
  <2>3. inbox' \in [Matches -> Entries \cup {None}]
    BY <2>1, <2>2 DEF TypeOK
  <2>4. current' \in SUBSET Matches
    BY <1>2 DEF WriteMatch, TypeOK
  <2> QED BY <1>2, <2>3, <2>4 DEF WriteMatch, TypeOK
<1>3. CASE DigestFallsDue
  BY <1>3 DEF DigestFallsDue, TypeOK, Settings
<1>4. ASSUME NEW lane \in Lanes, NEW id \in DOMAIN outbox[lane], RetryFallsDue(lane, id)
      PROVE  TypeOK'
  <2>1. [outbox[lane][id] EXCEPT !.due = TRUE] \in Rows
    BY RowFacts, RowTypes
  <2>2. outbox' = [outbox EXCEPT ![lane][id] = [outbox[lane][id] EXCEPT !.due = TRUE]]
    BY <1>4 DEF RetryFallsDue
  <2>3. outbox' \in [Lanes -> Seq(Rows)]
    BY <2>1, <2>2, RowWritten
  <2> QED BY <1>4, <2>3 DEF RetryFallsDue, TypeOK
<1> QED BY <1>1, <1>2, <1>3, <1>4 DEF TimePasses

LEMMA SavedTypes ==
  ASSUME TypeOK, NEW form \in Forms, NEW new \in SUBSET Matches, Saved(form, new)
  PROVE  settings' \in Settings /\ current' \in SUBSET Matches
BY OutboxAssumption DEF TypeOK, Saved, Settings

LEMMA SaveTypes ==
  ASSUME TypeOK, (\E form \in Asked : Save(form) \/ TakeMoment(form)) \/ SaveLate
  PROVE  TypeOK'
<1>1. ASSUME NEW form \in Asked, Save(form) PROVE TypeOK'
  <2>1. form \in Forms
    BY OutboxAssumption
  <2>2. settings' \in Settings /\ current' \in SUBSET Matches
    BY <1>1, <2>1, SavedTypes DEF Save
  <2> QED BY <1>1, <2>2 DEF Save, TypeOK
<1>2. ASSUME NEW form \in Asked, TakeMoment(form) PROVE TypeOK'
  <2>1. form \in Forms /\ Created \in SUBSET Matches
    BY OutboxAssumption DEF Created
  <2> QED BY <1>2, <2>1 DEF TakeMoment, TypeOK
<1>3. CASE SaveLate
  <2>1. saving.form \in Forms /\ Created \ saving.before \in SUBSET Matches
    BY <1>3 DEF SaveLate, TypeOK, Created
  <2>2. settings' \in Settings /\ current' \in SUBSET Matches
    BY <1>3, <2>1, SavedTypes DEF SaveLate
  <2> QED BY <1>3, <2>2 DEF SaveLate, TypeOK
<1> QED BY <1>1, <1>2, <1>3

LEMMA SendTypes ==
  ASSUME Inv, NEW w \in Workers,
         Accept(w) \/ Refuse(w) \/ RecordSent(w) \/ RecordFailure(w)
  PROVE  TypeOK'
<1> USE DEF Inv
<1>1. Working(w)
  BY DEF Accept, Refuse, RecordSent, RecordFailure, Working
<1> DEFINE lane == job[w].lane
           id == job[w].id
           row == outbox[lane][id]
           attempts == row.attempts + 1
<1>2. /\ job[w] \in NotifyJobs /\ lane \in Lanes /\ id \in DOMAIN outbox[lane] /\ id \in Nat
      /\ row \in Rows /\ attempts \in 0..MaxAttempts
  BY <1>1, HandFacts
<1>3. <<lane, id, job[w].load>> \in Lanes \X Nat \X SUBSET Matches
  BY <1>2 DEF NotifyJobs
<1>4. heard \in SUBSET (Lanes \X Nat \X SUBSET Matches) /\ Heard(w) \in SUBSET (Lanes \X Nat \X SUBSET Matches)
  BY <1>3 DEF Heard, TypeOK
<1>5. CASE Accept(w)
  <2>1. [job[w] EXCEPT !.pc = "accepted"] \in NotifyJobs
    BY <1>2 DEF NotifyJobs
  <2>2. job' = [job EXCEPT ![w] = [job[w] EXCEPT !.pc = "accepted"]]
    BY <1>5 DEF Accept
  <2>3. job' \in [Workers -> NotifyJobs]
    BY <2>1, <2>2, JobTypes
  <2> QED BY <1>4, <1>5, <2>3 DEF Accept, TypeOK
<1>6. CASE Refuse(w)
  <2>1. [job[w] EXCEPT !.pc = "refused"] \in NotifyJobs
    BY <1>2 DEF NotifyJobs
  <2>2. job' = [job EXCEPT ![w] = [job[w] EXCEPT !.pc = "refused"]]
    BY <1>6 DEF Refuse
  <2>3. job' \in [Workers -> NotifyJobs]
    BY <2>1, <2>2, JobTypes
  <2>4. heard' = heard \/ heard' = Heard(w)
    BY <1>6 DEF Refuse
  <2> QED BY <1>4, <1>6, <2>3, <2>4 DEF Refuse, TypeOK
<1>7. ASSUME Release(w) PROVE job' \in [Workers -> NotifyJobs] /\ lock' \in Workers \cup {None}
  BY <1>7, JobTypes DEF Release
<1>8. CASE RecordSent(w)
  <2>1. outbox' = [outbox EXCEPT ![lane][id] = [row EXCEPT !.status = "sent", !.attempts = attempts]]
    BY <1>8 DEF RecordSent
  <2>2. [row EXCEPT !.status = "sent", !.attempts = attempts] \in Rows
    BY <1>2, RowTypes
  <2>3. outbox' \in [Lanes -> Seq(Rows)]
    BY <1>2, <2>1, <2>2, RowWritten
  <2>4. settings' \in Settings
    BY <1>8, OutboxAssumption DEF RecordSent, TypeOK, Settings
  <2> QED BY <1>7, <1>8, <2>3, <2>4 DEF RecordSent, TypeOK
<1>9. CASE RecordFailure(w)
  <2> DEFINE new == [row EXCEPT !.attempts = attempts, !.due = FALSE, !.status = Outcome(attempts)]
  <2>1. outbox' = [outbox EXCEPT ![lane][id] = new]
    BY <1>9 DEF RecordFailure
  <2>2. new \in Rows
    <3>1. Outcome(attempts) \in Statuses
      BY DEF Outcome, Statuses
    <3> QED BY <1>2, <3>1, RowTypes
  <2> HIDE DEF new
  <2>3. outbox' \in [Lanes -> Seq(Rows)]
    BY <1>2, <2>1, <2>2, RowWritten
  <2>4. settings' \in Settings
    <3>1. CASE lane[1] # "webhook"
      BY <1>9, <3>1 DEF RecordFailure, TypeOK
    <3>2. CASE lane[1] = "webhook"
      <4> DEFINE failures == settings.failures + 1
                 on == ~GivesUp(failures, attempts)
      <4>1. settings \in Settings /\ failures \in 0..MaxFailures
        BY <1>1, <3>2, FailureLeft
      <4>2. settings' = [settings EXCEPT !.failures = failures, !.form.webhook = on]
        BY <1>9, <3>2 DEF RecordFailure
      <4>3. on \in BOOLEAN
        BY DEF GivesUp
      <4> HIDE DEF on, failures
      <4>4. [settings.form EXCEPT !.webhook = on] \in Forms
        BY <4>1, <4>3 DEF Settings, Forms
      <4>5. settings' = [settings EXCEPT !.failures = failures,
                                         !.form = [settings.form EXCEPT !.webhook = on]]
        BY <4>2
      <4> QED BY <4>1, <4>4, <4>5 DEF Settings
    <3> QED BY <3>1, <3>2
  <2> QED BY <1>7, <1>9, <2>3, <2>4 DEF RecordFailure, TypeOK
<1> QED BY <1>5, <1>6, <1>8, <1>9

LEMMA PassTypes ==
  ASSUME TypeOK, NEW w \in Workers,
         \/ StartPass(w) \/ Plan(w) \/ EndPass(w) \/ Crash(w)
         \/ \E lane \in Lanes : \E id \in DOMAIN outbox[lane] :
              SkipDelivery(w, lane, id) \/ TakeDelivery(w, lane, id)
  PROVE  TypeOK'
<1>1. job[w] \in NotifyJobs /\ Created \in SUBSET Matches
  BY JobTypes DEF Created
<1>2. CASE StartPass(w)
  <2>1. [job[w] EXCEPT !.pc = "plan", !.seen = Created] \in NotifyJobs
    BY <1>1 DEF NotifyJobs
  <2>2. job' = [job EXCEPT ![w] = [job[w] EXCEPT !.pc = "plan", !.seen = Created]]
    BY <1>2 DEF StartPass
  <2>3. job' \in [Workers -> NotifyJobs]
    BY <2>1, <2>2, JobTypes
  <2> QED BY <1>2, <2>3 DEF StartPass, TypeOK
<1>3. CASE Plan(w)
  <2>1. [job[w] EXCEPT !.pc = "send", !.seen = {}] \in NotifyJobs
    BY <1>1 DEF NotifyJobs
  <2>2. job' = [job EXCEPT ![w] = [job[w] EXCEPT !.pc = "send", !.seen = {}]]
    BY <1>3 DEF Plan
  <2>3. job' \in [Workers -> NotifyJobs]
    BY <2>1, <2>2, JobTypes
  <2>4. outbox' \in [Lanes -> Seq(Rows)]
    BY <1>3, Planned
  <2>5. settings' \in Settings
    BY <1>3 DEF Plan, TypeOK, Settings
  <2> QED BY <1>3, <2>3, <2>4, <2>5 DEF Plan, TypeOK
<1>4. CASE EndPass(w)
  <2>1. job' \in [Workers -> NotifyJobs]
    BY <1>4, JobTypes DEF EndPass
  <2> QED BY <1>4, <2>1 DEF EndPass, TypeOK
<1>5. CASE Crash(w)
  <2>1. job' \in [Workers -> NotifyJobs]
    BY <1>5, JobTypes DEF Crash
  <2>2. crashes' \in 0..MaxCrashes /\ lock' \in Workers \cup {None}
    BY <1>5, OutboxAssumption DEF Crash, TypeOK
  <2> QED BY <1>5, <2>1, <2>2 DEF Crash, TypeOK
<1>6. ASSUME NEW lane \in Lanes, NEW id \in DOMAIN outbox[lane], SkipDelivery(w, lane, id)
      PROVE  TypeOK'
  <2>1. [outbox[lane][id] EXCEPT !.status = "skipped"] \in Rows
    BY RowFacts, RowTypes
  <2>2. outbox' = [outbox EXCEPT ![lane][id] = [outbox[lane][id] EXCEPT !.status = "skipped"]]
    BY <1>6 DEF SkipDelivery
  <2>3. outbox' \in [Lanes -> Seq(Rows)]
    BY <2>1, <2>2, RowWritten
  <2> QED BY <1>6, <2>3 DEF SkipDelivery, TypeOK
<1>7. ASSUME NEW lane \in Lanes, NEW id \in DOMAIN outbox[lane], TakeDelivery(w, lane, id)
      PROVE  TypeOK'
  <2> DEFINE new == [job[w] EXCEPT !.pc = "sending", !.lane = lane, !.id = id,
                                   !.load = Visible(lane, id)]
  <2>1. new \in NotifyJobs
    <3>1. id \in Nat /\ Visible(lane, id) \in SUBSET Matches
      BY RowFacts DEF Visible, Shown, Created
    <3> QED BY <1>1, <3>1 DEF NotifyJobs
  <2>2. job' = [job EXCEPT ![w] = new]
    BY <1>7 DEF TakeDelivery
  <2> HIDE DEF new
  <2>3. job' \in [Workers -> NotifyJobs]
    BY <2>1, <2>2, JobTypes
  <2> QED BY <1>7, <2>3 DEF TakeDelivery, TypeOK
<1> QED BY <1>2, <1>3, <1>4, <1>5, <1>6, <1>7

---------------------------------------------------------------------------
\* What a step does to the matches, the rows and the settings.

\* Matches are written and hidden, never lost or shown again.
MatchesGrow == Created \subseteq Created' /\ Shown' \cap Created \subseteq Shown

LEMMA Growing == ASSUME TypeOK, [Next]_vars PROVE MatchesGrow
<1>1. CASE inbox' = inbox
  BY <1>1 DEF MatchesGrow, Shown, Created
<1>2. ASSUME NEW m \in Matches, HideMatch(m) PROVE MatchesGrow
  <2>1. inbox \in [Matches -> Entries \cup {None}] /\ inbox[m] \in Entries
    BY <1>2 DEF TypeOK, HideMatch, Shown, Created
  <2>2. inbox' = [inbox EXCEPT ![m] = [inbox[m] EXCEPT !.hidden = TRUE]]
    BY <1>2 DEF HideMatch
  <2>3. inbox'[m] \in Entries
    BY <2>1, <2>2 DEF Entries
  <2>4. inbox'[m].hidden /\ \A x \in Matches \ {m} : inbox'[x] = inbox[x]
    BY <2>1, <2>2 DEF Entries
  <2> QED BY <2>3, <2>4, NoneFacts DEF MatchesGrow, Shown, Created
<1>3. ASSUME NEW m \in Matches, NEW score \in Scores, WriteMatch(m, score) PROVE MatchesGrow
  <2> DEFINE entry == IF inbox[m] = None THEN [score |-> score, hidden |-> FALSE]
                      ELSE [inbox[m] EXCEPT !.score = score]
  <2>1. inbox \in [Matches -> Entries \cup {None}] /\ entry \in Entries
    BY DEF TypeOK, Entries
  <2>2. inbox[m] # None => entry.hidden = inbox[m].hidden
    BY <2>1 DEF Entries
  <2>3. inbox' = [inbox EXCEPT ![m] = entry]
    BY <1>3 DEF WriteMatch
  <2> HIDE DEF entry
  <2>4. inbox'[m] = entry /\ \A x \in Matches \ {m} : inbox'[x] = inbox[x]
    BY <2>1, <2>3
  <2> QED BY <2>1, <2>2, <2>4, NoneFacts DEF MatchesGrow, Shown, Created
<1>4. \/ inbox' = inbox
      \/ \E m \in Matches : HideMatch(m) \/ \E score \in Scores : WriteMatch(m, score)
  BY Zenon DEF Next, Notify, TimePasses, StartPass, Plan, EndPass, SkipDelivery, TakeDelivery, Accept,
     Refuse, RecordSent, RecordFailure, Crash, DigestFallsDue, RetryFallsDue, Save, TakeMoment,
     SaveLate, vars
<1> QED BY <1>1, <1>2, <1>3, <1>4

\* A row keeps its load and its revision, and waits only with an attempt left.
RowsKept ==
  \A lane \in Lanes : \A id \in DOMAIN outbox[lane] :
    /\ id \in DOMAIN outbox'[lane]
    /\ outbox'[lane][id].load = outbox[lane][id].load
    /\ outbox'[lane][id].revision = outbox[lane][id].revision
    /\ outbox'[lane][id].status = "pending" =>
         outbox[lane][id].status = "pending" /\ outbox'[lane][id].attempts < MaxAttempts
NoNewRows == \A lane \in Lanes : DOMAIN outbox'[lane] = DOMAIN outbox[lane]

LEMMA RowRewritten ==
  ASSUME Inv, NEW lane \in Lanes, NEW id \in DOMAIN outbox[lane], NEW new \in Rows,
         new.load = outbox[lane][id].load, new.revision = outbox[lane][id].revision,
         new.status = "pending" =>
           outbox[lane][id].status = "pending" /\ new.attempts < MaxAttempts,
         outbox' = [outbox EXCEPT ![lane][id] = new]
  PROVE  RowsKept /\ NoNewRows
<1>1. TypeOK /\ \A l \in Lanes : \A i \in DOMAIN outbox[l] :
        outbox[l][i].status = "pending" => outbox[l][i].attempts < MaxAttempts
  BY DEF Inv, RowIsSound
<1>2. /\ \A l \in Lanes : DOMAIN outbox'[l] = DOMAIN outbox[l]
      /\ outbox'[lane][id] = new
      /\ \A l \in Lanes : \A i \in DOMAIN outbox[l] :
           l # lane \/ i # id => outbox'[l][i] = outbox[l][i]
  BY <1>1, RowWritten
<1>3. ASSUME NEW l \in Lanes, NEW i \in DOMAIN outbox[l]
      PROVE  /\ outbox'[l][i].load = outbox[l][i].load
             /\ outbox'[l][i].revision = outbox[l][i].revision
             /\ outbox'[l][i].status = "pending" =>
                  outbox[l][i].status = "pending" /\ outbox'[l][i].attempts < MaxAttempts
  <2>1. CASE l = lane /\ i = id
    BY <1>2, <2>1
  <2>2. CASE l # lane \/ i # id
    BY <1>1, <1>2, <2>2
  <2> QED BY <2>1, <2>2
<1> QED BY <1>2, <1>3 DEF RowsKept, NoNewRows

LEMMA Keeping ==
  ASSUME Inv, [Next]_vars
  PROVE  RowsKept /\ (NoNewRows \/ \E w \in Workers : Plan(w))
<1>0. TypeOK
  BY DEF Inv
<1>1. CASE outbox' = outbox
  BY <1>1 DEF RowsKept, NoNewRows, Inv, RowIsSound
<1>2. ASSUME NEW lane \in Lanes, NEW id \in DOMAIN outbox[lane], RetryFallsDue(lane, id)
      PROVE  RowsKept /\ NoNewRows
  <2> DEFINE new == [outbox[lane][id] EXCEPT !.due = TRUE]
  <2>1. outbox[lane][id] \in Rows /\ RowIsSound(outbox[lane][id])
    BY <1>0, RowFacts DEF Inv
  <2>2. new \in Rows
    BY <2>1, RowTypes
  <2>3. /\ new.load = outbox[lane][id].load /\ new.revision = outbox[lane][id].revision
        /\ new.status = "pending" => outbox[lane][id].status = "pending" /\ new.attempts < MaxAttempts
    BY <2>1 DEF Rows, RowIsSound
  <2>4. outbox' = [outbox EXCEPT ![lane][id] = new]
    BY <1>2 DEF RetryFallsDue
  <2> HIDE DEF new
  <2> QED BY <2>2, <2>3, <2>4, RowRewritten
<1>3. ASSUME NEW w \in Workers, NEW lane \in Lanes, NEW id \in DOMAIN outbox[lane],
             SkipDelivery(w, lane, id)
      PROVE  RowsKept /\ NoNewRows
  <2> DEFINE new == [outbox[lane][id] EXCEPT !.status = "skipped"]
  <2>1. outbox[lane][id] \in Rows
    BY <1>0, RowFacts
  <2>2. new \in Rows
    BY <2>1, RowTypes
  <2>3. /\ new.load = outbox[lane][id].load /\ new.revision = outbox[lane][id].revision
        /\ new.status # "pending"
    BY <2>1 DEF Rows
  <2>4. outbox' = [outbox EXCEPT ![lane][id] = new]
    BY <1>3 DEF SkipDelivery
  <2> HIDE DEF new
  <2> QED BY <2>2, <2>3, <2>4, RowRewritten
<1>4. ASSUME NEW w \in Workers, RecordSent(w) \/ RecordFailure(w)
      PROVE  RowsKept /\ NoNewRows
  <2> DEFINE lane == job[w].lane
             id == job[w].id
             row == outbox[lane][id]
             attempts == row.attempts + 1
  <2>1. Working(w)
    BY <1>4 DEF RecordSent, RecordFailure, Working
  <2>2. /\ lane \in Lanes /\ id \in DOMAIN outbox[lane] /\ row \in Rows
        /\ row.status = "pending" /\ attempts \in 0..MaxAttempts
    BY <2>1, HandFacts
  <2>3. CASE RecordSent(w)
    <3> DEFINE new == [row EXCEPT !.status = "sent", !.attempts = attempts]
    <3>1. new \in Rows /\ new.load = row.load /\ new.revision = row.revision /\ new.status # "pending"
      BY <2>2, RowTypes DEF Rows
    <3>2. outbox' = [outbox EXCEPT ![lane][id] = new]
      BY <2>3 DEF RecordSent
    <3> HIDE DEF new
    <3> QED BY <2>2, <3>1, <3>2, RowRewritten
  <2>4. CASE RecordFailure(w)
    <3> DEFINE new == [row EXCEPT !.attempts = attempts, !.due = FALSE, !.status = Outcome(attempts)]
    <3>1. new \in Rows
      <4>1. Outcome(attempts) \in Statuses
        BY DEF Outcome, Statuses
      <4> QED BY <2>2, <4>1, RowTypes
    <3>2. /\ new.load = row.load /\ new.revision = row.revision
          /\ new.attempts = attempts /\ new.status = Outcome(attempts)
      BY <2>2 DEF Rows
    <3>3. new.status = "pending" => new.attempts < MaxAttempts
      BY <3>2, <2>2, OutboxAssumption DEF Outcome
    <3>4. outbox' = [outbox EXCEPT ![lane][id] = new]
      BY <2>4 DEF RecordFailure
    <3> HIDE DEF new
    <3> QED BY <2>2, <3>1, <3>2, <3>3, <3>4, RowRewritten
  <2> QED BY <1>4, <2>3, <2>4
<1>5. ASSUME NEW w \in Workers, Plan(w) PROVE RowsKept
  <2>1. \A lane \in Lanes : \A id \in DOMAIN outbox[lane] :
          id \in DOMAIN outbox'[lane] /\ outbox'[lane][id] = outbox[lane][id]
    BY <1>0, <1>5, Planned
  <2> QED BY <2>1 DEF RowsKept, Inv, RowIsSound
<1>6. \/ outbox' = outbox
      \/ \E lane \in Lanes : \E id \in DOMAIN outbox[lane] : RetryFallsDue(lane, id)
      \/ \E w \in Workers : \/ \E lane \in Lanes : \E id \in DOMAIN outbox[lane] : SkipDelivery(w, lane, id)
                            \/ RecordSent(w) \/ RecordFailure(w) \/ Plan(w)
  BY Zenon DEF Next, Notify, TimePasses, StartPass, EndPass, TakeDelivery, Accept,
     Refuse, Crash, DigestFallsDue, Save, TakeMoment, SaveLate, HideMatch, WriteMatch, vars
<1> QED BY <1>1, <1>2, <1>3, <1>4, <1>5, <1>6

\* The revision stays, and the period gains at most what was just written; or a
\* save, while nobody holds the settings row, has raised the revision.
SamePeriod ==
  /\ settings'.revision = settings.revision
  /\ current \subseteq current' /\ current' \subseteq current \cup (Created' \ Created)
NewPeriod ==
  /\ SaveLate \/ \E form \in Asked : Save(form)
  /\ lock = None /\ settings'.revision = settings.revision + 1 /\ settings'.failures = 0
  /\ current' \subseteq Created' /\ UNCHANGED <<inbox, outbox, lock, job, heard>>

LEMMA Periods == ASSUME TypeOK, [Next]_vars PROVE SamePeriod \/ NewPeriod
<1>0. settings \in Settings
  BY DEF TypeOK
<1>1. CASE settings' = settings /\ current' = current
  BY <1>1 DEF SamePeriod
<1>2. ASSUME NEW m \in Matches, NEW score \in Scores, WriteMatch(m, score) PROVE SamePeriod
  <2>1. CASE inbox[m] = None
    <3>1. inbox' = [inbox EXCEPT ![m] = [score |-> score, hidden |-> FALSE]]
      BY <1>2, <2>1 DEF WriteMatch
    <3>2. [score |-> score, hidden |-> FALSE] # None
      BY NoneFacts DEF Entries
    <3>3. m \in Created' \ Created
      BY <2>1, <3>1, <3>2 DEF TypeOK, Created
    <3> QED BY <1>2, <3>3 DEF WriteMatch, SamePeriod
  <2>2. CASE inbox[m] # None
    BY <1>2, <2>2 DEF WriteMatch, SamePeriod
  <2> QED BY <2>1, <2>2
<1>3. CASE DigestFallsDue \/ \E w \in Workers : Plan(w)
  BY <1>0, <1>3 DEF DigestFallsDue, Plan, Settings, SamePeriod
<1>4. ASSUME NEW w \in Workers, RecordSent(w) \/ RecordFailure(w) PROVE SamePeriod
  <2>1. CASE RecordSent(w)
    BY <1>0, <2>1 DEF RecordSent, Settings, SamePeriod
  <2>2. CASE RecordFailure(w)
    BY <1>0, <2>2 DEF RecordFailure, Settings, SamePeriod
  <2> QED BY <1>4, <2>1, <2>2
<1>5. ASSUME NEW form \in Asked, Save(form) PROVE NewPeriod
  BY <1>5 DEF Save, Saved, NewPeriod
<1>6. CASE SaveLate
  BY <1>6 DEF SaveLate, Saved, NewPeriod, Created
<1>7. \/ settings' = settings /\ current' = current
      \/ \E m \in Matches : \E score \in Scores : WriteMatch(m, score)
      \/ DigestFallsDue \/ SaveLate \/ \E form \in Asked : Save(form)
      \/ \E w \in Workers : Plan(w) \/ RecordSent(w) \/ RecordFailure(w)
  BY Zenon DEF Next, Notify, TimePasses, StartPass, EndPass, SkipDelivery, TakeDelivery, Accept,
     Refuse, Crash, RetryFallsDue, TakeMoment, HideMatch, vars
<1> QED BY <1>1, <1>2, <1>3, <1>4, <1>5, <1>6, <1>7

---------------------------------------------------------------------------
\* Every step keeps the invariant, part by part.

LEMMA WrittenStep == ASSUME Inv, [Next]_vars PROVE MatchesAreWritten'
<1>0. TypeOK /\ MatchesAreWritten
  BY DEF Inv
<1>1. Created \subseteq Created'
  BY <1>0, Growing DEF MatchesGrow
<1>2. current' \subseteq Created'
  BY <1>0, <1>1, Periods DEF SamePeriod, NewPeriod, MatchesAreWritten
<1>3. ASSUME NEW w \in Workers PROVE job'[w].seen \subseteq Created
  <2>1. job[w].seen \subseteq Created /\ job \in [Workers -> NotifyJobs]
    BY <1>0 DEF MatchesAreWritten, TypeOK
  <2>2. CASE job' = job
    BY <2>1, <2>2
  <2>3. ASSUME NEW v \in Workers, StartPass(v) \/ Plan(v) PROVE job'[w].seen \subseteq Created
    BY <2>1, <2>3 DEF StartPass, Plan, NotifyJobs
  <2>4. ASSUME NEW v \in Workers, Accept(v) \/ Refuse(v) PROVE job'[w].seen \subseteq Created
    BY <2>1, <2>4 DEF Accept, Refuse, NotifyJobs
  <2>5. ASSUME NEW v \in Workers, RecordSent(v) \/ RecordFailure(v)
        PROVE  job'[w].seen \subseteq Created
    <3>1. Release(v)
      BY <2>5 DEF RecordSent, RecordFailure
    <3> QED BY <2>1, <3>1 DEF Release, IdleJob
  <2>6. ASSUME NEW v \in Workers, EndPass(v) \/ Crash(v) PROVE job'[w].seen \subseteq Created
    BY <2>1, <2>6 DEF EndPass, Crash, IdleJob
  <2>7. ASSUME NEW v \in Workers, NEW lane \in Lanes, NEW id \in DOMAIN outbox[lane],
               TakeDelivery(v, lane, id)
        PROVE  job'[w].seen \subseteq Created
    BY <2>1, <2>7 DEF TakeDelivery, NotifyJobs
  <2>8. \/ job' = job
        \/ \E v \in Workers : \/ StartPass(v) \/ Plan(v) \/ Accept(v) \/ Refuse(v) \/ RecordSent(v)
                             \/ RecordFailure(v) \/ EndPass(v) \/ Crash(v)
                             \/ \E lane \in Lanes : \E id \in DOMAIN outbox[lane] : TakeDelivery(v, lane, id)
    BY Zenon DEF Next, Notify, TimePasses, SkipDelivery, RetryFallsDue, DigestFallsDue, TakeMoment,
       Save, SaveLate, HideMatch, WriteMatch, vars
  <2> QED BY <2>2, <2>3, <2>4, <2>5, <2>6, <2>7, <2>8
<1> QED BY <1>1, <1>2, <1>3 DEF MatchesAreWritten

LEMMA RowsStep ==
  ASSUME Inv, [Next]_vars
  PROVE  \A lane \in Lanes : Apart(lane)' /\ \A id \in DOMAIN outbox'[lane] : RowIsSound(outbox[lane][id])'
<1>0. /\ TypeOK /\ MatchesAreWritten /\ settings.revision \in Int
      /\ \A lane \in Lanes : Apart(lane) /\ \A id \in DOMAIN outbox[lane] : RowIsSound(outbox[lane][id])
  BY OutboxAssumption DEF Inv, TypeOK, Settings
<1>1. RowsKept /\ Created \subseteq Created' /\ (SamePeriod \/ NewPeriod)
  BY <1>0, Keeping, Growing, Periods DEF MatchesGrow
<1> TAKE lane \in Lanes
<1>2. ASSUME NEW id \in DOMAIN outbox[lane]
      PROVE  id \in DOMAIN outbox'[lane] /\ RowIsSound(outbox[lane][id])'
  <2>1. /\ id \in DOMAIN outbox'[lane] /\ RowIsSound(outbox[lane][id])
        /\ outbox'[lane][id].load = outbox[lane][id].load
        /\ outbox'[lane][id].revision = outbox[lane][id].revision
        /\ outbox'[lane][id].status = "pending" => outbox'[lane][id].attempts < MaxAttempts
        /\ outbox[lane][id].revision \in Int
    BY <1>0, <1>1, RowFacts, OutboxAssumption DEF RowsKept, Rows
  <2>2. CASE SamePeriod
    BY <1>1, <2>1, <2>2 DEF SamePeriod, RowIsSound
  <2>3. CASE NewPeriod
    BY <1>0, <1>1, <2>1, <2>3 DEF NewPeriod, RowIsSound
  <2> QED BY <1>1, <2>1, <2>2, <2>3
<1>3. CASE NoNewRows
  <2>1. DOMAIN outbox'[lane] = DOMAIN outbox[lane]
    BY <1>3 DEF NoNewRows
  <2>2. Apart(lane)'
    BY <1>0, <1>1, <2>1 DEF Apart, RowsKept
  <2> QED BY <1>2, <2>1, <2>2
<1>4. ASSUME NEW w \in Workers, Plan(w)
      PROVE  Apart(lane)' /\ \A id \in DOMAIN outbox'[lane] : RowIsSound(outbox[lane][id])'
  <2> DEFINE wanted == Wanted(lane, job[w].seen)
  <2>1. /\ \A id \in DOMAIN outbox[lane] :
             id \in DOMAIN outbox'[lane] /\ outbox'[lane][id] = outbox[lane][id]
        /\ \A id \in DOMAIN outbox'[lane] \ DOMAIN outbox[lane] :
             /\ outbox'[lane][id].revision = settings.revision
             /\ outbox'[lane][id].status = "pending" /\ outbox'[lane][id].attempts = 0
             /\ outbox'[lane][id].load \subseteq wanted
             /\ \A k \in DOMAIN outbox'[lane] \ DOMAIN outbox[lane] :
                  k # id => outbox'[lane][k].load \cap outbox'[lane][id].load = {}
    BY <1>0, <1>4, Planned
  <2>2. /\ wanted \subseteq current
        /\ \A id \in DOMAIN outbox[lane] : outbox[lane][id].load \cap wanted = {}
    BY DEF Wanted, Carried
  <2> HIDE DEF wanted
  <2>3. settings'.revision = settings.revision /\ current' = current /\ current \subseteq Created'
    BY <1>0, <1>1, <1>4 DEF Plan, TypeOK, Settings, MatchesAreWritten
  <2>4. ASSUME NEW id \in DOMAIN outbox'[lane] \ DOMAIN outbox[lane]
        PROVE  RowIsSound(outbox[lane][id])'
    BY <1>0, <2>1, <2>2, <2>3, OutboxAssumption DEF RowIsSound
  <2>5. ASSUME NEW i \in DOMAIN outbox'[lane], NEW k \in DOMAIN outbox'[lane], i # k
        PROVE  outbox'[lane][i].load \cap outbox'[lane][k].load = {}
    <3>1. CASE i \in DOMAIN outbox[lane] /\ k \in DOMAIN outbox[lane]
      BY <1>0, <2>1, <2>5, <3>1 DEF Apart
    <3>2. CASE i \in DOMAIN outbox[lane] /\ k \notin DOMAIN outbox[lane]
      BY <2>1, <2>2, <3>2
    <3>3. CASE i \notin DOMAIN outbox[lane] /\ k \in DOMAIN outbox[lane]
      BY <2>1, <2>2, <3>3
    <3>4. CASE i \notin DOMAIN outbox[lane] /\ k \notin DOMAIN outbox[lane]
      BY <2>1, <2>5, <3>4
    <3> QED BY <3>1, <3>2, <3>3, <3>4
  <2> QED BY <1>2, <2>4, <2>5 DEF Apart
<1> QED BY <1>3, <1>4, Keeping

\* A failure counts only while the webhook is on, and the last one turns it off.
LEMMA WebhookStep == ASSUME Inv, [Next]_vars PROVE FailingWebhookIsOff'
<1>0. /\ TypeOK /\ FailingWebhookIsOff /\ settings \in Settings /\ MaxFailures \in Nat \ {0}
      /\ MaxAttempts \in Nat \ {0}
      /\ \A lane \in Lanes : \A id \in DOMAIN outbox[lane] :
           RowIsSound(outbox[lane][id]) /\ outbox[lane][id].revision \in Int
  <2>1. \A lane \in Lanes : \A id \in DOMAIN outbox[lane] :
          RowIsSound(outbox[lane][id]) /\ outbox[lane][id] \in Rows
    BY RowFacts DEF Inv
  <2>2. \A row \in Rows : row.revision \in Int
    BY DEF Rows
  <2>3. TypeOK /\ FailingWebhookIsOff /\ settings \in Settings
    BY DEF Inv, TypeOK
  <2> QED BY <2>1, <2>2, <2>3, OutboxAssumption
<1> DEFINE Alive(row) == row.revision = settings'.revision => row.status # "failed"
<1>1. ASSUME settings'.form.webhook =>
               /\ settings'.failures < MaxFailures
               /\ \A kind \in Kinds : \A id \in DOMAIN outbox'[<<"webhook", kind>>] :
                    Alive(outbox'[<<"webhook", kind>>][id])
      PROVE  FailingWebhookIsOff'
  BY <1>1 DEF FailingWebhookIsOff
<1>2. \A kind \in Kinds : <<"webhook", kind>> \in Lanes
  BY DEF Lanes, Channels
\* Steps that write one row and no setting, or only that a digest is due.
<1>3. ASSUME settings'.form = settings.form, settings'.failures = settings.failures,
             settings'.revision = settings.revision,
             \A kind \in Kinds : \A id \in DOMAIN outbox'[<<"webhook", kind>>] :
               \/ outbox'[<<"webhook", kind>>][id].status # "failed"
               \/ /\ id \in DOMAIN outbox[<<"webhook", kind>>]
                  /\ outbox'[<<"webhook", kind>>][id].status = outbox[<<"webhook", kind>>][id].status
                  /\ outbox'[<<"webhook", kind>>][id].revision = outbox[<<"webhook", kind>>][id].revision
      PROVE  FailingWebhookIsOff'
  BY <1>0, <1>3 DEF FailingWebhookIsOff
<1>4. CASE outbox' = outbox /\ settings' = settings
  BY <1>3, <1>4
<1>5. CASE DigestFallsDue
  BY <1>0, <1>3, <1>5 DEF DigestFallsDue, Settings
<1>6. ASSUME NEW lane \in Lanes, NEW id \in DOMAIN outbox[lane], RetryFallsDue(lane, id)
      PROVE  FailingWebhookIsOff'
  <2> DEFINE new == [outbox[lane][id] EXCEPT !.due = TRUE]
  <2>1. outbox[lane][id] \in Rows
    BY <1>0, RowFacts
  <2>2. new \in Rows /\ new.status = outbox[lane][id].status
        /\ new.revision = outbox[lane][id].revision
    BY <2>1, RowTypes DEF Rows
  <2>3. outbox' = [outbox EXCEPT ![lane][id] = new] /\ settings' = settings
    BY <1>6 DEF RetryFallsDue
  <2> HIDE DEF new
  <2>4. /\ \A l \in Lanes : DOMAIN outbox'[l] = DOMAIN outbox[l]
        /\ outbox'[lane][id] = new
        /\ \A l \in Lanes : \A i \in DOMAIN outbox[l] :
             l # lane \/ i # id => outbox'[l][i] = outbox[l][i]
    BY <1>0, <2>2, <2>3, RowWritten
  <2> QED BY <1>2, <1>3, <2>2, <2>3, <2>4
<1>7. ASSUME NEW w \in Workers, NEW lane \in Lanes, NEW id \in DOMAIN outbox[lane],
             SkipDelivery(w, lane, id)
      PROVE  FailingWebhookIsOff'
  <2> DEFINE new == [outbox[lane][id] EXCEPT !.status = "skipped"]
  <2>1. outbox[lane][id] \in Rows
    BY <1>0, RowFacts
  <2>2. new \in Rows /\ new.status # "failed"
    BY <2>1, RowTypes DEF Rows
  <2>3. outbox' = [outbox EXCEPT ![lane][id] = new] /\ settings' = settings
    BY <1>7 DEF SkipDelivery
  <2> HIDE DEF new
  <2>4. /\ \A l \in Lanes : DOMAIN outbox'[l] = DOMAIN outbox[l]
        /\ outbox'[lane][id] = new
        /\ \A l \in Lanes : \A i \in DOMAIN outbox[l] :
             l # lane \/ i # id => outbox'[l][i] = outbox[l][i]
    BY <1>0, <2>2, <2>3, RowWritten
  <2> QED BY <1>2, <1>3, <2>2, <2>3, <2>4
<1>8. ASSUME NEW w \in Workers, Plan(w) PROVE FailingWebhookIsOff'
  <2>1. /\ settings'.form = settings.form /\ settings'.failures = settings.failures
        /\ settings'.revision = settings.revision
    BY <1>0, <1>8 DEF Plan, Settings
  <2>2. /\ \A lane \in Lanes : \A id \in DOMAIN outbox[lane] : outbox'[lane][id] = outbox[lane][id]
        /\ \A lane \in Lanes : \A id \in DOMAIN outbox'[lane] \ DOMAIN outbox[lane] :
             outbox'[lane][id].status # "failed"
    BY <1>0, <1>8, Planned
  <2> QED BY <1>2, <1>3, <2>1, <2>2
<1>9. CASE NewPeriod
  <2>1. settings'.failures < MaxFailures
    BY <1>0, <1>9 DEF NewPeriod
  <2>2. \A kind \in Kinds : \A id \in DOMAIN outbox'[<<"webhook", kind>>] :
          Alive(outbox'[<<"webhook", kind>>][id])
    BY <1>0, <1>2, <1>9, OutboxAssumption DEF NewPeriod, RowIsSound, Settings
  <2> QED BY <1>1, <2>1, <2>2
<1>10. ASSUME NEW w \in Workers, RecordSent(w) \/ RecordFailure(w) PROVE FailingWebhookIsOff'
  <2> DEFINE lane == job[w].lane
             id == job[w].id
             row == outbox[lane][id]
             attempts == row.attempts + 1
             failures == settings.failures + 1
             sent == [row EXCEPT !.status = "sent", !.attempts = attempts]
             tried == [row EXCEPT !.attempts = attempts, !.due = FALSE, !.status = Outcome(attempts)]
  <2>1. Working(w)
    BY <1>10 DEF RecordSent, RecordFailure, Working
  <2>2. /\ lane \in Lanes /\ id \in DOMAIN outbox[lane] /\ row \in Rows
        /\ attempts \in 0..MaxAttempts
    BY <2>1, HandFacts
  <2>3. ASSUME NEW new \in Rows, outbox' = [outbox EXCEPT ![lane][id] = new]
        PROVE  /\ \A l \in Lanes : DOMAIN outbox'[l] = DOMAIN outbox[l]
               /\ outbox'[lane][id] = new
               /\ \A l \in Lanes : \A i \in DOMAIN outbox[l] :
                    l # lane \/ i # id => outbox'[l][i] = outbox[l][i]
    BY <1>0, <2>2, <2>3, RowWritten
  <2>4. CASE RecordSent(w)
    <3>1. sent \in Rows /\ sent.status # "failed"
      BY <2>2, RowTypes DEF Rows
    <3>2. outbox' = [outbox EXCEPT ![lane][id] = sent]
      BY <2>4 DEF RecordSent
    <3>3. CASE lane[1] # "webhook"
      <4>1. settings' = settings
        BY <2>4, <3>3 DEF RecordSent
      <4> HIDE DEF sent
      <4> QED BY <1>2, <1>3, <2>3, <3>1, <3>2, <4>1
    <3>4. CASE lane[1] = "webhook"
      <4>1. settings' = [settings EXCEPT !.failures = 0]
        BY <2>4, <3>4 DEF RecordSent
      <4>2. settings'.form = settings.form /\ settings'.revision = settings.revision
            /\ settings'.failures < MaxFailures
        BY <1>0, <4>1 DEF Settings
      <4> HIDE DEF sent
      <4>3. settings.form.webhook => \A kind \in Kinds : \A i \in DOMAIN outbox'[<<"webhook", kind>>] :
              Alive(outbox'[<<"webhook", kind>>][i])
        BY <1>0, <1>2, <2>3, <3>1, <3>2, <4>2 DEF FailingWebhookIsOff
      <4> QED BY <1>1, <4>2, <4>3
    <3> QED BY <3>3, <3>4
  <2>5. CASE RecordFailure(w)
    <3>1. tried \in Rows /\ tried.status = Outcome(attempts)
      <4>1. Outcome(attempts) \in Statuses
        BY DEF Outcome, Statuses
      <4> QED BY <2>2, <4>1, RowTypes DEF Rows
    <3>2. outbox' = [outbox EXCEPT ![lane][id] = tried]
      BY <2>5 DEF RecordFailure
    <3>3. CASE lane[1] # "webhook"
      <4>1. settings' = settings
        BY <2>5, <3>3 DEF RecordFailure
      <4>2. \A kind \in Kinds : <<"webhook", kind>> # lane
        BY <3>3
      <4> HIDE DEF tried, lane, id
      <4> QED BY <1>2, <1>3, <2>3, <3>1, <3>2, <4>1, <4>2
    <3>4. CASE lane[1] = "webhook"
      <4> DEFINE on == ~GivesUp(failures, attempts)
      <4>1. settings' = [settings EXCEPT !.failures = failures, !.form.webhook = on]
        BY <2>5, <3>4 DEF RecordFailure
      <4>2. settings.form.webhook /\ settings.form \in Forms
        BY <1>0, <2>1, <3>4, FailureLeft DEF Settings
      <4>3. /\ settings'.revision = settings.revision /\ settings'.failures = failures
            /\ settings'.form.webhook = on
        BY <1>0, <4>1, <4>2 DEF Settings, Forms
      <4>4. on => failures < MaxFailures /\ tried.status # "failed"
        <5>1. failures \in Int /\ attempts \in Int
          BY <1>0, <2>2 DEF Settings
        <5> QED BY <1>0, <3>1, <5>1 DEF GivesUp, Outcome
      <4> HIDE DEF tried, lane, id, on
      <4>5. on => \A kind \in Kinds : \A i \in DOMAIN outbox'[<<"webhook", kind>>] :
              Alive(outbox'[<<"webhook", kind>>][i])
        BY <1>0, <1>2, <2>3, <3>1, <3>2, <4>2, <4>3, <4>4 DEF FailingWebhookIsOff
      <4> QED BY <1>1, <4>3, <4>4, <4>5
    <3> QED BY <3>3, <3>4
  <2> QED BY <1>10, <2>4, <2>5
<1>11. ASSUME NEW form \in Asked, Save(form) PROVE NewPeriod
  BY <1>11 DEF Save, Saved, NewPeriod
<1>12. CASE SaveLate
  <2>1. NewPeriod
    BY <1>12 DEF SaveLate, Saved, NewPeriod, Created
  <2> QED BY <1>9, <2>1
<1>13. \/ outbox' = outbox /\ settings' = settings
       \/ DigestFallsDue \/ SaveLate \/ \E form \in Asked : Save(form)
       \/ \E lane \in Lanes : \E id \in DOMAIN outbox[lane] : RetryFallsDue(lane, id)
       \/ \E w \in Workers : \/ \E lane \in Lanes : \E id \in DOMAIN outbox[lane] : SkipDelivery(w, lane, id)
                             \/ RecordSent(w) \/ RecordFailure(w) \/ Plan(w)
  BY Zenon DEF Next, Notify, TimePasses, StartPass, EndPass, TakeDelivery, Accept,
     Refuse, Crash, TakeMoment, HideMatch, WriteMatch, vars
<1> QED BY <1>4, <1>5, <1>6, <1>7, <1>8, <1>9, <1>10, <1>11, <1>12, <1>13

LEMMA HolderStep == ASSUME Inv, [Next]_vars PROVE OneHolder'
<1>0. /\ OneHolder /\ job \in [Workers -> NotifyJobs] /\ lock \in Workers \cup {None}
      /\ \A w \in Workers : w # None
  BY NoneFacts DEF Inv, TypeOK
<1>1. CASE job' = job /\ lock' = lock
  BY <1>0, <1>1 DEF OneHolder, Working
<1>2. ASSUME NEW v \in Workers, StartPass(v) PROVE OneHolder'
  BY <1>0, <1>2 DEF StartPass, OneHolder, Working, NotifyJobs
<1>3. ASSUME NEW v \in Workers, Plan(v) PROVE OneHolder'
  BY <1>0, <1>3 DEF Plan, OneHolder, Working, NotifyJobs
<1>4. ASSUME NEW v \in Workers, EndPass(v) PROVE OneHolder'
  BY <1>0, <1>4 DEF EndPass, OneHolder, Working, IdleJob
<1>5. ASSUME NEW v \in Workers, Crash(v) PROVE OneHolder'
  BY <1>0, <1>5 DEF Crash, OneHolder, Working, IdleJob
<1>6. ASSUME NEW v \in Workers, NEW lane \in Lanes, NEW id \in DOMAIN outbox[lane],
             TakeDelivery(v, lane, id)
      PROVE  OneHolder'
  BY <1>0, <1>6 DEF TakeDelivery, OneHolder, Working, NotifyJobs
<1>7. ASSUME NEW v \in Workers, Accept(v) \/ Refuse(v) PROVE OneHolder'
  BY <1>0, <1>7 DEF Accept, Refuse, OneHolder, Working, NotifyJobs
<1>8. ASSUME NEW v \in Workers, RecordSent(v) \/ RecordFailure(v) PROVE OneHolder'
  <2>1. Release(v) /\ Working(v)
    BY <1>8 DEF RecordSent, RecordFailure, Working
  <2> QED BY <1>0, <2>1 DEF Release, OneHolder, Working, IdleJob
<1>9. \/ job' = job /\ lock' = lock
      \/ \E v \in Workers : \/ StartPass(v) \/ Plan(v) \/ Accept(v) \/ Refuse(v) \/ RecordSent(v)
                            \/ RecordFailure(v) \/ EndPass(v) \/ Crash(v)
                            \/ \E lane \in Lanes : \E id \in DOMAIN outbox[lane] : TakeDelivery(v, lane, id)
  BY Zenon DEF Next, Notify, TimePasses, SkipDelivery, RetryFallsDue, DigestFallsDue, TakeMoment,
     Save, Saved, SaveLate, HideMatch, WriteMatch, vars
<1> QED BY <1>1, <1>2, <1>3, <1>4, <1>5, <1>6, <1>7, <1>8, <1>9

\* The delivery in hand stays what the job knows of it.
LEMMA StillInHand ==
  ASSUME Inv, NEW w \in Workers, Working(w), MatchesGrow, RowsKept,
         job'[w].lane = job[w].lane, job'[w].id = job[w].id, job'[w].load = job[w].load,
         outbox'[job[w].lane][job[w].id].status = outbox[job[w].lane][job[w].id].status,
         settings'.revision = settings.revision, settings'.form = settings.form,
         heard' \subseteq heard \cup {<<job[w].lane, job[w].id, job[w].load>>}
  PROVE  InHand(w)'
<1> DEFINE lane == job[w].lane
           id == job[w].id
<1>1. InHand(w) /\ lane \in Lanes /\ id \in DOMAIN outbox[lane]
  BY DEF Inv, InHand
<1>2. outbox[lane][id].load \subseteq Created
  BY <1>1 DEF Inv, RowIsSound
<1>3. /\ id \in DOMAIN outbox'[lane] /\ outbox'[lane][id].load = outbox[lane][id].load
      /\ outbox'[lane][id].revision = outbox[lane][id].revision
  BY <1>1 DEF RowsKept
<1>4. outbox'[lane][id].load \cap Shown' \subseteq outbox[lane][id].load \cap Shown
  BY <1>2, <1>3 DEF MatchesGrow
<1>5. \A e \in heard' : e[1] = lane /\ e[2] = id => job[w].load \subseteq e[3]
  BY <1>1 DEF InHand
<1>6. Pending(job[w].lane, job[w].id)' /\ ~Cancelled(job[w].lane, job[w].id)'
  BY <1>1, <1>3 DEF InHand, Pending, Cancelled, Enabled
<1>7. Visible(job[w].lane, job[w].id)' \subseteq job[w].load
  BY <1>1, <1>4 DEF InHand, Visible
<1>8. job[w].load \subseteq outbox'[lane][id].load
  BY <1>1, <1>3 DEF InHand
<1> QED BY <1>1, <1>3, <1>5, <1>6, <1>7, <1>8 DEF InHand

LEMMA TakenInHand ==
  ASSUME Inv, NEW w \in Workers, NEW lane \in Lanes, NEW id \in DOMAIN outbox[lane],
         TakeDelivery(w, lane, id)
  PROVE  InHand(w)'
<1>1. job[w] \in NotifyJobs /\ job \in [Workers -> NotifyJobs]
  BY DEF Inv, TypeOK
<1>2. job' = [job EXCEPT ![w] = [job[w] EXCEPT !.pc = "sending", !.lane = lane, !.id = id,
                                               !.load = Visible(lane, id)]]
  BY DEF TakeDelivery
<1>3. job'[w].lane = lane /\ job'[w].id = id /\ job'[w].load = Visible(lane, id)
  BY <1>1, <1>2 DEF NotifyJobs
<1>4. UNCHANGED <<inbox, outbox, settings, heard>> /\ Pending(lane, id) /\ ~Cancelled(lane, id)
  BY DEF TakeDelivery, Ready
<1>5. Visible(lane, id) \subseteq outbox[lane][id].load
  BY DEF Visible
<1>6. \A e \in heard : e[1] = lane /\ e[2] = id => Visible(lane, id) \subseteq e[3]
  BY DEF Inv, ToldWhole
<1>7. Pending(job[w].lane, job[w].id)' /\ ~Cancelled(job[w].lane, job[w].id)'
  BY <1>3, <1>4 DEF Pending, Cancelled, Enabled
<1>8. Visible(job[w].lane, job[w].id)' = Visible(lane, id)
  BY <1>3, <1>4 DEF Visible, Shown, Created
<1> QED BY <1>3, <1>4, <1>5, <1>6, <1>7, <1>8 DEF InHand

LEMMA HandStep ==
  ASSUME Inv, [Next]_vars, NEW w \in Workers, Working(w)'
  PROVE  InHand(w)'
<1>0. /\ TypeOK /\ OneHolder /\ job \in [Workers -> NotifyJobs] /\ settings \in Settings
      /\ \A v \in Workers : v # None
  BY NoneFacts DEF Inv, TypeOK
<1>1. MatchesGrow /\ RowsKept
  BY <1>0, Growing, Keeping
<1>2. job'[w].pc \in {"sending", "accepted", "refused"}
  BY DEF Working
<1>3. job'[w] = job[w] => Working(w) /\ lock = w
  BY <1>0, <1>2 DEF Working, OneHolder
\* The row is free: nobody works.
<1>4. ASSUME NEW v \in Workers, Plan(v) \/ EndPass(v) PROVE FALSE
  <2>1. job'[w].pc \notin {"send", "idle"} /\ lock = None
    BY <1>2, <1>4 DEF Plan, EndPass
  <2>2. w = v => job'[w].pc \in {"send", "idle"}
    BY <1>0, <1>4 DEF Plan, EndPass, IdleJob, NotifyJobs
  <2>3. w # v => job'[w] = job[w]
    BY <1>0, <1>4 DEF Plan, EndPass
  <2> QED BY <1>0, <1>3, <2>1, <2>2, <2>3
<1>5. ASSUME lock = None, job' = job PROVE FALSE
  BY <1>0, <1>3, <1>5
\* The job that held the row has let it go.
<1>6. ASSUME NEW v \in Workers, RecordSent(v) \/ RecordFailure(v) PROVE FALSE
  <2>1. Working(v) /\ Release(v)
    BY <1>6 DEF RecordSent, RecordFailure, Working
  <2>2. w = v => job'[w].pc = "send"
    BY <1>0, <2>1 DEF Release, IdleJob
  <2>3. w # v => job'[w] = job[w]
    BY <1>0, <2>1 DEF Release
  <2>4. lock = v
    BY <1>0, <2>1 DEF OneHolder
  <2> QED BY <1>2, <1>3, <2>2, <2>3, <2>4
<1>7. ASSUME job'[w] = job[w], UNCHANGED <<outbox, heard>>,
             settings'.revision = settings.revision, settings'.form = settings.form
      PROVE  InHand(w)'
  BY <1>1, <1>3, <1>7, StillInHand
<1>8. ASSUME NEW v \in Workers, StartPass(v) \/ Crash(v) PROVE InHand(w)'
  <2>1. w # v
    BY <1>0, <1>2, <1>8 DEF StartPass, Crash, IdleJob, NotifyJobs
  <2>2. job'[w] = job[w] /\ UNCHANGED <<outbox, heard, settings>>
    BY <1>0, <1>8, <2>1 DEF StartPass, Crash
  <2> QED BY <1>7, <2>2
<1>9. ASSUME NEW v \in Workers, NEW lane \in Lanes, NEW id \in DOMAIN outbox[lane],
             TakeDelivery(v, lane, id)
      PROVE  InHand(w)'
  <2>1. w # v => job'[w] = job[w] /\ lock = None
    BY <1>0, <1>9 DEF TakeDelivery
  <2>2. w = v
    BY <1>0, <1>3, <2>1
  <2> QED BY <1>9, <2>2, TakenInHand
<1>10. ASSUME NEW v \in Workers, Accept(v) \/ Refuse(v) PROVE InHand(w)'
  <2>1. Working(v) /\ lock = v
    BY <1>0, <1>10 DEF Accept, Refuse, Working, OneHolder
  <2>2. w # v => job'[w] = job[w]
    BY <1>0, <1>10 DEF Accept, Refuse
  <2>3. w = v
    BY <1>3, <2>1, <2>2
  <2>4. job'[v].lane = job[v].lane /\ job'[v].id = job[v].id /\ job'[v].load = job[v].load
    BY <1>0, <1>10 DEF Accept, Refuse, NotifyJobs
  <2>5. /\ heard' \subseteq heard \cup {<<job[v].lane, job[v].id, job[v].load>>}
        /\ UNCHANGED <<outbox, settings>>
    BY <1>10 DEF Accept, Refuse, Heard
  <2> QED BY <1>1, <2>1, <2>3, <2>4, <2>5, StillInHand
<1>11. ASSUME NEW lane \in Lanes, NEW id \in DOMAIN outbox[lane], RetryFallsDue(lane, id)
       PROVE  InHand(w)'
  <2> DEFINE new == [outbox[lane][id] EXCEPT !.due = TRUE]
  <2>1. outbox[lane][id] \in Rows
    BY <1>0, RowFacts
  <2>2. new \in Rows /\ new.status = outbox[lane][id].status
    BY <2>1, RowTypes DEF Rows
  <2>3. outbox' = [outbox EXCEPT ![lane][id] = new] /\ UNCHANGED <<settings, job, heard>>
    BY <1>11 DEF RetryFallsDue
  <2> HIDE DEF new
  <2>4. /\ outbox'[lane][id] = new
        /\ \A l \in Lanes : \A i \in DOMAIN outbox[l] :
             l # lane \/ i # id => outbox'[l][i] = outbox[l][i]
    BY <1>0, <2>2, <2>3, RowWritten
  <2>5. Working(w) /\ job[w].lane \in Lanes /\ job[w].id \in DOMAIN outbox[job[w].lane]
    BY <1>3, <2>3, HandFacts
  <2>6. outbox'[job[w].lane][job[w].id].status = outbox[job[w].lane][job[w].id].status
    BY <2>2, <2>4, <2>5
  <2> QED BY <1>1, <2>3, <2>5, <2>6, StillInHand
<1>12. CASE DigestFallsDue
  <2>1. settings'.revision = settings.revision /\ settings'.form = settings.form
    BY <1>0, <1>12 DEF DigestFallsDue, Settings
  <2> QED BY <1>7, <1>12, <2>1 DEF DigestFallsDue
<1>13. CASE UNCHANGED <<outbox, settings, job, heard>>
  BY <1>7, <1>13
<1>14. ASSUME NEW form \in Asked, Save(form) PROVE FALSE
  BY <1>5, <1>14 DEF Save, Saved
<1>15. CASE SaveLate
  BY <1>5, <1>15 DEF SaveLate, Saved
<1>16. ASSUME NEW v \in Workers, NEW lane \in Lanes, NEW id \in DOMAIN outbox[lane],
              SkipDelivery(v, lane, id)
       PROVE  FALSE
  BY <1>5, <1>16 DEF SkipDelivery
<1>17. \/ UNCHANGED <<outbox, settings, job, heard>>
       \/ DigestFallsDue \/ SaveLate \/ \E form \in Asked : Save(form)
       \/ \E lane \in Lanes : \E id \in DOMAIN outbox[lane] : RetryFallsDue(lane, id)
       \/ \E v \in Workers :
            \/ StartPass(v) \/ Plan(v) \/ EndPass(v) \/ Crash(v)
            \/ Accept(v) \/ Refuse(v) \/ RecordSent(v) \/ RecordFailure(v)
            \/ \E lane \in Lanes : \E id \in DOMAIN outbox[lane] :
                 SkipDelivery(v, lane, id) \/ TakeDelivery(v, lane, id)
  BY Zenon DEF Next, Notify, TimePasses, TakeMoment, HideMatch, WriteMatch, vars
<1> QED BY <1>4, <1>6, <1>8, <1>9, <1>10, <1>11, <1>12, <1>13, <1>14, <1>15, <1>16, <1>17

\* What a step tells is the delivery a job has in hand.
LEMMA Telling ==
  ASSUME Inv, [Next]_vars
  PROVE  \/ heard' = heard
         \/ \E w \in Workers : /\ Working(w)
                               /\ heard' = heard \cup {<<job[w].lane, job[w].id, job[w].load>>}
<1>1. ASSUME NEW w \in Workers, Accept(w) \/ Refuse(w)
      PROVE  /\ Working(w)
             /\ heard' = heard \/ heard' = heard \cup {<<job[w].lane, job[w].id, job[w].load>>}
  <2>1. Working(w)
    BY <1>1 DEF Accept, Refuse, Working
  <2>2. heard' = heard \/ heard' = Heard(w)
    BY <1>1 DEF Accept, Refuse
  <2> QED BY <2>1, <2>2 DEF Heard
<1>2. heard' = heard \/ \E w \in Workers : Accept(w) \/ Refuse(w)
  BY Zenon DEF Next, Notify, TimePasses, StartPass, Plan, EndPass, SkipDelivery, TakeDelivery,
     RecordSent, RecordFailure, Crash, DigestFallsDue, RetryFallsDue, Save, TakeMoment,
     SaveLate, HideMatch, WriteMatch, vars
<1> QED BY <1>1, <1>2

LEMMA ToldStep == ASSUME Inv, [Next]_vars, NEW e \in heard' PROVE ToldWhole(e)'
<1>0. TypeOK /\ MatchesGrow /\ RowsKept
  BY Growing, Keeping DEF Inv
<1>1. /\ e[1] \in Lanes /\ e[2] \in DOMAIN outbox[e[1]]
      /\ e[3] \subseteq outbox[e[1]][e[2]].load
      /\ Visible(e[1], e[2]) \subseteq e[3]
  <2>1. CASE e \in heard
    <3>1. e[1] \in Lanes
      BY <1>0, <2>1 DEF TypeOK
    <3> QED BY <2>1, <3>1 DEF Inv, ToldWhole
  <2>2. ASSUME NEW w \in Workers, Working(w), e = <<job[w].lane, job[w].id, job[w].load>>
        PROVE  <1>1!:
    <3>1. InHand(w)
      BY <2>2 DEF Inv
    <3> QED BY <2>2, <3>1 DEF InHand
  <2> QED BY <2>1, <2>2, Telling
<1>2. outbox[e[1]][e[2]].load \subseteq Created
  BY <1>1 DEF Inv, RowIsSound
<1>3. /\ e[2] \in DOMAIN outbox'[e[1]]
      /\ outbox'[e[1]][e[2]].load = outbox[e[1]][e[2]].load
  BY <1>0, <1>1 DEF RowsKept
<1>4. outbox'[e[1]][e[2]].load \cap Shown' \subseteq e[3]
  BY <1>0, <1>1, <1>2, <1>3 DEF MatchesGrow, Visible
<1> QED BY <1>1, <1>3, <1>4 DEF ToldWhole, Visible

---------------------------------------------------------------------------
\* The invariant.

LEMMA InvInit == Init => Inv
<1> SUFFICES ASSUME Init PROVE Inv
  OBVIOUS
<1>1. TypeOK
  BY InitTypes
<1>2. /\ job = [w \in Workers |-> IdleJob] /\ lock = None /\ current = {} /\ heard = {}
      /\ outbox = [lane \in Lanes |-> <<>>] /\ settings.failures = 0
  BY DEF Init
<1>3. OneHolder /\ \A w \in Workers : ~Working(w)
  BY <1>2, NoneFacts DEF OneHolder, Working, IdleJob
<1>4. MatchesAreWritten
  BY <1>2 DEF MatchesAreWritten, IdleJob
<1>5. \A lane \in Lanes : DOMAIN outbox[lane] = {}
  BY <1>2
<1>6. \A lane \in Lanes : Apart(lane)
  BY <1>5 DEF Apart
<1>7. FailingWebhookIsOff
  <2>1. \A kind \in Kinds : <<"webhook", kind>> \in Lanes
    BY DEF Lanes, Channels
  <2> QED BY <1>2, <1>5, <2>1, OutboxAssumption DEF FailingWebhookIsOff
<1> QED BY <1>1, <1>2, <1>3, <1>4, <1>5, <1>6, <1>7 DEF Inv

LEMMA InvStep == Inv /\ [Next]_vars => Inv'
<1> SUFFICES ASSUME Inv, [Next]_vars PROVE Inv'
  OBVIOUS
<1>1. TypeOK'
  <2>0. TypeOK
    BY DEF Inv
  <2>1. CASE UNCHANGED vars
    BY <2>0, <2>1 DEF vars, TypeOK
  <2>2. ASSUME NEW w \in Workers, Notify(w) \/ Crash(w) PROVE TypeOK'
    BY <2>0, <2>2, SendTypes, PassTypes DEF Notify
  <2>3. CASE \/ \E m \in Matches : HideMatch(m) \/ \E score \in Scores : WriteMatch(m, score)
             \/ TimePasses
    BY <2>0, <2>3, WorldTypes
  <2>4. CASE (\E form \in Asked : Save(form) \/ TakeMoment(form)) \/ SaveLate
    BY <2>0, <2>4, SaveTypes
  <2> QED BY <2>1, <2>2, <2>3, <2>4 DEF Next
<1>2. OneHolder'
  BY HolderStep
<1>3. \A w \in Workers : Working(w)' => InHand(w)'
  BY HandStep
<1>4. MatchesAreWritten'
  BY WrittenStep
<1>5. \A lane \in Lanes : Apart(lane)' /\ \A id \in DOMAIN outbox'[lane] : RowIsSound(outbox[lane][id])'
  BY RowsStep
<1>6. \A e \in heard' : ToldWhole(e)'
  BY ToldStep
<1>7. FailingWebhookIsOff'
  BY WebhookStep
<1> QED BY <1>1, <1>2, <1>3, <1>4, <1>5, <1>6, <1>7 DEF Inv

LEMMA Invariance == Spec => []Inv
<1>1. Init => Inv
  BY InvInit
<1>2. Inv /\ [Next]_vars => Inv'
  BY InvStep
<1> QED BY <1>1, <1>2, PTL DEF Spec

\* The types of the settings row, of the deliveries and of the jobs: a delivery
\* never counts more than MaxAttempts attempts, nor a monitor more than
\* MaxFailures failures (deliver.ts:284-330).
THEOREM TypeCorrect == Spec => []TypeOK
<1>1. Inv => TypeOK
  BY DEF Inv
<1> QED BY <1>1, Invariance, PTL

\* What is being sent, or was just taken, belongs to the settings in force, for
\* as long as its transaction holds the row (deliver.ts:176-202).
THEOREM OldSettingsStaySilent == Spec => []OldSettingsAreSilent
<1>1. Inv => OldSettingsAreSilent
  <2> SUFFICES ASSUME Inv, NEW w \in Workers, job[w].pc \in {"sending", "accepted"}
               PROVE  ~Cancelled(job[w].lane, job[w].id) /\ job[w].load \subseteq current
    BY DEF OldSettingsAreSilent
  <2>1. Working(w)
    BY DEF Working
  <2>2. InHand(w)
    BY <2>1 DEF Inv
  <2>3. RowIsSound(outbox[job[w].lane][job[w].id])
    BY <2>2 DEF Inv, InHand
  <2> QED BY <2>1, <2>2, <2>3, HandFacts DEF InHand, RowIsSound
<1> QED BY <1>1, Invariance, PTL

\* A webhook that keeps failing is off: no order of attempts, saves and restarts
\* leaves it on with a failed delivery of its revision (deliver.ts:300-316).
THEOREM FailingWebhookStaysOff == Spec => []FailingWebhookIsOff
<1>1. Inv => FailingWebhookIsOff
  BY DEF Inv
<1> QED BY <1>1, Invariance, PTL

\* Where a save takes its moment with its row, a cancelled delivery takes no
\* match of the period in force with it (settings.ts:97-121).
THEOREM CancelledStaysOld == "late" \notin Faults => (Spec => []CancelledIsOld)
<1> SUFFICES ASSUME "late" \notin Faults PROVE Spec => []CancelledIsOld
  OBVIOUS
<1> DEFINE J == saving = None /\ CancelledIsOld
<1>1. Init => J
  <2> SUFFICES ASSUME Init PROVE J
    OBVIOUS
  <2>1. current = {} /\ saving = None
    BY DEF Init
  <2> QED BY <2>1 DEF CancelledIsOld
<1>2. ASSUME Inv, J, [Next]_vars PROVE J'
  <2>1. /\ TypeOK /\ RowsKept /\ Created \subseteq Created'
        /\ \A lane \in Lanes : \A id \in DOMAIN outbox[lane] : outbox[lane][id].load \subseteq Created
    BY <1>2, Keeping, Growing DEF Inv, RowIsSound, MatchesGrow
  <2>2. saving' = None
    BY <1>2, Zenon DEF Next, Notify, TimePasses, StartPass, Plan, EndPass, SkipDelivery, TakeDelivery,
       Accept, Refuse, RecordSent, RecordFailure, Crash, DigestFallsDue, RetryFallsDue, Save,
       TakeMoment, SaveLate, HideMatch, WriteMatch, vars
  <2>3. CASE \E form \in Asked : Save(form)
    <3>1. current' = {}
      BY <2>3 DEF Save, Saved
    <3> QED BY <2>2, <3>1 DEF CancelledIsOld
  <2>4. CASE SamePeriod
    <3> SUFFICES ASSUME NEW lane \in Lanes, NEW id \in DOMAIN outbox'[lane],
                        outbox'[lane][id].revision # settings'.revision
                 PROVE  outbox'[lane][id].load \cap current' = {}
      BY <2>2 DEF CancelledIsOld
    <3>1. id \in DOMAIN outbox[lane]
      <4>1. CASE NoNewRows
        BY <4>1 DEF NoNewRows
      <4>2. ASSUME NEW w \in Workers, Plan(w), id \notin DOMAIN outbox[lane] PROVE FALSE
        <5>1. outbox'[lane][id].revision = settings.revision
          BY <2>1, <4>2, Planned
        <5> QED BY <2>4, <5>1 DEF SamePeriod
      <4> QED BY <1>2, <4>1, <4>2, Keeping
    <3>2. /\ outbox'[lane][id].load = outbox[lane][id].load
          /\ outbox'[lane][id].revision = outbox[lane][id].revision
      BY <2>1, <3>1 DEF RowsKept
    <3>3. outbox[lane][id].load \cap current = {} /\ outbox[lane][id].load \subseteq Created
      BY <1>2, <2>1, <2>4, <3>1, <3>2 DEF CancelledIsOld, SamePeriod
    <3> QED BY <2>4, <3>2, <3>3 DEF SamePeriod
  <2>5. CASE NewPeriod
    BY <1>2, <2>3, <2>5 DEF NewPeriod, SaveLate
  <2> QED BY <2>1, <2>3, <2>4, <2>5, <1>2, Periods
<1>3. J => CancelledIsOld
  OBVIOUS
<1> HIDE DEF J
<1> QED BY <1>1, <1>2, <1>3, Invariance, PTL DEF Spec

---------------------------------------------------------------------------
\* The outbox keeps the Receiver's promise.

\* One lane hears for the first time of a delivery, and of matches it has not
\* heard of under another id; or nothing new is heard.
LEMMA Hearing ==
  ASSUME Inv, [Next]_vars
  PROVE  \/ \A l, i : HeardOf(l, i)' = HeardOf(l, i)
         \/ \E lane \in Lanes, id \in Nat, load \in SUBSET Matches :
              /\ HeardOf(lane, id) = {}
              /\ \A other : load \cap HeardOf(lane, other) = {}
              /\ HeardOf(lane, id)' = load
              /\ \A l, i : l # lane \/ i # id => HeardOf(l, i)' = HeardOf(l, i)
<1>1. CASE heard' = heard
  BY <1>1 DEF HeardOf
<1>2. ASSUME NEW w \in Workers, Working(w), NEW lane, NEW id, NEW load,
             lane = job[w].lane, id = job[w].id, load = job[w].load,
             heard' = heard \cup {<<lane, id, load>>}
      PROVE  \/ \A l, i : HeardOf(l, i)' = HeardOf(l, i)
             \/ /\ lane \in Lanes /\ id \in Nat /\ load \in SUBSET Matches
                /\ HeardOf(lane, id) = {}
                /\ \A other : load \cap HeardOf(lane, other) = {}
                /\ HeardOf(lane, id)' = load
                /\ \A l, i : l # lane \/ i # id => HeardOf(l, i)' = HeardOf(l, i)
  <2>1. InHand(w) /\ lane \in Lanes /\ id \in Nat /\ id \in DOMAIN outbox[lane]
        /\ load \in SUBSET Matches /\ load \subseteq outbox[lane][id].load
    BY <1>2, HandFacts DEF Inv, NotifyJobs
  <2>2. \A l, i : l # lane \/ i # id => HeardOf(l, i)' = HeardOf(l, i)
    <3> TAKE l, i
    <3> HAVE l # lane \/ i # id
    <3>1. {x \in heard' : x[1] = l /\ x[2] = i} = {x \in heard : x[1] = l /\ x[2] = i}
      BY <1>2
    <3> QED BY <3>1 DEF HeardOf
  <2>3. HeardOf(lane, id)' = HeardOf(lane, id) \cup load
    <3>1. \A m : m \in HeardOf(lane, id)'
            <=> \E e \in heard' : e[1] = lane /\ e[2] = id /\ m \in e[3]
      BY DEF HeardOf
    <3>2. \A m : m \in HeardOf(lane, id)
            <=> \E e \in heard : e[1] = lane /\ e[2] = id /\ m \in e[3]
      BY DEF HeardOf
    <3>3. PICK new : heard' = heard \cup {new} /\ new[1] = lane /\ new[2] = id /\ new[3] = load
      <4>1. <<lane, id, load>>[1] = lane /\ <<lane, id, load>>[2] = id /\ <<lane, id, load>>[3] = load
        OBVIOUS
      <4> QED BY <1>2, <4>1
    <3>4. \A m : m \in HeardOf(lane, id)' <=> m \in HeardOf(lane, id) \cup load
      <4> TAKE m
      <4>1. (\E e \in heard' : e[1] = lane /\ e[2] = id /\ m \in e[3])
            <=> m \in load \/ \E e \in heard : e[1] = lane /\ e[2] = id /\ m \in e[3]
        BY <3>3
      <4> QED BY <3>1, <3>2, <4>1
    <3> QED BY <3>4
  <2>4. CASE \E e \in heard : e[1] = lane /\ e[2] = id
    <3>1. load \subseteq HeardOf(lane, id)
      BY <1>2, <2>1, <2>4 DEF InHand, HeardOf
    <3> QED BY <2>2, <2>3, <3>1
  <2>5. CASE ~\E e \in heard : e[1] = lane /\ e[2] = id
    <3>1. HeardOf(lane, id) = {}
      BY <2>5 DEF HeardOf
    <3>2. ASSUME NEW other PROVE load \cap HeardOf(lane, other) = {}
      <4>1. CASE other = id
        BY <3>1, <4>1
      <4>2. CASE other # id
        <5> SUFFICES ASSUME NEW e \in heard, e[1] = lane, e[2] = other
                     PROVE  load \cap e[3] = {}
          BY DEF HeardOf
        <5>1. other \in DOMAIN outbox[lane] /\ e[3] \subseteq outbox[lane][other].load
          BY DEF Inv, ToldWhole
        <5> QED BY <2>1, <4>2, <5>1 DEF Inv, Apart
      <4> QED BY <4>1, <4>2
    <3> QED BY <2>1, <2>2, <2>3, <3>1, <3>2
  <2> QED BY <2>4, <2>5
<1>3. ASSUME NEW w \in Workers, Working(w),
             heard' = heard \cup {<<job[w].lane, job[w].id, job[w].load>>}
      PROVE  \E lane, id, load : /\ lane = job[w].lane /\ id = job[w].id /\ load = job[w].load
                                 /\ heard' = heard \cup {<<lane, id, load>>}
  BY <1>3
<1> QED BY <1>1, <1>2, <1>3, Telling

\* Each lane tells of a match under one delivery id, and a delivery heard again
\* has nothing new in it: whatever jobs die, answers are lost, and saves or
\* other jobs come in between (deliver.ts:94-281).
THEOREM OutboxKeepsThePromise == Spec => ToldOnce
<1> DEFINE told == [lane \in Lanes |-> [id \in Ids |-> HeardOf(lane, id)]]
<1>1. Init => Told!Init
  BY DEF Init, Told!Init, HeardOf
<1>2. ASSUME Inv, [Next]_vars PROVE Told!Next \/ UNCHANGED told
  <2>1. CASE \A lane, id : HeardOf(lane, id)' = HeardOf(lane, id)
    BY <2>1
  <2>2. ASSUME NEW lane \in Lanes, NEW id \in Nat, NEW load \in SUBSET Matches,
               HeardOf(lane, id) = {}, \A other : load \cap HeardOf(lane, other) = {},
               HeardOf(lane, id)' = load,
               \A l, i : l # lane \/ i # id => HeardOf(l, i)' = HeardOf(l, i)
        PROVE  Told!Next \/ UNCHANGED told
    <3>1. CASE id \in Ids
      <4>1. told' = [told EXCEPT ![lane][id] = load]
        BY <2>2, <3>1
      <4>2. told[lane][id] = {} /\ \A other \in Ids : load \cap told[lane][other] = {}
        BY <2>2, <3>1
      <4>3. Told!Hear(lane, id, load)
        BY <4>1, <4>2 DEF Told!Hear
      <4> QED BY <3>1, <4>3 DEF Told!Next
    <3>2. CASE id \notin Ids
      <4>1. \A l \in Lanes, i \in Ids : HeardOf(l, i)' = HeardOf(l, i)
        BY <2>2, <3>2
      <4> QED BY <4>1
    <3> QED BY <3>1, <3>2
  <2> QED BY <1>2, <2>1, <2>2, Hearing
<1> QED BY <1>1, <1>2, Invariance, PTL DEF Spec, ToldOnce, Told!Spec

\* The same promise for every id there may ever be, so the ids the runs look at
\* hide nothing.
Ever == INSTANCE Receiver WITH
  Ids <- Nat, told <- [lane \in Lanes |-> [id \in Nat |-> HeardOf(lane, id)]]

\* No lane, under any id whatever, is told of a match twice (deliver.ts:94-281).
THEOREM OutboxKeepsItForEveryId == Spec => Ever!Spec
<1> DEFINE told == [lane \in Lanes |-> [id \in Nat |-> HeardOf(lane, id)]]
<1>1. Init => Ever!Init
  BY DEF Init, Ever!Init, HeardOf
<1>2. ASSUME Inv, [Next]_vars PROVE Ever!Next \/ UNCHANGED told
  <2>1. CASE \A lane, id : HeardOf(lane, id)' = HeardOf(lane, id)
    BY <2>1
  <2>2. ASSUME NEW lane \in Lanes, NEW id \in Nat, NEW load \in SUBSET Matches,
               HeardOf(lane, id) = {}, \A other : load \cap HeardOf(lane, other) = {},
               HeardOf(lane, id)' = load,
               \A l, i : l # lane \/ i # id => HeardOf(l, i)' = HeardOf(l, i)
        PROVE  Ever!Next
    <3>1. told' = [told EXCEPT ![lane][id] = load]
      BY <2>2
    <3>2. told[lane][id] = {} /\ \A other \in Nat : load \cap told[lane][other] = {}
      BY <2>2
    <3>3. Ever!Hear(lane, id, load)
      BY <3>1, <3>2 DEF Ever!Hear
    <3> QED BY <3>3 DEF Ever!Next
  <2> QED BY <1>2, <2>1, <2>2, Hearing
<1> QED BY <1>1, <1>2, Invariance, PTL DEF Spec, Ever!Spec
=============================================================================
