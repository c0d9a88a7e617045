---------------------------- MODULE MeterProofs ----------------------------
(***************************************************************************)
(* Theorems of Meter, for every number of posts and slots, every price and  *)
(* every cap: a loop stops only near the cap, and a loop that runs alone    *)
(* passes it by a bounded number of posts.                                  *)
(***************************************************************************)
EXTENDS Meter, SumTheorems

---------------------------------------------------------------------------
\* What a call in flight means for the money, and the sums over the slots of a loop.

\* What a loop's calls in flight are: slot -> call.
Rows(l) == [Slots(l) -> Calls \cup {None}]

\* The part of it that the meter has not counted.
Uncounted(call) ==
  IF call # None /\ call.at \in {"answered", "second", "rescored"} THEN call.first ELSE 0

\* The part that is counted and has no row.
Ahead(call) ==
  IF call # None /\ call.at = "counted" THEN call.first
  ELSE IF call # None /\ call.at = "rescored" THEN call.second ELSE 0

\* The most it may add to the ledger.
Worst(l, call) ==
  IF call = None THEN 0
  ELSE IF call.at = "asked" THEN PerPost(l)
  ELSE IF call.at = "second" THEN call.first + Dearest ELSE call.first + call.second

\* What the slot may add to the ledger before it costs a post of the largest price.
Spare(largest, call) ==
  IF call = None THEN largest
  ELSE IF call.at \in {"asked", "second"} THEN 0 ELSE Higher(0, largest - call.first - call.second)

OwedIn(l, row) == SumFunction([s \in Slots(l) |-> Owed(row[s])])
UncountedIn(l, row) == SumFunction([s \in Slots(l) |-> Uncounted(row[s])])
AheadIn(l, row) == SumFunction([s \in Slots(l) |-> Ahead(row[s])])
WorstIn(l, row) == SumFunction([s \in Slots(l) |-> Worst(l, row[s])])
SpareIn(l, largest, row) == SumFunction([s \in Slots(l) |-> Spare(largest, row[s])])

---------------------------------------------------------------------------
\* The inductive invariant.

\* What was billed is in the ledger, or lost, or owed by a call in flight.
Books == billed = ledger + lost + SumFunction([l \in Loops |-> OwedIn(l, calls[l])])

\* What the fields of a call say of its loop and of the largest price seen.
CallSound(l, largest, call) ==
  call # None =>
    /\ call.first <= Dearest /\ call.second <= Dearest
    /\ call.at = "asked" => call.first = 0
    /\ call.at # "rescored" => call.second = 0
    /\ call.at \in {"second", "rescored"} => l \in Rescores
    /\ call.first + call.second <= largest

\* The place of a loop and its slots.
Placed(l, meter, row) ==
  /\ l \notin active => meter.pc = "idle"
  /\ meter.pc = "idle" => row = [s \in Slots(l) |-> None] /\ meter.spent = 0
  /\ meter.pc \in {"reading", "read", "call"} => meter.left > 0 /\ \E s \in Slots(l) : row[s] = None
  /\ meter.largest <= PerPost(l) /\ meter.reserved <= (Width[l] - 1) * PerPost(l)

\* What the loop believes was spent was.
Spends(l, meter, row, paid) ==
  /\ meter.pc # "idle" => Cap - meter.remaining + meter.spent + UncountedIn(l, row) <= paid
  /\ meter.pc = "read" => meter.reading + UncountedIn(l, row) <= paid
  /\ meter.pc \in {"stopping", "stopped"} => Cap <= paid + (Width[l] - 1) * PerPost(l)

Sound(l, meter, row, paid) ==
  /\ Placed(l, meter, row)
  /\ \A s \in Slots(l) : CallSound(l, meter.largest, row[s])
  /\ Spends(l, meter, row, paid)

Inv ==
  /\ TypeOK
  /\ Books
  /\ \A l \in Loops : Sound(l, loop[l], calls[l], billed)

---------------------------------------------------------------------------
\* For a loop that runs alone.

\* The estimate and the reading are at most so far behind the ledger, a call starts only
\* under the cap, and no call in flight takes the ledger further.
Bounded(l, meter, row, sum) ==
  /\ meter.pc # "idle" /\ meter.remaining > 0 =>
       sum + AheadIn(l, row)
         <= Cap - meter.remaining + meter.spent + (Width[l] - 1) * meter.largest
  /\ meter.pc = "read" => sum + meter.largest <= meter.reading + SpareIn(l, meter.largest, row)
  /\ meter.pc = "call" => sum + WorstIn(l, row) < Cap + (Width[l] - 1) * PerPost(l)
  /\ sum + WorstIn(l, row) < Cap + Width[l] * PerPost(l)

AloneInv == \A l \in active : Cardinality(active) = 1 => Bounded(l, loop[l], calls[l], ledger)

---------------------------------------------------------------------------
\* Prices.

LEMMA DearestIs == Dearest \in Nat /\ Dearest > 0 /\ \A cost \in Prices : cost \in Nat /\ cost <= Dearest
<1>1. Dearest \in Prices /\ \A q \in Prices : q <= Dearest
  BY MeterAssumption DEF Dearest
<1> QED BY <1>1, MeterAssumption

LEMMA PerPostIs ==
  ASSUME NEW l \in Loops
  PROVE  /\ PerPost(l) \in Nat /\ Dearest <= PerPost(l)
         /\ l \in Rescores => PerPost(l) = Dearest + Dearest
         /\ Width[l] \in Nat /\ Width[l] > 0
         /\ (Width[l] - 1) * PerPost(l) \in Nat
         /\ Width[l] * PerPost(l) = (Width[l] - 1) * PerPost(l) + PerPost(l)
<1>1. PerPost(l) \in Nat /\ Dearest <= PerPost(l) /\ (l \in Rescores => PerPost(l) = Dearest + Dearest)
  BY DearestIs DEF PerPost
<1>2. Width[l] \in Nat /\ Width[l] > 0
  BY MeterAssumption
<1>3. \A w, p \in Nat : w > 0 => (w - 1) * p \in Nat /\ w * p = (w - 1) * p + p
  <2> TAKE w, p \in Nat
  <2> HAVE w > 0
  <2>1. PICK v \in Nat : w = v + 1
    <3>1. w - 1 \in Nat /\ w = (w - 1) + 1
      OBVIOUS
    <3> QED BY <3>1
  <2>2. (v + 1) * p = v * p + p /\ v * p \in Nat /\ (v + 1) - 1 = v
    OBVIOUS
  <2> QED BY <2>1, <2>2
<1> QED BY <1>1, <1>2, <1>3

\* More posts at a price, and as many at a higher one, cost no less.
LEMMA PostsCost ==
  \A n, m, c, d \in Nat : n <= m /\ c <= d => n * c <= m * d /\ n * c \in Nat /\ m * d \in Nat
<1> SUFFICES ASSUME NEW n \in Nat, NEW m \in Nat, NEW c \in Nat, NEW d \in Nat, n <= m, c <= d
             PROVE  n * c <= m * d /\ n * c \in Nat /\ m * d \in Nat
  OBVIOUS
<1>1. PICK i \in Nat : m = n + i
  <2>1. m - n \in Nat /\ m = n + (m - n)
    OBVIOUS
  <2> QED BY <2>1
<1>2. PICK j \in Nat : d = c + j
  <2>1. d - c \in Nat /\ d = c + (d - c)
    OBVIOUS
  <2> QED BY <2>1
<1>3. (n + i) * (c + j) = n * c + (n * j + (i * c + i * j))
  OBVIOUS
<1>4. n * c \in Nat /\ n * j \in Nat /\ i * c \in Nat /\ i * j \in Nat
  OBVIOUS
<1> QED BY <1>1, <1>2, <1>3, <1>4

---------------------------------------------------------------------------
\* The sums over the slots.

LEMMA SlotsAre ==
  ASSUME NEW l \in Loops
  PROVE  IsFiniteSet(Slots(l)) /\ Cardinality(Slots(l)) = Width[l]
<1>1. Width[l] \in Nat /\ 1 \in Int /\ Width[l] \in Int
  BY MeterAssumption
<1>2. IsFiniteSet(1..Width[l]) /\ Cardinality(1..Width[l]) = IF 1 > Width[l] THEN 0 ELSE Width[l] - 1 + 1
  BY <1>1, FS_Interval
<1>3. Width[l] > 0
  BY PerPostIs
<1> QED BY <1>1, <1>2, <1>3 DEF Slots

\* Every part of a call's cost is a number.
LEMMA CallCosts ==
  ASSUME NEW l \in Loops, NEW call \in Calls \cup {None}, NEW largest \in Nat
  PROVE  /\ Owed(call) \in Nat /\ Uncounted(call) \in Nat /\ Ahead(call) \in Nat
         /\ Worst(l, call) \in Nat /\ Spare(largest, call) \in Nat
<1>1. call # None => call.first \in Nat /\ call.second \in Nat
  BY DEF Calls
<1> QED BY <1>1, PerPostIs, DearestIs DEF Owed, Uncounted, Ahead, Worst, Spare, Higher

\* One slot changes, and each sum over the slots by as much.
LEMMA OneSlot ==
  ASSUME NEW l \in Loops, NEW row \in Rows(l), NEW s \in Slots(l), NEW call \in Calls \cup {None},
         NEW new, new = [row EXCEPT ![s] = call]
  PROVE  /\ new \in Rows(l)
         /\ OwedIn(l, new) = OwedIn(l, row) - Owed(row[s]) + Owed(call)
         /\ UncountedIn(l, new) = UncountedIn(l, row) - Uncounted(row[s]) + Uncounted(call)
         /\ AheadIn(l, new) = AheadIn(l, row) - Ahead(row[s]) + Ahead(call)
         /\ WorstIn(l, new) = WorstIn(l, row) - Worst(l, row[s]) + Worst(l, call)
         /\ \A largest \in Nat : SpareIn(l, largest, new)
              = SpareIn(l, largest, row) - Spare(largest, row[s]) + Spare(largest, call)
<1>1. /\ row \in [Slots(l) -> Calls \cup {None}] /\ new \in [Slots(l) -> Calls \cup {None}]
      /\ new[s] = call /\ \A t \in Slots(l) \ {s} : new[t] = row[t]
  BY DEF Rows
<1> HIDE DEF Rows
<1>2. IsFiniteSet(Slots(l))
  BY SlotsAre
<1>3. OwedIn(l, new) = OwedIn(l, row) - Owed(row[s]) + Owed(call)
  <2> DEFINE v == [t \in Slots(l) |-> Owed(row[t])]
             w == [t \in Slots(l) |-> Owed(new[t])]
  <2>1. v \in [Slots(l) -> Nat] /\ w \in [Slots(l) -> Nat]
    BY <1>1, CallCosts, 0 \in Nat
  <2>2. v[s] = Owed(row[s]) /\ w[s] = Owed(call) /\ \A t \in Slots(l) \ {s} : w[t] = v[t]
    BY <1>1
  <2>3. OwedIn(l, row) = SumFunction(v) /\ OwedIn(l, new) = SumFunction(w)
    BY DEF OwedIn
  <2> HIDE DEF v, w
  <2> QED BY <1>2, <2>1, <2>2, <2>3, SumChange
<1>4. UncountedIn(l, new) = UncountedIn(l, row) - Uncounted(row[s]) + Uncounted(call)
  <2> DEFINE v == [t \in Slots(l) |-> Uncounted(row[t])]
             w == [t \in Slots(l) |-> Uncounted(new[t])]
  <2>1. v \in [Slots(l) -> Nat] /\ w \in [Slots(l) -> Nat]
    BY <1>1, CallCosts, 0 \in Nat
  <2>2. v[s] = Uncounted(row[s]) /\ w[s] = Uncounted(call) /\ \A t \in Slots(l) \ {s} : w[t] = v[t]
    BY <1>1
  <2>3. UncountedIn(l, row) = SumFunction(v) /\ UncountedIn(l, new) = SumFunction(w)
    BY DEF UncountedIn
  <2> HIDE DEF v, w
  <2> QED BY <1>2, <2>1, <2>2, <2>3, SumChange
<1>5. AheadIn(l, new) = AheadIn(l, row) - Ahead(row[s]) + Ahead(call)
  <2> DEFINE v == [t \in Slots(l) |-> Ahead(row[t])]
             w == [t \in Slots(l) |-> Ahead(new[t])]
  <2>1. v \in [Slots(l) -> Nat] /\ w \in [Slots(l) -> Nat]
    BY <1>1, CallCosts, 0 \in Nat
  <2>2. v[s] = Ahead(row[s]) /\ w[s] = Ahead(call) /\ \A t \in Slots(l) \ {s} : w[t] = v[t]
    BY <1>1
  <2>3. AheadIn(l, row) = SumFunction(v) /\ AheadIn(l, new) = SumFunction(w)
    BY DEF AheadIn
  <2> HIDE DEF v, w
  <2> QED BY <1>2, <2>1, <2>2, <2>3, SumChange
<1>6. WorstIn(l, new) = WorstIn(l, row) - Worst(l, row[s]) + Worst(l, call)
  <2> DEFINE v == [t \in Slots(l) |-> Worst(l, row[t])]
             w == [t \in Slots(l) |-> Worst(l, new[t])]
  <2>1. v \in [Slots(l) -> Nat] /\ w \in [Slots(l) -> Nat]
    BY <1>1, CallCosts, 0 \in Nat
  <2>2. v[s] = Worst(l, row[s]) /\ w[s] = Worst(l, call) /\ \A t \in Slots(l) \ {s} : w[t] = v[t]
    BY <1>1
  <2>3. WorstIn(l, row) = SumFunction(v) /\ WorstIn(l, new) = SumFunction(w)
    BY DEF WorstIn
  <2> HIDE DEF v, w
  <2> QED BY <1>2, <2>1, <2>2, <2>3, SumChange
<1>7. ASSUME NEW largest \in Nat
      PROVE  SpareIn(l, largest, new)
               = SpareIn(l, largest, row) - Spare(largest, row[s]) + Spare(largest, call)
  <2> DEFINE v == [t \in Slots(l) |-> Spare(largest, row[t])]
             w == [t \in Slots(l) |-> Spare(largest, new[t])]
  <2>1. v \in [Slots(l) -> Nat] /\ w \in [Slots(l) -> Nat]
    BY <1>1, CallCosts
  <2>2. v[s] = Spare(largest, row[s]) /\ w[s] = Spare(largest, call)
        /\ \A t \in Slots(l) \ {s} : w[t] = v[t]
    BY <1>1
  <2>3. SpareIn(l, largest, row) = SumFunction(v) /\ SpareIn(l, largest, new) = SumFunction(w)
    BY DEF SpareIn
  <2> HIDE DEF v, w
  <2> QED BY <1>2, <2>1, <2>2, <2>3, SumChange
<1>8. new \in Rows(l)
  BY <1>1 DEF Rows
<1> QED BY <1>3, <1>4, <1>5, <1>6, <1>7, <1>8

\* The sums are numbers, none where no call is in flight, and what is owed covers what is
\* not counted.
LEMMA RowSums ==
  ASSUME NEW l \in Loops, NEW row \in Rows(l)
  PROVE  /\ OwedIn(l, row) \in Nat /\ UncountedIn(l, row) \in Nat /\ AheadIn(l, row) \in Nat
         /\ WorstIn(l, row) \in Nat /\ \A largest \in Nat : SpareIn(l, largest, row) \in Nat
         /\ row = [s \in Slots(l) |-> None] =>
              OwedIn(l, row) = 0 /\ UncountedIn(l, row) = 0 /\ AheadIn(l, row) = 0 /\ WorstIn(l, row) = 0
         /\ UncountedIn(l, row) <= OwedIn(l, row)
<1>1. row \in [Slots(l) -> Calls \cup {None}]
  BY DEF Rows
<1>2. IsFiniteSet(Slots(l))
  BY SlotsAre
<1> DEFINE owed == [t \in Slots(l) |-> Owed(row[t])]
           uncounted == [t \in Slots(l) |-> Uncounted(row[t])]
           ahead == [t \in Slots(l) |-> Ahead(row[t])]
           worst == [t \in Slots(l) |-> Worst(l, row[t])]
           none == [t \in Slots(l) |-> IF t \in {} THEN 0 ELSE 0]
<1>3. /\ owed \in [Slots(l) -> Nat] /\ uncounted \in [Slots(l) -> Nat] /\ ahead \in [Slots(l) -> Nat]
      /\ worst \in [Slots(l) -> Nat]
  BY <1>1, CallCosts, 0 \in Nat
<1>4. /\ OwedIn(l, row) = SumFunction(owed) /\ UncountedIn(l, row) = SumFunction(uncounted)
      /\ AheadIn(l, row) = SumFunction(ahead) /\ WorstIn(l, row) = SumFunction(worst)
  BY DEF OwedIn, UncountedIn, AheadIn, WorstIn
<1>5. ASSUME NEW largest \in Nat PROVE SpareIn(l, largest, row) \in Nat
  <2> DEFINE spare == [t \in Slots(l) |-> Spare(largest, row[t])]
  <2>1. spare \in [Slots(l) -> Nat]
    BY <1>1, CallCosts
  <2>2. SpareIn(l, largest, row) = SumFunction(spare)
    BY DEF SpareIn
  <2> HIDE DEF spare
  <2> QED BY <1>2, <2>1, <2>2, SumType
<1>6. row = [s \in Slots(l) |-> None] => owed = none /\ uncounted = none /\ ahead = none /\ worst = none
  BY DEF Owed, Uncounted, Ahead, Worst
<1>7. SumFunction(none) = 0
  <2>1. SumFunction(none) = Cardinality({}) * 0
    BY <1>2, SumOfSame
  <2> QED BY <2>1, FS_EmptySet
<1>8. \A t \in Slots(l) : uncounted[t] <= owed[t]
  <2> SUFFICES ASSUME NEW t \in Slots(l) PROVE Uncounted(row[t]) <= Owed(row[t])
    OBVIOUS
  <2>1. row[t] # None => row[t].first \in Nat /\ row[t].second \in Nat
    BY <1>1 DEF Calls
  <2> QED BY <2>1 DEF Uncounted, Owed
<1> HIDE DEF owed, uncounted, ahead, worst, none
<1>9. SumFunction(uncounted) <= SumFunction(owed)
  BY <1>2, <1>3, <1>8, SumMonotone
<1> QED BY <1>2, <1>3, <1>4, <1>5, <1>6, <1>7, <1>9, SumType

---------------------------------------------------------------------------
\* What an action does: it moves one loop to a meter and a row of calls.

Moves(l, meter, row) ==
  /\ meter \in Meters /\ meter.left <= Posts[l] /\ row \in Rows(l)
  /\ loop' = [loop EXCEPT ![l] = meter] /\ calls' = [calls EXCEPT ![l] = row]
  /\ active' = active

LEMMA LoopsAre ==
  ASSUME TypeOK, NEW l \in Loops
  PROVE  /\ loop[l] \in Meters /\ loop[l].left <= Posts[l] /\ calls[l] \in Rows(l)
         /\ loop[l].left \in Nat /\ Posts[l] \in Nat /\ loop[l].remaining \in Nat
         /\ loop[l].remaining <= Cap /\ Cap \in Nat /\ Cap > 0
         /\ loop[l].spent \in Nat /\ loop[l].sinceRead \in Nat /\ loop[l].largest \in Nat
         /\ loop[l].reserved \in Nat /\ loop[l].reading \in Nat
         /\ [calls EXCEPT ![l] = calls[l]] = calls
         /\ ledger \in Nat /\ billed \in Nat /\ lost \in Nat
         /\ \A s \in Slots(l) : calls[l][s] \in Calls \cup {None}
<1>1. loop[l] \in Meters /\ loop[l].left <= Posts[l]
  BY DEF TypeOK
<1>2. loop[l].remaining \in 0..Cap
  BY <1>1 DEF Meters
<1>3. Cap \in Nat /\ Cap > 0 /\ Posts[l] \in Nat
  BY MeterAssumption
<1>4. calls[l] \in Rows(l) /\ \A s \in Slots(l) : calls[l][s] \in Calls \cup {None}
  BY DEF TypeOK, Rows
<1>5. [calls EXCEPT ![l] = calls[l]] = calls
  BY DEF TypeOK
<1> QED BY <1>1, <1>2, <1>3, <1>4, <1>5 DEF Meters, TypeOK

LEMMA RemainingIs == \A sum \in Nat : Remaining(sum) \in 0..Cap /\ Cap - Remaining(sum) <= sum
                                      /\ (Remaining(sum) > 0 => Cap - Remaining(sum) = sum)
BY MeterAssumption DEF Remaining, Higher

LEMMA VerdictIs ==
  \A r, s, v : /\ Verdict(r, s, v) \in {"stopping", "call"}
               /\ Verdict(r, s, v) = "call" <=> ~ Exhausted(r, s, v)
BY DEF Verdict

\* What the actions of the loop do.
LEMMA BeginMoves ==
  ASSUME TypeOK, NEW l \in Loops, Begin(l)
  PROVE  /\ l \in active /\ loop[l].pc = "idle" /\ ledger' = ledger /\ billed' = billed /\ lost' = lost /\ crashes' = crashes
         /\ Moves(l, [loop[l] EXCEPT !.pc = "next", !.remaining = Remaining(ledger)], calls[l])
<1> DEFINE new == [loop[l] EXCEPT !.pc = "next", !.remaining = Remaining(ledger)]
<1>1. new \in Meters /\ new.left = loop[l].left
  BY LoopsAre, RemainingIs DEF Meters
<1>2. loop' = [loop EXCEPT ![l] = new]
  BY LoopsAre DEF Begin, TypeOK
<1> HIDE DEF new
<1>3. Moves(l, new, calls[l])
  BY <1>1, <1>2, LoopsAre DEF Moves, Begin
<1> QED BY <1>3 DEF Begin, new

LEMMA NoneLeftMoves ==
  ASSUME TypeOK, NEW l \in Loops, NoneLeft(l)
  PROVE  /\ loop[l].pc = "next" /\ ledger' = ledger /\ billed' = billed /\ lost' = lost /\ crashes' = crashes
         /\ Moves(l, [loop[l] EXCEPT !.pc = "closing"], calls[l])
<1> DEFINE new == [loop[l] EXCEPT !.pc = "closing"]
<1>1. new \in Meters /\ new.left = loop[l].left
  BY LoopsAre DEF Meters
<1>2. loop' = [loop EXCEPT ![l] = new]
  BY LoopsAre DEF NoneLeft, TypeOK
<1> HIDE DEF new
<1>3. Moves(l, new, calls[l])
  BY <1>1, <1>2, LoopsAre DEF Moves, NoneLeft
<1> QED BY <1>3 DEF NoneLeft, new

LEMMA WaitMoves ==
  ASSUME TypeOK, NEW l \in Loops, Wait(l)
  PROVE  /\ loop[l].pc = "next" /\ ledger' = ledger /\ billed' = billed /\ lost' = lost /\ crashes' = crashes
         /\ Moves(l, [loop[l] EXCEPT !.pc = "waiting"], calls[l])
<1> DEFINE new == [loop[l] EXCEPT !.pc = "waiting"]
<1>1. new \in Meters /\ new.left = loop[l].left
  BY LoopsAre DEF Meters
<1>2. loop' = [loop EXCEPT ![l] = new]
  BY LoopsAre DEF Wait, TypeOK
<1> HIDE DEF new
<1>3. Moves(l, new, calls[l])
  BY <1>1, <1>2, LoopsAre DEF Moves, Wait
<1> QED BY <1>3 DEF Wait, new

\* The calls in flight of a loop that asks leave it a slot.
LEMMA FlightIs ==
  ASSUME TypeOK, NEW l \in Loops
  PROVE  /\ Cardinality(InFlight(l)) \in Nat /\ Cardinality(InFlight(l)) <= Width[l]
         /\ Cardinality(InFlight(l)) < Width[l] => \E s \in Slots(l) : calls[l][s] = None
         /\ Reserved(l) \in Nat
         /\ Cardinality(InFlight(l)) < Width[l] /\ loop[l].largest <= PerPost(l) =>
              Reserved(l) <= (Width[l] - 1) * PerPost(l)
<1> DEFINE n == Cardinality(InFlight(l))
           c == loop[l].largest
<1>1. InFlight(l) \subseteq Slots(l)
  BY DEF InFlight
<1>2. IsFiniteSet(InFlight(l)) /\ n \in Nat /\ n <= Width[l]
  BY <1>1, SlotsAre, FS_Subset, FS_CardinalityType
<1>3. ASSUME n < Width[l] PROVE \E s \in Slots(l) : calls[l][s] = None
  <2>1. InFlight(l) # Slots(l)
    BY <1>2, <1>3, SlotsAre, PerPostIs
  <2> QED BY <1>1, <2>1 DEF InFlight
<1>4. c \in Nat /\ Reserved(l) = n * c
  BY LoopsAre DEF Reserved
<1>5. Width[l] \in Nat /\ PerPost(l) \in Nat /\ Width[l] > 0
  BY PerPostIs
<1> HIDE DEF n, c
<1>6. Reserved(l) \in Nat
  BY <1>2, <1>4, PostsCost
<1>7. ASSUME n < Width[l], c <= PerPost(l) PROVE Reserved(l) <= (Width[l] - 1) * PerPost(l)
  <2>1. Width[l] - 1 \in Nat /\ n <= Width[l] - 1
    BY <1>2, <1>5, <1>7
  <2> QED BY <1>2, <1>4, <1>5, <1>7, <2>1, PostsCost
<1> QED BY <1>2, <1>3, <1>6, <1>7 DEF n, c

\* Asking, with or without a reading of the ledger.
LEMMA AskMoves ==
  ASSUME TypeOK, NEW l \in Loops, Ask(l)
  PROVE  /\ loop[l].pc = "next" /\ loop[l].left > 0 /\ Cardinality(InFlight(l)) < Width[l]
         /\ ledger' = ledger /\ billed' = billed /\ lost' = lost /\ crashes' = crashes
         /\ \/ Moves(l, [loop[l] EXCEPT !.pc = "reading", !.reserved = Reserved(l)], calls[l])
            \/ Moves(l, [loop[l] EXCEPT
                 !.pc = Verdict(loop[l].remaining, loop[l].spent, Reserved(l)), !.reserved = 0], calls[l])
<1>0. Cardinality(InFlight(l)) < Width[l]
  BY FlightIs, PerPostIs DEF Ask, MustWait
<1>1. CASE ReadsAgain(l)
  <2> DEFINE new == [loop[l] EXCEPT !.pc = "reading", !.reserved = Reserved(l)]
  <2>1. new \in Meters /\ new.left = loop[l].left
    BY LoopsAre, FlightIs DEF Meters
  <2>2. loop' = [loop EXCEPT ![l] = new]
    BY <1>1, LoopsAre DEF Ask, TypeOK
  <2> HIDE DEF new
  <2>3. Moves(l, new, calls[l])
    BY <2>1, <2>2, LoopsAre DEF Moves, Ask
  <2> QED BY <1>0, <2>3 DEF Ask, new
<1>2. CASE ~ ReadsAgain(l)
  <2> DEFINE verdict == Verdict(loop[l].remaining, loop[l].spent, Reserved(l))
             new == [loop[l] EXCEPT !.pc = verdict, !.reserved = 0]
  <2>0. verdict \in {"stopping", "call"}
    BY VerdictIs
  <2>2. loop' = [loop EXCEPT ![l] = new]
    BY <1>2, LoopsAre DEF Ask, TypeOK
  <2> HIDE DEF verdict
  <2>1. new \in Meters /\ new.left = loop[l].left
    BY <2>0, LoopsAre DEF Meters
  <2> HIDE DEF new
  <2>3. Moves(l, new, calls[l])
    BY <2>1, <2>2, LoopsAre DEF Moves, Ask
  <2> QED BY <1>0, <2>3 DEF Ask, new, verdict
<1> QED BY <1>1, <1>2

LEMMA ReadMoves ==
  ASSUME TypeOK, NEW l \in Loops, Read(l)
  PROVE  /\ loop[l].pc = "reading" /\ ledger' = ledger /\ billed' = billed /\ lost' = lost /\ crashes' = crashes
         /\ Moves(l, [loop[l] EXCEPT !.pc = "read", !.reading = ledger], calls[l])
<1> DEFINE new == [loop[l] EXCEPT !.pc = "read", !.reading = ledger]
<1>1. new \in Meters /\ new.left = loop[l].left
  BY LoopsAre DEF Meters
<1>2. loop' = [loop EXCEPT ![l] = new]
  BY LoopsAre DEF Read, TypeOK
<1> HIDE DEF new
<1>3. Moves(l, new, calls[l])
  BY <1>1, <1>2, LoopsAre DEF Moves, Read
<1> QED BY <1>3 DEF Read, new

LEMMA RenewMoves ==
  ASSUME TypeOK, NEW l \in Loops, Renew(l)
  PROVE  LET left == Remaining(loop[l].reading) IN
         /\ loop[l].pc = "read" /\ ledger' = ledger /\ billed' = billed /\ lost' = lost /\ crashes' = crashes
         /\ Moves(l, [loop[l] EXCEPT !.remaining = left, !.sinceRead = 0, !.spent = 0,
              !.reading = 0, !.reserved = 0, !.pc = Verdict(left, 0, loop[l].reserved)], calls[l])
<1> DEFINE left == Remaining(loop[l].reading)
           verdict == Verdict(left, 0, loop[l].reserved)
           new == [loop[l] EXCEPT !.remaining = left, !.sinceRead = 0, !.spent = 0,
                                  !.reading = 0, !.reserved = 0, !.pc = verdict]
<1>0. verdict \in {"stopping", "call"} /\ left \in 0..Cap
  BY VerdictIs, RemainingIs, LoopsAre
<1>2. loop' = [loop EXCEPT ![l] = new]
  <2> DEFINE meter == Renewed(loop[l], left)
  <2>1. loop' = [loop EXCEPT ![l] = [meter EXCEPT
          !.reading = 0, !.reserved = 0, !.pc = Verdict(meter.remaining, meter.spent, loop[l].reserved)]]
    BY DEF Renew
  <2> HIDE DEF left
  <2>2. meter.remaining = left /\ meter.spent = 0
    BY LoopsAre DEF Renewed, Meters
  <2>3. [meter EXCEPT !.reading = 0, !.reserved = 0, !.pc = verdict] = new
    <3> HIDE DEF verdict
    <3> QED BY LoopsAre DEF Renewed, Meters
  <2> QED BY <2>1, <2>2, <2>3
<1> HIDE DEF left, verdict
<1>1. new \in Meters /\ new.left = loop[l].left
  BY <1>0, LoopsAre DEF Meters
<1> HIDE DEF new
<1>3. Moves(l, new, calls[l])
  BY <1>1, <1>2, LoopsAre DEF Moves, Renew
<1> QED BY <1>3 DEF Renew, new, left, verdict

LEMMA EndMoves ==
  ASSUME TypeOK, NEW l \in Loops, End(l)
  PROVE  /\ loop[l].pc \in {"closing", "stopping"}
         /\ ledger' = ledger /\ billed' = billed /\ lost' = lost /\ crashes' = crashes
         /\ Moves(l, [loop[l] EXCEPT !.pc = IF loop[l].pc = "closing" THEN "done" ELSE "stopped"], calls[l])
<1> DEFINE new == [loop[l] EXCEPT !.pc = IF loop[l].pc = "closing" THEN "done" ELSE "stopped"]
<1>1. new \in Meters /\ new.left = loop[l].left
  BY LoopsAre DEF Meters
<1>2. loop' = [loop EXCEPT ![l] = new]
  BY LoopsAre DEF End, TypeOK
<1> HIDE DEF new
<1>3. Moves(l, new, calls[l])
  BY <1>1, <1>2, LoopsAre DEF Moves, End
<1> QED BY <1>3 DEF End, new

\* A call starts in a free slot.
LEMMA CallMoves ==
  ASSUME TypeOK, NEW l \in Loops, Call(l), loop[l].left > 0, \E s \in Slots(l) : calls[l][s] = None
  PROVE  /\ loop[l].pc = "call" /\ ledger' = ledger /\ billed' = billed /\ lost' = lost /\ crashes' = crashes
         /\ \E s \in Slots(l) :
              /\ calls[l][s] = None
              /\ Moves(l, [loop[l] EXCEPT !.pc = "next", !.left = loop[l].left - 1],
                       [calls[l] EXCEPT ![s] = [at |-> "asked", first |-> 0, second |-> 0]])
<1> DEFINE free == Slots(l) \ InFlight(l)
           slot == CHOOSE s \in free : \A t \in free : s <= t
           call == [at |-> "asked", first |-> 0, second |-> 0]
           left == loop[l].left - 1
           new == [loop[l] EXCEPT !.pc = "next", !.left = left]
           row == [calls[l] EXCEPT ![slot] = call]
<1>1. slot \in Slots(l) /\ calls[l][slot] = None
  <2>1. free \in SUBSET Nat /\ free # {}
    BY PerPostIs DEF Slots, InFlight
  <2>2. \E q \in free : \A r \in free : q <= r
    BY <2>1, NatHasLeast
  <2>3. slot \in free
    BY <2>2
  <2> QED BY <2>3 DEF InFlight
<1>2. calls' = [calls EXCEPT ![l] = row] /\ loop' = [loop EXCEPT ![l] = new]
  <2>1. calls' = [calls EXCEPT ![l] = [calls[l] EXCEPT ![slot] = call]]
    BY DEF Call
  <2>2. loop' = [loop EXCEPT ![l] = new]
    BY LoopsAre DEF Call, TypeOK
  <2> QED BY <2>1, <2>2
<1> HIDE DEF slot
<1>3. row \in Rows(l)
  <2>1. call \in Calls
    BY DEF Calls
  <2> QED BY <1>1, <2>1, LoopsAre DEF Rows
<1> HIDE DEF row
<1>4. new \in Meters /\ new.left <= Posts[l]
  <2>1. left \in Nat /\ left <= Posts[l]
    BY LoopsAre
  <2> HIDE DEF left
  <2> QED BY <2>1, LoopsAre DEF Meters
<1> HIDE DEF new
<1>5. Moves(l, new, row)
  BY <1>2, <1>3, <1>4 DEF Moves, Call
<1> QED BY <1>1, <1>5 DEF new, left, row, Call

\* The answer of the first model.
LEMMA AnswerMoves ==
  ASSUME TypeOK, NEW l \in Loops, NEW s \in Slots(l), NEW cost \in Prices,
         NEW next \in {"answered", "second"}, Answer(l, s, cost, next)
  PROVE  /\ calls[l][s] # None /\ calls[l][s].at = "asked" /\ (next = "second" => l \in Rescores)
         /\ ledger' = ledger /\ billed' = billed + cost /\ lost' = lost /\ crashes' = crashes
         /\ Moves(l, [loop[l] EXCEPT !.returned = TRUE, !.largest = Higher(loop[l].largest, cost)],
                  [calls[l] EXCEPT ![s] = [calls[l][s] EXCEPT !.at = next, !.first = cost]])
<1> DEFINE call == [calls[l][s] EXCEPT !.at = next, !.first = cost]
           new == [loop[l] EXCEPT !.returned = TRUE, !.largest = Higher(loop[l].largest, cost)]
           row == [calls[l] EXCEPT ![s] = call]
<1>1. calls[l][s] # None /\ calls[l][s] \in Calls /\ cost \in Nat
  BY LoopsAre, DearestIs DEF Answer
<1>2. calls' = [calls EXCEPT ![l] = row] /\ loop' = [loop EXCEPT ![l] = new]
  <2>1. calls' = [calls EXCEPT ![l] = [calls[l] EXCEPT ![s] = call]]
    BY DEF Answer
  <2>2. loop' = [loop EXCEPT ![l] = new]
    BY LoopsAre DEF Answer, TypeOK
  <2> QED BY <2>1, <2>2
<1>3. row \in Rows(l)
  <2>1. call \in Calls
    BY <1>1 DEF Calls
  <2> HIDE DEF call
  <2> QED BY <2>1, LoopsAre DEF Rows
<1> HIDE DEF row
<1>4. new \in Meters /\ new.left <= Posts[l]
  BY <1>1, LoopsAre DEF Meters, Higher
<1> HIDE DEF new
<1>5. Moves(l, new, row)
  BY <1>2, <1>3, <1>4 DEF Moves, Answer
<1> QED BY <1>5 DEF new, row, Answer

\* The answer of the second.
LEMMA AnswerSecondMoves ==
  ASSUME TypeOK, NEW l \in Loops, NEW s \in Slots(l), NEW cost \in Prices, AnswerSecond(l, s, cost)
  PROVE  LET largest == Higher(loop[l].largest, calls[l][s].first + cost) IN
         /\ calls[l][s] # None /\ calls[l][s].at = "second"
         /\ ledger' = ledger /\ billed' = billed + cost /\ lost' = lost /\ crashes' = crashes
         /\ Moves(l, [loop[l] EXCEPT !.largest = largest, !.spent = loop[l].spent + cost,
                                     !.sinceRead = loop[l].sinceRead + 1],
                  [calls[l] EXCEPT ![s] = [calls[l][s] EXCEPT !.at = "rescored", !.second = cost]])
<1> DEFINE call == [calls[l][s] EXCEPT !.at = "rescored", !.second = cost]
           largest == Higher(loop[l].largest, calls[l][s].first + cost)
           spent == loop[l].spent + cost
           sinceRead == loop[l].sinceRead + 1
           new == [loop[l] EXCEPT !.largest = largest, !.spent = spent, !.sinceRead = sinceRead]
           row == [calls[l] EXCEPT ![s] = call]
<1>1. calls[l][s] # None /\ calls[l][s] \in Calls /\ cost \in Nat /\ calls[l][s].first \in Nat
  BY LoopsAre, DearestIs DEF AnswerSecond, Calls
<1>0. largest \in Nat /\ spent \in Nat /\ sinceRead \in Nat
  BY <1>1, LoopsAre DEF Higher
<1>2. calls' = [calls EXCEPT ![l] = row] /\ loop' = [loop EXCEPT ![l] = new]
  <2>1. calls' = [calls EXCEPT ![l] = [calls[l] EXCEPT ![s] = call]]
    BY DEF AnswerSecond
  <2>2. loop' = [loop EXCEPT ![l] = Counted([loop[l] EXCEPT !.largest = largest], cost)]
    BY DEF AnswerSecond, Largest
  <2> HIDE DEF largest
  <2>3. Counted([loop[l] EXCEPT !.largest = largest], cost) = new
    BY LoopsAre DEF Counted, Meters
  <2> QED BY <2>1, <2>2, <2>3
<1> HIDE DEF largest, spent, sinceRead
<1>3. row \in Rows(l)
  <2>1. call \in Calls
    BY <1>1 DEF Calls
  <2> HIDE DEF call
  <2> QED BY <2>1, LoopsAre DEF Rows
<1> HIDE DEF row
<1>4. new \in Meters /\ new.left <= Posts[l]
  BY <1>0, <1>1, LoopsAre DEF Meters
<1> HIDE DEF new
<1>5. Moves(l, new, row)
  BY <1>2, <1>3, <1>4 DEF Moves, AnswerSecond
<1> QED BY <1>5 DEF new, row, largest, spent, sinceRead, AnswerSecond

LEMMA WriteSecondMoves ==
  ASSUME TypeOK, NEW l \in Loops, NEW s \in Slots(l), WriteSecond(l, s)
  PROVE  /\ calls[l][s] # None /\ calls[l][s].at = "rescored"
         /\ ledger' = ledger + calls[l][s].second /\ billed' = billed /\ lost' = lost /\ crashes' = crashes
         /\ Moves(l, loop[l], [calls[l] EXCEPT ![s] = [calls[l][s] EXCEPT !.at = "answered", !.second = 0]])
<1> DEFINE call == [calls[l][s] EXCEPT !.at = "answered", !.second = 0]
           row == [calls[l] EXCEPT ![s] = call]
<1>1. calls[l][s] # None /\ calls[l][s] \in Calls
  BY LoopsAre DEF WriteSecond
<1>2. calls' = [calls EXCEPT ![l] = row] /\ loop' = [loop EXCEPT ![l] = loop[l]]
  <2>1. calls' = [calls EXCEPT ![l] = [calls[l] EXCEPT ![s] = call]]
    BY DEF WriteSecond
  <2>2. loop' = [loop EXCEPT ![l] = loop[l]]
    BY LoopsAre DEF WriteSecond, TypeOK
  <2> QED BY <2>1, <2>2
<1>3. row \in Rows(l)
  <2>1. call \in Calls
    BY <1>1 DEF Calls
  <2> HIDE DEF call
  <2> QED BY <2>1, LoopsAre DEF Rows
<1> HIDE DEF row
<1>5. Moves(l, loop[l], row)
  BY <1>2, <1>3, LoopsAre DEF Moves, WriteSecond
<1> QED BY <1>5 DEF row, WriteSecond

LEMMA CountMoves ==
  ASSUME TypeOK, NEW l \in Loops, NEW s \in Slots(l), Count(l, s)
  PROVE  /\ calls[l][s] # None /\ calls[l][s].at = "answered"
         /\ ledger' = ledger /\ billed' = billed /\ lost' = lost /\ crashes' = crashes
         /\ Moves(l, [loop[l] EXCEPT !.spent = loop[l].spent + calls[l][s].first,
                                     !.sinceRead = loop[l].sinceRead + 1],
                  [calls[l] EXCEPT ![s] = [calls[l][s] EXCEPT !.at = "counted"]])
<1> DEFINE call == [calls[l][s] EXCEPT !.at = "counted"]
           spent == loop[l].spent + calls[l][s].first
           sinceRead == loop[l].sinceRead + 1
           new == [loop[l] EXCEPT !.spent = spent, !.sinceRead = sinceRead]
           row == [calls[l] EXCEPT ![s] = call]
<1>1. calls[l][s] # None /\ calls[l][s] \in Calls /\ calls[l][s].first \in Nat
  BY LoopsAre DEF Count, Calls
<1>2. calls' = [calls EXCEPT ![l] = row] /\ loop' = [loop EXCEPT ![l] = new]
  <2>1. calls' = [calls EXCEPT ![l] = [calls[l] EXCEPT ![s] = call]]
    BY DEF Count
  <2>2. loop' = [loop EXCEPT ![l] = new]
    BY DEF Count, Counted
  <2> QED BY <2>1, <2>2
<1>0. spent \in Nat /\ sinceRead \in Nat
  BY <1>1, LoopsAre
<1> HIDE DEF spent, sinceRead
<1>3. row \in Rows(l)
  <2>1. call \in Calls
    BY <1>1 DEF Calls
  <2> HIDE DEF call
  <2> QED BY <2>1, LoopsAre DEF Rows
<1> HIDE DEF row
<1>4. new \in Meters /\ new.left <= Posts[l]
  BY <1>0, LoopsAre DEF Meters
<1> HIDE DEF new
<1>5. Moves(l, new, row)
  BY <1>2, <1>3, <1>4 DEF Moves, Count
<1> QED BY <1>5 DEF new, row, spent, sinceRead, Count

LEMMA WriteMoves ==
  ASSUME TypeOK, NEW l \in Loops, NEW s \in Slots(l), Write(l, s)
  PROVE  /\ calls[l][s] # None /\ calls[l][s].at = "counted"
         /\ ledger' = ledger + calls[l][s].first /\ billed' = billed /\ lost' = lost /\ crashes' = crashes
         /\ Moves(l, [loop[l] EXCEPT !.pc = IF loop[l].pc = "waiting" THEN "next" ELSE loop[l].pc],
                  [calls[l] EXCEPT ![s] = None])
<1> DEFINE new == [loop[l] EXCEPT !.pc = IF loop[l].pc = "waiting" THEN "next" ELSE loop[l].pc]
           row == [calls[l] EXCEPT ![s] = None]
<1>2. calls' = [calls EXCEPT ![l] = row] /\ loop' = [loop EXCEPT ![l] = new]
  <2>1. calls' = [calls EXCEPT ![l] = [calls[l] EXCEPT ![s] = None]]
    BY DEF Write
  <2>2. loop' = [loop EXCEPT ![l] = new]
    BY LoopsAre DEF Write, TypeOK
  <2> QED BY <2>1, <2>2
<1>3. row \in Rows(l)
  BY LoopsAre DEF Rows
<1> HIDE DEF row
<1>4. new \in Meters /\ new.left <= Posts[l]
  BY LoopsAre DEF Meters
<1> HIDE DEF new
<1>5. Moves(l, new, row)
  BY <1>2, <1>3, <1>4 DEF Moves, Write
<1> QED BY <1>5 DEF new, row, Write

LEMMA CrashMoves ==
  ASSUME TypeOK, NEW l \in Loops, NEW again \in 0..Posts[l], Crash(l, again)
  PROVE  /\ loop[l].pc # "idle" /\ crashes < MaxCrashes[active] /\ crashes' = crashes + 1
         /\ ledger' = ledger /\ billed' = billed /\ lost' = lost + OwedIn(l, calls[l])
         /\ Moves(l, Idle(again), [s \in Slots(l) |-> None])
<1> DEFINE row == [s \in Slots(l) |-> None]
<1>1. again \in Nat /\ again <= Posts[l]
  BY LoopsAre
<1>2. calls' = [calls EXCEPT ![l] = row] /\ loop' = [loop EXCEPT ![l] = Idle(again)]
  BY DEF Crash
<1>3. row \in Rows(l)
  BY DEF Rows
<1> HIDE DEF row
<1>4. Idle(again) \in Meters /\ Idle(again).left <= Posts[l]
  BY <1>1, LoopsAre DEF Meters, Idle
<1>5. Moves(l, Idle(again), row)
  BY <1>2, <1>3, <1>4 DEF Moves, Crash
<1>6. lost' = lost + OwedIn(l, calls[l])
  BY DEF Crash, Unwritten, OwedIn
<1>7. loop[l].pc # "idle" /\ crashes < MaxCrashes[active] /\ crashes' = crashes + 1
      /\ ledger' = ledger /\ billed' = billed
  BY DEF Crash
<1> QED BY <1>5, <1>6, <1>7 DEF row

---------------------------------------------------------------------------
\* The invariant after a move.

LEMMA MovedIs ==
  ASSUME TypeOK, NEW l \in Loops, NEW meter, NEW row, Moves(l, meter, row)
  PROVE  /\ loop'[l] = meter /\ calls'[l] = row
         /\ \A k \in Loops \ {l} : loop'[k] = loop[k] /\ calls'[k] = calls[k]
         /\ loop' \in [Loops -> Meters] /\ \A k \in Loops : loop'[k].left <= Posts[k]
         /\ calls' = [k \in Loops |-> calls'[k]] /\ \A k \in Loops : calls'[k] \in Rows(k)
<1>1. loop \in [Loops -> Meters] /\ calls = [k \in Loops |-> calls[k]] /\ \A k \in Loops : calls[k] \in Rows(k)
  BY DEF TypeOK, Rows
<1>2. meter \in Meters /\ row \in Rows(l) /\ meter.left <= Posts[l]
      /\ loop' = [loop EXCEPT ![l] = meter] /\ calls' = [calls EXCEPT ![l] = row]
  BY DEF Moves
<1>3. loop'[l] = meter /\ \A k \in Loops \ {l} : loop'[k] = loop[k]
  BY <1>1, <1>2
<1>4. DOMAIN calls = Loops
  <2> DEFINE f == [k \in Loops |-> calls[k]]
  <2>1. DOMAIN f = Loops
    OBVIOUS
  <2>2. calls = f
    BY <1>1
  <2> HIDE DEF f
  <2> QED BY <2>1, <2>2
<1>5. calls'[l] = row /\ \A k \in Loops \ {l} : calls'[k] = calls[k]
  BY <1>2, <1>4
<1>6. calls' = [k \in Loops |-> calls'[k]]
  BY <1>2, <1>4
<1>7. \A k \in Loops : calls'[k] \in Rows(k)
  BY <1>1, <1>2, <1>5
<1>8. loop' \in [Loops -> Meters]
  BY <1>1, <1>2
<1>9. \A k \in Loops : loop'[k].left <= Posts[k]
  BY <1>2, <1>3 DEF TypeOK
<1> QED BY <1>3, <1>5, <1>6, <1>7, <1>8, <1>9

LEMMA TypeMoved ==
  ASSUME TypeOK, NEW l \in Loops, NEW meter, NEW row, Moves(l, meter, row),
         ledger' \in Nat, billed' \in Nat, lost' \in Nat, crashes' \in 0..MaxCrashes[active]
  PROVE  TypeOK'
<1>1. active' = active /\ active \in Together
  BY DEF Moves, TypeOK
<1>2. \A k \in Loops : calls'[k] \in [Slots(k) -> Calls \cup {None}]
  BY MovedIs DEF Rows
<1>3. loop' \in [Loops -> Meters] /\ (\A k \in Loops : loop'[k].left <= Posts[k])
      /\ calls' = [k \in Loops |-> calls'[k]]
  BY MovedIs
<1> QED BY <1>1, <1>2, <1>3 DEF TypeOK, Slots

\* What the loops owe changes by what the loop that moves does.
LEMMA BooksMoved ==
  ASSUME TypeOK, Books, NEW l \in Loops, NEW meter, NEW row, Moves(l, meter, row),
         NEW paid \in Nat, NEW filed \in Nat, NEW gone \in Nat,
         billed' = billed + paid, ledger' = ledger + filed, lost' = lost + gone,
         paid + OwedIn(l, calls[l]) = filed + gone + OwedIn(l, row)
  PROVE  Books'
<1> DEFINE v == [k \in Loops |-> OwedIn(k, calls[k])]
           w == [k \in Loops |-> OwedIn(k, calls'[k])]
<1>1. v \in [Loops -> Nat] /\ w \in [Loops -> Nat]
  <2>1. \A k \in Loops : calls[k] \in Rows(k) /\ calls'[k] \in Rows(k)
    BY LoopsAre, MovedIs
  <2>2. \A k \in Loops : OwedIn(k, calls[k]) \in Nat /\ OwedIn(k, calls'[k]) \in Nat
    BY <2>1, RowSums
  <2> QED BY <2>2
<1>2. v[l] = OwedIn(l, calls[l]) /\ w[l] = OwedIn(l, row) /\ \A k \in Loops \ {l} : w[k] = v[k]
  BY MovedIs
<1>3. billed = ledger + lost + SumFunction(v)
  BY DEF Books
<1>4. Books' <=> billed' = ledger' + lost' + SumFunction(w)
  BY DEF Books, OwedIn, Slots
<1> HIDE DEF v, w
<1>5. SumFunction(w) = SumFunction(v) - v[l] + w[l] /\ SumFunction(v) \in Nat
  BY <1>1, <1>2, MeterAssumption, SumChange, SumType
<1>6. ledger \in Nat /\ lost \in Nat /\ v[l] \in Nat /\ w[l] \in Nat
  BY <1>1, LoopsAre
<1>7. billed' = ledger' + lost' + SumFunction(w)
  BY <1>2, <1>3, <1>5, <1>6
<1> QED BY <1>4, <1>7

\* Another loop stays sound when more is billed.
LEMMA SoundElsewhere ==
  ASSUME NEW k \in Loops, NEW meter, NEW row, NEW paid \in Nat, NEW more \in Nat, paid <= more,
         Sound(k, meter, row, paid), meter \in Meters, row \in Rows(k)
  PROVE  Sound(k, meter, row, more)
<1>1. /\ meter.remaining \in 0..Cap /\ meter.spent \in Nat /\ meter.reading \in Nat
      /\ UncountedIn(k, row) \in Nat /\ Cap \in Nat /\ (Width[k] - 1) * PerPost(k) \in Nat
  BY RowSums, PerPostIs, MeterAssumption DEF Meters
<1> DEFINE gap == (Width[k] - 1) * PerPost(k)
           sum == UncountedIn(k, row)
<1>2. Spends(k, meter, row, more) <=>
        /\ meter.pc # "idle" => Cap - meter.remaining + meter.spent + sum <= more
        /\ meter.pc = "read" => meter.reading + sum <= more
        /\ meter.pc \in {"stopping", "stopped"} => Cap <= more + gap
  BY DEF Spends
<1>3. /\ meter.pc # "idle" => Cap - meter.remaining + meter.spent + sum <= paid
      /\ meter.pc = "read" => meter.reading + sum <= paid
      /\ meter.pc \in {"stopping", "stopped"} => Cap <= paid + gap
  BY DEF Sound, Spends
<1>4. gap \in Nat /\ sum \in Nat
  BY <1>1
<1> HIDE DEF gap, sum
<1>5. Spends(k, meter, row, more)
  BY <1>1, <1>2, <1>3, <1>4
<1> QED BY <1>5 DEF Sound

LEMMA Moved ==
  ASSUME Inv, NEW l \in Loops, NEW meter, NEW row, Moves(l, meter, row),
         NEW paid \in Nat, NEW filed \in Nat, NEW gone \in Nat,
         billed' = billed + paid, ledger' = ledger + filed, lost' = lost + gone,
         paid + OwedIn(l, calls[l]) = filed + gone + OwedIn(l, row),
         crashes' \in 0..MaxCrashes[active],
         Sound(l, meter, row, billed + paid)
  PROVE  Inv'
<1>1. ledger \in Nat /\ billed \in Nat /\ lost \in Nat /\ TypeOK /\ Books
  BY LoopsAre DEF Inv
<1>2. ledger' \in Nat /\ billed' \in Nat /\ lost' \in Nat /\ billed <= billed'
  BY <1>1
<1>3. TypeOK' /\ Books'
  BY <1>1, <1>2, TypeMoved, BooksMoved
<1>4. ASSUME NEW k \in Loops PROVE Sound(k, loop'[k], calls'[k], billed')
  <2>1. CASE k = l
    BY <1>1, <2>1, MovedIs
  <2>2. CASE k # l
    <3>1. loop'[k] = loop[k] /\ calls'[k] = calls[k] /\ loop[k] \in Meters /\ calls[k] \in Rows(k)
      BY <1>1, <2>2, MovedIs, LoopsAre
    <3>2. Sound(k, loop[k], calls[k], billed)
      BY DEF Inv
    <3> QED BY <1>1, <1>2, <3>1, <3>2, SoundElsewhere
  <2> QED BY <2>1, <2>2
<1>5. active' = active
  BY DEF Moves
<1>6. \A k \in Loops : Sound(k, loop[k], calls[k], billed)'
  BY <1>4, <1>5 DEF Sound, Placed, CallSound, Spends, UncountedIn, Slots
<1> QED BY <1>3, <1>6 DEF Inv

---------------------------------------------------------------------------
\* The invariant over the loop's own actions.

\* What is owed by one loop is billed and not in the ledger.
LEMMA LedgerBehind ==
  ASSUME Inv, NEW l \in Loops
  PROVE  ledger + OwedIn(l, calls[l]) + lost <= billed
<1> DEFINE v == [k \in Loops |-> OwedIn(k, calls[k])]
<1>0. TypeOK
  BY DEF Inv
<1>1. v \in [Loops -> Nat]
  <2>1. \A k \in Loops : OwedIn(k, calls[k]) \in Nat
    BY <1>0, LoopsAre, RowSums
  <2> QED BY <2>1
<1>2. v[l] = OwedIn(l, calls[l]) /\ billed = ledger + lost + SumFunction(v)
  BY DEF Inv, Books
<1> HIDE DEF v
<1>3. v[l] <= SumFunction(v) /\ SumFunction(v) \in Nat /\ v[l] \in Nat
  BY <1>1, MeterAssumption, SumAtLeast, SumType
<1> QED BY <1>0, <1>2, <1>3, LoopsAre

\* The invariant of one loop, with its numbers.
LEMMA SoundIs ==
  ASSUME Inv, NEW l \in Loops
  PROVE  /\ TypeOK /\ Sound(l, loop[l], calls[l], billed)
         /\ UncountedIn(l, calls[l]) \in Nat /\ OwedIn(l, calls[l]) \in Nat
         /\ UncountedIn(l, calls[l]) <= OwedIn(l, calls[l])
         /\ (Width[l] - 1) * PerPost(l) \in Nat /\ PerPost(l) \in Nat
         /\ loop[l].pc = "idle" => UncountedIn(l, calls[l]) = 0
<1>1. TypeOK /\ Sound(l, loop[l], calls[l], billed)
  BY DEF Inv
<1>2. calls[l] \in Rows(l)
  BY <1>1, LoopsAre
<1> QED BY <1>1, <1>2, RowSums, PerPostIs DEF Sound, Placed

LEMMA CrashesAre == TypeOK /\ crashes' = crashes => crashes' \in 0..MaxCrashes[active]
BY DEF TypeOK

\* A move of the loop alone: nothing is billed, filed or lost.
LEMMA MovedAlone ==
  ASSUME Inv, NEW l \in Loops, NEW meter, Moves(l, meter, calls[l]),
         ledger' = ledger, billed' = billed, lost' = lost, crashes' = crashes,
         meter.largest = loop[l].largest, Placed(l, meter, calls[l]), Spends(l, meter, calls[l], billed)
  PROVE  Inv'
<1>1. \A s \in Slots(l) : CallSound(l, meter.largest, calls[l][s])
  BY SoundIs DEF Sound
<1>2. TypeOK
  BY SoundIs
<1>3. billed' = billed + 0 /\ ledger' = ledger + 0 /\ lost' = lost + 0 /\ billed = billed + 0
      /\ 0 + OwedIn(l, calls[l]) = 0 + 0 + OwedIn(l, calls[l])
  BY <1>2, LoopsAre, SoundIs
<1>4. Sound(l, meter, calls[l], billed + 0)
  BY <1>1, <1>3 DEF Sound
<1> QED BY <1>2, <1>3, <1>4, CrashesAre, Moved

LEMMA BeginKeeps == ASSUME Inv, NEW l \in Loops, Begin(l) PROVE Inv'
<1> DEFINE left == Remaining(ledger)
           new == [loop[l] EXCEPT !.pc = "next", !.remaining = left]
<1>1. TypeOK
  BY SoundIs
<1>2. Moves(l, new, calls[l])
  BY <1>1, BeginMoves
<1>3. left \in 0..Cap /\ Cap - left <= ledger
  BY <1>1, LoopsAre, RemainingIs
<1>4. loop[l].spent = 0 /\ l \in active /\ loop[l].pc = "idle" /\ UncountedIn(l, calls[l]) = 0
      /\ ledger <= billed
  <2>1. loop[l].pc = "idle" /\ l \in active
    BY <1>1, BeginMoves
  <2>2. ledger <= billed
    BY <1>1, LedgerBehind, SoundIs, LoopsAre
  <2> QED BY <2>1, <2>2, SoundIs DEF Sound, Placed
<1>5. new.pc = "next" /\ new.remaining = left /\ new.spent = loop[l].spent
      /\ new.largest = loop[l].largest /\ new.reserved = loop[l].reserved
  BY <1>1, LoopsAre DEF Meters
<1> HIDE DEF new, left
<1>6. Placed(l, new, calls[l])
  BY <1>4, <1>5, SoundIs DEF Sound, Placed
<1>7. Spends(l, new, calls[l], billed)
  BY <1>1, <1>3, <1>4, <1>5, LoopsAre DEF Spends
<1> QED BY <1>1, <1>2, <1>5, <1>6, <1>7, BeginMoves, MovedAlone

\* A move that changes the place of a loop that is at work.
LEMMA PlaceKeeps ==
  ASSUME Inv, NEW l \in Loops, NEW pc \in {"closing", "waiting", "next", "done"},
         loop[l].pc # "idle", Moves(l, [loop[l] EXCEPT !.pc = pc], calls[l]),
         ledger' = ledger, billed' = billed, lost' = lost, crashes' = crashes
  PROVE  Inv'
<1> DEFINE new == [loop[l] EXCEPT !.pc = pc]
<1>1. /\ new.pc = pc /\ new.remaining = loop[l].remaining /\ new.spent = loop[l].spent
      /\ new.largest = loop[l].largest /\ new.reserved = loop[l].reserved
  BY SoundIs, LoopsAre DEF Meters
<1>2. Moves(l, new, calls[l])
  OBVIOUS
<1> HIDE DEF new
<1>3. Placed(l, new, calls[l]) /\ Spends(l, new, calls[l], billed)
  BY <1>1, SoundIs DEF Sound, Placed, Spends
<1> QED BY <1>1, <1>2, <1>3, MovedAlone

\* The meter says whether the loop may go on: what it believes was spent was.
LEMMA VerdictKeeps ==
  ASSUME Inv, NEW l \in Loops, NEW meter, NEW reserved \in Nat,
         loop[l].pc # "idle", Moves(l, meter, calls[l]),
         ledger' = ledger, billed' = billed, lost' = lost, crashes' = crashes,
         meter.largest = loop[l].largest, meter.reserved = 0,
         meter.pc = Verdict(meter.remaining, meter.spent, reserved),
         reserved <= (Width[l] - 1) * PerPost(l), meter.left > 0,
         \E s \in Slots(l) : calls[l][s] = None,
         Cap - meter.remaining + meter.spent + UncountedIn(l, calls[l]) <= billed
  PROVE  Inv'
<1>1. /\ meter.remaining \in 0..Cap /\ meter.spent \in Nat /\ Cap \in Nat /\ billed \in Nat
      /\ UncountedIn(l, calls[l]) \in Nat /\ (Width[l] - 1) * PerPost(l) \in Nat
  BY SoundIs, LoopsAre DEF Moves, Meters
<1>2. meter.pc \in {"stopping", "call"}
  BY VerdictIs
<1>3. Placed(l, meter, calls[l])
  BY <1>1, <1>2, SoundIs DEF Sound, Placed
<1>4. meter.pc = "stopping" => Cap <= billed + (Width[l] - 1) * PerPost(l)
  <2> SUFFICES ASSUME Exhausted(meter.remaining, meter.spent, reserved)
               PROVE  Cap <= billed + (Width[l] - 1) * PerPost(l)
    BY VerdictIs
  <2> DEFINE gap == (Width[l] - 1) * PerPost(l)
             sum == UncountedIn(l, calls[l])
  <2>1. gap \in Nat /\ sum \in Nat /\ reserved <= gap
        /\ Cap - meter.remaining + meter.spent + sum <= billed
    BY <1>1
  <2> HIDE DEF gap, sum
  <2>2. meter.remaining = 0 \/ meter.spent + reserved >= meter.remaining
    BY DEF Exhausted
  <2>3. Cap <= billed + gap
    BY <1>1, <2>1, <2>2
  <2> QED BY <2>3 DEF gap
<1>5. Spends(l, meter, calls[l], billed)
  BY <1>2, <1>4 DEF Spends
<1> QED BY <1>3, <1>5, MovedAlone

LEMMA AskKeeps == ASSUME Inv, NEW l \in Loops, Ask(l) PROVE Inv'
<1>1. /\ TypeOK /\ loop[l].pc = "next" /\ loop[l].left > 0 /\ Cardinality(InFlight(l)) < Width[l]
      /\ ledger' = ledger /\ billed' = billed /\ lost' = lost /\ crashes' = crashes
  BY SoundIs, AskMoves
<1>2. /\ \E s \in Slots(l) : calls[l][s] = None
      /\ Reserved(l) \in Nat /\ Reserved(l) <= (Width[l] - 1) * PerPost(l)
  BY <1>1, FlightIs, SoundIs DEF Sound, Placed
<1>3. CASE Moves(l, [loop[l] EXCEPT !.pc = "reading", !.reserved = Reserved(l)], calls[l])
  <2> DEFINE new == [loop[l] EXCEPT !.pc = "reading", !.reserved = Reserved(l)]
  <2>1. /\ new.pc = "reading" /\ new.remaining = loop[l].remaining /\ new.spent = loop[l].spent
        /\ new.largest = loop[l].largest /\ new.reserved = Reserved(l) /\ new.left = loop[l].left
    BY <1>1, LoopsAre DEF Meters
  <2> HIDE DEF new
  <2>2. Placed(l, new, calls[l]) /\ Spends(l, new, calls[l], billed)
    BY <1>1, <1>2, <2>1, SoundIs DEF Sound, Placed, Spends
  <2> QED BY <1>1, <1>3, <2>1, <2>2, MovedAlone DEF new
<1>4. CASE Moves(l, [loop[l] EXCEPT
             !.pc = Verdict(loop[l].remaining, loop[l].spent, Reserved(l)), !.reserved = 0], calls[l])
  <2> DEFINE verdict == Verdict(loop[l].remaining, loop[l].spent, Reserved(l))
             new == [loop[l] EXCEPT !.pc = verdict, !.reserved = 0]
  <2>0. Moves(l, new, calls[l])
    BY <1>4
  <2> HIDE DEF verdict
  <2>1. /\ new.pc = verdict /\ new.remaining = loop[l].remaining /\ new.spent = loop[l].spent
        /\ new.largest = loop[l].largest /\ new.reserved = 0 /\ new.left = loop[l].left
    BY <1>1, LoopsAre DEF Meters
  <2> HIDE DEF new
  <2>2. Cap - new.remaining + new.spent + UncountedIn(l, calls[l]) <= billed
    BY <1>1, <2>1, SoundIs DEF Sound, Spends
  <2>3. new.pc = Verdict(new.remaining, new.spent, Reserved(l))
    BY <2>1 DEF verdict
  <2> QED BY <1>1, <1>2, <2>0, <2>1, <2>2, <2>3, VerdictKeeps
<1> QED BY <1>1, <1>3, <1>4, AskMoves

LEMMA ReadKeeps == ASSUME Inv, NEW l \in Loops, Read(l) PROVE Inv'
<1> DEFINE new == [loop[l] EXCEPT !.pc = "read", !.reading = ledger]
<1>1. TypeOK /\ Moves(l, new, calls[l]) /\ loop[l].pc = "reading"
      /\ ledger' = ledger /\ billed' = billed /\ lost' = lost /\ crashes' = crashes
  BY SoundIs, ReadMoves
<1>2. /\ new.pc = "read" /\ new.remaining = loop[l].remaining /\ new.spent = loop[l].spent
      /\ new.largest = loop[l].largest /\ new.reserved = loop[l].reserved /\ new.left = loop[l].left
      /\ new.reading = ledger
  BY <1>1, LoopsAre DEF Meters
<1> HIDE DEF new
<1>3. Placed(l, new, calls[l])
  BY <1>1, <1>2, SoundIs DEF Sound, Placed
<1>4. ledger + UncountedIn(l, calls[l]) <= billed
  BY <1>1, LedgerBehind, SoundIs, LoopsAre
<1>5. Spends(l, new, calls[l], billed)
  BY <1>1, <1>2, <1>4, SoundIs DEF Sound, Spends
<1> QED BY <1>1, <1>2, <1>3, <1>5, MovedAlone

LEMMA RenewKeeps == ASSUME Inv, NEW l \in Loops, Renew(l) PROVE Inv'
<1> DEFINE left == Remaining(loop[l].reading)
           verdict == Verdict(left, 0, loop[l].reserved)
           new == [loop[l] EXCEPT !.remaining = left, !.sinceRead = 0, !.spent = 0,
                                  !.reading = 0, !.reserved = 0, !.pc = verdict]
<1>1. TypeOK /\ Moves(l, new, calls[l]) /\ loop[l].pc = "read"
      /\ ledger' = ledger /\ billed' = billed /\ lost' = lost /\ crashes' = crashes
  BY SoundIs, RenewMoves
<1>2. left \in 0..Cap /\ Cap - left <= loop[l].reading
  BY <1>1, LoopsAre, RemainingIs
<1>3. /\ new.pc = verdict /\ new.remaining = left /\ new.spent = 0
      /\ new.largest = loop[l].largest /\ new.reserved = 0 /\ new.left = loop[l].left
  <2> HIDE DEF left, verdict
  <2> QED BY <1>1, LoopsAre DEF Meters
<1>4. new.pc = Verdict(new.remaining, new.spent, loop[l].reserved)
  <2> HIDE DEF new, left
  <2> QED BY <1>3
<1> HIDE DEF new, left, verdict
<1>5. Cap - left + 0 + UncountedIn(l, calls[l]) <= billed
  <2>1. loop[l].reading + UncountedIn(l, calls[l]) <= billed
    BY <1>1, SoundIs DEF Sound, Spends
  <2> QED BY <1>1, <1>2, <2>1, SoundIs, LoopsAre
<1>6. /\ new.left > 0 /\ \E s \in Slots(l) : calls[l][s] = None
      /\ loop[l].reserved \in Nat /\ loop[l].reserved <= (Width[l] - 1) * PerPost(l)
  BY <1>1, <1>3, SoundIs, LoopsAre DEF Sound, Placed
<1> QED BY <1>1, <1>3, <1>4, <1>5, <1>6, VerdictKeeps

LEMMA EndKeeps == ASSUME Inv, NEW l \in Loops, End(l) PROVE Inv'
<1> DEFINE pc == IF loop[l].pc = "closing" THEN "done" ELSE "stopped"
           new == [loop[l] EXCEPT !.pc = pc]
<1>1. TypeOK /\ Moves(l, new, calls[l]) /\ loop[l].pc \in {"closing", "stopping"}
      /\ ledger' = ledger /\ billed' = billed /\ lost' = lost /\ crashes' = crashes
  BY SoundIs, EndMoves
<1>2. /\ new.pc = pc /\ new.remaining = loop[l].remaining /\ new.spent = loop[l].spent
      /\ new.largest = loop[l].largest /\ new.reserved = loop[l].reserved /\ new.left = loop[l].left
  BY <1>1, LoopsAre DEF Meters
<1> HIDE DEF new
<1>3. Placed(l, new, calls[l]) /\ Spends(l, new, calls[l], billed)
  BY <1>1, <1>2, SoundIs DEF Sound, Placed, Spends
<1> QED BY <1>1, <1>2, <1>3, MovedAlone

LEMMA CallKeeps == ASSUME Inv, NEW l \in Loops, Call(l) PROVE Inv'
<1> DEFINE left == loop[l].left - 1
           new == [loop[l] EXCEPT !.pc = "next", !.left = left]
           call == [at |-> "asked", first |-> 0, second |-> 0]
<1>1. TypeOK /\ loop[l].pc = "call"
  BY SoundIs DEF Call
<1>2. loop[l].left > 0 /\ \E s \in Slots(l) : calls[l][s] = None
  BY <1>1, SoundIs DEF Sound, Placed
<1>3. ledger' = ledger /\ billed' = billed /\ lost' = lost /\ crashes' = crashes
  BY <1>1, <1>2, CallMoves
<1>4. PICK s \in Slots(l) : calls[l][s] = None /\ Moves(l, new, [calls[l] EXCEPT ![s] = call])
  BY <1>1, <1>2, CallMoves
<1> DEFINE row == [calls[l] EXCEPT ![s] = call]
<1>5. call \in Calls /\ Owed(call) = 0 /\ Uncounted(call) = 0 /\ Owed(None) = 0 /\ Uncounted(None) = 0
      /\ CallSound(l, loop[l].largest, call)
  <2>1. call \in Calls /\ call # None
    BY MeterAssumption DEF Calls
  <2> QED BY <2>1, <1>1, LoopsAre, DearestIs DEF Owed, Uncounted, CallSound
<1>6. OwedIn(l, row) = OwedIn(l, calls[l]) /\ UncountedIn(l, row) = UncountedIn(l, calls[l])
  <2> HIDE DEF call
  <2>1. /\ OwedIn(l, row) = OwedIn(l, calls[l]) - Owed(None) + Owed(call)
        /\ UncountedIn(l, row) = UncountedIn(l, calls[l]) - Uncounted(None) + Uncounted(call)
    BY <1>1, <1>4, <1>5, LoopsAre, OneSlot
  <2> QED BY <1>5, <2>1, SoundIs
<1>7. /\ new.pc = "next" /\ new.remaining = loop[l].remaining /\ new.spent = loop[l].spent
      /\ new.largest = loop[l].largest /\ new.reserved = loop[l].reserved
  <2> HIDE DEF left
  <2> QED BY <1>1, LoopsAre DEF Meters
<1>8. \A t \in Slots(l) : CallSound(l, loop[l].largest, row[t])
  <2>1. \A t \in Slots(l) : CallSound(l, loop[l].largest, calls[l][t])
    BY SoundIs DEF Sound
  <2>2. \A t \in Slots(l) : row[t] = IF t = s THEN call ELSE calls[l][t]
    BY <1>1, LoopsAre DEF Rows
  <2> HIDE DEF row, call
  <2> QED BY <1>5, <2>1, <2>2
<1> HIDE DEF new, row, call
<1>9. Placed(l, new, row) /\ Spends(l, new, row, billed)
  BY <1>1, <1>6, <1>7, SoundIs DEF Sound, Placed, Spends
<1>10. Sound(l, new, row, billed)
  BY <1>7, <1>8, <1>9 DEF Sound
<1>11. billed' = billed + 0 /\ ledger' = ledger + 0 /\ lost' = lost + 0 /\ billed = billed + 0
       /\ 0 + OwedIn(l, calls[l]) = 0 + 0 + OwedIn(l, row)
  BY <1>1, <1>3, <1>6, LoopsAre, SoundIs
<1>12. Sound(l, new, row, billed + 0)
  BY <1>10, <1>11
<1>13. Moves(l, new, row)
  BY <1>4 DEF row
<1> QED BY <1>1, <1>3, <1>11, <1>12, <1>13, CrashesAre, Moved

---------------------------------------------------------------------------
\* The invariant over the steps of a call in flight.

\* What holds of a call holds when a dearer one was seen.
LEMMA DearerKeeps ==
  ASSUME NEW l \in Loops, NEW call \in Calls \cup {None}, NEW largest \in Nat, NEW more \in Nat,
         largest <= more, CallSound(l, largest, call)
  PROVE  CallSound(l, more, call)
<1>1. call # None => call.first \in Nat /\ call.second \in Nat
  BY DEF Calls
<1> QED BY <1>1 DEF CallSound

\* A step on one call in flight: the call it leaves, the meter with it, what the provider
\* billed and what the ledger took.
SlotMoves(l, s, meter, call, paid, filed) ==
  /\ calls[l][s] # None /\ call \in Calls \cup {None}
  /\ Moves(l, meter, [calls[l] EXCEPT ![s] = call])
  /\ paid \in Nat /\ filed \in Nat
  /\ billed' = billed + paid /\ ledger' = ledger + filed /\ lost' = lost /\ crashes' = crashes
  /\ paid + Owed(calls[l][s]) = filed + Owed(call)
  /\ meter.pc = loop[l].pc \/ (loop[l].pc = "waiting" /\ meter.pc = "next")
  /\ meter.left = loop[l].left /\ meter.remaining = loop[l].remaining
  /\ meter.reserved = loop[l].reserved /\ meter.reading = loop[l].reading
  /\ loop[l].largest <= meter.largest /\ meter.largest <= PerPost(l)
  /\ CallSound(l, meter.largest, call)
  /\ meter.spent + Uncounted(call) <= loop[l].spent + paid + Uncounted(calls[l][s])
  /\ Uncounted(call) <= paid + Uncounted(calls[l][s])

\* A call in flight changes, and the meter with it: what leaves the part that is not
\* counted is billed, or goes into the estimate.
LEMMA SlotMoved ==
  ASSUME Inv, NEW l \in Loops, NEW s \in Slots(l),
         NEW meter, NEW call, NEW paid, NEW filed, SlotMoves(l, s, meter, call, paid, filed)
  PROVE  Inv'
<1> USE DEF SlotMoves
<1> DEFINE old == calls[l][s]
           row == [calls[l] EXCEPT ![s] = call]
<1>1. /\ TypeOK /\ calls[l] \in Rows(l) /\ old \in Calls \cup {None}
      /\ meter \in Meters /\ row \in Rows(l) /\ meter.largest \in Nat /\ meter.spent \in Nat
      /\ loop[l].largest \in Nat
  BY SoundIs, LoopsAre DEF Moves, Meters
<1>2. /\ OwedIn(l, row) = OwedIn(l, calls[l]) - Owed(old) + Owed(call)
      /\ UncountedIn(l, row) = UncountedIn(l, calls[l]) - Uncounted(old) + Uncounted(call)
  BY <1>1, OneSlot
<1>3. /\ Owed(old) \in Nat /\ Owed(call) \in Nat /\ Uncounted(old) \in Nat /\ Uncounted(call) \in Nat
      /\ OwedIn(l, calls[l]) \in Nat /\ UncountedIn(l, calls[l]) \in Nat
      /\ OwedIn(l, row) \in Nat /\ UncountedIn(l, row) \in Nat
  BY <1>1, CallCosts, RowSums
<1>4. loop[l].pc # "idle" /\ meter.pc # "idle" /\ l \in active
  <2>1. calls[l] # [t \in Slots(l) |-> None]
    BY DEF Slots
  <2> QED BY <2>1, SoundIs DEF Sound, Placed
<1>5. \A t \in Slots(l) : row[t] = IF t = s THEN call ELSE calls[l][t]
  BY <1>1 DEF Rows
<1> HIDE DEF row
<1>6. \A t \in Slots(l) : CallSound(l, meter.largest, row[t])
  <2> TAKE t \in Slots(l)
  <2>1. CASE t = s
    BY <1>5, <2>1
  <2>2. CASE t # s
    <3>1. CallSound(l, loop[l].largest, calls[l][t]) /\ calls[l][t] \in Calls \cup {None}
      BY SoundIs, LoopsAre DEF Sound
    <3> QED BY <1>1, <1>5, <2>2, <3>1, DearerKeeps
  <2> QED BY <2>1, <2>2
<1>7. Placed(l, meter, row)
  <2>1. (\E t \in Slots(l) : calls[l][t] = None) => \E t \in Slots(l) : row[t] = None
    BY <1>5
  <2> QED BY <1>4, <2>1, SoundIs DEF Sound, Placed
<1>8. Spends(l, meter, row, billed + paid)
  <2> DEFINE gap == (Width[l] - 1) * PerPost(l)
             sum == UncountedIn(l, calls[l])
             new == UncountedIn(l, row)
             a == Uncounted(old)
             b == Uncounted(call)
  <2>1. /\ loop[l].pc # "idle" => Cap - loop[l].remaining + loop[l].spent + sum <= billed
        /\ loop[l].pc = "read" => loop[l].reading + sum <= billed
        /\ loop[l].pc \in {"stopping", "stopped"} => Cap <= billed + gap
    BY SoundIs DEF Sound, Spends
  <2>2. /\ new = sum - a + b /\ sum \in Nat /\ a \in Nat /\ b \in Nat /\ new \in Nat /\ gap \in Nat
        /\ meter.spent + b <= loop[l].spent + paid + a /\ b <= paid + a
    BY <1>2, <1>3, SoundIs
  <2>3. /\ billed \in Nat /\ Cap \in Nat /\ loop[l].remaining \in Nat /\ loop[l].spent \in Nat
        /\ loop[l].reading \in Nat
    BY <1>1, LoopsAre
  <2>4. Spends(l, meter, row, billed + paid) <=>
          /\ meter.pc # "idle" => Cap - meter.remaining + meter.spent + new <= billed + paid
          /\ meter.pc = "read" => meter.reading + new <= billed + paid
          /\ meter.pc \in {"stopping", "stopped"} => Cap <= billed + paid + gap
    BY DEF Spends
  <2> HIDE DEF gap, sum, new, a, b
  <2>5. Cap - meter.remaining + meter.spent + new <= billed + paid
    BY <1>1, <1>4, <2>1, <2>2, <2>3
  <2>6. meter.pc = "read" => meter.reading + new <= billed + paid
    BY <2>1, <2>2, <2>3
  <2>7. meter.pc \in {"stopping", "stopped"} => Cap <= billed + paid + gap
    BY <2>1, <2>2, <2>3
  <2> QED BY <2>4, <2>5, <2>6, <2>7
<1>9. Sound(l, meter, row, billed + paid)
  BY <1>6, <1>7, <1>8 DEF Sound
<1>10. lost' = lost + 0 /\ paid + OwedIn(l, calls[l]) = filed + 0 + OwedIn(l, row)
  <2>1. lost' = lost + 0
    BY <1>1, LoopsAre
  <2> DEFINE sum == OwedIn(l, calls[l])
             new == OwedIn(l, row)
             a == Owed(old)
             b == Owed(call)
  <2>2. new = sum - a + b /\ sum \in Nat /\ a \in Nat /\ b \in Nat /\ paid + a = filed + b
    BY <1>2, <1>3
  <2> HIDE DEF sum, new, a, b
  <2>3. paid + sum = filed + 0 + new
    BY <2>2
  <2> QED BY <2>1, <2>3 DEF sum, new
<1>11. Moves(l, meter, row)
  BY DEF row
<1> QED BY <1>1, <1>9, <1>10, <1>11, CrashesAre, Moved

\* The fields of a call in flight, and what the invariant says of them.
LEMMA CallIs ==
  ASSUME Inv, NEW l \in Loops, NEW s \in Slots(l), calls[l][s] # None
  PROVE  /\ calls[l][s] \in Calls /\ calls[l][s].first \in Nat /\ calls[l][s].second \in Nat
         /\ CallSound(l, loop[l].largest, calls[l][s])
         /\ loop[l].largest \in Nat /\ loop[l].largest <= PerPost(l) /\ TypeOK
         /\ None \notin Calls
<1>1. calls[l][s] \in Calls
  BY SoundIs, LoopsAre
<1>2. calls[l][s].first \in Nat /\ calls[l][s].second \in Nat
  BY <1>1 DEF Calls
<1>3. CallSound(l, loop[l].largest, calls[l][s]) /\ loop[l].largest <= PerPost(l)
  BY SoundIs DEF Sound, Placed
<1> QED BY <1>1, <1>2, <1>3, SoundIs, LoopsAre, MeterAssumption

LEMMA AnswerKeeps ==
  ASSUME Inv, NEW l \in Loops, NEW s \in Slots(l), NEW cost \in Prices,
         NEW next \in {"answered", "second"}, Answer(l, s, cost, next)
  PROVE  Inv'
<1> DEFINE largest == Higher(loop[l].largest, cost)
           call == [calls[l][s] EXCEPT !.at = next, !.first = cost]
           new == [loop[l] EXCEPT !.returned = TRUE, !.largest = largest]
<1>1. /\ TypeOK /\ calls[l][s] # None /\ calls[l][s].at = "asked" /\ (next = "second" => l \in Rescores)
      /\ ledger' = ledger /\ billed' = billed + cost /\ lost' = lost /\ crashes' = crashes
      /\ Moves(l, new, [calls[l] EXCEPT ![s] = call])
  BY SoundIs, AnswerMoves
<1>2. cost \in Nat /\ cost <= Dearest /\ cost <= PerPost(l) /\ Dearest \in Nat
  BY DearestIs, PerPostIs
<1>3. /\ largest \in Nat /\ loop[l].largest <= largest /\ cost <= largest /\ largest <= PerPost(l)
  BY <1>1, <1>2, CallIs, PerPostIs DEF Higher
<1>4. calls[l][s].first = 0 /\ calls[l][s].second = 0
  BY <1>1, CallIs DEF CallSound
<1>5. call \in Calls /\ call.at = next /\ call.first = cost /\ call.second = 0
  BY <1>1, <1>2, <1>4, CallIs DEF Calls
<1> HIDE DEF largest
<1>6. /\ new.pc = loop[l].pc /\ new.left = loop[l].left /\ new.remaining = loop[l].remaining
      /\ new.reserved = loop[l].reserved /\ new.reading = loop[l].reading
      /\ new.largest = largest /\ new.spent = loop[l].spent
  BY <1>1, LoopsAre DEF Meters
<1> HIDE DEF new, call
<1>7. /\ Owed(calls[l][s]) = 0 /\ Owed(call) = cost
      /\ Uncounted(calls[l][s]) = 0 /\ Uncounted(call) = cost
  BY <1>1, <1>2, <1>4, <1>5, CallIs DEF Owed, Uncounted
<1>8. CallSound(l, new.largest, call)
  BY <1>1, <1>2, <1>3, <1>5, <1>6 DEF CallSound
<1>9. /\ ledger' = ledger + 0 /\ cost + Owed(calls[l][s]) = 0 + Owed(call)
      /\ new.spent + Uncounted(call) <= loop[l].spent + cost + Uncounted(calls[l][s])
      /\ Uncounted(call) <= cost + Uncounted(calls[l][s])
  BY <1>1, <1>2, <1>6, <1>7, LoopsAre
<1>10. SlotMoves(l, s, new, call, cost, 0)
  BY <1>1, <1>2, <1>3, <1>5, <1>6, <1>8, <1>9 DEF SlotMoves
<1> QED BY <1>10, SlotMoved

LEMMA AnswerSecondKeeps ==
  ASSUME Inv, NEW l \in Loops, NEW s \in Slots(l), NEW cost \in Prices, AnswerSecond(l, s, cost)
  PROVE  Inv'
<1> DEFINE first == calls[l][s].first
           largest == Higher(loop[l].largest, first + cost)
           call == [calls[l][s] EXCEPT !.at = "rescored", !.second = cost]
           spent == loop[l].spent + cost
           sinceRead == loop[l].sinceRead + 1
           new == [loop[l] EXCEPT !.largest = largest, !.spent = spent, !.sinceRead = sinceRead]
<1>1. /\ TypeOK /\ calls[l][s] # None /\ calls[l][s].at = "second"
      /\ ledger' = ledger /\ billed' = billed + cost /\ lost' = lost /\ crashes' = crashes
      /\ Moves(l, new, [calls[l] EXCEPT ![s] = call])
  BY SoundIs, AnswerSecondMoves
<1>2. cost \in Nat /\ cost <= Dearest /\ Dearest \in Nat /\ first \in Nat /\ first <= Dearest
      /\ calls[l][s].second = 0 /\ l \in Rescores
  BY <1>1, DearestIs, CallIs DEF CallSound
<1>3. /\ largest \in Nat /\ loop[l].largest <= largest /\ first + cost <= largest /\ largest <= PerPost(l)
  BY <1>1, <1>2, CallIs, PerPostIs DEF Higher
<1>5. call \in Calls /\ call.at = "rescored" /\ call.first = first /\ call.second = cost
  BY <1>1, <1>2, CallIs DEF Calls
<1> HIDE DEF largest, sinceRead
<1>6. /\ new.pc = loop[l].pc /\ new.left = loop[l].left /\ new.remaining = loop[l].remaining
      /\ new.reserved = loop[l].reserved /\ new.reading = loop[l].reading
      /\ new.largest = largest /\ new.spent = spent
  <2> HIDE DEF spent
  <2> QED BY <1>1, LoopsAre DEF Meters
<1> HIDE DEF new, call
<1>7. /\ Owed(calls[l][s]) = first /\ Owed(call) = first + cost
      /\ Uncounted(calls[l][s]) = first /\ Uncounted(call) = first
  BY <1>1, <1>2, <1>5, CallIs DEF Owed, Uncounted
<1>8. CallSound(l, new.largest, call)
  BY <1>1, <1>2, <1>3, <1>5, <1>6 DEF CallSound
<1> HIDE DEF first
<1>9. /\ ledger' = ledger + 0 /\ cost + Owed(calls[l][s]) = 0 + Owed(call)
      /\ new.spent + Uncounted(call) <= loop[l].spent + cost + Uncounted(calls[l][s])
      /\ Uncounted(call) <= cost + Uncounted(calls[l][s])
  BY <1>1, <1>2, <1>6, <1>7, LoopsAre
<1>10. loop[l].largest <= new.largest /\ new.largest <= PerPost(l)
  BY <1>3, <1>6
<1>11. SlotMoves(l, s, new, call, cost, 0)
  BY <1>1, <1>2, <1>5, <1>6, <1>8, <1>9, <1>10 DEF SlotMoves
<1> QED BY <1>11, SlotMoved

LEMMA WriteSecondKeeps ==
  ASSUME Inv, NEW l \in Loops, NEW s \in Slots(l), WriteSecond(l, s)
  PROVE  Inv'
<1> DEFINE old == calls[l][s]
           call == [old EXCEPT !.at = "answered", !.second = 0]
<1>1. /\ TypeOK /\ old # None /\ old.at = "rescored"
      /\ ledger' = ledger + old.second /\ billed' = billed /\ lost' = lost /\ crashes' = crashes
      /\ Moves(l, loop[l], [calls[l] EXCEPT ![s] = call])
  BY SoundIs, WriteSecondMoves
<1>2. old \in Calls /\ old.first \in Nat /\ old.second \in Nat /\ CallSound(l, loop[l].largest, old)
      /\ loop[l].largest \in Nat /\ loop[l].largest <= PerPost(l)
  BY <1>1, CallIs
<1>5. call \in Calls /\ call.at = "answered" /\ call.first = old.first /\ call.second = 0 /\ call # None
  <2>1. call \in Calls /\ call.at = "answered" /\ call.first = old.first /\ call.second = 0
    <3> HIDE DEF old
    <3> QED BY <1>2 DEF Calls
  <2> QED BY <1>1, <2>1, CallIs
<1> HIDE DEF call
<1>7. /\ Owed(old) = old.first + old.second /\ Owed(call) = old.first
      /\ Uncounted(old) = old.first /\ Uncounted(call) = old.first
  BY <1>1, <1>2, <1>5 DEF Owed, Uncounted
<1>8. CallSound(l, loop[l].largest, call)
  <2>1. 0 <= Dearest
    BY DearestIs
  <2> QED BY <1>1, <1>2, <1>5, <2>1 DEF CallSound
<1>9. /\ billed' = billed + 0 /\ 0 + Owed(old) = old.second + Owed(call)
      /\ loop[l].spent + Uncounted(call) <= loop[l].spent + 0 + Uncounted(old)
      /\ Uncounted(call) <= 0 + Uncounted(old)
      /\ loop[l].largest <= loop[l].largest
  BY <1>1, <1>2, <1>7, LoopsAre
<1>10. SlotMoves(l, s, loop[l], call, 0, old.second)
  BY <1>1, <1>2, <1>5, <1>8, <1>9 DEF SlotMoves
<1> QED BY <1>10, SlotMoved

LEMMA CountKeeps ==
  ASSUME Inv, NEW l \in Loops, NEW s \in Slots(l), Count(l, s)
  PROVE  Inv'
<1> DEFINE old == calls[l][s]
           call == [calls[l][s] EXCEPT !.at = "counted"]
           spent == loop[l].spent + old.first
           sinceRead == loop[l].sinceRead + 1
           new == [loop[l] EXCEPT !.spent = spent, !.sinceRead = sinceRead]
<1>1. /\ TypeOK /\ old # None /\ old.at = "answered"
      /\ ledger' = ledger /\ billed' = billed /\ lost' = lost /\ crashes' = crashes
      /\ Moves(l, new, [calls[l] EXCEPT ![s] = call])
  BY SoundIs, CountMoves
<1>2. old \in Calls /\ old.first \in Nat /\ old.second = 0 /\ CallSound(l, loop[l].largest, old)
      /\ loop[l].largest \in Nat /\ loop[l].largest <= PerPost(l)
  BY <1>1, CallIs DEF CallSound
<1>5. call \in Calls /\ call.at = "counted" /\ call.first = old.first /\ call.second = 0 /\ call # None
  BY <1>1, <1>2, CallIs DEF Calls
<1> HIDE DEF call
<1>6. /\ new.pc = loop[l].pc /\ new.left = loop[l].left /\ new.remaining = loop[l].remaining
      /\ new.reserved = loop[l].reserved /\ new.reading = loop[l].reading
      /\ new.largest = loop[l].largest /\ new.spent = spent
  <2> HIDE DEF spent, sinceRead
  <2> QED BY <1>1, LoopsAre DEF Meters
<1> HIDE DEF new
<1>7. /\ Owed(old) = old.first /\ Owed(call) = old.first
      /\ Uncounted(old) = old.first /\ Uncounted(call) = 0
  BY <1>1, <1>2, <1>5 DEF Owed, Uncounted
<1>8. CallSound(l, new.largest, call)
  <2>1. 0 <= Dearest
    BY DearestIs
  <2> QED BY <1>1, <1>2, <1>5, <1>6, <2>1 DEF CallSound
<1>9. /\ billed' = billed + 0 /\ ledger' = ledger + 0 /\ 0 + Owed(old) = 0 + Owed(call)
      /\ new.spent + Uncounted(call) <= loop[l].spent + 0 + Uncounted(old)
      /\ Uncounted(call) <= 0 + Uncounted(old)
      /\ loop[l].largest <= new.largest /\ new.largest <= PerPost(l)
  BY <1>1, <1>2, <1>6, <1>7, LoopsAre
<1>10. SlotMoves(l, s, new, call, 0, 0)
  BY <1>1, <1>2, <1>5, <1>6, <1>8, <1>9 DEF SlotMoves
<1> QED BY <1>10, SlotMoved

LEMMA WriteKeeps ==
  ASSUME Inv, NEW l \in Loops, NEW s \in Slots(l), Write(l, s)
  PROVE  Inv'
<1> DEFINE old == calls[l][s]
           pc == IF loop[l].pc = "waiting" THEN "next" ELSE loop[l].pc
           new == [loop[l] EXCEPT !.pc = pc]
<1>1. /\ TypeOK /\ old # None /\ old.at = "counted"
      /\ ledger' = ledger + old.first /\ billed' = billed /\ lost' = lost /\ crashes' = crashes
      /\ Moves(l, new, [calls[l] EXCEPT ![s] = None])
  BY SoundIs, WriteMoves
<1>2. old \in Calls /\ old.first \in Nat /\ old.second = 0 /\ CallSound(l, loop[l].largest, old)
      /\ loop[l].largest \in Nat /\ loop[l].largest <= PerPost(l)
  BY <1>1, CallIs DEF CallSound
<1>6. /\ new.pc = pc /\ new.left = loop[l].left /\ new.remaining = loop[l].remaining
      /\ new.reserved = loop[l].reserved /\ new.reading = loop[l].reading
      /\ new.largest = loop[l].largest /\ new.spent = loop[l].spent
  <2> HIDE DEF pc
  <2> QED BY <1>1, LoopsAre DEF Meters
<1> HIDE DEF new
<1>7. /\ Owed(old) = old.first /\ Owed(None) = 0 /\ Uncounted(old) = 0 /\ Uncounted(None) = 0
  BY <1>1, <1>2 DEF Owed, Uncounted
<1>8. CallSound(l, new.largest, None)
  BY DEF CallSound
<1>9. /\ billed' = billed + 0 /\ 0 + Owed(old) = old.first + Owed(None)
      /\ new.spent + Uncounted(None) <= loop[l].spent + 0 + Uncounted(old)
      /\ Uncounted(None) <= 0 + Uncounted(old)
      /\ loop[l].largest <= new.largest /\ new.largest <= PerPost(l)
  BY <1>1, <1>2, <1>6, <1>7, LoopsAre
<1>10. new.pc = loop[l].pc \/ (loop[l].pc = "waiting" /\ new.pc = "next")
  BY <1>6
<1> HIDE DEF pc
<1>11. SlotMoves(l, s, new, None, 0, old.first)
  BY <1>1, <1>2, <1>6, <1>8, <1>9, <1>10 DEF SlotMoves
<1> QED BY <1>11, SlotMoved

LEMMA CrashKeeps ==
  ASSUME Inv, NEW l \in Loops, NEW again \in 0..Posts[l], Crash(l, again)
  PROVE  Inv'
<1> DEFINE row == [s \in Slots(l) |-> None]
           new == Idle(again)
           owed == OwedIn(l, calls[l])
<1>1. /\ TypeOK /\ loop[l].pc # "idle" /\ crashes < MaxCrashes[active] /\ crashes' = crashes + 1
      /\ ledger' = ledger /\ billed' = billed /\ lost' = lost + owed
      /\ Moves(l, new, row)
  BY SoundIs, CrashMoves
<1>2. crashes' \in 0..MaxCrashes[active]
  BY <1>1, MeterAssumption DEF TypeOK
<1>3. /\ new.pc = "idle" /\ new.spent = 0 /\ new.largest = 0 /\ new.reserved = 0 /\ new.remaining = 0
  BY DEF Idle
<1>4. row \in Rows(l) /\ OwedIn(l, row) = 0
  <2>1. row \in Rows(l)
    BY DEF Rows
  <2> HIDE DEF row
  <2> QED BY <2>1, RowSums DEF row
<1>5. \A s \in Slots(l) : CallSound(l, new.largest, row[s])
  BY DEF CallSound
<1>6. Placed(l, new, row)
  BY <1>3, PerPostIs, SoundIs DEF Placed
<1>7. Spends(l, new, row, billed)
  BY <1>3 DEF Spends
<1>8. owed \in Nat
  BY SoundIs
<1> HIDE DEF new, row, owed
<1>9. /\ billed' = billed + 0 /\ ledger' = ledger + 0 /\ billed = billed + 0
      /\ 0 + owed = 0 + owed + OwedIn(l, row)
  BY <1>1, <1>4, <1>8, LoopsAre
<1>10. Sound(l, new, row, billed + 0)
  BY <1>5, <1>6, <1>7, <1>9 DEF Sound
<1> QED BY <1>1, <1>2, <1>8, <1>9, <1>10, Moved DEF owed

---------------------------------------------------------------------------
\* The first invariant, and what follows from it.

LEMMA InitInv == Init => Inv
<1> SUFFICES ASSUME Init PROVE Inv
  OBVIOUS
<1>1. \A l \in Loops : /\ Idle(Posts[l]) \in Meters /\ loop[l] = Idle(Posts[l]) /\ Posts[l] \in Nat
                       /\ calls[l] = [s \in Slots(l) |-> None] /\ calls[l] \in Rows(l)
  BY MeterAssumption DEF Init, Idle, Meters, Rows
<1>2. TypeOK
  <2>1. active \in Together /\ MaxCrashes[active] \in Nat /\ crashes = 0
    BY MeterAssumption DEF Init
  <2>2. loop \in [Loops -> Meters]
    <3>1. loop = [l \in Loops |-> Idle(Posts[l])]
      BY DEF Init
    <3>2. \A l \in Loops : Idle(Posts[l]) \in Meters
      BY <1>1
    <3> QED BY <3>1, <3>2
  <2>3. ASSUME NEW l \in Loops PROVE loop[l].left <= Posts[l]
    <3>1. loop[l] = Idle(Posts[l]) /\ Posts[l] \in Nat
      BY <1>1
    <3> QED BY <3>1 DEF Idle
  <2>4. calls = [l \in Loops |-> calls[l]]
    BY DEF Init
  <2>5. \A l \in Loops : calls[l] \in [Slots(l) -> Calls \cup {None}]
    BY <1>1 DEF Rows
  <2>6. {ledger, billed, lost} \subseteq Nat
    BY DEF Init
  <2> QED BY <2>1, <2>2, <2>3, <2>4, <2>5, <2>6 DEF TypeOK
<1>3. Books
  <2> DEFINE owed == [l \in Loops |-> OwedIn(l, calls[l])]
             none == [l \in Loops |-> IF l \in {} THEN 0 ELSE 0]
  <2>1. \A l \in Loops : OwedIn(l, calls[l]) = 0
    BY <1>1, RowSums
  <2>2. owed = none
    BY <2>1
  <2>3. SumFunction(none) = Cardinality({}) * 0
    BY MeterAssumption, SumOfSame
  <2> HIDE DEF owed, none
  <2>4. SumFunction(owed) = 0
    BY <2>2, <2>3, FS_EmptySet
  <2> QED BY <2>4 DEF Books, Init, owed
<1>4. ASSUME NEW l \in Loops PROVE Sound(l, loop[l], calls[l], billed)
  <2>1. loop[l].pc = "idle" /\ loop[l].spent = 0 /\ loop[l].largest = 0 /\ loop[l].reserved = 0
    <3>1. loop[l] = Idle(Posts[l])
      BY <1>1
    <3> QED BY <3>1 DEF Idle
  <2>2. Placed(l, loop[l], calls[l])
    BY <1>1, <2>1, PerPostIs DEF Placed
  <2>3. \A s \in Slots(l) : CallSound(l, loop[l].largest, calls[l][s])
    BY <1>1 DEF CallSound
  <2>4. Spends(l, loop[l], calls[l], billed)
    BY <2>1 DEF Spends
  <2> QED BY <2>2, <2>3, <2>4 DEF Sound
<1> QED BY <1>2, <1>3, <1>4 DEF Inv

LEMMA InvKept == Inv /\ UNCHANGED vars => Inv'
<1> SUFFICES ASSUME Inv, UNCHANGED vars PROVE Inv'
  OBVIOUS
<1>1. TypeOK'
  BY DEF Inv, TypeOK, vars, Slots
<1>2. Books'
  BY DEF Inv, Books, vars, OwedIn, Slots
<1>3. \A l \in Loops : Sound(l, loop[l], calls[l], billed)'
  BY DEF Inv, Sound, Placed, CallSound, Spends, UncountedIn, Slots, vars
<1> QED BY <1>1, <1>2, <1>3 DEF Inv

\* One of the actions of a loop.
Steps(l) ==
  \/ Begin(l) \/ NoneLeft(l) \/ Wait(l) \/ Ask(l) \/ Read(l) \/ Renew(l) \/ Call(l) \/ End(l)
  \/ \E s \in Slots(l) : Calling(l, s)
  \/ \E again \in 0..Posts[l] : Crash(l, again)

LEMMA InvStep == ASSUME Inv, NEW l \in Loops, Steps(l) PROVE Inv'
<1>1. CASE Begin(l)
  BY <1>1, BeginKeeps
<1>2. CASE NoneLeft(l)
  <2>1. TypeOK /\ "closing" \in {"closing", "waiting", "next", "done"}
    BY SoundIs
  <2> QED BY <1>2, <2>1, NoneLeftMoves, PlaceKeeps
<1>3. CASE Wait(l)
  <2>1. TypeOK /\ "waiting" \in {"closing", "waiting", "next", "done"}
    BY SoundIs
  <2> QED BY <1>3, <2>1, WaitMoves, PlaceKeeps
<1>4. CASE Ask(l)
  BY <1>4, AskKeeps
<1>5. CASE Read(l)
  BY <1>5, ReadKeeps
<1>6. CASE Renew(l)
  BY <1>6, RenewKeeps
<1>7. CASE Call(l)
  BY <1>7, CallKeeps
<1>8. CASE End(l)
  BY <1>8, EndKeeps
<1>9. ASSUME NEW s \in Slots(l), Calling(l, s) PROVE Inv'
  <2>1. ASSUME NEW cost \in Prices, NEW next \in {"answered", "second"}, Answer(l, s, cost, next)
        PROVE  Inv'
    BY <2>1, AnswerKeeps
  <2>2. ASSUME NEW cost \in Prices, AnswerSecond(l, s, cost) PROVE Inv'
    BY <2>2, AnswerSecondKeeps
  <2>3. CASE WriteSecond(l, s)
    BY <2>3, WriteSecondKeeps
  <2>4. CASE Count(l, s)
    BY <2>4, CountKeeps
  <2>5. CASE Write(l, s)
    BY <2>5, WriteKeeps
  <2> QED BY <1>9, <2>1, <2>2, <2>3, <2>4, <2>5 DEF Calling
<1>10. ASSUME NEW again \in 0..Posts[l], Crash(l, again) PROVE Inv'
  BY <1>10, CrashKeeps
<1> QED BY <1>1, <1>2, <1>3, <1>4, <1>5, <1>6, <1>7, <1>8, <1>9, <1>10 DEF Steps

LEMMA NextIs == Next <=> Rest \/ \E l \in Loops : Steps(l)
BY DEF Next, Steps

\* Inv is an invariant.
THEOREM Accounts == Spec => []Inv
<1>1. Inv /\ [Next]_vars => Inv'
  <2> SUFFICES ASSUME Inv, [Next]_vars PROVE Inv'
    OBVIOUS
  <2>1. CASE Rest
    BY <2>1, InvKept DEF Rest
  <2>2. ASSUME NEW l \in Loops, Steps(l) PROVE Inv'
    BY <2>2, InvStep
  <2>3. CASE UNCHANGED vars
    BY <2>3, InvKept
  <2> QED BY <2>1, <2>2, <2>3, NextIs
<1> QED BY InitInv, <1>1, PTL DEF Spec

\* The meters, the calls and the sums have their types.
THEOREM TypeCorrect == Spec => []TypeOK
<1>1. Inv => TypeOK
  BY DEF Inv
<1> QED BY Accounts, <1>1, PTL

\* A loop that stops for want of money has left at most what its other calls were reserved:
\* the meter never believes that more was spent than was, whatever it reads while rows are
\* on their way (budget.ts:796).
THEOREM StopsOnlyNearTheCap == Spec => []StopsNearTheCap
<1>1. Inv => StopsNearTheCap
  <2> SUFFICES ASSUME Inv, NEW l \in Loops, loop[l].pc = "stopped"
               PROVE  billed >= Cap - (Width[l] - 1) * PerPost(l)
    BY DEF StopsNearTheCap
  <2> DEFINE gap == (Width[l] - 1) * PerPost(l)
  <2>1. Cap <= billed + gap /\ gap \in Nat
    BY SoundIs DEF Sound, Spends
  <2>2. billed \in Nat /\ Cap \in Nat
    BY SoundIs, LoopsAre
  <2> HIDE DEF gap
  <2>3. billed >= Cap - gap
    BY <2>1, <2>2
  <2> QED BY <2>3 DEF gap
<1> QED BY Accounts, <1>1, PTL

---------------------------------------------------------------------------
\* A loop that runs alone: what the sums of its slots bound.

\* What a row may add is what is ahead of the ledger, and a post for each call in flight.
LEMMA WorstBounded ==
  ASSUME NEW l \in Loops, NEW row \in Rows(l), NEW largest \in Nat, largest <= PerPost(l),
         \A s \in Slots(l) : CallSound(l, largest, row[s])
  PROVE  WorstIn(l, row) <= AheadIn(l, row) + Cardinality({s \in Slots(l) : row[s] # None}) * PerPost(l)
<1> DEFINE D == Slots(l)
           T == {s \in Slots(l) : row[s] # None}
           p == PerPost(l)
           v == [s \in D |-> Ahead(row[s])]
           w == [s \in D |-> IF s \in T THEN p ELSE 0]
           u == [s \in D |-> v[s] + w[s]]
           x == [s \in D |-> Worst(l, row[s])]
<1>1. \A s \in D : row[s] \in Calls \cup {None}
  BY DEF Rows
<1>2. p \in Nat /\ T \in SUBSET D /\ IsFiniteSet(D)
  BY PerPostIs, SlotsAre
<1>3. \A s \in D : Ahead(row[s]) \in Nat /\ Worst(l, row[s]) \in Nat
  BY <1>1, CallCosts, 0 \in Nat
<1>4. v \in [D -> Nat] /\ w \in [D -> Nat] /\ x \in [D -> Nat]
  BY <1>2, <1>3
<1>5. u \in [D -> Nat] /\ \A s \in D : u[s] = v[s] + w[s]
  <2>1. \A s \in D : v[s] \in Nat /\ w[s] \in Nat
    BY <1>4
  <2> HIDE DEF v, w
  <2>2. \A s \in D : v[s] + w[s] \in Nat
    BY <2>1
  <2> QED BY <2>2
<1>6. ASSUME NEW s \in D PROVE x[s] <= u[s]
  <2>1. CASE row[s] = None
    <3>1. x[s] = 0 /\ v[s] = 0 /\ w[s] = 0
      BY <2>1 DEF Worst, Ahead
    <3> QED BY <1>5, <3>1
  <2>2. CASE row[s] # None
    <3>1. row[s].first \in Nat /\ row[s].second \in Nat /\ CallSound(l, largest, row[s])
          /\ row[s].at \in {"asked", "answered", "second", "rescored", "counted"}
      BY <1>1, <2>2 DEF Calls
    <3>2. x[s] = Worst(l, row[s]) /\ v[s] = Ahead(row[s]) /\ w[s] = PerPost(l)
      BY <2>2
    <3>3. Worst(l, row[s]) <= Ahead(row[s]) + PerPost(l)
      BY <2>2, <3>1, PerPostIs, DearestIs DEF Worst, Ahead, CallSound
    <3> QED BY <1>5, <3>2, <3>3
  <2> QED BY <2>1, <2>2
<1>7. SumFunction(w) = Cardinality(T) * p
  <2> HIDE DEF T, p, D
  <2> QED BY <1>2, SumOfSame
<1>8. WorstIn(l, row) = SumFunction(x) /\ AheadIn(l, row) = SumFunction(v)
  BY DEF WorstIn, AheadIn
<1> HIDE DEF D, v, w, u, x
<1>9. SumFunction(u) = SumFunction(v) + SumFunction(w)
  BY <1>2, <1>4, <1>5, SumAdd
<1>10. SumFunction(x) <= SumFunction(u)
  BY <1>2, <1>4, <1>5, <1>6, SumMonotone
<1> QED BY <1>7, <1>8, <1>9, <1>10

\* What is ahead of the ledger and what is spare is at most the largest price, slot by slot.
LEMMA SpareBounded ==
  ASSUME NEW l \in Loops, NEW row \in Rows(l), NEW largest \in Nat,
         \A s \in Slots(l) : CallSound(l, largest, row[s])
  PROVE  AheadIn(l, row) + SpareIn(l, largest, row) <= Width[l] * largest
<1> DEFINE D == Slots(l)
           v == [s \in D |-> Ahead(row[s])]
           w == [s \in D |-> Spare(largest, row[s])]
           u == [s \in D |-> v[s] + w[s]]
           x == [s \in D |-> IF s \in D THEN largest ELSE 0]
<1>1. \A s \in D : row[s] \in Calls \cup {None}
  BY DEF Rows
<1>2. IsFiniteSet(D) /\ D \in SUBSET D /\ Cardinality(D) = Width[l]
  BY SlotsAre
<1>3. \A s \in D : Ahead(row[s]) \in Nat /\ Spare(largest, row[s]) \in Nat
  BY <1>1, CallCosts
<1>4. v \in [D -> Nat] /\ w \in [D -> Nat] /\ x \in [D -> Nat]
  BY <1>3
<1>5. u \in [D -> Nat] /\ \A s \in D : u[s] = v[s] + w[s]
  <2>1. \A s \in D : v[s] \in Nat /\ w[s] \in Nat
    BY <1>4
  <2> HIDE DEF v, w
  <2>2. \A s \in D : v[s] + w[s] \in Nat
    BY <2>1
  <2> QED BY <2>2
<1>6. ASSUME NEW s \in D PROVE u[s] <= x[s]
  <2>0. u[s] = Ahead(row[s]) + Spare(largest, row[s]) /\ x[s] = largest
    OBVIOUS
  <2>1. CASE row[s] = None
    BY <2>0, <2>1 DEF Ahead, Spare
  <2>2. CASE row[s] # None
    <3>1. row[s].first \in Nat /\ row[s].second \in Nat /\ CallSound(l, largest, row[s])
      BY <1>1, <2>2 DEF Calls
    <3>3. Ahead(row[s]) + Spare(largest, row[s]) <= largest
      BY <2>2, <3>1 DEF Ahead, Spare, CallSound, Higher
    <3> QED BY <2>0, <3>3
  <2> QED BY <2>1, <2>2
<1>7. SumFunction(x) = Width[l] * largest
  <2> HIDE DEF D
  <2> QED BY <1>2, SumOfSame
<1>8. SpareIn(l, largest, row) = SumFunction(w) /\ AheadIn(l, row) = SumFunction(v)
  BY DEF SpareIn, AheadIn
<1> HIDE DEF D, v, w, u, x
<1>9. SumFunction(u) = SumFunction(v) + SumFunction(w)
  BY <1>2, <1>4, <1>5, SumAdd
<1>10. SumFunction(u) <= SumFunction(x)
  BY <1>2, <1>4, <1>5, <1>6, SumMonotone
<1> QED BY <1>7, <1>8, <1>9, <1>10

\* What a row may add and what is spare is a post for every slot, the largest for a free one.
LEMMA WorstAndSpare ==
  ASSUME NEW l \in Loops, NEW row \in Rows(l), NEW largest \in Nat, largest <= PerPost(l),
         \A s \in Slots(l) : CallSound(l, largest, row[s]),
         NEW k \in Slots(l), row[k] = None
  PROVE  WorstIn(l, row) + SpareIn(l, largest, row) <= (Width[l] - 1) * PerPost(l) + largest
<1> DEFINE D == Slots(l)
           p == PerPost(l)
           v == [s \in D |-> Worst(l, row[s])]
           w == [s \in D |-> Spare(largest, row[s])]
           u == [s \in D |-> v[s] + w[s]]
           x == [s \in D |-> IF s \in D \ {k} THEN p ELSE 0]
           y == [s \in D |-> IF s \in {k} THEN largest ELSE 0]
           z == [s \in D |-> x[s] + y[s]]
<1>1. \A s \in D : row[s] \in Calls \cup {None}
  BY DEF Rows
<1>2. IsFiniteSet(D) /\ p \in Nat /\ Cardinality(D) = Width[l]
  BY SlotsAre, PerPostIs
<1>3. \A s \in D : Worst(l, row[s]) \in Nat /\ Spare(largest, row[s]) \in Nat
  BY <1>1, CallCosts
<1>4. v \in [D -> Nat] /\ w \in [D -> Nat] /\ x \in [D -> Nat] /\ y \in [D -> Nat]
  BY <1>2, <1>3
<1>5. u \in [D -> Nat] /\ \A s \in D : u[s] = v[s] + w[s]
  <2>1. \A s \in D : v[s] \in Nat /\ w[s] \in Nat
    BY <1>4
  <2> HIDE DEF v, w
  <2>2. \A s \in D : v[s] + w[s] \in Nat
    BY <2>1
  <2> QED BY <2>2
<1>e. z \in [D -> Nat] /\ \A s \in D : z[s] = x[s] + y[s]
  <2>1. \A s \in D : x[s] \in Nat /\ y[s] \in Nat
    BY <1>4
  <2> HIDE DEF x, y
  <2>2. \A s \in D : x[s] + y[s] \in Nat
    BY <2>1
  <2> QED BY <2>2
<1>6. ASSUME NEW s \in D PROVE u[s] <= z[s]
  <2>0. u[s] = Worst(l, row[s]) + Spare(largest, row[s])
    OBVIOUS
  <2>1. CASE s = k
    <3>1. z[s] = 0 + largest
      BY <2>1
    <3>2. u[s] = 0 + largest
      BY <2>0, <2>1 DEF Worst, Spare
    <3> QED BY <3>1, <3>2
  <2>2. CASE s # k
    <3>1. z[s] = p
      BY <1>2, <2>2
    <3>2. CASE row[s] = None
      <4>1. u[s] = largest
        BY <2>0, <3>2 DEF Worst, Spare
      <4> QED BY <3>1, <4>1
    <3>3. CASE row[s] # None
      <4>1. row[s].first \in Nat /\ row[s].second \in Nat /\ CallSound(l, largest, row[s])
            /\ row[s].at \in {"asked", "answered", "second", "rescored", "counted"}
        BY <1>1, <3>3 DEF Calls
      <4>2. Worst(l, row[s]) + Spare(largest, row[s]) <= PerPost(l)
        BY <3>3, <4>1, PerPostIs, DearestIs DEF Worst, Spare, CallSound, Higher
      <4> QED BY <2>0, <3>1, <4>2
    <3> QED BY <3>2, <3>3
  <2> QED BY <2>1, <2>2
<1>7. SumFunction(x) = (Width[l] - 1) * p
  <2>1. Cardinality(D \ {k}) = Cardinality(D) - 1 /\ D \ {k} \in SUBSET D
    BY <1>2, FS_RemoveElement
  <2> HIDE DEF D, p
  <2>2. SumFunction(x) = Cardinality(D \ {k}) * p
    BY <1>2, <2>1, SumOfSame
  <2> QED BY <1>2, <2>1, <2>2
<1>y. SumFunction(y) = largest
  <2>1. Cardinality({k}) = 1 /\ {k} \in SUBSET D
    BY FS_Singleton
  <2> HIDE DEF D
  <2>2. SumFunction(y) = Cardinality({k}) * largest
    BY <1>2, <2>1, SumOfSame
  <2> QED BY <2>1, <2>2
<1>8. WorstIn(l, row) = SumFunction(v) /\ SpareIn(l, largest, row) = SumFunction(w)
  BY DEF WorstIn, SpareIn
<1> HIDE DEF D, v, w, u, x, y, z
<1>9. SumFunction(u) = SumFunction(v) + SumFunction(w) /\ SumFunction(z) = SumFunction(x) + SumFunction(y)
  BY <1>2, <1>4, <1>5, <1>e, SumAdd
<1>10. SumFunction(u) <= SumFunction(z)
  BY <1>2, <1>5, <1>e, <1>6, SumMonotone
<1> QED BY <1>7, <1>y, <1>8, <1>9, <1>10

\* With a free slot, what is spare grows with the largest price.
LEMMA SpareGrows ==
  ASSUME NEW l \in Loops, NEW row \in Rows(l), NEW largest \in Nat, NEW more \in Nat, largest <= more,
         NEW k \in Slots(l), row[k] = None
  PROVE  SpareIn(l, largest, row) + (more - largest) <= SpareIn(l, more, row)
<1> DEFINE D == Slots(l)
           d == more - largest
           v == [s \in D |-> Spare(largest, row[s])]
           w == [s \in D |-> IF s \in {k} THEN d ELSE 0]
           u == [s \in D |-> v[s] + w[s]]
           x == [s \in D |-> Spare(more, row[s])]
<1>1. \A s \in D : row[s] \in Calls \cup {None}
  BY DEF Rows
<1>2. IsFiniteSet(D) /\ d \in Nat
  BY SlotsAre
<1>3. \A s \in D : Spare(largest, row[s]) \in Nat /\ Spare(more, row[s]) \in Nat
  BY <1>1, CallCosts
<1>4. v \in [D -> Nat] /\ w \in [D -> Nat] /\ x \in [D -> Nat]
  BY <1>2, <1>3
<1>5. u \in [D -> Nat] /\ \A s \in D : u[s] = v[s] + w[s]
  <2>1. \A s \in D : v[s] \in Nat /\ w[s] \in Nat
    BY <1>4
  <2> HIDE DEF v, w
  <2>2. \A s \in D : v[s] + w[s] \in Nat
    BY <2>1
  <2> QED BY <2>2
<1>6. ASSUME NEW s \in D PROVE u[s] <= x[s]
  <2>1. CASE s = k
    <3>1. u[s] = largest + (more - largest) /\ x[s] = more
      BY <2>1 DEF Spare
    <3> QED BY <3>1
  <2>2. CASE s # k
    <3>1. u[s] = Spare(largest, row[s]) + 0 /\ x[s] = Spare(more, row[s])
      BY <2>2
    <3>2. row[s] # None => row[s].first \in Nat /\ row[s].second \in Nat
      BY <1>1 DEF Calls
    <3>3. Spare(largest, row[s]) <= Spare(more, row[s])
      BY <3>2 DEF Spare, Higher
    <3> QED BY <1>3, <3>1, <3>3
  <2> QED BY <2>1, <2>2
<1>7. SumFunction(w) = d
  <2>1. Cardinality({k}) = 1 /\ {k} \in SUBSET D
    BY FS_Singleton
  <2> HIDE DEF D, d
  <2>2. SumFunction(w) = Cardinality({k}) * d
    BY <1>2, <2>1, SumOfSame
  <2> QED BY <1>2, <2>1, <2>2
<1>8. SpareIn(l, largest, row) = SumFunction(v) /\ SpareIn(l, more, row) = SumFunction(x)
  BY DEF SpareIn
<1> HIDE DEF D, v, w, u, x
<1>9. SumFunction(u) = SumFunction(v) + SumFunction(w)
  BY <1>2, <1>4, <1>5, SumAdd
<1>10. SumFunction(u) <= SumFunction(x)
  BY <1>2, <1>4, <1>5, <1>6, SumMonotone
<1> QED BY <1>7, <1>8, <1>9, <1>10

---------------------------------------------------------------------------
\* A loop that runs alone stays bounded.

\* The invariant of one loop, with its numbers.
LEMMA AloneIs ==
  ASSUME Inv, NEW l \in Loops
  PROVE  /\ TypeOK /\ calls[l] \in Rows(l) /\ ledger \in Nat
         /\ AheadIn(l, calls[l]) \in Nat /\ WorstIn(l, calls[l]) \in Nat
         /\ \A largest \in Nat : SpareIn(l, largest, calls[l]) \in Nat
         /\ PerPost(l) \in Nat /\ (Width[l] - 1) * PerPost(l) \in Nat
         /\ Width[l] * PerPost(l) = (Width[l] - 1) * PerPost(l) + PerPost(l)
         /\ loop[l].largest \in Nat /\ loop[l].largest <= PerPost(l)
         /\ \A s \in Slots(l) : CallSound(l, loop[l].largest, calls[l][s])
         /\ Cap \in Nat /\ loop[l].remaining \in Nat /\ loop[l].remaining <= Cap /\ loop[l].spent \in Nat
<1>1. TypeOK /\ loop[l].largest <= PerPost(l) /\ \A s \in Slots(l) : CallSound(l, loop[l].largest, calls[l][s])
  BY SoundIs DEF Sound, Placed
<1>2. calls[l] \in Rows(l) /\ ledger \in Nat /\ loop[l].largest \in Nat
      /\ Cap \in Nat /\ loop[l].remaining \in Nat /\ loop[l].remaining <= Cap /\ loop[l].spent \in Nat
  BY <1>1, LoopsAre
<1> QED BY <1>1, <1>2, RowSums, PerPostIs

\* The posts of the free slots, at a price no higher than the dearest.
LEMMA SlotsCost ==
  ASSUME NEW l \in Loops, NEW c \in Nat, NEW d \in Nat, c <= d
  PROVE  /\ (Width[l] - 1) * c \in Nat /\ (Width[l] - 1) * d \in Nat
         /\ (Width[l] - 1) * c <= (Width[l] - 1) * d
         /\ Width[l] * c = (Width[l] - 1) * c + c
<1>1. PICK w \in Nat : Width[l] = w + 1
  <2>1. Width[l] - 1 \in Nat /\ Width[l] = (Width[l] - 1) + 1
    BY PerPostIs
  <2> QED BY <2>1
<1>2. Width[l] - 1 = w
  BY <1>1
<1>3. w * c <= w * d /\ w * c \in Nat /\ w * d \in Nat
  BY PostsCost
<1>4. (w + 1) * c = w * c + c
  OBVIOUS
<1> QED BY <1>1, <1>2, <1>3, <1>4

\* A move of the loop that starts and reads nothing.
LEMMA PlaceBounded ==
  ASSUME Inv, NEW l \in Loops, Bounded(l, loop[l], calls[l], ledger), loop[l].pc # "idle",
         NEW meter, meter.pc \notin {"read", "call"},
         meter.remaining = loop[l].remaining, meter.spent = loop[l].spent,
         meter.largest = loop[l].largest
  PROVE  Bounded(l, meter, calls[l], ledger)
BY DEF Bounded

LEMMA BeginBounded ==
  ASSUME Inv, NEW l \in Loops, Bounded(l, loop[l], calls[l], ledger), Begin(l)
  PROVE  Bounded(l, loop'[l], calls'[l], ledger')
<1> DEFINE left == Remaining(ledger)
           new == [loop[l] EXCEPT !.pc = "next", !.remaining = left]
           gap == (Width[l] - 1) * loop[l].largest
           ahead == AheadIn(l, calls[l])
<1>1. TypeOK /\ loop'[l] = new /\ calls'[l] = calls[l] /\ ledger' = ledger /\ loop[l].pc = "idle"
  BY AloneIs, BeginMoves, MovedIs
<1>2. loop[l].spent = 0 /\ ahead = 0
  BY <1>1, AloneIs, SoundIs, RowSums DEF Sound, Placed
<1>3. left \in 0..Cap /\ (left > 0 => Cap - left = ledger) /\ ledger \in Nat
  BY <1>1, LoopsAre, RemainingIs
<1>4. gap \in Nat
  BY AloneIs, SlotsCost
<1>5. new.pc = "next" /\ new.remaining = left /\ new.spent = loop[l].spent /\ new.largest = loop[l].largest
  BY <1>1, LoopsAre DEF Meters
<1>6. Bounded(l, new, calls[l], ledger) <=>
        /\ left > 0 => ledger + ahead <= Cap - left + new.spent + gap
        /\ ledger + WorstIn(l, calls[l]) < Cap + Width[l] * PerPost(l)
  BY <1>5 DEF Bounded
<1>7. ledger + WorstIn(l, calls[l]) < Cap + Width[l] * PerPost(l)
  BY DEF Bounded
<1> HIDE DEF new, left, gap, ahead
<1>8. left > 0 => ledger + ahead <= Cap - left + new.spent + gap
  BY <1>2, <1>3, <1>4, <1>5
<1> QED BY <1>1, <1>6, <1>7, <1>8

LEMMA AskBounded ==
  ASSUME Inv, NEW l \in Loops, Bounded(l, loop[l], calls[l], ledger), Ask(l)
  PROVE  Bounded(l, loop'[l], calls'[l], ledger')
<1> DEFINE n == Cardinality(InFlight(l))
           reading == [loop[l] EXCEPT !.pc = "reading", !.reserved = Reserved(l)]
           verdict == Verdict(loop[l].remaining, loop[l].spent, Reserved(l))
           asked == [loop[l] EXCEPT !.pc = verdict, !.reserved = 0]
<1>1. /\ TypeOK /\ loop[l].pc = "next" /\ n < Width[l] /\ ledger' = ledger
      /\ Moves(l, reading, calls[l]) \/ Moves(l, asked, calls[l])
  BY AloneIs, AskMoves
<1>2. calls'[l] = calls[l] /\ (loop'[l] = reading \/ loop'[l] = asked)
  BY <1>1, MovedIs
<1>3. reading.pc = "reading" /\ reading.remaining = loop[l].remaining /\ reading.spent = loop[l].spent
      /\ reading.largest = loop[l].largest
  BY <1>1, LoopsAre DEF Meters
<1>4. asked.pc = verdict /\ asked.remaining = loop[l].remaining /\ asked.spent = loop[l].spent
      /\ asked.largest = loop[l].largest
  <2> HIDE DEF verdict
  <2> QED BY <1>1, LoopsAre DEF Meters
<1> HIDE DEF reading, asked
<1>5. Bounded(l, reading, calls[l], ledger)
  BY <1>1, <1>3, PlaceBounded
<1>6. verdict \in {"stopping", "call"} /\ (verdict = "call" <=> ~ Exhausted(loop[l].remaining, loop[l].spent, Reserved(l)))
  BY VerdictIs
<1>7. CASE verdict = "stopping"
  <2>1. Bounded(l, asked, calls[l], ledger)
    BY <1>1, <1>4, <1>7, PlaceBounded
  <2> QED BY <1>1, <1>2, <1>5, <2>1
<1>8. CASE verdict = "call"
  <2> DEFINE c == loop[l].largest
             p == PerPost(l)
             w == Width[l] - 1
             i == w - n
             ahead == AheadIn(l, calls[l])
             worst == WorstIn(l, calls[l])
  <2>1. /\ c \in Nat /\ p \in Nat /\ c <= p /\ ledger \in Nat /\ ahead \in Nat /\ worst \in Nat
        /\ Cap \in Nat /\ loop[l].remaining \in Nat /\ loop[l].remaining <= Cap /\ loop[l].spent \in Nat
    BY AloneIs
  <2>2. n \in Nat /\ w \in Nat /\ i \in Nat /\ w = n + i
    BY <1>1, FlightIs, PerPostIs
  <2>3. loop[l].remaining # 0 /\ loop[l].spent + n * c < loop[l].remaining
    <3>1. ~ Exhausted(loop[l].remaining, loop[l].spent, Reserved(l)) /\ Reserved(l) = n * c
      BY <1>6, <1>8 DEF Reserved
    <3>2. n * c \in Nat
      BY <2>1, <2>2, PostsCost
    <3> HIDE DEF n, c
    <3> QED BY <2>1, <3>1, <3>2 DEF Exhausted
  <2>4. ledger + ahead <= Cap - loop[l].remaining + loop[l].spent + w * c
    BY <1>1, <2>1, <2>3 DEF Bounded
  <2>5. worst <= ahead + n * p
    <3>1. InFlight(l) = {s \in Slots(l) : calls[l][s] # None}
      BY DEF InFlight
    <3> QED BY <3>1, AloneIs, WorstBounded
  <2> HIDE DEF c, p, w, n, i, ahead, worst
  <2>6. w * c = n * c + i * c /\ w * p = n * p + i * p
    BY <2>1, <2>2
  <2>7. i * c <= i * p /\ n * c \in Nat /\ i * c \in Nat /\ n * p \in Nat /\ i * p \in Nat
    BY <2>1, <2>2, PostsCost
  <2>8. ledger + worst < Cap + w * p
    <3> DEFINE nc == n * c
               ic == i * c
               np == n * p
               ip == i * p
               wc == w * c
               wp == w * p
    <3>1. /\ wc = nc + ic /\ wp = np + ip /\ ic <= ip /\ nc \in Nat /\ ic \in Nat /\ np \in Nat /\ ip \in Nat
          /\ loop[l].spent + nc < loop[l].remaining
          /\ ledger + ahead <= Cap - loop[l].remaining + loop[l].spent + wc /\ worst <= ahead + np
      BY <2>3, <2>4, <2>5, <2>6, <2>7
    <3> HIDE DEF nc, ic, np, ip, wc, wp
    <3>2. ledger + worst < Cap + wp
      BY <2>1, <3>1
    <3> QED BY <3>2 DEF wp
  <2>9. Bounded(l, asked, calls[l], ledger)
    <3>1. ledger + WorstIn(l, calls[l]) < Cap + (Width[l] - 1) * PerPost(l)
      BY <2>8 DEF worst, w, p
    <3> QED BY <1>1, <1>4, <1>8, <3>1 DEF Bounded
  <2> QED BY <1>1, <1>2, <1>5, <2>9
<1> QED BY <1>6, <1>7, <1>8

LEMMA ReadBounded ==
  ASSUME Inv, NEW l \in Loops, Bounded(l, loop[l], calls[l], ledger), Read(l)
  PROVE  Bounded(l, loop'[l], calls'[l], ledger')
<1> DEFINE new == [loop[l] EXCEPT !.pc = "read", !.reading = ledger]
<1>1. TypeOK /\ loop'[l] = new /\ calls'[l] = calls[l] /\ ledger' = ledger /\ loop[l].pc = "reading"
  BY AloneIs, ReadMoves, MovedIs
<1>2. /\ new.pc = "read" /\ new.remaining = loop[l].remaining /\ new.spent = loop[l].spent
      /\ new.largest = loop[l].largest /\ new.reading = ledger
  BY <1>1, LoopsAre DEF Meters
<1> HIDE DEF new
<1>3. PICK k \in Slots(l) : calls[l][k] = None
  BY <1>1, SoundIs DEF Sound, Placed
<1> DEFINE v == [s \in Slots(l) |-> Spare(loop[l].largest, calls[l][s])]
<1>4. v \in [Slots(l) -> Nat] /\ v[k] = loop[l].largest /\ SpareIn(l, loop[l].largest, calls[l]) = SumFunction(v)
  <2>1. \A s \in Slots(l) : Spare(loop[l].largest, calls[l][s]) \in Nat
    BY <1>1, LoopsAre, CallCosts
  <2> QED BY <1>3, <2>1 DEF SpareIn, Spare
<1> HIDE DEF v
<1>5. loop[l].largest <= SpareIn(l, loop[l].largest, calls[l])
  BY <1>4, SlotsAre, SumAtLeast
<1>6. ledger + new.largest <= new.reading + SpareIn(l, new.largest, calls[l])
  <2>1. SpareIn(l, loop[l].largest, calls[l]) \in Nat /\ ledger \in Nat /\ loop[l].largest \in Nat
    BY AloneIs
  <2> QED BY <1>2, <1>5, <2>1
<1> QED BY <1>1, <1>2, <1>6 DEF Bounded

LEMMA RenewBounded ==
  ASSUME Inv, NEW l \in Loops, Bounded(l, loop[l], calls[l], ledger), Renew(l)
  PROVE  Bounded(l, loop'[l], calls'[l], ledger')
<1> DEFINE left == Remaining(loop[l].reading)
           verdict == Verdict(left, 0, loop[l].reserved)
           new == [loop[l] EXCEPT !.remaining = left, !.sinceRead = 0, !.spent = 0,
                                  !.reading = 0, !.reserved = 0, !.pc = verdict]
           c == loop[l].largest
           p == PerPost(l)
           wc == (Width[l] - 1) * c
           wp == (Width[l] - 1) * p
           ahead == AheadIn(l, calls[l])
           worst == WorstIn(l, calls[l])
           spare == SpareIn(l, c, calls[l])
           read == loop[l].reading
<1>1. TypeOK /\ loop'[l] = new /\ calls'[l] = calls[l] /\ ledger' = ledger /\ loop[l].pc = "read"
  BY AloneIs, RenewMoves, MovedIs
<1>2. /\ left \in 0..Cap /\ (left > 0 => Cap - left = read) /\ read \in Nat /\ loop[l].reserved \in Nat
  BY <1>1, LoopsAre, RemainingIs
<1>3. verdict \in {"stopping", "call"} /\ (verdict = "call" <=> ~ Exhausted(left, 0, loop[l].reserved))
  BY VerdictIs
<1>4. new.pc = verdict /\ new.remaining = left /\ new.spent = 0 /\ new.largest = c
  <2> HIDE DEF left, verdict
  <2> QED BY <1>1, LoopsAre DEF Meters
<1>5. ledger + c <= read + spare
  BY <1>1 DEF Bounded
<1>6. ahead + spare <= wc + c
  <2>1. ahead + spare <= Width[l] * c
    BY AloneIs, SpareBounded
  <2>2. Width[l] * c = wc + c
    BY AloneIs, SlotsCost
  <2> QED BY <2>1, <2>2
<1>7. worst + spare <= wp + c
  <2>1. \E k \in Slots(l) : calls[l][k] = None
    BY <1>1, SoundIs DEF Sound, Placed
  <2> QED BY <2>1, AloneIs, WorstAndSpare
<1>8. /\ c \in Nat /\ p \in Nat /\ wc \in Nat /\ wp \in Nat /\ ahead \in Nat /\ worst \in Nat /\ spare \in Nat
      /\ ledger \in Nat /\ Cap \in Nat
  BY AloneIs, SlotsCost
<1>9. ledger + worst < Cap + Width[l] * PerPost(l)
  BY DEF Bounded
<1>10. Bounded(l, new, calls[l], ledger) <=>
         /\ left > 0 => ledger + ahead <= Cap - left + 0 + wc
         /\ verdict = "call" => ledger + worst < Cap + wp
  BY <1>3, <1>4, <1>9 DEF Bounded
<1> HIDE DEF new, left, c, p, wc, wp, ahead, worst, spare, read
<1>11. left > 0 => ledger + ahead <= Cap - left + 0 + wc
  BY <1>2, <1>5, <1>6, <1>8
<1>12. verdict = "call" => ledger + worst < Cap + wp
  <2> SUFFICES ASSUME verdict = "call" PROVE ledger + worst < Cap + wp
    OBVIOUS
  <2>1. left > 0 /\ Cap - left = read /\ read < Cap
    BY <1>2, <1>3, <1>8 DEF Exhausted
  <2> HIDE DEF verdict
  <2> QED BY <1>2, <1>5, <1>7, <1>8, <2>1
<1> QED BY <1>1, <1>10, <1>11, <1>12

LEMMA CallBounded ==
  ASSUME Inv, NEW l \in Loops, Bounded(l, loop[l], calls[l], ledger), Call(l)
  PROVE  Bounded(l, loop'[l], calls'[l], ledger')
<1> DEFINE left == loop[l].left - 1
           new == [loop[l] EXCEPT !.pc = "next", !.left = left]
           call == [at |-> "asked", first |-> 0, second |-> 0]
<1>1. TypeOK /\ loop[l].pc = "call"
  BY SoundIs DEF Call
<1>2. loop[l].left > 0 /\ \E s \in Slots(l) : calls[l][s] = None
  BY <1>1, SoundIs DEF Sound, Placed
<1>3. ledger' = ledger
  BY <1>1, <1>2, CallMoves
<1>4. PICK s \in Slots(l) : calls[l][s] = None /\ Moves(l, new, [calls[l] EXCEPT ![s] = call])
  BY <1>1, <1>2, CallMoves
<1> DEFINE row == [calls[l] EXCEPT ![s] = call]
<1>5. call \in Calls /\ Ahead(call) = 0 /\ Ahead(None) = 0 /\ Worst(l, call) = PerPost(l) /\ Worst(l, None) = 0
  <2>1. call \in Calls /\ call # None
    BY MeterAssumption DEF Calls
  <2> QED BY <2>1 DEF Ahead, Worst
<1>6. loop'[l] = new /\ calls'[l] = row
  BY <1>1, <1>4, MovedIs
<1>7. AheadIn(l, row) = AheadIn(l, calls[l]) /\ WorstIn(l, row) = WorstIn(l, calls[l]) + PerPost(l)
  <2> HIDE DEF call
  <2>1. /\ AheadIn(l, row) = AheadIn(l, calls[l]) - Ahead(None) + Ahead(call)
        /\ WorstIn(l, row) = WorstIn(l, calls[l]) - Worst(l, None) + Worst(l, call)
    BY <1>4, <1>5, AloneIs, OneSlot
  <2> QED BY <1>5, <2>1, AloneIs
<1>8. new.pc = "next" /\ new.remaining = loop[l].remaining /\ new.spent = loop[l].spent
      /\ new.largest = loop[l].largest
  <2> HIDE DEF left
  <2> QED BY <1>1, LoopsAre DEF Meters
<1> HIDE DEF new, row, call
<1>9. ledger + WorstIn(l, row) < Cap + Width[l] * PerPost(l)
  <2>1. ledger + WorstIn(l, calls[l]) < Cap + (Width[l] - 1) * PerPost(l)
    BY <1>1 DEF Bounded
  <2> DEFINE gap == (Width[l] - 1) * PerPost(l)
             worst == WorstIn(l, calls[l])
  <2>2. Width[l] * PerPost(l) = gap + PerPost(l) /\ gap \in Nat /\ worst \in Nat /\ PerPost(l) \in Nat
        /\ ledger \in Nat /\ Cap \in Nat /\ ledger + worst < Cap + gap /\ WorstIn(l, row) = worst + PerPost(l)
    BY <1>7, <2>1, AloneIs
  <2> HIDE DEF gap, worst
  <2> QED BY <2>2
<1>10. Bounded(l, new, row, ledger)
  BY <1>1, <1>7, <1>8, <1>9 DEF Bounded
<1> QED BY <1>3, <1>6, <1>10

\* A call in flight changes: what the ledger gains leaves what was ahead of it, what was
\* spare for the slot, and the most the call may add.
LEMMA SlotBounded ==
  ASSUME Inv, NEW l \in Loops, Bounded(l, loop[l], calls[l], ledger), NEW s \in Slots(l), calls[l][s] # None,
         NEW meter, NEW call \in Calls \cup {None}, Moves(l, meter, [calls[l] EXCEPT ![s] = call]),
         NEW filed \in Nat, ledger' = ledger + filed,
         meter.pc = loop[l].pc \/ (loop[l].pc = "waiting" /\ meter.pc = "next"),
         meter.remaining = loop[l].remaining, meter.reading = loop[l].reading,
         loop[l].largest <= meter.largest, meter.largest <= PerPost(l),
         filed + Ahead(call) + loop[l].spent <= Ahead(calls[l][s]) + meter.spent,
         filed + Spare(meter.largest, calls[l][s]) <= Spare(meter.largest, call),
         filed + Worst(l, call) <= Worst(l, calls[l][s])
  PROVE  Bounded(l, loop'[l], calls'[l], ledger')
<1> DEFINE old == calls[l][s]
           row == [calls[l] EXCEPT ![s] = call]
           c == loop[l].largest
           more == meter.largest
           wc == (Width[l] - 1) * c
           wm == (Width[l] - 1) * more
           a == AheadIn(l, calls[l])
           b == AheadIn(l, row)
           p == WorstIn(l, calls[l])
           q == WorstIn(l, row)
           x == SpareIn(l, more, calls[l])
           y == SpareIn(l, more, row)
           z == SpareIn(l, c, calls[l])
           n == (Width[l] - 1) * PerPost(l)
           m == Width[l] * PerPost(l)
           ao == Ahead(old)
           an == Ahead(call)
           wo == Worst(l, old)
           wn == Worst(l, call)
           so == Spare(more, old)
           sn == Spare(more, call)
<1>1. TypeOK /\ loop'[l] = meter /\ calls'[l] = row
  BY AloneIs, MovedIs
<1>2. more \in Nat /\ c \in Nat /\ meter.spent \in Nat /\ old \in Calls \cup {None} /\ row \in Rows(l)
      /\ calls[l] \in Rows(l)
  BY <1>1, LoopsAre DEF Moves, Meters
<1>3. b = a - ao + an /\ q = p - wo + wn /\ y = x - so + sn
  BY <1>2, OneSlot
<1>4. /\ ao \in Nat /\ an \in Nat /\ wo \in Nat /\ wn \in Nat /\ so \in Nat /\ sn \in Nat
      /\ a \in Nat /\ b \in Nat /\ p \in Nat /\ q \in Nat /\ x \in Nat /\ y \in Nat /\ z \in Nat
  BY <1>2, CallCosts, RowSums
<1>5. wc \in Nat /\ wm \in Nat /\ wc <= wm
  BY <1>2, SlotsCost
<1>6. n \in Nat /\ m \in Nat /\ ledger \in Nat /\ Cap \in Nat /\ loop[l].remaining \in Nat
      /\ loop[l].remaining <= Cap /\ loop[l].spent \in Nat /\ loop[l].reading \in Nat
  <2>1. n \in Nat /\ PerPost(l) \in Nat /\ m = n + PerPost(l)
    BY AloneIs
  <2> HIDE DEF n, m
  <2> QED BY <1>1, <2>1, LoopsAre
<1>7. /\ loop[l].pc # "idle" /\ loop[l].remaining > 0 =>
           ledger + a <= Cap - loop[l].remaining + loop[l].spent + wc
      /\ loop[l].pc = "read" => ledger + c <= loop[l].reading + z
      /\ loop[l].pc = "call" => ledger + p < Cap + n
      /\ ledger + p < Cap + m
  BY DEF Bounded
<1>8. Bounded(l, meter, row, ledger + filed) <=>
        /\ meter.pc # "idle" /\ meter.remaining > 0 =>
             ledger + filed + b <= Cap - meter.remaining + meter.spent + wm
        /\ meter.pc = "read" => ledger + filed + more <= meter.reading + y
        /\ meter.pc = "call" => ledger + filed + q < Cap + n
        /\ ledger + filed + q < Cap + m
  BY DEF Bounded
<1>9. loop[l].pc = "read" => z + (more - c) <= x
  <2>1. loop[l].pc = "read" => \E k \in Slots(l) : calls[l][k] = None
    BY SoundIs DEF Sound, Placed
  <2> QED BY <1>2, <2>1, SpareGrows
<1>10. loop[l].pc # "idle"
  <2>1. calls[l] # [t \in Slots(l) |-> None]
    BY DEF Slots
  <2> QED BY <2>1, SoundIs DEF Sound, Placed
<1>11. filed + an + loop[l].spent <= ao + meter.spent /\ filed + so <= sn /\ filed + wn <= wo
  OBVIOUS
<1> HIDE DEF row, old, c, more, wc, wm, a, b, p, q, x, y, z, n, m, ao, an, wo, wn, so, sn
<1>12. meter.remaining > 0 => ledger + filed + b <= Cap - meter.remaining + meter.spent + wm
  <2> SUFFICES ASSUME meter.remaining > 0
               PROVE  ledger + filed + b <= Cap - meter.remaining + meter.spent + wm
    OBVIOUS
  <2>1. ledger + a <= Cap - loop[l].remaining + loop[l].spent + wc
    BY <1>7, <1>10
  <2>2. filed + b + loop[l].spent <= a + meter.spent
    BY <1>2, <1>3, <1>4, <1>6, <1>11
  <2> QED BY <1>2, <1>4, <1>5, <1>6, <2>1, <2>2
<1>13. meter.pc = "read" => ledger + filed + more <= meter.reading + y
  <2> SUFFICES ASSUME loop[l].pc = "read" PROVE ledger + filed + more <= loop[l].reading + y
    OBVIOUS
  <2>1. ledger + c <= loop[l].reading + z /\ z + (more - c) <= x
    BY <1>7, <1>9
  <2>2. filed + x <= y
    BY <1>3, <1>4, <1>11
  <2> QED BY <1>2, <1>4, <1>6, <2>1, <2>2
<1>14. filed + q <= p
  BY <1>3, <1>4, <1>11
<1>15. meter.pc = "call" => ledger + filed + q < Cap + n
  BY <1>4, <1>6, <1>7, <1>14
<1>16. ledger + filed + q < Cap + m
  BY <1>4, <1>6, <1>7, <1>14
<1> QED BY <1>1, <1>8, <1>12, <1>13, <1>15, <1>16

LEMMA AnswerBounded ==
  ASSUME Inv, NEW l \in Loops, Bounded(l, loop[l], calls[l], ledger), NEW s \in Slots(l),
         NEW cost \in Prices, NEW next \in {"answered", "second"}, Answer(l, s, cost, next)
  PROVE  Bounded(l, loop'[l], calls'[l], ledger')
<1> DEFINE largest == Higher(loop[l].largest, cost)
           call == [calls[l][s] EXCEPT !.at = next, !.first = cost]
           new == [loop[l] EXCEPT !.returned = TRUE, !.largest = largest]
<1>1. /\ TypeOK /\ calls[l][s] # None /\ calls[l][s].at = "asked" /\ (next = "second" => l \in Rescores)
      /\ ledger' = ledger /\ Moves(l, new, [calls[l] EXCEPT ![s] = call])
  BY SoundIs, AnswerMoves
<1>2. cost \in Nat /\ cost <= Dearest /\ cost <= PerPost(l) /\ Dearest \in Nat /\ PerPost(l) \in Nat
      /\ (l \in Rescores => PerPost(l) = Dearest + Dearest)
  BY DearestIs, PerPostIs
<1>3. /\ largest \in Nat /\ loop[l].largest <= largest /\ cost <= largest /\ largest <= PerPost(l)
  BY <1>1, <1>2, CallIs DEF Higher
<1>4. calls[l][s].first = 0 /\ calls[l][s].second = 0
  BY <1>1, CallIs DEF CallSound
<1>5. call \in Calls /\ call.at = next /\ call.first = cost /\ call.second = 0
  BY <1>1, <1>2, <1>4, CallIs DEF Calls
<1> HIDE DEF largest
<1>6. /\ new.pc = loop[l].pc /\ new.remaining = loop[l].remaining /\ new.reading = loop[l].reading
      /\ new.largest = largest /\ new.spent = loop[l].spent /\ loop[l].spent \in Nat
  BY <1>1, LoopsAre DEF Meters
<1> HIDE DEF new, call
<1>7. /\ Ahead(calls[l][s]) = 0 /\ Ahead(call) = 0
      /\ Spare(largest, calls[l][s]) = 0 /\ Spare(largest, call) \in Nat
      /\ Worst(l, calls[l][s]) = PerPost(l) /\ Worst(l, call) <= PerPost(l) /\ Worst(l, call) \in Nat
  <2>1. Spare(largest, call) \in Nat /\ Worst(l, call) \in Nat
    BY <1>3, <1>5, CallCosts
  <2>2. call # None
    BY <1>5, MeterAssumption
  <2>3. Worst(l, call) <= PerPost(l)
    BY <1>1, <1>2, <1>5, <2>2 DEF Worst
  <2> QED BY <1>1, <1>5, <2>1, <2>2, <2>3 DEF Ahead, Spare, Worst
<1>8. /\ ledger' = ledger + 0 /\ 0 + Ahead(call) + loop[l].spent <= Ahead(calls[l][s]) + new.spent
      /\ 0 + Spare(new.largest, calls[l][s]) <= Spare(new.largest, call)
      /\ 0 + Worst(l, call) <= Worst(l, calls[l][s])
  BY <1>1, <1>6, <1>7, LoopsAre
<1> QED BY <1>1, <1>3, <1>5, <1>6, <1>8, SlotBounded

LEMMA AnswerSecondBounded ==
  ASSUME Inv, NEW l \in Loops, Bounded(l, loop[l], calls[l], ledger), NEW s \in Slots(l),
         NEW cost \in Prices, AnswerSecond(l, s, cost)
  PROVE  Bounded(l, loop'[l], calls'[l], ledger')
<1> DEFINE first == calls[l][s].first
           largest == Higher(loop[l].largest, first + cost)
           call == [calls[l][s] EXCEPT !.at = "rescored", !.second = cost]
           spent == loop[l].spent + cost
           sinceRead == loop[l].sinceRead + 1
           new == [loop[l] EXCEPT !.largest = largest, !.spent = spent, !.sinceRead = sinceRead]
<1>1. /\ TypeOK /\ calls[l][s] # None /\ calls[l][s].at = "second"
      /\ ledger' = ledger /\ Moves(l, new, [calls[l] EXCEPT ![s] = call])
  BY SoundIs, AnswerSecondMoves
<1>2. cost \in Nat /\ cost <= Dearest /\ Dearest \in Nat /\ first \in Nat /\ first <= Dearest
      /\ calls[l][s].second = 0 /\ l \in Rescores
  BY <1>1, DearestIs, CallIs DEF CallSound
<1>3. /\ largest \in Nat /\ loop[l].largest <= largest /\ first + cost <= largest /\ largest <= PerPost(l)
  BY <1>1, <1>2, CallIs, PerPostIs DEF Higher
<1>5. call \in Calls /\ call.at = "rescored" /\ call.first = first /\ call.second = cost
  BY <1>1, <1>2, CallIs DEF Calls
<1> HIDE DEF largest, sinceRead
<1>6. /\ new.pc = loop[l].pc /\ new.remaining = loop[l].remaining /\ new.reading = loop[l].reading
      /\ new.largest = largest /\ new.spent = spent /\ loop[l].spent \in Nat
  <2> HIDE DEF spent
  <2> QED BY <1>1, LoopsAre DEF Meters
<1> HIDE DEF new, call
<1>7. /\ Ahead(calls[l][s]) = 0 /\ Ahead(call) = cost
      /\ Spare(largest, calls[l][s]) = 0 /\ Spare(largest, call) \in Nat
      /\ Worst(l, calls[l][s]) = first + Dearest /\ Worst(l, call) = first + cost
  <2>1. Spare(largest, call) \in Nat
    BY <1>3, <1>5, CallCosts
  <2>2. call # None
    BY <1>5, MeterAssumption
  <2> QED BY <1>1, <1>5, <2>1, <2>2 DEF Ahead, Spare, Worst
<1> HIDE DEF first
<1>8. /\ ledger' = ledger + 0 /\ 0 + Ahead(call) + loop[l].spent <= Ahead(calls[l][s]) + new.spent
      /\ 0 + Spare(new.largest, calls[l][s]) <= Spare(new.largest, call)
      /\ 0 + Worst(l, call) <= Worst(l, calls[l][s])
  BY <1>1, <1>2, <1>6, <1>7, LoopsAre
<1>9. loop[l].largest <= new.largest /\ new.largest <= PerPost(l)
  BY <1>3, <1>6
<1> QED BY <1>1, <1>5, <1>6, <1>8, <1>9, SlotBounded

LEMMA WriteSecondBounded ==
  ASSUME Inv, NEW l \in Loops, Bounded(l, loop[l], calls[l], ledger), NEW s \in Slots(l), WriteSecond(l, s)
  PROVE  Bounded(l, loop'[l], calls'[l], ledger')
<1> DEFINE old == calls[l][s]
           call == [old EXCEPT !.at = "answered", !.second = 0]
           c == loop[l].largest
<1>1. /\ TypeOK /\ old # None /\ old.at = "rescored" /\ ledger' = ledger + old.second
      /\ Moves(l, loop[l], [calls[l] EXCEPT ![s] = call])
  BY SoundIs, WriteSecondMoves
<1>2. old \in Calls /\ old.first \in Nat /\ old.second \in Nat /\ old.first + old.second <= c
      /\ c \in Nat /\ c <= PerPost(l)
  BY <1>1, CallIs DEF CallSound
<1>5. call \in Calls /\ call.at = "answered" /\ call.first = old.first /\ call.second = 0 /\ call # None
  <2>1. call \in Calls /\ call.at = "answered" /\ call.first = old.first /\ call.second = 0
    <3> HIDE DEF old
    <3> QED BY <1>2 DEF Calls
  <2> QED BY <1>1, <2>1, CallIs
<1> HIDE DEF call
<1>7. /\ Ahead(old) = old.second /\ Ahead(call) = 0
      /\ Spare(c, old) = c - old.first - old.second /\ Spare(c, call) = c - old.first
      /\ Worst(l, old) = old.first + old.second /\ Worst(l, call) = old.first
  BY <1>1, <1>2, <1>5 DEF Ahead, Spare, Worst, Higher
<1>8. /\ old.second + Ahead(call) + loop[l].spent <= Ahead(old) + loop[l].spent
      /\ old.second + Spare(c, old) <= Spare(c, call)
      /\ old.second + Worst(l, call) <= Worst(l, old) /\ c <= c
  BY <1>1, <1>2, <1>7, LoopsAre
<1> QED BY <1>1, <1>2, <1>5, <1>8, SlotBounded

LEMMA CountBounded ==
  ASSUME Inv, NEW l \in Loops, Bounded(l, loop[l], calls[l], ledger), NEW s \in Slots(l), Count(l, s)
  PROVE  Bounded(l, loop'[l], calls'[l], ledger')
<1> DEFINE old == calls[l][s]
           call == [old EXCEPT !.at = "counted"]
           spent == loop[l].spent + old.first
           sinceRead == loop[l].sinceRead + 1
           new == [loop[l] EXCEPT !.spent = spent, !.sinceRead = sinceRead]
           c == loop[l].largest
<1>1. /\ TypeOK /\ old # None /\ old.at = "answered" /\ ledger' = ledger
      /\ Moves(l, new, [calls[l] EXCEPT ![s] = call])
  BY SoundIs, CountMoves
<1>2. old \in Calls /\ old.first \in Nat /\ old.second = 0 /\ old.first + old.second <= c
      /\ c \in Nat /\ c <= PerPost(l)
  BY <1>1, CallIs DEF CallSound
<1>5. call \in Calls /\ call.at = "counted" /\ call.first = old.first /\ call.second = 0 /\ call # None
  <2>1. call \in Calls /\ call.at = "counted" /\ call.first = old.first /\ call.second = 0
    <3> HIDE DEF old
    <3> QED BY <1>2 DEF Calls
  <2> QED BY <1>1, <2>1, CallIs
<1> HIDE DEF call
<1>6. /\ new.pc = loop[l].pc /\ new.remaining = loop[l].remaining /\ new.reading = loop[l].reading
      /\ new.largest = c /\ new.spent = spent /\ loop[l].spent \in Nat
  <2> HIDE DEF spent, sinceRead
  <2> QED BY <1>1, LoopsAre DEF Meters
<1> HIDE DEF new
<1>7. /\ Ahead(old) = 0 /\ Ahead(call) = old.first
      /\ Spare(c, old) = c - old.first /\ Spare(c, call) = c - old.first
      /\ Worst(l, old) = old.first /\ Worst(l, call) = old.first
  BY <1>1, <1>2, <1>5 DEF Ahead, Spare, Worst, Higher
<1>8. /\ ledger' = ledger + 0 /\ 0 + Ahead(call) + loop[l].spent <= Ahead(old) + new.spent
      /\ 0 + Spare(new.largest, old) <= Spare(new.largest, call)
      /\ 0 + Worst(l, call) <= Worst(l, old)
      /\ loop[l].largest <= new.largest /\ new.largest <= PerPost(l)
  BY <1>1, <1>2, <1>6, <1>7, LoopsAre
<1> QED BY <1>1, <1>5, <1>6, <1>8, SlotBounded

LEMMA WriteBounded ==
  ASSUME Inv, NEW l \in Loops, Bounded(l, loop[l], calls[l], ledger), NEW s \in Slots(l), Write(l, s)
  PROVE  Bounded(l, loop'[l], calls'[l], ledger')
<1> DEFINE old == calls[l][s]
           pc == IF loop[l].pc = "waiting" THEN "next" ELSE loop[l].pc
           new == [loop[l] EXCEPT !.pc = pc]
           c == loop[l].largest
<1>1. /\ TypeOK /\ old # None /\ old.at = "counted" /\ ledger' = ledger + old.first
      /\ Moves(l, new, [calls[l] EXCEPT ![s] = None])
  BY SoundIs, WriteMoves
<1>2. old \in Calls /\ old.first \in Nat /\ old.second = 0 /\ old.first + old.second <= c
      /\ c \in Nat /\ c <= PerPost(l)
  BY <1>1, CallIs DEF CallSound
<1>6. /\ new.pc = pc /\ new.remaining = loop[l].remaining /\ new.reading = loop[l].reading
      /\ new.largest = c /\ new.spent = loop[l].spent /\ loop[l].spent \in Nat
  <2> HIDE DEF pc
  <2> QED BY <1>1, LoopsAre DEF Meters
<1> HIDE DEF new
<1>7. /\ Ahead(old) = old.first /\ Ahead(None) = 0
      /\ Spare(c, old) = c - old.first /\ Spare(c, None) = c
      /\ Worst(l, old) = old.first /\ Worst(l, None) = 0
  BY <1>1, <1>2 DEF Ahead, Spare, Worst, Higher
<1>8. /\ old.first + Ahead(None) + loop[l].spent <= Ahead(old) + new.spent
      /\ old.first + Spare(new.largest, old) <= Spare(new.largest, None)
      /\ old.first + Worst(l, None) <= Worst(l, old)
      /\ loop[l].largest <= new.largest /\ new.largest <= PerPost(l)
  BY <1>1, <1>2, <1>6, <1>7, LoopsAre
<1>9. new.pc = loop[l].pc \/ (loop[l].pc = "waiting" /\ new.pc = "next")
  BY <1>6
<1> HIDE DEF pc
<1> QED BY <1>1, <1>2, <1>6, <1>8, <1>9, SlotBounded

LEMMA CrashBounded ==
  ASSUME Inv, NEW l \in Loops, Bounded(l, loop[l], calls[l], ledger), NEW again \in 0..Posts[l],
         Crash(l, again)
  PROVE  Bounded(l, loop'[l], calls'[l], ledger')
<1> DEFINE row == [s \in Slots(l) |-> None]
           worst == WorstIn(l, calls[l])
           top == Cap + Width[l] * PerPost(l)
<1>1. TypeOK /\ loop'[l] = Idle(again) /\ calls'[l] = row /\ ledger' = ledger
  BY AloneIs, CrashMoves, MovedIs
<1>2. WorstIn(l, row) = 0
  <2>1. row \in Rows(l)
    BY DEF Rows
  <2> HIDE DEF row
  <2> QED BY <2>1, RowSums DEF row
<1>3. ledger + worst < top /\ worst \in Nat /\ ledger \in Nat /\ top \in Nat
  <2>1. ledger + worst < top
    BY DEF Bounded
  <2>2. (Width[l] - 1) * PerPost(l) \in Nat /\ Cap \in Nat /\ PerPost(l) \in Nat
        /\ Width[l] * PerPost(l) = (Width[l] - 1) * PerPost(l) + PerPost(l)
    BY AloneIs
  <2> QED BY <2>1, <2>2, AloneIs
<1> HIDE DEF row, worst, top
<1>4. ledger + WorstIn(l, row) < top
  BY <1>2, <1>3
<1>5. Idle(again).pc = "idle"
  BY DEF Idle
<1>6. Bounded(l, Idle(again), row, ledger)
  BY <1>4, <1>5 DEF Bounded, top
<1> QED BY <1>1, <1>6

LEMMA BoundedStep ==
  ASSUME Inv, NEW l \in Loops, Bounded(l, loop[l], calls[l], ledger), Steps(l)
  PROVE  Bounded(l, loop'[l], calls'[l], ledger')
<1>0. TypeOK
  BY SoundIs
<1>1. CASE Begin(l)
  BY <1>1, BeginBounded
<1>2. ASSUME NEW pc \in {"closing", "waiting", "done", "stopped"}, loop[l].pc # "idle",
             Moves(l, [loop[l] EXCEPT !.pc = pc], calls[l]), ledger' = ledger
      PROVE  Bounded(l, loop'[l], calls'[l], ledger')
  <2> DEFINE new == [loop[l] EXCEPT !.pc = pc]
  <2>1. loop'[l] = new /\ calls'[l] = calls[l]
    BY <1>0, <1>2, MovedIs
  <2>2. /\ new.pc = pc /\ new.remaining = loop[l].remaining /\ new.spent = loop[l].spent
        /\ new.largest = loop[l].largest
    BY <1>0, LoopsAre DEF Meters
  <2> HIDE DEF new
  <2>3. Bounded(l, new, calls[l], ledger)
    BY <1>2, <2>2, PlaceBounded
  <2> QED BY <1>2, <2>1, <2>3
<1>3. CASE NoneLeft(l)
  BY <1>0, <1>2, <1>3, NoneLeftMoves
<1>4. CASE Wait(l)
  BY <1>0, <1>2, <1>4, WaitMoves
<1>5. CASE End(l)
  <2> DEFINE pc == IF loop[l].pc = "closing" THEN "done" ELSE "stopped"
  <2>1. pc \in {"closing", "waiting", "done", "stopped"}
    OBVIOUS
  <2>2. loop[l].pc # "idle" /\ Moves(l, [loop[l] EXCEPT !.pc = pc], calls[l]) /\ ledger' = ledger
    BY <1>0, <1>5, EndMoves
  <2> HIDE DEF pc
  <2> QED BY <1>2, <2>1, <2>2
<1>6. CASE Ask(l)
  BY <1>6, AskBounded
<1>7. CASE Read(l)
  BY <1>7, ReadBounded
<1>8. CASE Renew(l)
  BY <1>8, RenewBounded
<1>9. CASE Call(l)
  BY <1>9, CallBounded
<1>10. ASSUME NEW s \in Slots(l), Calling(l, s) PROVE Bounded(l, loop'[l], calls'[l], ledger')
  <2>1. ASSUME NEW cost \in Prices, NEW next \in {"answered", "second"}, Answer(l, s, cost, next)
        PROVE  Bounded(l, loop'[l], calls'[l], ledger')
    BY <2>1, AnswerBounded
  <2>2. ASSUME NEW cost \in Prices, AnswerSecond(l, s, cost)
        PROVE  Bounded(l, loop'[l], calls'[l], ledger')
    BY <2>2, AnswerSecondBounded
  <2>3. CASE WriteSecond(l, s)
    BY <2>3, WriteSecondBounded
  <2>4. CASE Count(l, s)
    BY <2>4, CountBounded
  <2>5. CASE Write(l, s)
    BY <2>5, WriteBounded
  <2> QED BY <1>10, <2>1, <2>2, <2>3, <2>4, <2>5 DEF Calling
<1>11. ASSUME NEW again \in 0..Posts[l], Crash(l, again)
       PROVE  Bounded(l, loop'[l], calls'[l], ledger')
  BY <1>11, CrashBounded
<1> QED BY <1>1, <1>3, <1>4, <1>5, <1>6, <1>7, <1>8, <1>9, <1>10, <1>11 DEF Steps

\* Only a loop of this behaviour takes a step.
LEMMA ActiveSteps == ASSUME Inv, NEW l \in Loops, Steps(l) PROVE l \in active /\ active' = active
<1>0. TypeOK
  BY SoundIs
<1>1. loop[l].pc # "idle" => l \in active
  BY SoundIs DEF Sound, Placed
<1>2. CASE Begin(l)
  BY <1>2 DEF Begin
<1>3. ASSUME NEW s \in Slots(l), Calling(l, s) PROVE l \in active /\ active' = active
  <2>1. calls[l][s] # None /\ active' = active
    BY <1>3 DEF Calling, Answer, AnswerSecond, WriteSecond, Count, Write
  <2>2. calls[l] # [t \in Slots(l) |-> None]
    BY <2>1 DEF Slots
  <2> QED BY <2>1, <2>2, <1>1, SoundIs DEF Sound, Placed
<1>4. CASE \/ NoneLeft(l) \/ Wait(l) \/ Ask(l) \/ Read(l) \/ Renew(l) \/ Call(l) \/ End(l)
           \/ \E again \in 0..Posts[l] : Crash(l, again)
  <2>1. loop[l].pc # "idle" /\ active' = active
    BY <1>4 DEF NoneLeft, Wait, Ask, Read, Renew, Call, End, Crash
  <2> QED BY <1>1, <2>1
<1> QED BY <1>2, <1>3, <1>4 DEF Steps

LEMMA OneOfOne ==
  ASSUME Inv, Cardinality(active) = 1, NEW k \in active, NEW l \in active
  PROVE  k = l
<1>1. IsFiniteSet(active)
  BY MeterAssumption, FS_Subset DEF Inv, TypeOK
<1>2. PICK x : active = {x}
  BY <1>1, FS_Singleton
<1> QED BY <1>2

LEMMA AloneInit == Init => AloneInv
<1> SUFFICES ASSUME Init, NEW l \in active PROVE Bounded(l, loop[l], calls[l], ledger)
  BY DEF AloneInv
<1>1. Inv /\ l \in Loops
  BY InitInv, MeterAssumption DEF Init
<1>2. loop[l] = Idle(Posts[l]) /\ calls[l] = [s \in Slots(l) |-> None] /\ ledger = 0
  BY <1>1 DEF Init
<1>3. WorstIn(l, calls[l]) = 0
  BY <1>1, <1>2, AloneIs, RowSums
<1>4. loop[l].pc = "idle"
  BY <1>2 DEF Idle
<1>5. ledger + WorstIn(l, calls[l]) < Cap + Width[l] * PerPost(l)
  <2> DEFINE gap == (Width[l] - 1) * PerPost(l)
  <2>1. gap \in Nat /\ Width[l] * PerPost(l) = gap + PerPost(l) /\ PerPost(l) \in Nat
    BY <1>1, AloneIs
  <2>2. Cap \in Nat /\ Cap > 0
    BY MeterAssumption
  <2> HIDE DEF gap
  <2> QED BY <1>2, <1>3, <2>1, <2>2
<1> QED BY <1>4, <1>5 DEF Bounded

\* AloneInv holds with it.
THEOREM Alone == Spec => [](Inv /\ AloneInv)
<1>1. Inv /\ AloneInv /\ [Next]_vars => AloneInv'
  <2> SUFFICES ASSUME Inv, AloneInv, [Next]_vars, NEW l \in active', Cardinality(active') = 1
               PROVE  Bounded(l, loop[l], calls[l], ledger)'
    BY DEF AloneInv
  <2>1. CASE UNCHANGED vars \/ Rest
    <3>1. UNCHANGED vars
      BY <2>1 DEF Rest
    <3>2. Bounded(l, loop[l], calls[l], ledger)
      BY <3>1 DEF AloneInv, vars
    <3> QED BY <3>1, <3>2 DEF vars, Bounded, AheadIn, SpareIn, WorstIn, Slots
  <2>2. ASSUME NEW k \in Loops, Steps(k) PROVE Bounded(l, loop[l], calls[l], ledger)'
    <3>1. k \in active /\ active' = active
      BY <2>2, ActiveSteps
    <3>2. l \in Loops /\ l = k /\ Bounded(l, loop[l], calls[l], ledger)
      BY <3>1, OneOfOne DEF AloneInv
    <3>3. Bounded(l, loop'[l], calls'[l], ledger')
      BY <2>2, <3>2, BoundedStep
    <3> QED BY <3>3 DEF Bounded, AheadIn, SpareIn, WorstIn, Slots
  <2> QED BY <2>1, <2>2, NextIs
<1>2. Inv /\ [Next]_vars => Inv'
  <2> SUFFICES ASSUME Inv, [Next]_vars PROVE Inv'
    OBVIOUS
  <2>1. CASE UNCHANGED vars \/ Rest
    BY <2>1, InvKept DEF Rest
  <2>2. ASSUME NEW l \in Loops, Steps(l) PROVE Inv'
    BY <2>2, InvStep
  <2> QED BY <2>1, <2>2, NextIs
<1> QED BY InitInv, AloneInit, <1>1, <1>2, PTL DEF Spec

\* What a loop that runs alone owes and has in the ledger is what was billed and not lost.
LEMMA AloneOwes ==
  ASSUME Inv, Cardinality(active) = 1, NEW l \in active
  PROVE  l \in Loops /\ billed - lost = ledger + OwedIn(l, calls[l])
<1> DEFINE v == [k \in Loops |-> OwedIn(k, calls[k])]
<1>1. l \in Loops /\ TypeOK
  BY MeterAssumption DEF Inv, TypeOK
<1>2. v \in [Loops -> Nat]
  <2>1. \A k \in Loops : OwedIn(k, calls[k]) \in Nat
    BY SoundIs
  <2> QED BY <2>1
<1>3. \A k \in Loops \ {l} : v[k] = 0
  <2> TAKE k \in Loops \ {l}
  <2>1. k \notin active
    BY OneOfOne
  <2>2. calls[k] = [s \in Slots(k) |-> None] /\ calls[k] \in Rows(k)
    BY <1>1, <2>1, SoundIs, LoopsAre DEF Sound, Placed
  <2>3. OwedIn(k, calls[k]) = 0
    BY <2>2, RowSums
  <2> QED BY <2>3
<1>4. v[l] = OwedIn(l, calls[l]) /\ billed = ledger + lost + SumFunction(v)
  BY <1>1 DEF Inv, Books
<1> HIDE DEF v
<1>5. SumFunction(v) = v[l] /\ v[l] \in Nat
  BY <1>1, <1>2, <1>3, MeterAssumption, SumAtLeast
<1> QED BY <1>1, <1>4, <1>5, LoopsAre

\* A call owes at most what it may add to the ledger.
LEMMA OwedBounded ==
  ASSUME Inv, NEW l \in Loops
  PROVE  OwedIn(l, calls[l]) <= WorstIn(l, calls[l])
<1> DEFINE v == [s \in Slots(l) |-> Owed(calls[l][s])]
           w == [s \in Slots(l) |-> Worst(l, calls[l][s])]
<1>1. \A s \in Slots(l) : calls[l][s] \in Calls \cup {None} /\ CallSound(l, loop[l].largest, calls[l][s])
  BY AloneIs, LoopsAre
<1>2. v \in [Slots(l) -> Nat] /\ w \in [Slots(l) -> Nat]
  BY <1>1, CallCosts, 0 \in Nat
<1>3. \A s \in Slots(l) : v[s] <= w[s]
  <2> TAKE s \in Slots(l)
  <2>1. calls[l][s] # None => calls[l][s].first \in Nat /\ calls[l][s].second \in Nat
    BY <1>1 DEF Calls
  <2>2. Owed(calls[l][s]) <= Worst(l, calls[l][s])
    BY <1>1, <2>1, DearestIs, PerPostIs DEF Owed, Worst, CallSound
  <2> QED BY <2>2
<1>4. OwedIn(l, calls[l]) = SumFunction(v) /\ WorstIn(l, calls[l]) = SumFunction(w)
  BY DEF OwedIn, WorstIn
<1> HIDE DEF v, w
<1> QED BY <1>2, <1>3, <1>4, SlotsAre, SumMonotone

\* A loop that runs alone passes the cap by less than a post for each of its slots,
\* however calls, counts, rows and readings fall, and whatever the posts cost up to the
\* dearest (budget.ts:750, docs/pipeline.md:111).
THEOREM AloneIsBounded ==
  Spec => [](\A l \in active : Cardinality(active) = 1 => billed - lost < Cap + Width[l] * PerPost(l))
<1>1. ASSUME Inv, AloneInv, NEW l \in active, Cardinality(active) = 1
      PROVE  billed - lost < Cap + Width[l] * PerPost(l)
  <2>1. l \in Loops /\ billed - lost = ledger + OwedIn(l, calls[l])
    BY <1>1, AloneOwes
  <2>2. ledger + WorstIn(l, calls[l]) < Cap + Width[l] * PerPost(l)
    BY <1>1 DEF AloneInv, Bounded
  <2>3. OwedIn(l, calls[l]) <= WorstIn(l, calls[l]) /\ OwedIn(l, calls[l]) \in Nat
        /\ WorstIn(l, calls[l]) \in Nat /\ ledger \in Nat
    BY <1>1, <2>1, OwedBounded, AloneIs, SoundIs
  <2>4. Cap + Width[l] * PerPost(l) \in Nat
    <3>1. (Width[l] - 1) * PerPost(l) \in Nat /\ Cap \in Nat /\ PerPost(l) \in Nat
          /\ Width[l] * PerPost(l) = (Width[l] - 1) * PerPost(l) + PerPost(l)
      BY <1>1, <2>1, AloneIs
    <3> QED BY <3>1
  <2> DEFINE owed == OwedIn(l, calls[l])
             worst == WorstIn(l, calls[l])
             top == Cap + Width[l] * PerPost(l)
  <2> HIDE DEF owed, worst, top
  <2>5. ledger + owed < top
    BY <2>2, <2>3, <2>4 DEF owed, worst, top
  <2> QED BY <2>1, <2>5 DEF owed, top
<1>2. Inv /\ AloneInv =>
        \A l \in active : Cardinality(active) = 1 => billed - lost < Cap + Width[l] * PerPost(l)
  BY <1>1
<1> QED BY Alone, <1>2, PTL

\* The bound that the runs check, of a loop that runs alone.
THEOREM AloneKeepsTheBound == Spec => [](Cardinality(active) = 1 => OvershootIsBounded)
<1>1. ASSUME Inv, Cardinality(active) = 1,
             \A l \in active : Cardinality(active) = 1 => billed - lost < Cap + Width[l] * PerPost(l)
      PROVE  OvershootIsBounded
  <2>1. IsFiniteSet(active) /\ active \subseteq Loops
    BY <1>1, MeterAssumption, FS_Subset DEF Inv, TypeOK
  <2>2. PICK l : active = {l}
    BY <1>1, <2>1, FS_Singleton
  <2>3. l \in Loops /\ billed - lost < Cap + Width[l] * PerPost(l) /\ Width[l] \in Nat /\ Width[l] > 0
    BY <1>1, <2>1, <2>2, PerPostIs
  <2> DEFINE slots == [k \in Loops |-> Lower(0 + 1, 2) * (Width[k] - 1)]
  <2>4. Beyond = 1 + 0 * Recheck + SumFunctionOnSet(slots, active)
    <3>1. Cardinality(active) - 1 = 0
      BY <1>1
    <3> QED BY <3>1 DEF Beyond
  <2>5. SumFunctionOnSet(slots, active) = Width[l] - 1
    <3>1. slots[l] = Width[l] - 1
      <4>1. Lower(0 + 1, 2) = 1
        BY DEF Lower
      <4>2. slots[l] = Lower(0 + 1, 2) * (Width[l] - 1)
        BY <2>3
      <4> HIDE DEF slots
      <4> QED BY <2>3, <4>1, <4>2
    <3> HIDE DEF slots
    <3>2. First(active) = l /\ active \ {First(active)} = {} /\ active # {} /\ active \in SUBSET active
      BY <2>2 DEF First
    <3>3. /\ Sums(slots, active)[{}] = 0
          /\ Sums(slots, active)[active] = slots[First(active)] + Sums(slots, active)[active \ {First(active)}]
      <4>1. \A f : /\ Sums(f, active)[{}] = 0
                  /\ \A s \in SUBSET active : s # {} =>
                       Sums(f, active)[s] = f[First(s)] + Sums(f, active)[s \ {First(s)}]
        BY <2>1, SumsExist
      <4> QED BY <3>2, <4>1
    <3>4. Sums(slots, active)[active] = (Width[l] - 1) + 0
      BY <3>1, <3>2, <3>3
    <3>5. SumFunctionOnSet(slots, active) = (Width[l] - 1) + 0
      BY <3>4, SumOnSetIs
    <3> QED BY <2>3, <3>5
  <2> HIDE DEF slots
  <2>6. Beyond = Width[l]
    <3>1. 0 * Recheck = 0
      BY MeterAssumption
    <3> QED BY <2>3, <2>4, <2>5, <3>1
  <2>7. PerPost(l) \in {PerPost(k) : k \in active} /\ \A k \in active : PerPost(k) <= PerPost(l)
    BY <2>2, <2>3, PerPostIs
  <2>8. billed - lost < Cap + Beyond * PerPost(l)
    BY <2>3, <2>6
  <2> QED BY <2>7, <2>8 DEF OvershootIsBounded
<1>2. Inv /\ (\A l \in active : Cardinality(active) = 1 => billed - lost < Cap + Width[l] * PerPost(l))
        => (Cardinality(active) = 1 => OvershootIsBounded)
  BY <1>1
<1> QED BY Accounts, AloneIsBounded, <1>2, PTL

\* What the concurrency test says of one post holds of a loop that keeps one call in
\* flight (worker/classify-concurrency.test.ts:153).
THEOREM OneAtATime ==
  (\A l \in Loops : Width[l] = 1) => (Spec => []OnePostOver)
<1> SUFFICES ASSUME \A l \in Loops : Width[l] = 1 PROVE Spec => []OnePostOver
  OBVIOUS
<1>1. ASSUME Inv, \A l \in active : Cardinality(active) = 1 => billed - lost < Cap + Width[l] * PerPost(l)
      PROVE  OnePostOver
  <2> SUFFICES ASSUME NEW l \in active, Cardinality(active) = 1
               PROVE  billed - lost < Cap + PerPost(l)
    BY DEF OnePostOver
  <2>1. l \in Loops
    BY <1>1, MeterAssumption DEF Inv, TypeOK
  <2>2. Width[l] * PerPost(l) = PerPost(l)
    <3>1. Width[l] = 1 /\ PerPost(l) \in Nat
      BY <2>1, PerPostIs
    <3> QED BY <3>1
  <2> QED BY <1>1, <2>2
<1>2. Inv /\ (\A l \in active : Cardinality(active) = 1 => billed - lost < Cap + Width[l] * PerPost(l))
        => OnePostOver
  BY <1>1
<1> QED BY Accounts, AloneIsBounded, <1>2, PTL
=============================================================================
