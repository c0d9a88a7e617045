------------------------------- MODULE Meter -------------------------------
(***************************************************************************)
(* The spend meter (budget/budget.ts, createSpendMeter) under the loops     *)
(* that ask it before each model call: the classifier's, with several calls *)
(* in flight (worker/classify.ts), and triage's, one at a time              *)
(* (worker/filter.ts).  A loop believes what the ledger said when it last   *)
(* read it, and what it has counted since; a call is counted when its       *)
(* answer is dealt with, and in the ledger when its row is written.         *)
(***************************************************************************)
EXTENDS Integers, FiniteSets, Functions

CONSTANTS
  Loops,      \* loops over one monitor's posts
  Width,      \* loop -> calls it keeps in flight
  Posts,      \* loop -> posts it has
  Rescores,   \* the loops that may ask a second model
  Prices,     \* what one call may cost
  Cap,        \* the monthly cap
  Recheck,    \* calls counted between two readings of the ledger (20)
  None,       \* no call
  Together,   \* the sets of loops that may run at once
  MaxCrashes  \* bound: set of loops -> loops that die

\* A call in flight: its place, and what the first and the second model cost, once known.
Calls == [at : {"asked", "answered", "second", "rescored", "counted"}, first : Nat, second : Nat]

\* What a call may cost has a ceiling: the tokens of a request and of an answer have one.
ASSUME MeterAssumption ==
  /\ IsFiniteSet(Loops)
  /\ Width \in [Loops -> Nat \ {0}] /\ Posts \in [Loops -> Nat]
  /\ Rescores \subseteq Loops
  /\ Prices \subseteq Nat \ {0} /\ \E p \in Prices : \A q \in Prices : q <= p
  /\ None \notin Calls
  /\ {Cap, Recheck} \subseteq Nat \ {0}
  /\ Together \subseteq SUBSET Loops /\ MaxCrashes \in [Together -> Nat]

VARIABLES
  active,   \* the loops of this behaviour
  ledger,   \* what the rows of the month add up to
  billed,   \* what the calls that answered cost
  lost,     \* the part of it whose rows were never written
  loop,     \* loop -> its place and its meter
  calls,    \* loop -> slot -> the call in flight there
  crashes   \* loops that died so far

vars == <<active, ledger, billed, lost, loop, calls, crashes>>

Slots(l) == 1..Width[l]
InFlight(l) == {s \in Slots(l) : calls[l][s] # None}

Lower(a, b) == IF a < b THEN a ELSE b
Higher(a, b) == IF a < b THEN b ELSE a

\* A loop before its job starts.
Idle(left) ==
  [pc |-> "idle", left |-> left, remaining |-> 0, sinceRead |-> 0, spent |-> 0,
   returned |-> FALSE, largest |-> 0, reserved |-> 0, reading |-> 0]

Meters == [pc : {"idle", "next", "waiting", "reading", "read", "call", "closing", "stopping", "done",
                 "stopped"},
           left : Nat, remaining : 0..Cap, sinceRead : Nat, spent : Nat, returned : BOOLEAN,
           largest : Nat, reserved : Nat, reading : Nat]

Init ==
  /\ active \in Together
  /\ ledger = 0 /\ billed = 0 /\ lost = 0 /\ crashes = 0
  /\ loop = [l \in Loops |-> Idle(Posts[l])]
  /\ calls = [l \in Loops |-> [s \in Slots(l) |-> None]]

\* A slip of Remaining: below nothing.
RemainingSigned(sum) == Cap - sum

\* checkBudget: what is left of the cap, by the ledger.
Remaining(sum) == Higher(0, Cap - sum)

---------------------------------------------------------------------------
\* The loop.

\* createSpendMeter reads the ledger.
Begin(l) ==
  /\ l \in active /\ loop[l].pc = "idle"
  /\ loop' = [loop EXCEPT ![l].pc = "next", ![l].remaining = Remaining(ledger)]
  /\ UNCHANGED <<active, ledger, billed, lost, calls, crashes>>

\* No slot is free, or no call has said yet what one costs.
MustWait(l) ==
  \/ Cardinality(InFlight(l)) >= Width[l]
  \/ InFlight(l) # {} /\ ~loop[l].returned

\* The next post: there is none, or the loop waits for a call to settle, or asks the meter.
NoneLeft(l) ==
  /\ loop[l].pc = "next" /\ loop[l].left = 0
  /\ loop' = [loop EXCEPT ![l].pc = "closing"]
  /\ UNCHANGED <<active, ledger, billed, lost, calls, crashes>>

Wait(l) ==
  /\ loop[l].pc = "next" /\ loop[l].left > 0 /\ MustWait(l)
  /\ loop' = [loop EXCEPT ![l].pc = "waiting"]
  /\ UNCHANGED <<active, ledger, billed, lost, calls, crashes>>

\* What the calls in flight may cost, by the dearest post so far.
Reserved(l) == Cardinality(InFlight(l)) * loop[l].largest

\* exhausted(): the ledger was at the cap, or the estimate since is.
Exhausted(remaining, spent, reserved) == remaining = 0 \/ spent + reserved >= remaining

\* Once true it stays so for the posts that are left: no call is counted, nothing is read.
Verdict(remaining, spent, reserved) ==
  IF Exhausted(remaining, spent, reserved) THEN "stopping" ELSE "call"

\* So many calls were counted that the ledger is asked again.
ReadsAgain(l) == loop[l].sinceRead >= Recheck

Ask(l) ==
  /\ loop[l].pc = "next" /\ loop[l].left > 0 /\ ~MustWait(l)
  /\ loop' = [loop EXCEPT
       ![l].reserved = IF ReadsAgain(l) THEN Reserved(l) ELSE 0,
       ![l].pc = IF ReadsAgain(l) THEN "reading"
                 ELSE Verdict(loop[l].remaining, loop[l].spent, Reserved(l))]
  /\ UNCHANGED <<active, ledger, billed, lost, calls, crashes>>

\* The query runs, and later its answer arrives: what was counted until then is forgotten.
Read(l) ==
  /\ loop[l].pc = "reading"
  /\ loop' = [loop EXCEPT ![l].pc = "read", ![l].reading = ledger]
  /\ UNCHANGED <<active, ledger, billed, lost, calls, crashes>>

\* A slip of Renewed: what was counted before the reading is kept.
RenewedOver(meter, left) == [meter EXCEPT !.remaining = left, !.sinceRead = 0]

\* Another: what the reading said is not taken over.
RenewedStale(meter, left) == [meter EXCEPT !.sinceRead = 0, !.spent = 0]

Renewed(meter, left) == [meter EXCEPT !.remaining = left, !.sinceRead = 0, !.spent = 0]

Renew(l) ==
  /\ loop[l].pc = "read"
  /\ LET meter == Renewed(loop[l], Remaining(loop[l].reading)) IN
     loop' = [loop EXCEPT ![l] = [meter EXCEPT
       !.reading = 0, !.reserved = 0,
       !.pc = Verdict(meter.remaining, meter.spent, loop[l].reserved)]]
  /\ UNCHANGED <<active, ledger, billed, lost, calls, crashes>>

\* The call starts in a free slot.
Call(l) ==
  /\ loop[l].pc = "call"
  /\ LET slot == CHOOSE s \in Slots(l) \ InFlight(l) : \A t \in Slots(l) \ InFlight(l) : s <= t IN
     calls' = [calls EXCEPT ![l][slot] = [at |-> "asked", first |-> 0, second |-> 0]]
  /\ loop' = [loop EXCEPT ![l].pc = "next", ![l].left = @ - 1]
  /\ UNCHANGED <<active, ledger, billed, lost, crashes>>

\* The loop is over, for want of posts or of money, and waits for the calls in flight.
End(l) ==
  /\ loop[l].pc \in {"closing", "stopping"} /\ InFlight(l) = {}
  /\ loop' = [loop EXCEPT ![l].pc = IF @ = "closing" THEN "done" ELSE "stopped"]
  /\ UNCHANGED <<active, ledger, billed, lost, calls, crashes>>

---------------------------------------------------------------------------
\* A call in flight.

\* The model answers, and a second one may be asked about the post.
Answer(l, s, cost, next) ==
  /\ calls[l][s] # None /\ calls[l][s].at = "asked"
  /\ next = "second" => l \in Rescores
  /\ calls' = [calls EXCEPT ![l][s] = [calls[l][s] EXCEPT !.at = next, !.first = cost]]
  /\ billed' = billed + cost
  /\ loop' = [loop EXCEPT ![l].returned = TRUE, ![l].largest = Higher(@, cost)]
  /\ UNCHANGED <<active, ledger, lost, crashes>>

\* With a second model, a post costs both calls.
Largest(largest, first, second) == Higher(largest, first + second)

\* meter.spent.
Counted(meter, cost) ==
  [meter EXCEPT !.spent = meter.spent + cost, !.sinceRead = meter.sinceRead + 1]

\* The second model answers, and its call is counted at once.
AnswerSecond(l, s, cost) ==
  /\ calls[l][s] # None /\ calls[l][s].at = "second"
  /\ calls' = [calls EXCEPT ![l][s] = [calls[l][s] EXCEPT !.at = "rescored", !.second = cost]]
  /\ billed' = billed + cost
  /\ LET largest == Largest(loop[l].largest, calls[l][s].first, cost) IN
     loop' = [loop EXCEPT ![l] = Counted([loop[l] EXCEPT !.largest = largest], cost)]
  /\ UNCHANGED <<active, ledger, lost, crashes>>

WriteSecond(l, s) ==
  /\ calls[l][s] # None /\ calls[l][s].at = "rescored"
  /\ calls' = [calls EXCEPT ![l][s] = [calls[l][s] EXCEPT !.at = "answered", !.second = 0]]
  /\ ledger' = ledger + calls[l][s].second
  /\ UNCHANGED <<active, billed, lost, loop, crashes>>

\* recordAs: the answer is counted, and then its row is written.
Count(l, s) ==
  /\ calls[l][s] # None /\ calls[l][s].at = "answered"
  /\ calls' = [calls EXCEPT ![l][s].at = "counted"]
  /\ loop' = [loop EXCEPT ![l] = Counted(loop[l], calls[l][s].first)]
  /\ UNCHANGED <<active, ledger, billed, lost, crashes>>

\* The row is there and the call has settled.
Write(l, s) ==
  /\ calls[l][s] # None /\ calls[l][s].at = "counted"
  /\ calls' = [calls EXCEPT ![l][s] = None]
  /\ ledger' = ledger + calls[l][s].first
  /\ loop' = [loop EXCEPT ![l].pc = IF @ = "waiting" THEN "next" ELSE @]
  /\ UNCHANGED <<active, billed, lost, crashes>>

\* What answered calls cost, whose rows are not there.
Owed(call) == IF call = None THEN 0 ELSE call.first + call.second
Unwritten(l) == SumFunction([s \in Slots(l) |-> Owed(calls[l][s])])

\* The worker dies.  The retried job asks about the posts with no answer on file, or, as
\* triage does, about all of them.
Crash(l, again) ==
  /\ crashes < MaxCrashes[active]
  /\ loop[l].pc \notin {"idle", "done", "stopped"}
  /\ again \in {loop[l].left + Cardinality(InFlight(l)), Posts[l]}
  /\ lost' = lost + Unwritten(l)
  /\ loop' = [loop EXCEPT ![l] = Idle(again)]
  /\ calls' = [calls EXCEPT ![l] = [s \in Slots(l) |-> None]]
  /\ crashes' = crashes + 1
  /\ UNCHANGED <<active, ledger, billed>>

---------------------------------------------------------------------------

Calling(l, s) ==
  \/ \E cost \in Prices : \/ \E next \in {"answered", "second"} : Answer(l, s, cost, next)
                          \/ AnswerSecond(l, s, cost)
  \/ WriteSecond(l, s) \/ Count(l, s) \/ Write(l, s)

\* Every loop of this behaviour is over.
Rest == (\A l \in active : loop[l].pc \in {"done", "stopped"}) /\ UNCHANGED vars

Next ==
  \/ \E l \in Loops :
       \/ Begin(l) \/ NoneLeft(l) \/ Wait(l) \/ Ask(l) \/ Read(l) \/ Renew(l) \/ Call(l) \/ End(l)
       \/ \E s \in Slots(l) : Calling(l, s)
       \/ \E again \in 0..Posts[l] : Crash(l, again)
  \/ Rest

Spec == Init /\ [][Next]_vars

---------------------------------------------------------------------------
\* Properties.

TypeOK ==
  /\ active \in Together
  /\ {ledger, billed, lost} \subseteq Nat /\ crashes \in 0..MaxCrashes[active]
  /\ loop \in [Loops -> Meters] /\ \A l \in Loops : loop[l].left <= Posts[l]
  /\ calls = [l \in Loops |-> calls[l]]
  /\ \A l \in Loops : calls[l] \in [Slots(l) -> Calls \cup {None}]

Dearest == CHOOSE p \in Prices : \A q \in Prices : q <= p

\* The most one post of the loop may cost.
PerPost(l) == IF l \in Rescores THEN 2 * Dearest ELSE Dearest

\* How many posts may be paid for past the cap: the one that passes it, those a slot more
\* lets through, twice where a reading was taken while rows were not there, and what each
\* other loop counts between two readings.
Beyond ==
  LET others == Cardinality(active) - 1
      slots == [l \in Loops |-> Lower(others + 1, 2) * (Width[l] - 1)] IN
  1 + others * Recheck + SumFunctionOnSet(slots, active)

\* What is billed passes the cap by a bounded number of posts, whatever they cost, however
\* calls, counts, rows and readings fall (budget.ts:750, docs/pipeline.md:111).
OvershootIsBounded ==
  \E dear \in {PerPost(l) : l \in active} :
    /\ \A l \in active : PerPost(l) <= dear
    /\ billed - lost < Cap + Beyond * dear

\* A loop stops for want of money only when the month's money is spent but for what its
\* other calls were reserved (budget.ts:796): posts it leaves are in no queue.
StopsNearTheCap ==
  \A l \in Loops : loop[l].pc = "stopped" => billed >= Cap - (Width[l] - 1) * PerPost(l)

\* A loop passes the cap by one post at most, as when it keeps one call in flight
\* (worker/classify-concurrency.test.ts:153).  The code does not keep this with more.
OnePostOver ==
  \A l \in active : Cardinality(active) = 1 => billed - lost < Cap + PerPost(l)
=============================================================================
