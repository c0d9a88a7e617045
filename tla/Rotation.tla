------------------------------ MODULE Rotation ------------------------------
(***************************************************************************)
(* Searches that take turns (worker/rotation.ts, and the part of the poll   *)
(* in worker/collect.ts that writes a turn before it asks any source): a    *)
(* credit balance, a place in the round, and the units one poll runs.       *)
(*                                                                         *)
(* A unit is its place in the list and its weight; a fractional rate is     *)
(* counted in thousandths, as the columns are.  Each pass of nextTurn's     *)
(* loop is a step.                                                          *)
(***************************************************************************)
EXTENDS Integers, FiniteSets, Sequences, Functions

CONSTANTS
  Shapes,      \* the lists of units a monitor may have: sequences of weights
  Rates,       \* credits an hour an application may set
  Most,        \* no turn and no rate is above it
  Heaviest,    \* no unit weighs more
  MaxChanges,  \* bound: edits, and changes of the rate
  MaxCrashes   \* bound: polls that die

FullTurn(shape) == FoldFunction(+, 0, shape)

ASSUME RotationAssumption ==
  /\ Most \in Nat /\ Heaviest \in Nat /\ MaxChanges \in Nat /\ MaxCrashes \in Nat
  /\ Rates \subseteq (1..Most) /\ Rates # {}
  /\ Shapes # {}
  /\ \A shape \in Shapes : shape \in Seq(1..Heaviest) /\ FullTurn(shape) \in 0..Most

VARIABLES
  units,    \* unitsOf the monitor, in turn order
  rate,     \* monitors.poll_credits_per_hour
  balance,  \* monitors.poll_credit_balance
  cursor,   \* monitors.poll_cursor
  polled,   \* monitors.last_polled_at is set
  poll,     \* the poll that runs, and the turn it works out
  lap,      \* the units charged since all of them were
  over,     \* the most any stretch of polls spent beyond its credits
  changes,  \* edits so far
  crashes   \* polls that died so far

vars == <<units, rate, balance, cursor, polled, poll, lap, over, changes, crashes>>

Places(shape) == 0..(Len(shape) - 1)
Idle == [pc |-> "idle", units |-> <<>>, rate |-> 0, drawn |-> 0, balance |-> 0,
         cursor |-> 0, chosen |-> {}, lap |-> {}]

Lower(a, b) == IF a < b THEN a ELSE b
Higher(a, b) == IF a < b THEN b ELSE a

Init ==
  /\ units \in Shapes /\ rate \in Rates
  /\ balance = 0 /\ cursor = 0 /\ polled \in BOOLEAN
  /\ poll = Idle
  /\ lap = {} /\ over = 0 /\ changes = 0 /\ crashes = 0

---------------------------------------------------------------------------
\* Around the poll.

\* A person edits the searches: balance and cursor are left as they are.
Edit(shape) ==
  /\ changes < MaxChanges
  /\ shape # units
  /\ units' = shape /\ lap' = {}
  /\ changes' = changes + 1
  /\ UNCHANGED <<rate, balance, cursor, polled, poll, over, crashes>>

\* The application writes another rate beside the monitor.
SetRate(credits) ==
  /\ changes < MaxChanges
  /\ credits # rate
  /\ rate' = credits
  /\ changes' = changes + 1
  /\ UNCHANGED <<units, balance, cursor, polled, poll, lap, over, crashes>>

\* The poll's process dies, or a statement of it fails: what it worked out is lost.
Crash ==
  /\ poll.pc # "idle" /\ crashes < MaxCrashes
  /\ poll' = Idle
  /\ crashes' = crashes + 1
  /\ UNCHANGED <<units, rate, balance, cursor, polled, lap, over, changes>>

---------------------------------------------------------------------------
\* nextTurn.

\* A slip of Credited: the hour is added after the balance was held down.
CreditedPastCap == rate + Lower(balance, Higher(rate, FullTurn(units)))

\* The hour's credits are added, and what was not spent is not owed.
Credited == Lower(balance + rate, Higher(rate, FullTurn(units)))

\* A slip of StartPlace: the place as it was kept for a longer list.
StartPlaceStale == cursor

\* A slip of StartPlace: every poll begins with the first unit.
StartPlaceFirst == 0

\* Where the round stands, in a list that may have become shorter.
StartPlace == cursor % Len(units)

\* The monitor's row is read.  A list with no unit leaves the balance alone; a first
\* poll runs the whole turn and ends where it began.
ReadTurn ==
  /\ poll.pc = "idle"
  /\ LET turn == [pc |-> "choose", units |-> units, rate |-> rate, drawn |-> 0,
                  balance |-> Credited, cursor |-> 0, chosen |-> {}, lap |-> lap] IN
     poll' =
       IF units = <<>> THEN [turn EXCEPT !.pc = "write", !.balance = balance]
       ELSE IF polled THEN [turn EXCEPT !.cursor = StartPlace]
       ELSE [turn EXCEPT !.pc = "write", !.cursor = StartPlace,
                         !.drawn = FullTurn(units), !.balance = Credited - FullTurn(units),
                         !.chosen = Places(units)]
  /\ UNCHANGED <<units, rate, balance, cursor, polled, lap, over, changes, crashes>>

Weight == poll.units[poll.cursor + 1]

\* The first unit may take the balance negative, a further one may not.
Covered == IF poll.chosen = {} THEN poll.balance > 0 ELSE poll.balance >= Weight

MayTake == poll.pc = "choose" /\ poll.chosen # Places(poll.units) /\ Covered

\* A slip of NextPlace: the unit after the next.
NextPlaceSkips == IF poll.cursor + 2 > Len(poll.units) THEN 0 ELSE poll.cursor + 2

NextPlace == IF poll.cursor + 1 = Len(poll.units) THEN 0 ELSE poll.cursor + 1

\* Every unit was charged once: a new lap.
Lapped(taken) == IF taken = Places(poll.units) THEN {} ELSE taken

\* One pass of the loop: the unit at the cursor joins the turn.
Take ==
  /\ MayTake
  /\ poll' = [poll EXCEPT
       !.chosen = @ \cup {poll.cursor}, !.balance = @ - Weight, !.drawn = @ + Weight,
       !.cursor = NextPlace, !.lap = Lapped(@ \cup {poll.cursor})]
  /\ UNCHANGED <<units, rate, balance, cursor, polled, lap, over, changes, crashes>>

\* The turn is kept before any source is asked; a turn without units ends the poll.
WriteTurn ==
  /\ poll.pc = "write" \/ (poll.pc = "choose" /\ ~MayTake)
  /\ balance' = poll.balance /\ cursor' = poll.cursor /\ polled' = TRUE
  /\ lap' = IF poll.units = units THEN poll.lap ELSE {}
  /\ over' = Higher(0, over + poll.drawn - poll.rate)
  /\ poll' = IF poll.chosen = {} THEN Idle ELSE [poll EXCEPT !.pc = "ask"]
  /\ UNCHANGED <<units, rate, changes, crashes>>

\* The units of the turn are asked and the poll ends.
Ask ==
  /\ poll.pc = "ask"
  /\ poll' = Idle
  /\ UNCHANGED <<units, rate, balance, cursor, polled, lap, over, changes, crashes>>

Next ==
  \/ \E shape \in Shapes : Edit(shape)
  \/ \E credits \in Rates : SetRate(credits)
  \/ Crash \/ ReadTurn \/ Take \/ WriteTurn \/ Ask

Spec == Init /\ [][Next]_vars

\* Polls keep coming, by the scheduler's tick, and the worker runs what it began.
LiveSpec ==
  /\ Spec
  /\ WF_vars(ReadTurn) /\ WF_vars(Take) /\ WF_vars(WriteTurn) /\ WF_vars(Ask)

---------------------------------------------------------------------------
\* Properties.

\* The balance in it never holds more than a turn or an hour, whatever was saved up while
\* paused, edited or without units (rotation.ts:26), and never owes more than the first
\* poll's turn or one heavy unit.
TypeOK ==
  /\ units \in Shapes /\ rate \in Rates
  /\ balance \in (0 - Higher(Heaviest, Most))..Most /\ cursor \in Nat /\ polled \in BOOLEAN
  /\ over \in Nat
  /\ lap \subseteq Nat
  /\ changes \in 0..MaxChanges /\ crashes \in 0..MaxCrashes
  /\ poll \in [pc : {"idle", "choose", "write", "ask"}, units : Shapes \cup {<<>>},
              rate : Rates \cup {0}, drawn : Nat, balance : Int, cursor : Nat,
              chosen : SUBSET Nat, lap : SUBSET Nat]
  /\ poll.cursor \in Places(poll.units) \cup {0}
  /\ poll.chosen \subseteq Places(poll.units)

\* No stretch of polls, from any poll to any later one, spends more than its hours'
\* credits and the room the balance has left: what one unit or a first poll drew in
\* advance is repaid (rotation.ts:20, :28).
SpendIsRepaid == over + balance <= Most

\* No unit is charged twice before every other unit was charged once, over polls that
\* died and turns that stopped half way round (rotation.ts:22).
OncePerLap ==
  [][\A place \in poll'.chosen \ poll.chosen : poll.pc = "choose" => place \notin poll.lap]_vars

\* Every unit of the list is asked again and again, however heavy it is beside the rate.
EveryUnitIsAsked ==
  \A place \in 0..(Most - 1) :
    []<>(place \notin Places(units) \/ (poll.pc = "ask" /\ place \in poll.chosen))
=============================================================================
