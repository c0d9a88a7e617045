--------------------------- MODULE RotationProofs ---------------------------
(***************************************************************************)
(* Proofs about Rotation, for every list of units, every rate and any      *)
(* number of edits and deaths.                                             *)
(***************************************************************************)
EXTENDS Rotation, SequenceTheorems, TLAPS

Bound == Higher(Heaviest, Most)

\* What a turn being worked out has drawn, and what it leaves.
Working == poll.pc \in {"choose", "write"}

DrawnIsCredited ==
  Working => /\ poll.balance + poll.drawn <= balance + poll.rate
             /\ poll.balance + poll.drawn <= Most
             /\ poll.balance >= 0 - Bound

\* A monitor that was never polled owes nothing; a turn is chosen from a list with units.
FirstOwesNothing == ~polled => balance = 0
ChoosesFromUnits == poll.pc = "choose" => poll.units # <<>>

Inv == TypeOK /\ DrawnIsCredited /\ FirstOwesNothing /\ ChoosesFromUnits /\ SpendIsRepaid

---------------------------------------------------------------------------
\* Lists and balances.

LEMMA ShapeFacts ==
  ASSUME NEW shape \in Shapes
  PROVE  /\ shape \in Seq(1..Heaviest) /\ Len(shape) \in Nat
         /\ FullTurn(shape) \in 0..Most
         /\ \A place \in Places(shape) : shape[place + 1] \in 1..Heaviest
<1>1. shape \in Seq(1..Heaviest) /\ FullTurn(shape) \in 0..Most
  BY RotationAssumption
<1>2. Len(shape) \in Nat /\ \A i \in 1..Len(shape) : shape[i] \in 1..Heaviest
  BY <1>1, ElementOfSeq, LenProperties
<1>3. \A place \in Places(shape) : place + 1 \in 1..Len(shape)
  BY <1>2 DEF Places
<1> QED BY <1>1, <1>2, <1>3

LEMMA BoundFacts == Bound \in Nat /\ Heaviest <= Bound /\ Most <= Bound
BY RotationAssumption DEF Bound, Higher

\* What a poll begins with is no more than what was kept and the hour's credits.
LEMMA CreditedFacts ==
  ASSUME TypeOK
  PROVE  /\ Credited \in Int /\ Credited <= balance + rate /\ Credited <= Most
         /\ Credited >= 0 - Bound
         /\ balance >= 0 => Credited >= 0
<1>1. units \in Shapes /\ rate \in Rates /\ balance \in (0 - Bound)..Most
  BY DEF TypeOK, Bound
<1>2. FullTurn(units) \in 0..Most
  BY <1>1, ShapeFacts
<1>3. rate \in 1..Most
  BY <1>1, RotationAssumption
<1>4. Higher(rate, FullTurn(units)) \in 1..Most
  BY <1>2, <1>3, RotationAssumption DEF Higher
<1>5. Credited \in {balance + rate, Higher(rate, FullTurn(units))}
      /\ Credited <= balance + rate /\ Credited <= Higher(rate, FullTurn(units))
  BY <1>1, <1>3, <1>4, BoundFacts, RotationAssumption DEF Credited, Lower
<1> QED BY <1>1, <1>3, <1>4, <1>5, BoundFacts, RotationAssumption

---------------------------------------------------------------------------
\* Each step keeps the invariant.

LEMMA InvInit == Init => Inv
<1> SUFFICES ASSUME Init PROVE Inv
  OBVIOUS
<1>1. TypeOK
  <2>1. 0 \in (0 - Higher(Heaviest, Most))..Most
    BY RotationAssumption, BoundFacts DEF Bound
  <2> QED BY <2>1, RotationAssumption DEF Init, TypeOK, Idle, Places
<1> QED BY <1>1, RotationAssumption
     DEF Init, Inv, DrawnIsCredited, Working, FirstOwesNothing, ChoosesFromUnits, SpendIsRepaid, Idle

LEMMA AroundInv ==
  ASSUME Inv, \/ \E shape \in Shapes : Edit(shape)
              \/ \E credits \in Rates : SetRate(credits)
              \/ Crash \/ Ask
  PROVE  Inv'
<1> USE DEF Inv, DrawnIsCredited, Working, FirstOwesNothing, ChoosesFromUnits, SpendIsRepaid
<1>1. ASSUME NEW shape \in Shapes, Edit(shape) PROVE Inv'
  BY <1>1, RotationAssumption DEF Edit, TypeOK
<1>2. ASSUME NEW credits \in Rates, SetRate(credits) PROVE Inv'
  BY <1>2, RotationAssumption DEF SetRate, TypeOK
<1>3. CASE Crash
  BY <1>3, RotationAssumption DEF Crash, TypeOK, Idle, Places
<1>4. CASE Ask
  BY <1>4, RotationAssumption DEF Ask, TypeOK, Idle, Places
<1> QED BY <1>1, <1>2, <1>3, <1>4

LEMMA ReadInv ==
  ASSUME Inv, ReadTurn
  PROVE  Inv'
<1>1. TypeOK /\ FirstOwesNothing /\ SpendIsRepaid
  BY DEF Inv
<1>2. units \in Shapes /\ Len(units) \in Nat /\ FullTurn(units) \in 0..Most /\ rate \in 1..Most
      /\ balance \in (0 - Bound)..Most /\ rate \in Rates
  BY <1>1, ShapeFacts, RotationAssumption DEF TypeOK, Bound
<1>3. UNCHANGED <<units, rate, balance, cursor, polled, lap, over, changes, crashes>>
  BY DEF ReadTurn
<1>4. CASE units = <<>>
  <2>1. poll' = [pc |-> "write", units |-> units, rate |-> rate, drawn |-> 0,
                 balance |-> balance, cursor |-> 0, chosen |-> {}, lap |-> lap]
    BY <1>4 DEF ReadTurn
  <2>2. TypeOK'
    BY <2>1, <1>1, <1>2, <1>3, RotationAssumption DEF TypeOK, Places
  <2> QED BY <2>1, <2>2, <1>1, <1>2, <1>3, BoundFacts, RotationAssumption
       DEF Inv, DrawnIsCredited, Working, FirstOwesNothing, ChoosesFromUnits, SpendIsRepaid
<1>5. CASE units # <<>>
  <2>1. Len(units) \in Nat \ {0}
    BY <1>2, <1>5, ShapeFacts
  <2>2. StartPlace \in Places(units) /\ StartPlace \in Nat
    BY <2>1, <1>1 DEF StartPlace, Places, TypeOK
  <2>3. CASE polled
    <3>1. poll' = [pc |-> "choose", units |-> units, rate |-> rate, drawn |-> 0,
                   balance |-> Credited, cursor |-> StartPlace, chosen |-> {}, lap |-> lap]
      BY <1>5, <2>3 DEF ReadTurn
    <3>2. TypeOK'
      BY <3>1, <2>2, <1>1, <1>2, <1>3, CreditedFacts DEF TypeOK
    <3> QED BY <3>1, <3>2, <1>1, <1>2, <1>3, <1>5, CreditedFacts, RotationAssumption
         DEF Inv, DrawnIsCredited, Working, FirstOwesNothing, ChoosesFromUnits, SpendIsRepaid
  <2>4. CASE ~polled
    <3>1. poll' = [pc |-> "write", units |-> units, rate |-> rate, drawn |-> FullTurn(units),
                   balance |-> Credited - FullTurn(units), cursor |-> StartPlace,
                   chosen |-> Places(units), lap |-> lap]
      BY <1>5, <2>4 DEF ReadTurn
    <3>2. Places(units) \subseteq Nat
      BY <2>1 DEF Places
    <3>3. TypeOK'
      BY <3>1, <3>2, <2>2, <1>1, <1>2, <1>3, CreditedFacts DEF TypeOK
    <3>4. Credited >= 0
      BY <2>4, <1>1, CreditedFacts DEF FirstOwesNothing
    <3> QED BY <3>1, <3>3, <3>4, <1>1, <1>2, <1>3, CreditedFacts, BoundFacts, RotationAssumption
         DEF Inv, DrawnIsCredited, Working, FirstOwesNothing, ChoosesFromUnits, SpendIsRepaid
  <2> QED BY <2>3, <2>4
<1> QED BY <1>4, <1>5

LEMMA TakeInv ==
  ASSUME Inv, Take
  PROVE  Inv'
<1>1. TypeOK /\ DrawnIsCredited /\ poll.pc = "choose" /\ poll.units # <<>> /\ Covered
  BY DEF Inv, Take, MayTake, ChoosesFromUnits
<1>2. UNCHANGED <<units, rate, balance, cursor, polled, lap, over, changes, crashes>>
  BY DEF Take
<1>3. poll.units \in Shapes /\ poll.drawn \in Nat /\ poll.balance \in Int /\ poll.cursor \in Nat
      /\ poll.rate \in Rates \cup {0} /\ poll.chosen \subseteq Places(poll.units)
      /\ poll.lap \subseteq Nat
  BY <1>1 DEF TypeOK
<1>4. Len(poll.units) \in Nat \ {0}
  BY <1>1, <1>3, ShapeFacts
<1>5. poll.cursor \in Places(poll.units)
  BY <1>1, <1>4 DEF TypeOK, Places
<1>6. Weight \in 1..Heaviest
  BY <1>3, <1>5, ShapeFacts DEF Weight
<1>7. NextPlace \in Places(poll.units) /\ NextPlace \in Nat
  BY <1>4, <1>5 DEF NextPlace, Places
<1>8. Lapped(poll.lap \cup {poll.cursor}) \subseteq Nat
  BY <1>3 DEF Lapped
<1>9. poll' = [poll EXCEPT
       !.chosen = poll.chosen \cup {poll.cursor}, !.balance = poll.balance - Weight,
       !.drawn = poll.drawn + Weight, !.cursor = NextPlace,
       !.lap = Lapped(poll.lap \cup {poll.cursor})]
  BY DEF Take
<1>10. TypeOK'
  <2>1. poll.balance - Weight \in Int /\ poll.drawn + Weight \in Nat
    BY <1>3, <1>6, RotationAssumption
  <2> QED BY <2>1, <1>1, <1>2, <1>3, <1>5, <1>7, <1>8, <1>9 DEF TypeOK, Places
<1>11. poll'.pc = "choose" /\ poll'.units = poll.units /\ poll'.rate = poll.rate
       /\ poll'.balance = poll.balance - Weight /\ poll'.drawn = poll.drawn + Weight
  BY <1>1, <1>9 DEF TypeOK
<1>12. poll.balance - Weight >= 0 - Bound
  BY <1>1, <1>3, <1>6, BoundFacts, RotationAssumption DEF Covered
<1>13. DrawnIsCredited'
  <2>1. (poll.balance - Weight) + (poll.drawn + Weight) = poll.balance + poll.drawn
    BY <1>3, <1>6, RotationAssumption
  <2> QED BY <2>1, <1>1, <1>2, <1>11, <1>12, BoundFacts DEF DrawnIsCredited, Working, Bound
<1> QED BY <1>1, <1>2, <1>10, <1>11, <1>13
     DEF Inv, FirstOwesNothing, ChoosesFromUnits, SpendIsRepaid

LEMMA WriteInv ==
  ASSUME Inv, WriteTurn
  PROVE  Inv'
<1>1. TypeOK /\ DrawnIsCredited /\ SpendIsRepaid /\ Working
  BY DEF Inv, WriteTurn, Working
<1>2. poll.drawn \in Nat /\ poll.balance \in Int /\ poll.rate \in Nat /\ over \in Nat
      /\ balance \in Int
  <2>1. \A r \in Rates \cup {0} : r \in Nat
    BY RotationAssumption
  <2>2. balance \in (0 - Bound)..Most
    BY <1>1 DEF TypeOK, Bound
  <2>3. balance \in Int
    BY <2>2, BoundFacts, RotationAssumption
  <2>4. poll.drawn \in Nat /\ poll.balance \in Int /\ poll.rate \in Rates \cup {0} /\ over \in Nat
    BY <1>1 DEF TypeOK
  <2> QED BY <2>1, <2>3, <2>4
<1>3. balance' = poll.balance /\ over' = Higher(0, over + poll.drawn - poll.rate) /\ polled'
  BY DEF WriteTurn
<1>4. over' \in Nat
  BY <1>2, <1>3 DEF Higher
<1>5. over' + balance' <= Most
  BY <1>1, <1>2, <1>3, RotationAssumption DEF Higher, DrawnIsCredited, SpendIsRepaid
<1>6. balance' \in (0 - Bound)..Most
  BY <1>1, <1>2, <1>3, BoundFacts, RotationAssumption DEF DrawnIsCredited
<1>7. poll' \in {Idle, [poll EXCEPT !.pc = "ask"]}
  BY DEF WriteTurn
<1>8. TypeOK'
  <2>1. cursor' \in Nat /\ lap' \subseteq Nat /\ polled' \in BOOLEAN
    BY <1>1 DEF WriteTurn, TypeOK
  <2>2. UNCHANGED <<units, rate, changes, crashes>>
    BY DEF WriteTurn
  <2>3. CASE poll' = Idle
    BY <1>1, <1>4, <1>6, <2>1, <2>2, <2>3, RotationAssumption DEF TypeOK, Idle, Places, Bound
  <2>4. CASE poll' = [poll EXCEPT !.pc = "ask"]
    BY <1>1, <1>4, <1>6, <2>1, <2>2, <2>4 DEF TypeOK, Places, Bound
  <2> QED BY <1>7, <2>3, <2>4
<1>9. poll'.pc \in {"idle", "ask"}
  BY <1>1, <1>7 DEF Idle, TypeOK
<1> QED BY <1>3, <1>5, <1>8, <1>9
     DEF Inv, DrawnIsCredited, Working, FirstOwesNothing, ChoosesFromUnits, SpendIsRepaid

LEMMA InvStep == Inv /\ [Next]_vars => Inv'
<1> SUFFICES ASSUME Inv, [Next]_vars PROVE Inv'
  OBVIOUS
<1>1. CASE UNCHANGED vars
  BY <1>1 DEF vars, Inv, TypeOK, DrawnIsCredited, Working, FirstOwesNothing, ChoosesFromUnits,
              SpendIsRepaid
<1>2. CASE Next
  BY <1>2, AroundInv, ReadInv, TakeInv, WriteInv DEF Next
<1> QED BY <1>1, <1>2

---------------------------------------------------------------------------
\* The theorems.

\* Whatever lists, rates, edits and deaths follow each other, what a turn being worked
\* out draws is what it was credited.
THEOREM Invariant == Spec => []Inv
BY InvInit, InvStep, PTL DEF Spec

\* Every variable keeps its type; the balance kept in the row stays between the debt of
\* one turn or one unit and the credits of one turn or one hour.
THEOREM TypeCorrect == Spec => []TypeOK
<1>1. Inv => TypeOK
  BY DEF Inv
<1> QED BY <1>1, Invariant, PTL

\* No stretch of polls, however long, spends past its credits by more than the balance
\* has room for.
THEOREM SpendIsBounded == Spec => []SpendIsRepaid
<1>1. Inv => SpendIsRepaid
  BY DEF Inv
<1> QED BY <1>1, Invariant, PTL

---------------------------------------------------------------------------
\* The round.  A lap that goes on is the run of places just behind the cursor.

Behind(c, n, k) == {p \in 0..(n - 1) : (c - k <= p /\ p < c) \/ p >= c - k + n}
IsRound(charged, c, n) == \E k \in 0..(n - 1) : charged = Behind(c, n, k)

LapIsRound == units # <<>> => IsRound(lap, cursor % Len(units), Len(units))
TurnIsRound ==
  Working /\ poll.units # <<>> => /\ poll.cursor \in Places(poll.units)
                                  /\ IsRound(poll.lap, poll.cursor, Len(poll.units))

Fair == Inv /\ LapIsRound /\ TurnIsRound

LEMMA EmptyIsRound ==
  ASSUME NEW n \in Nat \ {0}, NEW c \in 0..(n - 1)
  PROVE  IsRound({}, c, n)
<1>1. Behind(c, n, 0) = {}
  BY DEF Behind
<1>2. 0 \in 0..(n - 1)
  OBVIOUS
<1> QED BY <1>1, <1>2 DEF IsRound

LEMMA CursorIsAhead ==
  ASSUME NEW n \in Nat \ {0}, NEW c \in 0..(n - 1), NEW charged, IsRound(charged, c, n)
  PROVE  c \notin charged
<1>1. PICK k \in 0..(n - 1) : charged = Behind(c, n, k)
  BY DEF IsRound
<1> QED BY <1>1 DEF Behind

LEMMA RoundGoesOn ==
  ASSUME NEW n \in Nat \ {0}, NEW c \in 0..(n - 1), NEW k \in 0..(n - 1),
         NEW d \in 0..(n - 1), d = IF c + 1 = n THEN 0 ELSE c + 1
  PROVE  Behind(c, n, k) \cup {c} = Behind(d, n, k + 1)
<1>1. CASE c + 1 = n
  <2>1. d = 0
    BY <1>1
  <2>2. \A p \in 0..(n - 1) : (p \in Behind(c, n, k) \/ p = c) <=> p \in Behind(d, n, k + 1)
    BY <1>1, <2>1 DEF Behind
  <2> QED BY <2>2 DEF Behind
<1>2. CASE c + 1 # n
  <2>1. d = c + 1
    BY <1>2
  <2>2. \A p \in 0..(n - 1) : (p \in Behind(c, n, k) \/ p = c) <=> p \in Behind(d, n, k + 1)
    BY <1>2, <2>1 DEF Behind
  <2> QED BY <2>2 DEF Behind
<1> QED BY <1>1, <1>2

LEMMA WholeRound ==
  ASSUME NEW n \in Nat \ {0}, NEW c \in 0..(n - 1)
  PROVE  Behind(c, n, n) = 0..(n - 1)
BY DEF Behind

LEMMA FairInit == Init => Fair
<1> SUFFICES ASSUME Init PROVE Fair
  OBVIOUS
<1>1. Inv
  BY InvInit
<1>2. ASSUME units # <<>> PROVE IsRound(lap, cursor % Len(units), Len(units))
  <2>1. Len(units) \in Nat \ {0}
    BY <1>2, ShapeFacts, EmptySeq DEF Init
  <2>2. cursor % Len(units) \in 0..(Len(units) - 1)
    BY <2>1 DEF Init
  <2> QED BY <2>1, <2>2, EmptyIsRound DEF Init
<1> QED BY <1>1, <1>2 DEF Fair, LapIsRound, TurnIsRound, Working, Init, Idle

\* Where the cursor falls in a list is a place of it.
LEMMA PlaceFacts ==
  ASSUME TypeOK, NEW shape \in Shapes, shape # <<>>
  PROVE  Len(shape) \in Nat \ {0} /\ cursor % Len(shape) \in 0..(Len(shape) - 1)
<1>1. Len(shape) \in Nat \ {0}
  BY ShapeFacts, EmptySeq
<1> QED BY <1>1 DEF TypeOK

LEMMA FairAround ==
  ASSUME Fair, \/ \E shape \in Shapes : Edit(shape)
               \/ \E credits \in Rates : SetRate(credits)
               \/ Crash \/ Ask
  PROVE  Fair'
<1>1. Inv' /\ TypeOK
  BY AroundInv DEF Fair, Inv
<1>2. ASSUME NEW shape \in Shapes, Edit(shape) PROVE Fair'
  <2>1. units' = shape /\ lap' = {} /\ cursor' = cursor /\ poll' = poll
    BY <1>2 DEF Edit
  <2>2. shape # <<>> => IsRound({}, cursor % Len(shape), Len(shape))
    BY <1>1, PlaceFacts, EmptyIsRound
  <2> QED BY <1>1, <2>1, <2>2 DEF Fair, LapIsRound, TurnIsRound, Working
<1>3. ASSUME NEW credits \in Rates, SetRate(credits) PROVE Fair'
  BY <1>1, <1>3 DEF SetRate, Fair, LapIsRound, TurnIsRound, Working
<1>4. CASE Crash \/ Ask
  <2>1. UNCHANGED <<units, lap, cursor>> /\ poll' = Idle
    BY <1>4 DEF Crash, Ask
  <2> QED BY <1>1, <2>1 DEF Fair, LapIsRound, TurnIsRound, Working, Idle
<1> QED BY <1>2, <1>3, <1>4

LEMMA FairRead ==
  ASSUME Fair, ReadTurn
  PROVE  Fair'
<1>1. Inv' /\ TypeOK /\ LapIsRound
  BY ReadInv DEF Fair, Inv
<1>2. UNCHANGED <<units, lap, cursor>>
  BY DEF ReadTurn
<1>3. poll'.units = units /\ (units # <<>> => poll'.lap = lap /\ poll'.cursor = StartPlace)
  BY DEF ReadTurn
<1>4. ASSUME units # <<>>
      PROVE  StartPlace \in Places(units) /\ IsRound(lap, StartPlace, Len(units))
  <2>1. units \in Shapes
    BY <1>1 DEF TypeOK
  <2> QED BY <1>1, <1>4, <2>1, PlaceFacts DEF StartPlace, Places, LapIsRound
<1> QED BY <1>1, <1>2, <1>3, <1>4 DEF Fair, LapIsRound, TurnIsRound

LEMMA FairTake ==
  ASSUME Fair, Take
  PROVE  Fair'
<1>1. Inv' /\ TypeOK /\ LapIsRound /\ TurnIsRound /\ poll.pc = "choose" /\ poll.units # <<>>
  BY TakeInv DEF Fair, Inv, Take, MayTake, ChoosesFromUnits
<1> DEFINE n == Len(poll.units)
           c == poll.cursor
<1>2. poll.units \in Shapes
  BY <1>1 DEF TypeOK
<1>3. n \in Nat \ {0} /\ c \in 0..(n - 1) /\ IsRound(poll.lap, c, n)
  BY <1>1, <1>2, PlaceFacts DEF TurnIsRound, Working, Places
<1>4. PICK k \in 0..(n - 1) : poll.lap = Behind(c, n, k)
  BY <1>3 DEF IsRound
<1>5. poll'.units = poll.units /\ poll'.cursor = NextPlace
      /\ poll'.lap = Lapped(poll.lap \cup {c})
      /\ UNCHANGED <<units, lap, cursor>>
  BY <1>1 DEF Take, TypeOK
<1>6. NextPlace \in 0..(n - 1) /\ NextPlace = IF c + 1 = n THEN 0 ELSE c + 1
  BY <1>3 DEF NextPlace
<1>7. poll.lap \cup {c} = Behind(NextPlace, n, k + 1)
  <2> HIDE DEF n, c
  <2>1. Behind(c, n, k) \cup {c} = Behind(NextPlace, n, k + 1)
    BY <1>3, <1>4, <1>6, RoundGoesOn
  <2> QED BY <2>1, <1>4
<1>8. IsRound(Lapped(poll.lap \cup {c}), NextPlace, n)
  <2>1. CASE k + 1 = n
    <3>1. poll.lap \cup {c} = Places(poll.units)
      BY <1>3, <1>6, <1>7, <2>1, WholeRound DEF Places
    <3> QED BY <3>1, <1>3, <1>6, EmptyIsRound DEF Lapped
  <2>2. CASE k + 1 # n
    <3>1. k + 1 \in 0..(n - 1)
      BY <2>2, <1>3
    <3>2. IsRound(poll.lap \cup {c}, NextPlace, n)
      BY <3>1, <1>7 DEF IsRound
    <3>3. NextPlace \notin poll.lap \cup {c}
      BY <3>2, <1>3, <1>6, CursorIsAhead
    <3>4. poll.lap \cup {c} # Places(poll.units)
      BY <3>3, <1>6 DEF Places
    <3> QED BY <3>2, <3>4 DEF Lapped
  <2> QED BY <2>1, <2>2
<1>9. TurnIsRound'
  BY <1>5, <1>6, <1>8 DEF TurnIsRound, Places
<1>10. LapIsRound'
  BY <1>1, <1>5 DEF LapIsRound
<1> QED BY <1>1, <1>9, <1>10 DEF Fair

LEMMA FairWrite ==
  ASSUME Fair, WriteTurn
  PROVE  Fair'
<1>1. Inv' /\ TypeOK /\ TurnIsRound /\ Working
  BY WriteInv DEF Fair, Inv, WriteTurn, Working
<1>2. cursor' = poll.cursor /\ units' = units /\ lap' = (IF poll.units = units THEN poll.lap ELSE {})
  BY DEF WriteTurn
<1>3. poll'.pc \in {"idle", "ask"}
  BY <1>1 DEF WriteTurn, Idle, TypeOK
<1>4. ASSUME units # <<>> PROVE IsRound(lap', poll.cursor % Len(units), Len(units))
  <2>1. units \in Shapes /\ poll.cursor \in Nat
    BY <1>1 DEF TypeOK
  <2>2. Len(units) \in Nat \ {0}
    BY <1>1, <1>4, <2>1, PlaceFacts
  <2>3. poll.cursor % Len(units) \in 0..(Len(units) - 1)
    BY <2>1, <2>2
  <2>4. CASE poll.units = units
    <3>1. poll.cursor \in 0..(Len(units) - 1) /\ IsRound(poll.lap, poll.cursor, Len(units))
      BY <1>1, <1>4, <2>4 DEF TurnIsRound, Places
    <3>2. poll.cursor % Len(units) = poll.cursor
      BY <2>2, <3>1
    <3> QED BY <3>1, <3>2, <2>4, <1>2
  <2>5. CASE poll.units # units
    BY <2>5, <2>2, <2>3, <1>2, EmptyIsRound
  <2> QED BY <2>4, <2>5
<1> QED BY <1>1, <1>2, <1>3, <1>4 DEF Fair, LapIsRound, TurnIsRound, Working

LEMMA FairStep == Fair /\ [Next]_vars => Fair'
<1> SUFFICES ASSUME Fair, [Next]_vars PROVE Fair'
  OBVIOUS
<1>1. CASE UNCHANGED vars
  <2>1. Inv'
    BY <1>1, InvStep DEF Fair
  <2> QED BY <1>1, <2>1 DEF vars, Fair, LapIsRound, TurnIsRound, Working
<1>2. CASE Next
  BY <1>2, FairAround, FairRead, FairTake, FairWrite DEF Next
<1> QED BY <1>1, <1>2

\* What a step adds to a turn that is being chosen is the unit at the cursor.
LEMMA ChargedIsAhead ==
  ASSUME Fair, [Next]_vars, poll.pc = "choose", NEW place \in poll'.chosen \ poll.chosen
  PROVE  place \notin poll.lap
<1>1. TypeOK
  BY DEF Fair, Inv
<1>2. CASE Take
  <2>1. place = poll.cursor
    BY <1>1, <1>2 DEF Take, TypeOK
  <2>2. poll.units \in Shapes /\ poll.units # <<>>
    BY <1>1 DEF Fair, Inv, ChoosesFromUnits, TypeOK
  <2>3. Len(poll.units) \in Nat \ {0} /\ poll.cursor \in 0..(Len(poll.units) - 1)
        /\ IsRound(poll.lap, poll.cursor, Len(poll.units))
    BY <1>1, <2>2, PlaceFacts DEF Fair, TurnIsRound, Working, Places
  <2> QED BY <2>1, <2>3, CursorIsAhead
<1>3. CASE ~Take
  <2>1. poll'.chosen \subseteq poll.chosen
    BY <1>1, <1>3 DEF Next, Edit, SetRate, Crash, ReadTurn, WriteTurn, Ask, Idle, vars, TypeOK
  <2> QED BY <2>1
<1> QED BY <1>2, <1>3

\* No unit is charged twice before every other was charged once, for lists of any length
\* and over edits, deaths and turns that stop anywhere in the round.
THEOREM RoundIsFair == Spec => OncePerLap
<1>1. Spec => []Fair
  BY FairInit, FairStep, PTL DEF Spec
<1>2. Fair /\ [Next]_vars =>
        [\A place \in poll'.chosen \ poll.chosen : poll.pc = "choose" => place \notin poll.lap]_vars
  BY ChargedIsAhead
<1> QED BY <1>1, <1>2, PTL DEF Spec, OncePerLap
=============================================================================
