---------------------------- MODULE SumTheorems ----------------------------
(***************************************************************************)
(* Induction stated with sets, and what SumFunction (Functions) computes    *)
(* over a finite domain: the sums of the spend meter rest on it.            *)
(***************************************************************************)
EXTENDS Integers, FiniteSets, Functions, FiniteSetTheorems, NaturalsInduction, WellFoundedInduction, TLAPS

\* Every set of numbers has a least one.
LEMMA NatHasLeast == \A S \in SUBSET Nat : S # {} => \E q \in S : \A r \in S : q <= r
<1> SUFFICES ASSUME NEW S \in SUBSET Nat, S # {}
             PROVE  \E q \in S : \A r \in S : q <= r
  OBVIOUS
<1> DEFINE less == {ss \in Nat \X Nat : ss[1] < ss[2]}
<1>1. IsWellFoundedOn(less, Nat)
  BY NatLessThanWellFounded DEF OpToRel
<1>2. \A q, r \in Nat : <<q, r>> \in less <=> q < r
  OBVIOUS
<1> HIDE DEF less
<1>3. PICK q \in S : \A r \in S : ~ (<<r, q>> \in less)
  BY <1>1, WFMin
<1>4. ASSUME NEW r \in S PROVE q <= r
  <2>1. q \in Nat /\ r \in Nat
    OBVIOUS
  <2>2. ~ (r < q)
    BY <1>2, <1>3, <2>1
  <2> QED BY <2>1, <2>2
<1> QED BY <1>4

LEMMA SetInduction ==
  ASSUME NEW S \in SUBSET Nat, 0 \in S, \A n \in S : n + 1 \in S
  PROVE  \A n \in Nat : n \in S
<1> SUFFICES ASSUME Nat \ S # {} PROVE FALSE
  OBVIOUS
<1>1. PICK q \in Nat \ S : \A r \in Nat \ S : q <= r
  <2>1. Nat \ S \in SUBSET Nat
    OBVIOUS
  <2> QED BY <2>1, NatHasLeast
<1>2. q - 1 \in Nat
  BY <1>1
<1>3. q - 1 \in S
  BY <1>1, <1>2
<1> QED BY <1>1, <1>2, <1>3

\* The element that a fold takes out first.
First(s) == CHOOSE x \in s : TRUE

\* A family of subsets of a finite set that holds {} and every set that it holds
\* without its first element holds them all.
LEMMA SubsetInduction ==
  ASSUME NEW D, IsFiniteSet(D), NEW F \in SUBSET (SUBSET D), {} \in F,
         \A s \in SUBSET D : s # {} /\ s \ {First(s)} \in F => s \in F
  PROVE  \A s \in SUBSET D : s \in F
<1> DEFINE S == {n \in Nat : \A s \in SUBSET D : Cardinality(s) = n => s \in F}
<1>1. \A s \in SUBSET D : IsFiniteSet(s) /\ Cardinality(s) \in Nat
  BY FS_Subset, FS_CardinalityType
<1>2. 0 \in S
  <2>1. \A s \in SUBSET D : Cardinality(s) = 0 => s = {}
    BY <1>1, FS_EmptySet
  <2> QED BY <2>1
<1>3. ASSUME NEW n \in S PROVE n + 1 \in S
  <2> SUFFICES ASSUME NEW s \in SUBSET D, Cardinality(s) = n + 1 PROVE s \in F
    OBVIOUS
  <2>1. s # {} /\ IsFiniteSet(s)
    BY <1>1, FS_EmptySet
  <2>2. First(s) \in s
    BY <2>1 DEF First
  <2>3. Cardinality(s \ {First(s)}) = n
    <3>1. Cardinality(s \ {First(s)}) = Cardinality(s) - 1
      BY <2>1, <2>2, FS_RemoveElement
    <3>2. n \in Nat
      OBVIOUS
    <3> QED BY <3>1, <3>2
  <2>4. s \ {First(s)} \in F
    BY <2>3
  <2> QED BY <2>1, <2>4
<1> HIDE DEF S
<1>4. \A n \in Nat : n \in S
  <2>1. S \in SUBSET Nat
    BY DEF S
  <2> QED BY <1>2, <1>3, <2>1, SetInduction
<1> QED BY <1>1, <1>4 DEF S

---------------------------------------------------------------------------
\* The function a sum goes through.
Sums(v, D) ==
  CHOOSE f : f = [s \in SUBSET D |-> IF s = {} THEN 0 ELSE v[First(s)] + f[s \ {First(s)}]]

LEMMA SumIs == ASSUME NEW v PROVE SumFunction(v) = Sums(v, DOMAIN v)[DOMAIN v]
BY DEF SumFunction, SumFunctionOnSet, FoldFunctionOnSet, MapThenFoldSet, Sums, First

LEMMA SumOnSetIs == ASSUME NEW v, NEW D PROVE SumFunctionOnSet(v, D) = Sums(v, D)[D]
BY DEF SumFunctionOnSet, FoldFunctionOnSet, MapThenFoldSet, Sums, First

\* There is one.
LEMMA SumsExist ==
  ASSUME NEW D, IsFiniteSet(D), NEW v
  PROVE  /\ Sums(v, D)[{}] = 0
         /\ \A s \in SUBSET D : s # {} =>
              Sums(v, D)[s] = v[First(s)] + Sums(v, D)[s \ {First(s)}]
<1> DEFINE Upto(n) == {s \in SUBSET D : Cardinality(s) <= n}
           Through(g, n) == [s \in Upto(n) |-> IF s = {} THEN 0 ELSE v[First(s)] + g[s \ {First(s)}]]
           S == {n \in Nat : \E f : f = Through(f, n)}
<1>1. \A s \in SUBSET D : IsFiniteSet(s) /\ Cardinality(s) \in Nat
  BY FS_Subset, FS_CardinalityType
<1>2. \A s \in SUBSET D : s # {} =>
        /\ First(s) \in s /\ s \ {First(s)} \in SUBSET D
        /\ Cardinality(s \ {First(s)}) = Cardinality(s) - 1
  <2> TAKE s \in SUBSET D
  <2> HAVE s # {}
  <2>1. First(s) \in s
    BY DEF First
  <2> QED BY <1>1, <2>1, FS_RemoveElement
<1>3. 0 \in S
  <2>1. \A s \in Upto(0) : s = {}
    BY <1>1, FS_EmptySet
  <2> DEFINE f == [s \in Upto(0) |-> 0]
  <2>2. f = Through(f, 0)
    BY <2>1
  <2> HIDE DEF f
  <2> QED BY <2>2
<1>4. ASSUME NEW n \in S PROVE n + 1 \in S
  <2>1. PICK g : g = Through(g, n)
    OBVIOUS
  <2> DEFINE f == Through(g, n + 1)
  <2>2. n \in Nat
    OBVIOUS
  <2>3. \A s \in Upto(n) : s \in Upto(n + 1) /\ f[s] = g[s]
    <3>1. \A s \in Upto(n) : s \in Upto(n + 1)
      BY <1>1, <2>2
    <3>2. \A s \in Upto(n) : g[s] = IF s = {} THEN 0 ELSE v[First(s)] + g[s \ {First(s)}]
      BY <2>1
    <3> QED BY <3>1, <3>2
  <2>4. \A s \in Upto(n + 1) : s # {} => s \ {First(s)} \in Upto(n)
    BY <1>1, <1>2, <2>2
  <2>5. f = Through(f, n + 1)
    <3>1. \A s \in Upto(n + 1) : s # {} => f[s \ {First(s)}] = g[s \ {First(s)}]
      BY <2>3, <2>4
    <3>2. Through(f, n + 1) = Through(g, n + 1)
      <4> DEFINE a(s) == IF s = {} THEN 0 ELSE v[First(s)] + f[s \ {First(s)}]
                 b(s) == IF s = {} THEN 0 ELSE v[First(s)] + g[s \ {First(s)}]
      <4> HIDE DEF f
      <4>1. \A s \in Upto(n + 1) : a(s) = b(s)
        BY <3>1
      <4> HIDE DEF a, b
      <4>2. [s \in Upto(n + 1) |-> a(s)] = [s \in Upto(n + 1) |-> b(s)]
        BY <4>1
      <4> QED BY <4>2 DEF a, b
    <3> QED BY <3>2
  <2>6. \E h : h = Through(h, n + 1)
    <3> HIDE DEF f, Through
    <3> QED BY <2>5
  <2> HIDE DEF f, Through
  <2>7. n + 1 \in Nat
    BY <2>2
  <2> QED BY <2>6, <2>7
<1>5. Cardinality(D) \in S
  <2> HIDE DEF S
  <2>1. S \in SUBSET Nat
    BY DEF S
  <2>2. \A n \in Nat : n \in S
    BY <1>3, <1>4, <2>1, SetInduction
  <2> QED BY <1>1, <2>2
<1>6. Upto(Cardinality(D)) = SUBSET D
  BY FS_Subset
<1>7. \E f : f = [s \in SUBSET D |-> IF s = {} THEN 0 ELSE v[First(s)] + f[s \ {First(s)}]]
  BY <1>5, <1>6
<1>8. Sums(v, D) = [s \in SUBSET D |->
        IF s = {} THEN 0 ELSE v[First(s)] + Sums(v, D)[s \ {First(s)}]]
  BY <1>7 DEF Sums
<1> QED BY <1>8

---------------------------------------------------------------------------
\* What SumFunction computes.

\* A family of sets: those whose sums have a property.
LEMMA SumStep ==
  ASSUME NEW D, IsFiniteSet(D), NEW v, NEW s \in SUBSET D, s # {}
  PROVE  /\ First(s) \in s /\ s \ {First(s)} \in SUBSET D
         /\ Sums(v, D)[s] = v[First(s)] + Sums(v, D)[s \ {First(s)}]
<1>1. First(s) \in s
  BY DEF First
<1> QED BY <1>1, SumsExist

LEMMA SumsType ==
  ASSUME NEW D, IsFiniteSet(D), NEW v \in [D -> Nat]
  PROVE  \A s \in SUBSET D : Sums(v, D)[s] \in Nat
<1> DEFINE F == {s \in SUBSET D : Sums(v, D)[s] \in Nat}
<1>1. {} \in F
  BY SumsExist
<1>2. ASSUME NEW s \in SUBSET D, s # {}, s \ {First(s)} \in F PROVE s \in F
  BY <1>2, SumStep
<1>3. \A s \in SUBSET D : s \in F
  <2> HIDE DEF F
  <2>1. F \in SUBSET (SUBSET D)
    BY DEF F
  <2> QED BY <1>1, <1>2, <2>1, SubsetInduction
<1> QED BY <1>3

\* A sum of numbers is a number.
THEOREM SumType ==
  ASSUME NEW D, IsFiniteSet(D), NEW v \in [D -> Nat]
  PROVE  SumFunction(v) \in Nat
BY SumIs, SumsType

\* One value changes, and the sum by as much.
THEOREM SumChange ==
  ASSUME NEW D, IsFiniteSet(D), NEW v \in [D -> Nat], NEW w \in [D -> Nat],
         NEW k \in D, \A x \in D \ {k} : w[x] = v[x]
  PROVE  SumFunction(w) = SumFunction(v) - v[k] + w[k]
<1> DEFINE d == w[k] - v[k]
           F == {s \in SUBSET D : Sums(w, D)[s] = Sums(v, D)[s] + IF k \in s THEN d ELSE 0}
<1>0. d \in Int
  OBVIOUS
<1> HIDE DEF d
<1>1. {} \in F
  BY SumsExist
<1>2. ASSUME NEW s \in SUBSET D, s # {}, s \ {First(s)} \in F PROVE s \in F
  <2> DEFINE x == First(s)
             rest == s \ {x}
  <2>1. /\ x \in s /\ rest \in SUBSET D
        /\ Sums(v, D)[s] = v[x] + Sums(v, D)[rest] /\ Sums(w, D)[s] = w[x] + Sums(w, D)[rest]
    <3>1. \A f : Sums(f, D)[s] = f[x] + Sums(f, D)[rest]
      BY <1>2, SumsExist
    <3>2. x \in s
      BY <1>2 DEF First
    <3> QED BY <3>1, <3>2
  <2>2. Sums(v, D)[rest] \in Nat /\ Sums(w, D)[rest] \in Nat /\ v[x] \in Nat /\ w[x] \in Nat
    BY <2>1, SumsType
  <2>3. Sums(w, D)[rest] = Sums(v, D)[rest] + IF k \in rest THEN d ELSE 0
    BY <1>2
  <2>4. CASE x = k
    <3>1. w[x] = v[x] + d /\ k \notin rest /\ k \in s
      BY <2>1, <2>2, <2>4 DEF d
    <3>2. Sums(w, D)[s] = Sums(v, D)[s] + d
      BY <1>0, <2>1, <2>2, <2>3, <3>1
    <3> QED BY <3>1, <3>2
  <2>5. CASE x # k
    <3>1. w[x] = v[x] /\ (k \in rest <=> k \in s)
      BY <2>1, <2>5
    <3> HIDE DEF x, rest
    <3>2. CASE k \in s
      BY <1>0, <2>1, <2>2, <2>3, <3>1, <3>2
    <3>3. CASE k \notin s
      BY <1>0, <2>1, <2>2, <2>3, <3>1, <3>3
    <3> QED BY <3>2, <3>3
  <2> QED BY <2>4, <2>5
<1>3. \A s \in SUBSET D : s \in F
  <2> HIDE DEF F
  <2>1. F \in SUBSET (SUBSET D)
    BY DEF F
  <2> QED BY <1>1, <1>2, <2>1, SubsetInduction
<1>4. Sums(w, D)[D] = Sums(v, D)[D] + d
  BY <1>3
<1>5. Sums(v, D)[D] \in Nat
  BY SumsType
<1> QED BY <1>4, <1>5, SumIs DEF d

\* Values that grow, or stay, have a sum that does.
THEOREM SumMonotone ==
  ASSUME NEW D, IsFiniteSet(D), NEW v \in [D -> Nat], NEW w \in [D -> Nat],
         \A x \in D : v[x] <= w[x]
  PROVE  SumFunction(v) <= SumFunction(w)
<1> DEFINE F == {s \in SUBSET D : Sums(v, D)[s] <= Sums(w, D)[s]}
<1>1. {} \in F
  BY SumsExist
<1>2. ASSUME NEW s \in SUBSET D, s # {}, s \ {First(s)} \in F PROVE s \in F
  <2> DEFINE x == First(s)
             rest == s \ {x}
  <2>1. /\ x \in s /\ rest \in SUBSET D
        /\ Sums(v, D)[s] = v[x] + Sums(v, D)[rest] /\ Sums(w, D)[s] = w[x] + Sums(w, D)[rest]
    <3>1. \A f : Sums(f, D)[s] = f[x] + Sums(f, D)[rest]
      BY <1>2, SumsExist
    <3>2. x \in s
      BY <1>2 DEF First
    <3> QED BY <3>1, <3>2
  <2>2. Sums(v, D)[rest] \in Nat /\ Sums(w, D)[rest] \in Nat /\ v[x] \in Nat /\ w[x] \in Nat
        /\ v[x] <= w[x]
    BY <2>1, SumsType
  <2>3. Sums(v, D)[rest] <= Sums(w, D)[rest]
    BY <1>2
  <2> HIDE DEF x, rest
  <2>4. Sums(v, D)[s] <= Sums(w, D)[s]
    BY <2>1, <2>2, <2>3
  <2> QED BY <2>4
<1>3. \A s \in SUBSET D : s \in F
  <2> HIDE DEF F
  <2>1. F \in SUBSET (SUBSET D)
    BY DEF F
  <2> QED BY <1>1, <1>2, <2>1, SubsetInduction
<1>4. Sums(v, D)[D] <= Sums(w, D)[D]
  BY <1>3
<1> QED BY <1>4, SumIs

\* Values that are all the same sum to so many times one of them.
THEOREM SumOfSame ==
  ASSUME NEW D, IsFiniteSet(D), NEW T \in SUBSET D, NEW c \in Nat
  PROVE  SumFunction([x \in D |-> IF x \in T THEN c ELSE 0]) = Cardinality(T) * c
<1> DEFINE v == [x \in D |-> IF x \in T THEN c ELSE 0]
           F == {s \in SUBSET D : Sums(v, D)[s] = Cardinality(s \cap T) * c}
<1>0. v \in [D -> Nat] /\ \A x \in D : v[x] = IF x \in T THEN c ELSE 0
  OBVIOUS
<1>t. \A s \in SUBSET D : IsFiniteSet(s \cap T) /\ Cardinality(s \cap T) \in Nat
  <2> TAKE s \in SUBSET D
  <2>1. s \cap T \in SUBSET D
    OBVIOUS
  <2> QED BY <2>1, FS_Subset, FS_CardinalityType
<1> HIDE DEF v
<1>1. {} \in F
  <2>1. {} \cap T = {} /\ Cardinality({}) = 0
    BY FS_EmptySet
  <2>2. Cardinality({} \cap T) * c = 0
    BY <2>1
  <2> QED BY <2>2, SumsExist
<1>2. ASSUME NEW s \in SUBSET D, s # {}, s \ {First(s)} \in F PROVE s \in F
  <2> DEFINE x == First(s)
             rest == s \ {x}
             n == Cardinality(rest \cap T)
  <2>1. /\ x \in s /\ rest \in SUBSET D
        /\ Sums(v, D)[s] = v[x] + Sums(v, D)[rest]
    BY <1>2, SumStep
  <2>2. Sums(v, D)[rest] = n * c
    BY <1>2
  <2>3. n \in Nat
    BY <1>t, <2>1
  <2>4. CASE x \in T
    <3>1. rest \cap T = (s \cap T) \ {x} /\ x \in s \cap T
      BY <2>1, <2>4
    <3>2. n = Cardinality(s \cap T) - 1
      BY <1>t, <3>1, FS_RemoveElement
    <3>3. v[x] = c
      BY <1>0, <2>1, <2>4
    <3>4. Cardinality(s \cap T) \in Nat
      BY <1>t
    <3> HIDE DEF x, rest, n
    <3>5. c + n * c = (n + 1) * c
      BY <2>3
    <3>6. Cardinality(s \cap T) = n + 1
      BY <3>2, <3>4, <2>3
    <3>7. Sums(v, D)[s] = Cardinality(s \cap T) * c
      BY <2>1, <2>2, <3>3, <3>5, <3>6
    <3> QED BY <3>7
  <2>5. CASE x \notin T
    <3>1. rest \cap T = s \cap T
      BY <2>5
    <3>2. v[x] = 0
      BY <1>0, <2>1, <2>5
    <3>3. n * c \in Nat
      BY <2>3
    <3>4. Sums(v, D)[s] = n * c
      BY <2>1, <2>2, <3>2, <3>3
    <3> QED BY <3>1, <3>4
  <2> QED BY <2>4, <2>5
<1>3. \A s \in SUBSET D : s \in F
  <2> HIDE DEF F
  <2>1. F \in SUBSET (SUBSET D)
    BY DEF F
  <2> QED BY <1>1, <1>2, <2>1, SubsetInduction
<1>4. Sums(v, D)[D] = Cardinality(T) * c
  <2>1. D \cap T = T
    OBVIOUS
  <2> QED BY <1>3, <2>1
<1>5. SumFunction(v) = Cardinality(T) * c
  BY <1>0, <1>4, SumIs
<1> QED BY <1>5 DEF v

\* The values of a sum of two functions sum to the two sums.
THEOREM SumAdd ==
  ASSUME NEW D, IsFiniteSet(D), NEW v \in [D -> Nat], NEW w \in [D -> Nat],
         NEW u \in [D -> Nat], \A x \in D : u[x] = v[x] + w[x]
  PROVE  SumFunction(u) = SumFunction(v) + SumFunction(w)
<1> DEFINE F == {s \in SUBSET D : Sums(u, D)[s] = Sums(v, D)[s] + Sums(w, D)[s]}
<1>1. {} \in F
  BY SumsExist
<1>2. ASSUME NEW s \in SUBSET D, s # {}, s \ {First(s)} \in F PROVE s \in F
  <2> DEFINE x == First(s)
             rest == s \ {x}
  <2>1. /\ x \in s /\ rest \in SUBSET D
        /\ Sums(u, D)[s] = u[x] + Sums(u, D)[rest]
        /\ Sums(v, D)[s] = v[x] + Sums(v, D)[rest] /\ Sums(w, D)[s] = w[x] + Sums(w, D)[rest]
    <3>1. \A f : Sums(f, D)[s] = f[x] + Sums(f, D)[rest]
      BY <1>2, SumsExist
    <3>2. x \in s
      BY <1>2 DEF First
    <3> QED BY <3>1, <3>2
  <2>2. /\ Sums(v, D)[rest] \in Nat /\ Sums(w, D)[rest] \in Nat
        /\ v[x] \in Nat /\ w[x] \in Nat /\ u[x] = v[x] + w[x]
    BY <2>1, SumsType
  <2>3. Sums(u, D)[rest] = Sums(v, D)[rest] + Sums(w, D)[rest]
    BY <1>2
  <2> HIDE DEF x, rest
  <2>4. Sums(u, D)[s] = Sums(v, D)[s] + Sums(w, D)[s]
    BY <2>1, <2>2, <2>3
  <2> QED BY <2>4
<1>3. \A s \in SUBSET D : s \in F
  <2> HIDE DEF F
  <2>1. F \in SUBSET (SUBSET D)
    BY DEF F
  <2> QED BY <1>1, <1>2, <2>1, SubsetInduction
<1>4. Sums(u, D)[D] = Sums(v, D)[D] + Sums(w, D)[D]
  BY <1>3
<1> QED BY <1>4, SumIs

\* A sum is at least each of its values, and is that value where the others are nothing.
THEOREM SumAtLeast ==
  ASSUME NEW D, IsFiniteSet(D), NEW v \in [D -> Nat], NEW k \in D
  PROVE  /\ v[k] <= SumFunction(v)
         /\ (\A x \in D \ {k} : v[x] = 0) => SumFunction(v) = v[k]
<1> DEFINE none == [x \in D |-> IF x \in {} THEN 0 ELSE 0]
           w == [x \in D |-> IF x = k THEN v[k] ELSE 0]
<1>1. SumFunction(none) = 0
  <2>1. SumFunction(none) = Cardinality({}) * 0
    BY SumOfSame
  <2> QED BY <2>1, FS_EmptySet
<1>2. none \in [D -> Nat] /\ w \in [D -> Nat] /\ \A x \in D : none[x] = 0
  OBVIOUS
<1>3. w[k] = v[k] /\ \A x \in D \ {k} : w[x] = none[x]
  OBVIOUS
<1>4. \A x \in D : w[x] <= v[x]
  OBVIOUS
<1>5. (\A x \in D \ {k} : v[x] = 0) => w = v
  OBVIOUS
<1>6. v[k] \in Nat
  OBVIOUS
<1> HIDE DEF none, w
<1>7. SumFunction(w) = SumFunction(none) - none[k] + w[k]
  BY <1>2, <1>3, SumChange
<1>8. SumFunction(w) = v[k]
  BY <1>1, <1>2, <1>3, <1>6, <1>7
<1>9. SumFunction(w) <= SumFunction(v)
  BY <1>2, <1>4, SumMonotone
<1> QED BY <1>5, <1>8, <1>9
=============================================================================
