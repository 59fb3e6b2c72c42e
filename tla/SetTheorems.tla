---------------------------- MODULE SetTheorems -----------------------------
(***************************************************************************)
(* Facts about SumFunctionOnSet of the community modules, with the         *)
(* induction they rest on, and about the elements of an ordered finite     *)
(* set. Induction hypotheses and orders are sets, not operators, so that   *)
(* the facts can be cited like any other.                                  *)
(***************************************************************************)
EXTENDS Integers, Functions, FiniteSetTheorems, WellFoundedInduction, TLAPS

(***************************************************************************)
(* Induction on the natural numbers, with a set for the induction          *)
(* hypothesis: the least number outside the set cannot exist.              *)
(***************************************************************************)
Smaller == {p \in Nat \X Nat : p[1] < p[2]}

LEMMA SmallerWellFounded == IsWellFoundedOn(Smaller, Nat)
BY NatLessThanWellFounded DEF OpToRel, Smaller

LEMMA LeastNumber ==
  ASSUME NEW T \in SUBSET Nat, T # {}
  PROVE  \E m \in T : \A k \in T : m <= k
<1>1. PICK m \in T : \A k \in T : <<k, m>> \notin Smaller
  BY SmallerWellFounded, WFMin
<1>2. ASSUME NEW k \in T PROVE m <= k
  <2>1. m \in Nat /\ k \in Nat /\ ~(k < m)
    BY <1>1 DEF Smaller
  <2> QED BY <2>1
<1> QED BY <1>2

LEMMA SetInduction ==
  ASSUME NEW P, 0 \in P, \A n \in Nat : n \in P => n + 1 \in P
  PROVE  Nat \subseteq P
<1> DEFINE Bad == Nat \ P
<1> SUFFICES ASSUME Bad # {} PROVE FALSE
  OBVIOUS
<1>0. Bad \in SUBSET Nat /\ Bad # {}
  OBVIOUS
<1>1. PICK m \in Bad : \A k \in Bad : m <= k
  <2> HIDE DEF Bad
  <2> QED BY <1>0, LeastNumber
<1>2. m \in Nat /\ m # 0 /\ m - 1 \in Nat /\ m - 1 < m /\ m = (m - 1) + 1
  OBVIOUS
<1>3. m - 1 \notin Bad
  BY <1>1, <1>2
<1> QED BY <1>2, <1>3

(* Induction on the size of a finite set. *)
LEMMA SizeInduction ==
  ASSUME NEW P, NEW U, {} \in P,
         \A s \in SUBSET U : IsFiniteSet(s) /\ s # {} /\ (\A x \in s : s \ {x} \in P) => s \in P
  PROVE  \A s \in SUBSET U : IsFiniteSet(s) => s \in P
<1> DEFINE Q == {n \in Nat : \A s \in SUBSET U : IsFiniteSet(s) /\ Cardinality(s) = n => s \in P}
<1>1. 0 \in Q
  BY FS_EmptySet
<1>2. \A n \in Nat : n \in Q => n + 1 \in Q
  <2> SUFFICES ASSUME NEW n \in Nat, n \in Q, NEW s \in SUBSET U, IsFiniteSet(s), Cardinality(s) = n + 1
               PROVE  s \in P
    OBVIOUS
  <2>1. s # {}
    BY FS_EmptySet
  <2>2. ASSUME NEW x \in s PROVE IsFiniteSet(s \ {x}) /\ Cardinality(s \ {x}) = n
    <3> HIDE DEF Q
    <3>1. IsFiniteSet(s \ {x}) /\ Cardinality(s \ {x}) = Cardinality(s) - 1
      BY FS_RemoveElement
    <3> QED BY <3>1
  <2>3. \A x \in s : s \ {x} \in P
    BY <2>2
  <2>4. s \in SUBSET U /\ IsFiniteSet(s)
    OBVIOUS
  <2> HIDE DEF Q
  <2> QED BY <2>1, <2>3, <2>4
<1> HIDE DEF Q
<1>3. Nat \subseteq Q
  BY <1>1, <1>2, SetInduction
<1> QED BY <1>3, FS_CardinalityType DEF Q

----------------------------------------------------------------------------
(* One step of SumFunctionOnSet, and the function it sums with.             *)
First(s) == CHOOSE x \in s : TRUE
Step(f, g, s) == IF s = {} THEN 0 ELSE f[First(s)] + g[s \ {First(s)}]
Partial(f, S) == CHOOSE iter : iter = [s \in SUBSET S |-> Step(f, iter, s)]

LEMMA SumIsPartial ==
  ASSUME NEW f, NEW S
  PROVE  SumFunctionOnSet(f, S) = Partial(f, S)[S]
BY DEF SumFunctionOnSet, FoldFunctionOnSet, MapThenFoldSet, Partial, Step, First

LEMMA FirstIn == ASSUME NEW s, s # {} PROVE First(s) \in s
BY DEF First

(* The recursive definition has a solution. *)
LEMMA PartialExists ==
  ASSUME NEW f, NEW S, IsFiniteSet(S)
  PROVE  \E g : g = [s \in SUBSET S |-> Step(f, g, s)]
<1> DEFINE Upto(n) == {s \in SUBSET S : Cardinality(s) <= n}
           Solves(n, g) == g = [s \in Upto(n) |-> Step(f, g, s)]
           Q == {n \in Nat : \E g : Solves(n, g)}
<1>0. \A s \in SUBSET S : IsFiniteSet(s) /\ Cardinality(s) \in Nat /\ Cardinality(s) <= Cardinality(S)
  BY FS_Subset, FS_CardinalityType
<1>1. 0 \in Q
  <2>1. \A s \in Upto(0) : s = {}
    BY <1>0, FS_EmptySet
  <2> DEFINE g == [s \in Upto(0) |-> 0]
  <2>2. Solves(0, g)
    BY <2>1 DEF Step
  <2> QED BY <2>2
<1>2. \A n \in Nat : n \in Q => n + 1 \in Q
  <2> SUFFICES ASSUME NEW n \in Nat, n \in Q PROVE n + 1 \in Q
    OBVIOUS
  <2>1. PICK g : Solves(n, g)
    OBVIOUS
  <2> DEFINE h == [s \in Upto(n + 1) |-> Step(f, g, s)]
  <2>2. \A s \in Upto(n) : s \in Upto(n + 1) /\ h[s] = g[s]
    BY <1>0, <2>1
  <2>3. \A s \in Upto(n + 1) : s # {} => s \ {First(s)} \in Upto(n)
    BY <1>0, FirstIn, FS_RemoveElement
  <2>4. \A s \in Upto(n + 1) : Step(f, g, s) = Step(f, h, s)
    BY <2>2, <2>3 DEF Step
  <2>5. Solves(n + 1, h)
    BY <2>4
  <2> HIDE DEF h, Solves
  <2> QED BY <2>5
<1>3. Cardinality(S) \in Q
  <2> HIDE DEF Q
  <2> QED BY <1>0, <1>1, <1>2, SetInduction
<1>4. Upto(Cardinality(S)) = SUBSET S
  BY <1>0
<1> QED BY <1>3, <1>4

LEMMA PartialSum ==
  ASSUME NEW f, NEW S, IsFiniteSet(S), NEW s \in SUBSET S
  PROVE  Partial(f, S)[s] = Step(f, Partial(f, S), s)
<1>1. Partial(f, S) = [t \in SUBSET S |-> Step(f, Partial(f, S), t)]
  BY PartialExists DEF Partial
<1> QED BY <1>1

(* The sum over a subset does not depend on the set it is part of. *)
LEMMA PartialIsSum ==
  ASSUME NEW f, NEW S, IsFiniteSet(S), NEW s \in SUBSET S
  PROVE  Partial(f, S)[s] = SumFunctionOnSet(f, s)
<1> DEFINE P == {t \in SUBSET S : Partial(f, S)[t] = SumFunctionOnSet(f, t)}
           Q == {t \in SUBSET S : \A T \in SUBSET S : t \subseteq T => Partial(f, S)[t] = Partial(f, T)[t]}
<1>0. \A t \in SUBSET S : IsFiniteSet(t)
  BY FS_Subset
<1>1. {} \in Q
  BY <1>0, PartialSum DEF Step
<1>2. \A t \in SUBSET S : IsFiniteSet(t) /\ t # {} /\ (\A x \in t : t \ {x} \in Q) => t \in Q
  <2> SUFFICES ASSUME NEW t \in SUBSET S, t # {}, \A x \in t : t \ {x} \in Q,
                      NEW T \in SUBSET S, t \subseteq T
               PROVE  Partial(f, S)[t] = Partial(f, T)[t]
    OBVIOUS
  <2>1. First(t) \in t /\ t \ {First(t)} \in Q
    BY FirstIn
  <2>2. Partial(f, S)[t \ {First(t)}] = Partial(f, T)[t \ {First(t)}]
    BY <2>1
  <2>3. Partial(f, S)[t] = Step(f, Partial(f, S), t) /\ Partial(f, T)[t] = Step(f, Partial(f, T), t)
    BY <1>0, PartialSum
  <2> QED BY <2>2, <2>3 DEF Step
<1>3. s \in Q
  <2> HIDE DEF Q
  <2> QED BY <1>0, <1>1, <1>2, SizeInduction
<1>4. Partial(f, S)[s] = Partial(f, s)[s]
  BY <1>3
<1> QED BY <1>4, SumIsPartial

LEMMA SumStep ==
  ASSUME NEW f, NEW S, IsFiniteSet(S)
  PROVE  /\ S = {} => SumFunctionOnSet(f, S) = 0
         /\ S # {} => SumFunctionOnSet(f, S) = f[First(S)] + SumFunctionOnSet(f, S \ {First(S)})
<1>1. SumFunctionOnSet(f, S) = Step(f, Partial(f, S), S)
  BY SumIsPartial, PartialSum
<1>2. S # {} => Partial(f, S)[S \ {First(S)}] = SumFunctionOnSet(f, S \ {First(S)})
  BY PartialIsSum
<1> QED BY <1>1, <1>2 DEF Step

----------------------------------------------------------------------------
(* What the proofs about totals use.                                        *)

LEMMA SumEmpty == ASSUME NEW f PROVE SumFunctionOnSet(f, {}) = 0
BY SumStep, FS_EmptySet

LEMMA SumTyped ==
  ASSUME NEW f, NEW S, IsFiniteSet(S), \A x \in S : f[x] \in Int
  PROVE  SumFunctionOnSet(f, S) \in Int
<1> DEFINE Q == {t \in SUBSET S : SumFunctionOnSet(f, t) \in Int}
<1>1. {} \in Q
  BY SumEmpty
<1>2. \A t \in SUBSET S : IsFiniteSet(t) /\ t # {} /\ (\A x \in t : t \ {x} \in Q) => t \in Q
  <2> SUFFICES ASSUME NEW t \in SUBSET S, IsFiniteSet(t), t # {}, \A x \in t : t \ {x} \in Q
               PROVE  SumFunctionOnSet(f, t) \in Int
    OBVIOUS
  <2>1. First(t) \in t /\ SumFunctionOnSet(f, t \ {First(t)}) \in Int
    BY FirstIn
  <2>2. SumFunctionOnSet(f, t) = f[First(t)] + SumFunctionOnSet(f, t \ {First(t)})
    BY SumStep
  <2>3. f[First(t)] \in Int
    BY <2>1
  <2> QED BY <2>1, <2>2, <2>3
<1> HIDE DEF Q
<1>3. S \in Q
  BY <1>1, <1>2, SizeInduction
<1> QED BY <1>3 DEF Q

(* Any element may be taken out first. *)
LEMMA SumRemove ==
  ASSUME NEW f, NEW S, IsFiniteSet(S), \A x \in S : f[x] \in Int, NEW x \in S
  PROVE  SumFunctionOnSet(f, S) = f[x] + SumFunctionOnSet(f, S \ {x})
<1> DEFINE Total(t) == SumFunctionOnSet(f, t)
           Q == {t \in SUBSET S : \A y \in t : Total(t) = f[y] + Total(t \ {y})}
<1>1. {} \in Q
  OBVIOUS
<1>2. \A t \in SUBSET S : IsFiniteSet(t) /\ t # {} /\ (\A y \in t : t \ {y} \in Q) => t \in Q
  <2> SUFFICES ASSUME NEW t \in SUBSET S, IsFiniteSet(t), t # {}, \A z \in t : t \ {z} \in Q, NEW y \in t
               PROVE  Total(t) = f[y] + Total(t \ {y})
    OBVIOUS
  <2> DEFINE c == First(t)
             r == (t \ {c}) \ {y}
  <2>1. c \in t
    BY FirstIn
  <2> HIDE DEF c
  <2>2. Total(t) = f[c] + Total(t \ {c})
    BY SumStep DEF c
  <2>3. CASE c # y
    <3>1. Total(t \ {c}) = f[y] + Total(r)
      BY <2>1, <2>3
    <3>2. Total(t \ {y}) = f[c] + Total((t \ {y}) \ {c})
      BY <2>1, <2>3
    <3>3. (t \ {y}) \ {c} = r
      OBVIOUS
    <3>4. Total(r) \in Int
      BY SumTyped, FS_Subset
    <3>5. f[c] \in Int /\ f[y] \in Int
      BY <2>1
    <3>6. Total(t \ {y}) = f[c] + Total(r)
      BY <3>2, <3>3
    <3> HIDE DEF Total, r
    <3> QED BY <2>2, <3>1, <3>4, <3>5, <3>6
  <2> QED BY <2>2, <2>3
<1> HIDE DEF Q
<1>3. S \in Q
  BY <1>1, <1>2, SizeInduction
<1> QED BY <1>3 DEF Q

(* The sum sees nothing of the function outside the set. *)
LEMMA SumAgrees ==
  ASSUME NEW f, NEW g, NEW S, IsFiniteSet(S), \A x \in S : f[x] = g[x]
  PROVE  SumFunctionOnSet(f, S) = SumFunctionOnSet(g, S)
<1> DEFINE Q == {t \in SUBSET S : SumFunctionOnSet(f, t) = SumFunctionOnSet(g, t)}
<1>1. {} \in Q
  BY SumEmpty
<1>2. \A t \in SUBSET S : IsFiniteSet(t) /\ t # {} /\ (\A x \in t : t \ {x} \in Q) => t \in Q
  <2> SUFFICES ASSUME NEW t \in SUBSET S, IsFiniteSet(t), t # {}, \A x \in t : t \ {x} \in Q
               PROVE  SumFunctionOnSet(f, t) = SumFunctionOnSet(g, t)
    OBVIOUS
  <2>1. First(t) \in t /\ f[First(t)] = g[First(t)]
    BY FirstIn
  <2>2. SumFunctionOnSet(f, t \ {First(t)}) = SumFunctionOnSet(g, t \ {First(t)})
    BY <2>1
  <2>3. /\ SumFunctionOnSet(f, t) = f[First(t)] + SumFunctionOnSet(f, t \ {First(t)})
        /\ SumFunctionOnSet(g, t) = g[First(t)] + SumFunctionOnSet(g, t \ {First(t)})
    BY SumStep
  <2> QED BY <2>1, <2>2, <2>3
<1> HIDE DEF Q
<1>3. S \in Q
  BY <1>1, <1>2, SizeInduction
<1> QED BY <1>3 DEF Q

(* Changing one value changes the sum by the difference. *)
LEMMA SumChange ==
  ASSUME NEW S, IsFiniteSet(S), NEW x \in S, NEW f, NEW g,
         \A y \in S : f[y] \in Int /\ g[y] \in Int, \A y \in S \ {x} : f[y] = g[y]
  PROVE  SumFunctionOnSet(g, S) = SumFunctionOnSet(f, S) + (g[x] - f[x])
<1>1. IsFiniteSet(S \ {x})
  BY FS_Subset
<1>2. SumFunctionOnSet(f, S \ {x}) = SumFunctionOnSet(g, S \ {x}) /\ SumFunctionOnSet(f, S \ {x}) \in Int
  BY <1>1, SumAgrees, SumTyped
<1>3. SumFunctionOnSet(f, S) = f[x] + SumFunctionOnSet(f, S \ {x})
  BY SumRemove
<1>4. SumFunctionOnSet(g, S) = g[x] + SumFunctionOnSet(g, S \ {x})
  BY SumRemove
<1> QED BY <1>2, <1>3, <1>4

(* Adding an element adds its value. *)
LEMMA SumAdd ==
  ASSUME NEW S, IsFiniteSet(S), NEW x, x \notin S, NEW f, NEW g,
         \A y \in S : f[y] \in Int /\ g[y] = f[y], g[x] \in Int
  PROVE  SumFunctionOnSet(g, S \cup {x}) = SumFunctionOnSet(f, S) + g[x]
<1> DEFINE T == S \cup {x}
<1>1. IsFiniteSet(T) /\ x \in T /\ T \ {x} = S
  BY FS_AddElement
<1>2. \A y \in T : g[y] \in Int
  OBVIOUS
<1> HIDE DEF T
<1>3. SumFunctionOnSet(g, T) = g[x] + SumFunctionOnSet(g, T \ {x})
  BY <1>1, <1>2, SumRemove
<1>4. SumFunctionOnSet(g, T) = g[x] + SumFunctionOnSet(g, S)
  BY <1>1, <1>3
<1>5. SumFunctionOnSet(g, S) = SumFunctionOnSet(f, S) /\ SumFunctionOnSet(f, S) \in Int
  BY SumAgrees, SumTyped
<1> QED BY <1>4, <1>5 DEF T

(* Zeros add up to nothing. *)
LEMMA SumOfZeros ==
  ASSUME NEW S, IsFiniteSet(S), NEW f, \A x \in S : f[x] = 0
  PROVE  SumFunctionOnSet(f, S) = 0
<1> DEFINE Q == {t \in SUBSET S : SumFunctionOnSet(f, t) = 0}
<1>1. {} \in Q
  BY SumEmpty
<1>2. \A t \in SUBSET S : IsFiniteSet(t) /\ t # {} /\ (\A x \in t : t \ {x} \in Q) => t \in Q
  <2> SUFFICES ASSUME NEW t \in SUBSET S, IsFiniteSet(t), t # {}, \A x \in t : t \ {x} \in Q
               PROVE  SumFunctionOnSet(f, t) = 0
    OBVIOUS
  <2>1. First(t) \in t /\ f[First(t)] = 0 /\ SumFunctionOnSet(f, t \ {First(t)}) = 0
    BY FirstIn
  <2> QED BY <2>1, SumStep
<1> HIDE DEF Q
<1>3. S \in Q
  BY <1>1, <1>2, SizeInduction
<1> QED BY <1>3 DEF Q

(* Appending to a sequence of numbers. *)
LEMMA SumAppend ==
  ASSUME NEW n \in Nat, NEW f, NEW g, \A i \in 1 .. n : f[i] \in Int /\ g[i] = f[i], g[n + 1] \in Int
  PROVE  SumFunctionOnSet(g, 1 .. (n + 1)) = SumFunctionOnSet(f, 1 .. n) + g[n + 1]
<1> DEFINE S == 1 .. n
           x == n + 1
<1>1. IsFiniteSet(S)
  BY FS_Interval
<1>2. x \notin S /\ 1 .. (n + 1) = S \cup {x}
  OBVIOUS
<1>3. g[x] \in Int /\ \A y \in S : f[y] \in Int /\ g[y] = f[y]
  OBVIOUS
<1> HIDE DEF S, x
<1>4. SumFunctionOnSet(g, S \cup {x}) = SumFunctionOnSet(f, S) + g[x]
  BY <1>1, <1>2, <1>3, SumAdd, SMTT(30)
<1> QED BY <1>2, <1>4 DEF S, x

----------------------------------------------------------------------------
(* The place of an element in a finite set that is ordered strictly.        *)

StrictOrder(S, lt) ==
  /\ \A x \in S : <<x, x>> \notin lt
  /\ \A x, y, z \in S : <<x, y>> \in lt /\ <<y, z>> \in lt => <<x, z>> \in lt
  /\ \A x, y \in S : x = y \/ <<x, y>> \in lt \/ <<y, x>> \in lt

Ahead(S, lt, x) == {y \in S : <<y, x>> \in lt}

LEMMA PlacesRise ==
  ASSUME NEW S, IsFiniteSet(S), NEW lt, StrictOrder(S, lt), NEW x \in S
  PROVE  /\ Cardinality(Ahead(S, lt, x)) \in Nat
         /\ Cardinality(Ahead(S, lt, x)) < Cardinality(S)
         /\ \A y \in S : <<x, y>> \in lt =>
              Cardinality(Ahead(S, lt, x)) < Cardinality(Ahead(S, lt, y))
<1> DEFINE A(y) == Ahead(S, lt, y)
<1>1. \A y \in S : A(y) \in SUBSET S /\ y \notin A(y)
  BY Zenon DEF Ahead, StrictOrder
<1>2. \A y \in S : <<x, y>> \in lt => A(x) \cup {x} \subseteq A(y)
  BY Zenon DEF Ahead, StrictOrder
<1> HIDE DEF A
<1>3. A(x) \in SUBSET S /\ IsFiniteSet(A(x)) /\ Cardinality(A(x)) \in Nat
  BY <1>1, FS_Subset, FS_CardinalityType
<1>4. /\ IsFiniteSet(A(x) \cup {x})
      /\ Cardinality(A(x) \cup {x}) = Cardinality(A(x)) + 1
  BY <1>1, <1>3, FS_AddElement
<1>5. ASSUME NEW T \in SUBSET S, A(x) \cup {x} \subseteq T
      PROVE  Cardinality(A(x)) < Cardinality(T)
  <2>1. IsFiniteSet(T) /\ Cardinality(T) \in Nat
    BY FS_Subset, FS_CardinalityType
  <2>2. Cardinality(A(x) \cup {x}) <= Cardinality(T)
    BY <1>5, <2>1, FS_Subset
  <2> QED BY <1>3, <1>4, <2>1, <2>2
<1>6. Cardinality(A(x)) < Cardinality(S)
  BY <1>3, <1>5
<1>7. \A y \in S : <<x, y>> \in lt => Cardinality(A(x)) < Cardinality(A(y))
  BY <1>1, <1>2, <1>5
<1> QED BY <1>3, <1>6, <1>7 DEF A

LEMMA PlacesDiffer ==
  ASSUME NEW S, IsFiniteSet(S), NEW lt, StrictOrder(S, lt), NEW x \in S, NEW y \in S,
         Cardinality(Ahead(S, lt, x)) = Cardinality(Ahead(S, lt, y))
  PROVE  x = y
<1>1. x = y \/ <<x, y>> \in lt \/ <<y, x>> \in lt
  BY DEF StrictOrder
<1>2. <<x, y>> \notin lt
  BY PlacesRise
<1>3. <<y, x>> \notin lt
  BY PlacesRise
<1> QED BY <1>1, <1>2, <1>3

LEMMA PlaceReached ==
  ASSUME NEW S, IsFiniteSet(S), NEW lt, StrictOrder(S, lt), NEW i \in 1 .. Cardinality(S)
  PROVE  \E x \in S : Cardinality(Ahead(S, lt, x)) = i - 1
<1> DEFINE n == Cardinality(S)
           T == 1 .. n
           f == [x \in S |-> Cardinality(Ahead(S, lt, x)) + 1]
<1>1. n \in Nat
  BY FS_CardinalityType
<1> HIDE DEF n
<1>2. IsFiniteSet(T) /\ Cardinality(T) = n
  BY <1>1, FS_Interval
<1>3. \A x \in S : Cardinality(Ahead(S, lt, x)) \in Nat /\ Cardinality(Ahead(S, lt, x)) + 1 \in T
  BY <1>1, PlacesRise DEF n
<1>4. \A x, y \in S : f[x] = f[y] => x = y
  BY <1>3, PlacesDiffer
<1>5. f \in Injection(S, T)
  BY <1>3, <1>4 DEF Injection, IsInjective
<1> HIDE DEF T
<1>6. f \in Surjection(S, T)
  <2> HIDE DEF f
  <2> QED BY <1>2, <1>5, FS_Injection DEF n
<1>7. i \in T
  BY DEF T, n
<1>8. PICK x \in S : Cardinality(Ahead(S, lt, x)) + 1 = i
  BY <1>6, <1>7 DEF Surjection
<1> QED BY <1>3, <1>8
=============================================================================
