----------------------------- MODULE UserProofs -----------------------------
(***************************************************************************)
(* What the components of MCUsers keep, each while it is the one that      *)
(* moves: the questions and answers of a game; the login streak; what is   *)
(* read of games piece by piece; and the games served one at a time and    *)
(* those that race, from what GameSessionProofs proves. The facts about    *)
(* numbers and sequences that they rest on come first.                     *)
(***************************************************************************)
EXTENDS MCUsers, SetTheorems, SequenceTheorems, FiniteSetTheorems, TLAPS

----------------------------------------------------------------------------
(* The k-th of a finite set of numbers, and sets put one behind the other.  *)

Below(S, i) == {j \in S : j < i}
Nth(S, k) == CHOOSE i \in S : Cardinality(Below(S, i)) = k - 1
Shift(S, n) == {n + j : j \in S}

Rising == {p \in Int \X Int : p[1] < p[2]}

LEMMA NumbersOrdered ==
  ASSUME NEW S, S \subseteq Int
  PROVE  StrictOrder(S, Rising) /\ \A i \in S : Ahead(S, Rising, i) = Below(S, i)
<1>1. \A i, j \in S : i \in Int /\ j \in Int
  OBVIOUS
<1>2. \A i, j \in Int : <<i, j>> \in Rising <=> i < j
  BY DEF Rising
<1>3. \A x \in S : <<x, x>> \notin Rising
  BY <1>1, <1>2
<1>4. \A x, y, z \in S : <<x, y>> \in Rising /\ <<y, z>> \in Rising => <<x, z>> \in Rising
  BY <1>1, <1>2
<1>5. ASSUME NEW x \in S, NEW y \in S PROVE x = y \/ <<x, y>> \in Rising \/ <<y, x>> \in Rising
  <2>1. x \in Int /\ y \in Int
    BY <1>1
  <2>2. x = y \/ x < y \/ y < x
    BY <2>1
  <2> QED BY <1>2, <2>1, <2>2
<1>6. \A i \in S : Ahead(S, Rising, i) = Below(S, i)
  BY <1>1, <1>2, Zenon DEF Ahead, Below
<1> QED BY <1>3, <1>4, <1>5, <1>6 DEF StrictOrder

LEMMA BelowRises ==
  ASSUME NEW S, IsFiniteSet(S), S \subseteq Int, NEW i \in S
  PROVE  /\ Cardinality(Below(S, i)) \in Nat
         /\ Cardinality(Below(S, i)) < Cardinality(S)
         /\ \A j \in S : i < j => Cardinality(Below(S, i)) < Cardinality(Below(S, j))
<1>1. StrictOrder(S, Rising) /\ \A j \in S : Ahead(S, Rising, j) = Below(S, j)
  BY NumbersOrdered
<1>2. \A j \in S : i < j => <<i, j>> \in Rising
  <2>1. \A j \in S : i \in Int /\ j \in Int
    OBVIOUS
  <2> QED BY <2>1 DEF Rising
<1>3. /\ Cardinality(Ahead(S, Rising, i)) \in Nat
      /\ Cardinality(Ahead(S, Rising, i)) < Cardinality(S)
      /\ \A j \in S : <<i, j>> \in Rising =>
           Cardinality(Ahead(S, Rising, i)) < Cardinality(Ahead(S, Rising, j))
  BY <1>1, PlacesRise
<1> QED BY <1>1, <1>2, <1>3, Zenon

LEMMA NthThere ==
  ASSUME NEW S, IsFiniteSet(S), S \subseteq Int, NEW k \in 1 .. Cardinality(S)
  PROVE  Nth(S, k) \in S /\ Cardinality(Below(S, Nth(S, k))) = k - 1
<1>1. StrictOrder(S, Rising) /\ \A i \in S : Ahead(S, Rising, i) = Below(S, i)
  BY NumbersOrdered
<1>2. \E i \in S : Cardinality(Ahead(S, Rising, i)) = k - 1
  BY <1>1, PlaceReached
<1>3. \E i \in S : Cardinality(Below(S, i)) = k - 1
  BY <1>1, <1>2
<1> QED BY <1>3, Zenon DEF Nth

LEMMA NthIs ==
  ASSUME NEW S, IsFiniteSet(S), S \subseteq Int, NEW i \in S, NEW k,
         Cardinality(Below(S, i)) = k - 1
  PROVE  Nth(S, k) = i
<1>1. StrictOrder(S, Rising) /\ \A j \in S : Ahead(S, Rising, j) = Below(S, j)
  BY NumbersOrdered
<1>2. Nth(S, k) \in S /\ Cardinality(Below(S, Nth(S, k))) = k - 1
  BY Zenon DEF Nth
<1> HIDE DEF Nth
<1>3. Cardinality(Ahead(S, Rising, i)) = Cardinality(Ahead(S, Rising, Nth(S, k)))
  BY <1>1, <1>2
<1> QED BY <1>1, <1>2, <1>3, PlacesDiffer

LEMMA ShiftSize ==
  ASSUME NEW S, IsFiniteSet(S), S \subseteq Int, NEW n \in Int
  PROVE  IsFiniteSet(Shift(S, n)) /\ Cardinality(Shift(S, n)) = Cardinality(S)
<1> DEFINE f == [j \in S |-> n + j]
<1>1. f \in Bijection(S, Shift(S, n))
  <2>1. f \in [S -> Shift(S, n)]
    BY DEF Shift
  <2>2. \A a, b \in S : f[a] = f[b] => a = b
    <3>1. \A a \in S : a \in Int /\ f[a] = n + a
      OBVIOUS
    <3> HIDE DEF f
    <3> QED BY <3>1
  <2>3. \A t \in Shift(S, n) : \E s \in S : f[s] = t
    BY DEF Shift
  <2> QED BY <2>1, <2>2, <2>3, Zenon DEF Bijection, Injection, Surjection, IsInjective
<1> HIDE DEF f
<1>2. ExistsBijection(S, Shift(S, n))
  BY <1>1 DEF ExistsBijection
<1> QED BY <1>2, FS_Bijection

LEMMA BehindSize ==
  ASSUME NEW n \in Nat, NEW A \in SUBSET (1 .. n), IsFiniteSet(A),
         NEW B \in SUBSET (Nat \ {0}), IsFiniteSet(B)
  PROVE  /\ IsFiniteSet(A \cup Shift(B, n))
         /\ Cardinality(A \cup Shift(B, n)) = Cardinality(A) + Cardinality(B)
<1>1. IsFiniteSet(Shift(B, n)) /\ Cardinality(Shift(B, n)) = Cardinality(B)
  <2>1. B \subseteq Int /\ n \in Int
    OBVIOUS
  <2> QED BY <2>1, ShiftSize, Zenon
<1>2. A \cap Shift(B, n) = {}
  BY DEF Shift
<1>3. Cardinality(A) \in Nat /\ Cardinality(B) \in Nat
  BY FS_CardinalityType
<1> QED BY <1>1, <1>2, <1>3, FS_Union, FS_EmptySet

LEMMA BehindBelow ==
  ASSUME NEW n \in Nat, NEW A \in SUBSET (1 .. n), NEW B \in SUBSET (Nat \ {0})
  PROVE  /\ \A i \in A : Below(A \cup Shift(B, n), i) = Below(A, i)
         /\ \A j \in B : Below(A \cup Shift(B, n), n + j) = A \cup Shift(Below(B, j), n)
<1>1. ASSUME NEW i \in A PROVE Below(A \cup Shift(B, n), i) = Below(A, i)
  <2>1. i \in 1 .. n /\ \A j \in Shift(B, n) : ~(j < i)
    BY DEF Shift
  <2> QED BY <2>1 DEF Below
<1>2. ASSUME NEW j \in B PROVE Below(A \cup Shift(B, n), n + j) = A \cup Shift(Below(B, j), n)
  <2>1. \A i \in A : i < n + j
    OBVIOUS
  <2>2. \A b \in B : n + b < n + j <=> b < j
    OBVIOUS
  <2>3. ASSUME NEW x \in Below(A \cup Shift(B, n), n + j) PROVE x \in A \cup Shift(Below(B, j), n)
    <3>1. CASE x \in A
      BY <3>1
    <3>2. CASE x \notin A
      <4>1. PICK b \in B : x = n + b
        BY <3>2 DEF Below, Shift
      <4>2. b \in Below(B, j)
        BY <2>2, <4>1 DEF Below
      <4> QED BY <4>1, <4>2 DEF Shift
    <3> QED BY <3>1, <3>2
  <2>4. ASSUME NEW x \in A \cup Shift(Below(B, j), n) PROVE x \in Below(A \cup Shift(B, n), n + j)
    <3>1. CASE x \in A
      BY <2>1, <3>1 DEF Below
    <3>2. CASE x \notin A
      <4>1. PICK b \in Below(B, j) : x = n + b
        BY <3>2 DEF Shift
      <4>2. b \in B /\ n + b < n + j
        BY <2>2, <4>1 DEF Below
      <4>3. x \in Shift(B, n) /\ x < n + j
        BY <4>1, <4>2 DEF Shift
      <4> QED BY <4>3 DEF Below
    <3> QED BY <3>1, <3>2
  <2> QED BY <2>3, <2>4
<1> QED BY <1>1, <1>2

(* The k-th of two sets of which one lies behind the other.                 *)
LEMMA NthBehind ==
  ASSUME NEW n \in Nat, NEW A \in SUBSET (1 .. n), IsFiniteSet(A),
         NEW B \in SUBSET (Nat \ {0}), IsFiniteSet(B)
  PROVE  /\ \A k \in 1 .. Cardinality(A) : Nth(A \cup Shift(B, n), k) = Nth(A, k)
         /\ \A k \in 1 .. Cardinality(B) :
              Nth(A \cup Shift(B, n), Cardinality(A) + k) = n + Nth(B, k)
<1> DEFINE C == A \cup Shift(B, n)
<1>1. A \subseteq Int /\ B \subseteq Int /\ Shift(B, n) \subseteq Int
  BY DEF Shift
<1>2. IsFiniteSet(C)
  BY BehindSize
<1>3. C \subseteq Int
  BY <1>1
<1>4. \A i \in A : Below(C, i) = Below(A, i)
  BY BehindBelow, Zenon
<1>5. \A j \in B : Below(C, n + j) = A \cup Shift(Below(B, j), n)
  BY BehindBelow, Zenon
<1>6. \A j \in B : n + j \in C
  BY DEF Shift
<1>7. A \subseteq C
  OBVIOUS
<1> HIDE DEF C
<1>8. ASSUME NEW k \in 1 .. Cardinality(A) PROVE Nth(C, k) = Nth(A, k)
  <2>1. Nth(A, k) \in A /\ Cardinality(Below(A, Nth(A, k))) = k - 1
    BY <1>1, NthThere
  <2> QED BY <1>2, <1>3, <1>4, <1>7, <2>1, NthIs
<1>9. ASSUME NEW k \in 1 .. Cardinality(B) PROVE Nth(C, Cardinality(A) + k) = n + Nth(B, k)
  <2> DEFINE b == Nth(B, k)
  <2>1. b \in B /\ Cardinality(Below(B, b)) = k - 1
    BY <1>1, NthThere
  <2> HIDE DEF b
  <2>2. IsFiniteSet(Below(B, b)) /\ Below(B, b) \in SUBSET (Nat \ {0})
    <3>1. Below(B, b) \subseteq B
      BY DEF Below
    <3> QED BY <3>1, FS_Subset
  <2>3. Cardinality(A \cup Shift(Below(B, b), n)) = Cardinality(A) + Cardinality(Below(B, b))
    BY <2>2, BehindSize
  <2>4. Cardinality(A) \in Nat /\ k \in Int
    BY FS_CardinalityType
  <2>5. Cardinality(Below(C, n + b)) = (Cardinality(A) + k) - 1
    <3>1. Below(C, n + b) = A \cup Shift(Below(B, b), n)
      BY <1>5, <2>1
    <3>2. Cardinality(Below(C, n + b)) = Cardinality(A) + (k - 1)
      BY <2>1, <2>3, <3>1
    <3> QED BY <2>4, <3>2
  <2>6. n + b \in C
    BY <1>6, <2>1
  <2> QED BY <1>2, <1>3, <2>5, <2>6, NthIs DEF b
<1> QED BY <1>8, <1>9 DEF C

----------------------------------------------------------------------------
(* Numbers dealt round a circle of L places.                                *)

LEMMA Divided ==
  ASSUME NEW L \in Nat \ {0}, NEW x \in Nat
  PROVE  \E q \in Nat, r \in 0 .. L - 1 : x = L * q + r
<1> DEFINE P == {n \in Nat : \E q \in Nat, r \in 0 .. L - 1 : n = L * q + r}
<1>1. 0 \in P
  <2>1. 0 = L * 0 + 0 /\ 0 \in 0 .. L - 1 /\ 0 \in Nat
    OBVIOUS
  <2> QED BY <2>1
<1>2. ASSUME NEW n \in Nat, n \in P PROVE n + 1 \in P
  <2>1. PICK q \in Nat, r \in 0 .. L - 1 : n = L * q + r
    BY <1>2
  <2>2. CASE r + 1 <= L - 1
    <3>1. L * q \in Int
      OBVIOUS
    <3>2. n + 1 = L * q + (r + 1) /\ r + 1 \in 0 .. L - 1
      BY <2>1, <2>2, <3>1
    <3> QED BY <3>2
  <2>3. CASE ~(r + 1 <= L - 1)
    <3>1. r = L - 1
      BY <2>3
    <3>2. L * (q + 1) = L * q + L /\ L * q \in Int
      OBVIOUS
    <3>3. n + 1 = L * (q + 1) + 0 /\ q + 1 \in Nat /\ 0 \in 0 .. L - 1
      BY <2>1, <3>1, <3>2
    <3> DEFINE p == q + 1
               m == n + 1
    <3>4. m = L * p + 0 /\ p \in Nat /\ m \in Nat /\ 0 \in 0 .. L - 1
      BY <3>3
    <3> HIDE DEF p, m
    <3>5. m \in P
      BY <3>4
    <3> QED BY <3>5 DEF m
  <2> QED BY <2>2, <2>3
<1>3. Nat \subseteq P
  <2> HIDE DEF P
  <2> QED BY <1>1, <1>2, SetInduction
<1> QED BY <1>3

LEMMA Remainder ==
  ASSUME NEW L \in Nat \ {0}, NEW q \in Nat, NEW r \in 0 .. L - 1, NEW x \in Nat, x = L * q + r
  PROVE  x % L = r
OBVIOUS

LEMMA NextRemainder ==
  ASSUME NEW L \in Nat \ {0}, NEW x \in Nat
  PROVE  /\ x % L \in 0 .. L - 1
         /\ (x + 1) % L = IF (x % L) + 1 = L THEN 0 ELSE (x % L) + 1
<1>1. PICK q \in Nat, r \in 0 .. L - 1 : x = L * q + r
  BY Divided
<1>2. x % L = r
  BY <1>1, Remainder
<1>3. CASE r + 1 = L
  <2>1. L * (q + 1) = L * q + L /\ L * q \in Int
    OBVIOUS
  <2>2. x + 1 = L * (q + 1) + 0 /\ q + 1 \in Nat /\ 0 \in 0 .. L - 1 /\ x + 1 \in Nat
    BY <1>1, <1>3, <2>1
  <2> DEFINE y == x + 1
             p == q + 1
  <2>4. y \in Nat /\ p \in Nat /\ y = L * p + 0 /\ 0 \in 0 .. L - 1
    BY <2>2
  <2> HIDE DEF y, p
  <2>5. y % L = 0
    BY <2>4, Remainder
  <2>3. (x + 1) % L = 0
    BY <2>5 DEF y
  <2> QED BY <1>2, <1>3, <2>3
<1>4. CASE r + 1 # L
  <2>1. L * q \in Int
    OBVIOUS
  <2>2. x + 1 = L * q + (r + 1) /\ r + 1 \in 0 .. L - 1 /\ x + 1 \in Nat
    BY <1>1, <1>4, <2>1
  <2> DEFINE y == x + 1
             s == r + 1
  <2>4. y \in Nat /\ s \in 0 .. L - 1 /\ y = L * q + s
    BY <2>2
  <2> HIDE DEF y, s
  <2>5. y % L = s
    BY <2>4, Remainder
  <2>3. (x + 1) % L = r + 1
    BY <2>5 DEF y, s
  <2> QED BY <1>2, <1>4, <2>3
<1> QED BY <1>3, <1>4

Round(n, L, r) == {q \in 1 .. n : (q - 1) % L = r}
Extra(n, L, r) == IF r < n % L THEN 1 ELSE 0

LEMMA RoundGrows ==
  ASSUME NEW L \in Nat \ {0}, NEW n \in Nat, NEW r \in 0 .. L - 1, IsFiniteSet(Round(n, L, r)),
         Cardinality(Round(n, L, r)) \in Int
  PROVE  /\ IsFiniteSet(Round(n + 1, L, r)) /\ Cardinality(Round(n + 1, L, r)) \in Int
         /\ Cardinality(Round(n + 1, L, r)) =
              Cardinality(Round(n, L, r)) + (IF n % L = r THEN 1 ELSE 0)
<1> DEFINE A == Round(n, L, r)
<1>1. \A q : q \in 1 .. (n + 1) <=> q \in 1 .. n \/ q = n + 1
  OBVIOUS
<1>2. (n + 1) - 1 = n /\ n + 1 \notin 1 .. n
  OBVIOUS
<1>3. CASE n % L = r
  <2>1. Round(n + 1, L, r) = A \cup {n + 1}
    BY <1>1, <1>2, <1>3 DEF Round
  <2>2. n + 1 \notin A
    BY <1>2 DEF Round
  <2> HIDE DEF A
  <2>3. IsFiniteSet(A \cup {n + 1}) /\ Cardinality(A \cup {n + 1}) = Cardinality(A) + 1
    BY <2>2, FS_AddElement DEF A
  <2> QED BY <1>3, <2>1, <2>3 DEF A
<1>4. CASE n % L # r
  <2>1. Round(n + 1, L, r) = A
    BY <1>1, <1>2, <1>4 DEF Round
  <2> QED BY <1>4, <2>1
<1> QED BY <1>3, <1>4

LEMMA RoundsEven ==
  ASSUME NEW L \in Nat \ {0}, NEW n \in Nat, NEW r \in 0 .. L - 1, NEW s \in 0 .. L - 1
  PROVE  Cardinality(Round(n, L, r)) - Cardinality(Round(n, L, s)) \in -1 .. 1
<1> DEFINE C(m, x) == Cardinality(Round(m, L, x))
           Even(m) == /\ IsFiniteSet(Round(m, L, r)) /\ IsFiniteSet(Round(m, L, s))
                      /\ C(m, r) \in Int /\ C(m, s) \in Int
                      /\ C(m, r) - Extra(m, L, r) = C(m, s) - Extra(m, L, s)
           P == {m \in Nat : Even(m)}
<1>1. 0 \in P
  <2>1. Round(0, L, r) = {} /\ Round(0, L, s) = {}
    BY DEF Round
  <2>2. 0 % L = 0
    <3>1. 0 = L * 0 + 0 /\ 0 \in Nat /\ 0 \in 0 .. L - 1
      OBVIOUS
    <3> QED BY <3>1, Remainder
  <2>3. Extra(0, L, r) = 0 /\ Extra(0, L, s) = 0
    BY <2>2 DEF Extra
  <2>4. IsFiniteSet({}) /\ Cardinality({}) = 0
    BY FS_EmptySet
  <2>5. C(0, r) = 0 /\ C(0, s) = 0
    BY <2>1, <2>4
  <2> HIDE DEF C
  <2> QED BY <2>1, <2>3, <2>4, <2>5
<1>2. ASSUME NEW m \in Nat, m \in P PROVE m + 1 \in P
  <2> DEFINE b == m % L
             c == (m + 1) % L
  <2>1. b \in 0 .. L - 1 /\ c = IF b + 1 = L THEN 0 ELSE b + 1
    BY NextRemainder
  <2>2. Even(m)
    BY <1>2
  <2>3. /\ IsFiniteSet(Round(m + 1, L, r)) /\ IsFiniteSet(Round(m + 1, L, s))
        /\ C(m + 1, r) \in Int /\ C(m + 1, s) \in Int
        /\ C(m + 1, r) = C(m, r) + (IF b = r THEN 1 ELSE 0)
        /\ C(m + 1, s) = C(m, s) + (IF b = s THEN 1 ELSE 0)
    BY <2>2, RoundGrows
  <2>4. /\ Extra(m, L, r) = IF r < b THEN 1 ELSE 0
        /\ Extra(m, L, s) = IF s < b THEN 1 ELSE 0
        /\ Extra(m + 1, L, r) = IF r < c THEN 1 ELSE 0
        /\ Extra(m + 1, L, s) = IF s < c THEN 1 ELSE 0
    BY DEF Extra
  <2> HIDE DEF b, c, C
  <2>5. C(m + 1, r) - Extra(m + 1, L, r) = C(m + 1, s) - Extra(m + 1, L, s)
    BY <2>1, <2>2, <2>3, <2>4
  <2> QED BY <2>3, <2>5 DEF C
<1>3. n \in P
  <2> HIDE DEF P
  <2> QED BY <1>1, <1>2, SetInduction
<1>4. Extra(n, L, r) \in {0, 1} /\ Extra(n, L, s) \in {0, 1}
  BY DEF Extra
<1>5. C(n, r) \in Int /\ C(n, s) \in Int /\ C(n, r) - Extra(n, L, r) = C(n, s) - Extra(n, L, s)
  BY <1>3
<1> HIDE DEF C
<1>6. C(n, r) - C(n, s) \in -1 .. 1
  BY <1>4, <1>5
<1> QED BY <1>6 DEF C

----------------------------------------------------------------------------
(* A sequence without its i-th element, and with e before it.               *)

Cut(s, i) == SubSeq(s, 1, i - 1) \o SubSeq(s, i + 1, Len(s))
Put(s, i, e) == SubSeq(s, 1, i - 1) \o <<e>> \o SubSeq(s, i, Len(s))

LEMMA Section ==
  ASSUME NEW S, NEW s \in Seq(S), NEW a \in 1 .. Len(s) + 1, NEW b \in a - 1 .. Len(s)
  PROVE  /\ SubSeq(s, a, b) \in Seq(S) /\ Len(SubSeq(s, a, b)) = b - a + 1
         /\ \A i \in 1 .. b - a + 1 : SubSeq(s, a, b)[i] = s[a + i - 1]
<1> DEFINE n == Len(s)
<1>1. n \in Nat /\ a \in Int /\ b \in Int /\ a \in 1 .. n + 1 /\ b \in a - 1 .. n
  OBVIOUS
<1>2. \A i \in 1 .. n : s[i] \in S
  BY ElementOfSeq
<1> HIDE DEF n
<1>3. \A i \in a .. b : s[i] \in S
  BY <1>1, <1>2
<1>4. /\ SubSeq(s, a, b) \in Seq(S) /\ Len(SubSeq(s, a, b)) = IF a <= b THEN b - a + 1 ELSE 0
      /\ \A i \in 1 .. b - a + 1 : SubSeq(s, a, b)[i] = s[a + i - 1]
  BY <1>1, <1>3, SubSeqProperties
<1>5. (IF a <= b THEN b - a + 1 ELSE 0) = b - a + 1
  BY <1>1
<1> QED BY <1>4, <1>5

LEMMA CutIs ==
  ASSUME NEW S, NEW s \in Seq(S), NEW i \in 1 .. Len(s)
  PROVE  /\ Cut(s, i) \in Seq(S) /\ Len(Cut(s, i)) = Len(s) - 1
         /\ \A j \in 1 .. Len(s) - 1 : Cut(s, i)[j] = IF j < i THEN s[j] ELSE s[j + 1]
<1> DEFINE n == Len(s)
           x == SubSeq(s, 1, i - 1)
           y == SubSeq(s, i + 1, n)
<1>1. n \in Nat /\ i \in 1 .. n
  OBVIOUS
<1>2. /\ x \in Seq(S) /\ Len(x) = i - 1
      /\ \A j \in 1 .. i - 1 : x[j] = s[j]
  <2>1. 1 \in 1 .. Len(s) + 1 /\ i - 1 \in 1 - 1 .. Len(s)
    BY <1>1
  <2>2. /\ x \in Seq(S) /\ Len(x) = (i - 1) - 1 + 1
        /\ \A j \in 1 .. (i - 1) - 1 + 1 : x[j] = s[1 + j - 1]
    BY <2>1, Section
  <2>3. (i - 1) - 1 + 1 = i - 1 /\ \A j \in 1 .. i - 1 : 1 + j - 1 = j
    BY <1>1
  <2> HIDE DEF x
  <2> QED BY <2>2, <2>3
<1>3. /\ y \in Seq(S) /\ Len(y) = n - i
      /\ \A j \in 1 .. n - i : y[j] = s[i + j]
  <2>1. i + 1 \in 1 .. Len(s) + 1 /\ n \in (i + 1) - 1 .. Len(s)
    BY <1>1
  <2>2. /\ y \in Seq(S) /\ Len(y) = n - (i + 1) + 1
        /\ \A j \in 1 .. n - (i + 1) + 1 : y[j] = s[(i + 1) + j - 1]
    BY <2>1, Section
  <2>3. n - (i + 1) + 1 = n - i /\ \A j \in 1 .. n - i : (i + 1) + j - 1 = i + j
    BY <1>1
  <2> HIDE DEF y
  <2> QED BY <2>2, <2>3
<1> HIDE DEF n, x, y
<1>4. /\ x \o y \in Seq(S) /\ Len(x \o y) = Len(x) + Len(y)
      /\ \A j \in 1 .. Len(x) + Len(y) : (x \o y)[j] = IF j <= Len(x) THEN x[j] ELSE y[j - Len(x)]
  BY <1>2, <1>3, ConcatProperties
<1>5. Len(x) + Len(y) = n - 1
  BY <1>1, <1>2, <1>3
<1>6. ASSUME NEW j \in 1 .. n - 1 PROVE (x \o y)[j] = IF j < i THEN s[j] ELSE s[j + 1]
  <2>1. CASE j < i
    <3>1. j <= Len(x) /\ j \in 1 .. i - 1
      BY <1>1, <1>2, <2>1
    <3> QED BY <1>2, <1>4, <1>5, <2>1, <3>1
  <2>2. CASE ~(j < i)
    <3>1. ~(j <= Len(x)) /\ j - Len(x) \in 1 .. n - i /\ i + (j - Len(x)) = j + 1
      BY <1>1, <1>2, <2>2
    <3>2. (x \o y)[j] = y[j - Len(x)]
      BY <1>4, <1>5, <3>1
    <3>3. y[j - Len(x)] = s[j + 1]
      BY <1>3, <3>1
    <3> QED BY <2>2, <3>2, <3>3
  <2> QED BY <2>1, <2>2
<1> QED BY <1>4, <1>5, <1>6 DEF Cut, x, y, n

LEMMA PutIs ==
  ASSUME NEW S, NEW s \in Seq(S), NEW i \in 1 .. Len(s) + 1, NEW e \in S
  PROVE  /\ Put(s, i, e) \in Seq(S) /\ Len(Put(s, i, e)) = Len(s) + 1
         /\ \A j \in 1 .. Len(s) + 1 :
              Put(s, i, e)[j] = IF j < i THEN s[j] ELSE IF j = i THEN e ELSE s[j - 1]
<1> DEFINE n == Len(s)
           x == SubSeq(s, 1, i - 1)
           y == SubSeq(s, i, n)
           one == <<e>>
           z == x \o one
<1>1. n \in Nat /\ i \in 1 .. n + 1
  OBVIOUS
<1>2. /\ x \in Seq(S) /\ Len(x) = i - 1
      /\ \A j \in 1 .. i - 1 : x[j] = s[j]
  <2>1. 1 \in 1 .. Len(s) + 1 /\ i - 1 \in 1 - 1 .. Len(s)
    BY <1>1
  <2>2. /\ x \in Seq(S) /\ Len(x) = (i - 1) - 1 + 1
        /\ \A j \in 1 .. (i - 1) - 1 + 1 : x[j] = s[1 + j - 1]
    BY <2>1, Section
  <2>3. (i - 1) - 1 + 1 = i - 1 /\ \A j \in 1 .. i - 1 : 1 + j - 1 = j
    BY <1>1
  <2> HIDE DEF x
  <2> QED BY <2>2, <2>3
<1>3. /\ y \in Seq(S) /\ Len(y) = n - i + 1
      /\ \A j \in 1 .. n - i + 1 : y[j] = s[i + j - 1]
  <2>1. i \in 1 .. Len(s) + 1 /\ n \in i - 1 .. Len(s)
    BY <1>1
  <2> QED BY <2>1, Section
<1>4. one \in Seq(S) /\ Len(one) = 1 /\ one[1] = e
  OBVIOUS
<1> HIDE DEF n, x, y, one
<1>5. /\ z \in Seq(S) /\ Len(z) = i
      /\ \A j \in 1 .. i : z[j] = IF j < i THEN s[j] ELSE e
  <2>1. /\ z \in Seq(S) /\ Len(z) = Len(x) + Len(one)
        /\ \A j \in 1 .. Len(x) + Len(one) : z[j] = IF j <= Len(x) THEN x[j] ELSE one[j - Len(x)]
    BY <1>2, <1>4, ConcatProperties
  <2>2. Len(x) + Len(one) = i
    BY <1>1, <1>2, <1>4
  <2>3. ASSUME NEW j \in 1 .. i PROVE z[j] = IF j < i THEN s[j] ELSE e
    <3>1. CASE j < i
      <4>1. j <= Len(x) /\ j \in 1 .. i - 1
        BY <1>1, <1>2, <3>1
      <4> QED BY <1>2, <2>1, <2>2, <3>1, <4>1
    <3>2. CASE ~(j < i)
      <4>1. ~(j <= Len(x)) /\ j - Len(x) = 1
        BY <1>1, <1>2, <3>2
      <4> QED BY <1>4, <2>1, <2>2, <3>2, <4>1
    <3> QED BY <3>1, <3>2
  <2> QED BY <2>1, <2>2, <2>3
<1> HIDE DEF z
<1>6. /\ z \o y \in Seq(S) /\ Len(z \o y) = Len(z) + Len(y)
      /\ \A j \in 1 .. Len(z) + Len(y) : (z \o y)[j] = IF j <= Len(z) THEN z[j] ELSE y[j - Len(z)]
  BY <1>3, <1>5, ConcatProperties
<1>7. Len(z) + Len(y) = n + 1
  BY <1>1, <1>3, <1>5
<1>8. ASSUME NEW j \in 1 .. n + 1
      PROVE  (z \o y)[j] = IF j < i THEN s[j] ELSE IF j = i THEN e ELSE s[j - 1]
  <2>1. CASE j <= i
    <3>1. j \in 1 .. i /\ j <= Len(z)
      BY <1>1, <1>5, <2>1
    <3>2. j < i \/ j = i
      BY <1>1, <2>1
    <3>3. (z \o y)[j] = z[j]
      BY <1>6, <1>7, <3>1
    <3>4. ~(i < i)
      BY <1>1
    <3> QED BY <1>5, <3>1, <3>2, <3>3, <3>4
  <2>2. CASE ~(j <= i)
    <3>1. ~(j <= Len(z)) /\ j - Len(z) \in 1 .. n - i + 1 /\ i + (j - Len(z)) - 1 = j - 1
          /\ ~(j < i) /\ j # i
      BY <1>1, <1>5, <2>2
    <3>2. (z \o y)[j] = y[j - Len(z)]
      BY <1>6, <1>7, <3>1
    <3>3. y[j - Len(z)] = s[j - 1]
      BY <1>3, <3>1
    <3> QED BY <3>1, <3>2, <3>3
  <2> QED BY <2>1, <2>2
<1> QED BY <1>6, <1>7, <1>8 DEF Put, x, y, n, z, one

----------------------------------------------------------------------------
(* Sequences of different elements.                                         *)

Values(s) == {s[i] : i \in DOMAIN s}
Distinct(s) == \A i, j \in DOMAIN s : s[i] = s[j] => i = j

LEMMA DistinctSize ==
  ASSUME NEW S, NEW s \in Seq(S), Distinct(s)
  PROVE  IsFiniteSet(Values(s)) /\ Cardinality(Values(s)) = Len(s)
<1> DEFINE n == Len(s)
<1>1. n \in Nat /\ DOMAIN s = 1 .. n /\ s \in [1 .. n -> S]
  OBVIOUS
<1>2. s \in Bijection(1 .. n, Values(s))
  BY <1>1 DEF Distinct, Values, Bijection, Injection, Surjection, IsInjective
<1>3. IsFiniteSet(1 .. n) /\ Cardinality(1 .. n) = n
  <2> HIDE DEF n
  <2>1. 1 \in Int /\ n \in Int
    BY <1>1
  <2>2. IsFiniteSet(1 .. n) /\ Cardinality(1 .. n) = IF 1 > n THEN 0 ELSE n - 1 + 1
    BY <2>1, FS_Interval
  <2> QED BY <1>1, <2>2
<1> HIDE DEF n
<1>4. ExistsBijection(1 .. n, Values(s))
  BY <1>2 DEF ExistsBijection
<1>5. IsFiniteSet(Values(s)) /\ Cardinality(Values(s)) = Cardinality(1 .. n)
  BY <1>3, <1>4, FS_Bijection
<1> QED BY <1>3, <1>5 DEF n

PutRight(S, s, i, e) ==
  /\ Put(s, i, e) \in Seq(S) /\ Len(Put(s, i, e)) = Len(s) + 1
  /\ \A j \in 1 .. Len(s) + 1 :
       Put(s, i, e)[j] = IF j < i THEN s[j] ELSE IF j = i THEN e ELSE s[j - 1]

LEMMA PutIsRight ==
  ASSUME NEW S, NEW s \in Seq(S), NEW i \in 1 .. Len(s) + 1, NEW e \in S
  PROVE  PutRight(S, s, i, e)
BY PutIs DEF PutRight

LEMMA CutDistinct ==
  ASSUME NEW S, NEW s \in Seq(S), Distinct(s), NEW i \in 1 .. Len(s)
  PROVE  Distinct(Cut(s, i)) /\ Values(Cut(s, i)) = Values(s) \ {s[i]}
<1> DEFINE n == Len(s)
           t == Cut(s, i)
<1>1. n \in Nat /\ i \in 1 .. n /\ DOMAIN s = 1 .. n
  OBVIOUS
<1>2. /\ t \in Seq(S) /\ Len(t) = n - 1
      /\ \A j \in 1 .. n - 1 : t[j] = IF j < i THEN s[j] ELSE s[j + 1]
  BY CutIs
<1>3. DOMAIN t = 1 .. n - 1
  BY <1>2
<1>4. \A j, k \in 1 .. n : s[j] = s[k] => j = k
  BY <1>1 DEF Distinct
<1> HIDE DEF n, t
<1> DEFINE From(j) == IF j < i THEN j ELSE j + 1
<1>5. \A j \in 1 .. n - 1 : From(j) \in 1 .. n /\ From(j) # i /\ t[j] = s[From(j)]
  BY <1>1, <1>2
<1>6. \A j, k \in 1 .. n - 1 : From(j) = From(k) => j = k
  BY <1>1
<1>7. \A k \in 1 .. n : k # i => \E j \in 1 .. n - 1 : From(j) = k
  <2> SUFFICES ASSUME NEW k \in 1 .. n, k # i PROVE \E j \in 1 .. n - 1 : From(j) = k
    OBVIOUS
  <2>1. CASE k < i
    <3>1. k \in 1 .. n - 1 /\ From(k) = k
      BY <1>1, <2>1
    <3> QED BY <3>1
  <2>2. CASE ~(k < i)
    <3>1. k - 1 \in 1 .. n - 1 /\ From(k - 1) = k
      BY <1>1, <2>2
    <3> HIDE DEF From
    <3> QED BY <3>1
  <2> QED BY <2>1, <2>2
<1> HIDE DEF From
<1>8. Distinct(t)
  BY <1>3, <1>4, <1>5, <1>6 DEF Distinct
<1>9. \A v \in Values(t) : v \in Values(s) \ {s[i]}
  BY <1>1, <1>3, <1>4, <1>5 DEF Values
<1>10. ASSUME NEW v \in Values(s) \ {s[i]} PROVE v \in Values(t)
  <2>1. PICK k \in 1 .. n : v = s[k]
    BY <1>1 DEF Values
  <2>2. k # i
    BY <2>1
  <2>3. PICK j \in 1 .. n - 1 : From(j) = k
    BY <1>7, <2>2
  <2>4. t[j] = v
    BY <1>5, <2>1, <2>3
  <2> QED BY <1>3, <2>4 DEF Values
<1> QED BY <1>8, <1>9, <1>10 DEF t

LEMMA AppendDistinct ==
  ASSUME NEW S, NEW s \in Seq(S), NEW e \in S
  PROVE  /\ Values(Append(s, e)) = Values(s) \cup {e}
         /\ Distinct(s) /\ e \notin Values(s) => Distinct(Append(s, e))
<1> DEFINE n == Len(s)
           t == Append(s, e)
<1>1. n \in Nat /\ DOMAIN s = 1 .. n /\ DOMAIN t = 1 .. (n + 1) /\ t[n + 1] = e
  OBVIOUS
<1>2. \A i \in 1 .. n : t[i] = s[i]
  OBVIOUS
<1>3. \A i : i \in 1 .. (n + 1) <=> i \in 1 .. n \/ i = n + 1
  BY <1>1
<1> HIDE DEF n, t
<1>4. \A v : v \in Values(t) <=> v \in Values(s) \/ v = e
  BY <1>1, <1>2, <1>3 DEF Values
<1>5. Distinct(s) /\ e \notin Values(s) => Distinct(t)
  BY <1>1, <1>2, <1>3 DEF Values, Distinct
<1> QED BY <1>4, <1>5 DEF t

----------------------------------------------------------------------------
(* Choices of a question: the first others, the element at its place.       *)

Places(c, e) == {i \in DOMAIN c : c[i] # e}
Others(c, e) == [k \in 1 .. Cardinality(Places(c, e)) |-> c[Nth(Places(c, e), k)]]

LEMMA OthersDistinct ==
  ASSUME NEW S, NEW c \in Seq(S), Distinct(c), NEW e \in Values(c)
  PROVE  /\ Others(c, e) \in Seq(S) /\ Len(Others(c, e)) = Len(c) - 1
         /\ Distinct(Others(c, e)) /\ Values(Others(c, e)) \subseteq Values(c) \ {e}
<1> DEFINE n == Len(c)
           P == Places(c, e)
           m == Cardinality(P)
           o == Others(c, e)
<1>1. n \in Nat /\ DOMAIN c = 1 .. n /\ \A i \in 1 .. n : c[i] \in S
  BY ElementOfSeq
<1>2. PICK at \in 1 .. n : c[at] = e
  BY <1>1 DEF Values
<1>3. P = (1 .. n) \ {at}
  BY <1>1, <1>2 DEF Places, Distinct
<1>4. IsFiniteSet(P) /\ m = n - 1 /\ P \subseteq Int /\ P \subseteq 1 .. n
  <2> HIDE DEF n, P
  <2>1. 1 \in Int /\ n \in Int
    BY <1>1
  <2>2. IsFiniteSet(1 .. n) /\ Cardinality(1 .. n) = IF 1 > n THEN 0 ELSE n - 1 + 1
    BY <2>1, FS_Interval
  <2>3. /\ IsFiniteSet((1 .. n) \ {at})
        /\ Cardinality((1 .. n) \ {at}) = IF at \in 1 .. n THEN Cardinality(1 .. n) - 1 ELSE Cardinality(1 .. n)
    BY <2>2, FS_RemoveElement
  <2>4. Cardinality(1 .. n) = n
    BY <1>1, <1>2, <2>2
  <2> QED BY <1>1, <1>3, <2>3, <2>4
<1> HIDE DEF P
<1>5. \A k \in 1 .. m : Nth(P, k) \in P /\ Cardinality(Below(P, Nth(P, k))) = k - 1
  BY <1>4, NthThere
<1> HIDE DEF m
<1>6. o = [k \in 1 .. m |-> c[Nth(P, k)]]
  BY DEF Others, P, m
<1>7. \A k \in 1 .. m : c[Nth(P, k)] \in S
  BY <1>1, <1>4, <1>5
<1>8. m \in Nat
  BY <1>1, <1>2, <1>4
<1> HIDE DEF o, n
<1>9. o \in Seq(S) /\ Len(o) = m /\ DOMAIN o = 1 .. m /\ \A k \in 1 .. m : o[k] = c[Nth(P, k)]
  BY <1>6, <1>7, <1>8
<1>10. \A j, k \in 1 .. m : Nth(P, j) = Nth(P, k) => j = k
  <2> SUFFICES ASSUME NEW j \in 1 .. m, NEW k \in 1 .. m, Nth(P, j) = Nth(P, k) PROVE j = k
    OBVIOUS
  <2>1. j - 1 = k - 1
    BY <1>5
  <2> QED BY <1>8, <2>1
<1>11. \A j, k \in 1 .. n : c[j] = c[k] => j = k
  BY <1>1 DEF Distinct
<1>12. Distinct(o)
  BY <1>4, <1>5, <1>9, <1>10, <1>11 DEF Distinct
<1>13. \A k \in 1 .. m : o[k] \in Values(c) \ {e}
  <2> SUFFICES ASSUME NEW k \in 1 .. m PROVE o[k] \in Values(c) \ {e}
    OBVIOUS
  <2>1. Nth(P, k) \in 1 .. n /\ Nth(P, k) # at
    BY <1>3, <1>5
  <2> QED BY <1>1, <1>2, <1>9, <1>11, <2>1 DEF Values
<1>14. Values(o) \subseteq Values(c) \ {e}
  BY <1>9, <1>13 DEF Values
<1> QED BY <1>4, <1>9, <1>12, <1>14 DEF o, n

LEMMA ChoicesFair ==
  ASSUME NEW S, NEW c \in Seq(S), Distinct(c), NEW e \in Values(c), NEW C \in Nat, Len(c) >= C,
         NEW at \in 1 .. C
  PROVE  LET choices == Put(SubSeq(Others(c, e), 1, C - 1), at, e)
         IN /\ choices \in Seq(S) /\ Len(choices) = C
            /\ Cardinality(Values(choices)) = C
            /\ Values(choices) \subseteq Values(c) /\ e \in Values(choices)
<1> DEFINE n == Len(c)
           o == Others(c, e)
           f == SubSeq(o, 1, C - 1)
           choices == Put(f, at, e)
<1>1. n \in Nat /\ n >= C /\ C - 1 \in Nat /\ at \in Int
  OBVIOUS
<1>2. o \in Seq(S) /\ Len(o) = n - 1 /\ Distinct(o) /\ Values(o) \subseteq Values(c) \ {e}
  BY OthersDistinct
<1>3. DOMAIN o = 1 .. n - 1
  BY <1>2
<1> HIDE DEF o, n
<1>4. f \in Seq(S) /\ Len(f) = C - 1 /\ \A i \in 1 .. C - 1 : f[i] = o[i]
  <2>1. 1 \in 1 .. Len(o) + 1 /\ C - 1 \in 1 - 1 .. Len(o)
    BY <1>1, <1>2
  <2>2. /\ f \in Seq(S) /\ Len(f) = (C - 1) - 1 + 1
        /\ \A i \in 1 .. (C - 1) - 1 + 1 : f[i] = o[1 + i - 1]
    BY <1>2, <2>1, Section
  <2>3. (C - 1) - 1 + 1 = C - 1 /\ \A i \in 1 .. C - 1 : 1 + i - 1 = i
    BY <1>1
  <2> HIDE DEF f
  <2> QED BY <2>2, <2>3
<1> HIDE DEF f
<1>5. \A i \in 1 .. C - 1 : i \in 1 .. n - 1
  BY <1>1
<1>6. e \in S
  <2>1. \A i \in DOMAIN c : c[i] \in S
    OBVIOUS
  <2> QED BY <2>1 DEF Values
<1>7. /\ choices \in Seq(S) /\ Len(choices) = C
      /\ \A j \in 1 .. C : choices[j] = IF j < at THEN f[j] ELSE IF j = at THEN e ELSE f[j - 1]
  <2>1. at \in 1 .. Len(f) + 1
    BY <1>1, <1>4
  <2>4. PutRight(S, f, at, e)
    BY <1>4, <1>6, <2>1, PutIsRight
  <2>2. /\ Put(f, at, e) \in Seq(S) /\ Len(Put(f, at, e)) = Len(f) + 1
        /\ \A j \in 1 .. Len(f) + 1 :
             Put(f, at, e)[j] = IF j < at THEN f[j] ELSE IF j = at THEN e ELSE f[j - 1]
    BY <2>4 DEF PutRight
  <2>3. Len(f) + 1 = C
    BY <1>1, <1>4
  <2> HIDE DEF choices
  <2> QED BY <2>2, <2>3 DEF choices
<1>8. DOMAIN choices = 1 .. C
  BY <1>7
<1> HIDE DEF choices
<1>9. choices[at] = e /\ at \in 1 .. C
  BY <1>1, <1>7
<1> DEFINE Of(j) == IF j < at THEN j ELSE j - 1
<1>10. \A j \in 1 .. C : j # at => Of(j) \in 1 .. C - 1 /\ choices[j] = f[Of(j)]
  BY <1>1, <1>7
<1>11. \A j, k \in 1 .. C : j # at /\ k # at /\ Of(j) = Of(k) => j = k
  BY <1>1
<1> HIDE DEF Of
<1>12. \A j \in 1 .. C - 1 : f[j] \in Values(c) /\ f[j] # e
  BY <1>2, <1>3, <1>4, <1>5 DEF Values
<1>13. \A j, k \in 1 .. C - 1 : f[j] = f[k] => j = k
  BY <1>2, <1>3, <1>4, <1>5 DEF Distinct
<1>14. Distinct(choices)
  BY <1>8, <1>9, <1>10, <1>11, <1>12, <1>13 DEF Distinct
<1>15. Cardinality(Values(choices)) = C
  BY <1>7, <1>14, DistinctSize
<1>16. Values(choices) \subseteq Values(c)
  BY <1>8, <1>9, <1>10, <1>12 DEF Values
<1>17. e \in Values(choices)
  BY <1>8, <1>9 DEF Values
<1> QED BY <1>7, <1>15, <1>16, <1>17 DEF choices, f, o

----------------------------------------------------------------------------
(* Runs of successive numbers of a set, counted as they come.               *)

(* The run that ends at i and the longest run among 1 .. i.                 *)
RunsAre(ok, i, run, best) ==
  /\ run \in 0 .. i /\ best \in run .. i
  /\ (i - run + 1) .. i \subseteq ok
  /\ run < i => i - run \notin ok
  /\ best = 0 \/ \E q \in 1 .. i : q + best - 1 <= i /\ q .. (q + best - 1) \subseteq ok
  /\ \A q \in 1 .. i : q + best <= i => ~(q .. (q + best) \subseteq ok)

(* The longest run among 1 .. n.                                            *)
IsLongest(ok, n, best) ==
  /\ best \in 0 .. n
  /\ best = 0 \/ \E q \in 1 .. n : q + best - 1 <= n /\ q .. (q + best - 1) \subseteq ok
  /\ \A q \in 1 .. n : q + best <= n => ~(q .. (q + best) \subseteq ok)

LEMMA RunsStart == ASSUME NEW ok PROVE RunsAre(ok, 0, 0, 0)
BY DEF RunsAre

LEMMA RunBroken ==
  ASSUME NEW ok, NEW i \in Nat, NEW run, NEW best, RunsAre(ok, i, run, best), i + 1 \notin ok
  PROVE  RunsAre(ok, i + 1, 0, best)
<1>1. best \in 0 .. i + 1
  BY DEF RunsAre
<1>2. ((i + 1) - 0 + 1) .. (i + 1) \subseteq ok /\ (i + 1) - 0 \notin ok
  <2>1. (i + 1) - 0 = i + 1
    OBVIOUS
  <2> QED BY <2>1
<1>3. best = 0 \/ \E q \in 1 .. (i + 1) : q + best - 1 <= i + 1 /\ q .. (q + best - 1) \subseteq ok
  <2>1. CASE best # 0
    <3>1. PICK q \in 1 .. i : q + best - 1 <= i /\ q .. (q + best - 1) \subseteq ok
      BY <2>1 DEF RunsAre
    <3>2. q \in 1 .. (i + 1) /\ q + best - 1 <= i + 1
      BY <1>1, <3>1
    <3> QED BY <3>1, <3>2
  <2> QED BY <2>1
<1>4. ASSUME NEW q \in 1 .. (i + 1), q + best <= i + 1 PROVE ~(q .. (q + best) \subseteq ok)
  <2>1. CASE q + best <= i
    <3>1. q \in 1 .. i
      BY <1>1, <2>1
    <3>2. ~(q .. (q + best) \subseteq ok)
      BY <2>1, <3>1 DEF RunsAre
    <3> QED BY <3>2
  <2>2. CASE q + best = i + 1
    <3>1. i + 1 \in q .. (q + best)
      BY <1>1, <2>2
    <3> DEFINE k == i + 1
               R == q .. (q + best)
    <3>2. k \in R /\ k \notin ok
      BY <3>1
    <3> HIDE DEF k, R
    <3>3. ~(R \subseteq ok)
      BY <3>2
    <3> QED BY <3>3 DEF R
  <2> QED BY <1>1, <1>4, <2>1, <2>2
<1>5. \A q \in 1 .. (i + 1) : q + best <= i + 1 => ~(q .. (q + best) \subseteq ok)
  BY <1>4
<1>6. 0 \in 0 .. (i + 1) /\ best \in 0 .. (i + 1)
  BY <1>1
<1> QED BY <1>2, <1>3, <1>5, <1>6, Zenon DEF RunsAre

LEMMA RunGoesOn ==
  ASSUME NEW ok, NEW i \in Nat, NEW run, NEW best, RunsAre(ok, i, run, best), i + 1 \in ok
  PROVE  RunsAre(ok, i + 1, run + 1, IF run + 1 > best THEN run + 1 ELSE best)
<1> DEFINE r == run + 1
           b == IF r > best THEN r ELSE best
<1>1. run \in 0 .. i /\ best \in run .. i
  BY DEF RunsAre
<1>2. r \in 0 .. (i + 1) /\ b \in r .. (i + 1) /\ b >= best /\ b \in Int /\ b >= run + 1
  BY <1>1
<1>3. ((i + 1) - r + 1) .. (i + 1) \subseteq ok
  <2> SUFFICES ASSUME NEW j \in ((i + 1) - r + 1) .. (i + 1) PROVE j \in ok
    OBVIOUS
  <2>1. j = i + 1 \/ j \in (i - run + 1) .. i
    BY <1>1
  <2> QED BY <2>1 DEF RunsAre
<1>4. r < i + 1 => (i + 1) - r \notin ok
  <2>1. (i + 1) - r = i - run /\ (r < i + 1 => run < i)
    BY <1>1
  <2> QED BY <2>1 DEF RunsAre
<1>5. \E q \in 1 .. (i + 1) : q + b - 1 <= i + 1 /\ q .. (q + b - 1) \subseteq ok
  <2>1. CASE r > best
    <3> DEFINE q == (i + 1) - r + 1
    <3>1. q \in 1 .. (i + 1) /\ q + b - 1 = i + 1
      BY <1>1, <2>1
    <3>2. q .. (q + b - 1) \subseteq ok
      BY <1>3, <3>1
    <3> HIDE DEF q
    <3> QED BY <3>1, <3>2
  <2>2. CASE ~(r > best)
    <3>1. b = best /\ best # 0
      BY <1>1, <2>2
    <3>2. PICK q \in 1 .. i : q + best - 1 <= i /\ q .. (q + best - 1) \subseteq ok
      BY <3>1 DEF RunsAre
    <3>3. q \in 1 .. (i + 1) /\ q + best - 1 <= i + 1
      BY <1>1, <3>2
    <3> HIDE DEF b
    <3> QED BY <3>1, <3>2, <3>3
  <2> QED BY <2>1, <2>2
<1> HIDE DEF b
<1>6. ASSUME NEW q \in 1 .. (i + 1), q + b <= i + 1 PROVE ~(q .. (q + b) \subseteq ok)
  <2>1. CASE q + b <= i
    <3>1. q \in 1 .. i /\ q + best <= i /\ \A j \in q .. (q + best) : j \in q .. (q + b)
      BY <1>1, <1>2, <2>1
    <3>2. ~(q .. (q + best) \subseteq ok)
      BY <3>1 DEF RunsAre
    <3> QED BY <3>1, <3>2
  <2>2. CASE q + b = i + 1
    <3>1. i - run \in q .. (q + b) /\ run < i
      BY <1>1, <1>2, <2>2
    <3>2. i - run \notin ok
      BY <3>1 DEF RunsAre
    <3> QED BY <3>1, <3>2
  <2> QED BY <1>2, <1>6, <2>1, <2>2
<1>7. RunsAre(ok, i + 1, r, b)
  <2> HIDE DEF r
  <2> QED BY <1>2, <1>3, <1>4, <1>5, <1>6 DEF RunsAre
<1> QED BY <1>7 DEF b

LEMMA LongestOnce ==
  ASSUME NEW ok, NEW n \in Nat, NEW a, NEW b, IsLongest(ok, n, a), IsLongest(ok, n, b)
  PROVE  a = b
<1>1. ASSUME NEW x, NEW y, IsLongest(ok, n, x), IsLongest(ok, n, y) PROVE ~(x < y)
  <2> SUFFICES ASSUME x < y PROVE FALSE
    OBVIOUS
  <2>1. x \in 0 .. n /\ y \in 0 .. n /\ y # 0
    BY <1>1 DEF IsLongest
  <2>2. PICK q \in 1 .. n : q + y - 1 <= n /\ q .. (q + y - 1) \subseteq ok
    BY <1>1, <2>1 DEF IsLongest
  <2>3. q + x <= n /\ \A j \in q .. (q + x) : j \in q .. (q + y - 1)
    BY <2>1, <2>2
  <2>4. ~(q .. (q + x) \subseteq ok)
    BY <1>1, <2>3 DEF IsLongest
  <2> QED BY <2>2, <2>3, <2>4
<1>2. a \in 0 .. n /\ b \in 0 .. n
  BY DEF IsLongest
<1>3. ~(a < b) /\ ~(b < a)
  BY <1>1
<1> QED BY <1>2, <1>3

(* A count that follows the runs: its second number is the longest one.     *)
CountsRuns(ok, n, c) ==
  /\ c[0] = <<0, 0>>
  /\ \A i \in 0 .. n - 1 :
       c[i + 1] = IF i + 1 \in ok
                    THEN <<c[i][1] + 1, IF c[i][1] + 1 > c[i][2] THEN c[i][1] + 1 ELSE c[i][2]>>
                    ELSE <<0, c[i][2]>>

LEMMA CountsLongest ==
  ASSUME NEW ok, NEW n \in Nat, NEW c, CountsRuns(ok, n, c)
  PROVE  IsLongest(ok, n, c[n][2])
<1> DEFINE P == {i \in Nat : i <= n => RunsAre(ok, i, c[i][1], c[i][2])}
<1>1. 0 \in P
  BY RunsStart DEF CountsRuns
<1>2. ASSUME NEW i \in Nat, i \in P PROVE i + 1 \in P
  <2> SUFFICES ASSUME i + 1 <= n PROVE RunsAre(ok, i + 1, c[i + 1][1], c[i + 1][2])
    OBVIOUS
  <2>1. i \in 0 .. n - 1 /\ RunsAre(ok, i, c[i][1], c[i][2])
    BY <1>2
  <2>2. CASE i + 1 \in ok
    <3>1. c[i + 1] = <<c[i][1] + 1, IF c[i][1] + 1 > c[i][2] THEN c[i][1] + 1 ELSE c[i][2]>>
      BY <2>1, <2>2 DEF CountsRuns
    <3> QED BY <2>1, <2>2, <3>1, RunGoesOn
  <2>3. CASE i + 1 \notin ok
    <3>1. c[i + 1] = <<0, c[i][2]>>
      BY <2>1, <2>3 DEF CountsRuns
    <3> QED BY <2>1, <2>3, <3>1, RunBroken
  <2> QED BY <2>2, <2>3
<1>3. n \in P
  <2> HIDE DEF P
  <2> QED BY <1>1, <1>2, SetInduction
<1>4. RunsAre(ok, n, c[n][1], c[n][2])
  BY <1>3
<1>5. c[n][2] \in 0 .. n
  BY <1>4 DEF RunsAre
<1> QED BY <1>4, <1>5 DEF RunsAre, IsLongest

----------------------------------------------------------------------------
(* The same points for each number of a set.                                *)

Scored(f, n, ok, p) == \A q \in 1 .. n : f[q] = IF q \in ok THEN p ELSE 0

LEMMA PointsSum ==
  ASSUME NEW n \in Nat, NEW ok, NEW p \in Nat, NEW f, Scored(f, n, ok, p)
  PROVE  SumFunctionOnSet(f, 1 .. n) = p * Cardinality({q \in 1 .. n : q \in ok})
<1> DEFINE In(m) == {q \in 1 .. m : q \in ok}
           Sum(m) == SumFunctionOnSet(f, 1 .. m)
           P == {m \in Nat : m <= n =>
                   /\ IsFiniteSet(In(m)) /\ Cardinality(In(m)) \in Nat
                   /\ Sum(m) = p * Cardinality(In(m))}
<1>0. \A q \in 1 .. n : f[q] = IF q \in ok THEN p ELSE 0
  BY DEF Scored
<1>1. 0 \in P
  <2>1. 1 .. 0 = {} /\ In(0) = {}
    OBVIOUS
  <2>2. Sum(0) = 0
    BY <2>1, SumEmpty
  <2>3. IsFiniteSet(In(0)) /\ Cardinality(In(0)) = 0
    BY <2>1, FS_EmptySet
  <2>4. p * 0 = 0
    OBVIOUS
  <2> HIDE DEF In, Sum
  <2> QED BY <2>2, <2>3, <2>4
<1>2. ASSUME NEW m \in Nat, m \in P PROVE m + 1 \in P
  <2> SUFFICES ASSUME m + 1 <= n
               PROVE  /\ IsFiniteSet(In(m + 1)) /\ Cardinality(In(m + 1)) \in Nat
                      /\ Sum(m + 1) = p * Cardinality(In(m + 1))
    OBVIOUS
  <2>1. IsFiniteSet(In(m)) /\ Cardinality(In(m)) \in Nat /\ Sum(m) = p * Cardinality(In(m))
    BY <1>2
  <2>2. \A q \in 1 .. m : f[q] \in Int
    BY <1>0
  <2>3. f[m + 1] = (IF m + 1 \in ok THEN p ELSE 0) /\ f[m + 1] \in Int
    BY <1>0
  <2>4. Sum(m + 1) = Sum(m) + f[m + 1]
    BY <2>2, <2>3, SumAppend
  <2>5. \A q : q \in 1 .. (m + 1) <=> q \in 1 .. m \/ q = m + 1
    OBVIOUS
  <2>6. m + 1 \notin In(m)
    OBVIOUS
  <2>7. CASE m + 1 \in ok
    <3>1. In(m + 1) = In(m) \cup {m + 1}
      BY <2>5, <2>7
    <3> HIDE DEF In, Sum
    <3>2. IsFiniteSet(In(m + 1)) /\ Cardinality(In(m + 1)) = Cardinality(In(m)) + 1
      BY <2>1, <2>6, <3>1, FS_AddElement
    <3> DEFINE k == Cardinality(In(m))
    <3>3. k \in Nat /\ Sum(m) = p * k
      BY <2>1
    <3> HIDE DEF k
    <3>4. p * (k + 1) = p * k + p /\ p * k \in Int
      BY <3>3
    <3> QED BY <2>3, <2>4, <2>7, <3>2, <3>3, <3>4 DEF k
  <2>8. CASE m + 1 \notin ok
    <3>1. In(m + 1) = In(m)
      BY <2>5, <2>8
    <3> HIDE DEF In, Sum
    <3> DEFINE k == Cardinality(In(m))
    <3>2. k \in Nat /\ Sum(m) = p * k
      BY <2>1
    <3> HIDE DEF k
    <3>3. p * k \in Int
      BY <3>2
    <3> QED BY <2>1, <2>3, <2>4, <2>8, <3>1, <3>2, <3>3 DEF k
  <2> QED BY <2>7, <2>8
<1>3. n \in P
  <2> HIDE DEF P
  <2> QED BY <1>1, <1>2, SetInduction
<1> QED BY <1>3

----------------------------------------------------------------------------
(* Numbered rows, read back by the number of rows before each.              *)

Numbered(n, R) == {[index |-> q, row |-> R[q]] : q \in 1 .. n}
RowAt(rows, i) == CHOOSE r \in rows : Cardinality({x \in rows : x.index < r.index}) = i - 1

LEMMA NumberedSorted ==
  ASSUME NEW n \in Nat, NEW R
  PROVE  /\ Cardinality(Numbered(n, R)) = n
         /\ \A i \in 1 .. n : RowAt(Numbered(n, R), i).row = R[i]
<1> DEFINE rows == Numbered(n, R)
           rec(q) == [index |-> q, row |-> R[q]]
           upTo(m) == {rec(q) : q \in 1 .. m}
<1>1. \A q, r : rec(q) = rec(r) => q = r
  OBVIOUS
<1>2. \A q : rec(q).index = q /\ rec(q).row = R[q]
  OBVIOUS
<1>3. rows = upTo(n)
  BY DEF Numbered
<1> HIDE DEF rows, rec
<1>4. ASSUME NEW m \in Nat PROVE IsFiniteSet(upTo(m)) /\ Cardinality(upTo(m)) = m
  <2> DEFINE f == [q \in 1 .. m |-> rec(q)]
  <2>1. f \in Bijection(1 .. m, upTo(m))
    BY <1>1 DEF Bijection, Injection, Surjection, IsInjective
  <2>2. ExistsBijection(1 .. m, upTo(m))
    BY <2>1 DEF ExistsBijection
  <2>3. IsFiniteSet(1 .. m) /\ Cardinality(1 .. m) = m
    BY FS_Interval
  <2> HIDE DEF upTo
  <2>4. IsFiniteSet(upTo(m)) /\ Cardinality(upTo(m)) = Cardinality(1 .. m)
    BY <2>2, <2>3, FS_Bijection
  <2> QED BY <2>3, <2>4
<1>5. ASSUME NEW q \in 1 .. n PROVE Cardinality({x \in rows : x.index < q}) = q - 1
  <2>1. {x \in rows : x.index < q} = upTo(q - 1)
    <3>1. ASSUME NEW x \in rows, x.index < q PROVE x \in upTo(q - 1)
      <4>1. PICK r \in 1 .. n : x = rec(r)
        BY <1>3
      <4>2. r \in 1 .. q - 1
        BY <1>2, <3>1, <4>1
      <4> QED BY <4>1, <4>2
    <3>2. ASSUME NEW x \in upTo(q - 1) PROVE x \in rows /\ x.index < q
      <4>1. PICK r \in 1 .. q - 1 : x = rec(r)
        BY <3>2
      <4>2. r \in 1 .. n /\ r < q
        BY <4>1
      <4> QED BY <1>2, <1>3, <4>1, <4>2
    <3> QED BY <3>1, <3>2
  <2>2. q - 1 \in Nat
    OBVIOUS
  <2> HIDE DEF upTo
  <2>3. Cardinality(upTo(q - 1)) = q - 1
    BY <1>4, <2>2
  <2> QED BY <2>1, <2>3
<1>6. ASSUME NEW i \in 1 .. n PROVE RowAt(rows, i) = rec(i)
  <2>1. rec(i) \in rows /\ Cardinality({x \in rows : x.index < rec(i).index}) = i - 1
    BY <1>2, <1>3, <1>5
  <2>2. ASSUME NEW r \in rows, Cardinality({x \in rows : x.index < r.index}) = i - 1 PROVE r = rec(i)
    <3>1. PICK q \in 1 .. n : r = rec(q)
      BY <1>3
    <3>2. q - 1 = i - 1
      BY <1>2, <1>5, <2>2, <3>1
    <3> QED BY <3>1, <3>2
  <2> QED BY <2>1, <2>2, Zenon DEF RowAt
<1>7. Cardinality(rows) = n
  <2> HIDE DEF upTo
  <2> QED BY <1>3, <1>4
<1> QED BY <1>2, <1>6, <1>7 DEF rows

----------------------------------------------------------------------------
(* The questions of a game.                                                 *)

Ids == Nat \ {0}
AskedRecords == [element : Ids, choices : Seq(Ids)]

(* The element that the i-th question asks for, going round those drawn.    *)
CircleOf(d, i) == d[((i - 1) % Len(d)) + 1]

ChosenFairly(ch, e, c) ==
  /\ ch \in Seq(Ids) /\ Len(ch) = ChoiceCount /\ Cardinality(Values(ch)) = ChoiceCount
  /\ Values(ch) \subseteq Values(c) /\ e \in Values(ch)

DrawnRight(c, rem, d) ==
  /\ c \in Seq(Ids) /\ rem \in Seq(Ids) /\ d \in Seq(Ids)
  /\ Distinct(c) /\ Distinct(rem) /\ Distinct(d)
  /\ Values(d) \cap Values(rem) = {} /\ Values(d) \cup Values(rem) = Values(c)
  /\ Len(d) <= QuizQuestions

(* Nothing is left to draw, or nothing is to be drawn any more.             *)
AllDrawn(rem, d) == d # <<>> /\ (rem = <<>> \/ Len(d) = QuizQuestions)

QuestionsAre(qs, d, c) ==
  /\ qs \in Seq(AskedRecords) /\ Len(qs) <= QuizQuestions
  /\ \A q \in 1 .. Len(qs) :
       /\ qs[q].element = CircleOf(d, q)
       /\ ChosenFairly(qs[q].choices, qs[q].element, c)

(* The results of what was chosen for each question.                        *)
ResultRow(qs, s, q) ==
  [question |-> q, element |-> qs[q].element, chosen |-> s[q],
   correct |-> s[q] = qs[q].element,
   score |-> IF s[q] = qs[q].element THEN 100 ELSE 0]
ResultRows(qs, s) == [q \in 1 .. QuizQuestions |-> ResultRow(qs, s, q)]

QuizInv(ph, c, rem, d, qs, s, res, sv, rd) ==
  /\ ph \in {"start", "draw", "refused", "answer", "saved", "invalid", "restored"}
  /\ DrawnRight(c, rem, d) /\ QuestionsAre(qs, d, c)
  /\ ph \notin {"start", "refused"} => Len(c) >= ChoiceCount
  /\ qs # <<>> => AllDrawn(rem, d)
  /\ ph = "start" => qs = <<>> /\ d = <<>>
  /\ ph \in {"answer", "saved", "restored"} => Len(qs) = QuizQuestions /\ qs # <<>>
  /\ ph \in {"saved", "restored"} =>
       /\ res = Quiz!Summary(ResultRows(qs, s))
       /\ sv = Numbered(QuizQuestions, ResultRows(qs, s))
  /\ ph = "restored" => rd = res

QuizHolds ==
  QuizInv(quizPhase, quizCandidates, quizRemaining, quizDrawn, quizQuestions, quizSent,
          quizResults, quizSaved, quizRestored)

QuizPart == which = "quiz" => QuizHolds

LEMMA QuizSizes ==
  /\ QuizQuestions \in Nat /\ ChoiceCount \in Nat /\ Band \in Nat /\ QuizMinWeak \in Nat
  /\ Band >= ChoiceCount /\ QuizMinWeak >= ChoiceCount
  /\ \A list \in WeakCandidates : list \in Seq(Ids) /\ Distinct(list)
<1>1. \A list \in WeakCandidates : list \in Seq(Ids) /\ DOMAIN list = 1 .. Len(list)
  BY InstancesAssumption DEF Quiz!QuestionSetAssumption, Ids
<1>2. \A list \in WeakCandidates : \A i, j \in 1 .. Len(list) : list[i] = list[j] => i = j
  BY InstancesAssumption DEF Quiz!QuestionSetAssumption
<1>3. \A list \in WeakCandidates : Distinct(list)
  BY <1>1, <1>2, Zenon DEF Distinct
<1> QED BY <1>1, <1>3, InstancesAssumption DEF Quiz!QuestionSetAssumption

LEMMA NothingDrawn ==
  ASSUME NEW c \in Seq(Ids), Distinct(c)
  PROVE  DrawnRight(c, c, <<>>) /\ QuestionsAre(<<>>, <<>>, c)
<1>1. Values(<<>>) = {} /\ Distinct(<<>>)
  BY DEF Values, Distinct
<1>2. <<>> \in Seq(Ids) /\ Len(<<>>) = 0 /\ <<>> \in Seq(AskedRecords)
  OBVIOUS
<1>3. 0 <= QuizQuestions
  BY QuizSizes
<1>4. DrawnRight(c, c, <<>>)
  BY <1>1, <1>2, <1>3 DEF DrawnRight
<1>5. \A q \in 1 .. Len(<<>>) : FALSE
  BY <1>2
<1> QED BY <1>2, <1>3, <1>4, <1>5 DEF QuestionsAre

LEMMA QuizPartInit == AllInit => QuizPart
<1> SUFFICES ASSUME AllInit, which = "quiz" PROVE QuizHolds
  BY DEF QuizPart
<1>1. Quiz!Init
  BY DEF AllInit
<1>2. /\ quizPhase = "start" /\ quizCandidates = <<>> /\ quizRemaining = <<>>
      /\ quizDrawn = <<>> /\ quizQuestions = <<>>
  BY <1>1 DEF Quiz!Init
<1>3. <<>> \in Seq(Ids) /\ Distinct(<<>>)
  BY DEF Distinct
<1>4. DrawnRight(<<>>, <<>>, <<>>) /\ QuestionsAre(<<>>, <<>>, <<>>)
  BY <1>3, NothingDrawn
<1> QED BY <1>2, <1>4 DEF QuizHolds, QuizInv

(* The names of the module that QuestionSet is an instance of.              *)
LEMMA QuizNames ==
  /\ \A S : Quiz!Cardinality(S) = Cardinality(S)
  /\ \A s : Quiz!ToSet(s) = Values(s)
  /\ \A s, i : Quiz!RemoveAt(s, i) = Cut(s, i)
  /\ \A s, i, e : Quiz!InsertAt(s, i, e) = Put(s, i, e)
  /\ \A p, k : Quiz!Kth(p, k) = Nth(p, k)
  /\ Quiz!Indexes = 1 .. QuizQuestions /\ Quiz!PointsPerHit = 100
<1>1. \A S : Quiz!Cardinality(S) = Cardinality(S)
  BY Zenon DEF Quiz!Cardinality, Cardinality
<1>2. \A s : Quiz!ToSet(s) = Values(s)
  BY Zenon DEF Quiz!ToSet, Values
<1>3. \A s, i : Quiz!RemoveAt(s, i) = Cut(s, i)
  BY Zenon DEF Quiz!RemoveAt, Cut
<1>4. \A s, i, e : Quiz!InsertAt(s, i, e) = Put(s, i, e)
  BY Zenon DEF Quiz!InsertAt, Put
<1>5. \A p, k : Quiz!Kth(p, k) = Nth(p, k)
  BY Zenon DEF Quiz!Kth, Nth, Below, Quiz!Cardinality, Cardinality
<1>6. Quiz!Indexes = 1 .. QuizQuestions /\ Quiz!PointsPerHit = 100
  BY Zenon DEF Quiz!Indexes, Quiz!PointsPerHit
<1> QED BY <1>1, <1>2, <1>3, <1>4, <1>5, <1>6

LEMMA QuizChoices ==
  \A e, at : Quiz!BuildChoices(e, at)
               = Put(SubSeq(Others(quizCandidates, e), 1, ChoiceCount - 1), at, e)
BY Zenon DEF Quiz!BuildChoices, Quiz!InsertAt, Put, Others, Places, Quiz!Kth, Nth, Below,
             Quiz!Cardinality, Cardinality

----------------------------------------------------------------------------
(* Drawing the elements.                                                    *)

LEMMA StartRight ==
  ASSUME NEW list \in {[i \in 1 .. Band |-> i]} \cup WeakCandidates,
         ~(list \in WeakCandidates /\ Len(list) < QuizMinWeak)
  PROVE  list \in Seq(Ids) /\ Distinct(list) /\ Len(list) >= ChoiceCount
<1>1. CASE list \in WeakCandidates
  <2>1. list \in Seq(Ids) /\ Distinct(list)
    BY <1>1, QuizSizes
  <2>2. Len(list) \in Nat /\ ~(Len(list) < QuizMinWeak)
    BY <1>1, <2>1
  <2> QED BY <2>1, <2>2, QuizSizes
<1>2. CASE list = [i \in 1 .. Band |-> i]
  <2>1. Band \in Nat /\ Band >= ChoiceCount
    BY QuizSizes
  <2>2. list \in Seq(Ids) /\ Len(list) = Band /\ DOMAIN list = 1 .. Band
    BY <1>2, <2>1 DEF Ids
  <2>3. \A i \in 1 .. Band : list[i] = i
    BY <1>2
  <2> QED BY <2>1, <2>2, <2>3 DEF Distinct
<1> QED BY <1>1, <1>2

LEMMA DrawRight ==
  ASSUME NEW c, NEW rem, NEW d, DrawnRight(c, rem, d), Len(d) < QuizQuestions,
         NEW i \in 1 .. Len(rem)
  PROVE  DrawnRight(c, Cut(rem, i), Append(d, rem[i]))
<1> DEFINE e == rem[i]
           x == Cut(rem, i)
           y == Append(d, e)
<1>1. /\ c \in Seq(Ids) /\ rem \in Seq(Ids) /\ d \in Seq(Ids)
      /\ Distinct(c) /\ Distinct(rem) /\ Distinct(d)
      /\ Values(d) \cap Values(rem) = {} /\ Values(d) \cup Values(rem) = Values(c)
  BY DEF DrawnRight
<1>2. i \in DOMAIN rem /\ e \in Ids /\ e \in Values(rem)
  BY <1>1 DEF Values
<1>3. x \in Seq(Ids)
  BY <1>1, CutIs
<1>4. Distinct(x) /\ Values(x) = Values(rem) \ {e}
  BY <1>1, CutDistinct
<1>5. y \in Seq(Ids) /\ Len(y) = Len(d) + 1 /\ Len(d) \in Nat
  BY <1>1, <1>2
<1> HIDE DEF e
<1>6. e \notin Values(d)
  BY <1>1, <1>2
<1>7. Values(y) = Values(d) \cup {e} /\ Distinct(y)
  BY <1>1, <1>2, <1>6, AppendDistinct
<1> HIDE DEF x, y
<1>8. Len(y) <= QuizQuestions
  BY <1>5, QuizSizes
<1>9. Values(y) \cap Values(x) = {} /\ Values(y) \cup Values(x) = Values(c)
  BY <1>1, <1>2, <1>4, <1>7
<1> QED BY <1>1, <1>3, <1>4, <1>5, <1>7, <1>8, <1>9 DEF DrawnRight, x, y, e

----------------------------------------------------------------------------
(* Building a question.                                                     *)

LEMMA CircleDrawn ==
  ASSUME NEW d \in Seq(Ids), d # <<>>, NEW i \in Nat \ {0}
  PROVE  /\ (i - 1) % Len(d) \in 0 .. Len(d) - 1 /\ ((i - 1) % Len(d)) + 1 \in 1 .. Len(d)
         /\ CircleOf(d, i) \in Values(d) /\ CircleOf(d, i) \in Ids
<1> DEFINE L == Len(d)
           k == i - 1
           r == k % L
<1>1. L \in Nat \ {0} /\ k \in Nat /\ DOMAIN d = 1 .. L
  BY EmptySeq
<1>2. r \in 0 .. L - 1
  <2> HIDE DEF L, k
  <2> QED BY <1>1, NextRemainder
<1> HIDE DEF L, r
<1>3. r + 1 \in 1 .. L
  BY <1>1, <1>2
<1>4. d[r + 1] \in Ids /\ d[r + 1] \in Values(d)
  BY <1>1, <1>3 DEF Values, L
<1> QED BY <1>2, <1>3, <1>4 DEF CircleOf, L, r

LEMMA BuildRight ==
  ASSUME NEW c, NEW rem, NEW d, DrawnRight(c, rem, d), Len(c) >= ChoiceCount,
         AllDrawn(rem, d), NEW qs, QuestionsAre(qs, d, c), Len(qs) < QuizQuestions,
         NEW at \in 1 .. ChoiceCount, NEW e, e = CircleOf(d, Len(qs) + 1),
         NEW ch, ch = Put(SubSeq(Others(c, e), 1, ChoiceCount - 1), at, e)
  PROVE  QuestionsAre(Append(qs, [element |-> e, choices |-> ch]), d, c)
<1> DEFINE m == Len(qs)
           rec == [element |-> e, choices |-> ch]
           new == Append(qs, rec)
<1>1. /\ c \in Seq(Ids) /\ d \in Seq(Ids) /\ Distinct(c) /\ d # <<>>
      /\ Values(d) \subseteq Values(c)
  BY DEF DrawnRight, AllDrawn
<1>2. qs \in Seq(AskedRecords) /\ m \in Nat /\ m + 1 \in Nat \ {0}
  BY DEF QuestionsAre
<1>3. e \in Values(c) /\ e \in Ids
  BY <1>1, <1>2, CircleDrawn
<1>4. ChosenFairly(ch, e, c)
  <2>1. ChoiceCount \in Nat
    BY QuizSizes
  <2>2. /\ ch \in Seq(Ids) /\ Len(ch) = ChoiceCount
        /\ Cardinality(Values(ch)) = ChoiceCount
        /\ Values(ch) \subseteq Values(c) /\ e \in Values(ch)
    BY <1>1, <1>3, <2>1, ChoicesFair
  <2> QED BY <2>2 DEF ChosenFairly
<1>5. rec \in AskedRecords /\ rec.element = e /\ rec.choices = ch
  BY <1>3, <1>4 DEF AskedRecords, ChosenFairly
<1> HIDE DEF rec
<1>6. /\ new \in Seq(AskedRecords) /\ Len(new) = m + 1
      /\ new[m + 1] = rec /\ \A q \in 1 .. m : new[q] = qs[q]
  BY <1>2, <1>5
<1>7. m + 1 <= QuizQuestions
  BY <1>2, QuizSizes
<1> HIDE DEF new
<1>8. ASSUME NEW q \in 1 .. (m + 1)
      PROVE  /\ new[q].element = CircleOf(d, q)
             /\ ChosenFairly(new[q].choices, new[q].element, c)
  <2>1. CASE q = m + 1
    BY <1>4, <1>5, <1>6, <2>1
  <2>2. CASE q \in 1 .. m
    <3>1. /\ qs[q].element = CircleOf(d, q)
          /\ ChosenFairly(qs[q].choices, qs[q].element, c)
      BY <2>2 DEF QuestionsAre
    <3> QED BY <1>6, <2>2, <3>1
  <2> QED BY <1>2, <2>1, <2>2
<1> QED BY <1>6, <1>7, <1>8 DEF QuestionsAre, new, rec

----------------------------------------------------------------------------
(* No element is asked two times more than another.                         *)

AskedOf(qs, e) == {q \in 1 .. QuizQuestions : qs[q].element = e}

LEMMA AskedRound ==
  ASSUME NEW c, NEW d \in Seq(Ids), d # <<>>, Distinct(d), NEW qs, QuestionsAre(qs, d, c),
         Len(qs) = QuizQuestions, NEW r \in 0 .. Len(d) - 1
  PROVE  AskedOf(qs, d[r + 1]) = Round(QuizQuestions, Len(d), r)
<1> DEFINE L == Len(d)
           N == QuizQuestions
<1>1. L \in Nat \ {0} /\ DOMAIN d = 1 .. L /\ N \in Nat /\ r + 1 \in 1 .. L
  BY EmptySeq, QuizSizes
<1>2. ASSUME NEW q \in 1 .. N PROVE qs[q].element = d[r + 1] <=> (q - 1) % L = r
  <2> DEFINE x == (q - 1) % L
  <2>1. q \in Nat \ {0}
    BY <1>1
  <2>2. x \in 0 .. L - 1 /\ x + 1 \in 1 .. L
    BY <2>1, CircleDrawn
  <2>3. qs[q].element = d[x + 1]
    BY DEF QuestionsAre, CircleOf
  <2> HIDE DEF x, L
  <2>4. d[x + 1] = d[r + 1] => x + 1 = r + 1
    BY <1>1, <2>2 DEF Distinct
  <2>5. r \in Int /\ x \in Int
    BY <1>1, <2>2 DEF L
  <2>6. d[x + 1] = d[r + 1] => x = r
    BY <2>4, <2>5
  <2>7. qs[q].element = d[r + 1] <=> x = r
    BY <2>3, <2>6
  <2> QED BY <2>7 DEF x
<1> HIDE DEF L, N
<1> QED BY <1>2, Zenon DEF AskedOf, Round, L, N

LEMMA AskedEvenly ==
  ASSUME NEW c, NEW rem, NEW d, DrawnRight(c, rem, d), AllDrawn(rem, d),
         NEW qs, QuestionsAre(qs, d, c), Len(qs) = QuizQuestions,
         NEW a \in Values(c), NEW b \in Values(c)
  PROVE  Cardinality(AskedOf(qs, a)) - Cardinality(AskedOf(qs, b)) \in -1 .. 1
<1> DEFINE L == Len(d)
           N == QuizQuestions
<1>1. /\ d \in Seq(Ids) /\ d # <<>> /\ Distinct(d) /\ DOMAIN d = 1 .. L
      /\ L \in Nat \ {0} /\ N \in Nat
  BY EmptySeq, QuizSizes DEF DrawnRight, AllDrawn
<1> HIDE DEF L
<1>2. \A e \in Values(d) : \E r \in 0 .. L - 1 : e = d[r + 1]
  <2> SUFFICES ASSUME NEW e \in Values(d) PROVE \E r \in 0 .. L - 1 : e = d[r + 1]
    OBVIOUS
  <2>1. PICK k \in 1 .. L : e = d[k]
    BY <1>1 DEF Values
  <2>2. k - 1 \in 0 .. L - 1 /\ (k - 1) + 1 = k
    BY <1>1
  <2> QED BY <2>1, <2>2
<1>3. \A r \in 0 .. L - 1 : AskedOf(qs, d[r + 1]) = Round(N, L, r)
  BY <1>1, AskedRound DEF L
<1>4. CASE rem = <<>>
  <2>1. Values(d) = Values(c)
    <3>1. Values(<<>>) = {}
      BY DEF Values
    <3> QED BY <1>4, <3>1 DEF DrawnRight
  <2>2. PICK r \in 0 .. L - 1 : a = d[r + 1]
    BY <1>2, <2>1
  <2>3. PICK s \in 0 .. L - 1 : b = d[s + 1]
    BY <1>2, <2>1
  <2>4. Cardinality(Round(N, L, r)) - Cardinality(Round(N, L, s)) \in -1 .. 1
    BY <1>1, RoundsEven
  <2> QED BY <1>3, <2>2, <2>3, <2>4
<1>5. CASE L = N
  <2>1. ASSUME NEW e PROVE Cardinality(AskedOf(qs, e)) \in {0, 1}
    <3>1. CASE e \in Values(d)
      <4>1. PICK r \in 0 .. L - 1 : e = d[r + 1]
        BY <1>2, <3>1
      <4>2. ASSUME NEW q \in 1 .. N PROVE (q - 1) % L = r <=> q = r + 1
        <5> DEFINE x == q - 1
        <5>1. x \in Nat /\ x \in 0 .. L - 1 /\ 0 \in Nat /\ x = L * 0 + x
          BY <1>1, <1>5
        <5> HIDE DEF x
        <5>2. x % L = x
          BY <1>1, <5>1, Remainder
        <5>3. x = r <=> q = r + 1
          BY <1>1 DEF x
        <5> QED BY <5>2, <5>3 DEF x
      <4>3. r + 1 \in 1 .. N
        BY <1>1, <1>5
      <4>4. Round(N, L, r) = {r + 1}
        <5> HIDE DEF N
        <5> QED BY <4>2, <4>3 DEF Round
      <4>5. Cardinality(Round(N, L, r)) = 1
        BY <4>4, FS_Singleton
      <4> QED BY <1>3, <4>1, <4>5
    <3>2. CASE e \notin Values(d)
      <4>1. \A q \in 1 .. N : qs[q].element # e
        <5> SUFFICES ASSUME NEW q \in 1 .. N PROVE qs[q].element # e
          OBVIOUS
        <5>1. q \in Nat \ {0} /\ qs[q].element = CircleOf(d, q)
          BY <1>1 DEF QuestionsAre
        <5>2. CircleOf(d, q) \in Values(d)
          BY <1>1, <5>1, CircleDrawn
        <5> QED BY <3>2, <5>1, <5>2
      <4>2. AskedOf(qs, e) = {}
        BY <4>1 DEF AskedOf
      <4> QED BY <4>2, FS_EmptySet
    <3> QED BY <3>1, <3>2
  <2> DEFINE x == Cardinality(AskedOf(qs, a))
             y == Cardinality(AskedOf(qs, b))
  <2>2. x \in {0, 1} /\ y \in {0, 1}
    BY <2>1
  <2> HIDE DEF x, y
  <2>3. x - y \in -1 .. 1
    BY <2>2
  <2> QED BY <2>3 DEF x, y
<1> QED BY <1>4, <1>5 DEF AllDrawn, L

----------------------------------------------------------------------------
(* The answers of a submission, in whatever order they are sent.            *)

LEMMA LengthIs ==
  ASSUME NEW m \in Nat, NEW S, NEW f \in [1 .. m -> S]
  PROVE  f \in Seq(S) /\ Len(f) = m
OBVIOUS

LEMMA OrderLength == ASSUME NEW order \in Quiz!Orderings PROVE Len(order) \in Nat
<1> DEFINE N == QuizQuestions
<1>1. N \in Nat /\ Quiz!Indexes = 1 .. N
  BY QuizSizes, QuizNames
<1>2. ASSUME NEW p \in Quiz!Orders PROVE p \in [1 .. N -> 1 .. N]
  BY <1>1 DEF Quiz!Orders
<1>3. \/ order \in Quiz!Orders
      \/ \E p \in Quiz!Orders : order = [p EXCEPT ![1] = p[2]]
      \/ \E p \in Quiz!Orders : order = [p EXCEPT ![1] = 0]
      \/ \E p \in Quiz!Orders : order = SubSeq(p, 1, N - 1)
  BY Zenon DEF Quiz!Orderings
<1> HIDE DEF N
<1>4. ASSUME NEW p \in Quiz!Orders, NEW v, order = [p EXCEPT ![1] = v] PROVE Len(order) \in Nat
  <2>1. order \in [1 .. N -> (1 .. N) \cup {v}]
    BY <1>2, <1>4
  <2> QED BY <1>1, <2>1, LengthIs
<1>5. ASSUME NEW p \in Quiz!Orders, order = SubSeq(p, 1, N - 1) PROVE Len(order) \in Nat
  <2>1. p \in Seq(1 .. N)
    BY <1>1, <1>2, LengthIs
  <2>2. SubSeq(p, 1, N - 1) \in Seq(1 .. N)
    <3>1. p \in [1 .. N -> 1 .. N]
      BY <1>2
    <3>2. \A i \in 1 .. N - 1 : p[i] \in 1 .. N
      BY <1>1, <3>1
    <3> QED BY <1>1, <2>1, <3>2, SubSeqProperties
  <2> QED BY <1>5, <2>2
<1>6. CASE order \in Quiz!Orders
  BY <1>1, <1>2, <1>6, LengthIs
<1> QED BY <1>3, <1>4, <1>5, <1>6

(* One answer to each question: the answer found for a question is its own. *)
OneEach(A, n) ==
  /\ DOMAIN A = 1 .. n
  /\ \A i \in 1 .. n : A[i].question \in 1 .. n
                        /\ \A j \in 1 .. i - 1 : A[j].question # A[i].question
AnswerTo(A, q) == CHOOSE x \in Values(A) : x.question = q

LEMMA AnswerFound ==
  ASSUME NEW n \in Nat, NEW A, OneEach(A, n), NEW q \in 1 .. n
  PROVE  \E i \in 1 .. n : A[i].question = q /\ AnswerTo(A, q) = A[i]
<1> DEFINE f == [i \in 1 .. n |-> A[i].question]
           T == 1 .. n
<1>0. /\ DOMAIN A = T
      /\ \A i \in T : A[i].question \in T /\ \A j \in 1 .. i - 1 : A[j].question # A[i].question
  BY DEF OneEach
<1>1. \A i, j \in T : f[i] = f[j] => i = j
  <2> SUFFICES ASSUME NEW i \in T, NEW j \in T, f[i] = f[j] PROVE i = j
    OBVIOUS
  <2>1. ~(j < i)
    BY <1>0
  <2>2. ~(i < j)
    BY <1>0
  <2> QED BY <2>1, <2>2
<1>2. f \in Injection(T, T)
  BY <1>0, <1>1 DEF Injection, IsInjective
<1>3. IsFiniteSet(T) /\ Cardinality(T) = n
  BY FS_Interval
<1> HIDE DEF T
<1>4. f \in Surjection(T, T)
  <2> HIDE DEF f
  <2> QED BY <1>2, <1>3, FS_Injection
<1>5. PICK i \in T : f[i] = q
  BY <1>4 DEF Surjection, T
<1>6. A[i].question = q /\ A[i] \in Values(A)
  BY <1>0, <1>5 DEF T, Values
<1>7. ASSUME NEW x \in Values(A), x.question = q PROVE x = A[i]
  <2>1. PICK j \in T : x = A[j]
    BY <1>0 DEF Values, T
  <2>2. f[j] = q
    BY <1>7, <2>1 DEF T
  <2> QED BY <1>1, <1>5, <2>1, <2>2 DEF T
<1>8. AnswerTo(A, q) = A[i]
  BY <1>6, <1>7, Zenon DEF AnswerTo
<1> QED BY <1>6, <1>8 DEF T

AnswersSent(order, kind) ==
  [i \in 1 .. Len(order) |->
     [question |-> order[i],
      chosen |-> IF order[i] = 0 THEN None ELSE Quiz!Choice(order[i], kind[order[i]])]]

ChoicesMade(kind) == [q \in 1 .. QuizQuestions |-> Quiz!Choice(q, kind[q])]

LEMMA ResultsOfAnswers ==
  ASSUME NEW order \in Quiz!Orderings, NEW kind, Quiz!Accepted(AnswersSent(order, kind))
  PROVE  Quiz!Results(AnswersSent(order, kind)) = ResultRows(quizQuestions, ChoicesMade(kind))
<1> DEFINE A == AnswersSent(order, kind)
           s == ChoicesMade(kind)
           n == Len(order)
           N == QuizQuestions
           chosenAt(i) == IF order[i] = 0 THEN None ELSE Quiz!Choice(order[i], kind[order[i]])
<1>1. n \in Nat /\ N \in Nat /\ Quiz!Indexes = 1 .. N
  BY OrderLength, QuizSizes, QuizNames
<1>2. /\ DOMAIN A = 1 .. n
      /\ \A i \in 1 .. n : A[i].question = order[i] /\ A[i].chosen = chosenAt(i)
  <2> DEFINE ans(i) == [question |-> order[i], chosen |-> chosenAt(i)]
  <2>1. A = [i \in 1 .. n |-> ans(i)]
    BY DEF AnswersSent
  <2>2. \A i : ans(i).question = order[i] /\ ans(i).chosen = chosenAt(i)
    <3> HIDE DEF chosenAt
    <3> QED OBVIOUS
  <2> HIDE DEF ans, chosenAt, n
  <2> QED BY <2>1, <2>2
<1> HIDE DEF chosenAt, n, A
<1>3. Len(A) = n
  <2> DEFINE S == {A[i] : i \in 1 .. n}
  <2>1. A \in [1 .. n -> S]
    <3>1. A = [i \in 1 .. n |-> A[i]]
      BY Zenon DEF n, A, AnswersSent
    <3> QED BY <3>1
  <2> HIDE DEF S
  <2> QED BY <1>1, <2>1, LengthIs
<1>4. n = N
  BY <1>3, Zenon DEF Quiz!Accepted, N, A
<1>5. \A i \in DOMAIN A : /\ A[i].question \in Quiz!Indexes
                         /\ \A j \in 1 .. i - 1 : A[j].question # A[i].question
  BY Zenon DEF Quiz!Accepted, A
<1>6. \A i \in 1 .. N : A[i].question \in 1 .. N /\ \A j \in 1 .. i - 1 : A[j].question # A[i].question
  BY <1>1, <1>2, <1>4, <1>5
<1> DEFINE found(q) == AnswerTo(A, q)
<1>70. \A q \in 1 .. N : s[q] = Quiz!Choice(q, kind[q])
  BY DEF ChoicesMade
<1> HIDE DEF s
<1>7. ASSUME NEW q \in 1 .. N PROVE found(q).chosen = s[q]
  <2>0. OneEach(A, N)
    BY <1>2, <1>4, <1>6 DEF OneEach
  <2>1. PICK i \in 1 .. N : A[i].question = q /\ found(q) = A[i]
    <3> HIDE DEF N
    <3> QED BY <1>1, <2>0, AnswerFound
  <2> HIDE DEF found
  <2>2. order[i] = q /\ A[i].chosen = chosenAt(i)
    BY <1>2, <1>4, <2>1
  <2>3. q # 0
    BY <1>1
  <2>4. chosenAt(i) = Quiz!Choice(q, kind[q])
    BY <2>2, <2>3, Zenon DEF chosenAt
  <2> QED BY <1>70, <2>1, <2>2, <2>4
<1>8. Quiz!Results(A) = [q \in Quiz!Indexes |->
                           [question |-> q, element |-> quizQuestions[q].element,
                            chosen |-> found(q).chosen,
                            correct |-> found(q).chosen = quizQuestions[q].element,
                            score |-> IF found(q).chosen = quizQuestions[q].element
                                        THEN Quiz!PointsPerHit ELSE 0]]
  BY Zenon DEF Quiz!Results, Quiz!ToSet, Values, AnswerTo
<1> HIDE DEF found
<1> DEFINE row(q) == [question |-> q, element |-> quizQuestions[q].element,
                      chosen |-> found(q).chosen,
                      correct |-> found(q).chosen = quizQuestions[q].element,
                      score |-> IF found(q).chosen = quizQuestions[q].element THEN 100 ELSE 0]
<1>9. Quiz!Results(A) = [q \in 1 .. N |-> row(q)]
  BY <1>1, <1>8, QuizNames
<1>10. \A q \in 1 .. N : row(q) = ResultRow(quizQuestions, s, q)
  BY <1>7 DEF ResultRow
<1> HIDE DEF row
<1> QED BY <1>9, <1>10 DEF ResultRows, N, A, s

----------------------------------------------------------------------------
(* The summary of results.                                                  *)

RightOnes(R) == {q \in 1 .. QuizQuestions : R[q].correct}

(* The count that calculateMaxStreak keeps, as a function of the place.     *)
CountOf(R, n, c) ==
  c = [i \in 0 .. n |-> IF i = 0 THEN <<0, 0>> ELSE Quiz!CountStreak(c[i - 1], R[i])]

LEMMA CountThere == ASSUME NEW R, NEW n \in Nat PROVE \E c : CountOf(R, n, c)
<1> DEFINE Q == {m \in Nat : \E c : CountOf(R, m, c)}
<1>1. 0 \in Q
  <2> DEFINE c == [i \in 0 .. 0 |-> <<0, 0>>]
  <2>1. \A i \in 0 .. 0 : i = 0
    OBVIOUS
  <2>2. CountOf(R, 0, c)
    BY <2>1 DEF CountOf
  <2> QED BY <2>2
<1>2. ASSUME NEW m \in Nat, m \in Q PROVE m + 1 \in Q
  <2>1. PICK g : CountOf(R, m, g)
    BY <1>2
  <2> DEFINE step(f, i) == IF i = 0 THEN <<0, 0>> ELSE Quiz!CountStreak(f[i - 1], R[i])
             h == [i \in 0 .. (m + 1) |-> step(g, i)]
  <2>2. \A i \in 0 .. m : g[i] = step(g, i) /\ i \in 0 .. (m + 1)
    <3>1. \A i \in 0 .. m : i \in 0 .. (m + 1)
      OBVIOUS
    <3>2. \A i \in 0 .. m : g[i] = step(g, i)
      <4> HIDE DEF step
      <4>1. g = [i \in 0 .. m |-> step(g, i)]
        BY <2>1, Zenon DEF CountOf, step
      <4> QED BY <4>1
    <3> QED BY <3>1, <3>2
  <2>3. \A i \in 0 .. m : h[i] = g[i]
    BY <2>2
  <2>4. \A i \in 0 .. (m + 1) : i # 0 => i - 1 \in 0 .. m
    OBVIOUS
  <2> HIDE DEF h
  <2>5. \A i \in 0 .. (m + 1) : step(g, i) = step(h, i)
    BY <2>3, <2>4
  <2>6. h = [i \in 0 .. (m + 1) |-> step(h, i)]
    <3> HIDE DEF step
    <3> QED BY <2>5 DEF h
  <2>7. CountOf(R, m + 1, h)
    BY <2>6, Zenon DEF CountOf
  <2> QED BY <2>7
<1>3. n \in Q
  <2> HIDE DEF Q
  <2> QED BY <1>1, <1>2, SetInduction
<1> QED BY <1>3

LEMMA StreakIsLongest ==
  ASSUME NEW R, DOMAIN R = 1 .. QuizQuestions, Len(R) = QuizQuestions
  PROVE  IsLongest(RightOnes(R), QuizQuestions, Quiz!MaxStreak(R))
<1> DEFINE N == QuizQuestions
           ok == RightOnes(R)
           c == CHOOSE f : CountOf(R, N, f)
<1>1. N \in Nat
  BY QuizSizes
<1>2. CountOf(R, N, c)
  BY <1>1, CountThere
<1>3. Quiz!MaxStreak(R) = c[N][2]
  BY Zenon DEF Quiz!MaxStreak, CountOf
<1> HIDE DEF c
<1>4. \A i \in 0 .. N : c[i] = IF i = 0 THEN <<0, 0>> ELSE Quiz!CountStreak(c[i - 1], R[i])
  <2> HIDE DEF N
  <2> QED BY <1>2 DEF CountOf
<1>5. CountsRuns(ok, N, c)
  <2>1. c[0] = <<0, 0>>
    BY <1>1, <1>4
  <2>2. ASSUME NEW i \in 0 .. N - 1
        PROVE  c[i + 1] = IF i + 1 \in ok
                    THEN <<c[i][1] + 1, IF c[i][1] + 1 > c[i][2] THEN c[i][1] + 1 ELSE c[i][2]>>
                    ELSE <<0, c[i][2]>>
    <3>1. i + 1 \in 0 .. N /\ i + 1 # 0 /\ (i + 1) - 1 = i /\ i + 1 \in 1 .. N
      BY <1>1
    <3>2. c[i + 1] = Quiz!CountStreak(c[i], R[i + 1])
      BY <1>4, <3>1
    <3>3. R[i + 1].correct <=> i + 1 \in ok
      BY <3>1 DEF RightOnes
    <3> HIDE DEF ok, N
    <3> QED BY <3>2, <3>3 DEF Quiz!CountStreak
  <2> QED BY <2>1, <2>2 DEF CountsRuns
<1> HIDE DEF ok
<1> QED BY <1>1, <1>3, <1>5, CountsLongest DEF ok

LEMMA SummaryIs ==
  ASSUME NEW qs, NEW s, NEW R, R = ResultRows(qs, s)
  PROVE  /\ Quiz!Summary(R).results = R
         /\ Quiz!Summary(R).totalScore = 100 * Cardinality(RightOnes(R))
         /\ Quiz!Summary(R).maxStreak = Quiz!MaxStreak(R)
         /\ IsLongest(RightOnes(R), QuizQuestions, Quiz!MaxStreak(R))
         /\ [Quiz!Summary(R) EXCEPT !.results = R] = Quiz!Summary(R)
<1> DEFINE N == QuizQuestions
           f == [q \in DOMAIN R |-> R[q].score]
<1>1. N \in Nat
  BY QuizSizes
<1>2. /\ DOMAIN R = 1 .. N
      /\ \A q \in 1 .. N : R[q].score = IF R[q].correct THEN 100 ELSE 0
  <2>1. \A q \in 1 .. N : R[q] = ResultRow(qs, s, q)
    BY DEF ResultRows
  <2>2. \A q : ResultRow(qs, s, q).score = IF ResultRow(qs, s, q).correct THEN 100 ELSE 0
    BY DEF ResultRow
  <2> QED BY <2>1, <2>2 DEF ResultRows
<1>3. Len(R) = N
  <2> DEFINE S == {R[q] : q \in 1 .. N}
  <2>1. R \in [1 .. N -> S]
    <3>1. R = [q \in 1 .. N |-> R[q]]
      BY DEF ResultRows
    <3> QED BY <3>1
  <2> HIDE DEF S
  <2> QED BY <1>1, <2>1, LengthIs
<1>4. Quiz!SumFunction(f) = 100 * Cardinality(RightOnes(R))
  <2>1. DOMAIN f = 1 .. N
    BY <1>2
  <2>2. Quiz!SumFunction(f) = SumFunctionOnSet(f, DOMAIN f)
    <3> HIDE DEF f
    <3> QED BY DEF Quiz!SumFunction, Quiz!SumFunctionOnSet, SumFunctionOnSet,
               Quiz!FoldFunctionOnSet, FoldFunctionOnSet, Quiz!MapThenFoldSet, MapThenFoldSet
  <2> DEFINE ok == RightOnes(R)
  <2>3. \A q \in 1 .. N : f[q] = IF q \in ok THEN 100 ELSE 0
    BY <1>2 DEF RightOnes
  <2>4. ok = {q \in 1 .. N : q \in ok}
    BY DEF RightOnes
  <2> HIDE DEF f, ok, N
  <2>5. 100 \in Nat
    OBVIOUS
  <2>6. SumFunctionOnSet(f, 1 .. N) = 100 * Cardinality({q \in 1 .. N : q \in ok})
    <3>1. Scored(f, N, ok, 100)
      BY <2>3 DEF Scored
    <3> QED BY <1>1, <2>5, <3>1, PointsSum
  <2> QED BY <2>1, <2>2, <2>4, <2>6 DEF ok
<1>5. IsLongest(RightOnes(R), N, Quiz!MaxStreak(R))
  BY <1>2, <1>3, StreakIsLongest
<1> DEFINE a == Quiz!Hits(R)
           b == Len(R)
           m == Quiz!MaxStreak(R)
           t == Quiz!SumFunction(f)
<1>6. Quiz!Summary(R) = [correctCount |-> a, totalCount |-> b, maxStreak |-> m, totalScore |-> t,
                         results |-> R]
  BY Zenon DEF Quiz!Summary
<1> HIDE DEF a, b, m, t
<1>7. /\ Quiz!Summary(R).results = R /\ Quiz!Summary(R).totalScore = t
      /\ Quiz!Summary(R).maxStreak = m
      /\ [Quiz!Summary(R) EXCEPT !.results = R] = Quiz!Summary(R)
  <2> DEFINE x == R
  <2>1. Quiz!Summary(R) = [correctCount |-> a, totalCount |-> b, maxStreak |-> m, totalScore |-> t,
                           results |-> x]
    BY <1>6
  <2> HIDE DEF x
  <2>2. /\ Quiz!Summary(R).results = x /\ Quiz!Summary(R).totalScore = t
        /\ Quiz!Summary(R).maxStreak = m
        /\ [Quiz!Summary(R) EXCEPT !.results = x] = Quiz!Summary(R)
    BY <2>1
  <2> QED BY <2>2 DEF x
<1> QED BY <1>4, <1>5, <1>7 DEF t, m

----------------------------------------------------------------------------
(* The steps of the game.                                                   *)

LEMMA StartKeepsQuiz == ASSUME QuizHolds, Quiz!Start PROVE QuizHolds'
<1>1. quizPhase = "start" /\ quizQuestions = <<>> /\ quizDrawn = <<>>
  BY DEF Quiz!Start, QuizHolds, QuizInv
<1>2. PICK list \in {[i \in 1 .. Band |-> i]} \cup WeakCandidates :
        IF list \in WeakCandidates /\ Len(list) < QuizMinWeak
          THEN quizPhase' = "refused" /\ UNCHANGED <<quizCandidates, quizRemaining>>
          ELSE quizPhase' = "draw" /\ quizCandidates' = list /\ quizRemaining' = list
  BY Zenon DEF Quiz!Start
<1>3. UNCHANGED <<quizDrawn, quizQuestions, quizSent, quizResults, quizSaved, quizRestored>>
  BY Zenon DEF Quiz!Start
<1>4. CASE list \in WeakCandidates /\ Len(list) < QuizMinWeak
  <2>1. quizPhase' = "refused" /\ quizCandidates' = quizCandidates /\ quizRemaining' = quizRemaining
    BY <1>2, <1>4
  <2> QED BY <1>1, <1>3, <2>1 DEF QuizHolds, QuizInv
<1>5. CASE ~(list \in WeakCandidates /\ Len(list) < QuizMinWeak)
  <2>1. quizPhase' = "draw" /\ quizCandidates' = list /\ quizRemaining' = list
    BY <1>2, <1>5, Zenon
  <2>2. list \in Seq(Ids) /\ Distinct(list) /\ Len(list) >= ChoiceCount
    BY <1>5, StartRight
  <2>3. DrawnRight(list, list, <<>>) /\ QuestionsAre(<<>>, <<>>, list)
    BY <2>2, NothingDrawn
  <2> QED BY <1>1, <1>3, <2>1, <2>2, <2>3 DEF QuizHolds, QuizInv
<1> QED BY <1>4, <1>5

LEMMA DrawKeepsQuiz == ASSUME QuizHolds, Quiz!Draw PROVE QuizHolds'
<1> DEFINE c == quizCandidates
           rem == quizRemaining
           d == quizDrawn
<1>1. quizPhase = "draw" /\ rem # <<>> /\ Len(d) < QuizQuestions
  BY Zenon DEF Quiz!Draw
<1>2. PICK i \in 1 .. Len(rem) : quizDrawn' = Append(d, rem[i]) /\ quizRemaining' = Quiz!RemoveAt(rem, i)
  BY Zenon DEF Quiz!Draw
<1>3. UNCHANGED <<quizPhase, quizCandidates, quizQuestions, quizSent, quizResults, quizSaved, quizRestored>>
  BY Zenon DEF Quiz!Draw
<1>4. /\ DrawnRight(c, rem, d) /\ QuestionsAre(quizQuestions, d, c)
      /\ Len(c) >= ChoiceCount
      /\ quizQuestions # <<>> => AllDrawn(rem, d)
  BY <1>1 DEF QuizHolds, QuizInv
<1>5. quizQuestions = <<>>
  <2>1. Len(d) # QuizQuestions
    BY <1>1, <1>4, QuizSizes DEF DrawnRight
  <2> QED BY <1>1, <1>4, <2>1 DEF AllDrawn
<1>6. DrawnRight(c, Cut(rem, i), Append(d, rem[i]))
  BY <1>1, <1>4, DrawRight
<1>7. quizRemaining' = Cut(rem, i)
  BY <1>2, QuizNames
<1>8. QuestionsAre(<<>>, quizDrawn', c)
  <2>1. <<>> \in Seq(AskedRecords) /\ Len(<<>>) = 0 /\ 0 <= QuizQuestions
    BY QuizSizes
  <2>2. \A q \in 1 .. Len(<<>>) : FALSE
    BY <2>1
  <2> QED BY <2>1, <2>2 DEF QuestionsAre
<1> QED BY <1>1, <1>2, <1>3, <1>4, <1>5, <1>6, <1>7, <1>8 DEF QuizHolds, QuizInv

LEMMA BuildKeepsQuiz == ASSUME QuizHolds, Quiz!BuildQuestion PROVE QuizHolds'
<1> DEFINE c == quizCandidates
           rem == quizRemaining
           d == quizDrawn
           qs == quizQuestions
           e == CircleOf(d, Len(qs) + 1)
<1>1. /\ quizPhase = "draw" /\ (rem = <<>> \/ Len(d) = QuizQuestions)
      /\ Len(qs) < QuizQuestions
      /\ quizPhase' = IF Len(quizQuestions') = QuizQuestions THEN "answer" ELSE quizPhase
      /\ UNCHANGED <<quizCandidates, quizRemaining, quizDrawn, quizSent, quizResults, quizSaved,
                     quizRestored>>
  BY Zenon DEF Quiz!BuildQuestion
<1>2. PICK at \in 1 .. ChoiceCount :
        quizQuestions' = Append(qs, [element |-> e, choices |-> Quiz!BuildChoices(e, at)])
  BY Zenon DEF Quiz!BuildQuestion, Quiz!Element, CircleOf
<1>3. /\ DrawnRight(c, rem, d) /\ QuestionsAre(qs, d, c) /\ Len(c) >= ChoiceCount
  BY <1>1 DEF QuizHolds, QuizInv
<1>4. AllDrawn(rem, d)
  <2>1. CASE Len(d) = QuizQuestions
    <3>1. Len(qs) \in Nat /\ QuizQuestions # 0
      BY <1>1, <1>3, QuizSizes DEF QuestionsAre
    <3>2. d # <<>>
      BY <2>1, <3>1
    <3> QED BY <2>1, <3>2 DEF AllDrawn
  <2>2. CASE rem = <<>>
    <3>1. Values(<<>>) = {}
      BY DEF Values
    <3>2. Values(d) = Values(c)
      BY <1>3, <2>2, <3>1 DEF DrawnRight
    <3>3. c \in Seq(Ids) /\ Len(c) \in Nat /\ Len(c) # 0
      BY <1>3, QuizSizes DEF DrawnRight
    <3>4. 1 \in DOMAIN c
      BY <3>3
    <3>5. c[1] \in Values(c)
      BY <3>4 DEF Values
    <3>6. d # <<>>
      BY <3>1, <3>2, <3>5
    <3> QED BY <2>2, <3>6 DEF AllDrawn
  <2> QED BY <1>1, <2>1, <2>2
<1> DEFINE ch == Put(SubSeq(Others(c, e), 1, ChoiceCount - 1), at, e)
           new == Append(qs, [element |-> e, choices |-> ch])
<1>5. quizQuestions' = new
  BY <1>2, QuizChoices
<1>6. QuestionsAre(new, d, c)
  <2> HIDE DEF c, rem, d, qs
  <2> QED BY <1>1, <1>3, <1>4, BuildRight
<1>7. new # <<>>
  <2>1. qs \in Seq(AskedRecords)
    BY <1>3 DEF QuestionsAre
  <2> HIDE DEF qs, ch, e
  <2>2. Len(new) = Len(qs) + 1 /\ Len(qs) \in Nat
    BY <2>1
  <2> HIDE DEF new
  <2> QED BY <2>2
<1> HIDE DEF new
<1>8. quizPhase' = "draw" \/ (quizPhase' = "answer" /\ Len(new) = QuizQuestions)
  BY <1>1, <1>5
<1> QED BY <1>1, <1>3, <1>4, <1>5, <1>6, <1>7, <1>8 DEF QuizHolds, QuizInv

LEMMA SubmitKeepsQuiz == ASSUME QuizHolds, Quiz!Submit PROVE QuizHolds'
<1>1. /\ quizPhase = "answer"
      /\ UNCHANGED <<quizCandidates, quizRemaining, quizDrawn, quizQuestions, quizRestored>>
  BY Zenon DEF Quiz!Submit
<1>2. PICK order \in Quiz!Orderings, kind \in [Quiz!Indexes -> {"right", "wrong", "none", "other"}] :
        IF Quiz!Accepted(AnswersSent(order, kind))
          THEN /\ quizPhase' = "saved"
               /\ quizSent' = [q \in Quiz!Indexes |-> Quiz!Choice(q, kind[q])]
               /\ quizResults' = Quiz!Summary(Quiz!Results(AnswersSent(order, kind)))
               /\ quizSaved' = {[index |-> q, row |-> Quiz!Results(AnswersSent(order, kind))[q]] : q \in Quiz!Indexes}
          ELSE quizPhase' = "invalid" /\ UNCHANGED <<quizSent, quizResults, quizSaved>>
  BY Zenon DEF Quiz!Submit, AnswersSent
<1>3. /\ DrawnRight(quizCandidates, quizRemaining, quizDrawn)
      /\ QuestionsAre(quizQuestions, quizDrawn, quizCandidates)
      /\ Len(quizCandidates) >= ChoiceCount /\ Len(quizQuestions) = QuizQuestions
      /\ quizQuestions # <<>> /\ AllDrawn(quizRemaining, quizDrawn)
  BY <1>1 DEF QuizHolds, QuizInv
<1>4. CASE Quiz!Accepted(AnswersSent(order, kind))
  <2> DEFINE A == AnswersSent(order, kind)
             R == ResultRows(quizQuestions, ChoicesMade(kind))
  <2>1. Quiz!Results(A) = R
    BY <1>4, ResultsOfAnswers
  <2>2. quizPhase' = "saved" /\ quizResults' = Quiz!Summary(R)
    BY <1>2, <1>4, <2>1
  <2>3. quizSent' = ChoicesMade(kind)
    BY <1>2, <1>4, QuizNames, Zenon DEF ChoicesMade
  <2>4. quizSaved' = Numbered(QuizQuestions, R)
    <3>1. quizSaved' = {[index |-> q, row |-> Quiz!Results(A)[q]] : q \in Quiz!Indexes}
      BY <1>2, <1>4, Zenon
    <3> QED BY <2>1, <3>1, QuizNames, Zenon DEF Numbered
  <2> HIDE DEF R
  <2>5. R = ResultRows(quizQuestions', quizSent')
    BY <1>1, <2>3 DEF R
  <2> QED BY <1>1, <1>3, <2>2, <2>4, <2>5 DEF QuizHolds, QuizInv
<1>5. CASE ~Quiz!Accepted(AnswersSent(order, kind))
  <2>1. quizPhase' = "invalid"
    BY <1>2, <1>5
  <2> QED BY <1>1, <1>3, <2>1 DEF QuizHolds, QuizInv
<1> QED BY <1>4, <1>5

LEMMA RestoreKeepsQuiz == ASSUME QuizHolds, Quiz!Restore PROVE QuizHolds'
<1> DEFINE N == QuizQuestions
           R == ResultRows(quizQuestions, quizSent)
           read == [i \in 1 .. Cardinality(quizSaved) |-> RowAt(quizSaved, i).row]
<1>1. /\ quizPhase = "saved" /\ quizPhase' = "restored"
      /\ UNCHANGED <<quizCandidates, quizRemaining, quizDrawn, quizQuestions, quizSent, quizResults,
                     quizSaved>>
  BY Zenon DEF Quiz!Restore
<1>2. quizRestored' = [quizResults EXCEPT !.results = read]
  BY Zenon DEF Quiz!Restore, RowAt, Quiz!Cardinality, Cardinality
<1>3. quizResults = Quiz!Summary(R) /\ quizSaved = Numbered(N, R)
  BY <1>1 DEF QuizHolds, QuizInv
<1>4. Cardinality(quizSaved) = N /\ \A i \in 1 .. N : RowAt(quizSaved, i).row = R[i]
  <2>1. N \in Nat
    BY QuizSizes
  <2> HIDE DEF R, N
  <2> QED BY <1>3, <2>1, NumberedSorted
<1>5. read = R
  <2>1. R = [i \in 1 .. N |-> R[i]]
    BY DEF ResultRows
  <2> HIDE DEF R, N
  <2> QED BY <1>4, <2>1
<1>6. quizRestored' = quizResults
  <2>1. [Quiz!Summary(R) EXCEPT !.results = R] = Quiz!Summary(R)
    BY SummaryIs
  <2> HIDE DEF read, R
  <2> QED BY <1>2, <1>3, <1>5, <2>1
<1> HIDE DEF R, read
<1> QED BY <1>1, <1>6 DEF QuizHolds, QuizInv

LEMMA QuizPartNext ==
  ASSUME which \in {"accounts", "turn", "race", "twice", "quiz", "streak", "scan", "ranking",
                   "responses"},
         QuizPart, [AllNext]_allVars
  PROVE  QuizPart'
<1>1. which' = which /\ (which = "quiz" => Quiz!Next \/ UNCHANGED quizVars)
  BY DEF AllNext, allVars
<1> SUFFICES ASSUME which = "quiz", Quiz!Next \/ UNCHANGED quizVars, QuizHolds PROVE QuizHolds'
  BY <1>1 DEF QuizPart
<1>2. CASE UNCHANGED quizVars
  BY <1>2 DEF quizVars, QuizHolds, QuizInv
<1>3. CASE Quiz!Start
  BY <1>3, StartKeepsQuiz
<1>4. CASE Quiz!Draw
  BY <1>4, DrawKeepsQuiz
<1>5. CASE Quiz!BuildQuestion
  BY <1>5, BuildKeepsQuiz
<1>6. CASE Quiz!Submit
  BY <1>6, SubmitKeepsQuiz
<1>7. CASE Quiz!Restore
  BY <1>7, RestoreKeepsQuiz
<1> QED BY <1>2, <1>3, <1>4, <1>5, <1>6, <1>7 DEF Quiz!Next

LEMMA QuizPartMeans == QuizPart /\ which = "quiz" => Quiz!FairAndRight
<1> DEFINE N == QuizQuestions
           qs == quizQuestions
           R == ResultRows(quizQuestions, quizSent)
           ok == RightOnes(R)
<1> SUFFICES ASSUME QuizHolds PROVE Quiz!FairAndRight
  BY DEF QuizPart
<1>1. N \in Nat /\ Quiz!Indexes = 1 .. N
  BY QuizSizes, QuizNames
<1>2. ASSUME quizPhase \in {"answer", "saved", "restored"}
      PROVE  /\ \A a, b \in Quiz!ToSet(quizCandidates) : Quiz!Times(a) - Quiz!Times(b) \in -1 .. 1
             /\ \A q \in Quiz!Indexes :
                  /\ Quiz!Cardinality(Quiz!ToSet(qs[q].choices)) = ChoiceCount
                  /\ Len(qs[q].choices) = ChoiceCount
                  /\ Quiz!ToSet(qs[q].choices) \subseteq Quiz!ToSet(quizCandidates)
                  /\ qs[q].element \in Quiz!ToSet(qs[q].choices)
  <2>1. /\ DrawnRight(quizCandidates, quizRemaining, quizDrawn)
        /\ QuestionsAre(qs, quizDrawn, quizCandidates)
        /\ AllDrawn(quizRemaining, quizDrawn) /\ Len(qs) = N
    BY <1>2 DEF QuizHolds, QuizInv
  <2>2. \A a : Quiz!Times(a) = Cardinality(AskedOf(qs, a))
    BY Zenon DEF Quiz!Times, AskedOf, Quiz!Indexes, Quiz!Cardinality, Cardinality
  <2> HIDE DEF qs, N
  <2>3. \A a, b \in Values(quizCandidates) :
          Cardinality(AskedOf(qs, a)) - Cardinality(AskedOf(qs, b)) \in -1 .. 1
    BY <2>1, AskedEvenly DEF N
  <2>4. \A q \in 1 .. N : ChosenFairly(qs[q].choices, qs[q].element, quizCandidates)
    BY <2>1 DEF QuestionsAre
  <2>5. \A q \in 1 .. N : /\ Cardinality(Values(qs[q].choices)) = ChoiceCount
                          /\ Len(qs[q].choices) = ChoiceCount
                          /\ Values(qs[q].choices) \subseteq Values(quizCandidates)
                          /\ qs[q].element \in Values(qs[q].choices)
    BY <2>4 DEF ChosenFairly
  <2> QED BY <1>1, <2>2, <2>3, <2>5, QuizNames
<1>3. ASSUME quizPhase \in {"saved", "restored"}
      PROVE  /\ \A q \in Quiz!Indexes :
                  /\ quizResults.results[q].element = qs[q].element
                  /\ quizResults.results[q].chosen = quizSent[q]
                  /\ quizResults.results[q].correct <=> quizSent[q] = qs[q].element
             /\ quizResults.totalScore
                  = Quiz!PointsPerHit
                      * Quiz!Cardinality({q \in Quiz!Indexes : quizResults.results[q].correct})
             /\ quizResults.maxStreak =
                  CHOOSE n \in 0 .. N :
                    /\ n = 0 \/ \E q \in Quiz!Indexes :
                                  q + n - 1 <= N /\ Quiz!Run(quizResults.results, q, q + n - 1)
                    /\ \A q \in Quiz!Indexes : q + n <= N => ~Quiz!Run(quizResults.results, q, q + n)
  <2> DEFINE m == Quiz!MaxStreak(R)
             longest(n) ==
               /\ n = 0 \/ \E q \in 1 .. N : q + n - 1 <= N /\ Quiz!Run(R, q, q + n - 1)
               /\ \A q \in 1 .. N : q + n <= N => ~Quiz!Run(R, q, q + n)
  <2>1. quizResults = Quiz!Summary(R)
    BY <1>3 DEF QuizHolds, QuizInv
  <2>2. /\ Quiz!Summary(R).results = R
        /\ Quiz!Summary(R).totalScore = 100 * Cardinality(ok)
        /\ Quiz!Summary(R).maxStreak = m /\ IsLongest(ok, N, m)
    BY SummaryIs
  <2>3. quizResults.results = R /\ quizResults.totalScore = 100 * Cardinality(ok) /\ quizResults.maxStreak = m
    BY <2>1, <2>2, Zenon
  <2>4. ASSUME NEW q \in 1 .. N
        PROVE  /\ R[q].element = qs[q].element /\ R[q].chosen = quizSent[q]
               /\ R[q].correct <=> quizSent[q] = qs[q].element
    <3> DEFINE b == quizSent[q] = qs[q].element
               e == qs[q].element
               g == quizSent[q]
               p == IF b THEN 100 ELSE 0
    <3>1. R[q] = [question |-> q, element |-> e, chosen |-> g, correct |-> b, score |-> p]
      BY DEF ResultRows, ResultRow
    <3> HIDE DEF b, e, g, p, R
    <3>2. R[q].element = e /\ R[q].chosen = g /\ R[q].correct = b
      BY <3>1
    <3> QED BY <3>2, Zenon DEF b, e, g
  <2>5. ok = {q \in 1 .. N : R[q].correct}
    BY DEF RightOnes
  <2> HIDE DEF R, m, ok, N
  <2>6. \A q \in 1 .. N : q \in ok <=> R[q].correct
    BY <2>5
  <2>7. ASSUME NEW q \in 1 .. N, NEW l \in Int, l <= N PROVE Quiz!Run(R, q, l) <=> q .. l \subseteq ok
    <3>1. \A j \in q .. l : j \in 1 .. N
      BY <1>1, <2>7
    <3>2. Quiz!Run(R, q, l) <=> \A j \in q .. l : R[j].correct
      BY DEF Quiz!Run
    <3> QED BY <2>6, <3>1, <3>2
  <2>8. ASSUME NEW n \in 0 .. N PROVE longest(n) <=> IsLongest(ok, N, n)
    <3>1. \A q \in 1 .. N : q + n - 1 <= N => (Quiz!Run(R, q, q + n - 1) <=> q .. (q + n - 1) \subseteq ok)
      <4> SUFFICES ASSUME NEW q \in 1 .. N, q + n - 1 <= N
                   PROVE  Quiz!Run(R, q, q + n - 1) <=> q .. (q + n - 1) \subseteq ok
        OBVIOUS
      <4>1. q + n - 1 \in Int
        BY <1>1
      <4> QED BY <2>7, <4>1
    <3>2. \A q \in 1 .. N : q + n <= N => (Quiz!Run(R, q, q + n) <=> q .. (q + n) \subseteq ok)
      <4> SUFFICES ASSUME NEW q \in 1 .. N, q + n <= N
                   PROVE  Quiz!Run(R, q, q + n) <=> q .. (q + n) \subseteq ok
        OBVIOUS
      <4>1. q + n \in Int
        BY <1>1
      <4> QED BY <2>7, <4>1
    <3> QED BY <3>1, <3>2, Zenon DEF IsLongest
  <2>9. m \in 0 .. N
    BY <2>2 DEF IsLongest
  <2> HIDE DEF longest
  <2>10. longest(m) /\ \A n \in 0 .. N : longest(n) => n = m
    BY <1>1, <2>2, <2>8, <2>9, LongestOnce
  <2>11. m = CHOOSE n \in 0 .. N : longest(n)
    BY <2>9, <2>10, Zenon
  <2>12. 100 * Cardinality(ok)
           = Quiz!PointsPerHit * Quiz!Cardinality({q \in Quiz!Indexes : quizResults.results[q].correct})
    BY <1>1, <2>3, <2>5, QuizNames
  <2> QED BY <1>1, <2>3, <2>4, <2>11, <2>12, Zenon DEF longest
<1>4. quizPhase = "restored" => quizRestored = quizResults
  BY DEF QuizHolds, QuizInv
<1> QED BY <1>2, <1>3, <1>4, Zenon DEF Quiz!FairAndRight

----------------------------------------------------------------------------
(* The login streak.                                                        *)

StreakRow == [streak : Nat, last : Nat]

(* The login days that may lengthen a streak.                               *)
Earning(logins, active) == {d \in logins : d - 1 \in active}

(* What is true of a row, as it is and as a login under way has read it.    *)
RowEarned(row, logins, active, late) ==
  row # None =>
    /\ row \in StreakRow /\ row.last \in active
    /\ ~late => /\ \A d \in logins : d <= row.last
              /\ row.streak <= 1 + Cardinality(Earning(logins, active))

StreakInv ==
  /\ streakDay \in Nat /\ IsFiniteSet(streakLogins) /\ streakLogins \subseteq 0 .. streakDay
  /\ streakGames \subseteq Nat /\ streakActive \subseteq Int /\ streakLate \in BOOLEAN
  /\ RowEarned(streakStats, streakLogins, streakActive, streakLate)
  /\ streakStats = None => streakLogins = {}
  /\ streakRead # None =>
       /\ streakRead.today \in 0 .. streakDay
       /\ RowEarned(streakRead.stats, streakLogins, streakActive, streakLate)
       /\ streakRead.stats # None =>
            /\ streakStats # None
            /\ ~streakLate => streakStats.last >= streakRead.stats.last

StreakPart == which = "streak" => StreakInv

LEMMA StreakMarker == None \notin StreakRow
BY InstancesAssumption DEF Streak!LoginStreakAssumption, StreakRow

LEMMA StreakPartInit == AllInit => StreakPart
<1> SUFFICES ASSUME AllInit, which = "streak" PROVE StreakInv
  BY DEF StreakPart
<1>1. Streak!Init
  BY DEF AllInit
<1> QED BY <1>1, FS_EmptySet DEF Streak!Init, StreakInv, RowEarned

(* More logins and more active days earn no less, and a day of its own more. *)
LEMMA EarningGrows ==
  ASSUME NEW L, IsFiniteSet(L), L \subseteq Int, NEW A, NEW M, IsFiniteSet(M), NEW B,
         L \subseteq M, A \subseteq B
  PROVE  /\ Cardinality(Earning(L, A)) \in Nat /\ Cardinality(Earning(M, B)) \in Nat
         /\ Cardinality(Earning(L, A)) <= Cardinality(Earning(M, B))
         /\ \A d \in M : d \notin L /\ d - 1 \in B =>
              Cardinality(Earning(L, A)) + 1 <= Cardinality(Earning(M, B))
<1> DEFINE S == Earning(L, A)
           T == Earning(M, B)
<1>1. S \subseteq L /\ T \subseteq M /\ S \subseteq T
  BY Zenon DEF Earning
<1>2. ASSUME NEW d \in M, d \notin L, d - 1 \in B PROVE d \in T /\ d \notin S
  BY <1>2, Zenon DEF Earning
<1> HIDE DEF S, T
<1>3. IsFiniteSet(S) /\ IsFiniteSet(T)
  BY <1>1, FS_Subset
<1>4. Cardinality(S) \in Nat /\ Cardinality(T) \in Nat /\ Cardinality(S) <= Cardinality(T)
  BY <1>1, <1>3, FS_CardinalityType, FS_Subset
<1>5. ASSUME NEW d \in M, d \notin L, d - 1 \in B PROVE Cardinality(S) + 1 <= Cardinality(T)
  <2>1. d \in T /\ d \notin S
    BY <1>2, <1>5
  <2>2. S \cup {d} \subseteq T
    BY <1>1, <2>1
  <2>3. IsFiniteSet(S \cup {d}) /\ Cardinality(S \cup {d}) = Cardinality(S) + 1
    BY <1>3, <2>1, FS_AddElement
  <2> QED BY <1>3, <2>2, <2>3, FS_Subset
<1> QED BY <1>4, <1>5 DEF S, T

(* What is true of a row stays true beside new logins of no later day.      *)
LEMMA RowStays ==
  ASSUME NEW row, NEW L, IsFiniteSet(L), L \subseteq Int, NEW A, NEW late,
         RowEarned(row, L, A, late),
         NEW M, IsFiniteSet(M), NEW B, NEW later,
         L \subseteq M, A \subseteq B, late => later,
         row # None /\ ~later => \A d \in M \ L : d <= row.last
  PROVE  RowEarned(row, M, B, later)
<1> SUFFICES ASSUME row # None PROVE RowEarned(row, M, B, later)
  BY DEF RowEarned
<1>1. row \in StreakRow /\ row.last \in B
  BY DEF RowEarned
<1>2. ASSUME ~later PROVE \A d \in M : d <= row.last
  BY <1>2 DEF RowEarned
<1>3. ASSUME ~later PROVE row.streak <= 1 + Cardinality(Earning(M, B))
  <2>1. row.streak <= 1 + Cardinality(Earning(L, A))
    BY <1>3 DEF RowEarned
  <2>2. /\ Cardinality(Earning(L, A)) \in Nat /\ Cardinality(Earning(M, B)) \in Nat
        /\ Cardinality(Earning(L, A)) <= Cardinality(Earning(M, B))
    BY EarningGrows
  <2>3. row.streak \in Nat
    BY <1>1 DEF StreakRow
  <2> QED BY <2>1, <2>2, <2>3
<1> QED BY <1>1, <1>2, <1>3 DEF RowEarned

LEMMA RowStaysActive ==
  ASSUME NEW row, NEW L, IsFiniteSet(L), L \subseteq Int, NEW A, NEW late,
         RowEarned(row, L, A, late), NEW B, A \subseteq B
  PROVE  RowEarned(row, L, B, late)
<1>1. CASE late
  BY <1>1 DEF RowEarned
<1>2. CASE ~late
  <2>1. /\ Cardinality(Earning(L, A)) \in Nat /\ Cardinality(Earning(L, B)) \in Nat
        /\ Cardinality(Earning(L, A)) <= Cardinality(Earning(L, B))
    BY EarningGrows
  <2>2. row # None => /\ row.streak \in Nat /\ row.last \in B
                      /\ row \in StreakRow /\ \A d \in L : d <= row.last
                      /\ row.streak <= 1 + Cardinality(Earning(L, A))
    BY <1>2 DEF RowEarned, StreakRow
  <2>3. row # None => row.streak <= 1 + Cardinality(Earning(L, B))
    BY <2>1, <2>2
  <2> QED BY <2>2, <2>3 DEF RowEarned
<1> QED BY <1>1, <1>2

(* The row a login writes, from the row it has read.                        *)
LEMMA NewRowEarned ==
  ASSUME StreakInv, streakRead # None, NEW day \in Nat, day >= streakRead.today, streakDay = day,
         NEW L, L = streakLogins \cup {streakRead.today},
         NEW A, A = streakActive \cup {streakRead.today, streakDay},
         ~(streakRead.stats # None /\ streakRead.stats.last = streakRead.today),
         NEW row, row = [streak |-> Streak!NewStreak(streakRead.today, streakRead.stats), last |-> day]
  PROVE  RowEarned(row, L, A, streakLate)
<1> DEFINE old == streakRead.stats
           today == streakRead.today
           streak == Streak!NewStreak(today, old)
<1>1. today \in 0 .. day /\ IsFiniteSet(streakLogins) /\ streakLogins \subseteq 0 .. day
  BY DEF StreakInv
<1>2. RowEarned(old, streakLogins, streakActive, streakLate)
  BY DEF StreakInv
<1> HIDE DEF old, today
<1>3. IsFiniteSet(L) /\ L \subseteq 0 .. day
  BY <1>1, FS_AddElement DEF today
<1>4. Cardinality(Earning(L, A)) \in Nat
  BY <1>1, <1>3, EarningGrows
<1>5. streak = IF old # None /\ today - old.last = 1 THEN old.streak + 1 ELSE 1
  BY DEF Streak!NewStreak
<1>6. streak \in Nat
  <2>1. old # None => old.streak \in Nat
    BY <1>2 DEF RowEarned, StreakRow
  <2> QED BY <1>5, <2>1
<1>7. ASSUME ~streakLate PROVE streak <= 1 + Cardinality(Earning(L, A))
  <2>1. CASE old # None /\ today - old.last = 1
    <3>1. /\ old.streak \in Nat /\ old.last \in streakActive /\ old.last \in Nat
          /\ \A d \in streakLogins : d <= old.last
          /\ old.streak <= 1 + Cardinality(Earning(streakLogins, streakActive))
      BY <1>2, <1>7, <2>1 DEF RowEarned, StreakRow
    <3>2. today - 1 = old.last /\ today \in Int
      BY <1>1, <2>1, <3>1
    <3>3. today \notin streakLogins
      BY <3>1, <3>2
    <3>4. today \in L /\ today - 1 \in A /\ streakLogins \subseteq L /\ streakActive \subseteq A
      BY <3>1, <3>2 DEF today
    <3>5. /\ Cardinality(Earning(streakLogins, streakActive)) \in Nat
          /\ Cardinality(Earning(streakLogins, streakActive)) + 1 <= Cardinality(Earning(L, A))
      BY <1>1, <1>3, <3>3, <3>4, EarningGrows
    <3>6. streak = old.streak + 1
      BY <1>5, <2>1
    <3> HIDE DEF streak
    <3> QED BY <1>4, <3>1, <3>5, <3>6
  <2>2. CASE ~(old # None /\ today - old.last = 1)
    BY <1>4, <1>5, <2>2
  <2> QED BY <2>1, <2>2
<1>8. row = [streak |-> streak, last |-> day]
  BY DEF streak, old, today
<1> HIDE DEF streak
<1>9. row \in StreakRow /\ row.last = day /\ row.streak = streak /\ day \in A
  BY <1>6, <1>8 DEF StreakRow
<1>10. \A d \in L : d <= day
  BY <1>3
<1> QED BY <1>7, <1>9, <1>10 DEF RowEarned

LEMMA LoginReadStep ==
  ASSUME StreakInv, Streak!LoginRead
  PROVE  StreakInv'
<1> USE DEF Streak!LoginRead
<1>1. streakRead' = [today |-> streakDay, stats |-> streakStats] /\ UNCHANGED <<streakDay, streakStats, streakGames, streakLogins, streakActive, streakLate>>
  OBVIOUS
<1>2. streakRead'.today = streakDay /\ streakRead'.stats = streakStats
  BY <1>1
<1>3. streakStats # None => streakStats \in StreakRow /\ streakStats.last \in Nat
  BY DEF StreakInv, RowEarned, StreakRow
<1>4. /\ streakDay \in Nat /\ RowEarned(streakStats, streakLogins, streakActive, streakLate)
  BY DEF StreakInv
<1>5. streakRead' # None =>
       /\ streakRead'.today \in 0 .. streakDay
       /\ RowEarned(streakRead'.stats, streakLogins, streakActive, streakLate)
       /\ streakRead'.stats # None =>
            /\ streakStats # None
            /\ ~streakLate => streakStats.last >= streakRead'.stats.last
  BY <1>2, <1>3, <1>4
<1> QED BY <1>1, <1>5 DEF StreakInv

LEMMA LoginWriteStep ==
  ASSUME StreakInv, Streak!LoginWrite
  PROVE  StreakInv'
<1> DEFINE today == streakRead.today
           old == streakRead.stats
<1>1. /\ streakRead # None /\ streakRead' = None
      /\ streakLogins' = streakLogins \cup {today}
      /\ streakActive' = streakActive \cup {today, streakDay}
      /\ UNCHANGED <<streakDay, streakGames, streakLate>>
  BY DEF Streak!LoginWrite
<1>2. /\ today \in 0 .. streakDay /\ streakDay \in Nat /\ IsFiniteSet(streakLogins)
      /\ streakLogins \subseteq 0 .. streakDay /\ streakActive \subseteq Int
      /\ streakGames \subseteq Nat /\ streakLate \in BOOLEAN
      /\ RowEarned(streakStats, streakLogins, streakActive, streakLate)
      /\ RowEarned(old, streakLogins, streakActive, streakLate)
  BY <1>1 DEF StreakInv
<1>3. IsFiniteSet(streakLogins') /\ streakLogins' \subseteq 0 .. streakDay /\ streakActive' \subseteq Int
  <2>1. today \in Int /\ streakDay \in Int
    BY <1>2
  <2> HIDE DEF today
  <2>2. IsFiniteSet(streakLogins')
    BY <1>1, <1>2, FS_AddElement
  <2> QED BY <1>1, <1>2, <2>1, <2>2
<1>4. CASE old # None /\ old.last = today
  <2>1. streakStats' = streakStats
    BY <1>4 DEF Streak!LoginWrite
  <2>2. streakStats # None /\ (~streakLate => streakStats.last >= today)
    BY <1>1, <1>4 DEF StreakInv
  <2>3. RowEarned(streakStats, streakLogins', streakActive', streakLate)
    <3>1. streakLogins \subseteq Int /\ streakLogins \subseteq streakLogins'
          /\ streakActive \subseteq streakActive'
      BY <1>1, <1>2
    <3>2. ~streakLate => \A d \in streakLogins' \ streakLogins : d <= streakStats.last
      <4>1. ~streakLate => today <= streakStats.last
        <5>1. streakStats.last \in Nat
          BY <1>2, <2>2 DEF RowEarned, StreakRow
        <5> QED BY <1>2, <2>2, <5>1
      <4> HIDE DEF today
      <4> QED BY <1>1, <4>1
    <3> QED BY <1>2, <1>3, <3>1, <3>2, RowStays
  <2> QED BY <1>1, <1>2, <1>3, <2>1, <2>2, <2>3 DEF StreakInv
<1>5. CASE ~(old # None /\ old.last = today)
  <2> DEFINE row == [streak |-> Streak!NewStreak(today, old), last |-> streakDay]
  <2>1. streakStats' = row
    BY <1>5 DEF Streak!LoginWrite
  <2>2. RowEarned(row, streakLogins', streakActive', streakLate)
    <3>1. streakDay >= streakRead.today
      BY <1>2
    <3>2. ~(streakRead.stats # None /\ streakRead.stats.last = streakRead.today)
      BY <1>5
    <3>3. RowEarned(row, streakLogins \cup {streakRead.today}, streakActive \cup {streakRead.today, streakDay}, streakLate)
      BY <1>1, <1>2, <3>1, <3>2, NewRowEarned
    <3> QED BY <1>1, <3>3
  <2>3. row # None
    <3>1. \A n \in Nat : n + 1 \in Nat
      OBVIOUS
    <3>2. Streak!NewStreak(today, old) \in Nat
      <4>1. old # None => old.streak \in Nat
        BY <1>2 DEF RowEarned, StreakRow
      <4> QED BY <3>1, <4>1 DEF Streak!NewStreak
    <3>3. row \in StreakRow
      BY <1>2, <3>2 DEF StreakRow
    <3> QED BY <3>3, StreakMarker
  <2> HIDE DEF row
  <2> QED BY <1>1, <1>2, <1>3, <2>1, <2>2, <2>3 DEF StreakInv
<1> QED BY <1>4, <1>5

LEMMA GameSavedStep ==
  ASSUME StreakInv, NEW now \in streakGames, Streak!GameSaved(now)
  PROVE  StreakInv'
<1>1. /\ streakGames' = streakGames \ {now} /\ streakActive' = streakActive \cup {now}
      /\ streakLate' = (streakLate \/ (streakStats # None /\ now < streakStats.last))
      /\ streakStats' = IF streakStats = None THEN [streak |-> 0, last |-> now]
                        ELSE [streakStats EXCEPT !.last = now]
      /\ UNCHANGED <<streakDay, streakRead, streakLogins>>
  BY DEF Streak!GameSaved
<1>2. /\ streakDay \in Nat /\ IsFiniteSet(streakLogins) /\ streakLogins \subseteq 0 .. streakDay
      /\ streakGames \subseteq Nat /\ streakActive \subseteq Int /\ now \in Nat
      /\ RowEarned(streakStats, streakLogins, streakActive, streakLate)
      /\ streakStats = None => streakLogins = {}
  BY DEF StreakInv
<1>3. streakLogins \subseteq Int /\ streakActive \subseteq streakActive' /\ now \in streakActive'
      /\ streakActive' \subseteq Int /\ streakGames' \subseteq Nat /\ (streakLate => streakLate')
      /\ streakLate' \in BOOLEAN
  <2>1. streakLate' \in BOOLEAN /\ (streakLate => streakLate')
    <3>1. streakLate \in BOOLEAN
      BY DEF StreakInv
    <3> QED BY <1>1, <3>1, Zenon
  <2> QED BY <1>1, <1>2, <2>1
<1>4. streakStats # None => streakStats \in StreakRow
  BY <1>2 DEF RowEarned
<1>5. /\ streakStats' \in StreakRow /\ streakStats'.last = now
      /\ streakStats'.streak = IF streakStats = None THEN 0 ELSE streakStats.streak
  BY <1>1, <1>2, <1>4 DEF StreakRow
<1>6. streakStats' # None
  BY <1>5, StreakMarker
<1>7. ~streakLate' => ~streakLate /\ (streakStats # None => now >= streakStats.last)
  <2> SUFFICES ASSUME ~streakLate' PROVE ~streakLate /\ (streakStats # None => now >= streakStats.last)
    OBVIOUS
  <2>1. ~streakLate /\ ~(streakStats # None /\ now < streakStats.last)
    BY <1>1, Zenon
  <2>2. streakStats # None => streakStats.last \in Nat
    BY <1>4 DEF StreakRow
  <2> QED BY <1>2, <2>1, <2>2
<1>8. RowEarned(streakStats', streakLogins', streakActive', streakLate')
  <2>1. ASSUME ~streakLate' PROVE \A d \in streakLogins : d <= now
    <3>1. CASE streakStats = None
      BY <1>2, <3>1
    <3>2. CASE streakStats # None
      <4>1. streakStats.last \in Nat /\ \A d \in streakLogins : d <= streakStats.last
        BY <1>2, <1>4, <1>7, <2>1, <3>2 DEF RowEarned, StreakRow
      <4> QED BY <1>2, <1>3, <1>7, <2>1, <3>2, <4>1
    <3> QED BY <3>1, <3>2
  <2>2. ASSUME ~streakLate'
        PROVE  streakStats'.streak <= 1 + Cardinality(Earning(streakLogins, streakActive'))
    <3>1. /\ Cardinality(Earning(streakLogins, streakActive)) \in Nat
          /\ Cardinality(Earning(streakLogins, streakActive')) \in Nat
          /\ Cardinality(Earning(streakLogins, streakActive))
               <= Cardinality(Earning(streakLogins, streakActive'))
      BY <1>2, <1>3, EarningGrows
    <3>2. CASE streakStats = None
      BY <1>5, <3>1, <3>2
    <3>3. CASE streakStats # None
      <4>1. streakStats.streak \in Nat
            /\ streakStats.streak <= 1 + Cardinality(Earning(streakLogins, streakActive))
        BY <1>2, <1>4, <1>7, <2>2, <3>3 DEF RowEarned, StreakRow
      <4>2. streakStats'.streak = streakStats.streak
        BY <1>5, <3>3
      <4> QED BY <3>1, <4>1, <4>2
    <3> QED BY <3>2, <3>3
  <2> QED BY <1>1, <1>3, <1>5, <2>1, <2>2 DEF RowEarned
<1>9. ASSUME streakRead # None
      PROVE  /\ streakRead.today \in 0 .. streakDay
             /\ RowEarned(streakRead.stats, streakLogins', streakActive', streakLate')
             /\ streakRead.stats # None =>
                  (~streakLate' => streakStats'.last >= streakRead.stats.last)
  <2>1. /\ streakRead.today \in 0 .. streakDay
        /\ RowEarned(streakRead.stats, streakLogins, streakActive, streakLate)
        /\ streakRead.stats # None =>
             /\ streakStats # None
             /\ ~streakLate => streakStats.last >= streakRead.stats.last
    BY <1>9 DEF StreakInv
  <2>2. RowEarned(streakRead.stats, streakLogins, streakActive', streakLate')
    <3>1. CASE streakLate
      <4>1. streakLate'
        BY <1>3, <3>1
      <4> QED BY <2>1, <1>3, <4>1 DEF RowEarned
    <3>2. CASE ~streakLate
      <4>1. RowEarned(streakRead.stats, streakLogins, streakActive, FALSE)
        BY <2>1, <3>2 DEF RowEarned
      <4>2. RowEarned(streakRead.stats, streakLogins, streakActive', FALSE)
        BY <1>2, <1>3, <4>1, RowStaysActive
      <4> QED BY <4>2 DEF RowEarned
    <3> QED BY <3>1, <3>2
  <2>3. ASSUME streakRead.stats # None, ~streakLate' PROVE streakStats'.last >= streakRead.stats.last
    <3>1. streakRead.stats.last \in Nat
      BY <2>1, <2>3 DEF RowEarned, StreakRow
    <3>2. streakStats.last \in Nat /\ streakStats.last >= streakRead.stats.last /\ now >= streakStats.last
      BY <1>4, <1>7, <2>1, <2>3 DEF StreakRow
    <3> QED BY <1>2, <1>5, <3>1, <3>2
  <2> QED BY <1>1, <2>1, <2>2, <2>3
<1> QED BY <1>1, <1>2, <1>3, <1>6, <1>8, <1>9 DEF StreakInv

LEMMA StreakPartNext == StreakPart /\ [AllNext]_allVars => StreakPart'
<1> SUFFICES ASSUME StreakPart, [AllNext]_allVars, which' = "streak" PROVE StreakInv'
  BY DEF StreakPart
<1>1. which = "streak" /\ (Streak!Next \/ UNCHANGED streakVars)
  BY DEF AllNext, allVars
<1>2. StreakInv
  BY <1>1 DEF StreakPart
<1>3. CASE Streak!LoginRead
  BY <1>2, <1>3, LoginReadStep
<1>4. CASE Streak!LoginWrite
  BY <1>2, <1>4, LoginWriteStep
<1>5. CASE Streak!LoginFails
  BY <1>2, <1>5 DEF Streak!LoginFails, StreakInv
<1>6. CASE Streak!GameBegins
  BY <1>2, <1>6 DEF Streak!GameBegins, StreakInv
<1>7. ASSUME NEW now \in streakGames, Streak!GameSaved(now) PROVE StreakInv'
  BY <1>2, <1>7, GameSavedStep
<1>8. CASE Streak!Tick
  <2>1. streakDay \in Nat /\ streakDay' = streakDay + 1
        /\ UNCHANGED <<streakStats, streakRead, streakGames, streakLogins, streakActive, streakLate>>
    BY <1>2, <1>8 DEF StreakInv, Streak!Tick
  <2>2. 0 .. streakDay \subseteq 0 .. streakDay' /\ streakDay' \in Nat
    BY <2>1
  <2> QED BY <1>2, <2>1, <2>2 DEF StreakInv
<1>9. CASE UNCHANGED streakVars
  BY <1>2, <1>9 DEF streakVars, StreakInv
<1> QED BY <1>1, <1>3, <1>4, <1>5, <1>6, <1>7, <1>8, <1>9 DEF Streak!Next

LEMMA StreakPartMeans ==
  ASSUME StreakPart, which = "streak"
  PROVE  Streak!StreakEarned
<1>1. RowEarned(streakStats, streakLogins, streakActive, streakLate)
  BY DEF StreakPart, StreakInv
<1>2. Streak!Cardinality(Earning(streakLogins, streakActive))
        = Cardinality(Earning(streakLogins, streakActive))
  BY Zenon DEF Streak!Cardinality, Cardinality
<1> QED BY <1>1, <1>2 DEF RowEarned, Streak!StreakEarned, Earning

----------------------------------------------------------------------------
(* Mastery, counted page by page beside the games that end.                 *)

Sessions == [Elements -> SUBSET BOOLEAN]

LEMMA ScanCardinality == \A S : Scan!Cardinality(S) = Cardinality(S)
BY Zenon DEF Scan!Cardinality, Cardinality

LEMMA AskedTyped ==
  ASSUME NEW p \in Seq(Sessions), NEW e
  PROVE  /\ Scan!Asked(p, e) \in SUBSET (1 .. Len(p)) /\ IsFiniteSet(Scan!Asked(p, e))
         /\ Scan!Asked(p, e) \in SUBSET (Nat \ {0}) /\ Scan!Asked(p, e) \subseteq Int
         /\ Cardinality(Scan!Asked(p, e)) \in Nat
<1>1. DOMAIN p = 1 .. Len(p) /\ Len(p) \in Nat
  OBVIOUS
<1>2. Scan!Asked(p, e) \subseteq 1 .. Len(p)
  BY <1>1, Zenon DEF Scan!Asked
<1> HIDE DEF Scan!Asked
<1>3. IsFiniteSet(Scan!Asked(p, e))
  <2>1. IsFiniteSet(1 .. Len(p)) /\ Scan!Asked(p, e) \in SUBSET (1 .. Len(p))
    BY <1>1, <1>2, FS_Interval
  <2> QED BY <2>1, FS_Subset
<1>4. 1 .. Len(p) \subseteq Nat \ {0} /\ 1 .. Len(p) \subseteq Int
  BY <1>1
<1>5. Cardinality(Scan!Asked(p, e)) \in Nat
  BY <1>3, FS_CardinalityType
<1> QED BY <1>2, <1>3, <1>4, <1>5

LEMMA ScanKth == \A S, k : Scan!Kth(S, k) = Nth(S, k)
BY ScanCardinality, Zenon DEF Scan!Kth, Nth, Below

LEMMA OutcomesTyped ==
  ASSUME NEW p \in Seq(Sessions), NEW e \in Elements
  PROVE  /\ Scan!Outcomes(p, e) \in Seq(BOOLEAN)
         /\ Len(Scan!Outcomes(p, e)) = Cardinality(Scan!Asked(p, e))
         /\ \A k \in 1 .. Cardinality(Scan!Asked(p, e)) :
              Scan!Outcomes(p, e)[k] = Scan!Outcome(p[Nth(Scan!Asked(p, e), k)][e])
         /\ Scan!Outcomes(p, e) = <<>> <=> Scan!Asked(p, e) = {}
<1> DEFINE A == Scan!Asked(p, e)
           n == Cardinality(A)
<1>1. n \in Nat
  BY AskedTyped
<1>2. Scan!Outcomes(p, e) = [k \in 1 .. n |-> Scan!Outcome(p[Nth(A, k)][e])]
  BY ScanCardinality, ScanKth DEF Scan!Outcomes
<1>3. \A k \in 1 .. n : Scan!Outcome(p[Nth(A, k)][e]) \in BOOLEAN
  BY DEF Scan!Outcome
<1>4. A = {} <=> n = 0
  BY AskedTyped, FS_EmptySet
<1> HIDE DEF n, A
<1>5. Scan!Outcomes(p, e) \in Seq(BOOLEAN) /\ Len(Scan!Outcomes(p, e)) = n
  BY <1>1, <1>2, <1>3
<1>6. Scan!Outcomes(p, e) = <<>> <=> n = 0
  BY <1>5
<1> QED BY <1>2, <1>4, <1>5, <1>6 DEF A, n

LEMMA AskedBehind ==
  ASSUME NEW p \in Seq(Sessions), NEW q \in Seq(Sessions), NEW e
  PROVE  Scan!Asked(p \o q, e) = Scan!Asked(p, e) \cup Shift(Scan!Asked(q, e), Len(p))
<1> DEFINE n == Len(p)
           m == Len(q)
           r == p \o q
<1>1. n \in Nat /\ m \in Nat /\ DOMAIN p = 1 .. n /\ DOMAIN q = 1 .. m /\ DOMAIN r = 1 .. (n + m)
  OBVIOUS
<1>2. \A i \in 1 .. n : r[i] = p[i]
  OBVIOUS
<1>3. \A j \in 1 .. m : r[n + j] = q[j]
  OBVIOUS
<1> HIDE DEF n, m, r
<1>4. ASSUME NEW i \in Scan!Asked(r, e) PROVE i \in Scan!Asked(p, e) \cup Shift(Scan!Asked(q, e), n)
  <2>1. i \in 1 .. (n + m) /\ r[i][e] # {}
    BY <1>1, <1>4 DEF Scan!Asked
  <2>2. CASE i <= n
    BY <1>1, <1>2, <2>1, <2>2 DEF Scan!Asked
  <2>3. CASE ~(i <= n)
    <3>1. i - n \in 1 .. m /\ n + (i - n) = i
      BY <1>1, <2>1, <2>3
    <3>2. i - n \in Scan!Asked(q, e)
      BY <1>1, <1>3, <2>1, <3>1 DEF Scan!Asked
    <3> QED BY <3>1, <3>2 DEF Shift
  <2> QED BY <2>2, <2>3
<1>5. ASSUME NEW i \in Scan!Asked(p, e) PROVE i \in Scan!Asked(r, e)
  <2>1. i \in 1 .. n /\ p[i][e] # {}
    BY <1>1, <1>5 DEF Scan!Asked
  <2>2. i \in 1 .. (n + m) /\ r[i] = p[i]
    BY <1>1, <1>2, <2>1
  <2> QED BY <1>1, <2>1, <2>2 DEF Scan!Asked
<1>6. ASSUME NEW j \in Scan!Asked(q, e) PROVE n + j \in Scan!Asked(r, e)
  <2>1. j \in 1 .. m /\ q[j][e] # {}
    BY <1>1, <1>6 DEF Scan!Asked
  <2>2. n + j \in 1 .. (n + m) /\ r[n + j] = q[j]
    BY <1>1, <1>3, <2>1
  <2> QED BY <1>1, <2>1, <2>2 DEF Scan!Asked
<1>7. \A i \in Shift(Scan!Asked(q, e), n) : i \in Scan!Asked(r, e)
  BY <1>6 DEF Shift
<1> HIDE DEF Scan!Asked
<1> QED BY <1>4, <1>5, <1>7 DEF n, r

(* The outcomes of two pages are those of the first and then the second's.  *)
LEMMA OutcomesBehind ==
  ASSUME NEW p \in Seq(Sessions), NEW q \in Seq(Sessions), NEW e \in Elements
  PROVE  Scan!Outcomes(p \o q, e) = Scan!Outcomes(p, e) \o Scan!Outcomes(q, e)
<1> DEFINE n == Len(p)
           A == Scan!Asked(p, e)
           B == Scan!Asked(q, e)
           C == A \cup Shift(B, n)
           a == Cardinality(A)
           b == Cardinality(B)
           r == p \o q
           left == Scan!Outcomes(r, e)
           x == Scan!Outcomes(p, e)
           y == Scan!Outcomes(q, e)
<1>1. n \in Nat /\ r \in Seq(Sessions) /\ Len(q) \in Nat
  OBVIOUS
<1>2. /\ A \in SUBSET (1 .. n) /\ IsFiniteSet(A) /\ a \in Nat /\ A \subseteq Int
      /\ B \in SUBSET (Nat \ {0}) /\ IsFiniteSet(B) /\ b \in Nat /\ B \subseteq Int
      /\ B \subseteq 1 .. Len(q)
  BY AskedTyped
<1>3. Scan!Asked(r, e) = C
  BY AskedBehind
<1> HIDE DEF A, B
<1>4. Cardinality(C) = a + b
  BY <1>1, <1>2, BehindSize
<1>5. \A k \in 1 .. a : Nth(C, k) = Nth(A, k)
  BY <1>1, <1>2, NthBehind
<1>6. \A k \in 1 .. b : Nth(C, a + k) = n + Nth(B, k)
  BY <1>1, <1>2, NthBehind
<1>7. \A k \in 1 .. a : Nth(A, k) \in 1 .. n
  BY <1>2, NthThere
<1>8. \A k \in 1 .. b : Nth(B, k) \in 1 .. Len(q)
  BY <1>2, NthThere
<1>9. /\ left \in Seq(BOOLEAN) /\ Len(left) = a + b
      /\ \A k \in 1 .. (a + b) : left[k] = Scan!Outcome(r[Nth(C, k)][e])
  BY <1>1, <1>3, <1>4, OutcomesTyped
<1>10. /\ x \in Seq(BOOLEAN) /\ Len(x) = a
       /\ \A k \in 1 .. a : x[k] = Scan!Outcome(p[Nth(A, k)][e])
  BY OutcomesTyped DEF A
<1>11. /\ y \in Seq(BOOLEAN) /\ Len(y) = b
       /\ \A k \in 1 .. b : y[k] = Scan!Outcome(q[Nth(B, k)][e])
  BY OutcomesTyped DEF B
<1>12. \A i \in 1 .. n : r[i] = p[i]
  OBVIOUS
<1>13. \A j \in 1 .. Len(q) : r[n + j] = q[j]
  OBVIOUS
<1> HIDE DEF n, a, b, C, r, left, x, y
<1>14. \A k \in 1 .. a : left[k] = x[k]
  <2> SUFFICES ASSUME NEW k \in 1 .. a PROVE left[k] = x[k]
    OBVIOUS
  <2>1. k \in 1 .. (a + b)
    BY <1>2
  <2> QED BY <1>5, <1>7, <1>9, <1>10, <1>12, <2>1
<1>15. \A k \in 1 .. b : left[a + k] = y[k]
  <2> SUFFICES ASSUME NEW k \in 1 .. b PROVE left[a + k] = y[k]
    OBVIOUS
  <2>1. a + k \in 1 .. (a + b)
    BY <1>2
  <2> QED BY <1>6, <1>8, <1>9, <1>11, <1>13, <2>1
<1>16. left = x \o y
  <2>1. /\ x \o y \in Seq(BOOLEAN) /\ Len(x \o y) = a + b
        /\ \A k \in 1 .. (a + b) : (x \o y)[k] = IF k <= a THEN x[k] ELSE y[k - a]
    BY <1>10, <1>11, ConcatProperties
  <2>2. ASSUME NEW k \in 1 .. (a + b) PROVE left[k] = (x \o y)[k]
    <3>1. CASE k <= a
      <4>1. k \in 1 .. a
        BY <3>1, <1>2
      <4> QED BY <1>14, <2>1, <3>1, <4>1
    <3>2. CASE ~(k <= a)
      <4>1. k - a \in 1 .. b /\ a + (k - a) = k
        BY <1>2, <3>2
      <4>2. left[k] = y[k - a]
        BY <1>15, <4>1
      <4> QED BY <2>1, <3>2, <4>2
    <3> QED BY <3>1, <3>2
  <2> QED BY <1>9, <2>1, <2>2, SeqEqual
<1> QED BY <1>16 DEF left, x, y, r

(* Cut after the second, read on and cut again: the same as cut at the end. *)
LEMMA LatestBehind ==
  ASSUME NEW x \in Seq(BOOLEAN), NEW y \in Seq(BOOLEAN)
  PROVE  /\ Scan!Latest(x) \in Seq(BOOLEAN) /\ Len(Scan!Latest(x)) <= 2
         /\ Scan!Latest(x) = <<>> <=> x = <<>>
         /\ Scan!Latest(Scan!Latest(x) \o y) = Scan!Latest(x \o y)
         /\ ~(Len(Scan!Latest(x)) < 2) => Scan!Latest(x \o y) = Scan!Latest(x)
<1> DEFINE L(s) == IF Len(s) < 2 THEN s ELSE SubSeq(s, 1, 2)
<1>1. \A s : Scan!Latest(s) = L(s)
  BY DEF Scan!Latest, Scan!FirstTwo, Scan!RequiredConsecutiveCorrectCount
<1>2. Len(x) \in Nat /\ Len(y) \in Nat /\ x \o y \in Seq(BOOLEAN) /\ Len(x \o y) = Len(x) + Len(y)
  OBVIOUS
<1>3. CASE Len(x) < 2
  <2>1. L(x) = x
    BY <1>3
  <2>2. Len(x) <= 2 /\ Len(x) < 2
    BY <1>2, <1>3
  <2> HIDE DEF L
  <2> QED BY <1>1, <2>1, <2>2
<1>4. CASE ~(Len(x) < 2)
  <2>1. L(x) = SubSeq(x, 1, 2) /\ SubSeq(x, 1, 2) \in Seq(BOOLEAN) /\ Len(SubSeq(x, 1, 2)) = 2
        /\ SubSeq(x, 1, 2)[1] = x[1] /\ SubSeq(x, 1, 2)[2] = x[2]
    BY <1>2, <1>4
  <2>2. ~(Len(x \o y) < 2) /\ (x \o y)[1] = x[1] /\ (x \o y)[2] = x[2]
    BY <1>2, <1>4
  <2>3. \A s \in Seq(BOOLEAN) : ~(Len(s) < 2) /\ s[1] = x[1] /\ s[2] = x[2] => L(s) = L(x)
    <3> SUFFICES ASSUME NEW s \in Seq(BOOLEAN), ~(Len(s) < 2), s[1] = x[1], s[2] = x[2]
                 PROVE  SubSeq(s, 1, 2) = SubSeq(x, 1, 2)
      BY <2>1
    <3>1. SubSeq(s, 1, 2) \in Seq(BOOLEAN) /\ Len(SubSeq(s, 1, 2)) = 2
          /\ SubSeq(s, 1, 2)[1] = s[1] /\ SubSeq(s, 1, 2)[2] = s[2]
      <4>1. Len(s) \in Nat /\ s[1] \in BOOLEAN /\ s[2] \in BOOLEAN
        <5>1. Len(s) \in Nat
          OBVIOUS
        <5>2. 1 \in 1 .. Len(s) /\ 2 \in 1 .. Len(s)
          BY <5>1
        <5> QED BY <5>1, <5>2, ElementOfSeq
      <4>2. \A i \in 1 .. 2 : s[i] \in BOOLEAN
        <5>1. \A i \in 1 .. 2 : i = 1 \/ i = 2
          OBVIOUS
        <5> QED BY <4>1, <5>1
      <4> QED BY <4>2, SubSeqProperties
    <3>2. \A i \in 1 .. 2 : i = 1 \/ i = 2
      OBVIOUS
    <3>3. \A i \in 1 .. 2 : SubSeq(s, 1, 2)[i] = SubSeq(x, 1, 2)[i]
      BY <2>1, <3>1, <3>2
    <3> QED BY <2>1, <3>1, <3>3, SeqEqual
  <2>4. L(x \o y) = L(x)
    BY <1>2, <2>2, <2>3
  <2> DEFINE z == SubSeq(x, 1, 2)
  <2>5. z \o y \in Seq(BOOLEAN) /\ ~(Len(z \o y) < 2) /\ (z \o y)[1] = x[1] /\ (z \o y)[2] = x[2]
    <3>1. z \in Seq(BOOLEAN) /\ Len(z) = 2 /\ z[1] = x[1] /\ z[2] = x[2]
      BY <2>1
    <3> HIDE DEF z
    <3>2. z \o y \in Seq(BOOLEAN) /\ Len(z \o y) = 2 + Len(y)
          /\ \A i \in 1 .. 2 + Len(y) : (z \o y)[i] = IF i <= 2 THEN z[i] ELSE y[i - 2]
      <4>1. z \in Seq(BOOLEAN) /\ Len(z) = 2
        BY <3>1
      <4>2. /\ z \o y \in Seq(BOOLEAN) /\ Len(z \o y) = Len(z) + Len(y)
            /\ \A i \in 1 .. Len(z) + Len(y) : (z \o y)[i] = IF i <= Len(z) THEN z[i] ELSE y[i - Len(z)]
        BY <4>1, ConcatProperties
      <4> QED BY <4>1, <4>2
    <3>3. 1 \in 1 .. 2 + Len(y) /\ 2 \in 1 .. 2 + Len(y) /\ ~(2 + Len(y) < 2)
      <4>1. Len(y) \in Nat
        OBVIOUS
      <4> HIDE DEF z
      <4> QED BY <4>1
    <3>4. (z \o y)[1] = z[1] /\ (z \o y)[2] = z[2]
      BY <3>2, <3>3
    <3> QED BY <3>1, <3>2, <3>3, <3>4
  <2>6. L(z \o y) = L(x)
    BY <2>3, <2>5
  <2>7. x # <<>> /\ L(x) # <<>>
    BY <1>4, <2>1
  <2> HIDE DEF L
  <2>8. Scan!Latest(x) = z /\ z \in Seq(BOOLEAN) /\ Len(z) = 2 /\ z # <<>>
    BY <1>1, <2>1, <2>7
  <2>9. Scan!Latest(x \o y) = z /\ Scan!Latest(z \o y) = z
    BY <1>1, <2>1, <2>4, <2>6
  <2> HIDE DEF z
  <2> QED BY <2>7, <2>8, <2>9
<1> QED BY <1>3, <1>4

----------------------------------------------------------------------------
(* What a scan has seen. No session from a to b of a history asks for e.    *)

NotAsked(p, e, a, b) == \A i \in a .. b : p[i][e] = {}

ScanRecord ==
  [at : {"idle", "reading", "done"}, skip : Nat, needing : SUBSET Elements, more : BOOLEAN,
   recent : UNION {[D -> Seq(BOOLEAN)] : D \in SUBSET Elements},
   status : UNION {[D -> {"unlearned", "learning", "mastered"}] : D \in SUBSET Elements}]

(* The last session a scan has seen.                                        *)
Bound(p, s) == IF s.more THEN s.skip ELSE Len(p)

(* What a scan that began with b of the sessions p has read of an element: *)
(* the sessions saved since are the first of the history.                   *)
ReadSoFar(p, b, skip, bound, needing, seen, e) ==
  /\ e \in needing <=> Len(seen) < 2
  /\ seen = <<>> => NotAsked(p, e, Len(p) - b + 1, bound)
  /\ seen # <<>> => Scan!Asked(p, e) # {}
  /\ Len(p) = b => seen = Scan!Latest(Scan!Outcomes(SubSeq(p, 1, skip), e))

Reported(p, b, status, e) ==
  /\ Len(p) = b => status = Scan!Status(Scan!Latest(Scan!Outcomes(p, e)))
  /\ status = "unlearned" => NotAsked(p, e, Len(p) - b + 1, Len(p))
  /\ status # "unlearned" => Scan!Asked(p, e) # {}

ScanReading(p, b, s) ==
  s.at = "reading" =>
    /\ s.skip \in 0 .. Len(p)
    /\ ~s.more /\ Len(p) = b => s.skip = Len(p)
    /\ s.needing \subseteq DOMAIN s.recent
    /\ \A e \in DOMAIN s.recent : ReadSoFar(p, b, s.skip, Bound(p, s), s.needing, s.recent[e], e)

ScanDone(p, b, s) ==
  s.at = "done" => \A e \in DOMAIN s.status : Reported(p, b, s.status[e], e)

ScanInv(p, b, s) ==
  /\ p \in Seq(Sessions) /\ b \in 0 .. Len(p)
  /\ s \in ScanRecord
  /\ ScanReading(p, b, s) /\ ScanDone(p, b, s)

(* What a scan says of an element was so at some moment since it began: the *)
(* outcomes when there were k sessions, and those of the sessions that were *)
(* there at the start and have been read.                                   *)
OldOutcomes(p, k, e) == Scan!Outcomes(SubSeq(p, Len(p) - k + 1, Len(p)), e)
OldRead(p, b, bound, e) == Scan!Outcomes(SubSeq(p, Len(p) - b + 1, bound), e)

RightOnce(p, b, e) ==
  \E k \in b .. Len(p) : OldOutcomes(p, k, e) # <<>> /\ OldOutcomes(p, k, e)[1]
NotMasteredOnce(p, b, e) ==
  \E k \in b .. Len(p) : Scan!Status(Scan!Latest(OldOutcomes(p, k, e))) # "mastered"

Explained(p, b, bound, seen, e) ==
  /\ seen # <<>> /\ seen[1] => RightOnce(p, b, e)
  /\ \A i \in 1 .. Len(seen) : ~seen[i] => NotMasteredOnce(p, b, e)
  /\ Len(seen) < 2 => Len(OldRead(p, b, bound, e)) <= Len(seen)
  /\ Len(seen) <= 2

SaidOnce(p, b, status, e) ==
  /\ status = "mastered" => RightOnce(p, b, e)
  /\ status = "learning" => NotMasteredOnce(p, b, e)

ScanMoments(p, b, s) ==
  /\ s.at = "reading" =>
       \A e \in DOMAIN s.recent : Explained(p, b, Bound(p, s), s.recent[e], e)
  /\ s.at = "done" => \A e \in DOMAIN s.status : SaidOnce(p, b, s.status[e], e)

ScanPart ==
  which = "scan" =>
    /\ ScanInv(scanSessions, scanBegun, scanScan)
    /\ ScanMoments(scanSessions, scanBegun, scanScan)

(* One findMany.                                                            *)
Page(p, skip) ==
  LET rest == SubSeq(p, skip + 1, Len(p))
  IN IF Len(rest) < PageSize THEN rest ELSE SubSeq(rest, 1, PageSize)

LEMMA PageRead ==
  ASSUME NEW p \in Seq(Sessions), NEW skip \in 0 .. Len(p)
  PROVE  \E last \in skip .. Len(p) :
           /\ Page(p, skip) = SubSeq(p, skip + 1, last)
           /\ Page(p, skip) \in Seq(Sessions)
           /\ Len(Page(p, skip)) = last - skip
           /\ \A i \in 1 .. last - skip : Page(p, skip)[i] = p[skip + i]
           /\ Len(Page(p, skip)) # PageSize => last = Len(p)
<1> DEFINE n == Len(p)
           rest == SubSeq(p, skip + 1, n)
<1>0. n \in Nat /\ skip \in 0 .. n /\ \A i \in 1 .. n : p[i] \in Sessions
  <2>1. \A i \in 1 .. n : p[i] \in Sessions
    BY ElementOfSeq
  <2> QED BY <2>1
<1>1. PageSize \in Nat \ {0}
  BY InstancesAssumption DEF Scan!MasteryScanAssumption
<1>2. ASSUME NEW last \in skip .. n
      PROVE  /\ SubSeq(p, skip + 1, last) \in Seq(Sessions)
             /\ Len(SubSeq(p, skip + 1, last)) = last - skip
             /\ \A i \in 1 .. last - skip : SubSeq(p, skip + 1, last)[i] = p[skip + i]
  <2> HIDE DEF n
  <2>1. \A i \in (skip + 1) .. last : p[i] \in Sessions
    BY <1>0
  <2>2. skip + 1 \in Int /\ last \in Int /\ last - (skip + 1) + 1 = last - skip
    BY <1>0
  <2>3. /\ SubSeq(p, skip + 1, last) \in Seq(Sessions)
        /\ Len(SubSeq(p, skip + 1, last)) = IF skip + 1 <= last THEN last - (skip + 1) + 1 ELSE 0
        /\ \A i \in 1 .. (last - (skip + 1) + 1) :
             SubSeq(p, skip + 1, last)[i] = p[(skip + 1) + i - 1]
    BY <2>1, <2>2, SubSeqProperties
  <2>4. \A i \in 1 .. last - skip : (skip + 1) + i - 1 = skip + i
    BY <1>0
  <2>5. (IF skip + 1 <= last THEN last - (skip + 1) + 1 ELSE 0) = last - skip
    BY <1>0
  <2> QED BY <2>2, <2>3, <2>4, <2>5
<1>3. rest \in Seq(Sessions) /\ Len(rest) = n - skip
  <2>1. n \in skip .. n
    BY <1>0
  <2> HIDE DEF n
  <2> QED BY <1>2, <2>1
<1>4. CASE Len(rest) < PageSize
  <2>1. Page(p, skip) = rest
    BY <1>4 DEF Page
  <2>2. n \in skip .. n
    BY <1>0
  <2> HIDE DEF n
  <2>3. \A i \in 1 .. n - skip : rest[i] = p[skip + i]
    BY <1>2, <2>2
  <2> HIDE DEF rest
  <2>4. Page(p, skip) = SubSeq(p, skip + 1, n)
    BY <2>1 DEF rest
  <2>5. /\ Page(p, skip) = SubSeq(p, skip + 1, n) /\ Page(p, skip) \in Seq(Sessions)
        /\ Len(Page(p, skip)) = n - skip /\ \A i \in 1 .. n - skip : Page(p, skip)[i] = p[skip + i]
    BY <1>3, <2>1, <2>3, <2>4
  <2>6. n = Len(p)
    BY DEF n
  <2> QED BY <2>2, <2>5, <2>6
<1>5. CASE ~(Len(rest) < PageSize)
  <2> DEFINE last == skip + PageSize
  <2>1. Page(p, skip) = SubSeq(rest, 1, PageSize)
    BY <1>5 DEF Page
  <2>2. last \in skip .. n /\ last \in 1 .. n
    <3> HIDE DEF n, rest
    <3> QED BY <1>0, <1>1, <1>3, <1>5
  <2>3. SubSeq(rest, 1, PageSize) = SubSeq(p, skip + 1, last)
    <3>1. skip + 1 \in 1 .. n /\ n \in 1 .. n
      BY <1>0, <1>1, <2>2
    <3>2. 1 \in 1 .. n - (skip + 1) + 1 /\ PageSize \in 1 .. n - (skip + 1) + 1
      BY <1>0, <1>1, <2>2
    <3>3. SubSeq(SubSeq(p, skip + 1, n), 1, PageSize)
            = SubSeq(p, (skip + 1) + 1 - 1, (skip + 1) + PageSize - 1)
      <4> HIDE DEF n, rest, last
      <4> QED BY <3>1, <3>2, SubSeqOfSubSeq DEF n
    <3>4. (skip + 1) + 1 - 1 = skip + 1 /\ (skip + 1) + PageSize - 1 = last
      BY <1>0, <1>1
    <3> QED BY <3>3, <3>4
  <2>4. last - skip = PageSize
    BY <1>0, <1>1
  <2> HIDE DEF last, rest, n
  <2>5. Page(p, skip) = SubSeq(p, skip + 1, last)
    BY <2>1, <2>3
  <2>6. /\ Page(p, skip) \in Seq(Sessions) /\ Len(Page(p, skip)) = last - skip
        /\ \A i \in 1 .. last - skip : Page(p, skip)[i] = p[skip + i]
    BY <1>2, <2>2, <2>5
  <2>7. ~(Len(Page(p, skip)) # PageSize)
    BY <2>4, <2>6
  <2>8. last \in skip .. Len(p)
    BY <2>2 DEF n
  <2> QED BY <2>5, <2>6, <2>7, <2>8
<1> QED BY <1>4, <1>5

LEMMA ScanPartInit == AllInit => ScanPart
<1> SUFFICES ASSUME AllInit, which = "scan"
             PROVE  /\ ScanInv(scanSessions, scanBegun, scanScan)
                    /\ ScanMoments(scanSessions, scanBegun, scanScan)
  BY DEF ScanPart
<1>1. scanSessions = <<>> /\ scanScan = Scan!Idle /\ scanBegun = 0
  BY DEF AllInit, Scan!Init
<1>2. scanScan \in ScanRecord /\ scanScan.at = "idle"
  <2>1. [e \in {} |-> <<>>] \in UNION {[D -> Seq(BOOLEAN)] : D \in SUBSET Elements}
    <3>1. [e \in {} |-> <<>>] \in [{} -> Seq(BOOLEAN)] /\ {} \in SUBSET Elements
      OBVIOUS
    <3> QED BY <3>1
  <2>2. [e \in {} |-> "unlearned"]
          \in UNION {[D -> {"unlearned", "learning", "mastered"}] : D \in SUBSET Elements}
    <3>1. [e \in {} |-> "unlearned"] \in [{} -> {"unlearned", "learning", "mastered"}]
          /\ {} \in SUBSET Elements
      OBVIOUS
    <3> QED BY <3>1
  <2> DEFINE r == [e \in {} |-> <<>>]
             t == [e \in {} |-> "unlearned"]
  <2>3. scanScan = [at |-> "idle", skip |-> 0, needing |-> {}, more |-> FALSE, recent |-> r, status |-> t]
    BY <1>1 DEF Scan!Idle
  <2> HIDE DEF r, t
  <2>4. r \in UNION {[D -> Seq(BOOLEAN)] : D \in SUBSET Elements}
    BY <2>1 DEF r
  <2>5. t \in UNION {[D -> {"unlearned", "learning", "mastered"}] : D \in SUBSET Elements}
    BY <2>2 DEF t
  <2> QED BY <2>3, <2>4, <2>5 DEF ScanRecord
<1> QED BY <1>1, <1>2 DEF ScanInv, ScanReading, ScanDone, ScanMoments

----------------------------------------------------------------------------
(* A session saved comes first: the others keep their places behind it.     *)
LEMMA SavedFirst ==
  ASSUME NEW p \in Seq(Sessions), NEW session \in Sessions
  PROVE  /\ <<session>> \o p \in Seq(Sessions) /\ Len(<<session>> \o p) = Len(p) + 1
         /\ \A e : Scan!Asked(p, e) # {} => Scan!Asked(<<session>> \o p, e) # {}
         /\ \A e : \A a \in 1 .. Len(p) + 1, m \in 0 .. Len(p) :
              NotAsked(p, e, a, m) => NotAsked(<<session>> \o p, e, a + 1, m + 1)
<1> DEFINE one == <<session>>
           q == one \o p
           n == Len(p)
<1>0. n \in Nat
  OBVIOUS
<1>1. one \in Seq(Sessions) /\ Len(one) = 1
  OBVIOUS
<1> HIDE DEF one
<1>2. /\ q \in Seq(Sessions) /\ Len(q) = n + 1
      /\ \A i \in 1 .. n + 1 : q[i] = IF i <= 1 THEN one[i] ELSE p[i - 1]
  <2>1. Len(one) + Len(p) = n + 1
    BY <1>0, <1>1
  <2>2. /\ one \o p \in Seq(Sessions) /\ Len(one \o p) = Len(one) + Len(p)
        /\ \A i \in 1 .. Len(one) + Len(p) :
             (one \o p)[i] = IF i <= Len(one) THEN one[i] ELSE p[i - Len(one)]
    BY <1>1, ConcatProperties
  <2> QED BY <1>1, <2>1, <2>2
<1>3. ASSUME NEW e, Scan!Asked(p, e) # {} PROVE Scan!Asked(q, e) # {}
  <2>1. Scan!Asked(q, e) = Scan!Asked(one, e) \cup Shift(Scan!Asked(p, e), Len(one))
    BY <1>1, AskedBehind
  <2>2. PICK i : i \in Scan!Asked(p, e)
    BY <1>3
  <2>3. Len(one) + i \in Shift(Scan!Asked(p, e), Len(one))
    BY <2>2 DEF Shift
  <2> QED BY <2>1, <2>3
<1> HIDE DEF q, n
<1>4. ASSUME NEW e, NEW a \in 1 .. n + 1, NEW m \in 0 .. n, NotAsked(p, e, a, m)
      PROVE  NotAsked(q, e, a + 1, m + 1)
  <2> SUFFICES ASSUME NEW i \in (a + 1) .. (m + 1) PROVE q[i][e] = {}
    BY DEF NotAsked
  <2>1. i \in 1 .. n + 1 /\ ~(i <= 1) /\ i - 1 \in a .. m
    BY <1>0
  <2>2. q[i] = p[i - 1]
    BY <1>2, <2>1
  <2> QED BY <1>4, <2>1, <2>2 DEF NotAsked
<1> QED BY <1>2, <1>3, <1>4 DEF q, one, n

LEMMA NotAskedWithin ==
  ASSUME NEW p, NEW e, NEW a \in Int, NEW m \in Int, NEW c \in Int, NEW d \in Int,
         a <= c, d <= m, NotAsked(p, e, a, m)
  PROVE  NotAsked(p, e, c, d)
<1> SUFFICES ASSUME NEW i \in c .. d PROVE p[i][e] = {}
  BY DEF NotAsked
<1>1. i \in a .. m
  OBVIOUS
<1> QED BY <1>1 DEF NotAsked

LEMMA SaveKeepsScan ==
  ASSUME NEW p, NEW b, NEW s, ScanInv(p, b, s), NEW session \in Sessions
  PROVE  ScanInv(<<session>> \o p, b, s)
<1> DEFINE q == <<session>> \o p
           n == Len(p)
<1>1. p \in Seq(Sessions) /\ b \in 0 .. n /\ s \in ScanRecord /\ n \in Nat /\ b \in Int
  BY DEF ScanInv
<1>2. /\ q \in Seq(Sessions) /\ Len(q) = n + 1
      /\ \A e : Scan!Asked(p, e) # {} => Scan!Asked(q, e) # {}
      /\ \A e : \A a \in 1 .. n + 1, m \in 0 .. n :
           NotAsked(p, e, a, m) => NotAsked(q, e, a + 1, m + 1)
  BY <1>1, SavedFirst
<1> HIDE DEF q, n
<1>3. b \in 0 .. n + 1 /\ n + 1 # b /\ n - b + 1 \in 1 .. n + 1 /\ (n - b + 1) + 1 = (n + 1) - b + 1
      /\ n \in 0 .. n
  BY <1>1
<1>4. ScanReading(q, b, s)
  <2> SUFFICES ASSUME s.at = "reading" PROVE
        /\ s.skip \in 0 .. n + 1 /\ s.needing \subseteq DOMAIN s.recent
        /\ \A e \in DOMAIN s.recent : ReadSoFar(q, b, s.skip, Bound(q, s), s.needing, s.recent[e], e)
    BY <1>2, <1>3 DEF ScanReading
  <2>1. /\ s.skip \in 0 .. n /\ s.needing \subseteq DOMAIN s.recent
        /\ \A e \in DOMAIN s.recent : ReadSoFar(p, b, s.skip, Bound(p, s), s.needing, s.recent[e], e)
    BY DEF ScanInv, ScanReading, n
  <2>2. s.skip \in 0 .. n + 1 /\ s.skip \in Int
    BY <1>1, <2>1
  <2>3. ASSUME NEW e \in DOMAIN s.recent
        PROVE  ReadSoFar(q, b, s.skip, Bound(q, s), s.needing, s.recent[e], e)
    <3> DEFINE k == s.skip
               seen == s.recent[e]
               last == IF s.more THEN k ELSE n
               bound == IF s.more THEN k ELSE n + 1
    <3> HIDE DEF k, seen
    <3>1. /\ e \in s.needing <=> Len(seen) < 2
          /\ seen = <<>> => NotAsked(p, e, n - b + 1, last)
          /\ seen # <<>> => Scan!Asked(p, e) # {}
      BY <2>1, <2>3, Zenon DEF ReadSoFar, Bound, n, k, seen
    <3>2. last \in 0 .. n /\ k \in Int
      BY <1>3, <2>1, <2>2 DEF k
    <3>3. ASSUME seen = <<>> PROVE NotAsked(q, e, (n + 1) - b + 1, bound)
      <4>1. NotAsked(q, e, (n - b + 1) + 1, last + 1)
        BY <1>2, <1>3, <3>1, <3>2, <3>3
      <4>2. bound \in Int /\ bound <= last + 1
        BY <1>1, <3>2
      <4>3. (n - b + 1) + 1 \in Int /\ (n + 1) - b + 1 \in Int /\ (n - b + 1) + 1 <= (n + 1) - b + 1
            /\ last + 1 \in Int
        BY <1>1, <3>2
      <4> HIDE DEF last, bound
      <4> QED BY <4>1, <4>2, <4>3, NotAskedWithin
    <3>4. seen # <<>> => Scan!Asked(q, e) # {}
      BY <1>2, <3>1
    <3>5. Bound(q, s) = bound
      BY <1>2 DEF Bound, k
    <3> HIDE DEF bound
    <3>6. ReadSoFar(q, b, k, bound, s.needing, seen, e)
      BY <1>2, <1>3, <3>1, <3>3, <3>4 DEF ReadSoFar
    <3> QED BY <3>5, <3>6 DEF k, seen
  <2> QED BY <2>1, <2>2, <2>3
<1>5. ScanDone(q, b, s)
  <2> SUFFICES ASSUME s.at = "done", NEW e \in DOMAIN s.status PROVE Reported(q, b, s.status[e], e)
    BY DEF ScanDone
  <2> DEFINE t == s.status[e]
  <2> HIDE DEF t
  <2>1. /\ t = "unlearned" => NotAsked(p, e, n - b + 1, n)
        /\ t # "unlearned" => Scan!Asked(p, e) # {}
    BY Zenon DEF ScanInv, ScanDone, Reported, n, t
  <2>2. t = "unlearned" => NotAsked(q, e, (n + 1) - b + 1, n + 1)
    BY <1>2, <1>3, <2>1
  <2>3. Reported(q, b, t, e)
    BY <1>2, <1>3, <2>1, <2>2 DEF Reported
  <2> QED BY <2>3 DEF t
<1> QED BY <1>1, <1>2, <1>3, <1>4, <1>5 DEF ScanInv, q

LEMMA StartKeepsScan ==
  ASSUME NEW p, NEW b, NEW s, ScanInv(p, b, s), NEW targets \in SUBSET Elements
  PROVE  ScanInv(p, Len(p),
                 [at |-> "reading", skip |-> 0, needing |-> targets, more |-> TRUE,
                  recent |-> [e \in targets |-> <<>>], status |-> [e \in {} |-> "unlearned"]])
<1> DEFINE n == Len(p)
           r == [e \in targets |-> <<>>]
           u == [e \in {} |-> "unlearned"]
           t == [at |-> "reading", skip |-> 0, needing |-> targets, more |-> TRUE,
                 recent |-> r, status |-> u]
<1>1. p \in Seq(Sessions) /\ n \in Nat
  <2>1. p \in Seq(Sessions)
    BY DEF ScanInv
  <2> QED BY <2>1
<1>2. DOMAIN r = targets /\ \A e \in targets : r[e] = <<>>
  OBVIOUS
<1>3. r \in UNION {[D -> Seq(BOOLEAN)] : D \in SUBSET Elements}
  <2>1. r \in [targets -> Seq(BOOLEAN)]
    OBVIOUS
  <2> HIDE DEF r
  <2> QED BY <2>1
<1>4. u \in UNION {[D -> {"unlearned", "learning", "mastered"}] : D \in SUBSET Elements}
  <2>1. u \in [{} -> {"unlearned", "learning", "mastered"}] /\ {} \in SUBSET Elements
    OBVIOUS
  <2> HIDE DEF u
  <2> QED BY <2>1
<1>5. ASSUME NEW e \in targets PROVE ReadSoFar(p, n, 0, 0, targets, <<>>, e)
  <2> DEFINE none == SubSeq(p, 1, 0)
  <2>1. NotAsked(p, e, n - n + 1, 0)
    <3>1. \A i \in n - n + 1 .. 0 : FALSE
      BY <1>1
    <3> HIDE DEF n
    <3> QED BY <3>1 DEF NotAsked
  <2>2. none = <<>>
    BY SubSeqEmpty
  <2>3. none \in Seq(Sessions) /\ Scan!Asked(none, e) = {}
    BY <2>2 DEF Scan!Asked
  <2>4. Scan!Outcomes(none, e) = <<>>
    BY <2>3, OutcomesTyped
  <2>5. Scan!Latest(<<>>) = <<>>
    <3>1. <<>> \in Seq(BOOLEAN)
      OBVIOUS
    <3> QED BY <3>1, LatestBehind
  <2>6. Len(<<>>) < 2
    OBVIOUS
  <2> HIDE DEF none, n
  <2>7. Scan!Latest(Scan!Outcomes(none, e)) = <<>>
    BY <2>4, <2>5
  <2> QED BY <2>1, <2>6, <2>7 DEF ReadSoFar, n, none
<1> HIDE DEF r, u
<1>6. t \in ScanRecord
  BY <1>3, <1>4 DEF ScanRecord
<1>7. /\ t.at = "reading" /\ t.skip = 0 /\ t.more = TRUE /\ t.needing = targets /\ t.recent = r
  OBVIOUS
<1> HIDE DEF t
<1>8. ScanReading(p, n, t)
  <2>1. t.skip \in 0 .. n
    BY <1>1, <1>7
  <2>2. ASSUME NEW e \in DOMAIN t.recent
        PROVE  ReadSoFar(p, n, t.skip, Bound(p, t), t.needing, t.recent[e], e)
    BY <1>2, <1>5, <1>7, <2>2 DEF Bound
  <2> HIDE DEF n
  <2> QED BY <1>2, <1>7, <2>1, <2>2 DEF ScanReading, n
<1>9. ScanDone(p, n, t)
  BY <1>7 DEF ScanDone
<1>10. n \in 0 .. n
  BY <1>1
<1>11. ScanInv(p, n, t)
  BY <1>1, <1>6, <1>8, <1>9, <1>10 DEF ScanInv, n
<1> QED BY <1>11 DEF t, r, u, n

(* What a page adds to what was read of an element.                         *)
PageUpTo(p, skip, last, page) ==
  /\ page = SubSeq(p, skip + 1, last) /\ Len(page) = last - skip
  /\ \A i \in 1 .. last - skip : page[i] = p[skip + i]

Grown(page, needing, left, seen, now, e) ==
  /\ now = IF e \in needing THEN Scan!Latest(seen \o Scan!Outcomes(page, e)) ELSE seen
  /\ e \in left <=> e \in needing /\ Len(now) < 2

LEMMA PageAdds ==
  ASSUME NEW p \in Seq(Sessions), NEW b \in 0 .. Len(p), NEW skip \in 0 .. Len(p),
         NEW needing, NEW e \in Elements, NEW seen \in Seq(BOOLEAN),
         ReadSoFar(p, b, skip, skip, needing, seen, e),
         NEW last \in skip .. Len(p), NEW page \in Seq(Sessions),
         PageUpTo(p, skip, last, page), NEW left, NEW now, Grown(page, needing, left, seen, now, e)
  PROVE  /\ now \in Seq(BOOLEAN)
         /\ ReadSoFar(p, b, last, last, left, now, e)
<1> DEFINE n == Len(p)
           out == Scan!Outcomes(page, e)
           all == seen \o out
           before == SubSeq(p, 1, skip)
           x == Scan!Outcomes(before, e)
<1>0. /\ page = SubSeq(p, skip + 1, last) /\ Len(page) = last - skip
      /\ \A i \in 1 .. last - skip : page[i] = p[skip + i]
      /\ now = IF e \in needing THEN Scan!Latest(all) ELSE seen
      /\ e \in left <=> e \in needing /\ Len(now) < 2
  BY DEF PageUpTo, Grown
<1>1. n \in Nat /\ b \in Int /\ skip \in Int /\ last \in Int /\ Len(page) \in Nat
  OBVIOUS
<1>2. /\ e \in needing <=> Len(seen) < 2
      /\ seen = <<>> => NotAsked(p, e, n - b + 1, skip)
      /\ seen # <<>> => Scan!Asked(p, e) # {}
      /\ n = b => seen = Scan!Latest(x)
  BY DEF ReadSoFar
<1>3. out \in Seq(BOOLEAN) /\ (out = <<>> <=> Scan!Asked(page, e) = {})
  BY OutcomesTyped
<1> HIDE DEF out
<1>4. all \in Seq(BOOLEAN) /\ (all = <<>> <=> seen = <<>> /\ out = <<>>)
  BY <1>3, ConcatProperties, ConcatEqualIffEmpty
<1>5. /\ Scan!Latest(all) \in Seq(BOOLEAN) /\ (Scan!Latest(all) = <<>> <=> all = <<>>)
      /\ ~(Len(Scan!Latest(all)) < 2) => TRUE
  <2> HIDE DEF all
  <2> QED BY <1>3, <1>4, LatestBehind
<1>6. now \in Seq(BOOLEAN)
  BY <1>0, <1>5
<1>7. Len(<<>>) < 2
  OBVIOUS
<1>8. now = <<>> => seen = <<>> /\ out = <<>>
  BY <1>0, <1>2, <1>4, <1>5, <1>7
<1>9. now # <<>> => seen # <<>> \/ out # <<>>
  BY <1>0, <1>2, <1>4, <1>5, <1>7
<1>10. e \in left <=> Len(now) < 2
  <2>1. e \notin needing => now = seen /\ ~(Len(seen) < 2)
    BY <1>0, <1>2
  <2> QED BY <1>0, <2>1
<1>11. DOMAIN page = 1 .. last - skip /\ DOMAIN p = 1 .. n
  BY <1>0
<1> HIDE DEF n
<1>12. ASSUME now = <<>> PROVE NotAsked(p, e, n - b + 1, last)
  <2>2. ASSUME NEW i \in n - b + 1 .. last PROVE p[i][e] = {}
    <3>1. CASE i <= skip
      <4>1. NotAsked(p, e, n - b + 1, skip) /\ i \in n - b + 1 .. skip
        BY <1>1, <1>2, <1>8, <1>12, <3>1
      <4> QED BY <4>1 DEF NotAsked
    <3>2. CASE ~(i <= skip)
      <4>1. i - skip \in 1 .. last - skip /\ skip + (i - skip) = i
        BY <1>1, <2>2, <3>2
      <4>2. page[i - skip] = p[i] /\ i - skip \in DOMAIN page
        BY <1>0, <1>11, <4>1
      <4>3. Scan!Asked(page, e) = {}
        BY <1>3, <1>8, <1>12
      <4> QED BY <4>2, <4>3 DEF Scan!Asked
    <3> QED BY <3>1, <3>2
  <2> QED BY <2>2 DEF NotAsked
<1>13. ASSUME now # <<>> PROVE Scan!Asked(p, e) # {}
  <2>1. CASE seen # <<>>
    BY <1>2, <2>1
  <2>2. CASE out # <<>>
    <3>1. PICK i : i \in Scan!Asked(page, e)
      BY <1>3, <2>2
    <3>2. i \in 1 .. last - skip /\ page[i][e] # {}
      BY <1>11, <3>1 DEF Scan!Asked
    <3>3. skip + i \in 1 .. n /\ p[skip + i] = page[i]
      <4>1. skip \in 0 .. n /\ last \in skip .. n
        BY DEF n
      <4> QED BY <1>0, <1>1, <3>2, <4>1
    <3>4. skip + i \in Scan!Asked(p, e)
      BY <1>11, <3>2, <3>3 DEF Scan!Asked
    <3> QED BY <3>4
  <2> QED BY <1>9, <1>13, <2>1, <2>2
<1>14. ASSUME n = b PROVE now = Scan!Latest(Scan!Outcomes(SubSeq(p, 1, last), e))
  <2>1. before \in Seq(Sessions)
    BY DEF n
  <2>2. SubSeq(p, 1, last) = before \o page
    <3>1. 1 \in 1 .. Len(p) + 1 /\ skip \in 1 - 1 .. Len(p) /\ last \in skip .. Len(p)
      BY <1>1 DEF n
    <3> QED BY <1>0, <3>1, ConcatAdjacentSubSeq
  <2> HIDE DEF before
  <2>3. Scan!Outcomes(SubSeq(p, 1, last), e) = x \o out /\ x \in Seq(BOOLEAN)
    <3>1. Scan!Outcomes(before \o page, e) = x \o Scan!Outcomes(page, e)
      BY <2>1, OutcomesBehind
    <3>2. x \in Seq(BOOLEAN)
      BY <2>1, OutcomesTyped
    <3> HIDE DEF x
    <3> QED BY <2>2, <3>1, <3>2 DEF out
  <2> HIDE DEF x
  <2>4. seen = Scan!Latest(x)
    BY <1>2, <1>14
  <2>5. /\ Scan!Latest(Scan!Latest(x) \o out) = Scan!Latest(x \o out)
        /\ ~(Len(Scan!Latest(x)) < 2) => Scan!Latest(x \o out) = Scan!Latest(x)
    BY <1>3, <2>3, LatestBehind
  <2>6. CASE e \in needing
    BY <1>0, <2>3, <2>4, <2>5, <2>6
  <2>7. CASE e \notin needing
    BY <1>0, <1>2, <2>3, <2>4, <2>5, <2>7
  <2> QED BY <2>6, <2>7
<1>15. ReadSoFar(p, b, last, last, left, now, e)
  <2> DEFINE latest == Scan!Latest(Scan!Outcomes(SubSeq(p, 1, last), e))
  <2>1. now = <<>> => NotAsked(p, e, n - b + 1, last)
    BY <1>12
  <2>2. n = b => now = latest
    BY <1>14
  <2>3. now # <<>> => Scan!Asked(p, e) # {}
    BY <1>13
  <2> HIDE DEF latest
  <2> QED BY <1>10, <2>1, <2>2, <2>3, Zenon DEF ReadSoFar, n, latest
<1> QED BY <1>6, <1>15

LEMMA ScanRecordFields ==
  ASSUME NEW s \in ScanRecord
  PROVE  /\ s.at \in {"idle", "reading", "done"} /\ s.skip \in Nat
         /\ s.needing \in SUBSET Elements /\ s.more \in BOOLEAN
         /\ DOMAIN s.recent \in SUBSET Elements
         /\ \A e \in DOMAIN s.recent : s.recent[e] \in Seq(BOOLEAN)
         /\ s.recent \in UNION {[D -> Seq(BOOLEAN)] : D \in SUBSET Elements}
         /\ s.status \in UNION {[D -> {"unlearned", "learning", "mastered"}] : D \in SUBSET Elements}
         /\ s = [at |-> s.at, skip |-> s.skip, needing |-> s.needing, more |-> s.more,
                 recent |-> s.recent, status |-> s.status]
<1>1. /\ s.at \in {"idle", "reading", "done"} /\ s.skip \in Nat
      /\ s.needing \in SUBSET Elements /\ s.more \in BOOLEAN
      /\ s.recent \in UNION {[D -> Seq(BOOLEAN)] : D \in SUBSET Elements}
      /\ s.status \in UNION {[D -> {"unlearned", "learning", "mastered"}] : D \in SUBSET Elements}
      /\ s = [at |-> s.at, skip |-> s.skip, needing |-> s.needing, more |-> s.more,
              recent |-> s.recent, status |-> s.status]
  BY DEF ScanRecord
<1>2. PICK D \in SUBSET Elements : s.recent \in [D -> Seq(BOOLEAN)]
  BY <1>1
<1>3. DOMAIN s.recent \in SUBSET Elements /\ \A e \in DOMAIN s.recent : s.recent[e] \in Seq(BOOLEAN)
  BY <1>2
<1> QED BY <1>1, <1>3

LEMMA ReadKeepsScan ==
  ASSUME NEW p, NEW b, NEW s, ScanInv(p, b, s), s.at = "reading", s.more,
         NEW page, page = Page(p, s.skip),
         NEW recent,
         recent = [e \in DOMAIN s.recent |->
                     IF e \in s.needing THEN Scan!Latest(s.recent[e] \o Scan!Outcomes(page, e))
                     ELSE s.recent[e]],
         NEW needing, needing = {e \in s.needing : Len(recent[e]) < 2},
         NEW more, more = (Len(page) = PageSize)
  PROVE  ScanInv(p, b, [at |-> "reading", skip |-> s.skip + Len(page), needing |-> needing,
                        more |-> more, recent |-> recent, status |-> s.status])
<1> DEFINE n == Len(p)
           t == [at |-> "reading", skip |-> s.skip + Len(page), needing |-> needing,
                 more |-> more, recent |-> recent, status |-> s.status]
           D == DOMAIN s.recent
<1>1. p \in Seq(Sessions) /\ b \in 0 .. Len(p) /\ s \in ScanRecord
  BY DEF ScanInv
<1>2. /\ s.needing \in SUBSET Elements /\ D \in SUBSET Elements /\ s.more = TRUE
      /\ \A e \in D : s.recent[e] \in Seq(BOOLEAN)
      /\ s.status \in UNION {[X -> {"unlearned", "learning", "mastered"}] : X \in SUBSET Elements}
  BY <1>1, ScanRecordFields
<1>3. /\ s.skip \in 0 .. Len(p) /\ s.needing \subseteq D
      /\ \A e \in D : ReadSoFar(p, b, s.skip, s.skip, s.needing, s.recent[e], e)
  BY <1>2 DEF ScanInv, ScanReading, Bound
<1>4. PICK last \in s.skip .. Len(p) :
        /\ page = SubSeq(p, s.skip + 1, last) /\ page \in Seq(Sessions)
        /\ Len(page) = last - s.skip
        /\ \A i \in 1 .. last - s.skip : page[i] = p[s.skip + i]
        /\ Len(page) # PageSize => last = Len(p)
  BY <1>1, <1>3, PageRead
<1>5. s.skip + Len(page) = last /\ last \in 0 .. Len(p) /\ last \in Nat
  <2>1. n \in Nat
    BY <1>1
  <2>2. s.skip \in 0 .. n /\ last \in s.skip .. n /\ Len(page) = last - s.skip
    BY <1>3, <1>4
  <2> HIDE DEF n
  <2>3. s.skip + Len(page) = last /\ last \in 0 .. n /\ last \in Nat
    BY <2>1, <2>2
  <2> QED BY <2>3 DEF n
<1>6. more \in BOOLEAN /\ (~more => last = Len(p))
  BY <1>4
<1>7. /\ DOMAIN recent = D
      /\ \A e \in D : recent[e] = IF e \in s.needing THEN Scan!Latest(s.recent[e] \o Scan!Outcomes(page, e))
                                  ELSE s.recent[e]
  OBVIOUS
<1>8. ASSUME NEW e \in D
      PROVE  recent[e] \in Seq(BOOLEAN) /\ ReadSoFar(p, b, last, last, needing, recent[e], e)
  <2> DEFINE seen == s.recent[e]
             now == recent[e]
  <2>1. seen \in Seq(BOOLEAN) /\ e \in Elements /\ ReadSoFar(p, b, s.skip, s.skip, s.needing, seen, e)
    BY <1>2, <1>3, <1>8
  <2>2. now = IF e \in s.needing THEN Scan!Latest(seen \o Scan!Outcomes(page, e)) ELSE seen
    BY <1>7, <1>8
  <2>3. e \in needing <=> e \in s.needing /\ Len(now) < 2
    OBVIOUS
  <2> DEFINE k == s.skip
             w == s.needing
  <2> HIDE DEF seen, now
  <2>5. p \in Seq(Sessions) /\ b \in 0 .. Len(p) /\ k \in 0 .. Len(p) /\ last \in k .. Len(p)
    BY <1>1, <1>3
  <2>6. PageUpTo(p, k, last, page) /\ page \in Seq(Sessions)
    BY <1>4 DEF PageUpTo
  <2>7. ReadSoFar(p, b, k, k, w, seen, e) /\ Grown(page, w, needing, seen, now, e)
    BY <2>1, <2>2, <2>3 DEF Grown
  <2> HIDE DEF k, w
  <2>8. seen \in Seq(BOOLEAN) /\ e \in Elements
    BY <2>1
  <2>4. now \in Seq(BOOLEAN) /\ ReadSoFar(p, b, last, last, needing, now, e)
    BY <2>5, <2>6, <2>7, <2>8, PageAdds
  <2> QED BY <2>4 DEF now
<1>9. recent \in UNION {[X -> Seq(BOOLEAN)] : X \in SUBSET Elements}
  <2>1. recent \in [D -> Seq(BOOLEAN)]
    BY <1>7, <1>8
  <2> QED BY <1>2, <2>1
<1>10. needing \in SUBSET Elements /\ needing \subseteq D
  BY <1>2, <1>3
<1>11. t \in ScanRecord
  BY <1>2, <1>5, <1>6, <1>9, <1>10 DEF ScanRecord
<1>12. /\ t.at = "reading" /\ t.skip = last /\ t.more = more /\ t.needing = needing /\ t.recent = recent
  BY <1>5
<1> HIDE DEF t, D
<1>13. ScanReading(p, b, t)
  <2>1. Bound(p, t) = last
    BY <1>6, <1>12 DEF Bound
  <2> QED BY <1>5, <1>6, <1>7, <1>8, <1>10, <1>12, <2>1 DEF ScanReading
<1>14. ScanDone(p, b, t)
  BY <1>12 DEF ScanDone
<1>15. ScanInv(p, b, t)
  BY <1>1, <1>11, <1>13, <1>14 DEF ScanInv
<1> QED BY <1>15 DEF t

LEMMA ReportKeepsScan ==
  ASSUME NEW p, NEW b, NEW s, ScanInv(p, b, s), s.at = "reading", s.needing = {} \/ ~s.more,
         NEW status, status = [e \in DOMAIN s.recent |-> Scan!Status(s.recent[e])]
  PROVE  ScanInv(p, b, [at |-> "done", skip |-> 0, needing |-> {},
                        more |-> FALSE, recent |-> s.recent, status |-> status])
<1> DEFINE n == Len(p)
           t == [at |-> "done", skip |-> 0, needing |-> {},
                 more |-> FALSE, recent |-> s.recent, status |-> status]
           D == DOMAIN s.recent
<1>1. p \in Seq(Sessions) /\ b \in 0 .. Len(p) /\ s \in ScanRecord /\ n \in Nat
  <2>1. p \in Seq(Sessions) /\ b \in 0 .. Len(p) /\ s \in ScanRecord
    BY DEF ScanInv
  <2> QED BY <2>1
<1>2. /\ s.needing \in SUBSET Elements /\ D \in SUBSET Elements /\ s.more \in BOOLEAN
      /\ \A e \in D : s.recent[e] \in Seq(BOOLEAN)
      /\ s.recent \in UNION {[X -> Seq(BOOLEAN)] : X \in SUBSET Elements}
  BY <1>1, ScanRecordFields
<1>3. /\ s.skip \in 0 .. Len(p)
      /\ ~s.more /\ Len(p) = b => s.skip = Len(p)
      /\ \A e \in D : ReadSoFar(p, b, s.skip, Bound(p, s), s.needing, s.recent[e], e)
  BY DEF ScanInv, ScanReading
<1>4. DOMAIN status = D /\ \A e \in D : status[e] = Scan!Status(s.recent[e])
  OBVIOUS
<1>5. \A x : Scan!Status(x) \in {"unlearned", "learning", "mastered"}
             /\ (Scan!Status(x) = "unlearned" <=> x = <<>>)
  BY DEF Scan!Status
<1>6. status \in UNION {[X -> {"unlearned", "learning", "mastered"}] : X \in SUBSET Elements}
  <2>1. status \in [D -> {"unlearned", "learning", "mastered"}]
    BY <1>4, <1>5
  <2> QED BY <1>2, <2>1
<1>7. ASSUME NEW e \in D PROVE Reported(p, b, status[e], e)
  <2> DEFINE seen == s.recent[e]
             bound == IF s.more THEN s.skip ELSE n
  <2>1. seen \in Seq(BOOLEAN) /\ e \in Elements
    BY <1>2, <1>7
  <2>2. ReadSoFar(p, b, s.skip, Bound(p, s), s.needing, seen, e)
    BY <1>3, <1>7
  <2>3. /\ e \in s.needing <=> Len(seen) < 2
        /\ seen = <<>> => NotAsked(p, e, n - b + 1, bound)
        /\ seen # <<>> => Scan!Asked(p, e) # {}
        /\ n = b => seen = Scan!Latest(Scan!Outcomes(SubSeq(p, 1, s.skip), e))
    BY <2>2, Zenon DEF ReadSoFar, Bound
  <2>4. status[e] = Scan!Status(seen)
    BY <1>4, <1>7
  <2> HIDE DEF seen
  <2>5. Len(<<>>) < 2
    OBVIOUS
  <2>6. ASSUME seen = <<>> PROVE NotAsked(p, e, n - b + 1, n)
    <3>1. e \in s.needing
      BY <2>3, <2>5, <2>6
    <3>2. bound = n
      BY <3>1
    <3> QED BY <2>3, <2>6, <3>2
  <2>7. ASSUME n = b PROVE seen = Scan!Latest(Scan!Outcomes(p, e))
    <3> DEFINE k == s.skip
               before == SubSeq(p, 1, k)
               behind == SubSeq(p, k + 1, n)
               x == Scan!Outcomes(before, e)
    <3>1. seen = Scan!Latest(x)
      BY <2>3, <2>7
    <3>2. k \in 0 .. n /\ k \in Int
      BY <1>1, <1>3
    <3>3. CASE ~s.more
      <4>1. k = n
        BY <1>3, <2>7, <3>3
      <4>2. before = p
        BY <1>1, <4>1, SubSeqFull
      <4> QED BY <3>1, <4>2
    <3>4. CASE s.needing = {}
      <4>1. ~(Len(seen) < 2)
        BY <2>3, <3>4
      <4>2. before \in Seq(Sessions) /\ behind \in Seq(Sessions)
        <5>1. \A i \in 1 .. n : p[i] \in Sessions
          BY <1>1, ElementOfSeq
        <5>2. 1 \in Int /\ k + 1 \in Int /\ n \in Int /\ k \in Int
          BY <1>1, <3>2
        <5>3. \A i \in 1 .. k : p[i] \in Sessions
          BY <1>1, <3>2, <5>1
        <5>4. \A i \in (k + 1) .. n : p[i] \in Sessions
          BY <1>1, <3>2, <5>1
        <5> HIDE DEF k, n
        <5>5. before \in Seq(Sessions)
          BY <5>2, <5>3, SubSeqProperties
        <5>6. behind \in Seq(Sessions)
          BY <5>2, <5>4, SubSeqProperties
        <5> QED BY <5>5, <5>6
      <4>3. before \o behind = p
        <5>1. 1 \in 1 .. Len(p) + 1 /\ k \in 1 - 1 .. Len(p) /\ Len(p) \in k .. Len(p)
          BY <1>1, <3>2
        <5>2. before \o behind = SubSeq(p, 1, n)
          <6> HIDE DEF k
          <6> QED BY <1>1, <5>1, ConcatAdjacentSubSeq
        <5> QED BY <1>1, <5>2, SubSeqFull
      <4> DEFINE y == Scan!Outcomes(behind, e)
      <4> HIDE DEF before, behind
      <4>4. x \in Seq(BOOLEAN) /\ y \in Seq(BOOLEAN)
        BY <2>1, <4>2, OutcomesTyped
      <4>5. Scan!Outcomes(before \o behind, e) = x \o y
        BY <2>1, <4>2, OutcomesBehind
      <4> HIDE DEF x, y
      <4>6. Scan!Latest(x \o y) = Scan!Latest(x)
        BY <3>1, <4>1, <4>4, LatestBehind
      <4> QED BY <3>1, <4>3, <4>5, <4>6
    <3> QED BY <3>3, <3>4
  <2>8. status[e] = "unlearned" => NotAsked(p, e, n - b + 1, n)
    BY <1>5, <2>4, <2>6
  <2>9. status[e] # "unlearned" => Scan!Asked(p, e) # {}
    BY <1>5, <2>3, <2>4
  <2>10. n = b => status[e] = Scan!Status(Scan!Latest(Scan!Outcomes(p, e)))
    BY <2>4, <2>7
  <2> QED BY <2>8, <2>9, <2>10, Zenon DEF Reported
<1>8. t \in ScanRecord
  BY <1>2, <1>6 DEF ScanRecord
<1>9. t.at = "done" /\ t.status = status
  OBVIOUS
<1> HIDE DEF t
<1>10. ScanReading(p, b, t)
  BY <1>9 DEF ScanReading
<1>11. ScanDone(p, b, t)
  BY <1>4, <1>7, <1>9 DEF ScanDone
<1>12. ScanInv(p, b, t)
  BY <1>1, <1>8, <1>10, <1>11 DEF ScanInv
<1> QED BY <1>12 DEF t

----------------------------------------------------------------------------
(* What was so at some moment.                                              *)

LEMMA Within ==
  ASSUME NEW p \in Seq(Sessions), NEW a \in 1 .. Len(p) + 1, NEW m \in 0 .. Len(p)
  PROVE  /\ SubSeq(p, a, m) \in Seq(Sessions)
         /\ Len(SubSeq(p, a, m)) = IF a <= m THEN m - a + 1 ELSE 0
         /\ \A i \in 1 .. m - a + 1 : SubSeq(p, a, m)[i] = p[a + i - 1]
<1>1. Len(p) \in Nat /\ a \in Int /\ m \in Int
  OBVIOUS
<1>2. \A i \in 1 .. Len(p) : p[i] \in Sessions
  BY ElementOfSeq
<1>3. \A i \in a .. m : p[i] \in Sessions
  BY <1>1, <1>2
<1> QED BY <1>1, <1>3, SubSeqProperties

(* Mastered: the two latest are there and right.                            *)
LEMMA MasteredMeans ==
  ASSUME NEW x \in Seq(BOOLEAN)
  PROVE  /\ Scan!Status(Scan!Latest(x)) = "mastered" <=> Len(x) >= 2 /\ x[1] /\ x[2]
         /\ \A k \in 1 .. Len(Scan!Latest(x)) : Scan!Latest(x)[k] = x[k] /\ k <= 2 /\ k <= Len(x)
         /\ Len(Scan!Latest(x)) = IF Len(x) < 2 THEN Len(x) ELSE 2
         /\ Len(x) = 2 => (Scan!Status(x) = "mastered" <=> x[1] /\ x[2])
         /\ Scan!Status(x) = "mastered" => Len(x) = 2
<1> DEFINE y == Scan!Latest(x)
<1>1. Len(x) \in Nat /\ \A k \in 1 .. Len(x) : x[k] \in BOOLEAN
  <2>1. Len(x) \in Nat
    OBVIOUS
  <2>2. \A k \in 1 .. Len(x) : x[k] \in BOOLEAN
    BY ElementOfSeq
  <2> QED BY <2>1, <2>2
<1>2. y \in Seq(BOOLEAN) /\ Len(y) = (IF Len(x) < 2 THEN Len(x) ELSE 2)
      /\ \A k \in 1 .. Len(y) : y[k] = x[k]
  <2>1. y = IF Len(x) < 2 THEN x ELSE SubSeq(x, 1, 2)
    BY DEF Scan!Latest, Scan!FirstTwo, Scan!RequiredConsecutiveCorrectCount
  <2>2. CASE Len(x) < 2
    BY <2>1, <2>2
  <2>3. CASE ~(Len(x) < 2)
    <3>1. \A k \in 1 .. 2 : x[k] \in BOOLEAN
      BY <1>1, <2>3
    <3>2. SubSeq(x, 1, 2) \in Seq(BOOLEAN) /\ Len(SubSeq(x, 1, 2)) = 2
          /\ \A k \in 1 .. 2 : SubSeq(x, 1, 2)[k] = x[k]
      BY <3>1, SubSeqProperties
    <3> QED BY <2>1, <2>3, <3>2
  <2> QED BY <2>2, <2>3
<1>3. ASSUME NEW z \in Seq(BOOLEAN)
      PROVE  Scan!Status(z) = "mastered" <=> Len(z) = 2 /\ z[1] /\ z[2]
  <2>1. Scan!Status(z) = "mastered" <=> z # <<>> /\ Len(z) = 2 /\ FALSE \notin Scan!ToSet(z)
    BY DEF Scan!Status, Scan!RequiredConsecutiveCorrectCount, Scan!ToSet
  <2>2. Scan!ToSet(z) = {z[i] : i \in DOMAIN z} /\ DOMAIN z = 1 .. Len(z)
    BY DEF Scan!ToSet
  <2>3. ASSUME Len(z) = 2 PROVE z # <<>> /\ (FALSE \notin Scan!ToSet(z) <=> z[1] /\ z[2])
    <3>1. DOMAIN z = {1, 2}
      BY <2>2, <2>3
    <3>2. z[1] \in BOOLEAN /\ z[2] \in BOOLEAN
      BY <2>2, <3>1, ElementOfSeq
    <3>3. FALSE \in Scan!ToSet(z) <=> \E i \in {1, 2} : z[i] = FALSE
      BY <2>2, <3>1, Zenon
    <3>4. (z[1] = FALSE <=> ~z[1]) /\ (z[2] = FALSE <=> ~z[2])
      BY <3>2, Zenon
    <3>5. (\E i \in {1, 2} : z[i] = FALSE) <=> ~z[1] \/ ~z[2]
      BY <3>4, Zenon
    <3>6. z # <<>>
      BY <2>3
    <3> QED BY <3>3, <3>5, <3>6, Zenon
  <2> QED BY <2>1, <2>3
<1> HIDE DEF y
<1>4. Scan!Status(y) = "mastered" <=> Len(x) >= 2 /\ x[1] /\ x[2]
  BY <1>1, <1>2, <1>3
<1>5. \A k \in 1 .. Len(y) : y[k] = x[k] /\ k <= 2 /\ k <= Len(x)
  BY <1>1, <1>2
<1> QED BY <1>2, <1>3, <1>4, <1>5 DEF y

LEMMA NewestOutcome ==
  ASSUME NEW p \in Seq(Sessions), NEW i \in 1 .. Len(p), NEW e \in Elements, p[i][e] # {}
  PROVE  /\ Scan!Outcomes(SubSeq(p, i, Len(p)), e) \in Seq(BOOLEAN)
         /\ Scan!Outcomes(SubSeq(p, i, Len(p)), e) # <<>>
         /\ Len(Scan!Outcomes(SubSeq(p, i, Len(p)), e)) \in Nat \ {0}
         /\ Scan!Outcomes(SubSeq(p, i, Len(p)), e)[1] = Scan!Outcome(p[i][e])
<1> DEFINE n == Len(p)
           q == SubSeq(p, i, n)
           A == Scan!Asked(q, e)
<1>1. n \in Nat /\ i \in 1 .. n + 1 /\ n \in 0 .. n /\ 1 \in 1 .. n - i + 1 /\ i + 1 - 1 = i /\ i <= n
  OBVIOUS
<1>2. q \in Seq(Sessions) /\ Len(q) = n - i + 1 /\ q[1] = p[i]
  <2> HIDE DEF q
  <2>1. /\ q \in Seq(Sessions) /\ Len(q) = IF i <= n THEN n - i + 1 ELSE 0
        /\ \A j \in 1 .. n - i + 1 : q[j] = p[i + j - 1]
    BY <1>1, Within DEF q
  <2> QED BY <1>1, <2>1
<1>3. 1 \in A
  <2>1. DOMAIN q = 1 .. n - i + 1
    BY <1>2
  <2> HIDE DEF q
  <2> QED BY <1>1, <1>2, <2>1 DEF Scan!Asked
<1> HIDE DEF q, n
<1>4. IsFiniteSet(A) /\ A \subseteq Int /\ A \in SUBSET (Nat \ {0}) /\ Cardinality(A) \in Nat
  BY <1>2, AskedTyped
<1> HIDE DEF A
<1>5. Nth(A, 1) = 1
  <2>1. \A j \in A : ~(j < 1)
    <3>1. \A j \in Nat \ {0} : ~(j < 1)
      OBVIOUS
    <3> QED BY <1>4, <3>1
  <2>2. Below(A, 1) = {}
    BY <2>1, Zenon DEF Below
  <2>3. Cardinality(Below(A, 1)) = 0
    BY <2>2, FS_EmptySet, Zenon
  <2>4. 0 = 1 - 1
    OBVIOUS
  <2>5. Cardinality(Below(A, 1)) = 1 - 1
    BY <2>3, <2>4, Zenon
  <2> QED BY <1>3, <1>4, <2>5, NthIs
<1>6. Cardinality(A) # 0
  BY <1>3, <1>4, FS_EmptySet
<1>7. 1 \in 1 .. Cardinality(A)
  BY <1>4, <1>6
<1>8. /\ Scan!Outcomes(q, e) \in Seq(BOOLEAN) /\ Len(Scan!Outcomes(q, e)) = Cardinality(A)
      /\ Scan!Outcomes(q, e)[1] = Scan!Outcome(q[Nth(A, 1)][e])
      /\ Scan!Outcomes(q, e) # <<>>
  BY <1>2, <1>3, <1>7, OutcomesTyped DEF A
<1> QED BY <1>2, <1>4, <1>5, <1>6, <1>8 DEF q, n

(* What the history told when it had k sessions, it told once.              *)
LEMMA TellsOnce ==
  ASSUME NEW p \in Seq(Sessions), NEW b \in 0 .. Len(p), NEW e \in Elements, NEW k \in b .. Len(p),
         OldOutcomes(p, k, e) \in Seq(BOOLEAN)
  PROVE  /\ OldOutcomes(p, k, e) # <<>> /\ OldOutcomes(p, k, e)[1] => RightOnce(p, b, e)
         /\ ~(Len(OldOutcomes(p, k, e)) >= 2 /\ OldOutcomes(p, k, e)[1] /\ OldOutcomes(p, k, e)[2])
              => NotMasteredOnce(p, b, e)
<1> DEFINE x == OldOutcomes(p, k, e)
<1>1. x # <<>> /\ x[1] => RightOnce(p, b, e)
  BY Zenon DEF RightOnce
<1>2. Scan!Status(Scan!Latest(x)) # "mastered" => NotMasteredOnce(p, b, e)
  BY Zenon DEF NotMasteredOnce
<1> HIDE DEF x
<1>3. Scan!Status(Scan!Latest(x)) = "mastered" <=> Len(x) >= 2 /\ x[1] /\ x[2]
  BY MasteredMeans DEF x
<1> QED BY <1>1, <1>2, <1>3, Zenon DEF x

(* An outcome of a session saved since was the newest when it was saved.    *)
LEMMA NewOutcomesTell ==
  ASSUME NEW p \in Seq(Sessions), NEW b \in 0 .. Len(p), NEW e \in Elements,
         NEW a \in 1 .. Len(p) + 1, NEW m \in 0 .. Len(p), m <= Len(p) - b,
         NEW k \in 1 .. Len(Scan!Outcomes(SubSeq(p, a, m), e))
  PROVE  /\ Scan!Outcomes(SubSeq(p, a, m), e)[k] => RightOnce(p, b, e)
         /\ ~Scan!Outcomes(SubSeq(p, a, m), e)[k] => NotMasteredOnce(p, b, e)
<1> DEFINE n == Len(p)
           q == SubSeq(p, a, m)
           A == Scan!Asked(q, e)
           j == Nth(A, k)
           i == a + j - 1
           w == n - i + 1
           x == OldOutcomes(p, w, e)
           o == Scan!Outcomes(q, e)[k]
<1>1. n \in Nat /\ a \in Int /\ m \in Int /\ b \in Int /\ a \in 1 .. n + 1 /\ m \in 0 .. n
      /\ m <= n - b /\ b \in 0 .. n
  OBVIOUS
<1>2. /\ q \in Seq(Sessions) /\ Len(q) = IF a <= m THEN m - a + 1 ELSE 0
      /\ \A y \in 1 .. m - a + 1 : q[y] = p[a + y - 1]
  BY Within
<1> HIDE DEF q
<1>3. /\ IsFiniteSet(A) /\ A \subseteq Int /\ A \in SUBSET (1 .. Len(q))
      /\ k \in 1 .. Cardinality(A) /\ o = Scan!Outcome(q[j][e])
  <2>1. /\ IsFiniteSet(A) /\ A \subseteq Int /\ A \in SUBSET (1 .. Len(q))
    BY <1>2, AskedTyped
  <2>2. k \in 1 .. Len(Scan!Outcomes(q, e))
    BY DEF q
  <2>3. /\ Len(Scan!Outcomes(q, e)) = Cardinality(A)
        /\ \A y \in 1 .. Cardinality(A) : Scan!Outcomes(q, e)[y] = Scan!Outcome(q[Nth(A, y)][e])
    BY <1>2, OutcomesTyped
  <2>4. k \in 1 .. Cardinality(A)
    BY <2>2, <2>3
  <2> QED BY <2>1, <2>3, <2>4
<1>4. j \in A /\ j \in 1 .. Len(q) /\ q[j][e] # {}
  <2>1. j \in A
    BY <1>3, NthThere
  <2> QED BY <1>3, <2>1 DEF Scan!Asked
<1> HIDE DEF j, n, A
<1>5. j \in 1 .. m - a + 1 /\ i \in 1 .. m /\ i \in 1 .. n /\ w \in b .. n /\ n - w + 1 = i
  BY <1>1, <1>2, <1>4
<1>6. p[i] = q[j]
  BY <1>2, <1>5
<1>7. x = Scan!Outcomes(SubSeq(p, i, n), e)
  BY <1>5 DEF OldOutcomes, n
<1> HIDE DEF w, i
<1>8. p[i][e] # {}
  BY <1>4, <1>6
<1> HIDE DEF x, o
<1>9. x \in Seq(BOOLEAN) /\ x # <<>> /\ x[1] = o
  BY <1>3, <1>5, <1>6, <1>7, <1>8, NewestOutcome DEF n
<1>10. /\ x # <<>> /\ x[1] => RightOnce(p, b, e)
       /\ ~(Len(x) >= 2 /\ x[1] /\ x[2]) => NotMasteredOnce(p, b, e)
  BY <1>5, <1>9, TellsOnce DEF x, n
<1>11. /\ o => RightOnce(p, b, e)
       /\ ~o => NotMasteredOnce(p, b, e)
  BY <1>9, <1>10
<1> QED BY <1>11 DEF o, q

LEMMA OutcomesJoin ==
  ASSUME NEW p \in Seq(Sessions), NEW e \in Elements, NEW a \in 1 .. Len(p) + 1,
         NEW k \in a - 1 .. Len(p), NEW m \in k .. Len(p)
  PROVE  /\ Scan!Outcomes(SubSeq(p, a, k), e) \in Seq(BOOLEAN)
         /\ Scan!Outcomes(SubSeq(p, k + 1, m), e) \in Seq(BOOLEAN)
         /\ Scan!Outcomes(SubSeq(p, a, m), e) \in Seq(BOOLEAN)
         /\ Scan!Outcomes(SubSeq(p, a, m), e)
              = Scan!Outcomes(SubSeq(p, a, k), e) \o Scan!Outcomes(SubSeq(p, k + 1, m), e)
<1>1. k \in 0 .. Len(p) /\ m \in 0 .. Len(p) /\ k + 1 \in 1 .. Len(p) + 1
  OBVIOUS
<1>2. SubSeq(p, a, k) \in Seq(Sessions) /\ SubSeq(p, k + 1, m) \in Seq(Sessions)
      /\ SubSeq(p, a, m) \in Seq(Sessions)
  BY <1>1, Within
<1>3. SubSeq(p, a, k) \o SubSeq(p, k + 1, m) = SubSeq(p, a, m)
  BY ConcatAdjacentSubSeq
<1>4. \A q \in Seq(Sessions) : Scan!Outcomes(q, e) \in Seq(BOOLEAN)
  BY OutcomesTyped
<1>5. \A q, r \in Seq(Sessions) : Scan!Outcomes(q \o r, e) = Scan!Outcomes(q, e) \o Scan!Outcomes(r, e)
  BY OutcomesBehind
<1> QED BY <1>2, <1>3, <1>4, <1>5, Zenon

LEMMA NothingRead ==
  ASSUME NEW p, NEW e \in Elements, NEW a \in Int, NEW m \in Int, m < a
  PROVE  Scan!Outcomes(SubSeq(p, a, m), e) = <<>> /\ Len(Scan!Outcomes(SubSeq(p, a, m), e)) = 0
<1>1. SubSeq(p, a, m) = <<>>
  BY SubSeqEmpty
<1>2. <<>> \in Seq(Sessions) /\ Scan!Asked(<<>>, e) = {}
  BY DEF Scan!Asked
<1>3. Scan!Outcomes(<<>>, e) = <<>>
  BY <1>2, OutcomesTyped
<1> QED BY <1>1, <1>3

(* What a page tells of an element: first what was saved since, then what   *)
(* was there at the start, which follows what has been read of that.        *)
PageTells(p, b, e, out, before, after, new, old, rest) ==
  /\ new \in Seq(BOOLEAN) /\ old \in Seq(BOOLEAN) /\ rest \in Seq(BOOLEAN)
  /\ before \in Seq(BOOLEAN) /\ after \in Seq(BOOLEAN)
  /\ out = new \o old
  /\ \A k \in 1 .. Len(new) : /\ new[k] => RightOnce(p, b, e)
                              /\ ~new[k] => NotMasteredOnce(p, b, e)
  /\ after = before \o old
  /\ OldOutcomes(p, b, e) = after \o rest

LEMMA PageSplits ==
  ASSUME NEW p \in Seq(Sessions), NEW b \in 0 .. Len(p), NEW e \in Elements,
         NEW skip \in 0 .. Len(p), NEW last \in skip .. Len(p)
  PROVE  \E new, old, rest :
           PageTells(p, b, e, Scan!Outcomes(SubSeq(p, skip + 1, last), e),
                     OldRead(p, b, skip, e), OldRead(p, b, last, e), new, old, rest)
<1> DEFINE n == Len(p)
           n1 == n - b
           out(i, j) == Scan!Outcomes(SubSeq(p, i, j), e)
           m == IF last <= n1 THEN last ELSE IF skip <= n1 THEN n1 ELSE skip
<1>1. n \in Nat /\ b \in 0 .. n /\ n1 \in 0 .. n /\ skip \in 0 .. n /\ last \in skip .. n
      /\ last \in 0 .. n
  OBVIOUS
<1>2. \A i \in 1 .. n + 1 : \A j \in i - 1 .. n : \A l \in j .. n :
        /\ out(i, j) \in Seq(BOOLEAN) /\ out(j + 1, l) \in Seq(BOOLEAN)
        /\ out(i, l) \in Seq(BOOLEAN) /\ out(i, l) = out(i, j) \o out(j + 1, l)
  BY OutcomesJoin
<1>3. \A i, j \in Int : j < i => out(i, j) = <<>> /\ Len(out(i, j)) = 0
  BY NothingRead
<1>4. \A i \in 1 .. n + 1, j \in 0 .. n : j <= n1 =>
        \A k \in 1 .. Len(out(i, j)) : /\ out(i, j)[k] => RightOnce(p, b, e)
                                       /\ ~out(i, j)[k] => NotMasteredOnce(p, b, e)
  BY NewOutcomesTell
<1>5. OldRead(p, b, skip, e) = out(n1 + 1, skip) /\ OldRead(p, b, last, e) = out(n1 + 1, last)
      /\ OldOutcomes(p, b, e) = out(n1 + 1, n)
  BY DEF OldRead, OldOutcomes
<1> HIDE DEF n, out
<1> DEFINE new == out(skip + 1, m)
           old == out(m + 1, last)
           rest == IF n1 <= last THEN out(last + 1, n) ELSE out(n1 + 1, n)
<1>6. m \in skip .. last /\ m \in 0 .. n
  BY <1>1
<1>7. new \in Seq(BOOLEAN) /\ old \in Seq(BOOLEAN) /\ out(skip + 1, last) = new \o old
  <2>1. skip + 1 \in 1 .. n + 1 /\ m \in (skip + 1) - 1 .. n /\ last \in m .. n
    BY <1>1, <1>6
  <2> HIDE DEF m
  <2> QED BY <1>2, <2>1
<1>8. \A k \in 1 .. Len(new) : /\ new[k] => RightOnce(p, b, e)
                               /\ ~new[k] => NotMasteredOnce(p, b, e)
  <2>1. skip + 1 \in 1 .. n + 1 /\ skip + 1 \in Int /\ m \in Int
    BY <1>1, <1>6
  <2>2. m <= n1 \/ m < skip + 1
    BY <1>1
  <2>3. CASE m <= n1
    <3> HIDE DEF m, n1
    <3> QED BY <1>4, <1>6, <2>1, <2>3
  <2>4. CASE m < skip + 1
    <3> HIDE DEF m, n1
    <3>1. Len(new) = 0
      BY <1>3, <2>1, <2>4
    <3>2. 1 .. Len(new) = {}
      BY <3>1
    <3> QED BY <3>2
  <2> QED BY <2>2, <2>3, <2>4
<1>9. /\ out(n1 + 1, skip) \in Seq(BOOLEAN) /\ out(n1 + 1, last) \in Seq(BOOLEAN)
      /\ out(n1 + 1, last) = out(n1 + 1, skip) \o old
  <2>0. <<>> \in Seq(BOOLEAN) /\ <<>> \o <<>> = <<>>
    OBVIOUS
  <2>1. CASE n1 <= skip
    <3>1. n1 + 1 \in 1 .. n + 1 /\ skip \in (n1 + 1) - 1 .. n /\ last \in skip .. n /\ m = skip
      BY <1>1, <2>1
    <3> HIDE DEF m, n1
    <3> QED BY <1>2, <3>1
  <2>2. CASE ~(n1 <= skip) /\ last <= n1
    <3>1. n1 + 1 \in Int /\ m + 1 \in Int /\ skip < n1 + 1 /\ last < n1 + 1 /\ last < m + 1 /\ last \in Int
          /\ skip \in Int
      BY <1>1, <2>2
    <3> HIDE DEF m, n1
    <3> QED BY <1>3, <2>0, <3>1
  <2>3. CASE ~(n1 <= skip) /\ ~(last <= n1)
    <3>1. n1 + 1 \in Int /\ skip \in Int /\ skip < n1 + 1 /\ m = n1
      BY <1>1, <2>3
    <3> HIDE DEF m, n1
    <3>2. out(n1 + 1, skip) = <<>> /\ out(n1 + 1, last) = old
      BY <1>3, <3>1
    <3> HIDE DEF old
    <3> QED BY <1>7, <2>0, <3>2, ConcatEmptySeq
  <2> QED BY <2>1, <2>2, <2>3
<1>10. rest \in Seq(BOOLEAN) /\ out(n1 + 1, n) = out(n1 + 1, last) \o rest
  <2>1. CASE n1 <= last
    <3>1. n1 + 1 \in 1 .. n + 1 /\ last \in (n1 + 1) - 1 .. n /\ n \in last .. n
      BY <1>1, <2>1
    <3>2. rest = out(last + 1, n)
      BY <2>1
    <3> HIDE DEF n1, rest
    <3> QED BY <1>2, <3>1, <3>2
  <2>2. CASE ~(n1 <= last)
    <3>1. n1 + 1 \in Int /\ last \in Int /\ last < n1 + 1
          /\ n1 + 1 \in 1 .. n + 1 /\ n \in (n1 + 1) - 1 .. n /\ n \in n .. n
      BY <1>1, <2>2
    <3>2. rest = out(n1 + 1, n)
      BY <2>2
    <3> HIDE DEF n1, rest
    <3>3. out(n1 + 1, last) = <<>> /\ rest \in Seq(BOOLEAN)
      BY <1>2, <1>3, <3>1, <3>2
    <3> QED BY <3>2, <3>3, ConcatEmptySeq
  <2> QED BY <2>1, <2>2
<1> HIDE DEF new, old, rest, m, n1
<1>11. PageTells(p, b, e, out(skip + 1, last), out(n1 + 1, skip), out(n1 + 1, last), new, old, rest)
  BY <1>5, <1>7, <1>8, <1>9, <1>10 DEF PageTells
<1>12. PageTells(p, b, e, Scan!Outcomes(SubSeq(p, skip + 1, last), e),
                 OldRead(p, b, skip, e), OldRead(p, b, last, e), new, old, rest)
  BY <1>5, <1>11 DEF out
<1> QED BY <1>12, Zenon

(* What a page adds is explained, as what was read before it was: the old   *)
(* outcomes among the first two are the first two old ones.                 *)
LEMMA PageExplained ==
  ASSUME NEW p \in Seq(Sessions), NEW b \in 0 .. Len(p), NEW e \in Elements, NEW seen \in Seq(BOOLEAN), NEW out, NEW now,
         NEW before, NEW after, NEW new, NEW old, NEW rest,
         PageTells(p, b, e, out, before, after, new, old, rest),
         seen # <<>> /\ seen[1] => RightOnce(p, b, e),
         \A i \in 1 .. Len(seen) : ~seen[i] => NotMasteredOnce(p, b, e),
         Len(seen) < 2 => Len(before) <= Len(seen),
         now = Scan!Latest(seen \o out), Len(seen) < 2
  PROVE  /\ now # <<>> /\ now[1] => RightOnce(p, b, e)
         /\ \A i \in 1 .. Len(now) : ~now[i] => NotMasteredOnce(p, b, e)
         /\ Len(now) < 2 => Len(after) <= Len(now)
         /\ Len(now) <= 2
<1> DEFINE w == seen \o out
           x == OldOutcomes(p, b, e)
           R == RightOnce(p, b, e)
           M == NotMasteredOnce(p, b, e)
           ls == Len(seen)
           ln == Len(new)
           lo == Len(old)
           ly == Len(before)
<1>1. /\ new \in Seq(BOOLEAN) /\ old \in Seq(BOOLEAN) /\ rest \in Seq(BOOLEAN)
      /\ before \in Seq(BOOLEAN) /\ after \in Seq(BOOLEAN)
      /\ out = new \o old /\ after = before \o old /\ x = after \o rest
      /\ \A k \in 1 .. ln : (new[k] => R) /\ (~new[k] => M)
  BY DEF PageTells
<1>2. ls \in Nat /\ ln \in Nat /\ lo \in Nat /\ ly \in Nat /\ Len(rest) \in Nat
      /\ ls < 2 /\ ly <= ls
  <2>1. \A z \in Seq(BOOLEAN) : Len(z) \in Nat
    OBVIOUS
  <2> QED BY <1>1, <2>1
<1>3. out \in Seq(BOOLEAN) /\ Len(out) = ln + lo
      /\ \A i \in 1 .. ln + lo : out[i] = IF i <= ln THEN new[i] ELSE old[i - ln]
  BY <1>1, ConcatProperties
<1>4. after \in Seq(BOOLEAN) /\ Len(after) = ly + lo
      /\ \A i \in 1 .. ly + lo : after[i] = IF i <= ly THEN before[i] ELSE old[i - ly]
  BY <1>1, ConcatProperties
<1>5. w \in Seq(BOOLEAN) /\ Len(w) = ls + Len(out)
      /\ \A i \in 1 .. ls + Len(out) : w[i] = IF i <= ls THEN seen[i] ELSE out[i - ls]
  BY <1>3, ConcatProperties
<1>6. x \in Seq(BOOLEAN) /\ Len(x) = ly + lo + Len(rest)
      /\ \A i \in 1 .. ly + lo : x[i] = after[i]
  <2>1. after \in Seq(BOOLEAN) /\ rest \in Seq(BOOLEAN) /\ x = after \o rest
    BY <1>1
  <2> HIDE DEF x
  <2>2. x \in Seq(BOOLEAN) /\ Len(x) = Len(after) + Len(rest)
        /\ \A i \in 1 .. Len(after) + Len(rest) :
             x[i] = IF i <= Len(after) THEN after[i] ELSE rest[i - Len(after)]
    BY <2>1, ConcatProperties
  <2> QED BY <1>2, <1>4, <2>2
<1>7. /\ x # <<>> /\ x[1] => R
      /\ ~(Len(x) >= 2 /\ x[1] /\ x[2]) => M
  <2>1. b \in b .. Len(p)
    OBVIOUS
  <2> QED BY <1>6, <2>1, TellsOnce DEF x, R, M
<1>8. Len(now) = (IF Len(w) < 2 THEN Len(w) ELSE 2)
      /\ \A k \in 1 .. Len(now) : now[k] = w[k] /\ k <= 2 /\ k <= Len(w)
  BY <1>5, MasteredMeans
<1> HIDE DEF w, x, R, M, ls, ln, lo, ly
<1>9. ASSUME NEW k \in 1 .. Len(now)
      PROVE  (~now[k] => M) /\ (k = 1 /\ now[k] => R)
  <2>1. k \in 1 .. ls + (ln + lo) /\ now[k] = w[k] /\ k \in 1 .. 2
    BY <1>2, <1>3, <1>5, <1>8
  <2>2. CASE k <= ls
    <3>1. now[k] = seen[k] /\ k \in 1 .. ls
      BY <1>3, <1>5, <2>1, <2>2
    <3>2. k = 1 => seen # <<>>
      BY <1>2, <2>1, <2>2 DEF ls
    <3>3. (~seen[k] => M) /\ (k = 1 /\ seen[k] => R)
      BY <3>1, <3>2 DEF R, M, ls
    <3> QED BY <3>1, <3>3
  <2>3. CASE ~(k <= ls) /\ k - ls <= ln
    <3> DEFINE j == k - ls
    <3>1. j \in 1 .. ln /\ j \in 1 .. ln + lo
      BY <1>2, <2>1, <2>3
    <3>2. now[k] = new[j]
      BY <1>3, <1>5, <2>1, <2>3, <3>1
    <3> QED BY <1>1, <3>1, <3>2
  <2>4. CASE ~(k <= ls) /\ ~(k - ls <= ln)
    <3> DEFINE j == k - ls - ln
               i == ly + j
    <3>1. /\ k - ls \in 1 .. ln + lo /\ j \in 1 .. lo /\ i \in 1 .. ly + lo /\ ~(i <= ly) /\ i - ly = j
          /\ i \in 1 .. 2 /\ (k = 1 => i = 1)
      BY <1>2, <2>1, <2>4
    <3>2. now[k] = old[j]
      BY <1>3, <1>5, <2>1, <2>4, <3>1
    <3>3. x[i] = old[j]
      BY <1>4, <1>6, <3>1
    <3>4. Len(x) >= i /\ x # <<>>
      BY <1>2, <1>6, <3>1
    <3> HIDE DEF i, j
    <3>5. ~x[i] => ~(x[1] /\ x[2])
      <4>1. i = 1 \/ i = 2
        BY <3>1
      <4> QED BY <4>1, Zenon
    <3>6. now[k] = x[i]
      BY <3>2, <3>3
    <3>7. k = 1 /\ now[k] => x[1]
      BY <3>1, <3>6
    <3> QED BY <1>7, <3>4, <3>5, <3>6, <3>7, Zenon
  <2> QED BY <2>2, <2>3, <2>4
<1>10. now # <<>> /\ now[1] => R
  <2>1. now # <<>> => 1 \in 1 .. Len(now)
    <3>1. now \in Seq(BOOLEAN)
      BY <1>5, LatestBehind DEF w
    <3> QED BY <3>1
  <2> QED BY <1>9, <2>1
<1>11. (Len(now) < 2 => Len(after) <= Len(now)) /\ Len(now) <= 2
  BY <1>2, <1>3, <1>4, <1>5, <1>8
<1> QED BY <1>9, <1>10, <1>11 DEF R, M

(* Saving a session changes nothing of the moments before.                  *)
LEMMA SavedBefore ==
  ASSUME NEW p \in Seq(Sessions), NEW session \in Sessions,
         NEW a \in 1 .. Len(p) + 1, NEW m \in 0 .. Len(p)
  PROVE  SubSeq(<<session>> \o p, a + 1, m + 1) = SubSeq(p, a, m)
<1> DEFINE n == Len(p)
           q == <<session>> \o p
           x == SubSeq(p, a, m)
           y == SubSeq(q, a + 1, m + 1)
           l == IF a <= m THEN m - a + 1 ELSE 0
<1>1. n \in Nat /\ a \in 1 .. n + 1 /\ m \in 0 .. n
  OBVIOUS
<1>2. q \in Seq(Sessions) /\ Len(q) = n + 1 /\ \A i \in 1 .. n : q[i + 1] = p[i]
  <2>1. q \in Seq(Sessions) /\ Len(q) = n + 1
    BY SavedFirst
  <2>2. \A i \in 1 .. n : q[i + 1] = p[i]
    OBVIOUS
  <2> QED BY <2>1, <2>2
<1>3. x \in Seq(Sessions) /\ Len(x) = l /\ \A i \in 1 .. m - a + 1 : x[i] = p[a + i - 1]
  BY Within
<1> HIDE DEF q, x
<1>4. y \in Seq(Sessions) /\ Len(y) = l /\ \A i \in 1 .. m - a + 1 : y[i] = q[a + i]
  <2>1. a + 1 \in 1 .. (n + 1) + 1 /\ m + 1 \in 0 .. n + 1 /\ (m + 1) - (a + 1) + 1 = m - a + 1
        /\ (a + 1 <= m + 1 <=> a <= m)
    BY <1>1
  <2>2. \A i \in 1 .. m - a + 1 : (a + 1) + i - 1 = a + i
    BY <1>1
  <2>3. /\ y \in Seq(Sessions)
        /\ Len(y) = IF a + 1 <= m + 1 THEN (m + 1) - (a + 1) + 1 ELSE 0
        /\ \A i \in 1 .. (m + 1) - (a + 1) + 1 : y[i] = q[(a + 1) + i - 1]
    <3> HIDE DEF n, y
    <3> QED BY <1>2, <2>1, Within DEF y
  <2> HIDE DEF n, y
  <2> QED BY <2>1, <2>2, <2>3
<1> HIDE DEF n, y
<1>5. \A i \in 1 .. l : x[i] = y[i]
  <2> SUFFICES ASSUME NEW i \in 1 .. l PROVE x[i] = y[i]
    OBVIOUS
  <2>1. i \in 1 .. m - a + 1 /\ a + i - 1 \in 1 .. n /\ (a + i - 1) + 1 = a + i
    BY <1>1
  <2> QED BY <1>2, <1>3, <1>4, <2>1
<1>6. x = y
  <2> HIDE DEF l
  <2> QED BY <1>3, <1>4, <1>5, SeqEqual
<1> QED BY <1>6 DEF x, y, q

LEMMA SaveKeepsMoments ==
  ASSUME NEW p, NEW b, NEW s, ScanInv(p, b, s), ScanMoments(p, b, s), NEW session \in Sessions
  PROVE  ScanMoments(<<session>> \o p, b, s)
<1> DEFINE n == Len(p)
           q == <<session>> \o p
<1>1. p \in Seq(Sessions) /\ b \in 0 .. n /\ s \in ScanRecord /\ n \in Nat
  <2>1. p \in Seq(Sessions) /\ b \in 0 .. n /\ s \in ScanRecord
    BY DEF ScanInv
  <2> QED BY <2>1
<1>2. Len(q) = n + 1
  BY <1>1, SavedFirst
<1>3. \A a \in 1 .. n + 1, m \in 0 .. n : SubSeq(q, a + 1, m + 1) = SubSeq(p, a, m)
  BY <1>1, SavedBefore
<1> HIDE DEF q
<1>4. \A e : \A k \in 0 .. n : OldOutcomes(q, k, e) = OldOutcomes(p, k, e)
  <2> SUFFICES ASSUME NEW e, NEW k \in 0 .. n PROVE OldOutcomes(q, k, e) = OldOutcomes(p, k, e)
    BY Zenon
  <2>1. n - k + 1 \in 1 .. n + 1 /\ n \in 0 .. n /\ (n + 1) - k + 1 = (n - k + 1) + 1
    BY <1>1
  <2> HIDE DEF n
  <2>2. SubSeq(q, (n + 1) - k + 1, n + 1) = SubSeq(p, n - k + 1, n)
    BY <1>3, <2>1
  <2> QED BY <1>2, <2>2 DEF OldOutcomes, n
<1>5. \A k \in b .. n : k \in 0 .. n /\ k \in b .. n + 1
  BY <1>1
<1>6. ASSUME NEW e PROVE /\ RightOnce(p, b, e) => RightOnce(q, b, e)
                         /\ NotMasteredOnce(p, b, e) => NotMasteredOnce(q, b, e)
  <2>1. ASSUME RightOnce(p, b, e) PROVE RightOnce(q, b, e)
    <3>1. PICK k \in b .. n : OldOutcomes(p, k, e) # <<>> /\ OldOutcomes(p, k, e)[1]
      BY <2>1 DEF RightOnce
    <3>2. k \in b .. n + 1 /\ OldOutcomes(q, k, e) = OldOutcomes(p, k, e)
      BY <1>4, <1>5
    <3> QED BY <1>2, <3>1, <3>2 DEF RightOnce
  <2>2. ASSUME NotMasteredOnce(p, b, e) PROVE NotMasteredOnce(q, b, e)
    <3>1. PICK k \in b .. n : Scan!Status(Scan!Latest(OldOutcomes(p, k, e))) # "mastered"
      BY <2>2 DEF NotMasteredOnce
    <3>2. k \in b .. n + 1 /\ OldOutcomes(q, k, e) = OldOutcomes(p, k, e)
      BY <1>4, <1>5
    <3> QED BY <1>2, <3>1, <3>2 DEF NotMasteredOnce
  <2> QED BY <2>1, <2>2
<1>7. ASSUME s.at = "reading", NEW e \in DOMAIN s.recent
      PROVE  Explained(q, b, Bound(q, s), s.recent[e], e)
  <2> DEFINE seen == s.recent[e]
             k == s.skip
  <2>1. Explained(p, b, Bound(p, s), seen, e) /\ k \in 0 .. n /\ s.more \in BOOLEAN
        /\ e \in Elements /\ seen \in Seq(BOOLEAN)
    BY <1>1, <1>7, ScanRecordFields DEF ScanMoments, ScanInv, ScanReading
  <2>2. Bound(p, s) = (IF s.more THEN k ELSE n) /\ Bound(q, s) = IF s.more THEN k ELSE n + 1
    BY <1>2 DEF Bound
  <2> HIDE DEF k, seen
  <2>3. CASE ~s.more
    <3>1. n - b + 1 \in 1 .. n + 1 /\ n \in 0 .. n /\ (n + 1) - b + 1 = (n - b + 1) + 1
      BY <1>1
    <3> HIDE DEF n
    <3>2. SubSeq(q, (n + 1) - b + 1, n + 1) = SubSeq(p, n - b + 1, n)
      BY <1>3, <3>1
    <3>3. OldRead(q, b, n + 1, e) = OldRead(p, b, n, e)
      BY <1>2, <3>2 DEF OldRead, n
    <3> QED BY <1>6, <2>1, <2>2, <2>3, <3>3 DEF Explained, seen
  <2>4. CASE s.more
    <3>1. Len(OldRead(q, b, k, e)) <= Len(OldRead(p, b, k, e)) /\ Len(OldRead(q, b, k, e)) \in Nat
          /\ Len(OldRead(p, b, k, e)) \in Nat
      <4> DEFINE out(i, j) == Scan!Outcomes(SubSeq(p, i, j), e)
                 a == n - b + 1
      <4>1. /\ a \in 1 .. n + 1 /\ (n + 1) - b + 1 = a + 1 /\ a \in Int /\ k \in Int /\ k - 1 \in Int
            /\ a + 1 \in Int /\ (k - 1) + 1 = k
        BY <1>1, <2>1
      <4>2. OldRead(p, b, k, e) = out(a, k)
        BY DEF OldRead
      <4>3. Len(out(a, k)) \in Nat
        <5>1. SubSeq(p, a, k) \in Seq(Sessions)
          BY <1>1, <2>1, <4>1, Within
        <5>2. out(a, k) \in Seq(BOOLEAN)
          BY <2>1, <5>1, OutcomesTyped
        <5> HIDE DEF out
        <5> QED BY <5>2
      <4>4. CASE k <= a
        <5>1. k < a + 1
          BY <4>1, <4>4
        <5> HIDE DEF a
        <5>2. Len(Scan!Outcomes(SubSeq(q, a + 1, k), e)) = 0
          BY <2>1, <4>1, <5>1, NothingRead
        <5>3. Len(OldRead(q, b, k, e)) = 0
          BY <1>2, <4>1, <5>2 DEF OldRead
        <5> HIDE DEF out
        <5> QED BY <4>2, <4>3, <5>3
      <4>5. CASE ~(k <= a)
        <5>1. k - 1 \in 0 .. n /\ k - 1 \in a - 1 .. n /\ k \in k - 1 .. n
          BY <1>1, <2>1, <4>1, <4>5
        <5>2. SubSeq(q, a + 1, k) = SubSeq(p, a, k - 1)
          <6> HIDE DEF a, n
          <6>1. SubSeq(q, a + 1, (k - 1) + 1) = SubSeq(p, a, k - 1)
            BY <1>3, <4>1, <5>1
          <6> QED BY <4>1, <6>1
        <5>3. OldRead(q, b, k, e) = out(a, k - 1)
          <6> HIDE DEF a
          <6> QED BY <1>2, <4>1, <5>2 DEF OldRead
        <5> DEFINE x == out(a, k - 1)
                   y == out((k - 1) + 1, k)
        <5>4. x \in Seq(BOOLEAN) /\ y \in Seq(BOOLEAN) /\ out(a, k) = x \o y
          <6> HIDE DEF a, n
          <6> QED BY <1>1, <2>1, <4>1, <5>1, OutcomesJoin DEF n
        <5> HIDE DEF x, y, out
        <5>5. Len(x) \in Nat /\ Len(y) \in Nat /\ Len(x \o y) = Len(x) + Len(y)
          BY <5>4
        <5>6. Len(x) <= Len(out(a, k))
          BY <5>4, <5>5
        <5> QED BY <4>2, <4>3, <5>3, <5>5, <5>6 DEF x
      <4> QED BY <4>1, <4>4, <4>5
    <3>2. Len(seen) \in Nat
      BY <2>1
    <3>3. Len(seen) < 2 => Len(OldRead(q, b, k, e)) <= Len(seen)
      <4>1. Len(seen) < 2 => Len(OldRead(p, b, k, e)) <= Len(seen)
        BY <2>1, <2>2, <2>4 DEF Explained
      <4> QED BY <3>1, <3>2, <4>1
    <3> QED BY <1>6, <2>1, <2>2, <2>4, <3>3 DEF Explained, seen
  <2> QED BY <2>1, <2>3, <2>4
<1>8. ASSUME s.at = "done", NEW e \in DOMAIN s.status PROVE SaidOnce(q, b, s.status[e], e)
  BY <1>6, <1>8 DEF ScanMoments, SaidOnce
<1>9. ScanMoments(q, b, s)
  BY <1>7, <1>8, Zenon DEF ScanMoments
<1> QED BY <1>9 DEF q

(* A scan that has begun has read nothing yet.                              *)
LEMMA StartKeepsMoments ==
  ASSUME NEW p \in Seq(Sessions), NEW t, t.at = "reading", t.skip = 0, t.more,
         DOMAIN t.recent \subseteq Elements, \A e \in DOMAIN t.recent : t.recent[e] = <<>>
  PROVE  ScanMoments(p, Len(p), t)
<1> DEFINE n == Len(p)
<1>1. n \in Nat /\ n - n + 1 \in Int /\ 0 < n - n + 1 /\ 0 \in Int
  OBVIOUS
<1>2. Bound(p, t) = 0
  BY DEF Bound
<1>3. ASSUME NEW e \in DOMAIN t.recent PROVE Explained(p, n, 0, <<>>, e)
  <2>1. Len(OldRead(p, n, 0, e)) = 0
    <3> HIDE DEF n
    <3>1. Len(Scan!Outcomes(SubSeq(p, n - n + 1, 0), e)) = 0
      BY <1>1, NothingRead
    <3> QED BY <3>1 DEF OldRead, n
  <2>2. Len(<<>>) = 0 /\ \A i \in 1 .. Len(<<>>) : FALSE
    OBVIOUS
  <2> QED BY <2>1, <2>2 DEF Explained
<1> QED BY <1>2, <1>3 DEF ScanMoments

LEMMA ReadKeepsMoments ==
  ASSUME NEW p, NEW b, NEW s, ScanInv(p, b, s), ScanMoments(p, b, s), s.at = "reading", s.more,
         NEW page, page = Page(p, s.skip),
         NEW recent,
         recent = [e \in DOMAIN s.recent |->
                     IF e \in s.needing THEN Scan!Latest(s.recent[e] \o Scan!Outcomes(page, e))
                     ELSE s.recent[e]],
         NEW more, more = (Len(page) = PageSize),
         NEW t, t.at = "reading", t.skip = s.skip + Len(page), t.more = more, t.recent = recent
  PROVE  ScanMoments(p, b, t)
<1> DEFINE D == DOMAIN s.recent
<1>1. p \in Seq(Sessions) /\ b \in 0 .. Len(p) /\ s \in ScanRecord
  BY DEF ScanInv
<1>2. /\ D \in SUBSET Elements /\ s.more = TRUE
      /\ \A e \in D : s.recent[e] \in Seq(BOOLEAN)
  BY <1>1, ScanRecordFields
<1>3. /\ s.skip \in 0 .. Len(p)
      /\ \A e \in D : /\ e \in s.needing <=> Len(s.recent[e]) < 2
                      /\ Explained(p, b, s.skip, s.recent[e], e)
  BY <1>2 DEF ScanInv, ScanReading, ScanMoments, Bound, ReadSoFar
<1>4. PICK last \in s.skip .. Len(p) :
        /\ page = SubSeq(p, s.skip + 1, last)
        /\ Len(page) = last - s.skip
        /\ Len(page) # PageSize => last = Len(p)
  BY <1>1, <1>3, PageRead
<1>5. s.skip + Len(page) = last
  <2> DEFINE n == Len(p)
  <2>1. n \in Nat
    BY <1>1
  <2>2. s.skip \in 0 .. n /\ last \in s.skip .. n /\ Len(page) = last - s.skip
    BY <1>3, <1>4
  <2> HIDE DEF n
  <2> QED BY <2>1, <2>2
<1>6. Bound(p, t) = last
  BY <1>4, <1>5 DEF Bound
<1>7. ASSUME NEW e \in D PROVE Explained(p, b, last, recent[e], e)
  <2> DEFINE seen == s.recent[e]
             now == recent[e]
             out == Scan!Outcomes(page, e)
             k == s.skip
  <2>1. /\ seen \in Seq(BOOLEAN) /\ e \in Elements
        /\ e \in s.needing <=> Len(seen) < 2
        /\ Explained(p, b, k, seen, e)
    BY <1>2, <1>3, <1>7
  <2>2. now = IF e \in s.needing THEN Scan!Latest(seen \o out) ELSE seen
    BY <1>7
  <2>3. out = Scan!Outcomes(SubSeq(p, k + 1, last), e)
    BY <1>4
  <2>4. k \in 0 .. Len(p) /\ last \in k .. Len(p)
    BY <1>3
  <2> HIDE DEF seen, now, out, k
  <2>5. /\ seen # <<>> /\ seen[1] => RightOnce(p, b, e)
        /\ \A i \in 1 .. Len(seen) : ~seen[i] => NotMasteredOnce(p, b, e)
        /\ Len(seen) < 2 => Len(OldRead(p, b, k, e)) <= Len(seen)
        /\ Len(seen) <= 2
    BY <2>1 DEF Explained
  <2>6. CASE Len(seen) < 2
    <3>1. now = Scan!Latest(seen \o out)
      BY <2>1, <2>2, <2>6
    <3>2. PICK new, old, rest :
            PageTells(p, b, e, out, OldRead(p, b, k, e), OldRead(p, b, last, e), new, old, rest)
      BY <1>1, <2>1, <2>3, <2>4, PageSplits
    <3>3. /\ now # <<>> /\ now[1] => RightOnce(p, b, e)
          /\ \A i \in 1 .. Len(now) : ~now[i] => NotMasteredOnce(p, b, e)
          /\ Len(now) < 2 => Len(OldRead(p, b, last, e)) <= Len(now)
          /\ Len(now) <= 2
      BY <1>1, <2>1, <2>5, <2>6, <3>1, <3>2, PageExplained
    <3> QED BY <3>3 DEF Explained, now
  <2>7. CASE ~(Len(seen) < 2)
    BY <2>1, <2>2, <2>5, <2>7 DEF Explained, now
  <2> QED BY <2>6, <2>7
<1>8. DOMAIN t.recent = D /\ t.recent = recent
  OBVIOUS
<1> HIDE DEF D
<1> QED BY <1>6, <1>7, <1>8 DEF ScanMoments

LEMMA ReportKeepsMoments ==
  ASSUME NEW p, NEW b, NEW s, ScanInv(p, b, s), ScanMoments(p, b, s),
         s.at = "reading", s.needing = {} \/ ~s.more,
         NEW t, t.at = "done", t.status = [e \in DOMAIN s.recent |-> Scan!Status(s.recent[e])]
  PROVE  ScanMoments(p, b, t)
<1> DEFINE D == DOMAIN s.recent
<1>1. p \in Seq(Sessions) /\ b \in 0 .. Len(p) /\ s \in ScanRecord
  BY DEF ScanInv
<1>2. /\ D \in SUBSET Elements /\ s.more \in BOOLEAN
      /\ \A e \in D : s.recent[e] \in Seq(BOOLEAN)
  BY <1>1, ScanRecordFields
<1>3. \A e \in D : /\ e \in s.needing <=> Len(s.recent[e]) < 2
                   /\ Explained(p, b, Bound(p, s), s.recent[e], e)
  BY DEF ScanInv, ScanReading, ScanMoments, ReadSoFar
<1>4. ASSUME NEW e \in D PROVE SaidOnce(p, b, Scan!Status(s.recent[e]), e)
  <2> DEFINE seen == s.recent[e]
  <2>1. /\ seen \in Seq(BOOLEAN) /\ e \in Elements /\ (e \in s.needing <=> Len(seen) < 2)
        /\ Explained(p, b, Bound(p, s), seen, e)
    BY <1>2, <1>3, <1>4
  <2> HIDE DEF seen
  <2>2. /\ seen # <<>> /\ seen[1] => RightOnce(p, b, e)
        /\ \A i \in 1 .. Len(seen) : ~seen[i] => NotMasteredOnce(p, b, e)
        /\ Len(seen) < 2 => Len(OldRead(p, b, Bound(p, s), e)) <= Len(seen)
        /\ Len(seen) <= 2
    BY <2>1 DEF Explained
  <2>3. Len(seen) \in Nat /\ (seen = <<>> <=> Len(seen) = 0)
    BY <2>1
  <2>4. ASSUME Scan!Status(seen) = "mastered" PROVE RightOnce(p, b, e)
    <3>1. Len(seen) = 2
      BY <2>1, <2>4, MasteredMeans
    <3>2. seen[1]
      BY <2>1, <2>4, <3>1, MasteredMeans
    <3>3. seen # <<>>
      BY <2>3, <3>1
    <3> QED BY <2>2, <3>2, <3>3
  <2>5. ASSUME Scan!Status(seen) = "learning" PROVE NotMasteredOnce(p, b, e)
    <3>1. CASE Len(seen) < 2
      <4>1. Bound(p, s) = Len(p)
        BY <2>1, <3>1 DEF Bound
      <4> DEFINE x == OldOutcomes(p, b, e)
      <4>2. x \in Seq(BOOLEAN) /\ OldRead(p, b, Len(p), e) = x
        <5>1. Len(p) - b + 1 \in 1 .. Len(p) + 1 /\ Len(p) \in 0 .. Len(p)
          BY <1>1
        <5>2. SubSeq(p, Len(p) - b + 1, Len(p)) \in Seq(Sessions)
          BY <1>1, <5>1, Within
        <5> QED BY <2>1, <5>2, OutcomesTyped DEF OldOutcomes, OldRead
      <4> HIDE DEF x
      <4>3. Len(x) \in Nat /\ ~(Len(x) >= 2)
        BY <2>2, <2>3, <3>1, <4>1, <4>2
      <4>4. b \in b .. Len(p)
        BY <1>1
      <4> QED BY <1>1, <2>1, <4>2, <4>3, <4>4, TellsOnce DEF x
    <3>2. CASE ~(Len(seen) < 2)
      <4>1. \E i \in 1 .. Len(seen) : ~seen[i]
        <5>1. FALSE \in Scan!ToSet(seen) \/ Len(seen) # 2
          <6>1. seen # <<>>
            BY <2>3, <3>2
          <6> QED BY <2>5, <6>1 DEF Scan!Status, Scan!RequiredConsecutiveCorrectCount
        <5>2. Len(seen) = 2
          <6> DEFINE l == Len(seen)
          <6>1. l \in Nat /\ l <= 2 /\ ~(l < 2)
            BY <2>2, <2>3, <3>2
          <6> HIDE DEF l
          <6>2. l = 2
            BY <6>1
          <6> QED BY <6>2 DEF l
        <5>3. PICK i \in DOMAIN seen : seen[i] = FALSE
          BY <5>1, <5>2, Zenon DEF Scan!ToSet
        <5>4. DOMAIN seen = 1 .. Len(seen)
          BY <2>1
        <5> QED BY <5>3, <5>4, Zenon
      <4> QED BY <2>2, <4>1
    <3> QED BY <3>1, <3>2
  <2>6. SaidOnce(p, b, Scan!Status(seen), e)
    BY <2>4, <2>5 DEF SaidOnce
  <2> QED BY <2>6 DEF seen
<1>5. DOMAIN t.status = D /\ \A e \in D : t.status[e] = Scan!Status(s.recent[e])
  OBVIOUS
<1> HIDE DEF D
<1> QED BY <1>4, <1>5 DEF ScanMoments

LEMMA ScanPartNext ==
  ASSUME which \in {"accounts", "turn", "race", "twice", "quiz", "streak", "scan", "ranking",
                   "responses"},
         ScanPart, [AllNext]_allVars
  PROVE  ScanPart'
<1> DEFINE p == scanSessions
           b == scanBegun
           s == scanScan
<1>1. which' = which /\ (which = "scan" => Scan!Next \/ UNCHANGED scanVars)
  BY DEF AllNext, allVars
<1> DEFINE Kept == /\ ScanInv(scanSessions', scanBegun', scanScan')
                   /\ ScanMoments(scanSessions', scanBegun', scanScan')
<1> SUFFICES ASSUME which = "scan", Scan!Next \/ UNCHANGED scanVars, ScanInv(p, b, s),
                    ScanMoments(p, b, s)
             PROVE  Kept
  BY <1>1 DEF ScanPart
<1>2. s \in ScanRecord /\ p \in Seq(Sessions)
  BY DEF ScanInv
<1>3. CASE UNCHANGED scanVars
  BY <1>3 DEF scanVars
<1>4. ASSUME NEW targets \in SUBSET Elements, Scan!StartScan(targets)
      PROVE  Kept
  <2> DEFINE t == [at |-> "reading", skip |-> 0, needing |-> targets, more |-> TRUE,
                  recent |-> [e \in targets |-> <<>>], status |-> [e \in {} |-> "unlearned"]]
  <2>1. scanSessions' = p /\ scanBegun' = Len(p) /\ scanScan' = t
    BY <1>4, Zenon DEF Scan!StartScan
  <2>2. ScanInv(p, Len(p), t)
    BY StartKeepsScan
  <2>3. t.at = "reading" /\ t.skip = 0 /\ t.more /\ DOMAIN t.recent = targets
        /\ \A e \in targets : t.recent[e] = <<>>
    OBVIOUS
  <2> HIDE DEF t
  <2>4. ScanMoments(p, Len(p), t)
    BY <1>2, <2>3, StartKeepsMoments
  <2> QED BY <2>1, <2>2, <2>4
<1>5. CASE Scan!ReadPage
  <2> DEFINE page == Page(p, s.skip)
             recent == [e \in DOMAIN s.recent |->
                          IF e \in s.needing THEN Scan!Latest(s.recent[e] \o Scan!Outcomes(page, e))
                          ELSE s.recent[e]]
             needing == {e \in s.needing : Len(recent[e]) < 2}
             more == (Len(page) = PageSize)
             t == [at |-> "reading", skip |-> s.skip + Len(page), needing |-> needing,
                   more |-> more, recent |-> recent, status |-> s.status]
  <2>1. /\ s.at = "reading" /\ s.more /\ scanSessions' = p /\ scanBegun' = b
        /\ scanScan' = [s EXCEPT !.skip = Scan!Offset(page), !.more = Len(page) = PageSize, !.recent = recent,
                                 !.needing = {e \in @ : Len(recent[e]) < Scan!RequiredConsecutiveCorrectCount}]
    BY <1>5, Zenon DEF Scan!ReadPage, Page
  <2>2. scanScan' = [s EXCEPT !.skip = s.skip + Len(page), !.more = more, !.recent = recent,
                              !.needing = needing]
    BY <2>1, Zenon DEF Scan!Offset, Scan!RequiredConsecutiveCorrectCount
  <2>3. ScanInv(p, b, t)
    BY <2>1, ReadKeepsScan
  <2>6. ScanMoments(p, b, t)
    <3>1. t.at = "reading" /\ t.skip = s.skip + Len(page) /\ t.more = more /\ t.recent = recent
      OBVIOUS
    <3> HIDE DEF t
    <3> QED BY <2>1, <3>1, ReadKeepsMoments
  <2>4. s = [at |-> s.at, skip |-> s.skip, needing |-> s.needing, more |-> s.more,
             recent |-> s.recent, status |-> s.status]
    BY <1>2, ScanRecordFields
  <2>5. scanScan' = t
    <3> DEFINE k == s.skip + Len(page)
    <3>1. scanScan' = [s EXCEPT !.skip = k, !.more = more, !.recent = recent, !.needing = needing]
      BY <2>2
    <3>2. t = [at |-> "reading", skip |-> k, needing |-> needing,
               more |-> more, recent |-> recent, status |-> s.status]
      OBVIOUS
    <3> HIDE DEF k, t, needing, more, recent
    <3> QED BY <2>1, <2>4, <3>1, <3>2
  <2> HIDE DEF t
  <2> QED BY <2>1, <2>3, <2>5, <2>6
<1>6. CASE Scan!Report
  <2> DEFINE status == [e \in DOMAIN s.recent |-> Scan!Status(s.recent[e])]
             t == [at |-> "done", skip |-> 0, needing |-> {},
                   more |-> FALSE, recent |-> s.recent, status |-> status]
  <2>1. /\ s.at = "reading" /\ (s.needing = {} \/ ~s.more) /\ scanSessions' = p /\ scanBegun' = b
        /\ scanScan' = [s EXCEPT !.at = "done", !.needing = {}, !.more = FALSE, !.skip = 0,
                                 !.status = status]
    BY <1>6, Zenon DEF Scan!Report
  <2>2. ScanInv(p, b, t)
    BY <2>1, ReportKeepsScan
  <2>5. ScanMoments(p, b, t)
    <3>1. t.at = "done" /\ t.status = status
      OBVIOUS
    <3> HIDE DEF t
    <3> QED BY <2>1, <3>1, ReportKeepsMoments
  <2>3. s = [at |-> s.at, skip |-> s.skip, needing |-> s.needing, more |-> s.more,
             recent |-> s.recent, status |-> s.status]
    BY <1>2, ScanRecordFields
  <2>4. scanScan' = t
    <3> HIDE DEF status
    <3> QED BY <2>1, <2>3
  <2> HIDE DEF t
  <2> QED BY <2>1, <2>2, <2>4, <2>5
<1>7. ASSUME NEW session \in Sessions, Scan!Save(session)
      PROVE  Kept
  <2>1. scanSessions' = <<session>> \o p /\ scanBegun' = b /\ scanScan' = s
    BY <1>7, Zenon DEF Scan!Save
  <2>2. ScanInv(<<session>> \o p, b, s)
    BY SaveKeepsScan
  <2>3. ScanMoments(<<session>> \o p, b, s)
    BY SaveKeepsMoments
  <2> QED BY <2>1, <2>2, <2>3
<1> QED BY <1>3, <1>4, <1>5, <1>6, <1>7 DEF Scan!Next, Sessions

LEMMA ScanPartMeans == ScanPart /\ which = "scan" => Scan!ScanAgrees
<1> SUFFICES ASSUME ScanInv(scanSessions, scanBegun, scanScan), scanScan.at = "done",
                    ScanMoments(scanSessions, scanBegun, scanScan),
                    NEW e \in DOMAIN scanScan.status
             PROVE  /\ Len(scanSessions) = scanBegun => scanScan.status[e] = Scan!StatusNow(e)
                    /\ scanScan.status[e] = "unlearned" => Scan!OutcomesAt(e, scanBegun) = <<>>
                    /\ scanScan.status[e] # "unlearned" => Scan!Outcomes(scanSessions, e) # <<>>
                    /\ scanScan.status[e] = "mastered" =>
                         \E k \in scanBegun .. Len(scanSessions) :
                           Scan!OutcomesAt(e, k) # <<>> /\ Scan!OutcomesAt(e, k)[1]
                    /\ scanScan.status[e] = "learning" =>
                         \E k \in scanBegun .. Len(scanSessions) :
                           Scan!Status(Scan!Latest(Scan!OutcomesAt(e, k))) # "mastered"
  BY DEF ScanPart, Scan!ScanAgrees
<1> DEFINE p == scanSessions
           b == scanBegun
           n == Len(p)
           t == scanScan.status[e]
           old == SubSeq(p, n - b + 1, n)
<1>1. p \in Seq(Sessions) /\ b \in 0 .. n /\ scanScan \in ScanRecord /\ Reported(p, b, t, e)
  BY DEF ScanInv, ScanDone
<1>2. n \in Nat
  BY <1>1
<1>3. e \in Elements
  <2>1. PICK D \in SUBSET Elements : scanScan.status \in [D -> {"unlearned", "learning", "mastered"}]
    BY <1>1, ScanRecordFields
  <2> QED BY <2>1
<1>4. /\ n = b => t = Scan!Status(Scan!Latest(Scan!Outcomes(p, e)))
      /\ t = "unlearned" => NotAsked(p, e, n - b + 1, n)
      /\ t # "unlearned" => Scan!Asked(p, e) # {}
  BY <1>1, Zenon DEF Reported
<1>5. t # "unlearned" => Scan!Outcomes(p, e) # <<>>
  <2>1. Scan!Outcomes(p, e) = <<>> <=> Scan!Asked(p, e) = {}
    BY <1>1, <1>3, OutcomesTyped
  <2> QED BY <1>4, <2>1
<1>6. t = "unlearned" => Scan!Outcomes(old, e) = <<>>
  <2> SUFFICES ASSUME t = "unlearned" PROVE Scan!Outcomes(old, e) = <<>>
    OBVIOUS
  <2> HIDE DEF n
  <2>1. n - b + 1 \in Int /\ n \in Int /\ n - (n - b + 1) + 1 = b /\ b \in Nat
    BY <1>1, <1>2
  <2>2. \A i \in (n - b + 1) .. n : p[i] \in Sessions
    <3>1. \A i \in 1 .. n : p[i] \in Sessions
      BY <1>1, ElementOfSeq DEF n
    <3>2. \A i \in (n - b + 1) .. n : i \in 1 .. n
      BY <1>1, <1>2
    <3> QED BY <3>1, <3>2
  <2>3. /\ old \in Seq(Sessions)
        /\ Len(old) = IF n - b + 1 <= n THEN n - (n - b + 1) + 1 ELSE 0
        /\ \A i \in 1 .. n - (n - b + 1) + 1 : old[i] = p[(n - b + 1) + i - 1]
    BY <2>1, <2>2, SubSeqProperties
  <2>4. Len(old) <= b /\ Len(old) \in Nat
    BY <2>1, <2>3
  <2>5. DOMAIN old = 1 .. Len(old)
    BY <2>3
  <2> HIDE DEF old
  <2>6. ASSUME NEW i \in DOMAIN old PROVE old[i][e] = {}
    <3>1. i \in 1 .. b /\ (n - b + 1) + i - 1 \in (n - b + 1) .. n
      BY <1>1, <1>2, <2>1, <2>4, <2>5
    <3>2. old[i] = p[(n - b + 1) + i - 1]
      BY <2>1, <2>3, <3>1
    <3>3. NotAsked(p, e, n - b + 1, n)
      BY <1>4
    <3> QED BY <3>1, <3>2, <3>3 DEF NotAsked
  <2>7. Scan!Asked(old, e) = {}
    BY <2>6 DEF Scan!Asked
  <2> QED BY <1>3, <2>3, <2>7, OutcomesTyped
<1>7. \A k : Scan!OutcomesAt(e, k) = OldOutcomes(p, k, e)
  BY DEF Scan!OutcomesAt, OldOutcomes
<1>8. SaidOnce(p, b, t, e)
  BY DEF ScanMoments
<1>9. t = "unlearned" => Scan!OutcomesAt(e, b) = <<>>
  BY <1>6 DEF Scan!OutcomesAt
<1> HIDE DEF t
<1>10. t = "mastered" => \E k \in b .. n : Scan!OutcomesAt(e, k) # <<>> /\ Scan!OutcomesAt(e, k)[1]
  BY <1>7, <1>8, Zenon DEF SaidOnce, RightOnce
<1>11. t = "learning" =>
         \E k \in b .. n : Scan!Status(Scan!Latest(Scan!OutcomesAt(e, k))) # "mastered"
  BY <1>7, <1>8, Zenon DEF SaidOnce, NotMasteredOnce
<1>12. n = b => t = Scan!StatusNow(e)
  BY <1>4 DEF Scan!StatusNow
<1> QED BY <1>5, <1>9, <1>10, <1>11, <1>12 DEF t

----------------------------------------------------------------------------
(* The rankings of given rows.                                              *)

Ranked == 1 .. NUsers
Rows == [weekly : Nat, week : Nat \cup {None}, allTime : Nat, games : Nat, active : BOOLEAN]
Tables == [Ranked -> Rows \cup {None}]

(* Who is ranked, with how many points, and who is before whom.             *)
Takes(st, u, period, w) ==
  (st[u] # None /\ st[u].games > 0 /\ st[u].active) /\ (period = "weekly" => st[u].week = w)
Players(st, period, w) == {u \in Ranked : Takes(st, u, period, w)}
Points(st, u, period) == IF period = "weekly" THEN st[u].weekly ELSE st[u].allTime
Leads(st, u, v, period) ==
  \/ Points(st, u, period) > Points(st, v, period)
  \/ Points(st, u, period) = Points(st, v, period) /\ u < v
Before(st, period) == {p \in Ranked \X Ranked : Leads(st, p[1], p[2], period)}

(* Those with more points.                                                  *)
Above(st, period, w, s) == {v \in Players(st, period, w) : Points(st, v, period) > s}

LEMMA RanksCardinality == \A S : Ranks!Cardinality(S) = Cardinality(S)
BY Zenon DEF Ranks!Cardinality, Cardinality

LEMMA RanksAre ==
  /\ Ranks!UserIds = Ranked
  /\ \A period, w : Ranks!Targets(period, w) = Players(rankingStats, period, w)
  /\ \A u, period : Ranks!Score(u, period) = Points(rankingStats, u, period)
  /\ \A u, v, period : Ranks!Precedes(u, v, period) <=> Leads(rankingStats, u, v, period)
  /\ \A u, period, w : Ranks!IsTarget(u, period, w) <=> Takes(rankingStats, u, period, w)
<1>1. Ranks!UserIds = Ranked
  BY Zenon DEF Ranks!UserIds, Ranked
<1>2. \A u, period, w : Ranks!IsTarget(u, period, w) <=> Takes(rankingStats, u, period, w)
  BY Zenon DEF Ranks!IsTarget, Ranks!IsActiveRankingTarget, Takes
<1>3. \A u, period : Ranks!Score(u, period) = Points(rankingStats, u, period)
  BY Zenon DEF Ranks!Score, Points
<1>4. \A period, w : Ranks!Targets(period, w) = Players(rankingStats, period, w)
  <2>1. \A period, w : Ranks!Targets(period, w) = {u \in Ranked : Ranks!IsTarget(u, period, w)}
    BY <1>1, Zenon DEF Ranks!Targets
  <2> QED BY <1>2, <2>1 DEF Players
<1>5. \A u, v, period : Ranks!Precedes(u, v, period) <=> Leads(rankingStats, u, v, period)
  BY <1>3, Zenon DEF Ranks!Precedes, Leads
<1> QED BY <1>1, <1>2, <1>3, <1>4, <1>5

LEMMA PlayersOrdered ==
  ASSUME NEW st \in Tables, NEW period, NEW w
  PROVE  /\ Players(st, period, w) \in SUBSET Ranked /\ IsFiniteSet(Players(st, period, w))
         /\ Cardinality(Players(st, period, w)) \in Nat
         /\ \A u \in Players(st, period, w) : u \in Int /\ Points(st, u, period) \in Nat
         /\ StrictOrder(Players(st, period, w), Before(st, period))
         /\ \A u, v \in Players(st, period, w) :
              <<u, v>> \in Before(st, period) <=> Leads(st, u, v, period)
<1> DEFINE T == Players(st, period, w)
           lt == Before(st, period)
<1>1. NUsers \in Nat
  BY InstancesAssumption DEF Ranks!RankingAssumption
<1>2. T \in SUBSET Ranked
  BY DEF Players
<1>3. IsFiniteSet(T) /\ Cardinality(T) \in Nat
  <2>1. IsFiniteSet(Ranked)
    BY <1>1, FS_Interval DEF Ranked
  <2> HIDE DEF T
  <2> QED BY <1>2, <2>1, FS_Subset, FS_CardinalityType
<1>4. ASSUME NEW u \in T PROVE u \in Int /\ Points(st, u, period) \in Nat
  <2>1. u \in Ranked /\ st[u] \in Rows
    BY DEF Players, Takes, Tables
  <2>2. st[u].weekly \in Nat /\ st[u].allTime \in Nat
    BY <2>1 DEF Rows
  <2> QED BY <1>1, <2>1, <2>2 DEF Points, Ranked
<1>5. \A u, v \in T : <<u, v>> \in lt <=> Leads(st, u, v, period)
  BY <1>2 DEF Before
<1> HIDE DEF T, lt
<1>6. StrictOrder(T, lt)
  <2>1. \A x \in T : ~Leads(st, x, x, period)
    BY <1>4 DEF Leads
  <2>2. \A x, y, z \in T : Leads(st, x, y, period) /\ Leads(st, y, z, period) => Leads(st, x, z, period)
    BY <1>4 DEF Leads
  <2>3. ASSUME NEW x \in T, NEW y \in T PROVE x = y \/ Leads(st, x, y, period) \/ Leads(st, y, x, period)
    BY <1>4 DEF Leads
  <2> QED BY <1>5, <2>1, <2>2, <2>3 DEF StrictOrder
<1> QED BY <1>2, <1>3, <1>4, <1>5, <1>6 DEF T, lt

----------------------------------------------------------------------------
(* The list of a ranking.                                                   *)

Entries == [user : Ranked, score : Nat, rank : Nat]

(* A list without regard to the rows: its ranks are those of its scores,    *)
(* and nobody is in it twice.                                               *)
ListRight(l) ==
  /\ \A i \in DOMAIN l : l[i].rank = 1 + Cardinality({j \in DOMAIN l : l[j].score > l[i].score})
  /\ \A i, j \in DOMAIN l : i # j => l[i].user # l[j].user

(* The list the rows give.                                                  *)
IsList(st, period, w, l) ==
  LET T == Players(st, period, w)
  IN /\ Len(l) = IF Limit < Cardinality(T) THEN Limit ELSE Cardinality(T)
     /\ \A i \in 1 .. Len(l) :
          /\ l[i].user \in T /\ Cardinality(Ahead(T, Before(st, period), l[i].user)) = i - 1
          /\ l[i].score = Points(st, l[i].user, period)
          /\ \E k \in 1 .. i :
               /\ l[i].rank = k
               /\ \A j \in k .. i : l[j].score = l[i].score
               /\ k > 1 => l[k - 1].score # l[i].score

LEMMA ListFalls ==
  ASSUME NEW st \in Tables, NEW period, NEW w, NEW l \in Seq(Entries), IsList(st, period, w, l),
         NEW u \in Players(st, period, w), NEW j \in 1 .. Len(l)
  PROVE  LET place == Cardinality(Ahead(Players(st, period, w), Before(st, period), u)) + 1
         IN /\ place \in 1 .. Cardinality(Players(st, period, w))
            /\ place \in 1 .. Len(l) => l[place].user = u
            /\ place < j => Points(st, u, period) >= l[j].score
            /\ j < place => l[j].score >= Points(st, u, period)
<1> DEFINE T == Players(st, period, w)
           lt == Before(st, period)
           a == Cardinality(Ahead(T, lt, u))
           v == l[j].user
           c == Cardinality(Ahead(T, lt, v))
<1>1. /\ StrictOrder(T, lt) /\ IsFiniteSet(T) /\ Cardinality(T) \in Nat
      /\ \A x \in T : Points(st, x, period) \in Nat
      /\ \A x, y \in T : <<x, y>> \in lt <=> Leads(st, x, y, period)
  BY PlayersOrdered
<1>2. \A i \in 1 .. Len(l) : l[i].user \in T /\ Cardinality(Ahead(T, lt, l[i].user)) = i - 1
                             /\ l[i].score = Points(st, l[i].user, period)
  BY Zenon DEF IsList
<1>3. Len(l) \in Nat
  OBVIOUS
<1> HIDE DEF T, lt
<1>4. u \in T
  BY DEF T
<1>5. a \in Nat /\ a < Cardinality(T)
  BY <1>1, <1>4, PlacesRise
<1>6. v \in T /\ c = j - 1 /\ l[j].score = Points(st, v, period)
  BY <1>2
<1> HIDE DEF v
<1>7. a + 1 \in 1 .. Len(l) => l[a + 1].user = u
  <2> SUFFICES ASSUME a + 1 \in 1 .. Len(l) PROVE l[a + 1].user = u
    OBVIOUS
  <2> DEFINE x == l[a + 1].user
  <2>1. x \in T /\ Cardinality(Ahead(T, lt, x)) = (a + 1) - 1
    BY <1>2
  <2>2. (a + 1) - 1 = a
    BY <1>5
  <2> HIDE DEF x
  <2>3. Cardinality(Ahead(T, lt, x)) = Cardinality(Ahead(T, lt, u))
    BY <2>1, <2>2
  <2>4. x = u
    BY <1>1, <1>4, <2>1, <2>3, PlacesDiffer
  <2> QED BY <2>4 DEF x
<1>8. <<u, v>> \in lt => a < c
  BY <1>1, <1>4, <1>6, PlacesRise
<1>9. <<v, u>> \in lt => c < a
  BY <1>1, <1>4, <1>6, PlacesRise
<1>10. u = v \/ <<u, v>> \in lt \/ <<v, u>> \in lt
  BY <1>1, <1>4, <1>6 DEF StrictOrder
<1>11. Points(st, u, period) \in Nat /\ Points(st, v, period) \in Nat
  BY <1>1, <1>4, <1>6
<1>12. u = v => a = c
  OBVIOUS
<1> HIDE DEF a, c
<1>13. a + 1 < j => <<u, v>> \in lt
  BY <1>5, <1>6, <1>9, <1>10, <1>12
<1>14. j < a + 1 => <<v, u>> \in lt
  BY <1>3, <1>5, <1>6, <1>8, <1>10, <1>12
<1>15. <<u, v>> \in lt => Points(st, u, period) >= Points(st, v, period)
  BY <1>1, <1>4, <1>6, <1>11 DEF Leads
<1>16. <<v, u>> \in lt => Points(st, v, period) >= Points(st, u, period)
  BY <1>1, <1>4, <1>6, <1>11 DEF Leads
<1>17. a + 1 \in 1 .. Cardinality(T)
  BY <1>1, <1>5
<1> QED BY <1>6, <1>7, <1>13, <1>14, <1>15, <1>16, <1>17 DEF a, T, lt

(* The ranks of such a list are those of all the rows, too.                 *)
LEMMA ListTells ==
  ASSUME NEW st \in Tables, NEW period, NEW w, NEW l \in Seq(Entries), IsList(st, period, w, l)
  PROVE  /\ ListRight(l)
         /\ \A i \in 1 .. Len(l) :
              l[i].rank = 1 + Cardinality(Above(st, period, w, l[i].score))
         /\ \A u \in Players(st, period, w) :
              (\A i \in 1 .. Len(l) : l[i].user # u) =>
                Len(l) = Limit /\ l[Limit].score >= Points(st, u, period)
<1> DEFINE T == Players(st, period, w)
           lt == Before(st, period)
           n == Len(l)
           Place(u) == Cardinality(Ahead(T, lt, u)) + 1
           H(i) == {j \in DOMAIN l : l[j].score > l[i].score}
           P(u) == Points(st, u, period)
<1>0. n \in Nat /\ DOMAIN l = 1 .. n /\ NUsers \in Nat /\ Limit \in Nat \ {0}
  <2>1. NUsers \in Nat /\ Limit \in Nat \ {0}
    BY InstancesAssumption DEF Ranks!RankingAssumption
  <2> QED BY <2>1
<1>1. /\ StrictOrder(T, lt) /\ IsFiniteSet(T) /\ Cardinality(T) \in Nat
      /\ \A x \in T : P(x) \in Nat
  BY PlayersOrdered
<1>2. \A i \in 1 .. n :
        /\ l[i].user \in T /\ Cardinality(Ahead(T, lt, l[i].user)) = i - 1
        /\ l[i].score = P(l[i].user)
        /\ \E k \in 1 .. i :
             /\ l[i].rank = k
             /\ \A j \in k .. i : l[j].score = l[i].score
             /\ k > 1 => l[k - 1].score # l[i].score
  BY Zenon DEF IsList
<1>3. n = IF Limit < Cardinality(T) THEN Limit ELSE Cardinality(T)
  BY Zenon DEF IsList
<1>4. \A u \in T, j \in 1 .. n :
        /\ Place(u) \in 1 .. Cardinality(T)
        /\ Place(u) \in 1 .. n => l[Place(u)].user = u
        /\ Place(u) < j => P(u) >= l[j].score
        /\ j < Place(u) => l[j].score >= P(u)
  BY ListFalls
<1>5. \A u \in T : Place(u) \in 1 .. Cardinality(T)
  <2> SUFFICES ASSUME NEW u \in T PROVE Place(u) \in 1 .. Cardinality(T)
    OBVIOUS
  <2>1. Cardinality(Ahead(T, lt, u)) \in Nat /\ Cardinality(Ahead(T, lt, u)) < Cardinality(T)
    BY <1>1, PlacesRise
  <2> QED BY <1>1, <2>1
<1> HIDE DEF T, lt, P
<1>6. \A i \in 1 .. n : Place(l[i].user) = i /\ l[i].score \in Nat
  <2> SUFFICES ASSUME NEW i \in 1 .. n PROVE Place(l[i].user) = i /\ l[i].score \in Nat
    OBVIOUS
  <2>1. Place(l[i].user) = (i - 1) + 1
    BY <1>2
  <2>2. (i - 1) + 1 = i
    BY <1>0
  <2> QED BY <1>1, <1>2, <2>1, <2>2
<1> HIDE DEF Place, n
<1>7. \A i, j \in 1 .. n : i < j => l[i].score >= l[j].score
  BY <1>2, <1>4, <1>6
<1>8. ASSUME NEW i \in 1 .. n
      PROVE  /\ l[i].rank = 1 + Cardinality(H(i))
             /\ l[i].rank = 1 + Cardinality(Above(st, period, w, l[i].score))
  <2> DEFINE s == l[i].score
             A == Above(st, period, w, s)
  <2>1. PICK k \in 1 .. i : /\ l[i].rank = k
                            /\ \A j \in k .. i : l[j].score = l[i].score
                            /\ k > 1 => l[k - 1].score # l[i].score
    BY <1>2
  <2>2. k \in 1 .. n /\ k \in Int /\ i \in 1 .. n /\ n \in Int /\ k <= i
    BY <1>0, <2>1
  <2>3. \A j \in 1 .. n : j < k => l[j].score > l[i].score
    <3> SUFFICES ASSUME NEW j \in 1 .. n, j < k PROVE l[j].score > l[i].score
      OBVIOUS
    <3>1. k > 1 /\ k - 1 \in 1 .. n /\ k - 1 < i /\ (j = k - 1 \/ j < k - 1)
      BY <2>2
    <3>2. l[k - 1].score # l[i].score /\ l[k - 1].score >= l[i].score
      BY <1>7, <2>1, <3>1
    <3>3. l[j].score >= l[k - 1].score
      BY <1>6, <1>7, <3>1
    <3> QED BY <1>6, <3>1, <3>2, <3>3
  <2>4. \A j \in 1 .. n : ~(j < k) => ~(l[j].score > l[i].score)
    <3> SUFFICES ASSUME NEW j \in 1 .. n, ~(j < k) PROVE ~(l[j].score > l[i].score)
      OBVIOUS
    <3>1. j \in k .. i \/ i < j
      BY <2>2
    <3> QED BY <1>6, <1>7, <2>1, <3>1
  <2>5. H(i) = 1 .. (k - 1)
    <3>1. \A j : j \in 1 .. (k - 1) <=> j \in 1 .. n /\ j < k
      BY <2>2
    <3> QED BY <1>0, <2>3, <2>4, <3>1
  <2>6. Cardinality(1 .. (k - 1)) = k - 1 /\ IsFiniteSet(1 .. (k - 1))
    <3>1. 1 \in Int /\ k - 1 \in Int
      BY <2>2
    <3>2. /\ IsFiniteSet(1 .. (k - 1))
          /\ Cardinality(1 .. (k - 1)) = IF 1 > k - 1 THEN 0 ELSE (k - 1) - 1 + 1
      BY <3>1, FS_Interval
    <3> QED BY <2>2, <3>2
  <2> DEFINE f == [j \in 1 .. (k - 1) |-> l[j].user]
  <2>7. \A j \in 1 .. (k - 1) : j \in 1 .. n /\ j < k
    BY <2>2
  <2>8. f \in Bijection(1 .. (k - 1), A)
    <3>1. \A j \in 1 .. (k - 1) : f[j] \in A
      <4> SUFFICES ASSUME NEW j \in 1 .. (k - 1) PROVE l[j].user \in A
        OBVIOUS
      <4>1. l[j].user \in T /\ P(l[j].user) > s
        BY <1>2, <2>3, <2>7
      <4> QED BY <4>1 DEF Above, T, P
    <3>2. ASSUME NEW v \in A PROVE \E j \in 1 .. (k - 1) : f[j] = v
      <4>1. v \in T /\ P(v) > s /\ P(v) \in Nat /\ s \in Nat
        <5>1. v \in T /\ P(v) > s
          BY DEF Above, T, P
        <5> QED BY <1>1, <1>6, <5>1
      <4>2. Place(v) \in 1 .. Cardinality(T)
        BY <1>5, <4>1
      <4>3. ~(i < Place(v))
        BY <1>4, <4>1
      <4>4. Place(v) \in 1 .. n
        BY <1>1, <2>2, <4>2, <4>3
      <4>5. l[Place(v)].user = v
        BY <1>4, <4>1, <4>4
      <4>6. l[Place(v)].score > s
        BY <1>2, <4>1, <4>4, <4>5
      <4>7. Place(v) < k
        BY <2>4, <4>4, <4>6
      <4>8. Place(v) \in 1 .. (k - 1)
        BY <2>2, <4>4, <4>7
      <4> QED BY <4>5, <4>8
    <3>3. \A j, m \in 1 .. (k - 1) : f[j] = f[m] => j = m
      BY <1>6, <2>7
    <3> HIDE DEF A
    <3> QED BY <3>1, <3>2, <3>3 DEF Bijection, Injection, Surjection, IsInjective
  <2> HIDE DEF f, A
  <2>9. Cardinality(A) = Cardinality(1 .. (k - 1))
    <3>1. ExistsBijection(1 .. (k - 1), A)
      BY <2>8 DEF ExistsBijection
    <3> QED BY <2>6, <3>1, FS_Bijection
  <2>10. Cardinality(H(i)) = k - 1
    BY <2>5, <2>6
  <2>11. l[i].rank = 1 + (k - 1)
    BY <2>1, <2>2
  <2> HIDE DEF H
  <2> QED BY <2>6, <2>9, <2>10, <2>11 DEF A
<1>9. \A i, j \in 1 .. n : i # j => l[i].user # l[j].user
  BY <1>6
<1>10. ListRight(l)
  BY <1>0, <1>8, <1>9 DEF ListRight
<1>11. ASSUME NEW u \in T, \A i \in 1 .. n : l[i].user # u
       PROVE  n = Limit /\ l[Limit].score >= P(u)
  <2>1. ~(Place(u) \in 1 .. n)
    BY <1>2, <1>4, <1>11
  <2>2. Place(u) \in 1 .. Cardinality(T)
    BY <1>5
  <2>3. n < Place(u) /\ n < Cardinality(T)
    BY <1>0, <1>1, <2>1, <2>2
  <2>4. n = Limit /\ Limit \in 1 .. n
    BY <1>0, <1>1, <1>3, <2>3
  <2> QED BY <1>4, <2>3, <2>4
<1> QED BY <1>8, <1>10, <1>11 DEF T, P, n

----------------------------------------------------------------------------
(* The list ReadList reads.                                                 *)

LEMMA OrderedIs ==
  ASSUME rankingStats \in Tables, NEW period, NEW w,
         NEW i \in 1 .. Cardinality(Players(rankingStats, period, w))
  PROVE  LET T == Players(rankingStats, period, w)
             u == Ranks!Ordered(T, period, i)
         IN u \in T /\ Cardinality(Ahead(T, Before(rankingStats, period), u)) = i - 1
<1> DEFINE T == Players(rankingStats, period, w)
           lt == Before(rankingStats, period)
           Behind(u) == {v \in T : Ranks!Precedes(v, u, period)}
<1>1. /\ StrictOrder(T, lt) /\ IsFiniteSet(T)
      /\ \A u, v \in T : <<u, v>> \in lt <=> Leads(rankingStats, u, v, period)
  BY PlayersOrdered
<1> HIDE DEF T, lt
<1>2. \A u \in T : Behind(u) = Ahead(T, lt, u)
  BY <1>1, RanksAre DEF Ahead
<1>3. PICK u \in T : Cardinality(Ahead(T, lt, u)) = i - 1
  <2>1. i \in 1 .. Cardinality(T)
    BY DEF T
  <2> QED BY <1>1, <2>1, PlaceReached
<1>4. Ranks!Ordered(T, period, i) = CHOOSE x \in T : Cardinality(Behind(x)) = i - 1
  BY RanksCardinality, Zenon DEF Ranks!Ordered
<1>5. Cardinality(Behind(u)) = i - 1
  BY <1>2, <1>3
<1> DEFINE o == Ranks!Ordered(T, period, i)
<1>6. o \in T /\ Cardinality(Behind(o)) = i - 1
  BY <1>4, <1>5, Zenon
<1> HIDE DEF o
<1>7. Cardinality(Ahead(T, lt, o)) = i - 1
  BY <1>2, <1>6
<1> QED BY <1>6, <1>7 DEF o, T, lt

LEMMA RankIs ==
  ASSUME NEW s, NEW m \in Nat, NEW i \in 1 .. m, NEW period
  PROVE  LET k == Ranks!Rank(s, i, period)
         IN /\ k \in 1 .. i
            /\ \A j \in k .. i : Points(rankingStats, s[j], period) = Points(rankingStats, s[i], period)
            /\ k > 1 => Points(rankingStats, s[k - 1], period) # Points(rankingStats, s[i], period)
<1> DEFINE P(j) == Points(rankingStats, s[j], period)
           Same == {k \in 1 .. i : \A j \in k .. i : P(j) = P(i)}
           Good(k) == /\ \A j \in k .. i : P(j) = P(i)
                      /\ k > 1 => P(k - 1) # P(i)
<1>1. i \in Nat /\ i \in 1 .. i /\ \A j \in i .. i : j = i
  OBVIOUS
<1> HIDE DEF P
<1>2. Same \in SUBSET Nat /\ Same # {}
  <2>1. i \in Same
    BY <1>1
  <2> QED BY <2>1
<1>3. PICK k \in Same : \A q \in Same : k <= q
  <2> HIDE DEF Same
  <2> QED BY <1>2, LeastNumber
<1>4. k \in 1 .. i /\ k \in Nat /\ \A j \in k .. i : P(j) = P(i)
  BY <1>1, <1>3
<1>5. k > 1 => P(k - 1) # P(i)
  <2> SUFFICES ASSUME k > 1, P(k - 1) = P(i) PROVE FALSE
    OBVIOUS
  <2>1. k - 1 \in 1 .. i /\ ~(k <= k - 1)
    BY <1>4
  <2>2. \A j \in (k - 1) .. i : j = k - 1 \/ j \in k .. i
    BY <1>4
  <2>3. \A j \in (k - 1) .. i : P(j) = P(i)
    BY <1>4, <2>2
  <2>4. k - 1 \in Same
    BY <2>1, <2>3
  <2> HIDE DEF Same
  <2> QED BY <1>3, <2>1, <2>4
<1>6. k \in 1 .. i /\ Good(k)
  BY <1>4, <1>5
<1>7. Ranks!Rank(s, i, period) = CHOOSE x \in 1 .. i : Good(x)
  BY RanksAre, Zenon DEF Ranks!Rank, P
<1> DEFINE r == Ranks!Rank(s, i, period)
<1>8. r \in 1 .. i /\ Good(r)
  <2> HIDE DEF Good
  <2> QED BY <1>6, <1>7, Zenon
<1> QED BY <1>8, Zenon DEF P, r

OrderedOf(period, w) ==
  [i \in 1 .. Cardinality(Players(rankingStats, period, w)) |->
     Ranks!Ordered(Players(rankingStats, period, w), period, i)]
TakenOf(period, w) ==
  SubSeq(OrderedOf(period, w), 1,
         Ranks!Lesser(Limit, Cardinality(Players(rankingStats, period, w))))
ListOf(period, w) ==
  [i \in DOMAIN TakenOf(period, w) |->
     [user |-> TakenOf(period, w)[i], score |-> Points(rankingStats, TakenOf(period, w)[i], period),
      rank |-> Ranks!Rank(TakenOf(period, w), i, period)]]

LEMMA ListIs ==
  ASSUME rankingStats \in Tables, NEW period, NEW w
  PROVE  ListOf(period, w) \in Seq(Entries) /\ IsList(rankingStats, period, w, ListOf(period, w))
<1> DEFINE T == Players(rankingStats, period, w)
           c == Cardinality(T)
           m == IF Limit < c THEN Limit ELSE c
           P(u) == Points(rankingStats, u, period)
           ordered == OrderedOf(period, w)
           taken == TakenOf(period, w)
           l == ListOf(period, w)
<1>1. /\ T \in SUBSET Ranked /\ c \in Nat /\ \A u \in T : P(u) \in Nat
  BY PlayersOrdered
<1>2. Limit \in Nat \ {0} /\ m = Ranks!Lesser(Limit, c)
  BY InstancesAssumption DEF Ranks!RankingAssumption, Ranks!Lesser
<1>3. \A i \in 1 .. c : /\ ordered[i] \in T
                        /\ Cardinality(Ahead(T, Before(rankingStats, period), ordered[i])) = i - 1
  BY OrderedIs DEF OrderedOf
<1> HIDE DEF T, c, P, ordered, taken, l
<1>4. m \in Nat /\ m <= c
  BY <1>1, <1>2
<1>5. /\ taken \in Seq(T) /\ Len(taken) = m
      /\ \A i \in 1 .. m : taken[i] = ordered[i]
  <2>1. taken = SubSeq(ordered, 1, m)
    BY <1>2 DEF c, T, taken, ordered, TakenOf
  <2> HIDE DEF m
  <2>2. 1 \in Int /\ m \in Int /\ \A i \in 1 .. m : ordered[i] \in T
    BY <1>1, <1>3, <1>4
  <2>3. /\ taken \in Seq(T) /\ Len(taken) = IF 1 <= m THEN m - 1 + 1 ELSE 0
        /\ \A i \in 1 .. m - 1 + 1 : taken[i] = ordered[1 + i - 1]
    BY <2>1, <2>2, SubSeqProperties
  <2>4. m - 1 + 1 = m /\ \A i \in 1 .. m : 1 + i - 1 = i
    BY <1>4
  <2>5. (IF 1 <= m THEN m - 1 + 1 ELSE 0) = m
    BY <1>4
  <2> QED BY <2>3, <2>4, <2>5
<1> HIDE DEF m
<1>6. DOMAIN taken = 1 .. m
  BY <1>5
<1>7. \A i \in 1 .. m :
        /\ taken[i] \in T
        /\ Cardinality(Ahead(T, Before(rankingStats, period), taken[i])) = i - 1
  <2>1. \A i \in 1 .. m : i \in 1 .. c
    BY <1>1, <1>4
  <2> QED BY <1>3, <1>5, <2>1
<1>8. /\ DOMAIN l = 1 .. m
      /\ \A i \in 1 .. m : /\ l[i].user = taken[i] /\ l[i].score = P(taken[i])
                           /\ l[i].rank = Ranks!Rank(taken, i, period)
                           /\ l[i] = [user |-> taken[i], score |-> P(taken[i]),
                                      rank |-> Ranks!Rank(taken, i, period)]
  BY <1>6 DEF P, taken, l, ListOf
<1>9. \A i \in 1 .. m : /\ l[i].rank \in 1 .. i
                        /\ \A j \in l[i].rank .. i : P(taken[j]) = P(taken[i])
                        /\ l[i].rank > 1 => P(taken[l[i].rank - 1]) # P(taken[i])
  <2> SUFFICES ASSUME NEW i \in 1 .. m
               PROVE  /\ l[i].rank \in 1 .. i
                      /\ \A j \in l[i].rank .. i : P(taken[j]) = P(taken[i])
                      /\ l[i].rank > 1 => P(taken[l[i].rank - 1]) # P(taken[i])
    OBVIOUS
  <2> DEFINE k == Ranks!Rank(taken, i, period)
  <2>1. /\ k \in 1 .. i
        /\ \A j \in k .. i : P(taken[j]) = P(taken[i])
        /\ k > 1 => P(taken[k - 1]) # P(taken[i])
    BY <1>4, RankIs DEF P
  <2>2. l[i].rank = k
    BY <1>8
  <2> HIDE DEF k
  <2> QED BY <2>1, <2>2
<1>10. ASSUME NEW i \in 1 .. m PROVE l[i] \in Entries
  <2>1. l[i].rank \in Nat
    BY <1>4, <1>9
  <2>2. l[i].user \in Ranked /\ l[i].score \in Nat
    BY <1>1, <1>7, <1>8
  <2>3. l[i] = [user |-> l[i].user, score |-> l[i].score, rank |-> l[i].rank]
    BY <1>8
  <2> QED BY <2>1, <2>2, <2>3 DEF Entries
<1>11. l \in Seq(Entries) /\ Len(l) = m
  <2>1. l = [i \in 1 .. m |-> l[i]]
    BY <1>6, <1>8 DEF l, taken, ListOf
  <2>2. l \in [1 .. m -> Entries]
    BY <1>10, <2>1
  <2> QED BY <1>4, <2>2
<1>12. ASSUME NEW i \in 1 .. m
       PROVE  \E k \in 1 .. i : /\ l[i].rank = k
                                /\ \A j \in k .. i : l[j].score = l[i].score
                                /\ k > 1 => l[k - 1].score # l[i].score
  <2> DEFINE k == l[i].rank
  <2>1. k \in 1 .. i
    BY <1>9
  <2> HIDE DEF k
  <2>2. \A j \in k .. i : j \in 1 .. m
    BY <1>4, <2>1
  <2>3. k > 1 => k - 1 \in 1 .. m
    BY <1>4, <2>1
  <2>4. \A j \in k .. i : l[j].score = l[i].score
    BY <1>8, <1>9, <2>2 DEF k
  <2>5. k > 1 => l[k - 1].score # l[i].score
    BY <1>8, <1>9, <2>3 DEF k
  <2> QED BY <2>1, <2>4, <2>5 DEF k
<1>13. \A i \in 1 .. m : l[i].score = P(l[i].user) /\ l[i].user = taken[i]
  BY <1>8
<1>14. IsList(rankingStats, period, w, l)
  <2>1. \A i \in 1 .. m :
          /\ l[i].user \in T
          /\ Cardinality(Ahead(T, Before(rankingStats, period), l[i].user)) = i - 1
          /\ l[i].score = P(l[i].user)
    BY <1>7, <1>13
  <2> QED BY <1>11, <1>12, <2>1, Zenon DEF IsList, T, P, m, c
<1> QED BY <1>11, <1>14 DEF l

----------------------------------------------------------------------------
(* A request and the rows.                                                  *)

Asks == [at : {"idle", "reading", "answered"}, period : Ranks!Periods, user : Ranked \cup {None},
         week : Nat, list : Seq(Entries) \cup {None}, mine : {"ranked", "unread", "counting"},
         score : Nat, myRank : Nat \cup {None}]

(* What a request has read agrees with the rows.                            *)
MineAgrees(st, r) ==
  LET T == Players(st, r.period, r.week)
  IN /\ r.mine = "counting" => r.user \in T /\ r.score = Points(st, r.user, r.period)
     /\ r.mine = "ranked" /\ r.user \in T =>
          r.myRank = 1 + Cardinality(Above(st, r.period, r.week, Points(st, r.user, r.period)))
     /\ r.mine = "ranked" /\ r.user \notin T => r.myRank = None

ListAgrees(st, r) == r.list # None => IsList(st, r.period, r.week, r.list)

(* What it has read is still true of the rows not written since, W being    *)
(* those that were: who leads in the list leads in the rows, and the rank   *)
(* counts some users who differ from those above by written rows only.      *)
Heads(l, s) == {l[j].user : j \in {j \in 1 .. Len(l) : l[j].score > s}}

ListNear(st, r, W) ==
  r.list # None => \A i \in 1 .. Len(r.list) :
    LET u == r.list[i].user
        s == r.list[i].score
    IN /\ u \notin W => u \in Players(st, r.period, r.week) /\ s = Points(st, u, r.period)
       /\ Heads(r.list, s) \ W = Above(st, r.period, r.week, s) \ W

MineNear(st, r, W) ==
  r.user \in Players(st, r.period, r.week) \ W =>
    /\ r.mine = "counting" => r.score = Points(st, r.user, r.period)
    /\ r.mine = "ranked" =>
         \E C \in SUBSET Ranked :
           /\ r.myRank = 1 + Cardinality(C)
           /\ C \ W = Above(st, r.period, r.week, Points(st, r.user, r.period)) \ W

RequestRight(st, r, wr) ==
  /\ r.list # None => ListRight(r.list)
  /\ r.mine = "unread" => r.user \in Ranked /\ r.myRank = None
  /\ r.at # "idle" /\ wr = {} => ListAgrees(st, r) /\ MineAgrees(st, r)
  /\ r.at # "idle" => ListNear(st, r, wr) /\ MineNear(st, r, wr)
  /\ r.at = "answered" => r.list # None /\ r.mine = "ranked"

RankInv(st, wk, r, wr) ==
  st \in Tables /\ wk \in Nat /\ wr \in SUBSET Ranked /\ r \in Asks /\ RequestRight(st, r, wr)

RankPart == which = "ranking" => RankInv(rankingStats, rankingWeek, rankingRequest, rankingWritten)

LEMMA NoneUnranked == None \notin Nat /\ None \notin Ranked
<1>1. None \notin Nat /\ NUsers \in Nat
  BY InstancesAssumption DEF Quiz!QuestionSetAssumption, Ranks!RankingAssumption
<1> QED BY <1>1 DEF Ranked

LEMMA AsksFields ==
  ASSUME NEW r \in Asks
  PROVE  /\ r.at \in {"idle", "reading", "answered"} /\ r.period \in Ranks!Periods
         /\ r.user \in Ranked \cup {None} /\ r.week \in Nat
         /\ r.list \in Seq(Entries) \cup {None} /\ r.mine \in {"ranked", "unread", "counting"}
         /\ r.score \in Nat /\ r.myRank \in Nat \cup {None}
         /\ r = [at |-> r.at, period |-> r.period, user |-> r.user, week |-> r.week,
                 list |-> r.list, mine |-> r.mine, score |-> r.score, myRank |-> r.myRank]
BY DEF Asks

LEMMA RankPartInit == AllInit => RankPart
<1> SUFFICES ASSUME AllInit, which = "ranking"
             PROVE  RankInv(rankingStats, rankingWeek, rankingRequest, rankingWritten)
  BY DEF RankPart
<1>1. /\ rankingStats = [u \in Ranked |-> None] /\ rankingWeek = 0
      /\ rankingRequest = Ranks!NoRequest /\ rankingWritten = {}
  BY RanksAre DEF AllInit, Ranks!Init
<1>2. rankingStats \in Tables
  BY <1>1 DEF Tables
<1> DEFINE r == [at |-> "idle", period |-> "weekly", user |-> None, week |-> 0,
                 list |-> None, mine |-> "ranked", score |-> 0, myRank |-> None]
<1>3. rankingRequest = r
  BY <1>1, Zenon DEF Ranks!NoRequest
<1>4. r \in Asks /\ r.at = "idle" /\ r.list = None /\ r.mine = "ranked"
  BY DEF Asks, Ranks!Periods
<1> HIDE DEF r
<1>5. RequestRight(rankingStats, rankingRequest, rankingWritten)
  BY <1>3, <1>4 DEF RequestRight
<1> QED BY <1>1, <1>2, <1>3, <1>4, <1>5 DEF RankInv

(* What is not written stays as it was.                                     *)
LEMMA NearKept ==
  ASSUME NEW st \in Tables, NEW now \in Tables, NEW r \in Asks, NEW W, NEW V,
         W \in SUBSET V, \A v \in Ranked \ V : now[v] = st[v],
         ListNear(st, r, W), MineNear(st, r, W)
  PROVE  ListNear(now, r, V) /\ MineNear(now, r, V)
<1> DEFINE T == Players(st, r.period, r.week)
           T2 == Players(now, r.period, r.week)
           P(u) == Points(st, u, r.period)
           A(s) == Above(st, r.period, r.week, s)
           A2(s) == Above(now, r.period, r.week, s)
<1>1. \A v : v \notin V => (v \in T2 <=> v \in T)
  BY DEF Players, Takes
<1>2. \A v \in T : v \notin V => Points(now, v, r.period) = P(v)
  BY DEF Players, Points
<1>3. \A s : /\ A(s) = {v \in T : P(v) > s}
             /\ A2(s) = {v \in T2 : Points(now, v, r.period) > s}
  BY DEF Above
<1>4. ASSUME NEW s PROVE A2(s) \ V = A(s) \ V
  BY <1>1, <1>2, <1>3
<1>5. \A s, C : C \ W = A(s) \ W => C \ V = A2(s) \ V
  BY <1>4
<1> HIDE DEF T, T2, P, A, A2
<1>6. ListNear(now, r, V)
  <2> SUFFICES ASSUME r.list # None, NEW i \in 1 .. Len(r.list)
               PROVE  LET u == r.list[i].user
                          s == r.list[i].score
                      IN /\ u \notin V => u \in T2 /\ s = Points(now, u, r.period)
                         /\ Heads(r.list, s) \ V = A2(s) \ V
    BY DEF ListNear, T2, A2
  <2> DEFINE u == r.list[i].user
             s == r.list[i].score
  <2>1. /\ u \notin W => u \in T /\ s = P(u)
        /\ Heads(r.list, s) \ W = A(s) \ W
    BY DEF ListNear, T, A, P
  <2> HIDE DEF u, s
  <2>2. u \notin V => u \in T2 /\ s = Points(now, u, r.period)
    BY <1>1, <1>2, <2>1
  <2>3. Heads(r.list, s) \ V = A2(s) \ V
    BY <1>5, <2>1
  <2> QED BY <2>2, <2>3 DEF u, s
<1>7. MineNear(now, r, V)
  <2> SUFFICES ASSUME r.user \in T2 \ V
               PROVE  /\ r.mine = "counting" => r.score = Points(now, r.user, r.period)
                      /\ r.mine = "ranked" =>
                           \E C \in SUBSET Ranked :
                             /\ r.myRank = 1 + Cardinality(C)
                             /\ C \ V = A2(Points(now, r.user, r.period)) \ V
    BY Zenon DEF MineNear, T2, A2
  <2>1. r.user \in T \ W /\ Points(now, r.user, r.period) = P(r.user)
    BY <1>1, <1>2
  <2>2. /\ r.mine = "counting" => r.score = P(r.user)
        /\ r.mine = "ranked" =>
             \E C \in SUBSET Ranked : r.myRank = 1 + Cardinality(C) /\ C \ W = A(P(r.user)) \ W
    BY <2>1, Zenon DEF MineNear, T, A, P
  <2> QED BY <1>5, <2>1, <2>2
<1> QED BY <1>6, <1>7

(* Rows written beside a request: it no longer has to agree with them.      *)
LEMMA WriteKeepsRank ==
  ASSUME RankInv(rankingStats, rankingWeek, rankingRequest, rankingWritten), NEW u \in Ranked,
         Ranks!Written(u), rankingStats' \in Tables, rankingWeek' \in Nat,
         rankingRequest' = rankingRequest, \A v \in Ranked \ {u} : rankingStats'[v] = rankingStats[v]
  PROVE  RankInv(rankingStats', rankingWeek', rankingRequest', rankingWritten')
<1> DEFINE r == rankingRequest
           wr == rankingWritten
<1>1. /\ wr \in SUBSET Ranked /\ r \in Asks /\ RequestRight(rankingStats, r, wr)
      /\ rankingStats \in Tables
  BY DEF RankInv
<1>2. CASE r.at = "idle"
  <2>1. wr' = wr
    BY <1>2 DEF Ranks!Written
  <2>2. RequestRight(rankingStats', r, wr)
    BY <1>1, <1>2 DEF RequestRight
  <2> QED BY <1>1, <2>1, <2>2 DEF RankInv
<1>3. CASE r.at # "idle"
  <2>1. r.at = "reading" /\ wr' = wr \cup {u}
    BY <1>3, Zenon DEF Ranks!Written
  <2>2. wr' \in SUBSET Ranked /\ wr' # {}
    BY <1>1, <2>1
  <2>3. ListNear(rankingStats', r, wr') /\ MineNear(rankingStats', r, wr')
    <3>1. ListNear(rankingStats, r, wr) /\ MineNear(rankingStats, r, wr)
      BY <1>1, <1>3 DEF RequestRight
    <3>2. wr \in SUBSET (wr') /\ \A v \in Ranked \ (wr') : rankingStats'[v] = rankingStats[v]
      BY <2>1
    <3> QED BY <1>1, <3>1, <3>2, NearKept
  <2>4. RequestRight(rankingStats', r, wr')
    BY <1>1, <2>1, <2>2, <2>3 DEF RequestRight
  <2> QED BY <1>1, <2>2, <2>4 DEF RankInv
<1> QED BY <1>2, <1>3

LEMMA WritesKeepRank ==
  ASSUME RankInv(rankingStats, rankingWeek, rankingRequest, rankingWritten), NEW u \in Ranked,
         (\E points \in 0 .. MaxScore : Ranks!Play(u, points))
           \/ Ranks!Login(u) \/ Ranks!SetActive(u) \/ Ranks!Delete(u)
  PROVE  RankInv(rankingStats', rankingWeek', rankingRequest', rankingWritten')
<1> DEFINE st == rankingStats
           new == [weekly |-> 0, week |-> None, allTime |-> 0, games |-> 0, active |-> TRUE]
<1>1. st \in Tables /\ rankingWeek \in Nat
  BY DEF RankInv
<1>2. st[u] \in Rows \cup {None}
  BY <1>1 DEF Tables
<1>3. Ranks!NewRow = new /\ new \in Rows
  BY DEF Ranks!NewRow, Rows
<1> HIDE DEF new
<1>4. Ranks!Written(u) /\ rankingWeek' = rankingWeek /\ rankingRequest' = rankingRequest
  BY Zenon DEF Ranks!Play, Ranks!Login, Ranks!SetActive, Ranks!Delete
<1> DEFINE Only == /\ rankingStats' \in Tables
                   /\ \A v \in Ranked \ {u} : rankingStats'[v] = st[v]
<1>5. Only
  <2>1. ASSUME NEW points \in 0 .. MaxScore, Ranks!Play(u, points) PROVE Only
    <3> DEFINE row == IF st[u] = None THEN Ranks!NewRow ELSE st[u]
               weekly == points + IF row.week = rankingWeek THEN row.weekly ELSE 0
    <3>1. row \in Rows
      BY <1>2, <1>3
    <3>2. rankingStats' = [st EXCEPT ![u] = [row EXCEPT !.weekly = weekly, !.week = rankingWeek,
                                                        !.allTime = @ + points, !.games = 1]]
      BY <2>1, Zenon DEF Ranks!Play
    <3>3. points \in Nat /\ row.weekly \in Nat /\ row.allTime \in Nat
      <4>1. MaxScore \in Nat
        BY InstancesAssumption DEF Ranks!RankingAssumption
      <4> HIDE DEF row
      <4> QED BY <3>1, <4>1 DEF Rows
    <3> HIDE DEF row
    <3>4. weekly \in Nat /\ row.allTime + points \in Nat
      BY <3>3
    <3> DEFINE now == [row EXCEPT !.weekly = weekly, !.week = rankingWeek,
                                  !.allTime = row.allTime + points, !.games = 1]
    <3>5. rankingStats' = [st EXCEPT ![u] = now]
      BY <3>2
    <3> HIDE DEF weekly
    <3>6. now \in Rows
      <4> HIDE DEF Only
      <4> QED BY <1>1, <3>1, <3>4 DEF Rows
    <3> HIDE DEF now
    <3> QED BY <1>1, <3>5, <3>6 DEF Tables
  <2>2. ASSUME Ranks!Login(u) PROVE Only
    <3>1. rankingStats' = [st EXCEPT ![u] = new]
      BY <1>3, <2>2, Zenon DEF Ranks!Login
    <3> QED BY <1>1, <1>3, <3>1 DEF Tables
  <2>3. ASSUME Ranks!SetActive(u) PROVE Only
    <3> DEFINE now == [st[u] EXCEPT !.active = ~st[u].active]
    <3>1. st[u] # None /\ rankingStats' = [st EXCEPT ![u].active = ~st[u].active]
      BY <2>3 DEF Ranks!SetActive
    <3>2. rankingStats' = [st EXCEPT ![u] = now]
      BY <3>1
    <3>3. now \in Rows
      BY <1>2, <3>1 DEF Rows
    <3> HIDE DEF now
    <3> QED BY <1>1, <3>2, <3>3 DEF Tables
  <2>4. ASSUME Ranks!Delete(u) PROVE Only
    <3>1. rankingStats' = [st EXCEPT ![u] = None]
      BY <2>4, Zenon DEF Ranks!Delete
    <3> QED BY <1>1, <3>1 DEF Tables
  <2> QED BY <2>1, <2>2, <2>3, <2>4
<1> QED BY <1>1, <1>4, <1>5, WriteKeepsRank

LEMMA AskKeepsRank ==
  ASSUME RankInv(rankingStats, rankingWeek, rankingRequest, rankingWritten),
         NEW asker \in Ranked \cup {None}, NEW period \in Ranks!Periods, Ranks!Ask(asker, period)
  PROVE  RankInv(rankingStats', rankingWeek', rankingRequest', rankingWritten')
<1> DEFINE mine == IF asker = None THEN "ranked" ELSE "unread"
           t == [at |-> "reading", period |-> period, user |-> asker, week |-> rankingWeek,
                 list |-> None, mine |-> mine, score |-> 0, myRank |-> None]
<1>1. /\ rankingRequest' = t /\ rankingWritten' = {}
      /\ rankingStats' = rankingStats /\ rankingWeek' = rankingWeek
  BY Zenon DEF Ranks!Ask
<1>2. rankingStats \in Tables /\ rankingWeek \in Nat
  BY DEF RankInv
<1>3. mine \in {"ranked", "unread"} /\ (mine = "unread" => asker \in Ranked) /\ (mine = "ranked" => asker = None)
  OBVIOUS
<1> HIDE DEF mine
<1>4. /\ t \in Asks /\ t.list = None /\ t.mine = mine /\ t.user = asker /\ t.myRank = None
      /\ t.at = "reading" /\ t.period = period /\ t.week = rankingWeek
  BY <1>2, <1>3 DEF Asks
<1> HIDE DEF t
<1>5. None \notin Players(rankingStats, period, rankingWeek)
  BY NoneUnranked DEF Players
<1>6. MineAgrees(rankingStats, t) /\ ListAgrees(rankingStats, t)
  BY <1>3, <1>4, <1>5 DEF MineAgrees, ListAgrees
<1>7. MineNear(rankingStats, t, {}) /\ ListNear(rankingStats, t, {})
  BY <1>3, <1>4, <1>5 DEF MineNear, ListNear
<1>8. RequestRight(rankingStats, t, {})
  BY <1>3, <1>4, <1>6, <1>7 DEF RequestRight
<1> QED BY <1>1, <1>2, <1>4, <1>8 DEF RankInv

(* The list as it is read leads as the rows do.                             *)
LEMMA ListLeads ==
  ASSUME NEW st \in Tables, NEW period, NEW w, NEW l \in Seq(Entries), IsList(st, period, w, l),
         NEW i \in 1 .. Len(l)
  PROVE  Heads(l, l[i].score) = Above(st, period, w, l[i].score)
<1> DEFINE T == Players(st, period, w)
           P(u) == Points(st, u, period)
           s == l[i].score
           Place(u) == Cardinality(Ahead(T, Before(st, period), u)) + 1
<1>1. \A j \in 1 .. Len(l) : l[j].user \in T /\ l[j].score = P(l[j].user)
  BY Zenon DEF IsList
<1>2. \A u \in T :
        /\ Place(u) \in 1 .. Cardinality(T)
        /\ (Place(u) \in 1 .. Len(l)) => (l[Place(u)].user = u)
        /\ (i < Place(u)) => (s >= P(u))
  BY ListFalls
<1>3. (\A u \in T : P(u) \in Nat) /\ Cardinality(T) \in Nat
  BY PlayersOrdered
<1>4. Above(st, period, w, s) = {u \in T : P(u) > s}
  BY DEF Above
<1> HIDE DEF T, P, Place
<1>5. s \in Nat /\ Len(l) \in Nat
  BY <1>1, <1>3
<1> HIDE DEF s
<1>6. ASSUME NEW u \in T, P(u) > s PROVE \E j \in 1 .. Len(l) : l[j].score > s /\ l[j].user = u
  <2>1. ~(i < Place(u))
    BY <1>2, <1>3, <1>5, <1>6
  <2>2. Place(u) \in 1 .. Len(l)
    BY <1>2, <1>3, <1>5, <2>1
  <2> QED BY <1>1, <1>2, <1>6, <2>2
<1>7. Heads(l, s) = {u \in T : P(u) > s}
  BY <1>1, <1>6 DEF Heads
<1> QED BY <1>4, <1>7 DEF s

LEMMA ReadListKeepsRank ==
  ASSUME RankInv(rankingStats, rankingWeek, rankingRequest, rankingWritten), Ranks!ReadList
  PROVE  RankInv(rankingStats', rankingWeek', rankingRequest', rankingWritten')
<1> DEFINE r == rankingRequest
           l == ListOf(r.period, r.week)
           t == [at |-> r.at, period |-> r.period, user |-> r.user, week |-> r.week,
                 list |-> l, mine |-> r.mine, score |-> r.score, myRank |-> r.myRank]
<1>1. /\ rankingStats \in Tables /\ r \in Asks /\ rankingWeek \in Nat /\ rankingWritten \in SUBSET Ranked
      /\ RequestRight(rankingStats, r, rankingWritten)
  BY DEF RankInv
<1>2. /\ r.at = "reading" /\ rankingStats' = rankingStats /\ rankingWeek' = rankingWeek
      /\ rankingWritten' = rankingWritten
  BY Zenon DEF Ranks!ReadList
<1>3. rankingRequest' = [r EXCEPT !.list = l]
  <2> DEFINE T == Players(rankingStats, r.period, r.week)
             ordered == [i \in 1 .. Cardinality(T) |-> Ranks!Ordered(T, r.period, i)]
             taken == SubSeq(ordered, 1, Ranks!Lesser(Limit, Cardinality(T)))
  <2>1. Ranks!Targets(r.period, r.week) = T
    BY RanksAre
  <2>2. rankingRequest' = [r EXCEPT !.list =
          [i \in DOMAIN taken |->
             [user |-> taken[i], score |-> Ranks!Score(taken[i], r.period),
              rank |-> Ranks!Rank(taken, i, r.period)]]]
    BY <2>1, RanksCardinality, Zenon DEF Ranks!ReadList
  <2>3. \A u : Ranks!Score(u, r.period) = Points(rankingStats, u, r.period)
    BY RanksAre
  <2>4. taken = TakenOf(r.period, r.week)
    BY DEF TakenOf, OrderedOf
  <2> HIDE DEF taken
  <2>5. rankingRequest' = [r EXCEPT !.list =
          [i \in DOMAIN taken |->
             [user |-> taken[i], score |-> Points(rankingStats, taken[i], r.period),
              rank |-> Ranks!Rank(taken, i, r.period)]]]
    BY <2>2, <2>3
  <2> QED BY <2>4, <2>5, Zenon DEF ListOf
<1>4. l \in Seq(Entries) /\ IsList(rankingStats, r.period, r.week, l)
  BY <1>1, ListIs
<1> HIDE DEF l
<1>5. ListRight(l)
  BY <1>1, <1>4, ListTells
<1>6. /\ r \in Asks /\ r.at \in {"idle", "reading", "answered"} /\ r.period \in Ranks!Periods
      /\ r.user \in Ranked \cup {None} /\ r.week \in Nat
      /\ r.mine \in {"ranked", "unread", "counting"}
      /\ r.score \in Nat /\ r.myRank \in Nat \cup {None}
      /\ r = [at |-> r.at, period |-> r.period, user |-> r.user, week |-> r.week,
              list |-> r.list, mine |-> r.mine, score |-> r.score, myRank |-> r.myRank]
  BY <1>1, AsksFields
<1>7. rankingRequest' = t
  BY <1>3, <1>6
<1>8. /\ t \in Asks /\ t.at = "reading" /\ t.list = l /\ t.mine = r.mine /\ t.user = r.user
      /\ t.period = r.period /\ t.week = r.week /\ t.score = r.score /\ t.myRank = r.myRank
  BY <1>2, <1>4, <1>6 DEF Asks
<1> HIDE DEF t
<1>9. MineAgrees(rankingStats, r) => MineAgrees(rankingStats, t)
  BY <1>8 DEF MineAgrees
<1>10. ListAgrees(rankingStats, t)
  BY <1>4, <1>8 DEF ListAgrees
<1>11. MineNear(rankingStats, r, rankingWritten) => MineNear(rankingStats, t, rankingWritten)
  BY <1>8 DEF MineNear
<1>12. ListNear(rankingStats, t, rankingWritten)
  <2>1. \A i \in 1 .. Len(l) :
          /\ l[i].user \in Players(rankingStats, r.period, r.week)
          /\ l[i].score = Points(rankingStats, l[i].user, r.period)
    BY <1>4, Zenon DEF IsList
  <2>2. \A i \in 1 .. Len(l) :
          Heads(l, l[i].score) = Above(rankingStats, r.period, r.week, l[i].score)
    BY <1>1, <1>4, ListLeads
  <2> QED BY <1>8, <2>1, <2>2 DEF ListNear
<1>13. RequestRight(rankingStats, t, rankingWritten)
  BY <1>1, <1>2, <1>5, <1>8, <1>9, <1>10, <1>11, <1>12 DEF RequestRight
<1> QED BY <1>1, <1>2, <1>7, <1>8, <1>13 DEF RankInv

LEMMA MineKeepsRank ==
  ASSUME RankInv(rankingStats, rankingWeek, rankingRequest, rankingWritten),
         NEW mine \in {"ranked", "counting"}, NEW score \in Nat, NEW myRank \in Nat \cup {None},
         rankingRequest.at = "reading",
         rankingRequest' = [at |-> rankingRequest.at, period |-> rankingRequest.period,
                            user |-> rankingRequest.user, week |-> rankingRequest.week,
                            list |-> rankingRequest.list, mine |-> mine, score |-> score,
                            myRank |-> myRank],
         UNCHANGED <<rankingStats, rankingWeek, rankingWritten>>,
         rankingWritten = {} => MineAgrees(rankingStats, rankingRequest'),
         MineNear(rankingStats, rankingRequest', rankingWritten)
  PROVE  RankInv(rankingStats', rankingWeek', rankingRequest', rankingWritten')
<1> DEFINE r == rankingRequest
           t == [at |-> r.at, period |-> r.period, user |-> r.user, week |-> r.week,
                 list |-> r.list, mine |-> mine, score |-> score, myRank |-> myRank]
<1>1. /\ rankingStats \in Tables /\ r \in Asks /\ rankingWeek \in Nat /\ rankingWritten \in SUBSET Ranked
      /\ RequestRight(rankingStats, r, rankingWritten)
  BY DEF RankInv
<1>2. /\ r.at \in {"idle", "reading", "answered"} /\ r.period \in Ranks!Periods
      /\ r.user \in Ranked \cup {None} /\ r.week \in Nat
      /\ r.list \in Seq(Entries) \cup {None}
  BY <1>1, AsksFields
<1>3. rankingRequest' = t
  OBVIOUS
<1>4. t \in Asks
  BY <1>2 DEF Asks
<1>5. /\ t.at = "reading" /\ t.list = r.list /\ t.mine = mine
      /\ t.period = r.period /\ t.week = r.week
  OBVIOUS
<1> HIDE DEF t
<1>6. ListAgrees(rankingStats, r) => ListAgrees(rankingStats, t)
  BY <1>5 DEF ListAgrees
<1>7. ListNear(rankingStats, r, rankingWritten) => ListNear(rankingStats, t, rankingWritten)
  BY <1>5 DEF ListNear
<1>8. RequestRight(rankingStats, t, rankingWritten)
  BY <1>1, <1>3, <1>5, <1>6, <1>7 DEF RequestRight
<1> QED BY <1>1, <1>3, <1>4, <1>8 DEF RankInv

LEMMA ReadMineKeepsRank ==
  ASSUME RankInv(rankingStats, rankingWeek, rankingRequest, rankingWritten), Ranks!ReadMine
  PROVE  RankInv(rankingStats', rankingWeek', rankingRequest', rankingWritten')
<1> DEFINE r == rankingRequest
           st == rankingStats
           T == Players(st, r.period, r.week)
           s == Points(st, r.user, r.period)
<1>1. /\ st \in Tables /\ r \in Asks /\ rankingWeek \in Nat /\ rankingWritten \in SUBSET Ranked
      /\ RequestRight(st, r, rankingWritten)
  BY DEF RankInv
<1>2. /\ r.at = "reading" /\ r.mine = "unread" /\ UNCHANGED <<rankingStats, rankingWeek, rankingWritten>>
  BY Zenon DEF Ranks!ReadMine
<1>3. r.user \in Ranked /\ r.myRank = None
  BY <1>1, <1>2 DEF RequestRight
<1>4. rankingRequest' = IF Takes(st, r.user, r.period, r.week)
                        THEN [r EXCEPT !.mine = "counting", !.score = s]
                        ELSE [r EXCEPT !.mine = "ranked"]
  BY RanksAre, Zenon DEF Ranks!ReadMine
<1>5. /\ r.score \in Nat /\ r.myRank \in Nat \cup {None}
      /\ r = [at |-> r.at, period |-> r.period, user |-> r.user, week |-> r.week,
              list |-> r.list, mine |-> r.mine, score |-> r.score, myRank |-> r.myRank]
  BY <1>1, AsksFields
<1>6. Takes(st, r.user, r.period, r.week) <=> r.user \in T
  BY <1>3 DEF Players
<1>7. \A u \in T : Points(st, u, r.period) \in Nat
  BY <1>1, PlayersOrdered
<1> DEFINE Now(mine, score) ==
             [at |-> r.at, period |-> r.period, user |-> r.user, week |-> r.week,
              list |-> r.list, mine |-> mine, score |-> score, myRank |-> r.myRank]
<1>8. CASE r.user \in T
  <2>1. s \in Nat
    BY <1>7, <1>8
  <2>2. rankingRequest' = [r EXCEPT !.mine = "counting", !.score = s]
    BY <1>4, <1>6, <1>8
  <2> HIDE DEF s
  <2>3. rankingRequest' = Now("counting", s)
    BY <1>5, <2>2
  <2>4. MineAgrees(st, Now("counting", s))
    BY <1>8 DEF MineAgrees, s
  <2>5. "counting" \in {"ranked", "counting"}
    OBVIOUS
  <2>6. MineNear(st, Now("counting", s), rankingWritten)
    BY DEF MineNear, s
  <2> QED BY <1>2, <1>5, <2>1, <2>3, <2>4, <2>5, <2>6, MineKeepsRank
<1>9. CASE r.user \notin T
  <2>1. rankingRequest' = [r EXCEPT !.mine = "ranked"]
    BY <1>4, <1>6, <1>9
  <2>2. rankingRequest' = Now("ranked", r.score)
    BY <1>5, <2>1
  <2>3. MineAgrees(st, Now("ranked", r.score))
    BY <1>3, <1>9 DEF MineAgrees
  <2>4. "ranked" \in {"ranked", "counting"}
    OBVIOUS
  <2>5. MineNear(st, Now("ranked", r.score), rankingWritten)
    BY <1>9 DEF MineNear
  <2> QED BY <1>2, <1>5, <2>2, <2>3, <2>4, <2>5, MineKeepsRank
<1> QED BY <1>8, <1>9

LEMMA CountKeepsRank ==
  ASSUME RankInv(rankingStats, rankingWeek, rankingRequest, rankingWritten), Ranks!CountHigher
  PROVE  RankInv(rankingStats', rankingWeek', rankingRequest', rankingWritten')
<1> DEFINE r == rankingRequest
           st == rankingStats
           T == Players(st, r.period, r.week)
           A == Above(st, r.period, r.week, r.score)
           n == Cardinality(A) + 1
           t == [at |-> r.at, period |-> r.period, user |-> r.user, week |-> r.week,
                 list |-> r.list, mine |-> "ranked", score |-> 0, myRank |-> n]
<1>1. /\ st \in Tables /\ r \in Asks /\ rankingWeek \in Nat /\ rankingWritten \in SUBSET Ranked
      /\ RequestRight(st, r, rankingWritten)
  BY DEF RankInv
<1>2. /\ r.at = "reading" /\ r.mine = "counting"
      /\ UNCHANGED <<rankingStats, rankingWeek, rankingWritten>>
  BY Zenon DEF Ranks!CountHigher
<1>3. Ranks!Higher(r.score) = A
  <2>1. Ranks!Higher(r.score) = {u \in T : Ranks!Score(u, r.period) > r.score}
    BY RanksAre, Zenon DEF Ranks!Higher
  <2> QED BY <2>1, RanksAre DEF Above
<1> HIDE DEF A
<1>4. rankingRequest' = [r EXCEPT !.myRank = n, !.mine = "ranked", !.score = 0]
  BY <1>3, RanksCardinality, Zenon DEF Ranks!CountHigher
<1>5. n \in Nat /\ Cardinality(A) \in Int
  <2>1. IsFiniteSet(T)
    BY <1>1, PlayersOrdered
  <2>2. A \in SUBSET T
    BY DEF A, Above
  <2> HIDE DEF T
  <2>3. Cardinality(A) \in Nat
    BY <2>1, <2>2, FS_Subset, FS_CardinalityType
  <2> QED BY <2>3
<1>6. r = [at |-> r.at, period |-> r.period, user |-> r.user, week |-> r.week,
           list |-> r.list, mine |-> r.mine, score |-> r.score, myRank |-> r.myRank]
  BY <1>1, AsksFields
<1> HIDE DEF n
<1>7. rankingRequest' = t
  BY <1>4, <1>6
<1>8. ASSUME rankingWritten = {} PROVE MineAgrees(st, t)
  <2>1. r.user \in T /\ r.score = Points(st, r.user, r.period)
    BY <1>1, <1>2, <1>8 DEF RequestRight, MineAgrees
  <2>2. n = 1 + Cardinality(Above(st, r.period, r.week, Points(st, r.user, r.period)))
    <3>1. n = 1 + Cardinality(A)
      BY <1>5 DEF n
    <3> QED BY <2>1, <3>1 DEF A
  <2>3. t.mine = "ranked" /\ t.user = r.user /\ t.period = r.period /\ t.week = r.week /\ t.myRank = n
    OBVIOUS
  <2> HIDE DEF t
  <2> QED BY <2>1, <2>2, <2>3 DEF MineAgrees
<1>9. "ranked" \in {"ranked", "counting"} /\ 0 \in Nat /\ n \in Nat \cup {None}
  BY <1>5
<1>10. rankingWritten = {} => MineAgrees(rankingStats, rankingRequest')
  <2> HIDE DEF t
  <2> QED BY <1>7, <1>8
<1>11. MineNear(st, t, rankingWritten)
  <2>1. r.user \in T \ rankingWritten => r.score = Points(st, r.user, r.period)
    BY <1>1, <1>2 DEF RequestRight, MineNear
  <2>2. A \in SUBSET Ranked /\ n = 1 + Cardinality(A)
    BY <1>5 DEF A, Above, Players, n
  <2>3. r.score = Points(st, r.user, r.period) =>
          A = Above(st, r.period, r.week, Points(st, r.user, r.period))
    BY DEF A
  <2>4. /\ t.mine = "ranked" /\ t.user = r.user /\ t.period = r.period
        /\ t.week = r.week /\ t.myRank = n
    OBVIOUS
  <2> HIDE DEF t
  <2> QED BY <2>1, <2>2, <2>3, <2>4 DEF MineNear
<1>12. MineNear(rankingStats, rankingRequest', rankingWritten)
  <2> HIDE DEF t
  <2> QED BY <1>7, <1>11
<1> QED BY <1>2, <1>7, <1>9, <1>10, <1>12, MineKeepsRank

LEMMA AnswerKeepsRank ==
  ASSUME RankInv(rankingStats, rankingWeek, rankingRequest, rankingWritten), Ranks!Answer
  PROVE  RankInv(rankingStats', rankingWeek', rankingRequest', rankingWritten')
<1> DEFINE r == rankingRequest
           st == rankingStats
           t == [at |-> "answered", period |-> r.period, user |-> r.user, week |-> r.week,
                 list |-> r.list, mine |-> r.mine, score |-> r.score, myRank |-> r.myRank]
<1>1. /\ st \in Tables /\ r \in Asks /\ rankingWeek \in Nat /\ rankingWritten \in SUBSET Ranked
      /\ RequestRight(st, r, rankingWritten)
  BY DEF RankInv
<1>2. /\ r.at = "reading" /\ r.mine = "ranked" /\ r.list # None
      /\ UNCHANGED <<rankingStats, rankingWeek, rankingWritten>>
      /\ rankingRequest' = [r EXCEPT !.at = "answered"]
  BY Zenon DEF Ranks!Answer
<1>3. /\ r.period \in Ranks!Periods
      /\ r.user \in Ranked \cup {None} /\ r.week \in Nat
      /\ r.list \in Seq(Entries) \cup {None} /\ r.mine \in {"ranked", "unread", "counting"}
      /\ r.score \in Nat /\ r.myRank \in Nat \cup {None}
      /\ r = [at |-> r.at, period |-> r.period, user |-> r.user, week |-> r.week,
              list |-> r.list, mine |-> r.mine, score |-> r.score, myRank |-> r.myRank]
  BY <1>1, AsksFields
<1>4. rankingRequest' = t
  BY <1>2, <1>3
<1>5. /\ t \in Asks /\ t.at = "answered" /\ t.list = r.list /\ t.mine = r.mine /\ t.user = r.user
      /\ t.period = r.period /\ t.week = r.week /\ t.score = r.score /\ t.myRank = r.myRank
  BY <1>3 DEF Asks
<1> HIDE DEF t
<1>6. ListAgrees(st, r) /\ MineAgrees(st, r) => ListAgrees(st, t) /\ MineAgrees(st, t)
  BY <1>5 DEF ListAgrees, MineAgrees
<1>7. /\ ListNear(st, r, rankingWritten) => ListNear(st, t, rankingWritten)
      /\ MineNear(st, r, rankingWritten) => MineNear(st, t, rankingWritten)
  BY <1>5 DEF ListNear, MineNear
<1>8. RequestRight(st, t, rankingWritten)
  BY <1>1, <1>2, <1>5, <1>6, <1>7 DEF RequestRight
<1> QED BY <1>1, <1>2, <1>4, <1>5, <1>8 DEF RankInv

LEMMA RankPartNext ==
  ASSUME which \in {"accounts", "turn", "race", "twice", "quiz", "streak", "scan", "ranking",
                   "responses"},
         RankPart, [AllNext]_allVars
  PROVE  RankPart'
<1>1. which' = which /\ (which = "ranking" => Ranks!Next \/ UNCHANGED rankingVars)
  BY DEF AllNext, allVars
<1> SUFFICES ASSUME which = "ranking", Ranks!Next \/ UNCHANGED rankingVars,
                    RankInv(rankingStats, rankingWeek, rankingRequest, rankingWritten)
             PROVE  RankInv(rankingStats', rankingWeek', rankingRequest', rankingWritten')
  BY <1>1 DEF RankPart
<1>2. CASE UNCHANGED rankingVars
  BY <1>2 DEF rankingVars
<1>3. CASE Ranks!WeekPasses
  <2>1. /\ rankingWeek' = rankingWeek + 1
        /\ UNCHANGED <<rankingStats, rankingRequest, rankingWritten>>
    BY <1>3 DEF Ranks!WeekPasses
  <2>2. rankingWeek' \in Nat
    BY <2>1 DEF RankInv
  <2> QED BY <2>1, <2>2 DEF RankInv
<1>4. ASSUME NEW u \in Ranked,
             (\E points \in 0 .. MaxScore : Ranks!Play(u, points))
               \/ Ranks!Login(u) \/ Ranks!SetActive(u) \/ Ranks!Delete(u)
      PROVE  RankInv(rankingStats', rankingWeek', rankingRequest', rankingWritten')
  BY <1>4, WritesKeepRank
<1>5. ASSUME NEW asker \in Askers \cup {None}, NEW period \in Ranks!Periods, Ranks!Ask(asker, period)
      PROVE  RankInv(rankingStats', rankingWeek', rankingRequest', rankingWritten')
  <2>1. asker \in Ranked \cup {None}
    BY InstancesAssumption DEF Ranks!RankingAssumption, Ranked
  <2> QED BY <1>5, <2>1, AskKeepsRank
<1>6. CASE Ranks!ReadList
  BY <1>6, ReadListKeepsRank
<1>7. CASE Ranks!ReadMine
  BY <1>7, ReadMineKeepsRank
<1>8. CASE Ranks!CountHigher
  BY <1>8, CountKeepsRank
<1>9. CASE Ranks!Answer
  BY <1>9, AnswerKeepsRank
<1> QED BY <1>2, <1>3, <1>4, <1>5, <1>6, <1>7, <1>8, <1>9, RanksAre DEF Ranks!Next

(* Sets that differ in written rows only differ in size by no more.         *)
LEMMA NearInSize ==
  ASSUME NEW C \in SUBSET Ranked, NEW U \in SUBSET Ranked, NEW W \in SUBSET Ranked, C \ W = U \ W
  PROVE  Ranks!Apart(1 + Cardinality(C), 1 + Cardinality(U)) <= Cardinality(W)
<1>1. IsFiniteSet(Ranked)
  <2>1. NUsers \in Nat
    BY InstancesAssumption DEF Ranks!RankingAssumption
  <2> QED BY <2>1, FS_Interval DEF Ranked
<1>2. ASSUME NEW S \in SUBSET Ranked
      PROVE  /\ IsFiniteSet(S) /\ Cardinality(S) \in Nat
             /\ Cardinality(S) <= Cardinality(S \ W) + Cardinality(W)
             /\ Cardinality(S \ W) <= Cardinality(S) /\ Cardinality(S \ W) \in Nat
  <2>1. IsFiniteSet(S) /\ IsFiniteSet(S \ W) /\ IsFiniteSet(S \cap W) /\ IsFiniteSet(W)
    BY <1>1, FS_Subset
  <2>2. /\ Cardinality(S) \in Nat /\ Cardinality(S \ W) \in Nat
        /\ Cardinality(S \cap W) \in Nat /\ Cardinality(W) \in Nat
    BY <2>1, FS_CardinalityType
  <2>3. Cardinality(S \ W) = Cardinality(S) - Cardinality(S \cap W)
    BY <2>1, FS_Difference
  <2>4. Cardinality(S \cap W) <= Cardinality(W)
    <3>1. S \cap W \in SUBSET W
      OBVIOUS
    <3> QED BY <2>1, <3>1, FS_Subset
  <2> QED BY <2>1, <2>2, <2>3, <2>4
<1>3. Cardinality(W) \in Nat
  BY <1>2
<1> DEFINE c == Cardinality(C)
           u == Cardinality(U)
           n == Cardinality(W)
           d == Cardinality(C \ W)
<1>4. c \in Nat /\ u \in Nat /\ n \in Nat /\ d \in Nat /\ d <= c /\ d <= u /\ c <= d + n /\ u <= d + n
  BY <1>2, <1>3
<1> HIDE DEF c, u, n, d
<1>5. Ranks!Apart(1 + c, 1 + u) <= n
  BY <1>4 DEF Ranks!Apart
<1> QED BY <1>5 DEF c, u, n

(* Those ahead in a list are as many users as places.                       *)
LEMMA HeadsAre ==
  ASSUME NEW l \in Seq(Entries), ListRight(l), NEW s
  PROVE  /\ Heads(l, s) \in SUBSET Ranked
         /\ Cardinality({j \in DOMAIN l : l[j].score > s}) = Cardinality(Heads(l, s))
<1> DEFINE J == {j \in DOMAIN l : l[j].score > s}
           f == [j \in J |-> l[j].user]
<1>1. Heads(l, s) = {l[j].user : j \in J} /\ Heads(l, s) \in SUBSET Ranked
  <2>1. Len(l) \in Nat /\ DOMAIN l = 1 .. Len(l)
    OBVIOUS
  <2>2. \A j \in J : l[j].user \in Ranked
    <3>1. \A j \in DOMAIN l : l[j] \in Entries
      BY <2>1
    <3> QED BY <3>1 DEF Entries
  <2>3. Heads(l, s) = {l[j].user : j \in J}
    BY <2>1, Zenon DEF Heads
  <2> HIDE DEF J
  <2> QED BY <2>2, <2>3
<1>2. IsFiniteSet(J)
  <2>1. Len(l) \in Nat /\ J \in SUBSET (1 .. Len(l))
    OBVIOUS
  <2>2. IsFiniteSet(1 .. Len(l))
    BY <2>1, FS_Interval
  <2> HIDE DEF J
  <2> QED BY <2>1, <2>2, FS_Subset
<1>3. \A j, m \in J : l[j].user = l[m].user => j = m
  BY DEF ListRight
<1> HIDE DEF J
<1>4. f \in Bijection(J, Heads(l, s))
  BY <1>1, <1>3 DEF Bijection, Injection, Surjection, IsInjective
<1>5. Cardinality(Heads(l, s)) = Cardinality(J)
  <2>1. ExistsBijection(J, Heads(l, s))
    BY <1>4 DEF ExistsBijection
  <2> QED BY <1>2, <2>1, FS_Bijection
<1> QED BY <1>1, <1>5 DEF J

LEMMA RankPartMeans == RankPart /\ which = "ranking" => Ranks!RanksAgree
<1> DEFINE r == rankingRequest
           st == rankingStats
           l == r.list
           listed == {i \in DOMAIN l : l[i].user = r.user}
<1> SUFFICES ASSUME RankInv(st, rankingWeek, r, rankingWritten), r.at = "answered"
             PROVE  /\ \A i \in DOMAIN l :
                         l[i].rank = 1 + Cardinality({j \in DOMAIN l : l[j].score > l[i].score})
                    /\ \A i, j \in DOMAIN l : i # j => l[i].user # l[j].user
                    /\ r.user \notin rankingWritten =>
                         \A i \in listed :
                           /\ r.myRank # None
                           /\ Ranks!Apart(r.myRank, l[i].rank) <= Cardinality(rankingWritten)
                    /\ rankingWritten = {} /\ listed = {} /\ r.myRank # None =>
                         Len(l) = Limit /\ r.myRank >= l[Limit].rank
  BY RanksCardinality DEF RankPart, Ranks!RanksAgree
<1>1. st \in Tables /\ r \in Asks /\ RequestRight(st, r, rankingWritten)
  BY DEF RankInv
<1>2. l # None /\ r.mine = "ranked" /\ ListRight(l)
  BY <1>1 DEF RequestRight
<1>3. l \in Seq(Entries)
  BY <1>1, <1>2, AsksFields
<1>4. ASSUME rankingWritten = {}, listed = {}, r.myRank # None
      PROVE  Len(l) = Limit /\ r.myRank >= l[Limit].rank
  <2> DEFINE T == Players(st, r.period, r.week)
             P(u) == Points(st, u, r.period)
             A(s) == Above(st, r.period, r.week, s)
             n == Len(l)
  <2>1. IsList(st, r.period, r.week, l) /\ MineAgrees(st, r)
    BY <1>1, <1>2, <1>4 DEF RequestRight, ListAgrees
  <2>2. /\ r.user \in T => r.myRank = 1 + Cardinality(A(P(r.user)))
        /\ r.user \notin T => r.myRank = None
    BY <1>2, <2>1, Zenon DEF MineAgrees
  <2>3. \A i \in 1 .. n : l[i].user \in T /\ l[i].score = P(l[i].user)
    BY <2>1, Zenon DEF IsList
  <2>4. /\ \A i \in 1 .. n : l[i].rank = 1 + Cardinality(A(l[i].score))
        /\ \A u \in T : (\A i \in 1 .. n : l[i].user # u) => n = Limit /\ l[Limit].score >= P(u)
    BY <1>1, <1>3, <2>1, ListTells
  <2>5. DOMAIN l = 1 .. n /\ n \in Nat
    BY <1>3
  <2>6. IsFiniteSet(T) /\ \A u \in T : P(u) \in Nat
    BY <1>1, PlayersOrdered
  <2>7. \A s : A(s) = {v \in T : P(v) > s}
    BY DEF Above
  <2> HIDE DEF T, P, A, n, l
  <2>8. n = Limit /\ r.myRank >= l[Limit].rank
    <3>1. r.user \in T /\ r.myRank = 1 + Cardinality(A(P(r.user)))
      BY <1>4, <2>2
    <3>2. \A i \in 1 .. n : l[i].user # r.user
      BY <1>4, <2>5
    <3>3. n = Limit /\ l[Limit].score >= P(r.user)
      BY <2>4, <3>1, <3>2
    <3>4. Limit \in 1 .. n
      <4>1. Limit \in Nat \ {0}
        BY InstancesAssumption DEF Ranks!RankingAssumption
      <4> QED BY <3>3, <4>1
    <3> DEFINE s == l[Limit].score
    <3>5. s \in Nat /\ P(r.user) \in Nat
      BY <2>3, <2>6, <3>1, <3>4
    <3>6. l[Limit].rank = 1 + Cardinality(A(s))
      BY <2>4, <3>4
    <3>7. A(s) \in SUBSET A(P(r.user))
      <4>1. ASSUME NEW v \in T, P(v) > s PROVE P(v) > P(r.user)
        <5>1. P(v) \in Nat
          BY <2>6
        <5> QED BY <3>3, <3>5, <4>1, <5>1
      <4> QED BY <2>7, <4>1
    <3>8. IsFiniteSet(A(P(r.user)))
      <4>1. A(P(r.user)) \in SUBSET T
        BY <2>7
      <4> QED BY <2>6, <4>1, FS_Subset
    <3> HIDE DEF s
    <3> DEFINE a == Cardinality(A(s))
               b == Cardinality(A(P(r.user)))
    <3>9. IsFiniteSet(A(s)) /\ a <= b
      BY <3>7, <3>8, FS_Subset
    <3>10. a \in Nat /\ b \in Nat
      BY <3>8, <3>9, FS_CardinalityType
    <3> HIDE DEF a, b
    <3>11. 1 + b >= 1 + a
      BY <3>9, <3>10
    <3> QED BY <3>1, <3>3, <3>6, <3>11 DEF a, b
  <2> QED BY <2>8 DEF n, l
<1>5. ASSUME r.user \notin rankingWritten, NEW i \in listed
      PROVE  /\ r.myRank # None
             /\ Ranks!Apart(r.myRank, l[i].rank) <= Cardinality(rankingWritten)
  <2> DEFINE A(s) == Above(st, r.period, r.week, s)
             s == l[i].score
             H == Heads(l, s)
  <2>1. ListNear(st, r, rankingWritten) /\ MineNear(st, r, rankingWritten)
    BY <1>1 DEF RequestRight
  <2>2. i \in 1 .. Len(l) /\ l[i].user = r.user
    BY <1>3
  <2>3. /\ r.user \in Players(st, r.period, r.week) /\ s = Points(st, r.user, r.period)
        /\ H \ rankingWritten = A(s) \ rankingWritten
    BY <1>2, <1>5, <2>1, <2>2 DEF ListNear
  <2>4. PICK C \in SUBSET Ranked : /\ r.myRank = 1 + Cardinality(C)
                                   /\ C \ rankingWritten = A(s) \ rankingWritten
    BY <1>2, <1>5, <2>1, <2>3 DEF MineNear
  <2>5. H \in SUBSET Ranked /\ l[i].rank = 1 + Cardinality(H)
    BY <1>2, <1>3, <2>2, HeadsAre DEF ListRight
  <2> HIDE DEF A, s, H
  <2>6. C \ rankingWritten = H \ rankingWritten /\ rankingWritten \in SUBSET Ranked
    BY <2>3, <2>4 DEF RankInv
  <2>7. Ranks!Apart(r.myRank, l[i].rank) <= Cardinality(rankingWritten)
    BY <2>4, <2>5, <2>6, NearInSize
  <2>8. r.myRank # None
    <3>1. IsFiniteSet(Ranked)
      <4>1. NUsers \in Nat
        BY InstancesAssumption DEF Ranks!RankingAssumption
      <4> QED BY <4>1, FS_Interval DEF Ranked
    <3>2. Cardinality(C) \in Nat
      BY <3>1, FS_Subset, FS_CardinalityType
    <3> QED BY <2>4, <3>2, NoneUnranked
  <2> QED BY <2>7, <2>8
<1> QED BY <1>2, <1>4, <1>5 DEF ListRight

----------------------------------------------------------------------------
(* The answers that are checked before they are sent.                       *)

Counted == {"totalGames", "totalCorrect", "totalAnswered", "masteredCount", "currentStreak",
            "weeklyScore", "allTimeScore"}

RepliesPart == which = "responses" =>
  DOMAIN replyRow = Counted \cup {"week"} /\ \A f \in Counted : replyRow[f] \in Int

LEMMA RepliesPartInit == AllInit => RepliesPart
BY InstancesAssumption
   DEF AllInit, RepliesPart, Replies!Init, Replies!NewRow, Counted, Replies!CountersAssumption

LEMMA RepliesPartNext == RepliesPart /\ [AllNext]_allVars => RepliesPart'
<1> SUFFICES ASSUME RepliesPart, [AllNext]_allVars, which' = "responses" PROVE RepliesPart'
  BY DEF RepliesPart
<1>1. which = "responses" /\ (Replies!Next \/ UNCHANGED replyRow)
  BY DEF AllNext, allVars, replyVars
<1>2. DOMAIN replyRow = Counted \cup {"week"} /\ \A f \in Counted : replyRow[f] \in Int
  BY <1>1 DEF RepliesPart
<1>3. CASE UNCHANGED replyRow
  BY <1>2, <1>3 DEF RepliesPart
<1>4. ASSUME NEW f \in DOMAIN replyRow \ {"week"}, NEW c \in Counters,
             replyRow' = [replyRow EXCEPT ![f] = c]
      PROVE  RepliesPart'
  <2>1. c \in Int /\ f \in Counted
    BY <1>2, InstancesAssumption DEF Replies!CountersAssumption
  <2> QED BY <1>2, <1>4, <2>1 DEF RepliesPart
<1>5. CASE replyRow' = [replyRow EXCEPT !.week = replyWeek]
  <2>1. "week" \notin Counted
    BY DEF Counted
  <2> QED BY <1>2, <1>5, <2>1 DEF RepliesPart
<1> QED BY <1>1, <1>3, <1>4, <1>5 DEF Replies!Next, Replies!Write, Replies!WeekPasses

(* A quotient is at most k when the dividend is less than k + 1 times the   *)
(* divisor.                                                                 *)
LEMMA QuotientBound ==
  ASSUME NEW a \in Nat, NEW b \in Nat \ {0}, NEW k \in Nat, a < b * (k + 1)
  PROVE  a \div b \in 0 .. k
<1> DEFINE q == a \div b
           r == a % b
<1>1. q \in Int /\ r \in 0 .. (b - 1) /\ a = b * q + r
  OBVIOUS
<1> HIDE DEF q, r
<1>2. b * q >= b * (k + 1) \/ q < k + 1
  BY <1>1
<1>3. b * q <= 0 - b \/ q >= 0
  BY <1>1
<1> QED BY <1>1, <1>2, <1>3 DEF q

LEMMA PairOrdered ==
  ASSUME NEW c \in Int, NEW t \in Int
  PROVE  LET pair == Replies!NormalizeCountPair(c, t)
         IN /\ pair.correctCount \in Nat /\ pair.totalCount \in Nat
            /\ pair.correctCount <= pair.totalCount
            /\ Replies!NormalizeCountPair(pair.correctCount, pair.totalCount) = pair
BY DEF Replies!NormalizeCountPair, Replies!NormalizeNonNegativeCount

LEMMA RateInRange ==
  ASSUME NEW c \in Int, NEW t \in Int
  PROVE  Replies!CalculateAccuracyRate(c, t) \in 0 .. 100
<1> DEFINE pair == Replies!NormalizeCountPair(c, t)
           x == pair.correctCount
           y == pair.totalCount
<1>1. x \in Nat /\ y \in Nat /\ x <= y
  BY PairOrdered
<1>2. Replies!CalculateAccuracyRate(c, t) = IF y = 0 THEN 0 ELSE (200 * x + y) \div (2 * y)
  BY DEF Replies!CalculateAccuracyRate
<1> HIDE DEF x, y, pair
<1>3. CASE y # 0
  <2>1. 200 * x + y \in Nat /\ 2 * y \in Nat \ {0} /\ 200 * x + y < (2 * y) * (100 + 1)
    BY <1>1, <1>3
  <2>2. (200 * x + y) \div (2 * y) \in 0 .. 100
    BY <2>1, QuotientBound
  <2> QED BY <1>2, <1>3, <2>2
<1> QED BY <1>2, <1>3

LEMMA CountIsNat ==
  ASSUME NEW v \in Int
  PROVE  Replies!NormalizeNonNegativeCount(v) \in Nat
BY DEF Replies!NormalizeNonNegativeCount

LEMMA RepliesPartMeans ==
  ASSUME RepliesPart, which = "responses"
  PROVE  Replies!AnswersAccepted
<1> DEFINE r == replyRow
           pair == Replies!NormalizeCountPair(r.totalCorrect, r.totalAnswered)
           Rate == Replies!CalculateAccuracyRate(r.totalCorrect, r.totalAnswered)
<1>1. /\ r.totalGames \in Int /\ r.totalCorrect \in Int /\ r.totalAnswered \in Int
      /\ r.masteredCount \in Int /\ r.currentStreak \in Int /\ r.weeklyScore \in Int
      /\ r.allTimeScore \in Int
  BY DEF RepliesPart, Counted
<1> HIDE DEF r
<1>2. /\ pair.correctCount \in Nat /\ pair.totalCount \in Nat
      /\ pair.correctCount <= pair.totalCount
      /\ Replies!NormalizeCountPair(pair.correctCount, pair.totalCount) = pair
  BY <1>1, PairOrdered
<1>3. Rate \in 0 .. 100
  BY <1>1, RateInRange
<1>4. Replies!CalculateAccuracyRate(pair.correctCount, pair.totalCount) = Rate
  BY <1>2 DEF Replies!CalculateAccuracyRate
<1> HIDE DEF pair, Rate
<1>5. Replies!IsMyStatsSummary(Replies!CurrentUserStats(r, replyWeek))
  BY <1>1, <1>2, <1>3, <1>4, CountIsNat
     DEF Replies!IsMyStatsSummary, Replies!CurrentUserStats, Replies!IsValidCountPair,
         Replies!IsNonNegativeInteger, Replies!IsAccuracyRate, pair
<1>6. Replies!IsMyAccuracyTrendItem(Replies!AccuracyTrendItem(r.totalCorrect, r.totalAnswered))
  BY <1>2, <1>3, <1>4
     DEF Replies!IsMyAccuracyTrendItem, Replies!AccuracyTrendItem, Replies!IsValidCountPair,
         Replies!IsNonNegativeInteger, Replies!IsAccuracyRate, pair
<1>7. Replies!IsAdminUserListItem(Replies!ToAdminUserListItem(r))
  BY <1>1, <1>3, CountIsNat
     DEF Replies!IsAdminUserListItem, Replies!ToAdminUserListItem, Replies!IsNonNegativeInteger,
         Replies!IsAccuracyRate, Rate
<1>8. Replies!IsAdminUserDetail(Replies!ToAdminUserDetail(r))
  BY <1>1, <1>3, CountIsNat
     DEF Replies!IsAdminUserDetail, Replies!ToAdminUserDetail, Replies!IsAdminUserListItem,
         Replies!IsNonNegativeInteger, Replies!IsAccuracyRate, Rate
<1>9. Replies!IsAdminStats(Replies!AdminStats(r.totalCorrect, r.totalAnswered, r.masteredCount))
  <2>1. Replies!NormalizeNonNegativeCount(r.totalCorrect) \in Int
        /\ Replies!NormalizeNonNegativeCount(r.totalAnswered) \in Int
    BY <1>1, CountIsNat
  <2> QED BY <1>1, <2>1, CountIsNat, RateInRange
          DEF Replies!IsAdminStats, Replies!AdminStats, Replies!IsNonNegativeInteger,
              Replies!IsAccuracyRate
<1>10. Replies!IsRankingEntry(Replies!RankingEntry(r, r.allTimeScore))
  BY <1>1, <1>3, CountIsNat
     DEF Replies!IsRankingEntry, Replies!RankingEntry, Replies!IsNonNegativeInteger,
         Replies!IsAccuracyRate, Rate
<1>11. /\ Replies!CurrentUserStats(r, replyWeek).averageAccuracyRate = Rate
       /\ Replies!ToAdminUserListItem(r).accuracyRate = Rate
       /\ Replies!ToAdminUserDetail(r).accuracyRate = Rate
       /\ Replies!RankingEntry(r, r.allTimeScore).accuracyRate = Rate
  BY <1>4 DEF Replies!CurrentUserStats, Replies!ToAdminUserListItem, Replies!ToAdminUserDetail,
              Replies!RankingEntry, Rate, pair
<1> QED BY <1>5, <1>6, <1>7, <1>8, <1>9, <1>10, <1>11 DEF Replies!AnswersAccepted, r

----------------------------------------------------------------------------
(* One at a time: the component that moves stays the same.                  *)

Component ==
  which \in {"accounts", "turn", "race", "twice", "quiz", "streak", "scan", "ranking",
                   "responses"}

LEMMA ComponentInit == AllInit => Component
BY DEF AllInit, Component

LEMMA ComponentNext == Component /\ [AllNext]_allVars => Component'
BY DEF AllNext, allVars, Component

(* The questions of a game are fair, its result is the one of the answers   *)
(* in whatever order they are sent, with its longest run of right ones, and *)
(* reads back the same; and a login streak is no longer than the days of    *)
(* logins earn: for any number of questions, choices and elements, any weak *)
(* lists and any length of time (buildStoredQuestions, buildSessionResults, *)
(* calculateMaxStreak, getGameSessionResult, updateLoginStreak).                  *)
THEOREM GamesAreEarnedFairly == AllSpec => []EarnedFairly
<1>1. Component /\ QuizPart /\ StreakPart /\ [AllNext]_allVars
        => Component' /\ QuizPart' /\ StreakPart'
  BY ComponentNext, QuizPartNext, StreakPartNext DEF Component
<1>2. QuizPart /\ StreakPart => EarnedFairly
  BY QuizPartMeans, StreakPartMeans DEF EarnedFairly
<1> QED BY <1>1, <1>2, ComponentInit, QuizPartInit, StreakPartInit, PTL DEF AllSpec

(* What is read piece by piece beside writers agrees with the data: a       *)
(* mastery with the sessions of some moment while it was read, a rank with  *)
(* the list up to the rows written meanwhile, a response with its row: for  *)
(* any elements, page size, users, scores and counters                      *)
(* (getElementMasteryStatusMap, getWeeklyRanking, getAllTimeRanking,        *)
(* getMyRank, normalizeCountPair, toAdminUserListItem).                     *)
THEOREM ReadsOfGamesAgree == AllSpec => []ReadsAgree
<1>1. Component /\ ScanPart /\ RankPart /\ RepliesPart /\ [AllNext]_allVars
        => Component' /\ ScanPart' /\ RankPart' /\ RepliesPart'
  BY ComponentNext, ScanPartNext, RankPartNext, RepliesPartNext DEF Component
<1>2. ScanPart /\ RankPart /\ RepliesPart => ReadsAgree
  BY ScanPartMeans, RankPartMeans, RepliesPartMeans DEF ReadsAgree
<1> QED BY <1>1, <1>2, ComponentInit, ScanPartInit, RankPartInit, RepliesPartInit, PTL DEF AllSpec

----------------------------------------------------------------------------
(* The games: those served one at a time, with one question or two, and     *)
(* those that race.                                                         *)

TurnFacts == INSTANCE GameSessionProofs WITH
    Requests <- OneRequest, QuestionCount <- 1, MinWeak <- 1, ExpirySpan <- 2,
    WeekLength <- 1, JobLag <- 0, MaxClock <- 1, clock <- turnClock,
    sets <- turnSets, played <- turnPlayed, weak <- turnWeak,
    stats <- turnStats, pc <- turnPc, tx <- turnTx
RaceFacts == INSTANCE GameSessionProofs WITH
    Elements <- OneElement, QuestionCount <- 1, MinWeak <- 1, ExpirySpan <- 1,
    WeekLength <- 1, JobLag <- 0, MaxClock <- 0, clock <- raceClock,
    sets <- raceSets, played <- racePlayed, weak <- raceWeak,
    stats <- raceStats, pc <- racePc, tx <- raceTx
TwiceFacts == INSTANCE GameSessionProofs WITH
    Requests <- OneRequest, Elements <- OneElement, QuestionCount <- 2,
    MinWeak <- 1, ExpirySpan <- 1, WeekLength <- 1, JobLag <- 0, MaxClock <- 1,
    clock <- twiceClock, sets <- twiceSets, played <- twicePlayed,
    weak <- twiceWeak, stats <- twiceStats, pc <- twicePc, tx <- twiceTx

LEMMA TurnAssumed == TurnFacts!GameAssumption /\ TurnFacts!MarkerAssumption /\ TurnFacts!Alone
BY InstancesAssumption DEF InTurn!GameAssumption, TurnFacts!GameAssumption, InTurn!MarkerAssumption,
       TurnFacts!MarkerAssumption, InTurn!WeakRow, TurnFacts!WeakRow, InTurn!StatsRow,
       TurnFacts!StatsRow, InTurn!IsFiniteSet, TurnFacts!IsFiniteSet, TurnFacts!Alone

LEMMA TurnInit ==
  ASSUME InTurn!Init
  PROVE  TurnFacts!Init
BY Zenon DEF InTurn!Init, TurnFacts!Init, InTurn!NoQuestions, TurnFacts!NoQuestions, InTurn!BlankTx,
       TurnFacts!BlankTx, InTurn!Indexes, TurnFacts!Indexes

LEMMA TurnStep ==
  ASSUME [InTurn!Next]_(InTurn!vars)
  PROVE  [TurnFacts!Next]_(TurnFacts!vars)
<1>1. ASSUME NEW r \in OneRequest, InTurn!Arrival(r) PROVE TurnFacts!Arrival(r)
  BY <1>1, Zenon DEF InTurn!Arrival, TurnFacts!Arrival, InTurn!Modes, TurnFacts!Modes,
         InTurn!ReadCandidates, TurnFacts!ReadCandidates, InTurn!Marks, TurnFacts!Marks,
         InTurn!StartSubmit, TurnFacts!StartSubmit, InTurn!At, TurnFacts!At, InTurn!IdLeft,
         TurnFacts!IdLeft, InTurn!Cardinality, TurnFacts!Cardinality, InTurn!Goto, TurnFacts!Goto,
         InTurn!db, TurnFacts!db, InTurn!Indexes, TurnFacts!Indexes, InTurn!Issued,
         TurnFacts!Issued
<1>2. ASSUME NEW r \in OneRequest, InTurn!ReadQuestionSet(r) \/ InTurn!CountMasteredBefore(r) \/ InTurn!ConsumeQuestionSet(r)
      PROVE  TurnFacts!ReadQuestionSet(r) \/ TurnFacts!CountMasteredBefore(r) \/ TurnFacts!ConsumeQuestionSet(r)
  BY <1>2, Zenon DEF InTurn!ReadQuestionSet, TurnFacts!ReadQuestionSet,
         InTurn!CountMasteredBefore, TurnFacts!CountMasteredBefore, InTurn!ConsumeQuestionSet,
         TurnFacts!ConsumeQuestionSet, InTurn!At, TurnFacts!At, InTurn!Acceptable,
         TurnFacts!Acceptable, InTurn!Goto, TurnFacts!Goto, InTurn!Finish, TurnFacts!Finish,
         InTurn!db, TurnFacts!db, InTurn!CountMasteredElements, TurnFacts!CountMasteredElements,
         InTurn!AskedBy, TurnFacts!AskedBy, InTurn!Unblocked, TurnFacts!Unblocked, InTurn!BlankTx,
         TurnFacts!BlankTx, InTurn!Cardinality, TurnFacts!Cardinality, InTurn!Mastered,
         TurnFacts!Mastered, InTurn!Asked, TurnFacts!Asked, InTurn!WaitsFor, TurnFacts!WaitsFor,
         InTurn!Indexes, TurnFacts!Indexes, InTurn!SessionsOn, TurnFacts!SessionsOn,
         InTurn!LatestTwo, TurnFacts!LatestTwo, InTurn!MissesOn, TurnFacts!MissesOn,
         InTurn!Question, TurnFacts!Question, InTurn!StatsWrite, TurnFacts!StatsWrite,
         InTurn!Newer, TurnFacts!Newer, InTurn!Incorrect, TurnFacts!Incorrect, InTurn!WeekOf,
         TurnFacts!WeekOf
<1>3. ASSUME NEW r \in OneRequest, InTurn!UpsertMissedElement(r) \/ InTurn!FindWeakElement(r) \/ InTurn!HitWeakElement(r)
      PROVE  TurnFacts!UpsertMissedElement(r) \/ TurnFacts!FindWeakElement(r) \/ TurnFacts!HitWeakElement(r)
  BY <1>3, Zenon DEF InTurn!UpsertMissedElement, TurnFacts!UpsertMissedElement,
         InTurn!FindWeakElement, TurnFacts!FindWeakElement, InTurn!HitWeakElement,
         TurnFacts!HitWeakElement, InTurn!Question, TurnFacts!Question, InTurn!MissesOn,
         TurnFacts!MissesOn, InTurn!At, TurnFacts!At, InTurn!Unblocked, TurnFacts!Unblocked,
         InTurn!NextElement, TurnFacts!NextElement, InTurn!db, TurnFacts!db, InTurn!Goto,
         TurnFacts!Goto, InTurn!MasteredConsecutiveHits, TurnFacts!MasteredConsecutiveHits,
         InTurn!Finish, TurnFacts!Finish, InTurn!Incorrect, TurnFacts!Incorrect, InTurn!WaitsFor,
         TurnFacts!WaitsFor, InTurn!FirstAsked, TurnFacts!FirstAsked, InTurn!BlankTx,
         TurnFacts!BlankTx, InTurn!Cardinality, TurnFacts!Cardinality, InTurn!Indexes,
         TurnFacts!Indexes, InTurn!StatsWrite, TurnFacts!StatsWrite, InTurn!WeekOf,
         TurnFacts!WeekOf
<1>4. ASSUME NEW r \in OneRequest, InTurn!CountMasteredAfter(r) \/ InTurn!ReadStats(r) \/ InTurn!CountMasteredOnCreate(r)
      PROVE  TurnFacts!CountMasteredAfter(r) \/ TurnFacts!ReadStats(r) \/ TurnFacts!CountMasteredOnCreate(r)
  BY <1>4, Zenon DEF InTurn!CountMasteredAfter, TurnFacts!CountMasteredAfter, InTurn!ReadStats,
         TurnFacts!ReadStats, InTurn!CountMasteredOnCreate, TurnFacts!CountMasteredOnCreate,
         InTurn!At, TurnFacts!At, InTurn!Goto, TurnFacts!Goto, InTurn!CountMasteredElements,
         TurnFacts!CountMasteredElements, InTurn!Session, TurnFacts!Session, InTurn!AskedBy,
         TurnFacts!AskedBy, InTurn!db, TurnFacts!db, InTurn!BranchOnWeek, TurnFacts!BranchOnWeek,
         InTurn!Cardinality, TurnFacts!Cardinality, InTurn!Mastered, TurnFacts!Mastered,
         InTurn!CorrectCount, TurnFacts!CorrectCount, InTurn!Score, TurnFacts!Score,
         InTurn!Incorrect, TurnFacts!Incorrect, InTurn!Outcome, TurnFacts!Outcome, InTurn!Asked,
         TurnFacts!Asked, InTurn!WeekOf, TurnFacts!WeekOf, InTurn!SessionsOn,
         TurnFacts!SessionsOn, InTurn!LatestTwo, TurnFacts!LatestTwo, InTurn!Indexes,
         TurnFacts!Indexes, InTurn!BaseCorrectScore, TurnFacts!BaseCorrectScore, InTurn!Newer,
         TurnFacts!Newer
<1>5. ASSUME NEW r \in OneRequest, InTurn!CreateStats(r) \/ InTurn!RereadStats(r) \/ InTurn!ReplaceStaleWeek(r) \/ InTurn!IncrementStats(r)
      PROVE  TurnFacts!CreateStats(r) \/ TurnFacts!RereadStats(r) \/ TurnFacts!ReplaceStaleWeek(r) \/ TurnFacts!IncrementStats(r)
  BY <1>5, Zenon DEF InTurn!CreateStats, TurnFacts!CreateStats, InTurn!RereadStats,
         TurnFacts!RereadStats, InTurn!ReplaceStaleWeek, TurnFacts!ReplaceStaleWeek,
         InTurn!IncrementStats, TurnFacts!IncrementStats, InTurn!At, TurnFacts!At,
         InTurn!Unblocked, TurnFacts!Unblocked, InTurn!WriteStats, TurnFacts!WriteStats,
         InTurn!Counted, TurnFacts!Counted, InTurn!NewStats, TurnFacts!NewStats, InTurn!Score,
         TurnFacts!Score, InTurn!Goto, TurnFacts!Goto, InTurn!db, TurnFacts!db,
         InTurn!BranchOnWeek, TurnFacts!BranchOnWeek, InTurn!WeekOf, TurnFacts!WeekOf,
         InTurn!WaitsFor, TurnFacts!WaitsFor, InTurn!CorrectCount, TurnFacts!CorrectCount,
         InTurn!NullWeek, TurnFacts!NullWeek, InTurn!BaseCorrectScore, TurnFacts!BaseCorrectScore,
         InTurn!MissesOn, TurnFacts!MissesOn, InTurn!Question, TurnFacts!Question,
         InTurn!StatsWrite, TurnFacts!StatsWrite, InTurn!Cardinality, TurnFacts!Cardinality,
         InTurn!Indexes, TurnFacts!Indexes, InTurn!Incorrect, TurnFacts!Incorrect
<1>6. ASSUME NEW r \in OneRequest, InTurn!Commit(r)
      PROVE  TurnFacts!Commit(r)
  BY <1>6, Zenon DEF InTurn!Commit, TurnFacts!Commit, InTurn!At, TurnFacts!At, InTurn!Session,
         TurnFacts!Session, InTurn!Finish, TurnFacts!Finish, InTurn!CorrectCount,
         TurnFacts!CorrectCount, InTurn!Score, TurnFacts!Score, InTurn!Incorrect,
         TurnFacts!Incorrect, InTurn!Outcome, TurnFacts!Outcome, InTurn!BlankTx,
         TurnFacts!BlankTx, InTurn!Cardinality, TurnFacts!Cardinality, InTurn!Indexes,
         TurnFacts!Indexes, InTurn!BaseCorrectScore, TurnFacts!BaseCorrectScore, InTurn!Asked,
         TurnFacts!Asked
<1>7. ASSUME NEW r \in OneRequest, InTurn!Statement(r) PROVE TurnFacts!Statement(r)
  <2>1. ASSUME NEW s \in SetIds, NEW q \in [InTurn!Indexes -> Elements], InTurn!IssueQuestionSet(r, s, q)
        PROVE  TurnFacts!IssueQuestionSet(r, s, q)
    BY <2>1, Zenon DEF InTurn!IssueQuestionSet, TurnFacts!IssueQuestionSet, InTurn!At,
           TurnFacts!At, InTurn!Issued, TurnFacts!Issued, InTurn!Draws, TurnFacts!Draws,
           InTurn!Finish, TurnFacts!Finish, InTurn!Cardinality, TurnFacts!Cardinality,
           InTurn!Indexes, TurnFacts!Indexes, InTurn!BlankTx, TurnFacts!BlankTx
  <2>2. InTurn!Indexes = TurnFacts!Indexes
    BY Zenon DEF InTurn!Indexes, TurnFacts!Indexes
  <2> QED BY Zenon, <1>7, <1>2, <1>3, <1>4, <1>5, <1>6, <2>1, <2>2
     DEF InTurn!Statement, TurnFacts!Statement
<1>8. ASSUME NEW r \in OneRequest, InTurn!Rollback(r) \/ InTurn!DeadlockVictim(r)
      PROVE  TurnFacts!Rollback(r) \/ TurnFacts!DeadlockVictim(r)
  BY <1>8, Zenon DEF InTurn!Rollback, TurnFacts!Rollback, InTurn!DeadlockVictim,
         TurnFacts!DeadlockVictim, InTurn!At, TurnFacts!At, InTurn!Finish, TurnFacts!Finish,
         InTurn!db, TurnFacts!db, InTurn!Deadlocked, TurnFacts!Deadlocked, InTurn!BlankTx,
         TurnFacts!BlankTx, InTurn!WaitsFor, TurnFacts!WaitsFor, InTurn!Indexes,
         TurnFacts!Indexes, InTurn!MissesOn, TurnFacts!MissesOn, InTurn!Question,
         TurnFacts!Question, InTurn!StatsWrite, TurnFacts!StatsWrite, InTurn!Incorrect,
         TurnFacts!Incorrect, InTurn!WeekOf, TurnFacts!WeekOf, InTurn!Cardinality,
         TurnFacts!Cardinality
<1>9. ASSUME InTurn!Environment PROVE TurnFacts!Environment
  BY <1>9, Zenon DEF InTurn!Environment, TurnFacts!Environment, InTurn!ResetWeeklyScores,
         TurnFacts!ResetWeeklyScores, InTurn!CleanupQuestionSets, TurnFacts!CleanupQuestionSets,
         InTurn!DeleteWeakElement, TurnFacts!DeleteWeakElement, InTurn!CreateStatsAtLogin,
         TurnFacts!CreateStatsAtLogin, InTurn!Tick, TurnFacts!Tick, InTurn!WeekOf,
         TurnFacts!WeekOf, InTurn!StatsUnlocked, TurnFacts!StatsUnlocked, InTurn!NewStats,
         TurnFacts!NewStats, InTurn!db, TurnFacts!db, InTurn!NullWeek, TurnFacts!NullWeek
<1>10. ASSUME UNCHANGED InTurn!vars PROVE UNCHANGED TurnFacts!vars
  BY <1>10, Zenon DEF InTurn!vars, TurnFacts!vars
<1>11. CASE InTurn!Next
  BY <1>1, <1>7, <1>8, <1>9, <1>11 DEF InTurn!Next, TurnFacts!Next
<1> QED BY <1>10, <1>11

LEMMA RaceAssumed == RaceFacts!GameAssumption /\ RaceFacts!MarkerAssumption
BY InstancesAssumption DEF RaceGame!GameAssumption, RaceFacts!GameAssumption, RaceGame!MarkerAssumption,
       RaceFacts!MarkerAssumption, RaceGame!WeakRow, RaceFacts!WeakRow, RaceGame!StatsRow,
       RaceFacts!StatsRow, RaceGame!IsFiniteSet, RaceFacts!IsFiniteSet

LEMMA RaceInit ==
  ASSUME RaceGame!Init
  PROVE  RaceFacts!Init
BY Zenon DEF RaceGame!Init, RaceFacts!Init, RaceGame!NoQuestions, RaceFacts!NoQuestions,
       RaceGame!BlankTx, RaceFacts!BlankTx, RaceGame!Indexes, RaceFacts!Indexes

LEMMA RaceStep ==
  ASSUME [RaceGame!Next]_(RaceGame!vars)
  PROVE  [RaceFacts!Next]_(RaceFacts!vars)
<1>1. ASSUME NEW r \in Requests, RaceGame!Arrival(r) PROVE RaceFacts!Arrival(r)
  BY <1>1, Zenon DEF RaceGame!Arrival, RaceFacts!Arrival, RaceGame!Modes, RaceFacts!Modes,
         RaceGame!ReadCandidates, RaceFacts!ReadCandidates, RaceGame!Marks, RaceFacts!Marks,
         RaceGame!StartSubmit, RaceFacts!StartSubmit, RaceGame!At, RaceFacts!At, RaceGame!IdLeft,
         RaceFacts!IdLeft, RaceGame!Cardinality, RaceFacts!Cardinality, RaceGame!Goto,
         RaceFacts!Goto, RaceGame!db, RaceFacts!db, RaceGame!Indexes, RaceFacts!Indexes,
         RaceGame!Issued, RaceFacts!Issued
<1>2. ASSUME NEW r \in Requests, RaceGame!ReadQuestionSet(r) \/ RaceGame!CountMasteredBefore(r) \/ RaceGame!ConsumeQuestionSet(r)
      PROVE  RaceFacts!ReadQuestionSet(r) \/ RaceFacts!CountMasteredBefore(r) \/ RaceFacts!ConsumeQuestionSet(r)
  BY <1>2, Zenon DEF RaceGame!ReadQuestionSet, RaceFacts!ReadQuestionSet,
         RaceGame!CountMasteredBefore, RaceFacts!CountMasteredBefore, RaceGame!ConsumeQuestionSet,
         RaceFacts!ConsumeQuestionSet, RaceGame!At, RaceFacts!At, RaceGame!Acceptable,
         RaceFacts!Acceptable, RaceGame!Goto, RaceFacts!Goto, RaceGame!Finish, RaceFacts!Finish,
         RaceGame!db, RaceFacts!db, RaceGame!CountMasteredElements,
         RaceFacts!CountMasteredElements, RaceGame!AskedBy, RaceFacts!AskedBy, RaceGame!Unblocked,
         RaceFacts!Unblocked, RaceGame!BlankTx, RaceFacts!BlankTx, RaceGame!Cardinality,
         RaceFacts!Cardinality, RaceGame!Mastered, RaceFacts!Mastered, RaceGame!Asked,
         RaceFacts!Asked, RaceGame!WaitsFor, RaceFacts!WaitsFor, RaceGame!Indexes,
         RaceFacts!Indexes, RaceGame!SessionsOn, RaceFacts!SessionsOn, RaceGame!LatestTwo,
         RaceFacts!LatestTwo, RaceGame!MissesOn, RaceFacts!MissesOn, RaceGame!Question,
         RaceFacts!Question, RaceGame!StatsWrite, RaceFacts!StatsWrite, RaceGame!Newer,
         RaceFacts!Newer, RaceGame!Incorrect, RaceFacts!Incorrect, RaceGame!WeekOf,
         RaceFacts!WeekOf
<1>3. ASSUME NEW r \in Requests, RaceGame!UpsertMissedElement(r) \/ RaceGame!FindWeakElement(r) \/ RaceGame!HitWeakElement(r)
      PROVE  RaceFacts!UpsertMissedElement(r) \/ RaceFacts!FindWeakElement(r) \/ RaceFacts!HitWeakElement(r)
  BY <1>3, Zenon DEF RaceGame!UpsertMissedElement, RaceFacts!UpsertMissedElement,
         RaceGame!FindWeakElement, RaceFacts!FindWeakElement, RaceGame!HitWeakElement,
         RaceFacts!HitWeakElement, RaceGame!Question, RaceFacts!Question, RaceGame!MissesOn,
         RaceFacts!MissesOn, RaceGame!At, RaceFacts!At, RaceGame!Unblocked, RaceFacts!Unblocked,
         RaceGame!NextElement, RaceFacts!NextElement, RaceGame!db, RaceFacts!db, RaceGame!Goto,
         RaceFacts!Goto, RaceGame!MasteredConsecutiveHits, RaceFacts!MasteredConsecutiveHits,
         RaceGame!Finish, RaceFacts!Finish, RaceGame!Incorrect, RaceFacts!Incorrect,
         RaceGame!WaitsFor, RaceFacts!WaitsFor, RaceGame!FirstAsked, RaceFacts!FirstAsked,
         RaceGame!BlankTx, RaceFacts!BlankTx, RaceGame!Cardinality, RaceFacts!Cardinality,
         RaceGame!Indexes, RaceFacts!Indexes, RaceGame!StatsWrite, RaceFacts!StatsWrite,
         RaceGame!WeekOf, RaceFacts!WeekOf
<1>4. ASSUME NEW r \in Requests, RaceGame!CountMasteredAfter(r) \/ RaceGame!ReadStats(r) \/ RaceGame!CountMasteredOnCreate(r)
      PROVE  RaceFacts!CountMasteredAfter(r) \/ RaceFacts!ReadStats(r) \/ RaceFacts!CountMasteredOnCreate(r)
  BY <1>4, Zenon DEF RaceGame!CountMasteredAfter, RaceFacts!CountMasteredAfter,
         RaceGame!ReadStats, RaceFacts!ReadStats, RaceGame!CountMasteredOnCreate,
         RaceFacts!CountMasteredOnCreate, RaceGame!At, RaceFacts!At, RaceGame!Goto,
         RaceFacts!Goto, RaceGame!CountMasteredElements, RaceFacts!CountMasteredElements,
         RaceGame!Session, RaceFacts!Session, RaceGame!AskedBy, RaceFacts!AskedBy, RaceGame!db,
         RaceFacts!db, RaceGame!BranchOnWeek, RaceFacts!BranchOnWeek, RaceGame!Cardinality,
         RaceFacts!Cardinality, RaceGame!Mastered, RaceFacts!Mastered, RaceGame!CorrectCount,
         RaceFacts!CorrectCount, RaceGame!Score, RaceFacts!Score, RaceGame!Incorrect,
         RaceFacts!Incorrect, RaceGame!Outcome, RaceFacts!Outcome, RaceGame!Asked,
         RaceFacts!Asked, RaceGame!WeekOf, RaceFacts!WeekOf, RaceGame!SessionsOn,
         RaceFacts!SessionsOn, RaceGame!LatestTwo, RaceFacts!LatestTwo, RaceGame!Indexes,
         RaceFacts!Indexes, RaceGame!BaseCorrectScore, RaceFacts!BaseCorrectScore, RaceGame!Newer,
         RaceFacts!Newer
<1>5. ASSUME NEW r \in Requests, RaceGame!CreateStats(r) \/ RaceGame!RereadStats(r) \/ RaceGame!ReplaceStaleWeek(r) \/ RaceGame!IncrementStats(r)
      PROVE  RaceFacts!CreateStats(r) \/ RaceFacts!RereadStats(r) \/ RaceFacts!ReplaceStaleWeek(r) \/ RaceFacts!IncrementStats(r)
  BY <1>5, Zenon DEF RaceGame!CreateStats, RaceFacts!CreateStats, RaceGame!RereadStats,
         RaceFacts!RereadStats, RaceGame!ReplaceStaleWeek, RaceFacts!ReplaceStaleWeek,
         RaceGame!IncrementStats, RaceFacts!IncrementStats, RaceGame!At, RaceFacts!At,
         RaceGame!Unblocked, RaceFacts!Unblocked, RaceGame!WriteStats, RaceFacts!WriteStats,
         RaceGame!Counted, RaceFacts!Counted, RaceGame!NewStats, RaceFacts!NewStats,
         RaceGame!Score, RaceFacts!Score, RaceGame!Goto, RaceFacts!Goto, RaceGame!db,
         RaceFacts!db, RaceGame!BranchOnWeek, RaceFacts!BranchOnWeek, RaceGame!WeekOf,
         RaceFacts!WeekOf, RaceGame!WaitsFor, RaceFacts!WaitsFor, RaceGame!CorrectCount,
         RaceFacts!CorrectCount, RaceGame!NullWeek, RaceFacts!NullWeek, RaceGame!BaseCorrectScore,
         RaceFacts!BaseCorrectScore, RaceGame!MissesOn, RaceFacts!MissesOn, RaceGame!Question,
         RaceFacts!Question, RaceGame!StatsWrite, RaceFacts!StatsWrite, RaceGame!Cardinality,
         RaceFacts!Cardinality, RaceGame!Indexes, RaceFacts!Indexes, RaceGame!Incorrect,
         RaceFacts!Incorrect
<1>6. ASSUME NEW r \in Requests, RaceGame!Commit(r)
      PROVE  RaceFacts!Commit(r)
  BY <1>6, Zenon DEF RaceGame!Commit, RaceFacts!Commit, RaceGame!At, RaceFacts!At,
         RaceGame!Session, RaceFacts!Session, RaceGame!Finish, RaceFacts!Finish,
         RaceGame!CorrectCount, RaceFacts!CorrectCount, RaceGame!Score, RaceFacts!Score,
         RaceGame!Incorrect, RaceFacts!Incorrect, RaceGame!Outcome, RaceFacts!Outcome,
         RaceGame!BlankTx, RaceFacts!BlankTx, RaceGame!Cardinality, RaceFacts!Cardinality,
         RaceGame!Indexes, RaceFacts!Indexes, RaceGame!BaseCorrectScore,
         RaceFacts!BaseCorrectScore, RaceGame!Asked, RaceFacts!Asked
<1>7. ASSUME NEW r \in Requests, RaceGame!Statement(r) PROVE RaceFacts!Statement(r)
  <2>1. ASSUME NEW s \in SetIds, NEW q \in [RaceGame!Indexes -> OneElement], RaceGame!IssueQuestionSet(r, s, q)
        PROVE  RaceFacts!IssueQuestionSet(r, s, q)
    BY <2>1, Zenon DEF RaceGame!IssueQuestionSet, RaceFacts!IssueQuestionSet, RaceGame!At,
           RaceFacts!At, RaceGame!Issued, RaceFacts!Issued, RaceGame!Draws, RaceFacts!Draws,
           RaceGame!Finish, RaceFacts!Finish, RaceGame!Cardinality, RaceFacts!Cardinality,
           RaceGame!Indexes, RaceFacts!Indexes, RaceGame!BlankTx, RaceFacts!BlankTx
  <2>2. RaceGame!Indexes = RaceFacts!Indexes
    BY Zenon DEF RaceGame!Indexes, RaceFacts!Indexes
  <2> QED BY Zenon, <1>7, <1>2, <1>3, <1>4, <1>5, <1>6, <2>1, <2>2
     DEF RaceGame!Statement, RaceFacts!Statement
<1>8. ASSUME NEW r \in Requests, RaceGame!Rollback(r) \/ RaceGame!DeadlockVictim(r)
      PROVE  RaceFacts!Rollback(r) \/ RaceFacts!DeadlockVictim(r)
  BY <1>8, Zenon DEF RaceGame!Rollback, RaceFacts!Rollback, RaceGame!DeadlockVictim,
         RaceFacts!DeadlockVictim, RaceGame!At, RaceFacts!At, RaceGame!Finish, RaceFacts!Finish,
         RaceGame!db, RaceFacts!db, RaceGame!Deadlocked, RaceFacts!Deadlocked, RaceGame!BlankTx,
         RaceFacts!BlankTx, RaceGame!WaitsFor, RaceFacts!WaitsFor, RaceGame!Indexes,
         RaceFacts!Indexes, RaceGame!MissesOn, RaceFacts!MissesOn, RaceGame!Question,
         RaceFacts!Question, RaceGame!StatsWrite, RaceFacts!StatsWrite, RaceGame!Incorrect,
         RaceFacts!Incorrect, RaceGame!WeekOf, RaceFacts!WeekOf, RaceGame!Cardinality,
         RaceFacts!Cardinality
<1>9. ASSUME RaceGame!Environment PROVE RaceFacts!Environment
  BY <1>9, Zenon DEF RaceGame!Environment, RaceFacts!Environment, RaceGame!ResetWeeklyScores,
         RaceFacts!ResetWeeklyScores, RaceGame!CleanupQuestionSets, RaceFacts!CleanupQuestionSets,
         RaceGame!DeleteWeakElement, RaceFacts!DeleteWeakElement, RaceGame!CreateStatsAtLogin,
         RaceFacts!CreateStatsAtLogin, RaceGame!Tick, RaceFacts!Tick, RaceGame!WeekOf,
         RaceFacts!WeekOf, RaceGame!StatsUnlocked, RaceFacts!StatsUnlocked, RaceGame!NewStats,
         RaceFacts!NewStats, RaceGame!db, RaceFacts!db, RaceGame!NullWeek, RaceFacts!NullWeek
<1>10. ASSUME UNCHANGED RaceGame!vars PROVE UNCHANGED RaceFacts!vars
  BY <1>10, Zenon DEF RaceGame!vars, RaceFacts!vars
<1>11. CASE RaceGame!Next
  BY <1>1, <1>7, <1>8, <1>9, <1>11 DEF RaceGame!Next, RaceFacts!Next
<1> QED BY <1>10, <1>11

LEMMA TwiceAssumed == TwiceFacts!GameAssumption /\ TwiceFacts!MarkerAssumption /\ TwiceFacts!Alone
BY InstancesAssumption DEF Twice!GameAssumption, TwiceFacts!GameAssumption, Twice!MarkerAssumption,
       TwiceFacts!MarkerAssumption, Twice!WeakRow, TwiceFacts!WeakRow, Twice!StatsRow,
       TwiceFacts!StatsRow, Twice!IsFiniteSet, TwiceFacts!IsFiniteSet, TwiceFacts!Alone

LEMMA TwiceInit ==
  ASSUME Twice!Init
  PROVE  TwiceFacts!Init
BY Zenon DEF Twice!Init, TwiceFacts!Init, Twice!NoQuestions, TwiceFacts!NoQuestions, Twice!BlankTx,
       TwiceFacts!BlankTx, Twice!Indexes, TwiceFacts!Indexes

LEMMA TwiceStep ==
  ASSUME [Twice!Next]_(Twice!vars)
  PROVE  [TwiceFacts!Next]_(TwiceFacts!vars)
<1>1. ASSUME NEW r \in OneRequest, Twice!Arrival(r) PROVE TwiceFacts!Arrival(r)
  BY <1>1, Zenon DEF Twice!Arrival, TwiceFacts!Arrival, Twice!Modes, TwiceFacts!Modes,
         Twice!ReadCandidates, TwiceFacts!ReadCandidates, Twice!Marks, TwiceFacts!Marks,
         Twice!StartSubmit, TwiceFacts!StartSubmit, Twice!At, TwiceFacts!At, Twice!IdLeft,
         TwiceFacts!IdLeft, Twice!Cardinality, TwiceFacts!Cardinality, Twice!Goto,
         TwiceFacts!Goto, Twice!db, TwiceFacts!db, Twice!Indexes, TwiceFacts!Indexes,
         Twice!Issued, TwiceFacts!Issued
<1>2. ASSUME NEW r \in OneRequest, Twice!ReadQuestionSet(r) \/ Twice!CountMasteredBefore(r) \/ Twice!ConsumeQuestionSet(r)
      PROVE  TwiceFacts!ReadQuestionSet(r) \/ TwiceFacts!CountMasteredBefore(r) \/ TwiceFacts!ConsumeQuestionSet(r)
  BY <1>2, Zenon DEF Twice!ReadQuestionSet, TwiceFacts!ReadQuestionSet, Twice!CountMasteredBefore,
         TwiceFacts!CountMasteredBefore, Twice!ConsumeQuestionSet, TwiceFacts!ConsumeQuestionSet,
         Twice!At, TwiceFacts!At, Twice!Acceptable, TwiceFacts!Acceptable, Twice!Goto,
         TwiceFacts!Goto, Twice!Finish, TwiceFacts!Finish, Twice!db, TwiceFacts!db,
         Twice!CountMasteredElements, TwiceFacts!CountMasteredElements, Twice!AskedBy,
         TwiceFacts!AskedBy, Twice!Unblocked, TwiceFacts!Unblocked, Twice!BlankTx,
         TwiceFacts!BlankTx, Twice!Cardinality, TwiceFacts!Cardinality, Twice!Mastered,
         TwiceFacts!Mastered, Twice!Asked, TwiceFacts!Asked, Twice!WaitsFor, TwiceFacts!WaitsFor,
         Twice!Indexes, TwiceFacts!Indexes, Twice!SessionsOn, TwiceFacts!SessionsOn,
         Twice!LatestTwo, TwiceFacts!LatestTwo, Twice!MissesOn, TwiceFacts!MissesOn,
         Twice!Question, TwiceFacts!Question, Twice!StatsWrite, TwiceFacts!StatsWrite,
         Twice!Newer, TwiceFacts!Newer, Twice!Incorrect, TwiceFacts!Incorrect, Twice!WeekOf,
         TwiceFacts!WeekOf
<1>3. ASSUME NEW r \in OneRequest, Twice!UpsertMissedElement(r) \/ Twice!FindWeakElement(r) \/ Twice!HitWeakElement(r)
      PROVE  TwiceFacts!UpsertMissedElement(r) \/ TwiceFacts!FindWeakElement(r) \/ TwiceFacts!HitWeakElement(r)
  BY <1>3, Zenon DEF Twice!UpsertMissedElement, TwiceFacts!UpsertMissedElement,
         Twice!FindWeakElement, TwiceFacts!FindWeakElement, Twice!HitWeakElement,
         TwiceFacts!HitWeakElement, Twice!Question, TwiceFacts!Question, Twice!MissesOn,
         TwiceFacts!MissesOn, Twice!At, TwiceFacts!At, Twice!Unblocked, TwiceFacts!Unblocked,
         Twice!NextElement, TwiceFacts!NextElement, Twice!db, TwiceFacts!db, Twice!Goto,
         TwiceFacts!Goto, Twice!MasteredConsecutiveHits, TwiceFacts!MasteredConsecutiveHits,
         Twice!Finish, TwiceFacts!Finish, Twice!Incorrect, TwiceFacts!Incorrect, Twice!WaitsFor,
         TwiceFacts!WaitsFor, Twice!FirstAsked, TwiceFacts!FirstAsked, Twice!BlankTx,
         TwiceFacts!BlankTx, Twice!Cardinality, TwiceFacts!Cardinality, Twice!Indexes,
         TwiceFacts!Indexes, Twice!StatsWrite, TwiceFacts!StatsWrite, Twice!WeekOf,
         TwiceFacts!WeekOf
<1>4. ASSUME NEW r \in OneRequest, Twice!CountMasteredAfter(r) \/ Twice!ReadStats(r) \/ Twice!CountMasteredOnCreate(r)
      PROVE  TwiceFacts!CountMasteredAfter(r) \/ TwiceFacts!ReadStats(r) \/ TwiceFacts!CountMasteredOnCreate(r)
  BY <1>4, Zenon DEF Twice!CountMasteredAfter, TwiceFacts!CountMasteredAfter, Twice!ReadStats,
         TwiceFacts!ReadStats, Twice!CountMasteredOnCreate, TwiceFacts!CountMasteredOnCreate,
         Twice!At, TwiceFacts!At, Twice!Goto, TwiceFacts!Goto, Twice!CountMasteredElements,
         TwiceFacts!CountMasteredElements, Twice!Session, TwiceFacts!Session, Twice!AskedBy,
         TwiceFacts!AskedBy, Twice!db, TwiceFacts!db, Twice!BranchOnWeek, TwiceFacts!BranchOnWeek,
         Twice!Cardinality, TwiceFacts!Cardinality, Twice!Mastered, TwiceFacts!Mastered,
         Twice!CorrectCount, TwiceFacts!CorrectCount, Twice!Score, TwiceFacts!Score,
         Twice!Incorrect, TwiceFacts!Incorrect, Twice!Outcome, TwiceFacts!Outcome, Twice!Asked,
         TwiceFacts!Asked, Twice!WeekOf, TwiceFacts!WeekOf, Twice!SessionsOn,
         TwiceFacts!SessionsOn, Twice!LatestTwo, TwiceFacts!LatestTwo, Twice!Indexes,
         TwiceFacts!Indexes, Twice!BaseCorrectScore, TwiceFacts!BaseCorrectScore, Twice!Newer,
         TwiceFacts!Newer
<1>5. ASSUME NEW r \in OneRequest, Twice!CreateStats(r) \/ Twice!RereadStats(r) \/ Twice!ReplaceStaleWeek(r) \/ Twice!IncrementStats(r)
      PROVE  TwiceFacts!CreateStats(r) \/ TwiceFacts!RereadStats(r) \/ TwiceFacts!ReplaceStaleWeek(r) \/ TwiceFacts!IncrementStats(r)
  BY <1>5, Zenon DEF Twice!CreateStats, TwiceFacts!CreateStats, Twice!RereadStats,
         TwiceFacts!RereadStats, Twice!ReplaceStaleWeek, TwiceFacts!ReplaceStaleWeek,
         Twice!IncrementStats, TwiceFacts!IncrementStats, Twice!At, TwiceFacts!At,
         Twice!Unblocked, TwiceFacts!Unblocked, Twice!WriteStats, TwiceFacts!WriteStats,
         Twice!Counted, TwiceFacts!Counted, Twice!NewStats, TwiceFacts!NewStats, Twice!Score,
         TwiceFacts!Score, Twice!Goto, TwiceFacts!Goto, Twice!db, TwiceFacts!db,
         Twice!BranchOnWeek, TwiceFacts!BranchOnWeek, Twice!WeekOf, TwiceFacts!WeekOf,
         Twice!WaitsFor, TwiceFacts!WaitsFor, Twice!CorrectCount, TwiceFacts!CorrectCount,
         Twice!NullWeek, TwiceFacts!NullWeek, Twice!BaseCorrectScore, TwiceFacts!BaseCorrectScore,
         Twice!MissesOn, TwiceFacts!MissesOn, Twice!Question, TwiceFacts!Question,
         Twice!StatsWrite, TwiceFacts!StatsWrite, Twice!Cardinality, TwiceFacts!Cardinality,
         Twice!Indexes, TwiceFacts!Indexes, Twice!Incorrect, TwiceFacts!Incorrect
<1>6. ASSUME NEW r \in OneRequest, Twice!Commit(r)
      PROVE  TwiceFacts!Commit(r)
  BY <1>6, Zenon DEF Twice!Commit, TwiceFacts!Commit, Twice!At, TwiceFacts!At, Twice!Session,
         TwiceFacts!Session, Twice!Finish, TwiceFacts!Finish, Twice!CorrectCount,
         TwiceFacts!CorrectCount, Twice!Score, TwiceFacts!Score, Twice!Incorrect,
         TwiceFacts!Incorrect, Twice!Outcome, TwiceFacts!Outcome, Twice!BlankTx,
         TwiceFacts!BlankTx, Twice!Cardinality, TwiceFacts!Cardinality, Twice!Indexes,
         TwiceFacts!Indexes, Twice!BaseCorrectScore, TwiceFacts!BaseCorrectScore, Twice!Asked,
         TwiceFacts!Asked
<1>7. ASSUME NEW r \in OneRequest, Twice!Statement(r) PROVE TwiceFacts!Statement(r)
  <2>1. ASSUME NEW s \in SetIds, NEW q \in [Twice!Indexes -> OneElement], Twice!IssueQuestionSet(r, s, q)
        PROVE  TwiceFacts!IssueQuestionSet(r, s, q)
    BY <2>1, Zenon DEF Twice!IssueQuestionSet, TwiceFacts!IssueQuestionSet, Twice!At,
           TwiceFacts!At, Twice!Issued, TwiceFacts!Issued, Twice!Draws, TwiceFacts!Draws,
           Twice!Finish, TwiceFacts!Finish, Twice!Cardinality, TwiceFacts!Cardinality,
           Twice!Indexes, TwiceFacts!Indexes, Twice!BlankTx, TwiceFacts!BlankTx
  <2>2. Twice!Indexes = TwiceFacts!Indexes
    BY Zenon DEF Twice!Indexes, TwiceFacts!Indexes
  <2> QED BY Zenon, <1>7, <1>2, <1>3, <1>4, <1>5, <1>6, <2>1, <2>2
     DEF Twice!Statement, TwiceFacts!Statement
<1>8. ASSUME NEW r \in OneRequest, Twice!Rollback(r) \/ Twice!DeadlockVictim(r)
      PROVE  TwiceFacts!Rollback(r) \/ TwiceFacts!DeadlockVictim(r)
  BY <1>8, Zenon DEF Twice!Rollback, TwiceFacts!Rollback, Twice!DeadlockVictim,
         TwiceFacts!DeadlockVictim, Twice!At, TwiceFacts!At, Twice!Finish, TwiceFacts!Finish,
         Twice!db, TwiceFacts!db, Twice!Deadlocked, TwiceFacts!Deadlocked, Twice!BlankTx,
         TwiceFacts!BlankTx, Twice!WaitsFor, TwiceFacts!WaitsFor, Twice!Indexes,
         TwiceFacts!Indexes, Twice!MissesOn, TwiceFacts!MissesOn, Twice!Question,
         TwiceFacts!Question, Twice!StatsWrite, TwiceFacts!StatsWrite, Twice!Incorrect,
         TwiceFacts!Incorrect, Twice!WeekOf, TwiceFacts!WeekOf, Twice!Cardinality,
         TwiceFacts!Cardinality
<1>9. ASSUME Twice!Environment PROVE TwiceFacts!Environment
  BY <1>9, Zenon DEF Twice!Environment, TwiceFacts!Environment, Twice!ResetWeeklyScores,
         TwiceFacts!ResetWeeklyScores, Twice!CleanupQuestionSets, TwiceFacts!CleanupQuestionSets,
         Twice!DeleteWeakElement, TwiceFacts!DeleteWeakElement, Twice!CreateStatsAtLogin,
         TwiceFacts!CreateStatsAtLogin, Twice!Tick, TwiceFacts!Tick, Twice!WeekOf,
         TwiceFacts!WeekOf, Twice!StatsUnlocked, TwiceFacts!StatsUnlocked, Twice!NewStats,
         TwiceFacts!NewStats, Twice!db, TwiceFacts!db, Twice!NullWeek, TwiceFacts!NullWeek
<1>10. ASSUME UNCHANGED Twice!vars PROVE UNCHANGED TwiceFacts!vars
  BY <1>10, Zenon DEF Twice!vars, TwiceFacts!vars
<1>11. CASE Twice!Next
  BY <1>1, <1>7, <1>8, <1>9, <1>11 DEF Twice!Next, TwiceFacts!Next
<1> QED BY <1>10, <1>11

----------------------------------------------------------------------------
(* The inductive invariant of each game, while it is the one that moves.  *)

TurnPart == which = "turn" =>
  /\ TurnFacts!IInv /\ TurnFacts!TotalsMatchHistory /\ TurnFacts!Timely
  /\ TurnFacts!WeeklyInv /\ TurnFacts!MasteredInv
  /\ TurnFacts!WeakInv /\ TurnFacts!HitsInv

RacePart == which = "race" =>
  /\ RaceFacts!IInv /\ RaceFacts!TotalsMatchHistory
  /\ RaceFacts!WeakInv /\ RaceFacts!MissCountExact

TwicePart == which = "twice" =>
  /\ TwiceFacts!IInv /\ TwiceFacts!TotalsMatchHistory /\ TwiceFacts!Timely
  /\ TwiceFacts!WeeklyInv /\ TwiceFacts!MasteredInv
  /\ TwiceFacts!WeakInv /\ TwiceFacts!HitsInv /\ TwiceFacts!MissCountExact

LEMMA TurnPartInit == AllInit => TurnPart
<1> SUFFICES ASSUME AllInit, which = "turn" PROVE TurnPart
  BY DEF TurnPart
<1>1. TurnFacts!Init
  BY TurnInit DEF AllInit
<1>2. TurnFacts!IInv /\ TurnFacts!TotalsMatchHistory
  BY <1>1, TurnAssumed, TurnFacts!SafeInit, TurnFacts!TotalsInit
<1>3. TurnFacts!Timely /\ TurnFacts!WeeklyInv
  BY <1>1, TurnAssumed, TurnFacts!TimelyInit, TurnFacts!WeeklyInit
<1>4. TurnFacts!MasteredInv
  BY <1>1, TurnAssumed, TurnFacts!MasteredInit
<1>5. TurnFacts!WeakInv /\ TurnFacts!HitsInv
  BY <1>1, TurnAssumed, TurnFacts!WeakInit, TurnFacts!HitsInit
<1> QED BY <1>2, <1>3, <1>4, <1>5 DEF TurnPart

LEMMA TurnPartNext == TurnPart /\ [AllNext]_allVars => TurnPart'
<1> SUFFICES ASSUME TurnPart, [AllNext]_allVars, which' = "turn" PROVE TurnPart'
  BY DEF TurnPart
<1>1. which = "turn" /\ [InTurn!Next]_(InTurn!vars)
  BY DEF AllNext, allVars, turnVars, InTurn!vars
<1>2. [TurnFacts!Next]_(TurnFacts!vars)
  BY <1>1, TurnStep
<1>3. /\ TurnFacts!IInv /\ TurnFacts!TotalsMatchHistory /\ TurnFacts!Timely
      /\ TurnFacts!WeeklyInv /\ TurnFacts!MasteredInv
      /\ TurnFacts!WeakInv /\ TurnFacts!HitsInv
  BY <1>1 DEF TurnPart
<1>4. TurnFacts!IInv'
  BY <1>2, <1>3, TurnAssumed, TurnFacts!SafeNext
<1>5. TurnFacts!TotalsMatchHistory'
  BY <1>2, <1>3, TurnAssumed, TurnFacts!TotalsNext
<1>6. TurnFacts!Timely'
  BY <1>2, <1>3, TurnAssumed, TurnFacts!TimelyNext
<1>7. TurnFacts!WeeklyInv'
  BY <1>2, <1>3, TurnAssumed, TurnFacts!WeeklyNext
<1>8. TurnFacts!MasteredInv'
  BY <1>2, <1>3, TurnAssumed, TurnFacts!MasteredNext
<1>9. TurnFacts!WeakInv'
  BY <1>2, <1>3, TurnAssumed, TurnFacts!WeakNext
<1>10. TurnFacts!HitsInv'
  BY <1>2, <1>3, TurnAssumed, TurnFacts!HitsNext
<1> QED BY <1>4, <1>5, <1>6, <1>7, <1>8, <1>9, <1>10 DEF TurnPart

LEMMA RacePartInit == AllInit => RacePart
<1> SUFFICES ASSUME AllInit, which = "race" PROVE RacePart
  BY DEF RacePart
<1>1. RaceFacts!Init
  BY RaceInit DEF AllInit
<1>2. RaceFacts!IInv /\ RaceFacts!TotalsMatchHistory
  BY <1>1, RaceAssumed, RaceFacts!SafeInit, RaceFacts!TotalsInit
<1>3. RaceFacts!WeakInv /\ RaceFacts!MissCountExact
  BY <1>1, RaceAssumed, RaceFacts!WeakInit
<1> QED BY <1>2, <1>3 DEF RacePart

LEMMA RacePartNext == RacePart /\ [AllNext]_allVars => RacePart'
<1> SUFFICES ASSUME RacePart, [AllNext]_allVars, which' = "race" PROVE RacePart'
  BY DEF RacePart
<1>1. which = "race" /\ [RaceGame!Next]_(RaceGame!vars)
  BY DEF AllNext, allVars, raceVars, RaceGame!vars
<1>2. [RaceFacts!Next]_(RaceFacts!vars)
  BY <1>1, RaceStep
<1>3. /\ RaceFacts!IInv /\ RaceFacts!TotalsMatchHistory
      /\ RaceFacts!WeakInv /\ RaceFacts!MissCountExact
  BY <1>1 DEF RacePart
<1>4. RaceFacts!IInv'
  BY <1>2, <1>3, RaceAssumed, RaceFacts!SafeNext
<1>5. RaceFacts!TotalsMatchHistory'
  BY <1>2, <1>3, RaceAssumed, RaceFacts!TotalsNext
<1>6. RaceFacts!WeakInv'
  BY <1>2, <1>3, RaceAssumed, RaceFacts!WeakNext
<1>7. RaceFacts!MissCountExact'
  BY <1>2, <1>3, RaceAssumed, RaceFacts!MissesNext
<1> QED BY <1>4, <1>5, <1>6, <1>7 DEF RacePart

LEMMA TwicePartInit == AllInit => TwicePart
<1> SUFFICES ASSUME AllInit, which = "twice" PROVE TwicePart
  BY DEF TwicePart
<1>1. TwiceFacts!Init
  BY TwiceInit DEF AllInit
<1>2. TwiceFacts!IInv /\ TwiceFacts!TotalsMatchHistory
  BY <1>1, TwiceAssumed, TwiceFacts!SafeInit, TwiceFacts!TotalsInit
<1>3. TwiceFacts!Timely /\ TwiceFacts!WeeklyInv
  BY <1>1, TwiceAssumed, TwiceFacts!TimelyInit, TwiceFacts!WeeklyInit
<1>4. TwiceFacts!MasteredInv
  BY <1>1, TwiceAssumed, TwiceFacts!MasteredInit
<1>5. TwiceFacts!WeakInv /\ TwiceFacts!HitsInv /\ TwiceFacts!MissCountExact
  BY <1>1, TwiceAssumed, TwiceFacts!WeakInit, TwiceFacts!HitsInit
<1> QED BY <1>2, <1>3, <1>4, <1>5 DEF TwicePart

LEMMA TwicePartNext == TwicePart /\ [AllNext]_allVars => TwicePart'
<1> SUFFICES ASSUME TwicePart, [AllNext]_allVars, which' = "twice" PROVE TwicePart'
  BY DEF TwicePart
<1>1. which = "twice" /\ [Twice!Next]_(Twice!vars)
  BY DEF AllNext, allVars, twiceVars, Twice!vars
<1>2. [TwiceFacts!Next]_(TwiceFacts!vars)
  BY <1>1, TwiceStep
<1>3. /\ TwiceFacts!IInv /\ TwiceFacts!TotalsMatchHistory /\ TwiceFacts!Timely
      /\ TwiceFacts!WeeklyInv /\ TwiceFacts!MasteredInv
      /\ TwiceFacts!WeakInv /\ TwiceFacts!HitsInv /\ TwiceFacts!MissCountExact
  BY <1>1 DEF TwicePart
<1>4. TwiceFacts!IInv'
  BY <1>2, <1>3, TwiceAssumed, TwiceFacts!SafeNext
<1>5. TwiceFacts!TotalsMatchHistory'
  BY <1>2, <1>3, TwiceAssumed, TwiceFacts!TotalsNext
<1>6. TwiceFacts!Timely'
  BY <1>2, <1>3, TwiceAssumed, TwiceFacts!TimelyNext
<1>7. TwiceFacts!WeeklyInv'
  BY <1>2, <1>3, TwiceAssumed, TwiceFacts!WeeklyNext
<1>8. TwiceFacts!MasteredInv'
  BY <1>2, <1>3, TwiceAssumed, TwiceFacts!MasteredNext
<1>9. TwiceFacts!WeakInv'
  BY <1>2, <1>3, TwiceAssumed, TwiceFacts!WeakNext
<1>10. TwiceFacts!HitsInv'
  BY <1>2, <1>3, TwiceAssumed, TwiceFacts!HitsNext
<1>11. TwiceFacts!MissCountExact'
  BY <1>2, <1>3, TwiceAssumed, TwiceFacts!MissesNext
<1> QED BY <1>4, <1>5, <1>6, <1>7, <1>8, <1>9, <1>10, <1>11 DEF TwicePart

(* The invariants say what HistoryKept says of each game.                   *)
LEMMA TurnPartMeans ==
  ASSUME TurnPart, which = "turn"
  PROVE  /\ InTurn!WeeklyMatchesHistory /\ InTurn!MasteredCountExact
         /\ InTurn!TwoHitsClear /\ InTurn!MasteredNotWeak
<1>1. /\ TurnFacts!WeeklyMatchesHistory /\ TurnFacts!MasteredCountExact /\ TurnFacts!HitRuns
      /\ TurnFacts!IInv /\ TurnFacts!Timely
  BY DEF TurnPart, TurnFacts!WeeklyInv, TurnFacts!MasteredInv, TurnFacts!HitsInv
<1>2. TurnFacts!MasteredNotWeak
  BY <1>1, TurnAssumed, TurnFacts!MasteredMeans
<1>3. InTurn!WeeklyMatchesHistory
  BY <1>1 DEF InTurn!WeeklyMatchesHistory, TurnFacts!WeeklyMatchesHistory, InTurn!WeekOf,
               TurnFacts!WeekOf, InTurn!SumFunction, TurnFacts!SumFunction,
               InTurn!SumFunctionOnSet, TurnFacts!SumFunctionOnSet, InTurn!FoldFunctionOnSet,
               TurnFacts!FoldFunctionOnSet, InTurn!MapThenFoldSet, TurnFacts!MapThenFoldSet
<1>4. InTurn!MasteredCountExact
  BY <1>1 DEF InTurn!MasteredCountExact, TurnFacts!MasteredCountExact,
               InTurn!CountMasteredElements, TurnFacts!CountMasteredElements, InTurn!SessionsOn,
               TurnFacts!SessionsOn, InTurn!Newer, TurnFacts!Newer, InTurn!LatestTwo,
               TurnFacts!LatestTwo, InTurn!Mastered, TurnFacts!Mastered, InTurn!Cardinality,
               TurnFacts!Cardinality
<1>5. InTurn!TwoHitsClear
  BY <1>1 DEF InTurn!TwoHitsClear, InTurn!MasteredConsecutiveHits, TurnFacts!HitRuns,
              TurnFacts!MasteredConsecutiveHits
<1>6. InTurn!MasteredNotWeak
  BY <1>2 DEF InTurn!MasteredNotWeak, TurnFacts!MasteredNotWeak, InTurn!SessionsOn,
               TurnFacts!SessionsOn, InTurn!Newer, TurnFacts!Newer, InTurn!LatestTwo,
               TurnFacts!LatestTwo, InTurn!Mastered, TurnFacts!Mastered, InTurn!Cardinality,
               TurnFacts!Cardinality
<1> QED BY <1>3, <1>4, <1>5, <1>6

LEMMA RacePartMeans ==
  ASSUME RacePart, which = "race"
  PROVE  /\ RaceGame!ScoredOnce /\ RaceGame!NoSetLost
         /\ RaceGame!TotalsMatchHistory /\ RaceGame!MissCountExact
<1>1. /\ RaceFacts!ScoredOnce /\ RaceFacts!NoSetLost
      /\ RaceFacts!TotalsMatchHistory /\ RaceFacts!MissCountExact
  BY DEF RacePart, RaceFacts!IInv
<1>2. RaceGame!ScoredOnce /\ RaceGame!NoSetLost
  BY <1>1 DEF RaceGame!ScoredOnce, RaceFacts!ScoredOnce, RaceGame!NoSetLost, RaceFacts!NoSetLost
<1>3. RaceGame!TotalsMatchHistory
  BY <1>1 DEF RaceGame!TotalsMatchHistory, RaceFacts!TotalsMatchHistory, RaceGame!CurrentStats,
               RaceFacts!CurrentStats, RaceGame!NewStats, RaceFacts!NewStats, RaceGame!NullWeek,
               RaceFacts!NullWeek, RaceGame!SumFunction, RaceFacts!SumFunction,
               RaceGame!SumFunctionOnSet, RaceFacts!SumFunctionOnSet, RaceGame!FoldFunctionOnSet,
               RaceFacts!FoldFunctionOnSet, RaceGame!MapThenFoldSet, RaceFacts!MapThenFoldSet
<1>4. RaceGame!MissCountExact
  BY <1>1 DEF RaceGame!MissCountExact, RaceFacts!MissCountExact, RaceGame!SumFunction,
               RaceFacts!SumFunction, RaceGame!SumFunctionOnSet, RaceFacts!SumFunctionOnSet,
               RaceGame!FoldFunctionOnSet, RaceFacts!FoldFunctionOnSet, RaceGame!MapThenFoldSet,
               RaceFacts!MapThenFoldSet
<1> QED BY <1>2, <1>3, <1>4

LEMMA TwicePartMeans ==
  ASSUME TwicePart, which = "twice"
  PROVE  /\ Twice!WeeklyMatchesHistory /\ Twice!MasteredCountExact
         /\ Twice!TwoHitsClear /\ Twice!MasteredNotWeak /\ Twice!MissCountExact
<1>1. /\ TwiceFacts!WeeklyMatchesHistory /\ TwiceFacts!MasteredCountExact /\ TwiceFacts!HitRuns
      /\ TwiceFacts!IInv /\ TwiceFacts!Timely /\ TwiceFacts!MissCountExact
  BY DEF TwicePart, TwiceFacts!WeeklyInv, TwiceFacts!MasteredInv, TwiceFacts!HitsInv
<1>2. TwiceFacts!MasteredNotWeak
  BY <1>1, TwiceAssumed, TwiceFacts!MasteredMeans
<1>3. Twice!WeeklyMatchesHistory
  BY <1>1 DEF Twice!WeeklyMatchesHistory, TwiceFacts!WeeklyMatchesHistory, Twice!WeekOf,
               TwiceFacts!WeekOf, Twice!SumFunction, TwiceFacts!SumFunction,
               Twice!SumFunctionOnSet, TwiceFacts!SumFunctionOnSet, Twice!FoldFunctionOnSet,
               TwiceFacts!FoldFunctionOnSet, Twice!MapThenFoldSet, TwiceFacts!MapThenFoldSet
<1>4. Twice!MasteredCountExact
  BY <1>1 DEF Twice!MasteredCountExact, TwiceFacts!MasteredCountExact,
               Twice!CountMasteredElements, TwiceFacts!CountMasteredElements, Twice!SessionsOn,
               TwiceFacts!SessionsOn, Twice!Newer, TwiceFacts!Newer, Twice!LatestTwo,
               TwiceFacts!LatestTwo, Twice!Mastered, TwiceFacts!Mastered, Twice!Cardinality,
               TwiceFacts!Cardinality
<1>5. Twice!TwoHitsClear
  BY <1>1 DEF Twice!TwoHitsClear, Twice!MasteredConsecutiveHits, TwiceFacts!HitRuns,
              TwiceFacts!MasteredConsecutiveHits
<1>6. Twice!MasteredNotWeak
  BY <1>2 DEF Twice!MasteredNotWeak, TwiceFacts!MasteredNotWeak, Twice!SessionsOn,
               TwiceFacts!SessionsOn, Twice!Newer, TwiceFacts!Newer, Twice!LatestTwo,
               TwiceFacts!LatestTwo, Twice!Mastered, TwiceFacts!Mastered, Twice!Cardinality,
               TwiceFacts!Cardinality
<1>7. Twice!MissCountExact
  BY <1>1 DEF Twice!MissCountExact, TwiceFacts!MissCountExact, Twice!SumFunction,
               TwiceFacts!SumFunction, Twice!SumFunctionOnSet, TwiceFacts!SumFunctionOnSet,
               Twice!FoldFunctionOnSet, TwiceFacts!FoldFunctionOnSet, Twice!MapThenFoldSet,
               TwiceFacts!MapThenFoldSet
<1> QED BY <1>3, <1>4, <1>5, <1>6, <1>7

----------------------------------------------------------------------------
(* Served one at a time, games leave the weekly score, the mastered count   *)
(* and the weak list as the history tells, also when they ask an element    *)
(* twice, with a miss for each wrong answer; games served at the same time    *)
(* are scored once and whole, and their misses counted once: for any sets,  *)
(* elements and requests (updateUserStatsForSession,                        *)
(* updateWeakElementsForSession).                                           *)
THEOREM HistoriesAreKept == AllSpec => []HistoryKept
<1>1. TurnPart /\ TwicePart /\ RacePart => HistoryKept
  BY TurnPartMeans, TwicePartMeans, RacePartMeans DEF HistoryKept
<1> QED BY <1>1, TurnPartInit, TurnPartNext, TwicePartInit, TwicePartNext, RacePartInit,
           RacePartNext, PTL DEF AllSpec
=============================================================================
