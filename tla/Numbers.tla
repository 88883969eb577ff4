------------------------------ MODULE Numbers ------------------------------
(***************************************************************************)
(* The lowest free slot, the lowest ready task, the highest region: Min    *)
(* and Max of FiniteSetsExt; and rounding.                                 *)
(***************************************************************************)
EXTENDS Integers, FiniteSetsExt, FiniteSetTheorems, WellFoundedInduction, TLAPS

\* A nonempty set of natural numbers has a least element, and Min is it.
LEMMA NatMin ==
  ASSUME NEW S \in SUBSET Nat, S # {}
  PROVE  Min(S) \in S /\ \A y \in S : Min(S) <= y
<1> DEFINE Below(x) == {k \in S : k <= x}
           T == {Below(x) : x \in S}
           R == StrictSubsetOrdering(S)
<1>1. \A x \in S : Below(x) \in FiniteSubsetsOf(S)
  <2> SUFFICES ASSUME NEW x \in S PROVE Below(x) \in FiniteSubsetsOf(S)
    OBVIOUS
  <2>1. IsFiniteSet(Below(x))
    <3>1. Below(x) \in SUBSET Nat /\ x \in Nat /\ \A s \in Below(x) : s <= x
      OBVIOUS
    <3> HIDE DEF Below
    <3> QED BY <3>1, FS_BoundedSetOfNaturals
  <2> QED BY <2>1 DEF FiniteSubsetsOf
<1>2. T \subseteq FiniteSubsetsOf(S) /\ T # {}
  BY <1>1
<1>3. \E t \in T : \A u \in T : ~(<<u, t>> \in R)
  <2> HIDE DEF T, R
  <2>1. IsWellFoundedOn(R, FiniteSubsetsOf(S))
    BY FS_StrictSubsetOrderingWellFounded DEF R
  <2> QED BY <1>2, <2>1, WFMin
<1>4. PICK x \in S : \A y \in S : ~(<<Below(y), Below(x)>> \in R)
  BY <1>3
<1>5. \A y \in S : x <= y
  <2> SUFFICES ASSUME NEW y \in S, y < x PROVE FALSE
    OBVIOUS
  <2>0. x \in Nat /\ y \in Nat /\ \A k \in S : k \in Nat
    OBVIOUS
  <2>1. Below(y) \subseteq Below(x)
    <3> SUFFICES ASSUME NEW k \in S, k <= y PROVE k <= x
      OBVIOUS
    <3> QED BY <2>0
  <2>3. x \in Below(x) /\ x \notin Below(y)
    BY <2>0
  <2>2. Below(y) \in SUBSET S /\ Below(x) \in SUBSET S
    OBVIOUS
  <2> HIDE DEF Below
  <2> QED BY <1>4, <2>1, <2>2, <2>3 DEF StrictSubsetOrdering
<1> QED BY <1>5 DEF Min

\* The smaller of two, as in the length of a transfer.
LEMMA MinOfTwo ==
  ASSUME NEW a \in Nat, NEW b \in Nat
  PROVE  Min({a, b}) = IF a <= b THEN a ELSE b
<1>1. {a, b} \in SUBSET Nat /\ {a, b} # {}
  OBVIOUS
<1>2. Min({a, b}) \in {a, b} /\ \A y \in {a, b} : Min({a, b}) <= y
  BY <1>1, NatMin
<1> QED BY <1>2

\* A nonempty set of natural numbers that has a bound has a greatest element, and Max is it.
LEMMA NatMax ==
  ASSUME NEW S \in SUBSET Nat, S # {}, NEW bound \in Nat, \A x \in S : x <= bound
  PROVE  Max(S) \in S /\ \A y \in S : y <= Max(S)
<1> DEFINE Bounds == {u \in Nat : \A x \in S : x <= u}
           m == Min(Bounds)
<1>1. Bounds \in SUBSET Nat /\ Bounds # {}
  OBVIOUS
<1>2. m \in Bounds /\ \A u \in Bounds : m <= u
  <2> HIDE DEF Bounds
  <2> QED BY <1>1, NatMin
<1>3. m \in Nat /\ \A x \in S : x <= m
  BY <1>2
<1>4. m \in S
  <2> SUFFICES ASSUME m \notin S PROVE FALSE
    OBVIOUS
  <2> HIDE DEF m
  <2>1. \A x \in S : x <= m - 1
    BY <1>3
  <2>2. m - 1 \in Nat
    <3>1. PICK x \in S : x \in Nat
      OBVIOUS
    <3> QED BY <1>3, <2>1, <3>1
  <2>3. m - 1 \in Bounds
    BY <2>1, <2>2
  <2> QED BY <1>2, <1>3, <2>3
<1> HIDE DEF m
<1>5. \E x \in S : \A y \in S : x >= y
  BY <1>3, <1>4
<1>6. Max(S) \in S /\ \A y \in S : Max(S) >= y
  BY <1>5 DEF Max
<1> QED BY <1>6

\* The larger of two, as in the pages that a heap grows by.
LEMMA MaxOfTwo ==
  ASSUME NEW a \in Int, NEW b \in Int
  PROVE  Max({a, b}) = IF a <= b THEN b ELSE a
<1>1. \E x \in {a, b} : \A y \in {a, b} : x >= y
  OBVIOUS
<1>2. Max({a, b}) \in {a, b} /\ \A y \in {a, b} : Max({a, b}) >= y
  BY <1>1 DEF Max
<1> QED BY <1>2

\* What % and \div are.
LEMMA DivMod ==
  ASSUME NEW x \in Int, NEW a \in Nat \ {0}
  PROVE  x = (x \div a) * a + (x % a) /\ x % a \in 0 .. a - 1 /\ x \div a \in Int
OBVIOUS

LEMMA DivModAre ==
  ASSUME NEW a \in Nat \ {0}, NEW k \in Int, NEW r \in 0 .. a - 1, NEW x \in Int, x = k * a + r
  PROVE  x \div a = k /\ x % a = r
OBVIOUS

\* Multiples of a.
LEMMA Multiples ==
  ASSUME NEW a \in Nat \ {0}
  PROVE  /\ \A k \in Int : (k * a) % a = 0 /\ (k * a) \div a = k
         /\ \A x \in Int : x % a = 0 => x = (x \div a) * a
         /\ \A x, y \in Int : x % a = 0 /\ y % a = 0 => (x + y) % a = 0 /\ (x - y) % a = 0
<1>1. ASSUME NEW k \in Int PROVE (k * a) % a = 0 /\ (k * a) \div a = k
  <2>1. k * a \in Int /\ k * a = k * a + 0 /\ 0 \in 0 .. a - 1
    OBVIOUS
  <2> QED BY <2>1, DivModAre
<1>2. ASSUME NEW x \in Int, x % a = 0 PROVE x = (x \div a) * a
  <2>1. x = (x \div a) * a + (x % a) /\ x \div a \in Int
    BY DivMod
  <2> QED BY <1>2, <2>1
<1>3. ASSUME NEW x \in Int, NEW y \in Int, x % a = 0, y % a = 0
      PROVE  (x + y) % a = 0 /\ (x - y) % a = 0
  <2>1. PICK k \in Int : x = k * a
    BY <1>2, <1>3, DivMod
  <2>2. PICK j \in Int : y = j * a
    BY <1>2, <1>3, DivMod
  <2>3. x + y = (k + j) * a /\ x - y = (k - j) * a /\ k + j \in Int /\ k - j \in Int
    BY <2>1, <2>2
  <2> QED BY <1>1, <2>3
<1> QED BY <1>1, <1>2, <1>3

\* A multiple of a multiple of a.
LEMMA MultipleOfMultiple ==
  ASSUME NEW a \in Nat \ {0}, NEW b \in Nat \ {0}, b % a = 0, NEW x \in Int, x % b = 0
  PROVE  x % a = 0
<1>1. PICK k \in Int : x = k * b
  BY Multiples, DivMod
<1>2. PICK j \in Int : b = j * a
  <2>1. b \in Int
    OBVIOUS
  <2>2. b = (b \div a) * a /\ b \div a \in Int
    BY <2>1, Multiples, DivMod
  <2> QED BY <2>2
<1>3. x = (k * j) * a /\ k * j \in Int
  <2>1. k * (j * a) = (k * j) * a /\ k * j \in Int
    OBVIOUS
  <2> QED BY <1>1, <1>2, <2>1
<1> QED BY <1>3, Multiples

\* No multiple of a lies strictly between two neighbours.
LEMMA NextMultiple ==
  ASSUME NEW a \in Nat \ {0}, NEW x \in Int, NEW y \in Int, x % a = 0, y % a = 0, x < y
  PROVE  x + a <= y
<1>1. PICK k \in Int : x = k * a
  BY Multiples, DivMod
<1>2. PICK j \in Int : y = j * a
  BY Multiples, DivMod
<1>3. CASE k < j
  <2>1. (j - k - 1) * a >= 0
    BY <1>3
  <2>2. j * a = k * a + a + (j - k - 1) * a
    OBVIOUS
  <2> QED BY <1>1, <1>2, <2>1, <2>2
<1>4. CASE k >= j
  <2>1. (k - j) * a >= 0
    BY <1>4
  <2>2. k * a = j * a + (k - j) * a
    OBVIOUS
  <2> QED BY <1>1, <1>2, <2>1, <2>2
<1> QED BY <1>3, <1>4
=============================================================================
