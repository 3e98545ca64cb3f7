---------------------------- MODULE RankTheorems ----------------------------
(***************************************************************************)
(* What the proofs about Backup, Recover, Catalog, SegFile and RestorePlan *)
(* need of blocks, sectors, ranks and least elements.                      *)
(***************************************************************************)
EXTENDS Ranks, TLAPS, FiniteSetTheorems, FunctionTheorems

-----------------------------------------------------------------------------
(***************************************************************************)
(* Arithmetic of blocks and sectors.                                       *)
(***************************************************************************)

\* Sector j of block k is in block k.
LEMMA DivMod ==
  ASSUME NEW B \in Nat \ {0}, NEW k \in Nat, NEW j \in 0..(B - 1)
  PROVE  (k * B + j) \div B = k /\ (k * B + j) % B = j
OBVIOUS

\* Every sector is in a block, at a place in it.
LEMMA DivBounds ==
  ASSUME NEW B \in Nat \ {0}, NEW a \in Nat
  PROVE  /\ a \div B \in Nat /\ a % B \in 0..(B - 1)
         /\ a = (a \div B) * B + (a % B)
OBVIOUS

\* More blocks are more sectors.
LEMMA TimesMonotone ==
  ASSUME NEW B \in Nat, NEW a \in Nat, NEW b \in Nat, a <= b
  PROVE  a * B \in Nat /\ b * B \in Nat /\ a * B <= b * B
OBVIOUS

\* One block more is B sectors more.
LEMMA TimesNext ==
  ASSUME NEW B \in Nat, NEW a \in Int
  PROVE  (a + 1) * B = a * B + B /\ (a - 1) * B = a * B - B
OBVIOUS

\* The number of blocks, or of units, rounded up.
LEMMA RoundUp ==
  ASSUME NEW B \in Nat \ {0}, NEW T \in Nat
  PROVE  /\ (T + B - 1) \div B \in Nat
         /\ T <= ((T + B - 1) \div B) * B
         /\ (((T + B - 1) \div B) - 1) * B < T
         /\ (T + B - 1) \div B <= T
         /\ T # 0 => (T + B - 1) \div B # 0
OBVIOUS

\* Fewer sectors in full blocks are fewer blocks.
LEMMA TimesLess ==
  ASSUME NEW B \in Nat \ {0}, NEW a \in Nat, NEW b \in Nat, a * B < b * B
  PROVE  a < b /\ a + 1 <= b /\ (a + 1) * B <= b * B
OBVIOUS

\* As many sectors in full blocks are as many blocks.
LEMMA TimesEqual ==
  ASSUME NEW B \in Nat \ {0}, NEW a \in Nat, NEW b \in Nat, a <= b, a * B >= b * B
  PROVE  a = b
OBVIOUS

-----------------------------------------------------------------------------
(***************************************************************************)
(* Ranks.                                                                  *)
(***************************************************************************)

\* The elements up to b.
LEMMA UpToFinite ==
  ASSUME NEW M \in SUBSET Nat, IsFiniteSet(M), NEW b \in Nat
  PROVE  /\ IsFiniteSet({d \in M : d <= b})
         /\ Rank(M, b) \in Nat /\ Rank(M, b) <= Cardinality(M)
         /\ Cardinality(M) \in Nat
<1>1. {d \in M : d <= b} \in SUBSET M
  OBVIOUS
<1> QED BY <1>1, FS_Subset, FS_CardinalityType DEF Rank

\* A larger element has a larger rank.
LEMMA RankLess ==
  ASSUME NEW M \in SUBSET Nat, IsFiniteSet(M), NEW b \in Nat, NEW c \in M, b < c
  PROVE  Rank(M, b) < Rank(M, c)
<1> DEFINE S == {d \in M : d <= b}
           T == {d \in M : d <= c}
<1>1. S \in SUBSET T /\ c \in T /\ c \notin S
  <2>1. c <= c /\ ~(c <= b) /\ \A d \in M : d <= b => d <= c
    OBVIOUS
  <2> QED BY <2>1
<1>2. IsFiniteSet(S) /\ IsFiniteSet(T) /\ Cardinality(S) \in Nat /\ Cardinality(T) \in Nat
  BY UpToFinite DEF Rank
<1>3. Cardinality(S) <= Cardinality(T) /\ (Cardinality(T) = Cardinality(S) => T = S)
  <2> HIDE DEF S, T
  <2> QED BY <1>1, <1>2, FS_Subset
<1>4. Cardinality(S) < Cardinality(T)
  BY <1>1, <1>2, <1>3
<1> QED BY <1>4 DEF Rank

\* An element's rank is one of 1 .. Cardinality, and no two have the same.
LEMMA RankOfElement ==
  ASSUME NEW M \in SUBSET Nat, IsFiniteSet(M), NEW b \in M
  PROVE  Rank(M, b) \in 1..Cardinality(M)
<1> DEFINE S == {d \in M : d <= b}
<1>1. b \in S /\ IsFiniteSet(S) /\ Cardinality(S) \in Nat
      /\ Cardinality(S) <= Cardinality(M) /\ Cardinality(M) \in Nat
  BY UpToFinite DEF Rank
<1>2. Cardinality(S) # 0
  <2> HIDE DEF S
  <2> QED BY <1>1, FS_EmptySet
<1> QED BY <1>1, <1>2 DEF Rank

\* Ranks order the elements as they are.
LEMMA RankOrder ==
  ASSUME NEW M \in SUBSET Nat, IsFiniteSet(M), NEW b \in M, NEW c \in M
  PROVE  /\ Rank(M, b) \in Nat /\ Rank(M, c) \in Nat
         /\ Rank(M, b) = Rank(M, c) => b = c
         /\ Rank(M, b) <= Rank(M, c) <=> b <= c
<1>1. Rank(M, b) \in Nat /\ Rank(M, c) \in Nat /\ b \in Nat /\ c \in Nat
  BY UpToFinite
<1>2. /\ b < c => Rank(M, b) < Rank(M, c)
      /\ c < b => Rank(M, c) < Rank(M, b)
  BY RankLess
<1> QED BY <1>1, <1>2

\* Every number up to Cardinality is the rank of an element, which Nth finds.
LEMMA NthHasRank ==
  ASSUME NEW M \in SUBSET Nat, IsFiniteSet(M), NEW i \in 1..Cardinality(M)
  PROVE  Nth(M, i) \in M /\ Rank(M, Nth(M, i)) = i
<1> DEFINE T == 1..Cardinality(M)
           f == [b \in M |-> Rank(M, b)]
<1>1. Cardinality(M) \in Nat
  BY FS_CardinalityType
<1>2. IsFiniteSet(T) /\ Cardinality(T) = Cardinality(M)
  BY <1>1, FS_Interval
<1>3. f \in [M -> T] /\ \A a, b \in M : f[a] = f[b] => a = b
  BY RankOfElement, RankOrder
<1> HIDE DEF f, T
<1>4. f \in Injection(M, T)
  BY <1>3, Fun_IsInj
<1>5. f \in Surjection(M, T)
  BY <1>2, <1>4, FS_Injection
<1>6. \A t \in T : \E b \in M : f[b] = t
  BY <1>5, Fun_SurjectionProperties
<1>7. PICK b \in M : Rank(M, b) = i
  BY <1>6 DEF f, T
<1> QED BY <1>7 DEF Nth

\* Nth undoes Rank.
LEMMA NthOfRank ==
  ASSUME NEW M \in SUBSET Nat, IsFiniteSet(M), NEW b \in M
  PROVE  Nth(M, Rank(M, b)) = b
<1>1. Rank(M, b) \in 1..Cardinality(M)
  BY RankOfElement
<1>2. Nth(M, Rank(M, b)) \in M /\ Rank(M, Nth(M, Rank(M, b))) = Rank(M, b)
  BY <1>1, NthHasRank
<1> QED BY <1>2, RankOrder

\* The elements of the n lowest ranks are n.
LEMMA LowestRanks ==
  ASSUME NEW M \in SUBSET Nat, IsFiniteSet(M), NEW n \in 0..Cardinality(M)
  PROVE  /\ IsFiniteSet({d \in M : Rank(M, d) <= n})
         /\ Cardinality({d \in M : Rank(M, d) <= n}) = n
<1> DEFINE L == {d \in M : Rank(M, d) <= n}
<1>1. Cardinality(M) \in Nat
  BY FS_CardinalityType
<1>2. CASE n = 0
  <2>1. \A d \in M : Rank(M, d) \in 1..Cardinality(M)
    BY RankOfElement
  <2>2. \A d \in M : ~(Rank(M, d) <= n)
    BY <1>1, <1>2, <2>1
  <2>3. L = {}
    BY <2>2
  <2> QED BY <1>2, <2>3, FS_EmptySet
<1>3. CASE n # 0
  <2>1. n \in 1..Cardinality(M)
    BY <1>1, <1>3
  <2>2. PICK b \in M : Rank(M, b) = n
    BY <2>1, NthHasRank
  <2>3. L = {d \in M : d <= b}
    BY <2>2, RankOrder
  <2> QED BY <2>2, <2>3, UpToFinite DEF Rank
<1> QED BY <1>2, <1>3

\* The elements of the ranks m + 1 .. n.
LEMMA RanksBetween ==
  ASSUME NEW M \in SUBSET Nat, IsFiniteSet(M), NEW n \in 0..Cardinality(M), NEW m \in 0..n,
         NEW U, U = {d \in M : m < Rank(M, d) /\ Rank(M, d) <= n}
  PROVE  /\ U \in SUBSET Nat /\ IsFiniteSet(U) /\ Cardinality(U) = n - m
         /\ \A b \in U : Rank(U, b) = Rank(M, b) - m
<1> DEFINE Low(k) == {d \in M : Rank(M, d) <= k}
<1>1. Cardinality(M) \in Nat /\ m \in 0..Cardinality(M)
  BY FS_CardinalityType
<1>2. /\ IsFiniteSet(Low(m)) /\ Cardinality(Low(m)) = m
      /\ IsFiniteSet(Low(n)) /\ Cardinality(Low(n)) = n
  BY <1>1, LowestRanks
<1>3. \A d \in M : Rank(M, d) \in Nat
  BY RankOrder
<1>4. Low(n) \cap Low(m) = Low(m) /\ U = Low(n) \ Low(m)
  <2>1. \A d \in M : /\ Rank(M, d) <= m => Rank(M, d) <= n
                     /\ m < Rank(M, d) <=> ~(Rank(M, d) <= m)
    BY <1>1, <1>3
  <2> QED BY <2>1
<1>5. IsFiniteSet(U) /\ Cardinality(U) = n - m
  <2> DEFINE S == Low(n)
             T == Low(m)
  <2>1. IsFiniteSet(S \ T) /\ Cardinality(S \ T) = Cardinality(S) - Cardinality(S \cap T)
    <3> HIDE DEF S, T
    <3> QED BY <1>2, FS_Difference DEF S, T
  <2> QED BY <1>2, <1>4, <2>1
<1>6. ASSUME NEW b \in U
      PROVE  Rank(U, b) = Rank(M, b) - m
  <2> DEFINE A == {d \in M : d <= b}
  <2>1. IsFiniteSet(A) /\ Cardinality(A) = Rank(M, b) /\ b \in M
    BY UpToFinite DEF Rank
  <2>2. \A d \in M : d <= b <=> Rank(M, d) <= Rank(M, b)
    BY <2>1, RankOrder
  <2>3. \A d \in M : /\ Rank(M, d) <= m => d <= b
                     /\ d <= b => (d \in U <=> ~(Rank(M, d) <= m))
    BY <1>1, <1>3, <2>1, <2>2
  <2>4. A \cap Low(m) = Low(m) /\ {d \in U : d <= b} = A \ Low(m)
    BY <2>3
  <2>5. Cardinality(A \ Low(m)) = Cardinality(A) - Cardinality(A \cap Low(m))
    <3> HIDE DEF A
    <3> QED BY <2>1, FS_Difference
  <2> QED BY <1>2, <2>1, <2>4, <2>5 DEF Rank
<1> QED BY <1>5, <1>6

\* The unit a rank belongs to.
LEMMA UnitOfRank ==
  ASSUME NEW B \in Nat \ {0}, NEW r \in Nat \ {0}, NEW i \in Nat \ {0}
  PROVE  (r - 1) \div B = i - 1 <=> (i - 1) * B < r /\ r <= i * B
<1> DEFINE d == (r - 1) \div B
           e == (r - 1) % B
<1>1. d \in Nat /\ e \in 0..(B - 1) /\ r - 1 = d * B + e
  <2>1. r - 1 \in Nat
    OBVIOUS
  <2> QED BY <2>1, DivBounds
<1>2. ASSUME d = i - 1
      PROVE  (i - 1) * B < r /\ r <= i * B
  BY <1>1, <1>2
<1>3. ASSUME (i - 1) * B < r, r <= i * B
      PROVE  d = i - 1
  <2> DEFINE j == (r - 1) - (i - 1) * B
  <2>1. j \in 0..(B - 1) /\ r - 1 = (i - 1) * B + j /\ i - 1 \in Nat
    BY <1>3
  <2> HIDE DEF j
  <2> QED BY <2>1, DivMod
<1> QED BY <1>2, <1>3

\* The least of a finite set of numbers.
LEMMA LeastNumber ==
  ASSUME NEW S \in SUBSET Nat, IsFiniteSet(S), S # {}
  PROVE  /\ (CHOOSE x \in S : \A y \in S : x <= y) \in S
         /\ \A y \in S : (CHOOSE x \in S : \A z \in S : x <= z) <= y
<1>1. 1 \in 1..Cardinality(S)
  <2>1. Cardinality(S) \in Nat /\ Cardinality(S) # 0
    BY FS_CardinalityType, FS_EmptySet
  <2> QED BY <2>1
<1>2. PICK x \in S : Rank(S, x) = 1
  BY <1>1, NthHasRank
<1>3. \A y \in S : x <= y
  <2> TAKE y \in S
  <2>1. Rank(S, y) \in 1..Cardinality(S)
    BY RankOfElement
  <2>2. Rank(S, x) <= Rank(S, y)
    BY <1>2, <2>1
  <2> QED BY <2>2, RankOrder
<1> QED BY <1>2, <1>3
=============================================================================
