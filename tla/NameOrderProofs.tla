--------------------------- MODULE NameOrderProofs ---------------------------
(***************************************************************************)
(* Lemmas about NameOrder: sorting the names of a sequence without repeats *)
(* puts the set of its names in order.                                     *)
(***************************************************************************)
EXTENDS NameOrder, FiniteSetTheorems, FunctionTheorems, TLAPS

\* The positions of a sequence of n entries.
LEMMA Positions ==
    ASSUME NEW n \in Nat
    PROVE  IsFiniteSet(1..n) /\ Cardinality(1..n) = n
  BY FS_Interval

\* Fewer names are below a smaller name.
LEMMA BelowGrows ==
    ASSUME NEW S \in SUBSET Int, IsFiniteSet(S),
           NEW x \in S, NEW y \in S, x < y
    PROVE  Cardinality(Below(S, x)) < Cardinality(Below(S, y))
<1>1. IsFiniteSet(Below(S, x)) /\ IsFiniteSet(Below(S, y))
  BY FS_Subset DEF Below
<1>2. Below(S, x) \in SUBSET Below(S, y) /\ Below(S, x) # Below(S, y)
  <2>1. x \in Below(S, y) /\ x \notin Below(S, x)
    BY DEF Below
  <2>2. \A z \in S : z < x => z < y
    OBVIOUS
  <2>3. QED BY <2>1, <2>2 DEF Below
<1>3. /\ Cardinality(Below(S, x)) <= Cardinality(Below(S, y))
      /\ Cardinality(Below(S, x)) # Cardinality(Below(S, y))
  BY <1>1, <1>2, FS_Subset
<1>4. Cardinality(Below(S, x)) \in Nat /\ Cardinality(Below(S, y)) \in Nat
  BY <1>1, FS_CardinalityType
<1>5. QED BY <1>3, <1>4

\* So a name is known by how many are below it ...
LEMMA BelowTells ==
    ASSUME NEW S \in SUBSET Int, IsFiniteSet(S), NEW x \in S, NEW y \in S,
           Cardinality(Below(S, x)) = Cardinality(Below(S, y))
    PROVE  x = y
<1>1. Cardinality(Below(S, x)) \in Nat /\ Cardinality(Below(S, y)) \in Nat
  BY FS_Subset, FS_CardinalityType DEF Below
<1>2. ~(x < y) /\ ~(y < x)
  BY <1>1, BelowGrows
<1>3. x \in Int /\ y \in Int
  OBVIOUS
<1>4. QED BY <1>2, <1>3

\* ... and for every number of names below the size there is one above them.
LEMMA BelowReaches ==
    ASSUME NEW S \in SUBSET Int, IsFiniteSet(S), NEW i \in 1..Cardinality(S)
    PROVE  \E x \in S : Cardinality(Below(S, x)) = i - 1
<1> DEFINE n == Cardinality(S)
           f == [x \in S |-> Cardinality(Below(S, x)) + 1]
<1>1. n \in Nat
  BY FS_CardinalityType
<1>2. ASSUME NEW x \in S PROVE Cardinality(Below(S, x)) \in 0..(n - 1)
  <2>1. Below(S, x) \in SUBSET S /\ Below(S, x) # S
    BY DEF Below
  <2>2. IsFiniteSet(Below(S, x)) /\ Cardinality(Below(S, x)) <= n
        /\ Cardinality(Below(S, x)) # n
    BY <2>1, FS_Subset
  <2>3. Cardinality(Below(S, x)) \in Nat
    BY <2>2, FS_CardinalityType
  <2>4. QED BY <1>1, <2>2, <2>3
<1>3. f \in [S -> 1..n]
  BY <1>1, <1>2
<1>4. ASSUME NEW x \in S, NEW y \in S, f[x] = f[y] PROVE x = y
  <2>1. Cardinality(Below(S, x)) = Cardinality(Below(S, y))
    BY <1>2, <1>4
  <2>2. QED BY <2>1, BelowTells
<1>5. f \in Injection(S, 1..n)
  BY <1>3, <1>4, Fun_IsInj
<1>6. IsFiniteSet(1..n) /\ Cardinality(1..n) = n
  BY <1>1, Positions
<1>7. f \in Surjection(S, 1..n)
  BY <1>5, <1>6, FS_Injection
<1> HIDE DEF f
<1>8. \A t \in 1..n : \E x \in S : f[x] = t
  BY <1>7, Fun_SurjectionProperties
<1>9. PICK x \in S : f[x] = i
  BY <1>8
<1>10. Cardinality(Below(S, x)) = i - 1
  BY <1>2, <1>9 DEF f
<1>11. QED BY <1>10

\* The names of a set in order: each has as many below it as come before.
LEMMA InOrderEntries ==
    ASSUME NEW S \in SUBSET Int, IsFiniteSet(S), NEW i \in 1..Cardinality(S)
    PROVE  /\ InOrder(S)[i] \in S
           /\ Cardinality(Below(S, InOrder(S)[i])) = i - 1
<1>1. InOrder(S)[i] = CHOOSE x \in S : Cardinality(Below(S, x)) = i - 1
  BY DEF InOrder
<1>2. QED BY <1>1, BelowReaches

\* They are a sequence of all of them, each once.
LEMMA InOrderFacts ==
    ASSUME NEW S \in SUBSET Int, IsFiniteSet(S)
    PROVE  /\ InOrder(S) \in Seq(S)
           /\ Len(InOrder(S)) = Cardinality(S)
           /\ DOMAIN InOrder(S) = 1..Cardinality(S)
           /\ IsInjective(InOrder(S))
           /\ Range(InOrder(S)) = S
<1> DEFINE n == Cardinality(S)
<1>1. n \in Nat
  BY FS_CardinalityType
<1>2. DOMAIN InOrder(S) = 1..n
  BY DEF InOrder
<1>3. InOrder(S) \in [1..n -> S]
  BY <1>2, InOrderEntries DEF InOrder
<1>4. InOrder(S) \in Seq(S) /\ Len(InOrder(S)) = n
  BY <1>1, <1>3
<1>5. ASSUME NEW i \in 1..n, NEW j \in 1..n, InOrder(S)[i] = InOrder(S)[j]
      PROVE  i = j
  BY <1>5, InOrderEntries
<1>6. ASSUME NEW x \in S PROVE \E i \in 1..n : InOrder(S)[i] = x
  <2>1. Below(S, x) \in SUBSET S /\ Below(S, x) # S
    BY DEF Below
  <2>2. IsFiniteSet(Below(S, x)) /\ Cardinality(Below(S, x)) <= n
        /\ Cardinality(Below(S, x)) # n
    BY <2>1, FS_Subset
  <2>3. Cardinality(Below(S, x)) \in Nat
    BY <2>2, FS_CardinalityType
  <2>4. Cardinality(Below(S, x)) + 1 \in 1..n
    BY <1>1, <2>2, <2>3
  <2>5. PICK i \in 1..n : i = Cardinality(Below(S, x)) + 1
    BY <2>4
  <2>6. InOrder(S)[i] \in S /\ Cardinality(Below(S, InOrder(S)[i])) = i - 1
    BY InOrderEntries
  <2>7. Cardinality(Below(S, InOrder(S)[i])) = Cardinality(Below(S, x))
    BY <2>3, <2>5, <2>6
  <2>8. InOrder(S)[i] = x
    BY <2>6, <2>7, BelowTells
  <2>9. QED BY <2>8
<1>7. IsInjective(InOrder(S))
  BY <1>2, <1>5 DEF IsInjective
<1>8. Range(InOrder(S)) = S
  BY <1>2, <1>3, <1>6 DEF Range
<1>9. QED BY <1>2, <1>4, <1>7, <1>8

\* A sequence without repeats is as long as the set of its names is large.
LEMMA RangeSize ==
    ASSUME NEW s \in Seq(Int), IsInjective(s)
    PROVE  /\ Range(s) \in SUBSET Int /\ IsFiniteSet(Range(s))
           /\ Cardinality(Range(s)) = Len(s)
           /\ s \in Bijection(1..Len(s), Range(s))
<1>1. s \in [1..Len(s) -> Int] /\ Len(s) \in Nat
  OBVIOUS
<1>2. s \in Injection(1..Len(s), Int)
  BY <1>1, Fun_IsInj DEF IsInjective
<1>3. s \in Bijection(1..Len(s), Range(s))
  BY <1>2, Fun_InjMeansBijImage
<1>4. IsFiniteSet(1..Len(s)) /\ Cardinality(1..Len(s)) = Len(s)
  BY <1>1, Positions
<1>5. ExistsBijection(1..Len(s), Range(s))
  BY <1>3 DEF ExistsBijection
<1>6. QED BY <1>1, <1>3, <1>4, <1>5, FS_Bijection DEF Range

\* A name that was not there before comes last.
LEMMA AppendNew ==
    ASSUME NEW S, NEW s \in Seq(S), IsInjective(s), NEW x \in S, x \notin Range(s)
    PROVE  /\ Append(s, x) \in Seq(S)
           /\ IsInjective(Append(s, x))
           /\ Range(Append(s, x)) = Range(s) \cup {x}
<1> DEFINE t == Append(s, x)
<1>1. /\ t \in Seq(S) /\ Len(s) \in Nat
      /\ DOMAIN s = 1..Len(s) /\ DOMAIN t = 1..(Len(s) + 1)
      /\ \A i \in 1..Len(s) : t[i] = s[i]
      /\ t[Len(s) + 1] = x
  OBVIOUS
<1>2. \A i \in 1..Len(s) : s[i] # x
  BY <1>1 DEF Range
<1>3. \A i \in 1..(Len(s) + 1) : i \in 1..Len(s) \/ i = Len(s) + 1
  BY <1>1
<1> HIDE DEF t
<1>4. IsInjective(t)
  BY <1>1, <1>2, <1>3 DEF IsInjective
<1>5. Range(t) = Range(s) \cup {x}
  BY <1>1, <1>3 DEF Range
<1>6. QED BY <1>1, <1>4, <1>5 DEF t

\* As many positions come before a name as there are names below it.
LEMMA AheadSize ==
    ASSUME NEW s \in Seq(Int), IsInjective(s), NEW j \in 1..Len(s)
    PROVE  Cardinality(Ahead(s, j)) = Cardinality(Below(Range(s), s[j]))
<1> DEFINE B == Ahead(s, j)
           r == Restrict(s, B)
<1>1. DOMAIN s = 1..Len(s) /\ s \in [1..Len(s) -> Int]
  OBVIOUS
<1>2. B = {k \in 1..Len(s) : s[k] < s[j]}
  BY <1>1 DEF Ahead, IsInjective
<1>3. r \in Bijection(B, Range(r))
  BY <1>2, RangeSize, Fun_BijRestrict
<1>4. Range(r) = Below(Range(s), s[j])
  BY <1>1, <1>2 DEF Range, Below, Restrict
<1>5. IsFiniteSet(B)
  <2>1. B \in SUBSET (1..Len(s)) /\ IsFiniteSet(1..Len(s))
    BY <1>2, Positions
  <2>2. QED BY <2>1, FS_Subset
<1>6. ExistsBijection(B, Below(Range(s), s[j]))
  BY <1>3, <1>4 DEF ExistsBijection
<1>7. QED BY <1>5, <1>6, FS_Bijection

\* Sorting a sequence without repeats puts its names in order: every listing
\* that sorts the children it has found returns the directory's own order.
THEOREM SortingGivesOrder ==
    ASSUME NEW s \in Seq(Int), IsInjective(s)
    PROVE  SortByName(s) = InOrder(Range(s))
<1> DEFINE S == Range(s)
<1>1. /\ S \in SUBSET Int /\ IsFiniteSet(S) /\ Cardinality(S) = Len(s)
      /\ DOMAIN s = 1..Len(s)
  BY RangeSize
<1>2. ASSUME NEW i \in 1..Len(s) PROVE SortByName(s)[i] = InOrder(S)[i]
  <2> DEFINE j == CHOOSE k \in DOMAIN s : Cardinality(Ahead(s, k)) = i - 1
  <2>1. PICK x \in S : Cardinality(Below(S, x)) = i - 1
    BY <1>1, BelowReaches
  <2>2. PICK k \in 1..Len(s) : s[k] = x
    BY <1>1 DEF Range
  <2>3. Cardinality(Ahead(s, k)) = i - 1
    BY <2>1, <2>2, AheadSize
  <2>4. j \in 1..Len(s) /\ Cardinality(Ahead(s, j)) = i - 1
    BY <1>1, <2>3
  <2>5. s[j] \in S /\ Cardinality(Below(S, s[j])) = i - 1
    BY <1>1, <2>4, AheadSize DEF Range
  <2>6. InOrder(S)[i] \in S /\ Cardinality(Below(S, InOrder(S)[i])) = i - 1
    BY <1>1, InOrderEntries
  <2>7. s[j] = InOrder(S)[i]
    BY <1>1, <2>5, <2>6, BelowTells
  <2>8. QED BY <1>1, <2>7 DEF SortByName
<1>3. QED BY <1>1, <1>2 DEF SortByName, InOrder
=============================================================================
