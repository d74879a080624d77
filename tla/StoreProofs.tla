----------------------------- MODULE StoreProofs -----------------------------
(***************************************************************************)
(* That the filesystems whose stores have objects and no directories say   *)
(* of a name what the store has there (StoreNames), for any keys, roots,   *)
(* names and secrets.  The root of a filesystem and the name that a call   *)
(* is given are joined, split and trimmed; the proofs follow what a path   *)
(* stands for through this, whether it begins with a slash and which names *)
(* it has.                                                                 *)
(***************************************************************************)
EXTENDS StoreNames, NameOrderProofs, SequenceTheorems, TLAPS

-----------------------------------------------------------------------------
(* Paths *)

\* Segments of paths, and those of them that are names.
Strings == STRING \cup {Blank, "."}
Segs    == Strings \ {Blank, "."}

LEMMA Singles ==
    ASSUME NEW S, NEW x \in S
    PROVE  <<x>> \in Seq(S) /\ <<x, x>> \in Seq(S)
  OBVIOUS

LEMMA Literals == Blank # "."
  BY Zenon DEF Blank

\* The places of the names of a path are finitely many positions.
LEMMA NamesFinite ==
    ASSUME NEW p \in Seq(Strings)
    PROVE  /\ NamesAt(p) \in SUBSET (1..Len(p)) /\ NamesAt(p) \in SUBSET Int
           /\ IsFiniteSet(NamesAt(p)) /\ Cardinality(NamesAt(p)) \in Nat
<1>1. Len(p) \in Nat /\ DOMAIN p = 1..Len(p)
  OBVIOUS
<1>2. NamesAt(p) \in SUBSET (1..Len(p))
  BY <1>1 DEF NamesAt
<1>3. IsFiniteSet(1..Len(p))
  BY <1>1, Positions
<1>4. IsFiniteSet(NamesAt(p))
  BY <1>2, <1>3, FS_Subset
<1>5. QED BY <1>2, <1>4, FS_CardinalityType

\* What is kept of a path are names.
LEMMA KeptType ==
    ASSUME NEW p \in Seq(Strings)
    PROVE  /\ Kept(p) \in Seq(Segs) /\ Kept(p) \in Seq(Strings)
           /\ Len(Kept(p)) = Cardinality(NamesAt(p))
<1> DEFINE n == Cardinality(NamesAt(p))
<1>1. n \in Nat
  BY NamesFinite
<1>2. ASSUME NEW i \in 1..n PROVE p[InOrder(NamesAt(p))[i]] \in Segs
  <2>1. InOrder(NamesAt(p))[i] \in NamesAt(p)
    BY NamesFinite, InOrderEntries
  <2>2. QED BY <2>1 DEF NamesAt, Segs
<1>3. Kept(p) \in [1..n -> Segs]
  BY <1>2 DEF Kept
<1>4. Kept(p) \in Seq(Segs) /\ Len(Kept(p)) = n
  BY <1>1, <1>3
<1>5. Kept(p) \in Seq(Strings)
  BY <1>1, <1>3 DEF Segs
<1>6. QED BY <1>4, <1>5

\* Names that are each in their place are what is kept.
LEMMA KeptByPlaces ==
    ASSUME NEW p \in Seq(Strings), NEW q \in Seq(Strings),
           Len(q) = Cardinality(NamesAt(p)),
           \A i \in 1..Len(q) : \E j \in NamesAt(p) :
              q[i] = p[j] /\ Cardinality(Below(NamesAt(p), j)) = i - 1
    PROVE  Kept(p) = q
<1>1. ASSUME NEW i \in 1..Len(q) PROVE Kept(p)[i] = q[i]
  <2>1. /\ InOrder(NamesAt(p))[i] \in NamesAt(p)
        /\ Cardinality(Below(NamesAt(p), InOrder(NamesAt(p))[i])) = i - 1
    BY NamesFinite, InOrderEntries
  <2>2. PICK j \in NamesAt(p) :
           q[i] = p[j] /\ Cardinality(Below(NamesAt(p), j)) = i - 1
    OBVIOUS
  <2>3. InOrder(NamesAt(p))[i] = j
    BY <2>1, <2>2, NamesFinite, BelowTells
  <2>4. QED BY <2>2, <2>3 DEF Kept
<1>2. Kept(p) \in Seq(Strings) /\ Len(Kept(p)) = Len(q)
  BY KeptType
<1>3. QED BY <1>1, <1>2, SeqEqual

\* All is kept of a path of names, ...
LEMMA KeptPlain ==
    ASSUME NEW p \in Seq(Strings), NamesAt(p) = DOMAIN p
    PROVE  Kept(p) = p
<1>1. Len(p) \in Nat /\ NamesAt(p) = 1..Len(p)
  OBVIOUS
<1>2. Cardinality(NamesAt(p)) = Len(p)
  BY <1>1, Positions
<1>3. ASSUME NEW i \in 1..Len(p) PROVE Cardinality(Below(NamesAt(p), i)) = i - 1
  <2>1. Below(NamesAt(p), i) = 1..(i - 1)
    BY <1>1 DEF Below
  <2>2. i - 1 \in Nat
    BY <1>1
  <2>3. QED BY <2>1, <2>2, Positions
<1>4. QED BY <1>1, <1>2, <1>3, KeptByPlaces

\* ... and nothing of one that has none.
LEMMA KeptNone ==
    ASSUME NEW p \in Seq(Strings)
    PROVE  Kept(p) = <<>> <=> NamesAt(p) = {}
<1>1. Kept(p) = <<>> <=> Len(Kept(p)) = 0
  BY KeptType
<1>2. Cardinality(NamesAt(p)) = 0 <=> NamesAt(p) = {}
  BY NamesFinite, FS_EmptySet
<1>3. QED BY <1>1, <1>2, KeptType

LEMMA KeptBlank == Kept(Empty) = <<>> /\ Kept(Dot) = <<>> /\ Kept(Slash) = <<>>
<1>1. Blank \in Strings /\ "." \in Strings
  BY DEF Strings
<1>2. Empty \in Seq(Strings) /\ Dot \in Seq(Strings) /\ Slash \in Seq(Strings)
  <2>1. Empty \in Seq(Strings) /\ Slash \in Seq(Strings)
    BY <1>1, Singles DEF Empty, Slash
  <2>2. Dot \in Seq(Strings)
    BY <1>1, Singles DEF Dot
  <2>3. QED BY <2>1, <2>2
<1>3. NamesAt(Empty) = {} /\ NamesAt(Dot) = {} /\ NamesAt(Slash) = {}
  BY DEF NamesAt, Empty, Dot, Slash
<1>4. QED BY <1>2, <1>3, KeptNone

\* Positions that are moved are as many.
LEMMA Moved ==
    ASSUME NEW S \in SUBSET Int, IsFiniteSet(S), NEW n \in Int
    PROVE  /\ IsFiniteSet({x + n : x \in S})
           /\ Cardinality({x + n : x \in S}) = Cardinality(S)
<1> DEFINE T == {x + n : x \in S}
           f == [x \in S |-> x + n]
<1>1. f \in [S -> T]
  OBVIOUS
<1>2. \A x, y \in S : f[x] = f[y] => x = y
  OBVIOUS
<1>3. \A t \in T : \E x \in S : f[x] = t
  OBVIOUS
<1>4. f \in Injection(S, T)
  BY <1>1, <1>2, Fun_IsInj
<1>5. f \in Surjection(S, T)
  BY <1>1, <1>3, Fun_IsSurj
<1>6. ExistsBijection(S, T)
  BY <1>4, <1>5 DEF ExistsBijection, Bijection
<1>7. QED BY <1>6, FS_Bijection

\* The names of a path and of what follows it.
LEMMA KeptConcat ==
    ASSUME NEW p \in Seq(Strings), NEW q \in Seq(Strings)
    PROVE  Kept(p \o q) = Kept(p) \o Kept(q)
<1> DEFINE pq == p \o q
           A == NamesAt(p)
           B == NamesAt(q)
           n == Len(p)
           Later(S) == {x + n : x \in S}
           C == A \cup Later(B)
           a == Cardinality(A)
           b == Cardinality(B)
           k == Kept(p) \o Kept(q)
           f == [i \in 1..(a + b) |->
                   IF i <= a THEN InOrder(A)[i] ELSE InOrder(B)[i - a] + n]
<1>1. /\ n \in Nat /\ Len(q) \in Nat /\ a \in Nat /\ b \in Nat
      /\ A \in SUBSET (1..n) /\ B \in SUBSET (1..Len(q))
      /\ A \in SUBSET Int /\ B \in SUBSET Int
      /\ IsFiniteSet(A) /\ IsFiniteSet(B)
  BY NamesFinite
<1>2. /\ pq \in Seq(Strings) /\ Len(pq) = n + Len(q)
      /\ \A i \in 1..(n + Len(q)) : pq[i] = IF i <= n THEN p[i] ELSE q[i - n]
  BY ConcatProperties
<1>3. NamesAt(pq) = C
  <2>1. ASSUME NEW i \in NamesAt(pq) PROVE i \in C
    <3>1. i \in 1..(n + Len(q)) /\ pq[i] \notin {Blank, "."}
      BY <1>2, <2>1 DEF NamesAt
    <3>2. CASE i <= n
      BY <1>1, <1>2, <3>1, <3>2 DEF NamesAt
    <3>3. CASE ~(i <= n)
      <4>1. i - n \in 1..Len(q) /\ q[i - n] \notin {Blank, "."}
        BY <1>1, <1>2, <3>1, <3>3
      <4>2. i - n \in B /\ i = (i - n) + n
        BY <1>1, <3>1, <4>1 DEF NamesAt
      <4>3. QED BY <4>2
    <3>4. QED BY <3>2, <3>3
  <2>2. ASSUME NEW i \in A PROVE i \in NamesAt(pq)
    BY <1>1, <1>2, <2>2 DEF NamesAt
  <2>3. ASSUME NEW j \in B PROVE j + n \in NamesAt(pq)
    <3>1. j \in 1..Len(q) /\ q[j] \notin {Blank, "."}
      BY <1>1, <2>3 DEF NamesAt
    <3>2. j + n \in 1..(n + Len(q)) /\ ~(j + n <= n) /\ (j + n) - n = j
      BY <1>1, <3>1
    <3>3. QED BY <1>2, <3>1, <3>2 DEF NamesAt
  <2>4. QED BY <2>1, <2>2, <2>3
<1>4. ASSUME NEW S \in SUBSET A, NEW T \in SUBSET B
      PROVE  Cardinality(S \cup Later(T)) = Cardinality(S) + Cardinality(T)
  <2>1. IsFiniteSet(S) /\ IsFiniteSet(T) /\ T \in SUBSET Int
    BY <1>1, FS_Subset
  <2>2. IsFiniteSet(Later(T)) /\ Cardinality(Later(T)) = Cardinality(T)
    <3>1. n \in Int
      BY <1>1
    <3>2. QED BY <2>1, <3>1, Moved
  <2>3. S \cap Later(T) = {}
    BY <1>1
  <2>4. Cardinality(S \cap Later(T)) = 0
    BY <2>3, FS_EmptySet
  <2>5. Cardinality(S) \in Nat /\ Cardinality(T) \in Nat
    BY <2>1, FS_CardinalityType
  <2> HIDE DEF Later
  <2>6. Cardinality(S \cup Later(T))
          = Cardinality(S) + Cardinality(Later(T)) - Cardinality(S \cap Later(T))
    BY <2>1, <2>2, FS_Union
  <2>7. QED BY <2>2, <2>4, <2>5, <2>6
<1>5. /\ k \in Seq(Strings) /\ Len(k) = a + b
      /\ \A i \in 1..(a + b) : k[i] = IF i <= a THEN Kept(p)[i] ELSE Kept(q)[i - a]
  <2>1. /\ Kept(p) \in Seq(Strings) /\ Len(Kept(p)) = a
        /\ Kept(q) \in Seq(Strings) /\ Len(Kept(q)) = b
    BY KeptType
  <2>2. /\ k \in Seq(Strings) /\ Len(k) = Len(Kept(p)) + Len(Kept(q))
        /\ \A i \in 1..(Len(Kept(p)) + Len(Kept(q))) :
              k[i] = IF i <= Len(Kept(p)) THEN Kept(p)[i] ELSE Kept(q)[i - Len(Kept(p))]
    BY <2>1, ConcatProperties
  <2>3. QED BY <2>1, <2>2
<1>6. Len(k) = Cardinality(NamesAt(pq))
  <2>1. A \in SUBSET A /\ B \in SUBSET B
    OBVIOUS
  <2>2. Cardinality(A \cup Later(B)) = a + b
    BY <1>4, <2>1
  <2>3. QED BY <1>3, <1>5, <2>2
<1>7. ASSUME NEW i \in 1..(a + b)
      PROVE  /\ f[i] \in NamesAt(pq) /\ k[i] = pq[f[i]]
             /\ Cardinality(Below(NamesAt(pq), f[i])) = i - 1
  <2>1. CASE i <= a
    <3> DEFINE x == InOrder(A)[i]
    <3>1. i \in 1..a
      BY <1>1, <2>1
    <3>2. x \in A /\ Cardinality(Below(A, x)) = i - 1
      BY <1>1, <3>1, InOrderEntries
    <3>3. f[i] = x
      BY <2>1
    <3>4. Kept(p)[i] = p[x]
      BY <3>1 DEF Kept
    <3>5. pq[x] = p[x]
      BY <1>1, <1>2, <3>2
    <3>6. k[i] = pq[x]
      BY <1>5, <2>1, <3>4, <3>5
    <3>7. Below(C, x) = Below(A, x)
      BY <1>1, <3>2 DEF Below
    <3>8. QED BY <1>3, <3>2, <3>3, <3>6, <3>7
  <2>2. CASE ~(i <= a)
    <3> DEFINE x == InOrder(B)[i - a]
    <3>1. i - a \in 1..b
      BY <1>1, <2>2
    <3>2. x \in B /\ Cardinality(Below(B, x)) = i - a - 1
      BY <1>1, <3>1, InOrderEntries
    <3>3. f[i] = x + n
      BY <2>2
    <3>4. Kept(q)[i - a] = q[x]
      BY <3>1 DEF Kept
    <3>5. pq[x + n] = q[x]
      <4>1. x + n \in 1..(n + Len(q)) /\ ~(x + n <= n) /\ (x + n) - n = x
        BY <1>1, <3>2
      <4>2. QED BY <1>2, <4>1
    <3>6. k[i] = pq[x + n]
      BY <1>5, <2>2, <3>4, <3>5
    <3>7. Below(C, x + n) = A \cup Later(Below(B, x))
      <4>1. \A y \in A : y < x + n
        BY <1>1, <3>2
      <4>2. \A y \in B : y + n < x + n <=> y < x
        BY <1>1, <3>2
      <4>3. QED BY <4>1, <4>2 DEF Below
    <3>8. A \in SUBSET A /\ Below(B, x) \in SUBSET B
      BY DEF Below
    <3>9. Cardinality(Below(C, x + n)) = a + Cardinality(Below(B, x))
      BY <1>4, <3>7, <3>8
    <3>10. Cardinality(Below(C, x + n)) = i - 1
      BY <1>1, <3>2, <3>9
    <3>11. x + n \in C
      BY <3>2
    <3>12. QED BY <1>3, <3>3, <3>6, <3>10, <3>11
  <2>3. QED BY <2>1, <2>2
<1> HIDE DEF f, k, pq
<1>8. \A i \in 1..Len(k) : \E j \in NamesAt(pq) :
         k[i] = pq[j] /\ Cardinality(Below(NamesAt(pq), j)) = i - 1
  BY <1>5, <1>7
<1>9. Kept(pq) = k
  <2>1. pq \in Seq(Strings) /\ k \in Seq(Strings)
    BY <1>2, <1>5
  <2>2. QED BY <2>1, <1>6, <1>8, KeptByPlaces
<1>10. QED BY <1>9 DEF k, pq

Paths1 == Seq(Strings) \ {<<>>}

\* What a path stands for, if the empty path and the dot are nothing.
Lead(p)    == IF Rooted(p) THEN Empty ELSE <<>>
PlaceOf(p) == Lead(p) \o Kept(p)

LEMMA EmptyType == Empty \in Paths1 /\ Dot \in Paths1 /\ Slash \in Paths1
<1>1. Blank \in Strings /\ "." \in Strings
  BY DEF Strings
<1>2. Empty \in Seq(Strings) /\ Slash \in Seq(Strings)
  BY <1>1, Singles DEF Empty, Slash
<1>3. Dot \in Seq(Strings)
  BY <1>1, Singles DEF Dot
<1>4. Empty # <<>> /\ Slash # <<>> /\ Dot # <<>>
  BY DEF Empty, Slash, Dot
<1>5. QED BY <1>2, <1>3, <1>4 DEF Paths1

LEMMA RootedEmpty == ~Rooted(Empty) /\ ~Rooted(Dot) /\ ~Rooted(<<>>) /\ Rooted(Slash)
  BY DEF Rooted, Empty, Dot, Slash

LEMMA PlaceType ==
    ASSUME NEW p \in Seq(Strings)
    PROVE  /\ Lead(p) \in Seq(Strings) /\ Kept(p) \in Seq(Strings)
           /\ PlaceOf(p) \in Seq(Strings)
<1>1. Lead(p) \in Seq(Strings)
  <2>1. Empty \in Seq(Strings) /\ <<>> \in Seq(Strings)
    BY EmptyType, EmptySeq DEF Paths1
  <2>2. QED BY <2>1 DEF Lead
<1>2. QED BY <1>1, KeptType, ConcatProperties DEF PlaceOf

\* Nothing more is left out of what is kept.
LEMMA KeptAgain ==
    ASSUME NEW p \in Seq(Strings)
    PROVE  /\ NamesAt(Kept(p)) = DOMAIN Kept(p)
           /\ Kept(Kept(p)) = Kept(p) /\ ~Rooted(Kept(p))
           /\ Kept(PlaceOf(p)) = Kept(p)
<1>1. Kept(p) \in Seq(Segs) /\ Kept(p) \in Seq(Strings)
  BY KeptType
<1>2. NamesAt(Kept(p)) = DOMAIN Kept(p)
  <2>1. \A i \in DOMAIN Kept(p) : Kept(p)[i] \in Segs
    BY <1>1
  <2>2. QED BY <2>1 DEF NamesAt, Segs
<1>3. Kept(Kept(p)) = Kept(p)
  BY <1>1, <1>2, KeptPlain
<1>4. ~Rooted(Kept(p))
  BY <1>1 DEF Rooted, Segs
<1>5. Kept(PlaceOf(p)) = Kept(Lead(p)) \o Kept(Kept(p))
  BY <1>1, PlaceType, KeptConcat DEF PlaceOf
<1>6. Kept(<<>>) = <<>>
  <2>1. <<>> \in Seq(Strings) /\ NamesAt(<<>>) = {}
    BY EmptySeq DEF NamesAt
  <2>2. QED BY <2>1, KeptNone
<1>7. Kept(Lead(p)) = <<>>
  BY <1>6, KeptBlank DEF Lead
<1>8. <<>> \o Kept(p) = Kept(p)
  BY <1>1, ConcatEmptySeq
<1>9. QED BY <1>2, <1>3, <1>4, <1>5, <1>7, <1>8

LEMMA MoreThanOne ==
    ASSUME NEW n \in Nat, n >= 1, n # 1
    PROVE  n > 1
  OBVIOUS

\* What follows a path that is not empty does not tell whether it is rooted.
LEMMA RootedConcat ==
    ASSUME NEW p \in Paths1, NEW q \in Paths1, p # Empty
    PROVE  Rooted(p \o q) <=> Rooted(p)
<1>1. /\ p \in Seq(Strings) /\ q \in Seq(Strings)
      /\ Len(p) \in Nat /\ Len(p) >= 1 /\ Len(q) \in Nat /\ Len(q) >= 1
  BY DEF Paths1
<1>2. Len(p \o q) > 1 /\ (p \o q)[1] = p[1]
  BY <1>1
<1>3. ASSUME p[1] = Blank, Len(p) = 1 PROVE FALSE
  <2>1. Empty \in Seq(Strings) /\ Len(Empty) = 1 /\ Empty[1] = Blank
    <3>1. Empty \in Seq(Strings)
      BY EmptyType DEF Paths1
    <3>2. Len(Empty) = 1 /\ Empty[1] = Blank
      BY DEF Empty
    <3>3. QED BY <3>1, <3>2
  <2>2. \A i \in 1..Len(p) : p[i] = Empty[i]
    BY <1>3, <2>1
  <2>3. p = Empty
    BY <1>1, <1>3, <2>1, <2>2, SeqEqual
  <2>4. QED BY <2>3
<1>4. ASSUME p[1] = Blank PROVE Len(p) > 1
  <2>1. Len(p) # 1
    BY <1>3, <1>4
  <2>2. Len(p) \in Nat /\ Len(p) >= 1
    BY <1>1
  <2>3. QED BY <2>1, <2>2, MoreThanOne
<1>5. QED BY <1>2, <1>4, Zenon DEF Rooted

\* path.Clean leaves what a path stands for, if that has names.
LEMMA CleanPlace ==
    ASSUME NEW p \in Seq(Strings)
    PROVE  Clean(p) = IF Kept(p) # <<>> THEN PlaceOf(p)
                      ELSE IF Rooted(p) THEN Slash ELSE Dot
<1>1. <<>> \o Kept(p) = Kept(p)
  BY KeptType, ConcatEmptySeq
<1>2. QED BY <1>1 DEF Clean, PlaceOf, Lead

\* Joining a path and a relative one: what is kept of both, if there is
\* anything, ...
LEMMA JoinNames ==
    ASSUME NEW p \in Paths1, NEW q \in Paths1, ~Rooted(q),
           Kept(p) # <<>> \/ Kept(q) # <<>>
    PROVE  Join(p, q) = PlaceOf(p) \o Kept(q)
<1>1. /\ p \in Seq(Strings) /\ q \in Seq(Strings) /\ p # <<>> /\ q # <<>>
      /\ Kept(p) \in Seq(Strings) /\ Kept(q) \in Seq(Strings)
      /\ PlaceOf(p) \in Seq(Strings) /\ Lead(p) \in Seq(Strings)
  BY KeptType, PlaceType DEF Paths1
<1>2. CASE p = Empty
  <2>1. Kept(p) = <<>> /\ PlaceOf(p) = <<>>
    BY <1>2, KeptBlank, RootedEmpty, EmptySeq, ConcatEmptySeq DEF PlaceOf, Lead
  <2>2. q # Empty
    BY <2>1, KeptBlank
  <2>3. Join(p, q) = Clean(q) /\ Clean(q) = Kept(q)
    BY <1>2, <2>1, <2>2 DEF Join, Clean
  <2>4. QED BY <1>1, <2>1, <2>3, ConcatEmptySeq
<1>3. CASE p # Empty /\ q = Empty
  <2>1. Join(p, q) = Clean(p) /\ Kept(q) = <<>>
    BY <1>3, KeptBlank DEF Join
  <2>2. Clean(p) = PlaceOf(p)
    BY <1>1, <2>1, CleanPlace
  <2>3. QED BY <1>1, <2>1, <2>2, ConcatEmptySeq
<1>4. CASE p # Empty /\ q # Empty
  <2>1. Join(p, q) = Clean(p \o q)
    BY <1>4 DEF Join
  <2>2. p \o q \in Seq(Strings) /\ Kept(p \o q) = Kept(p) \o Kept(q)
    BY <1>1, KeptConcat, ConcatProperties
  <2>3. Kept(p \o q) # <<>>
    BY <1>1, <2>2, ConcatSimplifications
  <2>4. Rooted(p \o q) <=> Rooted(p)
    BY <1>4, RootedConcat
  <2>5. Clean(p \o q) = Lead(p) \o (Kept(p) \o Kept(q))
    BY <2>2, <2>3, <2>4, CleanPlace DEF PlaceOf, Lead
  <2>6. Lead(p) \o (Kept(p) \o Kept(q)) = PlaceOf(p) \o Kept(q)
    <3>1. Lead(p) \in Seq(Strings) /\ Kept(p) \in Seq(Strings) /\ Kept(q) \in Seq(Strings)
      BY <1>1
    <3>2. QED BY <3>1, ConcatAssociative DEF PlaceOf
  <2>7. QED BY <2>1, <2>5, <2>6
<1>5. QED BY <1>2, <1>3, <1>4

\* ... or else a path without names.
LEMMA JoinNone ==
    ASSUME NEW p \in Paths1, NEW q \in Paths1, ~Rooted(q),
           Kept(p) = <<>>, Kept(q) = <<>>
    PROVE  Join(p, q) \in IF Rooted(p) THEN {Slash} ELSE {Empty, Dot}
<1>1. p \in Seq(Strings) /\ q \in Seq(Strings) /\ p # <<>> /\ q # <<>>
  BY DEF Paths1
<1>2. CASE p = Empty
  BY <1>2, RootedEmpty DEF Join, Clean
<1>3. CASE p # Empty /\ q = Empty
  BY <1>3 DEF Join, Clean
<1>4. CASE p # Empty /\ q # Empty
  <2>1. Join(p, q) = Clean(p \o q)
    BY <1>4 DEF Join
  <2>2. Kept(p \o q) = <<>>
    BY <1>1, KeptConcat, EmptySeq, ConcatEmptySeq
  <2>3. Rooted(p \o q) <=> Rooted(p)
    BY <1>4, RootedConcat
  <2>4. QED BY <2>1, <2>2, <2>3 DEF Clean
<1>5. QED BY <1>2, <1>3, <1>4

\* So it stands for what both of them stand for.
LEMMA JoinPlace ==
    ASSUME NEW p \in Paths1, NEW q \in Paths1, ~Rooted(q)
    PROVE  /\ Join(p, q) \in Paths1
           /\ PlaceOf(Join(p, q)) = PlaceOf(p) \o Kept(q)
           /\ Kept(Join(p, q)) = Kept(p) \o Kept(q)
           /\ Rooted(Join(p, q)) <=> Rooted(p)
<1>1. /\ p \in Seq(Strings) /\ q \in Seq(Strings)
      /\ Kept(p) \in Seq(Strings) /\ Kept(q) \in Seq(Strings)
      /\ PlaceOf(p) \in Seq(Strings) /\ Lead(p) \in Seq(Strings)
  BY KeptType, PlaceType DEF Paths1
<1>2. CASE Kept(p) # <<>> \/ Kept(q) # <<>>
  <2> DEFINE k == Kept(p) \o Kept(q)
             j == Lead(p) \o k
  <2>1. k \in Seq(Strings) /\ k # <<>> /\ j \in Seq(Strings) /\ j # <<>>
    BY <1>1, <1>2, ConcatProperties, ConcatSimplifications
  <2>2. PlaceOf(p) \o Kept(q) = j
    BY <1>1, ConcatAssociative DEF PlaceOf
  <2>3. Join(p, q) = j
    BY <1>2, <2>2, JoinNames
  <2>4. Kept(k) = k /\ ~Rooted(k)
    <3>1. p \o q \in Seq(Strings) /\ Kept(p \o q) = k
      BY <1>1, KeptConcat, ConcatProperties
    <3>2. QED BY <3>1, KeptAgain
  <2>5. Kept(j) = k
    <3>1. Kept(j) = Kept(Lead(p)) \o k
      BY <1>1, <2>1, <2>4, KeptConcat
    <3>2. Kept(Lead(p)) = <<>>
      <4>1. <<>> \in Seq(Strings) /\ NamesAt(<<>>) = {}
        BY EmptySeq DEF NamesAt
      <4>2. Kept(<<>>) = <<>>
        BY <4>1, KeptNone
      <4>3. QED BY <4>2, KeptBlank DEF Lead
    <3>3. QED BY <2>1, <3>1, <3>2, ConcatEmptySeq
  <2>6. Rooted(j) <=> Rooted(p)
    <3>1. CASE Rooted(p)
      <4>1. j = <<Blank>> \o k
        BY <3>1 DEF Lead, Empty
      <4>2. Len(j) > 1 /\ j[1] = Blank
        BY <2>1, <4>1
      <4>3. QED BY <3>1, <4>2 DEF Rooted
    <3>2. CASE ~Rooted(p)
      <4>1. j = k
        BY <2>1, <3>2, ConcatEmptySeq DEF Lead
      <4>2. QED BY <2>4, <3>2, <4>1
    <3>3. QED BY <3>1, <3>2
  <2>7. PlaceOf(j) = j
    BY <2>5, <2>6 DEF PlaceOf, Lead
  <2> HIDE DEF j
  <2>8. QED BY <2>1, <2>2, <2>3, <2>5, <2>6, <2>7 DEF Paths1
<1>3. CASE Kept(p) = <<>> /\ Kept(q) = <<>>
  <2>1. Join(p, q) \in IF Rooted(p) THEN {Slash} ELSE {Empty, Dot}
    BY <1>3, JoinNone
  <2>2. Join(p, q) \in Paths1 /\ (Rooted(Join(p, q)) <=> Rooted(p))
    BY <2>1, EmptyType, RootedEmpty
  <2>3. Kept(Join(p, q)) = <<>> /\ Kept(p) \o Kept(q) = <<>>
    BY <1>3, <2>1, KeptBlank, EmptySeq, ConcatEmptySeq
  <2>4. PlaceOf(Join(p, q)) = PlaceOf(p)
    BY <1>3, <2>2, <2>3 DEF PlaceOf, Lead
  <2>5. QED BY <1>1, <1>3, <2>2, <2>3, <2>4, ConcatEmptySeq
<1>4. QED BY <1>2, <1>3

LEMMA PathsOfStrings ==
    ASSUME NEW p \in Seq(STRING)
    PROVE  p \in Seq(Strings)
  BY SeqMonotonic DEF Strings

\* A path of names stands for itself, and so does what is before its last name.
LEMMA PlainFacts ==
    ASSUME NEW p, IsPlain(p)
    PROVE  /\ p \in Paths1 /\ Kept(p) = p /\ ~Rooted(p) /\ Last(p) \in Segs
           /\ Dir(p) \in Paths1 /\ ~Rooted(Dir(p))
           /\ Base(p) \in Paths1 /\ ~Rooted(Base(p)) /\ Kept(Base(p)) = Base(p)
           /\ Base(p) # Dot /\ Base(p)[1] = Last(p)
           /\ p = Kept(Dir(p)) \o Base(p)
           /\ p # Dot /\ p # Empty
<1>1. p \in Seq(Strings) /\ p # <<>> /\ NamesAt(p) = DOMAIN p
  BY PathsOfStrings DEF IsPlain
<1>2. Len(p) \in Nat /\ Len(p) >= 1 /\ DOMAIN p = 1..Len(p)
  BY <1>1
<1>3. \A i \in 1..Len(p) : p[i] \in Segs
  BY <1>1, <1>2 DEF NamesAt, Segs
<1>4. Kept(p) = p /\ ~Rooted(p) /\ p \in Paths1
  BY <1>1, <1>2, <1>3, KeptPlain DEF Rooted, Segs, Paths1
<1>5. Last(p) \in Segs
  BY <1>2, <1>3 DEF Last
<1>6. /\ Base(p) \in Seq(Strings) /\ Len(Base(p)) = 1 /\ Base(p)[1] = Last(p)
      /\ Base(p) # <<>>
  <2>1. Last(p) \in Strings
    BY <1>5 DEF Segs
  <2>2. Base(p) \in Seq(Strings)
    BY <2>1, Singles DEF Base
  <2>3. QED BY <2>2 DEF Base
<1>7. Kept(Base(p)) = Base(p)
  <2>1. NamesAt(Base(p)) = DOMAIN Base(p)
    BY <1>5, <1>6 DEF NamesAt, Segs
  <2>2. QED BY <1>6, <2>1, KeptPlain
<1>8. ~Rooted(Base(p)) /\ Base(p) # Dot /\ Base(p) \in Paths1
  BY <1>5, <1>6 DEF Rooted, Dot, Segs, Paths1
<1>9. CASE Len(p) = 1
  <2>1. Dir(p) = Dot
    BY <1>9 DEF Dir
  <2>2. p = Base(p)
    BY <1>1, <1>6, <1>9, SeqEqual DEF Last
  <2>3. Kept(Dir(p)) \o Base(p) = Base(p)
    BY <1>6, <2>1, KeptBlank, ConcatEmptySeq
  <2>4. Dir(p) \in Paths1 /\ ~Rooted(Dir(p))
    BY <2>1, EmptyType, RootedEmpty
  <2>5. p # Empty
    BY <1>1, <1>4, KeptBlank
  <2>6. QED BY <1>4, <1>5, <1>7, <1>8, <1>6, <2>2, <2>3, <2>4, <2>5
<1>10. CASE Len(p) # 1
  <2>1. Dir(p) = SubSeq(p, 1, Len(p) - 1)
    BY <1>10 DEF Dir, Front
  <2>2. /\ Dir(p) \in Seq(Strings) /\ Len(Dir(p)) = Len(p) - 1
        /\ \A i \in 1..(Len(p) - 1) : Dir(p)[i] = p[i]
    <3>1. \A i \in 1..(Len(p) - 1) : p[i] \in Strings
      BY <1>2, <1>3 DEF Segs
    <3>2. QED BY <1>2, <1>10, <2>1, <3>1, SubSeqProperties
  <2>3. NamesAt(Dir(p)) = DOMAIN Dir(p)
    <3>1. \A i \in DOMAIN Dir(p) : Dir(p)[i] \in Segs
      BY <1>2, <1>3, <2>2
    <3>2. QED BY <3>1 DEF NamesAt, Segs
  <2>4. Kept(Dir(p)) = Dir(p) /\ ~Rooted(Dir(p)) /\ Dir(p) \in Paths1
    <3>1. Dir(p) # <<>>
      BY <1>2, <1>10, <2>2
    <3>2. Dir(p)[1] \in Segs
      BY <1>2, <1>3, <1>10, <2>2
    <3>3. QED BY <2>2, <2>3, <3>1, <3>2, KeptPlain DEF Rooted, Segs, Paths1
  <2>5. p = Dir(p) \o Base(p)
    <3>1. 1 \in 1..Len(p) /\ Len(p) \in 1..Len(p)
      BY <1>2
    <3>2. SubSeq(p, 1, Len(p)) = SubSeq(p, 1, Len(p) - 1) \o <<p[Len(p)]>>
      BY <1>1, <3>1, SubSeqRecursiveSecond
    <3>3. QED BY <1>1, <2>1, <3>2, SubSeqFull DEF Base, Last
  <2>6. p # Dot /\ p # Empty
    BY <1>10 DEF Dot, Empty
  <2>7. QED BY <1>4, <1>5, <1>6, <1>7, <1>8, <2>4, <2>5, <2>6
<1>11. QED BY <1>9, <1>10

-----------------------------------------------------------------------------
(* ObjectNames *)

ObjectTypes ==
    /\ kind \in Kinds
    /\ store \in SUBSET KeysOf(kind)
    /\ root \in Paths1

\* The root stands for the base.
RootInv ==
    /\ kind = "key" =>
          \E dir \in Dirs \cup {<<>>} : base = dir /\ root = Empty \o (dir \o Empty)
    /\ kind # "key" =>
          /\ base = PlaceOf(root)
          /\ Kept(root) = <<>> => root \in {Empty, Slash}
    /\ kind = "smp" => Rooted(root)

FileInv == file # NoFile => \E name \in ObjectCalls : file = Handle(name)

StoreInv == ObjectTypes /\ RootInv /\ FileInv

LEMMA NameFacts ==
    ASSUME NEW name \in ObjectCalls, name # Dot
    PROVE  IsPlain(name)
  BY ObjectAssumption

\* No object is called by a path without names.
LEMMA KeyFacts ==
    ASSUME ObjectTypes, NEW key \in store
    PROVE  /\ key \in Seq(Strings) /\ Len(key) \in Nat /\ Len(key) >= 1
           /\ key \notin {<<>>, Empty, Dot, Slash}
           /\ \A i \in DOMAIN key : key[i] # "." /\ (key[i] = Blank => i \in {1, Len(key)})
           /\ kind = "key" \/ Last(key) # Blank
<1>1. key \in Keys /\ (kind = "key" \/ Last(key) # Blank)
  BY DEF ObjectTypes, KeysOf
<1>2. /\ key \in Seq(STRING) /\ key \notin {<<>>, Empty, Slash}
      /\ DOMAIN key \ NamesAt(key) \subseteq {1, Len(key)}
      /\ \A i \in DOMAIN key : key[i] # "."
  BY <1>1, ObjectAssumption
<1>3. key \in Seq(Strings) /\ Len(key) \in Nat /\ Len(key) >= 1
  BY <1>2, PathsOfStrings
<1>4. key # Dot
  <2>1. 1 \in DOMAIN key
    BY <1>3
  <2>2. key[1] # "."
    BY <1>2, <2>1
  <2>3. QED BY <2>2 DEF Dot
<1>5. \A i \in DOMAIN key : key[i] = Blank => i \in {1, Len(key)}
  BY <1>2 DEF NamesAt
<1>6. QED BY <1>1, <1>2, <1>3, <1>4, <1>5

\* A listing by a prefix that ends with a slash has the keys below.
LEMMA ListedBelow ==
    ASSUME ObjectTypes, NEW at \in Seq(Strings)
    PROVE  Listed(at \o Empty) = KeysBelow(at)
<1>1. Empty \in Seq(Strings) /\ Len(Empty) = 1
  <2>1. Empty \in Seq(Strings)
    BY EmptyType DEF Paths1
  <2>2. Len(Empty) = 1
    BY DEF Empty
  <2>3. QED BY <2>1, <2>2
<1>2. CASE at = <<>>
  <2>1. at \o Empty = Empty
    BY <1>1, <1>2, ConcatEmptySeq
  <2>2. ASSUME NEW key \in store PROVE Len(key) > Len(at) /\ IsPrefix(at, key)
    <3>1. key \in Seq(Strings) /\ Len(key) \in Nat /\ Len(key) >= 1
      BY KeyFacts
    <3>2. Len(at) = 0 /\ SubSeq(at, 1, 0) = <<>> /\ SubSeq(key, 1, 0) = <<>>
      BY <1>2, SubSeqEmpty
    <3>3. QED BY <3>1, <3>2 DEF IsPrefix
  <2>3. QED BY <1>2, <2>1, <2>2 DEF Listed, KeysBelow
<1>3. CASE at # <<>>
  <2>1. Len(at) \in Nat /\ Len(at) >= 1
    BY <1>3
  <2>2. /\ at \o Empty \in Seq(Strings) /\ Len(at \o Empty) = Len(at) + 1
        /\ at \o Empty # Empty
    BY <1>1, <2>1, ConcatProperties
  <2>3. Front(at \o Empty) = at
    <3>1. Front(at \o Empty) = SubSeq(at \o Empty, 1, Len(at))
      BY <2>1, <2>2 DEF Front
    <3>2. SubSeq(at \o Empty, 1, Len(at)) = SubSeq(at, 1, Len(at))
      BY <1>1, <2>1, SubSeqOfConcat1
    <3>3. QED BY <3>1, <3>2, SubSeqFull
  <2>4. ASSUME NEW key \in store
        PROVE  HasPrefix(key, at \o Empty) <=> Len(key) > Len(at) /\ IsPrefix(at, key)
    <3>1. Len(key) \in Nat
      BY KeyFacts
    <3>2. QED BY <2>1, <2>2, <2>3, <3>1 DEF HasPrefix
  <2>5. QED BY <1>3, <2>2, <2>4 DEF Listed, KeysBelow
<1>4. QED BY <1>2, <1>3

-----------------------------------------------------------------------------
(* What a handle is about *)

\* The root and the name of a handle are together what it is about.
Means(h) ==
    /\ h.root \in Paths1 /\ h.name \in Paths1 /\ ~Rooted(h.name)
    /\ h.at = PlaceOf(h.root) \o Kept(h.name)

Nameless(h) == Kept(h.root) = <<>> /\ Kept(h.name) = <<>>

LEMMA LastIn ==
    /\ \A S : \A q \in Seq(S) : q # <<>> => Last(q) \in S
    /\ Last(Empty) = Blank
<1>1. ASSUME NEW S, NEW q \in Seq(S), q # <<>> PROVE Last(q) \in S
  BY <1>1 DEF Last
<1>2. Last(Empty) = Blank
  BY DEF Last, Empty
<1>3. QED BY <1>1, <1>2

LEMMA LastOfConcat ==
    ASSUME NEW S, NEW p \in Seq(S), NEW q \in Seq(S), q # <<>>
    PROVE  Last(p \o q) = Last(q) /\ p \o q # <<>>
<1>1. Len(p) \in Nat /\ Len(q) \in Nat /\ Len(q) >= 1 /\ Len(p \o q) = Len(p) + Len(q)
  BY ConcatProperties
<1>2. (p \o q)[Len(p) + Len(q)] = q[Len(q)]
  <2>1. /\ Len(p) + Len(q) \in 1..(Len(p) + Len(q))
        /\ ~(Len(p) + Len(q) <= Len(p))
        /\ (Len(p) + Len(q)) - Len(p) = Len(q)
    BY <1>1
  <2>2. QED BY <2>1, ConcatProperties
<1>3. QED BY <1>1, <1>2 DEF Last

\* The names of a handle are the end of the key that it is about.
LEMMA MeansFacts ==
    ASSUME NEW h, Means(h)
    PROVE  /\ h.at \in Seq(Strings)
           /\ ~Nameless(h) => h.at # <<>> /\ h.at # Empty /\ Last(h.at) \in Segs
           /\ Nameless(h) => h.at = Lead(h.root)
<1> DEFINE r == Kept(h.root)
           n == Kept(h.name)
           lead == Lead(h.root)
<1>1. /\ r \in Seq(Segs) /\ r \in Seq(Strings) /\ n \in Seq(Segs) /\ n \in Seq(Strings)
      /\ lead \in Seq(Strings) /\ PlaceOf(h.root) = lead \o r
      /\ PlaceOf(h.root) \in Seq(Strings)
  BY KeptType, PlaceType DEF Means, Paths1, PlaceOf
<1>2. h.at = PlaceOf(h.root) \o n /\ h.at \in Seq(Strings)
  BY <1>1, ConcatProperties DEF Means
<1>3. Nameless(h) <=> r = <<>> /\ n = <<>>
  BY DEF Nameless
<1> HIDE DEF r, n, lead
<1>4. CASE n # <<>>
  <2>1. Last(h.at) = Last(n) /\ h.at # <<>>
    <3>1. PlaceOf(h.root) \in Seq(Strings) /\ n \in Seq(Strings)
      BY <1>1
    <3>2. /\ Last(PlaceOf(h.root) \o n) = Last(n)
          /\ PlaceOf(h.root) \o n # <<>>
      BY <3>1, <1>4, LastOfConcat
    <3>3. QED BY <1>2, <3>2
  <2>2. Last(n) \in Segs
    BY <1>1, <1>4, LastIn
  <2>3. h.at # Empty
    BY <2>1, <2>2, LastIn DEF Segs
  <2>4. QED BY <1>2, <1>4, <1>3, <2>1, <2>2, <2>3
<1>5. CASE n = <<>> /\ r # <<>>
  <2>1. h.at = lead \o r
    BY <1>1, <1>2, <1>5, ConcatEmptySeq
  <2>2. Last(h.at) = Last(r) /\ h.at # <<>>
    BY <1>1, <1>5, <2>1, LastOfConcat
  <2>3. Last(r) \in Segs
    BY <1>1, <1>5, LastIn
  <2>4. h.at # Empty
    BY <2>2, <2>3, LastIn DEF Segs
  <2>5. QED BY <1>2, <1>5, <1>3, <2>2, <2>3, <2>4
<1>6. CASE n = <<>> /\ r = <<>>
  <2>1. h.at = lead
    BY <1>1, <1>2, <1>6, ConcatEmptySeq
  <2>2. QED BY <1>2, <1>6, <1>3, <2>1 DEF lead
<1>7. QED BY <1>4, <1>5, <1>6

\* What a handle asks its store for is the object that it is about; a handle
\* without names asks for none that there is.
LEMMA AddressIs ==
    ASSUME kind # "key", NEW h, Means(h)
    PROVE  IF Nameless(h) THEN /\ Address(h) \in {Empty, Dot, Slash}
                               /\ h.at \in {<<>>, Empty}
           ELSE Address(h) = h.at
<1>1. /\ h.root \in Paths1 /\ h.name \in Paths1 /\ ~Rooted(h.name)
      /\ h.at = PlaceOf(h.root) \o Kept(h.name)
  BY DEF Means
<1>2. Address(h) = Join(h.root, h.name)
  BY DEF Address
<1>3. CASE Nameless(h)
  <2>1. Address(h) \in IF Rooted(h.root) THEN {Slash} ELSE {Empty, Dot}
    BY <1>1, <1>2, <1>3, JoinNone DEF Nameless
  <2>2. h.at = Lead(h.root)
    BY <1>3, MeansFacts
  <2>3. QED BY <1>3, <2>1, <2>2 DEF Lead
<1>4. CASE ~Nameless(h)
  BY <1>1, <1>2, <1>4, JoinNames DEF Nameless
<1>5. QED BY <1>3, <1>4

\* The store has an object at the address of a handle if it has the one that the
\* handle is about.
LEMMA InStore ==
    ASSUME ObjectTypes, kind # "key", NEW h, Means(h)
    PROVE  Address(h) \in store <=> h.at \in store
<1>1. \A key \in store : key \notin {<<>>, Empty, Dot, Slash}
  BY KeyFacts
<1>2. QED BY <1>1, AddressIs

-----------------------------------------------------------------------------
(* What there is *)

\* The beginnings of paths, segment by segment.
LEMMA BeginsMeans ==
    ASSUME NEW s \in Seq(Strings), NEW t \in Seq(Strings)
    PROVE  IsPrefix(s, t) <=> Len(s) <= Len(t) /\ \A i \in 1..Len(s) : s[i] = t[i]
<1>1. Len(s) \in Nat /\ Len(t) \in Nat /\ SubSeq(s, 1, Len(s)) = s
  BY SubSeqFull
<1>2. ASSUME Len(s) <= Len(t)
      PROVE  /\ SubSeq(t, 1, Len(s)) \in Seq(Strings) /\ Len(SubSeq(t, 1, Len(s))) = Len(s)
             /\ \A i \in 1..Len(s) : SubSeq(t, 1, Len(s))[i] = t[i]
  BY <1>1, <1>2
<1>3. ASSUME Len(s) <= Len(t)
      PROVE  s = SubSeq(t, 1, Len(s)) <=> \A i \in 1..Len(s) : s[i] = t[i]
  <2>1. ASSUME \A i \in 1..Len(s) : s[i] = t[i] PROVE s = SubSeq(t, 1, Len(s))
    BY <1>2, <1>3, <2>1, SeqEqual
  <2>2. ASSUME s = SubSeq(t, 1, Len(s)) PROVE \A i \in 1..Len(s) : s[i] = t[i]
    BY <1>2, <1>3, <2>2
  <2>3. QED BY <2>1, <2>2
<1>4. QED BY <1>1, <1>3 DEF IsPrefix

\* A key begins with a path if its segments do, the last one too.
LEMMA BeginsWithLast ==
    ASSUME NEW at \in Paths1, NEW key \in Seq(Strings)
    PROVE  IsPrefix(at, key) <=> /\ IsPrefix(Front(at), key) /\ Len(key) >= Len(at)
                                 /\ key[Len(at)] = Last(at)
<1>1. /\ at \in Seq(Strings) /\ Len(at) \in Nat /\ Len(at) >= 1 /\ Len(key) \in Nat
  BY DEF Paths1
<1>2. /\ Front(at) \in Seq(Strings) /\ Len(Front(at)) = Len(at) - 1
      /\ \A i \in 1..(Len(at) - 1) : Front(at)[i] = at[i]
  <2>1. PICK k \in Nat : k = Len(at) - 1
    BY <1>1
  <2>2. Front(at) = SubSeq(at, 1, k) /\ \A i \in 1..k : at[i] \in Strings
    BY <1>1, <2>1 DEF Front
  <2>3. /\ SubSeq(at, 1, k) \in Seq(Strings) /\ Len(SubSeq(at, 1, k)) = k
        /\ \A i \in 1..k : SubSeq(at, 1, k)[i] = at[i]
    BY <1>1, <2>1, <2>2
  <2>4. QED BY <2>1, <2>2, <2>3
<1>3. IsPrefix(at, key) <=> Len(at) <= Len(key) /\ \A i \in 1..Len(at) : at[i] = key[i]
  BY <1>1, BeginsMeans
<1>4. IsPrefix(Front(at), key)
        <=> Len(at) - 1 <= Len(key) /\ \A i \in 1..(Len(at) - 1) : at[i] = key[i]
  BY <1>1, <1>2, BeginsMeans
<1>5. (\A i \in 1..Len(at) : at[i] = key[i])
        <=> (\A i \in 1..(Len(at) - 1) : at[i] = key[i]) /\ at[Len(at)] = key[Len(at)]
  <2>1. \A i \in 1..Len(at) : i \in 1..(Len(at) - 1) \/ i = Len(at)
    BY <1>1
  <2>2. Len(at) \in 1..Len(at) /\ \A i \in 1..(Len(at) - 1) : i \in 1..Len(at)
    BY <1>1
  <2>3. QED BY <2>1, <2>2
<1>6. QED BY <1>1, <1>3, <1>4, <1>5 DEF Last

\* A key is the path that it begins with, or below it.
LEMMA BeginsOrIs ==
    ASSUME NEW at \in Paths1, NEW key \in Seq(Strings), IsPrefix(at, key)
    PROVE  key = at \/ Len(key) > Len(at)
<1>1. at \in Seq(Strings) /\ Len(at) \in Nat /\ Len(key) \in Nat
  BY DEF Paths1
<1>2. Len(at) <= Len(key) /\ \A i \in 1..Len(at) : at[i] = key[i]
  BY <1>1, BeginsMeans
<1>3. ASSUME Len(key) = Len(at) PROVE key = at
  BY <1>1, <1>2, <1>3, SeqEqual
<1>4. QED BY <1>1, <1>2, <1>3

\* blobfs finds a directory if there is one, but for longer names.
LEMMA FoundIs ==
    ASSUME ObjectTypes, kind = "blob", NEW at \in Paths1, at \notin store,
           ~Neighbours(at)
    PROVE  Found(at) = IF KeysBelow(at) # {} THEN "dir" ELSE "not exist"
<1> DEFINE With(segs) == {key \in store : /\ IsPrefix(Front(at), key)
                                          /\ Len(key) >= Len(at)
                                          /\ key[Len(at)] \in segs}
           before == {pair[2] : pair \in {p \in Before : p[1] = Last(at)}}
           after  == {pair[2] : pair \in {p \in After : p[1] = Last(at)}}
<1>1. With(before) = {} /\ With(after) = {}
  <2>1. ASSUME NEW key \in store, Len(key) >= Len(at), key[Len(at)] \in before \cup after
        PROVE  FALSE
    <3>1. PICK pair \in Before \cup After : pair[1] = Last(at) /\ key[Len(at)] = pair[2]
      BY <2>1
    <3>2. Neighbours(at)
      BY <2>1, <3>1 DEF Neighbours, Paths1
    <3>3. QED BY <3>2
  <2>2. QED BY <2>1
<1>2. With({Last(at)}) = {key \in store : IsPrefix(at, key)}
  BY KeyFacts, BeginsWithLast
<1>3. \A key \in store : IsPrefix(at, key) => Len(key) > Len(at)
  BY KeyFacts, BeginsOrIs
<1>4. KeysBelow(at) = With({Last(at)})
  BY <1>2, <1>3 DEF KeysBelow, Paths1
<1>5. Len(at) \in Nat /\ \A key \in With({Last(at)}) : Len(key) # Len(at)
  <2>1. \A key \in store : Len(key) \in Nat
    BY KeyFacts
  <2>2. Len(at) \in Nat
    BY DEF Paths1
  <2>3. QED BY <1>2, <1>3, <2>1, <2>2
<1>6. Found(at) = LET first == IF With(before) # {} THEN With(before)
                               ELSE IF With({Last(at)}) # {} THEN With({Last(at)})
                               ELSE With(after) IN
                  IF first = {} THEN "not exist"
                  ELSE IF \E key \in first : Len(key) = Len(at) THEN "error" ELSE "dir"
  BY DEF Found
<1> HIDE DEF With, before, after
<1>7. QED BY <1>1, <1>4, <1>5, <1>6

\* A handle with names knows what it is about.
LEMMA InfoIs ==
    ASSUME ObjectTypes, kind # "key", NEW h, Means(h), ~Nameless(h),
           kind = "blob" => ~Neighbours(h.at)
    PROVE  InfoOf(h) = Truth(h.at)
<1>1. Address(h) = h.at
  BY AddressIs
<1>2. /\ h.at \in Paths1 /\ h.at \in Seq(Strings) /\ Last(h.at) # Blank
  BY MeansFacts DEF Paths1, Segs
<1>3. Listed(h.at \o Empty) = KeysBelow(h.at)
  BY <1>2, ListedBelow
<1>4. CASE h.at \in store
  BY <1>1, <1>4 DEF InfoOf, Truth
<1>5. CASE h.at \notin store /\ kind = "blob"
  BY <1>1, <1>2, <1>5, FoundIs DEF InfoOf, Truth
<1>6. CASE h.at \notin store /\ kind # "blob"
  BY <1>1, <1>2, <1>3, <1>6 DEF InfoOf, Truth
<1>7. QED BY <1>4, <1>5, <1>6

-----------------------------------------------------------------------------
(* The handles of names *)

LEMMA DotIs == Dir(Dot) = Dot /\ Base(Dot) = Dot
  BY DEF Dir, Base, Last, Dot

LEMMA PlaceOfNone == PlaceOf(Empty) = <<>> /\ PlaceOf(Dot) = <<>> /\ PlaceOf(Slash) = Empty
<1>1. Empty \in Seq(Strings) /\ <<>> \in Seq(Strings)
  BY EmptyType, EmptySeq DEF Paths1
<1>2. <<>> \o <<>> = <<>> /\ Empty \o <<>> = Empty
  BY <1>1, ConcatEmptySeq
<1>3. QED BY <1>2, KeptBlank, RootedEmpty DEF PlaceOf, Lead

\* The handle of a name is about what the name stands for.
LEMMA HandleMeans ==
    ASSUME StoreInv, kind # "key", NEW name \in ObjectCalls, ~Handle(name).dotted
    PROVE  LET h == Handle(name) IN
           /\ Means(h) /\ h.at = Where(name)
           /\ h.dot <=> name = Dot
           /\ Kept(h.root) = <<>> => h.root \in {Empty, Slash}
           /\ IF name = Dot THEN h.name = Empty
              ELSE h.name \notin {Empty, Dot} /\ Kept(h.name) # <<>>
           /\ Rooted(h.root) <=> Rooted(root)
<1> DEFINE h == Handle(name)
           j == Join(root, Dir(name))
<1>1. /\ root \in Paths1 /\ root \in Seq(Strings) /\ base = PlaceOf(root)
      /\ Kept(root) = <<>> => root \in {Empty, Slash}
  BY DEF StoreInv, ObjectTypes, RootInv, Paths1
<1>2. /\ h.root = TrimDot(j) /\ h.name = TrimDot(Base(name)) /\ h.at = Where(name)
      /\ h.dot <=> name = Dot
      /\ Last(name) \notin DOMAIN Visible /\ j[1] \notin DOMAIN Visible
  BY DEF Handle
<1>3. Dir(name) \in Paths1 /\ ~Rooted(Dir(name))
  BY DotIs, EmptyType, RootedEmpty, NameFacts, PlainFacts
<1>4. /\ j \in Paths1 /\ PlaceOf(j) = PlaceOf(root) \o Kept(Dir(name))
      /\ Kept(j) = Kept(root) \o Kept(Dir(name)) /\ (Rooted(j) <=> Rooted(root))
  BY <1>1, <1>3, JoinPlace
<1>5. h.root = IF j = Dot THEN Empty ELSE j
  BY <1>2 DEF TrimDot
<1>6. /\ h.root \in Paths1 /\ PlaceOf(h.root) = base \o Kept(Dir(name))
      /\ Rooted(h.root) <=> Rooted(root)
  BY <1>1, <1>4, <1>5, EmptyType, RootedEmpty, PlaceOfNone
<1>7. Kept(h.root) = <<>> => h.root \in {Empty, Slash}
  <2>1. SUFFICES ASSUME Kept(h.root) = <<>>, j # Dot PROVE j \in {Empty, Slash}
    BY <1>5
  <2>2. Kept(j) = <<>>
    BY <1>5, <2>1
  <2>3. Kept(root) = <<>> /\ Kept(Dir(name)) = <<>>
    <3>1. Kept(root) \in Seq(Strings) /\ Kept(Dir(name)) \in Seq(Strings)
      BY <1>1, <1>3, KeptType DEF Paths1
    <3>2. QED BY <1>4, <2>2, <3>1, ConcatSimplifications
  <2>4. j \in IF Rooted(root) THEN {Slash} ELSE {Empty, Dot}
    BY <1>1, <1>3, <2>3, JoinNone
  <2>5. QED BY <2>1, <2>4
<1>8. CASE name = Dot
  <2>1. h.name = Empty
    BY <1>2, <1>8, DotIs DEF TrimDot
  <2>2. h.at = base /\ Kept(h.name) = <<>> /\ Kept(Dir(name)) = <<>>
    BY <1>2, <1>8, <2>1, DotIs, KeptBlank DEF Where
  <2>3. PlaceOf(h.root) = base
    <3>1. base \in Seq(Strings)
      BY <1>1, PlaceType
    <3>2. QED BY <1>6, <2>2, <3>1, ConcatEmptySeq
  <2>4. PlaceOf(h.root) \o Kept(h.name) = h.at
    <3>1. PlaceOf(h.root) \in Seq(Strings)
      BY <1>6, PlaceType DEF Paths1
    <3>2. QED BY <2>2, <2>3, <3>1, ConcatEmptySeq
  <2>5. h.name \in Paths1 /\ ~Rooted(h.name)
    BY <2>1, EmptyType, RootedEmpty
  <2>6. Means(h)
    BY <1>6, <2>4, <2>5 DEF Means
  <2>7. QED BY <1>2, <1>6, <1>7, <1>8, <2>1, <2>6
<1>9. CASE name # Dot
  <2>1. /\ Base(name) \in Paths1 /\ ~Rooted(Base(name)) /\ Kept(Base(name)) = Base(name)
        /\ Base(name) # Dot /\ Base(name)[1] = Last(name) /\ Last(name) \in Segs
        /\ name = Kept(Dir(name)) \o Base(name)
    BY <1>9, NameFacts, PlainFacts
  <2>2. h.name = Base(name)
    BY <1>2, <2>1 DEF TrimDot
  <2>3. h.at = base \o name
    BY <1>2, <1>9 DEF Where
  <2>4. PlaceOf(h.root) \o Kept(h.name) = h.at
    <3>1. /\ base \in Seq(Strings) /\ Kept(Dir(name)) \in Seq(Strings)
          /\ Base(name) \in Seq(Strings)
      BY <1>1, <1>3, <2>1, PlaceType, KeptType DEF Paths1
    <3>2. (base \o Kept(Dir(name))) \o Base(name) = base \o (Kept(Dir(name)) \o Base(name))
      BY <3>1, ConcatAssociative
    <3>3. QED BY <1>6, <2>1, <2>2, <2>3, <3>2
  <2>5. Means(h)
    BY <1>6, <2>1, <2>2, <2>4 DEF Means
  <2>6. h.name \notin {Empty, Dot} /\ Kept(h.name) # <<>>
    <3>1. Base(name) # <<>> /\ Base(name)[1] # Blank
      BY <2>1 DEF Paths1, Segs
    <3>2. Base(name) # Empty
      BY <3>1 DEF Empty
    <3>3. QED BY <2>1, <2>2, <3>1, <3>2
  <2>7. QED BY <1>2, <1>6, <1>7, <1>9, <2>5, <2>6
<1>10. QED BY <1>8, <1>9

\* What ReadDir and ReadFile of a filesystem are about.
FSHandle(name) == [NoFile EXCEPT !.root = root, !.name = name, !.at = Where(name)]

LEMMA FSHandleMeans ==
    ASSUME StoreInv, kind # "key", NEW name \in ObjectCalls
    PROVE  /\ Means(FSHandle(name)) /\ FSHandle(name).at = Where(name)
           /\ FSHandle(name).root = root /\ FSHandle(name).name = name
           /\ FSHandle(name).dotted = FALSE
           /\ name # Dot => Kept(name) # <<>> /\ name # Empty
<1>1. /\ root \in Paths1 /\ base = PlaceOf(root) /\ base \in Seq(Strings)
  BY PlaceType DEF StoreInv, ObjectTypes, RootInv, Paths1
<1>2. /\ FSHandle(name).root = root /\ FSHandle(name).name = name
      /\ FSHandle(name).at = Where(name) /\ FSHandle(name).dotted = FALSE
  BY DEF FSHandle, NoFile
<1>3. CASE name = Dot
  <2>1. Where(name) = base /\ Kept(name) = <<>>
    BY <1>3, KeptBlank DEF Where
  <2>2. PlaceOf(root) \o Kept(name) = Where(name)
    BY <1>1, <2>1, ConcatEmptySeq
  <2>3. name \in Paths1 /\ ~Rooted(name)
    BY <1>3, EmptyType, RootedEmpty
  <2>4. QED BY <1>1, <1>2, <1>3, <2>2, <2>3 DEF Means
<1>4. CASE name # Dot
  <2>1. name \in Paths1 /\ ~Rooted(name) /\ Kept(name) = name /\ name # Empty
    BY <1>4, NameFacts, PlainFacts
  <2>2. Where(name) = base \o name
    BY <1>4 DEF Where
  <2>3. Kept(name) # <<>>
    BY <2>1 DEF Paths1
  <2>4. QED BY <1>1, <1>2, <2>1, <2>2, <2>3 DEF Means
<1>5. QED BY <1>3, <1>4

-----------------------------------------------------------------------------
(* The handles of consulfs *)

LEMMA FrontOfSlash ==
    ASSUME NEW p \in Seq(Strings)
    PROVE  Front(p \o Empty) = p /\ Last(p \o Empty) = Blank /\ Tail(Empty \o p) = p
<1>1. Empty \in Seq(Strings) /\ Len(Empty) = 1 /\ Empty # <<>>
  <2>1. Empty \in Seq(Strings) /\ Empty # <<>>
    BY EmptyType DEF Paths1
  <2>2. Len(Empty) = 1
    BY DEF Empty
  <2>3. QED BY <2>1, <2>2
<1>2. Last(p \o Empty) = Blank
  BY <1>1, LastOfConcat, LastIn
<1>3. Tail(Empty \o p) = p
  <2>1. Len(p) \in Nat
    OBVIOUS
  <2>2. /\ Empty \o p \in Seq(Strings) /\ Len(Empty \o p) = Len(Empty) + Len(p)
        /\ \A i \in 1..(Len(Empty) + Len(p)) :
              (Empty \o p)[i] = IF i <= Len(Empty) THEN Empty[i] ELSE p[i - Len(Empty)]
    BY <1>1, ConcatProperties
  <2>3. Empty \o p # <<>> /\ Len(Empty \o p) = Len(p) + 1
    BY <1>1, <2>1, <2>2
  <2>4. ASSUME NEW i \in 1..Len(p) PROVE (Empty \o p)[i + 1] = p[i]
    <3>1. i + 1 \in 1..(Len(Empty) + Len(p)) /\ ~(i + 1 <= Len(Empty))
          /\ (i + 1) - Len(Empty) = i
      BY <1>1, <2>1
    <3>2. QED BY <2>2, <3>1
  <2>5. /\ Tail(Empty \o p) \in Seq(Strings) /\ Len(Tail(Empty \o p)) = Len(p)
        /\ \A i \in 1..Len(p) : Tail(Empty \o p)[i] = (Empty \o p)[i + 1]
    BY <2>1, <2>2, <2>3, HeadTailProperties
  <2>6. QED BY <2>4, <2>5, SeqEqual
<1>4. CASE p = <<>>
  <2>1. p \o Empty = Empty
    BY <1>1, <1>4, ConcatEmptySeq
  <2>2. Front(Empty) = <<>>
    BY <1>1, SubSeqEmpty DEF Front
  <2>3. QED BY <1>2, <1>3, <1>4, <2>1, <2>2
<1>5. CASE p # <<>>
  <2>1. Len(p) \in Nat /\ Len(p) >= 1
    BY <1>5
  <2>2. Len(p \o Empty) = Len(p) + 1
    BY <1>1, ConcatProperties
  <2>3. Front(p \o Empty) = SubSeq(p \o Empty, 1, Len(p))
    BY <2>1, <2>2 DEF Front
  <2>4. SubSeq(p \o Empty, 1, Len(p)) = SubSeq(p, 1, Len(p))
    BY <1>1, <2>1, SubSeqOfConcat1
  <2>5. QED BY <1>2, <1>3, <2>3, <2>4, SubSeqFull
<1>6. QED BY <1>4, <1>5

\* The root has slashes around its directory.
LEMMA KeyAddress ==
    ASSUME StoreInv, kind = "key", NEW name \in ObjectCalls
    PROVE  /\ base \in Seq(Strings)
           /\ Tail(Resolve(root, name)) = IF name = Dot THEN base \o Empty ELSE base \o name
<1>1. PICK dir \in Dirs \cup {<<>>} : base = dir /\ root = Empty \o (dir \o Empty)
  BY DEF StoreInv, RootInv
<1>2. base \in Seq(Strings)
  <2>1. \A d \in Dirs : d \in Seq(Strings)
    BY ObjectAssumption, PlainFacts DEF Paths1
  <2>2. <<>> \in Seq(Strings)
    BY EmptySeq
  <2>3. QED BY <1>1, <2>1, <2>2
<1>3. Empty \in Seq(Strings)
  BY EmptyType DEF Paths1
<1>4. base \o Empty \in Seq(Strings) /\ Empty \o base \in Seq(Strings)
  BY <1>2, <1>3, ConcatProperties
<1>5. CASE name = Dot
  BY <1>1, <1>2, <1>4, <1>5, FrontOfSlash DEF Resolve
<1>6. CASE name # Dot
  <2>1. name \in Seq(Strings)
    BY <1>6, NameFacts, PlainFacts DEF Paths1
  <2>2. Resolve(root, name) = Front(root) \o name
    BY <1>6 DEF Resolve
  <2>3. Front(root) = Empty \o base
    <3>1. root = (Empty \o base) \o Empty
      BY <1>1, <1>2, <1>3, ConcatAssociative
    <3>2. QED BY <1>4, <3>1, FrontOfSlash
  <2>4. (Empty \o base) \o name = Empty \o (base \o name)
    BY <1>2, <1>3, <2>1, ConcatAssociative
  <2>5. base \o name \in Seq(Strings)
    BY <1>2, <2>1, ConcatProperties
  <2>6. QED BY <1>2, <1>6, <2>2, <2>3, <2>4, <2>5, FrontOfSlash
<1>7. QED BY <1>5, <1>6

\* A handle of consulfs asks for the key that its name stands for, but the root
\* for one with a slash at its end.
LEMMA KeyHandle ==
    ASSUME StoreInv, kind = "key", NEW name \in ObjectCalls
    PROVE  LET h == Handle(name) IN
           /\ h.at = Where(name) /\ h.at \in Seq(Strings)
           /\ h.dot = FALSE /\ h.dotted = FALSE
           /\ Address(h) = Tail(Resolve(root, name))
           /\ IF name = Dot THEN h.at = base /\ Address(h) = base \o Empty
              ELSE /\ h.at = base \o name /\ Address(h) = h.at
                   /\ h.at # base /\ h.at # <<>> /\ Last(h.at) # Blank
<1> DEFINE h == Handle(name)
<1>1. /\ h.root = Resolve(root, name) /\ h.at = Where(name)
      /\ h.dot = FALSE /\ h.dotted = FALSE
  BY DEF Handle
<1>2. Address(h) = Tail(Resolve(root, name))
  BY <1>1 DEF Address
<1>3. base \in Seq(Strings)
  BY KeyAddress
<1>4. CASE name = Dot
  BY <1>1, <1>2, <1>3, <1>4, KeyAddress DEF Where
<1>5. CASE name # Dot
  <2>1. name \in Seq(Strings) /\ name # <<>> /\ Last(name) \in Segs
    BY <1>5, NameFacts, PlainFacts DEF Paths1
  <2>2. h.at = base \o name /\ Address(h) = h.at
    BY <1>1, <1>2, <1>5, KeyAddress DEF Where
  <2>3. h.at \in Seq(Strings) /\ h.at # base
    BY <1>3, <2>1, <2>2, ConcatProperties, ConcatSimplifications
  <2>4. Last(h.at) = Last(name) /\ h.at # <<>>
    BY <1>3, <2>1, <2>2, LastOfConcat
  <2>5. QED BY <1>1, <1>2, <1>5, <2>1, <2>2, <2>3, <2>4 DEF Segs
<1>6. QED BY <1>4, <1>5

-----------------------------------------------------------------------------
(* The answers *)

\* The Stat of a handle, whichever the filesystem is.
LEMMA StatIs ==
    ASSUME StoreInv, NEW name \in ObjectCalls, ~Handle(name).dotted,
           ~Marked(Handle(name).at), ~Neighbours(Handle(name).at)
    PROVE  LET h == Handle(name) IN
           StatAnswer(h) = Truth(h.at) \/ (StatAnswer(h) = "dir" /\ h.dot)
<1> DEFINE h == Handle(name)
<1>1. CASE kind # "key" /\ h.dot
  BY <1>1 DEF StatAnswer
<1>2. CASE kind # "key" /\ ~h.dot
  <2>1. Means(h) /\ ~Nameless(h)
    BY <1>2, HandleMeans DEF Nameless
  <2>2. InfoOf(h) = Truth(h.at)
    BY <1>2, <2>1, InfoIs DEF StoreInv
  <2>3. QED BY <1>2, <2>2 DEF StatAnswer
<1>3. CASE kind = "key" /\ name = Dot
  <2>1. /\ h.at = base /\ Address(h) = base \o Empty /\ h.dot = FALSE
        /\ base \in Seq(Strings)
    BY <1>3, KeyHandle, KeyAddress
  <2>2. base \o Empty \notin store /\ Last(base \o Empty) = Blank
    BY <2>1, FrontOfSlash DEF Marked
  <2>3. Listed(base \o Empty) = KeysBelow(base)
    BY <2>1, ListedBelow DEF StoreInv
  <2>4. InfoOf(h) = IF KeysBelow(base) # {} THEN "dir" ELSE "not exist"
    BY <1>3, <2>1, <2>2, <2>3 DEF InfoOf
  <2>5. QED BY <1>3, <2>1, <2>4 DEF StatAnswer, Truth
<1>4. CASE kind = "key" /\ name # Dot
  <2>1. /\ h.at \in Seq(Strings) /\ Address(h) = h.at /\ h.at # base
        /\ Last(h.at) # Blank /\ h.dot = FALSE
    BY <1>4, KeyHandle
  <2>2. Listed(h.at \o Empty) = KeysBelow(h.at)
    BY <2>1, ListedBelow DEF StoreInv
  <2>3. InfoOf(h) = Truth(h.at)
    BY <1>4, <2>1, <2>2 DEF InfoOf, Truth
  <2>4. QED BY <2>1, <2>3 DEF StatAnswer
<1>5. QED BY <1>1, <1>2, <1>3, <1>4

LEMMA TruthIsFile ==
    ASSUME NEW at
    PROVE  Truth(at) = "file" <=> at \in store /\ ~(kind = "key" /\ at = base)
  BY DEF Truth

\* The Read of a handle.
LEMMA ReadIs ==
    ASSUME StoreInv, NEW name \in ObjectCalls, ~Handle(name).dotted,
           ~Marked(Handle(name).at)
    PROVE  LET h == Handle(name) IN
           Content(Address(h)) = "content" <=> Truth(h.at) = "file"
<1> DEFINE h == Handle(name)
<1>1. CASE kind # "key"
  <2>1. Address(h) \in store <=> h.at \in store
    BY <1>1, HandleMeans, InStore DEF StoreInv
  <2>2. QED BY <1>1, <2>1, TruthIsFile DEF Content
<1>2. CASE kind = "key" /\ name = Dot
  <2>1. h.at = base /\ Address(h) = base \o Empty
    BY <1>2, KeyHandle
  <2>2. base \o Empty \notin store
    BY <2>1 DEF Marked
  <2>3. QED BY <1>2, <2>1, <2>2, TruthIsFile DEF Content
<1>3. CASE kind = "key" /\ name # Dot
  <2>1. Address(h) = h.at /\ h.at # base
    BY <1>3, KeyHandle
  <2>2. QED BY <2>1, TruthIsFile DEF Content
<1>4. QED BY <1>1, <1>2, <1>3

\* The ReadFile of a filesystem.
LEMMA ReadFileIs ==
    ASSUME StoreInv, NEW name \in ObjectCalls, ~Marked(Where(name))
    PROVE  Content(ReadFileAddress(name)) = "content" <=> Truth(Where(name)) = "file"
<1>1. CASE kind # "key"
  <2>1. /\ Means(FSHandle(name)) /\ FSHandle(name).at = Where(name)
        /\ FSHandle(name).root = root /\ FSHandle(name).name = name
    BY <1>1, FSHandleMeans
  <2>2. ReadFileAddress(name) = Address(FSHandle(name))
    BY <1>1, <2>1 DEF ReadFileAddress, Address
  <2>3. ReadFileAddress(name) \in store <=> Where(name) \in store
    BY <1>1, <2>1, <2>2, InStore DEF StoreInv
  <2>4. QED BY <1>1, <2>3, TruthIsFile DEF Content
<1>2. CASE kind = "key" /\ name = Dot
  <2>1. Where(name) = base /\ ReadFileAddress(name) = base \o Empty
    BY <1>2, KeyAddress DEF Where, ReadFileAddress
  <2>2. base \o Empty \notin store
    BY <2>1 DEF Marked
  <2>3. QED BY <1>2, <2>1, <2>2, TruthIsFile DEF Content
<1>3. CASE kind = "key" /\ name # Dot
  <2>1. ReadFileAddress(name) = Where(name) /\ Where(name) # base
    BY <1>3, KeyHandle, KeyAddress DEF Where, ReadFileAddress
  <2>2. QED BY <2>1, TruthIsFile DEF Content
<1>4. QED BY <1>1, <1>2, <1>3

-----------------------------------------------------------------------------
(* Listings *)

\* The prefix that a handle lists is the directory that it is about, and a slash.
LEMMA PrefixIs ==
    ASSUME StoreInv, NEW name \in ObjectCalls, ~Handle(name).dotted,
           ~(kind = "sm" /\ AtRoot(Handle(name).at) /\ Handle(name).dot)
    PROVE  ListPrefix(Handle(name)) = Handle(name).at \o Empty
<1> DEFINE h == Handle(name)
<1>1. Empty = <<>> \o Empty /\ Slash = Empty \o Empty
  BY DEF Empty, Slash
<1>2. CASE kind # "key"
  <2>1. /\ Means(h) /\ (h.dot <=> name = Dot)
        /\ Kept(h.root) = <<>> => h.root \in {Empty, Slash}
        /\ IF name = Dot THEN h.name = Empty
           ELSE h.name \notin {Empty, Dot} /\ Kept(h.name) # <<>>
        /\ Rooted(h.root) <=> Rooted(root)
    BY <1>2, HandleMeans
  <2>2. CASE ~Nameless(h)
    <3>1. Address(h) = h.at /\ Last(h.at) # Blank
      BY <1>2, <2>1, <2>2, AddressIs, MeansFacts DEF Segs
    <3>2. h.root \in {Empty, Slash} => h.name \notin {Dot, Empty}
      BY <2>2, KeptBlank DEF Nameless
    <3>3. QED BY <1>2, <3>1, <3>2 DEF ListPrefix
  <2>3. CASE Nameless(h)
    <3>1. /\ h.root \in {Empty, Slash} /\ name = Dot /\ h.name = Empty /\ h.dot
          /\ h.at = Lead(h.root)
      BY <2>1, <2>3, MeansFacts DEF Nameless
    <3>2. h.at \o Empty = h.root /\ AtRoot(h.at)
      BY <1>1, <3>1, RootedEmpty DEF Lead, AtRoot
    <3>3. CASE kind = "smp"
      <4>1. h.root = Slash
        BY <2>1, <3>1, <3>3, RootedEmpty DEF StoreInv, RootInv
      <4>2. QED BY <3>1, <3>2, <3>3, <4>1 DEF ListPrefix
    <3>4. CASE kind = "blob"
      <4>1. Address(h) = h.root
        BY <3>1, <3>4, KeptBlank, RootedEmpty DEF Address, Join, Clean
      <4>2. Last(h.root) = Blank
        BY <1>1, <3>1, EmptyType, LastIn, FrontOfSlash DEF Paths1
      <4>3. QED BY <3>2, <3>4, <4>1, <4>2 DEF ListPrefix
    <3>5. kind \in {"sm", "smp", "blob"}
      BY <1>2 DEF StoreInv, ObjectTypes, Kinds
    <3>6. QED BY <3>1, <3>2, <3>3, <3>4, <3>5
  <2>4. QED BY <2>2, <2>3
<1>3. CASE kind = "key" /\ name = Dot
  <2>1. h.at = base /\ Address(h) = base \o Empty /\ Last(base \o Empty) = Blank
    BY <1>3, KeyHandle, KeyAddress, FrontOfSlash
  <2>2. QED BY <1>3, <2>1 DEF ListPrefix
<1>4. CASE kind = "key" /\ name # Dot
  <2>1. Address(h) = h.at /\ Last(h.at) # Blank
    BY <1>4, KeyHandle
  <2>2. QED BY <1>4, <2>1 DEF ListPrefix
<1>5. QED BY <1>2, <1>3, <1>4

\* The ReadDirs of awssmfs and awssmpfs ask for the same.
LEMMA FSPrefixIs ==
    ASSUME StoreInv, kind \in {"sm", "smp"}, NEW name \in ObjectCalls
    PROVE  ListPrefix(FSHandle(name)) = FSHandle(name).at \o Empty
<1> DEFINE h == FSHandle(name)
<1>1. Empty = <<>> \o Empty /\ Slash = Empty \o Empty
  BY DEF Empty, Slash
<1>2. /\ kind # "key" /\ Means(h) /\ h.root = root /\ h.name = name
      /\ name # Dot => Kept(name) # <<>> /\ name # Empty
      /\ Kept(root) = <<>> => root \in {Empty, Slash}
      /\ kind = "smp" => Rooted(root)
  BY FSHandleMeans DEF StoreInv, RootInv
<1>3. CASE ~Nameless(h)
  <2>1. Address(h) = h.at
    BY <1>2, <1>3, AddressIs
  <2>2. h.root \in {Empty, Slash} => h.name \notin {Dot, Empty}
    BY <1>3, KeptBlank DEF Nameless
  <2>3. QED BY <2>1, <2>2 DEF ListPrefix
<1>4. CASE Nameless(h)
  <2>1. name = Dot /\ root \in {Empty, Slash} /\ h.at = Lead(root)
    BY <1>2, <1>4, MeansFacts DEF Nameless
  <2>2. h.at \o Empty = root
    BY <1>1, <2>1, RootedEmpty DEF Lead
  <2>3. kind = "smp" => root = Slash
    BY <1>2, <2>1, RootedEmpty
  <2>4. QED BY <1>2, <2>1, <2>2, <2>3 DEF ListPrefix
<1>5. QED BY <1>3, <1>4

\* What is left of a key below a directory: the name of a child, and what is
\* below that.
LEMMA RestFacts ==
    ASSUME ObjectTypes, NEW at \in Seq(Strings), ~Marked(at), NEW key \in KeysBelow(at)
    PROVE  LET rest  == Rest(key, at \o Empty)
               name  == key[Len(at) + 1]
               child == at \o <<name>> IN
           /\ rest # Empty /\ rest[1] = name
           /\ Len(rest) > 1 => KeysBelow(child) # {}
           /\ ~(Len(rest) > 1) => Len(rest) = 1 /\ child \in store
           /\ kind # "key" => name \in Segs
<1> DEFINE rest == Rest(key, at \o Empty)
           name == key[Len(at) + 1]
           child == at \o <<name>>
<1>1. /\ key \in store /\ key \in Seq(Strings) /\ Len(key) \in Nat /\ Len(at) \in Nat
      /\ Len(key) > Len(at) /\ IsPrefix(at, key) /\ (at = <<>> => key[1] # Blank)
      /\ \A i \in DOMAIN key : key[i] # "." /\ (key[i] = Blank => i \in {1, Len(key)})
      /\ kind = "key" \/ Last(key) # Blank
  BY KeyFacts DEF KeysBelow
<1>2. rest = SubSeq(key, Len(at) + 1, Len(key))
  <2>1. CASE at = <<>>
    <3>1. at \o Empty = Empty
      <4>1. Empty \in Seq(Strings)
        BY EmptyType DEF Paths1
      <4>2. QED BY <2>1, <4>1, ConcatEmptySeq
    <3>2. Len(at) + 1 = 1
      BY <2>1
    <3>3. QED BY <1>1, <3>1, <3>2, SubSeqFull DEF Rest
  <2>2. CASE at # <<>>
    <3>1. Len(at \o Empty) = Len(at) + 1 /\ at \o Empty # Empty
      <4>1. Empty \in Seq(Strings) /\ Len(Empty) = 1 /\ Len(at) >= 1
        <5>1. Empty \in Seq(Strings)
          BY EmptyType DEF Paths1
        <5>2. Len(Empty) = 1
          BY DEF Empty
        <5>3. QED BY <2>2, <5>1, <5>2
      <4>2. Len(at \o Empty) = Len(at) + 1
        BY <4>1, ConcatProperties
      <4>3. QED BY <1>1, <4>1, <4>2
    <3>2. QED BY <3>1 DEF Rest
  <2>3. QED BY <2>1, <2>2
<1>3. /\ Len(rest) = Len(key) - Len(at) /\ rest[1] = name /\ name \in Strings
  <2>1. PICK m \in Nat : m = Len(at) + 1
    BY <1>1
  <2>2. \A i \in m..Len(key) : key[i] \in Strings
    BY <1>1, <2>1
  <2>3. /\ Len(SubSeq(key, m, Len(key))) = Len(key) - m + 1
        /\ \A i \in 1..(Len(key) - m + 1) : SubSeq(key, m, Len(key))[i] = key[m + i - 1]
    BY <1>1, <2>1, <2>2, SubSeqProperties
  <2>4. 1 \in 1..(Len(key) - m + 1) /\ m + 1 - 1 = m /\ m \in m..Len(key)
    BY <1>1, <2>1
  <2>5. SubSeq(key, m, Len(key))[1] = key[m] /\ key[m] \in Strings
    BY <2>2, <2>3, <2>4
  <2>6. QED BY <1>1, <1>2, <2>1, <2>3, <2>5
<1>4. /\ child \in Seq(Strings) /\ Len(child) = Len(at) + 1 /\ child # <<>>
      /\ IsPrefix(child, key)
  <2>1. <<name>> \in Seq(Strings) /\ Len(<<name>>) = 1 /\ <<name>>[1] = name
    BY <1>3, Singles
  <2>2. /\ child \in Seq(Strings) /\ Len(child) = Len(at) + 1
        /\ \A i \in 1..(Len(at) + 1) :
              child[i] = IF i <= Len(at) THEN at[i] ELSE <<name>>[i - Len(at)]
    BY <2>1, ConcatProperties
  <2>3. Len(at) <= Len(key) /\ \A i \in 1..Len(at) : at[i] = key[i]
    BY <1>1, BeginsMeans
  <2>4. ASSUME NEW i \in 1..(Len(at) + 1) PROVE child[i] = key[i]
    <3>1. CASE i <= Len(at)
      BY <1>1, <2>2, <2>3, <3>1
    <3>2. CASE i = Len(at) + 1
      <4>1. ~(i <= Len(at)) /\ i - Len(at) = 1
        BY <1>1, <3>2
      <4>2. child[i] = <<name>>[1]
        BY <2>2, <4>1
      <4>3. QED BY <2>1, <3>2, <4>2
    <3>3. QED BY <1>1, <3>1, <3>2
  <2>5. IsPrefix(child, key)
    <3>1. Len(child) <= Len(key)
      BY <1>1, <2>2
    <3>2. \A i \in 1..Len(child) : child[i] = key[i]
      BY <2>2, <2>4
    <3> HIDE DEF child
    <3>3. QED BY <1>1, <2>2, <3>1, <3>2, BeginsMeans
  <2>6. child # <<>>
    BY <1>1, <2>2
  <2>7. QED BY <2>2, <2>5, <2>6
<1> HIDE DEF child
<1>5. ASSUME Len(rest) > 1 PROVE KeysBelow(child) # {}
  <2>1. Len(key) > Len(child)
    BY <1>1, <1>3, <1>4, <1>5
  <2>2. key \in KeysBelow(child)
    BY <1>1, <1>4, <2>1 DEF KeysBelow
  <2>3. QED BY <2>2
<1>6. ASSUME ~(Len(rest) > 1) PROVE Len(rest) = 1 /\ child \in store
  <2>1. Len(rest) = 1 /\ Len(key) = Len(child)
    BY <1>1, <1>3, <1>4, <1>6
  <2>2. key = child
    BY <1>1, <1>4, <2>1, BeginsOrIs DEF Paths1
  <2>3. QED BY <1>1, <2>1, <2>2
<1>7. rest # Empty
  <2>1. SUFFICES ASSUME rest = Empty PROVE FALSE
    OBVIOUS
  <2>2. name = Blank /\ Len(rest) = 1
    BY <1>3, <2>1 DEF Empty
  <2>3. at \o Empty \in store
    <3>1. ~(Len(rest) > 1)
      BY <2>2
    <3>2. child \in store
      BY <1>6, <3>1
    <3>3. child = at \o Empty
      BY <2>2 DEF child, Empty
    <3>4. QED BY <3>2, <3>3
  <2>4. QED BY <2>3 DEF Marked
<1>8. ASSUME kind # "key" PROVE name \in Segs
  <2>1. PICK m \in Nat : m = Len(at) + 1
    BY <1>1
  <2>2. m \in DOMAIN key /\ key[m] # "." /\ (key[m] = Blank => m \in {1, Len(key)})
    BY <1>1, <2>1
  <2>3. m = 1 => at = <<>>
    BY <1>1, <2>1
  <2>4. key[m] # Blank
    BY <1>1, <1>8, <2>2, <2>3 DEF Last
  <2>5. QED BY <1>3, <2>1, <2>2, <2>4 DEF Segs
<1>9. QED BY <1>3, <1>5, <1>6, <1>7, <1>8 DEF child

\* A listing that is right: Lists says of an answer that it has one, or that
\* there is nothing.
Good(entries, at) ==
    /\ {entry.name : entry \in entries} = NextNames(at)
    /\ \A entry \in entries :
          IF entry.dir THEN KeysBelow(at \o <<entry.name>>) # {}
          ELSE at \o <<entry.name>> \in store

LEMMA EntryIs ==
    ASSUME NEW name, NEW dir
    PROVE  DirEntry(name, dir).name = name /\ DirEntry(name, dir).dir = dir
  BY DEF DirEntry

\* blobfs and consulfs.
LEMMA DelimitedAre ==
    ASSUME ObjectTypes, NEW at \in Seq(Strings), ~Marked(at)
    PROVE  Good(DelimitedEntries(at \o Empty, KeysBelow(at)), at)
<1> DEFINE prefix == at \o Empty
           Of(key) == DirEntry(key[Len(at) + 1], Len(Rest(key, prefix)) > 1)
<1>1. DelimitedEntries(prefix, KeysBelow(at)) = {Of(key) : key \in KeysBelow(at)}
  <2>1. ASSUME NEW key \in KeysBelow(at)
        PROVE  Rest(key, prefix) # Empty /\ Rest(key, prefix)[1] = key[Len(at) + 1]
    BY RestFacts
  <2>2. QED BY <2>1 DEF DelimitedEntries
<1>2. \A key \in KeysBelow(at) : Of(key).name = key[Len(at) + 1]
  BY EntryIs
<1>3. \A key \in KeysBelow(at) : Of(key).dir = (Len(Rest(key, prefix)) > 1)
  BY EntryIs
<1>4. \A key \in KeysBelow(at) :
         /\ Len(Rest(key, prefix)) > 1 => KeysBelow(at \o <<key[Len(at) + 1]>>) # {}
         /\ ~(Len(Rest(key, prefix)) > 1) => at \o <<key[Len(at) + 1]>> \in store
  BY RestFacts
<1> HIDE DEF Of, prefix
<1>5. {entry.name : entry \in {Of(key) : key \in KeysBelow(at)}} = NextNames(at)
  BY <1>2 DEF NextNames
<1>6. ASSUME NEW entry \in {Of(key) : key \in KeysBelow(at)}
      PROVE  IF entry.dir THEN KeysBelow(at \o <<entry.name>>) # {}
             ELSE at \o <<entry.name>> \in store
  <2>1. PICK key \in KeysBelow(at) : entry = Of(key)
    BY <1>6
  <2>2. entry.name = key[Len(at) + 1] /\ entry.dir = (Len(Rest(key, prefix)) > 1)
    BY <1>2, <1>3, <2>1
  <2>3. QED BY <1>4, <2>2
<1>7. QED BY <1>1, <1>5, <1>6 DEF Good, prefix

\* The Stat of the child of a directory.
LEMMA ChildIs ==
    ASSUME ObjectTypes, kind \in {"sm", "smp"}, NEW h, Means(h), NEW name \in Segs,
           NEW c, c.root = Join(h.root, h.name), c.name = <<name>>
    PROVE  InfoOf(c) = Truth(h.at \o <<name>>)
<1> DEFINE d == [root |-> Join(h.root, h.name), name |-> <<name>>, at |-> h.at \o <<name>>]
<1>1. /\ h.root \in Paths1 /\ h.name \in Paths1 /\ ~Rooted(h.name)
      /\ h.at = PlaceOf(h.root) \o Kept(h.name)
  BY DEF Means
<1>2. /\ Join(h.root, h.name) \in Paths1
      /\ PlaceOf(Join(h.root, h.name)) = h.at
  BY <1>1, JoinPlace
<1>3. /\ <<name>> \in Seq(Strings) /\ <<name>> \in Paths1 /\ ~Rooted(<<name>>)
      /\ Kept(<<name>>) = <<name>> /\ <<name>> # <<>>
  <2>1. name \in Strings /\ name \notin {Blank, "."}
    BY DEF Segs
  <2>2. <<name>> \in Seq(Strings)
    BY <2>1, Singles
  <2>3. Len(<<name>>) = 1 /\ <<name>>[1] = name /\ <<name>> # <<>>
    OBVIOUS
  <2>4. NamesAt(<<name>>) = DOMAIN <<name>>
    BY <2>1, <2>3 DEF NamesAt
  <2>5. Kept(<<name>>) = <<name>>
    BY <2>2, <2>4, KeptPlain
  <2>6. ~Rooted(<<name>>)
    BY <2>3 DEF Rooted
  <2>7. QED BY <2>2, <2>3, <2>5, <2>6 DEF Paths1
<1>4. d.root = Join(h.root, h.name) /\ d.name = <<name>> /\ d.at = h.at \o <<name>>
  OBVIOUS
<1> HIDE DEF d
<1>5. Means(d) /\ ~Nameless(d)
  BY <1>2, <1>3, <1>4 DEF Means, Nameless
<1>6. InfoOf(d) = Truth(d.at)
  BY <1>5, InfoIs
<1>7. Address(c) = Address(d)
  BY <1>4 DEF Address
<1>8. InfoOf(c) = InfoOf(d)
  BY <1>7 DEF InfoOf
<1>9. QED BY <1>4, <1>6, <1>8

LEMMA WithRoot ==
    ASSUME NEW p, NEW q
    PROVE  LET c == [NoFile EXCEPT !.root = p, !.name = q] IN c.root = p /\ c.name = q
  BY DEF NoFile

ChildHandle(h, name) ==
    [NoFile EXCEPT !.root = Join(h.root, h.name), !.name = <<name>>]

LEMMA ChildIsHere ==
    ASSUME ObjectTypes, kind \in {"sm", "smp"}, NEW h, Means(h), NEW name \in Segs
    PROVE  InfoOf(ChildHandle(h, name)) = Truth(h.at \o <<name>>)
<1>1. /\ ChildHandle(h, name).root = Join(h.root, h.name)
      /\ ChildHandle(h, name).name = <<name>>
  BY WithRoot DEF ChildHandle
<1>2. QED BY <1>1, ChildIs

LEMMA ChildNames ==
    ASSUME ObjectTypes, kind \in {"sm", "smp"}, NEW at \in Seq(Strings), ~Marked(at)
    PROVE  \A key \in KeysBelow(at) :
              /\ Rest(key, at \o Empty)[1] = key[Len(at) + 1]
              /\ Rest(key, at \o Empty)[1] \in Segs
              /\ Len(Rest(key, at \o Empty)) > 1 =>
                    KeysBelow(at \o <<Rest(key, at \o Empty)[1]>>) # {}
              /\ ~(Len(Rest(key, at \o Empty)) > 1) =>
                    /\ Len(Rest(key, at \o Empty)) = 1
                    /\ at \o <<Rest(key, at \o Empty)[1]>> \in store
<1>1. kind # "key"
  OBVIOUS
<1>2. ASSUME NEW key \in KeysBelow(at)
      PROVE  /\ Rest(key, at \o Empty)[1] = key[Len(at) + 1]
             /\ Rest(key, at \o Empty)[1] \in Segs
  BY <1>1, RestFacts
<1>3. ASSUME NEW key \in KeysBelow(at)
      PROVE  /\ Len(Rest(key, at \o Empty)) > 1 =>
                    KeysBelow(at \o <<key[Len(at) + 1]>>) # {}
             /\ ~(Len(Rest(key, at \o Empty)) > 1) =>
                    /\ Len(Rest(key, at \o Empty)) = 1
                    /\ at \o <<key[Len(at) + 1]>> \in store
  BY RestFacts
<1>4. QED BY <1>2, <1>3

\* awssmfs and awssmpfs.
LEMMA ChildrenAre ==
    ASSUME ObjectTypes, kind \in {"sm", "smp"}, NEW h, Means(h), ~Marked(h.at)
    PROVE  /\ \A entries \in ChildEntries(h, h.at \o Empty, KeysBelow(h.at)) :
                 Good(entries, h.at)
           /\ ChildEntries(h, h.at \o Empty, KeysBelow(h.at)) # {}
<1> DEFINE at == h.at
           keys == KeysBelow(at)
           R(key) == Rest(key, at \o Empty)
           names == {R(key)[1] : key \in keys}
           nested == {R(key)[1] : key \in {k \in keys : Len(R(k)) > 1}}
           plain == {R(key)[1] : key \in {k \in keys : Len(R(k)) = 1}}
           Child(name) == ChildHandle(h, name)
           Allowed == {chosen \in SUBSET nested :
                         /\ nested \ plain \subseteq chosen
                         /\ \A name \in names \ chosen : InfoOf(Child(name)) # "not exist"}
           Made(asDir) == {DirEntry(name, name \in asDir \/ InfoOf(Child(name)) = "dir") :
                             name \in names}
<1>1. ChildEntries(h, at \o Empty, keys) = {Made(asDir) : asDir \in Allowed}
  BY DEF ChildEntries, ChildHandle
<1>2. at \in Seq(Strings)
  BY MeansFacts
<1>3. \A key \in keys :
         /\ R(key)[1] = key[Len(at) + 1] /\ R(key)[1] \in Segs
         /\ Len(R(key)) > 1 => KeysBelow(at \o <<R(key)[1]>>) # {}
         /\ ~(Len(R(key)) > 1) => Len(R(key)) = 1 /\ at \o <<R(key)[1]>> \in store
  BY <1>2, ChildNames
<1>4. names = NextNames(at)
  <2>1. names = {key[Len(at) + 1] : key \in keys}
    BY <1>3
  <2>2. QED BY <2>1 DEF NextNames
<1>5. \A name \in nested : KeysBelow(at \o <<name>>) # {}
  BY <1>3
<1>6. \A name \in plain : at \o <<name>> \in store
  <2>1. \A key \in keys : Len(R(key)) = 1 => ~(Len(R(key)) > 1)
    OBVIOUS
  <2>2. QED BY <1>3, <2>1
<1>7. names \subseteq nested \cup plain
  BY <1>3
<1>8. \A name \in names : name \in Segs
  BY <1>3
<1> HIDE DEF names, nested, plain, keys
<1>9. \A name \in names : InfoOf(Child(name)) = Truth(at \o <<name>>)
  <2>1. ASSUME NEW name \in names PROVE InfoOf(Child(name)) = Truth(at \o <<name>>)
    <3>1. name \in Segs
      BY <1>8
    <3>2. QED BY <3>1, ChildIsHere
  <2>2. QED BY <2>1
<1> HIDE DEF Child
<1>10. ASSUME NEW asDir \in Allowed PROVE Good(Made(asDir), at)
  <2> DEFINE dir(name) == name \in asDir \/ InfoOf(Child(name)) = "dir"
             E(name) == DirEntry(name, dir(name))
  <2>1. Made(asDir) = {E(name) : name \in names}
    OBVIOUS
  <2>2. ASSUME NEW name PROVE E(name).name = name /\ E(name).dir = dir(name)
    BY EntryIs, Zenon
  <2>3. \A name : E(name).name = name
    BY <2>2, Zenon
  <2>4. asDir \subseteq nested /\ nested \ plain \subseteq asDir
    BY <1>10, Zenon
  <2> HIDE DEF E, Made, Allowed
  <2>5. {entry.name : entry \in Made(asDir)} = names
    BY <2>1, <2>3
  <2>6. ASSUME NEW entry \in Made(asDir)
        PROVE  IF entry.dir THEN KeysBelow(at \o <<entry.name>>) # {}
               ELSE at \o <<entry.name>> \in store
    <3>1. PICK name \in names : entry = E(name)
      BY <2>1, <2>6
    <3>2. entry.name = name /\ entry.dir = dir(name)
      BY <2>2, <3>1, Zenon
    <3>3. CASE name \in asDir
      <4>1. name \in nested
        BY <2>4, <3>3
      <4>2. QED BY <1>5, <3>2, <3>3, <4>1
    <3>4. CASE name \notin asDir /\ InfoOf(Child(name)) = "dir"
      <4>1. Truth(at \o <<name>>) = "dir"
        BY <1>9, <3>4
      <4>2. KeysBelow(at \o <<name>>) # {}
        BY <4>1 DEF Truth
      <4>3. QED BY <3>2, <3>4, <4>2
    <3>5. CASE name \notin asDir /\ InfoOf(Child(name)) # "dir"
      <4>1. name \in plain
        BY <1>7, <2>4, <3>5
      <4>2. QED BY <1>6, <3>2, <3>5, <4>1
    <3>6. QED BY <3>3, <3>4, <3>5
  <2>7. QED BY <1>4, <2>5, <2>6 DEF Good
<1>11. nested \in Allowed
  <2>1. ASSUME NEW name \in names \ nested PROVE InfoOf(Child(name)) # "not exist"
    <3>1. at \o <<name>> \in store
      BY <1>6, <1>7, <2>1
    <3>2. Truth(at \o <<name>>) = "file"
      BY <3>1 DEF Truth
    <3>3. QED BY <1>9, <2>1, <3>2
  <2>2. QED BY <2>1
<1> HIDE DEF Allowed, Made
<1>12. QED BY <1>1, <1>10, <1>11 DEF keys

-----------------------------------------------------------------------------
(* What a call says *)

LEMMA RepliedIs ==
    ASSUME NEW op, NEW at, NEW dotted, NEW is
    PROVE  /\ Replied(op, at, dotted, is).op = op /\ Replied(op, at, dotted, is).at = at
           /\ Replied(op, at, dotted, is).dotted = dotted
           /\ Replied(op, at, dotted, is).is = is
  BY DEF Replied

Listing(h, entries) ==
    [Replied("ReadDir", h.at, h.dotted, "listing") EXCEPT !.entries = entries]

LEMMA ListingIs ==
    ASSUME NEW h, NEW found
    PROVE  /\ Listing(h, found).op = "ReadDir" /\ Listing(h, found).at = h.at
           /\ Listing(h, found).dotted = h.dotted
           /\ Listing(h, found).is = "listing" /\ Listing(h, found).entries = found
  BY DEF Listing, Replied

\* The three ends of a listing.
LEMMA ListFileCases ==
    ASSUME NEW h, ListFile(h)
    PROVE  \/ /\ Listed(ListPrefix(h)) = {}
              /\ said' = Replied("ReadDir", h.at, h.dotted, "not exist")
           \/ \E entries \in Listings(h) : said' = Listing(h, entries)
           \/ /\ Listings(h) = {}
              /\ said' = Replied("ReadDir", h.at, h.dotted, "error")
  BY Zenon DEF ListFile, Listing

LEMMA ListFileSays ==
    ASSUME NEW h, ListFile(h)
    PROVE  said'.op = "ReadDir" /\ said'.at = h.at /\ said'.dotted = h.dotted
<1>1. CASE said' = Replied("ReadDir", h.at, h.dotted, "not exist")
  BY <1>1, Zenon DEF Replied
<1>2. CASE said' = Replied("ReadDir", h.at, h.dotted, "error")
  BY <1>2, Zenon DEF Replied
<1>3. CASE \E entries \in Listings(h) : said' = Listing(h, entries)
  BY <1>3, ListingIs
<1>4. QED BY <1>1, <1>2, <1>3, ListFileCases

\* A listing by the right prefix is right.
LEMMA ListFileIs ==
    ASSUME ObjectTypes, NEW h, ListFile(h), ~Marked(h.at), h.at \in Seq(Strings),
           ListPrefix(h) = h.at \o Empty, kind \in {"sm", "smp"} => Means(h)
    PROVE  IF said'.is = "listing" THEN Good(said'.entries, h.at)
           ELSE said'.is = "not exist" /\ KeysBelow(h.at) = {}
<1>1. Listed(ListPrefix(h)) = KeysBelow(h.at)
  BY ListedBelow
<1>2. Listings(h) # {} /\ \A entries \in Listings(h) : Good(entries, h.at)
  <2>1. CASE kind \in {"sm", "smp"}
    <3>1. Listings(h) = ChildEntries(h, h.at \o Empty, KeysBelow(h.at))
      BY <1>1, <2>1 DEF Listings
    <3>2. QED BY <2>1, <3>1, ChildrenAre
  <2>2. CASE kind \notin {"sm", "smp"}
    <3>1. Listings(h) = {DelimitedEntries(h.at \o Empty, KeysBelow(h.at))}
      BY <1>1, <2>2 DEF Listings
    <3>2. QED BY <3>1, DelimitedAre
  <2>3. QED BY <2>1, <2>2
<1>3. CASE /\ Listed(ListPrefix(h)) = {}
           /\ said' = Replied("ReadDir", h.at, h.dotted, "not exist")
  <2>1. said'.is = "not exist"
    BY <1>3, Zenon DEF Replied
  <2>2. QED BY <1>1, <1>3, <2>1
<1>4. CASE \E entries \in Listings(h) : said' = Listing(h, entries)
  <2>1. PICK entries \in Listings(h) : said' = Listing(h, entries)
    BY <1>4
  <2>2. Listing(h, entries).is = "listing" /\ Listing(h, entries).entries = entries
    BY ListingIs
  <2>3. Good(entries, h.at)
    BY <1>2
  <2>4. said'.is = "listing" /\ said'.entries = entries
    BY <2>1, <2>2
  <2>5. QED BY <2>3, <2>4
<1>5. QED BY <1>2, <1>3, <1>4, ListFileCases

\* ObjectsAgree and ObjectsListed of an answer and a handle.
AgreesOn(s, f) ==
    /\ s.op = "Stat" /\ ~s.dotted /\ ~Marked(s.at) /\ ~Neighbours(s.at) =>
          s.is = Truth(s.at) \/ (s.is = "dir" /\ f.dot)
    /\ s.op = "Read" /\ ~s.dotted /\ ~Marked(s.at) =>
          (s.is = "content" <=> Truth(s.at) = "file")
    /\ s.op = "ReadFile" =>
          /\ Marked(s.at) \/ (s.is = "content" <=> Truth(s.at) = "file")
          /\ s.is = "nil dereference" => kind = "key"

ListsIn(s, f) ==
    s.op = "ReadDir" /\ ~s.dotted /\ ~Marked(s.at) =>
       \/ IF s.is = "listing" THEN Good(s.entries, s.at)
          ELSE s.is = "not exist" /\ KeysBelow(s.at) = {}
       \/ kind = "sm" /\ AtRoot(s.at) /\ f.dot

LEMMA SameNow ==
    /\ ObjectsAgree <=> AgreesOn(said, file)
    /\ ObjectsListed <=> ListsIn(said, file)
<1>1. ObjectsAgree <=> AgreesOn(said, file)
  BY Zenon DEF ObjectsAgree, AgreesOn
<1>2. ObjectsListed <=> ListsIn(said, file)
  BY Zenon DEF ObjectsListed, ListsIn, Lists, Good
<1>3. QED BY <1>1, <1>2

LEMMA SameStore ==
    ASSUME UNCHANGED <<kind, store, base>>, NEW at
    PROVE  /\ KeysBelow(at)' = KeysBelow(at) /\ Truth(at)' = Truth(at)
           /\ Marked(at)' = Marked(at) /\ Neighbours(at)' = Neighbours(at)
           /\ NextNames(at)' = NextNames(at)
  BY DEF KeysBelow, Truth, Marked, Neighbours, NextNames

LEMMA SameThen ==
    ASSUME UNCHANGED <<kind, store, base>>
    PROVE  /\ AgreesOn(said', file') => ObjectsAgree'
           /\ ListsIn(said', file') => ObjectsListed'
<1>1. Truth(said.at)' = Truth(said'.at)
  BY DEF Truth, KeysBelow
<1>2. Marked(said.at)' = Marked(said'.at)
  BY DEF Marked
<1>3. Neighbours(said.at)' = Neighbours(said'.at)
  BY DEF Neighbours
<1>4. KeysBelow(said.at)' = KeysBelow(said'.at)
  BY DEF KeysBelow
<1>5. NextNames(said.at)' = NextNames(said'.at)
  BY DEF NextNames, KeysBelow
<1>6. ASSUME NEW name
      PROVE  KeysBelow(said.at \o <<name>>)' = KeysBelow(said'.at \o <<name>>)
  BY DEF KeysBelow
<1>7. AgreesOn(said', file') => ObjectsAgree'
  BY <1>1, <1>2, <1>3, Zenon DEF ObjectsAgree, AgreesOn
<1>8. Lists(said.at)' <=> IF said'.is = "listing" THEN Good(said'.entries, said'.at)
                          ELSE said'.is = "not exist" /\ KeysBelow(said'.at) = {}
  BY <1>4, <1>5, <1>6 DEF Lists, Good
<1>9. ListsIn(said', file') => ObjectsListed'
  BY <1>2, <1>8, Zenon DEF ObjectsListed, ListsIn
<1>10. QED BY <1>7, <1>9

-----------------------------------------------------------------------------
(* The invariant *)

\* What the URLs of a directory have as their path.
LEMMA DirFacts ==
    ASSUME NEW dir \in Dirs
    PROVE  /\ dir \in Seq(Strings) /\ dir # <<>> /\ dir \in Paths1 /\ Kept(dir) = dir
           /\ dir \o Empty \in Paths1 /\ Kept(dir \o Empty) = dir
           /\ Empty \o dir \in Paths1 /\ Kept(Empty \o dir) = dir
           /\ Empty \o (dir \o Empty) \in Paths1 /\ Kept(Empty \o (dir \o Empty)) = dir
           /\ Rooted(Empty \o (dir \o Empty))
<1>1. dir \in Seq(Strings) /\ dir # <<>> /\ dir \in Paths1 /\ Kept(dir) = dir
  BY ObjectAssumption, PlainFacts DEF Paths1
<1>2. Empty \in Seq(Strings) /\ Empty # <<>> /\ Kept(Empty) = <<>>
  BY EmptyType, KeptBlank DEF Paths1
<1>3. dir \o Empty \in Paths1 /\ dir \o Empty \in Seq(Strings)
  BY <1>1, <1>2, ConcatProperties, LastOfConcat DEF Paths1
<1>4. Kept(dir \o Empty) = dir
  BY <1>1, <1>2, KeptConcat, ConcatEmptySeq
<1>5. Empty \o dir \in Paths1
  BY <1>1, <1>2, ConcatProperties, LastOfConcat DEF Paths1
<1>6. Kept(Empty \o dir) = dir
  BY <1>1, <1>2, KeptConcat, ConcatEmptySeq
<1>7. Empty \o (dir \o Empty) \in Paths1
  <2>1. dir \o Empty # <<>>
    BY <1>3 DEF Paths1
  <2>2. QED BY <1>2, <1>3, <2>1, ConcatProperties, LastOfConcat DEF Paths1
<1>8. Kept(Empty \o (dir \o Empty)) = dir
  <2>1. Kept(Empty \o (dir \o Empty)) = Kept(Empty) \o Kept(dir \o Empty)
    BY <1>2, <1>3, KeptConcat
  <2>2. QED BY <1>1, <1>2, <1>4, <2>1, ConcatEmptySeq
<1>9. Rooted(Empty \o (dir \o Empty))
  <2> DEFINE q == dir \o Empty
  <2>1. q \in Seq(Strings) /\ Len(q) \in Nat /\ Len(q) >= 1
    BY <1>3 DEF Paths1
  <2> HIDE DEF q
  <2>2. Len(Empty) = 1 /\ Empty[1] = Blank
    BY DEF Empty
  <2>3. Len(Empty \o q) = Len(q) + 1 /\ (Empty \o q)[1] = Blank
    <3>1. /\ Len(Empty \o q) = Len(Empty) + Len(q)
          /\ \A i \in 1..(Len(Empty) + Len(q)) :
                (Empty \o q)[i] = IF i <= Len(Empty) THEN Empty[i] ELSE q[i - Len(Empty)]
      BY <1>2, <2>1, ConcatProperties
    <3>2. 1 \in 1..(Len(Empty) + Len(q)) /\ 1 <= Len(Empty)
      BY <2>1, <2>2
    <3>3. QED BY <2>1, <2>2, <3>1, <3>2
  <2>4. Rooted(Empty \o q)
    BY <2>1, <2>3 DEF Rooted
  <2>5. QED BY <2>4 DEF q
<1>10. QED BY <1>1, <1>3, <1>4, <1>5, <1>6, <1>7, <1>8, <1>9

LEMMA PlaceIs ==
    ASSUME NEW p \in Paths1
    PROVE  Place(kind, p) = IF kind = "key" THEN Kept(p) ELSE PlaceOf(p)
<1>1. <<>> \o Kept(p) = Kept(p)
  BY KeptType, ConcatEmptySeq DEF Paths1
<1>2. QED BY <1>1 DEF Place, PlaceOf, Lead

\* The root of a URL stands for the directory that it names.
LEMMA InitStoreInv ==
    ASSUME InitObjects
    PROVE  StoreInv
<1>1. kind \in Kinds /\ root \in Roots(kind) /\ base = Place(kind, root) /\ file = NoFile
  BY DEF InitObjects
<1>2. store \in SUBSET KeysOf(kind)
  BY DEF InitObjects, kSubset
<1>3. FileInv
  BY <1>1 DEF FileInv
<1>4. Slash = Empty \o (<<>> \o Empty)
  BY DEF Slash, Empty
<1>5. CASE kind = "key"
  <2>1. root \in {Slash} \cup {Empty \o dir : dir \in {dir \o Empty : dir \in Dirs}}
    BY <1>1, <1>5 DEF Roots
  <2>2. CASE root = Slash
    <3>1. root \in Paths1 /\ Kept(root) = <<>>
      BY <2>2, EmptyType, KeptBlank
    <3>2. base = <<>>
      BY <1>1, <1>5, <3>1, PlaceIs
    <3>3. RootInv
      BY <1>4, <1>5, <2>2, <3>2 DEF RootInv
    <3>4. QED BY <1>1, <1>2, <1>3, <3>1, <3>3 DEF StoreInv, ObjectTypes
  <2>3. CASE root # Slash
    <3>1. PICK dir \in Dirs : root = Empty \o (dir \o Empty)
      BY <2>1, <2>3
    <3>2. root \in Paths1 /\ Kept(root) = dir
      BY <3>1, DirFacts
    <3>3. base = dir
      BY <1>1, <1>5, <3>2, PlaceIs
    <3>4. RootInv
      BY <1>5, <3>1, <3>3 DEF RootInv
    <3>5. QED BY <1>1, <1>2, <1>3, <3>2, <3>4 DEF StoreInv, ObjectTypes
  <2>4. QED BY <2>2, <2>3
<1>6. CASE kind # "key"
  <2>1. /\ root \in {Slash, Empty} \/ \E dir \in Dirs :
              root \in {dir, dir \o Empty, Empty \o dir, Empty \o (dir \o Empty)}
        /\ kind = "smp" =>
              root \in {Slash} \cup {Empty \o (dir \o Empty) : dir \in Dirs}
    <3>1. CASE kind = "sm"
      <4>1. root \in {Slash, Empty} \cup {Empty \o dir : dir \in Dirs}
                       \cup {dir \o Empty : dir \in Dirs}
        BY <1>1, <3>1 DEF Roots
      <4>2. QED BY <3>1, <4>1
    <3>2. CASE kind = "blob"
      <4>1. root \in {Empty} \cup Dirs \cup {dir \o Empty : dir \in Dirs}
        BY <1>1, <3>2 DEF Roots
      <4>2. QED BY <3>2, <4>1
    <3>3. CASE kind = "smp"
      <4>1. root \in {Slash} \cup {Empty \o dir : dir \in {dir \o Empty : dir \in Dirs}}
        BY <1>1, <3>3 DEF Roots
      <4>2. QED BY <3>3, <4>1
    <3>4. QED BY <1>1, <1>6, <3>1, <3>2, <3>3 DEF Kinds
  <2>2. root \in Paths1 /\ (Kept(root) = <<>> => root \in {Empty, Slash})
    BY <2>1, EmptyType, DirFacts
  <2>3. base = PlaceOf(root)
    BY <1>1, <1>6, <2>2, PlaceIs
  <2>4. kind = "smp" => Rooted(root)
    BY <2>1, RootedEmpty, DirFacts
  <2>5. RootInv
    BY <1>6, <2>2, <2>3, <2>4 DEF RootInv
  <2>6. QED BY <1>1, <1>2, <1>3, <2>2, <2>5 DEF StoreInv, ObjectTypes
<1>7. QED BY <1>5, <1>6

LEMMA HandleSame ==
    ASSUME UNCHANGED <<kind, root, base>>, NEW name
    PROVE  Handle(name)' = Handle(name)
  BY DEF Handle, Where, Resolve

\* A Sub goes from what the root stands for to what is there under a name.
LEMMA SubStep ==
    ASSUME StoreInv, NEW name \in ObjectCalls, Sub(name)
    PROVE  StoreInv'
<1>1. /\ kind # "key" /\ name # Dot /\ file = NoFile /\ root' = Join(root, name)
      /\ base' = base \o name /\ kind' = kind /\ store' = store /\ file' = file
  BY DEF Sub, Where
<1>2. root \in Paths1 /\ base = PlaceOf(root) /\ (kind = "smp" => Rooted(root))
  BY <1>1 DEF StoreInv, ObjectTypes, RootInv
<1>3. /\ name \in Paths1 /\ ~Rooted(name) /\ Kept(name) = name /\ name # <<>>
      /\ name \in Seq(Strings)
  BY <1>1, NameFacts, PlainFacts DEF Paths1
<1>4. /\ root' \in Paths1 /\ PlaceOf(root') = base'
      /\ Kept(root') = Kept(root) \o name /\ (Rooted(root') <=> Rooted(root))
  <2>1. /\ Join(root, name) \in Paths1
        /\ PlaceOf(Join(root, name)) = PlaceOf(root) \o Kept(name)
        /\ Kept(Join(root, name)) = Kept(root) \o Kept(name)
        /\ Rooted(Join(root, name)) <=> Rooted(root)
    BY <1>2, <1>3, JoinPlace
  <2>2. QED BY <1>1, <1>2, <1>3, <2>1
<1>5. Kept(root') # <<>>
  <2>1. Kept(root) \in Seq(Strings)
    BY <1>2, KeptType DEF Paths1
  <2>2. QED BY <1>3, <1>4, <2>1, LastOfConcat
<1>6. ObjectTypes'
  BY <1>1, <1>4 DEF StoreInv, ObjectTypes, KeysOf
<1>7. RootInv'
  BY <1>1, <1>2, <1>4, <1>5 DEF RootInv
<1>8. FileInv'
  BY <1>1 DEF FileInv
<1>9. QED BY <1>6, <1>7, <1>8 DEF StoreInv

\* The other calls leave the root alone.
LEMMA RootStays ==
    ASSUME StoreInv, UNCHANGED <<kind, store, root, base>>,
           file' \in {file, NoFile} \cup {Handle(name) : name \in ObjectCalls}
    PROVE  StoreInv'
<1>1. ObjectTypes' /\ RootInv'
  BY DEF StoreInv, ObjectTypes, RootInv, KeysOf
<1>2. file' # NoFile => \E name \in ObjectCalls : file' = Handle(name)
  BY DEF StoreInv, FileInv
<1>3. \A name \in ObjectCalls : Handle(name)' = Handle(name)
  BY HandleSame
<1>4. FileInv'
  BY <1>2, <1>3 DEF FileInv
<1>5. QED BY <1>1, <1>4 DEF StoreInv

-----------------------------------------------------------------------------
(* The steps *)

LEMMA StepSame ==
    ASSUME UNCHANGED <<kind, store, root, base>>,
           AgreesOn(said', file') /\ ListsIn(said', file')
    PROVE  ObjectsAgree' /\ ObjectsListed'
  BY SameThen

\* What is not an answer agrees, and what is not a listing is none that is wrong.
LEMMA OtherAnswer ==
    ASSUME NEW s, NEW f
    PROVE  /\ s.op # "ReadDir" => ListsIn(s, f)
           /\ s.op \notin {"Stat", "Read", "ReadFile"} => AgreesOn(s, f)
           /\ s.op = "Stat" /\ (~s.dotted /\ ~Marked(s.at) /\ ~Neighbours(s.at) =>
                                   s.is = Truth(s.at) \/ (s.is = "dir" /\ f.dot)) =>
                 AgreesOn(s, f)
           /\ s.op = "Read" /\ (~s.dotted /\ ~Marked(s.at) =>
                                   (s.is = "content" <=> Truth(s.at) = "file")) =>
                 AgreesOn(s, f)
  BY Zenon DEF ListsIn, AgreesOn

\* Nothing has been said of anything.
LEMMA NoReplyIs ==
    /\ NoReply.op = "none"
    /\ \A f : AgreesOn(NoReply, f) /\ ListsIn(NoReply, f)
<1>1. NoReply.op = "none"
  BY DEF NoReply
<1>2. NoReply.op \notin {"Stat", "Read", "ReadFile"} /\ NoReply.op # "ReadDir"
  BY <1>1
<1>3. QED BY <1>1, <1>2, OtherAnswer

LEMMA SubSays ==
    ASSUME NEW name, Sub(name)
    PROVE  ObjectsAgree' /\ ObjectsListed'
<1>1. said' = NoReply
  BY DEF Sub
<1>2. said'.op = "none"
  BY <1>1, NoReplyIs
<1>3. said'.op # "Stat" /\ said'.op # "Read" /\ said'.op # "ReadFile" /\ said'.op # "ReadDir"
  BY <1>2
<1>4. QED BY <1>3, Zenon DEF ObjectsAgree, ObjectsListed

\* One lemma for each call.  Only blobfs says something when it opens a file.
LEMMA OpenSays ==
    ASSUME StoreInv, NEW name \in ObjectCalls, Open(name)
    PROVE  StoreInv' /\ ObjectsAgree' /\ ObjectsListed'
<1> DEFINE h == Handle(name)
           is == StatAnswer(h)
<1>1. UNCHANGED <<kind, store, root, base>>
  BY DEF Open
<1>2. CASE kind # "blob"
  <2>1. file' = h /\ said' = NoReply
    BY <1>2 DEF Open
  <2>2. AgreesOn(said', file') /\ ListsIn(said', file')
    BY <2>1, NoReplyIs
  <2>3. StoreInv'
    BY <1>1, <2>1, RootStays
  <2>4. QED BY <1>1, <2>2, <2>3, StepSame
<1>3. CASE kind = "blob"
  <2>1. /\ file' = IF is \in {"file", "dir"} THEN h ELSE NoFile
        /\ said' = Replied("Stat", h.at, h.dotted, is)
    BY <1>3 DEF Open
  <2>2. StoreInv'
    <3>1. file' = h \/ file' = NoFile
      BY <2>1
    <3>2. QED BY <1>1, <3>1, RootStays
  <2>3. /\ said'.op = "Stat" /\ said'.at = h.at /\ said'.dotted = h.dotted
        /\ said'.is = is
    BY <2>1, Zenon DEF Replied
  <2>4. ASSUME ~h.dotted, ~Marked(h.at), ~Neighbours(h.at)
        PROVE  is = Truth(h.at) \/ (is = "dir" /\ file'.dot)
    <3>1. is = Truth(h.at) \/ (is = "dir" /\ h.dot)
      BY <2>4, StatIs
    <3>2. CASE is = "dir"
      <4>1. file' = h
        BY <2>1, <3>2
      <4>2. QED BY <3>1, <4>1, Zenon
    <3>3. CASE is # "dir"
      BY <3>1, <3>3, Zenon
    <3>4. QED BY <3>2, <3>3, Zenon
  <2> HIDE DEF h, is
  <2>5. AgreesOn(said', file')
    BY <2>3, <2>4, OtherAnswer, Zenon
  <2>6. ListsIn(said', file')
    BY <2>3, Zenon DEF ListsIn
  <2>7. QED BY <1>1, <2>2, <2>5, <2>6, StepSame
<1>4. QED BY <1>2, <1>3

\* The handle that is open is that of a name.
LEMMA FileIs ==
    ASSUME StoreInv, file # NoFile
    PROVE  \E name \in ObjectCalls : file = Handle(name)
  BY DEF StoreInv, FileInv

LEMMA FileStatSays ==
    ASSUME StoreInv, FileStat
    PROVE  StoreInv' /\ ObjectsAgree' /\ ObjectsListed'
<1>1. /\ UNCHANGED <<kind, store, root, base>> /\ file' = file
      /\ said' = Replied("Stat", file.at, file.dotted, StatAnswer(file))
  BY DEF FileStat, Say
<1>2. StoreInv'
  BY <1>1, RootStays
<1>3. /\ said'.op = "Stat" /\ said'.at = file.at /\ said'.dotted = file.dotted
      /\ said'.is = StatAnswer(file)
  BY <1>1, Zenon DEF Replied
<1>4. PICK name \in ObjectCalls : file = Handle(name)
  BY FileIs DEF FileStat
<1>5. ASSUME ~file.dotted, ~Marked(file.at), ~Neighbours(file.at)
      PROVE  StatAnswer(file) = Truth(file.at) \/ (StatAnswer(file) = "dir" /\ file.dot)
  <2>1. ~Handle(name).dotted /\ ~Marked(Handle(name).at) /\ ~Neighbours(Handle(name).at)
    BY <1>4, <1>5, Zenon
  <2>2. \/ StatAnswer(Handle(name)) = Truth(Handle(name).at)
        \/ StatAnswer(Handle(name)) = "dir" /\ Handle(name).dot
    BY <2>1, StatIs
  <2>3. QED BY <1>4, <2>2, Zenon
<1>6. AgreesOn(said', file')
  BY <1>1, <1>3, <1>5, OtherAnswer, Zenon
<1>7. ListsIn(said', file')
  BY <1>3, Zenon DEF ListsIn
<1>8. QED BY <1>1, <1>2, <1>6, <1>7, StepSame

LEMMA FileReadSays ==
    ASSUME StoreInv, FileRead
    PROVE  StoreInv' /\ ObjectsAgree' /\ ObjectsListed'
<1>1. /\ UNCHANGED <<kind, store, root, base>> /\ file' = file
      /\ said' = Replied("Read", file.at, file.dotted, Content(Address(file)))
  BY DEF FileRead, Say
<1>2. StoreInv'
  BY <1>1, RootStays
<1>3. /\ said'.op = "Read" /\ said'.at = file.at /\ said'.dotted = file.dotted
      /\ said'.is = Content(Address(file))
  BY <1>1, Zenon DEF Replied
<1>4. PICK name \in ObjectCalls : file = Handle(name)
  BY FileIs DEF FileRead
<1>5. ASSUME ~file.dotted, ~Marked(file.at)
      PROVE  Content(Address(file)) = "content" <=> Truth(file.at) = "file"
  <2>1. ~Handle(name).dotted /\ ~Marked(Handle(name).at)
    BY <1>4, <1>5, Zenon
  <2>2. Content(Address(Handle(name))) = "content" <=> Truth(Handle(name).at) = "file"
    BY <2>1, ReadIs
  <2>3. QED BY <1>4, <2>2, Zenon
<1>6. AgreesOn(said', file')
  BY <1>1, <1>3, <1>5, OtherAnswer, Zenon
<1>7. ListsIn(said', file')
  BY <1>3, Zenon DEF ListsIn
<1>8. QED BY <1>1, <1>2, <1>6, <1>7, StepSame

LEMMA FileReadDirSays ==
    ASSUME StoreInv, FileReadDir
    PROVE  StoreInv' /\ ObjectsAgree' /\ ObjectsListed'
<1>1. UNCHANGED <<kind, store, root, base>> /\ file' = file /\ ListFile(file)
  BY DEF FileReadDir
<1>2. StoreInv'
  BY <1>1, RootStays
<1>3. said'.op = "ReadDir" /\ said'.at = file.at /\ said'.dotted = file.dotted
  BY <1>1, ListFileSays
<1>4. PICK name \in ObjectCalls : file = Handle(name)
  BY FileIs DEF FileReadDir
<1>5. ASSUME ~file.dotted, ~Marked(file.at),
             ~(kind = "sm" /\ AtRoot(file.at) /\ file.dot)
      PROVE  IF said'.is = "listing" THEN Good(said'.entries, file.at)
             ELSE said'.is = "not exist" /\ KeysBelow(file.at) = {}
  <2>1. /\ ~Handle(name).dotted
        /\ ~(kind = "sm" /\ AtRoot(Handle(name).at) /\ Handle(name).dot)
    BY <1>4, <1>5, Zenon
  <2>2. ListPrefix(file) = file.at \o Empty
    BY <1>4, <2>1, PrefixIs
  <2>3. kind # "key" => Means(file)
    BY <1>4, <2>1, HandleMeans
  <2>4. file.at \in Seq(Strings)
    <3>1. CASE kind = "key"
      BY <1>4, <3>1, KeyHandle
    <3>2. CASE kind # "key"
      BY <2>3, <3>2, MeansFacts
    <3>3. QED BY <3>1, <3>2
  <2>5. kind \in {"sm", "smp"} => Means(file)
    BY <2>3
  <2>6. QED BY <1>1, <1>5, <2>2, <2>4, <2>5, ListFileIs DEF StoreInv
<1>6. ListsIn(said', file')
  BY <1>1, <1>3, <1>5, Zenon DEF ListsIn
<1>7. AgreesOn(said', file')
  <2>1. said'.op \notin {"Stat", "Read", "ReadFile"}
    BY <1>3
  <2>2. QED BY <2>1, OtherAnswer, Zenon
<1>8. QED BY <1>1, <1>2, <1>6, <1>7, StepSame

LEMMA ReadDirFSSays ==
    ASSUME StoreInv, NEW name \in ObjectCalls, ReadDirFS(name)
    PROVE  StoreInv' /\ ObjectsAgree' /\ ObjectsListed'
<1> DEFINE h == FSHandle(name)
<1>1. /\ UNCHANGED <<kind, store, root, base>> /\ file' = file
      /\ kind \in {"sm", "smp"} /\ ListFile(h)
  BY Zenon DEF ReadDirFS, FSHandle
<1>2. StoreInv'
  BY <1>1, RootStays
<1>3. said'.op = "ReadDir" /\ said'.at = h.at /\ said'.dotted = h.dotted
  BY <1>1, ListFileSays
<1>4. kind # "key"
  BY <1>1
<1>5. Means(h)
  BY <1>4, FSHandleMeans
<1>6. h.at \in Seq(Strings)
  BY <1>5, MeansFacts
<1>7. ListPrefix(h) = h.at \o Empty
  BY <1>1, FSPrefixIs
<1>8. ASSUME ~Marked(h.at)
      PROVE  IF said'.is = "listing" THEN Good(said'.entries, h.at)
             ELSE said'.is = "not exist" /\ KeysBelow(h.at) = {}
  BY <1>1, <1>5, <1>6, <1>7, <1>8, ListFileIs DEF StoreInv
<1>9. ListsIn(said', file')
  BY <1>3, <1>8, Zenon DEF ListsIn
<1>10. AgreesOn(said', file')
  <2>1. said'.op \notin {"Stat", "Read", "ReadFile"}
    BY <1>3
  <2>2. QED BY <2>1, OtherAnswer, Zenon
<1>11. QED BY <1>1, <1>2, <1>9, <1>10, StepSame

LEMMA ReadFileSays ==
    ASSUME StoreInv, NEW name \in ObjectCalls, ReadFile(name)
    PROVE  StoreInv' /\ ObjectsAgree' /\ ObjectsListed'
<1> DEFINE is == Content(ReadFileAddress(name))
           at == Where(name)
           answers == IF kind = "key" /\ is # "content" THEN "nil dereference" ELSE is
<1>1. /\ UNCHANGED <<kind, store, root, base>> /\ file' = file
      /\ said' = Replied("ReadFile", at, FALSE, answers)
  BY DEF ReadFile, Say
<1>2. StoreInv'
  BY <1>1, RootStays
<1>3. said'.op = "ReadFile" /\ said'.at = at /\ said'.is = answers
  BY <1>1, Zenon DEF Replied
<1>4. is \in {"content", "not exist"}
  BY DEF Content
<1>5. ~Marked(at) => (is = "content" <=> Truth(at) = "file")
  BY ReadFileIs
<1> HIDE DEF is, at
<1>6. (answers = "content" <=> is = "content") /\ (answers = "nil dereference" => kind = "key")
  BY <1>4
<1>7. AgreesOn(said', file')
  <2>1. said'.op # "Stat" /\ said'.op # "Read"
    BY <1>3
  <2>2. Marked(said'.at) \/ (said'.is = "content" <=> Truth(said'.at) = "file")
    BY <1>3, <1>5, <1>6
  <2>3. said'.is = "nil dereference" => kind = "key"
    BY <1>3, <1>6
  <2>4. QED BY <2>1, <2>2, <2>3, Zenon DEF AgreesOn
<1>8. ListsIn(said', file')
  <2>1. said'.op # "ReadDir"
    BY <1>3
  <2>2. QED BY <2>1, OtherAnswer, Zenon
<1>9. QED BY <1>1, <1>2, <1>7, <1>8, StepSame

LEMMA ObjectSteps ==
    ASSUME StoreInv, ObjectsAgree, ObjectsListed, [NextObjects]_objectVars
    PROVE  StoreInv' /\ ObjectsAgree' /\ ObjectsListed'
<1>1. CASE \E name \in ObjectCalls : Sub(name)
  BY <1>1, SubStep, SubSays
<1>2. CASE \E name \in ObjectCalls : Open(name)
  BY <1>2, OpenSays
<1>3. CASE \E name \in ObjectCalls : ReadDirFS(name)
  BY <1>3, ReadDirFSSays
<1>4. CASE \E name \in ObjectCalls : ReadFile(name)
  BY <1>4, ReadFileSays
<1>5. CASE FileStat
  BY <1>5, FileStatSays
<1>6. CASE FileRead
  BY <1>6, FileReadSays
<1>7. CASE FileReadDir
  BY <1>7, FileReadDirSays
<1>8. CASE UNCHANGED objectVars
  <2>1. UNCHANGED <<kind, store, root, base>> /\ file' = file /\ said' = said
    BY <1>8 DEF objectVars
  <2>2. StoreInv'
    BY <2>1, RootStays
  <2>3. AgreesOn(said', file') /\ ListsIn(said', file')
    BY <2>1, SameNow
  <2>4. QED BY <2>1, <2>2, <2>3, StepSame
<1>9. QED BY <1>1, <1>2, <1>3, <1>4, <1>5, <1>6, <1>7, <1>8 DEF NextObjects

LEMMA ObjectsStart ==
    ASSUME InitObjects
    PROVE  StoreInv /\ ObjectsAgree /\ ObjectsListed
<1>1. said = NoReply
  BY DEF InitObjects
<1>2. QED BY <1>1, InitStoreInv, NoReplyIs, SameNow

-----------------------------------------------------------------------------
(* SecretNames *)

NamedHandle(name) ==
    [called |-> name, project |-> Secrets!Resolved(name).project,
     name |-> Secrets!Resolved(name).name]

\* The handle that is open is that of a name that stands for something.
SecretInv ==
    /\ project \in Projects \cup {Secrets!NoProject}
    /\ secrets \subseteq [project : Projects, name : SecretIds]
    /\ opened # Secrets!NoHandle =>
          \E name \in SecretCalls :
             Secrets!Resolved(name) # Secrets!Invalid /\ opened = NamedHandle(name)

LEMMA NoProjectIs == Secrets!NoProject = Blank
  BY Zenon DEF Blank, Secrets!NoProject

\* Names of the calls are not empty, and only the dot has a dot.
LEMMA CallFacts ==
    ASSUME NEW name \in SecretCalls
    PROVE  /\ name \in Seq(Strings) /\ Len(name) \in Nat /\ Len(name) >= 1 /\ name # <<>>
           /\ name # Dot => \A i \in 1..Len(name) : name[i] \in Segs
           /\ name = <<".">> <=> Len(name) = 1 /\ name[1] = "."
           /\ Len(name) > 1 => name # Dot
<1>1. name = Dot \/ IsPlain(name)
  BY SecretAssumption
<1>2. CASE name = Dot
  <2>1. Dot \in Seq(Strings) /\ Dot # <<>> /\ Len(Dot) = 1 /\ Dot[1] = "." /\ Dot = <<".">>
    <3>1. Dot \in Seq(Strings) /\ Dot # <<>>
      BY EmptyType DEF Paths1
    <3>2. QED BY <3>1 DEF Dot
  <2>2. QED BY <1>2, <2>1
<1>3. CASE IsPlain(name)
  <2>1. name \in Seq(Strings) /\ name # <<>> /\ NamesAt(name) = DOMAIN name
    BY <1>3, PathsOfStrings DEF IsPlain
  <2>2. \A i \in 1..Len(name) : name[i] \in Segs
    BY <2>1 DEF NamesAt, Segs
  <2>3. name[1] # "."
    BY <2>1, <2>2 DEF Segs
  <2>4. name # Dot
    BY <2>3 DEF Dot
  <2>5. QED BY <2>1, <2>2, <2>3, <2>4 DEF Dot
<1>4. QED BY <1>1, <1>2, <1>3

LEMMA Fours ==
    ASSUME NEW S, NEW p \in Seq(S), NEW a, NEW b, NEW c, NEW d
    PROVE  /\ p = <<a, b, c, d>> <=>
                 Len(p) = 4 /\ p[1] = a /\ p[2] = b /\ p[3] = c /\ p[4] = d
           /\ p = <<a, b>> <=> Len(p) = 2 /\ p[1] = a /\ p[2] = b
<1>1. ASSUME Len(p) = 4, p[1] = a, p[2] = b, p[3] = c, p[4] = d
      PROVE  p = <<a, b, c, d>>
  BY <1>1
<1>2. ASSUME Len(p) = 2, p[1] = a, p[2] = b PROVE p = <<a, b>>
  BY <1>2
<1>3. QED BY <1>1, <1>2

LEMMA Joined ==
    ASSUME NEW a, NEW b, NEW c, NEW d
    PROVE  <<a, b>> \o (<<c>> \o <<d>>) = <<a, b, c, d>>
<1> DEFINE S == {a, b, c, d}
           p == <<a, b>>
           r == <<c>>
           s == <<d>>
           q == r \o s
           t == p \o q
<1>1. /\ p \in Seq(S) /\ Len(p) = 2 /\ p[1] = a /\ p[2] = b
      /\ r \in Seq(S) /\ Len(r) = 1 /\ r[1] = c
      /\ s \in Seq(S) /\ Len(s) = 1 /\ s[1] = d
  OBVIOUS
<1> HIDE DEF p, r, s, S
<1>2. q \in Seq(S) /\ Len(q) = 2 /\ q[1] = c /\ q[2] = d
  BY <1>1, ConcatProperties
<1> HIDE DEF q
<1>3. /\ t \in Seq(S) /\ Len(t) = 4
      /\ \A i \in 1..4 : t[i] = IF i <= 2 THEN p[i] ELSE q[i - 2]
  <2>1. /\ t \in Seq(S) /\ Len(t) = Len(p) + Len(q)
        /\ \A i \in 1..(Len(p) + Len(q)) :
              t[i] = IF i <= Len(p) THEN p[i] ELSE q[i - Len(p)]
    BY <1>1, <1>2, ConcatProperties
  <2>2. Len(p) + Len(q) = 4
    BY <1>1, <1>2
  <2> HIDE DEF t
  <2>3. QED BY <1>1, <2>1, <2>2
<1>4. t[1] = a /\ t[2] = b /\ t[3] = c /\ t[4] = d
  <2>1. 1 \in 1..4 /\ 2 \in 1..4 /\ 3 \in 1..4 /\ 4 \in 1..4
    OBVIOUS
  <2>2. 3 - 2 = 1 /\ 4 - 2 = 2 /\ ~(3 <= 2) /\ ~(4 <= 2) /\ 1 <= 2 /\ 2 <= 2
    OBVIOUS
  <2> HIDE DEF t
  <2>3. QED BY <1>1, <1>2, <1>3, <2>1, <2>2
<1> HIDE DEF t
<1>5. t = <<a, b, c, d>>
  BY <1>3, <1>4, Fours
<1>6. QED BY <1>5 DEF t, q, p, r, s

\* The full name that a name stands for.
LEMMA AbsoluteIs ==
    ASSUME NEW name \in SecretCalls
    PROVE  /\ project = Secrets!NoProject => Secrets!Absolute(name) = name
           /\ project # Secrets!NoProject /\ name = <<".">> =>
                 Secrets!Absolute(name) = <<"projects", project>>
           /\ project # Secrets!NoProject /\ Len(name) = 1 /\ name # <<".">> =>
                 Secrets!Absolute(name) = <<"projects", project, "secrets", name[1]>>
           /\ project # Secrets!NoProject /\ Len(name) > 1 =>
                 Len(Secrets!Absolute(name)) \notin {2, 4}
<1> DEFINE S == Strings \cup {project, "projects", "secrets"}
<1>1. name \in Seq(S) /\ Len(name) \in Nat /\ Len(name) >= 1 /\ name # <<>>
  <2>1. name \in Seq(Strings)
    BY CallFacts
  <2>2. Seq(Strings) \subseteq Seq(S)
    BY SeqMonotonic
  <2>3. QED BY <2>1, <2>2, CallFacts
<1>2. <<"projects", project>> \in Seq(S) /\ <<"secrets">> \in Seq(S)
  OBVIOUS
<1>3. CASE project = Secrets!NoProject
  BY <1>3 DEF Secrets!Absolute
<1>4. CASE project # Secrets!NoProject /\ name = <<".">>
  <2>1. Secrets!Absolute(name) = <<"projects", project>> \o <<>>
    BY <1>1, <1>4 DEF Secrets!Absolute
  <2>2. QED BY <1>2, <1>4, <2>1, ConcatEmptySeq
<1>5. CASE project # Secrets!NoProject /\ name # <<".">>
  <2>1. Secrets!Absolute(name) = <<"projects", project>> \o (<<"secrets">> \o name)
    BY <1>1, <1>5 DEF Secrets!Absolute
  <2>2. <<"secrets">> \o name \in Seq(S) /\ Len(<<"secrets">> \o name) = 1 + Len(name)
    BY <1>1, <1>2
  <2>3. Len(Secrets!Absolute(name)) = 3 + Len(name)
    BY <1>1, <1>2, <2>1, <2>2
  <2>4. ASSUME Len(name) = 1
        PROVE  Secrets!Absolute(name) = <<"projects", project, "secrets", name[1]>>
    <3>1. name = <<name[1]>>
      BY <1>1, <2>4
    <3>2. <<"projects", project>> \o (<<"secrets">> \o <<name[1]>>)
            = <<"projects", project, "secrets", name[1]>>
      BY Joined
    <3>3. QED BY <2>1, <3>1, <3>2
  <2>5. QED BY <1>1, <1>5, <2>3, <2>4
<1>6. QED BY <1>3, <1>4, <1>5, CallFacts

\* What getProjectAndFileName makes of a name is what it stands for.
LEMMA ResolvedIs ==
    ASSUME SecretInv, NEW name \in SecretCalls
    PROVE  LET h == Secrets!Resolved(name) IN
           /\ Secrets!IsProject(name) <=> h # Secrets!Invalid /\ h.name = "."
           /\ Secrets!IsProject(name) => /\ Secrets!Absolute(name) = <<"projects", h.project>>
                                         /\ Secrets!Absolute(name)[2] = h.project
           /\ (Len(name) = 4 => name[4] \notin DOMAIN Undotted) =>
                 (Secrets!IsSecret(name) <=>
                    /\ h # Secrets!Invalid /\ h.name # "."
                    /\ [project |-> h.project, name |-> h.name] \in secrets)
<1> DEFINE h == Secrets!Resolved(name)
           abs == Secrets!Absolute(name)
<1>1. /\ name \in Seq(Strings) /\ Len(name) \in Nat /\ Len(name) >= 1
      /\ name = <<".">> <=> Len(name) = 1 /\ name[1] = "."
      /\ Len(name) > 1 => \A i \in 1..Len(name) : name[i] \in Segs
  BY CallFacts
<1>2. Secrets!IsProject(name) <=> Len(abs) = 2 /\ abs[1] = "projects"
  BY DEF Secrets!IsProject
<1>3. Secrets!IsSecret(name) <=>
         \E s \in secrets : abs = <<"projects", s.project, "secrets", s.name>>
  BY DEF Secrets!IsSecret
<1>4. \A s \in secrets : s = [project |-> s.project, name |-> s.name] /\ s.name \in SecretIds
  BY DEF SecretInv
<1>5. Secrets!Invalid = [project |-> Secrets!NoProject, name |-> "invalid"]
  BY DEF Secrets!Invalid
<1>6. CASE project = Secrets!NoProject
  <2>1. h = Secrets!FullName(name) /\ abs = name
    BY <1>6, AbsoluteIs DEF Secrets!Resolved
  <2>2. \A s \in secrets : abs = <<"projects", s.project, "secrets", s.name>> <=>
           /\ Len(name) = 4 /\ name[1] = "projects" /\ name[3] = "secrets"
           /\ name[2] = s.project /\ name[4] = s.name
    BY <1>1, <2>1, Fours
  <2>3. CASE Len(name) = 2 /\ name[1] = "projects"
    <3>1. h = [project |-> name[2], name |-> "."]
      BY <2>1, <2>3 DEF Secrets!FullName
    <3>2. h.project = name[2] /\ h.name = "." /\ h # Secrets!Invalid
      BY <1>5, <3>1
    <3>3. ~Secrets!IsSecret(name)
      BY <1>3, <2>2, <2>3
    <3>4. abs = <<"projects", h.project>> /\ abs[2] = h.project
      BY <1>1, <2>1, <2>3, <3>2, Fours
    <3>5. QED BY <1>2, <2>1, <2>3, <3>2, <3>3, <3>4
  <2>4. CASE Len(name) = 4 /\ name[1] = "projects" /\ name[3] = "secrets"
    <3>1. h = [project |-> name[2], name |-> Secrets!TrimDot(name[4])]
      BY <2>1, <2>4 DEF Secrets!FullName
    <3>2. name[2] \in Segs /\ name[4] \in Segs
      BY <1>1, <2>4
    <3>3. name[2] # Secrets!NoProject
      BY <3>2, NoProjectIs DEF Segs
    <3>4. h # Secrets!Invalid /\ h.project = name[2] /\ h.name = Secrets!TrimDot(name[4])
      <4>1. h.project = name[2] /\ h.name = Secrets!TrimDot(name[4])
        BY <3>1
      <4>2. Secrets!Invalid.project = Secrets!NoProject
        BY <1>5
      <4>3. QED BY <3>3, <4>1, <4>2
    <3>5. h.name # "."
      BY <3>2, <3>4, SecretAssumption DEF Secrets!TrimDot, Segs
    <3>6. ~Secrets!IsProject(name)
      BY <1>2, <2>1, <2>4
    <3>7. ASSUME name[4] \notin DOMAIN Undotted
          PROVE  Secrets!IsSecret(name) <=> [project |-> h.project, name |-> h.name] \in secrets
      <4>1. h.name = name[4]
        BY <3>4, <3>7 DEF Secrets!TrimDot
      <4>2. Secrets!IsSecret(name) <=>
               \E s \in secrets : s.project = name[2] /\ s.name = name[4]
        BY <1>3, <2>2, <2>4
      <4>3. \A s \in secrets : s.project = name[2] /\ s.name = name[4] =>
               s = [project |-> name[2], name |-> name[4]]
        <5>1. ASSUME NEW s \in secrets, s.project = name[2], s.name = name[4]
              PROVE  s = [project |-> name[2], name |-> name[4]]
          <6>1. s = [project |-> s.project, name |-> s.name]
            BY <1>4
          <6>2. QED BY <5>1, <6>1
        <5>2. QED BY <5>1
      <4>4. [project |-> name[2], name |-> name[4]].project = name[2]
            /\ [project |-> name[2], name |-> name[4]].name = name[4]
        OBVIOUS
      <4>5. (\E s \in secrets : s.project = name[2] /\ s.name = name[4]) <=>
               [project |-> name[2], name |-> name[4]] \in secrets
        BY <4>3, <4>4
      <4>6. QED BY <3>4, <4>1, <4>2, <4>5
    <3> HIDE DEF h
    <3>8. (Len(name) = 4 => name[4] \notin DOMAIN Undotted) => name[4] \notin DOMAIN Undotted
      BY <2>4
    <3>9. QED BY <3>4, <3>5, <3>6, <3>7, <3>8 DEF h
  <2>5. CASE /\ ~(Len(name) = 2 /\ name[1] = "projects")
             /\ ~(Len(name) = 4 /\ name[1] = "projects" /\ name[3] = "secrets")
    <3>1. h = Secrets!Invalid
      BY <2>1, <2>5 DEF Secrets!FullName
    <3>2. ~Secrets!IsSecret(name) /\ ~Secrets!IsProject(name)
      BY <1>2, <1>3, <2>1, <2>2, <2>5
    <3>3. QED BY <3>1, <3>2
  <2>6. QED BY <2>3, <2>4, <2>5
<1>7. CASE project # Secrets!NoProject /\ Len(name) > 1
  <2>1. h = Secrets!Invalid /\ Len(abs) \notin {2, 4}
    BY <1>7, AbsoluteIs DEF Secrets!Resolved
  <2>2. \A s \in secrets : abs # <<"projects", s.project, "secrets", s.name>>
    <3>1. \A s \in secrets : Len(<<"projects", s.project, "secrets", s.name>>) = 4
      OBVIOUS
    <3> HIDE DEF abs
    <3>2. QED BY <2>1, <3>1
  <2>3. QED BY <1>2, <1>3, <2>1, <2>2
<1>8. CASE project # Secrets!NoProject /\ Len(name) = 1
  <2>1. h = [project |-> project, name |-> name[1]]
    BY <1>8 DEF Secrets!Resolved
  <2>2. h.project = project /\ h.name = name[1]
    BY <2>1
  <2>3. h # Secrets!Invalid
    <3>1. Secrets!Invalid.project = Secrets!NoProject
      BY <1>5
    <3>2. QED BY <1>8, <2>2, <3>1
  <2>4. CASE name = <<".">>
    <3>1. name[1] = "."
      BY <1>1, <2>4
    <3>2. abs = <<"projects", project>>
      BY <1>8, <2>4, AbsoluteIs
    <3>3. Len(abs) = 2 /\ abs[1] = "projects" /\ abs[2] = project
      BY <3>2
    <3>4. \A s \in secrets : abs # <<"projects", s.project, "secrets", s.name>>
      <4>1. \A s \in secrets : Len(<<"projects", s.project, "secrets", s.name>>) = 4
        OBVIOUS
      <4> HIDE DEF abs
      <4>2. QED BY <3>3, <4>1
    <3>5. QED BY <1>2, <1>3, <2>2, <2>3, <3>1, <3>2, <3>3, <3>4
  <2>5. CASE name # <<".">>
    <3>1. name[1] # "."
      BY <1>1, <1>8, <2>5
    <3>2. abs = <<"projects", project, "secrets", name[1]>>
      BY <1>8, <2>5, AbsoluteIs
    <3>3. Len(abs) = 4
      BY <3>2
    <3>4. \A s \in secrets : abs = <<"projects", s.project, "secrets", s.name>> <=>
             s.project = project /\ s.name = name[1]
      <4> HIDE DEF abs
      <4>1. ASSUME NEW s \in secrets, abs = <<"projects", s.project, "secrets", s.name>>
            PROVE  s.project = project /\ s.name = name[1]
        <5>1. abs[2] = s.project /\ abs[4] = s.name
          BY <4>1
        <5>2. abs[2] = project /\ abs[4] = name[1]
          BY <3>2
        <5>3. QED BY <5>1, <5>2
      <4>2. QED BY <3>2, <4>1
    <3>5. Secrets!IsSecret(name) <=> [project |-> h.project, name |-> h.name] \in secrets
      <4>1. \A s \in secrets : s.project = project /\ s.name = name[1] =>
               s = [project |-> project, name |-> name[1]]
        <5>1. ASSUME NEW s \in secrets, s.project = project, s.name = name[1]
              PROVE  s = [project |-> project, name |-> name[1]]
          <6>1. s = [project |-> s.project, name |-> s.name]
            BY <1>4
          <6>2. QED BY <5>1, <6>1
        <5>2. QED BY <5>1
      <4>2. [project |-> project, name |-> name[1]].project = project
            /\ [project |-> project, name |-> name[1]].name = name[1]
        OBVIOUS
      <4>3. (\E s \in secrets : s.project = project /\ s.name = name[1]) <=>
               [project |-> project, name |-> name[1]] \in secrets
        BY <4>1, <4>2
      <4>4. Secrets!IsSecret(name) <=>
               \E s \in secrets : s.project = project /\ s.name = name[1]
        BY <1>3, <3>4
      <4>5. QED BY <2>2, <4>3, <4>4
    <3>6. QED BY <1>2, <2>2, <2>3, <3>1, <3>3, <3>5
  <2>6. QED BY <2>4, <2>5
<1>9. Len(name) = 1 \/ Len(name) > 1
  <2>1. Len(name) \in Nat /\ Len(name) >= 1
    BY CallFacts
  <2>2. QED BY <2>1
<1>10. QED BY <1>6, <1>7, <1>8, <1>9, Zenon

LEMMA SecretsStart ==
    ASSUME Secrets!InitSecrets
    PROVE  SecretInv /\ Secrets!SecretsAgree /\ Secrets!ProjectListed
<1>1. answer = Secrets!NoAnswer /\ opened = Secrets!NoHandle
  BY DEF Secrets!InitSecrets
<1>2. answer.op = "none"
  BY <1>1 DEF Secrets!NoAnswer
<1>3. SecretInv
  BY <1>1 DEF Secrets!InitSecrets, SecretInv
<1>4. Secrets!SecretsAgree
  BY <1>2 DEF Secrets!SecretsAgree
<1>5. Secrets!ProjectListed
  BY <1>2 DEF Secrets!ProjectListed
<1>6. QED BY <1>3, <1>4, <1>5

\* What an answer about a name says of the secrets now.
SecretAgrees(op, name, is) ==
    (Len(name) = 4 => name[4] \notin DOMAIN Undotted) =>
        /\ op \in {"Read", "ReadFile"} => (is = "content" <=> Secrets!IsSecret(name))
        /\ op = "Stat" =>
              /\ is = "file" <=> Secrets!IsSecret(name)
              /\ is = "dir" <=> Secrets!IsProject(name)
        /\ op = "Open" =>
              (Secrets!IsSecret(name) \/ Secrets!IsProject(name) => is = "opened")

ProjectLists(name, is, entries, h) ==
    /\ is = "listing" =>
          \E p \in Projects :
              /\ entries = Secrets!SecretsOf(p)
              /\ \/ Secrets!Absolute(name) = <<"projects", p>>
                 \/ name = h.called /\ h.name # "." /\ p = h.project
    /\ Secrets!IsProject(name) /\ Secrets!Absolute(name)[2] \in Projects => is = "listing"

LEMMA SecretsNow ==
    /\ Secrets!SecretsAgree <=> SecretAgrees(answer.op, answer.called, answer.is)
    /\ Secrets!ProjectListed <=>
          (answer.op = "ReadDir" =>
              ProjectLists(answer.called, answer.is, answer.entries, opened))
<1>1. Secrets!SecretsAgree <=> SecretAgrees(answer.op, answer.called, answer.is)
  BY DEF Secrets!SecretsAgree, SecretAgrees
<1>2. QED BY <1>1 DEF Secrets!ProjectListed, ProjectLists

\* A call that leaves the secrets alone says what it says of them as they are.
LEMMA SecretsThen ==
    ASSUME UNCHANGED <<project, secrets>>
    PROVE  /\ SecretAgrees(answer'.op, answer'.called, answer'.is) => Secrets!SecretsAgree'
           /\ (answer'.op = "ReadDir" =>
                 ProjectLists(answer'.called, answer'.is, answer'.entries, opened')) =>
              Secrets!ProjectListed'
<1>1. Secrets!IsSecret(answer.called)' = Secrets!IsSecret(answer'.called)
  BY DEF Secrets!IsSecret, Secrets!Absolute
<1>2. Secrets!IsProject(answer.called)' = Secrets!IsProject(answer'.called)
  BY DEF Secrets!IsProject, Secrets!Absolute
<1>3. Secrets!Absolute(answer.called)' = Secrets!Absolute(answer'.called)
  BY DEF Secrets!Absolute
<1>4. ASSUME NEW p PROVE Secrets!SecretsOf(p)' = Secrets!SecretsOf(p)
  BY DEF Secrets!SecretsOf
<1>5. SecretAgrees(answer'.op, answer'.called, answer'.is) => Secrets!SecretsAgree'
  BY <1>1, <1>2 DEF Secrets!SecretsAgree, SecretAgrees
<1>6. (answer'.op = "ReadDir" =>
         ProjectLists(answer'.called, answer'.is, answer'.entries, opened')) =>
      Secrets!ProjectListed'
  BY <1>2, <1>3, <1>4 DEF Secrets!ProjectListed, ProjectLists
<1>7. QED BY <1>5, <1>6

LEMMA SayIs ==
    ASSUME NEW op, NEW name, NEW is, NEW entries, Secrets!Say(op, name, is, entries)
    PROVE  /\ UNCHANGED <<project, secrets>>
           /\ answer'.op = op /\ answer'.called = name /\ answer'.is = is
           /\ answer'.entries = entries
  BY DEF Secrets!Say

\* The handle stays that of its name.
LEMMA SecretsStay ==
    ASSUME SecretInv, UNCHANGED <<project, secrets>>,
           \/ opened' = opened
           \/ \E name \in SecretCalls :
                 Secrets!Resolved(name) # Secrets!Invalid /\ opened' = NamedHandle(name)
    PROVE  SecretInv'
<1>1. ASSUME NEW name
      PROVE  /\ Secrets!Resolved(name)' = Secrets!Resolved(name)
             /\ NamedHandle(name)' = NamedHandle(name)
  BY DEF NamedHandle, Secrets!Resolved
<1>2. opened' # Secrets!NoHandle =>
         \E name \in SecretCalls :
            Secrets!Resolved(name) # Secrets!Invalid /\ opened' = NamedHandle(name)
  BY DEF SecretInv
<1>3. QED BY <1>1, <1>2 DEF SecretInv

-----------------------------------------------------------------------------
(* The calls of gcpsmfs *)

\* What a handle says, if it is that of a name.
LEMMA AnswersOf ==
    ASSUME SecretInv, NEW name \in SecretCalls, NEW h,
           Secrets!Resolved(name) # Secrets!Invalid,
           h.project = Secrets!Resolved(name).project, h.name = Secrets!Resolved(name).name
    PROVE  /\ (Len(name) = 4 => name[4] \notin DOMAIN Undotted) =>
                 /\ Secrets!Content(h) = "content" <=> Secrets!IsSecret(name)
                 /\ Secrets!Kind(h) = "file" <=> Secrets!IsSecret(name)
           /\ Secrets!Kind(h) = "dir" <=> Secrets!IsProject(name)
<1> DEFINE inside == [project |-> h.project, name |-> h.name] \in secrets
<1>1. Secrets!IsProject(name) <=> h.name = "."
  BY ResolvedIs
<1>2. (Len(name) = 4 => name[4] \notin DOMAIN Undotted) =>
         (Secrets!IsSecret(name) <=> h.name # "." /\ inside)
  BY ResolvedIs
<1>3. Secrets!Content(h) = "content" <=> h.name # "." /\ inside
  BY DEF Secrets!Content
<1>4. Secrets!Kind(h) = "file" <=> h.name # "." /\ inside
  BY <1>3 DEF Secrets!Kind
<1>5. Secrets!Kind(h) = "dir" <=> h.name = "."
  BY DEF Secrets!Kind
<1> HIDE DEF inside
<1>6. QED BY <1>1, <1>2, <1>3, <1>4, <1>5, Zenon

LEMMA SecretOpen ==
    ASSUME SecretInv, NEW name \in SecretCalls, Secrets!Open(name)
    PROVE  SecretInv' /\ Secrets!SecretsAgree' /\ Secrets!ProjectListed'
<1> DEFINE h == Secrets!Resolved(name)
<1>1. CASE h = Secrets!Invalid
  <2>1. Secrets!Say("Open", name, "invalid", {}) /\ opened' = opened
    BY <1>1 DEF Secrets!Open
  <2>2. UNCHANGED <<project, secrets>> /\ answer'.op = "Open" /\ answer'.called = name
    BY <2>1, SayIs
  <2>3. ~Secrets!IsProject(name)
    BY <1>1, ResolvedIs
  <2>4. (Len(name) = 4 => name[4] \notin DOMAIN Undotted) => ~Secrets!IsSecret(name)
    BY <1>1, ResolvedIs
  <2>5. SecretAgrees(answer'.op, answer'.called, answer'.is)
    BY <2>2, <2>3, <2>4 DEF SecretAgrees
  <2>6. QED BY <2>1, <2>2, <2>5, SecretsThen, SecretsStay
<1>2. CASE h # Secrets!Invalid
  <2>1. /\ Secrets!Say("Open", name, "opened", {})
        /\ opened' = [called |-> name, project |-> h.project, name |-> h.name]
    BY <1>2 DEF Secrets!Open
  <2>2. /\ UNCHANGED <<project, secrets>> /\ answer'.op = "Open"
        /\ answer'.is = "opened"
    BY <2>1, SayIs
  <2>3. opened' = NamedHandle(name)
    BY <2>1 DEF NamedHandle
  <2>4. SecretAgrees(answer'.op, answer'.called, answer'.is)
    BY <2>2 DEF SecretAgrees
  <2>5. QED BY <1>2, <2>2, <2>3, <2>4, SecretsThen, SecretsStay
<1>3. QED BY <1>1, <1>2

LEMMA OpenedIs ==
    ASSUME SecretInv, opened # Secrets!NoHandle
    PROVE  \E name \in SecretCalls :
              /\ Secrets!Resolved(name) # Secrets!Invalid /\ opened.called = name
              /\ opened.project = Secrets!Resolved(name).project
              /\ opened.name = Secrets!Resolved(name).name
  BY DEF SecretInv, NamedHandle

LEMMA SecretStat ==
    ASSUME SecretInv, Secrets!Stat
    PROVE  SecretInv' /\ Secrets!SecretsAgree' /\ Secrets!ProjectListed'
<1>1. /\ opened # Secrets!NoHandle /\ opened' = opened
      /\ Secrets!Say("Stat", opened.called, Secrets!Kind(opened), {})
  BY DEF Secrets!Stat
<1>2. /\ UNCHANGED <<project, secrets>> /\ answer'.op = "Stat"
      /\ answer'.called = opened.called /\ answer'.is = Secrets!Kind(opened)
  BY <1>1, SayIs
<1>3. PICK name \in SecretCalls :
         /\ Secrets!Resolved(name) # Secrets!Invalid /\ opened.called = name
         /\ opened.project = Secrets!Resolved(name).project
         /\ opened.name = Secrets!Resolved(name).name
  BY <1>1, OpenedIs
<1>4. SecretAgrees(answer'.op, answer'.called, answer'.is)
  BY <1>2, <1>3, AnswersOf DEF SecretAgrees
<1>5. QED BY <1>1, <1>2, <1>4, SecretsThen, SecretsStay

LEMMA SecretRead ==
    ASSUME SecretInv, Secrets!Read
    PROVE  SecretInv' /\ Secrets!SecretsAgree' /\ Secrets!ProjectListed'
<1>1. /\ opened # Secrets!NoHandle /\ opened' = opened
      /\ Secrets!Say("Read", opened.called, Secrets!Content(opened), {})
  BY DEF Secrets!Read
<1>2. /\ UNCHANGED <<project, secrets>> /\ answer'.op = "Read"
      /\ answer'.called = opened.called /\ answer'.is = Secrets!Content(opened)
  BY <1>1, SayIs
<1>3. PICK name \in SecretCalls :
         /\ Secrets!Resolved(name) # Secrets!Invalid /\ opened.called = name
         /\ opened.project = Secrets!Resolved(name).project
         /\ opened.name = Secrets!Resolved(name).name
  BY <1>1, OpenedIs
<1>4. SecretAgrees(answer'.op, answer'.called, answer'.is)
  BY <1>2, <1>3, AnswersOf DEF SecretAgrees
<1>5. QED BY <1>1, <1>2, <1>4, SecretsThen, SecretsStay

LEMMA SecretReadFile ==
    ASSUME SecretInv, NEW name \in SecretCalls, Secrets!ReadFile(name)
    PROVE  SecretInv' /\ Secrets!SecretsAgree' /\ Secrets!ProjectListed'
<1> DEFINE h == Secrets!Resolved(name)
           is == IF h = Secrets!Invalid THEN "invalid" ELSE Secrets!Content(h)
<1>1. Secrets!Say("ReadFile", name, is, {}) /\ opened' = opened
  BY DEF Secrets!ReadFile
<1>2. /\ UNCHANGED <<project, secrets>> /\ answer'.op = "ReadFile"
      /\ answer'.called = name /\ answer'.is = is
  BY <1>1, SayIs
<1>3. (Len(name) = 4 => name[4] \notin DOMAIN Undotted) =>
         (is = "content" <=> Secrets!IsSecret(name))
  <2>1. CASE h = Secrets!Invalid
    <3>1. is # "content"
      BY <2>1
    <3>2. QED BY <2>1, <3>1, ResolvedIs
  <2>2. CASE h # Secrets!Invalid
    BY <2>2, AnswersOf
  <2>3. QED BY <2>1, <2>2
<1> HIDE DEF is
<1>4. SecretAgrees(answer'.op, answer'.called, answer'.is)
  BY <1>2, <1>3 DEF SecretAgrees
<1>5. QED BY <1>1, <1>2, <1>4, SecretsThen, SecretsStay

LEMMA ListIs ==
    ASSUME NEW p, NEW name, Secrets!List(p, name)
    PROVE  /\ UNCHANGED <<project, secrets>> /\ answer'.op = "ReadDir" /\ answer'.called = name
           /\ p \in Projects => answer'.is = "listing" /\ answer'.entries = Secrets!SecretsOf(p)
           /\ p \notin Projects => answer'.is = "not exist"
<1>1. CASE p \in Projects
  <2>1. Secrets!Say("ReadDir", name, "listing", Secrets!SecretsOf(p))
    BY <1>1 DEF Secrets!List
  <2>2. QED BY <1>1, <2>1, SayIs
<1>2. CASE p \notin Projects
  <2>1. Secrets!Say("ReadDir", name, "not exist", {})
    BY <1>2 DEF Secrets!List
  <2>2. QED BY <1>2, <2>1, SayIs
<1>3. QED BY <1>1, <1>2

LEMMA NotListing ==
    ASSUME NEW name, NEW is \in {"invalid", "not exist", "no project"},
           Secrets!Say("ReadDir", name, is, {})
    PROVE  /\ UNCHANGED <<project, secrets>> /\ answer'.op = "ReadDir"
           /\ answer'.called = name /\ answer'.is # "listing"
<1>1. answer'.is = is /\ answer'.op = "ReadDir" /\ answer'.called = name
  BY DEF Secrets!Say
<1>2. QED BY <1>1 DEF Secrets!Say

LEMMA SecretReadDir ==
    ASSUME SecretInv, Secrets!ReadDir
    PROVE  SecretInv' /\ Secrets!SecretsAgree' /\ Secrets!ProjectListed'
<1>1. /\ opened # Secrets!NoHandle /\ opened' = opened
      /\ Secrets!List(opened.project, opened.called)
  BY DEF Secrets!ReadDir
<1>2. PICK name \in SecretCalls :
         /\ Secrets!Resolved(name) # Secrets!Invalid /\ opened.called = name
         /\ opened.project = Secrets!Resolved(name).project
         /\ opened.name = Secrets!Resolved(name).name
  BY <1>1, OpenedIs
<1>3. /\ UNCHANGED <<project, secrets>> /\ answer'.op = "ReadDir" /\ answer'.called = name
      /\ opened.project \in Projects =>
            answer'.is = "listing" /\ answer'.entries = Secrets!SecretsOf(opened.project)
      /\ opened.project \notin Projects => answer'.is = "not exist"
  BY <1>1, <1>2, ListIs
<1>4. /\ opened.name = "." => /\ Secrets!IsProject(name)
                              /\ Secrets!Absolute(name) = <<"projects", opened.project>>
      /\ Secrets!IsProject(name) => Secrets!Absolute(name)[2] = opened.project
  BY <1>2, ResolvedIs
<1>5. ProjectLists(answer'.called, answer'.is, answer'.entries, opened')
  <2>1. ASSUME answer'.is = "listing"
        PROVE  /\ opened.project \in Projects
               /\ answer'.entries = Secrets!SecretsOf(opened.project)
               /\ \/ Secrets!Absolute(name) = <<"projects", opened.project>>
                  \/ name = opened.called /\ opened.name # "."
    BY <1>2, <1>3, <1>4, <2>1
  <2>2. ASSUME Secrets!IsProject(name), Secrets!Absolute(name)[2] \in Projects
        PROVE  answer'.is = "listing"
    BY <1>3, <1>4, <2>2
  <2>3. QED BY <1>1, <1>3, <2>1, <2>2 DEF ProjectLists
<1>6. SecretAgrees(answer'.op, answer'.called, answer'.is)
  BY <1>3 DEF SecretAgrees
<1>7. QED BY <1>1, <1>3, <1>5, <1>6, SecretsThen, SecretsStay

\* The ReadDir of a filesystem lists the project of the URL, if the name is a
\* dot, or the one that the name is of.
LEMMA SecretReadDirFS ==
    ASSUME SecretInv, NEW name \in SecretCalls, Secrets!ReadDirFS(name)
    PROVE  SecretInv' /\ Secrets!SecretsAgree' /\ Secrets!ProjectListed'
<1> DEFINE dir == IF name = <<".">> THEN [project |-> project, name |-> "."]
                  ELSE Secrets!Resolved(name)
<1>1. opened' = opened /\ Secrets!Invalid.name = "invalid"
  BY DEF Secrets!ReadDirFS, Secrets!Invalid
<1>2. \/ dir = Secrets!Invalid /\ Secrets!Say("ReadDir", name, "invalid", {})
      \/ dir.name # "." /\ Secrets!Say("ReadDir", name, "not exist", {})
      \/ /\ dir.name = "." /\ dir.project = Secrets!NoProject
         /\ Secrets!Say("ReadDir", name, "no project", {})
      \/ /\ dir.name = "." /\ dir.project # Secrets!NoProject
         /\ dir # Secrets!Invalid /\ Secrets!List(dir.project, name)
  BY DEF Secrets!ReadDirFS
<1>3. ASSUME dir.name = ".", dir.project # Secrets!NoProject, dir # Secrets!Invalid
      PROVE  Secrets!Absolute(name) = <<"projects", dir.project>>
  <2>1. CASE name = <<".">>
    <3>1. dir.project = project
      BY <2>1
    <3>2. QED BY <1>3, <2>1, <3>1, AbsoluteIs
  <2>2. CASE name # <<".">>
    BY <1>3, <2>2, ResolvedIs
  <2>3. QED BY <2>1, <2>2
<1>4. ASSUME Secrets!IsProject(name), Secrets!Absolute(name)[2] \in Projects
      PROVE  /\ dir.name = "." /\ dir # Secrets!Invalid
             /\ dir.project = Secrets!Absolute(name)[2]
  <2>1. /\ Secrets!Resolved(name) # Secrets!Invalid /\ Secrets!Resolved(name).name = "."
        /\ Secrets!Resolved(name).project = Secrets!Absolute(name)[2]
    BY <1>4, ResolvedIs
  <2>2. CASE name = <<".">>
    <3>1. Len(name) = 1 /\ name[1] = "."
      BY <2>2
    <3>2. project # Secrets!NoProject
      BY <2>1, <3>1 DEF Secrets!Resolved, Secrets!FullName
    <3>3. Secrets!Resolved(name) = [project |-> project, name |-> "."]
      BY <3>1, <3>2 DEF Secrets!Resolved
    <3>4. QED BY <2>1, <2>2, <3>3
  <2>3. QED BY <2>1, <2>2
<1> HIDE DEF dir
<1>5. CASE dir.name = "." /\ dir # Secrets!Invalid /\ Secrets!List(dir.project, name)
           /\ dir.project # Secrets!NoProject
  <2>1. /\ UNCHANGED <<project, secrets>> /\ answer'.op = "ReadDir" /\ answer'.called = name
        /\ dir.project \in Projects =>
              answer'.is = "listing" /\ answer'.entries = Secrets!SecretsOf(dir.project)
        /\ dir.project \notin Projects => answer'.is = "not exist"
    BY <1>5, ListIs
  <2>2. ProjectLists(answer'.called, answer'.is, answer'.entries, opened')
    <3>1. ASSUME answer'.is = "listing"
          PROVE  /\ dir.project \in Projects
                 /\ answer'.entries = Secrets!SecretsOf(dir.project)
      BY <2>1, <3>1
    <3>2. ASSUME Secrets!IsProject(name), Secrets!Absolute(name)[2] \in Projects
          PROVE  answer'.is = "listing"
      BY <1>4, <2>1, <3>2
    <3>3. QED BY <1>3, <1>5, <2>1, <3>1, <3>2 DEF ProjectLists
  <2>3. SecretAgrees(answer'.op, answer'.called, answer'.is)
    BY <2>1 DEF SecretAgrees
  <2>4. QED BY <1>1, <2>1, <2>2, <2>3, SecretsThen, SecretsStay
<1>6. CASE \/ dir = Secrets!Invalid /\ Secrets!Say("ReadDir", name, "invalid", {})
           \/ dir.name # "." /\ Secrets!Say("ReadDir", name, "not exist", {})
           \/ /\ dir.name = "." /\ dir.project = Secrets!NoProject
              /\ Secrets!Say("ReadDir", name, "no project", {})
  <2>1. /\ UNCHANGED <<project, secrets>> /\ answer'.op = "ReadDir" /\ answer'.called = name
        /\ answer'.is # "listing"
    <3>1. CASE Secrets!Say("ReadDir", name, "invalid", {})
      BY <3>1, NotListing
    <3>2. CASE Secrets!Say("ReadDir", name, "not exist", {})
      BY <3>2, NotListing
    <3>3. CASE Secrets!Say("ReadDir", name, "no project", {})
      BY <3>3, NotListing
    <3>4. QED BY <1>6, <3>1, <3>2, <3>3, Zenon
  <2>2. ~(Secrets!IsProject(name) /\ Secrets!Absolute(name)[2] \in Projects)
    BY <1>1, <1>4, <1>6, SecretAssumption
  <2>3. ProjectLists(answer'.called, answer'.is, answer'.entries, opened')
    BY <2>1, <2>2 DEF ProjectLists
  <2>4. SecretAgrees(answer'.op, answer'.called, answer'.is)
    BY <2>1 DEF SecretAgrees
  <2>5. QED BY <1>1, <2>1, <2>3, <2>4, SecretsThen, SecretsStay
<1>7. QED BY <1>2, <1>5, <1>6

LEMMA SecretSteps ==
    ASSUME SecretInv, Secrets!SecretsAgree, Secrets!ProjectListed,
           [Secrets!NextSecrets]_(Secrets!secretVars)
    PROVE  SecretInv' /\ Secrets!SecretsAgree' /\ Secrets!ProjectListed'
<1>1. CASE \E name \in SecretCalls : Secrets!Open(name)
  BY <1>1, SecretOpen
<1>2. CASE \E name \in SecretCalls : Secrets!ReadDirFS(name)
  BY <1>2, SecretReadDirFS
<1>3. CASE \E name \in SecretCalls : Secrets!ReadFile(name)
  BY <1>3, SecretReadFile
<1>4. CASE Secrets!Stat
  BY <1>4, SecretStat
<1>5. CASE Secrets!Read
  BY <1>5, SecretRead
<1>6. CASE Secrets!ReadDir
  BY <1>6, SecretReadDir
<1>7. CASE UNCHANGED Secrets!secretVars
  <2>1. UNCHANGED <<project, secrets>> /\ answer' = answer /\ opened' = opened
    BY <1>7 DEF Secrets!secretVars
  <2>2. QED BY <2>1, SecretsNow, SecretsThen, SecretsStay
<1>8. QED BY <1>1, <1>2, <1>3, <1>4, <1>5, <1>6, <1>7 DEF Secrets!NextSecrets

-----------------------------------------------------------------------------
(* The theorems *)

\* Whatever is asked of a store of objects, by Open and then Stat and Read, or by
\* ReadFile, the answer is about the object that the name stands for: the
\* addresses that awssmfs, awssmpfs, blobfs, consulfs and gcpsmfs make of names
\* are right for all roots, names and stores.
THEOREM AnswersAlwaysAgree == SpecStores => []AnswersAgree
<1>1. InitObjects => StoreInv /\ ObjectsAgree /\ ObjectsListed
  BY ObjectsStart
<1>2. StoreInv /\ ObjectsAgree /\ ObjectsListed /\ [NextObjects]_objectVars =>
         StoreInv' /\ ObjectsAgree' /\ ObjectsListed'
  BY ObjectSteps
<1>3. Secrets!InitSecrets => SecretInv /\ Secrets!SecretsAgree /\ Secrets!ProjectListed
  BY SecretsStart
<1>4. SecretInv /\ Secrets!SecretsAgree /\ Secrets!ProjectListed
        /\ [Secrets!NextSecrets]_(Secrets!secretVars) =>
         SecretInv' /\ Secrets!SecretsAgree' /\ Secrets!ProjectListed'
  BY SecretSteps
<1>5. QED BY <1>1, <1>2, <1>3, <1>4, PTL
          DEF SpecStores, SpecObjects, Secrets!SpecSecrets, AnswersAgree

\* A directory of any store lists the next names of the keys below it, each as a
\* directory if there is something below it and as an object if there is one,
\* and is missing if nothing is below it.
THEOREM DirectoriesAreListed == SpecStores => []DirectoryListed
<1>1. InitObjects => StoreInv /\ ObjectsAgree /\ ObjectsListed
  BY ObjectsStart
<1>2. StoreInv /\ ObjectsAgree /\ ObjectsListed /\ [NextObjects]_objectVars =>
         StoreInv' /\ ObjectsAgree' /\ ObjectsListed'
  BY ObjectSteps
<1>3. Secrets!InitSecrets => SecretInv /\ Secrets!SecretsAgree /\ Secrets!ProjectListed
  BY SecretsStart
<1>4. SecretInv /\ Secrets!SecretsAgree /\ Secrets!ProjectListed
        /\ [Secrets!NextSecrets]_(Secrets!secretVars) =>
         SecretInv' /\ Secrets!SecretsAgree' /\ Secrets!ProjectListed'
  BY SecretSteps
<1>5. QED BY <1>1, <1>2, <1>3, <1>4, PTL
          DEF SpecStores, SpecObjects, Secrets!SpecSecrets, DirectoryListed
=============================================================================
