----------------------------- MODULE OrderLemmas -----------------------------
(* Facts about two orders: instruction_lt orders the byte arrays, and the    *)
(* array with a carry is the next one of its depth; what a filter keeps of a *)
(* sequence is in the order it had there, also when it was put together.     *)
EXTENDS InstructionBytes, Subsequences, Sequences, Integers, Functions,
        FiniteSetTheorems, WellFoundedInduction, NaturalsInduction, TLAPS

(* Any numbers have a least one.                                             *)
LEMMA LeastNatural ==
  ASSUME NEW S \in SUBSET Nat, S # {}
  PROVE  \E x \in S : \A y \in S : x <= y
<1>1. \E x \in S : \A y \in S : ~(<<y, x>> \in OpToRel(<, Nat))
  BY WFMin, NatLessThanWellFounded, Zenon
<1>2. ASSUME NEW x \in S, NEW y \in S, y < x
      PROVE  <<y, x>> \in OpToRel(<, Nat)
  <2>1. <<y, x>> \in Nat \X Nat OBVIOUS
  <2> DEFINE p == <<y, x>>
  <2>2. p[1] < p[2] BY <1>2
  <2>3. p \in {ss \in Nat \X Nat : ss[1] < ss[2]} BY <2>1, <2>2
  <2> QED BY <2>3, Zenon DEF OpToRel
<1>3. PICK x \in S : \A y \in S : ~(<<y, x>> \in OpToRel(<, Nat))
  BY <1>1
<1>4. \A y \in S : ~(y < x) BY <1>2, <1>3, Zenon
<1>5. \A y \in S : x <= y BY <1>4
<1> QED BY <1>5

(* A position is a number.                                                   *)
LEMMA PositionType == Positions \subseteq Nat /\ 0 \in Positions
BY WidthAssumption DEF Positions

(* Bytes are numbers.                                                        *)
LEMMA ByteType == \A a \in Raw : \A i \in Positions : a[i] \in Nat /\ a[i] <= Base - 1
BY ByteAssumption DEF Raw, Byte

(* Two arrays that differ differ at a first position.                        *)
LEMMA FirstDifference ==
  ASSUME NEW a \in Raw, NEW b \in Raw, a # b
  PROVE  \E i \in Positions : /\ a[i] # b[i]
                              /\ \A j \in Positions : j < i => a[j] = b[j]
<1> DEFINE D == {i \in Positions : a[i] # b[i]}
<1>1. D \in SUBSET Nat BY PositionType
<1>2. D # {} BY DEF Raw
<1>3. PICK i \in D : \A j \in D : i <= j BY <1>1, <1>2, LeastNatural
<1>4. \A j \in Positions : j < i => a[j] = b[j]
  BY <1>3, PositionType
<1> QED BY <1>3, <1>4

(* No array precedes itself or one that precedes it.                         *)
LEMMA OrderAsymmetric ==
  ASSUME NEW a \in Raw, NEW b \in Raw, Precedes(a, b)
  PROVE  ~Precedes(b, a) /\ a # b
<1>1. PICK i \in Positions : /\ a[i] < b[i]
                             /\ \A j \in Positions : j < i => a[j] = b[j]
  BY DEF Precedes
<1>2. a # b BY <1>1, ByteType
<1>3. ASSUME NEW k \in Positions, b[k] < a[k],
             \A j \in Positions : j < k => b[j] = a[j]
      PROVE  FALSE
  <2>1. k < i \/ k = i \/ i < k BY PositionType
  <2> QED BY <1>1, <1>3, <2>1, ByteType
<1> QED BY <1>2, <1>3 DEF Precedes

(* The order is transitive.                                                  *)
LEMMA OrderTransitive ==
  ASSUME NEW a \in Raw, NEW b \in Raw, NEW c \in Raw,
         Precedes(a, b), Precedes(b, c)
  PROVE  Precedes(a, c)
<1>1. PICK i \in Positions : /\ a[i] < b[i]
                             /\ \A j \in Positions : j < i => a[j] = b[j]
  BY DEF Precedes
<1>2. PICK k \in Positions : /\ b[k] < c[k]
                             /\ \A j \in Positions : j < k => b[j] = c[j]
  BY DEF Precedes
<1>3. CASE i <= k
  <2>1. a[i] < c[i] BY <1>1, <1>2, <1>3, ByteType, PositionType
  <2>2. \A j \in Positions : j < i => a[j] = c[j]
    BY <1>1, <1>2, <1>3, PositionType
  <2> QED BY <2>1, <2>2 DEF Precedes
<1>4. CASE k < i
  <2>1. a[k] < c[k] BY <1>1, <1>2, <1>4
  <2>2. \A j \in Positions : j < k => a[j] = c[j]
    BY <1>1, <1>2, <1>4, PositionType
  <2> QED BY <2>1, <2>2 DEF Precedes
<1> QED BY <1>3, <1>4, PositionType

(* Of two arrays that differ one precedes the other.                         *)
LEMMA OrderTotal ==
  ASSUME NEW a \in Raw, NEW b \in Raw
  PROVE  a = b \/ Precedes(a, b) \/ Precedes(b, a)
<1> SUFFICES ASSUME a # b PROVE Precedes(a, b) \/ Precedes(b, a)
  OBVIOUS
<1>1. PICK i \in Positions : /\ a[i] # b[i]
                             /\ \A j \in Positions : j < i => a[j] = b[j]
  BY FirstDifference
<1>2. a[i] < b[i] \/ b[i] < a[i] BY <1>1, ByteType
<1> QED BY <1>1, <1>2 DEF Precedes

(* What is not below b is not below anything b is not below.                 *)
LEMMA OrderNotBelow ==
  ASSUME NEW a \in Raw, NEW b \in Raw, NEW c \in Raw,
         ~Precedes(b, a), ~Precedes(c, b)
  PROVE  ~Precedes(c, a)
BY OrderTotal, OrderTransitive, OrderAsymmetric

(* Any arrays have a first one.  Where n positions are looked at, Low are    *)
(* those that none is below; one of them with the least next byte is among   *)
(* those that none is below in n + 1 positions.                              *)
LEMMA FirstExists ==
  ASSUME NEW S \in SUBSET Raw, S # {}
  PROVE  \E a \in S : \A b \in S : b = a \/ Precedes(a, b)
<1> DEFINE Low(n) == {a \in S : \A b \in S : \A i \in Positions :
                        i < n /\ b[i] < a[i] =>
                          \E j \in Positions : j < i /\ a[j] # b[j]}
           Bad == {n \in 0 .. Width : Low(n) = {}}
<1>1. Bad = {}
  <2> SUFFICES ASSUME Bad # {} PROVE FALSE
    OBVIOUS
  <2>1. Bad \in SUBSET Nat OBVIOUS
  <2> HIDE DEF Bad
  <2>2. PICK n \in Bad : \A m \in Bad : n <= m BY <2>1, LeastNatural
  <2>3. n \in 0 .. Width /\ Low(n) = {} BY DEF Bad
  <2>4. Low(0) = S BY PositionType
  <2>5. n # 0 BY <2>3, <2>4
  <2> DEFINE p == n - 1
  <2>6. p \in 0 .. Width /\ p < n /\ p \in Positions
    BY <2>3, <2>5, WidthAssumption DEF Positions
  <2>7. p \notin Bad BY <2>1, <2>2, <2>6
  <2> HIDE DEF Low
  <2>8. PICK a \in Low(p) : TRUE BY <2>6, <2>7 DEF Bad
  <2>9. a \in S BY DEF Low
  <2> DEFINE Alike == {b \in S : \A j \in Positions : j < p => b[j] = a[j]}
             T == {b[p] : b \in Alike}
  <2>10. T \in SUBSET Nat BY <2>6, ByteType
  <2>11. a[p] \in T BY <2>9
  <2>12. PICK m \in T : \A x \in T : m <= x BY <2>10, <2>11, LeastNatural
  <2>13. PICK c \in Alike : c[p] = m OBVIOUS
  <2>14. ASSUME NEW b \in S, NEW i \in Positions, i < n, b[i] < c[i]
         PROVE  \E j \in Positions : j < i /\ c[j] # b[j]
    <3>1. CASE i < p
      <4>1. c[i] = a[i] BY <2>13, <3>1
      <4>2. PICK j \in Positions : j < i /\ a[j] # b[j]
        BY <2>8, <2>14, <3>1, <4>1 DEF Low
      <4>3. j < p BY <2>6, <3>1, <4>2, PositionType
      <4> QED BY <2>13, <4>2, <4>3
    <3>2. CASE i = p
      <4> SUFFICES ASSUME \A j \in Positions : j < p => c[j] = b[j]
                   PROVE  FALSE
        BY <3>2
      <4>1. b \in Alike BY <2>13
      <4>2. c[p] <= b[p] BY <2>12, <2>13, <4>1
      <4> QED BY <2>13, <2>14, <3>2, <4>2, ByteType
    <3> QED BY <2>3, <2>14, <3>1, <3>2, PositionType
  <2>15. c \in Low(n) BY <2>13, <2>14 DEF Low
  <2> QED BY <2>3, <2>15
<1>2. PICK a \in S : a \in Low(Width) BY <1>1, WidthAssumption
<1>3. \A i \in Positions : i < Width BY WidthAssumption DEF Positions
<1>4. \A b \in S : ~Precedes(b, a) BY <1>2, <1>3 DEF Precedes
<1>5. \A b \in S : b = a \/ Precedes(a, b) BY <1>4, OrderTotal
<1> QED BY <1>5

-----------------------------------------------------------------------------
(* The carry gives an array, with zeros where it went.                       *)
LEMMA CarriedType ==
  ASSUME NEW a \in Raw, NEW n \in 0 .. Width, NEW i \in Positions, i < n,
         CarriesTo(a, n, i)
  PROVE  /\ Carried(a, n, i) \in Raw
         /\ Carried(a, n, i)[i] = a[i] + 1
         /\ \A j \in Positions : j < i => Carried(a, n, i)[j] = a[j]
         /\ ZeroTail(a, n) => ZeroTail(Carried(a, n, i), i + 1)
<1>1. a[i] \in Nat /\ a[i] < Base - 1 BY ByteType, ByteAssumption DEF CarriesTo
<1>2. \A j \in Positions : a[j] \in Byte BY DEF Raw
<1>3. 0 \in Byte /\ a[i] + 1 \in Byte BY <1>1, ByteAssumption DEF Byte
<1>4. Carried(a, n, i) \in Raw BY <1>2, <1>3 DEF Raw, Carried
<1>5. ASSUME ZeroTail(a, n) PROVE ZeroTail(Carried(a, n, i), i + 1)
  <2> SUFFICES ASSUME NEW j \in Positions, j >= i + 1
               PROVE  Carried(a, n, i)[j] = 0
    BY DEF ZeroTail
  <2>1. CASE j < n BY <2>1, PositionType DEF Carried
  <2>2. CASE j >= n BY <1>5, <2>2, PositionType DEF Carried, ZeroTail
  <2> QED BY <2>1, <2>2, PositionType
<1>6. /\ Carried(a, n, i)[i] = a[i] + 1
      /\ \A j \in Positions : j < i => Carried(a, n, i)[j] = a[j]
  BY PositionType DEF Carried
<1> QED BY <1>4, <1>5, <1>6

(* It is above any array that agrees with a up to the byte that grows.       *)
LEMMA CarriedAbove ==
  ASSUME NEW a \in Raw, NEW c \in Raw, NEW n \in 0 .. Width,
         NEW i \in Positions, i < n, CarriesTo(a, n, i),
         \A j \in Positions : j <= i => a[j] = c[j]
  PROVE  Precedes(c, Carried(a, n, i))
<1>1. c[i] < Carried(a, n, i)[i] BY CarriedType, ByteType, PositionType
<1>2. \A j \in Positions : j < i => c[j] = Carried(a, n, i)[j]
  BY CarriedType, PositionType
<1> QED BY <1>1, <1>2 DEF Precedes

(* No array of n bytes lies between a and its carry.                         *)
LEMMA CarriedIsNext ==
  ASSUME NEW a \in Raw, NEW b \in Raw, NEW n \in 0 .. Width,
         NEW i \in Positions, i < n, CarriesTo(a, n, i),
         ZeroTail(a, n), ZeroTail(b, n), Precedes(a, b)
  PROVE  ~Precedes(b, Carried(a, n, i))
<1> DEFINE c == Carried(a, n, i)
<1>1. /\ c \in Raw /\ c[i] = a[i] + 1
      /\ \A j \in Positions : j < i => c[j] = a[j]
      /\ \A j \in Positions : j > i => c[j] = 0
  BY CarriedType, PositionType DEF ZeroTail
<1> HIDE DEF c
<1>2. PICK p \in Positions : /\ a[p] < b[p]
                             /\ \A j \in Positions : j < p => a[j] = b[j]
  BY DEF Precedes
<1>3. p <= i
  <2>1. CASE p >= n BY <1>2, <2>1, ByteType, PositionType DEF ZeroTail
  <2>2. CASE i < p /\ p < n
    BY <1>2, <2>2, ByteType, PositionType, ByteAssumption DEF CarriesTo
  <2> QED BY <2>1, <2>2, PositionType
<1>4. ASSUME NEW q \in Positions, b[q] < c[q],
             \A j \in Positions : j < q => b[j] = c[j]
      PROVE  FALSE
  <2>1. q <= i BY <1>1, <1>4, ByteType, PositionType
  <2>2. CASE q < p BY <1>1, <1>2, <1>3, <1>4, <2>2, ByteType, PositionType
  <2>3. CASE p < q BY <1>1, <1>2, <1>4, <2>1, <2>3, ByteType, PositionType
  <2>4. CASE p = q
    <3>1. CASE q < i BY <1>1, <1>2, <1>4, <2>4, <3>1, ByteType
    <3>2. CASE q = i BY <1>1, <1>2, <1>4, <2>4, <3>2, ByteType
    <3> QED BY <2>1, <3>1, <3>2, PositionType
  <2> QED BY <2>2, <2>3, <2>4, PositionType
<1> QED BY <1>4 DEF Precedes, c

(* The largest array of n bytes is above them all.                           *)
LEMMA NothingAboveWrap ==
  ASSUME NEW a \in Raw, NEW b \in Raw, NEW n \in 0 .. Width,
         WrapsAround(a, n), ZeroTail(b, n)
  PROVE  ~Precedes(a, b)
<1> SUFFICES ASSUME NEW i \in Positions, a[i] < b[i] PROVE FALSE
  BY DEF Precedes
<1>1. CASE i < n BY <1>1, ByteType, ByteAssumption DEF WrapsAround
<1>2. CASE i >= n BY <1>2, ByteType, PositionType DEF ZeroTail
<1> QED BY <1>1, <1>2, PositionType

(* Zeroing keeps an array one.                                               *)
LEMMA ZeroType ==
  ASSUME NEW a \in Raw, NEW n \in Nat
  PROVE  /\ ZeroFirst(a, n) \in Raw /\ ZeroFrom(a, n) \in Raw
         /\ ZeroTail(ZeroFrom(a, n), n)
         /\ \A j \in Positions : j < n => ZeroFrom(a, n)[j] = a[j]
<1>1. 0 \in Byte /\ \A j \in Positions : a[j] \in Byte
  BY ByteAssumption DEF Byte, Raw
<1>2. ZeroFirst(a, n) \in Raw /\ ZeroFrom(a, n) \in Raw
  BY <1>1 DEF Raw, ZeroFirst, ZeroFrom
<1>3. ZeroTail(ZeroFrom(a, n), n) BY PositionType DEF ZeroTail, ZeroFrom
<1> QED BY <1>2, <1>3 DEF ZeroFrom

-----------------------------------------------------------------------------
(* A number of greater value has a greater rank.                             *)
LEMMA RankType ==
  ASSUME NEW S \in SUBSET Nat, IsFiniteSet(S)
  PROVE  /\ Cardinality(S) \in Nat
         /\ \A i \in S : Rank(S, i) \in 1 .. Cardinality(S)
         /\ \A i, j \in S : i < j => Rank(S, i) < Rank(S, j)
<1> DEFINE Below(i) == {j \in S : j <= i}
<1>1. \A i : /\ Below(i) \in SUBSET S /\ IsFiniteSet(Below(i))
             /\ Cardinality(Below(i)) \in Nat
             /\ Cardinality(Below(i)) <= Cardinality(S)
  <2> SUFFICES ASSUME NEW i
               PROVE  /\ Below(i) \in SUBSET S /\ IsFiniteSet(Below(i))
                      /\ Cardinality(Below(i)) \in Nat
                      /\ Cardinality(Below(i)) <= Cardinality(S)
    OBVIOUS
  <2>1. Below(i) \in SUBSET S OBVIOUS
  <2> HIDE DEF Below
  <2> QED BY <2>1, FS_Subset, FS_CardinalityType
<1>2. Cardinality(S) \in Nat BY FS_CardinalityType
<1>3. ASSUME NEW i \in S PROVE Cardinality(Below(i)) # 0
  <2>1. i \in Below(i) OBVIOUS
  <2> HIDE DEF Below
  <2> QED BY <1>1, <2>1, FS_EmptySet
<1>4. ASSUME NEW i \in S, NEW j \in S, i < j
      PROVE  Cardinality(Below(i)) < Cardinality(Below(j))
  <2>1. Below(i) \in SUBSET Below(j) /\ j \in Below(j) /\ j \notin Below(i)
    <3>1. i \in Nat /\ j \in Nat /\ ~(j <= i) BY <1>4
    <3>2. ASSUME NEW k \in S, k <= i PROVE k <= j
      BY <1>4, <3>1, <3>2
    <3>3. Below(i) \in SUBSET Below(j) BY <3>2
    <3>4. j \in Below(j) /\ j \notin Below(i) BY <3>1
    <3> QED BY <3>3, <3>4
  <2> HIDE DEF Below
  <2>2. Below(i) # Below(j) BY <2>1
  <2>3. Cardinality(Below(i)) <= Cardinality(Below(j))
    BY <1>1, <2>1, FS_Subset
  <2>4. Cardinality(Below(i)) # Cardinality(Below(j))
    BY <1>1, <2>1, <2>2, FS_Subset
  <2> QED BY <1>1, <2>3, <2>4
<1>5. \A i : Rank(S, i) = Cardinality(Below(i)) BY DEF Rank
<1> HIDE DEF Below
<1> QED BY <1>1, <1>2, <1>3, <1>4, <1>5

(* Ascending has each number of the set once, in order.                      *)
LEMMA AscendingType ==
  ASSUME NEW S \in SUBSET Nat, IsFiniteSet(S)
  PROVE  /\ Cardinality(S) \in Nat
         /\ Ascending(S) \in [1 .. Cardinality(S) -> S]
         /\ Ascending(S) \in Seq(S) /\ Len(Ascending(S)) = Cardinality(S)
         /\ \A i, j \in 1 .. Cardinality(S) :
              i < j => Ascending(S)[i] < Ascending(S)[j]
         /\ \A x \in S : \E i \in 1 .. Cardinality(S) : Ascending(S)[i] = x
<1> DEFINE n == Cardinality(S)
           r == [i \in S |-> Rank(S, i)]
<1>1. /\ n \in Nat
      /\ \A i \in S : Rank(S, i) \in 1 .. n
      /\ \A i, j \in S : i < j => Rank(S, i) < Rank(S, j)
  BY RankType
<1>2. \A i, j \in S : Rank(S, i) = Rank(S, j) => i = j
  <2> SUFFICES ASSUME NEW i \in S, NEW j \in S, Rank(S, i) = Rank(S, j), i # j
               PROVE  FALSE
    OBVIOUS
  <2>1. i < j \/ j < i OBVIOUS
  <2> QED BY <1>1, <2>1
<1>3. r \in Injection(S, 1 .. n)
  <2>1. r \in [S -> 1 .. n] BY <1>1
  <2> QED BY <1>2, <2>1 DEF Injection, IsInjective
<1>4. IsFiniteSet(1 .. n) /\ Cardinality(1 .. n) = n
  <2>1. Cardinality(1 .. n) = IF 1 > n THEN 0 ELSE n - 1 + 1
    BY <1>1, FS_Interval
  <2> QED BY <1>1, <2>1, FS_Interval
<1>5. r \in Surjection(S, 1 .. n) BY <1>3, <1>4, FS_Injection
<1>6. \A k \in 1 .. n : \E i \in S : Rank(S, i) = k
  BY <1>5 DEF Surjection
<1> HIDE DEF n, r
<1>7. \A k \in 1 .. n : /\ Ascending(S)[k] \in S
                        /\ Rank(S, Ascending(S)[k]) = k
  BY <1>6 DEF Ascending, n
<1>8. Ascending(S) = [k \in 1 .. n |-> Ascending(S)[k]] BY DEF Ascending, n
<1>9. Ascending(S) \in [1 .. n -> S] BY <1>7, <1>8
<1>10. ASSUME NEW i \in 1 .. n, NEW j \in 1 .. n, i < j
       PROVE  Ascending(S)[i] < Ascending(S)[j]
  <2> DEFINE a == Ascending(S)[i]
             b == Ascending(S)[j]
  <2>1. a \in S /\ b \in S /\ Rank(S, a) = i /\ Rank(S, b) = j BY <1>7
  <2> HIDE DEF a, b
  <2>2. a = b \/ a < b \/ b < a BY <2>1
  <2>3. a < b BY <1>1, <1>10, <2>1, <2>2
  <2> QED BY <2>3 DEF a, b
<1>11. ASSUME NEW x \in S PROVE \E i \in 1 .. n : Ascending(S)[i] = x
  <2>1. Rank(S, x) \in 1 .. n BY <1>1
  <2> WITNESS Rank(S, x) \in 1 .. n
  <2> QED BY <1>2, <1>7, <2>1
<1>12. Ascending(S) \in Seq(S) /\ Len(Ascending(S)) = n
  BY <1>1, <1>9
<1> QED BY <1>1, <1>9, <1>10, <1>11, <1>12 DEF n

(* And it is the only one that does.                                         *)
LEMMA AscendingUnique ==
  ASSUME NEW S \in SUBSET Nat, NEW n \in Nat, NEW s \in [1 .. n -> S],
         \A i, j \in 1 .. n : i < j => s[i] < s[j],
         \A x \in S : \E i \in 1 .. n : s[i] = x
  PROVE  /\ IsFiniteSet(S) /\ Cardinality(S) = n
         /\ Ascending(S) = s
<1>1. \A k \in 0 .. n : IsFiniteSet(1 .. k) /\ Cardinality(1 .. k) = k
  <2> SUFFICES ASSUME NEW k \in 0 .. n
               PROVE  IsFiniteSet(1 .. k) /\ Cardinality(1 .. k) = k
    OBVIOUS
  <2>1. Cardinality(1 .. k) = IF 1 > k THEN 0 ELSE k - 1 + 1
    BY FS_Interval
  <2> QED BY <2>1, FS_Interval
<1>2. \A i, j \in 1 .. n : s[i] = s[j] => i = j
  <2> SUFFICES ASSUME NEW i \in 1 .. n, NEW j \in 1 .. n, s[i] = s[j], i # j
               PROVE  FALSE
    OBVIOUS
  <2>1. i < j \/ j < i OBVIOUS
  <2>2. s[i] \in Nat /\ s[j] \in Nat OBVIOUS
  <2> QED BY <2>1, <2>2
<1>3. ASSUME NEW k \in 0 .. n, NEW T \in SUBSET S,
             \A i \in 1 .. k : s[i] \in T,
             \A x \in T : \E i \in 1 .. k : s[i] = x
      PROVE  IsFiniteSet(T) /\ Cardinality(T) = k
  <2> DEFINE f == [i \in 1 .. k |-> s[i]]
  <2>1. f \in [1 .. k -> T] BY <1>3
  <2>2. IsInjective(f) BY <1>2 DEF IsInjective
  <2>3. \A x \in T : \E i \in 1 .. k : f[i] = x BY <1>3
  <2>4. f \in Bijection(1 .. k, T)
    BY <2>1, <2>2, <2>3 DEF Bijection, Injection, Surjection
  <2>5. ExistsBijection(1 .. k, T) BY <2>4 DEF ExistsBijection
  <2> QED BY <1>1, <2>5, FS_Bijection
<1>4. IsFiniteSet(S) /\ Cardinality(S) = n
  <2>1. n \in 0 .. n /\ S \in SUBSET S OBVIOUS
  <2> QED BY <1>3, <2>1
<1>5. ASSUME NEW k \in 1 .. n PROVE Rank(S, s[k]) = k
  <2> DEFINE T == {j \in S : j <= s[k]}
  <2>1. \A i \in 1 .. k : s[i] \in T
    <3> SUFFICES ASSUME NEW i \in 1 .. k PROVE s[i] <= s[k]
      OBVIOUS
    <3>1. i \in 1 .. n /\ (i = k \/ i < k) OBVIOUS
    <3>2. s[i] \in Nat /\ s[k] \in Nat BY <3>1
    <3> QED BY <3>1, <3>2
  <2>2. \A x \in T : \E i \in 1 .. k : s[i] = x
    <3> SUFFICES ASSUME NEW x \in T PROVE \E i \in 1 .. k : s[i] = x
      OBVIOUS
    <3>1. PICK i \in 1 .. n : s[i] = x OBVIOUS
    <3>2. s[i] <= s[k] /\ s[i] \in Nat /\ s[k] \in Nat BY <3>1
    <3>3. ~(k < i) BY <3>2
    <3> QED BY <3>1, <3>3
  <2>3. k \in 0 .. n /\ T \in SUBSET S OBVIOUS
  <2> HIDE DEF T
  <2>4. Cardinality(T) = k BY <1>3, <2>1, <2>2, <2>3
  <2> QED BY <2>4 DEF Rank, T
<1>6. ASSUME NEW k \in 1 .. n
      PROVE  (CHOOSE i \in S : Rank(S, i) = k) = s[k]
  <2>1. s[k] \in S /\ Rank(S, s[k]) = k BY <1>5
  <2>2. \A i \in S : Rank(S, i) = k => i = s[k]
    <3> SUFFICES ASSUME NEW i \in S, Rank(S, i) = k PROVE i = s[k]
      OBVIOUS
    <3>1. PICK m \in 1 .. n : s[m] = i OBVIOUS
    <3> QED BY <1>5, <3>1
  <2> QED BY <2>1, <2>2
<1>7. Ascending(S) = [k \in 1 .. n |-> s[k]]
  BY <1>4, <1>6 DEF Ascending
<1> QED BY <1>4, <1>7

(* Neighbours in the set are neighbours in the enumeration.                  *)
LEMMA AscendingNext ==
  ASSUME NEW S \in SUBSET Nat, IsFiniteSet(S),
         NEW k \in 1 .. Cardinality(S), Ascending(S)[k] + 1 \in S
  PROVE  /\ k + 1 \in 1 .. Cardinality(S)
         /\ Ascending(S)[k + 1] = Ascending(S)[k] + 1
<1> DEFINE n == Cardinality(S)
           s == Ascending(S)
<1>1. /\ n \in Nat /\ s \in [1 .. n -> S]
      /\ \A i, j \in 1 .. n : i < j => s[i] < s[j]
      /\ \A x \in S : \E i \in 1 .. n : s[i] = x
  BY AscendingType
<1>2. k \in 1 .. n /\ s[k] + 1 \in S OBVIOUS
<1> HIDE DEF n, s
<1>3. \A i \in 1 .. n : s[i] \in Nat BY <1>1
<1>4. PICK j \in 1 .. n : s[j] = s[k] + 1 BY <1>1, <1>2
<1>5. k < j
  <2>1. s[k] \in Nat /\ s[j] \in Nat BY <1>2, <1>3
  <2>2. ~(j < k)
    <3> SUFFICES ASSUME j < k PROVE FALSE
      OBVIOUS
    <3>1. s[j] < s[k] BY <1>1, <1>2
    <3> QED BY <1>4, <2>1, <3>1
  <2>3. j # k BY <1>4, <2>1
  <2> QED BY <1>1, <1>2, <2>2, <2>3
<1>6. k + 1 \in 1 .. n BY <1>1, <1>2, <1>5
<1>7. ~(k + 1 < j)
  <2> SUFFICES ASSUME k + 1 < j PROVE FALSE
    OBVIOUS
  <2>1. s[k] < s[k + 1] BY <1>1, <1>2, <1>6
  <2>2. s[k + 1] < s[j] BY <1>1, <1>6
  <2>3. s[k] \in Nat /\ s[k + 1] \in Nat BY <1>2, <1>3, <1>6
  <2> QED BY <1>4, <2>1, <2>2, <2>3
<1>8. j = k + 1 BY <1>1, <1>2, <1>5, <1>7
<1> QED BY <1>4, <1>6, <1>8 DEF n, s

(* The last one is the greatest.                                             *)
LEMMA AscendingLast ==
  ASSUME NEW S \in SUBSET Nat, IsFiniteSet(S), S # {}
  PROVE  \E x \in S : \A y \in S : y <= x
<1> DEFINE n == Cardinality(S)
           s == Ascending(S)
<1>1. /\ n \in Nat /\ s \in [1 .. n -> S]
      /\ \A i, j \in 1 .. n : i < j => s[i] < s[j]
      /\ \A x \in S : \E i \in 1 .. n : s[i] = x
  BY AscendingType
<1> HIDE DEF n, s
<1>2. n \in 1 .. n
  <2>1. PICK x \in S : TRUE OBVIOUS
  <2>2. PICK i \in 1 .. n : s[i] = x BY <1>1
  <2> QED BY <1>1, <2>2
<1>3. s[n] \in S BY <1>1, <1>2
<1>4. ASSUME NEW y \in S PROVE y <= s[n]
  <2>1. PICK i \in 1 .. n : s[i] = y BY <1>1
  <2>2. i = n \/ i < n BY <1>1
  <2>3. CASE i < n
    <3>1. s[i] < s[n] BY <1>1, <1>2, <2>3
    <3>2. s[n] \in Nat /\ y \in Nat BY <1>3
    <3> QED BY <2>1, <3>1, <3>2
  <2>4. CASE i = n
    <3>1. y \in Nat OBVIOUS
    <3> QED BY <2>1, <2>4, <3>1
  <2> QED BY <2>2, <2>3, <2>4
<1> QED BY <1>3, <1>4

-----------------------------------------------------------------------------
(* A filter keeps elements of the sequence.                                  *)
LEMMA AtType ==
  ASSUME NEW V, NEW s \in Seq(V), NEW S \in SUBSET DOMAIN s
  PROVE  /\ IsFiniteSet(S) /\ S \in SUBSET Nat
         /\ Cardinality(S) \in Nat
         /\ At(s, S) \in Seq(V) /\ Len(At(s, S)) = Cardinality(S)
<1>1. /\ DOMAIN s = 1 .. Len(s) /\ Len(s) \in Nat
      /\ \A i \in DOMAIN s : s[i] \in V
  OBVIOUS
<1>2. IsFiniteSet(1 .. Len(s)) BY <1>1, FS_Interval
<1>3. IsFiniteSet(S) /\ S \in SUBSET Nat BY <1>1, <1>2, FS_Subset
<1>4. Cardinality(S) \in Nat /\ Ascending(S) \in [1 .. Cardinality(S) -> S]
  BY <1>3, AscendingType
<1>5. At(s, S) \in [1 .. Cardinality(S) -> V] BY <1>1, <1>4 DEF At
<1>6. At(s, S) \in Seq(V) /\ Len(At(s, S)) = Cardinality(S)
  BY <1>4, <1>5
<1> QED BY <1>3, <1>4, <1>6

LEMMA SameElements ==
  ASSUME NEW V, NEW x \in Seq(V), NEW y \in Seq(V),
         Len(x) = Len(y), \A i \in 1 .. Len(y) : x[i] = y[i]
  PROVE  x = y
OBVIOUS

LEMMA ConcatType ==
  ASSUME NEW V, NEW x \in Seq(V), NEW y \in Seq(V)
  PROVE  /\ x \o y \in Seq(V) /\ Len(x \o y) = Len(x) + Len(y)
         /\ \A i \in 1 .. Len(x) : (x \o y)[i] = x[i]
         /\ \A i \in 1 .. Len(y) : (x \o y)[Len(x) + i] = y[i]
OBVIOUS

(* A filter of two sequences, one behind the other, is that of the first and *)
(* behind it that of the second; the positions C of both are A of the first  *)
(* and B of the second.                                                      *)
Halves(C, A, B, m, n) ==
  /\ A \subseteq 1 .. m /\ B \subseteq 1 .. n /\ C \subseteq 1 .. m + n
  /\ \A i \in 1 .. m : i \in C <=> i \in A
  /\ \A i \in 1 .. n : m + i \in C <=> i \in B

LEMMA AtConcat ==
  ASSUME NEW V, NEW a \in Seq(V), NEW b \in Seq(V),
         NEW A, NEW B, NEW C, Halves(C, A, B, Len(a), Len(b))
  PROVE  At(a \o b, C) = At(a, A) \o At(b, B)
<1> DEFINE m == Cardinality(A)
           n == Cardinality(B)
           p == Ascending(A)
           q == Ascending(B)
           s == [k \in 1 .. m + n |->
                   IF k <= m THEN p[k] ELSE Len(a) + q[k - m]]
<1>1. /\ Len(a) \in Nat /\ DOMAIN a = 1 .. Len(a)
      /\ Len(b) \in Nat /\ DOMAIN b = 1 .. Len(b)
      /\ a \o b \in Seq(V) /\ Len(a \o b) = Len(a) + Len(b)
      /\ DOMAIN (a \o b) = 1 .. Len(a) + Len(b)
      /\ \A i \in 1 .. Len(a) : (a \o b)[i] = a[i]
      /\ \A i \in 1 .. Len(b) : (a \o b)[Len(a) + i] = b[i]
  OBVIOUS
<1>2. /\ m \in Nat /\ IsFiniteSet(A) /\ A \in SUBSET Nat
      /\ At(a, A) \in Seq(V) /\ Len(At(a, A)) = m
  <2>1. A \in SUBSET DOMAIN a BY DEF Halves
  <2> QED BY <2>1, AtType
<1>3. /\ n \in Nat /\ IsFiniteSet(B) /\ B \in SUBSET Nat
      /\ At(b, B) \in Seq(V) /\ Len(At(b, B)) = n
  <2>1. B \in SUBSET DOMAIN b BY DEF Halves
  <2> QED BY <2>1, AtType
<1>4. /\ p \in [1 .. m -> A]
      /\ \A i, j \in 1 .. m : i < j => p[i] < p[j]
      /\ \A x \in A : \E i \in 1 .. m : p[i] = x
  BY <1>2, AscendingType
<1>5. /\ q \in [1 .. n -> B]
      /\ \A i, j \in 1 .. n : i < j => q[i] < q[j]
      /\ \A x \in B : \E i \in 1 .. n : q[i] = x
  BY <1>3, AscendingType
<1> HIDE DEF m, n, p, q
<1>0. /\ A \in SUBSET (1 .. Len(a)) /\ B \in SUBSET (1 .. Len(b))
      /\ C \in SUBSET (1 .. Len(a) + Len(b))
      /\ \A i \in 1 .. Len(a) : i \in C <=> i \in A
      /\ \A i \in 1 .. Len(b) : Len(a) + i \in C <=> i \in B
  BY DEF Halves
<1>6. \A k \in 1 .. m : /\ s[k] = p[k] /\ p[k] \in 1 .. Len(a) /\ s[k] \in C
  <2> SUFFICES ASSUME NEW k \in 1 .. m
               PROVE  s[k] = p[k] /\ p[k] \in 1 .. Len(a) /\ s[k] \in C
    OBVIOUS
  <2>1. k \in 1 .. m + n /\ k <= m BY <1>2, <1>3
  <2>2. s[k] = p[k] BY <2>1
  <2>3. p[k] \in A BY <1>4
  <2>4. p[k] \in 1 .. Len(a) BY <1>0, <2>3
  <2> QED BY <1>0, <2>2, <2>3, <2>4
<1>7. \A k \in 1 .. n : /\ s[m + k] = Len(a) + q[k] /\ q[k] \in 1 .. Len(b)
                        /\ s[m + k] \in C
  <2> SUFFICES ASSUME NEW k \in 1 .. n
               PROVE  /\ s[m + k] = Len(a) + q[k] /\ q[k] \in 1 .. Len(b)
                      /\ s[m + k] \in C
    OBVIOUS
  <2>1. m + k \in 1 .. m + n /\ ~(m + k <= m) /\ (m + k) - m = k
    BY <1>2, <1>3
  <2>2. s[m + k] = Len(a) + q[k] BY <2>1
  <2>3. q[k] \in B BY <1>5
  <2>4. q[k] \in 1 .. Len(b) BY <1>0, <2>3
  <2> QED BY <1>0, <2>2, <2>3, <2>4
<1>8. \A k \in 1 .. m + n : k \in 1 .. m \/ \E j \in 1 .. n : k = m + j
  <2> SUFFICES ASSUME NEW k \in 1 .. m + n, k \notin 1 .. m
               PROVE  \E j \in 1 .. n : k = m + j
    OBVIOUS
  <2>1. k - m \in 1 .. n /\ k = m + (k - m) BY <1>2, <1>3
  <2> QED BY <2>1
<1>9. s \in [1 .. m + n -> C]
  <2>1. \A k \in 1 .. m + n : s[k] \in C BY <1>6, <1>7, <1>8
  <2> QED BY <2>1
<1>10. ASSUME NEW i \in 1 .. m + n, NEW j \in 1 .. m + n, i < j
       PROVE  s[i] < s[j]
  <2>1. CASE j \in 1 .. m
    <3>1. i \in 1 .. m BY <1>2, <1>3, <1>10, <2>1
    <3> QED BY <1>4, <1>6, <1>10, <2>1, <3>1
  <2>2. CASE i \in 1 .. m /\ j \notin 1 .. m
    <3>1. PICK k \in 1 .. n : j = m + k BY <1>8, <2>2
    <3>2. s[i] \in 1 .. Len(a) BY <1>6, <2>2
    <3>3. s[j] = Len(a) + q[k] /\ q[k] \in 1 .. Len(b) BY <1>7, <3>1
    <3> QED BY <1>0, <1>1, <3>2, <3>3
  <2>3. CASE i \notin 1 .. m
    <3>1. PICK k \in 1 .. n : i = m + k BY <1>8, <2>3
    <3>2. j \notin 1 .. m BY <1>2, <1>3, <1>10, <2>3
    <3>3. PICK l \in 1 .. n : j = m + l BY <1>8, <3>2
    <3>4. k < l BY <1>2, <1>10, <3>1, <3>3
    <3>5. q[k] < q[l] /\ q[k] \in Nat /\ q[l] \in Nat
      <4>1. q[k] < q[l] BY <1>5, <3>4
      <4>2. q[k] \in 1 .. Len(b) /\ q[l] \in 1 .. Len(b) BY <1>7
      <4> QED BY <4>1, <4>2
    <3>6. s[i] = Len(a) + q[k] /\ s[j] = Len(a) + q[l]
      BY <1>7, <3>1, <3>3
    <3> QED BY <1>0, <1>1, <3>5, <3>6
  <2> QED BY <2>1, <2>2, <2>3
<1>11. ASSUME NEW x \in C PROVE \E i \in 1 .. m + n : s[i] = x
  <2>1. CASE x \in 1 .. Len(a)
    <3>1. PICK i \in 1 .. m : p[i] = x BY <1>0, <1>4, <2>1
    <3>2. i \in 1 .. m + n BY <1>2, <1>3
    <3> QED BY <1>6, <3>1, <3>2
  <2>2. CASE x \notin 1 .. Len(a)
    <3>1. x - Len(a) \in 1 .. Len(b) /\ x = Len(a) + (x - Len(a))
      BY <1>0, <1>1, <2>2
    <3>2. x - Len(a) \in B BY <1>0, <3>1, <2>2
    <3>3. PICK i \in 1 .. n : q[i] = x - Len(a) BY <1>5, <3>2
    <3>4. m + i \in 1 .. m + n BY <1>2, <1>3
    <3>5. s[m + i] = x BY <1>7, <3>1, <3>3
    <3> QED BY <3>4, <3>5
  <2> QED BY <2>1, <2>2
<1> HIDE DEF s
<1>12. C \in SUBSET Nat /\ m + n \in Nat BY <1>0, <1>1, <1>2, <1>3
<1>13. Cardinality(C) = m + n /\ Ascending(C) = s
  BY <1>9, <1>10, <1>11, <1>12, AscendingUnique
<1>14. /\ At(a \o b, C) \in Seq(V) /\ Len(At(a \o b, C)) = m + n
  <2>1. Len(At(a \o b, C)) = Cardinality(C) /\ At(a \o b, C) \in Seq(V)
    <3>1. C \in SUBSET DOMAIN (a \o b) BY <1>1 DEF Halves
    <3> QED BY <1>0, <1>1, <3>1, AtType
  <2> QED BY <1>13, <2>1
<1> HIDE DEF At
<1>15. /\ At(a, A) \o At(b, B) \in Seq(V)
       /\ Len(At(a, A) \o At(b, B)) = m + n
  BY <1>2, <1>3, ConcatType
<1>16. ASSUME NEW k \in 1 .. m + n
       PROVE  At(a \o b, C)[k] = (At(a, A) \o At(b, B))[k]
  <2>1. At(a \o b, C)[k] = (a \o b)[s[k]] BY <1>13 DEF At
  <2>2. CASE k \in 1 .. m
    <3>1. (At(a, A) \o At(b, B))[k] = At(a, A)[k] BY <1>2, <1>3, <2>2
    <3>2. At(a, A)[k] = a[p[k]] BY <2>2 DEF At, m, p
    <3> QED BY <1>0, <1>1, <1>6, <2>1, <2>2, <3>1, <3>2
  <2>3. CASE k \notin 1 .. m
    <3>1. PICK j \in 1 .. n : k = m + j BY <1>8, <2>3
    <3>2. (At(a, A) \o At(b, B))[k] = At(b, B)[j] BY <1>2, <1>3, <3>1
    <3>3. At(b, B)[j] = b[q[j]] BY <3>1 DEF At, n, q
    <3> QED BY <1>0, <1>1, <1>7, <2>1, <3>1, <3>2, <3>3
  <2> QED BY <2>2, <2>3
<1> QED BY <1>14, <1>15, <1>16
=============================================================================
