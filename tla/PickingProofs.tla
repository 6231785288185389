--------------------------- MODULE PickingProofs ---------------------------
(***************************************************************************)
(* What Pick and InOrder keep, found by counting positions: the provers     *)
(* have no induction over a sequence.  And what a walk visits, found by a   *)
(* property of its state that each call keeps; last, what the traces and    *)
(* why() then show of the stores.                                           *)
(***************************************************************************)
EXTENDS ProvenanceTrace, FiniteSetTheorems, WellFoundedInduction, TLAPS

(* A non-empty set of numbers has a least one.                              *)
LEMMA LeastExists ==
  ASSUME NEW S \in SUBSET Nat, S # {}
  PROVE  \E m \in S : \A n \in S : m <= n
<1>1. PICK m \in S : \A n \in S : ~ (<<n, m>> \in OpToRel(<, Nat))
  BY WFMin, NatLessThanWellFounded
<1>2. ASSUME NEW n \in S PROVE m <= n
  <2>1. n \in Nat /\ m \in Nat
    OBVIOUS
  <2>2. n < m => <<n, m>> \in OpToRel(<, Nat)
    BY <2>1 DEF OpToRel
  <2>3. ~ (n < m)
    BY <1>1, <2>2
  <2> QED
    BY <2>1, <2>3
<1> QED
  BY <1>2

LEMMA PositionsFinite ==
  ASSUME NEW L \in Nat, NEW K \in SUBSET (1..L)
  PROVE  IsFiniteSet(K) /\ Cardinality(K) \in Nat
<1>1. L \in Int /\ 1 \in Int
  OBVIOUS
<1>2. IsFiniteSet(1..L)
  BY <1>1, FS_Interval
<1>3. IsFiniteSet(K)
  BY <1>2, FS_Subset
<1> QED
  BY <1>3, FS_CardinalityType

(* Counting the positions of a set up to one of the file.                   *)
Below(K, i) == {j \in K : j <= i}

LEMMA BelowNone ==
  ASSUME NEW K, \A j \in K : j \in Nat /\ 1 <= j
  PROVE  Below(K, 0) = {}
  BY DEF Below

LEMMA BelowAll ==
  ASSUME NEW K, NEW L, \A j \in K : j <= L
  PROVE  Below(K, L) = K
  BY DEF Below

LEMMA BelowNext ==
  ASSUME NEW K, \A j \in K : j \in Nat, NEW i \in Nat, i # 0
  PROVE  /\ i \in K => Below(K, i) = Below(K, i - 1) \cup {i} /\ i \notin Below(K, i - 1)
         /\ i \notin K => Below(K, i) = Below(K, i - 1)
<1>1. \A j \in K : j <= i <=> j <= i - 1 \/ j = i
  OBVIOUS
<1>2. ~ (i <= i - 1)
  OBVIOUS
<1> QED
  BY <1>1, <1>2 DEF Below

LEMMA BelowInterval ==
  ASSUME NEW a \in Nat, NEW b \in Nat, NEW i \in a..b
  PROVE  Cardinality(Below(a..b, i)) = i + 1 - a
<1>1. Below(a..b, i) = a..i
  BY DEF Below
<1>2. Cardinality(a..i) = IF a > i THEN 0 ELSE i - a + 1
  BY FS_Interval
<1> QED
  BY <1>1, <1>2

(* There is one: counting up, the number of picked positions grows by at    *)
(* most one with each position.                                             *)
LEMMA PlaceExists ==
  ASSUME NEW L \in Nat, NEW K \in SUBSET (1..L), NEW n \in 1..Cardinality(K)
  PROVE  Place(K, n) \in K /\ Cardinality(Below(K, Place(K, n))) = n
<1> DEFINE c(i) == Cardinality(Below(K, i))
<1>0. IsFiniteSet(K) /\ Cardinality(K) \in Nat
  BY PositionsFinite
<1>k. \A j \in K : j \in Nat /\ 1 <= j /\ j <= L
  OBVIOUS
<1>n. n \in Nat /\ 1 <= n /\ n <= Cardinality(K)
  BY <1>0
<1>1. ASSUME NEW i PROVE IsFiniteSet(Below(K, i)) /\ c(i) \in Nat
  <2>1. Below(K, i) \in SUBSET K
    BY DEF Below
  <2> QED
    BY <1>0, <2>1, FS_Subset, FS_CardinalityType
<1>2. PICK i \in Nat : c(i) >= n /\ \A m \in Nat : c(m) >= n => i <= m
  <2> DEFINE S == {m \in Nat : c(m) >= n}
  <2>1. c(L) = Cardinality(K)
    BY <1>k, BelowAll
  <2> HIDE DEF c
  <2>2. L \in S
    BY <1>n, <1>0, <2>1
  <2>3. \E i \in S : \A m \in S : i <= m
    BY <2>2, LeastExists
  <2> QED
    BY <2>3
<1>3. i # 0
  <2>1. c(0) = 0
    BY <1>k, BelowNone, FS_EmptySet
  <2> HIDE DEF c
  <2> QED
    BY <1>2, <1>n, <2>1
<1>4. c(i - 1) < n /\ c(i - 1) \in Nat
  <2>1. i - 1 \in Nat
    BY <1>3
  <2>2. c(i - 1) \in Nat
    BY <1>1
  <2> HIDE DEF c
  <2>3. ~ (c(i - 1) >= n)
    BY <1>2, <2>1
  <2> QED
    BY <1>n, <2>2, <2>3
<1>5. c(i) = c(i - 1) + 1 /\ i \in K
  <2>1. ASSUME i \in K PROVE c(i) = c(i - 1) + 1
    <3>1. Below(K, i) = Below(K, i - 1) \cup {i} /\ i \notin Below(K, i - 1)
      BY <1>3, <1>k, <2>1, BelowNext
    <3>2. IsFiniteSet(Below(K, i - 1))
      BY <1>1
    <3> QED
      BY <3>1, <3>2, FS_AddElement
  <2>2. i \notin K => c(i) = c(i - 1)
    BY <1>3, <1>k, BelowNext
  <2> HIDE DEF c
  <2> QED
    BY <1>2, <1>4, <1>n, <2>1, <2>2
<1>6. c(i) = n
  <2> HIDE DEF c
  <2> QED
    BY <1>2, <1>4, <1>5, <1>n
<1> QED
  BY <1>5, <1>6 DEF Place, Below

LEMMA PickType ==
  ASSUME NEW S, NEW s \in Seq(S), NEW K \in SUBSET DOMAIN s, NEW T, \A i \in K : s[i] \in T
  PROVE  /\ Pick(s, K) \in Seq(T)
         /\ \A n \in DOMAIN Pick(s, K) : \E i \in K : Pick(s, K)[n] = s[i]
<1>1. Len(s) \in Nat /\ K \in SUBSET (1..Len(s))
  OBVIOUS
<1>2. Cardinality(K) \in Nat
  BY <1>1, PositionsFinite
<1>3. Pick(s, K) = [n \in 1..Cardinality(K) |-> s[Place(K, n)]]
  BY DEF Pick
<1>4. \A n \in 1..Cardinality(K) : Place(K, n) \in K
  BY <1>1, PlaceExists
<1>5. \A n \in 1..Cardinality(K) : s[Place(K, n)] \in T
  BY <1>4
<1> QED
  BY <1>2, <1>3, <1>4, <1>5

(* Of a contiguous set of positions it takes the lines between its ends.    *)
LEMMA PickInterval ==
  ASSUME NEW S, NEW s \in Seq(S), NEW a \in Nat, NEW b \in Nat, 1 <= a, a <= b + 1, b <= Len(s)
  PROVE  Pick(s, a..b) = [n \in 1..(b + 1 - a) |-> s[a + n - 1]]
<1>1. Cardinality(a..b) = b + 1 - a
  <2>1. Cardinality(a..b) = IF a > b THEN 0 ELSE b - a + 1
    BY FS_Interval
  <2> QED
    BY <2>1
<1>2. ASSUME NEW n \in 1..(b + 1 - a) PROVE Place(a..b, n) = a + n - 1
  <2>1. a..b \in SUBSET (1..Len(s)) /\ n \in 1..Cardinality(a..b) /\ Len(s) \in Nat
    BY <1>1
  <2> DEFINE i == Place(a..b, n)
  <2>2. i \in a..b /\ Cardinality(Below(a..b, i)) = n
    BY <2>1, PlaceExists
  <2>3. i + 1 - a = n
    BY <2>2, BelowInterval
  <2>4. i \in Nat /\ n \in Nat
    BY <2>2
  <2> HIDE DEF i
  <2>5. i = a + n - 1
    BY <2>3, <2>4
  <2> QED
    BY <2>5 DEF i
<1>3. Pick(s, a..b) = [n \in 1..(b + 1 - a) |-> s[Place(a..b, n)]]
  BY <1>1 DEF Pick
<1> QED
  BY <1>2, <1>3

(* A set of positions that leaves none out between two of its own.          *)
LEMMA ConvexIsInterval ==
  ASSUME NEW L \in Nat, NEW K \in SUBSET (1..L),
         \A i, j \in K : \A m \in 1..L : i <= m /\ m <= j => m \in K
  PROVE  \E a, b \in Nat : 1 <= a /\ a <= b + 1 /\ b <= L /\ K = a..b
<1>1. CASE K = {}
  <2>1. K = 1..0
    BY <1>1
  <2> QED
    BY <2>1
<1>2. CASE K # {}
  <2>1. PICK a \in K : \A n \in K : a <= n
    BY <1>2, LeastExists
  <2>2. PICK b \in K : \A n \in K : n <= b
    <3> DEFINE T == {L - i : i \in K}
    <3>1. T \in SUBSET Nat /\ T # {}
      BY <1>2
    <3>2. PICK m \in T : \A n \in T : m <= n
      BY <3>1, LeastExists
    <3>3. PICK i \in K : m = L - i
      BY <3>2
    <3>4. ASSUME NEW n \in K PROVE n <= i
      <4>1. L - n \in T
        OBVIOUS
      <4>2. L - i <= L - n
        BY <3>2, <3>3, <4>1
      <4>3. n \in Nat /\ i \in Nat
        OBVIOUS
      <4> HIDE DEF T
      <4> QED
        BY <4>2, <4>3
    <3> QED
      BY <3>4
  <2>3. ASSUME NEW n \in K PROVE n \in a..b
    BY <2>1, <2>2
  <2>4. ASSUME NEW n \in a..b PROVE n \in K
    <3>1. n \in 1..L /\ a <= n /\ n <= b
      OBVIOUS
    <3> QED
      BY <3>1
  <2>5. K = a..b
    BY <2>3, <2>4
  <2>6. a \in Nat /\ b \in Nat /\ 1 <= a /\ a <= b + 1 /\ b <= L
    BY <2>1
  <2> QED
    BY <2>5, <2>6
<1> QED
  BY <1>1, <1>2

LEMMA PickAgree ==
  ASSUME NEW S, NEW s \in Seq(S), NEW t \in Seq(S), NEW K \in SUBSET (1..Len(s)),
         \A i \in K : s[i] = t[i]
  PROVE  Pick(s, K) = Pick(t, K)
<1>0. Len(s) \in Nat
  OBVIOUS
<1>1. \A n \in 1..Cardinality(K) : Place(K, n) \in K
  BY <1>0, PlaceExists
<1>2. \A n \in 1..Cardinality(K) : s[Place(K, n)] = t[Place(K, n)]
  BY <1>1
<1>3. /\ Pick(s, K) = [n \in 1..Cardinality(K) |-> s[Place(K, n)]]
      /\ Pick(t, K) = [n \in 1..Cardinality(K) |-> t[Place(K, n)]]
  BY DEF Pick
<1> QED
  BY <1>2, <1>3

(* Each position of the set has its place.                                  *)
LEMMA PlaceInverse ==
  ASSUME NEW L \in Nat, NEW K \in SUBSET (1..L), NEW i \in K
  PROVE  \E n \in 1..Cardinality(K) : Place(K, n) = i
<1> DEFINE n == Cardinality(Below(K, i))
<1>1. IsFiniteSet(K) /\ Cardinality(K) \in Nat
  BY PositionsFinite
<1>2. Below(K, i) \in SUBSET K /\ i \in Below(K, i)
  BY DEF Below
<1>3. IsFiniteSet(Below(K, i)) /\ n \in Nat /\ n <= Cardinality(K)
  BY <1>1, <1>2, FS_Subset, FS_CardinalityType
<1>4. n # 0
  BY <1>2, <1>3, FS_EmptySet
<1> HIDE DEF n
<1>5. n \in 1..Cardinality(K)
  BY <1>1, <1>3, <1>4
<1> DEFINE j == Place(K, n)
<1>6. j \in K /\ Cardinality(Below(K, j)) = n
  BY <1>5, PlaceExists
<1> HIDE DEF j
<1>0. \A x \in K : x \in Nat
  OBVIOUS
<1>7. ASSUME NEW a \in K, NEW b \in K, a < b PROVE Cardinality(Below(K, a)) # Cardinality(Below(K, b))
  <2>1. a \in Nat /\ b \in Nat
    BY <1>0
  <2>2. (\A x \in K : x <= a => x <= b) /\ ~(b <= a) /\ b <= b
    BY <2>1, <1>0, <1>7
  <2>3. Below(K, a) \in SUBSET Below(K, b) /\ b \in Below(K, b) /\ b \notin Below(K, a)
    BY <2>2 DEF Below
  <2>4. IsFiniteSet(Below(K, b))
    BY <1>1, FS_Subset DEF Below
  <2> QED
    BY <2>3, <2>4, FS_Subset
<1>8. i \in Nat /\ j \in Nat
  BY <1>0, <1>6
<1>10. Cardinality(Below(K, i)) = n
  BY DEF n
<1>9. j = i
  <2>1. CASE j < i
    BY <2>1, <1>6, <1>7, <1>10
  <2>2. CASE i < j
    BY <2>2, <1>6, <1>7, <1>10
  <2> QED
    BY <2>1, <2>2, <1>8
<1> QED
  BY <1>5, <1>9 DEF j

(* Numbering the places is a bijection.                                    *)
LEMMA Places ==
  ASSUME NEW L \in Nat, NEW K \in SUBSET (1..L)
  PROVE  /\ Cardinality(K) \in Nat
         /\ \A n \in 1..Cardinality(K) : Place(K, n) \in K
         /\ \A m, n \in 1..Cardinality(K) : Place(K, m) = Place(K, n) => m = n
         /\ \A i \in K : \E n \in 1..Cardinality(K) : Place(K, n) = i
<1>1. \A n \in 1..Cardinality(K) : Place(K, n) \in K /\ Cardinality(Below(K, Place(K, n))) = n
  BY PlaceExists
<1>2. \A m, n \in 1..Cardinality(K) : Place(K, m) = Place(K, n) => m = n
  BY <1>1
<1> QED
  BY <1>1, <1>2, PositionsFinite, PlaceInverse

LEMMA PickPlaces ==
  ASSUME NEW S, NEW s \in Seq(S), NEW K \in SUBSET DOMAIN s
  PROVE  /\ Pick(s, K) \in Seq(S)
         /\ \A n \in DOMAIN Pick(s, K) : Place(K, n) \in K /\ Pick(s, K)[n] = s[Place(K, n)]
         /\ \A m, n \in DOMAIN Pick(s, K) : Place(K, m) = Place(K, n) => m = n
         /\ \A i \in K : \E n \in DOMAIN Pick(s, K) : Place(K, n) = i
<1>1. Len(s) \in Nat /\ K \in SUBSET (1..Len(s)) /\ \A i \in K : s[i] \in S
  OBVIOUS
<1>2. Pick(s, K) \in Seq(S)
  BY <1>1, PickType
<1>3. Pick(s, K) = [n \in 1..Cardinality(K) |-> s[Place(K, n)]]
  BY DEF Pick
<1> QED
  BY <1>1, <1>2, <1>3, Places

(* The position that has n picked ones up to it is the n-th.               *)
LEMMA PlaceIs ==
  ASSUME NEW L \in Nat, NEW K \in SUBSET (1..L), NEW i \in K
  PROVE  Place(K, Cardinality(Below(K, i))) = i
<1>1. PICK n \in 1..Cardinality(K) : Place(K, n) = i
  BY PlaceInverse
<1>2. Cardinality(Below(K, Place(K, n))) = n
  BY PlaceExists
<1> QED
  BY <1>1, <1>2

LEMMA PickNone ==
  ASSUME NEW s
  PROVE  Pick(s, {}) = <<>>
<1>1. Cardinality({}) = 0
  BY FS_EmptySet
<1>2. 1..0 = {}
  OBVIOUS
<1>3. Pick(s, {}) = [n \in 1..0 |-> s[Place({}, n)]]
  BY <1>1 DEF Pick
<1> QED
  BY <1>2, <1>3

(* Picking one more position, past the others, appends what is there.      *)
LEMMA PickNext ==
  ASSUME NEW S, NEW s \in Seq(S), NEW K \in SUBSET DOMAIN s, NEW i \in DOMAIN s,
         \A j \in K : j < i
  PROVE  Pick(s, K \cup {i}) = Append(Pick(s, K), s[i])
<1> DEFINE M == K \cup {i}
           c == Cardinality(K)
<1>1. /\ Len(s) \in Nat /\ DOMAIN s = 1..Len(s) /\ K \in SUBSET (1..Len(s)) /\ M \in SUBSET (1..Len(s))
      /\ i \in Nat /\ i \in M /\ i \notin K
  OBVIOUS
<1>2. IsFiniteSet(K) /\ c \in Nat
  BY <1>1, PositionsFinite
<1>3. Cardinality(M) = c + 1
  BY <1>1, <1>2, FS_AddElement
<1>m. \A j \in M : j \in K \/ j = i
  OBVIOUS
<1>k. \A j \in K : j \in M
  OBVIOUS
<1> HIDE DEF M, c
<1>p. \A x \in M : Place(M, Cardinality(Below(M, x))) = x
  <2> TAKE x \in M
  <2> QED
    BY <1>1, PlaceIs
<1>4. ASSUME NEW n \in 1..c PROVE Place(M, n) = Place(K, n)
  <2>1. Place(K, n) \in K /\ Cardinality(Below(K, Place(K, n))) = n
    BY <1>1, PlaceExists DEF c
  <2>2. Below(M, Place(K, n)) = Below(K, Place(K, n))
    <3>1. ~ (i <= Place(K, n))
      BY <1>1, <2>1
    <3> QED
      BY <1>m, <1>k, <3>1 DEF Below
  <2> QED
    BY <1>k, <1>p, <2>1, <2>2
<1>5. Place(M, c + 1) = i
  <2>1. Below(M, i) = M
    <3>1. \A j \in M : j <= i
      BY <1>1, <1>m
    <3> QED
      BY <3>1 DEF Below
  <2> QED
    BY <1>1, <1>3, <1>p, <2>1
<1>6. Pick(s, M) = [n \in 1..c + 1 |-> s[Place(M, n)]] /\ Pick(s, K) = [n \in 1..c |-> s[Place(K, n)]]
  BY <1>3 DEF Pick, c
<1>7. \A n \in 1..c : Place(K, n) \in K
  BY <1>1, PlaceExists DEF c
<1>8. Pick(s, K) \in Seq(S) /\ Len(Pick(s, K)) = c
  BY <1>1, <1>2, <1>6, <1>7
<1>9. \A n \in 1..c + 1 : Pick(s, M)[n] = Append(Pick(s, K), s[i])[n]
  <2> TAKE n \in 1..c + 1
  <2>0. \A q \in Seq(S) : \A x \in S : \A k \in 1..Len(q) + 1 :
           Append(q, x)[k] = IF k = Len(q) + 1 THEN x ELSE q[k]
    OBVIOUS
  <2>3. s[i] \in S
    OBVIOUS
  <2>4. Append(Pick(s, K), s[i])[n] = IF n = c + 1 THEN s[i] ELSE Pick(s, K)[n]
    BY <1>8, <2>0, <2>3
  <2>1. CASE n \in 1..c
    <3>1. n # c + 1
      BY <1>2, <2>1
    <3> QED
      BY <1>4, <1>6, <2>1, <2>4, <3>1
  <2>2. CASE n = c + 1
    BY <1>5, <1>6, <2>2, <2>4
  <2>5. c \in Nat
    BY <1>2
  <2>6. n \in 1..c \/ n = c + 1
    BY <2>5
  <2> QED
    BY <2>1, <2>2, <2>6
<1>10. DOMAIN Append(Pick(s, K), s[i]) = 1..c + 1
  BY <1>1, <1>2, <1>8
<1>11. Pick(s, M) = Append(Pick(s, K), s[i])
  BY <1>2, <1>6, <1>8, <1>9, <1>10
<1> QED
  BY <1>11 DEF M

LEMMA PickOne ==
  ASSUME NEW S, NEW s \in Seq(S), NEW i \in DOMAIN s
  PROVE  Pick(s, {i}) = <<s[i]>>
<1>1. Pick(s, {} \cup {i}) = Append(Pick(s, {}), s[i])
  BY PickNext
<1>2. {} \cup {i} = {i} /\ Append(<<>>, s[i]) = <<s[i]>>
  OBVIOUS
<1> QED
  BY <1>1, <1>2, PickNone

(* A set of numbers in order has each of them once.                        *)
LEMMA InOrderLists ==
  ASSUME NEW L \in Nat, NEW K \in SUBSET (1..L)
  PROVE  /\ InOrder(K) \in Seq(K)
         /\ \A m, n \in DOMAIN InOrder(K) : InOrder(K)[m] = InOrder(K)[n] => m = n
<1>1. InOrder(K) = [n \in 1..Cardinality(K) |-> Place(K, n)]
  BY DEF InOrder
<1>2. /\ Cardinality(K) \in Nat
      /\ \A n \in 1..Cardinality(K) : Place(K, n) \in K
      /\ \A m, n \in 1..Cardinality(K) : Place(K, m) = Place(K, n) => m = n
  BY Places
<1>3. InOrder(K) \in Seq(K) /\ DOMAIN InOrder(K) = 1..Cardinality(K)
  BY <1>1, <1>2
<1> QED
  BY <1>1, <1>2, <1>3

LEMMA PickAll ==
  ASSUME NEW S, NEW s \in Seq(S)
  PROVE  Pick(s, DOMAIN s) = s
<1>1. Len(s) \in Nat /\ DOMAIN s = 1..Len(s)
  OBVIOUS
<1>2. Pick(s, 1..Len(s)) = [n \in 1..(Len(s) + 1 - 1) |-> s[1 + n - 1]]
  BY <1>1, PickInterval
<1>3. Len(s) + 1 - 1 = Len(s) /\ \A n \in 1..Len(s) : 1 + n - 1 = n
  BY <1>1
<1>4. Pick(s, 1..Len(s)) = [n \in 1..Len(s) |-> s[n]]
  BY <1>2, <1>3
<1> QED
  BY <1>1, <1>4

(* Of n + Cardinality(used) numbers n at least are not used.               *)
LEMMA FreeNumbers ==
  ASSUME NEW n \in Nat, NEW used, IsFiniteSet(used)
  PROVE  LET K == (1..n + Cardinality(used)) \ used
         IN Cardinality(K) \in Nat /\ n <= Cardinality(K)
<1> DEFINE A == 1..n + Cardinality(used)
           K == A \ used
<1>1. Cardinality(used) \in Nat
  BY FS_CardinalityType
<1>2. IsFiniteSet(A) /\ Cardinality(A) = n + Cardinality(used)
  <2>1. PICK m \in Nat : m = n + Cardinality(used)
    BY <1>1
  <2>2. 1 \in Int /\ m \in Int /\ (1 > m => m = 0) /\ m - 1 + 1 = m
    BY <2>1
  <2>3. IsFiniteSet(1..m) /\ Cardinality(1..m) = IF 1 > m THEN 0 ELSE m - 1 + 1
    BY <2>2, FS_Interval
  <2> QED
    BY <2>1, <2>2, <2>3
<1>3. IsFiniteSet(K) /\ Cardinality(K) = Cardinality(A) - Cardinality(A \cap used)
  BY <1>2, FS_Difference
<1>4. Cardinality(A \cap used) <= Cardinality(used) /\ Cardinality(A \cap used) \in Nat
  BY FS_Subset, FS_CardinalityType
<1>5. Cardinality(K) \in Nat
  BY <1>3, FS_CardinalityType
<1> HIDE DEF A, K
<1>6. n <= Cardinality(K)
  BY <1>1, <1>2, <1>3, <1>4
<1> QED
  BY <1>5, <1>6 DEF A, K

(* A finite set of numbers has an upper bound.                             *)
LEMMA FiniteIsBounded ==
  ASSUME NEW K \in SUBSET Nat, IsFiniteSet(K)
  PROVE  \E top \in Nat : \A k \in K : k <= top
<1> DEFINE Bounded(J) == \E top \in Nat : \A k \in J : k <= top
           Sizes      == {n \in Nat : \E J \in SUBSET K : IsFiniteSet(J) /\ Cardinality(J) = n /\ ~Bounded(J)}
<1>1. SUFFICES ASSUME Sizes # {} PROVE FALSE
  <2>1. Sizes = {} => Bounded(K)
    BY FS_CardinalityType
  <2> QED
    BY <2>1
<1>2. PICK n \in Sizes : \A m \in Sizes : n <= m
  BY <1>1, LeastExists
<1>3. PICK J \in SUBSET K : IsFiniteSet(J) /\ Cardinality(J) = n /\ ~Bounded(J)
  BY <1>2
<1>4. PICK x \in J : TRUE
  BY <1>3
<1>5. IsFiniteSet(J \ {x}) /\ Cardinality(J \ {x}) = n - 1 /\ Cardinality(J \ {x}) \in Nat
  <2>1. IsFiniteSet(J \ {x}) /\ Cardinality(J \ {x}) = Cardinality(J) - 1
    BY <1>3, <1>4, FS_RemoveElement
  <2> QED
    BY <1>3, <2>1, FS_CardinalityType
<1>6. Bounded(J \ {x})
  <2>1. n - 1 \notin Sizes /\ n - 1 \in Nat
    BY <1>2, <1>5
  <2> QED
    BY <1>3, <1>5, <2>1
<1>7. PICK top \in Nat : \A k \in J \ {x} : k <= top
  BY <1>6
<1>8. x \in Nat /\ \A k \in J : k \in Nat
  BY <1>3, <1>4
<1>9. \A k \in J : k <= top + x
  BY <1>7, <1>8
<1>10. top + x \in Nat
  BY <1>8
<1> QED
  BY <1>3, <1>9, <1>10

-----------------------------------------------------------------------------
(* A walk visits what it can reach.                                        *)
Due(U)      == [uri : U, depth : Nat]
WalkState(U) == [visited : Seq(U), todo : Seq(Due(U))]

LeadsIn(next, U) == \A u \in DOMAIN next : next[u] \in Seq(U)
Seen(walk)       == Members(walk.visited)

Start(uri)              == [visited |-> <<>>, todo |-> ToVisit(<<uri>>, 0)]
Turn(next, limit, walk) == IF walk.todo = <<>> THEN walk ELSE traceFrom(next, limit, walk)

IsWalk(w, next, limit, uri, calls) ==
  w = [n \in 0..calls |-> IF n = 0 THEN Start(uri) ELSE Turn(next, limit, w[n - 1])]

LEMMA MembersAre ==
  /\ \A S : \A q \in Seq(S) : Members(q) \in SUBSET S
  /\ \A S : \A p, q \in Seq(S) : Members(p \o q) = Members(p) \cup Members(q)
  /\ \A S : \A q \in Seq(S), x \in S : Members(Append(q, x)) = Members(q) \cup {x}
  /\ \A S : \A q \in Seq(S) : q # <<>> => Members(q) = {q[1]} \cup Members(Tail(q))
  /\ Members(<<>>) = {}
<1>1. ASSUME NEW S, NEW q \in Seq(S) PROVE Members(q) \in SUBSET S
  BY DEF Members
<1>2. ASSUME NEW S, NEW p \in Seq(S), NEW q \in Seq(S) PROVE Members(p \o q) = Members(p) \cup Members(q)
  <2>1. \A i \in DOMAIN (p \o q) : (p \o q)[i] \in Members(p) \cup Members(q)
    BY DEF Members
  <2>2. \A i \in DOMAIN p : i \in DOMAIN (p \o q) /\ (p \o q)[i] = p[i]
    OBVIOUS
  <2>3. \A i \in DOMAIN q : Len(p) + i \in DOMAIN (p \o q) /\ (p \o q)[Len(p) + i] = q[i]
    OBVIOUS
  <2>4. Members(p \o q) \subseteq Members(p) \cup Members(q)
    BY <2>1 DEF Members
  <2>5. Members(p) \subseteq Members(p \o q)
    BY <2>2 DEF Members
  <2>6. Members(q) \subseteq Members(p \o q)
    BY <2>3 DEF Members
  <2> QED
    BY <2>4, <2>5, <2>6
<1>3. ASSUME NEW S, NEW q \in Seq(S), NEW x \in S PROVE Members(Append(q, x)) = Members(q) \cup {x}
  <2>1. /\ DOMAIN Append(q, x) = DOMAIN q \cup {Len(q) + 1} /\ Append(q, x)[Len(q) + 1] = x
        /\ \A i \in DOMAIN q : Append(q, x)[i] = q[i]
    OBVIOUS
  <2> QED
    BY <2>1 DEF Members
<1>4. ASSUME NEW S, NEW q \in Seq(S), q # <<>> PROVE Members(q) = {q[1]} \cup Members(Tail(q))
  <2>1. /\ 1 \in DOMAIN q
        /\ \A i \in DOMAIN q : i # 1 => i - 1 \in DOMAIN Tail(q) /\ Tail(q)[i - 1] = q[i]
        /\ \A i \in DOMAIN Tail(q) : i + 1 \in DOMAIN q /\ Tail(q)[i] = q[i + 1]
    BY <1>4
  <2>2. \A i \in DOMAIN q : q[i] \in {q[1]} \cup Members(Tail(q))
    BY <2>1 DEF Members
  <2>3. \A i \in DOMAIN Tail(q) : Tail(q)[i] \in Members(q)
    BY <2>1 DEF Members
  <2>4. q[1] \in Members(q)
    BY <2>1 DEF Members
  <2>5. Members(q) \subseteq {q[1]} \cup Members(Tail(q))
    BY <2>2 DEF Members
  <2>6. Members(Tail(q)) \subseteq Members(q)
    BY <2>3 DEF Members
  <2> QED
    BY <2>4, <2>5, <2>6
<1>5. Members(<<>>) = {}
  BY DEF Members
<1> QED
  BY <1>1, <1>2, <1>3, <1>4, <1>5

LEMMA LeadsAre ==
  ASSUME NEW U, NEW next, LeadsIn(next, U), NEW u
  PROVE  Leads(next, u) \in Seq(U)
  BY DEF LeadsIn, Leads

LEMMA ToVisitIs ==
  ASSUME NEW U, NEW uris \in Seq(U), NEW depth \in Nat
  PROVE  /\ ToVisit(uris, depth) \in Seq(Due(U)) /\ Len(ToVisit(uris, depth)) = Len(uris)
         /\ Members(ToVisit(uris, depth)) = {[uri |-> u, depth |-> depth] : u \in Members(uris)}
<1>1. \A n \in DOMAIN uris : [uri |-> uris[n], depth |-> depth] \in Due(U)
  BY DEF Due
<1>2. Len(uris) \in Nat /\ DOMAIN uris = 1..Len(uris)
  OBVIOUS
<1>3. ToVisit(uris, depth) = [n \in 1..Len(uris) |-> [uri |-> uris[n], depth |-> depth]]
  BY <1>2 DEF ToVisit
<1>4. ToVisit(uris, depth) \in Seq(Due(U)) /\ Len(ToVisit(uris, depth)) = Len(uris)
  BY <1>1, <1>2, <1>3
<1> QED
  BY <1>2, <1>3, <1>4 DEF Members

LEMMA StartIs ==
  ASSUME NEW U, NEW uri \in U
  PROVE  /\ Start(uri) \in WalkState(U) /\ Seen(Start(uri)) = {} /\ Len(Start(uri).todo) = 1
         /\ Members(Start(uri).todo) = {[uri |-> uri, depth |-> 0]} /\ Start(uri).todo # <<>>
<1>1. <<uri>> \in Seq(U) /\ Len(<<uri>>) = 1 /\ Members(<<uri>>) = {uri}
  BY DEF Members
<1>2. /\ ToVisit(<<uri>>, 0) \in Seq(Due(U)) /\ Len(ToVisit(<<uri>>, 0)) = 1
      /\ Members(ToVisit(<<uri>>, 0)) = {[uri |-> uri, depth |-> 0]}
  <2>1. \A uris \in Seq(U) :
          /\ ToVisit(uris, 0) \in Seq(Due(U)) /\ Len(ToVisit(uris, 0)) = Len(uris)
          /\ Members(ToVisit(uris, 0)) = {[uri |-> u, depth |-> 0] : u \in Members(uris)}
    BY ToVisitIs
  <2>2. /\ ToVisit(<<uri>>, 0) \in Seq(Due(U)) /\ Len(ToVisit(<<uri>>, 0)) = Len(<<uri>>)
        /\ Members(ToVisit(<<uri>>, 0)) = {[uri |-> u, depth |-> 0] : u \in Members(<<uri>>)}
    BY <1>1, <2>1
  <2> QED
    BY <1>1, <2>2
<1>3. ToVisit(<<uri>>, 0) # <<>>
  BY <1>2
<1>4. Start(uri).visited = <<>> /\ Start(uri).todo = ToVisit(<<uri>>, 0) /\ Start(uri) \in WalkState(U)
  BY <1>2 DEF Start, WalkState
<1> QED
  BY <1>2, <1>3, <1>4, MembersAre DEF Seen

(* One call, in terms of what is visited and what is still to be made.      *)
Turned(U, next, limit, w, call, t, rest) ==
  /\ call \in Due(U) /\ rest \in Seq(Due(U)) /\ t \in WalkState(U)
  /\ Members(w.todo) = {call} \cup Members(rest) /\ Len(rest) = Len(w.todo) - 1
  /\ call.depth >= limit \/ call.uri \in Seen(w) => t.visited = w.visited /\ t.todo = rest
  /\ ~ (call.depth >= limit \/ call.uri \in Seen(w)) =>
       /\ t.visited = Append(w.visited, call.uri) /\ Seen(t) = Seen(w) \cup {call.uri}
       /\ Len(t.todo) = Len(Leads(next, call.uri)) + Len(rest)
       /\ Members(t.todo) = {[uri |-> u, depth |-> call.depth + 1] : u \in Members(Leads(next, call.uri))}
                              \cup Members(rest)

LEMMA TurnIs ==
  ASSUME NEW U, NEW next, LeadsIn(next, U), NEW limit \in Nat, NEW w \in WalkState(U), w.todo # <<>>
  PROVE  Turned(U, next, limit, w, w.todo[1], Turn(next, limit, w), Tail(w.todo))
<1>0. PICK call, t, rest : call = w.todo[1] /\ t = Turn(next, limit, w) /\ rest = Tail(w.todo)
  OBVIOUS
<1> SUFFICES Turned(U, next, limit, w, call, t, rest)
  BY <1>0
<1>1. w.visited \in Seq(U) /\ w.todo \in Seq(Due(U)) /\ w = [visited |-> w.visited, todo |-> w.todo]
  BY DEF WalkState
<1>2. \A q \in Seq(Due(U)) : q # <<>> =>
        q[1] \in Due(U) /\ Tail(q) \in Seq(Due(U)) /\ Len(Tail(q)) = Len(q) - 1 /\ Head(q) = q[1]
  OBVIOUS
<1>3. call \in Due(U) /\ rest \in Seq(Due(U)) /\ Len(rest) = Len(w.todo) - 1 /\ Head(w.todo) = call
  BY <1>0, <1>1, <1>2
<1>4. Members(w.todo) = {call} \cup Members(rest)
  BY <1>0, <1>1, MembersAre
<1>5. call.uri \in U /\ call.depth \in Nat
  BY <1>3 DEF Due
<1>6. (\E n \in DOMAIN w.visited : w.visited[n] = call.uri) <=> call.uri \in Seen(w)
  BY DEF Seen, Members
<1>7. t = IF call.depth >= limit \/ call.uri \in Seen(w)
          THEN [w EXCEPT !.todo = rest]
          ELSE [visited |-> Append(w.visited, call.uri),
                todo    |-> ToVisit(Leads(next, call.uri), call.depth + 1) \o rest]
  BY <1>0, <1>3, <1>6 DEF Turn, traceFrom
<1>8. CASE call.depth >= limit \/ call.uri \in Seen(w)
  <2>1. t = [visited |-> w.visited, todo |-> rest]
    BY <1>1, <1>7, <1>8
  <2>2. t \in WalkState(U) /\ t.visited = w.visited /\ t.todo = rest
    BY <1>1, <1>3, <2>1 DEF WalkState
  <2> QED
    BY <1>3, <1>4, <1>8, <2>2 DEF Turned
<1>9. CASE ~ (call.depth >= limit \/ call.uri \in Seen(w))
  <2> DEFINE p == ToVisit(Leads(next, call.uri), call.depth + 1)
  <2>1. Leads(next, call.uri) \in Seq(U) /\ call.depth + 1 \in Nat
    BY <1>5, LeadsAre
  <2>2. /\ p \in Seq(Due(U)) /\ Len(p) = Len(Leads(next, call.uri))
        /\ Members(p) = {[uri |-> u, depth |-> call.depth + 1] : u \in Members(Leads(next, call.uri))}
    BY <2>1, ToVisitIs
  <2>3. t = [visited |-> Append(w.visited, call.uri), todo |-> p \o rest]
    BY <1>7, <1>9
  <2> HIDE DEF p
  <2>4. p \o rest \in Seq(Due(U)) /\ Len(p \o rest) = Len(p) + Len(rest)
    <3>1. \A S : \A q, r \in Seq(S) : q \o r \in Seq(S) /\ Len(q \o r) = Len(q) + Len(r)
      OBVIOUS
    <3>2. p \in Seq(Due(U)) /\ rest \in Seq(Due(U))
      BY <1>3, <2>2
    <3> QED
      BY <3>1, <3>2
  <2>5. Members(p \o rest) = Members(p) \cup Members(rest)
    <3>1. \A S : \A q, r \in Seq(S) : Members(q \o r) = Members(q) \cup Members(r)
      BY MembersAre
    <3>2. p \in Seq(Due(U)) /\ rest \in Seq(Due(U))
      BY <1>3, <2>2
    <3> QED
      BY <3>1, <3>2
  <2>6. Append(w.visited, call.uri) \in Seq(U) /\ Members(Append(w.visited, call.uri)) = Seen(w) \cup {call.uri}
    BY <1>1, <1>5, MembersAre DEF Seen
  <2>7. t.visited = Append(w.visited, call.uri) /\ t.todo = p \o rest /\ t \in WalkState(U)
    BY <2>3, <2>4, <2>6 DEF WalkState
  <2>8. Seen(t) = Seen(w) \cup {call.uri}
    BY <2>6, <2>7 DEF Seen
  <2> QED
    BY <1>3, <1>4, <1>9, <2>2, <2>4, <2>5, <2>7, <2>8 DEF Turned
<1> QED
  BY <1>8, <1>9

(* There is a walk of any number of calls, or else there would be a least   *)
(* number without one.                                                     *)
LEMMA WalkExists ==
  ASSUME NEW next, NEW limit, NEW uri, NEW calls \in Nat
  PROVE  \E w : IsWalk(w, next, limit, uri, calls)
<1> DEFINE Bad == {n \in Nat : ~ \E w : IsWalk(w, next, limit, uri, n)}
<1>1. SUFFICES ASSUME Bad # {} PROVE FALSE
  OBVIOUS
<1>2. PICK m \in Bad : \A n \in Bad : m <= n
  <2> HIDE DEF Bad
  <2>1. Bad \in SUBSET Nat
    BY DEF Bad
  <2> QED
    BY <1>1, <2>1, LeastExists
<1>3. m \in Nat /\ ~ \E w : IsWalk(w, next, limit, uri, m)
  BY <1>2
<1>4. m # 0
  <2> DEFINE w == [n \in 0..0 |-> Start(uri)]
  <2>1. w = [n \in 0..0 |-> IF n = 0 THEN Start(uri) ELSE Turn(next, limit, w[n - 1])]
    OBVIOUS
  <2>2. IsWalk(w, next, limit, uri, 0)
    BY <2>1 DEF IsWalk
  <2> QED
    BY <1>3, <2>2
<1>5. m - 1 \in Nat /\ m - 1 \notin Bad
  <2> HIDE DEF Bad
  <2>1. m - 1 \in Nat /\ ~ (m <= m - 1)
    BY <1>3, <1>4
  <2> QED
    BY <1>2, <2>1
<1>6. PICK v : IsWalk(v, next, limit, uri, m - 1)
  BY <1>5
<1> DEFINE w == [n \in 0..m |-> IF n < m THEN v[n] ELSE Turn(next, limit, v[m - 1])]
<1>7. v = [n \in 0..(m - 1) |-> IF n = 0 THEN Start(uri) ELSE Turn(next, limit, v[n - 1])]
  BY <1>6 DEF IsWalk
<1>8. ASSUME NEW n \in 0..m PROVE w[n] = IF n = 0 THEN Start(uri) ELSE Turn(next, limit, w[n - 1])
  <2>1. n \in Nat /\ n <= m
    BY <1>3
  <2>2. w[n] = IF n < m THEN v[n] ELSE Turn(next, limit, v[m - 1])
    OBVIOUS
  <2>3. n # 0 => n - 1 \in 0..m /\ n - 1 < m
    BY <1>3, <2>1
  <2>4. n # 0 => w[n - 1] = v[n - 1]
    BY <2>3
  <2>5. n < m => n \in 0..(m - 1)
    BY <1>3, <2>1
  <2> HIDE DEF w
  <2>6. CASE n < m
    <3>1. v[n] = IF n = 0 THEN Start(uri) ELSE Turn(next, limit, v[n - 1])
      BY <1>7, <2>5, <2>6
    <3> QED
      BY <2>2, <2>4, <2>6, <3>1
  <2>7. CASE ~ (n < m)
    <3>1. n = m /\ n # 0
      BY <1>3, <1>4, <2>1, <2>7
    <3> QED
      BY <2>2, <2>4, <2>7, <3>1
  <2> QED
    BY <2>6, <2>7
<1>9. w = [n \in 0..m |-> IF n = 0 THEN Start(uri) ELSE Turn(next, limit, w[n - 1])]
  <2>1. w = [n \in 0..m |-> w[n]]
    OBVIOUS
  <2> HIDE DEF w
  <2> QED
    BY <1>8, <2>1
<1> QED
  BY <1>3, <1>9 DEF IsWalk

LEMMA WalkIs ==
  ASSUME NEW next, NEW limit, NEW uri, NEW calls \in Nat
  PROVE  \E w : IsWalk(w, next, limit, uri, calls) /\ Walk(next, limit, uri, calls) = w[calls]
<1> DEFINE P(w) == w = [n \in 0..calls |->
                          IF n = 0 THEN [visited |-> <<>>, todo |-> ToVisit(<<uri>>, 0)]
                          ELSE LET before == w[n - 1]
                               IN IF before.todo = <<>> THEN before ELSE traceFrom(next, limit, before)]
<1>1. \A w : IsWalk(w, next, limit, uri, calls) <=> P(w)
  BY DEF IsWalk, Start, Turn
<1>2. \E w : P(w)
  BY <1>1, WalkExists
<1>3. P(CHOOSE w : P(w))
  <2> HIDE DEF P
  <2> QED
    BY <1>2
<1>4. Walk(next, limit, uri, calls) = (CHOOSE w : P(w))[calls]
  BY DEF Walk
<1> QED
  BY <1>1, <1>3, <1>4

(* What holds of the start and is kept by every call holds all along.       *)
LEMMA WalkKeeps ==
  ASSUME NEW next, NEW limit, NEW uri, NEW calls \in Nat, NEW w, IsWalk(w, next, limit, uri, calls),
         NEW Good, <<0, Start(uri)>> \in Good,
         \A n \in Nat : \A s : <<n, s>> \in Good => <<n + 1, Turn(next, limit, s)>> \in Good
  PROVE  <<calls, w[calls]>> \in Good
<1> DEFINE Bad == {n \in 0..calls : <<n, w[n]>> \notin Good}
<1>1. SUFFICES ASSUME Bad # {} PROVE FALSE
  OBVIOUS
<1>2. PICK m \in Bad : \A n \in Bad : m <= n
  <2>1. Bad \in SUBSET Nat
    OBVIOUS
  <2> HIDE DEF Bad
  <2> QED
    BY <1>1, <2>1, LeastExists
<1>3. m \in 0..calls /\ <<m, w[m]>> \notin Good
  BY <1>2
<1>4. \A n \in 0..calls : w[n] = IF n = 0 THEN Start(uri) ELSE Turn(next, limit, w[n - 1])
  <2>1. w = [n \in 0..calls |-> IF n = 0 THEN Start(uri) ELSE Turn(next, limit, w[n - 1])]
    BY DEF IsWalk
  <2> QED
    BY <2>1
<1>5. m # 0
  BY <1>3, <1>4
<1>6. m - 1 \in Nat /\ m - 1 \in 0..calls /\ m - 1 \notin Bad /\ m - 1 + 1 = m
  <2>1. m - 1 \in Nat /\ m - 1 \in 0..calls /\ ~ (m <= m - 1) /\ m - 1 + 1 = m
    BY <1>3, <1>5
  <2> HIDE DEF Bad
  <2> QED
    BY <1>2, <2>1
<1>7. <<m - 1, w[m - 1]>> \in Good
  BY <1>6
<1>8. <<m - 1 + 1, Turn(next, limit, w[m - 1])>> \in Good
  BY <1>6, <1>7
<1>9. w[m] = Turn(next, limit, w[m - 1])
  BY <1>3, <1>4, <1>5
<1> QED
  BY <1>3, <1>6, <1>8, <1>9

(* Each call takes one off what is to be done: itself, or else the places   *)
(* of what it visits, which become calls.                                  *)
Graph(next, U)      == LeadsIn(next, U) /\ IsFiniteSet(Calling(next))
Unvisited(next, S)  == {p \in Calling(next) : p[1] \notin S}

LEMMA PlacesBecomeCalls ==
  ASSUME NEW U, NEW next, Graph(next, U), NEW S, NEW u, u \notin S
  PROVE  /\ Cardinality(Unvisited(next, S)) \in Nat /\ Cardinality(Unvisited(next, S \cup {u})) \in Nat
         /\ Cardinality(Unvisited(next, S)) = Cardinality(Unvisited(next, S \cup {u})) + Len(Leads(next, u))
<1> DEFINE A == Unvisited(next, S \cup {u})
           B == {u} \X DOMAIN Leads(next, u)
<1>1. Leads(next, u) \in Seq(U)
  BY LeadsAre DEF Graph
<1>2. Len(Leads(next, u)) \in Nat /\ DOMAIN Leads(next, u) = 1..Len(Leads(next, u))
  BY <1>1
<1>3. IsFiniteSet(DOMAIN Leads(next, u)) /\ Cardinality(DOMAIN Leads(next, u)) = Len(Leads(next, u))
  <2>1. \A n \in Nat : IsFiniteSet(1..n) /\ Cardinality(1..n) = n
    <3>1. TAKE n \in Nat
    <3>2. 1 \in Int /\ n \in Int /\ (1 > n => n = 0) /\ n - 1 + 1 = n
      OBVIOUS
    <3>3. IsFiniteSet(1..n) /\ Cardinality(1..n) = IF 1 > n THEN 0 ELSE n - 1 + 1
      BY <3>2, FS_Interval
    <3> QED
      BY <3>2, <3>3
  <2> QED
    BY <1>2, <2>1
<1>4. IsFiniteSet({u}) /\ Cardinality({u}) = 1
  BY FS_Singleton
<1>5. IsFiniteSet(B) /\ Cardinality(B) = Len(Leads(next, u))
  <2>1. IsFiniteSet(B) /\ Cardinality(B) = Cardinality({u}) * Cardinality(DOMAIN Leads(next, u))
    BY <1>3, <1>4, FS_Product
  <2>2. \A n \in Nat : 1 * n = n
    OBVIOUS
  <2> HIDE DEF B
  <2> QED
    BY <1>2, <1>3, <1>4, <2>1, <2>2
<1>6. B \subseteq Calling(next)
  <2>1. CASE u \in DOMAIN next
    <3>1. B = {u} \X DOMAIN next[u]
      BY <2>1 DEF Leads
    <3> HIDE DEF B
    <3> QED
      BY <2>1, <3>1 DEF Calling
  <2>2. CASE u \notin DOMAIN next
    BY <2>2 DEF Leads
  <2> QED
    BY <2>1, <2>2
<1>7. \A p \in Calling(next) : p[1] = u => p \in B
  BY DEF Calling, Leads
<1>8. \A p \in B : p[1] = u
  OBVIOUS
<1> HIDE DEF B
<1>9. Unvisited(next, S) = A \cup B /\ A \cap B = {}
  BY <1>6, <1>7, <1>8 DEF Unvisited
<1>10. IsFiniteSet(A)
  <2>1. A \in SUBSET Calling(next) /\ IsFiniteSet(Calling(next))
    BY DEF Unvisited, Graph
  <2> HIDE DEF A
  <2> QED
    BY <2>1, FS_Subset
<1> HIDE DEF A
<1>11. Cardinality(A \cup B) = Cardinality(A) + Cardinality(B) - Cardinality(A \cap B)
  BY <1>5, <1>10, FS_Union
<1>12. Cardinality(A \cap B) = 0
  BY <1>9, FS_EmptySet
<1>13. Cardinality(A) \in Nat
  BY <1>10, FS_CardinalityType
<1>14. Cardinality(A \cup B) = Cardinality(A) + Len(Leads(next, u))
  BY <1>2, <1>5, <1>11, <1>12, <1>13
<1>15. Cardinality(A \cup B) \in Nat
  BY <1>2, <1>13, <1>14
<1> QED
  BY <1>9, <1>13, <1>14, <1>15 DEF A

(* The walk that Visited looks at the end of.                               *)
WholeWalk(w, next, limit, uri) ==
  /\ IsWalk(w, next, limit, uri, 1 + Cardinality(Calling(next)))
  /\ Visited(next, limit, uri) = w[1 + Cardinality(Calling(next))].visited

LEMMA WholeWalkExists ==
  ASSUME NEW U, NEW next, Graph(next, U), NEW limit, NEW uri
  PROVE  /\ 1 + Cardinality(Calling(next)) \in Nat
         /\ \E w : WholeWalk(w, next, limit, uri)
<1>1. Cardinality(Calling(next)) \in Nat
  BY FS_CardinalityType DEF Graph
<1>2. 1 + Cardinality(Calling(next)) \in Nat
  BY <1>1
<1>3. PICK w : /\ IsWalk(w, next, limit, uri, 1 + Cardinality(Calling(next)))
               /\ Walk(next, limit, uri, 1 + Cardinality(Calling(next))) = w[1 + Cardinality(Calling(next))]
  BY <1>2, WalkIs
<1>4. WholeWalk(w, next, limit, uri)
  BY <1>3 DEF WholeWalk, Visited
<1> QED
  BY <1>2, <1>4

LEMMA WalkEnds ==
  ASSUME NEW U, NEW next, Graph(next, U), NEW limit \in Nat, NEW uri \in U, NEW w, WholeWalk(w, next, limit, uri)
  PROVE  w[1 + Cardinality(Calling(next))] \in WalkState(U) /\ w[1 + Cardinality(Calling(next))].todo = <<>>
<1> DEFINE calls == 1 + Cardinality(Calling(next))
           Rest(s) == Cardinality(Unvisited(next, Seen(s)))
           InTime(n, s) == s.todo = <<>> \/ (Rest(s) \in Nat /\ n + Len(s.todo) + Rest(s) <= calls)
           Good == {p \in Nat \X WalkState(U) : InTime(p[1], p[2])}
<1>1. calls \in Nat /\ IsWalk(w, next, limit, uri, calls)
  BY WholeWalkExists DEF WholeWalk
<1>2. <<0, Start(uri)>> \in Good
  <2>1. Start(uri) \in WalkState(U) /\ Seen(Start(uri)) = {} /\ Len(Start(uri).todo) = 1
    BY StartIs
  <2>2. Unvisited(next, {}) = Calling(next)
    BY DEF Unvisited
  <2>3. Cardinality(Calling(next)) \in Nat
    BY FS_CardinalityType DEF Graph
  <2>4. 0 + 1 + Cardinality(Calling(next)) <= 1 + Cardinality(Calling(next))
    BY <2>3
  <2> QED
    BY <2>1, <2>2, <2>3, <2>4
<1>3. ASSUME NEW n \in Nat, NEW s, <<n, s>> \in Good PROVE <<n + 1, Turn(next, limit, s)>> \in Good
  <2>1. s \in WalkState(U) /\ (s.todo = <<>> \/ (Rest(s) \in Nat /\ n + Len(s.todo) + Rest(s) <= calls))
    BY <1>3
  <2>2. n + 1 \in Nat
    OBVIOUS
  <2>3. CASE s.todo = <<>>
    <3>1. Turn(next, limit, s) = s
      BY <2>3 DEF Turn
    <3> QED
      BY <2>1, <2>2, <2>3, <3>1
  <2>4. CASE s.todo # <<>>
    <3>1. PICK call, t, rest : call = s.todo[1] /\ t = Turn(next, limit, s) /\ rest = Tail(s.todo)
      OBVIOUS
    <3>a. Turned(U, next, limit, s, call, t, rest)
      BY <2>1, <2>4, <3>1, TurnIs DEF Graph
    <3>2. /\ rest \in Seq(Due(U)) /\ t \in WalkState(U) /\ Len(rest) = Len(s.todo) - 1
          /\ call.depth >= limit \/ call.uri \in Seen(s) => t.visited = s.visited /\ t.todo = rest
          /\ ~ (call.depth >= limit \/ call.uri \in Seen(s)) =>
                Seen(t) = Seen(s) \cup {call.uri} /\ Len(t.todo) = Len(Leads(next, call.uri)) + Len(rest)
      BY <3>a DEF Turned
    <3>3. Len(rest) \in Nat /\ Len(s.todo) \in Nat
      <4>1. s.todo \in Seq(Due(U))
        BY <2>1 DEF WalkState
      <4> QED
        BY <3>2, <4>1
    <3>4. Rest(s) \in Nat /\ n + Len(s.todo) + Rest(s) <= calls
      BY <2>1, <2>4
    <3>5. CASE call.depth >= limit \/ call.uri \in Seen(s)
      <4>1. t.todo = rest /\ Seen(t) = Seen(s)
        BY <3>2, <3>5 DEF Seen
      <4>2. Rest(t) = Rest(s)
        BY <4>1
      <4> HIDE DEF Rest, calls
      <4>3. n + 1 + Len(rest) + Rest(s) <= calls
        <5>1. \A k, l, m, c \in Nat : n + k + m <= c /\ l = k - 1 => n + 1 + l + m <= c
          OBVIOUS
        <5> QED
          BY <1>1, <3>2, <3>3, <3>4, <5>1
      <4> QED
        BY <2>2, <3>1, <3>2, <3>4, <4>1, <4>2, <4>3
    <3>6. CASE ~ (call.depth >= limit \/ call.uri \in Seen(s))
      <4>1. Seen(t) = Seen(s) \cup {call.uri} /\ Len(t.todo) = Len(Leads(next, call.uri)) + Len(rest)
        BY <3>2, <3>6
      <4>2. Rest(t) \in Nat /\ Rest(s) = Rest(t) + Len(Leads(next, call.uri))
        BY <3>6, <4>1, PlacesBecomeCalls
      <4>3. Len(Leads(next, call.uri)) \in Nat
        <5>1. Leads(next, call.uri) \in Seq(U)
          BY LeadsAre DEF Graph
        <5> QED
          BY <5>1
      <4> HIDE DEF Rest, calls
      <4>4. n + 1 + Len(t.todo) + Rest(t) <= calls
        <5>1. \A k, l, m, d, e, c \in Nat : n + k + m <= c /\ l = k - 1 /\ m = e + d => n + 1 + (d + l) + e <= c
          OBVIOUS
        <5>2. PICK l, k, m, d, e : /\ l = Len(rest) /\ k = Len(s.todo) /\ m = Rest(s)
                                   /\ d = Len(Leads(next, call.uri)) /\ e = Rest(t)
          OBVIOUS
        <5>3. /\ l \in Nat /\ k \in Nat /\ m \in Nat /\ d \in Nat /\ e \in Nat /\ calls \in Nat
              /\ n + k + m <= calls /\ l = k - 1 /\ m = e + d
          BY <1>1, <3>2, <3>3, <3>4, <4>2, <4>3, <5>2
        <5>4. n + 1 + (d + l) + e <= calls
          BY <5>1, <5>3
        <5>5. n + 1 + (Len(Leads(next, call.uri)) + Len(rest)) + Rest(t) <= calls
          BY <5>2, <5>4
        <5> QED
          BY <4>1, <5>5
      <4> QED
        BY <2>2, <3>1, <3>2, <4>2, <4>4
    <3> QED
      BY <3>5, <3>6
  <2> QED
    BY <2>3, <2>4
<1>4. <<calls, w[calls]>> \in Good
  <2> HIDE DEF Good, calls
  <2>1. \A n \in Nat : \A s : <<n, s>> \in Good => <<n + 1, Turn(next, limit, s)>> \in Good
    BY <1>3
  <2> QED
    BY <1>1, <1>2, <2>1, WalkKeeps
<1> HIDE DEF calls
<1>5. w[calls] \in WalkState(U) /\ (w[calls].todo = <<>> \/
        (Rest(w[calls]) \in Nat /\ calls + Len(w[calls].todo) + Rest(w[calls]) <= calls))
  BY <1>4
<1>6. w[calls].todo = <<>>
  <2> HIDE DEF Rest
  <2>1. w[calls].todo \in Seq(Due(U))
    BY <1>5 DEF WalkState
  <2>2. \A q \in Seq(Due(U)) : Len(q) \in Nat /\ (Len(q) = 0 => q = <<>>)
    OBVIOUS
  <2>3. Len(w[calls].todo) \in Nat /\ (Len(w[calls].todo) = 0 => w[calls].todo = <<>>)
    BY <2>1, <2>2
  <2> QED
    BY <1>1, <1>5, <2>3
<1> QED
  BY <1>5, <1>6 DEF calls

(* What every call keeps holds of what is visited in the end.               *)
LEMMA WalkEndsIn ==
  ASSUME NEW U, NEW next, Graph(next, U), NEW limit \in Nat, NEW uri \in U,
         NEW Good \in SUBSET WalkState(U), Start(uri) \in Good,
         \A s \in Good : s.todo # <<>> => Turn(next, limit, s) \in Good
  PROVE  \E s \in Good : s.todo = <<>> /\ s.visited = Visited(next, limit, uri)
<1>1. PICK w : WholeWalk(w, next, limit, uri)
  BY WholeWalkExists
<1>2. PICK calls : calls = 1 + Cardinality(Calling(next))
  OBVIOUS
<1>3. calls \in Nat /\ IsWalk(w, next, limit, uri, calls) /\ Visited(next, limit, uri) = w[calls].visited
  BY <1>1, <1>2, WholeWalkExists DEF WholeWalk
<1>4. w[calls].todo = <<>>
  BY <1>1, <1>2, WalkEnds
<1> DEFINE All == Nat \X Good
<1>5. <<0, Start(uri)>> \in All
  OBVIOUS
<1>6. ASSUME NEW n \in Nat, NEW s, <<n, s>> \in All PROVE <<n + 1, Turn(next, limit, s)>> \in All
  <2>1. s \in Good /\ n + 1 \in Nat
    BY <1>6
  <2>2. s.todo = <<>> => Turn(next, limit, s) = s
    BY DEF Turn
  <2> QED
    BY <2>1, <2>2
<1>7. <<calls, w[calls]>> \in All
  <2> HIDE DEF All
  <2>1. \A n \in Nat : \A s : <<n, s>> \in All => <<n + 1, Turn(next, limit, s)>> \in All
    BY <1>6
  <2> QED
    BY <1>3, <1>5, <2>1, WalkKeeps
<1>8. w[calls] \in Good
  BY <1>7
<1> QED
  BY <1>3, <1>4, <1>8

Closed(next, V) == \A u \in V : Members(Leads(next, u)) \subseteq V

(* Nothing is visited but what can be reached.                              *)
LEMMA VisitsWithin ==
  ASSUME NEW U, NEW next, Graph(next, U), NEW limit \in Nat, NEW uri \in U, NEW V, uri \in V, Closed(next, V)
  PROVE  Visited(next, limit, uri) \in Seq(U) /\ Members(Visited(next, limit, uri)) \subseteq V
<1> DEFINE Good == {s \in WalkState(U) : Seen(s) \subseteq V /\ \A c \in Members(s.todo) : c.uri \in V}
<1>1. Start(uri) \in Good
  <2>1. /\ Start(uri) \in WalkState(U) /\ Seen(Start(uri)) = {}
        /\ Members(Start(uri).todo) = {[uri |-> uri, depth |-> 0]}
    BY StartIs
  <2> QED
    BY <2>1
<1>2. ASSUME NEW s \in Good, s.todo # <<>> PROVE Turn(next, limit, s) \in Good
  <2>1. PICK call, t, rest : call = s.todo[1] /\ t = Turn(next, limit, s) /\ rest = Tail(s.todo)
    OBVIOUS
  <2>2. Turned(U, next, limit, s, call, t, rest)
    BY <1>2, <2>1, TurnIs DEF Graph
  <2>3. /\ call.uri \in V /\ (\A c \in Members(rest) : c.uri \in V) /\ Seen(s) \subseteq V /\ t \in WalkState(U)
    BY <2>2 DEF Turned
  <2>4. CASE call.depth >= limit \/ call.uri \in Seen(s)
    <3>1. Seen(t) = Seen(s) /\ Members(t.todo) = Members(rest)
      BY <2>2, <2>4 DEF Turned, Seen
    <3> QED
      BY <2>1, <2>3, <3>1
  <2>5. CASE ~ (call.depth >= limit \/ call.uri \in Seen(s))
    <3>1. /\ Seen(t) = Seen(s) \cup {call.uri}
          /\ Members(t.todo) = {[uri |-> u, depth |-> call.depth + 1] : u \in Members(Leads(next, call.uri))}
                                 \cup Members(rest)
      BY <2>2, <2>5 DEF Turned
    <3>2. Members(Leads(next, call.uri)) \subseteq V
      BY <2>3 DEF Closed
    <3>3. \A c \in Members(t.todo) : c.uri \in V
      BY <2>3, <3>1, <3>2
    <3> QED
      BY <2>1, <2>3, <3>1, <3>3
  <2> QED
    BY <2>4, <2>5
<1>3. PICK s \in Good : s.todo = <<>> /\ s.visited = Visited(next, limit, uri)
  <2>1. Good \in SUBSET WalkState(U)
    OBVIOUS
  <2> HIDE DEF Good
  <2> QED
    BY <1>1, <1>2, <2>1, WalkEndsIn
<1> QED
  BY <1>3 DEF WalkState, Seen

(* Where it starts and what that leads to are visited, whatever the limit.  *)
LEMMA VisitsNext ==
  ASSUME NEW U, NEW next, Graph(next, U), NEW limit \in Nat, limit >= 2, NEW uri \in U
  PROVE  {uri} \cup Members(Leads(next, uri)) \subseteq Members(Visited(next, limit, uri))
<1> DEFINE Begun(s) == /\ uri \in Seen(s)
                       /\ \A v \in Members(Leads(next, uri)) :
                            v \in Seen(s) \/ [uri |-> v, depth |-> 1] \in Members(s.todo)
           Good == {s \in WalkState(U) : s = Start(uri) \/ Begun(s)}
<1>1. Start(uri) \in Good
  BY StartIs
<1>2. ASSUME NEW s \in Good, s.todo # <<>> PROVE Turn(next, limit, s) \in Good
  <2>1. PICK call, t, rest : call = s.todo[1] /\ t = Turn(next, limit, s) /\ rest = Tail(s.todo)
    OBVIOUS
  <2>2. Turned(U, next, limit, s, call, t, rest)
    BY <1>2, <2>1, TurnIs DEF Graph
  <2>3. t \in WalkState(U)
    BY <2>2 DEF Turned
  <2>4. CASE s = Start(uri)
    <3>1. call = [uri |-> uri, depth |-> 0] /\ Seen(s) = {}
      BY <2>2, <2>4, StartIs DEF Turned
    <3>2. ~ (call.depth >= limit \/ call.uri \in Seen(s)) /\ call.uri = uri /\ call.depth + 1 = 1
      BY <3>1
    <3>3. /\ Seen(t) = Seen(s) \cup {uri}
          /\ Members(t.todo) = {[uri |-> u, depth |-> 1] : u \in Members(Leads(next, uri))} \cup Members(rest)
      BY <2>2, <3>2 DEF Turned
    <3>4. Begun(t)
      BY <3>3
    <3> QED
      BY <2>1, <2>3, <3>4
  <2>5. CASE Begun(s)
    <3>1. ASSUME NEW v \in Members(Leads(next, uri))
          PROVE  v \in Seen(t) \/ [uri |-> v, depth |-> 1] \in Members(t.todo)
      <4>1. v \in Seen(s) \/ [uri |-> v, depth |-> 1] = call \/ [uri |-> v, depth |-> 1] \in Members(rest)
        BY <2>2, <2>5, <3>1 DEF Turned
      <4>2. CASE call.depth >= limit \/ call.uri \in Seen(s)
        <5>1. Seen(t) = Seen(s) /\ Members(t.todo) = Members(rest)
          BY <2>2, <4>2 DEF Turned, Seen
        <5>2. [uri |-> v, depth |-> 1] = call => call.depth = 1 /\ call.uri = v
          OBVIOUS
        <5>3. [uri |-> v, depth |-> 1] = call => v \in Seen(s)
          BY <4>2, <5>2
        <5> QED
          BY <4>1, <5>1, <5>3
      <4>3. CASE ~ (call.depth >= limit \/ call.uri \in Seen(s))
        <5>1. Seen(t) = Seen(s) \cup {call.uri} /\ Members(rest) \subseteq Members(t.todo)
          BY <2>2, <4>3 DEF Turned
        <5>2. [uri |-> v, depth |-> 1] = call => call.uri = v
          OBVIOUS
        <5> QED
          BY <4>1, <5>1, <5>2
      <4> QED
        BY <4>2, <4>3
    <3>2. uri \in Seen(t)
      BY <2>2, <2>5 DEF Turned, Seen
    <3> QED
      BY <2>1, <2>3, <3>1, <3>2
  <2> QED
    BY <2>4, <2>5
<1>3. PICK s \in Good : s.todo = <<>> /\ s.visited = Visited(next, limit, uri)
  <2>1. Good \in SUBSET WalkState(U)
    OBVIOUS
  <2> HIDE DEF Good
  <2> QED
    BY <1>1, <1>2, <2>1, WalkEndsIn
<1>4. s # Start(uri) /\ Members(s.todo) = {}
  BY <1>3, StartIs, MembersAre
<1> QED
  BY <1>3, <1>4 DEF Seen

(* Where no more can be reached than the limit, the walk visits all of it:  *)
(* a call is never deeper than what is already visited is large.            *)
LEMMA VisitsAll ==
  ASSUME NEW U, NEW next, Graph(next, U), NEW limit \in Nat, NEW uri \in U,
         NEW V, uri \in V, Closed(next, V), IsFiniteSet(V), Cardinality(V) <= limit
  PROVE  uri \in Members(Visited(next, limit, uri)) /\ Closed(next, Members(Visited(next, limit, uri)))
<1> DEFINE Coming(s) == {c.uri : c \in Members(s.todo)}
           Known(s)  == Seen(s) \cup Coming(s)
           Good == {s \in WalkState(U) :
                      /\ Seen(s) \subseteq V /\ uri \in Known(s)
                      /\ \A c \in Members(s.todo) : c.uri \in V /\ c.depth <= Cardinality(Seen(s))
                      /\ \A u \in Seen(s) : Members(Leads(next, u)) \subseteq Known(s)}
<1>0. Cardinality(V) \in Nat /\ \A S \in SUBSET V : IsFiniteSet(S) /\ Cardinality(S) \in Nat
  BY FS_CardinalityType, FS_Subset
<1>1. Start(uri) \in Good
  <2>1. /\ Start(uri) \in WalkState(U) /\ Seen(Start(uri)) = {}
        /\ Members(Start(uri).todo) = {[uri |-> uri, depth |-> 0]}
    BY StartIs
  <2>2. Cardinality(Seen(Start(uri))) = 0
    BY <2>1, FS_EmptySet
  <2>3. \A c \in Members(Start(uri).todo) : c.uri = uri /\ c.depth = 0
    <3>1. [uri |-> uri, depth |-> 0].uri = uri /\ [uri |-> uri, depth |-> 0].depth = 0
      OBVIOUS
    <3> QED
      BY <2>1, <3>1
  <2>4. PICK d \in Members(Start(uri).todo) : d.uri = uri
    BY <2>1, <2>3
  <2>5. uri \in Known(Start(uri))
    BY <2>4
  <2> HIDE DEF Known
  <2>6. \A c \in Members(Start(uri).todo) : c.uri \in V /\ c.depth <= Cardinality(Seen(Start(uri)))
    BY <2>2, <2>3
  <2> QED
    BY <2>1, <2>5, <2>6
<1>2. ASSUME NEW s \in Good, s.todo # <<>> PROVE Turn(next, limit, s) \in Good
  <2>1. PICK call, t, rest : call = s.todo[1] /\ t = Turn(next, limit, s) /\ rest = Tail(s.todo)
    OBVIOUS
  <2>2. Turned(U, next, limit, s, call, t, rest)
    BY <1>2, <2>1, TurnIs DEF Graph
  <2>3. /\ t \in WalkState(U) /\ call.depth \in Nat /\ Members(s.todo) = {call} \cup Members(rest)
        /\ \A c \in Members(rest) : c.depth \in Nat
    <3>1. rest \in Seq(Due(U)) /\ call \in Due(U)
      BY <2>2 DEF Turned
    <3>2. \A c \in Members(rest) : c \in Due(U)
      BY <3>1, MembersAre
    <3> QED
      BY <2>2, <3>1, <3>2 DEF Turned, Due
  <2>4. /\ Seen(s) \subseteq V /\ uri \in Known(s)
        /\ \A c \in Members(s.todo) : c.uri \in V /\ c.depth <= Cardinality(Seen(s))
        /\ \A u \in Seen(s) : Members(Leads(next, u)) \subseteq Known(s)
    OBVIOUS
  <2>5. call.uri \in V /\ call.depth <= Cardinality(Seen(s)) /\ Cardinality(Seen(s)) \in Nat
    BY <1>0, <2>3, <2>4
  <2>6. CASE call.depth >= limit \/ call.uri \in Seen(s)
    <3>1. Seen(t) = Seen(s) /\ Members(t.todo) = Members(rest)
      BY <2>2, <2>6 DEF Turned, Seen
    <3>2. call.uri \in Seen(s)
      <4>1. SUFFICES ASSUME call.depth >= limit PROVE call.uri \in Seen(s)
        BY <2>6
      <4>2. Cardinality(Seen(s)) <= Cardinality(V)
        BY <2>4, FS_Subset
      <4>3. Cardinality(V) = Cardinality(Seen(s))
        BY <1>0, <2>3, <2>5, <4>1, <4>2
      <4>4. V = Seen(s)
        BY <2>4, <4>3, FS_Subset
      <4> QED
        BY <2>5, <4>4
    <3>3. Known(t) = Known(s)
      BY <2>3, <3>1, <3>2
    <3>4. t \in Good
      BY <2>3, <2>4, <3>1, <3>3
    <3> QED
      BY <2>1, <3>4
  <2>7. CASE ~ (call.depth >= limit \/ call.uri \in Seen(s))
    <3>1. /\ Seen(t) = Seen(s) \cup {call.uri}
          /\ Members(t.todo) = {[uri |-> u, depth |-> call.depth + 1] : u \in Members(Leads(next, call.uri))}
                                 \cup Members(rest)
      BY <2>2, <2>7 DEF Turned
    <3>2. Cardinality(Seen(t)) = Cardinality(Seen(s)) + 1
      <4>1. IsFiniteSet(Seen(s)) /\ call.uri \notin Seen(s)
        BY <1>0, <2>4, <2>7
      <4>2. Cardinality(Seen(s) \cup {call.uri}) = Cardinality(Seen(s)) + 1
        BY <4>1, FS_AddElement
      <4> QED
        BY <3>1, <4>2
    <3>3. Members(Leads(next, call.uri)) \subseteq V
      BY <2>5 DEF Closed
    <3>4. ASSUME NEW c \in Members(t.todo) PROVE c.uri \in V /\ c.depth <= Cardinality(Seen(t))
      <4>1. CASE c \in Members(rest)
        <5>1. c.uri \in V /\ c.depth <= Cardinality(Seen(s)) /\ c.depth \in Nat
          BY <2>3, <2>4, <4>1
        <5> QED
          BY <2>5, <3>2, <5>1
      <4>2. CASE c \notin Members(rest)
        <5>1. PICK u \in Members(Leads(next, call.uri)) : c = [uri |-> u, depth |-> call.depth + 1]
          BY <3>1, <4>2
        <5>2. c.uri = u /\ c.depth = call.depth + 1
          BY <5>1
        <5> QED
          BY <2>3, <2>5, <3>2, <3>3, <5>2
      <4> QED
        BY <4>1, <4>2
    <3>5. Known(s) \subseteq Known(t)
      BY <2>3, <3>1
    <3>6. Members(Leads(next, call.uri)) \subseteq Coming(t)
      <4>1. ASSUME NEW u \in Members(Leads(next, call.uri)) PROVE u \in Coming(t)
        <5>1. [uri |-> u, depth |-> call.depth + 1] \in Members(t.todo)
          BY <3>1
        <5>2. [uri |-> u, depth |-> call.depth + 1].uri = u
          OBVIOUS
        <5> QED
          BY <5>1, <5>2
      <4> QED
        BY <4>1
    <3>7. \A u \in Seen(t) : Members(Leads(next, u)) \subseteq Known(t)
      BY <2>4, <3>1, <3>5, <3>6
    <3>8. Seen(t) \subseteq V /\ uri \in Known(t)
      BY <2>4, <2>5, <3>1, <3>5
    <3>9. t \in Good
      BY <2>3, <3>4, <3>7, <3>8
    <3> QED
      BY <2>1, <3>9
  <2> QED
    BY <2>6, <2>7
<1>3. PICK s \in Good : s.todo = <<>> /\ s.visited = Visited(next, limit, uri)
  <2>1. Good \in SUBSET WalkState(U)
    OBVIOUS
  <2>2. \A s \in Good : s.todo # <<>> => Turn(next, limit, s) \in Good
    BY <1>2
  <2> HIDE DEF Coming, Known, Good
  <2>3. \A G \in SUBSET WalkState(U) :
          Start(uri) \in G /\ (\A s \in G : s.todo # <<>> => Turn(next, limit, s) \in G)
            => \E s \in G : s.todo = <<>> /\ s.visited = Visited(next, limit, uri)
    BY WalkEndsIn
  <2> QED
    BY <1>1, <2>1, <2>2, <2>3
<1>4. Known(s) = Seen(s)
  BY <1>3, MembersAre
<1>5. uri \in Known(s) /\ \A u \in Seen(s) : Members(Leads(next, u)) \subseteq Known(s)
  BY <1>3
<1> HIDE DEF Known
<1> QED
  BY <1>3, <1>4, <1>5 DEF Closed, Seen

(* What is within so many steps, as a function of their number.             *)
Spread(next, near) == near \cup UNION {Members(Leads(next, u)) : u \in near}

IsWithin(w, next, uri, steps) ==
  w = [n \in 0..steps |-> IF n = 0 THEN {uri} ELSE Spread(next, w[n - 1])]

LEMMA WithinExists ==
  ASSUME NEW next, NEW uri, NEW steps \in Nat
  PROVE  \E w : IsWithin(w, next, uri, steps)
<1> DEFINE Bad == {n \in Nat : ~ \E w : IsWithin(w, next, uri, n)}
<1>1. SUFFICES ASSUME Bad # {} PROVE FALSE
  OBVIOUS
<1>2. PICK m \in Bad : \A n \in Bad : m <= n
  <2> HIDE DEF Bad
  <2>1. Bad \in SUBSET Nat
    BY DEF Bad
  <2> QED
    BY <1>1, <2>1, LeastExists
<1>3. m \in Nat /\ ~ \E w : IsWithin(w, next, uri, m)
  BY <1>2
<1>4. m # 0
  <2> DEFINE w == [n \in 0..0 |-> {uri}]
  <2>1. w = [n \in 0..0 |-> IF n = 0 THEN {uri} ELSE Spread(next, w[n - 1])]
    OBVIOUS
  <2>2. IsWithin(w, next, uri, 0)
    BY <2>1 DEF IsWithin
  <2> QED
    BY <1>3, <2>2
<1>5. m - 1 \in Nat /\ m - 1 \notin Bad
  <2> HIDE DEF Bad
  <2>1. m - 1 \in Nat /\ ~ (m <= m - 1)
    BY <1>3, <1>4
  <2> QED
    BY <1>2, <2>1
<1>6. PICK v : IsWithin(v, next, uri, m - 1)
  BY <1>5
<1> DEFINE w == [n \in 0..m |-> IF n < m THEN v[n] ELSE Spread(next, v[m - 1])]
<1>7. v = [n \in 0..(m - 1) |-> IF n = 0 THEN {uri} ELSE Spread(next, v[n - 1])]
  BY <1>6 DEF IsWithin
<1>8. ASSUME NEW n \in 0..m PROVE w[n] = IF n = 0 THEN {uri} ELSE Spread(next, w[n - 1])
  <2>1. n \in Nat /\ n <= m
    BY <1>3
  <2>2. w[n] = IF n < m THEN v[n] ELSE Spread(next, v[m - 1])
    OBVIOUS
  <2>3. n # 0 => n - 1 \in 0..m /\ n - 1 < m
    BY <1>3, <2>1
  <2>4. n # 0 => w[n - 1] = v[n - 1]
    BY <2>3
  <2>5. n < m => n \in 0..(m - 1)
    BY <1>3, <2>1
  <2> HIDE DEF w
  <2>6. CASE n < m
    <3>1. v[n] = IF n = 0 THEN {uri} ELSE Spread(next, v[n - 1])
      BY <1>7, <2>5, <2>6
    <3> QED
      BY <2>2, <2>4, <2>6, <3>1
  <2>7. CASE ~ (n < m)
    <3>1. n = m /\ n # 0
      BY <1>3, <1>4, <2>1, <2>7
    <3> QED
      BY <2>2, <2>4, <2>7, <3>1
  <2> QED
    BY <2>6, <2>7
<1>9. w = [n \in 0..m |-> IF n = 0 THEN {uri} ELSE Spread(next, w[n - 1])]
  <2>1. w = [n \in 0..m |-> w[n]]
    OBVIOUS
  <2> HIDE DEF w
  <2> QED
    BY <1>8, <2>1
<1> QED
  BY <1>3, <1>9 DEF IsWithin

LEMMA WithinIs ==
  ASSUME NEW next, NEW uri, NEW steps \in Nat
  PROVE  \E w : IsWithin(w, next, uri, steps) /\ Within(next, uri, steps) = w[steps]
<1> DEFINE P(w) == w = [n \in 0..steps |->
                          IF n = 0 THEN {uri}
                          ELSE LET near == w[n - 1]
                               IN near \cup UNION {Members(Leads(next, u)) : u \in near}]
<1>1. \A w : IsWithin(w, next, uri, steps) <=> P(w)
  BY DEF IsWithin, Spread
<1>2. \E w : P(w)
  BY <1>1, WithinExists
<1>3. P(CHOOSE w : P(w))
  <2> HIDE DEF P
  <2> QED
    BY <1>2
<1>4. Within(next, uri, steps) = (CHOOSE w : P(w))[steps]
  BY DEF Within
<1> QED
  BY <1>1, <1>3, <1>4

(* What holds of the start and is kept by every step holds all along.       *)
LEMMA WithinKeeps ==
  ASSUME NEW next, NEW uri, NEW steps \in Nat, NEW w, IsWithin(w, next, uri, steps),
         NEW Good, <<0, {uri}>> \in Good,
         \A n \in Nat : \A s : <<n, s>> \in Good => <<n + 1, Spread(next, s)>> \in Good
  PROVE  <<steps, w[steps]>> \in Good
<1> DEFINE Bad == {n \in 0..steps : <<n, w[n]>> \notin Good}
<1>1. SUFFICES ASSUME Bad # {} PROVE FALSE
  OBVIOUS
<1>2. PICK m \in Bad : \A n \in Bad : m <= n
  <2>1. Bad \in SUBSET Nat
    OBVIOUS
  <2> HIDE DEF Bad
  <2> QED
    BY <1>1, <2>1, LeastExists
<1>3. m \in 0..steps /\ <<m, w[m]>> \notin Good
  BY <1>2
<1>4. \A n \in 0..steps : w[n] = IF n = 0 THEN {uri} ELSE Spread(next, w[n - 1])
  <2>1. w = [n \in 0..steps |-> IF n = 0 THEN {uri} ELSE Spread(next, w[n - 1])]
    BY DEF IsWithin
  <2> QED
    BY <2>1
<1>5. m # 0
  BY <1>3, <1>4
<1>6. m - 1 \in Nat /\ m - 1 \in 0..steps /\ m - 1 \notin Bad /\ m - 1 + 1 = m
  <2>1. m - 1 \in Nat /\ m - 1 \in 0..steps /\ ~ (m <= m - 1) /\ m - 1 + 1 = m
    BY <1>3, <1>5
  <2> HIDE DEF Bad
  <2> QED
    BY <1>2, <2>1
<1>7. <<m - 1, w[m - 1]>> \in Good
  BY <1>6
<1>8. <<m - 1 + 1, Spread(next, w[m - 1])>> \in Good
  BY <1>6, <1>7
<1>9. w[m] = Spread(next, w[m - 1])
  BY <1>3, <1>4, <1>5
<1> QED
  BY <1>3, <1>6, <1>8, <1>9

(* What is within one step less than the limit is what the walk visits: each *)
(* step that does not end it finds something new.                          *)
LEMMA WithinIsVisited ==
  ASSUME NEW U, NEW next, Graph(next, U), NEW limit \in Nat, NEW uri \in U,
         NEW V, uri \in V, Closed(next, V), IsFiniteSet(V), Cardinality(V) <= limit
  PROVE  Within(next, uri, limit - 1) = Members(Visited(next, limit, uri))
<1> DEFINE Vis == Members(Visited(next, limit, uri))
           Good == {p \in Nat \X SUBSET Vis :
                      uri \in p[2] /\ (Closed(next, p[2]) \/ Cardinality(p[2]) >= p[1] + 1)}
<1>1. uri \in Vis /\ Closed(next, Vis) /\ Vis \subseteq V
  BY VisitsAll, VisitsWithin
<1> HIDE DEF Vis
<1>2. Cardinality(V) \in Nat /\ \A S \in SUBSET Vis : IsFiniteSet(S) /\ Cardinality(S) \in Nat
  BY <1>1, FS_CardinalityType, FS_Subset
<1>3. <<0, {uri}>> \in Good
  <2>1. Cardinality({uri}) = 1
    BY FS_Singleton
  <2>2. PICK p : p = <<0, {uri}>>
    OBVIOUS
  <2>3. p \in Nat \X SUBSET Vis /\ p[1] = 0 /\ p[2] = {uri}
    BY <1>1, <2>2
  <2>4. Cardinality(p[2]) >= p[1] + 1
    BY <2>1, <2>3
  <2> QED
    BY <2>2, <2>3, <2>4
<1>4. ASSUME NEW n \in Nat, NEW s, <<n, s>> \in Good PROVE <<n + 1, Spread(next, s)>> \in Good
  <2>1. s \in SUBSET Vis /\ uri \in s /\ (Closed(next, s) \/ Cardinality(s) >= n + 1)
    BY <1>4
  <2>2. s \subseteq Spread(next, s) /\ Spread(next, s) \subseteq Vis
    BY <1>1, <2>1 DEF Spread, Closed
  <2>3. CASE Closed(next, s)
    <3>1. Spread(next, s) = s
      BY <2>3 DEF Spread, Closed
    <3> QED
      BY <2>1, <2>3, <3>1
  <2>4. CASE ~ Closed(next, s)
    <3>1. Spread(next, s) # s
      BY <2>4 DEF Spread, Closed
    <3>2. IsFiniteSet(Spread(next, s)) /\ Cardinality(Spread(next, s)) \in Nat /\ Cardinality(s) \in Nat
      BY <1>2, <2>1, <2>2
    <3>3. Cardinality(s) <= Cardinality(Spread(next, s)) /\ Cardinality(s) # Cardinality(Spread(next, s))
      BY <2>2, <3>1, <3>2, FS_Subset
    <3>4. Cardinality(Spread(next, s)) >= n + 1 + 1
      BY <2>1, <2>4, <3>2, <3>3
    <3> QED
      BY <2>1, <2>2, <3>4
  <2> QED
    BY <2>3, <2>4
<1>5. limit - 1 \in Nat
  <2>1. Cardinality({uri}) = 1 /\ Cardinality({uri}) <= Cardinality(V)
    BY FS_Singleton, FS_Subset
  <2> QED
    BY <1>2, <2>1
<1>6. PICK w : IsWithin(w, next, uri, limit - 1) /\ Within(next, uri, limit - 1) = w[limit - 1]
  BY <1>5, WithinIs
<1>7. <<limit - 1, w[limit - 1]>> \in Good
  <2> HIDE DEF Good
  <2>1. \A n \in Nat : \A s : <<n, s>> \in Good => <<n + 1, Spread(next, s)>> \in Good
    BY <1>4
  <2> QED
    BY <1>3, <1>5, <1>6, <2>1, WithinKeeps
<1> DEFINE s == w[limit - 1]
<1>8. s \in SUBSET Vis /\ uri \in s /\ (Closed(next, s) \/ Cardinality(s) >= limit)
  BY <1>5, <1>7
<1> HIDE DEF s
<1>9. Closed(next, s)
  <2>1. SUFFICES ASSUME Cardinality(s) >= limit PROVE Closed(next, s)
    BY <1>8
  <2>2. s \subseteq V /\ Cardinality(s) \in Nat
    BY <1>1, <1>2, <1>8
  <2>3. Cardinality(s) = Cardinality(V)
    <3>1. Cardinality(s) <= Cardinality(V)
      BY <2>2, FS_Subset
    <3> QED
      BY <1>2, <2>1, <2>2, <3>1
  <2>4. s = V
    BY <2>2, <2>3, FS_Subset
  <2> QED
    BY <2>4
<1>10. Vis \subseteq s
  BY <1>8, <1>9, VisitsWithin DEF Vis
<1> QED
  BY <1>6, <1>8, <1>10 DEF s, Vis

-----------------------------------------------------------------------------
(* The trace of a provenance graph, as what the walk has visited shows.     *)
LEMMA ImageIsFinite ==
  ASSUME NEW S, IsFiniteSet(S), NEW f, DOMAIN f = S
  PROVE  IsFiniteSet({f[x] : x \in S})
<1> DEFINE h == [x \in S |-> f[x]]
           R == {f[x] : x \in S}
<1>1. h \in [S -> R] /\ \A t \in R : \E x \in S : h[x] = t
  OBVIOUS
<1> HIDE DEF h
<1>2. h \in Surjection(S, R)
  BY <1>1 DEF Surjection
<1> QED
  BY <1>2, FS_Surjection

LEMMA IdsAreFinite ==
  ASSUME NEW S, IsFiniteSet(S)
  PROVE  IsFiniteSet({x.id : x \in S})
<1> DEFINE f == [x \in S |-> x.id]
<1>1. IsFiniteSet({f[x] : x \in S})
  BY ImageIsFinite
<1> QED
  BY <1>1

LEMMA MembersAll ==
  ASSUME NEW S, NEW s \in Seq(S), \A x \in S : \E i \in DOMAIN s : s[i] = x
  PROVE  Members(s) = S
<1>1. \A i \in DOMAIN s : s[i] \in S
  OBVIOUS
<1> QED
  BY <1>1 DEF Members

LEMMA SetToSeqIs ==
  ASSUME NEW S, IsFiniteSet(S)
  PROVE  SetToSeq(S) \in Seq(S) /\ Members(SetToSeq(S)) = S
<1> DEFINE n == Cardinality(S)
<1>1. n \in Nat /\ ExistsBijection(1..n, S)
  BY FS_CardinalityType
<1>2. PICK h : h \in Bijection(1..n, S)
  BY <1>1 DEF ExistsBijection
<1>3. h \in [1..n -> S] /\ \A a, b \in 1..n : h[a] = h[b] => a = b
  BY <1>2 DEF Bijection, Injection, IsInjective
<1>4. h \in [1..n -> S] /\ IsInjective(h)
  BY <1>3 DEF IsInjective
<1> DEFINE s == SetToSeq(S)
<1>5. s \in [1..n -> S] /\ IsInjective(s)
  BY <1>4 DEF SetToSeq
<1> HIDE DEF s
<1>6. s \in Injection(1..n, S)
  BY <1>5 DEF Injection
<1>7. Cardinality(1..n) = n
  BY <1>1, FS_Interval
<1>8. s \in Surjection(1..n, S)
  BY <1>6, <1>7, FS_Injection
<1>9. s \in Seq(S) /\ DOMAIN s = 1..n
  BY <1>1, <1>5
<1>10. \A x \in S : \E i \in 1..n : s[i] = x
  BY <1>8 DEF Surjection
<1>11. Members(s) = S
  BY <1>9, <1>10, MembersAll
<1> QED
  BY <1>9, <1>11 DEF s

Five == {"canonical", "artifact", "index", "ledger", "receipt"}

(* What the stores hold, as far as a trace of it needs: there is an end to  *)
(* it, and events are numbered.                                            *)
StoresAre(g) ==
  /\ IsFiniteSet(g.entities) /\ IsFiniteSet(g.artifacts)
  /\ IsFiniteSet(g.events) /\ IsFiniteSet(g.receipts) /\ IsFiniteSet(g.index)
  /\ \A e \in g.events : e.id \in Nat /\ e.id # 0 /\ e.store \in Five
  /\ \A e, f \in g.events : e.id = f.id => e = f
  /\ \A r \in g.index : r.source[1] \in Five
  /\ \A q, r \in g.index : q.id = r.id => q = r
  /\ \A q, r \in g.receipts : q.id = r.id => q = r

(* The objects, and what they lead to that is not there.                    *)
Around(g) ==
  Objects(g) \cup {LinkedArtifact(e) : e \in g.events} \cup {LinkedEntity(e) : e \in g.events}
    \cup {<<e.store, e.subject>> : e \in g.events} \cup {EventUri(e.parent) : e \in g.events}
    \cup {EventUri(r.event) : r \in g.receipts} \cup {r.source : r \in g.index}

LEMMA AroundIsNamed ==
  ASSUME NEW g, StoresAre(g), NEW u \in Around(g)
  PROVE  u[1] \in Five
<1>1. u \in Objects(g) => u[1] \in Five
  BY DEF Objects, Five
<1>2. u \in {LinkedArtifact(e) : e \in g.events} => u[1] \in Five
  BY DEF LinkedArtifact, Five
<1>3. u \in {LinkedEntity(e) : e \in g.events} => u[1] \in Five
  BY DEF LinkedEntity, Five
<1>4. u \in {<<e.store, e.subject>> : e \in g.events} => u[1] \in Five
  BY DEF StoresAre
<1>5. u \in {EventUri(e.parent) : e \in g.events} => u[1] \in Five
  BY DEF EventUri, Five
<1>6. u \in {EventUri(r.event) : r \in g.receipts} => u[1] \in Five
  BY DEF EventUri, Five
<1>7. u \in {r.source : r \in g.index} => u[1] \in Five
  BY DEF StoresAre
<1> QED
  BY <1>1, <1>2, <1>3, <1>4, <1>5, <1>6, <1>7 DEF Around

LEMMA ObjectsAreFinite ==
  ASSUME NEW g, StoresAre(g)
  PROVE  IsFiniteSet(Objects(g))
<1>1. \A s, I : IsFiniteSet(I) => IsFiniteSet({s} \X I)
  BY FS_Singleton, FS_Product
<1>2. IsFiniteSet({r.id : r \in g.index})
  BY IdsAreFinite DEF StoresAre
<1>3. IsFiniteSet({e.id : e \in g.events})
  BY IdsAreFinite DEF StoresAre
<1>4. IsFiniteSet({r.id : r \in g.receipts})
  BY IdsAreFinite DEF StoresAre
<1>5. /\ IsFiniteSet({"canonical"} \X g.entities) /\ IsFiniteSet({"artifact"} \X g.artifacts)
      /\ IsFiniteSet({"index"} \X {r.id : r \in g.index})
      /\ IsFiniteSet({"ledger"} \X {e.id : e \in g.events})
      /\ IsFiniteSet({"receipt"} \X {r.id : r \in g.receipts})
  BY <1>1, <1>2, <1>3, <1>4 DEF StoresAre
<1>6. \A A, B : IsFiniteSet(A) /\ IsFiniteSet(B) => IsFiniteSet(A \cup B)
  BY FS_Union
<1> QED
  BY <1>5, <1>6 DEF Objects

(* Events listed in the order of their ids.                                 *)
LEMMA ListedIs ==
  ASSUME NEW g, StoresAre(g), NEW S \in SUBSET g.events
  PROVE  Listed(S) \in Seq(S) /\ Members(Listed(S)) = S
<1> DEFINE I == {e.id : e \in S}
<1>1. \A e \in S : e.id \in Nat /\ e.id # 0
  BY DEF StoresAre
<1>2. \A e, f \in S : e.id = f.id => e = f
  BY DEF StoresAre
<1>3. IsFiniteSet(I)
  <2>1. IsFiniteSet(S)
    BY FS_Subset DEF StoresAre
  <2> QED
    BY <2>1, IdsAreFinite
<1>4. I \in SUBSET Nat /\ 0 \notin I
  BY <1>1
<1>5. \A i \in I : \E e \in S : e.id = i
  OBVIOUS
<1>6. \A e \in S : e.id \in I
  OBVIOUS
<1>7. Listed(S) = [n \in DOMAIN InOrder(I) |-> CHOOSE e \in S : e.id = InOrder(I)[n]]
  BY DEF Listed
<1> HIDE DEF I
<1>8. PICK top \in Nat : \A i \in I : i <= top
  BY <1>3, <1>4, FiniteIsBounded
<1>9. \A i \in I : i \in Nat /\ i # 0 /\ i <= top
  BY <1>4, <1>8
<1>10. I \in SUBSET (1..top)
  BY <1>9
<1>11. /\ Cardinality(I) \in Nat
       /\ \A n \in 1..Cardinality(I) : Place(I, n) \in I
       /\ \A i \in I : \E n \in 1..Cardinality(I) : Place(I, n) = i
  BY <1>10, Places
<1>12. DOMAIN InOrder(I) = 1..Cardinality(I) /\ \A n \in 1..Cardinality(I) : InOrder(I)[n] = Place(I, n)
  BY DEF InOrder
<1>13. \A n \in 1..Cardinality(I) : Listed(S)[n] \in S /\ Listed(S)[n].id = Place(I, n)
  <2>1. TAKE n \in 1..Cardinality(I)
  <2>2. Listed(S)[n] = CHOOSE e \in S : e.id = Place(I, n)
    BY <1>7, <1>12
  <2>3. \E e \in S : e.id = Place(I, n)
    BY <1>5, <1>11
  <2> QED
    BY <2>2, <2>3
<1>14. Listed(S) = [n \in 1..Cardinality(I) |-> Listed(S)[n]]
  BY <1>7, <1>12
<1>15. Listed(S) \in Seq(S) /\ DOMAIN Listed(S) = 1..Cardinality(I)
  BY <1>11, <1>13, <1>14
<1>16. \A e \in S : \E n \in 1..Cardinality(I) : Listed(S)[n] = e
  BY <1>2, <1>6, <1>11, <1>13
<1> QED
  BY <1>15, <1>16, MembersAll

LEMMA LinkedAre ==
  ASSUME NEW g, StoresAre(g), NEW S \in SUBSET g.events
  PROVE  /\ LinkedArtifacts(S) \in Seq({LinkedArtifact(e) : e \in S})
         /\ Members(LinkedArtifacts(S)) = {LinkedArtifact(e) : e \in S}
         /\ LinkedEntities(S) \in Seq({LinkedEntity(e) : e \in S})
         /\ Members(LinkedEntities(S)) = {LinkedEntity(e) : e \in S}
<1>1. PICK l \in Seq(S) : l = Listed(S) /\ Members(l) = S
  BY ListedIs
<1>2. Len(l) \in Nat /\ DOMAIN l = 1..Len(l) /\ {l[n] : n \in DOMAIN l} = S
  BY <1>1 DEF Members
<1>3. LinkedArtifacts(S) = [n \in DOMAIN l |-> LinkedArtifact(l[n])]
  BY <1>1 DEF LinkedArtifacts
<1>4. LinkedEntities(S) = [n \in DOMAIN l |-> LinkedEntity(l[n])]
  BY <1>1 DEF LinkedEntities
<1>5. [n \in DOMAIN l |-> LinkedArtifact(l[n])] \in Seq({LinkedArtifact(e) : e \in S})
  BY <1>2
<1>6. [n \in DOMAIN l |-> LinkedEntity(l[n])] \in Seq({LinkedEntity(e) : e \in S})
  BY <1>2
<1>7. Members([n \in DOMAIN l |-> LinkedArtifact(l[n])]) = {LinkedArtifact(e) : e \in S}
  BY <1>2 DEF Members
<1>8. Members([n \in DOMAIN l |-> LinkedEntity(l[n])]) = {LinkedEntity(e) : e \in S}
  BY <1>2 DEF Members
<1> QED
  BY <1>3, <1>4, <1>5, <1>6, <1>7, <1>8

(* The visits of the five kinds of object.                                  *)
IsJoin(A, v, w) ==
  /\ Join(v, w).nodes = v.nodes \cup w.nodes /\ Join(v, w).edges = v.edges \cup w.edges
  /\ Join(v, w).gaps = v.gaps \cup w.gaps
  /\ Join(v, w).next \in Seq(A) /\ Members(Join(v, w).next) = Members(v.next) \cup Members(w.next)

LEMMA JoinIs ==
  ASSUME NEW A, NEW v, NEW w, v.next \in Seq(A), w.next \in Seq(A)
  PROVE  IsJoin(A, v, w)
<1>1. /\ Join(v, w).nodes = v.nodes \cup w.nodes /\ Join(v, w).edges = v.edges \cup w.edges
      /\ Join(v, w).gaps = v.gaps \cup w.gaps /\ Join(v, w).next = v.next \o w.next
  BY DEF Join, Visit
<1>2. \A p, q \in Seq(A) : p \o q \in Seq(A) /\ Members(p \o q) = Members(p) \cup Members(q)
  BY MembersAre
<1>3. v.next \o w.next \in Seq(A) /\ Members(v.next \o w.next) = Members(v.next) \cup Members(w.next)
  BY <1>2
<1> QED
  BY <1>1, <1>3 DEF IsJoin

LEMMA SideVisitsAre ==
  ASSUME NEW g, NEW o, NEW u
  PROVE  /\ traceForwardIndex(g, o, u).next = <<>> /\ traceForwardIndex(g, o, u).gaps = {}
         /\ traceForwardIndex(g, o, u).nodes =
              IF Forward(o) /\ o.includeIndex THEN {Node(<<"index", r.id>>) : r \in RecordsFrom(g, u)} ELSE {}
         /\ traceForwardIndex(g, o, u).edges =
              IF Forward(o) /\ o.includeIndex
              THEN {Edge(u, <<"index", r.id>>, "index_record_derived_from") : r \in RecordsFrom(g, u)} ELSE {}
         /\ traceRelatedReceipts(g, o, u).next = <<>> /\ traceRelatedReceipts(g, o, u).gaps = {}
         /\ traceRelatedReceipts(g, o, u).nodes =
              IF o.includeReceipts THEN {Node(<<"receipt", r.id>>) : r \in RelatedReceipts(g, u[2])} ELSE {}
         /\ traceRelatedReceipts(g, o, u).edges =
              IF o.includeReceipts
              THEN {Edge(<<"receipt", r.id>>, u, "receipt_emitted_for") : r \in RelatedReceipts(g, u[2])} ELSE {}
         /\ Nothing.nodes = {} /\ Nothing.edges = {} /\ Nothing.gaps = {} /\ Nothing.next = <<>>
         /\ addGapNode(u).nodes = {GapNode(u)} /\ addGapNode(u).next = <<>>
<1>1. /\ traceForwardIndex(g, o, u).next = <<>> /\ traceForwardIndex(g, o, u).gaps = {}
      /\ traceRelatedReceipts(g, o, u).next = <<>> /\ traceRelatedReceipts(g, o, u).gaps = {}
  BY DEF Visit, traceForwardIndex, traceRelatedReceipts
<1>2. traceForwardIndex(g, o, u).nodes =
        IF Forward(o) /\ o.includeIndex THEN {Node(<<"index", r.id>>) : r \in RecordsFrom(g, u)} ELSE {}
  BY DEF Visit, traceForwardIndex
<1>3. traceForwardIndex(g, o, u).edges =
        IF Forward(o) /\ o.includeIndex
        THEN {Edge(u, <<"index", r.id>>, "index_record_derived_from") : r \in RecordsFrom(g, u)} ELSE {}
  BY DEF Visit, traceForwardIndex
<1>4. traceRelatedReceipts(g, o, u).nodes =
        IF o.includeReceipts THEN {Node(<<"receipt", r.id>>) : r \in RelatedReceipts(g, u[2])} ELSE {}
  BY DEF Visit, traceRelatedReceipts
<1>5. traceRelatedReceipts(g, o, u).edges =
        IF o.includeReceipts
        THEN {Edge(<<"receipt", r.id>>, u, "receipt_emitted_for") : r \in RelatedReceipts(g, u[2])} ELSE {}
  BY DEF Visit, traceRelatedReceipts
<1>6. Nothing.nodes = {} /\ Nothing.edges = {} /\ Nothing.gaps = {} /\ Nothing.next = <<>>
  BY DEF Visit, Nothing
<1>7. addGapNode(u).nodes = {GapNode(u)} /\ addGapNode(u).next = <<>>
  BY DEF Visit, addGapNode
<1> QED
  BY <1>1, <1>2, <1>3, <1>4, <1>5, <1>6, <1>7

Own(g, u) == EventsOf(g, u[2])

LEMMA EntityIs ==
  ASSUME NEW g, StoresAre(g), NEW o, NEW u, u[1] = "canonical", u[2] \in g.entities
  PROVE  LET v     == VisitOf(g, o, u)
             index == traceForwardIndex(g, o, u)
             receipts == traceRelatedReceipts(g, o, u)
             back  == IF Backward(o) THEN EntityBack(g, u) ELSE Nothing
         IN /\ v.nodes = {Node(u)} \cup back.nodes \cup index.nodes \cup receipts.nodes
            /\ v.edges = back.edges \cup index.edges \cup receipts.edges
            /\ v.gaps = back.gaps
            /\ v.next \in Seq(Around(g))
            /\ Members(v.next) =
                 IF Backward(o) THEN {LinkedArtifact(e) : e \in Links(Own(g, u))} ELSE {}
<1> DEFINE index == traceForwardIndex(g, o, u)
           receipts == traceRelatedReceipts(g, o, u)
           back  == IF Backward(o) THEN EntityBack(g, u) ELSE Nothing
           own   == Visit({Node(u)}, {}, {}, <<>>)
           A     == Around(g)
<1>1. VisitOf(g, o, u) = traceEntity(g, o, u)
  BY DEF VisitOf
<1>2. traceEntity(g, o, u) = Join(Join(own, back), Join(index, receipts))
  BY DEF traceEntity
<1>3. own.nodes = {Node(u)} /\ own.edges = {} /\ own.gaps = {} /\ own.next = <<>>
  BY DEF Visit
<1>4. /\ index.next = <<>> /\ index.gaps = {} /\ receipts.next = <<>> /\ receipts.gaps = {}
  BY DEF Visit, traceForwardIndex, traceRelatedReceipts
<1>5. back.next \in Seq(A) /\ Members(back.next) =
         IF Backward(o) THEN {LinkedArtifact(e) : e \in Links(Own(g, u))} ELSE {}
  <2>1. Links(Own(g, u)) \in SUBSET g.events
    BY DEF Links, Own, EventsOf
  <2>2. EntityBack(g, u).next = LinkedArtifacts(Links(Own(g, u)))
    BY DEF Visit, EntityBack, Own
  <2>3. /\ LinkedArtifacts(Links(Own(g, u))) \in Seq({LinkedArtifact(e) : e \in Links(Own(g, u))})
        /\ Members(LinkedArtifacts(Links(Own(g, u)))) = {LinkedArtifact(e) : e \in Links(Own(g, u))}
    BY <2>1, LinkedAre
  <2>4. {LinkedArtifact(e) : e \in Links(Own(g, u))} \subseteq A
    BY <2>1 DEF Around
  <2>5. \A S : \A q \in Seq(S) : S \subseteq A => q \in Seq(A)
    OBVIOUS
  <2>6. EntityBack(g, u).next \in Seq(A)
    BY <2>2, <2>3, <2>4, <2>5
  <2>7. Nothing.next = <<>> /\ Members(<<>>) = {} /\ <<>> \in Seq(A)
    BY MembersAre DEF Nothing, Visit
  <2> QED
    BY <2>2, <2>3, <2>6, <2>7
<1>6. Members(<<>>) = {} /\ <<>> \in Seq(A)
  BY MembersAre
<1> HIDE DEF index, receipts, back, own, A
<1>7. IsJoin(A, own, back)
  BY <1>3, <1>5, <1>6, JoinIs
<1>8. IsJoin(A, index, receipts)
  BY <1>4, <1>6, JoinIs
<1>9. IsJoin(A, Join(own, back), Join(index, receipts))
  <2>1. Join(own, back).next \in Seq(A) /\ Join(index, receipts).next \in Seq(A)
    BY <1>7, <1>8 DEF IsJoin
  <2> QED
    BY <2>1, JoinIs
<1> DEFINE v == VisitOf(g, o, u)
<1>10. v = Join(Join(own, back), Join(index, receipts))
  BY <1>1, <1>2
<1> HIDE DEF v
<1>11. v.nodes = {Node(u)} \cup back.nodes \cup index.nodes \cup receipts.nodes
  BY <1>3, <1>7, <1>8, <1>9, <1>10 DEF IsJoin
<1>12. v.edges = back.edges \cup index.edges \cup receipts.edges
  BY <1>3, <1>7, <1>8, <1>9, <1>10 DEF IsJoin
<1>13. v.gaps = back.gaps
  BY <1>3, <1>4, <1>7, <1>8, <1>9, <1>10 DEF IsJoin
<1>14. v.next \in Seq(A) /\ Members(v.next) =
         IF Backward(o) THEN {LinkedArtifact(e) : e \in Links(Own(g, u))} ELSE {}
  BY <1>3, <1>4, <1>5, <1>6, <1>7, <1>8, <1>9, <1>10 DEF IsJoin
<1> QED
  BY <1>11, <1>12, <1>13, <1>14 DEF v, index, receipts, back, A

LEMMA ArtifactIs ==
  ASSUME NEW g, StoresAre(g), NEW o, NEW u, u[1] = "artifact", u[2] \in g.artifacts
  PROVE  LET v     == VisitOf(g, o, u)
             index == traceForwardIndex(g, o, u)
             back  == IF Backward(o) THEN ArtifactBack(g, u) ELSE Nothing
             forth == IF Forward(o) THEN ArtifactForth(g, u) ELSE Nothing
         IN /\ v.nodes = {Node(u)} \cup back.nodes \cup index.nodes
            /\ v.edges = back.edges \cup forth.edges \cup index.edges
            /\ v.gaps = back.gaps
            /\ v.next \in Seq(Around(g))
            /\ Members(v.next) =
                 IF Forward(o) THEN {LinkedEntity(e) : e \in LinksFrom(g, u[2])} ELSE {}
<1> DEFINE index == traceForwardIndex(g, o, u)
           back  == IF Backward(o) THEN ArtifactBack(g, u) ELSE Nothing
           forth == IF Forward(o) THEN ArtifactForth(g, u) ELSE Nothing
           own   == Visit({Node(u)}, {}, {}, <<>>)
           A     == Around(g)
<1>1. VisitOf(g, o, u) = traceArtifact(g, o, u)
  BY DEF VisitOf
<1>2. traceArtifact(g, o, u) = Join(Join(own, back), Join(forth, index))
  BY DEF traceArtifact
<1>3. own.nodes = {Node(u)} /\ own.edges = {} /\ own.gaps = {} /\ own.next = <<>>
  BY DEF Visit
<1>4. /\ index.next = <<>> /\ index.gaps = {} /\ back.next = <<>> /\ forth.nodes = {} /\ forth.gaps = {}
  BY DEF Visit, traceForwardIndex, ArtifactBack, ArtifactForth, Nothing
<1>5. forth.next \in Seq(A) /\ Members(forth.next) =
         IF Forward(o) THEN {LinkedEntity(e) : e \in LinksFrom(g, u[2])} ELSE {}
  <2>1. LinksFrom(g, u[2]) \in SUBSET g.events
    BY DEF LinksFrom, Links
  <2>2. ArtifactForth(g, u).next = LinkedEntities(LinksFrom(g, u[2]))
    BY DEF Visit, ArtifactForth
  <2>3. /\ LinkedEntities(LinksFrom(g, u[2])) \in Seq({LinkedEntity(e) : e \in LinksFrom(g, u[2])})
        /\ Members(LinkedEntities(LinksFrom(g, u[2]))) = {LinkedEntity(e) : e \in LinksFrom(g, u[2])}
    BY <2>1, LinkedAre
  <2>4. {LinkedEntity(e) : e \in LinksFrom(g, u[2])} \subseteq A
    BY <2>1 DEF Around
  <2>5. \A S : \A q \in Seq(S) : S \subseteq A => q \in Seq(A)
    OBVIOUS
  <2>6. ArtifactForth(g, u).next \in Seq(A)
    BY <2>2, <2>3, <2>4, <2>5
  <2>7. Nothing.next = <<>> /\ Members(<<>>) = {} /\ <<>> \in Seq(A)
    BY MembersAre DEF Nothing, Visit
  <2> QED
    BY <2>2, <2>3, <2>6, <2>7
<1>6. Members(<<>>) = {} /\ <<>> \in Seq(A)
  BY MembersAre
<1> HIDE DEF index, forth, back, own, A
<1>7. IsJoin(A, own, back)
  BY <1>3, <1>4, <1>6, JoinIs
<1>8. IsJoin(A, forth, index)
  BY <1>4, <1>5, <1>6, JoinIs
<1>9. IsJoin(A, Join(own, back), Join(forth, index))
  <2>1. Join(own, back).next \in Seq(A) /\ Join(forth, index).next \in Seq(A)
    BY <1>7, <1>8 DEF IsJoin
  <2> QED
    BY <2>1, JoinIs
<1> DEFINE v == VisitOf(g, o, u)
<1>10. v = Join(Join(own, back), Join(forth, index))
  BY <1>1, <1>2
<1> HIDE DEF v
<1>11. v.nodes = {Node(u)} \cup back.nodes \cup index.nodes
  BY <1>3, <1>4, <1>7, <1>8, <1>9, <1>10 DEF IsJoin
<1>12. v.edges = back.edges \cup forth.edges \cup index.edges
  BY <1>3, <1>7, <1>8, <1>9, <1>10 DEF IsJoin
<1>13. v.gaps = back.gaps
  BY <1>3, <1>4, <1>7, <1>8, <1>9, <1>10 DEF IsJoin
<1>14. v.next \in Seq(A) /\ Members(v.next) =
         IF Forward(o) THEN {LinkedEntity(e) : e \in LinksFrom(g, u[2])} ELSE {}
  BY <1>3, <1>4, <1>5, <1>6, <1>7, <1>8, <1>9, <1>10 DEF IsJoin
<1> QED
  BY <1>11, <1>12, <1>13, <1>14 DEF v, index, back, forth, A

IsRecordVisit(v, g, o, r, u) ==
  /\ v.nodes = {Node(u)} /\ v.next \in Seq(Around(g))
  /\ Backward(o) /\ IsHeld(g, r.source) =>
       /\ v.next = <<r.source>>
       /\ v.edges = {Edge(u, r.source, IF r.stale THEN "stale_projection_of" ELSE "index_record_derived_from")}
  /\ Backward(o) /\ ~ IsHeld(g, r.source) =>
       v.next = <<>> /\ v.edges = {Edge(u, r.source, "missing_owner_truth")}
  /\ ~ Backward(o) => v.next = <<>> /\ v.edges = {}

LEMMA RecordIsTraced ==
  ASSUME NEW g, StoresAre(g), NEW o, NEW r \in g.index, NEW u, u[1] = "index", u[2] = r.id
  PROVE  IsRecordVisit(VisitOf(g, o, u), g, o, r, u)
<1> DEFINE found == {q \in g.index : q.id = u[2]}
           record == CHOOSE q \in found : TRUE
           v == VisitOf(g, o, u)
<1>1. found = {r}
  BY DEF StoresAre
<1>2. record = r /\ found # {}
  BY <1>1
<1>3. v = traceIndexRecord(g, o, u)
  BY DEF VisitOf
<1>4. v = Join(Visit({Node(u)}, {}, {}, <<>>),
               IF ~ Backward(o) THEN Nothing
               ELSE IF IsHeld(g, r.source)
               THEN Visit({}, {Edge(u, r.source,
                                    IF r.stale THEN "stale_projection_of" ELSE "index_record_derived_from")},
                          {}, <<r.source>>)
               ELSE Visit({}, {Edge(u, r.source, "missing_owner_truth")},
                          {Gap(r.source, r.source[1], "missing_owner_truth")}, <<>>))
  BY <1>2, <1>3 DEF traceIndexRecord
<1> HIDE DEF v
<1>5. r.source \in Around(g)
  BY DEF Around
<1>6. /\ <<>> \o <<>> = <<>> /\ <<>> \o <<r.source>> = <<r.source>>
      /\ <<>> \in Seq(Around(g)) /\ <<r.source>> \in Seq(Around(g))
  BY <1>5
<1>7. CASE ~ Backward(o)
  <2>1. v = Join(Visit({Node(u)}, {}, {}, <<>>), Nothing)
    BY <1>4, <1>7
  <2>2. v.nodes = {Node(u)} /\ v.edges = {} /\ v.next = <<>>
    BY <1>6, <2>1 DEF Visit, Join, Nothing
  <2> QED
    BY <1>6, <1>7, <2>2 DEF v, IsRecordVisit
<1>8. CASE Backward(o) /\ IsHeld(g, r.source)
  <2> DEFINE e == Edge(u, r.source, IF r.stale THEN "stale_projection_of" ELSE "index_record_derived_from")
  <2>1. v = Join(Visit({Node(u)}, {}, {}, <<>>), Visit({}, {e}, {}, <<r.source>>))
    BY <1>4, <1>8
  <2> HIDE DEF e
  <2>2. v.nodes = {Node(u)} /\ v.edges = {e} /\ v.next = <<r.source>>
    BY <1>6, <2>1 DEF Visit, Join
  <2> QED
    BY <1>6, <1>8, <2>2 DEF v, e, IsRecordVisit
<1>9. CASE Backward(o) /\ ~ IsHeld(g, r.source)
  <2> DEFINE e == Edge(u, r.source, "missing_owner_truth")
  <2>1. v = Join(Visit({Node(u)}, {}, {}, <<>>),
                 Visit({}, {e}, {Gap(r.source, r.source[1], "missing_owner_truth")}, <<>>))
    BY <1>4, <1>9
  <2> HIDE DEF e
  <2>2. v.nodes = {Node(u)} /\ v.edges = {e} /\ v.next = <<>>
    BY <1>6, <2>1 DEF Visit, Join
  <2> QED
    BY <1>6, <1>9, <2>2 DEF v, e, IsRecordVisit
<1> QED
  BY <1>7, <1>8, <1>9

LEMMA EventIs ==
  ASSUME NEW g, StoresAre(g), NEW o, NEW e \in g.events, NEW u, u[1] = "ledger", u[2] = e.id
  PROVE  VisitOf(g, o, u).nodes = {Node(u)} /\ VisitOf(g, o, u).next \in Seq(Around(g))
<1> DEFINE found == {x \in g.events : x.id = u[2]}
           x0 == CHOOSE x \in found : TRUE
           v == VisitOf(g, o, u)
           A == Around(g)
           own == Visit({Node(u)}, {}, {}, <<>>)
           back == IF Backward(o) /\ e.parent # 0
                   THEN Visit({}, {Edge(EventUri(e.parent), u, "entity_created_by")}, {}, <<EventUri(e.parent)>>)
                   ELSE Nothing
           forth == IF Forward(o)
                    THEN Visit({}, {Edge(u, <<e.store, e.subject>>, eventToEdgeType(e.kind))}, {},
                               <<<<e.store, e.subject>>>>)
                    ELSE Nothing
<1>1. found = {e}
  BY DEF StoresAre
<1>2. x0 = e /\ found # {}
  BY <1>1
<1>3. v = Join(Join(own, back), forth)
  BY <1>2 DEF VisitOf, traceEvent
<1>4. EventUri(e.parent) \in A /\ <<e.store, e.subject>> \in A
  BY DEF Around
<1>5. /\ <<>> \in Seq(A) /\ <<EventUri(e.parent)>> \in Seq(A) /\ <<<<e.store, e.subject>>>> \in Seq(A)
  <2> HIDE DEF A
  <2>1. \A a \in A : <<a>> \in Seq(A)
    OBVIOUS
  <2> QED
    BY <1>4, <2>1
<1>6. own.nodes = {Node(u)} /\ own.next = <<>>
  BY DEF Visit
<1>7. back.nodes = {} /\ back.next \in {<<>>, <<EventUri(e.parent)>>}
  BY DEF Visit, Nothing
<1>8. forth.nodes = {} /\ forth.next \in {<<>>, <<<<e.store, e.subject>>>>}
  BY DEF Visit, Nothing
<1> HIDE DEF v, A, own, back, forth
<1>9. IsJoin(A, own, back)
  BY <1>5, <1>6, <1>7, JoinIs
<1>10. IsJoin(A, Join(own, back), forth)
  <2>1. Join(own, back).next \in Seq(A) /\ forth.next \in Seq(A)
    BY <1>5, <1>8, <1>9 DEF IsJoin
  <2> QED
    BY <2>1, JoinIs
<1>11. v.nodes = {Node(u)} /\ v.next \in Seq(A)
  BY <1>3, <1>6, <1>7, <1>8, <1>9, <1>10 DEF IsJoin
<1> QED
  BY <1>11 DEF v, A

(* The objects that a receipt is about and that are there.                  *)
OwnerUri(g, id) == <<IF id \in g.entities THEN "canonical" ELSE "artifact", id>>
OwnersOf(g, r)  == {OwnerUri(g, id) : id \in {i \in r.affected : i \in g.entities \cup g.artifacts}}

LEMMA ReceiptIs ==
  ASSUME NEW g, StoresAre(g), NEW o, NEW r \in g.receipts, NEW u, u[1] = "receipt", u[2] = r.id
  PROVE  /\ VisitOf(g, o, u).nodes = {Node(u)} /\ VisitOf(g, o, u).next \in Seq(Around(g))
         /\ Members(VisitOf(g, o, u).next) =
              (IF Backward(o) THEN {EventUri(r.event)} ELSE {}) \cup (IF Forward(o) THEN OwnersOf(g, r) ELSE {})
<1> DEFINE found == {x \in g.receipts : x.id = u[2]}
           x0 == CHOOSE x \in found : TRUE
           v == VisitOf(g, o, u)
           A == Around(g)
           owners_ == OwnersOf(g, r)
           edges_ == {Edge(u, OwnerUri(g, id), "mutation_committed_by") :
                        id \in {i \in r.affected : i \in g.entities \cup g.artifacts}}
           own == Visit({Node(u)}, {}, {}, <<>>)
           back == IF Backward(o)
                   THEN Visit({}, {Edge(EventUri(r.event), u, "receipt_emitted_for")}, {}, <<EventUri(r.event)>>)
                   ELSE Nothing
           forth == IF Forward(o) THEN Visit({}, edges_, {}, SetToSeq(owners_)) ELSE Nothing
<1>1. found = {r}
  BY DEF StoresAre
<1>2. x0 = r /\ found # {}
  BY <1>1
<1>3. v = Join(Join(own, back), forth)
  BY <1>2 DEF VisitOf, traceReceipt, OwnersOf, OwnerUri
<1>4. EventUri(r.event) \in A /\ owners_ \subseteq A
  <2>1. owners_ \subseteq Objects(g)
    BY DEF OwnersOf, OwnerUri, Objects
  <2> QED
    BY <2>1 DEF Around
<1>5. SetToSeq(owners_) \in Seq(owners_) /\ Members(SetToSeq(owners_)) = owners_
  <2>1. owners_ \subseteq Objects(g)
    BY DEF OwnersOf, OwnerUri, Objects
  <2>2. IsFiniteSet(owners_)
    BY <2>1, ObjectsAreFinite, FS_Subset
  <2> QED
    BY <2>2, SetToSeqIs
<1> HIDE DEF A, owners_, edges_
<1>6. /\ <<>> \in Seq(A) /\ <<EventUri(r.event)>> \in Seq(A) /\ SetToSeq(owners_) \in Seq(A)
  <2>1. \A a \in A : <<a>> \in Seq(A)
    OBVIOUS
  <2>2. \A q \in Seq(owners_) : q \in Seq(A)
    BY <1>4
  <2> QED
    BY <1>4, <1>5, <2>1, <2>2
<1>7. Members(<<>>) = {} /\ Members(<<EventUri(r.event)>>) = {EventUri(r.event)}
  BY DEF Members
<1>8. own.nodes = {Node(u)} /\ own.next = <<>>
  BY DEF Visit
<1>9. back.nodes = {} /\ back.next = IF Backward(o) THEN <<EventUri(r.event)>> ELSE <<>>
  BY DEF Visit, Nothing
<1>10. forth.nodes = {} /\ forth.next = IF Forward(o) THEN SetToSeq(owners_) ELSE <<>>
  BY DEF Visit, Nothing
<1> HIDE DEF v, own, back, forth
<1>11. IsJoin(A, own, back)
  BY <1>6, <1>8, <1>9, JoinIs
<1>12. IsJoin(A, Join(own, back), forth)
  <2>1. Join(own, back).next \in Seq(A) /\ forth.next \in Seq(A)
    BY <1>6, <1>10, <1>11 DEF IsJoin
  <2> QED
    BY <2>1, JoinIs
<1>13. v.nodes = {Node(u)} /\ v.next \in Seq(A) /\ Members(v.next) = Members(back.next) \cup Members(forth.next)
  BY <1>3, <1>7, <1>8, <1>9, <1>10, <1>11, <1>12 DEF IsJoin
<1>14. Members(back.next) = IF Backward(o) THEN {EventUri(r.event)} ELSE {}
  BY <1>7, <1>9
<1>15. Members(forth.next) = IF Forward(o) THEN owners_ ELSE {}
  BY <1>5, <1>7, <1>10
<1> QED
  BY <1>13, <1>14, <1>15 DEF v, A, owners_

(* The node of a URI, whoever adds it: a gap where nothing resolves.        *)
NodeAt(g, uri) == IF resolve(g, uri) THEN Node(uri) ELSE GapNode(uri)

LEMMA ResolveIs ==
  ASSUME NEW g, NEW u
  PROVE  /\ u[1] = "canonical" => (resolve(g, u) <=> u[2] \in g.entities)
         /\ u[1] = "artifact"  => (resolve(g, u) <=> u[2] \in g.artifacts)
         /\ u[1] = "index"     => (resolve(g, u) <=> \E r \in g.index : r.id = u[2])
         /\ u[1] = "ledger"    => (resolve(g, u) <=> \E e \in g.events : e.id = u[2])
         /\ u[1] = "receipt"   => (resolve(g, u) <=> \E r \in g.receipts : r.id = u[2])
<1>1. u[1] = "canonical" => (resolve(g, u) <=> u[2] \in g.entities)
  BY DEF resolve
<1>2. u[1] = "artifact" => (resolve(g, u) <=> u[2] \in g.artifacts)
  BY DEF resolve
<1>3. u[1] = "index" => (resolve(g, u) <=> u[2] \in {r.id : r \in g.index})
  BY DEF resolve
<1>4. u[1] = "ledger" => (resolve(g, u) <=> u[2] \in {e.id : e \in g.events})
  BY DEF resolve
<1>5. u[1] = "receipt" => (resolve(g, u) <=> u[2] \in {r.id : r \in g.receipts})
  BY DEF resolve
<1> QED
  BY <1>1, <1>2, <1>3, <1>4, <1>5

LEMMA GapIs ==
  ASSUME NEW g, NEW o, NEW u, u[1] \in Five, ~ resolve(g, u)
  PROVE  VisitOf(g, o, u).nodes = {GapNode(u)} /\ VisitOf(g, o, u).next = <<>>
<1>1. VisitOf(g, o, u) = addGapNode(u)
  <2>1. CASE u[1] = "canonical"
    BY <2>1, ResolveIs DEF VisitOf, traceEntity
  <2>2. CASE u[1] = "artifact"
    BY <2>2, ResolveIs DEF VisitOf, traceArtifact
  <2>3. CASE u[1] = "index"
    <3>1. {r \in g.index : r.id = u[2]} = {}
      BY <2>3, ResolveIs
    <3>2. VisitOf(g, o, u) = traceIndexRecord(g, o, u)
      BY <2>3 DEF VisitOf
    <3> QED
      BY <3>1, <3>2 DEF traceIndexRecord
  <2>4. CASE u[1] = "ledger"
    <3>1. {x \in g.events : x.id = u[2]} = {}
      BY <2>4, ResolveIs
    <3>2. VisitOf(g, o, u) = traceEvent(g, o, u)
      BY <2>4 DEF VisitOf
    <3> QED
      BY <3>1, <3>2 DEF traceEvent
  <2>5. CASE u[1] = "receipt"
    <3>1. {r \in g.receipts : r.id = u[2]} = {}
      BY <2>5, ResolveIs
    <3>2. VisitOf(g, o, u) = traceReceipt(g, o, u)
      BY <2>5 DEF VisitOf
    <3> QED
      BY <3>1, <3>2 DEF traceReceipt
  <2> QED
    BY <2>1, <2>2, <2>3, <2>4, <2>5 DEF Five
<1> QED
  BY <1>1 DEF addGapNode, Visit

LEMMA ObjectsResolve ==
  ASSUME NEW g, NEW u \in Objects(g)
  PROVE  resolve(g, u) /\ u[1] \in Five
<1>1. CASE u \in {"canonical"} \X g.entities
  <2>1. u[1] = "canonical" /\ u[2] \in g.entities
    BY <1>1
  <2> QED
    BY <2>1, ResolveIs DEF Five
<1>2. CASE u \in {"artifact"} \X g.artifacts
  <2>1. u[1] = "artifact" /\ u[2] \in g.artifacts
    BY <1>2
  <2> QED
    BY <2>1, ResolveIs DEF Five
<1>3. CASE u \in {"index"} \X {r.id : r \in g.index}
  <2>1. u[1] = "index" /\ u[2] \in {r.id : r \in g.index}
    BY <1>3
  <2>2. \E r \in g.index : r.id = u[2]
    BY <2>1
  <2> QED
    BY <2>1, <2>2, ResolveIs DEF Five
<1>4. CASE u \in {"ledger"} \X {e.id : e \in g.events}
  <2>1. u[1] = "ledger" /\ u[2] \in {e.id : e \in g.events}
    BY <1>4
  <2>2. \E e \in g.events : e.id = u[2]
    BY <2>1
  <2> QED
    BY <2>1, <2>2, ResolveIs DEF Five
<1>5. CASE u \in {"receipt"} \X {r.id : r \in g.receipts}
  <2>1. u[1] = "receipt" /\ u[2] \in {r.id : r \in g.receipts}
    BY <1>5
  <2>2. \E r \in g.receipts : r.id = u[2]
    BY <2>1
  <2> QED
    BY <2>1, <2>2, ResolveIs DEF Five
<1> QED
  BY <1>1, <1>2, <1>3, <1>4, <1>5 DEF Objects

(* What is visited next, whatever the object.                               *)
LEMMA NextIsAround ==
  ASSUME NEW g, StoresAre(g), NEW o, NEW u, u[1] \in Five
  PROVE  VisitOf(g, o, u).next \in Seq(Around(g))
<1>1. CASE ~ resolve(g, u)
  <2>1. <<>> \in Seq(Around(g))
    OBVIOUS
  <2> QED
    BY <1>1, <2>1, GapIs
<1>2. CASE resolve(g, u)
  <2>1. CASE u[1] = "canonical"
    BY <1>2, <2>1, ResolveIs, EntityIs
  <2>2. CASE u[1] = "artifact"
    BY <1>2, <2>2, ResolveIs, ArtifactIs
  <2>3. CASE u[1] = "index"
    <3>1. PICK r \in g.index : u[2] = r.id
      BY <1>2, <2>3, ResolveIs
    <3> QED
      BY <2>3, <3>1, RecordIsTraced DEF IsRecordVisit
  <2>4. CASE u[1] = "ledger"
    <3>1. PICK e \in g.events : u[2] = e.id
      BY <1>2, <2>4, ResolveIs
    <3> QED
      BY <2>4, <3>1, EventIs
  <2>5. CASE u[1] = "receipt"
    <3>1. PICK r \in g.receipts : u[2] = r.id
      BY <1>2, <2>5, ResolveIs
    <3> QED
      BY <2>5, <3>1, ReceiptIs
  <2> QED
    BY <2>1, <2>2, <2>3, <2>4, <2>5 DEF Five
<1> QED
  BY <1>1, <1>2

LEMMA CallingIsFinite ==
  ASSUME NEW U, NEW next, LeadsIn(next, U), IsFiniteSet(DOMAIN next)
  PROVE  Graph(next, U)
<1> DEFINE f == [u \in DOMAIN next |-> {u} \X DOMAIN next[u]]
           C == {f[u] : u \in DOMAIN next}
<1>1. IsFiniteSet(C)
  <2>1. DOMAIN f = DOMAIN next
    OBVIOUS
  <2> HIDE DEF f
  <2> QED
    BY <2>1, ImageIsFinite
<1>2. ASSUME NEW u \in DOMAIN next PROVE IsFiniteSet({u} \X DOMAIN next[u])
  <2>1. next[u] \in Seq(U)
    BY DEF LeadsIn
  <2>2. Len(next[u]) \in Nat /\ DOMAIN next[u] = 1..Len(next[u])
    BY <2>1
  <2>3. \A n \in Nat : IsFiniteSet(1..n)
    BY FS_Interval
  <2>4. IsFiniteSet(DOMAIN next[u])
    BY <2>2, <2>3
  <2> QED
    BY <2>4, FS_Singleton, FS_Product
<1>3. \A T \in C : IsFiniteSet(T)
  BY <1>2
<1>4. C = {{u} \X DOMAIN next[u] : u \in DOMAIN next}
  OBVIOUS
<1> HIDE DEF C
<1>5. IsFiniteSet(Calling(next))
  BY <1>1, <1>3, <1>4, FS_UNION DEF Calling
<1> QED
  BY <1>5 DEF Graph

LEMMA TraceIsGraph ==
  ASSUME NEW g, StoresAre(g), NEW o
  PROVE  /\ Graph(NextOf(g, o), Around(g))
         /\ \A u : Leads(NextOf(g, o), u) = IF u \in Objects(g) THEN VisitOf(g, o, u).next ELSE <<>>
<1>1. DOMAIN NextOf(g, o) = Objects(g) /\ \A u \in Objects(g) : NextOf(g, o)[u] = VisitOf(g, o, u).next
  BY DEF NextOf
<1>2. LeadsIn(NextOf(g, o), Around(g))
  BY <1>1, ObjectsResolve, NextIsAround DEF LeadsIn
<1>3. Graph(NextOf(g, o), Around(g))
  BY <1>1, <1>2, ObjectsAreFinite, CallingIsFinite
<1> QED
  BY <1>1, <1>3 DEF Leads

(* The nodes that a visit adds are what their URIs resolve to.               *)
LEMMA NodesAreNamed ==
  ASSUME NEW g, StoresAre(g), NEW o, NEW u, u[1] \in Five, NEW m \in VisitOf(g, o, u).nodes
  PROVE  m = NodeAt(g, m.uri)
<1>0. \A x : Node(x).uri = x /\ GapNode(x).uri = x
  BY DEF Node, GapNode
<1>1. \A x : resolve(g, x) => NodeAt(g, Node(x).uri) = Node(x)
  BY <1>0 DEF NodeAt
<1>2. CASE ~ resolve(g, u)
  <2>1. m = GapNode(u)
    BY <1>2, GapIs
  <2> QED
    BY <1>0, <1>2, <2>1 DEF NodeAt
<1>3. CASE resolve(g, u)
  <2>1. SUFFICES \E x : resolve(g, x) /\ m = Node(x)
    BY <1>1
  <2>2. \A i : (\E e \in g.events : e.id = i) => resolve(g, EventUri(i))
    BY ResolveIs DEF EventUri
  <2>3. \A i : (\E r \in g.index : r.id = i) => resolve(g, <<"index", i>>)
    BY ResolveIs
  <2>4. \A i : (\E r \in g.receipts : r.id = i) => resolve(g, <<"receipt", i>>)
    BY ResolveIs
  <2>5. ASSUME m \in traceForwardIndex(g, o, u).nodes PROVE \E x : resolve(g, x) /\ m = Node(x)
    <3>0. traceForwardIndex(g, o, u).nodes =
            IF Forward(o) /\ o.includeIndex THEN {Node(<<"index", r.id>>) : r \in RecordsFrom(g, u)} ELSE {}
      BY SideVisitsAre
    <3>1. PICK r \in RecordsFrom(g, u) : m = Node(<<"index", r.id>>)
      BY <2>5, <3>0
    <3>2. r \in g.index
      BY DEF RecordsFrom
    <3> QED
      BY <2>3, <3>1, <3>2
  <2>6. ASSUME m \in traceRelatedReceipts(g, o, u).nodes PROVE \E x : resolve(g, x) /\ m = Node(x)
    <3>0. traceRelatedReceipts(g, o, u).nodes =
            IF o.includeReceipts THEN {Node(<<"receipt", r.id>>) : r \in RelatedReceipts(g, u[2])} ELSE {}
      BY SideVisitsAre
    <3>1. PICK r \in RelatedReceipts(g, u[2]) : m = Node(<<"receipt", r.id>>)
      BY <2>6, <3>0
    <3>2. r \in g.receipts
      BY DEF RelatedReceipts
    <3> QED
      BY <2>4, <3>1, <3>2
  <2>7. EntityBack(g, u).nodes = {Node(EventUri(e.id)) : e \in Own(g, u)}
    BY DEF EntityBack, Visit, Own
  <2>8. ArtifactBack(g, u).nodes = {Node(EventUri(e.id)) : e \in Own(g, u)}
    BY DEF ArtifactBack, Visit, Own
  <2>9. Nothing.nodes = {}
    BY DEF Nothing, Visit
  <2>10. ASSUME m \in {Node(EventUri(e.id)) : e \in Own(g, u)} PROVE \E x : resolve(g, x) /\ m = Node(x)
    <3>1. PICK e \in g.events : m = Node(EventUri(e.id))
      BY <2>10 DEF Own, EventsOf
    <3> QED
      BY <2>2, <3>1
  <2>11. CASE u[1] = "canonical"
    <3>1. m \in {Node(u)} \cup (IF Backward(o) THEN EntityBack(g, u) ELSE Nothing).nodes
                 \cup traceForwardIndex(g, o, u).nodes \cup traceRelatedReceipts(g, o, u).nodes
      BY <1>3, <2>11, ResolveIs, EntityIs
    <3> QED
      BY <1>3, <2>5, <2>6, <2>7, <2>9, <2>10, <3>1
  <2>12. CASE u[1] = "artifact"
    <3>1. m \in {Node(u)} \cup (IF Backward(o) THEN ArtifactBack(g, u) ELSE Nothing).nodes
                 \cup traceForwardIndex(g, o, u).nodes
      BY <1>3, <2>12, ResolveIs, ArtifactIs
    <3> QED
      BY <1>3, <2>5, <2>8, <2>9, <2>10, <3>1
  <2>13. CASE u[1] = "index"
    <3>1. PICK r \in g.index : u[2] = r.id
      BY <1>3, <2>13, ResolveIs
    <3>2. VisitOf(g, o, u).nodes = {Node(u)}
      BY <2>13, <3>1, RecordIsTraced DEF IsRecordVisit
    <3>3. m = Node(u)
      BY <3>2
    <3> QED
      BY <1>3, <3>3
  <2>14. CASE u[1] = "ledger"
    <3>1. PICK e \in g.events : u[2] = e.id
      BY <1>3, <2>14, ResolveIs
    <3>2. VisitOf(g, o, u).nodes = {Node(u)}
      BY <2>14, <3>1, EventIs
    <3>3. m = Node(u)
      BY <3>2
    <3> QED
      BY <1>3, <3>3
  <2>15. CASE u[1] = "receipt"
    <3>1. PICK r \in g.receipts : u[2] = r.id
      BY <1>3, <2>15, ResolveIs
    <3>2. VisitOf(g, o, u).nodes = {Node(u)}
      BY <2>15, <3>1, ReceiptIs
    <3>3. m = Node(u)
      BY <3>2
    <3> QED
      BY <1>3, <3>3
  <2> QED
    BY <2>11, <2>12, <2>13, <2>14, <2>15 DEF Five
<1> QED
  BY <1>2, <1>3

(* Of nodes that their URIs name, it is the same whether the first or the    *)
(* last with a URI stays: all of them do.                                  *)
FirstStay(nodes, L) ==
  UNION {{m \in nodes[n] : \A i \in 1..(n - 1) : NoneOf(nodes[i], m.uri)} : n \in 1..L}
LastStay(nodes, L) ==
  UNION {{m \in nodes[n] : \A i \in (n + 1)..L : NoneOf(nodes[i], m.uri)} : n \in 1..L}
AllStay(nodes, L) == UNION {nodes[n] : n \in 1..L}

LEMMA AllNodesStay ==
  ASSUME NEW g, NEW L \in Nat, NEW nodes, DOMAIN nodes = 1..L,
         \A n \in 1..L : \A m \in nodes[n] : m = NodeAt(g, m.uri)
  PROVE  FirstStay(nodes, L) = AllStay(nodes, L) /\ LastStay(nodes, L) = AllStay(nodes, L)
<1>1. ASSUME NEW n \in 1..L, NEW m \in nodes[n]
      PROVE  /\ \E k \in 1..L : m \in nodes[k] /\ \A i \in 1..(k - 1) : NoneOf(nodes[i], m.uri)
             /\ \E k \in 1..L : m \in nodes[k] /\ \A i \in (k + 1)..L : NoneOf(nodes[i], m.uri)
  <2> DEFINE K == {k \in 1..L : m \in nodes[k]}
  <2>1. \A k \in 1..L : k \notin K => NoneOf(nodes[k], m.uri)
    BY DEF NoneOf
  <2>2. n \in K /\ K \in SUBSET (1..L)
    OBVIOUS
  <2> HIDE DEF K
  <2>3. PICK k \in K : \A i \in K : k <= i
    <3>1. K \in SUBSET Nat /\ K # {}
      BY <2>2
    <3> QED
      BY <3>1, LeastExists
  <2>4. PICK j \in K : \A i \in K : i <= j
    <3> DEFINE B == {b \in 0..L : L - b \in K}
    <3>1. B \in SUBSET Nat /\ L - n \in B
      BY <2>2
    <3>2. PICK b \in B : \A c \in B : b <= c
      <4> HIDE DEF B
      <4> QED
        BY <3>1, LeastExists
    <3>3. L - b \in K
      BY <3>2
    <3>4. ASSUME NEW i \in K PROVE i <= L - b
      <4>1. i \in 1..L /\ b \in 0..L
        BY <2>2, <3>2
      <4>2. L - i \in B
        BY <4>1
      <4>3. b <= L - i
        BY <3>2, <4>2
      <4> QED
        BY <4>1, <4>3
    <3> QED
      BY <3>3, <3>4
  <2>5. \A i \in 1..(k - 1) : i \in 1..L /\ i \notin K
    BY <2>2, <2>3
  <2>6. \A i \in (j + 1)..L : i \in 1..L /\ i \notin K
    BY <2>2, <2>4
  <2>7. m \in nodes[k] /\ k \in 1..L /\ m \in nodes[j] /\ j \in 1..L
    BY <2>2 DEF K
  <2> QED
    BY <2>1, <2>5, <2>6, <2>7
<1>2. FirstStay(nodes, L) = AllStay(nodes, L)
  <2> DEFINE kept == [n \in 1..L |-> {m \in nodes[n] : \A i \in 1..(n - 1) : NoneOf(nodes[i], m.uri)}]
  <2>1. FirstStay(nodes, L) = UNION {kept[n] : n \in 1..L}
    BY DEF FirstStay
  <2>2. \A n \in 1..L : kept[n] \subseteq nodes[n]
    OBVIOUS
  <2>3. \A n \in 1..L : \A m \in nodes[n] : \E k \in 1..L : m \in kept[k]
    BY <1>1
  <2> HIDE DEF kept
  <2> QED
    BY <2>1, <2>2, <2>3 DEF AllStay
<1>3. LastStay(nodes, L) = AllStay(nodes, L)
  <2> DEFINE kept == [n \in 1..L |-> {m \in nodes[n] : \A i \in (n + 1)..L : NoneOf(nodes[i], m.uri)}]
  <2>1. LastStay(nodes, L) = UNION {kept[n] : n \in 1..L}
    BY DEF LastStay
  <2>2. \A n \in 1..L : kept[n] \subseteq nodes[n]
    OBVIOUS
  <2>3. \A n \in 1..L : \A m \in nodes[n] : \E k \in 1..L : m \in kept[k]
    BY <1>1
  <2> HIDE DEF kept
  <2> QED
    BY <2>1, <2>2, <2>3 DEF AllStay
<1> QED
  BY <1>2, <1>3

(* So a trace holds exactly what the visits of what is visited hold.         *)
LEMMA TraceIs ==
  ASSUME NEW g, StoresAre(g), NEW o, o.depth \in Nat, NEW uri \in Around(g)
  PROVE  LET V == Members(Visited(NextOf(g, o), o.depth, uri))
             t == traceObject(g, uri, o)
         IN /\ V \subseteq Around(g)
            /\ t.nodes = UNION {VisitOf(g, o, u).nodes : u \in V}
            /\ t.edges = UNION {VisitOf(g, o, u).edges : u \in V}
            /\ t.gaps = UNION {VisitOf(g, o, u).gaps : u \in V}
            /\ \A m \in t.nodes : m = NodeAt(g, m.uri)
<1> DEFINE visited == Visited(NextOf(g, o), o.depth, uri)
           V == Members(visited)
           t == traceObject(g, uri, o)
           visits == [n \in DOMAIN visited |-> VisitOf(g, o, visited[n])]
           nodes == [n \in DOMAIN visited |-> VisitOf(g, o, visited[n]).nodes]
<1>1. visited \in Seq(Around(g)) /\ V \subseteq Around(g)
  <2>1. Graph(NextOf(g, o), Around(g))
    BY TraceIsGraph
  <2>2. Closed(NextOf(g, o), Around(g))
    <3>1. \A u : Leads(NextOf(g, o), u) \in Seq(Around(g))
      BY <2>1, LeadsAre DEF Graph
    <3> QED
      BY <3>1, MembersAre DEF Closed
  <2> QED
    BY <2>1, <2>2, VisitsWithin
<1>2. t = [nodes |-> UNION {{m \in visits[n].nodes : \A i \in 1..(n - 1) : NoneOf(visits[i].nodes, m.uri)}
                              : n \in DOMAIN visits},
           edges |-> UNION {visits[n].edges : n \in DOMAIN visits},
           gaps  |-> UNION {visits[n].gaps : n \in DOMAIN visits}]
  BY DEF traceObject, GraphOf, VisitsOf
<1> HIDE DEF visited, t
<1>3. PICK L \in Nat : DOMAIN visited = 1..L
  <2>1. Len(visited) \in Nat /\ DOMAIN visited = 1..Len(visited)
    BY <1>1
  <2> QED
    BY <2>1
<1>4. DOMAIN visits = 1..L /\ \A n \in 1..L : visits[n] = VisitOf(g, o, visited[n])
  BY <1>3
<1>5. DOMAIN nodes = 1..L /\ \A n \in 1..L : nodes[n] = visits[n].nodes
  BY <1>3, <1>4
<1>6. \A n \in 1..L : \A m \in nodes[n] : m = NodeAt(g, m.uri)
  <2>1. TAKE n \in 1..L
  <2>2. visited[n] \in Around(g)
    BY <1>1, <1>3
  <2> QED
    BY <1>4, <1>5, <2>2, AroundIsNamed, NodesAreNamed
<1>7. V = {visited[n] : n \in 1..L}
  BY <1>3 DEF Members
<1> HIDE DEF visits, nodes, V
<1>8. t.nodes = UNION {nodes[n] : n \in 1..L}
  <2>1. FirstStay(nodes, L) = AllStay(nodes, L)
    BY <1>5, <1>6, AllNodesStay
  <2>2. t.nodes = UNION {{m \in visits[n].nodes : \A i \in 1..(n - 1) : NoneOf(visits[i].nodes, m.uri)} : n \in 1..L}
    BY <1>2, <1>4
  <2>3. \A n \in 1..L : {m \in visits[n].nodes : \A i \in 1..(n - 1) : NoneOf(visits[i].nodes, m.uri)}
                          = {m \in nodes[n] : \A i \in 1..(n - 1) : NoneOf(nodes[i], m.uri)}
    <3>1. TAKE n \in 1..L
    <3>2. \A i \in 1..(n - 1) : i \in 1..L
      OBVIOUS
    <3> QED
      BY <1>5, <3>2
  <2> QED
    BY <2>1, <2>2, <2>3 DEF FirstStay, AllStay
<1>9. t.edges = UNION {visits[n].edges : n \in 1..L} /\ t.gaps = UNION {visits[n].gaps : n \in 1..L}
  BY <1>2, <1>4
<1>10. t.nodes = UNION {VisitOf(g, o, u).nodes : u \in V}
  BY <1>4, <1>5, <1>7, <1>8
<1>11. t.edges = UNION {VisitOf(g, o, u).edges : u \in V}
  BY <1>4, <1>7, <1>9
<1>12. t.gaps = UNION {VisitOf(g, o, u).gaps : u \in V}
  BY <1>4, <1>7, <1>9
<1>13. \A m \in t.nodes : m = NodeAt(g, m.uri)
  BY <1>6, <1>8
<1> QED
  BY <1>1, <1>10, <1>11, <1>12, <1>13 DEF V, visited, t

-----------------------------------------------------------------------------
(* A cluster whose links are about objects that are there, each id in one  *)
(* of the two stores.                                                      *)
IsLinked(g) ==
  /\ StoresAre(g) /\ g.index = {} /\ g.entities \cap g.artifacts = {}
  /\ \A l \in Links(g.events) : l.subject \in g.entities /\ l.artifact \in g.artifacts

Owned(g) == ({"canonical"} \X g.entities) \cup ({"artifact"} \X g.artifacts)

LEMMA OwnedAre ==
  ASSUME NEW g, IsLinked(g)
  PROVE  /\ Owned(g) \subseteq Objects(g) /\ Owned(g) \subseteq Around(g)
         /\ IsFiniteSet(Owned(g))
         /\ Cardinality(Owned(g)) = Cardinality(g.entities) + Cardinality(g.artifacts)
<1> DEFINE C == {"canonical"} \X g.entities
           A == {"artifact"} \X g.artifacts
<1>1. Owned(g) \subseteq Objects(g) /\ Owned(g) \subseteq Around(g)
  BY DEF Owned, Objects, Around
<1>2. IsFiniteSet(g.entities) /\ IsFiniteSet(g.artifacts)
  BY DEF IsLinked, StoresAre
<1>3. \A s : IsFiniteSet({s}) /\ Cardinality({s}) = 1
  BY FS_Singleton
<1>4. /\ IsFiniteSet(C) /\ Cardinality(C) = Cardinality({"canonical"}) * Cardinality(g.entities)
      /\ IsFiniteSet(A) /\ Cardinality(A) = Cardinality({"artifact"}) * Cardinality(g.artifacts)
  BY <1>2, <1>3, FS_Product
<1>5. Cardinality(g.entities) \in Nat /\ Cardinality(g.artifacts) \in Nat
  BY <1>2, FS_CardinalityType
<1>6. Cardinality(C) = Cardinality(g.entities) /\ Cardinality(A) = Cardinality(g.artifacts)
  <2>1. \A n \in Nat : 1 * n = n
    OBVIOUS
  <2>2. Cardinality({"canonical"}) = 1 /\ Cardinality({"artifact"}) = 1
    BY <1>3
  <2> HIDE DEF C, A
  <2>3. Cardinality(C) = 1 * Cardinality(g.entities) /\ Cardinality(A) = 1 * Cardinality(g.artifacts)
    BY <1>4, <2>2
  <2> QED
    BY <1>5, <2>1, <2>3
<1>7. C \cap A = {}
  OBVIOUS
<1> HIDE DEF C, A
<1>8. IsFiniteSet(C \cup A) /\ Cardinality(C \cup A) = Cardinality(C) + Cardinality(A) - Cardinality(C \cap A)
  BY <1>4, FS_Union
<1>9. Cardinality(C \cap A) = 0
  BY <1>7, FS_EmptySet
<1> QED
  BY <1>1, <1>5, <1>6, <1>8, <1>9 DEF Owned, C, A

(* A walk that starts at an owned object stays among them.                  *)
LEMMA OwnedIsClosed ==
  ASSUME NEW g, IsLinked(g), NEW o
  PROVE  Closed(NextOf(g, o), Owned(g))
<1>1. StoresAre(g) /\ \A l \in Links(g.events) : l.subject \in g.entities /\ l.artifact \in g.artifacts
  BY DEF IsLinked
<1>2. ASSUME NEW u \in Owned(g) PROVE Members(Leads(NextOf(g, o), u)) \subseteq Owned(g)
  <2>1. Leads(NextOf(g, o), u) = VisitOf(g, o, u).next
    BY <1>1, OwnedAre, TraceIsGraph
  <2>2. CASE u[1] = "canonical" /\ u[2] \in g.entities
    <3>1. Members(VisitOf(g, o, u).next) = IF Backward(o) THEN {LinkedArtifact(e) : e \in Links(Own(g, u))} ELSE {}
      BY <1>1, <2>2, EntityIs
    <3>2. Links(Own(g, u)) \subseteq Links(g.events)
      BY DEF Links, Own, EventsOf
    <3>3. {LinkedArtifact(e) : e \in Links(Own(g, u))} \subseteq Owned(g)
      BY <1>1, <3>2 DEF LinkedArtifact, Owned
    <3> QED
      BY <2>1, <3>1, <3>3
  <2>3. CASE u[1] = "artifact" /\ u[2] \in g.artifacts
    <3>1. Members(VisitOf(g, o, u).next) = IF Forward(o) THEN {LinkedEntity(e) : e \in LinksFrom(g, u[2])} ELSE {}
      BY <1>1, <2>3, ArtifactIs
    <3>2. LinksFrom(g, u[2]) \subseteq Links(g.events)
      BY DEF LinksFrom
    <3>3. {LinkedEntity(e) : e \in LinksFrom(g, u[2])} \subseteq Owned(g)
      BY <1>1, <3>2 DEF LinkedEntity, Owned
    <3> QED
      BY <2>1, <3>1, <3>3
  <2> QED
    BY <2>2, <2>3 DEF Owned
<1> QED
  BY <1>2 DEF Closed

(* What a trace that starts at an owned object visits.                      *)
LEMMA OwnedAreVisited ==
  ASSUME NEW g, IsLinked(g), NEW o, o.depth \in Nat, NEW uri \in Owned(g)
  PROVE  Members(Visited(NextOf(g, o), o.depth, uri)) \subseteq Owned(g)
<1>1. StoresAre(g)
  BY DEF IsLinked
<1>2. Graph(NextOf(g, o), Around(g))
  BY <1>1, TraceIsGraph
<1>3. Closed(NextOf(g, o), Owned(g)) /\ uri \in Around(g)
  BY OwnedIsClosed, OwnedAre
<1> QED
  BY <1>2, <1>3, VisitsWithin

(* A trace shows what its start and what this leads to add.                 *)
IsShown(t, g, o, u) ==
  /\ VisitOf(g, o, u).nodes \subseteq t.nodes /\ VisitOf(g, o, u).edges \subseteq t.edges
  /\ VisitOf(g, o, u).gaps \subseteq t.gaps

LEMMA TraceShows ==
  ASSUME NEW g, StoresAre(g), NEW o, o.depth \in Nat, o.depth >= 2, NEW uri \in Objects(g)
  PROVE  /\ IsShown(traceObject(g, uri, o), g, o, uri)
         /\ \A u \in Members(VisitOf(g, o, uri).next) : IsShown(traceObject(g, uri, o), g, o, u)
<1> DEFINE V == Members(Visited(NextOf(g, o), o.depth, uri))
           t == traceObject(g, uri, o)
<1>1. uri \in Around(g)
  BY DEF Around
<1>2. /\ t.nodes = UNION {VisitOf(g, o, u).nodes : u \in V} /\ t.edges = UNION {VisitOf(g, o, u).edges : u \in V}
      /\ t.gaps = UNION {VisitOf(g, o, u).gaps : u \in V}
  BY <1>1, TraceIs
<1>3. {uri} \cup Members(VisitOf(g, o, uri).next) \subseteq V
  <2>1. Graph(NextOf(g, o), Around(g)) /\ Leads(NextOf(g, o), uri) = VisitOf(g, o, uri).next
    BY TraceIsGraph
  <2>2. {uri} \cup Members(Leads(NextOf(g, o), uri)) \subseteq V
    BY <1>1, <2>1, VisitsNext
  <2> QED
    BY <2>1, <2>2
<1> HIDE DEF V, t
<1>4. \A u \in V : IsShown(t, g, o, u)
  BY <1>2 DEF IsShown
<1> QED
  BY <1>3, <1>4 DEF t

(* The nodes of owned objects, and the edge between the two ends of a link. *)
LEMMA OwnedShown ==
  ASSUME NEW g, IsLinked(g), NEW o, NEW u \in Owned(g)
  PROVE  Node(u) \in VisitOf(g, o, u).nodes
<1>1. StoresAre(g)
  BY DEF IsLinked
<1>2. CASE u[1] = "canonical" /\ u[2] \in g.entities
  <2> DEFINE back  == IF Backward(o) THEN EntityBack(g, u) ELSE Nothing
             index == traceForwardIndex(g, o, u)
             receipts == traceRelatedReceipts(g, o, u)
  <2>1. VisitOf(g, o, u).nodes = {Node(u)} \cup back.nodes \cup index.nodes \cup receipts.nodes
    BY <1>1, <1>2, EntityIs
  <2> HIDE DEF back, index, receipts
  <2> QED
    BY <2>1
<1>3. CASE u[1] = "artifact" /\ u[2] \in g.artifacts
  <2> DEFINE back  == IF Backward(o) THEN ArtifactBack(g, u) ELSE Nothing
             index == traceForwardIndex(g, o, u)
  <2>1. VisitOf(g, o, u).nodes = {Node(u)} \cup back.nodes \cup index.nodes
    BY <1>1, <1>3, ArtifactIs
  <2> HIDE DEF back, index
  <2> QED
    BY <2>1
<1> QED
  BY <1>2, <1>3 DEF Owned

(* Whether a node is a gap says whether its URI resolves.                   *)
LEMMA GapsDoNotResolve ==
  ASSUME NEW g, StoresAre(g), NEW o, o.depth \in Nat, NEW uri \in Objects(g)
  PROVE  \A n \in traceObject(g, uri, o).nodes : n.isGap <=> ~ resolve(g, n.uri)
<1>1. uri \in Around(g)
  BY DEF Around
<1>2. \A n \in traceObject(g, uri, o).nodes : n = NodeAt(g, n.uri)
  BY <1>1, TraceIs
<1>3. \A u : Node(u).isGap = FALSE /\ GapNode(u).isGap = TRUE
  BY DEF Node, GapNode
<1>4. \A u : NodeAt(g, u).isGap <=> ~ resolve(g, u)
  BY <1>3 DEF NodeAt
<1> QED
  BY <1>2, <1>4

(* What a visit of an owned object looks like backwards: its gaps all tell  *)
(* of a missing trail.                                                      *)
LEMMA OwnedGapsAre ==
  ASSUME NEW g, IsLinked(g), NEW o, NEW u \in Owned(g), NEW gap \in VisitOf(g, o, u).gaps
  PROVE  gap.warning # "none"
<1>1. StoresAre(g)
  BY DEF IsLinked
<1>2. \A x \in NoTrail(g, u) : x.warning # "none"
  BY DEF NoTrail, Gap
<1>3. EntityBack(g, u).gaps = NoTrail(g, u) /\ ArtifactBack(g, u).gaps = NoTrail(g, u) /\ Nothing.gaps = {}
  BY DEF EntityBack, ArtifactBack, Nothing, Visit
<1>4. CASE u[1] = "canonical" /\ u[2] \in g.entities
  <2>1. VisitOf(g, o, u).gaps = (IF Backward(o) THEN EntityBack(g, u) ELSE Nothing).gaps
    BY <1>1, <1>4, EntityIs
  <2> QED
    BY <1>2, <1>3, <2>1
<1>5. CASE u[1] = "artifact" /\ u[2] \in g.artifacts
  <2>1. VisitOf(g, o, u).gaps = (IF Backward(o) THEN ArtifactBack(g, u) ELSE Nothing).gaps
    BY <1>1, <1>5, ArtifactIs
  <2> QED
    BY <1>2, <1>3, <2>1
<1> QED
  BY <1>4, <1>5 DEF Owned

LEMMA EntityShowsLink ==
  ASSUME NEW g, IsLinked(g), NEW o, Backward(o), NEW l \in Links(g.events)
  PROVE  LET entity   == <<"canonical", l.subject>>
             artifact == <<"artifact", l.artifact>>
         IN /\ Edge(artifact, entity, "evidence_linked_to") \in VisitOf(g, o, entity).edges
            /\ artifact \in Members(VisitOf(g, o, entity).next)
            /\ o.includeReceipts => \A r \in g.receipts : l.subject \in r.affected =>
                 Node(<<"receipt", r.id>>) \in VisitOf(g, o, entity).nodes
<1> DEFINE entity   == <<"canonical", l.subject>>
           artifact == <<"artifact", l.artifact>>
           v == VisitOf(g, o, entity)
           index == traceForwardIndex(g, o, entity)
           related == traceRelatedReceipts(g, o, entity)
<1>1. StoresAre(g) /\ l.subject \in g.entities
  BY DEF IsLinked
<1>2. entity[1] = "canonical" /\ entity[2] = l.subject
  OBVIOUS
<1>3. l \in Links(Own(g, entity)) /\ LinkedArtifact(l) = artifact
  BY DEF Own, Links, EventsOf, LinkedArtifact
<1> HIDE DEF entity, artifact
<1>4. /\ v.nodes = {Node(entity)} \cup EntityBack(g, entity).nodes \cup index.nodes \cup related.nodes
      /\ v.edges = EntityBack(g, entity).edges \cup index.edges \cup related.edges
      /\ Members(v.next) = {LinkedArtifact(e) : e \in Links(Own(g, entity))}
  BY <1>1, <1>2, EntityIs
<1>5. Edge(artifact, entity, "evidence_linked_to") \in EntityBack(g, entity).edges
  <2>1. EntityBack(g, entity).edges =
          {Edge(EventUri(e.id), entity, eventToEdgeType(e.kind)) : e \in Own(g, entity)}
            \cup {Edge(LinkedArtifact(e), entity, "evidence_linked_to") : e \in Links(Own(g, entity))}
    BY DEF EntityBack, Visit, Own
  <2> QED
    BY <1>3, <2>1
<1>6. o.includeReceipts => \A r \in g.receipts : l.subject \in r.affected => Node(<<"receipt", r.id>>) \in related.nodes
  <2>1. related.nodes = IF o.includeReceipts THEN {Node(<<"receipt", r.id>>) : r \in RelatedReceipts(g, entity[2])} ELSE {}
    BY SideVisitsAre
  <2>2. \A r \in g.receipts : l.subject \in r.affected => r \in RelatedReceipts(g, entity[2])
    BY <1>2 DEF RelatedReceipts
  <2> QED
    BY <2>1, <2>2
<1> HIDE DEF v, index, related
<1>7. Edge(artifact, entity, "evidence_linked_to") \in v.edges /\ artifact \in Members(v.next)
  BY <1>3, <1>4, <1>5
<1>8. o.includeReceipts => \A r \in g.receipts : l.subject \in r.affected => Node(<<"receipt", r.id>>) \in v.nodes
  BY <1>4, <1>6
<1> QED
  BY <1>7, <1>8 DEF v, entity, artifact

(* why() of the entity of a link.                                           *)
LEMMA WhyShows ==
  ASSUME NEW g, IsLinked(g), NEW l \in Links(g.events)
  PROVE  LET answer == why(g, <<"canonical", l.subject>>)
         IN /\ <<"artifact", l.artifact>> \in answer.links
            /\ \A gap \in answer.gaps : gap.warning # "none"
            /\ \A r \in g.receipts : l.subject \in r.affected => <<"receipt", r.id>> \in answer.receipts
<1> DEFINE entity   == <<"canonical", l.subject>>
           artifact == <<"artifact", l.artifact>>
           o == WhyOptions
           graph == traceObject(g, entity, o)
           incoming == {e \in graph.edges : e.to = entity}
           answer == why(g, entity)
<1>1. StoresAre(g) /\ l.subject \in g.entities
  BY DEF IsLinked
<1>2. o.depth = 5 /\ Backward(o) /\ o.includeReceipts = TRUE
  BY DEF WhyOptions, Backward
<1>3. entity \in Owned(g)
  BY <1>1 DEF Owned
<1>4. entity \in Objects(g) /\ entity \in Around(g)
  BY <1>3, OwnedAre
<1>5. /\ Edge(artifact, entity, "evidence_linked_to") \in VisitOf(g, o, entity).edges
      /\ \A r \in g.receipts : l.subject \in r.affected => Node(<<"receipt", r.id>>) \in VisitOf(g, o, entity).nodes
  <2> HIDE DEF o
  <2> QED
    BY <1>2, EntityShowsLink
<1> HIDE DEF o, entity
<1>6. IsShown(graph, g, o, entity)
  BY <1>1, <1>2, <1>4, TraceShows
<1>7. \A gap \in graph.gaps : gap.warning # "none"
  <2> DEFINE V == Members(Visited(NextOf(g, o), o.depth, entity))
  <2>1. graph.gaps = UNION {VisitOf(g, o, u).gaps : u \in V}
    BY <1>1, <1>2, <1>4, TraceIs
  <2>2. V \subseteq Owned(g)
    BY <1>2, <1>3, OwnedAreVisited
  <2> HIDE DEF V, graph
  <2>3. TAKE gap \in graph.gaps
  <2>4. PICK u \in V : gap \in VisitOf(g, o, u).gaps
    BY <2>1
  <2> QED
    BY <2>2, <2>4, OwnedGapsAre
<1>8. /\ answer.links = {e.from : e \in {x \in incoming : x.type = "evidence_linked_to"}}
      /\ answer.receipts = {n.uri : n \in {m \in graph.nodes : m.uri[1] = "receipt"}}
      /\ answer.gaps = graph.gaps
  BY DEF why, Answer, o
<1> HIDE DEF graph, answer
<1>9. artifact \in answer.links
  <2> DEFINE e == Edge(artifact, entity, "evidence_linked_to")
  <2>1. e.from = artifact /\ e.to = entity /\ e.type = "evidence_linked_to"
    BY DEF Edge
  <2>2. e \in graph.edges
    BY <1>5, <1>6 DEF IsShown
  <2> HIDE DEF e
  <2>3. e \in {x \in incoming : x.type = "evidence_linked_to"}
    BY <2>1, <2>2
  <2> QED
    BY <1>8, <2>1, <2>3
<1>10. \A r \in g.receipts : l.subject \in r.affected => <<"receipt", r.id>> \in answer.receipts
  <2> TAKE r \in g.receipts
  <2> HAVE l.subject \in r.affected
  <2> DEFINE n == Node(<<"receipt", r.id>>)
  <2>1. n.uri = <<"receipt", r.id>> /\ n.uri[1] = "receipt"
    BY DEF Node
  <2>2. n \in graph.nodes
    BY <1>5, <1>6 DEF IsShown
  <2> HIDE DEF n
  <2>3. n \in {m \in graph.nodes : m.uri[1] = "receipt"}
    BY <2>1, <2>2
  <2> QED
    BY <1>8, <2>1, <2>3
<1> QED
  BY <1>7, <1>8, <1>9, <1>10 DEF answer, entity

(* The receipt of a link leads back to its event and forward to both ends.  *)
LEMMA ReceiptShows ==
  ASSUME NEW g, IsLinked(g), NEW l \in Links(g.events), NEW o, Backward(o), Forward(o),
         o.depth \in Nat, o.depth >= 2,
         NEW r \in g.receipts, {l.subject, l.artifact} \subseteq r.affected,
         NEW e \in g.events, r.event = e.id
  PROVE  {Node(EventUri(r.event)), Node(<<"canonical", l.subject>>), Node(<<"artifact", l.artifact>>)}
           \subseteq traceObject(g, <<"receipt", r.id>>, o).nodes
<1> DEFINE entity   == <<"canonical", l.subject>>
           artifact == <<"artifact", l.artifact>>
           uri == <<"receipt", r.id>>
           t == traceObject(g, uri, o)
<1>1. /\ StoresAre(g) /\ l.subject \in g.entities /\ l.artifact \in g.artifacts
      /\ g.entities \cap g.artifacts = {}
  BY DEF IsLinked
<1>2. uri \in Objects(g) /\ uri[1] = "receipt" /\ uri[2] = r.id
  BY DEF Objects
<1>3. entity \in Owned(g) /\ artifact \in Owned(g)
  BY <1>1 DEF Owned
<1>4. entity \in OwnersOf(g, r) /\ artifact \in OwnersOf(g, r)
  <2>1. OwnerUri(g, l.subject) = entity /\ OwnerUri(g, l.artifact) = artifact
    BY <1>1 DEF OwnerUri
  <2> QED
    BY <1>1, <2>1 DEF OwnersOf
<1> HIDE DEF uri, entity, artifact
<1>5. Members(VisitOf(g, o, uri).next) =
        (IF Backward(o) THEN {EventUri(r.event)} ELSE {}) \cup (IF Forward(o) THEN OwnersOf(g, r) ELSE {})
  BY <1>1, <1>2, ReceiptIs
<1>6. \A u \in Members(VisitOf(g, o, uri).next) : IsShown(t, g, o, u)
  BY <1>1, <1>2, TraceShows
<1>7. IsShown(t, g, o, EventUri(r.event)) /\ IsShown(t, g, o, entity) /\ IsShown(t, g, o, artifact)
  BY <1>4, <1>5, <1>6
<1>8. Node(EventUri(r.event)) \in VisitOf(g, o, EventUri(r.event)).nodes
  <2> DEFINE u == EventUri(r.event)
  <2>1. u[1] = "ledger" /\ u[2] = e.id
    BY DEF EventUri
  <2> HIDE DEF u
  <2>2. StoresAre(g)
    BY <1>1
  <2>3. VisitOf(g, o, u).nodes = {Node(u)}
    BY <2>1, <2>2, EventIs
  <2> QED
    BY <2>3 DEF u
<1>9. Node(entity) \in VisitOf(g, o, entity).nodes /\ Node(artifact) \in VisitOf(g, o, artifact).nodes
  BY <1>3, OwnedShown
<1> HIDE DEF t
<1>10. Node(EventUri(r.event)) \in t.nodes /\ Node(entity) \in t.nodes /\ Node(artifact) \in t.nodes
  BY <1>7, <1>8, <1>9 DEF IsShown
<1> QED
  BY <1>10 DEF t, uri, entity, artifact

(* The trace of the artifact leads forward to the entity.                   *)
LEMMA ForthShows ==
  ASSUME NEW g, IsLinked(g), NEW l \in Links(g.events), NEW o, Forward(o), o.depth \in Nat, o.depth >= 2
  PROVE  LET entity   == <<"canonical", l.subject>>
             artifact == <<"artifact", l.artifact>>
             t == traceObject(g, artifact, o)
         IN /\ {Node(entity), Node(artifact)} \subseteq t.nodes
            /\ Edge(artifact, entity, "evidence_linked_to") \in t.edges
<1> DEFINE entity   == <<"canonical", l.subject>>
           artifact == <<"artifact", l.artifact>>
           t == traceObject(g, artifact, o)
           v == VisitOf(g, o, artifact)
           index == traceForwardIndex(g, o, artifact)
           back  == IF Backward(o) THEN ArtifactBack(g, artifact) ELSE Nothing
<1>1. StoresAre(g) /\ l.subject \in g.entities /\ l.artifact \in g.artifacts
  BY DEF IsLinked
<1>2. artifact[1] = "artifact" /\ artifact[2] = l.artifact
  OBVIOUS
<1>3. entity \in Owned(g) /\ artifact \in Owned(g)
  BY <1>1 DEF Owned
<1>4. l \in LinksFrom(g, artifact[2]) /\ LinkedEntity(l) = entity
  BY DEF LinksFrom, LinkedEntity
<1> HIDE DEF entity, artifact
<1>5. /\ v.edges = back.edges \cup ArtifactForth(g, artifact).edges \cup index.edges
      /\ Members(v.next) = {LinkedEntity(e) : e \in LinksFrom(g, artifact[2])}
  BY <1>1, <1>2, ArtifactIs
<1>6. ArtifactForth(g, artifact).edges =
        {Edge(artifact, LinkedEntity(e), "evidence_linked_to") : e \in LinksFrom(g, artifact[2])}
  BY DEF ArtifactForth, Visit
<1> HIDE DEF back, index
<1>7. Edge(artifact, entity, "evidence_linked_to") \in v.edges /\ entity \in Members(v.next)
  BY <1>4, <1>5, <1>6
<1>8. IsShown(t, g, o, artifact) /\ \A u \in Members(v.next) : IsShown(t, g, o, u)
  <2>1. artifact \in Objects(g)
    BY <1>3, OwnedAre
  <2> QED
    BY <1>1, <2>1, TraceShows
<1>9. Node(entity) \in VisitOf(g, o, entity).nodes /\ Node(artifact) \in v.nodes
  BY <1>3, OwnedShown
<1> HIDE DEF t
<1>10. /\ {Node(entity), Node(artifact)} \subseteq t.nodes
       /\ Edge(artifact, entity, "evidence_linked_to") \in t.edges
  BY <1>7, <1>8, <1>9 DEF IsShown
<1> QED
  BY <1>10 DEF t, entity, artifact

(* The graph of the bundle of both ends of a link is that of the entity:    *)
(* backwards the artifact leads nowhere, and the entity to the artifact.    *)
LEMMA BundleIs ==
  ASSUME NEW g, IsLinked(g), NEW l \in Links(g.events), NEW o, o.direction = "backward",
         o.depth \in Nat, o.depth >= 2
  PROVE  LET entity   == <<"canonical", l.subject>>
             artifact == <<"artifact", l.artifact>>
             bundle == traceBundle(g, <<entity, artifact>>, o)
             back   == traceObject(g, entity, o)
         IN bundle.nodes = back.nodes /\ bundle.edges = back.edges /\ bundle.gaps = back.gaps
<1> DEFINE entity   == <<"canonical", l.subject>>
           artifact == <<"artifact", l.artifact>>
           both == <<entity, artifact>>
           bundle == traceBundle(g, both, o)
           back   == traceObject(g, entity, o)
           alone  == traceObject(g, artifact, o)
           v == VisitOf(g, o, artifact)
<1>1. StoresAre(g) /\ l.subject \in g.entities /\ l.artifact \in g.artifacts
  BY DEF IsLinked
<1>2. Backward(o) /\ ~ Forward(o)
  BY DEF Backward, Forward
<1>3. /\ entity \in Owned(g) /\ artifact \in Owned(g)
      /\ artifact[1] = "artifact" /\ artifact[2] = l.artifact
  BY <1>1 DEF Owned
<1>4. artifact \in Members(VisitOf(g, o, entity).next)
  BY <1>2, EntityShowsLink
<1> HIDE DEF entity, artifact
<1>5. entity \in Objects(g) /\ artifact \in Objects(g) /\ entity \in Around(g) /\ artifact \in Around(g)
  BY <1>3, OwnedAre
<1>6. IsShown(back, g, o, artifact)
  BY <1>1, <1>4, <1>5, TraceShows
<1>7. alone.nodes = v.nodes /\ alone.edges = v.edges /\ alone.gaps = v.gaps
  <2> DEFINE V == Members(Visited(NextOf(g, o), o.depth, artifact))
  <2>1. Members(v.next) = {}
    BY <1>1, <1>2, <1>3, ArtifactIs
  <2>2. Graph(NextOf(g, o), Around(g)) /\ Leads(NextOf(g, o), artifact) = v.next
    BY <1>1, <1>5, TraceIsGraph
  <2>3. Closed(NextOf(g, o), {artifact})
    BY <2>1, <2>2 DEF Closed
  <2>4. V \subseteq {artifact}
    BY <1>5, <2>2, <2>3, VisitsWithin
  <2>5. artifact \in V
    BY <1>5, <2>2, VisitsNext
  <2>6. V = {artifact}
    BY <2>4, <2>5
  <2>7. /\ alone.nodes = UNION {VisitOf(g, o, u).nodes : u \in V}
        /\ alone.edges = UNION {VisitOf(g, o, u).edges : u \in V}
        /\ alone.gaps = UNION {VisitOf(g, o, u).gaps : u \in V}
    BY <1>1, <1>5, TraceIs
  <2> HIDE DEF V, alone
  <2> QED
    BY <2>6, <2>7
<1>8. alone.nodes \subseteq back.nodes /\ alone.edges \subseteq back.edges /\ alone.gaps \subseteq back.gaps
  BY <1>6, <1>7 DEF IsShown
<1>9. (\A m \in back.nodes : m = NodeAt(g, m.uri)) /\ (\A m \in alone.nodes : m = NodeAt(g, m.uri))
  BY <1>1, <1>5, TraceIs
<1> DEFINE graphs == [n \in DOMAIN both |-> traceObject(g, both[n], o)]
           nodes  == [n \in 1..2 |-> graphs[n].nodes]
<1>10. bundle = [nodes |-> UNION {{m \in graphs[n].nodes : \A i \in (n + 1)..Len(graphs) : NoneOf(graphs[i].nodes, m.uri)}
                                    : n \in DOMAIN graphs},
                 edges |-> UNION {graphs[n].edges : n \in DOMAIN graphs},
                 gaps  |-> UNION {graphs[n].gaps : n \in DOMAIN graphs}]
  BY DEF traceBundle, Merged
<1>11. DOMAIN graphs = 1..2 /\ Len(graphs) = 2 /\ graphs[1] = back /\ graphs[2] = alone
  <2>1. DOMAIN both = 1..2 /\ both[1] = entity /\ both[2] = artifact
    OBVIOUS
  <2>2. DOMAIN graphs = 1..2 /\ graphs[1] = back /\ graphs[2] = alone
    BY <2>1
  <2>3. graphs \in Seq({graphs[n] : n \in 1..2})
    BY <2>2
  <2>4. Len(graphs) = 2
    BY <2>2, <2>3
  <2> QED
    BY <2>2, <2>4
<1>12. DOMAIN nodes = 1..2 /\ nodes[1] = back.nodes /\ nodes[2] = alone.nodes
       /\ \A n \in 1..2 : nodes[n] = graphs[n].nodes
  BY <1>11
<1>13. \A S : \A n \in 1..2 : n = 1 \/ n = 2
  OBVIOUS
<1> HIDE DEF back, alone, both, bundle, graphs, nodes
<1>14. bundle.nodes = LastStay(nodes, 2)
  <2>1. bundle.nodes = UNION {{m \in graphs[n].nodes : \A i \in (n + 1)..2 : NoneOf(graphs[i].nodes, m.uri)} : n \in 1..2}
    BY <1>10, <1>11
  <2>2. \A n \in 1..2 : {m \in graphs[n].nodes : \A i \in (n + 1)..2 : NoneOf(graphs[i].nodes, m.uri)}
                          = {m \in nodes[n] : \A i \in (n + 1)..2 : NoneOf(nodes[i], m.uri)}
    <3> TAKE n \in 1..2
    <3>1. \A i \in (n + 1)..2 : i \in 1..2
      OBVIOUS
    <3> QED
      BY <1>12, <3>1
  <2> QED
    BY <2>1, <2>2 DEF LastStay
<1>15. \A n \in 1..2 : \A m \in nodes[n] : m = NodeAt(g, m.uri)
  BY <1>9, <1>12, <1>13
<1>16. LastStay(nodes, 2) = AllStay(nodes, 2)
  <2>1. DOMAIN nodes = 1..2 /\ 2 \in Nat
    BY <1>12
  <2> QED
    BY <1>15, <2>1, AllNodesStay
<1>17. AllStay(nodes, 2) = back.nodes \cup alone.nodes
  BY <1>12, <1>13 DEF AllStay
<1>18. bundle.edges = back.edges \cup alone.edges /\ bundle.gaps = back.gaps \cup alone.gaps
  BY <1>10, <1>11, <1>13
<1>19. bundle.nodes = back.nodes /\ bundle.edges = back.edges /\ bundle.gaps = back.gaps
  BY <1>8, <1>14, <1>16, <1>17, <1>18
<1> QED
  BY <1>19 DEF bundle, back, both, entity, artifact

(* A depth of as many steps as there are entities and artifacts shows all   *)
(* that can be seen from an object.                                         *)
LEMMA DepthSuffices ==
  ASSUME NEW g, IsLinked(g), NEW uri \in Owned(g), NEW o, o.depth \in Nat,
         Cardinality(g.entities) + Cardinality(g.artifacts) <= o.depth
  PROVE  LET t == traceObject(g, uri, o)
         IN [nodes |-> {n.uri : n \in t.nodes}, edges |-> t.edges, gaps |-> t.gaps] = Closure(g, o, uri)
<1> DEFINE t == traceObject(g, uri, o)
           V == Members(Visited(NextOf(g, o), o.depth, uri))
           W == Within(NextOf(g, o), uri, o.depth - 1)
<1>1. StoresAre(g) /\ uri \in Around(g)
  BY OwnedAre DEF IsLinked
<1>2. Graph(NextOf(g, o), Around(g)) /\ Closed(NextOf(g, o), Owned(g))
  BY <1>1, TraceIsGraph, OwnedIsClosed
<1>3. IsFiniteSet(Owned(g)) /\ Cardinality(Owned(g)) <= o.depth
  BY OwnedAre
<1>4. W = V
  BY <1>1, <1>2, <1>3, WithinIsVisited
<1>5. /\ t.nodes = UNION {VisitOf(g, o, u).nodes : u \in V}
      /\ t.edges = UNION {VisitOf(g, o, u).edges : u \in V}
      /\ t.gaps = UNION {VisitOf(g, o, u).gaps : u \in V}
  BY <1>1, TraceIs
<1> DEFINE visits == {VisitOf(g, o, u) : u \in W}
<1>6. Closure(g, o, uri) = [nodes |-> {n.uri : n \in UNION {v.nodes : v \in visits}},
                            edges |-> UNION {v.edges : v \in visits},
                            gaps  |-> UNION {v.gaps : v \in visits}]
  BY DEF Closure, Sight
<1> HIDE DEF V, W, t
<1>7. /\ UNION {v.nodes : v \in visits} = UNION {VisitOf(g, o, u).nodes : u \in W}
      /\ UNION {v.edges : v \in visits} = UNION {VisitOf(g, o, u).edges : u \in W}
      /\ UNION {v.gaps : v \in visits} = UNION {VisitOf(g, o, u).gaps : u \in W}
  OBVIOUS
<1> HIDE DEF visits
<1>8. [nodes |-> {n.uri : n \in t.nodes}, edges |-> t.edges, gaps |-> t.gaps] = Closure(g, o, uri)
  BY <1>4, <1>5, <1>6, <1>7
<1> QED
  BY <1>8 DEF t
=============================================================================
