----------------------------- MODULE CacheProofs -----------------------------
(***************************************************************************)
(* For every hierarchy cache_create() accepts, every hash and every         *)
(* program: the way list and the hash buckets of a set agree, a set holds   *)
(* what its policy says, and a dirty block is held until it is in memory.   *)
(***************************************************************************)
EXTENDS Cache, SequenceTheorems, WellFoundedInduction, TLAPS

-----------------------------------------------------------------------------
(* Lists: every element of a set once.                                     *)

Distinct(q) == \A i, j \in 1 .. Len(q) : q[i] = q[j] => i = j
Lists(q, T) ==
  q \in Seq(T) /\ Distinct(q) /\ \A x \in T : \E i \in 1 .. Len(q) : q[i] = x

LEMMA OnlyIndex ==
  ASSUME NEW p \in Nat, NEW I, I = {p}
  PROVE  Min(I) = p /\ I # {}
BY DEF Min

LEMMA WithoutIs ==
  ASSUME NEW T, NEW q \in Seq(T), Distinct(q), NEW p \in 1 .. Len(q)
  PROVE  /\ Without(q, q[p]) \in Seq(T) /\ Len(Without(q, q[p])) = Len(q) - 1
         /\ \A i \in 1 .. Len(q) - 1 :
              Without(q, q[p])[i] = IF i < p THEN q[i] ELSE q[i + 1]
<1> DEFINE I == {i \in 1 .. Len(q) : q[i] = q[p]}
           n == Len(q)
           l == SubSeq(q, 1, p - 1)
           r == SubSeq(q, p + 1, n)
<1>1. n \in Nat /\ p \in Nat /\ p >= 1 /\ p <= n
  OBVIOUS
<1>2. I = {p}
  BY DEF Distinct
<1>3. Without(q, q[p]) = l \o r
  <2>1. Min(I) = p /\ I # {}
    BY <1>1, <1>2, OnlyIndex
  <2>2. \E i \in 1 .. Len(q) : q[i] = q[p]
    OBVIOUS
  <2> QED BY <2>1, <2>2 DEF Without, RemoveFirst, RemoveAt, SelectInSeq
<1>4. \A i \in 1 .. n : q[i] \in T
  BY ElementOfSeq
<1>5. l \in Seq(T) /\ Len(l) = p - 1 /\ \A i \in 1 .. p - 1 : l[i] = q[i]
  <2>1. /\ l \in Seq(T) /\ Len(l) = IF 1 <= p - 1 THEN p - 1 - 1 + 1 ELSE 0
        /\ \A i \in 1 .. p - 1 - 1 + 1 : l[i] = q[1 + i - 1]
    <3>1. \A i \in 1 .. p - 1 : q[i] \in T
      BY <1>1, <1>4
    <3>2. 1 \in Int /\ p - 1 \in Int
      BY <1>1
    <3> QED BY <3>1, <3>2, SubSeqProperties
  <2> HIDE DEF l
  <2>2. ASSUME NEW i \in 1 .. p - 1 PROVE l[i] = q[i]
    <3>1. i \in 1 .. p - 1 - 1 + 1 /\ 1 + i - 1 = i
      BY <1>1
    <3> QED BY <2>1, <3>1
  <2> QED BY <1>1, <2>1, <2>2
<1>6. r \in Seq(T) /\ Len(r) = n - p /\ \A i \in 1 .. n - p : r[i] = q[p + i]
  <2>1. /\ r \in Seq(T) /\ Len(r) = IF p + 1 <= n THEN n - (p + 1) + 1 ELSE 0
        /\ \A i \in 1 .. n - (p + 1) + 1 : r[i] = q[(p + 1) + i - 1]
    <3>1. \A i \in p + 1 .. n : q[i] \in T
      BY <1>1, <1>4
    <3>2. p + 1 \in Int /\ n \in Int
      BY <1>1
    <3> QED BY <3>1, <3>2, SubSeqProperties
  <2> HIDE DEF r
  <2>2. ASSUME NEW i \in 1 .. n - p PROVE r[i] = q[p + i]
    <3>1. i \in 1 .. n - (p + 1) + 1 /\ (p + 1) + i - 1 = p + i
      BY <1>1
    <3> QED BY <2>1, <3>1
  <2> QED BY <1>1, <2>1, <2>2
<1> HIDE DEF l, r
<1>7. /\ l \o r \in Seq(T) /\ Len(l \o r) = Len(l) + Len(r)
      /\ \A i \in 1 .. Len(l) + Len(r) :
           (l \o r)[i] = IF i <= Len(l) THEN l[i] ELSE r[i - Len(l)]
  BY <1>5, <1>6, ConcatProperties
<1>8. ASSUME NEW i \in 1 .. n - 1
      PROVE  (l \o r)[i] = IF i < p THEN q[i] ELSE q[i + 1]
  <2>1. (l \o r)[i] = IF i <= p - 1 THEN l[i] ELSE r[i - (p - 1)]
    BY <1>1, <1>5, <1>6, <1>7
  <2>2. CASE i < p
    BY <1>1, <1>5, <2>1, <2>2
  <2>3. CASE ~(i < p)
    <3>1. i - (p - 1) \in 1 .. n - p /\ p + (i - (p - 1)) = i + 1
      BY <1>1, <2>3
    <3>2. r[i - (p - 1)] = q[i + 1]
      BY <1>6, <3>1
    <3> QED BY <1>1, <2>1, <2>3, <3>2
  <2> QED BY <2>2, <2>3
<1> QED BY <1>1, <1>3, <1>5, <1>6, <1>7, <1>8

LEMMA WithoutNone ==
  ASSUME NEW q, NEW x, \A i \in 1 .. Len(q) : q[i] # x
  PROVE  Without(q, x) = q
BY DEF Without, RemoveFirst

LEMMA ListsWithout ==
  ASSUME NEW T, NEW q, Lists(q, T), NEW x \in T
  PROVE  Lists(Without(q, x), T \ {x}) /\ Len(Without(q, x)) = Len(q) - 1
<1>1. q \in Seq(T) /\ Distinct(q) /\ Len(q) \in Nat
  BY DEF Lists
<1>2. PICK p \in 1 .. Len(q) : q[p] = x
  BY DEF Lists
<1> DEFINE u == Without(q, x)
<1>3. /\ u \in Seq(T) /\ Len(u) = Len(q) - 1
      /\ \A i \in 1 .. Len(q) - 1 : u[i] = IF i < p THEN q[i] ELSE q[i + 1]
  BY <1>1, <1>2, WithoutIs
<1> HIDE DEF u
<1>4. \A i \in 1 .. Len(u) : u[i] \in T \ {x}
  <2> TAKE i \in 1 .. Len(u)
  <2>1. i \in 1 .. Len(q) /\ i + 1 \in 1 .. Len(q) /\ (i < p => i # p) /\ (~(i < p) => i + 1 # p)
    BY <1>1, <1>2, <1>3
  <2>2. q[i] \in T /\ q[i + 1] \in T
    BY <1>1, <2>1, ElementOfSeq
  <2>3. (i < p => q[i] # q[p]) /\ (~(i < p) => q[i + 1] # q[p])
    BY <1>1, <1>2, <2>1 DEF Distinct
  <2> QED BY <1>1, <1>2, <1>3, <2>2, <2>3
<1>5. u \in Seq(T \ {x})
  <2>1. Len(u) \in Nat /\ u \in [1 .. Len(u) -> T]
    BY <1>3, LenProperties
  <2>2. u \in [1 .. Len(u) -> T \ {x}]
    BY <1>4, <2>1
  <2> QED BY <2>1, <2>2, SeqDef
<1>6. Distinct(u)
  <2> SUFFICES ASSUME NEW i \in 1 .. Len(u), NEW j \in 1 .. Len(u), u[i] = u[j] PROVE i = j
    BY DEF Distinct
  <2>1. /\ i \in 1 .. Len(q) /\ i + 1 \in 1 .. Len(q) /\ j \in 1 .. Len(q) /\ j + 1 \in 1 .. Len(q)
    BY <1>1, <1>3
  <2>2. PICK k \in {i, i + 1}, m \in {j, j + 1} : /\ k = IF i < p THEN i ELSE i + 1
                                                  /\ m = IF j < p THEN j ELSE j + 1
    OBVIOUS
  <2>3. u[i] = q[k] /\ u[j] = q[m]
    BY <1>1, <1>3, <2>2
  <2>4. k = m
    BY <1>1, <2>1, <2>2, <2>3 DEF Distinct
  <2> QED BY <2>1, <2>2, <2>4
<1>7. ASSUME NEW y \in T \ {x} PROVE \E i \in 1 .. Len(u) : u[i] = y
  <2>1. PICK k \in 1 .. Len(q) : q[k] = y
    BY DEF Lists
  <2>2. k # p
    BY <1>2, <2>1
  <2>3. CASE k < p
    <3>1. k \in 1 .. Len(u) /\ k \in 1 .. Len(q) - 1
      BY <1>1, <1>2, <1>3, <2>3
    <3> QED BY <1>3, <2>1, <2>3, <3>1
  <2>4. CASE k > p
    <3>1. k - 1 \in 1 .. Len(u) /\ k - 1 \in 1 .. Len(q) - 1 /\ ~(k - 1 < p) /\ (k - 1) + 1 = k
      BY <1>1, <1>2, <1>3, <2>4
    <3> QED BY <1>3, <2>1, <3>1
  <2> QED BY <2>2, <2>3, <2>4
<1> QED BY <1>3, <1>5, <1>6, <1>7 DEF Lists, u

LEMMA ListsFront ==
  ASSUME NEW T, NEW q, Lists(q, T), NEW x, x \notin T
  PROVE  /\ Lists(<<x>> \o q, T \cup {x}) /\ Len(<<x>> \o q) = Len(q) + 1
         /\ (<<x>> \o q)[1] = x
         /\ \A i \in 1 .. Len(q) : (<<x>> \o q)[i + 1] = q[i]
<1> DEFINE Q == T \cup {x}
           u == <<x>> \o q
<1>1. q \in Seq(Q) /\ Len(q) \in Nat /\ \A i \in 1 .. Len(q) : q[i] \in T
  <2>1. q \in Seq(T) /\ T \subseteq Q
    BY DEF Lists
  <2> QED BY <2>1, SeqMonotonic, ElementOfSeq
<1>2. <<x>> \in Seq(Q) /\ Len(<<x>>) = 1 /\ <<x>>[1] = x
  OBVIOUS
<1>3. /\ u \in Seq(Q) /\ Len(u) = 1 + Len(q)
      /\ \A i \in 1 .. 1 + Len(q) : u[i] = IF i <= 1 THEN <<x>>[i] ELSE q[i - 1]
  BY <1>1, <1>2, ConcatProperties
<1> HIDE DEF u
<1>4. u[1] = x
  BY <1>1, <1>2, <1>3
<1>5. ASSUME NEW i \in 1 .. Len(q) PROVE u[i + 1] = q[i]
  <2>1. i + 1 \in 1 .. 1 + Len(q) /\ ~(i + 1 <= 1) /\ (i + 1) - 1 = i
    BY <1>1
  <2> QED BY <1>3, <2>1
<1>6. Distinct(u)
  <2> SUFFICES ASSUME NEW i \in 1 .. Len(u), NEW j \in 1 .. Len(u), u[i] = u[j] PROVE i = j
    BY DEF Distinct
  <2>1. i \in 1 .. 1 + Len(q) /\ j \in 1 .. 1 + Len(q)
    BY <1>3
  <2>2. \A k \in 1 .. 1 + Len(q) : k = 1 \/ (k - 1 \in 1 .. Len(q) /\ u[k] = q[k - 1] /\ u[k] \in T)
    <3> TAKE k \in 1 .. 1 + Len(q)
    <3>1. CASE k # 1
      <4>1. k - 1 \in 1 .. Len(q) /\ ~(k <= 1)
        BY <1>1, <3>1
      <4> QED BY <1>1, <1>3, <4>1
    <3> QED BY <3>1
  <2>3. CASE i = 1 \/ j = 1
    BY <1>4, <2>1, <2>2, <2>3
  <2>4. CASE i # 1 /\ j # 1
    <3>1. q[i - 1] = q[j - 1] /\ i - 1 \in 1 .. Len(q) /\ j - 1 \in 1 .. Len(q)
      BY <2>1, <2>2, <2>4
    <3>2. i - 1 = j - 1
      BY <3>1 DEF Lists, Distinct
    <3> QED BY <2>1, <3>2
  <2> QED BY <2>3, <2>4
<1>7. ASSUME NEW y \in Q PROVE \E i \in 1 .. Len(u) : u[i] = y
  <2>1. CASE y = x
    <3>1. 1 \in 1 .. Len(u)
      BY <1>1, <1>3
    <3> QED BY <1>4, <2>1, <3>1
  <2>2. CASE y \in T
    <3>1. PICK k \in 1 .. Len(q) : q[k] = y
      BY <2>2 DEF Lists
    <3>2. k + 1 \in 1 .. Len(u)
      BY <1>1, <1>3
    <3> QED BY <1>5, <3>1, <3>2
  <2> QED BY <2>1, <2>2
<1>8. Lists(u, Q)
  BY <1>3, <1>6, <1>7 DEF Lists
<1>9. Len(u) = Len(q) + 1
  BY <1>1, <1>3
<1> QED BY <1>4, <1>5, <1>8, <1>9 DEF u

LEMMA ListsBack ==
  ASSUME NEW T, NEW q, Lists(q, T), NEW x, x \notin T
  PROVE  /\ Lists(Append(q, x), T \cup {x}) /\ Len(Append(q, x)) = Len(q) + 1
         /\ Append(q, x)[Len(q) + 1] = x
         /\ \A i \in 1 .. Len(q) : Append(q, x)[i] = q[i]
<1> DEFINE Q == T \cup {x}
           u == Append(q, x)
<1>1. q \in Seq(Q) /\ Len(q) \in Nat /\ \A i \in 1 .. Len(q) : q[i] \in T
  <2>1. q \in Seq(T) /\ T \subseteq Q
    BY DEF Lists
  <2> QED BY <2>1, SeqMonotonic, ElementOfSeq
<1>2. /\ u \in Seq(Q) /\ Len(u) = Len(q) + 1
      /\ \A i \in 1 .. Len(q) : u[i] = q[i]
      /\ u[Len(q) + 1] = x
  BY <1>1, AppendProperties
<1> HIDE DEF u
<1>3. Distinct(u)
  <2> SUFFICES ASSUME NEW i \in 1 .. Len(u), NEW j \in 1 .. Len(u), u[i] = u[j] PROVE i = j
    BY DEF Distinct
  <2>1. i \in 1 .. Len(q) + 1 /\ j \in 1 .. Len(q) + 1
    BY <1>2
  <2>2. CASE i = Len(q) + 1 \/ j = Len(q) + 1
    BY <1>1, <1>2, <2>1, <2>2
  <2>3. CASE i # Len(q) + 1 /\ j # Len(q) + 1
    <3>1. i \in 1 .. Len(q) /\ j \in 1 .. Len(q)
      BY <1>1, <2>1, <2>3
    <3> QED BY <1>2, <3>1 DEF Lists, Distinct
  <2> QED BY <2>2, <2>3
<1>4. ASSUME NEW y \in Q PROVE \E i \in 1 .. Len(u) : u[i] = y
  <2>1. CASE y = x
    <3>1. Len(q) + 1 \in 1 .. Len(u)
      BY <1>1, <1>2
    <3> QED BY <1>2, <2>1, <3>1
  <2>2. CASE y \in T
    <3>1. PICK k \in 1 .. Len(q) : q[k] = y
      BY <2>2 DEF Lists
    <3>2. k \in 1 .. Len(u)
      BY <1>1, <1>2
    <3> QED BY <1>2, <3>1, <3>2
  <2> QED BY <2>1, <2>2
<1> QED BY <1>1, <1>2, <1>3, <1>4 DEF Lists, u
-----------------------------------------------------------------------------
(* Addresses.                                                              *)

LEMMA DivMod ==
  ASSUME NEW a \in Nat, NEW b \in Nat \ {0}
  PROVE  /\ a \div b \in Nat /\ a % b \in 0 .. b - 1
         /\ a = (a \div b) * b + (a % b) /\ a \div b <= a
<1> DEFINE q == a \div b
           r == a % b
<1>1. q \in Int /\ r \in 0 .. b - 1 /\ a = b * q + r
  BY SMTT(30)
<1>2. q \in Nat
  BY SMTT(30)
<1>3. q <= a
  BY SMTT(30)
<1> HIDE DEF q, r
<1>4. a = q * b + r
  BY <1>1
<1> QED BY <1>1, <1>2, <1>3, <1>4 DEF q, r

LEMMA DivUnique ==
  ASSUME NEW y \in Nat, NEW b \in Nat \ {0}, NEW z \in 0 .. b - 1
  PROVE  (y * b + z) \div b = y
<1> DEFINE x == y * b + z
           q == x \div b
           r == x % b
<1>1. x \in Nat
  BY SMTT(30)
<1>2. q \in Int /\ r \in 0 .. b - 1 /\ x = b * q + r
  BY <1>1
<1>3. y * b + z = q * b + r
  BY <1>2
<1> HIDE DEF q, r, x
<1>4. q = y
  <2>1. CASE q < y
    <3>1. (y - q) * b >= b
      BY <1>2, <2>1, SMTT(30)
    <3> QED BY <1>2, <1>3, <3>1, SMTT(30)
  <2>2. CASE q > y
    <3>1. (q - y) * b >= b
      BY <1>2, <2>2, SMTT(30)
    <3> QED BY <1>2, <1>3, <3>1, SMTT(30)
  <2> QED BY <1>2, <2>1, <2>2
<1> QED BY <1>4 DEF q, x

LEMMA UnitsAre ==
  /\ Units \subseteq Nat /\ 0 \in Units /\ CacheAddr \subseteq Units
  /\ \A x \in Units : \A y \in 0 .. x : y \in Units
<1>1. \A a \in CacheAddr \cup {0} : a \in Nat
  BY CacheAssumption
<1> QED BY <1>1 DEF Units

LEMMA GeometryIs ==
  ASSUME geometry \in Configs, NEW c \in Level
  PROVE  /\ geometry[c].nsets \in Nat \ {0} /\ geometry[c].bsize \in Nat \ {0}
         /\ geometry[c].assoc \in Nat \ {0} /\ hsize(geometry[c]) \in Nat
         /\ geometry["ul2"].bsize % geometry[c].bsize = 0
         /\ geometry[c].policy \in Policy
<1>1. ValidGeometry(geometry[c]) /\ geometry["ul2"].bsize % geometry[c].bsize = 0
  BY CacheAssumption
<1> DEFINE n == geometry[c].assoc
<1>2. /\ geometry[c].nsets \in Nat \ {0} /\ geometry[c].bsize \in Nat \ {0}
      /\ n \in Nat \ {0} /\ geometry[c].policy \in Policy
  BY <1>1 DEF ValidGeometry, PowerOfTwo
<1>3. n \div HASH_SHARE \in Nat
  <2> HIDE DEF n
  <2> QED BY <1>2, CacheAssumption, DivMod
<1> QED BY <1>1, <1>2, <1>3 DEF hsize

LEMMA AddressIs ==
  ASSUME geometry \in Configs, NEW c \in Level, NEW a \in Nat
  PROVE  /\ BlockNumber(c, a) \in Nat /\ CacheTag(c, a) \in 0 .. a
         /\ CacheSet(c, a) \in SetIndex(c)
         /\ BlockAddr(c, a) \in 0 .. a
         /\ BlockAddr(c, a) = BlockNumber(c, a) * geometry[c].bsize
         /\ MkBlockAddr(c, CacheTag(c, a), CacheSet(c, a)) = BlockAddr(c, a)
         /\ a \in BlockUnits(c, BlockAddr(c, a))
<1> DEFINE n == geometry[c].nsets
           b == geometry[c].bsize
           q == a \div b
           r == a % b
           t == q \div n
           s == q % n
<1>1. n \in Nat \ {0} /\ b \in Nat \ {0}
  BY GeometryIs
<1> HIDE DEF n, b
<1>2. q \in Nat /\ r \in 0 .. b - 1 /\ a = q * b + r /\ q <= a
  BY <1>1, DivMod
<1> HIDE DEF q, r
<1>3. t \in Nat /\ s \in 0 .. n - 1 /\ q = t * n + s /\ t <= q
  BY <1>1, <1>2, DivMod
<1> HIDE DEF t, s
<1>4. a - r = q * b /\ (t * n + s) * b = q * b /\ a - r \in 0 .. a /\ t \in 0 .. a
  BY <1>1, <1>2, <1>3
<1>5. a \in (a - r) .. ((a - r) + b - 1)
  BY <1>1, <1>2
<1>6. /\ BlockNumber(c, a) = q /\ CacheTag(c, a) = t /\ CacheSet(c, a) = s
      /\ BlockAddr(c, a) = a - r /\ SetIndex(c) = 0 .. n - 1
      /\ MkBlockAddr(c, CacheTag(c, a), CacheSet(c, a)) = (t * n + s) * b
      /\ BlockUnits(c, BlockAddr(c, a)) = (a - r) .. ((a - r) + b - 1)
  BY DEF BlockNumber, CacheTag, CacheSet, BlockAddr, MkBlockAddr, SetIndex, BlockUnits,
         n, b, q, r, t, s
<1>7. BlockAddr(c, a) = BlockNumber(c, a) * geometry[c].bsize
  BY <1>4, <1>6 DEF b
<1> QED BY <1>2, <1>3, <1>4, <1>5, <1>6, <1>7

\* A block of the first level is within one block of the second.
LEMMA WithinSecondBlock ==
  ASSUME geometry \in Configs, NEW c \in Level, NEW a \in Nat
  PROVE  /\ CacheTag("ul2", BlockAddr(c, a)) = CacheTag("ul2", a)
         /\ CacheSet("ul2", BlockAddr(c, a)) = CacheSet("ul2", a)
<1> DEFINE b == geometry[c].bsize
           b2 == geometry["ul2"].bsize
           k == b2 \div b
           q == a \div b
           r == a % b
           q2 == q \div k
           r2 == q % k
           z == r2 * b + r
           y == r2 * b
<1>1. b \in Nat \ {0} /\ b2 \in Nat \ {0} /\ b2 % b = 0
  BY GeometryIs DEF Level
<1> HIDE DEF b, b2
<1>2. k \in Nat /\ b2 = k * b
  BY <1>1, DivMod
<1> HIDE DEF k
<1>3. k # 0
  BY <1>1, <1>2
<1>4. q \in Nat /\ r \in 0 .. b - 1 /\ a = q * b + r
  BY <1>1, DivMod
<1> HIDE DEF q, r
<1>5. q2 \in Nat /\ r2 \in 0 .. k - 1 /\ q = q2 * k + r2
  BY <1>2, <1>3, <1>4, DivMod
<1> HIDE DEF q2, r2
<1>6. z \in 0 .. b2 - 1 /\ y \in 0 .. b2 - 1
  <2>1. r2 * b <= (k - 1) * b /\ r2 * b >= 0
    BY <1>1, <1>2, <1>3, <1>5, SMTT(30)
  <2>2. (k - 1) * b = b2 - b
    BY <1>1, <1>2, SMTT(30)
  <2>3. r2 * b \in Int
    BY <1>1, <1>2, <1>5
  <2> QED BY <1>1, <1>4, <2>1, <2>2, <2>3
<1>7. a = q2 * b2 + z /\ a - r = q2 * b2 + y
  <2>1. q * b = q2 * (k * b) + r2 * b
    BY <1>1, <1>2, <1>4, <1>5, SMTT(30)
  <2>2. q * b = q2 * b2 + r2 * b
    BY <1>2, <2>1
  <2>3. q * b \in Int /\ q2 * b2 \in Int /\ r2 * b \in Int
    BY <1>1, <1>2, <1>4, <1>5
  <2> QED BY <1>4, <2>2, <2>3
<1> HIDE DEF y, z
<1>8. a \div b2 = q2 /\ (a - r) \div b2 = q2
  <2>1. (q2 * b2 + z) \div b2 = q2 /\ (q2 * b2 + y) \div b2 = q2
    BY <1>1, <1>5, <1>6, DivUnique
  <2> QED BY <1>7, <2>1, Zenon
<1>9. BlockNumber("ul2", BlockAddr(c, a)) = BlockNumber("ul2", a)
  BY <1>8, Zenon DEF BlockNumber, BlockAddr, b2, b, r
<1> QED BY <1>9 DEF CacheTag, CacheSet
-----------------------------------------------------------------------------
(* One set: its way list holds every block once, its buckets every block     *)
(* once that is not out of them, and no tag is held twice.                   *)

Block == [tag : Units, valid : BOOLEAN, dirty : BOOLEAN]
Keys(c) == 0 .. hsize(geometry[c]) - 1
InBucket(c, blk, h, out) == {v \in Ways(c) \ out : Bucket(c, blk[v].tag) = h}
TagsDistinct(c, blk) ==
  \A v, w \in Ways(c) : v # w /\ blk[v].valid /\ blk[w].valid => blk[v].tag # blk[w].tag
ChainOK(c, chain, blk, out) ==
  Hashed(c) => /\ chain = [h \in Keys(c) |-> chain[h]]
               /\ \A h \in Keys(c) : Lists(chain[h], InBucket(c, blk, h, out))
OrderOK(c, order) == Lists(order, Ways(c)) /\ Len(order) = geometry[c].assoc

SetOK(c, S, out) ==
  /\ S = [order |-> S.order, chain |-> S.chain, blk |-> S.blk]
  /\ OrderOK(c, S.order)
  /\ S.blk \in [Ways(c) -> Block] /\ TagsDistinct(c, S.blk)
  /\ ChainOK(c, S.chain, S.blk, out)

LEMMA SetFields ==
  ASSUME NEW o, NEW h, NEW b, NEW S, S = [order |-> o, chain |-> h, blk |-> b]
  PROVE  /\ S.order = o /\ S.chain = h /\ S.blk = b
         /\ S = [order |-> S.order, chain |-> S.chain, blk |-> S.blk]
         /\ \A x : [S EXCEPT !.order = x] = [order |-> x, chain |-> h, blk |-> b]
         /\ \A x : [S EXCEPT !.chain = x] = [order |-> o, chain |-> x, blk |-> b]
         /\ \A x : [S EXCEPT !.blk = x] = [order |-> o, chain |-> h, blk |-> x]
OBVIOUS

LEMMA BucketIs ==
  ASSUME geometry \in Configs, NEW c \in Level, Hashed(c), NEW t \in Units
  PROVE  Bucket(c, t) \in Keys(c)
<1>1. hsize(geometry[c]) \in Nat \ {0} /\ CACHE_HASH(t) \in Nat
  BY GeometryIs, CacheAssumption DEF Hashed
<1> QED BY <1>1, DivMod DEF Bucket, Keys

\* A block moved to either end of the way list.
LEMMA UpdateWayList ==
  ASSUME geometry \in Configs, NEW c \in Level, NEW out, NEW S, SetOK(c, S, out),
         NEW p \in Ways(c), NEW where \in {"Head", "Tail"}
  PROVE  LET R == update_way_list(S, S.order[p], where)
         IN  /\ SetOK(c, R, out) /\ R.blk = S.blk /\ R.chain = S.chain
             /\ where = "Head" =>
                  /\ R.order[1] = S.order[p]
                  /\ \A i \in 1 .. geometry[c].assoc - 1 :
                       R.order[i + 1] = IF i < p THEN S.order[i] ELSE S.order[i + 1]
             /\ where = "Tail" =>
                  /\ R.order[geometry[c].assoc] = S.order[p]
                  /\ \A i \in 1 .. geometry[c].assoc - 1 :
                       R.order[i] = IF i < p THEN S.order[i] ELSE S.order[i + 1]
<1> DEFINE n == geometry[c].assoc
           q == S.order
           w == q[p]
           u == Without(q, w)
           o == IF where = "Head" THEN <<w>> \o u ELSE Append(u, w)
           W == Ways(c)
           R == update_way_list(S, w, where)
<1>1. /\ Lists(q, W) /\ Len(q) = n /\ n \in Nat \ {0} /\ W = 1 .. n /\ p \in 1 .. n
      /\ w \in W
  <2>1. Lists(q, W) /\ Len(q) = n /\ n \in Nat \ {0} /\ W = 1 .. n
    BY GeometryIs DEF SetOK, OrderOK, Ways
  <2>2. w \in W
    BY <2>1, ElementOfSeq DEF Lists
  <2> QED BY <2>1, <2>2
<1>2. /\ Lists(u, W \ {w}) /\ Len(u) = n - 1
      /\ \A i \in 1 .. n - 1 : u[i] = IF i < p THEN q[i] ELSE q[i + 1]
  <2> HIDE DEF q, w, W, n
  <2>1. Lists(u, W \ {w}) /\ Len(u) = n - 1
    BY <1>1, ListsWithout
  <2>2. \A i \in 1 .. Len(q) - 1 : u[i] = IF i < p THEN q[i] ELSE q[i + 1]
    <3>1. q \in Seq(W) /\ Distinct(q) /\ p \in 1 .. Len(q)
      BY <1>1 DEF Lists
    <3> QED BY <3>1, WithoutIs DEF w
  <2> QED BY <1>1, <2>1, <2>2
<1>3. /\ R = [S EXCEPT !.order = o] /\ S = [order |-> q, chain |-> S.chain, blk |-> S.blk]
  BY DEF update_way_list, SetOK
<1> HIDE DEF u
<1>4. (W \ {w}) \cup {w} = W /\ w \notin W \ {w}
  BY <1>1
<1>5. Lists(o, W) /\ Len(o) = n
  <2>1. Lists(<<w>> \o u, W) /\ Len(<<w>> \o u) = n - 1 + 1
    BY <1>2, <1>4, ListsFront
  <2>2. Lists(Append(u, w), W) /\ Len(Append(u, w)) = n - 1 + 1
    BY <1>2, <1>4, ListsBack
  <2> QED BY <1>1, <2>1, <2>2
<1>6. where = "Head" =>
        o[1] = w /\ \A i \in 1 .. n - 1 : o[i + 1] = IF i < p THEN q[i] ELSE q[i + 1]
  BY <1>2, <1>4, ListsFront
<1>7. where = "Tail" =>
        o[n] = w /\ \A i \in 1 .. n - 1 : o[i] = IF i < p THEN q[i] ELSE q[i + 1]
  <2>1. Append(u, w)[n - 1 + 1] = w /\ \A i \in 1 .. n - 1 : Append(u, w)[i] = u[i]
    BY <1>2, <1>4, ListsBack
  <2> QED BY <1>1, <1>2, <2>1
<1> HIDE DEF o, R
<1>8. R = [order |-> o, chain |-> S.chain, blk |-> S.blk]
  BY <1>3, SetFields
<1>9. R.order = o /\ R.blk = S.blk /\ R.chain = S.chain
  BY <1>8
<1>10. SetOK(c, R, out)
  BY <1>5, <1>8, <1>9 DEF SetOK, OrderOK
<1> QED BY <1>6, <1>7, <1>9, <1>10 DEF R

LEMMA ToHead ==
  ASSUME geometry \in Configs, NEW c \in Level, NEW out, NEW S, SetOK(c, S, out),
         NEW p \in Ways(c)
  PROVE  LET R == update_way_list(S, S.order[p], "Head")
         IN  /\ SetOK(c, R, out) /\ R.blk = S.blk /\ R.chain = S.chain
             /\ R.order[1] = S.order[p]
             /\ \A i \in 1 .. geometry[c].assoc - 1 :
                  R.order[i + 1] = IF i < p THEN S.order[i] ELSE S.order[i + 1]
<1> DEFINE where == "Head"
<1>1. where \in {"Head", "Tail"} /\ where = "Head"
  OBVIOUS
<1> HIDE DEF where
<1>2. LET R == update_way_list(S, S.order[p], where)
      IN  /\ SetOK(c, R, out) /\ R.blk = S.blk /\ R.chain = S.chain
          /\ R.order[1] = S.order[p]
          /\ \A i \in 1 .. geometry[c].assoc - 1 :
               R.order[i + 1] = IF i < p THEN S.order[i] ELSE S.order[i + 1]
  BY <1>1, UpdateWayList
<1> QED BY <1>1, <1>2

LEMMA ToTail ==
  ASSUME geometry \in Configs, NEW c \in Level, NEW out, NEW S, SetOK(c, S, out),
         NEW p \in Ways(c)
  PROVE  LET R == update_way_list(S, S.order[p], "Tail")
         IN  /\ SetOK(c, R, out) /\ R.blk = S.blk /\ R.chain = S.chain
             /\ R.order[geometry[c].assoc] = S.order[p]
             /\ \A i \in 1 .. geometry[c].assoc - 1 :
                  R.order[i] = IF i < p THEN S.order[i] ELSE S.order[i + 1]
<1> DEFINE where == "Tail"
<1>1. where \in {"Head", "Tail"} /\ where = "Tail"
  OBVIOUS
<1> HIDE DEF where
<1>2. LET R == update_way_list(S, S.order[p], where)
      IN  /\ SetOK(c, R, out) /\ R.blk = S.blk /\ R.chain = S.chain
          /\ R.order[geometry[c].assoc] = S.order[p]
          /\ \A i \in 1 .. geometry[c].assoc - 1 :
               R.order[i] = IF i < p THEN S.order[i] ELSE S.order[i + 1]
  BY <1>1, UpdateWayList
<1> QED BY <1>1, <1>2

\* The victim leaves its bucket.
LEMMA UnlinkHtabEnt ==
  ASSUME geometry \in Configs, NEW c \in Level, NEW S, SetOK(c, S, {}), NEW w \in Ways(c)
  PROVE  LET R == unlink_htab_ent(c, S, w)
         IN  SetOK(c, R, {w}) /\ R.blk = S.blk /\ R.order = S.order
<1> DEFINE R == unlink_htab_ent(c, S, w)
           b == S.blk
           k == Bucket(c, b[w].tag)
<1>1. CASE ~Hashed(c)
  BY <1>1 DEF unlink_htab_ent, SetOK, ChainOK
<1>2. CASE Hashed(c)
  <2>1. b \in [Ways(c) -> Block] /\ b[w].tag \in Units
    BY DEF SetOK, Block
  <2>2. k \in Keys(c)
    BY <1>2, <2>1, BucketIs
  <2> DEFINE x == [S.chain EXCEPT ![k] = Without(@, w)]
  <2>3. R = [order |-> S.order, chain |-> x, blk |-> b]
    BY <1>2, SetFields DEF unlink_htab_ent, SetOK
  <2>4. /\ S.chain = [h \in Keys(c) |-> S.chain[h]]
        /\ \A h \in Keys(c) : Lists(S.chain[h], InBucket(c, b, h, {}))
    BY <1>2 DEF SetOK, ChainOK
  <2>5. x = [h \in Keys(c) |-> x[h]] /\ x[k] = Without(S.chain[k], w)
        /\ \A h \in Keys(c) \ {k} : x[h] = S.chain[h]
    BY <2>2, <2>4
  <2> HIDE DEF x, R
  <2>6. ASSUME NEW h \in Keys(c) PROVE Lists(x[h], InBucket(c, b, h, {w}))
    <3>1. CASE h = k
      <4>1. w \in InBucket(c, b, k, {}) /\ InBucket(c, b, k, {w}) = InBucket(c, b, k, {}) \ {w}
        BY DEF InBucket
      <4> HIDE DEF k
      <4>2. Lists(S.chain[k], InBucket(c, b, k, {}))
        BY <2>2, <2>4
      <4> DEFINE B == InBucket(c, b, k, {})
      <4> HIDE DEF B
      <4>3. Lists(x[k], B \ {w})
        BY <2>5, <4>1, <4>2, ListsWithout DEF B
      <4> QED BY <3>1, <4>1, <4>3 DEF B
    <3>2. CASE h # k
      <4>1. InBucket(c, b, h, {w}) = InBucket(c, b, h, {})
        BY <3>2 DEF InBucket
      <4> QED BY <2>4, <2>5, <3>2, <4>1
    <3> QED BY <3>1, <3>2
  <2>7. ChainOK(c, x, b, {w})
    BY <2>5, <2>6 DEF ChainOK
  <2>8. R.order = S.order /\ R.chain = x /\ R.blk = b
    BY <2>3
  <2>9. SetOK(c, R, {w})
    BY <2>3, <2>7, <2>8 DEF SetOK
  <2> QED BY <2>8, <2>9 DEF R
<1> QED BY <1>1, <1>2

\* A block that is out of the buckets is linked.
LEMMA LinkHtabEnt ==
  ASSUME geometry \in Configs, NEW c \in Level, NEW w \in Ways(c), NEW S, SetOK(c, S, {w})
  PROVE  LET R == link_htab_ent(c, S, w)
         IN  SetOK(c, R, {}) /\ R.blk = S.blk /\ R.order = S.order
<1> DEFINE R == link_htab_ent(c, S, w)
           b == S.blk
           k == Bucket(c, b[w].tag)
<1>1. CASE ~Hashed(c)
  BY <1>1 DEF link_htab_ent, SetOK, ChainOK
<1>2. CASE Hashed(c)
  <2>1. b \in [Ways(c) -> Block] /\ b[w].tag \in Units
    BY DEF SetOK, Block
  <2>2. k \in Keys(c)
    BY <1>2, <2>1, BucketIs
  <2> DEFINE x == [S.chain EXCEPT ![k] = <<w>> \o @]
  <2>3. R = [order |-> S.order, chain |-> x, blk |-> b]
    BY <1>2, SetFields DEF link_htab_ent, SetOK
  <2>4. /\ S.chain = [h \in Keys(c) |-> S.chain[h]]
        /\ \A h \in Keys(c) : Lists(S.chain[h], InBucket(c, b, h, {w}))
    BY <1>2 DEF SetOK, ChainOK
  <2>5. x = [h \in Keys(c) |-> x[h]] /\ x[k] = <<w>> \o S.chain[k]
        /\ \A h \in Keys(c) \ {k} : x[h] = S.chain[h]
    BY <2>2, <2>4
  <2> HIDE DEF x, R
  <2>6. ASSUME NEW h \in Keys(c) PROVE Lists(x[h], InBucket(c, b, h, {}))
    <3>1. CASE h = k
      <4>1. /\ w \notin InBucket(c, b, k, {w})
            /\ InBucket(c, b, k, {}) = InBucket(c, b, k, {w}) \cup {w}
        BY DEF InBucket
      <4> HIDE DEF k
      <4>2. Lists(S.chain[k], InBucket(c, b, k, {w}))
        BY <2>2, <2>4
      <4> DEFINE B == InBucket(c, b, k, {w})
      <4>3. w \notin B /\ Lists(S.chain[k], B) /\ InBucket(c, b, k, {}) = B \cup {w}
        BY <4>1, <4>2
      <4> HIDE DEF B
      <4>4. Lists(<<w>> \o S.chain[k], B \cup {w})
        BY <4>3, ListsFront
      <4> QED BY <2>5, <3>1, <4>3, <4>4
    <3>2. CASE h # k
      <4>1. InBucket(c, b, h, {w}) = InBucket(c, b, h, {})
        BY <3>2 DEF InBucket
      <4> QED BY <2>4, <2>5, <3>2, <4>1
    <3> QED BY <3>1, <3>2
  <2>7. ChainOK(c, x, b, {})
    BY <2>5, <2>6 DEF ChainOK
  <2>8. R.order = S.order /\ R.chain = x /\ R.blk = b
    BY <2>3
  <2>9. SetOK(c, R, {})
    BY <2>3, <2>7, <2>8 DEF SetOK
  <2> QED BY <2>8, <2>9 DEF R
<1> QED BY <1>1, <1>2

\* One block changes: it keeps its tag, or is out of the buckets.
LEMMA BlockChanges ==
  ASSUME geometry \in Configs, NEW c \in Level, NEW out, NEW S, SetOK(c, S, out),
         NEW w \in Ways(c), NEW new \in Block,
         new.tag = S.blk[w].tag \/ w \in out,
         new.valid => \A v \in Ways(c) \ {w} : S.blk[v].valid => S.blk[v].tag # new.tag
  PROVE  LET R == [S EXCEPT !.blk[w] = new]
         IN  /\ SetOK(c, R, out) /\ R.order = S.order
             /\ R.blk = [S.blk EXCEPT ![w] = new]
<1> DEFINE b == [S.blk EXCEPT ![w] = new]
           R == [S EXCEPT !.blk[w] = new]
<1>1. R = [order |-> S.order, chain |-> S.chain, blk |-> b]
  BY SetFields DEF SetOK
<1>2. S.blk \in [Ways(c) -> Block]
  BY DEF SetOK
<1>3. /\ b \in [Ways(c) -> Block] /\ b[w] = new
      /\ \A v \in Ways(c) \ {w} : b[v] = S.blk[v]
  BY <1>2
<1> HIDE DEF b, R
<1>4. \A h \in Keys(c) : InBucket(c, b, h, out) = InBucket(c, S.blk, h, out)
  BY <1>3 DEF InBucket
<1>5. ChainOK(c, S.chain, b, out)
  BY <1>4 DEF SetOK, ChainOK
<1>6. TagsDistinct(c, b)
  <2> SUFFICES ASSUME NEW v \in Ways(c), NEW u \in Ways(c), v # u, b[v].valid, b[u].valid
               PROVE  b[v].tag # b[u].tag
    BY DEF TagsDistinct
  <2>1. CASE v = w
    BY <1>3, <2>1
  <2>2. CASE u = w
    BY <1>3, <2>2
  <2>3. CASE v # w /\ u # w
    BY <1>3, <2>3 DEF SetOK, TagsDistinct
  <2> QED BY <2>1, <2>2, <2>3
<1>7. R.order = S.order /\ R.chain = S.chain /\ R.blk = b
  BY <1>1
<1>8. SetOK(c, R, out)
  BY <1>1, <1>3, <1>5, <1>6, <1>7 DEF SetOK
<1> QED BY <1>7, <1>8 DEF R, b
\* The search finds the block that has the tag, wherever it is.
LEMMA SearchFinds ==
  ASSUME geometry \in Configs, NEW c \in Level, NEW S, SetOK(c, S, {}), NEW t \in Units
  PROVE  /\ HitAt(c, S, t) # 0 =>
              LET w == HitBlock(c, S, t)
              IN  w \in Ways(c) /\ S.blk[w].valid /\ S.blk[w].tag = t
         /\ \A w \in Ways(c) : S.blk[w].valid /\ S.blk[w].tag = t =>
              HitAt(c, S, t) # 0 /\ HitBlock(c, S, t) = w
<1> DEFINE q == Searched(c, S, t)
           I == {i \in 1 .. Len(q) : S.blk[q[i]].tag = t /\ S.blk[q[i]].valid}
<1>1. PICK T \in SUBSET Ways(c) :
        Lists(q, T) /\ \A w \in Ways(c) : S.blk[w].tag = t => w \in T
  <2>1. CASE Hashed(c)
    <3>1. Lists(S.chain[Bucket(c, t)], InBucket(c, S.blk, Bucket(c, t), {}))
      BY <2>1, BucketIs DEF SetOK, ChainOK
    <3> DEFINE T == InBucket(c, S.blk, Bucket(c, t), {})
    <3>2. T \in SUBSET Ways(c) /\ \A w \in Ways(c) : S.blk[w].tag = t => w \in T
      BY DEF InBucket
    <3> HIDE DEF T
    <3>3. Lists(q, T)
      BY <2>1, <3>1 DEF Searched, T
    <3> QED BY <3>2, <3>3
  <2>2. CASE ~Hashed(c)
    BY <2>2 DEF Searched, SetOK, OrderOK
  <2> QED BY <2>1, <2>2
<1>2. HitAt(c, S, t) = IF I # {} THEN Min(I) ELSE 0
  BY DEF HitAt, SelectInSeq
<1>3. HitBlock(c, S, t) = q[HitAt(c, S, t)]
  BY DEF HitBlock
<1> HIDE DEF q
<1>4. q \in Seq(T) /\ Distinct(q) /\ Len(q) \in Nat
  BY <1>1 DEF Lists
<1>5. ASSUME NEW i \in I PROVE I = {i}
  <2> SUFFICES ASSUME NEW j \in I PROVE j = i
    OBVIOUS
  <2>1. q[i] \in Ways(c) /\ q[j] \in Ways(c)
    BY <1>1, <1>4, ElementOfSeq
  <2>2. q[i] = q[j]
    BY <2>1 DEF SetOK, TagsDistinct
  <2> QED BY <1>4, <2>2 DEF Distinct
<1>6. ASSUME NEW i \in I
      PROVE  HitAt(c, S, t) = i /\ i # 0 /\ HitBlock(c, S, t) = q[i] /\ q[i] \in Ways(c)
  <2>1. I = {i} /\ i \in Nat /\ i # 0
    BY <1>4, <1>5
  <2>2. q[i] \in Ways(c)
    BY <1>1, <1>4, ElementOfSeq
  <2> HIDE DEF I
  <2> QED BY <1>2, <1>3, <2>1, <2>2, OnlyIndex
<1>7. HitAt(c, S, t) # 0 => \E i \in I : TRUE
  BY <1>2
<1>8. ASSUME NEW w \in Ways(c), S.blk[w].valid, S.blk[w].tag = t
      PROVE  \E i \in I : q[i] = w
  BY <1>1, <1>8 DEF Lists
<1> QED BY <1>6, <1>7, <1>8

-----------------------------------------------------------------------------
(* What the policy says of a set.                                          *)

IdealOK(c, order, blk, I) ==
  /\ I \in Seq(Units) /\ Len(I) <= geometry[c].assoc
  /\ \A i \in Ways(c) : IF i <= Len(I) THEN blk[order[i]].valid /\ blk[order[i]].tag = I[i]
                        ELSE ~blk[order[i]].valid

LEMMA IdealIsDistinct ==
  ASSUME geometry \in Configs, NEW c \in Level, NEW out, NEW S, SetOK(c, S, out),
         NEW I, IdealOK(c, S.order, S.blk, I)
  PROVE  /\ Distinct(I) /\ Len(I) \in 0 .. geometry[c].assoc
         /\ \A i \in 1 .. Len(I) : i \in Ways(c)
<1>1. Len(I) \in 0 .. geometry[c].assoc
  BY GeometryIs DEF IdealOK
<1>2. \A i \in 1 .. Len(I) : i \in Ways(c)
  BY <1>1, GeometryIs DEF Ways
<1>3. ASSUME NEW i \in 1 .. Len(I), NEW j \in 1 .. Len(I), I[i] = I[j]
      PROVE  i = j
  <2>1. i \in Ways(c) /\ j \in Ways(c) /\ i <= Len(I) /\ j <= Len(I)
    BY <1>1, <1>2
  <2>2. /\ S.blk[S.order[i]].valid /\ S.blk[S.order[i]].tag = I[i]
        /\ S.blk[S.order[j]].valid /\ S.blk[S.order[j]].tag = I[j]
    BY <2>1 DEF IdealOK
  <2>3. /\ S.order \in Seq(Ways(c)) /\ Distinct(S.order)
        /\ i \in 1 .. Len(S.order) /\ j \in 1 .. Len(S.order)
    BY <2>1 DEF SetOK, OrderOK, Lists, Ways
  <2>4. S.order[i] \in Ways(c) /\ S.order[j] \in Ways(c)
    BY <2>3, ElementOfSeq
  <2>5. S.order[i] = S.order[j]
    BY <1>3, <2>2, <2>4 DEF SetOK, TagsDistinct
  <2> QED BY <2>3, <2>5 DEF Distinct
<1> QED BY <1>1, <1>2, <1>3 DEF Distinct

\* A tag in front of a list, which is cut to n.
LEMMA CutIs ==
  ASSUME NEW t \in Units, NEW q \in Seq(Units), NEW n \in Nat \ {0}
  PROVE  LET news == <<t>> \o q
             m == IF Len(news) < n THEN Len(news) ELSE n
             r == SubSeq(news, 1, m)
         IN  /\ r \in Seq(Units) /\ Len(r) = (IF Len(q) + 1 < n THEN Len(q) + 1 ELSE n)
             /\ r[1] = t
             /\ \A i \in 1 .. n - 1 : i <= Len(q) => r[i + 1] = q[i]
<1> DEFINE news == <<t>> \o q
           m == IF Len(news) < n THEN Len(news) ELSE n
           r == SubSeq(news, 1, m)
<1>1. <<t>> \in Seq(Units) /\ Len(<<t>>) = 1 /\ <<t>>[1] = t /\ Len(q) \in Nat
  OBVIOUS
<1>2. /\ news \in Seq(Units) /\ Len(news) = 1 + Len(q)
      /\ \A i \in 1 .. 1 + Len(q) : news[i] = IF i <= 1 THEN <<t>>[i] ELSE q[i - 1]
  BY <1>1, ConcatProperties
<1> HIDE DEF news
<1>3. m \in 1 .. Len(news) /\ m <= n /\ m = (IF Len(q) + 1 < n THEN Len(q) + 1 ELSE n)
  BY <1>1, <1>2
<1> HIDE DEF m
<1>4. /\ r \in Seq(Units) /\ Len(r) = IF 1 <= m THEN m - 1 + 1 ELSE 0
      /\ \A i \in 1 .. m - 1 + 1 : r[i] = news[1 + i - 1]
  <2>1. \A i \in 1 .. m : news[i] \in Units
    BY <1>2, <1>3, ElementOfSeq
  <2>2. m \in Int /\ 1 \in Int
    BY <1>1, <1>2, <1>3
  <2> QED BY <2>1, <2>2, SubSeqProperties
<1> HIDE DEF r
<1>5. m \in Nat /\ Len(r) = m
  BY <1>1, <1>2, <1>3, <1>4
<1>6. ASSUME NEW i \in 1 .. m PROVE r[i] = news[i]
  <2>1. i \in 1 .. m - 1 + 1 /\ 1 + i - 1 = i
    BY <1>5
  <2> QED BY <1>4, <2>1
<1>7. r[1] = t
  <2>1. 1 \in 1 .. m /\ 1 \in 1 .. 1 + Len(q)
    BY <1>1, <1>3, <1>5
  <2> QED BY <1>1, <1>2, <1>6, <2>1
<1>8. ASSUME NEW i \in 1 .. n - 1, i <= Len(q) PROVE r[i + 1] = q[i]
  <2>1. i + 1 \in 1 .. m /\ i + 1 \in 1 .. 1 + Len(q) /\ ~(i + 1 <= 1) /\ (i + 1) - 1 = i
    BY <1>1, <1>3, <1>8
  <2> QED BY <1>2, <1>6, <2>1
<1> QED BY <1>3, <1>4, <1>5, <1>7, <1>8 DEF r, m, news

\* The policy after a hit under LRU: the block goes to the head.
LEMMA IdealHit ==
  ASSUME geometry \in Configs, NEW c \in Level, geometry[c].policy # "FIFO",
         NEW out, NEW S, SetOK(c, S, out), NEW I, IdealOK(c, S.order, S.blk, I),
         NEW p \in Ways(c), S.blk[S.order[p]].valid, NEW order,
         order[1] = S.order[p],
         \A i \in 1 .. geometry[c].assoc - 1 :
           order[i + 1] = IF i < p THEN S.order[i] ELSE S.order[i + 1]
  PROVE  IdealOK(c, order, S.blk, IdealAfter(geometry[c], I, S.blk[S.order[p]].tag))
<1> DEFINE n == geometry[c].assoc
           L == Len(I)
           t == S.blk[S.order[p]].tag
           u == Without(I, t)
           r == IdealAfter(geometry[c], I, t)
<1>1. n \in Nat \ {0} /\ Ways(c) = 1 .. n /\ L \in 0 .. n /\ Distinct(I) /\ I \in Seq(Units)
  BY GeometryIs, IdealIsDistinct DEF Ways, IdealOK
<1>2. p \in 1 .. L /\ I[p] = t /\ t \in Units
  <2>1. p <= L /\ I[p] = t
    BY <1>1 DEF IdealOK
  <2>2. p \in 1 .. L
    BY <1>1, <2>1
  <2> QED BY <1>1, <2>1, <2>2, ElementOfSeq
<1>3. /\ u \in Seq(Units) /\ Len(u) = L - 1
      /\ \A i \in 1 .. L - 1 : u[i] = IF i < p THEN I[i] ELSE I[i + 1]
  <2> HIDE DEF t
  <2> QED BY <1>1, <1>2, WithoutIs
<1>4. r = SubSeq(<<t>> \o u, 1, IF Len(<<t>> \o u) < n THEN Len(<<t>> \o u) ELSE n)
  BY DEF IdealAfter
<1> HIDE DEF r, u, n
<1>5. /\ r \in Seq(Units) /\ Len(r) = (IF Len(u) + 1 < n THEN Len(u) + 1 ELSE n)
      /\ r[1] = t
      /\ \A i \in 1 .. n - 1 : i <= Len(u) => r[i + 1] = u[i]
  BY <1>1, <1>2, <1>3, <1>4, CutIs
<1>6. Len(r) = L
  BY <1>1, <1>2, <1>3, <1>5
<1>7. ASSUME NEW i \in Ways(c)
      PROVE  IF i <= L THEN S.blk[order[i]].valid /\ S.blk[order[i]].tag = r[i]
             ELSE ~S.blk[order[i]].valid
  <2>1. CASE i = 1
    BY <1>1, <1>2, <1>5, <2>1
  <2>2. CASE i # 1
    <3> DEFINE j == i - 1
    <3>1. j \in 1 .. n - 1 /\ j + 1 = i /\ j \in Ways(c)
      BY <1>1, <2>2
    <3> HIDE DEF j
    <3>2. order[i] = IF j < p THEN S.order[j] ELSE S.order[i]
      BY <3>1 DEF n
    <3>3. CASE i <= L
      <4>1. j \in 1 .. L - 1 /\ j <= Len(u) /\ j <= L
        BY <1>1, <1>3, <3>1, <3>3
      <4>2. r[i] = IF j < p THEN I[j] ELSE I[i]
        BY <1>3, <1>5, <3>1, <4>1
      <4> QED BY <3>1, <3>2, <3>3, <4>1, <4>2 DEF IdealOK
    <3>4. CASE ~(i <= L)
      <4>1. ~(j < p)
        BY <1>1, <1>2, <3>1, <3>4
      <4> QED BY <3>2, <3>4, <4>1 DEF IdealOK
    <3> QED BY <3>3, <3>4
  <2> QED BY <2>1, <2>2
<1>8. IdealOK(c, order, S.blk, r)
  BY <1>1, <1>5, <1>6, <1>7 DEF IdealOK, n
<1> QED BY <1>8 DEF r

\* The policy after a miss: the last block makes room for the new one.
Replaced(c, S, order, blk, t) ==
  /\ order[1] = S.order[geometry[c].assoc]
  /\ \A i \in 1 .. geometry[c].assoc - 1 : order[i + 1] = S.order[i]
  /\ blk[order[1]].valid /\ blk[order[1]].tag = t
  /\ \A w \in Ways(c) \ {order[1]} : blk[w] = S.blk[w]

LEMMA IdealMiss ==
  ASSUME geometry \in Configs, NEW c \in Level, NEW out, NEW S, SetOK(c, S, out),
         NEW I, IdealOK(c, S.order, S.blk, I), NEW t \in Units,
         \A w \in Ways(c) : S.blk[w].valid => S.blk[w].tag # t,
         NEW order, NEW blk, Replaced(c, S, order, blk, t)
  PROVE  IdealOK(c, order, blk, IdealAfter(geometry[c], I, t))
<1> DEFINE n == geometry[c].assoc
           L == Len(I)
           r == IdealAfter(geometry[c], I, t)
<1>1. n \in Nat \ {0} /\ Ways(c) = 1 .. n /\ L \in 0 .. n /\ I \in Seq(Units)
  BY GeometryIs, IdealIsDistinct DEF Ways, IdealOK
<1>2. /\ \A i \in Ways(c) : S.order[i] \in Ways(c)
      /\ \A i, j \in Ways(c) : S.order[i] = S.order[j] => i = j
  <2>1. S.order \in Seq(Ways(c)) /\ Distinct(S.order) /\ Len(S.order) = n
    BY DEF SetOK, OrderOK, Lists
  <2> QED BY <1>1, <2>1, ElementOfSeq DEF Distinct
<1>3. \A i \in 1 .. L : I[i] # t
  <2> TAKE i \in 1 .. L
  <2>1. i \in Ways(c) /\ i <= L
    BY <1>1
  <2>2. S.blk[S.order[i]].valid /\ S.blk[S.order[i]].tag = I[i]
    BY <2>1 DEF IdealOK
  <2> QED BY <1>2, <2>1, <2>2
<1>4. Without(I, t) = I
  BY <1>3, WithoutNone
<1>5. ~\E i \in DOMAIN I : I[i] = t
  BY <1>1, <1>3, LenProperties
<1>6. r = SubSeq(<<t>> \o I, 1, IF Len(<<t>> \o I) < n THEN Len(<<t>> \o I) ELSE n)
  BY <1>4, <1>5 DEF IdealAfter
<1> HIDE DEF r, n
<1>7. /\ r \in Seq(Units) /\ Len(r) = (IF L + 1 < n THEN L + 1 ELSE n)
      /\ r[1] = t
      /\ \A i \in 1 .. n - 1 : i <= L => r[i + 1] = I[i]
  BY <1>1, <1>6, CutIs
<1>8. ASSUME NEW i \in Ways(c)
      PROVE  IF i <= Len(r) THEN blk[order[i]].valid /\ blk[order[i]].tag = r[i]
             ELSE ~blk[order[i]].valid
  <2>1. CASE i = 1
    <3>1. blk[order[1]].valid /\ blk[order[1]].tag = t /\ 1 <= Len(r)
      BY <1>1, <1>7 DEF Replaced
    <3> QED BY <1>7, <2>1, <3>1
  <2>2. CASE i # 1
    <3> DEFINE j == i - 1
    <3>1. j \in 1 .. n - 1 /\ j + 1 = i /\ j \in Ways(c) /\ n \in Ways(c) /\ j # n
      BY <1>1, <2>2
    <3> HIDE DEF j
    <3>2. order[i] = S.order[j] /\ S.order[j] \in Ways(c) /\ S.order[j] # order[1]
      <4>1. order[i] = S.order[j] /\ order[1] = S.order[n]
        <5>1. order[j + 1] = S.order[j]
          BY <3>1 DEF n, Replaced
        <5> QED BY <3>1, <5>1 DEF n, Replaced
      <4> QED BY <1>2, <3>1, <4>1
    <3> DEFINE w == S.order[j]
    <3>3. blk[order[i]] = S.blk[w]
      <4> HIDE DEF w
      <4>1. order[i] = w /\ w \in Ways(c) \ {order[1]}
        BY <3>2 DEF w
      <4> QED BY <4>1 DEF Replaced
    <3>4. CASE i <= Len(r)
      <4>1. j <= L
        BY <1>1, <1>7, <3>1, <3>4
      <4>2. S.blk[w].valid /\ S.blk[w].tag = I[j]
        BY <3>1, <4>1 DEF IdealOK
      <4>3. I[j] = r[i]
        BY <1>7, <3>1, <4>1
      <4> HIDE DEF w
      <4> QED BY <3>3, <3>4, <4>2, <4>3
    <3>5. CASE ~(i <= Len(r))
      <4>1. ~(j <= L)
        BY <1>1, <1>7, <3>1, <3>5
      <4>2. ~S.blk[w].valid
        BY <3>1, <4>1 DEF IdealOK
      <4> HIDE DEF w
      <4> QED BY <3>3, <3>5, <4>2
    <3> QED BY <3>4, <3>5
  <2> QED BY <2>1, <2>2
<1>9. Len(r) <= n
  BY <1>1, <1>7
<1>10. IdealOK(c, order, blk, r)
  BY <1>7, <1>8, <1>9 DEF IdealOK, n
<1> QED BY <1>10 DEF r

\* The policy after a block is flushed: it goes to the tail.
Tailed(c, S, p, order, blk) ==
  /\ order[geometry[c].assoc] = S.order[p]
  /\ \A i \in 1 .. geometry[c].assoc - 1 :
       order[i] = IF i < p THEN S.order[i] ELSE S.order[i + 1]
  /\ ~blk[S.order[p]].valid
  /\ \A w \in Ways(c) \ {S.order[p]} : blk[w] = S.blk[w]

LEMMA IdealFlush ==
  ASSUME geometry \in Configs, NEW c \in Level,
         NEW out, NEW S, SetOK(c, S, out), NEW I, IdealOK(c, S.order, S.blk, I),
         NEW p \in Ways(c), S.blk[S.order[p]].valid, NEW order, NEW blk,
         Tailed(c, S, p, order, blk)
  PROVE  IdealOK(c, order, blk, Without(I, S.blk[S.order[p]].tag))
<1> DEFINE n == geometry[c].assoc
           L == Len(I)
           t == S.blk[S.order[p]].tag
           u == Without(I, t)
<1>1. n \in Nat \ {0} /\ Ways(c) = 1 .. n /\ L \in 0 .. n /\ Distinct(I) /\ I \in Seq(Units)
  BY GeometryIs, IdealIsDistinct DEF Ways, IdealOK
<1>2. p \in 1 .. L /\ I[p] = t
  <2>1. p <= L /\ I[p] = t
    BY <1>1 DEF IdealOK
  <2> QED BY <1>1, <2>1
<1>3. /\ u \in Seq(Units) /\ Len(u) = L - 1
      /\ \A i \in 1 .. L - 1 : u[i] = IF i < p THEN I[i] ELSE I[i + 1]
  <2> HIDE DEF t
  <2> QED BY <1>1, <1>2, WithoutIs
<1> HIDE DEF u, n
<1>4. /\ \A i \in Ways(c) : S.order[i] \in Ways(c)
      /\ \A i, j \in Ways(c) : S.order[i] = S.order[j] => i = j
  <2>1. S.order \in Seq(Ways(c)) /\ Distinct(S.order) /\ Len(S.order) = n
    BY DEF SetOK, OrderOK, Lists, n
  <2> QED BY <1>1, <2>1, ElementOfSeq DEF Distinct
<1>5. ASSUME NEW i \in Ways(c)
      PROVE  IF i <= Len(u) THEN blk[order[i]].valid /\ blk[order[i]].tag = u[i]
             ELSE ~blk[order[i]].valid
  <2>1. CASE i = n
    <3>1. order[i] = S.order[p] /\ ~(i <= Len(u))
      BY <1>1, <1>3, <2>1 DEF n, Tailed
    <3> QED BY <3>1 DEF Tailed
  <2>2. CASE i # n
    <3> DEFINE j == IF i < p THEN i ELSE i + 1
    <3>1. i \in 1 .. n - 1 /\ j \in Ways(c) /\ j # p /\ (i <= Len(u) => j <= L /\ i \in 1 .. L - 1)
          /\ (~(i <= Len(u)) => ~(j <= L))
      BY <1>1, <1>2, <1>3, <2>2
    <3>2. order[i] = S.order[j]
      BY <3>1 DEF n, Tailed
    <3>3. i <= Len(u) => u[i] = I[j]
      BY <1>3, <3>1
    <3> HIDE DEF j
    <3>4. blk[order[i]] = S.blk[S.order[j]]
      <4>1. S.order[j] \in Ways(c) \ {S.order[p]}
        BY <1>4, <3>1
      <4> QED BY <3>2, <4>1 DEF Tailed
    <3> QED BY <3>1, <3>3, <3>4 DEF IdealOK
  <2> QED BY <2>1, <2>2
<1>6. Len(u) <= n
  BY <1>1, <1>3
<1>7. IdealOK(c, order, blk, u)
  BY <1>3, <1>5, <1>6 DEF IdealOK, n
<1> QED BY <1>7 DEF u

-----------------------------------------------------------------------------
(* A set after a call: a hit, a miss, a flush of a block.                  *)

Touched(c, s, blk) ==
  \A w \in Ways(c) : blk[w].valid => MkBlockAddr(c, blk[w].tag, s) \in Units
Sound(c, s, S, I) ==
  /\ SetOK(c, S, {}) /\ Touched(c, s, S.blk)
  /\ geometry[c].policy # "Random" => IdealOK(c, S.order, S.blk, I)
SameTags(c, b1, b2) ==
  \A w \in Ways(c) : b2[w].valid = b1[w].valid /\ b2[w].tag = b1[w].tag

Marked(S, cmd, w) == [S EXCEPT !.blk[w].dirty = (cmd = "Write")]
WrittenSet(S, cmd, w) == IF cmd = "Write" THEN [S EXCEPT !.blk[w].dirty = TRUE] ELSE S
HitSet(c, S, cmd, w) ==
  IF geometry[c].policy = "LRU" THEN update_way_list(WrittenSet(S, cmd, w), w, "Head")
  ELSE WrittenSet(S, cmd, w)
EvictSet(c, S, w) ==
  unlink_htab_ent(c, IF geometry[c].policy = "Random" THEN S
                     ELSE update_way_list(S, w, "Head"), w)
RetagSet(S, t, w) == [S EXCEPT !.blk[w] = [tag |-> t, valid |-> TRUE, dirty |-> FALSE]]
FillSet(c, S, cmd, w) == link_htab_ent(c, Marked(S, cmd, w), w)

LEMMA OrderIs ==
  ASSUME geometry \in Configs, NEW c \in Level, NEW S, NEW out, SetOK(c, S, out)
  PROVE  /\ \A p \in Ways(c) : S.order[p] \in Ways(c)
         /\ \A w \in Ways(c) : \E p \in Ways(c) : S.order[p] = w
         /\ geometry[c].assoc \in Ways(c) /\ Last(S.order) = S.order[geometry[c].assoc]
<1>1. S.order \in Seq(Ways(c)) /\ Len(S.order) = geometry[c].assoc
  BY DEF SetOK, OrderOK, Lists
<1>2. Ways(c) = 1 .. geometry[c].assoc /\ geometry[c].assoc \in Ways(c)
  BY GeometryIs DEF Ways
<1>3. \A w \in Ways(c) : \E p \in Ways(c) : S.order[p] = w
  BY <1>1, <1>2 DEF SetOK, OrderOK, Lists
<1> QED BY <1>1, <1>2, <1>3, ElementOfSeq DEF Last

LEMMA IdealKeeps ==
  ASSUME geometry \in Configs, NEW c \in Level, NEW S, NEW out, SetOK(c, S, out),
         NEW I, IdealOK(c, S.order, S.blk, I), NEW blk, SameTags(c, S.blk, blk)
  PROVE  IdealOK(c, S.order, blk, I)
<1>1. \A i \in Ways(c) : S.order[i] \in Ways(c)
  BY OrderIs
<1> QED BY <1>1 DEF IdealOK, SameTags

\* A block is marked: what the set holds stays.
LEMMA DirtyChanges ==
  ASSUME geometry \in Configs, NEW c \in Level, NEW out, NEW S, SetOK(c, S, out),
         NEW w \in Ways(c), NEW cmd
  PROVE  /\ SetOK(c, Marked(S, cmd, w), out) /\ Marked(S, cmd, w).order = S.order
         /\ SameTags(c, S.blk, Marked(S, cmd, w).blk)
         /\ cmd = "Write" => Marked(S, cmd, w).blk[w].dirty
         /\ \A v \in Ways(c) \ {w} : Marked(S, cmd, w).blk[v] = S.blk[v]
<1> DEFINE new == [S.blk[w] EXCEPT !.dirty = (cmd = "Write")]
           R == [S EXCEPT !.blk[w] = new]
<1>1. S.blk \in [Ways(c) -> Block] /\ S.blk[w] \in Block
  BY DEF SetOK
<1>2. /\ new \in Block /\ new.tag = S.blk[w].tag /\ new.valid = S.blk[w].valid
      /\ cmd = "Write" => new.dirty
  BY <1>1 DEF Block
<1>3. R = Marked(S, cmd, w)
  BY DEF Marked
<1> HIDE DEF new
<1>4. new.valid => \A v \in Ways(c) \ {w} : S.blk[v].valid => S.blk[v].tag # new.tag
  BY <1>2 DEF SetOK, TagsDistinct
<1>5. SetOK(c, R, out) /\ R.order = S.order /\ R.blk = [S.blk EXCEPT ![w] = new]
  BY <1>2, <1>4, BlockChanges
<1> HIDE DEF R
<1>6. R.blk[w] = new /\ \A v \in Ways(c) \ {w} : R.blk[v] = S.blk[v]
  BY <1>1, <1>5
<1>7. SameTags(c, S.blk, R.blk)
  BY <1>2, <1>6 DEF SameTags
<1> QED BY <1>2, <1>3, <1>5, <1>6, <1>7

LEMMA HitSound ==
  ASSUME geometry \in Configs, NEW c \in Level, NEW s, NEW S, NEW I, Sound(c, s, S, I),
         NEW cmd, NEW w \in Ways(c), S.blk[w].valid
  PROVE  LET R == HitSet(c, S, cmd, w)
         IN  /\ Sound(c, s, R, IdealAfter(geometry[c], I, S.blk[w].tag))
             /\ SameTags(c, S.blk, R.blk)
             /\ \A v \in Ways(c) : S.blk[v].dirty => R.blk[v].dirty
             /\ cmd = "Write" => R.blk[w].dirty
<1> DEFINE T == WrittenSet(S, cmd, w)
           R == HitSet(c, S, cmd, w)
           t == S.blk[w].tag
           J == IdealAfter(geometry[c], I, t)
<1>1. SetOK(c, S, {})
  BY DEF Sound
<1>2. /\ SetOK(c, T, {}) /\ T.order = S.order /\ SameTags(c, S.blk, T.blk)
      /\ \A v \in Ways(c) : S.blk[v].dirty => T.blk[v].dirty
      /\ cmd = "Write" => T.blk[w].dirty
  <2>1. CASE cmd = "Write"
    <3> DEFINE D == Marked(S, cmd, w)
    <3>1. /\ SetOK(c, D, {}) /\ D.order = S.order /\ SameTags(c, S.blk, D.blk)
          /\ cmd = "Write" => D.blk[w].dirty
          /\ \A v \in Ways(c) \ {w} : D.blk[v] = S.blk[v]
      BY <1>1, DirtyChanges
    <3>2. T = D
      BY <2>1 DEF WrittenSet, Marked
    <3>4. D.blk[w].dirty
      BY <2>1, <3>1
    <3> HIDE DEF D, T
    <3>3. \A v \in Ways(c) : S.blk[v].dirty => T.blk[v].dirty
      BY <3>1, <3>2, <3>4
    <3> QED BY <3>1, <3>2, <3>3, <3>4
  <2>2. CASE cmd # "Write"
    <3>1. T = S
      BY <2>2 DEF WrittenSet
    <3> HIDE DEF T
    <3> QED BY <1>1, <2>2, <3>1 DEF SameTags
  <2> QED BY <2>1, <2>2
<1>3. PICK p \in Ways(c) : S.order[p] = w
  BY <1>1, OrderIs
<1> HIDE DEF T
<1>4. T.blk[w].valid /\ T.blk[w].tag = t
  BY <1>2 DEF SameTags
<1>5. geometry[c].policy # "Random" => IdealOK(c, T.order, T.blk, I)
  BY <1>1, <1>2, IdealKeeps DEF Sound
<1>6. CASE geometry[c].policy = "LRU"
  <2> DEFINE U == update_way_list(T, T.order[p], "Head")
  <2>1. /\ SetOK(c, U, {}) /\ U.blk = T.blk /\ U.order[1] = T.order[p]
        /\ \A i \in 1 .. geometry[c].assoc - 1 :
             U.order[i + 1] = IF i < p THEN T.order[i] ELSE T.order[i + 1]
    BY <1>2, ToHead
  <2>2. R = U
    BY <1>2, <1>3, <1>6 DEF HitSet, T
  <2> HIDE DEF U, R
  <2>3. IdealOK(c, U.order, T.blk, IdealAfter(geometry[c], I, T.blk[T.order[p]].tag))
    <3>1. IdealOK(c, T.order, T.blk, I) /\ T.blk[T.order[p]].valid /\ geometry[c].policy # "FIFO"
      BY <1>2, <1>3, <1>4, <1>5, <1>6
    <3> QED BY <1>2, <2>1, <3>1, IdealHit
  <2>4. IdealOK(c, R.order, R.blk, J)
    <3>1. T.blk[T.order[p]].tag = t
      BY <1>2, <1>3, <1>4
    <3> QED BY <2>1, <2>2, <2>3, <3>1
  <2>5. R.blk = T.blk /\ SetOK(c, R, {})
    BY <2>1, <2>2
  <2>6. Touched(c, s, R.blk)
    BY <1>2, <2>5 DEF Sound, Touched, SameTags
  <2> QED BY <1>2, <2>4, <2>5, <2>6 DEF R, Sound
<1>7. CASE geometry[c].policy # "LRU"
  <2>1. R = T
    BY <1>7 DEF HitSet, T
  <2>2. ASSUME geometry[c].policy # "Random" PROVE IdealOK(c, T.order, T.blk, J)
    <3>1. geometry[c].policy = "FIFO"
      BY <1>7, <2>2, GeometryIs DEF Policy
    <3>2. IdealOK(c, S.order, S.blk, I)
      BY <2>2 DEF Sound
    <3>3. p <= Len(I) /\ I[p] = t
      BY <1>3, <3>2 DEF IdealOK
    <3>4. p \in DOMAIN I
      <4>1. I \in Seq(Units) /\ p \in Nat /\ p >= 1
        BY <3>2, GeometryIs DEF IdealOK, Ways
      <4> QED BY <3>3, <4>1, LenProperties
    <3>5. J = I
      BY <3>1, <3>3, <3>4 DEF IdealAfter
    <3> QED BY <1>5, <2>2, <3>5
  <2>3. Touched(c, s, T.blk)
    BY <1>2 DEF Sound, Touched, SameTags
  <2> HIDE DEF R, J, t
  <2>4. Sound(c, s, R, J)
    BY <1>2, <2>1, <2>2, <2>3 DEF Sound
  <2> QED BY <1>2, <2>1, <2>4 DEF R, J, t
<1> QED BY <1>6, <1>7

LEMMA EvictIs ==
  ASSUME geometry \in Configs, NEW c \in Level, NEW S, SetOK(c, S, {}), NEW w \in Ways(c),
         geometry[c].policy # "Random" => w = Last(S.order)
  PROVE  LET E == EvictSet(c, S, w)
         IN  /\ SetOK(c, E, {w}) /\ E.blk = S.blk
             /\ geometry[c].policy # "Random" =>
                  /\ w = S.order[geometry[c].assoc] /\ E.order[1] = w
                  /\ \A i \in 1 .. geometry[c].assoc - 1 : E.order[i + 1] = S.order[i]
<1> DEFINE n == geometry[c].assoc
           T == IF geometry[c].policy = "Random" THEN S ELSE update_way_list(S, w, "Head")
           E == unlink_htab_ent(c, T, w)
<1>1. /\ SetOK(c, T, {}) /\ T.blk = S.blk
      /\ geometry[c].policy # "Random" =>
           /\ w = S.order[n] /\ T.order[1] = w
           /\ \A i \in 1 .. n - 1 : T.order[i + 1] = S.order[i]
  <2>1. CASE geometry[c].policy = "Random"
    BY <2>1
  <2>2. CASE geometry[c].policy # "Random"
    <3> DEFINE U == update_way_list(S, S.order[n], "Head")
    <3>1. w = S.order[n] /\ n \in Ways(c)
      BY <2>2, OrderIs
    <3>2. /\ SetOK(c, U, {}) /\ U.blk = S.blk /\ U.order[1] = S.order[n]
          /\ \A i \in 1 .. n - 1 : U.order[i + 1] = IF i < n THEN S.order[i] ELSE S.order[i + 1]
      BY <3>1, ToHead
    <3>3. T = U
      BY <2>2, <3>1
    <3> HIDE DEF T, U, n
    <3>4. n \in Nat
      BY GeometryIs DEF n
    <3>5. \A i \in 1 .. n - 1 : U.order[i + 1] = S.order[i]
      BY <3>2, <3>4
    <3> QED BY <3>1, <3>2, <3>3, <3>5
  <2> QED BY <2>1, <2>2
<1> HIDE DEF T
<1>2. SetOK(c, E, {w}) /\ E.blk = T.blk /\ E.order = T.order
  BY <1>1, UnlinkHtabEnt
<1>3. E = EvictSet(c, S, w)
  BY DEF EvictSet, T
<1> HIDE DEF E
<1> QED BY <1>1, <1>2, <1>3

LEMMA MissSound ==
  ASSUME geometry \in Configs, NEW c \in Level, NEW s, NEW S, NEW I, Sound(c, s, S, I),
         NEW t \in Units, MkBlockAddr(c, t, s) \in Units,
         \A v \in Ways(c) : S.blk[v].valid => S.blk[v].tag # t,
         NEW cmd, NEW w \in Ways(c), geometry[c].policy # "Random" => w = Last(S.order)
  PROVE  LET R == FillSet(c, RetagSet(EvictSet(c, S, w), t, w), cmd, w)
         IN  /\ Sound(c, s, R, IdealAfter(geometry[c], I, t))
             /\ R.blk[w].valid /\ R.blk[w].tag = t
             /\ cmd = "Write" => R.blk[w].dirty
             /\ \A v \in Ways(c) \ {w} : R.blk[v] = S.blk[v]
<1> DEFINE E == EvictSet(c, S, w)
           new == [tag |-> t, valid |-> TRUE, dirty |-> FALSE]
           N == RetagSet(E, t, w)
           M == Marked(N, cmd, w)
           R == link_htab_ent(c, M, w)
           J == IdealAfter(geometry[c], I, t)
<1>1. SetOK(c, S, {}) /\ Touched(c, s, S.blk)
  BY DEF Sound
<1>2. /\ SetOK(c, E, {w}) /\ E.blk = S.blk
      /\ geometry[c].policy # "Random" =>
           /\ w = S.order[geometry[c].assoc] /\ E.order[1] = w
           /\ \A i \in 1 .. geometry[c].assoc - 1 : E.order[i + 1] = S.order[i]
  BY <1>1, EvictIs
<1> HIDE DEF E
<1>3. /\ SetOK(c, N, {w}) /\ N.order = E.order /\ N.blk[w].valid /\ N.blk[w].tag = t
      /\ \A v \in Ways(c) \ {w} : N.blk[v] = S.blk[v]
  <2>1. new \in Block /\ w \in {w} /\ new.tag = t /\ new.valid
    BY DEF Block
  <2>2. N = [E EXCEPT !.blk[w] = new]
    BY DEF RetagSet
  <2> HIDE DEF new, N
  <2>3. new.valid => \A v \in Ways(c) \ {w} : E.blk[v].valid => E.blk[v].tag # new.tag
    BY <1>2, <2>1
  <2>4. SetOK(c, N, {w}) /\ N.order = E.order /\ N.blk = [E.blk EXCEPT ![w] = new]
    BY <1>2, <2>1, <2>2, <2>3, BlockChanges
  <2>5. E.blk \in [Ways(c) -> Block]
    BY <1>2 DEF SetOK
  <2>6. N.blk[w] = new /\ \A v \in Ways(c) \ {w} : N.blk[v] = E.blk[v]
    BY <2>4, <2>5
  <2> QED BY <1>2, <2>1, <2>4, <2>6
<1> HIDE DEF N
<1>4. /\ SetOK(c, M, {w}) /\ M.order = N.order /\ SameTags(c, N.blk, M.blk)
      /\ cmd = "Write" => M.blk[w].dirty
      /\ \A v \in Ways(c) \ {w} : M.blk[v] = N.blk[v]
  BY <1>3, DirtyChanges
<1> HIDE DEF M
<1>5. SetOK(c, R, {}) /\ R.blk = M.blk /\ R.order = M.order
  BY <1>4, LinkHtabEnt
<1>6. R = FillSet(c, RetagSet(EvictSet(c, S, w), t, w), cmd, w)
  BY DEF FillSet, M, N, E
<1> HIDE DEF R
<1>7. /\ R.blk[w].valid /\ R.blk[w].tag = t
      /\ cmd = "Write" => R.blk[w].dirty
      /\ \A v \in Ways(c) \ {w} : R.blk[v] = S.blk[v]
  BY <1>3, <1>4, <1>5 DEF SameTags
<1>8. Touched(c, s, R.blk)
  <2> SUFFICES ASSUME NEW v \in Ways(c), R.blk[v].valid PROVE MkBlockAddr(c, R.blk[v].tag, s) \in Units
    BY DEF Touched
  <2>1. CASE v = w
    BY <1>7, <2>1
  <2>2. CASE v # w
    BY <1>1, <1>7, <2>2 DEF Touched
  <2> QED BY <2>1, <2>2
<1>9. geometry[c].policy # "Random" => IdealOK(c, R.order, R.blk, J)
  <2> SUFFICES ASSUME geometry[c].policy # "Random" PROVE IdealOK(c, R.order, R.blk, J)
    OBVIOUS
  <2>1. IdealOK(c, S.order, S.blk, I)
    BY DEF Sound
  <2>2. /\ R.order[1] = S.order[geometry[c].assoc] /\ R.order[1] = w
        /\ \A i \in 1 .. geometry[c].assoc - 1 : R.order[i + 1] = S.order[i]
    BY <1>2, <1>3, <1>4, <1>5
  <2>3. /\ R.blk[R.order[1]].valid /\ R.blk[R.order[1]].tag = t
        /\ \A v \in Ways(c) \ {R.order[1]} : R.blk[v] = S.blk[v]
    BY <1>7, <2>2
  <2>4. Replaced(c, S, R.order, R.blk, t)
    BY <2>2, <2>3 DEF Replaced
  <2> QED BY <1>1, <2>1, <2>4, IdealMiss
<1> HIDE DEF J
<1>10. Sound(c, s, R, J)
  BY <1>5, <1>8, <1>9 DEF Sound
<1> QED BY <1>6, <1>7, <1>10 DEF J

LEMMA FlushedBlock ==
  ASSUME geometry \in Configs, NEW c \in Level, NEW s, NEW S, SetOK(c, S, {}),
         Touched(c, s, S.blk), NEW w \in Ways(c)
  PROVE  LET R == [S EXCEPT !.blk[w].valid = FALSE]
         IN  /\ SetOK(c, R, {}) /\ Touched(c, s, R.blk) /\ R.order = S.order
             /\ ~R.blk[w].valid
             /\ \A v \in Ways(c) \ {w} : R.blk[v] = S.blk[v]
<1> DEFINE new == [S.blk[w] EXCEPT !.valid = FALSE]
           R == [S EXCEPT !.blk[w] = new]
<1>1. S.blk \in [Ways(c) -> Block] /\ S.blk[w] \in Block
  BY DEF SetOK
<1>2. new \in Block /\ new.tag = S.blk[w].tag /\ ~new.valid
  BY <1>1 DEF Block
<1>3. R = [S EXCEPT !.blk[w].valid = FALSE]
  OBVIOUS
<1> HIDE DEF new
<1>4. SetOK(c, R, {}) /\ R.order = S.order /\ R.blk = [S.blk EXCEPT ![w] = new]
  BY <1>2, BlockChanges
<1> HIDE DEF R
<1>5. R.blk[w] = new /\ \A v \in Ways(c) \ {w} : R.blk[v] = S.blk[v]
  BY <1>1, <1>4
<1>6. Touched(c, s, R.blk)
  BY <1>2, <1>5 DEF Touched
<1> QED BY <1>2, <1>3, <1>4, <1>5, <1>6

LEMMA TailSound ==
  ASSUME geometry \in Configs, NEW c \in Level, NEW s, NEW S, NEW I, Sound(c, s, S, I),
         NEW w \in Ways(c), S.blk[w].valid,
         NEW T, SetOK(c, T, {}), Touched(c, s, T.blk), T.order = S.order, ~T.blk[w].valid,
         \A v \in Ways(c) \ {w} : T.blk[v] = S.blk[v]
  PROVE  LET R == update_way_list(T, w, "Tail")
         IN  /\ R.blk = T.blk
             /\ Sound(c, s, R, Without(I, S.blk[w].tag))
<1> DEFINE R == update_way_list(T, w, "Tail")
           J == Without(I, S.blk[w].tag)
<1>1. SetOK(c, S, {})
  BY DEF Sound
<1>2. PICK p \in Ways(c) : S.order[p] = w
  BY <1>1, OrderIs
<1>3. /\ SetOK(c, R, {}) /\ R.blk = T.blk /\ R.order[geometry[c].assoc] = w
      /\ \A i \in 1 .. geometry[c].assoc - 1 :
           R.order[i] = IF i < p THEN T.order[i] ELSE T.order[i + 1]
  <2>1. T.order[p] = w
    BY <1>2
  <2> QED BY <2>1, ToTail
<1> HIDE DEF R
<1>4. ASSUME geometry[c].policy # "Random" PROVE IdealOK(c, R.order, R.blk, J)
  <2>1. Tailed(c, S, p, R.order, R.blk)
    BY <1>2, <1>3 DEF Tailed
  <2>2. IdealOK(c, S.order, S.blk, I) /\ S.blk[S.order[p]].valid
    BY <1>2, <1>4 DEF Sound
  <2>3. IdealOK(c, R.order, R.blk, Without(I, S.blk[S.order[p]].tag))
    BY <1>1, <2>1, <2>2, IdealFlush
  <2> QED BY <1>2, <2>3
<1> HIDE DEF J
<1>5. Sound(c, s, R, J)
  BY <1>3, <1>4 DEF Sound
<1> QED BY <1>3, <1>5 DEF R, J

-----------------------------------------------------------------------------
(* The hierarchy in the middle of a call.                                  *)

Shaped(H) ==
  /\ H = [sets |-> H.sets, ideal |-> H.ideal, stored |-> H.stored]
  /\ H.sets = [c \in Level |-> [s \in SetIndex(c) |-> H.sets[c][s]]]
  /\ H.ideal = [c \in Level |-> [s \in SetIndex(c) |-> H.ideal[c][s]]]

LevelOK(H, c) == \A s \in SetIndex(c) : Sound(c, s, H.sets[c][s], H.ideal[c][s])

\* The block of unit u is in cache c and dirty.
Carries(b, t) == b.valid /\ b.dirty /\ b.tag = t
Held(H, c, u) ==
  \E w \in Ways(c) : Carries(H.sets[c][CacheSet(c, u)].blk[w], CacheTag(c, u))

LEMMA HierarchyFields ==
  ASSUME NEW a, NEW b, NEW d, NEW H, H = [sets |-> a, ideal |-> b, stored |-> d]
  PROVE  /\ H.sets = a /\ H.ideal = b /\ H.stored = d
         /\ H = [sets |-> H.sets, ideal |-> H.ideal, stored |-> H.stored]
         /\ \A x : [H EXCEPT !.sets = x] = [sets |-> x, ideal |-> b, stored |-> d]
         /\ \A x : [H EXCEPT !.ideal = x] = [sets |-> a, ideal |-> x, stored |-> d]
         /\ \A x : [H EXCEPT !.stored = x] = [sets |-> a, ideal |-> b, stored |-> x]
OBVIOUS

LEMMA PutSetIs ==
  ASSUME NEW H, Shaped(H), NEW c \in Level, NEW s \in SetIndex(c), NEW S
  PROVE  /\ Shaped(PutSet(H, c, s, S)) /\ PutSet(H, c, s, S).sets[c][s] = S
         /\ \A r \in SetIndex(c) \ {s} : PutSet(H, c, s, S).sets[c][r] = H.sets[c][r]
         /\ \A d \in Level \ {c} : PutSet(H, c, s, S).sets[d] = H.sets[d]
         /\ PutSet(H, c, s, S).ideal = H.ideal /\ PutSet(H, c, s, S).stored = H.stored
<1> DEFINE x == [H.sets EXCEPT ![c] = [@ EXCEPT ![s] = S]]
           R == PutSet(H, c, s, S)
<1>1. R = [sets |-> x, ideal |-> H.ideal, stored |-> H.stored]
  <2>1. R = [H EXCEPT !.sets = x]
    BY DEF PutSet
  <2> HIDE DEF x, R
  <2> QED BY <2>1, HierarchyFields DEF Shaped
<1>2. H.sets = [d \in Level |-> [r \in SetIndex(d) |-> H.sets[d][r]]]
  BY DEF Shaped
<1>3. x = [d \in Level |-> x[d]] /\ \A d \in Level \ {c} : x[d] = H.sets[d]
  BY <1>2
<1>4. x[c] = [H.sets[c] EXCEPT ![s] = S]
  BY <1>2
<1>5. H.sets[c] = [r \in SetIndex(c) |-> H.sets[c][r]]
  BY <1>2
<1> HIDE DEF x
<1>6. /\ x[c] = [r \in SetIndex(c) |-> x[c][r]] /\ x[c][s] = S
      /\ \A r \in SetIndex(c) \ {s} : x[c][r] = H.sets[c][r]
  BY <1>4, <1>5
<1>7. \A d \in Level : x[d] = [r \in SetIndex(d) |-> x[d][r]]
  BY <1>2, <1>3, <1>6
<1>8. x = [d \in Level |-> [r \in SetIndex(d) |-> x[d][r]]]
  BY <1>3, <1>7
<1> HIDE DEF R
<1>9. /\ R.sets = x /\ R.ideal = H.ideal /\ R.stored = H.stored
      /\ R = [sets |-> R.sets, ideal |-> R.ideal, stored |-> R.stored]
  BY <1>1
<1>10. Shaped(R)
  BY <1>8, <1>9 DEF Shaped
<1> QED BY <1>3, <1>6, <1>9, <1>10 DEF R

PutIdeal(H, c, s, I) == [H EXCEPT !.ideal[c][s] = I]

LEMMA PutIdealIs ==
  ASSUME NEW H, Shaped(H), NEW c \in Level, NEW s \in SetIndex(c), NEW I
  PROVE  /\ Shaped(PutIdeal(H, c, s, I)) /\ PutIdeal(H, c, s, I).ideal[c][s] = I
         /\ \A r \in SetIndex(c) \ {s} : PutIdeal(H, c, s, I).ideal[c][r] = H.ideal[c][r]
         /\ \A d \in Level \ {c} : PutIdeal(H, c, s, I).ideal[d] = H.ideal[d]
         /\ PutIdeal(H, c, s, I).sets = H.sets /\ PutIdeal(H, c, s, I).stored = H.stored
<1> DEFINE x == [H.ideal EXCEPT ![c] = [@ EXCEPT ![s] = I]]
           R == PutIdeal(H, c, s, I)
<1>1. R = [sets |-> H.sets, ideal |-> x, stored |-> H.stored]
  <2>1. R = [H EXCEPT !.ideal = x]
    BY DEF PutIdeal
  <2> HIDE DEF x, R
  <2> QED BY <2>1, HierarchyFields DEF Shaped
<1>2. H.ideal = [d \in Level |-> [r \in SetIndex(d) |-> H.ideal[d][r]]]
  BY DEF Shaped
<1>3. x = [d \in Level |-> x[d]] /\ \A d \in Level \ {c} : x[d] = H.ideal[d]
  BY <1>2
<1>4. x[c] = [H.ideal[c] EXCEPT ![s] = I]
  BY <1>2
<1>5. H.ideal[c] = [r \in SetIndex(c) |-> H.ideal[c][r]]
  BY <1>2
<1> HIDE DEF x
<1>6. /\ x[c] = [r \in SetIndex(c) |-> x[c][r]] /\ x[c][s] = I
      /\ \A r \in SetIndex(c) \ {s} : x[c][r] = H.ideal[c][r]
  BY <1>4, <1>5
<1>7. \A d \in Level : x[d] = [r \in SetIndex(d) |-> x[d][r]]
  BY <1>2, <1>3, <1>6
<1>8. x = [d \in Level |-> [r \in SetIndex(d) |-> x[d][r]]]
  BY <1>3, <1>7
<1> HIDE DEF R
<1>9. /\ R.sets = H.sets /\ R.ideal = x /\ R.stored = H.stored
      /\ R = [sets |-> R.sets, ideal |-> R.ideal, stored |-> R.stored]
  BY <1>1
<1>10. Shaped(R)
  BY <1>8, <1>9 DEF Shaped
<1> QED BY <1>3, <1>6, <1>9, <1>10 DEF R

LEMMA UsedNowIs ==
  ASSUME geometry \in Configs, NEW H, Shaped(H), NEW c \in Level, NEW a \in Nat
  PROVE  /\ Shaped(UsedNow(H, c, a))
         /\ UsedNow(H, c, a).ideal[c][CacheSet(c, a)]
              = IdealAfter(geometry[c], H.ideal[c][CacheSet(c, a)], CacheTag(c, a))
         /\ \A r \in SetIndex(c) \ {CacheSet(c, a)} :
              UsedNow(H, c, a).ideal[c][r] = H.ideal[c][r]
         /\ \A d \in Level \ {c} : UsedNow(H, c, a).ideal[d] = H.ideal[d]
         /\ UsedNow(H, c, a).sets = H.sets /\ UsedNow(H, c, a).stored = H.stored
<1> DEFINE s == CacheSet(c, a)
           I == IdealAfter(geometry[c], H.ideal[c][s], CacheTag(c, a))
<1>1. s \in SetIndex(c)
  BY AddressIs
<1>2. UsedNow(H, c, a) = PutIdeal(H, c, s, I)
  BY <1>1 DEF UsedNow, PutIdeal, Shaped
<1> HIDE DEF I
<1>3. /\ Shaped(PutIdeal(H, c, s, I)) /\ PutIdeal(H, c, s, I).ideal[c][s] = I
      /\ \A r \in SetIndex(c) \ {s} : PutIdeal(H, c, s, I).ideal[c][r] = H.ideal[c][r]
      /\ \A d \in Level \ {c} : PutIdeal(H, c, s, I).ideal[d] = H.ideal[d]
      /\ PutIdeal(H, c, s, I).sets = H.sets /\ PutIdeal(H, c, s, I).stored = H.stored
  BY <1>1, PutIdealIs
<1> HIDE DEF s
<1> QED BY <1>2, <1>3 DEF I, s

-----------------------------------------------------------------------------
(* One access of one cache, whatever the level below does in between.       *)

CanReplace(H, c, a, w) ==
  /\ w \in Ways(c)
  /\ geometry[c].policy # "Random" => w = Last(H.sets[c][CacheSet(c, a)].order)
\* F is H in the middle of the miss of a, block w having its new tag.
MissUnderWay(H, F, c, a, w) ==
  /\ Shaped(F) /\ F.ideal[c] = H.ideal[c]
  /\ F.sets[c][CacheSet(c, a)]
       = RetagSet(EvictSet(c, H.sets[c][CacheSet(c, a)], w), CacheTag(c, a), w)
  /\ \A r \in SetIndex(c) \ {CacheSet(c, a)} : F.sets[c][r] = H.sets[c][r]
SameBlock(c, a, u) == CacheSet(c, u) = CacheSet(c, a) /\ CacheTag(c, u) = CacheTag(c, a)
VictimHolds(H, c, a, w, u) ==
  /\ CacheSet(c, u) = CacheSet(c, a)
  /\ Carries(H.sets[c][CacheSet(c, a)].blk[w], CacheTag(c, u))

LEMMA TouchedIs ==
  ASSUME geometry \in Configs, NEW c \in Level, NEW a \in Units
  PROVE  /\ a \in Nat /\ CacheTag(c, a) \in Units /\ CacheSet(c, a) \in SetIndex(c)
         /\ BlockAddr(c, a) \in Units
         /\ MkBlockAddr(c, CacheTag(c, a), CacheSet(c, a)) \in Units
<1>1. a \in Nat
  BY UnitsAre
<1>2. /\ CacheTag(c, a) \in 0 .. a /\ CacheSet(c, a) \in SetIndex(c) /\ BlockAddr(c, a) \in 0 .. a
      /\ MkBlockAddr(c, CacheTag(c, a), CacheSet(c, a)) = BlockAddr(c, a)
  BY <1>1, AddressIs
<1>3. \A y \in 0 .. a : y \in Units
  BY UnitsAre
<1> QED BY <1>1, <1>2, <1>3

\* What the access leaves before the policy is asked.
Leaves(H, P, c, a, cmd, w) ==
  LET s == CacheSet(c, a)
      t == CacheTag(c, a)
      G == P.sets[c][s]
  IN  /\ Shaped(P) /\ P.ideal[c] = H.ideal[c]
      /\ \A r \in SetIndex(c) \ {s} : P.sets[c][r] = H.sets[c][r]
      /\ Sound(c, s, G, IdealAfter(geometry[c], H.ideal[c][s], t))
      /\ cmd = "Write" => \E v \in Ways(c) : Carries(G.blk[v], t)
      /\ \A v \in Ways(c) : H.sets[c][s].blk[v].valid /\ H.sets[c][s].blk[v].dirty =>
            \/ Carries(G.blk[v], H.sets[c][s].blk[v].tag)
            \/ ~cache_probe(H, c, a) /\ v = w

LEMMA HitLeaves ==
  ASSUME geometry \in Configs, NEW c \in Level, NEW a \in Units, NEW cmd, NEW w,
         NEW H, Shaped(H), LevelOK(H, c), cache_probe(H, c, a)
  PROVE  /\ Leaves(H, Hit(H, c, cmd, a), c, a, cmd, w)
         /\ Hit(H, c, cmd, a).stored = H.stored
         /\ \A d \in Level \ {c} : /\ Hit(H, c, cmd, a).sets[d] = H.sets[d]
                                   /\ Hit(H, c, cmd, a).ideal[d] = H.ideal[d]
<1> DEFINE s == CacheSet(c, a)
           t == CacheTag(c, a)
           S == H.sets[c][s]
           v == HitBlock(c, S, t)
           G == HitSet(c, S, cmd, v)
           P == PutSet(H, c, s, G)
<1>1. s \in SetIndex(c) /\ t \in Units
  BY TouchedIs
<1>2. Sound(c, s, S, H.ideal[c][s])
  BY <1>1 DEF LevelOK
<1>3. Hit(H, c, cmd, a) = P
  BY DEF Hit, HitSet, WrittenSet
<1>4. HitAt(c, S, t) # 0
  BY DEF cache_probe
<1> HIDE DEF s, t
<1>5. v \in Ways(c) /\ S.blk[v].valid /\ S.blk[v].tag = t
  <2> HIDE DEF S
  <2>1. SetOK(c, S, {})
    BY <1>2 DEF Sound
  <2> QED BY <1>1, <1>4, <2>1, SearchFinds
<1> HIDE DEF v, S
<1>6. /\ Sound(c, s, G, IdealAfter(geometry[c], H.ideal[c][s], S.blk[v].tag))
      /\ SameTags(c, S.blk, G.blk)
      /\ \A z \in Ways(c) : S.blk[z].dirty => G.blk[z].dirty
      /\ cmd = "Write" => G.blk[v].dirty
  BY <1>2, <1>5, HitSound
<1> HIDE DEF G
<1>7. /\ Shaped(P) /\ P.sets[c][s] = G
      /\ \A r \in SetIndex(c) \ {s} : P.sets[c][r] = H.sets[c][r]
      /\ \A d \in Level \ {c} : P.sets[d] = H.sets[d]
      /\ P.ideal = H.ideal /\ P.stored = H.stored
  BY <1>1, PutSetIs
<1> HIDE DEF P
<1>8. cmd = "Write" => \E z \in Ways(c) : Carries(G.blk[z], t)
  BY <1>5, <1>6 DEF SameTags, Carries
<1>9. \A z \in Ways(c) : S.blk[z].valid /\ S.blk[z].dirty => Carries(G.blk[z], S.blk[z].tag)
  BY <1>6 DEF SameTags, Carries
<1>10. Sound(c, s, G, IdealAfter(geometry[c], H.ideal[c][s], t))
  BY <1>5, <1>6
<1>11. Leaves(H, P, c, a, cmd, w)
  BY <1>7, <1>8, <1>9, <1>10 DEF Leaves, s, t, S
<1> QED BY <1>3, <1>7, <1>11

LEMMA MissLeaves ==
  ASSUME geometry \in Configs, NEW c \in Level, NEW a \in Units, NEW cmd, NEW w,
         NEW H, Shaped(H), LevelOK(H, c), ~cache_probe(H, c, a), CanReplace(H, c, a, w),
         NEW F, MissUnderWay(H, F, c, a, w)
  PROVE  LET P == Fill(F, c, cmd, CacheSet(c, a), w)
         IN  /\ Leaves(H, P, c, a, cmd, w)
             /\ P.stored = F.stored
             /\ \A d \in Level \ {c} : P.sets[d] = F.sets[d] /\ P.ideal[d] = F.ideal[d]
<1> DEFINE s == CacheSet(c, a)
           t == CacheTag(c, a)
           S == H.sets[c][s]
           G == FillSet(c, RetagSet(EvictSet(c, S, w), t, w), cmd, w)
           P == PutSet(F, c, s, G)
<1>1. s \in SetIndex(c) /\ t \in Units /\ MkBlockAddr(c, t, s) \in Units
  BY TouchedIs
<1>2. Sound(c, s, S, H.ideal[c][s])
  BY <1>1 DEF LevelOK
<1>3. Fill(F, c, cmd, CacheSet(c, a), w) = P
  BY DEF Fill, FillSet, Marked, MissUnderWay
<1>4. ~(HitAt(c, S, t) # 0)
  BY DEF cache_probe
<1>w. w \in Ways(c) /\ (geometry[c].policy # "Random" => w = Last(S.order))
  BY DEF CanReplace
<1> HIDE DEF s, t
<1>5. \A v \in Ways(c) : S.blk[v].valid => S.blk[v].tag # t
  <2> HIDE DEF S
  <2>1. SetOK(c, S, {})
    BY <1>2 DEF Sound
  <2> QED BY <1>1, <1>4, <2>1, SearchFinds
<1> HIDE DEF S
<1>6. /\ Sound(c, s, G, IdealAfter(geometry[c], H.ideal[c][s], t))
      /\ G.blk[w].valid /\ G.blk[w].tag = t
      /\ cmd = "Write" => G.blk[w].dirty
      /\ \A v \in Ways(c) \ {w} : G.blk[v] = S.blk[v]
  BY <1>1, <1>2, <1>w, <1>5, MissSound
<1> HIDE DEF G
<1>7. /\ Shaped(P) /\ P.sets[c][s] = G
      /\ \A r \in SetIndex(c) \ {s} : P.sets[c][r] = F.sets[c][r]
      /\ \A d \in Level \ {c} : P.sets[d] = F.sets[d]
      /\ P.ideal = F.ideal /\ P.stored = F.stored
  BY <1>1, PutSetIs DEF MissUnderWay
<1> HIDE DEF P
<1>8. cmd = "Write" => \E z \in Ways(c) : Carries(G.blk[z], t)
  BY <1>w, <1>6 DEF Carries
<1>9. \A z \in Ways(c) : S.blk[z].valid /\ S.blk[z].dirty =>
        Carries(G.blk[z], S.blk[z].tag) \/ (~cache_probe(H, c, a) /\ z = w)
  BY <1>6 DEF Carries
<1>10. Leaves(H, P, c, a, cmd, w)
  <2>1. P.ideal[c] = H.ideal[c] /\ \A r \in SetIndex(c) \ {s} : P.sets[c][r] = H.sets[c][r]
    BY <1>7 DEF MissUnderWay, s
  <2> QED BY <1>6, <1>7, <1>8, <1>9, <2>1 DEF Leaves, s, t, S
<1> QED BY <1>3, <1>7, <1>10

LEMMA AccessIs ==
  ASSUME geometry \in Configs, NEW c \in Level, NEW a \in Units, NEW cmd, NEW w,
         NEW H, Shaped(H), LevelOK(H, c), NEW P, Leaves(H, P, c, a, cmd, w)
  PROVE  LET N == UsedNow(P, c, a)
         IN  /\ Shaped(N) /\ LevelOK(N, c) /\ N.stored = P.stored
             /\ \A d \in Level \ {c} : N.sets[d] = P.sets[d] /\ N.ideal[d] = P.ideal[d]
             /\ cmd = "Write" => \A u \in Nat : SameBlock(c, a, u) => Held(N, c, u)
             /\ \A u \in Nat : Held(H, c, u) =>
                  \/ Held(N, c, u)
                  \/ ~cache_probe(H, c, a) /\ VictimHolds(H, c, a, w, u)
<1> DEFINE s == CacheSet(c, a)
           t == CacheTag(c, a)
           S == H.sets[c][s]
           G == P.sets[c][s]
           J == IdealAfter(geometry[c], H.ideal[c][s], t)
           N == UsedNow(P, c, a)
<1>1. /\ Shaped(P) /\ P.ideal[c] = H.ideal[c]
      /\ \A r \in SetIndex(c) \ {s} : P.sets[c][r] = H.sets[c][r]
      /\ Sound(c, s, G, J)
      /\ cmd = "Write" => \E v \in Ways(c) : Carries(G.blk[v], t)
      /\ \A v \in Ways(c) : S.blk[v].valid /\ S.blk[v].dirty =>
           Carries(G.blk[v], S.blk[v].tag) \/ (~cache_probe(H, c, a) /\ v = w)
  BY DEF Leaves
<1>2. a \in Nat /\ s \in SetIndex(c)
  BY TouchedIs
<1>3. /\ Shaped(N) /\ N.ideal[c][s] = J
      /\ \A r \in SetIndex(c) \ {s} : N.ideal[c][r] = H.ideal[c][r]
      /\ \A d \in Level \ {c} : N.ideal[d] = P.ideal[d]
      /\ N.sets = P.sets /\ N.stored = P.stored
  <2>1. /\ Shaped(N)
        /\ N.ideal[c][s] = IdealAfter(geometry[c], P.ideal[c][s], t)
        /\ \A r \in SetIndex(c) \ {s} : N.ideal[c][r] = P.ideal[c][r]
        /\ \A d \in Level \ {c} : N.ideal[d] = P.ideal[d]
        /\ N.sets = P.sets /\ N.stored = P.stored
    BY <1>1, <1>2, UsedNowIs
  <2> HIDE DEF N, s, t
  <2> QED BY <1>1, <2>1
<1> HIDE DEF N, J
<1>4. LevelOK(N, c)
  <2> SUFFICES ASSUME NEW r \in SetIndex(c) PROVE Sound(c, r, N.sets[c][r], N.ideal[c][r])
    BY DEF LevelOK
  <2>1. CASE r = s
    BY <1>1, <1>3, <2>1
  <2>2. CASE r # s
    <3>1. Sound(c, r, H.sets[c][r], H.ideal[c][r])
      BY DEF LevelOK
    <3> HIDE DEF s
    <3>2. N.sets[c][r] = H.sets[c][r] /\ N.ideal[c][r] = H.ideal[c][r]
      BY <1>1, <1>3, <2>2
    <3> QED BY <3>1, <3>2
  <2> QED BY <2>1, <2>2
<1>5. N.sets[c][s] = G
  BY <1>3
<1>6. ASSUME cmd = "Write", NEW u \in Nat, SameBlock(c, a, u) PROVE Held(N, c, u)
  <2>1. PICK v \in Ways(c) : Carries(G.blk[v], t)
    BY <1>1, <1>6
  <2>2. CacheSet(c, u) = s /\ CacheTag(c, u) = t
    BY <1>6 DEF SameBlock
  <2> HIDE DEF s, t, G
  <2>3. Carries(N.sets[c][CacheSet(c, u)].blk[v], CacheTag(c, u))
    BY <1>5, <2>1, <2>2
  <2> QED BY <2>3 DEF Held
<1>7. ASSUME NEW u \in Nat, Held(H, c, u)
      PROVE  Held(N, c, u) \/ (~cache_probe(H, c, a) /\ VictimHolds(H, c, a, w, u))
  <2> DEFINE r == CacheSet(c, u)
             x == CacheTag(c, u)
  <2>1. r \in SetIndex(c)
    BY AddressIs
  <2>2. PICK v \in Ways(c) : Carries(H.sets[c][r].blk[v], x)
    BY <1>7 DEF Held
  <2>3. CASE r # s
    <3>1. N.sets[c][r] = H.sets[c][r]
      <4> HIDE DEF r, s
      <4> QED BY <1>1, <1>3, <2>1, <2>3
    <3>2. Carries(N.sets[c][r].blk[v], x)
      BY <2>2, <3>1
    <3> QED BY <3>2 DEF Held
  <2>4. CASE r = s
    <3>1. Carries(S.blk[v], x)
      BY <2>2, <2>4
    <3>2. S.blk[v].valid /\ S.blk[v].dirty /\ S.blk[v].tag = x
      BY <3>1 DEF Carries
    <3>3. CASE Carries(G.blk[v], S.blk[v].tag)
      <4> HIDE DEF S, G, r, x
      <4>1. Carries(N.sets[c][r].blk[v], x)
        BY <1>5, <2>4, <3>2, <3>3
      <4> QED BY <4>1 DEF Held, r, x
    <3>4. CASE ~cache_probe(H, c, a) /\ v = w
      BY <2>4, <3>1, <3>4 DEF VictimHolds
    <3> QED BY <1>1, <3>2, <3>3, <3>4
  <2> QED BY <2>3, <2>4
<1> QED BY <1>1, <1>3, <1>4, <1>6, <1>7 DEF N

-----------------------------------------------------------------------------
(* The second level.                                                       *)

LEMMA StoreIs ==
  ASSUME NEW H, Shaped(H), NEW b
  PROVE  LET N == dl2_access_fn(H, "Write", b)
         IN  /\ Shaped(N) /\ N.sets = H.sets /\ N.ideal = H.ideal
             /\ N.stored = H.stored \cup BlockUnits("ul2", b)
<1> DEFINE x == H.stored \cup BlockUnits("ul2", b)
           N == dl2_access_fn(H, "Write", b)
<1>1. N = [sets |-> H.sets, ideal |-> H.ideal, stored |-> x]
  <2>1. N = [H EXCEPT !.stored = x]
    BY DEF dl2_access_fn
  <2> HIDE DEF x, N
  <2> QED BY <2>1, HierarchyFields DEF Shaped
<1> HIDE DEF x, N
<1>2. /\ N.sets = H.sets /\ N.ideal = H.ideal /\ N.stored = x
      /\ N = [sets |-> N.sets, ideal |-> N.ideal, stored |-> N.stored]
  BY <1>1
<1>3. Shaped(N)
  BY <1>2 DEF Shaped
<1> QED BY <1>2, <1>3 DEF N, x

\* The write of u has left the first level: it is in memory or in the second level.
Below(H, u) == u \in H.stored \/ Held(H, "ul2", u)
SecondKeeps(H, N) ==
  /\ Shaped(N) /\ LevelOK(N, "ul2")
  /\ \A d \in Level \ {"ul2"} : N.sets[d] = H.sets[d] /\ N.ideal[d] = H.ideal[d]
  /\ \A u \in Nat : Below(H, u) => Below(N, u)

LEMMA VictimIs ==
  ASSUME geometry \in Configs, NEW c \in Level, NEW a \in Units, NEW H, LevelOK(H, c),
         NEW draw \in Draws(c)
  PROVE  CanReplace(H, c, a, Victim(H, c, CacheSet(c, a), draw))
<1> DEFINE s == CacheSet(c, a)
           S == H.sets[c][s]
<1>1. SetOK(c, S, {})
  BY TouchedIs DEF LevelOK, Sound
<1>2. Last(S.order) \in Ways(c)
  <2> HIDE DEF S
  <2> QED BY <1>1, OrderIs
<1>3. CASE geometry[c].policy = "Random"
  BY <1>3 DEF CanReplace, Victim, Draws
<1>4. CASE geometry[c].policy # "Random"
  BY <1>2, <1>4 DEF CanReplace, Victim
<1> QED BY <1>3, <1>4

LEMMA SecondLevelIs ==
  ASSUME geometry \in Configs, NEW a \in Units, NEW cmd, NEW H, Shaped(H), LevelOK(H, "ul2"),
         NEW draw \in Draws("ul2")
  PROVE  LET N == SecondLevel(H, cmd, a, draw)
         IN  /\ SecondKeeps(H, N)
             /\ cmd = "Write" => \A u \in Nat : SameBlock("ul2", a, u) => Held(N, "ul2", u)
<1> DEFINE c == "ul2"
           s == CacheSet(c, a)
           w == Victim(H, c, s, draw)
           E == EvictSet(c, H.sets[c][s], w)
           out == PutSet(H, c, s, E)
           b == MkBlockAddr(c, H.sets[c][s].blk[w].tag, s)
           dirty == Dirty(H, c, s, w)
           back == IF dirty THEN dl2_access_fn(out, "Write", b) ELSE out
           S == RetagSet(E, CacheTag(c, a), w)
           F == PutSet(back, c, s, RetagSet(back.sets[c][s], CacheTag(c, a), w))
           P == IF cache_probe(H, c, a) THEN Hit(H, c, cmd, a) ELSE Fill(F, c, cmd, s, w)
           N == UsedNow(P, c, a)
<1>0. SecondLevel(H, cmd, a, draw) = N
  <2> DEFINE X == dl2_access_fn(F, "Read", BlockAddr(c, a))
  <2>1. X = F
    BY DEF dl2_access_fn
  <2>2. SecondLevel(H, cmd, a, draw)
          = UsedNow(IF cache_probe(H, c, a) THEN Hit(H, c, cmd, a) ELSE Fill(X, c, cmd, s, w), c, a)
    BY DEF SecondLevel, Evict, EvictSet, Retag, RetagSet
  <2> HIDE DEF X, F
  <2> QED BY <2>1, <2>2
<1>1. c \in Level /\ a \in Nat /\ s \in SetIndex(c) /\ CanReplace(H, c, a, w)
  <2>1. c \in Level
    BY DEF Level
  <2> HIDE DEF c
  <2> QED BY <2>1, TouchedIs, VictimIs DEF c
<1>2. /\ Shaped(out) /\ out.sets[c][s] = E
      /\ \A r \in SetIndex(c) \ {s} : out.sets[c][r] = H.sets[c][r]
      /\ \A d \in Level \ {c} : out.sets[d] = H.sets[d]
      /\ out.ideal = H.ideal /\ out.stored = H.stored
  <2> HIDE DEF c, s, E
  <2> QED BY <1>1, PutSetIs
<1> HIDE DEF out, E, w, s, c, b, dirty
<1>3. /\ Shaped(back) /\ back.sets = out.sets /\ back.ideal = out.ideal
      /\ back.stored = out.stored \cup (IF dirty THEN BlockUnits("ul2", b) ELSE {})
  <2>1. CASE dirty
    BY <1>2, <2>1, StoreIs
  <2>2. CASE ~dirty
    BY <1>2, <2>2
  <2> QED BY <2>1, <2>2
<1> HIDE DEF back
<1>4. /\ Shaped(F) /\ F.sets[c][s] = S
      /\ \A r \in SetIndex(c) \ {s} : F.sets[c][r] = H.sets[c][r]
      /\ \A d \in Level \ {c} : F.sets[d] = H.sets[d]
      /\ F.ideal = H.ideal /\ F.stored = back.stored
  <2> DEFINE T == RetagSet(back.sets[c][s], CacheTag(c, a), w)
  <2>1. T = S
    BY <1>2, <1>3
  <2> HIDE DEF T
  <2>2. /\ Shaped(F) /\ F.sets[c][s] = T
        /\ \A r \in SetIndex(c) \ {s} : F.sets[c][r] = back.sets[c][r]
        /\ \A d \in Level \ {c} : F.sets[d] = back.sets[d]
        /\ F.ideal = back.ideal /\ F.stored = back.stored
    BY <1>1, <1>3, PutSetIs DEF T
  <2> HIDE DEF F, S
  <2> QED BY <1>2, <1>3, <2>1, <2>2
<1> HIDE DEF F
<1>5. MissUnderWay(H, F, c, a, w)
  BY <1>4 DEF MissUnderWay, S, E, s
<1> HIDE DEF S
<1>6. LevelOK(H, c)
  BY DEF c
<1>7. /\ Leaves(H, P, c, a, cmd, w)
      /\ \A d \in Level \ {c} : P.sets[d] = H.sets[d] /\ P.ideal[d] = H.ideal[d]
      /\ P.stored = IF cache_probe(H, c, a) THEN H.stored ELSE F.stored
  <2>1. CASE cache_probe(H, c, a)
    BY <1>1, <1>6, <2>1, HitLeaves
  <2>2. CASE ~cache_probe(H, c, a)
    <3> DEFINE Q == Fill(F, c, cmd, CacheSet(c, a), w)
    <3>1. /\ Leaves(H, Q, c, a, cmd, w) /\ Q.stored = F.stored
          /\ \A d \in Level \ {c} : Q.sets[d] = F.sets[d] /\ Q.ideal[d] = F.ideal[d]
      BY <1>1, <1>5, <1>6, <2>2, MissLeaves
    <3>2. P = Q
      BY <2>2 DEF s
    <3> HIDE DEF P, Q
    <3> QED BY <1>4, <2>2, <3>1, <3>2
  <2> QED BY <2>1, <2>2
<1> HIDE DEF P
<1>8. /\ Shaped(N) /\ LevelOK(N, c) /\ N.stored = P.stored
      /\ \A d \in Level \ {c} : N.sets[d] = P.sets[d] /\ N.ideal[d] = P.ideal[d]
      /\ cmd = "Write" => \A u \in Nat : SameBlock(c, a, u) => Held(N, c, u)
      /\ \A u \in Nat : Held(H, c, u) =>
           Held(N, c, u) \/ (~cache_probe(H, c, a) /\ VictimHolds(H, c, a, w, u))
  BY <1>1, <1>6, <1>7, AccessIs
<1> HIDE DEF N
<1>9. H.stored \subseteq N.stored /\ (~cache_probe(H, c, a) /\ dirty => BlockUnits("ul2", b) \subseteq N.stored)
  BY <1>2, <1>3, <1>4, <1>7, <1>8
<1>10. ASSUME NEW u \in Nat, Below(H, u) PROVE Below(N, u)
  <2>1. CASE u \in H.stored
    BY <1>9, <2>1 DEF Below
  <2>2. CASE Held(N, c, u)
    BY <2>2 DEF Below, c
  <2>3. CASE ~cache_probe(H, c, a) /\ VictimHolds(H, c, a, w, u)
    <3>1. /\ CacheSet(c, u) = s
          /\ Carries(H.sets[c][s].blk[w], CacheTag(c, u))
      BY <2>3 DEF VictimHolds, s
    <3>2. dirty /\ b = MkBlockAddr(c, CacheTag(c, u), CacheSet(c, u))
      BY <3>1 DEF Carries, dirty, Dirty, b
    <3>3. u \in BlockUnits(c, b)
      BY <1>1, <3>2, AddressIs
    <3> QED BY <1>9, <2>3, <3>2, <3>3 DEF Below, c
  <2>4. Held(H, c, u) \/ u \in H.stored
    BY <1>10 DEF Below, c
  <2> QED BY <1>8, <2>1, <2>2, <2>3, <2>4
<1>11. SecondKeeps(H, N)
  <2>1. \A d \in Level \ {c} : N.sets[d] = H.sets[d] /\ N.ideal[d] = H.ideal[d]
    BY <1>7, <1>8
  <2> QED BY <1>8, <1>10, <2>1 DEF SecondKeeps, c
<1> QED BY <1>0, <1>8, <1>11 DEF c

-----------------------------------------------------------------------------
(* An access of the first level.                                           *)

AllOK(H) == Shaped(H) /\ \A c \in Level : LevelOK(H, c)
Kept(H, u) == Below(H, u) \/ Held(H, "dl1", u)

LEMMA LevelFrame ==
  ASSUME NEW X, NEW Y, NEW d, X.sets[d] = Y.sets[d]
  PROVE  /\ X.ideal[d] = Y.ideal[d] /\ LevelOK(Y, d) => LevelOK(X, d)
         /\ \A u : Held(Y, d, u) => Held(X, d, u)
BY DEF LevelOK, Held

LEMMA BelowFrame ==
  ASSUME NEW X, NEW Y, X.sets["ul2"] = Y.sets["ul2"], X.stored = Y.stored
  PROVE  \A u : Below(Y, u) => Below(X, u)
BY DEF Below, Held

LEMMA CacheAccessIs ==
  ASSUME geometry \in Configs, NEW c \in {"il1", "dl1"}, NEW a \in Units, NEW cmd,
         NEW H, AllOK(H), NEW draw, draw.own \in Draws(c), draw.write \in Draws("ul2"),
         draw.read \in Draws("ul2")
  PROVE  LET N == cache_access(H, c, cmd, a, draw)
         IN  /\ AllOK(N)
             /\ \A u \in Nat : Kept(H, u) => Kept(N, u)
             /\ cmd = "Write" => Held(N, c, a)
<1> DEFINE s == CacheSet(c, a)
           w == Victim(H, c, s, draw.own)
           E == EvictSet(c, H.sets[c][s], w)
           out == PutSet(H, c, s, E)
           b == MkBlockAddr(c, H.sets[c][s].blk[w].tag, s)
           dirty == Dirty(H, c, s, w)
           back == IF dirty THEN SecondLevel(out, "Write", b, draw.write) ELSE out
           S == RetagSet(E, CacheTag(c, a), w)
           T == PutSet(back, c, s, RetagSet(back.sets[c][s], CacheTag(c, a), w))
           F == SecondLevel(T, "Read", BlockAddr(c, a), draw.read)
           P == IF cache_probe(H, c, a) THEN Hit(H, c, cmd, a) ELSE Fill(F, c, cmd, s, w)
           N == UsedNow(P, c, a)
<1>0. cache_access(H, c, cmd, a, draw) = N
  BY DEF cache_access, Evict, EvictSet, Retag, RetagSet
<1>1. /\ c \in Level /\ a \in Nat /\ s \in SetIndex(c) /\ CanReplace(H, c, a, w)
      /\ BlockAddr(c, a) \in Units /\ "ul2" \in Level \ {c} /\ Level \ {c, "ul2"} \subseteq Level \ {c}
      /\ Shaped(H) /\ \A d \in Level : LevelOK(H, d)
  <2>1. c \in Level /\ "ul2" \in Level \ {c}
    BY DEF Level
  <2>2. Shaped(H) /\ \A d \in Level : LevelOK(H, d)
    BY DEF AllOK
  <2>3. a \in Nat /\ s \in SetIndex(c) /\ BlockAddr(c, a) \in Units
    BY <2>1, TouchedIs
  <2>4. CanReplace(H, c, a, w)
    BY <2>1, <2>2, VictimIs
  <2> QED BY <2>1, <2>2, <2>3, <2>4
<1>2. /\ Shaped(out) /\ out.sets[c][s] = E
      /\ \A r \in SetIndex(c) \ {s} : out.sets[c][r] = H.sets[c][r]
      /\ \A d \in Level \ {c} : out.sets[d] = H.sets[d]
      /\ out.ideal = H.ideal /\ out.stored = H.stored
  <2> HIDE DEF s, E
  <2> QED BY <1>1, PutSetIs
<1>b. ASSUME dirty PROVE b \in Units
  <2>1. Sound(c, s, H.sets[c][s], H.ideal[c][s])
    BY <1>1 DEF LevelOK
  <2>2. w \in Ways(c)
    BY <1>1 DEF CanReplace
  <2> QED BY <1>b, <2>1, <2>2 DEF Sound, Touched, Dirty
<1> HIDE DEF out, E, w, s, b, dirty
<1>3. LevelOK(out, "ul2")
  BY <1>1, <1>2, LevelFrame
<1>4. SecondKeeps(out, back) /\ (dirty => \A u \in Nat : SameBlock("ul2", b, u) => Held(back, "ul2", u))
  <2>1. CASE dirty
    BY <1>2, <1>3, <1>b, <2>1, SecondLevelIs
  <2>2. CASE ~dirty
    <3>1. back = out
      BY <2>2
    <3> QED BY <1>2, <1>3, <2>2, <3>1 DEF SecondKeeps
  <2> QED BY <2>1, <2>2
<1> HIDE DEF back
<1>5. /\ Shaped(T) /\ T.sets[c][s] = S
      /\ \A r \in SetIndex(c) \ {s} : T.sets[c][r] = H.sets[c][r]
      /\ \A d \in Level \ {c} : T.sets[d] = back.sets[d]
      /\ T.ideal = back.ideal /\ T.stored = back.stored
  <2> DEFINE R == RetagSet(back.sets[c][s], CacheTag(c, a), w)
  <2>0. back.sets[c] = out.sets[c]
    BY <1>1, <1>4 DEF SecondKeeps
  <2>1. R = S
    BY <1>2, <2>0
  <2> HIDE DEF R
  <2>2. /\ Shaped(T) /\ T.sets[c][s] = R
        /\ \A r \in SetIndex(c) \ {s} : T.sets[c][r] = back.sets[c][r]
        /\ \A d \in Level \ {c} : T.sets[d] = back.sets[d]
        /\ T.ideal = back.ideal /\ T.stored = back.stored
    BY <1>1, <1>4, PutSetIs DEF R, SecondKeeps
  <2> HIDE DEF T, S
  <2> QED BY <1>2, <2>0, <2>1, <2>2
<1> HIDE DEF T
<1>6. SecondKeeps(T, F)
  <2>1. T.ideal["ul2"] = back.ideal["ul2"] /\ T.sets["ul2"] = back.sets["ul2"]
    BY <1>1, <1>5
  <2>2. LevelOK(T, "ul2")
    BY <1>4, <2>1, LevelFrame DEF SecondKeeps
  <2> QED BY <1>1, <1>5, <2>2, SecondLevelIs
<1> HIDE DEF F, S
<1>7. /\ Shaped(F) /\ F.sets[c] = T.sets[c] /\ LevelOK(F, "ul2")
      /\ \A d \in Level \ {"ul2"} : F.ideal[d] = H.ideal[d]
      /\ \A d \in Level \ {c, "ul2"} : F.sets[d] = H.sets[d]
  <2>1. \A d \in Level \ {"ul2"} : F.sets[d] = T.sets[d] /\ F.ideal[d] = T.ideal[d]
    BY <1>6 DEF SecondKeeps
  <2>2. \A d \in Level \ {"ul2"} : back.sets[d] = out.sets[d] /\ back.ideal[d] = out.ideal[d]
    BY <1>4 DEF SecondKeeps
  <2>3. c \in Level \ {"ul2"} /\ Shaped(F) /\ LevelOK(F, "ul2")
    BY <1>1, <1>6 DEF SecondKeeps
  <2>4. \A d \in Level \ {"ul2"} : F.ideal[d] = H.ideal[d]
    BY <1>2, <1>5, <2>1, <2>2
  <2>5. ASSUME NEW d \in Level \ {c, "ul2"} PROVE F.sets[d] = H.sets[d]
    <3>1. d \in Level \ {c} /\ d \in Level \ {"ul2"}
      OBVIOUS
    <3> QED BY <1>2, <1>5, <2>1, <2>2, <3>1
  <2> QED BY <2>1, <2>3, <2>4, <2>5
<1>8. MissUnderWay(H, F, c, a, w)
  <2>1. F.ideal[c] = H.ideal[c]
    BY <1>1, <1>7
  <2> QED BY <1>5, <1>7, <2>1 DEF MissUnderWay, S, E, s
<1>9. /\ Leaves(H, P, c, a, cmd, w)
      /\ cache_probe(H, c, a) =>
           P.stored = H.stored /\ \A d \in Level \ {c} : P.sets[d] = H.sets[d] /\ P.ideal[d] = H.ideal[d]
      /\ ~cache_probe(H, c, a) =>
           P.stored = F.stored /\ \A d \in Level \ {c} : P.sets[d] = F.sets[d] /\ P.ideal[d] = F.ideal[d]
  <2>1. CASE cache_probe(H, c, a)
    BY <1>1, <2>1, HitLeaves
  <2>2. CASE ~cache_probe(H, c, a)
    <3> DEFINE Q == Fill(F, c, cmd, CacheSet(c, a), w)
    <3>1. /\ Leaves(H, Q, c, a, cmd, w) /\ Q.stored = F.stored
          /\ \A d \in Level \ {c} : Q.sets[d] = F.sets[d] /\ Q.ideal[d] = F.ideal[d]
      BY <1>1, <1>8, <2>2, MissLeaves
    <3>2. P = Q
      BY <2>2 DEF s
    <3> HIDE DEF P, Q
    <3> QED BY <2>2, <3>1, <3>2
  <2> QED BY <2>1, <2>2
<1> HIDE DEF P
<1>10. /\ Shaped(N) /\ LevelOK(N, c) /\ N.stored = P.stored
       /\ \A d \in Level \ {c} : N.sets[d] = P.sets[d] /\ N.ideal[d] = P.ideal[d]
       /\ cmd = "Write" => \A u \in Nat : SameBlock(c, a, u) => Held(N, c, u)
       /\ \A u \in Nat : Held(H, c, u) =>
            Held(N, c, u) \/ (~cache_probe(H, c, a) /\ VictimHolds(H, c, a, w, u))
  BY <1>1, <1>9, AccessIs
<1> HIDE DEF N
<1>11. AllOK(N)
  <2>1. ASSUME NEW d \in Level \ {c} PROVE LevelOK(N, d)
    <3>1. CASE cache_probe(H, c, a)
      <4>1. N.sets[d] = H.sets[d] /\ N.ideal[d] = H.ideal[d]
        BY <1>9, <1>10, <3>1
      <4> QED BY <1>1, <4>1, LevelFrame
    <3>2. CASE ~cache_probe(H, c, a) /\ d = "ul2"
      <4>1. N.sets[d] = F.sets[d] /\ N.ideal[d] = F.ideal[d]
        BY <1>9, <1>10, <3>2
      <4> QED BY <1>7, <3>2, <4>1, LevelFrame
    <3>3. CASE ~cache_probe(H, c, a) /\ d # "ul2"
      <4>1. N.sets[d] = H.sets[d] /\ N.ideal[d] = H.ideal[d]
        BY <1>7, <1>9, <1>10, <3>3
      <4> QED BY <1>1, <4>1, LevelFrame
    <3> QED BY <3>1, <3>2, <3>3
  <2> QED BY <1>10, <2>1 DEF AllOK
<1>12. ASSUME ~cache_probe(H, c, a), NEW u \in Nat, Below(back, u) PROVE Below(N, u)
  <2>1. Below(T, u)
    BY <1>1, <1>5, <1>12, BelowFrame
  <2>2. Below(F, u)
    BY <1>6, <2>1 DEF SecondKeeps
  <2>3. N.sets["ul2"] = F.sets["ul2"] /\ N.stored = F.stored
    BY <1>1, <1>9, <1>10, <1>12
  <2> QED BY <2>2, <2>3, BelowFrame
<1>13. ASSUME NEW u \in Nat, Below(H, u) PROVE Below(N, u)
  <2>1. CASE cache_probe(H, c, a)
    <3>1. N.sets["ul2"] = H.sets["ul2"] /\ N.stored = H.stored
      BY <1>1, <1>9, <1>10, <2>1
    <3> QED BY <1>13, <3>1, BelowFrame
  <2>2. CASE ~cache_probe(H, c, a)
    <3>1. Below(out, u)
      BY <1>1, <1>2, <1>13, BelowFrame
    <3>2. Below(back, u)
      BY <1>4, <3>1 DEF SecondKeeps
    <3> QED BY <1>12, <2>2, <3>2
  <2> QED BY <2>1, <2>2
<1>14. ASSUME ~cache_probe(H, c, a), NEW u \in Nat, VictimHolds(H, c, a, w, u) PROVE Below(N, u)
  <2>1. /\ CacheSet(c, u) = s
        /\ Carries(H.sets[c][s].blk[w], CacheTag(c, u))
    BY <1>14 DEF VictimHolds, s
  <2>2. dirty /\ b = MkBlockAddr(c, CacheTag(c, u), CacheSet(c, u))
    BY <2>1 DEF Carries, dirty, Dirty, b
  <2>3. b = BlockAddr(c, u)
    BY <1>1, <2>2, AddressIs
  <2>4. SameBlock("ul2", b, u)
    <3>1. /\ CacheTag("ul2", BlockAddr(c, u)) = CacheTag("ul2", u)
          /\ CacheSet("ul2", BlockAddr(c, u)) = CacheSet("ul2", u)
      BY <1>1, WithinSecondBlock
    <3> QED BY <2>3, <3>1 DEF SameBlock
  <2>5. Below(back, u)
    BY <1>4, <2>2, <2>4 DEF Below
  <2> QED BY <1>12, <1>14, <2>5
<1>15. ASSUME NEW u \in Nat, Kept(H, u) PROVE Kept(N, u)
  <2>1. CASE Below(H, u)
    BY <1>13, <2>1 DEF Kept
  <2>2. CASE Held(H, "dl1", u) /\ c = "dl1"
    BY <1>10, <1>14, <2>2 DEF Kept
  <2>3. CASE Held(H, "dl1", u) /\ c = "il1"
    <3>1. "dl1" \in Level \ {c, "ul2"} /\ "dl1" \in Level \ {c}
      BY <2>3 DEF Level
    <3>2. N.sets["dl1"] = H.sets["dl1"]
      BY <1>7, <1>9, <1>10, <3>1
    <3> QED BY <2>3, <3>2, LevelFrame DEF Kept
  <2> QED BY <1>15, <2>1, <2>2, <2>3 DEF Kept
<1>16. cmd = "Write" => Held(N, c, a)
  BY <1>1, <1>10 DEF SameBlock
<1> QED BY <1>0, <1>11, <1>15, <1>16

-----------------------------------------------------------------------------
(* Flushes.                                                                *)

\* N is H once block w of set s of cache c has been flushed.
FlushedTo(H, N, c, s, w) ==
  /\ Shaped(N) /\ N.ideal[c] = H.ideal[c]
  /\ SetOK(c, N.sets[c][s], {}) /\ Touched(c, s, N.sets[c][s].blk)
  /\ N.sets[c][s].order = H.sets[c][s].order /\ ~N.sets[c][s].blk[w].valid
  /\ \A v \in Ways(c) \ {w} : N.sets[c][s].blk[v] = H.sets[c][s].blk[v]
  /\ \A r \in SetIndex(c) \ {s} : N.sets[c][r] = H.sets[c][r]
  /\ \A d \in Level \ {c, "ul2"} : N.sets[d] = H.sets[d] /\ N.ideal[d] = H.ideal[d]
  /\ c # "ul2" => LevelOK(N, "ul2")

LEMMA FlushBlockIs ==
  ASSUME geometry \in Configs, NEW c \in {"dl1", "ul2"}, NEW H, Shaped(H),
         NEW s \in SetIndex(c), SetOK(c, H.sets[c][s], {}), Touched(c, s, H.sets[c][s].blk),
         NEW w \in Ways(c), c # "ul2" => LevelOK(H, "ul2"),
         NEW draw, c # "ul2" => draw \in Draws("ul2")
  PROVE  /\ FlushedTo(H, FlushBlock(H, c, s, w, draw), c, s, w)
         /\ \A u \in Nat : Kept(H, u) => Kept(FlushBlock(H, c, s, w, draw), u)
<1> DEFINE S == H.sets[c][s]
           R == [S EXCEPT !.blk[w].valid = FALSE]
           X == PutSet(H, c, s, R)
           b == MkBlockAddr(c, S.blk[w].tag, s)
           N == FlushBlock(H, c, s, w, draw)
<1>0. c \in Level /\ c \in {"dl1", "ul2"}
  BY DEF Level
<1>1. N = CASE ~S.blk[w].valid -> H
            [] S.blk[w].valid /\ ~S.blk[w].dirty -> X
            [] S.blk[w].valid /\ S.blk[w].dirty /\ c = "ul2" -> dl2_access_fn(X, "Write", b)
            [] S.blk[w].valid /\ S.blk[w].dirty /\ c # "ul2" -> SecondLevel(X, "Write", b, draw)
  BY Zenon DEF FlushBlock
<1> HIDE DEF N
<1>2. /\ SetOK(c, R, {}) /\ Touched(c, s, R.blk) /\ R.order = S.order /\ ~R.blk[w].valid
      /\ \A v \in Ways(c) \ {w} : R.blk[v] = S.blk[v]
  <2>1. SetOK(c, S, {}) /\ Touched(c, s, S.blk)
    OBVIOUS
  <2> HIDE DEF S
  <2> QED BY <1>0, <2>1, FlushedBlock
<1> HIDE DEF R
<1>3. /\ Shaped(X) /\ X.sets[c][s] = R
      /\ \A r \in SetIndex(c) \ {s} : X.sets[c][r] = H.sets[c][r]
      /\ \A d \in Level \ {c} : X.sets[d] = H.sets[d]
      /\ X.ideal = H.ideal /\ X.stored = H.stored
  BY <1>0, PutSetIs
<1> HIDE DEF X
<1>4. FlushedTo(H, X, c, s, w)
  <2>1. \A d \in Level \ {c, "ul2"} : X.sets[d] = H.sets[d] /\ X.ideal[d] = H.ideal[d]
    BY <1>3
  <2>2. ASSUME c # "ul2" PROVE LevelOK(X, "ul2")
    <3>1. "ul2" \in Level \ {c}
      BY <2>2 DEF Level
    <3>2. X.sets["ul2"] = H.sets["ul2"] /\ X.ideal["ul2"] = H.ideal["ul2"]
      BY <1>3, <3>1
    <3> QED BY <2>2, <3>2, LevelFrame
  <2> QED BY <1>2, <1>3, <2>1, <2>2 DEF FlushedTo, S
<1>5. ASSUME NEW u \in Nat, Held(H, c, u)
      PROVE  \/ Held(X, c, u)
             \/ CacheSet(c, u) = s /\ Carries(S.blk[w], CacheTag(c, u))
  <2> DEFINE r == CacheSet(c, u)
             x == CacheTag(c, u)
  <2>1. r \in SetIndex(c)
    BY <1>0, AddressIs
  <2>2. PICK v \in Ways(c) : Carries(H.sets[c][r].blk[v], x)
    BY <1>5 DEF Held
  <2>3. CASE r # s
    <3>1. X.sets[c][r] = H.sets[c][r]
      <4> HIDE DEF r
      <4> QED BY <1>3, <2>1, <2>3
    <3>2. Carries(X.sets[c][r].blk[v], x)
      BY <2>2, <3>1
    <3> QED BY <3>2 DEF Held
  <2>4. CASE r = s /\ v # w
    <3>1. X.sets[c][r].blk[v] = H.sets[c][r].blk[v]
      <4> HIDE DEF r
      <4> QED BY <1>2, <1>3, <2>4 DEF S
    <3>2. Carries(X.sets[c][r].blk[v], x)
      BY <2>2, <3>1
    <3> QED BY <3>2 DEF Held
  <2>5. CASE r = s /\ v = w
    BY <2>2, <2>5
  <2> QED BY <2>3, <2>4, <2>5
<1>6. ASSUME NEW u \in Nat, Kept(H, u)
      PROVE  \/ Kept(X, u)
             \/ CacheSet(c, u) = s /\ Carries(S.blk[w], CacheTag(c, u))
  <2>1. ASSUME NEW d \in {"dl1", "ul2"}, Held(H, d, u)
        PROVE  \/ Held(X, d, u)
               \/ CacheSet(c, u) = s /\ Carries(S.blk[w], CacheTag(c, u))
    <3>1. CASE d = c
      BY <1>5, <2>1, <3>1
    <3>2. CASE d # c
      <4>1. X.sets[d] = H.sets[d]
        BY <1>3, <3>2 DEF Level
      <4> QED BY <2>1, <4>1, LevelFrame
    <3> QED BY <3>1, <3>2
  <2>2. u \in H.stored \/ Held(H, "ul2", u) \/ Held(H, "dl1", u)
    BY <1>6 DEF Kept, Below
  <2> HIDE DEF S
  <2> QED BY <1>3, <2>1, <2>2 DEF Kept, Below
<1>7. CASE ~S.blk[w].valid
  <2>1. N = H
    BY <1>1, <1>7
  <2>2. FlushedTo(H, H, c, s, w)
    BY <1>7 DEF FlushedTo
  <2> QED BY <2>1, <2>2 DEF N
<1>8. CASE S.blk[w].valid /\ ~S.blk[w].dirty
  <2>1. N = X
    BY <1>1, <1>8
  <2>2. \A u \in Nat : Kept(H, u) => Kept(X, u)
    BY <1>6, <1>8 DEF Carries
  <2> QED BY <1>4, <2>1, <2>2 DEF N
<1>9. CASE S.blk[w].valid /\ S.blk[w].dirty /\ c = "ul2"
  <2>1. N = dl2_access_fn(X, "Write", b)
    BY <1>1, <1>9
  <2> HIDE DEF b
  <2>2. /\ Shaped(N) /\ N.sets = X.sets /\ N.ideal = X.ideal
        /\ N.stored = X.stored \cup BlockUnits("ul2", b)
    BY <1>3, <2>1, StoreIs
  <2>3. FlushedTo(H, N, c, s, w)
    BY <1>4, <1>9, <2>2 DEF FlushedTo
  <2>4. ASSUME NEW u \in Nat, Kept(X, u) PROVE Kept(N, u)
    BY <2>2, <2>4 DEF Kept, Below, Held
  <2>5. ASSUME NEW u \in Nat, CacheSet(c, u) = s, Carries(S.blk[w], CacheTag(c, u))
        PROVE  Kept(N, u)
    <3>1. b = MkBlockAddr(c, CacheTag(c, u), CacheSet(c, u))
      BY <2>5 DEF b, Carries
    <3>2. u \in BlockUnits(c, b)
      BY <1>0, <3>1, AddressIs
    <3> QED BY <1>9, <2>2, <3>2 DEF Kept, Below
  <2> QED BY <1>6, <2>3, <2>4, <2>5 DEF N
<1>10. CASE S.blk[w].valid /\ S.blk[w].dirty /\ c # "ul2"
  <2>1. N = SecondLevel(X, "Write", b, draw)
    BY <1>1, <1>10
  <2>2. b \in Units
    BY <1>10 DEF Touched
  <2> HIDE DEF b
  <2>3. LevelOK(X, "ul2")
    BY <1>4, <1>10 DEF FlushedTo
  <2>4. SecondKeeps(X, N) /\ \A u \in Nat : SameBlock("ul2", b, u) => Held(N, "ul2", u)
    BY <1>3, <1>10, <2>1, <2>2, <2>3, SecondLevelIs
  <2>5. /\ Shaped(N) /\ LevelOK(N, "ul2")
        /\ \A d \in Level \ {"ul2"} : N.sets[d] = X.sets[d] /\ N.ideal[d] = X.ideal[d]
        /\ \A u \in Nat : Below(X, u) => Below(N, u)
    BY <2>4 DEF SecondKeeps
  <2>6. N.sets[c] = X.sets[c] /\ N.ideal[c] = X.ideal[c]
    BY <1>0, <1>10, <2>5
  <2>7. FlushedTo(H, N, c, s, w)
    <3>1. \A d \in Level \ {c, "ul2"} : N.sets[d] = X.sets[d] /\ N.ideal[d] = X.ideal[d]
      BY <2>5
    <3> QED BY <1>4, <2>5, <2>6, <3>1 DEF FlushedTo
  <2>8. ASSUME NEW u \in Nat, Kept(X, u) PROVE Kept(N, u)
    <3>1. CASE Below(X, u)
      BY <2>5, <3>1 DEF Kept
    <3>2. CASE Held(X, "dl1", u)
      <4>1. N.sets["dl1"] = X.sets["dl1"]
        BY <2>5 DEF Level
      <4> QED BY <3>2, <4>1, LevelFrame DEF Kept
    <3> QED BY <2>8, <3>1, <3>2 DEF Kept
  <2>9. ASSUME NEW u \in Nat, CacheSet(c, u) = s, Carries(S.blk[w], CacheTag(c, u))
        PROVE  Kept(N, u)
    <3>1. b = MkBlockAddr(c, CacheTag(c, u), CacheSet(c, u))
      BY <2>9 DEF b, Carries
    <3>2. b = BlockAddr(c, u)
      BY <1>0, <3>1, AddressIs
    <3>3. SameBlock("ul2", b, u)
      <4>1. /\ CacheTag("ul2", BlockAddr(c, u)) = CacheTag("ul2", u)
            /\ CacheSet("ul2", BlockAddr(c, u)) = CacheSet("ul2", u)
        BY <1>0, WithinSecondBlock
      <4> QED BY <3>2, <4>1 DEF SameBlock
    <3> QED BY <2>4, <3>3 DEF Kept, Below
  <2> QED BY <1>6, <2>7, <2>8, <2>9 DEF N
<1> QED BY <1>7, <1>8, <1>9, <1>10

LEMMA SetWay ==
  ASSUME geometry \in Configs, NEW c \in Level
  PROVE  /\ BlockCount(c) \in Nat
         /\ \A k \in Blocks(c) : SetOf(c, k) \in SetIndex(c) /\ WayOf(c, k) \in Ways(c)
         /\ \A s \in SetIndex(c) : \A i \in Ways(c) :
              \E k \in Blocks(c) : SetOf(c, k) = s /\ WayOf(c, k) = i
<1> DEFINE n == geometry[c].nsets
           m == geometry[c].assoc
           N == n * m
<1>1. n \in Nat \ {0} /\ m \in Nat \ {0} /\ N \in Nat
  BY GeometryIs
<1>2. /\ BlockCount(c) = N /\ Blocks(c) = 1 .. N /\ Ways(c) = 1 .. m /\ SetIndex(c) = 0 .. n - 1
      /\ \A k : SetOf(c, k) = (k - 1) \div m /\ WayOf(c, k) = ((k - 1) % m) + 1
  BY DEF BlockCount, Blocks, Ways, SetIndex, SetOf, WayOf
<1> HIDE DEF n, m
<1>3. ASSUME NEW k \in Blocks(c) PROVE SetOf(c, k) \in SetIndex(c) /\ WayOf(c, k) \in Ways(c)
  <2> DEFINE y == k - 1
             q == y \div m
             r == y % m
  <2>1. y \in 0 .. N - 1
    BY <1>1, <1>2
  <2>6. y \in Nat
    BY <1>1, <2>1
  <2> HIDE DEF y
  <2>2. q \in Nat /\ r \in 0 .. m - 1 /\ y = q * m + r
    BY <1>1, <2>6, DivMod
  <2> HIDE DEF q, r
  <2>3. q < n
    <3>1. CASE q >= n
      <4>1. q * m >= n * m
        BY <1>1, <2>2, <3>1, SMTT(30)
      <4>2. q * m \in Int
        BY <1>1, <2>2
      <4> QED BY <1>1, <2>1, <2>2, <4>1, <4>2
    <3> QED BY <1>1, <2>2, <3>1
  <2>4. q \in 0 .. n - 1 /\ r + 1 \in 1 .. m
    BY <1>1, <2>2, <2>3
  <2>5. SetOf(c, k) = q /\ WayOf(c, k) = r + 1
    BY <1>2 DEF y, q, r
  <2> QED BY <1>2, <2>4, <2>5
<1>4. ASSUME NEW s \in SetIndex(c), NEW i \in Ways(c)
      PROVE  \E k \in Blocks(c) : SetOf(c, k) = s /\ WayOf(c, k) = i
  <2> DEFINE z == i - 1
             y == s * m + z
             k == y + 1
  <2>1. s \in Nat /\ s <= n - 1 /\ z \in 0 .. m - 1 /\ z + 1 = i
    BY <1>1, <1>2
  <2> HIDE DEF z
  <2>2. y \in Nat
    BY <1>1, <2>1
  <2>3. y \div m = s
    BY <1>1, <2>1, DivUnique
  <2>4. y % m = z
    <3>1. y % m \in 0 .. m - 1 /\ y = (y \div m) * m + (y % m)
      BY <1>1, <2>2, DivMod
    <3> DEFINE r == y % m
               x == s * m
    <3>2. x \in Int
      BY <1>1, <2>1
    <3>3. r \in 0 .. m - 1 /\ x + z = x + r
      BY <2>3, <3>1
    <3> HIDE DEF r, x
    <3>4. r = z
      BY <1>1, <2>1, <3>2, <3>3
    <3> QED BY <3>4 DEF r
  <2>5. y < N
    <3>1. s * m <= (n - 1) * m
      BY <1>1, <2>1, SMTT(30)
    <3>2. (n - 1) * m = N - m
      BY <1>1, SMTT(30)
    <3>3. s * m \in Int
      BY <1>1, <2>1
    <3> QED BY <1>1, <2>1, <3>1, <3>2, <3>3
  <2> HIDE DEF y
  <2>6. k \in 1 .. N /\ k - 1 = y
    BY <1>1, <2>2, <2>5
  <2>7. SetOf(c, k) = s /\ WayOf(c, k) = i
    BY <1>2, <2>1, <2>3, <2>4, <2>6
  <2> QED BY <1>2, <2>6, <2>7
<1> QED BY <1>1, <1>2, <1>3, <1>4

LEMMA LeastExists ==
  ASSUME NEW T \in SUBSET Nat, T # {}
  PROVE  \E x \in T : \A y \in T : x <= y
<1> DEFINE less == OpToRel(<, Nat)
<1>1. less = {ss \in Nat \X Nat : ss[1] < ss[2]}
  BY DEF OpToRel
<1>2. IsWellFoundedOn(less, Nat)
  BY NatLessThanWellFounded
<1> HIDE DEF less
<1>3. PICK x \in T : \A y \in T : ~(<<y, x>> \in less)
  BY <1>2, WFMin
<1>4. \A y \in T : ~(y < x)
  BY <1>1, <1>3
<1> QED BY <1>4

LEMMA SetInduction ==
  ASSUME NEW T \in SUBSET Nat, 0 \in T, \A n \in T : n + 1 \in T
  PROVE  T = Nat
<1> SUFFICES ASSUME Nat \ T # {} PROVE FALSE
  BY Zenon
<1>1. PICK n \in Nat \ T : \A y \in Nat \ T : n <= y
  BY LeastExists
<1>2. n # 0
  BY <1>1
<1>3. n - 1 \in Nat /\ n - 1 \in T
  BY <1>1, <1>2
<1>4. (n - 1) + 1 \in T /\ (n - 1) + 1 = n
  BY <1>3
<1> QED BY <1>1, <1>4

\* Block k is flushed; the flush as the recursion it is.
FlushOne(H, c, draws, k, X) ==
  FlushBlock(X, c, SetOf(c, k), H.sets[c][SetOf(c, k)].order[WayOf(c, k)], draws[k])
FlushStep(H, c, draws, g) ==
  [k \in 0 .. BlockCount(c) |-> IF k = 0 THEN H ELSE FlushOne(H, c, draws, k, g[k - 1])]
Flushing(H, c, draws) == CHOOSE g : g = FlushStep(H, c, draws, g)
Forgets(X, c) == [X EXCEPT !.ideal[c] = [s \in SetIndex(c) |-> <<>>]]

LEMMA FlushIs ==
  ASSUME NEW H, NEW c, NEW draws
  PROVE  cache_flush(H, c, draws) = Forgets(Flushing(H, c, draws)[BlockCount(c)], c)
BY Zenon DEF cache_flush, Flushing, FlushStep, FlushOne, Forgets

LEMMA FlushingIs ==
  ASSUME geometry \in Configs, NEW c \in Level, NEW H, NEW draws
  PROVE  /\ Flushing(H, c, draws)[0] = H
         /\ \A k \in Blocks(c) : Flushing(H, c, draws)[k]
              = FlushOne(H, c, draws, k, Flushing(H, c, draws)[k - 1])
<1> DEFINE F(g) == FlushStep(H, c, draws, g)
           last == BlockCount(c)
           Step(k, X) == FlushOne(H, c, draws, k, X)
           T == {n \in Nat : \E g : \A k \in 0 .. last : k <= n => g[k] = F(g)[k]}
<1>1. last \in Nat /\ Blocks(c) = 1 .. last
  BY SetWay DEF Blocks
<1> HIDE DEF last
<1>2. \A g : F(g) = [k \in 0 .. last |-> IF k = 0 THEN H ELSE Step(k, g[k - 1])]
  BY Zenon DEF FlushStep, last
<1> HIDE DEF F, Step
<1>3. \A g : F(g)[0] = H /\ \A k \in 1 .. last : F(g)[k] = Step(k, g[k - 1])
  <2> TAKE g
  <2>1. 0 \in 0 .. last /\ \A k \in 1 .. last : k \in 0 .. last /\ k # 0
    BY <1>1
  <2> QED BY <1>2, <2>1
<1>4. 0 \in T
  <2> DEFINE g == [k \in 0 .. last |-> H]
  <2>1. \A k \in 0 .. last : k <= 0 => g[k] = F(g)[k]
    BY <1>1, <1>3
  <2> QED BY <2>1
<1>5. ASSUME NEW n \in T PROVE n + 1 \in T
  <2>1. PICK g : \A k \in 0 .. last : k <= n => g[k] = F(g)[k]
    OBVIOUS
  <2> DEFINE h == F(g)
  <2>2. ASSUME NEW k \in 0 .. last, k <= n + 1 PROVE h[k] = F(h)[k]
    <3>1. CASE k = 0
      BY <1>3, <3>1
    <3>2. CASE k # 0
      <4>1. k - 1 \in 0 .. last /\ k - 1 <= n /\ k \in 1 .. last
        BY <1>1, <2>2, <3>2
      <4>2. h[k - 1] = g[k - 1]
        BY <2>1, <4>1
      <4>3. F(h)[k] = Step(k, h[k - 1]) /\ h[k] = Step(k, g[k - 1])
        BY <1>3, <4>1
      <4> QED BY <4>2, <4>3
    <3> QED BY <3>1, <3>2
  <2>3. n + 1 \in Nat
    OBVIOUS
  <2> HIDE DEF h
  <2> QED BY <2>2, <2>3
<1>6. T = Nat
  <2> HIDE DEF T
  <2>1. T \in SUBSET Nat
    BY DEF T
  <2> QED BY <1>4, <1>5, <2>1, SetInduction
<1>7. PICK g : \A k \in 0 .. last : k <= last => g[k] = F(g)[k]
  BY <1>1, <1>6
<1>8. \A k \in 0 .. last : g[k] = F(g)[k]
  BY <1>1, <1>7
<1>9. F(F(g)) = F(g)
  <2>1. \A k \in 1 .. last : F(g)[k - 1] = g[k - 1]
    <3> TAKE k \in 1 .. last
    <3>1. k - 1 \in 0 .. last
      BY <1>1
    <3> QED BY <1>8, <3>1
  <2>2. \A k \in 0 .. last : F(F(g))[k] = F(g)[k]
    <3> TAKE k \in 0 .. last
    <3>1. CASE k = 0
      BY <1>3, <3>1
    <3>2. CASE k # 0
      <4>1. k \in 1 .. last
        BY <1>1, <3>2
      <4>2. F(F(g))[k] = Step(k, F(g)[k - 1]) /\ F(g)[k] = Step(k, g[k - 1])
        BY <1>3, <4>1
      <4> QED BY <2>1, <4>1, <4>2
    <3> QED BY <3>1, <3>2
  <2>3. \A x : F(x) = [k \in 0 .. last |-> F(x)[k]]
    <3> TAKE x
    <3>1. F(x) = [k \in 0 .. last |-> IF k = 0 THEN H ELSE Step(k, x[k - 1])]
      BY <1>2
    <3> QED BY <3>1
  <2> QED BY <2>2, <2>3
<1>10. Flushing(H, c, draws) = F(Flushing(H, c, draws))
  BY <1>9, Zenon DEF Flushing, F
<1>11. /\ Flushing(H, c, draws)[0] = H
       /\ \A k \in 1 .. last : Flushing(H, c, draws)[k] = Step(k, Flushing(H, c, draws)[k - 1])
  BY <1>3, <1>10
<1> QED BY <1>1, <1>11 DEF Step

LEMMA ForgetsIs ==
  ASSUME NEW H, Shaped(H), NEW c \in Level
  PROVE  /\ Shaped(Forgets(H, c))
         /\ \A s \in SetIndex(c) : Forgets(H, c).ideal[c][s] = <<>>
         /\ \A d \in Level \ {c} : Forgets(H, c).ideal[d] = H.ideal[d]
         /\ Forgets(H, c).sets = H.sets /\ Forgets(H, c).stored = H.stored
<1> DEFINE e == [s \in SetIndex(c) |-> <<>>]
           x == [H.ideal EXCEPT ![c] = e]
           R == Forgets(H, c)
<1>1. R = [sets |-> H.sets, ideal |-> x, stored |-> H.stored]
  <2>1. R = [H EXCEPT !.ideal = x]
    BY DEF Forgets
  <2> HIDE DEF x, R
  <2> QED BY <2>1, HierarchyFields DEF Shaped
<1>2. H.ideal = [d \in Level |-> [r \in SetIndex(d) |-> H.ideal[d][r]]]
  BY DEF Shaped
<1>3. /\ x = [d \in Level |-> x[d]] /\ x[c] = e
      /\ \A d \in Level \ {c} : x[d] = H.ideal[d]
  BY <1>2
<1>4. e = [s \in SetIndex(c) |-> e[s]] /\ \A s \in SetIndex(c) : e[s] = <<>>
  OBVIOUS
<1> HIDE DEF x, R, e
<1>5. \A d \in Level : x[d] = [r \in SetIndex(d) |-> x[d][r]]
  BY <1>2, <1>3, <1>4
<1>6. x = [d \in Level |-> [r \in SetIndex(d) |-> x[d][r]]]
  BY <1>3, <1>5
<1>7. /\ R.sets = H.sets /\ R.ideal = x /\ R.stored = H.stored
      /\ R = [sets |-> R.sets, ideal |-> R.ideal, stored |-> R.stored]
  BY <1>1
<1>8. Shaped(R)
  BY <1>6, <1>7 DEF Shaped
<1> QED BY <1>3, <1>4, <1>7, <1>8 DEF R

\* The blocks up to the k-th have been flushed.
FlushedUpTo(H, N, c, k) ==
  /\ Shaped(N)
  /\ \A s \in SetIndex(c) : /\ SetOK(c, N.sets[c][s], {})
                            /\ Touched(c, s, N.sets[c][s].blk)
                            /\ N.sets[c][s].order = H.sets[c][s].order
  /\ \A j \in 1 .. k :
       ~N.sets[c][SetOf(c, j)].blk[H.sets[c][SetOf(c, j)].order[WayOf(c, j)]].valid
  /\ \A d \in Level \ {c, "ul2"} : N.sets[d] = H.sets[d] /\ N.ideal[d] = H.ideal[d]
  /\ c # "ul2" => LevelOK(N, "ul2")
  /\ \A u \in Nat : Kept(H, u) => Kept(N, u)

LEMMA FlushesOne ==
  ASSUME geometry \in Configs, NEW c \in {"dl1", "ul2"}, NEW H, NEW k \in Blocks(c),
         NEW draws, c # "ul2" => draws[k] \in Draws("ul2"),
         NEW X, FlushedUpTo(H, X, c, k - 1)
  PROVE  FlushedUpTo(H, FlushOne(H, c, draws, k, X), c, k)
<1> DEFINE s == SetOf(c, k)
           w == H.sets[c][s].order[WayOf(c, k)]
           N == FlushOne(H, c, draws, k, X)
<1>0. c \in Level
  BY DEF Level
<1>1. s \in SetIndex(c) /\ WayOf(c, k) \in Ways(c) /\ k \in Nat
      /\ BlockCount(c) \in Nat
  BY <1>0, SetWay DEF Blocks
<1>2. /\ SetOK(c, X.sets[c][s], {}) /\ Touched(c, s, X.sets[c][s].blk)
      /\ X.sets[c][s].order = H.sets[c][s].order
  BY <1>1 DEF FlushedUpTo
<1>3. w \in Ways(c)
  <2> HIDE DEF s
  <2>1. X.sets[c][s].order[WayOf(c, k)] \in Ways(c)
    BY <1>0, <1>1, <1>2, OrderIs
  <2> QED BY <1>2, <2>1
<1>4. N = FlushBlock(X, c, s, w, draws[k])
  BY DEF FlushOne
<1> HIDE DEF N, s, w
<1>5. FlushedTo(X, N, c, s, w) /\ \A u \in Nat : Kept(X, u) => Kept(N, u)
  <2>1. Shaped(X) /\ (c # "ul2" => LevelOK(X, "ul2"))
    BY DEF FlushedUpTo
  <2> QED BY <1>1, <1>2, <1>3, <1>4, <2>1, FlushBlockIs
<1>6. /\ SetOK(c, N.sets[c][s], {}) /\ Touched(c, s, N.sets[c][s].blk)
      /\ N.sets[c][s].order = X.sets[c][s].order
      /\ ~N.sets[c][s].blk[w].valid
      /\ \A v \in Ways(c) \ {w} : N.sets[c][s].blk[v] = X.sets[c][s].blk[v]
      /\ \A r \in SetIndex(c) \ {s} : N.sets[c][r] = X.sets[c][r]
  BY <1>5 DEF FlushedTo
<1>7. ASSUME NEW r \in SetIndex(c)
      PROVE  /\ SetOK(c, N.sets[c][r], {}) /\ Touched(c, r, N.sets[c][r].blk)
             /\ N.sets[c][r].order = H.sets[c][r].order
  <2>1. CASE r = s
    BY <1>2, <1>6, <2>1
  <2>2. CASE r # s
    <3>1. N.sets[c][r] = X.sets[c][r]
      BY <1>6, <2>2
    <3> QED BY <3>1 DEF FlushedUpTo
  <2> QED BY <2>1, <2>2
<1>8. ASSUME NEW j \in 1 .. k
      PROVE  ~N.sets[c][SetOf(c, j)].blk[H.sets[c][SetOf(c, j)].order[WayOf(c, j)]].valid
  <2> DEFINE r == SetOf(c, j)
             v == H.sets[c][r].order[WayOf(c, j)]
  <2>1. CASE j = k
    BY <1>6, <2>1 DEF s, w
  <2>2. CASE j # k
    <3>1. j \in 1 .. k - 1 /\ j \in Blocks(c)
      BY <1>1, <2>2 DEF Blocks
    <3>2. ~X.sets[c][r].blk[v].valid
      BY <3>1 DEF FlushedUpTo
    <3>3. r \in SetIndex(c) /\ WayOf(c, j) \in Ways(c)
      BY <1>0, <3>1, SetWay
    <3>4. v \in Ways(c)
      <4> HIDE DEF r
      <4>1. SetOK(c, X.sets[c][r], {}) /\ X.sets[c][r].order = H.sets[c][r].order
        BY <3>3 DEF FlushedUpTo
      <4>2. X.sets[c][r].order[WayOf(c, j)] \in Ways(c)
        BY <1>0, <3>3, <4>1, OrderIs
      <4> QED BY <4>1, <4>2
    <3> HIDE DEF r, v
    <3>5. CASE r # s
      <4>1. N.sets[c][r] = X.sets[c][r]
        BY <1>6, <3>3, <3>5
      <4>2. ~N.sets[c][r].blk[v].valid
        BY <3>2, <4>1
      <4> QED BY <4>2 DEF r, v
    <3>6. CASE r = s /\ v # w
      <4>1. N.sets[c][r].blk[v] = X.sets[c][r].blk[v]
        BY <1>6, <3>4, <3>6
      <4>2. ~N.sets[c][r].blk[v].valid
        BY <3>2, <4>1
      <4> QED BY <4>2 DEF r, v
    <3>7. CASE r = s /\ v = w
      BY <1>6, <3>7 DEF r, v
    <3> QED BY <3>5, <3>6, <3>7
  <2> QED BY <2>1, <2>2
<1>9. \A d \in Level \ {c, "ul2"} : N.sets[d] = H.sets[d] /\ N.ideal[d] = H.ideal[d]
  BY <1>5 DEF FlushedTo, FlushedUpTo
<1>10. /\ Shaped(N) /\ (c # "ul2" => LevelOK(N, "ul2"))
       /\ \A u \in Nat : Kept(H, u) => Kept(N, u)
  BY <1>5 DEF FlushedTo, FlushedUpTo
<1> HIDE DEF N
<1>11. FlushedUpTo(H, N, c, k)
  BY <1>7, <1>8, <1>9, <1>10 DEF FlushedUpTo
<1> QED BY <1>11 DEF N

LEMMA CacheFlushIs ==
  ASSUME geometry \in Configs, NEW c \in {"dl1", "ul2"}, NEW H, AllOK(H),
         NEW draws, c # "ul2" => \A k \in Blocks(c) : draws[k] \in Draws("ul2")
  PROVE  /\ AllOK(cache_flush(H, c, draws))
         /\ \A u \in Nat : Kept(H, u) => Kept(cache_flush(H, c, draws), u)
<1> DEFINE f == Flushing(H, c, draws)
           last == BlockCount(c)
           N == f[last]
           R == Forgets(N, c)
           T == {k \in Nat : k <= last => FlushedUpTo(H, f[k], c, k)}
<1>0. c \in Level
  BY DEF Level
<1>1. /\ f[0] = H /\ last \in Nat /\ Blocks(c) = 1 .. last
      /\ \A k \in Blocks(c) : f[k] = FlushOne(H, c, draws, k, f[k - 1])
  BY <1>0, FlushingIs, SetWay DEF Blocks
<1> HIDE DEF f, last
<1>2. Shaped(H) /\ \A d \in Level : LevelOK(H, d)
  BY DEF AllOK
<1>3. 0 \in T
  <2>1. \A s \in SetIndex(c) : SetOK(c, H.sets[c][s], {}) /\ Touched(c, s, H.sets[c][s].blk)
    BY <1>0, <1>2 DEF LevelOK, Sound
  <2>2. FlushedUpTo(H, H, c, 0)
    BY <1>2, <2>1 DEF FlushedUpTo, Level
  <2> QED BY <1>1, <2>2
<1>4. ASSUME NEW n \in T PROVE n + 1 \in T
  <2>1. n \in Nat /\ n + 1 \in Nat
    OBVIOUS
  <2>2. ASSUME n + 1 <= last PROVE FlushedUpTo(H, f[n + 1], c, n + 1)
    <3> DEFINE k == n + 1
    <3>1. k \in Blocks(c) /\ k - 1 = n /\ n <= last
      BY <1>1, <2>1, <2>2
    <3>2. FlushedUpTo(H, f[k - 1], c, k - 1)
      BY <3>1
    <3>3. c # "ul2" => draws[k] \in Draws("ul2")
      BY <3>1
    <3> HIDE DEF k
    <3>4. FlushedUpTo(H, FlushOne(H, c, draws, k, f[k - 1]), c, k)
      BY <3>1, <3>2, <3>3, FlushesOne
    <3>5. FlushedUpTo(H, f[k], c, k)
      BY <1>1, <3>1, <3>4
    <3> QED BY <3>5 DEF k
  <2> QED BY <2>1, <2>2
<1>5. T = Nat
  <2> HIDE DEF T
  <2>1. T \in SUBSET Nat
    BY DEF T
  <2> QED BY <1>3, <1>4, <2>1, SetInduction
<1>6. FlushedUpTo(H, N, c, last)
  <2>1. last \in T /\ last <= last
    BY <1>1, <1>5
  <2> QED BY <2>1
<1> HIDE DEF N, T
<1>7. /\ Shaped(R) /\ R.sets = N.sets /\ R.stored = N.stored
      /\ \A s \in SetIndex(c) : R.ideal[c][s] = <<>>
      /\ \A d \in Level \ {c} : R.ideal[d] = N.ideal[d]
  <2>1. Shaped(N)
    BY <1>6 DEF FlushedUpTo
  <2> QED BY <1>0, <2>1, ForgetsIs
<1> HIDE DEF R
<1>8. LevelOK(R, c)
  <2> SUFFICES ASSUME NEW s \in SetIndex(c) PROVE Sound(c, s, R.sets[c][s], R.ideal[c][s])
    BY DEF LevelOK
  <2> DEFINE S == R.sets[c][s]
             I == R.ideal[c][s]
  <2>1. SetOK(c, S, {}) /\ Touched(c, s, S.blk) /\ S.order = H.sets[c][s].order
    BY <1>6, <1>7 DEF FlushedUpTo
  <2>2. ASSUME NEW i \in Ways(c) PROVE ~S.blk[S.order[i]].valid
    <3>1. PICK k \in Blocks(c) : SetOf(c, k) = s /\ WayOf(c, k) = i
      BY <1>0, SetWay
    <3>2. ~N.sets[c][s].blk[H.sets[c][s].order[i]].valid
      BY <1>1, <1>6, <3>1 DEF FlushedUpTo
    <3> QED BY <1>7, <2>1, <3>2
  <2>3. I = <<>>
    BY <1>7
  <2> HIDE DEF S, I
  <2>4. IdealOK(c, S.order, S.blk, I)
    <3>1. I \in Seq(Units) /\ Len(I) = 0
      BY <2>3
    <3>2. geometry[c].assoc \in Nat /\ \A i \in Ways(c) : ~(i <= 0)
      BY <1>0, GeometryIs DEF Ways
    <3> QED BY <2>2, <3>1, <3>2 DEF IdealOK
  <2>5. Sound(c, s, S, I)
    BY <2>1, <2>4 DEF Sound
  <2> QED BY <2>5 DEF S, I
<1>9. ASSUME NEW d \in Level \ {c} PROVE LevelOK(R, d)
  <2>1. CASE d = "ul2"
    <3>1. LevelOK(N, d)
      BY <1>6, <2>1 DEF FlushedUpTo
    <3> QED BY <1>7, <3>1, LevelFrame
  <2>2. CASE d # "ul2"
    <3>1. N.sets[d] = H.sets[d] /\ N.ideal[d] = H.ideal[d]
      BY <1>6, <2>2 DEF FlushedUpTo
    <3>2. R.sets[d] = H.sets[d] /\ R.ideal[d] = H.ideal[d]
      BY <1>7, <3>1
    <3> QED BY <1>2, <3>2, LevelFrame
  <2> QED BY <2>1, <2>2
<1>10. AllOK(R)
  BY <1>7, <1>8, <1>9 DEF AllOK
<1>11. \A u \in Nat : Kept(H, u) => Kept(R, u)
  <2>1. \A u \in Nat : Kept(H, u) => Kept(N, u)
    BY <1>6 DEF FlushedUpTo
  <2>2. \A u \in Nat : Kept(N, u) => Kept(R, u)
    BY <1>7 DEF Kept, Below, Held
  <2> QED BY <2>1, <2>2
<1>12. cache_flush(H, c, draws) = R
  BY FlushIs DEF R, N, f, last
<1> QED BY <1>10, <1>11, <1>12

\* cache_flush_addr(): the flushed block goes to the tail of its set.
LEMMA FlushAddrIs ==
  ASSUME geometry \in Configs, NEW c \in {"dl1", "ul2"}, NEW a \in Units, NEW K, AllOK(K),
         cache_probe(K, c, a), NEW draw \in Draws("ul2")
  PROVE  LET s == CacheSet(c, a)
             w == HitBlock(c, K.sets[c][s], CacheTag(c, a))
             H == FlushBlock(K, c, s, w, draw)
             N == [PutSet(H, c, s, update_way_list(H.sets[c][s], w, "Tail"))
                     EXCEPT !.ideal[c][s] = Without(@, CacheTag(c, a))]
         IN  AllOK(N) /\ \A u \in Nat : Kept(K, u) => Kept(N, u)
<1> DEFINE s == CacheSet(c, a)
           t == CacheTag(c, a)
           S == K.sets[c][s]
           w == HitBlock(c, S, t)
           H == FlushBlock(K, c, s, w, draw)
           R == update_way_list(H.sets[c][s], w, "Tail")
           P == PutSet(H, c, s, R)
           I == Without(P.ideal[c][s], t)
           N == PutIdeal(P, c, s, I)
           M == [P EXCEPT !.ideal[c][s] = Without(@, t)]
<1>1. /\ c \in Level /\ s \in SetIndex(c) /\ t \in Units
      /\ Shaped(K) /\ \A d \in Level : LevelOK(K, d)
  <2>1. c \in Level
    BY DEF Level
  <2> QED BY <2>1, TouchedIs DEF AllOK
<1>2. Sound(c, s, S, K.ideal[c][s]) /\ SetOK(c, S, {}) /\ Touched(c, s, S.blk)
  BY <1>1 DEF LevelOK, Sound
<1>3. w \in Ways(c) /\ S.blk[w].valid /\ S.blk[w].tag = t
  <2>1. HitAt(c, S, t) # 0
    BY DEF cache_probe
  <2> HIDE DEF S, s, t
  <2> QED BY <1>1, <1>2, <2>1, SearchFinds
<1>4. FlushedTo(K, H, c, s, w) /\ \A u \in Nat : Kept(K, u) => Kept(H, u)
  <2>1. LevelOK(K, "ul2")
    BY <1>1 DEF Level
  <2> HIDE DEF s, w
  <2> QED BY <1>1, <1>2, <1>3, <2>1, FlushBlockIs
<1> HIDE DEF H, w, s, t
<1>5. /\ Shaped(H) /\ H.ideal[c] = K.ideal[c]
      /\ SetOK(c, H.sets[c][s], {}) /\ Touched(c, s, H.sets[c][s].blk)
      /\ H.sets[c][s].order = S.order /\ ~H.sets[c][s].blk[w].valid
      /\ \A v \in Ways(c) \ {w} : H.sets[c][s].blk[v] = S.blk[v]
      /\ \A r \in SetIndex(c) \ {s} : H.sets[c][r] = K.sets[c][r]
      /\ \A d \in Level \ {c, "ul2"} : H.sets[d] = K.sets[d] /\ H.ideal[d] = K.ideal[d]
      /\ c # "ul2" => LevelOK(H, "ul2")
  BY <1>4 DEF FlushedTo
<1>6. R.blk = H.sets[c][s].blk /\ Sound(c, s, R, Without(K.ideal[c][s], t))
  <2> DEFINE T == H.sets[c][s]
             J == K.ideal[c][s]
  <2>1. /\ SetOK(c, T, {}) /\ Touched(c, s, T.blk) /\ T.order = S.order /\ ~T.blk[w].valid
        /\ \A v \in Ways(c) \ {w} : T.blk[v] = S.blk[v]
    BY <1>5
  <2>2. Sound(c, s, S, J)
    BY <1>2
  <2>3. R = update_way_list(T, w, "Tail")
    OBVIOUS
  <2> HIDE DEF T, S, J, R
  <2>4. R.blk = T.blk /\ Sound(c, s, R, Without(J, S.blk[w].tag))
    BY <1>1, <1>3, <2>1, <2>2, <2>3, TailSound
  <2> QED BY <1>3, <2>4 DEF T, J
<1> HIDE DEF R
<1>7. /\ Shaped(P) /\ P.sets[c][s] = R
      /\ \A r \in SetIndex(c) \ {s} : P.sets[c][r] = H.sets[c][r]
      /\ \A d \in Level \ {c} : P.sets[d] = H.sets[d]
      /\ P.ideal = H.ideal /\ P.stored = H.stored
  BY <1>1, <1>5, PutSetIs
<1>8. M = N
  BY <1>1, <1>7 DEF PutIdeal, Shaped
<1> HIDE DEF P
<1>9. /\ Shaped(N) /\ N.ideal[c][s] = I
      /\ \A r \in SetIndex(c) \ {s} : N.ideal[c][r] = P.ideal[c][r]
      /\ \A d \in Level \ {c} : N.ideal[d] = P.ideal[d]
      /\ N.sets = P.sets /\ N.stored = P.stored
  <2>1. Shaped(P) /\ c \in Level /\ s \in SetIndex(c)
    BY <1>1, <1>7
  <2> HIDE DEF I, M, S
  <2> QED BY <2>1, PutIdealIs
<1>10. I = Without(K.ideal[c][s], t)
  BY <1>5, <1>7
<1> HIDE DEF N, I
<1>11. LevelOK(N, c)
  <2> SUFFICES ASSUME NEW r \in SetIndex(c) PROVE Sound(c, r, N.sets[c][r], N.ideal[c][r])
    BY DEF LevelOK
  <2>1. CASE r = s
    <3>1. N.sets[c][r] = R /\ N.ideal[c][r] = Without(K.ideal[c][s], t)
      BY <1>7, <1>9, <1>10, <2>1
    <3> QED BY <1>6, <2>1, <3>1
  <2>2. CASE r # s
    <3>1. N.sets[c][r] = K.sets[c][r] /\ N.ideal[c][r] = K.ideal[c][r]
      BY <1>5, <1>7, <1>9, <2>2
    <3>2. Sound(c, r, K.sets[c][r], K.ideal[c][r])
      BY <1>1 DEF LevelOK
    <3> QED BY <3>1, <3>2
  <2> QED BY <2>1, <2>2
<1>12. ASSUME NEW d \in Level \ {c} PROVE LevelOK(N, d)
  <2>1. N.sets[d] = H.sets[d] /\ N.ideal[d] = H.ideal[d]
    BY <1>7, <1>9
  <2>2. CASE d = "ul2"
    BY <1>5, <2>1, <2>2, LevelFrame
  <2>3. CASE d # "ul2"
    <3>1. N.sets[d] = K.sets[d] /\ N.ideal[d] = K.ideal[d]
      BY <1>5, <2>1, <2>3
    <3> QED BY <1>1, <3>1, LevelFrame
  <2> QED BY <2>2, <2>3
<1>13. AllOK(N)
  BY <1>9, <1>11, <1>12 DEF AllOK
<1>14. ASSUME NEW u \in Nat, NEW d \in Level, Held(H, d, u) PROVE Held(N, d, u)
  <2>1. CASE d # c \/ CacheSet(d, u) # s
    <3>1. CacheSet(d, u) \in SetIndex(d)
      BY AddressIs
    <3>2. N.sets[d][CacheSet(d, u)] = H.sets[d][CacheSet(d, u)]
      BY <1>7, <1>9, <2>1, <3>1
    <3> QED BY <1>14, <3>2 DEF Held
  <2>2. CASE d = c /\ CacheSet(d, u) = s
    <3>1. N.sets[d][CacheSet(d, u)].blk = H.sets[d][CacheSet(d, u)].blk
      BY <1>6, <1>7, <1>9, <2>2
    <3> QED BY <1>14, <3>1 DEF Held
  <2> QED BY <2>1, <2>2
<1>15. ASSUME NEW u \in Nat, Kept(K, u) PROVE Kept(N, u)
  <2>1. Kept(H, u) /\ N.stored = H.stored
    BY <1>4, <1>7, <1>9, <1>15
  <2> QED BY <1>14, <2>1 DEF Kept, Below, Level
<1>16. AllOK(M) /\ \A u \in Nat : Kept(K, u) => Kept(M, u)
  <2> HIDE DEF M
  <2> QED BY <1>8, <1>13, <1>15
<1> QED BY <1>16 DEF M, P, R, H, w, S, s, t

-----------------------------------------------------------------------------
(* The invariant of the library.                                           *)

\* A hierarchy between two calls: its sets are sound, and a unit whose last write
\* is not in memory is dirty in the data cache or the second level.
Sound_between(H) ==
  AllOK(H) /\ \A u \in owed : Held(H, "dl1", u) \/ Held(H, "ul2", u)
CacheInv ==
  /\ geometry \in Configs /\ owed \subseteq CacheAddr
  /\ \E H : H.sets = sets /\ H.ideal = ideal /\ Sound_between(H)

LEMMA SameHierarchy ==
  ASSUME NEW H, AllOK(H), H.sets = sets, H.ideal = ideal
  PROVE  AllOK(Hierarchy)
<1> DEFINE K == Hierarchy
<1>1. /\ K = [sets |-> H.sets, ideal |-> H.ideal, stored |-> K.stored]
      /\ K.sets = H.sets /\ K.ideal = H.ideal
  BY DEF Hierarchy
<1> HIDE DEF K
<1>2. Shaped(K)
  BY <1>1 DEF Shaped, AllOK
<1>3. \A d \in Level : LevelOK(K, d)
  BY <1>1, LevelFrame DEF AllOK
<1> QED BY <1>2, <1>3 DEF AllOK, K

\* The hierarchy of the simulation is fixed.
LEMMA Unmoved ==
  ASSUME UNCHANGED geometry, NEW H
  PROVE  /\ AllOK(H) => AllOK(H)'
         /\ \A c, u : Held(H, c, u) => Held(H, c, u)'
<1>1. /\ \A c : Ways(c)' = Ways(c)
      /\ \A c : SetIndex(c)' = SetIndex(c)
      /\ \A c : Hashed(c)' <=> Hashed(c)
      /\ \A c : Keys(c)' = Keys(c)
      /\ \A c, t : Bucket(c, t)' = Bucket(c, t)
      /\ \A c, t, s : MkBlockAddr(c, t, s)' = MkBlockAddr(c, t, s)
      /\ \A c, a : CacheSet(c, a)' = CacheSet(c, a)
      /\ \A c, a : CacheTag(c, a)' = CacheTag(c, a)
  BY Zenon DEF Ways, SetIndex, Hashed, Keys, Bucket, MkBlockAddr, CacheSet, CacheTag, BlockNumber
<1>2. \A c, blk, h, out : InBucket(c, blk, h, out)' = InBucket(c, blk, h, out)
  BY <1>1, Zenon DEF InBucket
<1>3. /\ \A c, order : OrderOK(c, order) => OrderOK(c, order)'
      /\ \A c, blk : TagsDistinct(c, blk) => TagsDistinct(c, blk)'
      /\ \A c, chain, blk, out : ChainOK(c, chain, blk, out) => ChainOK(c, chain, blk, out)'
  <2>1. \A c, order : OrderOK(c, order) => OrderOK(c, order)'
    BY <1>1, Zenon DEF OrderOK
  <2>2. \A c, blk : TagsDistinct(c, blk) => TagsDistinct(c, blk)'
    BY <1>1, Zenon DEF TagsDistinct
  <2>3. \A c, chain, blk, out : ChainOK(c, chain, blk, out) => ChainOK(c, chain, blk, out)'
    BY <1>1, <1>2, Zenon DEF ChainOK
  <2> QED BY <2>1, <2>2, <2>3
<1>4. \A c, S, out : SetOK(c, S, out) => SetOK(c, S, out)'
  BY <1>1, <1>3, Zenon DEF SetOK
<1>5. \A c, s, blk : Touched(c, s, blk) => Touched(c, s, blk)'
  BY <1>1, Zenon DEF Touched
<1>6. \A c, order, blk, I : IdealOK(c, order, blk, I) => IdealOK(c, order, blk, I)'
  BY <1>1 DEF IdealOK
<1>7. \A c, s, S, I : Sound(c, s, S, I) => Sound(c, s, S, I)'
  <2> TAKE c, s, S, I
  <2> SUFFICES ASSUME Sound(c, s, S, I) PROVE Sound(c, s, S, I)'
    OBVIOUS
  <2>1. /\ SetOK(c, S, {}) /\ Touched(c, s, S.blk)
        /\ geometry[c].policy # "Random" => IdealOK(c, S.order, S.blk, I)
    BY Zenon DEF Sound
  <2> DEFINE o == S.order
             b == S.blk
  <2>2. \A x, y : IdealOK(c, x, y, I) => IdealOK(c, x, y, I)'
    BY <1>6
  <2>3. IdealOK(c, o, b, I) => IdealOK(c, o, b, I)'
    BY <2>2, Zenon
  <2>4. SetOK(c, S, {})'
    BY <1>4, <2>1
  <2>5. Touched(c, s, b)'
    BY <1>5, <2>1
  <2> QED BY <2>1, <2>3, <2>4, <2>5, Zenon DEF Sound
<1>8. \A c : LevelOK(H, c) => LevelOK(H, c)'
  BY <1>1, <1>7, Zenon DEF LevelOK
<1>9. Shaped(H) => Shaped(H)'
  BY <1>1, Zenon DEF Shaped
<1>10. AllOK(H) => AllOK(H)'
  BY <1>8, <1>9, Zenon DEF AllOK
<1>11. \A c, u : Held(H, c, u) => Held(H, c, u)'
  BY <1>1, Zenon DEF Held
<1> QED BY <1>10, <1>11

\* The outcome of a call that keeps what is owed.
LEMMA CallKeepsInv ==
  ASSUME geometry \in Configs, NEW N, AllOK(N), Become(N), owed' \subseteq CacheAddr,
         \A u \in owed' : Held(N, "dl1", u) \/ Held(N, "ul2", u)
  PROVE  CacheInv'
<1>1. UNCHANGED geometry /\ sets' = N.sets /\ ideal' = N.ideal
  BY DEF Become
<1>2. AllOK(N)' /\ \A c, u : Held(N, c, u) => Held(N, c, u)'
  BY <1>1, Unmoved
<1>3. \A u \in owed' : Held(N, "dl1", u)' \/ Held(N, "ul2", u)'
  BY <1>2, Zenon
<1>4. Sound_between(N)'
  BY <1>2, <1>3, Zenon DEF Sound_between
<1> QED BY <1>1, <1>4, Zenon DEF CacheInv

LEMMA OwedIs ==
  ASSUME NEW K, K.stored = {}, NEW N, \A u \in Nat : Kept(K, u) => Kept(N, u),
         NEW u \in Nat, Held(K, "dl1", u) \/ Held(K, "ul2", u), u \notin N.stored
  PROVE  Held(N, "dl1", u) \/ Held(N, "ul2", u)
<1>1. Kept(K, u)
  BY DEF Kept, Below
<1>2. Kept(N, u)
  BY <1>1
<1> QED BY <1>2 DEF Kept, Below

LEMMA BetweenCalls ==
  ASSUME CacheInv
  PROVE  /\ geometry \in Configs /\ owed \subseteq CacheAddr /\ CacheAddr \subseteq Units
         /\ Units \subseteq Nat
         /\ \E K : /\ K = Hierarchy /\ AllOK(K) /\ K.stored = {}
                   /\ \A u \in owed : Held(K, "dl1", u) \/ Held(K, "ul2", u)
<1>1. PICK H : H.sets = sets /\ H.ideal = ideal /\ Sound_between(H)
  BY DEF CacheInv
<1> DEFINE K == Hierarchy
<1>2. AllOK(K)
  BY <1>1, SameHierarchy DEF Sound_between
<1>3. K.sets = H.sets /\ K.stored = {}
  BY <1>1 DEF Hierarchy
<1>4. \A u \in owed : Held(K, "dl1", u) \/ Held(K, "ul2", u)
  <2> HIDE DEF K
  <2> QED BY <1>1, <1>3 DEF Sound_between, Held
<1> HIDE DEF K
<1>5. \E X : /\ X = K /\ AllOK(X) /\ X.stored = {}
             /\ \A u \in owed : Held(X, "dl1", u) \/ Held(X, "ul2", u)
  BY <1>2, <1>3, <1>4
<1> QED BY <1>5, UnitsAre DEF K, CacheInv

LEMMA CacheAccessKeeps ==
  ASSUME CacheInv, NEW c \in {"il1", "dl1"}, NEW cmd, cmd = "Write" => c = "dl1",
         NEW a \in CacheAddr, CacheAccess(c, cmd, a)
  PROVE  CacheInv'
<1>1. /\ geometry \in Configs /\ owed \subseteq CacheAddr /\ a \in Units
      /\ owed \subseteq Nat
  BY BetweenCalls
<1>2. PICK K : /\ K = Hierarchy /\ AllOK(K) /\ K.stored = {}
               /\ \A u \in owed : Held(K, "dl1", u) \/ Held(K, "ul2", u)
  BY BetweenCalls
<1>3. PICK draw \in [own : Draws(c), write : Draws("ul2"), read : Draws("ul2")] :
        LET H == cache_access(Hierarchy, c, cmd, a, draw)
        IN  /\ Become(H)
            /\ owed' = (owed \ H.stored) \cup (IF cmd = "Write" THEN {a} ELSE {})
  BY DEF CacheAccess
<1>4. PICK N : N = cache_access(K, c, cmd, a, draw)
  OBVIOUS
<1>5. Become(N) /\ owed' = (owed \ N.stored) \cup (IF cmd = "Write" THEN {a} ELSE {})
  BY <1>2, <1>3, <1>4
<1>6. /\ AllOK(N) /\ \A u \in Nat : Kept(K, u) => Kept(N, u)
      /\ cmd = "Write" => Held(N, c, a)
  <2>1. draw.own \in Draws(c) /\ draw.write \in Draws("ul2") /\ draw.read \in Draws("ul2")
    BY <1>3
  <2> QED BY <1>1, <1>2, <1>4, <2>1, CacheAccessIs
<1>7. owed' \subseteq CacheAddr
  BY <1>1, <1>5
<1>8. \A u \in owed' : Held(N, "dl1", u) \/ Held(N, "ul2", u)
  <2> TAKE u \in owed'
  <2>1. CASE cmd = "Write" /\ u = a
    BY <1>6, <2>1
  <2>2. CASE ~(cmd = "Write" /\ u = a)
    <3>1. u \in owed /\ u \notin N.stored /\ u \in Nat
      BY <1>1, <1>5, <2>2
    <3> QED BY <1>2, <1>6, <3>1, OwedIs
  <2> QED BY <2>1, <2>2
<1> QED BY <1>1, <1>5, <1>6, <1>7, <1>8, CallKeepsInv

LEMMA FlushOnSyscallKeeps ==
  ASSUME CacheInv, FlushOnSyscall
  PROVE  CacheInv'
<1>1. geometry \in Configs /\ owed \subseteq CacheAddr /\ owed \subseteq Nat
  BY BetweenCalls
<1>2. PICK K : /\ K = Hierarchy /\ AllOK(K) /\ K.stored = {}
               /\ \A u \in owed : Held(K, "dl1", u) \/ Held(K, "ul2", u)
  BY BetweenCalls
<1> DEFINE ones == [k \in Blocks("ul2") |-> 1]
<1>3. PICK draws \in [Blocks("dl1") -> Draws("ul2")] :
        LET H == cache_flush(cache_flush(Hierarchy, "dl1", draws), "ul2", ones)
        IN  Become(H) /\ owed' = owed \ H.stored
  BY DEF FlushOnSyscall
<1> HIDE DEF ones
<1>4. PICK M : M = cache_flush(K, "dl1", draws)
  OBVIOUS
<1>5. PICK N : N = cache_flush(M, "ul2", ones)
  OBVIOUS
<1>6. Become(N) /\ owed' = owed \ N.stored
  BY <1>2, <1>3, <1>4, <1>5
<1>7. AllOK(M) /\ \A u \in Nat : Kept(K, u) => Kept(M, u)
  <2>1. \A k \in Blocks("dl1") : draws[k] \in Draws("ul2")
    BY <1>3
  <2> QED BY <1>1, <1>2, <1>4, <2>1, CacheFlushIs
<1>8. AllOK(N) /\ \A u \in Nat : Kept(M, u) => Kept(N, u)
  BY <1>1, <1>5, <1>7, CacheFlushIs
<1>9. \A u \in owed' : Held(N, "dl1", u) \/ Held(N, "ul2", u)
  <2> TAKE u \in owed'
  <2>1. u \in owed /\ u \notin N.stored /\ u \in Nat
    BY <1>1, <1>6
  <2> QED BY <1>2, <1>7, <1>8, <2>1, OwedIs
<1>10. owed' \subseteq CacheAddr
  BY <1>1, <1>6
<1> QED BY <1>1, <1>6, <1>8, <1>9, <1>10, CallKeepsInv

LEMMA FlushAddrKeeps ==
  ASSUME CacheInv, NEW c \in {"dl1", "ul2"}, NEW a \in CacheAddr, FlushAddr(c, a)
  PROVE  CacheInv'
<1>1. /\ geometry \in Configs /\ owed \subseteq CacheAddr /\ a \in Units
      /\ owed \subseteq Nat
  BY BetweenCalls
<1>2. PICK K : /\ K = Hierarchy /\ AllOK(K) /\ K.stored = {}
               /\ \A u \in owed : Held(K, "dl1", u) \/ Held(K, "ul2", u)
  BY BetweenCalls
<1> DEFINE s == CacheSet(c, a)
           w == HitBlock(c, K.sets[c][s], CacheTag(c, a))
           H(draw) == FlushBlock(K, c, s, w, draw)
           T(draw) == [PutSet(H(draw), c, s, update_way_list(H(draw).sets[c][s], w, "Tail"))
                         EXCEPT !.ideal[c][s] = Without(@, CacheTag(c, a))]
<1>3. /\ cache_probe(K, c, a)
      /\ \E draw \in Draws("ul2") : Become(T(draw)) /\ owed' = owed \ T(draw).stored
  <2>1. sets = K.sets
    BY <1>2 DEF Hierarchy
  <2> QED BY <1>2, <2>1 DEF FlushAddr
<1>4. PICK draw \in Draws("ul2") : Become(T(draw)) /\ owed' = owed \ T(draw).stored
  BY <1>3
<1>5. AllOK(T(draw)) /\ \A u \in Nat : Kept(K, u) => Kept(T(draw), u)
  <2>1. geometry \in Configs /\ a \in Units /\ AllOK(K) /\ cache_probe(K, c, a)
    BY <1>1, <1>2, <1>3
  <2> QED BY <2>1, FlushAddrIs, Zenon
<1> HIDE DEF T
<1>6. PICK N : N = T(draw)
  OBVIOUS
<1>7. /\ Become(N) /\ owed' = owed \ N.stored /\ AllOK(N)
      /\ \A u \in Nat : Kept(K, u) => Kept(N, u)
  BY <1>4, <1>5, <1>6
<1>8. \A u \in owed' : Held(N, "dl1", u) \/ Held(N, "ul2", u)
  <2> TAKE u \in owed'
  <2>1. u \in owed /\ u \notin N.stored /\ u \in Nat
    BY <1>1, <1>7
  <2> QED BY <1>2, <1>7, <2>1, OwedIs
<1>9. owed' \subseteq CacheAddr
  BY <1>1, <1>7
<1> QED BY <1>1, <1>7, <1>8, <1>9, CallKeepsInv

LEMMA EmptySetIs ==
  ASSUME geometry \in Configs, NEW c \in Level, NEW s
  PROVE  Sound(c, s, EmptySet(c), <<>>)
<1> DEFINE n == geometry[c].assoc
           W == Ways(c)
           ways == [i \in W |-> n + 1 - i]
           h0 == Bucket(c, 0)
           chain == [h \in Keys(c) |-> IF h = h0 THEN ways ELSE <<>>]
           blk == [w \in W |-> [tag |-> 0, valid |-> FALSE, dirty |-> FALSE]]
           S == EmptySet(c)
<1>1. n \in Nat \ {0} /\ W = 1 .. n
  BY GeometryIs DEF Ways
<1>2. S = [order |-> ways, chain |-> chain, blk |-> blk]
  BY DEF EmptySet, Keys
<1>3. Lists(ways, W) /\ Len(ways) = n
  <2> HIDE DEF n, W
  <2>1. ways \in [1 .. n -> W] /\ \A i \in 1 .. n : ways[i] = n + 1 - i
    BY <1>1
  <2> HIDE DEF ways
  <2>2. ways \in Seq(W) /\ Len(ways) = n
    <3>1. n \in Nat
      BY <1>1
    <3>2. ways \in Seq(W)
      BY <2>1, <3>1, SeqDef
    <3>3. DOMAIN ways = 1 .. n
      BY <2>1
    <3> QED BY <3>1, <3>2, <3>3, LenProperties
  <2>3. \A i, j \in 1 .. n : ways[i] = ways[j] => i = j
    BY <1>1, <2>1
  <2>4. ASSUME NEW x \in W PROVE \E i \in 1 .. n : ways[i] = x
    <3>1. n + 1 - x \in 1 .. n /\ ways[n + 1 - x] = x
      BY <1>1, <2>1
    <3> QED BY <3>1
  <2> QED BY <2>2, <2>3, <2>4 DEF Lists, Distinct
<1> HIDE DEF n, W, ways
<1>4. /\ blk \in [W -> Block] /\ \A w \in W : ~blk[w].valid /\ blk[w].tag = 0
  BY UnitsAre DEF Block
<1> HIDE DEF blk
<1>5. ASSUME Hashed(c), NEW h \in Keys(c) PROVE Lists(chain[h], InBucket(c, blk, h, {}))
  <2>1. CASE h = h0
    <3>1. InBucket(c, blk, h, {}) = W
      BY <1>4, <2>1 DEF InBucket, W
    <3> QED BY <1>3, <2>1, <3>1
  <2>2. CASE h # h0
    <3>1. InBucket(c, blk, h, {}) = {}
      BY <1>4, <2>2 DEF InBucket, W
    <3>2. Lists(<<>>, {})
      BY DEF Lists, Distinct
    <3> QED BY <2>2, <3>1, <3>2
  <2> QED BY <2>1, <2>2
<1>6. chain = [h \in Keys(c) |-> chain[h]]
  OBVIOUS
<1> HIDE DEF chain, S
<1>7. S.order = ways /\ S.chain = chain /\ S.blk = blk
  BY <1>2
<1>8. OrderOK(c, ways) /\ TagsDistinct(c, blk) /\ ChainOK(c, chain, blk, {})
  BY <1>3, <1>4, <1>5, <1>6 DEF OrderOK, TagsDistinct, ChainOK, W, n
<1>9. SetOK(c, S, {})
  BY <1>2, <1>4, <1>7, <1>8 DEF SetOK, W
<1>10. Touched(c, s, S.blk)
  BY <1>4, <1>7 DEF Touched, W
<1>11. IdealOK(c, S.order, S.blk, <<>>)
  <2>1. \A i \in Ways(c) : S.order[i] \in Ways(c)
    BY <1>9, OrderIs
  <2>2. \A i \in Ways(c) : ~(i <= 0)
    BY <1>1 DEF W
  <2>3. 0 <= geometry[c].assoc
    BY <1>1 DEF n
  <2>4. \A i \in Ways(c) : ~S.blk[S.order[i]].valid
    BY <1>4, <1>7, <2>1 DEF W
  <2>5. <<>> \in Seq(Units) /\ Len(<<>>) = 0
    OBVIOUS
  <2> QED BY <2>2, <2>3, <2>4, <2>5 DEF IdealOK
<1>12. Sound(c, s, S, <<>>)
  BY <1>9, <1>10, <1>11 DEF Sound
<1> QED BY <1>12 DEF S

LEMMA CacheStarts ==
  ASSUME CacheInit
  PROVE  CacheInv
<1> DEFINE K == Hierarchy
<1>1. geometry \in Configs /\ owed = {}
  BY DEF CacheInit
<1>2. /\ K = [sets |-> sets, ideal |-> ideal, stored |-> {}]
      /\ sets = [c \in Level |-> [s \in SetIndex(c) |-> EmptySet(c)]]
      /\ ideal = [c \in Level |-> [s \in SetIndex(c) |-> <<>>]]
  BY DEF CacheInit, Hierarchy
<1> HIDE DEF K
<1>3. /\ K.sets = sets /\ K.ideal = ideal
      /\ K = [sets |-> K.sets, ideal |-> K.ideal, stored |-> K.stored]
  BY <1>2
<1>4. ASSUME NEW c \in Level, NEW s \in SetIndex(c)
      PROVE  K.sets[c][s] = EmptySet(c) /\ K.ideal[c][s] = <<>>
  BY <1>2, <1>3
<1>5. /\ K.sets = [c \in Level |-> [s \in SetIndex(c) |-> K.sets[c][s]]]
      /\ K.ideal = [c \in Level |-> [s \in SetIndex(c) |-> K.ideal[c][s]]]
  <2> DEFINE e(c) == EmptySet(c)
  <2>1. sets = [c \in Level |-> [s \in SetIndex(c) |-> e(c)]]
    BY <1>2
  <2> HIDE DEF e
  <2>2. sets = [c \in Level |-> [s \in SetIndex(c) |-> sets[c][s]]]
    BY <2>1
  <2>3. ideal = [c \in Level |-> [s \in SetIndex(c) |-> ideal[c][s]]]
    BY <1>2
  <2> QED BY <1>3, <2>2, <2>3
<1>6. \A c \in Level : LevelOK(K, c)
  BY <1>1, <1>4, EmptySetIs DEF LevelOK
<1>7. AllOK(K)
  BY <1>3, <1>5, <1>6 DEF AllOK, Shaped
<1> QED BY <1>1, <1>3, <1>7 DEF CacheInv, Sound_between

-----------------------------------------------------------------------------
(* What the invariant says of the caches.                                  *)

LEMMA ListsIs ==
  ASSUME NEW T, NEW q, Lists(q, T)
  PROVE  ToSet(q) = T /\ IsInjective(q)
<1>1. DOMAIN q = 1 .. Len(q) /\ \A i \in 1 .. Len(q) : q[i] \in T
  BY LenProperties, ElementOfSeq DEF Lists
<1>2. ToSet(q) = T
  BY <1>1 DEF Lists, ToSet
<1>3. IsInjective(q)
  BY <1>1 DEF Lists, Distinct, IsInjective
<1> QED BY <1>2, <1>3

LEMMA InvSetsWellLinked ==
  ASSUME CacheInv
  PROVE  SetsWellLinked
<1>1. PICK K : K = Hierarchy /\ AllOK(K)
  BY BetweenCalls
<1>2. geometry \in Configs /\ K.sets = sets
  BY <1>1, BetweenCalls DEF Hierarchy
<1> SUFFICES ASSUME NEW c \in Level, NEW s \in SetIndex(c)
             PROVE  LET S == sets[c][s]
                    IN  /\ Len(S.order) = geometry[c].assoc /\ ToSet(S.order) = Ways(c)
                        /\ Hashed(c) =>
                             \A h \in 0 .. hsize(geometry[c]) - 1 :
                               /\ IsInjective(S.chain[h])
                               /\ ToSet(S.chain[h]) = {w \in Ways(c) : Bucket(c, S.blk[w].tag) = h}
                        /\ \A v, w \in Ways(c) :
                             v # w /\ S.blk[v].valid /\ S.blk[w].valid => S.blk[v].tag # S.blk[w].tag
  BY Zenon DEF SetsWellLinked
<1> DEFINE S == sets[c][s]
<1>3. SetOK(c, S, {})
  <2>1. Sound(c, s, K.sets[c][s], K.ideal[c][s])
    BY <1>1 DEF AllOK, LevelOK
  <2> QED BY <1>2, <2>1 DEF Sound
<1> HIDE DEF S
<1>4. OrderOK(c, S.order) /\ TagsDistinct(c, S.blk) /\ ChainOK(c, S.chain, S.blk, {})
  BY <1>3 DEF SetOK
<1>5. Len(S.order) = geometry[c].assoc /\ ToSet(S.order) = Ways(c)
  BY <1>4, ListsIs DEF OrderOK
<1>6. ASSUME Hashed(c), NEW h \in 0 .. hsize(geometry[c]) - 1
      PROVE  /\ IsInjective(S.chain[h])
             /\ ToSet(S.chain[h]) = {w \in Ways(c) : Bucket(c, S.blk[w].tag) = h}
  <2>1. Lists(S.chain[h], InBucket(c, S.blk, h, {}))
    BY <1>4, <1>6 DEF ChainOK, Keys
  <2>2. InBucket(c, S.blk, h, {}) = {w \in Ways(c) : Bucket(c, S.blk[w].tag) = h}
    BY DEF InBucket
  <2>3. ToSet(S.chain[h]) = InBucket(c, S.blk, h, {}) /\ IsInjective(S.chain[h])
    BY <2>1, ListsIs
  <2> QED BY <2>2, <2>3
<1>7. \A v, w \in Ways(c) :
        v # w /\ S.blk[v].valid /\ S.blk[w].valid => S.blk[v].tag # S.blk[w].tag
  BY <1>4 DEF TagsDistinct
<1> QED BY <1>5, <1>6, <1>7 DEF S

LEMMA InvDirtyDataIsHeld ==
  ASSUME CacheInv
  PROVE  DirtyDataIsHeld
<1>1. PICK K : /\ K = Hierarchy /\ AllOK(K)
               /\ \A u \in owed : Held(K, "dl1", u) \/ Held(K, "ul2", u)
  BY BetweenCalls
<1>2. geometry \in Configs /\ owed \subseteq Units /\ K.sets = sets
  BY <1>1, BetweenCalls DEF Hierarchy
<1>3. ASSUME NEW a \in owed, NEW c \in {"dl1", "ul2"}, Held(K, c, a)
      PROVE  LET S == sets[c][CacheSet(c, a)]
             IN  /\ cache_probe(Hierarchy, c, a)
                 /\ S.blk[HitBlock(c, S, CacheTag(c, a))].dirty
  <2> DEFINE s == CacheSet(c, a)
             t == CacheTag(c, a)
             S == K.sets[c][s]
  <2>1. c \in Level /\ s \in SetIndex(c) /\ t \in Units
    <3>1. c \in Level
      BY DEF Level
    <3> QED BY <1>2, <3>1, TouchedIs
  <2>2. SetOK(c, S, {})
    BY <1>1, <2>1 DEF AllOK, LevelOK, Sound
  <2>3. PICK w \in Ways(c) : Carries(S.blk[w], t)
    BY <1>3 DEF Held
  <2> HIDE DEF s, t, S
  <2>4. HitAt(c, S, t) # 0 /\ HitBlock(c, S, t) = w /\ S.blk[w].dirty
    BY <1>2, <2>1, <2>2, <2>3, SearchFinds DEF Carries
  <2>5. cache_probe(K, c, a) /\ S = sets[c][s]
    BY <1>2, <2>4 DEF cache_probe, S, s, t
  <2> QED BY <1>1, <2>4, <2>5 DEF s, t
<1> QED BY <1>1, <1>3 DEF DirtyDataIsHeld

LEMMA InvHoldsWhatPolicySays ==
  ASSUME CacheInv
  PROVE  HoldsWhatPolicySays
<1>1. PICK K : K = Hierarchy /\ AllOK(K)
  BY BetweenCalls
<1>2. K.sets = sets /\ K.ideal = ideal
  BY <1>1 DEF Hierarchy
<1>3. ASSUME NEW c \in Level, geometry[c].policy # "Random", NEW s \in SetIndex(c)
      PROVE  IdealOK(c, sets[c][s].order, sets[c][s].blk, ideal[c][s])
  <2>1. Sound(c, s, K.sets[c][s], K.ideal[c][s])
    BY <1>1 DEF AllOK, LevelOK
  <2> QED BY <1>2, <1>3, <2>1 DEF Sound
<1> QED BY <1>3, Zenon DEF HoldsWhatPolicySays, IdealOK

LEMMA CacheStep ==
  ASSUME CacheInv, [CacheNext]_cacheVars
  PROVE  CacheInv'
<1>1. CASE CacheNext
  <2>1. CASE FlushOnSyscall
    BY <2>1, FlushOnSyscallKeeps
  <2>2. ASSUME NEW a \in CacheAddr, CacheAccess("il1", "Read", a)
        PROVE  CacheInv'
    <3>1. PICK c \in {"il1", "dl1"}, cmd \in {"Read"} : c = "il1" /\ cmd = "Read"
      OBVIOUS
    <3> QED BY <2>2, <3>1, CacheAccessKeeps
  <2>3. ASSUME NEW a \in CacheAddr, NEW cmd \in {"Read", "Write"}, CacheAccess("dl1", cmd, a)
        PROVE  CacheInv'
    BY <2>3, CacheAccessKeeps
  <2>4. ASSUME NEW a \in CacheAddr, NEW c \in {"dl1", "ul2"}, FlushAddr(c, a)
        PROVE  CacheInv'
    BY <2>4, FlushAddrKeeps
  <2> QED BY <1>1, <2>1, <2>2, <2>3, <2>4 DEF CacheNext
<1>2. CASE UNCHANGED cacheVars
  <2>1. UNCHANGED geometry /\ sets' = sets /\ ideal' = ideal /\ owed' = owed
    BY <1>2 DEF cacheVars
  <2>2. PICK H : H.sets = sets /\ H.ideal = ideal /\ Sound_between(H)
    BY DEF CacheInv
  <2>3. AllOK(H)' /\ \A c, u : Held(H, c, u) => Held(H, c, u)'
    BY <2>1, <2>2, Unmoved DEF Sound_between
  <2>4. \A u \in owed' : Held(H, "dl1", u)' \/ Held(H, "ul2", u)'
    BY <2>1, <2>2, <2>3, Zenon DEF Sound_between
  <2>5. Sound_between(H)'
    BY <2>3, <2>4, Zenon DEF Sound_between
  <2>6. H.sets = sets' /\ H.ideal = ideal'
    BY <2>1, <2>2
  <2>7. geometry' \in Configs /\ owed' \subseteq CacheAddr
    BY <2>1 DEF CacheInv
  <2> QED BY <2>5, <2>6, <2>7, Zenon DEF CacheInv
<1> QED BY <1>1, <1>2

\* The inductive invariant of cache.c's callers: between two calls every set is
\* well linked, holds what its policy says, and every unit written and not yet in
\* memory has a dirty block in the data cache or in the second level.
THEOREM CacheInvariant == CacheSpec => []CacheInv
<1>1. CacheInit => CacheInv
  BY CacheStarts
<1>2. CacheInv /\ [CacheNext]_cacheVars => CacheInv'
  BY CacheStep
<1> QED BY <1>1, <1>2, PTL DEF CacheSpec

\* cache_access(), cache_flush() and cache_flush_addr(), in any order and for any
\* geometries, policies, hash and addresses, keep the way list and the hash
\* buckets of a set in step, keep the blocks the replacement policy should keep,
\* and lose no dirty block between the levels.
THEOREM CacheIsAlwaysSound == CacheSpec => []CacheIsSound
<1>1. CacheInv => CacheIsSound
  BY InvSetsWellLinked, InvDirtyDataIsHeld, InvHoldsWhatPolicySays DEF CacheIsSound
<1> QED BY <1>1, CacheInvariant, PTL

=============================================================================
