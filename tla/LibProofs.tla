------------------------------ MODULE LibProofs ------------------------------
(***************************************************************************)
(* Three of the libraries under the simulators.  The branch predictor      *)
(* learns from what ran, wherever the simulator calls bpred_update(): its  *)
(* BTB, its history registers and its statistics.  Simulated memory is a   *)
(* flat array, whatever the loader and the program write to it.  The event *)
(* queue keeps what it is given, whatever callbacks do to it.              *)
(***************************************************************************)
EXTENDS Bpred, Loader, EventQ, SequenceTheorems, FiniteSetTheorems, WellFoundedInduction, TLAPS

-----------------------------------------------------------------------------
(* Numbers.                                                                *)

LEMMA LeastExists ==
  ASSUME NEW T \in SUBSET Nat, T # {}
  PROVE  \E x \in T : \A y \in T : x <= y
<1> DEFINE less == OpToRel(<, Nat)
<1>1. less = {ss \in Nat \X Nat : ss[1] < ss[2]}
  BY DEF OpToRel
<1>2. IsWellFoundedOn(less, Nat)
  BY NatLessThanWellFounded
<1> HIDE DEF less
<1>3. PICK x \in T : \A y \in T : ~(<<y, x>> \in less)
  BY <1>2, WFMin
<1>4. \A y \in T : ~(y < x)
  BY <1>1, <1>3
<1> QED BY <1>4

LEMMA SetInduction ==
  ASSUME NEW T \in SUBSET Nat, 0 \in T, \A n \in T : n + 1 \in T
  PROVE  T = Nat
<1> SUFFICES ASSUME Nat \ T # {} PROVE FALSE
  BY Zenon
<1>1. PICK n \in Nat \ T : \A y \in Nat \ T : n <= y
  BY LeastExists
<1>2. n # 0
  BY <1>1
<1>3. n - 1 \in Nat /\ n - 1 \in T
  BY <1>1, <1>2
<1>4. (n - 1) + 1 \in T /\ (n - 1) + 1 = n
  BY <1>3
<1> QED BY <1>1, <1>4

LEMMA DivMod ==
  ASSUME NEW a \in Nat, NEW b \in Nat \ {0}
  PROVE  /\ a \div b \in Nat /\ a % b \in 0 .. b - 1
         /\ a = (a \div b) * b + (a % b) /\ a \div b <= a
<1> DEFINE q == a \div b
           r == a % b
<1>1. q \in Int /\ r \in 0 .. b - 1 /\ a = b * q + r
  BY SMTT(30)
<1>2. q \in Nat
  BY SMTT(30)
<1>3. q <= a
  BY SMTT(30)
<1> HIDE DEF q, r
<1>4. a = q * b + r
  BY <1>1
<1> QED BY <1>1, <1>2, <1>3, <1>4 DEF q, r

LEMMA DivUnique ==
  ASSUME NEW y \in Nat, NEW b \in Nat \ {0}, NEW z \in 0 .. b - 1
  PROVE  (y * b + z) \div b = y
<1> DEFINE x == y * b + z
           q == x \div b
           r == x % b
<1>1. x \in Nat
  BY SMTT(30)
<1>2. q \in Int /\ r \in 0 .. b - 1 /\ x = b * q + r
  BY <1>1
<1>3. y * b + z = q * b + r
  BY <1>2
<1> HIDE DEF q, r, x
<1>4. q = y
  <2>1. CASE q < y
    <3>1. (y - q) * b >= b
      BY <1>2, <2>1, SMTT(30)
    <3> QED BY <1>2, <1>3, <3>1, SMTT(30)
  <2>2. CASE q > y
    <3>1. (q - y) * b >= b
      BY <1>2, <2>2, SMTT(30)
    <3> QED BY <1>2, <1>3, <3>1, SMTT(30)
  <2> QED BY <1>2, <2>1, <2>2
<1> QED BY <1>4 DEF q, x

LEMMA Pow2Is ==
  /\ Pow2[0] = 1 /\ \A n \in Nat : Pow2[n + 1] = 2 * Pow2[n]
<1> DEFINE F(g) == [n \in Nat |-> IF n = 0 THEN 1 ELSE 2 * g[n - 1]]
           T == {n \in Nat : \E g : \A k \in Nat : k <= n => g[k] = F(g)[k]}
           P(n) == CHOOSE g : \A k \in Nat : k <= n => g[k] = F(g)[k]
           f == [n \in Nat |-> P(n)[n]]
<1>1. \A g : F(g)[0] = 1 /\ \A k \in Nat \ {0} : F(g)[k] = 2 * g[k - 1]
  OBVIOUS
<1> HIDE DEF F
<1>2. 0 \in T
  <2> DEFINE g == [k \in Nat |-> 1]
  <2>1. \A k \in Nat : k <= 0 => g[k] = F(g)[k]
    BY <1>1
  <2> QED BY <2>1
<1>3. ASSUME NEW n \in T PROVE n + 1 \in T
  <2>1. PICK g : \A k \in Nat : k <= n => g[k] = F(g)[k]
    OBVIOUS
  <2> DEFINE h == [k \in Nat |-> IF k = n + 1 THEN 2 * g[n] ELSE g[k]]
  <2>2. ASSUME NEW k \in Nat, k <= n + 1 PROVE h[k] = F(h)[k]
    <3>1. CASE k = 0
      <4>1. h[k] = g[k] /\ g[k] = F(g)[k]
        BY <2>1, <3>1
      <4> QED BY <1>1, <3>1, <4>1
    <3>2. CASE k \in 1 .. n
      <4>1. h[k] = g[k] /\ g[k] = F(g)[k] /\ h[k - 1] = g[k - 1]
        BY <2>1, <3>2
      <4> QED BY <1>1, <3>2, <4>1
    <3>3. CASE k = n + 1
      <4>1. h[k] = 2 * g[n] /\ k - 1 = n /\ h[n] = g[n] /\ k \in Nat \ {0}
        BY <3>3
      <4> QED BY <1>1, <4>1
    <3> QED BY <2>2, <3>1, <3>2, <3>3
  <2> HIDE DEF h
  <2>3. n + 1 \in Nat
    OBVIOUS
  <2> QED BY <2>2, <2>3
<1>4. T = Nat
  <2> HIDE DEF T
  <2> QED BY <1>2, <1>3, SetInduction DEF T
<1>5. ASSUME NEW n \in Nat PROVE \A k \in Nat : k <= n => P(n)[k] = F(P(n))[k]
  BY <1>4
<1> HIDE DEF P, T
<1>6. ASSUME NEW n \in Nat PROVE \A k \in 0 .. n : P(n)[k] = P(k)[k]
  <2> DEFINE U == {k \in Nat : k <= n => \A m \in Nat : k <= m => P(n)[k] = P(m)[k]}
  <2>1. 0 \in U
    BY <1>1, <1>5
  <2>2. ASSUME NEW k \in U PROVE k + 1 \in U
    <3> SUFFICES ASSUME k + 1 <= n, NEW m \in Nat, k + 1 <= m
                 PROVE  P(n)[k + 1] = P(m)[k + 1]
      OBVIOUS
    <3>1. k \in Nat /\ k <= n /\ k <= m /\ k + 1 \in Nat \ {0} /\ (k + 1) - 1 = k
      OBVIOUS
    <3>2. P(n)[k] = P(m)[k]
      BY <3>1
    <3>3. P(n)[k + 1] = 2 * P(n)[k] /\ P(m)[k + 1] = 2 * P(m)[k]
      BY <1>1, <1>5, <3>1
    <3> QED BY <3>2, <3>3
  <2>3. U = Nat
    <3> HIDE DEF U
    <3> QED BY <2>1, <2>2, SetInduction DEF U
  <2> QED BY <2>3
<1>7. f = F(f)
  <2>1. ASSUME NEW n \in Nat PROVE f[n] = F(f)[n]
    <3>1. f[n] = P(n)[n] /\ P(n)[n] = F(P(n))[n]
      BY <1>5
    <3>2. CASE n = 0
      BY <1>1, <3>1, <3>2
    <3>3. CASE n # 0
      <4>1. n - 1 \in 0 .. n /\ n - 1 \in Nat /\ n \in Nat \ {0}
        BY <3>3
      <4>2. P(n)[n - 1] = P(n - 1)[n - 1] /\ f[n - 1] = P(n - 1)[n - 1]
        BY <1>6, <4>1
      <4> QED BY <1>1, <3>1, <4>1, <4>2
    <3> QED BY <3>2, <3>3
  <2>2. f = [n \in Nat |-> f[n]] /\ F(f) = [n \in Nat |-> F(f)[n]]
    BY DEF F
  <2> QED BY <2>1, <2>2
<1> HIDE DEF f
<1>8. Pow2 = CHOOSE g : g = F(g)
  BY Zenon DEF Pow2, F
<1>9. Pow2 = F(Pow2)
  BY <1>7, <1>8
<1>10. Pow2[0] = 1 /\ \A k \in Nat \ {0} : Pow2[k] = 2 * Pow2[k - 1]
  BY <1>1, <1>9
<1>11. ASSUME NEW n \in Nat PROVE Pow2[n + 1] = 2 * Pow2[n]
  <2>1. n + 1 \in Nat \ {0} /\ (n + 1) - 1 = n
    OBVIOUS
  <2> QED BY <1>10, <2>1
<1> QED BY <1>10, <1>11

\* A power of two is a multiple of twice every smaller one.
LEMMA Pow2Divides ==
  ASSUME NEW w \in Nat
  PROVE  /\ Pow2[w] \in Nat \ {0}
         /\ \A n \in 0 .. w - 1 : Pow2[n] \in Nat \ {0} /\ \E q \in Nat \ {0} : Pow2[w] = Pow2[n] * (2 * q)
<1> DEFINE G(v, n) == Pow2[n] \in Nat \ {0} /\ \E q \in Nat \ {0} : Pow2[v] = Pow2[n] * (2 * q)
           T == {v \in Nat : Pow2[v] \in Nat \ {0} /\ \A n \in 0 .. v - 1 : G(v, n)}
<1>1. 0 \in T
  BY Pow2Is
<1>2. ASSUME NEW v \in T PROVE v + 1 \in T
  <2>1. v \in Nat /\ Pow2[v] \in Nat \ {0} /\ Pow2[v + 1] = 2 * Pow2[v]
    BY Pow2Is
  <2>2. v + 1 \in Nat /\ Pow2[v + 1] \in Nat \ {0}
    BY <2>1
  <2>3. ASSUME NEW n \in 0 .. (v + 1) - 1 PROVE G(v + 1, n)
    <3>1. CASE n = v
      <4>1. 1 \in Nat \ {0} /\ Pow2[v + 1] = Pow2[n] * (2 * 1) /\ Pow2[n] \in Nat \ {0}
        BY <2>1, <3>1
      <4> QED BY <4>1
    <3>2. CASE n # v
      <4>1. n \in 0 .. v - 1
        BY <2>1, <3>2
      <4>2. PICK q \in Nat \ {0} : Pow2[n] \in Nat \ {0} /\ Pow2[v] = Pow2[n] * (2 * q)
        BY <4>1
      <4>3. Pow2[v + 1] = Pow2[n] * (2 * (2 * q)) /\ 2 * q \in Nat \ {0}
        BY <2>1, <4>2, SMTT(30)
      <4> QED BY <4>2, <4>3
    <3> QED BY <3>1, <3>2
  <2> HIDE DEF G
  <2> QED BY <2>2, <2>3
<1>3. T = Nat
  <2> HIDE DEF T
  <2> QED BY <1>1, <1>2, SetInduction DEF T
<1> QED BY <1>3

LEMMA Parity ==
  ASSUME NEW y \in Nat, NEW z \in Nat
  PROVE  (2 * y + z) % 2 = z % 2
  BY SMTT(30)

\* Shifting a bit into a register of w bits moves each bit up by one.
ShiftIn(w, r, b, m) == m = ((2 * r) + b) % Pow2[w]

LEMMA ShiftBits ==
  ASSUME NEW w \in Nat, NEW n \in 0 .. w - 1, NEW r \in Nat, NEW b \in 0 .. 1, NEW m,
         ShiftIn(w, r, b, m)
  PROVE  /\ m \in Nat
         /\ (m \div Pow2[n]) % 2 = IF n = 0 THEN b ELSE (r \div Pow2[n - 1]) % 2
<1> DEFINE x == (2 * r) + b
           M == Pow2[w]
           d == Pow2[n]
           t == x \div M
           u == m \div d
           v == m % d
<1>1. x \in Nat /\ M \in Nat \ {0} /\ d \in Nat \ {0}
  BY Pow2Divides
<1>2. PICK q \in Nat \ {0} : M = d * (2 * q)
  BY Pow2Divides
<1>3. m = x % M
  BY DEF ShiftIn
<1> HIDE DEF x, M, d
<1>4. t \in Nat /\ m \in Nat /\ x = t * M + m
  <2>1. x \div M \in Nat /\ x % M \in 0 .. M - 1 /\ x = (x \div M) * M + (x % M)
    BY <1>1, DivMod
  <2>2. x % M \in Nat
    BY <1>1, <2>1
  <2> QED BY <1>3, <2>1, <2>2, Zenon
<1>5. u \in Nat /\ v \in 0 .. d - 1 /\ m = u * d + v
  BY <1>1, <1>4, DivMod
<1> HIDE DEF t, u, v
<1> DEFINE y == t * q
<1>6. y \in Nat
  BY <1>4, SMTT(30)
<1>7. t * M = d * (2 * y)
  BY <1>1, <1>2, <1>4, SMTT(30)
<1>8. x = ((2 * y) + u) * d + v
  <2> HIDE DEF y
  <2>1. d * (2 * y) + u * d = ((2 * y) + u) * d
    BY <1>1, <1>5, <1>6, SMTT(30)
  <2> DEFINE A == d * (2 * y)
             B == u * d
             C == ((2 * y) + u) * d
  <2>2. A \in Nat /\ B \in Nat /\ A + B = C
    BY <1>1, <1>5, <1>6, <2>1, SMTT(30)
  <2> HIDE DEF A, B, C
  <2>3. t * M = A /\ m = B + v
    BY <1>5, <1>7 DEF A, B
  <2>4. x = A + m
    BY <1>4, <2>3, Zenon
  <2>5. x = C + v
    BY <1>5, <2>2, <2>3, <2>4
  <2> QED BY <2>5 DEF C
<1> HIDE DEF y
<1> DEFINE z == (2 * y) + u
<1>9. z \in Nat /\ x \div d = z
  <2>1. z \in Nat
    BY <1>5, <1>6
  <2>2. x = z * d + v
    BY <1>8
  <2> HIDE DEF z
  <2> QED BY <1>1, <1>5, <2>1, <2>2, DivUnique
<1>10. (x \div d) % 2 = u % 2
  BY <1>5, <1>6, <1>9, Parity
<1>11. CASE n = 0
  <2>1. d = 1
    BY <1>11, Pow2Is DEF d
  <2>2. x \div d = x
    BY <1>1, <2>1
  <2>3. x % 2 = b
    BY DEF x
  <2> QED BY <1>4, <1>10, <1>11, <2>2, <2>3 DEF u, d
<1>12. CASE n # 0
  <2> DEFINE h == Pow2[n - 1]
             a == r \div h
             c == r % h
             k == (2 * c) + b
  <2>1. n - 1 \in 0 .. w - 1 /\ n - 1 \in Nat /\ (n - 1) + 1 = n
    BY <1>12
  <2>2. h \in Nat \ {0} /\ d = 2 * h
    BY <2>1, Pow2Divides, Pow2Is DEF d
  <2> HIDE DEF h
  <2>3. a \in Nat /\ c \in 0 .. h - 1 /\ r = a * h + c
    BY <2>2, DivMod
  <2> HIDE DEF a, c
  <2>4. k \in 0 .. d - 1
    BY <2>2, <2>3
  <2>5. x = a * d + k
    <3>1. a * d = 2 * (a * h)
      BY <2>2, <2>3, SMTT(30)
    <3> DEFINE A == a * h
    <3>2. A \in Nat
      BY <2>2, <2>3, SMTT(30)
    <3> HIDE DEF A
    <3>3. a * d = 2 * A /\ r = A + c
      BY <2>3, <3>1 DEF A
    <3> QED BY <2>3, <3>2, <3>3 DEF x
  <2> HIDE DEF k
  <2>6. x \div d = a
    BY <1>1, <2>3, <2>4, <2>5, DivUnique
  <2> QED BY <1>4, <1>10, <1>12, <2>6 DEF u, d, a, h
<1> QED BY <1>11, <1>12

-----------------------------------------------------------------------------
(* Counting places of a sequence.                                          *)

LEMMA Places ==
  ASSUME NEW n \in Nat, NEW K \in SUBSET (1 .. n)
  PROVE  IsFiniteSet(K) /\ Cardinality(K) \in Nat
<1>1. IsFiniteSet(1 .. n)
  BY FS_Interval
<1>2. IsFiniteSet(K)
  BY <1>1, FS_Subset
<1> QED BY <1>2, FS_CardinalityType

LEMMA PlacesSubset ==
  ASSUME NEW n \in Nat, NEW K \in SUBSET (1 .. n), NEW L \in SUBSET K
  PROVE  Cardinality(L) <= Cardinality(K)
  BY Places, FS_Subset

LEMMA PlacesAdd ==
  ASSUME NEW n \in Nat, NEW K \in SUBSET (1 .. n), NEW m \in (1 .. n) \ K
  PROVE  Cardinality(K \cup {m}) = Cardinality(K) + 1
  BY Places, FS_AddElement, Zenon

\* The places of a sequence without its first.
LEMMA PlacesTail ==
  ASSUME NEW n \in Nat \ {0}, NEW K \in SUBSET (1 .. n), NEW L \in SUBSET (1 .. n - 1),
         \A k \in 1 .. n - 1 : k \in L <=> k + 1 \in K
  PROVE  Cardinality(K) = Cardinality(L) + IF 1 \in K THEN 1 ELSE 0
<1> DEFINE K2 == K \ {1}
           f == [k \in L |-> k + 1]
<1>1. n - 1 \in Nat /\ IsFiniteSet(K) /\ IsFiniteSet(L) /\ Cardinality(K) \in Nat /\ Cardinality(L) \in Nat
  <2>1. n - 1 \in Nat /\ n \in Nat
    OBVIOUS
  <2> QED BY <2>1, Places
<1>2. f \in Bijection(L, K2)
  <2>1. \A k \in L : k + 1 \in K2
    OBVIOUS
  <2>2. \A k \in K2 : k - 1 \in L /\ (k - 1) + 1 = k
    OBVIOUS
  <2>3. f \in [L -> K2] /\ \A a, b \in L : f[a] = f[b] => a = b
    BY <2>1
  <2>4. \A k \in K2 : \E a \in L : f[a] = k
    BY <2>2
  <2> QED BY <2>3, <2>4 DEF Bijection, Injection, Surjection, IsInjective
<1>3. ExistsBijection(L, K2)
  BY <1>2 DEF ExistsBijection
<1>4. Cardinality(K2) = Cardinality(L)
  BY <1>1, <1>3, FS_Bijection
<1>5. Cardinality(K2) = IF 1 \in K THEN Cardinality(K) - 1 ELSE Cardinality(K)
  BY <1>1, FS_RemoveElement
<1> QED BY <1>1, <1>4, <1>5

-----------------------------------------------------------------------------
(* Sequences.                                                              *)

IsSeq(s) == \E S : s \in Seq(S)

LEMMA SeqIs ==
  ASSUME NEW s, IsSeq(s)
  PROVE  Len(s) \in Nat /\ DOMAIN s = 1 .. Len(s) /\ (s # <<>> => Len(s) \in Nat \ {0} /\ Head(s) = s[1])
<1>1. PICK S : s \in Seq(S)
  BY DEF IsSeq
<1> QED BY <1>1, LenProperties, EmptySeq

LEMMA NilIs == IsSeq(<<>>) /\ Len(<<>>) = 0 /\ DOMAIN <<>> = {}
<1>1. <<>> \in Seq({}) /\ Len(<<>>) = 0
  BY EmptySeq
<1> QED BY <1>1, LenProperties DEF IsSeq

\* t is s and then e.
Grows(s, e, t) == IsSeq(s) /\ t = Append(s, e)
Grown(s, e, t) ==
  /\ IsSeq(t) /\ Len(t) = Len(s) + 1 /\ DOMAIN t = 1 .. Len(s) + 1
  /\ t[Len(s) + 1] = e /\ \A k \in 1 .. Len(s) : t[k] = s[k]

LEMMA AppendIs ==
  ASSUME NEW s, NEW e, NEW t, Grows(s, e, t)
  PROVE  IsSeq(s) /\ Len(s) \in Nat /\ DOMAIN s = 1 .. Len(s) /\ Grown(s, e, t)
<1>0. IsSeq(s) /\ t = Append(s, e)
  BY DEF Grows
<1>1. PICK S : s \in Seq(S)
  BY <1>0 DEF IsSeq
<1> DEFINE T == S \cup {e}
<1>2. s \in Seq(T)
  BY <1>1, SeqMonotonic
<1>3. e \in T
  OBVIOUS
<1> HIDE DEF T
<1>4. t \in Seq(T) /\ Len(t) = Len(s) + 1 /\ t[Len(s) + 1] = e /\ \A k \in 1 .. Len(s) : t[k] = s[k]
  BY <1>0, <1>2, <1>3, AppendProperties
<1>5. DOMAIN t = 1 .. Len(s) + 1
  BY <1>4, LenProperties
<1>6. IsSeq(t)
  BY <1>4 DEF IsSeq
<1> QED BY <1>0, <1>4, <1>5, <1>6, SeqIs DEF Grown

LEMMA TailIs ==
  ASSUME NEW s, IsSeq(s), s # <<>>, NEW t, t = Tail(s)
  PROVE  /\ IsSeq(t) /\ Len(t) = Len(s) - 1 /\ DOMAIN t = 1 .. Len(s) - 1
         /\ \A k \in 1 .. Len(s) - 1 : t[k] = s[k + 1]
<1>1. PICK S : s \in Seq(S)
  BY DEF IsSeq
<1>2. t \in Seq(S) /\ Len(t) = Len(s) - 1 /\ \A k \in 1 .. Len(t) : t[k] = s[k + 1]
  BY <1>1, HeadTailProperties
<1>3. DOMAIN t = 1 .. Len(t)
  BY <1>2, LenProperties
<1> QED BY <1>2, <1>3 DEF IsSeq

\* t is s with e at place k.
WithAt(s, k, e, t) == t = [s EXCEPT ![k] = e]

LEMMA ExceptIs ==
  ASSUME NEW s, IsSeq(s), NEW k \in 1 .. Len(s), NEW e, NEW t, WithAt(s, k, e, t)
  PROVE  /\ IsSeq(t) /\ Len(t) = Len(s) /\ DOMAIN t = 1 .. Len(s)
         /\ t[k] = e /\ \A j \in 1 .. Len(s) : j # k => t[j] = s[j]
<1>1. PICK S : s \in Seq(S)
  BY DEF IsSeq
<1> DEFINE T == S \cup {e}
<1>2. s \in Seq(T)
  BY <1>1, SeqMonotonic
<1>3. e \in T
  OBVIOUS
<1> HIDE DEF T
<1>4. t \in Seq(T) /\ Len(t) = Len(s) /\ \A j \in 1 .. Len(s) : t[j] = IF j = k THEN e ELSE s[j]
  BY <1>2, <1>3, ExceptSeq DEF WithAt
<1>5. DOMAIN t = 1 .. Len(s)
  BY <1>4, LenProperties
<1> QED BY <1>4, <1>5 DEF IsSeq

\* t is the first n of s.
FrontOf(s, n, t) == t = SubSeq(s, 1, n)

LEMMA FrontIs ==
  ASSUME NEW s, IsSeq(s), NEW n \in 0 .. Len(s), NEW t, FrontOf(s, n, t)
  PROVE  /\ IsSeq(t) /\ Len(t) = n /\ DOMAIN t = 1 .. n /\ \A k \in 1 .. n : t[k] = s[k]
<1>0. t = SubSeq(s, 1, n)
  BY DEF FrontOf
<1>1. PICK S : s \in Seq(S)
  BY DEF IsSeq
<1>2. Len(s) \in Nat /\ \A k \in 1 .. Len(s) : s[k] \in S
  BY <1>1, LenProperties, ElementOfSeq
<1>3. 1 \in Int /\ n \in Int /\ \A k \in 1 .. n : s[k] \in S
  BY <1>2
<1>4. /\ t \in Seq(S) /\ Len(t) = IF 1 <= n THEN n - 1 + 1 ELSE 0
      /\ \A k \in 1 .. n - 1 + 1 : t[k] = s[1 + k - 1]
  BY <1>0, <1>3, SubSeqProperties
<1>5. Len(t) = n /\ \A k \in 1 .. n : t[k] = s[k]
  BY <1>2, <1>4
<1>6. DOMAIN t = 1 .. Len(t)
  BY <1>4, LenProperties
<1> QED BY <1>4, <1>5, <1>6 DEF IsSeq

\* The place at moves to the front of s, as x.
ToFront(s, n, at, x, t) == t = <<x>> \o (SubSeq(s, 1, at - 1) \o SubSeq(s, at + 1, n))
InFrontOf(s, n, at, x, t) == t[1] = x /\ \A k \in 2 .. n : t[k] = s[IF k <= at THEN k - 1 ELSE k]

LEMMA ToFrontIs ==
  ASSUME NEW n \in Nat \ {0}, NEW S, NEW s \in [1 .. n -> S], NEW at \in 1 .. n, NEW x \in S, NEW t,
         ToFront(s, n, at, x, t)
  PROVE  t \in [1 .. n -> S] /\ InFrontOf(s, n, at, x, t)
<1> DEFINE a == SubSeq(s, 1, at - 1)
           b == SubSeq(s, at + 1, n)
           c == a \o b
           y == <<x>>
<1>1. a \in Seq(S) /\ Len(a) = at - 1 /\ \A k \in 1 .. at - 1 : a[k] = s[k]
  <2>1. 1 \in Int /\ at - 1 \in Int /\ \A k \in 1 .. at - 1 : s[k] \in S
    OBVIOUS
  <2>2. /\ a \in Seq(S) /\ Len(a) = IF 1 <= at - 1 THEN (at - 1) - 1 + 1 ELSE 0
        /\ \A k \in 1 .. (at - 1) - 1 + 1 : a[k] = s[1 + k - 1]
    BY <2>1, SubSeqProperties
  <2> HIDE DEF a
  <2> QED BY <2>2
<1>2. b \in Seq(S) /\ Len(b) = n - at /\ \A k \in 1 .. n - at : b[k] = s[at + k]
  <2>1. at + 1 \in Int /\ n \in Int /\ \A k \in at + 1 .. n : s[k] \in S
    OBVIOUS
  <2>2. /\ b \in Seq(S) /\ Len(b) = IF at + 1 <= n THEN n - (at + 1) + 1 ELSE 0
        /\ \A k \in 1 .. n - (at + 1) + 1 : b[k] = s[(at + 1) + k - 1]
    BY <2>1, SubSeqProperties
  <2> HIDE DEF b
  <2>3. \A k \in 1 .. n - at : k \in 1 .. n - (at + 1) + 1 /\ (at + 1) + k - 1 = at + k
    OBVIOUS
  <2>4. \A k \in 1 .. n - at : b[k] = s[at + k]
    BY <2>2, <2>3
  <2> QED BY <2>2, <2>4
<1>3. y \in Seq(S) /\ Len(y) = 1 /\ y[1] = x
  OBVIOUS
<1> HIDE DEF a, b, y
<1>4. /\ c \in Seq(S) /\ Len(c) = n - 1
      /\ \A k \in 1 .. n - 1 : c[k] = IF k <= at - 1 THEN a[k] ELSE b[k - (at - 1)]
  <2>1. (at - 1) + (n - at) = n - 1
    OBVIOUS
  <2>2. /\ c \in Seq(S) /\ Len(c) = Len(a) + Len(b)
        /\ \A k \in 1 .. Len(a) + Len(b) : c[k] = IF k <= Len(a) THEN a[k] ELSE b[k - Len(a)]
    BY <1>1, <1>2, ConcatProperties
  <2> HIDE DEF c
  <2> QED BY <1>1, <1>2, <2>1, <2>2
<1>5. \A k \in 1 .. n - 1 : c[k] = s[IF k <= at - 1 THEN k ELSE k + 1]
  <2> TAKE k \in 1 .. n - 1
  <2>1. CASE k <= at - 1
    BY <1>1, <1>4, <2>1
  <2>2. CASE ~(k <= at - 1)
    <3>1. k - (at - 1) \in 1 .. n - at /\ at + (k - (at - 1)) = k + 1
      BY <2>2
    <3> QED BY <1>2, <1>4, <2>2, <3>1
  <2> QED BY <2>1, <2>2
<1> HIDE DEF c
<1>6. t = y \o c
  BY Zenon DEF y, c, a, b, ToFront
<1>7. /\ t \in Seq(S) /\ Len(t) = 1 + (n - 1)
      /\ \A k \in 1 .. 1 + (n - 1) : t[k] = IF k <= 1 THEN y[k] ELSE c[k - 1]
  <2>1. /\ y \o c \in Seq(S) /\ Len(y \o c) = Len(y) + Len(c)
        /\ \A k \in 1 .. Len(y) + Len(c) : (y \o c)[k] = IF k <= Len(y) THEN y[k] ELSE c[k - Len(y)]
    BY <1>3, <1>4, ConcatProperties
  <2> QED BY <1>3, <1>4, <1>6, <2>1, Zenon
<1>8. Len(t) = n /\ t \in [1 .. Len(t) -> S]
  <2>1. 1 + (n - 1) = n
    OBVIOUS
  <2> QED BY <1>7, <2>1, LenProperties
<1>9. t[1] = x
  BY <1>3, <1>7
<1>10. \A k \in 2 .. n : t[k] = s[IF k <= at THEN k - 1 ELSE k]
  <2> TAKE k \in 2 .. n
  <2>1. k \in 1 .. 1 + (n - 1) /\ k - 1 \in 1 .. n - 1 /\ ~(k <= 1) /\ (k - 1) + 1 = k
    OBVIOUS
  <2>2. t[k] = c[k - 1]
    BY <1>7, <2>1
  <2>3. c[k - 1] = s[IF k - 1 <= at - 1 THEN k - 1 ELSE k]
    BY <1>5, <2>1
  <2> QED BY <2>2, <2>3
<1> QED BY <1>8, <1>9, <1>10, Zenon DEF InFrontOf

-----------------------------------------------------------------------------
(* What bpred_lookup() and bpred_update() do to the predictor.             *)

PredictorStats ==
  [lookups : Nat, addr_hits : Nat, dir_hits : Nat, misses : Nat, used_ras : Nat, used_bimod : Nat,
   used_2lev : Nat, jr_seen : Nat, jr_hits : Nat, jr_non_ras_seen : Nat, jr_non_ras_hits : Nat,
   pops : Nat, pushes : Nat]
BtbEntry == [addr : Nat, target : Nat]
PredRecord(p) ==
  p = [ctr |-> p.ctr, shiftregs |-> p.shiftregs, btb |-> p.btb, stack |-> p.stack, tos |-> p.tos, st |-> p.st]
PredOK(p) ==
  /\ PredRecord(p)
  /\ p.st \in PredictorStats
  /\ p.shiftregs \in [0 .. conf.l1 - 1 -> Nat]
  /\ p.btb \in [0 .. conf.sets - 1 -> [1 .. conf.assoc -> BtbEntry]]
  /\ p.stack \in [0 .. conf.ras - 1 -> Nat]
  /\ conf.ras > 0 => p.tos \in 0 .. conf.ras - 1

\* An instruction whose prediction comes off the stack.
Return(op) == MD_IS_RETURN(op) /\ conf.ras > 0 /\ ~Static(conf)
StatsOK(st) ==
  /\ st.addr_hits <= st.dir_hits
  /\ st.jr_seen = st.jr_non_ras_seen + st.used_ras
  /\ st.jr_hits >= st.jr_non_ras_hits
Trained(st) == st.dir_hits + st.misses
BtbTarget(p, pc) ==
  IF BtbHits(p, pc) = {} THEN 1 ELSE p.btb[BtbSet(pc)][CHOOSE k \in BtbHits(p, pc) : TRUE].target
EntryPlace(p, pc) ==
  IF BtbHits(p, pc) = {} THEN conf.assoc ELSE CHOOSE k \in BtbHits(p, pc) : TRUE
\* x at the front of pc's set, the entry at its place dropped.
InFront(p, pc, x) ==
  LET set == p.btb[BtbSet(pc)]
      at == EntryPlace(p, pc)
  IN  <<x>> \o (SubSeq(set, 1, at - 1) \o SubSeq(set, at + 1, conf.assoc))

LEMMA ConfIs ==
  ASSUME conf \in Predictors
  PROVE  /\ conf.l1 \in Nat \ {0} /\ conf.sets \in Nat \ {0} /\ conf.assoc \in Nat \ {0}
         /\ conf.width \in Nat /\ conf.ras \in Nat
         /\ conf.class \in {"comb", "2lev", "bimod", "taken", "nottaken"}
         /\ conf.update \in {"ID", "WB", "CT", "each"}
<1>1. /\ conf.class \in {"comb", "2lev", "bimod", "taken", "nottaken"}
      /\ conf.update \in {"ID", "WB", "CT", "each"}
      /\ {conf.l1, conf.sets, conf.assoc} \subseteq Nat \ {0} /\ {conf.width, conf.ras} \subseteq Nat
  BY BpredAssumption
<1> QED BY <1>1

LEMMA BtbSetIs ==
  ASSUME conf \in Predictors, NEW pc \in Nat
  PROVE  BtbSet(pc) \in 0 .. conf.sets - 1 /\ L1Index(pc) \in 0 .. conf.l1 - 1
<1>1. BrShift(pc) \in Nat
  BY DEF BrShift
<1> QED BY <1>1, ConfIs, DivMod DEF BtbSet, L1Index

LEMMA PlaceIs ==
  ASSUME conf \in Predictors, NEW p, NEW pc
  PROVE  /\ EntryPlace(p, pc) \in 1 .. conf.assoc
         /\ BtbHits(p, pc) # {} => /\ EntryPlace(p, pc) \in BtbHits(p, pc)
                                   /\ p.btb[BtbSet(pc)][EntryPlace(p, pc)].addr = pc
                                   /\ BtbTarget(p, pc) = p.btb[BtbSet(pc)][EntryPlace(p, pc)].target
<1>1. CASE BtbHits(p, pc) = {}
  BY <1>1, ConfIs DEF EntryPlace
<1>2. CASE BtbHits(p, pc) # {}
  <2>1. EntryPlace(p, pc) \in BtbHits(p, pc)
    BY <1>2 DEF EntryPlace
  <2>2. BtbTarget(p, pc) = p.btb[BtbSet(pc)][EntryPlace(p, pc)].target
    BY <1>2 DEF BtbTarget, EntryPlace
  <2> QED BY <2>1, <2>2 DEF BtbHits
<1> QED BY <1>1, <1>2

LEMMA CountersIs ==
  ASSUME conf \in Predictors, NEW p, NEW op, NEW pc, NEW u, u = Counters(p, op, pc)
  PROVE  "ras" \in DOMAIN u /\ u.ras = FALSE
<1> DEFINE bimod == DirLookup(p, "bimod", pc)
           twolev == DirLookup(p, "twolev", pc)
           meta == DirLookup(p, "meta", pc)
           useTwolev == Counter(p, meta) >= 2
           b == Counter(p, bimod) >= 2
           t == Counter(p, twolev) >= 2
           one == IF useTwolev THEN twolev ELSE bimod
           two == IF useTwolev THEN bimod ELSE twolev
<1>1. \/ u = NoUpdate
      \/ u = [NoUpdate EXCEPT !.pmeta = meta, !.meta = useTwolev, !.bimod = b, !.twolev = t, !.pdir1 = one, !.pdir2 = two]
      \/ u = [NoUpdate EXCEPT !.pdir1 = twolev]
      \/ u = [NoUpdate EXCEPT !.pdir1 = bimod]
  <2>1. CASE op \notin Conditional \/ Static(conf)
    <3>1. u = NoUpdate
      BY <2>1 DEF Counters
    <3> QED BY <3>1, Zenon
  <2>2. CASE ~(op \notin Conditional \/ Static(conf))
    <3>1. conf.class \in {"comb", "2lev", "bimod"}
      BY <2>2, ConfIs DEF Static
    <3>2. CASE conf.class = "comb"
      BY <2>2, <3>2, Zenon DEF Counters
    <3>3. CASE conf.class = "2lev"
      <4>1. conf.class # "comb"
        BY <3>3
      <4> QED BY <2>2, <3>3, <4>1 DEF Counters
    <3>4. CASE conf.class = "bimod"
      <4>1. conf.class # "comb" /\ conf.class # "2lev"
        BY <3>4
      <4> QED BY <2>2, <3>4, <4>1 DEF Counters
    <3> QED BY <3>1, <3>2, <3>3, <3>4
  <2> QED BY <2>1, <2>2
<1> HIDE DEF bimod, twolev, meta, useTwolev, b, t, one, two
<1>2. "ras" \in DOMAIN NoUpdate /\ NoUpdate.ras = FALSE
  BY DEF NoUpdate
<1> QED BY <1>1, <1>2

LookedUp(p, op, pc, btarget, L) == L = Lookup(p, op, pc, btarget)
LookupDone(p, op, pc, L) ==
  /\ PredOK(L.p) /\ L.p.btb = p.btb /\ L.p.shiftregs = p.shiftregs
  /\ StatsOK(p.st) => StatsOK(L.p.st)
  /\ L.p.st.lookups = p.st.lookups + 1 /\ Trained(L.p.st) = Trained(p.st)
  /\ L.p.st.used_ras = p.st.used_ras
  /\ L.p.st.pops = p.st.pops + IF Return(op) THEN 1 ELSE 0
  /\ L.answer \in Nat
  /\ ~Static(conf) /\ ~Return(op) /\ L.answer # 0 => L.answer = BtbTarget(p, pc)
  /\ L.update.ras <=> Return(op)
  /\ conf.ras > 0 => L.idx \in 0 .. conf.ras - 1

\* A lookup moves the top of the stack and counts; it changes no table.
LEMMA LookupIs ==
  ASSUME conf \in Predictors, NEW p, PredOK(p), NEW op, NEW pc \in Nat \ {0}, NEW btarget \in Nat, NEW L,
         LookedUp(p, op, pc, btarget, L)
  PROVE  LookupDone(p, op, pc, L)
<1> DEFINE p1 == [p EXCEPT !.st.lookups = @ + 1]
           up == Counters(p1, op, pc)
           below == (p1.tos + conf.ras - 1) % conf.ras
           p2 == [p1 EXCEPT !.tos = below, !.st.pops = @ + 1]
           target == IF BtbHits(p1, pc) = {} THEN 1
                     ELSE p1.btb[BtbSet(pc)][CHOOSE k \in BtbHits(p1, pc) : TRUE].target
           R(q, a, u, t) == [p |-> q, answer |-> a, update |-> u, idx |-> t]
<1>1. /\ p1.ctr = p.ctr /\ p1.shiftregs = p.shiftregs /\ p1.btb = p.btb /\ p1.stack = p.stack /\ p1.tos = p.tos
      /\ p1.st = [p.st EXCEPT !.lookups = @ + 1] /\ PredRecord(p1)
  BY DEF PredOK, PredRecord
<1>2. /\ p1.st \in PredictorStats /\ p1.st.lookups = p.st.lookups + 1 /\ p1.st.pops = p.st.pops
      /\ p1.st.addr_hits = p.st.addr_hits /\ p1.st.dir_hits = p.st.dir_hits /\ p1.st.misses = p.st.misses
      /\ p1.st.jr_seen = p.st.jr_seen /\ p1.st.jr_non_ras_seen = p.st.jr_non_ras_seen
      /\ p1.st.used_ras = p.st.used_ras /\ p1.st.jr_hits = p.st.jr_hits
      /\ p1.st.jr_non_ras_hits = p.st.jr_non_ras_hits
  <2>1. p.st \in PredictorStats /\ p1.st = [p.st EXCEPT !.lookups = @ + 1]
    BY <1>1 DEF PredOK
  <2> HIDE DEF p1
  <2> QED BY <2>1 DEF PredictorStats
<1> HIDE DEF p1
<1>3. PredOK(p1)
  BY <1>1, <1>2 DEF PredOK
<1>4. "ras" \in DOMAIN up /\ up.ras = FALSE
  BY CountersIs
<1> HIDE DEF up
<1>5. target = BtbTarget(p, pc)
  <2>1. BtbHits(p1, pc) = BtbHits(p, pc)
    BY <1>1, Zenon DEF BtbHits
  <2> QED BY <1>1, <2>1 DEF BtbTarget
<1>6. target \in Nat
  <2>1. CASE BtbHits(p, pc) = {}
    BY <1>5, <2>1 DEF BtbTarget
  <2>2. CASE BtbHits(p, pc) # {}
    <3>1. /\ BtbSet(pc) \in 0 .. conf.sets - 1 /\ EntryPlace(p, pc) \in 1 .. conf.assoc
          /\ BtbTarget(p, pc) = p.btb[BtbSet(pc)][EntryPlace(p, pc)].target
      BY <2>2, BtbSetIs, PlaceIs
    <3>2. p.btb[BtbSet(pc)][EntryPlace(p, pc)] \in BtbEntry
      BY <3>1 DEF PredOK
    <3> QED BY <1>5, <3>1, <3>2 DEF BtbEntry
  <2> QED BY <2>1, <2>2
<1>7. conf.ras \in Nat
  BY ConfIs
<1>8. p1.st.lookups = p.st.lookups + 1 /\ Trained(p1.st) = Trained(p.st) /\ p1.st.used_ras = p.st.used_ras
      /\ p1.st.pops = p.st.pops /\ (StatsOK(p.st) => StatsOK(p1.st))
  BY <1>2 DEF Trained, StatsOK
<1> HIDE DEF target
<1>9. CASE conf.class \in {"taken", "nottaken"}
  <2>1. Static(conf) /\ ~Return(op)
    BY <1>9 DEF Static, Return
  <2>2. PICK a \in Nat : L = R(p1, a, up, 0)
    <3>1. CASE conf.class = "taken"
      <4>1. L = R(p1, btarget, up, 0)
        BY <2>1, <3>1 DEF LookedUp, Lookup, p1, up, Return
      <4> QED BY <4>1, Zenon
    <3>2. CASE conf.class = "nottaken"
      <4> DEFINE a == IF op \in Conditional THEN pc + InstBytes ELSE btarget
      <4>1. a \in Nat
        BY DEF InstBytes
      <4>2. L = R(p1, a, up, 0)
        BY <2>1, <3>2 DEF LookedUp, Lookup, p1, up, Return
      <4> HIDE DEF a
      <4> QED BY <4>1, <4>2, Zenon
    <3> QED BY <1>9, <3>1, <3>2
  <2>3. L.p = p1 /\ L.answer = a /\ L.update = up /\ L.idx = 0
    BY <2>2
  <2> HIDE DEF R
  <2>4. L.p.st.pops = p.st.pops + IF Return(op) THEN 1 ELSE 0
    BY <1>2, <2>1, <2>3 DEF PredOK, PredictorStats
  <2>5. conf.ras > 0 => L.idx \in 0 .. conf.ras - 1
    BY <1>7, <2>3
  <2>6. L.update.ras <=> Return(op)
    BY <1>4, <2>1, <2>3
  <2> QED BY <1>1, <1>3, <1>8, <2>1, <2>3, <2>4, <2>5, <2>6, Zenon DEF LookupDone
<1>10. CASE Return(op)
  <2> DEFINE u == [up EXCEPT !.ras = TRUE]
             a == p1.stack[p1.tos]
             t == p1.tos
  <2>1. L = R(p2, a, u, t)
    <3>1. conf.class # "taken" /\ conf.class # "nottaken" /\ ~Static(conf) /\ MD_IS_RETURN(op) /\ conf.ras > 0
      BY <1>10 DEF Return, Static
    <3> HIDE DEF Return
    <3> QED BY <3>1 DEF LookedUp, Lookup, p1, up
  <2>2. L.p = p2 /\ L.answer = a /\ L.update = u /\ L.idx = t
    BY <2>1
  <2> HIDE DEF R
  <2>3. u.ras = TRUE
    BY <1>4
  <2>4. conf.ras > 0 /\ t \in 0 .. conf.ras - 1 /\ a \in Nat
    BY <1>3, <1>7, <1>10 DEF Return, PredOK
  <2>5. below \in 0 .. conf.ras - 1
    <3>1. t + conf.ras - 1 \in Nat /\ conf.ras \in Nat \ {0}
      BY <1>7, <2>4
    <3> QED BY <3>1, DivMod
  <2> HIDE DEF u, a, below
  <2>6. /\ p2.ctr = p1.ctr /\ p2.shiftregs = p1.shiftregs /\ p2.btb = p1.btb /\ p2.stack = p1.stack /\ p2.tos = below
        /\ p2.st = [p1.st EXCEPT !.pops = @ + 1] /\ PredRecord(p2)
    <3> DEFINE st == [p1.st EXCEPT !.pops = @ + 1]
    <3>1. p2 = [p1 EXCEPT !.tos = below, !.st = st]
      OBVIOUS
    <3> HIDE DEF p2, st
    <3>2. p2.st = st /\ p2.tos = below /\ p2.ctr = p1.ctr /\ p2.shiftregs = p1.shiftregs /\ p2.btb = p1.btb
          /\ p2.stack = p1.stack /\ PredRecord(p2)
      BY <1>1, <3>1 DEF PredRecord
    <3> QED BY <3>2, Zenon DEF st
  <2> HIDE DEF p2
  <2>7. /\ p2.st \in PredictorStats /\ p2.st.lookups = p1.st.lookups /\ p2.st.pops = p1.st.pops + 1
        /\ p2.st.addr_hits = p1.st.addr_hits /\ p2.st.dir_hits = p1.st.dir_hits /\ p2.st.misses = p1.st.misses
        /\ p2.st.jr_seen = p1.st.jr_seen /\ p2.st.jr_non_ras_seen = p1.st.jr_non_ras_seen
        /\ p2.st.used_ras = p1.st.used_ras /\ p2.st.jr_hits = p1.st.jr_hits
        /\ p2.st.jr_non_ras_hits = p1.st.jr_non_ras_hits
    BY <1>2, <2>6 DEF PredictorStats
  <2>8. PredOK(p2)
    BY <1>3, <2>5, <2>6, <2>7 DEF PredOK
  <2>9. p2.st.lookups = p1.st.lookups /\ Trained(p2.st) = Trained(p1.st) /\ p2.st.used_ras = p1.st.used_ras
        /\ p2.st.pops = p1.st.pops + 1 /\ (StatsOK(p1.st) => StatsOK(p2.st))
    BY <2>7 DEF Trained, StatsOK
  <2>10. L.p.st.pops = p.st.pops + IF Return(op) THEN 1 ELSE 0
    BY <1>8, <1>10, <2>2, <2>9
  <2>11. /\ PredOK(L.p) /\ L.p.btb = p.btb /\ L.p.shiftregs = p.shiftregs
         /\ StatsOK(p.st) => StatsOK(L.p.st)
         /\ L.p.st.lookups = p.st.lookups + 1 /\ Trained(L.p.st) = Trained(p.st)
         /\ L.p.st.used_ras = p.st.used_ras /\ L.answer \in Nat
         /\ conf.ras > 0 => L.idx \in 0 .. conf.ras - 1
    BY <1>1, <1>8, <2>2, <2>4, <2>6, <2>8, <2>9, Zenon
  <2>12. L.update.ras <=> Return(op)
    BY <1>10, <2>2, <2>3
  <2> QED BY <1>10, <2>10, <2>11, <2>12, Zenon DEF LookupDone
<1>11. CASE ~(conf.class \in {"taken", "nottaken"}) /\ ~Return(op)
  <2> DEFINE b == op \notin Conditional \/ Counter(p1, up.pdir1) >= 2
             a == IF b THEN target ELSE 0
             t == IF conf.ras > 0 THEN p1.tos ELSE 0
  <2>1. L = R(p1, a, up, t)
    <3>1. conf.class # "taken" /\ conf.class # "nottaken" /\ ~(~Static(conf) /\ MD_IS_RETURN(op) /\ conf.ras > 0)
      BY <1>11 DEF Return, Static
    <3>2. ~MD_IS_CALL(op)
      BY DEF MD_IS_CALL
    <3> QED BY <3>1, <3>2 DEF LookedUp, Lookup, p1, up, target
  <2>2. L.p = p1 /\ L.answer = a /\ L.update = up /\ L.idx = t
    BY <2>1
  <2> HIDE DEF R, b
  <2>3. a \in Nat /\ (a # 0 => a = target)
    BY <1>6
  <2>4. conf.ras > 0 => t \in 0 .. conf.ras - 1
    BY <1>3 DEF PredOK
  <2> HIDE DEF a, t
  <2>5. L.p.st.pops = p.st.pops + IF Return(op) THEN 1 ELSE 0
    BY <1>2, <1>11, <2>2 DEF PredOK, PredictorStats
  <2>6. L.update.ras <=> Return(op)
    BY <1>4, <1>11, <2>2
  <2> QED BY <1>1, <1>3, <1>5, <1>8, <2>2, <2>3, <2>4, <2>5, <2>6, Zenon DEF LookupDone
<1> QED BY <1>9, <1>10, <1>11, Zenon

\* The statistics of one training.
AccountFor(p, e) ==
  Account(p, e.op, e.update, e.next # e.pc + InstBytes, e.pred # e.pc + InstBytes, e.pred = e.next)

LEMMA AccountIs ==
  ASSUME conf \in Predictors, NEW p, PredOK(p), StatsOK(p.st), NEW e, e.update.ras <=> Return(e.op), NEW q,
         q = AccountFor(p, e)
  PROVE  /\ PredOK(q) /\ q.shiftregs = p.shiftregs /\ q.btb = p.btb /\ q.tos = p.tos
         /\ StatsOK(q.st) /\ q.st.lookups = p.st.lookups /\ q.st.pops = p.st.pops
         /\ Trained(q.st) = Trained(p.st) + 1
         /\ q.st.used_ras = p.st.used_ras + IF Return(e.op) THEN 1 ELSE 0
<1> DEFINE one(b) == IF b THEN 1 ELSE 0
           taken == e.next # e.pc + InstBytes
           predTaken == e.pred # e.pc + InstBytes
           correct == e.pred = e.next
           ras == e.update.ras
           cond == ~e.update.ras /\ e.op \in Conditional
           jr == MD_IS_INDIR(e.op)
           hit == one(correct)
           dir == one(predTaken = taken)
           miss == one(predTaken # taken)
           used == one(e.update.ras)
           twolev == one(cond /\ e.update.meta)
           bimod == one(cond /\ ~e.update.meta)
           jrs == one(jr)
           jrh == one(jr /\ correct)
           nrs == one(jr /\ ~e.update.ras)
           nrh == one(jr /\ ~e.update.ras /\ correct)
           st == p.st
           st2 == [st EXCEPT !.addr_hits = @ + hit, !.dir_hits = @ + dir, !.misses = @ + miss, !.used_ras = @ + used,
                             !.used_2lev = @ + twolev, !.used_bimod = @ + bimod, !.jr_seen = @ + jrs,
                             !.jr_hits = @ + jrh, !.jr_non_ras_seen = @ + nrs, !.jr_non_ras_hits = @ + nrh]
<1>1. q = [p EXCEPT !.st = st2]
  BY DEF AccountFor, Account
<1>2. /\ hit \in {0, 1} /\ dir \in {0, 1} /\ miss \in {0, 1} /\ used \in {0, 1} /\ twolev \in {0, 1} /\ bimod \in {0, 1}
      /\ jrs \in {0, 1} /\ jrh \in {0, 1} /\ nrs \in {0, 1} /\ nrh \in {0, 1}
  BY Zenon
<1>3. used = IF Return(e.op) THEN 1 ELSE 0
  OBVIOUS
<1>4. jrs = nrs + used
  BY DEF Return, MD_IS_RETURN, MD_IS_INDIR
<1>5. jrh >= nrh /\ dir + miss = 1
  OBVIOUS
<1>6. hit <= dir
  OBVIOUS
<1> HIDE DEF hit, dir, miss, used, twolev, bimod, jrs, jrh, nrs, nrh, st
<1>7. st \in PredictorStats
  BY DEF PredOK, st
<1>8. /\ st2 \in PredictorStats /\ st2.lookups = st.lookups /\ st2.pops = st.pops
      /\ st2.addr_hits = st.addr_hits + hit /\ st2.dir_hits = st.dir_hits + dir /\ st2.misses = st.misses + miss
      /\ st2.used_ras = st.used_ras + used /\ st2.jr_seen = st.jr_seen + jrs /\ st2.jr_hits = st.jr_hits + jrh
      /\ st2.jr_non_ras_seen = st.jr_non_ras_seen + nrs /\ st2.jr_non_ras_hits = st.jr_non_ras_hits + nrh
  <2> DEFINE n1 == st.addr_hits + hit
             n2 == st.dir_hits + dir
             n3 == st.misses + miss
             n4 == st.used_ras + used
             n5 == st.used_2lev + twolev
             n6 == st.used_bimod + bimod
             n7 == st.jr_seen + jrs
             n8 == st.jr_hits + jrh
             n9 == st.jr_non_ras_seen + nrs
             n10 == st.jr_non_ras_hits + nrh
  <2>1. /\ n1 \in Nat /\ n2 \in Nat /\ n3 \in Nat /\ n4 \in Nat /\ n5 \in Nat
        /\ n6 \in Nat /\ n7 \in Nat /\ n8 \in Nat /\ n9 \in Nat /\ n10 \in Nat
    BY <1>2, <1>7 DEF PredictorStats
  <2>2. st2 = [st EXCEPT !.addr_hits = n1, !.dir_hits = n2, !.misses = n3, !.used_ras = n4, !.used_2lev = n5,
                         !.used_bimod = n6, !.jr_seen = n7, !.jr_hits = n8, !.jr_non_ras_seen = n9,
                         !.jr_non_ras_hits = n10]
    BY Zenon
  <2> HIDE DEF n1, n2, n3, n4, n5, n6, n7, n8, n9, n10, st2
  <2>3. st2 = [lookups |-> st.lookups, addr_hits |-> n1, dir_hits |-> n2, misses |-> n3, used_ras |-> n4,
               used_bimod |-> n6, used_2lev |-> n5, jr_seen |-> n7, jr_hits |-> n8, jr_non_ras_seen |-> n9,
               jr_non_ras_hits |-> n10, pops |-> st.pops, pushes |-> st.pushes]
    BY <1>7, <2>2 DEF PredictorStats
  <2>4. st2 \in PredictorStats
    BY <1>7, <2>1, <2>3 DEF PredictorStats
  <2>5. /\ st2.lookups = st.lookups /\ st2.pops = st.pops /\ st2.addr_hits = n1 /\ st2.dir_hits = n2 /\ st2.misses = n3
        /\ st2.used_ras = n4 /\ st2.jr_seen = n7 /\ st2.jr_hits = n8 /\ st2.jr_non_ras_seen = n9
        /\ st2.jr_non_ras_hits = n10
    BY <2>3
  <2> QED BY <2>4, <2>5, Zenon DEF n1, n2, n3, n4, n7, n8, n9, n10
<1> HIDE DEF st2
<1>9. q.st = st2 /\ q.shiftregs = p.shiftregs /\ q.btb = p.btb /\ q.tos = p.tos /\ q.stack = p.stack /\ PredRecord(q)
  BY <1>1 DEF PredOK, PredRecord
<1>10. PredOK(q)
  BY <1>8, <1>9 DEF PredOK
<1>11. StatsOK(st2) /\ Trained(st2) = Trained(st) + 1
  <2>1. /\ st.addr_hits \in Nat /\ st.dir_hits \in Nat /\ st.misses \in Nat /\ st.used_ras \in Nat /\ st.jr_seen \in Nat
        /\ st.jr_hits \in Nat /\ st.jr_non_ras_seen \in Nat /\ st.jr_non_ras_hits \in Nat
    BY <1>7 DEF PredictorStats
  <2>2. StatsOK(st)
    BY DEF st
  <2> QED BY <1>2, <1>4, <1>5, <1>6, <1>8, <2>1, <2>2 DEF StatsOK, Trained
<1>12. q.st.used_ras = p.st.used_ras + IF Return(e.op) THEN 1 ELSE 0
  BY <1>3, <1>8, <1>9, Zenon DEF st
<1> QED BY <1>8, <1>9, <1>10, <1>11, <1>12, Zenon DEF st

\* Training counters touches nothing else.
LEMMA TrainIs ==
  ASSUME NEW p, NEW at, NEW up, NEW q, q = Train(p, at, up), PredOK(p)
  PROVE  PredOK(q) /\ q.shiftregs = p.shiftregs /\ q.btb = p.btb /\ q.tos = p.tos /\ q.st = p.st
<1>1. CASE at = NoCounter
  BY <1>1, Zenon DEF Train
<1>2. CASE at # NoCounter
  <2> DEFINE ctr == [p.ctr EXCEPT ![at.dir][at.k] = Saturate(@, up)]
  <2>1. q = [p EXCEPT !.ctr = ctr]
    BY <1>2 DEF Train
  <2> HIDE DEF ctr
  <2>2. q.st = p.st /\ q.shiftregs = p.shiftregs /\ q.btb = p.btb /\ q.tos = p.tos /\ q.stack = p.stack /\ PredRecord(q)
    BY <2>1 DEF PredOK, PredRecord
  <2> QED BY <2>2, Zenon DEF PredOK
<1> QED BY <1>1, <1>2

\* A branch that shifts a history register; one that is entered in the BTB.
Shifts(op) == op \in Conditional /\ conf.class \in {"2lev", "comb"}
Taken(e) == e.next # e.pc + InstBytes
Shifted(p, a, e) ==
  [p.shiftregs EXCEPT ![L1Index(a)] = ((2 * @) + (IF Taken(e) THEN 1 ELSE 0)) % Pow2[conf.width]]

\* The update record of e knows whether its prediction came off the stack.
RasRight(e) == e.update.ras <=> Return(e.op)
Updated(p, e, a, q) == q = UpdateFor(p, e, a)
\* What a training adds to the statistics.
TrainedOnce(p, q, op) ==
  /\ q.st.lookups = p.st.lookups /\ q.st.pops = p.st.pops
  /\ Trained(q.st) = Trained(p.st) + 1
  /\ q.st.used_ras = p.st.used_ras + IF Return(op) THEN 1 ELSE 0
\* What it does to the tables: x enters the BTB, unless nothing does.
Entering(p, e, a, q, x) ==
  /\ x.addr = a
  /\ \/ x.target = e.next
     \/ x = p.btb[BtbSet(a)][EntryPlace(p, a)] /\ e.pred = e.next
  /\ q.btb = [p.btb EXCEPT ![BtbSet(a)] = InFront(p, a, x)]
TablesAfter(p, e, a, q) ==
  /\ q.shiftregs = IF Shifts(e.op) THEN Shifted(p, a, e) ELSE p.shiftregs
  /\ ~Taken(e) \/ Static(conf) \/ Return(e.op) => q.btb = p.btb
  /\ Taken(e) /\ ~Static(conf) /\ ~Return(e.op) => \E x \in BtbEntry : Entering(p, e, a, q, x)

\* Training on e, filed under a.
LEMMA UpdateForIs ==
  ASSUME conf \in Predictors, NEW p, PredOK(p), StatsOK(p.st), NEW a \in Nat \ {0}, NEW e, e.next \in Nat,
         RasRight(e), NEW q, Updated(p, e, a, q)
  PROVE  PredOK(q) /\ q.tos = p.tos /\ StatsOK(q.st) /\ TrainedOnce(p, q, e.op) /\ TablesAfter(p, e, a, q)
<1> DEFINE u == e.update
           taken == e.next # e.pc + InstBytes
           p1 == AccountFor(p, e)
           p2 == IF e.op \in Conditional /\ conf.class \in {"2lev", "comb"} THEN Shift(p1, a, taken) ELSE p1
           p3 == Train(p2, u.pdir1, taken)
           p4 == Train(p3, u.pdir2, taken)
           p5 == IF u.bimod # u.twolev THEN Train(p4, u.pmeta, u.twolev = taken) ELSE p4
           skip == (MD_IS_INDIR(e.op) /\ u.ras) \/ Static(conf)
           regs == IF Shifts(e.op) THEN Shifted(p, a, e) ELSE p.shiftregs
           Same(x) == PredOK(x) /\ x.shiftregs = regs /\ x.btb = p.btb /\ x.tos = p.tos /\ x.st = p1.st
<1>1. q = IF skip THEN p1 ELSE IF taken THEN EnterBtb(p5, a, e.next, e.pred = e.next) ELSE p5
  BY Zenon DEF UpdateFor, Update, AccountFor, Updated
<1>2. skip <=> Return(e.op) \/ Static(conf)
  BY DEF Return, MD_IS_RETURN, MD_IS_INDIR, RasRight
<1>3. taken <=> Taken(e)
  BY DEF Taken
<1>4. /\ PredOK(p1) /\ p1.shiftregs = p.shiftregs /\ p1.btb = p.btb /\ p1.tos = p.tos
      /\ StatsOK(p1.st) /\ p1.st.lookups = p.st.lookups /\ p1.st.pops = p.st.pops
      /\ Trained(p1.st) = Trained(p.st) + 1
      /\ p1.st.used_ras = p.st.used_ras + IF Return(e.op) THEN 1 ELSE 0
  <2> HIDE DEF p1
  <2>1. p1 = AccountFor(p, e)
    BY Zenon DEF p1
  <2>2. e.update.ras <=> Return(e.op)
    BY DEF RasRight
  <2> QED BY <2>1, <2>2, AccountIs
<1> HIDE DEF p1, skip
<1>5. L1Index(a) \in 0 .. conf.l1 - 1 /\ BtbSet(a) \in 0 .. conf.sets - 1 /\ conf.width \in Nat
  BY BtbSetIs, ConfIs
<1>6. Same(p2)
  <2>1. CASE Shifts(e.op)
    <3> DEFINE bit == IF taken THEN 1 ELSE 0
               v == ((2 * p.shiftregs[L1Index(a)]) + bit) % Pow2[conf.width]
    <3>1. v \in Nat
      <4> DEFINE z == (2 * p.shiftregs[L1Index(a)]) + bit
      <4>1. z \in Nat
        <5>1. p.shiftregs[L1Index(a)] \in Nat
          BY <1>5 DEF PredOK
        <5>2. bit \in Nat
          OBVIOUS
        <5> QED BY <5>1, <5>2
      <4>2. Pow2[conf.width] \in Nat \ {0}
        BY <1>5, Pow2Divides
      <4> HIDE DEF z
      <4>3. z % Pow2[conf.width] \in 0 .. Pow2[conf.width] - 1
        BY <4>1, <4>2, DivMod
      <4>4. z % Pow2[conf.width] \in Nat
        BY <4>2, <4>3
      <4> QED BY <4>4, Zenon DEF z
    <3>2. p2 = [p1 EXCEPT !.shiftregs = [p1.shiftregs EXCEPT ![L1Index(a)] = v]]
      BY <1>4, <2>1 DEF Shift, Shifts
    <3>3. regs = [p1.shiftregs EXCEPT ![L1Index(a)] = v]
      BY <1>3, <1>4, <2>1 DEF Shifted
    <3> HIDE DEF v, p2, regs
    <3>4. regs \in [0 .. conf.l1 - 1 -> Nat]
      BY <1>4, <3>1, <3>3 DEF PredOK
    <3>5. p2.shiftregs = regs /\ p2.btb = p1.btb /\ p2.tos = p1.tos /\ p2.st = p1.st /\ p2.stack = p1.stack /\ PredRecord(p2)
      BY <1>4, <3>2, <3>3 DEF PredOK, PredRecord
    <3> QED BY <1>4, <3>4, <3>5, Zenon DEF PredOK
  <2>2. CASE ~Shifts(e.op)
    BY <1>4, <2>2, Zenon DEF Shifts
  <2> QED BY <2>1, <2>2
<1> HIDE DEF p2, regs
<1>7. Same(p3)
  <2>1. PredOK(p2) /\ p3 = Train(p2, u.pdir1, taken)
    BY <1>6
  <2> HIDE DEF p3, taken
  <2>2. PredOK(p3) /\ p3.shiftregs = p2.shiftregs /\ p3.btb = p2.btb /\ p3.tos = p2.tos /\ p3.st = p2.st
    BY <2>1, TrainIs
  <2> QED BY <1>6, <2>2, Zenon
<1> HIDE DEF p3
<1>8. Same(p4)
  <2>1. PredOK(p3) /\ p4 = Train(p3, u.pdir2, taken)
    BY <1>7
  <2> HIDE DEF p4, taken
  <2>2. PredOK(p4) /\ p4.shiftregs = p3.shiftregs /\ p4.btb = p3.btb /\ p4.tos = p3.tos /\ p4.st = p3.st
    BY <2>1, TrainIs
  <2> QED BY <1>7, <2>2, Zenon
<1> HIDE DEF p4
<1>9. Same(p5)
  <2>1. CASE u.bimod # u.twolev
    <3> DEFINE right == u.twolev = taken
    <3>1. PredOK(p4) /\ p5 = Train(p4, u.pmeta, right)
      BY <1>8, <2>1, Zenon
    <3> HIDE DEF p5, right
    <3>2. PredOK(p5) /\ p5.shiftregs = p4.shiftregs /\ p5.btb = p4.btb /\ p5.tos = p4.tos /\ p5.st = p4.st
      BY <3>1, TrainIs
    <3> QED BY <1>8, <3>2, Zenon
  <2>2. CASE ~(u.bimod # u.twolev)
    BY <1>8, <2>2, Zenon
  <2> QED BY <2>1, <2>2
<1> HIDE DEF p5
<1>10. CASE skip
  <2>1. q = p1 /\ ~Shifts(e.op)
    BY <1>1, <1>10, <1>2 DEF Shifts, Static, Return, MD_IS_RETURN, Conditional
  <2>2. TrainedOnce(p, q, e.op)
    BY <1>4, <2>1, Zenon DEF TrainedOnce
  <2>3. TablesAfter(p, e, a, q)
    BY <1>2, <1>4, <1>10, <2>1, Zenon DEF TablesAfter
  <2> QED BY <1>4, <2>1, <2>2, <2>3, Zenon
<1>11. CASE ~skip /\ ~taken
  <2>1. q = p5
    BY <1>1, <1>11
  <2>2. TrainedOnce(p, q, e.op)
    BY <1>4, <1>9, <2>1, Zenon DEF TrainedOnce
  <2>3. TablesAfter(p, e, a, q)
    BY <1>3, <1>9, <1>11, <2>1, Zenon DEF TablesAfter, regs
  <2> QED BY <1>4, <1>9, <2>1, <2>2, <2>3, Zenon
<1>12. CASE ~skip /\ taken
  <2> DEFINE set == p.btb[BtbSet(a)]
             at == EntryPlace(p, a)
             x == IF set[at].addr = a /\ e.pred = e.next THEN set[at] ELSE [addr |-> a, target |-> e.next]
             front == InFront(p, a, x)
             btb == [p.btb EXCEPT ![BtbSet(a)] = front]
  <2>1. q = [p5 EXCEPT !.btb = btb]
    <3>1. q = EnterBtb(p5, a, e.next, e.pred = e.next)
      BY <1>1, <1>12
    <3>2. BtbHits(p5, a) = BtbHits(p, a) /\ p5.btb = p.btb
      BY <1>9, Zenon DEF BtbHits
    <3>3. EntryPlace(p5, a) = at
      BY <3>2 DEF EntryPlace
    <3>4. EnterBtb(p5, a, e.next, e.pred = e.next) = [p5 EXCEPT !.btb = [p5.btb EXCEPT ![BtbSet(a)] =
              <<IF p5.btb[BtbSet(a)][EntryPlace(p5, a)].addr = a /\ e.pred = e.next
                THEN p5.btb[BtbSet(a)][EntryPlace(p5, a)] ELSE [addr |-> a, target |-> e.next]>>
              \o (SubSeq(p5.btb[BtbSet(a)], 1, EntryPlace(p5, a) - 1)
                  \o SubSeq(p5.btb[BtbSet(a)], EntryPlace(p5, a) + 1, conf.assoc))]]
      BY Zenon DEF EnterBtb, EntryPlace
    <3> HIDE DEF at
    <3> QED BY <3>1, <3>2, <3>3, <3>4, Zenon DEF InFront, at
  <2>2. at \in 1 .. conf.assoc /\ set \in [1 .. conf.assoc -> BtbEntry]
    BY <1>5, PlaceIs DEF PredOK
  <2> HIDE DEF at, set
  <2>3. x \in BtbEntry /\ x.addr = a /\ (x.target = e.next \/ (x = set[at] /\ e.pred = e.next))
    BY <2>2 DEF BtbEntry
  <2> HIDE DEF x
  <2>4. front \in [1 .. conf.assoc -> BtbEntry]
    <3>1. ToFront(set, conf.assoc, at, x, front)
      BY Zenon DEF InFront, set, at, ToFront
    <3>2. conf.assoc \in Nat \ {0}
      BY ConfIs
    <3> HIDE DEF front
    <3>3. at \in 1 .. conf.assoc /\ set \in [1 .. conf.assoc -> BtbEntry] /\ x \in BtbEntry
      BY <2>2, <2>3, Zenon
    <3> QED BY <3>1, <3>2, <3>3, ToFrontIs, Zenon
  <2> HIDE DEF front
  <2>5. btb \in [0 .. conf.sets - 1 -> [1 .. conf.assoc -> BtbEntry]]
    BY <1>5, <2>4 DEF PredOK
  <2> HIDE DEF btb
  <2>6. /\ q.btb = btb /\ q.shiftregs = p5.shiftregs /\ q.tos = p5.tos /\ q.st = p5.st
        /\ q.stack = p5.stack /\ PredRecord(q)
    BY <1>9, <2>1 DEF PredOK, PredRecord
  <2>7. PredOK(q)
    BY <1>9, <2>5, <2>6, Zenon DEF PredOK
  <2>8. Entering(p, e, a, q, x)
    BY <2>3, <2>6, Zenon DEF btb, front, set, at, Entering
  <2>9. ~(~Taken(e) \/ Static(conf) \/ Return(e.op))
    BY <1>2, <1>3, <1>12
  <2>10. TrainedOnce(p, q, e.op)
    BY <1>4, <1>9, <2>6, Zenon DEF TrainedOnce
  <2>11. TablesAfter(p, e, a, q)
    BY <1>9, <2>3, <2>6, <2>8, <2>9, Zenon DEF TablesAfter, regs
  <2> QED BY <1>4, <1>9, <2>6, <2>7, <2>10, <2>11, Zenon
<1> QED BY <1>10, <1>11, <1>12, Zenon

-----------------------------------------------------------------------------
(* The branch target buffer.                                               *)

TakenIn(h, k) == h[k].next # h[k].pc + InstBytes
JumpsIn(h, pc) == {k \in DOMAIN h : h[k].pc = pc /\ TakenIn(h, k)}
LastOf(h, pc) == h[CHOOSE k \in JumpsIn(h, pc) : \A l \in JumpsIn(h, pc) : l <= k].next

\* An entry of set s, after the control transfers h of the right path.
GoodEntry(x, s, h) ==
  /\ x.addr \in Nat \ {0} /\ BtbSet(x.addr) = s
  /\ conf.update \in {"ID", "each"} =>
       /\ \E k \in DOMAIN h : TakenIn(h, k) /\ h[k].pc = x.addr /\ h[k].next = x.target
       /\ ~UsesRas(InstAt(x.addr).op)
  /\ conf.update = "each" => x.target = LastOf(h, x.addr)
SetOK(set, s, h) ==
  /\ \A k \in 1 .. conf.assoc : set[k] = NoEntry \/ GoodEntry(set[k], s, h)
  /\ \A k, l \in 1 .. conf.assoc : k # l /\ set[k] # NoEntry => set[l].addr # set[k].addr
BtbOK(p, h) ==
  /\ \A s \in 0 .. conf.sets - 1 : SetOK(p.btb[s], s, h)
  /\ Static(conf) => \A s \in 0 .. conf.sets - 1 : \A k \in 1 .. conf.assoc : p.btb[s][k] = NoEntry

LEMMA GreatestExists ==
  ASSUME NEW n \in Nat, NEW K \in SUBSET (1 .. n), K # {}
  PROVE  \E x \in K : \A y \in K : y <= x
<1> DEFINE D == {d \in 0 .. n : n - d \in K}
<1>1. D \in SUBSET Nat
  OBVIOUS
<1>2. D # {}
  <2>1. PICK x \in K : TRUE
    OBVIOUS
  <2>2. n - x \in 0 .. n /\ n - (n - x) = x
    BY <2>1
  <2> QED BY <2>1, <2>2
<1>3. PICK d \in D : \A y \in D : d <= y
  <2> HIDE DEF D
  <2> QED BY <1>1, <1>2, LeastExists
<1>4. \A y \in K : n - y \in D
  <2> TAKE y \in K
  <2>1. n - y \in 0 .. n /\ n - (n - y) = y
    OBVIOUS
  <2> QED BY <2>1
<1>5. \A y \in K : d <= n - y
  BY <1>3, <1>4
<1>6. n - d \in K /\ d \in Nat
  BY <1>3
<1>7. \A y \in K : y <= n - d
  BY <1>5, <1>6
<1> QED BY <1>6, <1>7

\* The last jump from pc, when another transfer follows.
LEMMA LastIs ==
  ASSUME NEW h, NEW j, NEW g, Grows(h, j, g)
  PROVE  /\ \A from : \A k \in JumpsIn(h, from) :
              (j.pc = from => j.next = j.pc + InstBytes) => LastOf(g, from) = LastOf(h, from)
         /\ j.next # j.pc + InstBytes => LastOf(g, j.pc) = j.next
<1> DEFINE n == Len(h)
<1>1. /\ n \in Nat /\ DOMAIN h = 1 .. n /\ DOMAIN g = 1 .. n + 1 /\ g[n + 1] = j
      /\ \A k \in 1 .. n : g[k] = h[k]
  BY AppendIs DEF Grown
<1> HIDE DEF n
<1>2. ASSUME NEW pc, NEW x \in JumpsIn(h, pc), j.pc = pc => j.next = j.pc + InstBytes
      PROVE  LastOf(g, pc) = LastOf(h, pc)
  <2> DEFINE J == JumpsIn(h, pc)
             m == CHOOSE k \in J : \A l \in J : l <= k
  <2>1. JumpsIn(g, pc) = J
    <3>1. \A k \in 1 .. n : k \in JumpsIn(g, pc) <=> k \in J
      BY <1>1 DEF JumpsIn, TakenIn
    <3>2. n + 1 \notin JumpsIn(g, pc) /\ n + 1 \notin J
      BY <1>1, <1>2 DEF JumpsIn, TakenIn
    <3>3. JumpsIn(g, pc) \subseteq 1 .. n + 1 /\ J \subseteq 1 .. n + 1
      BY <1>1 DEF JumpsIn
    <3>4. \A k \in 1 .. n + 1 : k \in 1 .. n \/ k = n + 1
      BY <1>1
    <3> HIDE DEF J
    <3>5. \A k : k \in JumpsIn(g, pc) <=> k \in J
      BY <3>1, <3>2, <3>3, <3>4, Zenon
    <3> QED BY <3>5, Zenon
  <2>2. J \in SUBSET (1 .. n) /\ J # {}
    BY <1>1, <1>2 DEF JumpsIn
  <2> HIDE DEF J
  <2>3. \E k \in J : \A l \in J : l <= k
    <3>1. n \in Nat
      BY <1>1
    <3> HIDE DEF n
    <3> QED BY <2>2, <3>1, GreatestExists
  <2>4. m \in J
    BY <2>3
  <2>5. g[m] = h[m]
    BY <1>1, <2>2, <2>4
  <2>6. LastOf(g, pc) = g[m].next /\ LastOf(h, pc) = h[m].next
    BY <2>1 DEF LastOf, J
  <2> QED BY <2>5, <2>6
<1>3. ASSUME j.next # j.pc + InstBytes PROVE LastOf(g, j.pc) = j.next
  <2> DEFINE J == JumpsIn(g, j.pc)
             m == CHOOSE k \in J : \A l \in J : l <= k
  <2>1. n + 1 \in J /\ \A l \in J : l \in Int /\ l <= n + 1
    BY <1>1, <1>3 DEF JumpsIn, TakenIn
  <2> HIDE DEF J
  <2>2. m \in J /\ \A l \in J : l <= m
    BY <2>1
  <2>3. m = n + 1
    BY <1>1, <2>1, <2>2
  <2> QED BY <1>1, <2>3 DEF LastOf, J
<1> QED BY <1>2, <1>3

LEMMA EntryStays ==
  ASSUME NEW h, NEW j, NEW g, conf.update \in {"ID", "each"} => Grows(h, j, g),
         NEW x, NEW s, GoodEntry(x, s, h),
         conf.update = "each" => ~(j.pc = x.addr /\ j.next # j.pc + InstBytes)
  PROVE  GoodEntry(x, s, g)
<1>1. CASE conf.update \in {"ID", "each"}
  <2>1. /\ Len(h) \in Nat /\ DOMAIN h = 1 .. Len(h) /\ DOMAIN g = 1 .. Len(h) + 1
        /\ \A k \in 1 .. Len(h) : g[k] = h[k]
    BY <1>1, AppendIs DEF Grown
  <2>2. PICK k \in DOMAIN h : TakenIn(h, k) /\ h[k].pc = x.addr /\ h[k].next = x.target
    BY <1>1 DEF GoodEntry
  <2>3. k \in DOMAIN g /\ TakenIn(g, k) /\ g[k].pc = x.addr /\ g[k].next = x.target
    BY <2>1, <2>2 DEF TakenIn
  <2>4. conf.update = "each" => LastOf(g, x.addr) = LastOf(h, x.addr)
    <3>1. k \in JumpsIn(h, x.addr)
      BY <2>2 DEF JumpsIn
    <3>2. Grows(h, j, g)
      BY <1>1
    <3> QED BY <3>1, <3>2, LastIs
  <2> QED BY <2>3, <2>4 DEF GoodEntry
<1>2. CASE ~(conf.update \in {"ID", "each"})
  BY <1>2 DEF GoodEntry
<1> QED BY <1>1, <1>2

\* A transfer that leaves the BTB as it is.
LEMMA BtbStays ==
  ASSUME NEW p, NEW h, BtbOK(p, h), NEW j, NEW g,
         conf.update \in {"ID", "each"} => Grows(h, j, g), NEW q, q.btb = p.btb,
         conf.update = "each" => Static(conf) \/ j.next = j.pc + InstBytes \/ UsesRas(InstAt(j.pc).op)
  PROVE  BtbOK(q, g)
<1>1. ASSUME NEW s \in 0 .. conf.sets - 1 PROVE SetOK(q.btb[s], s, g)
  <2> DEFINE set == p.btb[s]
  <2>1. SetOK(set, s, h) /\ (Static(conf) => \A k \in 1 .. conf.assoc : set[k] = NoEntry)
    BY <1>1 DEF BtbOK
  <2> HIDE DEF set
  <2>2. ASSUME NEW k \in 1 .. conf.assoc, set[k] # NoEntry PROVE GoodEntry(set[k], s, g)
    <3>1. GoodEntry(set[k], s, h) /\ ~Static(conf)
      BY <2>1, <2>2 DEF SetOK
    <3>2. conf.update = "each" => ~(j.pc = set[k].addr /\ j.next # j.pc + InstBytes)
      <4>1. conf.update = "each" => ~UsesRas(InstAt(set[k].addr).op)
        BY <3>1 DEF GoodEntry
      <4> QED BY <3>1, <4>1
    <3> QED BY <3>1, <3>2, EntryStays
  <2>3. SetOK(set, s, g)
    BY <2>1, <2>2 DEF SetOK
  <2> QED BY <2>3, Zenon DEF set
<1> QED BY <1>1 DEF BtbOK

\* A taken branch at a enters its set as x.
Enters(p, q, a, x) == q.btb = [p.btb EXCEPT ![BtbSet(a)] = InFront(p, a, x)]
Entered(p, a, x, j) ==
  /\ x.addr = a
  /\ \/ x.target = j.next
     \/ x = p.btb[BtbSet(a)][EntryPlace(p, a)] /\ conf.update # "each"

LEMMA BtbEnters ==
  ASSUME conf \in Predictors, NEW p, PredOK(p), NEW h, NEW j, NEW g, BtbOK(p, h), NEW a \in Nat \ {0},
         conf.update \in {"ID", "each"} =>
           Grows(h, j, g) /\ j.pc = a /\ j.next # j.pc + InstBytes /\ ~UsesRas(InstAt(a).op),
         ~Static(conf), NEW x \in BtbEntry, Entered(p, a, x, j), NEW q, Enters(p, q, a, x)
  PROVE  BtbOK(q, g)
<1> DEFINE s0 == BtbSet(a)
           set == p.btb[s0]
           at == EntryPlace(p, a)
           new == InFront(p, a, x)
           n == conf.assoc
           From(k) == IF k <= at THEN k - 1 ELSE k
<1>1. s0 \in 0 .. conf.sets - 1 /\ at \in 1 .. n /\ n \in Nat \ {0}
  BY BtbSetIs, PlaceIs, ConfIs
<1>2. SetOK(set, s0, h) /\ set \in [1 .. n -> BtbEntry]
  BY <1>1 DEF BtbOK, PredOK
<1>3. \A k \in 1 .. n : k # at => set[k].addr # a
  <2>1. CASE BtbHits(p, a) = {}
    BY <2>1 DEF BtbHits
  <2>2. CASE BtbHits(p, a) # {}
    <3>1. set[at].addr = a
      BY <2>2, PlaceIs
    <3>2. set[at] # NoEntry
      BY <3>1 DEF NoEntry
    <3> HIDE DEF set, at, n
    <3>3. \A l \in 1 .. n : at # l => set[l].addr # set[at].addr
      BY <1>1, <1>2, <3>2 DEF SetOK, n
    <3> QED BY <3>1, <3>3
  <2> QED BY <2>1, <2>2
<1>4. /\ new \in [1 .. n -> BtbEntry] /\ new[1] = x
      /\ \A k \in 2 .. n : new[k] = set[From(k)]
  <2>1. ToFront(set, n, at, x, new)
    BY Zenon DEF InFront, ToFront
  <2> HIDE DEF new, set, at, n
  <2>2. n \in Nat \ {0}
    BY <1>1
  <2>3. at \in 1 .. n /\ set \in [1 .. n -> BtbEntry] /\ x \in BtbEntry
    BY <1>1, <1>2
  <2>4. new \in [1 .. n -> BtbEntry] /\ InFrontOf(set, n, at, x, new)
    BY <2>1, <2>2, <2>3, ToFrontIs, Zenon
  <2> QED BY <2>4, Zenon DEF InFrontOf
<1>5. \A k \in 2 .. n : From(k) \in 1 .. n /\ From(k) # at /\ \A l \in 2 .. n : l # k => From(l) # From(k)
  <2> HIDE DEF at, n
  <2> QED BY <1>1
<1>6. GoodEntry(x, s0, g)
  <2>1. x.addr = a
    BY DEF Entered
  <2>2. CASE ~(conf.update \in {"ID", "each"})
    BY <2>1, <2>2 DEF GoodEntry
  <2>3. CASE conf.update \in {"ID", "each"}
    <3>1. Grows(h, j, g) /\ j.pc = a /\ j.next # j.pc + InstBytes /\ ~UsesRas(InstAt(a).op)
      BY <2>3
    <3>2. CASE x.target = j.next
      <4>1. LastOf(g, a) = j.next
        BY <3>1, LastIs
      <4>2. DOMAIN g = 1 .. Len(h) + 1 /\ g[Len(h) + 1] = j /\ Len(h) \in Nat
        BY <3>1, AppendIs DEF Grown
      <4>3. \E k \in DOMAIN g : TakenIn(g, k) /\ g[k].pc = a /\ g[k].next = j.next
        <5>1. Len(h) + 1 \in DOMAIN g
          BY <4>2
        <5>2. TakenIn(g, Len(h) + 1) /\ g[Len(h) + 1].pc = a /\ g[Len(h) + 1].next = j.next
          BY <3>1, <4>2 DEF TakenIn
        <5> QED BY <5>1, <5>2
      <4> QED BY <2>1, <3>1, <3>2, <4>1, <4>3 DEF GoodEntry
    <3>3. CASE x.target # j.next
      <4>1. x = set[at] /\ conf.update # "each"
        BY <3>3 DEF Entered
      <4>2. x # NoEntry
        BY <2>1 DEF NoEntry
      <4>3. GoodEntry(x, s0, h)
        BY <1>1, <1>2, <4>1, <4>2 DEF SetOK
      <4> QED BY <3>1, <4>1, <4>3, EntryStays
    <3> QED BY <3>2, <3>3
  <2> QED BY <2>2, <2>3
<1>7. ASSUME NEW y, NEW s, GoodEntry(y, s, h), y.addr # a PROVE GoodEntry(y, s, g)
  <2>1. CASE conf.update \in {"ID", "each"}
    <3>1. Grows(h, j, g) /\ j.pc = a
      BY <2>1
    <3>2. ~(j.pc = y.addr /\ j.next # j.pc + InstBytes)
      BY <1>7, <3>1
    <3> QED BY <1>7, <3>1, <3>2, EntryStays
  <2>2. CASE ~(conf.update \in {"ID", "each"})
    BY <1>7, <2>2 DEF GoodEntry
  <2> QED BY <2>1, <2>2
<1> HIDE DEF new, set, at, n
<1>8. SetOK(new, s0, g)
  <2>1. ASSUME NEW k \in 1 .. n PROVE new[k] = NoEntry \/ GoodEntry(new[k], s0, g)
    <3>1. CASE k = 1
      BY <1>4, <1>6, <3>1
    <3>2. CASE k # 1
      <4>1. k \in 2 .. n
        BY <1>1, <3>2
      <4>2. new[k] = set[From(k)] /\ From(k) \in 1 .. n /\ From(k) # at
        BY <1>4, <1>5, <4>1
      <4> HIDE DEF From
      <4>3. set[From(k)] = NoEntry \/ GoodEntry(set[From(k)], s0, h)
        BY <1>2, <4>2 DEF SetOK, n
      <4>4. set[From(k)].addr # a
        BY <1>3, <4>2
      <4> QED BY <1>7, <4>2, <4>3, <4>4, Zenon
    <3> QED BY <3>1, <3>2
  <2>2. ASSUME NEW k \in 1 .. n, NEW l \in 1 .. n, k # l, new[k] # NoEntry PROVE new[l].addr # new[k].addr
    <3> HIDE DEF From
    <3>0. \A i \in 2 .. n : new[i] = set[From(i)] /\ From(i) \in 1 .. n /\ From(i) # at /\ set[From(i)].addr # a
      BY <1>3, <1>4, <1>5
    <3>1. x.addr = a
      BY DEF Entered
    <3>2. CASE k = 1
      <4>1. l \in 2 .. n
        BY <1>1, <2>2, <3>2
      <4> QED BY <1>4, <3>0, <3>1, <3>2, <4>1
    <3>3. CASE l = 1
      <4>1. k \in 2 .. n
        BY <1>1, <2>2, <3>3
      <4> QED BY <1>4, <3>0, <3>1, <3>3, <4>1
    <3>4. CASE k # 1 /\ l # 1
      <4>1. k \in 2 .. n /\ l \in 2 .. n
        BY <1>1, <3>4
      <4>2. new[k] = set[From(k)] /\ new[l] = set[From(l)] /\ From(k) \in 1 .. n /\ From(l) \in 1 .. n
        BY <3>0, <4>1
      <4>3. From(l) # From(k)
        BY <1>5, <2>2, <4>1
      <4> QED BY <1>2, <2>2, <4>2, <4>3 DEF SetOK, n
    <3> QED BY <3>2, <3>3, <3>4
  <2> QED BY <2>1, <2>2, Zenon DEF SetOK, n
<1>9. ASSUME NEW s \in 0 .. conf.sets - 1 PROVE SetOK(q.btb[s], s, g)
  <2>1. CASE s = s0
    <3>1. q.btb[s] = new
      BY <1>9, <2>1 DEF PredOK, Enters, new
    <3> QED BY <1>8, <2>1, <3>1
  <2>2. CASE s # s0
    <3> DEFINE old == p.btb[s]
    <3>1. q.btb[s] = old /\ SetOK(old, s, h)
      BY <1>9, <2>2 DEF PredOK, BtbOK, Enters
    <3> HIDE DEF old
    <3>2. ASSUME NEW k \in 1 .. n PROVE old[k] = NoEntry \/ GoodEntry(old[k], s, g)
      <4>1. CASE old[k] = NoEntry
        BY <4>1
      <4>2. CASE old[k] # NoEntry
        <5>1. GoodEntry(old[k], s, h)
          BY <3>1, <4>2 DEF SetOK, n
        <5>2. old[k].addr # a
          BY <2>2, <5>1 DEF GoodEntry
        <5> QED BY <1>7, <5>1, <5>2
      <4> QED BY <4>1, <4>2
    <3>3. SetOK(old, s, g)
      BY <3>1, <3>2, Zenon DEF SetOK, n
    <3> QED BY <3>1, <3>3
  <2> QED BY <2>1, <2>2
<1> QED BY <1>9, Zenon DEF BtbOK

-----------------------------------------------------------------------------
(* The history registers.                                                  *)

HistIn(h, l) == {k \in DOMAIN h : InstAt(h[k].pc).op \in Conditional /\ L1Index(h[k].pc) = l}
LaterIn(h, l, k) == {i \in HistIn(h, l) : i > k}
OutcomeIn(h, l, n) ==
  IF \E k \in HistIn(h, l) : Cardinality(LaterIn(h, l, k)) = n /\ TakenIn(h, k) THEN 1 ELSE 0
HistoryOK(p, h) ==
  conf.update \in {"ID", "each"} /\ conf.class \in {"2lev", "comb"} =>
    \A l \in 0 .. conf.l1 - 1 : \A n \in 0 .. conf.width - 1 :
      (p.shiftregs[l] \div Pow2[n]) % 2 = OutcomeIn(h, l, n)
\* A transfer that register l records.
Records(j, l) == InstAt(j.pc).op \in Conditional /\ L1Index(j.pc) = l

LEMMA OutcomeSame ==
  ASSUME NEW h, NEW j, NEW g, Grows(h, j, g), NEW l, ~Records(j, l), NEW n
  PROVE  OutcomeIn(g, l, n) = OutcomeIn(h, l, n)
<1> DEFINE m == Len(h)
<1>1. /\ m \in Nat /\ DOMAIN h = 1 .. m /\ DOMAIN g = 1 .. m + 1 /\ g[m + 1] = j /\ \A k \in 1 .. m : g[k] = h[k]
  BY AppendIs DEF Grown
<1> HIDE DEF m
<1>2. HistIn(g, l) = HistIn(h, l)
  <2>1. \A k \in 1 .. m : k \in HistIn(g, l) <=> k \in HistIn(h, l)
    BY <1>1 DEF HistIn
  <2>2. m + 1 \notin HistIn(g, l) /\ m + 1 \notin HistIn(h, l)
    BY <1>1 DEF HistIn, Records
  <2>3. HistIn(g, l) \subseteq 1 .. m + 1 /\ HistIn(h, l) \subseteq 1 .. m + 1
    BY <1>1 DEF HistIn
  <2>4. \A k \in 1 .. m + 1 : k \in 1 .. m \/ k = m + 1
    BY <1>1
  <2>5. \A k : k \in HistIn(g, l) <=> k \in HistIn(h, l)
    BY <2>1, <2>2, <2>3, <2>4, Zenon
  <2> QED BY <2>5, Zenon
<1>3. \A k \in HistIn(h, l) : TakenIn(g, k) <=> TakenIn(h, k)
  BY <1>1 DEF HistIn, TakenIn
<1>4. \A k : LaterIn(g, l, k) = LaterIn(h, l, k)
  BY <1>2, Zenon DEF LaterIn
<1>5. (\E k \in HistIn(g, l) : Cardinality(LaterIn(g, l, k)) = n /\ TakenIn(g, k))
      <=> (\E k \in HistIn(h, l) : Cardinality(LaterIn(h, l, k)) = n /\ TakenIn(h, k))
  BY <1>2, <1>3, <1>4
<1> QED BY <1>5, Zenon DEF OutcomeIn

LEMMA OutcomeNew ==
  ASSUME NEW h, NEW j, NEW g, Grows(h, j, g), NEW l, Records(j, l)
  PROVE  /\ OutcomeIn(g, l, 0) = IF j.next # j.pc + InstBytes THEN 1 ELSE 0
         /\ \A n \in Nat : OutcomeIn(g, l, n + 1) = OutcomeIn(h, l, n)
<1> DEFINE m == Len(h)
           K == HistIn(h, l)
           L == HistIn(g, l)
<1>1. /\ m \in Nat /\ DOMAIN h = 1 .. m /\ DOMAIN g = 1 .. m + 1 /\ g[m + 1] = j /\ \A k \in 1 .. m : g[k] = h[k]
  BY AppendIs DEF Grown
<1> HIDE DEF m
<1>2. K \in SUBSET (1 .. m) /\ L \in SUBSET (1 .. m + 1) /\ m + 1 \in L /\ m + 1 \in Nat
  BY <1>1 DEF HistIn, Records
<1>3. \A k \in 1 .. m : k \in L <=> k \in K
  BY <1>1 DEF HistIn
<1>4. \A k \in K : k \in L /\ (TakenIn(g, k) <=> TakenIn(h, k))
  BY <1>1, <1>2, <1>3 DEF TakenIn
<1>5. TakenIn(g, m + 1) <=> j.next # j.pc + InstBytes
  BY <1>1 DEF TakenIn
<1> HIDE DEF K, L
<1>5a. (\A i \in K : i \in 1 .. m /\ i \in 1 .. m + 1 /\ i # m + 1) /\ \A i \in L : i \in 1 .. m + 1
  BY <1>1, <1>2
<1>6. ASSUME NEW k \in K
      PROVE  /\ Cardinality(LaterIn(h, l, k)) \in Nat
             /\ Cardinality(LaterIn(g, l, k)) = Cardinality(LaterIn(h, l, k)) + 1
  <2> DEFINE A == {i \in K : i > k}
             B == {i \in L : i > k}
  <2>1. A \in SUBSET (1 .. m + 1) /\ m + 1 \in (1 .. m + 1) \ A
    <3>1. m + 1 \in 1 .. m + 1
      BY <1>1
    <3> QED BY <1>5a, <3>1
  <2>2. \A i : i \in B <=> i \in A \cup {m + 1}
    <3>1. \A i \in 1 .. m + 1 : i \in B <=> i \in A \cup {m + 1}
      BY <1>1, <1>2, <1>3, <1>6
    <3>2. \A i : i \in B \/ i \in A \cup {m + 1} => i \in 1 .. m + 1
      BY <1>2, <1>5a
    <3> HIDE DEF A, B
    <3> QED BY <3>1, <3>2, Zenon
  <2> HIDE DEF A, B
  <2>3. B = A \cup {m + 1}
    BY <2>2, Zenon
  <2>4. Cardinality(A \cup {m + 1}) = Cardinality(A) + 1 /\ Cardinality(A) \in Nat
    BY <1>2, <2>1, Places, PlacesAdd
  <2>5. LaterIn(h, l, k) = A /\ LaterIn(g, l, k) = B
    BY Zenon DEF LaterIn, A, B, K, L
  <2> QED BY <2>3, <2>4, <2>5
<1>7. Cardinality(LaterIn(g, l, m + 1)) = 0
  <2>1. LaterIn(g, l, m + 1) = {}
    BY <1>1, <1>2 DEF LaterIn, L
  <2> QED BY <2>1, FS_EmptySet, Zenon
<1>8. \A k \in L : k \in K \/ k = m + 1
  <2>1. \A k \in 1 .. m + 1 : k \in 1 .. m \/ k = m + 1
    BY <1>1
  <2> QED BY <1>2, <1>3, <2>1
<1>9. OutcomeIn(g, l, 0) = IF j.next # j.pc + InstBytes THEN 1 ELSE 0
  <2>1. (\E k \in L : Cardinality(LaterIn(g, l, k)) = 0 /\ TakenIn(g, k)) <=> j.next # j.pc + InstBytes
    <3>1. \A k \in K : Cardinality(LaterIn(g, l, k)) # 0
      BY <1>6
    <3> QED BY <1>2, <1>5, <1>7, <1>8, <3>1, Zenon
  <2> QED BY <2>1, Zenon DEF OutcomeIn, L
<1>10. ASSUME NEW n \in Nat PROVE OutcomeIn(g, l, n + 1) = OutcomeIn(h, l, n)
  <2>1. (\E k \in L : Cardinality(LaterIn(g, l, k)) = n + 1 /\ TakenIn(g, k))
        <=> (\E k \in K : Cardinality(LaterIn(h, l, k)) = n /\ TakenIn(h, k))
    <3>1. \A k \in K : Cardinality(LaterIn(g, l, k)) = n + 1 <=> Cardinality(LaterIn(h, l, k)) = n
      BY <1>6
    <3>2. Cardinality(LaterIn(g, l, m + 1)) # n + 1
      BY <1>7
    <3> QED BY <1>4, <1>8, <3>1, <3>2, Zenon
  <2> QED BY <2>1, Zenon DEF OutcomeIn, K, L
<1> QED BY <1>9, <1>10

\* A transfer that shifts no register, and one that shifts its own.
LEMMA HistoryStays ==
  ASSUME NEW p, NEW h, NEW j, NEW g, HistoryOK(p, h), NEW q, q.shiftregs = p.shiftregs,
         conf.update \in {"ID", "each"} /\ conf.class \in {"2lev", "comb"} =>
           Grows(h, j, g) /\ InstAt(j.pc).op \notin Conditional
  PROVE  HistoryOK(q, g)
<1> SUFFICES ASSUME conf.update \in {"ID", "each"} /\ conf.class \in {"2lev", "comb"},
                    NEW l \in 0 .. conf.l1 - 1, NEW n \in 0 .. conf.width - 1
             PROVE  (q.shiftregs[l] \div Pow2[n]) % 2 = OutcomeIn(g, l, n)
  BY Zenon DEF HistoryOK
<1>1. (p.shiftregs[l] \div Pow2[n]) % 2 = OutcomeIn(h, l, n)
  BY DEF HistoryOK
<1>2. Grows(h, j, g) /\ ~Records(j, l)
  BY DEF Records
<1>3. OutcomeIn(g, l, n) = OutcomeIn(h, l, n)
  BY <1>2, OutcomeSame
<1> QED BY <1>1, <1>3

LEMMA HistoryShifts ==
  ASSUME conf \in Predictors, NEW p, PredOK(p), NEW h, NEW j, NEW g, HistoryOK(p, h), NEW a \in Nat, NEW e,
         conf.update \in {"ID", "each"} /\ conf.class \in {"2lev", "comb"} =>
           Grows(h, j, g) /\ InstAt(j.pc).op \in Conditional /\ j.pc = a /\ e.pc = a /\ j.next = e.next,
         NEW q, q.shiftregs = Shifted(p, a, e)
  PROVE  HistoryOK(q, g)
<1> SUFFICES ASSUME conf.update \in {"ID", "each"} /\ conf.class \in {"2lev", "comb"},
                    NEW l \in 0 .. conf.l1 - 1, NEW n \in 0 .. conf.width - 1
             PROVE  (q.shiftregs[l] \div Pow2[n]) % 2 = OutcomeIn(g, l, n)
  BY Zenon DEF HistoryOK
<1> DEFINE r == p.shiftregs[l]
           b == IF Taken(e) THEN 1 ELSE 0
           m == ((2 * r) + b) % Pow2[conf.width]
<1>1. \A i \in 0 .. conf.width - 1 : (r \div Pow2[i]) % 2 = OutcomeIn(h, l, i)
  BY DEF HistoryOK
<1>2. Grows(h, j, g) /\ InstAt(j.pc).op \in Conditional /\ j.pc = a /\ e.pc = a /\ j.next = e.next
  OBVIOUS
<1>3. L1Index(a) \in 0 .. conf.l1 - 1 /\ conf.width \in Nat
  BY BtbSetIs, ConfIs
<1>4. r \in Nat
  BY DEF PredOK
<1>5. CASE L1Index(a) # l
  <2>1. q.shiftregs[l] = r
    BY <1>3, <1>5 DEF Shifted, PredOK
  <2>2. ~Records(j, l)
    BY <1>2, <1>5 DEF Records
  <2>3. OutcomeIn(g, l, n) = OutcomeIn(h, l, n)
    BY <1>2, <2>2, OutcomeSame
  <2> QED BY <1>1, <2>1, <2>3
<1>6. CASE L1Index(a) = l
  <2>1. q.shiftregs[l] = m
    BY <1>3, <1>6 DEF Shifted, PredOK
  <2>2. Records(j, l)
    BY <1>2, <1>6 DEF Records
  <2>3. b \in 0 .. 1
    OBVIOUS
  <2>4. b = IF j.next # j.pc + InstBytes THEN 1 ELSE 0
    BY <1>2 DEF Taken
  <2> HIDE DEF r, b
  <2>5. ShiftIn(conf.width, r, b, m)
    BY DEF ShiftIn
  <2> HIDE DEF m
  <2>6. (m \div Pow2[n]) % 2 = IF n = 0 THEN b ELSE (r \div Pow2[n - 1]) % 2
    BY <1>3, <1>4, <2>3, <2>5, ShiftBits
  <2>7. /\ OutcomeIn(g, l, 0) = IF j.next # j.pc + InstBytes THEN 1 ELSE 0
        /\ \A i \in Nat : OutcomeIn(g, l, i + 1) = OutcomeIn(h, l, i)
    BY <1>2, <2>2, OutcomeNew
  <2>8. CASE n = 0
    BY <2>1, <2>4, <2>6, <2>7, <2>8
  <2>9. CASE n # 0
    <3>1. n - 1 \in Nat /\ n - 1 \in 0 .. conf.width - 1 /\ (n - 1) + 1 = n
      BY <1>3, <2>9
    <3>2. OutcomeIn(g, l, n) = OutcomeIn(h, l, n - 1)
      BY <2>7, <3>1
    <3>3. (r \div Pow2[n - 1]) % 2 = OutcomeIn(h, l, n - 1)
      BY <1>1, <3>1
    <3> QED BY <2>1, <2>6, <2>9, <3>2, <3>3
  <2> QED BY <2>8, <2>9
<1> QED BY <1>5, <1>6

-----------------------------------------------------------------------------
(* The predictor after the right path h.                                   *)

PredInv(p, h) == PredOK(p) /\ StatsOK(p.st) /\ BtbOK(p, h) /\ HistoryOK(p, h)
\* e is what bpred_update() is told of the transfer j, at address a; a right
\* answer with a target had it from the BTB.
Told(p, e, a, h, j, g) ==
  /\ conf.update \in {"ID", "each"} =>
       Grows(h, j, g) /\ j.pc = a /\ e.pc = a /\ j.next = e.next /\ e.op = InstAt(a).op
  /\ conf.update = "each" /\ e.pred = e.next /\ Taken(e) /\ ~Static(conf) /\ ~Return(e.op) =>
       e.pred = BtbTarget(p, a)

LEMMA TrainingIs ==
  ASSUME conf \in Predictors, NEW p, NEW h, PredInv(p, h), NEW a \in Nat \ {0}, NEW e, e.next \in Nat,
         RasRight(e), NEW j, NEW g, Told(p, e, a, h, j, g), NEW q, Updated(p, e, a, q)
  PROVE  PredInv(q, g) /\ TrainedOnce(p, q, e.op) /\ q.tos = p.tos
<1>0. PredOK(p) /\ StatsOK(p.st) /\ BtbOK(p, h) /\ HistoryOK(p, h)
  BY DEF PredInv
<1>1. PredOK(q) /\ q.tos = p.tos /\ StatsOK(q.st) /\ TrainedOnce(p, q, e.op) /\ TablesAfter(p, e, a, q)
  BY <1>0, UpdateForIs
<1>2. conf.update \in {"ID", "each"} =>
        Grows(h, j, g) /\ j.pc = a /\ e.pc = a /\ j.next = e.next /\ e.op = InstAt(a).op
  BY DEF Told
<1>3. HistoryOK(q, g)
  <2>1. CASE Shifts(e.op)
    <3>1. q.shiftregs = Shifted(p, a, e)
      BY <1>1, <2>1 DEF TablesAfter
    <3>2. conf.update \in {"ID", "each"} /\ conf.class \in {"2lev", "comb"} =>
            Grows(h, j, g) /\ InstAt(j.pc).op \in Conditional /\ j.pc = a /\ e.pc = a /\ j.next = e.next
      BY <1>2, <2>1 DEF Shifts
    <3>3. a \in Nat
      OBVIOUS
    <3> QED BY <1>0, <3>1, <3>2, <3>3, HistoryShifts
  <2>2. CASE ~Shifts(e.op)
    <3>1. q.shiftregs = p.shiftregs
      BY <1>1, <2>2 DEF TablesAfter
    <3>2. conf.update \in {"ID", "each"} /\ conf.class \in {"2lev", "comb"} =>
            Grows(h, j, g) /\ InstAt(j.pc).op \notin Conditional
      BY <1>2, <2>2 DEF Shifts
    <3> QED BY <1>0, <3>1, <3>2, HistoryStays
  <2> QED BY <2>1, <2>2
<1>4. BtbOK(q, g)
  <2>1. CASE ~Taken(e) \/ Static(conf) \/ Return(e.op)
    <3>1. q.btb = p.btb
      BY <1>1, <2>1 DEF TablesAfter
    <3>2. conf.update \in {"ID", "each"} => Grows(h, j, g)
      BY <1>2
    <3>3. conf.update = "each" => Static(conf) \/ j.next = j.pc + InstBytes \/ UsesRas(InstAt(j.pc).op)
      BY <1>2, <2>1 DEF Taken, Return, UsesRas
    <3> QED BY <1>0, <3>1, <3>2, <3>3, BtbStays
  <2>2. CASE ~(~Taken(e) \/ Static(conf) \/ Return(e.op))
    <3>1. PICK x \in BtbEntry : Entering(p, e, a, q, x)
      BY <1>1, <2>2 DEF TablesAfter
    <3>2. conf.update \in {"ID", "each"} =>
            Grows(h, j, g) /\ j.pc = a /\ j.next # j.pc + InstBytes /\ ~UsesRas(InstAt(a).op)
      BY <1>2, <2>2 DEF Taken, Return, UsesRas
    <3>3. ~Static(conf)
      BY <2>2
    <3>4. CASE conf.update \in {"ID", "each"}
      <4>1. CASE x.target = e.next
        <5>1. Entered(p, a, x, j)
          BY <1>2, <3>1, <3>4, <4>1 DEF Entered, Entering
        <5>2. Enters(p, q, a, x)
          BY <3>1 DEF Enters, Entering
        <5> QED BY <1>0, <3>2, <3>3, <5>1, <5>2, BtbEnters
      <4>2. CASE x.target # e.next
        <5>1. x = p.btb[BtbSet(a)][EntryPlace(p, a)] /\ e.pred = e.next /\ x.addr = a
          BY <3>1, <4>2 DEF Entering
        <5>2. conf.update # "each"
          <6> SUFFICES ASSUME conf.update = "each" PROVE FALSE
            OBVIOUS
          <6>1. e.pred = BtbTarget(p, a)
            BY <2>2, <5>1 DEF Told
          <6>2. EntryPlace(p, a) \in BtbHits(p, a)
            BY <5>1, PlaceIs DEF BtbHits
          <6>3. BtbTarget(p, a) = p.btb[BtbSet(a)][EntryPlace(p, a)].target
            BY <6>2, PlaceIs
          <6> QED BY <4>2, <5>1, <6>1, <6>3
        <5>3. Entered(p, a, x, j)
          BY <5>1, <5>2 DEF Entered
        <5>4. Enters(p, q, a, x)
          BY <3>1 DEF Enters, Entering
        <5> QED BY <1>0, <3>2, <3>3, <5>3, <5>4, BtbEnters
      <4> QED BY <4>1, <4>2
    <3>5. CASE ~(conf.update \in {"ID", "each"})
      <4> DEFINE j0 == [next |-> x.target]
      <4>1. Entered(p, a, x, j0)
        BY <3>1 DEF Entered, Entering
      <4>2. Enters(p, q, a, x)
        BY <3>1 DEF Enters, Entering
      <4> HIDE DEF j0
      <4>3. conf.update \in {"ID", "each"} =>
              Grows(h, j0, g) /\ j0.pc = a /\ j0.next # j0.pc + InstBytes /\ ~UsesRas(InstAt(a).op)
        BY <3>5
      <4> QED BY <1>0, <3>3, <4>1, <4>2, <4>3, BtbEnters
    <3> QED BY <3>4, <3>5
  <2> QED BY <2>1, <2>2
<1> QED BY <1>1, <1>3, <1>4, Zenon DEF PredInv

-----------------------------------------------------------------------------
(* Branches on their way to the predictor.                                 *)

Returns == {op \in Control : Return(op)}
One(b) == IF b THEN 1 ELSE 0
FqPlaces(f, R) == {k \in DOMAIN f : f[k].op \in R}
WindowPlaces(w, R) ==
  {k \in DOMAIN w : w[k].op \in R /\ (conf.update = "CT" \/ (conf.update = "WB" /\ ~w[k].done))}
\* How many instructions of R are still to train it.
ToTrain(f, w, R) == Cardinality(FqPlaces(f, R)) + Cardinality(WindowPlaces(w, R))

LEMMA FqPlacesIs ==
  ASSUME NEW f, IsSeq(f), NEW R
  PROVE  FqPlaces(f, R) \in SUBSET (1 .. Len(f)) /\ Cardinality(FqPlaces(f, R)) \in Nat /\ Len(f) \in Nat
<1>1. DOMAIN f = 1 .. Len(f) /\ Len(f) \in Nat
  BY SeqIs
<1>2. FqPlaces(f, R) \in SUBSET (1 .. Len(f))
  BY <1>1 DEF FqPlaces
<1> QED BY <1>1, <1>2, Places

LEMMA WindowPlacesIs ==
  ASSUME NEW w, IsSeq(w), NEW R
  PROVE  WindowPlaces(w, R) \in SUBSET (1 .. Len(w)) /\ Cardinality(WindowPlaces(w, R)) \in Nat /\ Len(w) \in Nat
<1>1. DOMAIN w = 1 .. Len(w) /\ Len(w) \in Nat
  BY SeqIs
<1>2. WindowPlaces(w, R) \in SUBSET (1 .. Len(w))
  BY <1>1 DEF WindowPlaces
<1> QED BY <1>1, <1>2, Places

LEMMA NoPlaces ==
  /\ \A R : FqPlaces(<<>>, R) = {} /\ WindowPlaces(<<>>, R) = {}
  /\ Cardinality({}) = 0
<1>1. DOMAIN <<>> = {}
  BY NilIs
<1>2. \A R : FqPlaces(<<>>, R) = {} /\ WindowPlaces(<<>>, R) = {}
  BY <1>1 DEF FqPlaces, WindowPlaces
<1> QED BY <1>2, FS_EmptySet

\* Places in a sequence that grows, when one more is or is not of the kind.
LEMMA PlacesGrow ==
  ASSUME NEW n \in Nat, NEW K \in SUBSET (1 .. n), NEW L \in SUBSET (1 .. n + 1),
         \A k \in 1 .. n : k \in L <=> k \in K
  PROVE  Cardinality(L) = Cardinality(K) + One(n + 1 \in L)
<1>1. K \in SUBSET (1 .. n + 1) /\ n + 1 \in Nat /\ n + 1 \in (1 .. n + 1) \ K
  OBVIOUS
<1>2. \A k \in 1 .. n + 1 : k \in 1 .. n \/ k = n + 1
  OBVIOUS
<1>3. \A k \in K : k \in 1 .. n
  OBVIOUS
<1>4. CASE n + 1 \in L
  <2>1. \A k : k \in L <=> k \in K \cup {n + 1}
    BY <1>2, <1>3, <1>4, Zenon
  <2>2. L = K \cup {n + 1}
    BY <2>1, Zenon
  <2>3. Cardinality(K \cup {n + 1}) = Cardinality(K) + 1
    BY <1>1, PlacesAdd, Zenon
  <2> QED BY <1>4, <2>2, <2>3 DEF One
<1>5. CASE n + 1 \notin L
  <2>1. \A k : k \in L <=> k \in K
    BY <1>2, <1>3, <1>5, Zenon
  <2>2. L = K
    BY <2>1, Zenon
  <2>3. Cardinality(K) \in Nat
    BY Places
  <2> QED BY <1>5, <2>2, <2>3 DEF One
<1> QED BY <1>4, <1>5

LEMMA ToTrainFetch ==
  ASSUME NEW f, NEW e, NEW g, Grows(f, e, g), NEW w, IsSeq(w), NEW R
  PROVE  /\ ToTrain(f, w, R) \in Nat /\ ToTrain(g, w, R) = ToTrain(f, w, R) + One(e.op \in R)
<1> DEFINE n == Len(f)
           K == FqPlaces(f, R)
           L == FqPlaces(g, R)
           W == Cardinality(WindowPlaces(w, R))
<1>1. /\ n \in Nat /\ DOMAIN f = 1 .. n /\ IsSeq(f) /\ IsSeq(g) /\ Len(g) = n + 1 /\ DOMAIN g = 1 .. n + 1
      /\ g[n + 1] = e /\ \A k \in 1 .. n : g[k] = f[k]
  BY AppendIs DEF Grown
<1>2. W \in Nat /\ K \in SUBSET (1 .. n) /\ L \in SUBSET (1 .. n + 1) /\ Cardinality(K) \in Nat
  <2>1. K \in SUBSET (1 .. Len(f)) /\ Cardinality(K) \in Nat
    BY <1>1, FqPlacesIs
  <2>2. L \in SUBSET (1 .. Len(g))
    BY <1>1, FqPlacesIs
  <2> QED BY <1>1, <2>1, <2>2, WindowPlacesIs
<1>3. \A k \in 1 .. n : k \in L <=> k \in K
  BY <1>1 DEF FqPlaces
<1>4. n + 1 \in L <=> e.op \in R
  BY <1>1 DEF FqPlaces
<1> HIDE DEF K, L, W, n
<1>5. Cardinality(L) = Cardinality(K) + One(n + 1 \in L)
  BY <1>1, <1>2, <1>3, PlacesGrow
<1>6. ToTrain(f, w, R) = Cardinality(K) + W /\ ToTrain(g, w, R) = Cardinality(L) + W
  BY Zenon DEF ToTrain, K, L, W
<1> QED BY <1>2, <1>4, <1>5, <1>6 DEF One

\* A fetch queue that loses its head, or everything.
LEMMA FqPlacesLeave ==
  ASSUME NEW f, IsSeq(f), f # <<>>, NEW g, g \in {Tail(f), <<>>}, NEW R
  PROVE  /\ IsSeq(g) /\ Cardinality(FqPlaces(g, R)) \in Nat
         /\ Cardinality(FqPlaces(g, R)) + One(Head(f).op \in R) <= Cardinality(FqPlaces(f, R))
<1> DEFINE n == Len(f)
           t == Tail(f)
           K == FqPlaces(f, R)
           L == FqPlaces(t, R)
<1>1. n \in Nat \ {0} /\ DOMAIN f = 1 .. n /\ Head(f) = f[1]
  BY SeqIs
<1>2. IsSeq(t) /\ Len(t) = n - 1 /\ DOMAIN t = 1 .. n - 1 /\ \A k \in 1 .. n - 1 : t[k] = f[k + 1]
  BY TailIs
<1>3. K \in SUBSET (1 .. n) /\ Cardinality(K) \in Nat
  BY FqPlacesIs
<1>4. L \in SUBSET (1 .. Len(t)) /\ Cardinality(L) \in Nat
  BY <1>2, FqPlacesIs
<1>5. \A k \in 1 .. n - 1 : k \in L <=> k + 1 \in K
  <2>1. \A k \in 1 .. n - 1 : k + 1 \in 1 .. n
    BY <1>1
  <2> QED BY <1>1, <1>2, <2>1 DEF FqPlaces
<1>6. 1 \in K <=> Head(f).op \in R
  BY <1>1 DEF FqPlaces
<1> HIDE DEF n, t, K, L
<1>7. L \in SUBSET (1 .. n - 1)
  BY <1>2, <1>4, Zenon
<1>8. Cardinality(K) = Cardinality(L) + One(1 \in K)
  <2>1. Cardinality(K) = Cardinality(L) + IF 1 \in K THEN 1 ELSE 0
    BY <1>1, <1>3, <1>5, <1>7, PlacesTail
  <2> QED BY <2>1 DEF One
<1>9. CASE g = t
  <2>1. FqPlaces(g, R) = L
    BY <1>9, Zenon DEF L
  <2> QED BY <1>2, <1>3, <1>4, <1>6, <1>8, <1>9, <2>1 DEF One, K
<1>10. CASE g = <<>>
  <2>1. Cardinality(FqPlaces(g, R)) = 0 /\ IsSeq(g)
    BY <1>10, NoPlaces, NilIs
  <2> QED BY <1>3, <1>4, <1>6, <1>8, <2>1 DEF One, K
<1> QED BY <1>9, <1>10 DEF t

LEMMA ToTrainDispatch ==
  ASSUME NEW f, IsSeq(f), f # <<>>, NEW g, g \in {Tail(f), <<>>}, NEW w, NEW e, NEW v, Grows(w, e, v),
         e.op = Head(f).op, ~e.done, NEW R
  PROVE  /\ ToTrain(g, v, R) \in Nat /\ ToTrain(f, w, R) \in Nat
         /\ ToTrain(g, v, R) + One(e.op \in R /\ ~(conf.update \in {"CT", "WB"})) <= ToTrain(f, w, R)
<1> DEFINE n == Len(w)
           A == Cardinality(FqPlaces(f, R))
           B == Cardinality(FqPlaces(g, R))
           K == WindowPlaces(w, R)
           L == WindowPlaces(v, R)
<1>1. /\ n \in Nat /\ DOMAIN w = 1 .. n /\ IsSeq(w) /\ IsSeq(v) /\ Len(v) = n + 1 /\ DOMAIN v = 1 .. n + 1
      /\ v[n + 1] = e /\ \A k \in 1 .. n : v[k] = w[k]
  BY AppendIs DEF Grown
<1>2. A \in Nat /\ B \in Nat /\ B + One(e.op \in R) <= A
  BY FqPlacesIs, FqPlacesLeave
<1>3. K \in SUBSET (1 .. n) /\ L \in SUBSET (1 .. n + 1) /\ Cardinality(K) \in Nat /\ Cardinality(L) \in Nat
  <2>1. K \in SUBSET (1 .. Len(w)) /\ Cardinality(K) \in Nat
    BY <1>1, WindowPlacesIs
  <2>2. L \in SUBSET (1 .. Len(v)) /\ Cardinality(L) \in Nat
    BY <1>1, WindowPlacesIs
  <2> QED BY <1>1, <2>1, <2>2
<1>4. \A k \in 1 .. n : k \in L <=> k \in K
  BY <1>1 DEF WindowPlaces
<1>5. n + 1 \in L <=> e.op \in R /\ conf.update \in {"CT", "WB"}
  BY <1>1 DEF WindowPlaces
<1> HIDE DEF K, L, n, A, B
<1>6. Cardinality(L) = Cardinality(K) + One(n + 1 \in L)
  BY <1>1, <1>3, <1>4, PlacesGrow
<1>7. ToTrain(f, w, R) = A + Cardinality(K) /\ ToTrain(g, v, R) = B + Cardinality(L)
  BY Zenon DEF ToTrain, K, L, A, B
<1> QED BY <1>2, <1>3, <1>5, <1>6, <1>7 DEF One

\* The window w after the result of its k-th instruction.
ResultIn(w, k, u) ==
  /\ k \in DOMAIN w /\ IsSeq(u) /\ DOMAIN u = DOMAIN w /\ ~w[k].done /\ u[k].done
  /\ u[k].op = w[k].op /\ \A i \in DOMAIN w : i # k => u[i] = w[i]

LEMMA ToTrainResult ==
  ASSUME NEW f, IsSeq(f), NEW g, g \in {f, <<>>}, NEW w, IsSeq(w), NEW k, NEW u, ResultIn(w, k, u),
         NEW v, v \in {u, SubSeq(u, 1, k)}, NEW R
  PROVE  /\ ToTrain(g, v, R) \in Nat /\ ToTrain(f, w, R) \in Nat
         /\ ToTrain(g, v, R) + One(w[k].op \in R /\ conf.update = "WB") <= ToTrain(f, w, R)
<1> DEFINE n == Len(w)
           A == Cardinality(FqPlaces(f, R))
           B == Cardinality(FqPlaces(g, R))
           K == WindowPlaces(w, R)
           L == WindowPlaces(v, R)
           M == K \ {k}
<1>1. /\ n \in Nat /\ DOMAIN w = 1 .. n /\ IsSeq(u) /\ DOMAIN u = 1 .. n /\ k \in 1 .. n /\ ~w[k].done /\ u[k].done
      /\ u[k].op = w[k].op /\ \A i \in 1 .. n : i # k => u[i] = w[i]
  BY SeqIs DEF ResultIn
<1>2. A \in Nat /\ B \in Nat /\ B <= A
  <2>1. CASE g = f
    BY <2>1, FqPlacesIs
  <2>2. CASE g = <<>>
    <3>1. FqPlaces(g, R) = {}
      BY <2>2, NoPlaces
    <3>2. B = 0
      BY <3>1, NoPlaces
    <3>3. A \in Nat
      BY FqPlacesIs
    <3> QED BY <3>2, <3>3
  <2> QED BY <2>1, <2>2
<1>3. IsSeq(v) /\ DOMAIN v \subseteq 1 .. n /\ \A i \in DOMAIN v : v[i] = u[i]
  <2>1. CASE v = u
    BY <1>1, <2>1
  <2>2. CASE v = SubSeq(u, 1, k)
    <3>1. Len(u) = n
      <4>1. DOMAIN u = 1 .. Len(u) /\ Len(u) \in Nat
        BY <1>1, SeqIs
      <4> QED BY <1>1, <4>1
    <3>2. k \in 0 .. Len(u)
      BY <1>1, <3>1
    <3>3. IsSeq(v) /\ DOMAIN v = 1 .. k /\ \A i \in 1 .. k : v[i] = u[i]
      <4>1. FrontOf(u, k, v)
        BY <2>2 DEF FrontOf
      <4> QED BY <1>1, <3>2, <4>1, FrontIs
    <3> QED BY <1>1, <3>3
  <2> QED BY <2>1, <2>2
<1>4. K \in SUBSET (1 .. n) /\ Cardinality(K) \in Nat /\ Cardinality(L) \in Nat
  BY <1>3, WindowPlacesIs
<1>5. L \in SUBSET K
  BY <1>1, <1>3 DEF WindowPlaces
<1>6. k \in K <=> w[k].op \in R /\ conf.update \in {"CT", "WB"}
  BY <1>1 DEF WindowPlaces
<1>7. conf.update = "WB" => k \notin L
  BY <1>1, <1>3 DEF WindowPlaces
<1> HIDE DEF K, L, n, A, B
<1>8. Cardinality(L) + One(w[k].op \in R /\ conf.update = "WB") <= Cardinality(K)
  <2>1. CASE w[k].op \in R /\ conf.update = "WB"
    <3>1. k \in K /\ L \in SUBSET M /\ M \in SUBSET (1 .. n) /\ k \in (1 .. n) \ M
      BY <1>1, <1>4, <1>5, <1>6, <1>7, <2>1
    <3>2. Cardinality(L) <= Cardinality(M)
      <4> HIDE DEF M
      <4> QED BY <1>1, <3>1, PlacesSubset
    <3>3. Cardinality(M \cup {k}) = Cardinality(M) + 1 /\ Cardinality(M) \in Nat
      <4> HIDE DEF M
      <4> QED BY <1>1, <3>1, PlacesAdd, Places
    <3>4. M \cup {k} = K
      BY <3>1
    <3> DEFINE x == Cardinality(K)
               y == Cardinality(L)
               z == Cardinality(M)
    <3>5. x = z + 1 /\ y <= z /\ x \in Nat /\ y \in Nat /\ z \in Nat
      BY <1>4, <3>2, <3>3, <3>4, Zenon
    <3>6. One(w[k].op \in R /\ conf.update = "WB") = 1
      BY <2>1, Zenon DEF One
    <3> HIDE DEF M, x, y, z
    <3>7. y + 1 <= x
      BY <3>5
    <3> QED BY <3>6, <3>7 DEF x, y
  <2>2. CASE ~(w[k].op \in R /\ conf.update = "WB")
    <3>1. Cardinality(L) <= Cardinality(K)
      BY <1>1, <1>4, <1>5, PlacesSubset
    <3> QED BY <1>4, <2>2, <3>1 DEF One
  <2> QED BY <2>1, <2>2
<1>9. ToTrain(f, w, R) = A + Cardinality(K) /\ ToTrain(g, v, R) = B + Cardinality(L)
  BY Zenon DEF ToTrain, K, L, A, B
<1> DEFINE o == One(w[k].op \in R /\ conf.update = "WB")
           x == Cardinality(K)
           y == Cardinality(L)
           s == ToTrain(f, w, R)
           t == ToTrain(g, v, R)
<1>10. o \in {0, 1} /\ y + o <= x /\ x \in Nat /\ y \in Nat /\ s = A + x /\ t = B + y
  BY <1>4, <1>8, <1>9 DEF One
<1> HIDE DEF o, x, y, s, t
<1>11. s \in Nat /\ t \in Nat /\ t + o <= s
  BY <1>2, <1>10
<1> QED BY <1>11 DEF o, s, t

LEMMA ToTrainCommit ==
  ASSUME NEW f, IsSeq(f), NEW w, IsSeq(w), w # <<>>, Head(w).done, NEW v, v = Tail(w), NEW R
  PROVE  /\ ToTrain(f, v, R) \in Nat /\ ToTrain(f, w, R) \in Nat
         /\ ToTrain(f, v, R) + One(Head(w).op \in R /\ conf.update = "CT") = ToTrain(f, w, R)
<1> DEFINE n == Len(w)
           A == Cardinality(FqPlaces(f, R))
           K == WindowPlaces(w, R)
           L == WindowPlaces(v, R)
<1>1. n \in Nat \ {0} /\ DOMAIN w = 1 .. n /\ Head(w) = w[1]
  BY SeqIs
<1>2. IsSeq(v) /\ Len(v) = n - 1 /\ DOMAIN v = 1 .. n - 1 /\ \A k \in 1 .. n - 1 : v[k] = w[k + 1]
  BY TailIs
<1>3. A \in Nat /\ K \in SUBSET (1 .. n) /\ Cardinality(K) \in Nat
  BY FqPlacesIs, WindowPlacesIs
<1>4. L \in SUBSET (1 .. Len(v)) /\ Cardinality(L) \in Nat
  BY <1>2, WindowPlacesIs
<1>5. \A k \in 1 .. n - 1 : k \in L <=> k + 1 \in K
  <2>1. \A k \in 1 .. n - 1 : k + 1 \in 1 .. n
    BY <1>1
  <2> QED BY <1>1, <1>2, <2>1 DEF WindowPlaces
<1>6. 1 \in K <=> Head(w).op \in R /\ conf.update = "CT"
  BY <1>1 DEF WindowPlaces
<1> HIDE DEF n, K, L, A
<1>7. L \in SUBSET (1 .. n - 1)
  BY <1>2, <1>4, Zenon
<1>8. Cardinality(K) = Cardinality(L) + IF 1 \in K THEN 1 ELSE 0
  BY <1>1, <1>3, <1>5, <1>7, PlacesTail
<1>9. ToTrain(f, w, R) = A + Cardinality(K) /\ ToTrain(f, v, R) = A + Cardinality(L)
  BY Zenon DEF ToTrain, K, L, A
<1> QED BY <1>3, <1>4, <1>6, <1>8, <1>9 DEF One

-----------------------------------------------------------------------------
(* The state of the simulator.                                             *)

Positive == Nat \ {0}

\* What fetch remembers of an instruction.
Looked(e) ==
  /\ e.pc \in Positive /\ e.pred \in Positive /\ e.op = InstAt(e.pc).op
  /\ RasRight(e) /\ (conf.ras > 0 => e.idx \in 0 .. conf.ras - 1)
Dispatched(e) ==
  /\ e = [pc |-> e.pc, op |-> e.op, pred |-> e.pred, next |-> e.next, update |-> e.update,
          idx |-> e.idx, recover |-> e.recover, spec |-> e.spec, done |-> e.done]
  /\ Looked(e) /\ e.next \in Positive /\ e.recover \in BOOLEAN /\ e.spec \in BOOLEAN /\ e.done \in BOOLEAN
FetchedOK(f) == IsSeq(f) /\ \A k \in DOMAIN f : Looked(f[k])
WindowOK(w) == IsSeq(w) /\ \A k \in DOMAIN w : Dispatched(w[k])

\* The wrong path starts behind the one branch that has still to recover.
Open(w, k) == w[k].recover /\ ~w[k].done
PathOK(w, m, r) ==
  /\ m \in BOOLEAN
  /\ \A k \in DOMAIN w : Open(w, k) => m /\ r \in Positive /\ \A i \in DOMAIN w : w[i].spec <=> i > k
  /\ m => \E k \in DOMAIN w : Open(w, k)
  /\ ~m => \A i \in DOMAIN w : ~w[i].spec

\* The right path's branches that have still to commit.
WaitingPlaces(w) == {k \in DOMAIN w : ~w[k].spec /\ w[k].op \in Control}
Waiting(w) == Cardinality(WaitingPlaces(w))
CountsOK(p, h, f, w) ==
  /\ Trained(p.st) + ToTrain(f, w, Control) <= p.st.lookups
  /\ p.st.used_ras + ToTrain(f, w, Returns) <= p.st.pops
  /\ conf.update = "each" => Trained(p.st) = p.st.lookups /\ f = <<>> /\ w = <<>>
  /\ conf.update \in {"ID", "each"} => Trained(p.st) = Len(h)
  /\ conf.update = "CT" => Trained(p.st) + Waiting(w) = Len(h)

StateOK(p, h, f, w, m, a, b, r) ==
  /\ IsSeq(h) /\ PredInv(p, h) /\ FetchedOK(f) /\ WindowOK(w) /\ PathOK(w, m, r)
  /\ CountsOK(p, h, f, w) /\ a \in Positive /\ b \in Positive
Now(p, h, f, w, m, a, b, r) ==
  /\ pred = p /\ past = h /\ fq = f /\ window = w
  /\ specMode = m /\ fetchPC = a /\ regsPC = b /\ recoverPC = r

\* The predictor and the pipeline agree on what has been looked up and trained.
BpInv ==
  /\ conf \in Predictors
  /\ \E p, h, f, w, m, a, b, r : Now(p, h, f, w, m, a, b, r) /\ StateOK(p, h, f, w, m, a, b, r)

LEMMA SameConf ==
  ASSUME conf' = conf
  PROVE  /\ \A pc : BtbSet(pc)' = BtbSet(pc) /\ L1Index(pc)' = L1Index(pc)
         /\ \A op : (Return(op)' <=> Return(op)) /\ (UsesRas(op)' <=> UsesRas(op))
<1>1. \A pc : BtbSet(pc)' = BtbSet(pc) /\ L1Index(pc)' = L1Index(pc)
  BY DEF BtbSet, L1Index
<1>2. \A op : (Return(op)' <=> Return(op)) /\ (UsesRas(op)' <=> UsesRas(op))
  BY DEF Return, UsesRas, Static
<1> QED BY <1>1, <1>2, Zenon

LEMMA SamePred ==
  ASSUME conf' = conf, NEW p, NEW h, PredInv(p, h)
  PROVE  PredInv(p, h)'
<1>1. PredOK(p)' <=> PredOK(p)
  BY Zenon DEF PredOK
<1>2. \A x, s : GoodEntry(x, s, h)' <=> GoodEntry(x, s, h)
  BY SameConf, Zenon DEF GoodEntry
<1>3. \A set, s : SetOK(set, s, h)' <=> SetOK(set, s, h)
  BY <1>2, Zenon DEF SetOK
<1>4. BtbOK(p, h)' <=> BtbOK(p, h)
  BY <1>3, Zenon DEF BtbOK
<1>5. \A l : HistIn(h, l)' = HistIn(h, l)
  BY SameConf, Zenon DEF HistIn
<1>6. \A l, k : LaterIn(h, l, k)' = LaterIn(h, l, k)
  BY <1>5, Zenon DEF LaterIn
<1>7. \A l, n : OutcomeIn(h, l, n)' = OutcomeIn(h, l, n)
  BY <1>5, <1>6 DEF OutcomeIn
<1>8. HistoryOK(p, h)' <=> HistoryOK(p, h)
  BY <1>7 DEF HistoryOK
<1> QED BY <1>1, <1>4, <1>8, Zenon DEF PredInv

LEMMA SameState ==
  ASSUME conf' = conf, NEW p, NEW h, NEW f, NEW w, NEW m, NEW a, NEW b, NEW r, StateOK(p, h, f, w, m, a, b, r)
  PROVE  StateOK(p, h, f, w, m, a, b, r)'
<1>1. IsSeq(h) /\ PredInv(p, h)' /\ FetchedOK(f) /\ WindowOK(w) /\ PathOK(w, m, r)
      /\ CountsOK(p, h, f, w) /\ a \in Positive /\ b \in Positive
  BY SamePred, Zenon DEF StateOK
<1>2. \A e : Looked(e)' <=> Looked(e)
  <2>1. \A e : RasRight(e)' <=> RasRight(e)
    BY SameConf, Zenon DEF RasRight
  <2> QED BY <2>1, Zenon DEF Looked
<1>3. \A e : Dispatched(e)' <=> Dispatched(e)
  BY <1>2, Zenon DEF Dispatched
<1>4. FetchedOK(f)' /\ WindowOK(w)'
  BY <1>1, <1>2, <1>3, Zenon DEF FetchedOK, WindowOK
<1>5. ASSUME NEW R PROVE ToTrain(f, w, R)' = ToTrain(f, w, R)
  <2>1. WindowPlaces(w, R)' = WindowPlaces(w, R)
    BY Zenon DEF WindowPlaces
  <2> QED BY <2>1, Zenon DEF ToTrain, FqPlaces
<1>6. Returns' = Returns
  BY SameConf, Zenon DEF Returns
<1>7. ToTrain(f, w, Control)' = ToTrain(f, w, Control) /\ ToTrain(f, w, Returns)' = ToTrain(f, w, Returns)
  <2>1. PICK R : R = Returns
    OBVIOUS
  <2>2. ToTrain(f, w, R)' = ToTrain(f, w, R)
    BY <1>5
  <2>3. Returns' = R
    BY <1>6, <2>1, Zenon
  <2>4. ToTrain(f, w, Returns) = ToTrain(f, w, R)
    BY <2>1, Zenon
  <2>5. ToTrain(f, w, Returns)' = ToTrain(f, w, R)'
    BY <2>3, Zenon DEF ToTrain, FqPlaces, WindowPlaces
  <2> QED BY <1>5, <2>2, <2>4, <2>5, Zenon
<1>8. CountsOK(p, h, f, w)'
  BY <1>1, <1>7, Zenon DEF CountsOK
<1> QED BY <1>1, <1>4, <1>8, Zenon DEF StateOK

-----------------------------------------------------------------------------
(* The stages.                                                             *)

\* The predictor's tables alone decide what a lookup leaves right.
LEMMA SameTables ==
  ASSUME NEW p, NEW h, PredInv(p, h), NEW q, PredOK(q), StatsOK(q.st), q.btb = p.btb, q.shiftregs = p.shiftregs
  PROVE  PredInv(q, h)
<1>1. BtbOK(q, h)
  BY Zenon DEF PredInv, BtbOK
<1>2. HistoryOK(q, h)
  BY Zenon DEF PredInv, HistoryOK
<1> QED BY <1>1, <1>2, Zenon DEF PredInv

\* Trained later, or not at all, it is not held to the program's order.
LEMMA NoMatter ==
  ASSUME NEW p, NEW h, PredInv(p, h), ~(conf.update \in {"ID", "each"}), NEW g
  PROVE  PredInv(p, g)
<1>1. conf.update # "each"
  OBVIOUS
<1>2. ASSUME NEW x, NEW s, GoodEntry(x, s, h) PROVE GoodEntry(x, s, g)
  BY <1>1, <1>2, Zenon DEF GoodEntry
<1>3. \A set, s : SetOK(set, s, h) => SetOK(set, s, g)
  BY <1>2, Zenon DEF SetOK
<1>4. BtbOK(p, g)
  BY <1>3, Zenon DEF BtbOK, PredInv
<1>5. HistoryOK(p, g)
  BY Zenon DEF HistoryOK
<1> QED BY <1>4, <1>5, Zenon DEF PredInv

LEMMA StatsAre ==
  ASSUME NEW p, PredOK(p)
  PROVE  Trained(p.st) \in Nat /\ p.st.lookups \in Nat /\ p.st.used_ras \in Nat /\ p.st.pops \in Nat
<1>1. p.st \in PredictorStats
  BY DEF PredOK
<1>2. p.st.dir_hits \in Nat /\ p.st.misses \in Nat /\ p.st.lookups \in Nat /\ p.st.used_ras \in Nat /\ p.st.pops \in Nat
  BY <1>1 DEF PredictorStats
<1> QED BY <1>2 DEF Trained

LEMMA InstIs ==
  ASSUME NEW pc \in Positive
  PROVE  /\ \A op : IsCompressed(op) \in {2, 4}
         /\ Nexts(pc) \subseteq Positive
         /\ InstAt(pc).op \in Conditional => InstAt(pc).target \in Positive
<1>1. \A op : IsCompressed(op) \in {2, 4}
  BY DEF IsCompressed
<1>2. InstAt(pc).op \in Conditional \cup {"JAL", "C_J"} => InstAt(pc).target \in Positive
  <2>1. CASE pc \in DOMAIN Code
    BY <2>1, BpredAssumption DEF InstAt, Positive
  <2>2. CASE pc \notin DOMAIN Code
    BY <2>2 DEF InstAt, Nop, Conditional
  <2> QED BY <2>1, <2>2
<1>3. Targets \subseteq Positive
  BY BpredAssumption DEF Positive
<1> DEFINE i == InstAt(pc)
           fall == pc + IsCompressed(i.op)
<1>4. fall \in Positive
  BY <1>1 DEF Positive
<1>5. Nexts(pc) = CASE i.op \in Conditional -> {fall, i.target}
                    [] i.op \in {"JAL", "C_J"} -> {i.target}
                    [] i.op \in {"JALR", "C_JALR", "C_JR"} -> Targets
                    [] OTHER -> {fall}
  BY Zenon DEF Nexts
<1> HIDE DEF fall
<1>6. Nexts(pc) \subseteq Positive
  <2>1. CASE i.op \in Conditional
    <3>1. i.op \notin {"JAL", "C_J", "JALR", "C_JALR", "C_JR"}
      BY <2>1 DEF Conditional
    <3>2. Nexts(pc) = {fall, i.target}
      BY <1>5, <2>1, <3>1
    <3> QED BY <1>2, <1>4, <2>1, <3>2
  <2>2. CASE i.op \in {"JAL", "C_J"}
    <3>1. i.op \notin Conditional /\ i.op \notin {"JALR", "C_JALR", "C_JR"}
      BY <2>2 DEF Conditional
    <3>2. Nexts(pc) = {i.target}
      BY <1>5, <2>2, <3>1
    <3> QED BY <1>2, <2>2, <3>2
  <2>3. CASE i.op \in {"JALR", "C_JALR", "C_JR"}
    <3>1. i.op \notin Conditional /\ i.op \notin {"JAL", "C_J"}
      BY <2>3 DEF Conditional
    <3>2. Nexts(pc) = Targets
      BY <1>5, <2>3, <3>1
    <3> QED BY <1>3, <3>2
  <2>4. CASE i.op \notin Conditional \cup {"JAL", "C_J", "JALR", "C_JALR", "C_JR"}
    <3>1. Nexts(pc) = {fall}
      BY <1>5, <2>4
    <3> QED BY <1>4, <3>1
  <2> QED BY <2>1, <2>2, <2>3, <2>4
<1> QED BY <1>1, <1>2, <1>6

LEMMA FetchStep ==
  ASSUME conf \in Predictors, NEW p, NEW h, NEW f, NEW w, NEW m, NEW a, NEW b, NEW r,
         Now(p, h, f, w, m, a, b, r), StateOK(p, h, f, w, m, a, b, r), BpFetch,
         NEW q, NEW h2, NEW g, NEW v, NEW m2, NEW a2, NEW b2, NEW r2, Now(q, h2, g, v, m2, a2, b2, r2)'
  PROVE  StateOK(q, h2, g, v, m2, a2, b2, r2)
<1> DEFINE op == InstAt(a).op
           L == IF op \in Control THEN Lookup(p, op, a, 0)
                ELSE [p |-> p, answer |-> 0, update |-> NoUpdate, idx |-> 0]
           next == IF L.answer = 0 THEN a + IsCompressed(op) ELSE L.answer
           e == [pc |-> a, op |-> op, pred |-> next, update |-> L.update, idx |-> L.idx]
<1>1. pred = p /\ past = h /\ fq = f /\ window = w /\ specMode = m /\ fetchPC = a /\ regsPC = b /\ recoverPC = r
  BY Zenon DEF Now
<1>2. /\ pred' = q /\ past' = h2 /\ fq' = g /\ window' = v /\ specMode' = m2 /\ fetchPC' = a2 /\ regsPC' = b2
      /\ recoverPC' = r2
  BY Zenon DEF Now
<1>3. conf.update # "each" /\ g = Append(f, e) /\ q = L.p /\ a2 = next
  BY <1>1, <1>2, ZenonT(60) DEF BpFetch
<1>4. h2 = h /\ v = w /\ m2 = m /\ b2 = b /\ r2 = r
  BY <1>1, <1>2, ZenonT(60) DEF BpFetch
<1>5. IsSeq(h) /\ PredInv(p, h) /\ FetchedOK(f) /\ WindowOK(w) /\ PathOK(w, m, r)
      /\ CountsOK(p, h, f, w) /\ a \in Positive /\ b \in Positive
  BY Zenon DEF StateOK
<1>6. PredOK(p) /\ StatsOK(p.st)
  BY <1>5, Zenon DEF PredInv
<1>7. a \in Nat \ {0} /\ 0 \in Nat
  BY <1>5 DEF Positive
<1> DEFINE o == One(op \in Control)
           t == One(op \in Returns)
<1> HIDE DEF op
<1>8. /\ PredInv(q, h) /\ L.answer \in Nat /\ (L.update.ras <=> Return(op))
      /\ conf.ras > 0 => L.idx \in 0 .. conf.ras - 1
      /\ q.st.lookups = p.st.lookups + o /\ Trained(q.st) = Trained(p.st)
      /\ q.st.used_ras = p.st.used_ras /\ q.st.pops = p.st.pops + t
  <2>1. CASE op \in Control
    <3>1. LookedUp(p, op, a, 0, L)
      BY <2>1, Zenon DEF LookedUp
    <3> HIDE DEF L
    <3>2. /\ PredOK(L.p) /\ L.p.btb = p.btb /\ L.p.shiftregs = p.shiftregs
          /\ StatsOK(p.st) => StatsOK(L.p.st)
          /\ L.p.st.lookups = p.st.lookups + 1 /\ Trained(L.p.st) = Trained(p.st)
          /\ L.p.st.used_ras = p.st.used_ras
          /\ L.p.st.pops = p.st.pops + IF Return(op) THEN 1 ELSE 0
          /\ L.answer \in Nat
          /\ L.update.ras <=> Return(op)
          /\ conf.ras > 0 => L.idx \in 0 .. conf.ras - 1
      <4>1. LookupDone(p, op, a, L)
        BY <1>6, <1>7, <3>1, LookupIs
      <4> QED BY <4>1, Zenon DEF LookupDone
    <3>3. o = 1 /\ t = IF Return(op) THEN 1 ELSE 0
      BY <2>1 DEF One, Returns
    <3> HIDE DEF o, t
    <3>4. PredInv(q, h)
      BY <1>3, <1>5, <1>6, <3>2, SameTables, Zenon
    <3> QED BY <1>3, <3>2, <3>3, <3>4, Zenon
  <2>2. CASE op \notin Control
    <3>1. L = [p |-> p, answer |-> 0, update |-> NoUpdate, idx |-> 0]
      BY <2>2, Zenon
    <3> HIDE DEF L
    <3>2. L.p = p /\ L.answer = 0 /\ L.update = NoUpdate /\ L.idx = 0
      BY <3>1
    <3>3. ~Return(op)
      BY <2>2 DEF Return, MD_IS_RETURN, Control, Direct
    <3>4. o = 0 /\ t = 0
      BY <2>2 DEF One, Returns
    <3> HIDE DEF o, t
    <3>5. L.update.ras = FALSE
      BY <3>2 DEF NoUpdate
    <3>6. conf.ras > 0 => 0 \in 0 .. conf.ras - 1
      BY ConfIs
    <3>7. q = p
      BY <1>3, <3>2, Zenon
    <3>8. p.st.lookups \in Nat /\ p.st.pops \in Nat
      BY <1>6 DEF PredOK, PredictorStats
    <3>9. q.st.lookups = p.st.lookups + o /\ q.st.pops = p.st.pops + t
      BY <3>4, <3>7, <3>8
    <3>10. L.update.ras <=> Return(op)
      BY <3>3, <3>5
    <3>11. PredInv(q, h) /\ Trained(q.st) = Trained(p.st) /\ q.st.used_ras = p.st.used_ras
      BY <1>5, <3>7, Zenon
    <3> HIDE DEF o, t
    <3>12. L.answer \in Nat /\ (conf.ras > 0 => L.idx \in 0 .. conf.ras - 1)
      BY <3>2, <3>6
    <3> QED BY <3>9, <3>10, <3>11, <3>12, Zenon
  <2> QED BY <2>1, <2>2
<1>9. next \in Positive
  <2>1. IsCompressed(op) \in {2, 4}
    BY <1>5, InstIs
  <2> HIDE DEF L
  <2> QED BY <1>7, <1>8, <2>1 DEF Positive
<1>10. e.pc = a /\ e.op = op /\ e.pred = next /\ e.update = L.update /\ e.idx = L.idx
  BY Zenon
<1> HIDE DEF e, next, L
<1>11. Looked(e)
  BY <1>5, <1>8, <1>9, <1>10, Zenon DEF Looked, RasRight, op
<1>12. Grows(f, e, g)
  BY <1>3, <1>5, Zenon DEF Grows, FetchedOK
<1>13. FetchedOK(g)
  <2>1. /\ IsSeq(g) /\ DOMAIN g = 1 .. Len(f) + 1 /\ g[Len(f) + 1] = e /\ \A k \in 1 .. Len(f) : g[k] = f[k]
        /\ DOMAIN f = 1 .. Len(f) /\ Len(f) \in Nat
    BY <1>12, AppendIs DEF Grown
  <2>2. \A k \in 1 .. Len(f) + 1 : k = Len(f) + 1 \/ k \in 1 .. Len(f)
    BY <2>1
  <2> QED BY <1>5, <1>11, <2>1, <2>2, Zenon DEF FetchedOK
<1>14. CountsOK(q, h, g, w)
  <2>1. IsSeq(w)
    BY <1>5 DEF WindowOK
  <2> DEFINE c == ToTrain(f, w, Control)
             c2 == ToTrain(g, w, Control)
             d == ToTrain(f, w, Returns)
             d2 == ToTrain(g, w, Returns)
  <2>2. c \in Nat /\ c2 = c + o
    BY <1>10, <1>12, <2>1, ToTrainFetch
  <2>3. d \in Nat /\ d2 = d + t
    BY <1>10, <1>12, <2>1, ToTrainFetch
  <2>4. /\ Trained(p.st) + c <= p.st.lookups /\ p.st.used_ras + d <= p.st.pops
        /\ conf.update \in {"ID", "each"} => Trained(p.st) = Len(h)
        /\ conf.update = "CT" => Trained(p.st) + Waiting(w) = Len(h)
    BY <1>5 DEF CountsOK
  <2>5. Trained(p.st) \in Nat /\ p.st.lookups \in Nat /\ p.st.used_ras \in Nat /\ p.st.pops \in Nat
    BY <1>6, StatsAre
  <2>6. o \in {0, 1} /\ t \in {0, 1}
    BY DEF One
  <2> DEFINE T == Trained(p.st)
             T2 == Trained(q.st)
             l == p.st.lookups
             l2 == q.st.lookups
             u == p.st.used_ras
             u2 == q.st.used_ras
             x == p.st.pops
             x2 == q.st.pops
  <2>7. l2 = l + o /\ T2 = T /\ u2 = u /\ x2 = x + t /\ T + c <= l /\ u + d <= x
        /\ T \in Nat /\ l \in Nat /\ u \in Nat /\ x \in Nat
    BY <1>8, <2>4, <2>5, Zenon
  <2> HIDE DEF o, t, c, c2, d, d2, T, T2, l, l2, u, u2, x, x2
  <2>8. T2 + c2 <= l2 /\ u2 + d2 <= x2
    BY <2>2, <2>3, <2>6, <2>7
  <2>9. Trained(q.st) + ToTrain(g, w, Control) <= q.st.lookups
    BY <2>8, Zenon DEF T2, c2, l2
  <2>10. q.st.used_ras + ToTrain(g, w, Returns) <= q.st.pops
    BY <2>8, Zenon DEF u2, d2, x2
  <2> QED BY <1>3, <1>8, <2>4, <2>9, <2>10, Zenon DEF CountsOK
<1> QED BY <1>3, <1>4, <1>5, <1>8, <1>9, <1>13, <1>14, Zenon DEF StateOK

LEMMA FetchedLeave ==
  ASSUME NEW f, FetchedOK(f), f # <<>>, NEW g, g \in {Tail(f), <<>>}
  PROVE  Looked(Head(f)) /\ FetchedOK(g)
<1> DEFINE t == Tail(f)
           n == Len(f)
<1>1. IsSeq(f) /\ DOMAIN f = 1 .. n /\ n \in Nat \ {0} /\ Head(f) = f[1] /\ \A k \in 1 .. n : Looked(f[k])
  BY SeqIs DEF FetchedOK
<1>2. IsSeq(t) /\ DOMAIN t = 1 .. n - 1 /\ \A k \in 1 .. n - 1 : t[k] = f[k + 1]
  BY <1>1, TailIs
<1> HIDE DEF t, n
<1>3. \A k \in 1 .. n - 1 : k + 1 \in 1 .. n
  BY <1>1
<1>4. 1 \in 1 .. n
  BY <1>1
<1>5. FetchedOK(t)
  BY <1>1, <1>2, <1>3, Zenon DEF FetchedOK
<1>6. FetchedOK(<<>>)
  BY NilIs, Zenon DEF FetchedOK
<1> QED BY <1>1, <1>4, <1>5, <1>6, Zenon DEF t

LEMMA WaitingIs ==
  ASSUME NEW w, IsSeq(w)
  PROVE  WaitingPlaces(w) \in SUBSET (1 .. Len(w)) /\ Waiting(w) \in Nat /\ Len(w) \in Nat
<1>1. DOMAIN w = 1 .. Len(w) /\ Len(w) \in Nat
  BY SeqIs
<1>2. WaitingPlaces(w) \in SUBSET (1 .. Len(w))
  BY <1>1 DEF WaitingPlaces
<1> QED BY <1>1, <1>2, Places DEF Waiting

LEMMA WaitingDispatch ==
  ASSUME NEW w, NEW e, NEW v, Grows(w, e, v)
  PROVE  Waiting(w) \in Nat /\ Waiting(v) = Waiting(w) + One(~e.spec /\ e.op \in Control)
<1> DEFINE n == Len(w)
           K == WaitingPlaces(w)
           L == WaitingPlaces(v)
<1>1. /\ n \in Nat /\ DOMAIN w = 1 .. n /\ IsSeq(w) /\ IsSeq(v) /\ Len(v) = n + 1 /\ DOMAIN v = 1 .. n + 1
      /\ v[n + 1] = e /\ \A k \in 1 .. n : v[k] = w[k]
  BY AppendIs DEF Grown
<1>2. K \in SUBSET (1 .. n) /\ L \in SUBSET (1 .. n + 1) /\ Waiting(w) \in Nat
  <2>1. K \in SUBSET (1 .. Len(w)) /\ Waiting(w) \in Nat
    BY <1>1, WaitingIs
  <2>2. L \in SUBSET (1 .. Len(v))
    BY <1>1, WaitingIs
  <2> QED BY <1>1, <2>1, <2>2
<1>3. \A k \in 1 .. n : k \in L <=> k \in K
  BY <1>1 DEF WaitingPlaces
<1>4. n + 1 \in L <=> ~e.spec /\ e.op \in Control
  BY <1>1 DEF WaitingPlaces
<1> HIDE DEF n, K, L
<1>5. Cardinality(L) = Cardinality(K) + One(n + 1 \in L)
  BY <1>1, <1>2, <1>3, PlacesGrow
<1>6. One(n + 1 \in L) = One(~e.spec /\ e.op \in Control)
  BY <1>4 DEF One
<1> QED BY <1>2, <1>5, <1>6, Zenon DEF Waiting, K, L

\* e is dispatched; it starts a wrong path when wrong.
LEMMA PathDispatch ==
  ASSUME NEW w, NEW m, NEW r, PathOK(w, m, r), NEW e, NEW v, Grows(w, e, v), NEW next \in Positive,
         NEW wrong \in BOOLEAN, wrong => ~m, e.recover = wrong, e.spec = m, ~e.done
  PROVE  PathOK(v, m \/ wrong, IF wrong THEN next ELSE r)
<1> DEFINE n == Len(w)
           r2 == IF wrong THEN next ELSE r
<1>1. /\ n \in Nat /\ DOMAIN w = 1 .. n /\ DOMAIN v = 1 .. n + 1
      /\ v[n + 1] = e /\ \A k \in 1 .. n : v[k] = w[k]
  BY AppendIs DEF Grown
<1>2. /\ m \in BOOLEAN
      /\ \A k \in 1 .. n : Open(w, k) => m /\ r \in Positive /\ \A i \in 1 .. n : w[i].spec <=> i > k
      /\ m => \E k \in 1 .. n : Open(w, k)
      /\ ~m => \A i \in 1 .. n : ~w[i].spec
  BY <1>1 DEF PathOK
<1>3. \A k \in 1 .. n + 1 : k = n + 1 \/ k \in 1 .. n
  BY <1>1
<1>4. n + 1 \in 1 .. n + 1 /\ \A k \in 1 .. n : k \in 1 .. n + 1 /\ n + 1 > k
  BY <1>1
<1>5. \A k \in 1 .. n : Open(v, k) <=> Open(w, k)
  BY <1>1 DEF Open
<1>6. Open(v, n + 1) <=> wrong
  BY <1>1 DEF Open
<1> HIDE DEF n
<1>7. CASE wrong
  <2>1. ~m /\ \A k \in 1 .. n : ~Open(v, k) /\ ~v[k].spec
    BY <1>1, <1>2, <1>5, <1>7
  <2>2. Open(v, n + 1) /\ ~v[n + 1].spec /\ r2 \in Positive
    BY <1>1, <1>6, <1>7, <2>1
  <2>3. \A i \in 1 .. n + 1 : ~v[i].spec /\ ~(i > n + 1)
    BY <1>1, <1>3, <2>1, <2>2
  <2>4. \A k \in 1 .. n + 1 : Open(v, k) => k = n + 1
    BY <1>3, <2>1
  <2> QED BY <1>1, <1>4, <1>7, <2>2, <2>3, <2>4, Zenon DEF PathOK
<1>8. CASE ~wrong
  <2>1. (m \/ wrong) <=> m
    BY <1>8
  <2>2. r2 = r /\ (v[n + 1].spec <=> m)
    BY <1>1, <1>8
  <2>3. \A k \in 1 .. n + 1 : Open(v, k) => k \in 1 .. n /\ Open(w, k)
    BY <1>3, <1>5, <1>6, <1>8
  <2>4. ASSUME NEW k \in 1 .. n + 1, Open(v, k)
        PROVE  m /\ r2 \in Positive /\ \A i \in 1 .. n + 1 : v[i].spec <=> i > k
    <3>1. m /\ r \in Positive /\ \A i \in 1 .. n : w[i].spec <=> i > k
      BY <1>2, <2>3, <2>4
    <3>2. k \in 1 .. n
      BY <2>3, <2>4
    <3> QED BY <1>1, <1>3, <1>4, <2>2, <3>1, <3>2
  <2>5. m => \E k \in 1 .. n + 1 : Open(v, k)
    BY <1>2, <1>4, <1>5
  <2>6. ~m => \A i \in 1 .. n + 1 : ~v[i].spec
    BY <1>1, <1>2, <1>3, <2>2
  <2>7. (m \/ wrong) \in BOOLEAN
    OBVIOUS
  <2> HIDE DEF r2
  <2>8. PathOK(v, m \/ wrong, r2)
    BY <1>1, <2>1, <2>4, <2>5, <2>6, <2>7, Zenon DEF PathOK
  <2> QED BY <2>8 DEF r2
<1> QED BY <1>7, <1>8

LEMMA DispatchStep ==
  ASSUME conf \in Predictors, NEW p, NEW h, NEW f, NEW w, NEW m, NEW a, NEW b, NEW r,
         Now(p, h, f, w, m, a, b, r), StateOK(p, h, f, w, m, a, b, r), BpDispatch,
         NEW q, NEW h2, NEW g, NEW v, NEW m2, NEW a2, NEW b2, NEW r2, Now(q, h2, g, v, m2, a2, b2, r2)'
  PROVE  StateOK(q, h2, g, v, m2, a2, b2, r2)
<1> DEFINE x == Head(f)
           predTaken == x.pred # x.pc + IsCompressed(x.op)
           Target(next) == IF x.op = "C_JR" \/ x.op \notin Direct THEN next ELSE InstAt(x.pc).target
           Redirected(next) == x.op \in Direct /\ Target(next) # x.pred /\ predTaken
           Wrong(next) == ~m /\ x.pred # next /\ ~Redirected(next)
           E(next) == [pc |-> x.pc, op |-> x.op, pred |-> x.pred, next |-> next, update |-> x.update,
                       idx |-> x.idx, recover |-> Wrong(next), spec |-> m, done |-> FALSE]
           now == ~m /\ x.op \in Control
           J(next) == [pc |-> x.pc, next |-> next]
<1>1. pred = p /\ past = h /\ fq = f /\ window = w /\ specMode = m /\ fetchPC = a /\ regsPC = b /\ recoverPC = r
  BY Zenon DEF Now
<1>2. /\ pred' = q /\ past' = h2 /\ fq' = g /\ window' = v /\ specMode' = m2 /\ fetchPC' = a2 /\ regsPC' = b2
      /\ recoverPC' = r2
  BY Zenon DEF Now
<1>3. PICK next \in Nexts(x.pc) :
        /\ v = Append(w, E(next)) /\ b2 = x.pc
        /\ g = IF Redirected(next) THEN <<>> ELSE Tail(f)
        /\ a2 = IF Redirected(next) THEN next ELSE a
        /\ q = IF now /\ conf.update = "ID" THEN UpdateFor(p, E(next), x.pc) ELSE p
        /\ h2 = IF now THEN Append(h, J(next)) ELSE h
        /\ m2 = (m \/ Wrong(next))
        /\ r2 = IF Wrong(next) THEN next ELSE r
  BY <1>1, <1>2, ZenonT(60) DEF BpDispatch
<1>4. f # <<>>
  BY <1>1, Zenon DEF BpDispatch
<1> DEFINE e == E(next)
           j == J(next)
           wrong == Wrong(next)
<1>5. IsSeq(h) /\ PredInv(p, h) /\ FetchedOK(f) /\ WindowOK(w) /\ PathOK(w, m, r)
      /\ CountsOK(p, h, f, w) /\ a \in Positive /\ b \in Positive
  BY Zenon DEF StateOK
<1>6. PredOK(p) /\ StatsOK(p.st) /\ IsSeq(f) /\ IsSeq(w) /\ m \in BOOLEAN
  BY <1>5, Zenon DEF PredInv, FetchedOK, WindowOK, PathOK
<1>7. g \in {Tail(f), <<>>}
  BY <1>3
<1>8. Looked(x) /\ FetchedOK(g)
  BY <1>4, <1>5, <1>7, FetchedLeave
<1>9. next \in Positive
  <2>1. x.pc \in Positive
    BY <1>8 DEF Looked
  <2> QED BY <1>3, <2>1, InstIs
<1>10. /\ e.pc = x.pc /\ e.op = x.op /\ e.pred = x.pred /\ e.next = next /\ e.update = x.update /\ e.idx = x.idx
       /\ e.recover = wrong /\ e.spec = m /\ e.done = FALSE /\ j.pc = x.pc /\ j.next = next
       /\ e = [pc |-> e.pc, op |-> e.op, pred |-> e.pred, next |-> e.next, update |-> e.update,
               idx |-> e.idx, recover |-> e.recover, spec |-> e.spec, done |-> e.done]
  BY Zenon
<1>11. wrong \in BOOLEAN /\ (wrong => ~m)
  BY Zenon
<1>12. v = Append(w, e) /\ (now => h2 = Append(h, j)) /\ (~now => h2 = h) /\ m2 = (m \/ wrong)
       /\ r2 = (IF wrong THEN next ELSE r) /\ (now <=> ~m /\ x.op \in Control)
       /\ (now /\ conf.update = "ID" => q = UpdateFor(p, e, x.pc)) /\ (~(now /\ conf.update = "ID") => q = p)
       /\ a2 \in {next, a}
  BY <1>3, Zenon
<1> HIDE DEF e, j, wrong, now, x
<1>13. Dispatched(e)
  <2>1. Looked(e)
    BY <1>8, <1>10, Zenon DEF Looked, RasRight
  <2> QED BY <1>6, <1>9, <1>10, <1>11, <2>1, Zenon DEF Dispatched
<1>14. Grows(w, e, v)
  BY <1>6, <1>12, Zenon DEF Grows
<1>15. WindowOK(v)
  <2>1. /\ IsSeq(v) /\ DOMAIN v = 1 .. Len(w) + 1 /\ v[Len(w) + 1] = e /\ \A k \in 1 .. Len(w) : v[k] = w[k]
        /\ DOMAIN w = 1 .. Len(w) /\ Len(w) \in Nat
    BY <1>14, AppendIs DEF Grown
  <2>2. \A k \in 1 .. Len(w) + 1 : k = Len(w) + 1 \/ k \in 1 .. Len(w)
    BY <2>1
  <2> QED BY <1>5, <1>13, <2>1, <2>2, Zenon DEF WindowOK
<1>16. PathOK(v, m2, r2)
  <2>1. PathOK(v, m \/ wrong, IF wrong THEN next ELSE r)
    BY <1>5, <1>9, <1>10, <1>11, <1>14, PathDispatch
  <2> QED BY <1>12, <2>1, Zenon
<1>17. x.pc \in Nat \ {0} /\ e.next \in Nat /\ RasRight(e) /\ x.op = InstAt(x.pc).op
  BY <1>8, <1>9, <1>10, <1>13 DEF Looked, Dispatched, Positive
<1>18. conf.update # "each"
  BY <1>4, <1>5 DEF CountsOK
<1> DEFINE train == now /\ conf.update = "ID"
<1>19. PredInv(q, h2) /\ (train => TrainedOnce(p, q, e.op))
  <2>1. CASE train
    <3>1. Updated(p, e, x.pc, q)
      BY <1>12, <2>1, Zenon DEF Updated
    <3>2. Grows(h, j, h2)
      BY <1>5, <1>12, <2>1, Zenon DEF Grows
    <3>3. Told(p, e, x.pc, h, j, h2)
      BY <1>10, <1>17, <1>18, <3>2, Zenon DEF Told
    <3> QED BY <1>5, <1>17, <3>1, <3>3, TrainingIs
  <2>2. CASE ~train /\ ~now
    BY <1>5, <1>12, <2>2, Zenon
  <2>3. CASE ~train /\ now
    <3>1. ~(conf.update \in {"ID", "each"})
      BY <1>18, <2>3
    <3>2. PredInv(p, h2)
      BY <1>5, <3>1, NoMatter
    <3> QED BY <1>12, <2>3, <3>2, Zenon
  <2> QED BY <2>1, <2>2, <2>3
<1>20. IsSeq(h2) /\ Len(h2) = Len(h) + One(now) /\ Len(h) \in Nat
  <2>1. CASE now
    <3>1. Grows(h, j, h2)
      BY <1>5, <1>12, <2>1, Zenon DEF Grows
    <3>2. IsSeq(h2) /\ Len(h2) = Len(h) + 1 /\ Len(h) \in Nat
      BY <3>1, AppendIs DEF Grown
    <3> QED BY <2>1, <3>2 DEF One
  <2>2. CASE ~now
    <3>1. Len(h) \in Nat
      BY <1>5, SeqIs
    <3> QED BY <1>5, <1>12, <2>2, <3>1 DEF One
  <2> QED BY <2>1, <2>2
<1>21. CountsOK(q, h2, g, v)
  <2> DEFINE c == ToTrain(f, w, Control)
             c2 == ToTrain(g, v, Control)
             d == ToTrain(f, w, Returns)
             d2 == ToTrain(g, v, Returns)
             T == Trained(p.st)
             T2 == Trained(q.st)
             l == p.st.lookups
             l2 == q.st.lookups
             u == p.st.used_ras
             u2 == q.st.used_ras
             s == p.st.pops
             s2 == q.st.pops
             o == One(train)
             t == One(train /\ Return(e.op))
             i == One(now)
             y == Waiting(w)
             y2 == Waiting(v)
             n == Len(h)
             n2 == Len(h2)
  <2>1. c2 \in Nat /\ c \in Nat /\ c2 + One(e.op \in Control /\ ~(conf.update \in {"CT", "WB"})) <= c
    BY <1>4, <1>6, <1>7, <1>10, <1>14, ToTrainDispatch DEF x
  <2>2. d2 \in Nat /\ d \in Nat /\ d2 + One(e.op \in Returns /\ ~(conf.update \in {"CT", "WB"})) <= d
    BY <1>4, <1>6, <1>7, <1>10, <1>14, ToTrainDispatch DEF x
  <2>3. T \in Nat /\ l \in Nat /\ u \in Nat /\ s \in Nat
    BY <1>6, StatsAre
  <2>4. /\ T + c <= l /\ u + d <= s
        /\ conf.update \in {"ID", "each"} => T = n
        /\ conf.update = "CT" => T + y = n
    BY <1>5 DEF CountsOK
  <2>5. l2 = l /\ s2 = s /\ T2 = T + o /\ u2 = u + t
    <3>1. CASE train
      <4>1. l2 = l /\ s2 = s /\ T2 = T + 1 /\ u2 = u + IF Return(e.op) THEN 1 ELSE 0
        BY <1>19, <3>1, Zenon DEF TrainedOnce
      <4>2. o = 1 /\ t = IF Return(e.op) THEN 1 ELSE 0
        BY <3>1, Zenon DEF One
      <4> QED BY <4>1, <4>2, Zenon
    <3>2. CASE ~train
      <4>1. q = p
        BY <1>12, <3>2, Zenon
      <4>2. o = 0 /\ t = 0
        BY <3>2, Zenon DEF One
      <4>3. l2 = l /\ s2 = s /\ T2 = T /\ u2 = u
        BY <4>1, Zenon
      <4> HIDE DEF o, t, T, T2, u, u2, l, l2, s, s2
      <4> QED BY <2>3, <4>2, <4>3
    <3> QED BY <3>1, <3>2
  <2>6. y \in Nat /\ y2 = y + i
    <3>1. y \in Nat /\ y2 = y + One(~e.spec /\ e.op \in Control)
      BY <1>14, WaitingDispatch
    <3>2. One(~e.spec /\ e.op \in Control) = i
      BY <1>10, <1>12 DEF One
    <3> QED BY <3>1, <3>2, Zenon
  <2>7. n2 = n + i /\ n \in Nat
    BY <1>20
  <2>8. c2 + o <= c
    <3>1. CASE train
      <4>1. e.op \in Control /\ ~(conf.update \in {"CT", "WB"})
        BY <1>10, <1>12, <3>1
      <4>2. One(e.op \in Control /\ ~(conf.update \in {"CT", "WB"})) = o
        BY <3>1, <4>1, Zenon DEF One
      <4> QED BY <2>1, <4>2, Zenon
    <3>2. CASE ~train
      <4> DEFINE z == One(e.op \in Control /\ ~(conf.update \in {"CT", "WB"}))
      <4>1. o = 0 /\ z \in {0, 1} /\ c2 + z <= c
        BY <2>1, <3>2 DEF One
      <4> HIDE DEF o, z, c, c2
      <4> QED BY <2>1, <4>1
    <3> QED BY <3>1, <3>2
  <2>9. d2 + t <= d
    <3>1. CASE train /\ Return(e.op)
      <4>1. e.op \in Returns /\ ~(conf.update \in {"CT", "WB"})
        BY <1>10, <1>12, <3>1 DEF Returns
      <4>2. One(e.op \in Returns /\ ~(conf.update \in {"CT", "WB"})) = t
        BY <3>1, <4>1, Zenon DEF One
      <4> QED BY <2>2, <4>2, Zenon
    <3>2. CASE ~(train /\ Return(e.op))
      <4> DEFINE z == One(e.op \in Returns /\ ~(conf.update \in {"CT", "WB"}))
      <4>1. t = 0 /\ z \in {0, 1} /\ d2 + z <= d
        BY <2>2, <3>2 DEF One
      <4> HIDE DEF t, z, d, d2
      <4> QED BY <2>2, <4>1
    <3> QED BY <3>1, <3>2
  <2>10. (conf.update = "ID" => o = i) /\ (conf.update = "CT" => o = 0) /\ o \in {0, 1} /\ i \in {0, 1} /\ t \in {0, 1}
    <3>1. conf.update = "ID" => (train <=> now)
      OBVIOUS
    <3>2. conf.update = "CT" => ~train
      OBVIOUS
    <3> HIDE DEF train
    <3> QED BY <3>1, <3>2 DEF One
  <2> HIDE DEF c, c2, d, d2, T, T2, l, l2, u, u2, s, s2, o, t, i, y, y2, n, n2, train
  <2>11. T2 + c2 <= l2 /\ u2 + d2 <= s2
    BY <2>1, <2>2, <2>3, <2>4, <2>5, <2>8, <2>9, <2>10
  <2>12. conf.update \in {"ID", "each"} => T2 = n2
    BY <1>18, <2>3, <2>4, <2>5, <2>7, <2>10
  <2>13. conf.update = "CT" => T2 + y2 = n2
    BY <2>3, <2>4, <2>5, <2>6, <2>7, <2>10
  <2> QED BY <1>18, <2>11, <2>12, <2>13, Zenon DEF CountsOK, T2, c2, l2, u2, d2, s2, y2, n2
<1>22. a2 \in Positive /\ b2 \in Positive
  BY <1>3, <1>5, <1>9, <1>12, <1>17 DEF Positive
<1> QED BY <1>8, <1>15, <1>16, <1>19, <1>20, <1>21, <1>22, Zenon DEF StateOK

\* The window v after the result of its k-th instruction, u, which a recovery cuts.
Results(w, k, u, v) ==
  /\ k \in DOMAIN w /\ u = [w EXCEPT ![k].done = TRUE] /\ ~w[k].done
  /\ v = IF w[k].recover THEN SubSeq(u, 1, k) ELSE u

LEMMA ResultsIs ==
  ASSUME NEW w, WindowOK(w), NEW k, NEW u, NEW v, Results(w, k, u, v)
  PROVE  /\ ResultIn(w, k, u) /\ v \in {u, SubSeq(u, 1, k)} /\ WindowOK(v)
         /\ \A i \in DOMAIN v : /\ i \in DOMAIN w
                                /\ v[i].recover = w[i].recover /\ v[i].spec = w[i].spec /\ v[i].op = w[i].op
                                /\ v[i].done = w[i].done \/ i = k
                                /\ i = k => v[i].done
         /\ \A i \in DOMAIN w : i \in DOMAIN v \/ (w[k].recover /\ i > k)
         /\ w[k].recover => \A i \in DOMAIN v : ~(i > k)
<1> DEFINE n == Len(w)
           x == [w[k] EXCEPT !.done = TRUE]
<1>1. IsSeq(w) /\ n \in Nat /\ DOMAIN w = 1 .. n /\ k \in 1 .. n /\ \A i \in 1 .. n : Dispatched(w[i])
  BY SeqIs DEF WindowOK, Results
<1>2. u = [w EXCEPT ![k] = x]
  BY Zenon DEF Results
<1>3. Dispatched(w[k])
  BY <1>1
<1>4. /\ x.pc = w[k].pc /\ x.op = w[k].op /\ x.pred = w[k].pred /\ x.next = w[k].next /\ x.update = w[k].update
      /\ x.idx = w[k].idx /\ x.recover = w[k].recover /\ x.spec = w[k].spec /\ x.done = TRUE
      /\ x = [pc |-> x.pc, op |-> x.op, pred |-> x.pred, next |-> x.next, update |-> x.update,
              idx |-> x.idx, recover |-> x.recover, spec |-> x.spec, done |-> x.done]
  <2> DEFINE y == w[k]
  <2>1. y = [pc |-> y.pc, op |-> y.op, pred |-> y.pred, next |-> y.next, update |-> y.update,
             idx |-> y.idx, recover |-> y.recover, spec |-> y.spec, done |-> y.done]
    BY <1>3 DEF Dispatched
  <2>2. x = [y EXCEPT !.done = TRUE]
    OBVIOUS
  <2> HIDE DEF x, y
  <2>3. x = [pc |-> y.pc, op |-> y.op, pred |-> y.pred, next |-> y.next, update |-> y.update,
             idx |-> y.idx, recover |-> y.recover, spec |-> y.spec, done |-> TRUE]
    BY <2>1, <2>2
  <2>4. /\ x.pc = y.pc /\ x.op = y.op /\ x.pred = y.pred /\ x.next = y.next /\ x.update = y.update
        /\ x.idx = y.idx /\ x.recover = y.recover /\ x.spec = y.spec /\ x.done = TRUE
    BY <2>3
  <2> QED BY <2>3, <2>4, Zenon DEF y
<1> HIDE DEF x
<1>5. Dispatched(x)
  <2>1. Looked(x)
    BY <1>3, <1>4, Zenon DEF Dispatched, Looked, RasRight
  <2> QED BY <1>3, <1>4, <2>1, Zenon DEF Dispatched
<1>6. IsSeq(u) /\ Len(u) = n /\ DOMAIN u = 1 .. n /\ u[k] = x /\ \A i \in 1 .. n : i # k => u[i] = w[i]
  <2>1. WithAt(w, k, x, u)
    BY <1>2, Zenon DEF WithAt
  <2> QED BY <1>1, <2>1, ExceptIs
<1>7. ResultIn(w, k, u)
  <2>1. ~w[k].done
    BY DEF Results
  <2> QED BY <1>1, <1>4, <1>6, <2>1 DEF ResultIn
<1>8. v \in {u, SubSeq(u, 1, k)}
  BY Zenon DEF Results
<1> HIDE DEF n
<1>9. /\ IsSeq(v) /\ \A i \in DOMAIN v : i \in 1 .. n /\ v[i] = u[i]
      /\ \A i \in 1 .. n : i \in DOMAIN v \/ (w[k].recover /\ i > k)
      /\ w[k].recover => \A i \in DOMAIN v : ~(i > k)
  <2>1. CASE w[k].recover
    <3>1. FrontOf(u, k, v)
      BY <2>1, Zenon DEF FrontOf, Results
    <3>2. k \in 0 .. Len(u)
      BY <1>1, <1>6
    <3>3. IsSeq(v) /\ DOMAIN v = 1 .. k /\ \A i \in 1 .. k : v[i] = u[i]
      BY <1>6, <3>1, <3>2, FrontIs
    <3> QED BY <1>1, <2>1, <3>3
  <2>2. CASE ~w[k].recover
    <3>1. v = u
      BY <2>2, Zenon DEF Results
    <3> QED BY <1>6, <2>2, <3>1
  <2> QED BY <2>1, <2>2
<1>10. \A i \in DOMAIN v : (i = k /\ v[i] = x) \/ (i # k /\ v[i] = w[i])
  BY <1>6, <1>9, Zenon
<1>11. WindowOK(v)
  BY <1>1, <1>5, <1>9, <1>10, Zenon DEF WindowOK
<1>12. ASSUME NEW i \in DOMAIN v
       PROVE  /\ i \in DOMAIN w
              /\ v[i].recover = w[i].recover /\ v[i].spec = w[i].spec /\ v[i].op = w[i].op
              /\ v[i].done = w[i].done \/ i = k
              /\ i = k => v[i].done
  BY <1>1, <1>4, <1>9, <1>10, Zenon
<1> QED BY <1>1, <1>7, <1>8, <1>9, <1>11, <1>12, Zenon

LEMMA PathResult ==
  ASSUME NEW w, WindowOK(w), NEW m, NEW r, PathOK(w, m, r), NEW k, NEW u, NEW v, Results(w, k, u, v)
  PROVE  /\ PathOK(v, m /\ ~w[k].recover, r) /\ Waiting(v) = Waiting(w)
<1>1. /\ \A i \in DOMAIN v : /\ i \in DOMAIN w
                             /\ v[i].recover = w[i].recover /\ v[i].spec = w[i].spec /\ v[i].op = w[i].op
                             /\ v[i].done = w[i].done \/ i = k
                             /\ i = k => v[i].done
      /\ \A i \in DOMAIN w : i \in DOMAIN v \/ (w[k].recover /\ i > k)
      /\ w[k].recover => \A i \in DOMAIN v : ~(i > k)
  BY ResultsIs
<1>2. /\ m \in BOOLEAN
      /\ \A i \in DOMAIN w : Open(w, i) => m /\ r \in Positive /\ \A l \in DOMAIN w : w[l].spec <=> l > i
      /\ m => \E i \in DOMAIN w : Open(w, i)
      /\ ~m => \A i \in DOMAIN w : ~w[i].spec
  BY Zenon DEF PathOK
<1>3. k \in DOMAIN w /\ ~w[k].done
  BY DEF Results
<1>4. \A i \in DOMAIN v : Open(v, i) => i # k /\ Open(w, i)
  BY <1>1 DEF Open
<1>5. w[k].recover => \A l \in DOMAIN w : w[l].spec <=> l > k
  BY <1>2, <1>3 DEF Open
<1>6. DOMAIN w \subseteq Nat
  <2>1. DOMAIN w = 1 .. Len(w) /\ Len(w) \in Nat
    BY SeqIs DEF WindowOK
  <2> QED BY <2>1
<1>7. CASE w[k].recover
  <2>1. \A i \in DOMAIN v : ~v[i].spec
    BY <1>1, <1>5, <1>7
  <2>2. ASSUME NEW i \in DOMAIN v, Open(v, i) PROVE FALSE
    <3>1. i # k /\ i \in DOMAIN w /\ Open(w, i) /\ ~(i > k)
      BY <1>1, <1>4, <1>7, <2>2
    <3>2. w[k].spec <=> k > i
      BY <1>2, <1>3, <3>1
    <3>3. ~(k > k) /\ k > i
      BY <1>3, <1>6, <3>1
    <3> QED BY <1>3, <1>5, <1>7, <3>2, <3>3
  <2>3. (m /\ ~w[k].recover) = FALSE
    BY <1>7
  <2>4. PathOK(v, FALSE, r)
    BY <2>1, <2>2, Zenon DEF PathOK
  <2>5. ASSUME NEW i PROVE i \in WaitingPlaces(v) <=> i \in WaitingPlaces(w)
    BY <1>1, <1>5, <1>7 DEF WaitingPlaces
  <2>6. WaitingPlaces(v) = WaitingPlaces(w)
    BY <2>5, Zenon
  <2> QED BY <2>3, <2>4, <2>6, Zenon DEF Waiting
<1>8. CASE ~w[k].recover
  <2>1. \A i : i \in DOMAIN v <=> i \in DOMAIN w
    BY <1>1, <1>8, Zenon
  <2>2. DOMAIN v = DOMAIN w
    BY <2>1, Zenon
  <2>3. \A i \in DOMAIN w : Open(w, i) => i # k
    BY <1>8, Zenon DEF Open
  <2>4. \A i \in DOMAIN w : Open(w, i) => Open(v, i)
    BY <1>1, <2>2, <2>3 DEF Open
  <2>5. \A i \in DOMAIN v : Open(v, i) => m /\ r \in Positive /\ \A l \in DOMAIN v : v[l].spec <=> l > i
    BY <1>1, <1>2, <1>4, <2>2
  <2>6. (m => \E i \in DOMAIN v : Open(v, i)) /\ (~m => \A i \in DOMAIN v : ~v[i].spec)
    BY <1>1, <1>2, <2>2, <2>4
  <2>7. PathOK(v, m, r)
    BY <1>2, <2>5, <2>6, Zenon DEF PathOK
  <2>8. (m /\ ~w[k].recover) = m
    BY <1>2, <1>8
  <2>9. ASSUME NEW i PROVE i \in WaitingPlaces(v) <=> i \in WaitingPlaces(w)
    BY <1>1, <2>2 DEF WaitingPlaces
  <2>10. WaitingPlaces(v) = WaitingPlaces(w)
    BY <2>9, Zenon
  <2> QED BY <2>7, <2>8, <2>10, Zenon DEF Waiting
<1> QED BY <1>7, <1>8

\* A recovery puts back the top of the stack.
LEMMA RecoverIs ==
  ASSUME conf \in Predictors, NEW p, NEW h, PredInv(p, h), NEW e, Looked(e), NEW q,
         q = IF e.recover THEN [p EXCEPT !.tos = e.idx] ELSE p
  PROVE  PredInv(q, h) /\ q.st = p.st
<1>1. CASE e.recover
  <2> DEFINE x == e.idx
  <2>1. q = [p EXCEPT !.tos = x]
    BY <1>1, Zenon
  <2> HIDE DEF x
  <2>2. PredOK(p) /\ StatsOK(p.st)
    BY Zenon DEF PredInv
  <2>3. PredRecord(p)
    BY <2>2, Zenon DEF PredOK
  <2>4. /\ q.ctr = p.ctr /\ q.shiftregs = p.shiftregs /\ q.btb = p.btb /\ q.stack = p.stack /\ q.tos = x
        /\ q.st = p.st /\ PredRecord(q)
    BY <2>1, <2>3 DEF PredRecord
  <2>5. conf.ras > 0 => x \in 0 .. conf.ras - 1
    BY DEF Looked, x
  <2>6. PredOK(q)
    BY <2>2, <2>4, <2>5, Zenon DEF PredOK
  <2>7. PredInv(q, h)
    BY <2>2, <2>4, <2>6, SameTables, Zenon
  <2> QED BY <2>4, <2>7
<1>2. CASE ~e.recover
  BY <1>2, Zenon
<1> QED BY <1>1, <1>2

\* A branch that trains the predictor out of the program's order.
LEMMA LateTraining ==
  ASSUME conf \in Predictors, ~(conf.update \in {"ID", "each"}), NEW p, NEW h, PredInv(p, h), NEW a \in Positive,
         NEW e, Dispatched(e), NEW q, Updated(p, e, a, q)
  PROVE  PredInv(q, h) /\ TrainedOnce(p, q, e.op)
<1>1. Looked(e) /\ e.next \in Nat /\ a \in Nat \ {0}
  BY DEF Dispatched, Positive
<1>2. RasRight(e)
  BY <1>1, Zenon DEF Looked
<1>3. conf.update # "each"
  OBVIOUS
<1>4. \A j : Told(p, e, a, h, j, h)
  BY <1>3, Zenon DEF Told
<1>5. PICK j : Told(p, e, a, h, j, h)
  BY <1>4
<1> QED BY <1>1, <1>2, <1>5, TrainingIs

LEMMA WritebackStep ==
  ASSUME conf \in Predictors, NEW p, NEW h, NEW f, NEW w, NEW m, NEW a, NEW b, NEW r,
         Now(p, h, f, w, m, a, b, r), StateOK(p, h, f, w, m, a, b, r), BpWriteback,
         NEW q, NEW h2, NEW g, NEW v, NEW m2, NEW a2, NEW b2, NEW r2, Now(q, h2, g, v, m2, a2, b2, r2)'
  PROVE  StateOK(q, h2, g, v, m2, a2, b2, r2)
<1> DEFINE P(k) == IF w[k].recover THEN [p EXCEPT !.tos = w[k].idx] ELSE p
           U(k) == [w EXCEPT ![k].done = TRUE]
<1>1. pred = p /\ past = h /\ fq = f /\ window = w /\ specMode = m /\ fetchPC = a /\ regsPC = b /\ recoverPC = r
  BY Zenon DEF Now
<1>2. /\ pred' = q /\ past' = h2 /\ fq' = g /\ window' = v /\ specMode' = m2 /\ fetchPC' = a2 /\ regsPC' = b2
      /\ recoverPC' = r2
  BY Zenon DEF Now
<1>3. PICK k \in DOMAIN w :
        /\ ~w[k].done
        /\ v = IF w[k].recover THEN SubSeq(U(k), 1, k) ELSE U(k)
        /\ g = IF w[k].recover THEN <<>> ELSE f
        /\ a2 = IF w[k].recover THEN r ELSE a
        /\ m2 = (m /\ ~w[k].recover)
        /\ q = IF conf.update = "WB" /\ w[k].op \in Control THEN UpdateFor(P(k), w[k], b) ELSE P(k)
        /\ b2 = b /\ r2 = r /\ h2 = h
  BY <1>1, <1>2, ZenonT(60) DEF BpWriteback
<1> DEFINE p1 == P(k)
           u == U(k)
           e == w[k]
           train == conf.update = "WB" /\ e.op \in Control
<1>4. IsSeq(h) /\ PredInv(p, h) /\ FetchedOK(f) /\ WindowOK(w) /\ PathOK(w, m, r)
      /\ CountsOK(p, h, f, w) /\ a \in Positive /\ b \in Positive
  BY Zenon DEF StateOK
<1>5. PredOK(p) /\ StatsOK(p.st) /\ IsSeq(f) /\ IsSeq(w)
  BY <1>4, Zenon DEF PredInv, FetchedOK, WindowOK
<1>6. Results(w, k, u, v)
  BY <1>3, Zenon DEF Results
<1>7. Dispatched(e) /\ Looked(e)
  BY <1>4, Zenon DEF WindowOK, Dispatched
<1>8. p1 = IF e.recover THEN [p EXCEPT !.tos = e.idx] ELSE p
  OBVIOUS
<1>9. /\ g \in {f, <<>>} /\ a2 \in {r, a} /\ (a2 = r => e.recover \/ a2 = a) /\ m2 = (m /\ ~e.recover)
      /\ (train => q = UpdateFor(p1, e, b)) /\ (~train => q = p1) /\ b2 = b /\ r2 = r /\ h2 = h
  BY <1>3, Zenon
<1>10. a2 # a => e.recover /\ a2 = r
  BY <1>3, Zenon
<1>11. e.recover => Open(w, k)
  BY <1>3, Zenon DEF Open
<1> HIDE DEF u, p1, train
<1>12. PredInv(p1, h) /\ p1.st = p.st
  BY <1>4, <1>7, <1>8, RecoverIs, Zenon
<1>13. PredInv(q, h) /\ (train => TrainedOnce(p1, q, e.op))
  <2>1. CASE train
    <3>1. Updated(p1, e, b, q)
      BY <1>9, <2>1, Zenon DEF Updated
    <3>2. ~(conf.update \in {"ID", "each"})
      BY <2>1 DEF train
    <3> HIDE DEF e
    <3> QED BY <1>4, <1>7, <1>12, <3>1, <3>2, LateTraining
  <2>2. CASE ~train
    BY <1>9, <1>12, <2>2, Zenon
  <2> QED BY <2>1, <2>2
<1>14. FetchedOK(g)
  BY <1>4, <1>9, NilIs, Zenon DEF FetchedOK
<1>15. WindowOK(v) /\ ResultIn(w, k, u) /\ v \in {u, SubSeq(u, 1, k)}
  BY <1>4, <1>6, ResultsIs
<1>16. PathOK(v, m2, r2) /\ Waiting(v) = Waiting(w)
  <2>1. PathOK(v, m /\ ~w[k].recover, r) /\ Waiting(v) = Waiting(w)
    BY <1>4, <1>6, PathResult
  <2> QED BY <1>9, <2>1, Zenon
<1>17. a2 \in Positive
  <2>1. e.recover => r \in Positive
    BY <1>4, <1>11, Zenon DEF PathOK
  <2> QED BY <1>4, <1>10, <2>1, Zenon
<1>18. CountsOK(q, h, g, v)
  <2> DEFINE c == ToTrain(f, w, Control)
             c2 == ToTrain(g, v, Control)
             d == ToTrain(f, w, Returns)
             d2 == ToTrain(g, v, Returns)
             T == Trained(p.st)
             T2 == Trained(q.st)
             l == p.st.lookups
             l2 == q.st.lookups
             z == p.st.used_ras
             z2 == q.st.used_ras
             s == p.st.pops
             s2 == q.st.pops
             o == One(train)
             t == One(train /\ Return(e.op))
  <2>1. c2 \in Nat /\ c \in Nat /\ c2 + One(w[k].op \in Control /\ conf.update = "WB") <= c
    BY <1>5, <1>9, <1>15, ToTrainResult
  <2>2. d2 \in Nat /\ d \in Nat /\ d2 + One(w[k].op \in Returns /\ conf.update = "WB") <= d
    BY <1>5, <1>9, <1>15, ToTrainResult
  <2>3. T \in Nat /\ l \in Nat /\ z \in Nat /\ s \in Nat
    BY <1>5, StatsAre
  <2>4. /\ T + c <= l /\ z + d <= s
        /\ conf.update # "each"
        /\ conf.update = "ID" => T = Len(h)
        /\ conf.update = "CT" => T + Waiting(w) = Len(h)
    <3>1. conf.update # "each"
      <4>1. w # <<>>
        <5>1. DOMAIN <<>> = {}
          BY NilIs
        <5> QED BY <5>1
      <4> QED BY <1>4, <4>1 DEF CountsOK
    <3> QED BY <1>4, <3>1 DEF CountsOK
  <2>5. l2 = l /\ s2 = s /\ T2 = T + o /\ z2 = z + t
    <3>1. CASE train
      <4>1. l2 = l /\ s2 = s /\ T2 = T + 1 /\ z2 = z + IF Return(e.op) THEN 1 ELSE 0
        BY <1>12, <1>13, <3>1, Zenon DEF TrainedOnce
      <4>2. o = 1 /\ t = IF Return(e.op) THEN 1 ELSE 0
        BY <3>1, Zenon DEF One
      <4> QED BY <4>1, <4>2, Zenon
    <3>2. CASE ~train
      <4>1. q = p1
        BY <1>9, <3>2, Zenon
      <4>2. o = 0 /\ t = 0
        BY <3>2, Zenon DEF One
      <4>3. l2 = l /\ s2 = s /\ T2 = T /\ z2 = z
        BY <1>12, <4>1, Zenon
      <4> HIDE DEF o, t, T, T2, z, z2, l, l2, s, s2
      <4> QED BY <2>3, <4>2, <4>3
    <3> QED BY <3>1, <3>2
  <2>6. One(w[k].op \in Control /\ conf.update = "WB") = o
    BY DEF One, train
  <2>7. One(w[k].op \in Returns /\ conf.update = "WB") = t
    BY DEF One, train, Returns
  <2>8. o \in {0, 1} /\ t \in {0, 1} /\ (conf.update # "WB" => o = 0)
    BY DEF One, train
  <2> HIDE DEF c, c2, d, d2, T, T2, l, l2, z, z2, s, s2, o, t
  <2>9. T2 + c2 <= l2 /\ z2 + d2 <= s2 /\ (conf.update # "WB" => T2 = T)
    BY <2>1, <2>2, <2>3, <2>4, <2>5, <2>6, <2>7, <2>8
  <2>10. (conf.update \in {"ID", "each"} => T2 = Len(h)) /\ (conf.update = "CT" => T2 + Waiting(v) = Len(h))
    BY <1>16, <2>4, <2>9
  <2> QED BY <2>4, <2>9, <2>10, Zenon DEF CountsOK, T2, c2, l2, z2, d2, s2
<1> QED BY <1>4, <1>9, <1>13, <1>14, <1>15, <1>16, <1>17, <1>18, Zenon DEF StateOK

LEMMA CommitsIs ==
  ASSUME NEW w, WindowOK(w), NEW m, NEW r, PathOK(w, m, r), w # <<>>, Head(w).done, NEW v, v = Tail(w)
  PROVE  /\ WindowOK(v) /\ PathOK(v, m, r) /\ Dispatched(Head(w))
         /\ Waiting(v) \in Nat /\ Waiting(w) = Waiting(v) + One(Head(w).op \in Control)
<1> DEFINE n == Len(w)
           K == WaitingPlaces(w)
           L == WaitingPlaces(v)
<1>1. IsSeq(w) /\ n \in Nat \ {0} /\ DOMAIN w = 1 .. n /\ Head(w) = w[1] /\ \A k \in 1 .. n : Dispatched(w[k])
  BY SeqIs DEF WindowOK
<1>2. IsSeq(v) /\ Len(v) = n - 1 /\ DOMAIN v = 1 .. n - 1 /\ \A k \in 1 .. n - 1 : v[k] = w[k + 1]
  BY <1>1, TailIs
<1>3. K \in SUBSET (1 .. n) /\ L \in SUBSET (1 .. Len(v)) /\ Waiting(v) \in Nat
  BY <1>1, <1>2, WaitingIs
<1>4. /\ m \in BOOLEAN
      /\ \A k \in 1 .. n : Open(w, k) => m /\ r \in Positive /\ \A i \in 1 .. n : w[i].spec <=> i > k
      /\ m => \E k \in 1 .. n : Open(w, k)
      /\ ~m => \A i \in 1 .. n : ~w[i].spec
  BY <1>1 DEF PathOK
<1>5. \A k \in 1 .. n - 1 : k + 1 \in 1 .. n /\ (k \in L <=> k + 1 \in K)
  <2>1. \A k \in 1 .. n - 1 : k + 1 \in 1 .. n
    BY <1>1
  <2> QED BY <1>1, <1>2, <2>1 DEF WaitingPlaces
<1> HIDE DEF n
<1>6. 1 \in 1 .. n /\ \A k \in 1 .. n : ~(1 > k) /\ (k = 1 \/ (k - 1 \in 1 .. n - 1 /\ (k - 1) + 1 = k))
  BY <1>1
<1>7. ~Open(w, 1)
  BY <1>1 DEF Open
<1>8. ~w[1].spec
  <2>1. CASE m
    <3>1. PICK k \in 1 .. n : Open(w, k)
      BY <1>4, <2>1
    <3>2. w[1].spec <=> 1 > k
      BY <1>4, <1>6, <3>1
    <3> QED BY <1>6, <3>2
  <2> QED BY <1>4, <1>6, <2>1
<1>9. 1 \in K <=> Head(w).op \in Control
  BY <1>1, <1>6, <1>8 DEF WaitingPlaces
<1>10. Waiting(w) = Waiting(v) + One(Head(w).op \in Control)
  <2>1. L \in SUBSET (1 .. n - 1)
    BY <1>2, <1>3
  <2> HIDE DEF K, L
  <2>2. Cardinality(K) = Cardinality(L) + IF 1 \in K THEN 1 ELSE 0
    BY <1>1, <1>3, <1>5, <2>1, PlacesTail
  <2>3. One(Head(w).op \in Control) = IF 1 \in K THEN 1 ELSE 0
    BY <1>9 DEF One
  <2> QED BY <2>2, <2>3, Zenon DEF Waiting, K, L
<1>11. WindowOK(v) /\ Dispatched(Head(w))
  BY <1>1, <1>2, <1>5, <1>6, Zenon DEF WindowOK
<1>12. \A k \in 1 .. n - 1 : Open(v, k) <=> Open(w, k + 1)
  BY <1>2 DEF Open
<1>13. ASSUME NEW k \in 1 .. n - 1, Open(v, k)
       PROVE  m /\ r \in Positive /\ \A i \in 1 .. n - 1 : v[i].spec <=> i > k
  <2>1. m /\ r \in Positive /\ \A i \in 1 .. n : w[i].spec <=> i > k + 1
    BY <1>4, <1>5, <1>12, <1>13
  <2>2. ASSUME NEW i \in 1 .. n - 1 PROVE v[i].spec <=> i > k
    <3>1. w[i + 1].spec <=> i + 1 > k + 1
      BY <1>5, <2>1
    <3>2. i + 1 > k + 1 <=> i > k
      OBVIOUS
    <3> QED BY <1>2, <3>1, <3>2
  <2> QED BY <2>1, <2>2
<1>14. m => \E k \in 1 .. n - 1 : Open(v, k)
  <2> SUFFICES ASSUME m PROVE \E k \in 1 .. n - 1 : Open(v, k)
    OBVIOUS
  <2>1. PICK k \in 1 .. n : Open(w, k)
    BY <1>4
  <2>2. k # 1
    BY <1>7, <2>1
  <2>3. k - 1 \in 1 .. n - 1 /\ (k - 1) + 1 = k
    BY <1>6, <2>2
  <2>4. Open(v, k - 1)
    BY <1>12, <2>1, <2>3
  <2> QED BY <2>3, <2>4
<1>15. ~m => \A i \in 1 .. n - 1 : ~v[i].spec
  BY <1>2, <1>4, <1>5
<1>16. PathOK(v, m, r)
  BY <1>2, <1>4, <1>13, <1>14, <1>15, Zenon DEF PathOK
<1> QED BY <1>3, <1>10, <1>11, <1>16

LEMMA CommitStep ==
  ASSUME conf \in Predictors, NEW p, NEW h, NEW f, NEW w, NEW m, NEW a, NEW b, NEW r,
         Now(p, h, f, w, m, a, b, r), StateOK(p, h, f, w, m, a, b, r), BpCommit,
         NEW q, NEW h2, NEW g, NEW v, NEW m2, NEW a2, NEW b2, NEW r2, Now(q, h2, g, v, m2, a2, b2, r2)'
  PROVE  StateOK(q, h2, g, v, m2, a2, b2, r2)
<1> DEFINE e == Head(w)
           t == Tail(w)
           train == conf.update = "CT" /\ e.op \in Control
<1>1. pred = p /\ past = h /\ fq = f /\ window = w /\ specMode = m /\ fetchPC = a /\ regsPC = b /\ recoverPC = r
  BY Zenon DEF Now
<1>2. /\ pred' = q /\ past' = h2 /\ fq' = g /\ window' = v /\ specMode' = m2 /\ fetchPC' = a2 /\ regsPC' = b2
      /\ recoverPC' = r2
  BY Zenon DEF Now
<1>3. /\ w # <<>> /\ e.done /\ v = t /\ h2 = h /\ g = f /\ m2 = m /\ a2 = a /\ b2 = b /\ r2 = r
      /\ q = IF conf.update = "CT" /\ e.op \in Control THEN UpdateFor(p, e, b) ELSE p
  BY <1>1, <1>2, Zenon DEF BpCommit
<1>4. IsSeq(h) /\ PredInv(p, h) /\ FetchedOK(f) /\ WindowOK(w) /\ PathOK(w, m, r)
      /\ CountsOK(p, h, f, w) /\ a \in Positive /\ b \in Positive
  BY Zenon DEF StateOK
<1>5. PredOK(p) /\ StatsOK(p.st) /\ IsSeq(f) /\ IsSeq(w)
  BY <1>4, Zenon DEF PredInv, FetchedOK, WindowOK
<1>6. (train => q = UpdateFor(p, e, b)) /\ (~train => q = p)
  BY <1>3, Zenon
<1>7. /\ WindowOK(t) /\ PathOK(t, m, r) /\ Dispatched(e)
      /\ Waiting(t) \in Nat /\ Waiting(w) = Waiting(t) + One(e.op \in Control)
  BY <1>3, <1>4, CommitsIs
<1>8. PredInv(q, h) /\ (train => TrainedOnce(p, q, e.op))
  <2>1. CASE train
    <3>1. Updated(p, e, b, q)
      BY <1>6, <2>1, Zenon DEF Updated
    <3>2. ~(conf.update \in {"ID", "each"})
      BY <2>1
    <3> HIDE DEF e, train
    <3> QED BY <1>4, <1>7, <3>1, <3>2, LateTraining
  <2>2. CASE ~train
    BY <1>4, <1>6, <2>2, Zenon
  <2> QED BY <2>1, <2>2
<1>9. CountsOK(q, h, f, t)
  <2> DEFINE c == ToTrain(f, w, Control)
             c2 == ToTrain(f, t, Control)
             d == ToTrain(f, w, Returns)
             d2 == ToTrain(f, t, Returns)
             T == Trained(p.st)
             T2 == Trained(q.st)
             l == p.st.lookups
             l2 == q.st.lookups
             z == p.st.used_ras
             z2 == q.st.used_ras
             s == p.st.pops
             s2 == q.st.pops
             o == One(train)
             x == One(train /\ Return(e.op))
             y == Waiting(w)
             y2 == Waiting(t)
  <2>1. c2 \in Nat /\ c \in Nat /\ c2 + One(e.op \in Control /\ conf.update = "CT") = c
    BY <1>3, <1>5, ToTrainCommit
  <2>2. d2 \in Nat /\ d \in Nat /\ d2 + One(e.op \in Returns /\ conf.update = "CT") = d
    BY <1>3, <1>5, ToTrainCommit
  <2>3. T \in Nat /\ l \in Nat /\ z \in Nat /\ s \in Nat
    BY <1>5, StatsAre
  <2>4. /\ T + c <= l /\ z + d <= s
        /\ conf.update # "each"
        /\ conf.update = "ID" => T = Len(h)
        /\ conf.update = "CT" => T + y = Len(h)
    <3>1. conf.update # "each"
      BY <1>3, <1>4 DEF CountsOK
    <3> QED BY <1>4, <3>1 DEF CountsOK
  <2>5. l2 = l /\ s2 = s /\ T2 = T + o /\ z2 = z + x
    <3>1. CASE train
      <4>1. l2 = l /\ s2 = s /\ T2 = T + 1 /\ z2 = z + IF Return(e.op) THEN 1 ELSE 0
        BY <1>8, <3>1, Zenon DEF TrainedOnce
      <4>2. o = 1 /\ x = IF Return(e.op) THEN 1 ELSE 0
        BY <3>1, Zenon DEF One
      <4> QED BY <4>1, <4>2, Zenon
    <3>2. CASE ~train
      <4>1. q = p
        BY <1>6, <3>2, Zenon
      <4>2. o = 0 /\ x = 0
        BY <3>2, Zenon DEF One
      <4>3. l2 = l /\ s2 = s /\ T2 = T /\ z2 = z
        BY <4>1, Zenon
      <4> HIDE DEF o, x, T, T2, z, z2, l, l2, s, s2
      <4> QED BY <2>3, <4>2, <4>3
    <3> QED BY <3>1, <3>2
  <2>6. One(e.op \in Control /\ conf.update = "CT") = o
    BY DEF One
  <2>7. One(e.op \in Returns /\ conf.update = "CT") = x
    BY DEF One, Returns
  <2>8. o \in {0, 1} /\ x \in {0, 1} /\ (conf.update # "CT" => o = 0)
    BY DEF One
  <2>9. conf.update = "CT" => y = y2 + o /\ y2 \in Nat
    <3>1. conf.update = "CT" => One(e.op \in Control) = o
      BY DEF One
    <3> QED BY <1>7, <3>1
  <2> HIDE DEF c, c2, d, d2, T, T2, l, l2, z, z2, s, s2, o, x, y, y2
  <2>10. T2 + c2 <= l2 /\ z2 + d2 <= s2 /\ (conf.update # "CT" => T2 = T)
    BY <2>1, <2>2, <2>3, <2>4, <2>5, <2>6, <2>7, <2>8
  <2>11. (conf.update \in {"ID", "each"} => T2 = Len(h)) /\ (conf.update = "CT" => T2 + y2 = Len(h))
    BY <2>3, <2>4, <2>5, <2>8, <2>9, <2>10
  <2> QED BY <2>4, <2>10, <2>11, Zenon DEF CountsOK, T2, c2, l2, z2, d2, s2, y2
<1> QED BY <1>3, <1>4, <1>7, <1>8, <1>9, Zenon DEF StateOK

LEMMA NothingToTrain ==
  /\ \A R : ToTrain(<<>>, <<>>, R) = 0
  /\ Waiting(<<>>) = 0
<1>1. \A R : ToTrain(<<>>, <<>>, R) = 0
  <2> TAKE R
  <2>1. FqPlaces(<<>>, R) = {} /\ WindowPlaces(<<>>, R) = {} /\ Cardinality({}) = 0
    BY NoPlaces
  <2> QED BY <2>1 DEF ToTrain
<1>2. Waiting(<<>>) = 0
  <2>1. DOMAIN <<>> = {}
    BY NilIs
  <2>2. WaitingPlaces(<<>>) = {}
    BY <2>1 DEF WaitingPlaces
  <2> QED BY <2>2, NoPlaces DEF Waiting
<1> QED BY <1>1, <1>2

LEMMA EachStep ==
  ASSUME conf \in Predictors, NEW p, NEW h, NEW f, NEW w, NEW m, NEW a, NEW b, NEW r,
         Now(p, h, f, w, m, a, b, r), StateOK(p, h, f, w, m, a, b, r), BpEach,
         NEW q, NEW h2, NEW g, NEW v, NEW m2, NEW a2, NEW b2, NEW r2, Now(q, h2, g, v, m2, a2, b2, r2)'
  PROVE  StateOK(q, h2, g, v, m2, a2, b2, r2)
<1> DEFINE op == InstAt(b).op
           To(next) == IF op \in Conditional THEN InstAt(b).target ELSE next
           L(next) == Lookup(p, op, b, To(next))
           E(next) == [pc |-> b, op |-> op, next |-> next, update |-> L(next).update,
                       pred |-> IF L(next).answer = 0 THEN b + InstBytes ELSE L(next).answer]
           J(next) == [pc |-> b, next |-> next]
<1>1. pred = p /\ past = h /\ fq = f /\ window = w /\ specMode = m /\ fetchPC = a /\ regsPC = b /\ recoverPC = r
  BY Zenon DEF Now
<1>2. /\ pred' = q /\ past' = h2 /\ fq' = g /\ window' = v /\ specMode' = m2 /\ fetchPC' = a2 /\ regsPC' = b2
      /\ recoverPC' = r2
  BY Zenon DEF Now
<1>3. PICK next \in Nexts(b) :
        /\ b2 = next
        /\ op \in Control => q = UpdateFor(L(next).p, E(next), b) /\ h2 = Append(h, J(next))
        /\ op \notin Control => q = p /\ h2 = h
  BY <1>1, <1>2, ZenonT(60) DEF BpEach
<1>4. conf.update = "each" /\ g = f /\ v = w /\ m2 = m /\ a2 = a /\ r2 = r
  BY <1>1, <1>2, ZenonT(60) DEF BpEach
<1> DEFINE l == L(next)
           e == E(next)
           j == J(next)
           to == To(next)
<1>5. IsSeq(h) /\ PredInv(p, h) /\ FetchedOK(f) /\ WindowOK(w) /\ PathOK(w, m, r)
      /\ CountsOK(p, h, f, w) /\ a \in Positive /\ b \in Positive
  BY Zenon DEF StateOK
<1>6. PredOK(p) /\ StatsOK(p.st)
  BY <1>5, Zenon DEF PredInv
<1>7. next \in Positive /\ to \in Nat /\ b \in Nat \ {0}
  <2>1. Nexts(b) \subseteq Positive /\ (op \in Conditional => InstAt(b).target \in Positive)
    BY <1>5, InstIs
  <2> QED BY <1>3, <1>5, <2>1 DEF Positive
<1>8. /\ e.pc = b /\ e.op = op /\ e.next = next /\ e.update = l.update
      /\ e.pred = (IF l.answer = 0 THEN b + InstBytes ELSE l.answer) /\ j.pc = b /\ j.next = next
  BY Zenon
<1>9. LookedUp(p, op, b, to, l)
  BY Zenon DEF LookedUp
<1>10. op \in Control => q = UpdateFor(l.p, e, b) /\ h2 = Append(h, j)
  BY <1>3, Zenon
<1>11. /\ Trained(p.st) = p.st.lookups /\ f = <<>> /\ w = <<>> /\ Trained(p.st) = Len(h)
       /\ p.st.used_ras + ToTrain(f, w, Returns) <= p.st.pops
  BY <1>4, <1>5 DEF CountsOK
<1> HIDE DEF l, e, j, to
<1>12. CASE op \notin Control
  BY <1>3, <1>4, <1>5, <1>7, <1>12, Zenon DEF StateOK
<1>13. CASE op \in Control
  <2>1. /\ PredOK(l.p) /\ l.p.btb = p.btb /\ l.p.shiftregs = p.shiftregs
        /\ StatsOK(p.st) => StatsOK(l.p.st)
        /\ l.p.st.lookups = p.st.lookups + 1 /\ Trained(l.p.st) = Trained(p.st)
        /\ l.p.st.used_ras = p.st.used_ras
        /\ l.p.st.pops = p.st.pops + IF Return(op) THEN 1 ELSE 0
        /\ l.answer \in Nat
        /\ ~Static(conf) /\ ~Return(op) /\ l.answer # 0 => l.answer = BtbTarget(p, b)
        /\ l.update.ras <=> Return(op)
    <3> HIDE DEF op
    <3>1. LookupDone(p, op, b, l)
      BY <1>6, <1>7, <1>9, LookupIs
    <3> QED BY <3>1, Zenon DEF LookupDone
  <2>2. PredInv(l.p, h)
    BY <1>5, <1>6, <2>1, SameTables, Zenon
  <2>3. Grows(h, j, h2)
    BY <1>5, <1>10, <1>13, Zenon DEF Grows
  <2>4. e.next \in Nat
    BY <1>7, <1>8 DEF Positive
  <2>5. RasRight(e)
    BY <1>8, <2>1, Zenon DEF RasRight
  <2>6. BtbTarget(l.p, b) = BtbTarget(p, b)
    <3>1. BtbHits(l.p, b) = BtbHits(p, b)
      BY <2>1, Zenon DEF BtbHits
    <3> QED BY <2>1, <3>1 DEF BtbTarget
  <2>7. Told(l.p, e, b, h, j, h2)
    <3>1. ASSUME e.pred = e.next, Taken(e), ~Static(conf), ~Return(e.op) PROVE e.pred = BtbTarget(l.p, b)
      <4>1. l.answer # 0
        BY <1>8, <3>1 DEF Taken
      <4>2. e.pred = l.answer
        BY <1>8, <4>1, Zenon
      <4>3. l.answer = BtbTarget(p, b)
        BY <1>8, <2>1, <3>1, <4>1, Zenon
      <4> QED BY <2>6, <4>2, <4>3, Zenon
    <3> QED BY <1>8, <2>3, <3>1, Zenon DEF Told, op
  <2>8. Updated(l.p, e, b, q)
    BY <1>10, <1>13, Zenon DEF Updated
  <2>9. PredInv(q, h2) /\ TrainedOnce(l.p, q, e.op)
    BY <1>7, <2>2, <2>4, <2>5, <2>7, <2>8, TrainingIs
  <2>10. IsSeq(h2) /\ Len(h2) = Len(h) + 1 /\ Len(h) \in Nat
    BY <2>3, AppendIs DEF Grown
  <2>11. CountsOK(q, h2, f, w)
    <3> DEFINE T == Trained(p.st)
               T2 == Trained(q.st)
               k == p.st.lookups
               k2 == q.st.lookups
               z == p.st.used_ras
               z2 == q.st.used_ras
               s == p.st.pops
               s2 == q.st.pops
               x == IF Return(op) THEN 1 ELSE 0
    <3>1. ToTrain(f, w, Control) = 0 /\ ToTrain(f, w, Returns) = 0
      <4>1. \A R : ToTrain(f, w, R) = 0
        BY <1>11, NothingToTrain
      <4> QED BY <4>1, Zenon
    <3>2. T \in Nat /\ k \in Nat /\ z \in Nat /\ s \in Nat
      BY <1>6, StatsAre
    <3>3. k2 = k + 1 /\ s2 = s + x /\ T2 = T + 1 /\ z2 = z + x
      BY <1>8, <2>1, <2>9, Zenon DEF TrainedOnce
    <3>4. T = k /\ T = Len(h) /\ z + 0 <= s
      BY <1>11, <3>1
    <3>5. x \in {0, 1}
      OBVIOUS
    <3> HIDE DEF T, T2, k, k2, z, z2, s, s2, x
    <3>6. T2 + 0 <= k2 /\ z2 + 0 <= s2 /\ T2 = k2 /\ T2 = Len(h2)
      BY <2>10, <3>2, <3>3, <3>4, <3>5
    <3>7. conf.update # "CT"
      BY <1>4
    <3> QED BY <1>11, <3>1, <3>6, <3>7, Zenon DEF CountsOK, T2, k2, z2, s2
  <2> QED BY <1>3, <1>4, <1>5, <1>7, <2>9, <2>10, <2>11, Zenon DEF StateOK
<1> QED BY <1>12, <1>13

-----------------------------------------------------------------------------
(* The invariant.                                                          *)

LEMMA CreateIs ==
  ASSUME conf \in Predictors, NEW p, p = Create(conf)
  PROVE  PredInv(p, <<>>) /\ Trained(p.st) = 0 /\ p.st.lookups = 0 /\ p.st.used_ras = 0 /\ p.st.pops = 0
<1> DEFINE ctr == [bimod |-> FlipFlop(conf.bimod), twolev |-> FlipFlop(conf.l2), meta |-> FlipFlop(conf.meta)]
           regs == [k \in 0 .. conf.l1 - 1 |-> 0]
           btb == [s \in 0 .. conf.sets - 1 |-> [k \in 1 .. conf.assoc |-> NoEntry]]
           stack == [k \in 0 .. conf.ras - 1 |-> 0]
           tos == IF Static(conf) THEN 0 ELSE conf.ras - 1
<1>1. p = [ctr |-> ctr, shiftregs |-> regs, btb |-> btb, stack |-> stack, tos |-> tos, st |-> NoStats]
  BY Zenon DEF Create
<1>2. regs \in [0 .. conf.l1 - 1 -> Nat] /\ stack \in [0 .. conf.ras - 1 -> Nat]
      /\ \A l \in 0 .. conf.l1 - 1 : regs[l] = 0
  OBVIOUS
<1>3. /\ btb \in [0 .. conf.sets - 1 -> [1 .. conf.assoc -> BtbEntry]]
      /\ \A s \in 0 .. conf.sets - 1 : \A k \in 1 .. conf.assoc : btb[s][k] = NoEntry
  <2>1. NoEntry \in BtbEntry
    BY DEF NoEntry, BtbEntry
  <2> QED BY <2>1
<1>4. conf.ras > 0 => tos \in 0 .. conf.ras - 1
  BY ConfIs
<1>5. /\ NoStats \in PredictorStats /\ StatsOK(NoStats) /\ Trained(NoStats) = 0 /\ NoStats.lookups = 0
      /\ NoStats.used_ras = 0 /\ NoStats.pops = 0
  BY DEF NoStats, PredictorStats, StatsOK, Trained
<1> HIDE DEF ctr, regs, btb, stack, tos
<1>6. p.ctr = ctr /\ p.shiftregs = regs /\ p.btb = btb /\ p.stack = stack /\ p.tos = tos /\ p.st = NoStats
  BY <1>1
<1>7. PredOK(p)
  BY <1>1, <1>2, <1>3, <1>4, <1>5, <1>6, Zenon DEF PredOK, PredRecord
<1>8. BtbOK(p, <<>>)
  BY <1>3, <1>6, Zenon DEF BtbOK, SetOK
<1>9. HistoryOK(p, <<>>)
  <2> SUFFICES ASSUME NEW l \in 0 .. conf.l1 - 1, NEW n \in 0 .. conf.width - 1
               PROVE  (p.shiftregs[l] \div Pow2[n]) % 2 = OutcomeIn(<<>>, l, n)
    BY Zenon DEF HistoryOK
  <2>1. Pow2[n] \in Nat \ {0}
    BY ConfIs, Pow2Divides
  <2>2. p.shiftregs[l] = 0
    BY <1>2, <1>6
  <2>3. 0 \div Pow2[n] = 0
    BY <2>1, DivUnique, SMTT(30)
  <2>4. OutcomeIn(<<>>, l, n) = 0
    BY NilIs DEF OutcomeIn, HistIn
  <2> QED BY <2>2, <2>3, <2>4
<1> QED BY <1>5, <1>6, <1>7, <1>8, <1>9, Zenon DEF PredInv

LEMMA InvInit == BpInit => BpInv
<1> SUFFICES ASSUME BpInit PROVE BpInv
  OBVIOUS
<1>1. conf \in Predictors
  BY DEF BpInit
<1>2. PICK p : p = pred
  OBVIOUS
<1>3. p = Create(conf)
  BY <1>2 DEF BpInit
<1>4. PredInv(p, <<>>) /\ Trained(p.st) = 0 /\ p.st.lookups = 0 /\ p.st.used_ras = 0 /\ p.st.pops = 0
  BY <1>1, <1>3, CreateIs
<1>5. IsSeq(<<>>) /\ Len(<<>>) = 0 /\ DOMAIN <<>> = {}
  BY NilIs
<1>6. FetchedOK(<<>>) /\ WindowOK(<<>>) /\ PathOK(<<>>, FALSE, 0)
  BY <1>5, Zenon DEF FetchedOK, WindowOK, PathOK
<1>7. CountsOK(p, <<>>, <<>>, <<>>)
  <2>1. ToTrain(<<>>, <<>>, Control) = 0 /\ ToTrain(<<>>, <<>>, Returns) = 0 /\ Waiting(<<>>) = 0
    <3>1. \A R : ToTrain(<<>>, <<>>, R) = 0
      BY NothingToTrain
    <3> QED BY <3>1, NothingToTrain
  <2>2. 0 + 0 <= 0 /\ 0 + 0 = 0
    OBVIOUS
  <2> QED BY <1>4, <1>5, <2>1, <2>2, Zenon DEF CountsOK
<1>8. EntryPC \in Positive
  BY BpredAssumption DEF Positive
<1>9. StateOK(p, <<>>, <<>>, <<>>, FALSE, EntryPC, EntryPC, 0)
  BY <1>4, <1>5, <1>6, <1>7, <1>8, Zenon DEF StateOK
<1>10. Now(p, <<>>, <<>>, <<>>, FALSE, EntryPC, EntryPC, 0)
  BY <1>2 DEF BpInit, Now
<1> QED BY <1>1, <1>9, <1>10, Zenon DEF BpInv

LEMMA InvStep == BpInv /\ [BpNext]_bpredVars => BpInv'
<1> SUFFICES ASSUME BpInv, [BpNext]_bpredVars PROVE BpInv'
  OBVIOUS
<1>1. conf \in Predictors
  BY DEF BpInv
<1>2. PICK p, h, f, w, m, a, b, r : Now(p, h, f, w, m, a, b, r) /\ StateOK(p, h, f, w, m, a, b, r)
  BY DEF BpInv
<1>3. PICK q, h2, g, v, m2, a2, b2, r2 : Now(q, h2, g, v, m2, a2, b2, r2)'
  BY DEF Now
<1>4. conf' = conf
  <2>1. CASE BpFetch
    BY <2>1 DEF BpFetch
  <2>2. CASE BpDispatch
    BY <2>2 DEF BpDispatch
  <2>3. CASE BpWriteback
    BY <2>3 DEF BpWriteback
  <2>4. CASE BpCommit
    BY <2>4 DEF BpCommit
  <2>5. CASE BpEach
    BY <2>5 DEF BpEach
  <2>6. CASE UNCHANGED bpredVars
    BY <2>6 DEF bpredVars
  <2> QED BY <2>1, <2>2, <2>3, <2>4, <2>5, <2>6, Zenon DEF BpNext
<1>5. StateOK(q, h2, g, v, m2, a2, b2, r2)
  <2>1. CASE BpFetch
    BY <1>1, <1>2, <1>3, <2>1, FetchStep, Zenon
  <2>2. CASE BpDispatch
    BY <1>1, <1>2, <1>3, <2>2, DispatchStep, Zenon
  <2>3. CASE BpWriteback
    BY <1>1, <1>2, <1>3, <2>3, WritebackStep, Zenon
  <2>4. CASE BpCommit
    BY <1>1, <1>2, <1>3, <2>4, CommitStep, Zenon
  <2>5. CASE BpEach
    BY <1>1, <1>2, <1>3, <2>5, EachStep, Zenon
  <2>6. CASE UNCHANGED bpredVars
    <3>1. /\ pred' = pred /\ past' = past /\ fq' = fq /\ window' = window /\ specMode' = specMode
          /\ fetchPC' = fetchPC /\ regsPC' = regsPC /\ recoverPC' = recoverPC
      BY <2>6 DEF bpredVars
    <3>2. q = p /\ h2 = h /\ g = f /\ v = w /\ m2 = m /\ a2 = a /\ b2 = b /\ r2 = r
      BY <1>2, <1>3, <3>1, Zenon DEF Now
    <3> QED BY <1>2, <3>2, Zenon
  <2> QED BY <2>1, <2>2, <2>3, <2>4, <2>5, <2>6, Zenon DEF BpNext
<1>6. StateOK(q, h2, g, v, m2, a2, b2, r2)'
  BY <1>4, <1>5, SameState
<1>7. (conf \in Predictors)'
  BY <1>1, <1>4
<1> QED BY <1>3, <1>6, <1>7, Zenon DEF BpInv

\* The inductive invariant: whenever ruu_fetch, ruu_dispatch, ruu_writeback and
\* ruu_commit have called bpred_lookup(), bpred_update() and bpred_recover(), the
\* BTB, the history registers and the statistics are what the right path so far
\* has left, and branches in the fetch queue and the window are still to be counted.
THEOREM PredictorInvariant == BpSpec => []BpInv
<1>1. BpInit => BpInv
  BY InvInit
<1>2. BpInv /\ [BpNext]_bpredVars => BpInv'
  BY InvStep
<1> QED BY <1>1, <1>2, PTL DEF BpSpec

LEMMA BtbIsSound ==
  ASSUME conf \in Predictors, BtbOK(pred, past), PredOK(pred)
  PROVE  BtbHoldsTakenBranches
<1> SUFFICES ASSUME NEW x \in Entries
             PROVE  /\ x[1] = BtbSet(EntryAt(x).addr)
                    /\ \A y \in Entries : x # y => EntryAt(x).addr # EntryAt(y).addr
                    /\ conf.update \in {"ID", "each"} =>
                         /\ \E k \in DOMAIN past : TakenAt(k) /\ past[k].pc = EntryAt(x).addr
                                                              /\ past[k].next = EntryAt(x).target
                         /\ ~UsesRas(InstAt(EntryAt(x).addr).op)
                    /\ conf.update = "each" => EntryAt(x).target = LastTaken(EntryAt(x).addr)
  BY Zenon DEF BtbHoldsTakenBranches
<1>1. ASSUME NEW y \in Entries
      PROVE  /\ y = <<y[1], y[2]>> /\ y[1] \in 0 .. conf.sets - 1 /\ y[2] \in 1 .. conf.assoc
             /\ EntryAt(y) # NoEntry /\ GoodEntry(EntryAt(y), y[1], past) /\ SetOK(pred.btb[y[1]], y[1], past)
             /\ EntryAt(y) = pred.btb[y[1]][y[2]]
  <2>1. y = <<y[1], y[2]>> /\ y[1] \in 0 .. conf.sets - 1 /\ y[2] \in 1 .. conf.assoc
        /\ pred.btb[y[1]][y[2]] # NoEntry
    BY DEF Entries
  <2>2. SetOK(pred.btb[y[1]], y[1], past)
    BY <2>1 DEF BtbOK
  <2>3. GoodEntry(pred.btb[y[1]][y[2]], y[1], past)
    BY <2>1, <2>2 DEF SetOK
  <2> QED BY <2>1, <2>2, <2>3, Zenon DEF EntryAt
<1>2. x[1] = BtbSet(EntryAt(x).addr)
  BY <1>1, Zenon DEF GoodEntry
<1>3. ASSUME NEW y \in Entries, x # y PROVE EntryAt(x).addr # EntryAt(y).addr
  <2>1. CASE x[1] = y[1]
    <3>1. x = <<x[1], x[2]>> /\ y = <<y[1], y[2]>>
      BY <1>1
    <3>2. x[2] # y[2]
      <4> SUFFICES ASSUME x[2] = y[2] PROVE FALSE
        OBVIOUS
      <4>1. x = y
        BY <2>1, <3>1, Zenon
      <4> QED BY <1>3, <4>1
    <3>3. /\ x[2] \in 1 .. conf.assoc /\ y[2] \in 1 .. conf.assoc /\ pred.btb[x[1]][x[2]] # NoEntry
          /\ SetOK(pred.btb[x[1]], x[1], past)
      BY <1>1
    <3>4. pred.btb[x[1]][y[2]].addr # pred.btb[x[1]][x[2]].addr
      BY <3>2, <3>3, Zenon DEF SetOK
    <3> QED BY <2>1, <3>4, Zenon DEF EntryAt
  <2>2. CASE x[1] # y[1]
    <3>1. BtbSet(EntryAt(x).addr) = x[1] /\ BtbSet(EntryAt(y).addr) = y[1]
      BY <1>1, Zenon DEF GoodEntry
    <3> QED BY <2>2, <3>1
  <2> QED BY <2>1, <2>2
<1>4. ASSUME conf.update \in {"ID", "each"}
      PROVE  /\ \E k \in DOMAIN past : TakenAt(k) /\ past[k].pc = EntryAt(x).addr
                                                    /\ past[k].next = EntryAt(x).target
             /\ ~UsesRas(InstAt(EntryAt(x).addr).op)
  <2>1. GoodEntry(EntryAt(x), x[1], past)
    BY <1>1
  <2> QED BY <1>4, <2>1, Zenon DEF GoodEntry, TakenIn, TakenAt
<1>5. ASSUME conf.update = "each" PROVE EntryAt(x).target = LastTaken(EntryAt(x).addr)
  <2>1. EntryAt(x).target = LastOf(past, EntryAt(x).addr)
    BY <1>1, <1>5, Zenon DEF GoodEntry
  <2> DEFINE pc == EntryAt(x).addr
             ks == {k \in DOMAIN past : past[k].pc = pc /\ TakenAt(k)}
  <2>2. ks = JumpsIn(past, pc)
    BY Zenon DEF JumpsIn, TakenIn, TakenAt
  <2>3. LastTaken(pc) = past[CHOOSE k \in ks : \A l \in ks : l <= k].next
    BY Zenon DEF LastTaken
  <2> HIDE DEF ks
  <2>4. LastTaken(pc) = LastOf(past, pc)
    BY <2>2, <2>3, Zenon DEF LastOf
  <2> QED BY <2>1, <2>4
<1> QED BY <1>2, <1>3, <1>4, <1>5

LEMMA HistoryIsSound ==
  ASSUME conf \in Predictors, HistoryOK(pred, past)
  PROVE  HistoryIsOfTheRightPath
<1>1. \A l : HistoryOf(l) = HistIn(past, l)
  BY Zenon DEF HistoryOf, HistIn
<1>2. \A l, k : {i \in HistoryOf(l) : i > k} = LaterIn(past, l, k)
  BY <1>1, Zenon DEF LaterIn
<1>3. \A k : TakenAt(k) <=> TakenIn(past, k)
  BY Zenon DEF TakenAt, TakenIn
<1>4. ASSUME NEW l, NEW n PROVE Outcome(l, n) = OutcomeIn(past, l, n)
  <2>1. (\E k \in HistoryOf(l) : Cardinality({j \in HistoryOf(l) : j > k}) = n /\ TakenAt(k))
        <=> (\E k \in HistIn(past, l) : Cardinality(LaterIn(past, l, k)) = n /\ TakenIn(past, k))
    BY <1>1, <1>2, <1>3, Zenon
  <2> QED BY <2>1, Zenon DEF Outcome, OutcomeIn
<1> QED BY <1>4 DEF HistoryOK, HistoryIsOfTheRightPath

LEMMA StatisticsAreSound ==
  ASSUME conf \in Predictors, PredOK(pred), StatsOK(pred.st), CountsOK(pred, past, fq, window),
         IsSeq(window), IsSeq(fq)
  PROVE  PredictorStatsAddUp
<1>1. Untrained = ToTrain(fq, window, Control)
  <2> DEFINE K == {k \in DOMAIN fq : fq[k].op \in Control}
             X == IF conf.update = "CT" THEN {k \in DOMAIN window : window[k].op \in Control}
                  ELSE IF conf.update = "WB" THEN {k \in DOMAIN window : window[k].op \in Control /\ ~window[k].done}
                  ELSE {}
  <2>1. K = FqPlaces(fq, Control)
    BY Zenon DEF FqPlaces
  <2>2. Untrained = Cardinality(K) + Cardinality(X)
    <3>1. CASE conf.update = "CT"
      BY <3>1 DEF Untrained
    <3>2. CASE conf.update = "WB"
      BY <3>2 DEF Untrained
    <3>3. CASE conf.update # "CT" /\ conf.update # "WB"
      <4>1. Cardinality({}) = 0
        BY NoPlaces
      <4> QED BY <3>3, <4>1 DEF Untrained
    <3> QED BY <3>1, <3>2, <3>3
  <2>3. X = WindowPlaces(window, Control)
    <3>1. CASE conf.update = "CT"
      BY <3>1 DEF WindowPlaces
    <3>2. CASE conf.update = "WB"
      BY <3>2 DEF WindowPlaces
    <3>3. CASE conf.update # "CT" /\ conf.update # "WB"
      BY <3>3 DEF WindowPlaces
    <3> QED BY <3>1, <3>2, <3>3
  <2> HIDE DEF K, X
  <2> QED BY <2>1, <2>2, <2>3, Zenon DEF ToTrain
<1>2. Cardinality({k \in DOMAIN window : ~window[k].spec /\ window[k].op \in Control}) = Waiting(window)
  BY Zenon DEF Waiting, WaitingPlaces
<1>3. pred.st.used_ras <= pred.st.pops
  <2>1. pred.st.used_ras \in Nat /\ pred.st.pops \in Nat
    BY StatsAre
  <2>2. pred.st.used_ras + ToTrain(fq, window, Returns) <= pred.st.pops
    BY DEF CountsOK
  <2>3. ToTrain(fq, window, Returns) \in Nat
    <3>1. Cardinality(FqPlaces(fq, Returns)) \in Nat /\ Cardinality(WindowPlaces(window, Returns)) \in Nat
      BY FqPlacesIs, WindowPlacesIs
    <3> QED BY <3>1 DEF ToTrain
  <2> DEFINE x == pred.st.used_ras
             y == pred.st.pops
             z == ToTrain(fq, window, Returns)
  <2> HIDE DEF x, y, z
  <2>4. x \in Nat /\ y \in Nat /\ z \in Nat /\ x + z <= y
    BY <2>1, <2>2, <2>3 DEF x, y, z
  <2>5. x <= y
    BY <2>4
  <2> QED BY <2>5 DEF x, y
<1>4. /\ Trained(pred.st) + ToTrain(fq, window, Control) <= pred.st.lookups
      /\ conf.update = "each" => Trained(pred.st) = pred.st.lookups
      /\ conf.update \in {"ID", "each"} => Trained(pred.st) = Len(past)
      /\ conf.update = "CT" => Trained(pred.st) + Waiting(window) = Len(past)
  BY DEF CountsOK
<1>5. /\ pred.st.addr_hits <= pred.st.dir_hits
      /\ pred.st.jr_seen = pred.st.jr_non_ras_seen + pred.st.used_ras
      /\ pred.st.jr_hits >= pred.st.jr_non_ras_hits
  BY DEF StatsOK
<1> QED BY <1>1, <1>2, <1>3, <1>4, <1>5, Zenon DEF PredictorStatsAddUp, Trained

\* bpred_update() never files a branch twice or in another's set and, called at
\* decode or at once, learns only what the right path did; the history registers
\* hold its last outcomes, and every branch is counted once as a hit or a miss.
THEOREM PredictorSafety == BpSpec => []PredictorIsSound
<1>1. BpInv => PredictorIsSound
  <2> SUFFICES ASSUME BpInv PROVE PredictorIsSound
    OBVIOUS
  <2>1. conf \in Predictors
    BY DEF BpInv
  <2>2. PICK p, h, f, w, m, a, b, r : Now(p, h, f, w, m, a, b, r) /\ StateOK(p, h, f, w, m, a, b, r)
    BY DEF BpInv
  <2>3. pred = p /\ past = h /\ fq = f /\ window = w
    BY <2>2, Zenon DEF Now
  <2>4. PredInv(pred, past) /\ FetchedOK(fq) /\ WindowOK(window) /\ CountsOK(pred, past, fq, window)
    BY <2>2, <2>3, Zenon DEF StateOK
  <2>5. PredOK(pred) /\ StatsOK(pred.st) /\ BtbOK(pred, past) /\ HistoryOK(pred, past)
        /\ IsSeq(fq) /\ IsSeq(window)
    BY <2>4, Zenon DEF PredInv, FetchedOK, WindowOK
  <2>6. BtbHoldsTakenBranches
    BY <2>1, <2>5, BtbIsSound
  <2>7. HistoryIsOfTheRightPath
    BY <2>1, <2>5, HistoryIsSound
  <2>8. PredictorStatsAddUp
    BY <2>1, <2>4, <2>5, StatisticsAreSound
  <2> QED BY <2>6, <2>7, <2>8, Zenon DEF PredictorIsSound
<1>2. BpSpec => []BpInv
  BY PredictorInvariant
<1> QED BY <1>1, <1>2, PTL

-----------------------------------------------------------------------------
(* Simulated memory: addresses and pages.                                  *)

LEMMA SizesAre ==
  MD_PAGE_SIZE \in Nat \ {0} /\ MEM_PTAB_SIZE \in Nat \ {0}
BY MemoryAssumption

LEMMA AddrIs ==
  ASSUME NEW a \in Nat
  PROVE  /\ a \div MD_PAGE_SIZE \in Nat /\ MEM_OFFSET(a) \in 0 .. MD_PAGE_SIZE - 1
         /\ a = (a \div MD_PAGE_SIZE) * MD_PAGE_SIZE + MEM_OFFSET(a)
BY SizesAre, DivMod DEF MEM_OFFSET

LEMMA PageNumberIs ==
  ASSUME NEW n \in Nat
  PROVE  /\ n \div MEM_PTAB_SIZE \in Nat /\ n % MEM_PTAB_SIZE \in 0 .. MEM_PTAB_SIZE - 1
         /\ n = (n \div MEM_PTAB_SIZE) * MEM_PTAB_SIZE + (n % MEM_PTAB_SIZE)
BY SizesAre, DivMod

\* A bucket and a tag make a page.
LEMMA PageUnique ==
  ASSUME NEW n \in Nat, NEW m \in Nat, n % MEM_PTAB_SIZE = m % MEM_PTAB_SIZE,
         n \div MEM_PTAB_SIZE = m \div MEM_PTAB_SIZE
  PROVE  n = m
BY PageNumberIs, Zenon

\* The addresses of a page.
LEMMA InPage ==
  ASSUME NEW n \in Nat, NEW i \in 0 .. MD_PAGE_SIZE - 1
  PROVE  n * MD_PAGE_SIZE + i \in Nat /\ (n * MD_PAGE_SIZE + i) \div MD_PAGE_SIZE = n
<1>1. MD_PAGE_SIZE \in Nat \ {0}
  BY SizesAre
<1>2. n * MD_PAGE_SIZE \in Nat
  BY <1>1, SMTT(30)
<1>3. n * MD_PAGE_SIZE + i \in Nat
  BY <1>2
<1> QED BY <1>1, <1>3, DivUnique

-----------------------------------------------------------------------------
(* What a page table holds of a flat memory f, given that it has the pages *)
(* of T.                                                                   *)

In(f, a) == IF a \in DOMAIN f THEN f[a] ELSE 0
Touched(f) == {a \div MD_PAGE_SIZE : a \in DOMAIN f}
PageOf(f, n) == [i \in 0 .. MD_PAGE_SIZE - 1 |-> In(f, n * MD_PAGE_SIZE + i)]
PageEntry(f, n) == [tag |-> n \div MEM_PTAB_SIZE, page |-> PageOf(f, n)]
BucketOf(b, k, s, f, T) == \E n \in T : n % MEM_PTAB_SIZE = s /\ b[k] = PageEntry(f, n)
BucketOK(b, s, f, T) ==
  /\ IsSeq(b)
  /\ \A k \in 1 .. Len(b) : BucketOf(b, k, s, f, T)
  /\ \A j, k \in 1 .. Len(b) : b[j].tag = b[k].tag => j = k
  /\ \A n \in T : n % MEM_PTAB_SIZE = s => \E k \in 1 .. Len(b) : b[k] = PageEntry(f, n)
TableOK(t, f, T) ==
  /\ t = [s \in 0 .. MEM_PTAB_SIZE - 1 |-> t[s]]
  /\ \A s \in 0 .. MEM_PTAB_SIZE - 1 : BucketOK(t[s], s, f, T)
MemRecord(m) ==
  m = [ptab |-> m.ptab, page_count |-> m.page_count,
       ptab_misses |-> m.ptab_misses, ptab_accesses |-> m.ptab_accesses]
MemCounts(m, T) ==
  /\ m.page_count \in Nat /\ m.ptab_misses \in Nat /\ m.ptab_accesses \in Nat
  /\ m.page_count = Cardinality(T)
  /\ m.page_count <= m.ptab_misses /\ m.ptab_misses <= m.ptab_accesses
MemHas(m, f, T) ==
  /\ T \subseteq Nat /\ IsFiniteSet(T)
  /\ MemRecord(m) /\ TableOK(m.ptab, f, T) /\ MemCounts(m, T)

LEMMA EntryTag ==
  ASSUME NEW f, NEW n
  PROVE  PageEntry(f, n).tag = n \div MEM_PTAB_SIZE /\ PageEntry(f, n).page = PageOf(f, n)
BY DEF PageEntry

\* Moving a page to the front of its bucket.
LEMMA BucketMoves ==
  ASSUME NEW b, NEW s, NEW f, NEW T, BucketOK(b, s, f, T), NEW at \in 1 .. Len(b), NEW t,
         ToFront(b, Len(b), at, b[at], t)
  PROVE  BucketOK(t, s, f, T) /\ Len(t) = Len(b) /\ t[1] = b[at]
<1> DEFINE n == Len(b)
           S == {b[k] : k \in 1 .. n}
           p(k) == IF k = 1 THEN at ELSE IF k <= at THEN k - 1 ELSE k
<1>1. n \in Nat /\ IsSeq(b)
  BY SeqIs DEF BucketOK
<1>2. b \in [1 .. n -> S]
  <2>1. PICK R : b \in Seq(R)
    BY <1>1 DEF IsSeq
  <2>2. b \in [1 .. n -> R]
    BY <2>1, LenProperties
  <2> QED BY <2>2
<1>3. n \in Nat \ {0} /\ b[at] \in S
  BY <1>1
<1> HIDE DEF n
<1>4. t \in [1 .. n -> S] /\ InFrontOf(b, n, at, b[at], t)
  <2> HIDE DEF S
  <2>1. at \in 1 .. n /\ ToFront(b, n, at, b[at], t)
    BY DEF n
  <2> QED BY <1>2, <1>3, <2>1, ToFrontIs
<1>5. t \in Seq(S) /\ Len(t) = n
  <2> HIDE DEF S
  <2>1. t \in Seq(S)
    BY <1>1, <1>4, SeqDef
  <2>2. DOMAIN t = 1 .. n
    BY <1>4
  <2> QED BY <1>1, <2>1, <2>2, LenProperties
<1> HIDE DEF S
<1>6. \A k \in 1 .. n : p(k) \in 1 .. n /\ t[k] = b[p(k)]
  <2> TAKE k \in 1 .. n
  <2>0. at \in 1 .. n
    BY DEF n
  <2>1. CASE k = 1
    BY <1>4, <2>0, <2>1 DEF InFrontOf
  <2>2. CASE k # 1
    <3>1. k \in 2 .. n
      BY <1>1, <2>2
    <3>2. t[k] = b[IF k <= at THEN k - 1 ELSE k]
      BY <1>4, <3>1 DEF InFrontOf
    <3>3. p(k) = IF k <= at THEN k - 1 ELSE k
      BY <2>2
    <3>4. p(k) \in 1 .. n
      BY <1>1, <2>0, <3>1, <3>3
    <3> QED BY <3>2, <3>3, <3>4
  <2> QED BY <2>1, <2>2
<1>7. \A j, k \in 1 .. n : p(j) = p(k) => j = k
  <2>0. at \in 1 .. n
    BY DEF n
  <2> QED BY <1>1, <2>0
<1>8. \A k \in 1 .. n : \E j \in 1 .. n : p(j) = k
  <2> TAKE k \in 1 .. n
  <2>0. at \in 1 .. n
    BY DEF n
  <2> DEFINE j == IF k = at THEN 1 ELSE IF k < at THEN k + 1 ELSE k
  <2>1. j \in 1 .. n /\ p(j) = k
    BY <1>1, <2>0
  <2> QED BY <2>1
<1>9. IsSeq(t)
  BY <1>5 DEF IsSeq
<1> HIDE DEF p
<1>10. \A k \in 1 .. n : BucketOf(t, k, s, f, T)
  <2> TAKE k \in 1 .. n
  <2>1. p(k) \in 1 .. n /\ t[k] = b[p(k)]
    BY <1>6
  <2>2. BucketOf(b, p(k), s, f, T)
    BY <2>1 DEF BucketOK, n
  <2> QED BY <2>1, <2>2 DEF BucketOf
<1>11. \A j, k \in 1 .. n : t[j].tag = t[k].tag => j = k
  <2> TAKE j, k \in 1 .. n
  <2>1. p(j) \in 1 .. n /\ t[j] = b[p(j)] /\ p(k) \in 1 .. n /\ t[k] = b[p(k)]
    BY <1>6
  <2>2. b[p(j)].tag = b[p(k)].tag => p(j) = p(k)
    BY <2>1 DEF BucketOK, n
  <2> QED BY <1>7, <2>1, <2>2
<1>12. ASSUME NEW m \in T, m % MEM_PTAB_SIZE = s PROVE \E k \in 1 .. n : t[k] = PageEntry(f, m)
  <2>1. PICK k \in 1 .. n : b[k] = PageEntry(f, m)
    BY <1>12 DEF BucketOK, n
  <2>2. PICK j \in 1 .. n : p(j) = k
    BY <1>8
  <2>3. t[j] = PageEntry(f, m)
    BY <1>6, <2>1, <2>2
  <2> QED BY <2>3
<1>13. t[1] = b[at]
  BY <1>4 DEF InFrontOf
<1>14. BucketOK(t, s, f, T)
  BY <1>5, <1>9, <1>10, <1>11, <1>12, Zenon DEF BucketOK
<1> QED BY <1>5, <1>13, <1>14 DEF n

\* A page is in its bucket once, if it is there.
LEMMA PlacedIs ==
  ASSUME NEW m, NEW f, NEW T, MemHas(m, f, T), NEW a \in Nat
  PROVE  /\ MEM_PTAB_SET(a) \in 0 .. MEM_PTAB_SIZE - 1
         /\ BucketOK(PageChain(m, a), MEM_PTAB_SET(a), f, T)
         /\ DOMAIN PageChain(m, a) = 1 .. Len(PageChain(m, a))
         /\ a \div MD_PAGE_SIZE \notin T => Placed(m, a) = {}
         /\ a \div MD_PAGE_SIZE \in T =>
              \E k \in 1 .. Len(PageChain(m, a)) :
                Placed(m, a) = {k} /\ PageChain(m, a)[k] = PageEntry(f, a \div MD_PAGE_SIZE)
<1> DEFINE n == a \div MD_PAGE_SIZE
           s == MEM_PTAB_SET(a)
           b == PageChain(m, a)
<1>1. n \in Nat /\ s \in 0 .. MEM_PTAB_SIZE - 1 /\ s = n % MEM_PTAB_SIZE /\ MEM_PTAB_TAG(a) = n \div MEM_PTAB_SIZE
  <2>1. n \in Nat
    BY AddrIs
  <2> QED BY <2>1, PageNumberIs DEF MEM_PTAB_SET, MEM_PTAB_TAG
<1> HIDE DEF s, n
<1>2. BucketOK(b, s, f, T) /\ T \subseteq Nat
  BY <1>1 DEF MemHas, TableOK, PageChain, s
<1> HIDE DEF b
<1>3. DOMAIN b = 1 .. Len(b)
  BY <1>2, SeqIs DEF BucketOK
<1>4. Placed(m, a) = {k \in 1 .. Len(b) : b[k].tag = n \div MEM_PTAB_SIZE}
  BY <1>1, <1>3, Zenon DEF Placed, b
<1>5. ASSUME NEW k \in 1 .. Len(b), b[k].tag = n \div MEM_PTAB_SIZE
      PROVE  n \in T
  <2>1. PICK p \in T : p % MEM_PTAB_SIZE = s /\ b[k] = PageEntry(f, p)
    BY <1>2 DEF BucketOK, BucketOf
  <2>2. p \in Nat /\ p \div MEM_PTAB_SIZE = n \div MEM_PTAB_SIZE
    BY <1>2, <1>5, <2>1, EntryTag
  <2>3. p = n
    BY <1>1, <2>1, <2>2, PageUnique
  <2> QED BY <2>3
<1>6. n \notin T => Placed(m, a) = {}
  BY <1>4, <1>5
<1>7. ASSUME n \in T
      PROVE  \E k \in 1 .. Len(b) : Placed(m, a) = {k} /\ b[k] = PageEntry(f, n)
  <2>1. PICK k \in 1 .. Len(b) : b[k] = PageEntry(f, n)
    BY <1>1, <1>2, <1>7, Zenon DEF BucketOK
  <2>2. b[k].tag = n \div MEM_PTAB_SIZE
    BY <2>1, EntryTag
  <2>3. \A j \in 1 .. Len(b) : b[j].tag = n \div MEM_PTAB_SIZE <=> j = k
    BY <1>2, <2>2 DEF BucketOK
  <2>4. Placed(m, a) = {k}
    BY <1>4, <2>3
  <2> QED BY <2>1, <2>4
<1> QED BY <1>1, <1>2, <1>3, <1>6, <1>7 DEF n, s, b

\* With one bucket of a table replaced.
LEMMA TableWith ==
  ASSUME NEW t, NEW f, NEW T, TableOK(t, f, T), NEW s \in 0 .. MEM_PTAB_SIZE - 1, NEW b,
         NEW g, NEW U, BucketOK(b, s, g, U),
         \A r \in 0 .. MEM_PTAB_SIZE - 1 : r # s => BucketOK(t[r], r, g, U),
         NEW u, WithAt(t, s, b, u)
  PROVE  TableOK(u, g, U) /\ u[s] = b
<1>1. DOMAIN t = 0 .. MEM_PTAB_SIZE - 1
  BY DEF TableOK
<1>2. u = [r \in 0 .. MEM_PTAB_SIZE - 1 |-> IF r = s THEN b ELSE t[r]]
  BY <1>1 DEF WithAt
<1>3. u = [r \in 0 .. MEM_PTAB_SIZE - 1 |-> u[r]] /\ \A r \in 0 .. MEM_PTAB_SIZE - 1 : u[r] = IF r = s THEN b ELSE t[r]
  BY <1>2
<1>4. \A r \in 0 .. MEM_PTAB_SIZE - 1 : BucketOK(u[r], r, g, U)
  <2> TAKE r \in 0 .. MEM_PTAB_SIZE - 1
  <2>1. CASE r = s
    BY <1>3, <2>1, Zenon
  <2>2. CASE r # s
    BY <1>3, <2>2, Zenon
  <2> QED BY <2>1, <2>2
<1> QED BY <1>3, <1>4, Zenon DEF TableOK

\* MEM_PAGE() counts, and leaves the page it finds at the front.
LookedAt(m, a, q) == q = MEM_PAGE(m, a)
SameButCounts(m, q) == MemRecord(q) /\ q.page_count = m.page_count
LEMMA MemPageIs ==
  ASSUME NEW m, NEW f, NEW T, MemHas(m, f, T), NEW a \in Nat, NEW q, LookedAt(m, a, q)
  PROVE  /\ MemHas(q, f, T)
         /\ a \div MD_PAGE_SIZE \in T =>
              /\ 1 \in 1 .. Len(PageChain(q, a))
              /\ PageChain(q, a)[1] = PageEntry(f, a \div MD_PAGE_SIZE)
         /\ a \div MD_PAGE_SIZE \notin T =>
              q.ptab = m.ptab /\ q.page_count = m.page_count /\ m.ptab_misses + 1 = q.ptab_misses
<1> DEFINE n == a \div MD_PAGE_SIZE
           s == MEM_PTAB_SET(a)
           b == PageChain(m, a)
           k == CHOOSE j \in Placed(m, a) : TRUE
           front == <<b[k]>> \o (SubSeq(b, 1, k - 1) \o SubSeq(b, k + 1, Len(b)))
           t == [m.ptab EXCEPT ![s] = front]
<1>1. /\ s \in 0 .. MEM_PTAB_SIZE - 1 /\ BucketOK(b, s, f, T)
      /\ n \notin T => Placed(m, a) = {}
      /\ n \in T => \E j \in 1 .. Len(b) : Placed(m, a) = {j} /\ b[j] = PageEntry(f, n)
  BY PlacedIs
<1>2. MemRecord(m) /\ TableOK(m.ptab, f, T) /\ MemCounts(m, T) /\ T \subseteq Nat /\ IsFiniteSet(T)
  BY DEF MemHas
<1>3. CASE n \notin T
  <2>1. q = [m EXCEPT !.ptab_misses = @ + 1, !.ptab_accesses = @ + 1]
    BY <1>1, <1>3, Zenon DEF LookedAt, MEM_PAGE, mem_translate
  <2>2. /\ MemRecord(q) /\ q.ptab = m.ptab /\ q.page_count = m.page_count
        /\ q.ptab_misses = m.ptab_misses + 1 /\ q.ptab_accesses = m.ptab_accesses + 1
    BY <1>2, <2>1 DEF MemRecord
  <2>3. MemCounts(q, T)
    BY <1>2, <2>2 DEF MemCounts
  <2>4. MemHas(q, f, T)
    BY <1>2, <2>2, <2>3 DEF MemHas
  <2> QED BY <1>3, <2>2, <2>4
<1>4. CASE n \in T /\ 1 \in Placed(m, a)
  <2>1. q = [m EXCEPT !.ptab_accesses = @ + 1]
    BY <1>4, Zenon DEF LookedAt, MEM_PAGE
  <2>2. /\ MemRecord(q) /\ q.ptab = m.ptab /\ q.page_count = m.page_count
        /\ q.ptab_misses = m.ptab_misses /\ q.ptab_accesses = m.ptab_accesses + 1
    BY <1>2, <2>1 DEF MemRecord
  <2>3. MemCounts(q, T)
    BY <1>2, <2>2 DEF MemCounts
  <2>4. MemHas(q, f, T)
    BY <1>2, <2>2, <2>3 DEF MemHas
  <2>5. PageChain(q, a) = b
    BY <2>2 DEF PageChain
  <2>6. 1 \in 1 .. Len(b) /\ b[1] = PageEntry(f, n)
    <3> HIDE DEF b, n
    <3> QED BY <1>1, <1>4
  <2> QED BY <1>4, <2>4, <2>5, <2>6
<1>5. CASE n \in T /\ 1 \notin Placed(m, a)
  <2>1. Placed(m, a) # {} /\ k \in 1 .. Len(b) /\ b[k] = PageEntry(f, n)
    <3> HIDE DEF b, n
    <3>1. PICK j \in 1 .. Len(b) : Placed(m, a) = {j} /\ b[j] = PageEntry(f, n)
      BY <1>1, <1>5
    <3>2. k = j
      BY <3>1
    <3> QED BY <3>1, <3>2
  <2>2. q = [[m EXCEPT !.ptab_misses = @ + 1, !.ptab_accesses = @ + 1] EXCEPT !.ptab[s] = front]
    BY <1>5, <2>1, Zenon DEF LookedAt, MEM_PAGE, mem_translate
  <2> HIDE DEF front
  <2>3. /\ MemRecord(q) /\ q.ptab = t /\ q.page_count = m.page_count
        /\ q.ptab_misses = m.ptab_misses + 1 /\ q.ptab_accesses = m.ptab_accesses + 1
    <3>0. PICK c : c = [m EXCEPT !.ptab_misses = @ + 1, !.ptab_accesses = @ + 1]
      OBVIOUS
    <3>1. /\ MemRecord(c) /\ c.ptab = m.ptab /\ c.page_count = m.page_count
          /\ c.ptab_misses = m.ptab_misses + 1 /\ c.ptab_accesses = m.ptab_accesses + 1
      BY <1>2, <3>0 DEF MemRecord
    <3>2. q = [c EXCEPT !.ptab[s] = front]
      BY <2>2, <3>0, Zenon
    <3>3. /\ MemRecord(q) /\ q.ptab = [c.ptab EXCEPT ![s] = front] /\ q.page_count = c.page_count
          /\ q.ptab_misses = c.ptab_misses /\ q.ptab_accesses = c.ptab_accesses
      BY <3>1, <3>2 DEF MemRecord
    <3> QED BY <3>1, <3>3, Zenon
  <2>4. BucketOK(front, s, f, T) /\ Len(front) = Len(b) /\ front[1] = b[k]
    <3>1. ToFront(b, Len(b), k, b[k], front)
      BY Zenon DEF ToFront, front
    <3> HIDE DEF b, k
    <3> QED BY <1>1, <2>1, <3>1, BucketMoves
  <2>5. TableOK(t, f, T) /\ t[s] = front
    <3>1. WithAt(m.ptab, s, front, t)
      BY DEF WithAt
    <3>2. \A r \in 0 .. MEM_PTAB_SIZE - 1 : r # s => BucketOK(m.ptab[r], r, f, T)
      BY <1>2 DEF TableOK
    <3> HIDE DEF t
    <3> QED BY <1>1, <1>2, <2>4, <3>1, <3>2, TableWith
  <2> HIDE DEF t
  <2>6. MemCounts(q, T)
    BY <1>2, <2>3 DEF MemCounts
  <2>7. MemHas(q, f, T)
    BY <1>2, <2>3, <2>5, <2>6 DEF MemHas
  <2>8. PageChain(q, a) = front
    BY <2>3, <2>5 DEF PageChain
  <2>9. 1 \in 1 .. Len(front) /\ front[1] = PageEntry(f, n)
    <3>1. Len(b) \in Nat
      BY <1>1, SeqIs DEF BucketOK
    <3> HIDE DEF b, n
    <3> QED BY <2>1, <2>4, <3>1
  <2> QED BY <1>5, <2>7, <2>8, <2>9
<1> QED BY <1>3, <1>4, <1>5

\* A page of which nothing was written is all zeros.
LEMMA UntouchedIs ==
  ASSUME NEW f, NEW n \in Nat, n \notin Touched(f), NEW i \in 0 .. MD_PAGE_SIZE - 1
  PROVE  In(f, n * MD_PAGE_SIZE + i) = 0
<1>1. (n * MD_PAGE_SIZE + i) \div MD_PAGE_SIZE = n
  BY InPage
<1>2. n * MD_PAGE_SIZE + i \notin DOMAIN f
  BY <1>1, Zenon DEF Touched
<1> QED BY <1>2, Zenon DEF In

\* A new page in front of a bucket.
FrontOfAll(e, b, t) == t = <<e>> \o b
LEMMA PrependIs ==
  ASSUME NEW b, IsSeq(b), NEW e, NEW t, FrontOfAll(e, b, t)
  PROVE  IsSeq(t) /\ Len(t) = Len(b) + 1 /\ t[1] = e /\ \A k \in 1 .. Len(b) : t[k + 1] = b[k]
<1>1. PICK R : b \in Seq(R)
  BY DEF IsSeq
<1> DEFINE S == R \cup {e}
           y == <<e>>
<1>2. b \in Seq(S)
  BY <1>1, SeqMonotonic
<1>3. y \in Seq(S) /\ Len(y) = 1 /\ y[1] = e
  OBVIOUS
<1> HIDE DEF S, y
<1>4. Len(b) \in Nat
  BY SeqIs
<1>5. /\ t \in Seq(S) /\ Len(t) = 1 + Len(b)
      /\ \A k \in 1 .. 1 + Len(b) : t[k] = IF k <= 1 THEN y[k] ELSE b[k - 1]
  <2>1. /\ y \o b \in Seq(S) /\ Len(y \o b) = Len(y) + Len(b)
        /\ \A k \in 1 .. Len(y) + Len(b) : (y \o b)[k] = IF k <= Len(y) THEN y[k] ELSE b[k - Len(y)]
    BY <1>2, <1>3, ConcatProperties
  <2>2. t = y \o b
    BY Zenon DEF FrontOfAll, y
  <2> QED BY <1>3, <2>1, <2>2, Zenon
<1>6. t[1] = e
  BY <1>3, <1>4, <1>5
<1>7. ASSUME NEW k \in 1 .. Len(b) PROVE t[k + 1] = b[k]
  <2>1. k + 1 \in 1 .. 1 + Len(b) /\ ~(k + 1 <= 1) /\ (k + 1) - 1 = k
    BY <1>4
  <2> QED BY <1>5, <2>1
<1> QED BY <1>4, <1>5, <1>6, <1>7 DEF IsSeq

LEMMA BucketGrows ==
  ASSUME NEW b, NEW s, NEW f, NEW T \in SUBSET Nat, BucketOK(b, s, f, T),
         NEW n \in Nat \ T, n % MEM_PTAB_SIZE = s,
         NEW t, FrontOfAll(PageEntry(f, n), b, t)
  PROVE  BucketOK(t, s, f, T \cup {n})
<1> DEFINE e == PageEntry(f, n)
           U == T \cup {n}
<1>1. IsSeq(b) /\ Len(b) \in Nat
  BY SeqIs DEF BucketOK
<1>2. IsSeq(t) /\ Len(t) = Len(b) + 1 /\ t[1] = e /\ \A k \in 1 .. Len(b) : t[k + 1] = b[k]
  BY <1>1, PrependIs
<1>3. e.tag = n \div MEM_PTAB_SIZE
  BY EntryTag
<1> HIDE DEF e
<1>4. \A k \in 1 .. Len(t) : k # 1 => k - 1 \in 1 .. Len(b) /\ t[k] = b[k - 1]
  <2> SUFFICES ASSUME NEW k \in 1 .. Len(t), k # 1 PROVE k - 1 \in 1 .. Len(b) /\ t[k] = b[k - 1]
    OBVIOUS
  <2>1. k - 1 \in 1 .. Len(b) /\ (k - 1) + 1 = k
    BY <1>1, <1>2
  <2>2. t[(k - 1) + 1] = b[k - 1]
    BY <1>2, <2>1, Zenon
  <2> QED BY <2>1, <2>2
<1>5. \A k \in 1 .. Len(b) : BucketOf(b, k, s, f, T)
  BY DEF BucketOK
<1>6. \A k \in 1 .. Len(b) : b[k].tag # e.tag
  <2> TAKE k \in 1 .. Len(b)
  <2>1. PICK p \in T : p % MEM_PTAB_SIZE = s /\ b[k] = PageEntry(f, p)
    BY <1>5 DEF BucketOf
  <2>2. b[k].tag = p \div MEM_PTAB_SIZE /\ p \in Nat /\ p # n
    BY <2>1, EntryTag
  <2> QED BY <1>3, <2>1, <2>2, PageUnique
<1>7. \A k \in 1 .. Len(t) : BucketOf(t, k, s, f, U)
  <2> TAKE k \in 1 .. Len(t)
  <2>1. CASE k = 1
    BY <1>2, <2>1, Zenon DEF BucketOf, e
  <2>2. CASE k # 1
    <3>1. BucketOf(b, k - 1, s, f, T) /\ t[k] = b[k - 1]
      BY <1>4, <1>5, <2>2
    <3> QED BY <3>1, Zenon DEF BucketOf
  <2> QED BY <2>1, <2>2
<1>8. \A j, k \in 1 .. Len(b) : b[j].tag = b[k].tag => j = k
  BY DEF BucketOK
<1>9. \A j, k \in 1 .. Len(t) : t[j].tag = t[k].tag => j = k
  <2> TAKE j, k \in 1 .. Len(t)
  <2>1. CASE j = 1 /\ k # 1
    <3>1. k - 1 \in 1 .. Len(b) /\ t[k] = b[k - 1] /\ t[j] = e
      BY <1>2, <1>4, <2>1
    <3> QED BY <1>6, <3>1
  <2>2. CASE j # 1 /\ k = 1
    <3>1. j - 1 \in 1 .. Len(b) /\ t[j] = b[j - 1] /\ t[k] = e
      BY <1>2, <1>4, <2>2
    <3> QED BY <1>6, <3>1
  <2>3. CASE j # 1 /\ k # 1
    <3>1. j - 1 \in 1 .. Len(b) /\ t[j] = b[j - 1] /\ k - 1 \in 1 .. Len(b) /\ t[k] = b[k - 1]
      BY <1>4, <2>3
    <3>2. t[j].tag = t[k].tag => j - 1 = k - 1
      BY <1>8, <3>1
    <3> QED BY <1>1, <1>2, <3>2
  <2> QED BY <2>1, <2>2, <2>3
<1>10. ASSUME NEW p \in U, p % MEM_PTAB_SIZE = s PROVE \E k \in 1 .. Len(t) : t[k] = PageEntry(f, p)
  <2>1. CASE p = n
    <3>1. 1 \in 1 .. Len(t)
      BY <1>1, <1>2
    <3> QED BY <1>2, <2>1, <3>1 DEF e
  <2>2. CASE p \in T
    <3>1. PICK k \in 1 .. Len(b) : b[k] = PageEntry(f, p)
      BY <1>10, <2>2 DEF BucketOK
    <3>2. k + 1 \in 1 .. Len(t) /\ t[k + 1] = PageEntry(f, p)
      BY <1>1, <1>2, <3>1
    <3> QED BY <3>2
  <2> QED BY <2>1, <2>2
<1> QED BY <1>2, <1>7, <1>9, <1>10, Zenon DEF BucketOK

\* The other buckets do not change with the page.
LEMMA BucketKeeps ==
  ASSUME NEW b, NEW s, NEW f, NEW g, NEW T, NEW U, BucketOK(b, s, f, T),
         \A n : n % MEM_PTAB_SIZE = s => (n \in T <=> n \in U),
         \A n \in T : n % MEM_PTAB_SIZE = s => PageEntry(g, n) = PageEntry(f, n)
  PROVE  BucketOK(b, s, g, U)
<1>1. \A k \in 1 .. Len(b) : BucketOf(b, k, s, g, U)
  <2> TAKE k \in 1 .. Len(b)
  <2>1. PICK n \in T : n % MEM_PTAB_SIZE = s /\ b[k] = PageEntry(f, n)
    BY Zenon DEF BucketOK, BucketOf
  <2> QED BY <2>1, Zenon DEF BucketOf
<1>2. ASSUME NEW n \in U, n % MEM_PTAB_SIZE = s PROVE \E k \in 1 .. Len(b) : b[k] = PageEntry(g, n)
  <2>1. n \in T
    BY <1>2
  <2>2. PICK k \in 1 .. Len(b) : b[k] = PageEntry(f, n)
    BY <1>2, <2>1, Zenon DEF BucketOK
  <2> QED BY <1>2, <2>1, <2>2, Zenon
<1> QED BY <1>1, <1>2, Zenon DEF BucketOK

NewPageAt(m, a, q) == q = mem_newpage(m, a)
LEMMA NewPageIs ==
  ASSUME NEW m, NEW f, NEW T, MemHas(m, f, T), NEW a \in Nat, a \div MD_PAGE_SIZE \notin T,
         a \div MD_PAGE_SIZE \notin Touched(f), m.page_count + 1 <= m.ptab_misses,
         NEW q, NewPageAt(m, a, q)
  PROVE  MemHas(q, f, T \cup {a \div MD_PAGE_SIZE})
<1> DEFINE n == a \div MD_PAGE_SIZE
           s == MEM_PTAB_SET(a)
           b == PageChain(m, a)
           e == [tag |-> MEM_PTAB_TAG(a), page |-> [i \in 0 .. MD_PAGE_SIZE - 1 |-> 0]]
           new == <<e>> \o b
           t == [m.ptab EXCEPT ![s] = new]
           U == T \cup {n}
<1>1. /\ s \in 0 .. MEM_PTAB_SIZE - 1 /\ BucketOK(b, s, f, T)
  BY PlacedIs
<1>2. MemRecord(m) /\ TableOK(m.ptab, f, T) /\ MemCounts(m, T) /\ T \in SUBSET Nat /\ IsFiniteSet(T)
  BY DEF MemHas
<1>3. n \in Nat /\ n \notin T /\ n \notin Touched(f)
  BY AddrIs
<1>4. s = n % MEM_PTAB_SIZE /\ MEM_PTAB_TAG(a) = n \div MEM_PTAB_SIZE
  BY DEF MEM_PTAB_SET, MEM_PTAB_TAG
<1>5. e = PageEntry(f, n)
  <2>1. PageOf(f, n) = [i \in 0 .. MD_PAGE_SIZE - 1 |-> 0]
    <3> HIDE DEF n
    <3> QED BY <1>3, UntouchedIs DEF PageOf
  <2> HIDE DEF n
  <2> QED BY <1>4, <2>1, Zenon DEF PageEntry
<1>6. b = m.ptab[s]
  BY DEF PageChain
<1>7. q = [m EXCEPT !.ptab[s] = <<e>> \o @, !.page_count = @ + 1]
  BY Zenon DEF NewPageAt, mem_newpage
<1> HIDE DEF e
<1>8. /\ MemRecord(q) /\ q.ptab = t /\ q.page_count = m.page_count + 1
      /\ q.ptab_misses = m.ptab_misses /\ q.ptab_accesses = m.ptab_accesses
  <2>1. /\ MemRecord(q) /\ q.ptab = [m.ptab EXCEPT ![s] = <<e>> \o m.ptab[s]] /\ q.page_count = m.page_count + 1
        /\ q.ptab_misses = m.ptab_misses /\ q.ptab_accesses = m.ptab_accesses
    <3> HIDE DEF s
    <3> QED BY <1>2, <1>7 DEF MemRecord
  <2> QED BY <1>6, <2>1, Zenon
<1> HIDE DEF n, s, b
<1>9. BucketOK(new, s, f, U)
  <2>1. FrontOfAll(PageEntry(f, n), b, new)
    BY <1>5, Zenon DEF FrontOfAll
  <2>2. n \in Nat \ T /\ n % MEM_PTAB_SIZE = s
    BY <1>3, <1>4
  <2> HIDE DEF new
  <2> QED BY <1>1, <1>2, <2>1, <2>2, BucketGrows
<1>10. \A r \in 0 .. MEM_PTAB_SIZE - 1 : r # s => BucketOK(m.ptab[r], r, f, U)
  <2> SUFFICES ASSUME NEW r \in 0 .. MEM_PTAB_SIZE - 1, r # s PROVE BucketOK(m.ptab[r], r, f, U)
    OBVIOUS
  <2>1. BucketOK(m.ptab[r], r, f, T)
    BY <1>2, Zenon DEF TableOK
  <2>2. \A p : p % MEM_PTAB_SIZE = r => (p \in T <=> p \in U)
    BY <1>4, Zenon
  <2> HIDE DEF U
  <2> QED BY <2>1, <2>2, BucketKeeps, Zenon
<1>11. TableOK(t, f, U)
  <2>1. WithAt(m.ptab, s, new, t)
    BY DEF WithAt
  <2> HIDE DEF t, new, U
  <2> QED BY <1>1, <1>2, <1>9, <1>10, <2>1, TableWith
<1>12. U \subseteq Nat /\ IsFiniteSet(U) /\ Cardinality(U) = Cardinality(T) + 1
  BY <1>2, <1>3, FS_AddElement
<1> HIDE DEF U, t
<1>13. MemCounts(q, U)
  BY <1>2, <1>8, <1>12 DEF MemCounts
<1>14. MemHas(q, f, U)
  BY <1>8, <1>11, <1>12, <1>13, Zenon DEF MemHas
<1> QED BY <1>14 DEF U, n

\* The bytes of an access that stays within a page.
Fits(a, n) == n \in Nat /\ MEM_OFFSET(a) + n <= MD_PAGE_SIZE
LEMMA FitsIs ==
  ASSUME NEW a \in Nat, NEW n, Fits(a, n), NEW i \in 1 .. n
  PROVE  /\ MEM_OFFSET(a) + i - 1 \in 0 .. MD_PAGE_SIZE - 1
         /\ a + i - 1 = (a \div MD_PAGE_SIZE) * MD_PAGE_SIZE + (MEM_OFFSET(a) + i - 1)
         /\ a + i - 1 \in Nat
<1> DEFINE p == (a \div MD_PAGE_SIZE) * MD_PAGE_SIZE
           o == MEM_OFFSET(a)
<1>1. MD_PAGE_SIZE \in Nat \ {0} /\ a \div MD_PAGE_SIZE \in Nat /\ o \in 0 .. MD_PAGE_SIZE - 1 /\ a = p + o
  BY SizesAre, AddrIs
<1>2. p \in Nat
  BY <1>1, SMTT(30)
<1>3. n \in Nat /\ o + n <= MD_PAGE_SIZE
  BY DEF Fits
<1> HIDE DEF p, o
<1>4. o + i - 1 \in 0 .. MD_PAGE_SIZE - 1 /\ a + i - 1 = p + (o + i - 1) /\ a + i - 1 \in Nat
  BY <1>1, <1>2, <1>3
<1> QED BY <1>4 DEF p, o

\* MEM_READ() returns what a flat memory would.
ReadIn(m, a, n, r) == r = MEM_READ(m, a, n)
BytesAt(f, a, n) == [i \in 1 .. n |-> In(f, a + i - 1)]
LEMMA MemReadIs ==
  ASSUME NEW m, NEW f, NEW T, MemHas(m, f, T), Touched(f) \subseteq T,
         NEW a \in Nat, NEW n, Fits(a, n), NEW r, ReadIn(m, a, n, r)
  PROVE  MemHas(r.mem, f, T) /\ r.bytes = BytesAt(f, a, n)
<1> DEFINE p == a \div MD_PAGE_SIZE
           o == MEM_OFFSET(a)
<1>1. PICK c1 : LookedAt(m, a, c1)
  BY DEF LookedAt
<1>2. PICK c2 : LookedAt(c1, a, c2)
  BY DEF LookedAt
<1>3. MemHas(c1, f, T)
  BY <1>1, MemPageIs
<1>4. MemHas(c2, f, T)
  BY <1>2, <1>3, MemPageIs
<1>5. CASE p \notin T
  <2>1. Placed(m, a) = {}
    BY <1>5, PlacedIs
  <2>2. r = [mem |-> c1, bytes |-> [i \in 1 .. n |-> 0]]
    BY <1>1, <2>1, Zenon DEF ReadIn, MEM_READ, LookedAt
  <2>3. p \in Nat /\ p \notin Touched(f)
    BY <1>5, AddrIs
  <2>4. \A i \in 1 .. n : In(f, a + i - 1) = 0
    <3> TAKE i \in 1 .. n
    <3>1. o + i - 1 \in 0 .. MD_PAGE_SIZE - 1 /\ a + i - 1 = p * MD_PAGE_SIZE + (o + i - 1)
      BY FitsIs
    <3> HIDE DEF p, o
    <3> QED BY <2>3, <3>1, UntouchedIs
  <2>5. BytesAt(f, a, n) = [i \in 1 .. n |-> 0]
    BY <2>4, Zenon DEF BytesAt
  <2> QED BY <1>3, <2>2, <2>5
<1>6. CASE p \in T
  <2>1. Placed(m, a) # {}
    <3> HIDE DEF p
    <3>1. \E k : Placed(m, a) = {k}
      BY <1>6, PlacedIs DEF p
    <3> QED BY <3>1
  <2>2. PageChain(c1, a)[1] = PageEntry(f, p)
    BY <1>1, <1>6, MemPageIs
  <2> DEFINE page == PageChain(c1, a)[1].page
  <2>3. r = [mem |-> c2, bytes |-> [i \in 1 .. n |-> page[o + i - 1]]]
    BY <1>1, <1>2, <2>1, Zenon DEF ReadIn, MEM_READ, LookedAt
  <2>4. page = PageOf(f, p)
    BY <2>2, EntryTag
  <2> HIDE DEF page
  <2>5. \A i \in 1 .. n : page[o + i - 1] = In(f, a + i - 1)
    <3> TAKE i \in 1 .. n
    <3>1. o + i - 1 \in 0 .. MD_PAGE_SIZE - 1 /\ a + i - 1 = p * MD_PAGE_SIZE + (o + i - 1)
      BY FitsIs
    <3> HIDE DEF p, o
    <3> QED BY <2>4, <3>1, Zenon DEF PageOf
  <2>6. BytesAt(f, a, n) = [i \in 1 .. n |-> page[o + i - 1]]
    <3> HIDE DEF o
    <3> QED BY <2>5, Zenon DEF BytesAt
  <2> QED BY <1>4, <2>3, <2>6
<1> QED BY <1>5, <1>6

-----------------------------------------------------------------------------
(* Writing.                                                                *)

Over(f, a, bytes, g) == g = Overlaid(f, a, bytes)
IsOver(f, a, bytes, g) ==
  /\ DOMAIN g = DOMAIN f \cup (a .. a + Len(bytes) - 1)
  /\ \A x \in a .. a + Len(bytes) - 1 : In(g, x) = bytes[x - a + 1]
  /\ \A x : x \notin a .. a + Len(bytes) - 1 => In(g, x) = In(f, x)
LEMMA OverIs ==
  ASSUME NEW f, NEW a \in Nat, NEW bytes, Len(bytes) \in Nat, NEW g, Over(f, a, bytes, g)
  PROVE  IsOver(f, a, bytes, g)
<1> DEFINE R == a .. a + Len(bytes) - 1
<1>1. g = [x \in DOMAIN f \cup R |-> IF x \in R THEN bytes[x - a + 1] ELSE f[x]]
  BY Zenon DEF Over, Overlaid
<1> HIDE DEF R
<1>2. DOMAIN g = DOMAIN f \cup R
  BY <1>1
<1>3. \A x \in R : In(g, x) = bytes[x - a + 1]
  BY <1>1, <1>2 DEF In
<1>4. \A x : x \notin R => In(g, x) = In(f, x)
  BY <1>1, <1>2 DEF In
<1> QED BY <1>2, <1>3, <1>4 DEF R, IsOver

\* A write within a page changes this page only.
PageChanges(f, a, bytes, g) ==
  /\ \A n \in Nat : n # a \div MD_PAGE_SIZE => PageEntry(g, n) = PageEntry(f, n)
  /\ \A i \in 0 .. MD_PAGE_SIZE - 1 :
       PageOf(g, a \div MD_PAGE_SIZE)[i] =
         IF i - MEM_OFFSET(a) + 1 \in 1 .. Len(bytes) THEN bytes[i - MEM_OFFSET(a) + 1]
         ELSE PageOf(f, a \div MD_PAGE_SIZE)[i]
LEMMA PageWritten ==
  ASSUME NEW f, NEW a \in Nat, NEW bytes, Fits(a, Len(bytes)), NEW g, Over(f, a, bytes, g)
  PROVE  PageChanges(f, a, bytes, g)
<1> DEFINE p == a \div MD_PAGE_SIZE
           o == MEM_OFFSET(a)
           B == p * MD_PAGE_SIZE
           w == Len(bytes)
<1>1. MD_PAGE_SIZE \in Nat \ {0} /\ p \in Nat /\ o \in 0 .. MD_PAGE_SIZE - 1 /\ a = B + o
  BY SizesAre, AddrIs
<1>2. B \in Nat
  BY <1>1, SMTT(30)
<1>3. w \in Nat /\ o + w <= MD_PAGE_SIZE
  BY DEF Fits
<1>4. /\ \A x \in a .. a + w - 1 : In(g, x) = bytes[x - a + 1]
      /\ \A x : x \notin a .. a + w - 1 => In(g, x) = In(f, x)
  <2>1. Len(bytes) \in Nat /\ Over(f, a, bytes, g)
    BY DEF Fits
  <2>2. IsOver(f, a, bytes, g)
    BY <2>1, OverIs
  <2> QED BY <2>2 DEF IsOver
<1> HIDE DEF o, w
<1>5. ASSUME NEW n \in Nat, n # p PROVE PageEntry(g, n) = PageEntry(f, n)
  <2>1. \A i \in 0 .. MD_PAGE_SIZE - 1 : In(g, n * MD_PAGE_SIZE + i) = In(f, n * MD_PAGE_SIZE + i)
    <3> TAKE i \in 0 .. MD_PAGE_SIZE - 1
    <3> DEFINE x == n * MD_PAGE_SIZE + i
    <3>1. x \div MD_PAGE_SIZE = n
      BY InPage
    <3>2. x \notin a .. a + w - 1
      <4> SUFFICES ASSUME x \in a .. a + w - 1 PROVE FALSE
        OBVIOUS
      <4> HIDE DEF x, p, B
      <4>1. x - B \in 0 .. MD_PAGE_SIZE - 1 /\ x = B + (x - B)
        BY <1>1, <1>2, <1>3
      <4> DEFINE j == x - B
      <4> HIDE DEF j
      <4>2. j \in 0 .. MD_PAGE_SIZE - 1 /\ x = B + j
        BY <4>1 DEF j
      <4>3. (p * MD_PAGE_SIZE + j) \div MD_PAGE_SIZE = p
        BY <1>1, <4>2, InPage
      <4>4. x \div MD_PAGE_SIZE = p
        BY <4>2, <4>3 DEF B
      <4> QED BY <1>5, <3>1, <4>4
    <3> QED BY <1>4, <3>2
  <2>2. PageOf(g, n) = PageOf(f, n)
    BY <2>1, Zenon DEF PageOf
  <2> QED BY <2>2, Zenon DEF PageEntry
<1>6. ASSUME NEW i \in 0 .. MD_PAGE_SIZE - 1
      PROVE  PageOf(g, p)[i] = IF i - o + 1 \in 1 .. w THEN bytes[i - o + 1] ELSE PageOf(f, p)[i]
  <2>1. PageOf(g, p)[i] = In(g, B + i) /\ PageOf(f, p)[i] = In(f, B + i)
    BY Zenon DEF PageOf
  <2> HIDE DEF B, p
  <2>2. CASE i - o + 1 \in 1 .. w
    <3>1. B + i \in a .. a + w - 1 /\ (B + i) - a + 1 = i - o + 1
      BY <1>1, <1>2, <1>3, <2>2
    <3>2. In(g, B + i) = bytes[(B + i) - a + 1]
      BY <1>4, <3>1
    <3> QED BY <2>1, <2>2, <3>1, <3>2
  <2>3. CASE i - o + 1 \notin 1 .. w
    <3>1. B + i \notin a .. a + w - 1
      BY <1>1, <1>2, <1>3, <2>3
    <3> QED BY <1>4, <2>1, <2>3, <3>1
  <2> QED BY <2>2, <2>3
<1> QED BY <1>5, <1>6, Zenon DEF o, w, PageChanges

\* The front page of a bucket, rewritten.
LEMMA BucketWritten ==
  ASSUME NEW b, NEW s, NEW f, NEW T \in SUBSET Nat, BucketOK(b, s, f, T),
         NEW n \in T, n % MEM_PTAB_SIZE = s, 1 \in 1 .. Len(b), b[1] = PageEntry(f, n),
         NEW g, \A k \in Nat : k # n => PageEntry(g, k) = PageEntry(f, k),
         NEW t, WithAt(b, 1, PageEntry(g, n), t)
  PROVE  BucketOK(t, s, g, T)
<1>1. IsSeq(b) /\ Len(b) \in Nat
  BY SeqIs DEF BucketOK
<1>2. IsSeq(t) /\ Len(t) = Len(b) /\ t[1] = PageEntry(g, n) /\ \A j \in 1 .. Len(b) : j # 1 => t[j] = b[j]
  BY <1>1, ExceptIs
<1>3. \A j \in 1 .. Len(b) : t[j].tag = b[j].tag
  <2> TAKE j \in 1 .. Len(b)
  <2>1. CASE j = 1
    BY <1>2, <2>1, EntryTag
  <2>2. CASE j # 1
    BY <1>2, <2>2
  <2> QED BY <2>1, <2>2
<1>4. \A j, k \in 1 .. Len(b) : b[j].tag = b[k].tag => j = k
  BY DEF BucketOK
<1>5. \A k \in 1 .. Len(b) : BucketOf(t, k, s, g, T)
  <2> TAKE k \in 1 .. Len(b)
  <2>1. CASE k = 1
    BY <1>2, <2>1 DEF BucketOf
  <2>2. CASE k # 1
    <3>1. PICK p \in T : p % MEM_PTAB_SIZE = s /\ b[k] = PageEntry(f, p)
      BY DEF BucketOK, BucketOf
    <3>2. p # n
      <4> SUFFICES ASSUME p = n PROVE FALSE
        OBVIOUS
      <4>1. b[k] = b[1]
        BY <3>1
      <4> QED BY <1>4, <2>2, <4>1
    <3>3. t[k] = PageEntry(g, p)
      BY <1>2, <2>2, <3>1, <3>2
    <3> QED BY <3>1, <3>3 DEF BucketOf
  <2> QED BY <2>1, <2>2
<1>6. ASSUME NEW p \in T, p % MEM_PTAB_SIZE = s PROVE \E k \in 1 .. Len(b) : t[k] = PageEntry(g, p)
  <2>1. CASE p = n
    BY <1>2, <2>1
  <2>2. CASE p # n
    <3>1. PICK k \in 1 .. Len(b) : b[k] = PageEntry(f, p)
      BY <1>6 DEF BucketOK
    <3>2. k # 1
      <4> SUFFICES ASSUME k = 1 PROVE FALSE
        OBVIOUS
      <4>1. PageEntry(f, p).tag = PageEntry(f, n).tag
        BY <3>1
      <4>2. p \div MEM_PTAB_SIZE = n \div MEM_PTAB_SIZE
        BY <4>1, EntryTag
      <4> QED BY <1>6, <2>2, <4>2, PageUnique
    <3>3. t[k] = PageEntry(g, p)
      BY <1>2, <2>2, <3>1, <3>2
    <3> QED BY <3>3
  <2> QED BY <2>1, <2>2
<1>7. \A j, k \in 1 .. Len(b) : t[j].tag = t[k].tag => j = k
  BY <1>3, <1>4
<1> QED BY <1>2, <1>5, <1>6, <1>7, Zenon DEF BucketOK

\* MEM_WRITE() does to memory what it does to a flat one.
WrittenTo(m, a, bytes, q) == q = MEM_WRITE(m, a, bytes)
LEMMA MemWriteIs ==
  ASSUME NEW m, NEW f, NEW T, MemHas(m, f, T), Touched(f) \subseteq T,
         NEW a \in Nat, NEW bytes, IsSeq(bytes), Fits(a, Len(bytes)), NEW q, WrittenTo(m, a, bytes, q),
         NEW g, Over(f, a, bytes, g)
  PROVE  MemHas(q, g, T \cup {a \div MD_PAGE_SIZE})
<1> DEFINE p == a \div MD_PAGE_SIZE
           s == MEM_PTAB_SET(a)
           o == MEM_OFFSET(a)
           U == T \cup {p}
<1>1. PICK c1 : LookedAt(m, a, c1)
  BY DEF LookedAt
<1>2. PICK c2 : c2 = IF Placed(m, a) = {} THEN mem_newpage(c1, a) ELSE c1
  OBVIOUS
<1>3. PICK c3 : LookedAt(c2, a, c3)
  BY DEF LookedAt
<1>4. MemHas(c1, f, T)
  BY <1>1, MemPageIs
<1>5. MemHas(c2, f, U)
  <2>1. CASE p \notin T
    <3>1. Placed(m, a) = {}
      BY <2>1, PlacedIs
    <3>2. NewPageAt(c1, a, c2)
      BY <1>2, <3>1 DEF NewPageAt
    <3>3. c1.ptab = m.ptab /\ c1.page_count = m.page_count /\ m.ptab_misses + 1 = c1.ptab_misses
      BY <1>1, <2>1, MemPageIs
    <3>4. c1.page_count + 1 <= c1.ptab_misses
      BY <3>3 DEF MemHas, MemCounts
    <3>5. p \notin Touched(f)
      BY <2>1
    <3> QED BY <1>4, <2>1, <3>2, <3>4, <3>5, NewPageIs
  <2>2. CASE p \in T
    <3>1. Placed(m, a) # {}
      <4>1. \E k : Placed(m, a) = {k}
        BY <2>2, PlacedIs
      <4> QED BY <4>1
    <3>2. c2 = c1 /\ U = T
      BY <1>2, <2>2, <3>1
    <3> QED BY <1>4, <3>2
  <2> QED BY <2>1, <2>2
<1>6. MemHas(c3, f, U) /\ 1 \in 1 .. Len(PageChain(c3, a)) /\ PageChain(c3, a)[1] = PageEntry(f, p)
  <2>1. p \in U
    OBVIOUS
  <2> HIDE DEF U
  <2> QED BY <1>3, <1>5, <2>1, MemPageIs
<1> DEFINE b == PageChain(c3, a)
           New(page) == [k \in DOMAIN page |->
                           IF k - o + 1 \in DOMAIN bytes THEN bytes[k - o + 1] ELSE page[k]]
           e == [b[1] EXCEPT !.page = New(b[1].page)]
           t == [b EXCEPT ![1] = e]
           u == [c3.ptab EXCEPT ![s] = t]
<1>7. q = [c3 EXCEPT !.ptab[s][1].page = New(@)]
  BY <1>1, <1>2, <1>3, Zenon DEF WrittenTo, MEM_WRITE, LookedAt
<1>8. p \in Nat /\ p \in U /\ s \in 0 .. MEM_PTAB_SIZE - 1 /\ s = p % MEM_PTAB_SIZE
      /\ BucketOK(b, s, f, U)
  <2>1. p \in Nat
    BY AddrIs
  <2>2. p \in U
    OBVIOUS
  <2> HIDE DEF U
  <2>3. s \in 0 .. MEM_PTAB_SIZE - 1 /\ BucketOK(b, s, f, U)
    BY <1>6, PlacedIs
  <2> QED BY <2>1, <2>2, <2>3 DEF MEM_PTAB_SET
<1>9. MemRecord(c3) /\ TableOK(c3.ptab, f, U) /\ MemCounts(c3, U) /\ U \in SUBSET Nat /\ IsFiniteSet(U)
  <2> HIDE DEF U
  <2> QED BY <1>6 DEF MemHas
<1>10. /\ \A n \in Nat : n # p => PageEntry(g, n) = PageEntry(f, n)
       /\ \A i \in 0 .. MD_PAGE_SIZE - 1 :
            PageOf(g, p)[i] = IF i - o + 1 \in 1 .. Len(bytes) THEN bytes[i - o + 1] ELSE PageOf(f, p)[i]
  <2>1. PageChanges(f, a, bytes, g)
    BY PageWritten
  <2> QED BY <2>1, Zenon DEF PageChanges
<1>11. e = PageEntry(g, p)
  <2>1. b[1] = [tag |-> p \div MEM_PTAB_SIZE, page |-> PageOf(f, p)]
    BY <1>6, Zenon DEF PageEntry
  <2>2. New(PageOf(f, p)) = PageOf(g, p)
    <3>1. DOMAIN PageOf(f, p) = 0 .. MD_PAGE_SIZE - 1
      BY DEF PageOf
    <3>2. DOMAIN bytes = 1 .. Len(bytes)
      BY SeqIs
    <3>3. PageOf(g, p) = [i \in 0 .. MD_PAGE_SIZE - 1 |-> PageOf(g, p)[i]]
      BY Zenon DEF PageOf
    <3>4. New(PageOf(f, p)) = [i \in 0 .. MD_PAGE_SIZE - 1 |->
                                 IF i - o + 1 \in 1 .. Len(bytes) THEN bytes[i - o + 1] ELSE PageOf(f, p)[i]]
      BY <3>1, <3>2, Zenon
    <3> HIDE DEF New, p, o
    <3> QED BY <1>10, <3>3, <3>4, Zenon
  <2> HIDE DEF New
  <2>3. e = [b[1] EXCEPT !.page = PageOf(g, p)]
    <3>1. b[1].page = PageOf(f, p)
      BY <2>1
    <3> QED BY <2>2, <3>1, Zenon
  <2> HIDE DEF e
  <2> QED BY <2>1, <2>3 DEF PageEntry
<1>12. /\ MemRecord(q) /\ q.ptab = u /\ q.page_count = c3.page_count
       /\ q.ptab_misses = c3.ptab_misses /\ q.ptab_accesses = c3.ptab_accesses
  <2>1. q = [c3 EXCEPT !.ptab = [c3.ptab EXCEPT ![s] = [c3.ptab[s] EXCEPT ![1] =
                                   [c3.ptab[s][1] EXCEPT !.page = New(c3.ptab[s][1].page)]]]]
    <3> HIDE DEF New, s
    <3> QED BY <1>7, Zenon
  <2>2. b = c3.ptab[s]
    BY DEF PageChain
  <2> HIDE DEF New, s, b
  <2>3. q = [c3 EXCEPT !.ptab = u]
    BY <2>1, <2>2, Zenon
  <2> HIDE DEF u
  <2> QED BY <1>9, <2>3 DEF MemRecord
<1> HIDE DEF e, New, o, p, s, U, b
<1>13. BucketOK(t, s, g, U)
  <2>1. WithAt(b, 1, PageEntry(g, p), t)
    BY <1>11, Zenon DEF WithAt
  <2>2. 1 \in 1 .. Len(b) /\ b[1] = PageEntry(f, p) /\ p \in U /\ p % MEM_PTAB_SIZE = s
    BY <1>6, <1>8 DEF b
  <2> HIDE DEF t
  <2> QED BY <1>8, <1>9, <1>10, <2>1, <2>2, BucketWritten
<1>14. \A r \in 0 .. MEM_PTAB_SIZE - 1 : r # s => BucketOK(c3.ptab[r], r, g, U)
  <2> SUFFICES ASSUME NEW r \in 0 .. MEM_PTAB_SIZE - 1, r # s PROVE BucketOK(c3.ptab[r], r, g, U)
    OBVIOUS
  <2>1. BucketOK(c3.ptab[r], r, f, U)
    BY <1>9, Zenon DEF TableOK
  <2>2. \A n \in U : n % MEM_PTAB_SIZE = r => PageEntry(g, n) = PageEntry(f, n)
    BY <1>8, <1>9, <1>10
  <2> QED BY <2>1, <2>2, BucketKeeps, Zenon
<1>15. TableOK(u, g, U)
  <2>1. WithAt(c3.ptab, s, t, u)
    BY DEF WithAt
  <2> HIDE DEF t, u
  <2> QED BY <1>8, <1>9, <1>13, <1>14, <2>1, TableWith
<1>16. MemCounts(q, U)
  BY <1>9, <1>12, Zenon DEF MemCounts
<1> HIDE DEF u
<1>17. MemHas(q, g, U)
  <2>1. U \subseteq Nat
    BY <1>9
  <2> QED BY <1>9, <1>12, <1>15, <1>16, <2>1, Zenon DEF MemHas
<1> QED BY <1>17 DEF U, p

\* The pages of a memory are those of the addresses written.
LEMMA TouchedIs ==
  ASSUME NEW f, NEW a \in Nat, NEW bytes, Fits(a, Len(bytes)), Len(bytes) # 0,
         NEW g, Over(f, a, bytes, g)
  PROVE  Touched(g) = Touched(f) \cup {a \div MD_PAGE_SIZE}
<1>1. Len(bytes) \in Nat /\ DOMAIN g = DOMAIN f \cup (a .. a + Len(bytes) - 1)
  BY OverIs DEF Fits, IsOver
<1>2. a \in a .. a + Len(bytes) - 1
  BY <1>1
<1>3. ASSUME NEW x \in a .. a + Len(bytes) - 1 PROVE x \div MD_PAGE_SIZE = a \div MD_PAGE_SIZE
  <2> DEFINE i == x - a + 1
             j == MEM_OFFSET(a) + i - 1
  <2>1. i \in 1 .. Len(bytes) /\ a + i - 1 = x
    BY <1>1
  <2> HIDE DEF i
  <2>2. j \in 0 .. MD_PAGE_SIZE - 1 /\ x = (a \div MD_PAGE_SIZE) * MD_PAGE_SIZE + j
    BY <2>1, FitsIs
  <2>3. a \div MD_PAGE_SIZE \in Nat
    BY AddrIs
  <2> HIDE DEF j
  <2> QED BY <2>2, <2>3, InPage
<1>4. \A n : n \in Touched(g) <=> n \in Touched(f) \cup {a \div MD_PAGE_SIZE}
  BY <1>1, <1>2, <1>3, Zenon DEF Touched
<1> QED BY <1>4, Zenon

MemFlat(m, f) == DOMAIN f \subseteq Nat /\ MemHas(m, f, Touched(f))
LEMMA WriteKeepsFlat ==
  ASSUME NEW m, NEW f, MemFlat(m, f), NEW a \in Nat, NEW bytes, IsSeq(bytes), Fits(a, Len(bytes)),
         Len(bytes) # 0, NEW q, WrittenTo(m, a, bytes, q), NEW g, Over(f, a, bytes, g)
  PROVE  MemFlat(q, g)
<1>1. MemHas(q, g, Touched(f) \cup {a \div MD_PAGE_SIZE})
  BY MemWriteIs, Zenon DEF MemFlat
<1>2. Touched(g) = Touched(f) \cup {a \div MD_PAGE_SIZE}
  BY TouchedIs
<1>3. DOMAIN g \subseteq Nat
  <2>1. DOMAIN g = DOMAIN f \cup (a .. a + Len(bytes) - 1) /\ Len(bytes) \in Nat
    BY OverIs DEF Fits, IsOver
  <2> QED BY <2>1 DEF MemFlat
<1> QED BY <1>1, <1>2, <1>3, Zenon DEF MemFlat

-----------------------------------------------------------------------------
(* The accesses of more than a byte go byte by byte.                       *)

SameFlat(f, g) == DOMAIN f = DOMAIN g /\ \A x : In(f, x) = In(g, x)

\* A memory is flat or not whatever the names of the bytes.
LEMMA FlatAsWell ==
  ASSUME NEW m, NEW f, NEW g, MemFlat(m, f), SameFlat(f, g)
  PROVE  MemFlat(m, g)
<1> DEFINE T == Touched(f)
<1>1. Touched(g) = T /\ DOMAIN g \subseteq Nat
  BY DEF Touched, SameFlat, MemFlat
<1>2. \A n : PageEntry(g, n) = PageEntry(f, n)
  BY Zenon DEF PageEntry, PageOf, SameFlat
<1>3. MemHas(m, f, T)
  BY Zenon DEF MemFlat
<1> HIDE DEF T
<1>4. \A s \in 0 .. MEM_PTAB_SIZE - 1 : BucketOK(m.ptab[s], s, g, T)
  <2> TAKE s \in 0 .. MEM_PTAB_SIZE - 1
  <2>1. BucketOK(m.ptab[s], s, f, T)
    BY <1>3, Zenon DEF MemHas, TableOK
  <2> QED BY <1>2, <2>1, BucketKeeps, Zenon
<1>5. MemHas(m, g, T)
  BY <1>3, <1>4, Zenon DEF MemHas, TableOK
<1> QED BY <1>1, <1>5, Zenon DEF MemFlat

\* The loop of a write up to the n-th byte, and the recursive function it is.
WritesTo(m, addr, bytes, n, w) ==
  w = [k \in 0 .. n |-> IF k = 0 THEN m ELSE MEM_WRITE(w[k - 1], addr + k - 1, <<bytes[k]>>)]
LEMMA WritesExist ==
  ASSUME NEW m, NEW addr, NEW bytes, NEW n \in Nat
  PROVE  \E w : WritesTo(m, addr, bytes, n, w)
<1> DEFINE T == {j \in Nat : \E w : WritesTo(m, addr, bytes, j, w)}
<1>1. 0 \in T
  <2> DEFINE w == [k \in 0 .. 0 |-> m]
  <2>1. w = [k \in 0 .. 0 |-> IF k = 0 THEN m ELSE MEM_WRITE(w[k - 1], addr + k - 1, <<bytes[k]>>)]
    OBVIOUS
  <2> HIDE DEF w
  <2>2. WritesTo(m, addr, bytes, 0, w)
    BY <2>1 DEF WritesTo
  <2> QED BY <2>2
<1>2. ASSUME NEW j \in T PROVE j + 1 \in T
  <2>1. PICK v : WritesTo(m, addr, bytes, j, v)
    OBVIOUS
  <2>2. j \in Nat
    OBVIOUS
  <2> DEFINE e == MEM_WRITE(v[j], addr + (j + 1) - 1, <<bytes[j + 1]>>)
             w == [k \in 0 .. j + 1 |-> IF k = j + 1 THEN e ELSE v[k]]
             at(k) == IF k = 0 THEN m ELSE MEM_WRITE(w[k - 1], addr + k - 1, <<bytes[k]>>)
  <2>3. ASSUME NEW k \in 0 .. j + 1 PROVE w[k] = at(k)
    <3>1. CASE k = j + 1
      <4>1. k # 0 /\ k - 1 = j /\ w[k] = e /\ j \in 0 .. j + 1 /\ j # j + 1
        BY <2>2, <3>1
      <4>2. w[j] = v[j]
        BY <4>1
      <4> HIDE DEF w
      <4> QED BY <3>1, <4>1, <4>2
    <3>2. CASE k # j + 1
      <4>1. k \in 0 .. j /\ w[k] = v[k]
        BY <2>2, <3>2
      <4>2. v[k] = IF k = 0 THEN m ELSE MEM_WRITE(v[k - 1], addr + k - 1, <<bytes[k]>>)
        BY <2>1, <4>1, Zenon DEF WritesTo
      <4>3. CASE k = 0
        BY <4>1, <4>2, <4>3
      <4>4. CASE k # 0
        <5>1. k - 1 \in 0 .. j + 1 /\ k - 1 # j + 1
          BY <2>2, <4>1, <4>4
        <5>2. w[k - 1] = v[k - 1]
          BY <5>1
        <5> HIDE DEF w
        <5> QED BY <4>1, <4>2, <4>4, <5>2
      <4> QED BY <4>3, <4>4
    <3> QED BY <3>1, <3>2
  <2>4. w = [k \in 0 .. j + 1 |-> w[k]]
    OBVIOUS
  <2> HIDE DEF w
  <2>5. WritesTo(m, addr, bytes, j + 1, w)
    BY <2>3, <2>4, Zenon DEF WritesTo
  <2> QED BY <2>2, <2>5
<1> HIDE DEF T
<1>3. T \in SUBSET Nat
  BY DEF T
<1>4. T = Nat
  BY <1>1, <1>2, <1>3, SetInduction
<1> QED BY <1>4 DEF T

WroteBytes(m, addr, bytes, q) == q = WriteBytes(m, addr, bytes)
LEMMA WriteBytesIs ==
  ASSUME NEW m, NEW addr, NEW bytes, Len(bytes) \in Nat, NEW q, WroteBytes(m, addr, bytes, q)
  PROVE  \E w : WritesTo(m, addr, bytes, Len(bytes), w) /\ q = w[Len(bytes)]
<1> DEFINE w == CHOOSE v : v = [k \in 0 .. Len(bytes) |->
                   IF k = 0 THEN m ELSE MEM_WRITE(v[k - 1], addr + k - 1, <<bytes[k]>>)]
<1>1. q = w[Len(bytes)]
  BY Zenon DEF WroteBytes, WriteBytes
<1>2. \E v : v = [k \in 0 .. Len(bytes) |->
                   IF k = 0 THEN m ELSE MEM_WRITE(v[k - 1], addr + k - 1, <<bytes[k]>>)]
  <2>1. \E v : WritesTo(m, addr, bytes, Len(bytes), v)
    BY WritesExist
  <2> QED BY <2>1, Zenon DEF WritesTo
<1>3. WritesTo(m, addr, bytes, Len(bytes), w)
  <2>1. w = [k \in 0 .. Len(bytes) |->
                   IF k = 0 THEN m ELSE MEM_WRITE(w[k - 1], addr + k - 1, <<bytes[k]>>)]
    BY <1>2, Zenon
  <2> HIDE DEF w
  <2> QED BY <2>1, Zenon DEF WritesTo
<1> HIDE DEF w
<1> QED BY <1>1, <1>3

\* g is f with the first n of the bytes at addr.
Prefixed(f, addr, bytes, n, g) ==
  /\ DOMAIN g = DOMAIN f \cup (addr .. addr + n - 1)
  /\ \A x \in addr .. addr + n - 1 : In(g, x) = bytes[x - addr + 1]
  /\ \A x : x \notin addr .. addr + n - 1 => In(g, x) = In(f, x)
FlatWith(m, f, addr, bytes, n) == \E g : Prefixed(f, addr, bytes, n, g) /\ MemFlat(m, g)

LEMMA PrefixGrows ==
  ASSUME NEW f, NEW addr \in Nat, NEW bytes, NEW n \in Nat, NEW g, Prefixed(f, addr, bytes, n, g),
         NEW h, IsOver(g, addr + n, <<bytes[n + 1]>>, h)
  PROVE  Prefixed(f, addr, bytes, n + 1, h)
<1> DEFINE one == <<bytes[n + 1]>>
<1>1. Len(one) = 1 /\ one[1] = bytes[n + 1]
  OBVIOUS
<1> HIDE DEF one
<1>2. IsOver(g, addr + n, one, h)
  BY DEF one
<1>3. (addr + n) .. (addr + n) + Len(one) - 1 = {addr + n}
  BY <1>1
<1>4. /\ DOMAIN h = DOMAIN g \cup {addr + n}
      /\ \A x \in {addr + n} : In(h, x) = one[x - (addr + n) + 1]
      /\ \A x : x \notin {addr + n} => In(h, x) = In(g, x)
  <2> USE <1>3
  <2> QED BY <1>2, Zenon DEF IsOver
<1>5. In(h, addr + n) = bytes[n + 1]
  <2>1. (addr + n) - (addr + n) + 1 = 1
    OBVIOUS
  <2> QED BY <1>1, <1>4, <2>1
<1>6. addr .. addr + (n + 1) - 1 = (addr .. addr + n - 1) \cup {addr + n} /\ addr + n \notin addr .. addr + n - 1
  OBVIOUS
<1>7. DOMAIN h = DOMAIN f \cup (addr .. addr + (n + 1) - 1)
  BY <1>4, <1>6, Zenon DEF Prefixed
<1>8. ASSUME NEW x \in addr .. addr + (n + 1) - 1 PROVE In(h, x) = bytes[x - addr + 1]
  <2>1. CASE x = addr + n
    <3>1. x - addr + 1 = n + 1
      BY <2>1
    <3> QED BY <1>5, <2>1, <3>1
  <2>2. CASE x # addr + n
    <3>1. x \in addr .. addr + n - 1
      BY <1>6, <2>2
    <3> QED BY <1>4, <2>2, <3>1, Zenon DEF Prefixed
  <2> QED BY <2>1, <2>2
<1>9. ASSUME NEW x, x \notin addr .. addr + (n + 1) - 1 PROVE In(h, x) = In(f, x)
  BY <1>4, <1>6, <1>9, Zenon DEF Prefixed
<1> QED BY <1>7, <1>8, <1>9, Zenon DEF Prefixed

\* Every byte is within its page.
LEMMA OneFits ==
  ASSUME NEW a \in Nat
  PROVE  Fits(a, 1)
BY AddrIs, SizesAre DEF Fits

LEMMA OneByte ==
  ASSUME NEW x
  PROVE  IsSeq(<<x>>) /\ Len(<<x>>) = 1
<1>1. <<x>> \in Seq({x})
  OBVIOUS
<1> QED BY <1>1 DEF IsSeq

LEMMA WritesKeepFlat ==
  ASSUME NEW m, NEW f, MemFlat(m, f), NEW addr \in Nat, NEW bytes, NEW n \in Nat,
         NEW w, WritesTo(m, addr, bytes, n, w)
  PROVE  FlatWith(w[n], f, addr, bytes, n)
<1> DEFINE Done(j) == j <= n => FlatWith(w[j], f, addr, bytes, j)
           T == {j \in Nat : Done(j)}
<1>1. \A k \in 0 .. n : w[k] = IF k = 0 THEN m ELSE MEM_WRITE(w[k - 1], addr + k - 1, <<bytes[k]>>)
  BY Zenon DEF WritesTo
<1>2. 0 \in T
  <2>1. w[0] = m
    <3>1. 0 \in 0 .. n
      OBVIOUS
    <3> QED BY <1>1, <3>1, Zenon
  <2>2. addr .. addr + 0 - 1 = {}
    OBVIOUS
  <2>3. Prefixed(f, addr, bytes, 0, f)
    <3>1. DOMAIN f = DOMAIN f \cup (addr .. addr + 0 - 1)
      BY <2>2
    <3> QED BY <2>2, <3>1, Zenon DEF Prefixed
  <2>4. FlatWith(w[0], f, addr, bytes, 0)
    BY <2>1, <2>3, Zenon DEF FlatWith
  <2> QED BY <2>4
<1>3. ASSUME NEW j \in T PROVE j + 1 \in T
  <2>1. j \in Nat
    OBVIOUS
  <2>2. ASSUME j + 1 <= n PROVE FlatWith(w[j + 1], f, addr, bytes, j + 1)
    <3>1. PICK g : Prefixed(f, addr, bytes, j, g) /\ MemFlat(w[j], g)
      <4>1. j <= n
        BY <2>1, <2>2
      <4> QED BY <4>1, Zenon DEF FlatWith
    <3>2. WrittenTo(w[j], addr + j, <<bytes[j + 1]>>, w[j + 1])
      <4>1. j + 1 \in 0 .. n /\ j + 1 # 0 /\ (j + 1) - 1 = j /\ addr + (j + 1) - 1 = addr + j
        BY <2>1, <2>2
      <4>2. w[j + 1] = MEM_WRITE(w[(j + 1) - 1], addr + (j + 1) - 1, <<bytes[j + 1]>>)
        BY <1>1, <4>1, Zenon
      <4> HIDE DEF T
      <4> QED BY <4>1, <4>2 DEF WrittenTo
    <3>3. PICK h : Over(g, addr + j, <<bytes[j + 1]>>, h)
      BY DEF Over
    <3>4. addr + j \in Nat /\ IsSeq(<<bytes[j + 1]>>) /\ Len(<<bytes[j + 1]>>) = 1
      BY <2>1, OneByte
    <3> DEFINE one == <<bytes[j + 1]>>
               a == addr + j
    <3> HIDE DEF one, a, T
    <3>5. a \in Nat /\ IsSeq(one) /\ Len(one) = 1 /\ Over(g, a, one, h) /\ WrittenTo(w[j], a, one, w[j + 1])
      BY <3>2, <3>3, <3>4 DEF one, a
    <3>6. Fits(a, Len(one)) /\ Len(one) # 0 /\ Len(one) \in Nat
      BY <3>5, OneFits
    <3>7. MemFlat(w[j + 1], h)
      BY <3>1, <3>5, <3>6, WriteKeepsFlat
    <3>8. IsOver(g, addr + j, <<bytes[j + 1]>>, h)
      <4>1. IsOver(g, a, one, h)
        BY <3>5, <3>6, OverIs
      <4> QED BY <4>1 DEF one, a
    <3>9. Prefixed(f, addr, bytes, j + 1, h)
      BY <2>1, <3>1, <3>8, PrefixGrows
    <3> QED BY <3>7, <3>9, Zenon DEF FlatWith
  <2> QED BY <2>1, <2>2
<1>4. T \in SUBSET Nat
  OBVIOUS
<1> HIDE DEF T
<1>5. T = Nat
  BY <1>2, <1>3, <1>4, SetInduction
<1>6. Done(n)
  BY <1>5 DEF T
<1> QED BY <1>6

\* WriteBytes() does to memory what it does to a flat one.
LEMMA BytesKeepFlat ==
  ASSUME NEW m, NEW f, MemFlat(m, f), NEW addr \in Nat, NEW bytes, Len(bytes) \in Nat,
         NEW q, WroteBytes(m, addr, bytes, q), NEW h, Over(f, addr, bytes, h)
  PROVE  MemFlat(q, h)
<1> DEFINE n == Len(bytes)
<1>1. PICK w : WritesTo(m, addr, bytes, n, w) /\ q = w[n]
  BY WriteBytesIs
<1>2. IsOver(f, addr, bytes, h)
  BY OverIs
<1>3. FlatWith(q, f, addr, bytes, n)
  <2> HIDE DEF n
  <2>1. n \in Nat
    BY DEF n
  <2> QED BY <1>1, <2>1, WritesKeepFlat
<1>4. PICK g : Prefixed(f, addr, bytes, n, g) /\ MemFlat(q, g)
  BY <1>3, Zenon DEF FlatWith
<1>5. SameFlat(g, h)
  <2>1. ASSUME NEW x PROVE In(g, x) = In(h, x)
    <3>1. CASE x \in addr .. addr + n - 1
      BY <1>2, <1>4, <3>1, Zenon DEF IsOver, Prefixed
    <3>2. CASE x \notin addr .. addr + n - 1
      BY <1>2, <1>4, <3>2, Zenon DEF IsOver, Prefixed
    <3> QED BY <3>1, <3>2
  <2>2. DOMAIN g = DOMAIN h
    BY <1>2, <1>4, Zenon DEF IsOver, Prefixed
  <2> QED BY <2>1, <2>2, Zenon DEF SameFlat
<1> QED BY <1>4, <1>5, FlatAsWell

\* The loop of a read up to the n-th byte, and the recursive function it is.
AfterRead(r, one) == [mem |-> one.mem, bytes |-> Append(r.bytes, one.bytes[1])]
ReadsTo(m, addr, n, r) ==
  r = [k \in 0 .. n |-> IF k = 0 THEN [mem |-> m, bytes |-> <<>>]
                        ELSE AfterRead(r[k - 1], MEM_READ(r[k - 1].mem, addr + k - 1, 1))]
LEMMA ReadsExist ==
  ASSUME NEW m, NEW addr, NEW n \in Nat
  PROVE  \E r : ReadsTo(m, addr, n, r)
<1> DEFINE T == {j \in Nat : \E r : ReadsTo(m, addr, j, r)}
           none == [mem |-> m, bytes |-> <<>>]
<1>1. 0 \in T
  <2> DEFINE r == [k \in 0 .. 0 |-> none]
             at(k) == IF k = 0 THEN none ELSE AfterRead(r[k - 1], MEM_READ(r[k - 1].mem, addr + k - 1, 1))
  <2>1. \A k \in 0 .. 0 : at(k) = none
    <3>1. \A k \in 0 .. 0 : k = 0
      OBVIOUS
    <3> QED BY <3>1, Zenon
  <2>2. r = [k \in 0 .. 0 |-> at(k)]
    <3> HIDE DEF at, none
    <3> QED BY <2>1, Zenon
  <2> HIDE DEF r
  <2>3. ReadsTo(m, addr, 0, r)
    BY <2>2, Zenon DEF ReadsTo
  <2> QED BY <2>3
<1>2. ASSUME NEW j \in T PROVE j + 1 \in T
  <2>1. PICK v : ReadsTo(m, addr, j, v)
    OBVIOUS
  <2>2. j \in Nat
    OBVIOUS
  <2> DEFINE e == AfterRead(v[j], MEM_READ(v[j].mem, addr + (j + 1) - 1, 1))
             r == [k \in 0 .. j + 1 |-> IF k = j + 1 THEN e ELSE v[k]]
             at(k) == IF k = 0 THEN none ELSE AfterRead(r[k - 1], MEM_READ(r[k - 1].mem, addr + k - 1, 1))
  <2>3. ASSUME NEW k \in 0 .. j + 1 PROVE r[k] = at(k)
    <3>1. CASE k = j + 1
      <4>1. k # 0 /\ k - 1 = j /\ r[k] = e /\ j \in 0 .. j + 1 /\ j # j + 1
        <5> HIDE DEF e
        <5> QED BY <2>2, <3>1
      <4>2. r[j] = v[j]
        <5> HIDE DEF e
        <5> QED BY <4>1
      <4>3. at(k) = AfterRead(r[j], MEM_READ(r[j].mem, addr + k - 1, 1))
        <5> HIDE DEF r
        <5> QED BY <4>1, Zenon
      <4> HIDE DEF r, at
      <4>4. e = AfterRead(v[j], MEM_READ(v[j].mem, addr + k - 1, 1))
        BY <3>1, Zenon
      <4> HIDE DEF e
      <4> QED BY <4>1, <4>2, <4>3, <4>4, Zenon
    <3>2. CASE k # j + 1
      <4>1. k \in 0 .. j /\ r[k] = v[k]
        <5> HIDE DEF e
        <5> QED BY <2>2, <3>2
      <4>2. v[k] = IF k = 0 THEN none ELSE AfterRead(v[k - 1], MEM_READ(v[k - 1].mem, addr + k - 1, 1))
        BY <2>1, <4>1, Zenon DEF ReadsTo
      <4>3. CASE k = 0
        <5> HIDE DEF r
        <5> QED BY <4>1, <4>2, <4>3, Zenon
      <4>4. CASE k # 0
        <5>1. k - 1 \in 0 .. j + 1 /\ k - 1 # j + 1
          BY <2>2, <4>1, <4>4
        <5>2. r[k - 1] = v[k - 1]
          <6> HIDE DEF e
          <6> QED BY <5>1
        <5> HIDE DEF r, e, none
        <5> QED BY <4>1, <4>2, <4>4, <5>2, Zenon
      <4> QED BY <4>3, <4>4
    <3> QED BY <3>1, <3>2
  <2>4. r = [k \in 0 .. j + 1 |-> r[k]]
    <3> HIDE DEF e
    <3> QED OBVIOUS
  <2> HIDE DEF r
  <2>5. ReadsTo(m, addr, j + 1, r)
    BY <2>3, <2>4, Zenon DEF ReadsTo
  <2> QED BY <2>2, <2>5
<1> HIDE DEF T
<1>3. T \in SUBSET Nat
  BY DEF T
<1>4. T = Nat
  BY <1>1, <1>2, <1>3, SetInduction
<1> QED BY <1>4 DEF T

ReadByBytes(m, addr, n, q) == q = ReadBytes(m, addr, n)
LEMMA ReadBytesIs ==
  ASSUME NEW m, NEW addr, NEW n \in Nat, NEW q, ReadByBytes(m, addr, n, q)
  PROVE  \E r : ReadsTo(m, addr, n, r) /\ q = r[n]
<1> DEFINE at(v, k) == IF k = 0 THEN [mem |-> m, bytes |-> <<>>]
                       ELSE AfterRead(v[k - 1], MEM_READ(v[k - 1].mem, addr + k - 1, 1))
           r == CHOOSE v : v = [k \in 0 .. n |-> at(v, k)]
<1>1. q = r[n]
  BY Zenon DEF ReadByBytes, ReadBytes, AfterRead
<1>2. \E v : v = [k \in 0 .. n |-> at(v, k)]
  <2>1. \E v : ReadsTo(m, addr, n, v)
    BY ReadsExist
  <2> QED BY <2>1, Zenon DEF ReadsTo
<1>3. ReadsTo(m, addr, n, r)
  <2>1. r = [k \in 0 .. n |-> at(r, k)]
    <3> HIDE DEF at
    <3> QED BY <1>2, Zenon
  <2> HIDE DEF r
  <2> QED BY <2>1, Zenon DEF ReadsTo
<1> HIDE DEF r
<1> QED BY <1>1, <1>3

\* What the loop has read so far is what flat memory has.
ReadFlat(r, f, addr, n) ==
  /\ MemFlat(r.mem, f) /\ IsSeq(r.bytes) /\ Len(r.bytes) = n
  /\ \A i \in 1 .. n : r.bytes[i] = In(f, addr + i - 1)
LEMMA ReadsAreFlat ==
  ASSUME NEW m, NEW f, MemFlat(m, f), NEW addr \in Nat, NEW n \in Nat, NEW r, ReadsTo(m, addr, n, r)
  PROVE  ReadFlat(r[n], f, addr, n)
<1> DEFINE Done(j) == j <= n => ReadFlat(r[j], f, addr, j)
           T == {j \in Nat : Done(j)}
<1>1. \A k \in 0 .. n : r[k] = IF k = 0 THEN [mem |-> m, bytes |-> <<>>]
                               ELSE AfterRead(r[k - 1], MEM_READ(r[k - 1].mem, addr + k - 1, 1))
  BY Zenon DEF ReadsTo
<1>2. 0 \in T
  <2>1. r[0] = [mem |-> m, bytes |-> <<>>]
    <3>1. 0 \in 0 .. n
      OBVIOUS
    <3> QED BY <1>1, <3>1, Zenon
  <2>2. r[0].mem = m /\ r[0].bytes = <<>>
    BY <2>1
  <2>3. \A i \in 1 .. 0 : r[0].bytes[i] = In(f, addr + i - 1)
    <3>1. 1 .. 0 = {}
      OBVIOUS
    <3> QED BY <3>1, Zenon
  <2>4. ReadFlat(r[0], f, addr, 0)
    BY <2>2, <2>3, NilIs, Zenon DEF ReadFlat
  <2> QED BY <2>4
<1>3. ASSUME NEW j \in T PROVE j + 1 \in T
  <2>1. j \in Nat
    OBVIOUS
  <2>2. ASSUME j + 1 <= n PROVE ReadFlat(r[j + 1], f, addr, j + 1)
    <3>1. ReadFlat(r[j], f, addr, j)
      <4>1. j <= n
        BY <2>1, <2>2
      <4> QED BY <4>1
    <3> HIDE DEF T
    <3>2. PICK v : v = r[j]
      OBVIOUS
    <3>3. PICK one : ReadIn(v.mem, addr + j, 1, one)
      BY DEF ReadIn
    <3>4. r[j + 1] = AfterRead(v, one)
      <4>1. j + 1 \in 0 .. n /\ j + 1 # 0 /\ (j + 1) - 1 = j /\ addr + (j + 1) - 1 = addr + j
        BY <2>1, <2>2
      <4>2. r[j + 1] = AfterRead(r[(j + 1) - 1], MEM_READ(r[(j + 1) - 1].mem, addr + (j + 1) - 1, 1))
        BY <1>1, <4>1, Zenon
      <4> QED BY <3>2, <3>3, <4>1, <4>2, Zenon DEF ReadIn
    <3>5. MemFlat(v.mem, f) /\ IsSeq(v.bytes) /\ Len(v.bytes) = j
          /\ \A i \in 1 .. j : v.bytes[i] = In(f, addr + i - 1)
      BY <3>1, <3>2, Zenon DEF ReadFlat
    <3>6. MemFlat(one.mem, f) /\ one.bytes[1] = In(f, addr + j)
      <4>1. addr + j \in Nat /\ Fits(addr + j, 1)
        BY <2>1, OneFits
      <4>2. MemHas(v.mem, f, Touched(f)) /\ Touched(f) \subseteq Touched(f)
        BY <3>5, Zenon DEF MemFlat
      <4>3. MemHas(one.mem, f, Touched(f)) /\ one.bytes = BytesAt(f, addr + j, 1)
        BY <3>3, <4>1, <4>2, MemReadIs
      <4>4. one.bytes[1] = In(f, (addr + j) + 1 - 1) /\ (addr + j) + 1 - 1 = addr + j
        BY <2>1, <4>3 DEF BytesAt
      <4> QED BY <3>5, <4>3, <4>4, Zenon DEF MemFlat
    <3>7. r[j + 1].mem = one.mem /\ Grows(v.bytes, one.bytes[1], r[j + 1].bytes)
      BY <3>4, <3>5 DEF AfterRead, Grows
    <3>8. Grown(v.bytes, one.bytes[1], r[j + 1].bytes)
      BY <3>7, AppendIs
    <3>9. PICK t : t = r[j + 1].bytes
      OBVIOUS
    <3>10. /\ IsSeq(t) /\ Len(t) = j + 1 /\ t[j + 1] = In(f, addr + j)
           /\ \A k \in 1 .. j : t[k] = In(f, addr + k - 1)
      BY <3>5, <3>6, <3>8, <3>9 DEF Grown
    <3>11. ASSUME NEW i \in 1 .. j + 1 PROVE t[i] = In(f, addr + i - 1)
      <4>1. CASE i = j + 1
        <5>1. addr + i - 1 = addr + j
          BY <2>1, <4>1
        <5> QED BY <3>10, <4>1, <5>1
      <4>2. CASE i # j + 1
        <5>1. i \in 1 .. j
          BY <2>1, <4>2
        <5> QED BY <3>10, <5>1
      <4> QED BY <4>1, <4>2
    <3> QED BY <3>6, <3>7, <3>9, <3>10, <3>11, Zenon DEF ReadFlat
  <2> QED BY <2>1, <2>2
<1>4. T \in SUBSET Nat
  OBVIOUS
<1> HIDE DEF T
<1>5. T = Nat
  BY <1>2, <1>3, <1>4, SetInduction
<1>6. Done(n)
  BY <1>5 DEF T
<1> QED BY <1>6

\* A sequence is the function it is.
LEMMA SeqFunction ==
  ASSUME NEW s, IsSeq(s)
  PROVE  s = [i \in 1 .. Len(s) |-> s[i]]
<1>1. PICK S : s \in Seq(S)
  BY DEF IsSeq
<1> QED BY <1>1, LenProperties

LEMMA BytesRead ==
  ASSUME NEW m, NEW f, MemFlat(m, f), NEW addr \in Nat, NEW n \in Nat, NEW q, ReadByBytes(m, addr, n, q)
  PROVE  MemFlat(q.mem, f) /\ q.bytes = BytesAt(f, addr, n)
<1>1. PICK r : ReadsTo(m, addr, n, r) /\ q = r[n]
  BY ReadBytesIs
<1>2. ReadFlat(q, f, addr, n)
  BY <1>1, ReadsAreFlat
<1>3. PICK t : t = q.bytes
  OBVIOUS
<1>4. IsSeq(t) /\ Len(t) = n /\ \A i \in 1 .. n : t[i] = In(f, addr + i - 1)
  BY <1>2, <1>3, Zenon DEF ReadFlat
<1>5. t = [i \in 1 .. n |-> t[i]]
  BY <1>4, SeqFunction
<1>6. t = BytesAt(f, addr, n)
  BY <1>4, <1>5, Zenon DEF BytesAt
<1> QED BY <1>2, <1>3, <1>6, Zenon DEF ReadFlat

\* What mem_access() does, when it does not refuse.
AccessIn(m, cmd, addr, bytes, q) == q = mem_access(m, cmd, addr, bytes)
LEMMA AccessIsFlat ==
  ASSUME NEW m, NEW f, MemFlat(m, f), NEW addr \in Nat, NEW bytes, IsSeq(bytes),
         NEW cmd, NEW q, AccessIn(m, cmd, addr, bytes, q), ~Refused(addr, Len(bytes)),
         NEW h, Over(f, addr, bytes, h)
  PROVE  IF cmd = "Read" THEN MemFlat(q.mem, f) /\ q.bytes = BytesAt(f, addr, Len(bytes))
         ELSE MemFlat(q.mem, h)
<1>1. Len(bytes) \in Nat
  BY SeqIs
<1>2. PICK read : ReadByBytes(m, addr, Len(bytes), read)
  BY DEF ReadByBytes
<1>3. PICK wrote : WroteBytes(m, addr, bytes, wrote)
  BY DEF WroteBytes
<1>4. q = [mem |-> IF cmd = "Read" THEN read.mem ELSE wrote,
           bytes |-> IF cmd = "Read" THEN read.bytes ELSE bytes, fault |-> FALSE]
  BY <1>2, <1>3, Zenon DEF AccessIn, mem_access, ReadByBytes, WroteBytes
<1>5. MemFlat(read.mem, f) /\ read.bytes = BytesAt(f, addr, Len(bytes))
  BY <1>1, <1>2, BytesRead
<1>6. MemFlat(wrote, h)
  BY <1>1, <1>3, BytesKeepFlat
<1>7. q.mem = (IF cmd = "Read" THEN read.mem ELSE wrote) /\ q.bytes = (IF cmd = "Read" THEN read.bytes ELSE bytes)
  BY <1>4
<1> QED BY <1>5, <1>6, <1>7, Zenon

-----------------------------------------------------------------------------
(* The loader.                                                             *)

\* The pointers of the stack are aligned.
LEMMA SumDivides ==
  ASSUME NEW P \in Nat \ {0}, NEW x \in Nat, x % P = 0, NEW y \in Nat
  PROVE  x + y * P \in Nat /\ (x + y * P) % P = 0
<1>1. PICK q \in Nat : x = q * P
  <2>1. x \div P \in Nat /\ x = (x \div P) * P + (x % P)
    BY DivMod
  <2>2. x = (x \div P) * P
    <3>1. (x \div P) * P \in Nat
      BY <2>1, SMTT(30)
    <3> DEFINE z == (x \div P) * P
    <3> HIDE DEF z
    <3>2. z \in Nat /\ x = z + (x % P)
      BY <2>1, <3>1 DEF z
    <3>3. x = z
      BY <3>2
    <3> QED BY <3>3 DEF z
  <2> QED BY <2>1, <2>2
<1>2. q + y \in Nat /\ x + y * P = (q + y) * P
  BY <1>1, SMTT(30)
<1> DEFINE n == q + y
           z == n * P
<1> HIDE DEF n
<1>3. n \in Nat /\ z \in Nat
  <2>1. n \in Nat
    BY <1>2 DEF n
  <2> QED BY <2>1, SMTT(30)
<1>4. z \div P = n
  <2>1. 0 \in 0 .. P - 1
    OBVIOUS
  <2>2. (n * P + 0) \div P = n
    BY <1>3, <2>1, DivUnique
  <2> HIDE DEF z
  <2>3. n * P + 0 = z
    BY <1>3 DEF z
  <2> QED BY <2>2, <2>3
<1>5. z = (z \div P) * P + (z % P) /\ z % P \in 0 .. P - 1
  BY <1>3, DivMod
<1>6. z % P = 0
  <2>1. z = z + (z % P)
    BY <1>4, <1>5
  <2> HIDE DEF z
  <2> DEFINE r == z % P
  <2>2. z = z + r /\ r \in 0 .. P - 1
    BY <1>5, <2>1
  <2> HIDE DEF r
  <2>3. r = 0
    BY <1>3, <2>2
  <2> QED BY <2>3 DEF r
<1>7. x + y * P = z
  BY <1>2 DEF n
<1> QED BY <1>3, <1>6, <1>7

LEMMA EnvironIs ==
  /\ PtrSize \in Nat \ {0} /\ PtrSize \in Powers
  /\ Environ \in Nat /\ Environ % PtrSize = 0
<1>1. PtrSize \in Powers /\ ld_stack_base - MD_MAX_ENVIRON \in Nat
      /\ (ld_stack_base - MD_MAX_ENVIRON) % PtrSize = 0
  BY LoaderAssumption
<1>2. PtrSize \in Nat \ {0}
  BY <1>1 DEF Powers
<1> QED BY <1>1, <1>2 DEF Environ

LEMMA SlotIs ==
  ASSUME NEW k \in Nat \ {0}
  PROVE  Slot(k) \in Nat /\ Slot(k) % PtrSize = 0
<1>1. PtrSize \in Nat \ {0} /\ Environ \in Nat /\ Environ % PtrSize = 0
  BY EnvironIs
<1>2. Environ + k * PtrSize \in Nat /\ (Environ + k * PtrSize) % PtrSize = 0
  BY <1>1, SumDivides
<1>3. Slot(k) = Environ + k * PtrSize
  <2>1. PtrSize + (k - 1) * PtrSize = k * PtrSize /\ k * PtrSize \in Nat /\ (k - 1) * PtrSize \in Nat
    BY <1>1, SMTT(30)
  <2> DEFINE a == (k - 1) * PtrSize
             b == k * PtrSize
  <2>2. a \in Nat /\ b \in Nat /\ PtrSize + a = b
    BY <2>1
  <2>3. Slot(k) = (Environ + PtrSize) + a
    BY DEF Slot, argv_addr
  <2> HIDE DEF a, b
  <2>4. Slot(k) = Environ + b
    BY <1>1, <2>2, <2>3
  <2> QED BY <2>4 DEF b
<1> QED BY <1>2, <1>3

LEMMA PointerIs ==
  ASSUME NEW p
  PROVE  IsSeq(Pointer(p)) /\ Len(Pointer(p)) = PtrSize
<1> DEFINE e(k) == (p \div ByteBase ^ (k - 1)) % ByteBase
           S == {e(k) : k \in 1 .. PtrSize}
<1>1. Pointer(p) = [k \in 1 .. PtrSize |-> e(k)]
  BY DEF Pointer
<1> HIDE DEF e
<1>2. Pointer(p) \in [1 .. PtrSize -> S]
  BY <1>1
<1> HIDE DEF S
<1>3. Pointer(p) \in Seq(S) /\ DOMAIN Pointer(p) = 1 .. PtrSize
  BY <1>2, EnvironIs
<1>4. Len(Pointer(p)) = PtrSize
  BY <1>3, EnvironIs, LenProperties
<1> QED BY <1>3, <1>4 DEF IsSeq

\* A pointer that is aligned is written.
PutIn(m, a, p, q) == q = PutPointer(m, a, p)
LEMMA PutIsFlat ==
  ASSUME NEW m, NEW f, MemFlat(m, f), NEW a \in Nat, a % PtrSize = 0, NEW p,
         NEW q, PutIn(m, a, p, q), NEW h, Over(f, a, Pointer(p), h)
  PROVE  MemFlat(q, h)
<1>1. PICK done : AccessIn(m, "Write", a, Pointer(p), done)
  BY DEF AccessIn
<1>2. q = done.mem
  BY <1>1, Zenon DEF PutIn, PutPointer, AccessIn
<1> DEFINE b == Pointer(p)
<1> HIDE DEF b
<1>3. IsSeq(b) /\ Len(b) = PtrSize
  BY PointerIs DEF b
<1>4. ~Refused(a, Len(b))
  BY <1>3, EnvironIs, Zenon DEF Refused
<1>5. AccessIn(m, "Write", a, b, done) /\ Over(f, a, b, h)
  BY <1>1 DEF b
<1>6. IF "Write" = "Read" THEN MemFlat(done.mem, f) /\ done.bytes = BytesAt(f, a, Len(b))
      ELSE MemFlat(done.mem, h)
  BY <1>3, <1>4, <1>5, AccessIsFlat
<1>7. "Write" # "Read"
  OBVIOUS
<1> QED BY <1>2, <1>6, <1>7, Zenon

LEMMA CopyIsFlat ==
  ASSUME NEW m, NEW f, MemFlat(m, f), NEW a \in Nat, NEW bytes \in Seq(Nat),
         NEW q, WroteBytes(m, a, bytes, q), NEW h, Over(f, a, bytes, h)
  PROVE  MemFlat(q, h)
<1>1. Len(bytes) \in Nat
  BY LenProperties
<1> QED BY <1>1, BytesKeepFlat

\* The history of the loader's writes is a flat memory, and memory has it.
LoaderInv ==
  /\ file \in Executables /\ item \in Nat /\ sp \in Nat
  /\ MemFlat(image, flat)
  /\ got.bytes = got.due

LEMMA EmptyIsFlat == MemFlat(mem_init, <<>>)
<1>1. DOMAIN <<>> = {} /\ Touched(<<>>) = {}
  BY NilIs DEF Touched
<1>2. PICK f : f = <<>>
  OBVIOUS
<1>3. Touched(f) = {} /\ DOMAIN f \subseteq Nat
  BY <1>1, <1>2
<1>4. \A s : BucketOK(<<>>, s, f, {})
  <2>1. 1 .. 0 = {}
    OBVIOUS
  <2> QED BY <2>1, NilIs, Zenon DEF BucketOK
<1>5. /\ mem_init.ptab = [s \in 0 .. MEM_PTAB_SIZE - 1 |-> <<>>]
      /\ mem_init.page_count = 0 /\ mem_init.ptab_misses = 0 /\ mem_init.ptab_accesses = 0
      /\ MemRecord(mem_init)
  BY DEF mem_init, MemRecord
<1>6. TableOK(mem_init.ptab, f, {})
  <2>1. PICK t : t = mem_init.ptab
    OBVIOUS
  <2>2. t = [s \in 0 .. MEM_PTAB_SIZE - 1 |-> <<>>]
    BY <1>5, <2>1
  <2>3. \A s \in 0 .. MEM_PTAB_SIZE - 1 : t[s] = <<>>
    BY <2>2, Zenon
  <2>4. t = [s \in 0 .. MEM_PTAB_SIZE - 1 |-> t[s]]
    BY <2>2, Zenon
  <2>5. TableOK(t, f, {})
    BY <1>4, <2>3, <2>4, Zenon DEF TableOK
  <2> QED BY <2>1, <2>5
<1>7. IsFiniteSet({}) /\ Cardinality({}) = 0
  BY FS_EmptySet
<1>8. MemCounts(mem_init, {})
  BY <1>5, <1>7 DEF MemCounts
<1>9. MemHas(mem_init, f, {})
  BY <1>5, <1>6, <1>7, <1>8 DEF MemHas
<1> QED BY <1>2, <1>3, <1>9, Zenon DEF MemFlat

LEMMA LoaderStarts == LoaderInit => LoaderInv
<1> SUFFICES ASSUME LoaderInit PROVE LoaderInv
  OBVIOUS
<1>1. file \in Executables /\ item = 1 /\ sp = 0 /\ image = mem_init /\ flat = <<>>
      /\ got.bytes = got.due
  BY DEF LoaderInit
<1>2. MemFlat(image, flat)
  BY <1>1, EmptyIsFlat, Zenon
<1> QED BY <1>1, <1>2 DEF LoaderInv

\* A copy keeps memory flat.
LEMMA CopyKeeps ==
  ASSUME LoaderInv, NEW a \in Nat, NEW bytes \in Seq(Nat),
         image' = mem_bcopy(image, a, bytes), flat' = Overlaid(flat, a, bytes)
  PROVE  MemFlat(image', flat')
<1>1. MemFlat(image, flat)
  BY DEF LoaderInv
<1>2. PICK q : WroteBytes(image, a, bytes, q) /\ q = image'
  BY Zenon DEF WroteBytes, mem_bcopy
<1>3. PICK h : Over(flat, a, bytes, h) /\ h = flat'
  BY Zenon DEF Over
<1> QED BY <1>1, <1>2, <1>3, CopyIsFlat

LEMMA SegmentKeeps ==
  ASSUME LoaderInv, LoadSegment
  PROVE  LoaderInv'
<1> DEFINE s == file.segments[item]
<1>1. file \in Executables /\ item \in Nat /\ sp \in Nat /\ MemFlat(image, flat) /\ got.bytes = got.due
  BY DEF LoaderInv
<1>2. file' = file /\ sp' = sp /\ got' = got /\ item' = item + 1 /\ item \in DOMAIN file.segments
  BY DEF LoadSegment
<1>3. s.addr \in Nat /\ s.bytes \in Seq(Nat)
  BY <1>1, <1>2, LoaderAssumption
<1>4. MemFlat(image', flat')
  <2>1. \/ image' = image /\ flat' = flat
        \/ image' = mem_bcopy(image, s.addr, s.bytes) /\ flat' = Overlaid(flat, s.addr, s.bytes)
    BY Zenon DEF LoadSegment
  <2>2. CASE image' = image /\ flat' = flat
    BY <1>1, <2>2
  <2>3. CASE image' = mem_bcopy(image, s.addr, s.bytes) /\ flat' = Overlaid(flat, s.addr, s.bytes)
    <3> HIDE DEF s
    <3> QED BY <1>3, <2>3, CopyKeeps
  <2> QED BY <2>1, <2>2, <2>3
<1> QED BY <1>1, <1>2, <1>4 DEF LoaderInv

LEMMA SectionKeeps ==
  ASSUME LoaderInv, LoadSection
  PROVE  LoaderInv'
<1> DEFINE s == file.sections[item]
           kept == Counted(s) /\ s.alloc /\ s.type # "NOBITS"
<1>1. file \in Executables /\ item \in Nat /\ sp \in Nat /\ MemFlat(image, flat) /\ got.bytes = got.due
  BY DEF LoaderInv
<1>2. file' = file /\ sp' = sp /\ got' = got /\ item' = item + 1 /\ item \in DOMAIN file.sections
  BY DEF LoadSection
<1>3. s.addr \in Nat /\ s.bytes \in Seq(Nat)
  BY <1>1, <1>2, LoaderAssumption
<1>4. MemFlat(image', flat')
  <2>1. /\ image' = IF kept THEN mem_bcopy(image, s.addr, s.bytes) ELSE image
        /\ flat' = IF kept THEN Overlaid(flat, s.addr, s.bytes) ELSE flat
    BY Zenon DEF LoadSection
  <2>2. CASE ~kept
    BY <1>1, <2>1, <2>2, Zenon
  <2>3. CASE kept
    <3>1. image' = mem_bcopy(image, s.addr, s.bytes) /\ flat' = Overlaid(flat, s.addr, s.bytes)
      BY <2>1, <2>3, Zenon
    <3> HIDE DEF s, kept
    <3> QED BY <1>3, <3>1, CopyKeeps
  <2> QED BY <2>2, <2>3
<1> QED BY <1>1, <1>2, <1>4 DEF LoaderInv

\* Writing a pointer keeps memory flat.
LEMMA PutKeeps ==
  ASSUME LoaderInv, NEW a \in Nat, a % PtrSize = 0, NEW p, NEW q, PutIn(image, a, p, q),
         NEW h, Over(flat, a, Pointer(p), h)
  PROVE  MemFlat(q, h)
<1>1. MemFlat(image, flat)
  BY DEF LoaderInv
<1> QED BY <1>1, PutIsFlat

LEMMA ArgcKeeps ==
  ASSUME LoaderInv, PushArgc
  PROVE  LoaderInv'
<1>1. file \in Executables /\ item \in Nat /\ sp \in Nat /\ got.bytes = got.due
  BY DEF LoaderInv
<1>2. file' = file /\ got' = got /\ item' = 1 /\ sp' = envp_addr + (Len(file.envp) + 1) * PtrSize
  BY DEF PushArgc
<1>3. Len(file.argv) \in Nat /\ Len(file.envp) \in Nat
  <2>1. file.argv \in Seq(Seq(Nat)) /\ file.envp \in Seq(Seq(Nat))
    BY <1>1, LoaderAssumption
  <2> QED BY <2>1, LenProperties
<1>4. sp' \in Nat
  <2>1. (Len(file.argv) + 1) * PtrSize \in Nat /\ (Len(file.envp) + 1) * PtrSize \in Nat
    BY <1>3, EnvironIs, SMTT(30)
  <2>2. Environ \in Nat /\ PtrSize \in Nat
    BY EnvironIs
  <2> DEFINE b == (Len(file.argv) + 1) * PtrSize
             c == (Len(file.envp) + 1) * PtrSize
  <2>3. sp' = ((Environ + PtrSize) + b) + c
    BY <1>2 DEF envp_addr, argv_addr
  <2> HIDE DEF b, c
  <2>4. b \in Nat /\ c \in Nat
    BY <2>1 DEF b, c
  <2> QED BY <2>2, <2>3, <2>4
<1>5. MemFlat(image', flat')
  <2>1. PICK n : n = Len(file.argv)
    OBVIOUS
  <2>2. PICK q : PutIn(image, Environ, n, q) /\ q = image'
    BY <2>1, Zenon DEF PushArgc, PutIn
  <2>3. PICK h : Over(flat, Environ, Pointer(n), h) /\ h = flat'
    BY <2>1, Zenon DEF PushArgc, Over
  <2>4. Environ \in Nat /\ Environ % PtrSize = 0
    BY EnvironIs
  <2> QED BY <2>2, <2>3, <2>4, PutKeeps
<1> QED BY <1>1, <1>2, <1>4, <1>5 DEF LoaderInv

LEMMA StringKeeps ==
  ASSUME LoaderInv, PushString
  PROVE  LoaderInv'
<1>1. file \in Executables /\ item \in Nat /\ sp \in Nat /\ got.bytes = got.due
  BY DEF LoaderInv
<1>2. file' = file /\ got' = got /\ item' = item + 1 /\ sp' = sp + Len(StringOf(item)) + 1
      /\ item \in 1 .. Pointers /\ ~Null(item)
  BY DEF PushString
<1>3. StringOf(item) \in Seq(Nat)
  <2>1. file.argv \in Seq(Seq(Nat)) /\ file.envp \in Seq(Seq(Nat))
    BY <1>1, LoaderAssumption
  <2> DEFINE n == Len(file.argv)
             m == Len(file.envp)
  <2>2. n \in Nat /\ m \in Nat
    BY <2>1, LenProperties
  <2> HIDE DEF n, m
  <2>3. item \in 1 .. n + m + 2 /\ item # n + 1 /\ item # n + m + 2
    BY <1>2 DEF n, m, Pointers, Null
  <2>4. CASE item <= n
    <3>1. item \in 1 .. n
      BY <2>2, <2>3, <2>4
    <3>2. file.argv[item] \in Seq(Nat)
      BY <2>1, <3>1, ElementOfSeq DEF n
    <3> QED BY <2>4, <3>2 DEF StringOf, n
  <2>5. CASE ~(item <= n)
    <3> DEFINE i == item - n - 1
    <3>1. i \in 1 .. m
      BY <2>2, <2>3, <2>5
    <3> HIDE DEF i
    <3>2. file.envp[i] \in Seq(Nat)
      BY <2>1, <3>1, ElementOfSeq DEF m
    <3>3. StringOf(item) = file.envp[i]
      BY <2>5 DEF StringOf, n, i
    <3> QED BY <3>2, <3>3
  <2> QED BY <2>4, <2>5
<1>4. sp' \in Nat
  <2>1. Len(StringOf(item)) \in Nat
    BY <1>3, LenProperties
  <2> QED BY <1>1, <1>2, <2>1
<1>5. PICK q : PutIn(image, Slot(item), sp, q)
  BY DEF PutIn
<1>6. PICK h : Over(flat, Slot(item), Pointer(sp), h)
  BY DEF Over
<1>7. MemFlat(q, h)
  <2>1. item \in Nat \ {0}
    BY <1>1, <1>2
  <2>2. Slot(item) \in Nat /\ Slot(item) % PtrSize = 0
    BY <2>1, SlotIs
  <2> QED BY <1>5, <1>6, <2>2, PutKeeps
<1>8. MemFlat(image', flat')
  <2>1. PICK s : s = Append(StringOf(item), 0)
    OBVIOUS
  <2>2. s \in Seq(Nat)
    BY <1>3, <2>1, AppendProperties
  <2>3. PICK r : WroteBytes(q, sp, s, r) /\ r = image'
    BY <1>5, <2>1, Zenon DEF PushString, PutIn, WroteBytes, mem_strcpy
  <2>4. PICK g : Over(h, sp, s, g) /\ g = flat'
    BY <1>6, <2>1, Zenon DEF PushString, Over
  <2> QED BY <1>1, <1>7, <2>2, <2>3, <2>4, CopyIsFlat
<1> QED BY <1>1, <1>2, <1>4, <1>8 DEF LoaderInv

LEMMA NullKeeps ==
  ASSUME LoaderInv, PushNull
  PROVE  LoaderInv'
<1>1. file \in Executables /\ item \in Nat /\ sp \in Nat /\ got.bytes = got.due
  BY DEF LoaderInv
<1>2. file' = file /\ sp' = sp /\ got' = got /\ item' = item + 1 /\ item \in 1 .. Pointers
  BY DEF PushNull
<1>3. MemFlat(image', flat')
  <2>1. PICK q : PutIn(image, Slot(item), 0, q) /\ q = image'
    BY Zenon DEF PushNull, PutIn
  <2>2. PICK h : Over(flat, Slot(item), Pointer(0), h) /\ h = flat'
    BY Zenon DEF PushNull, Over
  <2>3. item \in Nat \ {0}
    BY <1>1, <1>2
  <2>4. Slot(item) \in Nat /\ Slot(item) % PtrSize = 0
    BY <2>3, SlotIs
  <2> QED BY <2>1, <2>2, <2>4, PutKeeps
<1> QED BY <1>1, <1>2, <1>3 DEF LoaderInv

LEMMA ProgramKeeps ==
  ASSUME LoaderInv, NEW a \in Accesses, ProgramAccess(a)
  PROVE  LoaderInv'
<1>1. file \in Executables /\ item \in Nat /\ sp \in Nat /\ MemFlat(image, flat) /\ got.bytes = got.due
  BY DEF LoaderInv
<1>2. file' = file /\ sp' = sp /\ item' = item + 1
  BY DEF ProgramAccess
<1>3. PICK bytes : bytes = a.bytes
  OBVIOUS
<1>4. PICK addr : addr = a.addr
  OBVIOUS
<1>5. a.cmd \in {"Read", "Write"} /\ addr \in Nat /\ bytes \in Seq(Nat) /\ bytes # <<>>
  BY <1>3, <1>4, LoaderAssumption
<1>6. IsSeq(bytes) /\ Len(bytes) \in Nat \ {0} /\ DOMAIN bytes = 1 .. Len(bytes)
  <2>1. IsSeq(bytes)
    BY <1>5 DEF IsSeq
  <2> QED BY <1>5, <2>1, SeqIs
<1>7. PICK read : ReadIn(image, addr, Len(bytes), read)
  BY DEF ReadIn
<1>8. PICK done : AccessIn(image, a.cmd, addr, bytes, done)
  BY DEF AccessIn
<1>9. PICK wrote : WrittenTo(image, addr, bytes, wrote)
  BY DEF WrittenTo
<1>10. PICK h : Over(flat, addr, bytes, h)
  BY DEF Over
<1>11. CASE image' = image /\ flat' = flat /\ got' = got
  BY <1>1, <1>2, <1>11 DEF LoaderInv
<1>12. CASE ~(image' = image /\ flat' = flat /\ got' = got)
  <2>1. /\ ~(a.macro /\ Crosses(a)) /\ (~a.macro => ~done.fault)
        /\ image' = IF ~a.macro THEN done.mem ELSE IF a.cmd = "Read" THEN read.mem ELSE wrote
        /\ flat' = IF a.cmd = "Read" THEN flat ELSE h
        /\ got' = IF a.cmd = "Write" THEN got
                  ELSE [bytes |-> IF a.macro THEN read.bytes ELSE done.bytes,
                        due |-> [i \in DOMAIN bytes |-> Flat(addr + i - 1)]]
    <3>1. loading = "loaded" /\ "outside" # "loaded" /\ "fault" # "loaded"
      BY DEF ProgramAccess
    <3>2. loading' = loading
      BY <1>12, Zenon DEF ProgramAccess
    <3>3. loading' = IF a.macro /\ Crosses(a) THEN "outside"
                     ELSE IF ~a.macro /\ done.fault THEN "fault" ELSE loading
      BY <1>3, <1>4, <1>8, Zenon DEF ProgramAccess, AccessIn
    <3>4. ~(a.macro /\ Crosses(a)) /\ (~a.macro => ~done.fault)
      BY <3>1, <3>2, <3>3, Zenon
    <3>5. image' = IF ~a.macro THEN done.mem ELSE IF a.cmd = "Read" THEN read.mem ELSE wrote
      BY <1>3, <1>4, <1>7, <1>8, <1>9, <3>2, Zenon DEF ProgramAccess, AccessIn, ReadIn, WrittenTo
    <3>6. flat' = IF a.cmd = "Read" THEN flat ELSE h
      BY <1>3, <1>4, <1>10, <3>2, Zenon DEF ProgramAccess, Over
    <3>7. got' = IF a.cmd = "Write" THEN got
                 ELSE [bytes |-> IF a.macro THEN read.bytes ELSE done.bytes,
                       due |-> [i \in DOMAIN bytes |-> Flat(addr + i - 1)]]
      BY <1>3, <1>4, <1>7, <1>8, <3>2, Zenon DEF ProgramAccess, AccessIn, ReadIn
    <3> QED BY <3>4, <3>5, <3>6, <3>7, Zenon
  <2>2. [i \in DOMAIN bytes |-> Flat(addr + i - 1)] = BytesAt(flat, addr, Len(bytes))
    BY <1>6, Zenon DEF BytesAt, Flat, In
  <2>3. CASE a.macro
    <3>1. Fits(addr, Len(bytes))
      <4>1. ~(MEM_OFFSET(addr) + Len(bytes) > MD_PAGE_SIZE)
        BY <1>3, <1>4, <2>1, <2>3, Zenon DEF Crosses
      <4>2. MEM_OFFSET(addr) \in 0 .. MD_PAGE_SIZE - 1
        BY <1>5, AddrIs
      <4> QED BY <1>6, <4>1, <4>2, SizesAre DEF Fits
    <3>2. MemHas(image, flat, Touched(flat)) /\ Touched(flat) \subseteq Touched(flat)
      BY <1>1, Zenon DEF MemFlat
    <3>3. MemHas(read.mem, flat, Touched(flat)) /\ read.bytes = BytesAt(flat, addr, Len(bytes))
      BY <1>5, <1>7, <3>1, <3>2, MemReadIs
    <3>4. MemFlat(read.mem, flat)
      BY <1>1, <3>3, Zenon DEF MemFlat
    <3>5. MemFlat(wrote, h)
      BY <1>1, <1>5, <1>6, <1>9, <1>10, <3>1, WriteKeepsFlat
    <3>6. MemFlat(image', flat')
      BY <1>5, <2>1, <2>3, <3>4, <3>5, Zenon
    <3>7. got'.bytes = got'.due
      <4>1. CASE a.cmd = "Write"
        BY <1>1, <2>1, <4>1, Zenon
      <4>2. CASE a.cmd # "Write"
        <5>1. got' = [bytes |-> read.bytes, due |-> BytesAt(flat, addr, Len(bytes))]
          BY <2>1, <2>2, <2>3, <4>2, Zenon
        <5> QED BY <3>3, <5>1
      <4> QED BY <4>1, <4>2
    <3> QED BY <1>1, <1>2, <3>6, <3>7 DEF LoaderInv
  <2>4. CASE ~a.macro
    <3>1. ~Refused(addr, Len(bytes))
      <4> SUFFICES ASSUME Refused(addr, Len(bytes)) PROVE FALSE
        OBVIOUS
      <4>1. done = [mem |-> image, bytes |-> bytes, fault |-> TRUE]
        BY <1>8, Zenon DEF AccessIn, mem_access
      <4> QED BY <2>1, <2>4, <4>1
    <3>2. IF a.cmd = "Read" THEN MemFlat(done.mem, flat) /\ done.bytes = BytesAt(flat, addr, Len(bytes))
          ELSE MemFlat(done.mem, h)
      BY <1>1, <1>5, <1>6, <1>8, <1>10, <3>1, AccessIsFlat
    <3>3. MemFlat(image', flat')
      BY <2>1, <2>4, <3>2, Zenon
    <3>4. got'.bytes = got'.due
      <4>1. CASE a.cmd = "Write"
        BY <1>1, <2>1, <4>1, Zenon
      <4>2. CASE a.cmd # "Write"
        <5>1. a.cmd = "Read"
          BY <1>5, <4>2
        <5>2. got' = [bytes |-> done.bytes, due |-> BytesAt(flat, addr, Len(bytes))]
          BY <2>1, <2>2, <2>4, <4>2, Zenon
        <5> QED BY <3>2, <5>1, <5>2
      <4> QED BY <4>1, <4>2
    <3> QED BY <1>1, <1>2, <3>3, <3>4 DEF LoaderInv
  <2> QED BY <2>3, <2>4
<1> QED BY <1>11, <1>12

LEMMA LoaderSteps == LoaderInv /\ [LoaderNext]_loaderVars => LoaderInv'
<1> SUFFICES ASSUME LoaderInv, [LoaderNext]_loaderVars PROVE LoaderInv'
  OBVIOUS
<1>0. file \in Executables /\ item \in Nat /\ sp \in Nat /\ MemFlat(image, flat) /\ got.bytes = got.due
  BY DEF LoaderInv
<1>1. CASE LoadSegment
  BY <1>1, SegmentKeeps
<1>2. CASE SegmentsEnd
  <2>1. file' = file /\ sp' = sp /\ got' = got /\ image' = image /\ flat' = flat /\ item' = 1
    BY <1>2 DEF SegmentsEnd
  <2> QED BY <1>0, <2>1 DEF LoaderInv
<1>3. CASE LoadSection
  BY <1>3, SectionKeeps
<1>4. CASE CheckImage
  <2>1. file' = file /\ sp' = sp /\ got' = got /\ image' = image /\ flat' = flat /\ item' = 0
    BY <1>4 DEF CheckImage
  <2> QED BY <1>0, <2>1 DEF LoaderInv
<1>5. CASE PushArgc
  BY <1>5, ArgcKeeps
<1>6. CASE PushString
  BY <1>6, StringKeeps
<1>7. CASE PushNull
  BY <1>7, NullKeeps
<1>8. CASE StackEnd
  <2>1. file' = file /\ sp' = sp /\ got' = got /\ image' = image /\ flat' = flat /\ item' = 0
    BY <1>8 DEF StackEnd
  <2> QED BY <1>0, <2>1 DEF LoaderInv
<1>9. CASE \E a \in Accesses : ProgramAccess(a)
  BY <1>9, ProgramKeeps
<1>10. CASE UNCHANGED loaderVars
  <2>1. file' = file /\ sp' = sp /\ got' = got /\ image' = image /\ flat' = flat /\ item' = item
    BY <1>10 DEF loaderVars
  <2> QED BY <1>0, <2>1 DEF LoaderInv
<1> QED BY <1>1, <1>2, <1>3, <1>4, <1>5, <1>6, <1>7, <1>8, <1>9, <1>10 DEF LoaderNext

\* Whatever the loader and the program write, the pages of the simulated memory are
\* those written to, each once, and each has what was last written there.
THEOREM LoaderInvariant == LoaderSpec => []LoaderInv
BY LoaderStarts, LoaderSteps, PTL DEF LoaderSpec

\* What is read at an address, and the pages.
LEMMA ByteIs ==
  ASSUME NEW m, NEW f, MemFlat(m, f), NEW a \in Nat
  PROVE  ByteAt(m, a) = In(f, a)
<1> DEFINE p == a \div MD_PAGE_SIZE
           o == MEM_OFFSET(a)
<1>1. MemHas(m, f, Touched(f))
  BY Zenon DEF MemFlat
<1>2. p \in Nat /\ o \in 0 .. MD_PAGE_SIZE - 1 /\ a = p * MD_PAGE_SIZE + o
  BY AddrIs
<1>3. CASE p \notin Touched(f)
  <2>1. Placed(m, a) = {}
    BY <1>1, <1>3, PlacedIs
  <2>2. In(f, p * MD_PAGE_SIZE + o) = 0
    <3> HIDE DEF p, o
    <3> QED BY <1>2, <1>3, UntouchedIs
  <2>3. ByteAt(m, a) = 0
    BY <2>1, Zenon DEF ByteAt
  <2> QED BY <1>2, <2>2, <2>3, Zenon
<1>4. CASE p \in Touched(f)
  <2>1. PICK k : Placed(m, a) = {k} /\ PageChain(m, a)[k] = PageEntry(f, p)
    BY <1>1, <1>4, PlacedIs
  <2>2. (CHOOSE j \in Placed(m, a) : TRUE) = k /\ Placed(m, a) # {}
    <3>1. (CHOOSE j \in {k} : TRUE) = k
      OBVIOUS
    <3> QED BY <2>1, <3>1
  <2>3. ByteAt(m, a) = PageEntry(f, p).page[o]
    BY <2>1, <2>2, Zenon DEF ByteAt
  <2>4. PageEntry(f, p).page[o] = In(f, p * MD_PAGE_SIZE + o)
    <3> HIDE DEF p, o
    <3>1. PageEntry(f, p).page = PageOf(f, p)
      BY EntryTag
    <3> QED BY <1>2, <3>1, Zenon DEF PageOf
  <2> QED BY <1>2, <2>3, <2>4, Zenon
<1> QED BY <1>3, <1>4

\* The pages of a memory are those of its addresses.
LEMMA PteIs ==
  ASSUME NEW m, NEW n \in Nat, NEW s, NEW k, n % MEM_PTAB_SIZE = s, m.ptab[s][k].tag = n \div MEM_PTAB_SIZE
  PROVE  MEM_PTE_ADDR(m, s, k) = n * MD_PAGE_SIZE
<1>1. n = (n \div MEM_PTAB_SIZE) * MEM_PTAB_SIZE + s
  BY PageNumberIs, Zenon
<1> QED BY <1>1, Zenon DEF MEM_PTE_ADDR

LEMMA PagesAre ==
  ASSUME NEW m, NEW f, MemFlat(m, f)
  PROVE  Pages(m) = {n * MD_PAGE_SIZE : n \in Touched(f)}
<1> DEFINE T == Touched(f)
<1>1. T \subseteq Nat /\ TableOK(m.ptab, f, T)
  BY Zenon DEF MemFlat, MemHas
<1> HIDE DEF T
<1>2. DOMAIN m.ptab = 0 .. MEM_PTAB_SIZE - 1
  BY <1>1 DEF TableOK
<1>3. ASSUME NEW s \in 0 .. MEM_PTAB_SIZE - 1
      PROVE  DOMAIN m.ptab[s] = 1 .. Len(m.ptab[s]) /\ BucketOK(m.ptab[s], s, f, T)
  <2>1. BucketOK(m.ptab[s], s, f, T)
    BY <1>1, Zenon DEF TableOK
  <2> QED BY <2>1, SeqIs DEF BucketOK
<1>4. ASSUME NEW x \in Pages(m) PROVE \E n \in T : x = n * MD_PAGE_SIZE
  <2>1. PICK s \in DOMAIN m.ptab : x \in {MEM_PTE_ADDR(m, s, k) : k \in DOMAIN m.ptab[s]}
    BY DEF Pages
  <2>2. PICK k \in DOMAIN m.ptab[s] : x = MEM_PTE_ADDR(m, s, k)
    BY <2>1
  <2>3. s \in 0 .. MEM_PTAB_SIZE - 1
    BY <1>2, <2>1
  <2>4. BucketOf(m.ptab[s], k, s, f, T)
    BY <1>3, <2>2, <2>3, Zenon DEF BucketOK
  <2>5. PICK n \in T : n % MEM_PTAB_SIZE = s /\ m.ptab[s][k] = PageEntry(f, n)
    BY <2>4, Zenon DEF BucketOf
  <2>6. n \in Nat /\ m.ptab[s][k].tag = n \div MEM_PTAB_SIZE
    BY <1>1, <2>5, EntryTag
  <2>7. MEM_PTE_ADDR(m, s, k) = n * MD_PAGE_SIZE
    BY <2>5, <2>6, PteIs
  <2> QED BY <2>2, <2>7
<1>5. ASSUME NEW n \in T PROVE n * MD_PAGE_SIZE \in Pages(m)
  <2> DEFINE s == n % MEM_PTAB_SIZE
  <2>1. n \in Nat /\ s \in 0 .. MEM_PTAB_SIZE - 1
    BY <1>1, PageNumberIs
  <2> HIDE DEF s
  <2>2. PICK k \in 1 .. Len(m.ptab[s]) : m.ptab[s][k] = PageEntry(f, n)
    BY <1>3, <2>1, Zenon DEF BucketOK, s
  <2>3. m.ptab[s][k].tag = n \div MEM_PTAB_SIZE
    BY <2>2, EntryTag
  <2>4. MEM_PTE_ADDR(m, s, k) = n * MD_PAGE_SIZE
    BY <2>1, <2>3, PteIs DEF s
  <2>5. s \in DOMAIN m.ptab /\ k \in DOMAIN m.ptab[s]
    BY <1>2, <1>3, <2>1
  <2>6. MEM_PTE_ADDR(m, s, k) \in Pages(m)
    <3>1. MEM_PTE_ADDR(m, s, k) \in {MEM_PTE_ADDR(m, s, j) : j \in DOMAIN m.ptab[s]}
      BY <2>5, Zenon
    <3>2. PICK S : S = {MEM_PTE_ADDR(m, s, j) : j \in DOMAIN m.ptab[s]}
      OBVIOUS
    <3>3. S \in {{MEM_PTE_ADDR(m, r, j) : j \in DOMAIN m.ptab[r]} : r \in DOMAIN m.ptab}
      BY <2>5, <3>2, Zenon
    <3> QED BY <3>1, <3>2, <3>3, Zenon DEF Pages
  <2> QED BY <2>4, <2>6
<1>6. \A x : x \in Pages(m) <=> x \in {n * MD_PAGE_SIZE : n \in T}
  BY <1>4, <1>5, Zenon
<1>7. Pages(m) = {n * MD_PAGE_SIZE : n \in T}
  BY <1>6, Zenon
<1> QED BY <1>7 DEF T

LEMMA PageTimes ==
  ASSUME NEW n \in Nat
  PROVE  n * MD_PAGE_SIZE \in Nat /\ (n * MD_PAGE_SIZE) \div MD_PAGE_SIZE = n
<1>1. 0 \in 0 .. MD_PAGE_SIZE - 1
  BY SizesAre
<1>2. n * MD_PAGE_SIZE \in Nat
  BY SizesAre, SMTT(30)
<1>3. (n * MD_PAGE_SIZE + 0) \div MD_PAGE_SIZE = n
  BY <1>1, InPage
<1> DEFINE z == n * MD_PAGE_SIZE
<1>4. z + 0 = z
  <2>1. z \in Nat
    BY <1>2
  <2> HIDE DEF z
  <2> QED BY <2>1
<1>5. (z + 0) \div MD_PAGE_SIZE = n
  BY <1>3
<1> QED BY <1>2, <1>4, <1>5, Zenon

LEMMA PagesCount ==
  ASSUME NEW m, NEW f, MemFlat(m, f)
  PROVE  Cardinality(Pages(m)) = m.page_count
<1> DEFINE T == Touched(f)
           P == {n * MD_PAGE_SIZE : n \in T}
           g == [n \in T |-> n * MD_PAGE_SIZE]
<1>1. Pages(m) = P
  BY PagesAre
<1>2. T \subseteq Nat /\ IsFiniteSet(T) /\ m.page_count = Cardinality(T)
  BY Zenon DEF MemFlat, MemHas, MemCounts
<1> HIDE DEF T
<1>3. g \in [T -> P] /\ \A n \in T : g[n] = n * MD_PAGE_SIZE
  OBVIOUS
<1>4. \A y \in P : \E n \in T : g[n] = y
  BY <1>3
<1>5. \A n, k \in T : g[n] = g[k] => n = k
  <2> SUFFICES ASSUME NEW n \in T, NEW k \in T, g[n] = g[k] PROVE n = k
    OBVIOUS
  <2>1. n * MD_PAGE_SIZE = k * MD_PAGE_SIZE
    BY <1>3
  <2>2. (n * MD_PAGE_SIZE) \div MD_PAGE_SIZE = n /\ (k * MD_PAGE_SIZE) \div MD_PAGE_SIZE = k
    BY <1>2, PageTimes
  <2> QED BY <2>1, <2>2, Zenon
<1> HIDE DEF g, P
<1>6. g \in Bijection(T, P)
  BY <1>3, <1>4, <1>5 DEF Bijection, Injection, Surjection, IsInjective
<1>7. ExistsBijection(T, P)
  BY <1>6 DEF ExistsBijection
<1>8. IsFiniteSet(P) /\ Cardinality(P) = Cardinality(T)
  BY <1>2, <1>7, FS_Bijection
<1> QED BY <1>1, <1>2, <1>8

LEMMA TagsCount ==
  ASSUME NEW m, NEW f, MemFlat(m, f), NEW s \in DOMAIN m.ptab
  PROVE  Len(m.ptab[s]) = Cardinality({m.ptab[s][k].tag : k \in DOMAIN m.ptab[s]})
<1>1. TableOK(m.ptab, f, Touched(f))
  BY Zenon DEF MemFlat, MemHas
<1>2. DOMAIN m.ptab = 0 .. MEM_PTAB_SIZE - 1
  BY <1>1 DEF TableOK
<1>3. PICK b : b = m.ptab[s]
  OBVIOUS
<1>4. BucketOK(b, s, f, Touched(f))
  BY <1>1, <1>2, <1>3, Zenon DEF TableOK
<1>5. IsSeq(b) /\ \A j, k \in 1 .. Len(b) : b[j].tag = b[k].tag => j = k
  BY <1>4, Zenon DEF BucketOK
<1>6. Len(b) \in Nat /\ DOMAIN b = 1 .. Len(b)
  BY <1>5, SeqIs
<1> DEFINE N == Len(b)
           D == 1 .. N
           G == {b[k].tag : k \in D}
           g == [k \in D |-> b[k].tag]
<1>7. Cardinality(D) = N /\ IsFiniteSet(D)
  <2> HIDE DEF N
  <2>1. N \in Nat /\ 1 \in Int /\ N \in Int
    BY <1>6 DEF N
  <2> QED BY <2>1, FS_Interval
<1> HIDE DEF D
<1>8. g \in [D -> G] /\ (\A y \in G : \E k \in D : g[k] = y) /\ \A j, k \in D : g[j] = g[k] => j = k
  <2>1. \A k \in D : g[k] = b[k].tag
    BY Zenon
  <2>2. \A j, k \in D : b[j].tag = b[k].tag => j = k
    BY <1>5, Zenon DEF D
  <2>3. g \in [D -> G]
    BY Zenon
  <2> HIDE DEF g
  <2> QED BY <2>1, <2>2, <2>3, Zenon
<1> HIDE DEF g, G
<1>9. g \in Bijection(D, G)
  BY <1>8 DEF Bijection, Injection, Surjection, IsInjective
<1>10. ExistsBijection(D, G)
  BY <1>9 DEF ExistsBijection
<1>11. Cardinality(G) = Cardinality(D)
  BY <1>7, <1>10, FS_Bijection
<1> QED BY <1>3, <1>6, <1>7, <1>11, Zenon DEF D, G

LEMMA LoaderFlat == LoaderInv => MemoryIsFlat
<1> SUFFICES ASSUME LoaderInv PROVE MemoryIsFlat
  OBVIOUS
<1>1. MemFlat(image, flat) /\ got.bytes = got.due
  BY DEF LoaderInv
<1>2. DOMAIN flat \subseteq Nat /\ MemHas(image, flat, Touched(flat))
  BY <1>1, Zenon DEF MemFlat
<1>3. \A a \in DOMAIN flat : ByteAt(image, a) = flat[a]
  <2> TAKE a \in DOMAIN flat
  <2>1. a \in Nat
    BY <1>2
  <2>2. ByteAt(image, a) = In(flat, a)
    BY <1>1, <2>1, ByteIs
  <2> QED BY <2>2, Zenon DEF In
<1>4. \A a \in Pages(image) : \A i \in 0 .. MD_PAGE_SIZE - 1 : ByteAt(image, a + i) = Flat(a + i)
  <2> TAKE a \in Pages(image)
  <2> TAKE i \in 0 .. MD_PAGE_SIZE - 1
  <2>1. PICK n \in Touched(flat) : a = n * MD_PAGE_SIZE
    BY <1>1, PagesAre
  <2>2. n \in Nat
    BY <1>2, <2>1, Zenon DEF MemHas
  <2>3. a + i \in Nat
    <3>1. a \in Nat
      BY <2>1, <2>2, PageTimes
    <3> QED BY <3>1
  <2>4. ByteAt(image, a + i) = In(flat, a + i)
    BY <1>1, <2>3, ByteIs
  <2> QED BY <2>4, Zenon DEF In, Flat
<1>5. image.page_count = Cardinality({a \div MD_PAGE_SIZE : a \in DOMAIN flat})
      /\ image.page_count <= image.ptab_misses /\ image.ptab_misses <= image.ptab_accesses
  BY <1>2, Zenon DEF MemHas, MemCounts, Touched
<1>6. \A s \in DOMAIN image.ptab :
        Len(image.ptab[s]) = Cardinality({image.ptab[s][k].tag : k \in DOMAIN image.ptab[s]})
  BY <1>1, TagsCount
<1>7. Cardinality(Pages(image)) = image.page_count
  BY <1>1, PagesCount
<1> QED BY <1>1, <1>3, <1>4, <1>5, <1>6, <1>7, Zenon DEF MemoryIsFlat

\* Simulated memory is a flat array: a read, by the macros or byte by byte, returns
\* the last byte written to each address, or 0, whatever order its pages are in.
THEOREM MemorySafety == LoaderSpec => []MemoryIsFlat
BY LoaderInvariant, LoaderFlat, PTL
-----------------------------------------------------------------------------
(* The event queue: lists of descriptors.                                  *)

\* The descriptors P[1 .. m] are linked in this order, from first.
At(P, m, k) == IF k \in 1 .. m THEN P[k] ELSE 0
Injected(P, m) == \A i, j \in 1 .. m : P[i] = P[j] => i = j
Linked(d, P, m) == \A k \in 1 .. m : d[P[k]].next = At(P, m, k + 1)
ListOf(d, first, P, m) ==
  /\ m \in Nat /\ Len(d) \in Nat /\ P \in [1 .. m -> 1 .. Len(d)]
  /\ Injected(P, m) /\ first = At(P, m, 1) /\ Linked(d, P, m)
InsertAt(P, m, k, x) == [i \in 1 .. m + 1 |-> IF i <= k THEN P[i] ELSE IF i = k + 1 THEN x ELSE P[i - 1]]
DropAt(P, m, k) == [i \in 1 .. m - 1 |-> IF i < k THEN P[i] ELSE P[i + 1]]
Beyond(P, m, h) == [i \in 1 .. m - h |-> P[i + h]]

LEMMA FirstNumbers ==
  ASSUME NEW n \in Nat
  PROVE  IsFiniteSet(1 .. n) /\ Cardinality(1 .. n) = n
<1>1. 1 \in Int /\ n \in Int
  OBVIOUS
<1>2. IsFiniteSet(1 .. n) /\ Cardinality(1 .. n) = IF 1 > n THEN 0 ELSE n - 1 + 1
  BY <1>1, FS_Interval
<1> QED BY <1>2

\* A list is not longer than there are descriptors, and its places are numbers.
LEMMA ListIs ==
  ASSUME NEW d, NEW first, NEW P, NEW m, ListOf(d, first, P, m)
  PROVE  /\ m \in Nat /\ Len(d) \in Nat /\ m <= Len(d) /\ DOMAIN P = 1 .. m
         /\ \A i \in 1 .. m : P[i] \in 1 .. Len(d) /\ P[i] # 0
         /\ \A i, j \in 1 .. m : P[i] = P[j] => i = j
<1> DEFINE S == 1 .. m
           T == 1 .. Len(d)
<1>1. m \in Nat /\ Len(d) \in Nat /\ P \in [S -> T] /\ \A i, j \in S : P[i] = P[j] => i = j
  BY DEF ListOf, Injected
<1>2. IsFiniteSet(S) /\ IsFiniteSet(T) /\ Cardinality(S) = m /\ Cardinality(T) = Len(d)
  BY <1>1, FirstNumbers, Zenon
<1>3. \A i \in S : P[i] \in T /\ P[i] # 0
  BY <1>1
<1> HIDE DEF S, T
<1>4. P \in Injection(S, T)
  BY <1>1 DEF Injection, IsInjective
<1>5. Cardinality(S) <= Cardinality(T)
  BY <1>2, <1>4, FS_Injection DEF ExistsInjection
<1> QED BY <1>1, <1>2, <1>3, <1>5 DEF S, T

\* A list some descriptors of which were rewritten, but none of its own.
LEMMA ListKeeps ==
  ASSUME NEW d, NEW first, NEW P, NEW m, ListOf(d, first, P, m),
         NEW e, Len(e) \in Nat, Len(d) <= Len(e), \A i \in 1 .. m : e[P[i]].next = d[P[i]].next
  PROVE  ListOf(e, first, P, m)
<1>1. m \in Nat /\ Len(d) \in Nat /\ P \in [1 .. m -> 1 .. Len(d)] /\ Injected(P, m) /\ first = At(P, m, 1)
      /\ Linked(d, P, m)
  BY DEF ListOf
<1>2. P \in [1 .. m -> 1 .. Len(e)]
  <2>1. 1 .. Len(d) \subseteq 1 .. Len(e)
    BY <1>1
  <2> QED BY <1>1, <2>1
<1>3. Linked(e, P, m)
  BY <1>1, Zenon DEF Linked
<1> QED BY <1>1, <1>2, <1>3 DEF ListOf

\* A descriptor linked in behind the k-th.
Inserted(d, P, m, k, x, e) ==
  /\ e[x].next = At(P, m, k + 1) /\ (k # 0 => e[P[k]].next = x)
  /\ \A i \in 1 .. m : i # k => e[P[i]].next = d[P[i]].next
LEMMA ListInserts ==
  ASSUME NEW d, NEW first, NEW P, NEW m, ListOf(d, first, P, m), NEW k \in 0 .. m,
         NEW x, \A i \in 1 .. m : P[i] # x,
         NEW e, Len(e) \in Nat, Len(d) <= Len(e), x \in 1 .. Len(e), Inserted(d, P, m, k, x, e)
  PROVE  ListOf(e, IF k = 0 THEN x ELSE first, InsertAt(P, m, k, x), m + 1)
<1> DEFINE Q == InsertAt(P, m, k, x)
<1>1. m \in Nat /\ Len(d) \in Nat /\ P \in [1 .. m -> 1 .. Len(d)] /\ first = At(P, m, 1)
      /\ (\A i, j \in 1 .. m : P[i] = P[j] => i = j) /\ \A i \in 1 .. m : d[P[i]].next = At(P, m, i + 1)
  BY DEF ListOf, Injected, Linked
<1>2. DOMAIN Q = 1 .. m + 1
      /\ \A i \in 1 .. m + 1 : Q[i] = IF i <= k THEN P[i] ELSE IF i = k + 1 THEN x ELSE P[i - 1]
  BY DEF InsertAt
<1>3. \A i \in 1 .. m + 1 : Q[i] \in 1 .. Len(e)
  <2> TAKE i \in 1 .. m + 1
  <2>1. CASE i <= k
    BY <1>1, <1>2, <2>1
  <2>2. CASE i = k + 1
    BY <1>2, <2>2
  <2>3. CASE i > k + 1
    <3>1. i - 1 \in 1 .. m
      BY <1>1, <2>3
    <3>2. Q[i] = P[i - 1]
      BY <1>1, <1>2, <2>3
    <3> QED BY <1>1, <3>1, <3>2
  <2> QED BY <1>1, <2>1, <2>2, <2>3
<1>4. Q \in [1 .. m + 1 -> 1 .. Len(e)]
  <2>1. Q = [i \in 1 .. m + 1 |-> Q[i]]
    BY Zenon DEF InsertAt
  <2> HIDE DEF Q
  <2> QED BY <1>3, <2>1
<1>5. \A i, j \in 1 .. m + 1 : Q[i] = Q[j] => i = j
  <2> SUFFICES ASSUME NEW i \in 1 .. m + 1, NEW j \in 1 .. m + 1, i < j PROVE Q[i] # Q[j]
    <3>1. \A i, j \in 1 .. m + 1 : i # j => i < j \/ j < i
      BY <1>1
    <3> QED BY <3>1
  <2> HIDE DEF Q
  <2>1. CASE j <= k
    BY <1>1, <1>2, <2>1
  <2>2. CASE j = k + 1
    <3>1. i \in 1 .. m /\ Q[i] = P[i] /\ Q[j] = x
      BY <1>1, <1>2, <2>2
    <3> QED BY <3>1
  <2>3. CASE j > k + 1
    <3>1. j - 1 \in 1 .. m /\ Q[j] = P[j - 1]
      BY <1>1, <1>2, <2>3
    <3>2. CASE i <= k
      BY <1>1, <1>2, <2>3, <3>1, <3>2
    <3>3. CASE i = k + 1
      BY <1>1, <1>2, <3>1, <3>3
    <3>4. CASE i > k + 1
      <4>1. i - 1 \in 1 .. m /\ Q[i] = P[i - 1] /\ i - 1 # j - 1
        BY <1>1, <1>2, <3>4
      <4> QED BY <1>1, <3>1, <4>1
    <3> QED BY <1>1, <3>2, <3>3, <3>4
  <2> QED BY <1>1, <2>1, <2>2, <2>3
<1>6. (IF k = 0 THEN x ELSE first) = At(Q, m + 1, 1)
  <2>1. At(Q, m + 1, 1) = Q[1]
    BY <1>1 DEF At
  <2> HIDE DEF Q
  <2>2. CASE k = 0
    BY <1>1, <1>2, <2>1, <2>2
  <2>3. CASE k # 0
    <3>1. At(P, m, 1) = P[1] /\ Q[1] = P[1]
      BY <1>1, <1>2, <2>3 DEF At
    <3> QED BY <1>1, <2>1, <2>3, <3>1
  <2> QED BY <2>2, <2>3
<1>7. \A i \in 1 .. m + 1 : e[Q[i]].next = At(Q, m + 1, i + 1)
  <2> TAKE i \in 1 .. m + 1
  <2> HIDE DEF Q
  <2>0. /\ e[x].next = At(P, m, k + 1) /\ (k # 0 => e[P[k]].next = x)
        /\ \A j \in 1 .. m : j # k => e[P[j]].next = d[P[j]].next
    BY DEF Inserted
  <2>1. CASE i < k
    <3>1. i \in 1 .. m /\ i + 1 \in 1 .. m /\ i + 1 \in 1 .. m + 1 /\ i + 1 <= k /\ i # k /\ i <= k
      BY <1>1, <2>1
    <3>2. Q[i] = P[i] /\ Q[i + 1] = P[i + 1]
      BY <1>2, <3>1
    <3>3. At(Q, m + 1, i + 1) = P[i + 1] /\ At(P, m, i + 1) = P[i + 1]
      BY <3>1, <3>2, Zenon DEF At
    <3> QED BY <1>1, <2>0, <3>1, <3>2, <3>3, Zenon
  <2>2. CASE i = k
    <3>1. i \in 1 .. m /\ i + 1 \in 1 .. m + 1 /\ k # 0 /\ i <= k /\ ~(i + 1 <= k) /\ i + 1 = k + 1
      BY <1>1, <2>2
    <3>2. Q[i] = P[i] /\ Q[i + 1] = x
      BY <1>2, <3>1
    <3>3. At(Q, m + 1, i + 1) = x
      BY <3>1, <3>2, Zenon DEF At
    <3> QED BY <2>0, <2>2, <3>1, <3>2, <3>3, Zenon
  <2>3. CASE i > k
    <3>1. At(Q, m + 1, i + 1) = At(P, m, i)
      <4>1. CASE i = m + 1
        <5>1. i + 1 \notin 1 .. m + 1 /\ i \notin 1 .. m
          BY <1>1, <4>1
        <5> QED BY <5>1, Zenon DEF At
      <4>2. CASE i # m + 1
        <5>1. i + 1 \in 1 .. m + 1 /\ i \in 1 .. m /\ ~(i + 1 <= k) /\ i + 1 # k + 1 /\ (i + 1) - 1 = i
          BY <1>1, <2>3, <4>2
        <5>2. Q[i + 1] = P[i]
          BY <1>2, <5>1
        <5> QED BY <5>1, <5>2, Zenon DEF At
      <4> QED BY <4>1, <4>2
    <3>2. CASE i = k + 1
      <4>1. Q[i] = x
        BY <1>1, <1>2, <3>2
      <4> QED BY <2>0, <3>1, <3>2, <4>1, Zenon
    <3>3. CASE i # k + 1
      <4>1. i - 1 \in 1 .. m /\ i - 1 # k /\ (i - 1) + 1 = i /\ Q[i] = P[i - 1]
        BY <1>1, <1>2, <2>3, <3>3
      <4>2. d[P[i - 1]].next = At(P, m, (i - 1) + 1)
        BY <1>1, <4>1, Zenon
      <4> QED BY <2>0, <3>1, <4>1, <4>2, Zenon
    <3> QED BY <3>2, <3>3
  <2> QED BY <1>1, <2>1, <2>2, <2>3
<1> HIDE DEF Q
<1>8. m + 1 \in Nat
  BY <1>1
<1>9. ListOf(e, IF k = 0 THEN x ELSE first, Q, m + 1)
  BY <1>4, <1>5, <1>6, <1>7, <1>8, Zenon DEF ListOf, Injected, Linked
<1> QED BY <1>9 DEF Q

\* The i-th descriptor unlinked.
Dropped(d, P, m, i, e) ==
  /\ i # 1 => e[P[i - 1]].next = d[P[i]].next
  /\ \A j \in 1 .. m : j # i /\ j # i - 1 => e[P[j]].next = d[P[j]].next
LEMMA ListDrops ==
  ASSUME NEW d, NEW first, NEW P, NEW m, ListOf(d, first, P, m), NEW h \in 1 .. m,
         NEW e, Len(e) \in Nat, Len(d) <= Len(e), Dropped(d, P, m, h, e)
  PROVE  ListOf(e, IF h = 1 THEN d[P[1]].next ELSE first, DropAt(P, m, h), m - 1)
<1> DEFINE Q == DropAt(P, m, h)
<1>1. m \in Nat /\ Len(d) \in Nat /\ P \in [1 .. m -> 1 .. Len(d)] /\ first = At(P, m, 1)
      /\ (\A i, j \in 1 .. m : P[i] = P[j] => i = j) /\ \A i \in 1 .. m : d[P[i]].next = At(P, m, i + 1)
  BY DEF ListOf, Injected, Linked
<1>2. DOMAIN Q = 1 .. m - 1 /\ \A i \in 1 .. m - 1 : Q[i] = IF i < h THEN P[i] ELSE P[i + 1]
  BY DEF DropAt
<1>3. \A i \in 1 .. m - 1 : Q[i] \in 1 .. Len(e)
  <2> TAKE i \in 1 .. m - 1
  <2>1. i \in 1 .. m /\ i + 1 \in 1 .. m
    BY <1>1
  <2>2. P[i] \in 1 .. Len(d) /\ P[i + 1] \in 1 .. Len(d)
    BY <1>1, <2>1
  <2>3. Q[i] \in 1 .. Len(d)
    BY <1>2, <2>2
  <2>4. PICK q : q = Q[i]
    OBVIOUS
  <2>5. q \in 1 .. Len(d) /\ Len(d) \in Nat /\ Len(e) \in Nat /\ Len(d) <= Len(e)
    BY <1>1, <2>3, <2>4, Zenon
  <2>6. q \in 1 .. Len(e)
    BY <2>5
  <2> QED BY <2>4, <2>6, Zenon
<1>4. Q \in [1 .. m - 1 -> 1 .. Len(e)]
  <2>1. Q = [i \in 1 .. m - 1 |-> Q[i]]
    BY Zenon DEF DropAt
  <2> HIDE DEF Q
  <2> QED BY <1>3, <2>1
<1>5. \A i, j \in 1 .. m - 1 : Q[i] = Q[j] => i = j
  <2> TAKE i, j \in 1 .. m - 1
  <2> DEFINE p(n) == IF n < h THEN n ELSE n + 1
  <2>1. p(i) \in 1 .. m /\ p(j) \in 1 .. m /\ (p(i) = p(j) => i = j)
    BY <1>1
  <2>2. Q[i] = P[p(i)] /\ Q[j] = P[p(j)]
    BY <1>2
  <2> HIDE DEF p, Q
  <2> QED BY <1>1, <2>1, <2>2
<1>6. (IF h = 1 THEN d[P[1]].next ELSE first) = At(Q, m - 1, 1)
  <2> HIDE DEF Q
  <2>1. CASE m = 1
    <3>1. h = 1 /\ 1 \notin 1 .. m - 1 /\ 1 \in 1 .. m /\ 1 + 1 \notin 1 .. m
      BY <1>1, <2>1
    <3>2. d[P[1]].next = At(P, m, 1 + 1)
      BY <1>1, <3>1
    <3> QED BY <3>1, <3>2, Zenon DEF At
  <2>2. CASE m # 1
    <3>1. 1 \in 1 .. m - 1 /\ 1 \in 1 .. m /\ 1 + 1 \in 1 .. m
      BY <1>1, <2>2
    <3>2. CASE h = 1
      <4>1. Q[1] = P[1 + 1]
        BY <1>2, <3>1, <3>2
      <4>2. d[P[1]].next = At(P, m, 1 + 1)
        BY <1>1, <3>1
      <4> QED BY <3>1, <3>2, <4>1, <4>2, Zenon DEF At
    <3>3. CASE h # 1
      <4>1. Q[1] = P[1]
        BY <1>2, <3>1, <3>3
      <4> QED BY <1>1, <3>1, <3>3, <4>1, Zenon DEF At
    <3> QED BY <3>2, <3>3
  <2> QED BY <2>1, <2>2
<1>7. \A i \in 1 .. m - 1 : e[Q[i]].next = At(Q, m - 1, i + 1)
  <2> TAKE i \in 1 .. m - 1
  <2> HIDE DEF Q
  <2>0. /\ h # 1 => e[P[h - 1]].next = d[P[h]].next
        /\ \A j \in 1 .. m : j # h /\ j # h - 1 => e[P[j]].next = d[P[j]].next
    BY Zenon DEF Dropped
  <2>1. i \in 1 .. m /\ i + 1 \in 1 .. m /\ h \in 1 .. m
    BY <1>1
  \* Behind the place, the next one of Q is the next but one of P.
  <2>2. ASSUME ~(i + 1 < h) PROVE At(Q, m - 1, i + 1) = At(P, m, (i + 1) + 1)
    <3>1. CASE i = m - 1
      <4>1. i + 1 \notin 1 .. m - 1 /\ (i + 1) + 1 \notin 1 .. m
        BY <1>1, <3>1
      <4> QED BY <4>1, Zenon DEF At
    <3>2. CASE i # m - 1
      <4>1. i + 1 \in 1 .. m - 1 /\ (i + 1) + 1 \in 1 .. m
        BY <1>1, <3>2
      <4>2. Q[i + 1] = P[(i + 1) + 1]
        BY <1>2, <2>2, <4>1, Zenon
      <4> QED BY <4>1, <4>2, Zenon DEF At
    <3> QED BY <3>1, <3>2
  <2>3. CASE i + 1 < h
    <3>1. i < h /\ i # h /\ i # h - 1 /\ i + 1 \in 1 .. m - 1
      BY <1>1, <2>1, <2>3
    <3>2. Q[i] = P[i] /\ Q[i + 1] = P[i + 1]
      BY <1>2, <2>3, <3>1, Zenon
    <3>3. d[P[i]].next = P[i + 1]
      BY <1>1, <2>1, Zenon DEF At
    <3>4. e[P[i]].next = d[P[i]].next
      BY <2>0, <2>1, <3>1, Zenon
    <3> QED BY <3>1, <3>2, <3>3, <3>4, Zenon DEF At
  <2>4. CASE i + 1 = h
    <3>1. i < h /\ h # 1 /\ h - 1 = i /\ ~(i + 1 < h)
      BY <1>1, <2>1, <2>4
    <3>2. Q[i] = P[i]
      BY <1>2, <3>1, Zenon
    <3>3. d[P[h]].next = At(P, m, (i + 1) + 1)
      BY <1>1, <2>1, <2>4, Zenon
    <3> QED BY <2>0, <2>2, <3>1, <3>2, <3>3, Zenon
  <2>5. CASE i + 1 > h
    <3>1. ~(i < h) /\ ~(i + 1 < h) /\ i + 1 # h /\ i + 1 # h - 1
      BY <1>1, <2>1, <2>5
    <3>2. Q[i] = P[i + 1]
      BY <1>2, <3>1, Zenon
    <3>3. d[P[i + 1]].next = At(P, m, (i + 1) + 1) /\ e[P[i + 1]].next = d[P[i + 1]].next
      BY <1>1, <2>0, <2>1, <3>1, Zenon
    <3> QED BY <2>2, <3>1, <3>2, <3>3, Zenon
  <2>6. i + 1 < h \/ i + 1 = h \/ i + 1 > h
    BY <1>1, <2>1
  <2> QED BY <2>3, <2>4, <2>5, <2>6
<1> HIDE DEF Q
<1>8. m - 1 \in Nat
  BY <1>1
<1>9. ListOf(e, IF h = 1 THEN d[P[1]].next ELSE first, Q, m - 1)
  BY <1>4, <1>5, <1>6, <1>7, <1>8, Zenon DEF ListOf, Injected, Linked
<1> QED BY <1>9 DEF Q

\* What follows the h-th descriptor.
LEMMA ListBeyond ==
  ASSUME NEW d, NEW first, NEW P, NEW m, ListOf(d, first, P, m), NEW h \in 1 .. m
  PROVE  ListOf(d, d[P[h]].next, Beyond(P, m, h), m - h)
<1> DEFINE Q == Beyond(P, m, h)
<1>1. m \in Nat /\ Len(d) \in Nat /\ P \in [1 .. m -> 1 .. Len(d)]
      /\ (\A i, j \in 1 .. m : P[i] = P[j] => i = j) /\ \A i \in 1 .. m : d[P[i]].next = At(P, m, i + 1)
  BY DEF ListOf, Injected, Linked
<1>2. \A i \in 1 .. m - h : Q[i] = P[i + h] /\ i + h \in 1 .. m
  BY <1>1 DEF Beyond
<1>3. Q \in [1 .. m - h -> 1 .. Len(d)]
  <2>1. Q = [i \in 1 .. m - h |-> Q[i]]
    BY Zenon DEF Beyond
  <2>2. \A i \in 1 .. m - h : Q[i] \in 1 .. Len(d)
    <3> HIDE DEF Q
    <3> QED BY <1>1, <1>2
  <2> HIDE DEF Q
  <2> QED BY <2>1, <2>2
<1> HIDE DEF Q
<1>4. \A i, j \in 1 .. m - h : Q[i] = Q[j] => i = j
  <2> TAKE i, j \in 1 .. m - h
  <2>1. Q[i] = Q[j] => i + h = j + h
    BY <1>1, <1>2, Zenon
  <2> QED BY <1>1, <2>1
<1>5. \A i \in 0 .. m - h : At(Q, m - h, i + 1) = At(P, m, (i + h) + 1)
  <2> TAKE i \in 0 .. m - h
  <2>1. CASE i = m - h
    <3>1. i + 1 \notin 1 .. m - h /\ (i + h) + 1 \notin 1 .. m
      BY <1>1, <2>1
    <3> QED BY <3>1, Zenon DEF At
  <2>2. CASE i # m - h
    <3>1. i + 1 \in 1 .. m - h /\ (i + h) + 1 \in 1 .. m /\ (i + 1) + h = (i + h) + 1
      BY <1>1, <2>2
    <3>2. Q[i + 1] = P[(i + 1) + h]
      BY <1>2, <3>1, Zenon
    <3>3. Q[i + 1] = P[(i + h) + 1]
      BY <3>1, <3>2, Zenon
    <3> QED BY <3>1, <3>3, Zenon DEF At
  <2> QED BY <2>1, <2>2
<1>6. d[P[h]].next = At(Q, m - h, 1)
  <2>1. 0 \in 0 .. m - h /\ 0 + 1 = 1 /\ 0 + h = h
    BY <1>1
  <2> QED BY <1>1, <1>5, <2>1
<1>7. \A i \in 1 .. m - h : d[Q[i]].next = At(Q, m - h, i + 1)
  <2> TAKE i \in 1 .. m - h
  <2>1. i \in 0 .. m - h
    BY <1>1
  <2> QED BY <1>1, <1>2, <1>5, <2>1, Zenon
<1>8. m - h \in Nat
  BY <1>1
<1>9. ListOf(d, d[P[h]].next, Q, m - h)
  BY <1>1, <1>3, <1>4, <1>6, <1>7, <1>8, Zenon DEF ListOf, Injected, Linked
<1> QED BY <1>9 DEF Q

\* What Chain computes, on a list that is short enough.
LEMMA ChainIs ==
  ASSUME NEW d, NEW first, NEW P, NEW m, ListOf(d, first, P, m), NEW n \in Nat, m <= n
  PROVE  Chain(d, first, n) = P
<1> DEFINE Next1(g, k) == IF k = 1 THEN first ELSE IF g[k - 1] = 0 THEN 0 ELSE d[g[k - 1]].next
           at == CHOOSE g : g = [k \in 1 .. n |-> Next1(g, k)]
           J == {j \in 1 .. n : at[j] # 0}
<1>1. Chain(d, first, n) = [k \in 1 .. Cardinality(J) |-> at[k]]
  BY Zenon DEF Chain
<1>2. /\ m \in Nat /\ P \in [1 .. m -> 1 .. Len(d)] /\ first = At(P, m, 1)
      /\ \A k \in 1 .. m : d[P[k]].next = At(P, m, k + 1)
  BY DEF ListOf, Linked
<1>3. \A k \in 1 .. m : P[k] # 0
  BY ListIs
<1>4. \A g : \A k \in 1 .. n : (k > 1 => g[k - 1] = At(P, m, k - 1)) => Next1(g, k) = At(P, m, k)
  <2> TAKE g
  <2> TAKE k \in 1 .. n
  <2> HAVE k > 1 => g[k - 1] = At(P, m, k - 1)
  <2>1. CASE k = 1
    BY <1>2, <2>1
  <2>2. CASE k > 1 /\ k - 1 \in 1 .. m
    <3>1. g[k - 1] = P[k - 1] /\ (k - 1) + 1 = k /\ k # 1
      BY <2>2 DEF At
    <3>2. d[P[k - 1]].next = At(P, m, (k - 1) + 1) /\ P[k - 1] # 0
      BY <1>2, <1>3, <2>2, Zenon
    <3> QED BY <3>1, <3>2, Zenon
  <2>3. CASE k > 1 /\ k - 1 \notin 1 .. m
    <3>1. k \notin 1 .. m /\ k # 1
      BY <1>2, <2>3
    <3>2. g[k - 1] = 0
      BY <2>3, Zenon DEF At
    <3> QED BY <3>1, <3>2, Zenon DEF At
  <2> QED BY <2>1, <2>2, <2>3
<1>5. \E g : g = [k \in 1 .. n |-> Next1(g, k)]
  <2> DEFINE f == [k \in 1 .. n |-> At(P, m, k)]
  <2>1. \A k \in 1 .. n : Next1(f, k) = At(P, m, k)
    <3> TAKE k \in 1 .. n
    <3>1. k > 1 => k - 1 \in 1 .. n
      OBVIOUS
    <3>2. k > 1 => f[k - 1] = At(P, m, k - 1)
      BY <3>1, Zenon
    <3> HIDE DEF f, Next1
    <3> QED BY <1>4, <3>2, Zenon
  <2> HIDE DEF Next1
  <2>2. f = [k \in 1 .. n |-> Next1(f, k)]
    BY <2>1, Zenon
  <2> HIDE DEF f
  <2> QED BY <2>2, Zenon
<1> HIDE DEF Next1
<1>6. at = [k \in 1 .. n |-> Next1(at, k)]
  BY <1>5, Zenon
<1> HIDE DEF at
<1>7. \A k \in 1 .. n : at[k] = Next1(at, k)
  BY <1>6, Zenon
<1>8. \A k \in 1 .. n : at[k] = At(P, m, k)
  <2> DEFINE T == {k \in Nat : k \in 1 .. n => at[k] = At(P, m, k)}
  <2>1. T \in SUBSET Nat /\ 0 \in T
    OBVIOUS
  <2>2. \A k \in T : k + 1 \in T
    <3> TAKE k \in T
    <3>1. k + 1 \in Nat /\ k \in Nat /\ (k + 1) - 1 = k
      OBVIOUS
    <3>2. ASSUME k + 1 \in 1 .. n PROVE at[k + 1] = At(P, m, k + 1)
      <4>1. k + 1 > 1 => k \in 1 .. n
        BY <3>1, <3>2
      <4>2. k + 1 > 1 => at[(k + 1) - 1] = At(P, m, (k + 1) - 1)
        BY <3>1, <4>1
      <4> QED BY <1>4, <1>7, <3>2, <4>2, Zenon
    <3> QED BY <3>1, <3>2
  <2> HIDE DEF T
  <2>3. T = Nat
    BY <2>1, <2>2, SetInduction
  <2>4. \A k \in 1 .. n : k \in T
    BY <2>3
  <2> QED BY <2>4 DEF T
<1>9. J = 1 .. m
  <2>1. \A j \in 1 .. n : at[j] # 0 <=> j \in 1 .. m
    BY <1>3, <1>8, Zenon DEF At
  <2>2. \A j \in 1 .. m : j \in 1 .. n
    BY <1>2
  <2> QED BY <2>1, <2>2
<1>10. Cardinality(J) = m
  BY <1>2, <1>9, FirstNumbers, Zenon
<1>11. \A k \in 1 .. m : at[k] = P[k]
  <2>1. \A k \in 1 .. m : k \in 1 .. n
    BY <1>2
  <2> QED BY <1>8, <2>1, Zenon DEF At
<1>12. Chain(d, first, n) = [k \in 1 .. m |-> P[k]]
  <2> HIDE DEF J
  <2>1. Chain(d, first, n) = [k \in 1 .. m |-> at[k]]
    BY <1>1, <1>10, Zenon
  <2> QED BY <1>11, <2>1, Zenon
<1>13. P = [k \in 1 .. m |-> P[k]]
  BY <1>2
<1> QED BY <1>12, <1>13, Zenon

-----------------------------------------------------------------------------
(* The event queue: what the operations write.                             *)

Entry(e) == e = [when |-> e.when, id |-> e.id, action |-> e.action, next |-> e.next]
AllEntries(d) == \A p \in 1 .. Len(d) : Entry(d[p])
Same(e, f) == e.when = f.when /\ e.id = f.id /\ e.action = f.action
Rewritten(d, e) == IsSeq(e) /\ Len(e) = Len(d) /\ \A j \in 1 .. Len(d) : Entry(e[j]) /\ Same(e[j], d[j])
NextSet(d, p, x, e) == e = [d EXCEPT ![p].next = x]
Relinked(d, p, x, e) ==
  Rewritten(d, e) /\ e[p].next = x /\ \A j \in 1 .. Len(d) : j # p => e[j].next = d[j].next

LEMMA EntryNext ==
  ASSUME NEW e, Entry(e), NEW x, NEW f, f = [e EXCEPT !.next = x]
  PROVE  Entry(f) /\ Same(f, e) /\ f.next = x
<1>1. e = [when |-> e.when, id |-> e.id, action |-> e.action, next |-> e.next]
  BY Zenon DEF Entry
<1>2. f = [when |-> e.when, id |-> e.id, action |-> e.action, next |-> x]
  BY <1>1
<1> QED BY <1>2 DEF Entry, Same

LEMMA NextSetIs ==
  ASSUME NEW d, IsSeq(d), AllEntries(d), NEW p \in 1 .. Len(d), NEW x, NEW e, NextSet(d, p, x, e)
  PROVE  Relinked(d, p, x, e)
<1>1. PICK f : f = [d[p] EXCEPT !.next = x]
  OBVIOUS
<1>2. WithAt(d, p, f, e)
  BY <1>1, Zenon DEF WithAt, NextSet
<1>3. /\ IsSeq(e) /\ Len(e) = Len(d) /\ e[p] = f
      /\ \A j \in 1 .. Len(d) : j # p => e[j] = d[j]
  BY <1>2, ExceptIs
<1>4. Entry(f) /\ Same(f, d[p]) /\ f.next = x
  <2>1. Entry(d[p])
    BY Zenon DEF AllEntries
  <2> QED BY <1>1, <2>1, EntryNext, Zenon
<1>5. \A j \in 1 .. Len(d) : Entry(e[j]) /\ Same(e[j], d[j])
  <2> TAKE j \in 1 .. Len(d)
  <2>1. CASE j = p
    BY <1>3, <1>4, <2>1, Zenon
  <2>2. CASE j # p
    BY <1>3, <2>2, Zenon DEF AllEntries, Same
  <2> QED BY <2>1, <2>2
<1> QED BY <1>3, <1>4, <1>5, Zenon DEF Relinked, Rewritten

\* The queue as a record, and what Link, Freed and Unlinked make of it.
QueueOf(d, first, free, id) == [desc |-> d, pending |-> first, free |-> free, id |-> id]
LinkSets(d, first, free, id, prev, x) ==
  Link(QueueOf(d, first, free, id), prev, x) =
    QueueOf(IF prev = 0 THEN d ELSE [d EXCEPT ![prev].next = x], IF prev = 0 THEN x ELSE first, free, id)
LEMMA LinkIs ==
  ASSUME NEW d, NEW first, NEW free, NEW id, NEW prev, NEW x
  PROVE  LinkSets(d, first, free, id, prev, x)
<1>1. CASE prev = 0
  BY <1>1 DEF Link, QueueOf, LinkSets
<1>2. CASE prev # 0
  BY <1>2 DEF Link, QueueOf, LinkSets
<1> QED BY <1>1, <1>2

FreedSets(d, first, free, id, p) ==
  Freed(QueueOf(d, first, free, id), p) = QueueOf([d EXCEPT ![p].next = free], first, p, id)
LEMMA FreedIs ==
  ASSUME NEW d, NEW first, NEW free, NEW id, NEW p
  PROVE  FreedSets(d, first, free, id, p)
<1> DEFINE q == QueueOf(d, first, free, id)
<1>1. PICK e : e = [d EXCEPT ![p].next = free]
  OBVIOUS
<1>2. [q EXCEPT !.desc[p].next = q.free] = QueueOf(e, first, free, id)
  BY <1>1 DEF QueueOf
<1>3. Freed(q, p) = [[q EXCEPT !.desc[p].next = q.free] EXCEPT !.free = p]
  BY Zenon DEF Freed
<1> HIDE DEF q
<1>4. Freed(q, p) = [QueueOf(e, first, free, id) EXCEPT !.free = p]
  BY <1>2, <1>3, Zenon
<1>5. [QueueOf(e, first, free, id) EXCEPT !.free = p] = QueueOf(e, first, p, id)
  BY DEF QueueOf
<1> QED BY <1>1, <1>4, <1>5, Zenon DEF q, FreedSets

LEMMA PendingIs ==
  ASSUME NEW d, NEW first, NEW P, NEW m, ListOf(d, first, P, m), NEW free, NEW nid
  PROVE  Pending(QueueOf(d, first, free, nid)) = P /\ DOMAIN P = 1 .. m
<1>1. m \in Nat /\ Len(d) \in Nat /\ m <= Len(d) /\ DOMAIN P = 1 .. m
  BY ListIs
<1>2. Chain(d, first, Len(d)) = P
  BY <1>1, ChainIs
<1>3. Pending(QueueOf(d, first, free, nid)) = Chain(d, first, Len(d))
  BY DEF Pending, QueueOf
<1> QED BY <1>1, <1>2, <1>3, Zenon

\* The event of an id, when the pending events have different ones.
Distinct(d, P, m) == \A i, j \in 1 .. m : d[P[i]].id = d[P[j]].id => i = j
LEMMA FoundIs ==
  ASSUME NEW d, NEW first, NEW P, NEW m, ListOf(d, first, P, m), NEW free, NEW nid, NEW id
  PROVE  Found(QueueOf(d, first, free, nid), id) = {i \in 1 .. m : d[P[i]].id = id}
<1> DEFINE q == QueueOf(d, first, free, nid)
<1>0. q.desc = d
  BY DEF QueueOf
<1>1. Pending(q) = P /\ DOMAIN P = 1 .. m /\ q.desc = d
  BY <1>0, PendingIs, Zenon
<1> HIDE DEF q
<1>2. Found(q, id) = {i \in 1 .. m : d[P[i]].id = id}
  BY <1>1, Zenon DEF Found
<1> QED BY <1>2, Zenon DEF q

LEMMA ChosenIs ==
  ASSUME NEW d, NEW first, NEW P, NEW m, ListOf(d, first, P, m), NEW free, NEW nid,
         Distinct(d, P, m), NEW h \in 1 .. m
  PROVE  /\ Place(QueueOf(d, first, free, nid), d[P[h]].id) = h
         /\ Chosen(QueueOf(d, first, free, nid), d[P[h]].id) = P[h]
<1> DEFINE q == QueueOf(d, first, free, nid)
<1>1. Pending(q) = P
  BY PendingIs, Zenon
<1>2. Found(q, d[P[h]].id) = {i \in 1 .. m : d[P[i]].id = d[P[h]].id}
  BY FoundIs
<1> HIDE DEF q
<1>3. Found(q, d[P[h]].id) = {h}
  BY <1>2, Zenon DEF Distinct
<1>4. Place(q, d[P[h]].id) = h
  <2>1. (CHOOSE i \in {h} : TRUE) = h
    BY Zenon
  <2> QED BY <1>3, <2>1, Zenon DEF Place
<1>5. Chosen(q, d[P[h]].id) = P[h]
  BY <1>1, <1>4, Zenon DEF Chosen
<1> QED BY <1>4, <1>5, Zenon DEF q

Unlinks(d, P, m, h, e) ==
  /\ Rewritten(d, e) /\ Dropped(d, P, m, h, e)
  /\ \A p \in 1 .. Len(d) : (\A j \in 1 .. m : p # P[j]) => e[p].next = d[p].next
LEMMA UnlinkedIs ==
  ASSUME NEW d, NEW first, NEW P, NEW m, ListOf(d, first, P, m), NEW free, NEW nid,
         IsSeq(d), AllEntries(d), Distinct(d, P, m), NEW h \in 1 .. m
  PROVE  \E e : /\ Unlinks(d, P, m, h, e)
                /\ Unlinked(QueueOf(d, first, free, nid), d[P[h]].id) =
                     QueueOf(e, IF h = 1 THEN d[P[1]].next ELSE first, free, nid)
<1> DEFINE q == QueueOf(d, first, free, nid)
           id == d[P[h]].id
           x == d[P[h]].next
           prev == IF h = 1 THEN 0 ELSE P[h - 1]
<1>1. /\ m \in Nat /\ DOMAIN P = 1 .. m /\ (\A i \in 1 .. m : P[i] \in 1 .. Len(d) /\ P[i] # 0)
      /\ \A i, j \in 1 .. m : P[i] = P[j] => i = j
  BY ListIs
<1>0. q.desc = d
  BY DEF QueueOf
<1>2. Place(q, id) = h /\ Chosen(q, id) = P[h] /\ Pending(q) = P /\ q.desc = d
  <2>1. Pending(q) = P
    BY PendingIs, Zenon
  <2>2. Place(q, id) = h /\ Chosen(q, id) = P[h]
    BY ChosenIs
  <2> QED BY <1>0, <2>1, <2>2, Zenon
<1>3. Unlinked(q, id) = Link(q, prev, x)
  <2> HIDE DEF q, id
  <2> QED BY <1>2, Zenon DEF Unlinked
<1>4. Link(q, prev, x) = QueueOf(IF prev = 0 THEN d ELSE [d EXCEPT ![prev].next = x], IF prev = 0 THEN x ELSE first, free, nid)
  <2>1. LinkSets(d, first, free, nid, prev, x)
    BY LinkIs, Zenon
  <2> QED BY <2>1, Zenon DEF LinkSets
<1>5. CASE h = 1
  <2>1. Unlinked(q, id) = QueueOf(d, d[P[1]].next, free, nid)
    BY <1>3, <1>4, <1>5, Zenon
  <2>2. Rewritten(d, d)
    BY Zenon DEF Rewritten, AllEntries, Same
  <2>3. Unlinks(d, P, m, h, d)
    BY <1>5, <2>2, Zenon DEF Unlinks, Dropped
  <2> QED BY <1>5, <2>1, <2>3, Zenon
<1>6. CASE h # 1
  <2>1. h - 1 \in 1 .. m
    BY <1>1, <1>6
  <2>2. prev = P[h - 1] /\ prev # 0 /\ prev \in 1 .. Len(d)
    BY <1>1, <1>6, <2>1, Zenon
  <2> HIDE DEF prev
  <2>3. PICK e : NextSet(d, prev, x, e)
    BY Zenon DEF NextSet
  <2>4. Unlinked(q, id) = QueueOf(e, first, free, nid)
    BY <1>3, <1>4, <2>2, <2>3, Zenon DEF NextSet
  <2>5. Rewritten(d, e) /\ e[prev].next = x /\ \A j \in 1 .. Len(d) : j # prev => e[j].next = d[j].next
    BY <2>2, <2>3, NextSetIs DEF Relinked
  <2>6. \A j \in 1 .. m : j # h - 1 => P[j] # prev /\ P[j] \in 1 .. Len(d)
    BY <1>1, <2>1, <2>2, Zenon
  <2>7. Unlinks(d, P, m, h, e)
    BY <2>1, <2>2, <2>5, <2>6, Zenon DEF Unlinks, Dropped
  <2> QED BY <1>6, <2>4, <2>7, Zenon
<1> QED BY <1>5, <1>6

\* A set of places with all those before them.
LEMMA FirstPlaces ==
  ASSUME NEW n \in Nat, NEW K \in SUBSET (1 .. n), \A i \in K : \A j \in 1 .. i : j \in K
  PROVE  Cardinality(K) \in 0 .. n /\ K = 1 .. Cardinality(K)
<1> DEFINE T == {x \in Nat : x + 1 \notin K}
<1>1. T \in SUBSET Nat /\ n \in T
  OBVIOUS
<1>2. PICK c \in T : \A y \in T : c <= y
  BY <1>1, LeastExists, Zenon
<1>3. c \in Nat /\ c + 1 \notin K /\ c <= n
  BY <1>1, <1>2
<1>4. \A i \in 1 .. c : i \in K
  <2> TAKE i \in 1 .. c
  <2>1. i - 1 \in Nat /\ ~(c <= i - 1) /\ (i - 1) + 1 = i
    BY <1>3
  <2>2. i - 1 \notin T
    BY <1>2, <2>1
  <2> QED BY <2>1, <2>2
<1>5. \A i \in K : i \in 1 .. c
  <2> TAKE i \in K
  <2>1. ASSUME i > c PROVE FALSE
    <3>1. c + 1 \in 1 .. i
      BY <1>3, <2>1
    <3> QED BY <1>3, <3>1
  <2> QED BY <1>3, <2>1
<1>6. K = 1 .. c
  BY <1>4, <1>5
<1>7. Cardinality(K) = c
  BY <1>3, <1>6, FirstNumbers, Zenon
<1> QED BY <1>3, <1>6, <1>7

\* The descriptors, with one more when none is free.
NewOf(d, free) == IF free = 0 THEN Len(d) + 1 ELSE free
Allocated(d, free, d1) ==
  /\ IsSeq(d1) /\ Len(d1) = IF free = 0 THEN Len(d) + 1 ELSE Len(d)
  /\ AllEntries(d1) /\ NewOf(d, free) \in 1 .. Len(d1)
  /\ \A p \in 1 .. Len(d) : d1[p] = d[p]
Allocates(d, free, d1) ==
  d1 = IF free = 0 THEN Append(d, [when |-> 0, id |-> 0, action |-> "write", next |-> 0]) ELSE d
LEMMA AllocatedIs ==
  ASSUME NEW d, IsSeq(d), AllEntries(d), NEW free \in 0 .. Len(d), NEW d1, Allocates(d, free, d1)
  PROVE  Allocated(d, free, d1)
<1>0. Len(d) \in Nat
  BY SeqIs
<1>1. CASE free = 0
  <2>1. PICK r : r = [when |-> 0, id |-> 0, action |-> "write", next |-> 0]
    OBVIOUS
  <2>2. Grows(d, r, d1)
    BY <1>1, <2>1, Zenon DEF Grows, Allocates
  <2>3. /\ IsSeq(d1) /\ Len(d1) = Len(d) + 1
        /\ d1[Len(d) + 1] = r /\ \A k \in 1 .. Len(d) : d1[k] = d[k]
    BY <2>2, AppendIs DEF Grown
  <2>4. Entry(r)
    BY <2>1 DEF Entry
  <2>5. AllEntries(d1)
    <3> SUFFICES ASSUME NEW p \in 1 .. Len(d1) PROVE Entry(d1[p])
      BY Zenon DEF AllEntries
    <3>1. p \in 1 .. Len(d) \/ p = Len(d) + 1
      BY <1>0, <2>3
    <3> QED BY <2>3, <2>4, <3>1, Zenon DEF AllEntries
  <2>6. NewOf(d, free) \in 1 .. Len(d1)
    BY <1>0, <1>1, <2>3 DEF NewOf
  <2> QED BY <1>1, <2>3, <2>5, <2>6, Zenon DEF Allocated
<1>2. CASE free # 0
  <2>1. d1 = d
    BY <1>2, Zenon DEF Allocates
  <2>2. NewOf(d, free) \in 1 .. Len(d)
    BY <1>0, <1>2 DEF NewOf
  <2> QED BY <1>2, <2>1, <2>2, Zenon DEF Allocated
<1> QED BY <1>1, <1>2

\* Where the new event goes, and what is written for that.
Sorted(d, P, m) ==
  (\A i \in 1 .. m : d[P[i]].when \in Nat) /\ \A i, j \in 1 .. m : i < j => d[P[i]].when <= d[P[j]].when
PlaceOf(d, P, m, when, k) ==
  \A i \in 1 .. m : IF i <= k THEN d[P[i]].when < when ELSE ~(d[P[i]].when < when)
PlaceChosen(d, P, m, when, k) ==
  /\ k \in 0 .. m /\ PlaceOf(d, P, m, when, k)
  /\ k = Cardinality({i \in 1 .. m : \A j \in 1 .. i : d[P[j]].when < when})
LEMMA QueuePlaceIs ==
  ASSUME NEW d, NEW P, NEW m \in Nat, Sorted(d, P, m), NEW when \in Nat
  PROVE  \E k : PlaceChosen(d, P, m, when, k)
<1> DEFINE K == {i \in 1 .. m : \A j \in 1 .. i : d[P[j]].when < when}
           k == Cardinality(K)
<1>1. k \in 0 .. m /\ K = 1 .. k
  <2>1. \A i \in K : \A j \in 1 .. i : j \in K
    OBVIOUS
  <2>2. K \in SUBSET (1 .. m)
    OBVIOUS
  <2> HIDE DEF K
  <2> QED BY <2>1, <2>2, FirstPlaces
<1>2. \A i \in 1 .. m : i \in K <=> \A j \in 1 .. i : d[P[j]].when < when
  OBVIOUS
<1> HIDE DEF k
<1>3. \A i \in 1 .. m : i \in K <=> i <= k
  <2> HIDE DEF K
  <2> QED BY <1>1
<1> HIDE DEF K
<1>4. \A i \in 1 .. m : i <= k => d[P[i]].when < when
  <2> TAKE i \in 1 .. m
  <2> HAVE i <= k
  <2>1. \A j \in 1 .. i : d[P[j]].when < when
    BY <1>2, <1>3, Zenon
  <2>2. i \in 1 .. i
    OBVIOUS
  <2> QED BY <2>1, <2>2, Zenon
<1>5. \A i \in 1 .. m : ~(i <= k) => ~(d[P[i]].when < when)
  <2> SUFFICES ASSUME NEW i \in 1 .. m, ~(i <= k), d[P[i]].when < when PROVE FALSE
    BY Zenon
  <2>1. \A j \in 1 .. i : d[P[j]].when < when
    <3> TAKE j \in 1 .. i
    <3>1. j \in 1 .. m /\ (j < i \/ j = i)
      OBVIOUS
    <3>2. d[P[j]].when \in Nat /\ d[P[i]].when \in Nat /\ (j < i => d[P[j]].when <= d[P[i]].when)
      BY <3>1 DEF Sorted
    <3> QED BY <3>1, <3>2
  <2> QED BY <1>2, <1>3, <2>1, Zenon
<1>6. PlaceOf(d, P, m, when, k)
  BY <1>4, <1>5, Zenon DEF PlaceOf
<1>7. PlaceChosen(d, P, m, when, k)
  BY <1>1, <1>6, Zenon DEF PlaceChosen, k, K
<1> QED BY <1>7, Zenon

Queues(d, P, m, free, nid, when, action, k, e) ==
  /\ IsSeq(e) /\ Len(e) = IF free = 0 THEN Len(d) + 1 ELSE Len(d)
  /\ NewOf(d, free) \in 1 .. Len(e)
  /\ Entry(e[NewOf(d, free)])
  /\ Same(e[NewOf(d, free)], [when |-> when, id |-> nid, action |-> action])
  /\ e[NewOf(d, free)].next = At(P, m, k + 1)
  /\ k # 0 => e[P[k]].next = NewOf(d, free)
  /\ \A p \in 1 .. Len(d) : p # NewOf(d, free) =>
       /\ Entry(e[p]) /\ Same(e[p], d[p])
       /\ k = 0 \/ p # P[k] => e[p].next = d[p].next

QueueEventDoes(d, first, P, m, free, nid, when, action) ==
  \E k, e :
           /\ k \in 0 .. m /\ PlaceOf(d, P, m, when, k) /\ Queues(d, P, m, free, nid, when, action, k, e)
           /\ QueueEvent(QueueOf(d, first, free, nid), when, action) =
                QueueOf(e, IF k = 0 THEN NewOf(d, free) ELSE first, IF free = 0 THEN 0 ELSE d[free].next, nid + 1)
LEMMA QueueEventIs ==
  ASSUME NEW d, NEW first, NEW P, NEW m, ListOf(d, first, P, m), IsSeq(d), AllEntries(d), Sorted(d, P, m),
         NEW free \in 0 .. Len(d), \A i \in 1 .. m : P[i] # free,
         NEW nid, NEW when \in Nat, NEW action
  PROVE  QueueEventDoes(d, first, P, m, free, nid, when, action)
<1> DEFINE q == QueueOf(d, first, free, nid)
           fresh == free = 0
           new == NewOf(d, free)
<1>1. /\ m \in Nat /\ Len(d) \in Nat /\ DOMAIN P = 1 .. m
      /\ (\A i \in 1 .. m : P[i] \in 1 .. Len(d) /\ P[i] # 0)
      /\ \A i, j \in 1 .. m : P[i] = P[j] => i = j
  BY ListIs
<1>2. first = At(P, m, 1) /\ \A i \in 1 .. m : d[P[i]].next = At(P, m, i + 1)
  BY DEF ListOf, Linked
<1>3. Pending(q) = P /\ q.desc = d /\ q.pending = first /\ q.free = free /\ q.id = nid
  <2>1. Pending(q) = P
    BY PendingIs, Zenon
  <2>2. q.desc = d /\ q.pending = first /\ q.free = free /\ q.id = nid
    BY DEF QueueOf
  <2> QED BY <2>1, <2>2
<1>4. PICK d1 : Allocates(d, free, d1)
  BY Zenon DEF Allocates
<1>5. /\ IsSeq(d1) /\ Len(d1) = IF free = 0 THEN Len(d) + 1 ELSE Len(d)
      /\ AllEntries(d1) /\ new \in 1 .. Len(d1) /\ \A p \in 1 .. Len(d) : d1[p] = d[p]
  BY <1>4, AllocatedIs DEF Allocated
<1>6. new = IF fresh THEN Len(d1) ELSE free
  BY <1>5 DEF NewOf
<1>7. \A i \in 1 .. m : P[i] # new /\ d1[P[i]] = d[P[i]]
  <2> TAKE i \in 1 .. m
  <2>1. P[i] \in 1 .. Len(d) /\ P[i] # free
    BY <1>1
  <2>2. P[i] # Len(d) + 1
    BY <1>1, <2>1
  <2> QED BY <1>5, <2>1, <2>2, Zenon DEF NewOf
<1> HIDE DEF new
<1>8. Sorted(d1, P, m)
  BY <1>7, Zenon DEF Sorted
<1>9. PICK k : /\ k \in 0 .. m /\ PlaceOf(d1, P, m, when, k)
               /\ k = Cardinality({i \in 1 .. m : \A j \in 1 .. i : d1[P[j]].when < when})
  <2>1. \E k : PlaceChosen(d1, P, m, when, k)
    BY <1>1, <1>8, QueuePlaceIs
  <2> QED BY <2>1, Zenon DEF PlaceChosen
<1>10. PlaceOf(d, P, m, when, k)
  BY <1>7, <1>9, Zenon DEF PlaceOf
<1> DEFINE prev == IF k = 0 THEN 0 ELSE P[k]
           succ == IF k = 0 THEN first ELSE d1[prev].next
<1>11. k # 0 => k \in 1 .. m
  BY <1>1, <1>9
<1>12. /\ succ = At(P, m, k + 1) /\ (k # 0 => prev = P[k] /\ prev # 0 /\ prev \in 1 .. Len(d) /\ prev # new)
       /\ (k = 0 <=> prev = 0)
  <2>1. CASE k = 0
    <3>1. k + 1 = 1
      BY <2>1
    <3> QED BY <1>2, <2>1, <3>1, Zenon
  <2>2. CASE k # 0
    <3>1. prev = P[k] /\ prev # 0 /\ prev \in 1 .. Len(d) /\ prev # new
      BY <1>1, <1>7, <1>11, <2>2, Zenon
    <3>2. succ = At(P, m, k + 1)
      BY <1>2, <1>7, <1>11, <2>2, Zenon
    <3> QED BY <2>2, <3>1, <3>2, Zenon
  <2> QED BY <2>1, <2>2
<1> HIDE DEF succ
<1>13. PICK r : r = [when |-> when, id |-> nid, action |-> action, next |-> succ]
  OBVIOUS
<1>14. Entry(r) /\ Same(r, [when |-> when, id |-> nid, action |-> action]) /\ r.next = succ
  BY <1>13 DEF Entry, Same
<1>15. PICK d2 : WithAt(d1, new, r, d2)
  BY Zenon DEF WithAt
<1>16. /\ IsSeq(d2) /\ Len(d2) = Len(d1) /\ d2[new] = r /\ \A j \in 1 .. Len(d1) : j # new => d2[j] = d1[j]
  BY <1>5, <1>15, ExceptIs
<1>17. AllEntries(d2)
  BY <1>5, <1>14, <1>16, Zenon DEF AllEntries
<1> DEFINE f2 == IF fresh THEN 0 ELSE d1[new].next
           q1 == [q EXCEPT !.desc = d2, !.free = f2, !.id = @ + 1]
<1>18. QueueEvent(q, when, action) = Link(q1, prev, new)
  <2> HIDE DEF q
  <2> QED BY <1>1, <1>3, <1>4, <1>6, <1>9, <1>13, <1>15, Zenon DEF QueueEvent, Allocates, WithAt, succ
<1>19. q1 = QueueOf(d2, first, f2, nid + 1)
  <2> HIDE DEF f2
  <2>1. [q EXCEPT !.desc = d2] = QueueOf(d2, first, free, nid)
    BY DEF QueueOf
  <2>2. [QueueOf(d2, first, free, nid) EXCEPT !.free = f2] = QueueOf(d2, first, f2, nid)
    BY DEF QueueOf
  <2>3. [QueueOf(d2, first, f2, nid) EXCEPT !.id = @ + 1] = QueueOf(d2, first, f2, nid + 1)
    BY DEF QueueOf
  <2> HIDE DEF q
  <2>4. q1 = [[[q EXCEPT !.desc = d2] EXCEPT !.free = f2] EXCEPT !.id = @ + 1]
    BY Zenon
  <2> QED BY <2>1, <2>2, <2>3, <2>4, Zenon
<1>20. f2 = IF free = 0 THEN 0 ELSE d[free].next
  <2>1. free # 0 => new = free /\ free \in 1 .. Len(d)
    BY <1>1, <1>6
  <2> QED BY <1>5, <2>1, Zenon
<1> HIDE DEF f2, q1
<1>21. PICK e : e = IF prev = 0 THEN d2 ELSE [d2 EXCEPT ![prev].next = new]
  OBVIOUS
<1>22. Link(q1, prev, new) = QueueOf(e, IF k = 0 THEN new ELSE first, f2, nid + 1)
  <2> HIDE DEF prev
  <2>0. PICK g, i : g = f2 /\ i = nid + 1
    OBVIOUS
  <2>1. LinkSets(d2, first, g, i, prev, new)
    BY LinkIs, Zenon
  <2>2. Link(q1, prev, new) = QueueOf(e, IF prev = 0 THEN new ELSE first, f2, nid + 1)
    BY <1>19, <1>21, <2>0, <2>1, Zenon DEF LinkSets
  <2> QED BY <1>12, <2>2, Zenon
<1>23. \A p \in 1 .. Len(d) : p \in 1 .. Len(d1) /\ (p # new => d2[p] = d[p])
  BY <1>1, <1>5, <1>16
<1>24. Queues(d, P, m, free, nid, when, action, k, e)
  <2>1. CASE k = 0
    <3>1. e = d2
      BY <1>12, <1>21, <2>1, Zenon
    <3>2. \A p \in 1 .. Len(d) : p # new => Entry(e[p]) /\ Same(e[p], d[p]) /\ e[p].next = d[p].next
      BY <1>17, <1>16, <1>23, <3>1, Zenon DEF AllEntries, Same
    <3>3. e[new] = r /\ IsSeq(e) /\ Len(e) = Len(d1)
      BY <1>16, <3>1, Zenon
    <3> QED BY <1>5, <1>12, <1>14, <2>1, <3>2, <3>3, Zenon DEF Queues, new
  <2>2. CASE k # 0
    <3>1. prev = P[k] /\ prev # 0 /\ prev \in 1 .. Len(d) /\ prev # new
      BY <1>12, <2>2, Zenon
    <3>2. prev \in 1 .. Len(d2) /\ NextSet(d2, prev, new, e)
      BY <1>16, <1>21, <1>23, <3>1, Zenon DEF NextSet
    <3> HIDE DEF prev
    <3>3. Relinked(d2, prev, new, e)
      BY <1>16, <1>17, <3>2, NextSetIs
    <3>4. /\ IsSeq(e) /\ Len(e) = Len(d1) /\ (\A j \in 1 .. Len(d1) : Entry(e[j]) /\ Same(e[j], d2[j]))
          /\ e[prev].next = new /\ \A j \in 1 .. Len(d1) : j # prev => e[j].next = d2[j].next
      BY <1>16, <3>3, Zenon DEF Relinked, Rewritten
    <3>5. Entry(e[new]) /\ Same(e[new], [when |-> when, id |-> nid, action |-> action]) /\ e[new].next = succ
      BY <1>5, <1>14, <1>16, <3>1, <3>4, Zenon DEF Same
    <3>6. \A p \in 1 .. Len(d) : p # new =>
            Entry(e[p]) /\ Same(e[p], d[p]) /\ (p # prev => e[p].next = d[p].next)
      BY <1>23, <3>4, Zenon
    <3> QED BY <1>5, <1>12, <2>2, <3>1, <3>4, <3>5, <3>6, Zenon DEF Queues, new
  <2> QED BY <2>1, <2>2
<1>25. QueueEvent(q, when, action) =
         QueueOf(e, IF k = 0 THEN NewOf(d, free) ELSE first, IF free = 0 THEN 0 ELSE d[free].next, nid + 1)
  BY <1>18, <1>20, <1>22, Zenon DEF new
<1> HIDE DEF q
<1>26. \E kk, ee :
           /\ kk \in 0 .. m /\ PlaceOf(d, P, m, when, kk) /\ Queues(d, P, m, free, nid, when, action, kk, ee)
           /\ QueueEvent(q, when, action) =
                QueueOf(ee, IF kk = 0 THEN NewOf(d, free) ELSE first, IF free = 0 THEN 0 ELSE d[free].next, nid + 1)
  BY <1>9, <1>10, <1>24, <1>25, Zenon
<1> QED BY <1>26, Zenon DEF q, QueueEventDoes

\* A descriptor given to the free list.
Freeing(d, first, free, id, p) ==
  \E e : Relinked(d, p, free, e) /\ Freed(QueueOf(d, first, free, id), p) = QueueOf(e, first, p, id)
LEMMA FreeingIs ==
  ASSUME NEW d, IsSeq(d), AllEntries(d), NEW first, NEW free, NEW id, NEW p \in 1 .. Len(d)
  PROVE  Freeing(d, first, free, id, p)
<1>1. PICK e : NextSet(d, p, free, e)
  BY Zenon DEF NextSet
<1>2. Relinked(d, p, free, e)
  BY <1>1, NextSetIs
<1>3. Freed(QueueOf(d, first, free, id), p) = QueueOf(e, first, p, id)
  <2>1. FreedSets(d, first, free, id, p)
    BY FreedIs, Zenon
  <2> QED BY <1>1, <2>1, Zenon DEF NextSet, FreedSets
<1> QED BY <1>2, <1>3, Zenon DEF Freeing

\* Where a place of a list goes when another is inserted behind the k-th, and back.
To(k, j) == IF j <= k THEN j ELSE j + 1
From(k, i) == IF i <= k THEN i ELSE i - 1
Inserts(P, m, k, x, Q) == Q = InsertAt(P, m, k, x)
LEMMA InsertPlaces ==
  ASSUME NEW m \in Nat, NEW k \in 0 .. m, NEW P, NEW x, NEW Q, Inserts(P, m, k, x, Q)
  PROVE  /\ k + 1 \in 1 .. m + 1 /\ Q[k + 1] = x
         /\ \A i \in 1 .. m + 1 : i # k + 1 => From(k, i) \in 1 .. m /\ Q[i] = P[From(k, i)]
         /\ \A j \in 1 .. m : To(k, j) \in 1 .. m + 1 /\ To(k, j) # k + 1 /\ Q[To(k, j)] = P[j]
<1>1. \A i \in 1 .. m + 1 : Q[i] = IF i <= k THEN P[i] ELSE IF i = k + 1 THEN x ELSE P[i - 1]
  BY Zenon DEF Inserts, InsertAt
<1>2. k + 1 \in 1 .. m + 1 /\ Q[k + 1] = x
  BY <1>1
<1>3. \A i \in 1 .. m + 1 : i # k + 1 => From(k, i) \in 1 .. m /\ Q[i] = P[From(k, i)]
  BY <1>1 DEF From
<1>4. \A j \in 1 .. m : To(k, j) \in 1 .. m + 1 /\ To(k, j) # k + 1 /\ Q[To(k, j)] = P[j]
  <2> TAKE j \in 1 .. m
  <2>1. CASE j <= k
    BY <1>1, <2>1 DEF To
  <2>2. CASE ~(j <= k)
    <3>1. j + 1 \in 1 .. m + 1 /\ ~(j + 1 <= k) /\ j + 1 # k + 1 /\ (j + 1) - 1 = j
      BY <2>2
    <3>2. Q[j + 1] = P[j]
      BY <1>1, <2>2
    <3> QED BY <2>2, <3>1, <3>2, Zenon DEF To
  <2> QED BY <2>1, <2>2
<1> QED BY <1>2, <1>3, <1>4

Drops(P, m, h, Q) == Q = DropAt(P, m, h)
LEMMA DropPlaces ==
  ASSUME NEW m \in Nat, NEW h \in 1 .. m, NEW P, NEW Q, Drops(P, m, h, Q)
  PROVE  /\ \A i \in 1 .. m - 1 : To(h - 1, i) \in 1 .. m /\ To(h - 1, i) # h /\ Q[i] = P[To(h - 1, i)]
         /\ \A j \in 1 .. m : j # h => From(h - 1, j) \in 1 .. m - 1 /\ Q[From(h - 1, j)] = P[j]
<1>1. \A i \in 1 .. m - 1 : Q[i] = IF i < h THEN P[i] ELSE P[i + 1]
  BY Zenon DEF Drops, DropAt
<1>2. \A i \in 1 .. m - 1 : To(h - 1, i) \in 1 .. m /\ To(h - 1, i) # h /\ Q[i] = P[To(h - 1, i)]
  BY <1>1 DEF To
<1>3. \A j \in 1 .. m : j # h => From(h - 1, j) \in 1 .. m - 1 /\ Q[From(h - 1, j)] = P[j]
  <2> TAKE j \in 1 .. m
  <2>1. CASE j < h
    BY <1>1, <2>1 DEF From
  <2>2. CASE j > h
    <3>1. j - 1 \in 1 .. m - 1 /\ ~(j - 1 < h) /\ ~(j <= h - 1) /\ (j - 1) + 1 = j
      BY <2>2
    <3> QED BY <1>1, <3>1, Zenon DEF From
  <2> QED BY <2>1, <2>2
<1> QED BY <1>2, <1>3
LEMMA Moves ==
  ASSUME NEW m \in Nat, NEW k \in Int
  PROVE  /\ \A i, j \in 1 .. m : i < j <=> To(k, i) < To(k, j)
         /\ \A i, j \in 1 .. m + 1 : i # k + 1 /\ j # k + 1 => (i < j <=> From(k, i) < From(k, j))
         /\ \A i \in 1 .. m : (To(k, i) < k + 1 <=> i <= k) /\ (To(k, i) > k + 1 <=> i > k)
  BY DEF To, From

-----------------------------------------------------------------------------
(* The event queue: its invariant.                                         *)

Apart(P, m, F, n) == \A i \in 1 .. m : \A j \in 1 .. n : P[i] # F[j]
IdsOK(P, m) ==
  /\ next_ID \in Nat \ {0}
  /\ \A i \in 1 .. m : desc[P[i]].id \in 1 .. next_ID - 1
  /\ Distinct(desc, P, m)
HistoryOK2 ==
  /\ DOMAIN alive \subseteq 1 .. next_ID - 1 /\ missed \subseteq 1 .. next_ID - 1
  /\ IsSeq(performed) /\ Injected(performed, Len(performed))
  /\ \A k \in 1 .. Len(performed) : performed[k] \in (1 .. next_ID - 1) \ DOMAIN alive
InService == performing # <<>> /\ servicing # -1
Alive(e) == e.id \in DOMAIN alive \ missed /\ e.when = alive[e.id]
AliveOK(P, m) ==
  /\ \A i \in 1 .. m : IF InService /\ P[i] = performing[1].ev THEN desc[P[i]].id \notin DOMAIN alive
                       ELSE Alive(desc[P[i]])
  /\ \A x \in DOMAIN alive \ missed : \E i \in 1 .. m : desc[P[i]].id = x
\* What is performed: off the lists, but for the event that is serviced.
CallsOK(P, m, F, n) ==
  /\ IsSeq(performing) /\ servicing \in Nat \cup {-1}
  /\ \A k \in 1 .. Len(performing) :
       /\ performing[k].ev \in 1 .. Len(desc) /\ performing[k].since \in 1 .. next_ID
       /\ \A j \in 1 .. n : performing[k].ev # F[j]
       /\ k > 1 \/ servicing = -1 => \A i \in 1 .. m : performing[k].ev # P[i]
  /\ \A j, k \in 1 .. Len(performing) : performing[j].ev = performing[k].ev => j = k
\* The event that is serviced: in front of it is what is queued meanwhile for no later.
Front(P, m, c, h) ==
  /\ P[h] = c.ev
  /\ \A i \in 1 .. m : i < h => desc[P[i]].id >= c.since
  /\ \A i \in 1 .. m : i > h /\ desc[P[i]].id >= c.since => desc[P[i]].when > desc[c.ev].when
ServiceOK(P, m) == InService => \E h \in 1 .. m : Front(P, m, performing[1], h)
NoLeak(P, m, F, n) ==
  missed = {} => \A p \in 1 .. Len(desc) :
    \/ \E i \in 1 .. m : p = P[i]
    \/ \E j \in 1 .. n : p = F[j]
    \/ \E k \in 1 .. Len(performing) : p = performing[k].ev
EvWith(P, m, F, n) ==
  /\ IsSeq(desc) /\ AllEntries(desc) /\ ListOf(desc, eventq_pending, P, m) /\ ListOf(desc, eventq_free, F, n)
  /\ Apart(P, m, F, n) /\ Sorted(desc, P, m) /\ IdsOK(P, m) /\ HistoryOK2 /\ AliveOK(P, m)
  /\ CallsOK(P, m, F, n) /\ ServiceOK(P, m) /\ NoLeak(P, m, F, n)
EvInv == ~crossed => \E P, m, F, n : EvWith(P, m, F, n)

\* The free list without the descriptor that was taken from it.
Without(F, n, new, G, l) ==
  /\ \A j \in 1 .. l : G[j] # new /\ \E i \in 1 .. n : G[j] = F[i]
  /\ \A i \in 1 .. n : F[i] = new \/ \E j \in 1 .. l : F[i] = G[j]
\* What eventq_queue() does to the descriptors and to the two lists.
QueueStep(P, m, F, n, when, k, new, Q, G, n2) ==
  /\ k \in 0 .. m /\ PlaceOf(desc, P, m, when, k) /\ Inserts(P, m, k, new, Q)
  /\ new \in 1 .. Len(desc') /\ (\A i \in 1 .. m : P[i] # new)
  /\ \A c \in 1 .. Len(performing) : performing[c].ev # new
  /\ IsSeq(desc') /\ AllEntries(desc') /\ Len(desc') \in Nat /\ Len(desc) <= Len(desc')
  /\ \A p \in 1 .. Len(desc') : p = new \/ p \in 1 .. Len(desc)
  /\ desc'[new].when = when /\ desc'[new].id = next_ID
  /\ \A p \in 1 .. Len(desc) : p # new => Same(desc'[p], desc[p])
  /\ ListOf(desc', eventq_pending', Q, m + 1) /\ ListOf(desc', eventq_free', G, n2)
  /\ Without(F, n, new, G, n2) /\ next_ID' = next_ID + 1

\* The facts on the lists every step starts from.
LEMMA ListsAre ==
  ASSUME NEW P, NEW m, NEW F, NEW n, EvWith(P, m, F, n)
  PROVE  /\ m \in Nat /\ n \in Nat /\ Len(desc) \in Nat /\ next_ID \in Nat \ {0}
         /\ (\A i \in 1 .. m : P[i] \in 1 .. Len(desc) /\ P[i] # 0)
         /\ (\A i, j \in 1 .. m : P[i] = P[j] => i = j)
         /\ (\A i \in 1 .. n : F[i] \in 1 .. Len(desc) /\ F[i] # 0)
         /\ (\A i, j \in 1 .. n : F[i] = F[j] => i = j)
         /\ \A i \in 1 .. m : \A j \in 1 .. n : P[i] # F[j]
<1>1. ListOf(desc, eventq_pending, P, m) /\ ListOf(desc, eventq_free, F, n) /\ Apart(P, m, F, n)
      /\ next_ID \in Nat \ {0}
  BY Zenon DEF EvWith, IdsOK
<1>2. /\ m \in Nat /\ Len(desc) \in Nat /\ (\A i \in 1 .. m : P[i] \in 1 .. Len(desc) /\ P[i] # 0)
      /\ (\A i, j \in 1 .. m : P[i] = P[j] => i = j)
  BY <1>1, ListIs
<1>3. /\ n \in Nat /\ (\A i \in 1 .. n : F[i] \in 1 .. Len(desc) /\ F[i] # 0)
      /\ (\A i, j \in 1 .. n : F[i] = F[j] => i = j)
  BY <1>1, ListIs
<1> QED BY <1>1, <1>2, <1>3, Zenon DEF Apart

LEMMA QueueSteps ==
  ASSUME NEW P, NEW m, NEW F, NEW n, EvWith(P, m, F, n),
         NEW when \in Nat, NEW action, eventq_queue(when, action)
  PROVE  \E k, new, Q, G, n2 : QueueStep(P, m, F, n, when, k, new, Q, G, n2)
<1> DEFINE free == eventq_free
           new == NewOf(desc, free)
<1>1. /\ m \in Nat /\ n \in Nat /\ Len(desc) \in Nat /\ next_ID \in Nat \ {0}
      /\ (\A i \in 1 .. m : P[i] \in 1 .. Len(desc) /\ P[i] # 0)
      /\ (\A i, j \in 1 .. m : P[i] = P[j] => i = j)
      /\ (\A i \in 1 .. n : F[i] \in 1 .. Len(desc) /\ F[i] # 0)
      /\ (\A i, j \in 1 .. n : F[i] = F[j] => i = j)
      /\ \A i \in 1 .. m : \A j \in 1 .. n : P[i] # F[j]
  BY ListsAre
<1>2. /\ IsSeq(desc) /\ AllEntries(desc) /\ Sorted(desc, P, m)
      /\ ListOf(desc, eventq_pending, P, m) /\ ListOf(desc, free, F, n) /\ CallsOK(P, m, F, n)
  BY Zenon DEF EvWith
<1>3. free = At(F, n, 1)
  BY <1>2, Zenon DEF ListOf
<1>4. (free = 0 /\ n = 0) \/ (free = F[1] /\ n # 0 /\ 1 \in 1 .. n /\ free # 0)
  <2>1. CASE n = 0
    <3>1. 1 \notin 1 .. n
      BY <2>1
    <3> QED BY <1>3, <2>1, <3>1, Zenon DEF At
  <2>2. CASE n # 0
    <3>1. 1 \in 1 .. n
      BY <1>1, <2>2
    <3> QED BY <1>1, <1>3, <2>2, <3>1, Zenon DEF At
  <2> QED BY <2>1, <2>2
<1>5. free \in 0 .. Len(desc) /\ \A i \in 1 .. m : P[i] # free
  <2>1. CASE free = 0
    BY <1>1, <2>1
  <2>2. CASE free # 0
    <3>1. free \in 1 .. Len(desc)
      BY <1>1, <1>4, <2>2, Zenon
    <3> QED BY <1>1, <1>4, <2>2, <3>1
  <2> QED BY <2>1, <2>2
<1>6. PICK k, e :
           /\ k \in 0 .. m /\ PlaceOf(desc, P, m, when, k) /\ Queues(desc, P, m, free, next_ID, when, action, k, e)
           /\ QueueEvent(QueueOf(desc, eventq_pending, free, next_ID), when, action) =
                QueueOf(e, IF k = 0 THEN NewOf(desc, free) ELSE eventq_pending,
                        IF free = 0 THEN 0 ELSE desc[free].next, next_ID + 1)
  <2> HIDE DEF free
  <2>1. QueueEventDoes(desc, eventq_pending, P, m, free, next_ID, when, action)
    BY <1>2, <1>5, QueueEventIs
  <2> QED BY <2>1, Zenon DEF QueueEventDoes
<1> k \in 0 .. m
  BY <1>6
<1> HIDE DEF new
<1>7. /\ desc' = e /\ eventq_pending' = (IF k = 0 THEN new ELSE eventq_pending)
      /\ eventq_free' = (IF free = 0 THEN 0 ELSE desc[free].next) /\ next_ID' = next_ID + 1
  <2>1. SetQueue(QueueOf(e, IF k = 0 THEN new ELSE eventq_pending, IF free = 0 THEN 0 ELSE desc[free].next, next_ID + 1))
    BY <1>6, Zenon DEF eventq_queue, Queue, QueueOf, new
  <2>2. PICK a, b, c : /\ a = (IF k = 0 THEN new ELSE eventq_pending)
                       /\ b = (IF free = 0 THEN 0 ELSE desc[free].next) /\ c = next_ID + 1
    OBVIOUS
  <2>3. SetQueue(QueueOf(e, a, b, c))
    BY <2>1, <2>2, Zenon
  <2>4. desc' = e /\ eventq_pending' = a /\ eventq_free' = b /\ next_ID' = c
    BY <2>3 DEF SetQueue, QueueOf
  <2> QED BY <2>2, <2>4, Zenon
<1>8. /\ IsSeq(e) /\ Len(e) = (IF free = 0 THEN Len(desc) + 1 ELSE Len(desc))
      /\ new \in 1 .. Len(e) /\ Entry(e[new]) /\ e[new].when = when /\ e[new].id = next_ID
      /\ e[new].next = At(P, m, k + 1) /\ (k # 0 => e[P[k]].next = new)
      /\ \A p \in 1 .. Len(desc) : p # new =>
           /\ Entry(e[p]) /\ Same(e[p], desc[p]) /\ (k = 0 \/ p # P[k] => e[p].next = desc[p].next)
  <2>1. Same(e[new], [when |-> when, id |-> next_ID, action |-> action])
    BY <1>6, Zenon DEF Queues, new
  <2>2. e[new].when = when /\ e[new].id = next_ID
    BY <2>1 DEF Same
  <2> QED BY <1>6, <2>2, Zenon DEF Queues, new
<1>9. /\ Len(e) \in Nat /\ Len(desc) <= Len(e) /\ (\A p \in 1 .. Len(e) : p = new \/ p \in 1 .. Len(desc))
      /\ (free # 0 => new = free) /\ (free = 0 => new = Len(desc) + 1)
  BY <1>1, <1>8 DEF new, NewOf
<1>10. (\A i \in 1 .. m : P[i] # new) /\ \A p \in 1 .. Len(desc) : free = 0 => p # new
  BY <1>1, <1>5, <1>9
<1>11. AllEntries(e)
  BY <1>8, <1>9, Zenon DEF AllEntries
<1>12. \A c \in 1 .. Len(performing) : performing[c].ev # new
  <2> TAKE c \in 1 .. Len(performing)
  <2>1. performing[c].ev \in 1 .. Len(desc) /\ \A j \in 1 .. n : performing[c].ev # F[j]
    BY <1>2, Zenon DEF CallsOK
  <2>2. CASE free = 0
    BY <1>10, <2>1, <2>2, Zenon
  <2>3. CASE free # 0
    BY <1>4, <1>9, <2>1, <2>3, Zenon
  <2> QED BY <2>2, <2>3
<1>13. PICK Q : Q = InsertAt(P, m, k, new)
  OBVIOUS
<1>14. ListOf(e, IF k = 0 THEN new ELSE eventq_pending, Q, m + 1)
  <2>1. k # 0 => k \in 1 .. m /\ \A i \in 1 .. m : i # k => P[i] # P[k]
    BY <1>1
  <2>2. Inserted(desc, P, m, k, new, e)
    BY <1>1, <1>8, <1>10, <2>1, Zenon DEF Inserted
  <2>3. ListOf(e, IF k = 0 THEN new ELSE eventq_pending, InsertAt(P, m, k, new), m + 1)
    BY <1>2, <1>8, <1>9, <1>10, <2>2, ListInserts
  <2> QED BY <1>13, <2>3, Zenon
<1>15. \A i \in 1 .. n : F[i] # new => e[F[i]].next = desc[F[i]].next
  <2> TAKE i \in 1 .. n
  <2>1. F[i] \in 1 .. Len(desc)
    BY <1>1
  <2>2. k = 0 \/ F[i] # P[k]
    BY <1>1
  <2> QED BY <1>8, <2>1, <2>2, Zenon
<1> DEFINE rest == IF free = 0 THEN 0 ELSE desc[free].next
<1>16. \E G, l : ListOf(e, rest, G, l) /\ Without(F, n, new, G, l)
  <2>1. CASE free = 0
    <3>1. n = 0 /\ \A i \in 1 .. n : FALSE
      BY <1>4, <2>1
    <3>2. ListOf(desc, 0, F, n)
      BY <1>2, <2>1, Zenon
    <3>3. ListOf(e, 0, F, n)
      BY <1>9, <3>1, <3>2, ListKeeps
    <3>4. Without(F, n, new, F, n)
      BY <3>1, Zenon DEF Without
    <3> QED BY <2>1, <3>3, <3>4, Zenon
  <2>2. CASE free # 0
    <3>1. 1 \in 1 .. n /\ free = F[1] /\ new = F[1]
      BY <1>4, <1>9, <2>2, Zenon
    <3>2. PICK G : G = Beyond(F, n, 1)
      OBVIOUS
    <3>3. ListOf(desc, desc[free].next, G, n - 1)
      <4>1. ListOf(desc, desc[F[1]].next, Beyond(F, n, 1), n - 1)
        BY <1>2, <3>1, ListBeyond
      <4> QED BY <3>1, <3>2, <4>1, Zenon
    <3>4. \A j \in 1 .. n - 1 : G[j] = F[j + 1] /\ j + 1 \in 1 .. n /\ j + 1 # 1
      BY <1>1, <3>2 DEF Beyond
    <3>5. \A j \in 1 .. n - 1 : G[j] # new /\ \E i \in 1 .. n : G[j] = F[i]
      BY <1>1, <3>1, <3>4, Zenon
    <3>6. \A i \in 1 .. n : F[i] = new \/ \E j \in 1 .. n - 1 : F[i] = G[j]
      <4> TAKE i \in 1 .. n
      <4>1. CASE i = 1
        BY <3>1, <4>1, Zenon
      <4>2. CASE i # 1
        <5>1. i - 1 \in 1 .. n - 1 /\ (i - 1) + 1 = i
          BY <1>1, <4>2
        <5>2. F[i] = G[i - 1]
          BY <3>4, <5>1, Zenon
        <5> QED BY <5>1, <5>2, Zenon
      <4> QED BY <4>1, <4>2
    <3>7. \A j \in 1 .. n - 1 : e[G[j]].next = desc[G[j]].next
      BY <1>15, <3>5, Zenon
    <3>8. ListOf(e, desc[free].next, G, n - 1)
      BY <1>9, <3>3, <3>7, ListKeeps
    <3>9. ListOf(e, rest, G, n - 1)
      BY <2>2, <3>8, Zenon
    <3>10. Without(F, n, new, G, n - 1)
      BY <3>5, <3>6, Zenon DEF Without
    <3> QED BY <3>9, <3>10, Zenon
  <2> QED BY <2>1, <2>2
<1>17. PICK G, n2 : ListOf(e, rest, G, n2) /\ Without(F, n, new, G, n2)
  BY <1>16, Zenon
<1>18. ListOf(desc', eventq_pending', Q, m + 1) /\ ListOf(desc', eventq_free', G, n2)
  BY <1>7, <1>14, <1>17, Zenon
<1>19. \A p \in 1 .. Len(desc) : p # new => Same(desc'[p], desc[p])
  BY <1>7, <1>8, Zenon
<1>20. /\ new \in 1 .. Len(desc') /\ IsSeq(desc') /\ AllEntries(desc') /\ Len(desc') \in Nat
       /\ Len(desc) <= Len(desc') /\ (\A p \in 1 .. Len(desc') : p = new \/ p \in 1 .. Len(desc))
       /\ desc'[new].when = when /\ desc'[new].id = next_ID
  BY <1>7, <1>8, <1>9, <1>11, Zenon
<1>21. QueueStep(P, m, F, n, when, k, new, Q, G, n2)
  BY <1>6, <1>7, <1>10, <1>12, <1>13, <1>17, <1>18, <1>19, <1>20, Zenon DEF QueueStep, Inserts
<1> QED BY <1>21, Zenon

LEMMA QueueKeeps ==
  ASSUME NEW P, NEW m, NEW F, NEW n, EvWith(P, m, F, n),
         NEW when \in Nat, NEW action, eventq_queue(when, action)
  PROVE  \E Q, m2, G, n2 : EvWith(Q, m2, G, n2)'
<1>1. /\ m \in Nat /\ n \in Nat /\ Len(desc) \in Nat /\ next_ID \in Nat \ {0}
      /\ (\A i \in 1 .. m : P[i] \in 1 .. Len(desc) /\ P[i] # 0)
      /\ (\A i, j \in 1 .. m : P[i] = P[j] => i = j)
      /\ (\A i \in 1 .. n : F[i] \in 1 .. Len(desc) /\ F[i] # 0)
      /\ (\A i, j \in 1 .. n : F[i] = F[j] => i = j)
      /\ \A i \in 1 .. m : \A j \in 1 .. n : P[i] # F[j]
  BY ListsAre
<1>2. /\ IsSeq(desc) /\ AllEntries(desc) /\ Sorted(desc, P, m) /\ IdsOK(P, m) /\ HistoryOK2 /\ AliveOK(P, m)
      /\ CallsOK(P, m, F, n) /\ ServiceOK(P, m) /\ NoLeak(P, m, F, n)
  BY Zenon DEF EvWith
<1>3. PICK k, new, Q, G, n2 : QueueStep(P, m, F, n, when, k, new, Q, G, n2)
  BY QueueSteps
<1>4. /\ k \in 0 .. m /\ PlaceOf(desc, P, m, when, k) /\ Inserts(P, m, k, new, Q)
      /\ new \in 1 .. Len(desc') /\ (\A i \in 1 .. m : P[i] # new)
      /\ (\A c \in 1 .. Len(performing) : performing[c].ev # new)
      /\ IsSeq(desc') /\ AllEntries(desc') /\ Len(desc') \in Nat /\ Len(desc) <= Len(desc')
      /\ (\A p \in 1 .. Len(desc') : p = new \/ p \in 1 .. Len(desc))
      /\ desc'[new].when = when /\ desc'[new].id = next_ID
      /\ (\A p \in 1 .. Len(desc) : p # new => Same(desc'[p], desc[p]))
      /\ ListOf(desc', eventq_pending', Q, m + 1) /\ ListOf(desc', eventq_free', G, n2)
      /\ Without(F, n, new, G, n2) /\ next_ID' = next_ID + 1
  BY <1>3, Zenon DEF QueueStep
<1>5. /\ alive' = [i \in DOMAIN alive \cup {next_ID} |-> IF i = next_ID THEN when ELSE alive[i]]
      /\ servicing' = servicing /\ performing' = performing /\ performed' = performed /\ missed' = missed
  BY Zenon DEF eventq_queue
<1>6. /\ k + 1 \in 1 .. m + 1 /\ Q[k + 1] = new
      /\ \A i \in 1 .. m + 1 : i # k + 1 => From(k, i) \in 1 .. m /\ Q[i] = P[From(k, i)]
      /\ \A j \in 1 .. m : To(k, j) \in 1 .. m + 1 /\ To(k, j) # k + 1 /\ Q[To(k, j)] = P[j]
  BY <1>1, <1>4, InsertPlaces
<1>7. \A j \in 1 .. m : desc'[P[j]].when = desc[P[j]].when /\ desc'[P[j]].id = desc[P[j]].id
  BY <1>1, <1>4, Zenon DEF Same
<1>8. m + 1 \in Nat /\ k \in Int
  BY <1>1, <1>4
\* The conjuncts.
<1>10. Apart(Q, m + 1, G, n2)
  <2> SUFFICES ASSUME NEW i \in 1 .. m + 1, NEW j \in 1 .. n2 PROVE Q[i] # G[j]
    BY Zenon DEF Apart
  <2>1. G[j] # new /\ \E x \in 1 .. n : G[j] = F[x]
    BY <1>4, Zenon DEF Without
  <2>2. CASE i = k + 1
    BY <1>6, <2>1, <2>2, Zenon
  <2>3. CASE i # k + 1
    <3>1. PICK x \in 1 .. n : G[j] = F[x]
      BY <2>1
    <3>2. From(k, i) \in 1 .. m /\ Q[i] = P[From(k, i)]
      BY <1>6, <2>3, Zenon
    <3> QED BY <1>1, <3>1, <3>2, Zenon
  <2> QED BY <2>2, <2>3
<1>11. Sorted(desc', Q, m + 1)
  <2>1. \A i \in 1 .. m + 1 : i # k + 1 =>
          desc'[Q[i]].when = desc[P[From(k, i)]].when /\ desc[P[From(k, i)]].when \in Nat /\ From(k, i) \in 1 .. m
    BY <1>2, <1>6, <1>7, Zenon DEF Sorted
  <2>2. \A i \in 1 .. m + 1 : desc'[Q[i]].when \in Nat
    BY <1>4, <1>6, <2>1, Zenon
  <2>3. ASSUME NEW i \in 1 .. m + 1, NEW j \in 1 .. m + 1, i < j PROVE desc'[Q[i]].when <= desc'[Q[j]].when
    <3>1. CASE i = k + 1
      <4>1. j # k + 1 /\ ~(From(k, j) <= k)
        BY <1>4, <2>3, <3>1 DEF From
      <4>2. ~(desc[P[From(k, j)]].when < when)
        BY <1>4, <2>1, <4>1, Zenon DEF PlaceOf
      <4>3. desc'[Q[i]].when = when /\ desc'[Q[j]].when = desc[P[From(k, j)]].when /\ desc[P[From(k, j)]].when \in Nat
        BY <1>4, <1>6, <2>1, <3>1, <4>1, Zenon
      <4> QED BY <4>2, <4>3
    <3>2. CASE j = k + 1
      <4>1. i # k + 1 /\ From(k, i) <= k
        BY <1>4, <2>3, <3>2 DEF From
      <4>2. desc[P[From(k, i)]].when < when
        BY <1>4, <2>1, <4>1, Zenon DEF PlaceOf
      <4>3. desc'[Q[j]].when = when /\ desc'[Q[i]].when = desc[P[From(k, i)]].when /\ desc[P[From(k, i)]].when \in Nat
        BY <1>4, <1>6, <2>1, <3>2, <4>1, Zenon
      <4> QED BY <4>2, <4>3
    <3>3. CASE i # k + 1 /\ j # k + 1
      <4>1. From(k, i) < From(k, j)
        BY <1>1, <1>8, <2>3, <3>3, Moves
      <4>2. desc[P[From(k, i)]].when <= desc[P[From(k, j)]].when
        BY <1>2, <2>1, <3>3, <4>1, Zenon DEF Sorted
      <4> QED BY <2>1, <3>3, <4>2, Zenon
    <3> QED BY <3>1, <3>2, <3>3
  <2> QED BY <2>2, <2>3, Zenon DEF Sorted
<1>12. \A i \in 1 .. m : desc[P[i]].id \in 1 .. next_ID - 1 /\ desc[P[i]].id # next_ID
  BY <1>1, <1>2 DEF IdsOK
<1>13. IdsOK(Q, m + 1)'
  <2>1. next_ID' \in Nat \ {0} /\ next_ID \in 1 .. next_ID' - 1 /\ 1 .. next_ID - 1 \subseteq 1 .. next_ID' - 1
    BY <1>1, <1>4
  <2>2. \A i \in 1 .. m + 1 : i # k + 1 => desc'[Q[i]].id = desc[P[From(k, i)]].id /\ From(k, i) \in 1 .. m
    BY <1>6, <1>7, Zenon
  <2>3. desc'[Q[k + 1]].id = next_ID
    BY <1>4, <1>6, Zenon
  <2>4. \A i \in 1 .. m + 1 : desc'[Q[i]].id \in 1 .. next_ID' - 1
    <3> TAKE i \in 1 .. m + 1
    <3>1. CASE i = k + 1
      BY <2>1, <2>3, <3>1, Zenon
    <3>2. CASE i # k + 1
      BY <1>12, <2>1, <2>2, <3>2
    <3> QED BY <3>1, <3>2
  <2>5. ASSUME NEW i \in 1 .. m + 1, NEW j \in 1 .. m + 1, desc'[Q[i]].id = desc'[Q[j]].id PROVE i = j
    <3>1. CASE i = k + 1 \/ j = k + 1
      BY <1>12, <2>2, <2>3, <2>5, <3>1, Zenon
    <3>2. CASE i # k + 1 /\ j # k + 1
      <4>1. From(k, i) = From(k, j)
        <5>1. From(k, i) \in 1 .. m /\ From(k, j) \in 1 .. m /\ desc[P[From(k, i)]].id = desc[P[From(k, j)]].id
          BY <2>2, <2>5, <3>2, Zenon
        <5> QED BY <1>2, <5>1 DEF IdsOK, Distinct
      <4> QED BY <1>1, <1>8, <3>2, <4>1 DEF From
    <3> QED BY <3>1, <3>2
  <2> QED BY <2>1, <2>4, <2>5, Zenon DEF IdsOK, Distinct
<1>14. DOMAIN alive' = DOMAIN alive \cup {next_ID} /\ alive'[next_ID] = when
       /\ \A x \in DOMAIN alive : x # next_ID => alive'[x] = alive[x]
  BY <1>5
<1>15. /\ DOMAIN alive \subseteq 1 .. next_ID - 1 /\ missed \subseteq 1 .. next_ID - 1
       /\ next_ID \notin missed /\ next_ID \notin DOMAIN alive
  BY <1>1, <1>2 DEF HistoryOK2
<1>16. HistoryOK2'
  <2>1. 1 .. next_ID - 1 \subseteq 1 .. next_ID' - 1 /\ next_ID \in 1 .. next_ID' - 1 /\ next_ID \notin 1 .. next_ID - 1
    BY <1>1, <1>4
  <2>2. DOMAIN alive' \subseteq 1 .. next_ID' - 1 /\ missed' \subseteq 1 .. next_ID' - 1
    BY <1>5, <1>14, <1>15, <2>1
  <2>3. \A j \in 1 .. Len(performed) : performed[j] \in (1 .. next_ID' - 1) \ DOMAIN alive'
    <3> TAKE j \in 1 .. Len(performed)
    <3>1. performed[j] \in (1 .. next_ID - 1) \ DOMAIN alive
      BY <1>2, Zenon DEF HistoryOK2
    <3> QED BY <1>14, <2>1, <3>1
  <2> QED BY <1>2, <1>5, <2>2, <2>3, Zenon DEF HistoryOK2
<1>17. \A e : (\E j \in 1 .. m : e = P[j]) /\ Alive(desc[e]) => Alive(desc[e])'
  <2> TAKE e
  <2> HAVE (\E j \in 1 .. m : e = P[j]) /\ Alive(desc[e])
  <2>1. /\ desc'[e].when = desc[e].when /\ desc'[e].id = desc[e].id
        /\ desc[e].id \in DOMAIN alive \ missed /\ desc[e].when = alive[desc[e].id]
    BY <1>7, Zenon DEF Alive
  <2>2. desc[e].id # next_ID
    BY <1>15, <2>1, Zenon
  <2>3. desc'[e].id \in DOMAIN alive' \ missed' /\ desc'[e].when = alive'[desc'[e].id]
    BY <1>5, <1>14, <2>1, <2>2, Zenon
  <2> QED BY <2>3, Zenon DEF Alive
<1>18. InService' <=> InService
  BY <1>5, Zenon DEF InService
<1>19. InService => 1 \in 1 .. Len(performing) /\ performing[1].ev # new
  <2>1. IsSeq(performing)
    BY <1>2, Zenon DEF CallsOK
  <2>2. performing # <<>> => Len(performing) \in Nat \ {0}
    BY <2>1, SeqIs
  <2>3. performing # <<>> => 1 \in 1 .. Len(performing)
    BY <2>2
  <2> QED BY <1>4, <2>3, Zenon DEF InService
<1>20. AliveOK(Q, m + 1)'
  <2>1. \A i \in 1 .. m + 1 : IF InService' /\ Q[i] = performing'[1].ev THEN desc'[Q[i]].id \notin DOMAIN alive'
                             ELSE Alive(desc[Q[i]])'
    <3> TAKE i \in 1 .. m + 1
    <3>1. CASE i = k + 1
      <4>1. desc'[Q[i]].id \in DOMAIN alive' \ missed' /\ desc'[Q[i]].when = alive'[desc'[Q[i]].id]
        BY <1>4, <1>5, <1>6, <1>14, <1>15, <3>1
      <4>2. ~(InService' /\ Q[i] = performing'[1].ev)
        BY <1>5, <1>6, <1>18, <1>19, <3>1, Zenon
      <4> QED BY <4>1, <4>2, Zenon DEF Alive
    <3>2. CASE i # k + 1
      <4>1. PICK j \in 1 .. m : Q[i] = P[j]
        BY <1>6, <3>2, Zenon
      <4>2. desc'[Q[i]].id = desc[P[j]].id /\ desc[P[j]].id # next_ID
        BY <1>7, <1>12, <4>1, Zenon
      <4>3. CASE InService /\ P[j] = performing[1].ev
        <5>1. desc[P[j]].id \notin DOMAIN alive
          BY <1>2, <4>3, Zenon DEF AliveOK
        <5>2. desc'[Q[i]].id \notin DOMAIN alive'
          BY <1>14, <4>2, <5>1
        <5> QED BY <1>5, <1>18, <4>1, <4>3, <5>2, Zenon
      <4>4. CASE ~(InService /\ P[j] = performing[1].ev)
        <5>1. Alive(desc[P[j]])
          BY <1>2, <4>4, Zenon DEF AliveOK
        <5>2. Alive(desc[P[j]])'
          BY <1>17, <5>1
        <5>3. Alive(desc[Q[i]])'
          BY <4>1, <5>2, Zenon
        <5> QED BY <1>5, <1>18, <4>1, <4>4, <5>3, Zenon
      <4> QED BY <4>3, <4>4
    <3> QED BY <3>1, <3>2
  <2>2. \A x \in DOMAIN alive' \ missed' : \E i \in 1 .. m + 1 : desc'[Q[i]].id = x
    <3> TAKE x \in DOMAIN alive' \ missed'
    <3>1. CASE x = next_ID
      BY <1>4, <1>6, <3>1, Zenon
    <3>2. CASE x # next_ID
      <4>1. x \in DOMAIN alive \ missed
        BY <1>5, <1>14, <3>2
      <4>2. PICK j \in 1 .. m : desc[P[j]].id = x
        BY <1>2, <4>1, Zenon DEF AliveOK
      <4>3. To(k, j) \in 1 .. m + 1 /\ desc'[Q[To(k, j)]].id = x
        BY <1>6, <1>7, <4>2, Zenon
      <4> QED BY <4>3, Zenon
    <3> QED BY <3>1, <3>2
  <2> QED BY <2>1, <2>2, Zenon DEF AliveOK
<1>21. CallsOK(Q, m + 1, G, n2)'
  <2>0. /\ IsSeq(performing) /\ servicing \in Nat \cup {-1}
        /\ \A c \in 1 .. Len(performing) :
              /\ performing[c].ev \in 1 .. Len(desc) /\ performing[c].since \in 1 .. next_ID
              /\ \A j \in 1 .. n : performing[c].ev # F[j]
              /\ c > 1 \/ servicing = -1 => \A i \in 1 .. m : performing[c].ev # P[i]
        /\ \A b, c \in 1 .. Len(performing) : performing[b].ev = performing[c].ev => b = c
    BY <1>2, Zenon DEF CallsOK
  <2>1. 1 .. Len(desc) \subseteq 1 .. Len(desc') /\ 1 .. next_ID \subseteq 1 .. next_ID'
    BY <1>1, <1>4
  <2>2. \A c \in 1 .. Len(performing) : performing[c].ev \in 1 .. Len(desc') /\ performing[c].since \in 1 .. next_ID'
    BY <2>0, <2>1, Zenon
  <2>3. \A c \in 1 .. Len(performing) : \A j \in 1 .. n2 : performing[c].ev # G[j]
    BY <1>4, <2>0, Zenon DEF Without
  <2>4. ASSUME NEW c \in 1 .. Len(performing), c > 1 \/ servicing = -1, NEW i \in 1 .. m + 1 PROVE performing[c].ev # Q[i]
    <3>1. CASE i = k + 1
      BY <1>4, <1>6, <3>1, Zenon
    <3>2. CASE i # k + 1
      <4>1. From(k, i) \in 1 .. m /\ Q[i] = P[From(k, i)]
        BY <1>6, <3>2, Zenon
      <4> QED BY <2>0, <2>4, <4>1, Zenon
    <3> QED BY <3>1, <3>2
  <2>5. \A c \in 1 .. Len(performing) : (c > 1 \/ servicing = -1) => \A i \in 1 .. m + 1 : performing[c].ev # Q[i]
    BY <2>4, Zenon
  <2> QED BY <1>5, <2>0, <2>2, <2>3, <2>5, Zenon DEF CallsOK
<1>22. ServiceOK(Q, m + 1)'
  <2> SUFFICES ASSUME InService PROVE \E h \in 1 .. m + 1 : Front(Q, m + 1, performing[1], h)'
    BY <1>5, <1>18, Zenon DEF ServiceOK
  <2>1. PICK h \in 1 .. m : Front(P, m, performing[1], h)
    BY <1>2, Zenon DEF ServiceOK
  <2> DEFINE c == performing[1]
  <2>2. /\ P[h] = c.ev /\ (\A i \in 1 .. m : i < h => desc[P[i]].id >= c.since)
        /\ \A i \in 1 .. m : i > h /\ desc[P[i]].id >= c.since => desc[P[i]].when > desc[c.ev].when
    BY <2>1, Zenon DEF Front
  <2>3. c.since \in 1 .. next_ID
    BY <1>2, <1>19, Zenon DEF CallsOK
  <2> HIDE DEF c
  <2>4. To(k, h) \in 1 .. m + 1 /\ To(k, h) # k + 1 /\ Q[To(k, h)] = c.ev /\ From(k, To(k, h)) = h
    <3>1. From(k, To(k, h)) = h
      BY <1>1, <1>8 DEF From, To
    <3> QED BY <1>6, <2>2, <3>1, Zenon
  <2>5. desc'[c.ev].when = desc[c.ev].when /\ desc[c.ev].when \in Nat
    BY <1>2, <1>7, <2>2, Zenon DEF Sorted
  <2>6. ASSUME NEW i \in 1 .. m + 1, i < To(k, h) PROVE desc'[Q[i]].id >= c.since
    <3>1. CASE i = k + 1
      <4>1. desc'[Q[i]].id = next_ID
        BY <1>4, <1>6, <3>1, Zenon
      <4> QED BY <1>1, <2>3, <4>1
    <3>2. CASE i # k + 1
      <4>1. From(k, i) < h /\ From(k, i) \in 1 .. m /\ Q[i] = P[From(k, i)]
        <5>1. From(k, i) < From(k, To(k, h))
          BY <1>1, <1>8, <2>4, <2>6, <3>2, Moves
        <5> QED BY <1>6, <2>4, <3>2, <5>1, Zenon
      <4> QED BY <1>7, <2>2, <4>1, Zenon
    <3> QED BY <3>1, <3>2
  <2>7. ASSUME NEW i \in 1 .. m + 1, i > To(k, h), desc'[Q[i]].id >= c.since
        PROVE  desc'[Q[i]].when > desc'[c.ev].when
    <3>1. CASE i = k + 1
      <4>1. h <= k
        BY <1>8, <2>7, <3>1 DEF To
      <4>2. desc[P[h]].when < when /\ desc'[Q[i]].when = when
        BY <1>4, <1>6, <3>1, <4>1, Zenon DEF PlaceOf
      <4> QED BY <2>2, <2>5, <4>2
    <3>2. CASE i # k + 1
      <4>1. From(k, i) > h /\ From(k, i) \in 1 .. m /\ Q[i] = P[From(k, i)]
        <5>1. From(k, To(k, h)) < From(k, i)
          BY <1>1, <1>8, <2>4, <2>7, <3>2, Moves
        <5>2. From(k, i) \in 1 .. m /\ Q[i] = P[From(k, i)] /\ h < From(k, i)
          BY <1>6, <2>4, <3>2, <5>1, Zenon
        <5> QED BY <1>1, <5>2
      <4>2. desc[P[From(k, i)]].when > desc[c.ev].when
        BY <1>7, <2>2, <2>7, <4>1, Zenon
      <4> QED BY <1>7, <2>5, <4>1, <4>2, Zenon
    <3> QED BY <3>1, <3>2
  <2>8. Front(Q, m + 1, performing[1], To(k, h))'
    BY <1>5, <2>4, <2>6, <2>7, Zenon DEF Front, c
  <2> QED BY <2>4, <2>8, Zenon
<1>23. NoLeak(Q, m + 1, G, n2)'
  <2> SUFFICES ASSUME missed = {}, NEW p \in 1 .. Len(desc')
               PROVE  \/ \E i \in 1 .. m + 1 : p = Q[i]
                      \/ \E j \in 1 .. n2 : p = G[j]
                      \/ \E c \in 1 .. Len(performing) : p = performing[c].ev
    BY <1>5, Zenon DEF NoLeak
  <2>1. CASE p = new
    BY <1>6, <2>1, Zenon
  <2>2. CASE p # new
    <3>1. p \in 1 .. Len(desc)
      BY <1>4, <2>2, Zenon
    <3>2. \/ \E i \in 1 .. m : p = P[i]
          \/ \E j \in 1 .. n : p = F[j]
          \/ \E c \in 1 .. Len(performing) : p = performing[c].ev
      BY <1>2, <3>1, Zenon DEF NoLeak
    <3>3. (\E i \in 1 .. m : p = P[i]) => \E i \in 1 .. m + 1 : p = Q[i]
      BY <1>6, Zenon
    <3>4. (\E j \in 1 .. n : p = F[j]) => \E j \in 1 .. n2 : p = G[j]
      BY <1>4, <2>2, Zenon DEF Without
    <3> QED BY <3>2, <3>3, <3>4, Zenon
  <2> QED BY <2>1, <2>2
<1>24. EvWith(Q, m + 1, G, n2)'
  BY <1>4, <1>10, <1>11, <1>13, <1>16, <1>20, <1>21, <1>22, <1>23, Zenon DEF EvWith
<1> QED BY <1>24, Zenon

\* A list that goes on with some of the descriptors of another, in their order.
SubOf(P, m, Q, l, g) ==
  /\ l \in Nat /\ \A i \in 1 .. l : g[i] \in 1 .. m /\ Q[i] = P[g[i]]
  /\ \A i, j \in 1 .. l : i < j => g[i] < g[j]
SameEvents(P, m, d, e) == \A i \in 1 .. m : Same(e[P[i]], d[P[i]])
LEMMA SubKeeps ==
  ASSUME NEW P, NEW m \in Nat, NEW Q, NEW l, NEW g, SubOf(P, m, Q, l, g), NEW d, NEW e,
         SameEvents(P, m, d, e), Sorted(d, P, m), Distinct(d, P, m)
  PROVE  Sorted(e, Q, l) /\ Distinct(e, Q, l)
<1>1. /\ l \in Nat /\ (\A i \in 1 .. l : g[i] \in 1 .. m /\ Q[i] = P[g[i]])
      /\ \A i, j \in 1 .. l : i < j => g[i] < g[j]
  BY DEF SubOf
<1>2. \A i \in 1 .. l : e[Q[i]].when = d[P[g[i]]].when /\ e[Q[i]].id = d[P[g[i]]].id
  BY <1>1, Zenon DEF Same, SameEvents
<1>3. Sorted(e, Q, l)
  BY <1>1, <1>2, Zenon DEF Sorted
<1>4. ASSUME NEW i \in 1 .. l, NEW j \in 1 .. l, e[Q[i]].id = e[Q[j]].id PROVE i = j
  <2>1. g[i] = g[j]
    <3>1. d[P[g[i]]].id = d[P[g[j]]].id /\ g[i] \in 1 .. m /\ g[j] \in 1 .. m
      BY <1>1, <1>2, <1>4, Zenon
    <3> QED BY <3>1 DEF Distinct
  <2>2. ~(i < j) /\ ~(j < i)
    BY <1>1, <2>1
  <2> QED BY <1>1, <2>2
<1> QED BY <1>3, <1>4, Zenon DEF Distinct

LEMMA DropsAreSub ==
  ASSUME NEW m \in Nat, NEW h \in 1 .. m, NEW P, NEW Q, Drops(P, m, h, Q)
  PROVE  \E g : SubOf(P, m, Q, m - 1, g)
<1>1. \A i \in 1 .. m - 1 : To(h - 1, i) \in 1 .. m /\ To(h - 1, i) # h /\ Q[i] = P[To(h - 1, i)]
  BY DropPlaces
<1>2. PICK g : g = [i \in 1 .. m - 1 |-> To(h - 1, i)]
  OBVIOUS
<1>3. \A i \in 1 .. m - 1 : g[i] = To(h - 1, i)
  BY <1>2
<1>4. \A i, j \in 1 .. m - 1 : i < j => g[i] < g[j]
  BY <1>3 DEF To
<1>5. m - 1 \in Nat
  OBVIOUS
<1> QED BY <1>1, <1>3, <1>4, <1>5, Zenon DEF SubOf

\* The last one is put in front of the free list.
Avoids(Q, l, p) == \A i \in 1 .. l : Q[i] # p
LEMMA FreeLists ==
  ASSUME NEW d, NEW first, NEW Q, NEW l, ListOf(d, first, Q, l),
         NEW free, NEW F, NEW n, ListOf(d, free, F, n),
         NEW p \in 1 .. Len(d), Avoids(Q, l, p), Avoids(F, n, p),
         NEW e, Relinked(d, p, free, e)
  PROVE  ListOf(e, first, Q, l) /\ ListOf(e, p, InsertAt(F, n, 0, p), n + 1)
<1>1. /\ Len(e) = Len(d) /\ e[p].next = free /\ \A j \in 1 .. Len(d) : j # p => e[j].next = d[j].next
  BY Zenon DEF Relinked, Rewritten
<1>2. Len(d) \in Nat /\ n \in Nat /\ (\A i \in 1 .. l : Q[i] \in 1 .. Len(d)) /\ \A i \in 1 .. n : F[i] \in 1 .. Len(d)
  <2>1. Len(d) \in Nat /\ \A i \in 1 .. l : Q[i] \in 1 .. Len(d)
    BY ListIs
  <2>2. n \in Nat /\ \A i \in 1 .. n : F[i] \in 1 .. Len(d)
    BY ListIs
  <2> QED BY <2>1, <2>2
<1>9. (\A i \in 1 .. l : Q[i] # p) /\ \A i \in 1 .. n : F[i] # p
  BY Zenon DEF Avoids
<1>3. Len(e) \in Nat /\ Len(d) <= Len(e) /\ p \in 1 .. Len(e) /\ 0 \in 0 .. n
  BY <1>1, <1>2
<1>4. ListOf(e, first, Q, l)
  <2>1. \A i \in 1 .. l : e[Q[i]].next = d[Q[i]].next
    BY <1>1, <1>2, <1>9, Zenon
  <2> QED BY <1>3, <2>1, ListKeeps
<1>5. free = At(F, n, 1)
  BY Zenon DEF ListOf
<1>6. Inserted(d, F, n, 0, p, e)
  <2>1. 0 + 1 = 1 /\ ~(0 # 0)
    OBVIOUS
  <2>2. \A i \in 1 .. n : e[F[i]].next = d[F[i]].next
    BY <1>1, <1>2, <1>9, Zenon
  <2> QED BY <1>1, <1>5, <2>1, <2>2, Zenon DEF Inserted
<1>7. ListOf(e, IF 0 = 0 THEN p ELSE free, InsertAt(F, n, 0, p), n + 1)
  BY <1>3, <1>6, <1>9, ListInserts
<1> QED BY <1>4, <1>7, Zenon

\* What taking an event off the pending list does.
UnlinkDoes(P, m, F, n, id, h, d, first, Q) ==
  /\ h \in 1 .. m /\ desc[P[h]].id = id /\ Chosen(Queue, id) = P[h] /\ Drops(P, m, h, Q)
  /\ Rewritten(desc, d) /\ Unlinked(Queue, id) = QueueOf(d, first, eventq_free, next_ID)
  /\ ListOf(d, first, Q, m - 1) /\ ListOf(d, eventq_free, F, n)
LEMMA Unlinkings ==
  ASSUME NEW P, NEW m, NEW F, NEW n, EvWith(P, m, F, n), NEW id, Found(Queue, id) # {}
  PROVE  \E h, d, first, Q : UnlinkDoes(P, m, F, n, id, h, d, first, Q)
<1>1. /\ m \in Nat /\ n \in Nat /\ Len(desc) \in Nat
      /\ (\A i \in 1 .. m : P[i] \in 1 .. Len(desc) /\ P[i] # 0)
      /\ (\A i \in 1 .. n : F[i] \in 1 .. Len(desc) /\ F[i] # 0)
      /\ \A i \in 1 .. m : \A j \in 1 .. n : P[i] # F[j]
  BY ListsAre
<1>2. /\ IsSeq(desc) /\ AllEntries(desc) /\ Distinct(desc, P, m)
      /\ ListOf(desc, eventq_pending, P, m) /\ ListOf(desc, eventq_free, F, n)
  BY Zenon DEF EvWith, IdsOK
<1>3. Queue = QueueOf(desc, eventq_pending, eventq_free, next_ID)
  BY Zenon DEF Queue, QueueOf
<1>4. PICK h \in 1 .. m : desc[P[h]].id = id
  <2>1. Found(Queue, id) = {i \in 1 .. m : desc[P[i]].id = id}
    BY <1>2, <1>3, FoundIs
  <2> QED BY <2>1
<1>5. Chosen(Queue, id) = P[h]
  BY <1>2, <1>3, <1>4, ChosenIs
<1>6. PICK d : /\ Unlinks(desc, P, m, h, d)
               /\ Unlinked(Queue, id) =
                    QueueOf(d, IF h = 1 THEN desc[P[1]].next ELSE eventq_pending, eventq_free, next_ID)
  BY <1>2, <1>3, <1>4, UnlinkedIs
<1>7. /\ Rewritten(desc, d) /\ Dropped(desc, P, m, h, d)
      /\ \A p \in 1 .. Len(desc) : (\A j \in 1 .. m : p # P[j]) => d[p].next = desc[p].next
  BY <1>6, Zenon DEF Unlinks
<1>8. Len(d) \in Nat /\ Len(desc) <= Len(d)
  BY <1>1, <1>7 DEF Rewritten
<1>9. PICK first, Q : first = (IF h = 1 THEN desc[P[1]].next ELSE eventq_pending) /\ Q = DropAt(P, m, h)
  OBVIOUS
<1>10. ListOf(d, first, Q, m - 1)
  <2>1. ListOf(d, IF h = 1 THEN desc[P[1]].next ELSE eventq_pending, DropAt(P, m, h), m - 1)
    BY <1>2, <1>7, <1>8, ListDrops
  <2> QED BY <1>9, <2>1, Zenon
<1>11. ListOf(d, eventq_free, F, n)
  <2>1. \A i \in 1 .. n : d[F[i]].next = desc[F[i]].next
    BY <1>1, <1>7
  <2> QED BY <1>2, <1>8, <2>1, ListKeeps
<1>12. UnlinkDoes(P, m, F, n, id, h, d, first, Q)
  BY <1>4, <1>5, <1>6, <1>7, <1>9, <1>10, <1>11, Zenon DEF UnlinkDoes, Drops
<1> QED BY <1>12, Zenon

\* The free list with one more descriptor.
Joined(F, n, p, G, l) ==
  /\ \A j \in 1 .. l : G[j] = p \/ \E i \in 1 .. n : G[j] = F[i]
  /\ \A i \in 1 .. n : \E j \in 1 .. l : F[i] = G[j]
  /\ \E j \in 1 .. l : G[j] = p
LEMMA FreedPlaces ==
  ASSUME NEW n \in Nat, NEW F, NEW p, NEW G, Inserts(F, n, 0, p, G)
  PROVE  Joined(F, n, p, G, n + 1)
<1>1. 0 \in 0 .. n /\ 0 + 1 = 1
  OBVIOUS
<1>2. /\ 1 \in 1 .. n + 1 /\ G[1] = p
      /\ \A i \in 1 .. n + 1 : i # 1 => From(0, i) \in 1 .. n /\ G[i] = F[From(0, i)]
      /\ \A j \in 1 .. n : To(0, j) \in 1 .. n + 1 /\ G[To(0, j)] = F[j]
  BY <1>1, InsertPlaces
<1> QED BY <1>2, Zenon DEF Joined

\* An event is off the pending list and is neither serviced nor alive any more.
DropStep(P, m, h, Q) ==
  /\ h \in 1 .. m /\ Drops(P, m, h, Q) /\ Rewritten(desc, desc')
  /\ alive' = OthersThan(desc[P[h]].id) /\ missed' = missed /\ next_ID' = next_ID /\ servicing' = servicing
  /\ (InService' <=> InService) /\ (InService => performing'[1] = performing[1] /\ P[h] # performing[1].ev)
Dropping(P, m, h, Q) ==
  /\ IsSeq(desc') /\ AllEntries(desc') /\ Len(desc') = Len(desc) /\ Sorted(desc', Q, m - 1) /\ IdsOK(Q, m - 1)'
  /\ AliveOK(Q, m - 1)' /\ ServiceOK(Q, m - 1)'
  /\ desc[P[h]].id \in DOMAIN alive \ missed
  /\ DOMAIN alive' = DOMAIN alive \ {desc[P[h]].id}
  /\ \A i \in 1 .. m - 1 : Q[i] # P[h] /\ \E j \in 1 .. m : Q[i] = P[j]
  /\ \A j \in 1 .. m : j # h => \E i \in 1 .. m - 1 : Q[i] = P[j]
LEMMA DropKeeps ==
  ASSUME NEW P, NEW m, NEW F, NEW n, EvWith(P, m, F, n), NEW h, NEW Q, DropStep(P, m, h, Q)
  PROVE  Dropping(P, m, h, Q)
<1> DEFINE id == desc[P[h]].id
<1>1. /\ m \in Nat /\ n \in Nat /\ Len(desc) \in Nat /\ next_ID \in Nat \ {0}
      /\ (\A i \in 1 .. m : P[i] \in 1 .. Len(desc) /\ P[i] # 0)
      /\ (\A i, j \in 1 .. m : P[i] = P[j] => i = j)
  BY ListsAre
<1>2. /\ IsSeq(desc) /\ AllEntries(desc) /\ Sorted(desc, P, m) /\ IdsOK(P, m) /\ HistoryOK2 /\ AliveOK(P, m)
      /\ CallsOK(P, m, F, n) /\ ServiceOK(P, m)
  BY Zenon DEF EvWith
<1>3. /\ h \in 1 .. m /\ Drops(P, m, h, Q) /\ Rewritten(desc, desc')
      /\ alive' = OthersThan(id) /\ missed' = missed /\ next_ID' = next_ID /\ servicing' = servicing
      /\ (InService' <=> InService) /\ (InService => performing'[1] = performing[1] /\ P[h] # performing[1].ev)
  BY Zenon DEF DropStep
<1>4. /\ \A i \in 1 .. m - 1 : To(h - 1, i) \in 1 .. m /\ To(h - 1, i) # h /\ Q[i] = P[To(h - 1, i)]
      /\ \A j \in 1 .. m : j # h => From(h - 1, j) \in 1 .. m - 1 /\ Q[From(h - 1, j)] = P[j]
  BY <1>1, <1>3, DropPlaces
<1>5. IsSeq(desc') /\ AllEntries(desc') /\ Len(desc') = Len(desc)
      /\ \A j \in 1 .. m : Same(desc'[P[j]], desc[P[j]])
  BY <1>1, <1>3, Zenon DEF Rewritten, AllEntries
<1>6. \A j \in 1 .. m : desc'[P[j]].when = desc[P[j]].when /\ desc'[P[j]].id = desc[P[j]].id
  BY <1>5, Zenon DEF Same
<1>7. Sorted(desc', Q, m - 1) /\ Distinct(desc', Q, m - 1)
  <2>1. PICK g : SubOf(P, m, Q, m - 1, g)
    BY <1>1, <1>3, DropsAreSub
  <2>2. Distinct(desc, P, m)
    BY <1>2, Zenon DEF IdsOK
  <2>3. m \in Nat /\ Sorted(desc, P, m) /\ SameEvents(P, m, desc, desc')
    BY <1>1, <1>2, <1>5, Zenon DEF SameEvents
  <2>4. PICK e : e = desc'
    OBVIOUS
  <2>5. SameEvents(P, m, desc, e)
    BY <2>3, <2>4, Zenon
  <2>6. Sorted(e, Q, m - 1) /\ Distinct(e, Q, m - 1)
    BY <2>1, <2>2, <2>3, <2>5, SubKeeps
  <2> QED BY <2>4, <2>6, Zenon
<1>8. IdsOK(Q, m - 1)'
  <2>1. \A i \in 1 .. m - 1 : desc'[Q[i]].id \in 1 .. next_ID - 1
    <3> TAKE i \in 1 .. m - 1
    <3>1. PICK j \in 1 .. m : Q[i] = P[j]
      BY <1>4, Zenon
    <3>2. desc[P[j]].id \in 1 .. next_ID - 1
      BY <1>2, Zenon DEF IdsOK
    <3> QED BY <1>6, <3>1, <3>2, Zenon
  <2> QED BY <1>1, <1>3, <1>7, <2>1, Zenon DEF IdsOK
<1>9. DOMAIN alive' = DOMAIN alive \ {id} /\ \A x \in DOMAIN alive \ {id} : alive'[x] = alive[x]
  <2> HIDE DEF id
  <2> QED BY <1>3 DEF OthersThan
<1>10. id \in DOMAIN alive \ missed
  BY <1>2, <1>3, Zenon DEF AliveOK, Alive
<1>11. \A j \in 1 .. m : j # h => desc[P[j]].id # id
  BY <1>2, <1>3, Zenon DEF IdsOK, Distinct
<1> HIDE DEF id
<1>12. AliveOK(Q, m - 1)'
  <2>1. ASSUME NEW i \in 1 .. m - 1
        PROVE  IF InService' /\ Q[i] = performing'[1].ev THEN desc'[Q[i]].id \notin DOMAIN alive' ELSE Alive(desc[Q[i]])'
    <3>1. PICK j \in 1 .. m : j # h /\ Q[i] = P[j]
      BY <1>4, Zenon
    <3>2. desc'[Q[i]].id = desc[P[j]].id /\ desc'[Q[i]].when = desc[P[j]].when /\ desc[P[j]].id # id
      BY <1>6, <1>11, <3>1, Zenon
    <3>3. CASE InService /\ P[j] = performing[1].ev
      <4>1. desc[P[j]].id \notin DOMAIN alive
        BY <1>2, <3>3, Zenon DEF AliveOK
      <4> QED BY <1>3, <1>9, <3>1, <3>2, <3>3, <4>1
    <3>4. CASE ~(InService /\ P[j] = performing[1].ev)
      <4>1. desc[P[j]].id \in DOMAIN alive \ missed /\ desc[P[j]].when = alive[desc[P[j]].id]
        BY <1>2, <3>4, Zenon DEF AliveOK, Alive
      <4>2. desc'[Q[i]].id \in DOMAIN alive' \ missed' /\ desc'[Q[i]].when = alive'[desc'[Q[i]].id]
        BY <1>3, <1>9, <3>2, <4>1
      <4>3. ~(InService' /\ Q[i] = performing'[1].ev)
        BY <1>3, <3>1, <3>4, Zenon
      <4> QED BY <4>2, <4>3, Zenon DEF Alive
    <3> QED BY <3>3, <3>4
  <2>2. \A x \in DOMAIN alive' \ missed' : \E i \in 1 .. m - 1 : desc'[Q[i]].id = x
    <3> TAKE x \in DOMAIN alive' \ missed'
    <3>1. x \in DOMAIN alive \ missed /\ x # id
      BY <1>3, <1>9
    <3>2. PICK j \in 1 .. m : desc[P[j]].id = x
      BY <1>2, <3>1, Zenon DEF AliveOK
    <3>3. j # h
      BY <3>1, <3>2, Zenon DEF id
    <3>4. From(h - 1, j) \in 1 .. m - 1 /\ desc'[Q[From(h - 1, j)]].id = x
      BY <1>4, <1>6, <3>2, <3>3, Zenon
    <3> QED BY <3>4, Zenon
  <2> QED BY <2>1, <2>2, Zenon DEF AliveOK
<1>13. ServiceOK(Q, m - 1)'
  <2> SUFFICES ASSUME InService PROVE \E x \in 1 .. m - 1 : Front(Q, m - 1, performing[1], x)'
    <3>1. ASSUME NEW x \in 1 .. m - 1, InService, Front(Q, m - 1, performing[1], x)' PROVE ServiceOK(Q, m - 1)'
      BY <3>1, Zenon DEF ServiceOK
    <3> QED BY <1>3, <3>1, Zenon DEF ServiceOK
  <2>1. PICK c : c = performing[1]
    OBVIOUS
  <2>2. PICK x \in 1 .. m : Front(P, m, c, x)
    BY <1>2, <2>1, Zenon DEF ServiceOK
  <2>3. /\ P[x] = c.ev /\ (\A i \in 1 .. m : i < x => desc[P[i]].id >= c.since)
        /\ \A i \in 1 .. m : i > x /\ desc[P[i]].id >= c.since => desc[P[i]].when > desc[c.ev].when
    BY <2>2, Zenon DEF Front
  <2>4. x # h
    BY <1>3, <2>1, <2>3, Zenon
  <2> DEFINE y == From(h - 1, x)
  <2>5. y \in 1 .. m - 1 /\ Q[y] = c.ev /\ To(h - 1, y) = x
    <3>1. To(h - 1, y) = x
      BY <1>1, <1>3, <2>4 DEF To, From
    <3> QED BY <1>4, <2>3, <2>4, <3>1, Zenon
  <2>6. desc'[c.ev].when = desc[c.ev].when
    BY <1>6, <2>3, Zenon
  <2>7. m - 1 \in Nat /\ h - 1 \in Int
    BY <1>1, <1>3
  <2> HIDE DEF y
  <2>8. ASSUME NEW i \in 1 .. m - 1, i < y PROVE desc'[Q[i]].id >= c.since
    <3>1. To(h - 1, i) < x /\ To(h - 1, i) \in 1 .. m /\ Q[i] = P[To(h - 1, i)]
      <4>1. To(h - 1, i) < To(h - 1, y)
        BY <2>5, <2>7, <2>8, Moves
      <4> QED BY <1>4, <2>5, <4>1, Zenon
    <3> QED BY <1>6, <2>3, <3>1, Zenon
  <2>9. ASSUME NEW i \in 1 .. m - 1, i > y, desc'[Q[i]].id >= c.since PROVE desc'[Q[i]].when > desc'[c.ev].when
    <3>1. To(h - 1, i) > x /\ To(h - 1, i) \in 1 .. m /\ Q[i] = P[To(h - 1, i)]
      <4>1. y < i
        BY <2>5, <2>7, <2>9
      <4>2. To(h - 1, y) < To(h - 1, i)
        BY <2>5, <2>7, <4>1, Moves
      <4>3. x < To(h - 1, i) /\ To(h - 1, i) \in 1 .. m /\ Q[i] = P[To(h - 1, i)]
        BY <1>4, <2>5, <4>2, Zenon
      <4> QED BY <1>1, <4>3
    <3> QED BY <1>6, <2>3, <2>6, <2>9, <3>1, Zenon
  <2>10. c = performing'[1]
    BY <1>3, <2>1, Zenon
  <2>11. Front(Q, m - 1, performing[1], y)'
    BY <2>5, <2>8, <2>9, <2>10, Zenon DEF Front
  <2> QED BY <2>5, <2>11, Zenon
<1>14. \A i \in 1 .. m - 1 : Q[i] # P[h] /\ \E j \in 1 .. m : Q[i] = P[j]
  <2> TAKE i \in 1 .. m - 1
  <2>1. PICK j \in 1 .. m : j # h /\ Q[i] = P[j]
    BY <1>4, Zenon
  <2> QED BY <1>1, <1>3, <2>1, Zenon
<1>15. \A j \in 1 .. m : j # h => \E i \in 1 .. m - 1 : Q[i] = P[j]
  BY <1>4, Zenon
<1> QED BY <1>5, <1>7, <1>8, <1>9, <1>10, <1>12, <1>13, <1>14, <1>15, Zenon DEF id, Dropping

LEMMA RewrittenTwice ==
  ASSUME NEW d, NEW e, NEW f, Rewritten(d, e), Rewritten(e, f)
  PROVE  Rewritten(d, f)
  BY Zenon DEF Rewritten, Same
LEMMA RewrittenIs ==
  ASSUME NEW d, NEW e, Rewritten(d, e)
  PROVE  IsSeq(e) /\ AllEntries(e) /\ Len(e) = Len(d)
  BY Zenon DEF Rewritten, AllEntries
\* The queue is this record now.
QueueIsNow(d, first, free, nid) ==
  desc' = d /\ eventq_pending' = first /\ eventq_free' = free /\ next_ID' = nid
LEMMA SetIs ==
  ASSUME NEW d, NEW first, NEW free, NEW nid, SetQueue(QueueOf(d, first, free, nid))
  PROVE  QueueIsNow(d, first, free, nid)
  BY DEF SetQueue, QueueOf, QueueIsNow

LEMMA NotServiced ==
  ASSUME NEW P, NEW m, NEW F, NEW n, EvWith(P, m, F, n), NEW h \in 1 .. m, ~Serviced(desc[P[h]].id)
  PROVE  /\ InService => P[h] # performing[1].ev
         /\ InService => 1 \in 1 .. Len(performing)
         /\ \A c \in 1 .. Len(performing) : performing[c].ev # P[h]
<1>1. InService => P[h] # performing[1].ev
  BY Zenon DEF InService, Serviced
<1>2. /\ IsSeq(performing)
      /\ \A c \in 1 .. Len(performing) : c > 1 \/ servicing = -1 => \A i \in 1 .. m : performing[c].ev # P[i]
  BY Zenon DEF EvWith, CallsOK
<1>3. InService => 1 \in 1 .. Len(performing)
  <2>1. performing # <<>> => Len(performing) \in Nat \ {0}
    BY <1>2, SeqIs
  <2> QED BY <2>1 DEF InService
<1>4. ASSUME NEW c \in 1 .. Len(performing) PROVE performing[c].ev # P[h]
  <2>1. Len(performing) \in Nat /\ (performing = <<>> => Len(performing) = 0)
    BY <1>2, SeqIs, NilIs
  <2>2. CASE c > 1 \/ servicing = -1
    BY <1>2, <2>2, Zenon
  <2>3. CASE ~(c > 1 \/ servicing = -1)
    <3>1. c = 1 /\ performing # <<>>
      BY <2>1, <2>3
    <3> QED BY <1>1, <2>3, <3>1, Zenon DEF InService
  <2> QED BY <2>2, <2>3
<1> QED BY <1>1, <1>3, <1>4

LEMMA RemoveKeeps ==
  ASSUME NEW P, NEW m, NEW F, NEW n, EvWith(P, m, F, n), NEW id, eventq_remove(id), ~crossed'
  PROVE  \E Q, m2, G, n2 : EvWith(Q, m2, G, n2)'
<1>1. /\ m \in Nat /\ n \in Nat /\ Len(desc) \in Nat
      /\ (\A i \in 1 .. m : P[i] \in 1 .. Len(desc) /\ P[i] # 0)
      /\ (\A i \in 1 .. n : F[i] \in 1 .. Len(desc) /\ F[i] # 0)
      /\ \A i \in 1 .. m : \A j \in 1 .. n : P[i] # F[j]
  BY ListsAre
<1>2. HistoryOK2 /\ CallsOK(P, m, F, n) /\ NoLeak(P, m, F, n)
  BY Zenon DEF EvWith
<1>3. /\ Found(Queue, id) # {} /\ SetQueue(Freed(Unlinked(Queue, id), Chosen(Queue, id)))
      /\ alive' = OthersThan(id) /\ ~Serviced(id)
      /\ servicing' = servicing /\ performing' = performing /\ performed' = performed /\ missed' = missed
  BY Zenon DEF eventq_remove
<1>4. PICK h, d, first, Q : UnlinkDoes(P, m, F, n, id, h, d, first, Q)
  BY <1>3, Unlinkings
<1>5. /\ h \in 1 .. m /\ desc[P[h]].id = id /\ Chosen(Queue, id) = P[h] /\ Drops(P, m, h, Q)
      /\ Rewritten(desc, d) /\ Unlinked(Queue, id) = QueueOf(d, first, eventq_free, next_ID)
      /\ ListOf(d, first, Q, m - 1) /\ ListOf(d, eventq_free, F, n)
  BY <1>4, Zenon DEF UnlinkDoes
<1>6. IsSeq(d) /\ AllEntries(d) /\ Len(d) = Len(desc) /\ P[h] \in 1 .. Len(d)
  BY <1>1, <1>5, RewrittenIs
<1>7. PICK e : /\ Relinked(d, P[h], eventq_free, e)
               /\ Freed(QueueOf(d, first, eventq_free, next_ID), P[h]) = QueueOf(e, first, P[h], next_ID)
  BY <1>6, FreeingIs DEF Freeing
<1>8. desc' = e /\ eventq_pending' = first /\ eventq_free' = P[h] /\ next_ID' = next_ID
  <2>1. SetQueue(QueueOf(e, first, P[h], next_ID))
    BY <1>3, <1>5, <1>7, Zenon
  <2>2. QueueIsNow(e, first, P[h], next_ID)
    BY <2>1, SetIs
  <2> QED BY <2>2, Zenon DEF QueueIsNow
<1>9. Rewritten(desc, desc')
  BY <1>5, <1>7, <1>8, RewrittenTwice DEF Relinked
<1>10. /\ (InService => P[h] # performing[1].ev) /\ \A c \in 1 .. Len(performing) : performing[c].ev # P[h]
  BY <1>3, <1>5, NotServiced
<1>11. DropStep(P, m, h, Q)
  BY <1>3, <1>5, <1>8, <1>9, <1>10, Zenon DEF DropStep, InService
<1>12. /\ IsSeq(desc') /\ AllEntries(desc') /\ Len(desc') = Len(desc) /\ Sorted(desc', Q, m - 1) /\ IdsOK(Q, m - 1)'
       /\ AliveOK(Q, m - 1)' /\ ServiceOK(Q, m - 1)'
       /\ DOMAIN alive' = DOMAIN alive \ {desc[P[h]].id}
       /\ (\A i \in 1 .. m - 1 : Q[i] # P[h] /\ \E j \in 1 .. m : Q[i] = P[j])
       /\ \A j \in 1 .. m : j # h => \E i \in 1 .. m - 1 : Q[i] = P[j]
  <2>1. Dropping(P, m, h, Q)
    BY <1>11, DropKeeps
  <2> QED BY <2>1, Zenon DEF Dropping
<1>13. PICK G : Inserts(F, n, 0, P[h], G)
  BY Zenon DEF Inserts
<1>14. ListOf(desc', eventq_pending', Q, m - 1) /\ ListOf(desc', eventq_free', G, n + 1)
  <2>1. Avoids(Q, m - 1, P[h]) /\ Avoids(F, n, P[h])
    BY <1>1, <1>5, <1>12, Zenon DEF Avoids
  <2>2. ListOf(e, first, Q, m - 1) /\ ListOf(e, P[h], InsertAt(F, n, 0, P[h]), n + 1)
    BY <1>5, <1>6, <1>7, <2>1, FreeLists
  <2> QED BY <1>8, <1>13, <2>2, Zenon DEF Inserts
<1>15. Joined(F, n, P[h], G, n + 1)
  BY <1>1, <1>13, FreedPlaces
<1>16. Apart(Q, m - 1, G, n + 1)
  <2> SUFFICES ASSUME NEW i \in 1 .. m - 1, NEW j \in 1 .. n + 1 PROVE Q[i] # G[j]
    BY Zenon DEF Apart
  <2>1. Q[i] # P[h] /\ \E x \in 1 .. m : Q[i] = P[x]
    BY <1>12, Zenon
  <2>2. G[j] = P[h] \/ \E x \in 1 .. n : G[j] = F[x]
    BY <1>15, Zenon DEF Joined
  <2> QED BY <1>1, <2>1, <2>2, Zenon
<1>17. HistoryOK2'
  BY <1>2, <1>3, <1>8, <1>12 DEF HistoryOK2
<1>18. CallsOK(Q, m - 1, G, n + 1)'
  <2>0. /\ IsSeq(performing) /\ servicing \in Nat \cup {-1}
        /\ \A c \in 1 .. Len(performing) :
              /\ performing[c].ev \in 1 .. Len(desc) /\ performing[c].since \in 1 .. next_ID
              /\ \A j \in 1 .. n : performing[c].ev # F[j]
              /\ c > 1 \/ servicing = -1 => \A i \in 1 .. m : performing[c].ev # P[i]
        /\ \A b, c \in 1 .. Len(performing) : performing[b].ev = performing[c].ev => b = c
    BY <1>2, Zenon DEF CallsOK
  <2>1. \A c \in 1 .. Len(performing) : performing[c].ev \in 1 .. Len(desc') /\ performing[c].since \in 1 .. next_ID'
    BY <1>8, <1>12, <2>0, Zenon
  <2>2. \A c \in 1 .. Len(performing) : \A j \in 1 .. n + 1 : performing[c].ev # G[j]
    <3> TAKE c \in 1 .. Len(performing)
    <3> TAKE j \in 1 .. n + 1
    <3>1. G[j] = P[h] \/ \E i \in 1 .. n : G[j] = F[i]
      BY <1>15, Zenon DEF Joined
    <3> QED BY <1>10, <2>0, <3>1, Zenon
  <2>3. \A c \in 1 .. Len(performing) : (c > 1 \/ servicing = -1) => \A i \in 1 .. m - 1 : performing[c].ev # Q[i]
    BY <1>12, <2>0, Zenon
  <2> QED BY <1>3, <2>0, <2>1, <2>2, <2>3, Zenon DEF CallsOK
<1>19. NoLeak(Q, m - 1, G, n + 1)'
  <2> SUFFICES ASSUME missed = {}, NEW p \in 1 .. Len(desc)
               PROVE  \/ \E i \in 1 .. m - 1 : p = Q[i]
                      \/ \E j \in 1 .. n + 1 : p = G[j]
                      \/ \E c \in 1 .. Len(performing) : p = performing[c].ev
    BY <1>3, <1>12, Zenon DEF NoLeak
  <2>1. \/ \E i \in 1 .. m : p = P[i]
        \/ \E j \in 1 .. n : p = F[j]
        \/ \E c \in 1 .. Len(performing) : p = performing[c].ev
    BY <1>2, Zenon DEF NoLeak
  <2>2. (\E i \in 1 .. m : p = P[i]) => (\E i \in 1 .. m - 1 : p = Q[i]) \/ \E j \in 1 .. n + 1 : p = G[j]
    BY <1>12, <1>15, Zenon DEF Joined
  <2>3. (\E j \in 1 .. n : p = F[j]) => \E j \in 1 .. n + 1 : p = G[j]
    BY <1>15, Zenon DEF Joined
  <2> QED BY <2>1, <2>2, <2>3, Zenon
<1>20. EvWith(Q, m - 1, G, n + 1)'
  BY <1>12, <1>14, <1>16, <1>17, <1>18, <1>19, Zenon DEF EvWith
<1> QED BY <1>20, Zenon

PerformStep(id) ==
  /\ id \in DOMAIN alive /\ performed' = Append(performed, id) /\ DOMAIN alive' = DOMAIN alive \ {id}
  /\ missed' = missed /\ next_ID' = next_ID
LEMMA PerformedKeeps ==
  ASSUME HistoryOK2, NEW id, PerformStep(id)
  PROVE  HistoryOK2'
<1>1. /\ DOMAIN alive \subseteq 1 .. next_ID - 1 /\ missed \subseteq 1 .. next_ID - 1
      /\ IsSeq(performed) /\ (\A i, j \in 1 .. Len(performed) : performed[i] = performed[j] => i = j)
      /\ \A k \in 1 .. Len(performed) : performed[k] \in (1 .. next_ID - 1) \ DOMAIN alive
  BY Zenon DEF HistoryOK2, Injected
<1>2. /\ id \in DOMAIN alive /\ performed' = Append(performed, id) /\ DOMAIN alive' = DOMAIN alive \ {id}
      /\ missed' = missed /\ next_ID' = next_ID
  BY Zenon DEF PerformStep
<1>3. PICK t : t = performed'
  OBVIOUS
<1>4. Grows(performed, id, t)
  BY <1>1, <1>2, <1>3, Zenon DEF Grows
<1>5. /\ IsSeq(t) /\ Len(t) = Len(performed) + 1 /\ Len(performed) \in Nat
      /\ t[Len(performed) + 1] = id /\ \A k \in 1 .. Len(performed) : t[k] = performed[k]
  BY <1>4, AppendIs DEF Grown
<1>6. \A k \in 1 .. Len(t) : k = Len(performed) + 1 \/ k \in 1 .. Len(performed)
  BY <1>5
<1>7. \A k \in 1 .. Len(t) : t[k] \in (1 .. next_ID - 1) \ DOMAIN alive'
  <2> TAKE k \in 1 .. Len(t)
  <2>1. CASE k = Len(performed) + 1
    BY <1>1, <1>2, <1>5, <2>1
  <2>2. CASE k \in 1 .. Len(performed)
    BY <1>1, <1>2, <1>5, <2>2
  <2> QED BY <1>6, <2>1, <2>2
<1>8. \A k \in 1 .. Len(performed) : t[k] # id
  BY <1>1, <1>2, <1>5
<1>9. \A i, j \in 1 .. Len(t) : t[i] = t[j] => i = j
  BY <1>1, <1>5, <1>6, <1>8, Zenon
<1>10. DOMAIN alive' \subseteq 1 .. next_ID' - 1 /\ missed' \subseteq 1 .. next_ID' - 1
  BY <1>1, <1>2
<1>11. \A k \in 1 .. Len(performed') : performed'[k] \in (1 .. next_ID' - 1) \ DOMAIN alive'
  BY <1>2, <1>3, <1>7, Zenon
<1> QED BY <1>3, <1>5, <1>9, <1>10, <1>11, Zenon DEF HistoryOK2, Injected

LEMMA ExecuteKeeps ==
  ASSUME NEW P, NEW m, NEW F, NEW n, EvWith(P, m, F, n), ~crossed, NEW id, eventq_execute(id), ~crossed'
  PROVE  \E Q, m2, G, n2 : EvWith(Q, m2, G, n2)'
<1>1. /\ m \in Nat /\ n \in Nat /\ Len(desc) \in Nat /\ next_ID \in Nat \ {0}
      /\ (\A i \in 1 .. m : P[i] \in 1 .. Len(desc) /\ P[i] # 0)
      /\ (\A i \in 1 .. n : F[i] \in 1 .. Len(desc) /\ F[i] # 0)
      /\ \A i \in 1 .. m : \A j \in 1 .. n : P[i] # F[j]
  BY ListsAre
<1>2. HistoryOK2 /\ CallsOK(P, m, F, n) /\ NoLeak(P, m, F, n)
  BY Zenon DEF EvWith
<1>3. /\ Found(Queue, id) # {} /\ SetQueue(Unlinked(Queue, id)) /\ Performing(Chosen(Queue, id))
      /\ ~Serviced(id) /\ servicing' = servicing /\ missed' = missed /\ (performing = <<>> => servicing = -1)
  BY Zenon DEF eventq_execute, Client, Outside, InCallback
<1>4. PICK h, d, first, Q : UnlinkDoes(P, m, F, n, id, h, d, first, Q)
  BY <1>3, Unlinkings
<1>5. /\ h \in 1 .. m /\ desc[P[h]].id = id /\ Chosen(Queue, id) = P[h] /\ Drops(P, m, h, Q)
      /\ Rewritten(desc, d) /\ Unlinked(Queue, id) = QueueOf(d, first, eventq_free, next_ID)
      /\ ListOf(d, first, Q, m - 1) /\ ListOf(d, eventq_free, F, n)
  BY <1>4, Zenon DEF UnlinkDoes
<1>6. desc' = d /\ eventq_pending' = first /\ eventq_free' = eventq_free /\ next_ID' = next_ID
  <2>1. SetQueue(QueueOf(d, first, eventq_free, next_ID))
    BY <1>3, <1>5, Zenon
  <2>2. QueueIsNow(d, first, eventq_free, next_ID)
    BY <2>1, SetIs
  <2> QED BY <2>2, Zenon DEF QueueIsNow
<1>7. PICK r : r = [ev |-> P[h], since |-> next_ID]
  OBVIOUS
<1>8. r.ev = P[h] /\ r.since = next_ID
  BY <1>7
<1>9. PICK t : t = performing'
  OBVIOUS
<1>10. Grows(performing, r, t) /\ performed' = Append(performed, id) /\ alive' = OthersThan(id)
  BY <1>2, <1>3, <1>5, <1>7, <1>9, Zenon DEF Performing, Grows, CallsOK
<1>11. /\ IsSeq(t) /\ Len(t) = Len(performing) + 1 /\ Len(performing) \in Nat /\ t[Len(performing) + 1] = r
       /\ \A k \in 1 .. Len(performing) : t[k] = performing[k]
  BY <1>10, AppendIs DEF Grown
<1>12. \A k \in 1 .. Len(t) : k = Len(performing) + 1 \/ k \in 1 .. Len(performing)
  BY <1>11
<1>13. /\ (InService => P[h] # performing[1].ev) /\ (InService => 1 \in 1 .. Len(performing))
       /\ \A c \in 1 .. Len(performing) : performing[c].ev # P[h]
  BY <1>3, <1>5, NotServiced
<1>14. /\ (InService' <=> InService) /\ (InService => performing'[1] = performing[1])
  <2>1. t # <<>>
    BY <1>11, NilIs
  <2> QED BY <1>3, <1>9, <1>11, <1>13, <2>1, Zenon DEF InService
<1>15. DropStep(P, m, h, Q)
  BY <1>3, <1>5, <1>6, <1>10, <1>13, <1>14, Zenon DEF DropStep
<1>16. /\ IsSeq(desc') /\ AllEntries(desc') /\ Len(desc') = Len(desc) /\ Sorted(desc', Q, m - 1) /\ IdsOK(Q, m - 1)'
       /\ AliveOK(Q, m - 1)' /\ ServiceOK(Q, m - 1)'
       /\ desc[P[h]].id \in DOMAIN alive \ missed
       /\ DOMAIN alive' = DOMAIN alive \ {desc[P[h]].id}
       /\ (\A i \in 1 .. m - 1 : Q[i] # P[h] /\ \E j \in 1 .. m : Q[i] = P[j])
       /\ \A j \in 1 .. m : j # h => \E i \in 1 .. m - 1 : Q[i] = P[j]
  <2>1. Dropping(P, m, h, Q)
    BY <1>15, DropKeeps
  <2> QED BY <2>1, Zenon DEF Dropping
<1>17. ListOf(desc', eventq_pending', Q, m - 1) /\ ListOf(desc', eventq_free', F, n)
  BY <1>5, <1>6, Zenon
<1>18. Apart(Q, m - 1, F, n)
  BY <1>1, <1>16, Zenon DEF Apart
<1>19. HistoryOK2'
  <2>1. PerformStep(id)
    BY <1>3, <1>5, <1>6, <1>10, <1>16 DEF PerformStep
  <2> QED BY <1>2, <2>1, PerformedKeeps
<1>20. CallsOK(Q, m - 1, F, n)'
  <2>0. /\ servicing \in Nat \cup {-1}
        /\ \A c \in 1 .. Len(performing) :
              /\ performing[c].ev \in 1 .. Len(desc) /\ performing[c].since \in 1 .. next_ID
              /\ \A j \in 1 .. n : performing[c].ev # F[j]
              /\ c > 1 \/ servicing = -1 => \A i \in 1 .. m : performing[c].ev # P[i]
        /\ \A b, c \in 1 .. Len(performing) : performing[b].ev = performing[c].ev => b = c
    BY <1>2, Zenon DEF CallsOK
  <2>1. next_ID \in 1 .. next_ID
    BY <1>1
  <2>2. \A c \in 1 .. Len(t) : /\ t[c].ev \in 1 .. Len(desc) /\ t[c].since \in 1 .. next_ID
                              /\ \A j \in 1 .. n : t[c].ev # F[j]
    <3> TAKE c \in 1 .. Len(t)
    <3>1. CASE c = Len(performing) + 1
      BY <1>1, <1>5, <1>8, <1>11, <2>1, <3>1, Zenon
    <3>2. CASE c \in 1 .. Len(performing)
      BY <1>11, <2>0, <3>2, Zenon
    <3> QED BY <1>12, <3>1, <3>2
  <2>3. ASSUME NEW c \in 1 .. Len(t), c > 1 \/ servicing = -1, NEW i \in 1 .. m - 1 PROVE t[c].ev # Q[i]
    <3>1. CASE c = Len(performing) + 1
      BY <1>8, <1>11, <1>16, <3>1, Zenon
    <3>2. CASE c \in 1 .. Len(performing)
      <4>1. PICK j \in 1 .. m : Q[i] = P[j]
        BY <1>16
      <4> QED BY <1>11, <2>0, <2>3, <3>2, <4>1, Zenon
    <3> QED BY <1>12, <3>1, <3>2
  <2>4. \A b, c \in 1 .. Len(t) : t[b].ev = t[c].ev => b = c
    <3> TAKE b, c \in 1 .. Len(t)
    <3> HAVE t[b].ev = t[c].ev
    <3>1. CASE b = Len(performing) + 1 /\ c \in 1 .. Len(performing)
      BY <1>8, <1>11, <1>13, <3>1, Zenon
    <3>2. CASE c = Len(performing) + 1 /\ b \in 1 .. Len(performing)
      BY <1>8, <1>11, <1>13, <3>2, Zenon
    <3>3. CASE b \in 1 .. Len(performing) /\ c \in 1 .. Len(performing)
      BY <1>11, <2>0, <3>3, Zenon
    <3>4. CASE b = Len(performing) + 1 /\ c = Len(performing) + 1
      BY <3>4
    <3> QED BY <1>12, <3>1, <3>2, <3>3, <3>4, Zenon
  <2>5. t = performing' /\ Len(desc') = Len(desc) /\ next_ID' = next_ID /\ servicing' = servicing
    BY <1>3, <1>6, <1>9, <1>16, Zenon
  <2>6. \A c \in 1 .. Len(t) :
              /\ t[c].ev \in 1 .. Len(desc) /\ t[c].since \in 1 .. next_ID
              /\ \A j \in 1 .. n : t[c].ev # F[j]
              /\ c > 1 \/ servicing = -1 => \A i \in 1 .. m - 1 : t[c].ev # Q[i]
    BY <2>2, <2>3, Zenon
  <2> QED BY <1>11, <2>0, <2>4, <2>5, <2>6, Zenon DEF CallsOK
<1>21. NoLeak(Q, m - 1, F, n)'
  <2> SUFFICES ASSUME missed = {}, NEW p \in 1 .. Len(desc)
               PROVE  \/ \E i \in 1 .. m - 1 : p = Q[i]
                      \/ \E j \in 1 .. n : p = F[j]
                      \/ \E c \in 1 .. Len(t) : p = t[c].ev
    BY <1>3, <1>9, <1>16, Zenon DEF NoLeak
  <2>1. \/ \E i \in 1 .. m : p = P[i]
        \/ \E j \in 1 .. n : p = F[j]
        \/ \E c \in 1 .. Len(performing) : p = performing[c].ev
    BY <1>2, Zenon DEF NoLeak
  <2>2. Len(performing) + 1 \in 1 .. Len(t) /\ \A c \in 1 .. Len(performing) : c \in 1 .. Len(t)
    BY <1>11
  <2>3. (\E i \in 1 .. m : p = P[i]) => (\E i \in 1 .. m - 1 : p = Q[i]) \/ \E c \in 1 .. Len(t) : p = t[c].ev
    BY <1>8, <1>11, <1>16, <2>2, Zenon
  <2>4. (\E c \in 1 .. Len(performing) : p = performing[c].ev) => \E c \in 1 .. Len(t) : p = t[c].ev
    BY <1>11, <2>2, Zenon
  <2> QED BY <2>1, <2>3, <2>4, Zenon
<1>22. EvWith(Q, m - 1, F, n)'
  BY <1>16, <1>17, <1>18, <1>19, <1>20, <1>21, Zenon DEF EvWith
<1> QED BY <1>22, Zenon

\* The pending events are the same, and so is the one that is serviced.
SameStep ==
  /\ Rewritten(desc, desc') /\ alive' = alive /\ missed' = missed /\ next_ID' = next_ID /\ servicing' = servicing
  /\ (InService' <=> InService) /\ (InService => performing'[1] = performing[1])
LEMMA SameKeeps ==
  ASSUME NEW P, NEW m, NEW F, NEW n, EvWith(P, m, F, n), SameStep
  PROVE  Sorted(desc', P, m) /\ IdsOK(P, m)' /\ AliveOK(P, m)' /\ ServiceOK(P, m)'
<1>1. /\ \A i \in 1 .. m : P[i] \in 1 .. Len(desc)
  BY ListsAre
<1>2. Sorted(desc, P, m) /\ IdsOK(P, m) /\ AliveOK(P, m) /\ ServiceOK(P, m)
  BY Zenon DEF EvWith
<1>3. /\ Rewritten(desc, desc') /\ alive' = alive /\ missed' = missed /\ next_ID' = next_ID
      /\ (InService' <=> InService) /\ (InService => performing'[1] = performing[1])
  BY Zenon DEF SameStep
<1>4. \A i \in 1 .. m : desc'[P[i]].when = desc[P[i]].when /\ desc'[P[i]].id = desc[P[i]].id
  BY <1>1, <1>3, Zenon DEF Rewritten, Same
<1>5. Sorted(desc', P, m)
  BY <1>2, <1>4, Zenon DEF Sorted
<1>6. IdsOK(P, m)'
  BY <1>2, <1>3, <1>4, Zenon DEF IdsOK, Distinct
<1>7. AliveOK(P, m)'
  <2>1. ASSUME NEW i \in 1 .. m
        PROVE  IF InService' /\ P[i] = performing'[1].ev THEN desc'[P[i]].id \notin DOMAIN alive' ELSE Alive(desc[P[i]])'
    <3>1. CASE InService /\ P[i] = performing[1].ev
      BY <1>2, <1>3, <1>4, <3>1, Zenon DEF AliveOK
    <3>2. CASE ~(InService /\ P[i] = performing[1].ev)
      <4>1. desc[P[i]].id \in DOMAIN alive \ missed /\ desc[P[i]].when = alive[desc[P[i]].id]
        BY <1>2, <3>2, Zenon DEF AliveOK, Alive
      <4>2. desc'[P[i]].id \in DOMAIN alive' \ missed' /\ desc'[P[i]].when = alive'[desc'[P[i]].id]
        BY <1>3, <1>4, <4>1, Zenon
      <4> QED BY <1>3, <3>2, <4>2, Zenon DEF Alive
    <3> QED BY <3>1, <3>2
  <2>2. \A x \in DOMAIN alive' \ missed' : \E i \in 1 .. m : desc'[P[i]].id = x
    <3> TAKE x \in DOMAIN alive' \ missed'
    <3>1. PICK i \in 1 .. m : desc[P[i]].id = x
      BY <1>2, <1>3, Zenon DEF AliveOK
    <3> QED BY <1>4, <3>1, Zenon
  <2> QED BY <2>1, <2>2, Zenon DEF AliveOK
<1>8. ServiceOK(P, m)'
  <2>1. ASSUME InService PROVE \E h \in 1 .. m : Front(P, m, performing[1], h)'
    <3>1. PICK c : c = performing[1]
      OBVIOUS
    <3>2. PICK h \in 1 .. m : Front(P, m, c, h)
      BY <1>2, <2>1, <3>1, Zenon DEF ServiceOK
    <3>3. /\ P[h] = c.ev /\ (\A i \in 1 .. m : i < h => desc[P[i]].id >= c.since)
          /\ \A i \in 1 .. m : i > h /\ desc[P[i]].id >= c.since => desc[P[i]].when > desc[c.ev].when
      BY <3>2, Zenon DEF Front
    <3>4. desc'[c.ev].when = desc[c.ev].when /\ c = performing'[1]
      BY <1>3, <1>4, <2>1, <3>1, <3>3, Zenon
    <3>5. Front(P, m, performing[1], h)'
      BY <1>4, <3>3, <3>4, Zenon DEF Front
    <3> QED BY <3>5, Zenon
  <2> QED BY <1>3, <2>1, Zenon DEF ServiceOK
<1> QED BY <1>5, <1>6, <1>7, <1>8

LEMMA ReturnKeeps ==
  ASSUME NEW P, NEW m, NEW F, NEW n, EvWith(P, m, F, n), ExecuteReturns
  PROVE  \E Q, m2, G, n2 : EvWith(Q, m2, G, n2)'
<1> DEFINE L == Len(performing)
           p == performing[L].ev
<1>1. /\ m \in Nat /\ n \in Nat /\ Len(desc) \in Nat
      /\ (\A i \in 1 .. m : P[i] \in 1 .. Len(desc) /\ P[i] # 0)
      /\ (\A i \in 1 .. n : F[i] \in 1 .. Len(desc) /\ F[i] # 0)
      /\ \A i \in 1 .. m : \A j \in 1 .. n : P[i] # F[j]
  BY ListsAre
<1>2. /\ HistoryOK2 /\ CallsOK(P, m, F, n) /\ NoLeak(P, m, F, n) /\ IsSeq(desc) /\ AllEntries(desc)
      /\ ListOf(desc, eventq_pending, P, m) /\ ListOf(desc, eventq_free, F, n)
  BY Zenon DEF EvWith
<1>3. /\ L > (IF servicing = -1 THEN 0 ELSE 1) /\ SetQueue(Freed(Queue, p)) /\ performing' = SubSeq(performing, 1, L - 1)
      /\ servicing' = servicing /\ alive' = alive /\ performed' = performed /\ missed' = missed
  BY Zenon DEF ExecuteReturns, Innermost
<1>4. /\ IsSeq(performing) /\ servicing \in Nat \cup {-1}
      /\ \A c \in 1 .. Len(performing) :
            /\ performing[c].ev \in 1 .. Len(desc) /\ performing[c].since \in 1 .. next_ID
            /\ \A j \in 1 .. n : performing[c].ev # F[j]
            /\ c > 1 \/ servicing = -1 => \A i \in 1 .. m : performing[c].ev # P[i]
      /\ \A b, c \in 1 .. Len(performing) : performing[b].ev = performing[c].ev => b = c
  BY <1>2, Zenon DEF CallsOK
<1>5. L \in Nat \ {0} /\ L \in 1 .. L /\ (L > 1 \/ servicing = -1) /\ L - 1 \in 0 .. L
  <2>1. L \in Nat
    BY <1>4, SeqIs
  <2> HIDE DEF L
  <2> QED BY <1>3, <2>1
<1>6. PICK t : t = performing'
  OBVIOUS
<1>7. IsSeq(t) /\ Len(t) = L - 1 /\ \A k \in 1 .. L - 1 : t[k] = performing[k]
  <2>1. FrontOf(performing, L - 1, t)
    BY <1>3, <1>6, Zenon DEF FrontOf
  <2> QED BY <1>4, <1>5, <2>1, FrontIs
<1>8. p \in 1 .. Len(desc) /\ (\A i \in 1 .. m : P[i] # p) /\ (\A j \in 1 .. n : F[j] # p)
  BY <1>4, <1>5, Zenon
<1>9. \A k \in 1 .. L - 1 : k \in 1 .. L /\ performing[k].ev # p
  <2>1. \A k \in 1 .. L - 1 : k \in 1 .. L /\ k # L
    BY <1>5
  <2> QED BY <1>4, <1>5, <2>1, Zenon
<1> HIDE DEF L, p
<1>10. PICK e : /\ Relinked(desc, p, eventq_free, e)
                /\ Freed(QueueOf(desc, eventq_pending, eventq_free, next_ID), p) = QueueOf(e, eventq_pending, p, next_ID)
  BY <1>2, <1>8, FreeingIs DEF Freeing
<1>11. desc' = e /\ eventq_pending' = eventq_pending /\ eventq_free' = p /\ next_ID' = next_ID
  <2>1. SetQueue(QueueOf(e, eventq_pending, p, next_ID))
    BY <1>3, <1>10, Zenon DEF Queue, QueueOf
  <2>2. QueueIsNow(e, eventq_pending, p, next_ID)
    BY <2>1, SetIs
  <2> QED BY <2>2, Zenon DEF QueueIsNow
<1>12. Rewritten(desc, desc')
  BY <1>10, <1>11, Zenon DEF Relinked
<1>13. IsSeq(desc') /\ AllEntries(desc') /\ Len(desc') = Len(desc)
  BY <1>12, RewrittenIs
<1>14. SameStep
  <2>1. servicing # -1 => 1 \in 1 .. L - 1
    BY <1>5
  <2>2. servicing # -1 => t # <<>> /\ performing # <<>>
    <3>1. servicing # -1 => Len(t) # 0 /\ Len(performing) # 0
      BY <1>5, <1>7 DEF L
    <3> QED BY <3>1, NilIs
  <2> QED BY <1>3, <1>6, <1>7, <1>11, <1>12, <2>1, <2>2, Zenon DEF SameStep, InService
<1>15. Sorted(desc', P, m) /\ IdsOK(P, m)' /\ AliveOK(P, m)' /\ ServiceOK(P, m)'
  BY <1>14, SameKeeps
<1>16. PICK G : Inserts(F, n, 0, p, G)
  BY Zenon DEF Inserts
<1>17. ListOf(desc', eventq_pending', P, m) /\ ListOf(desc', eventq_free', G, n + 1)
  <2>1. Avoids(P, m, p) /\ Avoids(F, n, p)
    BY <1>8, Zenon DEF Avoids
  <2>2. ListOf(e, eventq_pending, P, m) /\ ListOf(e, p, InsertAt(F, n, 0, p), n + 1)
    BY <1>2, <1>8, <1>10, <2>1, FreeLists
  <2> QED BY <1>11, <1>16, <2>2, Zenon DEF Inserts
<1>18. Joined(F, n, p, G, n + 1)
  BY <1>1, <1>16, FreedPlaces
<1>19. Apart(P, m, G, n + 1)
  <2> SUFFICES ASSUME NEW i \in 1 .. m, NEW j \in 1 .. n + 1 PROVE P[i] # G[j]
    BY Zenon DEF Apart
  <2>1. G[j] = p \/ \E x \in 1 .. n : G[j] = F[x]
    BY <1>18, Zenon DEF Joined
  <2> QED BY <1>1, <1>8, <2>1, Zenon
<1>20. HistoryOK2'
  BY <1>2, <1>3, <1>11, Zenon DEF HistoryOK2
<1>21. CallsOK(P, m, G, n + 1)'
  <2>1. \A c \in 1 .. L - 1 : \A j \in 1 .. n + 1 : t[c].ev # G[j]
    <3> TAKE c \in 1 .. L - 1
    <3> TAKE j \in 1 .. n + 1
    <3>1. G[j] = p \/ \E x \in 1 .. n : G[j] = F[x]
      BY <1>18, Zenon DEF Joined
    <3>2. c \in 1 .. Len(performing) /\ t[c] = performing[c] /\ performing[c].ev # p
      BY <1>7, <1>9, Zenon DEF L
    <3> QED BY <1>4, <3>1, <3>2, Zenon
  <2>2. \A c \in 1 .. L - 1 :
            /\ t[c].ev \in 1 .. Len(desc) /\ t[c].since \in 1 .. next_ID
            /\ c > 1 \/ servicing = -1 => \A i \in 1 .. m : t[c].ev # P[i]
    BY <1>4, <1>7, <1>9, Zenon DEF L
  <2>3. \A b, c \in 1 .. L - 1 : t[b].ev = t[c].ev => b = c
    BY <1>4, <1>7, <1>9, Zenon DEF L
  <2> QED BY <1>3, <1>4, <1>6, <1>7, <1>11, <1>13, <2>1, <2>2, <2>3, Zenon DEF CallsOK
<1>22. NoLeak(P, m, G, n + 1)'
  <2> SUFFICES ASSUME missed = {}, NEW x \in 1 .. Len(desc)
               PROVE  \/ \E i \in 1 .. m : x = P[i]
                      \/ \E j \in 1 .. n + 1 : x = G[j]
                      \/ \E c \in 1 .. Len(t) : x = t[c].ev
    BY <1>3, <1>6, <1>13, Zenon DEF NoLeak
  <2>1. \/ \E i \in 1 .. m : x = P[i]
        \/ \E j \in 1 .. n : x = F[j]
        \/ \E c \in 1 .. Len(performing) : x = performing[c].ev
    BY <1>2, Zenon DEF NoLeak
  <2>2. (\E j \in 1 .. n : x = F[j]) => \E j \in 1 .. n + 1 : x = G[j]
    BY <1>18, Zenon DEF Joined
  <2>3. ASSUME NEW c \in 1 .. Len(performing), x = performing[c].ev
        PROVE  (\E j \in 1 .. n + 1 : x = G[j]) \/ \E k \in 1 .. Len(t) : x = t[k].ev
    <3>1. c = L \/ c \in 1 .. L - 1
      BY <1>5 DEF L
    <3>2. CASE c = L
      BY <1>18, <2>3, <3>2, Zenon DEF Joined, p
    <3>3. CASE c \in 1 .. L - 1
      BY <1>7, <2>3, <3>3, Zenon
    <3> QED BY <3>1, <3>2, <3>3
  <2> QED BY <2>1, <2>2, <2>3, Zenon
<1>23. EvWith(P, m, G, n + 1)'
  BY <1>13, <1>15, <1>17, <1>19, <1>20, <1>21, <1>22, Zenon DEF EvWith
<1> QED BY <1>23, Zenon

\* A service begins or ends.
LEMMA ServiceKeeps ==
  ASSUME NEW P, NEW m, NEW F, NEW n, EvWith(P, m, F, n), performing = <<>>, servicing' \in Nat \cup {-1},
         UNCHANGED <<queueVars, performing, alive, performed, missed>>
  PROVE  EvWith(P, m, F, n)'
<1>1. /\ HistoryOK2 /\ CallsOK(P, m, F, n) /\ NoLeak(P, m, F, n) /\ IsSeq(desc) /\ AllEntries(desc)
      /\ ListOf(desc, eventq_pending, P, m) /\ ListOf(desc, eventq_free, F, n) /\ Apart(P, m, F, n)
      /\ Sorted(desc, P, m) /\ IdsOK(P, m) /\ AliveOK(P, m)
  BY Zenon DEF EvWith
<1>2. /\ desc' = desc /\ eventq_pending' = eventq_pending /\ eventq_free' = eventq_free /\ next_ID' = next_ID
      /\ performing' = performing /\ alive' = alive /\ performed' = performed /\ missed' = missed
  BY DEF queueVars
<1>3. ~InService /\ ~InService'
  BY <1>2, Zenon DEF InService
<1>4. Len(performing) = 0 /\ \A c \in 1 .. Len(performing) : FALSE
  <2>1. Len(performing) = 0
    BY NilIs
  <2> QED BY <2>1
<1>5. ListOf(desc', eventq_pending', P, m) /\ ListOf(desc', eventq_free', F, n) /\ Sorted(desc', P, m)
      /\ IsSeq(desc') /\ AllEntries(desc')
  BY <1>1, <1>2, Zenon
<1>6. IdsOK(P, m)'
  BY <1>1, <1>2, Zenon DEF IdsOK
<1>7. HistoryOK2'
  BY <1>1, <1>2, Zenon DEF HistoryOK2
<1>8. AliveOK(P, m)'
  BY <1>1, <1>2, <1>3, Zenon DEF AliveOK, Alive
<1>9. CallsOK(P, m, F, n)'
  <2>1. IsSeq(performing)
    BY <1>1, Zenon DEF CallsOK
  <2> QED BY <1>2, <1>4, <2>1, Zenon DEF CallsOK
<1>10. ServiceOK(P, m)'
  BY <1>3, Zenon DEF ServiceOK
<1>11. NoLeak(P, m, F, n)'
  <2> SUFFICES ASSUME missed = {}, NEW x \in 1 .. Len(desc)
               PROVE  \/ \E i \in 1 .. m : x = P[i]
                      \/ \E j \in 1 .. n : x = F[j]
                      \/ \E c \in 1 .. Len(performing) : x = performing[c].ev
    BY <1>2 DEF NoLeak
  <2> QED BY <1>1, Zenon DEF NoLeak
<1> QED BY <1>1, <1>5, <1>6, <1>7, <1>8, <1>9, <1>10, <1>11, Zenon DEF EvWith

\* The first event is performed, where it is.
LEMMA ServiceEventKeeps ==
  ASSUME NEW P, NEW m, NEW F, NEW n, EvWith(P, m, F, n), ServiceEvent
  PROVE  EvWith(P, m, F, n)'
<1>1. /\ m \in Nat /\ n \in Nat /\ Len(desc) \in Nat /\ next_ID \in Nat \ {0}
      /\ (\A i \in 1 .. m : P[i] \in 1 .. Len(desc) /\ P[i] # 0)
      /\ (\A i, j \in 1 .. m : P[i] = P[j] => i = j)
      /\ \A i \in 1 .. m : \A j \in 1 .. n : P[i] # F[j]
  BY ListsAre
<1>2. /\ HistoryOK2 /\ CallsOK(P, m, F, n) /\ NoLeak(P, m, F, n) /\ IsSeq(desc) /\ AllEntries(desc)
      /\ ListOf(desc, eventq_pending, P, m) /\ ListOf(desc, eventq_free, F, n) /\ Apart(P, m, F, n)
      /\ Sorted(desc, P, m) /\ IdsOK(P, m) /\ AliveOK(P, m)
  BY Zenon DEF EvWith
<1>3. /\ servicing # -1 /\ performing = <<>> /\ eventq_pending # 0 /\ Performing(eventq_pending)
      /\ desc' = desc /\ eventq_pending' = eventq_pending /\ eventq_free' = eventq_free /\ next_ID' = next_ID
      /\ servicing' = servicing /\ missed' = missed
  BY DEF ServiceEvent, Due, queueVars
<1>4. eventq_pending = P[1] /\ 1 \in 1 .. m
  <2>1. eventq_pending = At(P, m, 1)
    BY <1>2, Zenon DEF ListOf
  <2> QED BY <1>3, <2>1, Zenon DEF At
<1> DEFINE p == eventq_pending
           id == desc[p].id
<1>5. PICK r : r = [ev |-> p, since |-> next_ID]
  OBVIOUS
<1>6. r.ev = p /\ r.since = next_ID
  BY <1>5
<1>7. PICK t : t = performing'
  OBVIOUS
<1>8. Grows(performing, r, t) /\ performed' = Append(performed, id) /\ alive' = OthersThan(id)
  <2>1. /\ performing' = Append(performing, [ev |-> p, since |-> next_ID])
        /\ performed' = Append(performed, id) /\ alive' = OthersThan(id)
    BY <1>3, Zenon DEF Performing
  <2>2. IsSeq(performing)
    BY <1>2, Zenon DEF CallsOK
  <2> HIDE DEF p, id
  <2>3. t = Append(performing, r)
    BY <1>5, <1>7, <2>1, Zenon
  <2> QED BY <2>1, <2>2, <2>3, Zenon DEF Grows
<1>9. /\ IsSeq(t) /\ Len(t) = 1 /\ t[1] = r /\ t # <<>> /\ \A c \in 1 .. Len(t) : c = 1
  <2>1. IsSeq(t) /\ Len(t) = Len(performing) + 1 /\ t[Len(performing) + 1] = r
    BY <1>8, AppendIs DEF Grown
  <2>2. Len(performing) = 0
    BY <1>3, NilIs
  <2>3. Len(t) = 1 /\ t[1] = r
    BY <2>1, <2>2
  <2>4. t # <<>>
    BY <2>3, NilIs
  <2>5. \A c \in 1 .. Len(t) : c = 1
    BY <2>3
  <2> QED BY <2>1, <2>3, <2>4, <2>5, Zenon
<1>10. ~InService /\ InService' /\ performing'[1] = r
  BY <1>3, <1>7, <1>9, Zenon DEF InService
<1>11. DOMAIN alive' = DOMAIN alive \ {id} /\ \A x \in DOMAIN alive \ {id} : alive'[x] = alive[x]
  <2> HIDE DEF id
  <2> QED BY <1>8 DEF OthersThan
<1>12. id \in DOMAIN alive \ missed
  BY <1>2, <1>4, <1>10, Zenon DEF AliveOK, Alive
<1>13. \A j \in 1 .. m : P[j] # p => desc[P[j]].id # id
  BY <1>2, <1>4, Zenon DEF IdsOK, Distinct
<1> HIDE DEF p, id
<1>14. ListOf(desc', eventq_pending', P, m) /\ ListOf(desc', eventq_free', F, n) /\ Sorted(desc', P, m)
       /\ IsSeq(desc') /\ AllEntries(desc')
  BY <1>2, <1>3, Zenon
<1>15. IdsOK(P, m)'
  BY <1>2, <1>3, Zenon DEF IdsOK
<1>16. HistoryOK2'
  <2>1. PerformStep(id)
    BY <1>3, <1>8, <1>11, <1>12, Zenon DEF PerformStep
  <2> QED BY <1>2, <2>1, PerformedKeeps
<1>17. AliveOK(P, m)'
  <2>1. ASSUME NEW i \in 1 .. m
        PROVE  IF InService' /\ P[i] = performing'[1].ev THEN desc'[P[i]].id \notin DOMAIN alive' ELSE Alive(desc[P[i]])'
    <3>1. CASE P[i] = p
      <4>1. desc'[P[i]].id = id
        BY <1>3, <3>1, Zenon DEF id
      <4>2. desc'[P[i]].id \notin DOMAIN alive'
        BY <1>11, <4>1
      <4> QED BY <1>6, <1>10, <3>1, <4>2, Zenon
    <3>2. CASE P[i] # p
      <4>1. desc[P[i]].id \in DOMAIN alive \ missed /\ desc[P[i]].when = alive[desc[P[i]].id]
        BY <1>2, <1>10, Zenon DEF AliveOK, Alive
      <4>2. desc[P[i]].id # id
        BY <1>13, <3>2, Zenon
      <4>3. desc[P[i]].id \in DOMAIN alive' \ missed' /\ desc[P[i]].when = alive'[desc[P[i]].id]
        BY <1>3, <1>11, <4>1, <4>2
      <4> QED BY <1>3, <1>6, <1>10, <3>2, <4>3, Zenon DEF Alive
    <3> QED BY <3>1, <3>2
  <2>2. \A x \in DOMAIN alive' \ missed' : \E i \in 1 .. m : desc'[P[i]].id = x
    <3> TAKE x \in DOMAIN alive' \ missed'
    <3>1. x \in DOMAIN alive \ missed
      BY <1>3, <1>11
    <3> QED BY <1>2, <1>3, <3>1, Zenon DEF AliveOK
  <2> QED BY <2>1, <2>2, Zenon DEF AliveOK
<1>18. CallsOK(P, m, F, n)'
  <2>1. p \in 1 .. Len(desc) /\ next_ID \in 1 .. next_ID /\ servicing \in Nat \cup {-1}
        /\ \A j \in 1 .. n : p # F[j]
    <3>1. next_ID \in 1 .. next_ID
      BY <1>1
    <3> QED BY <1>1, <1>2, <1>4, <3>1, Zenon DEF CallsOK, p
  <2>2. \A c \in 1 .. Len(t) :
          /\ t[c].ev \in 1 .. Len(desc) /\ t[c].since \in 1 .. next_ID
          /\ (\A j \in 1 .. n : t[c].ev # F[j]) /\ ~(c > 1)
    <3> TAKE c \in 1 .. Len(t)
    <3>1. c = 1
      BY <1>9, Zenon
    <3>2. ~(c > 1)
      BY <3>1
    <3> QED BY <1>6, <1>9, <2>1, <3>1, <3>2, Zenon
  <2>3. \A b, c \in 1 .. Len(t) : t[b].ev = t[c].ev => b = c
    BY <1>9, Zenon
  <2> QED BY <1>3, <1>7, <1>9, <2>1, <2>2, <2>3, Zenon DEF CallsOK
<1>19. ServiceOK(P, m)'
  <2>1. \A i \in 1 .. m : ~(i < 1) /\ ~(desc[P[i]].id >= next_ID)
    <3> TAKE i \in 1 .. m
    <3>1. desc[P[i]].id \in 1 .. next_ID - 1
      BY <1>2, Zenon DEF IdsOK
    <3> QED BY <1>1, <3>1
  <2>2. Front(P, m, performing[1], 1)'
    BY <1>3, <1>4, <1>6, <1>10, <2>1, Zenon DEF Front, p
  <2> QED BY <1>4, <2>2, Zenon DEF ServiceOK
<1>20. NoLeak(P, m, F, n)'
  <2> SUFFICES ASSUME missed = {}, NEW x \in 1 .. Len(desc)
               PROVE  (\E i \in 1 .. m : x = P[i]) \/ (\E j \in 1 .. n : x = F[j])
    BY <1>3, Zenon DEF NoLeak
  <2>1. \/ \E i \in 1 .. m : x = P[i]
        \/ \E j \in 1 .. n : x = F[j]
        \/ \E c \in 1 .. Len(performing) : x = performing[c].ev
    BY <1>2, Zenon DEF NoLeak
  <2>2. ~\E c \in 1 .. Len(performing) : x = performing[c].ev
    <3>1. Len(performing) = 0
      BY <1>3, NilIs
    <3> QED BY <3>1
  <2> QED BY <2>1, <2>2, Zenon
<1> QED BY <1>2, <1>14, <1>15, <1>16, <1>17, <1>18, <1>19, <1>20, Zenon DEF EvWith

\* The list goes on behind the event that was performed.
LEMMA EventReturnKeeps ==
  ASSUME NEW P, NEW m, NEW F, NEW n, EvWith(P, m, F, n), EventReturns
  PROVE  \E Q, m2, G, n2 : EvWith(Q, m2, G, n2)'
<1>1. /\ m \in Nat /\ n \in Nat /\ Len(desc) \in Nat /\ next_ID \in Nat \ {0}
      /\ (\A i \in 1 .. m : P[i] \in 1 .. Len(desc) /\ P[i] # 0)
      /\ (\A i, j \in 1 .. m : P[i] = P[j] => i = j)
      /\ (\A i \in 1 .. n : F[i] \in 1 .. Len(desc) /\ F[i] # 0)
      /\ \A i \in 1 .. m : \A j \in 1 .. n : P[i] # F[j]
  BY ListsAre
<1>2. /\ HistoryOK2 /\ CallsOK(P, m, F, n) /\ NoLeak(P, m, F, n) /\ IsSeq(desc) /\ AllEntries(desc)
      /\ ListOf(desc, eventq_pending, P, m) /\ ListOf(desc, eventq_free, F, n)
      /\ Sorted(desc, P, m) /\ IdsOK(P, m) /\ AliveOK(P, m) /\ ServiceOK(P, m)
  BY Zenon DEF EvWith
<1> DEFINE c == performing[1]
           p == c.ev
<1>3. /\ servicing # -1 /\ Len(performing) = 1 /\ Innermost = c
      /\ SetQueue(Freed([Queue EXCEPT !.pending = desc[p].next], p))
      /\ missed' = missed \cup {i \in DOMAIN alive : c.since <= i /\ alive[i] <= desc[p].when}
      /\ performing' = <<>> /\ servicing' = servicing /\ alive' = alive /\ performed' = performed
  <2>1. Len(performing) = 1
    BY Zenon DEF EventReturns
  <2>2. Innermost = c
    BY <2>1, Zenon DEF Innermost
  <2> QED BY <2>1, <2>2, Zenon DEF EventReturns
<1>4. IsSeq(performing) /\ servicing \in Nat \cup {-1} /\ 1 \in 1 .. Len(performing) /\ performing # <<>>
      /\ p \in 1 .. Len(desc) /\ c.since \in 1 .. next_ID /\ \A j \in 1 .. n : p # F[j]
  <2>1. 1 \in 1 .. Len(performing) /\ performing # <<>>
    BY <1>3, NilIs
  <2> QED BY <1>2, <2>1, Zenon DEF CallsOK
<1>5. InService /\ ~InService'
  BY <1>3, <1>4, Zenon DEF InService
<1>6. PICK h \in 1 .. m : Front(P, m, c, h)
  BY <1>2, <1>5, Zenon DEF ServiceOK
<1>7. /\ P[h] = p /\ (\A i \in 1 .. m : i < h => desc[P[i]].id >= c.since)
      /\ \A i \in 1 .. m : i > h /\ desc[P[i]].id >= c.since => desc[P[i]].when > desc[p].when
  BY <1>6, Zenon DEF Front
<1> HIDE DEF c, p
<1>8. PICK first : first = desc[p].next
  OBVIOUS
<1>9. PICK Q, l : Q = Beyond(P, m, h) /\ l = m - h
  OBVIOUS
<1>10. l \in Nat /\ \A i \in 1 .. l : i + h \in 1 .. m /\ i + h > h /\ i + h # h /\ Q[i] = P[i + h]
  BY <1>1, <1>9 DEF Beyond
<1>11. \A j \in 1 .. m : j > h => j - h \in 1 .. l /\ Q[j - h] = P[j]
  <2> TAKE j \in 1 .. m
  <2> HAVE j > h
  <2>1. j - h \in 1 .. l /\ (j - h) + h = j
    BY <1>1, <1>9
  <2> QED BY <1>10, <2>1, Zenon
<1>12. ListOf(desc, first, Q, l)
  <2>1. ListOf(desc, desc[P[h]].next, Beyond(P, m, h), m - h)
    BY <1>2, ListBeyond
  <2> QED BY <1>7, <1>8, <1>9, <2>1, Zenon
<1>13. PICK e : /\ Relinked(desc, p, eventq_free, e)
                /\ Freed(QueueOf(desc, first, eventq_free, next_ID), p) = QueueOf(e, first, p, next_ID)
  <2>1. IsSeq(desc) /\ AllEntries(desc) /\ p \in 1 .. Len(desc)
    BY <1>2, <1>4, Zenon
  <2>2. Freeing(desc, first, eventq_free, next_ID, p)
    BY <2>1, FreeingIs
  <2> QED BY <2>2, Zenon DEF Freeing
<1>14. desc' = e /\ eventq_pending' = first /\ eventq_free' = p /\ next_ID' = next_ID
  <2>1. [Queue EXCEPT !.pending = first] = QueueOf(desc, first, eventq_free, next_ID)
    BY DEF Queue, QueueOf
  <2>2. SetQueue(QueueOf(e, first, p, next_ID))
    BY <1>3, <1>8, <1>13, <2>1, Zenon
  <2>3. QueueIsNow(e, first, p, next_ID)
    BY <2>2, SetIs
  <2> QED BY <2>3, Zenon DEF QueueIsNow
<1>15. Rewritten(desc, e)
  BY <1>13, Zenon DEF Relinked
<1>16. IsSeq(desc') /\ AllEntries(desc') /\ Len(desc') = Len(desc)
  BY <1>14, <1>15, RewrittenIs
<1>17. PICK G : Inserts(F, n, 0, p, G)
  BY Zenon DEF Inserts
<1>18. \A i \in 1 .. l : Q[i] # p
  <2> TAKE i \in 1 .. l
  <2>1. i + h \in 1 .. m /\ i + h # h
    BY <1>10, Zenon
  <2> QED BY <1>1, <1>7, <1>10, <2>1, Zenon
<1>19. ListOf(desc', eventq_pending', Q, l) /\ ListOf(desc', eventq_free', G, n + 1)
  <2>1. Avoids(Q, l, p) /\ Avoids(F, n, p)
    BY <1>4, <1>18, Zenon DEF Avoids
  <2>2. ListOf(e, first, Q, l) /\ ListOf(e, p, InsertAt(F, n, 0, p), n + 1)
    BY <1>2, <1>4, <1>12, <1>13, <2>1, FreeLists
  <2> QED BY <1>14, <1>17, <2>2, Zenon DEF Inserts
<1>20. Joined(F, n, p, G, n + 1)
  BY <1>1, <1>17, FreedPlaces
<1>21. Apart(Q, l, G, n + 1)
  <2> SUFFICES ASSUME NEW i \in 1 .. l, NEW j \in 1 .. n + 1 PROVE Q[i] # G[j]
    BY Zenon DEF Apart
  <2>1. G[j] = p \/ \E x \in 1 .. n : G[j] = F[x]
    BY <1>20, Zenon DEF Joined
  <2>2. Q[i] # p /\ i + h \in 1 .. m /\ Q[i] = P[i + h]
    BY <1>10, <1>18, Zenon
  <2> QED BY <1>1, <2>1, <2>2, Zenon
<1>22. SameEvents(P, m, desc, e)
  BY <1>1, <1>15, Zenon DEF SameEvents, Rewritten
<1>23. Sorted(desc', Q, l) /\ Distinct(desc', Q, l)
  <2>1. PICK g : g = [i \in 1 .. l |-> i + h]
    OBVIOUS
  <2>2. (\A i \in 1 .. l : g[i] = i + h) /\ \A i, j \in 1 .. l : i < j => g[i] < g[j]
    BY <1>10, <2>1
  <2>3. SubOf(P, m, Q, l, g)
    BY <1>10, <2>2, Zenon DEF SubOf
  <2>4. Distinct(desc, P, m)
    BY <1>2, Zenon DEF IdsOK
  <2>5. Sorted(e, Q, l) /\ Distinct(e, Q, l)
    BY <1>1, <1>2, <1>22, <2>3, <2>4, SubKeeps
  <2> QED BY <1>14, <2>5, Zenon
<1>24. \A i \in 1 .. l : desc'[Q[i]].id = desc[P[i + h]].id /\ desc'[Q[i]].when = desc[P[i + h]].when
  BY <1>10, <1>14, <1>22, Zenon DEF SameEvents, Same
<1>25. IdsOK(Q, l)'
  <2>1. \A i \in 1 .. l : desc'[Q[i]].id \in 1 .. next_ID - 1
    BY <1>2, <1>10, <1>24, Zenon DEF IdsOK
  <2> QED BY <1>1, <1>14, <1>23, <2>1, Zenon DEF IdsOK
<1> DEFINE M == {i \in DOMAIN alive : c.since <= i /\ alive[i] <= desc[p].when}
<1>26. DOMAIN alive \subseteq 1 .. next_ID - 1 /\ \A x \in M : x \in DOMAIN alive
  BY <1>2, Zenon DEF HistoryOK2
<1>27. HistoryOK2'
  <2>1. missed' \subseteq 1 .. next_ID - 1
    BY <1>2, <1>3, <1>26 DEF HistoryOK2
  <2> QED BY <1>2, <1>3, <1>14, <2>1, Zenon DEF HistoryOK2
<1>28. \A x \in DOMAIN alive : x \in M <=> c.since <= x /\ alive[x] <= desc[p].when
  OBVIOUS
<1>29. missed' = missed \cup M
  BY <1>3, Zenon
<1> HIDE DEF M
<1>30. \A i \in 1 .. m : desc[P[i]].when \in Nat /\ desc[P[i]].id \in 1 .. next_ID - 1
  BY <1>2, Zenon DEF Sorted, IdsOK
\* What is pending was in front of it or is behind it, but for itself.
<1>31. \A i \in 1 .. m : i # h => desc[P[i]].id \in DOMAIN alive \ missed /\ desc[P[i]].when = alive[desc[P[i]].id]
  <2> TAKE i \in 1 .. m
  <2> HAVE i # h
  <2>1. P[i] # performing[1].ev
    BY <1>1, <1>7, Zenon DEF p, c
  <2> QED BY <1>2, <2>1, Zenon DEF AliveOK, Alive
<1>32. \A i \in 1 .. m : i < h => desc[P[i]].id \in M
  <2> TAKE i \in 1 .. m
  <2> HAVE i < h
  <2>1. desc[P[i]].id >= c.since /\ desc[P[i]].when <= desc[P[h]].when /\ i # h
    BY <1>1, <1>2, <1>7 DEF Sorted
  <2>2. desc[P[i]].id \in DOMAIN alive /\ desc[P[i]].when = alive[desc[P[i]].id]
    BY <1>31, <2>1, Zenon
  <2>3. c.since <= desc[P[i]].id
    BY <1>4, <1>30, <2>1
  <2>4. alive[desc[P[i]].id] <= desc[p].when
    BY <1>7, <2>1, <2>2, Zenon
  <2> QED BY <1>28, <2>2, <2>3, <2>4, Zenon
<1>33. \A i \in 1 .. m : i > h => desc[P[i]].id \notin M
  <2> SUFFICES ASSUME NEW i \in 1 .. m, i > h, desc[P[i]].id \in M PROVE FALSE
    BY Zenon
  <2>0. i # h
    BY <1>1
  <2>1. desc[P[i]].id \in DOMAIN alive /\ desc[P[i]].when = alive[desc[P[i]].id]
    BY <1>31, <2>0, Zenon
  <2>2. c.since <= desc[P[i]].id /\ alive[desc[P[i]].id] <= desc[p].when
    BY <1>28, <2>1, Zenon
  <2>3. desc[P[i]].id >= c.since
    BY <1>4, <1>30, <2>2
  <2>4. desc[P[i]].when > desc[p].when
    BY <1>7, <2>3, Zenon
  <2>5. desc[P[i]].when \in Nat /\ desc[P[h]].when \in Nat /\ desc[P[i]].when <= desc[P[h]].when
    BY <1>7, <1>30, <2>1, <2>2, Zenon
  <2> QED BY <1>7, <2>4, <2>5
<1>34. AliveOK(Q, l)'
  <2>1. ASSUME NEW i \in 1 .. l PROVE Alive(desc[Q[i]])'
    <3>1. i + h \in 1 .. m /\ i + h > h /\ i + h # h
      BY <1>10, Zenon
    <3>2. desc[P[i + h]].id \in DOMAIN alive \ missed /\ desc[P[i + h]].when = alive[desc[P[i + h]].id]
      BY <1>31, <3>1, Zenon
    <3>3. desc[P[i + h]].id \notin M
      BY <1>33, <3>1, Zenon
    <3>4. desc'[Q[i]].id \in DOMAIN alive' \ missed' /\ desc'[Q[i]].when = alive'[desc'[Q[i]].id]
      BY <1>3, <1>24, <1>29, <3>2, <3>3
    <3> QED BY <3>4, Zenon DEF Alive
  <2>2. ASSUME NEW x \in DOMAIN alive' \ missed' PROVE \E i \in 1 .. l : desc'[Q[i]].id = x
    <3>1. x \in DOMAIN alive \ missed /\ x \notin M
      BY <1>3, <1>29
    <3>2. PICK j \in 1 .. m : desc[P[j]].id = x
      BY <1>2, <3>1, Zenon DEF AliveOK
    <3>3. j # h
      <4>1. desc[P[h]].id \notin DOMAIN alive
        BY <1>2, <1>5, <1>7, Zenon DEF AliveOK, p, c
      <4> QED BY <3>1, <3>2, <4>1, Zenon
    <3>4. ~(j < h)
      BY <1>32, <3>1, <3>2, Zenon
    <3>5. j > h
      BY <1>1, <3>3, <3>4
    <3>6. j - h \in 1 .. l /\ Q[j - h] = P[j]
      BY <1>11, <3>5, Zenon
    <3>7. desc'[Q[j - h]].id = x
      BY <1>14, <1>22, <3>2, <3>6, Zenon DEF SameEvents, Same
    <3> QED BY <3>6, <3>7, Zenon
  <2> QED BY <1>5, <2>1, <2>2, Zenon DEF AliveOK
<1>35. IsSeq(performing') /\ \A k \in 1 .. Len(performing') : FALSE
  <2>1. IsSeq(<<>>) /\ Len(<<>>) = 0
    BY NilIs
  <2> QED BY <1>3, <2>1
<1>36. CallsOK(Q, l, G, n + 1)'
  BY <1>3, <1>4, <1>35, Zenon DEF CallsOK
<1>37. ServiceOK(Q, l)'
  BY <1>5, Zenon DEF ServiceOK
<1>38. NoLeak(Q, l, G, n + 1)'
  <2> SUFFICES ASSUME missed' = {}, NEW x \in 1 .. Len(desc)
               PROVE  (\E i \in 1 .. l : x = Q[i]) \/ (\E j \in 1 .. n + 1 : x = G[j])
    BY <1>16, Zenon DEF NoLeak
  <2>1. missed = {} /\ M = {}
    BY <1>29
  <2>2. \/ \E i \in 1 .. m : x = P[i]
        \/ \E j \in 1 .. n : x = F[j]
        \/ \E k \in 1 .. Len(performing) : x = performing[k].ev
    BY <1>2, <2>1, Zenon DEF NoLeak
  <2>3. \E j \in 1 .. n + 1 : p = G[j]
    BY <1>20, Zenon DEF Joined
  <2>4. ASSUME NEW i \in 1 .. m, x = P[i] PROVE (\E k \in 1 .. l : x = Q[k]) \/ (\E j \in 1 .. n + 1 : x = G[j])
    <3>1. ~(i < h)
      BY <1>32, <2>1
    <3>2. i = h \/ i > h
      BY <1>1, <3>1
    <3> QED BY <1>7, <1>11, <2>3, <2>4, <3>2, Zenon
  <2>5. (\E j \in 1 .. n : x = F[j]) => \E j \in 1 .. n + 1 : x = G[j]
    BY <1>20, Zenon DEF Joined
  <2>6. \A k \in 1 .. Len(performing) : performing[k].ev = p
    <3>1. \A k \in 1 .. Len(performing) : k = 1
      BY <1>3
    <3> QED BY <3>1, Zenon DEF p, c
  <2> QED BY <2>2, <2>3, <2>4, <2>5, <2>6, Zenon
<1>39. EvWith(Q, l, G, n + 1)'
  BY <1>16, <1>19, <1>21, <1>23, <1>25, <1>27, <1>34, <1>36, <1>37, <1>38, Zenon DEF EvWith
<1> QED BY <1>39, Zenon

LEMMA EventqInitKeeps == EventqInit => EvInv
<1> SUFFICES ASSUME EventqInit PROVE \E P, m, F, n : EvWith(P, m, F, n)
  BY Zenon DEF EvInv
<1>1. /\ desc = <<>> /\ eventq_pending = 0 /\ eventq_free = 0 /\ next_ID = 1
      /\ servicing = -1 /\ performing = <<>> /\ alive = <<>> /\ performed = <<>> /\ missed = {}
  BY DEF EventqInit
<1>2. IsSeq(<<>>) /\ Len(<<>>) = 0 /\ DOMAIN <<>> = {}
  BY NilIs
<1>3. PICK P : P = [i \in 1 .. 0 |-> 0]
  OBVIOUS
<1>4. P \in [1 .. 0 -> 1 .. 0] /\ \A i \in 1 .. 0 : FALSE
  BY <1>3
<1>5. ListOf(desc, 0, P, 0)
  <2>1. 0 = At(P, 0, 1)
    BY DEF At
  <2>2. Injected(P, 0) /\ Linked(desc, P, 0)
    BY <1>4, Zenon DEF Injected, Linked
  <2>3. 0 \in Nat /\ Len(desc) = 0
    BY <1>1, <1>2
  <2> QED BY <1>4, <2>1, <2>2, <2>3, Zenon DEF ListOf
<1>6. AllEntries(desc) /\ IsSeq(desc)
  BY <1>1, <1>2, <1>4, Zenon DEF AllEntries
<1>7. Sorted(desc, P, 0) /\ Apart(P, 0, P, 0)
  BY <1>4, Zenon DEF Sorted, Apart
<1>8. IdsOK(P, 0)
  <2>1. next_ID \in Nat \ {0}
    BY <1>1
  <2> QED BY <1>4, <2>1, Zenon DEF IdsOK, Distinct
<1>9. HistoryOK2
  <2>1. IsSeq(performed) /\ Len(performed) = 0
    BY <1>1, <1>2
  <2>2. DOMAIN alive = {}
    BY <1>1, <1>2, Zenon
  <2> QED BY <1>1, <1>4, <2>1, <2>2, Zenon DEF HistoryOK2, Injected
<1>10. ~InService
  BY <1>1, Zenon DEF InService
<1>11. AliveOK(P, 0)
  <2>1. DOMAIN alive \ missed = {}
    BY <1>1, <1>2, Zenon
  <2> QED BY <1>4, <2>1, Zenon DEF AliveOK
<1>12. CallsOK(P, 0, P, 0)
  <2>1. IsSeq(performing) /\ servicing \in Nat \cup {-1} /\ Len(performing) = 0
    BY <1>1, <1>2
  <2> QED BY <1>4, <2>1, Zenon DEF CallsOK
<1>13. ServiceOK(P, 0) /\ NoLeak(P, 0, P, 0)
  <2>1. Len(desc) = 0
    BY <1>1, <1>2
  <2> QED BY <1>4, <1>10, <2>1, Zenon DEF ServiceOK, NoLeak
<1>14. EvWith(P, 0, P, 0)
  BY <1>1, <1>5, <1>6, <1>7, <1>8, <1>9, <1>11, <1>12, <1>13, Zenon DEF EvWith
<1> QED BY <1>14, Zenon

LEMMA EventqStutters ==
  ASSUME NEW P, NEW m, NEW F, NEW n, EvWith(P, m, F, n), UNCHANGED eventqVars
  PROVE  EvWith(P, m, F, n)'
<1>1. /\ desc' = desc /\ eventq_pending' = eventq_pending /\ eventq_free' = eventq_free /\ next_ID' = next_ID
      /\ servicing' = servicing /\ performing' = performing /\ alive' = alive /\ performed' = performed /\ missed' = missed
  BY DEF eventqVars, queueVars
<1>2. EvWith(P, m, F, n)
  OBVIOUS
<1>3. InService' <=> InService
  BY <1>1, Zenon DEF InService
<1>4. Rewritten(desc, desc')
  BY <1>1, <1>2, Zenon DEF EvWith, Rewritten, AllEntries, Same
<1>5. SameStep
  BY <1>1, <1>3, <1>4, Zenon DEF SameStep
<1>6. Sorted(desc', P, m) /\ IdsOK(P, m)' /\ AliveOK(P, m)' /\ ServiceOK(P, m)'
  BY <1>2, <1>5, SameKeeps
<1>7. /\ HistoryOK2 /\ CallsOK(P, m, F, n) /\ NoLeak(P, m, F, n) /\ IsSeq(desc) /\ AllEntries(desc)
      /\ ListOf(desc, eventq_pending, P, m) /\ ListOf(desc, eventq_free, F, n) /\ Apart(P, m, F, n)
  BY Zenon DEF EvWith
<1>8. HistoryOK2'
  BY <1>1, <1>7, Zenon DEF HistoryOK2
<1>9. CallsOK(P, m, F, n)'
  BY <1>1, <1>7, Zenon DEF CallsOK
<1>10. NoLeak(P, m, F, n)'
  <2> SUFFICES ASSUME missed = {}, NEW x \in 1 .. Len(desc)
               PROVE  \/ \E i \in 1 .. m : x = P[i]
                      \/ \E j \in 1 .. n : x = F[j]
                      \/ \E c \in 1 .. Len(performing) : x = performing[c].ev
    BY <1>1 DEF NoLeak
  <2> QED BY <1>7, Zenon DEF NoLeak
<1>11. IsSeq(desc') /\ AllEntries(desc') /\ ListOf(desc', eventq_pending', P, m) /\ ListOf(desc', eventq_free', F, n)
  BY <1>1, <1>7, Zenon
<1> QED BY <1>6, <1>7, <1>8, <1>9, <1>10, <1>11, Zenon DEF EvWith

\* A behaviour in which a callback removes what is serviced is not followed any further.
LEMMA EventqKeeps == EvInv /\ [EventqNext]_eventqVars => EvInv'
<1> SUFFICES ASSUME EvInv, [EventqNext]_eventqVars, ~crossed' PROVE EvInv'
  BY Zenon DEF EvInv
<1>1. ~crossed
  <2>1. UNCHANGED eventqVars => crossed' = crossed
    BY DEF eventqVars
  <2>2. EventqNext => ~crossed
    BY Zenon DEF EventqNext, eventq_queue, eventq_remove, eventq_execute, eventq_service_events,
       ExecuteReturns, ServiceEvent, EventReturns, ServiceEnds, Client
  <2> QED BY <2>1, <2>2, Zenon
<1>2. PICK P, m, F, n : EvWith(P, m, F, n)
  BY <1>1, Zenon DEF EvInv
<1> SUFFICES \E Q, m2, G, n2 : EvWith(Q, m2, G, n2)'
  BY Zenon DEF EvInv
<1>3. ASSUME NEW when \in Times, NEW action \in Actions, eventq_queue(when, action)
      PROVE  \E Q, m2, G, n2 : EvWith(Q, m2, G, n2)'
  <2>1. when \in Nat
    BY EventqAssumption
  <2> QED BY <1>2, <1>3, <2>1, QueueKeeps
<1>4. ASSUME NEW id \in 1 .. next_ID - 1, eventq_remove(id) PROVE \E Q, m2, G, n2 : EvWith(Q, m2, G, n2)'
  BY <1>2, <1>4, RemoveKeeps
<1>5. ASSUME NEW id \in 1 .. next_ID - 1, eventq_execute(id) PROVE \E Q, m2, G, n2 : EvWith(Q, m2, G, n2)'
  BY <1>1, <1>2, <1>5, ExecuteKeeps
<1>6. ASSUME NEW now \in Times, eventq_service_events(now) PROVE \E Q, m2, G, n2 : EvWith(Q, m2, G, n2)'
  <2>1. now \in Nat
    BY EventqAssumption
  <2>2. performing = <<>> /\ servicing' \in Nat \cup {-1} /\ UNCHANGED <<queueVars, performing, alive, performed, missed>>
    BY <1>6, <2>1 DEF eventq_service_events, Outside
  <2> QED BY <1>2, <2>2, ServiceKeeps
<1>7. CASE ExecuteReturns
  BY <1>2, <1>7, ReturnKeeps
<1>8. CASE ServiceEvent
  BY <1>2, <1>8, ServiceEventKeeps
<1>9. CASE EventReturns
  BY <1>2, <1>9, EventReturnKeeps
<1>10. CASE ServiceEnds
  <2>1. performing = <<>> /\ servicing' \in Nat \cup {-1} /\ UNCHANGED <<queueVars, performing, alive, performed, missed>>
    BY <1>10 DEF ServiceEnds
  <2> QED BY <1>2, <2>1, ServiceKeeps
<1>11. CASE UNCHANGED eventqVars
  BY <1>2, <1>11, EventqStutters
<1> QED BY <1>3, <1>4, <1>5, <1>6, <1>7, <1>8, <1>9, <1>10, <1>11, Zenon DEF EventqNext

\* The lists of eventq.c hold together, and what is queued is on them, in every
\* state until a callback takes away the event that is serviced.
THEOREM EventqInvariant == EventqSpec => []EvInv
<1>1. EventqInit => EvInv
  BY EventqInitKeeps
<1>2. EvInv /\ [EventqNext]_eventqVars => EvInv'
  BY EventqKeeps
<1> QED BY <1>1, <1>2, PTL DEF EventqSpec

-----------------------------------------------------------------------------
(* The event queue: what the invariant says of the lists as they are read. *)

\* A sequence whose elements differ has as many of them as places.
LEMMA MembersCount ==
  ASSUME NEW n \in Nat, NEW s, DOMAIN s = 1 .. n, Injected(s, n)
  PROVE  Cardinality({s[k] : k \in DOMAIN s}) = n
<1> DEFINE D == 1 .. n
           G == {s[k] : k \in D}
           g == [k \in D |-> s[k]]
<1>1. IsFiniteSet(D) /\ Cardinality(D) = n
  BY FirstNumbers
<1>2. \A j, k \in D : s[j] = s[k] => j = k
  BY Zenon DEF Injected
<1> HIDE DEF D
<1>3. \A k \in D : g[k] = s[k]
  BY Zenon
<1> HIDE DEF g
<1>4. g \in [D -> G]
  BY Zenon DEF g
<1>5. \A y \in G : \E k \in D : g[k] = y
  BY <1>3, Zenon
<1>6. \A j, k \in D : g[j] = g[k] => j = k
  BY <1>2, <1>3, Zenon
<1> HIDE DEF G
<1>7. g \in Bijection(D, G)
  BY <1>4, <1>5, <1>6, Zenon DEF Bijection, Injection, Surjection, IsInjective
<1>8. Cardinality(G) = Cardinality(D)
  BY <1>1, <1>7, FS_Bijection, Zenon DEF ExistsBijection
<1> QED BY <1>1, <1>8, Zenon DEF G, D

\* The lists as NoEventLost reads them, one descriptor further than there are.
LEMMA ListRead ==
  ASSUME NEW d, NEW first, NEW P, NEW m, ListOf(d, first, P, m)
  PROVE  /\ Chain(d, first, Len(d) + 1) = P
         /\ DOMAIN P = 1 .. m /\ Len(P) = m /\ m \in Nat
         /\ Cardinality({P[k] : k \in DOMAIN P}) = Len(P)
<1>1. m \in Nat /\ Len(d) \in Nat /\ m <= Len(d) /\ DOMAIN P = 1 .. m
  BY ListIs
<1>2. Len(d) + 1 \in Nat /\ m <= Len(d) + 1
  BY <1>1
<1>3. Chain(d, first, Len(d) + 1) = P
  BY <1>2, ChainIs
<1>4. P \in Seq(1 .. Len(d))
  BY <1>1, IsASeq DEF ListOf
<1>5. Len(P) \in Nat /\ DOMAIN P = 1 .. Len(P)
  BY <1>4, LenProperties
<1>6. Len(P) = m
  BY <1>1, <1>5
<1>7. Injected(P, m)
  BY Zenon DEF ListOf
<1>8. Cardinality({P[k] : k \in DOMAIN P}) = m
  BY <1>1, <1>7, MembersCount
<1> QED BY <1>1, <1>3, <1>6, <1>8, Zenon

\* The id of the event that is serviced.
ServicedIds == IF servicing = -1 \/ performing = <<>> THEN {} ELSE {desc[performing[1].ev].id}
LEMMA ServicedIs ==
  ASSUME NEW P, NEW m, NEW F, NEW n, EvWith(P, m, F, n)
  PROVE  \A i \in 1 .. m : desc[P[i]].id \in ServicedIds <=> InService /\ P[i] = performing[1].ev
<1>1. ServiceOK(P, m) /\ Distinct(desc, P, m)
  BY Zenon DEF EvWith, IdsOK
<1>2. CASE InService
  <2>1. ServicedIds = {desc[performing[1].ev].id}
    BY <1>2, Zenon DEF InService, ServicedIds
  <2>2. PICK h \in 1 .. m : P[h] = performing[1].ev
    BY <1>1, <1>2, Zenon DEF ServiceOK, Front
  <2>3. ServicedIds = {desc[P[h]].id}
    BY <2>1, <2>2, Zenon
  <2> QED BY <1>1, <1>2, <2>2, <2>3, Zenon DEF Distinct
<1>3. CASE ~InService
  BY <1>3, Zenon DEF InService, ServicedIds
<1> QED BY <1>2, <1>3, Zenon

\* What is pending is what is alive, and what is serviced.
LEMMA IdsAre ==
  ASSUME NEW P, NEW m, NEW F, NEW n, EvWith(P, m, F, n)
  PROVE  {desc[P[k]].id : k \in 1 .. m} = (DOMAIN alive \ missed) \cup ServicedIds
<1>1. AliveOK(P, m) /\ ServiceOK(P, m)
  BY Zenon DEF EvWith
<1>2. \A i \in 1 .. m : desc[P[i]].id \in ServicedIds <=> InService /\ P[i] = performing[1].ev
  BY ServicedIs
<1>3. ASSUME NEW i \in 1 .. m PROVE desc[P[i]].id \in (DOMAIN alive \ missed) \cup ServicedIds
  BY <1>1, <1>2, Zenon DEF AliveOK, Alive
<1>4. ASSUME NEW x \in DOMAIN alive \ missed PROVE \E i \in 1 .. m : x = desc[P[i]].id
  BY <1>1, Zenon DEF AliveOK
<1>5. ASSUME NEW x \in ServicedIds PROVE \E i \in 1 .. m : x = desc[P[i]].id
  <2>1. InService /\ x = desc[performing[1].ev].id
    BY <1>5, Zenon DEF ServicedIds, InService
  <2> QED BY <1>1, <2>1, Zenon DEF ServiceOK, Front
<1> QED BY <1>3, <1>4, <1>5, Zenon

\* What NoEventLost says of the two lists.
ListsKeep(pending, free) ==
  /\ {desc[pending[k]].id : k \in DOMAIN pending} = (DOMAIN alive \ missed) \cup ServicedIds
  /\ \A k \in DOMAIN pending :
       /\ desc[pending[k]].id \notin ServicedIds => desc[pending[k]].when = alive[desc[pending[k]].id]
       /\ k > 1 => desc[pending[k - 1]].when <= desc[pending[k]].when
  /\ Cardinality({pending[k] : k \in DOMAIN pending}) = Len(pending)
  /\ Cardinality({free[k] : k \in DOMAIN free}) = Len(free)
  /\ {pending[k] : k \in DOMAIN pending} \cap {free[k] : k \in DOMAIN free} = {}
  /\ {performing[k].ev : k \in DOMAIN performing} \cap {free[k] : k \in DOMAIN free} = {}
  /\ Cardinality({performed[k] : k \in DOMAIN performed}) = Len(performed)
  /\ DOMAIN desc = {pending[k] : k \in DOMAIN pending} \cup {free[k] : k \in DOMAIN free}
                     \cup {performing[k].ev : k \in DOMAIN performing} \/ missed # {}

LEMMA InvariantLosesNothing == EvInv => NoEventLost
<1> SUFFICES ASSUME EvInv, ~crossed PROVE NoEventLost
  BY Zenon DEF NoEventLost
<1>1. PICK P, m, F, n : EvWith(P, m, F, n)
  BY Zenon DEF EvInv
<1>2. /\ IsSeq(desc) /\ ListOf(desc, eventq_pending, P, m) /\ ListOf(desc, eventq_free, F, n)
      /\ Apart(P, m, F, n) /\ Sorted(desc, P, m) /\ HistoryOK2 /\ AliveOK(P, m)
      /\ CallsOK(P, m, F, n) /\ NoLeak(P, m, F, n)
  BY <1>1, Zenon DEF EvWith
<1>3. /\ Chain(desc, eventq_pending, Len(desc) + 1) = P /\ DOMAIN P = 1 .. m /\ m \in Nat
      /\ Cardinality({P[k] : k \in DOMAIN P}) = Len(P)
  BY <1>2, ListRead
<1>4. /\ Chain(desc, eventq_free, Len(desc) + 1) = F /\ DOMAIN F = 1 .. n
      /\ Cardinality({F[k] : k \in DOMAIN F}) = Len(F)
  BY <1>2, ListRead
<1>5. IsSeq(performing) /\ DOMAIN performing = 1 .. Len(performing) /\ DOMAIN desc = 1 .. Len(desc)
  BY <1>2, SeqIs DEF CallsOK
<1>6. {desc[P[k]].id : k \in DOMAIN P} = (DOMAIN alive \ missed) \cup ServicedIds
  BY <1>1, <1>3, IdsAre
<1>7. ASSUME NEW k \in DOMAIN P
      PROVE  /\ desc[P[k]].id \notin ServicedIds => desc[P[k]].when = alive[desc[P[k]].id]
             /\ k > 1 => desc[P[k - 1]].when <= desc[P[k]].when
  <2>1. k \in 1 .. m
    BY <1>3
  <2>2. desc[P[k]].id \notin ServicedIds => ~(InService /\ P[k] = performing[1].ev)
    BY <1>1, <2>1, ServicedIs
  <2>3. desc[P[k]].id \notin ServicedIds => desc[P[k]].when = alive[desc[P[k]].id]
    BY <1>2, <2>1, <2>2, Zenon DEF AliveOK, Alive
  <2>4. k > 1 => k - 1 \in 1 .. m /\ k - 1 < k
    BY <1>3, <2>1
  <2>5. k > 1 => desc[P[k - 1]].when <= desc[P[k]].when
    BY <1>2, <2>1, <2>4, Zenon DEF Sorted
  <2> QED BY <2>3, <2>5
<1>8. {P[k] : k \in DOMAIN P} \cap {F[k] : k \in DOMAIN F} = {}
  BY <1>2, <1>3, <1>4 DEF Apart
<1>9. {performing[k].ev : k \in DOMAIN performing} \cap {F[k] : k \in DOMAIN F} = {}
  BY <1>2, <1>4, <1>5, Zenon DEF CallsOK
<1>10. Cardinality({performed[k] : k \in DOMAIN performed}) = Len(performed)
  <2>1. IsSeq(performed) /\ Injected(performed, Len(performed))
    BY <1>2 DEF HistoryOK2
  <2>2. Len(performed) \in Nat /\ DOMAIN performed = 1 .. Len(performed)
    BY <2>1, SeqIs
  <2> QED BY <2>1, <2>2, MembersCount
<1>11. DOMAIN desc = {P[k] : k \in DOMAIN P} \cup {F[k] : k \in DOMAIN F}
                       \cup {performing[k].ev : k \in DOMAIN performing} \/ missed # {}
  <2> SUFFICES ASSUME missed = {}
               PROVE  DOMAIN desc = {P[k] : k \in DOMAIN P} \cup {F[k] : k \in DOMAIN F}
                                      \cup {performing[k].ev : k \in DOMAIN performing}
    BY Zenon
  <2>1. \A i \in 1 .. m : P[i] \in 1 .. Len(desc)
    BY <1>2, ListIs
  <2>2. \A j \in 1 .. n : F[j] \in 1 .. Len(desc)
    BY <1>2, ListIs
  <2>3. \A k \in 1 .. Len(performing) : performing[k].ev \in 1 .. Len(desc)
    BY <1>2, Zenon DEF CallsOK
  <2>4. ASSUME NEW p \in 1 .. Len(desc)
        PROVE  \/ \E i \in 1 .. m : p = P[i]
               \/ \E j \in 1 .. n : p = F[j]
               \/ \E k \in 1 .. Len(performing) : p = performing[k].ev
    BY <1>2, Zenon DEF NoLeak
  <2>5. 1 .. Len(desc) = {P[k] : k \in 1 .. m} \cup {F[k] : k \in 1 .. n}
                           \cup {performing[k].ev : k \in 1 .. Len(performing)}
    <3> DEFINE D == 1 .. Len(desc)
               M == 1 .. m
               N == 1 .. n
               K == 1 .. Len(performing)
    <3>1. \A i \in M : P[i] \in D
      BY <2>1
    <3>2. \A j \in N : F[j] \in D
      BY <2>2
    <3>3. \A k \in K : performing[k].ev \in D
      BY <2>3
    <3>4. \A p \in D : (\E i \in M : p = P[i]) \/ (\E j \in N : p = F[j]) \/ \E k \in K : p = performing[k].ev
      BY <2>4
    <3> HIDE DEF D, M, N, K
    <3>5. D = {P[k] : k \in M} \cup {F[k] : k \in N} \cup {performing[k].ev : k \in K}
      BY <3>1, <3>2, <3>3, <3>4, Zenon
    <3> QED BY <3>5 DEF D, M, N, K
  <2> QED BY <1>3, <1>4, <1>5, <2>5, Zenon
<1>12. ListsKeep(P, F)
  BY <1>3, <1>4, <1>6, <1>7, <1>8, <1>9, <1>10, <1>11 DEF ListsKeep
<1>13. NoEventLost <=> ListsKeep(Chain(desc, eventq_pending, Len(desc) + 1), Chain(desc, eventq_free, Len(desc) + 1))
  BY DEF NoEventLost, ListsKeep, ServicedIds
<1> QED BY <1>3, <1>4, <1>12, <1>13, Zenon

\* The event queue keeps what it is given: what is queued is pending, in the order
\* of time, until it is performed, once, or removed, whatever callbacks queue,
\* remove and execute (other than the event they are called for).
THEOREM EventqSafety == EventqSpec => []NoEventLost
BY EventqInvariant, InvariantLosesNothing, PTL
=============================================================================
