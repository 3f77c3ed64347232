----------------------------- MODULE LaunchProofs -----------------------------
(***************************************************************************)
(* What holds of launches, for all extents, limits and numbers of           *)
(* dimensions: the arithmetic of indices (IndexSpace) numbers a space one   *)
(* to one, the contiguous layout partitions it into consecutive chunks of   *)
(* equal size up to one; the frames and blocks that are computed are within *)
(* their bounds and every thread runs once (KernelLaunch); the variables    *)
(* that a block shares are where every thread looks for them and apart      *)
(* (BlockShared, KernelLaunch); rounding passes no number that can be       *)
(* represented (FloatingPoint).                                             *)
(***************************************************************************)
EXTENDS KernelLaunch, FloatingPoint, TLAPS, FiniteSetTheorems, WellFoundedInduction

(***************************************************************************)
(* ChunkBegin.                                                              *)
(***************************************************************************)
Chunk(n, w, slot) == {k \in Nat : ChunkBegin(n, w, slot) <= k /\ k < ChunkBegin(n, w, slot + 1)}

\* Division with remainder, as the proofs below use it.
LEMMA Division ==
    ASSUME NEW n \in Nat, NEW w \in Nat \ {0}
    PROVE  /\ n \div w \in Nat
           /\ n % w \in Nat
           /\ n % w < w
           /\ n = w * (n \div w) + (n % w)
  OBVIOUS

\* Products of naturals are ordered like their first factors.
LEMMA ProductOrder ==
    ASSUME NEW i \in Nat, NEW j \in Nat, NEW q \in Nat, i <= j
    PROVE  /\ i * q \in Nat
           /\ i * q <= j * q
  <1>1. i * q \in Nat /\ (j - i) * q \in Nat
    OBVIOUS
  <1>2. j * q = i * q + (j - i) * q
    OBVIOUS
  <1> QED
    BY <1>1, <1>2

\* The first chunk begins at 0, the last one ends at n.
THEOREM ChunksCoverBounds ==
    ASSUME NEW n \in Nat, NEW w \in Nat \ {0}
    PROVE  ChunkBegin(n, w, 0) = 0 /\ ChunkBegin(n, w, w) = n
  <1> DEFINE q == n \div w
             r == n % w
  <1>1. q \in Nat /\ r \in Nat /\ r < w /\ n = w * q + r
    BY Division
  <1>2. 0 * q = 0
    BY <1>1
  <1> QED
    BY <1>1, <1>2 DEF ChunkBegin

\* Every chunk has n \div w elements or one more.
THEOREM ChunksAreBalanced ==
    ASSUME NEW n \in Nat, NEW w \in Nat \ {0}, NEW slot \in Nat
    PROVE  /\ ChunkBegin(n, w, slot) \in Nat
           /\ ChunkBegin(n, w, slot + 1) =
                ChunkBegin(n, w, slot) + n \div w + (IF slot < n % w THEN 1 ELSE 0)
  <1> DEFINE q == n \div w
             r == n % w
  <1>1. q \in Nat /\ r \in Nat
    BY Division
  <1>2. slot * q \in Nat /\ (slot + 1) * q = slot * q + q
    BY <1>1
  <1> HIDE DEF q, r
  <1>3. /\ slot * q + (IF slot < r THEN slot ELSE r) \in Nat
        /\ (slot + 1) * q + (IF slot + 1 < r THEN slot + 1 ELSE r) =
             slot * q + (IF slot < r THEN slot ELSE r) + q + (IF slot < r THEN 1 ELSE 0)
    BY <1>1, <1>2
  <1> QED
    BY <1>3 DEF ChunkBegin, q, r

\* A later slot's chunk begins where or after an earlier one's does.
THEOREM ChunksAreOrdered ==
    ASSUME NEW n \in Nat, NEW w \in Nat \ {0}, NEW i \in Nat, NEW j \in Nat, i <= j
    PROVE  ChunkBegin(n, w, i) <= ChunkBegin(n, w, j)
  <1> DEFINE q == n \div w
             r == n % w
  <1>1. q \in Nat /\ r \in Nat
    BY Division
  <1>2. i * q \in Nat /\ j * q \in Nat /\ i * q <= j * q
    BY <1>1, ProductOrder
  <1> HIDE DEF q, r
  <1>3. i * q + (IF i < r THEN i ELSE r) <= j * q + (IF j < r THEN j ELSE r)
    BY <1>1, <1>2
  <1> QED
    BY <1>3 DEF ChunkBegin, q, r

\* No element is in the chunks of two slots: no index is given to two workers.
THEOREM ChunksAreDisjoint ==
    ASSUME NEW n \in Nat, NEW w \in Nat \ {0}, NEW i \in Nat, NEW j \in Nat, i # j
    PROVE  Chunk(n, w, i) \intersect Chunk(n, w, j) = {}
  <1>1. SUFFICES ASSUME NEW a \in Nat, NEW b \in Nat, a < b
                 PROVE  Chunk(n, w, a) \intersect Chunk(n, w, b) = {}
    <2>1. CASE i < j
      BY <1>1, <2>1
    <2>2. CASE j < i
      BY <1>1, <2>2
    <2> QED
      BY <2>1, <2>2
  <1>2. ChunkBegin(n, w, a + 1) <= ChunkBegin(n, w, b)
    BY <1>1, ChunksAreOrdered
  <1>3. ChunkBegin(n, w, a + 1) \in Nat /\ ChunkBegin(n, w, b) \in Nat
    <2>1. a + 1 \in Nat
      OBVIOUS
    <2> QED
      BY <2>1, ChunksAreBalanced
  <1> QED
    BY <1>2, <1>3 DEF Chunk

\* Every element is in the chunk of one of the w slots: no index is left out.
\* The slot is the element's position divided by the size of the chunks it is
\* among, the larger ones (r of them, q + 1 elements each) or the others.
THEOREM ChunksAreComplete ==
    ASSUME NEW n \in Nat, NEW w \in Nat \ {0}, NEW k \in Nat, k < n
    PROVE  \E slot \in 0 .. w - 1 : k \in Chunk(n, w, slot)
  <1> DEFINE q == n \div w
             r == n % w
  <1>1. q \in Nat /\ r \in Nat /\ r < w /\ n = w * q + r
    BY Division
  <1> HIDE DEF q, r
  <1>2. CASE k < r * (q + 1)
    <2> DEFINE s == k \div (q + 1)
    <2>1. s \in Nat /\ s * (q + 1) <= k /\ k < s * (q + 1) + (q + 1)
      <3>1. q + 1 \in Nat \ {0}
        BY <1>1
      <3>2. s \in Nat /\ k % (q + 1) \in Nat /\ k % (q + 1) < q + 1
            /\ k = (q + 1) * s + (k % (q + 1))
        BY <3>1, Division
      <3> HIDE DEF s
      <3>3. (q + 1) * s = s * (q + 1) /\ s * (q + 1) \in Nat
        BY <1>1, <3>2
      <3> QED
        BY <1>1, <3>2, <3>3
    <2> HIDE DEF s
    <2>2. s < r
      <3>1. SUFFICES ASSUME r <= s PROVE FALSE
        BY <1>1, <2>1
      <3>2. r * (q + 1) <= s * (q + 1) /\ r * (q + 1) \in Nat
        BY <1>1, <2>1, <3>1, ProductOrder
      <3>3. s * (q + 1) \in Nat
        BY <1>1, <2>1
      <3> QED
        BY <1>2, <2>1, <3>2, <3>3
    <2>3. s * (q + 1) = s * q + s /\ s * q \in Nat
      BY <1>1, <2>1
    <2>4. ChunkBegin(n, w, s) = s * q + s
      BY <2>2 DEF ChunkBegin, q, r
    <2>5. ChunkBegin(n, w, s + 1) = s * q + s + q + 1
      <3>1. ChunkBegin(n, w, s + 1) = ChunkBegin(n, w, s) + q + (IF s < r THEN 1 ELSE 0)
        BY <2>1, ChunksAreBalanced DEF q, r
      <3> QED
        BY <1>1, <2>1, <2>2, <2>3, <2>4, <3>1
    <2>6. k \in Chunk(n, w, s)
      BY <1>1, <2>1, <2>3, <2>4, <2>5 DEF Chunk
    <2>7. s \in 0 .. w - 1
      BY <1>1, <2>1, <2>2
    <2> QED
      BY <2>6, <2>7
  <1>3. CASE r * (q + 1) <= k
    <2>1. r * (q + 1) = r * q + r /\ r * q \in Nat
      BY <1>1
    <2> DEFINE rest == k - (r * q + r)
               s    == rest \div q
    <2>2. rest \in Nat
      BY <1>3, <2>1, <1>1
    <2>3. w * q = r * q + (w - r) * q /\ (w - r) * q \in Nat /\ w - r \in Nat
      BY <1>1
    <2>4. rest < (w - r) * q
      BY <1>1, <2>1, <2>3
    <2>5. q > 0
      <3>1. SUFFICES ASSUME q = 0 PROVE FALSE
        BY <1>1
      <3>2. (w - r) * q = 0
        BY <2>3, <3>1
      <3> QED
        BY <2>2, <2>4, <3>2
    <2> HIDE DEF rest
    <2>6. s \in Nat /\ s * q <= rest /\ rest < s * q + q
      <3>1. s \in Nat /\ rest % q \in Nat /\ rest % q < q /\ rest = q * s + (rest % q)
        BY <1>1, <2>2, <2>5, Division
      <3> HIDE DEF s
      <3>2. q * s = s * q /\ s * q \in Nat
        BY <1>1, <3>1
      <3> QED
        BY <1>1, <3>1, <3>2
    <2> HIDE DEF s
    <2>7. s < w - r
      <3>1. SUFFICES ASSUME w - r <= s PROVE FALSE
        BY <2>3, <2>6
      <3>2. (w - r) * q <= s * q
        BY <1>1, <2>3, <2>6, <3>1, ProductOrder
      <3>3. s * q \in Nat
        BY <1>1, <2>6
      <3> QED
        BY <2>2, <2>3, <2>4, <2>6, <3>2, <3>3
    <2>8. ChunkBegin(n, w, r + s) = r * q + s * q + r
      <3>1. ~(r + s < r)
        BY <1>1, <2>6
      <3>2. ChunkBegin(n, w, r + s) = (r + s) * q + r
        BY <3>1 DEF ChunkBegin, q, r
      <3>3. (r + s) * q = r * q + s * q
        BY <1>1, <2>6
      <3> QED
        BY <3>2, <3>3
    <2>9. ChunkBegin(n, w, r + s + 1) = r * q + s * q + r + q
      <3>1. r + s \in Nat /\ ~(r + s < r)
        BY <1>1, <2>6
      <3>2. ChunkBegin(n, w, (r + s) + 1) =
              ChunkBegin(n, w, r + s) + q + (IF r + s < r THEN 1 ELSE 0)
        BY <3>1, ChunksAreBalanced DEF q, r
      <3>3. s * q \in Nat
        BY <1>1, <2>6
      <3> QED
        BY <1>1, <2>1, <2>8, <3>1, <3>2, <3>3
    <2>10. k \in Chunk(n, w, r + s)
      <3>1. k = rest + r * q + r
        BY <1>1, <2>1 DEF rest
      <3>2. s * q \in Nat
        BY <1>1, <2>6
      <3> QED
        BY <1>1, <2>1, <2>2, <2>6, <2>8, <2>9, <3>1, <3>2 DEF Chunk
    <2>11. r + s \in 0 .. w - 1
      BY <1>1, <2>6, <2>7
    <2> QED
      BY <2>10, <2>11
  <1>4. r * (q + 1) \in Nat
    BY <1>1
  <1> QED
    BY <1>2, <1>3, <1>4
-----------------------------------------------------------------------------
\* Induction over the naturals, for a set: from the library's well-founded order.
LEMMA SetInduction ==
    ASSUME NEW S, 0 \in S, \A n \in Nat : n \in S => n + 1 \in S
    PROVE  Nat \subseteq S
<1> DEFINE T == Nat \ S
           Below == {p \in Nat \X Nat : p[1] < p[2]}
<1> SUFFICES ASSUME T # {} PROVE FALSE
  OBVIOUS
<1>1. IsWellFoundedOn(Below, Nat)
  BY NatLessThanWellFounded DEF OpToRel
<1>2. PICK x \in T : \A y \in T : ~ (<<y, x>> \in Below)
  BY <1>1, WFMin
<1>3. x \in Nat /\ x # 0 /\ x - 1 \in Nat /\ x = (x - 1) + 1
  OBVIOUS
<1>4. <<x - 1, x>> \in Below
  BY <1>3
<1>5. x - 1 \in S
  BY <1>2, <1>3, <1>4
<1> QED
  BY <1>3, <1>5

\* A set of naturals has a least element.
LEMMA LeastElement ==
    ASSUME NEW S, \A y \in S : y \in Nat, S # {}
    PROVE  \E m \in S : \A y \in S : m <= y
<1> DEFINE Below == {x \in Nat \X Nat : x[1] < x[2]}
<1>1. IsWellFoundedOn(Below, Nat)
  BY NatLessThanWellFounded DEF OpToRel
<1>2. PICK m \in S : \A y \in S : ~ (<<y, m>> \in Below)
  <2>1. S \subseteq Nat
    OBVIOUS
  <2> QED
    BY <1>1, <2>1, WFMin
<1>3. ASSUME NEW y \in S PROVE m <= y
  <2>1. m \in Nat /\ y \in Nat /\ ~ (<<y, m>> \in Below)
    BY <1>2
  <2>2. ~ (y < m)
    BY <2>1
  <2> QED
    BY <2>1, <2>2
<1> QED
  BY <1>3

\* Quotient and remainder are unique.
LEMMA Quotient ==
    ASSUME NEW w \in Nat \ {0}, NEW q \in Nat, NEW r \in Nat, r < w
    PROVE  (w * q + r) \div w = q /\ (w * q + r) % w = r
<1> DEFINE n == w * q + r
           p == n \div w
           s == n % w
<1>1. n \in Nat
  OBVIOUS
<1>2. p \in Nat /\ s \in Nat /\ s < w /\ n = w * p + s
  BY <1>1, Division
<1> HIDE DEF p, s
<1>3. ~ (p < q)
  <2>1. ASSUME p < q PROVE FALSE
    <3>1. (p + 1) * w <= q * w /\ (p + 1) * w = w * p + w
      BY <1>2, <2>1, ProductOrder
    <3> QED
      BY <1>2, <3>1
  <2> QED
    BY <2>1
<1>4. ~ (q < p)
  <2>1. ASSUME q < p PROVE FALSE
    <3>1. (q + 1) * w <= p * w /\ (q + 1) * w = w * q + w
      BY <1>2, <2>1, ProductOrder
    <3> QED
      BY <1>2, <3>1
  <2> QED
    BY <2>1
<1>5. p = q
  BY <1>2, <1>3, <1>4
<1> QED
  BY <1>2, <1>5 DEF p, s

\* A digit is its own remainder.
LEMMA Digit ==
    ASSUME NEW w \in Nat, w > 1, NEW d \in Nat, d < w, NEW q \in Nat, NEW n, n = d + w * q
    PROVE  n \in Nat /\ n \div w = q /\ n % w = d
<1>1. n \in Nat /\ n = w * q + d
  OBVIOUS
<1> QED
  BY <1>1, Quotient

\* The powers of two up to 2048.
Power(k) == 2^k

\* Their values.
LEMMA Powers ==
    ASSUME NEW k \in 0 .. 11
    PROVE  \/ (k = 0 /\ Power(k) = 1) \/ (k = 1 /\ Power(k) = 2) \/ (k = 2 /\ Power(k) = 4) \/ (k = 3 /\ Power(k) = 8)
           \/ (k = 4 /\ Power(k) = 16) \/ (k = 5 /\ Power(k) = 32) \/ (k = 6 /\ Power(k) = 64) \/ (k = 7 /\ Power(k) = 128)
           \/ (k = 8 /\ Power(k) = 256) \/ (k = 9 /\ Power(k) = 512) \/ (k = 10 /\ Power(k) = 1024) \/ (k = 11 /\ Power(k) = 2048)
<1>1. CASE k = 0
  BY <1>1 DEF Power
<1>2. CASE k = 1
  BY <1>2 DEF Power
<1>3. CASE k = 2
  BY <1>3 DEF Power
<1>4. CASE k = 3
  BY <1>4 DEF Power
<1>5. CASE k = 4
  BY <1>5 DEF Power
<1>6. CASE k = 5
  BY <1>6 DEF Power
<1>7. CASE k = 6
  BY <1>7 DEF Power
<1>8. CASE k = 7
  BY <1>8 DEF Power
<1>9. CASE k = 8
  BY <1>9 DEF Power
<1>10. CASE k = 9
  BY <1>10 DEF Power
<1>11. CASE k = 10
  BY <1>11 DEF Power
<1>12. CASE k = 11
  BY <1>12 DEF Power
<1> QED
  BY <1>1, <1>2, <1>3, <1>4, <1>5, <1>6, <1>7, <1>8, <1>9, <1>10, <1>11, <1>12

\* They are positive.
LEMMA PowerIsPositive ==
    ASSUME NEW k \in 0 .. 11
    PROVE  Power(k) \in Nat \ {0} /\ Power(k) <= 2048
<1> QED
  BY Powers

\* A greater one is at least twice as great.
LEMMA PowersGrow ==
    ASSUME NEW k \in 0 .. 11, NEW i \in 0 .. 11, i < k
    PROVE  2 * Power(i) <= Power(k)
<1>1. \/ (k = 0 /\ Power(k) = 1) \/ (k = 1 /\ Power(k) = 2) \/ (k = 2 /\ Power(k) = 4) \/ (k = 3 /\ Power(k) = 8)
      \/ (k = 4 /\ Power(k) = 16) \/ (k = 5 /\ Power(k) = 32) \/ (k = 6 /\ Power(k) = 64) \/ (k = 7 /\ Power(k) = 128)
      \/ (k = 8 /\ Power(k) = 256) \/ (k = 9 /\ Power(k) = 512) \/ (k = 10 /\ Power(k) = 1024) \/ (k = 11 /\ Power(k) = 2048)
  BY Powers
<1>2. \/ (i = 0 /\ Power(i) = 1) \/ (i = 1 /\ Power(i) = 2) \/ (i = 2 /\ Power(i) = 4) \/ (i = 3 /\ Power(i) = 8)
      \/ (i = 4 /\ Power(i) = 16) \/ (i = 5 /\ Power(i) = 32) \/ (i = 6 /\ Power(i) = 64) \/ (i = 7 /\ Power(i) = 128)
      \/ (i = 8 /\ Power(i) = 256) \/ (i = 9 /\ Power(i) = 512) \/ (i = 10 /\ Power(i) = 1024) \/ (i = 11 /\ Power(i) = 2048)
  BY Powers
<1> QED
  BY <1>1, <1>2


(***************************************************************************)
(* Product, mapToND and the spaces of indices.                             *)
(***************************************************************************)
\* What Product multiplies, one component after the other.
LEMMA ProductsAreDefined ==
    ASSUME NEW n \in Nat, NEW v \in [1 .. n -> Nat]
    PROVE  \E f : /\ Product(v) = f[n] /\ f[0] = 1
                  /\ \A k \in 1 .. n : f[k] = f[k - 1] * v[k]
<1> DEFINE Prefixes == {m \in Nat : m <= n => \E f : f = [k \in 0 .. m |-> IF k = 0 THEN 1 ELSE f[k - 1] * v[k]]}
<1>1. 0 \in Prefixes
  <2>1. [k \in 0 .. 0 |-> 1] = [k \in 0 .. 0 |-> IF k = 0 THEN 1 ELSE [j \in 0 .. 0 |-> 1][k - 1] * v[k]]
    OBVIOUS
  <2> QED
    BY <2>1
<1>2. ASSUME NEW m \in Nat, m \in Prefixes PROVE m + 1 \in Prefixes
  <2> SUFFICES ASSUME m + 1 <= n
               PROVE  \E f : f = [k \in 0 .. m + 1 |-> IF k = 0 THEN 1 ELSE f[k - 1] * v[k]]
    OBVIOUS
  <2>1. PICK f : f = [k \in 0 .. m |-> IF k = 0 THEN 1 ELSE f[k - 1] * v[k]]
    BY <1>2
  <2> DEFINE g == [k \in 0 .. m + 1 |-> IF k <= m THEN f[k] ELSE f[m] * v[m + 1]]
  <2>2. ASSUME NEW k \in 0 .. m + 1 PROVE g[k] = IF k = 0 THEN 1 ELSE g[k - 1] * v[k]
    <3>1. CASE k = 0
      BY <2>1, <3>1
    <3>2. CASE k \in 1 .. m
      <4>1. g[k] = f[k] /\ g[k - 1] = f[k - 1] /\ k # 0 /\ k \in 0 .. m
        BY <3>2
      <4>2. f[k] = f[k - 1] * v[k]
        BY <2>1, <4>1
      <4> QED
        BY <4>1, <4>2
    <3>3. CASE k = m + 1
      <4>1. g[k] = f[m] * v[m + 1] /\ g[k - 1] = f[m] /\ k # 0
        BY <3>3
      <4> QED
        BY <3>3, <4>1
    <3> QED
      BY <3>1, <3>2, <3>3
  <2>3. g = [k \in 0 .. m + 1 |-> IF k = 0 THEN 1 ELSE g[k - 1] * v[k]]
    <3>1. DOMAIN g = 0 .. m + 1 /\ g = [k \in 0 .. m + 1 |-> g[k]]
      OBVIOUS
    <3> HIDE DEF g
    <3> QED
      BY <2>2, <3>1
  <2> QED
    BY <2>3
<1>3. n \in Prefixes
  <2>1. Nat \subseteq Prefixes
    <3> HIDE DEF Prefixes
    <3> QED
      BY <1>1, <1>2, SetInduction
  <2> QED
    BY <2>1
<1>4. Len(v) = n
  OBVIOUS
<1>5. \E f : f = [k \in 0 .. Len(v) |-> IF k = 0 THEN 1 ELSE f[k - 1] * v[k]]
  BY <1>3, <1>4
<1>6. PICK f : f = PrefixProducts(v)
  OBVIOUS
<1>7. f = [k \in 0 .. Len(v) |-> IF k = 0 THEN 1 ELSE f[k - 1] * v[k]]
  BY <1>5, <1>6, Zenon DEF PrefixProducts
<1>8. f[0] = 1 /\ \A k \in 1 .. n : f[k] = f[k - 1] * v[k]
  BY <1>4, <1>7
<1>9. Product(v) = f[n]
  BY <1>4, <1>6 DEF Product
<1> QED
  BY <1>8, <1>9

\* The number of elements behind the first d dimensions: a pitch of mapToND.
Rest(e, d) == Product(SubSeq(e, d + 1, Len(e)))

\* The product of a vector is its first component times the product of the others.
LEMMA ProductOfTail ==
    ASSUME NEW n \in Nat, NEW v \in [1 .. n -> Nat], NEW x \in Nat,
           NEW u, u = [k \in 1 .. n + 1 |-> IF k = 1 THEN x ELSE v[k - 1]]
    PROVE  Product(v) \in Nat /\ Product(u) = x * Product(v)
<1>1. PICK f : Product(v) = f[n] /\ f[0] = 1 /\ \A k \in 1 .. n : f[k] = f[k - 1] * v[k]
  BY ProductsAreDefined
<1>2. u \in [1 .. n + 1 -> Nat] /\ n + 1 \in Nat
  OBVIOUS
<1>3. PICK g : Product(u) = g[n + 1] /\ g[0] = 1 /\ \A k \in 1 .. n + 1 : g[k] = g[k - 1] * u[k]
  BY <1>2, ProductsAreDefined
<1> DEFINE Equal == {m \in Nat : m <= n => f[m] \in Nat /\ g[m + 1] = x * f[m]}
<1>4. 0 \in Equal
  <2>1. g[1] = g[0] * u[1] /\ u[1] = x
    BY <1>3
  <2> QED
    BY <1>1, <1>3, <2>1
<1>5. ASSUME NEW m \in Nat, m \in Equal PROVE m + 1 \in Equal
  <2> SUFFICES ASSUME m + 1 <= n PROVE f[m + 1] \in Nat /\ g[m + 2] = x * f[m + 1]
    OBVIOUS
  <2>1. PICK a, b \in Nat : a = f[m] /\ b = v[m + 1]
    BY <1>5
  <2>2. f[m + 1] = a * b
    <3>1. m + 1 \in 1 .. n /\ (m + 1) - 1 = m
      OBVIOUS
    <3> QED
      BY <1>1, <2>1, <3>1
  <2>3. g[m + 2] = (x * a) * b
    <3>1. m + 2 \in 1 .. n + 1 /\ (m + 2) - 1 = m + 1 /\ u[m + 2] = v[m + 1]
      OBVIOUS
    <3>2. g[m + 1] = x * a
      BY <1>5, <2>1
    <3> QED
      BY <1>3, <2>1, <3>1, <3>2
  <2>4. (x * a) * b = x * (a * b) /\ a * b \in Nat
    OBVIOUS
  <2> QED
    BY <2>2, <2>3, <2>4
<1>6. n \in Equal
  <2> HIDE DEF Equal
  <2>1. Nat \subseteq Equal
    BY <1>4, <1>5, SetInduction
  <2> QED
    BY <2>1
<1> QED
  BY <1>1, <1>3, <1>6

\* Each pitch is the next one times the extent between them.
LEMMA Pitches ==
    ASSUME NEW n \in Nat \ {0}, NEW e \in [1 .. n -> Nat]
    PROVE  /\ Rest(e, 0) = Product(e) /\ Rest(e, n) = 1
           /\ \A d \in 0 .. n : Rest(e, d) \in Nat
           /\ \A d \in 1 .. n : Rest(e, d - 1) = e[d] * Rest(e, d)
<1>1. Len(e) = n /\ e \in Seq(Nat)
  OBVIOUS
<1>2. ASSUME NEW d \in 0 .. n
      PROVE  SubSeq(e, d + 1, n) = [k \in 1 .. n - d |-> e[k + d]]
  BY <1>1
<1>3. SubSeq(e, 1, n) = e
  BY <1>1
<1>4. Rest(e, n) = 1
  <2>1. PICK v : v = SubSeq(e, n + 1, n)
    OBVIOUS
  <2>2. v \in [1 .. 0 -> Nat]
    BY <1>2, <2>1
  <2>3. Product(v) = 1
    <3>1. PICK m \in Nat : m = 0
      OBVIOUS
    <3>2. v \in [1 .. m -> Nat]
      BY <2>2, <3>1
    <3>3. PICK f : Product(v) = f[m] /\ f[0] = 1
      BY <3>2, ProductsAreDefined
    <3> QED
      BY <3>1, <3>3
  <2> QED
    BY <1>1, <2>1, <2>3 DEF Rest
<1>5. ASSUME NEW d \in 1 .. n PROVE Rest(e, d) \in Nat /\ Rest(e, d - 1) = e[d] * Rest(e, d)
  <2>1. PICK m \in Nat : m = n - d
    OBVIOUS
  <2>2. PICK v, u, x : v = SubSeq(e, d + 1, n) /\ u = SubSeq(e, d, n) /\ x = e[d]
    OBVIOUS
  <2>3. v = [k \in 1 .. m |-> e[k + d]]
    BY <1>2, <2>1, <2>2
  <2>4. u = [k \in 1 .. m + 1 |-> e[k + (d - 1)]]
    <3>1. PICK c \in 0 .. n : c = d - 1
      OBVIOUS
    <3>2. SubSeq(e, c + 1, n) = [k \in 1 .. n - c |-> e[k + c]]
      BY <1>2
    <3>3. c + 1 = d /\ n - c = m + 1
      BY <2>1, <3>1
    <3>4. u = [k \in 1 .. m + 1 |-> e[k + c]]
      BY <2>2, <3>2, <3>3
    <3> QED
      BY <3>1, <3>4
  <2>5. v \in [1 .. m -> Nat]
    <3>1. ASSUME NEW k \in 1 .. m PROVE e[k + d] \in Nat
      <4>1. k + d \in 1 .. n
        BY <2>1
      <4> QED
        BY <4>1
    <3> QED
      BY <2>3, <3>1
  <2>6. u = [k \in 1 .. m + 1 |-> IF k = 1 THEN x ELSE v[k - 1]]
    <3>1. ASSUME NEW k \in 1 .. m + 1 PROVE e[k + (d - 1)] = IF k = 1 THEN x ELSE v[k - 1]
      <4>1. CASE k = 1
        <5>1. k + (d - 1) = d
          BY <4>1
        <5> QED
          BY <2>2, <4>1, <5>1
      <4>2. CASE k # 1
        <5>1. k - 1 \in 1 .. m /\ (k - 1) + d = k + (d - 1)
          BY <4>2
        <5> QED
          BY <2>3, <4>2, <5>1
      <4> QED
        BY <4>1, <4>2
    <3> QED
      BY <2>4, <3>1
  <2>7. Product(v) \in Nat /\ Product(u) = x * Product(v)
    <3>1. PICK y \in Nat : y = x
      BY <2>2
    <3>2. u = [k \in 1 .. m + 1 |-> IF k = 1 THEN y ELSE v[k - 1]]
      BY <2>6, <3>1
    <3>3. Product(v) \in Nat
      BY <2>5, ProductOfTail
    <3>4. Product(u) = y * Product(v)
      BY <2>5, <3>2, ProductOfTail
    <3> QED
      BY <3>1, <3>3, <3>4
  <2>8. (d - 1) + 1 = d
    OBVIOUS
  <2> QED
    BY <1>1, <2>2, <2>7, <2>8 DEF Rest
<1>6. Rest(e, 0) = Product(e)
  <2>1. 0 + 1 = 1
    OBVIOUS
  <2> QED
    BY <1>1, <1>3, <2>1 DEF Rest
<1>7. Rest(e, 0) \in Nat
  <2>1. 1 \in 1 .. n /\ 1 - 1 = 0
    OBVIOUS
  <2>2. PICK a, b \in Nat : a = e[1] /\ b = Rest(e, 1)
    BY <1>5, <2>1
  <2>3. Rest(e, 0) = a * b
    BY <1>5, <2>1, <2>2
  <2> QED
    BY <2>3
<1>8. ASSUME NEW d \in 0 .. n PROVE Rest(e, d) \in Nat
  BY <1>5, <1>7
<1> QED
  BY <1>4, <1>5, <1>6, <1>8

\* Digits: a number below e * p has a digit below e in front of its remainder by p.
LEMMA DigitBehind ==
    ASSUME NEW e \in Nat \ {0}, NEW p \in Nat \ {0}, NEW x \in Nat
    PROVE  /\ (x % (e * p)) \div p \in 0 .. e - 1
           /\ x % (e * p) = p * ((x % (e * p)) \div p) + (x % p)
           /\ x % p \in Nat /\ x % p < p
<1>1. PICK ep \in Nat \ {0} : ep = e * p
  OBVIOUS
<1>2. PICK y, q \in Nat : y = x % ep /\ q = x \div ep /\ y < ep /\ x = ep * q + y
  BY Division
<1>3. PICK a, b \in Nat : a = y \div p /\ b = y % p /\ b < p /\ y = p * a + b
  BY Division
<1>4. x = p * (e * q + a) + b /\ e * q + a \in Nat
  <2>1. PICK c \in Nat : c = e * q
    OBVIOUS
  <2>2. ep * q = p * c
    <3>1. (e * p) * q = p * (e * q)
      OBVIOUS
    <3> QED
      BY <1>1, <2>1, <3>1
  <2>3. p * (c + a) = p * c + p * a
    OBVIOUS
  <2>4. x = p * (c + a) + b
    BY <1>2, <1>3, <2>2, <2>3
  <2> QED
    BY <2>1, <2>4
<1>5. x % p = b
  <2>1. PICK c \in Nat : c = e * q + a
    BY <1>4
  <2>2. (p * c + b) % p = b
    BY <1>3, Quotient
  <2> QED
    BY <1>4, <2>1, <2>2
<1>6. a < e
  <2>1. ASSUME e <= a PROVE FALSE
    <3>1. e * p <= a * p /\ a * p = p * a /\ a * p \in Nat
      BY <2>1, ProductOrder
    <3> QED
      BY <1>1, <1>2, <1>3, <3>1
  <2> QED
    BY <2>1
<1>7. x % (e * p) = y /\ (x % (e * p)) \div p = a
  BY <1>1, <1>2, <1>3
<1> QED
  BY <1>3, <1>5, <1>6, <1>7

(***************************************************************************)
(* Pitches p of a space with positive extents e.                           *)
(***************************************************************************)
PitchesOf(n, e, p) ==
    /\ e \in [1 .. n -> Nat \ {0}] /\ p \in [0 .. n -> Nat \ {0}] /\ p[n] = 1
    /\ \A d \in 1 .. n : p[d - 1] = e[d] * p[d]

DigitAt(p, x, d) == (x % p[d - 1]) \div p[d]

\* A digit is below its extent; it and the digits behind it are the remainder.
LEMMA DigitIs ==
    ASSUME NEW n \in Nat \ {0}, NEW e, NEW p, PitchesOf(n, e, p), NEW d \in 1 .. n, NEW x \in Nat
    PROVE  /\ DigitAt(p, x, d) \in 0 .. e[d] - 1
           /\ x % p[d - 1] = p[d] * DigitAt(p, x, d) + (x % p[d])
           /\ x % p[d] \in Nat /\ x % p[d] < p[d]
<1>0. e \in [1 .. n -> Nat \ {0}] /\ p \in [0 .. n -> Nat \ {0}]
  BY DEF PitchesOf
<1>1. PICK a, b \in Nat \ {0} : a = e[d] /\ b = p[d]
  BY <1>0
<1>2. p[d - 1] = a * b
  BY <1>1 DEF PitchesOf
<1>3. DigitAt(p, x, d) = (x % (a * b)) \div b
  BY <1>1, <1>2 DEF DigitAt
<1>4. /\ (x % (a * b)) \div b \in 0 .. a - 1
      /\ x % (a * b) = b * ((x % (a * b)) \div b) + (x % b)
      /\ x % b \in Nat /\ x % b < b
  BY DigitBehind
<1> QED
  BY <1>1, <1>2, <1>3, <1>4

\* Numbers with the same digits are the same.
LEMMA DigitsTell ==
    ASSUME NEW n \in Nat \ {0}, NEW e, NEW p, PitchesOf(n, e, p),
           NEW x \in Nat, NEW y \in Nat, x < p[0], y < p[0],
           \A d \in 1 .. n : DigitAt(p, x, d) = DigitAt(p, y, d)
    PROVE  x = y
<1> DEFINE Same == {m \in Nat : m <= n => x % p[n - m] = y % p[n - m]}
<1>1. 0 \in Same
  <2>1. p[n - 0] = 1 /\ x % 1 = 0 /\ y % 1 = 0
    BY DEF PitchesOf
  <2> QED
    BY <2>1
<1>2. ASSUME NEW m \in Nat, m \in Same PROVE m + 1 \in Same
  <2> SUFFICES ASSUME m + 1 <= n PROVE x % p[n - (m + 1)] = y % p[n - (m + 1)]
    OBVIOUS
  <2>1. PICK d \in 1 .. n : d = n - m
    OBVIOUS
  <2>2. x % p[d] = y % p[d]
    BY <1>2, <2>1
  <2>3. x % p[d - 1] = p[d] * DigitAt(p, x, d) + (x % p[d])
    BY DigitIs
  <2>4. y % p[d - 1] = p[d] * DigitAt(p, y, d) + (y % p[d])
    BY DigitIs
  <2>5. DigitAt(p, x, d) = DigitAt(p, y, d)
    OBVIOUS
  <2>6. n - (m + 1) = d - 1
    BY <2>1
  <2> QED
    BY <2>2, <2>3, <2>4, <2>5, <2>6
<1>3. n \in Same
  <2> HIDE DEF Same
  <2>1. Nat \subseteq Same
    BY <1>1, <1>2, SetInduction
  <2> QED
    BY <2>1
<1>4. x % p[0] = y % p[0]
  <2>1. n - n = 0
    OBVIOUS
  <2> QED
    BY <1>3, <2>1
<1>5. x % p[0] = x /\ y % p[0] = y
  <2>1. PICK w \in Nat \ {0} : w = p[0]
    BY DEF PitchesOf
  <2>2. x < w /\ y < w
    BY <2>1
  <2>3. (w * 0 + x) % w = x /\ (w * 0 + y) % w = y
    BY <2>2, Quotient
  <2>4. w * 0 + x = x /\ w * 0 + y = y
    OBVIOUS
  <2> QED
    BY <2>1, <2>3, <2>4
<1> QED
  BY <1>4, <1>5

\* Any digits below the extents are those of a number.
LEMMA DigitsExist ==
    ASSUME NEW n \in Nat \ {0}, NEW e, NEW p, PitchesOf(n, e, p),
           NEW idx \in [1 .. n -> Nat], \A d \in 1 .. n : idx[d] < e[d]
    PROVE  \E x \in 0 .. p[0] - 1 : \A d \in 1 .. n : DigitAt(p, x, d) = idx[d]
<1> DEFINE HasDigits(x, c) == \A q \in Nat : \A d \in c + 1 .. n : DigitAt(p, x + p[c] * q, d) = idx[d]
           Built == {m \in Nat : m <= n => \E x \in Nat : x < p[n - m] /\ HasDigits(x, n - m)}
<1>1. 0 \in Built
  <2>1. p[n - 0] = 1 /\ 0 < 1
    BY DEF PitchesOf
  <2>2. HasDigits(0, n - 0)
    OBVIOUS
  <2> QED
    BY <2>1, <2>2
<1>2. ASSUME NEW m \in Nat, m \in Built PROVE m + 1 \in Built
  <2> SUFFICES ASSUME m + 1 <= n
               PROVE  \E x \in Nat : x < p[n - (m + 1)] /\ HasDigits(x, n - (m + 1))
    OBVIOUS
  <2>1. PICK c \in 1 .. n : c = n - m
    OBVIOUS
  <2>2. PICK x \in Nat : x < p[c] /\ HasDigits(x, c)
    BY <1>2, <2>1
  <2>3. PICK a, b, i \in Nat : a = e[c] /\ b = p[c] /\ i = idx[c] /\ i < a /\ b # 0 /\ a # 0
    <3>1. e \in [1 .. n -> Nat \ {0}] /\ p \in [0 .. n -> Nat \ {0}]
      BY DEF PitchesOf
    <3>2. e[c] \in Nat \ {0} /\ p[c] \in Nat \ {0} /\ idx[c] \in Nat /\ idx[c] < e[c]
      BY <3>1
    <3> QED
      BY <3>2
  <2>4. p[c - 1] = a * b
    BY <2>3 DEF PitchesOf
  <2>5. PICK y \in Nat : y = b * i + x
    OBVIOUS
  <2>6. y < a * b
    <3>1. PICK j \in Nat : j = i + 1 /\ j <= a
      BY <2>3
    <3>2. j * b <= a * b
      <4>1. j <= a
        BY <3>1
      <4> QED
        BY <4>1, ProductOrder
    <3>3. (i + 1) * b = b * i + b
      OBVIOUS
    <3>4. PICK bi, ab \in Nat : bi = b * i /\ ab = a * b
      OBVIOUS
    <3>5. bi + b <= ab /\ x < b
      BY <2>2, <2>3, <3>1, <3>2, <3>3, <3>4
    <3> QED
      BY <2>5, <3>4, <3>5
  <2>7. ASSUME NEW q \in Nat, NEW d \in c .. n PROVE DigitAt(p, y + p[c - 1] * q, d) = idx[d]
    <3>1. PICK z \in Nat : z = y + (a * b) * q
      OBVIOUS
    <3>2. CASE d = c
      <4>1. PICK ab \in Nat \ {0} : ab = a * b
        BY <2>3
      <4>2. z = ab * q + y /\ y < ab
        BY <2>6, <3>1, <4>1
      <4>3. z % ab = y
        BY <4>2, Quotient
      <4>4. (b * i + x) \div b = i
        BY <2>2, <2>3, Quotient
      <4> QED
        BY <2>3, <2>4, <2>5, <3>1, <3>2, <4>1, <4>3, <4>4 DEF DigitAt
    <3>3. CASE d # c
      <4>1. PICK r \in Nat : r = a * q + i
        OBVIOUS
      <4>2. z = x + b * r
        <5>1. (a * b) * q = b * (a * q)
          OBVIOUS
        <5>2. PICK aq \in Nat : aq = a * q
          OBVIOUS
        <5>3. b * (aq + i) = b * aq + b * i
          OBVIOUS
        <5> QED
          BY <2>5, <3>1, <4>1, <5>1, <5>2, <5>3
      <4>3. DigitAt(p, x + p[c] * r, d) = idx[d]
        BY <2>2, <3>3
      <4> QED
        BY <2>3, <2>4, <3>1, <4>2, <4>3
    <3> QED
      BY <3>2, <3>3
  <2>8. n - (m + 1) = c - 1 /\ (c - 1) + 1 = c
    BY <2>1
  <2>9. HasDigits(y, c - 1)
    BY <2>7, <2>8
  <2> HIDE DEF HasDigits
  <2> QED
    BY <2>4, <2>6, <2>8, <2>9
<1>3. n \in Built
  <2> HIDE DEF Built
  <2>1. Nat \subseteq Built
    BY <1>1, <1>2, SetInduction
  <2> QED
    BY <2>1
<1>4. PICK x \in Nat : x < p[0] /\ HasDigits(x, 0)
  <2>1. n - n = 0
    OBVIOUS
  <2> QED
    BY <1>3, <2>1
<1>5. PICK w \in Nat : w = p[0]
  BY DEF PitchesOf
<1>6. x + w * 0 = x /\ x \in 0 .. w - 1
  <2>1. x < w
    BY <1>4, <1>5
  <2> HIDE DEF HasDigits
  <2> QED
    BY <2>1
<1>7. \A d \in 1 .. n : DigitAt(p, x, d) = idx[d]
  <2>1. ASSUME NEW d \in 1 .. n PROVE DigitAt(p, x, d) = idx[d]
    <3>1. DigitAt(p, x + p[0] * 0, d) = idx[d]
      BY <1>4
    <3> QED
      BY <1>5, <1>6, <3>1
  <2> QED
    BY <2>1
<1> QED
  <2>1. x \in 0 .. p[0] - 1
    BY <1>5, <1>6
  <2> QED
    BY <1>7, <2>1

\* The pitches of a space with positive extents.
LEMMA RestIsPitches ==
    ASSUME NEW n \in Nat \ {0}, NEW e \in [1 .. n -> Nat \ {0}], NEW p, p = [d \in 0 .. n |-> Rest(e, d)]
    PROVE  PitchesOf(n, e, p) /\ p[0] = Product(e)
<1>1. e \in [1 .. n -> Nat]
  OBVIOUS
<1>2. /\ Rest(e, 0) = Product(e) /\ Rest(e, n) = 1
      /\ \A d \in 0 .. n : Rest(e, d) \in Nat
      /\ \A d \in 1 .. n : Rest(e, d - 1) = e[d] * Rest(e, d)
  BY <1>1, Pitches
<1> DEFINE Positive == {m \in Nat : m <= n => p[n - m] \in Nat \ {0}}
<1>3. 0 \in Positive
  BY <1>2
<1>4. ASSUME NEW m \in Nat, m \in Positive PROVE m + 1 \in Positive
  <2> SUFFICES ASSUME m + 1 <= n PROVE p[n - (m + 1)] \in Nat \ {0}
    OBVIOUS
  <2>1. PICK d \in 1 .. n : d = n - m /\ n - (m + 1) = d - 1 /\ d - 1 \in 0 .. n
    OBVIOUS
  <2>2. PICK a, b \in Nat \ {0} : a = e[d] /\ b = Rest(e, d)
    BY <1>4, <2>1
  <2>3. Rest(e, d - 1) = a * b
    BY <1>2, <2>2
  <2>4. a * b \in Nat \ {0}
    OBVIOUS
  <2> QED
    BY <2>1, <2>3, <2>4
<1>5. n \in Positive
  <2> HIDE DEF Positive
  <2>1. Nat \subseteq Positive
    BY <1>3, <1>4, SetInduction
  <2> QED
    BY <2>1
<1>6. ASSUME NEW d \in 0 .. n PROVE p[d] \in Nat \ {0}
  <2>1. PICK m \in Nat : m = n - d /\ n - m = d /\ m <= n
    OBVIOUS
  <2>2. m \in Positive
    <3>1. Nat \subseteq Positive
      <4> HIDE DEF Positive
      <4> QED
        BY <1>3, <1>4, SetInduction
    <3> QED
      BY <3>1
  <2> QED
    BY <2>1, <2>2
<1>7. p \in [0 .. n -> Nat \ {0}]
  BY <1>6
<1>8. ASSUME NEW d \in 1 .. n PROVE p[d - 1] = e[d] * p[d]
  <2>1. d \in 0 .. n /\ d - 1 \in 0 .. n
    OBVIOUS
  <2>2. p[d] = Rest(e, d) /\ p[d - 1] = Rest(e, d - 1)
    BY <2>1
  <2> QED
    BY <1>2, <2>2
<1>9. p[n] = 1 /\ p[0] = Product(e)
  BY <1>2
<1> QED
  BY <1>7, <1>8, <1>9 DEF PitchesOf

\* All indices of a space.
Box(e) == {idx \in [DOMAIN e -> Nat] : \A d \in DOMAIN e : idx[d] < e[d]}

\* mapToND is a one-to-one numbering of a space of any number of dimensions.
LEMMA MapToNDIsOneToOne ==
    ASSUME NEW n \in Nat \ {0}, NEW e \in [1 .. n -> Nat \ {0}]
    PROVE  /\ Product(e) \in Nat \ {0}
           /\ IndicesBelow(e) = Box(e)
           /\ \A k, l \in 0 .. Product(e) - 1 : MapToND(e, k) = MapToND(e, l) => k = l
<1>1. PICK p : p = [d \in 0 .. n |-> Rest(e, d)]
  OBVIOUS
<1>2. PitchesOf(n, e, p) /\ p[0] = Product(e)
  BY <1>1, RestIsPitches
<1>3. PICK w \in Nat \ {0} : w = p[0]
  BY <1>2 DEF PitchesOf
<1>4. DOMAIN e = 1 .. n /\ Len(e) = n
  OBVIOUS
<1>5. ASSUME NEW k \in 0 .. w - 1
      PROVE  MapToND(e, k) = [d \in 1 .. n |-> DigitAt(p, k, d)]
  <2>1. k % w = k
    <3>1. k \in Nat /\ k < w
      OBVIOUS
    <3>2. (w * 0 + k) % w = k
      BY <3>1, Quotient
    <3>3. w * 0 + k = k
      BY <3>1
    <3> QED
      BY <3>2, <3>3
  <2>2. ASSUME NEW d \in 1 .. n
        PROVE  (IF d = 1 THEN k \div Rest(e, 1) ELSE (k % Rest(e, d - 1)) \div Rest(e, d)) = DigitAt(p, k, d)
    <3>1. d \in 0 .. n /\ d - 1 \in 0 .. n
      OBVIOUS
    <3>2. p[d] = Rest(e, d) /\ p[d - 1] = Rest(e, d - 1)
      BY <1>1, <3>1
    <3>3. CASE d = 1
      <4>1. p[d - 1] = w
        BY <1>3, <3>3
      <4> QED
        BY <2>1, <3>2, <3>3, <4>1 DEF DigitAt
    <3>4. CASE d # 1
      BY <3>2, <3>4 DEF DigitAt
    <3> QED
      BY <3>3, <3>4
  <2>3. MapToND(e, k) = [d \in 1 .. n |-> IF d = 1 THEN k \div Rest(e, 1)
                                        ELSE (k % Rest(e, d - 1)) \div Rest(e, d)]
    BY <1>4 DEF MapToND, Rest
  <2> QED
    BY <2>2, <2>3
<1>6. ASSUME NEW k \in 0 .. w - 1 PROVE MapToND(e, k) \in Box(e)
  <2>1. ASSUME NEW d \in 1 .. n PROVE DigitAt(p, k, d) \in Nat /\ DigitAt(p, k, d) < e[d]
    <3>1. k \in Nat /\ e[d] \in Nat
      OBVIOUS
    <3>2. PitchesOf(n, e, p)
      BY <1>2
    <3>3. DigitAt(p, k, d) \in 0 .. e[d] - 1
      BY <3>1, <3>2, DigitIs
    <3> QED
      BY <3>1, <3>3
  <2>2. PICK f : f = [d \in 1 .. n |-> DigitAt(p, k, d)]
    OBVIOUS
  <2>3. f \in [1 .. n -> Nat] /\ \A d \in 1 .. n : f[d] < e[d]
    BY <2>1, <2>2
  <2> QED
    BY <1>4, <1>5, <2>2, <2>3 DEF Box
<1>7. ASSUME NEW idx \in Box(e) PROVE \E k \in 0 .. w - 1 : MapToND(e, k) = idx
  <2>1. idx \in [1 .. n -> Nat] /\ \A d \in 1 .. n : idx[d] < e[d]
    BY <1>4 DEF Box
  <2>2. PICK k \in 0 .. p[0] - 1 : \A d \in 1 .. n : DigitAt(p, k, d) = idx[d]
    <3>1. PitchesOf(n, e, p)
      BY <1>2
    <3>2. idx \in [1 .. n -> Nat]
      BY <2>1
    <3>3. \A d \in 1 .. n : idx[d] < e[d]
      BY <2>1
    <3> QED
      BY <3>1, <3>2, <3>3, DigitsExist
  <2>3. k \in 0 .. w - 1
    BY <1>3, <2>2
  <2>4. MapToND(e, k) = [d \in 1 .. n |-> DigitAt(p, k, d)]
    BY <1>5, <2>3
  <2>5. MapToND(e, k) = idx
    BY <2>1, <2>2, <2>4
  <2> QED
    BY <2>3, <2>5
<1>8. ASSUME NEW k \in 0 .. w - 1, NEW l \in 0 .. w - 1, MapToND(e, k) = MapToND(e, l) PROVE k = l
  <2>1. \A d \in 1 .. n : DigitAt(p, k, d) = DigitAt(p, l, d)
    <3>1. PICK f, g : f = MapToND(e, k) /\ g = MapToND(e, l) /\ f = g
      BY <1>8
    <3>2. f = [d \in 1 .. n |-> DigitAt(p, k, d)] /\ g = [d \in 1 .. n |-> DigitAt(p, l, d)]
      BY <1>5, <3>1
    <3> QED
      BY <3>1, <3>2
  <2>2. k \in Nat /\ l \in Nat /\ k < p[0] /\ l < p[0]
    BY <1>3
  <2> QED
    BY <1>2, <2>1, <2>2, DigitsTell
<1>9. Product(e) = w
  BY <1>2, <1>3
<1>10. IndicesBelow(e) = Box(e)
  BY <1>6, <1>7, <1>9 DEF IndicesBelow
<1> QED
  BY <1>8, <1>9, <1>10

\* The history of a loop: the states after its rounds, up to round m.
Histories(S, start, turn, m) ==
    {f \in [0 .. m -> S] : f[0] = start /\ \A k \in 1 .. m : f[k] = turn[f[k - 1]]}

\* There is one, for any number of rounds.
LEMMA LoopsAreDefined ==
    ASSUME NEW S, NEW start \in S, NEW turn \in [S -> S], NEW m \in Nat
    PROVE  Histories(S, start, turn, m) # {}
<1> DEFINE Runs(k) == Histories(S, start, turn, k)
           Defined == {k \in Nat : Runs(k) # {}}
<1>1. 0 \in Defined
  <2>1. [k \in 0 .. 0 |-> start] \in Runs(0)
    BY DEF Histories
  <2> QED
    BY <2>1
<1>2. ASSUME NEW k \in Nat, k \in Defined PROVE k + 1 \in Defined
  <2>1. PICK f \in [0 .. k -> S] : f[0] = start /\ \A j \in 1 .. k : f[j] = turn[f[j - 1]]
    BY <1>2 DEF Histories
  <2> DEFINE g == [j \in 0 .. k + 1 |-> IF j <= k THEN f[j] ELSE turn[f[k]]]
  <2>2. k \in 0 .. k /\ f[k] \in S /\ turn[f[k]] \in S
    BY <2>1
  <2>3. ASSUME NEW j \in 0 .. k + 1 PROVE g[j] \in S
    <3>1. CASE j <= k
      BY <2>1, <3>1
    <3>2. CASE ~ (j <= k)
      BY <2>2, <3>2
    <3> QED
      BY <3>1, <3>2
  <2>4. g[0] = start
    BY <2>1
  <2>5. ASSUME NEW j \in 1 .. k + 1 PROVE g[j] = turn[g[j - 1]]
    <3>1. CASE j <= k
      BY <2>1, <3>1
    <3>2. CASE j = k + 1
      BY <3>2
    <3> QED
      BY <3>1, <3>2
  <2>6. g \in [0 .. k + 1 -> S]
    BY <2>3
  <2> HIDE DEF g
  <2>7. g \in Runs(k + 1)
    BY <2>4, <2>5, <2>6 DEF Histories
  <2> QED
    BY <2>7
<1>3. m \in Defined
  <2> HIDE DEF Defined
  <2>1. Nat \subseteq Defined
    BY <1>1, <1>2, SetInduction
  <2> QED
    BY <2>1
<1> QED
  BY <1>3

\* A loop that comes below the limit has a start round after which it is.
LEMMA FirstRoundWithin ==
    ASSUME NEW m \in Nat, NEW round, DOMAIN round = 0 .. m, NEW limit,
           \E k \in 0 .. m : Within(round[k].v, limit)
    PROVE  FirstWithin(round, limit) \in 0 .. m /\ Within(round[FirstWithin(round, limit)].v, limit)
<1> DEFINE In == {k \in 0 .. m : Within(round[k].v, limit)}
<1>1. PICK k \in In : \A j \in In : k <= j
  <2>1. In # {} /\ \A j \in In : j \in Nat
    OBVIOUS
  <2> HIDE DEF In
  <2> QED
    BY <2>1, LeastElement
<1>2. \A i \in 0 .. k - 1 : ~ Within(round[i].v, limit)
  <2> SUFFICES ASSUME NEW i \in 0 .. k - 1, Within(round[i].v, limit) PROVE FALSE
    OBVIOUS
  <2>1. i \in In
    OBVIOUS
  <2> QED
    BY <1>1, <2>1
<1> DEFINE First(j) == Within(round[j].v, limit) /\ \A i \in 0 .. j - 1 : ~ Within(round[i].v, limit)
<1>3. k \in DOMAIN round /\ First(k)
  BY <1>1, <1>2
<1>4. FirstWithin(round, limit) \in DOMAIN round /\ First(FirstWithin(round, limit))
  <2>1. FirstWithin(round, limit) = CHOOSE j \in DOMAIN round : First(j)
    BY DEF FirstWithin
  <2> HIDE DEF First
  <2> QED
    BY <1>3, <2>1
<1> QED
  BY <1>4

-----------------------------------------------------------------------------
\* The product of a vector in which one component is replaced.
LEMMA ProductOfReplaced ==
    ASSUME NEW n \in Nat, NEW v \in [1 .. n -> Nat], NEW d \in 1 .. n, NEW u \in [1 .. n -> Nat],
           \A k \in 1 .. n : k # d => u[k] = v[k]
    PROVE  Product(v) \in Nat /\ Product(u) \in Nat /\ Product(u) * v[d] = Product(v) * u[d]
<1>1. PICK f : Product(v) = f[n] /\ f[0] = 1 /\ \A k \in 1 .. n : f[k] = f[k - 1] * v[k]
  BY ProductsAreDefined
<1>3. PICK g : Product(u) = g[n] /\ g[0] = 1 /\ \A k \in 1 .. n : g[k] = g[k - 1] * u[k]
  BY ProductsAreDefined
<1>4. PICK x, y \in Nat : x = u[d] /\ y = v[d]
  OBVIOUS
<1> DEFINE Related == {m \in Nat : m <= n => /\ f[m] \in Nat /\ g[m] \in Nat
                                             /\ m < d => g[m] = f[m]
                                             /\ m >= d => g[m] * y = f[m] * x}
<1>5. 0 \in Related
  BY <1>1, <1>3
<1>6. ASSUME NEW m \in Nat, m \in Related PROVE m + 1 \in Related
  <2> SUFFICES ASSUME m + 1 <= n
               PROVE  /\ f[m + 1] \in Nat /\ g[m + 1] \in Nat
                      /\ m + 1 < d => g[m + 1] = f[m + 1]
                      /\ m + 1 >= d => g[m + 1] * y = f[m + 1] * x
    OBVIOUS
  <2>1. PICK a, b \in Nat : a = f[m] /\ b = g[m] /\ (m < d => b = a) /\ (m >= d => b * y = a * x)
    BY <1>6
  <2>2. PICK p, q \in Nat : p = v[m + 1] /\ q = u[m + 1] /\ (m + 1 = d => q = x /\ p = y)
                           /\ (m + 1 # d => q = p)
    <3>1. m + 1 \in 1 .. n
      OBVIOUS
    <3> QED
      BY <1>4, <3>1
  <2>3. f[m + 1] = a * p /\ g[m + 1] = b * q
    <3>1. m + 1 \in 1 .. n /\ (m + 1) - 1 = m
      OBVIOUS
    <3> QED
      BY <1>1, <1>3, <2>1, <2>2, <3>1
  <2>4. a * p \in Nat /\ b * q \in Nat
    OBVIOUS
  <2>5. CASE m + 1 < d
    <3>1. q = p /\ b = a
      BY <2>1, <2>2, <2>5
    <3> QED
      BY <2>3, <2>4, <2>5, <3>1
  <2>6. CASE m + 1 = d
    <3>2. q = x /\ p = y /\ b = a
      BY <2>1, <2>2, <2>6
    <3>3. (a * x) * y = (a * y) * x
      OBVIOUS
    <3> QED
      BY <2>3, <2>4, <2>6, <3>2, <3>3
  <2>7. CASE m + 1 > d
    <3>1. q = p /\ b * y = a * x
      BY <2>1, <2>2, <2>7
    <3>2. (b * p) * y = (b * y) * p /\ (a * p) * x = (a * x) * p
      OBVIOUS
    <3> QED
      BY <2>3, <2>4, <2>7, <3>1, <3>2
  <2> QED
    BY <2>3, <2>4, <2>5, <2>6, <2>7
<1>7. n \in Related
  <2> HIDE DEF Related
  <2>1. Nat \subseteq Related
    BY <1>5, <1>6, SetInduction
  <2> QED
    BY <2>1
<1> QED
  BY <1>1, <1>3, <1>4, <1>7

\* The product of ones is one.
LEMMA ProductOfOnes ==
    ASSUME NEW n \in Nat, NEW v, v = [d \in 1 .. n |-> 1]
    PROVE  Product(v) = 1
<1>1. v \in [1 .. n -> Nat]
  OBVIOUS
<1>2. PICK f : Product(v) = f[n] /\ f[0] = 1 /\ \A k \in 1 .. n : f[k] = f[k - 1] * v[k]
  BY <1>1, ProductsAreDefined
<1> DEFINE One == {m \in Nat : m <= n => f[m] = 1}
<1>3. 0 \in One
  BY <1>2
<1>4. ASSUME NEW m \in Nat, m \in One PROVE m + 1 \in One
  <2> SUFFICES ASSUME m + 1 <= n PROVE f[m + 1] = 1
    OBVIOUS
  <2>1. m + 1 \in 1 .. n /\ (m + 1) - 1 = m /\ f[m] = 1 /\ v[m + 1] = 1
    BY <1>4
  <2> QED
    BY <1>2, <2>1
<1>5. n \in One
  <2> HIDE DEF One
  <2>1. Nat \subseteq One
    BY <1>3, <1>4, SetInduction
  <2> QED
    BY <2>1
<1> QED
  BY <1>2, <1>5

Positive(n) == [1 .. n -> Nat \ {0}]

\* Extents that hold more than one element have a component above one.
LEMMA ProductAboveOne ==
    ASSUME NEW n \in Nat \ {0}, NEW v \in Positive(n), Product(v) > 1
    PROVE  \E d \in 1 .. n : v[d] > 1
<1> SUFFICES ASSUME \A d \in 1 .. n : ~ (v[d] > 1) PROVE FALSE
  OBVIOUS
<1>1. ASSUME NEW d \in 1 .. n PROVE v[d] = 1
  BY DEF Positive
<1>2. v = [d \in 1 .. n |-> 1]
  BY <1>1 DEF Positive
<1>3. Product(v) = 1
  BY <1>2, ProductOfOnes
<1> QED
  BY <1>3

\* Extents hold an element.
LEMMA ProductIsPositive ==
    ASSUME NEW n \in Nat \ {0}, NEW v \in Positive(n)
    PROVE  Product(v) \in Nat \ {0} /\ Len(v) = n /\ DOMAIN v = 1 .. n
<1>1. Product(v) \in Nat \ {0}
  BY MapToNDIsOneToOne DEF Positive
<1> QED
  BY <1>1 DEF Positive

\* Halving a component above one makes the space smaller, and never empty.
LEMMA HalvingShrinks ==
    ASSUME NEW n \in Nat \ {0}, NEW v \in Positive(n), NEW d \in 1 .. n
    PROVE  /\ Halve(v, d) \in Positive(n) /\ Product(Halve(v, d)) \in Nat \ {0}
           /\ \A c \in 1 .. n : Halve(v, d)[c] = IF c = d THEN MaxOf(v[d] \div 2, 1) ELSE v[c]
           /\ v[d] = 1 => Halve(v, d) = v
           /\ v[d] > 1 => Product(Halve(v, d)) < Product(v)
<1>1. PICK x \in Nat \ {0} : x = v[d]
  BY DEF Positive
<1>2. PICK h \in Nat \ {0} : /\ h = MaxOf(x \div 2, 1)
                             /\ x > 1 => h < x
                             /\ x = 1 => h = 1
  BY DEF MaxOf
<1>3. Halve(v, d) = [v EXCEPT ![d] = h]
  BY <1>1, <1>2 DEF Halve
<1>4. v \in [1 .. n -> Nat \ {0}]
  BY DEF Positive
<1>5. PICK u : u = [v EXCEPT ![d] = h]
  OBVIOUS
<1>6. u \in Positive(n)
  BY <1>4, <1>5 DEF Positive
<1>7. PICK p, q \in Nat \ {0} : p = Product(v) /\ q = Product(u)
  BY <1>6, ProductIsPositive
<1>8. q * x = p * h
  <2>1. v \in [1 .. n -> Nat]
    BY <1>4
  <2>2. n \in Nat
    OBVIOUS
  <2>3. u \in [1 .. n -> Nat] /\ u[d] = h
    BY <1>4, <1>5
  <2>4. \A k \in 1 .. n : k # d => u[k] = v[k]
    BY <1>4, <1>5
  <2>5. Product(u) * v[d] = Product(v) * u[d]
    BY <2>1, <2>2, <2>3, <2>4, ProductOfReplaced
  <2> QED
    BY <1>1, <1>7, <2>3, <2>5
<1>9. x > 1 => q < p
  <2> SUFFICES ASSUME x > 1, q >= p PROVE FALSE
    BY <1>7
  <2>1. x * p <= x * q /\ x * q = q * x
    <3>1. p * x <= q * x
      BY ProductOrder
    <3>2. p * x = x * p /\ q * x = x * q
      OBVIOUS
    <3> QED
      BY <3>1, <3>2
  <2>2. (h + 1) * p <= x * p /\ (h + 1) * p = p * h + p
    <3>1. (h + 1) * p <= x * p
      BY <1>2, ProductOrder, h + 1 <= x
    <3> QED
      BY <3>1
  <2> QED
    BY <1>8, <2>1, <2>2
<1>10. x = 1 => u = v
  BY <1>1, <1>2, <1>4, <1>5
<1>11. \A c \in 1 .. n : u[c] = IF c = d THEN h ELSE v[c]
  BY <1>4, <1>5
<1> QED
  BY <1>1, <1>2, <1>3, <1>5, <1>6, <1>7, <1>9, <1>10, <1>11

\* One extent is the largest, and the first of them.
LEMMA LargestIsLargest ==
    ASSUME NEW n \in Nat \ {0}, NEW v \in Positive(n)
    PROVE  LargestDim(v) \in 1 .. n /\ \A c \in 1 .. n : v[c] <= v[LargestDim(v)]
<1>0. DOMAIN v = 1 .. n /\ \A d \in 1 .. n : v[d] \in Nat
  BY DEF Positive
<1> DEFINE Leads(m, d) == /\ \A c \in 1 .. m : v[c] <= v[d]
                          /\ \A c \in 1 .. d - 1 : v[c] < v[d]
           Led == {m \in Nat : m + 1 <= n => \E d \in 1 .. m + 1 : Leads(m + 1, d)}
<1>1. 0 \in Led
  <2>1. Leads(0 + 1, 1)
    BY <1>0
  <2> QED
    BY <2>1
<1>2. ASSUME NEW m \in Nat, m \in Led PROVE m + 1 \in Led
  <2> SUFFICES ASSUME (m + 1) + 1 <= n PROVE \E d \in 1 .. (m + 1) + 1 : Leads((m + 1) + 1, d)
    OBVIOUS
  <2>1. PICK d \in 1 .. m + 1 : Leads(m + 1, d)
    BY <1>2
  <2>2. PICK k \in 1 .. n : k = (m + 1) + 1
    OBVIOUS
  <2>3. d \in 1 .. n /\ v[d] \in Nat /\ v[k] \in Nat /\ d < k
    BY <1>0, <2>2
  <2>4. ASSUME NEW c \in 1 .. k PROVE c \in 1 .. n /\ v[c] \in Nat /\ (c # k => c \in 1 .. m + 1)
    BY <1>0, <2>2
  <2>5. CASE v[k] <= v[d]
    <3>1. Leads(k, d)
      BY <2>1, <2>3, <2>4, <2>5
    <3> QED
      BY <2>2, <2>3, <3>1
  <2>6. CASE v[d] < v[k]
    <3>1. ASSUME NEW c \in 1 .. k - 1 PROVE v[c] < v[k]
      <4>1. c \in 1 .. k /\ c # k
        BY <2>2
      <4>2. v[c] <= v[d] /\ v[c] \in Nat
        BY <2>1, <2>4, <4>1
      <4> QED
        BY <2>3, <2>6, <4>2
    <3>2. ASSUME NEW c \in 1 .. k PROVE v[c] <= v[k]
      <4>1. CASE c = k
        BY <2>3, <4>1
      <4>2. CASE c # k
        <5>1. c \in 1 .. k - 1 /\ v[c] \in Nat
          BY <2>4, <4>2
        <5>2. v[c] < v[k]
          BY <3>1, <5>1
        <5> QED
          BY <2>3, <5>1, <5>2
      <4> QED
        BY <4>1, <4>2
    <3> QED
      BY <2>2, <3>1, <3>2
  <2> QED
    BY <2>3, <2>5, <2>6
<1>3. n - 1 \in Led
  <2> HIDE DEF Led
  <2>1. Nat \subseteq Led
    BY <1>1, <1>2, SetInduction
  <2> QED
    BY <2>1
<1> DEFINE Chosen(d) == /\ \A e \in DOMAIN v : v[e] <= v[d]
                        /\ \A e \in 1 .. d - 1 : v[e] < v[d]
<1>4. PICK d \in DOMAIN v : Chosen(d)
  <2>1. (n - 1) + 1 = n
    OBVIOUS
  <2>2. PICK d \in 1 .. n : Leads(n, d)
    BY <1>3, <2>1
  <2> QED
    BY <1>0, <2>2
<1>5. LargestDim(v) = CHOOSE c \in DOMAIN v : Chosen(c)
  BY DEF LargestDim
<1>6. LargestDim(v) \in DOMAIN v /\ Chosen(LargestDim(v))
  <2> HIDE DEF Chosen
  <2> QED
    BY <1>4, <1>5
<1> QED
  BY <1>0, <1>6

\* A power of two is positive, and half of it one again.
LEMMA HalfOfPower ==
    ASSUME NEW x, IsPowerOfTwo(x)
    PROVE  x \in Nat \ {0} /\ IsPowerOfTwo(MaxOf(x \div 2, 1))
<1>1. PICK k \in 0 .. 10 : x = Power(k)
  BY DEF IsPowerOfTwo, Power
<1>2. \A j \in 0 .. 10 : IsPowerOfTwo(Power(j))
  BY DEF IsPowerOfTwo, Power
<1>3. PICK j \in 0 .. 10 : j = (IF k = 0 THEN 0 ELSE k - 1)
  OBVIOUS
<1>4. \/ (k = 0 /\ Power(k) = 1) \/ (k = 1 /\ Power(k) = 2) \/ (k = 2 /\ Power(k) = 4) \/ (k = 3 /\ Power(k) = 8)
      \/ (k = 4 /\ Power(k) = 16) \/ (k = 5 /\ Power(k) = 32) \/ (k = 6 /\ Power(k) = 64) \/ (k = 7 /\ Power(k) = 128)
      \/ (k = 8 /\ Power(k) = 256) \/ (k = 9 /\ Power(k) = 512) \/ (k = 10 /\ Power(k) = 1024) \/ (k = 11 /\ Power(k) = 2048)
  BY Powers
<1>5. \/ (j = 0 /\ Power(j) = 1) \/ (j = 1 /\ Power(j) = 2) \/ (j = 2 /\ Power(j) = 4) \/ (j = 3 /\ Power(j) = 8)
      \/ (j = 4 /\ Power(j) = 16) \/ (j = 5 /\ Power(j) = 32) \/ (j = 6 /\ Power(j) = 64) \/ (j = 7 /\ Power(j) = 128)
      \/ (j = 8 /\ Power(j) = 256) \/ (j = 9 /\ Power(j) = 512) \/ (j = 10 /\ Power(j) = 1024) \/ (j = 11 /\ Power(j) = 2048)
  BY Powers
<1>6. MaxOf(Power(k) \div 2, 1) = Power(j)
  BY <1>3, <1>4, <1>5 DEF MaxOf
<1>7. x \in Nat \ {0}
  BY <1>1, <1>4
<1> QED
  BY <1>1, <1>2, <1>6, <1>7

\* What halving keeps: positive extents, of which those stay powers of two that
\* are such in v.
Halved(n, v) == {u \in Positive(n) : \A d \in 1 .. n : IsPowerOfTwo(v[d]) => IsPowerOfTwo(u[d])}

LEMMA HalvingKeeps ==
    ASSUME NEW n \in Nat \ {0}, NEW v \in Positive(n), NEW u \in Halved(n, v), NEW d \in 1 .. n
    PROVE  Halve(u, d) \in Halved(n, v)
<1>0. PICK w \in Positive(n) : w = u
  BY DEF Halved
<1>1. \A c \in 1 .. n : IsPowerOfTwo(v[c]) => IsPowerOfTwo(u[c])
  BY DEF Halved
<1>2. PICK h : h = Halve(u, d)
  OBVIOUS
<1>3. h \in Positive(n) /\ \A c \in 1 .. n : h[c] = IF c = d THEN MaxOf(u[d] \div 2, 1) ELSE u[c]
  <2>1. Halve(w, d) \in Positive(n)
    BY HalvingShrinks
  <2>2. \A c \in 1 .. n : Halve(w, d)[c] = IF c = d THEN MaxOf(w[d] \div 2, 1) ELSE w[c]
    BY HalvingShrinks
  <2> QED
    BY <1>0, <1>2, <2>1, <2>2
<1>4. IsPowerOfTwo(u[d]) => IsPowerOfTwo(MaxOf(u[d] \div 2, 1))
  BY HalfOfPower
<1>5. \A c \in 1 .. n : IsPowerOfTwo(v[c]) => IsPowerOfTwo(h[c])
  BY <1>1, <1>3, <1>4
<1> QED
  BY <1>2, <1>3, <1>5 DEF Halved

\* The rounds of the loop of adjustToLimit at run time.
LEMMA LargestRoundsAre ==
    ASSUME NEW n \in Nat \ {0}, NEW v \in Positive(n), NEW m, m = Product(v), NEW r, r = LargestRounds(v)
    PROVE  /\ DOMAIN r = 0 .. m /\ r[0].v = v
           /\ \A k \in 0 .. m : r[k].v \in Halved(n, v)
           /\ \A k \in 1 .. m : r[k].v = Halve(r[k - 1].v, LargestDim(r[k - 1].v))
<1> DEFINE S == [v : Halved(n, v)]
           Next1(s) == [v |-> Halve(s.v, LargestDim(s.v))]
           T == [s \in S |-> Next1(s)]
<1>1. m \in Nat
  BY ProductIsPositive
<1>2. v \in Halved(n, v) /\ \A u \in Halved(n, v) : u \in Positive(n)
  BY DEF Halved
<1>3. ASSUME NEW s \in S PROVE Next1(s) \in S
  <2>1. PICK u \in Halved(n, v) : u = s.v
    OBVIOUS
  <2>2. PICK d \in 1 .. n : d = LargestDim(u)
    BY <1>2, LargestIsLargest
  <2>3. Halve(u, d) \in Halved(n, v)
    BY HalvingKeeps
  <2> QED
    BY <2>1, <2>2, <2>3
<1>4. PICK f \in [0 .. m -> S] : f[0] = [v |-> v] /\ \A k \in 1 .. m : f[k] = T[f[k - 1]]
  <2>1. PICK b \in S : b = [v |-> v]
    BY <1>2
  <2>2. T \in [S -> S]
    BY <1>3
  <2>3. PICK R, t : R = S /\ t = T
    OBVIOUS
  <2>4. b \in R
    BY <2>3
  <2>5. t \in [R -> R]
    BY <2>2, <2>3
  <2>6. Histories(R, b, t, m) # {}
    BY <1>1, <2>4, <2>5, LoopsAreDefined
  <2> HIDE DEF S, T
  <2> QED
    BY <2>1, <2>3, <2>6 DEF Histories
<1>5. ASSUME NEW k \in 1 .. m PROVE f[k] = Next1(f[k - 1])
  <2>1. k - 1 \in 0 .. m
    BY <1>1
  <2>2. f[k] = T[f[k - 1]] /\ f[k - 1] \in S
    BY <1>4, <2>1
  <2> HIDE DEF S, Next1
  <2> QED
    BY <2>2
<1> DEFINE Loop(g) == [k \in 0 .. Product(v) |->
                IF k = 0 THEN [v |-> v]
                ELSE LET u == g[k - 1].v IN [v |-> Halve(u, LargestDim(u))]]
<1>6. f = Loop(f)
  <2>1. ASSUME NEW k \in 0 .. m PROVE f[k] = IF k = 0 THEN [v |-> v] ELSE Next1(f[k - 1])
    <3>1. CASE k = 0
      BY <1>4, <3>1
    <3>2. CASE k # 0
      <4>1. k \in 1 .. m
        BY <1>1, <3>2
      <4> HIDE DEF Next1
      <4> QED
        BY <1>5, <3>2, <4>1
    <3> QED
      BY <3>1, <3>2
  <2>2. f = [k \in 0 .. m |-> f[k]]
    OBVIOUS
  <2> QED
    BY <2>1, <2>2
<1>7. r = Loop(r)
  <2>1. r = CHOOSE g : g = Loop(g)
    BY Zenon DEF LargestRounds
  <2> HIDE DEF Loop
  <2> QED
    BY <1>6, <2>1, Zenon
<1>8. r = [k \in 0 .. m |-> IF k = 0 THEN [v |-> v] ELSE Next1(r[k - 1])]
  BY <1>7
<1>9. DOMAIN r = 0 .. m /\ r[0] = [v |-> v] /\ \A k \in 1 .. m : r[k] = Next1(r[k - 1])
  <2> HIDE DEF Next1
  <2> QED
    BY <1>1, <1>8
<1> DEFINE Good == {k \in Nat : k <= m => r[k].v \in Halved(n, v)}
<1>10. 0 \in Good
  BY <1>2, <1>9
<1>11. ASSUME NEW k \in Nat, k \in Good PROVE k + 1 \in Good
  <2> SUFFICES ASSUME k + 1 <= m PROVE r[k + 1].v \in Halved(n, v)
    OBVIOUS
  <2>1. PICK u \in Halved(n, v) : u = r[k].v
    BY <1>1, <1>11
  <2>2. PICK d \in 1 .. n : d = LargestDim(u)
    BY <1>2, LargestIsLargest
  <2>3. Halve(u, d) \in Halved(n, v)
    BY HalvingKeeps
  <2>4. k + 1 \in 1 .. m /\ (k + 1) - 1 = k
    BY <1>1
  <2>5. r[k + 1] = Next1(r[k])
    BY <1>9, <2>4
  <2> QED
    BY <2>1, <2>2, <2>3, <2>5
<1>12. Nat \subseteq Good
  <2> HIDE DEF Good
  <2> QED
    BY <1>10, <1>11, SetInduction
<1>13. ASSUME NEW k \in 0 .. m PROVE r[k].v \in Halved(n, v)
  BY <1>1, <1>12
<1>14. ASSUME NEW k \in 1 .. m PROVE r[k].v = Halve(r[k - 1].v, LargestDim(r[k - 1].v))
  <2>1. r[k] = Next1(r[k - 1])
    BY <1>9
  <2> QED
    BY <2>1
<1> QED
  BY <1>9, <1>13, <1>14

\* adjustToLimit at run time ends within the limit.
LEMMA AdjustedIsWithin ==
    ASSUME NEW n \in Nat \ {0}, NEW v \in Positive(n), NEW limit \in Nat \ {0}
    PROVE  AdjustToLimit(v, limit) \in Halved(n, v) /\ Product(AdjustToLimit(v, limit)) <= limit
<1>1. PICK m \in Nat \ {0} : m = Product(v)
  BY ProductIsPositive
<1>2. PICK r : r = LargestRounds(v)
  OBVIOUS
<1>3. /\ DOMAIN r = 0 .. m /\ r[0].v = v
      /\ \A k \in 0 .. m : r[k].v \in Halved(n, v)
      /\ \A k \in 1 .. m : r[k].v = Halve(r[k - 1].v, LargestDim(r[k - 1].v))
  BY <1>1, <1>2, LargestRoundsAre
<1>4. \A u \in Halved(n, v) : u \in Positive(n)
  BY DEF Halved
<1>5. \E k \in 0 .. m : Within(r[k].v, limit)
  <2> SUFFICES ASSUME \A k \in 0 .. m : ~ Within(r[k].v, limit) PROVE FALSE
    OBVIOUS
  <2> DEFINE Falls == {k \in Nat : k <= m => Product(r[k].v) + k <= m}
  <2>1. 0 \in Falls
    BY <1>1, <1>3
  <2>2. ASSUME NEW k \in Nat, k \in Falls PROVE k + 1 \in Falls
    <3> SUFFICES ASSUME k + 1 <= m PROVE Product(r[k + 1].v) + (k + 1) <= m
      OBVIOUS
    <3>1. PICK u \in Positive(n) : u = r[k].v
      BY <1>3, <1>4
    <3>2. PICK d \in 1 .. n : d = LargestDim(u) /\ \A c \in 1 .. n : u[c] <= u[d]
      BY LargestIsLargest
    <3>3. PICK p \in Nat \ {0} : p = Product(u) /\ p > limit
      BY <3>1, ProductIsPositive DEF Within
    <3>4. u[d] > 1
      <4>1. PICK c \in 1 .. n : u[c] > 1
        BY <3>3, ProductAboveOne
      <4>2. u[c] <= u[d] /\ u[c] \in Nat /\ u[d] \in Nat
        BY <3>2 DEF Positive
      <4> QED
        BY <4>1, <4>2
    <3>5. PICK q \in Nat \ {0} : q = Product(Halve(u, d)) /\ q < p
      BY <3>3, <3>4, HalvingShrinks
    <3>6. k + 1 \in 1 .. m /\ (k + 1) - 1 = k
      OBVIOUS
    <3>7. r[k + 1].v = Halve(u, d)
      BY <1>3, <3>1, <3>2, <3>6
    <3>8. p + k <= m
      BY <2>2, <3>1, <3>3
    <3> QED
      BY <3>5, <3>7, <3>8
  <2>3. m \in Falls
    <3> HIDE DEF Falls
    <3>1. Nat \subseteq Falls
      BY <2>1, <2>2, SetInduction
    <3> QED
      BY <3>1
  <2>4. PICK u \in Positive(n) : u = r[m].v
    BY <1>3, <1>4
  <2>5. Product(u) \in Nat \ {0}
    BY ProductIsPositive
  <2> QED
    BY <2>3, <2>4, <2>5
<1>6. PICK k \in 0 .. m : k = FirstWithin(r, limit) /\ Within(r[k].v, limit)
  BY <1>3, <1>5, FirstRoundWithin
<1>7. AdjustToLimit(v, limit) = r[k].v
  BY <1>2, <1>6 DEF AdjustToLimit
<1> QED
  BY <1>3, <1>6, <1>7 DEF Within

\* A state of the loop of adjustToLimit at compile time, and the next one.
Sweeps(n, v) == [v : Halved(n, v), d : 1 .. n, up : BOOLEAN]
Onward(n, s) ==
    LET to == IF s.up THEN s.d + 1 ELSE s.d - 1
    IN  [v |-> Halve(s.v, s.d), d |-> IF to > n THEN n ELSE MaxOf(to, 1),
         up |-> to <= n /\ (to <= 1 \/ s.up)]

LEMMA OnwardIsSweep ==
    ASSUME NEW n \in Nat \ {0}, NEW v \in Positive(n), NEW s \in Sweeps(n, v)
    PROVE  Onward(n, s) \in Sweeps(n, v)
<1>1. PICK u \in Halved(n, v), d \in 1 .. n, up \in BOOLEAN : s.v = u /\ s.d = d /\ s.up = up
  BY DEF Sweeps
<1>2. Halve(u, d) \in Halved(n, v)
  BY HalvingKeeps
<1>3. PICK to \in Int : to = IF up THEN d + 1 ELSE d - 1
  OBVIOUS
<1>4. PICK b \in 1 .. n : b = IF to > n THEN n ELSE MaxOf(to, 1)
  BY <1>3 DEF MaxOf
<1>5. PICK h \in BOOLEAN : h = (to <= n /\ (to <= 1 \/ up))
  OBVIOUS
<1>6. Onward(n, s) = [v |-> Halve(u, d), d |-> b, up |-> h]
  BY <1>1, <1>3, <1>4, <1>5 DEF Onward
<1> QED
  BY <1>2, <1>6 DEF Sweeps

\* How many rounds it takes until the loop, going to and fro, is at dimension c on
\* its way up.
Ahead(n, s, c) ==
    LET at1 == IF s.up THEN s.d ELSE 2 * n + 1 - s.d
    IN  IF at1 <= c THEN c - at1 ELSE IF n = 1 THEN 1 ELSE c - at1 + (2 * n - 1)

\* States of the loop: down at the first dimension there is only for n = 1.
Turned(n, s) == s.up \/ n = 1 \/ s.d > 1

LEMMA AheadCounts ==
    ASSUME NEW n \in Nat \ {0}, NEW v \in Positive(n), NEW s \in Sweeps(n, v), Turned(n, s), NEW c \in 1 .. n
    PROVE  /\ Turned(n, Onward(n, s))
           /\ Ahead(n, s, c) \in 0 .. 2 * n - 1 /\ Ahead(n, Onward(n, s), c) \in 0 .. 2 * n - 1
           /\ s.d # c => Ahead(n, Onward(n, s), c) = Ahead(n, s, c) - 1
<1>1. PICK u \in Halved(n, v), d \in 1 .. n, up \in BOOLEAN : s.v = u /\ s.d = d /\ s.up = up
  BY DEF Sweeps
<1>2. PICK to \in Int : to = IF up THEN d + 1 ELSE d - 1
  OBVIOUS
<1>3. PICK b \in 1 .. n : b = IF to > n THEN n ELSE MaxOf(to, 1)
  BY <1>2 DEF MaxOf
<1>4. PICK h \in BOOLEAN : h = (to <= n /\ (to <= 1 \/ up))
  OBVIOUS
<1>5. Onward(n, s).d = b /\ Onward(n, s).up = h
  BY <1>1, <1>2, <1>3, <1>4 DEF Onward
<1>6. PICK p \in 1 .. 2 * n : (up => p = d) /\ (~ up => p = 2 * n + 1 - d)
  <2>1. d \in 1 .. 2 * n /\ 2 * n + 1 - d \in 1 .. 2 * n
    OBVIOUS
  <2>2. CASE up
    BY <2>1, <2>2
  <2>3. CASE ~ up
    BY <2>1, <2>3
  <2> QED
    BY <2>2, <2>3
<1>7. PICK q \in 1 .. 2 * n : (h => q = b) /\ (~ h => q = 2 * n + 1 - b)
  <2>1. b \in 1 .. 2 * n /\ 2 * n + 1 - b \in 1 .. 2 * n
    OBVIOUS
  <2>2. CASE h
    BY <2>1, <2>2
  <2>3. CASE ~ h
    BY <2>1, <2>3
  <2> QED
    BY <2>2, <2>3
<1>8. up \/ n = 1 \/ d > 1
  BY <1>1 DEF Turned
<1>9. /\ h \/ n = 1 \/ b > 1
      /\ q = IF p < 2 * n - 1 \/ (n = 1 /\ p = 1) THEN p + 1 ELSE 1
  <2>1. CASE up /\ d < n
    <3>1. to = d + 1 /\ to <= n /\ ~ (to < 1)
      BY <1>2, <2>1
    <3>2. b = d + 1
      BY <1>3, <3>1 DEF MaxOf
    <3>3. h
      BY <1>4, <2>1, <3>1
    <3>4. p = d /\ q = b
      BY <1>6, <1>7, <2>1, <3>3
    <3>5. p < 2 * n - 1
      BY <2>1, <3>4
    <3> QED
      BY <3>2, <3>3, <3>4, <3>5
  <2>2. CASE up /\ d = n
    <3>1. to = n + 1 /\ ~ (to <= n)
      BY <1>2, <2>2
    <3>2. b = n
      BY <1>3, <3>1
    <3>3. ~ h
      BY <1>4, <3>1
    <3>4. p = n /\ q = n + 1
      BY <1>6, <1>7, <2>2, <3>2, <3>3
    <3>5. p < 2 * n - 1 \/ (n = 1 /\ p = 1)
      BY <3>4
    <3> QED
      BY <3>2, <3>4, <3>5
  <2>3. CASE ~ up /\ d > 2
    <3>1. to = d - 1 /\ to <= n /\ ~ (to < 1) /\ ~ (to <= 1)
      BY <1>2, <2>3
    <3>2. b = d - 1
      BY <1>3, <3>1 DEF MaxOf
    <3>3. ~ h
      BY <1>4, <2>3, <3>1
    <3>4. p = 2 * n + 1 - d /\ q = 2 * n + 1 - b
      BY <1>6, <1>7, <2>3, <3>3
    <3>5. p < 2 * n - 1
      BY <2>3, <3>4
    <3> QED
      BY <2>3, <3>2, <3>4, <3>5
  <2>4. CASE ~ up /\ d <= 2
    <3>1. to = d - 1 /\ to <= n /\ to <= 1
      BY <1>2, <2>4
    <3>2. b = 1
      BY <1>3, <3>1 DEF MaxOf
    <3>3. h
      BY <1>4, <3>1
    <3>4. p = 2 * n + 1 - d /\ q = 1
      BY <1>6, <1>7, <2>4, <3>2, <3>3
    <3>5. ~ (p < 2 * n - 1 \/ (n = 1 /\ p = 1))
      BY <1>8, <2>4, <3>4
    <3> QED
      BY <3>3, <3>4, <3>5
  <2> QED
    BY <2>1, <2>2, <2>3, <2>4
<1>10. Ahead(n, s, c) = IF p <= c THEN c - p ELSE IF n = 1 THEN 1 ELSE c - p + (2 * n - 1)
  <2>1. CASE up
    BY <1>1, <1>6, <2>1 DEF Ahead
  <2>2. CASE ~ up
    BY <1>1, <1>6, <2>2 DEF Ahead
  <2> QED
    BY <2>1, <2>2
<1>11. Ahead(n, Onward(n, s), c) = IF q <= c THEN c - q ELSE IF n = 1 THEN 1 ELSE c - q + (2 * n - 1)
  <2>1. CASE h
    BY <1>5, <1>7, <2>1 DEF Ahead
  <2>2. CASE ~ h
    BY <1>5, <1>7, <2>2 DEF Ahead
  <2> QED
    BY <2>1, <2>2
<1>12. n # 1 => p <= 2 * n - 1
  BY <1>6, <1>8
<1>13. Turned(n, Onward(n, s))
  BY <1>5, <1>9 DEF Turned
<1>14. Ahead(n, s, c) \in 0 .. 2 * n - 1
  BY <1>10, <1>12
<1>15. n # 1 => q <= 2 * n - 1
  BY <1>9, <1>12
<1>16. Ahead(n, Onward(n, s), c) \in 0 .. 2 * n - 1
  BY <1>11, <1>15
<1>17. ASSUME d # c PROVE Ahead(n, Onward(n, s), c) = Ahead(n, s, c) - 1
  <2>1. n # 1 /\ p # c
    BY <1>6, <1>17
  <2> QED
    BY <1>9, <1>10, <1>11, <1>12, <2>1
<1> QED
  BY <1>1, <1>13, <1>14, <1>16, <1>17

\* The rounds of the loop at compile time.
LEMMA AlternatingRoundsAre ==
    ASSUME NEW n \in Nat \ {0}, NEW v \in Positive(n), NEW m, m = 2 * n * Product(v), NEW r, r = AlternatingRounds(v)
    PROVE  /\ m \in Nat /\ DOMAIN r = 0 .. m /\ r[0] = [v |-> v, d |-> 1, up |-> TRUE]
           /\ \A k \in 0 .. m : r[k] \in Sweeps(n, v)
           /\ \A k \in 1 .. m : r[k] = Onward(n, r[k - 1])
<1> DEFINE S == Sweeps(n, v)
           T == [s \in S |-> Onward(n, s)]
<1>1. PICK x \in Nat \ {0} : x = Product(v) /\ Len(v) = n
  BY ProductIsPositive
<1>2. m \in Nat
  BY <1>1
<1>3. PICK b \in S : b = [v |-> v, d |-> 1, up |-> TRUE]
  <2>1. v \in Halved(n, v) /\ 1 \in 1 .. n
    BY DEF Halved
  <2> QED
    BY <2>1 DEF Sweeps
<1>4. \A s \in S : Onward(n, s) \in S
  BY OnwardIsSweep
<1>5. PICK f \in [0 .. m -> S] : f[0] = b /\ \A k \in 1 .. m : f[k] = T[f[k - 1]]
  <2>1. T \in [S -> S]
    BY <1>4
  <2>2. PICK R, t : R = S /\ t = T
    OBVIOUS
  <2>3. b \in R
    BY <2>2
  <2>4. t \in [R -> R]
    BY <2>1, <2>2
  <2>5. Histories(R, b, t, m) # {}
    BY <1>2, <2>3, <2>4, LoopsAreDefined
  <2> HIDE DEF S, T
  <2> QED
    BY <2>2, <2>5 DEF Histories
<1>6. ASSUME NEW k \in 1 .. m PROVE f[k] = Onward(n, f[k - 1])
  <2>1. k - 1 \in 0 .. m
    BY <1>2
  <2>2. f[k] = T[f[k - 1]] /\ f[k - 1] \in S
    BY <1>5, <2>1
  <2> HIDE DEF S
  <2> QED
    BY <2>2
<1> DEFINE Loop(g) == [k \in 0 .. 2 * n * Product(v) |->
                IF k = 0 THEN [v |-> v, d |-> 1, up |-> TRUE] ELSE Onward(n, g[k - 1])]
           Raw(g) == [k \in 0 .. 2 * Len(v) * Product(v) |->
                IF k = 0 THEN [v |-> v, d |-> 1, up |-> TRUE]
                ELSE LET s  == g[k - 1]
                         to == IF s.up THEN s.d + 1 ELSE s.d - 1
                     IN  [v |-> Halve(s.v, s.d), d |-> IF to > Len(v) THEN Len(v) ELSE MaxOf(to, 1),
                          up |-> to <= Len(v) /\ (to <= 1 \/ s.up)]]
<1>7. \A g : Raw(g) = Loop(g)
  BY <1>1 DEF Onward
<1>8. f = Loop(f)
  <2>1. ASSUME NEW k \in 0 .. m PROVE f[k] = IF k = 0 THEN [v |-> v, d |-> 1, up |-> TRUE] ELSE Onward(n, f[k - 1])
    <3>1. CASE k = 0
      BY <1>3, <1>5, <3>1
    <3>2. CASE k # 0
      <4>1. k \in 1 .. m
        BY <1>2, <3>2
      <4> QED
        BY <1>6, <3>2, <4>1
    <3> QED
      BY <3>1, <3>2
  <2>2. f = [k \in 0 .. m |-> f[k]]
    OBVIOUS
  <2> QED
    BY <2>1, <2>2
<1>9. r = Loop(r)
  <2>1. r = CHOOSE g : g = Raw(g)
    BY Zenon DEF AlternatingRounds
  <2> HIDE DEF Loop, Raw
  <2>2. r = Raw(r)
    BY <1>7, <1>8, <2>1, Zenon
  <2> QED
    BY <1>7, <2>2
<1>10. DOMAIN r = 0 .. m /\ r[0] = b /\ \A k \in 1 .. m : r[k] = Onward(n, r[k - 1])
  <2>1. r = [k \in 0 .. m |-> IF k = 0 THEN b ELSE Onward(n, r[k - 1])]
    BY <1>3, <1>9
  <2> QED
    BY <1>2, <2>1
<1> DEFINE Good == {k \in Nat : k <= m => r[k] \in S}
<1>11. 0 \in Good
  BY <1>10
<1>12. ASSUME NEW k \in Nat, k \in Good PROVE k + 1 \in Good
  <2> SUFFICES ASSUME k + 1 <= m PROVE r[k + 1] \in S
    OBVIOUS
  <2>1. r[k] \in S
    BY <1>2, <1>12
  <2>2. k + 1 \in 1 .. m /\ (k + 1) - 1 = k
    BY <1>2
  <2> QED
    BY <1>4, <1>10, <2>1, <2>2
<1>13. Nat \subseteq Good
  <2> HIDE DEF Good
  <2> QED
    BY <1>11, <1>12, SetInduction
<1>14. ASSUME NEW k \in 0 .. m PROVE r[k] \in S
  BY <1>2, <1>13
<1> QED
  BY <1>2, <1>3, <1>10, <1>14

\* adjustToLimit at compile time ends within the limit: as long as a round makes
\* the space no smaller, the next component above one comes nearer.
LEMMA AdjustedConstIsWithin ==
    ASSUME NEW n \in Nat \ {0}, NEW v \in Positive(n), NEW limit \in Nat \ {0}
    PROVE  AdjustConstToLimit(v, limit) \in Halved(n, v) /\ Product(AdjustConstToLimit(v, limit)) <= limit
<1>1. PICK x \in Nat \ {0} : x = Product(v)
  BY ProductIsPositive
<1>2. PICK w \in Nat \ {0} : w = 2 * n
  OBVIOUS
<1>3. PICK m \in Nat : m = w * x /\ m = 2 * n * Product(v)
  <2>1. 2 * n * Product(v) = w * x
    BY <1>1, <1>2
  <2> QED
    BY <2>1
<1>4. PICK r : r = AlternatingRounds(v)
  OBVIOUS
<1>5. /\ DOMAIN r = 0 .. m /\ r[0] = [v |-> v, d |-> 1, up |-> TRUE]
      /\ \A k \in 0 .. m : r[k] \in Sweeps(n, v)
      /\ \A k \in 1 .. m : r[k] = Onward(n, r[k - 1])
  BY <1>3, <1>4, AlternatingRoundsAre
<1>6. ASSUME NEW k \in 0 .. m
      PROVE  r[k].v \in Halved(n, v) /\ r[k].v \in Positive(n) /\ r[k].d \in 1 .. n
  <2>1. r[k] \in Sweeps(n, v)
    BY <1>5
  <2> QED
    BY <2>1 DEF Sweeps, Halved
<1>7. \E k \in 0 .. m : Within(r[k].v, limit)
  <2> SUFFICES ASSUME \A k \in 0 .. m : ~ Within(r[k].v, limit) PROVE FALSE
    OBVIOUS
  <2> DEFINE Bound(k) == \A c \in 1 .. n : r[k].v[c] > 1 =>
                            k + Ahead(n, r[k], c) <= w * (x - Product(r[k].v) + 1)
             Nears == {k \in Nat : k <= m => Turned(n, r[k]) /\ Product(r[k].v) <= x /\ Bound(k)}
  <2>1. 0 \in Nears
    <3>1. Turned(n, r[0]) /\ r[0].v = v
      BY <1>5 DEF Turned
    <3>2. ASSUME NEW c \in 1 .. n PROVE Ahead(n, r[0], c) = c - 1
      BY <1>5 DEF Ahead
    <3>3. w * (x - x + 1) = w
      BY <1>2
    <3>4. ASSUME NEW c \in 1 .. n PROVE 0 + Ahead(n, r[0], c) <= w
      BY <1>2, <3>2
    <3>5. Product(r[0].v) = x
      BY <1>1, <3>1
    <3>6. Bound(0)
      BY <3>3, <3>4, <3>5
    <3>7. Product(r[0].v) <= x
      BY <3>5
    <3> HIDE DEF Bound
    <3> QED
      BY <3>1, <3>6, <3>7
  <2>2. ASSUME NEW k \in Nat, k \in Nears PROVE k + 1 \in Nears
    <3> SUFFICES ASSUME k + 1 <= m
                 PROVE  Turned(n, r[k + 1]) /\ Product(r[k + 1].v) <= x /\ Bound(k + 1)
      OBVIOUS
    <3>1. k \in 0 .. m /\ k + 1 \in 1 .. m /\ (k + 1) - 1 = k
      BY <1>3
    <3>2. PICK s \in Sweeps(n, v) : s = r[k]
      BY <1>5, <3>1
    <3>3. r[k + 1] = Onward(n, s)
      BY <1>5, <3>1, <3>2
    <3>4. PICK u \in Positive(n), d \in 1 .. n : s.v = u /\ s.d = d
      BY <1>6, <3>1, <3>2
    <3>5. r[k + 1].v = Halve(u, d)
      BY <3>3, <3>4 DEF Onward
    <3>6. PICK p \in Nat \ {0} : p = Product(u) /\ p > limit /\ p <= x
      <4>1. Product(u) \in Nat \ {0}
        BY ProductIsPositive
      <4>2. ~ Within(u, limit)
        BY <3>1, <3>2, <3>4
      <4>3. Product(u) <= x
        BY <2>2, <3>1, <3>2, <3>4
      <4> QED
        BY <4>1, <4>2, <4>3 DEF Within
    <3>7. PICK q \in Nat \ {0} : /\ q = Product(Halve(u, d))
                                 /\ u[d] = 1 => Halve(u, d) = u
                                 /\ u[d] > 1 => q < p
      BY <3>6, HalvingShrinks
    <3>8. Turned(n, s)
      BY <2>2, <3>1, <3>2
    <3>9. ASSUME NEW c \in 1 .. n
          PROVE  /\ Turned(n, Onward(n, s))
                 /\ Ahead(n, s, c) \in 0 .. w - 1 /\ Ahead(n, Onward(n, s), c) \in 0 .. w - 1
                 /\ d # c => Ahead(n, Onward(n, s), c) = Ahead(n, s, c) - 1
      <4>1. /\ Turned(n, Onward(n, s))
            /\ Ahead(n, s, c) \in 0 .. 2 * n - 1 /\ Ahead(n, Onward(n, s), c) \in 0 .. 2 * n - 1
            /\ s.d # c => Ahead(n, Onward(n, s), c) = Ahead(n, s, c) - 1
        BY <3>8, AheadCounts
      <4> QED
        BY <1>2, <3>4, <4>1
    <3>10. \A c \in 1 .. n : u[c] > 1 => k + Ahead(n, s, c) <= w * (x - p + 1)
      BY <2>2, <3>1, <3>2, <3>4, <3>6
    <3>11. Turned(n, r[k + 1])
      BY <3>3, <3>9
    <3>12. CASE u[d] = 1
      <4>1. r[k + 1].v = u /\ q = p
        BY <3>5, <3>6, <3>7, <3>12
      <4>2. ASSUME NEW c \in 1 .. n, u[c] > 1
            PROVE  (k + 1) + Ahead(n, Onward(n, s), c) <= w * (x - p + 1)
        <5>1. d # c
          BY <3>12, <4>2
        <5>2. Ahead(n, Onward(n, s), c) = Ahead(n, s, c) - 1 /\ Ahead(n, s, c) \in Nat
          BY <3>9, <5>1
        <5>3. k + Ahead(n, s, c) <= w * (x - p + 1)
          BY <3>10, <4>2
        <5> QED
          BY <5>2, <5>3
      <4> QED
        BY <3>3, <3>6, <3>11, <4>1, <4>2
    <3>13. CASE u[d] # 1
      <4>1. u[d] > 1 /\ q < p
        BY <3>7, <3>13 DEF Positive
      <4>2. k <= w * (x - p + 1)
        <5>1. PICK a \in Nat : a = Ahead(n, s, d)
          BY <3>9
        <5>2. k + a <= w * (x - p + 1)
          BY <3>10, <4>1, <5>1
        <5>3. PICK b \in Nat : b = w * (x - p + 1)
          BY <3>6
        <5> QED
          BY <5>2, <5>3
      <4>3. w * (x - p + 1) + w <= w * (x - q + 1)
        <5>1. PICK i, j \in Nat : i = x - p + 1 /\ j = x - q + 1 /\ i + 1 <= j
          BY <3>6, <4>1
        <5>2. (i + 1) * w <= j * w
          BY <5>1, ProductOrder
        <5>3. (i + 1) * w = w * i + w /\ j * w = w * j
          OBVIOUS
        <5> QED
          BY <5>1, <5>2, <5>3
      <4>4. ASSUME NEW c \in 1 .. n PROVE (k + 1) + Ahead(n, Onward(n, s), c) <= w * (x - q + 1)
        <5>1. PICK a \in Nat : a = Ahead(n, Onward(n, s), c) /\ a <= w - 1
          BY <3>9
        <5>2. PICK e, g \in Nat : e = w * (x - p + 1) /\ g = w * (x - q + 1)
          BY <3>6, <4>1
        <5> QED
          BY <4>2, <4>3, <5>1, <5>2
      <4> QED
        BY <3>3, <3>5, <3>6, <3>7, <3>11, <4>1, <4>4
    <3> QED
      BY <3>4, <3>12, <3>13
  <2>3. Bound(m) /\ Product(r[m].v) <= x
    <3> HIDE DEF Bound
    <3>1. Nat \subseteq Nears
      <4> HIDE DEF Nears
      <4> QED
        BY <2>1, <2>2, SetInduction
    <3> QED
      BY <3>1
  <2>4. PICK u \in Positive(n) : u = r[m].v
    BY <1>3, <1>6
  <2>5. PICK p \in Nat \ {0} : p = Product(u) /\ p > 1 /\ p <= x
    <3>1. Product(u) \in Nat \ {0}
      BY ProductIsPositive
    <3>2. Product(u) > limit
      BY <1>3, <2>4, <3>1 DEF Within
    <3> QED
      BY <2>3, <2>4, <3>1, <3>2
  <2>6. PICK c \in 1 .. n : u[c] > 1
    BY <2>5, ProductAboveOne
  <2>7. m + Ahead(n, r[m], c) <= w * (x - p + 1)
    BY <2>3, <2>4, <2>5, <2>6
  <2>8. PICK a \in Nat : a = Ahead(n, r[m], c)
    <3>1. r[m] \in Sweeps(n, v)
      BY <1>3, <1>5
    <3>2. Turned(n, r[m])
      <4>1. Nat \subseteq Nears
        <5> HIDE DEF Nears
        <5> QED
          BY <2>1, <2>2, SetInduction
      <4> QED
        BY <4>1
    <3>3. PICK t \in Sweeps(n, v) : t = r[m]
      BY <3>1
    <3>4. Ahead(n, t, c) \in 0 .. 2 * n - 1
      BY <3>2, <3>3, AheadCounts
    <3> QED
      BY <3>3, <3>4
  <2>9. w * (x - p + 1) <= w * (x - 1) /\ w * (x - 1) = w * x - w
    <3>1. PICK i, j \in Nat : i = x - p + 1 /\ j = x - 1 /\ i <= j
      BY <2>5
    <3>2. i * w <= j * w
      BY <3>1, ProductOrder
    <3>3. i * w = w * i /\ j * w = w * j
      OBVIOUS
    <3>4. w * (x - 1) = w * x - w
      OBVIOUS
    <3> QED
      BY <3>1, <3>2, <3>3, <3>4
  <2>10. PICK e, g \in Int : e = w * (x - p + 1) /\ g = w * x
    OBVIOUS
  <2> QED
    BY <1>3, <2>7, <2>8, <2>9, <2>10
<1>8. PICK k \in 0 .. m : k = FirstWithin(r, limit) /\ Within(r[k].v, limit)
  BY <1>5, <1>7, FirstRoundWithin
<1>9. AdjustConstToLimit(v, limit) = r[k].v
  BY <1>4, <1>8 DEF AdjustConstToLimit
<1> QED
  BY <1>6, <1>8, <1>9 DEF Within

\* The dimension to double has room if any has.
LEMMA WidestHasRoom ==
    ASSUME NEW n \in Nat \ {0}, NEW e \in Positive(n), NEW f \in Positive(n)
    PROVE  /\ WidestDim(e, f) \in 1 .. n
           /\ ~ CanDouble(e, f, WidestDim(e, f)) => \A c \in 1 .. n : e[c] < 2 * f[c]
<1> DEFINE Room(d) == (e[d] \div f[d]) \div 2
           Best == {d \in DOMAIN f : Room(d) > 0 /\ \A c \in DOMAIN f : Room(c) <= Room(d)}
           Least(d) == \A c \in Best : d <= c
<1>1. DOMAIN f = 1 .. n /\ Len(f) = n
  BY DEF Positive
<1>2. ASSUME NEW d \in 1 .. n PROVE Room(d) \in Nat /\ (Room(d) = 0 => e[d] < 2 * f[d])
  <2>1. PICK a, b \in Nat \ {0} : a = e[d] /\ b = f[d]
    BY DEF Positive
  <2>2. PICK q \in Nat, z \in Nat : q = a \div b /\ z < b /\ a = b * q + z
    BY Division
  <2>3. q \div 2 \in Nat /\ (q \div 2 = 0 => q < 2)
    OBVIOUS
  <2>4. q < 2 => a < 2 * b
    <3>1. ASSUME q = 0 PROVE a < 2 * b
      BY <2>2, <3>1
    <3>2. ASSUME q = 1 PROVE a < 2 * b
      BY <2>2, <3>2
    <3> QED
      BY <2>2, <3>1, <3>2
  <2> QED
    BY <2>1, <2>2, <2>3, <2>4
<1>3. WidestDim(e, f) = IF Best = {} THEN Len(f) ELSE CHOOSE d \in Best : Least(d)
  BY DEF WidestDim
<1>4. ASSUME Best = {} PROVE \A c \in 1 .. n : Room(c) = 0
  <2> DEFINE u == [d \in 1 .. n |-> Room(d) + 1]
  <2>1. u \in Positive(n)
    <3>1. \A d \in 1 .. n : Room(d) + 1 \in Nat \ {0}
      BY <1>2
    <3> HIDE DEF Room
    <3> QED
      BY <3>1 DEF Positive
  <2>2. PICK w \in Positive(n) : w = u
    BY <2>1
  <2>3. PICK b \in 1 .. n : \A c \in 1 .. n : w[c] <= w[b]
    BY LargestIsLargest
  <2>4. \A c \in 1 .. n : Room(c) <= Room(b)
    <3>1. \A c \in 1 .. n : w[c] = Room(c) + 1
      BY <2>2
    <3> HIDE DEF Room, u
    <3> QED
      BY <1>2, <2>3, <3>1
  <2>5. ~ (Room(b) > 0)
    <3>1. b \notin Best
      BY <1>4
    <3> HIDE DEF Room
    <3> QED
      BY <1>1, <2>4, <3>1
  <2> HIDE DEF Room
  <2> QED
    BY <1>2, <2>4, <2>5
<1>5. ASSUME Best # {} PROVE WidestDim(e, f) \in Best
  <2>1. \A y \in Best : y \in Nat
    BY <1>1
  <2>2. PICK d \in Best : Least(d)
    <3> HIDE DEF Best
    <3> QED
      BY <1>5, <2>1, LeastElement
  <2>3. (CHOOSE b \in Best : Least(b)) \in Best
    <3> HIDE DEF Best
    <3> QED
      BY <2>2
  <2> HIDE DEF Best
  <2> QED
    BY <1>3, <1>5, <2>3
<1>6. CASE Best = {}
  <2>1. WidestDim(e, f) = n
    BY <1>1, <1>3, <1>6
  <2>2. \A c \in 1 .. n : e[c] < 2 * f[c]
    <3> HIDE DEF Room
    <3> QED
      BY <1>2, <1>4, <1>6
  <2> QED
    BY <2>1, <2>2
<1>7. CASE Best # {}
  <2>1. PICK d \in 1 .. n : d = WidestDim(e, f) /\ Room(d) > 0
    BY <1>1, <1>5, <1>7
  <2>2. CanDouble(e, f, d)
    <3>1. Room(d) >= 1
      <4>1. Room(d) \in Nat
        BY <1>2
      <4> HIDE DEF Room
      <4> QED
        BY <2>1, <4>1
    <3> QED
      BY <3>1 DEF CanDouble
  <2> QED
    BY <2>1, <2>2
<1> QED
  BY <1>6, <1>7

\* A component is not above the product.
LEMMA ComponentBelowProduct ==
    ASSUME NEW n \in Nat \ {0}, NEW v \in Positive(n), NEW d \in 1 .. n
    PROVE  v[d] <= Product(v)
<1>1. v \in [1 .. n -> Nat] /\ v[d] \in Nat \ {0}
  BY DEF Positive
<1>2. PICK u : u = [v EXCEPT ![d] = 1]
  OBVIOUS
<1>3. u \in Positive(n)
  BY <1>2 DEF Positive
<1>4. u \in [1 .. n -> Nat] /\ u[d] = 1
  BY <1>1, <1>2
<1>5. \A k \in 1 .. n : k # d => u[k] = v[k]
  BY <1>1, <1>2
<1>6. n \in Nat /\ v \in [1 .. n -> Nat]
  BY <1>1
<1>7. Product(u) * v[d] = Product(v) * u[d]
  BY <1>4, <1>5, <1>6, ProductOfReplaced
<1>8. PICK p, q, x \in Nat \ {0} : p = Product(v) /\ q = Product(u) /\ x = v[d]
  BY <1>1, <1>3, ProductIsPositive
<1>9. q * x = p
  BY <1>4, <1>7, <1>8
<1>10. 1 * x <= q * x
  BY ProductOrder, 1 <= q
<1> QED
  BY <1>8, <1>9, <1>10

Double(v, d) == [v EXCEPT ![d] = 2 * @]

\* Doubling a component doubles the product.
LEMMA DoublingDoubles ==
    ASSUME NEW n \in Nat \ {0}, NEW v \in Positive(n), NEW d \in 1 .. n
    PROVE  /\ Double(v, d) \in Positive(n) /\ Product(Double(v, d)) = 2 * Product(v)
           /\ \A c \in 1 .. n : Double(v, d)[c] = IF c = d THEN 2 * v[d] ELSE v[c]
<1>0. PICK u : u = Double(v, d)
  OBVIOUS
<1>1. v \in [1 .. n -> Nat] /\ v[d] \in Nat \ {0}
  BY DEF Positive
<1>2. PICK x \in Nat \ {0} : x = v[d]
  BY <1>1
<1>3. PICK y \in Nat \ {0} : y = 2 * x
  OBVIOUS
<1>4. u = [v EXCEPT ![d] = y]
  BY <1>0, <1>2, <1>3 DEF Double
<1>5. u \in Positive(n) /\ \A c \in 1 .. n : u[c] = IF c = d THEN y ELSE v[c]
  BY <1>4 DEF Positive
<1>6. PICK w \in [1 .. n -> Nat] : w = u /\ w[d] = y
  BY <1>1, <1>4
<1>7. \A k \in 1 .. n : k # d => w[k] = v[k]
  BY <1>5, <1>6
<1>8. n \in Nat /\ v \in [1 .. n -> Nat]
  BY <1>1
<1>9. Product(w) * v[d] = Product(v) * w[d]
  BY <1>7, <1>8, ProductOfReplaced
<1>10. PICK p, q \in Nat \ {0} : p = Product(v) /\ q = Product(u)
  BY <1>5, ProductIsPositive
<1>11. q * x = (2 * p) * x
  <2>1. p * (2 * x) = (2 * p) * x
    OBVIOUS
  <2> QED
    BY <1>2, <1>3, <1>6, <1>9, <1>10, <2>1
<1>12. q = 2 * p
  <2>1. ~ (q < 2 * p)
    <3>1. ASSUME q < 2 * p PROVE FALSE
      <4>1. (q + 1) * x <= (2 * p) * x /\ (q + 1) * x = q * x + x
        <5>1. PICK j \in Nat : j = 2 * p
          OBVIOUS
        <5>2. (q + 1) * x <= j * x
          BY <3>1, <5>1, ProductOrder, q + 1 <= j
        <5> QED
          BY <5>1, <5>2
      <4>2. PICK i \in Nat : i = q * x
        OBVIOUS
      <4> QED
        BY <1>11, <4>1, <4>2
    <3> QED
      BY <3>1
  <2>2. ~ (2 * p < q)
    <3>1. ASSUME 2 * p < q PROVE FALSE
      <4>1. PICK j \in Nat : j = 2 * p
        OBVIOUS
      <4>2. (j + 1) * x <= q * x /\ (j + 1) * x = j * x + x
        <5>1. (j + 1) * x <= q * x
          BY <3>1, <4>1, ProductOrder, j + 1 <= q
        <5> QED
          BY <5>1
      <4>3. PICK i \in Nat : i = q * x /\ i = j * x
        BY <1>11, <4>1
      <4> QED
        BY <4>2, <4>3
    <3> QED
      BY <3>1
  <2> QED
    BY <2>1, <2>2
<1> QED
  BY <1>0, <1>2, <1>3, <1>5, <1>10, <1>12

\* Twice a power of two, and half of it.
LEMMA DoublePower ==
    ASSUME NEW i \in 0 .. 9
    PROVE  Power(i + 1) = 2 * Power(i) /\ Power(i + 1) \div 2 = Power(i) /\ Power(i + 1) > 1 /\ Power(0) = 1
<1>1. PICK k \in 0 .. 11 : k = i + 1
  OBVIOUS
<1>2. \/ (k = 0 /\ Power(k) = 1) \/ (k = 1 /\ Power(k) = 2) \/ (k = 2 /\ Power(k) = 4) \/ (k = 3 /\ Power(k) = 8)
      \/ (k = 4 /\ Power(k) = 16) \/ (k = 5 /\ Power(k) = 32) \/ (k = 6 /\ Power(k) = 64) \/ (k = 7 /\ Power(k) = 128)
      \/ (k = 8 /\ Power(k) = 256) \/ (k = 9 /\ Power(k) = 512) \/ (k = 10 /\ Power(k) = 1024) \/ (k = 11 /\ Power(k) = 2048)
  BY Powers
<1>3. \/ (i = 0 /\ Power(i) = 1) \/ (i = 1 /\ Power(i) = 2) \/ (i = 2 /\ Power(i) = 4) \/ (i = 3 /\ Power(i) = 8)
      \/ (i = 4 /\ Power(i) = 16) \/ (i = 5 /\ Power(i) = 32) \/ (i = 6 /\ Power(i) = 64) \/ (i = 7 /\ Power(i) = 128)
      \/ (i = 8 /\ Power(i) = 256) \/ (i = 9 /\ Power(i) = 512) \/ (i = 10 /\ Power(i) = 1024) \/ (i = 11 /\ Power(i) = 2048)
  BY Powers
<1>4. Power(0) = 1
  BY Powers
<1> QED
  BY <1>1, <1>2, <1>3, <1>4

\* Frames within the extents whose components are powers of two.
Frames(n, e) == {f \in Positive(n) : \A d \in 1 .. n : f[d] <= e[d] /\ \E i \in 0 .. 9 : f[d] = Power(i)}

\* A round of getFrameSpec's loop.
Distribute(e, s) ==
    LET d == WidestDim(e, s.f)
    IN  IF s.left > 1 /\ CanDouble(e, s.f, d)
        THEN [f |-> [s.f EXCEPT ![d] = 2 * @], left |-> s.left \div 2]
        ELSE s

\* What of the elements is not in the frame is left to be distributed.
Shares(n, e, all) ==
    {s \in [f : Frames(n, e), left : Nat] : /\ \E i \in 0 .. 9 : s.left = Power(i)
                                            /\ Product(s.f) * s.left = all}

\* The loop goes on.
Active(e, s) == s.left > 1 /\ CanDouble(e, s.f, WidestDim(e, s.f))

LEMMA DistributeKeeps ==
    ASSUME NEW n \in Nat \ {0}, NEW e \in Positive(n), NEW all \in Nat \ {0}, all <= 512, NEW s \in Shares(n, e, all)
    PROVE  /\ Distribute(e, s) \in Shares(n, e, all)
           /\ Active(e, s) => \A i \in 0 .. 9 : s.left = Power(i) =>
                                 i > 0 /\ Distribute(e, s).left = Power(i - 1)
           /\ ~ Active(e, s) => Distribute(e, s) = s
<1>1. PICK f \in Positive(n), left \in Nat, j \in 0 .. 9 :
          s.f = f /\ s.left = left /\ left = Power(j) /\ s \in [f : Frames(n, e), left : Nat]
  BY DEF Shares, Frames
<1>2. /\ Product(f) * left = all /\ f \in Frames(n, e)
      /\ \A c \in 1 .. n : f[c] <= e[c] /\ \E i \in 0 .. 9 : f[c] = Power(i)
  BY <1>1 DEF Shares, Frames
<1>3. CASE ~ Active(e, s)
  BY <1>3 DEF Active, Distribute
<1>4. CASE Active(e, s)
  <2>1. PICK d \in 1 .. n : d = WidestDim(e, f)
    BY WidestHasRoom
  <2>2. left > 1 /\ CanDouble(e, f, d)
    BY <1>1, <1>4, <2>1 DEF Active
  <2>3. PICK g : g = Double(f, d)
    OBVIOUS
  <2>4. g \in Positive(n) /\ Product(g) = 2 * Product(f) /\ \A c \in 1 .. n : g[c] = IF c = d THEN 2 * f[d] ELSE f[c]
    BY <2>3, DoublingDoubles
  <2>5. PICK p \in Nat \ {0} : p = Product(f) /\ f[d] <= p
    BY ProductIsPositive, ComponentBelowProduct
  <2>6. j > 0 /\ left = 2 * Power(j - 1) /\ left \div 2 = Power(j - 1) /\ Power(j - 1) \in Nat
    <3>1. j # 0
      BY <1>1, <2>2, DoublePower
    <3>2. PICK i \in 0 .. 9 : j = i + 1
      BY <3>1
    <3>3. Power(i) \in Nat
      BY PowerIsPositive
    <3> QED
      BY <1>1, <3>2, <3>3, DoublePower
  <2>7. PICK h \in Nat : h = Power(j - 1) /\ left = 2 * h /\ h = left \div 2
    BY <2>6
  <2>8. Product(g) * h = all
    <3>1. (2 * p) * h = p * (2 * h)
      OBVIOUS
    <3> QED
      BY <1>2, <2>4, <2>5, <2>7, <3>1
  <2>9. 2 * f[d] <= e[d]
    <3>1. PICK a, b \in Nat \ {0} : a = e[d] /\ b = f[d]
      BY DEF Positive
    <3>2. PICK q \in Nat, z \in Nat : q = a \div b /\ z < b /\ a = b * q + z
      BY Division
    <3>3. q \div 2 >= 1
      BY <2>2, <3>1, <3>2 DEF CanDouble
    <3>4. q >= 2
      BY <3>3
    <3>5. 2 * b <= q * b /\ q * b = b * q
      <4>1. 2 * b <= q * b
        BY <3>4, ProductOrder
      <4> QED
        BY <4>1
    <3>6. PICK m \in Nat : m = b * q
      OBVIOUS
    <3> QED
      BY <3>1, <3>2, <3>5, <3>6
  <2>10. \E i \in 0 .. 9 : 2 * f[d] = Power(i)
    <3>1. PICK i \in 0 .. 9 : f[d] = Power(i)
      BY <1>2
    <3>2. 2 * p <= 512
      <4>1. 2 * p <= left * p /\ left * p = p * left
        <5>1. 2 * p <= left * p
          BY <2>2, ProductOrder
        <5> QED
          BY <5>1
      <4>2. PICK m \in Nat : m = p * left /\ m <= 512
        BY <1>2, <2>5
      <4> QED
        BY <4>1, <4>2
    <3>3. i # 9
      <4>1. Power(9) = 512
        BY Powers
      <4>2. f[d] \in Nat
        BY DEF Positive
      <4> QED
        BY <2>5, <3>1, <3>2, <4>1, <4>2
    <3>4. i + 1 \in 0 .. 9
      BY <3>3
    <3>5. Power(i + 1) = 2 * f[d]
      BY <3>1, DoublePower
    <3> QED
      BY <3>4, <3>5
  <2>11. \A c \in 1 .. n : g[c] <= e[c] /\ \E i \in 0 .. 9 : g[c] = Power(i)
    BY <1>2, <2>4, <2>9, <2>10
  <2>12. g \in Frames(n, e)
    BY <2>4, <2>11 DEF Frames
  <2>13. Distribute(e, s) = [f |-> g, left |-> h]
    BY <1>1, <2>1, <2>2, <2>3, <2>7 DEF Distribute, Double
  <2>14. j - 1 \in 0 .. 9
    BY <2>6
  <2>15. Distribute(e, s) \in Shares(n, e, all)
    BY <2>7, <2>8, <2>12, <2>13, <2>14 DEF Shares
  <2>16. ASSUME NEW i \in 0 .. 9, s.left = Power(i) PROVE i > 0 /\ Distribute(e, s).left = Power(i - 1)
    <3>1. i # 0
      BY <1>1, <2>2, <2>16, DoublePower
    <3>2. i - 1 \in 0 .. 9 /\ i = (i - 1) + 1
      BY <3>1
    <3>3. Power(i) \div 2 = Power(i - 1)
      BY <3>2, DoublePower
    <3> QED
      BY <1>1, <2>7, <2>13, <2>16, <3>1, <3>3
  <2> QED
    BY <1>4, <2>15, <2>16
<1> QED
  BY <1>3, <1>4

\* Nine rounds of getFrameSpec's loop suffice.
LEMMA NineRounds ==
    ASSUME NEW n \in Nat \ {0}, NEW e \in Positive(n), NEW all \in Nat \ {0}, all <= 512,
           NEW r, r[0] \in Shares(n, e, all), \A k \in 1 .. 9 : r[k] = Distribute(e, r[k - 1])
    PROVE  r[9] \in Shares(n, e, all) /\ ~ Active(e, r[9])
<1> DEFINE Left(k) == ~ Active(e, r[k]) \/ \E i \in 0 .. 9 - k : r[k].left = Power(i)
           Good == {k \in Nat : k <= 9 => r[k] \in Shares(n, e, all) /\ Left(k)}
<1>1. 0 \in Good
  BY DEF Shares
<1>2. ASSUME NEW k \in Nat, k \in Good PROVE k + 1 \in Good
  <2> SUFFICES ASSUME k + 1 <= 9 PROVE r[k + 1] \in Shares(n, e, all) /\ Left(k + 1)
    OBVIOUS
  <2>1. PICK x \in Shares(n, e, all) : x = r[k]
    BY <1>2
  <2>2. k + 1 \in 1 .. 9 /\ (k + 1) - 1 = k /\ k <= 9
    OBVIOUS
  <2>3. r[k + 1] = Distribute(e, x)
    BY <2>1, <2>2
  <2>4. Distribute(e, x) \in Shares(n, e, all) /\ (~ Active(e, x) => Distribute(e, x) = x)
    BY DistributeKeeps
  <2>5. CASE ~ Active(e, x)
    BY <2>3, <2>4, <2>5
  <2>6. CASE Active(e, x)
    <3>1. PICK i \in 0 .. 9 - k : x.left = Power(i)
      BY <1>2, <2>1, <2>2, <2>6
    <3>2. i > 0 /\ Distribute(e, x).left = Power(i - 1)
      <4>1. i \in 0 .. 9
        BY <2>2
      <4> QED
        BY <2>6, <3>1, <4>1, DistributeKeeps
    <3>3. i - 1 \in 0 .. 9 - (k + 1)
      BY <3>1, <3>2
    <3> QED
      BY <2>3, <2>4, <3>2, <3>3
  <2> QED
    BY <2>5, <2>6
<1>3. 9 \in Good
  <2> HIDE DEF Good
  <2>1. Nat \subseteq Good
    BY <1>1, <1>2, SetInduction
  <2> QED
    BY <2>1
<1>4. r[9] \in Shares(n, e, all) /\ Left(9)
  BY <1>3
<1>5. ASSUME NEW i \in 0 .. 9 - 9, r[9].left = Power(i) PROVE ~ Active(e, r[9])
  <2>1. r[9].left = 1
    BY <1>5, DoublePower
  <2> QED
    BY <2>1 DEF Active
<1> QED
  BY <1>4, <1>5

\* The rounds of getFrameSpec's loop.
LEMMA FrameLoopIs ==
    ASSUME NEW n \in Nat \ {0}, NEW e \in Positive(n), NEW all \in Nat \ {0}, all <= 512, NEW s \in Shares(n, e, all),
           NEW r, r = FrameLoop(e, s.f, s.left)
    PROVE  r[9] \in Shares(n, e, all) /\ ~ Active(e, r[9])
<1> DEFINE S == Shares(n, e, all)
           T == [x \in S |-> Distribute(e, x)]
<1>1. \A x \in S : Distribute(e, x) \in S
  BY DistributeKeeps
<1>2. s = [f |-> s.f, left |-> s.left]
  BY DEF Shares
<1>3. PICK f \in [0 .. 9 -> S] : f[0] = s /\ \A k \in 1 .. 9 : f[k] = T[f[k - 1]]
  <2>1. T \in [S -> S]
    BY <1>1
  <2>2. PICK R, t : R = S /\ t = T
    OBVIOUS
  <2>3. s \in R
    BY <2>2
  <2>4. t \in [R -> R]
    BY <2>1, <2>2
  <2>5. Histories(R, s, t, 9) # {}
    BY <2>3, <2>4, LoopsAreDefined, 9 \in Nat
  <2> HIDE DEF S, T
  <2> QED
    BY <2>2, <2>5 DEF Histories
<1>4. ASSUME NEW k \in 1 .. 9 PROVE f[k] = Distribute(e, f[k - 1])
  <2>1. f[k] = T[f[k - 1]] /\ f[k - 1] \in S
    BY <1>3
  <2> HIDE DEF S
  <2> QED
    BY <2>1
<1> DEFINE Loop(g) == [k \in 0 .. 9 |-> IF k = 0 THEN s ELSE Distribute(e, g[k - 1])]
           Raw(g) == [k \in 0 .. 9 |->
                        IF k = 0 THEN [f |-> s.f, left |-> s.left]
                        ELSE LET t == g[k - 1]
                                 d == WidestDim(e, t.f)
                             IN  IF t.left > 1 /\ CanDouble(e, t.f, d)
                                 THEN [f |-> [t.f EXCEPT ![d] = 2 * @], left |-> t.left \div 2]
                                 ELSE t]
<1>5. \A g : Raw(g) = Loop(g)
  BY <1>2 DEF Distribute
<1>6. f = Loop(f)
  <2>1. ASSUME NEW k \in 0 .. 9 PROVE f[k] = IF k = 0 THEN s ELSE Distribute(e, f[k - 1])
    <3>1. CASE k = 0
      BY <1>3, <3>1
    <3>2. CASE k # 0
      BY <1>4, <3>2, k \in 1 .. 9
    <3> QED
      BY <3>1, <3>2
  <2>2. f = [k \in 0 .. 9 |-> f[k]]
    OBVIOUS
  <2> QED
    BY <2>1, <2>2
<1>7. r = Loop(r)
  <2>1. r = CHOOSE g : g = Raw(g)
    BY Zenon DEF FrameLoop
  <2> HIDE DEF Loop, Raw
  <2>2. r = Raw(r)
    BY <1>5, <1>6, <2>1, Zenon
  <2> QED
    BY <1>5, <2>2
<1>8. r[0] = s /\ \A k \in 1 .. 9 : r[k] = Distribute(e, r[k - 1])
  BY <1>7
<1>9. r[0] \in Shares(n, e, all)
  BY <1>8
<1> HIDE DEF S, T, Loop, Raw
<1> QED
  BY <1>8, <1>9, NineRounds

\* A power of two is divided by a smaller one without a remainder.
LEMMA PowersDivide ==
    ASSUME NEW a \in 0 .. 9, NEW b \in 0 .. 9, Power(b) <= Power(a)
    PROVE  \E c \in 0 .. 9 : Power(a) = Power(b) * Power(c) /\ Power(a) \div Power(b) = Power(c)
<1>1. b <= a
  BY PowersGrow, PowerIsPositive
<1> DEFINE Good == {d \in Nat : b + d <= a => Power(b + d) = Power(b) * Power(d)}
<1>2. 0 \in Good
  <2>1. Power(b) * Power(0) = Power(b)
    <3>1. Power(b) \in Nat /\ Power(0) = 1
      <4>1. Power(0) = 1
        BY DoublePower, 0 \in 0 .. 9
      <4> QED
        BY <4>1, PowerIsPositive
    <3> QED
      BY <3>1
  <2> QED
    BY <2>1
<1>3. ASSUME NEW d \in Nat, d \in Good PROVE d + 1 \in Good
  <2> SUFFICES ASSUME b + (d + 1) <= a PROVE Power(b + (d + 1)) = Power(b) * Power(d + 1)
    OBVIOUS
  <2>1. PICK k, l \in 0 .. 9 : k = b + d /\ l = d
    OBVIOUS
  <2>2. k + 1 = b + (d + 1)
    BY <2>1
  <2>3. Power(k + 1) = 2 * Power(k) /\ Power(l + 1) = 2 * Power(l)
    BY DoublePower
  <2>4. PICK x, y, z \in Nat : x = Power(b) /\ y = Power(l) /\ z = Power(k)
    BY PowerIsPositive
  <2>5. z = x * y
    BY <1>3, <2>1, <2>4
  <2>6. 2 * (x * y) = x * (2 * y)
    OBVIOUS
  <2>7. Power(k + 1) = x * (2 * y)
    BY <2>3, <2>4, <2>5, <2>6
  <2> QED
    BY <2>1, <2>2, <2>3, <2>4, <2>7
<1>4. PICK c \in 0 .. 9 : b + c = a
  BY <1>1, a - b \in 0 .. 9
<1>5. c \in Good
  <2> HIDE DEF Good
  <2>1. Nat \subseteq Good
    BY <1>2, <1>3, SetInduction
  <2> QED
    BY <2>1
<1>6. PICK x, y \in Nat \ {0} : x = Power(b) /\ y = Power(c)
  BY PowerIsPositive
<1>7. Power(a) = x * y
  <2>1. Power(b + c) = Power(b) * Power(c)
    BY <1>4, <1>5
  <2> QED
    BY <1>4, <1>6, <2>1
<1>8. (x * y + 0) \div x = y
  BY Quotient, 0 \in Nat
<1>9. x * y + 0 = x * y
  <2>1. PICK m \in Nat : m = x * y
    OBVIOUS
  <2> QED
    BY <2>1
<1> QED
  BY <1>6, <1>7, <1>8, <1>9

\* There is a power of two that has as many bits.
LEMMA BitFloorIs ==
    ASSUME NEW x \in Nat \ {0}, x <= 512
    PROVE  \E b \in 0 .. 9 : BitFloor(x) = Power(b) /\ Power(b) <= x
<1> DEFINE S == {2^k : k \in 0 .. 9}
<1>1. \E b \in 0 .. 9 : Power(b) <= x /\ x < 2 * Power(b)
  <2>1. \/ (1 <= x /\ x < 2) \/ (2 <= x /\ x < 4) \/ (4 <= x /\ x < 8) \/ (8 <= x /\ x < 16) \/ (16 <= x /\ x < 32)
        \/ (32 <= x /\ x < 64) \/ (64 <= x /\ x < 128) \/ (128 <= x /\ x < 256) \/ (256 <= x /\ x < 512) \/ x = 512
    OBVIOUS
  <2>2. /\ Power(0) = 1 /\ Power(1) = 2 /\ Power(2) = 4 /\ Power(3) = 8 /\ Power(4) = 16 /\ Power(5) = 32
        /\ Power(6) = 64 /\ Power(7) = 128 /\ Power(8) = 256 /\ Power(9) = 512
    BY DEF Power
  <2>3. /\ 0 \in 0 .. 9 /\ 1 \in 0 .. 9 /\ 2 \in 0 .. 9 /\ 3 \in 0 .. 9 /\ 4 \in 0 .. 9
        /\ 5 \in 0 .. 9 /\ 6 \in 0 .. 9 /\ 7 \in 0 .. 9 /\ 8 \in 0 .. 9 /\ 9 \in 0 .. 9
    OBVIOUS
  <2> QED
    BY <2>1, <2>2, <2>3
<1>2. \A b \in 0 .. 9 : Power(b) \in S
  BY DEF Power
<1>3. \A p \in S : \E b \in 0 .. 9 : p = Power(b)
  BY DEF Power
<1>4. BitFloor(x) = CHOOSE p \in S : p <= x /\ x < 2 * p
  BY Zenon DEF BitFloor
<1> HIDE DEF S
<1>5. \E p \in S : p <= x /\ x < 2 * p
  BY <1>1, <1>2
<1>6. BitFloor(x) \in S /\ BitFloor(x) <= x
  BY <1>4, <1>5
<1> QED
  BY <1>3, <1>6

\* The frame with which getFrameSpec begins, and what is left of its elements.
LEMMA FirstFrameIs ==
    ASSUME NEW n \in Nat \ {0}, NEW e \in Positive(n), NEW width \in Nat \ {0}, width <= FrameElements,
           NEW f, f = FirstFrame(e, width)
    PROVE  /\ f \in Positive(n) /\ f[n] \in Nat \ {0}
           /\ [f |-> f, left |-> FrameElements \div f[n]] \in Shares(n, e, FrameElements)
<1>1. PICK all \in Nat \ {0}, a \in 0 .. 9 : all = FrameElements /\ all = Power(a) /\ all <= 512
  <2>1. PICK k \in 0 .. 9 : FrameElements = 2^k
    BY LaunchAssumption
  <2>2. Power(k) \in Nat \ {0} /\ Power(k) <= 512
    <3>1. Power(9) = 512 /\ (k # 9 => 2 * Power(k) <= Power(9))
      BY Powers, PowersGrow
    <3> QED
      BY <3>1, PowerIsPositive
  <2> QED
    BY <2>1, <2>2 DEF Power
<1>2. Len(e) = n /\ DOMAIN e = 1 .. n /\ n \in 1 .. n /\ e[n] \in Nat \ {0}
  BY ProductIsPositive DEF Positive
<1>3. PICK m \in Nat \ {0} : m = (IF e[n] < width THEN e[n] ELSE width) /\ m <= e[n] /\ m <= all
  BY <1>1, <1>2
<1>4. PICK b \in 0 .. 9 : BitFloor(m) = Power(b) /\ Power(b) <= m
  <2>1. m <= 512
    BY <1>1, <1>3
  <2> QED
    BY <2>1, BitFloorIs
<1>5. PICK fast \in Nat \ {0} : fast = Power(b)
  BY PowerIsPositive
<1>6. f = [[d \in 1 .. n |-> 1] EXCEPT ![n] = fast]
  BY <1>2, <1>3, <1>4, <1>5 DEF FirstFrame, Fill
<1>7. PICK ones : ones = [d \in 1 .. n |-> 1] /\ ones \in [1 .. n -> Nat]
  BY [d \in 1 .. n |-> 1] \in [1 .. n -> Nat]
<1>8. f \in Positive(n) /\ \A d \in 1 .. n : f[d] = IF d = n THEN fast ELSE 1
  BY <1>6 DEF Positive
<1>9. Product(f) = fast
  <2>1. Product(ones) = 1
    BY <1>7, ProductOfOnes
  <2>2. PICK g \in [1 .. n -> Nat], o \in [1 .. n -> Nat] : g = f /\ o = ones
    BY <1>7, <1>8 DEF Positive
  <2>3. \A k \in 1 .. n : k # n => g[k] = o[k]
    BY <1>7, <1>8, <2>2
  <2>4. Product(o) \in Nat /\ Product(g) \in Nat /\ Product(g) * o[n] = Product(o) * g[n]
    <3>1. n \in 1 .. n /\ n \in Nat
      BY <1>2
    <3> QED
      BY <2>3, <3>1, ProductOfReplaced
  <2>5. o[n] = 1 /\ g[n] = fast
    BY <1>2, <1>7, <1>8, <2>2
  <2> QED
    BY <2>1, <2>2, <2>4, <2>5
<1>10. f \in Frames(n, e)
  <2>1. ASSUME NEW d \in 1 .. n PROVE f[d] <= e[d] /\ \E i \in 0 .. 9 : f[d] = Power(i)
    <3>1. CASE d = n
      BY <1>2, <1>3, <1>4, <1>5, <1>8, <3>1
    <3>2. CASE d # n
      <4>1. f[d] = 1 /\ e[d] \in Nat \ {0}
        BY <1>8, <3>2 DEF Positive
      <4>2. Power(0) = 1 /\ 0 \in 0 .. 9
        BY DoublePower, 0 \in 0 .. 9
      <4> QED
        BY <4>1, <4>2
    <3> QED
      BY <3>1, <3>2
  <2> QED
    BY <1>8, <2>1 DEF Frames
<1>11. PICK c \in 0 .. 9 : Power(a) = Power(b) * Power(c) /\ Power(a) \div Power(b) = Power(c)
  <2>1. Power(b) <= Power(a)
    BY <1>1, <1>3, <1>4, <1>5
  <2> QED
    BY <2>1, PowersDivide
<1>12. PICK left \in Nat : left = Power(c)
  BY PowerIsPositive
<1>13. FrameElements \div f[n] = left /\ Product(f) * left = FrameElements
  BY <1>1, <1>2, <1>5, <1>8, <1>9, <1>11, <1>12
<1> QED
  BY <1>2, <1>5, <1>8, <1>10, <1>12, <1>13 DEF Shares

\* getFrameSpec: powers of two within the extents, as many elements as a frame has
\* or as the extents have room for.
LEMMA FrameExtentsAre ==
    ASSUME NEW n \in Nat \ {0}, NEW e \in Positive(n), NEW width \in Nat \ {0}, width <= FrameElements,
           NEW f, f = FrameExtents(e, width)
    PROVE  /\ f \in Frames(n, e) /\ Product(f) <= FrameElements
           /\ Product(f) = FrameElements \/ \A d \in 1 .. n : e[d] < 2 * f[d]
<1>1. PICK g, left, s : g = FirstFrame(e, width) /\ left = FrameElements \div g[n] /\ s = [f |-> g, left |-> left]
  OBVIOUS
<1>2. s \in Shares(n, e, FrameElements)
  BY <1>1, FirstFrameIs
<1>3. Len(e) = n
  BY ProductIsPositive
<1>4. PICK r : r = FrameLoop(e, s.f, s.left)
  OBVIOUS
<1>5. f = r[9].f
  BY <1>1, <1>3, <1>4 DEF FrameExtents
<1>6. PICK all \in Nat \ {0} : all = FrameElements /\ all <= 512
  <2>1. PICK k \in 0 .. 9 : FrameElements = 2^k
    BY LaunchAssumption
  <2>2. Power(k) \in Nat \ {0} /\ Power(k) <= 512
    <3>1. Power(9) = 512 /\ (k # 9 => 2 * Power(k) <= Power(9))
      BY Powers, PowersGrow
    <3> QED
      BY <3>1, PowerIsPositive
  <2> QED
    BY <2>1, <2>2 DEF Power
<1>7. PICK t \in Shares(n, e, all) : t = s
  BY <1>2, <1>6
<1>8. r[9] \in Shares(n, e, all) /\ ~ Active(e, r[9])
  <2>1. r = FrameLoop(e, t.f, t.left)
    BY <1>4, <1>7
  <2> QED
    BY <1>6, <2>1, FrameLoopIs
<1>9. PICK h \in Positive(n), over \in Nat, i \in 0 .. 9 :
          /\ r[9].f = h /\ r[9].left = over /\ over = Power(i) /\ h \in Frames(n, e)
          /\ Product(h) * over = all
  BY <1>8 DEF Shares, Frames
<1>10. PICK p, q \in Nat \ {0} : p = Product(h) /\ q = over
  <2>1. Product(h) \in Nat \ {0}
    BY ProductIsPositive
  <2>2. Power(i) \in Nat \ {0}
    BY PowerIsPositive
  <2> QED
    BY <1>9, <2>1, <2>2
<1>11. p * q = all
  BY <1>9, <1>10
<1>12. p <= all
  <2>1. 1 * p <= q * p
    BY <1>10, ProductOrder
  <2>2. 1 * p = p /\ q * p = p * q
    OBVIOUS
  <2> QED
    BY <1>11, <2>1, <2>2
<1>13. CASE over > 1
  <2>1. ~ CanDouble(e, h, WidestDim(e, h))
    BY <1>8, <1>9, <1>13 DEF Active
  <2>2. \A d \in 1 .. n : e[d] < 2 * h[d]
    BY <2>1, WidestHasRoom
  <2> QED
    BY <1>5, <1>6, <1>9, <1>10, <1>12, <2>2
<1>14. CASE ~ (over > 1)
  <2>1. q = 1
    BY <1>10, <1>14
  <2>2. p = all
    BY <1>11, <2>1
  <2> QED
    BY <1>5, <1>6, <1>9, <1>10, <2>2
<1> QED
  BY <1>13, <1>14

\* What is claimed of a frame and a thread specification.
FrameHolds(j, f, blocks) ==
    LET k == Times(Times(blocks, f), [Fill(f, 1) EXCEPT ![Len(f)] = j.perItem])
    IN  /\ Product(f) <= FrameElements
        /\ \A d \in DOMAIN f : /\ IsPowerOfTwo(f[d]) /\ f[d] <= j.extents[d]
                               /\ k[d] <= j.extents[d] \/ blocks[d] = 1
        /\ \/ Product(f) = FrameElements
           \/ \A d \in 1..(Len(f) - 1) : 2 * f[d] > j.extents[d]
GridHolds(j, f, threads) ==
    /\ j.api \notin HostApis => Product(threads) <= j.limit
    /\ \A d \in DOMAIN f : IsPowerOfTwo(f[d]) => IsPowerOfTwo(threads[d])
SpecHolds(j, f, g) ==
    /\ j.spec = "extent" => FrameHolds(j, f.threads, f.blocks)
    /\ j.spec # "thread" => GridHolds(j, f.threads, g.threads)

\* A frame with the elements of its items.
Scaled(f, n, m) == [f EXCEPT ![n] = @ * m]

\* Frames are as many as the extents hold, one at least.
LEMMA NumFramesCover ==
    ASSUME NEW n \in Nat \ {0}, NEW e \in Positive(n), NEW f \in Positive(n), NEW m \in Nat \ {0}
    PROVE  /\ NumFrames(e, Scaled(f, n, m)) \in Positive(n) /\ Scaled(f, n, m) \in Positive(n)
           /\ \A d \in 1 .. n : \/ NumFrames(e, Scaled(f, n, m))[d] * Scaled(f, n, m)[d] <= e[d]
                                \/ NumFrames(e, Scaled(f, n, m))[d] = 1
<1> DEFINE w == Scaled(f, n, m)
           b == NumFrames(e, w)
<1>0. w = Scaled(f, n, m) /\ b = NumFrames(e, w)
  OBVIOUS
<1>1. w \in Positive(n) /\ DOMAIN w = 1 .. n
  <2>1. \A d \in 1 .. n : f[d] \in Nat \ {0} /\ f[d] * m \in Nat \ {0}
    <3>1. ASSUME NEW d \in 1 .. n PROVE f[d] \in Nat \ {0} /\ f[d] * m \in Nat \ {0}
      <4>1. PICK x \in Nat \ {0} : x = f[d]
        BY DEF Positive
      <4>2. x * m \in Nat \ {0}
        <5>1. 1 * m <= x * m
          BY <4>1, ProductOrder
        <5>2. 1 * m = m /\ x * m \in Nat
          OBVIOUS
        <5> QED
          BY <5>1, <5>2
      <4> QED
        BY <4>1, <4>2
    <3> QED
      BY <3>1
  <2>2. DOMAIN w = 1 .. n /\ \A d \in 1 .. n : w[d] = IF d = n THEN f[n] * m ELSE f[d]
    BY DEF Positive, Scaled
  <2>3. w = [d \in 1 .. n |-> w[d]]
    BY DEF Positive, Scaled
  <2>4. \A d \in 1 .. n : w[d] \in Nat \ {0}
    BY <2>1, <2>2
  <2> HIDE DEF Positive
  <2>5. w \in [1 .. n -> Nat \ {0}]
    BY <2>3, <2>4
  <2> QED
    BY <2>2, <2>5 DEF Positive
<1>2. b = [d \in 1 .. n |-> MaxOf(e[d] \div w[d], 1)]
  BY <1>1 DEF NumFrames, AtLeastOne
<1> HIDE DEF w, b
<1>3. ASSUME NEW d \in 1 .. n PROVE b[d] \in Nat \ {0} /\ (b[d] * w[d] <= e[d] \/ b[d] = 1)
  <2>1. PICK x \in Nat \ {0}, y \in Nat \ {0} : x = e[d] /\ y = w[d]
    BY <1>1 DEF Positive
  <2>2. PICK q \in Nat, z \in Nat : q = x \div y /\ z < y /\ x = y * q + z
    BY Division
  <2>3. b[d] = IF q < 1 THEN 1 ELSE q
    BY <1>2, <2>1, <2>2 DEF MaxOf
  <2>4. PICK p \in Nat : p = y * q /\ q * y = p
    OBVIOUS
  <2>5. CASE q < 1
    BY <2>3, <2>5
  <2>6. CASE ~ (q < 1)
    <3>1. b[d] = q /\ b[d] * w[d] = q * y
      BY <2>1, <2>3, <2>6
    <3>2. p <= x
      BY <2>2, <2>4
    <3> QED
      BY <2>1, <2>4, <2>6, <3>1, <3>2
  <2> QED
    BY <2>5, <2>6
<1>4. b \in [1 .. n -> Nat \ {0}]
  BY <1>2, <1>3
<1> QED
  BY <1>0, <1>1, <1>3, <1>4 DEF Positive

\* getFrameSpec, getSimdFrameSpec
LEMMA FrameSpecIsUsable ==
    ASSUME NEW n \in Nat \ {0}, NEW j, j.extents \in Positive(n), j.warp \in 1 .. FrameElements, j.perItem \in Nat \ {0},
           NEW f, f = FrameSpecFor(j)
    PROVE  f.threads \in Positive(n) /\ f.blocks \in Positive(n) /\ FrameHolds(j, f.threads, f.blocks)
<1>1. PICK e \in Positive(n), width \in Nat \ {0}, m \in Nat \ {0} :
          e = j.extents /\ width = j.warp /\ m = j.perItem /\ width <= FrameElements
  <2>1. FrameElements \in Nat
    <3>1. PICK k \in 0 .. 9 : FrameElements = 2^k
      BY LaunchAssumption
    <3>2. Power(k) \in Nat
      BY PowerIsPositive
    <3> QED
      BY <3>1, <3>2 DEF Power
  <2> QED
    BY <2>1
<1>2. PICK g : g = FrameExtents(e, width)
  OBVIOUS
<1>3. /\ g \in Frames(n, e) /\ Product(g) <= FrameElements
      /\ Product(g) = FrameElements \/ \A d \in 1 .. n : e[d] < 2 * g[d]
  BY <1>1, <1>2, FrameExtentsAre
<1>4. PICK h \in Positive(n) : h = g /\ \A d \in 1 .. n : h[d] <= e[d] /\ \E i \in 0 .. 9 : h[d] = Power(i)
  BY <1>3 DEF Frames
<1>5. Len(h) = n /\ DOMAIN h = 1 .. n
  BY ProductIsPositive
<1>6. PICK w, b : w = Scaled(h, n, m) /\ b = NumFrames(e, w)
  OBVIOUS
<1>7. b \in Positive(n) /\ w \in Positive(n) /\ \A d \in 1 .. n : b[d] * w[d] <= e[d] \/ b[d] = 1
  <2>1. /\ NumFrames(e, Scaled(h, n, m)) \in Positive(n) /\ Scaled(h, n, m) \in Positive(n)
        /\ \A d \in 1 .. n : \/ NumFrames(e, Scaled(h, n, m))[d] * Scaled(h, n, m)[d] <= e[d]
                             \/ NumFrames(e, Scaled(h, n, m))[d] = 1
    BY NumFramesCover
  <2> QED
    BY <1>6, <2>1
<1>8. f.threads = h /\ f.blocks = b
  BY <1>1, <1>2, <1>4, <1>5, <1>6 DEF FrameSpecFor, Scaled
<1> DEFINE k == Times(Times(b, h), [Fill(h, 1) EXCEPT ![n] = m])
<1>9. ASSUME NEW d \in 1 .. n PROVE k[d] = b[d] * w[d]
  <2>1. DOMAIN b = 1 .. n /\ n \in 1 .. n
    BY <1>7 DEF Positive
  <2>2. k[d] = (b[d] * h[d]) * (IF d = n THEN m ELSE 1)
    BY <1>5, <2>1 DEF Times, Fill
  <2>3. w[d] = IF d = n THEN h[n] * m ELSE h[d]
    BY <1>5, <1>6 DEF Scaled
  <2>4. PICK x, y \in Nat : x = b[d] /\ y = h[d]
    BY <1>7 DEF Positive
  <2>5. (x * y) * m = x * (y * m) /\ (x * y) * 1 = x * y
    <3>1. (x * y) * m = x * (y * m)
      OBVIOUS
    <3>2. PICK z \in Nat : z = x * y
      OBVIOUS
    <3> QED
      BY <3>1, <3>2
  <2> HIDE DEF k
  <2> QED
    BY <2>2, <2>3, <2>4, <2>5
<1>10. \A d \in 1 .. n : IsPowerOfTwo(h[d])
  <2>1. ASSUME NEW d \in 1 .. n PROVE IsPowerOfTwo(h[d])
    <3>1. PICK i \in 0 .. 9 : h[d] = 2^i
      BY <1>4 DEF Power
    <3>2. i \in 0 .. 10
      OBVIOUS
    <3> QED
      BY <3>1, <3>2 DEF IsPowerOfTwo
  <2> QED
    BY <2>1
<1>11. \A d \in 1 .. n : e[d] \in Nat /\ h[d] \in Nat
  BY DEF Positive
<1> HIDE DEF k
<1>12. FrameHolds(j, h, b)
  <2>1. \A d \in 1 .. n : k[d] <= e[d] \/ b[d] = 1
    BY <1>7, <1>9
  <2>2. Product(h) = FrameElements \/ \A d \in 1 .. n - 1 : 2 * h[d] > e[d]
    BY <1>3, <1>4, <1>11
  <2>3. \A d \in DOMAIN h : /\ IsPowerOfTwo(h[d]) /\ h[d] <= j.extents[d]
                            /\ k[d] <= j.extents[d] \/ b[d] = 1
    BY <1>1, <1>4, <1>5, <1>10, <2>1
  <2> QED
    BY <1>1, <1>3, <1>4, <1>5, <2>2, <2>3 DEF FrameHolds, k
<1> QED
  BY <1>4, <1>7, <1>8, <1>12

\* AdjustThreadSpec of the devices.
LEMMA GridIsUsable ==
    ASSUME NEW n \in Nat \ {0}, NEW j, j.limit \in Nat \ {0},
           NEW f, f.threads \in Positive(n), f.blocks \in Positive(n), NEW g, g = AdjustThreadSpec(j, f)
    PROVE  /\ g.threads \in Positive(n) /\ g.blocks \in Positive(n) /\ GridHolds(j, f.threads, g.threads)
           /\ j.api \in HostApis => g.threads = [d \in 1 .. n |-> 1]
<1>1. PICK v \in Positive(n), limit \in Nat \ {0} : v = f.threads /\ limit = j.limit
  OBVIOUS
<1>2. DOMAIN v = 1 .. n /\ DOMAIN f.blocks = 1 .. n
  BY ProductIsPositive DEF Positive
<1>3. CASE j.api \in HostApis
  <2>1. g.threads = [d \in 1 .. n |-> 1] /\ (g.blocks = f.blocks \/ g.blocks = [d \in 1 .. n |-> 1])
    BY <1>1, <1>2, <1>3 DEF AdjustThreadSpec, AdjustOnHost, Fill
  <2>2. [d \in 1 .. n |-> 1] \in Positive(n)
    BY DEF Positive
  <2>3. \A d \in 1 .. n : IsPowerOfTwo(g.threads[d])
    <3>1. Power(0) = 1 /\ 0 \in 0 .. 10
      BY DoublePower, 0 \in 0 .. 9
    <3>2. IsPowerOfTwo(1)
      BY <3>1 DEF IsPowerOfTwo, Power
    <3> QED
      BY <2>1, <3>2
  <2> QED
    BY <1>1, <1>2, <1>3, <2>1, <2>2, <2>3 DEF GridHolds
<1>4. CASE j.api \notin HostApis
  <2>1. g.blocks = f.blocks /\ (g.threads = AdjustConstToLimit(v, limit) \/ g.threads = AdjustToLimit(v, limit))
    BY <1>1, <1>4 DEF AdjustThreadSpec, AdjustOnGpu
  <2>2. AdjustConstToLimit(v, limit) \in Halved(n, v) /\ Product(AdjustConstToLimit(v, limit)) <= limit
    BY AdjustedConstIsWithin
  <2>3. AdjustToLimit(v, limit) \in Halved(n, v) /\ Product(AdjustToLimit(v, limit)) <= limit
    BY AdjustedIsWithin
  <2>4. g.threads \in Halved(n, v) /\ Product(g.threads) <= limit
    BY <2>1, <2>2, <2>3
  <2> QED
    BY <1>1, <1>2, <1>4, <2>1, <2>4 DEF GridHolds, Halved
<1> QED
  BY <1>3, <1>4

\* Blocks and threads of a launch have the same dimensions, and the executors of the
\* host have blocks of one thread or refuse.
LaunchHolds(j) ==
    \E n \in Nat \ {0} :
        /\ GridOf(j).blocks \in Positive(n) /\ GridOf(j).threads \in Positive(n)
        /\ j.api \in HostApis => j.spec = "thread" \/ GridOf(j).threads = [d \in 1 .. n |-> 1]

LEMMA LaunchIsUsable ==
    ASSUME NEW j, LegalSpec(j)
    PROVE  LaunchHolds(j) /\ SpecHolds(j, FrameOf(j), GridOf(j))
<1>1. CASE j.spec = "thread"
  <2>1. GridOf(j).blocks = j.blocks /\ GridOf(j).threads = j.threads
    BY <1>1 DEF GridOf, GivenSpec
  <2>2. PICK n : n = Len(j.blocks)
    OBVIOUS
  <2>3. n \in Nat \ {0} /\ j.blocks \in Positive(n) /\ j.threads \in Positive(n)
    BY <1>1, <2>2 DEF LegalSpec, IsExtents, Positive
  <2> QED
    BY <1>1, <2>1, <2>3 DEF LaunchHolds, SpecHolds
<1>2. ASSUME j.spec # "thread", NEW n \in Nat \ {0}, NEW f, f = FrameOf(j), f.threads \in Positive(n), f.blocks \in Positive(n),
             j.spec = "extent" => FrameHolds(j, f.threads, f.blocks)
      PROVE  LaunchHolds(j) /\ SpecHolds(j, FrameOf(j), GridOf(j))
  <2>1. j.limit \in Nat \ {0}
    BY <1>2 DEF LegalSpec
  <2>2. PICK g : g = AdjustThreadSpec(j, f)
    OBVIOUS
  <2>3. g = GridOf(j)
    BY <1>2, <2>2 DEF GridOf
  <2>4. /\ g.threads \in Positive(n) /\ g.blocks \in Positive(n) /\ GridHolds(j, f.threads, g.threads)
        /\ j.api \in HostApis => g.threads = [d \in 1 .. n |-> 1]
    BY <1>2, <2>1, <2>2, GridIsUsable
  <2> QED
    BY <1>2, <2>3, <2>4 DEF LaunchHolds, SpecHolds
<1>3. CASE j.spec = "extent"
  <2>1. PICK n, f : n = Len(j.extents) /\ f = FrameSpecFor(j)
    OBVIOUS
  <2>2. n \in Nat \ {0} /\ j.extents \in Positive(n) /\ j.warp \in 1 .. FrameElements /\ j.perItem \in Nat \ {0}
    BY <1>3, <2>1 DEF LegalSpec, IsExtents, Positive
  <2>3. f.threads \in Positive(n) /\ f.blocks \in Positive(n) /\ FrameHolds(j, f.threads, f.blocks)
    BY <2>1, <2>2, FrameSpecIsUsable
  <2>4. f = FrameOf(j)
    BY <1>3, <2>1 DEF FrameOf
  <2> QED
    BY <1>2, <1>3, <2>2, <2>3, <2>4
<1>4. CASE j.spec \in {"frame", "constFrame"}
  <2>1. PICK n, f : n = Len(j.blocks) /\ f = GivenSpec(j)
    OBVIOUS
  <2>2. n \in Nat \ {0} /\ j.blocks \in Positive(n) /\ j.threads \in Positive(n)
    BY <1>4, <2>1 DEF LegalSpec, IsExtents, Positive
  <2>3. f = FrameOf(j) /\ f.threads = j.threads /\ f.blocks = j.blocks
    BY <1>4, <2>1 DEF FrameOf, GivenSpec
  <2> QED
    BY <1>2, <1>4, <2>2, <2>3
<1> QED
  BY <1>1, <1>3, <1>4 DEF LegalSpec

\* NativeIndices and LayerIdx of an interface.
NativeOf(api, v) ==
    LET n == NativeExtents(v)
        b == Dim3(n)
    IN  CASE api = "cuda" -> [x : 0..(b.x - 1), y : 0..(b.y - 1), z : 0..(b.z - 1)]
          [] api = "sycl" -> IndicesBelow(n)
          [] api \in {"serial", "cpuSerial"} -> IndicesBelow(v)
          [] api \in {"omp", "tbb"} -> 0..(Product(v) - 1)

LayerOf(api, v, native) ==
    CASE api = "cuda" -> IF Len(v) <= 3 THEN RShrink(v, native) ELSE MapToND(v, native.x)
      [] api = "sycl" -> SyclIdx(v, native)
      [] api \in {"serial", "cpuSerial"} -> native
      [] api \in {"omp", "tbb"} -> MapToND(v, native)

Apis6 == HostApis \union {"cuda", "sycl"}

\* Every index is that of one native index.
OneToOne(api, v) ==
    /\ {LayerOf(api, v, t) : t \in NativeOf(api, v)} = IndicesBelow(v)
    /\ \A s, t \in NativeOf(api, v) : LayerOf(api, v, s) = LayerOf(api, v, t) => s = t

LEMMA CudaIndices ==
    ASSUME NEW v
    PROVE  LET b == Dim3(NativeExtents(v))
           IN  NativeOf("cuda", v) = [x : 0..(b.x - 1), y : 0..(b.y - 1), z : 0..(b.z - 1)]
BY DEF NativeOf

\* The linear index of a block with more than three dimensions.
LEMMA LinearIsOneToOne ==
    ASSUME NEW n \in Nat \ {0}, NEW v \in Positive(n)
    PROVE  /\ {MapToND(v, k) : k \in 0 .. Product(v) - 1} = IndicesBelow(v)
           /\ \A k, l \in 0 .. Product(v) - 1 : MapToND(v, k) = MapToND(v, l) => k = l
           /\ Product(v) \in Nat \ {0}
<1>1. v \in [1 .. n -> Nat \ {0}]
  BY DEF Positive
<1> QED
  BY <1>1, MapToNDIsOneToOne DEF IndicesBelow

\* Indices of three dimensions at most: the components behind the first ones.
LEMMA ShrunkIs ==
    ASSUME NEW n \in 1 .. 3, NEW v \in Positive(n), NEW t \in [x : Nat, y : Nat, z : Nat]
    PROVE  /\ n = 1 => RShrink(v, t) = <<t.x>>
           /\ n = 2 => RShrink(v, t) = <<t.y, t.x>>
           /\ n = 3 => RShrink(v, t) = <<t.z, t.y, t.x>>
<1>1. PICK x, y, z \in Nat : x = t.x /\ y = t.y /\ z = t.z
  OBVIOUS
<1>2. PICK s \in [1 .. 3 -> Nat] : s = <<z, y, x>>
  BY <<z, y, x>> \in [1 .. 3 -> Nat]
<1>3. s[1] = z /\ s[2] = y /\ s[3] = x
  BY <1>2
<1>4. Len(v) = n
  BY ProductIsPositive, n \in Nat \ {0}
<1>5. RShrink(v, t) = SubSeq(s, 4 - n, 3)
  BY <1>1, <1>2, <1>4 DEF RShrink
<1>6. SubSeq(s, 4 - n, 3) = [k \in 1 .. n |-> s[k + (3 - n)]]
  OBVIOUS
<1>7. PICK u : u = SubSeq(s, 4 - n, 3)
  OBVIOUS
<1>8. RShrink(v, t) = u /\ u = [k \in 1 .. n |-> s[k + (3 - n)]]
  BY <1>5, <1>6, <1>7
<1>9. ASSUME n = 1 PROVE u = <<t.x>>
  <2>1. u \in [1 .. 1 -> Nat] /\ u[1] = x
    BY <1>3, <1>8, <1>9
  <2>2. u = <<x>>
    BY <2>1
  <2> QED
    BY <1>1, <2>2
<1>10. ASSUME n = 2 PROVE u = <<t.y, t.x>>
  <2>1. u \in [1 .. 2 -> Nat] /\ u[1] = y /\ u[2] = x
    BY <1>3, <1>8, <1>10
  <2>2. u = <<y, x>>
    BY <2>1
  <2> QED
    BY <1>1, <2>2
<1>11. ASSUME n = 3 PROVE u = <<t.z, t.y, t.x>>
  <2>1. u \in [1 .. 3 -> Nat] /\ u[1] = z /\ u[2] = y /\ u[3] = x
    BY <1>3, <1>8, <1>11
  <2>2. u = <<z, y, x>>
    BY <2>1
  <2> QED
    BY <1>1, <2>2
<1> QED
  BY <1>8, <1>9, <1>10, <1>11

\* CUDA/HIP with a native grid of as many dimensions.
LEMMA Dim3IsOneToOne ==
    ASSUME NEW n \in 1 .. 3, NEW v \in Positive(n)
    PROVE  OneToOne("cuda", v)
<1>1. n \in Nat \ {0}
  OBVIOUS
<1>2. Len(v) = n /\ DOMAIN v = 1 .. n /\ IndicesBelow(v) = Box(v)
  BY <1>1, ProductIsPositive, MapToNDIsOneToOne DEF Positive
<1>3. PICK a, b, c \in Nat \ {0} :
          /\ a = v[n] /\ b = (IF n >= 2 THEN v[n - 1] ELSE 1) /\ c = (IF n >= 3 THEN v[n - 2] ELSE 1)
  BY DEF Positive
<1> DEFINE N == [x : 0 .. a - 1, y : 0 .. b - 1, z : 0 .. c - 1]
<1>4. NativeOf("cuda", v) = N
  <2>1. NativeExtents(v) = v
    BY <1>2 DEF NativeExtents
  <2>2. Dim3(v) = [x |-> a, y |-> b, z |-> c]
    BY <1>2, <1>3 DEF Dim3
  <2>3. PICK d : d = Dim3(NativeExtents(v))
    OBVIOUS
  <2>4. NativeOf("cuda", v) = [x : 0..(d.x - 1), y : 0..(d.y - 1), z : 0..(d.z - 1)]
    BY <2>3, CudaIndices
  <2>5. d.x = a /\ d.y = b /\ d.z = c
    BY <2>1, <2>2, <2>3
  <2> QED
    BY <2>4, <2>5
<1>5. \A t : LayerOf("cuda", v, t) = RShrink(v, t)
  BY <1>2 DEF LayerOf
<1>6. \A t \in N : t \in [x : Nat, y : Nat, z : Nat] /\ t.x \in Nat /\ t.y \in Nat /\ t.z \in Nat /\ t.x < a /\ t.y < b /\ t.z < c
                   /\ t = [x |-> t.x, y |-> t.y, z |-> t.z]
  OBVIOUS
<1>7. ASSUME NEW t \in N
      PROVE  /\ n = 1 => RShrink(v, t) = <<t.x>>
             /\ n = 2 => RShrink(v, t) = <<t.y, t.x>>
             /\ n = 3 => RShrink(v, t) = <<t.z, t.y, t.x>>
  BY <1>6, ShrunkIs
<1>8. \A idx : idx \in Box(v) <=> idx \in [1 .. n -> Nat] /\ \A d \in 1 .. n : idx[d] < v[d]
  BY <1>2 DEF Box
<1> HIDE DEF N
<1>9. CASE n = 1
  <2>1. v[1] = a /\ b = 1 /\ c = 1
    BY <1>3, <1>9
  <2>2. ASSUME NEW t \in N PROVE RShrink(v, t) \in Box(v)
    <3>1. RShrink(v, t) = <<t.x>> /\ t.x \in Nat /\ t.x < a
      BY <1>6, <1>7, <1>9
    <3> QED
      BY <1>8, <1>9, <2>1, <3>1
  <2>3. ASSUME NEW idx \in Box(v) PROVE \E t \in N : RShrink(v, t) = idx
    <3>1. idx \in [1 .. 1 -> Nat] /\ idx[1] < a
      BY <1>8, <1>9, <2>1
    <3>2. PICK t : t = [x |-> idx[1], y |-> 0, z |-> 0]
      OBVIOUS
    <3>3. t \in N
      BY <2>1, <3>1, <3>2 DEF N
    <3>4. RShrink(v, t) = <<idx[1]>>
      BY <1>7, <1>9, <3>2, <3>3
    <3> QED
      BY <3>1, <3>3, <3>4
  <2>4. ASSUME NEW s \in N, NEW t \in N, RShrink(v, s) = RShrink(v, t) PROVE s = t
    <3>1. s.x = t.x
      BY <1>7, <1>9, <2>4
    <3>2. s.y = 0 /\ t.y = 0 /\ s.z = 0 /\ t.z = 0
      BY <1>6, <2>1
    <3> QED
      BY <1>6, <3>1, <3>2
  <2>5. {RShrink(v, t) : t \in N} = Box(v)
    BY <2>2, <2>3
  <2> QED
    BY <1>2, <1>4, <1>5, <2>4, <2>5 DEF OneToOne
<1>10. CASE n = 2
  <2>1. v[1] = b /\ v[2] = a /\ c = 1
    BY <1>3, <1>10
  <2>2. ASSUME NEW t \in N PROVE RShrink(v, t) \in Box(v)
    <3>1. RShrink(v, t) = <<t.y, t.x>> /\ t.x \in Nat /\ t.x < a /\ t.y \in Nat /\ t.y < b
      BY <1>6, <1>7, <1>10
    <3> QED
      BY <1>8, <1>10, <2>1, <3>1
  <2>3. ASSUME NEW idx \in Box(v) PROVE \E t \in N : RShrink(v, t) = idx
    <3>1. idx \in [1 .. 2 -> Nat] /\ idx[1] < b /\ idx[2] < a
      BY <1>8, <1>10, <2>1
    <3>2. PICK t : t = [x |-> idx[2], y |-> idx[1], z |-> 0]
      OBVIOUS
    <3>3. t \in N
      BY <2>1, <3>1, <3>2 DEF N
    <3>4. RShrink(v, t) = <<idx[1], idx[2]>>
      BY <1>7, <1>10, <3>2, <3>3
    <3> QED
      BY <3>1, <3>3, <3>4
  <2>4. ASSUME NEW s \in N, NEW t \in N, RShrink(v, s) = RShrink(v, t) PROVE s = t
    <3>1. s.x = t.x /\ s.y = t.y
      BY <1>7, <1>10, <2>4
    <3>2. s.z = 0 /\ t.z = 0
      BY <1>6, <2>1
    <3> QED
      BY <1>6, <3>1, <3>2
  <2>5. {RShrink(v, t) : t \in N} = Box(v)
    BY <2>2, <2>3
  <2> QED
    BY <1>2, <1>4, <1>5, <2>4, <2>5 DEF OneToOne
<1>11. CASE n = 3
  <2>1. v[1] = c /\ v[2] = b /\ v[3] = a
    BY <1>3, <1>11
  <2>2. ASSUME NEW t \in N PROVE RShrink(v, t) \in Box(v)
    <3>1. RShrink(v, t) = <<t.z, t.y, t.x>> /\ t.x \in Nat /\ t.x < a /\ t.y \in Nat /\ t.y < b /\ t.z \in Nat /\ t.z < c
      BY <1>6, <1>7, <1>11
    <3> QED
      BY <1>8, <1>11, <2>1, <3>1
  <2>3. ASSUME NEW idx \in Box(v) PROVE \E t \in N : RShrink(v, t) = idx
    <3>1. idx \in [1 .. 3 -> Nat] /\ idx[1] < c /\ idx[2] < b /\ idx[3] < a
      BY <1>8, <1>11, <2>1
    <3>2. PICK t : t = [x |-> idx[3], y |-> idx[2], z |-> idx[1]]
      OBVIOUS
    <3>3. t \in N
      BY <2>1, <3>1, <3>2 DEF N
    <3>4. RShrink(v, t) = <<idx[1], idx[2], idx[3]>>
      BY <1>7, <1>11, <3>2, <3>3
    <3> QED
      BY <3>1, <3>3, <3>4
  <2>4. ASSUME NEW s \in N, NEW t \in N, RShrink(v, s) = RShrink(v, t) PROVE s = t
    <3>1. s.x = t.x /\ s.y = t.y /\ s.z = t.z
      BY <1>7, <1>11, <2>4
    <3> QED
      BY <1>6, <3>1
  <2>5. {RShrink(v, t) : t \in N} = Box(v)
    BY <2>2, <2>3
  <2> QED
    BY <1>2, <1>4, <1>5, <2>4, <2>5 DEF OneToOne
<1> QED
  BY <1>9, <1>10, <1>11

\* A vector of one component, and its indices.
LEMMA SingleIs ==
    ASSUME NEW m \in Nat \ {0}
    PROVE  <<m>> \in Positive(1) /\ Product(<<m>>) = m /\ IndicesBelow(<<m>>) = {<<k>> : k \in 0 .. m - 1}
<1>1. PICK v : v = <<m>>
  OBVIOUS
<1>2. v \in Positive(1) /\ v[1] = m /\ DOMAIN v = 1 .. 1
  BY <1>1 DEF Positive
<1>3. 1 \in Nat \ {0} /\ 0 \in Nat
  OBVIOUS
<1>4. IndicesBelow(v) = Box(v)
  BY <1>2, <1>3, MapToNDIsOneToOne DEF Positive
<1>5. Box(v) = {<<k>> : k \in 0 .. m - 1}
  <2>1. \A idx : idx \in Box(v) <=> idx \in [1 .. 1 -> Nat] /\ idx[1] < m
    BY <1>2 DEF Box
  <2>2. ASSUME NEW idx \in Box(v) PROVE \E k \in 0 .. m - 1 : idx = <<k>>
    <3>1. idx \in [1 .. 1 -> Nat] /\ idx[1] < m
      BY <2>1
    <3>2. idx = <<idx[1]>> /\ idx[1] \in 0 .. m - 1
      BY <3>1
    <3> QED
      BY <3>2
  <2>3. ASSUME NEW k \in 0 .. m - 1 PROVE <<k>> \in Box(v)
    <3>1. <<k>> \in [1 .. 1 -> Nat] /\ <<k>>[1] < m
      OBVIOUS
    <3> QED
      BY <2>1, <3>1
  <2> QED
    BY <2>2, <2>3
<1>6. Product(v) = m
  <2>1. v \in [1 .. 1 -> Nat] /\ 1 \in Nat
    BY <1>2 DEF Positive
  <2>2. PICK f : Product(v) = f[1] /\ f[0] = 1 /\ \A k \in 1 .. 1 : f[k] = f[k - 1] * v[k]
    BY <2>1, ProductsAreDefined
  <2>3. f[1] = f[1 - 1] * v[1]
    BY <2>2
  <2> QED
    BY <1>2, <2>2, <2>3
<1> QED
  BY <1>1, <1>2, <1>4, <1>5, <1>6

\* BlockLayer, ThreadLayer, Serial, OmpBlocks, TbbBlocks.
LEMMA LayersAreOneToOne ==
    ASSUME NEW n \in Nat \ {0}, NEW v \in Positive(n), NEW api \in Apis6
    PROVE  OneToOne(api, v)
<1>1. Len(v) = n /\ DOMAIN v = 1 .. n
  BY ProductIsPositive
<1>2. PICK p \in Nat \ {0} : p = Product(v)
  BY LinearIsOneToOne
<1>3. /\ {MapToND(v, k) : k \in 0 .. p - 1} = IndicesBelow(v)
      /\ \A k, l \in 0 .. p - 1 : MapToND(v, k) = MapToND(v, l) => k = l
  BY <1>2, LinearIsOneToOne
<1>4. CASE api \in {"serial", "cpuSerial"}
  <2>1. NativeOf(api, v) = IndicesBelow(v) /\ \A t : LayerOf(api, v, t) = t
    BY <1>4 DEF NativeOf, LayerOf
  <2> QED
    BY <2>1 DEF OneToOne
<1>5. CASE api \in {"omp", "tbb"}
  <2>1. NativeOf(api, v) = 0 .. p - 1 /\ \A t : LayerOf(api, v, t) = MapToND(v, t)
    BY <1>2, <1>5 DEF NativeOf, LayerOf
  <2> QED
    BY <1>3, <2>1 DEF OneToOne
<1>6. CASE n <= 3
  <2>1. CASE api = "cuda"
    BY <1>6, <2>1, Dim3IsOneToOne, n \in 1 .. 3
  <2>2. CASE api = "sycl"
    <3>1. NativeOf(api, v) = IndicesBelow(v) /\ \A t : LayerOf(api, v, t) = t
      BY <1>1, <1>6, <2>2 DEF NativeOf, LayerOf, NativeExtents, SyclIdx
    <3> QED
      BY <3>1 DEF OneToOne
  <2> QED
    BY <1>4, <1>5, <2>1, <2>2 DEF Apis6, HostApis
<1>7. CASE ~ (n <= 3)
  <2>1. NativeExtents(v) = <<p>>
    BY <1>1, <1>2, <1>7 DEF NativeExtents
  <2>2. CASE api = "cuda"
    <3>1. Dim3(<<p>>) = [x |-> p, y |-> 1, z |-> 1]
      BY DEF Dim3
    <3> DEFINE N == [x : 0 .. p - 1, y : 0 .. 1 - 1, z : 0 .. 1 - 1]
    <3>2. NativeOf(api, v) = N /\ \A t : LayerOf(api, v, t) = MapToND(v, t.x)
      <4>1. NativeOf(api, v) = N
        <5>1. PICK d : d = Dim3(NativeExtents(v))
          OBVIOUS
        <5>2. NativeOf("cuda", v) = [x : 0..(d.x - 1), y : 0..(d.y - 1), z : 0..(d.z - 1)]
          BY <5>1, CudaIndices
        <5>3. d.x = p /\ d.y = 1 /\ d.z = 1
          BY <2>1, <3>1, <5>1
        <5> QED
          BY <2>2, <5>2, <5>3
      <4> QED
        BY <1>1, <1>7, <2>2, <4>1 DEF LayerOf
    <3>3. \A t \in N : t.x \in 0 .. p - 1 /\ t = [x |-> t.x, y |-> 0, z |-> 0]
      OBVIOUS
    <3>4. \A k \in 0 .. p - 1 : [x |-> k, y |-> 0, z |-> 0] \in N /\ [x |-> k, y |-> 0, z |-> 0].x = k
      OBVIOUS
    <3> HIDE DEF N
    <3>5. {MapToND(v, t.x) : t \in N} = {MapToND(v, k) : k \in 0 .. p - 1}
      BY <3>3, <3>4
    <3>6. ASSUME NEW s \in N, NEW t \in N, MapToND(v, s.x) = MapToND(v, t.x) PROVE s = t
      <4>1. s.x = t.x
        BY <1>3, <3>3, <3>6
      <4> QED
        BY <3>3, <4>1
    <3> QED
      BY <1>3, <3>2, <3>5, <3>6 DEF OneToOne
  <2>3. CASE api = "sycl"
    <3>1. NativeOf(api, v) = {<<k>> : k \in 0 .. p - 1} /\ \A t : LayerOf(api, v, t) = MapToND(v, t[1])
      BY <1>1, <1>7, <2>1, <2>3, SingleIs DEF NativeOf, LayerOf, SyclIdx
    <3> DEFINE N == {<<k>> : k \in 0 .. p - 1}
    <3>2. \A t \in N : t[1] \in 0 .. p - 1 /\ t = <<t[1]>>
      OBVIOUS
    <3>3. \A k \in 0 .. p - 1 : <<k>> \in N /\ <<k>>[1] = k
      OBVIOUS
    <3> HIDE DEF N
    <3>4. {MapToND(v, t[1]) : t \in N} = {MapToND(v, k) : k \in 0 .. p - 1}
      BY <3>2, <3>3
    <3>5. ASSUME NEW s \in N, NEW t \in N, MapToND(v, s[1]) = MapToND(v, t[1]) PROVE s = t
      <4>1. s[1] = t[1]
        BY <1>3, <3>2, <3>5
      <4> QED
        BY <3>2, <4>1
    <3> QED
      BY <1>3, <3>1, <3>4, <3>5 DEF OneToOne, N
  <2> QED
    BY <1>4, <1>5, <2>2, <2>3 DEF Apis6, HostApis
<1> QED
  BY <1>6, <1>7

\* ThreadIdx of an interface.
ThreadOf(api, v, t) == IF api \in HostApis THEN Fill(v, 0) ELSE LayerOf(api, v, t)

\* What a block may consist of: one thread on the host.
Runnable(api, n, v) == v \in Positive(n) /\ (api \in HostApis => v = [d \in 1 .. n |-> 1])

LEMMA ThreadsAreOneToOne ==
    ASSUME NEW n \in Nat \ {0}, NEW api \in Apis6, NEW v, Runnable(api, n, v)
    PROVE  /\ {ThreadOf(api, v, t) : t \in NativeOf(api, v)} = IndicesBelow(v)
           /\ \A s, t \in NativeOf(api, v) : ThreadOf(api, v, s) = ThreadOf(api, v, t) => s = t
<1>1. v \in Positive(n)
  BY DEF Runnable
<1>2. OneToOne(api, v)
  BY <1>1, LayersAreOneToOne
<1>3. CASE api \notin HostApis
  BY <1>2, <1>3 DEF ThreadOf, OneToOne
<1>4. CASE api \in HostApis
  <2>1. v = [d \in 1 .. n |-> 1] /\ DOMAIN v = 1 .. n
    BY <1>4 DEF Runnable
  <2>2. PICK zero : zero = [d \in 1 .. n |-> 0]
    OBVIOUS
  <2>3. Fill(v, 0) = zero
    BY <2>1, <2>2 DEF Fill
  <2>4. Box(v) = {zero}
    <3>1. \A idx : idx \in Box(v) <=> idx \in [1 .. n -> Nat] /\ \A d \in 1 .. n : idx[d] < 1
      BY <2>1 DEF Box
    <3>2. zero \in [1 .. n -> Nat] /\ \A d \in 1 .. n : zero[d] < 1
      BY <2>2
    <3>3. ASSUME NEW idx \in Box(v) PROVE idx = zero
      <4>1. idx \in [1 .. n -> Nat] /\ \A d \in 1 .. n : idx[d] < 1
        BY <3>1
      <4>2. \A d \in 1 .. n : idx[d] = 0
        BY <4>1
      <4> QED
        BY <2>2, <4>1, <4>2
    <3> QED
      BY <3>1, <3>2, <3>3
  <2>5. IndicesBelow(v) = {zero}
    BY <1>1, <2>4, MapToNDIsOneToOne DEF Positive
  <2>6. Product(v) = 1
    BY <2>1, ProductOfOnes
  <2>7. \E s : NativeOf(api, v) = {s}
    <3>1. CASE api \in {"serial", "cpuSerial"}
      BY <2>5, <3>1 DEF NativeOf
    <3>2. CASE api \in {"omp", "tbb"}
      <4>1. NativeOf(api, v) = 0 .. 1 - 1
        BY <2>6, <3>2 DEF NativeOf
      <4>2. 0 .. 1 - 1 = {0}
        OBVIOUS
      <4> QED
        BY <4>1, <4>2
    <3> QED
      BY <1>4, <3>1, <3>2 DEF HostApis
  <2>8. \A t : ThreadOf(api, v, t) = zero
    BY <1>4, <2>3 DEF ThreadOf
  <2> QED
    BY <2>5, <2>7, <2>8
<1> QED
  BY <1>3, <1>4

\* The coordinates that the threads of a block see, and how often.
CoordinatesOf(api, blocks, v, b) ==
    LET threads == NativeOf(api, v)
        idx(t)  == <<LayerOf(api, blocks, b), ThreadOf(api, v, t)>>
    IN  [c \in {idx(t) : t \in threads} |-> Cardinality({t \in threads : idx(t) = c})]

\* Every coordinate of these blocks once.
Counted(api, blocks, v, B) == [c \in {LayerOf(api, blocks, b) : b \in B} \X IndicesBelow(v) |-> 1]

\* Each thread of a block has coordinates of its own.
LEMMA BlockIsCounted ==
    ASSUME NEW n \in Nat \ {0}, NEW api \in Apis6, NEW v, Runnable(api, n, v), NEW blocks, NEW b
    PROVE  CoordinatesOf(api, blocks, v, b) = Counted(api, blocks, v, {b})
<1>1. PICK T, I, x : T = NativeOf(api, v) /\ I = IndicesBelow(v) /\ x = LayerOf(api, blocks, b)
  OBVIOUS
<1> DEFINE idx(t) == <<x, ThreadOf(api, v, t)>>
<1>2. {ThreadOf(api, v, t) : t \in T} = I
  BY <1>1, ThreadsAreOneToOne
<1>3. \A s, t \in T : ThreadOf(api, v, s) = ThreadOf(api, v, t) => s = t
  BY <1>1, ThreadsAreOneToOne
<1>4. {idx(t) : t \in T} = {x} \X I
  <2>1. ASSUME NEW t \in T PROVE idx(t) \in {x} \X I
    BY <1>2
  <2>2. ASSUME NEW c \in {x} \X I PROVE \E t \in T : c = idx(t)
    <3>1. PICK i \in I : c = <<x, i>>
      OBVIOUS
    <3>2. PICK t \in T : i = ThreadOf(api, v, t)
      BY <1>2
    <3> QED
      BY <3>1, <3>2
  <2> QED
    BY <2>1, <2>2
<1>5. ASSUME NEW c \in {idx(t) : t \in T} PROVE Cardinality({t \in T : idx(t) = c}) = 1
  <2>1. PICK s \in T : c = idx(s)
    OBVIOUS
  <2>2. {t \in T : idx(t) = c} = {s}
    BY <1>3, <2>1
  <2> QED
    BY <2>2, FS_Singleton
<1>6. CoordinatesOf(api, blocks, v, b) = [c \in {idx(t) : t \in T} |-> Cardinality({t \in T : idx(t) = c})]
  BY <1>1 DEF CoordinatesOf
<1>7. Counted(api, blocks, v, {b}) = [c \in {x} \X I |-> 1]
  BY <1>1 DEF Counted
<1> HIDE DEF idx
<1> QED
  BY <1>4, <1>5, <1>6, <1>7

\* A block more.
LEMMA CountGrows ==
    ASSUME NEW n \in Nat \ {0}, NEW api \in Apis6, NEW blocks \in Positive(n), NEW v,
           NEW B \in SUBSET NativeOf(api, blocks), NEW b \in NativeOf(api, blocks), b \notin B
    PROVE  Counted(api, blocks, v, B) (+) Counted(api, blocks, v, {b}) = Counted(api, blocks, v, B \union {b})
<1>1. \A s, t \in NativeOf(api, blocks) : LayerOf(api, blocks, s) = LayerOf(api, blocks, t) => s = t
  BY LayersAreOneToOne DEF OneToOne
<1>2. PICK I, x, X : I = IndicesBelow(v) /\ x = LayerOf(api, blocks, b) /\ X = {LayerOf(api, blocks, a) : a \in B}
  OBVIOUS
<1>3. x \notin X
  BY <1>1, <1>2
<1>4. Counted(api, blocks, v, B) = [c \in X \X I |-> 1]
  BY <1>2 DEF Counted
<1>5. Counted(api, blocks, v, {b}) = [c \in {x} \X I |-> 1]
  BY <1>2 DEF Counted
<1>6. Counted(api, blocks, v, B \union {b}) = [c \in (X \union {x}) \X I |-> 1]
  <2>1. {LayerOf(api, blocks, a) : a \in B \union {b}} = X \union {x}
    BY <1>2
  <2> QED
    BY <1>2, <2>1 DEF Counted
<1>7. PICK f, g : f = [c \in X \X I |-> 1] /\ g = [c \in {x} \X I |-> 1]
  OBVIOUS
<1>8. f (+) g = [e \in (X \X I) \union ({x} \X I) |-> (IF e \in X \X I THEN 1 ELSE 0) + (IF e \in {x} \X I THEN 1 ELSE 0)]
  <2>1. DOMAIN f = X \X I /\ DOMAIN g = {x} \X I
    BY <1>7
  <2>2. f (+) g = [e \in DOMAIN f \union DOMAIN g |-> (IF e \in DOMAIN f THEN f[e] ELSE 0) + (IF e \in DOMAIN g THEN g[e] ELSE 0)]
    BY DEF (+)
  <2>3. \A e \in X \X I : f[e] = 1
    BY <1>7
  <2>4. \A e \in {x} \X I : g[e] = 1
    BY <1>7
  <2> QED
    BY <2>1, <2>2, <2>3, <2>4
<1>9. (X \X I) \union ({x} \X I) = (X \union {x}) \X I
  OBVIOUS
<1>10. ASSUME NEW e \in (X \union {x}) \X I
       PROVE  (IF e \in X \X I THEN 1 ELSE 0) + (IF e \in {x} \X I THEN 1 ELSE 0) = 1
  <2>1. PICK y \in X \union {x}, i \in I : e = <<y, i>>
    OBVIOUS
  <2>2. CASE y = x
    BY <1>3, <2>1, <2>2
  <2>3. CASE y # x
    BY <1>3, <2>1, <2>3
  <2> QED
    BY <2>2, <2>3
<1> QED
  BY <1>4, <1>5, <1>6, <1>7, <1>8, <1>9, <1>10

(***************************************************************************)
(* The launch as a state machine.                                           *)
(***************************************************************************)
\* The specification of a launch is the one that is computed for its job; what has
\* been seen are the coordinates of the blocks that are no longer to be started.
Started == NativeOf(job.api, grid.blocks) \ next

RunsInv ==
    /\ LegalJob(job)
    /\ stage \in {"enqueue", "running", "done", "thrown"}
    /\ stage # "enqueue" => frame = FrameOf(job) /\ grid = GridOf(job)
    /\ stage \in {"enqueue", "thrown"} => count = EmptyBag
    /\ stage \in {"running", "done"} =>
         /\ job.api \in HostApis => ~ Refused
         /\ next \in SUBSET NativeOf(job.api, grid.blocks)
         /\ count = Counted(job.api, grid.blocks, grid.threads, Started)
    /\ stage = "done" => next = {}

\* What an enqueued job is launched on.
LEMMA LaunchIsRunnable ==
    ASSUME LegalJob(job), job.api \in HostApis => ~ Refused
    PROVE  /\ job.api \in Apis6
           /\ \E n \in Nat \ {0} : GridOf(job).blocks \in Positive(n) /\ Runnable(job.api, n, GridOf(job).threads)
<1>1. LegalSpec(job)
  BY DEF LegalJob
<1>2. job.api \in Apis6
  BY <1>1 DEF LegalSpec, Apis6
<1>3. LaunchHolds(job)
  BY <1>1, LaunchIsUsable
<1>4. PICK n \in Nat \ {0} :
          /\ GridOf(job).blocks \in Positive(n) /\ GridOf(job).threads \in Positive(n)
          /\ job.api \in HostApis => job.spec = "thread" \/ GridOf(job).threads = [d \in 1 .. n |-> 1]
  BY <1>3 DEF LaunchHolds
<1>5. ASSUME job.api \in HostApis PROVE GridOf(job).threads = [d \in 1 .. n |-> 1]
  <2>1. CASE job.spec # "thread"
    BY <1>4, <1>5, <2>1
  <2>2. CASE job.spec = "thread"
    <3>1. PICK v \in Positive(n) : v = GridOf(job).threads
      BY <1>4
    <3>2. GridOf(job).threads = job.threads
      BY <2>2 DEF GridOf, GivenSpec
    <3>3. Product(v) = 1
      BY <1>5, <2>2, <3>1, <3>2 DEF Refused
    <3>4. ASSUME NEW d \in 1 .. n PROVE v[d] = 1
      <4>1. v[d] <= Product(v)
        BY ComponentBelowProduct
      <4>2. v[d] \in Nat \ {0}
        BY DEF Positive
      <4> QED
        BY <3>3, <4>1, <4>2
    <3>5. v = [d \in 1 .. n |-> v[d]]
      BY DEF Positive
    <3> QED
      BY <3>1, <3>4, <3>5
  <2> QED
    BY <2>1, <2>2
<1> QED
  BY <1>2, <1>4, <1>5 DEF Runnable

\* The operators of the state machine are those of the job's interface.
LEMMA NativeIs ==
    ASSUME NEW v
    PROVE  NativeIndices(v) = NativeOf(job.api, v) /\ NativeIndices(v)' = NativeOf(job.api', v)
BY DEF NativeIndices, NativeOf

LEMMA CoordinatesAre ==
    ASSUME NEW b
    PROVE  Coordinates(b) = CoordinatesOf(job.api, grid.blocks, grid.threads, b)
<1>1. NativeIndices(grid.threads) = NativeOf(job.api, grid.threads)
  BY NativeIs
<1>2. \A v, t : LayerIdx(v, t) = LayerOf(job.api, v, t)
  BY DEF LayerIdx, LayerOf
<1>3. \A t : ThreadIdx(t) = ThreadOf(job.api, grid.threads, t)
  BY <1>2 DEF ThreadIdx, ThreadOf
<1>4. BlockIdx(b) = LayerOf(job.api, grid.blocks, b)
  BY <1>2 DEF BlockIdx
<1> QED
  BY <1>1, <1>3, <1>4 DEF Coordinates, CoordinatesOf

LEMMA RunsInit == Init => RunsInv
<1> SUFFICES ASSUME Init PROVE RunsInv
  OBVIOUS
<1>1. LegalJob(job)
  BY JobsAssumption DEF Init
<1> QED
  BY <1>1 DEF Init, RunsInv

\* Enqueueing.
LEMMA LaunchRunsIt ==
    ASSUME RunsInv, stage = "enqueue", NEW o \in {"running", "thrown"}, Launch(o),
           job.api \in HostApis => (o = "running" => ~ Refused)
    PROVE  RunsInv'
<1>1. job' = job /\ stage' = o /\ frame' = FrameOf(job) /\ grid' = GridOf(job) /\ count' = count
  BY DEF Launch
<1>2. count = EmptyBag /\ LegalJob(job)
  BY DEF RunsInv
<1>3. CASE o = "thrown"
  BY <1>1, <1>2, <1>3 DEF RunsInv
<1>4. CASE o = "running"
  <2>1. next' = NativeOf(job.api, grid'.blocks)
    <3>1. next' = NativeIndices(grid'.blocks)
      BY <1>4 DEF Launch
    <3>2. PICK v : v = grid'.blocks
      OBVIOUS
    <3>3. NativeIndices(v) = NativeOf(job.api, v)
      BY NativeIs
    <3> QED
      BY <3>1, <3>2, <3>3
  <2>2. Started' = {}
    BY <1>1, <2>1 DEF Started
  <2>3. \A api, u, v : Counted(api, u, v, {}) = EmptyBag
    <3>1. ASSUME NEW api, NEW u, NEW v PROVE Counted(api, u, v, {}) = EmptyBag
      <4>1. {LayerOf(api, u, b) : b \in {}} \X IndicesBelow(v) = {}
        OBVIOUS
      <4> QED
        BY <4>1 DEF Counted, EmptyBag, SetToBag
    <3> QED
      BY <3>1
  <2>4. count' = Counted(job.api', grid.blocks', grid.threads', Started')
    BY <1>1, <1>2, <2>2, <2>3
  <2>5. (job.api \in HostApis => ~ Refused)'
    BY <1>1, <1>4 DEF Refused
  <2> QED
    BY <1>1, <1>2, <1>4, <2>1, <2>4, <2>5 DEF RunsInv
<1> QED
  BY <1>3, <1>4

\* A block is started.
LEMMA StartRunsOne ==
    ASSUME RunsInv, NEW w \in Workers, StartBlock(w)
    PROVE  RunsInv'
<1>1. stage = "running" /\ UNCHANGED <<job, stage, frame, grid>>
  BY DEF StartBlock
<1>2. PICK b \in Startable(w) : next' = next \ {b} /\ count' = count (+) Coordinates(b)
  BY DEF StartBlock
<1>3. b \in next
  BY <1>2 DEF Startable
<1>4. PICK api, blocks, v : api = job.api /\ blocks = grid.blocks /\ v = grid.threads
  OBVIOUS
<1>5. /\ LegalJob(job) /\ grid = GridOf(job) /\ (api \in HostApis => ~ Refused)
      /\ next \in SUBSET NativeOf(api, blocks)
      /\ count = Counted(api, blocks, v, Started)
  BY <1>1, <1>4 DEF RunsInv
<1>6. PICK n \in Nat \ {0} : api \in Apis6 /\ blocks \in Positive(n) /\ Runnable(api, n, v)
  BY <1>4, <1>5, LaunchIsRunnable
<1>7. PICK B : B = Started /\ B = NativeOf(api, blocks) \ next
  BY <1>4 DEF Started
<1>8. Coordinates(b) = Counted(api, blocks, v, {b})
  <2>1. Coordinates(b) = CoordinatesOf(api, blocks, v, b)
    BY <1>4, CoordinatesAre
  <2>2. CoordinatesOf(api, blocks, v, b) = Counted(api, blocks, v, {b})
    BY <1>6, BlockIsCounted
  <2> QED
    BY <2>1, <2>2
<1>9. Counted(api, blocks, v, B) (+) Counted(api, blocks, v, {b}) = Counted(api, blocks, v, B \union {b})
  <2>1. B \in SUBSET NativeOf(api, blocks) /\ b \in NativeOf(api, blocks) /\ b \notin B
    BY <1>3, <1>5, <1>7
  <2> QED
    BY <1>6, <2>1, CountGrows
<1>10. Started' = B \union {b}
  <2>1. Started' = NativeOf(api, blocks) \ next'
    BY <1>1, <1>4 DEF Started
  <2> QED
    BY <1>2, <1>3, <1>5, <1>7, <2>1
<1>11. count' = Counted(job.api', grid.blocks', grid.threads', Started')
  BY <1>1, <1>2, <1>4, <1>5, <1>7, <1>8, <1>9, <1>10
<1>12. next' \in SUBSET NativeOf(job.api', grid.blocks')
  BY <1>1, <1>2, <1>4, <1>5
<1>13. (job.api \in HostApis => ~ Refused)'
  BY <1>1, <1>4, <1>5 DEF Refused
<1>14. stage' = "running" /\ frame' = FrameOf(job') /\ grid' = GridOf(job') /\ LegalJob(job')
  BY <1>1, <1>5 DEF RunsInv
<1> QED
  BY <1>11, <1>12, <1>13, <1>14 DEF RunsInv

\* Steps that start nothing.
LEMMA RunsOn ==
    ASSUME RunsInv, UNCHANGED <<job, frame, grid, next, count>>,
           stage' = stage \/ (stage = "running" /\ next = {} /\ stage' = "done")
    PROVE  RunsInv'
<1>1. Started' = Started
  BY DEF Started
<1>2. Refused' = Refused
  BY DEF Refused
<1> QED
  BY <1>1, <1>2 DEF RunsInv

\* Every step keeps the invariant.
LEMMA RunsStep ==
    ASSUME RunsInv, [Next]_vars
    PROVE  RunsInv'
<1>1. CASE EnqueueOnCudaHip
  <2>1. stage = "enqueue" /\ job.api \notin HostApis /\ Launch("running")
    BY <1>1 DEF EnqueueOnCudaHip, HostApis
  <2> QED
    BY <2>1, LaunchRunsIt
<1>2. CASE EnqueueOnSycl
  <2>1. stage = "enqueue" /\ job.api \notin HostApis
    BY <1>2 DEF EnqueueOnSycl, HostApis
  <2>2. PICK o \in {"running", "thrown"} : Launch(o)
    BY <1>2 DEF EnqueueOnSycl
  <2> QED
    BY <2>1, <2>2, LaunchRunsIt
<1>3. CASE EnqueueOnHost
  <2>1. PICK o \in {"running", "thrown"} : o = IF Refused THEN "thrown" ELSE "running"
    OBVIOUS
  <2>2. stage = "enqueue" /\ Launch(o) /\ (o = "running" => ~ Refused)
    BY <1>3, <2>1 DEF EnqueueOnHost
  <2> QED
    BY <2>2, LaunchRunsIt
<1>4. CASE EndKernel
  BY <1>4, RunsOn DEF EndKernel
<1>5. ASSUME NEW w \in Workers, StartBlock(w) PROVE RunsInv'
  BY <1>5, StartRunsOne
<1>6. ASSUME NEW w \in Workers, Declare(w) PROVE RunsInv'
  BY <1>6, RunsOn DEF Declare
<1>7. ASSUME NEW w \in Workers, Synchronise(w) PROVE RunsInv'
  BY <1>7, RunsOn DEF Synchronise
<1>8. ASSUME NEW w \in Workers, EndBlock(w) PROVE RunsInv'
  BY <1>8, RunsOn DEF EndBlock
<1>9. CASE UNCHANGED vars
  BY <1>9, RunsOn DEF vars
<1> QED
  BY <1>1, <1>2, <1>3, <1>4, <1>5, <1>6, <1>7, <1>8, <1>9 DEF Next

\* A launch has the specification that was computed.
LEMMA SpecsAreUsable == RunsInv => SpecIsUsable
<1> SUFFICES ASSUME RunsInv, stage # "enqueue" PROVE SpecIsUsable
  BY DEF SpecIsUsable
<1>1. LegalSpec(job) /\ frame = FrameOf(job) /\ grid = GridOf(job)
  BY DEF RunsInv, LegalJob
<1>2. SpecHolds(job, frame, grid)
  BY <1>1, LaunchIsUsable
<1> QED
  BY <1>2 DEF SpecIsUsable, SpecHolds, FrameHolds, GridHolds

\* When it is done, its blocks have been started, so all coordinates have been seen.
LEMMA ThreadsRunOnce == RunsInv => EveryThreadRunsOnce
<1> SUFFICES ASSUME RunsInv PROVE EveryThreadRunsOnce
  OBVIOUS
<1>1. stage = "thrown" => count = EmptyBag
  BY DEF RunsInv
<1>2. ASSUME stage = "done"
      PROVE  count = [c \in IndicesBelow(grid.blocks) \X IndicesBelow(grid.threads) |-> 1]
  <2>1. PICK api, blocks, v : api = job.api /\ blocks = grid.blocks /\ v = grid.threads
    OBVIOUS
  <2>2. /\ LegalJob(job) /\ grid = GridOf(job) /\ (api \in HostApis => ~ Refused)
        /\ next = {} /\ count = Counted(api, blocks, v, Started)
    BY <1>2, <2>1 DEF RunsInv
  <2>3. PICK n \in Nat \ {0} : api \in Apis6 /\ blocks \in Positive(n)
    BY <2>1, <2>2, LaunchIsRunnable
  <2>4. Started = NativeOf(api, blocks)
    BY <2>1, <2>2 DEF Started
  <2>5. {LayerOf(api, blocks, b) : b \in NativeOf(api, blocks)} = IndicesBelow(blocks)
    BY <2>3, LayersAreOneToOne DEF OneToOne
  <2> QED
    BY <2>1, <2>2, <2>4, <2>5 DEF Counted
<1> QED
  BY <1>1, <1>2 DEF EveryThreadRunsOnce

(***************************************************************************)
(* BlockShared: the storage of a block on the host.                         *)
(***************************************************************************)

\* What has been allocated: headers lie one behind the other, each before its
\* chunk; the walk finds every one of them; ids are different.
Chain(s) ==
    /\ s = [base |-> s.base, end |-> s.end, header |-> s.header]
    /\ s.base = job.base /\ s.end \in Nat
    /\ DOMAIN s.header \subseteq Nat
    /\ \A a \in DOMAIN s.header :
          /\ s.header[a].offset \in Nat /\ s.header[a].offset <= s.end
          /\ a + HeaderSize <= s.header[a].offset
          /\ \E i \in DOMAIN job.kernel :
                /\ IsDeclaration(job.kernel[i]) /\ job.kernel[i].id = s.header[a].id
                /\ s.header[a].offset =
                      ChunkEnd(s.base, a + HeaderSize, job.kernel[i].align, job.kernel[i].bytes)
    /\ \A a, b \in DOMAIN s.header : a < b => s.header[a].offset <= b
    /\ \A a, b \in DOMAIN s.header : s.header[a].id = s.header[b].id => a = b
    /\ s.end \in ChunkEnds(s)
    /\ \A o \in ChunkEnds(s) : o < s.end => HeaderAt(s, o) \in DOMAIN s.header
    /\ \A o \in ChunkEnds(s), a \in DOMAIN s.header : o <= a => HeaderAt(s, o) <= a

\* The next multiple of an alignment.
LEMMA AlignedUp ==
    ASSUME NEW x \in Nat, NEW a \in Nat \ {0}
    PROVE  LET y == ((x + a - 1) \div a) * a
           IN  y \in Nat /\ x <= y /\ y < x + a /\ y % a = 0
<1> DEFINE q == (x + a - 1) \div a
<1>1. x + a - 1 \in Nat
  OBVIOUS
<1>2. PICK r \in Nat : q \in Nat /\ r < a /\ x + a - 1 = a * q + r
  BY <1>1, Division
<1>3. q * a = a * q /\ q * a \in Nat
  BY <1>2
<1>4. (q * a) % a = 0
  <2>1. PICK p \in Nat, z \in Nat : p = q /\ z = 0
    BY <1>2
  <2>2. (a * p + z) % a = z
    BY <2>1, Quotient
  <2>3. a * p + z = q * a
    BY <1>2, <2>1
  <2> QED
    BY <2>1, <2>2, <2>3
<1> HIDE DEF q
<1>5. x <= q * a /\ q * a < x + a /\ (q * a) % a = 0
  BY <1>2, <1>3, <1>4
<1> QED
  BY <1>3, <1>5 DEF q

\* Alignments are positive.
LEMMA Maximum ==
    ASSUME NEW a \in Nat \ {0}, NEW b \in Nat \ {0}
    PROVE  MaxOf(a, b) \in Nat \ {0}
  BY DEF MaxOf

\* A chunk is behind what there was, and begins at a multiple of the alignment.
LEMMA ChunkIsAligned ==
    ASSUME NEW base \in Nat, NEW offset \in Nat, NEW align \in Nat \ {0}, NEW bytes \in Nat
    PROVE  /\ ChunkEnd(base, offset, align, bytes) \in Nat
           /\ offset + bytes <= ChunkEnd(base, offset, align, bytes)
           /\ (base + ChunkEnd(base, offset, align, bytes) - bytes) % MaxOf(MinAlign, align) = 0
<1> DEFINE a == MaxOf(MinAlign, align)
           y == ((base + offset + a - 1) \div a) * a
<1>1. a \in Nat \ {0}
  BY StorageAssumption, Maximum
<1>2. base + offset \in Nat
  OBVIOUS
<1>3. y \in Nat /\ base + offset <= y /\ y % a = 0
  BY <1>1, <1>2, AlignedUp
<1>4. ChunkEnd(base, offset, align, bytes) = y + bytes - base
  BY DEF ChunkEnd
<1> HIDE DEF y, a
<1>5. base + (y + bytes - base) - bytes = y
  BY <1>3
<1> QED
  BY <1>3, <1>4, <1>5 DEF a

\* A header begins at or behind the place it is put to.
LEMMA HeaderIsBehind ==
    ASSUME NEW s, s.base \in Nat, NEW o \in Nat
    PROVE  HeaderAt(s, o) \in Nat /\ o <= HeaderAt(s, o)
<1>1. ChunkEnd(s.base, o, 1, HeaderSize) \in Nat /\ o + HeaderSize <= ChunkEnd(s.base, o, 1, HeaderSize)
  <2>1. PICK base \in Nat, one \in Nat \ {0} : base = s.base /\ one = 1
    OBVIOUS
  <2> QED
    BY <2>1, StorageAssumption, ChunkIsAligned
<1> QED
  BY <1>1, StorageAssumption DEF HeaderAt

\* A storage without headers is a chain.
LEMMA EmptyIsChain ==
    ASSUME job.base \in Nat
    PROVE  Chain(EmptyStorage(job.base))
<1> DEFINE s == EmptyStorage(job.base)
<1>1. s.base = job.base /\ s.end = 0 /\ s.header = << >> /\ DOMAIN s.header = {}
      /\ s = [base |-> s.base, end |-> s.end, header |-> s.header]
  BY DEF EmptyStorage
<1> HIDE DEF s
<1>2. ChunkEnds(s) = {0}
  BY <1>1 DEF ChunkEnds
<1> QED
  BY <1>1, <1>2 DEF Chain, s

\* The header with the id of d, from an offset on.
Later(s, d, o) == {a \in DOMAIN s.header : o <= a /\ s.header[a].id = d.id}

WalkStep(s, d, o, rest) ==
    IF o >= s.end THEN Null
    ELSE IF s.header[HeaderAt(s, o)].id = d.id THEN s.header[HeaderAt(s, o)].offset - d.size
         ELSE rest[s.header[HeaderAt(s, o)].offset]

\* One step of the walk: behind the last chunk there is nothing, else the header
\* that is next has the id or the walk goes on behind its chunk.
LEMMA WalkMeets ==
    ASSUME NEW s, Chain(s), job.base \in Nat, NEW d, NEW o \in ChunkEnds(s)
    PROVE  /\ o \in Nat /\ o <= s.end
           /\ o >= s.end => Later(s, d, o) = {}
           /\ o < s.end => LET b == HeaderAt(s, o)
                           IN  /\ b \in DOMAIN s.header /\ s.header[b].offset \in ChunkEnds(s)
                               /\ s.header[b].offset > o
                               /\ s.header[b].id = d.id => Later(s, d, o) = {b}
                               /\ s.header[b].id # d.id => Later(s, d, o) = Later(s, d, s.header[b].offset)
<1>1. o \in Nat /\ o <= s.end
  BY DEF Chain, ChunkEnds
<1>2. ASSUME o >= s.end, NEW a \in Later(s, d, o) PROVE FALSE
  <2>1. a \in Nat /\ a + HeaderSize <= s.header[a].offset /\ s.header[a].offset <= s.end /\ o <= a
        /\ s.header[a].offset \in Nat /\ s.end \in Nat
    BY <1>2 DEF Chain, Later
  <2> QED
    BY <1>1, <1>2, <2>1, StorageAssumption
<1>3. ASSUME o < s.end
      PROVE  LET b == HeaderAt(s, o)
             IN  /\ b \in DOMAIN s.header /\ s.header[b].offset \in ChunkEnds(s)
                 /\ s.header[b].offset > o
                 /\ s.header[b].id = d.id => Later(s, d, o) = {b}
                 /\ s.header[b].id # d.id => Later(s, d, o) = Later(s, d, s.header[b].offset)
  <2>1. PICK b : b = HeaderAt(s, o)
    OBVIOUS
  <2>2. b \in DOMAIN s.header
    BY <1>3, <2>1 DEF Chain
  <2>3. /\ b \in Nat /\ o <= b /\ s.header[b].offset \in Nat /\ b + HeaderSize <= s.header[b].offset
        /\ HeaderSize \in Nat \ {0}
    BY <1>1, <2>1, <2>2, HeaderIsBehind, StorageAssumption DEF Chain
  <2>4. s.header[b].offset \in ChunkEnds(s) /\ s.header[b].offset > o
    BY <1>1, <2>2, <2>3 DEF ChunkEnds
  <2>5. ASSUME s.header[b].id = d.id PROVE Later(s, d, o) = {b}
    BY <2>2, <2>3, <2>5 DEF Later, Chain
  <2>6. ASSUME s.header[b].id # d.id PROVE Later(s, d, o) = Later(s, d, s.header[b].offset)
    <3>1. ASSUME NEW a \in Later(s, d, o) PROVE a \in Later(s, d, s.header[b].offset)
      <4>1. a \in DOMAIN s.header /\ a \in Nat /\ o <= a /\ s.header[a].id = d.id
        BY <3>1 DEF Later, Chain
      <4>2. b <= a
        BY <2>1, <4>1 DEF Chain
      <4>3. b < a
        BY <2>3, <2>6, <4>1, <4>2
      <4>4. s.header[b].offset <= a
        BY <2>2, <4>1, <4>3 DEF Chain
      <4> QED
        BY <4>1, <4>4 DEF Later
    <3>2. ASSUME NEW a \in Later(s, d, s.header[b].offset) PROVE a \in Later(s, d, o)
      <4>1. a \in DOMAIN s.header /\ a \in Nat /\ s.header[b].offset <= a /\ s.header[a].id = d.id
        BY <3>2 DEF Later, Chain
      <4> QED
        BY <1>1, <2>3, <4>1 DEF Later
    <3> QED
      BY <3>1, <3>2
  <2> QED
    BY <2>1, <2>2, <2>4, <2>5, <2>6
<1> QED
  BY <1>1, <1>2, <1>3

Answer(s, d, o) ==
    IF Later(s, d, o) = {} THEN Null
    ELSE s.header[CHOOSE a \in Later(s, d, o) : TRUE].offset - d.size

\* The walk finds the header with the id, if there is one.
LEMMA WalkFinds ==
    ASSUME NEW s, Chain(s), job.base \in Nat, NEW d
    PROVE  GetVarPtr(s, d) = Answer(s, d, 0)
<1> DEFINE Ends == ChunkEnds(s)
           g == [o \in Ends |-> Answer(s, d, o)]
           IsWalk(f) == f = [o \in Ends |-> WalkStep(s, d, o, f)]
           from == CHOOSE f : IsWalk(f)
<1>1. ASSUME NEW o \in Ends, NEW f, o < s.end => f[s.header[HeaderAt(s, o)].offset] =
                                                     Answer(s, d, s.header[HeaderAt(s, o)].offset)
      PROVE  WalkStep(s, d, o, f) = Answer(s, d, o)
  <2>1. CASE o >= s.end
    BY <2>1, WalkMeets DEF WalkStep, Answer
  <2>2. CASE ~ (o >= s.end)
    <3>1. PICK b : b = HeaderAt(s, o)
      OBVIOUS
    <3>2. o < s.end
      BY <2>2, WalkMeets DEF Chain
    <3>3. CASE s.header[b].id = d.id
      <4>1. Later(s, d, o) = {b}
        BY <3>1, <3>2, <3>3, WalkMeets
      <4> QED
        BY <2>2, <3>1, <3>3, <4>1 DEF WalkStep, Answer
    <3>4. CASE s.header[b].id # d.id
      <4>1. Later(s, d, o) = Later(s, d, s.header[b].offset)
        BY <3>1, <3>2, <3>4, WalkMeets
      <4> QED
        BY <1>1, <2>2, <3>1, <3>2, <3>4, <4>1 DEF WalkStep, Answer
    <3> QED
      BY <3>3, <3>4
  <2> QED
    BY <2>1, <2>2
<1>2. IsWalk(g)
  <2>1. ASSUME NEW o \in Ends PROVE WalkStep(s, d, o, g) = g[o]
    <3>1. o < s.end => s.header[HeaderAt(s, o)].offset \in Ends
      BY WalkMeets
    <3> QED
      BY <1>1, <3>1
  <2> QED
    BY <2>1
<1>3. IsWalk(from)
  BY <1>2
<1>4. GetVarPtr(s, d) = from[0]
  BY DEF GetVarPtr, WalkStep
<1> HIDE DEF from
<1> DEFINE Found == {n \in Nat : \A o \in Ends : s.end - o <= n => from[o] = Answer(s, d, o)}
<1>5. s.end \in Nat /\ \A o \in Ends : o \in Nat /\ o <= s.end
  BY WalkMeets DEF Chain
<1>6. ASSUME NEW n \in Nat, \A o \in Ends : s.end - o < n => from[o] = Answer(s, d, o)
      PROVE  n \in Found
  <2> SUFFICES ASSUME NEW o \in Ends, s.end - o <= n PROVE from[o] = Answer(s, d, o)
    OBVIOUS
  <2>1. from[o] = WalkStep(s, d, o, from)
    BY <1>3
  <2>2. ASSUME o < s.end PROVE from[s.header[HeaderAt(s, o)].offset] = Answer(s, d, s.header[HeaderAt(s, o)].offset)
    <3>1. PICK p : p = s.header[HeaderAt(s, o)].offset
      OBVIOUS
    <3>2. p \in Ends /\ p > o
      BY <2>2, <3>1, WalkMeets
    <3>3. s.end - p < n
      BY <1>5, <3>2
    <3> QED
      BY <1>6, <3>1, <3>2, <3>3
  <2> QED
    BY <1>1, <2>1, <2>2
<1>7. 0 \in Found
  <2>1. ASSUME NEW o \in Ends, s.end - o < 0 PROVE FALSE
    BY <1>5, <2>1
  <2> QED
    BY <1>6, <2>1
<1>8. ASSUME NEW n \in Nat, n \in Found PROVE n + 1 \in Found
  <2>1. \A o \in Ends : s.end - o < n + 1 => s.end - o <= n
    BY <1>5
  <2> QED
    BY <1>6, <1>8, <2>1
<1>9. s.end \in Found
  BY <1>5, <1>7, <1>8, SetInduction
<1>10. 0 \in Ends
  BY DEF ChunkEnds
<1> QED
  BY <1>4, <1>5, <1>9, <1>10

\* An allocation puts a header and a chunk behind the others.
LEMMA AllocKeepsChain ==
    ASSUME NEW s, Chain(s), job.base \in Nat, NEW i \in DOMAIN job.kernel, NEW d, d = job.kernel[i],
           IsDeclaration(d), LegalStatement(d), Later(s, d, 0) = {}
    PROVE  LET n == Alloc(s, d)
               where == HeaderAt(s, s.end)
           IN  /\ Chain(n)
               /\ \A a \in DOMAIN s.header : a \in DOMAIN n.header /\ n.header[a] = s.header[a]
               /\ where \in DOMAIN n.header /\ n.header[where].id = d.id /\ n.header[where].offset = n.end
<1> DEFINE n == Alloc(s, d)
           where == HeaderAt(s, s.end)
           end == ChunkEnd(s.base, where + HeaderSize, d.align, d.bytes)
<1>1. /\ n = [base |-> s.base, end |-> end, header |-> n.header]
      /\ n.header = [a \in DOMAIN s.header \union {where} |->
                        IF a = where THEN [id |-> d.id, offset |-> end] ELSE s.header[a]]
  <2>1. PICK h : h = [a \in DOMAIN s.header \union {where} |->
                        IF a = where THEN [id |-> d.id, offset |-> end] ELSE s.header[a]]
    OBVIOUS
  <2>2. n = [s EXCEPT !.end = end, !.header = h]
    BY <2>1 DEF Alloc
  <2>3. s = [base |-> s.base, end |-> s.end, header |-> s.header]
    BY DEF Chain
  <2> HIDE DEF n, where, end
  <2>4. n = [base |-> s.base, end |-> end, header |-> h]
    BY <2>2, <2>3
  <2> QED
    BY <2>1, <2>4
<1>2. s.base \in Nat /\ s.end \in Nat /\ HeaderSize \in Nat \ {0} /\ s.base = job.base
  BY StorageAssumption DEF Chain
<1>3. where \in Nat /\ s.end <= where
  BY <1>2, HeaderIsBehind
<1>4. d.align \in Nat \ {0} /\ d.bytes \in Nat
  BY DEF LegalStatement
<1>5. end \in Nat /\ where + HeaderSize + d.bytes <= end
  <2>1. PICK base \in Nat, o \in Nat : base = s.base /\ o = where + HeaderSize
    BY <1>2, <1>3
  <2> QED
    BY <1>4, <2>1, ChunkIsAligned
<1>6. where \notin DOMAIN s.header
  BY <1>2, <1>3 DEF Chain
<1>7. DOMAIN n.header = DOMAIN s.header \union {where}
  BY <1>1
<1>8. \A a \in DOMAIN s.header : n.header[a] = s.header[a]
  BY <1>1, <1>6
<1>9. n.header[where] = [id |-> d.id, offset |-> end] /\ n.end = end /\ n.base = s.base
  BY <1>1
<1> HIDE DEF n, where, end
<1>10. \A o : HeaderAt(n, o) = HeaderAt(s, o)
  BY <1>9 DEF HeaderAt
<1>11. ChunkEnds(n) = ChunkEnds(s) \union {end}
  BY <1>7, <1>8, <1>9 DEF ChunkEnds
<1>12. \A a \in DOMAIN s.header : a \in Nat /\ s.header[a].offset \in Nat /\ s.header[a].offset <= s.end
                                 /\ a + HeaderSize <= s.header[a].offset
  BY DEF Chain
<1>13. \A o \in ChunkEnds(s) : o \in Nat /\ o <= s.end
  BY WalkMeets
<1>14. Chain(n)
  <2>1. /\ n = [base |-> n.base, end |-> n.end, header |-> n.header]
        /\ n.base = job.base /\ n.end \in Nat /\ DOMAIN n.header \subseteq Nat
    BY <1>1, <1>2, <1>3, <1>5, <1>7, <1>9, <1>12
  <2>2. ASSUME NEW a \in DOMAIN n.header
        PROVE  /\ n.header[a].offset \in Nat /\ n.header[a].offset <= n.end
               /\ a + HeaderSize <= n.header[a].offset
               /\ \E k \in DOMAIN job.kernel :
                     /\ IsDeclaration(job.kernel[k]) /\ job.kernel[k].id = n.header[a].id
                     /\ n.header[a].offset =
                           ChunkEnd(n.base, a + HeaderSize, job.kernel[k].align, job.kernel[k].bytes)
    <3>1. CASE a = where
      <4>1. end = ChunkEnd(n.base, where + HeaderSize, job.kernel[i].align, job.kernel[i].bytes)
        BY <1>9 DEF end
      <4>2. end \in Nat /\ end <= n.end /\ where + HeaderSize <= end
        BY <1>2, <1>3, <1>4, <1>5, <1>9
      <4> QED
        BY <1>9, <3>1, <4>1, <4>2
    <3>2. CASE a \in DOMAIN s.header
      <4>1. n.header[a] = s.header[a] /\ s.header[a].offset <= n.end
        BY <1>2, <1>3, <1>4, <1>5, <1>8, <1>9, <1>12, <3>2
      <4> QED
        BY <1>9, <1>12, <3>2, <4>1 DEF Chain
    <3> QED
      BY <1>7, <3>1, <3>2
  <2>3. ASSUME NEW a \in DOMAIN n.header, NEW b \in DOMAIN n.header, a < b PROVE n.header[a].offset <= b
    <3>1. CASE a \in DOMAIN s.header /\ b \in DOMAIN s.header
      BY <1>8, <2>3, <3>1 DEF Chain
    <3>2. CASE a \in DOMAIN s.header /\ b = where
      BY <1>2, <1>3, <1>8, <1>12, <3>2
    <3>3. CASE a = where /\ b \in DOMAIN s.header
      BY <1>2, <1>3, <1>12, <2>3, <3>3
    <3> QED
      BY <1>3, <1>7, <2>3, <3>1, <3>2, <3>3
  <2>4. ASSUME NEW a \in DOMAIN n.header, NEW b \in DOMAIN n.header, n.header[a].id = n.header[b].id PROVE a = b
    <3>1. \A c \in DOMAIN s.header : s.header[c].id # d.id
      BY <1>12 DEF Later
    <3> QED
      BY <1>7, <1>8, <1>9, <2>4, <3>1 DEF Chain
  <2>5. n.end \in ChunkEnds(n)
    BY <1>9, <1>11
  <2>6. ASSUME NEW o \in ChunkEnds(n), o < n.end PROVE HeaderAt(n, o) \in DOMAIN n.header
    <3>1. o \in ChunkEnds(s)
      BY <1>5, <1>9, <1>11, <2>6
    <3>2. CASE o < s.end
      BY <1>7, <1>10, <3>1, <3>2 DEF Chain
    <3>3. CASE o = s.end
      BY <1>7, <1>10, <3>3 DEF where
    <3> QED
      BY <1>2, <1>13, <3>1, <3>2, <3>3
  <2>7. ASSUME NEW o \in ChunkEnds(n), NEW a \in DOMAIN n.header, o <= a PROVE HeaderAt(n, o) <= a
    <3>1. o \in ChunkEnds(s)
      <4>1. a < end
        BY <1>2, <1>3, <1>4, <1>5, <1>7, <1>12
      <4> QED
        BY <1>5, <1>3, <1>7, <1>11, <1>12, <2>7, <4>1
    <3>2. CASE a \in DOMAIN s.header
      BY <1>10, <2>7, <3>1, <3>2 DEF Chain
    <3>3. CASE a = where
      <4>1. CASE o = s.end
        BY <1>3, <1>10, <3>3, <4>1 DEF where
      <4>2. CASE o < s.end
        <5>1. HeaderAt(s, o) \in DOMAIN s.header
          BY <3>1, <4>2 DEF Chain
        <5> QED
          BY <1>2, <1>3, <1>10, <1>12, <3>3, <5>1
      <4> QED
        BY <1>2, <1>13, <3>1, <4>1, <4>2
    <3> QED
      BY <1>7, <3>2, <3>3
  <2> QED
    BY <2>1, <2>2, <2>3, <2>4, <2>5, <2>6, <2>7 DEF Chain
<1> QED
  BY <1>7, <1>8, <1>9, <1>14 DEF n, where

\* What divides a divisor divides.
LEMMA DividesOn ==
    ASSUME NEW n \in Nat, NEW a \in Nat \ {0}, NEW b \in Nat \ {0}, n % a = 0, a % b = 0
    PROVE  n % b = 0
<1>1. PICK p \in Nat, q \in Nat : n = a * p /\ a = b * q
  <2>1. n \div a \in Nat /\ n = a * (n \div a) + (n % a)
    BY Division
  <2>2. a \div b \in Nat /\ a = b * (a \div b) + (a % b)
    BY Division
  <2>3. PICK p, q : p = n \div a /\ q = a \div b
    OBVIOUS
  <2>4. p \in Nat /\ q \in Nat /\ n = a * p + 0 /\ a = b * q + 0
    BY <2>1, <2>2, <2>3
  <2> QED
    BY <2>4
<1>2. PICK r \in Nat, z \in Nat : r = q * p /\ z = 0
  BY <1>1
<1>3. n = b * r + z
  BY <1>1, <1>2
<1> QED
  BY <1>2, <1>3, Quotient

\* Where the variable of a header is.
LEMMA ChunkOfVariable ==
    ASSUME NEW s, Chain(s), job.base \in Nat, LegalKernel(job.kernel),
           NEW a \in DOMAIN s.header, NEW i \in DOMAIN job.kernel, job.kernel[i].kind = "var",
           job.kernel[i].id = s.header[a].id, NEW x, x = s.header[a].offset - job.kernel[i].size
    PROVE  /\ x \in Nat /\ job.kernel[i].bytes \in Nat
           /\ a + HeaderSize <= x /\ x + job.kernel[i].bytes = s.header[a].offset
           /\ s.header[a].offset <= s.end
           /\ (job.base + x) % job.kernel[i].align = 0
<1> DEFINE d == job.kernel[i]
<1>1. PICK k \in DOMAIN job.kernel :
          /\ IsDeclaration(job.kernel[k]) /\ job.kernel[k].id = s.header[a].id
          /\ s.header[a].offset = ChunkEnd(s.base, a + HeaderSize, job.kernel[k].align, job.kernel[k].bytes)
  BY DEF Chain
<1>2. IsDeclaration(d) /\ job.kernel[k] = d
  BY <1>1 DEF LegalKernel, IsDeclaration
<1>3. /\ d.size \in Nat /\ d.bytes = d.size /\ d.align \in Nat \ {0}
      /\ MaxOf(MinAlign, d.align) % d.align = 0
  BY <1>2 DEF LegalKernel, LegalStatement
<1>4. /\ a \in Nat /\ a + HeaderSize \in Nat /\ s.base \in Nat /\ s.base = job.base
      /\ s.header[a].offset <= s.end
  BY StorageAssumption DEF Chain
<1>5. PICK o \in Nat, base \in Nat, align \in Nat \ {0}, bytes \in Nat :
          o = a + HeaderSize /\ base = s.base /\ align = d.align /\ bytes = d.bytes
  BY <1>3, <1>4
<1>6. PICK e \in Nat : e = ChunkEnd(base, o, align, bytes) /\ o + bytes <= e /\ e = s.header[a].offset
                       /\ (base + e - bytes) % MaxOf(MinAlign, align) = 0
  <2>1. /\ ChunkEnd(base, o, align, bytes) \in Nat
        /\ o + bytes <= ChunkEnd(base, o, align, bytes)
        /\ (base + ChunkEnd(base, o, align, bytes) - bytes) % MaxOf(MinAlign, align) = 0
    BY ChunkIsAligned
  <2>2. ChunkEnd(base, o, align, bytes) = s.header[a].offset
    BY <1>1, <1>2, <1>5
  <2> QED
    BY <2>1, <2>2
<1>7. x = e - bytes /\ x \in Nat /\ o <= x /\ x + bytes = e
  BY <1>3, <1>5, <1>6
<1>8. PICK m \in Nat \ {0} : m = MaxOf(MinAlign, align)
  BY StorageAssumption, Maximum
<1>9. base + x \in Nat /\ base + x = base + e - bytes
  BY <1>7
<1>10. (base + x) % align = 0
  <2>1. PICK n \in Nat : n = base + x
    BY <1>9
  <2>2. n % m = 0
    BY <1>6, <1>8, <1>9, <2>1
  <2>3. m % align = 0
    BY <1>3, <1>5, <1>8
  <2>4. n % align = 0
    BY <2>2, <2>3, DividesOn
  <2> QED
    BY <2>1, <2>4
<1> QED
  BY <1>3, <1>4, <1>5, <1>6, <1>7, <1>10

\* Variables of different headers do not overlap, nor do they overlap a header.
LEMMA ChunksAreApart ==
    ASSUME NEW s, Chain(s), NEW a \in DOMAIN s.header, NEW x \in Nat, NEW m \in Nat,
           a + HeaderSize <= x, x + m = s.header[a].offset
    PROVE  /\ \A h \in DOMAIN s.header : ~ Overlap(h, HeaderSize, x, m)
           /\ \A b \in DOMAIN s.header, y \in Nat, n \in Nat :
                 b # a /\ b + HeaderSize <= y /\ y + n = s.header[b].offset => ~ Overlap(x, m, y, n)
<1>1. \A c \in DOMAIN s.header : c \in Nat /\ s.header[c].offset \in Nat /\ c + HeaderSize <= s.header[c].offset
  BY DEF Chain
<1>2. HeaderSize \in Nat
  BY StorageAssumption
<1>3. ASSUME NEW h \in DOMAIN s.header PROVE ~ Overlap(h, HeaderSize, x, m)
  <2>1. CASE h = a
    BY <1>1, <1>2, <2>1 DEF Overlap
  <2>2. CASE h < a
    <3>1. s.header[h].offset <= a
      BY <2>2 DEF Chain
    <3> QED
      BY <1>1, <1>2, <3>1 DEF Overlap
  <2>3. CASE a < h
    <3>1. s.header[a].offset <= h
      BY <2>3 DEF Chain
    <3> QED
      BY <1>1, <1>2, <3>1 DEF Overlap
  <2> QED
    BY <1>1, <2>1, <2>2, <2>3
<1>4. ASSUME NEW b \in DOMAIN s.header, NEW y \in Nat, NEW n \in Nat, b # a,
             b + HeaderSize <= y, y + n = s.header[b].offset
      PROVE  ~ Overlap(x, m, y, n)
  <2>1. CASE b < a
    <3>1. s.header[b].offset <= a
      BY <2>1 DEF Chain
    <3> QED
      BY <1>1, <1>2, <1>4, <3>1 DEF Overlap
  <2>2. CASE a < b
    <3>1. s.header[a].offset <= b
      BY <2>2 DEF Chain
    <3> QED
      BY <1>1, <1>2, <1>4, <3>1 DEF Overlap
  <2> QED
    BY <1>1, <1>4, <2>1, <2>2
<1> QED
  BY <1>3, <1>4

-----------------------------------------------------------------------------
(***************************************************************************)
(* The table of a block on SYCL: the variable that is declared first at     *)
(* position m of the kernel has entry Slot(m).                              *)
(***************************************************************************)
Firsts == {m \in DOMAIN job.kernel :
               /\ job.kernel[m].kind = "var"
               /\ \A i \in 1 .. (m - 1) : job.kernel[i] # job.kernel[m]}

FirstsBelow(p) == {m \in Firsts : m < p}

\* How many variables are declared before position p.
Declared(p) == Cardinality(FirstsBelow(p))

Slot(m) == Declared(m) + 1

\* Positions of the kernel.
LEMMA KernelPositions ==
    ASSUME LegalKernel(job.kernel)
    PROVE  /\ DOMAIN job.kernel = 1 .. Len(job.kernel) /\ Len(job.kernel) \in Nat
           /\ \A m \in DOMAIN job.kernel : m \in Nat /\ 1 <= m /\ m <= Len(job.kernel)
           /\ \A m \in Firsts : m \in Nat /\ 1 <= m /\ m <= Len(job.kernel) /\ m \in DOMAIN job.kernel
           /\ \A p \in Nat : IsFiniteSet(FirstsBelow(p)) /\ Declared(p) \in Nat
<1>1. job.kernel \in Seq({job.kernel[i] : i \in DOMAIN job.kernel})
  BY DEF LegalKernel
<1>2. DOMAIN job.kernel = 1 .. Len(job.kernel) /\ Len(job.kernel) \in Nat
  BY <1>1
<1>3. Firsts \subseteq 1 .. Len(job.kernel) /\ Firsts \subseteq DOMAIN job.kernel
  BY <1>2 DEF Firsts
<1>4. ASSUME NEW p \in Nat PROVE IsFiniteSet(FirstsBelow(p)) /\ Declared(p) \in Nat
  <2>1. IsFiniteSet(1 .. Len(job.kernel))
    BY <1>2, FS_Interval
  <2>2. FirstsBelow(p) \subseteq 1 .. Len(job.kernel)
    BY <1>3 DEF FirstsBelow
  <2>3. IsFiniteSet(FirstsBelow(p))
    BY <2>1, <2>2, FS_Subset
  <2> QED
    BY <2>3, FS_CardinalityType DEF Declared
<1>5. \A m \in DOMAIN job.kernel : m \in Nat /\ 1 <= m /\ m <= Len(job.kernel)
  BY <1>2
<1> QED
  BY <1>2, <1>3, <1>4, <1>5

\* Only a first declaration adds to the number of variables.
LEMMA DeclaredCounts ==
    ASSUME LegalKernel(job.kernel), NEW p \in Nat
    PROVE  /\ p <= 1 => Declared(p) = 0
           /\ p \in Firsts => Declared(p + 1) = Declared(p) + 1
           /\ p \notin Firsts => Declared(p + 1) = Declared(p)
<1>1. (\A m \in Firsts : m \in Nat /\ 1 <= m) /\ IsFiniteSet(FirstsBelow(p)) /\ Declared(p) \in Nat
  BY KernelPositions
<1>2. ASSUME p <= 1 PROVE Declared(p) = 0
  <2>1. FirstsBelow(p) = {}
    BY <1>1, <1>2 DEF FirstsBelow
  <2> QED
    BY <2>1, FS_EmptySet DEF Declared
<1>3. ASSUME p \in Firsts PROVE Declared(p + 1) = Declared(p) + 1
  <2>1. ASSUME NEW k PROVE k \in FirstsBelow(p + 1) <=> k \in FirstsBelow(p) \union {p}
    <3>1. k \in Firsts => (k < p + 1 <=> k < p \/ k = p)
      BY <1>1
    <3> QED
      BY <1>3, <3>1 DEF FirstsBelow
  <2>2. p \notin FirstsBelow(p)
    BY DEF FirstsBelow
  <2>3. FirstsBelow(p + 1) = FirstsBelow(p) \union {p}
    BY <2>1
  <2> QED
    BY <1>1, <2>2, <2>3, FS_AddElement DEF Declared
<1>4. ASSUME p \notin Firsts PROVE Declared(p + 1) = Declared(p)
  <2>1. FirstsBelow(p + 1) = FirstsBelow(p)
    BY <1>1, <1>4 DEF FirstsBelow
  <2> QED
    BY <2>1 DEF Declared
<1> QED
  BY <1>2, <1>3, <1>4

\* Entries of different variables differ, and those of the variables before a
\* position are the first ones of the table.
LEMMA SlotsAreApart ==
    ASSUME LegalKernel(job.kernel), NEW m \in Firsts, NEW p \in Nat
    PROVE  /\ Slot(m) \in 1 .. Len(job.kernel)
           /\ m < p => Slot(m) <= Declared(p)
           /\ p <= m => Slot(m) > Declared(p)
<1>1. m \in Nat /\ 1 <= m /\ m <= Len(job.kernel) /\ Len(job.kernel) \in Nat
  BY KernelPositions
<1>2. \A q \in Firsts : q \in Nat /\ 1 <= q
  BY KernelPositions
<1>3. \A q \in Nat : IsFiniteSet(FirstsBelow(q)) /\ Declared(q) \in Nat
  BY KernelPositions
<1>4. ASSUME NEW q \in Nat, NEW r \in Nat, q <= r PROVE Declared(q) <= Declared(r)
  <2>1. ASSUME NEW k \in FirstsBelow(q) PROVE k \in FirstsBelow(r)
    <3>1. k \in Firsts /\ k < q
      BY <2>1 DEF FirstsBelow
    <3>2. k < r
      BY <1>2, <1>4, <3>1
    <3> QED
      BY <3>1, <3>2 DEF FirstsBelow
  <2>2. FirstsBelow(q) \subseteq FirstsBelow(r)
    BY <2>1
  <2> QED
    BY <1>3, <2>2, FS_Subset DEF Declared
<1>5. Declared(m + 1) = Slot(m)
  BY <1>1, DeclaredCounts DEF Slot
<1>6. Declared(m) <= m - 1
  <2>1. PICK k \in Nat : m = k + 1
    BY <1>1
  <2>2. ASSUME NEW i \in FirstsBelow(m) PROVE i \in 1 .. k
    <3>1. i \in Firsts /\ i < m
      BY <2>2 DEF FirstsBelow
    <3> QED
      BY <1>2, <2>1, <3>1
  <2>3. IsFiniteSet(1 .. k) /\ Cardinality(1 .. k) = k
    <3>1. Cardinality(1 .. k) = (IF 1 > k THEN 0 ELSE k - 1 + 1) /\ IsFiniteSet(1 .. k)
      BY FS_Interval
    <3> QED
      BY <3>1
  <2>4. FirstsBelow(m) \subseteq 1 .. k
    BY <2>2
  <2>5. Cardinality(FirstsBelow(m)) <= Cardinality(1 .. k)
    BY <2>3, <2>4, FS_Subset
  <2> QED
    BY <2>1, <2>3, <2>5 DEF Declared
<1>7. Declared(m) \in Nat /\ Declared(p) \in Nat /\ Declared(m + 1) \in Nat
  <2>1. PICK k \in Nat : k = m + 1
    BY <1>1
  <2> QED
    BY <1>1, <1>3, <2>1
<1>8. m < p => Declared(m + 1) <= Declared(p)
  BY <1>1, <1>4
<1>9. p <= m => Declared(p) <= Declared(m)
  BY <1>1, <1>4
<1> QED
  BY <1>1, <1>5, <1>6, <1>7, <1>8, <1>9 DEF Slot

\* The entries of the table there are, are those of the variables before.
LEMMA SlotsAreFilled ==
    ASSUME LegalKernel(job.kernel), NEW p \in Nat, NEW j \in 1 .. Declared(p)
    PROVE  \E m \in Firsts : m < p /\ Slot(m) = j
<1> DEFINE Good == {q \in Nat : \A i \in 1 .. Declared(q) : \E m \in Firsts : m < q /\ Slot(m) = i}
<1>1. 0 \in Good
  BY DeclaredCounts
<1>2. ASSUME NEW q \in Nat, q \in Good PROVE q + 1 \in Good
  <2>1. Declared(q) \in Nat
    BY KernelPositions
  <2>2. CASE q \in Firsts
    <3>1. Declared(q + 1) = Declared(q) + 1 /\ Slot(q) = Declared(q) + 1
      BY <2>2, DeclaredCounts DEF Slot
    <3>2. ASSUME NEW i \in 1 .. Declared(q + 1) PROVE \E m \in Firsts : m < q + 1 /\ Slot(m) = i
      <4>1. CASE i = Declared(q) + 1
        BY <2>2, <3>1, <4>1
      <4>2. CASE i \in 1 .. Declared(q)
        <5>1. PICK m \in Firsts : m < q /\ Slot(m) = i
          BY <1>2, <4>2
        <5>2. m \in Nat
          BY KernelPositions
        <5> QED
          BY <5>1, <5>2
      <4> QED
        BY <2>1, <3>1, <4>1, <4>2
    <3> QED
      BY <3>2
  <2>3. CASE q \notin Firsts
    <3>1. Declared(q + 1) = Declared(q)
      BY <2>3, DeclaredCounts
    <3>2. \A m \in Firsts : m < q => m < q + 1
      BY KernelPositions
    <3> QED
      BY <1>2, <3>1, <3>2
  <2> QED
    BY <2>2, <2>3
<1>3. p \in Good
  BY <1>1, <1>2, SetInduction
<1> QED
  BY <1>3

\* A variable that is declared again has a first declaration before.
LEMMA FirstBefore ==
    ASSUME LegalKernel(job.kernel), NEW p \in DOMAIN job.kernel, job.kernel[p].kind = "var"
    PROVE  \E m \in Firsts : m <= p /\ job.kernel[m] = job.kernel[p]
<1> DEFINE Same == {m \in DOMAIN job.kernel : job.kernel[m] = job.kernel[p]}
<1>1. /\ \A m \in Same : m \in Nat
      /\ p \in Same /\ p \in Nat /\ DOMAIN job.kernel = 1 .. Len(job.kernel) /\ Len(job.kernel) \in Nat
  BY KernelPositions
<1>4. PICK m \in Same : \A y \in Same : m <= y
  BY <1>1, LeastElement
<1>5. ASSUME NEW i \in 1 .. (m - 1) PROVE job.kernel[i] # job.kernel[m]
  <2>1. i \in DOMAIN job.kernel /\ i < m
    <3>1. m \in Nat /\ m \in DOMAIN job.kernel
      BY <1>1
    <3>2. m <= Len(job.kernel)
      BY <3>1, KernelPositions
    <3> QED
      BY <1>1, <3>1, <3>2
  <2> QED
    BY <1>1, <1>4, <2>1
<1> QED
  BY <1>1, <1>4, <1>5 DEF Firsts

-----------------------------------------------------------------------------
(***************************************************************************)
(* The invariant: a launch has the kernel and the grid of its job; storages *)
(* are chains; a block's threads have obtained what its headers, its table  *)
(* or the compiler say; the table agrees with how far the threads are.      *)
(***************************************************************************)
Kernel == job.kernel

Launched == LegalJob(job) /\ (stage # "enqueue" => grid = GridOf(job))

Threads == NativeIndices(grid.threads)
FirstOf == CHOOSE t \in Threads : ThreadIdx(t) = Fill(grid.threads, 0)

IsVariable(s, v) ==
    \E i \in DOMAIN Kernel :
        /\ IsDeclaration(Kernel[i]) /\ v.kind = Kernel[i].kind /\ v.id = Kernel[i].id
        /\ v.bytes = Kernel[i].bytes /\ v.align = Kernel[i].align
        /\ v.kind = "var" =>
              IF job.api \in HostApis
              THEN \E a \in DOMAIN s.header : s.header[a].id = v.id /\ v.at = s.header[a].offset - Kernel[i].size
              ELSE v.at = Placed(Kernel[i])

Together(where) ==
    \A m \in DOMAIN Kernel : Kernel[m].kind = "sync" =>
        \A t, u \in Threads : where[t] > m => where[u] > m

Table(where, table) ==
    /\ table = [entry |-> table.entry, count |-> table.count]
    /\ table.count \in [Threads -> Nat]
    /\ DOMAIN table.entry = 1 .. Len(Kernel) /\ table.entry = [i \in 1 .. Len(Kernel) |-> table.entry[i]]
    /\ \A t \in Threads : table.count[t] = Declared(where[t])
    /\ \A m \in Firsts, t \in Threads : where[t] > m => table.entry[Slot(m)].id = Kernel[m].id
    /\ \A m \in Firsts : where[FirstOf] > m => table.entry[Slot(m)].ptr = Placed(Kernel[m])

Block(b, s) ==
    /\ b = [at |-> b.at, got |-> b.got, table |-> b.table]
    /\ b.at \in [Threads -> Nat \ {0}]
    /\ b.got = [t \in Threads |-> b.got[t]]
    /\ \A t \in Threads : \A v \in b.got[t] : IsVariable(s, v)
    /\ Together(b.at)
    /\ job.api = "sycl" => Table(b.at, b.table)

Blocks ==
    /\ run = [w \in Workers |-> run[w]] /\ storage = [w \in Workers |-> storage[w]]
    /\ \A w \in Workers :
          /\ Chain(storage[w])
          /\ run[w] # Nothing => stage # "enqueue" /\ Block(run[w], storage[w])

LaunchInv == Launched /\ Blocks

\* Places on a GPU: one for each id, farther apart than a variable is long.
LEMMA PlacesAreApart ==
    ASSUME LegalKernel(Kernel), NEW i \in DOMAIN Kernel, NEW k \in DOMAIN Kernel,
           IsDeclaration(Kernel[i]), IsDeclaration(Kernel[k])
    PROVE  /\ Placed(Kernel[i]) \in Nat
           /\ Kernel[i].id = Kernel[k].id => Placed(Kernel[i]) = Placed(Kernel[k])
           /\ Kernel[i].id # Kernel[k].id => \/ Placed(Kernel[i]) + RoomOnGpu <= Placed(Kernel[k])
                                             \/ Placed(Kernel[k]) + RoomOnGpu <= Placed(Kernel[i])
<1> DEFINE IsFirst(k0, d) == /\ job.kernel[k0].id = d.id
                             /\ \A m \in 1 .. (k0 - 1) : job.kernel[m].id # d.id
           First(d) == CHOOSE k0 \in DOMAIN job.kernel : IsFirst(k0, d)
<1>1. \A d : Placed(d) = RoomOnGpu * First(d)
  BY DEF Placed
<1>2. ASSUME NEW n \in DOMAIN Kernel PROVE First(Kernel[n]) \in Nat /\ IsFirst(First(Kernel[n]), Kernel[n])
  <2> DEFINE Same == {m \in DOMAIN Kernel : Kernel[m].id = Kernel[n].id}
  <2>1. \A m \in Same : m \in Nat
    BY KernelPositions DEF Kernel
  <2>2. PICK m \in Same : \A y \in Same : m <= y
    BY <2>1, LeastElement
  <2>3. ASSUME NEW y \in 1 .. (m - 1) PROVE Kernel[y].id # Kernel[n].id
    <3>1. m \in Nat /\ m \in DOMAIN Kernel
      BY <2>1
    <3>2. m <= Len(Kernel) /\ DOMAIN Kernel = 1 .. Len(Kernel) /\ Len(Kernel) \in Nat
      BY <3>1, KernelPositions DEF Kernel
    <3>3. y \in DOMAIN Kernel /\ y < m
      BY <3>1, <3>2
    <3> QED
      BY <2>1, <2>2, <3>3
  <2>4. IsFirst(m, Kernel[n]) /\ m \in DOMAIN job.kernel
    BY <2>3 DEF Kernel
  <2>5. First(Kernel[n]) \in DOMAIN job.kernel /\ IsFirst(First(Kernel[n]), Kernel[n])
    BY <2>4
  <2> QED
    BY <2>5, KernelPositions DEF Kernel
<1>3. PICK a, b : a = First(Kernel[i]) /\ b = First(Kernel[k])
  OBVIOUS
<1>4. a \in Nat /\ b \in Nat /\ IsFirst(a, Kernel[i]) /\ IsFirst(b, Kernel[k])
  BY <1>2, <1>3
<1>5. Placed(Kernel[i]) = 100 * a /\ Placed(Kernel[k]) = 100 * b
  BY <1>1, <1>3 DEF RoomOnGpu
<1>6. ASSUME Kernel[i].id = Kernel[k].id PROVE Placed(Kernel[i]) = Placed(Kernel[k])
  BY <1>6 DEF Placed
<1>7. ASSUME Kernel[i].id # Kernel[k].id PROVE a # b
  BY <1>4, <1>7
<1> QED
  BY <1>4, <1>5, <1>6, <1>7 DEF RoomOnGpu

\* What DeclarationsAreSound asks for, from the invariant.
LEMMA BlockIsSound ==
    ASSUME LaunchInv, NEW w \in Workers, run[w] # Nothing,
           NEW u \in Got(w, {"var"}), NEW v \in Got(w, {"var"})
    PROVE  /\ u.id = v.id => u.at = v.at /\ u.at \notin {Null, Garbage}
           /\ u.id # v.id => ~ Overlap(u.at, u.bytes, v.at, v.bytes)
           /\ job.api \in HostApis =>
                 /\ \A h \in HeadersOf(w) : ~ Overlap(h, HeaderSize, v.at, v.bytes)
                 /\ (job.base + v.at) % v.align = 0
                 /\ v.at + v.bytes <= storage[w].end
<1> DEFINE s == storage[w]
<1>1. /\ job.base \in Nat /\ LegalKernel(Kernel) /\ Chain(s) /\ Block(run[w], s)
  BY DEF LaunchInv, Launched, LegalJob, Blocks, Kernel
<1>2. IsVariable(s, u) /\ IsVariable(s, v) /\ u.kind = "var" /\ v.kind = "var"
  BY <1>1 DEF Got, Block
<1>3. PICK i \in DOMAIN Kernel :
          /\ IsDeclaration(Kernel[i]) /\ "var" = Kernel[i].kind /\ u.id = Kernel[i].id
          /\ u.bytes = Kernel[i].bytes /\ u.align = Kernel[i].align
          /\ IF job.api \in HostApis
             THEN \E a \in DOMAIN s.header : s.header[a].id = u.id /\ u.at = s.header[a].offset - Kernel[i].size
             ELSE u.at = Placed(Kernel[i])
  BY <1>2 DEF IsVariable
<1>4. PICK k \in DOMAIN Kernel :
          /\ IsDeclaration(Kernel[k]) /\ "var" = Kernel[k].kind /\ v.id = Kernel[k].id
          /\ v.bytes = Kernel[k].bytes /\ v.align = Kernel[k].align
          /\ IF job.api \in HostApis
             THEN \E a \in DOMAIN s.header : s.header[a].id = v.id /\ v.at = s.header[a].offset - Kernel[k].size
             ELSE v.at = Placed(Kernel[k])
  BY <1>2 DEF IsVariable
<1>5. Kernel[i].id = Kernel[k].id => Kernel[i] = Kernel[k]
  BY <1>1, <1>3, <1>4 DEF LegalKernel
<1>6. CASE job.api \in HostApis
  <2>1. PICK a \in DOMAIN s.header : s.header[a].id = u.id /\ u.at = s.header[a].offset - Kernel[i].size
    BY <1>3, <1>6
  <2>2. PICK b \in DOMAIN s.header : s.header[b].id = v.id /\ v.at = s.header[b].offset - Kernel[k].size
    BY <1>4, <1>6
  <2>3. /\ u.at \in Nat /\ u.bytes \in Nat
        /\ a + HeaderSize <= u.at /\ u.at + u.bytes = s.header[a].offset
    BY <1>1, <1>3, <2>1, ChunkOfVariable DEF Kernel
  <2>4. /\ v.at \in Nat /\ v.bytes \in Nat
        /\ b + HeaderSize <= v.at /\ v.at + v.bytes = s.header[b].offset
        /\ s.header[b].offset <= s.end /\ (job.base + v.at) % v.align = 0
    BY <1>1, <1>4, <2>2, ChunkOfVariable DEF Kernel
  <2>5. ASSUME u.id = v.id PROVE u.at = v.at /\ u.at \notin {Null, Garbage}
    <3>1. a = b
      BY <1>1, <2>1, <2>2, <2>5 DEF Chain
    <3> QED
      BY <1>3, <1>4, <1>5, <2>1, <2>2, <2>3, <2>5, <3>1, PointerAssumption
  <2>6. ASSUME u.id # v.id PROVE ~ Overlap(u.at, u.bytes, v.at, v.bytes)
    <3>1. b # a
      BY <2>1, <2>2, <2>6
    <3> QED
      BY <1>1, <2>3, <2>4, <3>1, ChunksAreApart
  <2>7. \A h \in HeadersOf(w) : ~ Overlap(h, HeaderSize, v.at, v.bytes)
    BY <1>1, <2>4, ChunksAreApart DEF HeadersOf
  <2> QED
    BY <2>4, <2>5, <2>6, <2>7
<1>7. CASE job.api \notin HostApis
  <2>1. u.at = Placed(Kernel[i]) /\ v.at = Placed(Kernel[k])
    BY <1>3, <1>4, <1>7
  <2>2. /\ u.at \in Nat /\ v.at \in Nat
        /\ u.id = v.id => u.at = v.at
        /\ u.id # v.id => u.at + RoomOnGpu <= v.at \/ v.at + RoomOnGpu <= u.at
    BY <1>1, <1>3, <1>4, <2>1, PlacesAreApart
  <2>3. u.bytes <= RoomOnGpu /\ v.bytes <= RoomOnGpu /\ u.bytes \in Nat /\ v.bytes \in Nat
    BY <1>1, <1>3, <1>4, <1>7 DEF LaunchInv, Launched, LegalJob, LegalKernel, LegalStatement, Kernel
  <2>4. u.id # v.id => ~ Overlap(u.at, u.bytes, v.at, v.bytes)
    BY <2>2, <2>3 DEF Overlap, RoomOnGpu
  <2> QED
    BY <1>7, <2>2, <2>4, PointerAssumption
<1> QED
  BY <1>6, <1>7

\* The launch and its grid stay, so what depends on nothing else does.
LEMMA LaunchStays ==
    ASSUME job' = job, grid' = grid
    PROVE  /\ Threads' = Threads /\ FirstOf' = FirstOf /\ Firsts' = Firsts /\ Kernel' = Kernel
           /\ \A p : Declared(p)' = Declared(p)
           /\ \A d : Placed(d)' = Placed(d)
<1>1. Threads' = Threads
  BY DEF Threads, NativeIndices
<1>2. FirstOf' = FirstOf
  BY <1>1 DEF FirstOf, ThreadIdx, LayerIdx
<1>3. Firsts' = Firsts
  BY DEF Firsts
<1>4. Kernel' = Kernel
  BY DEF Kernel
<1>5. \A p : Declared(p)' = Declared(p)
  BY <1>3 DEF Declared, FirstsBelow
<1>6. \A d : Placed(d)' = Placed(d)
  BY DEF Placed
<1> QED
  BY <1>1, <1>2, <1>3, <1>4, <1>5, <1>6

\* So a state of a block that is sound remains it.
LEMMA BlockStays ==
    ASSUME job' = job, grid' = grid, NEW w \in Workers, NEW CONSTANT b, NEW CONSTANT s,
           run'[w] = b, storage'[w] = s, Block(b, s)
    PROVE  Block(run[w], storage[w])'
<1>1. \A v : IsVariable(s, v) => IsVariable(storage[w], v)'
  BY LaunchStays DEF IsVariable
<1>2. Together(run[w].at)'
  BY LaunchStays DEF Block, Together
<1>3. ASSUME job.api = "sycl" PROVE Table(run[w].at, run[w].table)'
  <2>1. Table(b.at, b.table)
    BY <1>3 DEF Block
  <2>2. \A m : Slot(m)' = Slot(m)
    BY LaunchStays DEF Slot
  <2> QED
    BY LaunchStays, <2>1, <2>2 DEF Table
<1> QED
  BY LaunchStays, <1>1, <1>2, <1>3 DEF Block

\* So does a storage.
LEMMA ChainStays ==
    ASSUME job' = job, NEW w \in Workers, NEW CONSTANT s, storage'[w] = s, Chain(s)
    PROVE  Chain(storage[w])'
<1>1. \A o : HeaderAt(storage[w], o)' = HeaderAt(s, o)
  BY DEF HeaderAt
<1>2. ChunkEnds(storage[w])' = ChunkEnds(s)
  BY DEF ChunkEnds
<1> QED
  BY <1>1, <1>2 DEF Chain

\* It begins without blocks, with storages that are empty.
LEMMA LaunchInit == Init => LaunchInv
<1> SUFFICES ASSUME Init PROVE LaunchInv
  OBVIOUS
<1>1. LegalJob(job)
  BY JobsAssumption DEF Init
<1>2. job.base \in Nat
  BY <1>1 DEF LegalJob
<1>3. \A w \in Workers : run[w] = Nothing /\ storage[w] = EmptyStorage(job.base)
  BY DEF Init
<1>4. \A w \in Workers : Chain(storage[w])
  BY <1>2, <1>3, EmptyIsChain
<1>5. run = [w \in Workers |-> run[w]] /\ storage = [w \in Workers |-> storage[w]]
  <2>1. PICK e : e = EmptyStorage(job.base)
    OBVIOUS
  <2>2. run = [w \in Workers |-> Nothing] /\ storage = [w \in Workers |-> e]
    BY <2>1 DEF Init
  <2> QED
    BY <2>2
<1> QED
  BY <1>1, <1>3, <1>4, <1>5 DEF LaunchInv, Launched, Blocks, Init

\* What a step of a worker leaves: its block and its storage are sound, nothing
\* else has changed.
WorkerStep(w, b, s) ==
    /\ UNCHANGED <<job, stage, frame, grid>>
    /\ run' = [run EXCEPT ![w] = b] /\ storage' = [storage EXCEPT ![w] = s]
    /\ Chain(s) /\ (b # Nothing => Block(b, s))

\* The other workers are not disturbed.
LEMMA WorkerKeeps ==
    ASSUME LaunchInv, NEW w \in Workers, NEW CONSTANT b, NEW CONSTANT s,
           WorkerStep(w, b, s), stage # "enqueue"
    PROVE  LaunchInv'
<1>1. job' = job /\ stage' = stage /\ grid' = grid
  BY DEF WorkerStep
<1>2. Launched'
  BY <1>1 DEF LaunchInv, Launched
<1>3. /\ run' = [v \in Workers |-> run'[v]] /\ storage' = [v \in Workers |-> storage'[v]]
      /\ run'[w] = b /\ storage'[w] = s
      /\ \A v \in Workers \ {w} : run'[v] = run[v] /\ storage'[v] = storage[v]
  BY DEF LaunchInv, Blocks, WorkerStep
<1>4. ASSUME NEW v \in Workers
      PROVE  Chain(storage[v])' /\ (run[v] # Nothing => stage # "enqueue" /\ Block(run[v], storage[v]))'
  <2>1. PICK c, r : c = run'[v] /\ r = storage'[v]
    OBVIOUS
  <2>2. Chain(r) /\ (c # Nothing => Block(c, r))
    BY <1>3, <2>1 DEF LaunchInv, Blocks, WorkerStep
  <2>3. Chain(storage[v])'
    BY <1>1, <2>1, <2>2, ChainStays
  <2>4. c # Nothing => Block(run[v], storage[v])'
    BY <1>1, <2>1, <2>2, BlockStays
  <2> QED
    BY <1>1, <2>1, <2>3, <2>4
<1>5. Blocks'
  BY <1>3, <1>4 DEF Blocks
<1> QED
  BY <1>2, <1>5 DEF LaunchInv

\* A launch fixes the grid; no block has begun.
LEMMA LaunchLaunches ==
    ASSUME LaunchInv, stage = "enqueue", NEW o, Launch(o)
    PROVE  LaunchInv'
<1>1. job' = job /\ run' = run /\ storage' = storage /\ grid' = GridOf(job)
  BY DEF Launch
<1>2. Launched'
  BY <1>1 DEF LaunchInv, Launched
<1>3. ASSUME NEW v \in Workers
      PROVE  Chain(storage[v])' /\ (run[v] # Nothing => stage # "enqueue" /\ Block(run[v], storage[v]))'
  <2>1. run'[v] = Nothing
    BY <1>1 DEF LaunchInv, Blocks
  <2>2. PICK r : r = storage'[v]
    OBVIOUS
  <2>3. Chain(r)
    BY <1>1, <2>2 DEF LaunchInv, Blocks
  <2>4. Chain(storage[v])'
    BY <1>1, <2>2, <2>3, ChainStays
  <2> QED
    BY <2>1, <2>4
<1>4. Blocks'
  BY <1>1, <1>3 DEF LaunchInv, Blocks
<1> QED
  BY <1>2, <1>4 DEF LaunchInv

\* Steps that change neither a block nor a storage.
LEMMA LaunchIdles ==
    ASSUME LaunchInv, UNCHANGED <<job, grid, run, storage>>,
           stage = "enqueue" => stage' = "enqueue", stage # "enqueue" => stage' # "enqueue"
    PROVE  LaunchInv'
<1>1. Launched'
  BY DEF LaunchInv, Launched
<1>2. ASSUME NEW v \in Workers
      PROVE  Chain(storage[v])' /\ (run[v] # Nothing => stage # "enqueue" /\ Block(run[v], storage[v]))'
  <2>1. PICK c, r : c = run'[v] /\ r = storage'[v]
    OBVIOUS
  <2>2. Chain(r) /\ (c # Nothing => stage' # "enqueue" /\ Block(c, r))
    BY <2>1 DEF LaunchInv, Blocks
  <2>3. Chain(storage[v])'
    BY <2>1, <2>2, ChainStays
  <2>4. c # Nothing => Block(run[v], storage[v])'
    BY <2>1, <2>2, BlockStays
  <2> QED
    BY <2>1, <2>2, <2>3, <2>4
<1>3. Blocks'
  BY <1>2 DEF LaunchInv, Blocks
<1> QED
  BY <1>1, <1>3 DEF LaunchInv

\* Extents have an index whose components are all zero.
LEMMA OriginIsBelow ==
    ASSUME NEW n \in Nat \ {0}, NEW v \in Positive(n)
    PROVE  Fill(v, 0) \in IndicesBelow(v)
<1>1. v \in [1 .. n -> Nat \ {0}]
  BY DEF Positive
<1>2. IndicesBelow(v) = Box(v)
  BY <1>1, MapToNDIsOneToOne
<1> QED
  BY <1>1, <1>2 DEF Box, Fill

\* On SYCL a block has a first thread, the leader.
LEMMA FirstIsThread ==
    ASSUME LaunchInv, job.api = "sycl", stage # "enqueue"
    PROVE  FirstOf \in Threads
<1>1. LegalJob(job) /\ grid = GridOf(job) /\ job.api \notin HostApis
  BY DEF LaunchInv, Launched, HostApis
<1>2. PICK n \in Nat \ {0} : Runnable(job.api, n, grid.threads)
  BY <1>1, LaunchIsRunnable
<1>3. PICK v \in Positive(n) : v = grid.threads
  BY <1>2 DEF Runnable
<1>4. Threads = NativeOf(job.api, v)
  BY <1>3, NativeIs DEF Threads
<1>5. OneToOne(job.api, v)
  BY <1>1, <1>3, LaunchIsRunnable, LayersAreOneToOne
<1>6. Fill(v, 0) \in IndicesBelow(v)
  BY OriginIsBelow
<1>7. PICK t \in Threads : LayerOf(job.api, v, t) = Fill(v, 0)
  BY <1>4, <1>5, <1>6 DEF OneToOne
<1>8. ThreadIdx(t) = Fill(grid.threads, 0)
  BY <1>1, <1>3, <1>7 DEF ThreadIdx, LayerIdx, LayerOf
<1> QED
  BY <1>8 DEF FirstOf

\* A worker takes a block: nothing is declared yet.
LEMMA StartKeeps ==
    ASSUME LaunchInv, NEW w \in Workers, StartBlock(w)
    PROVE  LaunchInv'
<1>1. PICK content : run' = [run EXCEPT ![w] =
                                [at    |-> [t \in Threads |-> 1],
                                 got   |-> [t \in Threads |-> {}],
                                 table |-> FreshTable(Threads, Len(job.kernel), content)]]
  BY DEF StartBlock, Threads
<1>2. PICK where, got, table : /\ where = [t \in Threads |-> 1] /\ got = [t \in Threads |-> {}]
                               /\ table = FreshTable(Threads, Len(job.kernel), content)
  OBVIOUS
<1>3. PICK b : b = [at |-> where, got |-> got, table |-> table]
  OBVIOUS
<1>4. PICK s : s = IF job.api = "tbb" THEN EmptyStorage(job.base) ELSE storage[w]
  OBVIOUS
<1>5. job.base \in Nat /\ LegalKernel(job.kernel) /\ stage = "running"
  BY DEF LaunchInv, Launched, LegalJob, StartBlock
<1>6. Chain(s)
  BY <1>4, <1>5, EmptyIsChain DEF LaunchInv, Blocks
<1>7. storage' = [storage EXCEPT ![w] = s]
  BY <1>4 DEF StartBlock, LaunchInv, Blocks
<1>8. b.at = where /\ b.got = got /\ b.table = table
  BY <1>3
<1>9. \A m \in DOMAIN Kernel : m \in Nat /\ 1 <= m
  BY <1>5, KernelPositions DEF Kernel
<1>10. Together(b.at)
  BY <1>2, <1>8, <1>9 DEF Together
<1>11. ASSUME job.api = "sycl" PROVE Table(b.at, b.table)
  <2>1. table.count = [t \in Threads |-> 0]
        /\ table.entry = [i \in 1 .. Len(job.kernel) |-> [ptr |-> content, id |-> Garbage]]
        /\ table = [entry |-> table.entry, count |-> table.count]
    BY <1>2 DEF FreshTable
  <2>2. Declared(1) = 0
    BY <1>5, DeclaredCounts
  <2>3. \A m \in Firsts : m \in Nat /\ 1 <= m
    BY <1>5, KernelPositions
  <2>4. \A m \in Firsts, t \in Threads : ~ (where[t] > m)
    BY <1>2, <2>3
  <2>5. \A m \in Firsts : ~ (where[FirstOf] > m)
    BY <1>5, <1>11, <2>4, FirstIsThread
  <2>6. table.count \in [Threads -> Nat] /\ \A t \in Threads : table.count[t] = Declared(where[t])
    BY <1>2, <2>1, <2>2
  <2>7. DOMAIN table.entry = 1 .. Len(Kernel) /\ table.entry = [i \in 1 .. Len(Kernel) |-> table.entry[i]]
    BY <2>1 DEF Kernel
  <2>8. Table(where, table)
    BY <2>1, <2>4, <2>5, <2>6, <2>7 DEF Table
  <2> QED
    BY <1>8, <2>8
<1>12. Block(b, s)
  BY <1>2, <1>3, <1>8, <1>10, <1>11 DEF Block
<1>13. WorkerStep(w, b, s)
  BY <1>1, <1>2, <1>3, <1>6, <1>7, <1>12 DEF WorkerStep, StartBlock
<1> QED
  BY <1>5, <1>13, WorkerKeeps

\* A thread has declared.
LEMMA TookKeeps ==
    ASSUME LaunchInv, NEW w \in Workers, run[w] # Nothing, NEW t \in Threads,
           NEW p, p = run[w].at[t], p \in DOMAIN Kernel, Kernel[p].kind # "sync",
           NEW s, Chain(s),
           \A a \in DOMAIN storage[w].header : a \in DOMAIN s.header /\ s.header[a] = storage[w].header[a],
           NEW v, IsVariable(s, v), NEW table,
           job.api = "sycl" => Table([run[w].at EXCEPT ![t] = p + 1], table)
    PROVE  Block([at    |-> [run[w].at EXCEPT ![t] = p + 1],
                  got   |-> [run[w].got EXCEPT ![t] = @ \union {v}],
                  table |-> table], s)
<1>1. LegalKernel(job.kernel) /\ Block(run[w], storage[w])
  BY DEF LaunchInv, Launched, LegalJob, Blocks
<1>2. PICK where, got : where = [run[w].at EXCEPT ![t] = p + 1] /\ got = [run[w].got EXCEPT ![t] = @ \union {v}]
  OBVIOUS
<1>3. run[w].at \in [Threads -> Nat \ {0}] /\ run[w].got = [u \in Threads |-> run[w].got[u]]
      /\ Together(run[w].at)
  BY <1>1 DEF Block
<1>4. where \in [Threads -> Nat \ {0}] /\ p \in Nat \ {0}
      /\ \A u \in Threads : where[u] = IF u = t THEN p + 1 ELSE run[w].at[u]
  BY <1>2, <1>3
<1>5. got = [u \in Threads |-> got[u]]
      /\ \A u \in Threads : got[u] = IF u = t THEN run[w].got[t] \union {v} ELSE run[w].got[u]
  BY <1>2, <1>3
<1>6. ASSUME NEW u \in Threads, NEW x \in got[u] PROVE IsVariable(s, x)
  <2>1. CASE x = v
    BY <2>1
  <2>2. CASE x \in run[w].got[u]
    <3>1. IsVariable(storage[w], x)
      BY <1>1, <2>2 DEF Block
    <3> QED
      BY <3>1 DEF IsVariable
  <2> QED
    BY <1>5, <1>6, <2>1, <2>2
<1>7. Together(where)
  <2> SUFFICES ASSUME NEW m \in DOMAIN Kernel, Kernel[m].kind = "sync",
                      NEW u \in Threads, NEW x \in Threads, where[u] > m
               PROVE  where[x] > m
    BY DEF Together
  <2>1. m \in Nat /\ m # p
    BY <1>1, KernelPositions DEF Kernel
  <2>2. run[w].at[u] > m
    BY <1>3, <1>4, <2>1
  <2>3. run[w].at[x] > m
    BY <1>3, <2>2 DEF Together
  <2> QED
    BY <1>3, <1>4, <2>1, <2>3
<1>8. PICK b : b = [at |-> where, got |-> got, table |-> table]
  OBVIOUS
<1>9. b.at = where /\ b.got = got /\ b.table = table
  BY <1>8
<1>10. Block(b, s)
  BY <1>2, <1>4, <1>5, <1>6, <1>7, <1>8, <1>9 DEF Block
<1> QED
  BY <1>2, <1>8, <1>10

\* What a thread that declares is.
LEMMA AtDeclaration ==
    ASSUME LaunchInv, NEW w \in Workers, run[w] # Nothing, NEW t \in DOMAIN run[w].at,
           ~ Ended(w, t), Statement(w, t).kind # "sync"
    PROVE  /\ t \in Threads /\ run[w].at[t] \in DOMAIN Kernel /\ run[w].at[t] \in Nat
           /\ Statement(w, t) = Kernel[run[w].at[t]]
           /\ IsDeclaration(Statement(w, t)) /\ LegalStatement(Statement(w, t))
           /\ stage # "enqueue" /\ Chain(storage[w]) /\ Block(run[w], storage[w])
           /\ LegalKernel(job.kernel) /\ job.base \in Nat
<1>1. /\ Chain(storage[w]) /\ Block(run[w], storage[w]) /\ stage # "enqueue"
      /\ LegalKernel(job.kernel) /\ job.base \in Nat
  BY DEF LaunchInv, Launched, LegalJob, Blocks
<1>2. t \in Threads /\ run[w].at[t] \in Nat \ {0}
  BY <1>1 DEF Block
<1>3. run[w].at[t] \in DOMAIN Kernel
  <2>1. DOMAIN job.kernel = 1 .. Len(job.kernel) /\ Len(job.kernel) \in Nat
    BY <1>1, KernelPositions
  <2> QED
    BY <1>2, <2>1 DEF Ended, Kernel
<1>4. Statement(w, t) = Kernel[run[w].at[t]]
  BY DEF Statement, Kernel
<1>5. LegalStatement(Statement(w, t))
  BY <1>1, <1>3, <1>4 DEF LegalKernel, Kernel
<1> QED
  BY <1>1, <1>2, <1>3, <1>4, <1>5 DEF LegalStatement

\* The state of a block as a record.
LEMMA TookIs ==
    ASSUME LaunchInv, NEW w \in Workers, run[w] # Nothing, NEW t, NEW d, NEW where
    PROVE  LET v == [kind |-> d.kind, id |-> d.id, at |-> where, bytes |-> d.bytes, align |-> d.align]
           IN  Took(w, t, d, where) = [at    |-> [run[w].at EXCEPT ![t] = @ + 1],
                                    got   |-> [run[w].got EXCEPT ![t] = @ \union {v}],
                                    table |-> run[w].table]
<1>1. PICK x, y, z : x = run[w].at /\ y = run[w].got /\ z = run[w].table
  OBVIOUS
<1>2. run[w] = [at |-> x, got |-> y, table |-> z]
  BY <1>1 DEF LaunchInv, Blocks, Block
<1>3. PICK v : v = [kind |-> d.kind, id |-> d.id, at |-> where, bytes |-> d.bytes, align |-> d.align]
  OBVIOUS
<1>4. Took(w, t, d, where) = [run[w] EXCEPT !.at[t] = @ + 1, !.got[t] = @ \union {v}]
  BY <1>3 DEF Took
<1>5. Took(w, t, d, where) = [at |-> [x EXCEPT ![t] = @ + 1], got |-> [y EXCEPT ![t] = @ \union {v}], table |-> z]
  <2>1. PICK r : r = run[w] /\ r.at = x /\ r.got = y /\ r = [at |-> x, got |-> y, table |-> z]
    BY <1>1, <1>2
  <2>2. PICK x1, y1 : x1 = [x EXCEPT ![t] = @ + 1] /\ y1 = [y EXCEPT ![t] = @ \union {v}]
    OBVIOUS
  <2>3. [r EXCEPT !.at[t] = @ + 1, !.got[t] = @ \union {v}] = [[r EXCEPT !.at = x1] EXCEPT !.got = y1]
    BY <2>1, <2>2
  <2>4. PICK e : e = [r EXCEPT !.at = x1]
    OBVIOUS
  <2>5. e = [at |-> x1, got |-> y, table |-> z]
    BY <2>1, <2>4
  <2>6. [e EXCEPT !.got = y1] = [at |-> x1, got |-> y1, table |-> z]
    BY <2>5
  <2> QED
    BY <1>4, <2>1, <2>2, <2>3, <2>4, <2>6
<1> QED
  BY <1>1, <1>3, <1>5

\* A declaration on the host: the walk finds the header, or a chunk is added.
LEMMA HostKeeps ==
    ASSUME LaunchInv, NEW w \in Workers, run[w] # Nothing, NEW t \in DOMAIN run[w].at,
           ~ Ended(w, t), Statement(w, t).kind # "sync", DeclareOnHost(w, t),
           UNCHANGED <<job, stage, frame, grid, next, count>>
    PROVE  LaunchInv'
<1>1. PICK p, d : p = run[w].at[t] /\ d = Statement(w, t)
  OBVIOUS
<1>2. /\ t \in Threads /\ p \in DOMAIN Kernel /\ p \in Nat /\ d = Kernel[p]
      /\ IsDeclaration(d) /\ LegalStatement(d) /\ stage # "enqueue"
      /\ Chain(storage[w]) /\ Block(run[w], storage[w]) /\ job.base \in Nat
  BY <1>1, AtDeclaration
<1>3. PICK s0 : s0 = storage[w]
  OBVIOUS
<1>4. Chain(s0)
  BY <1>2, <1>3
<1>5. PICK found, s, where : /\ found = GetVarPtr(s0, d)
                             /\ s = IF found = Null THEN Alloc(s0, d) ELSE s0
                             /\ where = IF found = Null THEN GetLatestVarPtr(s, d) ELSE found
  OBVIOUS
<1>6. job.api \in HostApis /\ storage' = [storage EXCEPT ![w] = s] /\ run' = [run EXCEPT ![w] = Took(w, t, d, where)]
  BY <1>1, <1>3, <1>5 DEF DeclareOnHost
<1>7. d.size \in Nat
  BY <1>2 DEF LegalStatement
<1>8. /\ Chain(s)
      /\ \A a \in DOMAIN s0.header : a \in DOMAIN s.header /\ s.header[a] = s0.header[a]
      /\ \E a \in DOMAIN s.header : s.header[a].id = d.id /\ where = s.header[a].offset - d.size
  <2>1. found = Answer(s0, d, 0)
    BY <1>2, <1>4, <1>5, WalkFinds
  <2>2. CASE Later(s0, d, 0) = {}
    <3>1. s = Alloc(s0, d) /\ where = s.end - d.size
      BY <1>5, <2>1, <2>2 DEF Answer, GetLatestVarPtr
    <3>2. p \in DOMAIN job.kernel /\ d = job.kernel[p]
      BY <1>2 DEF Kernel
    <3> QED
      BY <1>2, <1>4, <2>2, <3>1, <3>2, AllocKeepsChain
  <2>3. CASE Later(s0, d, 0) # {}
    <3>1. PICK a \in Later(s0, d, 0) : found = s0.header[a].offset - d.size
      BY <2>1, <2>3 DEF Answer
    <3>2. a \in DOMAIN s0.header /\ s0.header[a].id = d.id /\ s0.header[a].offset \in Nat
      BY <1>4 DEF Later, Chain
    <3>3. found # Null
      BY <1>7, <3>1, <3>2, PointerAssumption
    <3> QED
      BY <1>4, <1>5, <3>1, <3>2, <3>3
  <2> QED
    BY <2>2, <2>3
<1>9. PICK v : v = [kind |-> d.kind, id |-> d.id, at |-> where, bytes |-> d.bytes, align |-> d.align]
  OBVIOUS
<1>10. IsVariable(s, v)
  BY <1>2, <1>6, <1>8, <1>9 DEF IsVariable
<1>11. PICK b : b = [at    |-> [run[w].at EXCEPT ![t] = p + 1],
                     got   |-> [run[w].got EXCEPT ![t] = @ \union {v}],
                     table |-> run[w].table]
  OBVIOUS
<1>12. job.api # "sycl"
  BY <1>6 DEF HostApis
<1>13. Kernel[p].kind # "sync"
  BY <1>1, <1>2
<1>14. Block(b, s)
  BY <1>1, <1>2, <1>3, <1>8, <1>10, <1>11, <1>12, <1>13, TookKeeps
<1>15. Took(w, t, d, where) = b
  BY <1>1, <1>2, <1>9, <1>11, TookIs DEF Block
<1>16. WorkerStep(w, b, s)
  BY <1>6, <1>8, <1>14, <1>15 DEF WorkerStep
<1> QED
  BY <1>2, <1>16, WorkerKeeps

\* A declaration where the compiler places it.
LEMMA GpuKeeps ==
    ASSUME LaunchInv, NEW w \in Workers, run[w] # Nothing, NEW t \in DOMAIN run[w].at,
           ~ Ended(w, t), Statement(w, t).kind # "sync", NEW b, NEW table,
           job.api \notin HostApis,
           b = [Took(w, t, Statement(w, t), Placed(Statement(w, t))) EXCEPT !.table = table],
           job.api = "sycl" => Table([run[w].at EXCEPT ![t] = run[w].at[t] + 1], table),
           run' = [run EXCEPT ![w] = b],
           UNCHANGED <<job, stage, frame, grid, next, count, storage>>
    PROVE  LaunchInv'
<1>1. PICK p, d, s : p = run[w].at[t] /\ d = Statement(w, t) /\ s = storage[w]
  OBVIOUS
<1>2. /\ t \in Threads /\ p \in DOMAIN Kernel /\ p \in Nat /\ d = Kernel[p]
      /\ IsDeclaration(d) /\ stage # "enqueue"
      /\ Chain(s) /\ Block(run[w], s)
  BY <1>1, AtDeclaration
<1>3. PICK v : v = [kind |-> d.kind, id |-> d.id, at |-> Placed(d), bytes |-> d.bytes, align |-> d.align]
  OBVIOUS
<1>4. IsVariable(s, v)
  BY <1>2, <1>3 DEF IsVariable
<1>5. PICK x, y : /\ x = [run[w].at EXCEPT ![t] = @ + 1] /\ y = [run[w].got EXCEPT ![t] = @ \union {v}]
  OBVIOUS
<1>6. x = [run[w].at EXCEPT ![t] = p + 1]
  BY <1>1, <1>5
<1>7. Took(w, t, d, Placed(d)) = [at |-> x, got |-> y, table |-> run[w].table]
  BY <1>3, <1>5, TookIs
<1>8. b = [at |-> x, got |-> y, table |-> table]
  BY <1>1, <1>7
<1>9. Kernel[p].kind # "sync"
  BY <1>1, <1>2
<1>10. Block(b, s)
  <2>1. Block([at    |-> [run[w].at EXCEPT ![t] = p + 1],
               got   |-> [run[w].got EXCEPT ![t] = @ \union {v}],
               table |-> table], s)
    BY <1>1, <1>2, <1>4, <1>9, TookKeeps
  <2> QED
    BY <1>5, <1>6, <1>8, <2>1
<1>11. storage' = [storage EXCEPT ![w] = s]
  BY <1>1 DEF LaunchInv, Blocks
<1>12. WorkerStep(w, b, s)
  BY <1>2, <1>10, <1>11 DEF WorkerStep
<1> QED
  BY <1>2, <1>12, WorkerKeeps

\* Without the table: CUDA/HIP, and dynamic memory on SYCL.
LEMMA PlacedKeeps ==
    ASSUME LaunchInv, NEW w \in Workers, run[w] # Nothing, NEW t \in DOMAIN run[w].at,
           ~ Ended(w, t), Statement(w, t).kind # "sync", DeclareOnGpu(w, t),
           UNCHANGED <<job, stage, frame, grid, next, count>>
    PROVE  LaunchInv'
<1>1. PICK p, d : p = run[w].at[t] /\ d = Statement(w, t)
  OBVIOUS
<1>2. /\ t \in Threads /\ p \in DOMAIN Kernel /\ p \in Nat /\ d = Kernel[p]
      /\ LegalKernel(job.kernel) /\ Block(run[w], storage[w])
  BY <1>1, AtDeclaration
<1>3. /\ job.api = "cuda" \/ (job.api = "sycl" /\ d.kind = "dynamic")
      /\ run' = [run EXCEPT ![w] = Took(w, t, d, Placed(d))] /\ storage' = storage
  BY <1>1 DEF DeclareOnGpu
<1>4. job.api \notin HostApis
  BY <1>3 DEF HostApis
<1>5. PICK table, took : table = run[w].table /\ took = Took(w, t, d, Placed(d))
  OBVIOUS
<1>6. took = [took EXCEPT !.table = table]
  BY <1>5, TookIs
<1>7. ASSUME job.api = "sycl" PROVE Table([run[w].at EXCEPT ![t] = run[w].at[t] + 1], table)
  <2>1. PICK where, new : where = run[w].at /\ new = [run[w].at EXCEPT ![t] = run[w].at[t] + 1]
    OBVIOUS
  <2>2. Table(where, table) /\ where \in [Threads -> Nat \ {0}]
    BY <1>2, <1>5, <1>7, <2>1 DEF Block
  <2>3. \A u \in Threads : new[u] = IF u = t THEN p + 1 ELSE where[u]
    BY <1>1, <2>1, <2>2
  <2>4. p \notin Firsts /\ Declared(p + 1) = Declared(p)
    <3>1. job.kernel[p].kind = "dynamic"
      BY <1>2, <1>3, <1>7 DEF Kernel
    <3>2. p \notin Firsts
      BY <3>1 DEF Firsts
    <3> QED
      BY <1>2, <3>2, DeclaredCounts
  <2>5. \A m \in Firsts : m \in Nat /\ m # p
    BY <1>2, <2>4, KernelPositions
  <2>6. \A u \in Threads, m \in Firsts : new[u] > m => where[u] > m
    BY <1>1, <1>2, <2>1, <2>2, <2>3, <2>5
  <2>7. \A u \in Threads : Declared(new[u]) = Declared(where[u])
    BY <1>1, <2>1, <2>3, <2>4
  <2>8. FirstOf \in Threads
    BY <1>7, FirstIsThread DEF LaunchInv, Blocks
  <2>9. Table(new, table)
    BY <2>2, <2>6, <2>7, <2>8 DEF Table
  <2> QED
    BY <2>1, <2>9
<1> QED
  BY <1>1, <1>3, <1>4, <1>5, <1>6, <1>7, GpuKeeps

\* An entry belongs to one variable.
LEMMA SlotsDiffer ==
    ASSUME LegalKernel(job.kernel), NEW m \in Firsts, NEW q \in Firsts, Slot(m) = Slot(q)
    PROVE  m = q
<1>1. m \in Nat /\ q \in Nat
  BY KernelPositions
<1>2. /\ m < q => Slot(m) <= Declared(q)
      /\ q < m => Slot(q) <= Declared(m)
  BY <1>1, SlotsAreApart
<1>3. Declared(m) \in Nat /\ Declared(q) \in Nat
  BY <1>1, KernelPositions
<1> QED
  BY <1>1, <1>2, <1>3 DEF Slot

\* Variables that are declared first at different positions have different ids.
LEMMA IdsDiffer ==
    ASSUME LegalKernel(job.kernel), NEW m \in Firsts, NEW q \in Firsts,
           job.kernel[m].id = job.kernel[q].id
    PROVE  m = q
<1>1. m \in Nat /\ q \in Nat /\ 1 <= m /\ 1 <= q /\ m \in DOMAIN job.kernel /\ q \in DOMAIN job.kernel
  BY KernelPositions
<1>2. job.kernel[m].kind = "var" /\ job.kernel[q].kind = "var"
  BY DEF Firsts
<1>3. job.kernel[m] = job.kernel[q]
  BY <1>1, <1>2 DEF LegalKernel, IsDeclaration
<1>4. ~ (m < q)
  <2>1. m < q => m \in 1 .. (q - 1)
    BY <1>1
  <2> QED
    BY <1>3, <2>1 DEF Firsts
<1>5. ~ (q < m)
  <2>1. q < m => q \in 1 .. (m - 1)
    BY <1>1
  <2> QED
    BY <1>3, <2>1 DEF Firsts
<1> QED
  BY <1>1, <1>4, <1>5

\* A first declaration enters the variable behind the entries there are.
LEMMA FirstEnters ==
    ASSUME LaunchInv, LegalKernel(job.kernel), NEW where \in [Threads -> Nat \ {0}], NEW table, Table(where, table),
           NEW t \in Threads, NEW p \in Firsts, where[t] = p, NEW d, d = job.kernel[p], FirstOf \in Threads
    PROVE  /\ LookUp(table, t, d) = Null
           /\ Table([where EXCEPT ![t] = p + 1], Enter(table, t, FirstOf, d, Placed(d)))
<1>1. p \in Nat /\ p \in DOMAIN job.kernel /\ Len(job.kernel) \in Nat /\ \A m \in Firsts : m \in Nat
  BY KernelPositions
<1>2. table.count[t] = Declared(p) /\ Declared(p) \in Nat
  BY <1>1, KernelPositions DEF Table
<1>3. ASSUME NEW i \in FoundBy(table, t, d) PROVE FALSE
  <2>1. i \in 1 .. Declared(p) /\ table.entry[i].id = d.id
    BY <1>2, <1>3 DEF FoundBy
  <2>2. PICK m \in Firsts : m < p /\ Slot(m) = i
    BY <1>1, <2>1, SlotsAreFilled
  <2>3. job.kernel[m].id = job.kernel[p].id
    BY <2>1, <2>2 DEF Table, Kernel
  <2>4. m = p
    BY <2>3, IdsDiffer
  <2> QED
    BY <1>1, <2>2, <2>4
<1>4. LookUp(table, t, d) = Null
  BY <1>3 DEF LookUp
<1>5. PICK new, i, c, e : /\ new = [where EXCEPT ![t] = p + 1] /\ i = table.count[t] + 1
                          /\ c = [table.count EXCEPT ![t] = i]
                          /\ e = [table.entry EXCEPT ![i] = [id  |-> d.id,
                                                             ptr |-> IF t = FirstOf THEN Placed(d) ELSE table.entry[i].ptr]]
  OBVIOUS
<1>6. i = Slot(p) /\ i = Declared(p + 1) /\ i \in 1 .. Len(Kernel)
  <2>1. Declared(p + 1) = Declared(p) + 1
    BY <1>1, DeclaredCounts
  <2>2. Slot(p) \in 1 .. Len(job.kernel)
    BY <1>1, SlotsAreApart
  <2> QED
    BY <1>2, <1>5, <2>1, <2>2 DEF Slot, Kernel
<1>7. Enter(table, t, FirstOf, d, Placed(d)) = [entry |-> e, count |-> c]
  <2>1. PICK te, tc : te = table.entry /\ tc = table.count
    OBVIOUS
  <2>2. table = [entry |-> te, count |-> tc]
    BY <2>1 DEF Table
  <2>3. Enter(table, t, FirstOf, d, Placed(d)) = [[table EXCEPT !.count = c] EXCEPT !.entry = e]
    BY <1>5, <2>1, <2>2 DEF Enter
  <2>4. [table EXCEPT !.count = c] = [entry |-> te, count |-> c]
    BY <2>2
  <2>5. [[entry |-> te, count |-> c] EXCEPT !.entry = e] = [entry |-> e, count |-> c]
    OBVIOUS
  <2> QED
    BY <2>3, <2>4, <2>5
<1>8. /\ table.count \in [Threads -> Nat] /\ DOMAIN table.entry = 1 .. Len(Kernel)
      /\ table.entry = [k \in 1 .. Len(Kernel) |-> table.entry[k]]
  BY DEF Table
<1>9. c \in [Threads -> Nat] /\ \A u \in Threads : c[u] = IF u = t THEN i ELSE table.count[u]
  BY <1>2, <1>5, <1>8
<1>10. \A u \in Threads : new[u] = IF u = t THEN p + 1 ELSE where[u]
  BY <1>5
<1>11. /\ DOMAIN e = 1 .. Len(Kernel) /\ e = [k \in 1 .. Len(Kernel) |-> e[k]]
       /\ e[i].id = d.id
       /\ e[i].ptr = IF t = FirstOf THEN Placed(d) ELSE table.entry[i].ptr
       /\ \A k \in 1 .. Len(Kernel) : k # i => e[k] = table.entry[k]
  BY <1>5, <1>6, <1>8
<1>12. \A u \in Threads : c[u] = Declared(new[u])
  BY <1>6, <1>9, <1>10 DEF Table
<1>13. \A m \in Firsts : m # p => Slot(m) # i /\ Slot(m) \in 1 .. Len(Kernel) /\ e[Slot(m)] = table.entry[Slot(m)]
  BY <1>1, <1>6, <1>11, SlotsDiffer, SlotsAreApart DEF Kernel
<1>14. ASSUME NEW m \in Firsts, NEW u \in Threads, new[u] > m PROVE e[Slot(m)].id = Kernel[m].id
  <2>1. CASE m = p
    BY <1>6, <1>11, <2>1 DEF Kernel
  <2>2. CASE m # p
    <3>1. where[u] > m
      <4>1. where[u] \in Nat /\ m \in Nat
        BY <1>1
      <4>2. CASE u = t
        BY <1>1, <1>10, <1>14, <2>2, <4>1, <4>2
      <4>3. CASE u # t
        BY <1>10, <1>14, <4>3
      <4> QED
        BY <4>2, <4>3
    <3> QED
      BY <1>13, <2>2, <3>1 DEF Table
  <2> QED
    BY <2>1, <2>2
<1>15. ASSUME NEW m \in Firsts, new[FirstOf] > m PROVE e[Slot(m)].ptr = Placed(Kernel[m])
  <2>1. CASE m = p /\ t = FirstOf
    BY <1>6, <1>11, <2>1 DEF Kernel
  <2>2. CASE m = p /\ t # FirstOf
    <3>1. where[FirstOf] > m
      BY <1>10, <1>15, <2>2
    <3>2. table.entry[Slot(m)].ptr = Placed(Kernel[m])
      BY <3>1 DEF Table
    <3> QED
      BY <1>6, <1>11, <2>2, <3>2
  <2>3. CASE m # p
    <3>1. where[FirstOf] > m
      <4>1. where[FirstOf] \in Nat /\ m \in Nat
        BY <1>1
      <4>2. CASE FirstOf = t
        BY <1>1, <1>10, <1>15, <2>3, <4>1, <4>2
      <4>3. CASE FirstOf # t
        BY <1>10, <1>15, <4>3
      <4> QED
        BY <4>2, <4>3
    <3> QED
      BY <1>13, <2>3, <3>1 DEF Table
  <2> QED
    BY <2>1, <2>2, <2>3
<1>16. PICK n : n = [entry |-> e, count |-> c]
  OBVIOUS
<1>17. n.entry = e /\ n.count = c
  BY <1>16
<1>18. Table(new, n)
  BY <1>9, <1>11, <1>12, <1>14, <1>15, <1>16, <1>17 DEF Table
<1> QED
  BY <1>4, <1>5, <1>7, <1>16, <1>18

Finds(where, table, t, p, d) ==
    /\ LookUp(table, t, d) = Placed(d) /\ Placed(d) # Null
    /\ Table([where EXCEPT ![t] = p + 1], table)

\* A later declaration finds the entry, which the leader has filled: between
\* the two declarations all threads met.
LEMMA LaterFinds ==
    ASSUME LaunchInv, job.api = "sycl", NEW where \in [Threads -> Nat \ {0}], NEW table,
           Table(where, table), Together(where),
           NEW t \in Threads, NEW p \in DOMAIN job.kernel, p \notin Firsts, where[t] = p,
           NEW d, d = job.kernel[p], d.kind = "var", FirstOf \in Threads
    PROVE  Finds(where, table, t, p, d)
<1>1. LegalKernel(job.kernel) /\ LegalJob(job)
  BY DEF LaunchInv, Launched, LegalJob
<1>2. PICK q \in Firsts : q <= p /\ job.kernel[q] = job.kernel[p]
  BY <1>1, FirstBefore
<1>3. /\ p \in Nat /\ q \in Nat /\ 1 <= q /\ q \in DOMAIN job.kernel /\ q < p
      /\ \A m \in Firsts : m \in Nat /\ m # p
  <2>1. \A m \in Firsts : m \in Nat /\ 1 <= m /\ m \in DOMAIN job.kernel
    BY <1>1, KernelPositions
  <2>2. p \in Nat
    BY <1>1, KernelPositions
  <2>3. \A m \in Firsts : m # p
    OBVIOUS
  <2> QED
    BY <1>2, <2>1, <2>2, <2>3
<1>4. where[FirstOf] > q
  <2>1. q \in 1 .. (p - 1)
    BY <1>3
  <2>2. BarrierBetween(job.kernel, q, p)
    BY <1>1, <1>2, <2>1 DEF LegalJob
  <2>3. PICK n \in (q + 1) .. (p - 1) : job.kernel[n].kind = "sync"
    BY <2>2 DEF BarrierBetween
  <2>4. n \in Nat /\ q < n /\ n < p /\ n \in DOMAIN Kernel
    <3>1. p <= Len(job.kernel) /\ DOMAIN job.kernel = 1 .. Len(job.kernel) /\ Len(job.kernel) \in Nat
      BY <1>1, KernelPositions
    <3> QED
      BY <1>3, <2>3, <3>1 DEF Kernel
  <2>5. where[FirstOf] > n
    BY <2>3, <2>4 DEF Together, Kernel
  <2> QED
    BY <1>3, <2>4, <2>5
<1>5. table.entry[Slot(q)].id = d.id /\ table.entry[Slot(q)].ptr = Placed(d)
  BY <1>2, <1>4 DEF Table, Kernel
<1>6. table.count[t] = Declared(p) /\ Slot(q) \in 1 .. Declared(p)
  <2>1. Slot(q) \in 1 .. Len(job.kernel) /\ Slot(q) <= Declared(p) /\ Declared(p) \in Nat
    BY <1>1, <1>3, SlotsAreApart, KernelPositions
  <2> QED
    BY <2>1 DEF Table
<1>7. FoundBy(table, t, d) = {Slot(q)}
  <2>1. ASSUME NEW i \in FoundBy(table, t, d) PROVE i = Slot(q)
    <3>1. i \in 1 .. Declared(p) /\ table.entry[i].id = d.id
      BY <1>6, <2>1 DEF FoundBy
    <3>2. PICK m \in Firsts : m < p /\ Slot(m) = i
      BY <1>1, <1>3, <3>1, SlotsAreFilled
    <3>3. job.kernel[m].id = job.kernel[q].id
      BY <1>2, <3>1, <3>2 DEF Table, Kernel
    <3> QED
      BY <1>1, <3>2, <3>3, IdsDiffer
  <2>2. Slot(q) \in FoundBy(table, t, d)
    BY <1>5, <1>6 DEF FoundBy
  <2> QED
    BY <2>1, <2>2
<1>8. LookUp(table, t, d) = Placed(d)
  <2>1. Slot(q) \in Nat
    BY <1>6
  <2>2. (CHOOSE i \in FoundBy(table, t, d) : \A j \in FoundBy(table, t, d) : i <= j) = Slot(q)
    BY <1>7, <2>1
  <2> QED
    BY <1>5, <1>7, <2>2 DEF LookUp
<1>9. Placed(d) # Null
  <2>1. IsDeclaration(Kernel[p]) /\ p \in DOMAIN Kernel /\ LegalKernel(Kernel)
    BY <1>1 DEF IsDeclaration, Kernel
  <2>2. Placed(Kernel[p]) \in Nat
    BY <2>1, PlacesAreApart
  <2> QED
    BY <2>2, PointerAssumption DEF Kernel
<1>10. PICK new : new = [where EXCEPT ![t] = p + 1]
  OBVIOUS
<1>11. \A u \in Threads : new[u] = IF u = t THEN p + 1 ELSE where[u]
  BY <1>10
<1>12. \A u \in Threads, m \in Firsts : new[u] > m => where[u] > m
  BY <1>3, <1>11
<1>13. \A u \in Threads : Declared(new[u]) = Declared(where[u])
  <2>1. Declared(p + 1) = Declared(p)
    BY <1>1, <1>3, DeclaredCounts
  <2> QED
    BY <1>11, <2>1
<1>14. Table(new, table)
  BY <1>12, <1>13 DEF Table
<1> QED
  BY <1>8, <1>9, <1>10, <1>14 DEF Finds

\* A declaration of a variable on SYCL, first or later.
LEMMA TableKeeps ==
    ASSUME LaunchInv, NEW w \in Workers, run[w] # Nothing, NEW t \in DOMAIN run[w].at,
           ~ Ended(w, t), Statement(w, t).kind # "sync", DeclareVarOnSycl(w, t),
           UNCHANGED <<job, stage, frame, grid, next, count>>
    PROVE  LaunchInv'
<1>1. PICK p, d, where, table : p = run[w].at[t] /\ d = Statement(w, t) /\ where = run[w].at /\ table = run[w].table
  OBVIOUS
<1>2. /\ t \in Threads /\ p \in DOMAIN job.kernel /\ p \in Nat /\ d = job.kernel[p] /\ stage # "enqueue"
      /\ LegalKernel(job.kernel) /\ Block(run[w], storage[w])
  BY <1>1, AtDeclaration DEF Kernel
<1>3. job.api = "sycl" /\ d.kind = "var" /\ storage' = storage /\ job.api \notin HostApis
  BY <1>1 DEF DeclareVarOnSycl, HostApis
<1>4. FirstOf \in Threads
  BY <1>2, <1>3, FirstIsThread
<1>5. Leader(w) = FirstOf
  BY <1>2 DEF Leader, FirstOf, Block
<1>6. where \in [Threads -> Nat \ {0}] /\ Table(where, table) /\ Together(where) /\ where[t] = p
  BY <1>1, <1>2, <1>3 DEF Block
<1>7. PICK found, new, place :
         /\ found = LookUp(table, t, d)
         /\ new = IF found = Null THEN Enter(table, t, FirstOf, d, Placed(d)) ELSE table
         /\ place = IF found = Null THEN Placed(d) ELSE found
  OBVIOUS
<1>8. run' = [run EXCEPT ![w] = [Took(w, t, d, place) EXCEPT !.table = new]]
  BY <1>1, <1>5, <1>7 DEF DeclareVarOnSycl
<1>9. place = Placed(d) /\ Table([where EXCEPT ![t] = p + 1], new)
  <2>1. CASE p \in Firsts
    <3>1. LookUp(table, t, d) = Null /\ Table([where EXCEPT ![t] = p + 1], Enter(table, t, FirstOf, d, Placed(d)))
      BY <1>2, <1>4, <1>6, <2>1, FirstEnters
    <3> QED
      BY <1>7, <3>1
  <2>2. CASE p \notin Firsts
    <3>1. /\ LookUp(table, t, d) = Placed(d) /\ Placed(d) # Null
          /\ Table([where EXCEPT ![t] = p + 1], table)
      <4>1. /\ job.api = "sycl" /\ where \in [Threads -> Nat \ {0}] /\ Table(where, table) /\ Together(where)
            /\ t \in Threads /\ p \in DOMAIN job.kernel /\ p \notin Firsts /\ where[t] = p
            /\ d = job.kernel[p] /\ d.kind = "var" /\ FirstOf \in Threads
        BY <1>2, <1>3, <1>4, <1>6, <2>2
      <4>2. Finds(where, table, t, p, d)
        BY <4>1, LaterFinds
      <4> QED
        BY <4>2 DEF Finds
    <3> QED
      BY <1>7, <3>1
  <2> QED
    BY <2>1, <2>2
<1>10. PICK b : b = [Took(w, t, d, place) EXCEPT !.table = new]
  OBVIOUS
<1> QED
  BY <1>1, <1>3, <1>8, <1>9, <1>10, GpuKeeps

\* A barrier: the threads are all at the same one.
LEMMA BarrierKeeps ==
    ASSUME LaunchInv, NEW w \in Workers, Synchronise(w)
    PROVE  LaunchInv'
<1>1. PICK b0, s, where : b0 = run[w] /\ s = storage[w] /\ where = run[w].at
  OBVIOUS
<1>2. /\ Chain(s) /\ Block(b0, s) /\ LegalKernel(job.kernel) /\ stage # "enqueue"
  BY <1>1 DEF LaunchInv, Launched, LegalJob, Blocks, Synchronise
<1>3. /\ b0 = [at |-> where, got |-> b0.got, table |-> b0.table]
      /\ where \in [Threads -> Nat \ {0}] /\ Together(where)
      /\ job.api = "sycl" => Table(where, b0.table)
  BY <1>1, <1>2 DEF Block
<1>4. PICK new : new = [t \in Threads |-> where[t] + 1]
  OBVIOUS
<1>5. PICK got, table : got = b0.got /\ table = b0.table
  OBVIOUS
<1>6. PICK b : b = [at |-> new, got |-> got, table |-> table]
  OBVIOUS
<1>7. run' = [run EXCEPT ![w] = b]
  <2>1. run' = [run EXCEPT ![w] = [b0 EXCEPT !.at = new]]
    <3>1. DOMAIN where = Threads
      BY <1>3
    <3>2. new = [t \in DOMAIN where |-> where[t] + 1]
      BY <1>4, <3>1
    <3> QED
      BY <1>1, <3>2 DEF Synchronise, LaunchInv, Blocks
  <2>2. [b0 EXCEPT !.at = new] = b
    BY <1>3, <1>5, <1>6
  <2> QED
    BY <2>1, <2>2
<1>8. \A t \in Threads : where[t] \in DOMAIN Kernel /\ where[t] \in Nat /\ Kernel[where[t]].kind = "sync" /\ new[t] = where[t] + 1
  <2>1. DOMAIN job.kernel = 1 .. Len(job.kernel) /\ Len(job.kernel) \in Nat
    BY <1>2, KernelPositions
  <2>2. DOMAIN where = Threads
    BY <1>3
  <2>3. ASSUME NEW t \in Threads PROVE ~ Ended(w, t) /\ Statement(w, t).kind = "sync"
    BY <1>1, <2>2 DEF Synchronise
  <2> QED
    BY <1>1, <1>3, <1>4, <2>1, <2>3 DEF Ended, Statement, Kernel
<1>9. \A t, u \in Threads : where[t] = where[u]
  BY <1>3, <1>8 DEF Together
<1>10. Together(new)
  <2>1. \A m \in DOMAIN Kernel : m \in Nat
    BY <1>2, KernelPositions DEF Kernel
  <2>2. \A t, u \in Threads : new[t] = new[u]
    BY <1>8, <1>9
  <2> QED
    BY <2>1, <2>2 DEF Together
<1>11. ASSUME job.api = "sycl" PROVE Table(new, table)
  <2>1. \A t \in Threads : where[t] \notin Firsts
    BY <1>8 DEF Firsts, Kernel
  <2>2. \A t \in Threads : Declared(new[t]) = Declared(where[t])
    BY <1>2, <1>8, <2>1, DeclaredCounts
  <2>3. \A m \in Firsts, t \in Threads : new[t] > m => where[t] > m
    <3>1. \A m \in Firsts : m \in Nat
      BY <1>2, KernelPositions
    <3> QED
      BY <1>8, <2>1, <3>1
  <2>4. FirstOf \in Threads
    BY <1>2, <1>11, FirstIsThread
  <2>5. Table(where, table)
    BY <1>3, <1>5, <1>11
  <2> QED
    BY <2>2, <2>3, <2>4, <2>5 DEF Table
<1>12. b.at = new /\ b.got = got /\ b.table = table
  BY <1>6
<1>13. Block(b, s)
  <2>1. got = [t \in Threads |-> got[t]] /\ \A t \in Threads : \A v \in got[t] : IsVariable(s, v)
    BY <1>2, <1>5 DEF Block
  <2>2. new \in [Threads -> Nat \ {0}]
    BY <1>4, <1>8
  <2> QED
    BY <1>6, <1>10, <1>11, <1>12, <2>1, <2>2 DEF Block
<1>14. storage' = [storage EXCEPT ![w] = s]
  BY <1>1 DEF LaunchInv, Blocks, Synchronise
<1>15. WorkerStep(w, b, s)
  BY <1>2, <1>7, <1>13, <1>14 DEF WorkerStep, Synchronise
<1> QED
  BY <1>2, <1>15, WorkerKeeps

\* The end of a block leaves its storage.
LEMMA EndKeeps ==
    ASSUME LaunchInv, NEW w \in Workers, EndBlock(w)
    PROVE  LaunchInv'
<1>1. PICK s : s = storage[w]
  OBVIOUS
<1>2. Chain(s) /\ stage # "enqueue" /\ storage' = [storage EXCEPT ![w] = s]
  BY <1>1 DEF LaunchInv, Blocks, EndBlock
<1>3. WorkerStep(w, Nothing, s)
  BY <1>2 DEF WorkerStep, EndBlock
<1> QED
  BY <1>2, <1>3, WorkerKeeps

\* Every step keeps the invariant.
LEMMA LaunchStep ==
    ASSUME LaunchInv, [Next]_vars
    PROVE  LaunchInv'
<1>1. CASE EnqueueOnCudaHip
  BY <1>1, LaunchLaunches DEF EnqueueOnCudaHip
<1>2. CASE EnqueueOnSycl
  BY <1>2, LaunchLaunches DEF EnqueueOnSycl
<1>3. CASE EnqueueOnHost
  BY <1>3, LaunchLaunches DEF EnqueueOnHost
<1>4. CASE EndKernel
  BY <1>4, LaunchIdles DEF EndKernel
<1>5. ASSUME NEW w \in Workers, StartBlock(w) PROVE LaunchInv'
  BY <1>5, StartKeeps
<1>6. ASSUME NEW w \in Workers, Declare(w) PROVE LaunchInv'
  <2>1. /\ run[w] # Nothing /\ UNCHANGED <<job, stage, frame, grid, next, count>>
        /\ \E t \in DOMAIN run[w].at :
              /\ ~Ended(w, t) /\ Statement(w, t).kind # "sync"
              /\ DeclareOnHost(w, t) \/ DeclareVarOnSycl(w, t) \/ DeclareOnGpu(w, t)
    BY <1>6 DEF Declare
  <2> QED
    BY <2>1, HostKeeps, TableKeeps, PlacedKeeps
<1>7. ASSUME NEW w \in Workers, Synchronise(w) PROVE LaunchInv'
  BY <1>7, BarrierKeeps
<1>8. ASSUME NEW w \in Workers, EndBlock(w) PROVE LaunchInv'
  BY <1>8, EndKeeps
<1>9. CASE UNCHANGED vars
  BY <1>9, LaunchIdles DEF vars
<1> QED
  BY <1>1, <1>2, <1>3, <1>4, <1>5, <1>6, <1>7, <1>8, <1>9 DEF Next

-----------------------------------------------------------------------------
(***************************************************************************)
(* FloatingPoint: with an even number of significands, 2 * h, the reals    *)
(* are the multiples of their spacing, and rounding passes none of them.   *)
(***************************************************************************)
\* Induction over the naturals, from all the smaller ones.
LEMMA StrongInduction ==
    ASSUME NEW S, \A n \in Nat : (\A m \in 0 .. n - 1 : m \in S) => n \in S
    PROVE  Nat \subseteq S
<1> DEFINE T == {n \in Nat : \A m \in 0 .. n : m \in S}
<1>1. 0 \in T
  <2>1. 0 \in S
    OBVIOUS
  <2> QED
    BY <2>1
<1>2. ASSUME NEW n \in Nat, n \in T PROVE n + 1 \in T
  <2>1. n + 1 \in S
    BY <1>2
  <2>2. \A m \in 0 .. n + 1 : m \in 0 .. n \/ m = n + 1
    OBVIOUS
  <2> QED
    BY <1>2, <2>1, <2>2
<1>3. Nat \subseteq T
  <2> HIDE DEF T
  <2> QED
    BY <1>1, <1>2, SetInduction
<1>4. ASSUME NEW n \in Nat PROVE n \in S
  <2>1. n \in T /\ n \in 0 .. n
    BY <1>3
  <2> QED
    BY <2>1
<1> QED
  BY <1>4

\* Half of a number.
LEMMA Half ==
    ASSUME NEW n \in Nat
    PROVE  n \div 2 \in Nat /\ (n = 2 * (n \div 2) \/ n = 2 * (n \div 2) + 1)
  OBVIOUS

\* The spacings are defined: approximations of the recursive function agree.
Approximates(f, q, n) == f = [m \in 0 .. n |-> IF m < q THEN 1 ELSE 2 * f[m \div 2]]

LEMMA ApproximationsAgree ==
    ASSUME NEW q \in Nat, q > 1, NEW n \in Nat, NEW k \in Nat, NEW f, NEW g,
           Approximates(f, q, n), Approximates(g, q, k)
    PROVE  \A m \in Nat : m <= n /\ m <= k => f[m] = g[m]
<1> DEFINE S == {m \in Nat : m <= n /\ m <= k => f[m] = g[m]}
<1>1. ASSUME NEW m \in Nat, \A i \in 0 .. m - 1 : i \in S PROVE m \in S
  <2> SUFFICES ASSUME m <= n, m <= k PROVE f[m] = g[m]
    OBVIOUS
  <2>1. /\ f[m] = IF m < q THEN 1 ELSE 2 * f[m \div 2]
        /\ g[m] = IF m < q THEN 1 ELSE 2 * g[m \div 2]
    <3>1. m \in 0 .. n /\ m \in 0 .. k
      OBVIOUS
    <3>2. f[m] = IF m < q THEN 1 ELSE 2 * f[m \div 2]
      BY <3>1 DEF Approximates
    <3>3. g[m] = IF m < q THEN 1 ELSE 2 * g[m \div 2]
      BY <3>1 DEF Approximates
    <3> QED
      BY <3>2, <3>3
  <2>2. CASE m < q
    BY <2>1, <2>2
  <2>3. CASE ~ (m < q)
    <3>1. m \div 2 \in 0 .. m - 1 /\ m \div 2 <= n /\ m \div 2 <= k
      BY <2>3
    <3>2. f[m \div 2] = g[m \div 2]
      BY <1>1, <3>1
    <3> QED
      BY <2>1, <2>3, <3>2
  <2> QED
    BY <2>2, <2>3
<1>2. Nat \subseteq S
  <2> HIDE DEF S
  <2> QED
    BY <1>1, StrongInduction
<1> QED
  BY <1>2

LEMMA ApproximationsExist ==
    ASSUME NEW q \in Nat, q > 1
    PROVE  \A n \in Nat : \E f : Approximates(f, q, n)
<1> DEFINE S == {n \in Nat : \E f : Approximates(f, q, n)}
<1>1. 0 \in S
  <2> DEFINE f == [m \in 0 .. 0 |-> 1]
  <2>1. \A m \in 0 .. 0 : m < q
    OBVIOUS
  <2>2. f = [m \in 0 .. 0 |-> IF m < q THEN 1 ELSE 2 * f[m \div 2]]
    BY <2>1
  <2> QED
    BY <2>2 DEF Approximates
<1>2. ASSUME NEW n \in Nat, n \in S PROVE n + 1 \in S
  <2>1. PICK f : Approximates(f, q, n)
    BY <1>2
  <2> DEFINE g == [m \in 0 .. n + 1 |-> IF m <= n THEN f[m] ELSE IF m < q THEN 1 ELSE 2 * f[m \div 2]]
  <2>2. ASSUME NEW m \in 0 .. n + 1 PROVE g[m] = IF m < q THEN 1 ELSE 2 * g[m \div 2]
    <3>1. g[m] = IF m < q THEN 1 ELSE 2 * f[m \div 2]
      <4>1. m <= n => f[m] = IF m < q THEN 1 ELSE 2 * f[m \div 2]
        BY <2>1 DEF Approximates
      <4> QED
        BY <4>1
    <3>2. ~ (m < q) => g[m \div 2] = f[m \div 2]
      <4>1. ~ (m < q) => m \div 2 \in 0 .. n + 1 /\ m \div 2 <= n
        OBVIOUS
      <4> QED
        BY <4>1
    <3> HIDE DEF g
    <3> QED
      BY <3>1, <3>2
  <2>3. g = [m \in 0 .. n + 1 |-> IF m < q THEN 1 ELSE 2 * g[m \div 2]]
    <3>1. g = [m \in 0 .. n + 1 |-> g[m]]
      OBVIOUS
    <3> HIDE DEF g
    <3> QED
      BY <2>2, <3>1
  <2>4. Approximates(g, q, n + 1)
    <3> HIDE DEF g
    <3> QED
      BY <2>3 DEF Approximates
  <2> QED
    BY <2>4
<1>3. Nat \subseteq S
  <2> HIDE DEF S
  <2> QED
    BY <1>1, <1>2, SetInduction
<1> QED
  BY <1>3

\* Ulp doubles when a number with its significands leaves no room.
LEMMA UlpIsDefined ==
    ASSUME NEW q \in Nat, q > 1, NEW n \in Nat
    PROVE  Ulp(q, n) = IF n < q THEN 1 ELSE 2 * Ulp(q, n \div 2)
<1> DEFINE F(k) == CHOOSE f : Approximates(f, q, k)
           G == [m \in Nat |-> F(m)[m]]
<1>1. \A k \in Nat : Approximates(F(k), q, k)
  BY ApproximationsExist
<1> HIDE DEF F
<1>2. ASSUME NEW m \in Nat PROVE F(m)[m] = IF m < q THEN 1 ELSE 2 * F(m \div 2)[m \div 2]
  <2>1. F(m)[m] = IF m < q THEN 1 ELSE 2 * F(m)[m \div 2]
    BY <1>1 DEF Approximates
  <2>2. ASSUME ~ (m < q) PROVE F(m)[m \div 2] = F(m \div 2)[m \div 2]
    <3>1. PICK k \in Nat : k = m \div 2 /\ k <= m
      BY Half
    <3>2. PICK f : f = F(m)
      OBVIOUS
    <3>3. PICK g : g = F(k)
      OBVIOUS
    <3>4. Approximates(f, q, m) /\ Approximates(g, q, k)
      BY <1>1, <3>2, <3>3
    <3>5. f[k] = g[k]
      BY <3>1, <3>4, ApproximationsAgree
    <3> QED
      BY <3>1, <3>2, <3>3, <3>5
  <2> QED
    BY <2>1, <2>2
<1>3. G = [m \in Nat |-> IF m < q THEN 1 ELSE 2 * G[m \div 2]]
  <2>1. \A m \in Nat : m \div 2 \in Nat
    BY Half
  <2>2. \A m \in Nat : G[m] = IF m < q THEN 1 ELSE 2 * G[m \div 2]
    BY <1>2, <2>1
  <2>3. G = [m \in Nat |-> G[m]]
    OBVIOUS
  <2> HIDE DEF G
  <2> QED
    BY <2>2, <2>3
<1>4. \E g : g = [m \in Nat |-> IF m < q THEN 1 ELSE 2 * g[m \div 2]]
  BY <1>3
<1>5. PICK g : g = Spacing(q)
  OBVIOUS
<1>6. g = [m \in Nat |-> IF m < q THEN 1 ELSE 2 * g[m \div 2]]
  BY <1>4, <1>5, Zenon DEF Spacing
<1>7. g[n] = IF n < q THEN 1 ELSE 2 * g[n \div 2]
  BY <1>6
<1> QED
  BY <1>5, <1>7 DEF Ulp

\* A number has its significands, and needs most of them. The spacing grows with
\* the number, by doubling.
LEMMA UlpFits ==
    ASSUME NEW h \in Nat \ {0}, NEW n \in Nat
    PROVE  /\ Ulp(2 * h, n) \in Nat \ {0}
           /\ n < 2 * (h * Ulp(2 * h, n))
           /\ Ulp(2 * h, n) > 1 => h * Ulp(2 * h, n) <= n
           /\ n < 2 * h <=> Ulp(2 * h, n) = 1
<1> DEFINE U(m) == Ulp(2 * h, m)
           S == {m \in Nat : U(m) \in Nat \ {0} /\ m < 2 * (h * U(m)) /\ (U(m) > 1 => h * U(m) <= m)
                             /\ (m < 2 * h <=> U(m) = 1)}
<1>1. ASSUME NEW m \in Nat PROVE U(m) = IF m < 2 * h THEN 1 ELSE 2 * U(m \div 2)
  <2>1. 2 * h \in Nat /\ 2 * h > 1
    OBVIOUS
  <2> QED
    BY <2>1, UlpIsDefined
<1>2. ASSUME NEW m \in Nat, \A i \in 0 .. m - 1 : i \in S PROVE m \in S
  <2>1. CASE m < 2 * h
    <3>1. U(m) = 1 /\ h * 1 = h
      BY <1>1, <2>1
    <3> HIDE DEF U
    <3> QED
      BY <2>1, <3>1
  <2>2. CASE ~ (m < 2 * h)
    <3>1. PICK k \in Nat : k = m \div 2 /\ (m = 2 * k \/ m = 2 * k + 1)
      BY Half
    <3>2. k \in 0 .. m - 1 /\ U(m) = 2 * U(k)
      BY <1>1, <2>2, <3>1
    <3>3. k \in S
      BY <1>2, <3>2
    <3> HIDE DEF U
    <3>4. PICK u \in Nat \ {0} : u = U(k)
      BY <3>3
    <3>5. PICK a \in Nat : a = h * u
      OBVIOUS
    <3>6. h * (2 * u) = 2 * a
      BY <3>5
    <3>7. k < 2 * a /\ (u > 1 => a <= k) /\ (u = 1 => a = h)
      BY <3>3, <3>4, <3>5
    <3>8. m < 2 * (2 * a) /\ 2 * a <= m
      BY <2>2, <3>1, <3>4, <3>7
    <3>9. U(m) = 2 * u
      BY <3>2, <3>4
    <3> QED
      BY <2>2, <3>4, <3>6, <3>8, <3>9
  <2> QED
    BY <2>1, <2>2
<1>3. Nat \subseteq S
  <2> HIDE DEF S
  <2> QED
    BY <1>2, StrongInduction
<1> QED
  BY <1>3

LEMMA UlpGrows ==
    ASSUME NEW h \in Nat \ {0}, NEW n \in Nat, NEW m \in Nat, m <= n
    PROVE  Ulp(2 * h, m) = Ulp(2 * h, n) \/ 2 * Ulp(2 * h, m) <= Ulp(2 * h, n)
<1> DEFINE U(i) == Ulp(2 * h, i)
           S == {i \in Nat : \A k \in 0 .. i : U(k) = U(i) \/ 2 * U(k) <= U(i)}
<1>1. ASSUME NEW i \in Nat PROVE U(i) \in Nat \ {0} /\ U(i) = IF i < 2 * h THEN 1 ELSE 2 * U(i \div 2)
  <2>1. 2 * h \in Nat /\ 2 * h > 1
    OBVIOUS
  <2> QED
    BY <2>1, UlpIsDefined, UlpFits
<1> HIDE DEF U
<1>2. ASSUME NEW i \in Nat, \A k \in 0 .. i - 1 : k \in S PROVE i \in S
  <2> SUFFICES ASSUME NEW k \in 0 .. i PROVE U(k) = U(i) \/ 2 * U(k) <= U(i)
    OBVIOUS
  <2>1. CASE i < 2 * h
    BY <1>1, <2>1
  <2>2. CASE ~ (i < 2 * h) /\ k < 2 * h
    <3>1. U(k) = 1 /\ U(i) = 2 * U(i \div 2) /\ U(i \div 2) \in Nat \ {0}
      BY <1>1, <2>2, Half
    <3> QED
      BY <3>1
  <2>3. CASE ~ (i < 2 * h) /\ ~ (k < 2 * h)
    <3>1. PICK j \in Nat : j = i \div 2 /\ (i = 2 * j \/ i = 2 * j + 1)
      BY Half
    <3>2. PICK l \in Nat : l = k \div 2 /\ (k = 2 * l \/ k = 2 * l + 1)
      BY Half
    <3>3. j \in 0 .. i - 1 /\ l \in 0 .. j
      BY <2>3, <3>1, <3>2
    <3>4. U(l) = U(j) \/ 2 * U(l) <= U(j)
      BY <1>2, <3>3
    <3>5. U(i) = 2 * U(j) /\ U(k) = 2 * U(l) /\ U(j) \in Nat /\ U(l) \in Nat
      BY <1>1, <2>3, <3>1, <3>2
    <3> QED
      BY <3>4, <3>5
  <2> QED
    BY <2>1, <2>2, <2>3
<1>3. Nat \subseteq S
  <2> HIDE DEF S
  <2> QED
    BY <1>2, StrongInduction
<1>4. n \in S /\ m \in 0 .. n
  BY <1>3
<1> QED
  BY <1>4 DEF U

\* What h significands and a spacing u make of a number: a multiple and a rest.
Parts(h, n, u, d, r) ==
    /\ u = Ulp(2 * h, n) /\ n = u * d + r /\ r < u /\ d < 2 * h /\ (u > 1 => h <= d)

LEMMA PartsOf ==
    ASSUME NEW h \in Nat \ {0}, NEW n \in Nat
    PROVE  \E u \in Nat \ {0} : \E d \in Nat : \E r \in Nat : 
              /\ Parts(h, n, u, d, r)
              /\ \/ RoundTo(2 * h, n) = u * d /\ 2 * r <= u
                 \/ RoundTo(2 * h, n) = u * (d + 1) /\ u <= 2 * r /\ 0 < r
<1>1. PICK u \in Nat \ {0} : u = Ulp(2 * h, n)
  BY UlpFits
<1>2. n < 2 * (h * u) /\ (u > 1 => h * u <= n)
  BY <1>1, UlpFits
<1>3. PICK d \in Nat, r \in Nat : d = n \div u /\ r = n % u /\ r < u /\ n = u * d + r
  <2>1. n \div u \in Nat /\ n % u \in Nat /\ n % u < u /\ n = u * (n \div u) + (n % u)
    BY Division
  <2> QED
    BY <2>1
<1>4. d < 2 * h
  <2>1. SUFFICES ASSUME 2 * h <= d PROVE FALSE
    OBVIOUS
  <2>2. (2 * h) * u <= d * u
    BY <2>1, ProductOrder
  <2>3. (2 * h) * u = 2 * (h * u) /\ d * u = u * d /\ h * u \in Nat /\ u * d \in Nat
    OBVIOUS
  <2> QED
    BY <1>2, <1>3, <2>2, <2>3
<1>5. ASSUME u > 1 PROVE h <= d
  <2>1. SUFFICES ASSUME d + 1 <= h PROVE FALSE
    OBVIOUS
  <2>2. (d + 1) * u <= h * u
    BY <2>1, ProductOrder
  <2>3. (d + 1) * u = u * d + u /\ h * u \in Nat /\ u * d \in Nat
    OBVIOUS
  <2> QED
    BY <1>2, <1>3, <1>5, <2>2, <2>3
<1>6. Abs(n) = n
  BY DEF Abs
<1> DEFINE up == 2 * r > u \/ (2 * r = u /\ d % 2 = 1)
<1>7. RoundTo(2 * h, n) = 1 * u * (IF up THEN d + 1 ELSE d)
  BY <1>1, <1>3, <1>6 DEF RoundTo
<1>8. (RoundTo(2 * h, n) = u * d /\ 2 * r <= u) \/ (RoundTo(2 * h, n) = u * (d + 1) /\ u <= 2 * r /\ 0 < r)
  <2>1. CASE up
    <3>1. u <= 2 * r /\ 0 < r
      BY <2>1
    <3>2. RoundTo(2 * h, n) = 1 * u * (d + 1)
      BY <1>7, <2>1
    <3> QED
      BY <3>1, <3>2
  <2>2. CASE ~ up
    <3>1. RoundTo(2 * h, n) = 1 * u * d
      BY <1>7, <2>2
    <3>2. 2 * r <= u
      BY <2>2
    <3> QED
      BY <3>1, <3>2
  <2> QED
    BY <2>1, <2>2
<1> QED
  BY <1>1, <1>3, <1>4, <1>5, <1>8 DEF Parts

\* A real is a multiple of its spacing.
Rounded(h, x) == RoundTo(2 * h, x) = x

LEMMA RoundedIsMultiple ==
    ASSUME NEW h \in Nat \ {0}, NEW n \in Nat, Rounded(h, n)
    PROVE  \E u \in Nat \ {0} : \E d \in Nat : 
              u = Ulp(2 * h, n) /\ n = u * d /\ d < 2 * h /\ (u > 1 => h <= d)
<1>1. PICK u \in Nat \ {0} : \E d \in Nat : \E r \in Nat :
          /\ Parts(h, n, u, d, r)
          /\ \/ RoundTo(2 * h, n) = u * d /\ 2 * r <= u
             \/ RoundTo(2 * h, n) = u * (d + 1) /\ u <= 2 * r /\ 0 < r
  BY PartsOf
<1>2. PICK d \in Nat : \E r \in Nat :
          /\ Parts(h, n, u, d, r)
          /\ \/ RoundTo(2 * h, n) = u * d /\ 2 * r <= u
             \/ RoundTo(2 * h, n) = u * (d + 1) /\ u <= 2 * r /\ 0 < r
  BY <1>1
<1>3. PICK r \in Nat :
          /\ Parts(h, n, u, d, r)
          /\ \/ RoundTo(2 * h, n) = u * d /\ 2 * r <= u
             \/ RoundTo(2 * h, n) = u * (d + 1) /\ u <= 2 * r /\ 0 < r
  BY <1>2
<1>4. u * (d + 1) = u * d + u /\ u * d \in Nat
  OBVIOUS
<1>5. n = u * d
  BY <1>3, <1>4 DEF Parts, Rounded
<1> QED
  BY <1>3, <1>5 DEF Parts

\* Between two powers of two the spacing is the same.
LEMMA SameSpacing ==
    ASSUME NEW h \in Nat \ {0}, NEW n \in Nat, NEW u \in Nat \ {0}, u = Ulp(2 * h, n),
           NEW w \in Nat, h * u <= w \/ u = 1, w < 2 * (h * u)
    PROVE  Ulp(2 * h, w) = u
<1>1. PICK v \in Nat \ {0} : v = Ulp(2 * h, w)
  BY UlpFits
<1>2. w < 2 * (h * v) /\ (v > 1 => h * v <= w) /\ (w < 2 * h <=> v = 1)
  BY <1>1, UlpFits
<1>3. CASE u = 1
  BY <1>1, <1>2, <1>3
<1>4. CASE u # 1 /\ v < u
  <2>1. 2 * v <= u
    <3>1. CASE w <= n
      BY <1>1, <1>4, <3>1, UlpGrows
    <3>2. CASE n <= w
      <4>1. u = v \/ 2 * u <= v
        BY <1>1, <3>2, UlpGrows
      <4> QED
        BY <1>4, <4>1
    <3> QED
      BY <3>1, <3>2
  <2>2. (2 * v) * h <= u * h
    BY <2>1, ProductOrder
  <2>3. (2 * v) * h = 2 * (h * v) /\ u * h = h * u /\ h * v \in Nat /\ h * u \in Nat
    OBVIOUS
  <2> QED
    BY <1>2, <1>4, <2>2, <2>3
<1>5. CASE u < v
  <2>1. 2 * u <= v
    <3>1. CASE n <= w
      BY <1>1, <1>5, <3>1, UlpGrows
    <3>2. CASE w <= n
      <4>1. v = u \/ 2 * v <= u
        BY <1>1, <3>2, UlpGrows
      <4> QED
        BY <1>5, <4>1
    <3> QED
      BY <3>1, <3>2
  <2>2. (2 * u) * h <= v * h
    BY <2>1, ProductOrder
  <2>3. (2 * u) * h = 2 * (h * u) /\ v * h = h * v /\ h * v \in Nat /\ h * u \in Nat
    OBVIOUS
  <2> QED
    BY <1>2, <1>5, <2>2, <2>3
<1> QED
  BY <1>1, <1>3, <1>4, <1>5

\* A multiple of its spacing is a real.
LEMMA MultipleIsRounded ==
    ASSUME NEW h \in Nat \ {0}, NEW n \in Nat, NEW u \in Nat \ {0}, u = Ulp(2 * h, n),
           NEW d \in Nat, n = u * d
    PROVE  Rounded(h, n)
<1>1. PICK v \in Nat \ {0} : \E e \in Nat : \E r \in Nat :
          /\ Parts(h, n, v, e, r)
          /\ \/ RoundTo(2 * h, n) = v * e /\ 2 * r <= v
             \/ RoundTo(2 * h, n) = v * (e + 1) /\ v <= 2 * r /\ 0 < r
  BY PartsOf
<1>2. PICK e \in Nat : \E r \in Nat :
          /\ Parts(h, n, v, e, r)
          /\ \/ RoundTo(2 * h, n) = v * e /\ 2 * r <= v
             \/ RoundTo(2 * h, n) = v * (e + 1) /\ v <= 2 * r /\ 0 < r
  BY <1>1
<1>3. PICK r \in Nat :
          /\ Parts(h, n, v, e, r)
          /\ \/ RoundTo(2 * h, n) = v * e /\ 2 * r <= v
             \/ RoundTo(2 * h, n) = v * (e + 1) /\ v <= 2 * r /\ 0 < r
  BY <1>2
<1>4. v = u /\ n = u * e + r /\ r < u
  BY <1>3 DEF Parts
<1>5. (u * e + r) % u = r
  BY <1>4, Quotient
<1>6. r = 0
  <2>1. PICK z \in Nat : z = 0
    OBVIOUS
  <2>2. (u * d + z) % u = z
    BY <2>1, Quotient
  <2>3. u * d + z = u * e + r
    BY <1>4, <2>1
  <2> QED
    BY <1>5, <2>1, <2>2, <2>3
<1>7. n = v * e
  <2>1. u * e \in Nat
    OBVIOUS
  <2> QED
    BY <1>4, <1>6, <2>1
<1>8. RoundTo(2 * h, n) = v * e
  BY <1>3, <1>6
<1> QED
  BY <1>7, <1>8 DEF Rounded

\* So are the multiples within the significands, and the next power of two.
LEMMA MultiplesAreRounded ==
    ASSUME NEW h \in Nat \ {0}, NEW n \in Nat, NEW u \in Nat \ {0}, u = Ulp(2 * h, n),
           NEW d \in Nat, h <= d \/ u = 1, d <= 2 * h
    PROVE  Rounded(h, u * d) /\ u * d \in Nat
<1>1. PICK w \in Nat : w = u * d
  OBVIOUS
<1>2. h * u \in Nat /\ (h <= d => h * u <= d * u) /\ d * u = w
  BY <1>1, ProductOrder
<1>3. CASE d < 2 * h
  <2>1. (d + 1) * u <= (2 * h) * u
    BY <1>3, ProductOrder
  <2>2. (d + 1) * u = w + u /\ (2 * h) * u = 2 * (h * u)
    BY <1>1
  <2>3. w < 2 * (h * u) /\ (h * u <= w \/ u = 1)
    BY <1>2, <2>1, <2>2
  <2>4. u = Ulp(2 * h, w)
    BY <2>3, SameSpacing
  <2> QED
    BY <1>1, <2>4, MultipleIsRounded
<1>4. CASE d = 2 * h
  <2>1. PICK v \in Nat \ {0} : v = Ulp(2 * h, w)
    BY UlpFits
  <2>2. w < 2 * (h * v) /\ (v > 1 => h * v <= w)
    BY <2>1, UlpFits
  <2>3. w = 2 * (h * u)
    BY <1>1, <1>4
  <2>4. PICK a \in Nat, b \in Nat : a = h * u /\ b = h * v
    OBVIOUS
  <2>5. a < b /\ (v > 1 => b <= 2 * a)
    BY <2>2, <2>3, <2>4
  <2>6. u < v
    <3>1. SUFFICES ASSUME v <= u PROVE FALSE
      OBVIOUS
    <3>2. v * h <= u * h
      BY <3>1, ProductOrder
    <3> QED
      BY <2>4, <2>5, <3>2
  <2>7. v <= 2 * u
    <3>1. SUFFICES ASSUME 2 * u + 1 <= v PROVE FALSE
      OBVIOUS
    <3>2. (2 * u + 1) * h <= v * h
      BY <3>1, ProductOrder
    <3>3. (2 * u + 1) * h = 2 * a + h /\ v * h = b
      BY <2>4
    <3> QED
      BY <2>5, <3>1, <3>2, <3>3
  <2>8. v = 2 * u
    <3>1. CASE n <= w
      <4>1. u = v \/ 2 * u <= v
        BY <2>1, <3>1, UlpGrows
      <4> QED
        BY <2>6, <2>7, <4>1
    <3>2. CASE w <= n
      <4>1. v = u \/ 2 * v <= u
        BY <2>1, <3>2, UlpGrows
      <4> QED
        BY <2>6, <4>1
    <3> QED
      BY <3>1, <3>2
  <2>9. w = v * h
    BY <2>3, <2>8
  <2> QED
    BY <1>1, <2>1, <2>9, MultipleIsRounded
<1> QED
  BY <1>3, <1>4

\* Reals do not lie between the multiples next to a number.
Around(h, n, u, d, a) ==
    u = Ulp(2 * h, n) /\ d < 2 * h /\ (h <= d \/ u = 1) /\ a = u * d /\ a <= n /\ n < a + u

LEMMA RealsAreApart ==
    ASSUME NEW h \in Nat \ {0}, NEW n \in Nat, NEW u \in Nat \ {0}, NEW d \in Nat, NEW a \in Nat,
           Around(h, n, u, d, a),
           NEW z \in Nat, Rounded(h, z)
    PROVE  (z <= n => z <= a) /\ (a < z => a + u <= z)
<1>0. u = Ulp(2 * h, n) /\ d < 2 * h /\ (h <= d \/ u = 1) /\ a = u * d /\ a <= n /\ n < a + u
  BY DEF Around
<1>1. PICK v \in Nat \ {0} : \E e \in Nat :
         v = Ulp(2 * h, z) /\ z = v * e /\ e < 2 * h /\ (v > 1 => h <= e)
  BY RoundedIsMultiple
<1>2. PICK e \in Nat : v = Ulp(2 * h, z) /\ z = v * e /\ e < 2 * h /\ (v > 1 => h <= e)
  BY <1>1
<1>3. CASE v = u
  <2>1. ASSUME e <= d PROVE z <= a
    <3>1. e * u <= d * u
      BY <1>0, <2>1, ProductOrder
    <3> QED
      BY <1>0, <1>2, <1>3, <3>1
  <2>2. ASSUME d + 1 <= e PROVE a + u <= z
    <3>1. (d + 1) * u <= e * u
      BY <1>0, <2>2, ProductOrder
    <3> QED
      BY <1>0, <1>2, <1>3, <3>1
  <2> QED
    BY <1>0, <2>1, <2>2
<1>4. CASE 2 * v <= u
  <2>1. (e + 1) * v <= (2 * h) * v /\ (2 * v) * h <= u * h /\ h * u <= d * u
    BY <1>0, <1>2, <1>4, ProductOrder
  <2>2. (e + 1) * v = z + v
    <3>1. (e + 1) * v = v * e + v
      OBVIOUS
    <3> QED
      BY <1>0, <1>2, <3>1
  <2>3. (2 * h) * v = (2 * v) * h /\ u * h = h * u /\ d * u = a
    BY <1>0
  <2>4. (2 * v) * h \in Nat /\ h * u \in Nat
    OBVIOUS
  <2> QED
    BY <1>0, <1>4, <2>1, <2>2, <2>3, <2>4
<1>5. CASE 2 * u <= v
  <2>1. (d + 1) * u <= (2 * h) * u /\ (2 * u) * h <= v * h /\ h * v <= e * v
    BY <1>0, <1>2, <1>5, ProductOrder
  <2>2. (d + 1) * u = a + u /\ (2 * h) * u = (2 * u) * h /\ v * h = h * v /\ e * v = z
    BY <1>0, <1>2
  <2>3. (2 * u) * h \in Nat /\ h * v \in Nat
    OBVIOUS
  <2> QED
    BY <1>0, <2>1, <2>2, <2>3
<1>6. v = u \/ 2 * v <= u \/ 2 * u <= v
  <2>1. CASE z <= n
    BY <1>0, <1>2, <2>1, UlpGrows
  <2>2. CASE n <= z
    BY <1>0, <1>2, <2>2, UlpGrows
  <2> QED
    BY <1>0, <2>1, <2>2
<1> QED
  BY <1>3, <1>4, <1>5, <1>6

\* Rounding gives a real and passes none.
Nearest(h, n, r) ==
    /\ Rounded(h, r)
    /\ \A z \in Int : Rounded(h, z) => (n <= z => r <= z) /\ (z <= n => z <= r)

LEMMA NaturalsRound ==
    ASSUME NEW h \in Nat \ {0}, NEW n \in Nat
    PROVE  /\ RoundTo(2 * h, n) \in Nat
           /\ Rounded(h, RoundTo(2 * h, n))
           /\ \A z \in Nat : Rounded(h, z) => /\ n <= z => RoundTo(2 * h, n) <= z
                                              /\ z <= n => z <= RoundTo(2 * h, n)
<1>1. PICK u \in Nat \ {0} : \E d \in Nat : \E r \in Nat :
          /\ Parts(h, n, u, d, r)
          /\ \/ RoundTo(2 * h, n) = u * d /\ 2 * r <= u
             \/ RoundTo(2 * h, n) = u * (d + 1) /\ u <= 2 * r /\ 0 < r
  BY PartsOf
<1>2. PICK d \in Nat : \E r \in Nat :
          /\ Parts(h, n, u, d, r)
          /\ \/ RoundTo(2 * h, n) = u * d /\ 2 * r <= u
             \/ RoundTo(2 * h, n) = u * (d + 1) /\ u <= 2 * r /\ 0 < r
  BY <1>1
<1>3. PICK r \in Nat :
          /\ Parts(h, n, u, d, r)
          /\ \/ RoundTo(2 * h, n) = u * d /\ 2 * r <= u
             \/ RoundTo(2 * h, n) = u * (d + 1) /\ u <= 2 * r /\ 0 < r
  BY <1>2
<1>4. u = Ulp(2 * h, n) /\ n = u * d + r /\ r < u /\ d < 2 * h /\ (h <= d \/ u = 1)
  BY <1>3 DEF Parts
<1>5. /\ Rounded(h, u * d) /\ u * d \in Nat
      /\ Rounded(h, u * (d + 1)) /\ u * (d + 1) \in Nat
  <2>1. d + 1 \in Nat /\ d + 1 <= 2 * h /\ (h <= d + 1 \/ u = 1)
    BY <1>4
  <2>2. Rounded(h, u * d) /\ u * d \in Nat
    BY <1>4, MultiplesAreRounded
  <2> QED
    BY <1>4, <2>1, <2>2, MultiplesAreRounded
<1>6. PICK a \in Nat : a = u * d /\ u * (d + 1) = a + u
  BY <1>5
<1>7. ASSUME NEW z \in Nat, Rounded(h, z)
      PROVE  (z <= n => z <= a) /\ (a < z => a + u <= z)
  <2>1. Around(h, n, u, d, a)
    BY <1>4, <1>6 DEF Around
  <2> QED
    BY <1>7, <2>1, RealsAreApart
<1>8. CASE RoundTo(2 * h, n) = u * d
  BY <1>4, <1>5, <1>6, <1>7, <1>8
<1>9. CASE RoundTo(2 * h, n) = u * (d + 1) /\ 0 < r
  <2>1. a < n /\ n <= a + u
    BY <1>4, <1>6, <1>9
  <2>2. ASSUME NEW z \in Nat, Rounded(h, z) PROVE (n <= z => a + u <= z) /\ (z <= n => z <= a + u)
    BY <1>7, <2>1, <2>2
  <2> QED
    BY <1>5, <1>6, <1>9, <2>2
<1> QED
  BY <1>3, <1>8, <1>9

\* Rounding is symmetric.
LEMMA NegativesRound ==
    ASSUME NEW h \in Nat \ {0}, NEW n \in Nat
    PROVE  /\ RoundTo(2 * h, -n) = - RoundTo(2 * h, n)
           /\ Rounded(h, -n) <=> Rounded(h, n)
<1>1. RoundTo(2 * h, n) \in Nat
  BY NaturalsRound
<1>2. CASE n = 0
  <2>1. PICK u \in Nat \ {0} : u = Ulp(2 * h, n)
    BY UlpFits
  <2>2. n = u * 0
    BY <1>2
  <2>3. Rounded(h, n)
    BY <2>1, <2>2, MultipleIsRounded
  <2>4. -n = n
    <3>1. PICK m \in Int : m = -n
      OBVIOUS
    <3>2. n + m = 0
      BY <3>1
    <3>3. m = n
      BY <1>2, <3>2
    <3> QED
      BY <3>1, <3>3
  <2> QED
    BY <1>2, <2>3, <2>4 DEF Rounded
<1>3. CASE n # 0
  <2>1. PICK u \in Nat \ {0} : u = Ulp(2 * h, n)
    BY UlpFits
  <2>2. Abs(n) = n /\ Abs(-n) = n /\ -n < 0 /\ ~ (n < 0)
    BY <1>3 DEF Abs
  <2>3. n \div u \in Nat
    BY Division
  <2> DEFINE up == 2 * (n % u) > u \/ (2 * (n % u) = u /\ (n \div u) % 2 = 1)
  <2>4. PICK m \in Nat : m = IF up THEN (n \div u) + 1 ELSE n \div u
    BY <2>3
  <2>5. RoundTo(2 * h, n) = 1 * u * m
    BY <2>1, <2>2, <2>4 DEF RoundTo
  <2>6. RoundTo(2 * h, -n) = (-1) * u * m
    BY <2>1, <2>2, <2>4 DEF RoundTo
  <2>7. (-1) * u * m = - (1 * u * m)
    OBVIOUS
  <2> QED
    BY <1>1, <2>5, <2>6, <2>7 DEF Rounded
<1> QED
  BY <1>2, <1>3

LEMMA NumbersRound ==
    ASSUME NEW h \in Nat \ {0}, NEW x \in Int
    PROVE  RoundTo(2 * h, x) \in Int /\ Nearest(h, x, RoundTo(2 * h, x))
<1>1. CASE x \in Nat
  <2>1. PICK r \in Nat : r = RoundTo(2 * h, x) /\ Rounded(h, r)
                       /\ \A z \in Nat : Rounded(h, z) => (x <= z => r <= z) /\ (z <= x => z <= r)
    BY <1>1, NaturalsRound
  <2>2. ASSUME NEW z \in Int, Rounded(h, z) PROVE (x <= z => r <= z) /\ (z <= x => z <= r)
    <3>1. z \in Nat \/ z < 0
      OBVIOUS
    <3> QED
      BY <1>1, <2>1, <2>2, <3>1
  <2> QED
    BY <2>1, <2>2 DEF Nearest
<1>2. CASE x \notin Nat
  <2>1. PICK n \in Nat : x = -n
    <3>1. -x \in Nat /\ x = -(-x)
      BY <1>2
    <3> QED
      BY <3>1
  <2>2. PICK r \in Nat : r = RoundTo(2 * h, n) /\ Rounded(h, r)
                       /\ \A z \in Nat : Rounded(h, z) => (n <= z => r <= z) /\ (z <= n => z <= r)
    BY NaturalsRound
  <2>3. RoundTo(2 * h, x) = -r /\ Rounded(h, -r)
    BY <2>1, <2>2, NegativesRound
  <2>4. ASSUME NEW z \in Int, Rounded(h, z) PROVE (x <= z => -r <= z) /\ (z <= x => z <= -r)
    <3>1. CASE z > 0
      BY <1>2, <2>1, <2>2, <3>1
    <3>2. CASE ~ (z > 0)
      <4>1. PICK y \in Nat : z = -y
        <5>1. -z \in Nat /\ z = -(-z)
          BY <3>2
        <5> QED
          BY <5>1
      <4>2. Rounded(h, y)
        BY <2>4, <4>1, NegativesRound
      <4>3. (n <= y => r <= y) /\ (y <= n => y <= r)
        BY <2>2, <4>2
      <4> QED
        BY <2>1, <2>2, <4>1, <4>3
    <3> QED
      BY <3>1, <3>2
  <2> QED
    BY <2>3, <2>4 DEF Nearest
<1> QED
  BY <1>1, <1>2

\* Small numbers are reals.
LEMMA SmallIsRounded ==
    ASSUME NEW h \in Nat \ {0}, NEW n \in Nat, n < 2 * h
    PROVE  Rounded(h, n)
<1>1. PICK u \in Nat \ {0} : u = Ulp(2 * h, n)
  BY UlpFits
<1>2. u = 1
  BY <1>1, UlpFits
<1>3. n = u * n
  BY <1>2
<1> QED
  BY <1>1, <1>3, MultipleIsRounded

\* Twice a real, and half of one if it is rounded down, are reals.
LEMMA DoubleIsRounded ==
    ASSUME NEW h \in Nat \ {0}, NEW x \in Int, Rounded(h, x)
    PROVE  Rounded(h, 2 * x) /\ Rounded(h, x \div 2)
<1>1. ASSUME NEW n \in Nat, Rounded(h, n)
      PROVE  Rounded(h, 2 * n) /\ Rounded(h, n \div 2) /\ (2 * h <= n => n = 2 * (n \div 2))
  <2>1. PICK u \in Nat \ {0} : \E d \in Nat : u = Ulp(2 * h, n) /\ n = u * d /\ d < 2 * h /\ (u > 1 => h <= d)
    BY <1>1, RoundedIsMultiple
  <2>2. PICK d \in Nat : u = Ulp(2 * h, n) /\ n = u * d /\ d < 2 * h /\ (u > 1 => h <= d)
    BY <2>1
  <2>3. 2 * h \in Nat /\ 2 * h > 1 /\ 2 * n \in Nat
    OBVIOUS
  <2>4. Rounded(h, 2 * n)
    <3>1. CASE 2 * n < 2 * h
      BY <3>1, SmallIsRounded
    <3>2. CASE ~ (2 * n < 2 * h)
      <4>1. Ulp(2 * h, 2 * n) = 2 * Ulp(2 * h, (2 * n) \div 2)
        BY <2>3, <3>2, UlpIsDefined
      <4>2. (2 * n) \div 2 = n
        OBVIOUS
      <4>3. Ulp(2 * h, 2 * n) = 2 * u
        BY <2>2, <4>1, <4>2
      <4>4. PICK k \in Nat, v \in Nat \ {0} : k = 2 * n /\ v = 2 * u
        OBVIOUS
      <4>5. v = Ulp(2 * h, k)
        BY <4>3, <4>4
      <4>6. k = v * d
        <5>1. k = 2 * (u * d)
          BY <2>2, <4>4
        <5>2. v * d = 2 * (u * d)
          BY <4>4
        <5> QED
          BY <5>1, <5>2
      <4>7. Rounded(h, k)
        BY <4>5, <4>6, MultipleIsRounded
      <4> QED
        BY <4>4, <4>7
    <3> QED
      BY <3>1, <3>2
  <2>5. CASE n < 2 * h
    <3>1. n \div 2 \in Nat /\ n \div 2 < 2 * h
      BY <2>5
    <3> QED
      BY <2>4, <2>5, <3>1, SmallIsRounded
  <2>6. CASE ~ (n < 2 * h)
    <3>1. PICK k \in Nat : k = n \div 2 /\ (n = 2 * k \/ n = 2 * k + 1)
      BY Half
    <3>2. PICK v \in Nat \ {0} : v = Ulp(2 * h, k)
      BY UlpFits
    <3>3. u = 2 * v
      BY <2>2, <2>3, <2>6, <3>1, <3>2, UlpIsDefined
    <3>4. n = 2 * (v * d) /\ v * d \in Nat
      BY <2>2, <3>3
    <3>5. k = v * d
      BY <3>1, <3>4
    <3>6. Rounded(h, k)
      BY <3>2, <3>5, MultipleIsRounded
    <3> QED
      BY <2>4, <3>1, <3>4, <3>5, <3>6
  <2> QED
    BY <2>5, <2>6
<1>2. CASE x \in Nat
  BY <1>1, <1>2
<1>3. CASE x \notin Nat
  <2>1. PICK n \in Nat : x = -n
    <3>1. -x \in Nat /\ x = -(-x)
      BY <1>3
    <3> QED
      BY <3>1
  <2>2. Rounded(h, n)
    BY <2>1, NegativesRound
  <2>3. PICK k \in Nat : k = n \div 2 /\ (n = 2 * k \/ n = 2 * k + 1)
    BY Half
  <2>4. Rounded(h, 2 * n) /\ Rounded(h, k) /\ (2 * h <= n => n = 2 * k)
    BY <1>1, <2>2, <2>3
  <2>5. Rounded(h, -(2 * n)) /\ 2 * x = -(2 * n)
    <3>1. 2 * n \in Nat
      OBVIOUS
    <3> QED
      BY <2>1, <2>4, <3>1, NegativesRound
  <2>6. CASE n = 2 * k
    <3>1. x \div 2 = -k
      BY <2>1, <2>6
    <3>2. Rounded(h, -k)
      BY <2>4, NegativesRound
    <3> QED
      BY <2>5, <3>1, <3>2
  <2>7. CASE n = 2 * k + 1
    <3>1. x \div 2 = -(k + 1) /\ k + 1 \in Nat
      BY <2>1, <2>7
    <3>2. n < 2 * h
      BY <2>4, <2>7
    <3>3. k + 1 < 2 * h
      BY <2>7, <3>2
    <3>4. Rounded(h, -(k + 1))
      BY <3>1, <3>3, SmallIsRounded, NegativesRound
    <3> QED
      BY <2>5, <3>1, <3>4
  <2> QED
    BY <2>3, <2>6, <2>7
<1> QED
  BY <1>2, <1>3

\* Dividing by an even number is halving first.
LEMMA IntegerDivision ==
    ASSUME NEW x \in Int, NEW w \in Nat \ {0}
    PROVE  x \div w \in Int /\ x % w \in Nat /\ x % w < w /\ x = w * (x \div w) + (x % w)
  OBVIOUS

LEMMA IntegerQuotient ==
    ASSUME NEW w \in Nat \ {0}, NEW q \in Int, NEW r \in Nat, r < w
    PROVE  (w * q + r) \div w = q
<1>1. w * q + r \in Int
  OBVIOUS
<1>2. PICK p \in Int, s \in Nat : p = (w * q + r) \div w /\ s < w /\ w * q + r = w * p + s
  BY <1>1, IntegerDivision
<1>3. ASSUME p + 1 <= q PROVE FALSE
  <2>1. PICK k \in Nat : q = (p + 1) + k
    <3>1. q - (p + 1) \in Nat /\ q = (p + 1) + (q - (p + 1))
      BY <1>3
    <3> QED
      BY <3>1
  <2>2. w * q = w * p + w + w * k /\ w * k \in Nat /\ w * p \in Int
    BY <2>1
  <2> QED
    BY <1>2, <2>2
<1>4. ASSUME q + 1 <= p PROVE FALSE
  <2>1. PICK k \in Nat : p = (q + 1) + k
    <3>1. p - (q + 1) \in Nat /\ p = (q + 1) + (p - (q + 1))
      BY <1>4
    <3> QED
      BY <3>1
  <2>2. w * p = w * q + w + w * k /\ w * k \in Nat /\ w * q \in Int
    BY <2>1
  <2> QED
    BY <1>2, <2>2
<1> QED
  BY <1>2, <1>3, <1>4

LEMMA HalveFirst ==
    ASSUME NEW x \in Int, NEW w \in Nat \ {0}
    PROVE  x \div (2 * w) = (x \div 2) \div w
<1>1. PICK y \in Int, s \in Nat : y = x \div 2 /\ s < 2 /\ x = 2 * y + s
  BY IntegerDivision
<1>2. PICK t \in Int, r \in Nat : t = y \div w /\ r < w /\ y = w * t + r
  BY IntegerDivision
<1>3. x = (2 * w) * t + (2 * r + s)
  BY <1>1, <1>2
<1>4. 2 * w \in Nat \ {0} /\ 2 * r + s \in Nat /\ 2 * r + s < 2 * w
  BY <1>1, <1>2
<1>5. PICK v \in Nat \ {0}, m \in Nat : v = 2 * w /\ m = 2 * r + s
  BY <1>4
<1>6. (v * t + m) \div v = t
  BY <1>4, <1>5, IntegerQuotient
<1> QED
  BY <1>1, <1>2, <1>3, <1>5, <1>6

\* Times a power of two, or divided by one, a real is a real.
PowerOfTwo(w) == w \in Nat \ {0} /\ Ulp(2, w) = w

LEMMA PowersKeepReals ==
    ASSUME NEW h \in Nat \ {0}, NEW w, PowerOfTwo(w), NEW x \in Int, Rounded(h, x)
    PROVE  Rounded(h, w * x) /\ Rounded(h, x \div w)
<1> DEFINE Keeps(p) == \A y \in Int : Rounded(h, y) => Rounded(h, p * y) /\ Rounded(h, y \div p)
           S == {p \in Nat : PowerOfTwo(p) => Keeps(p)}
<1>1. ASSUME NEW p \in Nat, \A i \in 0 .. p - 1 : i \in S PROVE p \in S
  <2> SUFFICES ASSUME PowerOfTwo(p), NEW y \in Int, Rounded(h, y)
               PROVE  Rounded(h, p * y) /\ Rounded(h, y \div p)
    OBVIOUS
  <2>1. p = IF p < 2 THEN 1 ELSE 2 * Ulp(2, p \div 2)
    BY UlpIsDefined DEF PowerOfTwo
  <2>2. CASE p = 1
    <3>1. p * y = y /\ y \div p = y
      BY <2>2
    <3> QED
      BY <3>1
  <2>3. CASE p # 1
    <3>1. p >= 2 /\ p = 2 * Ulp(2, p \div 2)
      BY <2>1, <2>3 DEF PowerOfTwo
    <3>2. PICK i \in Nat : i = p \div 2 /\ (p = 2 * i \/ p = 2 * i + 1)
      BY Half
    <3>3. PICK u \in Nat \ {0} : u = Ulp(2, i)
      <4>1. PICK g \in Nat \ {0} : g = 1 /\ 2 = 2 * g
        OBVIOUS
      <4>2. Ulp(2 * g, i) \in Nat \ {0}
        BY UlpFits
      <4> QED
        BY <4>1, <4>2
    <3>4. p = 2 * u /\ p = 2 * i /\ i = u
      BY <3>1, <3>2, <3>3
    <3>5. PowerOfTwo(i) /\ i \in 0 .. p - 1
      BY <3>3, <3>4 DEF PowerOfTwo
    <3>6. Keeps(i)
      BY <1>1, <3>5
    <3>7. PICK z \in Int : z = 2 * y /\ Rounded(h, z)
      BY DoubleIsRounded
    <3>8. PICK v \in Int : v = y \div 2 /\ Rounded(h, v)
      BY DoubleIsRounded, IntegerDivision
    <3>9. Rounded(h, i * z) /\ Rounded(h, v \div i)
      BY <3>6, <3>7, <3>8
    <3>10. i * z = p * y
      BY <3>4, <3>7
    <3>11. v \div i = y \div p
      BY <3>4, <3>5, <3>8, HalveFirst DEF PowerOfTwo
    <3> QED
      BY <3>9, <3>10, <3>11
  <2> QED
    BY <2>2, <2>3
<1>2. Nat \subseteq S
  <2> HIDE DEF S
  <2> QED
    BY <1>1, StrongInduction
<1>3. w \in S
  BY <1>2 DEF PowerOfTwo
<1> QED
  BY <1>3

\* The real after a real, away from zero and towards zero.
LEMMA RealsAway ==
    ASSUME NEW h \in Nat \ {0}, NEW n \in Nat, Rounded(h, n), NEW u \in Nat \ {0}, u = Ulp(2 * h, n)
    PROVE  /\ Rounded(h, n + u)
           /\ \A z \in Nat : Rounded(h, z) /\ n < z => n + u <= z
<1>1. PICK d \in Nat : n = u * d /\ d < 2 * h /\ (u > 1 => h <= d)
  BY RoundedIsMultiple
<1>2. d + 1 \in Nat /\ d + 1 <= 2 * h /\ (h <= d + 1 \/ u = 1) /\ u * (d + 1) = n + u
  BY <1>1
<1>3. Rounded(h, n + u)
  <2>1. PICK k \in Nat : k = d + 1
    OBVIOUS
  <2>2. Rounded(h, u * k)
    BY <1>2, <2>1, MultiplesAreRounded
  <2> QED
    BY <1>2, <2>1, <2>2
<1>4. Around(h, n, u, d, n)
  BY <1>1 DEF Around
<1> QED
  BY <1>3, <1>4, RealsAreApart

Inward(h, n, u) == IF u > 1 /\ 2 * n = 2 * h * u THEN u \div 2 ELSE u

LEMMA RealsInward ==
    ASSUME NEW h \in Nat \ {0}, NEW n \in Nat \ {0}, Rounded(h, n), NEW u \in Nat \ {0}, u = Ulp(2 * h, n),
           NEW s \in Int, s = n - Inward(h, n, u)
    PROVE  /\ s \in Nat /\ s < n /\ Rounded(h, s)
           /\ \A z \in Nat : Rounded(h, z) /\ z < n => z <= s
<1>1. PICK d \in Nat : n = u * d /\ d < 2 * h /\ (u > 1 => h <= d)
  BY RoundedIsMultiple
<1>2. 2 * n = 2 * h * u <=> n = h * u
  BY <1>1
<1> DEFINE Below(v, e) == v \in Nat \ {0} /\ e \in Nat /\ e < 2 * h /\ (h <= e \/ v = 1)
                          /\ v * e \in Nat /\ v = Ulp(2 * h, v * e) /\ s = v * e /\ s + v = n
<1>3. ASSUME NEW v \in Nat \ {0}, NEW e \in Nat, Below(v, e)
      PROVE  /\ s \in Nat /\ s < n /\ Rounded(h, s)
             /\ \A z \in Nat : Rounded(h, z) /\ z < n => z <= s
  <2>1. s \in Nat /\ s < n /\ s = v * e /\ v = Ulp(2 * h, s)
    BY <1>3
  <2>2. Rounded(h, s)
    BY <2>1, MultipleIsRounded
  <2>3. Around(h, s, v, e, s)
    BY <1>3, <2>1 DEF Around
  <2>4. ASSUME NEW z \in Nat, Rounded(h, z), z < n PROVE z <= s
    <3>1. PICK k \in Nat : k = s
      BY <2>1
    <3>2. Around(h, k, v, e, k)
      BY <2>3, <3>1
    <3>3. k < z => k + v <= z
      BY <2>4, <3>2, RealsAreApart
    <3>4. k + v = n
      BY <1>3, <3>1
    <3> QED
      BY <2>4, <3>1, <3>3, <3>4
  <2> QED
    BY <2>1, <2>2, <2>4
<1>4. CASE u > 1 /\ n = h * u
  <2>1. n >= 2 * h
    <3>1. 2 * h <= u * h
      BY <1>4, ProductOrder
    <3> QED
      BY <1>4, <3>1
  <2>2. PICK k \in Nat : k = n \div 2 /\ (n = 2 * k \/ n = 2 * k + 1)
    BY Half
  <2>3. PICK v \in Nat \ {0} : v = Ulp(2 * h, k)
    BY UlpFits
  <2>4. u = 2 * v
    <3>1. PICK q \in Nat : q = 2 * h /\ q > 1
      OBVIOUS
    <3>2. Ulp(q, n) = 2 * Ulp(q, k)
      BY <2>1, <2>2, <3>1, UlpIsDefined
    <3> QED
      BY <2>3, <3>1, <3>2
  <2>5. PICK a \in Nat : a = h * v
    OBVIOUS
  <2>6. n = 2 * a /\ v <= a
    <3>1. n = 2 * (h * v)
      BY <1>4, <2>4
    <3>2. 1 * v <= h * v
      BY ProductOrder
    <3> QED
      BY <2>5, <3>1, <3>2
  <2>7. s = n - v
    BY <1>2, <1>4, <2>4 DEF Inward
  <2>8. v * (2 * h - 1) = 2 * a - v
    BY <2>5
  <2>9. PICK e \in Nat : e = 2 * h - 1
    OBVIOUS
  <2>10. PICK w \in Nat : w = s /\ w = v * e
    BY <2>6, <2>7, <2>8, <2>9
  <2>11. Ulp(2 * h, w) = v
    <3>1. h * v <= w /\ w < 2 * (h * v)
      BY <2>5, <2>6, <2>7, <2>10
    <3> QED
      BY <2>3, <3>1, SameSpacing
  <2>12. Below(v, e)
    BY <2>6, <2>7, <2>9, <2>10, <2>11
  <2> QED
    BY <1>3, <2>12
<1>5. CASE ~ (u > 1 /\ n = h * u)
  <2>1. s = n - u
    BY <1>2, <1>5 DEF Inward
  <2>2. d # 0
    BY <1>1
  <2>3. PICK e \in Nat : d = e + 1
    <3>1. d - 1 \in Nat /\ d = (d - 1) + 1
      BY <2>2
    <3> QED
      BY <3>1
  <2>4. n = u * e + u /\ u * e \in Nat
    BY <1>1, <2>3
  <2>5. h <= e \/ u = 1
    <3>1. u > 1 => d # h
      BY <1>1, <1>5
    <3> QED
      BY <1>1, <2>3, <3>1
  <2>6. PICK w \in Nat : w = s /\ w = u * e
    BY <2>1, <2>4
  <2>7. Ulp(2 * h, w) = u
    <3>1. h * u <= w \/ u = 1
      <4>1. h <= e => h * u <= e * u
        BY ProductOrder
      <4> QED
        BY <2>5, <2>6, <4>1
    <3>2. w < 2 * (h * u)
      <4>1. n < 2 * (h * u)
        BY UlpFits
      <4> QED
        BY <2>1, <2>6, <4>1
    <3> QED
      BY <3>1, <3>2, SameSpacing
  <2>8. e < 2 * h /\ s + u = n
    BY <1>1, <2>1, <2>3
  <2>9. Below(u, e)
    BY <2>4, <2>5, <2>6, <2>7, <2>8
  <2> QED
    BY <1>3, <2>9
<1> QED
  BY <1>4, <1>5

\* std::nextafter gives the next real.
LEMMA NextAfterIsNext ==
    ASSUME NEW h \in Nat \ {0}, NEW x \in Int, NEW y \in Int, x # y, Rounded(h, x), Rounded(h, y),
           NEW s, s = NextAfter(2 * h, x, y)
    PROVE  /\ s \in Int /\ Rounded(h, s)
           /\ x < y => x < s /\ s <= y
           /\ y < x => y <= s /\ s < x
<1>1. PICK n \in Nat : n = Abs(x) /\ (x = n \/ (x < 0 /\ x = -n))
  BY DEF Abs
<1>2. Rounded(h, n)
  BY <1>1, NegativesRound
<1>3. PICK u \in Nat \ {0} : u = Ulp(2 * h, n)
  BY UlpFits
<1>4. Rounded(h, n + u) /\ (\A z \in Nat : Rounded(h, z) /\ n < z => n + u <= z)
  BY <1>2, <1>3, RealsAway
<1> DEFINE away == x = 0 \/ (x < 0) = (y < x)
<1>5. s = LET w == IF ~away /\ u > 1 /\ 2 * n = 2 * h * u THEN u \div 2 ELSE u
          IN  IF y > x THEN x + w ELSE x - w
  BY <1>1, <1>3 DEF NextAfter
<1>6. CASE away
  <2>1. s = IF y > x THEN x + u ELSE x - u
    BY <1>5, <1>6
  <2>2. CASE x < y
    <3>1. x = n /\ s = n + u
      BY <1>1, <1>6, <2>1, <2>2
    <3> QED
      BY <1>4, <2>2, <3>1
  <2>3. CASE y < x
    <3>1. x = -n /\ s = -(n + u) /\ n + u \in Nat
      BY <1>1, <1>6, <2>1, <2>3
    <3>2. PICK z \in Nat : y = -z
      <4>1. -y \in Nat /\ y = -(-y)
        BY <2>3, <3>1
      <4> QED
        BY <4>1
    <3>3. Rounded(h, z) /\ n < z
      BY <2>3, <3>1, <3>2, NegativesRound
    <3>4. n + u <= z /\ Rounded(h, -(n + u))
      BY <1>4, <3>1, <3>3, NegativesRound
    <3> QED
      BY <2>3, <3>1, <3>2, <3>4
  <2> QED
    BY <2>2, <2>3
<1>7. CASE ~away
  <2>1. n # 0
    BY <1>1, <1>7
  <2>2. PICK t \in Nat : t = n - Inward(h, n, u) /\ t < n /\ Rounded(h, t)
                        /\ (\A z \in Nat : Rounded(h, z) /\ z < n => z <= t)
    <3>1. PICK v \in Int : v = n - Inward(h, n, u)
      <4>1. Inward(h, n, u) \in Int
        BY DEF Inward
      <4>2. n - Inward(h, n, u) \in Int
        BY <4>1
      <4> QED
        BY <4>2
    <3>2. n \in Nat \ {0}
      BY <2>1
    <3>3. v \in Nat /\ v < n /\ Rounded(h, v) /\ (\A z \in Nat : Rounded(h, z) /\ z < n => z <= v)
      BY <1>2, <1>3, <3>1, <3>2, RealsInward
    <3> QED
      BY <3>1, <3>3
  <2>3. s = IF y > x THEN x + Inward(h, n, u) ELSE x - Inward(h, n, u)
    BY <1>5, <1>7 DEF Inward
  <2>4. Inward(h, n, u) \in Int
    BY DEF Inward
  <2>5. CASE x < y
    <3>1. x = -n /\ s = -t
      BY <1>1, <1>7, <2>2, <2>3, <2>4, <2>5
    <3>2. Rounded(h, -t)
      BY <2>2, NegativesRound
    <3>3. s <= y
      <4>1. CASE y >= 0
        BY <2>2, <3>1, <4>1
      <4>2. CASE ~ (y >= 0)
        <5>1. PICK z \in Nat : y = -z
          <6>1. -y \in Nat /\ y = -(-y)
            BY <4>2
          <6> QED
            BY <6>1
        <5>2. Rounded(h, z) /\ z < n
          BY <2>5, <3>1, <5>1, NegativesRound
        <5> QED
          BY <2>2, <3>1, <5>1, <5>2
      <4> QED
        BY <4>1, <4>2
    <3> QED
      BY <2>2, <2>5, <3>1, <3>2, <3>3
  <2>6. CASE y < x
    <3>1. x = n /\ s = t
      BY <1>1, <1>7, <2>2, <2>3, <2>4, <2>6
    <3>2. y <= s
      <4>1. CASE y \in Nat
        BY <2>2, <2>6, <3>1, <4>1
      <4>2. CASE y \notin Nat
        BY <2>2, <3>1, <4>2
      <4> QED
        BY <4>1, <4>2
    <3> QED
      BY <2>2, <2>6, <3>1, <3>2
  <2> QED
    BY <2>5, <2>6
<1> QED
  BY <1>6, <1>7

\* Between two multiples a number is rounded to one of them.
LEMMA RoundsToNeighbours ==
    ASSUME NEW h \in Nat \ {0}, NEW n \in Nat, NEW u \in Nat \ {0}, NEW d \in Nat, NEW a \in Nat,
           Around(h, n, u, d, a),
           NEW m \in Nat, a <= m, m < a + u
    PROVE  \/ RoundTo(2 * h, m) = a /\ 2 * (m - a) <= u
           \/ RoundTo(2 * h, m) = a + u /\ u <= 2 * (m - a)
<1>1. u = Ulp(2 * h, n) /\ d < 2 * h /\ (h <= d \/ u = 1) /\ a = u * d
  BY DEF Around
<1>2. Ulp(2 * h, m) = u
  <2>1. h * u <= m \/ u = 1
    <3>1. h <= d => h * u <= d * u
      BY ProductOrder
    <3>2. d * u = a
      BY <1>1
    <3> QED
      BY <1>1, <3>1, <3>2
  <2>2. m < 2 * (h * u)
    <3>1. (d + 1) * u <= (2 * h) * u
      BY <1>1, ProductOrder
    <3>2. (d + 1) * u = a + u /\ (2 * h) * u = 2 * (h * u)
      BY <1>1
    <3> QED
      BY <3>1, <3>2
  <2> QED
    BY <1>1, <2>1, <2>2, SameSpacing
<1>3. PICK v \in Nat \ {0} : \E e \in Nat : \E r \in Nat :
          /\ Parts(h, m, v, e, r)
          /\ \/ RoundTo(2 * h, m) = v * e /\ 2 * r <= v
             \/ RoundTo(2 * h, m) = v * (e + 1) /\ v <= 2 * r /\ 0 < r
  BY PartsOf
<1>4. PICK e \in Nat : \E r \in Nat :
          /\ Parts(h, m, v, e, r)
          /\ \/ RoundTo(2 * h, m) = v * e /\ 2 * r <= v
             \/ RoundTo(2 * h, m) = v * (e + 1) /\ v <= 2 * r /\ 0 < r
  BY <1>3
<1>5. PICK r \in Nat :
          /\ Parts(h, m, v, e, r)
          /\ \/ RoundTo(2 * h, m) = v * e /\ 2 * r <= v
             \/ RoundTo(2 * h, m) = v * (e + 1) /\ v <= 2 * r /\ 0 < r
  BY <1>4
<1>6. v = u /\ m = u * e + r /\ r < u
  BY <1>2, <1>5 DEF Parts
<1>7. PICK s \in Nat : s = m - a /\ s < u
  OBVIOUS
<1>8. m = u * d + s
  BY <1>1, <1>7
<1>9. e = d /\ r = s
  <2>1. (u * e + r) \div u = e /\ (u * e + r) % u = r
    BY <1>6, Quotient
  <2>2. (u * d + s) \div u = d /\ (u * d + s) % u = s
    BY <1>7, Quotient
  <2> QED
    BY <1>6, <1>8, <2>1, <2>2
<1>10. u * (e + 1) = a + u /\ u * e = a
  BY <1>1, <1>9
<1> QED
  BY <1>5, <1>6, <1>7, <1>9, <1>10

\* What every number has around it.
LEMMA AroundEvery ==
    ASSUME NEW h \in Nat \ {0}, NEW n \in Nat
    PROVE  \E u \in Nat \ {0} : \E d \in Nat : \E a \in Nat :
              Around(h, n, u, d, a) /\ Rounded(h, a) /\ Rounded(h, a + u)
<1>1. PICK u \in Nat \ {0} : \E d \in Nat : \E r \in Nat :
          /\ Parts(h, n, u, d, r)
          /\ \/ RoundTo(2 * h, n) = u * d /\ 2 * r <= u
             \/ RoundTo(2 * h, n) = u * (d + 1) /\ u <= 2 * r /\ 0 < r
  BY PartsOf
<1>2. PICK d \in Nat : \E r \in Nat : Parts(h, n, u, d, r)
  BY <1>1
<1>3. PICK r \in Nat : Parts(h, n, u, d, r)
  BY <1>2
<1>4. u = Ulp(2 * h, n) /\ n = u * d + r /\ r < u /\ d < 2 * h /\ (h <= d \/ u = 1)
  BY <1>3 DEF Parts
<1>5. PICK a \in Nat, k \in Nat : a = u * d /\ k = d + 1
  OBVIOUS
<1>6. Around(h, n, u, d, a)
  BY <1>4, <1>5 DEF Around
<1>7. Rounded(h, u * d)
  BY <1>4, MultiplesAreRounded
<1>8. Rounded(h, u * k)
  <2>1. k <= 2 * h /\ (h <= k \/ u = 1)
    BY <1>4, <1>5
  <2> QED
    BY <1>4, <2>1, MultiplesAreRounded
<1>9. u * k = a + u
  BY <1>5
<1> QED
  BY <1>5, <1>6, <1>7, <1>8, <1>9

\* Rounding keeps the order.
LEMMA RoundingIsMonotone ==
    ASSUME NEW h \in Nat \ {0}, NEW n \in Nat, NEW m \in Nat, n <= m
    PROVE  RoundTo(2 * h, n) <= RoundTo(2 * h, m)
<1>1. PICK u \in Nat \ {0} : \E d \in Nat : \E a \in Nat :
          Around(h, n, u, d, a) /\ Rounded(h, a) /\ Rounded(h, a + u)
  BY AroundEvery
<1>2. PICK d \in Nat, a \in Nat : Around(h, n, u, d, a) /\ Rounded(h, a) /\ Rounded(h, a + u)
  BY <1>1
<1>3. a <= n /\ n < a + u
  BY <1>2 DEF Around
<1>4. PICK p \in Nat, r \in Nat : p = RoundTo(2 * h, n) /\ r = RoundTo(2 * h, m)
  BY NaturalsRound
<1>5. CASE m < a + u
  <2>1. (p = a /\ 2 * (n - a) <= u) \/ (p = a + u /\ u <= 2 * (n - a))
    BY <1>2, <1>3, <1>4, RoundsToNeighbours
  <2>2. (r = a /\ 2 * (m - a) <= u) \/ (r = a + u /\ u <= 2 * (m - a))
    BY <1>2, <1>3, <1>4, <1>5, RoundsToNeighbours
  <2>3. n = m => p = r
    BY <1>4
  <2> QED
    BY <1>3, <1>4, <2>1, <2>2, <2>3
<1>6. CASE a + u <= m
  <2>1. PICK b \in Nat : b = a + u /\ Rounded(h, b)
    BY <1>2
  <2>2. p <= b
    BY <1>3, <1>4, <2>1, NaturalsRound
  <2>3. b <= r
    BY <1>4, <1>6, <2>1, NaturalsRound
  <2> QED
    BY <1>4, <2>2, <2>3
<1> QED
  BY <1>5, <1>6

\* A number that is less than half a spacing above a real is rounded down to it.
LEMMA RoundsBack ==
    ASSUME NEW h \in Nat \ {0}, NEW n \in Nat, Rounded(h, n), NEW e \in Nat, 2 * e < Ulp(2 * h, n),
           NEW m \in Nat, m <= n + e
    PROVE  RoundTo(2 * h, m) <= n
<1>1. CASE m <= n
  BY <1>1, NaturalsRound
<1>2. CASE n < m
  <2>1. PICK u \in Nat \ {0} : \E d \in Nat :
           u = Ulp(2 * h, n) /\ n = u * d /\ d < 2 * h /\ (u > 1 => h <= d)
    BY RoundedIsMultiple
  <2>2. PICK d \in Nat : u = Ulp(2 * h, n) /\ n = u * d /\ d < 2 * h /\ (u > 1 => h <= d)
    BY <2>1
  <2>3. Around(h, n, u, d, n)
    BY <2>2 DEF Around
  <2>4. n <= m /\ m < n + u /\ 2 * (m - n) < u
    BY <1>2, <2>2
  <2>5. \/ RoundTo(2 * h, m) = n /\ 2 * (m - n) <= u
        \/ RoundTo(2 * h, m) = n + u /\ u <= 2 * (m - n)
    BY <2>3, <2>4, RoundsToNeighbours
  <2> QED
    BY <2>4, <2>5
<1> QED
  BY <1>1, <1>2

\* So is one above it by half of a part.
LEMMA PartIsSmall ==
    ASSUME NEW h \in Nat \ {0}, NEW n \in Nat, NEW b \in Nat, NEW w \in Nat, 2 * h <= w, b * w <= n
    PROVE  b < Ulp(2 * h, n)
<1>1. PICK u \in Nat \ {0} : u = Ulp(2 * h, n) /\ n < 2 * (h * u)
  BY UlpFits
<1>2. ASSUME u <= b PROVE FALSE
  <2>1. u * w <= b * w
    BY <1>2, ProductOrder
  <2>2. (2 * h) * u <= w * u
    BY ProductOrder
  <2>3. (2 * h) * u = 2 * (h * u) /\ w * u = u * w /\ h * u \in Nat /\ u * w \in Nat /\ b * w \in Nat
    OBVIOUS
  <2> QED
    BY <1>1, <2>1, <2>2, <2>3
<1> QED
  BY <1>1, <1>2

\* The quotient of a product's bound.
LEMMA QuotientBounds ==
    ASSUME NEW w \in Nat \ {0}, NEW x \in Int, NEW i \in Int, NEW j \in Int, w * i <= x, x <= w * j
    PROVE  x \div w \in Int /\ i <= x \div w /\ x \div w <= j
<1>1. PICK p \in Int, r \in Nat : p = x \div w /\ r < w /\ x = w * p + r
  BY IntegerDivision
<1>2. ASSUME p + 1 <= i PROVE FALSE
  <2>1. PICK k \in Nat : i = (p + 1) + k
    <3>1. i - (p + 1) \in Nat /\ i = (p + 1) + (i - (p + 1))
      BY <1>2
    <3> QED
      BY <3>1
  <2>2. w * i = w * p + w + w * k /\ w * k \in Nat /\ w * p \in Int
    BY <2>1
  <2> QED
    BY <1>1, <2>2
<1>3. ASSUME j + 1 <= p PROVE FALSE
  <2>1. PICK k \in Nat : p = (j + 1) + k
    <3>1. p - (j + 1) \in Nat /\ p = (j + 1) + (p - (j + 1))
      BY <1>3
    <3> QED
      BY <3>1
  <2>2. w * p = w * j + w + w * k /\ w * k \in Nat /\ w * j \in Int
    BY <2>1
  <2> QED
    BY <1>1, <2>2
<1> QED
  BY <1>1, <1>2, <1>3

\* Scaling a part of one to an interval rounds to a real of the interval.
LEMMA MulAddStays ==
    ASSUME NEW h \in Nat \ {0}, PowerOfTwo(PerUnit), NEW fused \in BOOLEAN,
           NEW min \in Int, NEW max \in Int, Rounded(h, min), Rounded(h, max),
           NEW d \in Nat, d = max - min, Rounded(h, d), NEW p \in 0 .. PerUnit,
           NEW x, x = MulAdd(2 * h, fused, p, d, min)
    PROVE  x \in Int /\ Rounded(h, x) /\ min <= x /\ x <= max
<1>1. PICK w \in Nat \ {0} : w = PerUnit /\ PowerOfTwo(w)
  BY DEF PowerOfTwo
<1>2. p \in Nat /\ p <= w
  BY <1>1
<1>3. PICK a \in Nat, b \in Nat : a = p * d /\ b = w * d /\ a <= b
  <2>1. p * d \in Nat /\ w * d \in Nat /\ p * d <= w * d
    BY <1>2, ProductOrder
  <2> QED
    BY <2>1
<1>4. CASE fused
  <2>1. PICK low \in Int, high \in Int : low = w * min /\ high = w * max
    OBVIOUS
  <2>2. Rounded(h, low) /\ Rounded(h, high)
    BY <1>1, <2>1, PowersKeepReals
  <2>3. PICK t \in Int : t = a + low
    OBVIOUS
  <2>4. high = low + b
    <3>1. max = min + d
      OBVIOUS
    <3>2. w * max = w * min + w * d
      BY <3>1
    <3> QED
      BY <1>3, <2>1, <3>2
  <2>5. low <= t /\ t <= high
    BY <1>3, <2>3, <2>4
  <2>6. PICK r \in Int : r = RoundTo(2 * h, t) /\ Nearest(h, t, r)
    BY NumbersRound
  <2>7. Rounded(h, r) /\ low <= r /\ r <= high
    BY <2>2, <2>5, <2>6 DEF Nearest
  <2>8. x = r \div w
    <3>1. p * d + min * PerUnit = t
      BY <1>1, <1>3, <2>1, <2>3
    <3> QED
      BY <1>1, <1>4, <2>6, <3>1 DEF MulAdd
  <2>9. r \div w \in Int /\ min <= r \div w /\ r \div w <= max
    BY <2>1, <2>7, QuotientBounds
  <2>10. Rounded(h, r \div w)
    BY <1>1, <2>7, PowersKeepReals
  <2> QED
    BY <2>8, <2>9, <2>10
<1>5. CASE ~fused
  <2>1. Rounded(h, b)
    BY <1>1, <1>3, PowersKeepReals
  <2>2. PICK r \in Nat : r = RoundTo(2 * h, a) /\ r <= b
    BY <1>3, <2>1, NaturalsRound
  <2>3. PICK z \in Int : z = 0 /\ w * z = 0
    OBVIOUS
  <2>4. r \div w \in Int /\ z <= r \div w /\ r \div w <= d
    <3>1. w * z <= r /\ r <= w * d
      BY <1>3, <2>2, <2>3
    <3> QED
      BY <3>1, QuotientBounds
  <2>5. PICK t \in Int : t = r \div w + min /\ min <= t /\ t <= max
    BY <2>3, <2>4
  <2>6. PICK s \in Int : s = RoundTo(2 * h, t) /\ Nearest(h, t, s)
    BY NumbersRound
  <2>7. Rounded(h, s) /\ min <= s /\ s <= max
    BY <2>5, <2>6 DEF Nearest
  <2>8. x = s
    BY <1>1, <1>3, <1>5, <2>2, <2>5, <2>6 DEF MulAdd
  <2> QED
    BY <2>7, <2>8
<1> QED
  BY <1>4, <1>5

\* Adding half of a bin to a part of one, and rounding, gives no more than one.
LEMMA PartOfOne ==
    ASSUME NEW h \in Nat \ {0}, PowerOfTwo(PerUnit), NEW w \in Nat \ {0}, w = PerUnit,
           NEW n \in Nat, NEW b \in Nat, NEW g \in Nat, NEW largest \in Nat, 2 * h <= largest,
           b * largest <= w, g * largest <= w, n <= largest
    PROVE  /\ Mul(2 * h, n * w, b) \in 0 .. w
           /\ \A fused \in BOOLEAN : MulAdd(2 * h, fused, n * w, b, g \div 2) \in 0 .. w
<1>1. Rounded(h, 1) /\ Rounded(h, 0)
  <2>1. PICK one \in Nat, zero \in Nat : one = 1 /\ zero = 0
    OBVIOUS
  <2>2. one < 2 * h /\ zero < 2 * h
    BY <2>1
  <2> QED
    BY <2>1, <2>2, SmallIsRounded
<1>2. Rounded(h, w)
  <2>1. PICK one \in Int : one = 1 /\ w * one = w
    OBVIOUS
  <2> QED
    BY <1>1, <2>1, PowersKeepReals
<1>3. PICK s \in Nat : s = w * w /\ Rounded(h, s)
  <2>1. w * w \in Nat
    OBVIOUS
  <2> QED
    BY <1>2, <2>1, PowersKeepReals
<1>4. PICK m \in Nat : m = b * n /\ m <= w
  <2>1. n * b <= largest * b
    BY ProductOrder
  <2>2. n * b = b * n /\ largest * b = b * largest /\ b * n \in Nat /\ b * largest \in Nat
    OBVIOUS
  <2> QED
    BY <2>1, <2>2
<1>5. PICK a \in Nat : a = w * m /\ a <= s /\ (n * w) * b = a
  <2>1. m * w <= w * w
    BY <1>4, ProductOrder
  <2>2. m * w = w * m /\ (n * w) * b = w * (b * n) /\ w * m \in Nat
    OBVIOUS
  <2> QED
    BY <1>3, <1>4, <2>1, <2>2
<1>6. PICK r \in Nat : r = RoundTo(2 * h, a) /\ r <= s
  BY <1>3, <1>5, NaturalsRound
<1>7. ASSUME NEW x \in Nat, x <= s PROVE x \div w \in 0 .. w
  <2>1. PICK z \in Int : z = 0 /\ w * z = 0
    OBVIOUS
  <2>2. w * z <= x /\ x <= w * w
    BY <1>3, <1>7, <2>1
  <2>3. x \div w \in Int /\ z <= x \div w /\ x \div w <= w
    BY <2>2, QuotientBounds
  <2> QED
    BY <2>1, <2>3
<1>8. Mul(2 * h, n * w, b) \in 0 .. w
  <2>1. Mul(2 * h, n * w, b) = r \div w
    BY <1>5, <1>6 DEF Mul
  <2> QED
    BY <1>6, <1>7, <2>1
<1>9. PICK half \in Nat : half = g \div 2 /\ 2 * half <= g
  BY Half
<1>10. ASSUME NEW fused \in BOOLEAN PROVE MulAdd(2 * h, fused, n * w, b, half) \in 0 .. w
  <2>1. CASE fused
    <3>1. PICK e \in Nat, c \in Nat : e = half * w /\ c = g * w /\ 2 * e <= c
      <4>1. (2 * half) * w <= g * w
        BY <1>9, ProductOrder
      <4>2. (2 * half) * w = 2 * (half * w) /\ half * w \in Nat /\ g * w \in Nat
        OBVIOUS
      <4> QED
        BY <4>1, <4>2
    <3>2. c * largest <= s
      <4>1. (g * largest) * w <= w * w
        <5>1. PICK k \in Nat : k = g * largest
          OBVIOUS
        <5>2. k * w <= w * w
          BY <5>1, ProductOrder
        <5> QED
          BY <5>1, <5>2
      <4>2. c * largest = (g * largest) * w
        BY <3>1
      <4> QED
        BY <1>3, <4>1, <4>2
    <3>3. c < Ulp(2 * h, s)
      BY <3>2, PartIsSmall
    <3>4. PICK u \in Nat : u = Ulp(2 * h, s)
      BY UlpFits
    <3>5. 2 * e < Ulp(2 * h, s)
      BY <3>1, <3>3, <3>4
    <3>6. PICK t \in Nat : t = a + e /\ t <= s + e
      BY <1>5
    <3>7. RoundTo(2 * h, t) <= s
      BY <1>3, <3>5, <3>6, RoundsBack
    <3>8. PICK x \in Nat : x = RoundTo(2 * h, t)
      BY NaturalsRound
    <3>9. MulAdd(2 * h, fused, n * w, b, half) = x \div w
      BY <1>5, <2>1, <3>1, <3>6, <3>8 DEF MulAdd
    <3> QED
      BY <1>7, <3>7, <3>8, <3>9
  <2>2. CASE ~fused
    <3>1. PICK k \in Nat : k = r \div w /\ k <= w
      BY <1>6, <1>7
    <3>2. g < Ulp(2 * h, w)
      BY PartIsSmall
    <3>3. PICK u \in Nat : u = Ulp(2 * h, w)
      BY UlpFits
    <3>4. 2 * half < Ulp(2 * h, w)
      BY <1>9, <3>2, <3>3
    <3>5. PICK t \in Nat : t = k + half /\ t <= w + half
      <4>1. k <= w
        BY <3>1
      <4> QED
        BY <4>1
    <3>6. RoundTo(2 * h, t) <= w
      BY <1>2, <3>4, <3>5, RoundsBack
    <3>7. PICK x \in Nat : x = RoundTo(2 * h, t)
      BY NaturalsRound
    <3>8. MulAdd(2 * h, fused, n * w, b, half) = x
      BY <1>5, <1>6, <2>2, <3>1, <3>5, <3>7 DEF MulAdd
    <3> QED
      BY <3>6, <3>7, <3>8
  <2> QED
    BY <2>1, <2>2
<1> QED
  BY <1>8, <1>9, <1>10
=============================================================================
