----------------------- MODULE DynamicAllocator_proofs -----------------------
(***************************************************************************)
(* The allocators for any amount of memory up to 4 GiB and any number of   *)
(* orders: blocks neither overlap nor get lost, merging is complete, and   *)
(* pieces of memory given to callers never overlap.                        *)
(***************************************************************************)
EXTENDS DynamicAllocator, Queues_proofs

-----------------------------------------------------------------------------
(* Powers of two.                                                          *)

\* What a recursive function that begins with a and goes on with g is at n,
\* given its values F before n.
Following(F, a, g, n) == IF n = 0 THEN a ELSE g[<<n - 1, F[n - 1]>>]

\* A function that satisfies the recursion up to k.
FollowsTo(F, a, g, k) == F = [n \in 0..k |-> Following(F, a, g, n)]

\* There is one for each k.
LEMMA PartExists ==
  ASSUME NEW a, NEW g, NEW k \in Nat
  PROVE  \E F : FollowsTo(F, a, g, k)
<1>. DEFINE Ok(j) == \E F : FollowsTo(F, a, g, j)
            Bad == {j \in Nat : ~ Ok(j)}
<1>1. SUFFICES ASSUME Bad # {} PROVE FALSE
  OBVIOUS
<1>2. PICK j \in Bad : \A i \in Bad : j <= i
  <2>1. Bad \in SUBSET Nat
    OBVIOUS
  <2>. HIDE DEF Bad
  <2>. QED BY <1>1, <2>1, LeastElement
<1>3. CASE j = 0
  <2>. DEFINE F == [n \in 0..0 |-> a]
  <2>1. F = [n \in 0..0 |-> Following(F, a, g, n)]
    BY DEF Following
  <2>. HIDE DEF F
  <2>. QED BY <1>2, <1>3, <2>1 DEF FollowsTo
<1>4. CASE j # 0
  <2>1. j - 1 \in Nat /\ ~(j - 1 \in Bad)
    BY <1>2, <1>4
  <2>2. PICK G : G = [n \in 0..(j - 1) |-> Following(G, a, g, n)]
    BY <2>1 DEF FollowsTo
  <2>. DEFINE F == [n \in 0..j |-> IF n = j THEN Following(G, a, g, j) ELSE G[n]]
  <2>3. \A n \in 0..(j - 1) : F[n] = G[n]
    BY <2>1
  <2>4. ASSUME NEW n \in 0..j PROVE F[n] = Following(F, a, g, n)
    <3>1. Following(F, a, g, n) = Following(G, a, g, n)
      <4>1. CASE n = 0
        BY <4>1 DEF Following
      <4>2. CASE n # 0
        <5>1. F[n - 1] = G[n - 1]
          BY <2>1, <2>3, <4>2
        <5>. HIDE DEF F
        <5>. QED BY <4>2, <5>1 DEF Following
      <4>. QED BY <4>1, <4>2
    <3>2. F[n] = Following(G, a, g, n)
      <4>1. \A i \in 0..(j - 1) : G[i] = Following(G, a, g, i)
        BY <2>2
      <4>2. n = j \/ n \in 0..(j - 1)
        BY <2>1
      <4>. QED BY <4>1, <4>2
    <3>. QED BY <3>1, <3>2
  <2>5. F = [n \in 0..j |-> Following(F, a, g, n)]
    BY <2>4
  <2>. HIDE DEF F
  <2>. QED BY <1>2, <2>5 DEF FollowsTo
<1>. QED BY <1>3, <1>4

\* Two of them agree.
LEMMA PartsAgree ==
  ASSUME NEW a, NEW g, NEW k \in Nat, NEW F, FollowsTo(F, a, g, k),
         NEW j \in Nat, NEW G, FollowsTo(G, a, g, j)
  PROVE  \A n \in Nat : n <= k /\ n <= j => F[n] = G[n]
<1>. DEFINE Bad == {n \in Nat : n <= k /\ n <= j /\ F[n] # G[n]}
<1>1. SUFFICES ASSUME Bad # {} PROVE FALSE
  OBVIOUS
<1>2. PICK n \in Bad : \A i \in Bad : n <= i
  <2>1. Bad \in SUBSET Nat
    OBVIOUS
  <2>. HIDE DEF Bad
  <2>. QED BY <1>1, <2>1, LeastElement
<1>3. F[n] = Following(F, a, g, n) /\ G[n] = Following(G, a, g, n)
  <2>1. n \in 0..k /\ n \in 0..j
    BY <1>2
  <2>2. \A i \in 0..k : F[i] = Following(F, a, g, i)
    BY DEF FollowsTo
  <2>3. \A i \in 0..j : G[i] = Following(G, a, g, i)
    BY DEF FollowsTo
  <2>. HIDE DEF Bad
  <2>. QED BY <2>1, <2>2, <2>3, Zenon
<1>4. CASE n = 0
  BY <1>2, <1>3, <1>4 DEF Following
<1>5. CASE n # 0
  <2>1. F[n - 1] = G[n - 1]
    BY <1>2, <1>5
  <2>. QED BY <1>2, <1>3, <1>5, <2>1 DEF Following
<1>. QED BY <1>4, <1>5

\* F is the function that begins with a and goes on with g, in S.
RecursionOf(F, S, a, g) ==
  /\ F \in [Nat -> S]
  /\ F[0] = a
  /\ \A n \in Nat : F[n + 1] = g[<<n, F[n]>>]

\* A recursion whose steps stay in a set defines a function on the numbers.
LEMMA Recursion ==
  ASSUME NEW S, NEW a \in S, NEW g \in [Nat \X S -> S]
  PROVE  \E F : RecursionOf(F, S, a, g)
<1>. DEFINE Part(k) == CHOOSE F : FollowsTo(F, a, g, k)
            P == [n \in Nat |-> Part(n)[n]]
<1>1. ASSUME NEW k \in Nat PROVE FollowsTo(Part(k), a, g, k)
  BY PartExists
<1>. HIDE DEF Part
<1>2. ASSUME NEW n \in Nat PROVE P[n] = Following(P, a, g, n)
  <2>1. Part(n)[n] = Following(Part(n), a, g, n)
    BY <1>1 DEF FollowsTo
  <2>2. CASE n = 0
    BY <2>1, <2>2 DEF Following
  <2>3. CASE n # 0
    <3>1. n - 1 \in Nat /\ n - 1 <= n
      BY <2>3
    <3>2. Part(n)[n - 1] = Part(n - 1)[n - 1]
      BY <1>1, <3>1, PartsAgree
    <3>. QED BY <2>1, <2>3, <3>1, <3>2 DEF Following
  <2>. QED BY <2>2, <2>3
<1>3. DOMAIN P = Nat /\ P = [n \in Nat |-> P[n]]
  OBVIOUS
<1>. HIDE DEF P
<1>4. P[0] = a /\ \A n \in Nat : P[n + 1] = g[<<n, P[n]>>]
  <2>1. P[0] = a
    BY <1>2 DEF Following
  <2>2. ASSUME NEW n \in Nat PROVE P[n + 1] = g[<<n, P[n]>>]
    <3>1. n + 1 \in Nat /\ n + 1 # 0 /\ (n + 1) - 1 = n
      OBVIOUS
    <3>. QED BY <1>2, <3>1 DEF Following
  <2>. QED BY <2>1, <2>2
<1>. DEFINE Bad == {n \in Nat : P[n] \notin S}
<1>5. ASSUME Bad # {} PROVE FALSE
  <2>1. PICK n \in Bad : \A i \in Bad : n <= i
    <3>1. Bad \in SUBSET Nat
      OBVIOUS
    <3>. HIDE DEF Bad
    <3>. QED BY <1>5, <3>1, LeastElement
  <2>2. n # 0
    BY <1>4, <2>1
  <2>3. n - 1 \in Nat /\ P[n - 1] \in S /\ P[(n - 1) + 1] = g[<<n - 1, P[n - 1]>>]
    BY <1>4, <2>1, <2>2
  <2>. QED BY <2>1, <2>3
<1>6. P \in [Nat -> S]
  BY <1>3, <1>5
<1>. QED BY <1>4, <1>6 DEF RecursionOf

\* The recursion of Pow2 is defined.
LEMMA PowerExists ==
  /\ Pow2[0] = 1
  /\ \A n \in Nat : Pow2[n + 1] = 2 * Pow2[n]
<1>. DEFINE g == [x \in Nat \X Nat |-> 2 * x[2]]
            Doubled(F, n) == IF n = 0 THEN 1 ELSE 2 * F[n - 1]
<1>1. g \in [Nat \X Nat -> Nat] /\ \A n, m \in Nat : g[<<n, m>>] = 2 * m
  OBVIOUS
<1>. HIDE DEF g
<1>2. PICK F \in [Nat -> Nat] : F[0] = 1 /\ \A n \in Nat : F[n + 1] = g[<<n, F[n]>>]
  <2>1. 1 \in Nat
    OBVIOUS
  <2>2. g \in [Nat \X Nat -> Nat]
    BY <1>1
  <2>3. \E F : RecursionOf(F, Nat, 1, g)
    BY <2>1, <2>2, Recursion
  <2>. QED BY <2>3 DEF RecursionOf
<1>3. ASSUME NEW n \in Nat PROVE F[n] = Doubled(F, n)
  <2>1. CASE n # 0
    <3>1. n - 1 \in Nat /\ F[(n - 1) + 1] = g[<<n - 1, F[n - 1]>>]
      BY <1>2, <2>1
    <3>. QED BY <1>1, <1>2, <2>1, <3>1
  <2>. QED BY <1>2, <2>1
<1>4. F = [n \in Nat |-> Doubled(F, n)]
  BY <1>3
<1>5. Pow2 = CHOOSE G : G = [n \in Nat |-> Doubled(G, n)]
  BY Zenon DEF Pow2
<1>6. Pow2 = [n \in Nat |-> Doubled(Pow2, n)]
  BY <1>4, <1>5
<1>7. \A n \in Nat : Pow2[n] = Doubled(Pow2, n)
  BY <1>6
<1>8. Pow2[0] = 1
  BY <1>7
<1>9. ASSUME NEW n \in Nat PROVE Pow2[n + 1] = 2 * Pow2[n]
  <2>1. n + 1 \in Nat /\ n + 1 # 0 /\ (n + 1) - 1 = n
    OBVIOUS
  <2>. QED BY <1>7, <2>1
<1>. QED BY <1>8, <1>9

\* Powers of two.
LEMMA PowerOfTwo ==
  /\ Pow2[0] = 1
  /\ \A n \in Nat : Pow2[n] \in Nat \ {0} /\ Pow2[n + 1] = 2 * Pow2[n]
<1>. DEFINE Bad == {n \in Nat : Pow2[n] \notin Nat \ {0}}
<1>4. ASSUME Bad # {} PROVE FALSE
  <2>1. PICK n \in Bad : \A i \in Bad : n <= i
    <3>1. Bad \in SUBSET Nat
      OBVIOUS
    <3>. HIDE DEF Bad
    <3>. QED BY <1>4, <3>1, LeastElement
  <2>2. n # 0
    BY <2>1, PowerExists
  <2>3. n - 1 \in Nat /\ Pow2[n - 1] \in Nat \ {0} /\ Pow2[(n - 1) + 1] = 2 * Pow2[n - 1]
    BY <2>1, <2>2, PowerExists
  <2>. QED BY <2>1, <2>3
<1>. QED BY <1>4, PowerExists

-----------------------------------------------------------------------------
(* Blocks.                                                                 *)

\* Multiplication with a positive number keeps the order.
LEMMA Multiply ==
  ASSUME NEW p \in Nat \ {0}, NEW a \in Int, NEW b \in Int
  PROVE  /\ a * p < b * p => a < b
         /\ a <= b => a * p <= b * p
         /\ a * p \in Int
<1>1. ASSUME a <= b PROVE a * p <= b * p
  <2>1. (b - a) * p >= 0
    BY <1>1
  <2>2. b * p - a * p = (b - a) * p
    OBVIOUS
  <2>. QED BY <2>1, <2>2
<1>2. ASSUME b <= a PROVE b * p <= a * p
  <2>1. (a - b) * p >= 0
    BY <1>2
  <2>2. a * p - b * p = (a - b) * p
    OBVIOUS
  <2>. QED BY <2>1, <2>2
<1>3. a * p \in Int /\ b * p \in Int
  OBVIOUS
<1>. QED BY <1>1, <1>2, <1>3

\* The quotient of a multiple.
LEMMA Quotient ==
  ASSUME NEW p \in Nat \ {0}, NEW k \in Nat, NEW d \in 0..(p - 1)
  PROVE  (k * p + d) \div p = k
<1>. DEFINE n == k * p + d
            q == n \div p
<1>1. n \in Nat /\ q \in Nat /\ q * p <= n /\ n < q * p + p
  OBVIOUS
<1>. HIDE DEF q
<1>2. q * p < (k + 1) * p /\ k * p < (q + 1) * p
  <2>1. (k + 1) * p = k * p + p /\ (q + 1) * p = q * p + p
    BY <1>1
  <2>. QED BY <1>1, <2>1
<1>3. q < k + 1 /\ k < q + 1
  BY <1>1, <1>2, Multiply
<1>. QED BY <1>1, <1>3 DEF q

\* A block begins at a multiple of its size.
AtMultiple(block, order) == \E k \in Nat : block = k * Pow2[order]

\* A larger size is a multiple of a smaller one.
LEMMA LargerSize ==
  ASSUME NEW o \in Nat, NEW d \in Nat
  PROVE  \E c \in Nat \ {0} : Pow2[o + d] = c * Pow2[o]
<1>. DEFINE Ok(j) == \E c \in Nat \ {0} : Pow2[o + j] = c * Pow2[o]
            Bad == {j \in Nat : ~ Ok(j)}
<1>1. SUFFICES ASSUME Bad # {} PROVE FALSE
  OBVIOUS
<1>2. PICK j \in Bad : \A i \in Bad : j <= i
  <2>1. Bad \in SUBSET Nat
    OBVIOUS
  <2>. HIDE DEF Bad
  <2>. QED BY <1>1, <2>1, LeastElement
<1>3. CASE j = 0
  <2>1. Pow2[o + j] = 1 * Pow2[o]
    BY <1>3, PowerOfTwo
  <2>. QED BY <1>2, <2>1
<1>4. CASE j # 0
  <2>1. j - 1 \in Nat /\ ~(j - 1 \in Bad)
    BY <1>2, <1>4
  <2>2. PICK c \in Nat \ {0} : Pow2[o + (j - 1)] = c * Pow2[o]
    BY <2>1
  <2>3. Pow2[o] \in Nat
    BY PowerOfTwo
  <2>4. Pow2[o + j] = 2 * Pow2[o + (j - 1)]
    <3>1. o + (j - 1) \in Nat /\ (o + (j - 1)) + 1 = o + j
      BY <2>1
    <3>. QED BY <3>1, PowerOfTwo
  <2>5. Pow2[o + j] = (2 * c) * Pow2[o] /\ 2 * c \in Nat \ {0}
    BY <2>2, <2>3, <2>4
  <2>. QED BY <1>2, <2>5
<1>. QED BY <1>3, <1>4

\* Two blocks that share a page lie one in the other.
LEMMA Nested ==
  ASSUME NEW o \in Nat, NEW u \in Nat, o <= u, NEW b, NEW c,
         AtMultiple(b, o), AtMultiple(c, u),
         NEW t, t \in BlockPages(b, o), t \in BlockPages(c, u)
  PROVE  BlockPages(b, o) \subseteq BlockPages(c, u)
<1>. DEFINE p == Pow2[o]
<1>1. p \in Nat \ {0} /\ Pow2[u] \in Nat \ {0}
  BY PowerOfTwo
<1>2. PICK m \in Nat \ {0} : Pow2[u] = m * p
  <2>1. u - o \in Nat /\ o + (u - o) = u
    OBVIOUS
  <2>. QED BY <2>1, LargerSize
<1>3. PICK k \in Nat : b = k * p
  BY DEF AtMultiple
<1>4. PICK j \in Nat : c = j * Pow2[u]
  BY DEF AtMultiple
<1>. HIDE DEF p
<1>. DEFINE first == j * m
            last == (j + 1) * m
<1>5. first \in Nat /\ last \in Nat /\ first < last
      /\ c = first * p /\ c + Pow2[u] = last * p
  <2>1. first \in Nat /\ last = first + m
    OBVIOUS
  <2>2. j * (m * p) = (j * m) * p /\ (first + m) * p = first * p + m * p
    BY <1>1, <2>1
  <2>. QED BY <1>1, <1>2, <1>4, <2>1, <2>2
<1>. HIDE DEF first, last
<1>6. k * p \in Nat /\ (k + 1) * p = k * p + p /\ first * p \in Nat /\ last * p \in Nat
  BY <1>1, <1>5
<1>7. t \in Int /\ k * p <= t /\ t < k * p + p /\ first * p <= t /\ t < last * p
  BY <1>1, <1>3, <1>5, <1>6 DEF BlockPages, p
<1>. DEFINE kp == k * p
            lp == last * p
            fp == first * p
            up == (k + 1) * p
<1>7a. kp \in Nat /\ up = kp + p /\ fp \in Nat /\ lp \in Nat
  BY <1>6
<1>7b. kp <= t /\ t < kp + p /\ fp <= t /\ t < lp
  BY <1>7
<1>8. k * p < last * p /\ first * p < (k + 1) * p
  <2>. HIDE DEF kp, lp, fp, up
  <2>1. kp < lp /\ fp < up
    BY <1>1, <1>7, <1>7a, <1>7b
  <2>. QED BY <2>1 DEF kp, lp, fp, up
<1>9. k < last /\ first < k + 1
  BY <1>1, <1>5, <1>8, Multiply
<1>10. k + 1 <= last /\ first <= k
  BY <1>5, <1>9
<1>11. (k + 1) * p <= last * p /\ first * p <= k * p
  BY <1>1, <1>5, <1>10, Multiply
<1>. QED BY <1>1, <1>3, <1>5, <1>6, <1>11 DEF BlockPages, p

\* A block begins at a number, at a multiple of every smaller size too.
LEMMA Coarser ==
  ASSUME NEW u \in Nat, NEW o \in 0..u, NEW b, AtMultiple(b, u)
  PROVE  b \in Nat /\ AtMultiple(b, o)
<1>1. PICK k \in Nat : b = k * Pow2[u]
  BY DEF AtMultiple
<1>2. PICK c \in Nat \ {0} : Pow2[u] = c * Pow2[o]
  <2>1. PICK d \in Nat : o \in Nat /\ o + d = u
    <3>1. u - o \in Nat /\ o \in Nat /\ o + (u - o) = u
      OBVIOUS
    <3>. QED BY <3>1
  <2>2. \E c \in Nat \ {0} : Pow2[o + d] = c * Pow2[o]
    BY <2>1, LargerSize
  <2>. QED BY <2>1, <2>2
<1>3. Pow2[o] \in Nat /\ Pow2[u] \in Nat
  BY PowerOfTwo
<1>4. b = (k * c) * Pow2[o] /\ k * c \in Nat
  BY <1>1, <1>2, <1>3
<1>5. b \in Nat
  BY <1>1, <1>3
<1>. QED BY <1>4, <1>5 DEF AtMultiple

\* A block of the next order is a pair of buddies.
LEMMA Halves ==
  ASSUME NEW o \in Nat, NEW l, AtMultiple(l, o + 1)
  PROVE  /\ l \in Nat
         /\ AtMultiple(l, o) /\ AtMultiple(l + Pow2[o], o)
         /\ BuddyOf(l, o) = l + Pow2[o] /\ BuddyOf(l + Pow2[o], o) = l
         /\ BlockPages(l, o + 1) = BlockPages(l, o) \cup BlockPages(l + Pow2[o], o)
         /\ BlockPages(l, o) \cap BlockPages(l + Pow2[o], o) = {}
<1>. DEFINE p == Pow2[o]
<1>1. p \in Nat \ {0} /\ Pow2[o + 1] = 2 * p
  BY PowerOfTwo
<1>2. PICK j \in Nat : l = j * (2 * p)
  BY <1>1 DEF AtMultiple
<1>. HIDE DEF p
<1>3. l = (2 * j) * p /\ l \in Nat /\ 2 * j \in Nat
  BY <1>1, <1>2
<1>4. l + p = (2 * j + 1) * p /\ 2 * j + 1 \in Nat
  BY <1>1, <1>3
<1>5. l \div p = 2 * j /\ (l + p) \div p = 2 * j + 1
  <2>1. 0 \in 0..(p - 1)
    BY <1>1
  <2>2. ((2 * j) * p + 0) \div p = 2 * j /\ ((2 * j + 1) * p + 0) \div p = 2 * j + 1
    BY <1>1, <1>3, <1>4, <2>1, Quotient
  <2>3. (2 * j) * p + 0 = l /\ (2 * j + 1) * p + 0 = l + p
    BY <1>1, <1>3, <1>4
  <2>. QED BY <2>2, <2>3
<1>6. (2 * j) % 2 = 0 /\ (2 * j + 1) % 2 = 1
  OBVIOUS
<1>7. AtMultiple(l, o) /\ AtMultiple(l + p, o)
  BY <1>3, <1>4 DEF AtMultiple, p
<1>8. BuddyOf(l, o) = l + p /\ BuddyOf(l + p, o) = l
  <2>1. BuddyOf(l, o) = l + p
    BY <1>5, <1>6 DEF BuddyOf, p
  <2>2. BuddyOf(l + p, o) = (l + p) - p
    BY <1>5, <1>6 DEF BuddyOf, p
  <2>. QED BY <1>1, <1>3, <2>1, <2>2
<1>9. BlockPages(l, o + 1) = l..(l + 2 * p - 1)
  BY <1>1 DEF BlockPages
<1>10. BlockPages(l, o) = l..(l + p - 1) /\ BlockPages(l + p, o) = (l + p)..(l + p + p - 1)
  BY DEF BlockPages, p
<1>11. l..(l + 2 * p - 1) = (l..(l + p - 1)) \cup ((l + p)..(l + p + p - 1))
  BY <1>1, <1>3
<1>12. (l..(l + p - 1)) \cap ((l + p)..(l + p + p - 1)) = {}
  BY <1>1, <1>3
<1>. QED BY <1>3, <1>7, <1>8, <1>9, <1>10, <1>11, <1>12 DEF p

\* A block is the lower or the upper one of two buddies.
LEMMA HalfOf ==
  ASSUME NEW o \in Nat, NEW b, AtMultiple(b, o)
  PROVE  \E l : AtMultiple(l, o + 1) /\ (b = l \/ b = l + Pow2[o])
<1>. DEFINE p == Pow2[o]
<1>1. p \in Nat \ {0} /\ Pow2[o + 1] = 2 * p
  BY PowerOfTwo
<1>2. PICK k \in Nat : b = k * p
  BY DEF AtMultiple
<1>. HIDE DEF p
<1>3. PICK j \in Nat : k = 2 * j \/ k = 2 * j + 1
  <2>1. k \div 2 \in Nat /\ (k = 2 * (k \div 2) \/ k = 2 * (k \div 2) + 1)
    OBVIOUS
  <2>. QED BY <2>1
<1>4. (2 * j) * p = j * (2 * p) /\ (2 * j + 1) * p = j * (2 * p) + p
  BY <1>1
<1>5. AtMultiple(j * (2 * p), o + 1)
  BY <1>1 DEF AtMultiple
<1>. QED BY <1>2, <1>3, <1>4, <1>5 DEF p

\* The lower one of a block and its buddy: what merging makes of them.
LowerOf(b, o) == IF BuddyOf(b, o) < b THEN BuddyOf(b, o) ELSE b

\* A block and its buddy (_get_buddy) are the halves of a block of the next
\* order, each the other's buddy.
LEMMA Buddies ==
  ASSUME NEW o \in Nat, NEW b, AtMultiple(b, o)
  PROVE  /\ b \in Nat /\ BuddyOf(b, o) \in Nat
         /\ AtMultiple(BuddyOf(b, o), o)
         /\ BuddyOf(b, o) # b
         /\ BuddyOf(BuddyOf(b, o), o) = b
         /\ LowerOf(b, o) \in {b, BuddyOf(b, o)}
         /\ AtMultiple(LowerOf(b, o), o + 1)
         /\ BlockPages(LowerOf(b, o), o + 1) =
              BlockPages(b, o) \cup BlockPages(BuddyOf(b, o), o)
         /\ BlockPages(b, o) \cap BlockPages(BuddyOf(b, o), o) = {}
<1>1. PICK l : AtMultiple(l, o + 1) /\ (b = l \/ b = l + Pow2[o])
  BY HalfOf
<1>2. /\ l \in Nat
      /\ AtMultiple(l, o) /\ AtMultiple(l + Pow2[o], o)
      /\ BuddyOf(l, o) = l + Pow2[o] /\ BuddyOf(l + Pow2[o], o) = l
      /\ BlockPages(l, o + 1) = BlockPages(l, o) \cup BlockPages(l + Pow2[o], o)
      /\ BlockPages(l, o) \cap BlockPages(l + Pow2[o], o) = {}
  BY <1>1, Halves
<1>3. Pow2[o] \in Nat \ {0}
  BY PowerOfTwo
<1>4. LowerOf(b, o) = l
  BY <1>1, <1>2, <1>3 DEF LowerOf
<1>5. CASE b = l
  <2>1. BuddyOf(b, o) = l + Pow2[o] /\ l + Pow2[o] \in Nat /\ l + Pow2[o] # l
    BY <1>2, <1>3, <1>5
  <2>. QED BY <1>1, <1>2, <1>4, <1>5, <2>1
<1>6. CASE b = l + Pow2[o]
  <2>1. BuddyOf(b, o) = l /\ l + Pow2[o] \in Nat /\ l + Pow2[o] # l
    BY <1>2, <1>3, <1>6
  <2>. QED BY <1>1, <1>2, <1>4, <1>6, <2>1
<1>. QED BY <1>1, <1>5, <1>6

-----------------------------------------------------------------------------
(* Sets of blocks.                                                         *)

IsBlock(x) == x \in Orders \X Pages /\ AtMultiple(x[2], x[1])

PagesOf(x) == BlockPages(x[2], x[1])

\* The blocks of Y share no page and together are the pages of V.
Partition(Y, V) ==
  /\ \A x \in Y : IsBlock(x)
  /\ \A x, y \in Y : x # y => PagesOf(x) \cap PagesOf(y) = {}
  /\ UNION {PagesOf(x) : x \in Y} = V

\* The first page of a block is one of its pages.
LEMMA FirstPage ==
  ASSUME NEW x, IsBlock(x)
  PROVE  /\ x[1] \in Nat /\ x[2] \in Nat
         /\ x[1] \in Orders /\ x[2] \in Pages
         /\ x[2] \in PagesOf(x)
         /\ x = <<x[1], x[2]>>
<1>1. x[1] \in Orders /\ x[2] \in Pages /\ x = <<x[1], x[2]>>
  BY DEF IsBlock
<1>2. x[1] \in Nat /\ x[2] \in Nat
  BY <1>1, PageAssumption DEF Orders, Pages
<1>3. Pow2[x[1]] \in Nat \ {0}
  BY <1>2, PowerOfTwo
<1>. QED BY <1>1, <1>2, <1>3 DEF PagesOf, BlockPages

\* The pages of a block of a partition are among those of the partition, and
\* every page is in a block.
LEMMA InPartition ==
  ASSUME NEW Y, NEW V, Partition(Y, V)
  PROVE  /\ \A x \in Y : PagesOf(x) \subseteq V /\ x[2] \in V
         /\ \A p \in V : \E x \in Y : p \in PagesOf(x)
<1>1. \A x \in Y : PagesOf(x) \subseteq V
  BY DEF Partition
<1>2. \A p \in V : \E x \in Y : p \in PagesOf(x)
  BY DEF Partition
<1>. QED BY <1>1, <1>2, FirstPage DEF Partition

\* One block on its own.
LEMMA Single ==
  ASSUME NEW x, IsBlock(x)
  PROVE  Partition({x}, PagesOf(x))
BY DEF Partition

\* Partitions of pages that are apart, put together.
LEMMA Joined ==
  ASSUME NEW Y, NEW V, Partition(Y, V), NEW Z, NEW W, Partition(Z, W), V \cap W = {}
  PROVE  Partition(Y \cup Z, V \cup W)
<1>1. \A x \in Y \cup Z : IsBlock(x)
  BY DEF Partition
<1>2. ASSUME NEW x \in Y \cup Z, NEW y \in Y \cup Z, x # y
      PROVE  PagesOf(x) \cap PagesOf(y) = {}
  <2>1. \A z \in Y : PagesOf(z) \subseteq V
    BY InPartition
  <2>2. \A z \in Z : PagesOf(z) \subseteq W
    BY InPartition
  <2>. QED BY <1>2, <2>1, <2>2 DEF Partition
<1>3. UNION {PagesOf(x) : x \in Y \cup Z} = V \cup W
  BY DEF Partition
<1>. QED BY <1>1, <1>2, <1>3 DEF Partition

\* A block taken out.
LEMMA TakenOut ==
  ASSUME NEW Y, NEW V, Partition(Y, V), NEW x \in Y
  PROVE  Partition(Y \ {x}, V \ PagesOf(x))
<1>1. UNION {PagesOf(y) : y \in Y \ {x}} = V \ PagesOf(x)
  BY DEF Partition
<1>. QED BY <1>1 DEF Partition

\* The buddy of a block that is not in the partition, if its first page is: no
\* larger block holds that page, so that a block begins there.
LEMMA BuddyFound ==
  ASSUME NEW Y, NEW V, Partition(Y, V), NEW o \in Orders, NEW b, IsBlock(<<o, b>>),
         BlockPages(b, o) \cap V = {}, BuddyOf(b, o) \in V
  PROVE  \E y \in Y : y[2] = BuddyOf(b, o) /\ y[1] <= o
<1>. DEFINE q == BuddyOf(b, o)
<1>1. o \in Nat /\ AtMultiple(b, o) /\ b \in Nat /\ b \in BlockPages(b, o)
  BY FirstPage DEF IsBlock, PagesOf
<1>2. /\ q \in Nat /\ AtMultiple(q, o) /\ AtMultiple(LowerOf(b, o), o + 1)
      /\ BlockPages(LowerOf(b, o), o + 1) = BlockPages(b, o) \cup BlockPages(q, o)
  BY <1>1, Buddies
<1>. HIDE DEF q
<1>3. PICK y \in Y : q \in PagesOf(y)
  BY InPartition DEF q
<1>4. IsBlock(y) /\ PagesOf(y) \subseteq V
  BY InPartition DEF Partition
<1>5. y[1] \in Nat /\ y[2] \in Nat /\ AtMultiple(y[2], y[1]) /\ y[2] \in PagesOf(y)
  BY <1>4, FirstPage DEF IsBlock
<1>6. q \in BlockPages(q, o)
  <2>1. Pow2[o] \in Nat \ {0}
    BY <1>1, PowerOfTwo
  <2>. QED BY <1>2, <2>1 DEF BlockPages
<1>7. CASE o + 1 <= y[1]
  <2>1. q \in BlockPages(LowerOf(b, o), o + 1)
    BY <1>2, <1>6
  <2>2. BlockPages(LowerOf(b, o), o + 1) \subseteq BlockPages(y[2], y[1])
    BY <1>1, <1>2, <1>3, <1>5, <1>7, <2>1, Nested DEF PagesOf
  <2>. QED BY <1>1, <1>2, <1>4, <2>2 DEF PagesOf
<1>8. CASE y[1] <= o
  <2>1. PagesOf(y) \subseteq BlockPages(q, o)
    BY <1>1, <1>2, <1>3, <1>5, <1>6, <1>8, Nested DEF PagesOf
  <2>2. y[2] >= q
    BY <1>2, <1>5, <2>1 DEF BlockPages
  <2>3. q >= y[2]
    BY <1>2, <1>3, <1>5 DEF BlockPages, PagesOf
  <2>4. y[2] = q
    BY <1>2, <1>5, <2>2, <2>3
  <2>. QED BY <1>8, <2>4 DEF q
<1>. QED BY <1>1, <1>5, <1>7, <1>8

-----------------------------------------------------------------------------
(* The free lists and the frame array.                                     *)

FreeBlocks(lists) == {x \in Orders \X Pages : x[2] \in Range(lists[x[1]])}

\* Lists of blocks none of which is in its list twice.
AreLists(lists) ==
  /\ lists \in [Orders -> Seq(Pages)]
  /\ \A o \in Orders : IsInjective(lists[o])

\* What the lists and the frame array are to each other when H are the blocks
\* that callers own and V the pages of all blocks.
Consistent(lists, frame, H, V) ==
  /\ AreLists(lists)
  /\ frame \in [Pages -> [order : Orders, flags : Flags]]
  /\ Partition(FreeBlocks(lists) \cup H, V)
  /\ \A x \in FreeBlocks(lists) : frame[x[2]] = [order |-> x[1], flags |-> "free"]
  /\ \A x \in H : frame[x[2]] = [order |-> x[1], flags |-> "allocated"]
  /\ \A x \in FreeBlocks(lists) : x[1] < MaxOrders - 1 /\ x[1] < IntOrders =>
       <<x[1], BuddyOf(x[2], x[1])>> \notin FreeBlocks(lists)

\* Only pages of V are marked free.
FlagsWithin(frame, V) == \A p \in Pages : frame[p].flags = "free" => p \in V

\* An operation on the lists: the lists of R lose a block each, those of A
\* get one.
Changed(lists, R, A, q) ==
  [o \in Orders |->
     IF o \in R THEN linked_list_remove(lists[o], q[o])
     ELSE IF o \in A THEN linked_list_insert(lists[o], q[o])
     ELSE lists[o]]

BlocksAt(S, q) == {<<o, q[o]>> : o \in S}

\* The blocks of R are in their lists, those of A are not.
Changeable(lists, R, A, q) ==
  /\ AreLists(lists)
  /\ R \subseteq Orders /\ A \subseteq Orders /\ R \cap A = {}
  /\ \A o \in A : q[o] \in Pages
  /\ BlocksAt(R, q) \subseteq FreeBlocks(lists)
  /\ BlocksAt(A, q) \cap FreeBlocks(lists) = {}

LEMMA ListsChanged ==
  ASSUME NEW lists, NEW R, NEW A, NEW q, Changeable(lists, R, A, q)
  PROVE  /\ AreLists(Changed(lists, R, A, q))
         /\ FreeBlocks(Changed(lists, R, A, q)) =
              (FreeBlocks(lists) \ BlocksAt(R, q)) \cup BlocksAt(A, q)
<1>0. /\ lists \in [Orders -> Seq(Pages)]
      /\ \A o \in Orders : IsInjective(lists[o])
      /\ R \in SUBSET Orders /\ A \in SUBSET Orders /\ R \cap A = {}
      /\ \A o \in A : q[o] \in Pages
      /\ BlocksAt(R, q) \subseteq FreeBlocks(lists)
      /\ BlocksAt(A, q) \cap FreeBlocks(lists) = {}
  BY DEF Changeable, AreLists
<1>. DEFINE new == Changed(lists, R, A, q)
            Gone(o) == IF o \in R THEN {q[o]} ELSE {}
            Come(o) == IF o \in A THEN {q[o]} ELSE {}
<1>1. ASSUME NEW o \in Orders
      PROVE  /\ new[o] \in Seq(Pages)
             /\ IsInjective(new[o])
             /\ Range(new[o]) = (Range(lists[o]) \ Gone(o)) \cup Come(o)
  <2>0. lists[o] \in Seq(Pages) /\ IsInjective(lists[o])
    BY <1>0
  <2>1. CASE o \in R
    <3>1. <<o, q[o]>> \in FreeBlocks(lists)
      BY <1>0, <2>1 DEF BlocksAt
    <3>2. q[o] \in Range(lists[o])
      BY <3>1 DEF FreeBlocks
    <3>3. new[o] = linked_list_remove(lists[o], q[o])
      BY <2>1 DEF Changed
    <3>4. /\ linked_list_remove(lists[o], q[o]) \in Seq(Pages)
          /\ Range(linked_list_remove(lists[o], q[o])) = Range(lists[o]) \ {q[o]}
          /\ IsInjective(linked_list_remove(lists[o], q[o]))
      BY <2>0, <3>2, RemoveProperties
    <3>5. o \notin A
      BY <1>0, <2>1
    <3>. HIDE DEF new
    <3>. QED BY <2>1, <3>3, <3>4, <3>5
  <2>2. CASE o \in A
    <3>1. <<o, q[o]>> \notin FreeBlocks(lists) /\ q[o] \in Pages
      BY <1>0, <2>2 DEF BlocksAt
    <3>2. q[o] \notin Range(lists[o])
      BY <3>1 DEF FreeBlocks
    <3>3. new[o] = linked_list_insert(lists[o], q[o]) /\ o \notin R
      BY <1>0, <2>2 DEF Changed
    <3>4. /\ linked_list_insert(lists[o], q[o]) \in Seq(Pages)
          /\ Range(linked_list_insert(lists[o], q[o])) = Range(lists[o]) \cup {q[o]}
          /\ IsInjective(linked_list_insert(lists[o], q[o]))
      BY <2>0, <3>1, <3>2, InsertProperties
    <3>. HIDE DEF new
    <3>. QED BY <2>2, <3>3, <3>4
  <2>3. CASE o \notin R /\ o \notin A
    <3>1. new[o] = lists[o]
      BY <2>3 DEF Changed
    <3>. HIDE DEF new
    <3>. QED BY <2>0, <2>3, <3>1
  <2>. QED BY <2>1, <2>2, <2>3
<1>2. new \in [Orders -> Seq(Pages)]
  <2>1. new = [o \in Orders |-> new[o]]
    BY DEF Changed
  <2>. HIDE DEF new
  <2>. QED BY <1>1, <2>1
<1>. HIDE DEF new
<1>3. ASSUME NEW x
      PROVE  x \in FreeBlocks(new) <=>
               x \in (FreeBlocks(lists) \ BlocksAt(R, q)) \cup BlocksAt(A, q)
  <2>1. x \in BlocksAt(A, q) => x \in Orders \X Pages
    BY <1>0 DEF BlocksAt
  <2>2. CASE x \in Orders \X Pages
    <3>1. x = <<x[1], x[2]>> /\ x[1] \in Orders /\ x[2] \in Pages
      BY <2>2
    <3>2. x \in BlocksAt(R, q) <=> x[2] \in Gone(x[1])
      BY <3>1 DEF BlocksAt
    <3>3. x \in BlocksAt(A, q) <=> x[2] \in Come(x[1])
      BY <3>1 DEF BlocksAt
    <3>4. x \in FreeBlocks(new) <=> x[2] \in Range(new[x[1]])
      BY <2>2 DEF FreeBlocks
    <3>5. x \in FreeBlocks(lists) <=> x[2] \in Range(lists[x[1]])
      BY <2>2 DEF FreeBlocks
    <3>6. Range(new[x[1]]) = (Range(lists[x[1]]) \ Gone(x[1])) \cup Come(x[1])
      BY <1>1, <3>1
    <3>. HIDE DEF Gone, Come
    <3>. QED BY <3>2, <3>3, <3>4, <3>5, <3>6
  <2>3. CASE x \notin Orders \X Pages
    BY <2>1, <2>3 DEF FreeBlocks
  <2>. QED BY <2>2, <2>3
<1>4. FreeBlocks(new) = (FreeBlocks(lists) \ BlocksAt(R, q)) \cup BlocksAt(A, q)
  BY <1>3
<1>5. AreLists(new)
  BY <1>1, <1>2 DEF AreLists
<1>. QED BY <1>4, <1>5 DEF new

-----------------------------------------------------------------------------
(* Giving back.                                                            *)

\* The recursion of Merged is defined: from order to order it goes to the
\* lower of the two buddies.
LEMMA MergedSteps ==
  ASSUME NEW order \in Orders, NEW block \in Pages
  PROVE  /\ Merged(block, order)[order] = block
         /\ \A o \in order..(MaxOrders - 2) :
              Merged(block, order)[o + 1] = LowerOf(Merged(block, order)[o], o)
<1>0. order \in Nat /\ MaxOrders \in Nat /\ order < MaxOrders /\ block \in Int
  BY PageAssumption DEF Orders, Pages
<1>. DEFINE g == [x \in Nat \X Int |-> LowerOf(x[2], order + x[1])]
            Step(F, o) == IF o = order THEN block
                          ELSE IF BuddyOf(F[o-1], o - 1) < F[o-1]
                               THEN BuddyOf(F[o-1], o - 1) ELSE F[o-1]
            at == Merged(block, order)
<1>1. ASSUME NEW n \in Nat, NEW b \in Int PROVE LowerOf(b, order + n) \in Int
  <2>1. Pow2[order + n] \in Nat
    BY <1>0, PowerOfTwo
  <2>. QED BY <2>1 DEF LowerOf, BuddyOf
<1>2. g \in [Nat \X Int -> Int] /\ \A n \in Nat, b \in Int : g[<<n, b>>] = LowerOf(b, order + n)
  BY <1>1
<1>. HIDE DEF g
<1>3. PICK H : RecursionOf(H, Int, block, g)
  BY <1>0, <1>2, Recursion
<1>4. /\ \A n \in Nat : H[n] \in Int
      /\ H[0] = block
      /\ \A n \in Nat : H[n + 1] = LowerOf(H[n], order + n)
  BY <1>2, <1>3 DEF RecursionOf
<1>. DEFINE F == [o \in order..(MaxOrders - 1) |-> H[o - order]]
<1>5. ASSUME NEW o \in order..(MaxOrders - 1) PROVE F[o] = Step(F, o)
  <2>1. CASE o = order
    BY <1>0, <1>4, <2>1
  <2>2. CASE o # order
    <3>1. o - 1 \in order..(MaxOrders - 1) /\ o - order - 1 \in Nat
          /\ (o - order - 1) + 1 = o - order /\ order + (o - order - 1) = o - 1
          /\ (o - 1) - order = o - order - 1
      BY <1>0, <2>2
    <3>2. F[o - 1] = H[o - order - 1] /\ F[o] = H[o - order]
      BY <3>1
    <3>3. F[o] = LowerOf(F[o - 1], o - 1)
      <4>. HIDE DEF F
      <4>. QED BY <1>4, <3>1, <3>2
    <3>. HIDE DEF F
    <3>. QED BY <2>2, <3>3 DEF LowerOf
  <2>. QED BY <2>1, <2>2
<1>6. F = [o \in order..(MaxOrders - 1) |-> Step(F, o)]
  BY <1>5
<1>. HIDE DEF F
<1>7. at = CHOOSE G : G = [o \in order..(MaxOrders - 1) |-> Step(G, o)]
  BY Zenon DEF Merged
<1>8. at = [o \in order..(MaxOrders - 1) |-> Step(at, o)]
  <2>. HIDE DEF at
  <2>. QED BY <1>6, <1>7
<1>9. \A o \in order..(MaxOrders - 1) : at[o] = Step(at, o)
  <2>. HIDE DEF at
  <2>. QED BY <1>8
<1>. HIDE DEF at
<1>10. at[order] = block
  BY <1>0, <1>9
<1>11. ASSUME NEW o \in order..(MaxOrders - 2) PROVE at[o + 1] = LowerOf(at[o], o)
  <2>1. o + 1 \in order..(MaxOrders - 1) /\ o + 1 # order /\ (o + 1) - 1 = o
    BY <1>0
  <2>2. at[o + 1] = Step(at, o + 1)
    BY <1>9, <2>1
  <2>. QED BY <2>1, <2>2 DEF LowerOf
<1>. QED BY <1>10, <1>11 DEF at

\* One merge: the buddy is taken out of the blocks that are left, and the two
\* are a block of the next order.
LEMMA MergeOnce ==
  ASSUME NEW Y, NEW V, Partition(Y, V), NEW o \in Orders, o + 1 \in Orders,
         NEW b, IsBlock(<<o, b>>), BlockPages(b, o) \cap V = {},
         <<o, BuddyOf(b, o)>> \in Y
  PROVE  /\ IsBlock(<<o + 1, LowerOf(b, o)>>)
         /\ BlockPages(LowerOf(b, o), o + 1) =
              BlockPages(b, o) \cup BlockPages(BuddyOf(b, o), o)
         /\ BlockPages(BuddyOf(b, o), o) \subseteq V
         /\ Partition(Y \ {<<o, BuddyOf(b, o)>>}, V \ BlockPages(BuddyOf(b, o), o))
<1>. DEFINE q == BuddyOf(b, o)
            y == <<o, q>>
<1>1. o \in Nat /\ b \in Pages /\ AtMultiple(b, o)
  BY FirstPage DEF IsBlock
<1>2. /\ LowerOf(b, o) \in {b, q}
      /\ AtMultiple(LowerOf(b, o), o + 1)
      /\ BlockPages(LowerOf(b, o), o + 1) = BlockPages(b, o) \cup BlockPages(q, o)
  BY <1>1, Buddies
<1>. HIDE DEF q
<1>3. y \in Y
  BY DEF q
<1>. DEFINE p == PagesOf(y)
<1>4. p = BlockPages(q, o)
  BY DEF PagesOf
<1>. HIDE DEF y, p
<1>5. Partition(Y \ {y}, V \ p) /\ p \subseteq V /\ IsBlock(y)
  BY <1>3, TakenOut, InPartition DEF Partition, p
<1>6. q \in Pages
  BY <1>5 DEF IsBlock, y
<1>7. IsBlock(<<o + 1, LowerOf(b, o)>>)
  BY <1>1, <1>2, <1>6 DEF IsBlock
<1>. QED BY <1>2, <1>4, <1>5, <1>7 DEF q, y

\* memory_free_pages takes only blocks out of the lists that are in them, and
\* leaves the lists and the frame array consistent.
LEMMA Freed ==
  ASSUME NEW H, NEW V, NEW block, NEW order,
         Consistent(orders_lists, frame_array, H, V),
         IsBlock(<<order, block>>),
         frame_array[block].order = order,
         BlockPages(block, order) \cap V = {},
         FlagsWithin(frame_array, V \cup BlockPages(block, order)),
         memory_free_pages(block)
  PROVE  /\ Consistent(orders_lists', frame_array', H, V \cup BlockPages(block, order))
         /\ FlagsWithin(frame_array', V \cup BlockPages(block, order))
         /\ \A p \in Pages : \/ frame_array'[p] = frame_array[p]
                             \/ /\ p \in V \cup BlockPages(block, order)
                                /\ frame_array'[p].flags = "free"
<1>. DEFINE U == V \cup BlockPages(block, order)
            at == Merged(block, order)
            top == MaxOrders - 1
            stops == {o \in order..top : o = top \/ ~ HasFreeBuddy(at[o], o)}
            last == CHOOSE o \in stops : \A p \in stops : o <= p
            Y == FreeBlocks(orders_lists) \cup H
            gone(o) == {<<j, BuddyOf(at[j], j)>> : j \in order..(o - 1)}
<1>1. /\ order \in Orders /\ order \in Nat /\ block \in Pages /\ top \in Nat /\ order <= top
      /\ AtMultiple(block, order)
  BY FirstPage, PageAssumption DEF IsBlock, Orders
<1>2. /\ orders_lists' = [o \in Orders |->
           IF o \in order..(last - 1)
           THEN linked_list_remove(orders_lists[o], BuddyOf(at[o], o))
           ELSE IF o = last THEN linked_list_insert(orders_lists[o], at[o])
           ELSE orders_lists[o]]
      /\ frame_array' = [frame_array EXCEPT ![at[last]] = [order |-> last, flags |-> "free"]]
  BY DEF memory_free_pages
<1>3. at[order] = block /\ \A o \in order..(top - 1) : at[o + 1] = LowerOf(at[o], o)
  <2>1. top - 1 = MaxOrders - 2
    BY PageAssumption
  <2>. QED BY <1>1, <2>1, MergedSteps
<1>. HIDE DEF at
<1>4. last \in stops /\ \A p \in stops : last <= p
  <2>1. top \in stops /\ stops \in SUBSET Nat
    BY <1>1
  <2>. HIDE DEF stops
  <2>2. \E o \in stops : \A p \in stops : o <= p
    BY <2>1, LeastElement
  <2>. QED BY <2>2
<1>. HIDE DEF last
<1>5. /\ last \in order..top /\ last \in Nat
      /\ last = top \/ ~ HasFreeBuddy(at[last], last)
      /\ \A o \in order..(last - 1) : HasFreeBuddy(at[o], o)
  <2>1. last \in order..top /\ (last = top \/ ~ HasFreeBuddy(at[last], last))
    BY <1>4
  <2>2. ASSUME NEW o \in order..(last - 1), ~ HasFreeBuddy(at[o], o) PROVE FALSE
    <3>1. o \in order..top /\ o < last
      BY <1>1, <2>1
    <3>. QED BY <1>4, <2>1, <2>2, <3>1
  <2>. QED BY <1>1, <2>1, <2>2
<1>. HIDE DEF stops
<1>6. /\ \A x \in FreeBlocks(orders_lists) :
           frame_array[x[2]] = [order |-> x[1], flags |-> "free"]
      /\ \A x \in H : frame_array[x[2]] = [order |-> x[1], flags |-> "allocated"]
      /\ Partition(Y, V)
  BY DEF Consistent
<1>6a. /\ \A x \in FreeBlocks(orders_lists) : frame_array[x[2]].flags = "free"
       /\ \A x \in H : frame_array[x[2]].flags = "allocated"
  <2>1. ASSUME NEW x \in FreeBlocks(orders_lists) PROVE frame_array[x[2]].flags = "free"
    <3>1. frame_array[x[2]] = [order |-> x[1], flags |-> "free"]
      BY <1>6
    <3>. QED BY <3>1
  <2>2. ASSUME NEW x \in H PROVE frame_array[x[2]].flags = "allocated"
    <3>1. frame_array[x[2]] = [order |-> x[1], flags |-> "allocated"]
      BY <1>6
    <3>. QED BY <3>1
  <2>. QED BY <2>1, <2>2
\* Merging up to order o.
<1>. DEFINE Reached(o) ==
              /\ IsBlock(<<o, at[o]>>)
              /\ BlockPages(at[o], o) \subseteq U
              /\ gone(o) \subseteq FreeBlocks(orders_lists)
              /\ Partition(Y \ gone(o), U \ BlockPages(at[o], o))
            Bad == {o \in order..last : ~ Reached(o)}
<1>7. \A o \in order..last : Reached(o)
  <2>1. SUFFICES ASSUME Bad # {} PROVE FALSE
    OBVIOUS
  <2>2. PICK o \in Bad : \A i \in Bad : o <= i
    <3>1. Bad \in SUBSET Nat
      BY <1>1
    <3>. HIDE DEF Bad
    <3>. QED BY <2>1, <3>1, LeastElement
  <2>3. CASE o = order
    <3>1. gone(o) = {}
      BY <1>1, <2>3
    <3>2. Y \ gone(o) = Y /\ U \ BlockPages(at[o], o) = V
      BY <1>3, <2>3, <3>1
    <3>3. Reached(o)
      <4>. HIDE DEF Y, gone
      <4>. QED BY <1>3, <1>6, <2>3, <3>1, <3>2
    <3>. QED BY <2>2, <3>3
  <2>4. CASE o # order
    <3>. DEFINE n == o - 1
                b == at[n]
                q == BuddyOf(b, n)
    <3>1. /\ n \in order..last /\ n \in order..(last - 1) /\ n \in order..(top - 1) /\ n + 1 = o
          /\ n \in Orders /\ o \in Orders /\ n \in Nat /\ o \in order..last
      BY <1>1, <1>5, <2>2, <2>4 DEF Orders
    <3>2. Reached(n)
      <4>. HIDE DEF Reached
      <4>1. ~(o <= n) /\ n \in order..last
        BY <1>1, <3>1
      <4>2. n \notin Bad
        BY <2>2, <4>1
      <4>. QED BY <4>1, <4>2
    <3>. HIDE DEF n
    <3>3. HasFreeBuddy(b, n)
      BY <1>5, <3>1
    <3>4. q \in Pages /\ frame_array[q].flags = "free" /\ frame_array[q].order = n
      BY <3>3 DEF HasFreeBuddy
    <3>5. AtMultiple(b, n)
      BY <3>2 DEF IsBlock
    <3>6. q \in BlockPages(q, n) /\ BlockPages(b, n) \cap BlockPages(q, n) = {}
      <4>1. BlockPages(b, n) \cap BlockPages(q, n) = {} /\ q \in Nat
        BY <3>1, <3>5, Buddies
      <4>2. Pow2[n] \in Nat \ {0}
        BY <3>1, PowerOfTwo
      <4>. HIDE DEF q
      <4>. QED BY <4>1, <4>2 DEF BlockPages
    <3>7. q \in U \ BlockPages(b, n)
      <4>1. q \in U
        BY <3>4 DEF FlagsWithin
      <4>. HIDE DEF U, q
      <4>. QED BY <3>6, <4>1
    <3>8. PICK y \in Y \ gone(n) : y[2] = q /\ y[1] <= n
      <4>. HIDE DEF U, Y, gone, b
      <4>1. BlockPages(b, n) \cap (U \ BlockPages(b, n)) = {}
        OBVIOUS
      <4>2. IsBlock(<<n, b>>) /\ Partition(Y \ gone(n), U \ BlockPages(b, n))
        BY <3>2 DEF b
      <4>. QED BY <3>1, <3>7, <4>1, <4>2, BuddyFound DEF q
    <3>9. y = <<n, q>> /\ y \in FreeBlocks(orders_lists)
      <4>1. y \notin H
        <5>. HIDE DEF q, Y, gone
        <5>. QED BY <1>6a, <3>4, <3>8
      <4>2. y \in FreeBlocks(orders_lists)
        BY <3>8, <4>1
      <4>3. frame_array[q] = [order |-> y[1], flags |-> "free"]
        BY <1>6, <3>8, <4>2
      <4>4. y = <<y[1], y[2]>>
        BY <4>2 DEF FreeBlocks
      <4>. QED BY <3>4, <3>8, <4>2, <4>3, <4>4
    <3>. HIDE DEF q
    <3>10. /\ IsBlock(<<n + 1, LowerOf(b, n)>>)
           /\ BlockPages(LowerOf(b, n), n + 1) = BlockPages(b, n) \cup BlockPages(q, n)
           /\ BlockPages(q, n) \subseteq U \ BlockPages(b, n)
           /\ Partition((Y \ gone(n)) \ {<<n, q>>},
                        (U \ BlockPages(b, n)) \ BlockPages(q, n))
      <4>. HIDE DEF U, Y, gone, b
      <4>1. BlockPages(b, n) \cap (U \ BlockPages(b, n)) = {}
        OBVIOUS
      <4>2. IsBlock(<<n, b>>) /\ Partition(Y \ gone(n), U \ BlockPages(b, n))
        BY <3>2 DEF b
      <4>3. <<n, q>> \in Y \ gone(n)
        BY <3>8, <3>9
      <4>. QED BY <3>1, <4>1, <4>2, <4>3, MergeOnce DEF q
    <3>11. at[o] = LowerOf(b, n)
      BY <1>3, <3>1
    <3>12. gone(o) = gone(n) \cup {<<n, q>>}
      <4>1. order..(o - 1) = (order..(n - 1)) \cup {n}
        BY <1>1, <3>1
      <4>. QED BY <4>1 DEF q
    <3>13. BlockPages(at[o], o) = BlockPages(b, n) \cup BlockPages(q, n)
      BY <3>1, <3>10, <3>11
    <3>14. Reached(o)
      <4>. HIDE DEF gone, Y, U, b
      <4>1. IsBlock(<<o, at[o]>>)
        BY <3>1, <3>10, <3>11
      <4>2. BlockPages(at[o], o) \subseteq U
        BY <3>2, <3>10, <3>13 DEF b
      <4>3. gone(o) \subseteq FreeBlocks(orders_lists)
        BY <3>2, <3>9, <3>12
      <4>4. Y \ gone(o) = (Y \ gone(n)) \ {<<n, q>>}
        BY <3>12
      <4>5. U \ BlockPages(at[o], o) = (U \ BlockPages(b, n)) \ BlockPages(q, n)
        BY <3>13
      <4>. QED BY <3>10, <4>1, <4>2, <4>3, <4>4, <4>5
    <3>. HIDE DEF Reached
    <3>. QED BY <2>2, <3>14
  <2>. QED BY <2>2, <2>3, <2>4
\* What that makes of the lists and the frame array.
<1>. DEFINE q == [o \in order..last |-> IF o = last THEN at[o] ELSE BuddyOf(at[o], o)]
            R == order..(last - 1)
            x0 == <<last, at[last]>>
            W == U \ BlockPages(at[last], last)
<1>8. /\ \A o \in R : q[o] = BuddyOf(at[o], o)
      /\ q[last] = at[last]
      /\ R \subseteq Orders /\ last \in Orders /\ last \notin R
  BY <1>1, <1>5 DEF Orders
<1>. HIDE DEF q
<1>9. /\ IsBlock(x0) /\ at[last] \in Pages /\ at[last] \in BlockPages(at[last], last)
      /\ BlockPages(at[last], last) \subseteq U
      /\ gone(last) \subseteq FreeBlocks(orders_lists)
      /\ Partition(Y \ gone(last), W)
  <2>1. last \in order..last
    BY <1>5
  <2>2. Reached(last)
    BY <1>7, <2>1
  <2>3. at[last] \in Pages /\ at[last] \in BlockPages(at[last], last)
    <3>1. IsBlock(x0)
      BY <2>2
    <3>. QED BY <3>1, FirstPage DEF PagesOf
  <2>. HIDE DEF gone, Y, U
  <2>. QED BY <2>2, <2>3
<1>10. gone(last) = BlocksAt(R, q) /\ BlocksAt({last}, q) = {x0}
  BY <1>8 DEF BlocksAt
<1>. DEFINE Left == Y \ gone(last)
<1>11. ASSUME NEW x \in Left PROVE x[2] \in W /\ x[2] # at[last] /\ x # x0
  <2>1. x[2] \in W
    BY <1>9, InPartition
  <2>2. x[2] # at[last]
    BY <1>9, <2>1
  <2>. QED BY <2>1, <2>2
<1>12. x0 \notin FreeBlocks(orders_lists)
  <2>1. x0 \notin gone(last)
    <3>1. \A j \in order..(last - 1) : j # last
      BY <1>1, <1>5
    <3>. QED BY <3>1
  <2>. HIDE DEF gone, x0
  <2>2. x0 \in FreeBlocks(orders_lists) => x0 \in Left
    BY <2>1
  <2>. QED BY <1>11, <2>2
<1>13. orders_lists' = Changed(orders_lists, R, {last}, q)
  BY <1>2, <1>8 DEF Changed
<1>14. /\ AreLists(orders_lists')
       /\ FreeBlocks(orders_lists') = (FreeBlocks(orders_lists) \ gone(last)) \cup {x0}
  <2>1. Changeable(orders_lists, R, {last}, q)
    <3>1. AreLists(orders_lists)
      BY DEF Consistent
    <3>2. R \cap {last} = {} /\ {last} \subseteq Orders /\ \A o \in {last} : q[o] \in Pages
      BY <1>8, <1>9
    <3>. HIDE DEF R, x0, gone
    <3>. QED BY <1>8, <1>9, <1>10, <1>12, <3>1, <3>2 DEF Changeable
  <2>. HIDE DEF R, x0, gone
  <2>. QED BY <1>10, <1>13, <2>1, ListsChanged
<1>15. /\ frame_array \in [Pages -> [order : Orders, flags : Flags]]
       /\ frame_array' \in [Pages -> [order : Orders, flags : Flags]]
       /\ frame_array'[at[last]] = [order |-> last, flags |-> "free"]
       /\ \A p \in Pages : p # at[last] => frame_array'[p] = frame_array[p]
  <2>1. frame_array \in [Pages -> [order : Orders, flags : Flags]]
    BY DEF Consistent
  <2>2. [order |-> last, flags |-> "free"] \in [order : Orders, flags : Flags]
    BY <1>8 DEF Flags
  <2>. QED BY <1>2, <1>9, <2>1, <2>2
<1>. HIDE DEF gone
<1>16. H \cap gone(last) = {}
  BY <1>6a, <1>9
<1>17. FreeBlocks(orders_lists') \cup H = Left \cup {x0}
  <2>. HIDE DEF x0
  <2>. QED BY <1>14, <1>16
<1>18. Partition(FreeBlocks(orders_lists') \cup H, U)
  <2>1. Partition({x0}, PagesOf(x0)) /\ PagesOf(x0) = BlockPages(at[last], last)
    BY <1>9, Single DEF PagesOf
  <2>2. W \cap BlockPages(at[last], last) = {} /\ U = W \cup BlockPages(at[last], last)
    BY <1>9
  <2>. HIDE DEF x0, W, U, Left
  <2>3. Partition(Left, W)
    BY <1>9 DEF Left
  <2>4. Partition(Left \cup {x0}, W \cup BlockPages(at[last], last))
    BY <2>1, <2>2, <2>3, Joined
  <2>. QED BY <1>17, <2>2, <2>4
<1>19. \A x \in FreeBlocks(orders_lists') : x \in Orders \X Pages
  BY DEF FreeBlocks
<1>20. ASSUME NEW x \in FreeBlocks(orders_lists')
       PROVE  frame_array'[x[2]] = [order |-> x[1], flags |-> "free"]
  <2>1. CASE x = x0
    BY <1>15, <2>1
  <2>2. CASE x # x0
    <3>1. x \in FreeBlocks(orders_lists) /\ x \in Left /\ x[2] \in Pages
      BY <1>14, <1>19, <2>2
    <3>2. x[2] # at[last]
      BY <1>11, <3>1
    <3>. QED BY <1>6, <1>15, <3>1, <3>2
  <2>. QED BY <2>1, <2>2
<1>21. ASSUME NEW x \in H
       PROVE  frame_array'[x[2]] = [order |-> x[1], flags |-> "allocated"]
  <2>1. x \in Left
    BY <1>16
  <2>2. x[2] # at[last] /\ x[2] \in Pages
    <3>1. IsBlock(x)
      BY <1>6 DEF Partition
    <3>. QED BY <1>11, <2>1, <3>1, FirstPage
  <2>. QED BY <1>6, <1>15, <2>2
<1>22. ASSUME NEW x \in FreeBlocks(orders_lists'), x[1] < MaxOrders - 1, x[1] < IntOrders
       PROVE  <<x[1], BuddyOf(x[2], x[1])>> \notin FreeBlocks(orders_lists')
  <2>1. last # top /\ last < IntOrders => \A p \in Pages :
          p = BuddyOf(at[last], last) => <<last, p>> \notin FreeBlocks(orders_lists')
    <3>1. SUFFICES ASSUME last # top, last < IntOrders, NEW p \in Pages, p = BuddyOf(at[last], last),
                          <<last, p>> \in FreeBlocks(orders_lists')
                   PROVE  FALSE
      OBVIOUS
    <3>2. p # at[last]
      <4>1. AtMultiple(at[last], last)
        BY <1>9 DEF IsBlock
      <4>. QED BY <1>5, <3>1, <4>1, Buddies
    <3>3. <<last, p>> \in FreeBlocks(orders_lists)
      BY <1>14, <3>1, <3>2
    <3>4. frame_array[p] = [order |-> last, flags |-> "free"]
      BY <1>6, <3>3
    <3>. QED BY <1>5, <3>1, <3>4 DEF HasFreeBuddy
  <2>2. SUFFICES ASSUME <<x[1], BuddyOf(x[2], x[1])>> \in FreeBlocks(orders_lists')
                 PROVE  FALSE
    OBVIOUS
  <2>. DEFINE y == <<x[1], BuddyOf(x[2], x[1])>>
  <2>3. y \in FreeBlocks(orders_lists') /\ BuddyOf(x[2], x[1]) \in Pages
    BY <1>19, <2>2
  <2>4. IsBlock(x) /\ x = <<x[1], x[2]>> /\ x[2] \in Pages /\ x[1] \in Nat /\ AtMultiple(x[2], x[1])
    <3>1. IsBlock(x)
      BY <1>18 DEF Partition
    <3>. QED BY <3>1, FirstPage DEF IsBlock
  <2>5. BuddyOf(BuddyOf(x[2], x[1]), x[1]) = x[2]
    BY <2>4, Buddies
  <2>6. CASE x = x0
    <3>1. x[1] = last /\ x[2] = at[last] /\ last # top /\ last < IntOrders
      BY <1>1, <1>5, <1>22, <2>6
    <3>2. BuddyOf(at[last], last) \in Pages
          /\ <<last, BuddyOf(at[last], last)>> \in FreeBlocks(orders_lists')
      BY <2>3, <3>1
    <3>. QED BY <2>1, <3>1, <3>2
  <2>7. CASE y = x0
    <3>1. x[1] = last /\ BuddyOf(x[2], x[1]) = at[last]
      BY <2>7
    <3>2. x[2] = BuddyOf(at[last], last) /\ x = <<last, x[2]>>
      BY <2>4, <2>5, <3>1
    <3>3. last # top /\ last < IntOrders
      BY <1>1, <1>5, <1>22, <3>1
    <3>. QED BY <1>22, <2>1, <2>4, <3>1, <3>2, <3>3
  <2>8. CASE x # x0 /\ y # x0
    <3>1. x \in FreeBlocks(orders_lists) /\ y \in FreeBlocks(orders_lists)
      <4>. HIDE DEF x0, y
      <4>. QED BY <1>14, <2>3, <2>8
    <3>. QED BY <1>22, <3>1 DEF Consistent
  <2>. QED BY <2>6, <2>7, <2>8
<1>23. Consistent(orders_lists', frame_array', H, U)
  BY <1>14, <1>15, <1>18, <1>20, <1>21, <1>22 DEF Consistent
<1>24. FlagsWithin(frame_array', U)
  <2>. SUFFICES ASSUME NEW p \in Pages, frame_array'[p].flags = "free" PROVE p \in U
    BY DEF FlagsWithin
  <2>1. CASE p = at[last]
    <3>. HIDE DEF U
    <3>. QED BY <1>9, <2>1
  <2>2. CASE p # at[last]
    BY <1>15, <2>2 DEF FlagsWithin
  <2>. QED BY <2>1, <2>2
<1>25. ASSUME NEW p \in Pages
       PROVE  frame_array'[p] = frame_array[p] \/ (p \in U /\ frame_array'[p].flags = "free")
  <2>. HIDE DEF U
  <2>. QED BY <1>9, <1>15
<1>. QED BY <1>23, <1>24, <1>25

-----------------------------------------------------------------------------
(* Taking.                                                                 *)

\* What a block is split into: its first part of order to, and the upper
\* halves that are left each time.
UpperHalves(block, to, from) == {<<o, block + Pow2[o]>> : o \in to..(from - 1)}

\* The parts share no page and lose none.
LEMMA Split ==
  ASSUME NEW from \in Orders, NEW to \in 0..from, NEW block,
         IsBlock(<<from, block>>), BlockPages(block, from) \subseteq Pages
  PROVE  /\ Partition({<<to, block>>} \cup UpperHalves(block, to, from),
                      BlockPages(block, from))
         /\ \A o \in to..(from - 1) : BuddyOf(block + Pow2[o], o) = block
<1>1. from \in Nat /\ to \in Nat /\ to <= from /\ block \in Nat /\ block \in Pages
      /\ AtMultiple(block, from)
  BY FirstPage DEF IsBlock
<1>2. ASSUME NEW o \in to..from
      PROVE  /\ o \in Nat /\ o \in Orders /\ AtMultiple(block, o)
             /\ BlockPages(block, o) \subseteq Pages
  <2>1. o \in Nat /\ o \in 0..from /\ o \in Orders
    BY <1>1, PageAssumption DEF Orders
  <2>2. AtMultiple(block, o)
    BY <1>1, <2>1, Coarser
  <2>3. block \in BlockPages(block, o) /\ block \in BlockPages(block, from)
    <3>1. Pow2[o] \in Nat \ {0} /\ Pow2[from] \in Nat \ {0}
      BY <1>1, <2>1, PowerOfTwo
    <3>. QED BY <1>1, <3>1 DEF BlockPages
  <2>4. BlockPages(block, o) \subseteq BlockPages(block, from)
    <3>1. o <= from
      BY <1>1
    <3>. QED BY <1>1, <2>1, <2>2, <2>3, <3>1, Nested
  <2>. QED BY <2>1, <2>2, <2>4
<1>3. ASSUME NEW o \in to..(from - 1)
      PROVE  /\ o \in to..from /\ o + 1 \in to..from
             /\ BuddyOf(block + Pow2[o], o) = block
             /\ IsBlock(<<o, block + Pow2[o]>>)
             /\ BlockPages(block, o + 1) = BlockPages(block, o) \cup BlockPages(block + Pow2[o], o)
             /\ BlockPages(block, o) \cap BlockPages(block + Pow2[o], o) = {}
  <2>1. o \in to..from /\ o + 1 \in to..from /\ o \in Nat
    BY <1>1
  <2>2. AtMultiple(block, o + 1)
    BY <1>2, <2>1
  <2>3. /\ AtMultiple(block + Pow2[o], o)
        /\ BuddyOf(block + Pow2[o], o) = block
        /\ BlockPages(block, o + 1) = BlockPages(block, o) \cup BlockPages(block + Pow2[o], o)
        /\ BlockPages(block, o) \cap BlockPages(block + Pow2[o], o) = {}
    BY <2>1, <2>2, Halves
  <2>4. block + Pow2[o] \in BlockPages(block + Pow2[o], o)
    <3>1. Pow2[o] \in Nat \ {0}
      BY <2>1, PowerOfTwo
    <3>. QED BY <1>1, <3>1 DEF BlockPages
  <2>5. block + Pow2[o] \in Pages
    BY <1>2, <2>1, <2>3, <2>4
  <2>6. IsBlock(<<o, block + Pow2[o]>>)
    BY <1>2, <2>1, <2>3, <2>5 DEF IsBlock
  <2>. QED BY <2>1, <2>3, <2>6
<1>. DEFINE Parts(o) == {<<to, block>>} \cup UpperHalves(block, to, o)
            Ok(o) == Partition(Parts(o), BlockPages(block, o))
            Bad == {o \in to..from : ~ Ok(o)}
<1>4. ASSUME Bad # {} PROVE FALSE
  <2>1. PICK o \in Bad : \A i \in Bad : o <= i
    <3>1. Bad \in SUBSET Nat
      BY <1>1
    <3>. HIDE DEF Bad
    <3>. QED BY <1>4, <3>1, LeastElement
  <2>2. CASE o = to
    <3>1. to..(o - 1) = {}
      BY <1>1, <2>2
    <3>2. Parts(o) = {<<o, block>>}
      BY <2>2, <3>1 DEF UpperHalves
    <3>3. IsBlock(<<o, block>>) /\ PagesOf(<<o, block>>) = BlockPages(block, o)
      BY <1>1, <1>2 DEF IsBlock, PagesOf
    <3>. HIDE DEF Parts
    <3>. QED BY <2>1, <3>2, <3>3, Single
  <2>3. CASE o # to
    <3>. DEFINE n == o - 1
                y == <<n, block + Pow2[n]>>
    <3>1. n \in to..(from - 1) /\ n \in to..from /\ n + 1 = o /\ ~(o <= n)
      BY <1>1, <2>1, <2>3
    <3>2. Ok(n)
      <4>. HIDE DEF Ok, n
      <4>1. n \notin Bad
        BY <2>1, <3>1
      <4>. QED BY <3>1, <4>1
    <3>. HIDE DEF n
    <3>3. Parts(o) = Parts(n) \cup {y}
      <4>1. to..(o - 1) = (to..(n - 1)) \cup {n}
        BY <1>1, <3>1
      <4>. QED BY <4>1 DEF UpperHalves
    <3>4. /\ IsBlock(y) /\ PagesOf(y) = BlockPages(block + Pow2[n], n)
          /\ BlockPages(block, o) = BlockPages(block, n) \cup PagesOf(y)
          /\ BlockPages(block, n) \cap PagesOf(y) = {}
      BY <1>3, <3>1 DEF PagesOf
    <3>. HIDE DEF y, Parts
    <3>5. Partition({y}, PagesOf(y))
      BY <3>4, Single
    <3>6. Partition(Parts(n) \cup {y}, BlockPages(block, n) \cup PagesOf(y))
      BY <3>2, <3>4, <3>5, Joined
    <3>. QED BY <2>1, <3>3, <3>4, <3>6
  <2>. QED BY <2>2, <2>3
<1>5. Ok(from)
  <2>1. from \in to..from
    BY <1>1
  <2>. HIDE DEF Ok
  <2>. QED BY <1>4, <2>1
<1>. QED BY <1>3, <1>5

\* Splitting keeps the lists and the frame array consistent.
LEMMA Taken ==
  ASSUME NEW H, NEW V \in SUBSET Pages, NEW block, NEW from \in Orders, NEW to \in 0..from,
         Consistent(orders_lists, frame_array, H, V),
         FlagsWithin(frame_array, V),
         <<from, block>> \in FreeBlocks(orders_lists),
         Take(block, from, to)
  PROVE  /\ Consistent(orders_lists', frame_array', H \cup {<<to, block>>}, V)
         /\ FlagsWithin(frame_array', V)
         /\ \A p \in Pages : \/ frame_array'[p] = frame_array[p]
                             \/ /\ p \in V
                                /\ frame_array'[p].flags \in {"free", "allocated"}
         /\ \A x \in H : x[2] # block
         /\ to \in Orders /\ block \in Pages
<1>. DEFINE x0 == <<from, block>>
            A == to..(from - 1)
            split == {block + Pow2[o] : o \in A}
            order(p) == CHOOSE o \in A : p = block + Pow2[o]
            Y == FreeBlocks(orders_lists) \cup H
            U == BlockPages(block, from)
            Parts == {<<to, block>>} \cup UpperHalves(block, to, from)
            q == [o \in to..from |-> IF o = from THEN block ELSE block + Pow2[o]]
<1>1. /\ Partition(Y, V) /\ AreLists(orders_lists)
      /\ frame_array \in [Pages -> [order : Orders, flags : Flags]]
      /\ \A x \in FreeBlocks(orders_lists) :
           frame_array[x[2]] = [order |-> x[1], flags |-> "free"]
      /\ \A x \in H : frame_array[x[2]] = [order |-> x[1], flags |-> "allocated"]
  BY DEF Consistent
<1>2. \A x \in FreeBlocks(orders_lists) : x \notin H
  <2>. SUFFICES ASSUME NEW x \in FreeBlocks(orders_lists), x \in H PROVE FALSE
    OBVIOUS
  <2>1. [order |-> x[1], flags |-> "free"] = [order |-> x[1], flags |-> "allocated"]
    BY <1>1
  <2>2. "free" = "allocated"
    BY <2>1
  <2>. QED BY <2>2
<1>3. x0 \in Y /\ IsBlock(x0) /\ PagesOf(x0) = U /\ U \subseteq V
      /\ from \in Nat /\ to \in Nat /\ to <= from /\ block \in Nat /\ block \in Pages /\ to \in Orders
  <2>1. x0 \in Y /\ IsBlock(x0) /\ PagesOf(x0) = U
    BY <1>1 DEF Partition, PagesOf
  <2>2. U \subseteq V
    BY <1>1, <2>1, InPartition
  <2>3. from \in Nat /\ block \in Nat /\ block \in Pages
    BY <2>1, FirstPage
  <2>4. to \in Nat /\ to <= from /\ to \in Orders
    BY <2>3, PageAssumption DEF Orders
  <2>. HIDE DEF U, x0, Y
  <2>. QED BY <2>1, <2>2, <2>3, <2>4
<1>4. /\ orders_lists' = [o \in Orders |->
           IF o = from THEN linked_list_remove(orders_lists[o], block)
           ELSE IF o \in A THEN linked_list_insert(orders_lists[o], block + Pow2[o])
           ELSE orders_lists[o]]
      /\ frame_array' = [p \in Pages |->
           IF p \in split THEN [order |-> order(p), flags |-> "free"]
           ELSE IF p = block THEN [order |-> to, flags |-> "allocated"]
           ELSE frame_array[p]]
  BY DEF Take
<1>5. Partition(Parts, U) /\ \A o \in A : BuddyOf(block + Pow2[o], o) = block
  BY <1>3, Split
<1>6. Partition(Y \ {x0}, V \ U)
  <2>. HIDE DEF x0, Y, U
  <2>. QED BY <1>1, <1>3, TakenOut
<1>7. /\ \A o \in A : q[o] = block + Pow2[o] /\ o \in Orders /\ o \in Nat
      /\ q[from] = block /\ from \notin A
  <2>1. from \in to..from /\ from \notin A
    BY <1>3
  <2>2. ASSUME NEW o \in A PROVE o \in to..from /\ o # from /\ o \in Orders /\ o \in Nat
    BY <1>3, PageAssumption DEF Orders
  <2>. QED BY <2>1, <2>2
<1>. HIDE DEF q
<1>8. BlocksAt({from}, q) = {x0} /\ BlocksAt(A, q) = UpperHalves(block, to, from)
  BY <1>7 DEF BlocksAt, UpperHalves
<1>9. \A x \in Parts : x[2] \in U
  BY <1>5, InPartition
<1>9a. block \in U
  <2>1. <<to, block>> \in Parts
    OBVIOUS
  <2>. HIDE DEF Parts, U
  <2>. QED BY <1>9, <2>1
<1>10. \A x \in Y \ {x0} : x[2] \in V \ U /\ x[2] \in Pages
  BY <1>1, <1>6, InPartition
<1>11. UpperHalves(block, to, from) \cap Y = {}
  <2>1. ASSUME NEW x \in UpperHalves(block, to, from), x \in Y PROVE FALSE
    <3>1. x # x0
      BY <1>7, <2>1 DEF UpperHalves
    <3>. HIDE DEF Y, x0, U
    <3>. QED BY <1>9, <1>10, <2>1, <3>1
  <2>. QED BY <2>1
<1>12. ASSUME NEW o \in A
       PROVE  /\ block + Pow2[o] \in U /\ block + Pow2[o] \in Pages
              /\ block + Pow2[o] \in Nat /\ block + Pow2[o] # block
  <2>1. Pow2[o] \in Nat \ {0}
    BY <1>7, PowerOfTwo
  <2>2. <<o, block + Pow2[o]>> \in Parts
    BY DEF UpperHalves
  <2>. HIDE DEF Parts, U
  <2>3. block + Pow2[o] \in U
    BY <1>9, <2>2
  <2>. QED BY <1>3, <2>1, <2>3
<1>13. /\ AreLists(orders_lists')
       /\ FreeBlocks(orders_lists') =
            (FreeBlocks(orders_lists) \ {x0}) \cup UpperHalves(block, to, from)
  <2>1. orders_lists' = Changed(orders_lists, {from}, A, q)
    BY <1>4, <1>7 DEF Changed
  <2>2. Changeable(orders_lists, {from}, A, q)
    <3>1. {from} \subseteq Orders /\ A \subseteq Orders /\ {from} \cap A = {}
          /\ \A o \in A : q[o] \in Pages
      BY <1>7, <1>12
    <3>2. UpperHalves(block, to, from) \cap FreeBlocks(orders_lists) = {}
      BY <1>11
    <3>. HIDE DEF A, x0
    <3>. QED BY <1>1, <1>8, <3>1, <3>2 DEF Changeable, x0
  <2>. DEFINE new == Changed(orders_lists, {from}, A, q)
  <2>3. /\ AreLists(new)
        /\ FreeBlocks(new) =
             (FreeBlocks(orders_lists) \ BlocksAt({from}, q)) \cup BlocksAt(A, q)
    <3>. HIDE DEF A
    <3>. QED BY <2>2, ListsChanged
  <2>. HIDE DEF x0, A, new
  <2>4. AreLists(orders_lists') /\ FreeBlocks(orders_lists') = FreeBlocks(new)
    <3>1. orders_lists' = new
      BY <2>1 DEF new
    <3>. QED BY <2>3, <3>1
  <2>5. FreeBlocks(new) = (FreeBlocks(orders_lists) \ {x0}) \cup UpperHalves(block, to, from)
    BY <1>8, <2>3, Zenon
  <2>. QED BY <2>4, <2>5, Zenon
<1>14. ASSUME NEW o \in A
       PROVE  frame_array'[block + Pow2[o]] = [order |-> o, flags |-> "free"]
  <2>. DEFINE p == block + Pow2[o]
  <2>1. p \in split /\ p \in Pages
    BY <1>12
  <2>2. order(p) \in A /\ p = block + Pow2[order(p)]
    OBVIOUS
  <2>3. order(p) = o
    <3>. DEFINE x == <<o, p>>
                y == <<order(p), p>>
    <3>1. x \in Parts /\ y \in Parts
      BY <2>2 DEF UpperHalves
    <3>2. p \in PagesOf(x) /\ p \in PagesOf(y)
      <4>1. Pow2[o] \in Nat \ {0} /\ Pow2[order(p)] \in Nat \ {0}
        BY <1>7, <2>2, PowerOfTwo
      <4>2. p \in Nat
        BY <1>12
      <4>. HIDE DEF p, order
      <4>. QED BY <4>1, <4>2 DEF PagesOf, BlockPages
    <3>3. x = y
      <4>. HIDE DEF x, y, p, Parts
      <4>. QED BY <1>5, <3>1, <3>2 DEF Partition
    <3>. QED BY <3>3
  <2>. HIDE DEF order
  <2>. QED BY <1>4, <2>1, <2>3
<1>15. frame_array'[block] = [order |-> to, flags |-> "allocated"]
  <2>1. block \notin split
    BY <1>12
  <2>. HIDE DEF split
  <2>. QED BY <1>3, <1>4, <2>1
<1>16. ASSUME NEW p \in Pages
       PROVE  p \in U \/ frame_array'[p] = frame_array[p]
  <2>1. block \in U
    BY <1>9a
  <2>2. split \subseteq U
    BY <1>12
  <2>. HIDE DEF split, U
  <2>. QED BY <1>4, <2>1, <2>2
<1>17. \A p \in Pages : frame_array'[p] = frame_array[p]
                        \/ (p \in V /\ frame_array'[p] \in [order : Orders, flags : {"free", "allocated"}])
  <2>. SUFFICES ASSUME NEW p \in Pages
                PROVE  frame_array'[p] = frame_array[p]
                        \/ (p \in V /\ frame_array'[p] \in [order : Orders, flags : {"free", "allocated"}])
    OBVIOUS
  <2>1. CASE p \in split
    <3>1. PICK o \in A : p = block + Pow2[o]
      BY <2>1
    <3>2. p \in U
      BY <1>12, <3>1
    <3>3. frame_array'[p] = [order |-> o, flags |-> "free"] /\ o \in Orders
      BY <1>7, <1>14, <3>1
    <3>. HIDE DEF U, A
    <3>. QED BY <1>3, <3>2, <3>3
  <2>2. CASE p = block
    <3>1. block \in U
      BY <1>9a
    <3>. HIDE DEF U
    <3>. QED BY <1>3, <1>15, <2>2, <3>1
  <2>3. CASE p \notin split /\ p # block
    <3>. HIDE DEF split
    <3>. QED BY <1>4, <2>3
  <2>. QED BY <2>1, <2>2, <2>3
<1>18. frame_array' \in [Pages -> [order : Orders, flags : Flags]]
  <2>1. frame_array' = [p \in Pages |-> frame_array'[p]]
    <3>. HIDE DEF split, order
    <3>. QED BY <1>4
  <2>2. \A p \in Pages : frame_array'[p] \in [order : Orders, flags : Flags]
    BY <1>1, <1>17 DEF Flags
  <2>. QED BY <2>1, <2>2
<1>19. Partition(FreeBlocks(orders_lists') \cup (H \cup {<<to, block>>}), V)
  <2>1. FreeBlocks(orders_lists') \cup (H \cup {<<to, block>>}) = (Y \ {x0}) \cup Parts
    <3>1. x0 \notin H
      BY <1>2
    <3>. HIDE DEF x0
    <3>. QED BY <1>13, <3>1
  <2>2. (V \ U) \cap U = {} /\ (V \ U) \cup U = V
    <3>. HIDE DEF U
    <3>. QED BY <1>3
  <2>. HIDE DEF Y, x0, Parts, U
  <2>3. Partition((Y \ {x0}) \cup Parts, (V \ U) \cup U)
    BY <1>5, <1>6, <2>2, Joined
  <2>. QED BY <2>1, <2>2, <2>3
<1>20. ASSUME NEW x \in FreeBlocks(orders_lists')
       PROVE  frame_array'[x[2]] = [order |-> x[1], flags |-> "free"]
  <2>1. CASE x \in UpperHalves(block, to, from)
    <3>1. PICK o \in A : x = <<o, block + Pow2[o]>>
      BY <2>1 DEF UpperHalves
    <3>. QED BY <1>14, <3>1
  <2>2. CASE x \notin UpperHalves(block, to, from)
    <3>1. x \in FreeBlocks(orders_lists) /\ x \in Y \ {x0}
      <4>. HIDE DEF x0
      <4>. QED BY <1>13, <2>2
    <3>2. x[2] \in Pages /\ x[2] \notin U
      BY <1>10, <3>1
    <3>. HIDE DEF U
    <3>. QED BY <1>1, <1>16, <3>1, <3>2
  <2>. QED BY <2>1, <2>2
<1>21. ASSUME NEW x \in H
       PROVE  /\ frame_array'[x[2]] = [order |-> x[1], flags |-> "allocated"]
              /\ x[2] # block
  <2>1. x \in Y \ {x0}
    BY <1>2
  <2>2. x[2] \in Pages /\ x[2] \notin U
    BY <1>10, <2>1
  <2>3. block \in U
    BY <1>9a
  <2>. HIDE DEF U
  <2>. QED BY <1>1, <1>16, <2>2, <2>3
<1>22. ASSUME NEW x \in FreeBlocks(orders_lists'), x[1] < MaxOrders - 1, x[1] < IntOrders,
              <<x[1], BuddyOf(x[2], x[1])>> \in FreeBlocks(orders_lists')
       PROVE  FALSE
  <2>. DEFINE b == BuddyOf(x[2], x[1])
              y == <<x[1], b>>
  <2>1. IsBlock(x) /\ x = <<x[1], x[2]>> /\ x[1] \in Nat /\ AtMultiple(x[2], x[1])
    <3>1. IsBlock(x)
      BY <1>19 DEF Partition
    <3>. QED BY <3>1, FirstPage DEF IsBlock
  <2>2. BuddyOf(b, x[1]) = x[2]
    BY <2>1, Buddies
  <2>3. x[2] # block /\ b # block
    <3>1. \A z \in FreeBlocks(orders_lists') : z[2] # block
      <4>. SUFFICES ASSUME NEW z \in FreeBlocks(orders_lists'), z[2] = block PROVE FALSE
        OBVIOUS
      <4>1. [order |-> z[1], flags |-> "free"] = [order |-> to, flags |-> "allocated"]
        BY <1>15, <1>20
      <4>2. "free" = "allocated"
        BY <4>1
      <4>. QED BY <4>2
    <3>2. y \in FreeBlocks(orders_lists') /\ y[2] = b
      BY <1>22
    <3>. HIDE DEF b, y
    <3>. QED BY <3>1, <3>2
  <2>4. x \notin UpperHalves(block, to, from)
    <3>. SUFFICES ASSUME NEW o \in A, x = <<o, block + Pow2[o]>> PROVE FALSE
      BY DEF UpperHalves
    <3>. QED BY <1>5, <2>3
  <2>5. y \notin UpperHalves(block, to, from)
    <3>. SUFFICES ASSUME NEW o \in A, y = <<o, block + Pow2[o]>> PROVE FALSE
      BY DEF UpperHalves
    <3>1. x[1] = o /\ b = block + Pow2[o]
      OBVIOUS
    <3>. HIDE DEF b
    <3>. QED BY <1>5, <2>2, <2>3, <3>1
  <2>6. x \in FreeBlocks(orders_lists) /\ y \in FreeBlocks(orders_lists)
    <3>. HIDE DEF x0
    <3>. QED BY <1>13, <1>22, <2>4, <2>5
  <2>. QED BY <1>22, <2>6 DEF Consistent
<1>23. \A x \in H \cup {<<to, block>>} : frame_array'[x[2]] = [order |-> x[1], flags |-> "allocated"]
  <2>. SUFFICES ASSUME NEW x \in H \cup {<<to, block>>}
                PROVE  frame_array'[x[2]] = [order |-> x[1], flags |-> "allocated"]
    OBVIOUS
  <2>1. CASE x \in H
    BY <1>21, <2>1
  <2>2. CASE x = <<to, block>>
    BY <1>15, <2>2
  <2>. QED BY <2>1, <2>2
<1>24. Consistent(orders_lists', frame_array', H \cup {<<to, block>>}, V)
  BY <1>13, <1>18, <1>19, <1>20, <1>22, <1>23 DEF Consistent
<1>25. FlagsWithin(frame_array', V)
  BY <1>17 DEF FlagsWithin
<1>. QED BY <1>3, <1>17, <1>21, <1>24, <1>25

-----------------------------------------------------------------------------
(* The page allocator.                                                     *)

\* The order a request needs is defined: some power of two is large enough.
LEMMA RequiredOrder ==
  ASSUME NEW size \in Nat
  PROVE  /\ required_order(size) \in Nat
         /\ PageSize * Pow2[required_order(size)] >= size
         /\ size = PageSize => required_order(size) = 0
<1>. DEFINE Enough == {o \in 0..size : PageSize * Pow2[o] >= size}
            Bad == {n \in Nat : ~(Pow2[n] >= n)}
<1>1. ASSUME Bad # {} PROVE FALSE
  <2>1. PICK n \in Bad : \A i \in Bad : n <= i
    <3>1. Bad \in SUBSET Nat
      OBVIOUS
    <3>. HIDE DEF Bad
    <3>. QED BY <1>1, <3>1, LeastElement
  <2>2. n # 0
    BY <2>1, PowerOfTwo
  <2>3. n - 1 \in Nat /\ Pow2[n - 1] >= n - 1 /\ (n - 1) + 1 = n
    BY <2>1, <2>2
  <2>4. Pow2[n - 1] \in Nat \ {0} /\ Pow2[n] = 2 * Pow2[n - 1]
    BY <2>3, PowerOfTwo
  <2>5. Pow2[n] >= n
    BY <2>3, <2>4
  <2>. QED BY <2>1, <2>5
<1>2. size \in Enough
  <2>1. Pow2[size] \in Nat /\ Pow2[size] >= size
    BY <1>1, PowerOfTwo
  <2>2. PageSize * Pow2[size] >= Pow2[size]
    <3>1. 1 * Pow2[size] <= PageSize * Pow2[size] /\ 1 * Pow2[size] = Pow2[size]
      <4>1. Pow2[size] \in Nat \ {0} /\ PageSize \in Int /\ 1 \in Int /\ 1 <= PageSize
        BY PowerOfTwo, PageAssumption
      <4>2. 1 * Pow2[size] <= PageSize * Pow2[size]
        BY <4>1, Multiply
      <4>. QED BY <4>1, <4>2
    <3>2. PageSize * Pow2[size] \in Int
      BY <2>1, PageAssumption
    <3>. QED BY <2>1, <3>1, <3>2
  <2>3. PageSize * Pow2[size] \in Int
    BY <2>1, PageAssumption
  <2>4. PageSize * Pow2[size] >= size
    BY <2>1, <2>2, <2>3
  <2>. QED BY <2>4
<1>3. \E o \in Enough : \A p \in Enough : o <= p
  <2>1. Enough \in SUBSET Nat
    OBVIOUS
  <2>. HIDE DEF Enough
  <2>. QED BY <1>2, <2>1, LeastElement
<1>4. PICK o \in Enough : \A p \in Enough : o <= p
  BY <1>3
<1>5. \A p \in 0..(o - 1) : PageSize * Pow2[p] < size
  <2>1. SUFFICES ASSUME NEW p \in 0..(o - 1) PROVE PageSize * Pow2[p] < size
    OBVIOUS
  <2>2. p \in 0..size /\ ~(o <= p)
    BY <1>4
  <2>3. ~(PageSize * Pow2[p] >= size)
    BY <1>4, <2>2
  <2>4. PageSize * Pow2[p] \in Int
    BY <2>2, PowerOfTwo, PageAssumption
  <2>. QED BY <2>3, <2>4
<1>6. /\ required_order(size) \in 0..size
      /\ PageSize * Pow2[required_order(size)] >= size
      /\ \A p \in 0..(required_order(size) - 1) : PageSize * Pow2[p] < size
  BY <1>4, <1>5 DEF required_order
<1>7. size = PageSize => required_order(size) = 0
  <2>. SUFFICES ASSUME size = PageSize, required_order(size) # 0 PROVE FALSE
    OBVIOUS
  <2>1. 0 \in 0..(required_order(size) - 1)
    BY <1>6
  <2>2. PageSize * Pow2[0] = PageSize
    BY PowerOfTwo, PageAssumption
  <2>3. PageSize < PageSize
    BY <1>6, <2>1, <2>2
  <2>. QED BY <2>3, PageAssumption
<1>. QED BY <1>6, <1>7

\* The blocks of the callers.
Held(h) == {<<h[b], b>> : b \in DOMAIN h}

\* The pages that have been given to the lists.
Usable == {p \in 0..(populated - 1) : frame_array[p].flags # "reserved"}

PageInv ==
  /\ populated \in 0..PageCount
  /\ Consistent(orders_lists, frame_array, Held(held), Usable)
  /\ FlagsWithin(frame_array, Usable)
  /\ \A p \in Pages : p >= populated => frame_array[p].order = 0
  /\ DOMAIN held \subseteq Pages
  /\ \A b \in DOMAIN held : held[b] \in Orders

\* A step reserves no page and makes no reserved one free.
ReservedStay ==
  \A p \in Pages : frame_array'[p].flags = "reserved" <=> frame_array[p].flags = "reserved"

LEMMA UsablePages ==
  ASSUME PageInv
  PROVE  /\ Usable \subseteq Pages /\ Usable \subseteq 0..(populated - 1)
         /\ frame_array \in [Pages -> [order : Orders, flags : Flags]]
         /\ populated \in Nat /\ PageCount \in Nat
BY PageAssumption DEF PageInv, Usable, Pages, Consistent

\* memory_allocate_pages keeps the invariant.
LEMMA PagesAllocated ==
  ASSUME PageInv, NEW size \in Nat, memory_allocate_pages(size)
  PROVE  /\ PageInv' /\ ReservedStay
         /\ Usable' = Usable
         /\ \E block \in Pages :
              /\ block \notin DOMAIN held
              /\ held' = [b \in DOMAIN held \cup {block} |->
                            IF b = block THEN required_order(size) ELSE held[b]]
<1>. DEFINE required == required_order(size)
            fitting == {o \in Orders : o >= required /\ orders_lists[o] # << >>}
            from == CHOOSE o \in fitting : \A p \in fitting : o <= p
            block == Head(orders_lists[from])
            H == Held(held)
            H1 == H \cup {<<required, block>>}
<1>1. /\ fitting # {}
      /\ Take(block, from, required)
      /\ held' = [b \in DOMAIN held \cup {block} |-> IF b = block THEN required ELSE held[b]]
      /\ UNCHANGED <<reserved_memory, populated>>
  BY DEF memory_allocate_pages
<1>2. required \in Nat
  BY RequiredOrder
<1>. HIDE DEF required
<1>3. from \in fitting
  <2>1. fitting \in SUBSET Nat
    BY PageAssumption DEF Orders
  <2>. HIDE DEF fitting
  <2>2. \E o \in fitting : \A p \in fitting : o <= p
    BY <1>1, <2>1, LeastElement
  <2>. QED BY <2>2
<1>. HIDE DEF from
<1>4. from \in Orders /\ required \in 0..from /\ orders_lists[from] # << >>
  BY <1>2, <1>3, PageAssumption DEF Orders
<1>5. /\ Consistent(orders_lists, frame_array, H, Usable)
      /\ FlagsWithin(frame_array, Usable)
      /\ Usable \in SUBSET Pages
  BY UsablePages DEF PageInv
<1>6. <<from, block>> \in FreeBlocks(orders_lists)
  <2>1. orders_lists[from] \in Seq(Pages)
    BY <1>4, <1>5 DEF Consistent, AreLists
  <2>2. block \in Range(orders_lists[from]) /\ Range(orders_lists[from]) \subseteq Pages
    BY <1>4, <2>1, HeadInRange
  <2>. HIDE DEF block
  <2>. QED BY <1>4, <2>2 DEF FreeBlocks
<1>. HIDE DEF block, H, fitting
<1>7. /\ Consistent(orders_lists', frame_array', H1, Usable)
      /\ FlagsWithin(frame_array', Usable)
      /\ \A p \in Pages : \/ frame_array'[p] = frame_array[p]
                          \/ /\ p \in Usable
                             /\ frame_array'[p].flags \in {"free", "allocated"}
      /\ \A x \in H : x[2] # block
      /\ required \in Orders /\ block \in Pages
  BY <1>1, <1>4, <1>5, <1>6, Taken
<1>8. block \notin DOMAIN held
  <2>. SUFFICES ASSUME block \in DOMAIN held PROVE FALSE
    OBVIOUS
  <2>1. <<held[block], block>> \in H
    BY DEF H, Held
  <2>2. <<held[block], block>>[2] = block
    OBVIOUS
  <2>. QED BY <1>7, <2>1, <2>2
<1>9. Held(held') = H1
  BY <1>1, <1>8 DEF H, Held
<1>10. Usable' = Usable
  <2>1. Usable \subseteq Pages /\ 0..(populated - 1) \subseteq Pages
    BY UsablePages DEF PageInv, Pages
  <2>2. \A p \in 0..(populated - 1) :
          frame_array'[p].flags # "reserved" <=> frame_array[p].flags # "reserved"
    BY <1>7, <2>1 DEF Usable
  <2>3. populated' = populated
    BY <1>1
  <2>. QED BY <2>2, <2>3 DEF Usable
<1>11. ASSUME NEW p \in Pages, p >= populated' PROVE frame_array'[p].order = 0
  <2>1. p >= populated /\ p \notin Usable
    BY <1>1, <1>11, UsablePages DEF Pages
  <2>. QED BY <1>7, <2>1 DEF PageInv
<1>12. DOMAIN held' \subseteq Pages /\ \A b \in DOMAIN held' : held'[b] \in Orders
  BY <1>1, <1>7 DEF PageInv
<1>13. PageInv'
  BY <1>1, <1>7, <1>9, <1>10, <1>11, <1>12 DEF PageInv
<1>14. ReservedStay
  BY <1>7 DEF ReservedStay, Usable
<1>. QED BY <1>1, <1>7, <1>8, <1>10, <1>13, <1>14 DEF required

\* Release keeps the invariant.
LEMMA PagesReleased ==
  ASSUME PageInv, NEW block, Release(block)
  PROVE  PageInv' /\ Usable' = Usable /\ ReservedStay
<1>. DEFINE order == held[block]
            x0 == <<order, block>>
            H == Held(held) \ {x0}
            F == FreeBlocks(orders_lists)
            V == Usable \ PagesOf(x0)
<1>1. /\ block \in DOMAIN held
      /\ memory_free_pages(block)
      /\ held' = [b \in DOMAIN held \ {block} |-> held[b]]
      /\ UNCHANGED <<reserved_memory, populated>>
  BY DEF Release
<1>2. /\ Consistent(orders_lists, frame_array, Held(held), Usable)
      /\ FlagsWithin(frame_array, Usable)
      /\ x0 \in Held(held)
  BY <1>1 DEF PageInv, Held
<1>3. /\ Partition(F \cup Held(held), Usable)
      /\ \A x \in F : frame_array[x[2]] = [order |-> x[1], flags |-> "free"]
      /\ \A x \in Held(held) : frame_array[x[2]] = [order |-> x[1], flags |-> "allocated"]
  BY <1>2 DEF Consistent
<1>4. x0 \notin F
  <2>. SUFFICES ASSUME x0 \in F PROVE FALSE
    OBVIOUS
  <2>1. [order |-> order, flags |-> "free"] = [order |-> order, flags |-> "allocated"]
    BY <1>2, <1>3
  <2>2. "free" = "allocated"
    BY <2>1
  <2>. QED BY <2>2
<1>5. IsBlock(x0) /\ PagesOf(x0) \subseteq Usable /\ Partition(F \cup H, V)
  <2>1. (F \cup Held(held)) \ {x0} = F \cup H /\ x0 \in F \cup Held(held)
    BY <1>2, <1>4
  <2>. HIDE DEF x0, F, H
  <2>. QED BY <1>3, <2>1, TakenOut, InPartition DEF Partition
<1>6. PagesOf(x0) = BlockPages(block, order) /\ V \cup BlockPages(block, order) = Usable
      /\ BlockPages(block, order) \cap V = {}
  BY <1>5 DEF PagesOf
<1>7. frame_array[block].order = order
  <2>1. frame_array[block] = [order |-> order, flags |-> "allocated"]
    BY <1>2, <1>3
  <2>. QED BY <2>1
<1>8. Consistent(orders_lists, frame_array, H, V)
  <2>. HIDE DEF x0, V
  <2>. QED BY <1>2, <1>3, <1>5 DEF Consistent
<1>. HIDE DEF order, H, V
<1>9. /\ Consistent(orders_lists', frame_array', H, Usable)
      /\ FlagsWithin(frame_array', Usable)
      /\ \A p \in Pages : \/ frame_array'[p] = frame_array[p]
                          \/ /\ p \in Usable
                             /\ frame_array'[p].flags = "free"
  <2>1. FlagsWithin(frame_array, V \cup BlockPages(block, order))
    BY <1>2, <1>6
  <2>2. /\ Consistent(orders_lists', frame_array', H, V \cup BlockPages(block, order))
        /\ FlagsWithin(frame_array', V \cup BlockPages(block, order))
        /\ \A p \in Pages : \/ frame_array'[p] = frame_array[p]
                            \/ /\ p \in V \cup BlockPages(block, order)
                               /\ frame_array'[p].flags = "free"
    BY <1>1, <1>5, <1>6, <1>7, <1>8, <2>1, Freed
  <2>. QED BY <1>6, <2>2
<1>10. Held(held') = H
  <2>1. H = {<<held[b], b>> : b \in DOMAIN held \ {block}}
    BY DEF H, Held, order
  <2>2. Held(held') = {<<held[b], b>> : b \in DOMAIN held \ {block}}
    BY <1>1 DEF Held
  <2>. QED BY <2>1, <2>2
<1>11. Usable' = Usable
  <2>1. Usable \subseteq Pages /\ 0..(populated - 1) \subseteq Pages
    BY UsablePages DEF PageInv, Pages
  <2>2. \A p \in 0..(populated - 1) :
          frame_array'[p].flags # "reserved" <=> frame_array[p].flags # "reserved"
    BY <1>9, <2>1 DEF Usable
  <2>3. populated' = populated
    BY <1>1
  <2>. QED BY <2>2, <2>3 DEF Usable
<1>12. ASSUME NEW p \in Pages, p >= populated' PROVE frame_array'[p].order = 0
  <2>1. p >= populated /\ p \notin Usable
    BY <1>1, <1>12, UsablePages DEF Pages
  <2>. QED BY <1>9, <2>1 DEF PageInv
<1>13. DOMAIN held' \subseteq Pages /\ \A b \in DOMAIN held' : held'[b] \in Orders
  BY <1>1 DEF PageInv
<1>14. PageInv'
  BY <1>1, <1>9, <1>10, <1>11, <1>12, <1>13 DEF PageInv
<1>15. ReservedStay
  BY <1>9 DEF ReservedStay, Usable
<1>. QED BY <1>11, <1>14, <1>15

\* A turn of _populate_orders_lists keeps the invariant.
LEMMA PagesPopulated ==
  ASSUME PageInv, Populate
  PROVE  PageInv' /\ ReservedStay
<1>. DEFINE p0 == populated
<1>1. /\ p0 < PageCount /\ populated' = p0 + 1
      /\ reserved_memory' = reserved_memory /\ held' = held
      /\ IF frame_array[p0].flags \in {"reserved", "free"}
         THEN orders_lists' = orders_lists /\ frame_array' = frame_array
         ELSE memory_free_pages(p0)
  <2>1. p0 \in Nat /\ PageCount \in Nat /\ OffsetPages \in Nat
    BY PageAssumption, PowerOfTwo DEF PageInv, OffsetPages
  <2>2. p0 < PageCount => p0 % OffsetPages = p0
    BY <2>1, MemoryAssumption
  <2>. QED BY <2>2 DEF Populate
<1>2. /\ Consistent(orders_lists, frame_array, Held(held), Usable)
      /\ FlagsWithin(frame_array, Usable)
      /\ frame_array \in [Pages -> [order : Orders, flags : Flags]]
      /\ Usable \subseteq 0..(p0 - 1) /\ Usable \subseteq Pages
      /\ p0 \in Nat /\ PageCount \in Nat
  BY UsablePages DEF PageInv
<1>3. p0 \in Pages /\ p0 \notin Usable
  BY <1>1, <1>2 DEF Pages
<1>4. frame_array[p0].flags # "free" /\ frame_array[p0].order = 0
  <2>1. frame_array[p0].flags # "free"
    BY <1>2, <1>3 DEF FlagsWithin
  <2>2. p0 >= populated
    BY <1>2
  <2>. QED BY <1>3, <2>1, <2>2 DEF PageInv
<1>5. 0..(populated' - 1) = (0..(p0 - 1)) \cup {p0} /\ populated' \in 0..PageCount
  BY <1>1, <1>2
<1>6. CASE frame_array[p0].flags = "reserved"
  <2>1. orders_lists' = orders_lists /\ frame_array' = frame_array
    BY <1>1, <1>6
  <2>2. Usable' = Usable
    BY <1>5, <1>6, <2>1 DEF Usable
  <2>3. \A p \in Pages : p >= populated' => p >= populated
    BY <1>1, <1>2 DEF Pages
  <2>. QED BY <1>1, <1>2, <1>5, <2>1, <2>2, <2>3 DEF PageInv, ReservedStay
<1>7. CASE frame_array[p0].flags # "reserved"
  <2>. DEFINE U == Usable \cup BlockPages(p0, 0)
  <2>1. memory_free_pages(p0)
    BY <1>1, <1>4, <1>7
  <2>2. BlockPages(p0, 0) = {p0}
    BY <1>2, PowerOfTwo DEF BlockPages
  <2>3. IsBlock(<<0, p0>>)
    <3>1. 0 \in Orders
      BY PageAssumption DEF Orders
    <3>2. AtMultiple(p0, 0)
      <4>1. p0 = p0 * Pow2[0]
        BY <1>2, PowerOfTwo
      <4>. QED BY <1>2, <4>1 DEF AtMultiple
    <3>. QED BY <1>3, <3>1, <3>2 DEF IsBlock
  <2>4. BlockPages(p0, 0) \cap Usable = {} /\ FlagsWithin(frame_array, U)
    BY <1>2, <1>3, <2>2 DEF FlagsWithin
  <2>5. /\ Consistent(orders_lists', frame_array', Held(held), U)
        /\ FlagsWithin(frame_array', U)
        /\ \A p \in Pages : \/ frame_array'[p] = frame_array[p]
                            \/ /\ p \in U
                               /\ frame_array'[p].flags = "free"
    BY <1>2, <1>4, <2>1, <2>3, <2>4, Freed
  <2>6. U = Usable \cup {p0}
    BY <2>2
  <2>. HIDE DEF U
  <2>7. Usable' = U
    <3>1. \A p \in 0..(p0 - 1) : p \in Pages
      BY <1>1, <1>2 DEF Pages
    <3>2. \A p \in 0..(p0 - 1) :
            frame_array'[p].flags # "reserved" <=> frame_array[p].flags # "reserved"
      <4>. SUFFICES ASSUME NEW p \in 0..(p0 - 1), frame_array'[p] # frame_array[p]
                    PROVE  frame_array'[p].flags # "reserved" <=> frame_array[p].flags # "reserved"
        OBVIOUS
      <4>1. p \in U /\ frame_array'[p].flags = "free"
        BY <2>5, <3>1
      <4>2. p \in Usable
        BY <1>2, <2>6, <4>1
      <4>. QED BY <4>1, <4>2 DEF Usable
    <3>3. frame_array'[p0].flags # "reserved"
      BY <1>3, <1>7, <2>5
    <3>. QED BY <1>5, <2>6, <3>2, <3>3 DEF Usable
  <2>8. ASSUME NEW p \in Pages, p >= populated' PROVE frame_array'[p].order = 0
    <3>1. p >= populated /\ p \notin U
      BY <1>1, <1>2, <2>6, <2>8 DEF Pages
    <3>. QED BY <2>5, <3>1 DEF PageInv
  <2>9. PageInv'
    BY <1>1, <1>5, <2>5, <2>7, <2>8 DEF PageInv
  <2>10. ReservedStay
    <3>1. \A p \in U : frame_array[p].flags # "reserved"
      BY <1>7, <2>6 DEF Usable
    <3>. QED BY <2>5, <3>1 DEF ReservedStay
  <2>. QED BY <2>9, <2>10
<1>. QED BY <1>6, <1>7

\* Before the first page is populated, any frame array without free pages
\* agrees with the empty lists.
LEMMA NothingPopulated ==
  ASSUME NEW frame, NEW flags \in [Pages -> Flags \ {"free"}],
         frame = [p \in Pages |-> [order |-> 0, flags |-> flags[p]]]
  PROVE  /\ Consistent([o \in Orders |-> << >>], frame, {}, {})
         /\ FlagsWithin(frame, {})
         /\ \A p \in Pages : frame[p].order = 0
<1>. DEFINE lists == [o \in Orders |-> << >>]
<1>1. 0 \in Orders
  BY PageAssumption DEF Orders
<1>2. AreLists(lists) /\ FreeBlocks(lists) = {}
  <2>1. << >> \in Seq(Pages) /\ Range(<< >>) = {} /\ IsInjective(<< >>)
    BY DEF Range, IsInjective
  <2>. QED BY <2>1 DEF AreLists, FreeBlocks
<1>3. /\ frame \in [Pages -> [order : Orders, flags : Flags]]
      /\ \A p \in Pages : frame[p].order = 0 /\ frame[p].flags # "free"
  BY <1>1 DEF Flags
<1>. HIDE DEF lists
<1>4. Consistent(lists, frame, {}, {})
  BY <1>2, <1>3 DEF Consistent, Partition
<1>. QED BY <1>3, <1>4 DEF lists, FlagsWithin

\* Init gives no memory to the lists yet.
LEMMA PageInit == Init => PageInv
<1>. SUFFICES ASSUME Init PROVE PageInv
  OBVIOUS
<1>1. /\ populated = 0 /\ held = << >>
      /\ orders_lists = [o \in Orders |-> << >>]
      /\ frame_array = FrameArray(reserved_memory)
  BY DEF Init
<1>. DEFINE pages == ReservedPages(reserved_memory, _allocate_frame_array(reserved_memory))
            flags == [p \in Pages |-> IF p \in pages THEN "reserved" ELSE "none"]
<1>2. flags \in [Pages -> Flags \ {"free"}]
  BY DEF Flags
<1>3. frame_array = [p \in Pages |-> [order |-> 0, flags |-> flags[p]]]
  BY <1>1 DEF FrameArray
<1>. HIDE DEF flags
<1>4. /\ Consistent(orders_lists, frame_array, {}, {})
      /\ FlagsWithin(frame_array, {})
      /\ \A p \in Pages : frame_array[p].order = 0
  BY <1>1, <1>2, <1>3, NothingPopulated
<1>5. Usable = {} /\ DOMAIN held = {} /\ Held(held) = {} /\ populated \in 0..PageCount
  BY <1>1, PageAssumption DEF Usable, Held
<1>. QED BY <1>4, <1>5 DEF PageInv

\* What a step may do to the page allocator.
PageStep ==
  \/ UNCHANGED <<frame_array, orders_lists, populated, held>>
  \/ Populate
  \/ \E size \in Nat : memory_allocate_pages(size)
  \/ \E block \in DOMAIN held : Release(block)

\* Splitting and merging keep the invariant of the page allocator.
LEMMA PageStepKeeps ==
  ASSUME PageInv, PageStep
  PROVE  PageInv' /\ ReservedStay
<1>1. CASE UNCHANGED <<frame_array, orders_lists, populated, held>>
  <2>1. Usable' = Usable
    BY <1>1 DEF Usable
  <2>. QED BY <1>1, <2>1 DEF PageInv, ReservedStay
<1>2. CASE Populate
  BY <1>2, PagesPopulated
<1>3. ASSUME NEW size \in Nat, memory_allocate_pages(size) PROVE PageInv' /\ ReservedStay
  BY <1>3, PagesAllocated
<1>4. ASSUME NEW block \in DOMAIN held, Release(block) PROVE PageInv' /\ ReservedStay
  BY <1>4, PagesReleased
<1>. QED BY <1>1, <1>2, <1>3, <1>4 DEF PageStep

\* What a step of the two allocators is to the page allocator.
LEMMA StepsOfPages == [DynNext]_allvars => PageStep /\ UNCHANGED reserved_memory
<1>. SUFFICES ASSUME [DynNext]_allvars PROVE PageStep /\ UNCHANGED reserved_memory
  OBVIOUS
<1>1. CASE UNCHANGED allvars
  BY <1>1 DEF allvars, vars, PageStep
<1>2. CASE Populate
  BY <1>2 DEF PageStep, Populate
<1>3. ASSUME NEW size \in Sizes, AllocateBlock(size) PROVE PageStep /\ UNCHANGED reserved_memory
  BY <1>3, PageAssumption DEF PageStep, AllocateBlock, memory_allocate_pages
<1>4. ASSUME NEW size \in Sizes, AllocateChunk(size) PROVE PageStep /\ UNCHANGED reserved_memory
  BY <1>4, PageAssumption DEF PageStep, AllocateChunk, FillPool, memory_allocate_pages, vars
<1>5. ASSUME NEW size \in Sizes, NoMemory(size) PROVE PageStep /\ UNCHANGED reserved_memory
  BY <1>5 DEF PageStep, NoMemory, AllocateFails, vars
<1>6. ASSUME NEW addr \in DOMAIN pieces, free(addr) PROVE PageStep /\ UNCHANGED reserved_memory
  BY <1>6 DEF PageStep, free, Release, vars
<1>7. CASE TakePage
  BY <1>7, PageAssumption DEF PageStep, TakePage, memory_allocate_pages
<1>8. ASSUME NEW block \in direct, GiveBackPage(block) PROVE PageStep /\ UNCHANGED reserved_memory
  BY <1>8 DEF PageStep, GiveBackPage, Release
<1>. QED BY <1>1, <1>2, <1>3, <1>4, <1>5, <1>6, <1>7, <1>8 DEF DynNext

\* The invariant of the page allocator holds whatever the two allocators do.
THEOREM PagesKept == DynSpec => []PageInv
<1>1. DynInit => PageInv
  BY PageInit DEF DynInit
<1>2. PageInv /\ [DynNext]_allvars => PageInv'
  BY StepsOfPages, PageStepKeeps
<1>. QED BY <1>1, <1>2, PTL DEF DynSpec

\* The free blocks and those of the callers never overlap, and together they
\* are all pages that are not reserved: splitting and merging neither lose
\* memory nor give it out twice.
LEMMA Partitioned == PageInv => BlocksPartition
<1>. SUFFICES ASSUME PageInv PROVE BlocksPartition
  OBVIOUS
<1>. DEFINE F == FreeBlocks(orders_lists)
<1>1. /\ AreLists(orders_lists)
      /\ Partition(F \cup Held(held), Usable)
      /\ \A x \in F : frame_array[x[2]] = [order |-> x[1], flags |-> "free"]
      /\ \A x \in Held(held) : frame_array[x[2]] = [order |-> x[1], flags |-> "allocated"]
  BY DEF PageInv, Consistent
<1>2. Blocks = F \cup Held(held)
  BY DEF Blocks, FreeBlocks, Held
<1>3. ASSUME NEW o \in Orders, NEW b \in Range(orders_lists[o]), b \in DOMAIN held
      PROVE  FALSE
  <2>1. orders_lists[o] \in Seq(Pages)
    BY <1>1 DEF AreLists
  <2>2. b \in Pages
    BY <2>1, HeadInRange
  <2>3. <<o, b>> \in F /\ <<held[b], b>> \in Held(held)
    BY <1>3, <2>2 DEF FreeBlocks, Held
  <2>4. frame_array[b] = [order |-> o, flags |-> "free"]
    BY <1>1, <2>3
  <2>5. frame_array[b] = [order |-> held[b], flags |-> "allocated"]
    BY <1>1, <2>3
  <2>6. "free" = "allocated"
    BY <2>4, <2>5
  <2>. QED BY <2>6
<1>4. /\ \A x, y \in Blocks : x # y =>
           BlockPages(x[2], x[1]) \cap BlockPages(y[2], y[1]) = {}
      /\ UNION {BlockPages(x[2], x[1]) : x \in Blocks} = Usable
  BY <1>1, <1>2 DEF Partition, PagesOf
<1>. QED BY <1>1, <1>3, <1>4 DEF BlocksPartition, AreLists, Usable

\* Splitting and merging neither lose memory nor give it out twice.
THEOREM MemoryPartitioned == DynSpec => []BlocksPartition
BY PagesKept, Partitioned, PTL

-----------------------------------------------------------------------------
(* Where the frame array goes.                                             *)

\* _allocate_frame_array at addr, when F tells what it returns further up.
FurtherUp(regions, F, addr) ==
  LET hit == Overlapping(regions, addr)
      first == CHOOSE i \in hit : \A j \in hit : i <= j
  IN  IF addr + FrameArraySize > End THEN -1
      ELSE IF hit = {} THEN addr
      ELSE IF regions[first].addr + regions[first].size > End THEN -1
      ELSE F[regions[first].addr + regions[first].size]

AreRegions(regions) ==
  /\ DOMAIN regions \subseteq Nat
  /\ \A i \in DOMAIN regions : regions[i].addr \in Int /\ regions[i].size \in Nat

\* It goes up by less than End bytes in each turn, to an address within End.
LEMMA GoesUp ==
  ASSUME NEW regions, AreRegions(regions), NEW addr \in 0..End, NEW F, NEW G,
         \A a \in 0..End : a > addr => F[a] = G[a]
  PROVE  /\ FurtherUp(regions, F, addr) = FurtherUp(regions, G, addr)
         /\ \/ FurtherUp(regions, F, addr) = -1
            \/ FurtherUp(regions, F, addr) = addr /\ Overlapping(regions, addr) = {}
                 /\ addr + FrameArraySize <= End
            \/ \E a \in 0..End : a > addr /\ FurtherUp(regions, F, addr) = F[a]
<1>. DEFINE hit == Overlapping(regions, addr)
            first == CHOOSE i \in hit : \A j \in hit : i <= j
            next == regions[first].addr + regions[first].size
<1>1. End \in Nat /\ FrameArraySize \in Nat
  <2>1. PageCount \in Nat /\ PageSize \in Nat /\ FrameArraySize \in Nat
    BY PageAssumption
  <2>. QED BY <2>1 DEF End
<1>2. ASSUME hit # {} PROVE first \in hit
  <2>1. hit \in SUBSET Nat
    BY DEF AreRegions, Overlapping
  <2>. HIDE DEF hit
  <2>. QED BY <1>2, <2>1, LeastElement
<1>3. ASSUME hit # {} PROVE next > addr /\ next \in Int
  <2>1. first \in DOMAIN regions /\ addr < next
    BY <1>2, <1>3 DEF Overlapping
  <2>2. next \in Int
    BY <2>1 DEF AreRegions
  <2>. HIDE DEF next, first
  <2>. QED BY <2>1, <2>2
<1>4. /\ FurtherUp(regions, F, addr) =
           IF addr + FrameArraySize > End THEN -1
           ELSE IF hit = {} THEN addr
           ELSE IF next > End THEN -1 ELSE F[next]
      /\ FurtherUp(regions, G, addr) =
           IF addr + FrameArraySize > End THEN -1
           ELSE IF hit = {} THEN addr
           ELSE IF next > End THEN -1 ELSE G[next]
  BY DEF FurtherUp
<1>5. Overlapping(regions, addr) = hit
  OBVIOUS
<1>. HIDE DEF next, first, hit
<1>6. CASE hit = {}
  BY <1>1, <1>4, <1>5, <1>6
<1>7. CASE hit # {} /\ next > End
  BY <1>1, <1>4, <1>5, <1>7
<1>8. CASE hit # {} /\ ~(next > End)
  <2>1. next \in 0..End /\ next > addr
    BY <1>1, <1>3, <1>8
  <2>. QED BY <1>1, <1>4, <1>8, <2>1
<1>. QED BY <1>6, <1>7, <1>8

\* F tells what _allocate_frame_array returns from the address low on.
TellsFrom(regions, F, low) == F = [addr \in low..End |-> FurtherUp(regions, F, addr)]

LEMMA TellsExists ==
  ASSUME NEW regions, AreRegions(regions)
  PROVE  \E F : TellsFrom(regions, F, 0)
<1>. DEFINE Bad == {k \in Nat : k <= End /\ ~ \E F : TellsFrom(regions, F, End - k)}
<1>1. End \in Nat
  <2>1. PageCount \in Nat /\ PageSize \in Nat
    BY PageAssumption
  <2>. QED BY <2>1 DEF End
<1>2. ASSUME Bad # {} PROVE FALSE
  <2>1. PICK k \in Bad : \A i \in Bad : k <= i
    <3>1. Bad \in SUBSET Nat
      OBVIOUS
    <3>. HIDE DEF Bad
    <3>. QED BY <1>2, <3>1, LeastElement
  <2>. DEFINE low == End - k
  <2>2. low \in 0..End /\ k \in Nat /\ low + 1 \in Nat
    BY <1>1, <2>1
  <2>3. ASSUME NEW G, \A a \in (low + 1)..End : G[a] = FurtherUp(regions, G, a)
        PROVE  FALSE
    <3>. DEFINE F == [a \in low..End |-> IF a = low THEN FurtherUp(regions, G, low) ELSE G[a]]
    <3>1. \A a \in 0..End : a > low => F[a] = G[a]
      BY <1>1, <2>2
    <3>2. F[low] = FurtherUp(regions, G, low)
      BY <1>1, <2>2
    <3>3. F = [a \in low..End |-> F[a]]
      OBVIOUS
    <3>. HIDE DEF F, low
    <3>4. ASSUME NEW a \in low..End PROVE F[a] = FurtherUp(regions, F, a)
      <4>1. FurtherUp(regions, F, a) = FurtherUp(regions, G, a)
        <5>1. a \in 0..End /\ \A b \in 0..End : b > a => F[b] = G[b]
          BY <1>1, <2>2, <3>1
        <5>. QED BY <5>1, GoesUp
      <4>2. CASE a = low
        BY <3>2, <4>1, <4>2
      <4>3. CASE a # low
        <5>1. a \in (low + 1)..End /\ a \in 0..End /\ a > low
          BY <1>1, <2>2, <4>3
        <5>. QED BY <2>3, <3>1, <4>1, <5>1
      <4>. QED BY <4>2, <4>3
    <3>5. F = [a \in low..End |-> FurtherUp(regions, F, a)]
      BY <3>3, <3>4
    <3>6. TellsFrom(regions, F, low)
      BY <3>5 DEF TellsFrom
    <3>. QED BY <2>1, <3>6 DEF low
  <2>4. CASE k = 0
    <3>1. \A a \in (low + 1)..End : FALSE
      BY <1>1, <2>4
    <3>. QED BY <2>3, <3>1
  <2>5. CASE k # 0
    <3>1. k - 1 \in Nat /\ k - 1 <= End /\ End - (k - 1) = low + 1 /\ k - 1 \notin Bad
      BY <1>1, <2>1, <2>5
    <3>2. PICK G : TellsFrom(regions, G, low + 1)
      BY <3>1
    <3>3. G = [a \in (low + 1)..End |-> FurtherUp(regions, G, a)]
      BY <3>2 DEF TellsFrom
    <3>4. \A a \in (low + 1)..End : G[a] = FurtherUp(regions, G, a)
      BY <3>3
    <3>. QED BY <2>3, <3>4
  <2>. QED BY <2>4, <2>5
<1>3. End \in Nat /\ End <= End /\ End - End = 0
  BY <1>1
<1>. QED BY <1>2, <1>3

\* A place for the frame array that overlaps no region.
IsPlace(regions, addr) ==
  addr \in 0..End /\ addr + FrameArraySize <= End /\ Overlapping(regions, addr) = {}

\* _allocate_frame_array finds such a place or none.
LEMMA FramePlaced ==
  ASSUME NEW regions, AreRegions(regions), _allocate_frame_array(regions) # -1
  PROVE  IsPlace(regions, _allocate_frame_array(regions))
<1>. DEFINE F == CHOOSE H : TellsFrom(regions, H, 0)
            Bad == {k \in Nat : k <= End /\ F[End - k] # -1 /\ ~ IsPlace(regions, F[End - k])}
<1>1. End \in Nat
  <2>1. PageCount \in Nat /\ PageSize \in Nat
    BY PageAssumption
  <2>. QED BY <2>1 DEF End
<1>2. _allocate_frame_array(regions) = F[0]
  BY DEF _allocate_frame_array, TellsFrom, FurtherUp
<1>3. TellsFrom(regions, F, 0)
  BY TellsExists
<1>. HIDE DEF F
<1>4. \A a \in 0..End : F[a] = FurtherUp(regions, F, a)
  BY <1>3 DEF TellsFrom
<1>5. ASSUME Bad # {} PROVE FALSE
  <2>1. PICK k \in Bad : \A i \in Bad : k <= i
    <3>1. Bad \in SUBSET Nat
      OBVIOUS
    <3>. HIDE DEF Bad
    <3>. QED BY <1>5, <3>1, LeastElement
  <2>. DEFINE a == End - k
  <2>2. a \in 0..End /\ F[a] # -1 /\ ~ IsPlace(regions, F[a]) /\ k = End - a
    BY <1>1, <2>1
  <2>3. \A b \in 0..End : b > a => F[b] = -1 \/ IsPlace(regions, F[b])
    <3>. SUFFICES ASSUME NEW b \in 0..End, b > a PROVE F[b] = -1 \/ IsPlace(regions, F[b])
      OBVIOUS
    <3>1. End - b \in Nat /\ End - b <= End /\ End - (End - b) = b /\ ~(k <= End - b)
      BY <1>1, <2>2
    <3>2. End - b \notin Bad
      BY <2>1, <3>1
    <3>. QED BY <3>1, <3>2
  <2>. HIDE DEF a
  <2>4. F[a] = FurtherUp(regions, F, a)
    BY <1>4, <2>2
  <2>5. \/ FurtherUp(regions, F, a) = -1
        \/ FurtherUp(regions, F, a) = a /\ Overlapping(regions, a) = {}
             /\ a + FrameArraySize <= End
        \/ \E b \in 0..End : b > a /\ FurtherUp(regions, F, a) = F[b]
    BY <2>2, GoesUp
  <2>. QED BY <2>2, <2>3, <2>4, <2>5 DEF IsPlace
<1>6. End \in Nat /\ End <= End /\ End - End = 0
  BY <1>1
<1>. QED BY <1>2, <1>5, <1>6

-----------------------------------------------------------------------------
(* Merging is complete.                                                    *)

\* Two buddies whose order is not below IntOrders are the whole memory.
LEMMA BuddiesFill ==
  ASSUME NEW Y, NEW V, Partition(Y, V), V \subseteq Pages,
         NEW o \in Nat, NEW b, AtMultiple(b, o), ~(o < IntOrders),
         <<o, b>> \in Y, <<o, BuddyOf(b, o)>> \in Y
  PROVE  V = Pages
<1>. DEFINE l == LowerOf(b, o)
            p == Pow2[o]
            u == Pow2[IntOrders]
<1>1. /\ AtMultiple(l, o + 1)
      /\ BlockPages(l, o + 1) = BlockPages(b, o) \cup BlockPages(BuddyOf(b, o), o)
  BY Buddies
<1>2. BlockPages(b, o) \subseteq V /\ BlockPages(BuddyOf(b, o), o) \subseteq V
  BY InPartition DEF PagesOf
<1>3. /\ p \in Nat \ {0} /\ u \in Nat \ {0} /\ Pow2[o + 1] = 2 * p
      /\ IntOrders \in Nat /\ PageCount \in Nat \ {0}
  BY PageAssumption, PowerOfTwo
<1>4. p >= u
  <2>1. o - IntOrders \in Nat /\ IntOrders + (o - IntOrders) = o
    BY <1>3
  <2>2. PICK c \in Nat \ {0} : Pow2[IntOrders + (o - IntOrders)] = c * Pow2[IntOrders]
    BY <1>3, <2>1, LargerSize
  <2>3. p = c * u
    BY <2>1, <2>2
  <2>. HIDE DEF p, u
  <2>4. 1 * u <= c * u
    BY <1>3, Multiply
  <2>. QED BY <1>3, <2>3, <2>4
<1>5. PageCount <= 2 * u
  BY MemoryAssumption DEF OffsetPages
<1>6. l \in Nat
  BY <1>1, Coarser
<1>. HIDE DEF l, p, u
<1>7. l..(l + 2 * p - 1) \subseteq V
  <2>1. BlockPages(l, o + 1) = l..(l + 2 * p - 1)
    BY <1>3 DEF BlockPages
  <2>. QED BY <1>1, <1>2, <2>1 DEF l
<1>8. l + 2 * p - 1 \in Pages
  BY <1>3, <1>6, <1>7
<1>9. l = 0 /\ PageCount = 2 * p
  BY <1>3, <1>4, <1>5, <1>6, <1>8 DEF Pages
<1>10. Pages = l..(l + 2 * p - 1)
  BY <1>9 DEF Pages
<1>. QED BY <1>7, <1>10

\* Some page is not to be given out: that of the frame array is one.
SomeReserved == \E p \in Pages : frame_array[p].flags = "reserved"

\* A page that looks like the free buddy of a block is one, whatever stale
\* metadata merging has left behind, and free buddies never stay apart: those
\* of order IntOrders, which do not find each other, would be all there is.
LEMMA Merging ==
  ASSUME PageInv, populated = 0 \/ SomeReserved
  PROVE  BuddiesMerged
<1>. DEFINE F == FreeBlocks(orders_lists)
            Y == F \cup Held(held)
<1>. SUFFICES ASSUME NEW x \in Blocks, x[1] < MaxOrders - 1
              PROVE  /\ HasFreeBuddy(x[2], x[1]) =>
                          BuddyOf(x[2], x[1]) \in Range(orders_lists[x[1]])
                     /\ BuddyOf(x[2], x[1]) \in Range(orders_lists[x[1]]) =>
                          x[2] \in DOMAIN held
  BY DEF BuddiesMerged
<1>. DEFINE o == x[1]
            b == x[2]
            q == BuddyOf(b, o)
            V == Usable \ PagesOf(x)
<1>1. /\ AreLists(orders_lists)
      /\ Partition(Y, Usable)
      /\ \A y \in F : frame_array[y[2]] = [order |-> y[1], flags |-> "free"]
      /\ \A y \in Held(held) : frame_array[y[2]] = [order |-> y[1], flags |-> "allocated"]
      /\ FlagsWithin(frame_array, Usable)
  BY DEF PageInv, Consistent
<1>1a. \A y \in F : y[1] < MaxOrders - 1 /\ y[1] < IntOrders => <<y[1], BuddyOf(y[2], y[1])>> \notin F
  BY DEF PageInv, Consistent
<1>2. Blocks = Y
  BY DEF Blocks, FreeBlocks, Held
<1>3. IsBlock(x) /\ o \in Orders /\ o \in Nat /\ b \in Pages /\ x = <<o, b>> /\ AtMultiple(b, o)
      /\ PagesOf(x) = BlockPages(b, o)
  <2>1. IsBlock(x)
    BY <1>1, <1>2 DEF Partition
  <2>. QED BY <2>1, FirstPage DEF IsBlock, PagesOf
<1>4. ASSUME HasFreeBuddy(b, o) PROVE q \in Range(orders_lists[o])
  <2>1. q \in Pages /\ frame_array[q].flags = "free" /\ frame_array[q].order = o
    BY <1>4 DEF HasFreeBuddy
  <2>2. q \in V
    <3>1. q \in Usable
      BY <1>1, <2>1 DEF FlagsWithin
    <3>2. q \in BlockPages(q, o) /\ BlockPages(b, o) \cap BlockPages(q, o) = {}
      <4>1. BlockPages(b, o) \cap BlockPages(q, o) = {} /\ q \in Nat
        BY <1>3, Buddies
      <4>2. Pow2[o] \in Nat \ {0}
        BY <1>3, PowerOfTwo
      <4>. HIDE DEF q, o
      <4>. QED BY <4>1, <4>2 DEF BlockPages
    <3>. HIDE DEF q, o, b
    <3>. QED BY <1>3, <3>1, <3>2
  <2>3. Partition(Y \ {x}, V) /\ BlockPages(b, o) \cap V = {}
    <3>. HIDE DEF Y, o, b
    <3>. QED BY <1>1, <1>2, <1>3, TakenOut
  <2>4. PICK y \in Y \ {x} : y[2] = q /\ y[1] <= o
    <3>1. IsBlock(<<o, b>>)
      BY <1>3
    <3>. HIDE DEF Y, V, o, b
    <3>. QED BY <1>3, <2>2, <2>3, <3>1, BuddyFound DEF q
  <2>. HIDE DEF q, o, b
  <2>5. y \in F
    <3>. SUFFICES ASSUME y \in Held(held) PROVE FALSE
      BY <2>4
    <3>1. frame_array[q] = [order |-> y[1], flags |-> "allocated"]
      BY <1>1, <2>4
    <3>. QED BY <2>1, <3>1
  <2>6. frame_array[q] = [order |-> y[1], flags |-> "free"]
    BY <1>1, <2>4, <2>5
  <2>7. y[1] = o
    BY <2>1, <2>6
  <2>. QED BY <2>4, <2>5, <2>7 DEF FreeBlocks
<1>5. ASSUME q \in Range(orders_lists[o]) PROVE b \in DOMAIN held
  <2>1. q \in Pages
    <3>1. orders_lists[o] \in Seq(Pages)
      BY <1>1, <1>3 DEF AreLists
    <3>. QED BY <1>5, <3>1, HeadInRange
  <2>2. <<o, q>> \in F
    <3>. HIDE DEF q, o, b
    <3>. QED BY <1>3, <1>5, <2>1 DEF FreeBlocks
  <2>3. x \notin F
    <3>1. CASE o < IntOrders
      <4>. HIDE DEF F
      <4>. QED BY <1>1a, <2>2, <3>1
    <3>2. CASE ~(o < IntOrders)
      <4>1. <<o, q>> \in Y /\ <<o, b>> \in Y
        <5>. HIDE DEF F, o, b, q
        <5>. QED BY <1>2, <1>3, <2>2
      <4>2. Usable = Pages
        <5>1. Usable \subseteq Pages
          BY UsablePages
        <5>. HIDE DEF Y, o, b
        <5>. QED BY <1>1, <1>3, <3>2, <4>1, <5>1, BuddiesFill DEF q
      <4>3. populated # 0
        BY <1>3, <4>2, UsablePages
      <4>. QED BY <4>2, <4>3 DEF SomeReserved, Usable
    <3>. QED BY <3>1, <3>2
  <2>4. x \in Held(held)
    BY <1>2, <2>3
  <2>. QED BY <2>4 DEF Held
<1>. QED BY <1>4, <1>5

\* The frame array takes a page.
LEMMA FrameArrayReserved ==
  ASSUME NEW regions, AreRegions(regions), _allocate_frame_array(regions) # -1
  PROVE  \E p \in Pages : p \in ReservedPages(regions, _allocate_frame_array(regions))
<1>. DEFINE f == _allocate_frame_array(regions)
            n == (FrameArraySize + PageSize - 1) \div PageSize
            p == f \div PageSize
<1>1. f \in Nat /\ f + FrameArraySize <= End
  BY FramePlaced DEF IsPlace
<1>. HIDE DEF f
<1>2. /\ PageCount \in Nat /\ PageSize \in Nat \ {0} /\ FrameArraySize \in Nat \ {0}
      /\ End = PageCount * PageSize
  BY PageAssumption DEF End
<1>3. n \in Nat \ {0}
  <2>1. FrameArraySize + PageSize - 1 \in Nat /\ FrameArraySize + PageSize - 1 >= PageSize
    BY <1>2
  <2>. QED BY <1>2, <2>1
<1>. HIDE DEF n
<1>4. p \in Nat /\ p * PageSize <= f
  BY <1>1, <1>2
<1>. HIDE DEF p
<1>5. p \in Pages
  <2>1. p * PageSize < PageCount * PageSize
    <3>1. p * PageSize \in Nat /\ PageCount * PageSize \in Nat
      BY <1>2, <1>4
    <3>. QED BY <1>1, <1>2, <1>4, <3>1
  <2>2. p < PageCount
    BY <1>2, <1>4, <2>1, Multiply
  <2>. QED BY <1>2, <1>4, <2>2 DEF Pages
<1>6. p \in p..(p + n - 1)
  BY <1>3, <1>4
<1>7. p \in _memory_reserve_pages(f, FrameArraySize)
  BY <1>6 DEF _memory_reserve_pages, p, n
<1>. QED BY <1>5, <1>7 DEF ReservedPages, f

\* Memory given back is merged as far as it can be, in a memory of up to
\* OffsetPages, with orders for more than an int can count or without.
THEOREM MergingComplete == DynSpec => []BuddiesMerged
<1>1. DynInit => SomeReserved
  <2>. SUFFICES ASSUME DynInit PROVE SomeReserved
    OBVIOUS
  <2>1. /\ reserved_memory \in Reservations
        /\ _allocate_frame_array(reserved_memory) # -1
        /\ frame_array = FrameArray(reserved_memory)
    BY DEF DynInit, Init
  <2>2. AreRegions(reserved_memory)
    <3>1. reserved_memory \in Seq([addr : Int, size : Nat])
      BY <2>1, ReservationAssumption
    <3>2. /\ Len(reserved_memory) \in Nat
          /\ DOMAIN reserved_memory = 1..Len(reserved_memory)
          /\ reserved_memory \in [1..Len(reserved_memory) -> [addr : Int, size : Nat]]
      BY <3>1, LenProperties
    <3>3. DOMAIN reserved_memory \subseteq Nat
      BY <3>2
    <3>4. ASSUME NEW i \in DOMAIN reserved_memory
          PROVE  reserved_memory[i].addr \in Int /\ reserved_memory[i].size \in Nat
      BY <3>2, <3>4
    <3>. QED BY <3>3, <3>4 DEF AreRegions
  <2>3. PICK p \in Pages :
          p \in ReservedPages(reserved_memory, _allocate_frame_array(reserved_memory))
    BY <2>1, <2>2, FrameArrayReserved
  <2>. QED BY <2>1, <2>3 DEF SomeReserved, FrameArray
<1>2. PageInv /\ SomeReserved /\ [DynNext]_allvars => SomeReserved'
  <2>. SUFFICES ASSUME PageInv, SomeReserved, [DynNext]_allvars PROVE SomeReserved'
    OBVIOUS
  <2>1. ReservedStay
    BY StepsOfPages, PageStepKeeps
  <2>. QED BY <2>1 DEF ReservedStay, SomeReserved
<1>3. PageInv /\ SomeReserved => BuddiesMerged
  BY Merging
<1>. QED BY <1>1, <1>2, <1>3, PagesKept, PTL DEF DynSpec

-----------------------------------------------------------------------------
(* Chunks and pieces.                                                      *)

\* The pieces that begin in a page, and the free chunks of a pool in it.
Inside(block) == {a \in DOMAIN pieces : PageOf(a) = block}
FreeIn(i, block) == {a \in Free(i) : PageOf(a) = block}

\* What BlocksAccounted says of one block.
Accounted(block) ==
  \/ /\ pool_index[block] = NoPool
     /\ Inside(block) = {block * PageSize}
  \/ /\ pool_index[block] \in Pools
     /\ held[block] = 0
     /\ Inside(block) \cap FreeIn(pool_index[block], block) = {}
     /\ Inside(block) \cup FreeIn(pool_index[block], block) = Chunks(block)

\* How long a piece at a can be.
Room(a) ==
  IF pool_index[PageOf(a)] = NoPool THEN PageSize * Pow2[held[PageOf(a)]]
  ELSE chunk_sizes[pool_index[PageOf(a)]]

AccountInv ==
  /\ pool_index \in [Pages -> Pools \cup {NoPool}]
  /\ pools \in [Pools -> Seq(0..(End - 1))]
  /\ \A i \in Pools : IsInjective(pools[i])
  /\ direct \subseteq DOMAIN held
  /\ \A i \in Pools : \A a \in Free(i) :
       PageOf(a) \in DOMAIN held \ direct /\ pool_index[PageOf(a)] = i
  /\ DOMAIN pieces \subseteq 0..(End - 1)
  /\ \A a \in DOMAIN pieces :
       /\ PageOf(a) \in DOMAIN held \ direct
       /\ pieces[a] \in Nat /\ pieces[a] <= Room(a)
  /\ \A block \in DOMAIN held \ direct : Accounted(block)

\* Pools are numbered from one.
LEMMA PoolNumbers ==
  /\ Pools \subseteq Nat \ {0} /\ NoPool \notin Pools
  /\ \A i \in Pools :
       /\ chunk_sizes[i] \in Nat \ {0}
       /\ PageSize \div chunk_sizes[i] \in Nat \ {0}
       /\ (PageSize \div chunk_sizes[i]) * chunk_sizes[i] = PageSize
<1>1. Len(chunk_sizes) \in Nat /\ Pools = 1..Len(chunk_sizes)
      /\ \A i \in Pools : chunk_sizes[i] \in Nat \ {0} /\ PageSize % chunk_sizes[i] = 0
  BY ChunkAssumption DEF Pools
<1>2. ASSUME NEW i \in Pools
      PROVE  /\ chunk_sizes[i] \in Nat \ {0}
             /\ PageSize \div chunk_sizes[i] \in Nat \ {0}
             /\ (PageSize \div chunk_sizes[i]) * chunk_sizes[i] = PageSize
  <2>. DEFINE c == chunk_sizes[i]
              n == PageSize \div c
  <2>1. c \in Nat \ {0} /\ PageSize % c = 0 /\ PageSize \in Nat \ {0}
    BY <1>1, PageAssumption
  <2>. HIDE DEF c
  <2>2. n \in Nat /\ PageSize = c * n + (PageSize % c)
    BY <2>1
  <2>. HIDE DEF n
  <2>3. n * c = PageSize
    BY <2>1, <2>2
  <2>4. n # 0
    BY <2>1, <2>3
  <2>. QED BY <2>1, <2>2, <2>3, <2>4 DEF c, n
<1>. QED BY <1>1, <1>2 DEF NoPool

\* The page of an address.
LEMMA AddressInPage ==
  ASSUME NEW block \in Pages, NEW d \in 0..(PageSize - 1)
  PROVE  /\ PageOf(block * PageSize + d) = block
         /\ block * PageSize + d \in 0..(End - 1)
         /\ block * PageSize \in Nat
<1>1. PageSize \in Nat \ {0} /\ PageCount \in Nat /\ block \in Nat /\ block + 1 <= PageCount
  BY PageAssumption DEF Pages
<1>2. PageOf(block * PageSize + d) = block
  BY <1>1, Quotient DEF PageOf
<1>3. (block + 1) * PageSize <= PageCount * PageSize
  BY <1>1, Multiply
<1>4. (block + 1) * PageSize = block * PageSize + PageSize
      /\ block * PageSize \in Nat /\ PageCount * PageSize \in Nat
  BY <1>1
<1>5. block * PageSize + d \in 0..(PageCount * PageSize - 1)
  <2>. DEFINE x == block * PageSize
              y == PageCount * PageSize
              z == (block + 1) * PageSize
  <2>1. z = x + PageSize /\ x \in Nat /\ y \in Nat /\ z <= y
    BY <1>3, <1>4
  <2>. HIDE DEF x, y, z
  <2>2. x + d \in 0..(y - 1)
    BY <1>1, <2>1
  <2>. QED BY <2>2 DEF x, y
<1>. QED BY <1>2, <1>4, <1>5 DEF End

\* The chunks of a page begin in it, apart from each other.
LEMMA ChunksInPage ==
  ASSUME NEW block \in Pages, NEW i \in Pools
  PROVE  /\ \A k \in 0..(PageSize \div chunk_sizes[i] - 1) :
              /\ k * chunk_sizes[i] \in 0..(PageSize - 1)
              /\ k * chunk_sizes[i] + chunk_sizes[i] <= PageSize
         /\ \A k, l \in 0..(PageSize \div chunk_sizes[i] - 1) :
              k < l => k * chunk_sizes[i] + chunk_sizes[i] <= l * chunk_sizes[i]
<1>. DEFINE c == chunk_sizes[i]
            n == PageSize \div c
<1>1. c \in Nat \ {0} /\ n \in Nat \ {0} /\ n * c = PageSize /\ PageSize \in Nat
  BY PoolNumbers, PageAssumption
<1>. HIDE DEF c, n
<1>2. ASSUME NEW k \in 0..n, NEW l \in 0..n, k < l PROVE k * c + c <= l * c
  <2>1. k + 1 \in Int /\ l \in Int /\ k + 1 <= l
    BY <1>1, <1>2
  <2>2. (k + 1) * c <= l * c
    BY <1>1, <2>1, Multiply
  <2>. QED BY <1>1, <2>2
<1>3. ASSUME NEW k \in 0..(n - 1) PROVE k * c \in 0..(PageSize - 1) /\ k * c + c <= PageSize
  <2>1. k \in 0..n /\ n \in 0..n /\ k < n
    BY <1>1
  <2>2. k * c + c <= n * c
    BY <1>2, <2>1
  <2>3. k * c \in Nat
    BY <1>1
  <2>. DEFINE x == k * c
  <2>4. x + c <= PageSize /\ x \in Nat
    BY <1>1, <2>2, <2>3
  <2>. HIDE DEF x
  <2>5. x \in 0..(PageSize - 1)
    BY <1>1, <2>4
  <2>. QED BY <2>4, <2>5 DEF x
<1>4. \A k \in 0..(n - 1) : k \in 0..n
  BY <1>1
<1>. QED BY <1>2, <1>3, <1>4 DEF c, n

\* A block of which nothing changes stays accounted for.
LEMMA Untouched ==
  ASSUME NEW block, Accounted(block),
         pool_index'[block] = pool_index[block],
         held'[block] = held[block],
         Inside(block)' = Inside(block),
         FreeIn(pool_index[block], block)' = FreeIn(pool_index[block], block)
  PROVE  Accounted(block)'
BY DEF Accounted, Chunks

\* NewBlock is the block that memory_allocate_pages gives out.
LEMMA NewBlockIs ==
  ASSUME PageInv, NEW size \in Nat, memory_allocate_pages(size)
  PROVE  /\ NewBlock \in Pages /\ NewBlock \notin DOMAIN held
         /\ DOMAIN held' = DOMAIN held \cup {NewBlock}
         /\ held'[NewBlock] = required_order(size)
         /\ \A b \in DOMAIN held : held'[b] = held[b]
<1>1. PICK block \in Pages :
        /\ block \notin DOMAIN held
        /\ held' = [b \in DOMAIN held \cup {block} |->
                      IF b = block THEN required_order(size) ELSE held[b]]
  BY PagesAllocated
<1>2. DOMAIN held' = DOMAIN held \cup {block}
  BY <1>1
<1>3. NewBlock = block
  BY <1>1, <1>2 DEF NewBlock
<1>. QED BY <1>1, <1>2, <1>3

\* What Give does: a caller gets a piece.
LEMMA Given ==
  ASSUME NEW addr, NEW size, Give(addr, size)
  PROVE  /\ DOMAIN pieces' = DOMAIN pieces \cup {addr}
         /\ pieces'[addr] = size
         /\ \A a \in DOMAIN pieces : a # addr => pieces'[a] = pieces[a]
         /\ direct' = direct
BY DEF Give

\* A new block is a piece of its own.
LEMMA AccountBlock ==
  ASSUME PageInv, AccountInv, NEW size \in Nat, AllocateBlock(size)
  PROVE  AccountInv'
<1>1. /\ memory_allocate_pages(size)
      /\ Give(NewBlock * PageSize, size)
      /\ pool_index' = [pool_index EXCEPT ![NewBlock] = NoPool]
      /\ pools' = pools
  BY DEF AllocateBlock
<1>2. PICK new \in Pages :
        /\ new = NewBlock /\ new \notin DOMAIN held
        /\ DOMAIN held' = DOMAIN held \cup {new}
        /\ held'[new] = required_order(size)
        /\ \A b \in DOMAIN held : held'[b] = held[b]
  BY <1>1, NewBlockIs
<1>. DEFINE addr == new * PageSize
<1>3. addr \in 0..(End - 1) /\ PageOf(addr) = new
  <2>1. 0 \in 0..(PageSize - 1)
    BY PageAssumption
  <2>2. PageOf(addr + 0) = new /\ addr + 0 \in 0..(End - 1) /\ addr \in Nat
    BY <2>1, AddressInPage
  <2>. HIDE DEF addr
  <2>3. addr + 0 = addr
    BY <2>2
  <2>. QED BY <2>2, <2>3
<1>4. /\ DOMAIN pieces' = DOMAIN pieces \cup {addr}
      /\ pieces'[addr] = size
      /\ \A a \in DOMAIN pieces : a # addr => pieces'[a] = pieces[a]
      /\ direct' = direct
  BY <1>1, <1>2, Given
<1>5. \A i \in Pools : Free(i)' = Free(i)
  BY <1>1 DEF Free
<1>6. /\ pool_index' \in [Pages -> Pools \cup {NoPool}]
      /\ pool_index'[new] = NoPool
      /\ \A b \in DOMAIN held : pool_index'[b] = pool_index[b]
      /\ DOMAIN held \subseteq Pages
  BY <1>1, <1>2 DEF AccountInv, PageInv
<1>. HIDE DEF addr
<1>7. ASSUME NEW a \in DOMAIN pieces
      PROVE  /\ PageOf(a) \in DOMAIN held \ direct /\ PageOf(a) # new /\ a # addr
             /\ pieces'[a] = pieces[a] /\ Room(a)' = Room(a)
  <2>1. PageOf(a) \in DOMAIN held \ direct /\ PageOf(a) # new /\ a # addr
    BY <1>2, <1>3 DEF AccountInv
  <2>. QED BY <1>2, <1>4, <1>6, <2>1 DEF Room, PageOf
<1>8. ASSUME NEW a \in DOMAIN pieces'
      PROVE  /\ PageOf(a) \in DOMAIN held' \ direct'
             /\ pieces'[a] \in Nat /\ pieces'[a] <= Room(a)'
  <2>1. CASE a = addr
    <3>1. Room(a)' = PageSize * Pow2[required_order(size)]
      BY <1>2, <1>3, <1>6, <2>1 DEF Room, PageOf
    <3>2. new \notin direct
      BY <1>2 DEF AccountInv
    <3>. QED BY <1>2, <1>3, <1>4, <2>1, <3>1, <3>2, RequiredOrder
  <2>2. CASE a # addr
    <3>1. a \in DOMAIN pieces
      BY <1>4, <2>2
    <3>. QED BY <1>2, <1>4, <1>7, <3>1 DEF AccountInv
  <2>. QED BY <2>1, <2>2
<1>9. ASSUME NEW block \in DOMAIN held' \ direct' PROVE Accounted(block)'
  <2>1. CASE block = new
    <3>1. Inside(block)' = {addr}
      BY <1>3, <1>4, <1>7, <2>1 DEF Inside
    <3>. QED BY <1>6, <2>1, <3>1 DEF Accounted, addr
  <2>2. CASE block # new
    <3>1. block \in DOMAIN held \ direct /\ block \in Pages
      BY <1>2, <1>4, <1>6, <2>2
    <3>2. Inside(block)' = Inside(block)
      BY <1>3, <1>4, <2>2 DEF Inside
    <3>3. pool_index'[block] = pool_index[block] /\ held'[block] = held[block]
      BY <1>2, <1>6, <3>1
    <3>4. FreeIn(pool_index[block], block)' = FreeIn(pool_index[block], block)
      BY <1>1, <3>3 DEF FreeIn, Free
    <3>. QED BY <3>1, <3>2, <3>3, <3>4, Untouched DEF AccountInv
  <2>. QED BY <2>1, <2>2
<1>10. ASSUME NEW i \in Pools, NEW a \in Free(i)'
       PROVE  PageOf(a) \in DOMAIN held' \ direct' /\ pool_index'[PageOf(a)] = i
  <2>1. a \in Free(i)
    BY <1>5
  <2>. QED BY <1>2, <1>4, <1>6, <2>1 DEF AccountInv
<1>11. direct' \subseteq DOMAIN held' /\ DOMAIN pieces' \subseteq 0..(End - 1)
  BY <1>2, <1>3, <1>4 DEF AccountInv
<1>. QED BY <1>1, <1>6, <1>8, <1>9, <1>10, <1>11 DEF AccountInv

\* A request for a chunk gets a pool whose chunks are large enough.
LEMMA PoolFits ==
  ASSUME NEW size, _get_pool_index(size) # NoPool
  PROVE  /\ _get_pool_index(size) \in Pools
         /\ chunk_sizes[_get_pool_index(size)] >= size
<1>. DEFINE fitting == {i \in Pools : chunk_sizes[i] >= size}
<1>1. fitting # {} /\ _get_pool_index(size) = CHOOSE i \in fitting : \A j \in fitting : i <= j
  BY DEF _get_pool_index
<1>2. fitting \in SUBSET Nat
  BY PoolNumbers
<1>3. _get_pool_index(size) \in fitting
  <2>. HIDE DEF fitting
  <2>1. \E i \in fitting : \A j \in fitting : i <= j
    BY <1>1, <1>2, LeastElement
  <2>. QED BY <1>1, <2>1
<1>. QED BY <1>3

\* An empty pool gets the chunks of a new page, and the caller the first.
LEMMA AccountFill ==
  ASSUME PageInv, AccountInv, NEW i \in Pools, NEW size \in Nat, size <= chunk_sizes[i],
         pools[i] = << >>, FillPool(i), Give(NewBlock * PageSize, size)
  PROVE  AccountInv'
<1>. DEFINE c == chunk_sizes[i]
            n == PageSize \div c
            chunk(k) == NewBlock * PageSize + k * c
<1>1. /\ memory_allocate_pages(PageSize) /\ PageSize \in Nat
      /\ pool_index' = [pool_index EXCEPT ![NewBlock] = i]
      /\ pools' = [pools EXCEPT ![i] = [k \in 1..(n - 1) |-> NewBlock * PageSize + k * c]]
  BY PageAssumption DEF FillPool
<1>2. PICK new \in Pages :
        /\ new = NewBlock /\ new \notin DOMAIN held
        /\ DOMAIN held' = DOMAIN held \cup {new}
        /\ held'[new] = 0
        /\ \A b \in DOMAIN held : held'[b] = held[b]
  BY <1>1, NewBlockIs, RequiredOrder
<1>. DEFINE addr == new * PageSize
            list == [k \in 1..(n - 1) |-> addr + k * c]
<1>3. c \in Nat \ {0} /\ n \in Nat \ {0} /\ i # NoPool
  BY PoolNumbers
<1>4. ASSUME NEW k \in 0..(n - 1)
      PROVE  /\ k * c \in Nat /\ addr \in Nat
             /\ PageOf(addr + k * c) = new /\ addr + k * c \in 0..(End - 1)
  <2>1. k * c \in 0..(PageSize - 1)
    BY ChunksInPage
  <2>2. k * c \in Nat
    BY <1>3
  <2>. DEFINE d == k * c
  <2>. HIDE DEF d
  <2>3. PageOf(new * PageSize + d) = new /\ new * PageSize + d \in 0..(End - 1)
        /\ new * PageSize \in Nat
    BY <2>1, AddressInPage DEF d
  <2>. QED BY <2>2, <2>3 DEF d
<1>5. addr \in 0..(End - 1) /\ PageOf(addr) = new /\ addr \in Nat /\ addr + 0 * c = addr
  <2>1. 0 \in 0..(n - 1)
    BY <1>3
  <2>2. PageOf(addr + 0 * c) = new /\ addr + 0 * c \in 0..(End - 1) /\ addr \in Nat
    BY <1>4, <2>1
  <2>. HIDE DEF addr, c
  <2>3. addr + 0 * c = addr
    BY <1>3, <2>2
  <2>. QED BY <2>2, <2>3
<1>6. /\ DOMAIN pieces' = DOMAIN pieces \cup {addr}
      /\ pieces'[addr] = size
      /\ \A a \in DOMAIN pieces : a # addr => pieces'[a] = pieces[a]
      /\ direct' = direct
  BY <1>2, Given
<1>7. pools' = [pools EXCEPT ![i] = list]
  BY <1>1, <1>2
<1>. HIDE DEF addr, c, n
<1>8. /\ list \in Seq(0..(End - 1)) /\ IsInjective(list)
      /\ Range(list) = {addr + k * c : k \in 1..(n - 1)}
  <2>1. n - 1 \in Nat /\ \A k \in 1..(n - 1) : k \in 0..(n - 1)
    BY <1>3
  <2>2. list \in [1..(n - 1) -> 0..(End - 1)]
    BY <1>4, <2>1
  <2>3. list \in Seq(0..(End - 1))
    <3>. DEFINE m == n - 1
                S == 0..(End - 1)
    <3>1. m \in Nat /\ list \in [1..m -> S]
      BY <2>1, <2>2
    <3>. HIDE DEF list, m, S
    <3>2. list \in Seq(S)
      BY <3>1, SeqDef
    <3>. QED BY <3>2 DEF S
  <2>4. ASSUME NEW k \in 1..(n - 1), NEW l \in 1..(n - 1), k # l PROVE addr + k * c # addr + l * c
    <3>1. k \in 0..(n - 1) /\ l \in 0..(n - 1) /\ k * c \in Nat /\ l * c \in Nat
      BY <1>4, <2>1
    <3>. DEFINE x == k * c
                y == l * c
    <3>2. (k < l => x + c <= y) /\ (l < k => y + c <= x)
      BY <3>1, ChunksInPage DEF c, n
    <3>3. (k < l \/ l < k) /\ x \in Nat /\ y \in Nat
      BY <2>4, <3>1
    <3>. HIDE DEF x, y
    <3>4. addr + x # addr + y
      BY <1>3, <1>5, <3>2, <3>3
    <3>. QED BY <3>4 DEF x, y
  <2>5. IsInjective(list)
    BY <2>4 DEF IsInjective
  <2>6. Range(list) = {addr + k * c : k \in 1..(n - 1)}
    BY DEF Range
  <2>. QED BY <2>3, <2>5, <2>6
<1>. HIDE DEF list
<1>9. /\ pools' \in [Pools -> Seq(0..(End - 1))]
      /\ pools'[i] = list
      /\ \A j \in Pools : j # i => pools'[j] = pools[j]
      /\ \A j \in Pools : IsInjective(pools'[j])
  BY <1>7, <1>8 DEF AccountInv
<1>10. /\ pool_index' \in [Pages -> Pools \cup {NoPool}]
       /\ pool_index'[new] = i
       /\ \A b \in DOMAIN held : pool_index'[b] = pool_index[b]
       /\ DOMAIN held \subseteq Pages
  BY <1>1, <1>2 DEF AccountInv, PageInv
<1>11. ASSUME NEW a \in DOMAIN pieces
       PROVE  /\ PageOf(a) \in DOMAIN held \ direct /\ PageOf(a) # new /\ a # addr
              /\ pieces'[a] = pieces[a] /\ Room(a)' = Room(a)
  <2>1. PageOf(a) \in DOMAIN held \ direct /\ PageOf(a) # new /\ a # addr
    BY <1>2, <1>5 DEF AccountInv
  <2>. QED BY <1>2, <1>6, <1>10, <2>1 DEF Room, PageOf
<1>12. ASSUME NEW a \in DOMAIN pieces'
       PROVE  /\ PageOf(a) \in DOMAIN held' \ direct'
              /\ pieces'[a] \in Nat /\ pieces'[a] <= Room(a)'
  <2>1. CASE a = addr
    <3>1. Room(a)' = c
      BY <1>3, <1>5, <1>10, <2>1 DEF Room, PageOf, c
    <3>2. new \notin direct
      BY <1>2 DEF AccountInv
    <3>. QED BY <1>2, <1>5, <1>6, <2>1, <3>1, <3>2 DEF c
  <2>2. CASE a # addr
    <3>1. a \in DOMAIN pieces
      BY <1>6, <2>2
    <3>. QED BY <1>2, <1>6, <1>11, <3>1 DEF AccountInv
  <2>. QED BY <2>1, <2>2
<1>13. Free(i)' = {addr + k * c : k \in 1..(n - 1)} /\ Free(i) = {}
  <2>1. Free(i)' = Range(list)
    BY <1>9 DEF Free
  <2>2. Range(<< >>) = {}
    BY DEF Range
  <2>. QED BY <1>8, <2>1, <2>2 DEF Free
<1>14. ASSUME NEW block \in DOMAIN held' \ direct' PROVE Accounted(block)'
  <2>1. CASE block = new
    <3>1. Inside(block)' = {addr}
      BY <1>5, <1>6, <1>11, <2>1 DEF Inside
    <3>2. FreeIn(pool_index[block], block)' = {addr + k * c : k \in 1..(n - 1)}
      <4>1. \A k \in 1..(n - 1) : PageOf(addr + k * c) = new
        BY <1>3, <1>4
      <4>2. pool_index'[block] = i
        BY <1>10, <2>1
      <4>. QED BY <1>13, <2>1, <4>1, <4>2 DEF FreeIn, Free, PageOf
    <3>3. Chunks(block)' = {addr + k * c : k \in 0..(n - 1)}
      BY <1>10, <2>1 DEF Chunks, addr, c, n
    <3>4. 0..(n - 1) = {0} \cup (1..(n - 1))
      BY <1>3
    <3>5. \A k \in 1..(n - 1) : addr + k * c # addr
      <4>. SUFFICES ASSUME NEW k \in 1..(n - 1) PROVE addr + k * c # addr
        OBVIOUS
      <4>1. k \in 0..(n - 1) /\ 0 \in 0..(n - 1) /\ 0 < k
        BY <1>3
      <4>2. 0 * c + c <= k * c
        BY <4>1, ChunksInPage DEF c, n
      <4>3. 0 * c = 0 /\ k * c \in Nat
        BY <1>3
      <4>. DEFINE x == k * c
      <4>4. c <= x /\ x \in Nat
        BY <1>3, <4>2, <4>3
      <4>. HIDE DEF x
      <4>5. addr + x # addr
        BY <1>3, <1>5, <4>4
      <4>. QED BY <4>5 DEF x
    <3>6. Inside(block)' \cap FreeIn(pool_index[block], block)' = {}
      BY <3>1, <3>2, <3>5
    <3>7. Inside(block)' \cup FreeIn(pool_index[block], block)' = Chunks(block)'
      BY <1>5, <3>1, <3>2, <3>3, <3>4
    <3>. QED BY <1>2, <1>10, <2>1, <3>6, <3>7 DEF Accounted
  <2>2. CASE block # new
    <3>1. block \in DOMAIN held \ direct /\ block \in Pages
      BY <1>2, <1>6, <1>10, <2>2
    <3>2. Inside(block)' = Inside(block)
      BY <1>5, <1>6, <2>2 DEF Inside
    <3>3. pool_index'[block] = pool_index[block] /\ held'[block] = held[block]
      BY <1>2, <1>10, <3>1
    <3>. DEFINE j == pool_index[block]
    <3>4. FreeIn(j, block)' = FreeIn(j, block) \/ j = NoPool
      <4>1. CASE j = i
        <5>1. FreeIn(j, block) = {}
          BY <1>13, <4>1 DEF FreeIn
        <5>2. FreeIn(j, block)' = {}
          <6>1. \A k \in 1..(n - 1) : PageOf(addr + k * c) = new
            BY <1>3, <1>4
          <6>. QED BY <1>13, <2>2, <3>3, <4>1, <6>1 DEF FreeIn, Free, PageOf
        <5>. QED BY <5>1, <5>2
      <4>2. CASE j # i /\ j \in Pools
        BY <1>9, <3>3, <4>2 DEF FreeIn, Free
      <4>. QED BY <3>1, <4>1, <4>2 DEF AccountInv
    <3>5. CASE j = NoPool
      <4>1. Accounted(block)
        BY <3>1 DEF AccountInv
      <4>2. Inside(block) = {block * PageSize}
        BY <3>5, <4>1, PoolNumbers DEF Accounted
      <4>. QED BY <3>2, <3>3, <3>5, <4>2 DEF Accounted
    <3>. QED BY <3>1, <3>2, <3>3, <3>4, <3>5, Untouched DEF AccountInv
  <2>. QED BY <2>1, <2>2
<1>15. ASSUME NEW j \in Pools, NEW a \in Free(j)'
       PROVE  PageOf(a) \in DOMAIN held' \ direct' /\ pool_index'[PageOf(a)] = j
  <2>1. CASE j = i
    <3>1. PICK k \in 1..(n - 1) : a = addr + k * c
      BY <1>13, <2>1
    <3>2. PageOf(a) = new
      BY <1>3, <1>4, <3>1
    <3>3. new \notin direct
      BY <1>2 DEF AccountInv
    <3>. QED BY <1>2, <1>6, <1>10, <2>1, <3>2, <3>3
  <2>2. CASE j # i
    <3>1. a \in Free(j)
      BY <1>9, <2>2 DEF Free
    <3>. QED BY <1>2, <1>6, <1>10, <3>1 DEF AccountInv
  <2>. QED BY <2>1, <2>2
<1>16. direct' \subseteq DOMAIN held' /\ DOMAIN pieces' \subseteq 0..(End - 1)
  BY <1>2, <1>5, <1>6 DEF AccountInv
<1>. QED BY <1>9, <1>10, <1>12, <1>14, <1>15, <1>16 DEF AccountInv

\* The first free chunk of a pool goes to the caller.
LEMMA AccountChunk ==
  ASSUME PageInv, AccountInv, NEW i \in Pools, NEW size \in Nat, size <= chunk_sizes[i],
         pools[i] # << >>, Give(Head(pools[i]), size),
         pools' = [pools EXCEPT ![i] = linked_list_remove(@, Head(@))],
         UNCHANGED <<vars, pool_index>>
  PROVE  AccountInv'
<1>1. PICK addr : addr = Head(pools[i])
  OBVIOUS
<1>2. pools[i] \in Seq(0..(End - 1)) /\ IsInjective(pools[i])
  BY DEF AccountInv
<1>3. addr \in Free(i) /\ addr \in 0..(End - 1)
  BY <1>1, <1>2, HeadInRange DEF Free
<1>4. /\ DOMAIN pieces' = DOMAIN pieces \cup {addr}
      /\ pieces'[addr] = size
      /\ \A a \in DOMAIN pieces : a # addr => pieces'[a] = pieces[a]
      /\ direct' = direct /\ held' = held /\ pool_index' = pool_index
  BY <1>1, Given DEF vars
<1>5. /\ pools' \in [Pools -> Seq(0..(End - 1))]
      /\ \A j \in Pools : IsInjective(pools'[j])
      /\ Free(i)' = Free(i) \ {addr}
      /\ \A j \in Pools : j # i => Free(j)' = Free(j)
  <2>. DEFINE list == linked_list_remove(pools[i], addr)
  <2>1. list \in Seq(0..(End - 1)) /\ Range(list) = Range(pools[i]) \ {addr} /\ IsInjective(list)
    BY <1>2, <1>3, RemoveProperties DEF Free
  <2>2. pools' = [pools EXCEPT ![i] = list]
    BY <1>1
  <2>. HIDE DEF list
  <2>. QED BY <2>1, <2>2 DEF AccountInv, Free
<1>6. PICK page : page = PageOf(addr)
  OBVIOUS
<1>7. /\ page \in DOMAIN held \ direct /\ pool_index[page] = i
      /\ Accounted(page)
  BY <1>3, <1>6 DEF AccountInv
<1>8. /\ i # NoPool /\ held[page] = 0
      /\ Inside(page) \cap FreeIn(i, page) = {}
      /\ Inside(page) \cup FreeIn(i, page) = Chunks(page)
  BY <1>7, PoolNumbers DEF Accounted
<1>9. addr \in FreeIn(i, page) /\ addr \notin DOMAIN pieces
  BY <1>3, <1>6, <1>8 DEF FreeIn, Inside
<1>10. \A a : Room(a)' = Room(a)
  BY <1>4 DEF Room, PageOf
<1>11. ASSUME NEW a \in DOMAIN pieces'
       PROVE  /\ PageOf(a) \in DOMAIN held' \ direct'
              /\ pieces'[a] \in Nat /\ pieces'[a] <= Room(a)'
  <2>1. CASE a = addr
    <3>1. Room(a) = chunk_sizes[i]
      BY <1>6, <1>7, <1>8, <2>1 DEF Room
    <3>. QED BY <1>4, <1>6, <1>7, <1>10, <2>1, <3>1
  <2>2. CASE a # addr
    BY <1>4, <1>10, <2>2 DEF AccountInv
  <2>. QED BY <2>1, <2>2
<1>12. ASSUME NEW block \in DOMAIN held' \ direct' PROVE Accounted(block)'
  <2>0. block \in DOMAIN held \ direct /\ Accounted(block)
    BY <1>4 DEF AccountInv
  <2>1. CASE block = page
    <3>1. Inside(page)' = Inside(page) \cup {addr}
      BY <1>4, <1>6 DEF Inside
    <3>2. FreeIn(i, page)' = FreeIn(i, page) \ {addr}
      BY <1>5 DEF FreeIn
    <3>3. Chunks(page)' = Chunks(page)
      BY <1>4 DEF Chunks
    <3>4. FreeIn(pool_index[page], page)' = FreeIn(i, page)'
      BY <1>4, <1>7 DEF FreeIn, Free
    <3>. QED BY <1>4, <1>7, <1>8, <1>9, <2>1, <3>1, <3>2, <3>3, <3>4 DEF Accounted
  <2>2. CASE block # page
    <3>1. Inside(block)' = Inside(block)
      BY <1>4, <1>6, <2>2 DEF Inside
    <3>. DEFINE j == pool_index[block]
    <3>2. CASE j \in Pools
      <4>1. FreeIn(j, block)' = FreeIn(j, block)
        <5>1. FreeIn(j, block)' = {a \in Range(pools'[j]) : PageOf(a) = block}
          BY <1>4 DEF FreeIn, Free, PageOf
        <5>2. Range(pools'[j]) \in {Free(j), Free(j) \ {addr}}
          <6>. HIDE DEF j
          <6>1. Free(j)' = Range(pools'[j]) \/ TRUE
            OBVIOUS
          <6>2. \A k \in Pools : Range(pools'[k]) \in {Free(k), Free(k) \ {addr}}
            BY <1>5 DEF Free
          <6>. QED BY <3>2, <6>2
        <5>3. FreeIn(j, block) = {a \in Free(j) : PageOf(a) = block}
          BY DEF FreeIn
        <5>. HIDE DEF j
        <5>. QED BY <1>6, <2>2, <5>1, <5>2, <5>3
      <4>. QED BY <1>4, <2>0, <3>1, <4>1, Untouched
    <3>3. CASE j = NoPool
      <4>1. Inside(block) = {block * PageSize}
        BY <2>0, <3>3, PoolNumbers DEF Accounted
      <4>. QED BY <1>4, <3>1, <3>3, <4>1 DEF Accounted
    <3>. QED BY <2>0, <3>2, <3>3 DEF Accounted
  <2>. QED BY <2>1, <2>2
<1>13. ASSUME NEW j \in Pools, NEW a \in Free(j)'
       PROVE  PageOf(a) \in DOMAIN held' \ direct' /\ pool_index'[PageOf(a)] = j
  <2>1. a \in Free(j)
    BY <1>5
  <2>. QED BY <1>4, <2>1 DEF AccountInv
<1>14. /\ pool_index' \in [Pages -> Pools \cup {NoPool}]
       /\ direct' \subseteq DOMAIN held' /\ DOMAIN pieces' \subseteq 0..(End - 1)
  BY <1>3, <1>4 DEF AccountInv
<1>. QED BY <1>5, <1>11, <1>12, <1>13, <1>14 DEF AccountInv

\* A caller gives a piece back.
LEMMA AccountFree ==
  ASSUME PageInv, AccountInv, NEW addr \in DOMAIN pieces, free(addr)
  PROVE  AccountInv'
<1>1. PICK page : page = PageOf(addr)
  OBVIOUS
<1>2. /\ DOMAIN pieces' = DOMAIN pieces \ {addr}
      /\ \A a \in DOMAIN pieces' : pieces'[a] = pieces[a]
      /\ direct' = direct /\ pool_index' = pool_index
  BY DEF free
<1>3. /\ page \in DOMAIN held \ direct /\ Accounted(page)
      /\ addr \in 0..(End - 1)
  BY <1>1 DEF AccountInv
<1>4. addr \in Inside(page)
  BY <1>1 DEF Inside
<1>5. CASE pool_index[page] = NoPool
  <2>1. /\ pools' = pools
        /\ held' = [b \in DOMAIN held \ {page} |-> held[b]]
    BY <1>1, <1>5 DEF free, Release
  <2>2. Inside(page) = {addr}
    BY <1>3, <1>4, <1>5, PoolNumbers DEF Accounted
  <2>3. \A a \in DOMAIN pieces' : PageOf(a) # page /\ a \in DOMAIN pieces
    BY <1>2, <2>2 DEF Inside
  <2>4. \A i \in Pools : Free(i)' = Free(i) /\ \A a \in Free(i) : PageOf(a) # page
    BY <1>5, <2>1, PoolNumbers DEF Free, AccountInv
  <2>5. ASSUME NEW a \in DOMAIN pieces'
        PROVE  /\ PageOf(a) \in DOMAIN held' \ direct'
               /\ pieces'[a] \in Nat /\ pieces'[a] <= Room(a)'
    <3>1. /\ PageOf(a) \in DOMAIN held \ direct /\ PageOf(a) # page
          /\ pieces[a] \in Nat /\ pieces[a] <= Room(a)
      BY <2>3 DEF AccountInv
    <3>2. Room(a)' = Room(a)
      BY <1>2, <2>1, <3>1 DEF Room, PageOf
    <3>. QED BY <1>2, <2>1, <3>1, <3>2
  <2>6. ASSUME NEW block \in DOMAIN held' \ direct' PROVE Accounted(block)'
    <3>1. /\ block \in DOMAIN held \ direct /\ block # page
          /\ Accounted(block) /\ held'[block] = held[block]
      BY <1>2, <2>1 DEF AccountInv
    <3>2. Inside(block)' = Inside(block)
      BY <1>1, <1>2, <3>1 DEF Inside
    <3>3. FreeIn(pool_index[block], block)' = FreeIn(pool_index[block], block)
      BY <1>2, <2>1 DEF FreeIn, Free
    <3>. QED BY <1>2, <3>1, <3>2, <3>3, Untouched
  <2>7. ASSUME NEW j \in Pools, NEW a \in Free(j)'
        PROVE  PageOf(a) \in DOMAIN held' \ direct' /\ pool_index'[PageOf(a)] = j
    <3>1. a \in Free(j) /\ PageOf(a) # page
      BY <2>4
    <3>. QED BY <1>2, <2>1, <3>1 DEF AccountInv
  <2>8. /\ pool_index' \in [Pages -> Pools \cup {NoPool}]
        /\ pools' \in [Pools -> Seq(0..(End - 1))]
        /\ \A i \in Pools : IsInjective(pools'[i])
        /\ direct' \subseteq DOMAIN held' /\ DOMAIN pieces' \subseteq 0..(End - 1)
    BY <1>2, <1>3, <2>1 DEF AccountInv
  <2>. QED BY <2>5, <2>6, <2>7, <2>8 DEF AccountInv
<1>6. CASE pool_index[page] # NoPool
  <2>1. PICK i : i = pool_index[page]
    OBVIOUS
  <2>2. /\ i \in Pools /\ i # NoPool /\ held[page] = 0
        /\ Inside(page) \cap FreeIn(i, page) = {}
        /\ Inside(page) \cup FreeIn(i, page) = Chunks(page)
    BY <1>3, <1>6, <2>1 DEF Accounted
  <2>3. /\ pools' = [pools EXCEPT ![i] = linked_list_insert(@, addr)]
        /\ held' = held
    BY <1>1, <1>6, <2>1 DEF free, vars
  <2>4. addr \notin Free(i)
    BY <1>1, <1>4, <2>2 DEF FreeIn
  <2>5. /\ pools' \in [Pools -> Seq(0..(End - 1))]
        /\ \A j \in Pools : IsInjective(pools'[j])
        /\ Free(i)' = Free(i) \cup {addr}
        /\ \A j \in Pools : j # i => Free(j)' = Free(j)
    <3>. DEFINE list == linked_list_insert(pools[i], addr)
    <3>1. pools[i] \in Seq(0..(End - 1)) /\ IsInjective(pools[i])
      BY <2>2 DEF AccountInv
    <3>2. list \in Seq(0..(End - 1)) /\ Range(list) = Range(pools[i]) \cup {addr} /\ IsInjective(list)
      <4>1. addr \notin Range(pools[i]) /\ addr \in 0..(End - 1)
        BY <1>3, <2>4 DEF Free
      <4>. DEFINE S == 0..(End - 1)
      <4>2. addr \in S /\ pools[i] \in Seq(S)
        BY <3>1, <4>1
      <4>. HIDE DEF S
      <4>3. list \in Seq(S) /\ Range(list) = Range(pools[i]) \cup {addr} /\ IsInjective(list)
        BY <3>1, <4>1, <4>2, InsertProperties
      <4>. QED BY <4>3 DEF S
    <3>3. pools' = [pools EXCEPT ![i] = list]
      BY <2>3
    <3>. HIDE DEF list
    <3>. QED BY <2>2, <3>2, <3>3 DEF AccountInv, Free
  <2>6. ASSUME NEW a \in DOMAIN pieces'
        PROVE  /\ PageOf(a) \in DOMAIN held' \ direct'
               /\ pieces'[a] \in Nat /\ pieces'[a] <= Room(a)'
    <3>1. Room(a)' = Room(a)
      BY <1>2, <2>3 DEF Room, PageOf
    <3>. QED BY <1>2, <2>3, <3>1 DEF AccountInv
  <2>7. ASSUME NEW block \in DOMAIN held' \ direct' PROVE Accounted(block)'
    <3>0. block \in DOMAIN held \ direct /\ Accounted(block)
      BY <1>2, <2>3 DEF AccountInv
    <3>1. CASE block = page
      <4>1. Inside(page)' = Inside(page) \ {addr}
        BY <1>2 DEF Inside
      <4>2. FreeIn(i, page)' = FreeIn(i, page) \cup {addr}
        BY <1>1, <2>5 DEF FreeIn, PageOf
      <4>3. Chunks(page)' = Chunks(page)
        BY <1>2 DEF Chunks
      <4>4. FreeIn(pool_index[page], page)' = FreeIn(i, page)'
        BY <1>2, <2>1 DEF FreeIn, Free
      <4>. QED BY <1>2, <1>4, <2>1, <2>2, <2>3, <3>1, <4>1, <4>2, <4>3, <4>4 DEF Accounted
    <3>2. CASE block # page
      <4>1. Inside(block)' = Inside(block)
        BY <1>1, <1>2, <3>2 DEF Inside
      <4>. DEFINE j == pool_index[block]
      <4>2. CASE j \in Pools
        <5>1. FreeIn(j, block)' = {a \in Range(pools'[j]) : PageOf(a) = block}
          BY <1>2 DEF FreeIn, Free, PageOf
        <5>2. \A k \in Pools : Range(pools'[k]) \in {Free(k), Free(k) \cup {addr}}
          BY <2>5 DEF Free
        <5>3. FreeIn(j, block) = {a \in Free(j) : PageOf(a) = block}
          BY DEF FreeIn
        <5>4. FreeIn(j, block)' = FreeIn(j, block)
          <6>. HIDE DEF j
          <6>. QED BY <1>1, <3>2, <4>2, <5>1, <5>2, <5>3
        <5>. QED BY <1>2, <2>3, <3>0, <4>1, <5>4, Untouched
      <4>3. CASE j = NoPool
        <5>1. Inside(block) = {block * PageSize}
          BY <3>0, <4>3, PoolNumbers DEF Accounted
        <5>. QED BY <1>2, <4>1, <4>3, <5>1 DEF Accounted
      <4>. QED BY <3>0, <4>2, <4>3 DEF Accounted
    <3>. QED BY <3>1, <3>2
  <2>8. ASSUME NEW j \in Pools, NEW a \in Free(j)'
        PROVE  PageOf(a) \in DOMAIN held' \ direct' /\ pool_index'[PageOf(a)] = j
    <3>1. CASE a = addr
      <4>1. j = i
        <5>1. SUFFICES ASSUME j # i PROVE FALSE
          OBVIOUS
        <5>2. addr \in Free(j)
          BY <2>5, <3>1, <5>1
        <5>. QED BY <1>1, <2>1, <5>1, <5>2 DEF AccountInv
      <4>. QED BY <1>1, <1>2, <1>3, <2>1, <2>3, <3>1, <4>1
    <3>2. CASE a # addr
      <4>1. a \in Free(j)
        BY <2>5, <3>2
      <4>. QED BY <1>2, <2>3, <4>1 DEF AccountInv
    <3>. QED BY <3>1, <3>2
  <2>9. /\ pool_index' \in [Pages -> Pools \cup {NoPool}]
        /\ direct' \subseteq DOMAIN held' /\ DOMAIN pieces' \subseteq 0..(End - 1)
    BY <1>2, <2>3 DEF AccountInv
  <2>. QED BY <2>5, <2>6, <2>7, <2>8, <2>9 DEF AccountInv
<1>. QED BY <1>5, <1>6

\* Steps that change no piece, no pool and no block that is not held as pages.
LEMMA AccountSame ==
  ASSUME AccountInv, UNCHANGED <<pool_index, pools, pieces>>,
         DOMAIN held' \ direct' = DOMAIN held \ direct,
         \A b \in DOMAIN held \ direct : held'[b] = held[b],
         direct' \subseteq DOMAIN held'
  PROVE  AccountInv'
<1>1. ASSUME NEW block \in DOMAIN held \ direct PROVE Accounted(block)'
  <2>1. Inside(block)' = Inside(block)
    BY DEF Inside
  <2>2. FreeIn(pool_index[block], block)' = FreeIn(pool_index[block], block)
    BY DEF FreeIn, Free
  <2>. QED BY <2>1, <2>2, Untouched DEF AccountInv
<1>2. ASSUME NEW a \in DOMAIN pieces PROVE Room(a)' = Room(a)
  BY DEF Room, PageOf, AccountInv
<1>3. \A i \in Pools : Free(i)' = Free(i)
  BY DEF Free
<1>4. \A a \in DOMAIN pieces' :
        /\ PageOf(a) \in DOMAIN held' \ direct'
        /\ pieces'[a] \in Nat /\ pieces'[a] <= Room(a)'
  BY <1>2 DEF AccountInv
<1>5. \A i \in Pools : \A a \in Free(i)' :
        PageOf(a) \in DOMAIN held' \ direct' /\ pool_index'[PageOf(a)] = i
  BY <1>3 DEF AccountInv
<1>. QED BY <1>1, <1>4, <1>5 DEF AccountInv

\* The page allocator and the pools together.
HeapInv == PageInv /\ AccountInv

THEOREM HeapKept == DynSpec => []HeapInv
<1>1. DynInit => AccountInv
  <2>. SUFFICES ASSUME DynInit PROVE AccountInv
    OBVIOUS
  <2>1. /\ pool_index = [p \in Pages |-> 1]
        /\ pools = [i \in Pools |-> << >>]
        /\ DOMAIN pieces = {} /\ direct = {} /\ DOMAIN held = {}
    BY DEF DynInit, Init
  <2>2. << >> \in Seq(0..(End - 1)) /\ Range(<< >>) = {} /\ IsInjective(<< >>)
    BY DEF Range, IsInjective
  <2>3. pool_index \in [Pages -> Pools \cup {NoPool}]
    <3>1. 1 \in Pools
      BY ChunkAssumption, LenProperties, EmptySeq DEF Pools
    <3>. QED BY <2>1, <3>1
  <2>. QED BY <2>1, <2>2, <2>3 DEF AccountInv, Free
<1>2. HeapInv /\ [DynNext]_allvars => AccountInv'
  <2>. SUFFICES ASSUME PageInv, AccountInv, [DynNext]_allvars PROVE AccountInv'
    BY DEF HeapInv
  <2>1. CASE UNCHANGED allvars
    BY <2>1, AccountSame DEF allvars, vars, dynvars, AccountInv
  <2>2. CASE Populate /\ UNCHANGED dynvars
    BY <2>2, AccountSame DEF Populate, dynvars, AccountInv
  <2>3. ASSUME NEW size \in Sizes, AllocateBlock(size) PROVE AccountInv'
    BY <2>3, AccountBlock, PageAssumption
  <2>4. ASSUME NEW size \in Sizes, AllocateChunk(size) PROVE AccountInv'
    <3>1. PICK i : i = _get_pool_index(size)
      OBVIOUS
    <3>2. i # NoPool
      BY <2>4, <3>1 DEF AllocateChunk
    <3>3. i \in Pools /\ chunk_sizes[i] >= size /\ size \in Nat
      BY <3>1, <3>2, PoolFits, PageAssumption
    <3>4. size <= chunk_sizes[i]
      BY <3>3, PoolNumbers
    <3>5. CASE pools[i] = << >> /\ FillPool(i) /\ Give(NewBlock * PageSize, size)
      BY <3>3, <3>4, <3>5, AccountFill
    <3>6. CASE /\ pools[i] # << >>
               /\ Give(Head(pools[i]), size)
               /\ pools' = [pools EXCEPT ![i] = linked_list_remove(@, Head(@))]
               /\ UNCHANGED <<vars, pool_index>>
      BY <3>3, <3>4, <3>6, AccountChunk
    <3>. QED BY <2>4, <3>1, <3>5, <3>6 DEF AllocateChunk
  <2>5. ASSUME NEW size \in Sizes, NoMemory(size) PROVE AccountInv'
    BY <2>5, AccountSame DEF NoMemory, AllocateFails, vars, dynvars, AccountInv
  <2>6. ASSUME NEW addr \in DOMAIN pieces, free(addr) PROVE AccountInv'
    BY <2>6, AccountFree
  <2>7. CASE TakePage
    <3>1. memory_allocate_pages(PageSize) /\ PageSize \in Nat
          /\ direct' = direct \cup {NewBlock} /\ UNCHANGED <<pool_index, pools, pieces>>
      BY <2>7, PageAssumption DEF TakePage
    <3>2. PICK new : /\ new = NewBlock /\ new \notin DOMAIN held
                     /\ DOMAIN held' = DOMAIN held \cup {new}
                     /\ \A b \in DOMAIN held : held'[b] = held[b]
      BY <3>1, NewBlockIs
    <3>3. direct \subseteq DOMAIN held
      BY DEF AccountInv
    <3>. QED BY <3>1, <3>2, <3>3, AccountSame
  <2>8. ASSUME NEW block \in direct, GiveBackPage(block) PROVE AccountInv'
    <3>1. /\ held' = [b \in DOMAIN held \ {block} |-> held[b]]
          /\ direct' = direct \ {block} /\ UNCHANGED <<pool_index, pools, pieces>>
      BY <2>8 DEF GiveBackPage, Release
    <3>2. direct \subseteq DOMAIN held
      BY DEF AccountInv
    <3>. QED BY <3>1, <3>2, AccountSame
  <2>. QED BY <2>1, <2>2, <2>3, <2>4, <2>5, <2>6, <2>7, <2>8 DEF DynNext
<1>. QED BY <1>1, <1>2, PagesKept, PTL DEF DynSpec, HeapInv

\* Every block the page allocator has given out is a page a caller holds, one
\* piece, or cut into the chunks of its pool, none of which is lost.
THEOREM HeapAccounted == DynSpec => []BlocksAccounted
<1>1. HeapInv /\ reserved_memory \in Reservations => BlocksAccounted
  <2>. SUFFICES ASSUME PageInv, AccountInv, reserved_memory \in Reservations PROVE BlocksAccounted
    BY DEF HeapInv
  <2>1. DynTypeOK
    <3>1. /\ frame_array \in [Pages -> [order : Orders, flags : Flags]]
          /\ orders_lists \in [Orders -> Seq(Pages)]
          /\ reserved_memory \in Reservations
          /\ populated \in 0..PageCount
          /\ DOMAIN held \subseteq Pages
          /\ \A b \in DOMAIN held : held[b] \in Orders
      BY DEF PageInv, Consistent, AreLists
    <3>2. /\ pool_index \in [Pages -> Pools \cup {NoPool}]
          /\ pools \in [Pools -> Seq(0..(End - 1))]
          /\ DOMAIN pieces \subseteq 0..(End - 1)
          /\ direct \subseteq DOMAIN held
      BY DEF AccountInv
    <3>. QED BY <3>1, <3>2 DEF DynTypeOK, TypeOK
  <2>2. \A i \in Pools : IsInjective(pools[i])
    BY DEF AccountInv
  <2>3. ASSUME NEW block \in DOMAIN held \ direct
        PROVE  LET i == pool_index[block]
                   inside == {a \in DOMAIN pieces : PageOf(a) = block}
               IN  \/ /\ i = NoPool
                      /\ inside = {block * PageSize}
                   \/ /\ i # NoPool
                      /\ held[block] = 0
                      /\ inside \cap Free(i) = {}
                      /\ inside \cup {a \in Free(i) : PageOf(a) = block} = Chunks(block)
    <3>1. Accounted(block)
      BY DEF AccountInv
    <3>2. CASE pool_index[block] = NoPool
      BY <3>1, <3>2, PoolNumbers DEF Accounted, Inside
    <3>3. CASE pool_index[block] # NoPool
      <4>. DEFINE i == pool_index[block]
      <4>1. /\ held[block] = 0
            /\ Inside(block) \cap FreeIn(i, block) = {}
            /\ Inside(block) \cup FreeIn(i, block) = Chunks(block)
        BY <3>1, <3>3 DEF Accounted
      <4>2. Inside(block) \cap Free(i) = {}
        BY <4>1 DEF Inside, FreeIn
      <4>. QED BY <3>3, <4>1, <4>2 DEF Inside, FreeIn
    <3>. QED BY <3>2, <3>3
  <2>4. \A i \in Pools : \A a \in Free(i) : PageOf(a) \in DOMAIN held \ direct
    BY DEF AccountInv
  <2>. QED BY <2>1, <2>2, <2>3, <2>4 DEF BlocksAccounted
<1>2. DynSpec => [](reserved_memory \in Reservations)
  <2>1. DynInit => reserved_memory \in Reservations
    BY DEF DynInit, Init
  <2>2. reserved_memory \in Reservations /\ [DynNext]_allvars => (reserved_memory \in Reservations)'
    BY StepsOfPages
  <2>. QED BY <2>1, <2>2, PTL DEF DynSpec
<1>. QED BY <1>1, <1>2, HeapKept, PTL

-----------------------------------------------------------------------------
(* The heap.                                                               *)

\* A piece lies inside its block.
LEMMA InItsBlock ==
  ASSUME HeapInv, NEW a \in DOMAIN pieces
  PROVE  /\ a \in Nat /\ pieces[a] \in Nat /\ PageOf(a) \in DOMAIN held
         /\ PageOf(a) * PageSize <= a
         /\ a + pieces[a] <= (PageOf(a) + Pow2[held[PageOf(a)]]) * PageSize
<1>. DEFINE block == PageOf(a)
            o == held[block]
            i == pool_index[block]
            p == Pow2[o]
<1>1. /\ a \in Nat /\ pieces[a] \in Nat /\ pieces[a] <= Room(a)
      /\ block \in DOMAIN held \ direct /\ block \in Pages /\ o \in Orders
      /\ Accounted(block)
  BY DEF HeapInv, PageInv, AccountInv
<1>2. PageSize \in Nat \ {0} /\ block \in Nat /\ o \in Nat
  BY <1>1, PageAssumption DEF Pages, Orders
<1>3. p \in Nat \ {0}
  BY <1>2, PowerOfTwo
<1>4. a \in Inside(block)
  BY DEF Inside
<1>. HIDE DEF block, o, p
<1>5. (block + p) * PageSize = block * PageSize + PageSize * p
      /\ block * PageSize \in Nat /\ PageSize * p \in Nat
  BY <1>2, <1>3
<1>6. block * PageSize <= a /\ a + Room(a) <= block * PageSize + PageSize * p
      /\ Room(a) \in Nat
  <2>1. CASE i = NoPool
    <3>1. Room(a) = PageSize * p
      BY <2>1 DEF Room, block, o, p
    <3>2. a = block * PageSize
      BY <1>1, <1>4, <2>1, PoolNumbers DEF Accounted
    <3>. QED BY <1>5, <3>1, <3>2
  <2>2. CASE i # NoPool
    <3>. DEFINE c == chunk_sizes[i]
    <3>1. i \in Pools /\ o = 0 /\ a \in Chunks(block)
      BY <1>1, <1>4, <2>2 DEF Accounted, o
    <3>2. PICK k \in 0..(PageSize \div c - 1) : a = block * PageSize + k * c
      BY <3>1 DEF Chunks
    <3>3. Room(a) = c
      BY <2>2 DEF Room, block
    <3>4. k * c \in Nat /\ k * c + c <= PageSize /\ c \in Nat
      <4>1. i \in Pools /\ block \in Pages
        BY <1>1, <3>1
      <4>. HIDE DEF i
      <4>2. k * c \in 0..(PageSize - 1) /\ k * c + c <= PageSize
        BY <3>2, <4>1, ChunksInPage
      <4>3. c \in Nat
        BY <4>1, PoolNumbers
      <4>. QED BY <4>2, <4>3
    <3>5. PageSize * p = PageSize
      <4>1. p = 1
        BY <3>1, PowerOfTwo DEF p
      <4>. QED BY <1>2, <4>1
    <3>. DEFINE x == k * c
                y == block * PageSize
    <3>. HIDE DEF i, c
    <3>6. x \in Nat /\ x + c <= PageSize /\ y \in Nat /\ a = y + x
      BY <1>5, <3>2, <3>4
    <3>. HIDE DEF x, y
    <3>7. y <= a /\ a + c <= y + PageSize
      BY <1>2, <3>4, <3>6
    <3>. QED BY <3>3, <3>4, <3>5, <3>7 DEF y
  <2>. QED BY <2>1, <2>2
<1>7. a + pieces[a] <= (block + p) * PageSize
  <2>. DEFINE x == block * PageSize
              y == PageSize * p
  <2>1. (block + p) * PageSize = x + y /\ x \in Nat /\ y \in Nat /\ a + Room(a) <= x + y
    BY <1>5, <1>6
  <2>. HIDE DEF x, y
  <2>2. a + pieces[a] <= x + y
    BY <1>1, <1>6, <2>1
  <2>. QED BY <2>1, <2>2
<1>. QED BY <1>1, <1>6, <1>7 DEF block, o, p

\* Two pieces share no byte.
LEMMA PiecesApart ==
  ASSUME HeapInv, NEW a \in DOMAIN pieces, NEW b \in DOMAIN pieces, a # b
  PROVE  a + pieces[a] <= b \/ b + pieces[b] <= a
<1>. DEFINE m == PageOf(a)
            n == PageOf(b)
            p == Pow2[held[m]]
            q == Pow2[held[n]]
<1>1. /\ a \in Nat /\ pieces[a] \in Nat /\ m * PageSize <= a
      /\ a + pieces[a] <= (m + p) * PageSize
      /\ b \in Nat /\ pieces[b] \in Nat /\ n * PageSize <= b
      /\ b + pieces[b] <= (n + q) * PageSize
      /\ m \in DOMAIN held /\ n \in DOMAIN held
  BY InItsBlock
<1>2. PageSize \in Nat \ {0} /\ m \in Pages /\ n \in Pages /\ m \in Nat /\ n \in Nat
      /\ held[m] \in Nat /\ held[n] \in Nat
  BY <1>1, PageAssumption DEF HeapInv, PageInv, Pages, Orders
<1>3. p \in Nat \ {0} /\ q \in Nat \ {0}
  BY <1>2, PowerOfTwo
<1>4. CASE m # n
  <2>. DEFINE x == <<held[m], m>>
              y == <<held[n], n>>
  <2>1. x \in Held(held) /\ y \in Held(held) /\ x # y
    BY <1>1, <1>4 DEF Held
  <2>2. PagesOf(x) \cap PagesOf(y) = {}
    <3>. HIDE DEF x, y
    <3>. QED BY <2>1 DEF HeapInv, PageInv, Consistent, Partition
  <2>3. (m..(m + p - 1)) \cap (n..(n + q - 1)) = {}
    BY <2>2 DEF PagesOf, BlockPages
  <2>. HIDE DEF m, n, p, q
  <2>4. m + p <= n \/ n + q <= m
    <3>. SUFFICES ASSUME n < m + p, m < n + q PROVE FALSE
      BY <1>2, <1>3
    <3>1. m \in m..(m + p - 1) /\ n \in n..(n + q - 1)
      BY <1>2, <1>3
    <3>2. m <= n => n \in m..(m + p - 1)
      BY <1>2, <1>3
    <3>3. n <= m => m \in n..(n + q - 1)
      BY <1>2, <1>3
    <3>. QED BY <1>2, <2>3, <3>1, <3>2, <3>3
  <2>5. /\ (m + p <= n) => (m + p) * PageSize <= n * PageSize
        /\ (n + q <= m) => (n + q) * PageSize <= m * PageSize
    <3>1. m + p \in Int /\ n + q \in Int /\ m \in Int /\ n \in Int
      BY <1>2, <1>3
    <3>. QED BY <1>2, <3>1, Multiply
  <2>. DEFINE mp == (m + p) * PageSize
              nq == (n + q) * PageSize
              ms == m * PageSize
              ns == n * PageSize
  <2>6. /\ mp \in Int /\ nq \in Int /\ ms \in Int /\ ns \in Int
        /\ mp <= ns \/ nq <= ms
        /\ ms <= a /\ a + pieces[a] <= mp /\ ns <= b /\ b + pieces[b] <= nq
    BY <1>1, <1>2, <1>3, <2>4, <2>5
  <2>. HIDE DEF mp, nq, ms, ns
  <2>. QED BY <1>1, <2>6
<1>5. CASE m = n
  <2>. DEFINE i == pool_index[m]
              c == chunk_sizes[i]
              base == m * PageSize
  <2>1. /\ Accounted(m)
        /\ pieces[a] <= Room(a) /\ pieces[b] <= Room(b)
    BY DEF HeapInv, AccountInv
  <2>2. a \in Inside(m) /\ b \in Inside(m)
    BY <1>5 DEF Inside
  <2>3. i \in Pools /\ a \in Chunks(m) /\ b \in Chunks(m)
    BY <2>1, <2>2 DEF Accounted
  <2>4. Room(a) = c /\ Room(b) = c
    BY <1>5, <2>3, PoolNumbers DEF Room
  <2>5. PICK k \in 0..(PageSize \div c - 1) : a = base + k * c
    BY <2>3 DEF Chunks
  <2>6. PICK l \in 0..(PageSize \div c - 1) : b = base + l * c
    BY <2>3 DEF Chunks
  <2>7. c \in Nat \ {0} /\ k \in Int /\ l \in Int /\ k # l
    <3>1. c \in Nat \ {0}
      BY <2>3, PoolNumbers
    <3>2. PageSize \div c \in Nat
      BY <2>3, PoolNumbers
    <3>. HIDE DEF c, base
    <3>3. k \in Int /\ l \in Int
      BY <3>2
    <3>4. k # l
      BY <2>5, <2>6
    <3>. QED BY <3>1, <3>3, <3>4
  <2>8. /\ k < l => k * c + c <= l * c
        /\ l < k => l * c + c <= k * c
    BY <1>2, <2>3, ChunksInPage
  <2>. DEFINE x == k * c
              y == l * c
  <2>9. /\ x + c <= y \/ y + c <= x
        /\ x \in Int /\ y \in Int /\ base \in Int /\ a = base + x /\ b = base + y
        /\ pieces[a] <= c /\ pieces[b] <= c
    BY <1>2, <2>1, <2>4, <2>5, <2>6, <2>7, <2>8
  <2>. HIDE DEF x, y, base, c
  <2>. QED BY <1>1, <2>7, <2>9
<1>. QED BY <1>4, <1>5

\* The pieces of the heap share no byte.
PiecesDisjoint ==
  \A a, b \in DOMAIN pieces : a # b => Memory!Apart(a, pieces[a], b, pieces[b])

\* A piece that is given out is new to the heap.
LEMMA GiveRefines ==
  ASSUME PiecesDisjoint', NEW addr, NEW size, Give(addr, size), addr \notin DOMAIN pieces
  PROVE  Memory!Next
<1>1. /\ DOMAIN pieces' = DOMAIN pieces \cup {addr}
      /\ \A a \in DOMAIN pieces : a # addr => pieces'[a] = pieces[a]
  BY Given
<1>2. ASSUME NEW other \in DOMAIN pieces
      PROVE  /\ pieces'[other] = pieces[other]
             /\ Memory!Apart(addr, pieces'[addr], other, pieces[other])
  <2>1. other # addr /\ pieces'[other] = pieces[other]
    BY <1>1
  <2>2. Memory!Apart(addr, pieces'[addr], other, pieces'[other])
    BY <1>1, <2>1 DEF PiecesDisjoint, Memory!Apart
  <2>. QED BY <2>1, <2>2
<1>3. Memory!Give(addr)
  BY <1>1, <1>2 DEF Memory!Give
<1>. QED BY <1>1, <1>3 DEF Memory!Next

\* A new block is at an address that nobody has.
LEMMA NewAddress ==
  ASSUME HeapInv, NEW size \in Nat, memory_allocate_pages(size)
  PROVE  NewBlock * PageSize \notin DOMAIN pieces
<1>1. PICK new \in Pages : new = NewBlock /\ new \notin DOMAIN held
  BY NewBlockIs DEF HeapInv
<1>2. PageOf(new * PageSize) = new
  <2>1. 0 \in 0..(PageSize - 1)
    BY PageAssumption
  <2>. DEFINE x == new * PageSize
  <2>2. PageOf(x + 0) = new /\ x \in Nat
    BY <2>1, AddressInPage
  <2>. HIDE DEF x
  <2>3. x + 0 = x
    BY <2>2
  <2>. QED BY <2>2, <2>3 DEF x
<1>3. \A a \in DOMAIN pieces : PageOf(a) \in DOMAIN held
  BY DEF HeapInv, AccountInv
<1>. QED BY <1>1, <1>2, <1>3

\* Every step of the allocators gives a piece out, takes one back or leaves
\* all pieces alone.
LEMMA HeapStep ==
  ASSUME HeapInv, PiecesDisjoint', [DynNext]_allvars
  PROVE  [Memory!Next]_pieces
<1>1. CASE UNCHANGED pieces
  BY <1>1
<1>2. ASSUME NEW size \in Sizes, AllocateBlock(size) PROVE Memory!Next
  <2>1. memory_allocate_pages(size) /\ Give(NewBlock * PageSize, size) /\ size \in Nat
    BY <1>2, PageAssumption DEF AllocateBlock
  <2>. QED BY <2>1, NewAddress, GiveRefines
<1>3. ASSUME NEW size \in Sizes, AllocateChunk(size) PROVE Memory!Next
  <2>1. PICK i : i = _get_pool_index(size)
    OBVIOUS
  <2>2. i \in Pools
    BY <1>3, <2>1, PoolFits DEF AllocateChunk
  <2>3. CASE FillPool(i) /\ Give(NewBlock * PageSize, size)
    <3>1. memory_allocate_pages(PageSize) /\ PageSize \in Nat
      BY <2>3, PageAssumption DEF FillPool
    <3>. QED BY <2>3, <3>1, NewAddress, GiveRefines
  <2>4. CASE pools[i] # << >> /\ Give(Head(pools[i]), size)
    <3>. DEFINE addr == Head(pools[i])
                page == PageOf(addr)
    <3>1. addr \in Free(i)
      <4>1. pools[i] \in Seq(0..(End - 1))
        BY <2>2 DEF HeapInv, AccountInv
      <4>. QED BY <2>4, <4>1, HeadInRange DEF Free
    <3>2. page \in DOMAIN held \ direct /\ pool_index[page] = i /\ Accounted(page)
      BY <2>2, <3>1 DEF HeapInv, AccountInv
    <3>3. Inside(page) \cap FreeIn(i, page) = {}
      BY <2>2, <3>2, PoolNumbers DEF Accounted
    <3>4. addr \notin DOMAIN pieces
      BY <3>1, <3>3 DEF Inside, FreeIn
    <3>. QED BY <2>4, <3>4, GiveRefines
  <2>. QED BY <1>3, <2>1, <2>3, <2>4 DEF AllocateChunk
<1>4. ASSUME NEW addr \in DOMAIN pieces, free(addr) PROVE Memory!Next
  BY <1>4 DEF free, Memory!Next, Memory!TakeBack
<1>5. [DynNext]_allvars => \/ UNCHANGED pieces
                           \/ \E size \in Sizes : AllocateBlock(size) \/ AllocateChunk(size)
                           \/ \E addr \in DOMAIN pieces : free(addr)
  BY DEF DynNext, allvars, dynvars, NoMemory, TakePage, GiveBackPage
<1>. QED BY <1>1, <1>2, <1>3, <1>4, <1>5

\* page_allocator.c and dynamic_allocator.c together implement a heap: what
\* allocate gives out never shares a byte with what anybody else has.
THEOREM AllocatorsImplementHeap == DynSpec => ImplementsHeap
<1>1. DynInit => Memory!Init
  BY DEF DynInit, Memory!Init
<1>2. HeapInv => PiecesDisjoint
  BY PiecesApart DEF PiecesDisjoint, Memory!Apart
<1>3. HeapInv /\ PiecesDisjoint' /\ [DynNext]_allvars => [Memory!Next]_pieces
  BY HeapStep
<1>. QED BY <1>1, <1>2, <1>3, HeapKept, PTL DEF DynSpec, ImplementsHeap, Memory!Spec

=============================================================================
