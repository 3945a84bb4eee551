--------------------------- MODULE Queues_proofs ---------------------------
(***************************************************************************)
(* What the list operations of Queues preserve, for sequences of any       *)
(* length.                                                                 *)
(***************************************************************************)
EXTENDS Queues, TLAPS, WellFoundedInduction, SequenceTheorems

\* A set of naturals that is not empty has a least element: the induction
\* the lemmas on Keep rest on.
LEMMA LeastElement ==
  ASSUME NEW T \in SUBSET Nat, T # {}
  PROVE  \E n \in T : \A m \in T : n <= m
<1>1. PICK n \in T : \A m \in T : ~ (<<m, n>> \in OpToRel(<, Nat))
  BY NatLessThanWellFounded, WFMin
<1>2. \A m \in T : ~(m < n)
  BY <1>1 DEF OpToRel
<1>. QED BY <1>2

\* What the recursive function of Keep is at i, given its values F before i.
KeepStep(F, list, S, i) ==
  IF i = 0 THEN << >>
  ELSE IF list[i] \in S THEN Append(F[i-1], list[i]) ELSE F[i-1]

\* There is a function that satisfies the recursion of Keep.
LEMMA KeepExists ==
  ASSUME NEW A, NEW list \in Seq(A), NEW S
  PROVE  \E F : F = [i \in 0..Len(list) |-> KeepStep(F, list, S, i)]
<1>. DEFINE Ok(n) == \E F : F = [i \in 0..n |-> KeepStep(F, list, S, i)]
            Bad == {n \in 0..Len(list) : ~ Ok(n)}
<1>0. Len(list) \in Nat OBVIOUS
<1>1. SUFFICES ASSUME Bad # {} PROVE FALSE
  BY <1>0
<1>2. PICK n \in Bad : \A m \in Bad : n <= m
  <2>1. Bad \in SUBSET Nat BY <1>0
  <2>. HIDE DEF Bad
  <2>. QED BY <1>1, <2>1, LeastElement
<1>3. CASE n = 0
  <2>. DEFINE F == [i \in 0..0 |-> << >>]
  <2>1. F = [i \in 0..0 |-> KeepStep(F, list, S, i)]
    BY DEF KeepStep
  <2>. QED BY <1>2, <1>3, <2>1
<1>4. CASE n # 0
  <2>1. n \in 1..Len(list) /\ n-1 \in 0..Len(list) /\ ~(n-1 \in Bad)
    BY <1>0, <1>2, <1>4
  <2>2. PICK G : G = [i \in 0..(n-1) |-> KeepStep(G, list, S, i)]
    BY <2>1
  <2>. DEFINE F == [i \in 0..n |-> IF i = n THEN KeepStep(G, list, S, n) ELSE G[i]]
  <2>3. \A i \in 0..(n-1) : F[i] = G[i]
    BY <2>1
  <2>4. \A i \in 0..n : F[i] = KeepStep(F, list, S, i)
    <3>1. ASSUME NEW i \in 0..n PROVE KeepStep(F, list, S, i) = KeepStep(G, list, S, i)
      BY <2>1, <2>3 DEF KeepStep
    <3>2. ASSUME NEW i \in 0..n PROVE F[i] = KeepStep(G, list, S, i)
      <4>1. \A j \in 0..(n-1) : G[j] = KeepStep(G, list, S, j)
        BY <2>2
      <4>2. i = n \/ i \in 0..(n-1)
        BY <2>1
      <4>. QED BY <4>1, <4>2
    <3>. QED BY <3>1, <3>2
  <2>5. F = [i \in 0..n |-> KeepStep(F, list, S, i)]
    BY <2>4
  <2>. HIDE DEF F
  <2>. QED BY <1>2, <2>5
<1>. QED BY <1>3, <1>4

\* Keep is the last value of such a function.
LEMMA KeepFunction ==
  ASSUME NEW A, NEW list \in Seq(A), NEW S
  PROVE  \E F : /\ F = [i \in 0..Len(list) |-> KeepStep(F, list, S, i)]
                /\ Keep(list, S) = F[Len(list)]
<1>. DEFINE F == CHOOSE F : F = [i \in 0..Len(list) |-> KeepStep(F, list, S, i)]
<1>1. F = [i \in 0..Len(list) |-> KeepStep(F, list, S, i)]
  BY KeepExists
<1>2. Keep(list, S) = F[Len(list)]
  BY Zenon DEF Keep, KeepStep
<1>. QED BY <1>1, <1>2

\* The walk that keeps the nodes in S (cpu_scheduler_fire_cond, and
\* linked_list_remove) leaves exactly the nodes of the list that are in S, and
\* none of them twice if the list had none twice.
LEMMA KeepProperties ==
  ASSUME NEW A, NEW list \in Seq(A), NEW S
  PROVE  /\ Keep(list, S) \in Seq(A)
         /\ Range(Keep(list, S)) = Range(list) \cap S
         /\ IsInjective(list) => IsInjective(Keep(list, S))
<1>. DEFINE n == Len(list)
<1>0. n \in Nat OBVIOUS
<1>1. PICK F : /\ F = [i \in 0..n |-> KeepStep(F, list, S, i)]
               /\ Keep(list, S) = F[n]
  BY KeepFunction
<1>. DEFINE Elems(s) == {s[j] : j \in 1..Len(s)}
            Pre(i) == {list[j] : j \in 1..i}
            Good(i) == /\ F[i] \in Seq(A)
                       /\ Elems(F[i]) = Pre(i) \cap S
                       /\ IsInjective(list) => \A j, k \in 1..Len(F[i]) : F[i][j] = F[i][k] => j = k
            Bad == {i \in 0..n : ~ Good(i)}
<1>b. \A i \in 0..n : i \in Bad <=> ~ Good(i)
  <2>. HIDE DEF Good
  <2>. QED OBVIOUS
<1>2. Bad = {}
  <2>1. SUFFICES ASSUME Bad # {} PROVE FALSE
    OBVIOUS
  <2>2. PICK b \in Bad : \A m \in Bad : b <= m
    <3>1. Bad \in SUBSET Nat BY <1>0
    <3>. HIDE DEF Bad
    <3>. QED BY <2>1, <3>1, LeastElement
  <2>3. b # 0
    <3>1. F[0] = << >> BY <1>0, <1>1 DEF KeepStep
    <3>2. Good(0) BY <3>1
    <3>. HIDE DEF Good, Bad
    <3>. QED BY <1>0, <1>b, <3>2
  <2>4. b \in 1..n /\ b-1 \in 0..n
    BY <1>0, <2>3
  <2>5. Good(b-1)
    <3>1. b-1 \notin Bad
      <4>. HIDE DEF Bad
      <4>. QED BY <1>0, <2>2, <2>4
    <3>. HIDE DEF Good, Bad
    <3>. QED BY <1>b, <2>4, <3>1
  <2>6. Pre(b) = Pre(b-1) \cup {list[b]}
    BY <2>4
  <2>7. F[b] = IF list[b] \in S THEN Append(F[b-1], list[b]) ELSE F[b-1]
    <3>1. \A i \in 0..n : F[i] = KeepStep(F, list, S, i) BY <1>1
    <3>2. b \in 0..n /\ b # 0 BY <2>4
    <3>. QED BY <3>1, <3>2 DEF KeepStep
  <2>8. list[b] \in A
    BY <2>4
  <2>9. CASE list[b] \notin S
    <3>1. F[b] = F[b-1] BY <2>7, <2>9
    <3>2. Pre(b) \cap S = Pre(b-1) \cap S BY <2>6, <2>9
    <3>. HIDE DEF Pre
    <3>. Good(b) BY <2>5, <3>1, <3>2
    <3>. QED OBVIOUS
  <2>10. CASE list[b] \in S
    <3>. DEFINE G == F[b-1]
                x == list[b]
    <3>1. F[b] = Append(G, x) BY <2>7, <2>10
    <3>2. G \in Seq(A) /\ Elems(G) = Pre(b-1) \cap S BY <2>5
    <3>3. /\ Append(G, x) \in Seq(A)
          /\ Len(Append(G, x)) = Len(G) + 1
          /\ \A j \in 1..Len(G) : Append(G, x)[j] = G[j]
          /\ Append(G, x)[Len(G)+1] = x
      BY <2>8, <3>2
    <3>4. Elems(Append(G, x)) = Elems(G) \cup {x}
      <4>. HIDE DEF G, x
      <4>1. Len(G) \in Nat BY <3>2
      <4>2. 1..(Len(G)+1) = (1..Len(G)) \cup {Len(G)+1} BY <4>1
      <4>3. ASSUME NEW y PROVE y \in Elems(Append(G, x)) <=> y \in Elems(G) \cup {x}
        BY <3>3, <4>1, <4>2
      <4>. QED BY <4>3
    <3>5. Elems(F[b]) = Pre(b) \cap S
      <4>. HIDE DEF Elems, Pre
      <4>. QED BY <2>6, <2>10, <3>1, <3>2, <3>4
    <3>6. ASSUME IsInjective(list)
          PROVE  \A j, k \in 1..Len(F[b]) : F[b][j] = F[b][k] => j = k
      <4>1. x \notin Pre(b-1)
        BY <2>4, <3>6, LenProperties DEF IsInjective
      <4>2. x \notin Elems(G)
        <5>. HIDE DEF Elems, Pre
        <5>. QED BY <3>2, <4>1
      <4>3. \A j, k \in 1..Len(G) : G[j] = G[k] => j = k
        BY <2>5, <3>6
      <4>. HIDE DEF G, x
      <4>4. Len(G) \in Nat BY <3>2
      <4>. QED BY <3>1, <3>3, <4>2, <4>3, <4>4
    <3>7. F[b] \in Seq(A) BY <3>1, <3>3
    <3>. HIDE DEF Elems, Pre
    <3>8. Good(b) BY <3>5, <3>6, <3>7
    <3>. QED BY <3>8
  <2>. QED BY <2>9, <2>10
<1>3. Good(n)
  <2>1. n \in 0..n BY <1>0
  <2>. HIDE DEF Good, Bad
  <2>. QED BY <1>b, <1>2, <2>1
<1>4. Range(list) = Pre(n)
  BY LenProperties DEF Range
<1>5. Range(F[n]) = Elems(F[n])
  BY <1>3, LenProperties DEF Range
<1>6. IsInjective(list) => IsInjective(F[n])
  BY <1>3, LenProperties DEF IsInjective
<1>. HIDE DEF Elems, Pre
<1>. QED BY <1>1, <1>3, <1>4, <1>5, <1>6

\* linked_list_insert adds its node, and only that; a node that was not in
\* the list is then in it once.
LEMMA InsertProperties ==
  ASSUME NEW A, NEW list \in Seq(A), NEW x \in A
  PROVE  /\ linked_list_insert(list, x) \in Seq(A)
         /\ Range(linked_list_insert(list, x)) = Range(list) \cup {x}
         /\ (IsInjective(list) /\ x \notin Range(list)) =>
              IsInjective(linked_list_insert(list, x))
<1>. DEFINE r == Append(list, x)
<1>1. /\ Len(list) \in Nat
      /\ r \in Seq(A)
      /\ Len(r) = Len(list) + 1
      /\ \A j \in 1..Len(list) : r[j] = list[j]
      /\ r[Len(list)+1] = x
  OBVIOUS
<1>2. DOMAIN r = 1..(Len(list)+1) /\ DOMAIN list = 1..Len(list)
  BY <1>1, LenProperties
<1>. HIDE DEF r
<1>3. Range(r) = Range(list) \cup {x}
  <2>1. ASSUME NEW y PROVE y \in Range(r) <=> y \in Range(list) \cup {x}
    BY <1>1, <1>2 DEF Range
  <2>. QED BY <2>1
<1>4. ASSUME IsInjective(list), x \notin Range(list)
      PROVE  IsInjective(r)
  BY <1>1, <1>2, <1>4 DEF IsInjective, Range
<1>. QED BY <1>1, <1>3, <1>4 DEF linked_list_insert, r

\* linked_list_remove of a node that is in the list takes out that node only.
LEMMA RemoveProperties ==
  ASSUME NEW A, NEW list \in Seq(A), NEW x \in Range(list)
  PROVE  /\ linked_list_remove(list, x) \in Seq(A)
         /\ Range(linked_list_remove(list, x)) = Range(list) \ {x}
         /\ IsInjective(list) => IsInjective(linked_list_remove(list, x))
<1>1. linked_list_remove(list, x) = Keep(list, Range(list) \ {x})
  BY DEF linked_list_remove
<1>. QED BY <1>1, KeepProperties

\* Moving the nodes of one list behind those of another: the result has the
\* nodes of both, each once if the lists are disjoint.
LEMMA ConcatRange ==
  ASSUME NEW A, NEW p \in Seq(A), NEW q \in Seq(A)
  PROVE  /\ p \o q \in Seq(A)
         /\ Range(p \o q) = Range(p) \cup Range(q)
         /\ (IsInjective(p) /\ IsInjective(q) /\ Range(p) \cap Range(q) = {}) =>
              IsInjective(p \o q)
<1>. DEFINE r == p \o q
<1>1. /\ Len(p) \in Nat /\ Len(q) \in Nat
      /\ r \in Seq(A)
      /\ Len(r) = Len(p) + Len(q)
      /\ \A i \in 1 .. Len(p) + Len(q) :
           r[i] = IF i <= Len(p) THEN p[i] ELSE q[i - Len(p)]
  BY ConcatProperties
<1>2. /\ DOMAIN r = 1..(Len(p)+Len(q))
      /\ DOMAIN p = 1..Len(p)
      /\ DOMAIN q = 1..Len(q)
  BY <1>1, LenProperties
<1>. HIDE DEF r
<1>3. \A j \in 1..Len(q) : r[Len(p) + j] = q[j] /\ Len(p) + j \in DOMAIN r
  BY <1>1, <1>2
<1>4. \A j \in 1..Len(p) : r[j] = p[j] /\ j \in DOMAIN r
  BY <1>1, <1>2
<1>5. Range(r) = Range(p) \cup Range(q)
  <2>1. ASSUME NEW y \in Range(r) PROVE y \in Range(p) \cup Range(q)
    <3>1. PICK i \in 1..(Len(p)+Len(q)) : y = r[i]
      BY <1>2, <2>1 DEF Range
    <3>2. CASE i <= Len(p)
      BY <1>1, <1>2, <3>1, <3>2 DEF Range
    <3>3. CASE ~(i <= Len(p))
      <4>1. i - Len(p) \in 1..Len(q) /\ y = q[i - Len(p)]
        BY <1>1, <3>1, <3>3
      <4>. QED BY <1>2, <4>1 DEF Range
    <3>. QED BY <3>2, <3>3
  <2>2. ASSUME NEW y \in Range(p) PROVE y \in Range(r)
    BY <1>2, <1>4, <2>2 DEF Range
  <2>3. ASSUME NEW y \in Range(q) PROVE y \in Range(r)
    BY <1>2, <1>3, <2>3 DEF Range
  <2>. QED BY <2>1, <2>2, <2>3
<1>6. ASSUME IsInjective(p), IsInjective(q), Range(p) \cap Range(q) = {}
      PROVE  IsInjective(r)
  <2>1. SUFFICES ASSUME NEW i \in DOMAIN r, NEW j \in DOMAIN r, r[i] = r[j]
                 PROVE  i = j
    BY DEF IsInjective
  <2>2. ASSUME NEW k \in DOMAIN r, ~(k <= Len(p))
        PROVE  k - Len(p) \in DOMAIN q /\ r[k] = q[k - Len(p)]
    BY <1>1, <1>2, <2>2
  <2>3. ASSUME NEW k \in DOMAIN r, k <= Len(p)
        PROVE  k \in DOMAIN p /\ r[k] = p[k]
    BY <1>1, <1>2, <2>3
  <2>4. i \in Int /\ j \in Int BY <1>1, <1>2
  <2>5. CASE i <= Len(p) /\ j <= Len(p)
    BY <1>6, <2>1, <2>3, <2>5 DEF IsInjective
  <2>6. CASE ~(i <= Len(p)) /\ ~(j <= Len(p))
    <3>1. i - Len(p) = j - Len(p)
      BY <1>6, <2>1, <2>2, <2>6 DEF IsInjective
    <3>. QED BY <1>1, <2>4, <3>1
  <2>7. CASE i <= Len(p) /\ ~(j <= Len(p))
    <3>1. r[i] \in Range(p) /\ r[j] \in Range(q)
      BY <2>2, <2>3, <2>7 DEF Range
    <3>. QED BY <1>6, <2>1, <3>1
  <2>8. CASE ~(i <= Len(p)) /\ j <= Len(p)
    <3>1. r[j] \in Range(p) /\ r[i] \in Range(q)
      BY <2>2, <2>3, <2>8 DEF Range
    <3>. QED BY <1>6, <2>1, <3>1
  <2>. QED BY <2>5, <2>6, <2>7, <2>8
<1>. QED BY <1>1, <1>5, <1>6 DEF r

\* The head of a list is one of its nodes, and a list without nodes is empty.
LEMMA HeadInRange ==
  ASSUME NEW A, NEW list \in Seq(A)
  PROVE  /\ list # << >> => Head(list) \in Range(list)
         /\ list = << >> <=> Range(list) = {}
         /\ Range(list) \subseteq A
<1>1. DOMAIN list = 1..Len(list) /\ Len(list) \in Nat
  BY LenProperties
<1>2. list # << >> => 1 \in 1..Len(list) /\ Head(list) = list[1]
  BY EmptySeq
<1>3. list # << >> => Head(list) \in Range(list)
  BY <1>1, <1>2 DEF Range
<1>4. list = << >> => Range(list) = {}
  BY DEF Range
<1>5. Range(list) \subseteq A
  BY <1>1 DEF Range
<1>. QED BY <1>3, <1>4, <1>5

\* list with x put at position i.
Splice(list, x, i) == SubSeq(list, 1, i - 1) \o <<x>> \o SubSeq(list, i, Len(list))

\* A node put at position i: the nodes from there on move up by one
\* (linked_list_insert_before, and the walks that insert in order).
LEMMA SpliceProperties ==
  ASSUME NEW A, NEW list \in Seq(A), NEW x \in A, NEW i \in 1..(Len(list) + 1)
  PROVE  /\ Splice(list, x, i) \in Seq(A)
         /\ Len(Splice(list, x, i)) = Len(list) + 1
         /\ \A j \in 1..(Len(list) + 1) :
              Splice(list, x, i)[j] =
                IF j < i THEN list[j] ELSE IF j = i THEN x ELSE list[j-1]
<1>. DEFINE n == Len(list)
            p == SubSeq(list, 1, i - 1)
            q == SubSeq(list, i, n)
<1>0. n \in Nat /\ \A j \in 1..n : list[j] \in A
  OBVIOUS
<1>1. p \in Seq(A) /\ Len(p) = i - 1 /\ \A j \in 1..(i-1) : p[j] = list[j]
  BY <1>0, SubSeqProperties
<1>2. /\ q \in Seq(A) /\ Len(q) = n - i + 1
      /\ \A j \in 1..(n-i+1) : q[j] = list[i+j-1]
  BY <1>0, SubSeqProperties
<1>. HIDE DEF p, q
<1>. DEFINE px == p \o <<x>>
<1>3. px \in Seq(A) /\ Len(px) = i /\ \A j \in 1..i : px[j] = IF j < i THEN list[j] ELSE x
  BY <1>0, <1>1
<1>. DEFINE w == px \o q
<1>4. Splice(list, x, i) = w
  BY DEF p, q, Splice
<1>. HIDE DEF px, n
<1>5. /\ w \in Seq(A) /\ Len(w) = i + (n - i + 1)
      /\ \A j \in 1..(i + (n - i + 1)) :
           w[j] = IF j <= i THEN px[j] ELSE q[j - i]
  <2>1. px \in Seq(A) /\ q \in Seq(A)
    BY <1>2, <1>3
  <2>2. /\ w \in Seq(A) /\ Len(w) = Len(px) + Len(q)
        /\ \A j \in 1..(Len(px) + Len(q)) :
             w[j] = IF j <= Len(px) THEN px[j] ELSE q[j - Len(px)]
    BY <2>1, ConcatProperties
  <2>3. Len(px) = i /\ Len(q) = n - i + 1
    BY <1>2, <1>3
  <2>. HIDE DEF w
  <2>. QED BY <2>2, <2>3
<1>a. i \in 1..(n+1)
  BY DEF n
<1>. HIDE DEF w
<1>6. ASSUME NEW j \in 1..(n+1)
      PROVE  w[j] = IF j < i THEN list[j] ELSE IF j = i THEN x ELSE list[j-1]
  <2>1. j \in 1..(i + (n - i + 1))
    BY <1>0, <1>a
  <2>2. CASE j <= i
    BY <1>0, <1>3, <1>5, <1>a, <2>1, <2>2
  <2>3. CASE ~(j <= i)
    <3>1. j - i \in 1..(n-i+1) /\ i + (j - i) - 1 = j - 1
      BY <1>0, <1>a, <2>3
    <3>2. w[j] = q[j-i] BY <1>5, <2>1, <2>3
    <3>3. w[j] = list[j-1] BY <1>2, <3>1, <3>2
    <3>. QED BY <1>0, <1>a, <2>3, <3>3
  <2>. QED BY <2>2, <2>3
<1>7. Len(w) = n + 1
  BY <1>0, <1>5, <1>a
<1>. QED BY <1>4, <1>5, <1>6, <1>7 DEF n

\* The same as sets: the node is added, and nothing else.
LEMMA SpliceRange ==
  ASSUME NEW A, NEW list \in Seq(A), NEW x \in A, NEW i \in 1..(Len(list) + 1),
         NEW r \in Seq(A), Len(r) = Len(list) + 1,
         \A j \in 1..(Len(list) + 1) :
           r[j] = IF j < i THEN list[j] ELSE IF j = i THEN x ELSE list[j-1]
  PROVE  /\ Range(r) = Range(list) \cup {x}
         /\ (IsInjective(list) /\ x \notin Range(list)) => IsInjective(r)
<1>. DEFINE n == Len(list)
<1>0. n \in Nat /\ DOMAIN list = 1..n /\ DOMAIN r = 1..(n+1)
  BY LenProperties
<1>1. ASSUME NEW j \in 1..(n+1) PROVE r[j] \in Range(list) \cup {x}
  <2>1. j < i => j \in 1..n
    BY <1>0
  <2>2. ~(j < i) /\ j # i => j - 1 \in 1..n
    BY <1>0
  <2>. QED BY <1>0, <2>1, <2>2 DEF Range
<1>a. Range(r) \subseteq Range(list) \cup {x}
  BY <1>0, <1>1 DEF Range
<1>2. x \in Range(r)
  BY <1>0 DEF Range
<1>3. ASSUME NEW j \in 1..n PROVE list[j] \in Range(r)
  <2>1. CASE j < i
    BY <1>0, <2>1 DEF Range
  <2>2. CASE ~(j < i)
    <3>1. j + 1 \in 1..(n+1) /\ r[j+1] = list[j]
      BY <1>0, <2>2
    <3>. QED BY <1>0, <3>1 DEF Range
  <2>. QED BY <2>1, <2>2
<1>4. Range(list) \subseteq Range(r)
  BY <1>0, <1>3 DEF Range
<1>5. ASSUME IsInjective(list), x \notin Range(list)
      PROVE  IsInjective(r)
  <2>1. \A j, k \in 1..n : list[j] = list[k] => j = k
    BY <1>0, <1>5 DEF IsInjective
  <2>2. \A j \in 1..n : list[j] # x
    BY <1>0, <1>5 DEF Range
  <2>3. SUFFICES ASSUME NEW j \in 1..(n+1), NEW k \in 1..(n+1), r[j] = r[k]
                 PROVE  j = k
    BY <1>0 DEF IsInjective
  <2>4. CASE j = i \/ k = i
    BY <1>0, <2>2, <2>3, <2>4
  <2>5. CASE j # i /\ k # i
    <3>. DEFINE back(m) == IF m < i THEN m ELSE m - 1
    <3>1. back(j) \in 1..n /\ back(k) \in 1..n
      BY <1>0, <2>5
    <3>2. r[j] = list[back(j)] /\ r[k] = list[back(k)]
      BY <2>5
    <3>3. back(j) = back(k)
      BY <2>1, <2>3, <3>1, <3>2
    <3>. QED BY <1>0, <2>5, <3>3
  <2>. QED BY <2>4, <2>5
<1>. QED BY <1>2, <1>4, <1>5, <1>a

\* A walk that drops nodes leaves the others in their order: if a key did not
\* fall along the list, it does not fall along what is left.
LEMMA KeepMonotone ==
  ASSUME NEW A, NEW list \in Seq(A), NEW S, NEW key \in [A -> Int],
         \A i, j \in DOMAIN list : i < j => key[list[i]] <= key[list[j]]
  PROVE  \A i, j \in DOMAIN Keep(list, S) :
           i < j => key[Keep(list, S)[i]] <= key[Keep(list, S)[j]]
<1>. DEFINE n == Len(list)
<1>0. n \in Nat /\ DOMAIN list = 1..n /\ \A i \in 1..n : list[i] \in A
  BY LenProperties
<1>1. PICK F : /\ F = [i \in 0..n |-> KeepStep(F, list, S, i)]
               /\ Keep(list, S) = F[n]
  BY KeepFunction
<1>. DEFINE Below(s, i) == \A j \in 1..Len(s) : \E m \in 1..i : s[j] = list[m]
            Sorted(s) == \A j, k \in 1..Len(s) : j < k => key[s[j]] <= key[s[k]]
            Good(i) == F[i] \in Seq(A) /\ Below(F[i], i) /\ Sorted(F[i])
            Bad == {i \in 0..n : ~ Good(i)}
<1>b. \A i \in 0..n : i \in Bad <=> ~ Good(i)
  <2>. HIDE DEF Good
  <2>. QED OBVIOUS
<1>2. Bad = {}
  <2>1. SUFFICES ASSUME Bad # {} PROVE FALSE
    OBVIOUS
  <2>2. PICK b \in Bad : \A m \in Bad : b <= m
    <3>1. Bad \in SUBSET Nat BY <1>0
    <3>. HIDE DEF Bad
    <3>. QED BY <2>1, <3>1, LeastElement
  <2>3. b # 0
    <3>1. F[0] = << >> BY <1>0, <1>1 DEF KeepStep
    <3>2. Good(0) BY <3>1
    <3>. HIDE DEF Good, Bad
    <3>. QED BY <1>0, <1>b, <3>2
  <2>4. b \in 1..n /\ b-1 \in 0..n
    BY <1>0, <2>3
  <2>5. Good(b-1)
    <3>1. b-1 \notin Bad
      <4>. HIDE DEF Bad
      <4>. QED BY <1>0, <2>2, <2>4
    <3>. HIDE DEF Good, Bad
    <3>. QED BY <1>b, <2>4, <3>1
  <2>6. F[b] = IF list[b] \in S THEN Append(F[b-1], list[b]) ELSE F[b-1]
    <3>1. \A i \in 0..n : F[i] = KeepStep(F, list, S, i) BY <1>1
    <3>2. b \in 0..n /\ b # 0 BY <2>4
    <3>. QED BY <3>1, <3>2 DEF KeepStep
  <2>7. Below(F[b-1], b)
    BY <2>4, <2>5
  <2>8. CASE list[b] \notin S
    <3>1. F[b] = F[b-1] BY <2>6, <2>8
    <3>2. Good(b)
      <4>. HIDE DEF Below, Sorted
      <4>. QED BY <2>5, <2>7, <3>1
    <3>. QED BY <3>2
  <2>9. CASE list[b] \in S
    <3>. DEFINE G == F[b-1]
    <3>1. F[b] = Append(G, list[b]) BY <2>6, <2>9
    <3>2. G \in Seq(A) BY <2>5
    <3>3. /\ F[b] \in Seq(A)
          /\ Len(G) \in Nat
          /\ Len(F[b]) = Len(G) + 1
          /\ \A j \in 1..Len(G) : F[b][j] = G[j]
          /\ F[b][Len(G)+1] = list[b]
      BY <1>0, <2>4, <3>1, <3>2
    <3>a. /\ \A j \in 1..Len(G) : \E m \in 1..(b-1) : G[j] = list[m]
          /\ \A j, k \in 1..Len(G) : j < k => key[G[j]] <= key[G[k]]
      BY <2>5
    <3>. HIDE DEF G
    <3>4. ASSUME NEW j \in 1..Len(F[b])
          PROVE  \E m \in 1..b : F[b][j] = list[m]
      <4>1. CASE j \in 1..Len(G)
        BY <2>4, <3>3, <3>a, <4>1
      <4>2. CASE j = Len(G) + 1
        BY <2>4, <3>3, <4>2
      <4>. QED BY <3>3, <4>1, <4>2
    <3>5. ASSUME NEW j \in 1..Len(G)
          PROVE  key[G[j]] <= key[list[b]]
      <4>1. PICK m \in 1..(b-1) : G[j] = list[m]
        BY <3>a
      <4>2. m \in DOMAIN list /\ b \in DOMAIN list /\ m < b
        BY <1>0, <2>4
      <4>. QED BY <4>1, <4>2
    <3>6. ASSUME NEW j \in 1..Len(F[b]), NEW k \in 1..Len(F[b]), j < k
          PROVE  key[F[b][j]] <= key[F[b][k]]
      <4>1. j \in 1..Len(G)
        BY <3>3, <3>6
      <4>2. CASE k \in 1..Len(G)
        BY <3>3, <3>6, <3>a, <4>1, <4>2
      <4>3. CASE k = Len(G) + 1
        BY <3>3, <3>5, <4>1, <4>3
      <4>. QED BY <3>3, <4>2, <4>3
    <3>7. Good(b)
      <4>1. Below(F[b], b) BY <3>4
      <4>2. Sorted(F[b]) BY <3>6
      <4>. HIDE DEF Below, Sorted
      <4>. QED BY <3>3, <4>1, <4>2
    <3>. QED BY <3>7
  <2>. QED BY <2>8, <2>9
<1>3. Good(n)
  <2>1. n \in 0..n BY <1>0
  <2>. HIDE DEF Good, Bad
  <2>. QED BY <1>b, <1>2, <2>1
<1>4. Sorted(F[n]) /\ DOMAIN F[n] = 1..Len(F[n])
  BY <1>3, LenProperties
<1>. QED BY <1>1, <1>4

\* Removing the node at position k of a list without repetition: the nodes
\* behind it move down by one.
LEMMA RemovePosition ==
  ASSUME NEW A, NEW list \in Seq(A), IsInjective(list), NEW k \in 1..Len(list)
  PROVE  /\ linked_list_remove(list, list[k]) \in Seq(A)
         /\ Len(linked_list_remove(list, list[k])) = Len(list) - 1
         /\ \A j \in 1..(Len(list) - 1) :
              linked_list_remove(list, list[k])[j] =
                IF j < k THEN list[j] ELSE list[j+1]
<1>. DEFINE n == Len(list)
            S == Range(list) \ {list[k]}
<1>0. n \in Nat /\ DOMAIN list = 1..n /\ \A i \in 1..n : list[i] \in A
  BY LenProperties
<1>1. linked_list_remove(list, list[k]) = Keep(list, S)
  BY <1>0 DEF linked_list_remove, Range
<1>2. \A i \in 1..n : list[i] \in S <=> i # k
  BY <1>0 DEF IsInjective, Range
<1>. HIDE DEF S
<1>3. PICK F : /\ F = [i \in 0..n |-> KeepStep(F, list, S, i)]
               /\ Keep(list, S) = F[n]
  BY KeepFunction
<1>. DEFINE Good(i) == /\ F[i] \in Seq(A)
                       /\ Len(F[i]) = IF i < k THEN i ELSE i - 1
                       /\ \A j \in 1..Len(F[i]) : F[i][j] = IF j < k THEN list[j] ELSE list[j+1]
            Bad == {i \in 0..n : ~ Good(i)}
<1>b. \A i \in 0..n : i \in Bad <=> ~ Good(i)
  <2>. HIDE DEF Good
  <2>. QED OBVIOUS
<1>4. Bad = {}
  <2>1. SUFFICES ASSUME Bad # {} PROVE FALSE
    OBVIOUS
  <2>2. PICK b \in Bad : \A m \in Bad : b <= m
    <3>1. Bad \in SUBSET Nat BY <1>0
    <3>. HIDE DEF Bad
    <3>. QED BY <2>1, <3>1, LeastElement
  <2>3. b # 0
    <3>1. F[0] = << >> BY <1>0, <1>3 DEF KeepStep
    <3>2. Good(0) BY <3>1
    <3>. HIDE DEF Good, Bad
    <3>. QED BY <1>0, <1>b, <3>2
  <2>4. b \in 1..n /\ b-1 \in 0..n
    BY <1>0, <2>3
  <2>5. Good(b-1)
    <3>1. b-1 \notin Bad
      <4>. HIDE DEF Bad
      <4>. QED BY <1>0, <2>2, <2>4
    <3>. HIDE DEF Good, Bad
    <3>. QED BY <1>b, <2>4, <3>1
  <2>6. F[b] = IF b # k THEN Append(F[b-1], list[b]) ELSE F[b-1]
    <3>1. \A i \in 0..n : F[i] = KeepStep(F, list, S, i) BY <1>3
    <3>2. b \in 0..n /\ b # 0 BY <2>4
    <3>. QED BY <1>2, <2>4, <3>1, <3>2 DEF KeepStep
  <2>7. CASE b = k
    <3>1. F[b] = F[b-1] BY <2>6, <2>7
    <3>2. Good(b) BY <2>4, <2>5, <2>7, <3>1
    <3>. QED BY <3>2
  <2>8. CASE b # k
    <3>. DEFINE G == F[b-1]
    <3>1. F[b] = Append(G, list[b]) BY <2>6, <2>8
    <3>2. /\ F[b] \in Seq(A)
          /\ Len(G) \in Nat
          /\ Len(F[b]) = Len(G) + 1
          /\ \A j \in 1..Len(G) : F[b][j] = G[j]
          /\ F[b][Len(G)+1] = list[b]
      BY SMTT(40), <1>0, <2>4, <2>5, <3>1
    <3>3. /\ Len(G) = IF b - 1 < k THEN b - 1 ELSE b - 2
          /\ \A j \in 1..Len(G) : G[j] = IF j < k THEN list[j] ELSE list[j+1]
      BY <2>5
    <3>. HIDE DEF G
    <3>4. Len(F[b]) = IF b < k THEN b ELSE b - 1
      BY <2>4, <2>8, <3>2, <3>3
    <3>5. ASSUME NEW j \in 1..Len(F[b])
          PROVE  F[b][j] = IF j < k THEN list[j] ELSE list[j+1]
      <4>1. CASE j \in 1..Len(G)
        BY <3>2, <3>3, <4>1
      <4>2. CASE j = Len(G) + 1
        BY <2>4, <2>8, <3>2, <3>3, <4>2
      <4>. QED BY <3>2, <4>1, <4>2
    <3>6. Good(b) BY <3>2, <3>4, <3>5
    <3>. QED BY <3>6
  <2>. QED BY <2>7, <2>8
<1>5. Good(n)
  <2>1. n \in 0..n BY <1>0
  <2>. HIDE DEF Good, Bad
  <2>. QED BY <1>b, <1>4, <2>1
<1>a. ~ (n < k)
  BY <1>0
<1>6. F[n] \in Seq(A) /\ Len(F[n]) = n - 1
  BY <1>5, <1>a
<1>7. \A j \in 1..(n - 1) : F[n][j] = IF j < k THEN list[j] ELSE list[j+1]
  BY <1>5, <1>6
<1>. QED BY <1>1, <1>3, <1>6, <1>7

\* The first node is removed by forgetting it.
LEMMA RemoveHead ==
  ASSUME NEW A, NEW list \in Seq(A), IsInjective(list), list # << >>
  PROVE  linked_list_remove(list, Head(list)) = Tail(list)
<1>1. Len(list) \in Nat \ {0} /\ Head(list) = list[1]
  BY EmptySeq
<1>2. 1 \in 1..Len(list)
  BY <1>1
<1>. DEFINE r == linked_list_remove(list, list[1])
<1>3. /\ r \in Seq(A) /\ Len(r) = Len(list) - 1
      /\ \A j \in 1..(Len(list) - 1) : r[j] = IF j < 1 THEN list[j] ELSE list[j+1]
  BY <1>2, RemovePosition
<1>4. /\ Tail(list) \in Seq(A) /\ Len(Tail(list)) = Len(list) - 1
      /\ \A j \in 1..(Len(list) - 1) : Tail(list)[j] = list[j+1]
  BY HeadTailProperties
<1>. HIDE DEF r
<1>5. \A j \in 1..Len(r) : r[j] = Tail(list)[j]
  BY <1>1, <1>3, <1>4
<1>6. r = Tail(list)
  BY <1>3, <1>4, <1>5, SeqEqual
<1>. QED BY <1>1, <1>6 DEF r

\* The elements of a list of As are As.
LEMMA RangeInSeq ==
  ASSUME NEW A, NEW list \in Seq(A)
  PROVE  Range(list) \subseteq A
BY DEF Range

\* What is left of a list that is cut behind one of its nodes was in it.
LEMMA CutProperties ==
  ASSUME NEW A, NEW list \in Seq(A), NEW node
  PROVE  /\ cut_behind(list, node) \in Seq(A)
         /\ Range(cut_behind(list, node)) \subseteq Range(list)
         /\ node \in Range(list) => node \in Range(cut_behind(list, node))
<1>0. Len(list) \in Nat /\ DOMAIN list = 1..Len(list)
  OBVIOUS
<1>1. CASE node \in Range(list)
  <2>. DEFINE k == CHOOSE j \in 1..Len(list) : list[j] = node
              s == SubSeq(list, 1, k)
  <2>1. k \in 1..Len(list) /\ list[k] = node
    BY <1>0, <1>1 DEF Range
  <2>2. cut_behind(list, node) = s
    BY <1>1 DEF cut_behind
  <2>. HIDE DEF k
  <2>3. /\ s \in Seq(A) /\ Len(s) = k
        /\ \A j \in 1..k : s[j] = list[j]
    BY <1>0, <2>1, SubSeqProperties
  <2>. HIDE DEF s
  <2>4. DOMAIN s = 1..k
    BY <2>3
  <2>5. Range(s) = {s[j] : j \in 1..k}
    BY <2>4 DEF Range
  <2>6. Range(list) = {list[j] : j \in 1..Len(list)}
    BY <1>0 DEF Range
  <2>7. \A j \in 1..k : j \in 1..Len(list)
    BY <1>0, <2>1
  <2>8. k \in 1..k
    BY <1>0, <2>1
  <2>. QED BY <2>1, <2>2, <2>3, <2>5, <2>6, <2>7, <2>8
<1>2. CASE node \notin Range(list)
  BY <1>2 DEF cut_behind
<1>. QED BY <1>1, <1>2

\* Inserting a node that may be linked already adds no other node.
LEMMA InsertAgainProperties ==
  ASSUME NEW A, NEW list \in Seq(A), NEW node \in A
  PROVE  /\ insert_again(list, node) \in Seq(A)
         /\ Range(insert_again(list, node)) \subseteq Range(list) \cup {node}
         /\ node \in Range(insert_again(list, node))
<1>. DEFINE at == {k \in 1..Len(list) : list[k] = node}
<1>0. Len(list) \in Nat /\ DOMAIN list = 1..Len(list)
  OBVIOUS
<1>1. /\ Append(list, node) \in Seq(A)
      /\ Range(Append(list, node)) = Range(list) \cup {node}
  BY InsertProperties DEF linked_list_insert
<1>2. at # {} => node \in Range(list)
  BY <1>0 DEF Range
<1>3. \/ insert_again(list, node) = Append(list, node)
      \/ at # {} /\ insert_again(list, node) = cut_behind(list, node)
      \/ at # {} /\ insert_again(list, node) = list
  BY DEF insert_again
<1>. HIDE DEF at
<1>4. CASE insert_again(list, node) = Append(list, node)
  BY <1>1, <1>4
<1>5. CASE at # {} /\ insert_again(list, node) = cut_behind(list, node)
  <2>1. node \in Range(list)
    BY <1>2, <1>5
  <2>2. /\ cut_behind(list, node) \in Seq(A)
        /\ Range(cut_behind(list, node)) \subseteq Range(list)
        /\ node \in Range(cut_behind(list, node))
    BY <2>1, CutProperties
  <2>. QED BY <1>5, <2>2
<1>6. CASE at # {} /\ insert_again(list, node) = list
  BY <1>2, <1>6
<1>. QED BY <1>3, <1>4, <1>5, <1>6
=============================================================================
