-------------------------- MODULE LinkedList_proofs --------------------------
(***************************************************************************)
(* The pointers of ds/linked_list.c form the sequences by which the other  *)
(* modules stand for its lists, for every set of nodes and of lists.       *)
(***************************************************************************)
EXTENDS LinkedList, Queues_proofs

\* The pointers h and t of a list, and those of its nodes, form sequence s.
Forms(h, t, nx, pv, s) ==
  /\ h = At(s, 1)
  /\ t = At(s, Len(s))
  /\ \A i \in DOMAIN s : nx[s[i]] = At(s, i + 1) /\ pv[s[i]] = At(s, i - 1)

\* A node is in one list at most, and once.
Apart(sq) ==
  /\ \A l \in Lists : IsInjective(sq[l])
  /\ \A l, m \in Lists : l # m => Range(sq[l]) \cap Range(sq[m]) = {}

IInv == TypeOK /\ Represents /\ Apart(seq)

-----------------------------------------------------------------------------
(* One list.                                                               *)

\* Facts about a sequence and the pointers that form it.
LEMMA FormsFacts ==
  ASSUME NEW s \in Seq(Nodes), NEW h, NEW t, NEW nx, NEW pv, Forms(h, t, nx, pv, s)
  PROVE  /\ Len(s) \in Nat /\ DOMAIN s = 1..Len(s)
         /\ \A i \in 1..Len(s) : /\ s[i] \in Nodes /\ s[i] \in Range(s)
                                 /\ s[i] # Null
         /\ \A i \in 1..Len(s) : nx[s[i]] = At(s, i + 1) /\ pv[s[i]] = At(s, i - 1)
         /\ Range(s) \subseteq Nodes
         /\ h = Null <=> Len(s) = 0
         /\ t \in Range(s) \cup {Null}
         /\ \A x \in Range(s) : nx[x] \in Range(s) \cup {Null} /\ pv[x] \in Range(s) \cup {Null}
<1>1. /\ Len(s) \in Nat /\ DOMAIN s = 1..Len(s)
      /\ \A i \in 1..Len(s) : s[i] \in Nodes /\ s[i] \in Range(s)
  BY LenProperties DEF Range
<1>2. Range(s) \subseteq Nodes
  BY <1>1 DEF Range
<1>3. \A i : At(s, i) \in Range(s) \cup {Null}
  BY <1>1 DEF At
<1>4. h = Null <=> Len(s) = 0
  <2>1. h = At(s, 1)
    BY DEF Forms
  <2>2. 1 \in DOMAIN s <=> Len(s) # 0
    BY <1>1
  <2>. QED BY <1>1, <2>1, <2>2, NullAssumption DEF At
<1>5. \A x \in Range(s) : \E i \in 1..Len(s) : x = s[i]
  BY <1>1 DEF Range
<1>6. t \in Range(s) \cup {Null}
  BY <1>3 DEF Forms
<1>7. \A i \in 1..Len(s) : nx[s[i]] = At(s, i + 1) /\ pv[s[i]] = At(s, i - 1)
  BY <1>1 DEF Forms
<1>8. \A x \in Range(s) : nx[x] \in Range(s) \cup {Null} /\ pv[x] \in Range(s) \cup {Null}
  <2>1. ASSUME NEW i \in 1..Len(s)
        PROVE  nx[s[i]] \in Range(s) \cup {Null} /\ pv[s[i]] \in Range(s) \cup {Null}
    <3>1. At(s, i + 1) \in Range(s) \cup {Null} /\ At(s, i - 1) \in Range(s) \cup {Null}
      BY <1>3
    <3>. QED BY <1>7, <3>1
  <2>. QED BY <1>5, <2>1
<1>9. \A i \in 1..Len(s) : s[i] # Null
  BY <1>1, NullAssumption
<1>. QED BY <1>1, <1>2, <1>4, <1>6, <1>7, <1>8, <1>9

\* Pointers of nodes outside a list do not matter to it.
LEMMA FormsFrame ==
  ASSUME NEW s, NEW h, NEW t, NEW nx, NEW pv, NEW nx2, NEW pv2,
         Forms(h, t, nx, pv, s),
         \A x \in Range(s) : nx2[x] = nx[x] /\ pv2[x] = pv[x]
  PROVE  Forms(h, t, nx2, pv2, s)
BY DEF Forms, Range

\* linked_list_insert at the end.
LEMMA InsertForms ==
  ASSUME NEW s \in Seq(Nodes), IsInjective(s), NEW h, NEW t, NEW nx, NEW pv,
         Forms(h, t, nx, pv, s),
         NEW n \in Nodes, n \notin Range(s),
         NEW nx2, NEW pv2,
         \A x \in Nodes : nx2[x] = IF x = n THEN Null
                                   ELSE IF x = t /\ h # Null THEN n ELSE nx[x],
         \A x \in Nodes : pv2[x] = IF x = n THEN IF h = Null THEN Null ELSE t ELSE pv[x]
  PROVE  Forms(IF h = Null THEN n ELSE h, n, nx2, pv2, linked_list_insert(s, n))
<1>. DEFINE k == Len(s)
            r == linked_list_insert(s, n)
<1>0. /\ k \in Nat /\ DOMAIN s = 1..k
      /\ \A i \in 1..k : s[i] \in Nodes /\ s[i] \in Range(s) /\ s[i] # Null
      /\ \A i \in 1..k : nx[s[i]] = At(s, i + 1) /\ pv[s[i]] = At(s, i - 1)
      /\ h = Null <=> k = 0
  BY FormsFacts
<1>1. /\ DOMAIN r = 1..(k+1) /\ Len(r) = k + 1 /\ r[k+1] = n
      /\ \A i \in 1..k : r[i] = s[i]
  BY <1>0 DEF linked_list_insert
<1>. HIDE DEF r
<1>2. h = At(s, 1) /\ t = At(s, k)
  BY DEF Forms
<1>3. \A i, j \in 1..k : s[i] = s[j] => i = j
  BY <1>0 DEF IsInjective
<1>4. k # 0 => t = s[k] /\ h = s[1] /\ k \in 1..k /\ 1 \in 1..k
  BY <1>0, <1>2 DEF At
<1>5. (IF h = Null THEN n ELSE h) = At(r, 1)
  <2>1. CASE k = 0
    BY <1>0, <1>1, <2>1 DEF At
  <2>2. CASE k # 0
    BY <1>0, <1>1, <1>4, <2>2 DEF At
  <2>. QED BY <2>1, <2>2
<1>6. n = At(r, Len(r))
  BY <1>0, <1>1 DEF At
<1>7. ASSUME NEW i \in 1..(k+1)
      PROVE  nx2[r[i]] = At(r, i + 1) /\ pv2[r[i]] = At(r, i - 1)
  <2>1. CASE i = k + 1
    <3>1. nx2[n] = Null /\ i + 1 \notin DOMAIN r
      BY <1>0, <1>1, <2>1
    <3>2. pv2[n] = IF h = Null THEN Null ELSE t
      OBVIOUS
    <3>3. i - 1 = k
      BY <1>0, <2>1
    <3>4. CASE k = 0
      <4>1. i - 1 \notin DOMAIN r
        BY <1>1, <3>3, <3>4
      <4>. QED BY <1>0, <1>1, <2>1, <3>1, <3>2, <3>4, <4>1 DEF At
    <3>5. CASE k # 0
      <4>1. i - 1 \in DOMAIN r /\ r[i-1] = t
        BY <1>0, <1>1, <1>4, <3>3, <3>5
      <4>. QED BY <1>0, <1>1, <2>1, <3>1, <3>2, <3>5, <4>1 DEF At
    <3>. QED BY <3>4, <3>5
  <2>2. CASE i = k /\ k # 0
    <3>1. r[i] = t /\ t \in Nodes /\ t # n /\ h # Null
      BY <1>0, <1>1, <1>4, <2>2
    <3>2. nx2[r[i]] = n /\ pv2[r[i]] = pv[s[i]]
      BY <1>4, <2>2, <3>1
    <3>3. At(r, i+1) = n
      BY <1>0, <1>1, <2>2 DEF At
    <3>4. At(r, i-1) = At(s, i-1)
      BY <1>0, <1>1, <2>2 DEF At
    <3>. QED BY <1>0, <2>2, <3>2, <3>3, <3>4
  <2>3. CASE i < k
    <3>1. i \in 1..k /\ i + 1 \in 1..k /\ k # 0
      BY <1>0, <2>3
    <3>2. r[i] = s[i] /\ s[i] \in Nodes /\ s[i] # n /\ s[i] # t
      BY <1>0, <1>1, <1>3, <1>4, <2>3, <3>1
    <3>3. nx2[r[i]] = nx[s[i]] /\ pv2[r[i]] = pv[s[i]]
      BY <3>2
    <3>4. At(r, i+1) = At(s, i+1)
      BY <1>0, <1>1, <3>1 DEF At
    <3>5. At(r, i-1) = At(s, i-1)
      <4>1. CASE i = 1
        <5>1. i-1 \notin 1..k /\ i-1 \notin 1..(k+1)
          BY <4>1
        <5>. QED BY <1>0, <1>1, <5>1 DEF At
      <4>2. CASE i # 1
        <5>1. i-1 \in 1..k /\ i-1 \in 1..(k+1)
          BY <1>0, <3>1, <4>2
        <5>. QED BY <1>0, <1>1, <5>1 DEF At
      <4>. QED BY <4>1, <4>2
    <3>6. nx[s[i]] = At(s, i + 1) /\ pv[s[i]] = At(s, i - 1)
      BY <1>0, <3>1
    <3>. QED BY <3>3, <3>4, <3>5, <3>6
  <2>4. i = k + 1 \/ (i = k /\ k # 0) \/ i < k
    <3>1. k \in Nat
      BY <1>0
    <3>2. i \in Nat /\ 1 <= i /\ i <= k + 1
      BY <3>1
    <3>. HIDE DEF k
    <3>. QED BY <3>1, <3>2
  <2>. QED BY <2>1, <2>2, <2>3, <2>4
<1>. QED BY <1>1, <1>5, <1>6, <1>7 DEF Forms, r

\* What linked_list_insert_before does to the sequence: n stands at the place of
\* before, which is i.
LEMMA InsertBeforeSequence ==
  ASSUME NEW s \in Seq(Nodes), IsInjective(s), NEW n \in Nodes, n \notin Range(s),
         NEW i \in 1..Len(s), NEW r, r = linked_list_insert_before(s, n, s[i])
  PROVE  /\ r \in Seq(Nodes)
         /\ Len(r) = Len(s) + 1
         /\ DOMAIN r = 1..(Len(s) + 1)
         /\ Range(r) = Range(s) \cup {n}
         /\ IsInjective(r)
         /\ \A j \in 1..(Len(s) + 1) :
              r[j] = IF j < i THEN s[j] ELSE IF j = i THEN n ELSE s[j-1]
<1>0. Len(s) \in Nat /\ DOMAIN s = 1..Len(s)
  BY LenProperties
<1>1. \A k \in 1..Len(s) : s[k] = s[i] <=> k = i
  BY <1>0 DEF IsInjective
<1>2. (CHOOSE k \in 1..Len(s) : s[k] = s[i]) = i
  BY <1>1
<1>3. r = Splice(s, n, CHOOSE k \in 1..Len(s) : s[k] = s[i])
  BY Zenon DEF linked_list_insert_before, Splice
<1>4. r = Splice(s, n, i)
  BY <1>2, <1>3
<1>5. i \in 1..(Len(s) + 1)
  BY <1>0
<1>6. /\ r \in Seq(Nodes)
      /\ Len(r) = Len(s) + 1
      /\ \A j \in 1..(Len(s) + 1) :
           r[j] = IF j < i THEN s[j] ELSE IF j = i THEN n ELSE s[j-1]
  BY <1>4, <1>5, SpliceProperties
<1>7. Range(r) = Range(s) \cup {n} /\ IsInjective(r)
  BY SMTT(40), <1>5, <1>6, SpliceRange
<1>. QED BY <1>6, <1>7, LenProperties

\* linked_list_insert_before.
LEMMA InsertBeforeForms ==
  ASSUME NEW s \in Seq(Nodes), IsInjective(s), NEW h, NEW t, NEW nx, NEW pv,
         Forms(h, t, nx, pv, s),
         NEW n \in Nodes, n \notin Range(s), NEW i \in 1..Len(s),
         NEW nx2, NEW pv2,
         \A x \in Nodes : nx2[x] = IF x = n THEN s[i]
                                   ELSE IF x = pv[s[i]] THEN n ELSE nx[x],
         \A x \in Nodes : pv2[x] = IF x = s[i] THEN n
                                   ELSE IF x = n THEN pv[s[i]] ELSE pv[x]
  PROVE  Forms(IF pv[s[i]] = Null THEN n ELSE h, t, nx2, pv2,
               linked_list_insert_before(s, n, s[i]))
<1>. DEFINE k == Len(s)
<1>a. /\ k \in Nat /\ DOMAIN s = 1..k
      /\ \A j \in 1..k : s[j] \in Nodes /\ s[j] \in Range(s) /\ s[j] # Null
  BY FormsFacts
<1>b. \A j \in 1..k : nx[s[j]] = At(s, j + 1) /\ pv[s[j]] = At(s, j - 1)
  BY <1>a DEF Forms
<1>0. /\ k \in Nat /\ DOMAIN s = 1..k
      /\ \A j \in 1..k : s[j] \in Nodes /\ s[j] \in Range(s) /\ s[j] # Null
      /\ \A j \in 1..k : nx[s[j]] = At(s, j + 1) /\ pv[s[j]] = At(s, j - 1)
  BY <1>a, <1>b
<1>k. k \in Nat /\ i \in Nat /\ 1 <= i /\ i <= k
  BY <1>0
<1>. DEFINE r == linked_list_insert_before(s, n, s[i])
<1>1. /\ Len(r) = k + 1
      /\ DOMAIN r = 1..(k+1)
      /\ \A j \in 1..(k+1) : r[j] = IF j < i THEN s[j] ELSE IF j = i THEN n ELSE s[j-1]
  BY InsertBeforeSequence
<1>. HIDE DEF r
<1>2. h = At(s, 1) /\ t = At(s, k)
  BY DEF Forms
<1>3. \A a, b \in 1..k : s[a] = s[b] => a = b
  BY <1>0 DEF IsInjective
<1>4. \A j \in 1..k : s[j] # n
  BY <1>0
<1>5. /\ i = 1 => pv[s[i]] = Null
      /\ i # 1 => i - 1 \in 1..k /\ pv[s[i]] = s[i-1] /\ pv[s[i]] # Null
  BY <1>0 DEF At
<1>6. (IF pv[s[i]] = Null THEN n ELSE h) = At(r, 1)
  <2>1. CASE i = 1
    BY <1>0, <1>1, <1>5, <2>1 DEF At
  <2>2. CASE i # 1
    <3>1. r[1] = s[1] /\ 1 \in DOMAIN r /\ 1 \in DOMAIN s
      BY <1>0, <1>1, <2>2
    <3>. QED BY <1>2, <1>5, <2>2, <3>1 DEF At
  <2>. QED BY <2>1, <2>2
<1>7. t = At(r, Len(r))
  <2>1. k \in 1..k /\ k+1 \in 1..(k+1) /\ ~(k+1 < i) /\ k+1 # i /\ (k+1)-1 = k
    BY <1>0
  <2>2. r[k+1] = s[k]
    BY <1>1, <2>1
  <2>. QED BY <1>0, <1>1, <1>2, <2>1, <2>2 DEF At
<1>8. ASSUME NEW j \in 1..(k+1)
      PROVE  nx2[r[j]] = At(r, j + 1) /\ pv2[r[j]] = At(r, j - 1)
  <2>1. CASE j < i
    <3>1. j \in 1..k /\ j + 1 \in 1..(k+1) /\ j+1 \in 1..k
      BY <1>0, <2>1
    <3>2. r[j] = s[j] /\ s[j] \in Nodes /\ s[j] # n /\ s[j] # s[i]
      BY <1>0, <1>1, <1>3, <1>4, <2>1, <3>1
    <3>3. pv2[r[j]] = At(r, j-1)
      <4>1. pv2[r[j]] = At(s, j-1)
        BY <1>0, <3>1, <3>2
      <4>2. CASE j = 1
        BY <1>0, <1>1, <4>1, <4>2 DEF At
      <4>3. CASE j # 1
        <5>1. j - 1 \in 1..k /\ j - 1 \in 1..(k+1) /\ j - 1 < i
          BY <1>0, <2>1, <3>1, <4>3
        <5>. QED BY <1>0, <1>1, <4>1, <5>1 DEF At
      <4>. QED BY <4>2, <4>3
    <3>4. nx2[r[j]] = At(r, j+1)
      <4>1. CASE j + 1 = i
        <5>1. i # 1 /\ i - 1 = j
          BY <1>0, <3>1, <4>1
        <5>2. s[j] = pv[s[i]]
          BY <1>5, <5>1
        <5>3. nx2[s[j]] = n
          BY <3>2, <5>2
        <5>4. At(r, j+1) = n
          BY <1>1, <3>1, <4>1 DEF At
        <5>. QED BY <3>2, <5>3, <5>4
      <4>2. CASE j + 1 # i
        <5>1. s[j] # pv[s[i]]
          <6>1. CASE i = 1
            BY <1>0, <1>5, <3>1, <6>1
          <6>2. CASE i # 1
            <7>1. j # i - 1
              BY <1>0, <3>1, <4>2
            <7>. QED BY <1>3, <1>5, <3>1, <6>2, <7>1
          <6>. QED BY <6>1, <6>2
        <5>2. nx2[s[j]] = At(s, j+1)
          BY <1>0, <3>1, <3>2, <5>1
        <5>3. j + 1 < i
          BY <1>0, <2>1, <3>1, <4>2
        <5>4. At(r, j+1) = At(s, j+1)
          BY <1>0, <1>1, <3>1, <5>3 DEF At
        <5>. QED BY <3>2, <5>2, <5>4
      <4>. QED BY <4>1, <4>2
    <3>. QED BY <3>3, <3>4
  <2>2. CASE j = i
    <3>1. r[j] = n /\ n # s[i]
      BY <1>0, <1>1, <1>4, <2>2
    <3>2. nx2[n] = s[i] /\ pv2[n] = pv[s[i]]
      BY <3>1
    <3>3. At(r, j+1) = s[i]
      <4>1. j+1 \in 1..(k+1) /\ ~(j+1 < i) /\ j+1 # i /\ (j+1)-1 = i
        BY <1>0, <2>2
      <4>. QED BY <1>1, <4>1 DEF At
    <3>4. At(r, j-1) = pv[s[i]]
      <4>1. CASE i = 1
        <5>1. j - 1 \notin 1..(k+1)
          BY <1>0, <2>2, <4>1
        <5>. QED BY <1>1, <1>5, <4>1, <5>1 DEF At
      <4>2. CASE i # 1
        <5>1. j - 1 \in 1..(k+1) /\ j - 1 < i /\ j - 1 = i - 1
          BY <1>0, <1>5, <2>2, <4>2
        <5>. QED BY <1>1, <1>5, <4>2, <5>1 DEF At
      <4>. QED BY <4>1, <4>2
    <3>. QED BY <3>1, <3>2, <3>3, <3>4
  <2>3. CASE j > i
    <3>1. j - 1 \in 1..k /\ ~(j < i) /\ j # i /\ j-1 >= i
      BY <1>0, <2>3
    <3>2. r[j] = s[j-1] /\ s[j-1] \in Nodes /\ s[j-1] # n
      BY <1>0, <1>1, <1>4, <3>1
    <3>3. nx2[r[j]] = At(r, j+1)
      <4>1. s[j-1] # pv[s[i]]
        <5>1. CASE i = 1
          BY <1>0, <1>5, <3>1, <5>1
        <5>2. CASE i # 1
          <6>1. j - 1 # i - 1
            BY <1>0, <2>3, <3>1
          <6>. QED BY <1>3, <1>5, <3>1, <5>2, <6>1
        <5>. QED BY <5>1, <5>2
      <4>2. nx2[s[j-1]] = At(s, (j-1)+1)
        BY <1>0, <3>1, <3>2, <4>1
      <4>3. (j-1)+1 = j
        BY <1>0
      <4>4. At(r, j+1) = At(s, j)
        <5>1. CASE j = k + 1
          <6>1. j \notin 1..k /\ j+1 \notin 1..(k+1)
            BY <1>0, <5>1
          <6>. QED BY <1>0, <1>1, <6>1 DEF At
        <5>2. CASE j # k + 1
          <6>1. j \in 1..k /\ j+1 \in 1..(k+1) /\ ~(j+1 < i) /\ j+1 # i /\ (j+1)-1 = j
            BY <1>k, <2>3, <5>2
          <6>. QED BY <1>0, <1>1, <6>1 DEF At
        <5>. QED BY <5>1, <5>2
      <4>. QED BY <3>2, <4>2, <4>3, <4>4
    <3>4. pv2[r[j]] = At(r, j-1)
      <4>0. j - 1 \in 1..(k+1)
        BY <1>0, <3>1
      <4>1. CASE j - 1 = i
        <5>1. pv2[s[j-1]] = n
          BY <3>2, <4>1
        <5>2. At(r, j-1) = n
          BY <1>1, <4>0, <4>1 DEF At
        <5>. QED BY <3>2, <5>1, <5>2
      <4>2. CASE j - 1 # i
        <5>1. s[j-1] # s[i]
          BY <1>3, <3>1, <4>2
        <5>2. pv2[s[j-1]] = At(s, (j-1)-1)
          BY <1>0, <3>1, <3>2, <5>1
        <5>3. ~(j-1 < i) /\ (j-1)-1 \in 1..k
          BY <1>0, <3>1, <4>2
        <5>4. At(r, j-1) = s[(j-1)-1] /\ At(s, (j-1)-1) = s[(j-1)-1]
          BY <1>0, <1>1, <4>0, <4>2, <5>3 DEF At
        <5>. QED BY <3>2, <5>2, <5>4
      <4>. QED BY <4>1, <4>2
    <3>. QED BY <3>3, <3>4
  <2>. QED BY <1>0, <2>1, <2>2, <2>3
<1>. QED BY <1>1, <1>6, <1>7, <1>8 DEF Forms, r

\* linked_list_remove of a node of the list.
LEMMA RemoveForms ==
  ASSUME NEW s \in Seq(Nodes), IsInjective(s), NEW h, NEW t, NEW nx, NEW pv,
         Forms(h, t, nx, pv, s),
         NEW i \in 1..Len(s),
         NEW nx2, NEW pv2,
         \A x \in Nodes : nx2[x] = IF x = s[i] THEN Null
                                   ELSE IF x = pv[s[i]] THEN nx[s[i]] ELSE nx[x],
         \A x \in Nodes : pv2[x] = IF x = s[i] THEN Null
                                   ELSE IF x = nx[s[i]] THEN pv[s[i]] ELSE pv[x]
  PROVE  Forms(IF pv[s[i]] = Null THEN nx[s[i]] ELSE h,
               IF nx[s[i]] = Null THEN pv[s[i]] ELSE t, nx2, pv2,
               linked_list_remove(s, s[i]))
<1>. DEFINE k == Len(s)
<1>0. /\ k \in Nat /\ DOMAIN s = 1..k
      /\ \A j \in 1..k : s[j] \in Nodes /\ s[j] \in Range(s) /\ s[j] # Null
      /\ \A j \in 1..k : nx[s[j]] = At(s, j + 1) /\ pv[s[j]] = At(s, j - 1)
  BY FormsFacts
<1>k. k \in Nat /\ i \in Nat /\ 1 <= i /\ i <= k
  BY <1>0
<1>. DEFINE r == linked_list_remove(s, s[i])
<1>1. /\ Len(r) = k - 1
      /\ DOMAIN r = 1..(k-1)
      /\ \A j \in 1..(k-1) : r[j] = IF j < i THEN s[j] ELSE s[j+1]
  <2>1. r \in Seq(Nodes) /\ Len(r) = k - 1
        /\ \A j \in 1..(k-1) : r[j] = IF j < i THEN s[j] ELSE s[j+1]
    BY RemovePosition
  <2>. HIDE DEF r
  <2>. QED BY <2>1, LenProperties
<1>. HIDE DEF r
<1>2. h = At(s, 1) /\ t = At(s, k)
  BY DEF Forms
<1>3. \A a, b \in 1..k : s[a] = s[b] => a = b
  BY <1>0 DEF IsInjective
<1>4. /\ i = 1 => pv[s[i]] = Null
      /\ i # 1 => i - 1 \in 1..k /\ pv[s[i]] = s[i-1] /\ pv[s[i]] # Null
      /\ i = k => nx[s[i]] = Null
      /\ i # k => i + 1 \in 1..k /\ nx[s[i]] = s[i+1] /\ nx[s[i]] # Null
  BY <1>0 DEF At
<1>5. (IF pv[s[i]] = Null THEN nx[s[i]] ELSE h) = At(r, 1)
  <2>1. CASE i = 1 /\ i = k
    <3>1. 1 \notin DOMAIN r
      <4>1. k = 1
        BY <2>1
      <4>2. 1 \notin 1..(1-1)
        OBVIOUS
      <4>. QED BY <1>1, <4>1, <4>2
    <3>. QED BY <1>4, <2>1, <3>1 DEF At
  <2>2. CASE i = 1 /\ i # k
    <3>1. 1 \in 1..(k-1) /\ r[1] = s[1+1]
      BY <1>0, <1>1, <2>2
    <3>. QED BY <1>1, <1>4, <2>2, <3>1 DEF At
  <2>3. CASE i # 1
    <3>1. 1 \in 1..(k-1) /\ 1 \in 1..k /\ r[1] = s[1]
      BY <1>0, <1>1, <2>3
    <3>. QED BY <1>0, <1>1, <1>2, <1>4, <2>3, <3>1 DEF At
  <2>. QED BY <2>1, <2>2, <2>3
<1>6. (IF nx[s[i]] = Null THEN pv[s[i]] ELSE t) = At(r, Len(r))
  <2>1. CASE i = k /\ i = 1
    <3>1. Len(r) \notin DOMAIN r
      BY <1>1, <2>1
    <3>. QED BY <1>4, <2>1, <3>1 DEF At
  <2>2. CASE i = k /\ i # 1
    <3>1. k-1 \in 1..(k-1) /\ k-1 < i /\ r[k-1] = s[i-1]
      BY <1>0, <1>1, <2>2
    <3>. QED BY <1>1, <1>4, <2>2, <3>1 DEF At
  <2>3. CASE i # k
    <3>1. k-1 \in 1..(k-1) /\ ~(k-1 < i) /\ (k-1)+1 = k /\ k \in 1..k
      BY <1>k, <2>3
    <3>2. r[k-1] = s[k]
      BY <1>1, <3>1
    <3>. QED BY <1>0, <1>1, <1>2, <1>4, <2>3, <3>1, <3>2 DEF At
  <2>. QED BY <2>1, <2>2, <2>3
<1>7. ASSUME NEW j \in 1..(k-1)
      PROVE  nx2[r[j]] = At(r, j + 1) /\ pv2[r[j]] = At(r, j - 1)
  <2>1. CASE j < i
    <3>1. j \in 1..k /\ j # i /\ j+1 \in 1..k
      BY <1>0, <2>1
    <3>2. r[j] = s[j] /\ s[j] \in Nodes /\ s[j] # s[i]
      BY <1>0, <1>1, <1>3, <2>1, <3>1
    <3>3. pv2[r[j]] = At(r, j-1)
      <4>1. s[j] # nx[s[i]]
        <5>1. CASE i = k
          BY <1>0, <1>4, <3>1, <5>1
        <5>2. CASE i # k
          <6>1. j # i + 1
            BY <1>0, <2>1
          <6>. QED BY <1>3, <1>4, <3>1, <5>2, <6>1
        <5>. QED BY <5>1, <5>2
      <4>2. pv2[s[j]] = At(s, j-1)
        BY <1>0, <3>1, <3>2, <4>1
      <4>3. At(r, j-1) = At(s, j-1)
        <5>1. CASE j = 1
          <6>1. j-1 \notin 1..k /\ j-1 \notin 1..(k-1)
            BY <5>1
          <6>. QED BY <1>0, <1>1, <6>1 DEF At
        <5>2. CASE j # 1
          <6>1. j-1 \in 1..k /\ j-1 \in 1..(k-1) /\ j-1 < i
            BY <1>0, <2>1, <5>2
          <6>. QED BY <1>0, <1>1, <6>1 DEF At
        <5>. QED BY <5>1, <5>2
      <4>. QED BY <3>2, <4>2, <4>3
    <3>4. nx2[r[j]] = At(r, j+1)
      <4>1. CASE j + 1 = i
        <5>1. i # 1 /\ i - 1 = j
          BY <1>0, <4>1
        <5>2. s[j] = pv[s[i]]
          BY <1>4, <5>1
        <5>3. nx2[s[j]] = nx[s[i]]
          BY <3>2, <5>2
        <5>4. At(r, j+1) = nx[s[i]]
          <6>1. CASE i = k
            <7>1. j+1 \notin 1..(k-1)
              BY <1>0, <4>1, <6>1
            <7>. QED BY <1>1, <1>4, <6>1, <7>1 DEF At
          <6>2. CASE i # k
            <7>1. j+1 \in 1..(k-1) /\ ~(j+1 < i) /\ (j+1)+1 = i+1
              BY <1>k, <4>1, <6>2
            <7>. QED BY <1>1, <1>4, <6>2, <7>1 DEF At
          <6>. QED BY <6>1, <6>2
        <5>. QED BY <3>2, <5>3, <5>4
      <4>2. CASE j + 1 # i
        <5>1. s[j] # pv[s[i]]
          <6>1. CASE i = 1
            BY <1>0, <1>4, <3>1, <6>1
          <6>2. CASE i # 1
            <7>1. j # i - 1
              BY <1>0, <4>2
            <7>. QED BY <1>3, <1>4, <3>1, <6>2, <7>1
          <6>. QED BY <6>1, <6>2
        <5>2. nx2[s[j]] = At(s, j+1)
          BY <1>0, <3>1, <3>2, <5>1
        <5>3. j + 1 < i /\ j+1 \in 1..(k-1)
          BY <1>0, <2>1, <4>2
        <5>4. At(r, j+1) = At(s, j+1)
          BY <1>0, <1>1, <3>1, <5>3 DEF At
        <5>. QED BY <3>2, <5>2, <5>4
      <4>. QED BY <4>1, <4>2
    <3>. QED BY <3>3, <3>4
  <2>2. CASE ~(j < i)
    <3>1. j+1 \in 1..k /\ j+1 # i /\ j \in 1..k
      BY <1>0, <2>2
    <3>2. r[j] = s[j+1] /\ s[j+1] \in Nodes /\ s[j+1] # s[i]
      BY <1>0, <1>1, <1>3, <2>2, <3>1
    <3>3. nx2[r[j]] = At(r, j+1)
      <4>1. s[j+1] # pv[s[i]]
        <5>1. CASE i = 1
          BY <1>0, <1>4, <3>1, <5>1
        <5>2. CASE i # 1
          <6>1. j + 1 # i - 1
            BY <1>0, <2>2
          <6>. QED BY <1>3, <1>4, <3>1, <5>2, <6>1
        <5>. QED BY <5>1, <5>2
      <4>2. nx2[s[j+1]] = At(s, (j+1)+1)
        BY <1>0, <3>1, <3>2, <4>1
      <4>3. At(r, j+1) = At(s, (j+1)+1)
        <5>1. CASE j = k - 1
          <6>1. (j+1)+1 \notin 1..k /\ j+1 \notin 1..(k-1)
            BY <1>0, <5>1
          <6>. QED BY <1>0, <1>1, <6>1 DEF At
        <5>2. CASE j # k - 1
          <6>1. (j+1)+1 \in 1..k /\ j+1 \in 1..(k-1) /\ ~(j+1 < i)
            BY <1>k, <2>2, <5>2
          <6>. QED BY <1>0, <1>1, <6>1 DEF At
        <5>. QED BY <5>1, <5>2
      <4>. QED BY <3>2, <4>2, <4>3
    <3>4. pv2[r[j]] = At(r, j-1)
      <4>1. CASE j = i
        <5>1. i # k
          BY <1>k, <4>1
        <5>2. pv2[s[j+1]] = pv[s[i]]
          BY <1>4, <3>2, <4>1, <5>1
        <5>3. At(r, j-1) = pv[s[i]]
          <6>1. CASE i = 1
            <7>1. j-1 \notin 1..(k-1)
              BY <4>1, <6>1
            <7>. QED BY <1>1, <1>4, <6>1, <7>1 DEF At
          <6>2. CASE i # 1
            <7>1. j-1 \in 1..(k-1) /\ j-1 < i /\ j-1 = i-1
              BY <1>0, <4>1, <6>2
            <7>. QED BY <1>1, <1>4, <6>2, <7>1 DEF At
          <6>. QED BY <6>1, <6>2
        <5>. QED BY <3>2, <5>2, <5>3
      <4>2. CASE j # i
        <5>1. s[j+1] # nx[s[i]]
          <6>1. CASE i = k
            BY <1>0, <1>4, <3>1, <6>1
          <6>2. CASE i # k
            <7>1. j + 1 # i + 1
              BY <1>0, <4>2
            <7>. QED BY <1>3, <1>4, <3>1, <6>2, <7>1
          <6>. QED BY <6>1, <6>2
        <5>2. pv2[s[j+1]] = At(s, (j+1)-1)
          BY <1>0, <3>1, <3>2, <5>1
        <5>3. (j+1)-1 = j
          BY <1>0
        <5>4. j-1 \in 1..(k-1) /\ ~(j-1 < i) /\ (j-1)+1 = j
          BY <1>0, <2>2, <4>2
        <5>5. At(r, j-1) = s[j] /\ At(s, j) = s[j]
          BY <1>0, <1>1, <3>1, <5>4 DEF At
        <5>. QED BY <3>2, <5>2, <5>3, <5>5
      <4>. QED BY <4>1, <4>2
    <3>. QED BY <3>3, <3>4
  <2>. QED BY <2>1, <2>2
<1>. QED BY <1>1, <1>5, <1>6, <1>7 DEF Forms, r

-----------------------------------------------------------------------------
(* All lists.                                                              *)

\* What the invariant says of a list, and of the pair of two.
LEMMA ListFacts ==
  ASSUME IInv, NEW l \in Lists
  PROVE  /\ seq[l] \in Seq(Nodes)
         /\ IsInjective(seq[l])
         /\ Forms(head[l], tail[l], next, prev, seq[l])
         /\ Range(seq[l]) \subseteq Nodes
         /\ head[l] \in Pointers /\ tail[l] \in Pointers
         /\ tail[l] \in Range(seq[l]) \cup {Null}
         /\ \A m \in Lists : m # l => Range(seq[m]) \cap Range(seq[l]) = {}
<1>1. seq[l] \in Seq(Nodes) /\ Forms(head[l], tail[l], next, prev, seq[l])
  BY DEF IInv, TypeOK, Represents, Forms
<1>2. Range(seq[l]) \subseteq Nodes /\ tail[l] \in Range(seq[l]) \cup {Null}
  BY <1>1, FormsFacts
<1>. QED BY <1>1, <1>2 DEF IInv, TypeOK, Apart

\* A step that changes one list to sequence r over its own nodes and at most one
\* other, which is in no list, and the pointers of those nodes only.
LEMMA OneListStep ==
  ASSUME IInv, NEW l \in Lists, NEW n \in Nodes,
         \A m \in Lists : m # l => n \notin Range(seq[m]),
         NEW h \in Pointers, NEW t \in Pointers, NEW r \in Seq(Nodes),
         IsInjective(r), Range(r) \subseteq Range(seq[l]) \cup {n},
         head' = [head EXCEPT ![l] = h], tail' = [tail EXCEPT ![l] = t],
         seq' = [seq EXCEPT ![l] = r],
         next' \in [Nodes -> Pointers], prev' \in [Nodes -> Pointers],
         \A x \in Nodes : x \notin Range(seq[l]) \cup {n} =>
           next'[x] = next[x] /\ prev'[x] = prev[x],
         Forms(h, t, next', prev', r)
  PROVE  IInv'
<1>1. /\ head'[l] = h /\ tail'[l] = t /\ seq'[l] = r
      /\ \A m \in Lists : m # l => head'[m] = head[m] /\ tail'[m] = tail[m] /\ seq'[m] = seq[m]
      /\ head' \in [Lists -> Pointers] /\ tail' \in [Lists -> Pointers]
      /\ seq' \in [Lists -> Seq(Nodes)]
  BY DEF IInv, TypeOK
<1>2. TypeOK'
  BY <1>1 DEF TypeOK, Pointers
<1>3. ASSUME NEW m \in Lists
      PROVE  Forms(head'[m], tail'[m], next', prev', seq'[m])
  <2>1. CASE m = l
    BY <1>1, <2>1
  <2>2. CASE m # l
    <3>1. /\ Forms(head[m], tail[m], next, prev, seq[m]) /\ Range(seq[m]) \subseteq Nodes
          /\ Range(seq[m]) \cap Range(seq[l]) = {}
      BY <2>2, ListFacts
    <3>2. \A x \in Range(seq[m]) : next'[x] = next[x] /\ prev'[x] = prev[x]
      BY <2>2, <3>1
    <3>3. Forms(head[m], tail[m], next', prev', seq[m])
      BY <3>1, <3>2, FormsFrame
    <3>. QED BY <1>1, <2>2, <3>3
  <2>. QED BY <2>1, <2>2
<1>4. Represents'
  BY <1>3 DEF Represents, Forms
<1>5. Apart(seq')
  <2>1. ASSUME NEW m \in Lists PROVE IsInjective(seq'[m])
    <3>1. CASE m = l
      BY <1>1, <3>1
    <3>2. CASE m # l
      BY <1>1, <3>2 DEF IInv, Apart
    <3>. QED BY <3>1, <3>2
  <2>2. ASSUME NEW a \in Lists, NEW b \in Lists, a # b
        PROVE  Range(seq'[a]) \cap Range(seq'[b]) = {}
    <3>1. Range(seq[a]) \cap Range(seq[b]) = {}
      BY <2>2 DEF IInv, Apart
    <3>2. CASE a = l
      BY <1>1, <2>2, <3>1, <3>2
    <3>3. CASE b = l
      BY <1>1, <2>2, <3>1, <3>3
    <3>4. CASE a # l /\ b # l
      BY <1>1, <3>1, <3>4
    <3>. QED BY <3>2, <3>3, <3>4
  <2>. QED BY <2>1, <2>2 DEF Apart
<1>. QED BY <1>2, <1>4, <1>5 DEF IInv

\* linked_list_insert.
LEMMA InsertStep ==
  ASSUME IInv, NEW l \in Lists, NEW n \in Nodes, Insert(l, n)
  PROVE  IInv'
<1>1. /\ seq[l] \in Seq(Nodes) /\ IsInjective(seq[l])
      /\ Forms(head[l], tail[l], next, prev, seq[l])
      /\ head[l] \in Pointers /\ tail[l] \in Pointers
      /\ tail[l] \in Range(seq[l]) \cup {Null}
  BY ListFacts
<1>2. \A m \in Lists : n \notin Range(seq[m])
  BY DEF Insert, Linked
<1>3. next \in [Nodes -> Pointers] /\ prev \in [Nodes -> Pointers]
  BY DEF IInv, TypeOK
<1>. DEFINE h == IF head[l] = Null THEN n ELSE head[l]
            r == linked_list_insert(seq[l], n)
<1>4. /\ next' = [x \in Nodes |->
           IF x = n THEN Null ELSE IF x = tail[l] /\ head[l] # Null THEN n ELSE next[x]]
      /\ prev' = [prev EXCEPT ![n] = IF head[l] = Null THEN Null ELSE tail[l]]
      /\ tail' = [tail EXCEPT ![l] = n]
      /\ head' = [head EXCEPT ![l] = h]
      /\ seq' = [seq EXCEPT ![l] = r]
  BY DEF Insert
<1>5. /\ \A x \in Nodes : next'[x] = IF x = n THEN Null
                                     ELSE IF x = tail[l] /\ head[l] # Null THEN n ELSE next[x]
      /\ \A x \in Nodes : prev'[x] = IF x = n THEN IF head[l] = Null THEN Null ELSE tail[l]
                                     ELSE prev[x]
      /\ next' \in [Nodes -> Pointers] /\ prev' \in [Nodes -> Pointers]
  BY <1>1, <1>3, <1>4 DEF Pointers
<1>6. Forms(h, n, next', prev', r)
  BY <1>1, <1>2, <1>5, InsertForms
<1>7. r \in Seq(Nodes) /\ Range(r) = Range(seq[l]) \cup {n} /\ IsInjective(r)
  BY <1>1, <1>2, InsertProperties
<1>8. h \in Pointers /\ n \in Pointers
  BY <1>1 DEF Pointers
<1>9. \A x \in Nodes : x \notin Range(seq[l]) \cup {n} =>
        next'[x] = next[x] /\ prev'[x] = prev[x]
  BY <1>1, <1>5, NullAssumption
<1>. HIDE DEF h, r
<1>. QED BY <1>2, <1>4, <1>5, <1>6, <1>7, <1>8, <1>9, OneListStep

\* linked_list_insert_before.
LEMMA InsertBeforeStep ==
  ASSUME IInv, NEW l \in Lists, NEW n \in Nodes, NEW before \in Nodes,
         InsertBefore(l, n, before)
  PROVE  IInv'
<1>1. /\ seq[l] \in Seq(Nodes) /\ IsInjective(seq[l])
      /\ Forms(head[l], tail[l], next, prev, seq[l])
      /\ head[l] \in Pointers /\ tail[l] \in Pointers
  BY ListFacts
<1>2. \A m \in Lists : n \notin Range(seq[m])
  BY DEF InsertBefore, Linked
<1>3. next \in [Nodes -> Pointers] /\ prev \in [Nodes -> Pointers]
  BY DEF IInv, TypeOK
<1>a. PICK i \in 1..Len(seq[l]) : before = seq[l][i]
  BY <1>1, LenProperties DEF InsertBefore, Range
<1>. DEFINE h == IF prev[before] = Null THEN n ELSE head[l]
            r == linked_list_insert_before(seq[l], n, before)
<1>4. /\ before \in Range(seq[l])
      /\ next' = [x \in Nodes |->
           IF x = n THEN before ELSE IF x = prev[before] THEN n ELSE next[x]]
      /\ prev' = [prev EXCEPT ![n] = prev[before], ![before] = n]
      /\ head' = [head EXCEPT ![l] = h]
      /\ seq' = [seq EXCEPT ![l] = r]
      /\ tail' = tail
  BY DEF InsertBefore
<1>b. tail' = [tail EXCEPT ![l] = tail[l]]
  BY <1>4 DEF IInv, TypeOK
<1>c. n # before /\ prev[before] \in Range(seq[l]) \cup {Null} /\ prev[before] \in Pointers
  <2>1. prev[before] \in Range(seq[l]) \cup {Null}
    BY <1>1, <1>4, FormsFacts
  <2>. QED BY <1>2, <1>3, <1>4, <2>1
<1>5. /\ \A x \in Nodes : next'[x] = IF x = n THEN before
                                     ELSE IF x = prev[before] THEN n ELSE next[x]
      /\ \A x \in Nodes : prev'[x] = IF x = before THEN n
                                     ELSE IF x = n THEN prev[before] ELSE prev[x]
      /\ next' \in [Nodes -> Pointers] /\ prev' \in [Nodes -> Pointers]
  BY <1>3, <1>4, <1>c DEF Pointers
<1>6. Forms(h, tail[l], next', prev', r)
  BY <1>1, <1>2, <1>5, <1>a, InsertBeforeForms
<1>7. r \in Seq(Nodes) /\ Range(r) = Range(seq[l]) \cup {n} /\ IsInjective(r)
  BY <1>1, <1>2, <1>a, InsertBeforeSequence
<1>8. h \in Pointers
  BY <1>1 DEF Pointers
<1>9. \A x \in Nodes : x \notin Range(seq[l]) \cup {n} =>
        next'[x] = next[x] /\ prev'[x] = prev[x]
  BY <1>4, <1>5, <1>c, NullAssumption
<1>. HIDE DEF h, r
<1>. QED BY <1>1, <1>2, <1>4, <1>5, <1>6, <1>7, <1>8, <1>9, <1>b, OneListStep

\* linked_list_remove.
LEMMA RemoveStep ==
  ASSUME IInv, NEW l \in Lists, NEW n \in Nodes, Remove(l, n)
  PROVE  IInv'
<1>1. /\ seq[l] \in Seq(Nodes) /\ IsInjective(seq[l])
      /\ Forms(head[l], tail[l], next, prev, seq[l])
      /\ head[l] \in Pointers /\ tail[l] \in Pointers
      /\ \A m \in Lists : m # l => Range(seq[m]) \cap Range(seq[l]) = {}
  BY ListFacts
<1>2. n \in Range(seq[l])
  BY DEF Remove
<1>3. next \in [Nodes -> Pointers] /\ prev \in [Nodes -> Pointers]
  BY DEF IInv, TypeOK
<1>a. PICK i \in 1..Len(seq[l]) : n = seq[l][i]
  BY <1>1, <1>2, LenProperties DEF Range
<1>. DEFINE h == IF prev[n] = Null THEN next[n] ELSE head[l]
            t == IF next[n] = Null THEN prev[n] ELSE tail[l]
            r == linked_list_remove(seq[l], n)
<1>4. /\ next' = [x \in Nodes |->
           IF x = n THEN Null ELSE IF x = prev[n] THEN next[n] ELSE next[x]]
      /\ prev' = [x \in Nodes |->
           IF x = n THEN Null ELSE IF x = next[n] THEN prev[n] ELSE prev[x]]
      /\ head' = [head EXCEPT ![l] = h]
      /\ tail' = [tail EXCEPT ![l] = t]
      /\ seq' = [seq EXCEPT ![l] = r]
  BY DEF Remove, Unlink
<1>c. prev[n] \in Range(seq[l]) \cup {Null} /\ next[n] \in Range(seq[l]) \cup {Null}
  BY <1>1, <1>2, FormsFacts
<1>5. /\ \A x \in Nodes : next'[x] = IF x = n THEN Null
                                     ELSE IF x = prev[n] THEN next[n] ELSE next[x]
      /\ \A x \in Nodes : prev'[x] = IF x = n THEN Null
                                     ELSE IF x = next[n] THEN prev[n] ELSE prev[x]
      /\ next' \in [Nodes -> Pointers] /\ prev' \in [Nodes -> Pointers]
  BY <1>3, <1>4 DEF Pointers
<1>6. Forms(h, t, next', prev', r)
  BY <1>1, <1>5, <1>a, RemoveForms
<1>7. r \in Seq(Nodes) /\ Range(r) = Range(seq[l]) \ {n} /\ IsInjective(r)
  BY <1>1, <1>2, RemoveProperties
<1>8. h \in Pointers /\ t \in Pointers
  BY <1>1, <1>3
<1>9. \A x \in Nodes : x \notin Range(seq[l]) \cup {n} =>
        next'[x] = next[x] /\ prev'[x] = prev[x]
  BY <1>5, <1>c, NullAssumption
<1>10. \A m \in Lists : m # l => n \notin Range(seq[m])
  BY <1>1, <1>2
<1>. HIDE DEF h, t, r
<1>. QED BY <1>4, <1>5, <1>6, <1>7, <1>8, <1>9, <1>10, OneListStep

\* linked_list_remove of a node that is in no list empties the list.
LEMMA RemoveAgainStep ==
  ASSUME IInv, NEW l \in Lists, NEW n \in Nodes, RemoveAgain(l, n)
  PROVE  IInv'
<1>1. \A m \in Lists : n \notin Range(seq[m])
  BY DEF RemoveAgain, Linked
<1>2. next[n] = Null /\ prev[n] = Null
  BY DEF RemoveAgain
<1>3. next \in [Nodes -> Pointers] /\ prev \in [Nodes -> Pointers]
  BY DEF IInv, TypeOK
<1>4. linked_list_remove(seq[l], n) = << >>
  BY <1>1 DEF linked_list_remove
<1>5. /\ next' = [x \in Nodes |->
           IF x = n THEN Null ELSE IF x = prev[n] THEN next[n] ELSE next[x]]
      /\ prev' = [x \in Nodes |->
           IF x = n THEN Null ELSE IF x = next[n] THEN prev[n] ELSE prev[x]]
      /\ head' = [head EXCEPT ![l] = Null]
      /\ tail' = [tail EXCEPT ![l] = Null]
      /\ seq' = [seq EXCEPT ![l] = << >>]
  BY <1>2, <1>4 DEF RemoveAgain, Unlink
<1>6. /\ next' \in [Nodes -> Pointers] /\ prev' \in [Nodes -> Pointers]
      /\ \A x \in Nodes : x # n => next'[x] = next[x] /\ prev'[x] = prev[x]
  BY <1>2, <1>3, <1>5, NullAssumption DEF Pointers
<1>7. Forms(Null, Null, next', prev', << >>)
  BY DEF Forms, At
<1>8. << >> \in Seq(Nodes) /\ IsInjective(<< >>) /\ Range(<< >>) = {} /\ Null \in Pointers
  BY DEF IsInjective, Range, Pointers
<1>. DEFINE r == << >>
<1>9. /\ r \in Seq(Nodes) /\ IsInjective(r) /\ Range(r) \subseteq Range(seq[l]) \cup {n}
      /\ Forms(Null, Null, next', prev', r) /\ seq' = [seq EXCEPT ![l] = r]
  BY <1>5, <1>7, <1>8
<1>10. \A x \in Nodes : x \notin Range(seq[l]) \cup {n} =>
         next'[x] = next[x] /\ prev'[x] = prev[x]
  BY <1>6
<1>. HIDE DEF r
<1>. QED BY <1>1, <1>5, <1>6, <1>8, <1>9, <1>10, OneListStep

\* Every reachable state satisfies the invariant.
THEOREM Invariance == Spec => []IInv
<1>1. Init => IInv
  <2>1. SUFFICES ASSUME Init PROVE IInv
    OBVIOUS
  <2>2. /\ << >> \in Seq(Nodes) /\ DOMAIN << >> = {} /\ Len(<< >>) = 0
        /\ \A l \in Lists : seq[l] = << >> /\ head[l] = Null /\ tail[l] = Null
    BY <2>1 DEF Init
  <2>3. TypeOK
    BY <2>1, <2>2 DEF Init, TypeOK, Pointers
  <2>4. Represents
    BY <2>2 DEF Represents, At
  <2>5. Apart(seq)
    BY <2>2 DEF Apart, IsInjective, Range
  <2>. QED BY <2>3, <2>4, <2>5 DEF IInv
<1>2. IInv /\ [Next]_vars => IInv'
  <2>1. SUFFICES ASSUME IInv, [Next]_vars PROVE IInv'
    OBVIOUS
  <2>2. CASE Next
    <3>1. PICK l \in Lists, n \in Nodes :
            \/ Insert(l, n)
            \/ \E before \in Nodes : InsertBefore(l, n, before)
            \/ Remove(l, n)
            \/ RemoveAgain(l, n)
      BY <2>2 DEF Next
    <3>. QED BY <2>1, <3>1, InsertStep, InsertBeforeStep, RemoveStep, RemoveAgainStep
  <2>3. CASE UNCHANGED vars
    BY <2>1, <2>3 DEF vars, IInv, TypeOK, Represents, Apart, At
  <2>. QED BY <2>1, <2>2, <2>3
<1>. QED BY <1>1, <1>2, PTL DEF Spec

\* The pointers form the sequences.
THEOREM PointersRepresent == Spec => []Represents
<1>1. IInv => Represents
  BY DEF IInv
<1>. QED BY <1>1, Invariance, PTL

=============================================================================
