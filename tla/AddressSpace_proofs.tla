------------------------- MODULE AddressSpace_proofs -------------------------
(***************************************************************************)
(* The memory of processes, for any number of tasks, any amount of memory, *)
(* any sizes of tables and programs and any requests to mmap: mappings     *)
(* stay apart, a page table holds nothing but what was mapped, and every   *)
(* page of memory has one owner.                                           *)
(***************************************************************************)
EXTENDS AddressSpace, Queues_proofs, FiniteSetTheorems

-----------------------------------------------------------------------------
(* Pages and tables.                                                       *)

\* The pages of the lower half, and the table each of them is in.
LEMMA PageTable ==
  /\ KernelBase \in Nat \ {0}
  /\ Pages = 0..(KernelBase - 1)
  /\ \A v \in Pages : v \div Entries \in 0..(Roots - 1)
  /\ 0 \in 0..(Roots - 1)
<1>1. Entries \in Nat \ {0} /\ Roots \in Nat \ {0}
  BY SizeAssumption
<1>2. Roots * Entries \in Nat /\ Roots * Entries >= 1
  BY <1>1
<1>3. KernelBase \in Nat \ {0} /\ Pages = 0..(KernelBase - 1)
  BY <1>2, LayoutAssumption DEF Pages
<1>4. ASSUME NEW v \in Pages PROVE v \div Entries \in 0..(Roots - 1)
  <2>1. v \in Nat /\ v < Roots * Entries
    BY <1>3, LayoutAssumption
  <2>2. v \div Entries \in Nat /\ (v \div Entries) * Entries <= v
    BY <1>1, <2>1
  <2>3. v \div Entries < Roots
    BY <1>1, <2>1, <2>2
  <2>. QED BY <1>1, <2>2, <2>3
<1>. QED BY <1>1, <1>3, <1>4

-----------------------------------------------------------------------------
(* Mappings.                                                               *)

\* The mappings of a task: each lies between the trampoline and the kernel,
\* and they are sorted and apart.
MappingsOK(mappings) ==
  /\ mappings \in Seq(Mappings)
  /\ \A i \in 1..Len(mappings) :
       /\ Trampoline < mappings[i].vaddr
       /\ mappings[i].size >= 1
       /\ MappingEnd(mappings[i]) <= KernelBase
  /\ \A i, j \in 1..Len(mappings) :
       i < j => MappingEnd(mappings[i]) <= mappings[j].vaddr

\* The numbers in a list of mappings.
LEMMA MappingNumbers ==
  ASSUME NEW mappings \in Seq(Mappings)
  PROVE  \A i \in 1..Len(mappings) :
           /\ mappings[i] \in Mappings
           /\ mappings[i].vaddr \in Nat /\ mappings[i].size \in Nat
           /\ MappingEnd(mappings[i]) = mappings[i].vaddr + mappings[i].size
           /\ MappingEnd(mappings[i]) \in Nat
<1>1. \A i \in 1..Len(mappings) : mappings[i] \in Mappings
  OBVIOUS
<1>2. ASSUME NEW mapping \in Mappings
      PROVE  mapping.vaddr \in Nat /\ mapping.size \in Nat
             /\ MappingEnd(mapping) \in Nat
  BY PageTable DEF Mappings, MappingEnd
<1>. QED BY <1>1, <1>2 DEF MappingEnd

\* What the recursive function of PlaceFrom is at i, given its values F
\* before i.
PlaceStep(F, mappings, first, size, i) ==
  IF i = 0 THEN [at |-> first, stop |-> FALSE]
  ELSE IF F[i-1].stop \/ MappingEnd(mappings[i]) <= F[i-1].at THEN F[i-1]
  ELSE IF mappings[i].vaddr >= F[i-1].at + size
       THEN [F[i-1] EXCEPT !.stop = TRUE]
  ELSE [F[i-1] EXCEPT !.at = MappingEnd(mappings[i])]

\* There is a function that satisfies the recursion of PlaceFrom.
LEMMA PlaceExists ==
  ASSUME NEW mappings, Len(mappings) \in Nat, NEW first, NEW size
  PROVE  \E F : F = [i \in 0..Len(mappings) |-> PlaceStep(F, mappings, first, size, i)]
<1>. DEFINE Ok(n) == \E F : F = [i \in 0..n |-> PlaceStep(F, mappings, first, size, i)]
            Bad == {n \in 0..Len(mappings) : ~ Ok(n)}
<1>1. SUFFICES ASSUME Bad # {} PROVE FALSE
  OBVIOUS
<1>2. PICK n \in Bad : \A m \in Bad : n <= m
  <2>1. Bad \in SUBSET Nat
    OBVIOUS
  <2>. HIDE DEF Bad
  <2>. QED BY <1>1, <2>1, LeastElement
<1>3. CASE n = 0
  <2>. DEFINE F == [i \in 0..0 |-> [at |-> first, stop |-> FALSE]]
  <2>1. F = [i \in 0..0 |-> PlaceStep(F, mappings, first, size, i)]
    BY DEF PlaceStep
  <2>. QED BY <1>2, <1>3, <2>1
<1>4. CASE n # 0
  <2>1. n \in 1..Len(mappings) /\ n-1 \in 0..Len(mappings) /\ ~(n-1 \in Bad)
    BY <1>2, <1>4
  <2>2. PICK G : G = [i \in 0..(n-1) |-> PlaceStep(G, mappings, first, size, i)]
    BY <2>1
  <2>. DEFINE F == [i \in 0..n |-> IF i = n THEN PlaceStep(G, mappings, first, size, n) ELSE G[i]]
  <2>3. \A i \in 0..(n-1) : F[i] = G[i]
    BY <2>1
  <2>4. \A i \in 0..n : F[i] = PlaceStep(F, mappings, first, size, i)
    <3>1. ASSUME NEW i \in 0..n
          PROVE  PlaceStep(F, mappings, first, size, i)
                   = PlaceStep(G, mappings, first, size, i)
      <4>1. CASE i = 0
        BY <4>1 DEF PlaceStep
      <4>2. CASE i # 0
        <5>1. F[i-1] = G[i-1]
          BY <2>1, <2>3, <4>2
        <5>. HIDE DEF F
        <5>. QED BY <4>2, <5>1 DEF PlaceStep
      <4>. QED BY <4>1, <4>2
    <3>2. ASSUME NEW i \in 0..n PROVE F[i] = PlaceStep(G, mappings, first, size, i)
      <4>1. \A j \in 0..(n-1) : G[j] = PlaceStep(G, mappings, first, size, j)
        BY <2>2
      <4>2. i = n \/ i \in 0..(n-1)
        BY <2>1
      <4>. QED BY <4>1, <4>2
    <3>. QED BY <3>1, <3>2
  <2>5. F = [i \in 0..n |-> PlaceStep(F, mappings, first, size, i)]
    BY <2>4
  <2>. HIDE DEF F
  <2>. QED BY <1>2, <2>5
<1>. QED BY <1>3, <1>4

\* PlaceFrom gives a place after first that no mapping is in the way of, or
\* none; and first itself where all mappings end before it.
LEMMA PlaceProperties ==
  ASSUME NEW mappings, MappingsOK(mappings),
         NEW first \in Nat, NEW size \in Nat, size >= 1
  PROVE  LET v == PlaceFrom(mappings, first, size)
         IN  /\ \/ v = -1
                \/ /\ v \in Nat /\ v >= first /\ v + size <= KernelBase
                   /\ \A i \in 1..Len(mappings) :
                        MappingEnd(mappings[i]) <= v \/ v + size <= mappings[i].vaddr
             /\ (first + size <= KernelBase
                   /\ \A i \in 1..Len(mappings) : MappingEnd(mappings[i]) <= first)
                  => v = first
<1>. DEFINE n == Len(mappings)
            F == CHOOSE F : F = [i \in 0..Len(mappings) |-> PlaceStep(F, mappings, first, size, i)]
            End(i) == MappingEnd(mappings[i])
            Start(i) == mappings[i].vaddr
            Before(i) == \A j \in 1..i : End(j) <= first
<1>0. /\ n \in Nat
      /\ \A i \in 1..n : Start(i) \in Nat /\ End(i) \in Nat /\ Start(i) < End(i)
      /\ \A i, j \in 1..n : i < j => End(i) <= Start(j)
      /\ KernelBase \in Nat
  BY MappingNumbers, PageTable DEF MappingsOK
<1>1. F = [i \in 0..Len(mappings) |-> PlaceStep(F, mappings, first, size, i)]
  <2>1. Len(mappings) \in Nat
    BY DEF MappingsOK
  <2>2. \E G : G = [i \in 0..Len(mappings) |-> PlaceStep(G, mappings, first, size, i)]
    BY <2>1, PlaceExists
  <2>. QED BY <2>2
<1>2. PlaceFrom(mappings, first, size) =
        IF size > KernelBase \/ F[n].at > KernelBase - size THEN -1 ELSE F[n].at
  BY Zenon DEF PlaceFrom, PlaceStep
<1>. HIDE DEF F
<1>3. /\ F[0] = [at |-> first, stop |-> FALSE]
      /\ \A i \in 1..n :
           F[i] = IF F[i-1].stop \/ End(i) <= F[i-1].at THEN F[i-1]
                  ELSE IF Start(i) >= F[i-1].at + size
                       THEN [F[i-1] EXCEPT !.stop = TRUE]
                  ELSE [F[i-1] EXCEPT !.at = End(i)]
  <2>1. \A i \in 0..n : F[i] = PlaceStep(F, mappings, first, size, i)
    BY <1>1
  <2>2. F[0] = PlaceStep(F, mappings, first, size, 0)
    BY <1>0, <2>1
  <2>3. ASSUME NEW i \in 1..n
        PROVE  F[i] = PlaceStep(F, mappings, first, size, i) /\ i # 0
    BY <1>0, <2>1
  <2>. QED BY <2>2, <2>3 DEF PlaceStep
<1>. HIDE DEF End, Start, n
<1>. DEFINE Clear(i) == \A j \in 1..i : End(j) <= F[i].at \/ F[i].at + size <= Start(j)
            Good(i) == /\ F[i] \in [at : Nat, stop : BOOLEAN]
                       /\ F[i].at >= first
                       /\ Clear(i)
                       /\ F[i].stop => \E j \in 1..i : F[i].at + size <= Start(j)
                       /\ Before(i) => F[i].at = first
            Bad == {i \in 0..n : ~ Good(i)}
<1>4. Good(0)
  BY <1>3
<1>5. ASSUME NEW i \in 1..n, Good(i - 1) PROVE Good(i)
  <2>0. /\ i \in Nat /\ i >= 1 /\ i <= n
        /\ F[i-1] \in [at : Nat, stop : BOOLEAN] /\ F[i-1].at >= first
        /\ F[i-1].at \in Nat
        /\ Start(i) \in Nat /\ End(i) \in Nat /\ Start(i) < End(i)
    BY <1>0, <1>5
  <2>1. ASSUME NEW j \in 1..i
        PROVE  (j \in 1..(i - 1) /\ End(j) <= Start(i) /\ j \in 1..n
                /\ Start(j) \in Nat /\ End(j) \in Nat) \/ j = i
    <3>1. j = i \/ (j \in 1..(i - 1) /\ j \in 1..n /\ j < i)
      BY <1>0, <2>0
    <3>. QED BY <1>0, <3>1
  <2>2. CASE F[i-1].stop
    <3>1. F[i] = F[i-1]
      BY <1>3, <2>2
    <3>2. PICK j \in 1..(i - 1) : F[i-1].at + size <= Start(j)
      BY <1>5, <2>2
    <3>3. j \in 1..i /\ Start(j) < End(j) /\ End(j) <= Start(i)
          /\ Start(j) \in Nat /\ End(j) \in Nat
      <4>1. j \in 1..n /\ j < i
        BY <1>0, <2>0
      <4>. QED BY <1>0, <2>0, <4>1
    <3>4. F[i].at + size <= Start(i)
      BY <2>0, <3>1, <3>2, <3>3
    <3>5. Clear(i)
      BY <1>5, <2>1, <3>1, <3>4
    <3>6. Before(i) => Before(i - 1)
      BY <2>0
    <3>. QED BY <1>5, <2>2, <3>1, <3>2, <3>3, <3>5, <3>6
  <2>3. CASE ~ F[i-1].stop /\ End(i) <= F[i-1].at
    <3>1. F[i] = F[i-1]
      BY <1>3, <2>3
    <3>2. Clear(i)
      BY <1>5, <2>1, <2>3, <3>1
    <3>3. Before(i) => Before(i - 1)
      BY <2>0
    <3>. QED BY <1>5, <2>3, <3>1, <3>2, <3>3
  <2>4. CASE ~ F[i-1].stop /\ ~ (End(i) <= F[i-1].at) /\ Start(i) >= F[i-1].at + size
    <3>1. F[i] = [F[i-1] EXCEPT !.stop = TRUE]
      BY <1>3, <2>4
    <3>2. F[i].at = F[i-1].at /\ F[i] \in [at : Nat, stop : BOOLEAN]
      BY <2>0, <3>1
    <3>3. F[i].at + size <= Start(i) /\ i \in 1..i
      BY <2>0, <2>4, <3>2
    <3>4. Clear(i)
      BY <1>5, <2>1, <3>2, <3>3
    <3>5. ~ Before(i)
      <4>1. End(i) > first
        BY <2>0, <2>4
      <4>. QED BY <2>0, <3>3, <4>1
    <3>. QED BY <2>0, <3>2, <3>3, <3>4, <3>5
  <2>5. CASE ~ F[i-1].stop /\ ~ (End(i) <= F[i-1].at) /\ ~ (Start(i) >= F[i-1].at + size)
    <3>1. F[i] = [F[i-1] EXCEPT !.at = End(i)]
      BY <1>3, <2>5
    <3>2. F[i].at = End(i) /\ F[i] \in [at : Nat, stop : BOOLEAN] /\ ~ F[i].stop
      BY <2>0, <2>5, <3>1
    <3>3. End(i) >= first /\ i \in 1..i
      BY <2>0, <2>5
    <3>4. Clear(i)
      BY <2>0, <2>1, <3>2
    <3>5. ~ Before(i)
      <4>1. End(i) > first
        BY <2>0, <2>5
      <4>. QED BY <2>0, <3>3, <4>1
    <3>. QED BY <2>0, <3>2, <3>3, <3>4, <3>5
  <2>. QED BY <2>2, <2>3, <2>4, <2>5
<1>6. Bad = {}
  <2>1. SUFFICES ASSUME Bad # {} PROVE FALSE
    OBVIOUS
  <2>2. PICK k \in Bad : \A m \in Bad : k <= m
    <3>1. Bad \in SUBSET Nat
      BY <1>0
    <3>. HIDE DEF Bad
    <3>. QED BY <2>1, <3>1, LeastElement
  <2>. HIDE DEF Good
  <2>3. k \in 1..n /\ k - 1 \in 0..n /\ k - 1 \notin Bad
    BY <1>0, <1>4, <2>2
  <2>4. Good(k - 1)
    BY <2>3
  <2>5. Good(k)
    BY <1>5, <2>3, <2>4
  <2>. QED BY <2>2, <2>5
<1>7. Good(n)
  <2>. HIDE DEF Good
  <2>. QED BY <1>0, <1>6
<1>8. F[n].at \in Nat /\ F[n].at >= first
  BY <1>7
<1>9. CASE size > KernelBase \/ F[n].at > KernelBase - size
  <2>1. PlaceFrom(mappings, first, size) = -1
    BY <1>2, <1>9
  <2>2. ~ (first + size <= KernelBase /\ Before(n))
    BY <1>0, <1>7, <1>8, <1>9
  <2>. QED BY <2>1, <2>2 DEF n, End
<1>10. CASE ~ (size > KernelBase \/ F[n].at > KernelBase - size)
  <2>1. PlaceFrom(mappings, first, size) = F[n].at
    BY <1>2, <1>10
  <2>2. F[n].at + size <= KernelBase
    BY <1>0, <1>8, <1>10
  <2>. QED BY <1>7, <1>8, <2>1, <2>2 DEF n, End, Start
<1>. QED BY <1>9, <1>10

\* The place of a new mapping: past the trampoline, below the kernel and in
\* nobody's way; the one asked for where that is behind all mappings.
LEMMA PlaceFound ==
  ASSUME NEW mappings, MappingsOK(mappings),
         NEW vaddr \in Nat, NEW size \in Nat, size >= 1
  PROVE  LET v == _get_mapping_vaddr(mappings, vaddr, size)
         IN  /\ \/ v = -1
                \/ /\ v \in Nat /\ Trampoline < v /\ v + size <= KernelBase
                   /\ \A i \in 1..Len(mappings) :
                        MappingEnd(mappings[i]) <= v \/ v + size <= mappings[i].vaddr
             /\ (Trampoline < vaddr /\ vaddr + size <= KernelBase
                   /\ \A i \in 1..Len(mappings) : MappingEnd(mappings[i]) <= vaddr)
                  => v = vaddr
<1>. DEFINE asked == IF vaddr = 0 THEN Code ELSE vaddr
            first == IF asked < Trampoline + 1 /\ asked + size > Trampoline
                     THEN Trampoline + 1 ELSE asked
<1>1. /\ Trampoline \in Nat /\ Trampoline <= 1 /\ Code \in Nat /\ Trampoline + 1 <= Code
  BY TrampolineAssumption, SizeAssumption, LayoutAssumption
<1>2. asked \in Nat /\ first \in Nat /\ Trampoline < first
      /\ (Trampoline < vaddr => first = vaddr)
  BY <1>1
<1>3. _get_mapping_vaddr(mappings, vaddr, size) = PlaceFrom(mappings, first, size)
  BY DEF _get_mapping_vaddr
<1>. HIDE DEF asked, first
<1>. DEFINE v == PlaceFrom(mappings, first, size)
<1>4. /\ \/ v = -1
         \/ /\ v \in Nat /\ v >= first /\ v + size <= KernelBase
            /\ \A i \in 1..Len(mappings) :
                 MappingEnd(mappings[i]) <= v \/ v + size <= mappings[i].vaddr
      /\ (first + size <= KernelBase
            /\ \A i \in 1..Len(mappings) : MappingEnd(mappings[i]) <= first)
           => v = first
  BY <1>2, PlaceProperties
<1>. HIDE DEF v
<1>5. v = -1 \/ (v \in Nat /\ Trampoline < v)
  BY <1>1, <1>2, <1>4
<1>6. (Trampoline < vaddr /\ vaddr + size <= KernelBase
         /\ \A i \in 1..Len(mappings) : MappingEnd(mappings[i]) <= vaddr) => v = vaddr
  BY <1>2, <1>4
<1>. QED BY <1>3, <1>4, <1>5, <1>6 DEF v

\* A mapping that is in nobody's way.
Fits(mappings, mapping) ==
  /\ mapping \in Mappings
  /\ Trampoline < mapping.vaddr
  /\ mapping.size >= 1
  /\ MappingEnd(mapping) <= KernelBase
  /\ \A i \in 1..Len(mappings) :
       \/ MappingEnd(mappings[i]) <= mapping.vaddr
       \/ MappingEnd(mapping) <= mappings[i].vaddr

\* Inserting such a mapping keeps the list in order; it becomes the last where
\* all others end before it.
LEMMA InsertMapping ==
  ASSUME NEW mappings, MappingsOK(mappings), NEW mapping, Fits(mappings, mapping)
  PROVE  LET r == _insert_mapping(mappings, mapping)
         IN  /\ MappingsOK(r)
             /\ Range(r) = Range(mappings) \cup {mapping}
             /\ Len(r) = Len(mappings) + 1
             /\ (\A i \in 1..Len(mappings) : MappingEnd(mappings[i]) <= mapping.vaddr)
                  => /\ r[Len(mappings) + 1] = mapping
                     /\ \A i \in 1..Len(mappings) : r[i] = mappings[i]
<1>. DEFINE n == Len(mappings)
            later == {i \in DOMAIN mappings : mappings[i].vaddr > mapping.vaddr}
            at == IF later = {} THEN n + 1
                  ELSE CHOOSE k \in later : \A j \in later : k <= j
            r == Splice(mappings, mapping, at)
            End(i) == MappingEnd(mappings[i])
            Start(i) == mappings[i].vaddr
<1>0. /\ n \in Nat /\ DOMAIN mappings = 1..n
      /\ mappings \in Seq(Mappings) /\ mapping \in Mappings
      /\ \A i \in 1..n : Start(i) \in Nat /\ End(i) \in Nat /\ Start(i) < End(i)
      /\ \A i, j \in 1..n : i < j => End(i) <= Start(j)
  BY SMTT(40), MappingNumbers DEF MappingsOK, Fits
<1>1. /\ mapping.vaddr \in Nat /\ MappingEnd(mapping) \in Nat
      /\ mapping.vaddr < MappingEnd(mapping)
  <2>1. mapping.vaddr \in Nat /\ mapping.size \in Nat /\ mapping.size >= 1
    BY PageTable DEF Fits, Mappings
  <2>. QED BY <2>1 DEF MappingEnd
<1>2. _insert_mapping(mappings, mapping) = r
  BY DEF _insert_mapping, Splice
<1>3. /\ at \in 1..(n + 1)
      /\ \A j \in 1..n : j < at => Start(j) <= mapping.vaddr
      /\ at <= n => mapping.vaddr < Start(at)
      /\ later = {} => at = n + 1
  <2>1. CASE later = {}
    <3>1. at = n + 1
      BY <2>1
    <3>2. \A j \in 1..n : ~ (Start(j) > mapping.vaddr)
      BY <1>0, <2>1
    <3>. QED BY <1>0, <1>1, <2>1, <3>1, <3>2
  <2>2. CASE later # {}
    <3>1. later \in SUBSET Nat
      BY <1>0
    <3>2. \E k \in later : \A j \in later : k <= j
      <4>. HIDE DEF later
      <4>. QED BY <2>2, <3>1, LeastElement
    <3>3. at \in later /\ \A j \in later : at <= j
      BY <2>2, <3>2
    <3>. HIDE DEF at
    <3>4. at \in 1..n /\ mapping.vaddr < Start(at)
      BY <1>0, <1>1, <3>3
    <3>5. ASSUME NEW j \in 1..n, j < at PROVE Start(j) <= mapping.vaddr
      <4>1. j \notin later
        BY <1>0, <3>3, <3>4, <3>5
      <4>2. ~ (Start(j) > mapping.vaddr)
        BY <1>0, <4>1
      <4>. QED BY <1>0, <1>1, <4>2
    <3>. QED BY <1>0, <2>2, <3>4, <3>5
  <2>. QED BY <2>1, <2>2
<1>4. (\A i \in 1..n : End(i) <= mapping.vaddr) => at = n + 1
  <2>. SUFFICES ASSUME \A i \in 1..n : End(i) <= mapping.vaddr PROVE at = n + 1
    OBVIOUS
  <2>1. ASSUME at <= n PROVE FALSE
    <3>1. at \in 1..n
      BY <1>0, <1>3, <2>1
    <3>. HIDE DEF at
    <3>. QED BY <1>0, <1>1, <1>3, <2>1, <3>1
  <2>. HIDE DEF at
  <2>. QED BY <1>0, <1>3, <2>1
<1>. HIDE DEF at, later
<1>5. /\ r \in Seq(Mappings) /\ Len(r) = n + 1
      /\ \A j \in 1..(n + 1) :
           r[j] = IF j < at THEN mappings[j] ELSE IF j = at THEN mapping
                  ELSE mappings[j-1]
  <2>1. at \in 1..(Len(mappings) + 1) /\ mappings \in Seq(Mappings)
        /\ mapping \in Mappings
    BY <1>0, <1>3
  <2>2. /\ Splice(mappings, mapping, at) \in Seq(Mappings)
        /\ Len(Splice(mappings, mapping, at)) = Len(mappings) + 1
        /\ \A j \in 1..(Len(mappings) + 1) :
             Splice(mappings, mapping, at)[j] =
               IF j < at THEN mappings[j] ELSE IF j = at THEN mapping
               ELSE mappings[j-1]
    BY <2>1, SpliceProperties
  <2>. QED BY <2>2
<1>. HIDE DEF r
<1>a. ASSUME NEW j \in 1..(n + 1)
      PROVE  r[j] = mapping \/ \E i \in 1..n : r[j] = mappings[i]
  <2>1. CASE j < at
    <3>1. j \in 1..n
      BY <1>0, <1>3, <2>1
    <3>. QED BY <1>5, <2>1, <3>1
  <2>2. CASE j = at
    BY <1>5, <2>2
  <2>3. CASE j > at
    <3>1. j - 1 \in 1..n
      BY <1>0, <1>3, <2>3
    <3>2. r[j] = mappings[j-1]
      BY <1>0, <1>3, <1>5, <2>3
    <3>. QED BY <3>1, <3>2
  <2>. QED BY <1>0, <1>3, <2>1, <2>2, <2>3
<1>6. Range(r) = Range(mappings) \cup {mapping}
  <2>1. DOMAIN r = 1..(n + 1)
    BY <1>5
  <2>2. r[at] = mapping
    BY <1>3, <1>5
  <2>3. ASSUME NEW i \in 1..n PROVE \E j \in 1..(n + 1) : r[j] = mappings[i]
    <3>1. CASE i < at
      BY <1>0, <1>5, <3>1
    <3>2. CASE i >= at
      <4>1. i + 1 \in 1..(n + 1) /\ ~ (i + 1 < at) /\ i + 1 # at /\ (i + 1) - 1 = i
        BY <1>0, <1>3, <3>2
      <4>2. r[i + 1] = mappings[(i + 1) - 1]
        BY <1>5, <4>1
      <4>. QED BY <4>1, <4>2
    <3>. QED BY <1>0, <1>3, <3>1, <3>2
  <2>4. Range(r) = {r[j] : j \in 1..(n + 1)}
        /\ Range(mappings) = {mappings[i] : i \in 1..n}
    BY <1>0, <2>1 DEF Range
  <2>5. at \in 1..(n + 1)
    BY <1>3
  <2>. HIDE DEF n
  <2>. QED BY <1>a, <2>2, <2>3, <2>4, <2>5
<1>7. ASSUME NEW i \in 1..n
      PROVE  /\ i < at => End(i) <= mapping.vaddr
             /\ i >= at => MappingEnd(mapping) <= Start(i)
  <2>1. End(i) <= mapping.vaddr \/ MappingEnd(mapping) <= Start(i)
    BY DEF Fits
  <2>2. i < at => Start(i) <= mapping.vaddr
    BY <1>3
  <2>3. i >= at => mapping.vaddr < Start(i)
    <3>1. CASE i = at
      BY <1>3, <3>1
    <3>2. CASE i > at
      <4>1. at \in 1..n /\ End(at) <= Start(i) /\ Start(at) < End(at)
            /\ Start(at) \in Nat /\ End(at) \in Nat /\ at <= n
        BY <1>0, <1>3, <3>2
      <4>. QED BY <1>0, <1>1, <1>3, <4>1
    <3>. QED BY <1>0, <1>3, <3>1, <3>2
  <2>4. Start(i) \in Nat /\ End(i) \in Nat /\ Start(i) < End(i)
    BY <1>0
  <2>. HIDE DEF End, Start
  <2>. QED BY <1>1, <2>1, <2>2, <2>3, <2>4
<1>8. \A j \in 1..(n + 1) :
        Trampoline < r[j].vaddr /\ r[j].size >= 1 /\ MappingEnd(r[j]) <= KernelBase
  BY <1>a DEF MappingsOK, Fits
<1>9. ASSUME NEW i \in 1..(n + 1), NEW j \in 1..(n + 1), i < j
      PROVE  MappingEnd(r[i]) <= r[j].vaddr
  <2>0. i \in Nat /\ j \in Nat /\ at \in Nat /\ 1 <= i /\ j <= n + 1 /\ at <= n + 1 /\ 1 <= at
    BY <1>0, <1>3
  <2>1. CASE j < at
    <3>1. i \in 1..n /\ j \in 1..n /\ r[i] = mappings[i] /\ r[j] = mappings[j]
      BY <1>0, <1>5, <1>9, <2>0, <2>1
    <3>. QED BY <1>0, <1>9, <3>1
  <2>2. CASE j = at
    <3>1. i \in 1..n /\ r[i] = mappings[i] /\ r[j] = mapping /\ i < at
      BY <1>0, <1>5, <1>9, <2>0, <2>2
    <3>. QED BY <1>7, <3>1
  <2>3. CASE j > at
    <3>1. j - 1 \in 1..n /\ r[j] = mappings[j-1] /\ j - 1 >= at
      BY <1>0, <1>5, <2>0, <2>3
    <3>2. CASE i < at
      <4>1. i \in 1..n /\ r[i] = mappings[i] /\ i < j - 1
        BY <1>0, <1>5, <2>0, <2>3, <3>2
      <4>. QED BY <1>0, <3>1, <4>1
    <3>3. CASE i = at
      <4>1. r[i] = mapping
        BY <1>5, <3>3
      <4>. QED BY <1>7, <3>1, <4>1
    <3>4. CASE i > at
      <4>1. i - 1 \in 1..n /\ r[i] = mappings[i-1] /\ i - 1 < j - 1
        BY <1>0, <1>5, <1>9, <2>0, <3>4
      <4>. QED BY <1>0, <3>1, <4>1
    <3>. QED BY <2>0, <3>2, <3>3, <3>4
  <2>. QED BY <2>0, <2>1, <2>2, <2>3
<1>10. MappingsOK(r)
  BY <1>5, <1>8, <1>9 DEF MappingsOK
<1>11. (\A i \in 1..n : End(i) <= mapping.vaddr) =>
         r[n + 1] = mapping /\ \A i \in 1..n : r[i] = mappings[i]
  <2>. SUFFICES ASSUME at = n + 1
                PROVE  r[n + 1] = mapping /\ \A i \in 1..n : r[i] = mappings[i]
    BY <1>4
  <2>. QED BY <1>0, <1>5
<1>. QED BY <1>2, <1>5, <1>6, <1>10, <1>11

-----------------------------------------------------------------------------
(* Pages of memory.                                                        *)

\* The places of a page table in which the number of a page may stand, and
\* what stands there.
Positions ==
  ({"pgd"} \X {0}) \cup ({"table"} \X (0..(Roots - 1))) \cup ({"leaf"} \X Pages)

FrameAt(s, p) ==
  CASE p[1] = "pgd" -> s.pgd
    [] p[1] = "table" -> s.tables[p[2]]
    [] p[1] = "leaf" -> s.leaf[p[2]].frame

\* The places with a page of their own, these pages, and that they are
\* different ones.
Filled(s) == {p \in Positions : FrameAt(s, p) \in Frames}
Owned(s)  == {FrameAt(s, p) : p \in Filled(s)}
Single(s) == \A p, q \in Filled(s) : FrameAt(s, p) = FrameAt(s, q) => p = q

\* A memory, as operations on a space work on it.
Memories == [s : Spaces, free : SUBSET Frames, content : [Frames -> Contents]]

\* A space owns its pages, others own theirs, which hold what they held before
\* the operation, as others tells.  The rest is free.  The operation fills no
\* places but those of goal, and there are free pages for all of these.
PagesOK(m, others, goal) ==
  /\ m \in Memories
  /\ Single(m.s)
  /\ Owned(m.s) \cap m.free = {}
  /\ (DOMAIN others) \cap (Owned(m.s) \cup m.free) = {}
  /\ (DOMAIN others) \cup Owned(m.s) \cup m.free = Frames
  /\ \A f \in DOMAIN others : m.content[f] = others[f]
  /\ goal \subseteq Positions
  /\ Filled(m.s) \subseteq goal
  /\ Cardinality(goal) <= Cardinality(m.free) + Cardinality(Filled(m.s))

\* Pages and positions are finite in number.
LEMMA Finite ==
  /\ IsFiniteSet(Frames) /\ IsFiniteSet(Positions)
  /\ \A S : S \subseteq Frames \/ S \subseteq Positions =>
       IsFiniteSet(S) /\ Cardinality(S) \in Nat
<1>1. FrameCount \in Int /\ 1 \in Int /\ 0 \in Int /\ Roots - 1 \in Int
      /\ KernelBase - 1 \in Int
  BY SizeAssumption, PageTable
<1>2. IsFiniteSet(Frames) /\ IsFiniteSet(0..(Roots - 1)) /\ IsFiniteSet(Pages)
  BY <1>1, FS_Interval, PageTable DEF Frames
<1>3. IsFiniteSet({"pgd"}) /\ IsFiniteSet({0}) /\ IsFiniteSet({"table"})
      /\ IsFiniteSet({"leaf"})
  BY FS_Singleton
<1>4. IsFiniteSet({"pgd"} \X {0}) /\ IsFiniteSet({"table"} \X (0..(Roots - 1)))
      /\ IsFiniteSet({"leaf"} \X Pages)
  BY <1>2, <1>3, FS_Product
<1>5. IsFiniteSet(({"pgd"} \X {0}) \cup ({"table"} \X (0..(Roots - 1))))
  BY <1>4, FS_Union
<1>6. IsFiniteSet(Positions)
  BY <1>4, <1>5, FS_Union DEF Positions
<1>7. ASSUME NEW S, S \subseteq Frames \/ S \subseteq Positions
      PROVE  IsFiniteSet(S) /\ Cardinality(S) \in Nat
  <2>1. IsFiniteSet(S)
    BY <1>2, <1>6, <1>7, FS_Subset
  <2>. QED BY <2>1, FS_CardinalityType
<1>. QED BY <1>2, <1>6, <1>7

\* The page the allocator gives out is a free one.
LEMMA SomeFree ==
  ASSUME NEW pages \in SUBSET Frames, pages # {}
  PROVE  Some(pages) \in pages
<1>1. pages \in SUBSET Nat
  BY DEF Frames
<1>2. \E f \in pages : \A g \in pages : f <= g
  BY <1>1, LeastElement
<1>. QED BY <1>2 DEF Some

\* At a place of two spaces there is the same page of memory, or none.
SameAt(s, r, p) ==
  \/ FrameAt(r, p) = FrameAt(s, p)
  \/ FrameAt(r, p) \notin Frames /\ FrameAt(s, p) \notin Frames

\* Two spaces with the same pages in the same places.
LEMMA SameFrames ==
  ASSUME NEW s, NEW r, \A p \in Positions : SameAt(s, r, p)
  PROVE  Filled(r) = Filled(s) /\ Owned(r) = Owned(s) /\ (Single(s) => Single(r))
<1>1. Filled(r) = Filled(s)
  BY DEF Filled, SameAt
<1>2. \A p \in Filled(s) : FrameAt(r, p) = FrameAt(s, p)
  BY DEF Filled, SameAt
<1>. QED BY <1>1, <1>2 DEF Owned, Single

\* A page put where there was none.
LEMMA FillOne ==
  ASSUME NEW s, NEW r, Single(s),
         NEW p \in Positions, p \notin Filled(s),
         NEW f \in Frames, f \notin Owned(s), FrameAt(r, p) = f,
         \A q \in Positions : q # p => SameAt(s, r, q)
  PROVE  /\ Filled(r) = Filled(s) \cup {p}
         /\ Owned(r) = Owned(s) \cup {f}
         /\ Single(r)
<1>1. Filled(r) = Filled(s) \cup {p}
  BY DEF Filled, SameAt
<1>2. \A q \in Filled(s) : q # p /\ FrameAt(r, q) = FrameAt(s, q)
  BY DEF Filled, SameAt
<1>3. Owned(r) = Owned(s) \cup {f}
  BY <1>1, <1>2 DEF Owned
<1>4. \A q \in Filled(s) : FrameAt(r, q) # f
  BY <1>2 DEF Owned
<1>5. ASSUME NEW q1 \in Filled(r), NEW q2 \in Filled(r),
             FrameAt(r, q1) = FrameAt(r, q2)
      PROVE  q1 = q2
  BY <1>1, <1>2, <1>4, <1>5 DEF Single
<1>. QED BY <1>1, <1>3, <1>5 DEF Single

\* There is a free page for every place of the goal without one.
LEMMA FreeLeft ==
  ASSUME NEW m, NEW others, NEW goal, PagesOK(m, others, goal),
         NEW p \in goal, p \notin Filled(m.s)
  PROVE  /\ Some(m.free) \in m.free /\ m.free \subseteq Frames
         /\ Cardinality(m.free \ {Some(m.free)}) = Cardinality(m.free) - 1
         /\ Cardinality(Filled(m.s) \cup {p}) = Cardinality(Filled(m.s)) + 1
         /\ Cardinality(m.free) \in Nat /\ Cardinality(Filled(m.s)) \in Nat
<1>1. /\ m.free \in SUBSET Frames /\ Filled(m.s) \subseteq goal
      /\ goal \subseteq Positions
      /\ Cardinality(goal) <= Cardinality(m.free) + Cardinality(Filled(m.s))
  BY DEF PagesOK, Memories
<1>2. /\ IsFiniteSet(m.free) /\ IsFiniteSet(Filled(m.s)) /\ IsFiniteSet(goal)
      /\ Cardinality(m.free) \in Nat /\ Cardinality(Filled(m.s)) \in Nat
      /\ Cardinality(goal) \in Nat
  <2>1. Filled(m.s) \subseteq Positions
    BY DEF Filled
  <2>. QED BY <1>1, <2>1, Finite
<1>3. Cardinality(Filled(m.s) \cup {p}) = Cardinality(Filled(m.s)) + 1
  BY <1>2, FS_AddElement
<1>4. Cardinality(Filled(m.s) \cup {p}) <= Cardinality(goal)
  <2>1. Filled(m.s) \cup {p} \in SUBSET goal
    BY <1>1
  <2>. QED BY <1>2, <2>1, FS_Subset
<1>5. m.free # {}
  <2>1. Cardinality(m.free) # 0
    BY <1>1, <1>2, <1>3, <1>4
  <2>. QED BY <2>1, FS_EmptySet
<1>6. Some(m.free) \in m.free
  BY <1>1, <1>5, SomeFree
<1>7. Cardinality(m.free \ {Some(m.free)}) = Cardinality(m.free) - 1
  BY <1>2, <1>6, FS_RemoveElement
<1>. QED BY <1>1, <1>2, <1>3, <1>6, <1>7

\* A free page taken and put into a place of the goal.
LEMMA FillFree ==
  ASSUME NEW m, NEW others, NEW goal, PagesOK(m, others, goal),
         NEW r \in Memories,
         NEW p \in goal, p \notin Filled(m.s),
         r.free = m.free \ {Some(m.free)},
         \A f \in Frames \ {Some(m.free)} : r.content[f] = m.content[f],
         FrameAt(r.s, p) = Some(m.free),
         \A q \in Positions : q # p => SameAt(m.s, r.s, q)
  PROVE  PagesOK(r, others, goal) /\ Filled(r.s) = Filled(m.s) \cup {p}
<1>1. /\ m.free \in SUBSET Frames /\ Filled(m.s) \subseteq goal
      /\ goal \subseteq Positions /\ p \in Positions
      /\ Single(m.s) /\ Owned(m.s) \cap m.free = {}
      /\ Cardinality(goal) <= Cardinality(m.free) + Cardinality(Filled(m.s))
  BY DEF PagesOK, Memories
<1>2. Cardinality(goal) \in Nat
  BY <1>1, Finite
<1>. DEFINE f == Some(m.free)
<1>3. /\ f \in m.free
      /\ Cardinality(m.free \ {f}) = Cardinality(m.free) - 1
      /\ Cardinality(Filled(m.s) \cup {p}) = Cardinality(Filled(m.s)) + 1
      /\ Cardinality(m.free) \in Nat /\ Cardinality(Filled(m.s)) \in Nat
  BY FreeLeft
<1>. HIDE DEF f
<1>8. f \in Frames /\ f \notin Owned(m.s) /\ FrameAt(r.s, p) = f
      /\ r.free = m.free \ {f}
  BY <1>1, <1>3 DEF f
<1>9. /\ Filled(r.s) = Filled(m.s) \cup {p}
      /\ Owned(r.s) = Owned(m.s) \cup {f}
      /\ Single(r.s)
  BY <1>1, <1>8, FillOne
<1>10. Cardinality(goal) <= Cardinality(r.free) + Cardinality(Filled(r.s))
  BY <1>1, <1>2, <1>3, <1>8, <1>9
<1>11. /\ Owned(r.s) \cap r.free = {}
       /\ (DOMAIN others) \cap (Owned(r.s) \cup r.free) = {}
       /\ (DOMAIN others) \cup Owned(r.s) \cup r.free = Frames
  BY <1>3, <1>8, <1>9 DEF PagesOK
<1>12. \A g \in DOMAIN others : r.content[g] = others[g]
  BY <1>3 DEF PagesOK, f
<1>. QED BY <1>1, <1>9, <1>10, <1>11, <1>12 DEF PagesOK

-----------------------------------------------------------------------------
(* Page tables.                                                            *)

Leafs == [frame : Frames \cup {0, Kernel}, prot : SUBSET Access]

\* A page lies in a mapping with these permissions.
Covered(mappings, v, prot) ==
  \E i \in 1..Len(mappings) :
    /\ mappings[i].vaddr <= v /\ v < MappingEnd(mappings[i])
    /\ mappings[i].prot = prot

\* A page table holds only what was mapped, and every leaf entry is in a table.
LeavesOK(s) ==
  \A v \in Pages : s.leaf[v] # Absent =>
    /\ s.tables[v \div Entries] # 0
    /\ IF v = Trampoline
       THEN s.leaf[v] = [frame |-> Kernel, prot |-> {"r", "x"}]
       ELSE s.leaf[v].frame \in Frames /\ Covered(s.mappings, v, s.leaf[v].prot)

SpaceOK(s) ==
  /\ s \in Spaces
  /\ MappingsOK(s.mappings)
  /\ LeavesOK(s)

\* The parts of a space.
LEMMA SpaceParts ==
  ASSUME NEW s \in Spaces
  PROVE  /\ s.pgd \in Frames \cup {0}
         /\ s.tables \in [0..(Roots - 1) -> Frames \cup {0}]
         /\ s.leaf \in [Pages -> Leafs]
         /\ s.mappings \in Seq(Mappings)
         /\ s = [pgd |-> s.pgd, tables |-> s.tables, leaf |-> s.leaf,
                 mappings |-> s.mappings]
         /\ 0 \notin Frames /\ Kernel \notin Frames
BY DEF Spaces, Leafs, Frames, Kernel

\* The three kinds of positions, and what stands there.
LEMMA PositionKinds ==
  /\ <<"pgd", 0>> \in Positions
  /\ \A i \in 0..(Roots - 1) : <<"table", i>> \in Positions
  /\ \A v \in Pages : <<"leaf", v>> \in Positions
  /\ \A p \in Positions : \/ p = <<"pgd", 0>>
                          \/ \E i \in 0..(Roots - 1) : p = <<"table", i>>
                          \/ \E v \in Pages : p = <<"leaf", v>>
  /\ \A s : /\ FrameAt(s, <<"pgd", 0>>) = s.pgd
            /\ \A i : FrameAt(s, <<"table", i>>) = s.tables[i]
            /\ \A v : FrameAt(s, <<"leaf", v>>) = s.leaf[v].frame
BY DEF Positions, FrameAt

\* Where the pages of a space with a correct page table stand.
LEMMA FilledPositions ==
  ASSUME NEW s, SpaceOK(s)
  PROVE  /\ <<"pgd", 0>> \in Filled(s) <=> s.pgd # 0
         /\ \A i \in 0..(Roots - 1) : <<"table", i>> \in Filled(s) <=> s.tables[i] # 0
         /\ \A v \in Pages :
              <<"leaf", v>> \in Filled(s) <=> v # Trampoline /\ s.leaf[v] # Absent
<1>1. /\ s.pgd \in Frames \cup {0}
      /\ s.tables \in [0..(Roots - 1) -> Frames \cup {0}]
      /\ s.leaf \in [Pages -> Leafs]
      /\ 0 \notin Frames /\ Kernel \notin Frames
  BY SpaceParts DEF SpaceOK
<1>2. <<"pgd", 0>> \in Filled(s) <=> s.pgd # 0
  BY <1>1, PositionKinds DEF Filled
<1>3. ASSUME NEW i \in 0..(Roots - 1)
      PROVE  <<"table", i>> \in Filled(s) <=> s.tables[i] # 0
  BY <1>1, PositionKinds DEF Filled
<1>4. ASSUME NEW v \in Pages
      PROVE  <<"leaf", v>> \in Filled(s) <=> v # Trampoline /\ s.leaf[v] # Absent
  <2>1. <<"leaf", v>> \in Filled(s) <=> s.leaf[v].frame \in Frames
    BY PositionKinds DEF Filled
  <2>2. CASE s.leaf[v] = Absent
    BY <1>1, <2>1, <2>2 DEF Absent
  <2>3. CASE s.leaf[v] # Absent /\ v = Trampoline
    <3>1. s.leaf[v] = [frame |-> Kernel, prot |-> {"r", "x"}]
      BY <2>3 DEF SpaceOK, LeavesOK
    <3>. QED BY <1>1, <2>1, <2>3, <3>1
  <2>4. CASE s.leaf[v] # Absent /\ v # Trampoline
    <3>1. s.leaf[v].frame \in Frames
      BY <2>4 DEF SpaceOK, LeavesOK
    <3>. QED BY <2>1, <2>4, <3>1
  <2>. QED BY <2>2, <2>3, <2>4
<1>. QED BY <1>2, <1>3, <1>4

\* Taking a page, part by part.
LEMMA TakeParts ==
  ASSUME NEW s, NEW fr, NEW content0, NEW what, NEW m,
         m = [s |-> s, free |-> fr, content |-> content0]
  PROVE  Take(m, what) =
           [s |-> s, free |-> fr \ {Some(fr)},
            content |-> [content0 EXCEPT ![Some(fr)] = what]]
<1>. DEFINE f == Some(m.free)
<1>1. m.free = fr /\ m.content = content0 /\ f = Some(fr)
  OBVIOUS
<1>2. Take(m, what) = [m EXCEPT !.free = @ \ {f}, !.content[f] = what]
  BY DEF Take
<1>. HIDE DEF f
<1>3. [m EXCEPT !.free = @ \ {f}, !.content[f] = what]
        = [[m EXCEPT !.free = @ \ {f}] EXCEPT !.content[f] = what]
  OBVIOUS
<1>4. [m EXCEPT !.free = @ \ {f}] = [s |-> s, free |-> fr \ {f}, content |-> content0]
  OBVIOUS
<1>5. [[s |-> s, free |-> fr \ {f}, content |-> content0] EXCEPT !.content[f] = what]
        = [s |-> s, free |-> fr \ {f}, content |-> [content0 EXCEPT ![f] = what]]
  OBVIOUS
<1>. QED BY <1>1, <1>2, <1>3, <1>4, <1>5

\* A memory from its parts.
Whole(pgd, tables, leaf, mappings, fr, content0) ==
  [s |-> [pgd |-> pgd, tables |-> tables, leaf |-> leaf, mappings |-> mappings],
   free |-> fr, content |-> content0]

\* Every memory has these parts.
LEMMA MemoryParts ==
  ASSUME NEW m \in Memories
  PROVE  /\ m = Whole(m.s.pgd, m.s.tables, m.s.leaf, m.s.mappings, m.free, m.content)
         /\ m.s \in Spaces /\ m.free \in SUBSET Frames
         /\ m.content \in [Frames -> Contents]
<1>1. m.s \in Spaces
  BY DEF Memories
<1>. QED BY <1>1, SpaceParts DEF Memories, Whole

\* What Map makes of the parts of a memory.
Mapped(pgd, tables, leaf, mappings, fr, content0, v, frame, prot) ==
  LET i == v \div Entries
      f == Some(fr)
      entry == [frame |-> frame, prot |-> prot]
  IN  IF tables[i] # 0
      THEN Whole(pgd, tables, [leaf EXCEPT ![v] = entry], mappings, fr, content0)
      ELSE Whole(pgd, [tables EXCEPT ![i] = f], [leaf EXCEPT ![v] = entry], mappings,
                 fr \ {f}, [content0 EXCEPT ![f] = "table"])

\* A step of pagewalk changes the parts of a memory as Mapped says.
LEMMA MapParts ==
  ASSUME NEW pgd, NEW tables, NEW leaf, NEW mappings, NEW fr, NEW content0,
         NEW v, NEW frame, NEW prot
  PROVE  Map(Whole(pgd, tables, leaf, mappings, fr, content0), v, frame, prot) =
           Mapped(pgd, tables, leaf, mappings, fr, content0, v, frame, prot)
<1>. DEFINE i == v \div Entries
            f == Some(fr)
            m == Whole(pgd, tables, leaf, mappings, fr, content0)
            e == [frame |-> frame, prot |-> prot]
<1>1. m.s.tables = tables /\ m.free = fr
  BY DEF Whole
<1>2. CASE tables[i] # 0
  <2>1. Map(m, v, frame, prot) = [m EXCEPT !.s.leaf[v] = e]
    BY <1>1, <1>2 DEF Map
  <2>2. [m EXCEPT !.s.leaf[v] = e]
          = Whole(pgd, tables, [leaf EXCEPT ![v] = e], mappings, fr, content0)
    BY DEF Whole
  <2>. QED BY <1>2, <2>1, <2>2 DEF Mapped
<1>3. CASE tables[i] = 0
  <2>1. Map(m, v, frame, prot) =
          [[Take(m, "table") EXCEPT !.s.tables[i] = f] EXCEPT !.s.leaf[v] = e]
    BY <1>1, <1>3 DEF Map
  <2>2. Take(m, "table") = Whole(pgd, tables, leaf, mappings, fr \ {f},
                                 [content0 EXCEPT ![f] = "table"])
    <3>1. m = [s |-> m.s, free |-> fr, content |-> content0]
      BY DEF Whole
    <3>2. Take(m, "table") = [s |-> m.s, free |-> fr \ {f},
                              content |-> [content0 EXCEPT ![f] = "table"]]
      <4>. HIDE DEF m
      <4>. QED BY <3>1, TakeParts
    <3>. QED BY <3>2 DEF Whole
  <2>. DEFINE taken == Take(m, "table")
              content1 == [content0 EXCEPT ![f] = "table"]
              rest == fr \ {f}
              tables1 == [tables EXCEPT ![i] = f]
              entered == [taken EXCEPT !.s.tables[i] = f]
  <2>3. taken = Whole(pgd, tables, leaf, mappings, rest, content1)
    BY <2>2
  <2>. HIDE DEF taken, content1, rest, i, f, e, m
  <2>4. entered = Whole(pgd, tables1, leaf, mappings, rest, content1)
    BY <2>3 DEF Whole
  <2>. HIDE DEF entered, tables1
  <2>5. [entered EXCEPT !.s.leaf[v] = e]
          = Whole(pgd, tables1, [leaf EXCEPT ![v] = e], mappings, rest, content1)
    BY <2>4 DEF Whole
  <2>. QED BY <1>3, <2>1, <2>5 DEF taken, content1, rest, i, f, e, m, entered, tables1,
              Mapped
<1>. QED BY <1>2, <1>3

\* The pages of programs: the trampoline is one of them.
LEMMA TrampolinePage ==
  /\ Trampoline \in Pages /\ Trampoline \in Nat
  /\ Trampoline \div Entries \in 0..(Roots - 1)
<1>1. /\ Trampoline \in Nat /\ Code \in Nat /\ CodeSize \in Nat /\ Stack \in Nat
      /\ StackSize \in Nat /\ SignalStack \in Nat /\ SignalStackSize \in Nat
      /\ Trampoline + 1 <= Code /\ Code + CodeSize <= Stack
      /\ Stack + StackSize <= SignalStack
      /\ SignalStack + SignalStackSize <= KernelBase
      /\ KernelBase \in Nat /\ Pages = 0..(KernelBase - 1)
  BY TrampolineAssumption, SizeAssumption, LayoutAssumption, PageTable
<1>2. Trampoline \in Pages
  BY <1>1
<1>. QED BY <1>1, <1>2, PageTable

\* A memory on which the operations work.
MemoryOK(m, others, goal) == PagesOK(m, others, goal) /\ SpaceOK(m.s)

\* A step that changes one leaf entry, or one table, leaves the other places.
LEMMA OthersSame ==
  ASSUME NEW s, NEW k, k.pgd = s.pgd
  PROVE  /\ \A v : k.tables = s.tables /\ (\A w \in Pages \ {v} : k.leaf[w] = s.leaf[w])
                => \A q \in Positions : q # <<"leaf", v>> => SameAt(s, k, q)
         /\ \A i : k.leaf = s.leaf
                    /\ (\A j \in (0..(Roots - 1)) \ {i} : k.tables[j] = s.tables[j])
                => \A q \in Positions : q # <<"table", i>> => SameAt(s, k, q)
<1>1. ASSUME NEW v, k.tables = s.tables,
             \A w \in Pages \ {v} : k.leaf[w] = s.leaf[w],
             NEW q \in Positions, q # <<"leaf", v>>
      PROVE  FrameAt(k, q) = FrameAt(s, q)
  <2>1. CASE q = <<"pgd", 0>>
    BY <2>1, PositionKinds
  <2>2. ASSUME NEW j \in 0..(Roots - 1), q = <<"table", j>>
        PROVE  FrameAt(k, q) = FrameAt(s, q)
    BY <1>1, <2>2, PositionKinds
  <2>3. ASSUME NEW w \in Pages, q = <<"leaf", w>>
        PROVE  FrameAt(k, q) = FrameAt(s, q)
    <3>1. w # v
      BY <1>1, <2>3
    <3>. QED BY <1>1, <2>3, <3>1, PositionKinds
  <2>. QED BY <2>1, <2>2, <2>3, PositionKinds
<1>2. ASSUME NEW i, k.leaf = s.leaf,
             \A j \in (0..(Roots - 1)) \ {i} : k.tables[j] = s.tables[j],
             NEW q \in Positions, q # <<"table", i>>
      PROVE  FrameAt(k, q) = FrameAt(s, q)
  <2>1. CASE q = <<"pgd", 0>>
    BY <2>1, PositionKinds
  <2>2. ASSUME NEW j \in 0..(Roots - 1), q = <<"table", j>>
        PROVE  FrameAt(k, q) = FrameAt(s, q)
    <3>1. j # i
      BY <1>2, <2>2
    <3>. QED BY <1>2, <2>2, <3>1, PositionKinds
  <2>3. ASSUME NEW w \in Pages, q = <<"leaf", w>>
        PROVE  FrameAt(k, q) = FrameAt(s, q)
    BY <1>2, <2>3, PositionKinds
  <2>. QED BY <2>1, <2>2, <2>3, PositionKinds
<1>. QED BY <1>1, <1>2 DEF SameAt

\* The same pages in the same places.
LEMMA KeepPages ==
  ASSUME NEW m, NEW others, NEW goal, PagesOK(m, others, goal),
         NEW r \in Memories, r.free = m.free, r.content = m.content,
         \A p \in Positions : SameAt(m.s, r.s, p)
  PROVE  PagesOK(r, others, goal) /\ Filled(r.s) = Filled(m.s)
<1>1. Filled(r.s) = Filled(m.s) /\ Owned(r.s) = Owned(m.s)
      /\ (Single(m.s) => Single(r.s))
  BY SameFrames
<1>. QED BY <1>1 DEF PagesOK

\* A table put where there was none, in a free page.
FilledTable(m, i) ==
  LET g == Some(m.free)
  IN  Whole(m.s.pgd, [m.s.tables EXCEPT ![i] = g], m.s.leaf, m.s.mappings,
            m.free \ {g}, [m.content EXCEPT ![g] = "table"])

\* When pagewalk puts a table into one of the places it may fill, pages
\* stay owned.
LEMMA FillTable ==
  ASSUME NEW m, NEW others, NEW goal, PagesOK(m, others, goal),
         NEW i \in 0..(Roots - 1), <<"table", i>> \in goal, m.s.tables[i] = 0
  PROVE  LET r == FilledTable(m, i)
         IN  /\ PagesOK(r, others, goal) /\ r.s \in Spaces
             /\ r.s.pgd = m.s.pgd /\ r.s.leaf = m.s.leaf
             /\ r.s.mappings = m.s.mappings
             /\ r.s.tables[i] # 0
             /\ \A j \in (0..(Roots - 1)) \ {i} : r.s.tables[j] = m.s.tables[j]
             /\ \A f \in Frames \ {Some(m.free)} : r.content[f] = m.content[f]
<1>. DEFINE g == Some(m.free)
            tables == [m.s.tables EXCEPT ![i] = g]
            content1 == [m.content EXCEPT ![g] = "table"]
            r == FilledTable(m, i)
<1>1. /\ m \in Memories /\ m.s \in Spaces
      /\ m.free \in SUBSET Frames /\ m.content \in [Frames -> Contents]
  BY DEF PagesOK, Memories
<1>2. /\ m.s.pgd \in Frames \cup {0}
      /\ m.s.tables \in [0..(Roots - 1) -> Frames \cup {0}]
      /\ m.s.leaf \in [Pages -> Leafs] /\ m.s.mappings \in Seq(Mappings)
      /\ 0 \notin Frames
  BY <1>1, SpaceParts
<1>3. <<"table", i>> \notin Filled(m.s)
  BY <1>2, PositionKinds DEF Filled
<1>4. g \in Frames
  BY <1>1, <1>3, FreeLeft
<1>. HIDE DEF g
<1>5. /\ tables \in [0..(Roots - 1) -> Frames \cup {0}] /\ tables[i] = g
      /\ \A j \in (0..(Roots - 1)) \ {i} : tables[j] = m.s.tables[j]
  BY <1>2, <1>4
<1>6. /\ content1 \in [Frames -> Contents]
      /\ \A f \in Frames \ {g} : content1[f] = m.content[f]
  BY <1>1 DEF Contents
<1>7. r = Whole(m.s.pgd, tables, m.s.leaf, m.s.mappings, m.free \ {g}, content1)
  BY DEF FilledTable, g
<1>. HIDE DEF tables, content1, r
<1>8. /\ r.s.pgd = m.s.pgd /\ r.s.tables = tables /\ r.s.leaf = m.s.leaf
      /\ r.s.mappings = m.s.mappings /\ r.free = m.free \ {g}
      /\ r.content = content1
  BY <1>7 DEF Whole
<1>9. r \in Memories /\ r.s \in Spaces
  <2>1. [pgd |-> m.s.pgd, tables |-> tables, leaf |-> m.s.leaf,
         mappings |-> m.s.mappings] \in Spaces
    BY <1>2, <1>5 DEF Spaces, Leafs
  <2>2. m.free \ {g} \in SUBSET Frames
    BY <1>1
  <2>. QED BY <1>6, <1>7, <2>1, <2>2 DEF Memories, Whole
<1>10. FrameAt(r.s, <<"table", i>>) = g
  BY ZenonT(40), <1>5, <1>8, PositionKinds
<1>11. \A q \in Positions : q # <<"table", i>> => SameAt(m.s, r.s, q)
  BY <1>5, <1>8, OthersSame
<1>12. PagesOK(r, others, goal)
  BY <1>3, <1>6, <1>8, <1>9, <1>10, <1>11, FillFree DEF g
<1>. QED BY <1>2, <1>4, <1>5, <1>6, <1>8, <1>9, <1>12 DEF r, g

\* Pages that are not free keep what they hold.
Kept(m, r) == \A f \in Frames \ m.free : r.content[f] = m.content[f]

\* A page that is entered into a leaf, with a table for it where there is
\* none.
Installed(m, v, what, prot) == Map(Take(m, what), v, Some(m.free), prot)

\* Installing a page of a mapping takes one or two free pages.
LEMMA InstallOne ==
  ASSUME NEW m, NEW others, NEW goal, MemoryOK(m, others, goal),
         NEW v \in Pages, v # Trampoline, m.s.leaf[v] = Absent,
         NEW what \in Contents, NEW prot \in SUBSET Access,
         Covered(m.s.mappings, v, prot),
         <<"leaf", v>> \in goal, <<"table", v \div Entries>> \in goal
  PROVE  LET r == Installed(m, v, what, prot)
         IN  /\ MemoryOK(r, others, goal)
             /\ r.s.mappings = m.s.mappings /\ r.s.pgd = m.s.pgd
             /\ r.s.leaf[v] # Absent /\ r.content[r.s.leaf[v].frame] = what
             /\ \A w \in Pages \ {v} : r.s.leaf[w] = m.s.leaf[w]
             /\ Kept(m, r)
<1>. DEFINE i == v \div Entries
            pgd == m.s.pgd
            tables == m.s.tables
            leaf == m.s.leaf
            mappings == m.s.mappings
            f == Some(m.free)
            rest == m.free \ {f}
            g == Some(rest)
            entered == [leaf EXCEPT ![v] = [frame |-> f, prot |-> prot]]
            content1 == [m.content EXCEPT ![f] = what]
            m1 == Whole(pgd, tables, entered, mappings, rest, content1)
            m2 == Whole(pgd, [tables EXCEPT ![i] = g], entered, mappings,
                        rest \ {g}, [content1 EXCEPT ![g] = "table"])
            r == Installed(m, v, what, prot)
<1>0. /\ m \in Memories /\ m.s \in Spaces /\ SpaceOK(m.s) /\ PagesOK(m, others, goal)
      /\ m = Whole(pgd, tables, leaf, mappings, m.free, m.content)
      /\ m.free \in SUBSET Frames /\ m.content \in [Frames -> Contents]
      /\ goal \subseteq Positions
  BY MemoryParts DEF MemoryOK, PagesOK
<1>1. /\ pgd \in Frames \cup {0}
      /\ tables \in [0..(Roots - 1) -> Frames \cup {0}]
      /\ leaf \in [Pages -> Leafs]
      /\ mappings \in Seq(Mappings)
      /\ 0 \notin Frames /\ Kernel \notin Frames
      /\ i \in 0..(Roots - 1)
  BY <1>0, SpaceParts, PageTable
<1>2. r = IF tables[i] # 0 THEN m1 ELSE m2
  <2>1. m = [s |-> m.s, free |-> m.free, content |-> m.content]
    BY <1>0 DEF Memories
  <2>2. Take(m, what) = [s |-> m.s, free |-> rest, content |-> content1]
    BY <2>1, TakeParts
  <2>3. m.s = [pgd |-> pgd, tables |-> tables, leaf |-> leaf, mappings |-> mappings]
    BY <1>0, SpaceParts
  <2>4. Take(m, what) = Whole(pgd, tables, leaf, mappings, rest, content1)
    BY <2>2, <2>3 DEF Whole
  <2>. HIDE DEF pgd, tables, leaf, mappings, rest, content1, f
  <2>5. Map(Whole(pgd, tables, leaf, mappings, rest, content1), v, f, prot) =
          Mapped(pgd, tables, leaf, mappings, rest, content1, v, f, prot)
    BY MapParts
  <2>. QED BY <2>4, <2>5 DEF Installed, f, Mapped
<1>3. <<"leaf", v>> \notin Filled(m.s) /\ f \in m.free /\ f \in Frames
  <2>1. <<"leaf", v>> \notin Filled(m.s)
    BY <1>0, FilledPositions
  <2>. QED BY <1>0, <2>1, FreeLeft
<1>. HIDE DEF f
<1>4. entered \in [Pages -> Leafs]
  BY <1>1, <1>3 DEF Leafs
<1>5. /\ content1 \in [Frames -> Contents] /\ content1[f] = what
      /\ \A h \in Frames \ {f} : content1[h] = m.content[h]
  BY <1>0, <1>3
<1>6. m1 \in Memories
  <2>1. [pgd |-> pgd, tables |-> tables, leaf |-> entered, mappings |-> mappings] \in Spaces
    BY <1>1, <1>4 DEF Spaces, Leafs
  <2>. HIDE DEF pgd, tables, entered, mappings, content1
  <2>. QED BY <1>0, <1>5, <2>1 DEF Memories, Whole
<1>7. /\ m1.s.pgd = pgd /\ m1.s.tables = tables /\ m1.s.leaf = entered
      /\ m1.s.mappings = mappings /\ m1.free = rest /\ m1.content = content1
      /\ m2.s.pgd = pgd /\ m2.s.tables = [tables EXCEPT ![i] = g]
      /\ m2.s.leaf = entered
      /\ m2.s.mappings = mappings /\ m2.free = rest \ {g}
  BY DEF Whole
<1>8. entered[v] = [frame |-> f, prot |-> prot] /\ \A w \in Pages \ {v} : entered[w] = leaf[w]
  BY <1>1
<1>. HIDE DEF m1, m2, r, entered, content1
<1>9. PagesOK(m1, others, goal) /\ Filled(m1.s) = Filled(m.s) \cup {<<"leaf", v>>}
  <2>1. FrameAt(m1.s, <<"leaf", v>>) = f
    BY <1>7, <1>8, PositionKinds
  <2>2. \A q \in Positions : q # <<"leaf", v>> => SameAt(m.s, m1.s, q)
    <3>1. m1.s.pgd = m.s.pgd /\ m1.s.tables = m.s.tables
          /\ \A w \in Pages \ {v} : m1.s.leaf[w] = m.s.leaf[w]
      BY <1>7, <1>8
    <3>. HIDE DEF pgd, tables, leaf
    <3>. QED BY <3>1, OthersSame
  <2>. QED BY <1>0, <1>3, <1>5, <1>6, <1>7, <2>1, <2>2, FillFree DEF f
<1>10. ASSUME NEW k, k.leaf = entered, k.mappings = mappings, k \in Spaces,
              k.tables[i] # 0, \A j \in 0..(Roots - 1) : tables[j] # 0 => k.tables[j] # 0
       PROVE  SpaceOK(k)
  <2>1. ASSUME NEW w \in Pages, k.leaf[w] # Absent
        PROVE  /\ k.tables[w \div Entries] # 0
               /\ IF w = Trampoline
                  THEN k.leaf[w] = [frame |-> Kernel, prot |-> {"r", "x"}]
                  ELSE k.leaf[w].frame \in Frames
                       /\ Covered(k.mappings, w, k.leaf[w].prot)
    <3>1. CASE w = v
      BY <1>3, <1>8, <1>10, <3>1
    <3>2. CASE w # v
      <4>1. k.leaf[w] = leaf[w] /\ w \div Entries \in 0..(Roots - 1)
        BY <1>8, <1>10, <3>2, PageTable
      <4>. QED BY <1>0, <1>10, <2>1, <4>1 DEF SpaceOK, LeavesOK
    <3>. QED BY <3>1, <3>2
  <2>. QED BY <1>0, <1>10, <2>1 DEF SpaceOK, LeavesOK
<1>11. entered[v] # Absent
  <2>1. f # 0
    BY <1>1, <1>3
  <2>. QED BY <1>8, <2>1 DEF Absent
<1>12. CASE tables[i] # 0
  <2>1. m1.s \in Spaces
    BY <1>6 DEF Memories
  <2>2. SpaceOK(m1.s)
    BY <1>7, <1>10, <1>12, <2>1
  <2>3. r = m1
    BY <1>2, <1>12
  <2>4. r.s.leaf[v].frame = f /\ r.content = content1
    BY <1>7, <1>8, <2>3
  <2>5. r.content[r.s.leaf[v].frame] = what
    BY <1>5, <2>4
  <2>6. Kept(m, r)
    BY <1>3, <1>5, <2>4 DEF Kept
  <2>. QED BY <1>7, <1>8, <1>9, <1>11, <2>2, <2>3, <2>5, <2>6, Zenon DEF MemoryOK, r
<1>13. CASE tables[i] = 0
  <2>1. m2 = FilledTable(m1, i)
    BY <1>7 DEF FilledTable, m2, m1, Whole
  <2>2. /\ PagesOK(m2, others, goal) /\ m2.s \in Spaces
        /\ m2.s.tables[i] # 0
        /\ \A j \in (0..(Roots - 1)) \ {i} : m2.s.tables[j] = m1.s.tables[j]
        /\ \A h \in Frames \ {Some(m1.free)} : m2.content[h] = m1.content[h]
    <3>1. <<"table", i>> \in goal /\ i \in 0..(Roots - 1) /\ m1.s.tables[i] = 0
      BY <1>1, <1>7, <1>13
    <3>. HIDE DEF i
    <3>. QED BY <1>9, <2>1, <3>1, FillTable
  <2>3. SpaceOK(m2.s)
    BY <1>7, <1>10, <2>2
  <2>4. r = m2
    BY <1>2, <1>13
  <2>5. Some(m1.free) # f /\ Some(m1.free) \in m.free
    <3>1. <<"table", i>> \in goal /\ i \in 0..(Roots - 1) /\ m1.s.tables[i] = 0
      BY <1>1, <1>7, <1>13
    <3>2. <<"table", i>> \notin Filled(m1.s)
      BY <1>1, <3>1, PositionKinds DEF Filled
    <3>3. Some(m1.free) \in m1.free
      BY <1>9, <3>1, <3>2, FreeLeft
    <3>. QED BY <1>7, <3>3
  <2>6. r.content[r.s.leaf[v].frame] = what
    <3>1. m2.content[f] = m1.content[f]
      BY <1>3, <2>2, <2>5
    <3>2. r.s.leaf[v].frame = f
      BY <1>7, <1>8, <2>4
    <3>. QED BY <1>5, <1>7, <2>4, <3>1, <3>2
  <2>7. Kept(m, r)
    <3>1. ASSUME NEW h \in Frames \ m.free PROVE m2.content[h] = m.content[h]
      <4>1. h # f /\ h # Some(m1.free)
        BY <1>3, <2>5
      <4>. QED BY <1>5, <1>7, <2>2, <4>1
    <3>. QED BY <2>4, <3>1 DEF Kept
  <2>. QED BY <1>7, <1>8, <1>11, <2>2, <2>3, <2>4, <2>6, <2>7, Zenon DEF MemoryOK, r
<1>. QED BY <1>12, <1>13 DEF r

\* The page of the kernel that the trampoline is.
Gate == [frame |-> Kernel, prot |-> {"r", "x"}]

\* Mapping the trampoline takes a page for a table at most.
LEMMA MapGate ==
  ASSUME NEW m, NEW others, NEW goal, MemoryOK(m, others, goal),
         <<"table", Trampoline \div Entries>> \in goal
  PROVE  LET r == Map(m, Trampoline, Kernel, {"r", "x"})
         IN  /\ MemoryOK(r, others, goal)
             /\ r.s.mappings = m.s.mappings /\ r.s.pgd = m.s.pgd
             /\ r.s.leaf[Trampoline] # Absent
             /\ \A w \in Pages \ {Trampoline} : r.s.leaf[w] = m.s.leaf[w]
             /\ Kept(m, r)
<1>. DEFINE v == Trampoline
            i == v \div Entries
            pgd == m.s.pgd
            tables == m.s.tables
            leaf == m.s.leaf
            mappings == m.s.mappings
            entered == [leaf EXCEPT ![v] = Gate]
            m1 == Whole(pgd, tables, entered, mappings, m.free, m.content)
            m2 == FilledTable(m1, i)
            r == Map(m, Trampoline, Kernel, {"r", "x"})
<1>0. /\ m \in Memories /\ m.s \in Spaces /\ SpaceOK(m.s) /\ PagesOK(m, others, goal)
      /\ m = Whole(pgd, tables, leaf, mappings, m.free, m.content)
      /\ m.free \in SUBSET Frames /\ m.content \in [Frames -> Contents]
      /\ goal \subseteq Positions
  BY MemoryParts DEF MemoryOK, PagesOK
<1>1. /\ pgd \in Frames \cup {0}
      /\ tables \in [0..(Roots - 1) -> Frames \cup {0}]
      /\ leaf \in [Pages -> Leafs]
      /\ mappings \in Seq(Mappings)
      /\ 0 \notin Frames /\ Kernel \notin Frames
      /\ v \in Pages /\ i \in 0..(Roots - 1)
  BY <1>0, SpaceParts, TrampolinePage
<1>2. Gate \in Leafs /\ Gate # Absent /\ Gate.frame = Kernel
  BY DEF Gate, Leafs, Absent, Kernel, Access
<1>3. r = IF tables[i] # 0 THEN m1 ELSE m2
  <2>1. r = Map(Whole(pgd, tables, leaf, mappings, m.free, m.content), v, Kernel,
                {"r", "x"})
    BY <1>0
  <2>. HIDE DEF pgd, tables, leaf, mappings, v
  <2>2. Map(Whole(pgd, tables, leaf, mappings, m.free, m.content), v, Kernel,
            {"r", "x"}) =
          Mapped(pgd, tables, leaf, mappings, m.free, m.content, v, Kernel, {"r", "x"})
    BY MapParts
  <2>3. tables[i] = 0 =>
          m2 = Whole(pgd, [tables EXCEPT ![i] = Some(m.free)], entered, mappings,
                     m.free \ {Some(m.free)},
                     [m.content EXCEPT ![Some(m.free)] = "table"])
    BY DEF FilledTable, Whole
  <2>. HIDE DEF r
  <2>. QED BY <2>1, <2>2, <2>3 DEF Mapped, Gate
<1>4. entered \in [Pages -> Leafs] /\ entered[v] = Gate
      /\ \A w \in Pages \ {v} : entered[w] = leaf[w]
  BY <1>1, <1>2
<1>5. m1 \in Memories /\ m1.s \in Spaces
  <2>1. [pgd |-> pgd, tables |-> tables, leaf |-> entered, mappings |-> mappings] \in Spaces
    BY <1>1, <1>4 DEF Spaces, Leafs
  <2>. HIDE DEF pgd, tables, entered, mappings
  <2>. QED BY <1>0, <2>1 DEF Memories, Whole
<1>6. /\ m1.s.pgd = pgd /\ m1.s.tables = tables /\ m1.s.leaf = entered
      /\ m1.s.mappings = mappings /\ m1.free = m.free /\ m1.content = m.content
  BY DEF Whole
<1>. HIDE DEF m1, m2, r, entered
<1>7. PagesOK(m1, others, goal)
  <2>1. \A q \in Positions : q # <<"leaf", v>> => SameAt(m.s, m1.s, q)
    <3>1. m1.s.pgd = m.s.pgd /\ m1.s.tables = m.s.tables
          /\ \A w \in Pages \ {v} : m1.s.leaf[w] = m.s.leaf[w]
      BY <1>4, <1>6
    <3>. HIDE DEF pgd, tables, leaf, v
    <3>. QED BY <3>1, OthersSame
  <2>2. FrameAt(m1.s, <<"leaf", v>>) = Kernel
    BY <1>2, <1>4, <1>6, PositionKinds
  <2>3. <<"leaf", v>> \notin Filled(m.s) /\ <<"leaf", v>> \in Positions
    BY <1>0, <1>1, FilledPositions, PositionKinds
  <2>4. SameAt(m.s, m1.s, <<"leaf", v>>)
    BY <1>1, <2>2, <2>3 DEF SameAt, Filled
  <2>. QED BY <1>0, <1>5, <1>6, <2>1, <2>4, KeepPages
<1>8. ASSUME NEW k, k.leaf = entered, k.mappings = mappings, k \in Spaces,
             k.tables[i] # 0, \A j \in 0..(Roots - 1) : tables[j] # 0 => k.tables[j] # 0
      PROVE  SpaceOK(k)
  <2>1. ASSUME NEW w \in Pages, k.leaf[w] # Absent
        PROVE  /\ k.tables[w \div Entries] # 0
               /\ IF w = Trampoline
                  THEN k.leaf[w] = [frame |-> Kernel, prot |-> {"r", "x"}]
                  ELSE k.leaf[w].frame \in Frames
                       /\ Covered(k.mappings, w, k.leaf[w].prot)
    <3>1. CASE w = v
      BY <1>4, <1>8, <3>1 DEF Gate
    <3>2. CASE w # v
      <4>1. k.leaf[w] = leaf[w] /\ w \div Entries \in 0..(Roots - 1)
        BY <1>4, <1>8, <3>2, PageTable
      <4>. QED BY <1>0, <1>8, <2>1, <3>2, <4>1 DEF SpaceOK, LeavesOK
    <3>. QED BY <3>1, <3>2
  <2>. QED BY <1>0, <1>8, <2>1 DEF SpaceOK, LeavesOK
<1>9. CASE tables[i] # 0
  <2>1. SpaceOK(m1.s) /\ r = m1
    BY <1>3, <1>5, <1>6, <1>8, <1>9
  <2>2. Kept(m, r)
    BY <1>6, <2>1 DEF Kept
  <2>. QED BY <1>2, <1>4, <1>6, <1>7, <2>1, <2>2, Zenon DEF MemoryOK, r
<1>10. CASE tables[i] = 0
  <2>1. /\ PagesOK(m2, others, goal) /\ m2.s \in Spaces
        /\ m2.s.pgd = m1.s.pgd /\ m2.s.leaf = m1.s.leaf
        /\ m2.s.mappings = m1.s.mappings
        /\ m2.s.tables[i] # 0
        /\ \A j \in (0..(Roots - 1)) \ {i} : m2.s.tables[j] = m1.s.tables[j]
        /\ \A h \in Frames \ {Some(m1.free)} : m2.content[h] = m1.content[h]
    <3>1. <<"table", i>> \in goal /\ i \in 0..(Roots - 1) /\ m1.s.tables[i] = 0
      BY <1>1, <1>6, <1>10
    <3>. HIDE DEF i
    <3>. QED BY <1>7, <3>1, FillTable DEF m2
  <2>2. SpaceOK(m2.s)
    BY <1>6, <1>8, <2>1
  <2>3. r = m2
    BY <1>3, <1>10
  <2>4. Some(m1.free) \in m.free
    <3>1. <<"table", i>> \in goal /\ i \in 0..(Roots - 1) /\ m1.s.tables[i] = 0
      BY <1>1, <1>6, <1>10
    <3>2. <<"table", i>> \notin Filled(m1.s)
      BY <1>1, <3>1, PositionKinds DEF Filled
    <3>3. Some(m1.free) \in m1.free
      BY <1>7, <3>1, <3>2, FreeLeft
    <3>. QED BY <1>6, <3>3
  <2>5. Kept(m, r)
    BY <1>6, <2>1, <2>3, <2>4 DEF Kept
  <2>. QED BY <1>2, <1>4, <1>6, <2>1, <2>2, <2>3, <2>5, Zenon DEF MemoryOK, r
<1>. QED BY <1>9, <1>10 DEF r

-----------------------------------------------------------------------------
(* Adding mappings.                                                        *)

\* A mapping put among those of a memory.
Mapping(m, mapping) == [m EXCEPT !.s.mappings = _insert_mapping(@, mapping)]

\* A mapping that is in nobody's way changes no pages.
LEMMA AddOne ==
  ASSUME NEW m, NEW others, NEW goal, MemoryOK(m, others, goal),
         NEW mapping, Fits(m.s.mappings, mapping)
  PROVE  LET r == Mapping(m, mapping)
         IN  /\ MemoryOK(r, others, goal)
             /\ r.s.mappings = _insert_mapping(m.s.mappings, mapping)
             /\ r.s.pgd = m.s.pgd /\ r.s.leaf = m.s.leaf
             /\ r.free = m.free /\ Filled(r.s) = Filled(m.s)
<1>. DEFINE pgd == m.s.pgd
            tables == m.s.tables
            leaf == m.s.leaf
            mappings == m.s.mappings
            more == _insert_mapping(mappings, mapping)
            r == Mapping(m, mapping)
<1>0. /\ m \in Memories /\ m.s \in Spaces /\ SpaceOK(m.s) /\ PagesOK(m, others, goal)
      /\ m = Whole(pgd, tables, leaf, mappings, m.free, m.content)
      /\ m.free \in SUBSET Frames /\ m.content \in [Frames -> Contents]
  BY MemoryParts DEF MemoryOK, PagesOK
<1>1. /\ pgd \in Frames \cup {0}
      /\ tables \in [0..(Roots - 1) -> Frames \cup {0}]
      /\ leaf \in [Pages -> Leafs]
      /\ mappings \in Seq(Mappings)
  BY <1>0, SpaceParts
<1>2. MappingsOK(more) /\ Range(more) = Range(mappings) \cup {mapping}
      /\ more \in Seq(Mappings)
  <2>1. MappingsOK(mappings)
    BY <1>0 DEF SpaceOK
  <2>2. MappingsOK(more) /\ Range(more) = Range(mappings) \cup {mapping}
    BY <2>1, InsertMapping
  <2>. QED BY <2>2 DEF MappingsOK
<1>3. r = Whole(pgd, tables, leaf, more, m.free, m.content)
  <2>1. r = [m EXCEPT !.s.mappings = more]
    BY DEF Mapping
  <2>. HIDE DEF pgd, tables, leaf, mappings, more, r
  <2>. QED BY <1>0, <2>1 DEF Whole
<1>. HIDE DEF r, more
<1>4. /\ r.s.pgd = pgd /\ r.s.tables = tables /\ r.s.leaf = leaf
      /\ r.s.mappings = more /\ r.free = m.free /\ r.content = m.content
  BY <1>3 DEF Whole
<1>5. r \in Memories /\ r.s \in Spaces
  <2>1. [pgd |-> pgd, tables |-> tables, leaf |-> leaf, mappings |-> more] \in Spaces
    BY <1>1, <1>2 DEF Spaces, Leafs
  <2>. HIDE DEF pgd, tables, leaf, mappings
  <2>. QED BY <1>0, <1>3, <2>1 DEF Memories, Whole
<1>6. PagesOK(r, others, goal) /\ Filled(r.s) = Filled(m.s)
  <2>1. ASSUME NEW p \in Positions PROVE FrameAt(r.s, p) = FrameAt(m.s, p)
    BY <1>4 DEF FrameAt
  <2>. QED BY <1>0, <1>4, <1>5, <2>1, KeepPages DEF SameAt
<1>7. ASSUME NEW w, NEW prot, Covered(mappings, w, prot) PROVE Covered(more, w, prot)
  <2>1. PICK i \in 1..Len(mappings) : /\ mappings[i].vaddr <= w
                                      /\ w < MappingEnd(mappings[i])
                                      /\ mappings[i].prot = prot
    BY <1>7 DEF Covered
  <2>2. mappings[i] \in Range(more)
    BY <1>1, <1>2, LenProperties DEF Range
  <2>3. PICK j \in DOMAIN more : more[j] = mappings[i]
    BY <2>2 DEF Range
  <2>4. j \in 1..Len(more)
    BY <1>2
  <2>. QED BY <2>1, <2>3, <2>4 DEF Covered
<1>8. SpaceOK(r.s)
  <2>1. ASSUME NEW w \in Pages, r.s.leaf[w] # Absent
        PROVE  /\ r.s.tables[w \div Entries] # 0
               /\ IF w = Trampoline
                  THEN r.s.leaf[w] = [frame |-> Kernel, prot |-> {"r", "x"}]
                  ELSE r.s.leaf[w].frame \in Frames
                       /\ Covered(r.s.mappings, w, r.s.leaf[w].prot)
    BY <1>0, <1>4, <1>7, <2>1 DEF SpaceOK, LeavesOK
  <2>. QED BY <1>2, <1>4, <1>5, <2>1 DEF SpaceOK, LeavesOK
<1>. QED BY <1>4, <1>6, <1>8, Zenon DEF MemoryOK, r, more

\* A mapping made by the kernel or by mmap, not populated, leaves the pages
\* alone.  There may be no place for it.
Adds(m, others, goal, vaddr, size, prot, backer, whole) ==
  LET v == _get_mapping_vaddr(m.s.mappings, vaddr, size)
      mapping == [vaddr |-> v, size |-> size, prot |-> prot,
                  backer |-> backer, whole |-> whole]
      r == task_add_mapping(m, vaddr, size, prot, backer, whole, FALSE)
  IN  /\ MemoryOK(r, others, goal)
      /\ r.s.pgd = m.s.pgd /\ r.s.leaf = m.s.leaf
      /\ r.free = m.free /\ Filled(r.s) = Filled(m.s)
      /\ v = -1 => r = m
      /\ v # -1 => r = Mapping(m, mapping) /\ Fits(m.s.mappings, mapping)

\* task_add_mapping without populating does what Adds says.
LEMMA AddMapping ==
  ASSUME NEW m, NEW others, NEW goal, MemoryOK(m, others, goal),
         NEW vaddr \in Nat, NEW size \in Nat, size >= 1,
         NEW prot \in SUBSET Access, NEW backer \in {"anon", "file"},
         NEW whole \in BOOLEAN
  PROVE  Adds(m, others, goal, vaddr, size, prot, backer, whole)
<1>. DEFINE v == _get_mapping_vaddr(m.s.mappings, vaddr, size)
            mapping == [vaddr |-> v, size |-> size, prot |-> prot,
                        backer |-> backer, whole |-> whole]
            r == task_add_mapping(m, vaddr, size, prot, backer, whole, FALSE)
<1>1. MappingsOK(m.s.mappings)
  BY DEF MemoryOK, SpaceOK
<1>2. \/ v = -1
      \/ /\ v \in Nat /\ Trampoline < v /\ v + size <= KernelBase
         /\ \A i \in 1..Len(m.s.mappings) :
              MappingEnd(m.s.mappings[i]) <= v \/ v + size <= m.s.mappings[i].vaddr
  BY <1>1, PlaceFound
<1>3. r = IF v = -1 THEN m ELSE Mapping(m, mapping)
  BY DEF task_add_mapping, Mapping
<1>4. ASSUME v # -1 PROVE Fits(m.s.mappings, mapping)
  <2>1. /\ v \in Nat /\ Trampoline < v /\ v + size <= KernelBase
        /\ \A i \in 1..Len(m.s.mappings) :
             MappingEnd(m.s.mappings[i]) <= v \/ v + size <= m.s.mappings[i].vaddr
    BY <1>2, <1>4
  <2>. HIDE DEF v
  <2>2. Trampoline \in Nat /\ KernelBase \in Nat /\ Pages = 0..(KernelBase - 1)
    BY TrampolinePage, PageTable
  <2>3. v \in Pages /\ size \in Pages
    BY <2>1, <2>2
  <2>4. mapping \in Mappings /\ mapping.vaddr = v /\ mapping.size = size
        /\ MappingEnd(mapping) = v + size
    BY <2>3 DEF Mappings, MappingEnd
  <2>. HIDE DEF mapping
  <2>. QED BY <2>1, <2>4 DEF Fits
<1>. HIDE DEF v, mapping, r
<1>5. v # -1 => /\ MemoryOK(Mapping(m, mapping), others, goal)
                /\ Mapping(m, mapping).s.pgd = m.s.pgd
                /\ Mapping(m, mapping).s.leaf = m.s.leaf
                /\ Mapping(m, mapping).free = m.free
                /\ Filled(Mapping(m, mapping).s) = Filled(m.s)
  BY <1>4, AddOne
<1>. QED BY <1>3, <1>4, <1>5 DEF v, mapping, r, Adds

-----------------------------------------------------------------------------
(* Installing and copying the pages of a mapping.                          *)

\* A page is entered with two places of the goal.
Allowed(goal, v) == <<"leaf", v>> \in goal /\ <<"table", v \div Entries>> \in goal

\* The memory F[n-1] becomes F[n] when the page v is installed, or left out.
FillStep(m, r, goal, v, prot) ==
  \/ r = m
  \/ Allowed(goal, v) /\ \E what \in Contents : r = Installed(m, v, what, prot)

\* Pages of a mapping that are not installed yet.
Fillable(s, first, size, prot) ==
  \A v \in first..(first + size - 1) :
    v # Trampoline /\ s.leaf[v] = Absent /\ Covered(s.mappings, v, prot)

\* A sequence of memories each of which comes from the one before it.
FillSteps(F, goal, first, size, prot) ==
  \A n \in 1..size :
    F[n-1] \in Memories => FillStep(F[n-1], F[n], goal, first + n - 1, prot)

\* What the last of them is like.
FilledUp(F, others, goal, first, size) ==
  /\ MemoryOK(F[size], others, goal)
  /\ F[size].s.mappings = F[0].s.mappings /\ F[size].s.pgd = F[0].s.pgd
  /\ \A w \in Pages : w \notin first..(first + size - 1) =>
       F[size].s.leaf[w] = F[0].s.leaf[w]

\* The pages from first on, installed one after the other, or left out.
LEMMA FillingKeeps ==
  ASSUME NEW F, NEW others, NEW goal, NEW first \in Nat, NEW size \in Nat,
         first + size <= KernelBase, NEW prot \in SUBSET Access,
         MemoryOK(F[0], others, goal),
         Fillable(F[0].s, first, size, prot), FillSteps(F, goal, first, size, prot)
  PROVE  FilledUp(F, others, goal, first, size)
<1>. DEFINE Good(n) ==
              /\ MemoryOK(F[n], others, goal)
              /\ F[n].s.mappings = F[0].s.mappings /\ F[n].s.pgd = F[0].s.pgd
              /\ \A w \in Pages : w \notin first..(first + n - 1) =>
                   F[n].s.leaf[w] = F[0].s.leaf[w]
            Bad == {n \in 0..size : ~ Good(n)}
<1>1. Good(0)
  OBVIOUS
<1>2. ASSUME NEW n \in 1..size, Good(n - 1) PROVE Good(n)
  <2>. DEFINE v == first + n - 1
              m == F[n-1]
  <2>0. v \in Pages /\ v \in first..(first + size - 1) /\ v \notin first..(first + (n - 1) - 1)
    BY PageTable
  <2>1. /\ MemoryOK(m, others, goal) /\ m \in Memories
        /\ m.s.mappings = F[0].s.mappings /\ m.s.pgd = F[0].s.pgd
        /\ \A w \in Pages : w \notin first..(first + (n - 1) - 1) =>
             m.s.leaf[w] = F[0].s.leaf[w]
    BY <1>2 DEF MemoryOK, PagesOK
  <2>2. v # Trampoline /\ m.s.leaf[v] = Absent /\ Covered(m.s.mappings, v, prot)
    BY <2>0, <2>1 DEF Fillable
  <2>3. ASSUME NEW w \in Pages, w \notin first..(first + n - 1)
        PROVE  w # v /\ w \notin first..(first + (n - 1) - 1)
    BY <2>3
  <2>4. CASE F[n] = m
    BY <2>1, <2>3, <2>4
  <2>5. ASSUME NEW what \in Contents, F[n] = Installed(m, v, what, prot),
               Allowed(goal, v)
        PROVE  Good(n)
    <3>. HIDE DEF v, m
    <3>1. /\ MemoryOK(F[n], others, goal)
          /\ F[n].s.mappings = m.s.mappings /\ F[n].s.pgd = m.s.pgd
          /\ \A w \in Pages \ {v} : F[n].s.leaf[w] = m.s.leaf[w]
      BY <2>0, <2>1, <2>2, <2>5, InstallOne DEF Allowed
    <3>2. \A w \in Pages : w \notin first..(first + n - 1) =>
            F[n].s.leaf[w] = F[0].s.leaf[w]
      BY <2>1, <2>3, <3>1
    <3>. QED BY <2>1, <3>1, <3>2
  <2>6. FillStep(m, F[n], goal, v, prot)
    BY <2>1 DEF FillSteps
  <2>. HIDE DEF Good, v, m
  <2>. QED BY <2>4, <2>5, <2>6 DEF FillStep
<1>3. Bad = {}
  <2>1. SUFFICES ASSUME Bad # {} PROVE FALSE
    OBVIOUS
  <2>2. PICK k \in Bad : \A j \in Bad : k <= j
    <3>1. Bad \in SUBSET Nat
      OBVIOUS
    <3>. HIDE DEF Bad
    <3>. QED BY <2>1, <3>1, LeastElement
  <2>. HIDE DEF Good
  <2>3. k \in 1..size /\ k - 1 \in 0..size /\ k - 1 \notin Bad
    BY <1>1, <2>2
  <2>4. Good(k - 1)
    BY <2>3
  <2>5. Good(k)
    BY <1>2, <2>3, <2>4
  <2>. QED BY <2>2, <2>5
<1>4. Good(size)
  <2>. HIDE DEF Good
  <2>. QED BY <1>3
<1>. QED BY <1>4 DEF FilledUp

\* There is a function that satisfies the recursion of InstallAll.
LEMMA InstallExists ==
  ASSUME NEW m, NEW mapping, mapping.size \in Nat
  PROVE  \E F : F = [n \in 0..mapping.size |->
           IF n = 0 THEN m
           ELSE task_install_page(F[n-1], mapping, mapping.vaddr + n - 1)]
<1>. DEFINE Step(F, n) == IF n = 0 THEN m
              ELSE task_install_page(F[n-1], mapping, mapping.vaddr + n - 1)
            Ok(k) == \E F : F = [n \in 0..k |-> Step(F, n)]
            Bad == {k \in 0..mapping.size : ~ Ok(k)}
<1>1. SUFFICES ASSUME Bad # {} PROVE FALSE
  OBVIOUS
<1>2. PICK k \in Bad : \A j \in Bad : k <= j
  <2>1. Bad \in SUBSET Nat
    OBVIOUS
  <2>. HIDE DEF Bad
  <2>. QED BY <1>1, <2>1, LeastElement
<1>3. CASE k = 0
  <2>. DEFINE F == [n \in 0..0 |-> m]
  <2>1. F = [n \in 0..0 |-> Step(F, n)]
    OBVIOUS
  <2>. QED BY <1>2, <1>3, <2>1
<1>4. CASE k # 0
  <2>1. k \in 1..mapping.size /\ k-1 \in 0..mapping.size /\ ~(k-1 \in Bad)
    BY <1>2, <1>4
  <2>2. PICK G : G = [n \in 0..(k-1) |-> Step(G, n)]
    BY <2>1
  <2>. DEFINE F == [n \in 0..k |-> IF n = k THEN Step(G, k) ELSE G[n]]
  <2>3. \A n \in 0..(k-1) : F[n] = G[n]
    BY <2>1
  <2>4. ASSUME NEW n \in 0..k PROVE F[n] = Step(F, n)
    <3>1. Step(F, n) = Step(G, n)
      <4>1. CASE n = 0
        BY <4>1
      <4>2. CASE n # 0
        <5>1. F[n-1] = G[n-1]
          BY <2>1, <2>3, <4>2
        <5>. HIDE DEF F
        <5>. QED BY <4>2, <5>1
      <4>. QED BY <4>1, <4>2
    <3>2. F[n] = Step(G, n)
      <4>1. \A j \in 0..(k-1) : G[j] = Step(G, j)
        BY <2>2
      <4>2. n = k \/ n \in 0..(k-1)
        BY <2>1
      <4>. HIDE DEF Step
      <4>. QED BY <4>1, <4>2
    <3>. QED BY <3>1, <3>2
  <2>5. F = [n \in 0..k |-> Step(F, n)]
    BY <2>4
  <2>. HIDE DEF F
  <2>. QED BY <1>2, <2>5
<1>. QED BY <1>3, <1>4

\* Populating a mapping none of whose pages is installed.
LEMMA InstallAllKeeps ==
  ASSUME NEW m, NEW others, NEW goal, MemoryOK(m, others, goal),
         NEW mapping \in Mappings, Trampoline < mapping.vaddr,
         MappingEnd(mapping) <= KernelBase,
         \A v \in mapping.vaddr..(MappingEnd(mapping) - 1) :
           /\ m.s.leaf[v] = Absent
           /\ Covered(m.s.mappings, v, mapping.prot)
           /\ Allowed(goal, v)
  PROVE  LET r == InstallAll(m, mapping)
         IN  /\ MemoryOK(r, others, goal)
             /\ r.s.mappings = m.s.mappings /\ r.s.pgd = m.s.pgd
             /\ r.s.leaf[Trampoline] = m.s.leaf[Trampoline]
<1>. DEFINE first == mapping.vaddr
            size == mapping.size
            F == CHOOSE F : F = [n \in 0..mapping.size |->
                   IF n = 0 THEN m
                   ELSE task_install_page(F[n-1], mapping, mapping.vaddr + n - 1)]
<1>1. /\ first \in Nat /\ size \in Nat /\ mapping.prot \in SUBSET Access
      /\ MappingEnd(mapping) = first + size
  BY PageTable DEF Mappings, MappingEnd
<1>2. InstallAll(m, mapping) = F[size]
  BY Zenon DEF InstallAll
<1>3. F = [n \in 0..mapping.size |->
             IF n = 0 THEN m
             ELSE task_install_page(F[n-1], mapping, mapping.vaddr + n - 1)]
  BY <1>1, InstallExists
<1>. HIDE DEF F
<1>4. F[0] = m
  BY <1>1, <1>3
<1>5. ASSUME NEW n \in 1..size PROVE FillStep(F[n-1], F[n], goal, first + n - 1, mapping.prot)
  <2>1. F[n] = task_install_page(F[n-1], mapping, first + n - 1)
    BY <1>1, <1>3
  <2>2. Fresh(mapping, first + n - 1) \in Contents
    BY DEF Fresh, Contents
  <2>3. F[n] = Installed(F[n-1], first + n - 1, Fresh(mapping, first + n - 1), mapping.prot)
    BY <2>1 DEF task_install_page, Installed
  <2>4. first + n - 1 \in first..(MappingEnd(mapping) - 1)
    BY <1>1
  <2>5. Allowed(goal, first + n - 1)
    BY <2>4
  <2>. QED BY <2>2, <2>3, <2>5 DEF FillStep
<1>6. ASSUME NEW v \in first..(first + size - 1)
      PROVE  v # Trampoline /\ F[0].s.leaf[v] = Absent
             /\ Covered(F[0].s.mappings, v, mapping.prot)
  BY <1>1, <1>4, TrampolinePage
<1>7. /\ MemoryOK(F[size], others, goal)
      /\ F[size].s.mappings = F[0].s.mappings /\ F[size].s.pgd = F[0].s.pgd
      /\ \A w \in Pages : w \notin first..(first + size - 1) =>
           F[size].s.leaf[w] = F[0].s.leaf[w]
  <2>1. first + size <= KernelBase /\ MemoryOK(F[0], others, goal)
    BY <1>1, <1>4
  <2>. DEFINE prot == mapping.prot
  <2>. HIDE DEF first, size
  <2>2. Fillable(F[0].s, first, size, prot) /\ FillSteps(F, goal, first, size, prot)
    BY <1>5, <1>6 DEF Fillable, FillSteps
  <2>3. prot \in SUBSET Access /\ first \in Nat /\ size \in Nat
    BY <1>1
  <2>. HIDE DEF prot
  <2>4. FilledUp(F, others, goal, first, size)
    BY <2>1, <2>2, <2>3, FillingKeeps
  <2>. QED BY <2>4 DEF FilledUp
<1>8. Trampoline \in Pages /\ Trampoline \notin first..(first + size - 1)
  BY <1>1, TrampolinePage
<1>. QED BY <1>2, <1>4, <1>7, <1>8

\* At a page there is nothing in a copy and its source, or there is the same
\* in both, where others tells what the pages of the source hold.
Agrees(m, source, others, v) ==
  \/ m.s.leaf[v] = Absent /\ source.leaf[v] = Absent
  \/ /\ m.s.leaf[v] # Absent /\ source.leaf[v] # Absent
     /\ m.content[m.s.leaf[v].frame] = others[source.leaf[v].frame]

\* It is others who own the pages of the source.
Foreign(source, others) ==
  \A v \in Pages \ {Trampoline} :
    source.leaf[v] # Absent => source.leaf[v].frame \in DOMAIN others

\* What agrees goes on to agree where the entry stays and free pages only are
\* taken.
LEMMA AgreesStill ==
  ASSUME NEW m, NEW others, NEW goal, MemoryOK(m, others, goal),
         NEW r, Kept(m, r), NEW source,
         NEW v \in Pages, v # Trampoline, r.s.leaf[v] = m.s.leaf[v],
         Agrees(m, source, others, v)
  PROVE  Agrees(r, source, others, v)
<1>1. CASE m.s.leaf[v] = Absent
  BY <1>1 DEF Agrees
<1>2. CASE m.s.leaf[v] # Absent
  <2>1. m.s.leaf[v].frame \in Frames
    BY <1>2 DEF MemoryOK, SpaceOK, LeavesOK
  <2>2. m.s.leaf[v].frame \in Owned(m.s)
    <3>1. <<"leaf", v>> \in Filled(m.s) /\ FrameAt(m.s, <<"leaf", v>>) = m.s.leaf[v].frame
      BY <2>1, PositionKinds DEF Filled
    <3>. QED BY <3>1 DEF Owned
  <2>3. m.s.leaf[v].frame \notin m.free
    BY <2>2 DEF MemoryOK, PagesOK
  <2>4. r.content[m.s.leaf[v].frame] = m.content[m.s.leaf[v].frame]
    BY <2>1, <2>3 DEF Kept
  <2>. QED BY <1>2, <2>4 DEF Agrees
<1>. QED BY <1>1, <1>2

\* What the recursive function of CopyPages is at n, given its values F
\* before n.
CopyStep(F, m, source, mapping, n) ==
  LET v == mapping.vaddr + n - 1
  IN  IF n = 0 THEN m
      ELSE IF source.leaf[v] = Absent THEN F[n-1]
      ELSE CopyPage(F[n-1], source, v, mapping.prot)

\* There is a function that satisfies the recursion of CopyPages.
CopyDefined(m, source, mapping) ==
  \E F : F = [n \in 0..mapping.size |-> CopyStep(F, m, source, mapping, n)]

\* The recursion that copies the pages of a mapping is defined.
LEMMA CopyPagesExists ==
  ASSUME NEW m, NEW source, NEW mapping, mapping.size \in Nat
  PROVE  CopyDefined(m, source, mapping)
<1>. DEFINE Step(F, n) == CopyStep(F, m, source, mapping, n)
            Ok(k) == \E F : F = [n \in 0..k |-> Step(F, n)]
            Bad == {k \in 0..mapping.size : ~ Ok(k)}
<1>1. SUFFICES ASSUME Bad # {} PROVE FALSE
  BY DEF CopyDefined
<1>2. PICK k \in Bad : \A j \in Bad : k <= j
  <2>1. Bad \in SUBSET Nat
    OBVIOUS
  <2>. HIDE DEF Bad
  <2>. QED BY <1>1, <2>1, LeastElement
<1>3. CASE k = 0
  <2>. DEFINE F == [n \in 0..0 |-> m]
  <2>1. F = [n \in 0..0 |-> Step(F, n)]
    BY DEF CopyStep
  <2>. QED BY <1>2, <1>3, <2>1
<1>4. CASE k # 0
  <2>1. k \in 1..mapping.size /\ k-1 \in 0..mapping.size /\ ~(k-1 \in Bad)
    BY <1>2, <1>4
  <2>2. PICK G : G = [n \in 0..(k-1) |-> Step(G, n)]
    BY <2>1
  <2>. DEFINE F == [n \in 0..k |-> IF n = k THEN Step(G, k) ELSE G[n]]
  <2>3. \A n \in 0..(k-1) : F[n] = G[n]
    BY <2>1
  <2>4. ASSUME NEW n \in 0..k PROVE F[n] = Step(F, n)
    <3>1. Step(F, n) = Step(G, n)
      <4>1. CASE n = 0
        BY <4>1 DEF CopyStep
      <4>2. CASE n # 0
        <5>1. F[n-1] = G[n-1]
          BY <2>1, <2>3, <4>2
        <5>. HIDE DEF F
        <5>. QED BY <4>2, <5>1 DEF CopyStep
      <4>. QED BY <4>1, <4>2
    <3>2. F[n] = Step(G, n)
      <4>1. \A j \in 0..(k-1) : G[j] = Step(G, j)
        BY <2>2
      <4>2. n = k \/ n \in 0..(k-1)
        BY <2>1
      <4>. HIDE DEF Step
      <4>. QED BY <4>1, <4>2
    <3>. QED BY <3>1, <3>2
  <2>5. F = [n \in 0..k |-> Step(F, n)]
    BY <2>4
  <2>. HIDE DEF F
  <2>. QED BY <1>2, <2>5
<1>. QED BY <1>3, <1>4

\* Where the pages of one mapping are copied, they agree with those of the
\* source, and pages that agreed before go on to do so.
CopiedPages(m, r, source, others, mapping) ==
  \A v \in Pages \ {Trampoline} :
    (mapping.vaddr <= v /\ v < MappingEnd(mapping)) \/ Agrees(m, source, others, v)
      => Agrees(r, source, others, v)

\* Copying the pages of a mapping none of whose pages is installed yet.
LEMMA CopyPagesKeeps ==
  ASSUME NEW m, NEW others, NEW goal, MemoryOK(m, others, goal),
         NEW source \in Spaces,
         NEW mapping \in Mappings, Trampoline < mapping.vaddr,
         MappingEnd(mapping) <= KernelBase,
         \A v \in mapping.vaddr..(MappingEnd(mapping) - 1) :
           /\ m.s.leaf[v] = Absent
           /\ Covered(m.s.mappings, v, mapping.prot)
           /\ source.leaf[v] # Absent =>
                Allowed(goal, v) /\ source.leaf[v].frame \in Frames,
         Foreign(source, others)
  PROVE  LET r == CopyPages(m, source, mapping)
         IN  /\ MemoryOK(r, others, goal)
             /\ r.s.mappings = m.s.mappings /\ r.s.pgd = m.s.pgd
             /\ \A w \in Pages : w < mapping.vaddr \/ MappingEnd(mapping) <= w =>
                  r.s.leaf[w] = m.s.leaf[w]
             /\ CopiedPages(m, r, source, others, mapping)
<1>. DEFINE first == mapping.vaddr
            size == mapping.size
            F == CHOOSE F : F = [n \in 0..mapping.size |->
                                   CopyStep(F, m, source, mapping, n)]
<1>1. /\ first \in Nat /\ size \in Nat /\ mapping.prot \in SUBSET Access
      /\ MappingEnd(mapping) = first + size
  BY PageTable DEF Mappings, MappingEnd
<1>2. CopyPages(m, source, mapping) = F[size]
  BY Zenon DEF CopyPages, CopyStep
<1>3. F = [n \in 0..mapping.size |-> CopyStep(F, m, source, mapping, n)]
  <2>1. mapping.size \in Nat
    BY <1>1
  <2>2. \E G : G = [n \in 0..mapping.size |-> CopyStep(G, m, source, mapping, n)]
    <3>1. CopyDefined(m, source, mapping)
      BY <2>1, CopyPagesExists
    <3>. QED BY <3>1 DEF CopyDefined
  <2>. QED BY <2>2
<1>. HIDE DEF F
<1>4. F[0] = m
  BY <1>1, <1>3 DEF CopyStep
<1>5. ASSUME NEW n \in 1..size, F[n-1] \in Memories
      PROVE  FillStep(F[n-1], F[n], goal, first + n - 1, mapping.prot)
  <2>. DEFINE v == first + n - 1
              what == F[n-1].content[source.leaf[v].frame]
  <2>1. F[n] = IF source.leaf[v] = Absent THEN F[n-1]
               ELSE CopyPage(F[n-1], source, v, mapping.prot)
    BY <1>1, <1>3 DEF CopyStep
  <2>2. v \in first..(MappingEnd(mapping) - 1)
    BY <1>1
  <2>3. CASE source.leaf[v] # Absent
    <3>1. Allowed(goal, v) /\ source.leaf[v].frame \in Frames
      BY <2>2, <2>3
    <3>2. what \in Contents
      <4>1. F[n-1].content \in [Frames -> Contents]
        BY <1>5 DEF Memories
      <4>. HIDE DEF v
      <4>. QED BY <3>1, <4>1
    <3>3. F[n] = Installed(F[n-1], v, what, mapping.prot)
      BY <2>1, <2>3 DEF CopyPage, Installed
    <3>. HIDE DEF v, what
    <3>. QED BY <3>1, <3>2, <3>3 DEF FillStep, v
  <2>. QED BY <2>1, <2>3 DEF FillStep
<1>6. ASSUME NEW v \in first..(first + size - 1)
      PROVE  v # Trampoline /\ F[0].s.leaf[v] = Absent
             /\ Covered(F[0].s.mappings, v, mapping.prot)
  BY <1>1, <1>4, TrampolinePage
<1>7. ASSUME NEW k \in 0..size
      PROVE  /\ MemoryOK(F[k], others, goal)
             /\ F[k].s.mappings = F[0].s.mappings /\ F[k].s.pgd = F[0].s.pgd
             /\ \A w \in Pages : w \notin first..(first + k - 1) =>
                  F[k].s.leaf[w] = F[0].s.leaf[w]
  <2>1. first + k <= KernelBase /\ MemoryOK(F[0], others, goal) /\ k \in Nat
    BY <1>1, <1>4, PageTable
  <2>2. /\ \A n \in 1..k : n \in 1..size
        /\ \A v \in first..(first + k - 1) : v \in first..(first + size - 1)
    BY <1>1
  <2>. HIDE DEF first, size
  <2>. DEFINE prot == mapping.prot
  <2>3. FillSteps(F, goal, first, k, prot)
    BY <1>5, <2>2 DEF FillSteps
  <2>4. Fillable(F[0].s, first, k, prot)
    BY <1>6, <2>2 DEF Fillable
  <2>5. first \in Nat /\ prot \in SUBSET Access
    BY <1>1
  <2>. HIDE DEF prot
  <2>6. FilledUp(F, others, goal, first, k)
    BY <2>1, <2>3, <2>4, <2>5, FillingKeeps
  <2>. QED BY <2>6 DEF FilledUp
<1>8. ASSUME NEW w \in Pages, w < first \/ first + size <= w
      PROVE  w \notin first..(first + size - 1)
  BY <1>1, <1>8
<1>. DEFINE Agree(n, v) == Agrees(F[n], source, others, v)
            Good(n) == \A v \in Pages \ {Trampoline} :
                         v \in first..(first + n - 1) \/ Agree(0, v) => Agree(n, v)
            Bad == {n \in 0..size : ~ Good(n)}
<1>9. Good(0)
  BY <1>1
<1>10. ASSUME NEW n \in 1..size, Good(n - 1) PROVE Good(n)
  <2>. DEFINE v == first + n - 1
              k == F[n-1]
  <2>1. /\ n - 1 \in 0..size /\ v \in first..(first + size - 1)
        /\ v \notin first..(first + (n - 1) - 1)
        /\ \A w \in first..(first + n - 1) : w = v \/ w \in first..(first + (n - 1) - 1)
    BY <1>1
  <2>2. v \in Pages /\ v # Trampoline /\ F[0].s.leaf[v] = Absent
        /\ Covered(F[0].s.mappings, v, mapping.prot)
    <3>1. v \in Pages
      BY <1>1, PageTable
    <3>. HIDE DEF v
    <3>. QED BY <1>6, <2>1, <3>1
  <2>3. /\ MemoryOK(k, others, goal) /\ k.s.mappings = F[0].s.mappings
        /\ k.s.leaf[v] = F[0].s.leaf[v]
    <3>1. n - 1 \in 0..size
      BY <2>1
    <3>2. /\ MemoryOK(F[n-1], others, goal) /\ F[n-1].s.mappings = F[0].s.mappings
          /\ \A w \in Pages : w \notin first..(first + (n - 1) - 1) =>
               F[n-1].s.leaf[w] = F[0].s.leaf[w]
      BY <1>7, <3>1
    <3>. HIDE DEF v, first, size
    <3>. QED BY <2>1, <2>2, <3>2
  <2>4. F[n] = IF source.leaf[v] = Absent THEN k
               ELSE CopyPage(k, source, v, mapping.prot)
    <3>1. n \in 0..mapping.size /\ n # 0
      BY <1>1
    <3>. HIDE DEF F
    <3>2. F[n] = CopyStep(F, m, source, mapping, n)
      BY <1>3, <3>1
    <3>. QED BY <3>1, <3>2 DEF CopyStep
  <2>. HIDE DEF k
  <2>5. Agrees(F[n], source, others, v)
        /\ \A w \in Pages \ {Trampoline} : w # v /\ Agrees(k, source, others, w) =>
             Agrees(F[n], source, others, w)
    <3>1. CASE source.leaf[v] = Absent
      BY <2>2, <2>3, <2>4, <3>1 DEF Agrees
    <3>2. CASE source.leaf[v] # Absent
      <4>. DEFINE what == k.content[source.leaf[v].frame]
      <4>1. Allowed(goal, v) /\ source.leaf[v].frame \in Frames
        BY <1>1, <2>1, <3>2
      <4>2. source.leaf[v].frame \in DOMAIN others
        BY <2>2, <3>2 DEF Foreign
      <4>. HIDE DEF v
      <4>3. what \in Contents /\ what = others[source.leaf[v].frame]
        <5>1. k.content \in [Frames -> Contents]
          BY <2>3 DEF MemoryOK, PagesOK, Memories
        <5>. QED BY <2>3, <4>1, <4>2, <5>1 DEF MemoryOK, PagesOK
      <4>4. F[n] = Installed(k, v, what, mapping.prot)
        BY <2>4, <3>2 DEF CopyPage, Installed
      <4>. HIDE DEF what
      <4>5. /\ F[n].s.leaf[v] # Absent /\ F[n].content[F[n].s.leaf[v].frame] = what
            /\ \A w \in Pages \ {v} : F[n].s.leaf[w] = k.s.leaf[w]
            /\ Kept(k, F[n])
        <5>1. k.s.leaf[v] = Absent /\ Covered(k.s.mappings, v, mapping.prot)
          BY <2>2, <2>3
        <5>2. <<"leaf", v>> \in goal /\ <<"table", v \div Entries>> \in goal
          BY <4>1 DEF Allowed
        <5>. DEFINE prot == mapping.prot
        <5>3. /\ MemoryOK(k, others, goal) /\ v \in Pages /\ v # Trampoline
              /\ k.s.leaf[v] = Absent /\ Covered(k.s.mappings, v, prot)
              /\ what \in Contents /\ prot \in SUBSET Access
              /\ F[n] = Installed(k, v, what, prot)
          BY <1>1, <2>2, <2>3, <4>3, <4>4, <5>1
        <5>. HIDE DEF prot
        <5>. QED BY <5>2, <5>3, InstallOne
      <4>6. Agrees(F[n], source, others, v)
        BY <3>2, <4>3, <4>5 DEF Agrees
      <4>7. ASSUME NEW w \in Pages \ {Trampoline}, w # v, Agrees(k, source, others, w)
            PROVE  Agrees(F[n], source, others, w)
        BY <2>3, <4>5, <4>7, AgreesStill
      <4>. QED BY <4>6, <4>7
    <3>. QED BY <3>1, <3>2
  <2>6. \A w \in Pages \ {Trampoline} :
          w \in first..(first + (n - 1) - 1) \/ Agree(0, w) => Agrees(k, source, others, w)
    BY <1>10 DEF k
  <2>. HIDE DEF Agree, v
  <2>. QED BY <2>1, <2>5, <2>6 DEF Agree, v
<1>11. Bad = {}
  <2>1. SUFFICES ASSUME Bad # {} PROVE FALSE
    OBVIOUS
  <2>2. PICK k \in Bad : \A j \in Bad : k <= j
    <3>1. Bad \in SUBSET Nat
      BY <1>1
    <3>. HIDE DEF Bad
    <3>. QED BY <2>1, <3>1, LeastElement
  <2>. HIDE DEF Good
  <2>3. k \in 1..size /\ k - 1 \in 0..size /\ k - 1 \notin Bad
    BY <1>1, <1>9, <2>2
  <2>4. Good(k - 1)
    BY <2>3
  <2>5. Good(k)
    BY <1>10, <2>3, <2>4
  <2>. QED BY <2>2, <2>5
<1>12. Good(size)
  <2>1. size \in 0..size
    BY <1>1
  <2>. HIDE DEF Good
  <2>. QED BY <1>11, <2>1
<1>13. CopiedPages(m, F[size], source, others, mapping)
  <2>1. ASSUME NEW v \in Pages, first <= v, v < first + size
        PROVE  v \in first..(first + size - 1)
    BY <1>1, <2>1, PageTable
  <2>. HIDE DEF first, size
  <2>. QED BY <1>1, <1>4, <1>12, <2>1 DEF CopiedPages, first, size
<1>14. /\ MemoryOK(F[size], others, goal)
       /\ F[size].s.mappings = F[0].s.mappings /\ F[size].s.pgd = F[0].s.pgd
       /\ \A w \in Pages : w \notin first..(first + size - 1) =>
            F[size].s.leaf[w] = F[0].s.leaf[w]
  <2>1. size \in 0..size
    BY <1>1
  <2>. QED BY <1>7, <2>1
<1>. QED BY <1>1, <1>2, <1>4, <1>8, <1>13, <1>14

\* The pages of a mapping that is in nobody's way are not installed.
LEMMA PagesAbsent ==
  ASSUME NEW s, SpaceOK(s), NEW mapping, Fits(s.mappings, mapping),
         NEW v \in mapping.vaddr..(MappingEnd(mapping) - 1)
  PROVE  v \in Pages /\ v # Trampoline /\ s.leaf[v] = Absent
<1>1. /\ mapping.vaddr \in Nat /\ MappingEnd(mapping) \in Nat
      /\ MappingEnd(mapping) <= KernelBase /\ Trampoline < mapping.vaddr
      /\ Trampoline \in Nat
  <2>1. mapping.vaddr \in Nat /\ mapping.size \in Nat
    BY PageTable DEF Fits, Mappings
  <2>. QED BY <2>1, TrampolinePage DEF MappingEnd, Fits
<1>2. v \in Pages /\ v # Trampoline /\ v \in Nat
      /\ mapping.vaddr <= v /\ v < MappingEnd(mapping)
  BY <1>1, PageTable
<1>3. ASSUME s.leaf[v] # Absent PROVE FALSE
  <2>1. Covered(s.mappings, v, s.leaf[v].prot)
    BY <1>2, <1>3 DEF SpaceOK, LeavesOK
  <2>2. PICK i \in 1..Len(s.mappings) :
          s.mappings[i].vaddr <= v /\ v < MappingEnd(s.mappings[i])
    BY <2>1 DEF Covered
  <2>3. s.mappings[i].vaddr \in Nat /\ MappingEnd(s.mappings[i]) \in Nat
    <3>1. s.mappings \in Seq(Mappings)
      BY DEF SpaceOK, MappingsOK
    <3>. QED BY <3>1, MappingNumbers
  <2>4. MappingEnd(s.mappings[i]) <= mapping.vaddr \/ MappingEnd(mapping) <= s.mappings[i].vaddr
    BY DEF Fits
  <2>. QED BY <1>1, <1>2, <2>2, <2>3, <2>4
<1>. QED BY <1>2, <1>3

\* The pages of a mapping are covered once it is among the others.
LEMMA NewCovered ==
  ASSUME NEW mappings, MappingsOK(mappings), NEW mapping, Fits(mappings, mapping),
         NEW v \in mapping.vaddr..(MappingEnd(mapping) - 1)
  PROVE  Covered(_insert_mapping(mappings, mapping), v, mapping.prot)
<1>. DEFINE r == _insert_mapping(mappings, mapping)
<1>1. r \in Seq(Mappings) /\ mapping \in Range(r)
  BY InsertMapping DEF MappingsOK
<1>. HIDE DEF r
<1>2. PICK j \in DOMAIN r : r[j] = mapping
  BY <1>1 DEF Range
<1>3. j \in 1..Len(r)
  BY <1>1
<1>4. mapping.vaddr \in Nat /\ MappingEnd(mapping) \in Nat
  <2>1. mapping.vaddr \in Nat /\ mapping.size \in Nat
    BY PageTable DEF Fits, Mappings
  <2>. QED BY <2>1 DEF MappingEnd
<1>5. mapping.vaddr <= v /\ v < MappingEnd(mapping)
  BY <1>4
<1>6. Covered(r, v, mapping.prot)
  BY <1>2, <1>3, <1>5 DEF Covered
<1>. QED BY <1>6 DEF r

-----------------------------------------------------------------------------
(* Copying an address space.                                               *)

\* What becomes of a mapping in a copy.
Copied(mapping) ==
  [vaddr |-> mapping.vaddr, size |-> mapping.size, prot |-> mapping.prot,
   backer |-> mapping.backer, whole |-> TRUE]

\* Each mapping of a copy is put where it was, behind those before it, and
\* its pages take places that its source has filled.
CopiesOne(source, mapping, m, others) ==
  LET added == task_add_mapping(m, mapping.vaddr, mapping.size, mapping.prot,
                                mapping.backer, TRUE, FALSE)
      r == CopyPages(added, source, mapping)
  IN  /\ _get_mapping_vaddr(m.s.mappings, mapping.vaddr, mapping.size)
           = mapping.vaddr
      /\ MemoryOK(r, others, Filled(source)) /\ r.s.pgd = m.s.pgd
      /\ Len(r.s.mappings) = Len(m.s.mappings) + 1
      /\ r.s.mappings[Len(m.s.mappings) + 1] = Copied(mapping)
      /\ \A j \in 1..Len(m.s.mappings) : r.s.mappings[j] = m.s.mappings[j]
      /\ CopiedPages(m, r, source, others, mapping)

\* One turn of task_copy_mappings does what CopiesOne says.
LEMMA CopyOne ==
  ASSUME NEW source, SpaceOK(source), NEW i \in 1..Len(source.mappings),
         NEW m, NEW others, MemoryOK(m, others, Filled(source)),
         \A j \in 1..Len(m.s.mappings) :
           MappingEnd(m.s.mappings[j]) <= source.mappings[i].vaddr,
         Foreign(source, others)
  PROVE  CopiesOne(source, source.mappings[i], m, others)
<1>. DEFINE mapping == source.mappings[i]
            copy == Copied(mapping)
            added == task_add_mapping(m, mapping.vaddr, mapping.size, mapping.prot,
                                      mapping.backer, TRUE, FALSE)
            r == CopyPages(added, source, mapping)
            goal == Filled(source)
<1>1. /\ mapping \in Mappings /\ Trampoline < mapping.vaddr
      /\ mapping.size >= 1 /\ MappingEnd(mapping) <= KernelBase
      /\ mapping.vaddr \in Nat /\ mapping.size \in Nat
      /\ MappingEnd(mapping) = mapping.vaddr + mapping.size
  <2>1. MappingsOK(source.mappings) /\ source.mappings \in Seq(Mappings)
    BY DEF SpaceOK, MappingsOK
  <2>2. mapping \in Mappings /\ Trampoline < mapping.vaddr
        /\ mapping.size >= 1 /\ MappingEnd(mapping) <= KernelBase
    BY <2>1 DEF MappingsOK
  <2>3. mapping.vaddr \in Nat /\ mapping.size \in Nat
        /\ MappingEnd(mapping) = mapping.vaddr + mapping.size
    BY <2>1, MappingNumbers
  <2>. QED BY <2>2, <2>3
<1>2. SpaceOK(m.s) /\ MappingsOK(m.s.mappings)
  BY DEF MemoryOK, SpaceOK
<1>3. source \in Spaces
  BY DEF SpaceOK
<1>4. /\ mapping.prot \in SUBSET Access /\ mapping.backer \in {"anon", "file"}
      /\ copy.vaddr = mapping.vaddr /\ copy.size = mapping.size
      /\ copy.prot = mapping.prot /\ MappingEnd(copy) = MappingEnd(mapping)
  BY <1>1 DEF Mappings, Copied, MappingEnd
<1>. HIDE DEF mapping, copy, added, r, goal
<1>5. _get_mapping_vaddr(m.s.mappings, mapping.vaddr, mapping.size) = mapping.vaddr
  <2>1. \A j \in 1..Len(m.s.mappings) : MappingEnd(m.s.mappings[j]) <= mapping.vaddr
    BY DEF mapping
  <2>. QED BY <1>1, <1>2, <2>1, PlaceFound
<1>6. /\ MemoryOK(added, others, goal) /\ added.s.pgd = m.s.pgd
      /\ added.s.leaf = m.s.leaf
      /\ added = Mapping(m, copy) /\ Fits(m.s.mappings, copy)
  <2>1. mapping.vaddr # -1
    BY <1>1
  <2>2. MemoryOK(m, others, goal)
    BY DEF goal
  <2>3. Adds(m, others, goal, mapping.vaddr, mapping.size, mapping.prot,
             mapping.backer, TRUE)
    BY <1>1, <1>4, <2>2, AddMapping
  <2>4. copy = [vaddr |-> _get_mapping_vaddr(m.s.mappings, mapping.vaddr, mapping.size),
                size |-> mapping.size, prot |-> mapping.prot,
                backer |-> mapping.backer, whole |-> TRUE]
    BY <1>5 DEF copy, Copied
  <2>. QED BY <1>5, <2>1, <2>3, <2>4 DEF Adds, added
<1>7. added.s.mappings = _insert_mapping(m.s.mappings, copy)
  BY <1>6, AddOne
<1>8. ASSUME NEW v \in mapping.vaddr..(MappingEnd(mapping) - 1)
      PROVE  /\ added.s.leaf[v] = Absent
             /\ Covered(added.s.mappings, v, mapping.prot)
             /\ source.leaf[v] # Absent =>
                  Allowed(goal, v) /\ source.leaf[v].frame \in Frames
  <2>1. v \in copy.vaddr..(MappingEnd(copy) - 1)
    BY <1>4
  <2>2. v \in Pages /\ v # Trampoline /\ m.s.leaf[v] = Absent
    BY <1>2, <1>6, <2>1, PagesAbsent
  <2>3. Covered(added.s.mappings, v, mapping.prot)
    BY <1>2, <1>4, <1>6, <1>7, <2>1, NewCovered
  <2>4. ASSUME source.leaf[v] # Absent
        PROVE  Allowed(goal, v) /\ source.leaf[v].frame \in Frames
    <3>1. source.tables[v \div Entries] # 0 /\ source.leaf[v].frame \in Frames
      BY <2>2, <2>4 DEF SpaceOK, LeavesOK
    <3>2. v \div Entries \in 0..(Roots - 1)
      BY <2>2, PageTable
    <3>. QED BY <2>2, <2>4, <3>1, <3>2, FilledPositions DEF goal, Allowed
  <2>. QED BY <1>6, <2>2, <2>3, <2>4
<1>9. /\ MemoryOK(r, others, goal)
      /\ r.s.mappings = added.s.mappings /\ r.s.pgd = added.s.pgd
      /\ CopiedPages(added, r, source, others, mapping)
  BY <1>1, <1>3, <1>6, <1>8, CopyPagesKeeps DEF r
<1>10. /\ Len(added.s.mappings) = Len(m.s.mappings) + 1
       /\ added.s.mappings[Len(m.s.mappings) + 1] = copy
       /\ \A j \in 1..Len(m.s.mappings) : added.s.mappings[j] = m.s.mappings[j]
  <2>1. \A j \in 1..Len(m.s.mappings) : MappingEnd(m.s.mappings[j]) <= copy.vaddr
    BY <1>4 DEF mapping
  <2>. QED BY <1>2, <1>6, <1>7, <2>1, InsertMapping
<1>11. CopiedPages(m, r, source, others, mapping)
  <2>1. added.content = m.content
    BY <1>6 DEF Mapping
  <2>2. \A v : Agrees(m, source, others, v) <=> Agrees(added, source, others, v)
    BY <1>6, <2>1, Zenon DEF Agrees
  <2>. QED BY <1>9, <2>2 DEF CopiedPages
<1>. QED BY <1>5, <1>6, <1>9, <1>10, <1>11 DEF mapping, copy, added, r, goal, CopiesOne

\* What the recursive function of task_copy_mappings is at i, given its values
\* F before i.
MappingsStep(F, m, source, i) ==
  IF i = 0 THEN [m |-> m, stop |-> FALSE]
  ELSE LET mapping == source.mappings[i]
           n == F[i-1].m
           added == task_add_mapping(n, mapping.vaddr, mapping.size, mapping.prot,
                                     mapping.backer, TRUE, FALSE)
       IN  IF F[i-1].stop THEN F[i-1]
           ELSE IF _get_mapping_vaddr(n.s.mappings, mapping.vaddr, mapping.size)
                     # mapping.vaddr
                THEN [m |-> added, stop |-> TRUE]
           ELSE [m |-> CopyPages(added, source, mapping), stop |-> FALSE]

\* There is a function that satisfies the recursion of task_copy_mappings.
MappingsDefined(m, source) ==
  \E F : F = [i \in 0..Len(source.mappings) |-> MappingsStep(F, m, source, i)]

\* The recursion over the mappings of the source is defined.
LEMMA CopyMappingsExists ==
  ASSUME NEW m, NEW source, Len(source.mappings) \in Nat
  PROVE  MappingsDefined(m, source)
<1>. DEFINE Step(F, n) == MappingsStep(F, m, source, n)
            Ok(k) == \E F : F = [n \in 0..k |-> Step(F, n)]
            Bad == {k \in 0..Len(source.mappings) : ~ Ok(k)}
<1>1. SUFFICES ASSUME Bad # {} PROVE FALSE
  BY DEF MappingsDefined
<1>2. PICK k \in Bad : \A j \in Bad : k <= j
  <2>1. Bad \in SUBSET Nat
    OBVIOUS
  <2>. HIDE DEF Bad
  <2>. QED BY <1>1, <2>1, LeastElement
<1>3. CASE k = 0
  <2>. DEFINE F == [n \in 0..0 |-> [m |-> m, stop |-> FALSE]]
  <2>1. F = [n \in 0..0 |-> Step(F, n)]
    BY DEF MappingsStep
  <2>. QED BY <1>2, <1>3, <2>1
<1>4. CASE k # 0
  <2>1. k \in 1..Len(source.mappings) /\ k-1 \in 0..Len(source.mappings)
        /\ ~(k-1 \in Bad)
    BY <1>2, <1>4
  <2>2. PICK G : G = [n \in 0..(k-1) |-> Step(G, n)]
    BY <2>1
  <2>. DEFINE F == [n \in 0..k |-> IF n = k THEN Step(G, k) ELSE G[n]]
  <2>3. \A n \in 0..(k-1) : F[n] = G[n]
    BY <2>1
  <2>4. ASSUME NEW n \in 0..k PROVE F[n] = Step(F, n)
    <3>1. Step(F, n) = Step(G, n)
      <4>1. CASE n = 0
        BY <4>1 DEF MappingsStep
      <4>2. CASE n # 0
        <5>1. F[n-1] = G[n-1]
          BY <2>1, <2>3, <4>2
        <5>. HIDE DEF F
        <5>. QED BY <4>2, <5>1 DEF MappingsStep
      <4>. QED BY <4>1, <4>2
    <3>2. F[n] = Step(G, n)
      <4>1. \A j \in 0..(k-1) : G[j] = Step(G, j)
        BY <2>2
      <4>2. n = k \/ n \in 0..(k-1)
        BY <2>1
      <4>. HIDE DEF Step
      <4>. QED BY <4>1, <4>2
    <3>. QED BY <3>1, <3>2
  <2>5. F = [n \in 0..k |-> Step(F, n)]
    BY <2>4
  <2>. HIDE DEF F
  <2>. QED BY <1>2, <2>5
<1>. QED BY <1>3, <1>4

\* A copy has its source's mappings, all of them, and the contents of its
\* pages, and takes no more pages than its source has.
LEMMA CopyMappingsKeeps ==
  ASSUME NEW source, SpaceOK(source), source.leaf[Trampoline] # Absent,
         NEW m, NEW others, MemoryOK(m, others, Filled(source)),
         m.s.mappings = << >>, \A v \in Pages : m.s.leaf[v] = Absent,
         Foreign(source, others)
  PROVE  LET r == task_copy_mappings(m, source)
         IN  /\ MemoryOK(r, others, Filled(source))
             /\ r.s.pgd = m.s.pgd /\ r.s.leaf[Trampoline] # Absent
             /\ Len(r.s.mappings) = Len(source.mappings)
             /\ \A i \in 1..Len(source.mappings) :
                  r.s.mappings[i] = Copied(source.mappings[i])
             /\ \A v \in Pages \ {Trampoline} : Agrees(r, source, others, v)
<1>. DEFINE n == Len(source.mappings)
            mapping(i) == source.mappings[i]
            goal == Filled(source)
            F == CHOOSE F : F = [i \in 0..Len(source.mappings) |->
                                   MappingsStep(F, m, source, i)]
            r == task_copy_mappings(m, source)
<1>0. /\ n \in Nat
      /\ \A i \in 1..n : /\ mapping(i) \in Mappings /\ mapping(i).vaddr \in Nat
                         /\ MappingEnd(mapping(i)) \in Nat
      /\ \A i, j \in 1..n : i < j => MappingEnd(mapping(i)) <= mapping(j).vaddr
  <2>1. MappingsOK(source.mappings) /\ source.mappings \in Seq(Mappings)
    BY DEF SpaceOK, MappingsOK
  <2>. QED BY <2>1, MappingNumbers DEF MappingsOK
<1>1. r = IF F[n].stop THEN F[n].m ELSE Map(F[n].m, Trampoline, Kernel, {"r", "x"})
  BY Zenon DEF task_copy_mappings, MappingsStep
<1>2. F = [i \in 0..Len(source.mappings) |-> MappingsStep(F, m, source, i)]
  <2>1. MappingsDefined(m, source)
    BY <1>0, CopyMappingsExists
  <2>. QED BY <2>1 DEF MappingsDefined
<1>. HIDE DEF F, r
<1>3. \A i \in 0..n : F[i] = MappingsStep(F, m, source, i)
  BY <1>2
<1>. DEFINE Within(v, i) == mapping(i).vaddr <= v /\ v < MappingEnd(mapping(i))
<1>. HIDE DEF n, mapping, goal
<1>. DEFINE Done(v, i) == \A j \in (i + 1)..n : ~ Within(v, j)
            Good(i) ==
              /\ F[i].stop = FALSE
              /\ MemoryOK(F[i].m, others, goal) /\ F[i].m.s.pgd = m.s.pgd
              /\ Len(F[i].m.s.mappings) = i
              /\ \A j \in 1..i : F[i].m.s.mappings[j] = Copied(mapping(j))
              /\ \A v \in Pages \ {Trampoline} :
                   Done(v, i) => Agrees(F[i].m, source, others, v)
            Bad == {i \in 0..n : ~ Good(i)}
<1>4. Good(0)
  <2>1. F[0] = MappingsStep(F, m, source, 0)
    BY <1>0, <1>3
  <2>2. F[0] = [m |-> m, stop |-> FALSE]
    BY <2>1 DEF MappingsStep
  <2>3. Len(m.s.mappings) = 0
    OBVIOUS
  <2>4. ASSUME NEW v \in Pages \ {Trampoline}, Done(v, 0)
        PROVE  Agrees(m, source, others, v)
    <3>1. ASSUME source.leaf[v] # Absent PROVE FALSE
      <4>1. Covered(source.mappings, v, source.leaf[v].prot)
        BY <3>1 DEF SpaceOK, LeavesOK
      <4>2. PICK j \in 1..n : Within(v, j)
        BY <4>1 DEF Covered, n, mapping
      <4>3. j \in (0 + 1)..n
        OBVIOUS
      <4>. HIDE DEF Within
      <4>. QED BY <2>4, <4>2, <4>3
    <3>. QED BY <3>1 DEF Agrees
  <2>. HIDE DEF Done
  <2>. QED BY <2>2, <2>3, <2>4 DEF goal
<1>5. ASSUME NEW i \in 1..n, Good(i - 1) PROVE Good(i)
  <2>. DEFINE k == F[i-1].m
              added == task_add_mapping(k, mapping(i).vaddr, mapping(i).size,
                                        mapping(i).prot, mapping(i).backer, TRUE, FALSE)
              c == CopyPages(added, source, mapping(i))
  <2>1. /\ F[i-1].stop = FALSE
        /\ MemoryOK(k, others, goal) /\ k.s.pgd = m.s.pgd
        /\ Len(k.s.mappings) = i - 1
        /\ \A j \in 1..(i - 1) : k.s.mappings[j] = Copied(mapping(j))
        /\ \A v \in Pages \ {Trampoline} :
             Done(v, i - 1) => Agrees(k, source, others, v)
    BY <1>5
  <2>2. \A j \in 1..Len(k.s.mappings) : MappingEnd(k.s.mappings[j]) <= mapping(i).vaddr
    <3>1. ASSUME NEW j \in 1..(i - 1)
          PROVE  MappingEnd(k.s.mappings[j]) <= mapping(i).vaddr
      <4>1. j \in 1..n /\ j < i
        BY <1>0
      <4>2. MappingEnd(Copied(mapping(j))) = MappingEnd(mapping(j))
        BY DEF Copied, MappingEnd
      <4>3. k.s.mappings[j] = Copied(mapping(j))
        BY <2>1
      <4>. QED BY <1>0, <4>1, <4>2, <4>3
    <3>. QED BY <2>1, <3>1
  <2>. HIDE DEF k
  <2>3. /\ _get_mapping_vaddr(k.s.mappings, mapping(i).vaddr, mapping(i).size)
             = mapping(i).vaddr
        /\ MemoryOK(c, others, goal) /\ c.s.pgd = k.s.pgd
        /\ Len(c.s.mappings) = Len(k.s.mappings) + 1
        /\ c.s.mappings[Len(k.s.mappings) + 1] = Copied(mapping(i))
        /\ \A j \in 1..Len(k.s.mappings) : c.s.mappings[j] = k.s.mappings[j]
        /\ CopiedPages(k, c, source, others, mapping(i))
    <3>1. i \in 1..Len(source.mappings) /\ mapping(i) = source.mappings[i]
          /\ MemoryOK(k, others, Filled(source))
      BY <2>1 DEF n, mapping, goal
    <3>2. CopiesOne(source, mapping(i), k, others)
      BY <2>2, <3>1, CopyOne
    <3>. QED BY <3>2 DEF CopiesOne, goal
  <2>4. F[i] = [m |-> c, stop |-> FALSE]
    <3>1. F[i] = MappingsStep(F, m, source, i) /\ i # 0
      BY <1>0, <1>3
    <3>. QED BY <2>1, <2>3, <3>1 DEF MappingsStep, k, mapping
  <2>. HIDE DEF c
  <2>5. i - 1 + 1 = i /\ \A j \in 1..i : j \in 1..(i - 1) \/ j = i
    BY <1>0
  <2>6. \A j \in 1..i : c.s.mappings[j] = Copied(mapping(j))
    BY <2>1, <2>3, <2>5
  <2>7. ASSUME NEW v \in Pages \ {Trampoline}, Done(v, i)
        PROVE  Agrees(c, source, others, v)
    <3>1. CASE Within(v, i)
      BY <2>3, <3>1 DEF CopiedPages
    <3>2. CASE ~ Within(v, i)
      <4>1. \A j \in (i - 1 + 1)..n : j = i \/ j \in (i + 1)..n
        BY <1>0
      <4>. HIDE DEF Within
      <4>2. Done(v, i - 1)
        BY <2>7, <3>2, <4>1
      <4>. HIDE DEF Done
      <4>. QED BY <2>1, <2>3, <4>2 DEF CopiedPages
    <3>. QED BY <3>1, <3>2
  <2>. HIDE DEF Done
  <2>. QED BY <2>1, <2>3, <2>4, <2>5, <2>6, <2>7
<1>6. Bad = {}
  <2>1. SUFFICES ASSUME Bad # {} PROVE FALSE
    OBVIOUS
  <2>2. PICK k \in Bad : \A j \in Bad : k <= j
    <3>1. Bad \in SUBSET Nat
      BY <1>0
    <3>. HIDE DEF Bad
    <3>. QED BY <2>1, <3>1, LeastElement
  <2>. HIDE DEF Good
  <2>3. k \in 1..n /\ k - 1 \in 0..n /\ k - 1 \notin Bad
    BY <1>0, <1>4, <2>2
  <2>4. Good(k - 1)
    BY <2>3
  <2>5. Good(k)
    BY <1>5, <2>3, <2>4
  <2>. QED BY <2>2, <2>5
<1>7. Good(n)
  <2>. HIDE DEF Good
  <2>. QED BY <1>0, <1>6
<1>8. r = Map(F[n].m, Trampoline, Kernel, {"r", "x"})
  BY <1>1, <1>7
<1>9. <<"table", Trampoline \div Entries>> \in goal
  <2>1. source.tables[Trampoline \div Entries] # 0
    BY TrampolinePage DEF SpaceOK, LeavesOK
  <2>. QED BY <2>1, TrampolinePage, FilledPositions DEF goal
<1>10. /\ MemoryOK(r, others, goal)
       /\ r.s.mappings = F[n].m.s.mappings /\ r.s.pgd = F[n].m.s.pgd
       /\ r.s.leaf[Trampoline] # Absent
       /\ \A v \in Pages \ {Trampoline} : r.s.leaf[v] = F[n].m.s.leaf[v]
       /\ Kept(F[n].m, r)
  BY <1>7, <1>8, <1>9, MapGate
<1>11. ASSUME NEW v \in Pages \ {Trampoline} PROVE Agrees(r, source, others, v)
  <2>1. Done(v, n)
    BY <1>0
  <2>. HIDE DEF Done
  <2>2. Agrees(F[n].m, source, others, v)
    BY <1>7, <2>1
  <2>. QED BY <1>7, <1>10, <2>2, AgreesStill
<1>. QED BY <1>7, <1>10, <1>11 DEF n, mapping, goal, r

-----------------------------------------------------------------------------
(* New and old address spaces.                                             *)

\* The mappings of a new program and the trampoline.
LEMMA CreateMappings ==
  ASSUME NEW m, NEW others, NEW goal, MemoryOK(m, others, goal),
         <<"table", Trampoline \div Entries>> \in goal
  PROVE  LET r == task_create_user_mappings(m)
         IN  /\ MemoryOK(r, others, goal) /\ r.s.pgd = m.s.pgd
             /\ r.s.leaf[Trampoline] # Absent
             /\ \A w \in Pages \ {Trampoline} : r.s.leaf[w] = m.s.leaf[w]
<1>. DEFINE code   == task_add_mapping(m, Code, CodeSize, {"r", "x"}, "file",
                                       FALSE, FALSE)
            stack  == task_add_mapping(code, Stack, StackSize, {"r", "w"}, "anon",
                                       TRUE, FALSE)
            signal == task_add_mapping(stack, SignalStack, SignalStackSize,
                                       {"r", "w"}, "anon", TRUE, FALSE)
            r == task_create_user_mappings(m)
<1>1. /\ Code \in Nat /\ CodeSize \in Nat /\ CodeSize >= 1
      /\ Stack \in Nat /\ StackSize \in Nat /\ StackSize >= 1
      /\ SignalStack \in Nat /\ SignalStackSize \in Nat /\ SignalStackSize >= 1
  BY SizeAssumption
<1>2. {"r", "x"} \in SUBSET Access /\ {"r", "w"} \in SUBSET Access
  BY DEF Access
<1>3. r = Map(signal, Trampoline, Kernel, {"r", "x"})
  BY DEF task_create_user_mappings
<1>4. MemoryOK(code, others, goal) /\ code.s.pgd = m.s.pgd /\ code.s.leaf = m.s.leaf
  <2>1. Adds(m, others, goal, Code, CodeSize, {"r", "x"}, "file", FALSE)
    BY <1>1, <1>2, AddMapping
  <2>. QED BY <2>1 DEF Adds
<1>. HIDE DEF code
<1>5. MemoryOK(stack, others, goal) /\ stack.s.pgd = code.s.pgd
      /\ stack.s.leaf = code.s.leaf
  <2>1. Adds(code, others, goal, Stack, StackSize, {"r", "w"}, "anon", TRUE)
    BY <1>1, <1>2, <1>4, AddMapping
  <2>. QED BY <2>1 DEF Adds
<1>. HIDE DEF stack
<1>6. MemoryOK(signal, others, goal) /\ signal.s.pgd = stack.s.pgd
      /\ signal.s.leaf = stack.s.leaf
  <2>1. Adds(stack, others, goal, SignalStack, SignalStackSize, {"r", "w"}, "anon", TRUE)
    BY <1>1, <1>2, <1>5, AddMapping
  <2>. QED BY <2>1 DEF Adds
<1>. HIDE DEF signal, r
<1>7. /\ MemoryOK(r, others, goal) /\ r.s.pgd = signal.s.pgd
      /\ r.s.leaf[Trampoline] # Absent
      /\ \A w \in Pages \ {Trampoline} : r.s.leaf[w] = signal.s.leaf[w]
  BY <1>3, <1>6, MapGate
<1>. QED BY <1>4, <1>5, <1>6, <1>7 DEF r

\* A space with a root, or none, and nothing else.
Bare(pgd) == [pgd |-> pgd, tables |-> NoSpace.tables, leaf |-> NoSpace.leaf,
              mappings |-> << >>]

\* Such a space is a correct one.
LEMMA BareOK ==
  ASSUME NEW pgd \in Frames \cup {0}
  PROVE  /\ SpaceOK(Bare(pgd)) /\ Bare(0) = NoSpace
         /\ Bare(pgd).pgd = pgd /\ Bare(pgd).mappings = << >>
         /\ \A v \in Pages : Bare(pgd).leaf[v] = Absent
         /\ pgd = 0 => Filled(Bare(pgd)) = {} /\ Owned(Bare(pgd)) = {}
         /\ pgd # 0 => Filled(Bare(pgd)) = {<<"pgd", 0>>} /\ Owned(Bare(pgd)) = {pgd}
         /\ Single(Bare(pgd))
<1>. DEFINE s == Bare(pgd)
<1>1. /\ s.pgd = pgd /\ s.mappings = << >>
      /\ s.tables = [i \in 0..(Roots - 1) |-> 0]
      /\ s.leaf = [v \in Pages |-> Absent]
      /\ Bare(0) = NoSpace
      /\ 0 \notin Frames
  BY DEF Bare, NoSpace, Frames
<1>2. s \in Spaces
  <2>1. Absent \in Leafs
    BY DEF Absent, Leafs
  <2>2. s.tables \in [0..(Roots - 1) -> Frames \cup {0}] /\ s.leaf \in [Pages -> Leafs]
    BY <1>1, <2>1
  <2>3. << >> \in Seq(Mappings)
    OBVIOUS
  <2>. QED BY <1>1, <2>2, <2>3 DEF Bare, Spaces, Leafs
<1>. HIDE DEF s
<1>3. SpaceOK(s)
  <2>1. MappingsOK(s.mappings)
    BY <1>1 DEF MappingsOK
  <2>2. LeavesOK(s)
    BY <1>1 DEF LeavesOK
  <2>. QED BY <1>2, <2>1, <2>2 DEF SpaceOK
<1>4. ASSUME NEW p \in Positions PROVE p \in Filled(s) <=> p = <<"pgd", 0>> /\ pgd # 0
  <2>1. CASE p = <<"pgd", 0>>
    BY <1>1, <1>3, <2>1, FilledPositions
  <2>2. ASSUME NEW i \in 0..(Roots - 1), p = <<"table", i>> PROVE p \notin Filled(s)
    BY <1>1, <1>3, <2>2, FilledPositions
  <2>3. ASSUME NEW v \in Pages, p = <<"leaf", v>> PROVE p \notin Filled(s)
    BY <1>1, <1>3, <2>3, FilledPositions
  <2>4. <<"pgd", 0>>[1] = "pgd" /\ \A i : <<"table", i>>[1] = "table" /\ <<"leaf", i>>[1] = "leaf"
    OBVIOUS
  <2>. QED BY <2>1, <2>2, <2>3, <2>4, PositionKinds
<1>5. Filled(s) = IF pgd = 0 THEN {} ELSE {<<"pgd", 0>>}
  BY <1>4, PositionKinds DEF Filled
<1>6. Owned(s) = IF pgd = 0 THEN {} ELSE {pgd}
  <2>1. FrameAt(s, <<"pgd", 0>>) = pgd
    BY <1>1, PositionKinds
  <2>. QED BY <1>5, <2>1 DEF Owned
<1>7. Single(s)
  BY <1>5 DEF Single
<1>8. \A v \in Pages : s.leaf[v] = Absent
  BY <1>1
<1>. QED BY <1>1, <1>3, <1>5, <1>6, <1>7, <1>8 DEF s

\* The pages task_free_mappings frees.
Freed(s) == {s.leaf[v].frame : v \in UNION {Leaves(s, mapping) : mapping \in Range(s.mappings)}}

\* The pages a space owns are its root, its tables and those in its mappings.
LEMMA OwnedParts ==
  ASSUME NEW s, SpaceOK(s)
  PROVE  Owned(s) = ({s.pgd} \ {0}) \cup (Range(s.tables) \ {0}) \cup Freed(s)
<1>. DEFINE Inside == {v \in Pages : v # Trampoline /\ s.leaf[v] # Absent}
<1>1. /\ s.pgd \in Frames \cup {0}
      /\ s.tables \in [0..(Roots - 1) -> Frames \cup {0}]
      /\ s.mappings \in Seq(Mappings) /\ 0 \notin Frames
      /\ DOMAIN s.mappings = 1..Len(s.mappings)
  BY SpaceParts, LenProperties DEF SpaceOK
<1>2. UNION {Leaves(s, mapping) : mapping \in Range(s.mappings)} = Inside
  <2>1. ASSUME NEW mapping \in Range(s.mappings), NEW v \in Leaves(s, mapping)
        PROVE  v \in Inside
    <3>1. PICK i \in 1..Len(s.mappings) : mapping = s.mappings[i]
      BY <1>1 DEF Range
    <3>2. /\ mapping.vaddr \in Nat /\ MappingEnd(mapping) \in Nat
          /\ Trampoline < mapping.vaddr /\ MappingEnd(mapping) <= KernelBase
      BY <1>1, <3>1, MappingNumbers DEF SpaceOK, MappingsOK
    <3>3. v \in mapping.vaddr..(MappingEnd(mapping) - 1) /\ s.leaf[v] # Absent
      BY DEF Leaves
    <3>4. v \in Pages /\ v # Trampoline
      BY <3>2, <3>3, PageTable, TrampolinePage
    <3>. QED BY <3>3, <3>4
  <2>2. ASSUME NEW v \in Inside
        PROVE  \E mapping \in Range(s.mappings) : v \in Leaves(s, mapping)
    <3>1. Covered(s.mappings, v, s.leaf[v].prot)
      BY DEF SpaceOK, LeavesOK
    <3>2. PICK i \in 1..Len(s.mappings) :
            s.mappings[i].vaddr <= v /\ v < MappingEnd(s.mappings[i])
      BY <3>1 DEF Covered
    <3>3. s.mappings[i].vaddr \in Nat /\ MappingEnd(s.mappings[i]) \in Nat /\ v \in Nat
      BY <1>1, MappingNumbers, PageTable
    <3>4. v \in s.mappings[i].vaddr..(MappingEnd(s.mappings[i]) - 1)
      BY <3>2, <3>3
    <3>5. v \in Leaves(s, s.mappings[i])
      BY <3>4 DEF Leaves
    <3>6. s.mappings[i] \in Range(s.mappings)
      BY <1>1 DEF Range
    <3>. QED BY <3>5, <3>6
  <2>. HIDE DEF Inside
  <2>. QED BY <2>1, <2>2
<1>3. Freed(s) = {s.leaf[v].frame : v \in Inside}
  BY <1>2 DEF Freed
<1>. HIDE DEF Inside
<1>4. ASSUME NEW p \in Filled(s)
      PROVE  FrameAt(s, p) \in ({s.pgd} \ {0}) \cup (Range(s.tables) \ {0}) \cup Freed(s)
  <2>1. CASE p = <<"pgd", 0>>
    <3>1. FrameAt(s, p) = s.pgd /\ s.pgd # 0
      BY <2>1, FilledPositions, PositionKinds
    <3>. QED BY <3>1
  <2>2. ASSUME NEW i \in 0..(Roots - 1), p = <<"table", i>>
        PROVE  FrameAt(s, p) \in Range(s.tables) \ {0}
    <3>1. FrameAt(s, p) = s.tables[i] /\ s.tables[i] # 0
      BY <2>2, FilledPositions, PositionKinds
    <3>2. s.tables[i] \in Range(s.tables)
      BY <1>1 DEF Range
    <3>. QED BY <3>1, <3>2
  <2>3. ASSUME NEW v \in Pages, p = <<"leaf", v>> PROVE FrameAt(s, p) \in Freed(s)
    <3>1. FrameAt(s, p) = s.leaf[v].frame /\ v # Trampoline /\ s.leaf[v] # Absent
      BY <2>3, FilledPositions, PositionKinds
    <3>. QED BY <1>3, <3>1 DEF Inside
  <2>4. p \in Positions
    BY DEF Filled
  <2>. QED BY <2>1, <2>2, <2>3, <2>4, PositionKinds
<1>5. s.pgd # 0 => s.pgd \in Owned(s)
  <2>1. s.pgd # 0 => <<"pgd", 0>> \in Filled(s)
    BY FilledPositions
  <2>2. FrameAt(s, <<"pgd", 0>>) = s.pgd
    BY PositionKinds
  <2>. QED BY <2>1, <2>2 DEF Owned
<1>6. Range(s.tables) \ {0} \subseteq Owned(s)
  <2>1. ASSUME NEW i \in 0..(Roots - 1), s.tables[i] # 0 PROVE s.tables[i] \in Owned(s)
    <3>1. <<"table", i>> \in Filled(s) /\ FrameAt(s, <<"table", i>>) = s.tables[i]
      BY <2>1, FilledPositions, PositionKinds
    <3>. QED BY <3>1 DEF Owned
  <2>. QED BY <1>1, <2>1 DEF Range
<1>7. Freed(s) \subseteq Owned(s)
  <2>1. ASSUME NEW v \in Pages, v # Trampoline, s.leaf[v] # Absent
        PROVE  s.leaf[v].frame \in Owned(s)
    <3>1. <<"leaf", v>> \in Filled(s) /\ FrameAt(s, <<"leaf", v>>) = s.leaf[v].frame
      BY <2>1, FilledPositions, PositionKinds
    <3>. QED BY <3>1 DEF Owned
  <2>. QED BY <1>3, <2>1 DEF Inside
<1>8. Owned(s) \subseteq ({s.pgd} \ {0}) \cup (Range(s.tables) \ {0}) \cup Freed(s)
  BY <1>4 DEF Owned
<1>. QED BY <1>5, <1>6, <1>7, <1>8

\* Other free pages and contents.
LEMMA ReplaceParts ==
  ASSUME NEW m, m = [s |-> m.s, free |-> m.free, content |-> m.content],
         NEW more, NEW c
  PROVE  [m EXCEPT !.free = more, !.content = c]
           = [s |-> m.s, free |-> more, content |-> c]
<1>. DEFINE m1 == [m EXCEPT !.free = more]
<1>1. [m EXCEPT !.free = more, !.content = c] = [m1 EXCEPT !.content = c]
  OBVIOUS
<1>2. m1 = [s |-> m.s, free |-> more, content |-> m.content]
  OBVIOUS
<1>. HIDE DEF m1
<1>3. [m1 EXCEPT !.content = c] = [s |-> m.s, free |-> more, content |-> c]
  BY <1>2
<1>. QED BY <1>1, <1>3

\* Freeing the mappings, part by part.
LEMMA FreeMappingsParts ==
  ASSUME NEW m \in Memories
  PROVE  \E c \in [Frames -> Contents] :
           /\ task_free_mappings(m) =
                Whole(m.s.pgd, m.s.tables, m.s.leaf, m.s.mappings, m.free \cup Freed(m.s), c)
           /\ \A f \in Frames \ Freed(m.s) : c[f] = m.content[f]
<1>. DEFINE freed == Freed(m.s)
            c == [f \in Frames |-> IF f \in freed /\ m.content[f] # "zero" THEN "data"
                                   ELSE m.content[f]]
<1>1. /\ m = Whole(m.s.pgd, m.s.tables, m.s.leaf, m.s.mappings, m.free, m.content)
      /\ m.content \in [Frames -> Contents]
  BY MemoryParts
<1>2. c \in [Frames -> Contents] /\ \A f \in Frames \ freed : c[f] = m.content[f]
  BY <1>1 DEF Contents
<1>3. task_free_mappings(m) =
        [m EXCEPT !.free = m.free \cup freed, !.content = c]
  BY DEF task_free_mappings, Freed
<1>. HIDE DEF freed, c
<1>4. [m EXCEPT !.free = m.free \cup freed, !.content = c] =
        Whole(m.s.pgd, m.s.tables, m.s.leaf, m.s.mappings, m.free \cup freed, c)
  <2>1. m = [s |-> m.s, free |-> m.free, content |-> m.content]
    BY DEF Memories
  <2>2. [m EXCEPT !.free = m.free \cup freed, !.content = c]
          = [s |-> m.s, free |-> m.free \cup freed, content |-> c]
    BY <2>1, ReplaceParts
  <2>3. m.s = [pgd |-> m.s.pgd, tables |-> m.s.tables, leaf |-> m.s.leaf,
               mappings |-> m.s.mappings]
    BY SpaceParts DEF Memories
  <2>. QED BY <2>2, <2>3 DEF Whole
<1>. QED BY <1>2, <1>3, <1>4 DEF freed

\* Freeing the tables, part by part.
TablesFreed(r, pgd, tables, mappings, fr, content0) ==
  \E c \in [Frames -> Contents] :
    /\ r = Whole(pgd, NoSpace.tables, NoSpace.leaf, mappings,
                 fr \cup (Range(tables) \ {0}), c)
    /\ \A f \in Frames \ Range(tables) : c[f] = content0[f]

\* virtual_memory_free_tables does what TablesFreed says.
LEMMA FreeTablesParts ==
  ASSUME NEW pgd, NEW tables, NEW leaf, NEW mappings, NEW fr, NEW content0,
         content0 \in [Frames -> Contents],
         NEW m, m = Whole(pgd, tables, leaf, mappings, fr, content0)
  PROVE  TablesFreed(virtual_memory_free_tables(m), pgd, tables, mappings, fr, content0)
<1>. DEFINE c == [f \in Frames |-> IF f \in Range(tables) THEN "zero" ELSE content0[f]]
            more == fr \cup (Range(tables) \ {0})
            none == NoSpace.tables
            bare == NoSpace.leaf
<1>1. c \in [Frames -> Contents] /\ \A f \in Frames \ Range(tables) : c[f] = content0[f]
  BY DEF Contents
<1>2. m.s.tables = tables /\ m.free = fr /\ m.content = content0
  BY DEF Whole
<1>3. virtual_memory_free_tables(m) =
        [m EXCEPT !.free = more, !.content = c, !.s.tables = none, !.s.leaf = bare]
  BY <1>2 DEF virtual_memory_free_tables
<1>. HIDE DEF more, c, none, bare
<1>. DEFINE m1 == [m EXCEPT !.free = more, !.content = c]
            m2 == [m1 EXCEPT !.s.tables = none]
<1>4. [m EXCEPT !.free = more, !.content = c, !.s.tables = none, !.s.leaf = bare]
        = [m2 EXCEPT !.s.leaf = bare]
  OBVIOUS
<1>5. m1 = Whole(pgd, tables, leaf, mappings, more, c)
  <2>1. m = [s |-> m.s, free |-> m.free, content |-> m.content]
    BY DEF Whole
  <2>2. [m EXCEPT !.free = more, !.content = c]
          = [s |-> m.s, free |-> more, content |-> c]
    <3>. DEFINE m0 == [m EXCEPT !.free = more]
    <3>1. [m EXCEPT !.free = more, !.content = c] = [m0 EXCEPT !.content = c]
      OBVIOUS
    <3>2. m0 = [s |-> m.s, free |-> more, content |-> m.content]
      BY <2>1
    <3>. HIDE DEF m0
    <3>3. [m0 EXCEPT !.content = c] = [s |-> m.s, free |-> more, content |-> c]
      BY <3>2
    <3>. QED BY <3>1, <3>3
  <2>3. m.s = [pgd |-> pgd, tables |-> tables, leaf |-> leaf, mappings |-> mappings]
    BY DEF Whole
  <2>. QED BY <2>2, <2>3 DEF Whole
<1>. HIDE DEF m1
<1>6. m2 = Whole(pgd, none, leaf, mappings, more, c)
  BY <1>5 DEF Whole
<1>. HIDE DEF m2
<1>7. [m2 EXCEPT !.s.leaf = bare] = Whole(pgd, none, bare, mappings, more, c)
  BY <1>6 DEF Whole
<1>8. virtual_memory_free_tables(m) = Whole(pgd, none, bare, mappings, more, c)
  BY <1>3, <1>4, <1>7
<1>. QED BY <1>1, <1>8 DEF none, bare, more, c, TablesFreed

\* A program is replaced: its pages and tables are free, its root is kept.
LEMMA ClearSpace ==
  ASSUME NEW m, NEW others, NEW goal, MemoryOK(m, others, goal), m.s.pgd # 0,
         m.s.leaf[Trampoline] # Absent
  PROVE  LET cleared == [task_free_mappings(m) EXCEPT !.s.mappings = << >>]
             r == virtual_memory_free_tables(cleared)
         IN  /\ MemoryOK(r, others, {<<"pgd", 0>>, <<"table", Trampoline \div Entries>>})
             /\ r.s.pgd = m.s.pgd
             /\ \A v \in Pages : r.s.leaf[v] = Absent
<1>. DEFINE pgd == m.s.pgd
            tables == m.s.tables
            leaf == m.s.leaf
            i == Trampoline \div Entries
            pages == m.free \cup Freed(m.s)
            rest == pages \cup (Range(tables) \ {0})
            cleared == [task_free_mappings(m) EXCEPT !.s.mappings = << >>]
            r == virtual_memory_free_tables(cleared)
            p == <<"pgd", 0>>
            q == <<"table", i>>
<1>0. /\ m \in Memories /\ SpaceOK(m.s) /\ PagesOK(m, others, goal) /\ m.s \in Spaces
      /\ m.free \in SUBSET Frames
  BY MemoryParts DEF MemoryOK, PagesOK
<1>1. PICK c1 \in [Frames -> Contents] :
        /\ task_free_mappings(m) = Whole(pgd, tables, leaf, m.s.mappings, pages, c1)
        /\ \A f \in Frames \ Freed(m.s) : c1[f] = m.content[f]
  BY <1>0, FreeMappingsParts
<1>2. cleared = Whole(pgd, tables, leaf, << >>, pages, c1)
  <2>. HIDE DEF pgd, tables, leaf, pages
  <2>. QED BY <1>1 DEF Whole
<1>3. PICK c2 \in [Frames -> Contents] :
        /\ r = Whole(pgd, NoSpace.tables, NoSpace.leaf, << >>, rest, c2)
        /\ \A f \in Frames \ Range(tables) : c2[f] = c1[f]
  <2>. HIDE DEF pgd, tables, leaf, pages, cleared
  <2>1. TablesFreed(r, pgd, tables, << >>, pages, c1)
    BY <1>2, FreeTablesParts
  <2>. QED BY <2>1 DEF TablesFreed
<1>. HIDE DEF r
<1>4. r.s = Bare(pgd) /\ r.free = rest /\ r.content = c2
  BY <1>3 DEF Whole, Bare
<1>5. pgd \in Frames
  BY <1>0, SpaceParts
<1>6. Owned(m.s) = {pgd} \cup (Range(tables) \ {0}) \cup Freed(m.s)
  BY <1>0, <1>5, OwnedParts
<1>7. Single(m.s) /\ Owned(m.s) \cap m.free = {}
      /\ (DOMAIN others) \cap (Owned(m.s) \cup m.free) = {}
      /\ (DOMAIN others) \cup Owned(m.s) \cup m.free = Frames
      /\ \A f \in DOMAIN others : m.content[f] = others[f]
  BY <1>0 DEF PagesOK
<1>8. pgd \notin rest
  <2>1. pgd \notin m.free
    BY <1>6, <1>7
  <2>2. /\ p \in Filled(m.s) /\ FrameAt(m.s, p) = pgd
    BY <1>0, FilledPositions, PositionKinds
  <2>3. ASSUME NEW x \in Filled(m.s), x # p PROVE FrameAt(m.s, x) # pgd
    BY <1>7, <2>2, <2>3 DEF Single
  <2>4. pgd \notin Range(tables) \ {0}
    <3>1. ASSUME NEW j \in 0..(Roots - 1), tables[j] # 0 PROVE tables[j] # pgd
      <4>1. <<"table", j>> \in Filled(m.s) /\ FrameAt(m.s, <<"table", j>>) = tables[j]
        BY <1>0, <3>1, FilledPositions, PositionKinds
      <4>2. <<"table", j>> # p
        OBVIOUS
      <4>. QED BY <2>3, <4>1, <4>2
    <3>2. DOMAIN tables = 0..(Roots - 1)
      BY <1>0, SpaceParts
    <3>. QED BY <3>1, <3>2 DEF Range
  <2>5. pgd \notin Freed(m.s)
    <3>1. ASSUME NEW mapping \in Range(m.s.mappings), NEW v \in Leaves(m.s, mapping)
          PROVE  m.s.leaf[v].frame # pgd
      <4>1. PICK k \in 1..Len(m.s.mappings) : mapping = m.s.mappings[k]
        BY <1>0, SpaceParts, LenProperties DEF Range
      <4>2. /\ m.s.mappings \in Seq(Mappings)
            /\ Trampoline < mapping.vaddr /\ MappingEnd(mapping) <= KernelBase
        BY <1>0, <4>1 DEF SpaceOK, MappingsOK
      <4>3. mapping.vaddr \in Nat /\ MappingEnd(mapping) \in Nat
        BY <4>1, <4>2, MappingNumbers
      <4>4. v \in mapping.vaddr..(MappingEnd(mapping) - 1) /\ m.s.leaf[v] # Absent
        BY DEF Leaves
      <4>5. v \in Pages /\ v # Trampoline
        BY <4>2, <4>3, <4>4, PageTable, TrampolinePage
      <4>6. <<"leaf", v>> \in Filled(m.s) /\ FrameAt(m.s, <<"leaf", v>>) = m.s.leaf[v].frame
        BY <1>0, <4>4, <4>5, FilledPositions, PositionKinds
      <4>7. <<"leaf", v>> # p
        OBVIOUS
      <4>. QED BY <2>3, <4>6, <4>7
    <3>. QED BY <3>1 DEF Freed
  <2>. QED BY <2>1, <2>4, <2>5
<1>9. /\ SpaceOK(r.s) /\ r.s.pgd = pgd
      /\ Filled(r.s) = {p} /\ Owned(r.s) = {pgd} /\ Single(r.s)
  BY <1>4, <1>5, BareOK
<1>13. \A v \in Pages : r.s.leaf[v] = Absent
  BY <1>4, <1>5, BareOK
<1>10. r \in Memories
  <2>1. rest \in SUBSET Frames
    BY <1>0, <1>6, <1>7
  <2>2. r = [s |-> r.s, free |-> rest, content |-> c2]
    BY <1>3, <1>4 DEF Whole
  <2>3. r.s \in Spaces
    BY <1>9 DEF SpaceOK
  <2>. HIDE DEF rest
  <2>. QED BY <2>1, <2>2, <2>3 DEF Memories
<1>11. Cardinality({p, q}) <= Cardinality(r.free) + Cardinality(Filled(r.s))
  <2>1. m.s.tables[i] # 0 /\ i \in 0..(Roots - 1) /\ tables \in [0..(Roots - 1) -> Frames \cup {0}]
    BY <1>0, TrampolinePage, SpaceParts DEF SpaceOK, LeavesOK
  <2>2. rest # {}
    BY <2>1 DEF Range
  <2>3. rest \subseteq Frames
    BY <1>10, <1>4 DEF Memories
  <2>4. IsFiniteSet(rest) /\ Cardinality(rest) \in Nat
    BY <2>3, Finite
  <2>5. Cardinality(rest) # 0
    BY <2>2, <2>4, FS_EmptySet
  <2>6. Cardinality({p}) = 1 /\ IsFiniteSet({p})
    BY FS_Singleton
  <2>7. Cardinality({p} \cup {q}) = 2
    <3>1. q \notin {p}
      OBVIOUS
    <3>. HIDE DEF p, q
    <3>2. Cardinality({p} \cup {q}) = Cardinality({p}) + 1
      BY <2>6, <3>1, FS_AddElement
    <3>. QED BY <2>6, <3>2
  <2>8. {p, q} = {p} \cup {q}
    OBVIOUS
  <2>. HIDE DEF rest, p, q
  <2>. QED BY <1>4, <1>9, <2>4, <2>5, <2>6, <2>7, <2>8
<1>12. PagesOK(r, others, {p, q})
  <2>1. /\ Owned(r.s) \cap r.free = {}
        /\ (DOMAIN others) \cap (Owned(r.s) \cup r.free) = {}
        /\ (DOMAIN others) \cup Owned(r.s) \cup r.free = Frames
    BY <1>4, <1>6, <1>7, <1>8, <1>9
  <2>3. ASSUME NEW f \in DOMAIN others PROVE r.content[f] = others[f]
    <3>1. f \in Frames /\ f \notin Freed(m.s) /\ f \notin Range(tables)
      <4>1. f \in Frames /\ f \notin Owned(m.s) /\ f # 0
        BY <1>7 DEF Frames
      <4>. QED BY <1>6, <4>1
    <3>. QED BY <1>1, <1>3, <1>4, <1>7, <3>1
  <2>2. {p, q} \subseteq Positions
    BY TrampolinePage, PositionKinds
  <2>. QED BY <1>9, <1>10, <1>11, <2>1, <2>2, <2>3 DEF PagesOK
<1>. QED BY <1>9, <1>12, <1>13 DEF r, MemoryOK

\* A new root, in a page that is free.
LEMMA NewRoot ==
  ASSUME NEW others, (DOMAIN others) \cap free = {}, (DOMAIN others) \cup free = Frames,
         \A f \in DOMAIN others : content[f] = others[f],
         free \in SUBSET Frames, content \in [Frames -> Contents],
         NEW goal, goal \subseteq Positions, <<"pgd", 0>> \in goal,
         Cardinality(goal) <= Cardinality(free)
  PROVE  LET r == [Take(Memory(NoSpace), "table") EXCEPT !.s.pgd = Some(free)]
         IN  /\ MemoryOK(r, others, goal)
             /\ r.s.pgd # 0 /\ r.s.mappings = << >>
             /\ \A v \in Pages : r.s.leaf[v] = Absent
<1>. DEFINE m == Memory(NoSpace)
            f == Some(free)
            rest == free \ {f}
            c == [content EXCEPT ![f] = "table"]
            taken == Take(m, "table")
            p == <<"pgd", 0>>
            r == [taken EXCEPT !.s.pgd = f]
<1>1. /\ SpaceOK(NoSpace) /\ Filled(NoSpace) = {} /\ Owned(NoSpace) = {}
      /\ Single(NoSpace) /\ NoSpace = Bare(0) /\ NoSpace \in Spaces
  BY BareOK DEF SpaceOK
<1>2. m = [s |-> NoSpace, free |-> free, content |-> content]
  BY DEF Memory
<1>. HIDE DEF m
<1>3. m.s = NoSpace /\ m.free = free /\ m.content = content /\ m \in Memories
  BY <1>1, <1>2 DEF Memories
<1>4. PagesOK(m, others, goal)
  <2>1. Cardinality(Filled(m.s)) = 0 /\ Cardinality(free) \in Nat
    BY <1>1, <1>3, FS_EmptySet, Finite
  <2>2. Cardinality(goal) <= Cardinality(m.free) + Cardinality(Filled(m.s))
    BY <1>3, <2>1
  <2>. QED BY <1>1, <1>3, <2>2 DEF PagesOK
<1>5. p \notin Filled(m.s)
  BY <1>1, <1>3
<1>6. f \in free /\ f \in Frames
  BY <1>3, <1>4, <1>5, FreeLeft
<1>7. taken = [s |-> NoSpace, free |-> rest, content |-> c]
  <2>. DEFINE m1 == [m EXCEPT !.free = rest]
  <2>1. taken = [m EXCEPT !.free = @ \ {f}, !.content[f] = "table"]
    BY <1>3 DEF Take
  <2>. HIDE DEF f
  <2>2. [m EXCEPT !.free = @ \ {f}, !.content[f] = "table"] = [m1 EXCEPT !.content[f] = "table"]
    <3>1. m.free \ {f} = rest
      BY <1>3
    <3>. HIDE DEF rest
    <3>2. [m EXCEPT !.free = @ \ {f}, !.content[f] = "table"]
            = [m EXCEPT !.free = rest, !.content[f] = "table"]
      BY <3>1
    <3>. QED BY <3>2
  <2>. HIDE DEF rest
  <2>3. m1 = [s |-> NoSpace, free |-> rest, content |-> content]
    BY <1>2
  <2>. HIDE DEF m1
  <2>4. [m1 EXCEPT !.content[f] = "table"] = [s |-> NoSpace, free |-> rest, content |-> c]
    BY <2>3
  <2>. QED BY <2>1, <2>2, <2>4
<1>8. /\ c \in [Frames -> Contents] /\ rest \in SUBSET Frames
      /\ \A g \in Frames \ {f} : c[g] = content[g]
  BY DEF Contents
<1>. HIDE DEF f, rest, c, taken
<1>9. r = [s |-> Bare(f), free |-> rest, content |-> c]
  <2>1. Bare(f) = [NoSpace EXCEPT !.pgd = f]
    <3>. DEFINE none == NoSpace.tables
                bare == NoSpace.leaf
    <3>1. NoSpace = [pgd |-> 0, tables |-> none, leaf |-> bare, mappings |-> << >>]
      BY DEF NoSpace
    <3>. HIDE DEF none, bare
    <3>2. [NoSpace EXCEPT !.pgd = f]
            = [pgd |-> f, tables |-> none, leaf |-> bare, mappings |-> << >>]
      BY <3>1
    <3>. QED BY <3>2 DEF Bare, none, bare
  <2>2. r = [s |-> [NoSpace EXCEPT !.pgd = f], free |-> rest, content |-> c]
    BY <1>7
  <2>. QED BY <2>1, <2>2
<1>. HIDE DEF r
<1>10. r.s = Bare(f) /\ r.free = rest /\ r.content = c
  BY <1>9
<1>11. /\ SpaceOK(Bare(f)) /\ Bare(f).pgd = f /\ Bare(f).mappings = << >>
       /\ Filled(Bare(f)) = {p} /\ f # 0
       /\ \A v \in Pages : Bare(f).leaf[v] = Absent
  <2>1. 0 \notin Frames
    BY DEF Frames
  <2>. QED BY <1>6, <2>1, BareOK
<1>12. r \in Memories
  BY <1>8, <1>9, <1>11 DEF Memories, SpaceOK
<1>13. FrameAt(r.s, p) = f
  BY <1>10, <1>11, PositionKinds
<1>14. \A q \in Positions : q # p => SameAt(m.s, r.s, q)
  BY <1>1, <1>3, <1>10, <1>11 DEF Filled, SameAt
<1>15. PagesOK(r, others, goal)
  <2>1. r.free = m.free \ {Some(m.free)} /\ FrameAt(r.s, p) = Some(m.free)
    BY <1>3, <1>10, <1>13 DEF f, rest
  <2>2. \A g \in Frames \ {Some(m.free)} : r.content[g] = m.content[g]
    BY <1>3, <1>8, <1>10 DEF f
  <2>. HIDE DEF p
  <2>. QED BY <1>4, <1>5, <1>12, <1>14, <2>1, <2>2, FillFree DEF p
<1>. QED BY <1>10, <1>11, <1>15 DEF MemoryOK, r, taken, f, m

\* task_free gives back every page a space owns.
LEMMA FreeSpace ==
  ASSUME NEW m, m \in Memories, SpaceOK(m.s), m.s.pgd # 0
  PROVE  LET r == task_free(m)
         IN  /\ r.s = NoSpace
             /\ r.free = m.free \cup Owned(m.s)
             /\ r.content \in [Frames -> Contents]
             /\ \A f \in Frames \ Owned(m.s) : r.content[f] = m.content[f]
<1>. DEFINE pgd == m.s.pgd
            tables == m.s.tables
            pages == m.free \cup Freed(m.s)
            rest == pages \cup (Range(tables) \ {0})
            freed == task_free_mappings(m)
            cleared == virtual_memory_free_tables(freed)
            r == task_free(m)
<1>1. PICK c1 \in [Frames -> Contents] :
        /\ freed = Whole(pgd, tables, m.s.leaf, m.s.mappings, pages, c1)
        /\ \A f \in Frames \ Freed(m.s) : c1[f] = m.content[f]
  BY FreeMappingsParts
<1>2. PICK c2 \in [Frames -> Contents] :
        /\ cleared = Whole(pgd, NoSpace.tables, NoSpace.leaf, m.s.mappings, rest, c2)
        /\ \A f \in Frames \ Range(tables) : c2[f] = c1[f]
  <2>. DEFINE leaf == m.s.leaf
              mappings == m.s.mappings
  <2>. HIDE DEF pgd, tables, pages, freed, leaf, mappings
  <2>1. freed = Whole(pgd, tables, leaf, mappings, pages, c1)
    BY <1>1 DEF leaf, mappings
  <2>2. TablesFreed(cleared, pgd, tables, mappings, pages, c1)
    BY <2>1, FreeTablesParts
  <2>. QED BY <2>2 DEF TablesFreed, mappings
<1>3. pgd \in Frames
  BY SpaceParts DEF SpaceOK
<1>4. Owned(m.s) = {pgd} \cup (Range(tables) \ {0}) \cup Freed(m.s)
  BY <1>3, OwnedParts
<1>. DEFINE all == rest \cup {pgd}
            c3 == [c2 EXCEPT ![pgd] = "zero"]
            k1 == [cleared EXCEPT !.free = all]
            k2 == [k1 EXCEPT !.content[pgd] = "zero"]
<1>5. r = [cleared EXCEPT !.free = @ \cup {pgd}, !.content[pgd] = "zero", !.s = NoSpace]
  BY DEF task_free
<1>. HIDE DEF r, cleared, rest, pgd
<1>7. cleared = [s |-> cleared.s, free |-> rest, content |-> c2]
  BY <1>2 DEF Whole
<1>6. [cleared EXCEPT !.free = @ \cup {pgd}, !.content[pgd] = "zero", !.s = NoSpace]
        = [k2 EXCEPT !.s = NoSpace]
  <2>1. cleared.free \cup {pgd} = all
    BY <1>7
  <2>. HIDE DEF all
  <2>2. [cleared EXCEPT !.free = @ \cup {pgd}, !.content[pgd] = "zero", !.s = NoSpace]
          = [cleared EXCEPT !.free = all, !.content[pgd] = "zero", !.s = NoSpace]
    BY <2>1
  <2>. QED BY <2>2
<1>. HIDE DEF all
<1>8. k1 = [s |-> cleared.s, free |-> all, content |-> c2]
  <2>. DEFINE s == cleared.s
  <2>1. cleared = [s |-> s, free |-> rest, content |-> c2]
    BY <1>7
  <2>. HIDE DEF s
  <2>2. k1 = [s |-> s, free |-> all, content |-> c2]
    BY <2>1
  <2>. QED BY <2>2 DEF s
<1>. HIDE DEF k1
<1>9. k2 = [s |-> cleared.s, free |-> all, content |-> c3]
  BY <1>8
<1>. HIDE DEF k2
<1>10. c3 \in [Frames -> Contents] /\ \A f \in Frames \ {pgd} : c3[f] = c2[f]
  BY DEF Contents
<1>. HIDE DEF c3
<1>11. [k2 EXCEPT !.s = NoSpace] = [s |-> NoSpace, free |-> all, content |-> c3]
  BY <1>9
<1>12. r = [s |-> NoSpace, free |-> all, content |-> c3]
  BY <1>5, <1>6, <1>11
<1>13. all = m.free \cup Owned(m.s)
  BY <1>4 DEF all, rest
<1>14. ASSUME NEW f \in Frames \ Owned(m.s) PROVE c3[f] = m.content[f]
  <2>1. f # 0 /\ f \in Frames
    BY DEF Frames
  <2>2. f # pgd /\ f \notin Range(tables) /\ f \notin Freed(m.s)
    BY <1>4, <2>1
  <2>. QED BY <1>1, <1>2, <1>10, <2>1, <2>2
<1>. QED BY <1>10, <1>12, <1>13, <1>14 DEF r

-----------------------------------------------------------------------------
(* The invariant.                                                          *)

\* A task has no memory at all, or a root and the trampoline.
Ready(s) == s = NoSpace \/ (s.pgd # 0 /\ s.leaf[Trampoline] # Absent)

\* The pages of the tasks other than one, and what they hold.
PagesOfOthers(t) == UNION {Owned(space[u]) : u \in Tasks \ {t}}

OthersOf(t) == [f \in PagesOfOthers(t) |-> content[f]]

\* Every page table is a correct one, and every page is free or is owned by
\* one task, in one place.
AInv ==
  /\ TypeOK
  /\ \A t \in Tasks : SpaceOK(space[t]) /\ Single(space[t]) /\ Ready(space[t])
  /\ \A t, u \in Tasks : t # u => Owned(space[t]) \cap Owned(space[u]) = {}
  /\ \A t \in Tasks : Owned(space[t]) \cap free = {}
  /\ (UNION {Owned(space[t]) : t \in Tasks}) \cup free = Frames
  /\ \A t \in dead : ~ Unused(t)

\* Nobody has memory at the beginning.
LEMMA AInit == Init => AInv
<1>. SUFFICES ASSUME Init PROVE AInv
  OBVIOUS
<1>1. /\ SpaceOK(NoSpace) /\ Filled(NoSpace) = {} /\ Owned(NoSpace) = {}
      /\ Single(NoSpace) /\ NoSpace \in Spaces
  BY BareOK DEF SpaceOK
<1>2. /\ space = [t \in Tasks |-> NoSpace] /\ free = Frames /\ dead = {}
      /\ content = [f \in Frames |-> "zero"] /\ wild = FALSE
  BY DEF Init
<1>3. \A t \in Tasks : space[t] = NoSpace
  BY <1>2
<1>4. TypeOK
  BY <1>1, <1>2 DEF TypeOK, Contents
<1>5. \A t \in Tasks : /\ SpaceOK(space[t]) /\ Single(space[t]) /\ Ready(space[t])
                       /\ Owned(space[t]) = {}
  BY <1>1, <1>3 DEF Ready
<1>6. (UNION {Owned(space[t]) : t \in Tasks}) \cup free = Frames
  <2>1. UNION {Owned(space[t]) : t \in Tasks} = {}
    BY <1>5
  <2>. QED BY <1>2, <2>1
<1>. QED BY <1>2, <1>4, <1>5, <1>6 DEF AInv

\* What an operation on the memory of one task finds.
LEMMA Split ==
  ASSUME AInv, NEW t \in Tasks
  PROVE  LET m == Memory(space[t])
         IN  /\ m.s = space[t] /\ m.free = free /\ m.content = content
             /\ m \in Memories /\ SpaceOK(m.s)
             /\ DOMAIN OthersOf(t) = PagesOfOthers(t)
             /\ \A f \in PagesOfOthers(t) : content[f] = OthersOf(t)[f]
             /\ PagesOfOthers(t) \cap free = {}
             /\ PagesOfOthers(t) \cap Owned(m.s) = {}
             /\ PagesOfOthers(t) \cup Owned(m.s) \cup free = Frames
             /\ \A goal : (/\ goal \subseteq Positions /\ Filled(m.s) \subseteq goal
                           /\ Cardinality(goal) <= Cardinality(free) + Cardinality(Filled(m.s)))
                          => MemoryOK(m, OthersOf(t), goal)
<1>. DEFINE m == Memory(space[t])
<1>1. m = [s |-> space[t], free |-> free, content |-> content]
  BY DEF Memory
<1>. HIDE DEF m
<1>2. m.s = space[t] /\ m.free = free /\ m.content = content
  BY <1>1
<1>3. /\ space[t] \in Spaces /\ free \in SUBSET Frames /\ content \in [Frames -> Contents]
      /\ SpaceOK(space[t]) /\ Single(space[t])
  BY DEF AInv, TypeOK
<1>4. m \in Memories
  BY <1>1, <1>3 DEF Memories
<1>5. PagesOfOthers(t) \cap free = {}
  BY DEF AInv, PagesOfOthers
<1>6. PagesOfOthers(t) \cap Owned(space[t]) = {}
  BY DEF AInv, PagesOfOthers
<1>7. PagesOfOthers(t) \cup Owned(space[t]) \cup free = Frames
  <2>1. UNION {Owned(space[u]) : u \in Tasks} = PagesOfOthers(t) \cup Owned(space[t])
    BY DEF PagesOfOthers
  <2>2. (UNION {Owned(space[u]) : u \in Tasks}) \cup free = Frames
    BY DEF AInv
  <2>. QED BY <2>1, <2>2
<1>9. /\ DOMAIN OthersOf(t) = PagesOfOthers(t)
      /\ \A f \in PagesOfOthers(t) : content[f] = OthersOf(t)[f]
  BY DEF OthersOf
<1>8. ASSUME NEW goal, goal \subseteq Positions, Filled(m.s) \subseteq goal,
             Cardinality(goal) <= Cardinality(free) + Cardinality(Filled(m.s))
      PROVE  MemoryOK(m, OthersOf(t), goal)
  <2>1. Owned(m.s) \cap m.free = {}
    BY <1>2 DEF AInv
  <2>. QED BY <1>2, <1>3, <1>4, <1>5, <1>6, <1>7, <1>8, <1>9, <2>1 DEF MemoryOK, PagesOK
<1>. QED BY <1>2, <1>3, <1>4, <1>5, <1>6, <1>7, <1>8, <1>9 DEF m

\* An operation on the memory of one task, seen by all.
LEMMA Join ==
  ASSUME AInv, NEW t \in Tasks, NEW s, SpaceOK(s), Single(s), Ready(s),
         space' = [space EXCEPT ![t] = s],
         free' \subseteq Frames, content' \in [Frames -> Contents],
         dead' \subseteq Tasks, wild' \in BOOLEAN,
         Owned(s) \cap free' = {},
         PagesOfOthers(t) \cap (Owned(s) \cup free') = {},
         PagesOfOthers(t) \cup Owned(s) \cup free' = Frames,
         dead' \subseteq dead, t \in dead' => s # NoSpace
  PROVE  AInv'
<1>1. /\ space'[t] = s /\ \A u \in Tasks \ {t} : space'[u] = space[u]
      /\ space' \in [Tasks -> Spaces]
  BY DEF AInv, TypeOK, SpaceOK
<1>2. TypeOK'
  BY <1>1 DEF TypeOK
<1>3. ASSUME NEW u \in Tasks
      PROVE  (SpaceOK(space[u]) /\ Single(space[u]) /\ Ready(space[u]))'
  <2>1. CASE u = t
    BY <1>1, <2>1 DEF SpaceOK, Single, Ready
  <2>2. CASE u # t
    BY <1>1, <2>2 DEF AInv
  <2>. QED BY <2>1, <2>2
<1>4. \A u \in Tasks \ {t} : Owned(space[u]) \subseteq PagesOfOthers(t)
  BY DEF PagesOfOthers
<1>5. ASSUME NEW u \in Tasks, NEW w \in Tasks, u # w
      PROVE  Owned(space'[u]) \cap Owned(space'[w]) = {}
  <2>1. CASE u = t
    BY <1>1, <1>4, <1>5, <2>1
  <2>2. CASE w = t
    BY <1>1, <1>4, <1>5, <2>2
  <2>3. CASE u # t /\ w # t
    BY <1>1, <1>5, <2>3 DEF AInv
  <2>. QED BY <2>1, <2>2, <2>3
<1>6. ASSUME NEW u \in Tasks
      PROVE  Owned(space'[u]) \cap free' = {}
  <2>1. CASE u = t
    BY <1>1, <2>1
  <2>2. CASE u # t
    BY <1>1, <1>4, <2>2
  <2>. QED BY <2>1, <2>2
<1>7. UNION {Owned(space'[u]) : u \in Tasks} = PagesOfOthers(t) \cup Owned(s)
  BY <1>1 DEF PagesOfOthers
<1>9. (UNION {Owned(space'[u]) : u \in Tasks}) \cup free' = Frames
  BY <1>7
<1>8. ASSUME NEW u \in dead' PROVE space'[u] # NoSpace
  <2>1. CASE u = t
    BY <1>1, <1>8, <2>1
  <2>2. CASE u # t
    BY <1>1, <1>8, <2>2 DEF AInv, Unused
  <2>. QED BY <2>1, <2>2
<1>. QED BY <1>2, <1>3, <1>5, <1>6, <1>9, <1>8 DEF AInv, Unused

\* A step changes the memory of one task only.
OnlyOf(t) ==
  \A u \in Tasks \ {t} :
    space'[u] = space[u] /\ \A f \in Owned(space[u]) : content'[f] = content[f]

\* To install a page does not change what is seen there.
Unseen(t) ==
  \A v \in Pages :
    (space[t].leaf[v] = Absent /\ space'[t].leaf[v] # Absent /\
     space'[t].mappings = space[t].mappings)
      => View(t, v)' = View(t, v)

\* The same where the operation is applied.
LEMMA JoinApply ==
  ASSUME AInv, NEW t \in Tasks, NEW m, NEW goal, MemoryOK(m, OthersOf(t), goal),
         m.s.pgd # 0, m.s.leaf[Trampoline] # Absent, Apply(t, m)
  PROVE  AInv' /\ OnlyOf(t) /\ space'[t] = m.s /\ content' = m.content
<1>1. /\ space' = [space EXCEPT ![t] = m.s] /\ free' = m.free /\ content' = m.content
      /\ dead' = dead /\ wild' = wild
  BY DEF Apply
<1>2. /\ SpaceOK(m.s) /\ Single(m.s)
      /\ m \in Memories
      /\ Owned(m.s) \cap m.free = {}
      /\ PagesOfOthers(t) \cap (Owned(m.s) \cup m.free) = {}
      /\ PagesOfOthers(t) \cup Owned(m.s) \cup m.free = Frames
  BY Split DEF MemoryOK, PagesOK
<1>3. m.free \subseteq Frames /\ m.content \in [Frames -> Contents]
  BY <1>2 DEF Memories
<1>4. dead' \subseteq Tasks /\ wild' \in BOOLEAN /\ dead' \subseteq dead
  BY <1>1 DEF AInv, TypeOK
<1>5. Ready(m.s) /\ m.s # NoSpace
  BY DEF Ready, NoSpace
<1>. DEFINE s == m.s
<1>6. /\ SpaceOK(s) /\ Single(s) /\ Ready(s) /\ s # NoSpace
      /\ space' = [space EXCEPT ![t] = s]
      /\ free' \subseteq Frames /\ content' \in [Frames -> Contents]
      /\ Owned(s) \cap free' = {}
      /\ PagesOfOthers(t) \cap (Owned(s) \cup free') = {}
      /\ PagesOfOthers(t) \cup Owned(s) \cup free' = Frames
  BY <1>1, <1>2, <1>3, <1>5
<1>7. \A f \in PagesOfOthers(t) : content'[f] = content[f]
  BY <1>1, Split DEF MemoryOK, PagesOK
<1>8. OnlyOf(t) /\ space'[t] = m.s
  BY <1>1, <1>7 DEF OnlyOf, PagesOfOthers, AInv, TypeOK
<1>. HIDE DEF s
<1>9. AInv'
  BY <1>4, <1>6, Join
<1>. QED BY <1>1, <1>8, <1>9

-----------------------------------------------------------------------------
(* What pages are used for.                                                *)

\* A task without memory has no root.
LEMMA RootUsed ==
  ASSUME AInv, NEW t \in Tasks
  PROVE  ~ Unused(t) <=> space[t].pgd # 0
<1>1. space[t] = NoSpace \/ space[t].pgd # 0
  BY DEF AInv, Ready
<1>2. NoSpace.pgd = 0
  BY DEF NoSpace
<1>. QED BY <1>1, <1>2 DEF Unused

\* The uses of pages are the filled places of the page tables.
LEMMA UsesFilled ==
  ASSUME AInv
  PROVE  /\ \A x \in Uses :
              /\ x[1] \in Tasks /\ x = <<x[1], x[2], x[3]>>
              /\ <<x[2], x[3]>> \in Filled(space[x[1]])
              /\ FrameOf(x) = FrameAt(space[x[1]], <<x[2], x[3]>>)
         /\ \A t \in Tasks : \A p \in Filled(space[t]) :
              p = <<p[1], p[2]>> /\ <<t, p[1], p[2]>> \in Uses
<1>1. \A t \in Tasks : SpaceOK(space[t])
  BY DEF AInv
<1>2. ASSUME NEW x \in Uses
      PROVE  /\ x[1] \in Tasks /\ x = <<x[1], x[2], x[3]>>
             /\ <<x[2], x[3]>> \in Filled(space[x[1]])
             /\ FrameOf(x) = FrameAt(space[x[1]], <<x[2], x[3]>>)
  <2>1. \/ \E t \in Tasks : ~ Unused(t) /\ x = <<t, "pgd", 0>>
        \/ \E t \in Tasks, i \in 0..(Roots - 1) :
             space[t].tables[i] # 0 /\ x = <<t, "table", i>>
        \/ \E t \in Tasks, v \in Pages :
             v # Trampoline /\ space[t].leaf[v] # Absent /\ x = <<t, "leaf", v>>
    BY DEF Uses
  <2>2. ASSUME NEW t \in Tasks, ~ Unused(t), x = <<t, "pgd", 0>>
        PROVE  /\ x[1] \in Tasks /\ x = <<x[1], x[2], x[3]>>
               /\ <<x[2], x[3]>> \in Filled(space[x[1]])
               /\ FrameOf(x) = FrameAt(space[x[1]], <<x[2], x[3]>>)
    <3>1. x[1] = t /\ x[2] = "pgd" /\ x[3] = 0
      BY <2>2
    <3>2. <<"pgd", 0>> \in Filled(space[t])
      BY <1>1, <2>2, RootUsed, FilledPositions
    <3>3. FrameOf(x) = space[t].pgd
      BY <3>1 DEF FrameOf
    <3>. QED BY <2>2, <3>1, <3>2, <3>3, PositionKinds
  <2>3. ASSUME NEW t \in Tasks, NEW i \in 0..(Roots - 1),
               space[t].tables[i] # 0, x = <<t, "table", i>>
        PROVE  /\ x[1] \in Tasks /\ x = <<x[1], x[2], x[3]>>
               /\ <<x[2], x[3]>> \in Filled(space[x[1]])
               /\ FrameOf(x) = FrameAt(space[x[1]], <<x[2], x[3]>>)
    <3>1. x[1] = t /\ x[2] = "table" /\ x[3] = i
      BY <2>3
    <3>2. <<"table", i>> \in Filled(space[t])
      BY <1>1, <2>3, FilledPositions
    <3>3. FrameOf(x) = space[t].tables[i]
      BY <3>1 DEF FrameOf
    <3>. QED BY <2>3, <3>1, <3>2, <3>3, PositionKinds
  <2>4. ASSUME NEW t \in Tasks, NEW v \in Pages, v # Trampoline,
               space[t].leaf[v] # Absent, x = <<t, "leaf", v>>
        PROVE  /\ x[1] \in Tasks /\ x = <<x[1], x[2], x[3]>>
               /\ <<x[2], x[3]>> \in Filled(space[x[1]])
               /\ FrameOf(x) = FrameAt(space[x[1]], <<x[2], x[3]>>)
    <3>1. x[1] = t /\ x[2] = "leaf" /\ x[3] = v
      BY <2>4
    <3>2. <<"leaf", v>> \in Filled(space[t])
      BY <1>1, <2>4, FilledPositions
    <3>3. FrameOf(x) = space[t].leaf[v].frame
      BY <3>1 DEF FrameOf
    <3>. QED BY <2>4, <3>1, <3>2, <3>3, PositionKinds
  <2>. QED BY <2>1, <2>2, <2>3, <2>4
<1>3. ASSUME NEW t \in Tasks, NEW p \in Filled(space[t])
      PROVE  p = <<p[1], p[2]>> /\ <<t, p[1], p[2]>> \in Uses
  <2>1. p \in Positions
    BY DEF Filled
  <2>2. CASE p = <<"pgd", 0>>
    <3>1. ~ Unused(t)
      BY <1>1, <2>2, RootUsed, FilledPositions
    <3>. QED BY <2>2, <3>1 DEF Uses
  <2>3. ASSUME NEW i \in 0..(Roots - 1), p = <<"table", i>>
        PROVE  p = <<p[1], p[2]>> /\ <<t, p[1], p[2]>> \in Uses
    <3>1. space[t].tables[i] # 0
      BY <1>1, <2>3, FilledPositions
    <3>. QED BY <2>3, <3>1 DEF Uses
  <2>4. ASSUME NEW v \in Pages, p = <<"leaf", v>>
        PROVE  p = <<p[1], p[2]>> /\ <<t, p[1], p[2]>> \in Uses
    <3>1. space[t].leaf[v] # Absent /\ v # Trampoline
      BY <1>1, <2>4, FilledPositions
    <3>. QED BY <2>4, <3>1 DEF Uses
  <2>. QED BY <2>1, <2>2, <2>3, <2>4, PositionKinds
<1>. QED BY <1>2, <1>3

\* The uses are finite in number.
LEMMA UsesFinite ==
  ASSUME AInv
  PROVE  IsFiniteSet(Uses)
<1>. DEFINE places == {y \in Tasks \X Positions : y[2] \in Filled(space[y[1]])}
            f == [y \in places |-> <<y[1], y[2][1], y[2][2]>>]
<1>1. IsFiniteSet(Tasks \X Positions)
  BY SizeAssumption, Finite, FS_Product
<1>2. IsFiniteSet(places)
  BY <1>1, FS_Subset
<1>3. \A y \in places : f[y] \in Uses
  BY UsesFilled
<1>4. ASSUME NEW x \in Uses PROVE \E y \in places : f[y] = x
  <2>. DEFINE y == <<x[1], <<x[2], x[3]>>>>
  <2>1. x[1] \in Tasks /\ x = <<x[1], x[2], x[3]>> /\ <<x[2], x[3]>> \in Filled(space[x[1]])
    BY UsesFilled
  <2>2. y \in places
    BY <2>1 DEF Filled
  <2>3. f[y] = x
    BY <2>1, <2>2
  <2>. QED BY <2>2, <2>3
<1>5. f \in Surjection(places, Uses)
  BY <1>3, <1>4 DEF Surjection
<1>. QED BY <1>2, <1>5, FS_Surjection

\* A task has as many filled places as it has uses of pages.
LEMMA FilledUses ==
  ASSUME AInv, NEW t \in Tasks
  PROVE  /\ Cardinality(Filled(space[t])) <= Cardinality({x \in Uses : x[1] = t})
         /\ Cardinality({x \in Uses : x[1] = t}) \in Nat
<1>. DEFINE uses == {x \in Uses : x[1] = t}
            places == Filled(space[t])
            f == [x \in uses |-> <<x[2], x[3]>>]
<1>1. IsFiniteSet(uses)
  BY UsesFinite, FS_Subset
<1>2. \A x \in uses : f[x] \in places
  BY UsesFilled
<1>3. ASSUME NEW p \in places PROVE \E x \in uses : f[x] = p
  <2>. DEFINE x == <<t, p[1], p[2]>>
  <2>1. p = <<p[1], p[2]>> /\ x \in Uses
    BY UsesFilled
  <2>2. x \in uses
    BY <2>1
  <2>3. f[x] = p
    BY <2>1, <2>2
  <2>. QED BY <2>2, <2>3
<1>4. f \in Surjection(uses, places)
  BY <1>2, <1>3 DEF Surjection
<1>. QED BY <1>1, <1>4, FS_Surjection, FS_CardinalityType

-----------------------------------------------------------------------------
(* The actions.                                                            *)

\* task_find_mapping finds the mapping a page is in.
LEMMA FindMapping ==
  ASSUME NEW mappings, MappingsOK(mappings), NEW v \in Pages
  PROVE  /\ task_find_mapping(mappings, v) # << >> =>
              \E i \in 1..Len(mappings) :
                /\ task_find_mapping(mappings, v) = <<mappings[i]>>
                /\ mappings[i].vaddr <= v /\ v < MappingEnd(mappings[i])
         /\ \A i \in 1..Len(mappings) :
              mappings[i].vaddr <= v /\ v < MappingEnd(mappings[i]) =>
                task_find_mapping(mappings, v) = <<mappings[i]>>
<1>. DEFINE ends == {i \in DOMAIN mappings : v < MappingEnd(mappings[i])}
            k == CHOOSE k \in ends : \A j \in ends : k <= j
            r == task_find_mapping(mappings, v)
<1>1. /\ mappings \in Seq(Mappings) /\ DOMAIN mappings = 1..Len(mappings)
      /\ Len(mappings) \in Nat /\ v \in Nat
  BY LenProperties, PageTable DEF MappingsOK
<1>2. \A i \in 1..Len(mappings) : mappings[i].vaddr \in Nat /\ MappingEnd(mappings[i]) \in Nat
  BY <1>1, MappingNumbers
<1>3. r = IF ends = {} \/ v < mappings[k].vaddr THEN << >> ELSE <<mappings[k]>>
  BY DEF task_find_mapping
<1>4. ends # {} => k \in ends /\ \A j \in ends : k <= j
  <2>1. ends \in SUBSET Nat
    BY <1>1
  <2>2. ends # {} => \E i \in ends : \A j \in ends : i <= j
    BY <2>1, LeastElement
  <2>. HIDE DEF ends
  <2>. QED BY <2>2
<1>. HIDE DEF k, r
<1>5. ASSUME r # << >>
      PROVE  \E i \in 1..Len(mappings) :
               r = <<mappings[i]>> /\ mappings[i].vaddr <= v /\ v < MappingEnd(mappings[i])
  <2>1. k \in ends /\ ~ (v < mappings[k].vaddr) /\ r = <<mappings[k]>>
    BY <1>3, <1>4, <1>5
  <2>2. k \in 1..Len(mappings) /\ v < MappingEnd(mappings[k])
    BY <1>1, <2>1
  <2>3. mappings[k].vaddr <= v
    BY <1>1, <1>2, <2>1, <2>2
  <2>. QED BY <2>1, <2>2, <2>3
<1>6. ASSUME NEW i \in 1..Len(mappings),
             mappings[i].vaddr <= v, v < MappingEnd(mappings[i])
      PROVE  r = <<mappings[i]>>
  <2>1. i \in ends
    BY <1>1, <1>6
  <2>2. k \in ends /\ k <= i
    BY <1>4, <2>1
  <2>3. k \in 1..Len(mappings) /\ v < MappingEnd(mappings[k])
    BY <1>1, <2>2
  <2>4. k = i
    <3>1. ASSUME k < i PROVE FALSE
      <4>1. MappingEnd(mappings[k]) <= mappings[i].vaddr
        BY <2>3, <3>1 DEF MappingsOK
      <4>. QED BY <1>1, <1>2, <1>6, <2>3, <4>1
    <3>. QED BY <2>2, <2>3, <3>1
  <2>5. ~ (v < mappings[i].vaddr)
    BY <1>1, <1>2, <1>6
  <2>. HIDE DEF ends
  <2>. QED BY <1>3, <2>1, <2>4, <2>5
<1>. QED BY <1>5, <1>6 DEF r

\* The trampoline is in no mapping.
LEMMA NoMapping ==
  ASSUME NEW mappings, MappingsOK(mappings), NEW v \in Pages,
         v = Trampoline \/ mappings = << >>
  PROVE  task_find_mapping(mappings, v) = << >>
<1>1. ASSUME task_find_mapping(mappings, v) # << >> PROVE FALSE
  <2>1. PICK i \in 1..Len(mappings) : mappings[i].vaddr <= v
    BY <1>1, FindMapping
  <2>2. CASE mappings = << >>
    BY <2>2
  <2>3. CASE v = Trampoline
    <3>1. Trampoline < mappings[i].vaddr
      BY DEF MappingsOK
    <3>2. mappings[i].vaddr \in Nat /\ Trampoline \in Nat
      BY MappingNumbers, TrampolinePage DEF MappingsOK
    <3>. QED BY <2>1, <2>3, <3>1, <3>2
  <2>. QED BY <2>2, <2>3
<1>. QED BY <1>1

\* Nothing is seen there before a step and after it.
LEMMA UnseenGate ==
  ASSUME AInv, NEW t \in Tasks,
         \A v \in Pages \ {Trampoline} :
           space[t].leaf[v] = Absent /\ space'[t].mappings = space[t].mappings
             /\ space[t].mappings # << >>
             => space'[t].leaf[v] = Absent
  PROVE  Unseen(t)
<1>. SUFFICES ASSUME NEW v \in Pages, space[t].leaf[v] = Absent,
                     space'[t].leaf[v] # Absent,
                     space'[t].mappings = space[t].mappings
              PROVE  View(t, v)' = View(t, v)
  BY DEF Unseen
<1>1. v = Trampoline \/ space[t].mappings = << >>
  OBVIOUS
<1>2. MappingsOK(space[t].mappings)
  BY DEF AInv, SpaceOK
<1>3. task_find_mapping(space[t].mappings, v) = << >>
  BY <1>1, <1>2, NoMapping
<1>4. task_find_mapping(space'[t].mappings, v) = << >>
  BY <1>3
<1>. QED BY <1>3, <1>4 DEF View

\* The places a new program fills at once: the root and the trampoline's table.
LEMMA RootAndGate ==
  LET goal == {<<"pgd", 0>>, <<"table", Trampoline \div Entries>>}
  IN  /\ goal \subseteq Positions
      /\ Cardinality(goal) = 2
<1>. DEFINE p == <<"pgd", 0>>
            q == <<"table", Trampoline \div Entries>>
<1>1. p \in Positions /\ q \in Positions /\ p # q
  BY TrampolinePage, PositionKinds
<1>. HIDE DEF p, q
<1>2. Cardinality({p}) = 1 /\ IsFiniteSet({p})
  BY FS_Singleton
<1>3. Cardinality({p} \cup {q}) = Cardinality({p}) + 1
  BY <1>1, <1>2, FS_AddElement
<1>4. {p, q} = {p} \cup {q}
  OBVIOUS
<1>5. Cardinality({p, q}) = 2
  BY <1>2, <1>3, <1>4
<1>. QED BY <1>1, <1>5 DEF p, q

\* command_exec keeps the invariant.
LEMMA CommandExecKeeps ==
  ASSUME AInv, NEW t \in Tasks, command_exec(t)
  PROVE  AInv' /\ OnlyOf(t) /\ Unseen(t)
<1>. DEFINE goal == {<<"pgd", 0>>, <<"table", Trampoline \div Entries>>}
            m == [Take(Memory(NoSpace), "table") EXCEPT !.s.pgd = Some(free)]
            r == task_create_user_mappings(m)
            others == OthersOf(t)
<1>1. CASE Apply(t, r)
  <2>1. space[t] = NoSpace /\ Cardinality(free) >= 2
    BY DEF command_exec, Unused, Room
  <2>2. /\ (DOMAIN others) \cap free = {} /\ (DOMAIN others) \cup free = Frames
        /\ \A f \in DOMAIN others : content[f] = others[f]
        /\ free \in SUBSET Frames /\ content \in [Frames -> Contents]
    <3>1. Owned(NoSpace) = {}
      BY BareOK
    <3>2. /\ DOMAIN others = PagesOfOthers(t)
          /\ \A f \in PagesOfOthers(t) : content[f] = others[f]
          /\ PagesOfOthers(t) \cap free = {} /\ Memory(space[t]).s = space[t]
          /\ PagesOfOthers(t) \cup Owned(Memory(space[t]).s) \cup free = Frames
      BY Split
    <3>. HIDE DEF others
    <3>. QED BY <2>1, <3>1, <3>2 DEF AInv, TypeOK
  <2>3. /\ goal \subseteq Positions /\ <<"pgd", 0>> \in goal
        /\ <<"table", Trampoline \div Entries>> \in goal
        /\ Cardinality(goal) <= Cardinality(free)
    <3>1. Cardinality(free) \in Nat
      BY <2>2, Finite
    <3>. QED BY <2>1, <3>1, RootAndGate
  <2>. HIDE DEF goal, others
  <2>4. MemoryOK(m, others, goal) /\ m.s.pgd # 0 /\ \A v \in Pages : m.s.leaf[v] = Absent
    BY <2>2, <2>3, NewRoot
  <2>. HIDE DEF m
  <2>5. /\ MemoryOK(r, others, goal) /\ r.s.pgd # 0 /\ r.s.leaf[Trampoline] # Absent
        /\ \A v \in Pages \ {Trampoline} : r.s.leaf[v] = Absent
    BY <2>3, <2>4, CreateMappings
  <2>. HIDE DEF r
  <2>6. AInv' /\ OnlyOf(t) /\ space'[t] = r.s
    BY <1>1, <2>5, JoinApply DEF others
  <2>7. Unseen(t)
    BY <2>5, <2>6, UnseenGate
  <2>. QED BY <2>6, <2>7
<1>2. CASE wild' = TRUE /\ UNCHANGED <<space, free, content, dead>>
  BY <1>2 DEF AInv, TypeOK, Unused, OnlyOf, Unseen
<1>. QED BY <1>1, <1>2 DEF command_exec

\* A task that runs has its memory.
LEMMA RunningReady ==
  ASSUME AInv, NEW t \in Tasks, ~ Unused(t)
  PROVE  /\ space[t].pgd # 0 /\ space[t].leaf[Trampoline] # Absent
         /\ MemoryOK(Memory(space[t]), OthersOf(t), Filled(space[t]))
         /\ Memory(space[t]).s = space[t] /\ Memory(space[t]).free = free
<1>. DEFINE goal == Filled(space[t])
            m == Memory(space[t])
<1>1. space[t].pgd # 0 /\ space[t].leaf[Trampoline] # Absent
  BY DEF AInv, Ready, Unused
<1>2. m.s = space[t] /\ m.free = free
  BY Split
<1>3. goal \subseteq Positions /\ Cardinality(goal) \in Nat /\ Cardinality(free) \in Nat
  <2>1. goal \subseteq Positions /\ free \subseteq Frames
    BY DEF Filled, AInv, TypeOK
  <2>. QED BY <2>1, Finite
<1>4. Cardinality(goal) <= Cardinality(free) + Cardinality(goal)
  BY <1>3
<1>5. MemoryOK(m, OthersOf(t), goal)
  BY <1>2, <1>3, <1>4, Split
<1>. QED BY <1>1, <1>2, <1>5

\* exec keeps the invariant.
LEMMA ExecKeeps ==
  ASSUME AInv, NEW t \in Tasks, _syscall_exec(t)
  PROVE  AInv' /\ OnlyOf(t) /\ Unseen(t)
<1>. DEFINE goal == {<<"pgd", 0>>, <<"table", Trampoline \div Entries>>}
            m == Memory(space[t])
            cleared == virtual_memory_free_tables(
                         [task_free_mappings(m) EXCEPT !.s.mappings = << >>])
            r == task_exec_user(m)
            others == OthersOf(t)
<1>1. CASE Apply(t, r)
  <2>1. ~ Unused(t)
    BY DEF _syscall_exec, Running
  <2>2. /\ MemoryOK(m, others, Filled(space[t]))
        /\ m.s.pgd # 0 /\ m.s.leaf[Trampoline] # Absent
    BY <2>1, RunningReady
  <2>3. r = task_create_user_mappings(cleared)
    BY DEF task_exec_user
  <2>. HIDE DEF m, others
  <2>4. /\ MemoryOK(cleared, others, goal) /\ cleared.s.pgd = m.s.pgd
        /\ \A v \in Pages : cleared.s.leaf[v] = Absent
    BY <2>2, ClearSpace
  <2>5. <<"table", Trampoline \div Entries>> \in goal
    OBVIOUS
  <2>. HIDE DEF cleared, r, goal
  <2>6. /\ MemoryOK(r, others, goal) /\ r.s.pgd = cleared.s.pgd
        /\ r.s.leaf[Trampoline] # Absent
        /\ \A v \in Pages \ {Trampoline} : r.s.leaf[v] = cleared.s.leaf[v]
    BY <2>3, <2>4, <2>5, CreateMappings
  <2>7. AInv' /\ OnlyOf(t) /\ space'[t] = r.s
    BY <1>1, <2>2, <2>4, <2>6, JoinApply DEF others
  <2>8. Unseen(t)
    BY <2>4, <2>6, <2>7, UnseenGate
  <2>. QED BY <2>7, <2>8
<1>2. CASE UNCHANGED vars
  BY <1>2 DEF AInv, TypeOK, Unused, vars, OnlyOf, Unseen
<1>. QED BY <1>1, <1>2 DEF _syscall_exec

\* What fork has made of a child: the mappings of its parent, and at each page
\* nothing, or what its parent has there.
Forked(t, child) ==
  /\ Len(space'[child].mappings) = Len(space[t].mappings)
  /\ \A i \in 1..Len(space[t].mappings) :
       space'[child].mappings[i] = Copied(space[t].mappings[i])
  /\ \A v \in Pages \ {Trampoline} :
       \/ space'[child].leaf[v] = Absent /\ space[t].leaf[v] = Absent
       \/ /\ space'[child].leaf[v] # Absent /\ space[t].leaf[v] # Absent
          /\ content'[space'[child].leaf[v].frame] = content[space[t].leaf[v].frame]

\* fork keeps the invariant and copies.
LEMMA ForkKeeps ==
  ASSUME AInv, NEW t \in Tasks, NEW child \in Tasks, _syscall_fork(t, child)
  PROVE  AInv' /\ OnlyOf(child) /\ Unseen(child) /\ Forked(t, child)
<1>. DEFINE source == space[t]
            goal == Filled(source)
            m == [Take(Memory(NoSpace), "table") EXCEPT !.s.pgd = Some(free)]
            r == task_copy_mappings(m, source)
            others == OthersOf(child)
<1>1. /\ ~ Unused(t) /\ space[child] = NoSpace
      /\ Cardinality(free) >= Cardinality({x \in Uses : x[1] = t})
      /\ Apply(child, task_copy(Memory(NoSpace), source))
  BY DEF _syscall_fork, Running, Unused, Room
<1>2. /\ (DOMAIN others) \cap free = {} /\ (DOMAIN others) \cup free = Frames
      /\ \A f \in DOMAIN others : content[f] = others[f]
      /\ free \in SUBSET Frames /\ content \in [Frames -> Contents]
  <2>1. Owned(NoSpace) = {}
    BY BareOK
  <2>2. /\ DOMAIN others = PagesOfOthers(child)
        /\ \A f \in PagesOfOthers(child) : content[f] = others[f]
        /\ PagesOfOthers(child) \cap free = {} /\ Memory(space[child]).s = space[child]
        /\ PagesOfOthers(child) \cup Owned(Memory(space[child]).s) \cup free = Frames
    BY Split
  <2>. HIDE DEF others
  <2>. QED BY <1>1, <2>1, <2>2 DEF AInv, TypeOK
<1>3. SpaceOK(source) /\ source.leaf[Trampoline] # Absent /\ source.pgd # 0
  BY <1>1, RunningReady DEF AInv
<1>4. goal \subseteq Positions /\ <<"pgd", 0>> \in goal
  BY <1>3, FilledPositions DEF Filled
<1>5. Cardinality(goal) <= Cardinality(free)
  <2>1. Cardinality(free) \in Nat /\ Cardinality(goal) \in Nat
    BY <1>2, <1>4, Finite
  <2>2. /\ Cardinality(goal) <= Cardinality({x \in Uses : x[1] = t})
        /\ Cardinality({x \in Uses : x[1] = t}) \in Nat
    BY FilledUses
  <2>. QED BY <1>1, <2>1, <2>2
<1>6. task_copy(Memory(NoSpace), source) = r
  <2>1. Memory(NoSpace).free = free
    BY DEF Memory
  <2>. QED BY <2>1 DEF task_copy
<1>11. /\ t # child
       /\ \A v \in Pages \ {Trampoline} : source.leaf[v] # Absent =>
            /\ source.leaf[v].frame \in DOMAIN others
            /\ others[source.leaf[v].frame] = content[source.leaf[v].frame]
  <2>1. t # child
    BY <1>1 DEF Unused
  <2>2. ASSUME NEW v \in Pages \ {Trampoline}, source.leaf[v] # Absent
        PROVE  source.leaf[v].frame \in PagesOfOthers(child)
    <3>1. source.leaf[v].frame \in Frames
      BY <1>3, <2>2 DEF SpaceOK, LeavesOK
    <3>2. <<"leaf", v>> \in Filled(source)
          /\ FrameAt(source, <<"leaf", v>>) = source.leaf[v].frame
      BY <3>1, PositionKinds DEF Filled
    <3>3. source.leaf[v].frame \in Owned(space[t])
      BY <3>2 DEF Owned
    <3>. QED BY <2>1, <3>3 DEF PagesOfOthers
  <2>. QED BY <2>1, <2>2 DEF OthersOf
<1>. HIDE DEF source, others
<1>7. /\ MemoryOK(m, others, goal) /\ m.s.pgd # 0 /\ m.s.mappings = << >>
      /\ \A v \in Pages : m.s.leaf[v] = Absent
  <2>. HIDE DEF goal
  <2>. QED BY <1>2, <1>4, <1>5, NewRoot
<1>. HIDE DEF m
<1>8. /\ MemoryOK(r, others, goal) /\ r.s.pgd # 0 /\ r.s.leaf[Trampoline] # Absent
      /\ Len(r.s.mappings) = Len(source.mappings)
      /\ \A i \in 1..Len(source.mappings) :
           r.s.mappings[i] = Copied(source.mappings[i])
      /\ \A v \in Pages \ {Trampoline} : Agrees(r, source, others, v)
  <2>1. Foreign(source, others)
    BY <1>11 DEF Foreign
  <2>. QED BY <1>3, <1>7, <2>1, CopyMappingsKeeps
<1>. HIDE DEF r, goal
<1>9. AInv' /\ OnlyOf(child) /\ space'[child] = r.s /\ content' = r.content
  BY <1>1, <1>6, <1>8, JoinApply DEF others
<1>10. Unseen(child)
  <2>1. space[child].mappings = << >>
    BY <1>1 DEF NoSpace
  <2>. QED BY <2>1, UnseenGate
<1>12. Forked(t, child)
  <2>1. ASSUME NEW v \in Pages \ {Trampoline}
        PROVE  \/ r.s.leaf[v] = Absent /\ source.leaf[v] = Absent
               \/ /\ r.s.leaf[v] # Absent /\ source.leaf[v] # Absent
                  /\ r.content[r.s.leaf[v].frame] = content[source.leaf[v].frame]
    <3>1. Agrees(r, source, others, v)
      BY <1>8
    <3>. QED BY <1>11, <3>1 DEF Agrees
  <2>. QED BY <1>8, <1>9, <2>1 DEF Forked, source
<1>. QED BY <1>9, <1>10, <1>12

\* The places that populating a mapping may fill.
LEMMA PopulatedPlaces ==
  ASSUME NEW places, places \subseteq Positions,
         NEW first \in Nat, NEW size \in Nat, first + size <= KernelBase
  PROVE  LET goal == (places \cup ({"leaf"} \X (first..(first + size - 1))))
                       \cup ({"table"} \X (0..(Roots - 1)))
         IN  /\ goal \subseteq Positions /\ places \subseteq goal
             /\ Cardinality(goal) <= Cardinality(places) + size + Roots
             /\ \A v \in first..(first + size - 1) : Allowed(goal, v)
<1>. DEFINE leaves == {"leaf"} \X (first..(first + size - 1))
            tables == {"table"} \X (0..(Roots - 1))
            goal == (places \cup leaves) \cup tables
<1>1. /\ first..(first + size - 1) \subseteq Pages
      /\ \A v \in first..(first + size - 1) : v \div Entries \in 0..(Roots - 1)
      /\ Roots \in Nat /\ Roots >= 1
  <2>1. KernelBase \in Nat /\ Pages = 0..(KernelBase - 1) /\ Roots \in Nat /\ Roots >= 1
    BY PageTable, SizeAssumption
  <2>2. first..(first + size - 1) \subseteq Pages
    BY <2>1
  <2>. QED BY <2>1, <2>2, PageTable
<1>2. leaves \subseteq Positions /\ tables \subseteq Positions
  BY <1>1 DEF Positions
<1>3. /\ IsFiniteSet(first..(first + size - 1)) /\ Cardinality(first..(first + size - 1)) = size
      /\ IsFiniteSet(0..(Roots - 1)) /\ Cardinality(0..(Roots - 1)) = Roots
      /\ IsFiniteSet({"leaf"}) /\ Cardinality({"leaf"}) = 1
      /\ IsFiniteSet({"table"}) /\ Cardinality({"table"}) = 1
  <2>1. first \in Int /\ first + size - 1 \in Int /\ 0 \in Int /\ Roots - 1 \in Int
    BY <1>1
  <2>2. /\ IsFiniteSet(first..(first + size - 1))
        /\ Cardinality(first..(first + size - 1))
             = IF first > first + size - 1 THEN 0 ELSE (first + size - 1) - first + 1
        /\ IsFiniteSet(0..(Roots - 1))
        /\ Cardinality(0..(Roots - 1)) = IF 0 > Roots - 1 THEN 0 ELSE (Roots - 1) - 0 + 1
    BY <2>1, FS_Interval
  <2>3. /\ IF first > first + size - 1 THEN size = 0 ELSE (first + size - 1) - first + 1 = size
        /\ ~ (0 > Roots - 1) /\ (Roots - 1) - 0 + 1 = Roots
    BY <1>1
  <2>4. /\ Cardinality(first..(first + size - 1)) = size
        /\ Cardinality(0..(Roots - 1)) = Roots
    BY <2>2, <2>3
  <2>. QED BY <2>2, <2>4, FS_Singleton
<1>4. Cardinality(leaves) = size /\ Cardinality(tables) = Roots
  <2>1. /\ Cardinality(leaves) = Cardinality({"leaf"}) * Cardinality(first..(first + size - 1))
        /\ Cardinality(tables) = Cardinality({"table"}) * Cardinality(0..(Roots - 1))
    BY <1>3, FS_Product
  <2>2. 1 * size = size /\ 1 * Roots = Roots
    BY <1>1
  <2>. QED BY <1>3, <2>1, <2>2
<1>5. goal \subseteq Positions /\ places \subseteq goal
  BY <1>2
<1>6. \A v \in first..(first + size - 1) : Allowed(goal, v)
  BY <1>1 DEF Allowed
<1>. HIDE DEF leaves, tables
<1>7. /\ IsFiniteSet(places) /\ IsFiniteSet(leaves) /\ IsFiniteSet(tables)
      /\ Cardinality(places) \in Nat
      /\ Cardinality(places \cap leaves) \in Nat
      /\ Cardinality((places \cup leaves) \cap tables) \in Nat
  <2>1. places \cap leaves \subseteq Positions
        /\ (places \cup leaves) \cap tables \subseteq Positions
    BY <1>2
  <2>. QED BY <1>2, <2>1, Finite
<1>8. /\ IsFiniteSet(places \cup leaves)
      /\ Cardinality(places \cup leaves)
           = Cardinality(places) + Cardinality(leaves) - Cardinality(places \cap leaves)
  BY <1>7, FS_Union
<1>9. Cardinality(goal) = Cardinality(places \cup leaves) + Cardinality(tables)
                            - Cardinality((places \cup leaves) \cap tables)
  BY <1>7, <1>8, FS_Union
<1>10. Cardinality(goal) <= Cardinality(places) + size + Roots
  BY <1>1, <1>4, <1>7, <1>8, <1>9
<1>. QED BY <1>5, <1>6, <1>10 DEF leaves, tables

\* mmap keeps the invariant.
LEMMA MmapKeeps ==
  ASSUME AInv, NEW t \in Tasks, NEW request \in Requests, _syscall_mmap(t, request)
  PROVE  AInv' /\ OnlyOf(t) /\ Unseen(t)
<1>. DEFINE m == Memory(space[t])
            vaddr == request.vaddr
            size == request.size
            prot == get_mapping_prot(request.prot)
            others == OthersOf(t)
            places == Filled(space[t])
            r == task_add_mapping(m, vaddr, size, prot, "anon", TRUE, request.populate)
<1>1. CASE /\ ~ Unused(t) /\ size # 0 /\ Apply(t, r)
           /\ request.populate => Room(size + Roots)
  <2>1. /\ vaddr \in Nat /\ size \in Nat /\ size >= 1 /\ prot \in SUBSET Access
        /\ request.populate \in BOOLEAN
    <3>1. request \in [vaddr : Nat, size : Nat, prot : SUBSET Access, populate : BOOLEAN]
      BY SizeAssumption
    <3>2. request.prot \in SUBSET Access /\ vaddr \in Nat /\ size \in Nat
          /\ request.populate \in BOOLEAN
      BY <3>1
    <3>3. prot \in SUBSET Access
      BY <3>2 DEF get_mapping_prot, Access
    <3>4. size >= 1
      BY <1>1, <3>2
    <3>. QED BY <3>2, <3>3, <3>4
  <2>2. /\ MemoryOK(m, others, places) /\ m.s = space[t] /\ m.free = free
        /\ m.s.pgd # 0 /\ m.s.leaf[Trampoline] # Absent
    BY <1>1, RunningReady
  <2>. DEFINE v == _get_mapping_vaddr(m.s.mappings, vaddr, size)
              mapping == [vaddr |-> v, size |-> size, prot |-> prot,
                          backer |-> "anon", whole |-> TRUE]
              r0 == task_add_mapping(m, vaddr, size, prot, "anon", TRUE, FALSE)
  <2>3. CASE ~ request.populate
    <3>1. request.populate = FALSE
      BY <2>1, <2>3
    <3>2. r = r0
      BY <3>1 DEF task_add_mapping
    <3>. HIDE DEF m, r, r0, others, places, prot, vaddr, size
    <3>3. Adds(m, others, places, vaddr, size, prot, "anon", TRUE)
      BY <2>1, <2>2, AddMapping
    <3>4. MemoryOK(r0, others, places) /\ r0.s.pgd = m.s.pgd /\ r0.s.leaf = m.s.leaf
      BY <3>3 DEF Adds, r0
    <3>5. AInv' /\ OnlyOf(t) /\ space'[t] = r.s
      BY <1>1, <2>2, <3>2, <3>4, JoinApply DEF others
    <3>6. space'[t].leaf = space[t].leaf
      BY <2>2, <3>2, <3>4, <3>5
    <3>. QED BY <3>5, <3>6 DEF Unseen
  <2>4. CASE request.populate /\ v = -1
    <3>1. r = m
      BY <2>4 DEF task_add_mapping
    <3>. HIDE DEF m, r, others, places
    <3>2. AInv' /\ OnlyOf(t) /\ space'[t] = r.s
      BY <1>1, <2>2, <3>1, JoinApply DEF others
    <3>3. space'[t].leaf = space[t].leaf
      BY <2>2, <3>1, <3>2
    <3>. QED BY <3>2, <3>3 DEF Unseen
  <2>5. CASE request.populate /\ v # -1
    <3>. DEFINE added == Mapping(m, mapping)
                first == mapping.vaddr
                goal == (places \cup ({"leaf"} \X (first..(first + size - 1))))
                          \cup ({"table"} \X (0..(Roots - 1)))
    <3>1. r = InstallAll(added, mapping)
      BY <2>5 DEF task_add_mapping, Mapping
    <3>2. Fits(m.s.mappings, mapping)
      <4>. HIDE DEF m, others, places, prot, vaddr, size
      <4>1. Adds(m, others, places, vaddr, size, prot, "anon", TRUE)
        BY <2>1, <2>2, AddMapping
      <4>. QED BY <2>5, <4>1 DEF Adds
    <3>3. /\ mapping.size = size /\ mapping.prot = prot
          /\ first \in Nat /\ MappingEnd(mapping) = first + size
          /\ first + size <= KernelBase /\ Trampoline < first
          /\ mapping \in Mappings
      <4>1. mapping.size = size /\ mapping.prot = prot
        OBVIOUS
      <4>. HIDE DEF mapping
      <4>2. mapping \in Mappings /\ mapping.vaddr \in Pages
        BY <3>2 DEF Fits, Mappings
      <4>. QED BY <3>2, <4>1, <4>2, PageTable DEF Fits, MappingEnd
    <3>. HIDE DEF m, mapping, r, places, others, prot, vaddr
    <3>4. /\ places \subseteq Positions /\ free \subseteq Frames
          /\ Cardinality(places) \in Nat /\ Cardinality(free) \in Nat
      <4>1. places \subseteq Positions /\ free \subseteq Frames
        BY DEF Filled, places, AInv, TypeOK
      <4>. QED BY <4>1, Finite
    <3>5. /\ goal \subseteq Positions /\ places \subseteq goal
          /\ Cardinality(goal) <= Cardinality(places) + size + Roots
          /\ \A w \in first..(first + size - 1) : Allowed(goal, w)
      <4>. HIDE DEF first, size
      <4>. QED BY <2>1, <3>3, <3>4, PopulatedPlaces
    <3>. HIDE DEF goal, first, size
    <3>6. MemoryOK(m, others, goal)
      <4>1. Cardinality(free) >= size + Roots
        BY <1>1, <2>5 DEF Room
      <4>2. Cardinality(goal) \in Nat /\ Roots \in Nat
        BY <3>5, Finite, SizeAssumption
      <4>3. Cardinality(goal) <= Cardinality(free) + Cardinality(places)
        BY <2>1, <3>4, <3>5, <4>1, <4>2
      <4>. QED BY <2>2, <3>5, <4>3, Split DEF m, others, places
    <3>7. /\ MemoryOK(added, others, goal)
          /\ added.s.mappings = _insert_mapping(m.s.mappings, mapping)
          /\ added.s.pgd = m.s.pgd /\ added.s.leaf = m.s.leaf
      BY <3>2, <3>6, AddOne
    <3>. HIDE DEF added
    <3>8. ASSUME NEW w \in mapping.vaddr..(MappingEnd(mapping) - 1)
          PROVE  /\ added.s.leaf[w] = Absent
                 /\ Covered(added.s.mappings, w, mapping.prot)
                 /\ Allowed(goal, w)
      <4>1. SpaceOK(m.s) /\ MappingsOK(m.s.mappings)
        BY <3>6 DEF MemoryOK, SpaceOK
      <4>2. m.s.leaf[w] = Absent
        BY <3>2, <4>1, PagesAbsent
      <4>3. Covered(_insert_mapping(m.s.mappings, mapping), w, mapping.prot)
        BY <3>2, <4>1, NewCovered
      <4>4. Allowed(goal, w)
        <5>1. w \in first..(first + size - 1)
          BY <2>1, <3>3 DEF first
        <5>. QED BY <3>5, <5>1
      <4>. QED BY <3>7, <4>2, <4>3, <4>4
    <3>9. /\ MemoryOK(r, others, goal) /\ r.s.pgd = added.s.pgd
          /\ r.s.mappings = added.s.mappings
          /\ r.s.leaf[Trampoline] = added.s.leaf[Trampoline]
      <4>1. Trampoline < mapping.vaddr /\ MappingEnd(mapping) <= KernelBase
        BY <3>3 DEF first
      <4>. QED BY <3>1, <3>3, <3>7, <3>8, <4>1, InstallAllKeeps
    <3>10. AInv' /\ OnlyOf(t) /\ space'[t] = r.s
      BY <1>1, <2>2, <3>7, <3>9, JoinApply DEF others
    <3>11. space'[t].mappings # space[t].mappings
      <4>1. MappingsOK(m.s.mappings) /\ Len(m.s.mappings) \in Nat
        BY <3>6, LenProperties DEF MemoryOK, SpaceOK, MappingsOK
      <4>2. Len(_insert_mapping(m.s.mappings, mapping)) = Len(m.s.mappings) + 1
        BY <3>2, <4>1, InsertMapping
      <4>3. _insert_mapping(m.s.mappings, mapping) # m.s.mappings
        BY <4>1, <4>2
      <4>. QED BY <2>2, <3>7, <3>9, <3>10, <4>3
    <3>. QED BY <3>10, <3>11 DEF Unseen
  <2>. QED BY <2>3, <2>4, <2>5
<1>2. CASE UNCHANGED vars
  BY <1>2 DEF AInv, TypeOK, Unused, vars, OnlyOf, Unseen
<1>. QED BY <1>1, <1>2 DEF _syscall_mmap, Running

\* The page fault handler and the processes' accesses keep the invariant.
LEMMA AccessKeeps ==
  ASSUME AInv, NEW t \in Tasks, NEW v \in Touched, NEW access \in Access,
         AccessPage(t, v, access)
  PROVE  AInv' /\ OnlyOf(t) /\ Unseen(t)
<1>. DEFINE m == Memory(space[t])
            found == task_find_mapping(space[t].mappings, v)
            mapping == found[1]
            r == task_install_page(m, mapping, v)
            others == OthersOf(t)
            places == Filled(space[t])
<1>1. ~ Unused(t)
  BY DEF AccessPage, Running
<1>2. v \in Pages
  BY LayoutAssumption
<1>3. /\ SpaceOK(space[t]) /\ MappingsOK(space[t].mappings) /\ space[t] \in Spaces
      /\ space[t].mappings \in Seq(Mappings)
  BY DEF AInv, SpaceOK, MappingsOK
<1>4. CASE /\ access \in space[t].leaf[v].prot /\ access = "w"
           /\ content' = [content EXCEPT ![space[t].leaf[v].frame] = "data"]
           /\ UNCHANGED <<space, free, dead, wild>>
  <2>1. content' \in [Frames -> Contents]
    BY <1>4 DEF AInv, TypeOK, Contents
  <2>2. TypeOK'
    BY <1>4, <2>1 DEF AInv, TypeOK
  <2>3. AInv'
    BY <1>4, <2>2 DEF AInv, Unused
  <2>4. space[t].leaf[v].frame \in Owned(space[t])
    <3>1. space[t].leaf[v] # Absent /\ v # Trampoline
      BY <1>2, <1>3, <1>4 DEF Absent, SpaceOK, LeavesOK
    <3>2. <<"leaf", v>> \in Filled(space[t])
      BY <1>2, <1>3, <3>1, FilledPositions
    <3>3. FrameAt(space[t], <<"leaf", v>>) = space[t].leaf[v].frame
      BY PositionKinds
    <3>. QED BY <3>2, <3>3 DEF Owned
  <2>5. ASSUME NEW u \in Tasks \ {t}, NEW f \in Owned(space[u])
        PROVE  content'[f] = content[f]
    <3>1. f # space[t].leaf[v].frame
      BY <2>4 DEF AInv
    <3>2. f \in Frames /\ content \in [Frames -> Contents]
      BY DEF AInv, TypeOK, Owned, Filled
    <3>. QED BY <1>4, <3>1, <3>2
  <2>. QED BY <1>4, <2>3, <2>5 DEF OnlyOf, Unseen
<1>5. CASE Kill(t)
  <2>1. dead' = dead \cup {t} /\ UNCHANGED <<space, free, content, wild>>
    BY <1>5 DEF Kill
  <2>. QED BY <1>1, <2>1 DEF AInv, TypeOK, Unused, OnlyOf, Unseen
<1>6. CASE /\ access \notin space[t].leaf[v].prot /\ Permitted(found, access)
           /\ Room(2) /\ Apply(t, r)
  <2>1. /\ found # << >> /\ access \in mapping.prot
    BY <1>6 DEF Permitted
  <2>2. PICK i \in 1..Len(space[t].mappings) :
          /\ found = <<space[t].mappings[i]>>
          /\ space[t].mappings[i].vaddr <= v
          /\ v < MappingEnd(space[t].mappings[i])
    BY <1>2, <1>3, <2>1, FindMapping
  <2>3. mapping = space[t].mappings[i]
    BY <2>2
  <2>. HIDE DEF mapping
  <2>4. /\ mapping \in Mappings /\ mapping.vaddr \in Nat /\ Trampoline < mapping.vaddr
        /\ mapping.prot \in SUBSET Access
    <3>1. mapping \in Mappings /\ Trampoline < mapping.vaddr
      BY <1>3, <2>3 DEF MappingsOK
    <3>. QED BY <3>1, PageTable DEF Mappings
  <2>5. v # Trampoline /\ v \in Nat
    BY <1>2, <2>2, <2>3, <2>4, TrampolinePage, PageTable
  <2>6. Covered(space[t].mappings, v, mapping.prot)
    BY <2>2, <2>3 DEF Covered
  <2>7. space[t].leaf[v] = Absent
    <3>1. ASSUME space[t].leaf[v] # Absent PROVE FALSE
      <4>1. Covered(space[t].mappings, v, space[t].leaf[v].prot)
        BY <1>2, <1>3, <2>5, <3>1 DEF SpaceOK, LeavesOK
      <4>2. PICK j \in 1..Len(space[t].mappings) :
              /\ space[t].mappings[j].vaddr <= v
              /\ v < MappingEnd(space[t].mappings[j])
              /\ space[t].mappings[j].prot = space[t].leaf[v].prot
        BY <4>1 DEF Covered
      <4>3. found = <<space[t].mappings[j]>>
        BY <1>2, <1>3, <4>2, FindMapping
      <4>4. mapping = space[t].mappings[j]
        BY <4>3 DEF mapping
      <4>. QED BY <1>6, <2>1, <4>2, <4>4
    <3>. QED BY <3>1
  <2>. DEFINE leaf == <<"leaf", v>>
              table == <<"table", v \div Entries>>
              goal == (places \cup {leaf}) \cup {table}
  <2>8. leaf \in Positions /\ table \in Positions
    BY <1>2, PositionKinds, PageTable
  <2>9. /\ places \subseteq Positions /\ free \subseteq Frames
        /\ Cardinality(places) \in Nat /\ Cardinality(free) \in Nat
        /\ IsFiniteSet(places)
    <3>1. places \subseteq Positions /\ free \subseteq Frames
      BY DEF Filled, AInv, TypeOK
    <3>. QED BY <3>1, Finite
  <2>. HIDE DEF leaf, table, places
  <2>10. goal \subseteq Positions /\ places \subseteq goal /\ leaf \in goal /\ table \in goal
    BY <2>8, <2>9
  <2>11. Cardinality(goal) <= Cardinality(free) + Cardinality(places)
    <3>1. /\ IsFiniteSet(places \cup {leaf})
          /\ \/ Cardinality(places \cup {leaf}) = Cardinality(places)
             \/ Cardinality(places \cup {leaf}) = Cardinality(places) + 1
      BY <2>9, FS_AddElement
    <3>2. \/ Cardinality(goal) = Cardinality(places \cup {leaf})
          \/ Cardinality(goal) = Cardinality(places \cup {leaf}) + 1
      BY <3>1, FS_AddElement
    <3>3. Cardinality(free) >= 2
      BY <1>6 DEF Room
    <3>. QED BY <2>9, <3>1, <3>2, <3>3
  <2>. HIDE DEF goal
  <2>12. /\ MemoryOK(m, others, goal) /\ m.s = space[t]
         /\ m.s.pgd # 0 /\ m.s.leaf[Trampoline] # Absent
    <3>1. m.s = space[t] /\ m.s.pgd # 0 /\ m.s.leaf[Trampoline] # Absent
      BY <1>1, RunningReady
    <3>2. MemoryOK(m, others, goal)
      BY <2>10, <2>11, Split DEF places
    <3>. QED BY <3>1, <3>2
  <2>13. Fresh(mapping, v) \in Contents
    BY DEF Fresh, Contents
  <2>14. r = Installed(m, v, Fresh(mapping, v), mapping.prot)
    BY DEF task_install_page, Installed
  <2>. HIDE DEF m, r, others
  <2>15. /\ MemoryOK(r, others, goal) /\ r.s.pgd = m.s.pgd
         /\ r.s.mappings = m.s.mappings
         /\ r.s.leaf[v] # Absent /\ r.content[r.s.leaf[v].frame] = Fresh(mapping, v)
         /\ \A w \in Pages \ {v} : r.s.leaf[w] = m.s.leaf[w]
    <3>1. /\ <<"leaf", v>> \in goal /\ <<"table", v \div Entries>> \in goal
          /\ m.s.leaf[v] = Absent /\ Covered(m.s.mappings, v, mapping.prot)
      BY <2>6, <2>7, <2>10, <2>12 DEF leaf, table
    <3>. QED BY <1>2, <2>4, <2>5, <2>12, <2>13, <2>14, <3>1, InstallOne
  <2>16. r.s.leaf[Trampoline] # Absent
    BY <2>5, <2>12, <2>15, TrampolinePage
  <2>17. AInv' /\ OnlyOf(t) /\ space'[t] = r.s /\ content' = r.content
    BY <1>6, <2>12, <2>15, <2>16, JoinApply DEF others
  <2>18. View(t, v) = Fresh(mapping, v)
    BY <2>1, <2>7 DEF View, mapping
  <2>19. View(t, v)' = Fresh(mapping, v)
    <3>1. space'[t].mappings = space[t].mappings
      BY <2>12, <2>15, <2>17
    <3>2. task_find_mapping(space'[t].mappings, v) # << >>
      BY <2>1, <3>1
    <3>3. space'[t].leaf[v] # Absent /\ content'[space'[t].leaf[v].frame] = Fresh(mapping, v)
      BY <2>15, <2>17
    <3>. QED BY <3>2, <3>3 DEF View
  <2>20. \A w \in Pages \ {v} : space'[t].leaf[w] = space[t].leaf[w]
    BY <2>12, <2>15, <2>17
  <2>. QED BY <2>17, <2>18, <2>19, <2>20 DEF Unseen
<1>. QED BY <1>4, <1>5, <1>6 DEF AccessPage

\* The end of a process keeps the invariant.
LEMMA ExitKeeps ==
  ASSUME AInv, NEW t \in Tasks, Exit(t)
  PROVE  AInv' /\ OnlyOf(t) /\ Unseen(t)
<1>1. /\ ~ Unused(t) /\ dead' = dead \cup {t}
      /\ UNCHANGED <<space, free, content, wild>>
  BY DEF Exit, Running, Kill
<1>. QED BY <1>1 DEF AInv, TypeOK, Unused, OnlyOf, Unseen

\* Freeing a killed task keeps the invariant.
LEMMA ReapKeeps ==
  ASSUME AInv, NEW t \in Tasks, Reap(t)
  PROVE  AInv' /\ OnlyOf(t) /\ Unseen(t)
<1>. DEFINE m == Memory(space[t])
            r == task_free(m)
            others == PagesOfOthers(t)
<1>1. /\ t \in dead /\ space' = [space EXCEPT ![t] = NoSpace]
      /\ free' = r.free /\ content' = r.content
      /\ dead' = dead \ {t} /\ wild' = wild
  BY DEF Reap
<1>2. ~ Unused(t)
  BY <1>1 DEF AInv
<1>3. /\ m \in Memories /\ SpaceOK(m.s) /\ m.s = space[t] /\ m.free = free
      /\ m.content = content
      /\ others \cap free = {} /\ others \cap Owned(m.s) = {}
      /\ others \cup Owned(m.s) \cup free = Frames
  BY Split
<1>4. m.s.pgd # 0
  BY <1>2, <1>3, RunningReady
<1>5. /\ SpaceOK(NoSpace) /\ Single(NoSpace) /\ Ready(NoSpace) /\ Owned(NoSpace) = {}
  BY BareOK DEF Ready
<1>6. /\ free' = free \cup Owned(m.s) /\ content' \in [Frames -> Contents]
      /\ \A f \in Frames \ Owned(m.s) : content'[f] = content[f]
  <2>. HIDE DEF m
  <2>1. /\ r.free = m.free \cup Owned(m.s) /\ r.content \in [Frames -> Contents]
        /\ \A f \in Frames \ Owned(m.s) : r.content[f] = m.content[f]
    BY <1>3, <1>4, FreeSpace
  <2>. QED BY <1>1, <1>3, <2>1
<1>7. /\ free' \subseteq Frames
      /\ Owned(NoSpace) \cap free' = {}
      /\ others \cap (Owned(NoSpace) \cup free') = {}
      /\ others \cup Owned(NoSpace) \cup free' = Frames
  BY <1>3, <1>5, <1>6
<1>8. /\ dead' \subseteq Tasks /\ wild' \in BOOLEAN /\ dead' \subseteq dead
      /\ t \notin dead'
  BY <1>1 DEF AInv, TypeOK
<1>9. AInv'
  BY <1>1, <1>5, <1>6, <1>7, <1>8, Join
<1>10. ASSUME NEW u \in Tasks \ {t}
       PROVE  space'[u] = space[u] /\ \A f \in Owned(space[u]) : content'[f] = content[f]
  <2>1. space'[u] = space[u]
    BY <1>1 DEF AInv, TypeOK
  <2>2. Owned(space[u]) \subseteq Frames /\ Owned(space[u]) \cap Owned(m.s) = {}
    BY <1>3 DEF Owned, Filled, AInv
  <2>. QED BY <1>6, <2>1, <2>2
<1>11. \A v \in Pages : space'[t].leaf[v] = Absent
  <2>1. space'[t] = NoSpace
    BY <1>1 DEF AInv, TypeOK
  <2>. QED BY <2>1 DEF NoSpace
<1>. QED BY <1>9, <1>10, <1>11 DEF OnlyOf, Unseen

\* What a process holds is in its own pages.
LEMMA HeldSame ==
  ASSUME AInv, NEW t \in Tasks, space'[t] = space[t],
         \A f \in Owned(space[t]) : content'[f] = content[f]
  PROVE  Held(t)' = Held(t)
<1>. DEFINE pages == {w \in Pages \ {Trampoline} : space[t].leaf[w] # Absent}
<1>1. ASSUME NEW v \in pages
      PROVE  content'[space[t].leaf[v].frame] = content[space[t].leaf[v].frame]
  <2>1. SpaceOK(space[t])
    BY DEF AInv
  <2>2. <<"leaf", v>> \in Filled(space[t])
    BY <2>1, FilledPositions
  <2>3. FrameAt(space[t], <<"leaf", v>>) = space[t].leaf[v].frame
    BY PositionKinds
  <2>. QED BY <2>2, <2>3 DEF Owned
<1>2. Held(t) = <<space[t].mappings, [v \in pages |-> content[space[t].leaf[v].frame]]>>
  BY DEF Held
<1>3. Held(t)' = <<space[t].mappings, [v \in pages |-> content'[space[t].leaf[v].frame]]>>
  BY DEF Held
<1>. QED BY <1>1, <1>2, <1>3

\* Every step is one task's: nobody else's memory changes, and it installs
\* what was seen at a page before.
LEMMA StepOfOne ==
  ASSUME AInv, Next
  PROVE  AInv' /\ \E t \in Tasks : OnlyOf(t) /\ Unseen(t)
<1>1. ASSUME NEW t \in Tasks,
             \/ command_exec(t)
             \/ _syscall_exec(t)
             \/ \E child \in Tasks : _syscall_fork(t, child)
             \/ \E request \in Requests : _syscall_mmap(t, request)
             \/ \E v \in Touched, access \in Access : AccessPage(t, v, access)
             \/ Exit(t)
             \/ Reap(t)
      PROVE  AInv' /\ \E u \in Tasks : OnlyOf(u) /\ Unseen(u)
  BY <1>1, CommandExecKeeps, ExecKeeps, ForkKeeps, MmapKeeps, AccessKeeps,
     ExitKeeps, ReapKeeps
<1>. QED BY <1>1 DEF Next

-----------------------------------------------------------------------------
(* The theorems.                                                           *)

\* The invariant holds in every state the system reaches.
THEOREM PagesInvariant == Spec => []AInv
<1>1. ASSUME AInv, [Next]_vars PROVE AInv'
  <2>1. CASE UNCHANGED vars
    BY <1>1, <2>1 DEF AInv, TypeOK, Unused, vars
  <2>. QED BY <1>1, <2>1, StepOfOne
<1>. QED BY <1>1, AInit, PTL DEF Spec

\* The mappings of a task are sorted, apart from each other and above the
\* trampoline, whatever addresses and sizes mmap is asked for.
THEOREM MappingsStayApart == Spec => []MappingsApart
<1>1. ASSUME AInv PROVE MappingsApart
  <2>1. ASSUME NEW t \in Tasks
        PROVE  /\ \A i, j \in DOMAIN space[t].mappings : i < j =>
                    MappingEnd(space[t].mappings[i]) <= space[t].mappings[j].vaddr
               /\ \A i \in DOMAIN space[t].mappings :
                    Trampoline < space[t].mappings[i].vaddr
    <3>1. MappingsOK(space[t].mappings) /\ space[t].mappings \in Seq(Mappings)
      BY <1>1 DEF AInv, SpaceOK, MappingsOK
    <3>2. DOMAIN space[t].mappings = 1..Len(space[t].mappings)
      BY <3>1, LenProperties
    <3>. QED BY <3>1, <3>2 DEF MappingsOK
  <2>. QED BY <2>1 DEF MappingsApart
<1>. QED BY <1>1, PagesInvariant, PTL

\* A process reaches nothing but what was mapped: task_find_mapping finds the
\* mapping of every leaf entry but the trampoline's, and the entry has its
\* permissions.
THEOREM LeavesStayMapped == Spec => []LeavesMapped
<1>1. ASSUME AInv PROVE LeavesMapped
  <2>1. ASSUME NEW t \in Tasks, NEW v \in Pages, space[t].leaf[v] # Absent
        PROVE  IF v = Trampoline
               THEN space[t].leaf[v] = [frame |-> Kernel, prot |-> {"r", "x"}]
               ELSE LET mapping == task_find_mapping(space[t].mappings, v)
                    IN  mapping # << >> /\ space[t].leaf[v].prot = mapping[1].prot
    <3>1. MappingsOK(space[t].mappings) /\ LeavesOK(space[t])
      BY <1>1 DEF AInv, SpaceOK
    <3>2. CASE v = Trampoline
      BY <2>1, <3>1, <3>2 DEF LeavesOK
    <3>3. CASE v # Trampoline
      <4>1. Covered(space[t].mappings, v, space[t].leaf[v].prot)
        BY <2>1, <3>1, <3>3 DEF LeavesOK
      <4>2. PICK i \in 1..Len(space[t].mappings) :
              /\ space[t].mappings[i].vaddr <= v
              /\ v < MappingEnd(space[t].mappings[i])
              /\ space[t].mappings[i].prot = space[t].leaf[v].prot
        BY <4>1 DEF Covered
      <4>3. task_find_mapping(space[t].mappings, v) = <<space[t].mappings[i]>>
        BY <3>1, <4>2, FindMapping
      <4>. QED BY <3>3, <4>2, <4>3
    <3>. QED BY <3>2, <3>3
  <2>. QED BY <2>1 DEF LeavesMapped
<1>. QED BY <1>1, PagesInvariant, PTL

\* No page of memory is lost, freed while in use or used twice, over any
\* sequence of exec, fork, mmap, faults and the end of processes.
THEOREM PagesStayOwned == Spec => []PagesOwned
<1>1. ASSUME AInv PROVE PagesOwned
  <2>. DEFINE used == {FrameOf(x) : x \in Uses}
              f == [x \in Uses |-> FrameOf(x)]
              at(x) == <<x[2], x[3]>>
  <2>1. \A x \in Uses : /\ x[1] \in Tasks /\ x = <<x[1], x[2], x[3]>>
                        /\ at(x) \in Filled(space[x[1]])
                        /\ FrameOf(x) = FrameAt(space[x[1]], at(x))
    BY <1>1, UsesFilled
  <2>2. ASSUME NEW x \in Uses, NEW y \in Uses, FrameOf(x) = FrameOf(y)
        PROVE  x = y
    <3>1. /\ FrameOf(x) \in Owned(space[x[1]]) /\ FrameOf(y) \in Owned(space[y[1]])
          /\ x[1] \in Tasks /\ y[1] \in Tasks
      BY <2>1 DEF Owned
    <3>2. x[1] = y[1]
      BY <1>1, <2>2, <3>1 DEF AInv
    <3>3. Single(space[x[1]])
      BY <1>1, <3>1 DEF AInv
    <3>4. at(x) = at(y)
      BY <2>1, <2>2, <3>2, <3>3 DEF Single
    <3>5. x[2] = y[2] /\ x[3] = y[3]
      BY <3>4
    <3>. QED BY <2>1, <3>2, <3>5
  <2>3. f \in Surjection(Uses, used) /\ f \in Injection(Uses, used)
    <3>1. \A x \in Uses : f[x] = FrameOf(x) /\ f[x] \in used
      OBVIOUS
    <3>2. f \in [Uses -> used]
      OBVIOUS
    <3>3. \A frame \in used : \E x \in Uses : f[x] = frame
      OBVIOUS
    <3>4. \A x, y \in Uses : f[x] = f[y] => x = y
      BY <2>2, <3>1
    <3>. HIDE DEF f, used
    <3>. QED BY <3>2, <3>3, <3>4 DEF Surjection, Injection, IsInjective
  <2>4. Cardinality(used) = Cardinality(Uses)
    BY <1>1, <2>3, UsesFinite, FS_Surjection
  <2>5. used = UNION {Owned(space[t]) : t \in Tasks}
    <3>1. ASSUME NEW x \in Uses
          PROVE  \E t \in Tasks : FrameOf(x) \in Owned(space[t])
      BY <2>1 DEF Owned
    <3>2. ASSUME NEW t \in Tasks, NEW p \in Filled(space[t])
          PROVE  FrameAt(space[t], p) \in used
      <4>. DEFINE x == <<t, p[1], p[2]>>
      <4>1. x \in Uses /\ p = <<p[1], p[2]>>
        BY <1>1, UsesFilled
      <4>2. x[1] = t /\ at(x) = p
        BY <4>1
      <4>. HIDE DEF x
      <4>3. FrameOf(x) = FrameAt(space[t], p)
        BY <2>1, <4>1, <4>2
      <4>. QED BY <4>1, <4>3
    <3>3. used \subseteq UNION {Owned(space[t]) : t \in Tasks}
      BY <3>1
    <3>4. \A t \in Tasks : Owned(space[t]) \subseteq used
      BY <3>2 DEF Owned
    <3>. QED BY <3>3, <3>4
  <2>6. used = Frames \ free
    <3>1. (UNION {Owned(space[t]) : t \in Tasks}) \cup free = Frames
      BY <1>1 DEF AInv
    <3>2. (UNION {Owned(space[t]) : t \in Tasks}) \cap free = {}
      BY <1>1 DEF AInv
    <3>. HIDE DEF used
    <3>. QED BY <2>5, <3>1, <3>2
  <2>. QED BY <1>1, <2>4, <2>6 DEF PagesOwned, AInv
<1>. QED BY <1>1, PagesInvariant, PTL

\* Processes do not share memory: a step changes that of one of them at most,
\* and to install a page, at a fault or before, does not change what is seen
\* there.
THEOREM ProcessesAreIsolated == Spec => Isolated
<1>1. ASSUME AInv, Next
      PROVE  /\ \A t, u \in Tasks : Held(t)' # Held(t) /\ Held(u)' # Held(u) => t = u
             /\ \A t \in Tasks, v \in Pages :
                  (space[t].leaf[v] = Absent /\ space'[t].leaf[v] # Absent /\
                   space'[t].mappings = space[t].mappings)
                    => View(t, v)' = View(t, v)
  <2>1. PICK a \in Tasks : OnlyOf(a) /\ Unseen(a)
    BY <1>1, StepOfOne
  <2>2. ASSUME NEW t \in Tasks, Held(t)' # Held(t) PROVE t = a
    BY <1>1, <2>1, <2>2, HeldSame DEF OnlyOf
  <2>3. ASSUME NEW t \in Tasks, NEW v \in Pages,
               space[t].leaf[v] = Absent, space'[t].leaf[v] # Absent,
               space'[t].mappings = space[t].mappings
        PROVE  View(t, v)' = View(t, v)
    <3>1. CASE t = a
      BY <2>1, <2>3, <3>1 DEF Unseen
    <3>2. CASE t # a
      BY <2>1, <2>3, <3>2 DEF OnlyOf
    <3>. QED BY <3>1, <3>2
  <2>. QED BY <2>2, <2>3
<1>2. AInv /\ [Next]_vars =>
        [/\ \A t, u \in Tasks : Held(t)' # Held(t) /\ Held(u)' # Held(u) => t = u
         /\ \A t \in Tasks, v \in Pages :
              (space[t].leaf[v] = Absent /\ space'[t].leaf[v] # Absent /\
               space'[t].mappings = space[t].mappings)
                 => View(t, v)' = View(t, v)]_vars
  BY <1>1
<1>. QED BY <1>2, PagesInvariant, PTL DEF Spec, Isolated

\* After a fork the child sees what its parent sees at every page, installed or
\* not, but for the rest of the last page of the program.
THEOREM ForksCopy == Spec => ForkCopies
<1>1. ASSUME AInv, NEW t \in Tasks, NEW child \in Tasks, _syscall_fork(t, child),
             NEW v \in Pages
      PROVE  \/ View(child, v)' = View(t, v)
             \/ View(t, v) = "file then zero" /\ View(child, v)' = "file"
  <2>. DEFINE old == space[t].mappings
              new == space'[child].mappings
  <2>1. AInv' /\ Forked(t, child)
    BY <1>1, ForkKeeps
  <2>2. MappingsOK(old) /\ MappingsOK(new)
    BY <1>1, <2>1 DEF AInv, SpaceOK
  <2>3. /\ Len(new) = Len(old)
        /\ \A i \in 1..Len(old) : new[i] = Copied(old[i])
    BY <2>1 DEF Forked
  <2>. HIDE DEF old, new
  <2>4. \A i \in 1..Len(old) :
          new[i].vaddr = old[i].vaddr /\ MappingEnd(new[i]) = MappingEnd(old[i])
    <3>1. ASSUME NEW i \in 1..Len(old), new[i] = Copied(old[i])
          PROVE  new[i].vaddr = old[i].vaddr /\ MappingEnd(new[i]) = MappingEnd(old[i])
      <4>1. new[i].vaddr = old[i].vaddr /\ new[i].size = old[i].size
        BY <3>1 DEF Copied
      <4>. QED BY <4>1 DEF MappingEnd
    <3>. QED BY <2>3, <3>1
  <2>5. CASE task_find_mapping(old, v) = << >>
    <3>1. ASSUME task_find_mapping(new, v) # << >> PROVE FALSE
      <4>1. PICK i \in 1..Len(new) : new[i].vaddr <= v /\ v < MappingEnd(new[i])
        BY <2>2, <3>1, FindMapping
      <4>2. task_find_mapping(old, v) = <<old[i]>>
        BY <2>2, <2>3, <2>4, <4>1, FindMapping
      <4>. QED BY <2>5, <4>2
    <3>. QED BY <2>5, <3>1 DEF View, old, new
  <2>6. CASE task_find_mapping(old, v) # << >>
    <3>1. PICK i \in 1..Len(old) :
            /\ task_find_mapping(old, v) = <<old[i]>>
            /\ old[i].vaddr <= v /\ v < MappingEnd(old[i])
      BY <2>2, <2>6, FindMapping
    <3>2. task_find_mapping(new, v) = <<new[i]>>
      BY <2>2, <2>3, <2>4, <3>1, FindMapping
    <3>3. v # Trampoline
      BY <1>1, <2>2, <2>6, NoMapping
    <3>4. CASE space'[child].leaf[v] = Absent /\ space[t].leaf[v] = Absent
      <4>1. View(t, v) = Fresh(old[i], v)
        BY <3>1, <3>4 DEF View, old
      <4>2. View(child, v)' = Fresh(new[i], v)
        BY <3>2, <3>4 DEF View, new
      <4>3. \/ Fresh(new[i], v) = Fresh(old[i], v)
            \/ Fresh(old[i], v) = "file then zero" /\ Fresh(new[i], v) = "file"
        <5>1. new[i] = Copied(old[i])
          BY <2>3
        <5>2. new[i].backer = old[i].backer /\ new[i].whole = TRUE
          BY <5>1 DEF Copied
        <5>3. MappingEnd(new[i]) = MappingEnd(old[i])
          BY <2>4
        <5>. QED BY <5>2, <5>3, Zenon DEF Fresh
      <4>. QED BY <4>1, <4>2, <4>3
    <3>5. CASE /\ space'[child].leaf[v] # Absent /\ space[t].leaf[v] # Absent
               /\ content'[space'[child].leaf[v].frame] = content[space[t].leaf[v].frame]
      <4>1. View(t, v) = content[space[t].leaf[v].frame]
        BY <3>1, <3>5 DEF View, old
      <4>2. View(child, v)' = content'[space'[child].leaf[v].frame]
        BY <3>2, <3>5 DEF View, new
      <4>. QED BY <3>5, <4>1, <4>2
    <3>. QED BY <1>1, <2>1, <3>3, <3>4, <3>5 DEF Forked
  <2>. QED BY <2>5, <2>6
<1>2. AInv /\ [Next]_vars =>
        [\A t, child \in Tasks :
           Unused(child) /\ ~ Unused(child)' /\ _syscall_fork(t, child) =>
           \A v \in Pages :
             \/ View(child, v)' = View(t, v)
             \/ View(t, v) = "file then zero" /\ View(child, v)' = "file"]_vars
  BY <1>1
<1>. QED BY <1>2, PagesInvariant, PTL DEF Spec, ForkCopies

=============================================================================
