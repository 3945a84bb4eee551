---------------------------- MODULE Uart_proofs ----------------------------
(***************************************************************************)
(* The rings of the UART driver are queues, for every ring size, every set *)
(* of writers and every text: each byte comes out once and in order, the   *)
(* transmitter interrupt is asked for while there is output, and a writer  *)
(* waits only while the ring is full.                                      *)
(***************************************************************************)
EXTENDS Uart, Queues_proofs

-----------------------------------------------------------------------------
(* Rings.                                                                  *)

\* Counting on from a slot, around the end of the ring.
LEMMA Wrap ==
  ASSUME NEW a \in Slots, NEW b \in 0..RingSize
  PROVE  /\ (a + b) % RingSize = IF a + b < RingSize THEN a + b
                                 ELSE a + b - RingSize
         /\ (a + b) % RingSize \in Slots
<1>. USE RingAssumption DEF Slots
<1>1. CASE a + b < RingSize
  BY <1>1
<1>2. CASE a + b >= RingSize
  <2>1. a + b - RingSize \in 0..(RingSize - 1)
    BY <1>2
  <2>2. (a + b) % RingSize = a + b - RingSize
    BY <1>2, <2>1
  <2>. QED BY <1>2, <2>1, <2>2
<1>. QED BY <1>1, <1>2

\* How many bytes a ring holds.
LEMMA CountValue ==
  ASSUME NEW ring \in Rings
  PROVE  /\ ring.head \in Slots /\ ring.tail \in Slots
         /\ ring.bytes \in [Slots -> Bytes \cup {"used"}]
         /\ Count(ring) = IF ring.tail <= ring.head THEN ring.head - ring.tail
                          ELSE RingSize + ring.head - ring.tail
         /\ Count(ring) \in 0..(RingSize - 1)
         /\ Full(ring) <=> Count(ring) = RingSize - 1
         /\ Count(ring) = 0 <=> ring.head = ring.tail
<1>1. /\ ring.head \in Slots /\ ring.tail \in Slots
      /\ ring.bytes \in [Slots -> Bytes \cup {"used"}]
  BY DEF Rings
<1>2. Count(ring) = IF ring.tail <= ring.head THEN ring.head - ring.tail
                    ELSE RingSize + ring.head - ring.tail
  <2>1. CASE ring.tail <= ring.head
    <3>1. ring.head - ring.tail \in Slots /\ RingSize \in 0..RingSize
      BY <1>1, <2>1, RingAssumption DEF Slots
    <3>2. ((ring.head - ring.tail) + RingSize) % RingSize = ring.head - ring.tail
      BY <3>1, Wrap, RingAssumption DEF Slots
    <3>3. (ring.head - ring.tail) + RingSize = RingSize + ring.head - ring.tail
      BY <1>1, RingAssumption DEF Slots
    <3>. QED BY <2>1, <3>2, <3>3 DEF Count
  <2>2. CASE ~ (ring.tail <= ring.head)
    <3>1. RingSize + ring.head - ring.tail \in Slots /\ 0 \in 0..RingSize
      BY <1>1, <2>2, RingAssumption DEF Slots
    <3>2. ((RingSize + ring.head - ring.tail) + 0) % RingSize
            = RingSize + ring.head - ring.tail
      BY <3>1, Wrap, RingAssumption DEF Slots
    <3>3. (RingSize + ring.head - ring.tail) + 0 = RingSize + ring.head - ring.tail
      BY <1>1, RingAssumption DEF Slots
    <3>. QED BY <2>2, <3>2, <3>3 DEF Count
  <2>. QED BY <2>1, <2>2
<1>3. Count(ring) \in 0..(RingSize - 1)
      /\ (Count(ring) = 0 <=> ring.head = ring.tail)
  BY <1>1, <1>2, RingAssumption DEF Slots
<1>4. Full(ring) <=> Count(ring) = RingSize - 1
  <2>1. (ring.head + 1) % RingSize = IF ring.head + 1 < RingSize
                                     THEN ring.head + 1 ELSE ring.head + 1 - RingSize
    BY <1>1, Wrap, RingAssumption
  <2>2. /\ RingSize \in Nat /\ RingSize > 0
        /\ ring.head \in Nat /\ ring.tail \in Nat
        /\ ring.head < RingSize /\ ring.tail < RingSize
    BY <1>1, RingAssumption DEF Slots
  <2>3. CASE ring.head + 1 < RingSize
    <3>1. Full(ring) <=> ring.head + 1 = ring.tail
      BY <2>1, <2>3 DEF Full
    <3>. QED BY <1>2, <2>2, <2>3, <3>1
  <2>4. CASE ~ (ring.head + 1 < RingSize)
    <3>1. Full(ring) <=> ring.head + 1 - RingSize = ring.tail
      BY <2>1, <2>4 DEF Full
    <3>. QED BY <1>2, <2>2, <2>4, <3>1
  <2>. QED BY <2>3, <2>4
<1>. QED BY <1>1, <1>2, <1>3, <1>4

\* Where the bytes of a ring stand, from its tail on.
Slot(ring, i) == (ring.tail + i - 1) % RingSize

\* The bytes in a ring stand in different slots, none of them the one at the
\* head, which is the slot after the last.
LEMMA SlotProperties ==
  ASSUME NEW ring \in Rings
  PROVE  /\ \A i \in 1..RingSize : Slot(ring, i) \in Slots
         /\ \A i, j \in 1..RingSize : Slot(ring, i) = Slot(ring, j) => i = j
         /\ Slot(ring, Count(ring) + 1) = ring.head
         /\ Count(ring) + 1 \in 1..RingSize
<1>1. /\ ring.head \in Slots /\ ring.tail \in Slots
      /\ Count(ring) = IF ring.tail <= ring.head THEN ring.head - ring.tail
                       ELSE RingSize + ring.head - ring.tail
      /\ Count(ring) \in 0..(RingSize - 1)
  BY CountValue
<1>2. ASSUME NEW i \in 1..RingSize
      PROVE  /\ Slot(ring, i) = IF ring.tail + (i - 1) < RingSize
                                THEN ring.tail + (i - 1)
                                ELSE ring.tail + (i - 1) - RingSize
             /\ Slot(ring, i) \in Slots
  <2>1. i - 1 \in 0..RingSize
    BY RingAssumption
  <2>2. ring.tail + (i - 1) = ring.tail + i - 1
    BY <1>1, RingAssumption DEF Slots
  <2>. QED BY <1>1, <2>1, <2>2, Wrap DEF Slot
<1>3. Count(ring) + 1 \in 1..RingSize
  BY <1>1, RingAssumption
<1>4. Slot(ring, Count(ring) + 1) = ring.head
  <2>. DEFINE k == Count(ring) + 1
  <2>1. Slot(ring, k) = IF ring.tail + (k - 1) < RingSize
                        THEN ring.tail + (k - 1)
                        ELSE ring.tail + (k - 1) - RingSize
    BY <1>2, <1>3
  <2>. QED BY <1>1, <2>1, RingAssumption DEF Slots
<1>5. ASSUME NEW i \in 1..RingSize, NEW j \in 1..RingSize,
             Slot(ring, i) = Slot(ring, j)
      PROVE  i = j
  <2>1. /\ RingSize \in Nat /\ RingSize > 0
        /\ ring.tail \in Nat /\ ring.tail < RingSize
        /\ i \in Nat /\ 1 <= i /\ i <= RingSize
        /\ j \in Nat /\ 1 <= j /\ j <= RingSize
    BY <1>1, RingAssumption DEF Slots
  <2>2. (IF ring.tail + (i - 1) < RingSize THEN ring.tail + (i - 1)
         ELSE ring.tail + (i - 1) - RingSize)
          = (IF ring.tail + (j - 1) < RingSize THEN ring.tail + (j - 1)
             ELSE ring.tail + (j - 1) - RingSize)
    BY <1>2, <1>5
  <2>. QED BY <2>1, <2>2
<1>. QED BY <1>2, <1>3, <1>4, <1>5

\* The content of a ring, byte by byte.
LEMMA ContentValue ==
  ASSUME NEW ring \in Rings
  PROVE  /\ Content(ring) = [i \in 1..Count(ring) |-> ring.bytes[Slot(ring, i)]]
         /\ Content(ring) \in Seq(Bytes \cup {"used"})
         /\ Len(Content(ring)) = Count(ring)
<1>1. Content(ring) = [i \in 1..Count(ring) |-> ring.bytes[Slot(ring, i)]]
  BY DEF Content, First, Slot
<1>2. Count(ring) \in Nat /\ \A i \in 1..Count(ring) : i \in 1..RingSize
  BY CountValue, RingAssumption
<1>3. \A i \in 1..Count(ring) : ring.bytes[Slot(ring, i)] \in Bytes \cup {"used"}
  BY <1>2, CountValue, SlotProperties
<1>4. Content(ring) \in [1..Count(ring) -> Bytes \cup {"used"}]
  BY <1>1, <1>3
<1>. QED BY <1>1, <1>2, <1>4, SeqDef

\* Storing a byte appends it to the content, unless the ring is full.
LEMMA StoreProperties ==
  ASSUME NEW ring \in Rings, NEW c \in Bytes, ~ Full(ring)
  PROVE  /\ Store(ring, c) \in Rings
         /\ Store(ring, c) # ring
         /\ Count(Store(ring, c)) = Count(ring) + 1
         /\ Content(Store(ring, c)) = Append(Content(ring), c)
<1> DEFINE next == (ring.head + 1) % RingSize
           r == Store(ring, c)
<1>1. r = [ring EXCEPT !.bytes[ring.head] = c, !.head = next]
  BY DEF Store
<1>2. next = (IF ring.head + 1 < RingSize THEN ring.head + 1
              ELSE ring.head + 1 - RingSize) /\ next \in Slots
  BY CountValue, Wrap, RingAssumption
<1>. HIDE DEF next
<1>3. /\ r.head = next /\ r.tail = ring.tail
      /\ r.bytes = [ring.bytes EXCEPT ![ring.head] = c]
      /\ r \in Rings
  <2>1. [ring.bytes EXCEPT ![ring.head] = c] \in [Slots -> Bytes \cup {"used"}]
    BY CountValue
  <2>2. r = [ring EXCEPT !.bytes = [ring.bytes EXCEPT ![ring.head] = c],
                         !.head = next]
    BY <1>1 DEF Rings
  <2>. HIDE DEF r
  <2>. QED BY <1>2, <2>1, <2>2 DEF Rings
<1>. HIDE DEF r
<1>4. /\ RingSize \in Nat /\ RingSize > 0
      /\ ring.head \in Nat /\ ring.head < RingSize
      /\ ring.tail \in Nat /\ ring.tail < RingSize
      /\ Count(ring) # RingSize - 1
  BY CountValue, RingAssumption DEF Slots
<1>5. Count(r) = Count(ring) + 1 /\ r # ring
  <2>1. Count(ring) = IF ring.tail <= ring.head THEN ring.head - ring.tail
                      ELSE RingSize + ring.head - ring.tail
    BY CountValue
  <2>2. Count(r) = IF r.tail <= r.head THEN r.head - r.tail
                   ELSE RingSize + r.head - r.tail
    BY <1>3, CountValue
  <2>3. CASE ring.head + 1 < RingSize
    BY <1>2, <1>3, <1>4, <2>1, <2>2, <2>3
  <2>4. CASE ~ (ring.head + 1 < RingSize)
    BY <1>2, <1>3, <1>4, <2>1, <2>2, <2>4
  <2>. QED BY <2>3, <2>4
<1>6. \A i \in 1..RingSize : Slot(r, i) = Slot(ring, i)
  BY <1>3 DEF Slot
<1>7. ASSUME NEW i \in 1..Count(ring)
      PROVE  r.bytes[Slot(r, i)] = ring.bytes[Slot(ring, i)]
  <2>1. i \in 1..RingSize /\ i # Count(ring) + 1
    BY CountValue, RingAssumption
  <2>2. Slot(ring, i) # ring.head /\ Slot(ring, i) \in Slots
    BY <2>1, SlotProperties
  <2>. QED BY <1>3, <1>6, <2>1, <2>2, CountValue
<1>8. r.bytes[Slot(r, Count(ring) + 1)] = c
  <2>1. Slot(r, Count(ring) + 1) = ring.head
    BY <1>6, SlotProperties
  <2>. QED BY <1>3, <2>1, CountValue
<1>9. Content(r) = Append(Content(ring), c)
  <2>1. /\ Content(r) = [i \in 1..(Count(ring) + 1) |-> r.bytes[Slot(r, i)]]
        /\ Content(ring) = [i \in 1..Count(ring) |-> ring.bytes[Slot(ring, i)]]
        /\ Content(ring) \in Seq(Bytes \cup {"used"})
        /\ Len(Content(ring)) = Count(ring) /\ Count(ring) \in Nat
    <3>1. Content(r) = [i \in 1..Count(r) |-> r.bytes[Slot(r, i)]]
      BY <1>3, ContentValue
    <3>2. Count(ring) \in Nat
      BY CountValue
    <3>. QED BY <1>5, <3>1, <3>2, ContentValue
  <2>2. Append(Content(ring), c) = [i \in 1..(Count(ring) + 1) |->
                                      IF i = Count(ring) + 1 THEN c
                                      ELSE Content(ring)[i]]
    BY <2>1
  <2>3. \A i \in 1..(Count(ring) + 1) :
          r.bytes[Slot(r, i)] = IF i = Count(ring) + 1 THEN c ELSE Content(ring)[i]
    BY <1>7, <1>8, <2>1
  <2>. QED BY <2>1, <2>2, <2>3
<1>. QED BY <1>3, <1>5, <1>9 DEF r

\* A sequence is what comes up to a position and what comes after it.
LEMMA SplitAt ==
  ASSUME NEW A, NEW s \in Seq(A), NEW n \in Nat, n <= Len(s)
  PROVE  /\ s = SubSeq(s, 1, n) \o SubSeq(s, n + 1, Len(s))
         /\ SubSeq(s, 1, n) \in Seq(A)
         /\ SubSeq(s, n + 1, Len(s)) \in Seq(A)
         /\ n = Len(s) => /\ SubSeq(s, n + 1, Len(s)) = << >>
                         /\ SubSeq(s, 1, n) = s
<1> DEFINE a == SubSeq(s, 1, n)
           b == SubSeq(s, n + 1, Len(s))
<1>1. a \in Seq(A) /\ Len(a) = n /\ \A i \in 1..n : a[i] = s[i]
  OBVIOUS
<1>2. b \in Seq(A) /\ Len(b) = Len(s) - n
      /\ \A i \in 1..(Len(s) - n) : b[i] = s[n + i]
  OBVIOUS
<1>. HIDE DEF a, b
<1>3. a \o b \in Seq(A) /\ Len(a \o b) = Len(s)
  BY SMTT(40), <1>1, <1>2
<1>4. ASSUME NEW i \in 1..Len(s) PROVE (a \o b)[i] = s[i]
  <2>1. CASE i <= n
    BY <1>1, <1>2, <2>1
  <2>2. CASE ~ (i <= n)
    <3>1. i - n \in 1..(Len(s) - n) /\ n + (i - n) = i
      BY <2>2
    <3>2. (a \o b)[i] = b[i - n]
      BY <1>1, <1>2, <2>2
    <3>. QED BY <1>2, <3>1, <3>2
  <2>. QED BY <2>1, <2>2
<1>5. a \o b = s
  BY <1>3, <1>4, SeqEqual
<1>6. n = Len(s) => b = << >> /\ a = s
  BY <1>1, <1>2, SeqEqual
<1>. QED BY <1>1, <1>2, <1>5, <1>6 DEF a, b

\* Appending a byte to the second of two sequences appends it to both.
LEMMA AppendByte ==
  ASSUME NEW s \in Seq(Bytes), NEW u \in Seq(Bytes), NEW c \in Bytes
  PROVE  /\ Append(s \o u, c) = s \o Append(u, c)
         /\ Append(u, c) \in Seq(Bytes) /\ Append(u, c) # << >>
OBVIOUS

\* Dropping the first n bytes leaves the others.
LEMMA DropProperties ==
  ASSUME NEW ring \in Rings, NEW n \in 0..Count(ring)
  PROVE  /\ Drop(ring, n) \in Rings
         /\ Drop(ring, n).head = ring.head
         /\ Count(Drop(ring, n)) = Count(ring) - n
         /\ Len(Content(Drop(ring, n))) = Count(ring) - n
         /\ Content(ring) = First(ring, n) \o Content(Drop(ring, n))
         /\ First(ring, n) = SubSeq(Content(ring), 1, n)
         /\ Content(Drop(ring, n)) = SubSeq(Content(ring), n + 1, Count(ring))
<1> DEFINE tail == (ring.tail + n) % RingSize
           read == {(ring.tail + i) % RingSize : i \in 0..(n - 1)}
           r == Drop(ring, n)
           C == Count(ring)
<1>0. /\ RingSize \in Nat /\ RingSize > 0
      /\ ring.head \in Nat /\ ring.head < RingSize
      /\ ring.tail \in Nat /\ ring.tail < RingSize
      /\ C \in Nat /\ C < RingSize /\ n \in Nat /\ n <= C
      /\ ring.bytes \in [Slots -> Bytes \cup {"used"}]
      /\ ring.head \in Slots /\ ring.tail \in Slots
  BY CountValue, RingAssumption DEF Slots
<1>1. tail = (IF ring.tail + n < RingSize THEN ring.tail + n
              ELSE ring.tail + n - RingSize) /\ tail \in Slots
  <2>1. n \in 0..RingSize
    BY <1>0
  <2>. QED BY <1>0, <2>1, Wrap
<1>2. r = [ring EXCEPT !.tail = tail,
                       !.bytes = [s \in Slots |-> IF s \in read THEN "used"
                                                  ELSE ring.bytes[s]]]
  BY DEF Drop
<1>. HIDE DEF tail, read
<1>3. /\ r.head = ring.head /\ r.tail = tail
      /\ r.bytes = [s \in Slots |-> IF s \in read THEN "used" ELSE ring.bytes[s]]
      /\ r \in Rings
  <2>1. [s \in Slots |-> IF s \in read THEN "used" ELSE ring.bytes[s]]
          \in [Slots -> Bytes \cup {"used"}]
    BY <1>0
  <2>. QED BY <1>1, <1>2, <2>1 DEF Rings
<1>. HIDE DEF r, C
<1>4. Count(r) = C - n
  <2>1. C = IF ring.tail <= ring.head THEN ring.head - ring.tail
            ELSE RingSize + ring.head - ring.tail
    BY CountValue DEF C
  <2>2. Count(r) = IF tail <= ring.head THEN ring.head - tail
                   ELSE RingSize + ring.head - tail
    BY <1>3, CountValue
  <2>3. CASE ring.tail + n < RingSize
    BY <1>0, <1>1, <2>1, <2>2, <2>3
  <2>4. CASE ~ (ring.tail + n < RingSize)
    BY <1>0, <1>1, <2>1, <2>2, <2>4
  <2>. QED BY <2>3, <2>4
<1>5. ASSUME NEW i \in 1..(C - n)
      PROVE  /\ Slot(r, i) = Slot(ring, n + i)
             /\ r.bytes[Slot(r, i)] = ring.bytes[Slot(ring, n + i)]
  <2>0. i \in Nat /\ 1 <= i /\ i <= C - n
    BY <1>0
  <2>1. n + i \in 1..RingSize /\ i \in 1..RingSize
    BY <1>0, <2>0
  <2>2. Slot(ring, n + i) = (IF ring.tail + (n + i - 1) < RingSize
                             THEN ring.tail + (n + i - 1)
                             ELSE ring.tail + (n + i - 1) - RingSize)
    <3>1. n + i - 1 \in 0..RingSize /\ ring.tail + (n + i - 1) = ring.tail + (n + i) - 1
      BY <1>0, <2>0
    <3>. QED BY <1>0, <3>1, Wrap DEF Slot
  <2>3. Slot(r, i) = (IF tail + (i - 1) < RingSize THEN tail + (i - 1)
                      ELSE tail + (i - 1) - RingSize)
    <3>1. i - 1 \in 0..RingSize /\ tail + (i - 1) = tail + i - 1
      BY <1>0, <1>1, <2>0 DEF Slots
    <3>. QED BY <1>1, <1>3, <3>1, Wrap DEF Slot
  <2>4. Slot(r, i) = Slot(ring, n + i)
    <3>1. CASE ring.tail + n < RingSize
      BY <1>0, <1>1, <2>0, <2>2, <2>3, <3>1
    <3>2. CASE ~ (ring.tail + n < RingSize)
      BY <1>0, <1>1, <2>0, <2>2, <2>3, <3>2
    <3>. QED BY <3>1, <3>2
  <2>5. Slot(ring, n + i) \in Slots /\ Slot(ring, n + i) \notin read
    <3>1. Slot(ring, n + i) \in Slots
      BY <2>1, SlotProperties
    <3>2. ASSUME NEW k \in 0..(n - 1) PROVE Slot(ring, n + i) # (ring.tail + k) % RingSize
      <4>1. k + 1 \in 1..RingSize /\ k + 1 # n + i
        BY <1>0, <2>0
      <4>2. Slot(ring, k + 1) = (ring.tail + k) % RingSize
        BY <1>0 DEF Slot
      <4>. QED BY <2>1, <4>1, <4>2, SlotProperties
    <3>. QED BY <3>1, <3>2 DEF read
  <2>. QED BY <1>3, <2>4, <2>5
<1>6. /\ Content(ring) = [i \in 1..C |-> ring.bytes[Slot(ring, i)]]
      /\ Content(ring) \in Seq(Bytes \cup {"used"}) /\ Len(Content(ring)) = C
      /\ Content(r) = [i \in 1..(C - n) |-> r.bytes[Slot(r, i)]]
      /\ Content(r) \in Seq(Bytes \cup {"used"}) /\ Len(Content(r)) = C - n
  BY <1>3, <1>4, ContentValue DEF C
<1>7. First(ring, n) = SubSeq(Content(ring), 1, n)
  <2>1. \A i \in 1..n : i \in 1..C /\ First(ring, n)[i] = Content(ring)[i]
    BY <1>0, <1>6 DEF First, Slot
  <2>2. SubSeq(Content(ring), 1, n) = [i \in 1..n |-> Content(ring)[i]]
    BY <1>0, <1>6, SubSeqProperties
  <2>3. First(ring, n) = [i \in 1..n |-> First(ring, n)[i]]
    BY DEF First
  <2>. QED BY <2>1, <2>2, <2>3
<1>8. Content(r) = SubSeq(Content(ring), n + 1, C)
  <2>1. SubSeq(Content(ring), n + 1, C) = [i \in 1..(C - n) |-> Content(ring)[n + i]]
    BY <1>0, <1>6
  <2>2. \A i \in 1..(C - n) : n + i \in 1..C
                              /\ r.bytes[Slot(r, i)] = Content(ring)[n + i]
    <3>1. ASSUME NEW i \in 1..(C - n) PROVE n + i \in 1..C
      BY <1>0
    <3>. QED BY <1>5, <1>6, <3>1
  <2>. QED BY <1>6, <2>1, <2>2
<1>9. Content(ring) = SubSeq(Content(ring), 1, n) \o SubSeq(Content(ring), n + 1, C)
  BY <1>0, <1>6, SplitAt
<1>. QED BY <1>3, <1>4, <1>6, <1>7, <1>8, <1>9 DEF r, C

\* A ring that holds bytes, and no slot that has been read.
Sound(ring) == ring \in Rings /\ Content(ring) \in Seq(Bytes)

\* Storing a byte in a ring that holds bytes.
LEMMA StoreSound ==
  ASSUME NEW ring, Sound(ring), NEW c \in Bytes, ~ Full(ring)
  PROVE  /\ Sound(Store(ring, c))
         /\ Content(Store(ring, c)) = Append(Content(ring), c)
<1>1. ring \in Rings /\ Content(ring) \in Seq(Bytes)
  BY DEF Sound
<1>2. Store(ring, c) \in Rings /\ Content(Store(ring, c)) = Append(Content(ring), c)
  BY <1>1, StoreProperties
<1>. QED BY <1>1, <1>2 DEF Sound

\* Dropping bytes from a ring that holds bytes.
LEMMA DropSound ==
  ASSUME NEW ring, Sound(ring), NEW n \in 0..Count(ring)
  PROVE  /\ Sound(Drop(ring, n)) /\ First(ring, n) \in Seq(Bytes)
         /\ Content(ring) = First(ring, n) \o Content(Drop(ring, n))
         /\ n = Count(ring) => Content(Drop(ring, n)) = << >>
                               /\ First(ring, n) = Content(ring)
<1>1. /\ ring \in Rings /\ Content(ring) \in Seq(Bytes)
      /\ Len(Content(ring)) = Count(ring) /\ Count(ring) \in Nat
  BY ContentValue, CountValue DEF Sound
<1>2. /\ Drop(ring, n) \in Rings
      /\ Content(ring) = First(ring, n) \o Content(Drop(ring, n))
      /\ First(ring, n) = SubSeq(Content(ring), 1, n)
      /\ Content(Drop(ring, n)) = SubSeq(Content(ring), n + 1, Count(ring))
  BY <1>1, DropProperties
<1>3. n \in Nat /\ n <= Len(Content(ring))
  BY <1>1
<1>4. /\ SubSeq(Content(ring), 1, n) \in Seq(Bytes)
      /\ SubSeq(Content(ring), n + 1, Len(Content(ring))) \in Seq(Bytes)
      /\ n = Len(Content(ring)) =>
           /\ SubSeq(Content(ring), n + 1, Len(Content(ring))) = << >>
           /\ SubSeq(Content(ring), 1, n) = Content(ring)
  BY <1>1, <1>3, SplitAt, Zenon
<1>. QED BY <1>1, <1>2, <1>4 DEF Sound

-----------------------------------------------------------------------------
(* Writing.                                                                *)

\* A write that has stopped because the ring is full, or goes on; it has
\* changed the ring only by appending what it has put.
Partial(w) ==
  /\ w \in [tx : Rings, put : Seq(Bytes), count : Nat, stop : BOOLEAN]
  /\ Sound(w.tx)
  /\ Content(w.tx) = Content(tx) \o w.put
  /\ w.stop => Full(w.tx)
  /\ w.put = << >> => w.tx = tx
  /\ Full(tx) => w.tx = tx /\ w.put = << >>

\* Putting one byte into the ring.
LEMMA PutCoreKeeps ==
  ASSUME Sound(tx), NEW w, Partial(w), NEW c \in Bytes
  PROVE  Partial(PutCore(w, c)) /\ PutCore(w, c).count = w.count
<1>0. /\ w \in [tx : Rings, put : Seq(Bytes), count : Nat, stop : BOOLEAN]
      /\ w.tx \in Rings /\ w.put \in Seq(Bytes)
      /\ Content(tx) \in Seq(Bytes)
      /\ Content(w.tx) = Content(tx) \o w.put
  BY DEF Partial, Sound
<1>1. CASE Full(w.tx)
  <2>1. PutCore(w, c) = [w EXCEPT !.stop = TRUE]
    BY <1>1 DEF PutCore
  <2>. QED BY <1>0, <1>1, <2>1 DEF Partial
<1>2. CASE ~ Full(w.tx)
  <2> DEFINE r == PutCore(w, c)
  <2>1. r = [w EXCEPT !.tx = Store(w.tx, c), !.put = Append(w.put, c)]
    BY <1>2 DEF PutCore
  <2>2. /\ Sound(Store(w.tx, c))
        /\ Content(Store(w.tx, c)) = Append(Content(w.tx), c)
    BY <1>2, StoreSound DEF Partial
  <2>3. Append(Content(tx) \o w.put, c) = Content(tx) \o Append(w.put, c)
    BY <1>0, AppendByte
  <2>4. Append(w.put, c) \in Seq(Bytes) /\ Append(w.put, c) # << >>
    BY <1>0, AppendByte
  <2>5. ~ w.stop /\ ~ Full(tx)
    BY <1>2 DEF Partial
  <2>6. Store(w.tx, c) \in Rings
    BY <2>2 DEF Sound
  <2>7. /\ r \in [tx : Rings, put : Seq(Bytes), count : Nat, stop : BOOLEAN]
        /\ r.tx = Store(w.tx, c) /\ r.put = Append(w.put, c)
        /\ r.stop = w.stop /\ r.count = w.count
    BY <1>0, <2>1, <2>4, <2>6
  <2>. HIDE DEF r
  <2>8. Partial(r)
    BY <1>0, <2>2, <2>3, <2>4, <2>5, <2>7 DEF Partial
  <2>. QED BY <2>7, <2>8 DEF r
<1>. QED BY <1>1, <1>2

\* One turn of the loop: it stops with the ring full, or has dealt with one
\* more byte of the text.
LEMMA PutByteKeeps ==
  ASSUME Sound(tx), NEW w, Partial(w), NEW c \in Bytes, NEW i \in Nat,
         w.count <= i, ~ w.stop => w.count = i
  PROVE  LET r == PutByte(w, c)
         IN  Partial(r) /\ r.count <= i + 1 /\ (~ r.stop => r.count = i + 1)
<1>0. w.count \in Nat
  BY DEF Partial
<1>1. CASE w.stop
  BY <1>0, <1>1 DEF PutByte
<1>2. CASE ~ w.stop
  <2> DEFINE return == IF c = "\n" THEN PutCore(w, "\r") ELSE w
             done == PutCore(return, c)
  <2>1. Partial(return) /\ return.count = i
    <3>1. "\r" \in Bytes
      BY DEF Bytes
    <3>. QED BY <1>2, <3>1, PutCoreKeeps
  <2>. HIDE DEF return
  <2>2. Partial(done) /\ done.count = i
    BY <2>1, PutCoreKeeps
  <2>3. PutByte(w, c) = IF done.stop THEN done ELSE [done EXCEPT !.count = @ + 1]
    BY <1>2 DEF PutByte, return
  <2>. HIDE DEF done
  <2>4. CASE done.stop
    BY <2>2, <2>3, <2>4
  <2>5. CASE ~ done.stop
    <3> DEFINE r == [done EXCEPT !.count = i + 1]
    <3>1. PutByte(w, c) = r
      BY <2>2, <2>3, <2>5
    <3>2. done \in [tx : Rings, put : Seq(Bytes), count : Nat, stop : BOOLEAN]
      BY <2>2 DEF Partial
    <3>3. /\ r \in [tx : Rings, put : Seq(Bytes), count : Nat, stop : BOOLEAN]
          /\ r.tx = done.tx /\ r.put = done.put /\ r.stop = done.stop
          /\ r.count = i + 1
      BY <3>2
    <3>. HIDE DEF r
    <3>4. Partial(r)
      BY <2>2, <3>3 DEF Partial
    <3>. QED BY <3>1, <3>3, <3>4
  <2>. QED BY <2>4, <2>5
<1>. QED BY <1>1, <1>2

\* What the recursive function of uart_put_bytes is at i, given its values F
\* before i.
PutStep(F, text, i) ==
  IF i = 0 THEN Writing(tx) ELSE PutByte(F[i-1], text[i])

\* There is a function that satisfies the recursion of uart_put_bytes.
LEMMA PutExists ==
  ASSUME NEW text, Len(text) \in Nat
  PROVE  \E F : F = [i \in 0..Len(text) |-> PutStep(F, text, i)]
<1>. DEFINE Ok(n) == \E F : F = [i \in 0..n |-> PutStep(F, text, i)]
            Bad == {n \in 0..Len(text) : ~ Ok(n)}
<1>1. SUFFICES ASSUME Bad # {} PROVE FALSE
  OBVIOUS
<1>2. PICK n \in Bad : \A m \in Bad : n <= m
  <2>1. Bad \in SUBSET Nat
    OBVIOUS
  <2>. HIDE DEF Bad
  <2>. QED BY <1>1, <2>1, LeastElement
<1>3. CASE n = 0
  <2>. DEFINE F == [i \in 0..0 |-> Writing(tx)]
  <2>1. F = [i \in 0..0 |-> PutStep(F, text, i)]
    BY DEF PutStep
  <2>. QED BY <1>2, <1>3, <2>1
<1>4. CASE n # 0
  <2>1. n \in 1..Len(text) /\ n-1 \in 0..Len(text) /\ ~(n-1 \in Bad)
    BY <1>2, <1>4
  <2>2. PICK G : G = [i \in 0..(n-1) |-> PutStep(G, text, i)]
    BY <2>1
  <2>. DEFINE F == [i \in 0..n |-> IF i = n THEN PutStep(G, text, n) ELSE G[i]]
  <2>3. \A i \in 0..(n-1) : F[i] = G[i]
    BY <2>1
  <2>4. \A i \in 0..n : F[i] = PutStep(F, text, i)
    <3>1. ASSUME NEW i \in 0..n PROVE PutStep(F, text, i) = PutStep(G, text, i)
      BY <2>1, <2>3 DEF PutStep
    <3>2. ASSUME NEW i \in 0..n PROVE F[i] = PutStep(G, text, i)
      <4>1. \A j \in 0..(n-1) : G[j] = PutStep(G, text, j)
        BY <2>2
      <4>2. i = n \/ i \in 0..(n-1)
        BY <2>1
      <4>. QED BY <4>1, <4>2
    <3>. QED BY <3>1, <3>2
  <2>5. F = [i \in 0..n |-> PutStep(F, text, i)]
    BY <2>4
  <2>. HIDE DEF F
  <2>. QED BY <1>2, <2>5
<1>. QED BY <1>3, <1>4

\* What uart_put_bytes does: it appends to the ring, and stops before the end
\* of the text only when the ring is full.
LEMMA PutProperties ==
  ASSUME Sound(tx), NEW text \in Seq(Bytes)
  PROVE  LET w == uart_put_bytes(text)
         IN  Partial(w) /\ w.count <= Len(text)
             /\ (~ w.stop => w.count = Len(text))
<1>0. Len(text) \in Nat /\ \A i \in 1..Len(text) : text[i] \in Bytes
  OBVIOUS
<1>. DEFINE F == CHOOSE F : F = [i \in 0..Len(text) |-> PutStep(F, text, i)]
<1>1. F = [i \in 0..Len(text) |-> PutStep(F, text, i)]
  BY <1>0, PutExists
<1>2. uart_put_bytes(text) = F[Len(text)]
  BY Zenon DEF uart_put_bytes, PutStep
<1>. HIDE DEF F
<1>3. /\ F[0] = Writing(tx)
      /\ \A i \in 1..Len(text) : F[i] = PutByte(F[i-1], text[i])
  BY <1>0, <1>1 DEF PutStep
<1>. DEFINE Good(i) == Partial(F[i]) /\ F[i].count <= i /\ (~ F[i].stop => F[i].count = i)
            Bad == {i \in 0..Len(text) : ~ Good(i)}
<1>4. Good(0)
  <2>1. Content(tx) \o << >> = Content(tx)
    BY ConcatEmptySeq DEF Sound
  <2>2. Writing(tx) \in [tx : Rings, put : Seq(Bytes), count : Nat, stop : BOOLEAN]
    BY DEF Writing, Sound
  <2>3. Partial(Writing(tx))
    BY <2>1, <2>2 DEF Writing, Partial
  <2>. QED BY <1>3, <2>3 DEF Writing
<1>5. Bad = {}
  <2>1. SUFFICES ASSUME Bad # {} PROVE FALSE
    OBVIOUS
  <2>2. PICK n \in Bad : \A m \in Bad : n <= m
    <3>1. Bad \in SUBSET Nat
      BY <1>0
    <3>. HIDE DEF Bad
    <3>. QED BY <2>1, <3>1, LeastElement
  <2>3. n \in 1..Len(text) /\ n - 1 \in 0..Len(text) /\ n - 1 \in Nat /\ n - 1 \notin Bad
    BY <1>0, <1>4, <2>2
  <2>4. Good(n - 1)
    BY <2>3
  <2>5. F[n] = PutByte(F[n-1], text[n]) /\ text[n] \in Bytes /\ (n - 1) + 1 = n
    BY <1>0, <1>3, <2>3
  <2>6. Good(n)
    BY <2>3, <2>4, <2>5, PutByteKeeps
  <2>. QED BY <2>2, <2>6
<1>6. Good(Len(text))
  BY <1>0, <1>5
<1>. QED BY <1>2, <1>6

-----------------------------------------------------------------------------
(* Receiving.                                                              *)

\* What the recursive function of Receive is at i, given its values F before
\* i.
StoreStep(F, bytes, i) == IF i = 0 THEN rx ELSE Store(F[i-1], bytes[i])

\* There is a function that satisfies the recursion of Receive.
LEMMA StoreExists ==
  ASSUME NEW bytes, Len(bytes) \in Nat
  PROVE  \E F : F = [i \in 0..Len(bytes) |-> StoreStep(F, bytes, i)]
<1>. DEFINE Ok(n) == \E F : F = [i \in 0..n |-> StoreStep(F, bytes, i)]
            Bad == {n \in 0..Len(bytes) : ~ Ok(n)}
<1>1. SUFFICES ASSUME Bad # {} PROVE FALSE
  OBVIOUS
<1>2. PICK n \in Bad : \A m \in Bad : n <= m
  <2>1. Bad \in SUBSET Nat
    OBVIOUS
  <2>. HIDE DEF Bad
  <2>. QED BY <1>1, <2>1, LeastElement
<1>3. CASE n = 0
  <2>. DEFINE F == [i \in 0..0 |-> rx]
  <2>1. F = [i \in 0..0 |-> StoreStep(F, bytes, i)]
    BY DEF StoreStep
  <2>. QED BY <1>2, <1>3, <2>1
<1>4. CASE n # 0
  <2>1. n \in 1..Len(bytes) /\ n-1 \in 0..Len(bytes) /\ ~(n-1 \in Bad)
    BY <1>2, <1>4
  <2>2. PICK G : G = [i \in 0..(n-1) |-> StoreStep(G, bytes, i)]
    BY <2>1
  <2>. DEFINE F == [i \in 0..n |-> IF i = n THEN StoreStep(G, bytes, n) ELSE G[i]]
  <2>3. \A i \in 0..(n-1) : F[i] = G[i]
    BY <2>1
  <2>4. \A i \in 0..n : F[i] = StoreStep(F, bytes, i)
    <3>1. ASSUME NEW i \in 0..n PROVE StoreStep(F, bytes, i) = StoreStep(G, bytes, i)
      BY <2>1, <2>3 DEF StoreStep
    <3>2. ASSUME NEW i \in 0..n PROVE F[i] = StoreStep(G, bytes, i)
      <4>1. \A j \in 0..(n-1) : G[j] = StoreStep(G, bytes, j)
        BY <2>2
      <4>2. i = n \/ i \in 0..(n-1)
        BY <2>1
      <4>. QED BY <4>1, <4>2
    <3>. QED BY <3>1, <3>2
  <2>5. F = [i \in 0..n |-> StoreStep(F, bytes, i)]
    BY <2>4
  <2>. HIDE DEF F
  <2>. QED BY <1>2, <2>5
<1>. QED BY <1>3, <1>4

\* How many of the bytes that have arrived go into the ring.
Fitting(n) == IF n <= RingSize - 1 - Count(rx) THEN n ELSE RingSize - 1 - Count(rx)

\* The bytes that fit are appended to the ring, the others are dropped.
LEMMA ReceiveProperties ==
  ASSUME Sound(rx), NEW bytes \in Seq(Bytes), Receive(bytes)
  PROVE  /\ Sound(rx') /\ Content(rx') = Content(rx) \o stored'
         /\ stored' \in Seq(Bytes) /\ got' = << >>
<1>0. /\ Len(bytes) \in Nat /\ \A i \in 1..Len(bytes) : bytes[i] \in Bytes
      /\ rx \in Rings /\ Content(rx) \in Seq(Bytes)
  BY DEF Sound
<1>a. Count(rx) \in Nat /\ Count(rx) < RingSize /\ RingSize \in Nat
  BY <1>0, CountValue, RingAssumption
<1>. DEFINE F == CHOOSE F : F = [i \in 0..Len(bytes) |-> StoreStep(F, bytes, i)]
            n == Len(bytes)
<1>1. F = [i \in 0..Len(bytes) |-> StoreStep(F, bytes, i)]
  BY <1>0, StoreExists
<1>2. rx' = F[Len(bytes)]
  BY Zenon DEF Receive, StoreStep
<1>3. stored' = SubSeq(bytes, 1, Fitting(n)) /\ got' = << >>
  BY DEF Receive, Fitting
<1>. HIDE DEF F
<1>4. /\ F[0] = rx
      /\ \A i \in 1..n : F[i] = Store(F[i-1], bytes[i])
  BY <1>0, <1>1 DEF StoreStep
<1>. DEFINE Good(i) == /\ Sound(F[i])
                       /\ Count(F[i]) = Count(rx) + Fitting(i)
                       /\ Content(F[i]) = Content(rx) \o SubSeq(bytes, 1, Fitting(i))
            Bad == {i \in 0..n : ~ Good(i)}
<1>5. Good(0)
  <2>1. Fitting(0) = 0
    BY <1>a DEF Fitting
  <2>2. SubSeq(bytes, 1, 0) = << >>
    BY SubSeqEmpty
  <2>3. Content(rx) \o << >> = Content(rx)
    BY <1>0, ConcatEmptySeq
  <2>4. Content(rx) \o SubSeq(bytes, 1, Fitting(0)) = Content(rx)
    BY <2>1, <2>2, <2>3
  <2>5. Count(rx) = Count(rx) + Fitting(0)
    BY <1>a, <2>1
  <2>. QED BY <1>4, <2>4, <2>5
<1>6. ASSUME NEW i \in 1..n, Good(i - 1) PROVE Good(i)
  <2>0. i \in Nat /\ 1 <= i /\ i <= n /\ bytes[i] \in Bytes
        /\ F[i] = Store(F[i-1], bytes[i]) /\ F[i-1] \in Rings
    BY <1>0, <1>4, <1>6 DEF Sound
  <2>1. Full(F[i-1]) <=> Count(F[i-1]) = RingSize - 1
    BY <2>0, CountValue
  <2>2. CASE Full(F[i-1])
    <3>1. Fitting(i - 1) = RingSize - 1 - Count(rx)
      BY <1>6, <1>a, <2>0, <2>1, <2>2 DEF Fitting
    <3>2. Fitting(i) = Fitting(i - 1)
      BY <1>a, <2>0, <3>1 DEF Fitting
    <3>3. F[i] = F[i-1]
      BY <2>0, <2>2 DEF Store
    <3>. QED BY <1>6, <3>2, <3>3
  <2>3. CASE ~ Full(F[i-1])
    <3>1. Fitting(i - 1) = i - 1 /\ Fitting(i) = i
      <4>1. i - 1 <= RingSize - 1 - Count(rx)
        BY <1>6, <1>a, <2>0, <2>1, <2>3 DEF Fitting
      <4>2. Fitting(i - 1) = i - 1
        BY <4>1 DEF Fitting
      <4>3. i <= RingSize - 1 - Count(rx)
        BY <1>6, <1>a, <2>0, <2>1, <2>3, <4>1, <4>2
      <4>. QED BY <4>2, <4>3 DEF Fitting
    <3>2. /\ Sound(F[i])
          /\ Content(F[i]) = Append(Content(F[i-1]), bytes[i])
      BY <1>6, <2>0, <2>3, StoreSound
    <3>3. Count(F[i]) = Count(F[i-1]) + 1
      BY <2>0, <2>3, StoreProperties
    <3>4. SubSeq(bytes, 1, i - 1) \in Seq(Bytes)
          /\ SubSeq(bytes, 1, i) = Append(SubSeq(bytes, 1, i - 1), bytes[i])
      <4>1. SubSeq(bytes, 1, i - 1) \in Seq(Bytes)
        BY <2>0, SplitAt
      <4>. QED BY <2>0, <4>1
    <3>5. Append(Content(rx) \o SubSeq(bytes, 1, i - 1), bytes[i])
            = Content(rx) \o SubSeq(bytes, 1, i)
      <4>1. /\ Content(rx) \in Seq(Bytes) /\ bytes[i] \in Bytes
            /\ SubSeq(bytes, 1, i - 1) \in Seq(Bytes)
        BY <1>0, <2>0, <3>4
      <4>2. Append(Content(rx) \o SubSeq(bytes, 1, i - 1), bytes[i])
              = Content(rx) \o Append(SubSeq(bytes, 1, i - 1), bytes[i])
        BY <4>1, AppendByte
      <4>. QED BY <3>4, <4>2
    <3>6. Count(F[i]) = Count(rx) + Fitting(i)
      BY <1>6, <1>a, <2>0, <3>1, <3>3
    <3>. QED BY <1>6, <3>1, <3>2, <3>5, <3>6
  <2>. QED BY <2>2, <2>3
<1>7. Bad = {}
  <2>1. SUFFICES ASSUME Bad # {} PROVE FALSE
    OBVIOUS
  <2>2. PICK k \in Bad : \A m \in Bad : k <= m
    <3>1. Bad \in SUBSET Nat
      BY <1>0
    <3>. HIDE DEF Bad
    <3>. QED BY <2>1, <3>1, LeastElement
  <2>. HIDE DEF Good
  <2>3. k \in 1..n /\ k - 1 \in 0..n /\ k - 1 \notin Bad
    BY <1>0, <1>5, <2>2
  <2>4. Good(k - 1)
    BY <2>3
  <2>5. Good(k)
    BY <1>6, <2>3, <2>4
  <2>. QED BY <2>2, <2>5
<1>8. Good(n)
  <2>. HIDE DEF Good
  <2>. QED BY <1>0, <1>7
<1>9. SubSeq(bytes, 1, Fitting(n)) \in Seq(Bytes)
  <2>1. Fitting(n) \in Nat /\ Fitting(n) <= n
    BY <1>0, <1>a DEF Fitting
  <2>. QED BY <2>1, SplitAt
<1>. QED BY <1>2, <1>3, <1>8, <1>9

-----------------------------------------------------------------------------
(* The invariant.                                                          *)

\* The rings hold only bytes that wait for their turn, which is what keeps
\* used slots out of what is sent; the rest is what the runs check.
UInv ==
  /\ TypeOK
  /\ Sound(tx) /\ Sound(rx)
  /\ OutputArmed
  /\ WritersWaitForRoom

\* What a step puts into a ring comes out after what was there.
Ordered ==
  /\ sent' \o Content(tx)' = Content(tx) \o put'
  /\ got' \o Content(rx)' = Content(rx) \o stored'

\* Nothing is lost on either side of an empty sequence.
LEMMA NothingAdded ==
  ASSUME NEW s \in Seq(Bytes)
  PROVE  << >> \o s = s /\ s \o << >> = s /\ << >> \in Seq(Bytes)
OBVIOUS

\* A ring without bytes.
LEMMA EmptySound == Empty \in Rings /\ Sound(Empty) /\ Empty.head = Empty.tail
<1>1. 0 \in Slots
  BY RingAssumption DEF Slots
<1>2. Empty \in Rings /\ Empty.head = Empty.tail
  BY <1>1 DEF Empty, Rings
<1>3. Count(Empty) = 0 /\ Len(Content(Empty)) = 0
      /\ Content(Empty) \in Seq(Bytes \cup {"used"})
  BY <1>2, CountValue, ContentValue
<1>4. Content(Empty) = << >>
  BY <1>3, EmptySeq
<1>. QED BY <1>2, <1>4, NothingAdded DEF Sound

\* The driver starts with empty rings.
LEMMA UInitial == Init => UInv
<1>. SUFFICES ASSUME Init PROVE UInv
  OBVIOUS
<1>1. tx = Empty /\ rx = Empty
  BY DEF Init
<1>2. todo \in [Writers -> Seq(Bytes)]
  BY TextAssumption DEF Init
<1>3. TypeOK
  <2>1. /\ thr_empty \in BOOLEAN /\ waiting \subseteq Writers
        /\ polled \in BOOLEAN
        /\ put = << >> /\ sent = << >> /\ stored = << >> /\ got = << >>
    BY DEF Init
  <2>2. << >> \in Seq(Bytes)
    OBVIOUS
  <2>. QED BY <1>1, <1>2, <2>1, <2>2, EmptySound DEF TypeOK
<1>. QED BY <1>1, <1>3, EmptySound DEF UInv, OutputArmed, WritersWaitForRoom, Init

\* A writer: it waits only when uart_put_bytes has filled the ring, and other
\* writers wait on only if the ring was full, so that nothing has changed.
LEMMA WriteStep ==
  ASSUME UInv, NEW w \in Writers, Write(w)
  PROVE  UInv' /\ Ordered
<1> DEFINE write == uart_put_bytes(todo[w])
           text == todo[w]
<1>0. /\ TypeOK /\ Sound(tx) /\ Sound(rx)
      /\ tx \in Rings /\ rx \in Rings
      /\ Content(tx) \in Seq(Bytes) /\ Content(rx) \in Seq(Bytes)
      /\ tx.head # tx.tail => thr_empty
      /\ waiting # {} => Full(tx) \/ polled
      /\ text \in Seq(Bytes) /\ text # << >>
  BY DEF UInv, OutputArmed, WritersWaitForRoom, TypeOK, Sound, Write
<1>1. /\ tx' = write.tx /\ put' = write.put /\ sent' = << >>
      /\ rx' = rx /\ stored' = << >> /\ got' = << >>
      /\ thr_empty' = (thr_empty \/ write.put # << >>)
      /\ todo' = [todo EXCEPT ![w] = SubSeq(text, write.count + 1, Len(text))]
      /\ waiting' = IF (w \in Threads /\ todo'[w] # << >>) \/ write.count = 0
                    THEN waiting \cup {w} ELSE waiting
      /\ polled' = polled
  BY DEF Write, NoInput
<1>2. Partial(write) /\ write.count <= Len(text)
      /\ (~ write.stop => write.count = Len(text))
  BY <1>0, PutProperties
<1>. HIDE DEF write
<1>3. /\ write.tx \in Rings /\ Sound(write.tx) /\ write.put \in Seq(Bytes)
      /\ write.count \in Nat
      /\ Content(write.tx) = Content(tx) \o write.put
      /\ write.stop => Full(write.tx)
      /\ write.put = << >> => write.tx = tx
      /\ Full(tx) => write.tx = tx
  BY <1>2 DEF Partial, Sound
<1>. HIDE DEF text
<1>4. SubSeq(text, write.count + 1, Len(text)) \in Seq(Bytes)
      /\ (write.count = Len(text) =>
            SubSeq(text, write.count + 1, Len(text)) = << >>)
  BY <1>0, <1>2, <1>3, SplitAt
<1>5. todo' \in [Writers -> Seq(Bytes)]
      /\ todo'[w] = SubSeq(text, write.count + 1, Len(text))
  BY <1>0, <1>1, <1>4 DEF TypeOK
<1>6. thr_empty' \in BOOLEAN /\ waiting' \subseteq Writers
  BY <1>0, <1>1 DEF TypeOK
<1>7. TypeOK'
  BY <1>0, <1>1, <1>3, <1>5, <1>6, NothingAdded DEF TypeOK
<1>8. tx'.head # tx'.tail => thr_empty'
  BY <1>0, <1>1, <1>3
<1>9. Len(text) # 0
  BY <1>0
<1>10. waiting' # {} => Full(tx') \/ polled'
  <2>1. CASE write.stop
    BY <1>1, <1>3, <2>1
  <2>2. CASE ~ write.stop
    <3>1. todo'[w] = << >> /\ write.count # 0
      BY <1>2, <1>4, <1>5, <1>9, <2>2
    <3>2. waiting' = waiting
      BY <1>1, <3>1
    <3>. QED BY <1>0, <1>1, <1>3, <3>2
  <2>. QED BY <2>1, <2>2
<1>11. UInv'
  BY <1>0, <1>1, <1>3, <1>7, <1>8, <1>10
     DEF UInv, OutputArmed, WritersWaitForRoom, Sound, Content, First, Count, Full
<1>12. Ordered
  <2>1. Content(tx)' = Content(tx) \o put' /\ Content(rx)' = Content(rx)
    BY <1>1, <1>3 DEF Content, First, Count
  <2>2. Content(tx)' \in Seq(Bytes)
    BY <1>1, <1>3 DEF Sound, Content, First, Count
  <2>. QED BY <1>0, <1>1, <2>1, <2>2, NothingAdded DEF Ordered
<1>. QED BY <1>11, <1>12

\* Debug output: it empties the ring under the writers that wait.
LEMMA DebugStep ==
  ASSUME UInv, NEW text \in DebugTexts, uart_debug_puts(text)
  PROVE  UInv' /\ Ordered
<1> DEFINE r == Drop(tx, Count(tx))
<1>0. /\ TypeOK /\ Sound(tx) /\ Sound(rx)
      /\ tx \in Rings /\ rx \in Rings
      /\ Content(tx) \in Seq(Bytes) /\ Content(rx) \in Seq(Bytes)
  BY DEF UInv, Sound
<1>1. /\ sent' = Content(tx) \o text /\ put' = text /\ tx' = r
      /\ polled' = (waiting # {})
      /\ rx' = rx /\ stored' = << >> /\ got' = << >>
      /\ thr_empty' = thr_empty /\ todo' = todo /\ waiting' = waiting
  BY DEF uart_debug_puts, NoInput
<1>2. Count(tx) \in 0..Count(tx) /\ Count(tx) \in Nat
  BY <1>0, CountValue
<1>3. Sound(r) /\ Content(r) = << >> /\ r \in Rings
  BY <1>0, <1>2, DropSound DEF Sound
<1>4. r.head = r.tail
  <2>1. Count(r) = 0
    BY <1>0, <1>2, DropProperties
  <2>. QED BY <1>3, <2>1, CountValue
<1>. HIDE DEF r
<1>5. text \in Seq(Bytes) /\ Content(tx) \o text \in Seq(Bytes)
  <2>1. text \in Seq(Bytes)
    BY TextAssumption
  <2>. QED BY <1>0, <2>1, ConcatProperties
<1>6. TypeOK'
  BY <1>0, <1>1, <1>3, <1>5, NothingAdded DEF TypeOK
<1>7. UInv'
  BY <1>0, <1>1, <1>3, <1>4, <1>6
     DEF UInv, OutputArmed, WritersWaitForRoom, Sound, Content, First, Count, Full
<1>8. Ordered
  <2>1. Content(tx)' = << >> /\ Content(rx)' = Content(rx)
    BY <1>1, <1>3 DEF Content, First, Count
  <2>. QED BY <1>0, <1>1, <1>5, <2>1, NothingAdded DEF Ordered
<1>. QED BY <1>7, <1>8

\* The interrupt handler: it stops asking for interrupts only with the ring
\* drained, and wakes every writer when it makes room.
LEMMA HandlerStep ==
  ASSUME UInv, NEW bytes \in Inputs, NEW n \in Slots, NEW drained \in BOOLEAN,
         uart_irq_handler(bytes, n, drained)
  PROVE  UInv' /\ Ordered
<1> DEFINE r == Drop(tx, n)
<1>0. /\ TypeOK /\ Sound(tx) /\ Sound(rx)
      /\ tx \in Rings /\ rx \in Rings
      /\ Content(tx) \in Seq(Bytes) /\ Content(rx) \in Seq(Bytes)
      /\ tx.head # tx.tail => thr_empty
      /\ waiting # {} => Full(tx) \/ polled
      /\ bytes \in Seq(Bytes)
  BY TextAssumption DEF UInv, OutputArmed, WritersWaitForRoom, Sound
<1>1. /\ Receive(bytes) /\ todo' = todo
      /\ n <= Count(tx) /\ (drained => n = Count(tx))
      /\ sent' = First(tx, n) /\ put' = << >> /\ tx' = r
      /\ thr_empty' = (thr_empty /\ ~ drained)
      /\ waiting' = IF n > 0 THEN {} ELSE waiting
      /\ polled' = (polled /\ waiting' # {})
  BY DEF uart_irq_handler, Transmit
<1>2. /\ Sound(rx') /\ Content(rx') = Content(rx) \o stored'
      /\ stored' \in Seq(Bytes) /\ got' = << >> /\ rx' \in Rings
      /\ Content(rx') \in Seq(Bytes)
  BY <1>0, <1>1, ReceiveProperties DEF Sound
<1>3. n \in Nat /\ Count(tx) \in Nat /\ n \in 0..Count(tx)
  BY <1>0, <1>1, CountValue DEF Slots
<1>4. /\ Sound(r) /\ r \in Rings /\ First(tx, n) \in Seq(Bytes)
      /\ Content(tx) = First(tx, n) \o Content(r)
  BY <1>0, <1>3, DropSound DEF Sound
<1>5. /\ Count(r) = Count(tx) - n
      /\ (Count(r) = 0 <=> r.head = r.tail)
      /\ (Count(tx) = 0 <=> tx.head = tx.tail)
      /\ (Full(r) <=> Count(r) = RingSize - 1)
      /\ (Full(tx) <=> Count(tx) = RingSize - 1)
  BY <1>0, <1>3, <1>4, CountValue, DropProperties
<1>. HIDE DEF r
<1>6. TypeOK'
  <2>1. thr_empty' \in BOOLEAN /\ waiting' \subseteq Writers /\ polled' \in BOOLEAN
    BY <1>0, <1>1 DEF TypeOK
  <2>2. << >> \in Seq(Bytes)
    OBVIOUS
  <2>. QED BY <1>0, <1>1, <1>2, <1>4, <2>1, <2>2 DEF TypeOK
<1>7. tx'.head # tx'.tail => thr_empty'
  <2>1. r.head # r.tail => n # Count(tx) /\ Count(tx) # 0
    BY <1>3, <1>5
  <2>. QED BY <1>0, <1>1, <1>5, <2>1
<1>8. waiting' # {} => Full(tx') \/ polled'
  <2>1. CASE n > 0
    BY <1>1, <2>1
  <2>2. CASE ~ (n > 0)
    <3>1. Count(r) = Count(tx)
      BY <1>3, <1>5, <2>2
    <3>. QED BY <1>0, <1>1, <1>5, <2>2, <3>1
  <2>. QED BY <2>1, <2>2
<1>9. UInv'
  BY <1>1, <1>2, <1>4, <1>6, <1>7, <1>8
     DEF UInv, OutputArmed, WritersWaitForRoom, Sound, Content, First, Count, Full
<1>10. Ordered
  <2>1. Content(tx)' = Content(r) /\ Content(rx)' = Content(rx) \o stored'
        /\ Content(rx)' = Content(rx')
    BY <1>1, <1>2 DEF Content, First, Count
  <2>2. << >> \o Content(rx)' = Content(rx)'
    BY <1>2, <2>1, NothingAdded
  <2>3. Content(tx) \o << >> = Content(tx)
    BY <1>0, NothingAdded
  <2>. QED BY <1>1, <1>2, <1>4, <2>1, <2>2, <2>3 DEF Ordered
<1>. QED BY <1>9, <1>10

\* A reader takes what there is, at most n bytes.
LEMMA ReadStep ==
  ASSUME UInv, NEW n \in 1..RingSize, uart_get_bytes(n)
  PROVE  UInv' /\ Ordered
<1> DEFINE read == IF n <= Count(rx) THEN n ELSE Count(rx)
           r == Drop(rx, read)
<1>0. /\ TypeOK /\ Sound(tx) /\ Sound(rx)
      /\ tx \in Rings /\ rx \in Rings
      /\ Content(tx) \in Seq(Bytes) /\ Content(rx) \in Seq(Bytes)
      /\ OutputArmed /\ WritersWaitForRoom
  BY DEF UInv, Sound
<1>1. /\ rx' = r /\ got' = First(rx, read) /\ stored' = << >>
      /\ tx' = tx /\ thr_empty' = thr_empty /\ todo' = todo
      /\ waiting' = waiting /\ polled' = polled
      /\ put' = << >> /\ sent' = << >>
  BY DEF uart_get_bytes, NoOutput
<1>2. read \in 0..Count(rx)
  BY <1>0, CountValue
<1>. HIDE DEF read
<1>3. /\ Sound(r) /\ r \in Rings /\ First(rx, read) \in Seq(Bytes)
      /\ Content(rx) = First(rx, read) \o Content(r)
  BY <1>0, <1>2, DropSound DEF Sound
<1>. HIDE DEF r
<1>4. TypeOK'
  <2>2. << >> \in Seq(Bytes)
    OBVIOUS
  <2>. QED BY <1>0, <1>1, <1>3, <2>2 DEF TypeOK
<1>5. UInv'
  BY <1>0, <1>1, <1>3, <1>4
     DEF UInv, OutputArmed, WritersWaitForRoom, Sound, Content, First, Count, Full
<1>6. Ordered
  <2>1. Content(rx)' = Content(r) /\ Content(tx)' = Content(tx)
    BY <1>1 DEF Content, First, Count
  <2>2. << >> \o Content(tx) = Content(tx) /\ Content(tx) \o << >> = Content(tx)
        /\ Content(rx) \o << >> = Content(rx)
    BY <1>0, NothingAdded
  <2>. QED BY <1>1, <1>3, <2>1, <2>2 DEF Ordered
<1>. QED BY <1>5, <1>6

\* Every step of the driver keeps the invariant and the order of the bytes.
LEMMA UStep ==
  ASSUME UInv, [Next]_vars
  PROVE  UInv' /\ [Ordered]_vars
<1>1. CASE Next
  <2>1. ASSUME NEW w \in Writers, Write(w) PROVE UInv' /\ Ordered
    BY <2>1, WriteStep
  <2>2. ASSUME NEW text \in DebugTexts, uart_debug_puts(text)
        PROVE  UInv' /\ Ordered
    BY <2>2, DebugStep
  <2>3. ASSUME NEW bytes \in Inputs, NEW n \in Slots, NEW drained \in BOOLEAN,
               uart_irq_handler(bytes, n, drained)
        PROVE  UInv' /\ Ordered
    BY <2>3, HandlerStep
  <2>4. ASSUME NEW n \in 1..RingSize, uart_get_bytes(n) PROVE UInv' /\ Ordered
    BY <2>4, ReadStep
  <2>. QED BY <1>1, <2>1, <2>2, <2>3, <2>4 DEF Next
<1>2. CASE UNCHANGED vars
  BY <1>2 DEF vars, UInv, TypeOK, Sound, OutputArmed, WritersWaitForRoom,
              Content, First, Count, Full
<1>. QED BY <1>1, <1>2

\* The rings hold what they should in every state.
THEOREM Invariance == Spec => []UInv
<1>1. UInv /\ [Next]_vars => UInv'
  BY UStep
<1>. QED BY <1>1, UInitial, PTL DEF Spec

\* The transmitter interrupt is asked for while there is anything to send:
\* output never stops half way, whoever writes and whenever the interrupts
\* come.
THEOREM OutputIsArmed == Spec => []OutputArmed
<1>1. UInv => OutputArmed
  BY DEF UInv
<1>. QED BY <1>1, Invariance, PTL

\* A writer waits only while the ring is full or debug output has drained it.
THEOREM WritersWaitOnlyForRoom == Spec => []WritersWaitForRoom
<1>1. UInv => WritersWaitForRoom
  BY DEF UInv
<1>. QED BY <1>1, Invariance, PTL

\* Every byte put into a ring comes out of it once and in order.
THEOREM BytesStayInOrder == Spec => BytesOrdered
<1>1. UInv /\ [Next]_vars => [Ordered]_vars
  BY UStep
<1>2. Spec => []UInv
  BY Invariance
<1>. QED BY <1>1, <1>2, PTL DEF Spec, BytesOrdered, Ordered

=============================================================================
