-------------------------- MODULE KernelMap_proofs --------------------------
(***************************************************************************)
(* What holds of the memory of the kernel from its first instruction on,   *)
(* on every board: the page allocator comes out of the boot in order and   *)
(* stays so, memory in use before it exists is never handed out, page      *)
(* tables are in the hands of no one else, and the kernel finds its memory *)
(* and its devices where it expects them.                                  *)
(***************************************************************************)
EXTENDS KernelMap, DynamicAllocator_proofs, FiniteSetTheorems

-----------------------------------------------------------------------------
(* The page allocator.                                                     *)

\* The stages from memory_init on.
Late == {"populate", "refine", "devices", "ready"}

\* Until then the page allocator is empty.
EarlyInv ==
  stage \notin Late =>
    /\ frame_array = [p \in Pages |-> [order |-> 0, flags |-> "none"]]
    /\ orders_lists = [o \in Orders |-> << >>]
    /\ populated = 0
    /\ held = << >>

BootInv == PageInv /\ EarlyInv

\* What memory_init is to the page allocator.
FramesMade ==
  /\ stage = "reserve"
  /\ stage' = "populate"
  /\ _allocate_frame_array(reserved_memory) # -1
  /\ frame_array' = FrameArray(reserved_memory)
  /\ UNCHANGED <<reserved_memory, orders_lists, populated, held>>

\* The regions grow only before memory_init.
RegionsStep == stage \in {"memory", "reserve"} \/ UNCHANGED reserved_memory

\* The stages are gone through in order.
StageStep ==
  \/ stage' = stage
  \/ stage = "entry" /\ stage' \in {"halted", "initrd"}
  \/ stage = "initrd" /\ stage' = "memory"
  \/ stage = "memory" /\ stage' \in {"failed", "reserve"}
  \/ stage = "reserve" /\ stage' \in {"failed", "populate"}
  \/ stage = "populate" /\ stage' = "refine"
  \/ stage = "refine" /\ stage' = "devices"
  \/ stage = "devices" /\ stage' = "ready"

PagesSame == UNCHANGED <<frame_array, orders_lists, populated, held>>

\* Every step but memory_init is one of the page allocator's, or none.
LEMMA StepsOfBoot ==
  ASSUME [KernelNext]_kernel_vars
  PROVE  /\ FramesMade \/ PageStep
         /\ stage \notin Late => FramesMade \/ populated = PageCount \/ PagesSame
         /\ RegionsStep
         /\ StageStep
         /\ stage = "reserve" /\ stage' = "populate" => FramesMade
<1>. USE DEF PagesSame, Late, vars, board_vars, ramdisk, setup_vars, boot_vars, map_vars, kernel_vars
<1>1. CASE UNCHANGED kernel_vars
  BY <1>1 DEF PageStep, RegionsStep, StageStep
<1>2. CASE virtual_memory_setup
  BY <1>2 DEF virtual_memory_setup, PageStep, RegionsStep, StageStep
<1>3. CASE FindRamdisk
  BY <1>3 DEF FindRamdisk, PageStep, RegionsStep, StageStep
<1>4. CASE FindMemory
  BY <1>4 DEF FindMemory, PageStep, RegionsStep, StageStep
<1>5. CASE ReserveNode
  BY <1>5 DEF ReserveNode, PageStep, RegionsStep, StageStep
<1>6. CASE memory_init
  BY <1>6 DEF memory_init, FramesMade, PageStep, RegionsStep, StageStep
<1>7. CASE stage = "populate" /\ Populate /\ UNCHANGED setup_vars
  BY <1>7 DEF Populate, PageStep, RegionsStep, StageStep
<1>8. CASE Run
  <2>1. stage = "ready" /\ UNCHANGED <<stage, reserved_memory>>
    BY <1>8 DEF Run, memory_allocate_pages, AllocateFails, Release
  <2>2. PageStep
    <3>1. ASSUME NEW size \in Sizes, memory_allocate_pages(size) PROVE PageStep
      BY <3>1, PageAssumption DEF PageStep
    <3>2. ASSUME NEW size \in Sizes, AllocateFails(size) PROVE PageStep
      BY <3>2 DEF PageStep, AllocateFails
    <3>3. ASSUME NEW block \in Pages, Release(block) PROVE PageStep
      BY <3>3 DEF PageStep, Release
    <3>. QED BY <1>8, <3>1, <3>2, <3>3 DEF Run
  <2>. QED BY <2>1, <2>2 DEF RegionsStep, StageStep
<1>9. CASE AllocateTable
  <2>1. /\ memory_allocate_pages(PageSize) /\ populated = PageCount
        /\ UNCHANGED <<stage, reserved_memory>>
    BY <1>9 DEF AllocateTable, TableSize, memory_allocate_pages
  <2>. QED BY <2>1, PageAssumption DEF PageStep, RegionsStep, StageStep
<1>10. CASE virtual_memory_drop_identity_mapping \/ virtual_memory_refine_mappings
  BY <1>10 DEF virtual_memory_drop_identity_mapping, virtual_memory_refine_mappings,
     PageStep, RegionsStep, StageStep
<1>11. CASE FollowEntry \/ SetLeaf \/ SetUpDevice \/ Boot \/ Stopped
  BY <1>11 DEF FollowEntry, SetLeaf, SetUpDevice, Boot, Stopped, PageStep, RegionsStep, StageStep
<1>. QED BY <1>1, <1>2, <1>3, <1>4, <1>5, <1>6, <1>7, <1>8, <1>9, <1>10, <1>11
         DEF KernelNext, Setup

\* FrameArray has no free pages.
LEMMA FramesEmpty ==
  ASSUME NEW regions
  PROVE  LET frame == FrameArray(regions)
             lists == [o \in Orders |-> << >>]
         IN  /\ Consistent(lists, frame, {}, {})
             /\ FlagsWithin(frame, {})
             /\ \A p \in Pages : frame[p].order = 0
<1>. DEFINE pages == ReservedPages(regions, _allocate_frame_array(regions))
            flags == [p \in Pages |-> IF p \in pages THEN "reserved" ELSE "none"]
<1>1. flags \in [Pages -> Flags \ {"free"}]
  BY DEF Flags
<1>2. FrameArray(regions) = [p \in Pages |-> [order |-> 0, flags |-> flags[p]]]
  BY DEF FrameArray
<1>. HIDE DEF flags
<1>. QED BY <1>1, <1>2, NothingPopulated

\* The page allocator of the boot.
THEOREM BootKept == KernelSpec => []BootInv
<1>1. KernelInit => BootInv
  <2>. SUFFICES ASSUME KernelInit PROVE BootInv
    OBVIOUS
  <2>1. /\ frame_array = [p \in Pages |-> [order |-> 0, flags |-> "none"]]
        /\ orders_lists = [o \in Orders |-> << >>]
        /\ populated = 0 /\ held = << >>
    BY DEF KernelInit, SetupInit
  <2>. DEFINE flags == [p \in Pages |-> "none"]
  <2>2. flags \in [Pages -> Flags \ {"free"}]
    BY DEF Flags
  <2>3. frame_array = [p \in Pages |-> [order |-> 0, flags |-> flags[p]]]
    BY <2>1
  <2>. HIDE DEF flags
  <2>4. /\ Consistent(orders_lists, frame_array, {}, {})
        /\ FlagsWithin(frame_array, {})
        /\ \A p \in Pages : frame_array[p].order = 0
    BY <2>1, <2>2, <2>3, NothingPopulated
  <2>5. Usable = {} /\ DOMAIN held = {} /\ Held(held) = {} /\ populated \in 0..PageCount
    BY <2>1, PageAssumption DEF Usable, Held
  <2>. QED BY <2>1, <2>4, <2>5 DEF BootInv, PageInv, EarlyInv
<1>2. BootInv /\ [KernelNext]_kernel_vars => BootInv'
  <2>. SUFFICES ASSUME BootInv, [KernelNext]_kernel_vars PROVE BootInv'
    OBVIOUS
  <2>1. PageInv'
    <3>1. CASE FramesMade
      <4>1. /\ orders_lists' = [o \in Orders |-> << >>]
            /\ populated' = 0 /\ held' = << >>
            /\ frame_array' = FrameArray(reserved_memory)
        BY <3>1 DEF FramesMade, BootInv, EarlyInv, Late
      <4>2. /\ Consistent(orders_lists', frame_array', {}, {})
            /\ FlagsWithin(frame_array', {})
            /\ \A p \in Pages : frame_array'[p].order = 0
        BY <4>1, FramesEmpty
      <4>3. Usable' = {} /\ DOMAIN held' = {} /\ Held(held') = {} /\ populated' \in 0..PageCount
        BY <4>1, PageAssumption DEF Usable, Held
      <4>. QED BY <4>2, <4>3 DEF PageInv
    <3>2. CASE PageStep
      BY <3>2, PageStepKeeps DEF BootInv
    <3>. QED BY <3>1, <3>2, StepsOfBoot
  <2>2. EarlyInv'
    <3>. SUFFICES ASSUME stage' \notin Late PROVE EarlyInv'
      BY DEF EarlyInv
    <3>1. stage \notin Late /\ stage' # "populate"
      BY StepsOfBoot DEF StageStep, Late
    <3>2. /\ frame_array = [p \in Pages |-> [order |-> 0, flags |-> "none"]]
          /\ orders_lists = [o \in Orders |-> << >>]
          /\ populated = 0 /\ held = << >>
      BY <3>1 DEF BootInv, EarlyInv
    <3>3. PagesSame
      <4>1. ~ FramesMade
        BY <3>1 DEF FramesMade
      <4>2. populated # PageCount
        BY <3>2, PageAssumption
      <4>. QED BY <3>1, <4>1, <4>2, StepsOfBoot
    <3>. QED BY <3>2, <3>3 DEF EarlyInv, PagesSame
  <2>. QED BY <2>1, <2>2 DEF BootInv
<1>. QED BY <1>1, <1>2, PTL DEF KernelSpec

\* Memory is partitioned from the first instruction on.
THEOREM BootPartitions == KernelSpec => []BlocksPartition
<1>1. BootInv => BlocksPartition
  BY Partitioned DEF BootInv
<1>. QED BY <1>1, BootKept, PTL

-----------------------------------------------------------------------------
(* Memory in use before the allocator exists.                              *)

\* What is reserved from then on is what memory_init reserved.
FrameInv ==
  stage \in Late =>
    /\ _allocate_frame_array(reserved_memory) # -1
    /\ \A p \in Pages : frame_array[p].flags = "reserved" <=>
         p \in ReservedPages(reserved_memory, _allocate_frame_array(reserved_memory))

\* No page becomes reserved later, or stops being so.
THEOREM ReservationsStay == KernelSpec => []FrameInv
<1>1. KernelInit => FrameInv
  BY DEF KernelInit, SetupInit, FrameInv, Late
<1>2. BootInv /\ FrameInv /\ [KernelNext]_kernel_vars => FrameInv'
  <2>. SUFFICES ASSUME BootInv, FrameInv, [KernelNext]_kernel_vars, stage' \in Late
                PROVE  FrameInv'
    BY DEF FrameInv
  <2>1. CASE FramesMade
    <3>1. /\ frame_array' = FrameArray(reserved_memory)
          /\ reserved_memory' = reserved_memory
          /\ _allocate_frame_array(reserved_memory) # -1
      BY <2>1 DEF FramesMade
    <3>2. \A p \in Pages : frame_array'[p].flags =
            IF p \in ReservedPages(reserved_memory, _allocate_frame_array(reserved_memory))
            THEN "reserved" ELSE "none"
      BY <3>1 DEF FrameArray
    <3>. QED BY <3>1, <3>2 DEF FrameInv
  <2>2. CASE ~ FramesMade
    <3>1. PageStep /\ RegionsStep /\ StageStep
          /\ (stage \notin Late => populated = PageCount \/ PagesSame)
      BY <2>2, StepsOfBoot
    <3>2. CASE stage \in Late
      <4>1. reserved_memory' = reserved_memory
        BY <3>1, <3>2 DEF RegionsStep, Late
      <4>2. ReservedStay
        BY <3>1, PageStepKeeps DEF BootInv
      <4>. QED BY <3>2, <4>1, <4>2 DEF FrameInv, ReservedStay
    <3>3. CASE stage \notin Late
      <4>1. stage = "reserve" /\ stage' = "populate"
        BY <3>1, <3>3 DEF StageStep, Late
      <4>. QED BY <2>2, <4>1, StepsOfBoot
    <3>. QED BY <3>2, <3>3
  <2>. QED BY <2>1, <2>2
<1>. QED BY <1>1, <1>2, BootKept, PTL DEF KernelSpec

\* The regions memory_init has been given are told by numbers.
RegionsGiven == stage \in Late => AreRegions(reserved_memory)

\* Merging is complete from the first instruction on.
THEOREM BootMerges == KernelSpec => [](RegionsGiven => BuddiesMerged)
<1>1. BootInv /\ FrameInv => (RegionsGiven => BuddiesMerged)
  <2>. SUFFICES ASSUME BootInv, FrameInv, RegionsGiven PROVE BuddiesMerged
    OBVIOUS
  <2>1. CASE stage \notin Late
    BY <2>1, Merging DEF BootInv, EarlyInv
  <2>2. CASE stage \in Late
    <3>1. /\ AreRegions(reserved_memory)
          /\ _allocate_frame_array(reserved_memory) # -1
      BY <2>2 DEF RegionsGiven, FrameInv
    <3>2. PICK p \in Pages :
            p \in ReservedPages(reserved_memory, _allocate_frame_array(reserved_memory))
      BY <3>1, FrameArrayReserved
    <3>3. SomeReserved
      BY <2>2, <3>2 DEF FrameInv, SomeReserved
    <3>. QED BY <3>3, Merging DEF BootInv
  <2>. QED BY <2>1, <2>2
<1>. QED BY <1>1, BootKept, ReservationsStay, PTL

\* A region that takes no more pages than its length counts for: one that
\* begins at a page, or ends in the page where its whole pages end.
OnPages(addr, size) ==
  (addr % PageSize) + size <= PageSize * ((size + PageSize - 1) \div PageSize)

\* The regions that lie inside the memory are so, and the frame array is.
RegionsOnPages ==
  stage \in Late =>
    /\ AreRegions(reserved_memory)
    /\ \A r \in Range(reserved_memory) : InMemory(r) => OnPages(r.addr, r.size)
    /\ OnPages(_allocate_frame_array(reserved_memory), FrameArraySize)

\* Pages for a region hold all of it: a block without any of them lies apart.
LEMMA PagesCover ==
  ASSUME NEW r, r.addr \in Nat, r.size \in Nat, OnPages(r.addr, r.size),
         NEW b \in Nat, NEW n \in Nat \ {0},
         b..(b + n - 1) \cap _memory_reserve_pages(r.addr, r.size) = {}
  PROVE  r.size = 0 \/ r.addr + r.size <= b * PageSize \/ (b + n) * PageSize <= r.addr
<1>. SUFFICES ASSUME r.size # 0, b * PageSize < r.addr + r.size, r.addr < (b + n) * PageSize
              PROVE  FALSE
  <2>1. b * PageSize \in Int /\ (b + n) * PageSize \in Int
    BY PageAssumption
  <2>. HIDE DEF _memory_reserve_pages
  <2>. QED BY <2>1
<1>. DEFINE k == r.addr \div PageSize
            m == (r.size + PageSize - 1) \div PageSize
            d == r.addr % PageSize
<1>1. PageSize \in Nat \ {0}
  BY PageAssumption
<1>2. k \in Nat /\ d \in Nat /\ r.addr = k * PageSize + d
  <2>. DEFINE a == r.addr
  <2>1. a \in Nat
    OBVIOUS
  <2>. HIDE DEF a
  <2>2. a \div PageSize \in Nat /\ a % PageSize \in Nat
        /\ a = PageSize * (a \div PageSize) + (a % PageSize)
    BY <1>1, <2>1
  <2>3. PageSize * (a \div PageSize) = (a \div PageSize) * PageSize
    BY <1>1, <2>2
  <2>. QED BY <2>2, <2>3 DEF a
<1>3. m \in Nat /\ d + r.size <= m * PageSize
  <2>. DEFINE s == r.size + PageSize - 1
  <2>1. s \in Nat
    BY <1>1
  <2>2. m \in Nat
    <3>. HIDE DEF s
    <3>1. s \div PageSize \in Nat
      BY <1>1, <2>1
    <3>. QED BY <3>1 DEF s
  <2>3. d + r.size <= PageSize * m
    BY DEF OnPages
  <2>. HIDE DEF m, d
  <2>4. PageSize * m = m * PageSize
    BY <1>1, <2>2
  <2>. QED BY <2>2, <2>3, <2>4
<1>4. _memory_reserve_pages(r.addr, r.size) = k..(k + m - 1)
  BY DEF _memory_reserve_pages
<1>. HIDE DEF k, m, d
<1>5. k < b + n
  <2>1. k * PageSize < (b + n) * PageSize
    <3>1. k * PageSize \in Int /\ (b + n) * PageSize \in Int
      BY <1>1, <1>2
    <3>. QED BY <1>2, <3>1
  <2>. QED BY <1>1, <1>2, <2>1, Multiply
<1>6. b < k + m
  <2>1. (k + m) * PageSize = k * PageSize + m * PageSize
    BY <1>1, <1>2, <1>3
  <2>2. k * PageSize \in Nat /\ m * PageSize \in Nat /\ b * PageSize \in Nat
    BY <1>1, <1>2, <1>3
  <2>3. b * PageSize < (k + m) * PageSize
    BY <1>2, <1>3, <2>1, <2>2
  <2>. QED BY <1>1, <1>2, <1>3, <2>3, Multiply
<1>7. m # 0
  <2>1. m = 0 => m * PageSize = 0
    BY <1>1
  <2>. QED BY <1>2, <1>3, <2>1
<1>8. PICK p \in Nat : p \in b..(b + n - 1) /\ p \in k..(k + m - 1)
  <2>1. b <= k \/ k <= b
    BY <1>2
  <2>2. CASE b <= k
    <3>1. k \in b..(b + n - 1) /\ k \in k..(k + m - 1)
      BY <1>2, <1>3, <1>5, <1>7, <2>2
    <3>. QED BY <1>2, <3>1
  <2>3. CASE k <= b
    <3>1. b \in b..(b + n - 1) /\ b \in k..(k + m - 1)
      BY <1>2, <1>3, <1>6, <2>3
    <3>. QED BY <3>1
  <2>. QED BY <2>1, <2>2, <2>3
<1>. QED BY <1>4, <1>8

\* No region that is reserved overlaps the frame array or a block.
LEMMA KeptApart ==
  ASSUME BootInv, FrameInv, RegionsOnPages
  PROVE  ReservedApart
<1>. DEFINE alloc == _allocate_frame_array(reserved_memory)
            reserved == ReservedPages(reserved_memory, alloc)
<1>1. PageSize \in Nat \ {0} /\ FrameArraySize \in Nat
  BY PageAssumption
<1>2. SUFFICES ASSUME stage \in Late PROVE ReservedApart
  <2>1. CASE stage \notin Late
    <3>1. orders_lists = [o \in Orders |-> << >>] /\ held = << >>
      BY <2>1 DEF BootInv, EarlyInv
    <3>2. DOMAIN held = {} /\ \A o \in Orders : Range(orders_lists[o]) = {}
      BY <3>1 DEF Range
    <3>3. Blocks = {}
      BY <3>2 DEF Blocks
    <3>. QED BY <2>1, <3>3 DEF ReservedApart, Late
  <2>. QED BY <1>2, <2>1
<1>3. /\ alloc # -1
      /\ \A p \in Pages : frame_array[p].flags = "reserved" <=> p \in reserved
  BY <1>2 DEF FrameInv
<1>4. IsPlace(reserved_memory, alloc) /\ OnPages(alloc, FrameArraySize)
  BY <1>2, <1>3, FramePlaced DEF RegionsOnPages
<1>. HIDE DEF alloc
<1>5. alloc \in Nat /\ Overlapping(reserved_memory, alloc) = {}
  BY <1>4 DEF IsPlace
<1>6. ASSUME NEW x \in Blocks, NEW r, r.addr \in Nat, r.size \in Nat, OnPages(r.addr, r.size),
             _memory_reserve_pages(r.addr, r.size) \subseteq reserved
      PROVE  r.size = 0 \/ r.addr + r.size <= x[2] * PageSize
               \/ x[2] * PageSize + PageSize * Pow2[x[1]] <= r.addr
  <2>1. x \in Orders \X Pages
    BY DEF Blocks, BootInv, PageInv
  <2>2. x[2] \in Nat /\ Pow2[x[1]] \in Nat \ {0}
    <3>1. x[2] \in Nat /\ x[1] \in Nat
      BY <2>1, PageAssumption DEF Pages, Orders
    <3>. QED BY <3>1, PowerOfTwo
  <2>3. ASSUME NEW p \in BlockPages(x[2], x[1]) PROVE p \in Pages /\ p \notin reserved
    <3>1. p \in {q \in 0..(populated - 1) : frame_array[q].flags # "reserved"}
      BY Partitioned DEF BootInv, BlocksPartition
    <3>2. p \in Usable
      BY <3>1 DEF Usable
    <3>3. p \in Pages
      BY <3>2, UsablePages DEF BootInv
    <3>. QED BY <1>3, <3>1, <3>3
  <2>4. x[2]..(x[2] + Pow2[x[1]] - 1) \cap _memory_reserve_pages(r.addr, r.size) = {}
    BY <1>6, <2>3 DEF BlockPages
  <2>5. (x[2] + Pow2[x[1]]) * PageSize = x[2] * PageSize + PageSize * Pow2[x[1]]
    BY <1>1, <2>2
  <2>. QED BY <1>6, <2>2, <2>4, <2>5, PagesCover
<1>7. ASSUME NEW r \in Range(reserved_memory), InMemory(r)
      PROVE  /\ r.addr \in Nat /\ r.size \in Nat /\ OnPages(r.addr, r.size)
             /\ _memory_reserve_pages(r.addr, r.size) \subseteq reserved
             /\ Apart(r, FrameRegion)
  <2>1. PICK i \in DOMAIN reserved_memory : r = reserved_memory[i]
    BY DEF Range
  <2>2. r.addr \in Int /\ r.size \in Nat /\ r.addr >= 0 /\ OnPages(r.addr, r.size)
    BY <1>2, <1>7, <2>1 DEF RegionsOnPages, AreRegions, InMemory
  <2>3. _memory_reserve_pages(r.addr, r.size) \subseteq reserved
    <3>1. r \in {x \in Range(reserved_memory) : x.addr >= 0 /\ x.addr + x.size <= End}
      BY <1>7 DEF InMemory
    <3>. QED BY <3>1 DEF ReservedPages
  <2>4. ~ (alloc < r.addr + r.size /\ alloc + FrameArraySize > r.addr)
    BY <1>5, <2>1 DEF Overlapping
  <2>5. FrameRegion.addr = alloc /\ FrameRegion.size = FrameArraySize
    BY DEF FrameRegion, alloc
  <2>6. Apart(r, FrameRegion)
    BY <1>1, <1>5, <2>2, <2>4, <2>5 DEF Apart
  <2>. QED BY <2>2, <2>3, <2>6
<1>8. ASSUME NEW x \in Blocks PROVE Apart(FrameRegion, BlockRegion(x))
  <2>1. FrameRegion.addr = alloc /\ FrameRegion.size = FrameArraySize
    BY DEF FrameRegion, alloc
  <2>2. _memory_reserve_pages(alloc, FrameArraySize) \subseteq reserved
    BY DEF ReservedPages
  <2>3. /\ BlockRegion(x).addr = x[2] * PageSize
        /\ BlockRegion(x).size = PageSize * Pow2[x[1]]
    BY DEF BlockRegion
  <2>. HIDE DEF reserved
  <2>. QED BY <1>1, <1>4, <1>5, <1>6, <2>1, <2>2, <2>3 DEF Apart
<1>9. ASSUME NEW x \in Blocks, NEW r \in Range(reserved_memory), InMemory(r)
      PROVE  Apart(r, BlockRegion(x))
  <2>1. /\ BlockRegion(x).addr = x[2] * PageSize
        /\ BlockRegion(x).size = PageSize * Pow2[x[1]]
    BY DEF BlockRegion
  <2>. HIDE DEF reserved
  <2>. QED BY <1>6, <1>7, <1>9, <2>1 DEF Apart
<1>. QED BY <1>7, <1>8, <1>9 DEF ReservedApart

-----------------------------------------------------------------------------
(* Page tables.                                                            *)

\* The indices of a table.
IndicesOf(t) == IF t = RootTable THEN 0..(RootEntries - 1) ELSE 0..(Entries - 1)

IsTable(entry) == \E b : entry = ToTable(b)

\* The only entry that leads to a table.
LedFrom(tb, b, t, i) ==
  /\ t \in DOMAIN tb /\ i \in IndicesOf(t)
  /\ \A u \in DOMAIN tb : \A j \in IndicesOf(u) : tb[u][j] = ToTable(b) <=> u = t /\ j = i

\* The tables are a tree: each has a level, an entry that leads to a table leads
\* one level down, and one entry leads to each table but the root.
TableTree(tb, lv) ==
  /\ RootTable \in DOMAIN tb
  /\ \A t \in DOMAIN tb :
       /\ tb[t] = [i \in IndicesOf(t) |-> tb[t][i]]
       /\ lv[t] \in 0..2
       /\ lv[t] = 2 <=> t = RootTable
       /\ \A i \in IndicesOf(t) : tb[t][i].kind = "table" =>
            \E b \in DOMAIN tb \ {RootTable} : tb[t][i] = ToTable(b) /\ lv[t] = lv[b] + 1
  /\ \A b \in DOMAIN tb \ {RootTable} : \E t, i : LedFrom(tb, b, t, i)

\* Entries that lead to tables are told by their kind.
LEMMA Kinds ==
  /\ \A b : ToTable(b).kind = "table"
  /\ \A b, c : ToTable(b) = ToTable(c) => b = c
  /\ \A page, prot : Leaf(page, prot).kind = "leaf"
  /\ None.kind = "none"
  /\ "leaf" # "table" /\ "none" # "table"
<1>1. \A b, c : ToTable(b) = ToTable(c) => b = c
  <2>. SUFFICES ASSUME NEW b, NEW c, ToTable(b) = ToTable(c) PROVE b = c
    OBVIOUS
  <2>1. ToTable(b).block = b /\ ToTable(c).block = c
    BY DEF ToTable
  <2>. QED BY <2>1
<1>. QED BY <1>1 DEF ToTable, Leaf, None

\* An entry that leads to no table becomes another one.
EntrySet(tb, t, i, entry) == [tb EXCEPT ![t][i] = entry]

LEMMA LeafSet ==
  ASSUME NEW tb, NEW lv, TableTree(tb, lv), NEW t \in DOMAIN tb, NEW i \in IndicesOf(t),
         tb[t][i].kind # "table", NEW entry, entry.kind # "table"
  PROVE  TableTree(EntrySet(tb, t, i, entry), lv)
<1>. DEFINE new == EntrySet(tb, t, i, entry)
<1>1. /\ DOMAIN new = DOMAIN tb
      /\ \A u \in DOMAIN tb : new[u] = [j \in IndicesOf(u) |-> new[u][j]]
      /\ \A u \in DOMAIN tb : \A j \in IndicesOf(u) :
           new[u][j] = IF u = t /\ j = i THEN entry ELSE tb[u][j]
  <2>1. \A u \in DOMAIN tb : tb[u] = [j \in IndicesOf(u) |-> tb[u][j]]
    BY DEF TableTree
  <2>. QED BY <2>1 DEF EntrySet
<1>. HIDE DEF new
<1>2. \A b : \A u \in DOMAIN tb : \A j \in IndicesOf(u) :
        new[u][j] = ToTable(b) <=> tb[u][j] = ToTable(b)
  <2>1. \A b : entry # ToTable(b) /\ tb[t][i] # ToTable(b)
    BY Kinds
  <2>. QED BY <1>1, <2>1
<1>3. ASSUME NEW b \in DOMAIN tb \ {RootTable} PROVE \E u, j : LedFrom(new, b, u, j)
  <2>1. PICK u, j : LedFrom(tb, b, u, j)
    BY DEF TableTree
  <2>2. LedFrom(new, b, u, j)
    BY <1>1, <1>2, <2>1 DEF LedFrom
  <2>. QED BY <2>2
<1>4. ASSUME NEW u \in DOMAIN tb, NEW j \in IndicesOf(u), new[u][j].kind = "table"
      PROVE  \E b \in DOMAIN tb \ {RootTable} : new[u][j] = ToTable(b) /\ lv[u] = lv[b] + 1
  <2>1. new[u][j] = tb[u][j]
    BY <1>1, <1>4
  <2>. QED BY <1>4, <2>1 DEF TableTree
<1>5. TableTree(new, lv)
  <2>1. /\ RootTable \in DOMAIN new
        /\ \A u \in DOMAIN new : lv[u] \in 0..2 /\ (lv[u] = 2 <=> u = RootTable)
    BY <1>1 DEF TableTree
  <2>. QED BY <1>1, <1>3, <1>4, <2>1 DEF TableTree
<1>. QED BY <1>5 DEF new

\* An entry that leads to no table leads to a new one.
WithTable(tb, t, i, b) ==
  [u \in DOMAIN tb \cup {b} |->
     IF u = b THEN [j \in 0..(Entries - 1) |-> None]
     ELSE EntrySet(tb, t, i, ToTable(b))[u]]

LevelsWith(tb, lv, t, b) ==
  [u \in DOMAIN tb \cup {b} |-> IF u = b THEN lv[t] - 1 ELSE lv[u]]

LEMMA TableAdded ==
  ASSUME NEW tb, NEW lv, TableTree(tb, lv), NEW t \in DOMAIN tb, NEW i \in IndicesOf(t),
         tb[t][i].kind # "table", lv[t] # 0, NEW b, b \notin DOMAIN tb
  PROVE  TableTree(WithTable(tb, t, i, b), LevelsWith(tb, lv, t, b))
<1>. DEFINE new == WithTable(tb, t, i, b)
            level == LevelsWith(tb, lv, t, b)
<1>0. /\ new = [u \in DOMAIN tb \cup {b} |->
                  IF u = b THEN [j \in 0..(Entries - 1) |-> None]
                  ELSE EntrySet(tb, t, i, ToTable(b))[u]]
      /\ level = [u \in DOMAIN tb \cup {b} |-> IF u = b THEN lv[t] - 1 ELSE lv[u]]
  BY DEF WithTable, LevelsWith
<1>. HIDE DEF new, level
<1>1. b # RootTable /\ IndicesOf(b) = 0..(Entries - 1)
  BY DEF TableTree, IndicesOf
<1>2. /\ DOMAIN new = DOMAIN tb \cup {b}
      /\ \A u \in DOMAIN new : new[u] = [j \in IndicesOf(u) |-> new[u][j]]
      /\ \A j \in IndicesOf(b) : new[b][j] = None
      /\ \A u \in DOMAIN tb : \A j \in IndicesOf(u) :
           new[u][j] = IF u = t /\ j = i THEN ToTable(b) ELSE tb[u][j]
  <2>1. \A u \in DOMAIN tb : tb[u] = [j \in IndicesOf(u) |-> tb[u][j]] /\ u # b
    BY DEF TableTree
  <2>2. DOMAIN new = DOMAIN tb \cup {b}
    BY <1>0
  <2>3. ASSUME NEW u \in DOMAIN tb
        PROVE  /\ new[u] = [j \in IndicesOf(u) |-> new[u][j]]
               /\ \A j \in IndicesOf(u) :
                    new[u][j] = IF u = t /\ j = i THEN ToTable(b) ELSE tb[u][j]
    <3>1. new[u] = EntrySet(tb, t, i, ToTable(b))[u]
      BY <1>0, <2>1
    <3>2. EntrySet(tb, t, i, ToTable(b))[u] =
            IF u = t THEN [tb[t] EXCEPT ![i] = ToTable(b)] ELSE tb[u]
      BY DEF EntrySet
    <3>. QED BY <2>1, <3>1, <3>2
  <2>4. new[b] = [j \in IndicesOf(b) |-> None]
    BY <1>0, <1>1
  <2>. QED BY <2>2, <2>3, <2>4
<1>3. \A u \in DOMAIN tb : u # b /\ level[u] = lv[u]
  BY <1>0
<1>4. level[b] = lv[t] - 1 /\ lv[t] \in 1..2
  BY <1>0 DEF TableTree
<1>5. \A u \in DOMAIN new : level[u] \in 0..2 /\ (level[u] = 2 <=> u = RootTable)
  BY <1>1, <1>2, <1>3, <1>4 DEF TableTree
<1>6. \A u \in DOMAIN tb : \A j \in IndicesOf(u) : tb[u][j] # ToTable(b)
  <2>. SUFFICES ASSUME NEW u \in DOMAIN tb, NEW j \in IndicesOf(u), tb[u][j] = ToTable(b)
                PROVE  FALSE
    OBVIOUS
  <2>1. tb[u][j].kind = "table"
    BY Kinds
  <2>2. PICK c \in DOMAIN tb : tb[u][j] = ToTable(c)
    BY <2>1 DEF TableTree
  <2>. QED BY <2>2, Kinds
<1>7. LedFrom(new, b, t, i)
  <2>1. \A j \in IndicesOf(b) : new[b][j] # ToTable(b)
    BY <1>2, Kinds
  <2>2. \A u \in DOMAIN tb : \A j \in IndicesOf(u) :
          new[u][j] = ToTable(b) <=> u = t /\ j = i
    BY <1>2, <1>6
  <2>. QED BY <1>2, <1>3, <2>1, <2>2 DEF LedFrom
<1>8. ASSUME NEW c \in DOMAIN tb \ {RootTable} PROVE \E u, j : LedFrom(new, c, u, j)
  <2>1. PICK u, j : LedFrom(tb, c, u, j)
    BY DEF TableTree
  <2>2. tb[t][i] # ToTable(c) /\ ToTable(b) # ToTable(c) /\ None # ToTable(c)
    BY <1>3, Kinds
  <2>3. \A v \in DOMAIN new : \A k \in IndicesOf(v) :
          new[v][k] = ToTable(c) <=> v = u /\ k = j
    <3>1. ASSUME NEW v \in DOMAIN tb, NEW k \in IndicesOf(v)
          PROVE  new[v][k] = ToTable(c) <=> v = u /\ k = j
      <4>1. tb[v][k] = ToTable(c) <=> v = u /\ k = j
        BY <2>1 DEF LedFrom
      <4>2. new[v][k] = ToTable(c) <=> tb[v][k] = ToTable(c)
        BY <1>2, <2>2
      <4>. QED BY <4>1, <4>2
    <3>2. \A k \in IndicesOf(b) : new[b][k] # ToTable(c)
      BY <1>2, <2>2
    <3>3. u \in DOMAIN tb
      BY <2>1 DEF LedFrom
    <3>. QED BY <1>2, <1>3, <3>1, <3>2, <3>3
  <2>4. LedFrom(new, c, u, j)
    BY <1>2, <2>1, <2>3 DEF LedFrom
  <2>. QED BY <2>4
<1>9. ASSUME NEW u \in DOMAIN new, NEW j \in IndicesOf(u), new[u][j].kind = "table"
      PROVE  \E c \in DOMAIN new \ {RootTable} : new[u][j] = ToTable(c) /\ level[u] = level[c] + 1
  <2>1. u # b
    BY <1>2, <1>9, Kinds
  <2>2. CASE u = t /\ j = i
    <3>1. new[u][j] = ToTable(b) /\ level[u] = level[b] + 1
      BY <1>2, <1>3, <1>4, <2>2
    <3>. QED BY <1>1, <1>2, <3>1
  <2>3. CASE ~(u = t /\ j = i)
    <3>1. u \in DOMAIN tb /\ new[u][j] = tb[u][j]
      BY <1>2, <2>1, <2>3
    <3>2. PICK c \in DOMAIN tb \ {RootTable} : tb[u][j] = ToTable(c) /\ lv[u] = lv[c] + 1
      BY <1>9, <3>1 DEF TableTree
    <3>. QED BY <1>2, <1>3, <3>1, <3>2
  <2>. QED BY <2>2, <2>3
<1>10. ASSUME NEW c \in DOMAIN new \ {RootTable} PROVE \E u, j : LedFrom(new, c, u, j)
  <2>1. CASE c = b
    BY <1>7, <2>1
  <2>2. CASE c # b
    <3>1. c \in DOMAIN tb \ {RootTable}
      BY <1>2, <2>2
    <3>. QED BY <1>8, <3>1
  <2>. QED BY <2>1, <2>2
<1>11. RootTable \in DOMAIN new
  BY <1>2 DEF TableTree
<1>12. TableTree(new, level)
  BY <1>2, <1>5, <1>9, <1>10, <1>11 DEF TableTree
<1>. QED BY <1>12 DEF new, level

\* A tree of tables in memory, the walk in it, and the jobs that are left: one
\* for pieces of the second level comes before there are tables of the last.
Walked(lv) ==
  /\ TableTree(tables, lv)
  /\ at.table \in DOMAIN tables /\ lv[at.table] = at.level
  /\ (\E i \in DOMAIN jobs : jobs[i].leaf = 1) => \A t \in DOMAIN tables : lv[t] # 0

Jobs ==
  [vpage : Int, page : Int, pages : Int, prot : {"kernel", "ram", "mmio"}, leaf : {0, 1}]

TablesInv ==
  /\ at \in [offset : Int, level : Int, table : Int]
  /\ ram \in [first : Int, pages : Int]
  /\ jobs \in Seq(Jobs)
  /\ \A i, j \in DOMAIN jobs : jobs[i].leaf = jobs[j].leaf
  /\ windows \in Seq([vpage : Int, first : Int, pages : Int])
  /\ stage \notin {"devices", "ready"} => jobs = << >> /\ DOMAIN tables = {RootTable}
  /\ DOMAIN tables \ {RootTable} \subseteq DOMAIN held
  /\ \E lv : Walked(lv)

\* What the device tree says of the memory and of devices, and where the kernel
\* lies, are numbers.
NumbersGiven ==
  /\ board.kernel.addr \in Int /\ board.kernel.size \in Int
  /\ fdt_reg_property(MemoryNode) \in [addr : Int, size : Int]
  /\ \A i \in DOMAIN DeviceNodes : fdt_reg_property(DeviceNodes[i]) \in [addr : Int, size : Int]

LEMMA TableNumbers ==
  /\ RootTable \in Int /\ RootTable \notin Pages
  /\ Span(0) \in Nat \ {0} /\ Span(1) \in Nat \ {0} /\ Span(2) \in Nat \ {0}
  /\ \A page \in Int : \A level \in 0..2 : \A t : (level = 2 <=> t = RootTable) =>
       Index(page, level) \in IndicesOf(t)
<1>1. /\ Entries \in Nat /\ Entries > 1 /\ RootEntries \in Nat /\ RootEntries > 0
      /\ Entries * Entries \in Nat \ {0}
  <2>1. Entries \in Nat /\ Entries > 1 /\ RootEntries \in Nat /\ RootEntries > 0
    BY EntriesAssumption
  <2>. QED BY <2>1
<1>2. Span(0) = 1 /\ Span(1) = Entries /\ Span(2) = Entries * Entries
  BY DEF Span
<1>3. RootTable \in Int /\ RootTable \notin Pages
  BY PageAssumption DEF RootTable, Pages
<1>4. ASSUME NEW page \in Int, NEW level \in 0..2, NEW t, level = 2 <=> t = RootTable
      PROVE  Index(page, level) \in IndicesOf(t)
  <2>1. Span(level) \in Nat \ {0}
    <3>1. level = 0 \/ level = 1 \/ level = 2
      OBVIOUS
    <3>. QED BY <1>1, <1>2, <3>1
  <2>2. page \div Span(level) \in Int
    BY <2>1
  <2>3. CASE level = 2
    <3>1. (page \div Span(2)) % RootEntries \in 0..(RootEntries - 1)
      BY <1>1, <2>2, <2>3
    <3>. QED BY <1>4, <2>3, <3>1 DEF Index, PgdIndex, IndicesOf
  <2>4. CASE level # 2
    <3>1. (page \div Span(level)) % Entries \in 0..(Entries - 1)
      BY <1>1, <2>2
    <3>. QED BY <1>4, <2>4, <3>1 DEF Index, IndicesOf
  <2>. QED BY <2>3, <2>4
<1>. QED BY <1>1, <1>2, <1>3, <1>4

\* The entry the walk is at.
LEMMA WalkEntry ==
  ASSUME TablesInv, jobs # << >>, NEW lv, Walked(lv)
  PROVE  /\ jobs[1] \in Jobs /\ Tail(jobs) \in Seq(Jobs)
         /\ \A i \in DOMAIN Tail(jobs) : \E j \in DOMAIN jobs : Tail(jobs)[i] = jobs[j]
         /\ at.table \in DOMAIN tables /\ at.level = lv[at.table] /\ at.level \in 0..2
         /\ at.offset \in Int
         /\ Index(VPage, at.level) \in IndicesOf(at.table)
<1>1. jobs \in Seq(Jobs) /\ Len(jobs) \in Nat /\ Len(jobs) > 0 /\ jobs[1] \in Jobs
  BY DEF TablesInv
<1>2. /\ Tail(jobs) \in Seq(Jobs)
      /\ \A i \in DOMAIN Tail(jobs) : i + 1 \in DOMAIN jobs /\ Tail(jobs)[i] = jobs[i + 1]
  BY <1>1
<1>3. /\ at.table \in DOMAIN tables /\ at.level = lv[at.table] /\ at.level \in 0..2
      /\ (at.level = 2 <=> at.table = RootTable)
  BY DEF Walked, TableTree
<1>4. at.offset \in Int /\ jobs[1].vpage \in Int
  BY <1>1 DEF TablesInv, Jobs
<1>5. VPage \in Int
  BY <1>4 DEF VPage
<1>6. Index(VPage, at.level) \in IndicesOf(at.table)
  BY <1>3, <1>5, TableNumbers
<1>. QED BY <1>1, <1>2, <1>3, <1>4, <1>6

\* The root alone is a tree.
LEMMA RootAlone ==
  ASSUME NEW tb, DOMAIN tb = {RootTable}, tb[RootTable] = [i \in IndicesOf(RootTable) |-> tb[RootTable][i]],
         \A i \in IndicesOf(RootTable) : tb[RootTable][i].kind # "table"
  PROVE  TableTree(tb, [t \in {RootTable} |-> 2])
BY DEF TableTree

\* A step that leaves tables and mappings alone.
LEMMA TablesStay ==
  ASSUME TablesInv, UNCHANGED map_vars, DOMAIN tables \ {RootTable} \subseteq DOMAIN held',
         stage' \notin {"devices", "ready"} => stage \notin {"devices", "ready"}
  PROVE  TablesInv'
<1>1. PICK lv : Walked(lv)
  BY DEF TablesInv
<1>2. Walked(lv)'
  BY <1>1 DEF Walked, map_vars
<1>. QED BY <1>2 DEF TablesInv, map_vars

\* The large pieces of virtual_memory_setup.
LEMMA TablesSetUp ==
  ASSUME TablesInv, NumbersGiven, virtual_memory_setup
  PROVE  TablesInv'
<1>1. /\ stage = "entry" /\ stage' \notin {"devices", "ready"}
      /\ UNCHANGED <<held, jobs, at, windows>>
  BY DEF virtual_memory_setup, vars
<1>2. jobs = << >> /\ DOMAIN tables = {RootTable}
  BY <1>1 DEF TablesInv
<1>3. CASE UNCHANGED <<ram, tables>>
  <2>1. UNCHANGED map_vars
    BY <1>1, <1>3 DEF map_vars
  <2>2. DOMAIN tables \ {RootTable} \subseteq DOMAIN held'
    BY <1>2
  <2>. QED BY <1>1, <2>1, <2>2, TablesStay
<1>4. CASE ~ UNCHANGED <<ram, tables>>
  <2>. DEFINE reg == fdt_reg_property(MemoryNode)
              last(base, i) == Max({-1} \cup {n \in Pieces' : PgdIndex(base + n) = i})
              root == [i \in 0..(RootEntries - 1) |->
                   IF i = PgdIndex(0) THEN Leaf(0, "mmio")
                   ELSE IF last(KernelBase, i) < last(ram'.first, i)
                   THEN Leaf(ram'.first + last(ram'.first, i), "identity")
                   ELSE IF last(KernelBase, i) # -1
                   THEN Leaf(ram'.first + last(KernelBase, i), "kernel")
                   ELSE None]
  <2>1. /\ ram' = [first |-> reg.addr \div PageSize, pages |-> reg.size \div PageSize]
        /\ tables' = [t \in {RootTable} |-> root]
    BY <1>4 DEF virtual_memory_setup
  <2>2. ram' \in [first : Int, pages : Int]
    <3>1. reg \in [addr : Int, size : Int] /\ PageSize \in Nat \ {0}
      BY PageAssumption DEF NumbersGiven
    <3>. HIDE DEF reg
    <3>. QED BY <2>1, <3>1
  <2>3. \A i \in 0..(RootEntries - 1) : root[i].kind # "table"
    <3>. SUFFICES ASSUME NEW i \in 0..(RootEntries - 1) PROVE root[i].kind # "table"
      OBVIOUS
    <3>1. (\E page, prot : root[i] = Leaf(page, prot)) \/ root[i] = None
      OBVIOUS
    <3>. HIDE DEF root
    <3>. QED BY <3>1, Kinds
  <2>4. root = [i \in IndicesOf(RootTable) |-> root[i]] /\ IndicesOf(RootTable) = 0..(RootEntries - 1)
    BY DEF IndicesOf
  <2>. HIDE DEF root
  <2>. DEFINE lv == [t \in {RootTable} |-> 2]
  <2>5. DOMAIN tables' = {RootTable} /\ tables'[RootTable] = root
    BY <2>1
  <2>6. TableTree(tables', lv)
    BY <2>3, <2>4, <2>5, RootAlone
  <2>7. at.table = RootTable /\ at.level = 2
    <3>1. PICK l : Walked(l)
      BY DEF TablesInv
    <3>. QED BY <1>2, <3>1 DEF Walked, TableTree
  <2>8. Walked(lv)'
    <3>1. lv[RootTable] = 2 /\ \A t \in {RootTable} : lv[t] # 0
      OBVIOUS
    <3>. HIDE DEF lv
    <3>. QED BY <1>1, <2>5, <2>6, <2>7, <3>1 DEF Walked
  <2>. HIDE DEF lv
  <2>. QED BY <1>1, <1>2, <2>2, <2>5, <2>8 DEF TablesInv
<1>. QED BY <1>3, <1>4

\* The identity mapping goes.
LEMMA IdentityDropped ==
  ASSUME TablesInv, virtual_memory_drop_identity_mapping
  PROVE  TablesInv'
<1>1. /\ stage = "populate" /\ stage' = "refine"
      /\ tables' = [tables EXCEPT ![RootTable] =
           [i \in DOMAIN @ |-> IF i < RootEntries \div 2 THEN None ELSE @[i]]]
      /\ UNCHANGED <<held, ram, jobs, at, windows>>
  BY DEF virtual_memory_drop_identity_mapping, vars
<1>2. jobs = << >> /\ DOMAIN tables = {RootTable}
  BY <1>1 DEF TablesInv
<1>3. PICK lv : Walked(lv)
  BY DEF TablesInv
<1>4. /\ tables[RootTable] = [i \in IndicesOf(RootTable) |-> tables[RootTable][i]]
      /\ \A i \in IndicesOf(RootTable) : tables[RootTable][i].kind # "table"
      /\ at.table = RootTable /\ at.level = 2
  BY <1>2, <1>3 DEF Walked, TableTree
<1>. DEFINE new == [t \in {RootTable} |-> 2]
<1>5. TableTree(tables', new)
  <2>1. /\ DOMAIN tables' = {RootTable}
        /\ tables'[RootTable] = [i \in IndicesOf(RootTable) |->
             IF i < RootEntries \div 2 THEN None ELSE tables[RootTable][i]]
    BY <1>1, <1>2, <1>4
  <2>2. \A i \in IndicesOf(RootTable) : tables'[RootTable][i].kind # "table"
    BY <1>4, <2>1, Kinds
  <2>. QED BY <2>1, <2>2, RootAlone
<1>6. DOMAIN tables' = {RootTable}
  BY <1>1, <1>2
<1>7. Walked(new)'
  <2>1. new[RootTable] = 2 /\ \A t \in {RootTable} : new[t] # 0
    OBVIOUS
  <2>. HIDE DEF new
  <2>. QED BY <1>1, <1>4, <1>5, <1>6, <2>1 DEF Walked
<1>. HIDE DEF new
<1>. QED BY <1>1, <1>2, <1>6, <1>7 DEF TablesInv

\* The mappings to be made in pieces of the second level.
LEMMA RefineJobsGiven ==
  ASSUME TablesInv, NumbersGiven, virtual_memory_refine_mappings
  PROVE  TablesInv'
<1>1. /\ stage = "refine" /\ stage' = "devices" /\ jobs' = RefineJobs
      /\ UNCHANGED <<held, ram, tables, at, windows>>
  BY DEF virtual_memory_refine_mappings, vars
<1>2. jobs = << >> /\ DOMAIN tables = {RootTable}
  BY <1>1 DEF TablesInv
<1>3. PICK lv : Walked(lv)
  BY DEF TablesInv
<1>4. ASSUME NEW vpage \in Int, NEW page \in Int, NEW pages \in Int, NEW prot \in {"kernel", "ram", "mmio"}
      PROVE  Job(vpage, page, pages, prot, 1) \in Seq({job \in Jobs : job.leaf = 1})
  <2>. DEFINE job == [vpage |-> vpage, page |-> page, pages |-> pages, prot |-> prot, leaf |-> 1]
  <2>1. job \in Jobs /\ job.leaf = 1
    BY DEF Jobs
  <2>2. Job(vpage, page, pages, prot, 1) = << >> \/ Job(vpage, page, pages, prot, 1) = <<job>>
    BY DEF Job
  <2>3. job \in {j \in Jobs : j.leaf = 1}
    BY <2>1
  <2>. HIDE DEF job
  <2>4. <<job>> \in Seq({j \in Jobs : j.leaf = 1}) /\ << >> \in Seq({j \in Jobs : j.leaf = 1})
    BY <2>3
  <2>. QED BY <2>2, <2>4
<1>5. RefineJobs \in Seq({job \in Jobs : job.leaf = 1})
  <2>1. /\ PageSize \in Nat \ {0} /\ VirtualBase \in Int /\ KernelBase \in Int
        /\ ram.first \in Int /\ ram.pages \in Int
        /\ board.kernel.addr \in Int /\ board.kernel.size \in Int
    BY PageAssumption, EntriesAssumption, HeaderAssumption DEF TablesInv, NumbersGiven
  <2>2. KernelFirst \in Int /\ KernelPages \in Int /\ KernelVFirst \in Int
    BY <2>1 DEF KernelFirst, KernelPages, KernelVFirst
  <2>3. /\ Job(KernelVFirst, KernelFirst, KernelPages, "kernel", 1) \in Seq({job \in Jobs : job.leaf = 1})
        /\ Job(KernelBase, ram.first, KernelFirst - ram.first, "ram", 1) \in Seq({job \in Jobs : job.leaf = 1})
        /\ Job(KernelBase + KernelFirst + KernelPages - ram.first, KernelFirst + KernelPages,
               ram.first + ram.pages - KernelFirst - KernelPages, "ram", 1) \in Seq({job \in Jobs : job.leaf = 1})
    <3>1. /\ KernelFirst - ram.first \in Int /\ KernelFirst + KernelPages \in Int
          /\ KernelBase + KernelFirst + KernelPages - ram.first \in Int
          /\ ram.first + ram.pages - KernelFirst - KernelPages \in Int
      BY <2>1, <2>2
    <3>. QED BY <1>4, <2>1, <2>2, <3>1
  <2>. QED BY <2>3 DEF RefineJobs
<1>6. Walked(lv)'
  <2>1. \A t \in DOMAIN tables : lv[t] # 0
    BY <1>2, <1>3 DEF Walked, TableTree
  <2>. QED BY <1>1, <1>3, <2>1 DEF Walked
<1>7. jobs' \in Seq(Jobs) /\ \A i, j \in DOMAIN jobs' : jobs'[i].leaf = jobs'[j].leaf
  <2>1. jobs' \in Seq({job \in Jobs : job.leaf = 1})
    BY <1>1, <1>5
  <2>. QED BY <2>1
<1>. QED BY <1>1, <1>6, <1>7 DEF TablesInv

\* The walk goes down into a table.
LEMMA EntryFollowed ==
  ASSUME BootInv, TablesInv, FollowEntry
  PROVE  TablesInv'
<1>1. /\ jobs # << >> /\ at.level > jobs[1].leaf /\ Entry.kind = "table"
      /\ at' = [at EXCEPT !.level = @ - 1, !.table = Entry.block]
      /\ UNCHANGED <<stage, held, ram, tables, jobs, windows>>
  BY DEF FollowEntry, boot_vars, setup_vars, vars
<1>2. PICK lv : Walked(lv)
  BY DEF TablesInv
<1>3. /\ at.table \in DOMAIN tables /\ at.level = lv[at.table] /\ at.level \in 0..2
      /\ Index(VPage, at.level) \in IndicesOf(at.table)
  BY <1>1, <1>2, WalkEntry
<1>4. PICK b \in DOMAIN tables \ {RootTable} : Entry = ToTable(b) /\ at.level = lv[b] + 1
  BY <1>1, <1>2, <1>3 DEF Entry, Walked, TableTree
<1>5. Entry.block = b
  BY <1>4 DEF ToTable
<1>6. b \in Int
  <2>1. b \in DOMAIN held
    BY <1>4 DEF TablesInv
  <2>2. b \in Pages
    BY <2>1 DEF BootInv, PageInv
  <2>. QED BY <2>2, PageAssumption DEF Pages
<1>7. at' \in [offset : Int, level : Int, table : Int] /\ at'.table = b /\ at'.level = at.level - 1
  <2>1. at \in [offset : Int, level : Int, table : Int] /\ at.level - 1 \in Int
    BY <1>3 DEF TablesInv
  <2>2. at' = [at EXCEPT !.level = at.level - 1, !.table = b]
    BY <1>1, <1>5
  <2>. QED BY <1>6, <2>1, <2>2
<1>8. Walked(lv)'
  <2>1. lv[b] \in 0..2
    BY <1>2, <1>4 DEF Walked, TableTree
  <2>2. lv[at'.table] = at'.level
    BY <1>3, <1>4, <1>7, <2>1
  <2>. QED BY <1>1, <1>2, <1>4, <1>7, <2>2 DEF Walked
<1>. QED BY <1>1, <1>7, <1>8 DEF TablesInv

\* A new table in the place of an entry that led to none.
LEMMA TableAllocated ==
  ASSUME BootInv, TablesInv, AllocateTable
  PROVE  TablesInv'
<1>1. /\ jobs # << >> /\ at.level > jobs[1].leaf /\ Entry.kind # "table"
      /\ memory_allocate_pages(TableSize)
      /\ UNCHANGED <<stage, ram, jobs, windows>>
  BY DEF AllocateTable, setup_vars
<1>2. PICK block \in Pages : block \notin DOMAIN held /\ DOMAIN held' = DOMAIN held \cup {block}
  <2>1. TableSize \in Nat
    BY PageAssumption DEF TableSize
  <2>. QED BY <1>1, <2>1, PagesAllocated DEF BootInv
<1>3. NewTable = block
  BY <1>2 DEF NewTable
<1>4. /\ tables' = [t \in DOMAIN tables \cup {block} |->
           IF t = block THEN [i \in 0..(Entries - 1) |-> None]
           ELSE SetEntry(ToTable(block))[t]]
      /\ at' = [at EXCEPT !.level = @ - 1, !.table = block]
  BY <1>3 DEF AllocateTable
<1>5. block \in Int /\ block # RootTable
  BY <1>2, TableNumbers, PageAssumption DEF Pages
<1>6. PICK lv : Walked(lv)
  BY DEF TablesInv
<1>7. /\ at.table \in DOMAIN tables /\ at.level = lv[at.table] /\ at.level \in 0..2
      /\ Index(VPage, at.level) \in IndicesOf(at.table)
      /\ jobs[1] \in Jobs
  BY <1>1, <1>6, WalkEntry
<1>8. block \notin DOMAIN tables
  BY <1>2, <1>5 DEF TablesInv
<1>9. jobs[1].leaf \in {0, 1} /\ lv[at.table] # 0
  BY <1>1, <1>7 DEF Jobs
<1>0. PICK level : level = LevelsWith(tables, lv, at.table, block)
  OBVIOUS
<1>10. TableTree(tables', level)
  <2>1. tables' = WithTable(tables, at.table, Index(VPage, at.level), block)
    BY <1>4 DEF SetEntry, EntrySet, WithTable
  <2>2. tables[at.table][Index(VPage, at.level)].kind # "table" /\ TableTree(tables, lv)
    BY <1>1, <1>6 DEF Entry, Walked
  <2>. QED BY <1>0, <1>7, <1>8, <1>9, <2>1, <2>2, TableAdded
<1>11. DOMAIN tables' = DOMAIN tables \cup {block}
  BY <1>4
<1>12. /\ at' \in [offset : Int, level : Int, table : Int]
       /\ at'.table = block /\ at'.level = at.level - 1
  <2>1. at \in [offset : Int, level : Int, table : Int] /\ at.level - 1 \in Int
    BY <1>7 DEF TablesInv
  <2>2. at' = [at EXCEPT !.level = at.level - 1, !.table = block]
    BY <1>4
  <2>. QED BY <1>5, <2>1, <2>2
<1>13. Walked(level)'
  <2>1. level[at'.table] = at'.level
    BY <1>0, <1>7, <1>12 DEF LevelsWith
  <2>2. ASSUME \E i \in DOMAIN jobs : jobs[i].leaf = 1, NEW t \in DOMAIN tables'
        PROVE  level[t] # 0
    <3>1. CASE t # block
      <4>1. t \in DOMAIN tables /\ level[t] = lv[t]
        BY <1>0, <1>11, <3>1 DEF LevelsWith
      <4>. QED BY <1>6, <2>2, <4>1 DEF Walked
    <3>2. CASE t = block
      <4>1. jobs[1].leaf = 1
        BY <1>1, <2>2 DEF TablesInv
      <4>2. lv[at.table] = 2
        BY <1>1, <1>7, <4>1
      <4>. QED BY <1>0, <3>2, <4>2 DEF LevelsWith
    <3>. QED BY <3>1, <3>2
  <2>3. (\E i \in DOMAIN jobs' : jobs'[i].leaf = 1) => \A t \in DOMAIN tables' : level[t] # 0
    BY <1>1, <2>2
  <2>4. at'.table \in DOMAIN tables'
    BY <1>11, <1>12
  <2>. QED BY <1>10, <2>1, <2>3, <2>4 DEF Walked
<1>14. jobs' # << >> /\ (stage \notin {"devices", "ready"} => jobs = << >>)
  BY <1>1 DEF TablesInv
<1>15. DOMAIN tables' \ {RootTable} \subseteq DOMAIN held'
  BY <1>2, <1>11 DEF TablesInv
<1>. QED BY <1>1, <1>12, <1>13, <1>14, <1>15 DEF TablesInv

\* A leaf in the place of an entry that led to no table.
LEMMA LeafMade ==
  ASSUME TablesInv, SetLeaf
  PROVE  TablesInv'
<1>1. /\ jobs # << >> /\ at.level = jobs[1].leaf
      /\ tables' = SetEntry(Leaf(jobs[1].page + at.offset, jobs[1].prot))
      /\ \/ jobs' = jobs /\ at' = [Start EXCEPT !.offset = at.offset + Span(at.level)]
         \/ jobs' = Tail(jobs) /\ at' = Start
      /\ UNCHANGED <<stage, held, ram, windows>>
  BY DEF SetLeaf, boot_vars, setup_vars, vars
<1>2. PICK lv : Walked(lv)
  BY DEF TablesInv
<1>3. /\ at.table \in DOMAIN tables /\ at.level = lv[at.table] /\ at.level \in 0..2
      /\ Index(VPage, at.level) \in IndicesOf(at.table)
      /\ jobs[1] \in Jobs /\ Tail(jobs) \in Seq(Jobs) /\ at.offset \in Int
      /\ \A i \in DOMAIN Tail(jobs) : \E j \in DOMAIN jobs : Tail(jobs)[i] = jobs[j]
  BY <1>1, <1>2, WalkEntry
<1>4. Entry.kind # "table"
  <2>1. SUFFICES ASSUME Entry.kind = "table" PROVE FALSE
    OBVIOUS
  <2>2. PICK b \in DOMAIN tables \ {RootTable} : lv[at.table] = lv[b] + 1
    BY <1>2, <1>3, <2>1 DEF Entry, Walked, TableTree
  <2>3. lv[b] \in 0..2
    BY <1>2, <2>2 DEF Walked, TableTree
  <2>4. jobs[1].leaf = 1 /\ lv[b] = 0
    <3>1. jobs[1].leaf \in {0, 1}
      BY <1>3 DEF Jobs
    <3>. QED BY <1>1, <1>3, <2>2, <2>3, <3>1
  <2>5. 1 \in DOMAIN jobs
    BY <1>1 DEF TablesInv
  <2>. QED BY <1>2, <2>2, <2>4, <2>5 DEF Walked
<1>5. TableTree(tables', lv)
  <2>1. tables' = EntrySet(tables, at.table, Index(VPage, at.level),
                           Leaf(jobs[1].page + at.offset, jobs[1].prot))
    BY <1>1 DEF SetEntry, EntrySet
  <2>2. /\ tables[at.table][Index(VPage, at.level)].kind # "table"
        /\ Leaf(jobs[1].page + at.offset, jobs[1].prot).kind # "table"
        /\ TableTree(tables, lv)
    BY <1>2, <1>4, Kinds DEF Entry, Walked
  <2>. QED BY <1>3, <2>1, <2>2, LeafSet
<1>6. DOMAIN tables' = DOMAIN tables
  BY <1>1 DEF SetEntry
<1>7. /\ jobs' \in Seq(Jobs)
      /\ \A i \in DOMAIN jobs' : \E j \in DOMAIN jobs : jobs'[i] = jobs[j]
      /\ \A i, j \in DOMAIN jobs' : jobs'[i].leaf = jobs'[j].leaf
  <2>1. /\ jobs' \in Seq(Jobs)
        /\ \A i \in DOMAIN jobs' : \E j \in DOMAIN jobs : jobs'[i] = jobs[j]
    <3>1. jobs \in Seq(Jobs)
      BY DEF TablesInv
    <3>2. CASE jobs' = jobs
      BY <3>1, <3>2
    <3>3. CASE jobs' = Tail(jobs)
      BY <1>3, <3>3
    <3>. QED BY <1>1, <3>2, <3>3
  <2>2. ASSUME NEW i \in DOMAIN jobs', NEW j \in DOMAIN jobs' PROVE jobs'[i].leaf = jobs'[j].leaf
    <3>1. PICK k \in DOMAIN jobs : jobs'[i] = jobs[k]
      BY <2>1
    <3>2. PICK l \in DOMAIN jobs : jobs'[j] = jobs[l]
      BY <2>1
    <3>3. jobs[k].leaf = jobs[l].leaf
      BY DEF TablesInv
    <3>. QED BY <3>1, <3>2, <3>3
  <2>. QED BY <2>1, <2>2
<1>8. /\ at' \in [offset : Int, level : Int, table : Int]
      /\ at'.table = RootTable /\ at'.level = 2
  <2>1. Span(at.level) \in Int
    <3>1. at.level = 0 \/ at.level = 1 \/ at.level = 2
      BY <1>3
    <3>. QED BY <3>1, TableNumbers
  <2>. QED BY <1>1, <1>3, <2>1, TableNumbers DEF Start
<1>9. Walked(lv)'
  <2>1. RootTable \in DOMAIN tables /\ lv[RootTable] = 2
    BY <1>2 DEF Walked, TableTree
  <2>2. (\E i \in DOMAIN jobs' : jobs'[i].leaf = 1) => \A t \in DOMAIN tables : lv[t] # 0
    BY <1>2, <1>7 DEF Walked
  <2>. QED BY <1>5, <1>6, <1>8, <2>1, <2>2 DEF Walked
<1>10. stage \in {"devices", "ready"}
  BY <1>1 DEF TablesInv
<1>. QED BY <1>1, <1>6, <1>7, <1>8, <1>9, <1>10 DEF TablesInv

\* A window for a device behind the last one.
LEMMA WindowOpened ==
  ASSUME TablesInv, NumbersGiven, SetUpDevice
  PROVE  TablesInv'
<1>. DEFINE reg == fdt_reg_property(DeviceNodes[Len(windows) + 1])
            window == [vpage |-> NextWindow, first |-> reg.addr \div PageSize,
                       pages |-> (reg.size + PageSize - 1) \div PageSize]
            job == [vpage |-> window.vpage, page |-> window.first, pages |-> window.pages,
                    prot |-> "mmio", leaf |-> 0]
<1>1. /\ stage = "devices" /\ jobs = << >> /\ Len(windows) < Len(DeviceNodes)
      /\ windows' = Append(windows, window)
      /\ jobs' = << >> \/ jobs' = <<job>>
      /\ UNCHANGED <<stage, held, ram, tables, at>>
  BY DEF SetUpDevice, virtual_memory_map_mmio, Job, boot_vars, setup_vars, vars
<1>2. PICK lv : Walked(lv)
  BY DEF TablesInv
<1>3. windows \in Seq([vpage : Int, first : Int, pages : Int]) /\ Len(windows) \in Nat
  BY DEF TablesInv
<1>4. window \in [vpage : Int, first : Int, pages : Int]
  <2>1. Len(windows) + 1 \in DOMAIN DeviceNodes
    BY <1>1, <1>3 DEF DeviceNodes
  <2>2. reg \in [addr : Int, size : Int] /\ PageSize \in Nat \ {0}
    BY <2>1, PageAssumption DEF NumbersGiven
  <2>3. NextWindow \in Int
    <3>1. MmioBase \in Int
      <4>1. /\ ram.pages \in Int /\ KernelBase \in Int /\ Span(2) \in Nat \ {0}
        BY TableNumbers, EntriesAssumption DEF TablesInv
      <4>2. (ram.pages + Span(2) - 1) \div Span(2) \in Int
        BY <4>1
      <4>. QED BY <4>1, <4>2 DEF MmioBase
    <3>2. windows # << >> => windows[Len(windows)] \in [vpage : Int, first : Int, pages : Int]
      <4>1. windows # << >> => Len(windows) \in DOMAIN windows
        BY <1>3
      <4>2. \A i \in DOMAIN windows : windows[i] \in [vpage : Int, first : Int, pages : Int]
        <5>. DEFINE W == [vpage : Int, first : Int, pages : Int]
        <5>1. windows \in Seq(W)
          BY <1>3
        <5>. HIDE DEF W
        <5>2. \A i \in DOMAIN windows : windows[i] \in W
          BY <5>1
        <5>. QED BY <5>2 DEF W
      <4>. QED BY <4>1, <4>2
    <3>. QED BY <3>1, <3>2 DEF NextWindow
  <2>. HIDE DEF reg
  <2>4. reg.addr \div PageSize \in Int /\ (reg.size + PageSize - 1) \div PageSize \in Int
    BY <2>2
  <2>. QED BY <2>3, <2>4
<1>. HIDE DEF window
<1>5. job \in Jobs /\ job.leaf = 0
  BY <1>4 DEF Jobs
<1>. HIDE DEF job
<1>6. /\ jobs' \in Seq(Jobs)
      /\ \A i, j \in DOMAIN jobs' : jobs'[i].leaf = jobs'[j].leaf
      /\ \A i \in DOMAIN jobs' : jobs'[i].leaf # 1
  <2>1. CASE jobs' = << >>
    BY <2>1
  <2>2. CASE jobs' = <<job>>
    BY <1>5, <2>2
  <2>. QED BY <1>1, <2>1, <2>2
<1>7. windows' \in Seq([vpage : Int, first : Int, pages : Int])
  BY <1>1, <1>3, <1>4
<1>8. Walked(lv)'
  BY <1>1, <1>2, <1>6 DEF Walked
<1>. QED BY <1>1, <1>6, <1>7, <1>8 DEF TablesInv

\* Blocks are taken and given back by others only when the tables are made, and
\* nobody gives back the block of a table.
LEMMA TablesStayHeld ==
  ASSUME BootInv, TablesInv, Setup \/ Boot \/ Run \/ UNCHANGED kernel_vars
  PROVE  /\ UNCHANGED map_vars /\ DOMAIN tables \ {RootTable} \subseteq DOMAIN held'
         /\ stage' \notin {"devices", "ready"} => stage \notin {"devices", "ready"}
<1>1. CASE Setup
  <2>1. UNCHANGED map_vars
    BY <1>1 DEF Setup
  <2>2. stage \in {"initrd", "memory", "reserve", "populate"}
    BY <1>1 DEF Setup, FindRamdisk, FindMemory, ReserveNode, memory_init
  <2>3. DOMAIN tables \ {RootTable} = {}
    BY <2>2 DEF TablesInv
  <2>. QED BY <2>1, <2>2, <2>3
<1>2. CASE Boot
  BY <1>2 DEF Boot, TablesInv, vars
<1>3. CASE UNCHANGED kernel_vars
  BY <1>3 DEF TablesInv, kernel_vars, boot_vars, setup_vars, vars
<1>4. CASE Run
  <2>1. UNCHANGED map_vars /\ UNCHANGED stage
    BY <1>4 DEF Run, setup_vars
  <2>2. ASSUME NEW size \in Sizes, memory_allocate_pages(size)
        PROVE  DOMAIN tables \ {RootTable} \subseteq DOMAIN held'
    <3>1. size \in Nat
      BY PageAssumption
    <3>2. \E block \in Pages : DOMAIN held' = DOMAIN held \cup {block}
      BY <2>2, <3>1, PagesAllocated DEF BootInv
    <3>. QED BY <3>2 DEF TablesInv
  <2>3. ASSUME NEW size \in Sizes, AllocateFails(size)
        PROVE  DOMAIN tables \ {RootTable} \subseteq DOMAIN held'
    BY <2>3 DEF AllocateFails, TablesInv, vars
  <2>4. ASSUME NEW block \in Pages \ DOMAIN tables, Release(block)
        PROVE  DOMAIN tables \ {RootTable} \subseteq DOMAIN held'
    <3>1. DOMAIN held' = DOMAIN held \ {block}
      BY <2>4 DEF Release
    <3>. QED BY <3>1 DEF TablesInv
  <2>. QED BY <1>4, <2>1, <2>2, <2>3, <2>4 DEF Run
<1>. QED BY <1>1, <1>2, <1>3, <1>4

\* The tables are a tree whatever is mapped.
THEOREM TablesKept == KernelSpec /\ []NumbersGiven => []TablesInv
<1>1. KernelInit => TablesInv
  <2>. SUFFICES ASSUME KernelInit PROVE TablesInv
    OBVIOUS
  <2>1. /\ stage = "entry" /\ at = Start /\ jobs = << >> /\ windows = << >>
        /\ ram = [first |-> 0, pages |-> 0]
        /\ tables = [t \in {RootTable} |-> [i \in 0..(RootEntries - 1) |-> None]]
    BY DEF KernelInit, SetupInit
  <2>2. TableTree(tables, [t \in {RootTable} |-> 2])
    <3>1. /\ DOMAIN tables = {RootTable}
          /\ tables[RootTable] = [i \in IndicesOf(RootTable) |-> None]
      BY <2>1 DEF IndicesOf
    <3>. QED BY <3>1, RootAlone, Kinds
  <2>3. Walked([t \in {RootTable} |-> 2])
    BY <2>1, <2>2 DEF Walked, Start
  <2>4. at \in [offset : Int, level : Int, table : Int]
    BY <2>1, TableNumbers DEF Start
  <2>. QED BY <2>1, <2>3, <2>4 DEF TablesInv
<1>2. BootInv /\ NumbersGiven /\ TablesInv /\ [KernelNext]_kernel_vars => TablesInv'
  <2>. SUFFICES ASSUME BootInv, NumbersGiven, TablesInv, [KernelNext]_kernel_vars
                PROVE  TablesInv'
    OBVIOUS
  <2>1. CASE Setup \/ Boot \/ Run \/ UNCHANGED kernel_vars
    BY <2>1, TablesStayHeld, TablesStay
  <2>2. CASE virtual_memory_setup
    BY <2>2, TablesSetUp
  <2>3. CASE virtual_memory_drop_identity_mapping
    BY <2>3, IdentityDropped
  <2>4. CASE virtual_memory_refine_mappings
    BY <2>4, RefineJobsGiven
  <2>5. CASE FollowEntry
    BY <2>5, EntryFollowed
  <2>6. CASE AllocateTable
    BY <2>6, TableAllocated
  <2>7. CASE SetLeaf
    BY <2>7, LeafMade
  <2>8. CASE SetUpDevice
    BY <2>8, WindowOpened
  <2>9. CASE Stopped
    BY <2>1, <2>9 DEF Stopped
  <2>. QED BY <2>1, <2>2, <2>3, <2>4, <2>5, <2>6, <2>7, <2>8, <2>9 DEF KernelNext
<1>. QED BY <1>1, <1>2, BootKept, PTL DEF KernelSpec

\* A page that serves as a table of the kernel is in the hands of no one else,
\* and stands in one entry of one table.
THEOREM TablesAreOwned == KernelSpec /\ []NumbersGiven => []TablesOwned
<1>1. TablesInv => TablesOwned
  <2>. SUFFICES ASSUME TablesInv, NEW b \in DOMAIN tables \ {RootTable}
                PROVE  b \in DOMAIN held /\ Cardinality(Leading(b)) = 1
    BY DEF TablesOwned
  <2>1. PICK lv : TableTree(tables, lv)
    BY DEF TablesInv, Walked
  <2>2. PICK t, i : LedFrom(tables, b, t, i)
    BY <2>1 DEF TableTree
  <2>3. \A u \in DOMAIN tables : DOMAIN tables[u] = IndicesOf(u)
    BY <2>1 DEF TableTree
  <2>4. Leading(b) = {<<t, i>>}
    <3>1. ASSUME NEW x PROVE x \in Leading(b) <=>
            \E u \in DOMAIN tables : \E j \in IndicesOf(u) : x = <<u, j>> /\ tables[u][j] = ToTable(b)
      BY <2>3 DEF Leading
    <3>2. ASSUME NEW x PROVE x \in Leading(b) <=> x = <<t, i>>
      BY <2>2, <3>1 DEF LedFrom
    <3>. QED BY <3>2
  <2>5. b \in DOMAIN held
    BY DEF TablesInv
  <2>. QED BY <2>4, <2>5, FS_Singleton
<1>. QED BY <1>1, TablesKept, PTL

-----------------------------------------------------------------------------
(* Regions in use.                                                         *)

\* The nodes named reserved-memory below the root.
ReservedMemoryNodes ==
  {k \in Nodes : dt[k].name = <<"reserved-memory", "">> /\ Parent(k) = fdt_root_node}

ReservedMemoryNode == fdt_node_addr_by_path(<< <<"reserved-memory", "">> >>)

\* The device tree is read right (NavigationCorrect), it has at most one node
\* named reserved-memory below the root, which its path finds, and each child
\* of that node has a region.
TreeSound ==
  /\ DOMAIN dt \subseteq Nat \ {0}
  /\ NavigationCorrect
  /\ ReservedMemoryNodes = IF ReservedMemoryNode = 0 THEN {} ELSE {ReservedMemoryNode}
  /\ \A i \in ReservedNodes : PropOf(i, "reg") # 0

\* The regions in use are told by what the boot does not change any more.
LEMMA RegionsStay ==
  ASSUME dt' = dt, board' = board, memory_base_addr' = memory_base_addr,
         initrd_start_addr' = initrd_start_addr, initrd_end_addr' = initrd_end_addr
  PROVE  ReservedNodes' = ReservedNodes /\ (\A i : RegionOf(i)' = RegionOf(i))
         /\ BootRegions' = BootRegions
<1>1. ReservedNodes' = ReservedNodes
  BY SMT DEF ReservedNodes, Parent, Ancestors, Close, Nodes, Is, Deeper, fdt_root_node, FirstOf
<1>2. \A i : RegionOf(i)' = RegionOf(i)
  BY SMT DEF RegionOf, PropOf, Owner, Parent, Ancestors, Close, Nodes, Is, Deeper, FirstOf
<1>3. BootRegions' = BootRegions
  BY SMT DEF BootRegions
<1>. QED BY <1>1, <1>2, <1>3

LEMMA TreeStays ==
  ASSUME dt' = dt
  PROVE  ReservedNodes' = ReservedNodes
BY SMT DEF ReservedNodes, Parent, Ancestors, Close, Nodes, Is, Deeper, fdt_root_node, FirstOf

\* The first of some tokens is the least of them.
LEMMA FirstIs ==
  ASSUME NEW S \in SUBSET (Nat \ {0})
  PROVE  /\ FirstOf(S) = 0 <=> S = {}
         /\ S # {} => FirstOf(S) \in S /\ \A i \in S : FirstOf(S) <= i
<1>1. ASSUME S # {} PROVE FirstOf(S) \in S /\ \A i \in S : FirstOf(S) <= i
  <2>1. \E i \in S : \A j \in S : i <= j
    BY <1>1, LeastElement
  <2>. QED BY <1>1, <2>1 DEF FirstOf
<1>2. S = {} => FirstOf(S) = 0
  BY DEF FirstOf
<1>. QED BY <1>1, <1>2

\* The properties of a node that has them.
LEMMA PropFound ==
  ASSUME TreeSound, NEW i \in Nodes, NEW name
  PROVE  fdt_property_by_name(i, name) # 0 \/ PropOf(i, name) # 0 =>
           fdt_property_by_name(i, name) = PropOf(i, name)
<1>. DEFINE F == {j \in After(i) \cap Is("prop") :
             /\ dt[j].name = name
             /\ \A k \in After(i) : k < j => k \in Is("prop")}
            P == {p \in Is("prop") : dt[p].name = name /\ Owner(p) = i}
<1>1. fdt_property_by_name(i, name) = FirstOf(F) /\ PropOf(i, name) = FirstOf(P)
  BY DEF fdt_property_by_name, PropOf
<1>2. F \in SUBSET (Nat \ {0}) /\ P \in SUBSET (Nat \ {0})
  BY DEF TreeSound, Is
<1>3. (FirstOf(F) # 0 => FirstOf(F) \in F) /\ (FirstOf(P) # 0 => FirstOf(P) \in P)
  <2>. HIDE DEF F, P
  <2>. QED BY <1>2, FirstIs
<1>4. \A p \in Is("prop") : fdt_property_by_name(i, dt[p].name) = PropOf(i, dt[p].name)
  BY DEF TreeSound, NavigationCorrect
<1>. QED BY <1>1, <1>3, <1>4

\* The region the code reads for a child of reserved-memory is the one the tree
\* gives it.
LEMMA RegionRead ==
  ASSUME TreeSound, NEW i \in ReservedNodes, fdt_get_node_cells(i)
  PROVE  RegionOf(i) = [addr |-> pa2va(fdt_reg_property(i).addr) - memory_base_addr,
                        size |-> fdt_reg_property(i).size]
<1>1. /\ i \in Nodes /\ Parent(i) \in Nodes /\ i # 0
      /\ fdt_parent_node(i) = Parent(i)
  BY DEF ReservedNodes, TreeSound, NavigationCorrect, Nodes, Is
<1>2. /\ AddressCells(i) = PropOf(Parent(i), "#address-cells")
      /\ SizeCells(i) = PropOf(Parent(i), "#size-cells")
  BY <1>1, PropFound DEF fdt_get_node_cells, AddressCells, SizeCells
<1>3. fdt_property_by_name(i, "reg") = PropOf(i, "reg") /\ PropOf(i, "reg") # 0
  BY <1>1, PropFound DEF TreeSound
<1>. DEFINE value == dt[PropOf(i, "reg")].value
            ac == dt[PropOf(Parent(i), "#address-cells")].value[1]
            sc == dt[PropOf(Parent(i), "#size-cells")].value[1]
            addr == IF ac = 1 THEN value[1] ELSE value[1] * CellBase + value[1 + 1]
            size == IF sc = 1 THEN value[ac + 1] ELSE value[ac + 1] * CellBase + value[ac + 1 + 1]
<1>4. fdt_reg_property(i) = [addr |-> addr, size |-> size]
  BY <1>2, <1>3, Zenon DEF fdt_reg_property, Cell, Wide
<1>5. RegionOf(i) = [addr |-> pa2va(addr) - memory_base_addr, size |-> size]
  BY Zenon DEF RegionOf
<1>. HIDE DEF addr, size
<1>6. fdt_reg_property(i).addr = addr /\ fdt_reg_property(i).size = size
  BY <1>4
<1>. QED BY <1>5, <1>6

\* The root has no parent.
LEMMA RootHasNone ==
  ASSUME TreeSound, NEW i \in Nodes, Parent(i) \in Nodes
  PROVE  i # fdt_root_node
<1>. SUFFICES ASSUME i = fdt_root_node PROVE FALSE
  OBVIOUS
<1>. DEFINE S == {j \in DOMAIN dt : dt[j].op # "nop"}
<1>1. 0 \notin Nodes /\ Nodes \subseteq S /\ S \in SUBSET (Nat \ {0})
  BY DEF TreeSound, Nodes, Is
<1>2. i = FirstOf(S)
  BY <1>1 DEF fdt_root_node
<1>3. \A j \in S : i <= j
  <2>. HIDE DEF S
  <2>. QED BY <1>1, <1>2, FirstIs
<1>4. Ancestors(i) = {}
  BY <1>1, <1>3 DEF Ancestors
<1>5. Parent(i) = 0
  BY <1>4 DEF Parent
<1>. QED BY <1>1, <1>5

LEMMA AppendRange ==
  ASSUME NEW A, NEW list \in Seq(A), NEW x \in A
  PROVE  /\ Append(list, x) \in Seq(A)
         /\ Len(Append(list, x)) = Len(list) + 1
         /\ Range(Append(list, x)) = Range(list) \cup {x}
<1>. DEFINE new == Append(list, x)
<1>1. /\ new \in Seq(A) /\ Len(new) = Len(list) + 1 /\ Len(list) \in Nat
      /\ DOMAIN list = 1..Len(list) /\ DOMAIN new = 1..(Len(list) + 1)
      /\ \A i \in 1..Len(list) : new[i] = list[i]
      /\ new[Len(list) + 1] = x
  BY AppendProperties
<1>. HIDE DEF new
<1>2. \A i \in DOMAIN new : i \in DOMAIN list \/ i = Len(list) + 1
  BY <1>1
<1>3. \A i \in DOMAIN list : i \in DOMAIN new
  BY <1>1
<1>4. Len(list) + 1 \in DOMAIN new
  BY <1>1
<1>5. Range(new) = Range(list) \cup {x}
  BY <1>1, <1>2, <1>3, <1>4 DEF Range
<1>. QED BY <1>1, <1>5 DEF new

\* All regions that lie in the tree before a node are reserved, and those that
\* are not in the tree, as long as there is room.
ReservedUpTo(n) ==
  \/ Len(reserved_memory) = MaxReserved
  \/ /\ BootRegions \subseteq Range(reserved_memory)
     /\ \A i \in ReservedNodes : n = 0 \/ i < n => RegionOf(i) \in Range(reserved_memory)

ReserveInv ==
  stage \in {"reserve", "populate"} =>
    /\ \E A : reserved_memory \in Seq(A)
    /\ Len(reserved_memory) <= MaxReserved
    /\ node = 0 \/ node \in ReservedNodes
    /\ stage = "populate" => node = 0
    /\ ReservedUpTo(node)

\* The regions that are there when the loop over the nodes begins.
LEMMA LoopBegins ==
  ASSUME TreeSound, FindMemory, stage' = "reserve"
  PROVE  ReserveInv'
<1>. DEFINE r1 == At(board.fdt.addr, board.fdt.size)
            r2 == At(initrd_start_addr, initrd_end_addr - initrd_start_addr)
            r3 == At(board.kernel.addr, board.kernel.size)
<1>1. /\ reserved_memory' = <<r1, r2, r3>>
      /\ node' = fdt_child_node(ReservedMemoryNode)
      /\ UNCHANGED <<dt, board, initrd_start_addr, initrd_end_addr>>
  BY DEF FindMemory, board_vars, ramdisk, ReservedMemoryNode
<1>. DEFINE A == {r1, r2, r3}
<1>2. /\ reserved_memory' \in Seq(A) /\ Len(reserved_memory') = 3
      /\ Range(reserved_memory') = A
  BY <1>1 DEF Range
<1>3. BootRegions' \subseteq A
  <2>1. BootRegions' = {[addr |-> r.addr - memory_base_addr', size |-> r.size] :
          r \in {board.fdt, board.kernel,
                 [addr |-> initrd_start_addr, size |-> initrd_end_addr - initrd_start_addr]}}
    BY <1>1 DEF BootRegions
  <2>2. \A r : [addr |-> r.addr - memory_base_addr', size |-> r.size] = At(r.addr, r.size)
    BY DEF At
  <2>. QED BY <2>1, <2>2
<1>4. ReservedNodes' = ReservedNodes
  BY <1>1, TreeStays
<1>5. /\ fdt_child_node(ReservedMemoryNode) = FirstOf(ReservedNodes)
      /\ ReservedNodes \in SUBSET (Nat \ {0})
  <2>1. ReservedNodes = {i \in Nodes : Parent(i) \in ReservedMemoryNodes}
    BY DEF ReservedNodes, ReservedMemoryNodes
  <2>2. ReservedNodes \in SUBSET (Nat \ {0})
    BY <2>1 DEF TreeSound, Nodes, Is
  <2>3. CASE ReservedMemoryNode = 0
    <3>1. ReservedNodes = {}
      BY <2>1, <2>3 DEF TreeSound
    <3>2. After(0) = {}
      BY DEF After
    <3>3. 0 \notin Is("begin")
      BY DEF TreeSound, Is
    <3>4. fdt_child_node(0) = 0
      BY <3>2, <3>3 DEF fdt_child_node, FirstOf
    <3>. QED BY <2>2, <2>3, <3>1, <3>4 DEF FirstOf
  <2>4. CASE ReservedMemoryNode # 0
    <3>1. ReservedMemoryNodes = {ReservedMemoryNode}
      BY <2>4 DEF TreeSound
    <3>2. ReservedMemoryNode \in Nodes
      BY <3>1 DEF ReservedMemoryNodes
    <3>3. ReservedNodes = Children(ReservedMemoryNode)
      BY <2>1, <3>1 DEF Children
    <3>. QED BY <2>2, <3>2, <3>3 DEF TreeSound, NavigationCorrect
  <2>. QED BY <2>3, <2>4
<1>6. /\ node' = 0 <=> ReservedNodes = {}
      /\ node' # 0 => node' \in ReservedNodes /\ \A i \in ReservedNodes : node' <= i
  BY <1>1, <1>5, FirstIs
<1>7. \A i \in ReservedNodes : node' # 0 /\ ~ (i < node')
  <2>. SUFFICES ASSUME NEW i \in ReservedNodes PROVE node' # 0 /\ ~ (i < node')
    OBVIOUS
  <2>1. node' # 0
    BY <1>6
  <2>2. node' <= i /\ node' \in Nat /\ i \in Nat
    BY <1>5, <1>6, <2>1
  <2>. QED BY <2>1, <2>2
<1>8. ReservedUpTo(node)'
  BY <1>2, <1>3, <1>4, <1>7 DEF ReservedUpTo
<1>9. 3 <= MaxReserved
  BY MaxReservedAssumption
<1>. HIDE DEF A
<1>10. \E B : reserved_memory' \in Seq(B)
  BY <1>2
<1>. QED BY <1>2, <1>4, <1>6, <1>8, <1>9, <1>10 DEF ReserveInv

\* A turn of the loop.
LEMMA LoopGoesOn ==
  ASSUME TreeSound, ReserveInv, ReserveNode
  PROVE  ReserveInv'
<1>. DEFINE region == fdt_reg_property(node)
            new == [addr |-> pa2va(region.addr) - memory_base_addr, size |-> region.size]
<1>1. /\ stage = "reserve" /\ node # 0 /\ fdt_get_node_cells(node)
      /\ reserved_memory' = memory_reserve(reserved_memory, new)
      /\ node' = fdt_sibling_node(node)
      /\ UNCHANGED <<stage, dt, board, memory_base_addr, initrd_start_addr, initrd_end_addr>>
  BY DEF ReserveNode, board_vars, ramdisk
<1>2. /\ node \in ReservedNodes /\ ReservedUpTo(node)
      /\ Len(reserved_memory) <= MaxReserved
  BY <1>1 DEF ReserveInv
<1>3. PICK A : reserved_memory \in Seq(A)
  BY <1>1 DEF ReserveInv
<1>4. /\ ReservedNodes' = ReservedNodes /\ (\A i : RegionOf(i)' = RegionOf(i))
      /\ BootRegions' = BootRegions
  BY <1>1, RegionsStay
<1>5. RegionOf(node) = new
  BY <1>1, <1>2, RegionRead
<1>6. /\ ReservedNodes \in SUBSET (Nat \ {0})
      /\ fdt_sibling_node(node) = FirstOf({j \in ReservedNodes : j > node})
  <2>1. ReservedNodes = {i \in Nodes : Parent(i) \in ReservedMemoryNodes}
    BY DEF ReservedNodes, ReservedMemoryNodes
  <2>2. ReservedNodes \in SUBSET (Nat \ {0})
    BY <2>1 DEF TreeSound, Nodes, Is
  <2>3. ReservedMemoryNodes = {Parent(node)}
    BY <1>2, <2>1 DEF TreeSound
  <2>4. Children(Parent(node)) = ReservedNodes
    BY <2>1, <2>3 DEF Children
  <2>5. node \in Nodes /\ Parent(node) \in Nodes
    BY <1>2 DEF ReservedNodes
  <2>6. node # fdt_root_node
    BY <2>5, RootHasNone
  <2>. QED BY <2>2, <2>4, <2>5, <2>6 DEF TreeSound, NavigationCorrect
<1>7. /\ node' = 0 \/ node' \in ReservedNodes
      /\ \A i \in ReservedNodes : node' = 0 \/ i < node' => i = node \/ i < node
  <2>. DEFINE S == {j \in ReservedNodes : j > node}
  <2>1. S \in SUBSET (Nat \ {0}) /\ node' = FirstOf(S)
    BY <1>1, <1>6
  <2>2. /\ FirstOf(S) = 0 <=> S = {}
        /\ S # {} => FirstOf(S) \in S /\ \A i \in S : FirstOf(S) <= i
    <3>. HIDE DEF S
    <3>. QED BY <2>1, FirstIs
  <2>3. node' = 0 \/ node' \in S
    BY <2>1, <2>2
  <2>4. ASSUME NEW i \in ReservedNodes, node' = 0 \/ i < node' PROVE i = node \/ i < node
    <3>1. i \in Nat /\ node \in Nat /\ node' \in Nat
      <4>1. i \in Nat /\ node \in Nat
        BY <1>2, <1>6
      <4>2. node' \in Nat
        <5>1. node' = 0 \/ node' \in ReservedNodes
          BY <2>3
        <5>2. \A j \in ReservedNodes : j \in Nat
          BY <1>6
        <5>3. CASE node' = 0
          BY <5>3
        <5>. QED BY <5>1, <5>2, <5>3
      <4>. QED BY <4>1, <4>2
    <3>2. i \notin S
      <4>1. SUFFICES ASSUME i \in S PROVE FALSE
        OBVIOUS
      <4>2. node' \in S /\ node' <= i
        BY <2>1, <2>2, <4>1
      <4>3. node' # 0
        BY <2>1, <4>2
      <4>. QED BY <2>4, <3>1, <4>2, <4>3
    <3>. QED BY <3>1, <3>2
  <2>. QED BY <2>3, <2>4
<1>8. CASE Len(reserved_memory) < MaxReserved
  <2>1. reserved_memory' = Append(reserved_memory, new)
    BY <1>1, <1>8 DEF memory_reserve
  <2>. HIDE DEF new
  <2>2. /\ reserved_memory' \in Seq(A \cup {new})
        /\ Len(reserved_memory') = Len(reserved_memory) + 1
        /\ Range(reserved_memory') = Range(reserved_memory) \cup {new}
    <3>1. reserved_memory \in Seq(A \cup {new})
      BY <1>3
    <3>2. DOMAIN reserved_memory = 1..Len(reserved_memory) /\ Len(reserved_memory) \in Nat
      BY <1>3
    <3>. QED BY <2>1, <3>1, <3>2, AppendRange
  <2>3. Len(reserved_memory') <= MaxReserved
    BY <1>3, <1>8, <2>2, MaxReservedAssumption
  <2>4. /\ BootRegions \subseteq Range(reserved_memory)
        /\ \A i \in ReservedNodes : i < node => RegionOf(i) \in Range(reserved_memory)
    BY <1>2, <1>3, <1>8, MaxReservedAssumption DEF ReservedUpTo
  <2>5. ReservedUpTo(node)'
    BY <1>4, <1>5, <1>7, <2>2, <2>4 DEF ReservedUpTo
  <2>. QED BY <1>1, <1>4, <1>7, <2>2, <2>3, <2>5 DEF ReserveInv
<1>9. CASE ~(Len(reserved_memory) < MaxReserved)
  <2>1. reserved_memory' = reserved_memory
    BY <1>1, <1>9 DEF memory_reserve
  <2>2. Len(reserved_memory) = MaxReserved
    BY <1>2, <1>3, <1>9, MaxReservedAssumption
  <2>3. ReservedUpTo(node)'
    BY <2>1, <2>2 DEF ReservedUpTo
  <2>. QED BY <1>1, <1>2, <1>3, <1>4, <1>7, <2>1, <2>3 DEF ReserveInv
<1>. QED BY <1>8, <1>9

\* What the regions in use and those reserved are told by.
RegionsSame ==
  UNCHANGED <<reserved_memory, dt, board, memory_base_addr, initrd_start_addr, initrd_end_addr, node>>

LEMMA LoopOver ==
  ASSUME ReserveInv, RegionsSame,
         stage' = stage \/ (stage = "reserve" /\ node = 0 /\ stage' = "populate")
  PROVE  ReserveInv'
<1>. SUFFICES ASSUME stage' \in {"reserve", "populate"} PROVE ReserveInv'
  BY DEF ReserveInv
<1>1. stage \in {"reserve", "populate"}
  OBVIOUS
<1>2. /\ ReservedNodes' = ReservedNodes /\ (\A i : RegionOf(i)' = RegionOf(i))
      /\ BootRegions' = BootRegions
      /\ reserved_memory' = reserved_memory /\ node' = node
  BY RegionsStay DEF RegionsSame
<1>3. ReservedUpTo(node)'
  BY <1>1, <1>2 DEF ReservedUpTo, ReserveInv
<1>. QED BY <1>1, <1>2, <1>3 DEF ReserveInv

LEMMA StepsOfRegions ==
  ASSUME [KernelNext]_kernel_vars, stage' \in {"reserve", "populate"}
  PROVE  \/ FindMemory
         \/ ReserveNode
         \/ /\ RegionsSame
            /\ stage' = stage \/ (stage = "reserve" /\ node = 0 /\ stage' = "populate")
<1>. USE DEF RegionsSame, vars, board_vars, ramdisk, setup_vars, boot_vars, map_vars, kernel_vars
<1>1. CASE UNCHANGED kernel_vars
  BY <1>1
<1>2. CASE virtual_memory_setup \/ FindRamdisk
  BY <1>2 DEF virtual_memory_setup, FindRamdisk
<1>3. CASE memory_init
  BY <1>3 DEF memory_init
<1>4. CASE stage = "populate" /\ Populate /\ UNCHANGED setup_vars
  BY <1>4 DEF Populate
<1>5. CASE Run
  BY <1>5 DEF Run, memory_allocate_pages, AllocateFails, Release
<1>6. CASE AllocateTable
  BY <1>6 DEF AllocateTable, memory_allocate_pages
<1>7. CASE virtual_memory_drop_identity_mapping \/ virtual_memory_refine_mappings
  BY <1>7 DEF virtual_memory_drop_identity_mapping, virtual_memory_refine_mappings
<1>8. CASE FollowEntry \/ SetLeaf \/ SetUpDevice \/ Boot \/ Stopped
  BY <1>8 DEF FollowEntry, SetLeaf, SetUpDevice, Boot, Stopped
<1>. QED BY <1>1, <1>2, <1>3, <1>4, <1>5, <1>6, <1>7, <1>8 DEF KernelNext, Setup

\* The loop over the children of reserved-memory leaves none out.
THEOREM RegionsFound == KernelSpec /\ []TreeSound => []ReserveInv
<1>1. KernelInit => ReserveInv
  BY DEF KernelInit, SetupInit, ReserveInv
<1>2. TreeSound /\ ReserveInv /\ [KernelNext]_kernel_vars => ReserveInv'
  <2>. SUFFICES ASSUME TreeSound, ReserveInv, [KernelNext]_kernel_vars,
                       stage' \in {"reserve", "populate"}
                PROVE  ReserveInv'
    BY DEF ReserveInv
  <2>1. CASE FindMemory
    <3>1. stage' = "reserve"
      BY <2>1 DEF FindMemory
    <3>. QED BY <2>1, <3>1, LoopBegins
  <2>. QED BY <2>1, LoopGoesOn, LoopOver, StepsOfRegions
<1>. QED BY <1>1, <1>2, PTL DEF KernelSpec

\* Memory in use before the allocator exists is never handed out: every region
\* in use is found and reserved as long as there is room for it, and no block
\* nor the frame array overlaps one that lies inside the memory.
THEOREM ReservedMemoryKept ==
  KernelSpec /\ []TreeSound => [](RegionsOnPages => ReservedKept)
<1>1. ReserveInv => RegionsReserved
  <2>. SUFFICES ASSUME ReserveInv, stage = "populate" PROVE RegionsReserved
    BY DEF RegionsReserved
  <2>1. node = 0 /\ ReservedUpTo(node)
    BY DEF ReserveInv
  <2>. QED BY <2>1 DEF RegionsReserved, ReservedUpTo, RegionsInUse
<1>2. BootInv /\ FrameInv /\ ReserveInv => (RegionsOnPages => ReservedKept)
  BY <1>1, KeptApart DEF ReservedKept
<1>. QED BY <1>2, BootKept, ReservationsStay, RegionsFound, PTL

-----------------------------------------------------------------------------
(* Mappings: walks and the pages they lead to.                             *)

\* Quotient and remainder of a number given by them.
LEMMA Divided ==
  ASSUME NEW p \in Nat \ {0}, NEW k \in Nat, NEW d \in 0..(p - 1)
  PROVE  (k * p + d) \div p = k /\ (k * p + d) % p = d
<1>1. (k * p + d) \div p = k
  BY Quotient
<1>. DEFINE n == k * p + d
<1>2. n \in Nat /\ k * p = p * k
  OBVIOUS
<1>3. n = p * (n \div p) + (n % p)
  <2>. HIDE DEF n
  <2>. QED BY <1>2
<1>4. n % p \in Nat
  <2>. HIDE DEF n
  <2>. QED BY <1>2
<1>5. n % p = d
  <2>1. n = p * k + (n % p)
    BY <1>1, <1>3
  <2>2. p * k \in Nat
    OBVIOUS
  <2>. HIDE DEF n
  <2>3. n = p * k + d
    BY <1>2 DEF n
  <2>. QED BY <1>4, <2>1, <2>2, <2>3
<1>. QED BY <1>1, <1>5

\* The number of a piece of p numbers and the place in it.
LEMMA Places ==
  ASSUME NEW p \in Nat \ {0}, NEW v \in Nat
  PROVE  /\ v \div p \in Nat /\ v % p \in 0..(p - 1)
         /\ v = (v \div p) * p + (v % p)
<1>1. v \div p \in Nat /\ v % p \in 0..(p - 1) /\ v = p * (v \div p) + (v % p)
  OBVIOUS
<1>2. p * (v \div p) = (v \div p) * p
  BY <1>1
<1>. QED BY <1>1, <1>2

\* Pieces of pieces.
LEMMA PieceOfPiece ==
  ASSUME NEW p \in Nat \ {0}, NEW v \in Nat
  PROVE  v \div (p * p) = (v \div p) \div p
<1>. DEFINE a == v \div p
            q == a \div p
            r == a % p
            c == v % p
<1>1. /\ a \in Nat /\ c \in 0..(p - 1) /\ v = a * p + c
  BY Places
<1>. HIDE DEF a, c
<1>2. q \in Nat /\ r \in 0..(p - 1) /\ a = q * p + r
  BY <1>1, Places
<1>. HIDE DEF q, r
<1>3. p * p \in Nat \ {0} /\ r * p + c \in 0..(p * p - 1)
  <2>1. p * p \in Nat \ {0} /\ r * p \in Nat
    BY <1>2
  <2>2. r * p <= (p - 1) * p
    BY <1>2, Multiply
  <2>3. (p - 1) * p = p * p - p
    OBVIOUS
  <2>. QED BY <1>1, <2>1, <2>2, <2>3
<1>4. v = q * (p * p) + (r * p + c)
  <2>1. a * p = (q * p) * p + r * p
    BY <1>2
  <2>2. (q * p) * p = q * (p * p)
    BY <1>2
  <2>3. (q * p) * p \in Nat /\ r * p \in Nat
    BY <1>2
  <2>. QED BY <1>1, <2>1, <2>2, <2>3
<1>5. v \div (p * p) = q
  BY <1>2, <1>3, <1>4, Divided
<1>. QED BY <1>5 DEF q, a

-----------------------------------------------------------------------------
(* What is mapped.                                                         *)

\* The pages the tables can map.
VirtualPages == 0..(Span(2) * RootEntries - 1)

LEMMA Spans ==
  /\ Span(0) = 1 /\ Span(1) = Entries /\ Span(2) = Entries * Entries
  /\ Entries \in Nat \ {0} /\ RootEntries \in Nat \ {0} /\ Entries * Entries \in Nat \ {0}
  /\ Span(2) * RootEntries \in Nat /\ KernelBase \in Nat
<1>1. Entries \in Nat \ {0} /\ RootEntries \in Nat \ {0} /\ KernelBase \in Nat
  BY EntriesAssumption
<1>2. Entries * Entries \in Nat \ {0}
  BY <1>1
<1>3. Span(0) = 1 /\ Span(1) = Entries /\ Span(2) = Entries * Entries
  BY DEF Span
<1>4. Span(2) * RootEntries \in Nat
  BY <1>1, <1>2, <1>3
<1>. QED BY <1>1, <1>2, <1>3, <1>4

\* The index at a level is the number of the piece in that of the next level.
LEMMA IndexIs ==
  ASSUME NEW v \in VirtualPages
  PROVE  /\ v \in Nat
         /\ Index(v, 2) = v \div Span(2)
         /\ Index(v, 1) = (v \div Span(1)) % Entries
         /\ Index(v, 0) = v % Entries
         /\ v \div Span(0) = v /\ v \div Span(1) \in Nat /\ v \div Span(2) \in Nat
         /\ v \div Span(2) = (v \div Span(1)) \div Entries
<1>1. v \in Nat /\ v < Span(2) * RootEntries
  BY Spans DEF VirtualPages
<1>2. v \div Span(0) = v /\ v \div Span(1) \in Nat /\ v \div Span(2) \in Nat
  <2>1. v \div 1 = v
    BY <1>1
  <2>. QED BY <1>1, <2>1, Spans, Places
<1>3. v \div Span(2) < RootEntries
  <2>. DEFINE p == Span(2)
              q == v \div p
  <2>1. p \in Nat \ {0} /\ q \in Nat /\ q * p <= v
    <3>1. p \in Nat \ {0}
      BY Spans
    <3>. HIDE DEF p
    <3>2. v \div p \in Nat /\ v % p \in 0..(p - 1) /\ v = (v \div p) * p + (v % p)
      BY <1>1, <3>1, Places
    <3>3. (v \div p) * p \in Nat
      BY <3>1, <3>2
    <3>. QED BY <3>1, <3>2, <3>3
  <2>2. p * RootEntries = RootEntries * p /\ RootEntries \in Nat /\ q * p \in Nat
    BY <2>1, Spans
  <2>3. RootEntries * p \in Nat
    BY <2>1, <2>2
  <2>4. q * p < RootEntries * p
    <3>. HIDE DEF p, q
    <3>1. v < RootEntries * p
      BY <1>1, <2>2 DEF p
    <3>. QED BY <1>1, <2>1, <2>2, <2>3, <3>1
  <2>. HIDE DEF p, q
  <2>5. q < RootEntries
    BY <2>1, <2>2, <2>4, Multiply
  <2>. QED BY <2>5 DEF p, q
<1>4. Index(v, 2) = v \div Span(2)
  <2>. DEFINE q == v \div Span(2)
  <2>1. q % RootEntries = q
    <3>1. q \in Nat /\ q < RootEntries /\ RootEntries \in Nat
      BY <1>2, <1>3, Spans
    <3>. HIDE DEF q
    <3>. QED BY <3>1
  <2>. QED BY <2>1 DEF Index, PgdIndex
<1>5. Index(v, 1) = (v \div Span(1)) % Entries /\ Index(v, 0) = v % Entries
  <2>1. Index(v, 1) = (v \div Span(1)) % Entries /\ Index(v, 0) = (v \div Span(0)) % Entries
    BY DEF Index
  <2>. QED BY <1>2, <2>1
<1>6. v \div Span(2) = (v \div Span(1)) \div Entries
  <2>1. v \div (Entries * Entries) = (v \div Entries) \div Entries
    BY <1>1, Spans, PieceOfPiece
  <2>. QED BY <2>1, Spans
<1>. QED BY <1>1, <1>2, <1>4, <1>5, <1>6

\* Pages in one piece of the level above with one index are in one piece,
LEMMA SamePiece ==
  ASSUME NEW v \in VirtualPages, NEW w \in VirtualPages, NEW level \in 0..2,
         level = 2 \/ v \div Span(level + 1) = w \div Span(level + 1),
         Index(v, level) = Index(w, level)
  PROVE  v \div Span(level) = w \div Span(level)
<1>1. CASE level = 2
  BY <1>1, IndexIs
<1>2. CASE level = 1
  <2>. DEFINE a == v \div Span(1)
              b == w \div Span(1)
  <2>1. a \in Nat /\ b \in Nat /\ a \div Entries = b \div Entries /\ a % Entries = b % Entries
    BY <1>2, IndexIs
  <2>. HIDE DEF a, b
  <2>2. a = (a \div Entries) * Entries + (a % Entries)
    BY <2>1, Spans, Places
  <2>3. b = (b \div Entries) * Entries + (b % Entries)
    BY <2>1, Spans, Places
  <2>4. a = b
    BY <2>1, <2>2, <2>3
  <2>. QED BY <1>2, <2>4 DEF a, b
<1>3. CASE level = 0
  <2>1. /\ v \in Nat /\ w \in Nat
        /\ v \div Entries = w \div Entries /\ v % Entries = w % Entries
    BY <1>3, IndexIs, Spans
  <2>2. v = (v \div Entries) * Entries + (v % Entries)
    BY <2>1, Spans, Places
  <2>3. w = (w \div Entries) * Entries + (w % Entries)
    BY <2>1, Spans, Places
  <2>4. v = w
    BY <2>1, <2>2, <2>3
  <2>. QED BY <2>4
<1>. QED BY <1>1, <1>2, <1>3

\* and pages in one piece have the indices of that level and the ones above.
LEMMA PieceIndices ==
  ASSUME NEW v \in VirtualPages, NEW w \in VirtualPages, NEW level \in 0..2,
         v \div Span(level) = w \div Span(level)
  PROVE  /\ Index(v, 2) = Index(w, 2)
         /\ level <= 1 => Index(v, 1) = Index(w, 1)
         /\ Index(v, level) = Index(w, level)
<1>1. level = 0 => v = w
  BY IndexIs
<1>. QED BY <1>1, IndexIs

\* t is the table of a level on the walk to page v.
Reaches(tb, v, level, t) ==
  CASE level = 2 -> t = RootTable
    [] level = 1 -> tb[RootTable][Index(v, 2)] = ToTable(t)
    [] level = 0 -> \E u \in DOMAIN tb : /\ tb[RootTable][Index(v, 2)] = ToTable(u)
                                         /\ tb[u][Index(v, 1)] = ToTable(t)

\* The index of a page is one of a table of that level.
LEMMA IndexIn ==
  ASSUME NEW v \in VirtualPages, NEW tb, NEW lv, TableTree(tb, lv), NEW t \in DOMAIN tb
  PROVE  Index(v, lv[t]) \in IndicesOf(t)
<1>1. v \in Int /\ lv[t] \in 0..2 /\ (lv[t] = 2 <=> t = RootTable)
  BY IndexIs DEF TableTree
<1>. QED BY <1>1, TableNumbers

\* An entry that leads to a table leads to one of the tables, one level down.
LEMMA LeadsDown ==
  ASSUME NEW tb, NEW lv, TableTree(tb, lv), NEW u \in DOMAIN tb, NEW i \in IndicesOf(u),
         NEW t, tb[u][i] = ToTable(t)
  PROVE  t \in DOMAIN tb \ {RootTable} /\ lv[u] = lv[t] + 1
<1>1. tb[u][i].kind = "table"
  BY Kinds
<1>2. PICK b \in DOMAIN tb \ {RootTable} : tb[u][i] = ToTable(b) /\ lv[u] = lv[b] + 1
  BY <1>1 DEF TableTree
<1>. QED BY <1>2, Kinds

LEMMA ReachedLevel ==
  ASSUME NEW tb, NEW lv, TableTree(tb, lv), NEW v \in VirtualPages, NEW level \in 0..2,
         NEW t, Reaches(tb, v, level, t)
  PROVE  t \in DOMAIN tb /\ lv[t] = level
<1>1. RootTable \in DOMAIN tb /\ lv[RootTable] = 2 /\ Index(v, 2) \in IndicesOf(RootTable)
  <2>1. RootTable \in DOMAIN tb /\ lv[RootTable] = 2
    BY DEF TableTree
  <2>. QED BY <2>1, IndexIn
<1>2. ASSUME NEW u, tb[RootTable][Index(v, 2)] = ToTable(u)
      PROVE  u \in DOMAIN tb /\ lv[u] = 1 /\ Index(v, 1) \in IndicesOf(u)
  <2>1. u \in DOMAIN tb /\ 2 = lv[u] + 1
    BY <1>1, <1>2, LeadsDown
  <2>2. lv[u] = 1
    BY <2>1 DEF TableTree
  <2>. QED BY <2>1, <2>2, IndexIn
<1>3. CASE level = 2
  BY <1>1, <1>3 DEF Reaches
<1>4. CASE level = 1
  BY <1>2, <1>4 DEF Reaches
<1>5. CASE level = 0
  <2>1. PICK u \in DOMAIN tb : /\ tb[RootTable][Index(v, 2)] = ToTable(u)
                               /\ tb[u][Index(v, 1)] = ToTable(t)
    BY <1>5 DEF Reaches
  <2>2. lv[u] = 1 /\ Index(v, 1) \in IndicesOf(u)
    BY <1>2, <2>1
  <2>3. t \in DOMAIN tb /\ 1 = lv[t] + 1
    BY <2>1, <2>2, LeadsDown
  <2>4. lv[t] \in 0..2
    BY <2>3 DEF TableTree
  <2>. QED BY <1>5, <2>3, <2>4
<1>. QED BY <1>3, <1>4, <1>5

\* Different pieces have different entries.
LEMMA WalksApart ==
  ASSUME NEW tb, NEW lv, TableTree(tb, lv), NEW v \in VirtualPages, NEW w \in VirtualPages,
         NEW level \in 0..2, NEW t, Reaches(tb, v, level, t), Reaches(tb, w, level, t),
         Index(v, level) = Index(w, level)
  PROVE  v \div Span(level) = w \div Span(level)
<1>1. /\ RootTable \in DOMAIN tb /\ Index(v, 2) \in IndicesOf(RootTable)
      /\ Index(w, 2) \in IndicesOf(RootTable)
  <2>1. RootTable \in DOMAIN tb /\ lv[RootTable] = 2
    BY DEF TableTree
  <2>. QED BY <2>1, IndexIn
<1>2. ASSUME NEW u, tb[RootTable][Index(v, 2)] = ToTable(u), tb[RootTable][Index(w, 2)] = ToTable(u)
      PROVE  v \div Span(2) = w \div Span(2)
  <2>1. u \in DOMAIN tb \ {RootTable}
    BY <1>1, <1>2, LeadsDown
  <2>2. PICK x, i : LedFrom(tb, u, x, i)
    BY <2>1 DEF TableTree
  <2>3. Index(v, 2) = Index(w, 2)
    BY <1>1, <1>2, <2>2 DEF LedFrom
  <2>. QED BY <2>3, SamePiece
<1>3. CASE level = 2
  BY <1>3, SamePiece
<1>4. CASE level = 1
  <2>1. v \div Span(2) = w \div Span(2)
    BY <1>2, <1>4 DEF Reaches
  <2>. QED BY <1>4, <2>1, SamePiece
<1>5. CASE level = 0
  <2>1. PICK x \in DOMAIN tb : /\ tb[RootTable][Index(v, 2)] = ToTable(x)
                               /\ tb[x][Index(v, 1)] = ToTable(t)
    BY <1>5 DEF Reaches
  <2>2. PICK y \in DOMAIN tb : /\ tb[RootTable][Index(w, 2)] = ToTable(y)
                               /\ tb[y][Index(w, 1)] = ToTable(t)
    BY <1>5 DEF Reaches
  <2>3. Reaches(tb, v, 1, x) /\ Reaches(tb, w, 1, y)
    BY <2>1, <2>2 DEF Reaches
  <2>4. Index(v, 1) \in IndicesOf(x) /\ Index(w, 1) \in IndicesOf(y)
    <3>1. lv[x] = 1 /\ lv[y] = 1
      BY <2>3, ReachedLevel
    <3>. QED BY <2>1, <2>2, <3>1, IndexIn
  <2>5. t \in DOMAIN tb \ {RootTable}
    BY <2>1, <2>4, LeadsDown
  <2>6. PICK z, i : LedFrom(tb, t, z, i)
    BY <2>5 DEF TableTree
  <2>7. x = y /\ Index(v, 1) = Index(w, 1)
    BY <2>1, <2>2, <2>4, <2>6 DEF LedFrom
  <2>8. v \div Span(2) = w \div Span(2)
    BY <1>2, <2>1, <2>2, <2>7
  <2>9. v \div Span(1) = w \div Span(1)
    BY <2>7, <2>8, SamePiece
  <2>. QED BY <1>5, <2>9, SamePiece
<1>. QED BY <1>3, <1>4, <1>5

-----------------------------------------------------------------------------
(* A mapping: page vpage leads to leaf through a leaf entry of a level.    *)

Want(vpage, leaf, level) == [vpage |-> vpage, leaf |-> leaf, level |-> level]

IsLeafFor(entry, w) ==
  /\ entry.kind = "leaf" /\ entry.page % Span(w.level) = 0
  /\ w.leaf = Leaf(entry.page + (w.vpage % Span(w.level)), entry.prot)

MappedAs(tb, w) ==
  \E t \in DOMAIN tb : /\ Reaches(tb, w.vpage, w.level, t)
                       /\ IsLeafFor(tb[t][Index(w.vpage, w.level)], w)

\* It is what the hardware finds.
LEMMA MappedFound ==
  ASSUME NEW lv, TableTree(tables, lv), NEW w, w.vpage \in VirtualPages, w.level \in 0..2,
         MappedAs(tables, w)
  PROVE  Translate(w.vpage) = w.leaf
<1>1. PICK t \in DOMAIN tables : /\ Reaches(tables, w.vpage, w.level, t)
                                 /\ IsLeafFor(tables[t][Index(w.vpage, w.level)], w)
  BY DEF MappedAs
<1>. DEFINE e2 == tables[RootTable][Index(w.vpage, 2)]
            e1 == tables[e2.block][Index(w.vpage, 1)]
            e0 == tables[e1.block][Index(w.vpage, 0)]
            found(entry, level) ==
              IF entry.kind = "leaf" /\ entry.page % Span(level) = 0
              THEN Leaf(entry.page + (w.vpage % Span(level)), entry.prot) ELSE None
<1>2. Translate(w.vpage) = IF e2.kind # "table" THEN found(e2, 2)
                           ELSE IF e1.kind # "table" THEN found(e1, 1) ELSE found(e0, 0)
  BY DEF Translate
<1>3. \A b : ToTable(b).block = b /\ ToTable(b).kind = "table"
  BY DEF ToTable
<1>4. CASE w.level = 2
  <2>1. IsLeafFor(e2, w)
    BY <1>1, <1>4 DEF Reaches
  <2>2. found(e2, 2) = w.leaf /\ e2.kind = "leaf"
    BY <1>4, <2>1 DEF IsLeafFor
  <2>. HIDE DEF e2, e1, e0, found
  <2>. QED BY <1>2, <2>2
<1>5. CASE w.level = 1
  <2>1. e2 = ToTable(t)
    BY <1>1, <1>5 DEF Reaches
  <2>2. e2.kind = "table" /\ IsLeafFor(e1, w)
    BY <1>1, <1>3, <1>5, <2>1
  <2>3. found(e1, 1) = w.leaf /\ e1.kind = "leaf"
    BY <1>5, <2>2 DEF IsLeafFor
  <2>. HIDE DEF e2, e1, e0, found
  <2>. QED BY <1>2, <2>2, <2>3
<1>6. CASE w.level = 0
  <2>1. PICK u \in DOMAIN tables : e2 = ToTable(u) /\ tables[u][Index(w.vpage, 1)] = ToTable(t)
    BY <1>1, <1>6 DEF Reaches
  <2>2. e2.kind = "table" /\ e1 = ToTable(t)
    BY <1>3, <2>1
  <2>3. e1.kind = "table" /\ IsLeafFor(e0, w)
    BY <1>1, <1>3, <1>6, <2>2
  <2>4. found(e0, 0) = w.leaf
    BY <1>6, <2>3 DEF IsLeafFor
  <2>. HIDE DEF e2, e1, e0, found
  <2>. QED BY <1>2, <2>2, <2>3, <2>4
<1>. QED BY <1>4, <1>5, <1>6

\* One entry, which leads to no table, may become another one, and new tables
\* may be added.
EntryChanged(tb, new, t, i) ==
  /\ DOMAIN tb \subseteq DOMAIN new
  /\ tb[t][i].kind # "table"
  /\ \A u \in DOMAIN tb : \A j \in IndicesOf(u) : ~ (u = t /\ j = i) => new[u][j] = tb[u][j]

\* Walks go on as they did,
LEMMA WalksStay ==
  ASSUME NEW tb, NEW lv, TableTree(tb, lv), NEW new, NEW t, NEW i, EntryChanged(tb, new, t, i),
         NEW v \in VirtualPages, NEW level \in 0..2, NEW u, Reaches(tb, v, level, u)
  PROVE  Reaches(new, v, level, u)
<1>1. \A x \in DOMAIN tb : \A j \in IndicesOf(x) : \A b :
        tb[x][j] = ToTable(b) => new[x][j] = ToTable(b)
  BY Kinds DEF EntryChanged
<1>2. RootTable \in DOMAIN tb /\ Index(v, 2) \in IndicesOf(RootTable)
  <2>1. RootTable \in DOMAIN tb /\ lv[RootTable] = 2
    BY DEF TableTree
  <2>. QED BY <2>1, IndexIn
<1>3. CASE level = 2
  BY <1>3 DEF Reaches
<1>4. CASE level = 1
  BY <1>1, <1>2, <1>4 DEF Reaches
<1>5. CASE level = 0
  <2>1. PICK x \in DOMAIN tb : /\ tb[RootTable][Index(v, 2)] = ToTable(x)
                               /\ tb[x][Index(v, 1)] = ToTable(u)
    BY <1>5 DEF Reaches
  <2>2. Reaches(tb, v, 1, x)
    BY <2>1 DEF Reaches
  <2>3. Index(v, 1) \in IndicesOf(x)
    <3>1. lv[x] = 1
      BY <2>2, ReachedLevel
    <3>. QED BY <3>1, IndexIn
  <2>4. new[RootTable][Index(v, 2)] = ToTable(x) /\ new[x][Index(v, 1)] = ToTable(u)
    BY <1>1, <1>2, <2>1, <2>3
  <2>5. x \in DOMAIN new
    BY DEF EntryChanged
  <2>. QED BY <1>5, <2>4, <2>5 DEF Reaches
<1>. QED BY <1>3, <1>4, <1>5

\* and mappings stay but the ones of the piece the entry stands for.
LEMMA MappingsStay ==
  ASSUME NEW tb, NEW lv, TableTree(tb, lv), NEW new, NEW v \in VirtualPages, NEW level \in 0..2,
         NEW t, Reaches(tb, v, level, t), EntryChanged(tb, new, t, Index(v, level)),
         NEW w, w.vpage \in VirtualPages, w.level \in 0..2, MappedAs(tb, w)
  PROVE  \/ MappedAs(new, w)
         \/ w.level = level /\ w.vpage \div Span(level) = v \div Span(level)
<1>1. PICK u \in DOMAIN tb : /\ Reaches(tb, w.vpage, w.level, u)
                             /\ IsLeafFor(tb[u][Index(w.vpage, w.level)], w)
  BY DEF MappedAs
<1>2. lv[u] = w.level /\ Index(w.vpage, w.level) \in IndicesOf(u)
  <2>1. lv[u] = w.level
    BY <1>1, ReachedLevel
  <2>2. Index(w.vpage, lv[u]) \in IndicesOf(u)
    BY IndexIn
  <2>. QED BY <2>1, <2>2
<1>3. CASE u = t /\ Index(w.vpage, w.level) = Index(v, level)
  <2>1. lv[t] = level
    BY ReachedLevel
  <2>2. w.vpage \div Span(level) = v \div Span(level)
    BY <1>1, <1>2, <1>3, <2>1, WalksApart
  <2>. QED BY <1>2, <1>3, <2>1, <2>2
<1>4. CASE ~ (u = t /\ Index(w.vpage, w.level) = Index(v, level))
  <2>1. new[u][Index(w.vpage, w.level)] = tb[u][Index(w.vpage, w.level)] /\ u \in DOMAIN new
    BY <1>2, <1>4 DEF EntryChanged
  <2>2. Reaches(new, w.vpage, w.level, u)
    BY <1>1, WalksStay
  <2>. QED BY <1>1, <2>1, <2>2 DEF MappedAs
<1>. QED BY <1>3, <1>4

-----------------------------------------------------------------------------
(* The kernel's memory and the windows.                                    *)

\* The board as the kernel takes it: the memory begins at a large piece in the
\* lower half, the kernel lies in it where it is linked to, and begins and ends
\* at a middle piece; memory and windows fit into the upper half.
Layout ==
  stage \notin {"entry", "halted"} =>
    /\ ram.first >= 0 /\ ram.pages >= 0 /\ ram.first % Span(2) = 0
    /\ ram.first + ram.pages <= Span(2) * (RootEntries \div 2)
    /\ KernelFirst % Span(1) = 0 /\ KernelPages % Span(1) = 0
    /\ ram.first <= KernelFirst /\ KernelPages >= 0
    /\ KernelFirst + KernelPages <= ram.first + ram.pages
    /\ KernelVFirst = KernelBase + (KernelFirst - ram.first)
    /\ MmioBase <= Span(2) * RootEntries
    /\ \A i \in DOMAIN windows :
         /\ windows[i].pages >= 0
         /\ windows[i].vpage + windows[i].pages <= Span(2) * RootEntries

RamWanted ==
  {Want(KernelBase + n, Leaf(ram.first + n, IF InKernel(n) THEN "kernel" ELSE "ram"), 1) :
     n \in 0..(ram.pages - 1)}

WindowWanted(window) ==
  {Want(window.vpage + n, Leaf(window.first + n, "mmio"), 0) : n \in 0..(window.pages - 1)}

\* The mappings of the kernel once the tables are refined.
Wanted == RamWanted \cup UNION {WindowWanted(windows[i]) : i \in DOMAIN windows}

\* A page is still to be mapped.
Pending(v) ==
  \E i \in DOMAIN jobs :
    v \in (jobs[i].vpage + (IF i = 1 THEN at.offset ELSE 0))..(jobs[i].vpage + jobs[i].pages - 1)

\* A job maps pages as they are wanted, the ones behind its last page too that
\* lie in one piece with it.
JobSound(job) ==
  /\ job.pages > 0
  /\ job.vpage % Span(job.leaf) = 0 /\ job.page % Span(job.leaf) = 0
  /\ KernelBase <= job.vpage /\ job.vpage + job.pages <= Span(2) * RootEntries
  /\ job.leaf = 0 => MmioBase <= job.vpage
  /\ \A w \in Wanted :
       w.vpage - (w.vpage % Span(job.leaf)) \in job.vpage..(job.vpage + job.pages - 1) =>
         w.level = job.leaf /\ w.leaf = Leaf(job.page + (w.vpage - job.vpage), job.prot)

\* pagewalk is on its way to the page it maps.
Walking ==
  IF jobs = << >> THEN at = Start
  ELSE /\ at.offset \in 0..(jobs[1].pages - 1) /\ at.offset % Span(jobs[1].leaf) = 0
       /\ Reaches(tables, VPage, at.level, at.table)

LargePieces ==
  stage \in {"initrd", "memory", "reserve", "populate", "refine"} =>
    \A n \in 0..(ram.pages - 1) :
      MappedAs(tables, Want(KernelBase + n, Leaf(ram.first + n, "kernel"), 2))

LowerHalfClear ==
  stage \in {"refine", "devices", "ready"} =>
    \A i \in 0..(RootEntries \div 2 - 1) : tables[RootTable][i] = None

WindowsInOrder ==
  /\ stage \notin {"devices", "ready"} => windows = << >>
  /\ \A i \in DOMAIN windows :
       MmioBase <= windows[i].vpage /\ windows[i].vpage + windows[i].pages <= NextWindow

\* Each page of the kernel is mapped or still to be mapped.
PagesMapped ==
  stage \in {"devices", "ready"} =>
    /\ \A w \in Wanted : Pending(w.vpage) \/ MappedAs(tables, w)
    /\ \A i \in DOMAIN jobs : JobSound(jobs[i])

MapInv == Walking /\ LargePieces /\ LowerHalfClear /\ WindowsInOrder /\ PagesMapped

\* A number rounded up to a multiple.
LEMMA RoundedUp ==
  ASSUME NEW p \in Nat \ {0}, NEW n \in Nat
  PROVE  /\ (n + p - 1) \div p \in Nat
         /\ n <= ((n + p - 1) \div p) * p
<1>. DEFINE m == n + p - 1
<1>1. m \in Nat
  OBVIOUS
<1>. HIDE DEF m
<1>2. m \div p \in Nat /\ m % p \in 0..(p - 1) /\ m = (m \div p) * p + (m % p)
  BY <1>1, Places
<1>3. (m \div p) * p \in Nat
  BY <1>2
<1>. DEFINE q == (m \div p) * p
<1>4. q \in Nat /\ m = q + (m % p)
  BY <1>2, <1>3
<1>. HIDE DEF q
<1>5. n <= q
  BY <1>2, <1>4 DEF m
<1>. QED BY <1>2, <1>5 DEF q, m

\* The kernel's memory begins at an entry of the root.
LEMMA BaseGiven ==
  \E k \in Nat : KernelBase = k * Span(2) /\ RootEntries \div 2 <= k
<1>. DEFINE p == Span(2)
            k == KernelBase \div p
            h == RootEntries \div 2
<1>1. p \in Nat \ {0} /\ KernelBase \in Nat /\ p = Entries * Entries
  BY Spans
<1>2. KernelBase % p = 0 /\ h \in Nat /\ KernelBase >= p * h
  BY <1>1, Spans, KernelBaseAssumption
<1>. HIDE DEF p, h
<1>3. k \in Nat /\ KernelBase = k * p
  <2>1. k \in Nat /\ KernelBase = k * p + (KernelBase % p)
    BY <1>1, Places
  <2>2. k * p \in Nat
    BY <1>1, <2>1
  <2>. QED BY <1>2, <2>1, <2>2
<1>. HIDE DEF k
<1>4. h <= k
  <2>1. p * h = h * p /\ (k + 1) * p = k * p + p /\ h * p \in Nat /\ k * p \in Nat
    BY <1>1, <1>2, <1>3
  <2>2. h * p < (k + 1) * p
    BY <1>1, <1>2, <1>3, <2>1
  <2>3. h < k + 1
    BY <1>1, <1>2, <1>3, <2>2, Multiply
  <2>. QED BY <1>2, <1>3, <2>3
<1>. QED BY <1>3, <1>4 DEF p, h

\* Where the kernel's memory and the windows lie.
LEMMA BasesGiven ==
  ASSUME TablesInv, Layout, stage \notin {"entry", "halted"}
  PROVE  /\ ram.first \in Nat /\ ram.pages \in Nat /\ KernelBase \in Nat /\ MmioBase \in Nat
         /\ \E k \in Nat : KernelBase = k * Span(2) /\ RootEntries \div 2 <= k
         /\ \E m \in Nat : MmioBase = m * Span(2)
         /\ KernelBase + ram.pages <= MmioBase
         /\ MmioBase <= Span(2) * RootEntries
<1>1. ram.first \in Nat /\ ram.pages \in Nat
  BY DEF TablesInv, Layout
<1>2. Span(2) \in Nat \ {0} /\ KernelBase \in Nat
  BY Spans
<1>3. PICK k \in Nat : KernelBase = k * Span(2) /\ RootEntries \div 2 <= k
  BY BaseGiven
<1>. DEFINE p == Span(2)
            c == (ram.pages + p - 1) \div p
<1>4. p \in Nat \ {0} /\ k \in Nat /\ KernelBase = k * p
  BY <1>2, <1>3
<1>5. c \in Nat /\ ram.pages <= c * p
  BY <1>1, <1>4, RoundedUp
<1>6. MmioBase = KernelBase + p * c
  BY DEF MmioBase
<1>7. MmioBase = (k + c) * p /\ KernelBase + ram.pages <= MmioBase /\ MmioBase \in Nat
  <2>. HIDE DEF p, c
  <2>1. p * c = c * p /\ (k + c) * p = k * p + c * p /\ c * p \in Nat /\ k * p \in Nat
    BY <1>4, <1>5
  <2>. QED BY <1>1, <1>4, <1>5, <1>6, <2>1
<1>8. MmioBase <= Span(2) * RootEntries
  BY DEF Layout
<1>9. \E i \in Nat : KernelBase = i * Span(2) /\ RootEntries \div 2 <= i
  BY <1>3
<1>10. \E m \in Nat : MmioBase = m * Span(2)
  <2>1. k + c \in Nat
    BY <1>3, <1>5
  <2>. QED BY <1>7, <2>1
<1>. QED BY <1>1, <1>2, <1>7, <1>8, <1>9, <1>10

LEMMA WindowGiven ==
  ASSUME TablesInv, Layout, WindowsInOrder, stage \notin {"entry", "halted"}
  PROVE  /\ \A i \in DOMAIN windows :
              /\ windows[i].vpage \in Nat /\ windows[i].first \in Int /\ windows[i].pages \in Nat
              /\ MmioBase <= windows[i].vpage
              /\ windows[i].vpage + windows[i].pages <= NextWindow
         /\ NextWindow \in Nat /\ MmioBase <= NextWindow
         /\ NextWindow <= Span(2) * RootEntries
<1>. DEFINE W == [vpage : Int, first : Int, pages : Int]
<1>1. windows \in Seq(W)
  BY DEF TablesInv
<1>2. \A i \in DOMAIN windows : windows[i] \in W
  <2>. HIDE DEF W
  <2>. QED BY <1>1
<1>3. ASSUME NEW i \in DOMAIN windows
      PROVE  /\ windows[i].vpage \in Nat /\ windows[i].first \in Int /\ windows[i].pages \in Nat
             /\ MmioBase <= windows[i].vpage
             /\ windows[i].vpage + windows[i].pages <= NextWindow
             /\ windows[i].vpage + windows[i].pages <= Span(2) * RootEntries
  <2>1. windows[i].vpage \in Int /\ windows[i].first \in Int /\ windows[i].pages \in Int
    BY <1>2
  <2>2. windows[i].pages >= 0 /\ windows[i].vpage + windows[i].pages <= Span(2) * RootEntries
    BY DEF Layout
  <2>3. MmioBase <= windows[i].vpage /\ windows[i].vpage + windows[i].pages <= NextWindow
    BY DEF WindowsInOrder
  <2>4. MmioBase \in Nat
    BY BasesGiven
  <2>. QED BY <2>1, <2>2, <2>3, <2>4
<1>4. NextWindow \in Nat /\ MmioBase <= NextWindow /\ NextWindow <= Span(2) * RootEntries
  <2>1. CASE windows = << >>
    BY <2>1, BasesGiven DEF NextWindow
  <2>2. CASE windows # << >>
    <3>1. Len(windows) \in DOMAIN windows
      BY <1>1, <2>2
    <3>2. NextWindow = windows[Len(windows)].vpage + windows[Len(windows)].pages
      BY <2>2 DEF NextWindow
    <3>3. MmioBase \in Nat
      BY BasesGiven
    <3>. QED BY <1>3, <3>1, <3>2, <3>3
  <2>. QED BY <2>1, <2>2
<1>. QED BY <1>3, <1>4

\* What is wanted lies in the upper half: the memory below the windows.
LEMMA WantedGiven ==
  ASSUME TablesInv, Layout, WindowsInOrder, stage \notin {"entry", "halted"}, NEW w \in Wanted
  PROVE  /\ w.vpage \in VirtualPages /\ w.level \in {0, 1} /\ KernelBase <= w.vpage
         /\ w.level = 1 => w.vpage < MmioBase
         /\ w.level = 0 => MmioBase <= w.vpage /\ w.vpage < NextWindow
<1>1. /\ ram.pages \in Nat /\ KernelBase \in Nat /\ MmioBase \in Nat
      /\ KernelBase + ram.pages <= MmioBase /\ MmioBase <= Span(2) * RootEntries
      /\ Span(2) * RootEntries \in Nat
  BY BasesGiven, Spans
<1>2. CASE w \in RamWanted
  <2>1. PICK n \in 0..(ram.pages - 1) : w.vpage = KernelBase + n /\ w.level = 1
    BY <1>2 DEF RamWanted, Want
  <2>. QED BY <1>1, <2>1 DEF VirtualPages
<1>3. ASSUME NEW i \in DOMAIN windows, w \in WindowWanted(windows[i]) PROVE w.level = 0
        /\ MmioBase <= w.vpage /\ w.vpage < NextWindow /\ w.vpage \in Nat
  <2>1. PICK n \in 0..(windows[i].pages - 1) : w.vpage = windows[i].vpage + n /\ w.level = 0
    BY <1>3 DEF WindowWanted, Want
  <2>. QED BY <1>1, <2>1, WindowGiven
<1>4. NextWindow \in Nat /\ NextWindow <= Span(2) * RootEntries
  BY WindowGiven
<1>5. CASE w \notin RamWanted
  <2>1. PICK i \in DOMAIN windows : w \in WindowWanted(windows[i])
    BY <1>5 DEF Wanted
  <2>. QED BY <1>1, <1>3, <1>4, <2>1 DEF VirtualPages
<1>. QED BY <1>2, <1>5

\* What is mapped and what is clear is what KernelMapped says.
LEMMA AllFound ==
  ASSUME TablesInv, Layout, MapInv
  PROVE  KernelMapped
<1>1. PICK lv : TableTree(tables, lv)
  BY DEF TablesInv, Walked
<1>2. MappedAtBoot
  <2>. SUFFICES ASSUME stage \in {"initrd", "memory", "reserve", "populate", "refine"},
                       NEW n \in 0..(ram.pages - 1)
                PROVE  Translate(KernelBase + n) = Leaf(ram.first + n, "kernel")
    BY DEF MappedAtBoot
  <2>. DEFINE w == Want(KernelBase + n, Leaf(ram.first + n, "kernel"), 2)
  <2>1. MappedAs(tables, w)
    BY DEF MapInv, LargePieces
  <2>2. w.vpage = KernelBase + n /\ w.leaf = Leaf(ram.first + n, "kernel") /\ w.level = 2
    BY DEF Want
  <2>3. KernelBase + n \in VirtualPages
    <3>1. /\ ram.pages \in Nat /\ KernelBase \in Nat /\ MmioBase \in Nat
          /\ KernelBase + ram.pages <= MmioBase /\ MmioBase <= Span(2) * RootEntries
          /\ Span(2) * RootEntries \in Nat
      BY BasesGiven, Spans
    <3>. QED BY <3>1 DEF VirtualPages
  <2>. HIDE DEF w
  <2>4. Translate(w.vpage) = w.leaf
    BY <1>1, <2>1, <2>2, <2>3, MappedFound
  <2>. QED BY <2>2, <2>4
<1>3. MappedByPages
  <2>. SUFFICES ASSUME stage \in {"devices", "ready"}, jobs = << >>
                PROVE  MappedByPages
    BY DEF MappedByPages
  <2>1. ASSUME NEW w \in Wanted PROVE Translate(w.vpage) = w.leaf
    <3>1. ~ Pending(w.vpage)
      BY DEF Pending
    <3>2. MappedAs(tables, w)
      BY <3>1 DEF MapInv, PagesMapped
    <3>3. w.vpage \in VirtualPages /\ w.level \in 0..2
      BY WantedGiven DEF MapInv
    <3>. QED BY <1>1, <3>2, <3>3, MappedFound
  <2>2. ASSUME NEW n \in 0..(ram.pages - 1)
        PROVE  Translate(KernelBase + n) =
                 Leaf(ram.first + n, IF InKernel(n) THEN "kernel" ELSE "ram")
    <3>. DEFINE w == Want(KernelBase + n, Leaf(ram.first + n, IF InKernel(n) THEN "kernel" ELSE "ram"), 1)
    <3>1. w \in Wanted
      BY DEF Wanted, RamWanted
    <3>2. w.vpage = KernelBase + n
          /\ w.leaf = Leaf(ram.first + n, IF InKernel(n) THEN "kernel" ELSE "ram")
      BY DEF Want
    <3>. HIDE DEF w
    <3>. QED BY <2>1, <3>1, <3>2
  <2>3. ASSUME NEW i \in DOMAIN windows, NEW n \in 0..(windows[i].pages - 1)
        PROVE  Translate(windows[i].vpage + n) = Leaf(windows[i].first + n, "mmio")
    <3>. DEFINE w == Want(windows[i].vpage + n, Leaf(windows[i].first + n, "mmio"), 0)
    <3>1. w \in Wanted
      <4>1. w \in WindowWanted(windows[i])
        BY DEF WindowWanted
      <4>. HIDE DEF w
      <4>. QED BY <4>1 DEF Wanted
    <3>2. w.vpage = windows[i].vpage + n /\ w.leaf = Leaf(windows[i].first + n, "mmio")
      BY DEF Want
    <3>. HIDE DEF w
    <3>. QED BY <2>1, <3>1, <3>2
  <2>4. ASSUME NEW v \in 0..(Span(2) * (RootEntries \div 2) - 1) PROVE Translate(v) = None
    <3>. DEFINE h == RootEntries \div 2
                p == Span(2)
    <3>1. p \in Nat \ {0} /\ h \in Nat /\ h <= RootEntries /\ v \in Nat /\ v < p * h
          /\ p * h \in Nat /\ p * RootEntries \in Nat
      BY Spans
    <3>2. p * h <= p * RootEntries
      <4>1. h * p = p * h /\ RootEntries * p = p * RootEntries /\ RootEntries \in Nat
        BY <3>1, Spans
      <4>. HIDE DEF p, h
      <4>. QED BY <3>1, <4>1, Multiply
    <3>3. v \in VirtualPages
      <4>1. p * RootEntries = Span(2) * RootEntries
        OBVIOUS
      <4>. HIDE DEF p, h
      <4>2. v \in 0..(p * RootEntries - 1)
        BY <3>1, <3>2
      <4>. QED BY <4>1, <4>2 DEF VirtualPages
    <3>4. Index(v, 2) = v \div p
      BY <3>3, IndexIs
    <3>5. v \div p \in Nat /\ v \div p < h
      <4>. DEFINE q == v \div p
      <4>. HIDE DEF p, h
      <4>1. q \in Nat /\ v % p \in 0..(p - 1) /\ v = q * p + (v % p)
        BY <3>1, Places
      <4>2. q * p \in Nat /\ h * p \in Nat /\ h * p = p * h
        BY <3>1, <4>1
      <4>. HIDE DEF q
      <4>3. q * p < h * p
        BY <3>1, <4>1, <4>2
      <4>. QED BY <3>1, <4>1, <4>3, Multiply DEF q
    <3>6. tables[RootTable][Index(v, 2)] = None
      <4>. HIDE DEF p
      <4>1. v \div p \in 0..(RootEntries \div 2 - 1)
        BY <3>1, <3>5
      <4>. QED BY <3>4, <4>1 DEF MapInv, LowerHalfClear
    <3>. QED BY <3>6, Kinds DEF Translate, None
  <2>. QED BY <2>2, <2>3, <2>4 DEF MappedByPages
<1>. QED BY <1>2, <1>3 DEF KernelMapped

\* The page a walk is for.
LEMMA VPageGiven ==
  ASSUME TablesInv, Layout, MapInv, jobs # << >>
  PROVE  /\ stage \in {"devices", "ready"} /\ JobSound(jobs[1]) /\ 1 \in DOMAIN jobs
         /\ jobs[1] \in Jobs
         /\ VPage \in VirtualPages /\ KernelBase <= VPage
         /\ VPage = jobs[1].vpage + at.offset
         /\ at.offset \in 0..(jobs[1].pages - 1) /\ at.offset % Span(jobs[1].leaf) = 0
         /\ Reaches(tables, VPage, at.level, at.table)
<1>1. stage \in {"devices", "ready"}
  BY DEF TablesInv
<1>2. jobs \in Seq(Jobs) /\ 1 \in DOMAIN jobs
  BY DEF TablesInv
<1>3. jobs[1] \in Jobs
  BY <1>2
<1>4. JobSound(jobs[1])
  BY <1>1, <1>2 DEF MapInv, PagesMapped
<1>5. at.offset \in 0..(jobs[1].pages - 1)
  BY DEF MapInv, Walking
<1>6. VPage \in VirtualPages /\ KernelBase <= VPage
  <2>1. /\ jobs[1].vpage \in Int /\ jobs[1].pages \in Int /\ KernelBase \in Nat
        /\ KernelBase <= jobs[1].vpage
        /\ jobs[1].vpage + jobs[1].pages <= Span(2) * RootEntries
        /\ Span(2) * RootEntries \in Nat
    BY <1>3, <1>4, Spans DEF Jobs, JobSound
  <2>2. PICK limit \in Nat, v \in Int, n \in Int :
          limit = Span(2) * RootEntries /\ v = jobs[1].vpage /\ n = jobs[1].pages
    BY <2>1
  <2>3. PICK o \in 0..(n - 1) : o = at.offset
    BY <1>5, <2>2
  <2>4. v + o \in 0..(limit - 1) /\ KernelBase <= v + o
    <3>1. PICK base \in Nat : base = KernelBase
      BY <2>1
    <3>2. base <= v /\ v + n <= limit
      BY <2>1, <2>2, <3>1
    <3>3. v + o \in 0..(limit - 1) /\ base <= v + o
      BY <3>2
    <3>. QED BY <3>1, <3>3
  <2>. QED BY <2>2, <2>3, <2>4 DEF VPage, VirtualPages
<1>. QED BY <1>1, <1>2, <1>3, <1>4, <1>5, <1>6 DEF MapInv, Walking, VPage

\* A walk goes on one level down.
LEMMA ReachesDown ==
  ASSUME NEW tb, NEW v, NEW level \in 1..2, NEW t \in DOMAIN tb, Reaches(tb, v, level, t),
         NEW b, tb[t][Index(v, level)] = ToTable(b)
  PROVE  Reaches(tb, v, level - 1, b)
<1>1. CASE level = 2
  BY <1>1 DEF Reaches
<1>2. CASE level = 1
  <2>1. tb[RootTable][Index(v, 2)] = ToTable(t) /\ tb[t][Index(v, 1)] = ToTable(b)
    BY <1>2 DEF Reaches
  <2>2. Reaches(tb, v, 0, b)
    BY <2>1 DEF Reaches
  <2>. QED BY <1>2, <2>2
<1>. QED BY <1>1, <1>2

\* What is wanted depends on the board, the memory and the windows only, and
\* what is pending on the jobs.
LEMMA SameWanted ==
  ASSUME board' = board, ram' = ram, windows' = windows
  PROVE  /\ Wanted' = Wanted /\ NextWindow' = NextWindow /\ MmioBase' = MmioBase
         /\ \A job : JobSound(job)' <=> JobSound(job)
<1>1. NextWindow' = NextWindow /\ MmioBase' = MmioBase
  BY SMT DEF NextWindow, MmioBase
<1>2. Wanted' = Wanted
  BY SMT DEF Wanted, RamWanted, WindowWanted, InKernel, KernelFirst, KernelPages
<1>3. \A job : JobSound(job)' <=> JobSound(job)
  BY SMT, <1>1, <1>2 DEF JobSound
<1>. QED BY <1>1, <1>2, <1>3

\* The walk goes down into a table.
LEMMA FollowedKeeps ==
  ASSUME TablesInv, Layout, MapInv, FollowEntry
  PROVE  MapInv'
<1>1. /\ jobs # << >> /\ at.level > jobs[1].leaf /\ Entry.kind = "table"
      /\ at' = [at EXCEPT !.level = @ - 1, !.table = Entry.block]
      /\ UNCHANGED <<stage, board, ram, tables, jobs, windows>>
  BY DEF FollowEntry, boot_vars, setup_vars, board_vars
<1>2. PICK lv : Walked(lv)
  BY DEF TablesInv
<1>3. /\ at.table \in DOMAIN tables /\ at.level = lv[at.table] /\ at.level \in 0..2
      /\ Index(VPage, at.level) \in IndicesOf(at.table) /\ jobs[1].leaf \in {0, 1}
  BY <1>1, <1>2, WalkEntry DEF Jobs
<1>4. PICK b \in DOMAIN tables \ {RootTable} : Entry = ToTable(b)
  BY <1>1, <1>2, <1>3 DEF Entry, Walked, TableTree
<1>5. at'.level = at.level - 1 /\ at'.table = b /\ at'.offset = at.offset
  <2>1. Entry.block = b
    BY <1>4 DEF ToTable
  <2>2. at \in [offset : Int, level : Int, table : Int]
    BY DEF TablesInv
  <2>. QED BY <1>1, <2>1, <2>2
<1>6. VPage' = VPage
  BY <1>1, <1>5 DEF VPage
<1>7. Walking'
  <2>1. Reaches(tables, VPage, at.level - 1, b)
    <3>1. at.level \in 1..2
      BY <1>1, <1>3
    <3>2. Reaches(tables, VPage, at.level, at.table)
      BY <1>1, VPageGiven
    <3>. QED BY <1>3, <1>4, <3>1, <3>2, ReachesDown DEF Entry
  <2>2. Reaches(tables, VPage, at.level, at.table)' <=> Reaches(tables, VPage, at.level - 1, b)
    BY <1>1, <1>5, <1>6
  <2>. QED BY <1>1, <1>5, <2>1, <2>2 DEF MapInv, Walking
<1>8. PagesMapped'
  <2>1. \A v : Pending(v)' <=> Pending(v)
    BY <1>1, <1>5 DEF Pending
  <2>2. Wanted' = Wanted /\ \A job : JobSound(job)' <=> JobSound(job)
    BY <1>1, SameWanted
  <2>. QED BY <1>1, <2>1, <2>2 DEF MapInv, PagesMapped
<1>9. LargePieces' /\ LowerHalfClear'
  BY <1>1 DEF MapInv, LargePieces, LowerHalfClear
<1>10. WindowsInOrder'
  BY <1>1, SameWanted DEF MapInv, WindowsInOrder
<1>. QED BY <1>7, <1>8, <1>9, <1>10 DEF MapInv

\* Numbers on the two sides of a multiple are in different pieces.
LEMMA SidesApart ==
  ASSUME NEW p \in Nat \ {0}, NEW k \in Nat, NEW a \in Nat, NEW b \in Nat
  PROVE  /\ a < k * p => a \div p < k
         /\ k * p <= b => k <= b \div p
<1>. DEFINE x == a \div p
            y == b \div p
<1>1. x \in Nat /\ a = x * p + (a % p) /\ a % p \in 0..(p - 1)
  BY Places
<1>2. y \in Nat /\ b = y * p + (b % p) /\ b % p \in 0..(p - 1)
  BY Places
<1>. HIDE DEF x, y
<1>3. x * p \in Int /\ k * p \in Int /\ y * p \in Int /\ (y + 1) * p = y * p + p
  BY <1>1, <1>2, Multiply
<1>4. ASSUME a < k * p PROVE x < k
  <2>1. x * p < k * p
    BY <1>1, <1>3, <1>4
  <2>. QED BY <1>1, <2>1, Multiply
<1>5. ASSUME k * p <= b PROVE k <= y
  <2>1. k * p < (y + 1) * p
    BY <1>2, <1>3, <1>5
  <2>2. k < y + 1
    BY <1>2, <2>1, Multiply
  <2>. QED BY <1>2, <2>2
<1>. QED BY <1>4, <1>5 DEF x, y

\* The memory and the windows share no piece of the second level.
LEMMA WindowsApart ==
  ASSUME TablesInv, Layout, stage \notin {"entry", "halted"},
         NEW v \in VirtualPages, NEW w \in VirtualPages, w < MmioBase, MmioBase <= v
  PROVE  w \div Span(1) # v \div Span(1)
<1>1. PICK m \in Nat : MmioBase = m * Span(2)
  BY BasesGiven
<1>2. Entries \in Nat \ {0} /\ Span(1) = Entries /\ Span(2) = Entries * Entries
  BY Spans
<1>3. m * Entries \in Nat /\ MmioBase = (m * Entries) * Entries
  BY <1>1, <1>2
<1>4. v \in Nat /\ w \in Nat
  BY IndexIs
<1>. DEFINE k == m * Entries
<1>5. k \in Nat /\ w < k * Entries /\ k * Entries <= v
  BY <1>3
<1>. HIDE DEF k
<1>6. w \div Entries < k /\ k <= v \div Entries
  BY <1>2, <1>4, <1>5, SidesApart
<1>7. w \div Entries \in Nat /\ v \div Entries \in Nat
  BY <1>2, <1>4, Places
<1>. QED BY <1>2, <1>5, <1>6, <1>7

\* An entry of the root for the upper half.
LEMMA UpperEntry ==
  ASSUME TablesInv, Layout, stage \notin {"entry", "halted"},
         NEW v \in VirtualPages, KernelBase <= v
  PROVE  RootEntries \div 2 <= Index(v, 2)
<1>1. PICK k \in Nat : KernelBase = k * Span(2) /\ RootEntries \div 2 <= k
  BY BasesGiven
<1>2. Span(2) \in Nat \ {0} /\ RootEntries \div 2 \in Nat
  BY Spans
<1>3. v \in Nat /\ Index(v, 2) = v \div Span(2) /\ v \div Span(2) \in Nat
  BY IndexIs
<1>4. k <= v \div Span(2)
  BY <1>1, <1>2, <1>3, SidesApart
<1>. QED BY <1>1, <1>2, <1>3, <1>4

\* A new table in the place of an entry that led to none.
LEMMA AllocatedKeeps ==
  ASSUME BootInv, TablesInv, Layout, MapInv, AllocateTable
  PROVE  MapInv'
<1>1. /\ jobs # << >> /\ at.level > jobs[1].leaf /\ Entry.kind # "table"
      /\ memory_allocate_pages(TableSize)
      /\ UNCHANGED <<stage, board, ram, jobs, windows>>
  BY DEF AllocateTable, setup_vars, board_vars
<1>2. PICK block \in Pages : block \notin DOMAIN held /\ DOMAIN held' = DOMAIN held \cup {block}
  <2>1. TableSize \in Nat
    BY PageAssumption DEF TableSize
  <2>. QED BY <1>1, <2>1, PagesAllocated DEF BootInv
<1>3. NewTable = block
  BY <1>2 DEF NewTable
<1>4. /\ tables' = [t \in DOMAIN tables \cup {block} |->
           IF t = block THEN [i \in 0..(Entries - 1) |-> None]
           ELSE SetEntry(ToTable(block))[t]]
      /\ at' = [at EXCEPT !.level = @ - 1, !.table = block]
  BY <1>3 DEF AllocateTable
<1>5. block \notin DOMAIN tables
  <2>1. block # RootTable
    BY <1>2, TableNumbers
  <2>. QED BY <1>2, <2>1 DEF TablesInv
<1>6. PICK lv : Walked(lv)
  BY DEF TablesInv
<1>. DEFINE idx == Index(VPage, at.level)
<1>7. /\ at.table \in DOMAIN tables /\ at.level = lv[at.table] /\ at.level \in 1..2
      /\ idx \in IndicesOf(at.table) /\ jobs[1].leaf \in {0, 1} /\ TableTree(tables, lv)
  BY <1>1, <1>6, WalkEntry DEF Jobs, Walked
<1>8. /\ stage \in {"devices", "ready"} /\ JobSound(jobs[1])
      /\ VPage \in VirtualPages /\ KernelBase <= VPage /\ VPage = jobs[1].vpage + at.offset
      /\ at.offset \in 0..(jobs[1].pages - 1)
      /\ Reaches(tables, VPage, at.level, at.table)
  BY <1>1, VPageGiven
<1>9. /\ DOMAIN tables' = DOMAIN tables \cup {block}
      /\ \A u \in DOMAIN tables : \A j \in IndicesOf(u) :
           tables'[u][j] = IF u = at.table /\ j = idx THEN ToTable(block) ELSE tables[u][j]
  <2>1. \A u \in DOMAIN tables : tables[u] = [j \in IndicesOf(u) |-> tables[u][j]] /\ u # block
    BY <1>5, <1>7 DEF TableTree
  <2>2. ASSUME NEW u \in DOMAIN tables, NEW j \in IndicesOf(u)
        PROVE  tables'[u][j] = IF u = at.table /\ j = idx THEN ToTable(block) ELSE tables[u][j]
    <3>1. tables'[u] = SetEntry(ToTable(block))[u]
      BY <1>4, <2>1
    <3>2. SetEntry(ToTable(block))[u] =
            IF u = at.table THEN [tables[u] EXCEPT ![idx] = ToTable(block)] ELSE tables[u]
      BY DEF SetEntry
    <3>. HIDE DEF idx
    <3>. QED BY <2>1, <3>1, <3>2
  <2>. QED BY <1>4, <2>2
<1>10. EntryChanged(tables, tables', at.table, idx)
  BY <1>1, <1>9 DEF EntryChanged, Entry
<1>11. at'.level = at.level - 1 /\ at'.table = block /\ at'.offset = at.offset
  <2>1. at \in [offset : Int, level : Int, table : Int]
    BY DEF TablesInv
  <2>. QED BY <1>4, <2>1
<1>12. VPage' = VPage
  BY <1>1, <1>11 DEF VPage
<1>13. Walking'
  <2>1. Reaches(tables', VPage, at.level - 1, block)
    <3>1. Reaches(tables', VPage, at.level, at.table)
      BY <1>7, <1>8, <1>10, WalksStay
    <3>2. tables'[at.table][idx] = ToTable(block) /\ at.table \in DOMAIN tables'
      BY <1>7, <1>9
    <3>. QED BY <1>7, <3>1, <3>2, ReachesDown
  <2>2. Reaches(tables, VPage, at.level, at.table)' <=> Reaches(tables', VPage, at.level - 1, block)
    BY <1>11, <1>12
  <2>. QED BY <1>1, <1>11, <2>1, <2>2 DEF MapInv, Walking
<1>14. ASSUME NEW w \in Wanted, MappedAs(tables, w) PROVE MappedAs(tables', w)
  <2>1. /\ w.vpage \in VirtualPages /\ w.level \in {0, 1}
        /\ w.level = 1 => w.vpage < MmioBase
    BY <1>8, WantedGiven DEF MapInv
  <2>2. SUFFICES ASSUME w.level = at.level, w.vpage \div Span(at.level) = VPage \div Span(at.level)
                 PROVE  FALSE
    <3>1. w.level \in 0..2 /\ at.level \in 0..2
      BY <1>7, <2>1
    <3>. QED BY <1>7, <1>8, <1>10, <1>14, <2>1, <3>1, MappingsStay
  <2>3. w.level = 1 /\ jobs[1].leaf = 0
    BY <1>1, <1>7, <2>1, <2>2
  <2>4. MmioBase <= VPage
    <3>1. MmioBase <= jobs[1].vpage /\ MmioBase \in Nat
      BY <1>8, <2>3, BasesGiven DEF JobSound
    <3>2. jobs[1].vpage \in Int /\ at.offset \in Nat
      BY <1>1, <1>6, <1>8, WalkEntry DEF Jobs
    <3>. QED BY <1>8, <3>1, <3>2
  <2>. QED BY <1>7, <1>8, <2>1, <2>2, <2>3, <2>4, WindowsApart
<1>15. PagesMapped'
  <2>1. \A v : Pending(v)' <=> Pending(v)
    BY <1>1, <1>11 DEF Pending
  <2>2. Wanted' = Wanted /\ \A job : JobSound(job)' <=> JobSound(job)
    BY <1>1, SameWanted
  <2>3. \A w \in Wanted : Pending(w.vpage) \/ MappedAs(tables', w)
    BY <1>8, <1>14 DEF MapInv, PagesMapped
  <2>4. \A i \in DOMAIN jobs : JobSound(jobs[i])
    BY <1>8 DEF MapInv, PagesMapped
  <2>. QED BY <1>1, <2>1, <2>2, <2>3, <2>4 DEF PagesMapped
<1>16. LargePieces'
  BY <1>1, <1>8 DEF LargePieces
<1>17. LowerHalfClear'
  <2>1. ASSUME NEW i \in 0..(RootEntries \div 2 - 1) PROVE tables'[RootTable][i] = None
    <3>1. RootTable \in DOMAIN tables /\ i \in IndicesOf(RootTable)
      <4>1. RootEntries \in Nat /\ RootEntries \div 2 <= RootEntries /\ RootEntries \div 2 \in Nat
        BY Spans
      <4>. QED BY <1>7, <4>1 DEF TableTree, IndicesOf
    <3>2. tables[RootTable][i] = None
      BY <1>8 DEF MapInv, LowerHalfClear
    <3>3. ~ (RootTable = at.table /\ i = idx)
      <4>1. SUFFICES ASSUME RootTable = at.table, i = idx PROVE FALSE
        OBVIOUS
      <4>2. at.level = 2
        BY <1>7, <4>1 DEF TableTree
      <4>3. RootEntries \div 2 <= i
        BY <1>8, <4>1, <4>2, UpperEntry
      <4>. QED BY <4>3, Spans
    <3>. QED BY <1>9, <3>1, <3>2, <3>3
  <2>. QED BY <2>1 DEF LowerHalfClear
<1>18. WindowsInOrder'
  BY <1>1, SameWanted DEF MapInv, WindowsInOrder
<1>. QED BY <1>13, <1>15, <1>16, <1>17, <1>18 DEF MapInv

\* Multiples of a number.
LEMMA Multiples ==
  ASSUME NEW p \in Nat \ {0}, NEW a \in Int, NEW b \in Int, a % p = 0, b % p = 0
  PROVE  (a + b) % p = 0
<1>. DEFINE c == a + b
            x == a \div p
            y == b \div p
            z == c \div p
            r == c % p
<1>1. x \in Int /\ a = p * x
  OBVIOUS
<1>2. y \in Int /\ b = p * y
  OBVIOUS
<1>3. c \in Int
  OBVIOUS
<1>. HIDE DEF c
<1>4. z \in Int /\ r \in 0..(p - 1) /\ c = p * z + r
  BY <1>3
<1>. HIDE DEF x, y, z, r
<1>5. PICK d \in Int : d = (x + y) - z
  BY <1>1, <1>2, <1>4
<1>6. r = d * p
  <2>1. p * (x + y) = p * x + p * y /\ p * (z + d) = p * z + p * d /\ p * d = d * p
    BY <1>1, <1>2, <1>4, <1>5
  <2>2. x + y = z + d
    BY <1>1, <1>2, <1>4, <1>5
  <2>3. p * x + p * y = p * z + r
    BY <1>1, <1>2, <1>4 DEF c
  <2>4. p * z \in Int /\ p * d \in Int
    BY <1>4, <1>5
  <2>. QED BY <1>4, <2>1, <2>2, <2>3, <2>4
<1>7. d < 1
  <2>1. d * p < 1 * p /\ 1 * p = p
    BY <1>4, <1>6
  <2>. QED BY <1>5, <2>1, Multiply
<1>8. -1 < d
  <2>1. (-1) * p < d * p
    BY <1>4, <1>6
  <2>. QED BY <1>5, <2>1, Multiply
<1>9. d = 0
  BY <1>5, <1>7, <1>8
<1>10. r = 0
  BY <1>6, <1>9
<1>. QED BY <1>10 DEF r, c

\* Number w is w % p behind v, where its piece of p numbers begins.
AwayFrom(p, v, w) == w - (w % p) = v /\ w % p = w - v

\* The numbers of the piece that begins at v.
LEMMA PieceFrom ==
  ASSUME NEW p \in Nat \ {0}, NEW v \in Nat, NEW w \in Nat, v % p = 0
  PROVE  /\ w \div p = v \div p <=> w \in v..(v + p - 1)
         /\ w \in v..(v + p - 1) => AwayFrom(p, v, w)
<1>. DEFINE x == v \div p
            y == w \div p
<1>1. x \in Nat /\ v = x * p
  <2>1. x \in Nat /\ v = x * p + (v % p)
    BY Places
  <2>2. x * p \in Int
    BY <2>1, Multiply
  <2>. QED BY <2>1, <2>2
<1>2. y \in Nat /\ w = y * p + (w % p) /\ w % p \in 0..(p - 1)
  BY Places
<1>. HIDE DEF x, y
<1>3. x * p \in Int /\ y * p \in Int
  BY <1>1, <1>2, Multiply
<1>4. ASSUME y = x PROVE w \in v..(v + p - 1)
  BY <1>1, <1>2, <1>3, <1>4
<1>5. ASSUME w \in v..(v + p - 1) PROVE y = x
  <2>1. PICK d \in 0..(p - 1) : w = x * p + d
    <3>1. w - v \in 0..(p - 1)
      BY <1>5
    <3>. QED BY <1>1, <1>3, <3>1
  <2>. QED BY <1>1, <2>1, Divided DEF y
<1>6. ASSUME y = x PROVE AwayFrom(p, v, w)
  BY <1>1, <1>2, <1>3, <1>6 DEF AwayFrom
<1>. QED BY <1>4, <1>5, <1>6 DEF x, y

\* The piece a leaf is set for: where it begins, and what its pages lead to.
LEMMA LeafPiece ==
  ASSUME TablesInv, Layout, MapInv, jobs # << >>, at.level = jobs[1].leaf
  PROVE  LET p == Span(at.level)
             page == jobs[1].page + at.offset
         IN  /\ p \in Nat \ {0} /\ VPage % p = 0 /\ page \in Int /\ page % p = 0
             /\ (at.offset + p) % p = 0 /\ at.offset + p \in Nat
             /\ \A w \in Wanted : w.vpage \div p = VPage \div p =>
                  /\ w.level = at.level
                  /\ w.leaf = Leaf(page + (w.vpage % p), jobs[1].prot)
             /\ \A w \in VirtualPages : w \div p # VPage \div p =>
                  ~(VPage <= w /\ w < VPage + p)
<1>. DEFINE p == Span(at.level)
            page == jobs[1].page + at.offset
<1>1. /\ stage \in {"devices", "ready"} /\ JobSound(jobs[1]) /\ jobs[1] \in Jobs
      /\ VPage \in VirtualPages /\ VPage = jobs[1].vpage + at.offset
      /\ at.offset \in 0..(jobs[1].pages - 1) /\ at.offset % p = 0
  BY VPageGiven
<1>2. at.level \in {0, 1} /\ p \in Nat \ {0}
  <2>1. at.level \in {0, 1}
    BY <1>1 DEF Jobs
  <2>. QED BY <2>1, Spans
<1>3. /\ jobs[1].vpage \in Int /\ jobs[1].page \in Int /\ jobs[1].pages \in Int /\ at.offset \in Nat
      /\ jobs[1].vpage % p = 0 /\ jobs[1].page % p = 0 /\ VPage \in Nat
  BY <1>1, IndexIs DEF Jobs, JobSound
<1>4. \A w \in Wanted :
        w.vpage - (w.vpage % p) \in jobs[1].vpage..(jobs[1].vpage + jobs[1].pages - 1) =>
          w.level = at.level /\ w.leaf = Leaf(jobs[1].page + (w.vpage - jobs[1].vpage), jobs[1].prot)
  BY <1>1 DEF JobSound
<1>. HIDE DEF p
<1>5. VPage % p = 0 /\ page \in Int /\ page % p = 0
  <2>1. (jobs[1].vpage + at.offset) % p = 0
    BY <1>1, <1>2, <1>3, Multiples
  <2>2. (jobs[1].page + at.offset) % p = 0
    BY <1>1, <1>2, <1>3, Multiples
  <2>. QED BY <1>1, <1>3, <2>1, <2>2
<1>6. (at.offset + p) % p = 0 /\ at.offset + p \in Nat
  <2>1. p % p = 0
    <3>1. (1 * p + 0) % p = 0
      <4>1. 1 \in Nat /\ 0 \in 0..(p - 1)
        BY <1>2
      <4>. QED BY <1>2, <4>1, Divided
    <3>2. 1 * p + 0 = p
      BY <1>2
    <3>. QED BY <3>1, <3>2
  <2>2. (at.offset + p) % p = 0
    BY <1>1, <1>2, <1>3, <2>1, Multiples
  <2>. QED BY <1>2, <1>3, <2>2
<1>7. ASSUME NEW w \in Wanted, w.vpage \div p = VPage \div p
      PROVE  w.level = at.level /\ w.leaf = Leaf(page + (w.vpage % p), jobs[1].prot)
  <2>1. w.vpage \in VirtualPages
    BY <1>1, WantedGiven DEF MapInv
  <2>2. w.vpage \in Nat
    BY <2>1, IndexIs
  <2>3. w.vpage \in VPage..(VPage + p - 1)
    BY <1>2, <1>3, <1>5, <1>7, <2>2, PieceFrom
  <2>4. w.vpage - (w.vpage % p) = VPage /\ w.vpage % p = w.vpage - VPage
    <3>1. p \in Nat \ {0} /\ VPage \in Nat /\ VPage % p = 0
      BY <1>2, <1>3, <1>5
    <3>2. AwayFrom(p, VPage, w.vpage)
      BY <2>2, <2>3, <3>1, PieceFrom
    <3>. QED BY <3>2 DEF AwayFrom
  <2>5. VPage \in jobs[1].vpage..(jobs[1].vpage + jobs[1].pages - 1)
    BY <1>1, <1>3
  <2>6. w.level = at.level /\ w.leaf = Leaf(jobs[1].page + (w.vpage - jobs[1].vpage), jobs[1].prot)
    BY <1>4, <2>4, <2>5
  <2>7. jobs[1].page + (w.vpage - jobs[1].vpage) = page + (w.vpage % p)
    BY <1>1, <1>3, <2>2, <2>4
  <2>. QED BY <2>6, <2>7
<1>8. ASSUME NEW w \in VirtualPages, w \div p # VPage \div p
      PROVE  ~(VPage <= w /\ w < VPage + p)
  <2>1. w \in Nat
    BY IndexIs
  <2>2. ~(w \in VPage..(VPage + p - 1))
    BY <1>2, <1>3, <1>5, <1>8, <2>1, PieceFrom
  <2>. QED BY <1>2, <1>3, <2>1, <2>2
<1>9. /\ p \in Nat \ {0} /\ VPage % p = 0 /\ page \in Int /\ page % p = 0
      /\ (at.offset + p) % p = 0 /\ at.offset + p \in Nat
      /\ \A w \in Wanted : w.vpage \div p = VPage \div p =>
           /\ w.level = at.level
           /\ w.leaf = Leaf(page + (w.vpage % p), jobs[1].prot)
      /\ \A w \in VirtualPages : w \div p # VPage \div p => ~(VPage <= w /\ w < VPage + p)
  BY <1>2, <1>5, <1>6, <1>7, <1>8
<1>. QED BY <1>9 DEF p

\* A leaf maps the pages of its piece.
LEMMA LeafKeeps ==
  ASSUME TablesInv, Layout, MapInv, SetLeaf
  PROVE  MapInv'
<1>. DEFINE p == Span(at.level)
            page == jobs[1].page + at.offset
            next == at.offset + p
            idx == Index(VPage, at.level)
            entry == Leaf(page, jobs[1].prot)
<1>1. /\ jobs # << >> /\ at.level = jobs[1].leaf
      /\ tables' = EntrySet(tables, at.table, idx, entry)
      /\ \/ next < jobs[1].pages /\ jobs' = jobs /\ at' = [Start EXCEPT !.offset = next]
         \/ ~ (next < jobs[1].pages) /\ jobs' = Tail(jobs) /\ at' = Start
      /\ UNCHANGED <<stage, board, ram, windows>>
  BY DEF SetLeaf, SetEntry, EntrySet, boot_vars, setup_vars, board_vars
<1>2. PICK lv : Walked(lv)
  BY DEF TablesInv
<1>3. /\ at.table \in DOMAIN tables /\ at.level = lv[at.table] /\ at.level \in {0, 1}
      /\ idx \in IndicesOf(at.table) /\ TableTree(tables, lv)
      /\ jobs[1] \in Jobs
  BY <1>1, <1>2, WalkEntry DEF Jobs, Walked
<1>4. /\ stage \in {"devices", "ready"} /\ JobSound(jobs[1])
      /\ VPage \in VirtualPages /\ KernelBase <= VPage /\ VPage = jobs[1].vpage + at.offset
      /\ at.offset \in 0..(jobs[1].pages - 1)
      /\ Reaches(tables, VPage, at.level, at.table)
  BY <1>1, VPageGiven
<1>5. /\ p \in Nat \ {0} /\ VPage % p = 0 /\ page \in Int /\ page % p = 0
      /\ next % p = 0 /\ next \in Nat
      /\ \A w \in Wanted : w.vpage \div p = VPage \div p =>
           /\ w.level = at.level
           /\ w.leaf = Leaf(page + (w.vpage % p), jobs[1].prot)
      /\ \A w \in VirtualPages : w \div p # VPage \div p => ~(VPage <= w /\ w < VPage + p)
  BY <1>1, LeafPiece
<1>6. tables[at.table][idx].kind # "table"
  <2>1. SUFFICES ASSUME tables[at.table][idx].kind = "table" PROVE FALSE
    OBVIOUS
  <2>2. PICK b \in DOMAIN tables \ {RootTable} : lv[at.table] = lv[b] + 1
    BY <1>3, <2>1 DEF TableTree
  <2>3. lv[b] \in 0..2
    BY <1>3, <2>2 DEF TableTree
  <2>4. jobs[1].leaf = 1 /\ lv[b] = 0
    BY <1>1, <1>3, <2>2, <2>3
  <2>5. 1 \in DOMAIN jobs
    BY <1>1 DEF TablesInv
  <2>. QED BY <1>2, <2>2, <2>4, <2>5 DEF Walked
<1>7. /\ DOMAIN tables' = DOMAIN tables
      /\ \A u \in DOMAIN tables : \A j \in IndicesOf(u) :
           tables'[u][j] = IF u = at.table /\ j = idx THEN entry ELSE tables[u][j]
  <2>1. \A u \in DOMAIN tables : tables[u] = [j \in IndicesOf(u) |-> tables[u][j]]
    BY <1>3 DEF TableTree
  <2>. HIDE DEF idx, entry
  <2>. QED BY <1>1, <2>1 DEF EntrySet
<1>. HIDE DEF p, page, next, idx, entry
<1>8. EntryChanged(tables, tables', at.table, idx)
  BY <1>6, <1>7 DEF EntryChanged
<1>9. \A w : w \in Wanted => w.vpage \in VirtualPages /\ w.level \in {0, 1}
  BY <1>4, WantedGiven DEF MapInv
<1>10. ASSUME NEW w \in Wanted, w.vpage \div p = VPage \div p PROVE MappedAs(tables', w)
  <2>1. w.level = at.level /\ w.leaf = Leaf(page + (w.vpage % p), jobs[1].prot)
    BY <1>5, <1>10
  <2>2. w.vpage \in VirtualPages
    BY <1>9
  <2>3. Reaches(tables, w.vpage, at.level, at.table) /\ Index(w.vpage, at.level) = idx
    <3>1. at.level \in 0..2 /\ w.vpage \div Span(at.level) = VPage \div Span(at.level)
      BY <1>3, <1>10 DEF p
    <3>2. /\ Index(w.vpage, 2) = Index(VPage, 2)
          /\ at.level <= 1 => Index(w.vpage, 1) = Index(VPage, 1)
          /\ Index(w.vpage, at.level) = Index(VPage, at.level)
      BY <1>4, <2>2, <3>1, PieceIndices
    <3>3. CASE at.level = 0
      BY <1>4, <3>2, <3>3 DEF Reaches, idx
    <3>4. CASE at.level = 1
      BY <1>4, <3>2, <3>4 DEF Reaches, idx
    <3>. QED BY <1>3, <3>3, <3>4
  <2>4. Reaches(tables', w.vpage, at.level, at.table)
    <3>1. at.level \in 0..2
      BY <1>3
    <3>. QED BY <1>3, <1>8, <2>2, <2>3, <3>1, WalksStay
  <2>5. tables'[at.table][idx] = entry /\ at.table \in DOMAIN tables'
    BY <1>3, <1>7
  <2>6. IsLeafFor(entry, w)
    <3>1. entry.kind = "leaf" /\ entry.page = page /\ entry.prot = jobs[1].prot
      BY DEF entry, Leaf
    <3>2. Span(w.level) = p
      BY <2>1 DEF p
    <3>. QED BY <1>5, <2>1, <3>1, <3>2 DEF IsLeafFor
  <2>. QED BY <2>1, <2>3, <2>4, <2>5, <2>6 DEF MappedAs
<1>11. ASSUME NEW w \in Wanted, MappedAs(tables, w) PROVE MappedAs(tables', w)
  <2>1. w.vpage \in VirtualPages /\ w.level \in 0..2 /\ at.level \in 0..2
    BY <1>3, <1>9
  <2>2. EntryChanged(tables, tables', at.table, Index(VPage, at.level))
    BY <1>8 DEF idx
  <2>3. \/ MappedAs(tables', w)
        \/ w.level = at.level /\ w.vpage \div Span(at.level) = VPage \div Span(at.level)
    BY <1>3, <1>4, <1>11, <2>1, <2>2, MappingsStay
  <2>. QED BY <1>10, <2>3 DEF p
<1>12. /\ jobs \in Seq(Jobs) /\ 1 \in DOMAIN jobs
       /\ at.offset \in Nat /\ jobs[1].vpage \in Int /\ jobs[1].pages \in Int
       /\ at \in [offset : Int, level : Int, table : Int]
       /\ \A i \in DOMAIN jobs : jobs[i] \in Jobs /\ jobs[i].vpage \in Int
       /\ Tail(jobs) \in Seq(Jobs)
       /\ Len(Tail(jobs)) = Len(jobs) - 1 /\ Len(jobs) \in Nat
       /\ \A i \in DOMAIN Tail(jobs) : i + 1 \in DOMAIN jobs /\ Tail(jobs)[i] = jobs[i + 1]
  <2>1. jobs \in Seq(Jobs) /\ 1 \in DOMAIN jobs
    BY <1>1 DEF TablesInv
  <2>2. /\ Tail(jobs) \in Seq(Jobs) /\ Len(jobs) \in Nat /\ Len(Tail(jobs)) = Len(jobs) - 1
        /\ \A i \in DOMAIN Tail(jobs) : i + 1 \in DOMAIN jobs /\ Tail(jobs)[i] = jobs[i + 1]
    BY <1>1, <2>1
  <2>3. at.offset \in Nat
    BY <1>4
  <2>4. \A i \in DOMAIN jobs : jobs[i] \in Jobs
    BY <2>1
  <2>5. \A job \in Jobs : job.vpage \in Int /\ job.pages \in Int
    BY DEF Jobs
  <2>. QED BY <1>3, <2>1, <2>2, <2>3, <2>4, <2>5 DEF TablesInv
<1>13. ASSUME NEW w \in Wanted, Pending(w.vpage) PROVE Pending(w.vpage)' \/ MappedAs(tables', w)
  <2>1. PICK i \in DOMAIN jobs :
          w.vpage \in (jobs[i].vpage + (IF i = 1 THEN at.offset ELSE 0))..(jobs[i].vpage + jobs[i].pages - 1)
    BY <1>13 DEF Pending
  <2>2. SUFFICES ASSUME w.vpage \div p # VPage \div p PROVE Pending(w.vpage)'
    BY <1>10
  <2>3. w.vpage \in Nat /\ ~(VPage <= w.vpage /\ w.vpage < VPage + p)
    BY <1>5, <1>9, <2>2, IndexIs
  <2>4. CASE i = 1
    <3>1. jobs[1].vpage + next <= w.vpage /\ w.vpage <= jobs[1].vpage + jobs[1].pages - 1
      <4>1. w.vpage \in (jobs[1].vpage + at.offset)..(jobs[1].vpage + jobs[1].pages - 1)
        BY <2>1, <2>4
      <4>2. VPage <= w.vpage /\ VPage \in Int
        BY <1>4, <1>12, <4>1
      <4>3. VPage + p <= w.vpage
        BY <1>5, <2>3, <4>2
      <4>4. next = at.offset + p /\ VPage = jobs[1].vpage + at.offset
        BY DEF next, VPage
      <4>5. VPage + p = jobs[1].vpage + next
        <5>1. jobs[1].vpage \in Int /\ at.offset \in Int /\ p \in Int
          BY <1>5, <1>12
        <5>. QED BY <4>4, <5>1
      <4>. QED BY <4>1, <4>3, <4>5
    <3>2. next < jobs[1].pages
      <4>1. PICK v \in Int, n \in Int, u \in Nat, m \in Int :
              v = jobs[1].vpage /\ n = jobs[1].pages /\ u = w.vpage /\ m = next
        <5>1. next \in Int
          BY <1>5, <1>12 DEF next
        <5>. QED BY <1>12, <2>3, <5>1
      <4>2. v + m <= u /\ u <= v + n - 1
        BY <3>1, <4>1
      <4>3. m < n
        BY <4>2
      <4>. QED BY <4>1, <4>3
    <3>3. jobs' = jobs /\ at'.offset = next
      BY <1>1, <3>2 DEF Start
    <3>4. w.vpage \in (jobs'[1].vpage + at'.offset)..(jobs'[1].vpage + jobs'[1].pages - 1)
      BY <1>5, <1>12, <2>3, <3>1, <3>3
    <3>. QED BY <1>12, <3>3, <3>4 DEF Pending
  <2>5. CASE i # 1
    <3>1. w.vpage \in jobs[i].vpage..(jobs[i].vpage + jobs[i].pages - 1)
      <4>1. jobs[i].vpage \in Int
        BY <1>12
      <4>. QED BY <2>1, <2>5, <4>1
    <3>2. CASE jobs' = jobs
      <4>1. w.vpage \in (jobs'[i].vpage + (IF i = 1 THEN at'.offset ELSE 0))..
                          (jobs'[i].vpage + jobs'[i].pages - 1)
        BY <1>12, <2>5, <3>1, <3>2
      <4>. QED BY <3>2, <4>1 DEF Pending
    <3>3. CASE jobs' = Tail(jobs) /\ at' = Start
      <4>1. i - 1 \in DOMAIN Tail(jobs) /\ (i - 1) + 1 = i
        BY <1>12, <2>5
      <4>2. jobs'[i - 1] = jobs[i] /\ i - 1 \in DOMAIN jobs' /\ at'.offset = 0
        BY <1>12, <3>3, <4>1 DEF Start
      <4>3. jobs[i].vpage \in Int
        BY <1>12
      <4>4. w.vpage \in (jobs'[i - 1].vpage + (IF i - 1 = 1 THEN at'.offset ELSE 0))..
                          (jobs'[i - 1].vpage + jobs'[i - 1].pages - 1)
        BY <3>1, <4>2, <4>3
      <4>. QED BY <4>2, <4>4 DEF Pending
    <3>. QED BY <1>1, <3>2, <3>3
  <2>. QED BY <2>4, <2>5
<1>14. \A i \in DOMAIN jobs' : \E j \in DOMAIN jobs : jobs'[i] = jobs[j]
  BY <1>1, <1>12
<1>15. PagesMapped'
  <2>1. Wanted' = Wanted /\ \A job : JobSound(job)' <=> JobSound(job)
    BY <1>1, SameWanted
  <2>2. \A w \in Wanted : Pending(w.vpage)' \/ MappedAs(tables', w)
    BY <1>4, <1>11, <1>13 DEF MapInv, PagesMapped
  <2>3. \A i \in DOMAIN jobs : JobSound(jobs[i])
    BY <1>4 DEF MapInv, PagesMapped
  <2>4. \A i \in DOMAIN jobs' : JobSound(jobs'[i])
    BY <1>14, <2>3
  <2>. QED BY <2>1, <2>2, <2>4 DEF PagesMapped
<1>16. Walking'
  <2>1. at'.level = 2 /\ at'.table = RootTable
    BY <1>1 DEF Start
  <2>2. Reaches(tables', VPage', at'.level, at'.table)
    BY <2>1 DEF Reaches
  <2>3. CASE next < jobs[1].pages /\ jobs' = jobs /\ at' = [Start EXCEPT !.offset = next]
    <3>1. at'.offset = next /\ next < jobs[1].pages
      BY <2>3 DEF Start
    <3>2. next \in 0..(jobs[1].pages - 1) /\ next % Span(jobs[1].leaf) = 0
      BY <1>1, <1>5, <1>12, <3>1 DEF p
    <3>. QED BY <1>1, <2>2, <2>3, <3>1, <3>2 DEF Walking
  <2>4. CASE jobs' = Tail(jobs) /\ at' = Start
    <3>1. ASSUME jobs' # << >>
          PROVE  0 \in 0..(jobs'[1].pages - 1) /\ 0 % Span(jobs'[1].leaf) = 0
      <4>1. 1 \in DOMAIN jobs'
        BY <1>12, <2>4, <3>1
      <4>2. PICK j \in DOMAIN jobs : jobs'[1] = jobs[j]
        BY <1>14, <4>1
      <4>3. JobSound(jobs[j]) /\ jobs[j] \in Jobs
        BY <1>4, <1>12 DEF MapInv, PagesMapped
      <4>4. jobs[j].pages \in Int /\ jobs[j].pages > 0 /\ jobs[j].leaf \in {0, 1}
        BY <4>3 DEF JobSound, Jobs
      <4>5. Span(jobs[j].leaf) \in Nat \ {0}
        BY <4>4, Spans
      <4>6. \A q \in Nat \ {0} : 0 % q = 0
        OBVIOUS
      <4>. QED BY <4>2, <4>4, <4>5, <4>6
    <3>2. at'.offset = 0
      BY <2>4 DEF Start
    <3>. QED BY <2>2, <2>4, <3>1, <3>2 DEF Walking
  <2>. QED BY <1>1, <2>3, <2>4
<1>17. LargePieces'
  BY <1>1, <1>4 DEF LargePieces
<1>18. LowerHalfClear'
  <2>1. ASSUME NEW i \in 0..(RootEntries \div 2 - 1) PROVE tables'[RootTable][i] = None
    <3>1. RootTable \in DOMAIN tables /\ i \in IndicesOf(RootTable)
      <4>1. RootEntries \in Nat /\ RootEntries \div 2 <= RootEntries /\ RootEntries \div 2 \in Nat
        BY Spans
      <4>. QED BY <1>3, <4>1 DEF TableTree, IndicesOf
    <3>2. tables[RootTable][i] = None
      BY <1>4 DEF MapInv, LowerHalfClear
    <3>3. RootTable # at.table
      BY <1>3 DEF TableTree
    <3>. QED BY <1>7, <3>1, <3>2, <3>3
  <2>. QED BY <2>1 DEF LowerHalfClear
<1>19. WindowsInOrder'
  BY <1>1, SameWanted DEF MapInv, WindowsInOrder
<1>. QED BY <1>15, <1>16, <1>17, <1>18, <1>19 DEF MapInv

\* A window behind the last one overlaps none.
LEMMA WindowKeeps ==
  ASSUME TablesInv, NumbersGiven, Layout, Layout', MapInv, SetUpDevice
  PROVE  MapInv'
<1>. DEFINE reg == fdt_reg_property(DeviceNodes[Len(windows) + 1])
            window == [vpage |-> NextWindow, first |-> reg.addr \div PageSize,
                       pages |-> (reg.size + PageSize - 1) \div PageSize]
            job == [vpage |-> window.vpage, page |-> window.first, pages |-> window.pages,
                    prot |-> "mmio", leaf |-> 0]
<1>1. /\ stage = "devices" /\ jobs = << >>
      /\ windows' = Append(windows, window)
      /\ jobs' = IF window.pages <= 0 THEN << >> ELSE <<job>>
      /\ window.vpage = NextWindow
      /\ UNCHANGED <<stage, board, ram, tables, at>>
  BY DEF SetUpDevice, virtual_memory_map_mmio, Job, boot_vars, setup_vars, board_vars
<1>2. /\ job.vpage = window.vpage /\ job.page = window.first /\ job.pages = window.pages
      /\ job.prot = "mmio" /\ job.leaf = 0
  OBVIOUS
<1>. HIDE DEF window, job
<1>3. /\ NextWindow \in Nat /\ MmioBase \in Nat /\ MmioBase <= NextWindow
      /\ KernelBase \in Nat /\ KernelBase <= MmioBase
      /\ Span(2) * RootEntries \in Nat /\ Span(0) = 1
  <2>1. stage \notin {"entry", "halted"} /\ WindowsInOrder
    BY <1>1 DEF MapInv
  <2>2. KernelBase + ram.pages <= MmioBase /\ ram.pages \in Nat /\ KernelBase \in Nat /\ MmioBase \in Nat
    BY <2>1, BasesGiven
  <2>. QED BY <2>1, <2>2, WindowGiven, Spans
<1>. DEFINE W == [vpage : Int, first : Int, pages : Int]
<1>4. windows \in Seq(W) /\ windows' \in Seq(W)
  <2>1. TablesInv'
    BY WindowOpened
  <2>. QED BY <2>1 DEF TablesInv
<1>. DEFINE n == Len(windows) + 1
<1>5. /\ n \in Nat /\ DOMAIN windows' = DOMAIN windows \cup {n} /\ n \notin DOMAIN windows
      /\ windows'[n] = window /\ \A i \in DOMAIN windows : windows'[i] = windows[i]
      /\ Len(windows') = n
  <2>. HIDE DEF W
  <2>. QED BY <1>1, <1>4
<1>6. /\ window.first \in Int /\ window.pages \in Nat
      /\ window.vpage + window.pages <= Span(2) * RootEntries
  <2>1. windows'[n] \in W
    <3>. HIDE DEF W, n
    <3>. QED BY <1>4, <1>5
  <2>2. /\ windows'[n].pages >= 0
        /\ windows'[n].vpage + windows'[n].pages <= Span(2) * RootEntries
    BY <1>1, <1>5 DEF Layout
  <2>. QED BY <1>5, <2>1, <2>2
<1>. HIDE DEF n, W
<1>7. NextWindow' = window.vpage + window.pages /\ MmioBase' = MmioBase
  <2>1. windows' # << >>
    BY <1>5
  <2>2. NextWindow' = windows'[Len(windows')].vpage + windows'[Len(windows')].pages
    BY <2>1 DEF NextWindow
  <2>3. MmioBase' = MmioBase
    BY <1>1 DEF MmioBase
  <2>. QED BY <1>5, <2>2, <2>3
<1>8. WindowsInOrder'
  <2>1. ASSUME NEW i \in DOMAIN windows'
        PROVE  MmioBase <= windows'[i].vpage /\ windows'[i].vpage + windows'[i].pages <= NextWindow'
    <3>1. CASE i = n
      BY <1>1, <1>3, <1>5, <1>6, <1>7, <3>1
    <3>2. CASE i \in DOMAIN windows
      <4>1. /\ windows[i].vpage \in Nat /\ windows[i].pages \in Nat
            /\ MmioBase <= windows[i].vpage /\ windows[i].vpage + windows[i].pages <= NextWindow
        <5>1. stage \notin {"entry", "halted"} /\ WindowsInOrder
          BY <1>1 DEF MapInv
        <5>. QED BY <3>2, <5>1, WindowGiven
      <4>2. windows'[i] = windows[i]
        BY <1>5, <3>2
      <4>3. NextWindow <= NextWindow'
        BY <1>1, <1>3, <1>6, <1>7
      <4>4. NextWindow \in Int /\ window.vpage \in Int
        BY <1>1, <1>3
      <4>5. NextWindow' \in Int
        BY <1>6, <1>7, <4>4
      <4>6. windows[i].vpage + windows[i].pages \in Int
        BY <4>1
      <4>. QED BY <1>7, <4>1, <4>2, <4>3, <4>4, <4>5, <4>6
    <3>. QED BY <1>5, <3>1, <3>2
  <2>2. stage' \in {"devices", "ready"}
    BY <1>1
  <2>. QED BY <1>7, <2>1, <2>2 DEF WindowsInOrder
<1>9. Wanted' = Wanted \cup WindowWanted(window)
  <2>1. RamWanted' = RamWanted
    BY <1>1 DEF RamWanted, InKernel, KernelFirst, KernelPages
  <2>2. Wanted' = RamWanted \cup UNION {WindowWanted(windows'[i]) : i \in DOMAIN windows'}
    BY <2>1 DEF Wanted, WindowWanted
  <2>. QED BY <1>5, <2>2 DEF Wanted
<1>10. \A w \in Wanted : MappedAs(tables, w) /\ w.vpage \in Nat /\ w.vpage < NextWindow
  <2>. SUFFICES ASSUME NEW w \in Wanted
                PROVE  MappedAs(tables, w) /\ w.vpage \in Nat /\ w.vpage < NextWindow
    OBVIOUS
  <2>1. MappedAs(tables, w)
    <3>1. ~ Pending(w.vpage)
      BY <1>1 DEF Pending
    <3>. QED BY <1>1, <3>1 DEF MapInv, PagesMapped
  <2>2. /\ w.vpage \in VirtualPages /\ w.level \in {0, 1}
        /\ w.level = 1 => w.vpage < MmioBase
        /\ w.level = 0 => w.vpage < NextWindow
    BY <1>1, WantedGiven DEF MapInv
  <2>3. w.vpage \in Nat
    BY <2>2, IndexIs
  <2>. QED BY <1>3, <2>1, <2>2, <2>3
<1>11. \A w \in WindowWanted(window) :
         /\ w.level = 0 /\ w.vpage \in NextWindow..(NextWindow + window.pages - 1)
         /\ w.leaf = Leaf(window.first + (w.vpage - NextWindow), "mmio")
  <2>. SUFFICES ASSUME NEW m \in 0..(window.pages - 1)
                PROVE  LET w == Want(window.vpage + m, Leaf(window.first + m, "mmio"), 0)
                       IN  /\ w.level = 0 /\ w.vpage \in NextWindow..(NextWindow + window.pages - 1)
                           /\ w.leaf = Leaf(window.first + (w.vpage - NextWindow), "mmio")
    BY DEF WindowWanted
  <2>1. m \in Nat /\ m < window.pages
    BY <1>6
  <2>2. (NextWindow + m) - NextWindow = m
    BY <1>3, <2>1
  <2>. QED BY <1>1, <1>3, <1>6, <2>1, <2>2 DEF Want
<1>12. CASE window.pages = 0
  <2>1. jobs' = << >> /\ WindowWanted(window) = {}
    BY <1>1, <1>12 DEF WindowWanted
  <2>2. Walking'
    BY <1>1, <2>1 DEF MapInv, Walking
  <2>3. PagesMapped'
    <3>1. \A w \in Wanted' : MappedAs(tables', w)
      BY <1>1, <1>9, <1>10, <2>1
    <3>. QED BY <2>1, <3>1 DEF PagesMapped
  <2>4. LargePieces' /\ LowerHalfClear'
    BY <1>1 DEF MapInv, LargePieces, LowerHalfClear
  <2>. QED BY <1>8, <2>2, <2>3, <2>4 DEF MapInv
<1>13. CASE window.pages # 0
  <2>1. jobs' = <<job>> /\ window.pages > 0
    BY <1>1, <1>6, <1>13
  <2>2. /\ DOMAIN jobs' = {1} /\ jobs'[1] = job /\ jobs' # << >>
        /\ at = Start /\ at'.offset = 0 /\ at'.level = 2 /\ at'.table = RootTable
    <3>1. at = Start
      BY <1>1 DEF MapInv, Walking
    <3>2. at' = Start
      BY <1>1, <3>1
    <3>. QED BY <2>1, <3>1, <3>2 DEF Start
  <2>3. Walking'
    <3>1. Reaches(tables', VPage', at'.level, at'.table)
      BY <2>2 DEF Reaches
    <3>2. 0 \in 0..(job.pages - 1) /\ 0 % Span(job.leaf) = 0
      BY <1>2, <1>3, <1>6, <2>1
    <3>. QED BY <2>2, <3>1, <3>2 DEF Walking
  <2>4. ASSUME NEW w \in Wanted' PROVE Pending(w.vpage)' \/ MappedAs(tables', w)
    <3>1. CASE w \in Wanted
      BY <1>1, <1>10, <3>1
    <3>2. CASE w \in WindowWanted(window)
      <4>1. w.vpage \in (jobs'[1].vpage + at'.offset)..(jobs'[1].vpage + jobs'[1].pages - 1)
        BY <1>1, <1>2, <1>3, <1>11, <2>2, <3>2
      <4>. QED BY <2>2, <4>1 DEF Pending
    <3>. QED BY <1>9, <3>1, <3>2
  <2>5. \A j : j = job => JobSound(j)'
    <3>1. /\ job.pages > 0 /\ job.vpage % 1 = 0 /\ job.page % 1 = 0
          /\ KernelBase <= job.vpage /\ job.vpage + job.pages <= Span(2) * RootEntries
          /\ MmioBase' <= job.vpage
      BY <1>1, <1>2, <1>3, <1>6, <1>7, <2>1
    <3>2. ASSUME NEW w \in Wanted',
                 w.vpage - (w.vpage % 1) \in job.vpage..(job.vpage + job.pages - 1)
          PROVE  w.level = job.leaf /\ w.leaf = Leaf(job.page + (w.vpage - job.vpage), job.prot)
      <4>1. CASE w \in Wanted
        <5>1. w.vpage \in Nat /\ w.vpage < NextWindow
          BY <1>10, <4>1
        <5>2. w.vpage - (w.vpage % 1) = w.vpage
          BY <5>1
        <5>. QED BY <1>1, <1>2, <1>3, <3>2, <5>1, <5>2
      <4>2. CASE w \in WindowWanted(window)
        BY <1>1, <1>2, <1>11, <4>2
      <4>. QED BY <1>9, <4>1, <4>2
    <3>3. /\ job.pages > 0
          /\ job.vpage % Span(job.leaf) = 0 /\ job.page % Span(job.leaf) = 0
          /\ KernelBase <= job.vpage /\ job.vpage + job.pages <= Span(2) * RootEntries
          /\ job.leaf = 0 => MmioBase' <= job.vpage
          /\ \A w \in Wanted' :
               w.vpage - (w.vpage % Span(job.leaf)) \in job.vpage..(job.vpage + job.pages - 1) =>
                 w.level = job.leaf /\ w.leaf = Leaf(job.page + (w.vpage - job.vpage), job.prot)
      BY <1>2, <1>3, <3>1, <3>2
    <3>. QED BY <3>3 DEF JobSound
  <2>6. PagesMapped'
    <3>1. (\A i \in DOMAIN jobs : JobSound(jobs[i]))'
      BY <2>2, <2>5
    <3>. QED BY <2>4, <3>1 DEF PagesMapped
  <2>7. LargePieces' /\ LowerHalfClear'
    BY <1>1 DEF MapInv, LargePieces, LowerHalfClear
  <2>. QED BY <1>8, <2>3, <2>6, <2>7 DEF MapInv
<1>. QED BY <1>12, <1>13

\* Differences of multiples, and multiples of a square.
LEMMA MoreMultiples ==
  ASSUME NEW p \in Nat \ {0}, NEW a \in Int, a % p = 0
  PROVE  /\ \A b \in Int : b % p = 0 => (b - a) % p = 0
         /\ \A b \in Nat : b % (p * p) = 0 => b % p = 0
<1>1. (-a) % p = 0
  <2>1. PICK x \in Int : a = p * x
    <3>1. a \div p \in Int /\ a = p * (a \div p)
      OBVIOUS
    <3>. QED BY <3>1
  <2>. DEFINE c == -a
              z == c \div p
              r == c % p
  <2>2. c \in Int
    OBVIOUS
  <2>3. z \in Int /\ r \in 0..(p - 1) /\ c = p * z + r
    <3>. HIDE DEF c
    <3>. QED BY <2>2
  <2>. HIDE DEF z, r
  <2>4. PICK d \in Int : d = 0 - (x + z)
    BY <2>1, <2>3
  <2>5. r = d * p
    <3>1. p * (x + (z + d)) = p * x + (p * z + p * d) /\ p * d = d * p
      BY <2>1, <2>3, <2>4
    <3>2. x + (z + d) = 0 /\ p * 0 = 0
      BY <2>1, <2>3, <2>4
    <3>3. p * z + r = -(p * x)
      BY <2>1, <2>3
    <3>4. p * x \in Int /\ p * z \in Int /\ p * d \in Int
      BY <2>1, <2>3, <2>4
    <3>. QED BY <2>3, <3>1, <3>2, <3>3, <3>4
  <2>6. d < 1
    <3>1. d * p < 1 * p /\ 1 * p = p
      BY <2>3, <2>5
    <3>. QED BY <2>4, <3>1, Multiply
  <2>7. -1 < d
    <3>1. (-1) * p < d * p
      BY <2>3, <2>5
    <3>. QED BY <2>4, <3>1, Multiply
  <2>8. d = 0
    BY <2>4, <2>6, <2>7
  <2>9. r = 0
    BY <2>5, <2>8
  <2>. QED BY <2>9 DEF r
<1>2. ASSUME NEW b \in Int, b % p = 0 PROVE (b - a) % p = 0
  <2>1. -a \in Int /\ b - a = b + (-a)
    OBVIOUS
  <2>2. (b + (-a)) % p = 0
    BY <1>1, <1>2, <2>1, Multiples
  <2>. QED BY <2>1, <2>2
<1>3. ASSUME NEW b \in Nat, b % (p * p) = 0 PROVE b % p = 0
  <2>1. p * p \in Nat \ {0}
    OBVIOUS
  <2>. DEFINE q == p * p
              x == b \div q
  <2>2. x \in Nat /\ b = x * q + (b % q)
    <3>. HIDE DEF q
    <3>1. q \in Nat \ {0}
      BY <2>1 DEF q
    <3>. QED BY <3>1, Places
  <2>. HIDE DEF x
  <2>3. x * q \in Nat /\ x * q = (x * p) * p /\ x * p \in Nat
    BY <2>2
  <2>4. b = (x * p) * p + 0
    BY <1>3, <2>2, <2>3
  <2>5. 0 \in 0..(p - 1)
    OBVIOUS
  <2>. QED BY <2>3, <2>4, <2>5, Divided
<1>. QED BY <1>2, <1>3

\* A number is below a multiple when its piece begins below it.
LEMMA PieceBelow ==
  ASSUME NEW p \in Nat \ {0}, NEW v \in Nat, NEW b \in Int, b % p = 0, v - (v % p) < b
  PROVE  v < b
<1>. DEFINE x == v \div p
            y == b \div p
<1>1. x \in Nat /\ v = x * p + (v % p) /\ v % p \in 0..(p - 1)
  BY Places
<1>2. y \in Int /\ b = p * y
  OBVIOUS
<1>. HIDE DEF x, y
<1>3. p * y = y * p /\ x * p \in Int /\ y * p \in Int /\ (x + 1) * p = x * p + p
  BY <1>1, <1>2, Multiply
<1>4. x < y
  <2>1. x * p < y * p
    BY <1>1, <1>2, <1>3
  <2>. QED BY <1>1, <1>2, <2>1, Multiply
<1>5. (x + 1) * p <= y * p
  <2>1. x + 1 <= y /\ x + 1 \in Int
    BY <1>1, <1>2, <1>4
  <2>. QED BY <1>2, <2>1, Multiply
<1>. QED BY <1>1, <1>2, <1>3, <1>5

\* The memory in pieces of the second level, which begin at a piece of it.
PieceJob(first, pages, prot) ==
  [vpage |-> KernelBase + first, page |-> ram.first + first, pages |-> pages,
   prot |-> prot, leaf |-> 1]

\* They are the kernel's or not, the ones in the last piece too.
ProtOf(first, pages, prot) ==
  \A n \in 0..(ram.pages - 1) : first <= n /\ (pages % Entries = 0 => n < first + pages) =>
    prot = IF InKernel(n) THEN "kernel" ELSE "ram"

LEMMA PieceJobSound ==
  ASSUME TablesInv, Layout, stage \notin {"entry", "halted"}, windows = << >>,
         NEW first \in Nat, first % Entries = 0, NEW pages \in Nat \ {0}, NEW prot,
         first + pages <= ram.pages, ProtOf(first, pages, prot)
  PROVE  JobSound(PieceJob(first, pages, prot))
<1>. DEFINE job == PieceJob(first, pages, prot)
<1>1. /\ job.vpage = KernelBase + first /\ job.page = ram.first + first /\ job.pages = pages
      /\ job.prot = prot /\ job.leaf = 1
  BY DEF PieceJob
<1>. HIDE DEF job
<1>2. /\ ram.first \in Nat /\ ram.pages \in Nat /\ KernelBase \in Nat
      /\ Entries \in Nat \ {0} /\ Span(1) = Entries
  BY BasesGiven, Spans
<1>3. ram.first % Entries = 0 /\ KernelBase % Entries = 0
  <2>1. ram.first % (Entries * Entries) = 0 /\ KernelBase % (Entries * Entries) = 0
    BY Spans, KernelBaseAssumption DEF Layout
  <2>2. 0 \in Int /\ 0 % Entries = 0
    BY <1>2
  <2>3. \A b \in Nat : b % (Entries * Entries) = 0 => b % Entries = 0
    BY <1>2, <2>2, MoreMultiples
  <2>. QED BY <1>2, <2>1, <2>3
<1>4. job.vpage % Entries = 0 /\ job.page % Entries = 0
  <2>1. (KernelBase + first) % Entries = 0
    <3>1. KernelBase \in Int /\ first \in Int /\ Entries \in Nat \ {0}
      BY <1>2
    <3>2. KernelBase % Entries = 0 /\ first % Entries = 0
      BY <1>3
    <3>3. \A a, b \in Int : a % Entries = 0 /\ b % Entries = 0 => (a + b) % Entries = 0
      BY <3>1, Multiples
    <3>. QED BY <3>1, <3>2, <3>3
  <2>2. (ram.first + first) % Entries = 0
    BY <1>2, <1>3, Multiples
  <2>. QED BY <1>1, <2>1, <2>2
<1>5. ASSUME NEW w \in Wanted,
             w.vpage - (w.vpage % Entries) \in job.vpage..(job.vpage + job.pages - 1)
      PROVE  w.level = 1 /\ w.leaf = Leaf(job.page + (w.vpage - job.vpage), job.prot)
  <2>1. w \in RamWanted
    BY DEF Wanted
  <2>2. PICK n \in 0..(ram.pages - 1) :
          w = Want(KernelBase + n, Leaf(ram.first + n, IF InKernel(n) THEN "kernel" ELSE "ram"), 1)
    BY <2>1 DEF RamWanted
  <2>3. /\ w.vpage = KernelBase + n /\ w.level = 1
        /\ w.leaf = Leaf(ram.first + n, IF InKernel(n) THEN "kernel" ELSE "ram")
    BY <2>2 DEF Want
  <2>4. w.vpage \in Nat /\ n \in Nat
    BY <1>2, <2>3
  <2>5. w.vpage % Entries \in Nat
    BY <1>2, <2>4
  <2>6. first <= n
    <3>1. PICK r \in Nat, base \in Nat : r = w.vpage % Entries /\ base = KernelBase
      BY <1>2, <2>5
    <3>2. base + first <= (base + n) - r
      BY <1>1, <1>2, <1>5, <2>3, <3>1
    <3>. QED BY <1>2, <2>4, <3>2
  <2>7. ASSUME pages % Entries = 0 PROVE n < first + pages
    <3>1. (job.vpage + pages) % Entries = 0
      <4>1. \A a, b \in Int : a % Entries = 0 /\ b % Entries = 0 => (a + b) % Entries = 0
        BY <1>2, Multiples
      <4>2. job.vpage \in Int /\ pages \in Int
        BY <1>1, <1>2
      <4>. QED BY <1>4, <2>7, <4>1, <4>2
    <3>2. w.vpage - (w.vpage % Entries) < job.vpage + pages
      BY <1>1, <1>2, <1>5, <2>4, <2>5
    <3>3. w.vpage < job.vpage + pages
      <4>1. job.vpage + pages \in Int
        BY <1>1, <1>2
      <4>. QED BY <1>2, <2>4, <3>1, <3>2, <4>1, PieceBelow
    <3>. QED BY <1>1, <1>2, <2>3, <2>4, <3>3
  <2>8. prot = IF InKernel(n) THEN "kernel" ELSE "ram"
    BY <2>6, <2>7 DEF ProtOf
  <2>9. job.page + (w.vpage - job.vpage) = ram.first + n
    BY <1>1, <1>2, <2>3, <2>4
  <2>. QED BY <1>1, <2>3, <2>8, <2>9
<1>6. JobSound(job)
  <2>1. /\ job.pages > 0 /\ KernelBase <= job.vpage
        /\ job.vpage + job.pages <= Span(2) * RootEntries
    <3>1. /\ KernelBase + ram.pages <= MmioBase /\ MmioBase <= Span(2) * RootEntries
          /\ MmioBase \in Nat /\ Span(2) * RootEntries \in Nat
      BY BasesGiven, Spans
    <3>. QED BY <1>1, <1>2, <3>1
  <2>. QED BY <1>1, <1>2, <1>4, <1>5, <2>1 DEF JobSound
<1>. QED BY <1>6 DEF job

\* What stands in a sequence.
StandsIn(x, s) == \E i \in DOMAIN s : s[i] = x

LEMMA Concatenated ==
  ASSUME NEW X, NEW s \in Seq(X), NEW t \in Seq(X), NEW x
  PROVE  /\ s \o t \in Seq(X)
         /\ StandsIn(x, s \o t) <=> StandsIn(x, s) \/ StandsIn(x, t)
<1>1. /\ s \o t \in Seq(X) /\ Len(s \o t) = Len(s) + Len(t)
      /\ \A i \in 1..Len(s) : (s \o t)[i] = s[i]
      /\ \A i \in 1..Len(t) : (s \o t)[Len(s) + i] = t[i]
      /\ Len(s) \in Nat /\ Len(t) \in Nat
      /\ DOMAIN s = 1..Len(s) /\ DOMAIN t = 1..Len(t) /\ DOMAIN (s \o t) = 1..Len(s \o t)
  OBVIOUS
<1>2. ASSUME StandsIn(x, s) PROVE StandsIn(x, s \o t)
  <2>1. PICK i \in 1..Len(s) : s[i] = x
    BY <1>1, <1>2 DEF StandsIn
  <2>2. i \in DOMAIN (s \o t) /\ (s \o t)[i] = x
    BY <1>1, <2>1
  <2>. QED BY <2>2 DEF StandsIn
<1>3. ASSUME StandsIn(x, t) PROVE StandsIn(x, s \o t)
  <2>1. PICK i \in 1..Len(t) : t[i] = x
    BY <1>1, <1>3 DEF StandsIn
  <2>2. Len(s) + i \in DOMAIN (s \o t) /\ (s \o t)[Len(s) + i] = x
    BY <1>1, <2>1
  <2>. QED BY <2>2 DEF StandsIn
<1>4. ASSUME StandsIn(x, s \o t) PROVE StandsIn(x, s) \/ StandsIn(x, t)
  <2>1. PICK i \in 1..(Len(s) + Len(t)) : (s \o t)[i] = x
    BY <1>1, <1>4 DEF StandsIn
  <2>2. CASE i <= Len(s)
    <3>1. i \in DOMAIN s /\ s[i] = x
      BY <1>1, <2>1, <2>2
    <3>. QED BY <3>1 DEF StandsIn
  <2>3. CASE i > Len(s)
    <3>1. i - Len(s) \in 1..Len(t) /\ Len(s) + (i - Len(s)) = i
      BY <1>1, <2>1, <2>3
    <3>2. i - Len(s) \in DOMAIN t /\ t[i - Len(s)] = x
      BY <1>1, <2>1, <3>1
    <3>. QED BY <3>2 DEF StandsIn
  <2>. QED BY <1>1, <2>1, <2>2, <2>3
<1>. QED BY <1>1, <1>2, <1>3, <1>4

\* Where the memory behind the kernel begins, and how much it is.
LEMMA BehindKernel ==
  ASSUME NEW base \in Nat, NEW first \in Nat, NEW kernel \in Int, NEW pages \in Nat, NEW all \in Nat,
         NEW before \in Nat, NEW rest \in Nat,
         kernel = first + before, all = (before + pages) + rest
  PROVE  /\ base + kernel + pages - first = base + (before + pages)
         /\ kernel + pages = first + (before + pages)
         /\ first + all - kernel - pages = rest
         /\ kernel - first = before
OBVIOUS

\* The mappings to be made anew are the ones that are wanted.
LEMMA RefineJobsSound ==
  ASSUME TablesInv, NumbersGiven, Layout, stage = "refine", windows = << >>
  PROVE  /\ \A i \in DOMAIN RefineJobs : JobSound(RefineJobs[i])
         /\ \A w \in Wanted : \E i \in DOMAIN RefineJobs :
              w.vpage \in RefineJobs[i].vpage..(RefineJobs[i].vpage + RefineJobs[i].pages - 1)
<1>1. /\ PageSize \in Nat \ {0} /\ VirtualBase \in Int /\ KernelBase \in Nat
      /\ ram.first \in Nat /\ ram.pages \in Nat /\ Entries \in Nat \ {0} /\ Span(1) = Entries
      /\ board.kernel.addr \in Int /\ board.kernel.size \in Int
  BY PageAssumption, HeaderAssumption, BasesGiven, Spans DEF NumbersGiven
<1>2. KernelFirst \in Int /\ KernelPages \in Nat /\ KernelVFirst \in Int
  <2>1. KernelFirst \in Int /\ KernelPages \in Int /\ KernelVFirst \in Int
    BY <1>1 DEF KernelFirst, KernelPages, KernelVFirst
  <2>. QED BY <2>1 DEF Layout
<1>3. PICK before \in Nat, behind \in Nat, rest \in Nat :
        /\ KernelFirst = ram.first + before /\ KernelVFirst = KernelBase + before
        /\ behind = before + KernelPages /\ ram.pages = behind + rest
  <2>1. /\ ram.first <= KernelFirst /\ KernelFirst + KernelPages <= ram.first + ram.pages
        /\ KernelVFirst = KernelBase + (KernelFirst - ram.first)
    BY DEF Layout
  <2>2. PICK b \in Nat : b = KernelFirst - ram.first
    BY <1>1, <1>2, <2>1
  <2>3. b + KernelPages \in Nat
    BY <1>2, <2>2
  <2>4. PICK r \in Nat : r = ram.pages - (b + KernelPages)
    <3>1. KernelFirst + KernelPages = ram.first + (b + KernelPages)
      BY <1>1, <1>2, <2>2
    <3>2. b + KernelPages <= ram.pages
      BY <1>1, <2>1, <2>3, <3>1
    <3>3. ram.pages - (b + KernelPages) \in Nat
      BY <1>1, <2>3, <3>2
    <3>. QED BY <3>3
  <2>5. /\ KernelFirst = ram.first + b /\ KernelVFirst = KernelBase + b
        /\ ram.pages = (b + KernelPages) + r
    <3>1. KernelFirst = ram.first + b
      BY <1>1, <1>2, <2>2
    <3>2. KernelVFirst = KernelBase + b
      BY <2>1, <2>2
    <3>3. ram.pages = (b + KernelPages) + r
      BY <1>1, <1>2, <2>4
    <3>. QED BY <3>1, <3>2, <3>3
  <2>. QED BY <2>2, <2>3, <2>4, <2>5
<1>. DEFINE parts(x) == \/ KernelPages > 0 /\ x = PieceJob(before, KernelPages, "kernel")
                        \/ before > 0 /\ x = PieceJob(0, before, "ram")
                        \/ rest > 0 /\ x = PieceJob(behind, rest, "ram")
<1>4. before % Entries = 0 /\ behind % Entries = 0
  <2>1. KernelFirst % Entries = 0 /\ KernelPages % Entries = 0
    BY <1>1 DEF Layout
  <2>2. ram.first % Entries = 0
    <3>1. ram.first % (Entries * Entries) = 0
      BY Spans DEF Layout
    <3>2. 0 \in Int /\ 0 % Entries = 0
      BY <1>1
    <3>3. \A b \in Nat : b % (Entries * Entries) = 0 => b % Entries = 0
      BY <1>1, <3>2, MoreMultiples
    <3>. QED BY <1>1, <3>1, <3>3
  <2>3. before % Entries = 0
    <3>1. \A b \in Int : b % Entries = 0 => (b - ram.first) % Entries = 0
      BY <1>1, <2>2, MoreMultiples
    <3>2. (KernelFirst - ram.first) % Entries = 0
      BY <1>2, <2>1, <3>1
    <3>3. KernelFirst - ram.first = before
      BY <1>1, <1>2, <1>3
    <3>. QED BY <3>2, <3>3
  <2>4. (before + KernelPages) % Entries = 0
    <3>1. \A a, b \in Int : a % Entries = 0 /\ b % Entries = 0 => (a + b) % Entries = 0
      BY <1>1, Multiples
    <3>2. before \in Int /\ KernelPages \in Int
      BY <1>2
    <3>. QED BY <2>1, <2>3, <3>1, <3>2
  <2>. QED BY <1>3, <2>3, <2>4
<1>5. ASSUME NEW n \in 0..(ram.pages - 1)
      PROVE  InKernel(n) <=> before <= n /\ n < behind
  BY <1>1, <1>2, <1>3 DEF InKernel
<1>6. behind = before + KernelPages /\ rest = ram.pages - behind
  BY <1>1, <1>3
<1>7. /\ RefineJobs \in Seq(Jobs)
      /\ \A x : StandsIn(x, RefineJobs) <=> parts(x)
  <2>. DEFINE first == Job(KernelVFirst, KernelFirst, KernelPages, "kernel", 1)
              second == Job(KernelBase, ram.first, KernelFirst - ram.first, "ram", 1)
              third == Job(KernelBase + KernelFirst + KernelPages - ram.first, KernelFirst + KernelPages,
                           ram.first + ram.pages - KernelFirst - KernelPages, "ram", 1)
  <2>. DEFINE OneJob(s, from, pages, prot) ==
                /\ s \in Seq(Jobs)
                /\ \A x : StandsIn(x, s) <=> pages > 0 /\ x = PieceJob(from, pages, prot)
  <2>1. ASSUME NEW s, NEW vpage, NEW page, NEW from \in Nat, NEW pages \in Int,
               NEW prot \in {"kernel", "ram"},
               s = Job(vpage, page, pages, prot, 1), vpage = KernelBase + from, page = ram.first + from
        PROVE  OneJob(s, from, pages, prot)
    <3>1. s =
            IF pages > 0 THEN <<PieceJob(from, pages, prot)>> ELSE << >>
      BY <2>1 DEF Job, PieceJob
    <3>2. PieceJob(from, pages, prot) \in Jobs
      BY <1>1, <2>1 DEF Jobs, PieceJob
    <3>3. \A x : ~ StandsIn(x, << >>)
      BY DEF StandsIn
    <3>4. \A x, job : StandsIn(x, <<job>>) <=> x = job
      BY DEF StandsIn
    <3>5. CASE pages > 0
      <4>1. <<PieceJob(from, pages, prot)>> \in Seq(Jobs)
        BY <3>2
      <4>. QED BY <3>1, <3>4, <3>5, <4>1
    <3>6. CASE ~ (pages > 0)
      <4>1. << >> \in Seq(Jobs)
        OBVIOUS
      <4>. QED BY <3>1, <3>3, <3>6, <4>1
    <3>. QED BY <3>5, <3>6
  <2>2. /\ KernelBase + 0 = KernelBase /\ ram.first + 0 = ram.first
        /\ KernelBase + KernelFirst + KernelPages - ram.first = KernelBase + behind
        /\ KernelFirst + KernelPages = ram.first + behind
        /\ ram.first + ram.pages - KernelFirst - KernelPages = rest
        /\ KernelFirst - ram.first = before
    <3>1. ram.pages = (before + KernelPages) + rest /\ KernelFirst = ram.first + before
      BY <1>3
    <3>2. /\ KernelBase + KernelFirst + KernelPages - ram.first = KernelBase + (before + KernelPages)
          /\ KernelFirst + KernelPages = ram.first + (before + KernelPages)
          /\ ram.first + ram.pages - KernelFirst - KernelPages = rest
          /\ KernelFirst - ram.first = before
      <4>1. PICK base \in Nat, f \in Nat, kernel \in Int, pages \in Nat, all \in Nat :
              /\ base = KernelBase /\ f = ram.first /\ kernel = KernelFirst
              /\ pages = KernelPages /\ all = ram.pages
        BY <1>1, <1>2
      <4>2. kernel = f + before /\ all = (before + pages) + rest
        BY <3>1, <4>1
      <4>3. /\ base + kernel + pages - f = base + (before + pages)
            /\ kernel + pages = f + (before + pages)
            /\ f + all - kernel - pages = rest
            /\ kernel - f = before
        BY <4>2, BehindKernel
      <4>. QED BY <4>1, <4>3
    <3>. QED BY <1>1, <1>3, <3>2
  <2>3. RefineJobs = (first \o second) \o third
    BY DEF RefineJobs
  <2>. HIDE DEF first, second, third, OneJob
  <2>4. /\ first \in Seq(Jobs)
        /\ \A x : StandsIn(x, first) <=> KernelPages > 0 /\ x = PieceJob(before, KernelPages, "kernel")
    <3>1. KernelPages \in Int /\ first = Job(KernelVFirst, KernelFirst, KernelPages, "kernel", 1)
      BY <1>2 DEF first
    <3>2. KernelVFirst = KernelBase + before /\ KernelFirst = ram.first + before
      BY <1>3
    <3>3. OneJob(first, before, KernelPages, "kernel")
      BY <2>1, <3>1, <3>2
    <3>. QED BY <3>3 DEF OneJob
  <2>5. /\ second \in Seq(Jobs)
        /\ \A x : StandsIn(x, second) <=> before > 0 /\ x = PieceJob(0, before, "ram")
    <3>1. before \in Int /\ 0 \in Nat
      OBVIOUS
    <3>2. second = Job(KernelBase, ram.first, before, "ram", 1)
      BY <2>2 DEF second
    <3>3. PICK zero \in Nat : zero = 0
      OBVIOUS
    <3>4. KernelBase = KernelBase + zero /\ ram.first = ram.first + zero
      BY <1>1, <3>3
    <3>5. OneJob(second, zero, before, "ram")
      BY <2>1, <3>1, <3>2, <3>4
    <3>. QED BY <3>3, <3>5 DEF OneJob
  <2>6. /\ third \in Seq(Jobs)
        /\ \A x : StandsIn(x, third) <=> rest > 0 /\ x = PieceJob(behind, rest, "ram")
    <3>1. rest \in Int
      OBVIOUS
    <3>2. third = Job(KernelBase + behind, ram.first + behind, rest, "ram", 1)
      BY <2>2 DEF third
    <3>3. PICK v, u : v = KernelBase + behind /\ u = ram.first + behind
      OBVIOUS
    <3>4. third = Job(v, u, rest, "ram", 1)
      BY <3>2, <3>3
    <3>. HIDE DEF parts
    <3>5. OneJob(third, behind, rest, "ram")
      BY <2>1, <3>1, <3>3, <3>4
    <3>. QED BY <3>5 DEF OneJob
  <2>7. /\ first \o second \in Seq(Jobs)
        /\ \A x : StandsIn(x, first \o second) <=> StandsIn(x, first) \/ StandsIn(x, second)
    BY <2>4, <2>5, Concatenated
  <2>8. /\ RefineJobs \in Seq(Jobs)
        /\ \A x : StandsIn(x, RefineJobs) <=> StandsIn(x, first \o second) \/ StandsIn(x, third)
    <3>1. PICK both : both = first \o second
      OBVIOUS
    <3>2. both \in Seq(Jobs) /\ third \in Seq(Jobs)
      BY <2>6, <2>7, <3>1
    <3>3. RefineJobs = both \o third
      BY <2>3, <3>1
    <3>. HIDE DEF first, second, third
    <3>4. /\ both \o third \in Seq(Jobs)
          /\ \A x : StandsIn(x, both \o third) <=> StandsIn(x, both) \/ StandsIn(x, third)
      BY <3>2, Concatenated
    <3>. QED BY <3>1, <3>3, <3>4
  <2>. QED BY <2>4, <2>5, <2>6, <2>7, <2>8
<1>8. ASSUME KernelPages > 0 PROVE JobSound(PieceJob(before, KernelPages, "kernel"))
  <2>1. KernelPages % Entries = 0
    BY <1>1 DEF Layout
  <2>2. ProtOf(before, KernelPages, "kernel")
    BY <1>3, <1>5, <1>6, <2>1 DEF ProtOf
  <2>3. before + KernelPages <= ram.pages /\ KernelPages \in Nat \ {0}
    BY <1>1, <1>2, <1>3, <1>6, <1>8
  <2>. QED BY <1>3, <1>4, <2>2, <2>3, PieceJobSound
<1>9. ASSUME before > 0 PROVE JobSound(PieceJob(0, before, "ram"))
  <2>1. ProtOf(0, before, "ram")
    <3>1. 0 + before = before
      BY <1>3
    <3>. QED BY <1>3, <1>4, <1>5, <3>1 DEF ProtOf
  <2>2. 0 + before <= ram.pages /\ before \in Nat \ {0} /\ 0 \in Nat /\ 0 % Entries = 0
    BY <1>1, <1>2, <1>3, <1>6, <1>9
  <2>. QED BY <2>1, <2>2, PieceJobSound
<1>10. ASSUME rest > 0 PROVE JobSound(PieceJob(behind, rest, "ram"))
  <2>1. ProtOf(behind, rest, "ram")
    BY <1>3, <1>5 DEF ProtOf
  <2>2. behind + rest <= ram.pages /\ rest \in Nat \ {0}
    BY <1>1, <1>3, <1>6, <1>10
  <2>. QED BY <1>3, <1>4, <2>1, <2>2, PieceJobSound
<1>11. ASSUME NEW i \in DOMAIN RefineJobs PROVE JobSound(RefineJobs[i])
  <2>1. PICK x : x = RefineJobs[i]
    OBVIOUS
  <2>2. StandsIn(x, RefineJobs)
    BY <2>1 DEF StandsIn
  <2>3. JobSound(x)
    BY <1>7, <1>8, <1>9, <1>10, <2>2
  <2>. QED BY <2>1, <2>3
<1>12. ASSUME NEW w \in Wanted
       PROVE  \E i \in DOMAIN RefineJobs :
                w.vpage \in RefineJobs[i].vpage..(RefineJobs[i].vpage + RefineJobs[i].pages - 1)
  <2>1. w \in RamWanted
    BY DEF Wanted
  <2>2. PICK n \in 0..(ram.pages - 1) : w.vpage = KernelBase + n
    BY <2>1 DEF RamWanted, Want
  <2>3. \A from, pages, prot :
          /\ PieceJob(from, pages, prot).vpage = KernelBase + from
          /\ PieceJob(from, pages, prot).pages = pages
    BY DEF PieceJob
  <2>4. \E x : parts(x) /\ w.vpage \in x.vpage..(x.vpage + x.pages - 1)
    <3>1. CASE n < before
      <4>1. PICK x : x = PieceJob(0, before, "ram")
        OBVIOUS
      <4>2. x.vpage = KernelBase + 0 /\ x.pages = before /\ before > 0
        BY <2>3, <3>1, <4>1
      <4>3. w.vpage \in x.vpage..(x.vpage + x.pages - 1)
        BY <1>1, <2>2, <3>1, <4>2
      <4>. QED BY <4>1, <4>2, <4>3
    <3>2. CASE before <= n /\ n < behind
      <4>1. PICK x : x = PieceJob(before, KernelPages, "kernel")
        OBVIOUS
      <4>2. x.vpage = KernelBase + before /\ x.pages = KernelPages /\ KernelPages > 0
        BY <1>2, <1>3, <2>3, <3>2, <4>1
      <4>3. w.vpage \in x.vpage..(x.vpage + x.pages - 1)
        BY <1>1, <1>2, <1>3, <2>2, <3>2, <4>2
      <4>. QED BY <4>1, <4>2, <4>3
    <3>3. CASE behind <= n
      <4>1. PICK x : x = PieceJob(behind, rest, "ram")
        OBVIOUS
      <4>2. x.vpage = KernelBase + behind /\ x.pages = rest
        BY <2>3, <4>1
      <4>3. rest > 0
        <5>1. n < behind + rest
          BY <1>1, <1>3, <2>2
        <5>. QED BY <2>2, <3>3, <5>1
      <4>4. w.vpage \in x.vpage..(x.vpage + x.pages - 1)
        <5>1. KernelBase \in Nat /\ n \in Nat
          BY <1>1, <2>2
        <5>2. n < behind + rest
          BY <1>1, <1>3, <2>2
        <5>3. KernelBase + n \in (KernelBase + behind)..(KernelBase + behind + rest - 1)
          BY <3>3, <5>1, <5>2
        <5>. QED BY <2>2, <4>2, <5>3
      <4>. QED BY <4>1, <4>3, <4>4
    <3>. QED BY <1>3, <3>1, <3>2, <3>3
  <2>5. PICK x : parts(x) /\ w.vpage \in x.vpage..(x.vpage + x.pages - 1)
    BY <2>4
  <2>6. StandsIn(x, RefineJobs)
    BY <1>7, <2>5
  <2>. QED BY <2>5, <2>6 DEF StandsIn
<1>. QED BY <1>11, <1>12

\* The mappings are to be made anew.
LEMMA RefineKeeps ==
  ASSUME TablesInv, NumbersGiven, Layout, MapInv, virtual_memory_refine_mappings
  PROVE  MapInv'
<1>1. /\ stage = "refine" /\ stage' = "devices" /\ jobs' = RefineJobs
      /\ UNCHANGED <<board, ram, tables, at, windows>>
  BY DEF virtual_memory_refine_mappings, board_vars
<1>2. windows = << >> /\ jobs = << >>
  BY <1>1 DEF TablesInv, MapInv, WindowsInOrder
<1>3. at = Start
  BY <1>2 DEF MapInv, Walking
<1>4. /\ \A i \in DOMAIN jobs' : JobSound(jobs'[i])
      /\ \A w \in Wanted : \E i \in DOMAIN jobs' :
           w.vpage \in jobs'[i].vpage..(jobs'[i].vpage + jobs'[i].pages - 1)
  BY <1>1, <1>2, RefineJobsSound
<1>5. jobs' \in Seq(Jobs)
  BY RefineJobsGiven DEF TablesInv
<1>6. at'.offset = 0 /\ at'.level = 2 /\ at'.table = RootTable
  BY <1>1, <1>3 DEF Start
<1>7. \A i \in DOMAIN jobs' : jobs'[i].vpage \in Int /\ jobs'[i].pages \in Int /\ jobs'[i].leaf \in {0, 1}
  <2>1. \A i \in DOMAIN jobs' : jobs'[i] \in Jobs
    BY <1>5
  <2>. QED BY <2>1 DEF Jobs
<1>8. Walking'
  <2>1. CASE jobs' = << >>
    BY <1>1, <1>3, <2>1 DEF Walking
  <2>2. CASE jobs' # << >>
    <3>1. 1 \in DOMAIN jobs'
      BY <1>5, <2>2
    <3>2. jobs'[1].pages > 0 /\ jobs'[1].pages \in Int /\ Span(jobs'[1].leaf) \in Nat \ {0}
      BY <1>4, <1>7, <3>1, Spans DEF JobSound
    <3>3. 0 \in 0..(jobs'[1].pages - 1) /\ 0 % Span(jobs'[1].leaf) = 0
      <4>1. \A q \in Nat \ {0} : 0 % q = 0
        OBVIOUS
      <4>. QED BY <3>2, <4>1
    <3>4. Reaches(tables', VPage', at'.level, at'.table)
      BY <1>6 DEF Reaches
    <3>. QED BY <1>6, <2>2, <3>3, <3>4 DEF Walking
  <2>. QED BY <2>1, <2>2
<1>9. PagesMapped'
  <2>1. Wanted' = Wanted /\ \A job : JobSound(job)' <=> JobSound(job)
    BY <1>1, SameWanted
  <2>2. ASSUME NEW w \in Wanted PROVE Pending(w.vpage)'
    <3>1. PICK i \in DOMAIN jobs' :
            w.vpage \in jobs'[i].vpage..(jobs'[i].vpage + jobs'[i].pages - 1)
      BY <1>4
    <3>2. w.vpage \in (jobs'[i].vpage + (IF i = 1 THEN at'.offset ELSE 0))..
                        (jobs'[i].vpage + jobs'[i].pages - 1)
      BY <1>6, <1>7, <3>1
    <3>. QED BY <3>2 DEF Pending
  <2>. QED BY <1>4, <2>1, <2>2 DEF PagesMapped
<1>10. LargePieces'
  BY <1>1 DEF LargePieces
<1>11. LowerHalfClear'
  BY <1>1 DEF MapInv, LowerHalfClear
<1>12. WindowsInOrder'
  BY <1>1, <1>2 DEF WindowsInOrder
<1>. QED BY <1>8, <1>9, <1>10, <1>11, <1>12 DEF MapInv

\* The greatest number of a set.
LEMMA GreatestIs ==
  ASSUME NEW S \in SUBSET Int, NEW x \in S, \A y \in S : y <= x
  PROVE  Max(S) = x
<1>1. \A y \in S : x >= y
  OBVIOUS
<1>2. \A z \in S : (\A y \in S : z >= y) => z = x
  OBVIOUS
<1>. QED BY <1>1, <1>2 DEF Max

\* A page of the memory, counted from a first page that begins a piece of the
\* root: its piece is the one of the page that begins it, and of no other.
LEMMA PieceOfRoot ==
  ASSUME NEW base \in Nat, base % Span(2) = 0, NEW n \in Nat
  PROVE  LET p == Span(2)
             m == n - (n % p)
         IN  /\ p \in Nat \ {0}
             /\ m \in Nat /\ m <= n /\ m % p = 0 /\ n % p = (base + n) % p
             /\ (base + m) \div p = (base + n) \div p
             /\ \A l \in Nat : l % p = 0 /\ (base + l) \div p = (base + n) \div p => l = m
<1>. DEFINE p == Span(2)
            m == n - (n % p)
            a == base \div p
            b == n \div p
<1>1. p \in Nat \ {0}
  BY Spans
<1>. HIDE DEF p
<1>2. a \in Nat /\ base = a * p
  <2>1. a \in Nat /\ base = a * p + (base % p) /\ base % p = 0
    BY <1>1, Places DEF p
  <2>2. a * p \in Int
    BY <1>1, <2>1, Multiply
  <2>. QED BY <2>1, <2>2
<1>3. b \in Nat /\ n = b * p + (n % p) /\ n % p \in 0..(p - 1)
  BY <1>1, Places
<1>. HIDE DEF a, b
<1>4. b * p \in Nat /\ a * p \in Nat /\ (a + b) * p = a * p + b * p /\ a + b \in Nat
  BY <1>1, <1>2, <1>3
<1>5. m = b * p /\ m \in Nat /\ m <= n
  BY <1>1, <1>3, <1>4
<1>. HIDE DEF m
<1>6. m % p = 0
  <2>1. 0 \in 0..(p - 1) /\ b * p + 0 = b * p
    BY <1>1, <1>4
  <2>2. PICK zero \in 0..(p - 1) : zero = 0
    BY <2>1
  <2>3. (b * p + zero) % p = zero
    BY <1>1, <1>3, Divided
  <2>. QED BY <1>5, <2>1, <2>2, <2>3
<1>7. (base + n) \div p = a + b /\ (base + n) % p = n % p
  <2>1. base + n = (a + b) * p + (n % p)
    BY <1>1, <1>2, <1>3, <1>4
  <2>2. PICK c \in Nat, d \in 0..(p - 1) : c = a + b /\ d = n % p
    BY <1>3, <1>4
  <2>3. (c * p + d) \div p = c /\ (c * p + d) % p = d
    BY <1>1, Divided
  <2>. QED BY <2>1, <2>2, <2>3
<1>8. ASSUME NEW l \in Nat, l % p = 0
      PROVE  \E c \in Nat : l = c * p /\ (base + l) \div p = a + c
  <2>. DEFINE c == l \div p
  <2>1. c \in Nat /\ l = c * p + (l % p)
    BY <1>1, Places
  <2>. HIDE DEF c
  <2>2. c * p \in Nat /\ (a + c) * p = a * p + c * p /\ a + c \in Nat
    BY <1>1, <1>2, <2>1
  <2>3. l = c * p /\ base + l = (a + c) * p + 0 /\ 0 \in 0..(p - 1)
    BY <1>1, <1>2, <1>4, <1>8, <2>1, <2>2
  <2>4. (base + l) \div p = a + c
    BY <1>1, <2>2, <2>3, Divided
  <2>. QED BY <2>1, <2>3, <2>4
<1>9. (base + m) \div p = a + b
  <2>1. base + m = (a + b) * p + 0 /\ 0 \in 0..(p - 1)
    BY <1>1, <1>2, <1>4, <1>5
  <2>. QED BY <1>1, <1>4, <2>1, Divided
<1>10. ASSUME NEW l \in Nat, l % p = 0, (base + l) \div p = (base + n) \div p PROVE l = m
  <2>1. PICK c \in Nat : l = c * p /\ (base + l) \div p = a + c
    BY <1>8, <1>10
  <2>2. c = b
    BY <1>2, <1>3, <1>7, <1>10, <2>1
  <2>. QED BY <1>5, <2>1, <2>2
<1>11. /\ p \in Nat \ {0}
       /\ m \in Nat /\ m <= n /\ m % p = 0 /\ n % p = (base + n) % p
       /\ (base + m) \div p = (base + n) \div p
       /\ \A l \in Nat : l % p = 0 /\ (base + l) \div p = (base + n) \div p => l = m
  BY <1>1, <1>5, <1>6, <1>7, <1>9, <1>10
<1>. QED BY <1>11 DEF p, m

\* The large pieces of virtual_memory_setup: an entry of the upper half is that
\* of the piece the kernel expects there.
LEMMA SetupKeeps ==
  ASSUME TablesInv, NumbersGiven, Layout', MapInv, virtual_memory_setup
  PROVE  MapInv'
<1>1. /\ stage = "entry" /\ stage' \in {"halted", "initrd"}
      /\ UNCHANGED <<board, jobs, at, windows>>
  BY DEF virtual_memory_setup, board_vars
<1>2. jobs = << >> /\ windows = << >> /\ at = Start
  <2>1. jobs = << >>
    BY <1>1 DEF TablesInv
  <2>. QED BY <1>1, <2>1 DEF MapInv, Walking, WindowsInOrder
<1>3. Walking' /\ LowerHalfClear' /\ WindowsInOrder' /\ PagesMapped'
  BY <1>1, <1>2 DEF Walking, LowerHalfClear, WindowsInOrder, PagesMapped
<1>4. CASE stage' = "halted"
  <2>1. LargePieces'
    BY <1>4 DEF LargePieces
  <2>. QED BY <1>3, <2>1 DEF MapInv
<1>5. CASE stage' = "initrd"
  <2>. DEFINE reg == fdt_reg_property(MemoryNode)
              last(base, i) == Max({-1} \cup {n \in Pieces' : PgdIndex(base + n) = i})
              root == [i \in 0..(RootEntries - 1) |->
                   IF i = PgdIndex(0) THEN Leaf(0, "mmio")
                   ELSE IF last(KernelBase, i) < last(ram'.first, i)
                   THEN Leaf(ram'.first + last(ram'.first, i), "identity")
                   ELSE IF last(KernelBase, i) # -1
                   THEN Leaf(ram'.first + last(KernelBase, i), "kernel")
                   ELSE None]
  <2>1. tables' = [t \in {RootTable} |-> root]
    BY <1>5 DEF virtual_memory_setup
  <2>2. PICK first \in Nat, pages \in Nat :
          /\ first = ram'.first /\ pages = ram'.pages
          /\ first % Span(2) = 0 /\ first + pages <= Span(2) * (RootEntries \div 2)
          /\ KernelBase + pages <= Span(2) * RootEntries
    <3>1. /\ ram'.first >= 0 /\ ram'.pages >= 0 /\ ram'.first % Span(2) = 0
          /\ ram'.first + ram'.pages <= Span(2) * (RootEntries \div 2)
          /\ MmioBase' <= Span(2) * RootEntries
      BY <1>5 DEF Layout
    <3>2. ram'.first \in Int /\ ram'.pages \in Int
      BY TablesSetUp DEF TablesInv
    <3>3. KernelBase + ram'.pages <= Span(2) * RootEntries
      <4>. DEFINE p == Span(2)
                  c == (ram'.pages + p - 1) \div p
      <4>1. p \in Nat \ {0} /\ KernelBase \in Nat /\ Span(2) * RootEntries \in Nat
        BY Spans
      <4>2. c \in Nat /\ ram'.pages <= c * p
        <5>1. PICK n \in Nat : n = ram'.pages
          BY <3>1, <3>2
        <5>. HIDE DEF p
        <5>2. (n + p - 1) \div p \in Nat /\ n <= ((n + p - 1) \div p) * p
          BY <4>1, RoundedUp
        <5>3. c = (n + p - 1) \div p
          BY <5>1
        <5>. HIDE DEF c
        <5>. QED BY <5>1, <5>2, <5>3
      <4>3. MmioBase' = KernelBase + p * c
        BY DEF MmioBase
      <4>. HIDE DEF p, c
      <4>4. p * c = c * p /\ c * p \in Nat
        BY <4>1, <4>2
      <4>5. PICK limit \in Nat, n \in Int, m \in Nat :
              limit = Span(2) * RootEntries /\ n = ram'.pages /\ m = c * p
        BY <3>2, <4>1, <4>4
      <4>6. n <= m /\ KernelBase + m <= limit
        BY <3>1, <4>2, <4>3, <4>4, <4>5
      <4>7. KernelBase + n <= limit
        BY <4>1, <4>6
      <4>. QED BY <4>5, <4>7
    <3>. QED BY <3>1, <3>2, <3>3
  <2>3. Pieces' = {n \in 0..(pages - 1) : n % Span(2) = 0}
    BY <2>2 DEF Pieces
  <2>4. ASSUME NEW n \in 0..(pages - 1)
        PROVE  MappedAs(tables', Want(KernelBase + n, Leaf(first + n, "kernel"), 2))
    <3>. DEFINE v == KernelBase + n
                i == Index(v, 2)
                p == Span(2)
                m == n - (n % p)
                w == Want(v, Leaf(first + n, "kernel"), 2)
    <3>1. /\ KernelBase \in Nat /\ n \in Nat /\ Span(2) * RootEntries \in Nat /\ p \in Nat \ {0}
          /\ RootEntries \in Nat
      BY Spans
    <3>2. \A u \in Nat : u < Span(2) * RootEntries =>
            /\ PgdIndex(u) = u \div Span(2) /\ Index(u, 2) = u \div Span(2)
      <4>. SUFFICES ASSUME NEW u \in Nat, u < Span(2) * RootEntries
                    PROVE  PgdIndex(u) = u \div Span(2) /\ Index(u, 2) = u \div Span(2)
        OBVIOUS
      <4>1. u \in VirtualPages
        BY <3>1 DEF VirtualPages
      <4>2. Index(u, 2) = u \div Span(2) /\ Index(u, 2) = PgdIndex(u)
        BY <4>1, IndexIs DEF Index
      <4>. QED BY <4>2
    <3>3. v \in Nat /\ v < Span(2) * RootEntries
      BY <2>2, <3>1
    <3>4. i = v \div p /\ i \in IndicesOf(RootTable) /\ IndicesOf(RootTable) = 0..(RootEntries - 1)
      <4>1. i = v \div p
        BY <3>2, <3>3
      <4>2. i \in IndicesOf(RootTable)
        BY <3>3, TableNumbers
      <4>. QED BY <4>1, <4>2 DEF IndicesOf
    <3>5. KernelBase % p = 0
      BY Spans, KernelBaseAssumption
    <3>6. /\ m \in Nat /\ m <= n /\ m % p = 0 /\ n % p = v % p
          /\ (KernelBase + m) \div p = v \div p
          /\ \A l \in Nat : l % p = 0 /\ (KernelBase + l) \div p = v \div p => l = m
      BY <3>1, <3>5, PieceOfRoot
    <3>7. last(KernelBase, i) = m
      <4>. DEFINE S == {-1} \cup {l \in Pieces' : PgdIndex(KernelBase + l) = i}
      <4>. HIDE DEF p, m, i
      <4>1. m \in S
        <5>1. m \in Pieces'
          BY <2>3, <3>1, <3>6 DEF p
        <5>2. PgdIndex(KernelBase + m) = i
          <6>1. KernelBase + m \in Nat /\ KernelBase + m < Span(2) * RootEntries
            <7>1. m \in Nat /\ m <= n
              BY <3>6
            <7>. QED BY <3>1, <3>3, <7>1
          <6>. QED BY <3>2, <3>4, <3>6, <6>1 DEF p
        <5>. QED BY <5>1, <5>2
      <4>2. \A l \in S : l \in Int /\ l <= m
        <5>. SUFFICES ASSUME NEW l \in Pieces', PgdIndex(KernelBase + l) = i PROVE l \in Int /\ l <= m
          BY <3>6
        <5>1. l \in Nat /\ l <= pages - 1 /\ l % p = 0
          BY <2>3 DEF p
        <5>2. KernelBase + l \in Nat /\ KernelBase + l < Span(2) * RootEntries
          BY <2>2, <3>1, <5>1
        <5>3. (KernelBase + l) \div p = v \div p
          BY <3>2, <3>4, <5>2 DEF p
        <5>. QED BY <3>6, <5>1, <5>3
      <4>3. last(KernelBase, i) = Max(S)
        OBVIOUS
      <4>. HIDE DEF S
      <4>. QED BY <4>1, <4>2, <4>3, GreatestIs
    <3>8. RootEntries \div 2 <= i /\ RootEntries \div 2 >= 1
      <4>1. PICK k \in Nat : KernelBase = k * p /\ RootEntries \div 2 <= k
        BY BaseGiven
      <4>2. k <= v \div p
        <5>1. k * p <= v
          BY <3>1, <4>1
        <5>. HIDE DEF p
        <5>2. p \in Nat \ {0}
          BY <3>1
        <5>. QED BY <3>3, <5>1, <5>2, SidesApart
      <4>3. RootEntries > 1 /\ RootEntries \in Nat
        BY <3>1, KernelBaseAssumption
      <4>4. v \div p \in Nat
        BY <3>1, <3>3, Places
      <4>. HIDE DEF p, v, i
      <4>. QED BY <3>4, <4>1, <4>2, <4>3, <4>4
    <3>9. last(first, i) = -1
      <4>1. ASSUME NEW l \in Pieces' PROVE PgdIndex(first + l) # i
        <5>1. l \in Nat /\ l <= pages - 1
          BY <2>3
        <5>. DEFINE h == RootEntries \div 2
                    u == first + l
        <5>2. h \in Nat /\ h <= RootEntries /\ u \in Nat /\ u < p * h
          <6>1. h \in Nat /\ h <= RootEntries
            BY <3>1
          <6>2. p * h \in Nat
            BY <3>1, <6>1
          <6>3. first + pages <= p * h
            BY <2>2
          <6>. HIDE DEF p, h
          <6>. QED BY <5>1, <6>1, <6>2, <6>3
        <5>. HIDE DEF h, u, p, i
        <5>3. p * h = h * p /\ p * RootEntries = RootEntries * p /\ p * h <= p * RootEntries
          <6>1. h * p <= RootEntries * p
            BY <3>1, <5>2, Multiply
          <6>. QED BY <3>1, <5>2, <6>1
        <5>4. u \div p < h
          BY <3>1, <5>2, <5>3, SidesApart
        <5>5. PgdIndex(u) = u \div p
          <6>1. u < p * RootEntries
            <7>1. p * h \in Nat /\ p * RootEntries \in Nat
              BY <3>1, <5>2
            <7>. QED BY <5>2, <5>3, <7>1
          <6>. QED BY <3>2, <5>2, <6>1 DEF p
        <5>6. u \div p \in Nat /\ i \in Int
          <6>1. u \div p \in Nat
            BY <3>1, <5>2, Places
          <6>. QED BY <3>4, <6>1
        <5>. QED BY <3>8, <5>2, <5>4, <5>5, <5>6 DEF h, u
      <4>. DEFINE S == {-1} \cup {l \in Pieces' : PgdIndex(first + l) = i}
      <4>2. S = {-1}
        BY <4>1
      <4>3. last(first, i) = Max(S)
        OBVIOUS
      <4>. HIDE DEF S
      <4>4. Max(S) = -1
        BY <4>2, GreatestIs
      <4>. QED BY <4>3, <4>4
    <3>10. PgdIndex(0) = 0
      <4>1. 0 < Span(2) * RootEntries
        BY <2>2, <3>1, <3>3
      <4>2. 0 \div Span(2) = 0
        BY <3>1
      <4>. QED BY <3>2, <4>1, <4>2
    <3>11. root[i] = Leaf(first + m, "kernel")
      <4>1. i \in 0..(RootEntries - 1) /\ i # PgdIndex(0)
        <5>1. i \in 0..(RootEntries - 1)
          BY <3>4
        <5>. DEFINE h == RootEntries \div 2
        <5>2. h \in Nat /\ h <= i /\ h >= 1
          BY <3>1, <3>8
        <5>. HIDE DEF h, i
        <5>. QED BY <3>10, <5>1, <5>2
      <4>2. ram'.first = first /\ ~ (m < -1) /\ m # -1
        BY <2>2, <3>6
      <4>3. root[i] = IF i = PgdIndex(0) THEN Leaf(0, "mmio")
                   ELSE IF last(KernelBase, i) < last(first, i)
                   THEN Leaf(first + last(first, i), "identity")
                   ELSE IF last(KernelBase, i) # -1
                   THEN Leaf(first + last(KernelBase, i), "kernel")
                   ELSE None
        <5>. HIDE DEF last, i
        <5>. QED BY <4>1, <4>2
      <4>. HIDE DEF root, last, i, m
      <4>. QED BY <3>7, <3>9, <4>1, <4>2, <4>3
    <3>12. tables'[RootTable][i] = root[i] /\ DOMAIN tables' = {RootTable}
      BY <2>1
    <3>13. w.vpage = v /\ w.leaf = Leaf(first + n, "kernel") /\ w.level = 2
      BY DEF Want
    <3>14. IsLeafFor(root[i], w)
      <4>1. (first + m) % p = 0
        <5>1. \A a, b \in Int : a % p = 0 /\ b % p = 0 => (a + b) % p = 0
          BY <3>1, Multiples
        <5>. HIDE DEF p, m
        <5>2. first % p = 0
          BY <2>2 DEF p
        <5>. QED BY <3>6, <5>1, <5>2
      <4>2. first + n = (first + m) + (v % p)
        <5>1. n % p \in Nat /\ n % p = v % p
          BY <3>1, <3>6
        <5>. HIDE DEF p, v
        <5>. QED BY <3>1, <5>1
      <4>3. /\ Leaf(first + m, "kernel").kind = "leaf"
            /\ Leaf(first + m, "kernel").page = first + m
            /\ Leaf(first + m, "kernel").prot = "kernel"
        BY DEF Leaf
      <4>. HIDE DEF root, w, i, m, v
      <4>. QED BY <3>11, <3>13, <4>1, <4>2, <4>3 DEF IsLeafFor
    <3>. HIDE DEF root, w, i, v
    <3>15. Reaches(tables', w.vpage, w.level, RootTable)
      BY <3>13 DEF Reaches
    <3>16. Index(w.vpage, w.level) = i
      BY <3>13 DEF i
    <3>17. MappedAs(tables', w)
      BY <3>12, <3>14, <3>15, <3>16 DEF MappedAs
    <3>. QED BY <3>17 DEF w, v
  <2>5. LargePieces'
    <3>1. \A n \in 0..(ram'.pages - 1) :
            MappedAs(tables', Want(KernelBase + n, Leaf(ram'.first + n, "kernel"), 2))
      BY <2>2, <2>4
    <3>. QED BY <3>1 DEF LargePieces
  <2>. QED BY <1>3, <2>5 DEF MapInv
<1>. QED BY <1>1, <1>4, <1>5

\* The identity mapping goes, and what is above stays.
LEMMA DropKeeps ==
  ASSUME TablesInv, Layout, MapInv, virtual_memory_drop_identity_mapping
  PROVE  MapInv'
<1>1. /\ stage = "populate" /\ stage' = "refine"
      /\ tables' = [tables EXCEPT ![RootTable] =
           [i \in DOMAIN @ |-> IF i < RootEntries \div 2 THEN None ELSE @[i]]]
      /\ UNCHANGED <<board, ram, jobs, at, windows>>
  BY DEF virtual_memory_drop_identity_mapping, board_vars
<1>2. jobs = << >> /\ DOMAIN tables = {RootTable} /\ windows = << >>
  BY <1>1 DEF TablesInv, MapInv, WindowsInOrder
<1>3. PICK lv : TableTree(tables, lv)
  BY DEF TablesInv, Walked
<1>4. /\ DOMAIN tables' = {RootTable}
      /\ \A i \in IndicesOf(RootTable) :
           tables'[RootTable][i] = IF i < RootEntries \div 2 THEN None ELSE tables[RootTable][i]
  <2>1. tables[RootTable] = [i \in IndicesOf(RootTable) |-> tables[RootTable][i]]
    BY <1>2, <1>3 DEF TableTree
  <2>2. DOMAIN tables[RootTable] = IndicesOf(RootTable)
    BY <2>1
  <2>. QED BY <1>1, <1>2, <2>2
<1>5. LargePieces'
  <2>. SUFFICES ASSUME NEW n \in 0..(ram.pages - 1)
                PROVE  MappedAs(tables', Want(KernelBase + n, Leaf(ram.first + n, "kernel"), 2))
    BY <1>1 DEF LargePieces
  <2>. DEFINE w == Want(KernelBase + n, Leaf(ram.first + n, "kernel"), 2)
              i == Index(KernelBase + n, 2)
  <2>1. w.vpage = KernelBase + n /\ w.level = 2
    BY DEF Want
  <2>2. MappedAs(tables, w)
    BY <1>1 DEF MapInv, LargePieces
  <2>3. KernelBase + n \in VirtualPages /\ KernelBase <= KernelBase + n
    <3>1. /\ ram.pages \in Nat /\ KernelBase \in Nat /\ MmioBase \in Nat
          /\ KernelBase + ram.pages <= MmioBase /\ MmioBase <= Span(2) * RootEntries
          /\ Span(2) * RootEntries \in Nat
      BY <1>1, BasesGiven, Spans
    <3>. QED BY <3>1 DEF VirtualPages
  <2>4. i \in IndicesOf(RootTable) /\ RootEntries \div 2 <= i
    <3>1. i \in IndicesOf(RootTable)
      BY <2>3, IndexIs, TableNumbers
    <3>. QED BY <1>1, <2>3, <3>1, UpperEntry
  <2>. HIDE DEF w
  <2>5. IsLeafFor(tables[RootTable][i], w)
    BY <2>1, <2>2 DEF MappedAs, Reaches
  <2>6. tables'[RootTable][i] = tables[RootTable][i]
    <3>1. ~ (i < RootEntries \div 2)
      <4>. DEFINE h == RootEntries \div 2
      <4>1. h \in Nat /\ i \in Int
        BY <2>4, Spans DEF IndicesOf
      <4>. HIDE DEF h, i
      <4>2. h <= i
        BY <2>4 DEF h, i
      <4>3. ~ (i < h)
        BY <4>1, <4>2
      <4>. QED BY <4>3 DEF h, i
    <3>. HIDE DEF i
    <3>. QED BY <1>4, <2>4, <3>1
  <2>7. Reaches(tables', w.vpage, w.level, RootTable)
    BY <2>1 DEF Reaches
  <2>8. MappedAs(tables', w)
    BY <1>4, <2>1, <2>5, <2>6, <2>7 DEF MappedAs
  <2>. QED BY <2>8 DEF w
<1>6. LowerHalfClear'
  <2>1. ASSUME NEW i \in 0..(RootEntries \div 2 - 1) PROVE tables'[RootTable][i] = None
    <3>. DEFINE h == RootEntries \div 2
    <3>1. RootEntries \in Nat /\ h <= RootEntries /\ h \in Nat
      BY Spans
    <3>2. i \in 0..(h - 1)
      OBVIOUS
    <3>. HIDE DEF h
    <3>3. i \in IndicesOf(RootTable) /\ i < h
      BY <3>1, <3>2 DEF IndicesOf
    <3>. QED BY <1>4, <3>3 DEF h
  <2>. QED BY <2>1 DEF LowerHalfClear
<1>7. Walking' /\ WindowsInOrder' /\ PagesMapped'
  BY <1>1, <1>2 DEF MapInv, Walking, WindowsInOrder, PagesMapped
<1>. QED BY <1>5, <1>6, <1>7 DEF MapInv

\* The stages of the boot, until the tables are refined.
EarlyStages == {"initrd", "memory", "reserve", "populate", "refine"}

\* What changes when tables and mappings are left alone.
LEMMA StagesOfOthers ==
  ASSUME Setup \/ Boot \/ Run \/ Stopped \/ UNCHANGED kernel_vars
  PROVE  /\ UNCHANGED map_vars /\ board' = board
         /\ \/ stage' = stage
            \/ stage \in EarlyStages /\ stage' \in {"memory", "reserve", "populate", "failed"}
            \/ stage = "devices" /\ stage' = "ready"
<1>. USE DEF EarlyStages, board_vars, setup_vars, boot_vars, kernel_vars
<1>1. CASE Setup
  <2>1. UNCHANGED map_vars
    BY <1>1 DEF Setup
  <2>2. CASE FindRamdisk
    BY <2>1, <2>2 DEF FindRamdisk
  <2>3. CASE FindMemory
    BY <2>1, <2>3 DEF FindMemory
  <2>4. CASE ReserveNode
    BY <2>1, <2>4 DEF ReserveNode
  <2>5. CASE memory_init
    BY <2>1, <2>5 DEF memory_init
  <2>6. CASE UNCHANGED setup_vars
    BY <2>1, <2>6
  <2>. QED BY <1>1, <2>2, <2>3, <2>4, <2>5, <2>6 DEF Setup
<1>2. CASE Boot
  BY <1>2 DEF Boot
<1>3. CASE Run \/ Stopped \/ UNCHANGED kernel_vars
  BY <1>3 DEF Run, Stopped
<1>. QED BY <1>1, <1>2, <1>3

LEMMA OthersKeep ==
  ASSUME MapInv, Setup \/ Boot \/ Run \/ Stopped \/ UNCHANGED kernel_vars
  PROVE  MapInv'
<1>1. /\ UNCHANGED <<board, ram, tables, jobs, at, windows>>
      /\ \/ stage' = stage
         \/ stage \in EarlyStages /\ stage' \in {"memory", "reserve", "populate", "failed"}
         \/ stage = "devices" /\ stage' = "ready"
  BY StagesOfOthers DEF map_vars
<1>2. VPage' = VPage /\ \A v : Pending(v)' <=> Pending(v)
  BY <1>1 DEF VPage, Pending
<1>3. Wanted' = Wanted /\ \A job : JobSound(job)' <=> JobSound(job)
  BY <1>1, SameWanted
<1>4. Walking'
  BY <1>1, <1>2 DEF MapInv, Walking
<1>5. LargePieces'
  BY <1>1 DEF MapInv, LargePieces, EarlyStages
<1>6. LowerHalfClear'
  BY <1>1 DEF MapInv, LowerHalfClear, EarlyStages
<1>7. WindowsInOrder'
  BY <1>1, SameWanted DEF MapInv, WindowsInOrder, EarlyStages
<1>8. PagesMapped'
  BY <1>1, <1>2, <1>3 DEF MapInv, PagesMapped, EarlyStages
<1>. QED BY <1>4, <1>5, <1>6, <1>7, <1>8 DEF MapInv

\* Every page of the kernel is mapped or about to be.
THEOREM MapKept == KernelSpec /\ []NumbersGiven /\ []Layout => []MapInv
<1>1. KernelInit => MapInv
  <2>. SUFFICES ASSUME KernelInit PROVE MapInv
    OBVIOUS
  <2>1. stage = "entry" /\ at = Start /\ jobs = << >> /\ windows = << >>
    BY DEF KernelInit, SetupInit
  <2>. QED BY <2>1 DEF MapInv, Walking, LargePieces, LowerHalfClear, WindowsInOrder, PagesMapped
<1>2. BootInv /\ TablesInv /\ NumbersGiven /\ Layout /\ Layout' /\ MapInv /\ [KernelNext]_kernel_vars => MapInv'
  <2>. SUFFICES ASSUME BootInv, TablesInv, NumbersGiven, Layout, Layout', MapInv,
                       [KernelNext]_kernel_vars
                PROVE  MapInv'
    OBVIOUS
  <2>1. CASE Setup \/ Boot \/ Run \/ Stopped \/ UNCHANGED kernel_vars
    BY <2>1, OthersKeep
  <2>2. CASE virtual_memory_setup
    BY <2>2, SetupKeeps
  <2>3. CASE virtual_memory_drop_identity_mapping
    BY <2>3, DropKeeps
  <2>4. CASE virtual_memory_refine_mappings
    BY <2>4, RefineKeeps
  <2>5. CASE FollowEntry
    BY <2>5, FollowedKeeps
  <2>6. CASE AllocateTable
    BY <2>6, AllocatedKeeps
  <2>7. CASE SetLeaf
    BY <2>7, LeafKeeps
  <2>8. CASE SetUpDevice
    BY <2>8, WindowKeeps
  <2>. QED BY <2>1, <2>2, <2>3, <2>4, <2>5, <2>6, <2>7, <2>8 DEF KernelNext
<1>. QED BY <1>1, <1>2, BootKept, TablesKept, PTL DEF KernelSpec

\* The kernel finds its memory where it expects it, page by page once the tables
\* are refined, and every device in a window of its own.
THEOREM KernelIsMapped == KernelSpec /\ []NumbersGiven /\ []Layout => []KernelMapped
<1>1. TablesInv /\ Layout /\ MapInv => KernelMapped
  BY AllFound
<1>. QED BY <1>1, TablesKept, MapKept, PTL

=============================================================================
