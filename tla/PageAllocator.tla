--------------------------- MODULE PageAllocator ---------------------------
(***************************************************************************)
(* The buddy allocator of mm/page_allocator.c.  A page is its index in     *)
(* frame_array, a block is the index of its first page; addresses are byte *)
(* offsets from memory_base_addr.  Every operation runs with interrupts    *)
(* off and is one step; _populate_orders_lists is a step per page.         *)
(***************************************************************************)
EXTENDS Queues, Integers, FiniteSets

CONSTANTS
  PageCount,       \* frame_array_length
  PageSize,        \* PAGE_SIZE
  MaxOrders,       \* MAX_ORDERS
  IntOrders,       \* the orders whose size, PAGE_SIZE << order, fits an int
  FrameArraySize,  \* sizeof(struct page) * page_count
  Reservations,    \* the sequences of regions reserved before memory_init
  Sizes            \* the sizes callers ask for

ASSUME PageAssumption ==
  /\ PageCount \in Nat \ {0}
  /\ PageSize \in Nat \ {0}
  /\ MaxOrders \in Nat \ {0}
  /\ IntOrders \in Nat
  /\ FrameArraySize \in Nat \ {0}
  /\ Sizes \subseteq Nat
ASSUME ReservationAssumption ==
  Reservations \subseteq Seq([addr : Int, size : Nat])

VARIABLES
  reserved_memory, \* the regions of memory_reserve
  frame_array,     \* flags and order of each page
  orders_lists,    \* the free blocks of each order
  populated,       \* pages _populate_orders_lists has been through
  held             \* the order of every block that callers own

vars == <<reserved_memory, frame_array, orders_lists, populated, held>>

Pages  == 0..(PageCount - 1)
Orders == 0..(MaxOrders - 1)
Flags  == {"none", "free", "allocated", "reserved"}
End    == PageCount * PageSize

-----------------------------------------------------------------------------
(* memory_init.                                                            *)

Overlapping(regions, addr) ==
  {i \in DOMAIN regions :
     /\ addr < regions[i].addr + regions[i].size
     /\ addr + FrameArraySize > regions[i].addr}

\* Where the frame array fits, walking up from the base and past each region
\* in its way; -1 when it fits nowhere.
_allocate_frame_array(regions) ==
  LET F[addr \in 0..End] ==
        LET hit == Overlapping(regions, addr)
            first == CHOOSE i \in hit : \A j \in hit : i <= j
        IN  IF addr + FrameArraySize > End THEN -1
            ELSE IF hit = {} THEN addr
            ELSE IF regions[first].addr + regions[first].size > End THEN -1
            ELSE F[regions[first].addr + regions[first].size]
  IN  F[0]

\* The pages _memory_reserve_pages marks for a region.
_memory_reserve_pages(addr, size) ==
  LET first == addr \div PageSize
  IN  first..(first + ((size + PageSize - 1) \div PageSize) - 1)

\* Faulty variant: the pages of the frame array itself are not reserved.
ReservedPagesBare(regions, frame_addr) ==
  UNION {_memory_reserve_pages(r.addr, r.size) :
    r \in {x \in Range(regions) : x.addr >= 0 /\ x.addr + x.size <= End}}

\* The pages memory_init reserves: the frame array's and those of each region
\* that lies inside the memory.
ReservedPages(regions, frame_addr) ==
  _memory_reserve_pages(frame_addr, FrameArraySize) \cup
  UNION {_memory_reserve_pages(r.addr, r.size) :
    r \in {x \in Range(regions) : x.addr >= 0 /\ x.addr + x.size <= End}}

\* The frame array of memory_init when it gets to the lists.
FrameArray(regions) ==
  [p \in Pages |->
     [order |-> 0,
      flags |-> IF p \in ReservedPages(regions, _allocate_frame_array(regions))
                THEN "reserved" ELSE "none"]]

Init ==
  /\ reserved_memory \in Reservations
  /\ _allocate_frame_array(reserved_memory) # -1
  /\ frame_array = FrameArray(reserved_memory)
  /\ orders_lists = [o \in Orders |-> << >>]
  /\ populated = 0
  /\ held = << >>

-----------------------------------------------------------------------------
(* Blocks and buddies.                                                     *)

\* 1 << n.
Pow2[n \in Nat] == IF n = 0 THEN 1 ELSE 2 * Pow2[n - 1]

BlockPages(block, order) == block..(block + Pow2[order] - 1)

\* The offset with one bit flipped.
BuddyOf(block, order) ==
  IF (block \div Pow2[order]) % 2 = 0 THEN block + Pow2[order] ELSE block - Pow2[order]

\* What i * PAGE_SIZE can tell apart in 32 bits, in pages: one bit more than
\* an int has.
OffsetPages == 2 * Pow2[IntOrders]

\* _get_buddy finds one.  The size of a block of order IntOrders is negative as
\* an int, which makes the buddy's address one far outside the memory; of larger
\* orders there are no blocks, since merging stops here.
HasFreeBuddy(block, order) ==
  LET buddy == BuddyOf(block, order)
  IN  /\ order < IntOrders
      /\ buddy \in Pages
      /\ frame_array[buddy].flags = "free"
      /\ frame_array[buddy].order = order

required_order(size) ==
  CHOOSE o \in 0..size :
    /\ PageSize * Pow2[o] >= size
    /\ \A p \in 0..(o - 1) : PageSize * Pow2[p] < size

-----------------------------------------------------------------------------
(* Operations.                                                             *)

\* Faulty variant: the last upper half is not put back.
TakeLossy(block, from, to) ==
  /\ orders_lists' = [o \in Orders |->
       IF o = from THEN linked_list_remove(orders_lists[o], block)
       ELSE IF o \in (to + 1)..(from - 1)
            THEN linked_list_insert(orders_lists[o], block + Pow2[o])
       ELSE orders_lists[o]]
  /\ frame_array' = [p \in Pages |->
       IF \E o \in (to + 1)..(from - 1) : p = block + Pow2[o]
       THEN [order |-> CHOOSE o \in to..(from - 1) : p = block + Pow2[o],
             flags |-> "free"]
       ELSE IF p = block THEN [order |-> to, flags |-> "allocated"]
       ELSE frame_array[p]]

\* The first free block of order from is taken and split down to order to:
\* the upper half is freed each time.
Take(block, from, to) ==
  LET split == {block + Pow2[o] : o \in to..(from - 1)}
      order(p) == CHOOSE o \in to..(from - 1) : p = block + Pow2[o]
  IN  /\ orders_lists' = [o \in Orders |->
           IF o = from THEN linked_list_remove(orders_lists[o], block)
           ELSE IF o \in to..(from - 1)
                THEN linked_list_insert(orders_lists[o], block + Pow2[o])
           ELSE orders_lists[o]]
      /\ frame_array' = [p \in Pages |->
           IF p \in split THEN [order |-> order(p), flags |-> "free"]
           ELSE IF p = block THEN [order |-> to, flags |-> "allocated"]
           ELSE frame_array[p]]

memory_allocate_pages(size) ==
  LET required == required_order(size)
      fitting == {o \in Orders : o >= required /\ orders_lists[o] # << >>}
      order == CHOOSE o \in fitting : \A p \in fitting : o <= p
      block == Head(orders_lists[order])
  IN  /\ populated = PageCount
      /\ fitting # {}
      /\ Take(block, order, required)
      /\ held' = [b \in DOMAIN held \cup {block} |->
                    IF b = block THEN required ELSE held[b]]
      /\ UNCHANGED <<reserved_memory, populated>>

\* memory_allocate_pages returns 0.
AllocateFails(size) ==
  /\ populated = PageCount
  /\ \A o \in Orders : o >= required_order(size) => orders_lists[o] = << >>
  /\ UNCHANGED vars

\* The block of order o that contains block, as merging reaches it.
Merged(block, order) ==
  LET F[o \in order..(MaxOrders - 1)] ==
        IF o = order THEN block
        ELSE IF BuddyOf(F[o-1], o - 1) < F[o-1] THEN BuddyOf(F[o-1], o - 1)
             ELSE F[o-1]
  IN  F

\* Faulty variant: the block is freed without looking for its buddy.
memory_free_pages_alone(block) ==
  LET order == frame_array[block].order
  IN  /\ orders_lists' = [orders_lists EXCEPT
           ![order] = linked_list_insert(@, block)]
      /\ frame_array' = [frame_array EXCEPT
           ![block] = [order |-> order, flags |-> "free"]]

\* Merging goes up until the buddy is not free; the metadata of the pages
\* that are no longer the first of a block stays as it was.
memory_free_pages(block) ==
  LET order == frame_array[block].order
      at == Merged(block, order)
      stops == {o \in order..(MaxOrders - 1) :
                  o = MaxOrders - 1 \/ ~ HasFreeBuddy(at[o], o)}
      last == CHOOSE o \in stops : \A p \in stops : o <= p
  IN  /\ orders_lists' = [o \in Orders |->
           IF o \in order..(last - 1)
           THEN linked_list_remove(orders_lists[o], BuddyOf(at[o], o))
           ELSE IF o = last THEN linked_list_insert(orders_lists[o], at[o])
           ELSE orders_lists[o]]
      /\ frame_array' = [frame_array EXCEPT
           ![at[last]] = [order |-> last, flags |-> "free"]]

\* One turn of _populate_orders_lists.  The address of the page is computed in
\* 32 bits: in a memory of more than OffsetPages it is that of another page.
Populate ==
  /\ populated < PageCount
  /\ populated' = populated + 1
  /\ IF frame_array[populated].flags \in {"reserved", "free"}
     THEN UNCHANGED <<orders_lists, frame_array>>
     ELSE memory_free_pages(populated % OffsetPages)
  /\ UNCHANGED <<reserved_memory, held>>

\* A caller frees a block it owns.
Release(block) ==
  /\ block \in DOMAIN held
  /\ memory_free_pages(block)
  /\ held' = [b \in DOMAIN held \ {block} |-> held[b]]
  /\ UNCHANGED <<reserved_memory, populated>>

-----------------------------------------------------------------------------
(* Properties.                                                             *)

TypeOK ==
  /\ reserved_memory \in Reservations
  /\ frame_array \in [Pages -> [order : Orders, flags : Flags]]
  /\ orders_lists \in [Orders -> Seq(Pages)]
  /\ populated \in 0..PageCount
  /\ DOMAIN held \subseteq Pages
  /\ \A b \in DOMAIN held : held[b] \in Orders

\* Every block there is, free or owned.
Blocks ==
  {x \in Orders \X Pages : x[2] \in Range(orders_lists[x[1]])} \cup
  {<<held[b], b>> : b \in DOMAIN held}

\* Splitting and merging neither lose nor share memory: the free blocks and
\* the owned ones are disjoint, and together they are the pages that are not
\* reserved.
BlocksPartition ==
  /\ \A o \in Orders : IsInjective(orders_lists[o])
  /\ \A o \in Orders : \A b \in Range(orders_lists[o]) : b \notin DOMAIN held
  /\ \A x, y \in Blocks : x # y =>
       BlockPages(x[2], x[1]) \cap BlockPages(y[2], y[1]) = {}
  /\ UNION {BlockPages(x[2], x[1]) : x \in Blocks} =
       {p \in 0..(populated - 1) : frame_array[p].flags # "reserved"}

\* Merging is complete and takes nothing out of a list it is not in, although
\* it leaves stale metadata behind: a page next to a block that is marked free
\* with the block's order is in the free list of that order, and two free
\* blocks that are buddies never stay apart, so that memory given back can be
\* allocated again in pieces as large as at the start.
BuddiesMerged ==
  \A x \in Blocks :
    LET buddy == BuddyOf(x[2], x[1])
    IN  x[1] < MaxOrders - 1 =>
          /\ HasFreeBuddy(x[2], x[1]) => buddy \in Range(orders_lists[x[1]])
          /\ buddy \in Range(orders_lists[x[1]]) => x[2] \in DOMAIN held

=============================================================================
