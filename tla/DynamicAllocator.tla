-------------------------- MODULE DynamicAllocator --------------------------
(***************************************************************************)
(* mm/dynamic_allocator.c on top of the page allocator: requests up to the *)
(* largest chunk size come from pools of equal chunks, larger ones are     *)
(* blocks of pages.  Other code (page tables, user pages) takes its pages  *)
(* from the page allocator directly.  Both allocators work with interrupts *)
(* off, so that a call is one step.                                        *)
(***************************************************************************)
EXTENDS PageAllocator

CONSTANTS
  chunk_sizes,   \* of each pool
  MaxOwned       \* bound on the pieces and pages callers hold at a time

\* The memory has no more pages than _populate_orders_lists can tell apart:
\* 4 GiB.
ASSUME MemoryAssumption == PageCount <= OffsetPages

ASSUME ChunkAssumption ==
  /\ chunk_sizes \in Seq(Nat \ {0}) /\ chunk_sizes # << >>
  /\ \A i \in DOMAIN chunk_sizes : PageSize % chunk_sizes[i] = 0

VARIABLES
  pool_index,    \* of each page, 0 for none (0xFF)
  pools,         \* the free chunks of each pool, by address
  pieces,        \* size asked for of each address callers got from allocate
  direct         \* blocks callers got from the page allocator

dynvars == <<pool_index, pools, pieces, direct>>
allvars == <<vars, dynvars>>

Pools == DOMAIN chunk_sizes
NoPool == 0

\* frame_array holds the index of the first pool in every page at first.
DynInit ==
  /\ Init
  /\ pool_index = [p \in Pages |-> 1]
  /\ pools = [i \in Pools |-> << >>]
  /\ pieces = << >>
  /\ direct = {}

-----------------------------------------------------------------------------
(* Operations.                                                             *)

\* The block memory_allocate_pages has just given out.
NewBlock == CHOOSE b \in DOMAIN held' : b \notin DOMAIN held

PageOf(addr) == addr \div PageSize

\* Faulty variant: the next smaller pool is good enough.
_get_pool_index_small(size) ==
  LET fitting == {i \in Pools : chunk_sizes[i] + 1 >= size}
  IN  IF fitting = {} THEN NoPool
      ELSE CHOOSE i \in fitting : \A j \in fitting : i <= j

_get_pool_index(size) ==
  LET fitting == {i \in Pools : chunk_sizes[i] >= size}
  IN  IF fitting = {} THEN NoPool
      ELSE CHOOSE i \in fitting : \A j \in fitting : i <= j

Give(addr, size) ==
  /\ Cardinality(DOMAIN pieces) + Cardinality(direct) < MaxOwned
  /\ pieces' = [a \in DOMAIN pieces \cup {addr} |->
                  IF a = addr THEN size ELSE pieces[a]]
  /\ UNCHANGED direct

\* A block of pages of its own.
AllocateBlock(size) ==
  /\ _get_pool_index(size) = NoPool
  /\ memory_allocate_pages(size)
  /\ Give(NewBlock * PageSize, size)
  /\ pool_index' = [pool_index EXCEPT ![NewBlock] = NoPool]
  /\ UNCHANGED pools

\* Faulty variant: the chunk that is returned goes into the pool as well.
FillPoolAll(i) ==
  /\ memory_allocate_pages(PageSize)
  /\ pool_index' = [pool_index EXCEPT ![NewBlock] = i]
  /\ pools' = [pools EXCEPT ![i] =
       [k \in 1..(PageSize \div chunk_sizes[i]) |->
          NewBlock * PageSize + (k - 1) * chunk_sizes[i]]]

\* An empty pool gets the chunks of a new page but the first.
FillPool(i) ==
  /\ memory_allocate_pages(PageSize)
  /\ pool_index' = [pool_index EXCEPT ![NewBlock] = i]
  /\ pools' = [pools EXCEPT ![i] =
       [k \in 1..(PageSize \div chunk_sizes[i] - 1) |->
          NewBlock * PageSize + k * chunk_sizes[i]]]

AllocateChunk(size) ==
  LET i == _get_pool_index(size)
  IN  /\ i # NoPool
      /\ \/ /\ pools[i] = << >>
            /\ FillPool(i)
            /\ Give(NewBlock * PageSize, size)
         \/ /\ pools[i] # << >>
            /\ Give(Head(pools[i]), size)
            /\ pools' = [pools EXCEPT ![i] = linked_list_remove(@, Head(@))]
            /\ UNCHANGED <<vars, pool_index>>

\* allocate returns 0.
NoMemory(size) ==
  LET i == _get_pool_index(size)
  IN  /\ i # NoPool => pools[i] = << >>
      /\ AllocateFails(IF i = NoPool THEN size ELSE PageSize)
      /\ UNCHANGED dynvars

free(addr) ==
  LET i == pool_index[PageOf(addr)]
  IN  /\ addr \in DOMAIN pieces
      /\ pieces' = [a \in DOMAIN pieces \ {addr} |-> pieces[a]]
      /\ \/ /\ i = NoPool
            /\ Release(PageOf(addr))
            /\ UNCHANGED pools
         \/ /\ i # NoPool
            /\ pools' = [pools EXCEPT ![i] = linked_list_insert(@, addr)]
            /\ UNCHANGED vars
      /\ UNCHANGED <<pool_index, direct>>

\* Page tables and user pages, a page each.
TakePage ==
  /\ Cardinality(DOMAIN pieces) + Cardinality(direct) < MaxOwned
  /\ memory_allocate_pages(PageSize)
  /\ direct' = direct \cup {NewBlock}
  /\ UNCHANGED <<pool_index, pools, pieces>>

GiveBackPage(block) ==
  /\ block \in direct
  /\ Release(block)
  /\ direct' = direct \ {block}
  /\ UNCHANGED <<pool_index, pools, pieces>>

DynNext ==
  \/ Populate /\ UNCHANGED dynvars
  \/ \E size \in Sizes : AllocateBlock(size) \/ AllocateChunk(size)
                           \/ NoMemory(size)
  \/ \E addr \in DOMAIN pieces : free(addr)
  \/ TakePage
  \/ \E block \in direct : GiveBackPage(block)

DynSpec == DynInit /\ [][DynNext]_allvars

-----------------------------------------------------------------------------
(* Properties.                                                             *)

DynTypeOK ==
  /\ TypeOK
  /\ pool_index \in [Pages -> Pools \cup {NoPool}]
  /\ pools \in [Pools -> Seq(0..(End - 1))]
  /\ DOMAIN pieces \subseteq 0..(End - 1)
  /\ direct \subseteq Pages

\* The addresses at which the chunks of a page begin.
Chunks(page) ==
  {page * PageSize + k * chunk_sizes[pool_index[page]] :
     k \in 0..(PageSize \div chunk_sizes[pool_index[page]] - 1)}

Free(i) == Range(pools[i])

\* Every block the page allocator has given out is accounted for, although
\* free finds out from the pool_index of a page, which is never cleared, what
\* an address is: it is a page a caller holds, or one piece, or cut into the
\* chunks of its pool, each of which is either free or held and none lost.
BlocksAccounted ==
  /\ DynTypeOK
  /\ \A i \in Pools : IsInjective(pools[i])
  /\ \A block \in DOMAIN held \ direct :
       LET i == pool_index[block]
           inside == {a \in DOMAIN pieces : PageOf(a) = block}
       IN  \/ /\ i = NoPool
              /\ inside = {block * PageSize}
           \/ /\ i # NoPool
              /\ held[block] = 0
              /\ inside \cap Free(i) = {}
              /\ inside \cup {a \in Free(i) : PageOf(a) = block} = Chunks(block)
  /\ \A i \in Pools : \A a \in Free(i) : PageOf(a) \in DOMAIN held \ direct

\* The two allocators together behave as a heap whose pieces never share a
\* byte, whatever mixture of chunks, blocks and pages is given out and back.
Memory == INSTANCE Heap
ImplementsHeap == Memory!Spec

=============================================================================
