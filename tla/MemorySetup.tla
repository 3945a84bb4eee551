---------------------------- MODULE MemorySetup ----------------------------
(***************************************************************************)
(* How the kernel comes by its memory (kernel/mm/setup.c, called by        *)
(* kernel_setup behind initrd_setup): the device tree says where memory,   *)
(* ramdisk and reserved regions are, memory_init builds the allocator on   *)
(* what is left, and the allocator runs from then on.                      *)
(*                                                                         *)
(* Addresses of regions are offsets from the memory's base, as in          *)
(* PageAllocator; those in the device tree are physical.                   *)
(***************************************************************************)
EXTENDS PageAllocator, Ramdisk

CONSTANTS
  Boards,      \* device tree, archive, place of device tree and kernel
  MaxReserved  \* reserved_memory_max_length

ASSUME MaxReservedAssumption == MaxReserved \in Nat /\ MaxReserved >= 3

VARIABLES
  board,       \* the one the kernel runs on
  stage,       \* how far the boot has come
  memory_base_addr,
  node         \* the local current_node of memory_setup

board_vars == <<dt, board, archive>>
setup_vars == <<board_vars, ramdisk, stage, memory_base_addr, node>>
boot_vars == <<vars, setup_vars>>

SetupInit ==
  /\ board \in Boards
  /\ dt = board.dt
  /\ archive = board.archive
  /\ initrd_start_addr = 0
  /\ initrd_end_addr = 0
  /\ stage = "entry"
  /\ memory_base_addr = 0
  /\ node = 0
  /\ reserved_memory = << >>
  /\ frame_array = [p \in Pages |-> [order |-> 0, flags |-> "none"]]
  /\ orders_lists = [o \in Orders |-> << >>]
  /\ populated = 0
  /\ held = << >>

-----------------------------------------------------------------------------
(* kernel_setup.                                                           *)

FindRamdisk ==
  /\ stage = "initrd"
  /\ initrd_setup
  /\ stage' = "memory"
  /\ UNCHANGED <<vars, dt, board, memory_base_addr, node>>

\* Nobody is told of a region for which there is no room.
memory_reserve(regions, region) ==
  IF Len(regions) < MaxReserved THEN Append(regions, region) ELSE regions

At(va, size) == [addr |-> va - memory_base_addr', size |-> size]

MemoryNode == fdt_node_addr_by_path(<< <<"memory", "">> >>)

\* The first part of memory_setup: the memory, and the regions of the device
\* tree, the ramdisk and the kernel.
FindMemory ==
  LET type == fdt_property_by_name(MemoryNode, "device_type")
      memory == fdt_reg_property(MemoryNode)
      initrd_size == initrd_end_addr - initrd_start_addr
  IN  /\ stage = "memory"
      /\ \/ /\ type = 0 \/ Cell(type, 1) # "memory"
            /\ stage' = "failed"
            /\ UNCHANGED <<memory_base_addr, reserved_memory, node>>
         \/ /\ type # 0 /\ Cell(type, 1) = "memory"
            /\ memory.size = End
            /\ memory_base_addr' = pa2va(memory.addr)
            /\ reserved_memory' =
                 <<At(board.fdt.addr, board.fdt.size),
                   At(initrd_start_addr, initrd_size),
                   At(board.kernel.addr, board.kernel.size)>>
            /\ node' = fdt_child_node(fdt_node_addr_by_path(<< <<"reserved-memory", "">> >>))
            /\ stage' = "reserve"
      /\ UNCHANGED <<frame_array, orders_lists, populated, held, board_vars, ramdisk>>

\* One turn of the loop over the children of /reserved-memory.
ReserveNode ==
  LET region == fdt_reg_property(node)
  IN  /\ stage = "reserve"
      /\ node # 0
      /\ fdt_get_node_cells(node)
      /\ reserved_memory' =
           memory_reserve(reserved_memory,
                          [addr |-> pa2va(region.addr) - memory_base_addr, size |-> region.size])
      /\ node' = fdt_sibling_node(node)
      /\ UNCHANGED <<frame_array, orders_lists, populated, held, board_vars,
                     ramdisk, stage, memory_base_addr>>

\* memory_init up to the lists.
memory_init ==
  /\ stage = "reserve"
  /\ node = 0
  /\ IF _allocate_frame_array(reserved_memory) = -1
     THEN stage' = "failed" /\ UNCHANGED frame_array
     ELSE stage' = "populate" /\ frame_array' = FrameArray(reserved_memory)
  /\ UNCHANGED <<reserved_memory, orders_lists, populated, held, board_vars,
                 ramdisk, memory_base_addr, node>>

-----------------------------------------------------------------------------
(* Properties.                                                             *)

\* A region as the tree itself gives it, by the rules of its own structure.
RegionOf(i) ==
  LET value(j, name) == dt[PropOf(j, name)].value
      number(k, cells) == IF cells = 1 THEN value(i, "reg")[k]
                          ELSE value(i, "reg")[k] * CellBase + value(i, "reg")[k + 1]
      cells(name) == value(Parent(i), name)[1]
  IN  [addr |-> pa2va(number(1, cells("#address-cells"))) - memory_base_addr,
       size |-> number(cells("#address-cells") + 1, cells("#size-cells"))]

\* The children of /reserved-memory.
ReservedNodes ==
  {i \in Nodes : Parent(i) \in
     {k \in Nodes : dt[k].name = <<"reserved-memory", "">> /\ Parent(k) = fdt_root_node}}

\* The device tree, the kernel and the ramdisk.
BootRegions ==
  {[addr |-> r.addr - memory_base_addr, size |-> r.size] :
     r \in {board.fdt, board.kernel,
            [addr |-> initrd_start_addr, size |-> initrd_end_addr - initrd_start_addr]}}

RegionsInUse == BootRegions \cup {RegionOf(i) : i \in ReservedNodes}

\* Every region in use is reserved as long as there is room for it,
RegionsReserved ==
  (stage = "populate" /\ populated = 0) =>
    \/ RegionsInUse \subseteq Range(reserved_memory)
    \/ Len(reserved_memory) = MaxReserved

InMemory(region) == region.addr >= 0 /\ region.addr + region.size <= End

Apart(r, s) == r.size = 0 \/ r.addr + r.size <= s.addr \/ s.addr + s.size <= r.addr

FrameRegion == [addr |-> _allocate_frame_array(reserved_memory), size |-> FrameArraySize]

BlockRegion(x) == [addr |-> x[2] * PageSize, size |-> PageSize * Pow2[x[1]]]

\* and no reserved region overlaps the frame array or a block.
ReservedApart ==
  \A r \in {x \in Range(reserved_memory) : InMemory(x)} :
    /\ stage \in {"populate", "refine", "devices", "ready"} => Apart(r, FrameRegion)
    /\ \A x \in Blocks : Apart(r, BlockRegion(x)) /\ Apart(FrameRegion, BlockRegion(x))

\* Memory in use before the allocator exists is never handed out: every region
\* in use, found in the tree by a reader of its own, is reserved as long as
\* there is room for it, and no block, free or owned, nor the frame array ever
\* overlaps one that begins at a page and lies inside the memory.
ReservedKept == RegionsReserved /\ ReservedApart
=============================================================================
