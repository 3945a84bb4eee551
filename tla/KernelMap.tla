----------------------------- MODULE KernelMap -----------------------------
(***************************************************************************)
(* The page tables of the kernel from the first instruction on             *)
(* (vmm/virtual_memory_setup.c, the walk and the device windows of         *)
(* vmm/virtual_memory.c) composed with MemorySetup: entry.S maps the       *)
(* memory in large pieces, kernel_setup builds the allocator, takes the    *)
(* identity mapping away, maps the memory anew in smaller pieces through   *)
(* tables from the allocator, and maps the devices.                        *)
(*                                                                         *)
(* Virtual and physical addresses are counted in pages.  A table is known  *)
(* by the block it lies in, kernel_pgd by RootTable.  A mapping to be made *)
(* is a job; a step is one turn of pagewalk, down a level or at the leaf.  *)
(***************************************************************************)
EXTENDS MemorySetup

CONSTANTS
  Entries,      \* PAGE_TABLE_ENTRIES_NUM of a table below the root
  RootEntries,  \* PAGE_TABLE_ENTRIES_NUM of the root
  KernelBase    \* KERNEL_VIRTUAL_BASE, in pages

ASSUME EntriesAssumption ==
  /\ Entries \in Nat \ {0, 1}
  /\ RootEntries \in Nat \ {0}
  /\ KernelBase \in Nat

\* The kernel's memory begins at an entry of the root, in its upper half.
ASSUME KernelBaseAssumption ==
  /\ RootEntries > 1
  /\ KernelBase % (Entries * Entries) = 0
  /\ KernelBase >= Entries * Entries * (RootEntries \div 2)

VARIABLES
  ram,          \* memory_base and memory_size: the pages of the memory
  tables,       \* the page tables, by block
  jobs,         \* the mappings still to be made
  at,           \* pagewalk: offset of the page in the job, level and table
  windows       \* what virtual_memory_map_mmio has mapped, in order

map_vars == <<ram, tables, jobs, at, windows>>
kernel_vars == <<boot_vars, map_vars>>

RootTable == -1
TableSize == PageSize

\* The pages an entry of a level stands for: pte, pmd and pgd_mem_size.
Span(level) ==
  CASE level = 0 -> 1 [] level = 1 -> Entries [] level = 2 -> Entries * Entries

PgdIndex(page) == (page \div Span(2)) % RootEntries
Index(page, level) ==
  IF level = 2 THEN PgdIndex(page) ELSE (page \div Span(level)) % Entries

None == [kind |-> "none"]
Leaf(page, prot) == [kind |-> "leaf", page |-> page, prot |-> prot]
ToTable(block) == [kind |-> "table", block |-> block]

Start == [offset |-> 0, level |-> 2, table |-> RootTable]

\* The kernel, in pages; KernelFirst is KERNEL_PHYSICAL_ADDR.
KernelPages  == board.kernel.size \div PageSize
KernelFirst  == (board.kernel.addr - VirtualBase) \div PageSize
KernelVFirst == board.kernel.addr \div PageSize

\* virtual_mmio_offset: behind the last piece of memory.
MmioBase == KernelBase + Span(2) * ((ram.pages + Span(2) - 1) \div Span(2))

KernelInit ==
  /\ SetupInit
  /\ tables = [t \in {RootTable} |-> [i \in 0..(RootEntries - 1) |-> None]]
  /\ ram = [first |-> 0, pages |-> 0]
  /\ jobs = << >>
  /\ at = Start
  /\ windows = << >>

-----------------------------------------------------------------------------
(* virtual_memory_setup, called by entry.S.                                *)

Pieces == {n \in 0..(ram.pages - 1) : n % Span(2) = 0}

\* A piece of 1 GiB at a time, where it is and where the kernel expects it: an
\* entry keeps the piece mapped last; then the devices of the platform (QEMU).
\* Without a memory node entry.S waits for ever.
virtual_memory_setup ==
  LET type == fdt_property_by_name(MemoryNode, "device_type")
      reg == fdt_reg_property(MemoryNode)
      last(base, i) == Max({-1} \cup {n \in Pieces' : PgdIndex(base + n) = i})
  IN  /\ stage = "entry"
      /\ IF type = 0 \/ Cell(type, 1) # "memory"
         THEN stage' = "halted" /\ UNCHANGED <<ram, tables>>
         ELSE /\ stage' = "initrd"
              /\ ram' = [first |-> reg.addr \div PageSize, pages |-> reg.size \div PageSize]
              /\ tables' = [t \in {RootTable} |-> [i \in 0..(RootEntries - 1) |->
                   IF i = PgdIndex(0) THEN Leaf(0, "mmio")
                   ELSE IF last(KernelBase, i) < last(ram'.first, i)
                   THEN Leaf(ram'.first + last(ram'.first, i), "identity")
                   ELSE IF last(KernelBase, i) # -1
                   THEN Leaf(ram'.first + last(KernelBase, i), "kernel")
                   ELSE None]]
      /\ UNCHANGED <<vars, board_vars, ramdisk, memory_base_addr, node, jobs, at, windows>>

-----------------------------------------------------------------------------
(* pagewalk.                                                               *)

\* What is left to do for a mapping: nothing when it has no pages.
Job(vpage, page, pages, prot, leaf) ==
  IF pages <= 0 THEN << >>
  ELSE <<[vpage |-> vpage, page |-> page, pages |-> pages, prot |-> prot, leaf |-> leaf]>>

VPage == jobs[1].vpage + at.offset
Entry == tables[at.table][Index(VPage, at.level)]

SetEntry(entry) == [tables EXCEPT ![at.table][Index(VPage, at.level)] = entry]

\* An entry that leads to a table is followed.
FollowEntry ==
  /\ jobs # << >>
  /\ at.level > jobs[1].leaf
  /\ Entry.kind = "table"
  /\ at' = [at EXCEPT !.level = @ - 1, !.table = Entry.block]
  /\ UNCHANGED <<boot_vars, ram, tables, jobs, windows>>

NewTable == CHOOSE b \in DOMAIN held' : b \notin DOMAIN held

\* Faulty variant: whether an entry is valid is not looked at, and each mapping
\* gets tables of its own.
AllocateTableAlways ==
  /\ jobs # << >>
  /\ at.level > jobs[1].leaf
  /\ memory_allocate_pages(TableSize)
  /\ tables' = [t \in DOMAIN tables \cup {NewTable} |->
       IF t = NewTable THEN [i \in 0..(Entries - 1) |-> None]
       ELSE SetEntry(ToTable(NewTable))[t]]
  /\ at' = [at EXCEPT !.level = @ - 1, !.table = NewTable]
  /\ UNCHANGED <<setup_vars, ram, jobs, windows>>

\* Any other one, a leaf as well, gets a new table without entries.
AllocateTable ==
  /\ jobs # << >>
  /\ at.level > jobs[1].leaf
  /\ Entry.kind # "table"
  /\ memory_allocate_pages(TableSize)
  /\ tables' = [t \in DOMAIN tables \cup {NewTable} |->
       IF t = NewTable THEN [i \in 0..(Entries - 1) |-> None]
       ELSE SetEntry(ToTable(NewTable))[t]]
  /\ at' = [at EXCEPT !.level = @ - 1, !.table = NewTable]
  /\ UNCHANGED <<setup_vars, ram, jobs, windows>>

\* The leaf is set, and the walk begins anew for the next one.
SetLeaf ==
  LET next == at.offset + Span(at.level)
  IN  /\ jobs # << >>
      /\ at.level = jobs[1].leaf
      /\ tables' = SetEntry(Leaf(jobs[1].page + at.offset, jobs[1].prot))
      /\ IF next < jobs[1].pages
         THEN at' = [Start EXCEPT !.offset = next] /\ UNCHANGED jobs
         ELSE at' = Start /\ jobs' = Tail(jobs)
      /\ UNCHANGED <<boot_vars, ram, windows>>

-----------------------------------------------------------------------------
(* The rest of kernel_setup.                                               *)

virtual_memory_drop_identity_mapping ==
  /\ stage = "populate"
  /\ populated = PageCount
  /\ stage' = "refine"
  /\ tables' = [tables EXCEPT ![RootTable] =
       [i \in DOMAIN @ |-> IF i < RootEntries \div 2 THEN None ELSE @[i]]]
  /\ UNCHANGED <<vars, board_vars, ramdisk, memory_base_addr, node, ram, jobs, at, windows>>

\* Faulty variant: what lies behind the kernel is mapped from its start on.
RefineJobsOver ==
  Job(KernelVFirst, KernelFirst, KernelPages, "kernel", 1)
  \o Job(KernelBase, ram.first, KernelFirst - ram.first, "ram", 1)
  \o Job(KernelBase + KernelFirst - ram.first, KernelFirst,
         ram.first + ram.pages - KernelFirst, "ram", 1)

\* The kernel, the memory before it and the memory behind it.
RefineJobs ==
  Job(KernelVFirst, KernelFirst, KernelPages, "kernel", 1)
  \o Job(KernelBase, ram.first, KernelFirst - ram.first, "ram", 1)
  \o Job(KernelBase + KernelFirst + KernelPages - ram.first, KernelFirst + KernelPages,
         ram.first + ram.pages - KernelFirst - KernelPages, "ram", 1)

virtual_memory_refine_mappings ==
  /\ stage = "refine"
  /\ stage' = "devices"
  /\ jobs' = RefineJobs
  /\ UNCHANGED <<vars, board_vars, ramdisk, memory_base_addr, node, ram, tables, at, windows>>

\* virtual_mmio_offset + next_vaddr: behind the last window.
NextWindow ==
  IF windows = << >> THEN MmioBase
  ELSE windows[Len(windows)].vpage + windows[Len(windows)].pages

\* One page after the other from there on.
virtual_memory_map_mmio(node_addr) ==
  LET reg == fdt_reg_property(node_addr)
      window == [vpage |-> NextWindow, first |-> reg.addr \div PageSize,
                 pages |-> (reg.size + PageSize - 1) \div PageSize]
  IN  /\ windows' = Append(windows, window)
      /\ jobs' = Job(window.vpage, window.first, window.pages, "mmio", 0)

serial_node == fdt_node_addr_by_path(<< <<"soc", "">>, <<"serial", "">> >>)
video_node == fdt_node_addr_by_compatible("qemu,fw-cfg-mmio")
plic_node == fdt_node_addr_by_compatible("riscv,plic0")

\* uart_sync_setup, video_setup, plic_setup and uart_setup: the serial line is
\* mapped twice.  A device that is not there gets no page.  The frame buffer of
\* video_setup, one more request for pages, is left out.
DeviceNodes == <<serial_node, video_node, plic_node, serial_node>>

SetUpDevice ==
  /\ stage = "devices"
  /\ jobs = << >>
  /\ Len(windows) < Len(DeviceNodes)
  /\ fdt_get_node_cells(DeviceNodes[Len(windows) + 1])
  /\ virtual_memory_map_mmio(DeviceNodes[Len(windows) + 1])
  /\ UNCHANGED <<boot_vars, ram, tables, at>>

\* kernel_setup is done, and from here on pages are asked for and released.
Boot ==
  /\ stage = "devices"
  /\ jobs = << >>
  /\ Len(windows) = Len(DeviceNodes)
  /\ stage' = "ready"
  /\ UNCHANGED <<vars, board_vars, ramdisk, memory_base_addr, node, map_vars>>

\* entry.S waits for ever, or virtual_memory_refine_mappings takes address 0
\* for a table: the error memory_setup reports stops nobody.
Stopped ==
  /\ stage \in {"halted", "failed"}
  /\ UNCHANGED kernel_vars

Setup ==
  /\ \/ FindRamdisk \/ FindMemory \/ ReserveNode \/ memory_init
     \/ stage = "populate" /\ Populate /\ UNCHANGED setup_vars
  /\ UNCHANGED map_vars

Run ==
  /\ stage = "ready"
  /\ \/ \E size \in Sizes : memory_allocate_pages(size) \/ AllocateFails(size)
     \/ \E block \in Pages \ DOMAIN tables : Release(block)
  /\ UNCHANGED <<setup_vars, map_vars>>

KernelNext ==
  \/ virtual_memory_setup
  \/ Setup
  \/ virtual_memory_drop_identity_mapping
  \/ virtual_memory_refine_mappings
  \/ FollowEntry
  \/ AllocateTable
  \/ SetLeaf
  \/ SetUpDevice
  \/ Boot
  \/ Run
  \/ Stopped

KernelSpec == KernelInit /\ [][KernelNext]_kernel_vars

-----------------------------------------------------------------------------
(* Properties.                                                             *)

\* The device tree is read right, and so is the ramdisk.  Nothing changes
\* either of them, so that it is enough to look once.
TreeRead == stage = "entry" => NavigationCorrect /\ LookupsCorrect
RamdiskRead == stage = "memory" => FilesFound

\* What the hardware finds at a virtual page.
Translate(vpage) ==
  LET entry2 == tables[RootTable][Index(vpage, 2)]
      entry1 == tables[entry2.block][Index(vpage, 1)]
      entry0 == tables[entry1.block][Index(vpage, 0)]
      found(entry, level) ==
        IF entry.kind = "leaf" /\ entry.page % Span(level) = 0
        THEN Leaf(entry.page + (vpage % Span(level)), entry.prot) ELSE None
  IN  IF entry2.kind # "table" THEN found(entry2, 2)
      ELSE IF entry1.kind # "table" THEN found(entry1, 1)
      ELSE found(entry0, 0)

InKernel(n) == ram.first + n \in KernelFirst..(KernelFirst + KernelPages - 1)

\* Through the large pieces until the tables are refined,
MappedAtBoot ==
  stage \in {"initrd", "memory", "reserve", "populate", "refine"} =>
    \A n \in 0..(ram.pages - 1) :
      Translate(KernelBase + n) = Leaf(ram.first + n, "kernel")

\* from then on page by page.
MappedByPages ==
  (stage \in {"devices", "ready"} /\ jobs = << >>) =>
    /\ \A n \in 0..(ram.pages - 1) :
         Translate(KernelBase + n) =
           Leaf(ram.first + n, IF InKernel(n) THEN "kernel" ELSE "ram")
    /\ \A vpage \in 0..(Span(2) * (RootEntries \div 2) - 1) : Translate(vpage) = None
    /\ \A i \in DOMAIN windows : \A n \in 0..(windows[i].pages - 1) :
         Translate(windows[i].vpage + n) = Leaf(windows[i].first + n, "mmio")

\* The kernel finds its memory where it expects it: through the large pieces
\* until the tables are refined, and from then on page by page, executable
\* where the kernel is and nowhere else, with nothing of the boot's identity
\* mapping left in the half that processes get; and every device has a window
\* of its own.
KernelMapped == MappedAtBoot /\ MappedByPages

\* The entries that lead to a table.
Leading(b) ==
  UNION {{t} \X {i \in DOMAIN tables[t] : tables[t][i] = ToTable(b)} : t \in DOMAIN tables}

\* A page that serves as a table is in the hands of no one else, and it stands
\* in one entry of one table: no walk loses a table that another one has filled.
TablesOwned ==
  \A b \in DOMAIN tables \ {RootTable} : b \in DOMAIN held /\ Cardinality(Leading(b)) = 1
=============================================================================
