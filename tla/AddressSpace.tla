---------------------------- MODULE AddressSpace ----------------------------
(***************************************************************************)
(* The memory of user processes: the mappings of task/task_mapping.c, the  *)
(* page tables of vmm/virtual_memory.c, and the operations of task/task.c, *)
(* of the mmap system call and of the page fault handler on them.          *)
(*                                                                         *)
(* Addresses and sizes are in pages.  Of the three levels of a page table  *)
(* the model has two, a root (pgd) and tables of leaf entries; the middle  *)
(* level repeats what happens between these.  Only the lower half of the   *)
(* root is modelled: the other half belongs to the kernel and is copied    *)
(* once.  A request never ends up in the gap between the halves.  An       *)
(* operation is one step: system calls and page faults run in a session or *)
(* with interrupts off, and command_exec and the idle thread work on a     *)
(* task that no other code reaches.                                        *)
(***************************************************************************)
EXTENDS Queues, Integers, FiniteSets

CONSTANTS
  Tasks,         \* tasks that may exist at a time
  FrameCount,    \* pages of memory; the code assumes there are enough
  Entries,       \* entries of a table (PAGE_TABLE_ENTRIES_NUM)
  Roots,         \* entries of the lower half of a root
  Trampoline,    \* SIGNAL_TRAMPOLINE_VADDR, one page of kernel code
  Code, CodeSize,        \* USER_CODE_VADDR, size of the program
  Stack, StackSize,      \* USER_STACK_VADDR, USER_STACK_SIZE
  SignalStack, SignalStackSize,
  KernelBase,    \* KERNEL_VIRTUAL_BASE
  MaxMappings,   \* bound on the mappings of a task
  Requests,      \* what processes ask mmap for
  Touched        \* the pages processes access

VARIABLES
  space,     \* of each task its root, tables, leaf entries and mappings
  free,      \* pages the page allocator has
  content,   \* what each page of memory holds
  dead,      \* killed tasks the idle thread has not freed yet
  wild       \* a page walk has followed an entry nobody wrote

vars == <<space, free, content, dead, wild>>

Frames == 1..FrameCount
Kernel == -1                  \* the page _signal_trampoline is in
Pages  == 0..(Roots * Entries - 1)
Access == {"r", "w", "x"}
Absent == [frame |-> 0, prot |-> {}]

ASSUME SizeAssumption ==
  /\ IsFiniteSet(Tasks)
  /\ FrameCount \in Nat
  /\ {Entries, Roots, CodeSize, StackSize, SignalStackSize} \subseteq Nat \ {0}
  /\ {Code, Stack, SignalStack} \subseteq Nat
  /\ Requests \subseteq [vaddr : Nat, size : Nat, prot : SUBSET Access,
                          populate : BOOLEAN]

\* No page but page 0 lies below the trampoline, which mmap never gives out.
ASSUME TrampolineAssumption == Trampoline \in 0..1

ASSUME LayoutAssumption ==
  /\ Trampoline + 1 <= Code
  /\ Code + CodeSize <= Stack
  /\ Stack + StackSize <= SignalStack
  /\ SignalStack + SignalStackSize <= Roots * Entries
  /\ KernelBase = Roots * Entries
  /\ Touched \subseteq Pages

\* The last page of a program is filled up with zeros where it is loaded.
Contents == {"zero", "file", "file then zero", "data", "table"}
Mappings == [vaddr : Pages, size : Pages, prot : SUBSET Access,
             backer : {"anon", "file"}, whole : BOOLEAN]
Spaces   == [pgd    : Frames \cup {0},
             tables : [0..(Roots - 1) -> Frames \cup {0}],
             leaf   : [Pages -> [frame : Frames \cup {0, Kernel},
                                 prot : SUBSET Access]],
             mappings : Seq(Mappings)]

TypeOK ==
  /\ space \in [Tasks -> Spaces]
  /\ free \subseteq Frames
  /\ content \in [Frames -> Contents]
  /\ dead \subseteq Tasks
  /\ wild \in BOOLEAN

NoSpace == [pgd |-> 0, tables |-> [i \in 0..(Roots - 1) |-> 0],
            leaf |-> [v \in Pages |-> Absent], mappings |-> << >>]

Init ==
  /\ space = [t \in Tasks |-> NoSpace]
  /\ free = Frames
  /\ content = [f \in Frames |-> "zero"]
  /\ dead = {}
  /\ wild = FALSE

-----------------------------------------------------------------------------
(* Operations work on a memory: the space of a task with the pages that    *)
(* are free and the contents of all.                                       *)

Memory(s) == [s |-> s, free |-> free, content |-> content]

\* The page the page allocator gives out.
Some(pages) == CHOOSE f \in pages : \A g \in pages : f <= g

Take(m, what) ==
  LET f == Some(m.free)
  IN  [m EXCEPT !.free = @ \ {f}, !.content[f] = what]

\* virtual_memory_map of one page: pagewalk.
Map(m, v, frame, prot) ==
  LET i == v \div Entries
      walked == IF m.s.tables[i] # 0 THEN m
                ELSE [Take(m, "table") EXCEPT !.s.tables[i] = Some(m.free)]
  IN  [walked EXCEPT !.s.leaf[v] = [frame |-> frame, prot |-> prot]]

MappingEnd(mapping) == mapping.vaddr + mapping.size

\* The first place from an address on that no mapping is in the way of; -1
\* when this leads into the kernel.
PlaceFrom(mappings, first, size) ==
  LET F[i \in 0..Len(mappings)] ==
        IF i = 0 THEN [at |-> first, stop |-> FALSE]
        ELSE IF F[i-1].stop \/ MappingEnd(mappings[i]) <= F[i-1].at THEN F[i-1]
        ELSE IF mappings[i].vaddr >= F[i-1].at + size
             THEN [F[i-1] EXCEPT !.stop = TRUE]
        ELSE [F[i-1] EXCEPT !.at = MappingEnd(mappings[i])]
      result == F[Len(mappings)].at
  IN  IF size > KernelBase \/ result > KernelBase - size THEN -1 ELSE result

\* Faulty variant: the trampoline is in no mapping, and not looked at.
_get_mapping_vaddr_low(mappings, vaddr, size) ==
  PlaceFrom(mappings, IF vaddr = 0 THEN Code ELSE vaddr, size)

\* Past the trampoline, then past the mappings.
_get_mapping_vaddr(mappings, vaddr, size) ==
  LET asked == IF vaddr = 0 THEN Code ELSE vaddr
      first == IF asked < Trampoline + 1 /\ asked + size > Trampoline
               THEN Trampoline + 1 ELSE asked
  IN  PlaceFrom(mappings, first, size)

_insert_mapping(mappings, mapping) ==
  LET later == {i \in DOMAIN mappings : mappings[i].vaddr > mapping.vaddr}
      i == IF later = {} THEN Len(mappings) + 1
           ELSE CHOOSE k \in later : \A j \in later : k <= j
  IN  SubSeq(mappings, 1, i - 1) \o <<mapping>>
        \o SubSeq(mappings, i, Len(mappings))

\* What a page of a mapping holds when it is installed.
Fresh(mapping, v) ==
  IF mapping.backer = "anon" THEN "zero"
  ELSE IF v = MappingEnd(mapping) - 1 /\ ~ mapping.whole
       THEN "file then zero" ELSE "file"

\* Faulty variant: every page may be written.
task_install_page_any(m, mapping, v) ==
  Map(Take(m, Fresh(mapping, v)), v, Some(m.free), mapping.prot \cup {"w"})

task_install_page(m, mapping, v) ==
  Map(Take(m, Fresh(mapping, v)), v, Some(m.free), mapping.prot)

InstallAll(m, mapping) ==
  LET F[n \in 0..mapping.size] ==
        IF n = 0 THEN m
        ELSE task_install_page(F[n-1], mapping, mapping.vaddr + n - 1)
  IN  F[mapping.size]

\* task_add_mapping; whole tells that the size is a number of whole pages.
task_add_mapping(m, vaddr, size, prot, backer, whole, populate) ==
  LET v == _get_mapping_vaddr(m.s.mappings, vaddr, size)
      mapping == [vaddr |-> v, size |-> size, prot |-> prot,
                  backer |-> backer, whole |-> whole]
      added == [m EXCEPT !.s.mappings = _insert_mapping(@, mapping)]
  IN  IF v = -1 THEN m
      ELSE IF populate THEN InstallAll(added, mapping) ELSE added

task_create_user_mappings(m) ==
  LET code   == task_add_mapping(m, Code, CodeSize, {"r", "x"}, "file",
                                 FALSE, FALSE)
      stack  == task_add_mapping(code, Stack, StackSize, {"r", "w"}, "anon",
                                 TRUE, FALSE)
      signal == task_add_mapping(stack, SignalStack, SignalStackSize,
                                 {"r", "w"}, "anon", TRUE, FALSE)
  IN  Map(signal, Trampoline, Kernel, {"r", "x"})

\* The pages virtual_memory_traverse_leafs visits for a mapping.
Leaves(s, mapping) ==
  {v \in mapping.vaddr..(MappingEnd(mapping) - 1) : s.leaf[v] # Absent}

\* task_free_mappings: the entries of the tables stay as they are, and so
\* does what the pages hold ("data", of whatever kind).
task_free_mappings(m) ==
  LET freed == {m.s.leaf[v].frame :
        v \in UNION {Leaves(m.s, mapping) : mapping \in Range(m.s.mappings)}}
  IN  [m EXCEPT !.free = @ \cup freed,
                !.content = [f \in Frames |->
                  IF f \in freed /\ @[f] # "zero" THEN "data" ELSE @[f]]]

virtual_memory_free_tables(m) ==
  [m EXCEPT !.free = @ \cup (Range(m.s.tables) \ {0}),
            !.content = [f \in Frames |-> IF f \in Range(m.s.tables) THEN "zero"
                                          ELSE @[f]],
            !.s.tables = NoSpace.tables,
            !.s.leaf = NoSpace.leaf]

\* Faulty variant: the pages of the old program are forgotten.
task_exec_user_leak(m) ==
  task_create_user_mappings(
    virtual_memory_free_tables([m EXCEPT !.s.mappings = << >>]))

\* task_exec_user on a task that has a root: the program is loaded anew.
task_exec_user(m) ==
  LET cleared == [task_free_mappings(m) EXCEPT !.s.mappings = << >>]
  IN  task_create_user_mappings(virtual_memory_free_tables(cleared))

\* Faulty variant: the page is shared.
CopyPageShared(m, source, v, prot) ==
  Map(m, v, source.leaf[v].frame, prot)

\* Faulty variant: the page is not copied.
CopyPageFresh(m, source, v, prot) ==
  Map(Take(m, "zero"), v, Some(m.free), prot)

\* _copy_one_page.
CopyPage(m, source, v, prot) ==
  Map(Take(m, m.content[source.leaf[v].frame]), v, Some(m.free), prot)

CopyPages(m, source, mapping) ==
  LET F[n \in 0..mapping.size] ==
        LET v == mapping.vaddr + n - 1
        IN  IF n = 0 THEN m
            ELSE IF source.leaf[v] = Absent THEN F[n-1]
            ELSE CopyPage(F[n-1], source, v, mapping.prot)
  IN  F[mapping.size]

\* The size of a copy is that of the mapping, a number of whole pages, also
\* where the file ends inside its last page.  Copying stops at a mapping that
\* cannot be put where it was.
task_copy_mappings(m, source) ==
  LET Add(n, mapping) == task_add_mapping(n, mapping.vaddr, mapping.size,
                           mapping.prot, mapping.backer, TRUE, FALSE)
      Moved(n, mapping) ==
        _get_mapping_vaddr(n.s.mappings, mapping.vaddr, mapping.size)
          # mapping.vaddr
      F[i \in 0..Len(source.mappings)] ==
        IF i = 0 THEN [m |-> m, stop |-> FALSE]
        ELSE LET mapping == source.mappings[i]
                 n == F[i-1].m
             IN  IF F[i-1].stop THEN F[i-1]
                 ELSE IF Moved(n, mapping) THEN [m |-> Add(n, mapping), stop |-> TRUE]
                 ELSE [m |-> CopyPages(Add(n, mapping), source, mapping),
                       stop |-> FALSE]
      copy == F[Len(source.mappings)]
  IN  IF copy.stop THEN copy.m
      ELSE Map(copy.m, Trampoline, Kernel, {"r", "x"})

\* task_copy: a root with nothing in its lower half, then the mappings.
task_copy(m, source) ==
  task_copy_mappings(
    [Take(m, "table") EXCEPT !.s.pgd = Some(m.free)], source)

task_free(m) ==
  LET cleared == virtual_memory_free_tables(task_free_mappings(m))
  IN  [cleared EXCEPT !.free = @ \cup {m.s.pgd}, !.content[m.s.pgd] = "zero",
                      !.s = NoSpace]

\* task_find_mapping, or the empty sequence: the search ends at the first
\* mapping beyond the page.
task_find_mapping(mappings, v) ==
  LET ends == {i \in DOMAIN mappings : v < MappingEnd(mappings[i])}
      i == CHOOSE k \in ends : \A j \in ends : k <= j
  IN  IF ends = {} \/ v < mappings[i].vaddr THEN << >> ELSE <<mappings[i]>>

-----------------------------------------------------------------------------
(* Actions.                                                                *)

Unused(t) == space[t] = NoSpace
Running(t) == ~ Unused(t) /\ t \notin dead /\ ~ wild

\* What each page of memory is used for.
Uses ==
  {<<t, "pgd", 0>> : t \in {u \in Tasks : ~ Unused(u)}} \cup
  {x \in Tasks \X {"table"} \X (0..(Roots - 1)) :
     space[x[1]].tables[x[3]] # 0} \cup
  {x \in Tasks \X {"leaf"} \X (Pages \ {Trampoline}) :
     space[x[1]].leaf[x[3]] # Absent}

\* There are n free pages.
Room(n) == Cardinality(free) >= n

Apply(t, m) ==
  /\ space' = [space EXCEPT ![t] = m.s]
  /\ free' = m.free
  /\ content' = m.content
  /\ UNCHANGED <<dead, wild>>

\* command_exec: the root of a new task is allocated and not cleared.  If
\* its page has held the memory of a process, what is left of that may be
\* there when the trampoline is mapped.
command_exec(t) ==
  /\ Unused(t)
  /\ ~ wild
  /\ Room(2)
  /\ \/ Apply(t, task_create_user_mappings(
             [Take(Memory(NoSpace), "table") EXCEPT !.s.pgd = Some(free)]))
     \/ /\ content[Some(free)] # "zero"
        /\ wild' = TRUE
        /\ UNCHANGED <<space, free, content, dead>>

\* Nothing changes when the ramdisk has no such program.
_syscall_exec(t) ==
  /\ Running(t)
  /\ \/ Apply(t, task_exec_user(Memory(space[t])))
     \/ UNCHANGED vars

_syscall_fork(t, child) ==
  /\ Running(t)
  /\ Unused(child)
  /\ Room(Cardinality({x \in Uses : x[1] = t}))
  /\ Apply(child, task_copy(Memory(NoSpace), space[t]))

get_mapping_prot(user_prot) ==
  IF "w" \in user_prot THEN user_prot \cup {"r"} ELSE user_prot

\* mmap of memory that no file is behind.
_syscall_mmap(t, request) ==
  /\ Running(t)
  /\ \/ /\ request.size # 0
        /\ request.prot # {}
        /\ Len(space[t].mappings) < MaxMappings
        /\ request.populate => Room(request.size + Roots)
        /\ Apply(t, task_add_mapping(Memory(space[t]), request.vaddr,
                      request.size, get_mapping_prot(request.prot), "anon",
                      TRUE, request.populate))
     \/ /\ request.size = 0 \/ request.prot = {}
        /\ UNCHANGED vars

Kill(t) ==
  /\ dead' = dead \cup {t}
  /\ UNCHANGED <<space, free, content, wild>>

Permitted(mapping, access) ==
  mapping # << >> /\ access \in mapping[1].prot

\* The process accesses a page.  A page that is not there, or that may not be
\* accessed in this way, is a fault.
AccessPage(t, v, access) ==
  LET mapping == task_find_mapping(space[t].mappings, v)
  IN  /\ Running(t)
      /\ \/ /\ access \in space[t].leaf[v].prot
            /\ access = "w"
            /\ content' = [content EXCEPT ![space[t].leaf[v].frame] = "data"]
            /\ UNCHANGED <<space, free, dead, wild>>
         \/ /\ access \notin space[t].leaf[v].prot
            /\ ~ Permitted(mapping, access)
            /\ Kill(t)
         \/ /\ access \notin space[t].leaf[v].prot
            /\ Permitted(mapping, access)
            /\ Room(2)
            /\ Apply(t, task_install_page(Memory(space[t]), mapping[1], v))

\* exit, stop, kill.
Exit(t) ==
  /\ Running(t)
  /\ Kill(t)

\* The idle thread frees a killed task.
Reap(t) ==
  /\ t \in dead
  /\ ~ wild
  /\ LET m == task_free(Memory(space[t]))
     IN  /\ space' = [space EXCEPT ![t] = NoSpace]
         /\ free' = m.free
         /\ content' = m.content
  /\ dead' = dead \ {t}
  /\ UNCHANGED wild

Next ==
  \E t \in Tasks :
    \/ command_exec(t)
    \/ _syscall_exec(t)
    \/ \E child \in Tasks : _syscall_fork(t, child)
    \/ \E request \in Requests : _syscall_mmap(t, request)
    \/ \E v \in Touched, access \in Access : AccessPage(t, v, access)
    \/ Exit(t)
    \/ Reap(t)

Spec == Init /\ [][Next]_vars

-----------------------------------------------------------------------------
(* Properties.                                                             *)

\* The mappings of a task are sorted and apart from each other and from the
\* trampoline, whatever addresses and sizes mmap was asked for:
\* _get_mapping_vaddr and task_find_mapping rely on it, and so does
\* task_free_mappings, which would free the page of the trampoline.
MappingsApart ==
  \A t \in Tasks : LET mappings == space[t].mappings IN
    /\ \A i, j \in DOMAIN mappings :
         i < j => MappingEnd(mappings[i]) <= mappings[j].vaddr
    /\ \A i \in DOMAIN mappings : Trampoline < mappings[i].vaddr

\* A process reaches nothing but what was mapped: every leaf entry is the
\* trampoline's or lies in a mapping and has its permissions.
LeavesMapped ==
  \A t \in Tasks, v \in Pages : space[t].leaf[v] # Absent =>
    IF v = Trampoline
    THEN space[t].leaf[v] = [frame |-> Kernel, prot |-> {"r", "x"}]
    ELSE LET mapping == task_find_mapping(space[t].mappings, v)
         IN  mapping # << >> /\ space[t].leaf[v].prot = mapping[1].prot

FrameOf(use) ==
  CASE use[2] = "pgd" -> space[use[1]].pgd
    [] use[2] = "table" -> space[use[1]].tables[use[3]]
    [] use[2] = "leaf" -> space[use[1]].leaf[use[3]].frame

\* No page of memory is lost, freed while in use or used twice, over any
\* sequence of exec, fork, mmap, faults and the end of processes.
PagesOwned ==
  LET used == {FrameOf(x) : x \in Uses}
  IN  /\ TypeOK
      /\ Cardinality(used) = Cardinality(Uses)
      /\ used = Frames \ free

\* What a process sees at a page, whether it is installed already or not.
View(t, v) ==
  LET mapping == task_find_mapping(space[t].mappings, v)
  IN  IF mapping = << >> THEN "nothing"
      ELSE IF space[t].leaf[v] = Absent THEN Fresh(mapping[1], v)
      ELSE content[space[t].leaf[v].frame]

\* The memory of a process: its mappings and what the installed pages hold.
Held(t) ==
  <<space[t].mappings,
    [v \in {w \in Pages \ {Trampoline} : space[t].leaf[w] # Absent} |->
       content[space[t].leaf[v].frame]]>>

\* Processes do not share memory: a step changes that of one of them at most,
\* and to install a page does not change what is seen there.
Isolated ==
  [][/\ \A t, u \in Tasks : Held(t)' # Held(t) /\ Held(u)' # Held(u) => t = u
     /\ \A t \in Tasks, v \in Pages :
          (space[t].leaf[v] = Absent /\ space'[t].leaf[v] # Absent /\
           space'[t].mappings = space[t].mappings)
             => View(t, v)' = View(t, v)]_vars

\* After a fork the child sees what its parent sees, installed or not, but for
\* the rest of the last page of the program: there it sees what follows the
\* program in the ramdisk when it is the first to touch the page.
ForkCopies ==
  [][\A t, child \in Tasks :
       Unused(child) /\ ~ Unused(child)' /\ _syscall_fork(t, child) =>
       \A v \in Pages :
         \/ View(child, v)' = View(t, v)
         \/ View(t, v) = "file then zero" /\ View(child, v)' = "file"]_vars

=============================================================================
