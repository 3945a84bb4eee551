# TLA+ specifications of first_os

first_os is a small RISC-V kernel for one hart: a preemptive scheduler with
kernel threads and user processes, an interrupt handler that runs its work as
prioritised tasks with interrupts on, software timeouts behind one hardware
timer, an interrupt driven serial driver, a buddy allocator with a dynamic
allocator on top, virtual memory with lazily filled mappings, signals, and a
boot path (device tree, initial ramdisk, video). This directory models the
parts where orders of events matter and the path from the first instruction to
the running allocator, checks them with TLC on small instances, and proves with
TLAPS, for all instances, what matters most about the scheduler, the interrupt
handler with its timeouts, the serial driver, signals, the memory of processes,
both allocators, the linked lists, and what the boot makes of the memory. Paths
below are relative to `src/src/`.

## 1. The system

| Part | State | Operations | Uses |
|---|---|---|---|
| Scheduler, `kernel/task/cpu_scheduler.c` | `ready_queue`, `waiting_queue`, `killed_queue`, `timeout_id`, the `tp` register, each task's `state` and `wait_event` | add, kill, wait, fire, next, idle loop | linked lists, timeouts, task table, `switch_to_kernel.S` |
| Task table, `task_table.c` | pid to task | add, get, remove | |
| Tasks, `task.c` | stacks, trapframe, page table, `next_pid` | create, copy, exec, free | allocators, vm |
| System calls, `interrupts/syscalls.c` | none of its own | 15 calls | scheduler, uart, timeouts, mappings, signals |
| Command line, `kmain.c` | its line buffer | read a line, run a command | uart, scheduler |
| Interrupt handler, `interrupts/interrupt_handler.c` | `is_handling_interrupt`, `need_reschedule` | trap, session, page faults | interrupt tasks, scheduler |
| Interrupt tasks, `interrupt_tasks.c` | ring of slots, sorted queue | add, execute | linked lists |
| Timeouts, `timeouts.c` | sorted queue, the timer | set, clear, interrupt handler, postpone | SBI timer |
| PLIC, `plic.c` | claim | claim, complete | |
| UART, `uart/uart.c` | two rings, interrupt enable bits | put, get, debug output, interrupt handler | scheduler |
| Page allocator, `kernel/mm/page_allocator.c` | frame array, free lists, reservations | reserve, init, allocate, free | linked lists |
| Dynamic allocator, `kernel/mm/dynamic_allocator.c` | chunk pools | allocate, free | page allocator |
| Virtual memory, `kernel/vmm`, `task_mapping.c` | page tables, list of mappings | map, fault, copy, free | page allocator |
| Kernel tables, `kernel/vmm/virtual_memory_setup.c` | `kernel_pgd`, `virtual_mmio_offset` | map in large pieces, drop the identity mapping, refine, map devices | device tree, page allocator |
| Device tree, `fdt/fdt_parser.c` | the blob, read-only | children, siblings, parents, properties, lookup by path and by device | |
| Memory setup, `kernel/mm/setup.c` | reservations | find the memory, reserve, init | device tree, ramdisk, page allocator |
| Initial ramdisk, `kernel/initrd` | start and end of the archive | find, walk, look up | device tree |
| Signals, `task_signal.c` | handlers, pending signals, saved trapframe | register, send, deliver, return | interrupt handler |
| Linked list, `kernel/ds/linked_list.c` | head, tail, next, prev | insert, insert before, remove | |
| I/O: SBI, video, bootloader, converters | registers | print, draw | |

**How they interact.** A trap queues a task and, unless a trap is already being
handled, opens a *session*: interrupts are enabled, the queued tasks are
executed in the order of their priorities (system calls and devices before the
timer), interrupts are disabled, and if something asked for it the scheduler
picks another task. System calls therefore run as interrupt tasks. A task
waits by putting itself into `waiting_queue` and calling the scheduler; it is
woken by whoever fires its event: the timer task, the UART task, or a kill.
Killed tasks are freed by the idle thread.

**What is hard here.** Everything runs on one hart, so concurrency is
interruption: each place with interrupts on is a place where a session, and at
its end another task, comes in. The regions protected by `interrupts_disable`
are short, and several operations have two of them with a window between
(`cpu_scheduler_wait_arg`, the idle loop, the choice of the next task and the
switch, `uart_get`, the end of a session). Queue membership is not stored, it
is inferred from `state`; `linked_list_remove` of a node that is in no list
empties the list. Interrupt task slots and metadata of pages are reused without
being cleared. A signal may come at any moment of a process's life and its
frame lies in memory that fork copies and exec replaces. The boot reads data
laid out by others (a device tree with NOPs, cells of two widths and subtrees
between siblings, an archive with padding), and changes the page table it runs
on. `PROJECT.json` lists these hazards line by line with the
properties that watch them.

**What makes each part correct.** Scheduler: no task is lost or scheduled twice,
what has been killed or waits does not execute, freed tasks are unreachable,
nobody starves, killed tasks are freed. Interrupts: no interrupt task is
overwritten, every timeout has a timer that will fire in time and in order, a
claimed interrupt is completed once. UART: bytes come out once and in order,
output does not stop half way, writers wait only for room. Allocators: blocks
partition the memory, reserved memory is not handed out, merging is complete in
a memory of up to 4 GiB, pieces never overlap. Virtual memory: mappings do not
overlap, page tables hold what the mappings say, every page has one owner, a
fork copies. Lists: the pointers always represent the sequence the callers think
of. Signals: none is lost or handled twice, every handler returns to the code it
interrupted (and to its stack, unless that code is a handler too, see section
6), a process stays itself. Boot: what the tree and the archive say is what the
kernel finds, everything in use is reserved, and memory and devices are mapped
where the kernel expects them.

## 2. Modules

| Module | What it models |
|---|---|
| `Queues` | lists as sequences: `linked_list_insert`, `linked_list_insert_before`, `linked_list_remove`, `Keep` (the elements left by a walk with a condition), `insert_again` and `cut_behind` (insertion of a node that is linked already) |
| `CpuScheduler` | the scheduler with its callers: idle thread, command line, system calls, page faults, interrupt tasks |
| `TaskLifecycle` | abstract specification: the stages of each task's life |
| `Interrupts` | traps, interrupt tasks, sessions, timeouts, the timer, the PLIC claim |
| `Uart` | rings, interrupt handler, writers, debug output |
| `PageAllocator` | boot reservations, the frame array, splitting and merging |
| `DynamicAllocator` | chunk pools over `PageAllocator`, which it extends, with pages taken directly in between |
| `Heap` | abstract specification: pieces of memory that never overlap |
| `Signals` | signals over `CpuScheduler`, which it extends: registration, kill, delivery, sigreturn, fork, exec |
| `DeviceTree` | reading the device tree, as operators on a sequence of tokens |
| `Ramdisk` | finding and walking the archive, over `DeviceTree` |
| `MemorySetup` | `memory_setup`: `PageAllocator` and `Ramdisk` composed, from the device tree to the running allocator |
| `KernelMap` | the kernel's page tables over `MemorySetup`: the whole boot from `entry.S` to the end of `kernel_setup` |
| `AddressSpace` | mappings, page tables and pages of processes: exec, fork, mmap, page faults, release |
| `LinkedList` | the pointers of the lists next to the sequences of `Queues` |
| `Queues_proofs`, `CpuScheduler_proofs` (the scheduler and `Signals`), `Interrupts_proofs`, `Uart_proofs`, `DynamicAllocator_proofs` (both allocators), `AddressSpace_proofs`, `LinkedList_proofs`, `KernelMap_proofs` (the boot) | the proofs |
| `MC*` | instances for TLC |

Definitions whose comment begins with *Faulty variant* are no part of any
specification. They are plausible mistakes in the definition that follows
them; putting one in its place makes a property fail, which shows that the
property depends on that code.

### CpuScheduler

Tasks are numbers as pids are: 0 is the static task on which `kmain` runs, 1
the idle thread, 2 the command line, the rest user processes. A step is a
stretch of code into which no scheduling decision of other code can fall: a
region with interrupts disabled, or one interrupt task (a nested trap only
queues). `pc` holds where each kernel thread stands between such regions;
processes have no `pc`, they do any system call at any time. `sie` is the
interrupt enable each task has outside traps. `trap` tells whether a session
is going on (`is_handling_interrupt`), or a page fault outside a session.

* `cpu_scheduler_wait_arg` is `EnterWait` followed by `cpu_scheduler_next`:
  in a session (`WaitInSession`) the latter only sets `need_reschedule`; in the
  command line (`CliWait`, then `ThreadNext`) a session may come in between.
* `cpu_scheduler_next` is `PickNext`; in threads the switch itself
  (`switch_to_kernel`) is a step of its own, since interrupts are restored
  before it, and `next` holds the local variable of that name. At the end of a
  trap interrupts are off and both are one step (`NextInTrap`).
* `cpu_scheduler_kill_by_pid` is `Killable` and `DoKill`.
* `cpu_scheduler_fire_cond` is `FireCond`.
* The idle loop is `IdleReap`, `IdleUnlist`, `IdleFree`, then
  `ThreadNext`; the boot task enters the same loop.
* The command line is `CliGet` (`uart_get`), `CliCommand` (any command or
  none, and the prompt), `CliExec` and `CliWait` (`command_exec`),
  `command_settimeout`; `Commands` names the ones an instance has besides those
  that only print. `uart_get` does not restore
  the interrupt enable when it returns a character, and the model keeps this:
  from the first character on the command line runs with interrupts off. After the
  end of a process it comes to the prompt (`"prompt"`), whose `uart_puts` may wait for
  room. Where it has waited for room it may be in any of its outputs
  (`AfterNext`), and so any command may follow: more than the code can do.
* Tasks of a session are `TimerSleep`, `TimerMessage`, `TimerQuantum`,
  `UartReceive` and `UartTransmit`. `timeouts` are the processes whose sleep is
  queued, and `CliPid` while any message of `settimeout` is.
* The message of `settimeout` is printed by `uart_puts` inside the timer's task.
  With room in the ring that is `TimerMessage`. Without room it is
  `MessageBlocks`: the wait is entered for whatever task the timer interrupted,
  wherever its node is linked, and since `cpu_scheduler_next` only asks for a
  reschedule the loop of `uart_puts` goes round again (`MessageLoops`), for
  ever: what would make room is a task queued behind this one. `Stuck` says that
  this has happened. No other step is possible from then on, so that the
  properties of the queues and of progress are stated for `~ Stuck`; what has
  been freed, what the command line waits for and who executes user code are
  stated without. The run `message_stuck` shows that it happens.
* System calls are the `Sys...` actions; `Syscalls` names the ones an instance
  has. `kill` of a task without a handler is `SysStop`.

Left out: stacks, trapframes, address spaces, the contents of messages. One
assumption is made about time: a slice of 31250 usec does not end between
`interrupts_restore` and `switch_to_kernel` in the same `cpu_scheduler_next`
that started it (`cpu_scheduler.c:213-215`); if it did, the task switched to
would be queued while it is about to run. Reads and writes are of at least
one byte.

### TaskLifecycle

One variable, the stage of each task. A task is created ready, dispatched (the
running one goes back to ready in the same step), blocked, woken, killed,
freed. It says nothing of queues, windows or threads. `ImplementsLifecycle`
is its specification under the mapping `Life`, which reads the stage of a task from
the place it is in, and from its state where it is in no queue: a process that
has called `exec` goes on running though marked ready, and a stuck message changes
the state of a task without changing its stage.

### Interrupts

`pc` is what the hart executes: the interrupted program (`run`), the loop of
`interrupt_handler` (`loop`), one of the handlers, the calls of expired
timeouts (`expire`), or the stretch between the last
`interrupt_tasks_execute` and `interrupts_disable` (`leave`). A trap may be
taken at each of them, except that a system call comes from `run` only. The
PLIC gives the interrupt out once (`claimed`) until it is completed. Time is
relative: timeouts and timer count down (`Tick`), and `Far` is the postponed
timer. `timeouts_interrupt_handler` reads the clock once (`due`) and then
compares with that value, while `Tick` goes on. A slot whose handler has been
called holds `"done"`: the code never reads it again. A timeout wakes a sleeper
(`fire`), ends a slice (`reschedule`) or prints a message (`message`). The last
may find the ring full: then `pc` stays at `message` (`MessageLoops`, see CpuScheduler),
while nested traps still queue tasks that nobody executes. Identities of timeouts
are drawn from `Ids` so that they can be symmetric; the counter behind them
only makes them distinct.

### Uart

A ring keeps its head and tail as the code does; a slot that has been read
holds `"used"`. `put`, `sent`, `stored` and `got` record what the last step
did, so that order is a property of steps and no history has to be kept.
`uart_put_bytes` is translated with its insertion of a carriage return before a
line feed (`PutByte`). The transmitter takes any number of bytes per interrupt.
A writer that finds the ring full begins to wait in the same step: a system
call is an interrupt task and the command line has interrupts off.

### PageAllocator

A page is its index in `frame_array`, a block the index of its first page,
addresses are offsets from the base. `FrameArray` is `memory_init` up to the
lists (`_allocate_frame_array`, the reservation of pages). The module has no
specification of its own: `MemorySetup` comes to that point from the device
tree, and `DynamicAllocator` begins there (`Init`), for each sequence of regions
in `Reservations` that leaves room for the frame array. `Populate` is one turn of
`_populate_orders_lists`. Splitting and merging are closed forms of the loops:
the halves a split puts back are `block + Pow2[o]`, and `Merged` gives the block a
merge has reached at each order.

Two computations of the code are in 32 bits, and the model has them as they are.
`PAGE_SIZE << order` is an int (`page_allocator.c:220`), so that only
`IntOrders` orders have a size, 19 in the code; at the next one the size is
negative, the address computed from it is outside every memory, and
`HasFreeBuddy` finds none. Blocks of a higher order never come about, so that
the same shift in `memory_allocate_pages` (line 201), which starts below the
order of a block there is, is exact. The offset of a page in
`_populate_orders_lists` (line 127) is unsigned and wraps one bit later, at
`OffsetPages`, 4 GiB in the code: `Populate` frees page `populated %
OffsetPages`. `DynamicAllocator` assumes a memory of at most that
(`MemoryAssumption`), as do the instances of the boot. The device tree of the
Orange Pi has two memory nodes of 2 GiB each, of which the kernel takes one
(`kernel/mm/setup.c:32-43`); how much QEMU is given is not in the repository.
Beyond it the first
pages of the memory would be freed again in place of the ones meant, reserved or
not, and blocks of 2 GiB never merged, whatever `MAX_ORDERS` promises
(`page_allocator.c:6`, "16GB").

### DynamicAllocator and Heap

`DynamicAllocator` adds to the page allocator the pools, `pool_index` of each
page, and what callers hold: `pieces` from `allocate`, `direct` pages from
`memory_allocate_pages` (page tables and user pages). `allocate` is three
actions, one for each way it can return memory (a block, the first chunk of a
new page, a chunk of the pool), and `NoMemory`. Addresses are bytes, so
that sizes that do not fill their chunk can be told apart. Pages of a pool
never go back to the page allocator, as in the code. `Heap` has one variable,
the pieces given out; `ImplementsHeap` is its specification.

### Signals

`Signals` adds to the scheduler the list of signals of each process, its signal
stack with the kernel's `signal_sp`, and the trapframe it will return to, cut
down to what matters: the code it resumes (the program or a handler) and `tp`,
which `get_current_task` relies on. The steps of the scheduler are used as they
are, each with what signals do in it: `SysForkSignals` is `SysFork` and
`task_copy_signals`, `SysExecSignals` and `CliExecSignals` are `SysExec` and
`CliExec` with `task_free_signals` and a new trapframe. Where a step gives the
hart to a process (`Return`) that process leaves the trap it is in, and
`_signal_handler` runs for it before anything else (`delivering`); a process
that has never run starts in `switch_to_user` and does not pass through it
(`fresh`). `kill` marks the signal of a process that handles it and kills
another one. Where the signal stack is full, the copy of the frame faults with
interrupts off, and the process is killed.

A handler runs on the signal stack, from its own frame downwards, and
`signal_sp` does not follow it. A signal delivered while it runs puts its frame
over what the handler has there. `stack` of a context says what will be found: a frame
that saves a handler is marked `"lost"` (`Saved`), one that saves the program,
which has a stack of its own, `"kept"`.

`interrupted` is a history: what the active handlers of each process have
interrupted. Assumed are that only the trampoline calls `sigreturn`, that is,
a handler is active, and that a child that is forked inside a handler does not
return from it (`ChildReturns = FALSE`; see section 6).

### DeviceTree and Ramdisk

The structure block is the sequence `dt` of tokens, which nothing changes. A
loop over tokens that ends at the first one that meets a condition is the
minimum of the set of those that do; `After` is `_fdt_next_token_addr` with its
NOPs, `Deeper` the counter of depth. Names are pairs of base name and unit
address, since a path may leave the second one out. `fdt_node_is_compatible`
keeps its truncation: `low0` says that the address of a node ends in a zero
byte. `NavigationCorrect` and `LookupsCorrect` compare the operators with the
tree that matching begins and ends gives, computed independently of them
(`Close`, `Ancestors`, `Owner`).

In `Ramdisk` `archive` maps the addresses of headers to what their fields say;
`Aligned`, `DataAddr` and `NextHeader` are the arithmetic of the parser.
`Listed` are the files `ls` counts.

### MemorySetup and KernelMap

`MemorySetup` is `initrd_setup`, `memory_setup` and `memory_init`, with one step
for each child of `/reserved-memory`; then `Populate` and the operations of
`PageAllocator` follow. `ReservedKept` compares the reservations with the
regions a reader of its own finds in the tree.

`KernelMap` puts the page tables around it. `stage` is how far the boot has
come: `entry` (`virtual_memory_setup` maps the memory in pieces of 1 GiB),
`initrd`, `memory`, `reserve`, `populate`, `refine` (the identity mapping is
gone), `devices`, `ready`; `halted` is the wait of `entry.S` where there is no
memory node, `failed` where `memory_setup` reports an error that nobody looks
at. A mapping to be made is a job, and a step is one turn of `pagewalk`
(`FollowEntry`, `AllocateTable`, `SetLeaf`) with tables taken from the
allocator. Devices are looked up in the tree (`DeviceNodes`) and get windows
one behind the other. `Translate` is what the hardware makes of a table.

### AddressSpace

`space[t]` is what `struct task` leads to: root, tables, leaf entries and the
list of mappings. `free` and `content` are the pages of memory; which free page
the allocator picks is of no importance and fixed (`Some`). `content` tells
apart what the properties need: zeros, the program, the last page of the
program with its zeros, what a process wrote, a table. Operations are functions
from a memory to a memory (`Map`, `task_add_mapping`, `task_copy`, ...), and an
action applies one to a task: `command_exec`, `_syscall_exec`, `_syscall_fork`,
`_syscall_mmap`, `AccessPage` (the process writes, faults and gets its page, or
faults and is killed), `Exit`, `Reap` (`task_free` by the idle thread). Loops
are recursive functions over the mappings or the pages of one, in the order of
the code. Middle tables, which repeat what happens to the others, and the
kernel's half of the root are left out; `KernelMap` has all three levels.

`command_exec` keeps what `task.c:89` does: the root comes from `allocate` and
its lower half is not cleared. If its page holds what a process left there, the
walk may follow that; then `wild` becomes true and the model stops, because
nothing can be said of what the kernel does next.

### LinkedList

Pointers and the sequence side by side, updated by the code and by `Queues`
respectively. Nodes start with arbitrary contents. Removing a node a second
time is included (`RemoveAgain`), as its effect, an emptied list, is what
`Queues` gives `linked_list_remove` and what the scheduler meets after `exec`.

## 3. Runs

All bounds are in the `.cfg` files. Deadlock is checked in every run but
`address_space`; the models of the scheduler and of interrupts can always take
an interrupt, so that there it says little.

**`scheduler`** (`MCCpuScheduler.cfg`, 923,000 states). Four tasks, so that
two processes and both threads compete; every system call except `exec`, with
every target but the idle thread; a receive ring of one byte, which is both
empty and full. Two processes suffice for one to kill, await or outlive the
other; a third would repeat these with another name. Messages of
`settimeout` are printed or get stuck at any moment. Checks `NoTaskLost`,
`OnlyRunningExecutes`, `NoUseAfterFree`, `ExecWaitSound`, `NoMissedInput`, the
inductive invariant `IInv`, of which `TypeOK` is a part, and
that the scheduler implements `TaskLifecycle`, so that for one a killed task is
never woken.

**`scheduler_live`** (`MCCpuSchedulerLive.cfg`, 41,000 states). Fork, stop, sleep
and exec under `FairSpec`: every task in the ready queue runs, every killed one
is freed, sleeps end. One process may be stopped, the other may call exec
(`ExecPids`), so that no process that has called it is killed.

**`exec_then_killed`** (`MCCpuSchedulerExec.cfg`, violated). With `exec` and
`exit`, `ReadyQueueKept` fails: see the findings.

**`signals`** (`MCSignals.cfg`, 275,000 states). Two processes, of which one
handles one or two signals and the other may run a new program; fork, exec,
stop, signal, kill, sigreturn. A signal stack of two frames is enough for a
handler inside a handler, for the return from both, and for the overflow.
Process 3 is the one signals are sent to, by itself and by its child.
`FramesIntact`: the stack holds the registers of what the active handlers
interrupted, whatever nests, forks or executes, and the stack itself for the
program alone. `RunsAsItself`: `tp` is the process's own. `SignalKept`: a
pending signal stays until its own handler is entered. `SignalHandled`: the
first signal in the list is handled, under `SFairSpec`. `QueuedOnce`: with
`exec`, and no end of a process that has called it (only process 4 does, which
drops its handlers, and only process 3 is stopped), the state `exec` leaves
behind (ready, in no queue) does no harm to the queues. No process waits in this
instance, since with waiting liveness takes TLC too long; for the same reason it
is without `settimeout` (`Commands`), which the proofs include.

**`interrupts`** (`MCInterrupts.cfg`, 383,000 states). Eight slots stand for
128. Two timeouts alive at a time, a slice with a sleep, a message, or an older
slice, of up to two ticks, slices of one tick, two UART requests before the
tasks are done: enough for the timer task to be overtaken, a slice to expire
while its successor is set, and a nested timer trap. `TasksIntact`,
`TimerArmed`, `QueuesOrdered` (timeouts by time, tasks by priority),
`ClaimHeld`, `OneSlice`; under `CallingSpec`, where processes keep making system
calls, `TimeoutFires` and `UartServed`. Under it system calls execute what a trap
between the last `interrupt_tasks_execute` and `interrupts_disable` has left
queued, so that these two do not show what the next run shows. `TasksIntact` is a
statement about this bound: see section 6.

**`trap_in_window`** (`MCInterruptsWindow.cfg`, violated). `TimeoutFires` without
that assumption.

**`message_stuck`** (`MCInterruptsMessage.cfg`, violated). Even with that
assumption a message of `settimeout` need not be printed (`MessagePrinted`): its
callback may never come to an end.

**`uart`** (`MCUart.cfg`, 451,000 states). Rings of three slots, a thread and
a process with texts longer than a ring and line feeds in different places,
debug output, up to two bytes arriving together: rings wrap, fill and drain.
`OutputArmed`, `BytesOrdered` (every byte leaves in the order it was written, and
input is read in the order it came), and `WritersWaitForRoom`: a
writer waits only while the ring is full, or since debug output drained it.

**`boot`** (`MCBoot.cfg`, 37,000 states). Five boards. `FullBoard` has wide
cells, NOPs, buses with cells of their own, devices the truncation hides, and
an archive with names and data of all lengths modulo 4. `CrowdedBoard` has one
region more than there is room for, and no ramdisk. `CutBoard` has regions out
of order, partly outside the memory and not whole pages, which the frame array
has to go around. `FullyReservedBoard` leaves nothing, and `BareBoard` has no
memory where it is looked for. 24 pages and three orders give buddies of the
largest order that must not merge and blocks cut by regions; tables of four
entries give the kernel, the memory before and behind it and the windows tables
of their own. Once booted, all sequences of allocations on both sides of the
powers of two and of releases. `TreeRead` and `RamdiskRead` are statements about
every node, path, property and file of the boards; `ReservedKept`,
`BlocksPartition`, `BuddiesMerged`, `KernelMapped` and `TablesOwned` about every
step. The last says that a page table is in the hands of no one else and stands
in one entry of one table: a walk that allocated one where there is one already
would lose what an earlier walk has filled.

Blocks of all three orders have a size here (`IntOrders = 4`).

**`heap`** (`MCDynamicAllocator.cfg`, 357,000 states). Five pages, with sizes
for two of four orders, one or two of them taken by the frame array and a
region; pools of four and of two chunks a page; requests on both sides of the
chunk sizes and of the page size; three pieces held at a time, so that a page
changes between the uses that give its `pool_index` different values.
`BlocksAccounted` and `ImplementsHeap`.

**`address_space`** (`MCAddressSpace.cfg`, 550,000 states). Two processes, eight
pages of memory, tables of five entries. Eight pages are what a process with
two installed pages and its copy need. Requests for mmap cross the trampoline
and run into the program, with and without populating, are too large or empty;
accesses of every kind go to the trampoline, to the program and to a page that
only mmap maps. `MappingsApart`, `LeavesMapped`, `PagesOwned`, `Isolated`,
`ForkCopies`. Deadlock is not checked, since the model stops when `wild`.

**`lists`** (`MCLinkedList.cfg`, 20,000 states). Four nodes, two lists, all
initial contents.

### Fairness

*Scheduler.* The hart executes: a thread on the CPU goes on between the traps it
takes (strong fairness, since sessions disable its steps again and again), a
session and a page fault come to their end. Of a session this is not true while
a message of `settimeout` waits for room: then it never ends, and the model has
no step by which it would (`MessageBlocks` is never forced, `MessageLoops` the
only step after it); the liveness properties say `\/ Stuck`. The timer interrupt
stays pending until it is taken (strong fairness of the timer's tasks, disabled
while interrupts are off). Nothing is assumed of processes or of the serial
line. That the timer's trap leads to its task is what `trap_in_window` shows not
to be certain; the runs of the scheduler assume it.

*Signals.* The same, with delivery, which nothing holds up (weak fairness).
Only processes sleep.

*Interrupts.* Weak fairness of time, of the session, and of pending
interrupts; `CallingSpec` adds that system calls are made again and again. A stuck
message is a session that goes on for ever without progress, `MessageLoops`; again the
properties say `\/ Stuck`.

## 4. Proofs

`CpuScheduler_proofs` proves, for every `MaxPid >= 2`, every `RxMax`, every set
of system calls, `exec` included, and every set of targets, under

    WellBehaved    == IdlePid \notin Targets
    StrandedSpared == [][\A t \in Stranded : state'[t] # "KILLED"]_vars

that `Spec /\ StrandedSpared => []P` for `P` each of `IInv`, `TypeOK`,
`NoUseAfterFree`, `ExecWaitSound`, `NoMissedInput` and `OnlyRunningExecutes \/
current \in Stranded`. A process that kills the idle thread leaves nothing to
switch to, hence `WellBehaved`. `Stranded` are the tasks that are ready and in
no queue, which is what `exec` makes of its caller. `StrandedSpared` says that
none of them is killed: the code empties the ready queue when one is, which is
the first finding below, and after that none of these properties can be
expected. Behaviours that satisfy it are those in which a process that calls
`exec` waits for something before it ends, or does not end, or loses the CPU to
the end of its time slice and is never heard of again; the run `signals` has only
such behaviours.

Two properties `exec` breaks by itself, `NoTaskLost` (a stranded task is in no
queue) and `OnlyRunningExecutes` (its state is not running); with
`NoExec == "exec" \notin Syscalls` both are proved, without `StrandedSpared`:
`NothingStranded` shows that `Stranded` is empty then, so that `StrandedSpared`
holds of every behaviour and all the theorems are about `Spec` alone.

With `settimeout` none of this is left out: the theorems are about behaviours in which
messages get stuck too. `IInv` is `SchedInv`, as long as none has, and at any time
`TypeOK`, `ExecWaitSound`, `NoMissedInput`, `NoUseAfterFree`, and that the
interrupted task is in the waiting queue once `Stuck`, so that the walk of
`uart_puts` round its loop changes nothing else.

`SchedInv` has `QueueInv`, which is `NoTaskLost` with room for `Stranded` processes,
and, since that is not inductive by itself,

* `BootInv`: the boot task is killed, in no queue, has interrupts off and never
  meets a killed task;
* `SwitchInv`: only the thread on the CPU is between decision and switch, and
  the chosen task is running and stays so until the switch (nothing that comes
  in between may kill it or make it wait);
* `CurrentInv`: the task on the CPU is running, except where it is stranded by
  `exec`, or a session or fault has taken it off and the switch is to come;
* `IdleInv`: the idle thread is ready or running, so that `PickNext` succeeds
  whenever somebody else leaves the CPU, which is what `OnlyRunningExecutes`
  rests on;
* `TableInv`: which tasks the table holds while the idle thread is half way
  through freeing one, which makes kills and frees exclude each other;
* `CliInv`: the command line has interrupts off from its first character on,
  so the process it starts cannot end before it waits, and `rx` is still empty
  when it begins to wait for input.

The proof has a lemma for each action (`...Keeps`) with a step for each part of
`IInv` the action disturbs. They rest on three lemmas about the operators:
`MoveProperties` (firing moves tasks from queue to queue), `KillEffect` and
`PickEffect`; these on `Queues_proofs`, where `Keep`, appending and removing are
shown to have the expected elements and to keep sequences without repetition.
`Keep` is a recursive function; that it exists and what it returns follows from
an induction stated there as `LeastElement`.

A stranded task is never the one that `KillEffect` is about (`KilledIsQueued`), and
`PickEffect` leaves it where it is, in no queue; every other action meets `Stranded`
only as its caller.

Its last part proves `WellBehaved => (Spec /\ StrandedSpared =>
ImplementsLifecycle)`: each action is one step of `TaskLifecycle` or a stutter.
The mapping `Life` goes by places, as a stuck message changes the state of a
task and leaves its place. The proof begins with the mapping by states (`Stage`,
`ByState`), since that is what the actions change; `SameStage` says that the two
are one as long as no message is stuck. The invariant is needed to know that the
task taken off the CPU is the only running one and that a killed task is in no
queue from which it could be woken. From it, `KilledForever`: no event on its
way to a killed task brings it back (but a stuck message may mark one as waiting
that has just exited).

### Signals

The second half of `CpuScheduler_proofs` is about `Signals`, under `WellBehaved`
and `StrandedSpared` too (`NothingStrandedWithSignals`: without `exec` nothing
is assumed here either). Every step of `Signals` but the delivery of a signal is
a step of the scheduler (`ScheduledSteps`), so that its `IInv` carries over;
delivery is shown to keep it as well, also when the signal stack overflows and
the process is killed. The invariant is `SignalInv`: `IInv`, and `SIInv` as long
as no message is stuck. `SIInv` adds `SavedInv` (the frames on the stack of a
living process are the contexts its handlers interrupted, in that order),
`DeliverInv` (a signal is delivered to a process, outside any trap) and `NewInv`
(a process to come has no handlers, which fork relies on). From them
`FramesIntact`; `SignalKept` for every step; `RunsAsItself` when no child
returns from its parent's handler (`~ChildReturns`, section 6 says why);
`QueuedOnce` from `IInv`. `exec` is part of all of them: inside a handler it
drops the frames and the pending signals of its caller, and nothing of any other
process. That needs the invariant: a process that calls `exec` has been created
and not ended, so that `NewInv` and `SavedInv` hold of it and of the others
afterwards.

### Interrupts

`Interrupts_proofs` proves `TasksIntact`, `TimerArmed`, `QueuesOrdered`,
`ClaimHeld` and `OneSlice` for all lengths of timeouts and slices, all bursts of UART
requests, and

    Enough == BufferSize >= MaxBurst + 6

`TasksIntact` says that the slot `interrupt_tasks_add` takes next holds no task
that still has to be called. The queue is sorted and the slots are taken in
turn, so the task in danger is one of low priority that others overtake.
`SlotsKept` bounds how many slots have been taken since a waiting task's
(`Age`): one for each task behind it, and, for a timer task, one for each that
may have overtaken it since the queue was empty (`Overtakers`). `TimersFew` bounds
the timer tasks: each needs the timer to be set once, which `MaxTimers` counts by
what the hart is executing and what is still to be executed. `OneEach` says that
there is one system call and one external interrupt at most. The bound is
tight: with `MaxBurst = 2` TLC finds an overwritten task for `BufferSize = 7`. With
the 128 slots of the code the theorem covers bursts of 122 requests.

For the timeouts, `TimerArmed`, `TimeoutsSorted` and `OneSlice` are inductive
together. Their proof rests on `TimeoutInsert` and `TimeoutWithout`, which say what
`InsertSorted` and the removal by identity do to a sorted list.

### Uart

`Uart_proofs` proves `OutputArmed`, `WritersWaitForRoom` and `BytesOrdered` for
rings of any size, any writers and any texts. `Sound` says that the slots from
tail to head, modulo the size, hold bytes and none that has been read; the
lemmas on `Store` and `Drop` show that they append to and remove the head of the
sequence read that way, also across the end of the ring. With `OutputArmed` and
`WritersWaitForRoom` this is inductive (`UInv`); `BytesOrdered` is an action
property and follows for each step from it.

### AddressSpace

`AddressSpace_proofs` proves `MappingsApart`, `LeavesMapped`, `PagesOwned`,
`Isolated` and `ForkCopies` for any number of tasks, any amount of memory, any
sizes of tables and programs and any requests to `mmap`. It assumes what the
module's three assumptions say: sizes and addresses are natural numbers, the
trampoline is page 0 or 1, and the program, the stack and the signal stack lie
in this order above it and below the kernel.

`AInv` says, of each task, that its mappings are in order, apart and above the
trampoline (`MappingsOK`), that each leaf entry has a table and is the
trampoline's or lies in a mapping and has its permissions (`LeavesOK`), that no
page of memory stands in two places of its tables (`Single`), and that it has
a root and the trampoline if it has anything (`Ready`); and, of all of them, that their
pages are apart from each other and from the free ones and that there are no
others. A *place* (`Positions`) is the root of a task, an entry of that root, or a leaf
entry. `PagesOwned` counts pages and uses; it follows, since `FrameOf` is then an
injection.

Operations work on a memory: the space of one task, the free pages and all
contents. The lemmas about them say what an operation does to a memory whose
pages are apart from those of the other tasks (`MemoryOK`), given a set of places
it may fill (its *goal*) and no fewer free pages than the goal has. Each page taken
goes to a place of the goal that was empty, so that the pages left are enough
for the rest; this is where `Room` of the actions is used. `fork` is the case
that needs it: its goal is what its source has filled, and it stays within that,
since each mapping of the copy is found to be put exactly where it was
(`CopyOne`), behind the ones before it. `Split` and `Join` take one task out of the
state and put it back. The walks of the code (`InstallAll`, `CopyPages`, the loop
of `task_copy_mappings`, the search of `_get_mapping_vaddr`) are recursive
functions over the numbers up to a bound; that they exist, and what they return,
is proved by induction for each of them.

`Isolated` follows for each step from `AInv`: a step works on one task
(`StepOfOne`), takes pages that are free and leaves the contents of all others
alone; where it installs a page, the page has the content the mapping promised.
For `ForkCopies` the copying lemmas carry along that at each page the copy has
nothing where the source has nothing, and the same content where it has a page
(`Agrees`): pages that are not free keep what they hold (`Kept`).

### PageAllocator, DynamicAllocator and Heap

`DynamicAllocator_proofs` proves `BlocksPartition`, `BuddiesMerged`,
`BlocksAccounted` and `ImplementsHeap` for any number of pages up to
`OffsetPages` (`MemoryAssumption`: 4 GiB), any page size, any number of orders,
any number of which an int has the size, any regions reserved before, any sizes
requested and any chunk sizes that divide the page. There must be one pool at
least: the `pool_index` a page has at boot is that of the first pool.

*Pages.* `PageInv` says that the free blocks and the ones callers hold are a
*partition* (`Partition`) of the pages populated so far: each is aligned to its
size, no two share a page, and together they are all of them. The metadata of a
block's first page gives its order and whose it is; of other pages it may say
anything, as what splits and merges leave there is never cleared, but a page
outside the partition is not marked free (`FlagsWithin`). Populating frees a page at
a time, so that this is an invariant of the boot as well. `_get_buddy` reads the
metadata of a page that may be such a leftover. `BuddyFound` is why it cannot
be misled: a block of the same size beside a block that is being freed is either
one block of the partition or divided into smaller ones, of which one begins where
it does; so its first page has metadata that is up to date, with the order of
that smaller block. `Freed` shows that each turn of the merge takes the one
buddy out of its list (`MergeOnce`) and that the turns end at a block whose buddy is not
free, and `Taken` that the halves a split puts back and the block given out are a
partition of the block taken (`Split`); both by induction on the orders, as far as an
int has their sizes. `Pow2`,
`Merged` and the walks over regions are recursive functions; that they exist is
`Recursion`, proved by induction as well. `BuddiesMerged` needs, for the orders an
int has the size of, no more than `PageInv`: if the metadata says that the buddy is
free, `BuddyFound` gives it as a block of that order, which is in its list. For
the next order, where the code finds no buddy, two such blocks would fill a
memory of `OffsetPages` (`BuddiesFill`); but the frame array has a page
(`FrameArrayReserved`), which stays reserved (`SomeReserved`), so that one of the two
is never whole. Higher orders are longer than the memory. This is `Merging`.

*Chunks.* `AccountInv` strengthens `BlocksAccounted` by what the steps rely on:
free chunks and pieces lie in pages that the dynamic allocator holds, free chunks
in pages of their pool, each once, and a piece is no longer than its chunk or block
(`Room`). Pages taken directly go through the page allocator without setting
`pool_index`; the invariant says nothing of it there, and it is set whenever a
page comes back to the dynamic allocator. `AccountBlock`, `AccountFill`,
`AccountChunk` and `AccountFree` are the four ways to change it.

*Heap.* Two pieces in different pages lie in different blocks of the partition
(`InItsBlock`); two in one page are different chunks of one pool
(`PiecesApart`). With this each allocation is `Give` of `Heap`, each `free`
is its `TakeBack`, and all other steps leave the pieces alone.

### The boot

`KernelMap_proofs` takes the allocator through the boot, on any board.

*Pages.* `PageInv` holds from the first instruction on, if `EarlyInv` is added:
until `memory_init` there are neither blocks nor metadata. Each other step is
one of `PageAllocator` or leaves it alone (`StepsOfBoot`), so that the lemmas
`DynamicAllocator_proofs` has about them apply. Hence `BlocksPartition` and
`BuddiesMerged` also for `KernelSpec`, with page tables as the ones that ask for
pages; the latter where the regions known to `memory_init` are regions at all
(`RegionsGiven`: addresses and sizes are numbers), since it needs to know where
the frame array is.

*Regions.* `ReservedKept` has two halves. `RegionsReserved`, that every region in use
is reserved, is about the loop over the children of `/reserved-memory`:
`ReserveInv` says that those before `node` are reserved, or the array is full, and
that `node` is one of them. `LoopBegins` and `LoopGoesOn` lead from one to the next.
They assume `[]TreeSound`: the tree is navigated right (`NavigationCorrect`, which
the run `boot` checks as part of `TreeRead`), it has one node of that name at most,
which its path finds, and each child has a `reg`. `ReservedApart`, that no block
overlaps a region, follows from three facts. The pages that
`memory_init` marked reserved are still exactly those (`FrameInv`). The frame
array was put where it overlaps no region inside the memory (`FramePlaced`: each turn
of `_allocate_frame_array` that does not end there goes on behind the
region in its way; the walk is a recursive function over the addresses, by
induction). And pages counted from the length of a region cover it (`PagesCover`),
which is so unless it begins within a page and reaches into one more:
`RegionsOnPages` says that there is no such region, see section 6. It is weaker
than saying that regions begin at pages, and it is a condition on the state in the
theorem: what `memory_init` found.

*Tables.* `TablesInv` says that tables are a tree: with each goes a level such that an
entry of a table leads one level down, and each table but the root stands in
exactly one entry (`TableTree`), and that a walk is at a table of the level it
thinks (`Walked`). `TableAdded` says that an allocated table, put into an
entry that held none, keeps it a tree. A leaf is never put over a table:
`virtual_memory_refine_mappings` writes leaves of the middle level only while there
is no table of the last (`Walked` again), which is the order of its three jobs in
two passes, and all jobs waiting at a time write leaves of one level. The theorem
assumes `[]NumbersGiven`: that the tree gives numbers for the memory and the
devices, and the board for the kernel.

*Mappings.* `KernelMapped` looks at the tables when no job is left, and says
nothing while pagewalk is on its way. `MapInv` does. `Wanted` is the set of
mappings the kernel is to have: a page, the leaf the hardware is to find for it,
and the level it is to stand at. `PagesMapped` says that each of them is mapped
or in what a job has left (`Pending`), and that no job writes anything else
(`JobSound`: whatever is wanted in a piece that the job writes is what it writes
there, behind its last page too, since a job writes whole pieces). `Walking`
says that pagewalk stands where the page it is to map leads to, `LargePieces`
and `LowerHalfClear` what the boot leaves to the refinement, `WindowsInOrder`
that windows lie behind one another and behind the memory. That a turn of
pagewalk harms nothing rests on `WalksApart`, for which the tree of `TablesInv`
is needed: walks for two pages meet in one entry only if the pages lie in one
piece of that level. `WalksStay` and `MappingsStay` follow from it. Putting an
empty table over a leaf of 1 GiB does take mappings away, but only such as are
at that level, and none of those is wanted once the refinement has begun; this
is why `Wanted` has levels. `RefineJobsSound` says that the three mappings of
`virtual_memory_refine_mappings` cover the memory and do not overlap,
`SetupKeeps` that no two pieces of 1 GiB share an entry of the root, those of
the identity mapping included, and `WindowsApart` that a window shares no table
of the last level with the memory. The theorem assumes besides `[]NumbersGiven`:

* `KernelBaseAssumption`: `KERNEL_VIRTUAL_BASE` (`vmm/definitions.h:7`) is where an
  entry of the root begins, in its upper half.
* `[]Layout`: the memory begins at a piece of 1 GiB and ends in the lower half (else
  its identity mapping would lie over the kernel's); the kernel
  lies in it, at the offset it is linked to, and begins and ends at a piece of 2 MiB;
  memory and windows fit into the upper half. For the platforms the code has, the second
  is what `platform/qemu/linker_kernel.ld` and `KERNEL_PHYSICAL_ADDR` say: 16 MiB at
  offset 32 MiB. Section 6 says what becomes of another kernel.

`TreeSound`, `NumbersGiven` and `Layout` hold in every state of the instance of
`boot`, and so does `RegionsOnPages`, `CutBoard` with its broken pages included:
they were checked there as invariants before the theorems were stated with them,
and so were the parts of `MapInv`.

### LinkedList

`LinkedList_proofs` proves `Represents` for any nodes, any number of lists and
any initial contents: head, tail, `next` and `prev` always form the sequence
that the operations of `Queues` give, for insertion at the end and before an
element, for removal of the first, the last, the only or an inner one, and for
the removal of a node that is in no list.
The invariant adds that lists are apart (`Apart`), without which an operation on one
could change what another represents. This is what makes sequences a sound
model of queues in the other modules.

### What is only model-checked

Liveness under fairness, which the prover does not reach; and of the boot
`TreeRead` and `RamdiskRead`. These two are statements about data that does not
change, the boards; for all boards they would be inductions over what a walk
reads.

## 5. Findings

* **`exec_then_killed`**, `kernel/task/task.c:78`. `exec` marks the calling
  process ready while it is running and in no queue. If it then ends before it
  has been scheduled anew, the kill removes it from `ready_queue`, which empties
  that queue: every ready task is forgotten, the idle thread among them. If its
  time slice ends instead, it is not put into the queue, since it is not marked
  running (`cpu_scheduler.c:205`), and never runs again. `NoTaskLost` says
  so of ready tasks and holds without `exec`; `ReadyRuns` is stated for the
  tasks in the queue, so that it can be checked with it.
* **`trap_in_window`**, `kernel/interrupts/interrupt_handler.c:122`. A trap
  between the last `interrupt_tasks_execute` and `interrupts_disable` is queued
  but not executed before another trap. If it was the timer's, the timer has
  been postponed too, and time stands still until a key is pressed or a system
  call is made.
* **`message_stuck`**, `kernel/kmain.c:285`. `settimeout` "prints message after
  seconds" (`kmain.c:140`), with `uart_puts` inside the timer's task. If the
  transmit ring is full it waits there, on behalf of the interrupted task, for
  an interrupt whose task is queued behind it: nothing is printed, and nothing
  else goes on.

## 6. Known limits of the code that the models state

* `waitpid` of a process that has already ended waits for ever
  (`syscalls.c:90` says so). `SysWaitpid` behaves that way, and the safety
  properties hold nevertheless.
* `interrupt_tasks_add` reuses slots without looking (`interrupt_tasks.c:36`).
  The timer task has the lowest priority; if as many UART requests as there are
  slots arrive before it runs, its slot is overwritten. `MaxBurst` bounds the
  requests; `TasksIntact` holds as long as there are six slots more than that,
  and fails in the model with one slot less (section 4).
* A reserved region that does not begin at a page boundary may leave its last
  page unreserved, and one partly outside the memory is skipped
  (`page_allocator.c:70`). `ReservedKept` is checked and proved where no region
  inside the memory, nor the frame array, reaches into one page more than its length
  counts for (`RegionsOnPages`).
* `uart_debug_puts` drains the transmit ring without waking the writers
  waiting for room; they wait until somebody writes again. `polled` records it
  for `WritersWaitForRoom`.
* The callback of `settimeout` prints inside an interrupt task (`kmain.c:285`).
  With a full transmit ring it never returns: see the findings.
* A signal delivered inside a handler is saved over what that handler has on its
  stack (`interrupt_handler.c:159-164`: the handler's `sp` is `signal_sp`, from
  which the next delivery subtracts). Its registers come back, so that the
  handler resumes where it was, with whatever it kept on its stack destroyed.
  `FramesIntact` says which contexts this happens to; what such a handler does
  next is not modelled, except that it may still make any system call and
  return.
* Merging stops at blocks of 2 GiB (`page_allocator.c:220`) and pages beyond 4 GiB are
  taken for others (`page_allocator.c:127`). Up to 4 GiB neither makes a difference
  (section 4); memory above is excluded by `MemoryAssumption`.
* A line feed that finds one free slot puts its carriage return there and is
  retried as a whole (`uart.c:199`). With a transmitter that makes room for one
  byte at a time this repeats for ever; hence no property says that writes end.
* Before the first character `uart_get` has a window between finding the ring
  empty and waiting, hence the condition in `NoMissedInput`.
* The root of a new page table is not cleared (`task.c:89`): in
  `address_space` `wild` is reached when a page of a process that has called
  `exec` or has ended becomes the root of the next one.
* `fork` takes the size of a file mapping for the size of the file
  (`task_mapping.c:202`): in a last page not yet installed the child sees what
  follows the program in the ramdisk. `ForkCopies` allows for this.
* A size within a page of 2^64 is rounded to 0 (`task_mapping.c:106`), and the
  limit of a mapping is the kernel's address, not the end of the lower half
  (`task_mapping.c:72`). The instances have no such requests. `mmap` with
  `MAP_FILE` passes no file and is left out.
* The code does not look whether it got a page (`task_mapping.c:251`); the
  actions of `AddressSpace` require that there are enough.
* A child forked inside a handler gets its parent's saved frame; if it returns
  from the handler, `tp` is its parent's (`task.c:185`, `syscalls.c:145`) and the
  kernel takes it for its parent from the next trap on. `RunsAsItself` fails
  in the model with `ChildReturns = TRUE`.
* One signal is delivered per trap, the one registered first, so that
  `SignalHandled` is stated for that one. A process without a signal stack left
  is killed. A handler registered a second time is never used.
* `fdt_node_is_compatible` returns an address as a byte (`fdt_parser.c:240`),
  so that a node whose address ends in a zero byte is never found. `LookupsCorrect`
  states the lookup with this.
* A path is followed without going back, and `fdt_get_node_cells` does not
  come to an end where the parent lacks one of its counts (`fdt_parser.c:295`);
  trees deeper than 32 overrun `parent_stack`. The boards have no such nodes.
* A region beyond the hundredth is dropped (`page_allocator.c:49`), and
  `/memreserve/` is not read.
* When `memory_init` fails, the boot goes on without an allocator
  (`setup.c:94`): `failed` is as far as the model can follow.
* While `pagewalk` replaces the large leaf the kernel runs in
  (`virtual_memory_setup.c:69`), it runs on what the TLB holds. `KernelMapped` is
  stated before and after.
* `KernelMapped` is checked, and proved, for a kernel that begins and ends at a piece of
  2 MiB; the mapping of what lies behind another one would take away the
  execution of its last piece (`virtual_memory_setup.c:91`).
* An archive whose first file is its trailer is listed as one file
  (`kmain.c:195`), and one that does not begin at a multiple of 4 is misread
  (`initrd_parser.c:69`).
* `stop` or `kill` of pid 1 is accepted by the code and excluded by `Targets`.

## 7. Not modelled

Registers, kernel stacks and the rest of a trapframe are below the level of
these models: a context switch is a change of the current task, and of a
trapframe only the code to resume and `tp` are kept. TLB and caches are left
out. The converters and string functions work on characters, where the models
have numbers and names; the ones that matter for a property are modelled by what
they do (`Wide`, `Aligned`, `Named`). SBI calls are instructions that call the
firmware; what the kernel asks of the timer is in `Interrupts`. Polling output,
drawing and the bootloader are pure input and output: of the drivers the models
have what they do at boot, lookup and window. The OPIRV2 variants of the
platform are left out. `PROJECT.json` lists every part with its status.

## 8. Plan

Done, in this order: `Queues`, `CpuScheduler` with `TaskLifecycle` and the
proofs; `Interrupts`; `PageAllocator`; `LinkedList`; `Uart`;
`DynamicAllocator` with `Heap`; `AddressSpace`; `Signals`; `DeviceTree`,
`Ramdisk`, `MemorySetup` and `KernelMap`.

Proved so far: the scheduler, its refinement, `Signals` over it, `Interrupts`,
`Uart`, `PageAllocator`, `DynamicAllocator` and its refinement, `AddressSpace`,
`LinkedList`, and of `KernelMap` everything but `TreeRead` and `RamdiskRead`.

Left: `TreeRead` and `RamdiskRead` for all boards, out of the prover's reach
(section 4), and a model of the faults of kernel code on behalf of a system call
(`PROJECT.json` lists the hazard).
