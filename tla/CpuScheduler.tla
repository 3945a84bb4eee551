---------------------------- MODULE CpuScheduler ----------------------------
(***************************************************************************)
(* The scheduler of the kernel (task/cpu_scheduler.c) together with what   *)
(* calls it: the idle thread and the command line thread, the system calls *)
(* of user processes, and the interrupt tasks that wake sleeping tasks.    *)
(*                                                                         *)
(* There is one hart.  A step of this specification is a stretch of code   *)
(* that no scheduling decision of another piece of code can fall into:     *)
(* a region between interrupts_disable and interrupts_restore, or one      *)
(* interrupt task (a trap taken while another one is handled only queues   *)
(* its task, see interrupt_handler.c).                                     *)
(*                                                                         *)
(* Task 0 is the static bootstrap task on which kmain runs, 1 the idle     *)
(* thread, 2 the command line thread; the others are user processes.       *)
(***************************************************************************)
EXTENDS Queues

CONSTANTS
  MaxPid,       \* bound on the number of tasks ever created
  RxMax,        \* bytes the receive ring holds (RX_RING_SIZE - 1)
  Syscalls,     \* the system calls user processes make
  Targets,      \* the pids user processes pass to stop, kill and waitpid
  ExecPids,     \* the processes that call exec
  Commands      \* the commands typed, of those that reach the scheduler

BootPid == 0
IdlePid == 1
CliPid  == 2

ASSUME MaxPidAssumption == MaxPid \in Nat /\ MaxPid >= CliPid
ASSUME RxMaxAssumption == RxMax \in Nat
ASSUME TargetsAssumption == Targets \subseteq 1..MaxPid
ASSUME ExecAssumption == ExecPids \subseteq 1..MaxPid

VARIABLES
  current,         \* the tp register: get_current_task()
  state,           \* task.state
  wait_event,      \* task.wait_event
  ready_queue, waiting_queue, killed_queue,
  task_table,      \* the pids task_table.c has an entry for
  freed,           \* the pids whose struct task has been given back
  next_pid,
  sie,             \* sstatus.SIE as each task has it outside traps
  pc,              \* where each kernel thread stands
  node,            \* the task the idle thread took off killed_queue, or 0
  next,            \* the local next of a cpu_scheduler_next about to switch
  trap,            \* none, session (is_handling_interrupt), page fault, or
                   \* a session in which a message waits for room
  need_reschedule,
  quantum,         \* the timeout of the current time slice is queued
  timeouts,        \* whose timeouts are queued: the processes that sleep, and
                   \* CliPid for the messages of settimeout, any number
  rx               \* bytes in the receive ring

queues == <<ready_queue, waiting_queue, killed_queue>>
vars == <<current, state, wait_event, queues, task_table, freed, next_pid, sie,
          pc, node, next, trap, need_reschedule, quantum, timeouts, rx>>

Tasks     == 0..MaxPid
Pids      == 1..MaxPid
KThreads  == {BootPid, IdlePid, CliPid}
Processes == Pids \ KThreads
IdleLabels == {"reap", "unlist", "free", "yield", "switch"}
CliLabels  == {"prompt", "get", "wait_read", "command", "wait_write",
               "wait_kill", "next", "switch"}
Events == {"NONE", "PROCESS_KILL", "UART_READ", "UART_WRITE", "TIMEOUT"}
States == {"NONE", "READY", "RUNNING", "WAITING", "KILLED"}

TypeOK ==
  /\ current \in Tasks
  /\ state \in [Tasks -> States]
  /\ wait_event \in [Tasks -> [id : Events, arg : Tasks]]
  /\ ready_queue \in Seq(Pids)
  /\ waiting_queue \in Seq(Pids)
  /\ killed_queue \in Seq(Pids)
  /\ task_table \in SUBSET Pids
  /\ freed \in SUBSET Pids
  /\ next_pid \in 1..(MaxPid + 1)
  /\ sie \in [Tasks -> BOOLEAN]
  /\ pc \in [KThreads -> IdleLabels \cup CliLabels]
  /\ node \in Tasks
  /\ next \in Tasks
  /\ trap \in {"none", "session", "fault", "message"}
  /\ need_reschedule \in BOOLEAN
  /\ quantum \in BOOLEAN
  /\ timeouts \in SUBSET Pids
  /\ rx \in 0..RxMax

\* kmain after cpu_scheduler_init and the creation of the command line
\* thread: the bootstrap task, with interrupts off, enters the idle loop.
Init ==
  /\ current = BootPid
  /\ state = [t \in Tasks |-> CASE t = BootPid -> "KILLED"
                                [] t \in {IdlePid, CliPid} -> "READY"
                                [] OTHER -> "NONE"]
  /\ wait_event = [t \in Tasks |-> [id |-> "NONE", arg |-> 0]]
  /\ ready_queue = <<IdlePid, CliPid>>
  /\ waiting_queue = << >>
  /\ killed_queue = << >>
  /\ task_table = {IdlePid, CliPid}
  /\ freed = {}
  /\ next_pid = CliPid + 1
  /\ sie = [t \in Tasks |-> t # BootPid]
  /\ pc = [t \in KThreads |-> IF t = CliPid THEN "get" ELSE "reap"]
  /\ node = 0
  /\ next = 0
  /\ trap = "none"
  /\ need_reschedule = FALSE
  /\ quantum = FALSE
  /\ timeouts = {}
  /\ rx = 0

-----------------------------------------------------------------------------
(* Operations of the scheduler.                                            *)

\* cpu_scheduler_fire_cond on the tasks S of the waiting queue wtg whose
\* event and condition match: they become ready in the order they waited.
FireCond(st, rdy, wtg, S) ==
  /\ state' = [t \in Tasks |-> IF t \in S THEN "READY" ELSE st[t]]
  /\ ready_queue' = rdy \o Keep(wtg, S)
  /\ waiting_queue' = Keep(wtg, Range(wtg) \ S)

WaitingFor(wtg, id) == {t \in Range(wtg) : wait_event[t].id = id}

cpu_scheduler_fire(id) ==
  FireCond(state, ready_queue, waiting_queue, WaitingFor(waiting_queue, id))

\* Faulty variant: the timeout wakes the task that happens to be running.
fire_timeout_current(pid) ==
  FireCond(state, ready_queue, waiting_queue,
           WaitingFor(waiting_queue, "TIMEOUT") \cap {current})

\* The condition of a sleep timeout is _task_pid_matches.
fire_timeout(pid) ==
  FireCond(state, ready_queue, waiting_queue,
           WaitingFor(waiting_queue, "TIMEOUT") \cap {pid})

\* The part of cpu_scheduler_wait_arg that runs with interrupts disabled.
EnterWait(id, arg) ==
  /\ wait_event' = [wait_event EXCEPT ![current] = [id |-> id, arg |-> arg]]
  /\ state' = [state EXCEPT ![current] = "WAITING"]
  /\ waiting_queue' = linked_list_insert(waiting_queue, current)

\* Faulty variant: the wait forgets to ask for another task.
WaitInSessionStay(id, arg) ==
  /\ EnterWait(id, arg)
  /\ UNCHANGED <<ready_queue, killed_queue, need_reschedule>>

\* cpu_scheduler_wait_arg in a system call: its cpu_scheduler_next finds
\* is_handling_interrupt set and leaves the switch to the end of the session.
WaitInSession(id, arg) ==
  /\ EnterWait(id, arg)
  /\ need_reschedule' = TRUE
  /\ UNCHANGED <<ready_queue, killed_queue>>

\* Faulty variant: a task already killed is killed again.
KillableTwice(pid) == pid \in task_table

Killable(pid) == pid \in task_table /\ state[pid] # "KILLED"

\* Faulty variant: a waiting task is killed where it stands.
DoKillInPlace(pid) ==
  LET rdy == IF state[pid] = "READY"
             THEN linked_list_remove(ready_queue, pid) ELSE ready_queue
  IN  /\ killed_queue' = linked_list_insert(killed_queue, pid)
      /\ FireCond([state EXCEPT ![pid] = "KILLED"], rdy, waiting_queue,
                  {t \in WaitingFor(waiting_queue, "PROCESS_KILL") :
                     wait_event[t].arg = pid})

\* The part of cpu_scheduler_kill_by_pid that runs with interrupts disabled.
DoKill(pid) ==
  LET rdy == IF state[pid] = "READY"
             THEN linked_list_remove(ready_queue, pid) ELSE ready_queue
      wtg == IF state[pid] = "WAITING"
             THEN linked_list_remove(waiting_queue, pid) ELSE waiting_queue
  IN  /\ killed_queue' = linked_list_insert(killed_queue, pid)
      /\ FireCond([state EXCEPT ![pid] = "KILLED"], rdy, wtg,
                  {t \in WaitingFor(wtg, "PROCESS_KILL") :
                     wait_event[t].arg = pid})

\* cpu_scheduler_kill_by_pid in a system call.
KillInSession(pid) ==
  \/ /\ Killable(pid)
     /\ DoKill(pid)
     /\ need_reschedule' = (need_reschedule \/ pid = current)
  \/ /\ ~ Killable(pid)
     /\ UNCHANGED <<state, queues, need_reschedule>>

\* Faulty variant: the new task gets no entry in the table.
AddTaskUnlisted(pid) ==
  /\ next_pid' = pid + 1
  /\ state' = [state EXCEPT ![pid] = "READY"]
  /\ ready_queue' = linked_list_insert(ready_queue, pid)
  /\ UNCHANGED task_table

\* cpu_scheduler_add_task of a task just created.
AddTask(pid) ==
  /\ next_pid' = pid + 1
  /\ state' = [state EXCEPT ![pid] = "READY"]
  /\ ready_queue' = linked_list_insert(ready_queue, pid)
  /\ task_table' = task_table \cup {pid}

\* Faulty variant: the previous task is queued whatever its state.
PickNextRequeue ==
  /\ ready_queue # << >>
  /\ state' = [state EXCEPT ![current] = IF @ = "RUNNING" THEN "READY" ELSE @,
                            ![Head(ready_queue)] = "RUNNING"]
  /\ ready_queue' = linked_list_remove(linked_list_insert(ready_queue, current),
                                       Head(ready_queue))
  /\ quantum' = TRUE
  /\ UNCHANGED <<waiting_queue, killed_queue>>

\* Faulty variant: the previous task is queued but keeps its state.
PickNextNoDemote ==
  /\ ready_queue # << >>
  /\ state' = [state EXCEPT ![Head(ready_queue)] = "RUNNING"]
  /\ ready_queue' = linked_list_remove(
                      IF state[current] = "RUNNING"
                      THEN linked_list_insert(ready_queue, current)
                      ELSE ready_queue, Head(ready_queue))
  /\ quantum' = TRUE
  /\ UNCHANGED <<waiting_queue, killed_queue>>

\* Faulty variant: the time slice of the next task is not started.
PickNextNoSlice ==
  LET running == state[current] = "RUNNING"
      st  == [state EXCEPT ![current] = IF running THEN "READY" ELSE @]
      rdy == IF running THEN linked_list_insert(ready_queue, current)
             ELSE ready_queue
  IN  /\ ready_queue # << >>
      /\ state' = [st EXCEPT ![Head(ready_queue)] = "RUNNING"]
      /\ ready_queue' = linked_list_remove(rdy, Head(ready_queue))
      /\ UNCHANGED <<waiting_queue, killed_queue, quantum>>

\* The part of cpu_scheduler_next that runs with interrupts disabled, when
\* there is a task to switch to.
PickNext ==
  LET running == state[current] = "RUNNING"
      st  == [state EXCEPT ![current] = IF running THEN "READY" ELSE @]
      rdy == IF running THEN linked_list_insert(ready_queue, current)
             ELSE ready_queue
  IN  /\ ready_queue # << >>
      /\ state' = [st EXCEPT ![Head(ready_queue)] = "RUNNING"]
      /\ ready_queue' = linked_list_remove(rdy, Head(ready_queue))
      /\ quantum' = TRUE
      /\ UNCHANGED <<waiting_queue, killed_queue>>

\* cpu_scheduler_next at the end of a trap, where interrupts are off up to
\* and including the switch.
NextInTrap ==
  \/ /\ PickNext
     /\ current' = Head(ready_queue)
  \/ /\ ready_queue = << >>
     /\ UNCHANGED <<state, queues, quantum, current>>

-----------------------------------------------------------------------------
(* Kernel threads.                                                         *)

InThread(t) == current = t /\ trap = "none"
At(t, label) == InThread(t) /\ pc[t] = label
Goto(t, label) == pc' = [pc EXCEPT ![t] = label]

\* Where a thread goes on once its cpu_scheduler_next has returned.
AfterNext(t) ==
  CASE t # CliPid -> "reap"
    [] t = CliPid /\ wait_event[t].id = "UART_WRITE" -> "command"
    [] t = CliPid /\ wait_event[t].id = "PROCESS_KILL" -> "prompt"
    [] OTHER -> "get"

\* cpu_scheduler_next in a thread: interrupts may be on again between the
\* decision and switch_to_kernel.
ThreadNext(t, label) ==
  /\ At(t, label)
  /\ \/ PickNext /\ next' = Head(ready_queue) /\ Goto(t, "switch")
     \/ /\ ready_queue = << >>
        /\ Goto(t, AfterNext(t))
        /\ UNCHANGED <<state, queues, quantum, next>>
  /\ UNCHANGED <<current, wait_event, task_table, freed, next_pid, sie, node,
                 trap, need_reschedule, timeouts, rx>>

switch_to_kernel(t) ==
  /\ At(t, "switch")
  /\ current' = next
  /\ next' = 0
  /\ Goto(t, AfterNext(t))
  /\ UNCHANGED <<state, wait_event, queues, task_table, freed, next_pid, sie,
                 node, trap, need_reschedule, quantum, timeouts, rx>>

\* cpu_scheduler_idle takes one killed task off the queue ...
IdleReap(t) ==
  /\ At(t, "reap")
  /\ \/ /\ killed_queue = << >>
        /\ Goto(t, "yield")
        /\ UNCHANGED <<killed_queue, node>>
     \/ /\ killed_queue # << >>
        /\ node' = Head(killed_queue)
        /\ killed_queue' = linked_list_remove(killed_queue, Head(killed_queue))
        /\ Goto(t, "unlist")
  /\ UNCHANGED <<current, state, wait_event, ready_queue, waiting_queue,
                 task_table, freed, next_pid, sie, next, trap,
                 need_reschedule, quantum, timeouts, rx>>

\* Faulty variant: the task is never freed.
IdleUnlistOnly(t) ==
  /\ At(t, "unlist")
  /\ task_table' = task_table \ {node}
  /\ node' = 0
  /\ Goto(t, "reap")
  /\ UNCHANGED <<current, state, wait_event, queues, freed, next_pid, sie,
                 next, trap, need_reschedule, quantum, timeouts, rx>>

\* ... removes it from the task table ...
IdleUnlist(t) ==
  /\ At(t, "unlist")
  /\ task_table' = task_table \ {node}
  /\ Goto(t, "free")
  /\ UNCHANGED <<current, state, wait_event, queues, freed, next_pid, sie,
                 node, next, trap, need_reschedule, quantum, timeouts, rx>>

\* ... and frees it.
IdleFree(t) ==
  /\ At(t, "free")
  /\ freed' = freed \cup {node}
  /\ node' = 0
  /\ Goto(t, "reap")
  /\ UNCHANGED <<current, state, wait_event, queues, task_table, next_pid, sie,
                 next, trap, need_reschedule, quantum, timeouts, rx>>

IdleStep(t) ==
  \/ IdleReap(t)
  \/ IdleUnlist(t)
  \/ IdleFree(t)
  \/ ThreadNext(t, "yield")
  \/ switch_to_kernel(t)

\* Faulty variant: uart_get restores the interrupt enable on success too.
CliGetRestore ==
  /\ At(CliPid, "get")
  /\ \/ rx > 0 /\ rx' = rx - 1 /\ Goto(CliPid, "command")
     \/ rx = 0 /\ Goto(CliPid, "wait_read") /\ UNCHANGED rx
  /\ UNCHANGED <<current, state, wait_event, queues, task_table, freed,
                 next_pid, sie, node, next, trap, need_reschedule, quantum,
                 timeouts>>

\* uart_get: on success it returns without restoring the interrupt enable
\* it cleared, and the thread goes on with interrupts off.
CliGet ==
  /\ At(CliPid, "get")
  /\ \/ /\ rx > 0
        /\ rx' = rx - 1
        /\ sie' = [sie EXCEPT ![CliPid] = FALSE]
        /\ Goto(CliPid, "command")
     \/ /\ rx = 0
        /\ Goto(CliPid, "wait_read")
        /\ UNCHANGED <<rx, sie>>
  /\ UNCHANGED <<current, state, wait_event, queues, task_table, freed,
                 next_pid, node, next, trap, need_reschedule, quantum,
                 timeouts>>

\* The rest of kernel_cli: it goes back for the next character, or its
\* output finds the transmit ring full.  At the prompt that follows the end
\* of a process it does no more than this; elsewhere the prompt is part of
\* the output of the command before it.
CliCommand ==
  /\ At(CliPid, "command") \/ At(CliPid, "prompt")
  /\ Goto(CliPid, "get") \/ Goto(CliPid, "wait_write")
  /\ UNCHANGED <<current, state, wait_event, queues, task_table, freed,
                 next_pid, sie, node, next, trap, need_reschedule, quantum,
                 timeouts, rx>>

\* command_exec up to the wait: the new process can be scheduled from here.
CliExec ==
  /\ At(CliPid, "command")
  /\ "exec" \in Commands
  /\ next_pid <= MaxPid
  /\ AddTask(next_pid)
  /\ Goto(CliPid, "wait_kill")
  /\ UNCHANGED <<current, wait_event, waiting_queue, killed_queue, freed, sie,
                 node, next, trap, need_reschedule, quantum, timeouts, rx>>

\* command_settimeout queues a timeout whose callback prints a message.
command_settimeout ==
  /\ At(CliPid, "command")
  /\ "settimeout" \in Commands
  /\ timeouts' = timeouts \cup {CliPid}
  /\ Goto(CliPid, "prompt")
  /\ UNCHANGED <<current, state, wait_event, queues, task_table, freed,
                 next_pid, sie, node, next, trap, need_reschedule, quantum, rx>>

\* cpu_scheduler_wait_arg up to its call of cpu_scheduler_next.  The process
\* command_exec waits for is the one it created last.
CliWait ==
  /\ \/ At(CliPid, "wait_read") /\ EnterWait("UART_READ", 0)
     \/ At(CliPid, "wait_write") /\ EnterWait("UART_WRITE", 0)
     \/ At(CliPid, "wait_kill") /\ EnterWait("PROCESS_KILL", next_pid - 1)
  /\ Goto(CliPid, "next")
  /\ UNCHANGED <<current, ready_queue, killed_queue, task_table, freed,
                 next_pid, sie, node, next, trap, need_reschedule, quantum,
                 timeouts, rx>>

CliStep ==
  \/ CliGet
  \/ CliCommand
  \/ CliExec
  \/ command_settimeout
  \/ CliWait
  \/ ThreadNext(CliPid, "next")
  \/ switch_to_kernel(CliPid)

-----------------------------------------------------------------------------
(* User processes.  A system call is the first task of the session its     *)
(* trap opens.                                                             *)

Syscall(name) ==
  /\ current \in Processes
  /\ trap = "none"
  /\ name \in Syscalls
  /\ trap' = "session"

SysFork ==
  /\ Syscall("fork")
  /\ next_pid <= MaxPid
  /\ AddTask(next_pid)
  /\ UNCHANGED <<current, wait_event, waiting_queue, killed_queue, freed, sie,
                 pc, node, next, need_reschedule, quantum, timeouts, rx>>

SysExit ==
  /\ Syscall("exit")
  /\ KillInSession(current)
  /\ UNCHANGED <<current, wait_event, task_table, freed, next_pid, sie, pc,
                 node, next, quantum, timeouts, rx>>

\* The stop system call, and the kill system call on a task that has no
\* handler for the signal.
SysStop(pid) ==
  /\ Syscall("stop")
  /\ KillInSession(pid)
  /\ UNCHANGED <<current, wait_event, task_table, freed, next_pid, sie, pc,
                 node, next, quantum, timeouts, rx>>

SysWaitpid(pid) ==
  /\ Syscall("waitpid")
  /\ WaitInSession("PROCESS_KILL", pid)
  /\ UNCHANGED <<current, task_table, freed, next_pid, sie, pc, node, next,
                 quantum, timeouts, rx>>

SysUsleep ==
  /\ Syscall("usleep")
  /\ timeouts' = timeouts \cup {current}
  /\ WaitInSession("TIMEOUT", 0)
  /\ UNCHANGED <<current, task_table, freed, next_pid, sie, pc, node, next,
                 quantum, rx>>

\* uart_read of at least one byte.
SysUartRead ==
  /\ Syscall("uart_read")
  /\ \/ /\ rx > 0
        /\ rx' \in 0..(rx - 1)
        /\ UNCHANGED <<state, wait_event, queues, need_reschedule>>
     \/ /\ rx = 0
        /\ WaitInSession("UART_READ", 0)
        /\ UNCHANGED rx
  /\ UNCHANGED <<current, task_table, freed, next_pid, sie, pc, node, next,
                 quantum, timeouts>>

\* uart_write when the transmit ring is full.
SysUartWrite ==
  /\ Syscall("uart_write")
  /\ WaitInSession("UART_WRITE", 0)
  /\ UNCHANGED <<current, task_table, freed, next_pid, sie, pc, node, next,
                 quantum, timeouts, rx>>

\* task_exec_user on the calling process: it is marked ready although it is
\* running and in no queue.
SysExec ==
  /\ Syscall("exec")
  /\ current \in ExecPids
  /\ state' = [state EXCEPT ![current] = "READY"]
  /\ wait_event' = [wait_event EXCEPT ![current].id = "NONE"]
  /\ UNCHANGED <<current, queues, task_table, freed, next_pid, sie, pc, node,
                 next, need_reschedule, quantum, timeouts, rx>>

\* The system calls, and the outcomes of the ones above, that leave the
\* scheduler alone: getpid, display, signal, sigreturn, mmap, kill of a task
\* that handles the signal, a write with room in the ring, a failed exec.
SysOther ==
  /\ Syscall("other")
  /\ UNCHANGED <<current, state, wait_event, queues, task_table, freed,
                 next_pid, sie, pc, node, next, need_reschedule, quantum,
                 timeouts, rx>>

\* A page fault that cannot be resolved kills the process outside any
\* session, with interrupts off.
PageFault ==
  /\ current \in Processes
  /\ trap = "none"
  /\ "fault" \in Syscalls
  /\ \/ Killable(current) /\ DoKill(current) /\ trap' = "fault"
     \/ ~ Killable(current) /\ UNCHANGED <<state, queues, trap>>
  /\ UNCHANGED <<current, wait_event, task_table, freed, next_pid, sie, pc,
                 node, next, need_reschedule, quantum, timeouts, rx>>

\* The cpu_scheduler_next of that kill.
PageFaultNext ==
  /\ trap = "fault"
  /\ trap' = "none"
  /\ NextInTrap
  /\ UNCHANGED <<wait_event, task_table, freed, next_pid, sie, pc, node, next,
                 need_reschedule, timeouts, rx>>

ProcessStep ==
  \/ SysFork
  \/ SysExit
  \/ \E pid \in Targets : SysStop(pid) \/ SysWaitpid(pid)
  \/ SysUsleep
  \/ SysUartRead
  \/ SysUartWrite
  \/ SysExec
  \/ SysOther
  \/ PageFault

-----------------------------------------------------------------------------
(* Interrupt tasks.  The first one opens a session, those of nested traps  *)
(* join it.                                                                *)

Interruptible == trap = "session" \/ (trap = "none" /\ sie[current])
InterruptTask == Interruptible /\ trap' = "session"

\* The timer task finds a sleep timeout expired.
TimerSleep(pid) ==
  /\ InterruptTask
  /\ pid \in timeouts \ {CliPid}
  /\ timeouts' = timeouts \ {pid}
  /\ fire_timeout(pid)
  /\ UNCHANGED <<current, wait_event, killed_queue, task_table, freed,
                 next_pid, sie, pc, node, next, need_reschedule, quantum, rx>>

\* timeout_func in the timer task, with room in the transmit ring for the
\* message.  Other messages may still be queued.
TimerMessage ==
  /\ InterruptTask
  /\ CliPid \in timeouts
  /\ timeouts' \in {timeouts, timeouts \ {CliPid}}
  /\ UNCHANGED <<current, state, wait_event, queues, task_table, freed,
                 next_pid, sie, pc, node, next, need_reschedule, quantum, rx>>

\* The message waits for room: the timer task will not come to its end.
Stuck == trap = "message"

\* timeout_func without room: its uart_puts calls cpu_scheduler_wait, which
\* marks whatever task the timer interrupted as waiting and links it into the
\* waiting queue, wherever that task stands.  cpu_scheduler_next only asks for
\* another task, since this is a session, and uart_puts tries again.
MessageBlocks ==
  /\ Interruptible
  /\ CliPid \in timeouts
  /\ timeouts' \in {timeouts, timeouts \ {CliPid}}
  /\ trap' = "message"
  /\ wait_event' = [wait_event EXCEPT ![current] = [id |-> "UART_WRITE", arg |-> 0]]
  /\ state' = [state EXCEPT ![current] = "WAITING"]
  /\ waiting_queue' = insert_again(waiting_queue, current)
  /\ ready_queue' = cut_behind(ready_queue, current)
  /\ killed_queue' = cut_behind(killed_queue, current)
  /\ need_reschedule' = TRUE
  /\ UNCHANGED <<current, task_table, freed, next_pid, sie, pc, node, next,
                 quantum, rx>>

\* uart_puts goes on trying.  The interrupt task that would make room, like
\* every other one, is only queued behind the timer task.
MessageLoops ==
  /\ Stuck
  /\ waiting_queue' = insert_again(waiting_queue, current)
  /\ UNCHANGED <<current, state, wait_event, ready_queue, killed_queue,
                 task_table, freed, next_pid, sie, pc, node, next, trap,
                 need_reschedule, quantum, timeouts, rx>>

\* The timer task finds the time slice expired.  A slice lasts 31250 usec
\* and is started just before the switch: it is assumed not to end between
\* interrupts_restore and switch_to_kernel.
TimerQuantum ==
  /\ InterruptTask
  /\ quantum
  /\ next = 0
  /\ quantum' = FALSE
  /\ need_reschedule' = TRUE
  /\ UNCHANGED <<current, state, wait_event, queues, task_table, freed,
                 next_pid, sie, pc, node, next, timeouts, rx>>

\* Faulty variant: nobody is told of the byte.
UartReceiveSilent ==
  /\ InterruptTask
  /\ rx < RxMax
  /\ rx' = rx + 1
  /\ UNCHANGED <<current, state, wait_event, queues, task_table, freed,
                 next_pid, sie, pc, node, next, need_reschedule, quantum,
                 timeouts>>

\* uart_irq_handler receives a byte.
UartReceive ==
  /\ InterruptTask
  /\ rx < RxMax
  /\ rx' = rx + 1
  /\ cpu_scheduler_fire("UART_READ")
  /\ UNCHANGED <<current, wait_event, killed_queue, task_table, freed,
                 next_pid, sie, pc, node, next, need_reschedule, quantum,
                 timeouts>>

\* uart_irq_handler has moved bytes out of the transmit ring.
UartTransmit ==
  /\ InterruptTask
  /\ cpu_scheduler_fire("UART_WRITE")
  /\ UNCHANGED <<current, wait_event, killed_queue, task_table, freed,
                 next_pid, sie, pc, node, next, need_reschedule, quantum,
                 timeouts, rx>>

\* interrupt_handler after its last task.
EndSession ==
  /\ trap = "session"
  /\ trap' = "none"
  /\ need_reschedule' = FALSE
  /\ IF need_reschedule THEN NextInTrap
     ELSE UNCHANGED <<state, queues, quantum, current>>
  /\ UNCHANGED <<wait_event, task_table, freed, next_pid, sie, pc, node, next,
                 timeouts, rx>>

Next ==
  \/ \E t \in {BootPid, IdlePid} : IdleStep(t)
  \/ CliStep
  \/ ProcessStep
  \/ PageFaultNext
  \/ \E pid \in Processes : TimerSleep(pid)
  \/ TimerMessage \/ MessageBlocks \/ MessageLoops
  \/ TimerQuantum
  \/ UartReceive
  \/ UartTransmit
  \/ EndSession

Spec == Init /\ [][Next]_vars

\* The hart keeps executing: a thread on the CPU goes on between the traps
\* it takes, a session comes to its end unless a message is stuck in it: of
\* that session nothing is assumed, it goes round for ever.  The timer interrupt stays pending
\* while interrupts are disabled and is taken once they are enabled.
\* Nothing is assumed of user processes or of the serial line.  The timer trap
\* is assumed not to fall between the last interrupt task of a session and
\* interrupts_disable (see Interrupts, which shows what happens then).
Fairness ==
  /\ \A t \in {BootPid, IdlePid} : SF_vars(IdleStep(t))
  /\ SF_vars(CliStep)
  /\ WF_vars(EndSession)
  /\ WF_vars(PageFaultNext)
  /\ SF_vars(TimerQuantum)
  /\ \A pid \in Processes : SF_vars(TimerSleep(pid))

FairSpec == Spec /\ Fairness

-----------------------------------------------------------------------------
(* Properties.                                                             *)

\* Every task is where its state says it is, once: a ready task in the
\* ready queue, a waiting one in the waiting queue, a killed one in the
\* killed queue until the idle thread takes it, a running one on the CPU or
\* about to be switched to.  A task that is in none of these places would
\* never be scheduled again; one in two of them would be scheduled twice.
\* A message of settimeout that gets stuck ends this: then the task it
\* interrupted, be it the idle thread, is in the waiting queue as well.
NoTaskLost ==
  ~ Stuck =>
    /\ IsInjective(ready_queue)
    /\ IsInjective(waiting_queue)
    /\ IsInjective(killed_queue)
    /\ Range(ready_queue) = {t \in Pids : state[t] = "READY"}
    /\ Range(waiting_queue) = {t \in Pids : state[t] = "WAITING"}
    /\ Range(killed_queue) =
         {t \in Pids : state[t] = "KILLED"} \ (freed \cup {node})
    /\ \A t \in Pids : state[t] = "RUNNING" =>
         IF next = 0 THEN t = current ELSE t = next

\* The tasks marked ready that are in no queue: processes that have called
\* exec and not waited since.
Stranded == {t \in Pids : state[t] = "READY"} \ Range(ready_queue)

\* What the properties below assume of processes that call exec: none of them
\* is killed while it is in no queue, which would empty the ready queue.
StrandedSpared == [][\A t \in Stranded : state'[t] # "KILLED"]_vars

\* Also with exec, as long as StrandedSpared, no task stands in two queues,
\* twice in one, or in one that contradicts its state, until a message of
\* settimeout gets stuck.
QueuedOnce ==
  ~ Stuck =>
    /\ IsInjective(ready_queue)
    /\ IsInjective(waiting_queue)
    /\ \A t \in Range(ready_queue) : state[t] = "READY"
    /\ \A t \in Range(waiting_queue) : state[t] = "WAITING"

\* User code runs only as the running task: a process that has been killed,
\* or has begun to wait, executes none of its own instructions until it is
\* scheduled again.  cpu_scheduler_next returns to its caller when the ready
\* queue is empty, so this rests on the idle thread always being there.
OnlyRunningExecutes ==
  (trap = "none" /\ current \in Processes) => state[current] = "RUNNING"

\* The struct task that task_free gave back is reachable no more: it is not
\* the current task nor the one being switched to, in no queue, and no
\* lookup by pid returns it.
NoUseAfterFree ==
  freed \cap (task_table \cup {current, next, node} \cup Range(ready_queue)
             \cup Range(waiting_queue) \cup Range(killed_queue)) = {}

\* A killed task stays killed: no event that was on its way to it, and no
\* decision of the scheduler, brings it back.  (A message that gets stuck over
\* a process that has just exited marks it as waiting, but it never runs.)
KilledForever ==
  [][\A t \in Tasks : state[t] = "KILLED" => state'[t] = "KILLED" \/ Stuck']_vars

\* When command_exec goes to wait for the end of the process it started,
\* that process has not ended: the wakeup it waits for is still to come.
ExecWaitSound ==
  (state[CliPid] = "WAITING" /\ wait_event[CliPid].id = "PROCESS_KILL") =>
    state[wait_event[CliPid].arg] # "KILLED"

\* No reader sleeps over input that has already arrived, once the command
\* line has read its first character (until then uart_get leaves a window
\* between finding the ring empty and waiting).
NoMissedInput ==
  ~ sie[CliPid] =>
    \A t \in Range(waiting_queue) : wait_event[t].id = "UART_READ" => rx = 0

\* A task leaves the ready queue by being scheduled or killed, and in no
\* other way: killing one task leaves the others runnable.  (Apart from a
\* message that gets stuck, which is another matter.)
ReadyQueueKept ==
  [][\A t \in Range(ready_queue) :
       t \in Range(ready_queue)' \/ state'[t] \in {"RUNNING", "KILLED"} \/ Stuck']_vars

\* No task starves: every task in the ready queue gets the CPU, or is killed
\* first, also while processes call exec.  (By NoTaskLost these are the ready
\* tasks, but for a process that has called exec: it is in no queue, and lost
\* when its time slice ends.)  This and what follows hold unless a message of
\* settimeout gets stuck, after which the hart does nothing else.
ReadyRuns ==
  \A t \in Pids : t \in Range(ready_queue) ~>
                    (state[t] \in {"RUNNING", "KILLED"} \/ Stuck)

\* The idle thread gives back the memory of every killed task.
KilledReaped == \A t \in Pids : state[t] = "KILLED" ~> (t \in freed \/ Stuck)

\* usleep ends, whatever happens to the other tasks.
SleepEnds ==
  \A t \in Pids : (state[t] = "WAITING" /\ wait_event[t].id = "TIMEOUT")
                    ~> (state[t] # "WAITING" \/ Stuck)

\* The life of each task, as the abstract specification sees it.  A process
\* that has called exec goes on running, whatever its state says; a task that a
\* stuck message marks as waiting is what its place says, if it is killed or
\* about to be switched from.
Life == [t \in Pids |->
           IF t \in freed THEN "FREED"
           ELSE IF t \in Range(killed_queue) THEN "KILLED"
           ELSE IF t \in Range(ready_queue) THEN "READY"
           ELSE IF t = current /\ t \in Stranded THEN "RUNNING"
           ELSE state[t]]

\* The scheduler implements TaskLifecycle.
Lifecycle == INSTANCE TaskLifecycle WITH
  Task    <- Pids,
  Initial <- {IdlePid, CliPid},
  life    <- Life

\* Every step of the scheduler is a step of the life of the tasks, or changes
\* no task's stage.
ImplementsLifecycle == Lifecycle!Spec

-----------------------------------------------------------------------------
(* The inductive invariant behind the safety properties, with exec.        *)

\* What NoTaskLost says, but for the processes that are stranded.
QueueInv ==
  /\ IsInjective(ready_queue)
  /\ IsInjective(waiting_queue)
  /\ IsInjective(killed_queue)
  /\ Range(ready_queue) \subseteq {t \in Pids : state[t] = "READY"}
  /\ Stranded \subseteq Processes
  /\ Range(waiting_queue) = {t \in Pids : state[t] = "WAITING"}
  /\ Range(killed_queue) =
       {t \in Pids : state[t] = "KILLED"} \ (freed \cup {node})
  /\ \A t \in Pids : state[t] = "RUNNING" =>
       IF next = 0 THEN t = current ELSE t = next

\* The bootstrap task runs first, with interrupts off, and never again.
BootInv ==
  /\ state[BootPid] = "KILLED"
  /\ sie[BootPid] = FALSE
  /\ pc[BootPid] \in {"reap", "yield", "switch"}
  /\ current = BootPid => killed_queue = << >> /\ node = 0 /\ trap = "none"

\* Only the thread on the CPU stands between the decision and the switch.
SwitchInv ==
  /\ \A t \in KThreads : pc[t] = "switch" <=> (t = current /\ next # 0)
  /\ next # 0 => /\ current \in KThreads
                 /\ state[next] = "RUNNING"
                 /\ need_reschedule = FALSE

\* The task on the CPU is the running one, except where it has just been
\* taken off the CPU and the switch is still to come, or has called exec.
CurrentInv ==
  /\ need_reschedule => trap = "session"
  /\ trap = "fault" => current \in Processes
  /\ (next = 0 /\ current = IdlePid) => state[IdlePid] = "RUNNING"
  /\ (current = CliPid /\ pc[CliPid] \notin {"next", "switch"}) =>
       state[CliPid] = "RUNNING"
  /\ current \in Processes =>
       \/ state[current] = "RUNNING"
       \/ current \in Stranded
       \/ trap = "session" /\ need_reschedule
       \/ trap = "fault"

\* The idle thread never waits and is never killed.
IdleInv ==
  /\ pc[IdlePid] \in IdleLabels
  /\ state[IdlePid] \in {"READY", "RUNNING"}

\* The table holds the tasks created and not yet on their way to be freed.
TableInv ==
  /\ \A t \in Pids : t < next_pid <=> state[t] # "NONE"
  /\ next_pid > CliPid
  /\ \A t \in freed : state[t] = "KILLED"
  /\ node # 0 => state[node] = "KILLED" /\ node \notin freed
  /\ node # 0 <=> pc[IdlePid] \in {"unlist", "free"}
  /\ task_table = {t \in Pids : state[t] # "NONE"}
                    \ (freed \cup IF pc[IdlePid] = "free" THEN {node} ELSE {})
  /\ current \notin freed
  /\ current < next_pid
  /\ node # 0 => current # node

\* The command line runs its commands with interrupts off, so that no message
\* is there before that.
CliInv ==
  /\ pc[CliPid] \in CliLabels
  /\ sie[CliPid] => next_pid = CliPid + 1 /\ wait_event[CliPid].id \in {"NONE", "UART_READ"}
  /\ pc[CliPid] \in {"prompt", "command", "wait_write", "wait_kill"} => ~ sie[CliPid]
  /\ CliPid \in timeouts => ~ sie[CliPid]
  /\ (current = CliPid /\ ~ sie[CliPid]) => trap = "none"
  /\ pc[CliPid] = "wait_kill" =>
       /\ current = CliPid
       /\ next_pid - 1 \in Processes
       /\ state[next_pid - 1] = "READY"
  /\ (pc[CliPid] = "wait_read" /\ ~ sie[CliPid]) => current = CliPid /\ rx = 0

\* What holds as long as no message is stuck.
SchedInv ==
  /\ TypeOK
  /\ QueueInv
  /\ BootInv
  /\ SwitchInv
  /\ CurrentInv
  /\ IdleInv
  /\ TableInv
  /\ CliInv
  /\ ExecWaitSound
  /\ NoMissedInput

\* A message gets stuck over any task but the command line, which has run with
\* interrupts off since before there were messages.  What its insertions do to
\* the queues makes nothing reachable that was not.
IInv ==
  /\ TypeOK
  /\ ExecWaitSound
  /\ NoMissedInput
  /\ NoUseAfterFree
  /\ Stuck => current \in Range(waiting_queue)
  /\ Stuck \/ SchedInv

=============================================================================
