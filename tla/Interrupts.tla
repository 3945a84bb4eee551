----------------------------- MODULE Interrupts -----------------------------
(***************************************************************************)
(* Traps and what they lead to: interrupt_handler with its queue of        *)
(* interrupt tasks, the timeouts behind the one hardware timer, and the    *)
(* claim and completion of the UART interrupt at the PLIC.                 *)
(*                                                                         *)
(* A trap taken while another one is being handled (a nested trap) only    *)
(* queues its task, with interrupts off, and so is one step.  The tasks    *)
(* themselves run with interrupts on.  Time is relative: a timeout is left *)
(* its remaining ticks, and so is the timer; a timeout with none left is   *)
(* due.                                                                    *)
(***************************************************************************)
EXTENDS Queues, Integers, FiniteSets

CONSTANTS
  BufferSize,    \* TASKS_BUFFER_SIZE
  MaxTicks,      \* the longest timeout
  Slice,         \* ticks of time_quantum
  MaxBurst,      \* UART requests before the interrupt tasks are all done
  Ids            \* identities of timeouts, enough for those alive at a time

ASSUME BufferAssumption == BufferSize \in Nat \ {0}
ASSUME TicksAssumption == MaxTicks \in Nat /\ Slice \in 0..MaxTicks
ASSUME BurstAssumption == MaxBurst \in Nat
ASSUME IdsAssumption == 0 \notin Ids

VARIABLES
  pc,                 \* what the hart is executing
  tasks_buffer,       \* the handler in each slot, "done" once it is called
  tasks_buffer_head,
  tasks_queue,        \* slots, in the order they will be executed
  timeout_queue,
  timer,              \* ticks until the timer interrupt is pending, or Far
  due,                \* ids whose time had come when the handler read the clock
  timeout_id,         \* the timeout of the current time slice
  need_reschedule,
  irq,                \* the UART asks for attention
  burst,              \* how often it did since the task queue was last empty
  claimed             \* the PLIC has handed its interrupt out

intr == <<tasks_buffer, tasks_buffer_head, tasks_queue>>
vars == <<pc, intr, timeout_queue, timer, due, timeout_id, need_reschedule,
          irq, burst, claimed>>

Handlers == {"syscall", "external", "timer"}
Slots    == 0..(BufferSize - 1)

\* What a timeout calls back: the wakeup of a sleeping task, the end of a time
\* slice, or the timeout_func of settimeout.
Callbacks == {"fire", "reschedule", "message"}
Timeouts  == [id : Ids, left : 0..MaxTicks, callback : Callbacks]

\* Far in the future, where timeouts_postpone sets the timer.
Far == MaxTicks + 1

\* "run": no trap is being handled.  "loop": interrupt_handler is about to
\* call interrupt_tasks_execute.  "leave": that call has returned 0 and
\* interrupts are still on.  "message": timeout_func waits, inside the timer
\* task, for room in the transmit ring.
Labels == {"run", "loop", "leave", "expire", "message"} \cup Handlers

TypeOK ==
  /\ pc \in Labels
  /\ tasks_buffer \in [Slots -> Handlers \cup {"done"}]
  /\ tasks_buffer_head \in Slots
  /\ tasks_queue \in Seq(Slots)
  /\ timeout_queue \in Seq(Timeouts)
  /\ timer \in 0..Far
  /\ due \in SUBSET Ids
  /\ timeout_id \in Ids \cup {0}
  /\ need_reschedule \in BOOLEAN
  /\ irq \in BOOLEAN
  /\ burst \in 0..MaxBurst
  /\ claimed \in BOOLEAN

Init ==
  /\ pc = "run"
  /\ tasks_buffer = [s \in Slots |-> "done"]
  /\ tasks_buffer_head = 0
  /\ tasks_queue = << >>
  /\ timeout_queue = << >>
  /\ timer = Far
  /\ due = {}
  /\ timeout_id = 0
  /\ need_reschedule = FALSE
  /\ irq = FALSE
  /\ burst = 0
  /\ claimed = FALSE

-----------------------------------------------------------------------------
(* The two sorted lists.                                                   *)

\* A walk from the head that stops at the first of the positions stops, x
\* being inserted there.
InsertSorted(list, x, stops) ==
  LET i == IF stops = {} THEN Len(list) + 1
           ELSE CHOOSE k \in stops : \A m \in stops : k <= m
  IN  SubSeq(list, 1, i - 1) \o <<x>> \o SubSeq(list, i, Len(list))

priority(handler) == IF handler = "timer" THEN 200 ELSE 1

interrupt_tasks_add(handler) ==
  /\ tasks_buffer' = [tasks_buffer EXCEPT ![tasks_buffer_head] = handler]
  /\ tasks_buffer_head' = (tasks_buffer_head + 1) % BufferSize
  /\ tasks_queue' = InsertSorted(tasks_queue, tasks_buffer_head,
       {i \in DOMAIN tasks_queue :
          priority(handler) < priority(tasks_buffer'[tasks_queue[i]])})

\* Faulty variant: of two timeouts the later one comes first.
_insert_to_timeouts_queue_late(entries, entry) ==
  InsertSorted(entries, entry,
               {i \in DOMAIN entries : entry.left > entries[i].left})

_insert_to_timeouts_queue(entries, entry) ==
  InsertSorted(entries, entry,
               {i \in DOMAIN entries : entry.left < entries[i].left})

\* The timer is set to the first timeout, or postponed when there is none.
_set_next_timeout(entries) ==
  timer' = IF entries = << >> THEN Far ELSE Head(entries).left

IdsOf(entries) == {e.id : e \in Range(entries)}

Without(entries, id) == Keep(entries, {e \in Range(entries) : e.id # id})

\* The identities the next timeout may get.
Fresh == Ids \ (IdsOf(timeout_queue) \cup {timeout_id})

\* set_timeout of a sleep or a message, and its effect on the timer.
set_timeout(id, ticks, callback) ==
  /\ timeout_queue' = _insert_to_timeouts_queue(timeout_queue,
                        [id |-> id, left |-> ticks, callback |-> callback])
  /\ _set_next_timeout(timeout_queue')

\* Faulty variant: the timeout of the old time slice is not cleared.
new_slice_uncleared ==
  \E id \in Fresh :
    /\ timeout_queue' = _insert_to_timeouts_queue(timeout_queue,
                          [id |-> id, left |-> Slice, callback |-> "reschedule"])
    /\ _set_next_timeout(timeout_queue')
    /\ timeout_id' = id

\* cpu_scheduler_next when another task is ready: clear_timeout of the old
\* time slice and set_timeout of the new one.
new_slice ==
  \E id \in Fresh :
    /\ timeout_queue' =
         _insert_to_timeouts_queue(Without(timeout_queue, timeout_id),
           [id |-> id, left |-> Slice, callback |-> "reschedule"])
    /\ _set_next_timeout(timeout_queue')
    /\ timeout_id' = id

-----------------------------------------------------------------------------
(* Traps.                                                                  *)

\* A trap is taken from the interrupted program, or while tasks are executed
\* with interrupts on; only the first opens a session.
Enter == pc' = IF pc = "run" THEN "loop" ELSE pc

\* Faulty variant: the timer is not postponed and its interrupt stays pending.
TimerTrapPending ==
  /\ timer = 0
  /\ interrupt_tasks_add("timer")
  /\ Enter
  /\ UNCHANGED <<timer, timeout_queue, due, timeout_id, need_reschedule, irq, burst,
                 claimed>>

TimerTrap ==
  /\ timer = 0
  /\ timer' = Far
  /\ interrupt_tasks_add("timer")
  /\ Enter
  /\ UNCHANGED <<timeout_queue, due, timeout_id, need_reschedule, irq, burst, claimed>>

ExternalTrap ==
  /\ irq
  /\ ~ claimed
  /\ claimed' = TRUE
  /\ interrupt_tasks_add("external")
  /\ Enter
  /\ UNCHANGED <<timeout_queue, timer, due, timeout_id, need_reschedule, irq,
                 burst>>

SyscallTrap ==
  /\ pc = "run"
  /\ interrupt_tasks_add("syscall")
  /\ Enter
  /\ UNCHANGED <<timeout_queue, timer, due, timeout_id, need_reschedule, irq, burst,
                 claimed>>

-----------------------------------------------------------------------------
(* A session: interrupt_handler from interrupts_enable on.                 *)

interrupt_tasks_execute ==
  /\ pc = "loop"
  /\ \/ /\ tasks_queue = << >>
        /\ pc' = "leave"
        /\ burst' = 0
        /\ UNCHANGED <<tasks_queue, tasks_buffer>>
     \/ /\ tasks_queue # << >>
        /\ tasks_queue' = linked_list_remove(tasks_queue, Head(tasks_queue))
        /\ tasks_buffer' = [tasks_buffer EXCEPT ![Head(tasks_queue)] = "done"]
        /\ pc' = tasks_buffer[Head(tasks_queue)]
        /\ UNCHANGED burst
  /\ UNCHANGED <<tasks_buffer_head, timeout_queue, timer, due, timeout_id,
                 need_reschedule, irq, claimed>>

\* A system call sleeps, or waits or exits, or returns at once.
syscall_handler ==
  /\ pc = "syscall"
  /\ pc' = "loop"
  /\ \/ /\ \E id \in Fresh, ticks \in 0..MaxTicks : set_timeout(id, ticks, "fire")
        /\ need_reschedule' = TRUE
     \/ /\ need_reschedule' \in {TRUE, need_reschedule}
        /\ UNCHANGED <<timeout_queue, timer>>
  /\ UNCHANGED <<intr, due, timeout_id, irq, burst, claimed>>

\* Faulty variant: the interrupt is handled but never completed.
_interrupt_external_handler_keep ==
  /\ pc = "external"
  /\ pc' = "loop"
  /\ irq' = FALSE
  /\ UNCHANGED <<intr, timeout_queue, timer, due, timeout_id, need_reschedule,
                 burst, claimed>>

\* uart_irq_handler serves the device until it asks for nothing more.
_interrupt_external_handler ==
  /\ pc = "external"
  /\ pc' = "loop"
  /\ irq' = FALSE
  /\ claimed' = FALSE
  /\ UNCHANGED <<intr, timeout_queue, timer, due, timeout_id, need_reschedule,
                 burst>>

\* timeouts_interrupt_handler reads the clock ...
TimerRead ==
  /\ pc = "timer"
  /\ pc' = "expire"
  /\ due' = {e.id : e \in {x \in Range(timeout_queue) : x.left = 0}}
  /\ UNCHANGED <<intr, timeout_queue, timer, timeout_id, need_reschedule, irq, burst,
                 claimed>>

HeadDue == timeout_queue # << >> /\ Head(timeout_queue).id \in due

\* ... calls back the timeouts whose time had come by then, each being taken
\* off the queue first.  A message that finds the transmit ring full asks for
\* another task, as if the timer task could wait ...
TimerExpire ==
  /\ pc = "expire"
  /\ HeadDue
  /\ timeout_queue' = Tail(timeout_queue)
  /\ \/ /\ pc' = pc
        /\ need_reschedule' =
             (need_reschedule \/ Head(timeout_queue).callback = "reschedule")
     \/ /\ Head(timeout_queue).callback = "message"
        /\ pc' = "message"
        /\ need_reschedule' = TRUE
  /\ UNCHANGED <<intr, timer, due, timeout_id, irq, burst, claimed>>

\* ... and tries again, for ever: the interrupt that makes room is claimed by a
\* nested trap, and its task queued behind the one that tries ...
MessageLoops ==
  /\ pc = "message"
  /\ UNCHANGED vars

\* Faulty variant: the timer is left postponed.
TimerDoneUnarmed ==
  /\ pc = "expire"
  /\ ~ HeadDue
  /\ pc' = "loop"
  /\ due' = {}
  /\ UNCHANGED <<intr, timer, timeout_queue, timeout_id, need_reschedule, irq, burst,
                 claimed>>

\* ... and sets the timer again.
TimerDone ==
  /\ pc = "expire"
  /\ ~ HeadDue
  /\ _set_next_timeout(timeout_queue)
  /\ pc' = "loop"
  /\ due' = {}
  /\ UNCHANGED <<intr, timeout_queue, timeout_id, need_reschedule, irq, burst, claimed>>

\* interrupts_disable and the rest of interrupt_handler.  The second case of
\* a reschedule is an empty ready queue.
Leave ==
  /\ pc = "leave"
  /\ pc' = "run"
  /\ need_reschedule' = FALSE
  /\ \/ need_reschedule /\ new_slice
     \/ UNCHANGED <<timeout_queue, timer, timeout_id>>
  /\ UNCHANGED <<intr, due, irq, burst, claimed>>

\* cpu_scheduler_next of a kernel thread.
Yield ==
  /\ pc = "run"
  /\ new_slice
  /\ UNCHANGED <<pc, intr, due, need_reschedule, irq, burst, claimed>>

\* The settimeout command of the command line thread.
command_settimeout ==
  /\ pc = "run"
  /\ \E id \in Fresh, ticks \in 0..MaxTicks : set_timeout(id, ticks, "message")
  /\ UNCHANGED <<pc, intr, due, timeout_id, need_reschedule, irq, burst, claimed>>

Session ==
  \/ interrupt_tasks_execute
  \/ syscall_handler
  \/ _interrupt_external_handler
  \/ TimerRead
  \/ TimerExpire
  \/ MessageLoops
  \/ TimerDone
  \/ Leave

-----------------------------------------------------------------------------
(* The world: time passes, the UART has something to say.                  *)

Tick ==
  /\ timer \in 1..MaxTicks \/ \E e \in Range(timeout_queue) : e.left > 0
  /\ timer' = IF timer \in 1..MaxTicks THEN timer - 1 ELSE timer
  /\ timeout_queue' = [i \in DOMAIN timeout_queue |->
       [timeout_queue[i] EXCEPT !.left = IF @ > 0 THEN @ - 1 ELSE 0]]
  /\ UNCHANGED <<pc, intr, due, timeout_id, need_reschedule, irq, burst, claimed>>

UartRequest ==
  /\ ~ irq
  /\ burst < MaxBurst
  /\ irq' = TRUE
  /\ burst' = burst + 1
  /\ UNCHANGED <<pc, intr, timeout_queue, timer, due, timeout_id,
                 need_reschedule, claimed>>

Next ==
  \/ TimerTrap
  \/ ExternalTrap
  \/ SyscallTrap
  \/ Session
  \/ Yield
  \/ command_settimeout
  \/ Tick
  \/ UartRequest

Spec == Init /\ [][Next]_vars

\* Time passes, the hart executes the session it is in, which comes to no end
\* when a message is stuck in it, and a pending interrupt is taken: interrupts
\* are on in the programs and in a session.
Fairness ==
  /\ WF_vars(Tick)
  /\ WF_vars(Session)
  /\ WF_vars(TimerTrap)
  /\ WF_vars(ExternalTrap)

FairSpec == Spec /\ Fairness

\* The same with programs that keep making system calls.
CallingSpec == FairSpec /\ SF_vars(SyscallTrap)

-----------------------------------------------------------------------------
(* Properties.                                                             *)

Pending(handler) == {s \in Range(tasks_queue) : tasks_buffer[s] = handler}

\* No pending interrupt task is overwritten by a later one, although
\* interrupt_tasks_add reuses the slots of its buffer without looking: the
\* slot it takes next is free.
TasksIntact ==
  /\ TypeOK
  /\ IsInjective(tasks_queue)
  /\ tasks_buffer_head \notin Range(tasks_queue)

\* Every timeout that is set will make the timer fire in time, whatever
\* sequence of set_timeout, clear_timeout and nested timer traps came before:
\* the timer is set no later than the first timeout, or the timer task is
\* still to run, or at it (if with a message, it stays there).
TimerArmed ==
  timeout_queue # << >> =>
    \/ timer <= Head(timeout_queue).left
    \/ Pending("timer") # {}
    \/ pc \in {"timer", "expire", "message"}

\* Timeouts are called back in the order of their target times, and a system
\* call or a device never waits behind the timer task, whatever was set,
\* cleared and queued in between.
QueuesOrdered ==
  /\ \A i, j \in DOMAIN timeout_queue :
       i < j => timeout_queue[i].left <= timeout_queue[j].left
  /\ \A i, j \in DOMAIN tasks_queue :
       i < j => priority(tasks_buffer[tasks_queue[i]])
                  <= priority(tasks_buffer[tasks_queue[j]])

\* An interrupt handed out by the PLIC is being taken care of by exactly one
\* task: it is neither forgotten nor completed twice.
ClaimHeld ==
  claimed <=> (pc = "external" \/ Pending("external") # {})

\* There is one time slice at a time: cpu_scheduler_next clears the timeout
\* of the old slice through timeout_id, so that it never cuts the new one
\* short, even when it has expired already or waits for a timer task.
OneSlice ==
  \A e \in Range(timeout_queue) :
    e.callback = "reschedule" => e.id = timeout_id

\* The hart is in a callback that does not return: no task of this session or
\* of a later one will be executed.
Stuck == pc = "message"

\* An expired timeout is called back, unless a message gets stuck before it.
TimeoutFires ==
  \A id \in Ids :
    (\E e \in Range(timeout_queue) : e.id = id /\ e.left = 0) ~>
      (id \notin IdsOf(timeout_queue) \/ Stuck)

\* The UART is served, unless a message gets stuck.
UartServed == irq ~> (~ irq \/ Stuck)

\* settimeout prints its message: the timeout is called back, and the callback
\* comes to its end.
MessagePrinted ==
  \A id \in Ids :
    (\E e \in Range(timeout_queue) : e.id = id /\ e.callback = "message") ~>
      (id \notin IdsOf(timeout_queue) /\ ~ Stuck)

=============================================================================
