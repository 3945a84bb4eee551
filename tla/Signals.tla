------------------------------ MODULE Signals ------------------------------
(***************************************************************************)
(* Signals (task/task_signal.c, the end of interrupt_handler and the       *)
(* system calls signal, kill and sigreturn) composed with the scheduler.   *)
(*                                                                         *)
(* A signal is delivered where a process leaves the trap it is in: at the  *)
(* end of a session, or when cpu_scheduler_next returns to it after other  *)
(* tasks have run.  The trapframe is saved on the process's signal stack,  *)
(* user memory of which signal_sp is the kernel's record, and sigreturn    *)
(* brings it back.  A trapframe is abstracted to the code it resumes, the  *)
(* program (0) or the handler of a signal, its tp register, which          *)
(* get_current_task and the entry of the next trap rely on, and whether    *)
(* the stack that code runs on is as the code left it.                     *)
(***************************************************************************)
EXTENDS CpuScheduler, SequencesExt

CONSTANTS
  Signums,        \* the signal numbers in use
  Registrations,  \* bound: the sequences of signals a process handles
  StackFrames,    \* SIGNAL_STACK_SIZE \div sizeof(struct trapframe)
  SignalPids,     \* the processes that call signal
  ChildReturns    \* children forked inside a handler return from it

ASSUME SignalAssumption ==
  /\ Signums \subseteq Nat \ {0}
  /\ Registrations \subseteq Seq(Signums)
  /\ StackFrames \in Nat
  /\ SignalPids \subseteq Processes
  /\ ChildReturns \in BOOLEAN

VARIABLES
  signals,       \* task.signals_list, in order of registration
  signal_sp,     \* trapframes between task.signal_sp and the top of the stack
  signal_stack,  \* the trapframes in its memory, from the top
  context,       \* the trapframe each process returns to
  interrupted,   \* history: what the active handlers interrupted
  fresh,         \* processes whose thread will start in switch_to_user
  delivering     \* the hart is at the _signal_handler of its trap

sigvars == <<signals, signal_sp, signal_stack, context, interrupted>>
svars == <<vars, sigvars, fresh, delivering>>

Codes    == {0} \cup Signums
Contexts == [code : Codes, tp : Tasks, stack : {"kept", "lost"}]

\* What a context goes on with, whatever has become of its stack.
Resumes(c) == [code |-> c.code, tp |-> c.tp]

\* The trapframe of task_exec_user.
Program(t) == [code |-> 0, tp |-> t, stack |-> "kept"]

\* A signal stack whose contents do not matter: what lies below signal_sp is
\* the stack handlers run on.
Unused(t) == [i \in 1..StackFrames |-> Program(t)]

SInit ==
  /\ Init
  /\ signals = [t \in Processes |-> << >>]
  /\ signal_sp = [t \in Processes |-> 0]
  /\ signal_stack = [t \in Processes |-> Unused(t)]
  /\ context = [t \in Processes |-> Program(t)]
  /\ interrupted = [t \in Processes |-> << >>]
  /\ fresh = {}
  /\ delivering = FALSE

-----------------------------------------------------------------------------
(* The signals of a task.                                                  *)

Handled(t) == [i \in DOMAIN signals[t] |-> signals[t][i].signum]

\* The registrations task_get_signal looks at; it returns the first.
Registered(t, signum) ==
  IF t \in Processes THEN {i \in DOMAIN signals[t] : signals[t][i].signum = signum}
  ELSE {}

\* The signals task_get_next_pending_signal looks for; it returns the first.
Pending(t) == {i \in DOMAIN signals[t] : signals[t][i].is_pending}

FirstIn(S) == CHOOSE i \in S : \A j \in S : i <= j

\* Steps of the scheduler that signals have no part in.
Quiet == ~ delivering /\ UNCHANGED <<sigvars, fresh, delivering>>

\* Steps after which a task runs on: a process that comes out of its trap
\* passes through _signal_handler, one that starts does not.
Return ==
  /\ ~ delivering
  /\ delivering' = (current' \in Processes \ fresh)
  /\ fresh' = fresh \ {current'}
  /\ UNCHANGED sigvars

\* task_exec_user: the signals are freed, task_create_user_mappings sets
\* signal_sp, the trapframe is that of a new program.
Forget(t) ==
  /\ signals' = [signals EXCEPT ![t] = << >>]
  /\ signal_sp' = [signal_sp EXCEPT ![t] = 0]
  /\ context' = [context EXCEPT ![t] = Program(t)]
  /\ signal_stack' = [signal_stack EXCEPT ![t] = Unused(t)]
  /\ interrupted' = [interrupted EXCEPT ![t] = << >>]

-----------------------------------------------------------------------------
(* System calls.                                                           *)

\* signal: task_register_signal appends, whatever is registered already.
SysSignal(signum) ==
  /\ SysOther
  /\ ~ delivering
  /\ current \in SignalPids
  /\ Append(Handled(current), signum) \in Registrations
  /\ signals' = [signals EXCEPT ![current] =
                   Append(@, [signum |-> signum, is_pending |-> FALSE])]
  /\ UNCHANGED <<signal_sp, signal_stack, context, interrupted, fresh, delivering>>

\* kill: a task that handles the signal has it marked, once, whatever the
\* task is doing; another one is killed.
SysKill(pid, signum) ==
  LET registered == Registered(pid, signum)
  IN  /\ ~ delivering
      /\ \/ /\ pid \in task_table /\ registered # {}
            /\ SysOther
            /\ signals' = [signals EXCEPT ![pid][FirstIn(registered)].is_pending = TRUE]
         \/ /\ pid \in task_table /\ registered = {}
            /\ SysStop(pid)
            /\ UNCHANGED signals
         \/ pid \notin task_table /\ SysOther /\ UNCHANGED signals
      /\ UNCHANGED <<signal_sp, signal_stack, context, interrupted, fresh, delivering>>

\* Faulty variant: the frame restored stays on the stack.
SysSigreturnKeep ==
  /\ SysOther
  /\ ~ delivering
  /\ signal_sp[current] > 0
  /\ LET frame == signal_stack[current][signal_sp[current]]
     IN  /\ frame.tp = current \/ ChildReturns
         /\ context' = [context EXCEPT ![current] = frame]
  /\ interrupted' = [interrupted EXCEPT ![current] = Front(@)]
  /\ UNCHANGED <<signals, signal_sp, signal_stack, fresh, delivering>>

\* sigreturn, which only the trampoline calls: a handler is active.
SysSigreturn ==
  /\ SysOther
  /\ ~ delivering
  /\ signal_sp[current] > 0
  /\ LET frame == signal_stack[current][signal_sp[current]]
     IN  /\ frame.tp = current \/ ChildReturns
         /\ context' = [context EXCEPT ![current] = frame]
  /\ signal_sp' = [signal_sp EXCEPT ![current] = @ - 1]
  /\ signal_stack' = [signal_stack EXCEPT
                        ![current][signal_sp[current]] = Program(current)]
  /\ interrupted' = [interrupted EXCEPT ![current] = Front(@)]
  /\ UNCHANGED <<signals, fresh, delivering>>

\* Faulty variant: the child's trapframe is the parent's as it is.
ChildContextCopied(child) == context[current]

\* task_copy sets tp in the child's trapframe, not in those saved on its stack.
ChildContext(child) == [context[current] EXCEPT !.tp = child]

\* fork: the child has the parent's handlers, pending signals and signal stack.
SysForkSignals ==
  LET child == next_pid
  IN  /\ SysFork
      /\ ~ delivering
      /\ signals' = [signals EXCEPT ![child] = signals[current]]
      /\ signal_sp' = [signal_sp EXCEPT ![child] = signal_sp[current]]
      /\ signal_stack' = [signal_stack EXCEPT ![child] = signal_stack[current]]
      /\ context' = [context EXCEPT ![child] = ChildContext(child)]
      /\ interrupted' = [interrupted EXCEPT ![child] = interrupted[current]]
      /\ fresh' = fresh \cup {child}
      /\ UNCHANGED delivering

\* exec by a process.
SysExecSignals ==
  /\ SysExec
  /\ ~ delivering
  /\ Forget(current)
  /\ UNCHANGED <<fresh, delivering>>

\* The process command_exec creates.
CliExecSignals ==
  /\ CliExec
  /\ ~ delivering
  /\ Forget(next_pid)
  /\ fresh' = fresh \cup {next_pid}
  /\ UNCHANGED delivering

-----------------------------------------------------------------------------
(* Delivery.                                                               *)

\* Faulty variant: one delivery clears every pending signal.
ClearedAll(t, i) == [j \in DOMAIN signals[t] |->
                       [signals[t][j] EXCEPT !.is_pending = FALSE]]

\* Faulty variant: the signal delivered stays pending.
ClearedNone(t, i) == signals[t]

\* The signals of t once its signal i has been delivered.
Cleared(t, i) == [signals[t] EXCEPT ![i].is_pending = FALSE]

\* The context of t as the sigreturn of a handler entered now will find it.  A
\* program has a stack of its own.  A handler runs on the signal stack, from
\* signal_sp down, and that is where the next frame is copied and the next
\* handler runs: its registers come back, its stack does not.
Saved(t) == [context[t] EXCEPT !.stack = IF context[t].code = 0 THEN @ ELSE "lost"]

\* _signal_handler: one signal per trap, the one registered first.  Where the
\* stack is full the copy faults, with interrupts off and outside a session,
\* and the process is killed on the spot.
_signal_handler ==
  LET t == current
      i == FirstIn(Pending(t))
      frame == signal_sp[t] + 1
  IN  /\ delivering
      /\ delivering' = FALSE
      /\ \/ /\ Pending(t) = {}
            /\ UNCHANGED <<state, queues, trap, sigvars>>
         \/ /\ Pending(t) # {}
            /\ signals' = [signals EXCEPT ![t] = Cleared(t, i)]
            /\ signal_sp' = [signal_sp EXCEPT ![t] = frame]
            /\ \/ /\ frame <= StackFrames
                  /\ signal_stack' = [signal_stack EXCEPT ![t][frame] = Saved(t)]
                  /\ interrupted' = [interrupted EXCEPT ![t] = Append(@, Resumes(context[t]))]
                  /\ context' = [context EXCEPT ![t].code = signals[t][i].signum,
                                                ![t].stack = "kept"]
                  /\ UNCHANGED <<state, queues, trap>>
               \/ /\ frame > StackFrames
                  /\ DoKill(t)
                  /\ trap' = "fault"
                  /\ UNCHANGED <<signal_stack, context, interrupted>>
      /\ UNCHANGED <<current, wait_event, task_table, freed, next_pid, sie, pc,
                     node, next, need_reschedule, quantum, timeouts, rx, fresh>>

-----------------------------------------------------------------------------
(* The system.                                                             *)

SIdle(t) ==
  \/ Quiet /\ (IdleReap(t) \/ IdleUnlist(t) \/ IdleFree(t) \/ ThreadNext(t, "yield"))
  \/ switch_to_kernel(t) /\ Return

SCli ==
  \/ Quiet /\ (\/ CliGet \/ CliCommand \/ command_settimeout \/ CliWait
            \/ ThreadNext(CliPid, "next"))
  \/ switch_to_kernel(CliPid) /\ Return
  \/ CliExecSignals

SProcess ==
  \/ SysForkSignals
  \/ SysExecSignals
  \/ SysSigreturn
  \/ \E signum \in Signums : SysSignal(signum)
  \/ \E pid \in Targets, signum \in Signums : SysKill(pid, signum)

SEndSession    == EndSession /\ Return
SPageFaultNext == PageFaultNext /\ Return
STimerQuantum  == Quiet /\ TimerQuantum
STimerSleep(pid) == Quiet /\ TimerSleep(pid)

\* Steps of the scheduler and its callers that are as without signals.
SUnchanged ==
  Quiet /\ \/ SysOther \/ SysExit \/ SysUsleep \/ SysUartRead \/ SysUartWrite
           \/ \E pid \in Targets : SysWaitpid(pid)
           \/ PageFault
           \/ TimerQuantum
           \/ \E pid \in Processes : TimerSleep(pid)
           \/ TimerMessage \/ MessageBlocks \/ MessageLoops
           \/ UartReceive \/ UartTransmit

SNext ==
  \/ \E t \in {BootPid, IdlePid} : SIdle(t)
  \/ SCli
  \/ SProcess
  \/ _signal_handler
  \/ SEndSession
  \/ SPageFaultNext
  \/ SUnchanged

SSpec == SInit /\ [][SNext]_svars

\* The fairness of CpuScheduler, for the same reasons; only processes sleep.
SFairness ==
  /\ \A t \in {BootPid, IdlePid} : SF_svars(SIdle(t))
  /\ SF_svars(SCli)
  /\ WF_svars(_signal_handler)
  /\ WF_svars(SEndSession)
  /\ WF_svars(SPageFaultNext)
  /\ SF_svars(STimerQuantum)
  /\ \A pid \in Processes : SF_svars(STimerSleep(pid))

SFairSpec == SSpec /\ SFairness

-----------------------------------------------------------------------------
(* Properties.                                                             *)

STypeOK ==
  /\ TypeOK
  /\ \A t \in Processes :
       /\ signals[t] \in Seq([signum : Signums, is_pending : BOOLEAN])
       /\ signal_sp[t] \in 0..(StackFrames + 1)
       /\ signal_stack[t] \in [1..StackFrames -> Contexts]
       /\ context[t] \in Contexts
       /\ interrupted[t] \in Seq([code : Codes, tp : Tasks])
  /\ fresh \subseteq Processes
  /\ delivering \in BOOLEAN

\* The signal stack of a process holds a frame for each of its active handlers,
\* innermost last, so that each sigreturn resumes the code that handler
\* interrupted: through nested signals, in the child of a process that forks
\* inside a handler, and after an exec inside one.  The program, which the
\* outermost handler interrupted, is resumed exactly as it was; a handler that
\* was itself interrupted is resumed at its registers, over a stack that is lost.
FramesIntact ==
  /\ STypeOK
  /\ ~ Stuck => \A t \in task_table \cap Processes : state[t] # "KILLED" =>
       /\ signal_sp[t] = Len(interrupted[t])
       /\ \A i \in 1..signal_sp[t] :
            LET frame == signal_stack[t][i]
                was   == interrupted[t][i]
            IN  /\ Resumes(frame) = was
                /\ was.code = 0 <=> i = 1
                /\ frame.stack = IF i = 1 THEN "kept" ELSE "lost"

\* A process returns to user mode as itself, also as a child that has been
\* forked inside a handler, as long as it does not return from that handler.
RunsAsItself == \A t \in Processes : context[t].tp = t

\* A pending signal stays pending until its own handler is entered, over
\* the context that was interrupted; otherwise only exec or the end of the
\* process drops it.  Another signal, or another process, does not.
SignalKept ==
  [][\A t \in Processes : \A i \in Pending(t) :
       \/ i \in DOMAIN signals'[t] /\ signals'[t][i].is_pending
       \/ /\ interrupted'[t] = Append(interrupted[t], Resumes(context[t]))
          /\ context'[t].code = signals[t][i].signum
       \/ signals'[t] = << >>
       \/ state'[t] = "KILLED"]_svars

\* A signal marked pending is handled, whatever the process and the others
\* do, unless the process waits, or ends.  Nothing is promised of the later
\* ones in the list, which a process that keeps signalling the first starves.
SignalHandled ==
  \A t \in Processes :
    (signals[t] # << >> /\ signals[t][1].is_pending /\ state[t] # "WAITING")
      ~> (signals[t] = << >> \/ ~ signals[t][1].is_pending \/ state[t] = "KILLED"
          \/ Stuck)
=============================================================================
